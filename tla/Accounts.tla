------------------------------ MODULE Accounts ------------------------------
(***************************************************************************)
(* How accounts come to be and what they may do: signin and signup of      *)
(* service/auth.go, the account endpoints of service/user.go, POST         *)
(* /system/setting for allow-signup, and the setup command, a process of   *)
(* its own on the same database file.                                      *)
(*                                                                         *)
(* As in MemoService a worker is a goroutine (or the setup process) and a  *)
(* step is one access to the database or to Store.userCache.  Of a row     *)
(* only role and status matter here: a user name denotes at most one row   *)
(* (UNIQUE), so signing in by name is signing in as a row; an insert that  *)
(* meets a taken name fails as any other access may.  The role ADMIN gives *)
(* no right that the code asks for and is one with USER.                   *)
(***************************************************************************)
EXTENDS Naturals, FiniteSets

CONSTANTS
  MaxUser,    \* bound on the user ids handed out
  Workers,    \* request goroutines and setup processes
  NoRow, NoRequest

UserIds  == 1 .. MaxUser
Roles    == {"HOST", "USER"}
Statuses == {"NORMAL", "ARCHIVED"}
Row      == [role : Roles, status : Statuses]

Requests ==
       [op : {"setup", "signup"}]
  \cup [op : {"signin"}, target : UserIds]
  \cup [op : {"member"}, user : UserIds]
  \cup [op : {"patch"}, user : UserIds, target : UserIds, status : Statuses]
  \cup [op : {"delete"}, user : UserIds, target : UserIds]
  \cup [op : {"allow"}, user : UserIds, value : BOOLEAN]

ASSUME AccountsAssumption ==
  /\ MaxUser \in Nat
  /\ IsFiniteSet(Workers)
  /\ NoRow \notin Row \cup Roles
  /\ NoRequest \notin Requests

VARIABLES
  users,        \* the table user: the row of each id, or NoRow
  lastUser,     \* sqlite_sequence of user
  allowSignup,  \* the system setting allow-signup
  userCache,    \* Store.userCache of the server: the row of an id, or NoRow
  tokens,       \* ids whose owner was given an access token
  pc,           \* the next shared access of each worker
  request,      \* the request it serves
  held,         \* the user row in its hands
  heldId,       \* and the id of that row
  role,         \* userCreate.Role, as decided so far
  granted,      \* history variable: the role each id was created with
  overlap       \* whether requests may overlap, or come one after the other

table   == <<users, lastUser, granted>>
control == <<pc, request, held, heldId, role>>
vars    == <<table, allowSignup, userCache, tokens, control, overlap>>

Steps == {"idle", "authLoad", "authSelect", "authStore",
          "roleLoad", "roleSelect", "roleStore",
          "listHosts", "readSetting", "insertUser", "selectByName",
          "updateUser", "storeRow", "deleteUser", "uncache",
          "upsertSetting", "giveToken"}

TypeOK ==
  /\ users \in [UserIds -> Row \cup {NoRow}]
  /\ lastUser \in 0 .. MaxUser
  /\ allowSignup \in BOOLEAN
  /\ userCache \in [UserIds -> Row \cup {NoRow}]
  /\ tokens \subseteq UserIds
  /\ pc \in [Workers -> Steps]
  /\ request \in [Workers -> Requests \cup {NoRequest}]
  /\ held \in [Workers -> Row \cup {NoRow}]
  /\ heldId \in [Workers -> 0 .. MaxUser]
  /\ role \in [Workers -> Roles]
  /\ granted \in [UserIds -> Roles \cup {NoRow}]
  /\ overlap \in BOOLEAN

\* An empty database, as applyLatestSchema leaves it.
Init ==
  /\ users = [u \in UserIds |-> NoRow]
  /\ lastUser = 0
  /\ allowSignup = FALSE
  /\ userCache = [u \in UserIds |-> NoRow]
  /\ tokens = {}
  /\ pc = [w \in Workers |-> "idle"]
  /\ request = [w \in Workers |-> NoRequest]
  /\ held = [w \in Workers |-> NoRow]
  /\ heldId = [w \in Workers |-> 0]
  /\ role = [w \in Workers |-> "USER"]
  /\ granted = [u \in UserIds |-> NoRow]
  /\ overlap \in BOOLEAN

Hosts == {u \in UserIds : users[u] # NoRow /\ users[u].role = "HOST"}

-----------------------------------------------------------------------------
Goto(w, step) ==
  /\ pc' = [pc EXCEPT ![w] = step]
  /\ UNCHANGED <<request, held, heldId, role>>

Take(w, id, row, step) ==
  /\ held' = [held EXCEPT ![w] = row]
  /\ heldId' = [heldId EXCEPT ![w] = id]
  /\ pc' = [pc EXCEPT ![w] = step]
  /\ UNCHANGED <<request, role>>

\* Goes on without the row read before.
LetGo(w, step) == Take(w, 0, NoRow, step)

Finish(w) ==
  /\ pc' = [pc EXCEPT ![w] = "idle"]
  /\ request' = [request EXCEPT ![w] = NoRequest]
  /\ held' = [held EXCEPT ![w] = NoRow]
  /\ heldId' = [heldId EXCEPT ![w] = 0]
  /\ role' = [role EXCEPT ![w] = "USER"]

Authenticated == {"member", "patch", "delete", "allow"}

Receive(w) ==
  /\ pc[w] = "idle"
  /\ overlap \/ \A v \in Workers : pc[v] = "idle"
  /\ \E r \in Requests :
       /\ r.op \in Authenticated => r.user \in tokens
       /\ request' = [request EXCEPT ![w] = r]
       /\ pc' = [pc EXCEPT ![w] =
                   IF r.op \in Authenticated THEN "authLoad"
                   ELSE IF r.op = "signin" THEN "selectByName" ELSE "listHosts"]
  /\ UNCHANGED <<held, heldId, role, table, allowSignup, userCache, tokens>>

(***************************************************************************)
(* FindUser by id, called by the JWT middleware and once more by each of   *)
(* the four endpoints, which all want the row for its role.                *)
(***************************************************************************)
\* Where the endpoint goes on once its requester may do what it asks.
Entry == [member |-> "insertUser", patch |-> "updateUser",
          delete |-> "deleteUser", allow |-> "upsertSetting"]

\* (variant: patching is a matter of having an account)
AllowedToPatch(w, row) ==
  IF row.role = "HOST" \/ request[w].op = "patch"
  THEN LetGo(w, Entry[request[w].op])
  ELSE Finish(w)

\* Only the host may, or a user who patches the own account.
Allowed(w, row) ==
  IF \/ row.role = "HOST"
     \/ request[w].op = "patch" /\ request[w].user = request[w].target
  THEN LetGo(w, Entry[request[w].op])
  ELSE Finish(w)

\* The middleware renews the tokens of whoever it finds, the archived too:
\* whoever had one and keeps coming has one for as long as the account exists.
Renew(w) == tokens' = tokens \cup {request[w].user}

AuthLoad(w) ==
  /\ pc[w] = "authLoad"
  /\ IF userCache[request[w].user] # NoRow
     THEN Goto(w, "roleLoad") /\ Renew(w)
     ELSE Goto(w, "authSelect") /\ UNCHANGED tokens
  /\ UNCHANGED <<table, allowSignup, userCache>>

RoleLoad(w) ==
  /\ pc[w] = "roleLoad"
  /\ LET row == userCache[request[w].user] IN
       IF row # NoRow THEN Allowed(w, row) ELSE Goto(w, "roleSelect")
  /\ UNCHANGED <<table, allowSignup, userCache, tokens>>

\* A user that is not found ends the request: after the middleware the
\* endpoint still runs, but without a user in the context it only answers.
UserSelect(w) ==
  /\ pc[w] \in {"authSelect", "roleSelect"}
  /\ LET row == users[request[w].user] IN
       IF row = NoRow THEN Finish(w)
       ELSE Take(w, request[w].user, row,
                 IF pc[w] = "authSelect" THEN "authStore" ELSE "roleStore")
  /\ UNCHANGED <<table, allowSignup, userCache, tokens>>

UserStore(w) ==
  /\ pc[w] \in {"authStore", "roleStore"}
  /\ userCache' = [userCache EXCEPT ![heldId[w]] = held[w]]
  /\ IF pc[w] = "authStore" THEN LetGo(w, "roleLoad") /\ Renew(w)
     ELSE Allowed(w, held[w]) /\ UNCHANGED tokens
  /\ UNCHANGED <<table, allowSignup>>

-----------------------------------------------------------------------------
(***************************************************************************)
(* Signup and setup: look for a host, then insert, in two transactions.    *)
(***************************************************************************)
\* (variant: no look for a host before the setup)
ListHostsNot(w) ==
  /\ pc[w] = "listHosts"
  /\ role' = [role EXCEPT ![w] = "HOST"]
  /\ pc' = [pc EXCEPT ![w] = "insertUser"]
  /\ UNCHANGED <<request, held, heldId, table, allowSignup, userCache, tokens>>

ListHosts(w) ==
  /\ pc[w] = "listHosts"
  /\ IF Hosts = {}
     THEN /\ role' = [role EXCEPT ![w] = "HOST"]
          /\ pc' = [pc EXCEPT ![w] = "insertUser"]
          /\ UNCHANGED <<request, held, heldId>>
     ELSE IF request[w].op = "signup" THEN Goto(w, "readSetting")
     ELSE Finish(w)
  /\ UNCHANGED <<table, allowSignup, userCache, tokens>>

\* (variant: the setting is not looked at)
ReadSettingNot(w) ==
  /\ pc[w] = "readSetting"
  /\ Goto(w, "insertUser")
  /\ UNCHANGED <<table, allowSignup, userCache, tokens>>

ReadSetting(w) ==
  /\ pc[w] = "readSetting"
  /\ IF allowSignup THEN Goto(w, "insertUser") ELSE Finish(w)
  /\ UNCHANGED <<table, allowSignup, userCache, tokens>>

\* Signup, setup and POST /user.  The setup process has a cache of its own,
\* which goes with it.  POST /user refuses the role HOST.
InsertUser(w) ==
  /\ pc[w] = "insertUser"
  /\ lastUser < MaxUser
  /\ lastUser' = lastUser + 1
  /\ LET row == [role |-> role[w], status |-> "NORMAL"] IN
       /\ users' = [users EXCEPT ![lastUser'] = row]
       /\ granted' = [granted EXCEPT ![lastUser'] = role[w]]
       /\ IF request[w].op = "setup" THEN Finish(w)
          ELSE Take(w, lastUser', row, "storeRow")
  /\ UNCHANGED <<allowSignup, userCache, tokens>>

-----------------------------------------------------------------------------
\* Signing in reads the table, never the cache, and refreshes the cache.
SelectByName(w) ==
  /\ pc[w] = "selectByName"
  /\ LET row == users[request[w].target] IN
       IF row = NoRow THEN Finish(w) ELSE Take(w, request[w].target, row, "storeRow")
  /\ UNCHANGED <<table, allowSignup, userCache, tokens>>

\* The row found or returned by the INSERT or UPDATE goes to the cache; an
\* archived user may not sign in, an unarchived one must have the password.
StoreRow(w) ==
  /\ pc[w] = "storeRow"
  /\ userCache' = [userCache EXCEPT ![heldId[w]] = held[w]]
  /\ \/ request[w].op = "signup" /\ Goto(w, "giveToken")
     \/ request[w].op = "signin" /\ held[w].status = "NORMAL" /\ Goto(w, "giveToken")
     \/ request[w].op # "signup" /\ Finish(w)
  /\ UNCHANGED <<table, allowSignup, tokens>>

GiveToken(w) ==
  /\ pc[w] = "giveToken"
  /\ tokens' = tokens \cup {heldId[w]}
  /\ Finish(w)
  /\ UNCHANGED <<table, allowSignup, userCache>>

-----------------------------------------------------------------------------
\* (variant: the row that was read before is written back)
UpdateFromCache(w) ==
  /\ pc[w] = "updateUser"
  /\ LET id  == request[w].target
         row == [(IF userCache[id] # NoRow THEN userCache[id]
                  ELSE [role |-> "USER", status |-> "NORMAL"])
                 EXCEPT !.status = request[w].status]
     IN users' = [users EXCEPT ![id] = row] /\ Take(w, id, row, "storeRow")
  /\ UNCHANGED <<lastUser, granted, allowSignup, userCache, tokens>>

\* UPDATE ... WHERE id = ? RETURNING the row; no row is an error.
UpdateUser(w) ==
  /\ pc[w] = "updateUser"
  /\ LET id == request[w].target IN
       IF users[id] = NoRow THEN Finish(w) /\ UNCHANGED users
       ELSE LET row == [users[id] EXCEPT !.status = request[w].status] IN
            users' = [users EXCEPT ![id] = row] /\ Take(w, id, row, "storeRow")
  /\ UNCHANGED <<lastUser, granted, allowSignup, userCache, tokens>>

DeleteUser(w) ==
  /\ pc[w] = "deleteUser"
  /\ LET id == request[w].target IN
       IF users[id] = NoRow THEN Finish(w) /\ UNCHANGED users
       ELSE users' = [users EXCEPT ![id] = NoRow] /\ Goto(w, "uncache")
  /\ UNCHANGED <<lastUser, granted, allowSignup, userCache, tokens>>

\* (variant: the entry of the requester is dropped)
UncacheRequester(w) ==
  /\ pc[w] = "uncache"
  /\ userCache' = [userCache EXCEPT ![request[w].user] = NoRow]
  /\ Finish(w)
  /\ UNCHANGED <<table, allowSignup, tokens>>

Uncache(w) ==
  /\ pc[w] = "uncache"
  /\ userCache' = [userCache EXCEPT ![request[w].target] = NoRow]
  /\ Finish(w)
  /\ UNCHANGED <<table, allowSignup, tokens>>

UpsertSetting(w) ==
  /\ pc[w] = "upsertSetting"
  /\ allowSignup' = request[w].value
  /\ Finish(w)
  /\ UNCHANGED <<table, userCache, tokens>>

-----------------------------------------------------------------------------
\* A database access may fail (a busy database, a taken name, the last id),
\* and a transaction that fails is rolled back.
Fail(w) ==
  /\ pc[w] \in {"authSelect", "roleSelect", "listHosts", "readSetting",
                "insertUser", "selectByName", "updateUser", "deleteUser",
                "upsertSetting"}
  /\ Finish(w)
  /\ UNCHANGED <<table, allowSignup, userCache, tokens>>

\* The server dies and starts again; a setup process goes on.
Restart ==
  LET Survives(w) == request[w] # NoRequest /\ request[w].op = "setup"
      Reset(f, v) == [w \in Workers |-> IF Survives(w) THEN f[w] ELSE v]
  IN /\ userCache' = [u \in UserIds |-> NoRow]
     /\ pc' = Reset(pc, "idle")
     /\ request' = Reset(request, NoRequest)
     /\ held' = Reset(held, NoRow)
     /\ heldId' = Reset(heldId, 0)
     /\ role' = Reset(role, "USER")
     /\ UNCHANGED <<table, allowSignup, tokens>>

Handle(w) ==
  \/ AuthLoad(w) \/ RoleLoad(w) \/ UserSelect(w) \/ UserStore(w)
  \/ ListHosts(w) \/ ReadSetting(w) \/ InsertUser(w)
  \/ SelectByName(w) \/ StoreRow(w) \/ GiveToken(w)
  \/ UpdateUser(w) \/ DeleteUser(w) \/ Uncache(w) \/ UpsertSetting(w)

Next ==
  /\ \/ \E w \in Workers : Receive(w) \/ Handle(w) \/ Fail(w)
     \/ Restart
  /\ UNCHANGED overlap

Spec == Init /\ [][Next]_vars

-----------------------------------------------------------------------------
(***************************************************************************)
(* Requests one after the other, of whatever workers.                      *)
(***************************************************************************)
\* setup.go:56 and auth.go:77: a host is made only when there is none, so
\* there is at most one.
OneHost == Cardinality(Hosts) <= 1

\* The promise holds as long as no signup or setup starts before the other
\* has ended, whatever fails or restarts.
OneHostInTurn == ~ overlap => OneHost

\* An entry of the user cache that a request may read is the row of the
\* table, through patches, deletions, signins and whatever setup does.
CacheIsCurrent ==
  ~ overlap /\ (\A w \in Workers : pc[w] \in {"idle", "authLoad", "roleLoad"}) =>
    \A u \in UserIds : userCache[u] # NoRow => userCache[u] = users[u]

\* auth.go:80-99: an account comes from the host, or is the first host, or
\* signing up was allowed.
SignupsAllowed ==
  [][~ overlap => \A u \in UserIds : users[u] = NoRow /\ users'[u] # NoRow =>
       \/ Hosts = {} /\ users'[u].role = "HOST"
       \/ /\ users'[u].role = "USER"
          /\ allowSignup \/ \E w \in Workers : request[w] # NoRequest
                                              /\ request[w].op = "member"]_vars

(***************************************************************************)
(* Any interleaving.                                                       *)
(***************************************************************************)
\* Signups and setups that saw no host, about to insert one.
Founding == {w \in Workers : pc[w] = "insertUser" /\ role[w] = "HOST"}

\* The look and the insert are two transactions, so several founders may pass
\* the look together (auth.go:70-120, setup.go:46-60); each still makes only
\* one host, and none starts while a host is there: there are never more hosts
\* than processes.
FoundersBounded ==
  Cardinality(Hosts) + Cardinality(Founding) <= Cardinality(Workers)

\* Rows in the table, the cache and in hands have the role their id was
\* created with: a role is never changed and an id never given again, which is
\* why a stale row is good enough for the role check.
HasRole(u, row) == u \in UserIds /\ granted[u] = row.role
RolesKept ==
  /\ \A u \in UserIds : users[u] # NoRow => HasRole(u, users[u])
  /\ \A u \in UserIds : userCache[u] # NoRow => HasRole(u, userCache[u])
  /\ \A w \in Workers : held[w] # NoRow => HasRole(heldId[w], held[w])
  /\ \A u \in UserIds : granted[u] # NoRow => u <= lastUser

\* At each place a handler has passed the check that guards it.
Entitled(w, ops) ==
  /\ request[w] # NoRequest /\ request[w].op \in ops
  /\ granted[request[w].user] = "HOST"
Knows(w) ==
  /\ pc[w] \in {"authLoad", "authSelect", "authStore", "roleLoad",
                "roleSelect", "roleStore"} =>
       request[w] # NoRequest /\ request[w].op \in Authenticated
  /\ pc[w] \in {"authStore", "roleStore"} =>
       held[w] # NoRow /\ heldId[w] = request[w].user
  /\ pc[w] \in {"listHosts", "readSetting"} =>
       request[w] # NoRequest /\ request[w].op \in {"setup", "signup"}
  /\ pc[w] = "insertUser" =>
       \/ role[w] = "USER" /\ Entitled(w, {"member"})
       \/ request[w] # NoRequest /\ request[w].op \in {"setup", "signup"}
  /\ role[w] = "HOST" => pc[w] \in {"insertUser", "storeRow", "giveToken"}
  /\ pc[w] = "selectByName" => request[w] # NoRequest /\ request[w].op = "signin"
  /\ pc[w] \in {"storeRow", "giveToken"} => request[w] # NoRequest /\ held[w] # NoRow
  /\ pc[w] = "updateUser" =>
       \/ Entitled(w, {"patch"})
       \/ /\ request[w] # NoRequest /\ request[w].op = "patch"
          /\ request[w].user = request[w].target
  /\ pc[w] \in {"deleteUser", "uncache"} => Entitled(w, {"delete"})
  /\ pc[w] = "upsertSetting" => Entitled(w, {"allow"})

IInv ==
  /\ TypeOK
  /\ FoundersBounded
  /\ RolesKept
  /\ \A w \in Workers : Knows(w)

\* Why the promises for requests in turn hold: one worker is busy, it has the
\* row of the table in hand when it stores it, what it is about to replace or
\* drop is the only stale entry, and it founds only while there is no host.
InTurn ==
  \A v, w \in Workers : pc[v] # "idle" /\ pc[w] # "idle" => v = w
Settling(u) == \E w \in Workers :
  \/ pc[w] = "storeRow" /\ heldId[w] = u
  \/ pc[w] = "uncache" /\ request[w].target = u
TurnInv ==
  ~ overlap =>
    /\ InTurn
    /\ \A u \in UserIds :
         userCache[u] # NoRow => userCache[u] = users[u] \/ Settling(u)
    /\ \A w \in Workers : pc[w] \in {"authStore", "roleStore", "storeRow"} =>
         held[w] = users[heldId[w]]
    /\ Founding # {} => Hosts = {}
    /\ \A u, v \in Hosts : u = v

Acting(w, ops) ==
  /\ pc'[w] # pc[w]
  /\ request[w] # NoRequest /\ request[w].op \in ops
ByHost(ops) ==
  \E w \in Workers : Acting(w, ops) /\ granted[request[w].user] = "HOST"
ByOwner(u) ==
  \E w \in Workers : Acting(w, {"patch"}) /\ request[w].user = u

\* An account is changed only by its owner or by a host, removed only by a
\* host, and allow-signup is set only by a host - by the role the requester
\* was created with, whatever the caches say (user.go:187, :255, system.go:131).
OnlyHostsAdminister ==
  [][/\ \A u \in UserIds : users[u] # NoRow /\ users'[u] # users[u] =>
          \/ /\ users'[u] # NoRow /\ users'[u].role = users[u].role
             /\ ByHost({"patch"}) \/ ByOwner(u)
          \/ users'[u] = NoRow /\ ByHost({"delete"})
     /\ allowSignup' # allowSignup => ByHost({"allow"})]_vars

(***************************************************************************)
(* Seen from the table user, accounts are made and deleted by transactions *)
(* of StoreDB, whatever overlaps.                                          *)
(***************************************************************************)
Tables == INSTANCE StoreDB WITH
  MaxMemo <- 0, MaxResource <- 0, MaxShortcut <- 0, Keys <- {}, Names <- {},
  db <- [user |-> {u \in UserIds : users[u] # NoRow}, memo |-> {},
         resource |-> {}, shortcut |-> {}, userSetting |-> {},
         organizer |-> {}, memoResource |-> {}, tag |-> {}],
  seq <- [user |-> lastUser, memo |-> 0, resource |-> 0, shortcut |-> 0]

RefinesTables == Tables!Spec
=============================================================================
