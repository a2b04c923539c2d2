----------------------------- MODULE UserSettings -----------------------------
(***************************************************************************)
(* The visibility of a new memo: the user setting memo-visibility with     *)
(* Store.userSettingCache, which also remembers that a user has none, and  *)
(* the system setting disable-public-memos.                                *)
(*                                                                         *)
(* A worker is the goroutine of a request; each of its steps is one access *)
(* to the cache or one transaction.  As in Shortcuts a request may act for *)
(* an account that is already gone.  Of the keys of user_setting only      *)
(* memo-visibility is read one by one; the others have entries of their    *)
(* own in the cache and nobody reads those.                                *)
(***************************************************************************)
EXTENDS Naturals

CONSTANTS
  NumUsers,  \* accounts at the start, ids 1 .. NumUsers
  Regular,   \* those with the role USER
  Values,    \* stored settings considered, of Visibilities and "null"
  Asked,     \* the visibility a memo is posted with: any string, "" for none
  Workers,   \* request goroutines
  Unset,     \* there is no row; in the cache: known not to be there
  Miss,      \* there is no cache entry
  NoRequest

Users == 1 .. NumUsers

\* What the table memo accepts.
Visibilities == {"PRIVATE", "PROTECTED", "PUBLIC"}
Setting      == Values \cup {Unset}

\* list: GET /user/me, and PATCH /user/:id once it has patched the account.
\* disable: POST /system/setting.  vacuum: POST /system/vacuum, and the
\* deletion of a memo or a resource.
Requests ==
       [op : {"set"}, user : Users, value : Values]
  \cup [op : {"list"}, user : Users]
  \cup [op : {"create"}, user : Users, visibility : Asked]
  \cup [op : {"disable"}, value : BOOLEAN]
  \cup [op : {"deleteUser"}, user : Users]
  \cup [op : {"vacuum"}]

ASSUME SettingsAssumption ==
  /\ NumUsers \in Nat
  /\ Regular \subseteq Users
  /\ Values \subseteq Visibilities \cup {"null"}
  /\ Unset \notin Values
  /\ Miss \notin Setting
  /\ NoRequest \notin Requests

VARIABLES
  user,      \* ids in the table user
  setting,   \* the row memo-visibility of each user, or Unset
  disabled,  \* the system setting disable-public-memos
  cache,     \* Store.userSettingCache under the key memo-visibility
  pc,        \* the next shared access of each worker
  held,      \* the setting in its hands, then memoCreate.Visibility
  request,   \* the request it serves
  \* history variables:
  raced,     \* users whose setting was written between another worker's read
             \* of it and the store in the cache, since the last start
  seen,      \* settings the user of a memo had while it got its default
  allowed    \* workers for which public memos were allowed in that time

db      == <<user, setting, disabled>>
control == <<pc, held, request>>
history == <<raced, seen, allowed>>
vars    == <<db, cache, control, history>>

Steps == {"idle", "upsert", "select", "store", "load", "find", "fill",
          "check", "role", "insert", "activity", "disable", "deleteUser", "vacuum"}

TypeOK ==
  /\ user \subseteq Users
  /\ setting \in [Users -> Setting]
  /\ disabled \in BOOLEAN
  /\ cache \in [Users -> Setting \cup {Miss}]
  /\ pc \in [Workers -> Steps]
  /\ held \in [Workers -> Setting \cup Asked \cup Visibilities]
  /\ request \in [Workers -> Requests \cup {NoRequest}]
  /\ raced \subseteq Users
  /\ seen \in [Workers -> SUBSET Setting]
  /\ allowed \subseteq Workers

Init ==
  /\ user = Users
  /\ setting = [u \in Users |-> Unset]
  /\ disabled = FALSE
  /\ cache = [u \in Users |-> Miss]
  /\ pc = [w \in Workers |-> "idle"]
  /\ held = [w \in Workers |-> Unset]
  /\ request = [w \in Workers |-> NoRequest]
  /\ raced = {}
  /\ seen = [w \in Workers |-> {}]
  /\ allowed = {}

-----------------------------------------------------------------------------
Serving(w, ops) == request[w] # NoRequest /\ request[w].op \in ops

Goto(w, step) ==
  /\ pc' = [pc EXCEPT ![w] = step]
  /\ UNCHANGED <<held, request>>

\* The next step has this in hand.
Take(w, value, step) ==
  /\ held' = [held EXCEPT ![w] = value]
  /\ pc' = [pc EXCEPT ![w] = step]
  /\ UNCHANGED request

Finish(w) ==
  /\ pc' = [pc EXCEPT ![w] = "idle"]
  /\ held' = [held EXCEPT ![w] = Unset]
  /\ request' = [request EXCEPT ![w] = NoRequest]

\* The end of POST /memo, for the history variables too.
FinishCreate(w) ==
  /\ Finish(w)
  /\ seen' = [seen EXCEPT ![w] = {}]
  /\ allowed' = allowed \ {w}
  /\ UNCHANGED <<db, cache, raced>>

\* The worker is about to store a setting of u in the cache.
Storing(w, u) == pc[w] \in {"fill", "store"} /\ request[w].user = u

\* An entry about to be replaced: no answer has told of the new one yet.
Settling(u) == \E w \in Workers : Storing(w, u)

\* A memo with no visibility of its own takes the user's default.
Defaulting(r) == r # NoRequest /\ r.op = "create" /\ r.visibility = ""

Choosing(w) ==
  pc[w] \in {"load", "find", "fill", "check"} /\ Defaulting(request[w])

Receive(w) ==
  /\ pc[w] = "idle"
  /\ \E r \in Requests :
       /\ request' = [request EXCEPT ![w] = r]
       /\ held' = [held EXCEPT ![w] = IF r.op = "create" THEN r.visibility ELSE Unset]
       /\ pc' = [pc EXCEPT ![w] =
                   CASE r.op = "set" -> "upsert"
                     [] r.op = "list" -> "select"
                     [] r.op = "create" ->
                          IF r.visibility = "" THEN "load" ELSE "check"
                     [] OTHER -> r.op]
       /\ seen' = [seen EXCEPT ![w] =
                     IF ~ Defaulting(r) THEN {}
                     ELSE {setting[r.user]} \cup
                          (IF Settling(r.user) THEN {cache[r.user]} \ {Miss} ELSE {})]
       /\ allowed' = IF r.op = "create" /\ ~ disabled THEN allowed \cup {w} ELSE allowed
  /\ UNCHANGED <<db, cache, raced>>

-----------------------------------------------------------------------------
(***************************************************************************)
(* Writing and listing settings.                                           *)
(***************************************************************************)
\* The row of u changes under a transaction of w.
Written(w, u) ==
  raced' = raced \cup {t \in {u} : \E v \in Workers \ {w} : Storing(v, t)}

\* What the user of a memo has now was had while the memo gets its default.
Witnessed ==
  seen' = [w \in Workers |->
             IF Choosing(w)
             THEN seen[w] \cup {setting'[request[w].user]} ELSE seen[w]]

\* (variant: the committed row is not stored in the cache)
UpsertOnly(w) ==
  /\ pc[w] = "upsert"
  /\ LET u == request[w].user IN
       /\ setting' = [setting EXCEPT ![u] = request[w].value]
       /\ Written(w, u)
  /\ Witnessed
  /\ Finish(w)
  /\ UNCHANGED <<user, disabled, cache, allowed>>

Upsert(w) ==
  /\ pc[w] = "upsert"
  /\ LET u == request[w].user IN
       /\ setting' = [setting EXCEPT ![u] = request[w].value]
       /\ Written(w, u)
  /\ Witnessed
  /\ Take(w, request[w].value, "store")
  /\ UNCHANGED <<user, disabled, cache, allowed>>

\* FindUserSettingList stores the rows it finds; a missing one is no entry.
Select(w) ==
  /\ pc[w] = "select"
  /\ LET row == setting[request[w].user] IN
       IF row # Unset THEN Take(w, row, "store") ELSE Finish(w)
  /\ UNCHANGED <<db, cache, history>>

\* (variant: the entry is stored under the key of every user)
StoreForAll(w) ==
  /\ pc[w] = "store"
  /\ cache' = [u \in Users |-> held[w]]
  /\ Finish(w)
  /\ UNCHANGED <<db, history>>

Store(w) ==
  /\ pc[w] = "store"
  /\ cache' = [cache EXCEPT ![request[w].user] = held[w]]
  /\ Finish(w)
  /\ UNCHANGED <<db, history>>

-----------------------------------------------------------------------------
(***************************************************************************)
(* POST /memo: the default, the check of the system setting, the insert.   *)
(***************************************************************************)
\* A missing setting and a JSON null leave the default where it was.
Decode(value) == IF value \in Visibilities THEN value ELSE "PRIVATE"

Load(w) ==
  /\ pc[w] = "load"
  /\ LET entry == cache[request[w].user] IN
       IF entry # Miss THEN Take(w, Decode(entry), "check") ELSE Goto(w, "find")
  /\ UNCHANGED <<db, cache, history>>

Find(w) ==
  /\ pc[w] = "find"
  /\ Take(w, setting[request[w].user], "fill")
  /\ UNCHANGED <<db, cache, history>>

\* Also that there is no setting goes into the cache.
Fill(w) ==
  /\ pc[w] = "fill"
  /\ cache' = [cache EXCEPT ![request[w].user] = held[w]]
  /\ Take(w, Decode(held[w]), "check")
  /\ UNCHANGED <<db, history>>

Check(w) ==
  /\ pc[w] = "check"
  /\ Goto(w, IF disabled THEN "role" ELSE "insert")
  /\ seen' = [seen EXCEPT ![w] = {}]
  /\ UNCHANGED <<db, cache, raced, allowed>>

\* (variant: the user's own default is not touched)
EnforceOnAsked(w) ==
  /\ pc[w] = "role"
  /\ \/ /\ Take(w, IF request[w].user \in Regular /\ request[w].visibility # ""
                   THEN "PRIVATE" ELSE held[w], "insert")
        /\ UNCHANGED <<db, cache, history>>
     \/ request[w].user \notin user /\ FinishCreate(w)

\* A deleted user is found as long as userCache has him (MemoService).
Enforce(w) ==
  /\ pc[w] = "role"
  /\ \/ /\ Take(w, IF request[w].user \in Regular THEN "PRIVATE" ELSE held[w], "insert")
        /\ UNCHANGED <<db, cache, history>>
     \/ request[w].user \notin user /\ FinishCreate(w)

\* The table checks the visibility.  What follows the insert is MemoService's.
Insert(w) ==
  /\ pc[w] = "insert"
  /\ IF held[w] \in Visibilities
     THEN Goto(w, "activity") /\ UNCHANGED <<db, cache, history>>
     ELSE FinishCreate(w)

Activity(w) ==
  /\ pc[w] = "activity"
  /\ FinishCreate(w)

-----------------------------------------------------------------------------
(***************************************************************************)
(* Administration.                                                         *)
(***************************************************************************)
Disable(w) ==
  /\ pc[w] = "disable"
  /\ disabled' = request[w].value
  /\ allowed' = IF disabled' THEN allowed
                ELSE allowed \cup {v \in Workers : Serving(v, {"create"})}
  /\ Finish(w)
  /\ UNCHANGED <<user, setting, cache, raced, seen>>

\* vacuumUserSetting; the entries in the cache stay.
Vacuumed(users) == [u \in Users |-> IF u \in users THEN setting[u] ELSE Unset]

DeleteUser(w) ==
  /\ pc[w] = "deleteUser"
  /\ request[w].user \in user
  /\ user' = user \ {request[w].user}
  /\ setting' = Vacuumed(user')
  /\ Witnessed
  /\ Finish(w)
  /\ UNCHANGED <<disabled, cache, raced, allowed>>

Vacuum(w) ==
  /\ pc[w] = "vacuum"
  /\ setting' = Vacuumed(user)
  /\ Witnessed
  /\ Finish(w)
  /\ UNCHANGED <<user, disabled, cache, raced, allowed>>

\* A database access fails, or an account to be deleted is not there: the
\* transaction is rolled back and the handler answers with an error.
Fail(w) ==
  /\ \/ /\ pc[w] \in {"upsert", "select", "disable", "deleteUser", "vacuum"}
        /\ Finish(w)
        /\ UNCHANGED <<db, cache, history>>
     \/ pc[w] \in {"find", "check", "role", "insert", "activity"} /\ FinishCreate(w)

\* The process ends at any point and starts again, with an empty cache.
Restart ==
  /\ cache' = [u \in Users |-> Miss]
  /\ pc' = [w \in Workers |-> "idle"]
  /\ held' = [w \in Workers |-> Unset]
  /\ request' = [w \in Workers |-> NoRequest]
  /\ raced' = {}
  /\ seen' = [w \in Workers |-> {}]
  /\ allowed' = {}
  /\ UNCHANGED db

Handle(w) ==
  \/ Upsert(w) \/ Select(w) \/ Store(w)
  \/ Load(w) \/ Find(w) \/ Fill(w) \/ Check(w) \/ Enforce(w) \/ Insert(w)
  \/ Activity(w) \/ Disable(w) \/ DeleteUser(w) \/ Vacuum(w)

Next ==
  \/ \E w \in Workers : Receive(w) \/ Handle(w) \/ Fail(w)
  \/ Restart

Spec == Init /\ [][Next]_vars

-----------------------------------------------------------------------------
(***************************************************************************)
(* Safety.                                                                 *)
(***************************************************************************)
\* The value is what the table says of u, or the row went with the account.
Agrees(u, value) ==
  \/ value = setting[u]
  \/ setting[u] = Unset /\ u \notin user

\* The cache, its memory that there is no setting included
\* (user_setting.go:88), agrees with the table but for the users whose
\* setting was written between a read of it and the store in the cache.
StaleOnlyAfterRace ==
  \A u \in Users \ raced :
    cache[u] # Miss /\ ~ Settling(u) => Agrees(u, cache[u])

\* Without such a race the default a memo gets (memo.go:35) is one its user
\* had chosen while the request was served, or that no answer had confirmed
\* to be replaced when it began.
DefaultIsRecent ==
  \A w \in Workers :
    pc[w] = "check" /\ Defaulting(request[w])
      /\ request[w].user \in user \ raced
    => held[w] \in {Decode(value) : value \in seen[w]}

\* A regular user's memo that others may see was allowed at some moment of
\* the request: the setting is read before the role, and both before the
\* insert (memo.go:59, :75, :96).
PublicOnlyIfAllowed ==
  [][\A w \in Workers :
       pc[w] = "insert" /\ pc'[w] = "activity"
         /\ request[w].user \in Regular /\ held[w] # "PRIVATE"
       => w \in allowed]_vars

(***************************************************************************)
(* Why they hold: an inductive invariant.                                  *)
(***************************************************************************)
\* What each place in a handler knows.
Knows(w) ==
  /\ pc[w] = "upsert" => Serving(w, {"set"})
  /\ pc[w] = "select" => Serving(w, {"list"})
  /\ pc[w] = "store" => Serving(w, {"set", "list"}) /\ held[w] \in Setting
  /\ pc[w] \in {"load", "find", "fill"} => Defaulting(request[w])
  /\ pc[w] = "fill" => held[w] \in Setting
  /\ pc[w] \in {"check", "role", "insert"} => Serving(w, {"create"})
  /\ pc[w] = "disable" => Serving(w, {"disable"})
  /\ pc[w] = "deleteUser" => Serving(w, {"deleteUser"})

\* A value about to be stored agrees with the table unless a write came since.
FreshInHand(w) ==
  pc[w] \in {"fill", "store"} /\ request[w].user \notin raced =>
    Agrees(request[w].user, held[w])

\* What a request may find as the default was seen: the row now, the cache
\* entry, and what others are about to store there.
SeenCovers(w) ==
  pc[w] \in {"load", "find", "fill"} /\ request[w].user \in user =>
    LET u == request[w].user IN
      /\ setting[u] \in seen[w]
      /\ pc[w] = "fill" => held[w] \in seen[w]
      /\ u \notin raced =>
           /\ cache[u] # Miss => cache[u] \in seen[w]
           /\ \A v \in Workers : Storing(v, u) => held[v] \in seen[w]

AllowedPast(w) ==
  /\ Serving(w, {"create"}) /\ ~ disabled => w \in allowed
  /\ pc[w] = "insert" /\ request[w].user \in Regular /\ held[w] # "PRIVATE" =>
       w \in allowed

IInv ==
  /\ TypeOK
  /\ \A w \in Workers :
       Knows(w) /\ FreshInHand(w) /\ SeenCovers(w) /\ AllowedPast(w)
  /\ StaleOnlyAfterRace /\ DefaultIsRecent

(***************************************************************************)
(* Seen from the tables user and user_setting, the endpoints do nothing    *)
(* but transactions of StoreDB.                                            *)
(***************************************************************************)
Key == "memo-visibility"

Tables == INSTANCE StoreDB WITH
  MaxUser <- NumUsers, MaxMemo <- 0, MaxResource <- 0, MaxShortcut <- 0,
  Keys <- {Key}, Names <- {},
  db <- [user |-> user, memo |-> {}, resource |-> {}, shortcut |-> {},
         userSetting |-> {[user |-> u, key |-> Key] :
                            u \in {v \in Users : setting[v] # Unset}},
         organizer |-> {}, memoResource |-> {}, tag |-> {}],
  seq <- [user |-> NumUsers, memo |-> 0, resource |-> 0, shortcut |-> 0]

RefinesTables == Tables!Spec
=============================================================================
