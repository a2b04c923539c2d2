------------------------------ MODULE Shortcuts ------------------------------
(***************************************************************************)
(* The endpoints of service/shortcut.go on the table shortcut and on       *)
(* Store.shortcutCache, next to the transactions that vacuum the table.    *)
(*                                                                         *)
(* A worker is the goroutine of a request; each of its steps is one access *)
(* to the cache or one transaction, as in MemoService.  The user a request *)
(* acts for is the one JWTMiddleware let in: anyone who has an account or  *)
(* had one (a deleted user may still be in userCache, see MemoService).    *)
(* What a shortcut says (title, payload, row status) is one value.         *)
(***************************************************************************)
EXTENDS Naturals

CONSTANTS
  NumUsers,     \* accounts at the start, ids 1 .. NumUsers
  MaxShortcut,  \* bound on the shortcut ids handed out
  Bodies,       \* what a shortcut can say
  Workers,      \* request goroutines
  NoRow, NoRequest

Users == 1 .. NumUsers
Ids   == 1 .. MaxShortcut
Row   == [id : Ids, creator : Users, body : Bodies]

\* get: whoever asks, its handler does not look.
\* vacuum: POST /system/vacuum, and the deletion of any memo or resource,
\* whose transactions vacuum every table.
Requests ==
       [op : {"create"}, user : Users, body : Bodies]
  \cup [op : {"patch"}, user : Users, id : Ids, body : Bodies]
  \cup [op : {"delete"}, user : Users, id : Ids]
  \cup [op : {"get"}, id : Ids]
  \cup [op : {"deleteUser"}, target : Users]
  \cup [op : {"vacuum"}]

ASSUME ShortcutsAssumption ==
  /\ NumUsers \in Nat
  /\ MaxShortcut \in Nat
  /\ NoRow \notin Row
  /\ NoRequest \notin Requests

VARIABLES
  user,      \* ids in the table user
  shortcut,  \* the table shortcut: the row of each id, or NoRow
  last,      \* sqlite_sequence of shortcut
  cache,     \* Store.shortcutCache: the raw row under each id, or NoRow
  pc,        \* the next shared access of each worker
  held,      \* the shortcut row in its hands
  request,   \* the request it serves
  raced      \* history variable: ids written between another worker's read
             \* of the row and its store in the cache, since the last start

db      == <<user, shortcut, last>>
control == <<pc, held, request>>
vars    == <<db, cache, control, raced>>

Steps == {"idle", "load", "select", "fill", "insert", "update", "save",
          "activity", "delete", "uncache", "deleteUser", "vacuum", "reply"}

TypeOK ==
  /\ user \subseteq Users
  /\ shortcut \in [Ids -> Row \cup {NoRow}]
  /\ last \in 0 .. MaxShortcut
  /\ cache \in [Ids -> Row \cup {NoRow}]
  /\ pc \in [Workers -> Steps]
  /\ held \in [Workers -> Row \cup {NoRow}]
  /\ request \in [Workers -> Requests \cup {NoRequest}]
  /\ raced \subseteq Ids

Init ==
  /\ user = Users
  /\ shortcut = [s \in Ids |-> NoRow]
  /\ last = 0
  /\ cache = [s \in Ids |-> NoRow]
  /\ pc = [w \in Workers |-> "idle"]
  /\ held = [w \in Workers |-> NoRow]
  /\ request = [w \in Workers |-> NoRequest]
  /\ raced = {}

-----------------------------------------------------------------------------
Goto(w, step) ==
  /\ pc' = [pc EXCEPT ![w] = step]
  /\ UNCHANGED <<held, request>>

\* The next step has this row in hand.
Take(w, row, step) ==
  /\ held' = [held EXCEPT ![w] = row]
  /\ pc' = [pc EXCEPT ![w] = step]
  /\ UNCHANGED request

Finish(w) ==
  /\ pc' = [pc EXCEPT ![w] = "idle"]
  /\ held' = [held EXCEPT ![w] = NoRow]
  /\ request' = [request EXCEPT ![w] = NoRequest]

\* The handler starts: an endpoint for one shortcut looks for it first.
Receive(w) ==
  /\ pc[w] = "idle"
  /\ \E r \in Requests :
       /\ request' = [request EXCEPT ![w] = r]
       /\ pc' = [pc EXCEPT ![w] =
                   CASE r.op = "create" -> "insert"
                     [] r.op \in {"deleteUser", "vacuum"} -> r.op
                     [] OTHER -> "load"]
  /\ UNCHANGED <<held, db, cache, raced>>

-----------------------------------------------------------------------------
(***************************************************************************)
(* Store.FindShortcut by id, and what the endpoints do with its row.       *)
(***************************************************************************)
\* (variant: nobody checks the owner)
FoundForAll(w, row) ==
  Take(w, row, CASE request[w].op = "patch"  -> "update"
                 [] request[w].op = "delete" -> "delete"
                 [] OTHER                    -> "reply")

\* GET answers with the row; PATCH and DELETE check that its creator, which
\* may come from the cache, is the user.
Found(w, row) ==
  \/ request[w].op = "get" /\ Take(w, row, "reply")
  \/ /\ request[w].op \in {"patch", "delete"}
     /\ IF row.creator # request[w].user THEN Finish(w)
        ELSE IF request[w].op = "patch" THEN Take(w, row, "update")
        ELSE Take(w, row, "delete")

Load(w) ==
  /\ pc[w] = "load"
  /\ LET row == cache[request[w].id] IN
       IF row # NoRow THEN Found(w, row) ELSE Goto(w, "select")
  /\ UNCHANGED <<db, cache, raced>>

Select(w) ==
  /\ pc[w] = "select"
  /\ LET row == shortcut[request[w].id] IN
       IF row # NoRow THEN Take(w, row, "fill") ELSE Finish(w)
  /\ UNCHANGED <<db, cache, raced>>

Fill(w) ==
  /\ pc[w] = "fill"
  /\ cache' = [cache EXCEPT ![held[w].id] = held[w]]
  /\ Found(w, held[w])
  /\ UNCHANGED <<db, raced>>

-----------------------------------------------------------------------------
(***************************************************************************)
(* The transactions, and the cache after the commit.                       *)
(***************************************************************************)
\* The worker has the row in hand and is about to store it in the cache.
Storing(w, id) == pc[w] \in {"fill", "save"} /\ held[w].id = id

\* A transaction of w writes the row of this id.
Written(w, id) ==
  raced' = raced \cup {s \in {id} : \E v \in Workers \ {w} : Storing(v, id)}

Insert(w) ==
  /\ pc[w] = "insert"
  /\ last < MaxShortcut
  /\ LET row == [id |-> last + 1, creator |-> request[w].user,
                 body |-> request[w].body] IN
       /\ shortcut' = [shortcut EXCEPT ![last + 1] = row]
       /\ Take(w, row, "save")
  /\ last' = last + 1
  /\ UNCHANGED <<user, cache, raced>>

\* With the largest id given out, SQLite refuses the insert (SQLITE_FULL).
InsertFull(w) ==
  /\ pc[w] = "insert"
  /\ last = MaxShortcut
  /\ Finish(w)
  /\ UNCHANGED <<db, cache, raced>>

\* (variant: a row that is gone is written again)
UpdateOrInsert(w) ==
  /\ pc[w] = "update"
  /\ LET row == [held[w] EXCEPT !.body = request[w].body] IN
       /\ shortcut' = [shortcut EXCEPT ![row.id] = row]
       /\ Take(w, row, "save")
       /\ Written(w, row.id)
  /\ UNCHANGED <<user, last, cache>>

\* UPDATE ... WHERE id = ? RETURNING the row; no row is an error.
Update(w) ==
  /\ pc[w] = "update"
  /\ LET id == request[w].id
         row == shortcut[id] IN
       IF row # NoRow
       THEN LET saved == [row EXCEPT !.body = request[w].body] IN
              /\ shortcut' = [shortcut EXCEPT ![id] = saved]
              /\ Take(w, saved, "save")
              /\ Written(w, id)
       ELSE Finish(w) /\ UNCHANGED <<shortcut, raced>>
  /\ UNCHANGED <<user, last, cache>>

\* (variant: the saved row is not stored)
SaveNothing(w) ==
  /\ pc[w] = "save"
  /\ IF request[w].op = "create" THEN Goto(w, "activity") ELSE Goto(w, "reply")
  /\ UNCHANGED <<db, cache, raced>>

\* The row of RETURNING goes into the cache.  A new shortcut is recorded in
\* the activity table before the handler answers.
Save(w) ==
  /\ pc[w] = "save"
  /\ cache' = [cache EXCEPT ![held[w].id] = held[w]]
  /\ IF request[w].op = "create" THEN Goto(w, "activity") ELSE Goto(w, "reply")
  /\ UNCHANGED <<db, raced>>

Activity(w) ==
  /\ pc[w] = "activity"
  /\ Goto(w, "reply")
  /\ UNCHANGED <<db, cache, raced>>

\* DELETE ... WHERE id = ?; no row is the NotFound error.
Delete(w) ==
  /\ pc[w] = "delete"
  /\ LET id == request[w].id IN
       IF shortcut[id] # NoRow
       THEN /\ shortcut' = [shortcut EXCEPT ![id] = NoRow]
            /\ Written(w, id)
            /\ Goto(w, "uncache")
       ELSE Finish(w) /\ UNCHANGED <<shortcut, raced>>
  /\ UNCHANGED <<user, last, cache>>

\* (variant: the entry stays)
UncacheNothing(w) ==
  /\ pc[w] = "uncache"
  /\ Goto(w, "reply")
  /\ UNCHANGED <<db, cache, raced>>

Uncache(w) ==
  /\ pc[w] = "uncache"
  /\ cache' = [cache EXCEPT ![request[w].id] = NoRow]
  /\ Goto(w, "reply")
  /\ UNCHANGED <<db, raced>>

\* vacuumShortcut: the shortcuts whose creator is gone.  The entries in the
\* cache are not dropped with them.
Vacuumed(users) ==
  [s \in Ids |-> IF shortcut[s] # NoRow /\ shortcut[s].creator \in users
                 THEN shortcut[s] ELSE NoRow]

\* (variant: the shortcuts stay behind)
DeleteUserOnly(w) ==
  /\ pc[w] = "deleteUser"
  /\ IF request[w].target \in user
     THEN user' = user \ {request[w].target} /\ Goto(w, "reply")
     ELSE Finish(w) /\ UNCHANGED user
  /\ UNCHANGED <<shortcut, last, cache, raced>>

DeleteUser(w) ==
  /\ pc[w] = "deleteUser"
  /\ IF request[w].target \in user
     THEN /\ user' = user \ {request[w].target}
          /\ shortcut' = Vacuumed(user')
          /\ Goto(w, "reply")
     ELSE Finish(w) /\ UNCHANGED <<user, shortcut>>
  /\ UNCHANGED <<last, cache, raced>>

Vacuum(w) ==
  /\ pc[w] = "vacuum"
  /\ shortcut' = Vacuumed(user)
  /\ Goto(w, "reply")
  /\ UNCHANGED <<user, last, cache, raced>>

-----------------------------------------------------------------------------
Reply(w) ==
  /\ pc[w] = "reply"
  /\ Finish(w)
  /\ UNCHANGED <<db, cache, raced>>

\* A database access fails and the handler answers 500; a transaction that
\* fails is rolled back.
Fail(w) ==
  /\ pc[w] \in {"select", "insert", "update", "activity", "delete",
                "deleteUser", "vacuum"}
  /\ Finish(w)
  /\ UNCHANGED <<db, cache, raced>>

\* The process ends at any point and starts again, with an empty cache.
Restart ==
  /\ cache' = [s \in Ids |-> NoRow]
  /\ pc' = [w \in Workers |-> "idle"]
  /\ held' = [w \in Workers |-> NoRow]
  /\ request' = [w \in Workers |-> NoRequest]
  /\ raced' = {}
  /\ UNCHANGED db

Handle(w) ==
  \/ Load(w) \/ Select(w) \/ Fill(w)
  \/ Insert(w) \/ InsertFull(w) \/ Update(w) \/ Save(w) \/ Activity(w)
  \/ Delete(w) \/ Uncache(w) \/ DeleteUser(w) \/ Vacuum(w) \/ Reply(w)

Next ==
  \/ \E w \in Workers : Receive(w) \/ Handle(w) \/ Fail(w)
  \/ Restart

Spec == Init /\ [][Next]_vars

-----------------------------------------------------------------------------
(***************************************************************************)
(* Safety.                                                                 *)
(***************************************************************************)
\* The row says what the table says, or was vacuumed with its creator:
\* nothing drops the cache entries of a deleted account (store/user.go:339).
Agrees(row) ==
  \/ row = shortcut[row.id]
  \/ shortcut[row.id] = NoRow /\ row.creator \notin user

\* A cache entry about to be replaced or dropped.
Settling(id) ==
  \E w \in Workers :
    \/ Storing(w, id)
    \/ pc[w] = "uncache" /\ request[w].id = id

\* The cache holds what the table holds, but for the ids on which a write
\* came between a read and its store in the cache, and for the shortcuts of
\* accounts that are gone: no other sequence of requests, failures and
\* restarts leaves a stale entry behind.
StaleOnlyAfterRace ==
  \A s \in Ids \ raced :
    cache[s] # NoRow /\ ~ Settling(s) => Agrees(cache[s])

\* A shortcut changes only for its creator or goes with its creator's
\* account, although the creator is checked on a row that may be stale or
\* deleted by the time of the write (shortcut.go:65, :146).
OwnerOnlyWrites ==
  [][\A s \in Ids :
       shortcut[s] # NoRow /\ shortcut'[s] # shortcut[s] =>
         \/ \E w \in Workers :
              /\ pc[w] \in {"update", "delete"} /\ pc'[w] # pc[w]
              /\ request[w].id = s
              /\ request[w].user = shortcut[s].creator
         \/ shortcut'[s] = NoRow /\ shortcut[s].creator \notin user']_vars

\* A deleted shortcut never comes back under its id.
NoResurrection ==
  [][\A s \in 1 .. last : shortcut[s] = NoRow => shortcut'[s] = NoRow]_vars

(***************************************************************************)
(* Why they hold: an inductive invariant.                                  *)
(***************************************************************************)
\* A row that was given its id and, as long as the shortcut exists, names its
\* creator.  An id is never given again, so this outlives the shortcut.
Issued(row) ==
  /\ row.id <= last
  /\ shortcut[row.id] # NoRow => shortcut[row.id].creator = row.creator

RowsKeyed  == \A s \in Ids :
                shortcut[s] # NoRow => shortcut[s].id = s /\ Issued(shortcut[s])
CacheKeyed == \A s \in Ids :
                cache[s] # NoRow => cache[s].id = s /\ Issued(cache[s])
HeldIssued == \A w \in Workers : held[w] # NoRow => Issued(held[w])

Serving(w, ops) == request[w] # NoRequest /\ request[w].op \in ops
Holding(w)      == held[w] # NoRow /\ held[w].id = request[w].id

\* What each place in a handler knows of its request and of the row in hand.
Knows(w) ==
  /\ pc[w] \in {"load", "select"} => Serving(w, {"patch", "delete", "get"})
  /\ pc[w] = "fill" => Serving(w, {"patch", "delete", "get"}) /\ Holding(w)
  /\ pc[w] \in {"insert", "activity"} => Serving(w, {"create"})
  /\ pc[w] = "update" => Serving(w, {"patch"})
  /\ pc[w] = "delete" => Serving(w, {"delete"})
  /\ pc[w] \in {"update", "delete"} =>
       Holding(w) /\ held[w].creator = request[w].user
  /\ pc[w] = "save" => Serving(w, {"create", "patch"}) /\ held[w] # NoRow
  /\ pc[w] = "uncache" => Serving(w, {"delete"})
  /\ pc[w] = "deleteUser" => Serving(w, {"deleteUser"})

\* A row about to be stored agrees with the table unless a write came since.
FreshInHand(w) ==
  pc[w] \in {"fill", "save"} /\ held[w].id \notin raced => Agrees(held[w])

IInv ==
  /\ TypeOK
  /\ RowsKeyed /\ CacheKeyed /\ HeldIssued
  /\ \A w \in Workers : Knows(w) /\ FreshInHand(w)
  /\ StaleOnlyAfterRace

(***************************************************************************)
(* Seen from the tables user and shortcut, the endpoints do nothing but    *)
(* transactions of StoreDB: what a shortcut says and what is cached is     *)
(* their own business.                                                     *)
(***************************************************************************)
Tables == INSTANCE StoreDB WITH
  MaxUser <- NumUsers, MaxMemo <- 0, MaxResource <- 0,
  Keys <- {}, Names <- {},
  db <- [user |-> user, memo |-> {}, resource |-> {},
         shortcut |-> {[id |-> s, creator |-> shortcut[s].creator] :
                         s \in {i \in Ids : shortcut[i] # NoRow}},
         userSetting |-> {}, organizer |-> {}, memoResource |-> {}, tag |-> {}],
  seq <- [user |-> NumUsers, memo |-> 0, resource |-> 0, shortcut |-> last]

RefinesTables == Tables!Spec
=============================================================================
