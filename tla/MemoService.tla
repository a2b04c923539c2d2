---------------------------- MODULE MemoService ----------------------------
(***************************************************************************)
(* The memo endpoints of service/memo.go, DELETE /user/:id and the user    *)
(* check of the JWT middleware, running on the SQLite tables user and memo *)
(* and on the two process-wide caches of store.Store (sync.Maps that are   *)
(* read before the database and written after the commit).                 *)
(*                                                                         *)
(* gin runs each request in a goroutine of its own: here a worker.  One    *)
(* step of a worker is one access to something shared - a load, store or   *)
(* delete on a cache, a SELECT on a snapshot, a committed transaction -    *)
(* together with the local control flow up to the next access.  A cache    *)
(* store is a step of its own after the SELECT or the commit it follows,   *)
(* so other workers get in between.  timeoutMiddleware answers 408 after   *)
(* 30s but the handler's goroutine runs on (service.go:34-44): it is no    *)
(* step here, the client may simply use another worker meanwhile.          *)
(*                                                                         *)
(* What a memo says (content, visibility, row status) is one value, its    *)
(* body; pinned flags and the links to resources are not kept here.        *)
(***************************************************************************)
EXTENDS Naturals, FiniteSets

CONSTANTS
  NumUsers,    \* accounts at the start, ids 1 .. NumUsers
  MaxMemo,     \* bound on the memo ids handed out
  Bodies,      \* what a memo can say
  Workers,     \* request goroutines
  Ops,         \* the endpoints that are called, all those of Requests or fewer
  NoRow, NoRequest, Anonymous

Users   == 1 .. NumUsers
Host    == 1      \* the account setup made, with role HOST
MemoIds == 1 .. MaxMemo
Row     == [id : MemoIds, creator : Users, body : Bodies]

ASSUME ServiceAssumption ==
  /\ NumUsers \in Nat \ {0}
  /\ MaxMemo \in Nat
  /\ NoRow \notin Row
  /\ Anonymous \notin Users

\* organize: POST /memo/:id/organizer.  unlink: DELETE /memo/:id/resource/:id.
\* list: GET /memo, GET /memo/all and GET /memo/stats.
Requests ==
       [op : {"create"}, user : Users, body : Bodies]
  \cup [op : {"patch"}, user : Users, id : MemoIds, body : Bodies]
  \cup [op : {"delete"}, user : Users, id : MemoIds]
  \cup [op : {"get"}, user : Users \cup {Anonymous}, id : MemoIds]
  \cup [op : {"organize", "unlink"}, user : Users, id : MemoIds]
  \cup [op : {"list"}, user : Users \cup {Anonymous}]
  \cup [op : {"deleteUser"}, user : Users, target : Users]

ASSUME RequestAssumption == NoRequest \notin Requests

VARIABLES
  user,       \* ids in the table user
  memo,       \* the table memo: the row of each id, or NoRow
  lastMemo,   \* sqlite_sequence of memo
  userCache,  \* ids with an entry in Store.userCache
  memoCache,  \* Store.memoCache: the raw row under each id, or NoRow
  pc,         \* the next shared access of each worker
  stage,      \* what its FindUser or ComposeMemo call is for
  who,        \* the user its FindUser call looks for
  held,       \* the memo row in its hands
  todo,       \* the rows of its list that wait to be composed
  request,    \* the request it serves
  history     \* history variable: every row version committed under an id

db      == <<user, memo, lastMemo, history>>
caches  == <<userCache, memoCache>>
control == <<pc, stage, who, held, todo, request>>
vars    == <<db, caches, control>>

Steps == {"idle", "userLoad", "userSelect", "userStore",
          "memoLoad", "memoSelect", "memoStore", "compose",
          "selectList", "organize", "unlink",
          "createMemo", "patchMemo", "deleteMemo", "memoUncache",
          "deleteUser", "userUncache", "reply"}

Stages == {"auth", "enforce", "role", "found", "saved", "linked"}

TypeOK ==
  /\ user \subseteq Users
  /\ memo \in [MemoIds -> Row \cup {NoRow}]
  /\ lastMemo \in 0 .. MaxMemo
  /\ userCache \subseteq Users
  /\ memoCache \in [MemoIds -> Row \cup {NoRow}]
  /\ pc \in [Workers -> Steps]
  /\ stage \in [Workers -> Stages]
  /\ who \in [Workers -> Users]
  /\ held \in [Workers -> Row \cup {NoRow}]
  /\ todo \in [Workers -> SUBSET Row]
  /\ request \in [Workers -> Requests \cup {NoRequest}]
  /\ history \in [MemoIds -> SUBSET Row]

Init ==
  /\ user = Users
  /\ memo = [m \in MemoIds |-> NoRow]
  /\ lastMemo = 0
  /\ userCache = {}
  /\ memoCache = [m \in MemoIds |-> NoRow]
  /\ pc = [w \in Workers |-> "idle"]
  /\ stage = [w \in Workers |-> "auth"]
  /\ who = [w \in Workers |-> Host]
  /\ held = [w \in Workers |-> NoRow]
  /\ todo = [w \in Workers |-> {}]
  /\ request = [w \in Workers |-> NoRequest]
  /\ history = [m \in MemoIds |-> {}]

-----------------------------------------------------------------------------
(***************************************************************************)
(* Local control flow.                                                     *)
(***************************************************************************)
Goto(w, step) ==
  /\ pc' = [pc EXCEPT ![w] = step]
  /\ UNCHANGED <<stage, who, held, todo, request>>

\* Store.FindUser(u), called for the given stage of the handler.
CallFindUser(w, u, for) ==
  /\ pc' = [pc EXCEPT ![w] = "userLoad"]
  /\ stage' = [stage EXCEPT ![w] = for]
  /\ who' = [who EXCEPT ![w] = u]
  /\ UNCHANGED todo

\* The handler is over; its goroutine forgets everything.
Finish(w) ==
  /\ pc' = [pc EXCEPT ![w] = "idle"]
  /\ stage' = [stage EXCEPT ![w] = "auth"]
  /\ who' = [who EXCEPT ![w] = Host]
  /\ held' = [held EXCEPT ![w] = NoRow]
  /\ todo' = [todo EXCEPT ![w] = {}]
  /\ request' = [request EXCEPT ![w] = NoRequest]

\* The endpoints that go on without a user.
Public == {"get", "list"}

FirstStep(op) == CASE op = "list"     -> "selectList"
                   [] op = "organize" -> "organize"
                   [] OTHER           -> "memoLoad"

\* A request with a token goes through JWTMiddleware, which looks for its
\* user first; without one only the public memo endpoints go on.
Receive(w) ==
  /\ pc[w] = "idle"
  /\ \E r \in Requests :
       /\ r.op \in Ops
       /\ request' = [request EXCEPT ![w] = r]
       /\ IF r.user = Anonymous
          THEN /\ pc' = [pc EXCEPT ![w] = FirstStep(r.op)]
               /\ UNCHANGED <<stage, who, todo>>
          ELSE CallFindUser(w, r.user, "auth")
  /\ UNCHANGED <<held, db, caches>>

\* The user asked for was found: back to the caller.  A new memo takes the
\* role of its creator into account when public memos are disabled
\* (memo.go:58-88); that setting may change at any time.
FoundUser(w) ==
  \/ /\ stage[w] = "auth" /\ request[w].op = "create"
     /\ \/ Goto(w, "createMemo")
        \/ CallFindUser(w, request[w].user, "enforce") /\ UNCHANGED <<held, request>>
  \/ /\ stage[w] = "enforce"
     /\ Goto(w, "createMemo")
  \/ /\ stage[w] = "auth"
     /\ request[w].op \in {"patch", "delete", "get", "organize", "unlink", "list"}
     /\ Goto(w, FirstStep(request[w].op))
  \/ /\ stage[w] = "auth" /\ request[w].op = "deleteUser"
     /\ CallFindUser(w, request[w].user, "role")
     /\ UNCHANGED <<held, request>>
  \/ /\ stage[w] = "role"
     /\ IF who[w] = Host THEN Goto(w, "deleteUser") ELSE Finish(w)
  \/ /\ stage[w] \in {"found", "saved", "linked"}
     /\ Goto(w, "compose")

-----------------------------------------------------------------------------
(***************************************************************************)
(* Store.FindUser by id.                                                   *)
(***************************************************************************)
UserLoad(w) ==
  /\ pc[w] = "userLoad"
  /\ IF who[w] \in userCache THEN FoundUser(w) ELSE Goto(w, "userSelect")
  /\ UNCHANGED <<db, caches>>

\* FindUser returns an error.  JWTMiddleware writes its 401 or 500 but does
\* not abort the chain of gin handlers: the endpoint runs all the same, with
\* no user in the context.  Only the public memo endpoints go on then; a list
\* that names no creator is refused (memo.go:200).
NoUser(w) ==
  \/ /\ stage[w] = "auth" /\ request[w].op \in Public
     /\ Goto(w, FirstStep(request[w].op))
  \/ /\ ~ (stage[w] = "auth" /\ request[w].op = "get")
     /\ Finish(w)

\* (variant: a user that is not found is looked for again)
UserSelectAgain(w) ==
  /\ pc[w] = "userSelect"
  /\ IF who[w] \in user THEN Goto(w, "userStore") ELSE Goto(w, "userLoad")
  /\ UNCHANGED <<db, caches>>

UserSelect(w) ==
  /\ pc[w] = "userSelect"
  /\ IF who[w] \in user THEN Goto(w, "userStore") ELSE NoUser(w)
  /\ UNCHANGED <<db, caches>>

UserStore(w) ==
  /\ pc[w] = "userStore"
  /\ userCache' = userCache \cup {who[w]}
  /\ FoundUser(w)
  /\ UNCHANGED <<db, memoCache>>

(***************************************************************************)
(* Store.FindMemo by id: the cache, else a SELECT whose row is stored in   *)
(* the cache; then ComposeMemo, which begins with FindUser of the creator. *)
(***************************************************************************)
MemoLoad(w) ==
  /\ pc[w] = "memoLoad"
  /\ LET row == memoCache[request[w].id] IN
       IF row # NoRow
       THEN /\ held' = [held EXCEPT ![w] = row]
            /\ CallFindUser(w, row.creator, "found")
            /\ UNCHANGED request
       ELSE Goto(w, "memoSelect")
  /\ UNCHANGED <<db, caches>>

MemoSelect(w) ==
  /\ pc[w] = "memoSelect"
  /\ LET row == memo[request[w].id] IN
       IF row # NoRow
       THEN /\ held' = [held EXCEPT ![w] = row]
            /\ stage' = [stage EXCEPT ![w] = "found"]
            /\ pc' = [pc EXCEPT ![w] = "memoStore"]
            /\ UNCHANGED <<who, todo, request>>
       ELSE Finish(w)
  /\ UNCHANGED <<db, caches>>

MemoStore(w) ==
  /\ pc[w] = "memoStore"
  /\ memoCache' = [memoCache EXCEPT ![held[w].id] = held[w]]
  /\ CallFindUser(w, held[w].creator, stage[w])
  /\ UNCHANGED <<held, request, db, userCache>>

\* The upsert in memo_organizer; FindMemo follows, whoever owns the memo.
Organize(w) ==
  /\ pc[w] = "organize"
  /\ Goto(w, "memoLoad")
  /\ UNCHANGED <<db, caches>>

(***************************************************************************)
(* Store.FindMemoList: one SELECT, whose rows are composed one after the   *)
(* other; the rows do not go through the cache.                            *)
(***************************************************************************)
ComposeNext(w, rows) ==
  \/ rows = {} /\ Finish(w)
  \/ \E row \in rows :
       /\ held' = [held EXCEPT ![w] = row]
       /\ todo' = [todo EXCEPT ![w] = rows \ {row}]
       /\ pc' = [pc EXCEPT ![w] = "userLoad"]
       /\ stage' = [stage EXCEPT ![w] = "found"]
       /\ who' = [who EXCEPT ![w] = row.creator]
       /\ UNCHANGED request

\* Creator, visibility, status, pinned, tag, limit and offset of the query
\* select any of the rows.
SelectList(w) ==
  /\ pc[w] = "selectList"
  /\ \E ids \in SUBSET {m \in MemoIds : memo[m] # NoRow} :
       ComposeNext(w, {memo[m] : m \in ids})
  /\ UNCHANGED <<db, caches>>

(***************************************************************************)
(* The end of ComposeMemo: the resources linked to the memo are read, and  *)
(* the handler goes on with the composed memo.  After a save it records an *)
(* activity (new memos), links the resources of the request and composes   *)
(* the memo once more.                                                     *)
(***************************************************************************)
WriteStep == [patch |-> "patchMemo", delete |-> "deleteMemo", unlink |-> "unlink"]

\* (variant: without the owner check)
ComposeUnchecked(w) ==
  /\ pc[w] = "compose"
  /\ \/ /\ stage[w] = "found" /\ request[w].op \in {"get", "organize"}
        /\ Goto(w, "reply")
     \/ /\ stage[w] = "found" /\ request[w].op = "list"
        /\ ComposeNext(w, todo[w])
     \/ /\ stage[w] = "found" /\ request[w].op \in DOMAIN WriteStep
        /\ Goto(w, WriteStep[request[w].op])
     \/ /\ stage[w] = "saved"
        /\ CallFindUser(w, held[w].creator, "linked")
        /\ UNCHANGED <<held, request>>
     \/ /\ stage[w] = "linked"
        /\ Goto(w, "reply")
  /\ UNCHANGED <<db, caches>>

Compose(w) ==
  /\ pc[w] = "compose"
  /\ \/ /\ stage[w] = "found" /\ request[w].op = "get"
        \* a memo the requester may not see is refused
        /\ Goto(w, "reply") \/ Finish(w)
     \/ /\ stage[w] = "found" /\ request[w].op = "organize"
        /\ Goto(w, "reply")
     \/ /\ stage[w] = "found" /\ request[w].op = "list"
        /\ ComposeNext(w, todo[w])
     \/ /\ stage[w] = "found" /\ request[w].op \in DOMAIN WriteStep
        /\ IF held[w].creator # request[w].user THEN Finish(w)
           ELSE Goto(w, WriteStep[request[w].op])
     \/ /\ stage[w] = "saved"
        /\ CallFindUser(w, held[w].creator, "linked")
        /\ UNCHANGED <<held, request>>
     \/ /\ stage[w] = "linked"
        /\ Goto(w, "reply")
  /\ UNCHANGED <<db, caches>>

-----------------------------------------------------------------------------
(***************************************************************************)
(* The transactions.                                                       *)
(***************************************************************************)
\* The row in hand is the committed one; it is stored in the cache next.
Saved(w, row) ==
  /\ memo' = [memo EXCEPT ![row.id] = row]
  /\ history' = [history EXCEPT ![row.id] = @ \cup {row}]
  /\ held' = [held EXCEPT ![w] = row]
  /\ stage' = [stage EXCEPT ![w] = "saved"]
  /\ pc' = [pc EXCEPT ![w] = "memoStore"]
  /\ UNCHANGED <<who, todo, request, user, caches>>

\* (variant: one more than the largest id in use)
NextRowid ==
  CHOOSE i \in 1 .. MaxMemo + 1 :
    /\ \A m \in MemoIds : memo[m] # NoRow => m < i
    /\ i = 1 \/ memo[i - 1] # NoRow

\* AUTOINCREMENT: never an id that was given out before.
NextMemo == lastMemo + 1

CreateMemo(w) ==
  /\ pc[w] = "createMemo"
  /\ NextMemo <= MaxMemo
  /\ lastMemo' = NextMemo
  /\ Saved(w, [id |-> NextMemo, creator |-> request[w].user,
               body |-> request[w].body])

\* With the largest id given out, SQLite refuses the insert (SQLITE_FULL).
CreateFull(w) ==
  /\ pc[w] = "createMemo"
  /\ NextMemo > MaxMemo
  /\ Finish(w)
  /\ UNCHANGED <<db, caches>>

\* (variant: a row that is gone is written again, as INSERT OR REPLACE does)
PatchOrInsert(w) ==
  /\ pc[w] = "patchMemo"
  /\ Saved(w, [id |-> held[w].id, creator |-> held[w].creator,
               body |-> request[w].body])
  /\ UNCHANGED lastMemo

\* UPDATE ... WHERE id = ? RETURNING the row; no row is an error.
PatchMemo(w) ==
  /\ pc[w] = "patchMemo"
  /\ LET row == memo[request[w].id] IN
       /\ row # NoRow
       /\ Saved(w, [id |-> row.id, creator |-> row.creator,
                    body |-> request[w].body])
  /\ UNCHANGED lastMemo

\* (variant: the missing row goes unnoticed, the patched memo is cached)
PatchMissingIgnored(w) ==
  /\ pc[w] = "patchMemo"
  /\ memo[request[w].id] = NoRow
  /\ held' = [held EXCEPT ![w].body = request[w].body]
  /\ pc' = [pc EXCEPT ![w] = "memoStore"]
  /\ stage' = [stage EXCEPT ![w] = "saved"]
  /\ UNCHANGED <<who, todo, request, db, caches>>

PatchMissing(w) ==
  /\ pc[w] = "patchMemo"
  /\ memo[request[w].id] = NoRow
  /\ Finish(w)
  /\ UNCHANGED <<db, caches>>

\* (variant: the vacuum is forgotten)
VacuumsNothing(table, users) == table

\* vacuumMemo: the memos whose creator is gone go too.
Vacuumed(table, users) ==
  [m \in MemoIds |-> IF table[m] # NoRow /\ table[m].creator \in users
                     THEN table[m] ELSE NoRow]

DeleteMemo(w) ==
  /\ pc[w] = "deleteMemo"
  /\ IF memo[request[w].id] # NoRow
     THEN /\ memo' = Vacuumed([memo EXCEPT ![request[w].id] = NoRow], user)
          /\ Goto(w, "memoUncache")
     ELSE Finish(w) /\ UNCHANGED memo
  /\ UNCHANGED <<user, lastMemo, history, caches>>

\* (variant: the cache entry stays)
MemoStaysCached(w) ==
  /\ pc[w] = "memoUncache"
  /\ Finish(w)
  /\ UNCHANGED <<db, caches>>

MemoUncache(w) ==
  /\ pc[w] = "memoUncache"
  /\ memoCache' = [memoCache EXCEPT ![request[w].id] = NoRow]
  /\ Finish(w)
  /\ UNCHANGED <<db, userCache>>

\* The link goes from memo_resource.
Unlink(w) ==
  /\ pc[w] = "unlink"
  /\ Finish(w)
  /\ UNCHANGED <<db, caches>>

\* (variant: the memos stay behind)
DeleteUserOnly(w) ==
  /\ pc[w] = "deleteUser"
  /\ request[w].target \in user
  /\ user' = user \ {request[w].target}
  /\ Goto(w, "userUncache")
  /\ UNCHANGED <<memo, lastMemo, history, caches>>

\* The memos of the user go in the same transaction, but of the caches only
\* the entry of the user is dropped afterwards (store/user.go:339).
DeleteUser(w) ==
  /\ pc[w] = "deleteUser"
  /\ LET target == request[w].target IN
       IF target \in user
       THEN /\ user' = user \ {target}
            /\ memo' = Vacuumed(memo, user')
            /\ Goto(w, "userUncache")
       ELSE Finish(w) /\ UNCHANGED <<user, memo>>
  /\ UNCHANGED <<lastMemo, history, caches>>

\* (variant: the cache entry stays)
UserStaysCached(w) ==
  /\ pc[w] = "userUncache"
  /\ Finish(w)
  /\ UNCHANGED <<db, caches>>

UserUncache(w) ==
  /\ pc[w] = "userUncache"
  /\ userCache' = userCache \ {request[w].target}
  /\ Finish(w)
  /\ UNCHANGED <<db, memoCache>>

-----------------------------------------------------------------------------
\* 200 OK, with the memo in hand.  The endpoints that return no memo, and the
\* lists, end with their last access.
Reply(w) ==
  /\ pc[w] = "reply"
  /\ Finish(w)
  /\ UNCHANGED <<db, caches>>

\* Any database access may fail - SQLITE_BUSY after 5s, a linked resource
\* unlinked while the list is composed - and the handler answers 500.  A
\* transaction that fails is rolled back.
Fail(w) ==
  /\ \/ pc[w] = "userSelect" /\ NoUser(w)
     \/ /\ pc[w] \in {"memoSelect", "selectList", "organize", "compose", "unlink",
                      "createMemo", "patchMemo", "deleteMemo", "deleteUser"}
        /\ Finish(w)
  /\ UNCHANGED <<db, caches>>

\* The process is stopped or dies at any point and is started again: caches
\* and running handlers are gone, what was committed is not.
Restart ==
  /\ userCache' = {}
  /\ memoCache' = [m \in MemoIds |-> NoRow]
  /\ pc' = [w \in Workers |-> "idle"]
  /\ stage' = [w \in Workers |-> "auth"]
  /\ who' = [w \in Workers |-> Host]
  /\ held' = [w \in Workers |-> NoRow]
  /\ todo' = [w \in Workers |-> {}]
  /\ request' = [w \in Workers |-> NoRequest]
  /\ UNCHANGED db

Handle(w) ==
  \/ UserLoad(w) \/ UserSelect(w) \/ UserStore(w)
  \/ MemoLoad(w) \/ MemoSelect(w) \/ MemoStore(w) \/ Compose(w)
  \/ CreateMemo(w) \/ CreateFull(w) \/ PatchMemo(w) \/ PatchMissing(w)
  \/ Organize(w) \/ SelectList(w) \/ Unlink(w)
  \/ DeleteMemo(w) \/ MemoUncache(w)
  \/ DeleteUser(w) \/ UserUncache(w)
  \/ Reply(w)

Next ==
  \/ \E w \in Workers : Receive(w) \/ Handle(w) \/ Fail(w)
  \/ Restart

Spec == Init /\ [][Next]_vars

\* The Go scheduler runs every goroutine, and SQLite's busy timeout bounds
\* every access; nothing makes a request arrive or an access fail.
FairSpec == Spec /\ \A w \in Workers : WF_vars(Handle(w))

-----------------------------------------------------------------------------
(***************************************************************************)
(* Safety.                                                                 *)
(***************************************************************************)
\* A memo changes only by a patch of its creator and goes only by a deletion
\* its creator asked for, or because its creator's account is gone.  The
\* owner check reads a row that may be stale or deleted by the time of the
\* write (memo.go:146, :502); it still protects the row that is written,
\* since a memo never changes its creator and its id is never reused.
OwnerOnlyWrites ==
  [][\A m \in MemoIds :
       memo[m] # NoRow /\ memo'[m] # memo[m] =>
         \/ \E w \in Workers :
              /\ pc[w] \in {"patchMemo", "deleteMemo"} /\ pc'[w] # pc[w]
              /\ request[w].id = m
              /\ request[w].user = memo[m].creator
         \/ memo'[m] = NoRow /\ memo[m].creator \notin user']_vars

\* A deleted memo never comes back under its id, although handlers that read
\* it before go on to patch it and to store it in the cache.
NoResurrection ==
  [][\A m \in 1 .. lastMemo : memo[m] = NoRow => memo'[m] = NoRow]_vars

\* Whatever a handler answers with or a cache holds was committed under that
\* very id at some time: stale at worst, never a row of a failed
\* transaction or of another memo.
ServedWasCommitted ==
  /\ \A m \in MemoIds : memoCache[m] # NoRow => memoCache[m] \in history[m]
  /\ \A w \in Workers :
       /\ pc[w] = "reply" /\ request[w].op \in {"get", "organize"} =>
            held[w] \in history[request[w].id]
       /\ pc[w] = "compose" => held[w] \in history[held[w].id]

\* A deletion of the user that has committed and is about to drop the user
\* from the cache.
BeingDropped(u) ==
  \E w \in Workers : pc[w] = "userUncache" /\ request[w].target = u

\* jwt.go:170, "we still need to make sure the user still exists": a token of
\* a user whose deletion is complete does not pass.
DeletedUsersStayOut ==
  [][\A w \in Workers :
       /\ pc[w] = "userLoad" /\ stage[w] = "auth"
       /\ who[w] \notin user /\ ~ BeingDropped(who[w])
       => \/ pc'[w] \in {"userSelect", "idle"}
          \/ pc'[w] = "userLoad" /\ stage'[w] = "auth"]_vars

\* With requests one after the other a memo that is answered, after a save or
\* a read, is the row of the table: entries of deleted memos and of memos
\* that went with their creator are dropped or are not served.
ServedIsCurrent ==
  \A w \in Workers :
    pc[w] = "reply" /\ request[w].op \in {"get", "organize", "create", "patch"} =>
      held[w] = memo[held[w].id]

\* One memo whose creator is not found fails the whole list (store/memo.go:121),
\* GET /memo/all for everybody.  With requests one after the other no list
\* meets such a memo: none is made for a user who is gone.
ListsFindCreators ==
  \A w \in Workers :
    pc[w] = "userSelect" /\ stage[w] = "found" /\ request[w].op = "list" =>
      who[w] \in user

(***************************************************************************)
(* Why the safety properties hold: an inductive invariant.                 *)
(***************************************************************************)
\* A row version that was committed under its id and, as long as the memo
\* exists, names its creator.  This outlives the memo: the id stays taken.
Issued(row) ==
  /\ row.id <= lastMemo
  /\ row \in history[row.id]
  /\ memo[row.id] # NoRow => memo[row.id].creator = row.creator

RowsKeyed  == \A m \in MemoIds :
                memo[m] # NoRow => memo[m].id = m /\ Issued(memo[m])
CacheKeyed == \A m \in MemoIds :
                memoCache[m] # NoRow => memoCache[m].id = m /\ Issued(memoCache[m])
HeldIssued == \A w \in Workers :
                /\ held[w] # NoRow => Issued(held[w])
                /\ \A row \in todo[w] : Issued(row)

FindingUser(w) == pc[w] \in {"userLoad", "userSelect", "userStore"}

\* What each place in a handler knows of its request and of the row in hand.
Serving(w, ops) == request[w] # NoRequest /\ request[w].op \in ops
Holding(w)      == held[w] # NoRow /\ held[w].id = request[w].id

\* The requests for one memo that exists.
OneMemo == {"patch", "delete", "get", "organize", "unlink"}

Knows(w) ==
  /\ FindingUser(w) /\ stage[w] = "auth" =>
       request[w] # NoRequest /\ request[w].user \in Users
  /\ FindingUser(w) /\ stage[w] = "enforce" => Serving(w, {"create"})
  /\ FindingUser(w) /\ stage[w] = "role" => Serving(w, {"deleteUser"})
  /\ pc[w] = "createMemo" => Serving(w, {"create"})
  /\ pc[w] \in {"memoLoad", "memoSelect"} => Serving(w, OneMemo)
  /\ pc[w] = "organize" => Serving(w, {"organize"})
  /\ pc[w] = "selectList" => Serving(w, {"list"})
  /\ FindingUser(w) \/ pc[w] \in {"memoStore", "compose"} =>
       /\ stage[w] = "found" =>
            /\ Serving(w, OneMemo \cup {"list"}) /\ held[w] # NoRow
            /\ request[w].op \in OneMemo => Holding(w)
       /\ stage[w] \in {"saved", "linked"} =>
            Serving(w, {"create", "patch"}) /\ held[w] # NoRow
  /\ pc[w] \in {"memoStore", "compose"} =>
       stage[w] \in {"found", "saved", "linked"}
  /\ pc[w] \in {"patchMemo", "deleteMemo", "unlink"} =>
       /\ Holding(w)
       /\ held[w].creator = request[w].user
  /\ pc[w] = "patchMemo" => Serving(w, {"patch"})
  /\ pc[w] = "unlink" => Serving(w, {"unlink"})
  /\ pc[w] \in {"deleteMemo", "memoUncache"} => Serving(w, {"delete"})
  /\ pc[w] \in {"deleteUser", "userUncache"} => Serving(w, {"deleteUser"})
  /\ pc[w] = "reply" =>
       /\ request[w] # NoRequest
       /\ request[w].op \in {"get", "organize"} => Holding(w)

HandlersKnow == \A w \in Workers : Knows(w)

IInv == TypeOK /\ RowsKeyed /\ CacheKeyed /\ HeldIssued /\ HandlersKnow

(***************************************************************************)
(* Why they hold when requests come one after the other: the caches differ *)
(* from the tables only in what the one handler is about to put right, and *)
(* in memos that are not served because their creator is gone.             *)
(***************************************************************************)
Current(row) == row = memo[row.id]

BeingReplaced(m) ==
  \E w \in Workers : \/ pc[w] = "memoStore" /\ held[w].id = m
                     \/ pc[w] = "memoUncache" /\ request[w].id = m

KnowsInTurn(w) ==
  /\ FindingUser(w) /\ stage[w] = "auth" => who[w] = request[w].user
  /\ pc[w] = "createMemo" \/ (FindingUser(w) /\ stage[w] = "enforce") =>
       request[w].user \in user
  /\ pc[w] = "userStore" => who[w] \in user
  /\ FindingUser(w) /\ stage[w] \in {"found", "saved", "linked"} =>
       /\ who[w] = held[w].creator
       /\ \/ Current(held[w])
          \/ /\ stage[w] = "found" /\ pc[w] # "userStore"
             /\ request[w].op # "list" /\ who[w] \notin user
  /\ pc[w] \in {"memoStore", "compose", "reply"} => Current(held[w])
  /\ todo[w] # {} => Serving(w, {"list"}) /\ pc[w] # "idle"
  /\ \A row \in todo[w] : Current(row)

CreatorsThere == \A m \in MemoIds : memo[m] # NoRow => memo[m].creator \in user

UserCacheInTurn == \A u \in userCache : u \in user \/ BeingDropped(u)

MemoCacheInTurn ==
  \A m \in MemoIds :
    memoCache[m] # NoRow =>
      \/ Current(memoCache[m])
      \/ memoCache[m].creator \notin user
      \/ BeingReplaced(m)

TurnInv ==
  /\ CreatorsThere /\ UserCacheInTurn /\ MemoCacheInTurn
  /\ \A w \in Workers : KnowsInTurn(w)

(***************************************************************************)
(* Liveness: every handler comes to its end.                               *)
(***************************************************************************)
EveryRequestEnds == \A w \in Workers : pc[w] # "idle" ~> pc[w] = "idle"

(***************************************************************************)
(* Why: a handler waits for nobody and goes round in no circle but that of *)
(* the rows of its list.  A bound on the steps it may still take, each one *)
(* access: those of the FindUser or ComposeMemo call it is in, then those  *)
(* of the rest of the handler, and four for each row that waits.           *)
(***************************************************************************)
InCall == [memoStore |-> 4, userLoad |-> 3, userSelect |-> 2, userStore |-> 1,
           compose |-> 0]

After == [auth |-> 20 + 4 * MaxMemo, enforce |-> 12, role |-> 3,
          found |-> 12, saved |-> 6, linked |-> 2]

Outside == [selectList |-> 12 + 4 * MaxMemo, organize |-> 19, memoLoad |-> 18,
            memoSelect |-> 17, createMemo |-> 11, patchMemo |-> 11,
            deleteMemo |-> 2, deleteUser |-> 2, unlink |-> 1,
            memoUncache |-> 1, userUncache |-> 1, reply |-> 1, idle |-> 0]

Ahead(step, for) ==
  IF step \in DOMAIN InCall THEN InCall[step] + After[for] ELSE Outside[step]

StepsLeft(w) == 4 * Cardinality(todo[w]) + Ahead(pc[w], stage[w])

\* No request takes more than 23 + 4 * MaxMemo steps of this module: every step
\* of its handler leaves fewer, and nothing the other handlers do to the tables
\* and the caches meanwhile sets it back.  (Reads of settings, the activity and
\* the links of a new memo are accesses too, but no steps here.)
HandlersAdvance ==
  [][\A w \in Workers :
       /\ pc[w] = "idle" => StepsLeft(w)' <= 23 + 4 * MaxMemo
       /\ pc[w] # "idle" => StepsLeft(w)' <= StepsLeft(w)
       /\ Handle(w) \/ Fail(w) => StepsLeft(w)' < StepsLeft(w)]_vars

(***************************************************************************)
(* Seen from the tables, the service does nothing but transactions of      *)
(* StoreDB.                                                                *)
(***************************************************************************)
Tables == INSTANCE StoreDB WITH
  MaxUser <- NumUsers, MaxResource <- 0, MaxShortcut <- 0,
  Keys <- {}, Names <- {},
  db <- [user |-> user,
         memo |-> {[id |-> m, creator |-> memo[m].creator] :
                     m \in {n \in MemoIds : memo[n] # NoRow}},
         resource |-> {}, shortcut |-> {}, userSetting |-> {},
         organizer |-> {}, memoResource |-> {}, tag |-> {}],
  seq <- [user |-> NumUsers, memo |-> lastMemo, resource |-> 0, shortcut |-> 0]

RefinesTables == Tables!Spec
=============================================================================
