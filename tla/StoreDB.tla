------------------------------ MODULE StoreDB ------------------------------
(***************************************************************************)
(* The relational skeleton of the SQLite database behind store/: which     *)
(* rows exist and which rows they refer to.  Foreign keys are switched off *)
(* in the DSN (store/db/db.go:40), so a row may refer to a row that is     *)
(* gone, and only the vacuum statements of store/store.go clean up.        *)
(*                                                                         *)
(* Every action is one committed transaction: SQLite has one writer at a   *)
(* time and nothing of a transaction is seen before its commit.  A         *)
(* transaction that fails is rolled back and is no step.  UPDATE           *)
(* statements keep every id and every reference and are no step either;    *)
(* what the rows say is modelled by the modules of the services.           *)
(***************************************************************************)
EXTENDS Naturals

CONSTANTS
  MaxUser, MaxMemo, MaxResource, MaxShortcut,  \* bounds on the ids handed out
  Keys,                                        \* user setting keys
  Names                                        \* tag names

ASSUME BoundsAssumption ==
  /\ MaxUser \in Nat
  /\ MaxMemo \in Nat
  /\ MaxResource \in Nat
  /\ MaxShortcut \in Nat

VARIABLES
  db,   \* the tables
  seq   \* sqlite_sequence: the last id AUTOINCREMENT gave out, per table

vars == <<db, seq>>

UserIds     == 1 .. MaxUser
MemoIds     == 1 .. MaxMemo
ResourceIds == 1 .. MaxResource
ShortcutIds == 1 .. MaxShortcut

Databases ==
  [user         : SUBSET UserIds,
   memo         : SUBSET [id : MemoIds, creator : UserIds],
   resource     : SUBSET [id : ResourceIds, creator : UserIds],
   shortcut     : SUBSET [id : ShortcutIds, creator : UserIds],
   userSetting  : SUBSET [user : UserIds, key : Keys],
   organizer    : SUBSET [memo : MemoIds, user : UserIds],
   memoResource : SUBSET [memo : MemoIds, resource : ResourceIds],
   tag          : SUBSET [name : Names, creator : UserIds]]

Sequences == [user     : 0 .. MaxUser,     memo     : 0 .. MaxMemo,
              resource : 0 .. MaxResource, shortcut : 0 .. MaxShortcut]

IdsOf(table) == {row.id : row \in table}

-----------------------------------------------------------------------------
(***************************************************************************)
(* The vacuum statements.  Each removes the rows of one table whose        *)
(* parents are missing from the database as the statement finds it, so     *)
(* their order matters: links are looked at after memos and resources.     *)
(***************************************************************************)
vacuumMemo(d) ==
  [d EXCEPT !.memo = {m \in @ : m.creator \in d.user}]

vacuumResource(d) ==
  [d EXCEPT !.resource = {r \in @ : r.creator \in d.user}]

vacuumShortcut(d) ==
  [d EXCEPT !.shortcut = {s \in @ : s.creator \in d.user}]

vacuumUserSetting(d) ==
  [d EXCEPT !.userSetting = {s \in @ : s.user \in d.user}]

vacuumMemoOrganizer(d) ==
  [d EXCEPT !.organizer =
     {o \in @ : o.memo \in IdsOf(d.memo) /\ o.user \in d.user}]

vacuumMemoResource(d) ==
  [d EXCEPT !.memoResource =
     {l \in @ : l.memo \in IdsOf(d.memo) /\ l.resource \in IdsOf(d.resource)}]

vacuumTag(d) ==
  [d EXCEPT !.tag = {t \in @ : t.creator \in d.user}]

\* (variant: the links are vacuumed before their memos and resources)
vacuumLinksFirst(d) ==
  LET d1 == vacuumMemoResource(vacuumMemoOrganizer(d))
      d2 == vacuumResource(vacuumMemo(d1))
  IN  vacuumTag(vacuumUserSetting(vacuumShortcut(d2)))

vacuum(d) ==
  LET d1 == vacuumMemo(d)
      d2 == vacuumResource(d1)
      d3 == vacuumShortcut(d2)
      d4 == vacuumUserSetting(d3)
      d5 == vacuumMemoOrganizer(d4)
      d6 == vacuumMemoResource(d5)
  IN  vacuumTag(d6)

-----------------------------------------------------------------------------
(***************************************************************************)
(* The initial database holds the accounts that setup and signup made; the *)
(* rows they own are made by the actions below.                            *)
(***************************************************************************)
Init ==
  /\ seq \in {[user |-> n, memo |-> 0, resource |-> 0, shortcut |-> 0] :
                n \in 0 .. MaxUser}
  /\ db = [user |-> 1 .. seq.user, memo |-> {}, resource |-> {},
           shortcut |-> {}, userSetting |-> {}, organizer |-> {},
           memoResource |-> {}, tag |-> {}]

(***************************************************************************)
(* Users who ever had an account.  A handler that was let in keeps writing *)
(* in the name of its user even if the account is deleted meanwhile: no    *)
(* insert looks at the user table.                                         *)
(***************************************************************************)
KnownUsers == 1 .. seq.user

\* (variant: ids without AUTOINCREMENT, one more than the largest in use)
CreateUserByRowid ==
  LET n == CHOOSE i \in 1 .. MaxUser + 1 :
             /\ \A u \in db.user : u < i
             /\ i = 1 \/ i - 1 \in db.user
  IN  /\ n <= MaxUser
      /\ seq' = [seq EXCEPT !.user = n]
      /\ db' = [db EXCEPT !.user = @ \cup {n}]

CreateUser ==
  /\ seq.user < MaxUser
  /\ seq' = [seq EXCEPT !.user = @ + 1]
  /\ db' = [db EXCEPT !.user = @ \cup {seq'.user}]

CreateMemo(u) ==
  /\ seq.memo < MaxMemo
  /\ seq' = [seq EXCEPT !.memo = @ + 1]
  /\ db' = [db EXCEPT !.memo = @ \cup {[id |-> seq'.memo, creator |-> u]}]

CreateResource(u) ==
  /\ seq.resource < MaxResource
  /\ seq' = [seq EXCEPT !.resource = @ + 1]
  /\ db' = [db EXCEPT !.resource =
              @ \cup {[id |-> seq'.resource, creator |-> u]}]

CreateShortcut(u) ==
  /\ seq.shortcut < MaxShortcut
  /\ seq' = [seq EXCEPT !.shortcut = @ + 1]
  /\ db' = [db EXCEPT !.shortcut =
              @ \cup {[id |-> seq'.shortcut, creator |-> u]}]

UpsertUserSetting(u, k) ==
  /\ db' = [db EXCEPT !.userSetting = @ \cup {[user |-> u, key |-> k]}]
  /\ UNCHANGED seq

\* The memo of the URL is not looked up first (service/memo.go:309).
UpsertMemoOrganizer(m, u) ==
  /\ db' = [db EXCEPT !.organizer = @ \cup {[memo |-> m, user |-> u]}]
  /\ UNCHANGED seq

\* Nor are the resources of a new or patched memo, nor the memo of a POST to
\* /memo/:memoId/resource (service/memo.go:107, :173, :365).
UpsertMemoResource(m, r) ==
  /\ db' = [db EXCEPT !.memoResource = @ \cup {[memo |-> m, resource |-> r]}]
  /\ UNCHANGED seq

UpsertTag(n, u) ==
  /\ db' = [db EXCEPT !.tag = @ \cup {[name |-> n, creator |-> u]}]
  /\ UNCHANGED seq

\* The three deletions that vacuum in the same transaction.  Each refuses,
\* and rolls back, when its DELETE met no row.
DeleteUser(u) ==
  /\ u \in db.user
  /\ db' = vacuum([db EXCEPT !.user = @ \ {u}])
  /\ UNCHANGED seq

\* (variant: the DELETE names the creator of the memo, not its id)
DeleteMemosOfCreator(m) ==
  /\ m \in IdsOf(db.memo)
  /\ LET Others(row) == \A x \in db.memo : x.id = m => x.creator # row.creator
     IN  db' = vacuum([db EXCEPT !.memo = {row \in @ : Others(row)}])
  /\ UNCHANGED seq

DeleteMemo(m) ==
  /\ m \in IdsOf(db.memo)
  /\ db' = vacuum([db EXCEPT !.memo = {row \in @ : row.id # m}])
  /\ UNCHANGED seq

\* (variant: no vacuum in the transaction)
DeleteResourceOnly(r) ==
  /\ r \in IdsOf(db.resource)
  /\ db' = [db EXCEPT !.resource = {row \in @ : row.id # r}]
  /\ UNCHANGED seq

DeleteResource(r) ==
  /\ r \in IdsOf(db.resource)
  /\ db' = vacuum([db EXCEPT !.resource = {row \in @ : row.id # r}])
  /\ UNCHANGED seq

\* The deletions that do not vacuum: nothing refers to these rows.
DeleteShortcut(s) ==
  /\ s \in IdsOf(db.shortcut)
  /\ db' = [db EXCEPT !.shortcut = {row \in @ : row.id # s}]
  /\ UNCHANGED seq

DeleteMemoResource(m, r) ==
  /\ [memo |-> m, resource |-> r] \in db.memoResource
  /\ db' = [db EXCEPT !.memoResource = @ \ {[memo |-> m, resource |-> r]}]
  /\ UNCHANGED seq

DeleteTag(n, u) ==
  /\ [name |-> n, creator |-> u] \in db.tag
  /\ db' = [db EXCEPT !.tag = @ \ {[name |-> n, creator |-> u]}]
  /\ UNCHANGED seq

Vacuum ==
  /\ db' = vacuum(db)
  /\ UNCHANGED seq

Next ==
  \/ Vacuum
  \/ CreateUser
  \/ \E u \in KnownUsers :
       \/ CreateMemo(u)
       \/ CreateResource(u)
       \/ CreateShortcut(u)
       \/ \E k \in Keys : UpsertUserSetting(u, k)
       \/ \E m \in MemoIds : UpsertMemoOrganizer(m, u)
       \/ \E n \in Names : UpsertTag(n, u) \/ DeleteTag(n, u)
  \/ \E m \in MemoIds, r \in ResourceIds :
       UpsertMemoResource(m, r) \/ DeleteMemoResource(m, r)
  \/ \E u \in UserIds : DeleteUser(u)
  \/ \E m \in MemoIds : DeleteMemo(m)
  \/ \E r \in ResourceIds : DeleteResource(r)
  \/ \E s \in ShortcutIds : DeleteShortcut(s)

Spec == Init /\ [][Next]_vars

-----------------------------------------------------------------------------
(***************************************************************************)
(* What the transactions owe each other.                                   *)
(***************************************************************************)
TypeOK ==
  /\ db \in Databases
  /\ seq \in Sequences

\* The rows all of whose ancestors exist, said without any order.
LiveMemos(d)     == {m \in d.memo : m.creator \in d.user}
LiveResources(d) == {r \in d.resource : r.creator \in d.user}

Rooted(d) ==
  [user         |-> d.user,
   memo         |-> LiveMemos(d),
   resource     |-> LiveResources(d),
   shortcut     |-> {s \in d.shortcut : s.creator \in d.user},
   userSetting  |-> {s \in d.userSetting : s.user \in d.user},
   organizer    |-> {o \in d.organizer :
                       o.memo \in IdsOf(LiveMemos(d)) /\ o.user \in d.user},
   memoResource |-> {l \in d.memoResource :
                       /\ l.memo \in IdsOf(LiveMemos(d))
                       /\ l.resource \in IdsOf(LiveResources(d))},
   tag          |-> {t \in d.tag : t.creator \in d.user}]

\* One pass of the seven statements, in the order of store.go:51-77, removes
\* exactly the rows that miss an ancestor: no orphan is left for a second
\* pass and no rooted row is lost.
VacuumIsExact == vacuum(db) = Rooted(db)

\* When a user, a memo or a resource goes (DeleteUser, DeleteMemo,
\* DeleteResource, Vacuum), the same transaction leaves no orphan row in any
\* table, those made earlier by unchecked inserts included.
DeletionLeavesNoOrphans ==
  [][ \/ ~ db.user \subseteq db'.user
      \/ ~ db.memo \subseteq db'.memo
      \/ ~ db.resource \subseteq db'.resource
      => db' = Rooted(db') ]_vars

\* Rows lost by a step although every row they refer to is still there.
UncausedLosses ==
  LET Lost(t) == db[t] \ db'[t]
      Owned(t) == {<<t, row>> : row \in {x \in Lost(t) : x.creator \in db'.user}}
  IN (UNION {Owned(t) : t \in {"memo", "resource", "shortcut", "tag"}})
     \cup {<<"user", u>> : u \in Lost("user")}
     \cup {<<"userSetting", s>> :
             s \in {x \in Lost("userSetting") : x.user \in db'.user}}
     \cup {<<"organizer", o>> :
             o \in {x \in Lost("organizer") :
                     x.memo \in IdsOf(db'.memo) /\ x.user \in db'.user}}
     \cup {<<"memoResource", l>> :
             l \in {x \in Lost("memoResource") :
                     /\ x.memo \in IdsOf(db'.memo)
                     /\ x.resource \in IdsOf(db'.resource)}}

\* A transaction takes at most one row for its own sake, the one it was asked
\* to delete; every other row that goes has lost a row it refers to.
NoCollateralLoss ==
  [][\A x, y \in UncausedLosses : x = y]_vars

\* Every account, and every owner a row names, is a user id already given out;
\* what makes NoInheritance inductive.
OwnersKnown ==
  /\ db.user \subseteq KnownUsers
  /\ \A row \in db.memo \cup db.resource \cup db.shortcut \cup db.tag :
       row.creator \in KnownUsers
  /\ \A row \in db.userSetting \cup db.organizer : row.user \in KnownUsers

\* The inductive invariant of the proofs.
IInv == TypeOK /\ OwnersKnown

\* A new account inherits nothing: rows that a deleted user left behind (a
\* handler may still insert some after the deletion) are never those of a
\* user who comes later, since AUTOINCREMENT gives no id twice.
NoInheritance ==
  [][\A u \in db'.user \ db.user :
       /\ \A row \in db'.memo \cup db'.resource \cup db'.shortcut \cup db'.tag :
            row.creator # u
       /\ \A row \in db'.userSetting \cup db'.organizer : row.user # u]_vars
=============================================================================
