--------------------------- MODULE StoreDB_proofs ---------------------------
(***************************************************************************)
(* Proofs about StoreDB: the order of the vacuum statements is right for   *)
(* every database, and what follows from it for the transactions.          *)
(***************************************************************************)
EXTENDS StoreDB, TLAPS

(***************************************************************************)
(* Two databases that agree on every table are equal.                      *)
(***************************************************************************)
LEMMA SameTables ==
  ASSUME NEW d \in Databases, NEW e \in Databases,
         d.user = e.user, d.memo = e.memo, d.resource = e.resource,
         d.shortcut = e.shortcut, d.userSetting = e.userSetting,
         d.organizer = e.organizer, d.memoResource = e.memoResource,
         d.tag = e.tag
  PROVE  d = e
  BY DEF Databases

(***************************************************************************)
(* The vacuum statements, each one after the other, remove exactly the     *)
(* rows that miss an ancestor.  Below, Tables(e, ...) says what the tables *)
(* are after each statement; <1>5 and <1>6 are where the order matters.    *)
(***************************************************************************)
LEMMA VacuumRoots ==
  ASSUME NEW d \in Databases
  PROVE  vacuum(d) = Rooted(d)
<1> DEFINE shortcuts == {s \in d.shortcut : s.creator \in d.user}
           settings == {s \in d.userSetting : s.user \in d.user}
           organizers == {o \in d.organizer :
                            o.memo \in IdsOf(LiveMemos(d)) /\ o.user \in d.user}
           links == {l \in d.memoResource :
                       /\ l.memo \in IdsOf(LiveMemos(d))
                       /\ l.resource \in IdsOf(LiveResources(d))}
           tags == {t \in d.tag : t.creator \in d.user}
           Tables(e, m, r, s, us, o, mr, t) ==
             /\ e \in Databases
             /\ e.user = d.user
             /\ e.memo = m
             /\ e.resource = r
             /\ e.shortcut = s
             /\ e.userSetting = us
             /\ e.organizer = o
             /\ e.memoResource = mr
             /\ e.tag = t
           d1 == vacuumMemo(d)
           d2 == vacuumResource(d1)
           d3 == vacuumShortcut(d2)
           d4 == vacuumUserSetting(d3)
           d5 == vacuumMemoOrganizer(d4)
           d6 == vacuumMemoResource(d5)
           d7 == vacuumTag(d6)
<1>1. Tables(d1, LiveMemos(d), d.resource, d.shortcut, d.userSetting,
             d.organizer, d.memoResource, d.tag)
  BY DEF vacuumMemo, LiveMemos, Databases
<1>2. Tables(d2, LiveMemos(d), LiveResources(d), d.shortcut, d.userSetting,
             d.organizer, d.memoResource, d.tag)
  <2> HIDE DEF d1
  <2> QED BY <1>1 DEF vacuumResource, LiveResources, Databases
<1>3. Tables(d3, LiveMemos(d), LiveResources(d), shortcuts, d.userSetting,
             d.organizer, d.memoResource, d.tag)
  <2> HIDE DEF d2
  <2> QED BY <1>2 DEF vacuumShortcut, Databases
<1>4. Tables(d4, LiveMemos(d), LiveResources(d), shortcuts, settings,
             d.organizer, d.memoResource, d.tag)
  <2> HIDE DEF d3
  <2> QED BY <1>3 DEF vacuumUserSetting, Databases
<1>5. Tables(d5, LiveMemos(d), LiveResources(d), shortcuts, settings,
             organizers, d.memoResource, d.tag)
  <2> HIDE DEF d4
  <2> QED BY <1>4 DEF vacuumMemoOrganizer, Databases
<1>6. Tables(d6, LiveMemos(d), LiveResources(d), shortcuts, settings,
             organizers, links, d.tag)
  <2> HIDE DEF d5
  <2> QED BY <1>5 DEF vacuumMemoResource, Databases
<1>7. Tables(d7, LiveMemos(d), LiveResources(d), shortcuts, settings,
             organizers, links, tags)
  <2> HIDE DEF d6
  <2> QED BY <1>6 DEF vacuumTag, Databases
<1>8. Tables(Rooted(d), LiveMemos(d), LiveResources(d), shortcuts, settings,
             organizers, links, tags)
  BY DEF Rooted, Databases, LiveMemos, LiveResources
<1>9. vacuum(d) = d7
  BY DEF vacuum
<1> HIDE DEF d7
<1> QED
  BY <1>7, <1>8, <1>9, SameTables

LEMMA VacuumType ==
  ASSUME NEW d \in Databases
  PROVE  /\ vacuum(d) \in Databases
         /\ vacuum(d) = Rooted(vacuum(d))
<1>1. Rooted(d) \in Databases
  BY DEF Rooted, Databases, LiveMemos, LiveResources
<1>2. Rooted(d) = Rooted(Rooted(d))
  <2> DEFINE e == Rooted(d)
  <2>1. /\ e.user = d.user
        /\ e.memo = LiveMemos(d)
        /\ e.resource = LiveResources(d)
    BY DEF Rooted
  <2>2. LiveMemos(e) = LiveMemos(d) /\ LiveResources(e) = LiveResources(d)
    BY <2>1 DEF LiveMemos, LiveResources
  <2>3. Rooted(e) \in Databases
    BY <1>1 DEF Rooted, Databases, LiveMemos, LiveResources
  <2>4. /\ Rooted(e).user = e.user
        /\ Rooted(e).memo = e.memo
        /\ Rooted(e).resource = e.resource
    BY <2>1, <2>2 DEF Rooted
  <2>5. /\ Rooted(e).shortcut = e.shortcut
        /\ Rooted(e).userSetting = e.userSetting
        /\ Rooted(e).organizer = e.organizer
        /\ Rooted(e).memoResource = e.memoResource
        /\ Rooted(e).tag = e.tag
    BY <2>2 DEF Rooted
  <2> QED
    BY <1>1, <2>3, <2>4, <2>5, SameTables
<1> QED
  BY <1>1, <1>2, VacuumRoots

-----------------------------------------------------------------------------
(***************************************************************************)
(* What a new id is: AUTOINCREMENT stays within its bound.                 *)
(***************************************************************************)
LEMMA NextId ==
  ASSUME NEW n \in Nat, NEW k \in 0 .. n, k < n
  PROVE  /\ k + 1 \in 0 .. n
         /\ k + 1 \in 1 .. n
         /\ \A i \in 1 .. k : i \in 1 .. k + 1 /\ i # k + 1
  OBVIOUS

LEMMA KnownAreIds ==
  ASSUME TypeOK
  PROVE  KnownUsers \subseteq UserIds
<1>1. seq.user \in 0 .. MaxUser
  BY DEF TypeOK, Sequences
<1> QED
  BY <1>1, BoundsAssumption DEF KnownUsers, UserIds

(***************************************************************************)
(* The transactions that vacuum: the database they leave is the vacuum of  *)
(* a part of the one they found.                                           *)
(***************************************************************************)
Vacuuming ==
  \/ \E u \in UserIds : DeleteUser(u)
  \/ \E m \in MemoIds : DeleteMemo(m)
  \/ \E r \in ResourceIds : DeleteResource(r)
  \/ Vacuum

PartOf(e, d) ==
  /\ e.user \subseteq d.user
  /\ e.memo \subseteq d.memo
  /\ e.resource \subseteq d.resource
  /\ e.shortcut \subseteq d.shortcut
  /\ e.userSetting \subseteq d.userSetting
  /\ e.organizer \subseteq d.organizer
  /\ e.memoResource \subseteq d.memoResource
  /\ e.tag \subseteq d.tag

LEMMA VacuumingStep ==
  ASSUME TypeOK, Vacuuming
  PROVE  /\ db' \in Databases
         /\ db' = Rooted(db')
         /\ PartOf(db', db)
         /\ seq' = seq
<1>1. \E e \in Databases : PartOf(e, db) /\ db' = vacuum(e)
  <2>1. ASSUME NEW u \in UserIds, DeleteUser(u)
        PROVE  \E e \in Databases : PartOf(e, db) /\ db' = vacuum(e)
    <3> USE DEF TypeOK, Databases
    <3> WITNESS [db EXCEPT !.user = @ \ {u}] \in Databases
    <3> QED BY <2>1 DEF DeleteUser, PartOf
  <2>2. ASSUME NEW m \in MemoIds, DeleteMemo(m)
        PROVE  \E e \in Databases : PartOf(e, db) /\ db' = vacuum(e)
    <3> USE DEF TypeOK, Databases
    <3> WITNESS [db EXCEPT !.memo = {row \in @ : row.id # m}] \in Databases
    <3> QED BY <2>2 DEF DeleteMemo, PartOf
  <2>3. ASSUME NEW r \in ResourceIds, DeleteResource(r)
        PROVE  \E e \in Databases : PartOf(e, db) /\ db' = vacuum(e)
    <3> USE DEF TypeOK, Databases
    <3> WITNESS [db EXCEPT !.resource = {row \in @ : row.id # r}] \in Databases
    <3> QED BY <2>3 DEF DeleteResource, PartOf
  <2>4. ASSUME Vacuum
        PROVE  \E e \in Databases : PartOf(e, db) /\ db' = vacuum(e)
    BY <2>4 DEF Vacuum, PartOf, TypeOK
  <2> QED
    BY <2>1, <2>2, <2>3, <2>4 DEF Vacuuming
<1>2. PICK e \in Databases : PartOf(e, db) /\ db' = vacuum(e)
  BY <1>1
<1>3. PartOf(Rooted(e), e)
  BY DEF PartOf, Rooted, LiveMemos, LiveResources
<1>4. PartOf(db', db)
  <2>1. db' = Rooted(e)
    BY <1>2, VacuumRoots
  <2> QED
    BY <1>2, <1>3, <2>1 DEF PartOf
<1>5. seq' = seq
  BY DEF Vacuuming, DeleteUser, DeleteMemo, DeleteResource, Vacuum
<1> QED
  BY <1>2, <1>4, <1>5, VacuumType

(***************************************************************************)
(* The other transactions on existing ids: one table changes.              *)
(***************************************************************************)
RowStep ==
  \/ \E u \in KnownUsers :
       \/ \E k \in Keys : UpsertUserSetting(u, k)
       \/ \E m \in MemoIds : UpsertMemoOrganizer(m, u)
       \/ \E n \in Names : UpsertTag(n, u) \/ DeleteTag(n, u)
  \/ \E m \in MemoIds, r \in ResourceIds :
       UpsertMemoResource(m, r) \/ DeleteMemoResource(m, r)
  \/ \E s \in ShortcutIds : DeleteShortcut(s)

LEMMA RowStepKeeps ==
  ASSUME IInv, RowStep
  PROVE  /\ IInv'
         /\ UNCHANGED <<db.user, db.memo, db.resource>>
<1> USE DEF IInv, TypeOK
<1>0. seq' = seq /\ KnownUsers' = KnownUsers /\ KnownUsers \subseteq UserIds
  BY KnownAreIds DEF RowStep, UpsertUserSetting, UpsertMemoOrganizer,
     UpsertTag, DeleteTag, UpsertMemoResource, DeleteMemoResource,
     DeleteShortcut, KnownUsers
<1>1. ASSUME NEW u \in KnownUsers, NEW k \in Keys, UpsertUserSetting(u, k)
      PROVE  IInv' /\ UNCHANGED <<db.user, db.memo, db.resource>>
  BY <1>0, <1>1 DEF UpsertUserSetting, Databases, OwnersKnown
<1>2. ASSUME NEW u \in KnownUsers, NEW m \in MemoIds,
             UpsertMemoOrganizer(m, u)
      PROVE  IInv' /\ UNCHANGED <<db.user, db.memo, db.resource>>
  BY <1>0, <1>2 DEF UpsertMemoOrganizer, Databases, OwnersKnown
<1>3. ASSUME NEW u \in KnownUsers, NEW n \in Names, UpsertTag(n, u)
      PROVE  IInv' /\ UNCHANGED <<db.user, db.memo, db.resource>>
  BY <1>0, <1>3 DEF UpsertTag, Databases, OwnersKnown
<1>4. ASSUME NEW u \in KnownUsers, NEW n \in Names, DeleteTag(n, u)
      PROVE  IInv' /\ UNCHANGED <<db.user, db.memo, db.resource>>
  BY <1>0, <1>4 DEF DeleteTag, Databases, OwnersKnown
<1>5. ASSUME NEW m \in MemoIds, NEW r \in ResourceIds,
             UpsertMemoResource(m, r)
      PROVE  IInv' /\ UNCHANGED <<db.user, db.memo, db.resource>>
  BY <1>0, <1>5 DEF UpsertMemoResource, Databases, OwnersKnown
<1>6. ASSUME NEW m \in MemoIds, NEW r \in ResourceIds,
             DeleteMemoResource(m, r)
      PROVE  IInv' /\ UNCHANGED <<db.user, db.memo, db.resource>>
  BY <1>0, <1>6 DEF DeleteMemoResource, Databases, OwnersKnown
<1>7. ASSUME NEW s \in ShortcutIds, DeleteShortcut(s)
      PROVE  IInv' /\ UNCHANGED <<db.user, db.memo, db.resource>>
  BY <1>0, <1>7 DEF DeleteShortcut, Databases, OwnersKnown
<1> QED
  BY <1>1, <1>2, <1>3, <1>4, <1>5, <1>6, <1>7 DEF RowStep

(***************************************************************************)
(* The transactions that take a new id.                                    *)
(***************************************************************************)
CreateStep ==
  \/ CreateUser
  \/ \E u \in KnownUsers :
       CreateMemo(u) \/ CreateResource(u) \/ CreateShortcut(u)

LEMMA CreateStepKeeps ==
  ASSUME IInv, CreateStep
  PROVE  /\ IInv'
         /\ db.user \subseteq db'.user
         /\ db.memo \subseteq db'.memo
         /\ db.resource \subseteq db'.resource
<1> DEFINE Grown == /\ db.user \subseteq db'.user
                    /\ db.memo \subseteq db'.memo
                    /\ db.resource \subseteq db'.resource
<1> USE DEF IInv, TypeOK
<1>0. KnownUsers \subseteq UserIds
  BY KnownAreIds
<1>1. CASE CreateUser
  <2> DEFINE n == seq.user + 1
  <2>1. n \in 0 .. MaxUser /\ n \in UserIds
    BY <1>1, NextId, BoundsAssumption DEF CreateUser, Sequences, UserIds
  <2>2. 1 .. seq.user \subseteq 1 .. n /\ n \in 1 .. n
    BY <1>1, NextId, BoundsAssumption DEF CreateUser, Sequences
  <2> HIDE DEF n
  <2>3. /\ seq' = [seq EXCEPT !.user = n]
        /\ db' = [db EXCEPT !.user = @ \cup {seq'.user}]
    BY <1>1 DEF CreateUser, n
  <2>4. seq' \in Sequences /\ seq'.user = n
    BY <2>1, <2>3 DEF Sequences
  <2>5. db' \in Databases /\ Grown
    BY <2>1, <2>3, <2>4 DEF Databases
  <2>6. OwnersKnown'
    BY <2>2, <2>3, <2>4 DEF OwnersKnown, KnownUsers, Databases
  <2> QED
    BY <2>4, <2>5, <2>6
<1>2. ASSUME NEW u \in KnownUsers, CreateMemo(u)
      PROVE  IInv' /\ Grown
  <2> DEFINE n == seq.memo + 1
  <2>1. n \in 0 .. MaxMemo /\ n \in MemoIds
    BY <1>2, NextId, BoundsAssumption DEF CreateMemo, Sequences, MemoIds
  <2> HIDE DEF n
  <2>2. /\ seq' = [seq EXCEPT !.memo = n]
        /\ db' = [db EXCEPT !.memo =
                     @ \cup {[id |-> seq'.memo, creator |-> u]}]
    BY <1>2 DEF CreateMemo, n
  <2>3. seq' \in Sequences /\ seq'.memo = n /\ seq'.user = seq.user
    BY <2>1, <2>2 DEF Sequences
  <2>4. db' \in Databases /\ Grown
    BY <1>0, <2>1, <2>2, <2>3 DEF Databases
  <2>5. OwnersKnown'
    BY <2>2, <2>3 DEF OwnersKnown, KnownUsers, Databases
  <2> QED
    BY <2>3, <2>4, <2>5
<1>3. ASSUME NEW u \in KnownUsers, CreateResource(u)
      PROVE  IInv' /\ Grown
  <2> DEFINE n == seq.resource + 1
  <2>1. n \in 0 .. MaxResource /\ n \in ResourceIds
    BY <1>3, NextId, BoundsAssumption DEF CreateResource, Sequences, ResourceIds
  <2> HIDE DEF n
  <2>2. /\ seq' = [seq EXCEPT !.resource = n]
        /\ db' = [db EXCEPT !.resource =
                     @ \cup {[id |-> seq'.resource, creator |-> u]}]
    BY <1>3 DEF CreateResource, n
  <2>3. seq' \in Sequences /\ seq'.resource = n /\ seq'.user = seq.user
    BY <2>1, <2>2 DEF Sequences
  <2>4. db' \in Databases /\ Grown
    BY <1>0, <2>1, <2>2, <2>3 DEF Databases
  <2>5. OwnersKnown'
    BY <2>2, <2>3 DEF OwnersKnown, KnownUsers, Databases
  <2> QED
    BY <2>3, <2>4, <2>5
<1>4. ASSUME NEW u \in KnownUsers, CreateShortcut(u)
      PROVE  IInv' /\ Grown
  <2> DEFINE n == seq.shortcut + 1
  <2>1. n \in 0 .. MaxShortcut /\ n \in ShortcutIds
    BY <1>4, NextId, BoundsAssumption DEF CreateShortcut, Sequences, ShortcutIds
  <2> HIDE DEF n
  <2>2. /\ seq' = [seq EXCEPT !.shortcut = n]
        /\ db' = [db EXCEPT !.shortcut =
                     @ \cup {[id |-> seq'.shortcut, creator |-> u]}]
    BY <1>4 DEF CreateShortcut, n
  <2>3. seq' \in Sequences /\ seq'.shortcut = n /\ seq'.user = seq.user
    BY <2>1, <2>2 DEF Sequences
  <2>4. db' \in Databases /\ Grown
    BY <1>0, <2>1, <2>2, <2>3 DEF Databases
  <2>5. OwnersKnown'
    BY <2>2, <2>3 DEF OwnersKnown, KnownUsers, Databases
  <2> QED
    BY <2>3, <2>4, <2>5
<1> QED
  BY <1>1, <1>2, <1>3, <1>4 DEF CreateStep

LEMMA NextSplits ==
  Next <=> CreateStep \/ RowStep \/ Vacuuming
BY DEF Next, CreateStep, RowStep, Vacuuming

-----------------------------------------------------------------------------
LEMMA InitInv ==
  ASSUME Init
  PROVE  IInv
<1>1. PICK n \in 0 .. MaxUser :
        seq = [user |-> n, memo |-> 0, resource |-> 0, shortcut |-> 0]
  BY DEF Init
<1>2. 1 .. seq.user \subseteq UserIds
  BY <1>1, BoundsAssumption DEF UserIds
<1>3. seq \in Sequences
  BY <1>1, BoundsAssumption DEF Sequences
<1> QED
  BY <1>2, <1>3 DEF Init, IInv, TypeOK, Databases, OwnersKnown, KnownUsers

LEMMA StepInv ==
  ASSUME IInv, [Next]_vars
  PROVE  IInv'
<1>1. CASE CreateStep
  BY <1>1, CreateStepKeeps
<1>2. CASE RowStep
  BY <1>2, RowStepKeeps
<1>3. CASE Vacuuming
  <2>1. db' \in Databases /\ PartOf(db', db) /\ seq' = seq
    BY <1>3, VacuumingStep DEF IInv
  <2> QED
    BY <2>1 DEF IInv, TypeOK, OwnersKnown, KnownUsers, PartOf
<1>4. CASE UNCHANGED vars
  BY <1>4 DEF vars, IInv, TypeOK, OwnersKnown, KnownUsers
<1> QED
  BY <1>1, <1>2, <1>3, <1>4, NextSplits

\* Tables and id counters stay well typed, and every owner a row names is an
\* id that was given out.
THEOREM Invariance == Spec => []IInv
<1>1. Init => IInv
  BY InitInv
<1>2. IInv /\ [Next]_vars => IInv'
  BY StepInv
<1> QED
  BY <1>1, <1>2, PTL DEF Spec

\* In every reachable database one pass of the vacuum statements of
\* store.go:51-77 removes exactly the rows that miss an ancestor.
THEOREM VacuumIsAlwaysExact == Spec => []VacuumIsExact
<1>1. IInv => VacuumIsExact
  BY VacuumRoots DEF IInv, TypeOK, VacuumIsExact
<1> QED
  BY <1>1, Invariance, PTL

\* A transaction in which a user, a memo or a resource goes leaves no orphan
\* in any table: DeleteUser, DeleteMemo, DeleteResource and Vacuum.
THEOREM NoOrphansAfterDeletion == Spec => DeletionLeavesNoOrphans
<1> DEFINE Gone == \/ ~ db.user \subseteq db'.user
                   \/ ~ db.memo \subseteq db'.memo
                   \/ ~ db.resource \subseteq db'.resource
<1>1. ASSUME IInv, [Next]_vars, Gone
      PROVE  db' = Rooted(db')
  <2>1. ~ UNCHANGED vars
    BY <1>1 DEF vars
  <2>2. ~ CreateStep
    BY <1>1, CreateStepKeeps
  <2>3. ~ RowStep
    BY <1>1, RowStepKeeps
  <2> QED
    BY <1>1, <2>1, <2>2, <2>3, NextSplits, VacuumingStep DEF IInv
<1> QED
  BY <1>1, Invariance, PTL DEF Spec, DeletionLeavesNoOrphans

\* A new account owns nothing at first, whatever rows deleted users left.
THEOREM NothingInherited == Spec => NoInheritance
<1> DEFINE Bare(u) ==
      /\ \A row \in db'.memo \cup db'.resource \cup db'.shortcut \cup db'.tag :
           row.creator # u
      /\ \A row \in db'.userSetting \cup db'.organizer : row.user # u
<1>1. ASSUME IInv, [Next]_vars, NEW u \in db'.user \ db.user
      PROVE  Bare(u)
  <2>1. CreateUser
    <3>1. ~ UNCHANGED vars
      BY <1>1 DEF vars
    <3>2. ~ RowStep
      BY <1>1, RowStepKeeps
    <3>3. ~ Vacuuming
      BY <1>1, VacuumingStep DEF IInv, PartOf
    <3>4. ~ \E v \in KnownUsers :
             CreateMemo(v) \/ CreateResource(v) \/ CreateShortcut(v)
      BY <1>1 DEF CreateMemo, CreateResource, CreateShortcut, IInv, TypeOK,
         Databases
    <3> QED
      BY <1>1, <3>1, <3>2, <3>3, <3>4, NextSplits DEF CreateStep
  <2> DEFINE n == seq.user + 1
  <2>2. \A v \in KnownUsers : v # n
    BY <1>1, <2>1, NextId, BoundsAssumption
       DEF CreateUser, KnownUsers, IInv, TypeOK, Sequences
  <2> HIDE DEF n
  <2>3. /\ seq' = [seq EXCEPT !.user = n]
        /\ db' = [db EXCEPT !.user = @ \cup {seq'.user}]
    BY <2>1 DEF CreateUser, n
  <2>4. u = n
    BY <1>1, <2>3 DEF IInv, TypeOK, Databases, Sequences
  <2>5. /\ db'.memo = db.memo /\ db'.resource = db.resource
        /\ db'.shortcut = db.shortcut /\ db'.tag = db.tag
        /\ db'.userSetting = db.userSetting /\ db'.organizer = db.organizer
    BY <1>1, <2>3 DEF IInv, TypeOK, Databases
  <2> QED
    BY <1>1, <2>2, <2>4, <2>5 DEF IInv, OwnersKnown
<1>2. IInv /\ [Next]_vars => [\A u \in db'.user \ db.user : Bare(u)]_vars
  BY <1>1
<1> QED
  BY <1>2, Invariance, PTL DEF Spec, NoInheritance
-----------------------------------------------------------------------------
(***************************************************************************)
(* Losses.  Primary keys are unique, since a new id is above all that were *)
(* given out; so a DELETE by id meets one row.                             *)
(***************************************************************************)
KeysOf(table, last) ==
  /\ \A row \in table : row.id \in 1 .. last
  /\ \A a, b \in table : a.id = b.id => a = b

KeysUnique ==
  /\ KeysOf(db.memo, seq.memo)
  /\ KeysOf(db.resource, seq.resource)
  /\ KeysOf(db.shortcut, seq.shortcut)

LEMMA KeysOfFewer ==
  ASSUME NEW t, NEW last, KeysOf(t, last), NEW s \in SUBSET t
  PROVE  KeysOf(s, last)
BY DEF KeysOf

LEMMA KeysOfMore ==
  ASSUME NEW t, NEW last \in Nat, KeysOf(t, last), NEW u
  PROVE  KeysOf(t \cup {[id |-> last + 1, creator |-> u]}, last + 1)
<1> DEFINE n == last + 1
           row == [id |-> n, creator |-> u]
<1>1. n \in 1 .. n /\ \A i \in 1 .. last : i \in 1 .. n /\ i # n
  OBVIOUS
<1>2. row.id = n
  OBVIOUS
<1> HIDE DEF n, row
<1>3. KeysOf(t \cup {row}, n)
  BY <1>1, <1>2 DEF KeysOf
<1> QED
  BY <1>3 DEF n, row

LEMMA KeysStep ==
  ASSUME IInv, KeysUnique, [Next]_vars
  PROVE  KeysUnique'
<1> USE DEF IInv, TypeOK
<1>1. CASE CreateUser
  BY <1>1 DEF CreateUser, KeysUnique, Databases, Sequences
<1>2. ASSUME NEW u \in KnownUsers, CreateMemo(u)
      PROVE  KeysUnique'
  <2>1. /\ seq' = [seq EXCEPT !.memo = @ + 1]
        /\ db' = [db EXCEPT !.memo = @ \cup {[id |-> seq.memo + 1, creator |-> u]}]
    BY <1>2 DEF CreateMemo, Sequences
  <2>2. seq.memo \in Nat /\ KeysOf(db.memo, seq.memo)
    BY BoundsAssumption DEF KeysUnique, Sequences
  <2>3. KeysOf(db.memo \cup {[id |-> seq.memo + 1, creator |-> u]}, seq.memo + 1)
    BY <2>2, KeysOfMore
  <2> QED
    BY <2>1, <2>3 DEF KeysUnique, Databases, Sequences
<1>3. ASSUME NEW u \in KnownUsers, CreateResource(u)
      PROVE  KeysUnique'
  <2>1. /\ seq' = [seq EXCEPT !.resource = @ + 1]
        /\ db' = [db EXCEPT !.resource =
                     @ \cup {[id |-> seq.resource + 1, creator |-> u]}]
    BY <1>3 DEF CreateResource, Sequences
  <2>2. seq.resource \in Nat /\ KeysOf(db.resource, seq.resource)
    BY BoundsAssumption DEF KeysUnique, Sequences
  <2>3. KeysOf(db.resource \cup {[id |-> seq.resource + 1, creator |-> u]},
               seq.resource + 1)
    BY <2>2, KeysOfMore
  <2> QED
    BY <2>1, <2>3 DEF KeysUnique, Databases, Sequences
<1>4. ASSUME NEW u \in KnownUsers, CreateShortcut(u)
      PROVE  KeysUnique'
  <2>1. /\ seq' = [seq EXCEPT !.shortcut = @ + 1]
        /\ db' = [db EXCEPT !.shortcut =
                     @ \cup {[id |-> seq.shortcut + 1, creator |-> u]}]
    BY <1>4 DEF CreateShortcut, Sequences
  <2>2. seq.shortcut \in Nat /\ KeysOf(db.shortcut, seq.shortcut)
    BY BoundsAssumption DEF KeysUnique, Sequences
  <2>3. KeysOf(db.shortcut \cup {[id |-> seq.shortcut + 1, creator |-> u]},
               seq.shortcut + 1)
    BY <2>2, KeysOfMore
  <2> QED
    BY <2>1, <2>3 DEF KeysUnique, Databases, Sequences
<1>5. ASSUME seq' = seq, db'.memo \subseteq db.memo,
             db'.resource \subseteq db.resource,
             db'.shortcut \subseteq db.shortcut
      PROVE  KeysUnique'
  BY <1>5, KeysOfFewer DEF KeysUnique
<1>6. CASE RowStep
  <2>1. seq' = seq /\ db'.memo = db.memo /\ db'.resource = db.resource
    BY <1>6, RowStepKeeps DEF RowStep, UpsertUserSetting, UpsertMemoOrganizer,
       UpsertTag, DeleteTag, UpsertMemoResource, DeleteMemoResource,
       DeleteShortcut
  <2>2. db'.shortcut \subseteq db.shortcut
    BY <1>6 DEF RowStep, UpsertUserSetting, UpsertMemoOrganizer,
       UpsertTag, DeleteTag, UpsertMemoResource, DeleteMemoResource,
       DeleteShortcut, Databases
  <2> QED
    BY <1>5, <2>1, <2>2
<1>7. CASE Vacuuming
  BY <1>5, <1>7, VacuumingStep DEF PartOf
<1>8. CASE UNCHANGED vars
  BY <1>8 DEF vars, KeysUnique
<1> QED
  BY <1>1, <1>2, <1>3, <1>4, <1>6, <1>7, <1>8, NextSplits DEF CreateStep

LEMMA KeysKept == Spec => []KeysUnique
<1>1. Init => KeysUnique
  BY DEF Init, KeysUnique, KeysOf
<1> QED
  BY <1>1, KeysStep, Invariance, PTL DEF Spec

(***************************************************************************)
(* A step first takes the rows it was asked to take, which leaves e; what  *)
(* it takes then is what misses an ancestor, so only the rows that e lost  *)
(* are lost without a cause.                                               *)
(***************************************************************************)
Tables == {"user", "memo", "resource", "shortcut", "userSetting", "organizer",
           "memoResource", "tag"}

AskedOne(e) ==
  \A t1, t2 \in Tables : \A a \in db[t1] \ e[t1], b \in db[t2] \ e[t2] :
    t1 = t2 /\ a = b

LEMMA UncausedIsAsked ==
  ASSUME NEW e \in Databases, db' = Rooted(e) \/ PartOf(e, db'),
         NEW x \in UncausedLosses
  PROVE  \E t \in Tables : \E row \in db[t] \ e[t] : x = <<t, row>>
<1>1. ASSUME NEW t \in {"memo", "resource", "shortcut", "tag"},
             NEW row \in db[t] \ db'[t], row.creator \in db'.user
      PROVE  row \notin e[t]
  <2>1. CASE PartOf(e, db')
    BY <1>1, <2>1 DEF PartOf
  <2>2. CASE db' = Rooted(e)
    <3>1. /\ db'.user = e.user
          /\ db'.memo = {m \in e.memo : m.creator \in e.user}
          /\ db'.resource = {r \in e.resource : r.creator \in e.user}
          /\ db'.shortcut = {s \in e.shortcut : s.creator \in e.user}
          /\ db'.tag = {g \in e.tag : g.creator \in e.user}
      BY <2>2 DEF Rooted, LiveMemos, LiveResources
    <3> QED
      BY <1>1, <3>1
  <2> QED
    BY <2>1, <2>2
<1>2. ASSUME NEW u \in db.user \ db'.user
      PROVE  u \notin e.user
  BY <1>2 DEF PartOf, Rooted
<1>3. ASSUME NEW s \in db.userSetting \ db'.userSetting, s.user \in db'.user
      PROVE  s \notin e.userSetting
  BY <1>3 DEF PartOf, Rooted
<1>4. ASSUME NEW o \in db.organizer \ db'.organizer,
             o.memo \in IdsOf(db'.memo), o.user \in db'.user
      PROVE  o \notin e.organizer
  BY <1>4 DEF PartOf, Rooted
<1>5. ASSUME NEW l \in db.memoResource \ db'.memoResource,
             l.memo \in IdsOf(db'.memo), l.resource \in IdsOf(db'.resource)
      PROVE  l \notin e.memoResource
  BY <1>5 DEF PartOf, Rooted
<1>6. \/ \E t \in {"memo", "resource", "shortcut", "tag"} :
           \E row \in db[t] \ db'[t] : row.creator \in db'.user /\ x = <<t, row>>
      \/ \E u \in db.user \ db'.user : x = <<"user", u>>
      \/ \E s \in db.userSetting \ db'.userSetting :
           s.user \in db'.user /\ x = <<"userSetting", s>>
      \/ \E o \in db.organizer \ db'.organizer :
           /\ o.memo \in IdsOf(db'.memo) /\ o.user \in db'.user
           /\ x = <<"organizer", o>>
      \/ \E l \in db.memoResource \ db'.memoResource :
           /\ l.memo \in IdsOf(db'.memo) /\ l.resource \in IdsOf(db'.resource)
           /\ x = <<"memoResource", l>>
  BY DEF UncausedLosses
<1> QED
  BY <1>1, <1>2, <1>3, <1>4, <1>5, <1>6 DEF Tables

LEMMA OneAskedIsEnough ==
  ASSUME NEW e \in Databases, db' = Rooted(e) \/ PartOf(e, db'), AskedOne(e)
  PROVE  \A x, y \in UncausedLosses : x = y
BY UncausedIsAsked DEF AskedOne

LEMMA NoLossWithoutCause ==
  ASSUME IInv, KeysUnique, Next
  PROVE  \A x, y \in UncausedLosses : x = y
<1> DEFINE One == \A x, y \in UncausedLosses : x = y
<1> USE DEF IInv, TypeOK
<1>1. ASSUME PartOf(db, db')
      PROVE  One
  BY <1>1, OneAskedIsEnough DEF AskedOne
\* One table of e has fewer rows than that of db, and by one row at most.
<1>2. ASSUME NEW t \in Tables, NEW s \in SUBSET db[t],
             \A a, b \in db[t] \ s : a = b,
             LET e == [db EXCEPT ![t] = s]
             IN  db' = vacuum(e) \/ db' = e
      PROVE  One
  <2> DEFINE e == [db EXCEPT ![t] = s]
  <2>1. e \in Databases /\ e[t] = s /\ \A o \in Tables \ {t} : e[o] = db[o]
    BY <1>2 DEF Databases, Tables
  <2>2. AskedOne(e)
    BY <1>2, <2>1 DEF AskedOne
  <2>3. db' = Rooted(e) \/ PartOf(e, db')
    BY <1>2, <2>1, VacuumRoots DEF PartOf
  <2> HIDE DEF e
  <2> QED
    BY <2>1, <2>2, <2>3, OneAskedIsEnough
<1>3. CASE CreateStep
  <2>1. PartOf(db, db')
    BY <1>3 DEF CreateStep, CreateUser, CreateMemo, CreateResource,
       CreateShortcut, PartOf, Databases
  <2> QED
    BY <1>1, <2>1
<1>4. ASSUME NEW n \in Names, NEW u \in KnownUsers, DeleteTag(n, u)
      PROVE  One
  <2> DEFINE s == db.tag \ {[name |-> n, creator |-> u]}
  <2>1. db' = [db EXCEPT !["tag"] = s]
        /\ s \in SUBSET db["tag"] /\ \A a, b \in db["tag"] \ s : a = b
    BY <1>4 DEF DeleteTag
  <2> HIDE DEF s
  <2> QED
    BY <1>2, <2>1 DEF Tables
<1>5. ASSUME NEW m \in MemoIds, NEW r \in ResourceIds, DeleteMemoResource(m, r)
      PROVE  One
  <2> DEFINE s == db.memoResource \ {[memo |-> m, resource |-> r]}
  <2>1. db' = [db EXCEPT !["memoResource"] = s]
        /\ s \in SUBSET db["memoResource"] /\ \A a, b \in db["memoResource"] \ s : a = b
    BY <1>5 DEF DeleteMemoResource
  <2> HIDE DEF s
  <2> QED
    BY <1>2, <2>1 DEF Tables
<1>6. ASSUME NEW i \in ShortcutIds, DeleteShortcut(i)
      PROVE  One
  <2> DEFINE s == {row \in db.shortcut : row.id # i}
  <2>1. db' = [db EXCEPT !["shortcut"] = s]
        /\ s \in SUBSET db["shortcut"] /\ \A a, b \in db["shortcut"] \ s : a = b
    BY <1>6 DEF DeleteShortcut, KeysUnique, KeysOf
  <2> HIDE DEF s
  <2> QED
    BY <1>2, <2>1 DEF Tables
<1>7. CASE RowStep
  <2>1. CASE \E u \in KnownUsers :
               \/ \E k \in Keys : UpsertUserSetting(u, k)
               \/ \E m \in MemoIds : UpsertMemoOrganizer(m, u)
               \/ \E n \in Names : UpsertTag(n, u)
    <3>1. PartOf(db, db')
      BY <2>1 DEF UpsertUserSetting, UpsertMemoOrganizer, UpsertTag, PartOf,
         Databases
    <3> QED
      BY <1>1, <3>1
  <2>2. CASE \E m \in MemoIds, r \in ResourceIds : UpsertMemoResource(m, r)
    <3>1. PartOf(db, db')
      BY <2>2 DEF UpsertMemoResource, PartOf, Databases
    <3> QED
      BY <1>1, <3>1
  <2> QED
    BY <1>4, <1>5, <1>6, <1>7, <2>1, <2>2 DEF RowStep
<1>8. ASSUME NEW u \in UserIds, DeleteUser(u)
      PROVE  One
  <2> DEFINE s == db.user \ {u}
  <2>1. db' = vacuum([db EXCEPT !["user"] = s])
        /\ s \in SUBSET db["user"] /\ \A a, b \in db["user"] \ s : a = b
    BY <1>8 DEF DeleteUser
  <2> HIDE DEF s
  <2> QED
    BY <1>2, <2>1 DEF Tables
<1>9. ASSUME NEW m \in MemoIds, DeleteMemo(m)
      PROVE  One
  <2> DEFINE s == {row \in db.memo : row.id # m}
  <2>1. db' = vacuum([db EXCEPT !["memo"] = s])
        /\ s \in SUBSET db["memo"] /\ \A a, b \in db["memo"] \ s : a = b
    BY <1>9 DEF DeleteMemo, KeysUnique, KeysOf
  <2> HIDE DEF s
  <2> QED
    BY <1>2, <2>1 DEF Tables
<1>10. ASSUME NEW r \in ResourceIds, DeleteResource(r)
       PROVE  One
  <2> DEFINE s == {row \in db.resource : row.id # r}
  <2>1. db' = vacuum([db EXCEPT !["resource"] = s])
        /\ s \in SUBSET db["resource"] /\ \A a, b \in db["resource"] \ s : a = b
    BY <1>10 DEF DeleteResource, KeysUnique, KeysOf
  <2> HIDE DEF s
  <2> QED
    BY <1>2, <2>1 DEF Tables
<1>11. CASE Vacuum
  <2>1. AskedOne(db) /\ db' = Rooted(db)
    BY <1>11, VacuumRoots DEF AskedOne, Vacuum
  <2> QED
    BY <2>1, OneAskedIsEnough
<1> QED
  BY <1>3, <1>7, <1>8, <1>9, <1>10, <1>11, NextSplits DEF Vacuuming

\* A transaction takes at most one row that has not lost a row it refers to,
\* the one it was asked to delete.
THEOREM OnlyCausedLosses == Spec => NoCollateralLoss
<1>1. IInv /\ KeysUnique /\ [Next]_vars
        => [\A x, y \in UncausedLosses : x = y]_vars
  BY NoLossWithoutCause
<1> QED
  BY <1>1, Invariance, KeysKept, PTL DEF Spec, NoCollateralLoss
=============================================================================
