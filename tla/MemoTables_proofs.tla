-------------------------- MODULE MemoTables_proofs --------------------------
(***************************************************************************)
(* MemoService implements StoreDB: seen from the tables user and memo, a   *)
(* step of the concurrent handlers is one transaction or none.             *)
(***************************************************************************)
EXTENDS MemoService_proofs

\* The mapped database, as a function of the two tables it depends on.
Image(table) ==
  {[id |-> m, creator |-> table[m].creator] :
     m \in {n \in MemoIds : table[n] # NoRow}}

Skeleton(users, memos) ==
  [user |-> users, memo |-> memos, resource |-> {}, shortcut |-> {},
   userSetting |-> {}, organizer |-> {}, memoResource |-> {}, tag |-> {}]

Counters(n) == [user |-> NumUsers, memo |-> n, resource |-> 0, shortcut |-> 0]

MappedDb == Skeleton(user, Image(memo))

Mapped == <<MappedDb, Counters(lastMemo)>>

LEMMA MappedIsMapped ==
  /\ Tables!vars = Mapped
  /\ Tables!vars' = Mapped'
BY DEF Tables!vars, Mapped, MappedDb, Skeleton, Image, Counters

LEMMA SkeletonExcept ==
  ASSUME NEW users, NEW memos, NEW new
  PROVE  /\ [Skeleton(users, memos) EXCEPT !.memo = new] = Skeleton(users, new)
         /\ [Skeleton(users, memos) EXCEPT !.user = new] = Skeleton(new, memos)
BY DEF Skeleton

\* On the two tables, vacuum is vacuumMemo.
LEMMA VacuumOfSkeleton ==
  ASSUME NEW users, NEW memos
  PROVE  Tables!vacuum(Skeleton(users, memos))
           = Skeleton(users, {m \in memos : m.creator \in users})
<1> DEFINE kept == {m \in memos : m.creator \in users}
           d    == Skeleton(users, kept)
<1>1. Tables!vacuumMemo(Skeleton(users, memos)) = d
  <2> DEFINE s == Skeleton(users, memos)
  <2>1. s.user = users /\ s.memo = memos
    BY DEF Skeleton
  <2>2. Tables!vacuumMemo(s) = [s EXCEPT !.memo = kept]
    BY <2>1, Zenon DEF Tables!vacuumMemo
  <2> HIDE DEF kept
  <2>3. [s EXCEPT !.memo = kept] = d
    BY SkeletonExcept
  <2> QED
    BY <2>2, <2>3
<1>2. /\ d.user = users /\ d.memo = kept /\ d.resource = {}
      /\ d.shortcut = {} /\ d.userSetting = {} /\ d.organizer = {}
      /\ d.memoResource = {} /\ d.tag = {}
  BY DEF Skeleton
<1> HIDE DEF kept
<1>3. Tables!vacuumResource(d) = d
  BY DEF Tables!vacuumResource, Skeleton
<1>4. Tables!vacuumShortcut(d) = d
  BY DEF Tables!vacuumShortcut, Skeleton
<1>5. Tables!vacuumUserSetting(d) = d
  BY DEF Tables!vacuumUserSetting, Skeleton
<1>6. Tables!vacuumMemoOrganizer(d) = d
  BY DEF Tables!vacuumMemoOrganizer, Skeleton
<1>7. Tables!vacuumMemoResource(d) = d
  BY DEF Tables!vacuumMemoResource, Skeleton
<1>8. Tables!vacuumTag(d) = d
  BY DEF Tables!vacuumTag, Skeleton
<1> QED
  BY <1>1, <1>3, <1>4, <1>5, <1>6, <1>7, <1>8, Zenon DEF Tables!vacuum, kept

LEMMA ImageUnchanged ==
  ASSUME NEW t, NEW s,
         \A m \in MemoIds : /\ t[m] = NoRow <=> s[m] = NoRow
                            /\ t[m] # NoRow => t[m].creator = s[m].creator
  PROVE  Image(t) = Image(s)
BY DEF Image

LEMMA ImageIds ==
  ASSUME NEW t, NEW m \in MemoIds
  PROVE  t[m] # NoRow => m \in Tables!IdsOf(Image(t))
<1> SUFFICES ASSUME t[m] # NoRow
             PROVE  \E row \in Image(t) : m = row.id
  BY DEF Tables!IdsOf
<1> DEFINE row == [id |-> m, creator |-> t[m].creator]
<1>1. row \in Image(t) /\ m = row.id
  BY DEF Image
<1> QED
  BY <1>1

\* What vacuumMemo leaves of a table.
LEMMA ImageVacuumed ==
  ASSUME NEW t, NEW users
  PROVE  Image(Vacuumed(t, users)) = {m \in Image(t) : m.creator \in users}
<1> DEFINE v == Vacuumed(t, users)
<1>1. \A m \in MemoIds :
        /\ v[m] # NoRow <=> t[m] # NoRow /\ t[m].creator \in users
        /\ v[m] # NoRow => v[m] = t[m]
  BY DEF Vacuumed
<1> HIDE DEF v
<1> QED
  BY <1>1 DEF Image, v

-----------------------------------------------------------------------------
(***************************************************************************)
(* The transactions.                                                       *)
(***************************************************************************)
LEMMA CreateMapped ==
  ASSUME IInv, NEW w \in Workers, CreateMemo(w)
  PROVE  \E u \in Tables!KnownUsers : Tables!CreateMemo(u)
<1>1. DataOK /\ ControlOK /\ Knows(w)
  BY TypeSplits DEF IInv, HandlersKnow
<1>2. /\ pc[w] = "createMemo"
      /\ request[w].user \in Users /\ request[w].body \in Bodies
  <2>1. pc[w] = "createMemo"
    BY DEF CreateMemo
  <2>2. request[w] \in Requests /\ request[w].op = "create"
    BY <1>1, <2>1 DEF Knows, Serving, ControlOK
  <2> QED
    BY <2>1, <2>2, RequestFields DEF Public
<1> PICK u \in Users : u = request[w].user
  BY <1>2
<1> DEFINE n == lastMemo + 1
           row == [id |-> n, creator |-> u, body |-> request[w].body]
<1>3. /\ pc[w] = "createMemo" /\ n <= MaxMemo /\ lastMemo' = n
      /\ memo' = [memo EXCEPT ![n] = row] /\ user' = user
  BY DEF CreateMemo, NextMemo, Saved
<1>4. n \in MemoIds /\ lastMemo \in Nat
  BY <1>1, <1>3, ServiceAssumption DEF DataOK, MemoIds
<1>5. memo[n] = NoRow
  BY <1>4 DEF IInv, RowsKeyed, Issued
<1>6. row # NoRow /\ row.creator = u
  BY <1>2, <1>4, RowFields
<1>7. \A m \in MemoIds : memo'[m] = IF m = n THEN row ELSE memo[m]
  BY <1>1, <1>3 DEF DataOK
<1> HIDE DEF row, n
<1>8. Image(memo') = Image(memo) \cup {[id |-> n, creator |-> u]}
  BY <1>4, <1>5, <1>6, <1>7 DEF Image
<1>9. Counters(lastMemo') = [Counters(lastMemo) EXCEPT !.memo = @ + 1]
  BY <1>3 DEF Counters, n
<1>10. MappedDb' = [MappedDb EXCEPT !.memo =
                     @ \cup {[id |-> Counters(lastMemo').memo, creator |-> u]}]
  <2> DEFINE new == Image(memo) \cup {[id |-> n, creator |-> u]}
  <2>1. MappedDb' = Skeleton(user, new)
    BY <1>3, <1>8 DEF MappedDb
  <2>2. Counters(lastMemo').memo = n /\ MappedDb.memo = Image(memo)
    BY <1>3 DEF Counters, MappedDb, Skeleton
  <2> HIDE DEF new
  <2>3. MappedDb' = [MappedDb EXCEPT !.memo = new]
    BY <2>1, SkeletonExcept DEF MappedDb
  <2>4. new = MappedDb.memo \cup {[id |-> Counters(lastMemo').memo, creator |-> u]}
    BY <2>2 DEF new
  <2> QED
    BY <2>3, <2>4
<1>11. Tables!CreateMemo(u)
  <2>1. Counters(lastMemo).memo < MaxMemo
    BY <1>3, <1>4, ServiceAssumption DEF Counters, n
  <2> QED
    BY <2>1, <1>9, <1>10
    DEF Tables!CreateMemo, MappedDb, Skeleton, Image, Counters
<1>12. u \in Tables!KnownUsers
  BY DEF Tables!KnownUsers, Users
<1> QED
  BY <1>11, <1>12

LEMMA PatchMapped ==
  ASSUME IInv, NEW w \in Workers, PatchMemo(w)
  PROVE  UNCHANGED Mapped
<1> DEFINE i == request[w].id
           row == [id |-> memo[i].id, creator |-> memo[i].creator,
                   body |-> request[w].body]
<1>1. /\ pc[w] = "patchMemo" /\ memo[i] # NoRow
      /\ memo' = [memo EXCEPT ![row.id] = row]
      /\ user' = user /\ lastMemo' = lastMemo
  BY DEF PatchMemo, Saved
<1>2. DataOK /\ ControlOK /\ Knows(w)
  BY TypeSplits DEF IInv, HandlersKnow
<1>3. i \in MemoIds /\ request[w].body \in Bodies
  <2>1. request[w] \in Requests /\ request[w].op = "patch"
    BY <1>1, <1>2 DEF Knows, Serving, ControlOK
  <2> QED
    BY <2>1, RequestFields DEF OneMemo
<1>4. memo[i].id = i /\ memo[i] \in Row
  BY <1>1, <1>2, <1>3 DEF IInv, RowsKeyed, DataOK
<1>5. row # NoRow /\ row.id = i /\ row.creator = memo[i].creator
  BY <1>3, <1>4, RowFields
<1>6. \A m \in MemoIds : memo'[m] = IF m = i THEN row ELSE memo[m]
  BY <1>1, <1>2, <1>5 DEF DataOK
<1> HIDE DEF row, i
<1>7. Image(memo') = Image(memo)
  <2>1. \A m \in MemoIds : /\ memo'[m] = NoRow <=> memo[m] = NoRow
                           /\ memo'[m] # NoRow => memo'[m].creator = memo[m].creator
    BY <1>1, <1>5, <1>6
  <2> QED
    BY <2>1, ImageUnchanged
<1> QED
  BY <1>1, <1>7 DEF Mapped, MappedDb

LEMMA DeleteMemoMapped ==
  ASSUME IInv, NEW w \in Workers, DeleteMemo(w), memo[request[w].id] # NoRow
  PROVE  \E m \in MemoIds : Tables!DeleteMemo(m)
<1>1. DataOK /\ ControlOK /\ Knows(w)
  BY TypeSplits DEF IInv, HandlersKnow
<1>2. request[w].id \in MemoIds
  <2>1. request[w] \in Requests /\ request[w].op = "delete"
    BY <1>1 DEF DeleteMemo, Knows, Serving, ControlOK
  <2> QED
    BY <2>1, RequestFields DEF OneMemo
<1> PICK i \in MemoIds : i = request[w].id
  BY <1>2
<1> DEFINE rest == [memo EXCEPT ![i] = NoRow]
           left == {r \in Image(memo) : r.id # i}
<1>3. /\ memo[i] # NoRow /\ memo' = Vacuumed(rest, user)
      /\ user' = user /\ lastMemo' = lastMemo
  BY DEF DeleteMemo
<1>4. \A m \in MemoIds : rest[m] = IF m = i THEN NoRow ELSE memo[m]
  BY <1>1 DEF DataOK
<1>5. Image(rest) = left
  <2> HIDE DEF rest
  <2> QED
    BY <1>4 DEF Image
<1> HIDE DEF rest
<1>6. Image(memo') = {r \in left : r.creator \in user}
  BY <1>3, <1>5, ImageVacuumed
<1> HIDE DEF left
<1>7. MappedDb' = Tables!vacuum(Skeleton(user, left))
  BY <1>3, <1>6, VacuumOfSkeleton DEF MappedDb
<1>8. [MappedDb EXCEPT !.memo = left] = Skeleton(user, left)
  BY SkeletonExcept DEF MappedDb
<1>9. MappedDb.memo = Image(memo)
  BY DEF MappedDb, Skeleton
<1>10. MappedDb' = Tables!vacuum([MappedDb EXCEPT !.memo =
                                    {r \in MappedDb.memo : r.id # i}])
  BY <1>7, <1>8, <1>9 DEF left
<1>11. i \in Tables!IdsOf(MappedDb.memo)
  BY <1>3, <1>9, ImageIds
<1>12. Tables!DeleteMemo(i)
  BY <1>3, <1>10, <1>11
  DEF Tables!DeleteMemo, MappedDb, Skeleton, Image
<1> QED
  BY <1>12

LEMMA DeleteUserMapped ==
  ASSUME IInv, NEW w \in Workers, DeleteUser(w), request[w].target \in user
  PROVE  \E u \in Users : Tables!DeleteUser(u)
<1>1. request[w].target \in Users
  BY TypeSplits DEF IInv, DataOK
<1> PICK u \in Users : u = request[w].target
  BY <1>1
<1>2. /\ u \in user /\ user' = user \ {u} /\ memo' = Vacuumed(memo, user')
      /\ lastMemo' = lastMemo
  BY DEF DeleteUser
<1>3. Image(memo') = {r \in Image(memo) : r.creator \in user'}
  BY <1>2, ImageVacuumed
<1>4. MappedDb' = Tables!vacuum(Skeleton(user', Image(memo)))
  BY <1>3, VacuumOfSkeleton DEF MappedDb
<1>5. [MappedDb EXCEPT !.user = @ \ {u}] = Skeleton(user', Image(memo))
  BY <1>2 DEF MappedDb, Skeleton
<1>6. MappedDb' = Tables!vacuum([MappedDb EXCEPT !.user = @ \ {u}])
  BY <1>4, <1>5
<1>7. Tables!DeleteUser(u)
  BY <1>2, <1>6
  DEF Tables!DeleteUser, MappedDb, Skeleton, Image
<1> QED
  BY <1>7

-----------------------------------------------------------------------------
LEMMA InitMapped == Init => Tables!Init
<1> SUFFICES ASSUME Init
             PROVE  Tables!Init
  OBVIOUS
<1>1. user = 1 .. NumUsers /\ lastMemo = 0 /\ \A m \in MemoIds : memo[m] = NoRow
  BY DEF Init, Users
<1>2. Image(memo) = {}
  BY <1>1 DEF Image
<1>3. NumUsers \in 0 .. NumUsers
  BY ServiceAssumption
<1> QED
  BY <1>1, <1>2, <1>3 DEF Tables!Init, Image

\* Every other step of a worker leaves the tables alone.
LEMMA StepMapped ==
  ASSUME IInv, Next
  PROVE  Tables!Next \/ UNCHANGED Mapped
<1>1. CASE UNCHANGED db
  BY <1>1 DEF db, Mapped, MappedDb
<1>2. ASSUME NEW w \in Workers, CreateMemo(w)
      PROVE  Tables!Next
  BY <1>2, CreateMapped DEF Tables!Next
<1>3. ASSUME NEW w \in Workers, DeleteMemo(w)
      PROVE  Tables!Next \/ UNCHANGED db
  <2>1. CASE memo[request[w].id] # NoRow
    BY <1>3, <2>1, DeleteMemoMapped DEF Tables!Next, Tables!MemoIds, MemoIds
  <2>2. CASE memo[request[w].id] = NoRow
    BY <1>3, <2>2 DEF DeleteMemo, db
  <2> QED
    BY <2>1, <2>2
<1>4. ASSUME NEW w \in Workers, DeleteUser(w)
      PROVE  Tables!Next \/ UNCHANGED db
  <2>1. CASE request[w].target \in user
    BY <1>4, <2>1, DeleteUserMapped DEF Tables!Next, Tables!UserIds, Users
  <2>2. CASE request[w].target \notin user
    BY <1>4, <2>2 DEF DeleteUser, db
  <2> QED
    BY <2>1, <2>2
<1>5. ASSUME NEW w \in Workers, Receive(w) \/ Handle(w) \/ Fail(w),
             ~ CreateMemo(w), ~ PatchMemo(w), ~ DeleteMemo(w), ~ DeleteUser(w)
      PROVE  UNCHANGED db
  BY <1>5 DEF Receive, Handle, Fail, UserLoad, UserSelect, UserStore,
     MemoLoad, MemoSelect, MemoStore, Organize, SelectList, Compose,
     CreateFull, PatchMissing, Unlink, MemoUncache, UserUncache, Reply
<1>6. Restart => UNCHANGED db
  BY DEF Restart
<1> QED
  BY <1>1, <1>2, <1>3, <1>4, <1>5, <1>6, PatchMapped DEF Next

\* MemoService implements StoreDB: whatever handlers, failures and restarts
\* interleave, the tables user and memo change by whole transactions only.
THEOREM ImplementsTables == Spec => RefinesTables
<1>1. Init => Tables!Init
  BY InitMapped
<1>2. IInv /\ [Next]_vars => [Tables!Next]_(Tables!vars)
  <2>1. UNCHANGED vars => UNCHANGED Mapped
    BY DEF vars, db, Mapped, MappedDb
  <2> QED
    BY <2>1, StepMapped, MappedIsMapped
<1> QED
  BY <1>1, <1>2, Invariance, PTL DEF Spec, RefinesTables, Tables!Spec
=============================================================================
