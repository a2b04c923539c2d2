------------------------- MODULE MemoService_proofs -------------------------
(***************************************************************************)
(* Proofs about MemoService for any number of users, memos and workers.    *)
(***************************************************************************)
EXTENDS MemoService, FiniteSetTheorems, TLAPS

LEMMA HostIsUser == Host \in Users
BY ServiceAssumption DEF Host, Users

LEMMA RequestFields ==
  ASSUME NEW r \in Requests
  PROVE  /\ r.op \in {"create", "patch", "delete", "get", "organize", "unlink",
                     "list", "deleteUser"}
         /\ r.user \in Users \cup {Anonymous}
         /\ r.op \notin Public => r.user \in Users
         /\ r.op \in OneMemo => r.id \in MemoIds
         /\ r.op \in {"create", "patch"} => r.body \in Bodies
         /\ r.op = "deleteUser" => r.target \in Users
  BY DEF Requests, Public, OneMemo

LEMMA RowFields ==
  /\ \A r \in Row : r.id \in MemoIds /\ r.creator \in Users /\ r.body \in Bodies
  /\ \A i \in MemoIds, u \in Users, b \in Bodies :
       LET r == [id |-> i, creator |-> u, body |-> b]
       IN  r \in Row /\ r.id = i /\ r.creator = u /\ r.body = b
  /\ NoRow \notin Row
  BY ServiceAssumption DEF Row

-----------------------------------------------------------------------------
(***************************************************************************)
(* A step of worker w leaves the others where they are.  The three ways in *)
(* which its own control state moves on:                                   *)
(***************************************************************************)
ControlOK ==
  /\ pc \in [Workers -> Steps]
  /\ stage \in [Workers -> Stages]
  /\ who \in [Workers -> Users]
  /\ held \in [Workers -> Row \cup {NoRow}]
  /\ todo \in [Workers -> SUBSET Row]
  /\ request \in [Workers -> Requests \cup {NoRequest}]

OnlyMoves(w) ==
  \A v \in Workers \ {w} :
    /\ pc'[v] = pc[v]
    /\ stage'[v] = stage[v]
    /\ who'[v] = who[v]
    /\ held'[v] = held[v]
    /\ todo'[v] = todo[v]
    /\ request'[v] = request[v]

LEMMA GotoEffect ==
  ASSUME ControlOK, NEW w \in Workers, NEW s \in Steps, Goto(w, s)
  PROVE  /\ ControlOK' /\ OnlyMoves(w)
         /\ pc'[w] = s /\ stage'[w] = stage[w] /\ who'[w] = who[w]
         /\ held'[w] = held[w] /\ todo'[w] = todo[w] /\ request'[w] = request[w]
  BY DEF ControlOK, OnlyMoves, Goto

LEMMA FinishEffect ==
  ASSUME ControlOK, NEW w \in Workers, Finish(w)
  PROVE  /\ ControlOK' /\ OnlyMoves(w)
         /\ pc'[w] = "idle" /\ held'[w] = NoRow /\ todo'[w] = {}
  BY HostIsUser DEF ControlOK, OnlyMoves, Finish, Steps, Stages

LEMMA CallEffect ==
  ASSUME ControlOK, NEW w \in Workers, NEW u \in Users, NEW s \in Stages,
         CallFindUser(w, u, s), UNCHANGED <<held, request>>
  PROVE  /\ ControlOK' /\ OnlyMoves(w)
         /\ pc'[w] = "userLoad" /\ stage'[w] = s /\ who'[w] = u
         /\ held'[w] = held[w] /\ todo'[w] = todo[w] /\ request'[w] = request[w]
  BY DEF ControlOK, OnlyMoves, CallFindUser, Steps

-----------------------------------------------------------------------------
(***************************************************************************)
(* How the data may evolve: ids and versions are only added, and an id     *)
(* given out keeps its creator or loses its row for good.                  *)
(***************************************************************************)
DataOK ==
  /\ user \subseteq Users
  /\ memo \in [MemoIds -> Row \cup {NoRow}]
  /\ lastMemo \in 0 .. MaxMemo
  /\ userCache \subseteq Users
  /\ memoCache \in [MemoIds -> Row \cup {NoRow}]
  /\ history \in [MemoIds -> SUBSET Row]

Evolves ==
  /\ lastMemo <= lastMemo'
  /\ \A m \in MemoIds :
       /\ history[m] \subseteq history'[m]
       /\ m <= lastMemo /\ memo'[m] # NoRow =>
            memo[m] # NoRow /\ memo'[m].creator = memo[m].creator

\* Issued in the next state, of a row that may come from either.
IssuedNext(row) ==
  /\ row.id <= lastMemo'
  /\ row \in history'[row.id]
  /\ memo'[row.id] # NoRow => memo'[row.id].creator = row.creator

\* The rows a worker has in hand.
InHand(w) == /\ held[w] # NoRow => Issued(held[w])
             /\ \A row \in todo[w] : Issued(row)

LEMMA TypeSplits == TypeOK <=> DataOK /\ ControlOK
BY DEF TypeOK, DataOK, ControlOK

LEMMA IssuedStays ==
  ASSUME DataOK, DataOK', Evolves, NEW row \in Row, Issued(row)
  PROVE  IssuedNext(row)
<1>1. row.id \in MemoIds /\ lastMemo \in Nat /\ lastMemo' \in Nat
  BY RowFields, ServiceAssumption DEF DataOK
<1>2. row.id <= lastMemo /\ row.id <= lastMemo'
  BY <1>1 DEF Issued, Evolves, MemoIds
<1> QED
  BY <1>1, <1>2 DEF Issued, IssuedNext, Evolves

(***************************************************************************)
(* A step of one worker keeps the invariant if the data evolve, and if the *)
(* rows it changes and its own control state are in order.                 *)
(***************************************************************************)
LEMMA WorkerStep ==
  ASSUME IInv, NEW w \in Workers, OnlyMoves(w), ControlOK', DataOK', Evolves,
         Knows(w)',
         held'[w] # NoRow => IssuedNext(held'[w]),
         \A row \in todo'[w] : IssuedNext(row),
         \A m \in MemoIds : memo'[m] # NoRow /\ memo'[m] # memo[m] =>
           memo'[m].id = m /\ IssuedNext(memo'[m]),
         \A m \in MemoIds : memoCache'[m] # NoRow /\ memoCache'[m] # memoCache[m] =>
           memoCache'[m].id = m /\ IssuedNext(memoCache'[m])
  PROVE  IInv'
<1> USE DEF IInv
<1>0. DataOK /\ ControlOK
  BY TypeSplits
<1>1. TypeOK'
  BY DEF TypeOK, DataOK, ControlOK
<1>2. RowsKeyed'
  <2> SUFFICES ASSUME NEW m \in MemoIds, memo'[m] # NoRow
               PROVE  memo'[m].id = m /\ IssuedNext(memo'[m])
    BY DEF RowsKeyed, Issued, IssuedNext
  <2>1. CASE memo'[m] = memo[m]
    <3>1. memo[m] \in Row /\ memo[m].id = m /\ Issued(memo[m])
      BY <1>0, <2>1 DEF RowsKeyed, DataOK
    <3> QED
      BY <1>0, <2>1, <3>1, IssuedStays
  <2> QED
    BY <2>1
<1>3. CacheKeyed'
  <2> SUFFICES ASSUME NEW m \in MemoIds, memoCache'[m] # NoRow
               PROVE  memoCache'[m].id = m /\ IssuedNext(memoCache'[m])
    BY DEF CacheKeyed, Issued, IssuedNext
  <2>1. CASE memoCache'[m] = memoCache[m]
    <3>1. /\ memoCache[m] \in Row /\ memoCache[m].id = m
          /\ Issued(memoCache[m])
      BY <1>0, <2>1 DEF CacheKeyed, DataOK
    <3> QED
      BY <1>0, <2>1, <3>1, IssuedStays
  <2> QED
    BY <2>1
<1>4. HeldIssued'
  <2> SUFFICES ASSUME NEW v \in Workers, v # w
               PROVE  /\ held'[v] # NoRow => IssuedNext(held'[v])
                      /\ \A row \in todo'[v] : IssuedNext(row)
    BY DEF HeldIssued, Issued, IssuedNext
  <2>1. /\ held'[v] = held[v] /\ todo'[v] = todo[v]
        /\ held[v] # NoRow => held[v] \in Row /\ Issued(held[v])
        /\ \A row \in todo[v] : row \in Row /\ Issued(row)
    BY <1>0 DEF OnlyMoves, HeldIssued, ControlOK
  <2> QED
    BY <1>0, <2>1, IssuedStays
<1>5. HandlersKnow'
  <2> SUFFICES ASSUME NEW v \in Workers, v # w
               PROVE  Knows(v)'
    BY DEF HandlersKnow
  <2>1. Knows(v)
    BY DEF HandlersKnow
  <2> QED
    BY <2>1 DEF OnlyMoves, Knows, Serving, Holding, FindingUser
<1> QED
  BY <1>1, <1>2, <1>3, <1>4, <1>5

\* The same when only the control state moves on, with no new row in hand.
LEMMA ControlStep ==
  ASSUME IInv, NEW w \in Workers, OnlyMoves(w), ControlOK',
         UNCHANGED <<db, caches>>, Knows(w)',
         held'[w] \in {NoRow, held[w]}, todo'[w] \subseteq todo[w]
  PROVE  IInv' /\ Evolves
<1>1. DataOK /\ ControlOK /\ InHand(w)
  BY TypeSplits DEF IInv, HeldIssued, InHand
<1>2. /\ user' = user /\ memo' = memo /\ lastMemo' = lastMemo
      /\ userCache' = userCache /\ memoCache' = memoCache
      /\ history' = history
  BY DEF db, caches
<1>3. DataOK'
  BY <1>1, <1>2 DEF DataOK
<1>4. lastMemo <= lastMemo'
  BY <1>1, <1>2, ServiceAssumption DEF DataOK
<1>5. Evolves
  BY <1>2, <1>4 DEF Evolves
<1>6. /\ held'[w] # NoRow => IssuedNext(held'[w])
      /\ \A row \in todo'[w] : IssuedNext(row)
  BY <1>1, <1>2 DEF InHand, Issued, IssuedNext
<1> QED
  BY <1>2, <1>3, <1>5, <1>6, WorkerStep

\* The handler goes on past the middleware.
LEMMA FirstStepEffect ==
  ASSUME ControlOK, NEW w \in Workers, stage[w] = "auth", request[w] # NoRequest,
         request[w].op \in OneMemo \cup {"list"},
         Goto(w, FirstStep(request[w].op))
  PROVE  /\ OnlyMoves(w) /\ ControlOK' /\ Knows(w)'
         /\ held'[w] = held[w] /\ todo'[w] = todo[w]
<1> DEFINE s == FirstStep(request[w].op)
<1>1. /\ s \in {"memoLoad", "organize", "selectList"}
      /\ s = "organize" <=> request[w].op = "organize"
      /\ s = "selectList" <=> request[w].op = "list"
  BY DEF FirstStep
<1> HIDE DEF s
<1>2. /\ OnlyMoves(w) /\ ControlOK' /\ pc'[w] = s /\ stage'[w] = stage[w]
      /\ held'[w] = held[w] /\ todo'[w] = todo[w] /\ request'[w] = request[w]
  BY <1>1, GotoEffect DEF s, Steps
<1>3. Knows(w)'
  BY <1>1, <1>2 DEF Knows, Serving, Holding, FindingUser, OneMemo
<1> QED
  BY <1>2, <1>3

LEMMA FoundUserEffect ==
  ASSUME IInv, NEW w \in Workers, FindingUser(w), FoundUser(w)
  PROVE  /\ OnlyMoves(w) /\ ControlOK' /\ Knows(w)'
         /\ held'[w] \in {NoRow, held[w]} /\ todo'[w] \subseteq todo[w]
<1> DEFINE Good == /\ OnlyMoves(w) /\ ControlOK' /\ Knows(w)'
                   /\ held'[w] \in {NoRow, held[w]} /\ todo'[w] \subseteq todo[w]
<1>0. ControlOK /\ Knows(w)
  BY TypeSplits DEF IInv, HandlersKnow
<1>1. ASSUME stage[w] = "auth", request[w].op = "create", Goto(w, "createMemo")
      PROVE  Good
  <2>1. request[w] # NoRequest
    BY <1>0, <1>1 DEF Knows
  <2> QED
    BY <1>0, <1>1, <2>1, GotoEffect
       DEF Steps, Knows, Serving, Holding, FindingUser
<1>2. ASSUME stage[w] = "auth", request[w].op = "create",
             CallFindUser(w, request[w].user, "enforce"),
             UNCHANGED <<held, request>>
      PROVE  Good
  <2>1. request[w] # NoRequest /\ request[w].user \in Users
    BY <1>0, <1>2 DEF Knows
  <2> QED
    BY <1>0, <1>2, <2>1, CallEffect
       DEF Stages, Knows, Serving, Holding, FindingUser
<1>3. ASSUME stage[w] = "enforce", Goto(w, "createMemo")
      PROVE  Good
  <2>1. Serving(w, {"create"})
    BY <1>0, <1>3 DEF Knows
  <2> QED
    BY <1>0, <1>3, <2>1, GotoEffect
       DEF Steps, Knows, Serving, Holding, FindingUser
<1>4. ASSUME stage[w] = "auth", request[w].op \in OneMemo \cup {"list"},
             Goto(w, FirstStep(request[w].op))
      PROVE  Good
  <2>1. request[w] # NoRequest
    BY <1>0, <1>4 DEF Knows
  <2> QED
    BY <1>0, <1>4, <2>1, FirstStepEffect
<1>5. ASSUME stage[w] = "auth", request[w].op = "deleteUser",
             CallFindUser(w, request[w].user, "role"),
             UNCHANGED <<held, request>>
      PROVE  Good
  <2>1. request[w] # NoRequest /\ request[w].user \in Users
    BY <1>0, <1>5 DEF Knows
  <2> QED
    BY <1>0, <1>5, <2>1, CallEffect
       DEF Stages, Knows, Serving, Holding, FindingUser
<1>6. ASSUME stage[w] = "role", Goto(w, "deleteUser")
      PROVE  Good
  <2>1. Serving(w, {"deleteUser"})
    BY <1>0, <1>6 DEF Knows
  <2> QED
    BY <1>0, <1>6, <2>1, GotoEffect
       DEF Steps, Knows, Serving, Holding, FindingUser
<1>7. ASSUME Finish(w)
      PROVE  Good
  BY <1>0, <1>7, FinishEffect DEF Knows, FindingUser
<1>8. ASSUME stage[w] \in {"found", "saved", "linked"}, Goto(w, "compose")
      PROVE  Good
  BY <1>0, <1>8, GotoEffect DEF Steps, Knows, Serving, Holding, FindingUser
<1> QED
  BY <1>1, <1>2, <1>3, <1>4, <1>5, <1>6, <1>7, <1>8 DEF FoundUser, OneMemo

-----------------------------------------------------------------------------
(***************************************************************************)
(* One lemma per action, or group of actions with the same effect.         *)
(***************************************************************************)
LEMMA EndStep ==
  ASSUME IInv, NEW w \in Workers, Finish(w), UNCHANGED <<db, caches>>
  PROVE  IInv' /\ Evolves
<1>1. /\ OnlyMoves(w) /\ ControlOK'
      /\ pc'[w] = "idle" /\ held'[w] = NoRow /\ todo'[w] = {}
  BY FinishEffect, TypeSplits DEF IInv
<1>2. Knows(w)'
  BY <1>1 DEF Knows, FindingUser
<1> QED
  BY <1>1, <1>2, ControlStep

LEMMA ReceiveStep ==
  ASSUME IInv, NEW w \in Workers, Receive(w)
  PROVE  IInv' /\ Evolves
<1>0. ControlOK /\ Knows(w) /\ InHand(w)
  BY TypeSplits DEF IInv, HandlersKnow, HeldIssued, InHand
<1>1. PICK r \in Requests :
        /\ request' = [request EXCEPT ![w] = r]
        /\ IF r.user = Anonymous
           THEN /\ pc' = [pc EXCEPT ![w] = FirstStep(r.op)]
                /\ UNCHANGED <<stage, who, todo>>
           ELSE CallFindUser(w, r.user, "auth")
  BY DEF Receive
<1>2. UNCHANGED <<held, db, caches>>
  BY DEF Receive
<1>3. r # NoRequest
  BY RequestAssumption
<1>4. CASE r.user = Anonymous
  <2>1. r.op \in Public
    BY <1>4, RequestFields, ServiceAssumption
  <2>2. /\ OnlyMoves(w) /\ ControlOK'
        /\ pc'[w] = IF r.op = "list" THEN "selectList" ELSE "memoLoad"
        /\ held'[w] = held[w] /\ todo'[w] = todo[w] /\ request'[w] = r
    BY <1>0, <1>1, <1>2, <1>4, <2>1
       DEF ControlOK, OnlyMoves, Steps, FirstStep, Public
  <2>3. Knows(w)'
    BY <1>3, <2>1, <2>2 DEF Knows, Serving, FindingUser, Public, OneMemo
  <2> QED
    BY <1>0, <1>2, <2>2, <2>3, ControlStep
<1>5. CASE r.user # Anonymous
  <2>1. r.user \in Users
    BY <1>5, RequestFields
  <2>2. /\ OnlyMoves(w) /\ ControlOK'
        /\ pc'[w] = "userLoad" /\ stage'[w] = "auth"
        /\ held'[w] = held[w] /\ todo'[w] = todo[w] /\ request'[w] = r
    BY <1>0, <1>1, <1>2, <1>5, <2>1
       DEF ControlOK, OnlyMoves, CallFindUser, Steps, Stages
  <2>3. Knows(w)'
    BY <1>3, <2>1, <2>2 DEF Knows, Serving, FindingUser
  <2> QED
    BY <1>0, <1>2, <2>2, <2>3, ControlStep
<1> QED
  BY <1>4, <1>5

LEMMA UserLoadStep ==
  ASSUME IInv, NEW w \in Workers, UserLoad(w)
  PROVE  IInv' /\ Evolves
<1>0. /\ ControlOK /\ Knows(w) /\ InHand(w)
      /\ FindingUser(w) /\ UNCHANGED <<db, caches>>
  BY TypeSplits DEF IInv, HandlersKnow, HeldIssued, InHand, UserLoad, FindingUser
<1>1. CASE FoundUser(w)
  BY <1>0, <1>1, FoundUserEffect, ControlStep
<1>2. CASE Goto(w, "userSelect")
  <2>1. /\ OnlyMoves(w) /\ ControlOK'
        /\ pc'[w] = "userSelect" /\ stage'[w] = stage[w]
        /\ held'[w] = held[w] /\ todo'[w] = todo[w] /\ request'[w] = request[w]
    BY <1>0, <1>2, GotoEffect DEF Steps
  <2>2. Knows(w)'
    BY <1>0, <2>1 DEF Knows, Serving, Holding, FindingUser
  <2> QED
    BY <1>0, <2>1, <2>2, ControlStep
<1> QED
  BY <1>1, <1>2 DEF UserLoad

LEMMA NoUserStep ==
  ASSUME IInv, NEW w \in Workers, pc[w] = "userSelect", NoUser(w),
         UNCHANGED <<db, caches>>
  PROVE  IInv' /\ Evolves
<1>0. /\ ControlOK /\ Knows(w) /\ InHand(w)
      /\ FindingUser(w)
  BY TypeSplits DEF IInv, HandlersKnow, HeldIssued, InHand, FindingUser
<1>1. CASE Finish(w)
  BY <1>1, EndStep
<1>2. CASE /\ stage[w] = "auth" /\ request[w].op \in Public
           /\ Goto(w, FirstStep(request[w].op))
  <2>1. request[w] # NoRequest /\ request[w].op \in OneMemo \cup {"list"}
    BY <1>0, <1>2 DEF Knows, Public, OneMemo
  <2>2. /\ OnlyMoves(w) /\ ControlOK' /\ Knows(w)'
        /\ held'[w] = held[w] /\ todo'[w] = todo[w]
    BY <1>0, <1>2, <2>1, FirstStepEffect
  <2> QED
    BY <1>0, <2>2, ControlStep
<1> QED
  BY <1>1, <1>2 DEF NoUser

LEMMA UserSelectStep ==
  ASSUME IInv, NEW w \in Workers, UserSelect(w)
  PROVE  IInv' /\ Evolves
<1>0. /\ ControlOK /\ Knows(w) /\ InHand(w)
      /\ FindingUser(w) /\ UNCHANGED <<db, caches>>
  BY TypeSplits DEF IInv, HandlersKnow, HeldIssued, InHand, UserSelect, FindingUser
<1>1. CASE NoUser(w)
  BY <1>0, <1>1, NoUserStep DEF UserSelect
<1>2. CASE Goto(w, "userStore")
  <2>1. /\ OnlyMoves(w) /\ ControlOK'
        /\ pc'[w] = "userStore" /\ stage'[w] = stage[w]
        /\ held'[w] = held[w] /\ todo'[w] = todo[w] /\ request'[w] = request[w]
    BY <1>0, <1>2, GotoEffect DEF Steps
  <2>2. Knows(w)'
    BY <1>0, <2>1 DEF Knows, Serving, Holding, FindingUser
  <2> QED
    BY <1>0, <2>1, <2>2, ControlStep
<1> QED
  BY <1>1, <1>2 DEF UserSelect

LEMMA UserStoreStep ==
  ASSUME IInv, NEW w \in Workers, UserStore(w)
  PROVE  IInv' /\ Evolves
<1>0. /\ ControlOK /\ DataOK /\ InHand(w)
      /\ FindingUser(w) /\ FoundUser(w)
      /\ userCache' = userCache \cup {who[w]}
  BY TypeSplits DEF IInv, HeldIssued, InHand, UserStore, FindingUser
<1>1. /\ user' = user /\ memo' = memo /\ lastMemo' = lastMemo
      /\ memoCache' = memoCache /\ history' = history
  BY DEF UserStore, db
<1>2. DataOK'
  BY <1>0, <1>1 DEF DataOK, ControlOK
<1>3. Evolves
  BY <1>0, <1>1, ServiceAssumption DEF Evolves, DataOK
<1>4. /\ OnlyMoves(w) /\ ControlOK' /\ Knows(w)'
      /\ held'[w] \in {NoRow, held[w]} /\ todo'[w] \subseteq todo[w]
  BY <1>0, FoundUserEffect
<1>5. /\ held'[w] # NoRow => IssuedNext(held'[w])
      /\ \A row \in todo'[w] : IssuedNext(row)
  BY <1>0, <1>1, <1>4 DEF InHand, Issued, IssuedNext
<1> QED
  BY <1>1, <1>2, <1>3, <1>4, <1>5, WorkerStep

LEMMA MemoLoadStep ==
  ASSUME IInv, NEW w \in Workers, MemoLoad(w)
  PROVE  IInv' /\ Evolves
<1> DEFINE row == memoCache[request[w].id]
<1>0. /\ ControlOK /\ DataOK /\ Knows(w) /\ CacheKeyed
      /\ InHand(w)
      /\ UNCHANGED <<db, caches>>
  BY TypeSplits DEF IInv, HandlersKnow, HeldIssued, InHand, MemoLoad
<1>1. /\ Serving(w, OneMemo)
      /\ request[w] \in Requests /\ request[w].id \in MemoIds
  BY <1>0, RequestFields DEF Knows, MemoLoad, ControlOK, Serving
<1>2. CASE row # NoRow
  <2>1. /\ row \in Row /\ row.id = request[w].id /\ Issued(row)
        /\ row.creator \in Users
    BY <1>0, <1>1, <1>2, RowFields DEF DataOK, CacheKeyed
  <2>2. /\ held' = [held EXCEPT ![w] = row]
        /\ CallFindUser(w, row.creator, "found") /\ UNCHANGED request
    BY <1>2 DEF MemoLoad
  <2> HIDE DEF row
  <2>3. /\ OnlyMoves(w) /\ ControlOK'
        /\ pc'[w] = "userLoad" /\ stage'[w] = "found"
        /\ held'[w] = row /\ todo'[w] = todo[w] /\ request'[w] = request[w]
    BY <1>0, <2>1, <2>2 DEF ControlOK, OnlyMoves, CallFindUser, Steps, Stages
  <2>4. Knows(w)'
    BY <1>1, <1>2, <2>1, <2>3 DEF Knows, Serving, Holding, FindingUser, OneMemo
  <2>5. DataOK' /\ Evolves /\ IssuedNext(row)
        /\ memo' = memo /\ memoCache' = memoCache
        /\ \A r \in todo[w] : IssuedNext(r)
    BY <1>0, <2>1, ServiceAssumption
       DEF InHand, DataOK, Evolves, Issued, IssuedNext, db, caches
  <2> QED
    BY <2>3, <2>4, <2>5, WorkerStep
<1>3. CASE row = NoRow
  <2>1. /\ OnlyMoves(w) /\ ControlOK'
        /\ pc'[w] = "memoSelect" /\ stage'[w] = stage[w]
        /\ held'[w] = held[w] /\ todo'[w] = todo[w] /\ request'[w] = request[w]
    BY <1>0, <1>3, GotoEffect DEF MemoLoad, Steps
  <2>2. Knows(w)'
    BY <1>1, <2>1 DEF Knows, Serving, FindingUser, OneMemo
  <2> QED
    BY <1>0, <2>1, <2>2, ControlStep
<1> QED
  BY <1>2, <1>3

LEMMA MemoSelectStep ==
  ASSUME IInv, NEW w \in Workers, MemoSelect(w)
  PROVE  IInv' /\ Evolves
<1> DEFINE row == memo[request[w].id]
<1>0. /\ ControlOK /\ DataOK /\ Knows(w) /\ RowsKeyed /\ InHand(w)
      /\ UNCHANGED <<db, caches>>
  BY TypeSplits DEF IInv, HandlersKnow, HeldIssued, InHand, MemoSelect
<1>1. /\ Serving(w, OneMemo)
      /\ request[w] \in Requests /\ request[w].id \in MemoIds
  BY <1>0, RequestFields DEF Knows, MemoSelect, ControlOK, Serving
<1>2. CASE row # NoRow
  <2>1. row \in Row /\ row.id = request[w].id /\ Issued(row)
    BY <1>0, <1>1, <1>2 DEF DataOK, RowsKeyed
  <2>2. /\ held' = [held EXCEPT ![w] = row]
        /\ stage' = [stage EXCEPT ![w] = "found"]
        /\ pc' = [pc EXCEPT ![w] = "memoStore"]
        /\ UNCHANGED <<who, todo, request>>
    BY <1>2 DEF MemoSelect
  <2> HIDE DEF row
  <2>3. /\ OnlyMoves(w) /\ ControlOK'
        /\ pc'[w] = "memoStore" /\ stage'[w] = "found"
        /\ held'[w] = row /\ todo'[w] = todo[w] /\ request'[w] = request[w]
    BY <1>0, <2>1, <2>2 DEF ControlOK, OnlyMoves, Steps, Stages
  <2>4. Knows(w)'
    BY <1>1, <1>2, <2>1, <2>3 DEF Knows, Serving, Holding, FindingUser, OneMemo
  <2>5. DataOK' /\ Evolves /\ IssuedNext(row)
        /\ memo' = memo /\ memoCache' = memoCache
        /\ \A r \in todo[w] : IssuedNext(r)
    BY <1>0, <2>1, ServiceAssumption
       DEF InHand, DataOK, Evolves, Issued, IssuedNext, db, caches
  <2> QED
    BY <2>3, <2>4, <2>5, WorkerStep
<1>3. CASE row = NoRow
  BY <1>0, <1>3, EndStep DEF MemoSelect
<1> QED
  BY <1>2, <1>3

LEMMA MemoStoreStep ==
  ASSUME IInv, NEW w \in Workers, MemoStore(w)
  PROVE  IInv' /\ Evolves
<1>0. /\ ControlOK /\ DataOK /\ Knows(w)
      /\ InHand(w)
  BY TypeSplits DEF IInv, HandlersKnow, HeldIssued, InHand
<1>1. /\ held[w] # NoRow
      /\ stage[w] \in {"found", "saved", "linked"}
  BY <1>0 DEF MemoStore, Knows, Holding
<1>2. /\ held[w] \in Row /\ held[w].id \in MemoIds
      /\ held[w].creator \in Users /\ Issued(held[w])
  BY <1>0, <1>1, RowFields DEF ControlOK, InHand
<1>3. /\ memoCache' = [memoCache EXCEPT ![held[w].id] = held[w]]
      /\ CallFindUser(w, held[w].creator, stage[w])
      /\ UNCHANGED <<held, request>>
      /\ user' = user /\ memo' = memo /\ lastMemo' = lastMemo
      /\ userCache' = userCache /\ history' = history
  BY DEF MemoStore, db
<1>4. /\ OnlyMoves(w) /\ ControlOK'
      /\ pc'[w] = "userLoad" /\ stage'[w] = stage[w]
      /\ held'[w] = held[w] /\ todo'[w] = todo[w] /\ request'[w] = request[w]
  BY <1>0, <1>2, <1>3, CallEffect DEF ControlOK
<1>5. Knows(w)'
  BY <1>0, <1>1, <1>4 DEF MemoStore, Knows, Serving, Holding, FindingUser
<1>6. /\ DataOK' /\ Evolves /\ IssuedNext(held[w])
      /\ \A row \in todo[w] : IssuedNext(row)
  BY <1>0, <1>2, <1>3, ServiceAssumption
     DEF InHand, DataOK, Evolves, Issued, IssuedNext
<1>7. \A m \in MemoIds : memoCache'[m] # memoCache[m] =>
        m = held[w].id /\ memoCache'[m] = held[w]
  BY <1>0, <1>2, <1>3 DEF DataOK
<1> QED
  BY <1>3, <1>4, <1>5, <1>6, <1>7, WorkerStep

\* The rows of a list, all issued: the next one is taken in hand.
LEMMA ComposeNextStep ==
  ASSUME IInv, NEW w \in Workers, Serving(w, {"list"}), UNCHANGED <<db, caches>>,
         NEW rows \in SUBSET Row, \A r \in rows : Issued(r), ComposeNext(w, rows)
  PROVE  IInv' /\ Evolves
<1>0. ControlOK /\ DataOK
  BY TypeSplits DEF IInv
<1>1. CASE Finish(w)
  BY <1>1, EndStep
<1>2. ASSUME NEW row \in rows,
             /\ held' = [held EXCEPT ![w] = row]
             /\ todo' = [todo EXCEPT ![w] = rows \ {row}]
             /\ pc' = [pc EXCEPT ![w] = "userLoad"]
             /\ stage' = [stage EXCEPT ![w] = "found"]
             /\ who' = [who EXCEPT ![w] = row.creator]
             /\ UNCHANGED request
      PROVE  IInv' /\ Evolves
  <2>1. row \in Row /\ row # NoRow /\ row.creator \in Users /\ Issued(row)
    BY RowFields
  <2>2. /\ OnlyMoves(w) /\ ControlOK'
        /\ pc'[w] = "userLoad" /\ stage'[w] = "found" /\ held'[w] = row
        /\ todo'[w] \subseteq rows /\ request'[w] = request[w]
    BY <1>0, <1>2, <2>1 DEF ControlOK, OnlyMoves, Steps, Stages
  <2>3. Knows(w)'
    BY <2>1, <2>2 DEF Knows, Serving, Holding, FindingUser, OneMemo
  <2>4. /\ DataOK' /\ Evolves /\ IssuedNext(row)
        /\ memo' = memo /\ memoCache' = memoCache
        /\ \A r \in todo'[w] : IssuedNext(r)
    BY <1>0, <2>1, <2>2, ServiceAssumption
       DEF DataOK, Evolves, Issued, IssuedNext, db, caches
  <2> QED
    BY <2>2, <2>3, <2>4, WorkerStep
<1> QED
  BY <1>1, <1>2 DEF ComposeNext

LEMMA SelectListStep ==
  ASSUME IInv, NEW w \in Workers, SelectList(w)
  PROVE  IInv' /\ Evolves
<1>0. /\ DataOK /\ RowsKeyed /\ Serving(w, {"list"}) /\ UNCHANGED <<db, caches>>
  BY TypeSplits DEF IInv, HandlersKnow, Knows, SelectList
<1>1. PICK ids \in SUBSET {m \in MemoIds : memo[m] # NoRow} :
        ComposeNext(w, {memo[m] : m \in ids})
  BY DEF SelectList
<1> DEFINE rows == {memo[m] : m \in ids}
<1>2. rows \in SUBSET Row /\ \A r \in rows : Issued(r)
  BY <1>0 DEF DataOK, RowsKeyed
<1>3. ComposeNext(w, rows)
  BY <1>1
<1> HIDE DEF rows
<1> QED
  BY <1>0, <1>2, <1>3, ComposeNextStep

LEMMA ComposeStep ==
  ASSUME IInv, NEW w \in Workers, Compose(w)
  PROVE  IInv' /\ Evolves
<1>0. /\ ControlOK /\ Knows(w) /\ InHand(w)
      /\ UNCHANGED <<db, caches>> /\ pc[w] = "compose"
  BY TypeSplits DEF IInv, HandlersKnow, HeldIssued, InHand, Compose
<1>1. CASE Finish(w)
  BY <1>0, <1>1, EndStep
<1>2. ASSUME Goto(w, "reply"),
             \/ stage[w] = "found"
             \/ stage[w] = "linked"
      PROVE  IInv' /\ Evolves
  <2>1. /\ OnlyMoves(w) /\ ControlOK'
        /\ pc'[w] = "reply" /\ held'[w] = held[w] /\ todo'[w] = todo[w] /\ request'[w] = request[w]
    BY <1>0, <1>2, GotoEffect DEF Steps
  <2>2. /\ request[w] # NoRequest
        /\ request[w].op \in {"get", "organize"} => Holding(w)
    BY <1>0, <1>2 DEF Knows, Serving, OneMemo
  <2>3. Knows(w)'
    BY <2>1, <2>2 DEF Knows, Serving, Holding, FindingUser
  <2> QED
    BY <1>0, <2>1, <2>3, ControlStep
<1>3. ASSUME stage[w] = "found", request[w].op \in {"patch", "delete", "unlink"},
             held[w].creator = request[w].user,
             Goto(w, WriteStep[request[w].op])
      PROVE  IInv' /\ Evolves
  <2> DEFINE s == WriteStep[request[w].op]
  <2>1. \/ request[w].op = "patch" /\ s = "patchMemo"
        \/ request[w].op = "delete" /\ s = "deleteMemo"
        \/ request[w].op = "unlink" /\ s = "unlink"
    BY <1>3 DEF WriteStep
  <2> HIDE DEF s
  <2>2. /\ OnlyMoves(w) /\ ControlOK' /\ pc'[w] = s /\ held'[w] = held[w]
        /\ todo'[w] = todo[w] /\ request'[w] = request[w]
    BY <1>0, <1>3, <2>1, GotoEffect DEF s, Steps
  <2>3. request[w] # NoRequest /\ Holding(w)
    BY <1>0, <1>3 DEF Knows, Serving, OneMemo
  <2>4. Knows(w)'
    BY <1>3, <2>1, <2>2, <2>3 DEF Knows, Serving, Holding, FindingUser
  <2> QED
    BY <1>0, <2>2, <2>4, ControlStep
<1>4. ASSUME stage[w] = "saved", CallFindUser(w, held[w].creator, "linked"),
             UNCHANGED <<held, request>>
      PROVE  IInv' /\ Evolves
  <2>1. /\ Serving(w, {"create", "patch"})
        /\ held[w] # NoRow /\ held[w].creator \in Users
    BY <1>0, <1>4, RowFields DEF Knows, ControlOK
  <2>2. /\ OnlyMoves(w) /\ ControlOK'
        /\ pc'[w] = "userLoad" /\ stage'[w] = "linked"
        /\ held'[w] = held[w] /\ todo'[w] = todo[w] /\ request'[w] = request[w]
    BY <1>0, <1>4, <2>1, CallEffect DEF Stages
  <2>3. Knows(w)'
    BY <2>1, <2>2 DEF Knows, Serving, FindingUser
  <2> QED
    BY <1>0, <2>2, <2>3, ControlStep
<1>5. ASSUME stage[w] = "found", request[w].op = "list", ComposeNext(w, todo[w])
      PROVE  IInv' /\ Evolves
  <2>1. Serving(w, {"list"}) /\ todo[w] \in SUBSET Row
    BY <1>0, <1>5 DEF Knows, Serving, ControlOK
  <2> QED
    BY <1>0, <1>5, <2>1, ComposeNextStep DEF InHand
<1> QED
  BY <1>1, <1>2, <1>3, <1>4, <1>5 DEF Compose, WriteStep

\* The tables memo_organizer and memo_resource are written.
LEMMA OtherTableStep ==
  ASSUME IInv, NEW w \in Workers, Organize(w) \/ Unlink(w)
  PROVE  IInv' /\ Evolves
<1>0. ControlOK /\ Knows(w) /\ UNCHANGED <<db, caches>>
  BY TypeSplits DEF IInv, HandlersKnow, Organize, Unlink
<1>1. CASE Unlink(w)
  BY <1>1, EndStep DEF Unlink
<1>2. CASE Organize(w)
  <2>1. /\ OnlyMoves(w) /\ ControlOK' /\ pc'[w] = "memoLoad" /\ stage'[w] = stage[w]
        /\ held'[w] = held[w] /\ todo'[w] = todo[w] /\ request'[w] = request[w]
    BY <1>0, <1>2, GotoEffect DEF Organize, Steps
  <2>2. Knows(w)'
    BY <1>0, <1>2, <2>1 DEF Organize, Knows, Serving, FindingUser, OneMemo
  <2> QED
    BY <1>0, <2>1, <2>2, ControlStep
<1> QED
  BY <1>1, <1>2

\* What CreateMemo and PatchMemo have in common: a row of a new id, or of an
\* existing memo and its creator, is committed and in hand.
LEMMA SavedStep ==
  ASSUME IInv, NEW w \in Workers, NEW row \in Row, Saved(w, row),
         Serving(w, {"create", "patch"}),
         lastMemo' \in 0 .. MaxMemo, lastMemo <= lastMemo',
         row.id <= lastMemo',
         \/ row.id > lastMemo
         \/ memo[row.id] # NoRow /\ memo[row.id].creator = row.creator
  PROVE  IInv' /\ Evolves
<1>0. ControlOK /\ DataOK /\ InHand(w) /\ row.id \in MemoIds /\ row # NoRow
  BY TypeSplits, RowFields DEF IInv, HeldIssued, InHand
<1>1. /\ memo' = [memo EXCEPT ![row.id] = row]
      /\ history' = [history EXCEPT ![row.id] = @ \cup {row}]
      /\ held' = [held EXCEPT ![w] = row]
      /\ stage' = [stage EXCEPT ![w] = "saved"]
      /\ pc' = [pc EXCEPT ![w] = "memoStore"]
      /\ who' = who /\ todo' = todo /\ request' = request /\ user' = user
      /\ userCache' = userCache /\ memoCache' = memoCache
  BY DEF Saved, caches
<1>2. /\ OnlyMoves(w) /\ ControlOK'
      /\ pc'[w] = "memoStore" /\ stage'[w] = "saved"
      /\ held'[w] = row /\ todo'[w] = todo[w] /\ request'[w] = request[w]
  BY <1>0, <1>1 DEF ControlOK, OnlyMoves, Steps, Stages
<1>3. Knows(w)'
  BY <1>0, <1>2 DEF Knows, Serving, Holding, FindingUser
<1>4. DataOK'
  BY <1>0, <1>1 DEF DataOK
<1>5. \A m \in MemoIds : history[m] \subseteq history'[m]
  BY <1>0, <1>1 DEF DataOK
<1>6. ASSUME NEW m \in MemoIds, m <= lastMemo, memo'[m] # NoRow
      PROVE  memo[m] # NoRow /\ memo'[m].creator = memo[m].creator
  <2>1. CASE m = row.id
    <3>1. memo[row.id] # NoRow /\ memo[row.id].creator = row.creator
      BY <1>0, <1>6, <2>1, ServiceAssumption DEF DataOK, MemoIds
    <3> QED
      BY <1>0, <1>1, <2>1, <3>1 DEF DataOK
  <2>2. CASE m # row.id
    BY <1>0, <1>1, <1>6, <2>2 DEF DataOK
  <2> QED
    BY <2>1, <2>2
<1>7. Evolves
  BY <1>5, <1>6 DEF Evolves
<1>8. IssuedNext(row)
  BY <1>0, <1>1 DEF IssuedNext, DataOK
<1>9. \A m \in MemoIds : memo'[m] # memo[m] => m = row.id /\ memo'[m] = row
  BY <1>0, <1>1 DEF DataOK
<1>10. \A r \in todo'[w] : IssuedNext(r)
  BY <1>0, <1>1, <1>4, <1>7, IssuedStays DEF InHand, ControlOK
<1> QED
  BY <1>1, <1>2, <1>3, <1>4, <1>7, <1>8, <1>9, <1>10, WorkerStep

LEMMA CreateMemoStep ==
  ASSUME IInv, NEW w \in Workers, CreateMemo(w)
  PROVE  IInv' /\ Evolves
<1>0. ControlOK /\ DataOK /\ Serving(w, {"create"})
  BY TypeSplits DEF IInv, HandlersKnow, Knows, CreateMemo
<1>1. request[w] \in Requests /\ request[w].user \in Users
      /\ request[w].body \in Bodies
  BY <1>0, RequestFields DEF ControlOK, Serving, Public
<1>2. /\ NextMemo \in MemoIds /\ lastMemo' = NextMemo
      /\ lastMemo' \in 0 .. MaxMemo /\ lastMemo <= lastMemo'
      /\ NextMemo > lastMemo /\ NextMemo <= lastMemo'
  BY <1>0, ServiceAssumption DEF CreateMemo, NextMemo, DataOK, MemoIds
<1> DEFINE row == [id |-> NextMemo, creator |-> request[w].user,
                   body |-> request[w].body]
<1>3. row \in Row /\ row.id = NextMemo
  BY <1>1, <1>2, RowFields
<1>4. Saved(w, row)
  BY DEF CreateMemo
<1>5. Serving(w, {"create", "patch"})
  BY <1>0 DEF Serving
<1> HIDE DEF row
<1> QED
  BY <1>2, <1>3, <1>4, <1>5, SavedStep

LEMMA PatchMemoStep ==
  ASSUME IInv, NEW w \in Workers, PatchMemo(w)
  PROVE  IInv' /\ Evolves
<1> DEFINE old == memo[request[w].id]
           row == [id |-> old.id, creator |-> old.creator,
                   body |-> request[w].body]
<1>0. ControlOK /\ DataOK /\ RowsKeyed /\ Serving(w, {"patch"})
  BY TypeSplits DEF IInv, HandlersKnow, Knows, PatchMemo
<1>1. /\ request[w] \in Requests /\ request[w].id \in MemoIds
      /\ request[w].body \in Bodies
  BY <1>0, RequestFields DEF ControlOK, Serving, OneMemo
<1>2. old # NoRow /\ Saved(w, row) /\ lastMemo' = lastMemo
  BY DEF PatchMemo
<1>3. /\ old \in Row /\ old.id = request[w].id
      /\ old.id <= lastMemo /\ old.creator \in Users
  BY <1>0, <1>1, <1>2, RowFields DEF DataOK, RowsKeyed, Issued
<1>4. row \in Row /\ row.id = request[w].id /\ row.creator = old.creator
  BY <1>1, <1>3, RowFields
<1>5. lastMemo' \in 0 .. MaxMemo /\ lastMemo <= lastMemo'
  BY <1>0, <1>2, ServiceAssumption DEF DataOK
<1>6. Serving(w, {"create", "patch"})
  BY <1>0 DEF Serving
<1>7. /\ memo[row.id] # NoRow /\ memo[row.id].creator = row.creator
      /\ row.id <= lastMemo'
  BY <1>2, <1>3, <1>4
<1> HIDE DEF row
<1> QED
  BY <1>2, <1>4, <1>5, <1>6, <1>7, SavedStep

\* Deletions take rows away and touch nothing else that Issued looks at.
LEMMA RemovalStep ==
  ASSUME IInv, NEW w \in Workers, NEW s \in Steps, Goto(w, s),
         user' \subseteq user, memo' = [m \in MemoIds |-> memo'[m]],
         \A m \in MemoIds : memo'[m] \in {memo[m], NoRow},
         UNCHANGED <<lastMemo, history, caches>>,
         \/ pc[w] = "deleteMemo" /\ s = "memoUncache"
         \/ pc[w] = "deleteUser" /\ s = "userUncache"
  PROVE  IInv' /\ Evolves
<1>0. /\ ControlOK /\ DataOK /\ Knows(w)
      /\ InHand(w)
  BY TypeSplits DEF IInv, HandlersKnow, HeldIssued, InHand
<1>1. /\ OnlyMoves(w) /\ ControlOK'
      /\ pc'[w] = s /\ held'[w] = held[w] /\ todo'[w] = todo[w] /\ request'[w] = request[w]
  BY <1>0, GotoEffect
<1>2. Knows(w)'
  BY <1>0, <1>1 DEF Knows, Serving, FindingUser
<1>3. /\ lastMemo' = lastMemo /\ history' = history
      /\ userCache' = userCache /\ memoCache' = memoCache
  BY DEF caches
<1>4. memo' \in [MemoIds -> Row \cup {NoRow}]
  <2>1. \A m \in MemoIds : memo'[m] \in Row \cup {NoRow}
    BY <1>0 DEF DataOK
  <2> QED
    BY <2>1
<1>5. DataOK'
  BY <1>0, <1>3, <1>4 DEF DataOK
<1>6. Evolves
  BY <1>0, <1>3, ServiceAssumption DEF Evolves, DataOK
<1>7. /\ held'[w] # NoRow => IssuedNext(held'[w])
      /\ \A row \in todo'[w] : IssuedNext(row)
  <2> SUFFICES ASSUME NEW row, (row = held[w] /\ held[w] # NoRow) \/ row \in todo[w]
               PROVE  IssuedNext(row)
    BY <1>1
  <2>1. row \in Row /\ Issued(row)
    BY <1>0 DEF ControlOK, InHand
  <2> QED
    BY <1>0, <1>5, <1>6, <2>1, IssuedStays
<1> QED
  BY <1>1, <1>2, <1>3, <1>5, <1>6, <1>7, WorkerStep

LEMMA DeleteMemoStep ==
  ASSUME IInv, NEW w \in Workers, DeleteMemo(w)
  PROVE  IInv' /\ Evolves
<1>0. ControlOK /\ DataOK /\ Knows(w)
  BY TypeSplits DEF IInv, HandlersKnow
<1>1. CASE memo[request[w].id] # NoRow
  <2>1. /\ memo' = Vacuumed([memo EXCEPT ![request[w].id] = NoRow], user)
        /\ Goto(w, "memoUncache") /\ pc[w] = "deleteMemo"
        /\ UNCHANGED <<user, lastMemo, history, caches>>
    BY <1>1 DEF DeleteMemo
  <2>2. /\ memo' = [m \in MemoIds |-> memo'[m]]
        /\ \A m \in MemoIds : memo'[m] \in {memo[m], NoRow}
    BY <1>0, <2>1 DEF Vacuumed, DataOK
  <2> QED
    BY <2>1, <2>2, RemovalStep DEF Steps
<1>2. CASE memo[request[w].id] = NoRow
  <2>1. Finish(w) /\ UNCHANGED <<db, caches>>
    BY <1>2 DEF DeleteMemo, db
  <2> QED
    BY <2>1, EndStep
<1> QED
  BY <1>1, <1>2

LEMMA DeleteUserStep ==
  ASSUME IInv, NEW w \in Workers, DeleteUser(w)
  PROVE  IInv' /\ Evolves
<1>0. ControlOK /\ DataOK /\ Knows(w)
  BY TypeSplits DEF IInv, HandlersKnow
<1>1. CASE request[w].target \in user
  <2>1. /\ user' = user \ {request[w].target}
        /\ memo' = Vacuumed(memo, user')
        /\ Goto(w, "userUncache") /\ pc[w] = "deleteUser"
        /\ UNCHANGED <<lastMemo, history, caches>>
    BY <1>1 DEF DeleteUser
  <2>2. /\ memo' = [m \in MemoIds |-> memo'[m]]
        /\ \A m \in MemoIds : memo'[m] \in {memo[m], NoRow}
    BY <1>0, <2>1 DEF Vacuumed, DataOK
  <2> QED
    BY <2>1, <2>2, RemovalStep DEF Steps
<1>2. CASE request[w].target \notin user
  <2>1. Finish(w) /\ UNCHANGED <<db, caches>>
    BY <1>2 DEF DeleteUser, db
  <2> QED
    BY <2>1, EndStep
<1> QED
  BY <1>1, <1>2

\* Dropping an entry of a cache.
LEMMA UncacheStep ==
  ASSUME IInv, NEW w \in Workers, MemoUncache(w) \/ UserUncache(w)
  PROVE  IInv' /\ Evolves
<1>0. /\ ControlOK /\ DataOK /\ Knows(w)
      /\ InHand(w)
  BY TypeSplits DEF IInv, HandlersKnow, HeldIssued, InHand
<1>1. /\ OnlyMoves(w) /\ ControlOK'
      /\ pc'[w] = "idle" /\ held'[w] = NoRow /\ todo'[w] = {}
  BY <1>0, FinishEffect DEF MemoUncache, UserUncache
<1>2. Knows(w)'
  BY <1>1 DEF Knows, FindingUser
<1>4. /\ user' = user /\ memo' = memo /\ lastMemo' = lastMemo
      /\ history' = history
      /\ userCache' \subseteq userCache
      /\ \/ memoCache' = memoCache
         \/ memoCache' = [memoCache EXCEPT ![request[w].id] = NoRow]
  BY DEF MemoUncache, UserUncache, db
<1>5. /\ memoCache' \in [MemoIds -> Row \cup {NoRow}]
      /\ \A m \in MemoIds : memoCache'[m] \in {memoCache[m], NoRow}
  BY <1>0, <1>4 DEF DataOK
<1>6. DataOK'
  BY <1>0, <1>4, <1>5 DEF DataOK
<1>7. Evolves
  BY <1>0, <1>4, ServiceAssumption DEF Evolves, DataOK
<1> QED
  BY <1>1, <1>2, <1>4, <1>5, <1>6, <1>7, WorkerStep

LEMMA RestartStep ==
  ASSUME IInv, Restart
  PROVE  IInv' /\ Evolves
<1>0. DataOK
  BY TypeSplits DEF IInv
<1>1. /\ user' = user /\ memo' = memo /\ lastMemo' = lastMemo
      /\ history' = history /\ userCache' = {}
      /\ memoCache' = [m \in MemoIds |-> NoRow]
      /\ pc' = [w \in Workers |-> "idle"]
      /\ held' = [w \in Workers |-> NoRow] /\ todo' = [w \in Workers |-> {}]
  BY DEF Restart, db
<1>2. TypeOK'
  BY <1>0, <1>1, HostIsUser DEF Restart, TypeOK, DataOK, Steps, Stages
<1>3. RowsKeyed'
  BY <1>1 DEF IInv, RowsKeyed, Issued
<1>4. CacheKeyed' /\ HeldIssued' /\ HandlersKnow'
  BY <1>1 DEF CacheKeyed, HeldIssued, HandlersKnow, Knows, FindingUser
<1>5. Evolves
  BY <1>0, <1>1, ServiceAssumption DEF Evolves, DataOK
<1> QED
  BY <1>2, <1>3, <1>4, <1>5 DEF IInv

-----------------------------------------------------------------------------
LEMMA InitInv == Init => IInv
<1> SUFFICES ASSUME Init
             PROVE  IInv
  OBVIOUS
<1>1. TypeOK
  BY HostIsUser, ServiceAssumption DEF Init, TypeOK, Steps, Stages
<1>2. RowsKeyed /\ CacheKeyed /\ HeldIssued /\ HandlersKnow
  BY DEF Init, RowsKeyed, CacheKeyed, HeldIssued, HandlersKnow, Knows,
     FindingUser
<1> QED
  BY <1>1, <1>2 DEF IInv

LEMMA StepInv ==
  ASSUME IInv, Next
  PROVE  IInv' /\ Evolves
<1>1. ASSUME NEW w \in Workers, Handle(w)
      PROVE  IInv' /\ Evolves
  <2>1. CASE CreateFull(w) \/ PatchMissing(w) \/ Reply(w)
    BY <2>1, EndStep DEF CreateFull, PatchMissing, Reply
  <2> QED
    BY <1>1, <2>1, UserLoadStep, UserSelectStep, UserStoreStep, MemoLoadStep,
       MemoSelectStep, MemoStoreStep, ComposeStep, CreateMemoStep,
       PatchMemoStep, DeleteMemoStep, DeleteUserStep, UncacheStep,
       SelectListStep, OtherTableStep
       DEF Handle
<1>2. ASSUME NEW w \in Workers, Receive(w) \/ Fail(w)
      PROVE  IInv' /\ Evolves
  BY <1>2, ReceiveStep, NoUserStep, EndStep DEF Fail
<1> QED
  BY <1>1, <1>2, RestartStep DEF Next

\* The inductive invariant: types, rows under their own ids, cached rows and
\* rows in hand that were committed under their id and name its creator, and
\* what each handler knows of its request at each place.
THEOREM Invariance == Spec => []IInv
<1>1. IInv /\ UNCHANGED vars => IInv'
  <2> SUFFICES ASSUME IInv, UNCHANGED vars
               PROVE  IInv'
    OBVIOUS
  <2> QED
    BY DEF vars, db, caches, control, IInv, TypeOK, RowsKeyed, CacheKeyed,
       HeldIssued, Issued, HandlersKnow, Knows, Serving, Holding, FindingUser
<1>2. IInv /\ [Next]_vars => IInv'
  BY <1>1, StepInv
<1> QED
  BY <1>2, InitInv, PTL DEF Spec

\* What a cache holds and what a GET answers was committed under that id.
THEOREM CommittedOnly == Spec => []ServedWasCommitted
<1>1. IInv => ServedWasCommitted
  <2> SUFFICES ASSUME IInv
               PROVE  ServedWasCommitted
    OBVIOUS
  <2> QED
    BY DEF IInv, ServedWasCommitted, CacheKeyed, HeldIssued, HandlersKnow,
       Knows, Holding, Issued
<1> QED
  BY <1>1, Invariance, PTL

\* The id of a deleted memo stays without a row for ever.
THEOREM NeverResurrected == Spec => NoResurrection
<1>1. IInv /\ [Next]_vars =>
        [\A m \in 1 .. lastMemo : memo[m] = NoRow => memo'[m] = NoRow]_vars
  <2> SUFFICES ASSUME IInv, Next, NEW m \in 1 .. lastMemo, memo[m] = NoRow
               PROVE  memo'[m] = NoRow
    OBVIOUS
  <2>1. lastMemo \in 0 .. MaxMemo
    BY DEF IInv, TypeOK
  <2>2. m \in MemoIds /\ m <= lastMemo
    BY <2>1, ServiceAssumption DEF MemoIds
  <2> QED
    BY <2>2, StepInv DEF Evolves
<1> QED
  BY <1>1, Invariance, PTL DEF Spec, NoResurrection

\* Only the creator of a memo patches or deletes it; else it goes because its
\* creator's account is gone.  The row the owner check read may be stale: what
\* carries the argument is Issued, which ties it to whatever row the id has
\* when the write commits.
THEOREM OwnersOnly == Spec => OwnerOnlyWrites
<1> DEFINE Allowed(m) ==
      \/ \E w \in Workers :
           /\ pc[w] \in {"patchMemo", "deleteMemo"} /\ pc'[w] # pc[w]
           /\ request[w].id = m
           /\ request[w].user = memo[m].creator
      \/ memo'[m] = NoRow /\ memo[m].creator \notin user'
<1>1. ASSUME IInv, Next, NEW m \in MemoIds, memo[m] # NoRow, memo'[m] # memo[m]
      PROVE  Allowed(m)
  <2>0. DataOK /\ ControlOK /\ RowsKeyed /\ m <= lastMemo /\ lastMemo \in 0 .. MaxMemo
    BY <1>1, TypeSplits DEF IInv, DataOK, RowsKeyed, Issued
  <2>1. PICK w \in Workers : CreateMemo(w) \/ PatchMemo(w) \/ DeleteMemo(w)
                             \/ DeleteUser(w)
    BY <1>1 DEF Next, Restart, Receive, Fail, Handle, UserLoad, UserSelect,
       UserStore, MemoLoad, MemoSelect, MemoStore, Organize, SelectList, Compose,
       CreateFull, PatchMissing, Unlink, MemoUncache, UserUncache, Reply, db
  <2>2. ~ CreateMemo(w)
    <3> SUFFICES ASSUME CreateMemo(w)
                 PROVE  FALSE
      OBVIOUS
    <3> DEFINE row == [id |-> NextMemo, creator |-> request[w].user,
                       body |-> request[w].body]
    <3>1. row.id = lastMemo + 1 /\ memo' = [memo EXCEPT ![row.id] = row]
      BY DEF CreateMemo, Saved, NextMemo
    <3> HIDE DEF row
    <3>2. m # row.id
      BY <2>0, <3>1, ServiceAssumption DEF MemoIds
    <3> QED
      BY <1>1, <2>0, <3>1, <3>2 DEF DataOK
  <2>3. ASSUME pc[w] \in {"patchMemo", "deleteMemo"}
        PROVE  /\ request[w].id \in MemoIds
               /\ memo[request[w].id] # NoRow =>
                    memo[request[w].id].creator = request[w].user
    <3>1. /\ Holding(w) /\ held[w].creator = request[w].user
          /\ Issued(held[w]) /\ held[w] \in Row
      BY <1>1, <2>0, <2>3 DEF IInv, HandlersKnow, Knows, Holding, HeldIssued,
         ControlOK
    <3> QED
      BY <3>1, RowFields DEF Holding, Issued
  <2>4. CASE PatchMemo(w)
    <3>1. pc[w] = "patchMemo" /\ pc' = [pc EXCEPT ![w] = "memoStore"]
      BY <2>4 DEF PatchMemo, Saved
    <3>2. pc'[w] # pc[w]
      BY <2>0, <3>1 DEF ControlOK
    <3> DEFINE old == memo[request[w].id]
               row == [id |-> old.id, creator |-> old.creator,
                       body |-> request[w].body]
    <3>3. old # NoRow /\ row.id = old.id /\ memo' = [memo EXCEPT ![row.id] = row]
      BY <2>4 DEF PatchMemo, Saved
    <3>4. old.id = request[w].id
      BY <2>0, <2>3, <3>1, <3>3 DEF RowsKeyed
    <3> HIDE DEF row
    <3>5. m = request[w].id
      BY <1>1, <2>0, <3>3, <3>4 DEF DataOK
    <3> QED
      BY <1>1, <2>3, <3>1, <3>2, <3>5
  <2>5. CASE DeleteMemo(w)
    <3>1. /\ pc[w] = "deleteMemo" /\ pc' = [pc EXCEPT ![w] = "memoUncache"]
          /\ memo' = Vacuumed([memo EXCEPT ![request[w].id] = NoRow], user)
          /\ user' = user
      BY <1>1, <2>5 DEF DeleteMemo, Goto
    <3>2. pc'[w] # pc[w]
      BY <2>0, <3>1 DEF ControlOK
    <3>3. CASE m = request[w].id
      BY <1>1, <2>3, <3>1, <3>2, <3>3
    <3>4. CASE m # request[w].id
      <4>1. memo'[m] = NoRow /\ memo[m].creator \notin user
        BY <1>1, <2>0, <3>1, <3>4 DEF Vacuumed, DataOK
      <4> QED
        BY <3>1, <4>1
    <3> QED
      BY <3>3, <3>4
  <2>6. CASE DeleteUser(w)
    <3>1. memo' = Vacuumed(memo, user')
      BY <1>1, <2>6 DEF DeleteUser
    <3> QED
      BY <1>1, <3>1 DEF Vacuumed
  <2> QED
    BY <2>1, <2>2, <2>4, <2>5, <2>6
<1>2. IInv /\ [Next]_vars =>
        [\A m \in MemoIds : memo[m] # NoRow /\ memo'[m] # memo[m] =>
           Allowed(m)]_vars
  BY <1>1
<1> QED
  BY <1>2, Invariance, PTL DEF Spec, OwnerOnlyWrites

-----------------------------------------------------------------------------
(***************************************************************************)
(* Requests one after the other: a single worker.                          *)
(***************************************************************************)
OneWorker == \A v, w \in Workers : v = w

\* A step that leaves the tables and memoCache alone.
LEMMA TurnQuiet ==
  ASSUME OneWorker, IInv, TurnInv, NEW w \in Workers,
         user' = user, memo' = memo, memoCache' = memoCache,
         \A u \in userCache' : u \in userCache \cup user,
         pc[w] \notin {"memoStore", "memoUncache", "userUncache"},
         KnowsInTurn(w)'
  PROVE  TurnInv'
<1>1. /\ \A u : ~ BeingDropped(u)
      /\ \A m : ~ BeingReplaced(m)
  BY DEF OneWorker, BeingDropped, BeingReplaced
<1>2. CreatorsThere'
  BY DEF TurnInv, CreatorsThere
<1>3. UserCacheInTurn'
  BY <1>1 DEF TurnInv, UserCacheInTurn
<1>4. MemoCacheInTurn'
  BY <1>1 DEF TurnInv, MemoCacheInTurn, Current
<1>5. \A v \in Workers : KnowsInTurn(v)'
  BY DEF OneWorker
<1> QED
  BY <1>2, <1>3, <1>4, <1>5 DEF TurnInv

LEMMA EndTurn ==
  ASSUME OneWorker, IInv, TurnInv, NEW w \in Workers, Finish(w),
         UNCHANGED <<db, caches>>,
         pc[w] \notin {"memoStore", "memoUncache", "userUncache"}
  PROVE  TurnInv'
<1>1. pc'[w] = "idle" /\ todo'[w] = {}
  BY TypeSplits, FinishEffect DEF IInv
<1>2. KnowsInTurn(w)'
  BY <1>1 DEF KnowsInTurn, FindingUser
<1> QED
  BY <1>2, TurnQuiet DEF db, caches

\* The user was found in the table, or in userCache, which agrees with it.
LEMMA FoundUserTurn ==
  ASSUME OneWorker, IInv, TurnInv, NEW w \in Workers, FindingUser(w), FoundUser(w),
         user' = user, memo' = memo, who[w] \in user
  PROVE  KnowsInTurn(w)'
<1>0. ControlOK /\ Knows(w) /\ KnowsInTurn(w)
  BY TypeSplits DEF IInv, HandlersKnow, TurnInv
<1>1. \A s \in Steps : Goto(w, s) =>
        /\ pc'[w] = s /\ stage'[w] = stage[w] /\ who'[w] = who[w]
        /\ held'[w] = held[w] /\ todo'[w] = todo[w] /\ request'[w] = request[w]
  BY <1>0, GotoEffect
<1>2. CASE stage[w] = "auth" /\ request[w].op = "create"
  <2>1. CASE Goto(w, "createMemo")
    BY <1>0, <1>1, <1>2, <2>1 DEF Steps, KnowsInTurn, FindingUser, Current, Serving
  <2>2. CASE CallFindUser(w, request[w].user, "enforce") /\ UNCHANGED <<held, request>>
    <3>1. request[w].user \in Users
      BY <1>0, <1>2 DEF Knows
    <3>2. /\ pc'[w] = "userLoad" /\ stage'[w] = "enforce" /\ todo'[w] = todo[w]
          /\ request'[w] = request[w]
      BY <1>0, <2>2, <3>1, CallEffect DEF Stages
    <3> QED
      BY <1>0, <1>2, <3>2 DEF KnowsInTurn, FindingUser, Current, Serving
  <2> QED
    BY <1>2, <2>1, <2>2 DEF FoundUser
<1>3. CASE stage[w] = "enforce"
  BY <1>0, <1>1, <1>3 DEF FoundUser, Steps, KnowsInTurn, FindingUser, Current, Serving
<1>4. CASE /\ stage[w] = "auth" /\ request[w].op \in OneMemo \cup {"list"}
           /\ Goto(w, FirstStep(request[w].op))
  <2>1. FirstStep(request[w].op) \in {"memoLoad", "organize", "selectList"}
    BY DEF FirstStep
  <2> QED
    BY <1>0, <1>1, <1>4, <2>1 DEF Steps, KnowsInTurn, FindingUser, Current, Serving
<1>5. CASE stage[w] = "auth" /\ request[w].op = "deleteUser"
           /\ CallFindUser(w, request[w].user, "role") /\ UNCHANGED <<held, request>>
  <2>1. request[w].user \in Users
    BY <1>0, <1>5 DEF Knows
  <2>2. /\ pc'[w] = "userLoad" /\ stage'[w] = "role" /\ todo'[w] = todo[w]
        /\ request'[w] = request[w]
    BY <1>0, <1>5, <2>1, CallEffect DEF Stages
  <2> QED
    BY <1>0, <1>5, <2>2 DEF KnowsInTurn, FindingUser, Current, Serving
<1>6. CASE stage[w] = "role"
  <2>1. CASE Goto(w, "deleteUser")
    BY <1>0, <1>1, <2>1 DEF Steps, KnowsInTurn, FindingUser, Current, Serving
  <2>2. CASE Finish(w)
    BY <1>0, <2>2, FinishEffect DEF KnowsInTurn, FindingUser
  <2> QED
    BY <1>6, <2>1, <2>2 DEF FoundUser
<1>7. CASE stage[w] \in {"found", "saved", "linked"}
  BY <1>0, <1>1, <1>7 DEF FoundUser, Steps, KnowsInTurn, FindingUser, Current, Serving
<1> QED
  BY <1>2, <1>3, <1>4, <1>5, <1>6, <1>7 DEF FoundUser, OneMemo

LEMMA NoUserTurn ==
  ASSUME OneWorker, IInv, TurnInv, NEW w \in Workers, pc[w] = "userSelect", NoUser(w),
         UNCHANGED <<db, caches>>
  PROVE  TurnInv'
<1>0. ControlOK /\ Knows(w) /\ KnowsInTurn(w)
  BY TypeSplits DEF IInv, HandlersKnow, TurnInv
<1>1. CASE Finish(w)
  BY <1>1, EndTurn
<1>2. CASE Goto(w, FirstStep(request[w].op))
  <2>1. FirstStep(request[w].op) \in {"memoLoad", "organize", "selectList"}
    BY DEF FirstStep
  <2>2. /\ pc'[w] \in {"memoLoad", "organize", "selectList"}
        /\ todo'[w] = todo[w] /\ request'[w] = request[w]
    BY <1>0, <1>2, <2>1, GotoEffect DEF Steps
  <2>3. KnowsInTurn(w)'
    BY <1>0, <2>2 DEF KnowsInTurn, FindingUser, Current, Serving, db
  <2> QED
    BY <2>3, TurnQuiet DEF db, caches
<1> QED
  BY <1>1, <1>2 DEF NoUser

LEMMA FindingTurn ==
  ASSUME OneWorker, IInv, TurnInv, NEW w \in Workers,
         UserLoad(w) \/ UserSelect(w) \/ UserStore(w)
  PROVE  TurnInv'
<1>0. /\ ControlOK /\ Knows(w) /\ KnowsInTurn(w) /\ UserCacheInTurn
      /\ FindingUser(w) /\ user' = user /\ memo' = memo /\ memoCache' = memoCache
  BY TypeSplits DEF IInv, HandlersKnow, TurnInv, UserLoad, UserSelect, UserStore,
     FindingUser, db, caches
<1>1. \A u : ~ BeingDropped(u)
  BY <1>0 DEF OneWorker, BeingDropped, FindingUser
<1>2. CASE UserLoad(w)
  <2>1. CASE who[w] \in userCache
    <3>1. who[w] \in user /\ FoundUser(w)
      BY <1>0, <1>1, <1>2, <2>1 DEF UserCacheInTurn, UserLoad
    <3> QED
      BY <1>0, <1>2, <3>1, FoundUserTurn, TurnQuiet DEF UserLoad, caches
  <2>2. CASE Goto(w, "userSelect")
    <3>1. /\ pc'[w] = "userSelect" /\ stage'[w] = stage[w] /\ who'[w] = who[w]
          /\ held'[w] = held[w] /\ todo'[w] = todo[w] /\ request'[w] = request[w]
      BY <1>0, <2>2, GotoEffect DEF Steps
    <3>2. KnowsInTurn(w)'
      BY <1>0, <1>2, <3>1 DEF UserLoad, KnowsInTurn, FindingUser, Current, Serving
    <3> QED
      BY <1>0, <1>2, <3>2, TurnQuiet DEF UserLoad, caches
  <2> QED
    BY <1>2, <2>1, <2>2 DEF UserLoad
<1>3. CASE UserSelect(w)
  <2>1. CASE who[w] \in user
    <3>1. /\ pc'[w] = "userStore" /\ stage'[w] = stage[w] /\ who'[w] = who[w]
          /\ held'[w] = held[w] /\ todo'[w] = todo[w] /\ request'[w] = request[w]
      BY <1>0, <1>3, <2>1, GotoEffect DEF UserSelect, Steps
    <3>2. KnowsInTurn(w)'
      BY <1>0, <1>3, <2>1, <3>1 DEF UserSelect, KnowsInTurn, FindingUser, Current, Serving
    <3> QED
      BY <1>0, <1>3, <3>2, TurnQuiet DEF UserSelect, caches
  <2>2. CASE NoUser(w)
    BY <1>0, <1>3, <2>2, NoUserTurn DEF UserSelect
  <2> QED
    BY <1>3, <2>1, <2>2 DEF UserSelect
<1>4. CASE UserStore(w)
  <2>1. who[w] \in user /\ FoundUser(w) /\ userCache' = userCache \cup {who[w]}
    BY <1>0, <1>4 DEF UserStore, KnowsInTurn
  <2> QED
    BY <1>0, <1>4, <2>1, FoundUserTurn, TurnQuiet DEF UserStore
<1> QED
  BY <1>2, <1>3, <1>4

\* What the tables and the worker's own place say of the rows before a step.
LEMMA TurnFacts ==
  ASSUME OneWorker, IInv, TurnInv, NEW w \in Workers
  PROVE  /\ DataOK /\ ControlOK /\ Knows(w) /\ KnowsInTurn(w) /\ InHand(w)
         /\ ~ Serving(w, {"list"}) => todo[w] = {}
         /\ pc[w] = "idle" => todo[w] = {}
         /\ \A m \in MemoIds : memo[m] # NoRow =>
              memo[m].id = m /\ Current(memo[m]) /\ memo[m].creator \in user
         /\ \A m \in MemoIds : memoCache[m] # NoRow =>
              /\ memoCache[m].id = m
              /\ ~ BeingReplaced(m) =>
                   Current(memoCache[m]) \/ memoCache[m].creator \notin user
         /\ pc[w] # "userUncache" => \A u : ~ BeingDropped(u)
         /\ pc[w] \notin {"memoStore", "memoUncache"} => \A m : ~ BeingReplaced(m)
         /\ OnlyMoves(w)
<1>1. DataOK /\ ControlOK /\ Knows(w) /\ KnowsInTurn(w) /\ InHand(w)
  BY TypeSplits DEF IInv, HandlersKnow, TurnInv, HeldIssued, InHand
<1>2. \A m \in MemoIds : memo[m] # NoRow =>
        memo[m].id = m /\ Current(memo[m]) /\ memo[m].creator \in user
  BY DEF IInv, RowsKeyed, TurnInv, CreatorsThere, Current
<1>3. \A m \in MemoIds : memoCache[m] # NoRow =>
        /\ memoCache[m].id = m
        /\ ~ BeingReplaced(m) =>
             Current(memoCache[m]) \/ memoCache[m].creator \notin user
  BY DEF IInv, CacheKeyed, TurnInv, MemoCacheInTurn
<1>4. /\ pc[w] # "userUncache" => \A u : ~ BeingDropped(u)
      /\ pc[w] \notin {"memoStore", "memoUncache"} => \A m : ~ BeingReplaced(m)
      /\ OnlyMoves(w)
  BY DEF OneWorker, BeingDropped, BeingReplaced, OnlyMoves
<1>5. /\ ~ Serving(w, {"list"}) => todo[w] = {}
      /\ pc[w] = "idle" => todo[w] = {}
  BY <1>1 DEF KnowsInTurn
<1> QED
  BY <1>1, <1>2, <1>3, <1>4, <1>5

LEMMA ReceiveTurn ==
  ASSUME OneWorker, IInv, TurnInv, NEW w \in Workers, Receive(w)
  PROVE  TurnInv'
<1>0. ControlOK /\ todo[w] = {} /\ pc[w] = "idle"
  BY TurnFacts DEF Receive
<1>1. PICK r \in Requests :
        /\ request' = [request EXCEPT ![w] = r]
        /\ IF r.user = Anonymous
           THEN /\ pc' = [pc EXCEPT ![w] = FirstStep(r.op)]
                /\ UNCHANGED <<stage, who, todo>>
           ELSE CallFindUser(w, r.user, "auth")
  BY DEF Receive
<1>2. UNCHANGED <<held, db, caches>>
  BY DEF Receive
<1>3. CASE r.user = Anonymous
  <2>1. FirstStep(r.op) \in {"memoLoad", "organize", "selectList"}
    BY DEF FirstStep
  <2>2. pc'[w] \in {"memoLoad", "organize", "selectList"} /\ todo'[w] = {}
    BY <1>0, <1>1, <1>3, <2>1 DEF ControlOK
  <2> QED
    BY <1>0, <1>2, <2>2, TurnQuiet DEF KnowsInTurn, FindingUser, db, caches
<1>4. CASE r.user # Anonymous
  <2>1. /\ pc'[w] = "userLoad" /\ stage'[w] = "auth" /\ who'[w] = r.user
        /\ request'[w] = r /\ todo'[w] = {}
    BY <1>0, <1>1, <1>4 DEF ControlOK, CallFindUser
  <2> QED
    BY <1>0, <1>2, <2>1, TurnQuiet DEF KnowsInTurn, FindingUser, db, caches
<1> QED
  BY <1>3, <1>4

\* A cached row is the one of the table, or its creator will not be found.
LEMMA MemoLoadTurn ==
  ASSUME OneWorker, IInv, TurnInv, NEW w \in Workers, MemoLoad(w)
  PROVE  TurnInv'
<1> DEFINE row == memoCache[request[w].id]
<1>0. /\ DataOK /\ ControlOK /\ Knows(w) /\ pc[w] = "memoLoad"
      /\ UNCHANGED <<db, caches>> /\ Serving(w, OneMemo) /\ todo[w] = {}
      /\ request[w].id \in MemoIds
  BY TurnFacts, RequestFields
     DEF MemoLoad, Knows, Serving, OneMemo, ControlOK
<1>1. CASE row # NoRow
  <2>1. Current(row) \/ row.creator \notin user
    BY <1>0, <1>1, TurnFacts
  <2>2. row \in Row /\ row.creator \in Users
    BY <1>0, <1>1, RowFields DEF DataOK
  <2> HIDE DEF row
  <2>3. /\ held' = [held EXCEPT ![w] = row]
        /\ CallFindUser(w, row.creator, "found")
        /\ request' = request
    BY <1>1 DEF MemoLoad, row
  <2>4. /\ pc'[w] = "userLoad" /\ stage'[w] = "found" /\ who'[w] = row.creator
        /\ held'[w] = row /\ request'[w] = request[w] /\ todo'[w] = {}
    BY <1>0, <2>2, <2>3 DEF ControlOK, CallFindUser
  <2>5. KnowsInTurn(w)'
    BY <1>0, <2>1, <2>4
       DEF KnowsInTurn, FindingUser, Current, Serving, OneMemo, db
  <2> QED
    BY <1>0, <2>5, TurnQuiet DEF db, caches
<1>2. CASE Goto(w, "memoSelect")
  <2>1. pc'[w] = "memoSelect" /\ todo'[w] = {}
    BY <1>0, <1>2, GotoEffect DEF Steps
  <2> QED
    BY <1>0, <2>1, TurnQuiet DEF KnowsInTurn, FindingUser, db, caches
<1> QED
  BY <1>1, <1>2 DEF MemoLoad

LEMMA MemoSelectTurn ==
  ASSUME OneWorker, IInv, TurnInv, NEW w \in Workers, MemoSelect(w)
  PROVE  TurnInv'
<1> DEFINE row == memo[request[w].id]
<1>0. /\ ControlOK /\ Knows(w) /\ pc[w] = "memoSelect"
      /\ UNCHANGED <<db, caches>> /\ todo[w] = {}
      /\ request[w].id \in MemoIds
  BY TurnFacts, RequestFields
     DEF MemoSelect, Knows, Serving, OneMemo, ControlOK
<1>1. CASE row # NoRow
  <2>1. Current(row)
    BY <1>0, <1>1, TurnFacts
  <2>2. /\ pc'[w] = "memoStore" /\ held'[w] = row /\ todo'[w] = {}
    BY <1>0, <1>1 DEF MemoSelect, ControlOK
  <2>3. KnowsInTurn(w)'
    BY <1>0, <2>1, <2>2 DEF KnowsInTurn, FindingUser, Current, db
  <2> QED
    BY <1>0, <2>3, TurnQuiet DEF db, caches
<1>2. CASE Finish(w)
  BY <1>0, <1>2, EndTurn
<1> QED
  BY <1>1, <1>2 DEF MemoSelect

LEMMA MemoStoreTurn ==
  ASSUME OneWorker, IInv, TurnInv, NEW w \in Workers, MemoStore(w)
  PROVE  TurnInv'
<1>0. /\ DataOK /\ ControlOK /\ Knows(w) /\ KnowsInTurn(w) /\ pc[w] = "memoStore"
      /\ held[w] \in Row /\ Current(held[w]) /\ UNCHANGED <<db, userCache>>
      /\ stage[w] \in {"found", "saved", "linked"}
  BY TurnFacts DEF MemoStore, Knows, KnowsInTurn, ControlOK
<1>1. /\ pc'[w] = "userLoad" /\ stage'[w] = stage[w] /\ who'[w] = held[w].creator
      /\ held'[w] = held[w] /\ request'[w] = request[w] /\ todo'[w] = todo[w]
  BY <1>0, CallEffect, RowFields DEF MemoStore, ControlOK
<1>2. KnowsInTurn(w)'
  BY <1>0, <1>1 DEF KnowsInTurn, FindingUser, Current, Serving, db
<1>3. MemoCacheInTurn'
  <2> SUFFICES ASSUME NEW m \in MemoIds, memoCache'[m] # NoRow
               PROVE  (Current(memoCache[m]) \/ memoCache[m].creator \notin user)'
    BY DEF MemoCacheInTurn
  <2>1. memoCache'[m] = IF m = held[w].id THEN held[w] ELSE memoCache[m]
    BY <1>0 DEF MemoStore, DataOK
  <2>2. ~ (m = held[w].id) => ~ BeingReplaced(m)
    BY <1>0 DEF BeingReplaced, OneWorker
  <2> QED
    BY <1>0, <2>1, <2>2, TurnFacts DEF Current, db
<1>4. CreatorsThere' /\ UserCacheInTurn'
  BY <1>0, TurnFacts DEF TurnInv, CreatorsThere, UserCacheInTurn, db
<1> QED
  BY <1>2, <1>3, <1>4 DEF TurnInv, OneWorker

LEMMA OtherTableTurn ==
  ASSUME OneWorker, IInv, TurnInv, NEW w \in Workers, Organize(w) \/ Unlink(w)
  PROVE  TurnInv'
<1>0. ControlOK /\ KnowsInTurn(w)
  BY TurnFacts
<1>1. CASE Organize(w)
  <2>1. /\ pc[w] = "organize" /\ pc'[w] = "memoLoad" /\ todo'[w] = todo[w]
        /\ request'[w] = request[w] /\ UNCHANGED <<db, caches>>
    BY <1>0, <1>1, GotoEffect DEF Organize, Steps
  <2>2. KnowsInTurn(w)'
    BY <1>0, <2>1 DEF KnowsInTurn, FindingUser, Current, Serving, db
  <2> QED
    BY <2>1, <2>2, TurnQuiet DEF db, caches
<1>2. CASE Unlink(w)
  BY <1>2, EndTurn DEF Unlink
<1> QED
  BY <1>1, <1>2

\* The rows of a list are rows of the table.
LEMMA ComposeNextTurn ==
  ASSUME OneWorker, IInv, TurnInv, NEW w \in Workers,
         pc[w] \in {"selectList", "compose"}, Serving(w, {"list"}),
         NEW rows, \A row \in rows : row \in Row /\ Current(row),
         ComposeNext(w, rows), UNCHANGED <<db, caches>>
  PROVE  TurnInv'
<1>0. ControlOK
  BY TurnFacts
<1>1. CASE Finish(w)
  BY <1>1, EndTurn
<1>2. ASSUME NEW row \in rows,
             held' = [held EXCEPT ![w] = row],
             todo' = [todo EXCEPT ![w] = rows \ {row}],
             pc' = [pc EXCEPT ![w] = "userLoad"],
             stage' = [stage EXCEPT ![w] = "found"],
             who' = [who EXCEPT ![w] = row.creator],
             UNCHANGED request
      PROVE  TurnInv'
  <2>1. /\ pc'[w] = "userLoad" /\ stage'[w] = "found" /\ who'[w] = row.creator
        /\ held'[w] = row /\ request'[w] = request[w] /\ todo'[w] = rows \ {row}
    BY <1>0, <1>2 DEF ControlOK
  <2>2. KnowsInTurn(w)'
    BY <2>1 DEF KnowsInTurn, FindingUser, Current, Serving, db
  <2> QED
    BY <2>2, TurnQuiet DEF db, caches
<1> QED
  BY <1>1, <1>2 DEF ComposeNext

LEMMA SelectListTurn ==
  ASSUME OneWorker, IInv, TurnInv, NEW w \in Workers, SelectList(w)
  PROVE  TurnInv'
<1>1. PICK ids \in SUBSET {m \in MemoIds : memo[m] # NoRow} :
        ComposeNext(w, {memo[m] : m \in ids})
  BY DEF SelectList
<1>2. \A row \in {memo[m] : m \in ids} : row \in Row /\ Current(row)
  BY TurnFacts DEF DataOK
<1>3. Serving(w, {"list"}) /\ pc[w] = "selectList" /\ UNCHANGED <<db, caches>>
  BY TurnFacts DEF SelectList, Knows
<1> QED
  BY <1>1, <1>2, <1>3, ComposeNextTurn

LEMMA ComposeTurn ==
  ASSUME OneWorker, IInv, TurnInv, NEW w \in Workers, Compose(w)
  PROVE  TurnInv'
<1>0. /\ ControlOK /\ Knows(w) /\ KnowsInTurn(w) /\ pc[w] = "compose"
      /\ UNCHANGED <<db, caches>> /\ Current(held[w]) /\ held[w] \in Row
      /\ request[w] # NoRequest
  BY TurnFacts DEF Compose, Knows, KnowsInTurn, ControlOK, Serving
<1>1. CASE Finish(w)
  BY <1>0, <1>1, EndTurn
<1>2. ASSUME NEW s \in {"reply", "patchMemo", "deleteMemo", "unlink"}, Goto(w, s)
      PROVE  TurnInv'
  <2>1. /\ pc'[w] = s /\ held'[w] = held[w] /\ request'[w] = request[w]
        /\ todo'[w] = todo[w]
    BY <1>0, <1>2, GotoEffect DEF Steps
  <2>2. KnowsInTurn(w)'
    BY <1>0, <2>1 DEF KnowsInTurn, FindingUser, Current, Serving, db
  <2> QED
    BY <1>0, <2>2, TurnQuiet DEF db, caches
<1>3. ASSUME request[w].op = "list", ComposeNext(w, todo[w])
      PROVE  TurnInv'
  <2>1. \A row \in todo[w] : row \in Row /\ Current(row)
    BY <1>0 DEF KnowsInTurn, ControlOK
  <2> QED
    BY <1>0, <1>3, <2>1, ComposeNextTurn DEF Serving
<1>4. ASSUME stage[w] = "saved", CallFindUser(w, held[w].creator, "linked"),
             UNCHANGED <<held, request>>
      PROVE  TurnInv'
  <2>1. /\ pc'[w] = "userLoad" /\ stage'[w] = "linked" /\ who'[w] = held[w].creator
        /\ held'[w] = held[w] /\ request'[w] = request[w] /\ todo'[w] = todo[w]
    BY <1>0, <1>4, CallEffect, RowFields DEF Stages
  <2>2. KnowsInTurn(w)'
    BY <1>0, <2>1 DEF KnowsInTurn, FindingUser, Current, Serving, db
  <2> QED
    BY <1>0, <2>2, TurnQuiet DEF db, caches
<1>5. \A op \in DOMAIN WriteStep :
        WriteStep[op] \in {"reply", "patchMemo", "deleteMemo", "unlink"}
  BY DEF WriteStep
<1> QED
  BY <1>1, <1>2, <1>3, <1>4, <1>5 DEF Compose

\* A save leaves its own id for the cache store that follows.
LEMMA SaveTurn ==
  ASSUME OneWorker, IInv, TurnInv, NEW w \in Workers, NEW row \in Row,
         pc[w] \notin {"memoStore", "memoUncache", "userUncache"},
         Serving(w, {"create", "patch"}), row.creator \in user, Saved(w, row)
  PROVE  TurnInv'
<1>0. /\ DataOK /\ ControlOK /\ todo[w] = {} /\ user' = user
      /\ UNCHANGED caches /\ row.id \in MemoIds
  BY TurnFacts, RowFields DEF Serving, Saved
<1>1. /\ pc'[w] = "memoStore" /\ held'[w] = row /\ todo'[w] = {}
      /\ \A m \in MemoIds : memo'[m] = IF m = row.id THEN row ELSE memo[m]
  BY <1>0 DEF Saved, ControlOK, DataOK
<1>2. KnowsInTurn(w)'
  BY <1>0, <1>1 DEF KnowsInTurn, FindingUser, Current
<1>3. CreatorsThere' /\ UserCacheInTurn'
  BY <1>0, <1>1, TurnFacts DEF TurnInv, CreatorsThere, UserCacheInTurn, caches
<1>4. MemoCacheInTurn'
  <2> SUFFICES ASSUME NEW m \in MemoIds, memoCache[m] # NoRow
               PROVE  \/ Current(memoCache[m])'
                      \/ memoCache[m].creator \notin user
                      \/ BeingReplaced(m)'
    BY <1>0 DEF MemoCacheInTurn, caches
  <2>1. CASE m = row.id
    BY <1>1, <2>1 DEF BeingReplaced
  <2>2. CASE m # row.id
    BY <1>0, <1>1, <2>2, TurnFacts DEF Current, caches
  <2> QED
    BY <2>1, <2>2
<1> QED
  BY <1>2, <1>3, <1>4 DEF TurnInv, OneWorker

LEMMA SavingTurn ==
  ASSUME OneWorker, IInv, TurnInv, NEW w \in Workers, CreateMemo(w) \/ PatchMemo(w)
  PROVE  TurnInv'
<1>0. DataOK /\ ControlOK /\ Knows(w) /\ KnowsInTurn(w)
  BY TurnFacts
<1>1. CASE CreateMemo(w)
  <2>1. /\ pc[w] = "createMemo" /\ Serving(w, {"create"}) /\ request[w].user \in user
        /\ NextMemo \in MemoIds
    BY <1>0, <1>1, ServiceAssumption
       DEF CreateMemo, Knows, KnowsInTurn, NextMemo, DataOK, MemoIds
  <2>2. request[w].user \in Users /\ request[w].body \in Bodies
    BY <1>0, <2>1, RequestFields DEF Serving, ControlOK, DataOK
  <2> DEFINE row == [id |-> NextMemo, creator |-> request[w].user,
                     body |-> request[w].body]
  <2>3. row \in Row /\ row.creator = request[w].user /\ Saved(w, row)
    BY <1>1, <2>1, <2>2, RowFields DEF CreateMemo
  <2> HIDE DEF row
  <2> QED
    BY <2>1, <2>3, SaveTurn DEF Serving
<1>2. CASE PatchMemo(w)
  <2> DEFINE old == memo[request[w].id]
             row == [id |-> old.id, creator |-> old.creator,
                     body |-> request[w].body]
  <2>1. pc[w] = "patchMemo" /\ Serving(w, {"patch"})
    BY <1>0, <1>2 DEF PatchMemo, Knows
  <2>2. request[w].id \in MemoIds /\ request[w].body \in Bodies
    BY <1>0, <2>1, RequestFields DEF Serving, ControlOK, OneMemo
  <2>3. old # NoRow /\ old \in Row /\ old.creator \in user /\ Saved(w, row)
    BY <1>0, <1>2, <2>2, TurnFacts DEF PatchMemo, DataOK
  <2>4. row \in Row /\ row.creator = old.creator
    BY <2>2, <2>3, RowFields
  <2> HIDE DEF row, old
  <2> QED
    BY <2>1, <2>3, <2>4, SaveTurn DEF Serving
<1> QED
  BY <1>1, <1>2

\* No memo lacks its creator: the vacuum that follows a deletion takes no
\* other memo along.
LEMMA DeleteMemoTurn ==
  ASSUME OneWorker, IInv, TurnInv, NEW w \in Workers, DeleteMemo(w)
  PROVE  TurnInv'
<1>0. /\ DataOK /\ ControlOK /\ pc[w] = "deleteMemo" /\ Serving(w, {"delete"})
      /\ user' = user /\ UNCHANGED caches /\ todo[w] = {}
  BY TurnFacts DEF DeleteMemo, Knows, Serving
<1>1. CASE memo[request[w].id] # NoRow
  <2>1. /\ Goto(w, "memoUncache")
        /\ memo' = Vacuumed([memo EXCEPT ![request[w].id] = NoRow], user)
    BY <1>1 DEF DeleteMemo
  <2>2. /\ pc'[w] = "memoUncache" /\ todo'[w] = {} /\ request'[w] = request[w]
    BY <1>0, <2>1, GotoEffect DEF Steps
  <2>3. \A m \in MemoIds :
          memo'[m] = IF m = request[w].id THEN NoRow ELSE memo[m]
    BY <1>0, <2>1, TurnFacts DEF Vacuumed, DataOK
  <2>4. CreatorsThere' /\ UserCacheInTurn'
    BY <1>0, <2>3, TurnFacts DEF TurnInv, CreatorsThere, UserCacheInTurn, caches
  <2>5. MemoCacheInTurn'
    <3> SUFFICES ASSUME NEW m \in MemoIds, memoCache[m] # NoRow
                 PROVE  \/ Current(memoCache[m])'
                        \/ memoCache[m].creator \notin user
                        \/ BeingReplaced(m)'
      BY <1>0 DEF MemoCacheInTurn, caches
    <3>1. CASE m = request[w].id
      BY <2>2, <3>1 DEF BeingReplaced
    <3>2. CASE m # request[w].id
      BY <1>0, <2>3, <3>2, TurnFacts DEF Current, caches
    <3> QED
      BY <3>1, <3>2
  <2>6. KnowsInTurn(w)'
    BY <2>2 DEF KnowsInTurn, FindingUser
  <2> QED
    BY <2>4, <2>5, <2>6 DEF TurnInv, OneWorker
<1>2. CASE Finish(w) /\ UNCHANGED memo
  BY <1>0, <1>2, EndTurn DEF DeleteMemo, db, caches
<1> QED
  BY <1>1, <1>2 DEF DeleteMemo

\* The cached memos of the account that goes stay cached, and are not served.
LEMMA DeleteUserTurn ==
  ASSUME OneWorker, IInv, TurnInv, NEW w \in Workers, DeleteUser(w)
  PROVE  TurnInv'
<1> DEFINE target == request[w].target
<1>0. /\ DataOK /\ ControlOK /\ pc[w] = "deleteUser" /\ Serving(w, {"deleteUser"})
      /\ UNCHANGED caches /\ todo[w] = {}
  BY TurnFacts DEF DeleteUser, Knows, Serving
<1>1. CASE target \in user
  <2>1. /\ user' = user \ {target} /\ memo' = Vacuumed(memo, user')
        /\ Goto(w, "userUncache")
    BY <1>1 DEF DeleteUser
  <2>2. /\ pc'[w] = "userUncache" /\ todo'[w] = {} /\ request'[w] = request[w]
    BY <1>0, <2>1, GotoEffect DEF Steps
  <2>3. \A m \in MemoIds :
          memo'[m] = IF memo[m] # NoRow /\ memo[m].creator \in user'
                     THEN memo[m] ELSE NoRow
    BY <2>1 DEF Vacuumed
  <2>4. CreatorsThere'
    BY <2>3 DEF CreatorsThere
  <2>5. UserCacheInTurn'
    BY <1>0, <2>1, <2>2, TurnFacts DEF TurnInv, UserCacheInTurn, BeingDropped, caches
  <2>6. MemoCacheInTurn'
    <3> SUFFICES ASSUME NEW m \in MemoIds, memoCache[m] # NoRow,
                        memoCache[m].creator \in user'
                 PROVE  Current(memoCache[m])'
      BY <1>0 DEF MemoCacheInTurn, caches
    <3>1. memoCache[m].id = m /\ memo[m] = memoCache[m]
      BY <1>0, <2>1, TurnFacts DEF Current
    <3> QED
      BY <1>0, <2>3, <3>1 DEF Current, caches
  <2>7. KnowsInTurn(w)'
    BY <2>2 DEF KnowsInTurn, FindingUser
  <2> QED
    BY <2>4, <2>5, <2>6, <2>7 DEF TurnInv, OneWorker
<1>2. CASE Finish(w) /\ UNCHANGED <<user, memo>>
  BY <1>0, <1>2, EndTurn DEF DeleteUser, db, caches
<1> QED
  BY <1>1, <1>2 DEF DeleteUser

LEMMA UncacheTurn ==
  ASSUME OneWorker, IInv, TurnInv, NEW w \in Workers, MemoUncache(w) \/ UserUncache(w)
  PROVE  TurnInv'
<1>0. /\ DataOK /\ ControlOK /\ Finish(w) /\ user' = user /\ memo' = memo
      /\ pc[w] \in {"memoUncache", "userUncache"}
  BY TurnFacts DEF MemoUncache, UserUncache, db
<1>1. KnowsInTurn(w)'
  BY <1>0, FinishEffect DEF KnowsInTurn, FindingUser
<1>2. CreatorsThere'
  BY <1>0 DEF TurnInv, CreatorsThere
<1>3. UserCacheInTurn'
  <2>1. CASE MemoUncache(w)
    BY <1>0, <2>1, TurnFacts DEF MemoUncache, TurnInv, UserCacheInTurn
  <2>2. CASE UserUncache(w)
    <3>1. \A u : BeingDropped(u) => u = request[w].target
      BY DEF OneWorker, BeingDropped
    <3> QED
      BY <1>0, <2>2, <3>1 DEF UserUncache, TurnInv, UserCacheInTurn
  <2> QED
    BY <2>1, <2>2
<1>4. MemoCacheInTurn'
  <2> SUFFICES ASSUME NEW m \in MemoIds, memoCache'[m] # NoRow
               PROVE  (Current(memoCache[m]) \/ memoCache[m].creator \notin user)'
    BY DEF MemoCacheInTurn
  <2>1. CASE MemoUncache(w)
    <3>1. pc[w] = "memoUncache" /\ memoCache'[m] = memoCache[m]
          /\ m # request[w].id
      BY <1>0, <2>1 DEF MemoUncache, DataOK
    <3>2. ~ BeingReplaced(m)
      BY <3>1 DEF BeingReplaced, OneWorker
    <3> QED
      BY <1>0, <3>1, <3>2, TurnFacts DEF Current
  <2>2. CASE UserUncache(w)
    <3>1. pc[w] = "userUncache" /\ memoCache'[m] = memoCache[m]
      BY <1>0, <2>2 DEF UserUncache
    <3> QED
      BY <1>0, <3>1, TurnFacts DEF Current
  <2> QED
    BY <2>1, <2>2
<1> QED
  BY <1>1, <1>2, <1>3, <1>4 DEF TurnInv, OneWorker

LEMMA RestartTurn ==
  ASSUME IInv, TurnInv, Restart
  PROVE  TurnInv'
<1>1. /\ user' = user /\ memo' = memo /\ userCache' = {}
      /\ \A m \in MemoIds : memoCache'[m] = NoRow
      /\ \A w \in Workers : pc'[w] = "idle" /\ todo'[w] = {}
  BY DEF Restart, db
<1> QED
  BY <1>1 DEF TurnInv, CreatorsThere, UserCacheInTurn, MemoCacheInTurn,
     KnowsInTurn, FindingUser

LEMMA InitTurn == Init => TurnInv
  BY DEF Init, TurnInv, CreatorsThere, UserCacheInTurn, MemoCacheInTurn,
     KnowsInTurn, FindingUser

LEMMA StepTurn ==
  ASSUME OneWorker, IInv, TurnInv, Next
  PROVE  TurnInv'
<1>1. ASSUME NEW w \in Workers, Handle(w)
      PROVE  TurnInv'
  <2>1. CASE CreateFull(w) \/ PatchMissing(w) \/ Reply(w)
    BY <2>1, EndTurn DEF CreateFull, PatchMissing, Reply
  <2> QED
    BY <1>1, <2>1, FindingTurn, MemoLoadTurn, MemoSelectTurn, MemoStoreTurn,
       ComposeTurn, SavingTurn, OtherTableTurn, SelectListTurn, DeleteMemoTurn,
       DeleteUserTurn, UncacheTurn
       DEF Handle
<1>2. ASSUME NEW w \in Workers, Receive(w)
      PROVE  TurnInv'
  BY <1>2, ReceiveTurn
<1>3. ASSUME NEW w \in Workers, Fail(w)
      PROVE  TurnInv'
  <2>1. CASE pc[w] = "userSelect" /\ NoUser(w)
    BY <1>3, <2>1, NoUserTurn DEF Fail
  <2>2. CASE /\ pc[w] \notin {"memoStore", "memoUncache", "userUncache"}
             /\ Finish(w)
    BY <1>3, <2>2, EndTurn DEF Fail
  <2> QED
    BY <1>3, <2>1, <2>2 DEF Fail
<1> QED
  BY <1>1, <1>2, <1>3, RestartTurn DEF Next

\* With requests one after the other the caches differ from the tables only
\* in what the request under way is about to put right, and in memos of
\* accounts that are gone.
THEOREM TurnKept == OneWorker => (Spec => []TurnInv)
<1> SUFFICES ASSUME OneWorker
             PROVE  Spec => []TurnInv
  OBVIOUS
<1>1. TurnInv /\ UNCHANGED vars => TurnInv'
  <2> SUFFICES ASSUME TurnInv, UNCHANGED vars
               PROVE  TurnInv'
    OBVIOUS
  <2> QED
    BY DEF vars, db, caches, control, TurnInv, CreatorsThere, UserCacheInTurn,
       MemoCacheInTurn, BeingDropped, BeingReplaced, KnowsInTurn, FindingUser,
       Current, Serving
<1>2. IInv /\ TurnInv /\ [Next]_vars => TurnInv'
  BY <1>1, StepTurn
<1> QED
  BY <1>2, InitTurn, Invariance, PTL DEF Spec

\* With requests one after the other a memo that is answered is the row of
\* the table.
THEOREM ServedInTurn == OneWorker => (Spec => []ServedIsCurrent)
<1>1. TurnInv => ServedIsCurrent
  BY DEF TurnInv, KnowsInTurn, ServedIsCurrent, Current
<1> SUFFICES ASSUME OneWorker
             PROVE  Spec => []ServedIsCurrent
  OBVIOUS
<1>2. Spec => []TurnInv
  BY TurnKept
<1> QED
  BY <1>1, <1>2, PTL

\* With requests one after the other no list is failed by a memo without its
\* creator.
THEOREM ListsInTurn == OneWorker => (Spec => []ListsFindCreators)
<1>1. OneWorker /\ IInv /\ TurnInv => ListsFindCreators
  <2> SUFFICES ASSUME OneWorker, IInv, TurnInv, NEW w \in Workers,
                      pc[w] = "userSelect", stage[w] = "found", request[w].op = "list"
               PROVE  who[w] \in user
    BY DEF ListsFindCreators
  <2>1. DataOK /\ ControlOK /\ Knows(w) /\ KnowsInTurn(w)
    BY TurnFacts
  <2>2. /\ held[w] # NoRow /\ who[w] = held[w].creator /\ Current(held[w])
    BY <2>1 DEF Knows, KnowsInTurn, FindingUser
  <2>3. held[w].id \in MemoIds
    BY <2>1, <2>2, RowFields DEF ControlOK
  <2> QED
    BY <2>2, <2>3 DEF TurnInv, CreatorsThere, Current
<1> SUFFICES ASSUME OneWorker
             PROVE  Spec => []ListsFindCreators
  OBVIOUS
<1>2. Spec => []TurnInv
  BY TurnKept
<1> QED
  BY <1>1, <1>2, Invariance, PTL

\* With requests one after the other the token of a deleted user does not
\* pass the user check of the middleware.
THEOREM DeletedStayOutInTurn == OneWorker => (Spec => DeletedUsersStayOut)
<1> DEFINE StaysOut(w) ==
      /\ pc[w] = "userLoad" /\ stage[w] = "auth"
      /\ who[w] \notin user /\ ~ BeingDropped(who[w])
      => \/ pc'[w] \in {"userSelect", "idle"}
         \/ pc'[w] = "userLoad" /\ stage'[w] = "auth"
<1> SUFFICES ASSUME OneWorker
             PROVE  Spec => DeletedUsersStayOut
  OBVIOUS
<1>1. ASSUME IInv, TurnInv, Next, NEW w \in Workers,
             pc[w] = "userLoad", stage[w] = "auth",
             who[w] \notin user, ~ BeingDropped(who[w])
      PROVE  pc'[w] \in {"userSelect", "idle"}
  <2>1. who[w] \notin userCache /\ ControlOK
    BY <1>1, TurnFacts DEF TurnInv, UserCacheInTurn
  <2>2. CASE Restart
    BY <2>2 DEF Restart
  <2>3. CASE UserLoad(w)
    BY <2>1, <2>3, GotoEffect DEF UserLoad, Steps
  <2> QED
    BY <1>1, <2>2, <2>3 DEF OneWorker, Next, Handle, Receive, Fail, UserSelect,
       UserStore, MemoLoad, MemoSelect, MemoStore, Compose, CreateMemo,
       CreateFull, PatchMemo, PatchMissing, Organize, SelectList, Unlink,
       DeleteMemo, MemoUncache, DeleteUser, UserUncache, Reply
<1>2. IInv /\ TurnInv /\ [Next]_vars => [\A w \in Workers : StaysOut(w)]_vars
  BY <1>1
<1>3. Spec => []TurnInv
  BY TurnKept
<1> QED
  BY <1>2, <1>3, Invariance, PTL DEF Spec, DeletedUsersStayOut

-----------------------------------------------------------------------------
(***************************************************************************)
(* Every handler comes to its end after a bounded number of steps, for any *)
(* number of workers that run at the same time.                            *)
(***************************************************************************)
LEMMA AheadOf ==
  ASSUME NEW for \in Stages
  PROVE  /\ After[for] \in Nat /\ After[for] >= 2
         /\ Ahead("memoStore", for) = 4 + After[for]
         /\ Ahead("userLoad", for) = 3 + After[for]
         /\ Ahead("userSelect", for) = 2 + After[for]
         /\ Ahead("userStore", for) = 1 + After[for]
         /\ Ahead("compose", for) = After[for]
         /\ Ahead("selectList", for) = 12 + 4 * MaxMemo
         /\ Ahead("organize", for) = 19
         /\ Ahead("memoLoad", for) = 18 /\ Ahead("memoSelect", for) = 17
         /\ Ahead("createMemo", for) = 11 /\ Ahead("patchMemo", for) = 11
         /\ Ahead("deleteMemo", for) = 2 /\ Ahead("deleteUser", for) = 2
         /\ Ahead("unlink", for) = 1 /\ Ahead("memoUncache", for) = 1
         /\ Ahead("userUncache", for) = 1 /\ Ahead("reply", for) = 1
         /\ Ahead("idle", for) = 0
<1>1. After[for] \in Nat /\ After[for] >= 2
  BY ServiceAssumption DEF After, Stages
<1> QED
  BY <1>1 DEF Ahead, InCall, Outside

LEMMA AfterStages ==
  /\ After["auth"] = 20 + 4 * MaxMemo /\ After["enforce"] = 12
  /\ After["role"] = 3 /\ After["found"] = 12
  /\ After["saved"] = 6 /\ After["linked"] = 2
BY DEF After

LEMMA AheadType ==
  ASSUME NEW step \in Steps, NEW for \in Stages
  PROVE  /\ Ahead(step, for) \in Nat
         /\ step # "idle" => Ahead(step, for) >= 1
BY AheadOf, ServiceAssumption DEF Steps

\* Between requests a worker has no list.
TodoInv == \A w \in Workers : /\ IsFiniteSet(todo[w])
                              /\ pc[w] = "idle" => todo[w] = {}

\* A step of w, which leaves fewer, and leaves the others where they are.
Advances(w) ==
  /\ \A v \in Workers \ {w} :
       pc'[v] = pc[v] /\ stage'[v] = stage[v] /\ todo'[v] = todo[v]
  /\ IsFiniteSet(todo'[w]) /\ (pc'[w] = "idle" => todo'[w] = {})
  /\ 4 * Cardinality(todo'[w]) + Ahead(pc'[w], stage'[w]) < StepsLeft(w)

LEMMA MovesOn ==
  ASSUME ControlOK, TodoInv, NEW w \in Workers, NEW step \in Steps \ {"idle"},
         NEW for \in Stages, Ahead(step, for) < Ahead(pc[w], stage[w]),
         pc' = [pc EXCEPT ![w] = step], stage' = [stage EXCEPT ![w] = for],
         todo' = todo
  PROVE  Advances(w)
<1>1. pc'[w] = step /\ stage'[w] = for /\ todo'[w] = todo[w]
  BY DEF ControlOK
<1>2. \A v \in Workers \ {w} :
        pc'[v] = pc[v] /\ stage'[v] = stage[v] /\ todo'[v] = todo[v]
  BY DEF ControlOK
<1>3. IsFiniteSet(todo[w])
  BY DEF TodoInv
<1>4. Cardinality(todo[w]) \in Nat
  BY <1>3, FS_CardinalityType
<1>5. Ahead(step, for) \in Nat /\ Ahead(pc[w], stage[w]) \in Nat
  BY AheadType DEF ControlOK
<1> QED
  BY <1>1, <1>2, <1>3, <1>4, <1>5 DEF Advances, StepsLeft

LEMMA GotoAdvances ==
  ASSUME ControlOK, TodoInv, NEW w \in Workers, NEW step \in Steps \ {"idle"},
         Goto(w, step), Ahead(step, stage[w]) < Ahead(pc[w], stage[w])
  PROVE  Advances(w)
<1>1. /\ stage' = [stage EXCEPT ![w] = stage[w]] /\ stage[w] \in Stages
      /\ pc' = [pc EXCEPT ![w] = step] /\ todo' = todo
  BY DEF Goto, ControlOK
<1> QED
  BY <1>1, MovesOn

LEMMA CallAdvances ==
  ASSUME ControlOK, TodoInv, NEW w \in Workers, NEW u, NEW for \in Stages,
         CallFindUser(w, u, for), 3 + After[for] < Ahead(pc[w], stage[w])
  PROVE  Advances(w)
<1>1. Ahead("userLoad", for) < Ahead(pc[w], stage[w])
  BY AheadOf
<1> QED
  BY <1>1, MovesOn DEF CallFindUser, Steps

LEMMA FinishAdvances ==
  ASSUME ControlOK, TodoInv, NEW w \in Workers, pc[w] # "idle", Finish(w)
  PROVE  Advances(w)
<1>1. pc'[w] = "idle" /\ stage'[w] = "auth" /\ todo'[w] = {}
  BY DEF ControlOK, Finish
<1>2. \A v \in Workers \ {w} :
        pc'[v] = pc[v] /\ stage'[v] = stage[v] /\ todo'[v] = todo[v]
  BY DEF ControlOK, Finish
<1>3. Cardinality(todo[w]) \in Nat
  BY FS_CardinalityType DEF TodoInv
<1>4. Ahead(pc[w], stage[w]) \in Nat /\ Ahead(pc[w], stage[w]) >= 1
  BY AheadType DEF ControlOK
<1>5. Ahead("idle", "auth") = 0
  BY AheadOf DEF Stages
<1> QED
  BY <1>1, <1>2, <1>3, <1>4, <1>5, FS_EmptySet DEF Advances, StepsLeft

\* The steps a list has left shrink with it.
LEMMA ComposeNextAdvances ==
  ASSUME ControlOK, NEW w \in Workers, NEW rows, IsFiniteSet(rows),
         TodoInv, ComposeNext(w, rows), pc[w] # "idle",
         4 * Cardinality(rows) + 11 < StepsLeft(w)
  PROVE  Advances(w)
<1>1. CASE rows = {} /\ Finish(w)
  BY <1>1, FinishAdvances
<1>2. ASSUME NEW row \in rows,
             todo' = [todo EXCEPT ![w] = rows \ {row}],
             pc' = [pc EXCEPT ![w] = "userLoad"],
             stage' = [stage EXCEPT ![w] = "found"]
      PROVE  Advances(w)
  <2>1. /\ pc'[w] = "userLoad" /\ stage'[w] = "found" /\ todo'[w] = rows \ {row}
        /\ \A v \in Workers \ {w} :
             pc'[v] = pc[v] /\ stage'[v] = stage[v] /\ todo'[v] = todo[v]
    BY <1>2 DEF ControlOK
  <2>2. /\ IsFiniteSet(rows \ {row}) /\ Cardinality(rows) \in Nat
        /\ Cardinality(rows \ {row}) = Cardinality(rows) - 1
    BY <1>2, FS_RemoveElement, FS_CardinalityType
  <2>3. Ahead("userLoad", "found") = 15
    BY AheadOf, AfterStages DEF Stages
  <2>4. StepsLeft(w) \in Nat
    <3>1. Cardinality(todo[w]) \in Nat
      BY FS_CardinalityType DEF TodoInv
    <3>2. Ahead(pc[w], stage[w]) \in Nat
      BY AheadType DEF ControlOK
    <3> QED
      BY <3>1, <3>2 DEF StepsLeft
  <2> QED
    BY <2>1, <2>2, <2>3, <2>4 DEF Advances
<1> QED
  BY <1>1, <1>2 DEF ComposeNext

\* No more rows than ids are selected.
LEMMA SelectedRows ==
  ASSUME NEW ids \in SUBSET MemoIds
  PROVE  LET rows == {memo[m] : m \in ids}
         IN  IsFiniteSet(rows) /\ Cardinality(rows) \in 0 .. MaxMemo
<1> DEFINE rows == {memo[m] : m \in ids}
           f == [m \in ids |-> memo[m]]
<1>1. IsFiniteSet(MemoIds) /\ Cardinality(MemoIds) = MaxMemo
  <2>1. /\ 1 \in Int /\ MaxMemo \in Int
        /\ IF 1 > MaxMemo THEN MaxMemo = 0 ELSE MaxMemo - 1 + 1 = MaxMemo
    BY ServiceAssumption
  <2> QED
    BY <2>1, FS_Interval DEF MemoIds
<1>2. IsFiniteSet(ids) /\ Cardinality(ids) <= MaxMemo
  BY <1>1, FS_Subset
<1>3. f \in Surjection(ids, rows)
  BY DEF Surjection
<1>4. IsFiniteSet(rows) /\ Cardinality(rows) <= Cardinality(ids)
  BY <1>2, <1>3, FS_Surjection
<1>5. Cardinality(rows) \in Nat /\ Cardinality(ids) \in Nat
  BY <1>2, <1>4, FS_CardinalityType
<1> QED
  BY <1>2, <1>4, <1>5, ServiceAssumption

LEMMA FirstStepAhead ==
  ASSUME NEW op \in OneMemo \cup {"list"}, NEW for \in Stages
  PROVE  /\ FirstStep(op) \in Steps \ {"idle"}
         /\ Ahead(FirstStep(op), for) < 21 + 4 * MaxMemo
<1>1. FirstStep(op) \in {"selectList", "organize", "memoLoad"}
  BY DEF FirstStep
<1> QED
  BY <1>1, AheadOf, ServiceAssumption DEF Steps

\* Where a FindUser call is, and what it still costs at least.
LEMMA FindingAhead ==
  ASSUME ControlOK, NEW w \in Workers, FindingUser(w)
  PROVE  /\ pc[w] # "idle" /\ stage[w] \in Stages
         /\ Ahead(pc[w], stage[w]) \in Nat
         /\ Ahead(pc[w], stage[w]) >= 1 + After[stage[w]]
<1>1. stage[w] \in Stages
  BY DEF ControlOK
<1> QED
  BY <1>1, AheadOf DEF FindingUser

LEMMA FoundUserAdvances ==
  ASSUME IInv, TodoInv, NEW w \in Workers, FindingUser(w), FoundUser(w)
  PROVE  Advances(w)
<1>0. ControlOK
  BY TypeSplits DEF IInv
<1> DEFINE now == Ahead(pc[w], stage[w])
<1>a. /\ pc[w] # "idle" /\ stage[w] \in Stages
      /\ now \in Nat /\ now >= 1 + After[stage[w]]
  BY <1>0, FindingAhead
<1> HIDE DEF now
<1>1. CASE Finish(w)
  BY <1>0, <1>a, <1>1, FinishAdvances
<1>2. ASSUME stage[w] \in {"auth", "enforce"}, Goto(w, "createMemo")
      PROVE  Advances(w)
  <2>1. Ahead("createMemo", stage[w]) < now
    BY <1>a, <1>2, AheadOf, AfterStages, ServiceAssumption
  <2> QED
    BY <1>0, <1>2, <2>1, GotoAdvances DEF now, Steps
<1>3. ASSUME stage[w] = "auth", NEW for \in {"enforce", "role"},
             CallFindUser(w, request[w].user, for)
      PROVE  Advances(w)
  <2>1. 3 + After[for] < now /\ for \in Stages
    BY <1>a, <1>3, AfterStages, ServiceAssumption DEF Stages
  <2> QED
    BY <1>0, <1>3, <2>1, CallAdvances DEF now
<1>4. ASSUME stage[w] = "auth", request[w].op \in OneMemo \cup {"list"},
             Goto(w, FirstStep(request[w].op))
      PROVE  Advances(w)
  <2>1. /\ FirstStep(request[w].op) \in Steps \ {"idle"}
        /\ Ahead(FirstStep(request[w].op), stage[w]) < now
    <3>1. now >= 21 + 4 * MaxMemo
      BY <1>a, <1>4, AfterStages, ServiceAssumption
    <3>2. /\ FirstStep(request[w].op) \in Steps \ {"idle"}
          /\ Ahead(FirstStep(request[w].op), stage[w]) < 21 + 4 * MaxMemo
      BY <1>a, <1>4, FirstStepAhead
    <3>3. Ahead(FirstStep(request[w].op), stage[w]) \in Nat
      BY <1>a, <3>2, AheadType
    <3> QED
      BY <1>a, <3>1, <3>2, <3>3, ServiceAssumption
  <2> QED
    BY <1>0, <1>4, <2>1, GotoAdvances DEF now
<1>5. ASSUME stage[w] = "role", Goto(w, "deleteUser")
      PROVE  Advances(w)
  <2>1. Ahead("deleteUser", stage[w]) < now
    BY <1>a, <1>5, AheadOf, AfterStages
  <2> QED
    BY <1>0, <1>5, <2>1, GotoAdvances DEF now, Steps
<1>6. ASSUME stage[w] \in {"found", "saved", "linked"}, Goto(w, "compose")
      PROVE  Advances(w)
  <2>1. Ahead("compose", stage[w]) < now
    BY <1>a, AheadOf
  <2> QED
    BY <1>0, <1>6, <2>1, GotoAdvances DEF now, Steps
<1> QED
  BY <1>1, <1>2, <1>3, <1>4, <1>5, <1>6 DEF FoundUser, OneMemo

LEMMA NoUserAdvances ==
  ASSUME IInv, TodoInv, NEW w \in Workers, FindingUser(w), NoUser(w)
  PROVE  Advances(w)
<1>0. ControlOK
  BY TypeSplits DEF IInv
<1>a. /\ pc[w] # "idle" /\ stage[w] \in Stages
      /\ Ahead(pc[w], stage[w]) \in Nat
      /\ Ahead(pc[w], stage[w]) >= 1 + After[stage[w]]
  BY <1>0, FindingAhead
<1>1. CASE Finish(w)
  BY <1>0, <1>a, <1>1, FinishAdvances
<1>2. ASSUME stage[w] = "auth", request[w].op \in Public,
             Goto(w, FirstStep(request[w].op))
      PROVE  Advances(w)
  <2>1. request[w].op \in OneMemo \cup {"list"}
    BY <1>2 DEF Public, OneMemo
  <2>2. Ahead(pc[w], stage[w]) >= 21 + 4 * MaxMemo
    BY <1>a, <1>2, AfterStages, ServiceAssumption
  <2>3. /\ FirstStep(request[w].op) \in Steps \ {"idle"}
        /\ Ahead(FirstStep(request[w].op), stage[w]) < 21 + 4 * MaxMemo
    BY <1>a, <2>1, FirstStepAhead
  <2>4. Ahead(FirstStep(request[w].op), stage[w]) \in Nat
    BY <1>a, <2>3, AheadType
  <2>5. Ahead(FirstStep(request[w].op), stage[w]) < Ahead(pc[w], stage[w])
    BY <1>a, <2>2, <2>3, <2>4, ServiceAssumption
  <2> QED
    BY <1>0, <1>2, <2>3, <2>5, GotoAdvances
<1> QED
  BY <1>1, <1>2 DEF NoUser

LEMMA SavedAdvances ==
  ASSUME IInv, TodoInv, NEW w \in Workers, NEW row, Saved(w, row),
         pc[w] \in {"createMemo", "patchMemo"}
  PROVE  Advances(w)
<1>0. ControlOK
  BY TypeSplits DEF IInv
<1>1. Ahead("memoStore", "saved") = 10 /\ Ahead(pc[w], stage[w]) = 11
  BY <1>0, AheadOf, AfterStages DEF Stages, ControlOK
<1>2. /\ "memoStore" \in Steps \ {"idle"} /\ "saved" \in Stages
      /\ Ahead("memoStore", "saved") < Ahead(pc[w], stage[w])
  BY <1>1 DEF Steps, Stages
<1>3. /\ pc' = [pc EXCEPT ![w] = "memoStore"]
      /\ stage' = [stage EXCEPT ![w] = "saved"]
      /\ todo' = todo
  BY DEF Saved
<1> QED
  BY <1>0, <1>2, <1>3, MovesOn

LEMMA MemoAdvances ==
  ASSUME IInv, TodoInv, NEW w \in Workers,
         MemoLoad(w) \/ MemoSelect(w) \/ MemoStore(w)
  PROVE  Advances(w)
<1>0. ControlOK /\ Knows(w)
  BY TypeSplits DEF IInv, HandlersKnow
<1>1. ASSUME MemoLoad(w)
      PROVE  Advances(w)
  <2>1. /\ Ahead(pc[w], stage[w]) = 18 /\ 3 + After["found"] = 15
        /\ Ahead("memoSelect", stage[w]) = 17 /\ "found" \in Stages
    BY <1>0, <1>1, AheadOf, AfterStages DEF ControlOK, MemoLoad, Stages
  <2>2. CASE Goto(w, "memoSelect")
    BY <1>0, <2>1, <2>2, GotoAdvances DEF Steps
  <2>3. ASSUME NEW u, CallFindUser(w, u, "found")
        PROVE  Advances(w)
    BY <1>0, <2>1, <2>3, CallAdvances
  <2> QED
    BY <1>1, <2>2, <2>3 DEF MemoLoad
<1>2. ASSUME MemoSelect(w)
      PROVE  Advances(w)
  <2>1. /\ Ahead(pc[w], stage[w]) = 17 /\ pc[w] # "idle"
        /\ Ahead("memoStore", "found") = 16 /\ "found" \in Stages
    BY <1>0, <1>2, AheadOf, AfterStages DEF ControlOK, MemoSelect, Stages
  <2>2. CASE Finish(w)
    BY <1>0, <2>1, <2>2, FinishAdvances
  <2>3. CASE /\ pc' = [pc EXCEPT ![w] = "memoStore"]
             /\ stage' = [stage EXCEPT ![w] = "found"]
             /\ todo' = todo
    <3>1. /\ "memoStore" \in Steps \ {"idle"} /\ "found" \in Stages
          /\ Ahead("memoStore", "found") < Ahead(pc[w], stage[w])
      BY <2>1 DEF Steps
    <3> QED
      BY <1>0, <2>3, <3>1, MovesOn
  <2> QED
    BY <1>2, <2>2, <2>3 DEF MemoSelect
<1>3. ASSUME MemoStore(w)
      PROVE  Advances(w)
  <2>1. /\ stage[w] \in Stages /\ After[stage[w]] \in Nat
        /\ Ahead(pc[w], stage[w]) = 4 + After[stage[w]]
    BY <1>0, <1>3, AheadOf DEF ControlOK, MemoStore
  <2> QED
    BY <1>0, <1>3, <2>1, CallAdvances DEF MemoStore
<1> QED
  BY <1>1, <1>2, <1>3

LEMMA SelectListAdvances ==
  ASSUME IInv, TodoInv, NEW w \in Workers, SelectList(w)
  PROVE  Advances(w)
<1>0. ControlOK /\ pc[w] = "selectList" /\ stage[w] \in Stages
  BY TypeSplits DEF IInv, SelectList, ControlOK
<1>1. PICK ids \in SUBSET {m \in MemoIds : memo[m] # NoRow} :
        ComposeNext(w, {memo[m] : m \in ids})
  BY DEF SelectList
<1> DEFINE rows == {memo[m] : m \in ids}
<1>2. IsFiniteSet(rows) /\ Cardinality(rows) \in 0 .. MaxMemo
  BY SelectedRows
<1>3. ComposeNext(w, rows)
  BY <1>1
<1> HIDE DEF rows
<1>4. Cardinality(todo[w]) \in Nat
  BY FS_CardinalityType DEF TodoInv
<1>5. Ahead(pc[w], stage[w]) = 12 + 4 * MaxMemo
  BY <1>0, AheadOf
<1>6. 4 * Cardinality(rows) + 11 < StepsLeft(w)
  BY <1>2, <1>4, <1>5, ServiceAssumption DEF StepsLeft
<1> QED
  BY <1>0, <1>2, <1>3, <1>6, ComposeNextAdvances

LEMMA ComposeAdvances ==
  ASSUME IInv, TodoInv, NEW w \in Workers, Compose(w)
  PROVE  Advances(w)
<1>0. /\ ControlOK /\ pc[w] = "compose" /\ stage[w] \in Stages
      /\ Ahead(pc[w], stage[w]) = After[stage[w]]
  BY TypeSplits, AheadOf DEF IInv, Compose, ControlOK
<1>1. CASE Finish(w)
  BY <1>0, <1>1, FinishAdvances
<1>2. ASSUME stage[w] \in {"found", "linked"}, Goto(w, "reply")
      PROVE  Advances(w)
  <2>1. Ahead("reply", stage[w]) < Ahead(pc[w], stage[w])
    BY <1>0, AheadOf
  <2> QED
    BY <1>0, <1>2, <2>1, GotoAdvances DEF Steps
<1>3. ASSUME stage[w] = "found", request[w].op \in DOMAIN WriteStep,
             Goto(w, WriteStep[request[w].op])
      PROVE  Advances(w)
  <2> DEFINE s == WriteStep[request[w].op]
  <2>1. s \in {"patchMemo", "deleteMemo", "unlink"}
    BY <1>3 DEF WriteStep
  <2> HIDE DEF s
  <2>2. s \in Steps \ {"idle"} /\ Ahead(s, stage[w]) < Ahead(pc[w], stage[w])
    BY <1>0, <1>3, <2>1, AheadOf, AfterStages DEF Steps
  <2> QED
    BY <1>0, <1>3, <2>2, GotoAdvances DEF s
<1>4. ASSUME stage[w] = "saved", CallFindUser(w, held[w].creator, "linked")
      PROVE  Advances(w)
  BY <1>0, <1>4, AfterStages, CallAdvances DEF Stages
<1>5. ASSUME stage[w] = "found", ComposeNext(w, todo[w])
      PROVE  Advances(w)
  <2>1. IsFiniteSet(todo[w]) /\ Cardinality(todo[w]) \in Nat
    BY FS_CardinalityType DEF TodoInv
  <2>2. 4 * Cardinality(todo[w]) + 11 < StepsLeft(w)
    BY <1>0, <1>5, <2>1, AfterStages DEF StepsLeft
  <2> QED
    BY <1>0, <1>5, <2>1, <2>2, ComposeNextAdvances
<1> QED
  BY <1>1, <1>2, <1>3, <1>4, <1>5 DEF Compose

LEMMA DeleteAdvances ==
  ASSUME IInv, TodoInv, NEW w \in Workers, DeleteMemo(w) \/ DeleteUser(w)
  PROVE  Advances(w)
<1>0. /\ ControlOK /\ pc[w] \in {"deleteMemo", "deleteUser"}
      /\ stage[w] \in Stages
  BY TypeSplits DEF IInv, DeleteMemo, DeleteUser, ControlOK
<1>1. CASE Finish(w)
  BY <1>0, <1>1, FinishAdvances
<1>2. ASSUME NEW step \in {"memoUncache", "userUncache"}, Goto(w, step)
      PROVE  Advances(w)
  <2>1. Ahead(step, stage[w]) < Ahead(pc[w], stage[w])
    BY <1>0, AheadOf
  <2> QED
    BY <1>0, <1>2, <2>1, GotoAdvances DEF Steps
<1> QED
  BY <1>1, <1>2 DEF DeleteMemo, DeleteUser

LEMMA HandleAdvances ==
  ASSUME IInv, TodoInv, NEW w \in Workers, Handle(w) \/ Fail(w)
  PROVE  Advances(w)
<1>0. ControlOK
  BY TypeSplits DEF IInv
<1>1. CASE /\ pc[w] # "idle" /\ Finish(w)
  BY <1>0, <1>1, FinishAdvances
<1>2. CASE UserLoad(w) \/ UserSelect(w) \/ UserStore(w)
  <2>1. FindingUser(w) /\ stage[w] \in Stages
    BY <1>0, <1>2 DEF FindingUser, UserLoad, UserSelect, UserStore, ControlOK
  <2>2. CASE FoundUser(w)
    BY <2>1, <2>2, FoundUserAdvances
  <2>3. CASE NoUser(w)
    BY <2>1, <2>3, NoUserAdvances
  <2>4. ASSUME pc[w] = "userLoad", Goto(w, "userSelect")
        PROVE  Advances(w)
    BY <1>0, <2>1, <2>4, AheadOf, GotoAdvances DEF Steps
  <2>5. ASSUME pc[w] = "userSelect", Goto(w, "userStore")
        PROVE  Advances(w)
    BY <1>0, <2>1, <2>5, AheadOf, GotoAdvances DEF Steps
  <2> QED
    BY <1>2, <2>2, <2>3, <2>4, <2>5 DEF UserLoad, UserSelect, UserStore
<1>3. CASE pc[w] = "userSelect" /\ NoUser(w)
  BY <1>3, NoUserAdvances DEF FindingUser
<1>4. CASE Organize(w)
  <2>1. /\ stage[w] \in Stages /\ Ahead(pc[w], stage[w]) = 19
        /\ Ahead("memoLoad", stage[w]) = 18
    BY <1>0, <1>4, AheadOf DEF Organize, ControlOK
  <2> QED
    BY <1>0, <1>4, <2>1, GotoAdvances DEF Organize, Steps
<1>5. CASE CreateMemo(w) \/ PatchMemo(w)
  BY <1>5, SavedAdvances DEF CreateMemo, PatchMemo
<1>6. CASE \/ CreateFull(w) \/ PatchMissing(w) \/ Unlink(w)
           \/ MemoUncache(w) \/ UserUncache(w) \/ Reply(w)
  BY <1>1, <1>6 DEF CreateFull, PatchMissing, Unlink, MemoUncache, UserUncache,
     Reply
<1> QED
  BY <1>1, <1>2, <1>3, <1>4, <1>5, <1>6, MemoAdvances, SelectListAdvances,
     ComposeAdvances, DeleteAdvances
     DEF Handle, Fail

\* How much a new request is given.
LEMMA ReceiveBound ==
  ASSUME IInv, TodoInv, NEW w \in Workers, Receive(w)
  PROVE  /\ \A v \in Workers \ {w} :
              pc'[v] = pc[v] /\ stage'[v] = stage[v] /\ todo'[v] = todo[v]
         /\ pc[w] = "idle" /\ pc'[w] # "idle" /\ todo'[w] = {}
         /\ Ahead(pc'[w], stage'[w]) \in 0 .. 23 + 4 * MaxMemo
<1>0. ControlOK /\ pc[w] = "idle" /\ todo[w] = {} /\ stage[w] \in Stages
  BY TypeSplits DEF IInv, TodoInv, Receive, ControlOK
<1>1. PICK r \in Requests :
        IF r.user = Anonymous
        THEN /\ pc' = [pc EXCEPT ![w] = FirstStep(r.op)]
             /\ UNCHANGED <<stage, who, todo>>
        ELSE CallFindUser(w, r.user, "auth")
  BY DEF Receive
<1>2. CASE r.user = Anonymous
  <2>1. r.op \in OneMemo \cup {"list"}
    BY <1>2, RequestFields, ServiceAssumption DEF Public, OneMemo
  <2>2. /\ FirstStep(r.op) \in Steps \ {"idle"}
        /\ Ahead(FirstStep(r.op), stage[w]) < 21 + 4 * MaxMemo
    BY <1>0, <2>1, FirstStepAhead
  <2>3. Ahead(FirstStep(r.op), stage[w]) \in Nat
    BY <1>0, <2>2, AheadType
  <2>4. Ahead(FirstStep(r.op), stage[w]) \in 0 .. 23 + 4 * MaxMemo
    BY <2>2, <2>3, ServiceAssumption
  <2> QED
    BY <1>0, <1>1, <1>2, <2>2, <2>4 DEF ControlOK
<1>3. CASE CallFindUser(w, r.user, "auth")
  <2>1. Ahead("userLoad", "auth") = 23 + 4 * MaxMemo
    BY AheadOf, AfterStages, ServiceAssumption DEF Stages
  <2> QED
    BY <1>0, <1>3, <2>1, ServiceAssumption DEF CallFindUser, ControlOK
<1> QED
  BY <1>1, <1>2, <1>3

LEMMA StepTodo ==
  ASSUME IInv, TodoInv, Next
  PROVE  TodoInv'
<1>1. ASSUME NEW w \in Workers, Handle(w) \/ Fail(w)
      PROVE  TodoInv'
  BY <1>1, HandleAdvances DEF Advances, TodoInv
<1>2. ASSUME NEW w \in Workers, Receive(w)
      PROVE  TodoInv'
  BY <1>2, ReceiveBound, FS_EmptySet DEF TodoInv
<1>3. CASE Restart
  BY <1>3, FS_EmptySet DEF Restart, TodoInv
<1> QED
  BY <1>1, <1>2, <1>3 DEF Next

LEMMA TodoKept == Spec => []TodoInv
<1>1. Init => TodoInv
  BY FS_EmptySet DEF Init, TodoInv
<1>2. TodoInv /\ UNCHANGED vars => TodoInv'
  BY DEF TodoInv, vars, control
<1>3. IInv /\ TodoInv /\ [Next]_vars => TodoInv'
  BY <1>2, StepTodo
<1> QED
  BY <1>1, <1>3, Invariance, PTL DEF Spec

\* Whatever the other handlers do meanwhile, no request takes more than
\* 23 + 4 * MaxMemo steps of the model, and every step of its handler leaves fewer:
\* handlers wait for nobody and no handler goes round in a circle.
THEOREM HandlersBounded == Spec => HandlersAdvance
<1> DEFINE Bounded(w) ==
      /\ pc[w] = "idle" => StepsLeft(w)' <= 23 + 4 * MaxMemo
      /\ pc[w] # "idle" => StepsLeft(w)' <= StepsLeft(w)
      /\ Handle(w) \/ Fail(w) => StepsLeft(w)' < StepsLeft(w)
<1>1. ASSUME NEW v \in Workers
      PROVE  StepsLeft(v)' = 4 * Cardinality(todo'[v]) + Ahead(pc'[v], stage'[v])
  BY DEF StepsLeft, Ahead, After, InCall, Outside
<1>2. ASSUME IInv, TodoInv, NEW v \in Workers
      PROVE  /\ StepsLeft(v) \in Nat
             /\ pc[v] # "idle" => StepsLeft(v) >= 1
             /\ pc[v] = "idle" => StepsLeft(v) = 0
  <2>0. ControlOK
    BY <1>2, TypeSplits DEF IInv
  <2>1. Cardinality(todo[v]) \in Nat
    BY <1>2, FS_CardinalityType DEF TodoInv
  <2>2. /\ Ahead(pc[v], stage[v]) \in Nat
        /\ pc[v] # "idle" => Ahead(pc[v], stage[v]) >= 1
        /\ pc[v] = "idle" => Ahead(pc[v], stage[v]) = 0
    BY <2>0, AheadType, AheadOf DEF ControlOK
  <2>3. pc[v] = "idle" => Cardinality(todo[v]) = 0
    BY <1>2, FS_EmptySet DEF TodoInv
  <2> QED
    BY <2>1, <2>2, <2>3 DEF StepsLeft
<1>3. ASSUME IInv, IInv', TodoInv, TodoInv', NEW v \in Workers
      PROVE  StepsLeft(v)' \in Nat
  <2>1. Cardinality(todo'[v]) \in Nat
    BY <1>3, FS_CardinalityType DEF TodoInv
  <2>2. Ahead(pc'[v], stage'[v]) \in Nat
    BY <1>3, AheadType DEF IInv, TypeOK
  <2> QED
    BY <1>1, <2>1, <2>2
<1>4. ASSUME IInv, TodoInv, NEW v \in Workers, Handle(v) \/ Fail(v)
      PROVE  StepsLeft(v)' < StepsLeft(v)
  BY <1>1, <1>4, HandleAdvances DEF Advances
<1>5. ASSUME IInv, TodoInv, NEW v \in Workers,
             pc'[v] = pc[v], stage'[v] = stage[v], todo'[v] = todo[v]
      PROVE  StepsLeft(v)' = StepsLeft(v)
  BY <1>1, <1>5 DEF StepsLeft
<1>6. ASSUME IInv, TodoInv, NEW v \in Workers, Receive(v)
      PROVE  pc[v] = "idle" /\ StepsLeft(v)' <= 23 + 4 * MaxMemo
  <2>1. /\ pc[v] = "idle" /\ todo'[v] = {}
        /\ Ahead(pc'[v], stage'[v]) \in 0 .. 23 + 4 * MaxMemo
    BY <1>6, ReceiveBound
  <2>2. Cardinality(todo'[v]) = 0
    BY <2>1, FS_EmptySet
  <2>3. StepsLeft(v)' = 0 + Ahead(pc'[v], stage'[v])
    BY <1>1, <2>2
  <2> QED
    BY <2>1, <2>3, ServiceAssumption
<1>7. ASSUME IInv, TodoInv, NEW v \in Workers, Restart
      PROVE  StepsLeft(v)' = 0
  <2>1. pc'[v] = "idle" /\ stage'[v] = "auth" /\ todo'[v] = {}
    BY <1>7 DEF Restart
  <2>2. /\ Cardinality(todo'[v]) = 0
        /\ Ahead(pc'[v], stage'[v]) = 0
    BY <2>1, FS_EmptySet, AheadOf DEF Stages
  <2> QED
    BY <1>1, <2>2
\* A step of another worker leaves this one where it is.
<1>8. ASSUME IInv, TodoInv, NEW w \in Workers, NEW v \in Workers \ {w},
             Receive(w) \/ Handle(w) \/ Fail(w)
      PROVE  StepsLeft(v)' = StepsLeft(v)
  <2>1. pc'[v] = pc[v] /\ stage'[v] = stage[v] /\ todo'[v] = todo[v]
    BY <1>8, ReceiveBound, HandleAdvances DEF Advances
  <2> QED
    BY <1>5, <1>8, <2>1
<1>9. ASSUME IInv, TodoInv, Next, NEW v \in Workers
      PROVE  Bounded(v)
  <2>1. /\ StepsLeft(v) \in Nat /\ StepsLeft(v)' \in Nat
        /\ pc[v] = "idle" => StepsLeft(v) = 0
    BY <1>2, <1>3, <1>9, StepInv, StepTodo
  <2>2. \/ StepsLeft(v)' < StepsLeft(v)
        \/ StepsLeft(v)' = StepsLeft(v)
        \/ pc[v] = "idle" /\ StepsLeft(v)' <= 23 + 4 * MaxMemo
        \/ StepsLeft(v)' = 0
    BY <1>4, <1>6, <1>7, <1>8, <1>9 DEF Next
  <2>3. Handle(v) \/ Fail(v) => StepsLeft(v)' < StepsLeft(v)
    BY <1>4, <1>9
  <2> QED
    BY <2>1, <2>2, <2>3, ServiceAssumption
<1> HIDE DEF Bounded
<1>10. IInv /\ TodoInv /\ [Next]_vars => [\A w \in Workers : Bounded(w)]_vars
  BY <1>9
<1>11. Spec => [][\A w \in Workers : Bounded(w)]_vars
  BY <1>10, Invariance, TodoKept, PTL DEF Spec
<1> QED
  BY <1>11 DEF HandlersAdvance, Bounded
=============================================================================
