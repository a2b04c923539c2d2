-------------------------- MODULE Shortcuts_proofs --------------------------
(***************************************************************************)
(* Proofs about Shortcuts for any number of users, shortcuts and workers.  *)
(***************************************************************************)
EXTENDS Shortcuts, TLAPS

LEMMA RequestFields ==
  ASSUME NEW r \in Requests
  PROVE  /\ r.op \in {"create", "patch", "delete", "get", "deleteUser", "vacuum"}
         /\ r.op \in {"create", "patch", "delete"} => r.user \in Users
         /\ r.op \in {"patch", "delete", "get"} => r.id \in Ids
         /\ r.op \in {"create", "patch"} => r.body \in Bodies
         /\ r.op = "deleteUser" => r.target \in Users
  BY DEF Requests

LEMMA RowFields ==
  /\ \A r \in Row : r.id \in Ids /\ r.creator \in Users /\ r.body \in Bodies
  /\ \A i \in Ids, u \in Users, b \in Bodies :
       LET r == [id |-> i, creator |-> u, body |-> b]
       IN  r \in Row /\ r.id = i /\ r.creator = u /\ r.body = b
  /\ NoRow \notin Row
  BY ShortcutsAssumption DEF Row

-----------------------------------------------------------------------------
(***************************************************************************)
(* A step of worker w leaves the others where they are.                    *)
(***************************************************************************)
DataOK ==
  /\ user \subseteq Users
  /\ shortcut \in [Ids -> Row \cup {NoRow}]
  /\ last \in 0 .. MaxShortcut
  /\ cache \in [Ids -> Row \cup {NoRow}]
  /\ raced \subseteq Ids

ControlOK ==
  /\ pc \in [Workers -> Steps]
  /\ held \in [Workers -> Row \cup {NoRow}]
  /\ request \in [Workers -> Requests \cup {NoRequest}]

LEMMA TypeSplits == TypeOK <=> DataOK /\ ControlOK
BY DEF TypeOK, DataOK, ControlOK

OnlyMoves(w) ==
  \A v \in Workers \ {w} :
    pc'[v] = pc[v] /\ held'[v] = held[v] /\ request'[v] = request[v]

LEMMA GotoEffect ==
  ASSUME ControlOK, NEW w \in Workers, NEW s \in Steps, Goto(w, s)
  PROVE  /\ ControlOK' /\ OnlyMoves(w) /\ pc'[w] = s
         /\ held'[w] = held[w] /\ request'[w] = request[w]
  BY DEF ControlOK, OnlyMoves, Goto

LEMMA TakeEffect ==
  ASSUME ControlOK, NEW w \in Workers, NEW s \in Steps, NEW row \in Row,
         Take(w, row, s)
  PROVE  /\ ControlOK' /\ OnlyMoves(w) /\ pc'[w] = s
         /\ held'[w] = row /\ request'[w] = request[w]
  BY DEF ControlOK, OnlyMoves, Take

LEMMA FinishEffect ==
  ASSUME ControlOK, NEW w \in Workers, Finish(w)
  PROVE  /\ ControlOK' /\ OnlyMoves(w)
         /\ pc'[w] = "idle" /\ held'[w] = NoRow
  BY DEF ControlOK, OnlyMoves, Finish, Steps

-----------------------------------------------------------------------------
(***************************************************************************)
(* How the table may evolve: an id given out keeps its creator or loses    *)
(* its row for good, accounts only go, and a row that changes is written   *)
(* by a worker who counts as racing, or goes with its creator.             *)
(***************************************************************************)
Evolves ==
  /\ last <= last'
  /\ user' \subseteq user
  /\ raced \subseteq raced'
  /\ \A s \in Ids : s <= last /\ shortcut'[s] # NoRow =>
       shortcut[s] # NoRow /\ shortcut'[s].creator = shortcut[s].creator

\* Another worker than w that is about to store a row of this id.
StoredByOther(w, id) == \E v \in Workers \ {w} : Storing(v, id)

Announced(w) ==
  \A s \in Ids : s <= last /\ shortcut'[s] # shortcut[s] =>
    \/ shortcut'[s] = NoRow /\ shortcut[s].creator \notin user'
    \/ StoredByOther(w, s) => s \in raced'

IssuedNext(row) ==
  /\ row.id <= last'
  /\ shortcut'[row.id] # NoRow => shortcut'[row.id].creator = row.creator

AgreesNext(row) ==
  \/ row = shortcut'[row.id]
  \/ shortcut'[row.id] = NoRow /\ row.creator \notin user'

LEMMA IssuedStays ==
  ASSUME DataOK, DataOK', Evolves, NEW row \in Row, Issued(row)
  PROVE  IssuedNext(row)
<1>1. row.id \in Ids /\ last \in Nat /\ last' \in Nat
  BY RowFields, ShortcutsAssumption DEF DataOK
<1>2. row.id <= last /\ row.id <= last'
  BY <1>1 DEF Issued, Evolves, Ids
<1> QED
  BY <1>1, <1>2 DEF Issued, IssuedNext, Evolves

\* A row that agrees goes on to agree unless a step writes its id other than
\* with the account of its creator.
LEMMA AgreesStays ==
  ASSUME DataOK, RowsKeyed, Evolves, NEW row \in Row, Issued(row), Agrees(row),
         \/ shortcut'[row.id] = shortcut[row.id]
         \/ /\ shortcut'[row.id] = NoRow
            /\ shortcut[row.id].creator \notin user'
  PROVE  AgreesNext(row)
<1>1. row.id \in Ids /\ row # NoRow
  BY RowFields
<1>2. CASE row = shortcut[row.id]
  BY <1>1, <1>2 DEF AgreesNext
<1>3. CASE shortcut[row.id] = NoRow /\ row.creator \notin user
  BY <1>1, <1>3 DEF AgreesNext, Evolves, Issued
<1> QED
  BY <1>2, <1>3 DEF Agrees

(***************************************************************************)
(* A step of one worker keeps the invariant if the table evolves, and if   *)
(* the rows it changes and its own control state are in order.             *)
(***************************************************************************)
LEMMA WorkerStep ==
  ASSUME IInv, NEW w \in Workers, OnlyMoves(w), ControlOK', DataOK', Evolves,
         Announced(w), Knows(w)', FreshInHand(w)',
         held'[w] # NoRow => IssuedNext(held'[w]),
         \A s \in Ids : shortcut'[s] # NoRow /\ shortcut'[s] # shortcut[s] =>
           shortcut'[s].id = s /\ IssuedNext(shortcut'[s]),
         \* the cache changes at one id only, to a row that agrees, and an
         \* id that this worker was settling or writes is dealt with
         \A s \in Ids : cache'[s] # NoRow =>
           \/ cache'[s] = cache[s]
           \/ /\ cache'[s].id = s /\ IssuedNext(cache'[s])
              /\ s \notin raced' => AgreesNext(cache'[s]),
         \A s \in Ids : cache'[s] # NoRow /\ cache'[s] = cache[s] /\ s \notin raced' =>
           \/ /\ ~ (Storing(w, s) \/ (pc[w] = "uncache" /\ request[w].id = s))
              /\ \/ shortcut'[s] = shortcut[s]
                 \/ shortcut'[s] = NoRow /\ shortcut[s].creator \notin user'
           \/ Storing(w, s)' \/ (pc'[w] = "uncache" /\ request'[w].id = s)
           \/ AgreesNext(cache'[s])
  PROVE  IInv'
<1> USE DEF IInv
<1>0. DataOK /\ ControlOK
  BY TypeSplits
<1>1. TypeOK'
  BY DEF TypeOK, DataOK, ControlOK
<1>2. RowsKeyed'
  <2> SUFFICES ASSUME NEW s \in Ids, shortcut'[s] # NoRow
               PROVE  shortcut'[s].id = s /\ IssuedNext(shortcut'[s])
    BY DEF RowsKeyed, Issued, IssuedNext
  <2>1. CASE shortcut'[s] = shortcut[s]
    <3>1. shortcut[s] \in Row /\ shortcut[s].id = s /\ Issued(shortcut[s])
      BY <1>0, <2>1 DEF RowsKeyed, DataOK
    <3> QED
      BY <1>0, <2>1, <3>1, IssuedStays
  <2> QED
    BY <2>1
<1>3. CacheKeyed'
  <2> SUFFICES ASSUME NEW s \in Ids, cache'[s] # NoRow
               PROVE  cache'[s].id = s /\ IssuedNext(cache'[s])
    BY DEF CacheKeyed, Issued, IssuedNext
  <2>1. CASE cache'[s] = cache[s]
    <3>1. cache[s] \in Row /\ cache[s].id = s /\ Issued(cache[s])
      BY <1>0, <2>1 DEF CacheKeyed, DataOK
    <3> QED
      BY <1>0, <2>1, <3>1, IssuedStays
  <2> QED
    BY <2>1
<1>4. HeldIssued'
  <2> SUFFICES ASSUME NEW v \in Workers, held'[v] # NoRow, v # w
               PROVE  IssuedNext(held'[v])
    BY DEF HeldIssued, Issued, IssuedNext
  <2>1. held'[v] = held[v] /\ held[v] \in Row /\ Issued(held[v])
    BY <1>0 DEF OnlyMoves, HeldIssued, ControlOK
  <2> QED
    BY <1>0, <2>1, IssuedStays
<1>5. ASSUME NEW v \in Workers
      PROVE  Knows(v)' /\ FreshInHand(v)'
  <2>1. CASE v # w
    <3>1. pc'[v] = pc[v] /\ held'[v] = held[v] /\ request'[v] = request[v]
      BY <2>1 DEF OnlyMoves
    <3>2. Knows(v)'
      BY <3>1 DEF Knows, Serving, Holding
    <3>3. ASSUME pc[v] \in {"fill", "save"}, held[v].id \notin raced'
          PROVE  AgreesNext(held[v])
      <4>1. held[v] \in Row /\ Issued(held[v])
        BY <1>0, <3>3 DEF Knows, HeldIssued, Holding, ControlOK
      <4>2. /\ held[v].id \in Ids /\ held[v].id <= last
            /\ held[v].id \notin raced
        BY <3>3, <4>1, RowFields DEF Evolves, Issued
      <4>3. Storing(v, held[v].id) /\ StoredByOther(w, held[v].id)
        BY <2>1, <3>3 DEF Storing, StoredByOther
      <4>4. \/ shortcut'[held[v].id] = shortcut[held[v].id]
            \/ /\ shortcut'[held[v].id] = NoRow
               /\ shortcut[held[v].id].creator \notin user'
        BY <3>3, <4>2, <4>3 DEF Announced
      <4> QED
        BY <1>0, <3>3, <4>1, <4>2, <4>4, AgreesStays DEF FreshInHand
    <3> QED
      BY <3>1, <3>2, <3>3 DEF FreshInHand, Agrees, AgreesNext
  <2> QED
    BY <2>1
<1>6. StaleOnlyAfterRace'
  <2> SUFFICES ASSUME NEW s \in Ids, s \notin raced', cache'[s] # NoRow,
                      ~ Settling(s)'
               PROVE  AgreesNext(cache'[s])
    BY DEF StaleOnlyAfterRace, Agrees, AgreesNext
  <2>1. CASE cache'[s] # cache[s]
    BY <2>1
  <2>2. CASE cache'[s] = cache[s]
    <3>1. ~ Storing(w, s)' /\ ~ (pc'[w] = "uncache" /\ request'[w].id = s)
      BY DEF Settling
    <3>2. SUFFICES ASSUME
            ~ (Storing(w, s) \/ (pc[w] = "uncache" /\ request[w].id = s)),
            \/ shortcut'[s] = shortcut[s]
            \/ shortcut'[s] = NoRow /\ shortcut[s].creator \notin user'
          PROVE AgreesNext(cache'[s])
      BY <2>2, <3>1
    <3>3. ~ Settling(s)
      <4> SUFFICES ASSUME NEW v \in Workers
                   PROVE  ~ (Storing(v, s) \/ (pc[v] = "uncache" /\ request[v].id = s))
        BY DEF Settling
      <4>1. CASE v = w
        BY <3>2, <4>1
      <4>2. CASE v # w
        BY <4>2 DEF Settling, Storing, OnlyMoves
      <4> QED
        BY <4>1, <4>2
    <3>4. cache[s] \in Row /\ cache[s].id = s /\ Issued(cache[s])
      BY <1>0, <2>2 DEF CacheKeyed, DataOK
    <3>5. Agrees(cache[s])
      BY <2>2, <3>3 DEF StaleOnlyAfterRace, Evolves
    <3> QED
      BY <1>0, <2>2, <3>2, <3>4, <3>5, AgreesStays
  <2> QED
    BY <2>1, <2>2
<1> QED
  BY <1>1, <1>2, <1>3, <1>4, <1>5, <1>6

\* The same for a step that leaves table and cache alone and was settling
\* nothing.
LEMMA LocalStep ==
  ASSUME IInv, NEW w \in Workers, OnlyMoves(w), ControlOK',
         UNCHANGED <<db, cache, raced>>, Knows(w)', FreshInHand(w)',
         pc[w] \notin {"fill", "save", "uncache"},
         held'[w] # NoRow => Issued(held'[w])
  PROVE  IInv'
<1>0. DataOK /\ ControlOK
  BY TypeSplits DEF IInv
<1>1. /\ user' = user /\ shortcut' = shortcut /\ last' = last
      /\ cache' = cache /\ raced' = raced
  BY DEF db
<1>2. DataOK'
  BY <1>0, <1>1 DEF DataOK
<1>3. Evolves /\ Announced(w)
  BY <1>0, <1>1, ShortcutsAssumption DEF Evolves, Announced, DataOK
<1>4. held'[w] # NoRow => IssuedNext(held'[w])
  BY <1>1 DEF Issued, IssuedNext
<1>5. \A s \in Ids : ~ (Storing(w, s) \/ (pc[w] = "uncache" /\ request[w].id = s))
  BY DEF Storing
<1> QED
  BY <1>1, <1>2, <1>3, <1>4, <1>5, WorkerStep

LEMMA EndStep ==
  ASSUME IInv, NEW w \in Workers, Finish(w), UNCHANGED <<db, cache, raced>>,
         pc[w] \notin {"fill", "save", "uncache"}
  PROVE  IInv'
<1>1. OnlyMoves(w) /\ ControlOK' /\ pc'[w] = "idle" /\ held'[w] = NoRow
  BY FinishEffect, TypeSplits DEF IInv
<1>2. Knows(w)' /\ FreshInHand(w)'
  BY <1>1 DEF Knows, FreshInHand
<1> QED
  BY <1>1, <1>2, LocalStep

-----------------------------------------------------------------------------
(***************************************************************************)
(* One lemma per action, or group of actions with the same effect.         *)
(***************************************************************************)
LEMMA ReceiveStep ==
  ASSUME IInv, NEW w \in Workers, Receive(w)
  PROVE  IInv'
<1>0. ControlOK /\ (held[w] # NoRow => Issued(held[w])) /\ pc[w] = "idle"
  BY TypeSplits DEF IInv, HeldIssued, Receive
<1>1. PICK r \in Requests :
        /\ request' = [request EXCEPT ![w] = r]
        /\ pc' = [pc EXCEPT ![w] =
                    CASE r.op = "create" -> "insert"
                      [] r.op \in {"deleteUser", "vacuum"} -> r.op
                      [] OTHER -> "load"]
  BY DEF Receive
<1>2. UNCHANGED <<held, db, cache, raced>>
  BY DEF Receive
<1>3. r # NoRequest /\ r.op \in {"create", "patch", "delete", "get", "deleteUser", "vacuum"}
  BY ShortcutsAssumption, RequestFields
<1>4. pc'[w] = CASE r.op = "create" -> "insert"
                 [] r.op \in {"deleteUser", "vacuum"} -> r.op
                 [] OTHER -> "load"
  BY <1>0, <1>1 DEF ControlOK
<1>5. /\ OnlyMoves(w) /\ ControlOK'
      /\ held'[w] = held[w] /\ request'[w] = r
  BY <1>0, <1>1, <1>2, <1>3, <1>4 DEF ControlOK, OnlyMoves, Steps
<1>6. Knows(w)' /\ FreshInHand(w)'
  BY <1>3, <1>4, <1>5 DEF Knows, Serving, FreshInHand
<1>7. held'[w] # NoRow => Issued(held'[w])
  BY <1>0, <1>5
<1>8. pc[w] \notin {"fill", "save", "uncache"}
  BY <1>0
<1> QED
  BY <1>2, <1>5, <1>6, <1>7, <1>8, LocalStep

LEMMA FoundEffect ==
  ASSUME ControlOK, NEW w \in Workers, NEW row \in Row,
         Serving(w, {"patch", "delete", "get"}), row.id = request[w].id,
         Found(w, row)
  PROVE  /\ OnlyMoves(w) /\ ControlOK' /\ Knows(w)'
         /\ pc'[w] \notin {"fill", "save"}
         /\ held'[w] \in {NoRow, row}
<1> USE RowFields
<1>1. CASE Finish(w)
  BY <1>1, FinishEffect DEF Knows
<1>2. CASE Take(w, row, "reply")
  BY <1>2, TakeEffect DEF Knows, Steps
<1>3. CASE /\ request[w].op = "patch" /\ row.creator = request[w].user
           /\ Take(w, row, "update")
  BY <1>3, TakeEffect DEF Knows, Steps, Serving, Holding
<1>4. CASE /\ request[w].op = "delete" /\ row.creator = request[w].user
           /\ Take(w, row, "delete")
  BY <1>4, TakeEffect DEF Knows, Steps, Serving, Holding
<1> QED
  BY <1>1, <1>2, <1>3, <1>4 DEF Found

LEMMA LoadStep ==
  ASSUME IInv, NEW w \in Workers, Load(w)
  PROVE  IInv'
<1>0. /\ ControlOK /\ DataOK /\ CacheKeyed /\ pc[w] = "load"
      /\ Serving(w, {"patch", "delete", "get"})
      /\ held[w] # NoRow => Issued(held[w])
      /\ UNCHANGED <<db, cache, raced>>
  BY TypeSplits DEF IInv, HeldIssued, Knows, Load
<1>1. request[w] \in Requests /\ request[w].id \in Ids
  BY <1>0, RequestFields DEF ControlOK, Serving
<1> DEFINE row == cache[request[w].id]
<1>2. CASE row # NoRow
  <2>1. row \in Row /\ row.id = request[w].id /\ Issued(row)
    BY <1>0, <1>1, <1>2 DEF DataOK, CacheKeyed
  <2>2. Found(w, row)
    BY <1>2 DEF Load
  <2>3. /\ OnlyMoves(w) /\ ControlOK' /\ Knows(w)'
        /\ pc'[w] \notin {"fill", "save"}
        /\ held'[w] \in {NoRow, row}
    BY <1>0, <2>1, <2>2, FoundEffect
  <2>4. FreshInHand(w)'
    BY <2>3 DEF FreshInHand
  <2> QED
    BY <1>0, <2>1, <2>3, <2>4, LocalStep
<1>3. CASE row = NoRow
  <2>1. Goto(w, "select")
    BY <1>3 DEF Load
  <2>2. /\ ControlOK' /\ OnlyMoves(w) /\ pc'[w] = "select"
        /\ held'[w] = held[w] /\ request'[w] = request[w]
    BY <1>0, <2>1, GotoEffect DEF Steps
  <2>3. Knows(w)' /\ FreshInHand(w)'
    BY <1>0, <2>2 DEF Knows, Serving, FreshInHand
  <2> QED
    BY <1>0, <2>2, <2>3, LocalStep
<1> QED
  BY <1>2, <1>3

LEMMA SelectStep ==
  ASSUME IInv, NEW w \in Workers, Select(w)
  PROVE  IInv'
<1>0. /\ ControlOK /\ DataOK /\ RowsKeyed /\ pc[w] = "select"
      /\ Serving(w, {"patch", "delete", "get"})
      /\ UNCHANGED <<db, cache, raced>>
  BY TypeSplits DEF IInv, Knows, Select
<1>1. request[w] \in Requests /\ request[w].id \in Ids
  BY <1>0, RequestFields DEF ControlOK, Serving
<1> DEFINE row == shortcut[request[w].id]
<1>2. CASE row # NoRow
  <2>1. row \in Row /\ row.id = request[w].id /\ Issued(row)
    BY <1>0, <1>1, <1>2 DEF DataOK, RowsKeyed
  <2>2. Take(w, row, "fill")
    BY <1>2 DEF Select
  <2>3. /\ ControlOK' /\ OnlyMoves(w) /\ pc'[w] = "fill"
        /\ held'[w] = row /\ request'[w] = request[w]
    BY <1>0, <2>1, <2>2, TakeEffect DEF Steps
  <2>4. Knows(w)'
    BY <1>0, <1>2, <2>1, <2>3 DEF Knows, Serving, Holding
  <2>5. FreshInHand(w)'
    BY <1>0, <2>1, <2>3 DEF FreshInHand, Agrees, db
  <2> QED
    BY <1>0, <2>1, <2>3, <2>4, <2>5, LocalStep
<1>3. CASE row = NoRow
  BY <1>0, <1>3, EndStep DEF Select
<1> QED
  BY <1>2, <1>3

\* Fill and Save: the row in hand goes into the cache.
LEMMA StoreStep ==
  ASSUME IInv, NEW w \in Workers, pc[w] \in {"fill", "save"},
         cache' = [cache EXCEPT ![held[w].id] = held[w]],
         UNCHANGED <<db, raced>>, OnlyMoves(w), ControlOK', Knows(w)',
         pc'[w] \notin {"fill", "save"},
         held'[w] \in {NoRow, held[w]}
  PROVE  IInv'
<1>0. /\ ControlOK /\ DataOK /\ CacheKeyed
      /\ held[w] \in Row /\ Issued(held[w])
  BY TypeSplits DEF IInv, HeldIssued, Knows, Holding, ControlOK
<1>1. held[w].id \in Ids /\ held[w] # NoRow
  BY <1>0, RowFields
<1>2. /\ user' = user /\ shortcut' = shortcut /\ last' = last /\ raced' = raced
  BY DEF db
<1>3. DataOK'
  BY <1>0, <1>1, <1>2 DEF DataOK
<1>4. Evolves /\ Announced(w)
  BY <1>0, <1>2, ShortcutsAssumption DEF Evolves, Announced, DataOK
<1>5. IssuedNext(held[w])
  BY <1>0, <1>2 DEF Issued, IssuedNext
<1>6. held[w].id \notin raced' => AgreesNext(held[w])
  BY <1>2 DEF IInv, FreshInHand, Agrees, AgreesNext
<1>7. FreshInHand(w)'
  BY DEF FreshInHand
<1>8. ASSUME NEW s \in Ids
      PROVE  /\ s = held[w].id => cache'[s] = held[w]
             /\ s # held[w].id =>
                  /\ cache'[s] = cache[s]
                  /\ ~ (Storing(w, s) \/ (pc[w] = "uncache" /\ request[w].id = s))
  BY <1>0, <1>1 DEF DataOK, Storing
<1>9. \A s \in Ids : cache'[s] # NoRow =>
        \/ cache'[s] = cache[s]
        \/ /\ cache'[s].id = s /\ IssuedNext(cache'[s])
           /\ s \notin raced' => AgreesNext(cache'[s])
  BY <1>5, <1>6, <1>8
<1>10. \A s \in Ids : cache'[s] # NoRow /\ cache'[s] = cache[s] /\ s \notin raced' =>
         \/ /\ ~ (Storing(w, s) \/ (pc[w] = "uncache" /\ request[w].id = s))
            /\ shortcut'[s] = shortcut[s]
         \/ AgreesNext(cache'[s])
  BY <1>2, <1>6, <1>8
<1> QED
  BY <1>2, <1>3, <1>4, <1>5, <1>7, <1>9, <1>10, WorkerStep

LEMMA FillStep ==
  ASSUME IInv, NEW w \in Workers, Fill(w)
  PROVE  IInv'
<1>0. /\ ControlOK /\ held[w] \in Row /\ held[w].id = request[w].id
      /\ Serving(w, {"patch", "delete", "get"}) /\ pc[w] = "fill"
  BY TypeSplits DEF IInv, Knows, Holding, ControlOK, Fill
<1>1. /\ OnlyMoves(w) /\ ControlOK' /\ Knows(w)'
      /\ pc'[w] \notin {"fill", "save"} /\ held'[w] \in {NoRow, held[w]}
  BY <1>0, FoundEffect DEF Fill
<1> QED
  BY <1>0, <1>1, StoreStep DEF Fill

LEMMA SaveStep ==
  ASSUME IInv, NEW w \in Workers, Save(w)
  PROVE  IInv'
<1>0. ControlOK /\ pc[w] = "save" /\ Serving(w, {"create", "patch"})
  BY TypeSplits DEF IInv, Knows, Save
<1>1. /\ OnlyMoves(w) /\ ControlOK' /\ held'[w] = held[w]
      /\ request'[w] = request[w]
      /\ pc'[w] = IF request[w].op = "create" THEN "activity" ELSE "reply"
  BY <1>0, GotoEffect DEF Save, Steps
<1>2. Knows(w)' /\ pc'[w] \notin {"fill", "save"}
  BY <1>0, <1>1 DEF Knows, Serving
<1> QED
  BY <1>0, <1>1, <1>2, StoreStep DEF Save

\* Insert and Update: one row is written, and the worker is about to store it.
LEMMA WrittenStep ==
  ASSUME IInv, NEW w \in Workers, NEW row \in Row,
         pc[w] \in {"insert", "update"}, Serving(w, {"create", "patch"}),
         Take(w, row, "save"), shortcut' = [shortcut EXCEPT ![row.id] = row],
         last' \in 0 .. MaxShortcut, last <= last', row.id <= last',
         row.id <= last => /\ shortcut[row.id] # NoRow
                           /\ shortcut[row.id].creator = row.creator
                           /\ Written(w, row.id),
         raced \subseteq raced', raced' \subseteq Ids,
         UNCHANGED <<user, cache>>
  PROVE  IInv'
<1>0. /\ ControlOK /\ DataOK /\ row.id \in Ids /\ row # NoRow
  BY TypeSplits, RowFields DEF IInv
<1>1. /\ OnlyMoves(w) /\ ControlOK' /\ pc'[w] = "save" /\ held'[w] = row
      /\ request'[w] = request[w]
  BY <1>0, TakeEffect DEF Steps
<1>2. shortcut'[row.id] = row /\ \A s \in Ids \ {row.id} : shortcut'[s] = shortcut[s]
  BY <1>0 DEF DataOK
<1>3. DataOK'
  BY <1>0 DEF DataOK
<1>4. Evolves
  BY <1>0, <1>2 DEF Evolves
<1>5. Announced(w)
  BY <1>0, <1>2 DEF Announced, StoredByOther, Written
<1>6. Knows(w)'
  BY <1>0, <1>1 DEF Knows, Serving
<1>7. FreshInHand(w)'
  BY <1>1, <1>2 DEF FreshInHand, Agrees
<1>8. IssuedNext(row)
  BY <1>2 DEF IssuedNext
<1>9. \A s \in Ids : shortcut'[s] # NoRow /\ shortcut'[s] # shortcut[s] =>
        shortcut'[s].id = s /\ IssuedNext(shortcut'[s])
  BY <1>2, <1>8
<1>10. Storing(w, row.id)'
  BY <1>1 DEF Storing
<1>11. \A s \in Ids :
         \/ /\ ~ (Storing(w, s) \/ (pc[w] = "uncache" /\ request[w].id = s))
            /\ shortcut'[s] = shortcut[s]
         \/ Storing(w, s)'
  BY <1>2, <1>10 DEF Storing
<1> QED
  BY <1>1, <1>3, <1>4, <1>5, <1>6, <1>7, <1>8, <1>9, <1>11, WorkerStep

LEMMA InsertStep ==
  ASSUME IInv, NEW w \in Workers, Insert(w)
  PROVE  IInv'
<1> DEFINE row == [id |-> last + 1, creator |-> request[w].user,
                   body |-> request[w].body]
<1>0. ControlOK /\ DataOK /\ Serving(w, {"create"}) /\ pc[w] = "insert"
  BY TypeSplits DEF IInv, Knows, Insert
<1>1. /\ request[w] \in Requests /\ request[w].user \in Users
      /\ request[w].body \in Bodies
  BY <1>0, RequestFields DEF ControlOK, Serving
<1>2. /\ last + 1 \in Ids /\ last' = last + 1 /\ last' \in 0 .. MaxShortcut
      /\ last <= last' /\ ~ (last + 1 <= last)
  BY <1>0, ShortcutsAssumption DEF Insert, DataOK, Ids
<1>3. row \in Row /\ row.id = last + 1
  BY <1>1, <1>2, RowFields
<1>4. /\ shortcut' = [shortcut EXCEPT ![row.id] = row] /\ Take(w, row, "save")
      /\ UNCHANGED <<user, cache>> /\ raced' = raced
  BY <1>3 DEF Insert
<1>5. Serving(w, {"create", "patch"})
  BY <1>0 DEF Serving
<1>6. raced \subseteq raced' /\ raced' \subseteq Ids
  BY <1>0, <1>4 DEF DataOK
<1>7. row.id <= last' /\ ~ (row.id <= last) /\ pc[w] \in {"insert", "update"}
  BY <1>0, <1>2, <1>3, ShortcutsAssumption DEF DataOK
<1>8. row \in Row
  BY <1>3
<1> HIDE DEF row
<1> QED
  BY <1>2, <1>4, <1>5, <1>6, <1>7, <1>8, WrittenStep

LEMMA UpdateStep ==
  ASSUME IInv, NEW w \in Workers, Update(w)
  PROVE  IInv'
<1> DEFINE id  == request[w].id
           old == shortcut[id]
           row == [old EXCEPT !.body = request[w].body]
<1>0. ControlOK /\ DataOK /\ RowsKeyed /\ Serving(w, {"patch"}) /\ pc[w] = "update"
  BY TypeSplits DEF IInv, Knows, Update
<1>1. /\ request[w] \in Requests /\ id \in Ids /\ request[w].body \in Bodies
  BY <1>0, RequestFields DEF ControlOK, Serving
<1>2. CASE old # NoRow
  <2>1. old \in Row /\ old.id = id /\ id <= last
    BY <1>0, <1>1, <1>2 DEF DataOK, RowsKeyed, Issued
  <2>2. row \in Row /\ row.id = id /\ row.creator = old.creator
    BY <1>1, <2>1 DEF Row
  <2>3. /\ shortcut' = [shortcut EXCEPT ![row.id] = row] /\ Take(w, row, "save")
        /\ Written(w, row.id) /\ UNCHANGED <<user, cache>> /\ last' = last
    BY <1>2, <2>2 DEF Update
  <2>4. raced \subseteq raced' /\ raced' \subseteq Ids
    BY <1>0, <1>1, <2>2, <2>3 DEF DataOK, Written
  <2>5. Serving(w, {"create", "patch"})
    BY <1>0 DEF Serving
  <2>6. last' \in 0 .. MaxShortcut /\ last <= last' /\ row.id <= last'
    BY <1>0, <2>1, <2>2, <2>3, ShortcutsAssumption DEF DataOK
  <2>7. shortcut[row.id] # NoRow /\ shortcut[row.id].creator = row.creator
    BY <1>2, <2>2
  <2> HIDE DEF row
  <2> QED
    BY <1>0, <2>2, <2>3, <2>4, <2>5, <2>6, <2>7, WrittenStep
<1>3. CASE old = NoRow
  <2>1. Finish(w) /\ UNCHANGED <<db, cache, raced>>
    BY <1>3 DEF Update, db
  <2> QED
    BY <1>0, <2>1, EndStep
<1> QED
  BY <1>2, <1>3

\* Rows go, the cache stays: Delete announces the row it takes and goes on to
\* drop the entry, a vacuum takes rows whose creator is gone.
LEMMA RemovalStep ==
  ASSUME IInv, NEW w \in Workers, NEW s \in Steps, Goto(w, s),
         pc[w] \in {"delete", "deleteUser", "vacuum"}, Knows(w)',
         s \notin {"fill", "save"},
         DataOK', user' \subseteq user, raced \subseteq raced',
         \A t \in Ids : shortcut'[t] \in {shortcut[t], NoRow},
         \A t \in Ids : shortcut'[t] # shortcut[t] =>
           \/ shortcut[t].creator \notin user'
           \/ /\ s = "uncache" /\ request[w].id = t
              /\ StoredByOther(w, t) => t \in raced',
         UNCHANGED <<last, cache>>
  PROVE  IInv'
<1>0. /\ ControlOK /\ DataOK /\ (held[w] # NoRow => Issued(held[w]))
  BY TypeSplits DEF IInv, HeldIssued
<1>1. /\ OnlyMoves(w) /\ ControlOK' /\ pc'[w] = s /\ held'[w] = held[w]
      /\ request'[w] = request[w]
  BY <1>0, GotoEffect
<1>2. Evolves
  BY <1>0, ShortcutsAssumption DEF Evolves, DataOK
<1>3. Announced(w)
  BY DEF Announced
<1>4. FreshInHand(w)'
  BY <1>1 DEF FreshInHand
<1>5. held'[w] # NoRow => IssuedNext(held'[w])
  <2> SUFFICES ASSUME held[w] # NoRow
               PROVE  IssuedNext(held[w])
    BY <1>1
  <2>1. held[w] \in Row
    BY <1>0 DEF ControlOK
  <2> QED
    BY <1>0, <1>2, <2>1, IssuedStays
<1>6. \A t \in Ids : ~ (Storing(w, t) \/ (pc[w] = "uncache" /\ request[w].id = t))
  BY DEF Storing
<1>7. \A t \in Ids :
        \/ shortcut'[t] = shortcut[t]
        \/ shortcut'[t] = NoRow /\ shortcut[t].creator \notin user'
        \/ pc'[w] = "uncache" /\ request'[w].id = t
  BY <1>1
<1> QED
  BY <1>1, <1>2, <1>3, <1>4, <1>5, <1>6, <1>7, WorkerStep

LEMMA DeleteStep ==
  ASSUME IInv, NEW w \in Workers, Delete(w)
  PROVE  IInv'
<1> DEFINE id == request[w].id
<1>0. ControlOK /\ DataOK /\ Serving(w, {"delete"}) /\ pc[w] = "delete"
  BY TypeSplits DEF IInv, Knows, Delete
<1>1. request[w] \in Requests /\ id \in Ids
  BY <1>0, RequestFields DEF ControlOK, Serving
<1>2. CASE shortcut[id] # NoRow
  <2>1. /\ shortcut' = [shortcut EXCEPT ![id] = NoRow] /\ Written(w, id)
        /\ Goto(w, "uncache") /\ UNCHANGED <<user, last, cache>>
    BY <1>2 DEF Delete
  <2>2. DataOK'
    BY <1>0, <1>1, <2>1 DEF DataOK, Written
  <2>3. raced \subseteq raced' /\ (StoredByOther(w, id) => id \in raced')
    BY <2>1 DEF Written, StoredByOther
  <2>4. Knows(w)'
    BY <1>0, <2>1, GotoEffect DEF Knows, Serving, Steps
  <2>5. /\ \A t \in Ids : shortcut'[t] \in {shortcut[t], NoRow}
        /\ \A t \in Ids : shortcut'[t] # shortcut[t] => t = id
    BY <1>0, <1>1, <2>1 DEF DataOK
  <2> QED
    BY <1>0, <2>1, <2>2, <2>3, <2>4, <2>5, RemovalStep DEF Steps
<1>3. CASE shortcut[id] = NoRow
  <2>1. Finish(w) /\ UNCHANGED <<db, cache, raced>>
    BY <1>3 DEF Delete, db
  <2> QED
    BY <1>0, <2>1, EndStep
<1> QED
  BY <1>2, <1>3

\* vacuumShortcut, on its own or with the deletion of an account.
LEMMA VacuumedStep ==
  ASSUME IInv, NEW w \in Workers, pc[w] \in {"deleteUser", "vacuum"},
         user' \subseteq user, shortcut' = Vacuumed(user'), Goto(w, "reply"),
         UNCHANGED <<last, cache, raced>>
  PROVE  IInv'
<1>0. ControlOK /\ DataOK
  BY TypeSplits DEF IInv
<1>1. /\ \A t \in Ids : shortcut'[t] \in {shortcut[t], NoRow}
      /\ \A t \in Ids : shortcut'[t] # shortcut[t] => shortcut[t].creator \notin user'
  BY DEF Vacuumed
<1>2. DataOK'
  BY <1>0 DEF DataOK, Vacuumed
<1>3. Knows(w)'
  BY <1>0, GotoEffect DEF Knows, Steps
<1> QED
  BY <1>0, <1>1, <1>2, <1>3, RemovalStep DEF Steps

LEMMA DeleteUserStep ==
  ASSUME IInv, NEW w \in Workers, DeleteUser(w) \/ Vacuum(w)
  PROVE  IInv'
<1>1. CASE DeleteUser(w) /\ request[w].target \in user
  <2>1. /\ pc[w] = "deleteUser" /\ user' = user \ {request[w].target}
        /\ shortcut' = Vacuumed(user') /\ Goto(w, "reply")
        /\ UNCHANGED <<last, cache, raced>>
    BY <1>1 DEF DeleteUser
  <2> QED
    BY <2>1, VacuumedStep
<1>2. CASE DeleteUser(w) /\ request[w].target \notin user
  <2>1. pc[w] = "deleteUser" /\ Finish(w) /\ UNCHANGED <<db, cache, raced>>
    BY <1>2 DEF DeleteUser, db
  <2> QED
    BY <2>1, EndStep
<1>3. CASE Vacuum(w)
  <2>1. /\ pc[w] = "vacuum" /\ user' = user /\ shortcut' = Vacuumed(user')
        /\ Goto(w, "reply") /\ UNCHANGED <<last, cache, raced>>
    BY <1>3 DEF Vacuum, Vacuumed
  <2> QED
    BY <2>1, VacuumedStep
<1> QED
  BY <1>1, <1>2, <1>3

LEMMA UncacheStep ==
  ASSUME IInv, NEW w \in Workers, Uncache(w)
  PROVE  IInv'
<1> DEFINE id == request[w].id
<1>0. /\ ControlOK /\ DataOK /\ CacheKeyed /\ Serving(w, {"delete"})
      /\ pc[w] = "uncache" /\ (held[w] # NoRow => Issued(held[w]))
  BY TypeSplits DEF IInv, Knows, Uncache, HeldIssued
<1>1. request[w] \in Requests /\ id \in Ids
  BY <1>0, RequestFields DEF ControlOK, Serving
<1>2. /\ cache' = [cache EXCEPT ![id] = NoRow] /\ Goto(w, "reply")
      /\ user' = user /\ shortcut' = shortcut /\ last' = last /\ raced' = raced
  BY DEF Uncache, db
<1>3. /\ OnlyMoves(w) /\ ControlOK' /\ pc'[w] = "reply" /\ held'[w] = held[w]
  BY <1>0, <1>2, GotoEffect DEF Steps
<1>4. Knows(w)' /\ FreshInHand(w)'
  BY <1>3 DEF Knows, FreshInHand
<1>5. DataOK'
  BY <1>0, <1>1, <1>2 DEF DataOK
<1>6. Evolves /\ Announced(w)
  BY <1>0, <1>2, ShortcutsAssumption DEF Evolves, Announced, DataOK
<1>7. held'[w] # NoRow => IssuedNext(held'[w])
  BY <1>0, <1>2, <1>3 DEF Issued, IssuedNext
<1>8. \A s \in Ids : cache'[s] # NoRow =>
        /\ cache'[s] = cache[s]
        /\ ~ (Storing(w, s) \/ (pc[w] = "uncache" /\ request[w].id = s))
  BY <1>0, <1>1, <1>2 DEF DataOK, Storing
<1> QED
  BY <1>2, <1>3, <1>4, <1>5, <1>6, <1>7, <1>8, WorkerStep

LEMMA ActivityStep ==
  ASSUME IInv, NEW w \in Workers, Activity(w)
  PROVE  IInv'
<1>0. /\ ControlOK /\ pc[w] = "activity" /\ (held[w] # NoRow => Issued(held[w]))
      /\ Goto(w, "reply") /\ UNCHANGED <<db, cache, raced>>
  BY TypeSplits DEF IInv, HeldIssued, Activity
<1>1. /\ OnlyMoves(w) /\ ControlOK' /\ pc'[w] = "reply" /\ held'[w] = held[w]
  BY <1>0, GotoEffect DEF Steps
<1>2. Knows(w)' /\ FreshInHand(w)'
  BY <1>1 DEF Knows, FreshInHand
<1> QED
  BY <1>0, <1>1, <1>2, LocalStep

LEMMA RestartStep ==
  ASSUME IInv, Restart
  PROVE  IInv'
<1>0. DataOK
  BY TypeSplits DEF IInv
<1>1. /\ user' = user /\ shortcut' = shortcut /\ last' = last
      /\ cache' = [s \in Ids |-> NoRow]
      /\ pc' = [w \in Workers |-> "idle"]
      /\ held' = [w \in Workers |-> NoRow]
  BY DEF Restart, db
<1>2. TypeOK'
  BY <1>0, <1>1 DEF Restart, TypeOK, DataOK, Steps
<1>3. RowsKeyed'
  BY <1>1 DEF IInv, RowsKeyed, Issued
<1>4. CacheKeyed' /\ HeldIssued' /\ StaleOnlyAfterRace'
  BY <1>1 DEF CacheKeyed, HeldIssued, StaleOnlyAfterRace
<1>5. \A w \in Workers : Knows(w)' /\ FreshInHand(w)'
  BY <1>1 DEF Knows, FreshInHand
<1> QED
  BY <1>2, <1>3, <1>4, <1>5 DEF IInv

-----------------------------------------------------------------------------
LEMMA InitInv == Init => IInv
<1> SUFFICES ASSUME Init
             PROVE  IInv
  OBVIOUS
<1>1. TypeOK
  BY ShortcutsAssumption DEF Init, TypeOK, Steps
<1>2. RowsKeyed /\ CacheKeyed /\ HeldIssued /\ StaleOnlyAfterRace
  BY DEF Init, RowsKeyed, CacheKeyed, HeldIssued, StaleOnlyAfterRace
<1>3. \A w \in Workers : Knows(w) /\ FreshInHand(w)
  BY DEF Init, Knows, FreshInHand
<1> QED
  BY <1>1, <1>2, <1>3 DEF IInv

LEMMA StepInv ==
  ASSUME IInv, Next
  PROVE  IInv'
<1>1. ASSUME NEW w \in Workers, Handle(w)
      PROVE  IInv'
  <2>1. CASE InsertFull(w) \/ Reply(w)
    BY <2>1, EndStep DEF InsertFull, Reply
  <2> QED
    BY <1>1, <2>1, LoadStep, SelectStep, FillStep, InsertStep, UpdateStep,
       SaveStep, ActivityStep, DeleteStep, UncacheStep, DeleteUserStep
       DEF Handle
<1>2. ASSUME NEW w \in Workers, Receive(w) \/ Fail(w)
      PROVE  IInv'
  BY <1>2, ReceiveStep, EndStep DEF Fail
<1> QED
  BY <1>1, <1>2, RestartStep DEF Next

\* The inductive invariant: rows under their own ids, cached rows and rows in
\* hand that name the creator of their id, what each handler knows of its
\* request, and that a row about to be stored agrees with the table unless
\* its id was written in the meantime.
THEOREM Invariance == Spec => []IInv
<1>1. IInv /\ UNCHANGED vars => IInv'
  <2> SUFFICES ASSUME IInv, UNCHANGED vars
               PROVE  IInv'
    OBVIOUS
  <2>1. /\ UNCHANGED <<user, shortcut, last, cache, pc, held, request, raced>>
    BY DEF vars, db, control
  <2>2. TypeOK' /\ RowsKeyed' /\ CacheKeyed' /\ HeldIssued'
    BY <2>1 DEF IInv, TypeOK, RowsKeyed, CacheKeyed, HeldIssued, Issued
  <2>3. \A w \in Workers : Knows(w)' /\ FreshInHand(w)'
    BY <2>1 DEF IInv, Knows, Serving, Holding, FreshInHand, Agrees
  <2>4. StaleOnlyAfterRace'
    BY <2>1 DEF IInv, StaleOnlyAfterRace, Settling, Storing, Agrees
  <2> QED
    BY <2>2, <2>3, <2>4 DEF IInv
<1>2. IInv /\ [Next]_vars => IInv'
  BY <1>1, StepInv
<1> QED
  BY <1>2, InitInv, PTL DEF Spec

\* A cached shortcut is stale only after a write raced with a fill of the
\* cache, or once the account of its creator is gone.
THEOREM StaleAfterRaceOnly == Spec => []StaleOnlyAfterRace
<1>1. IInv => StaleOnlyAfterRace
  BY DEF IInv
<1> QED
  BY <1>1, Invariance, PTL

\* Who writes the table, and how.
LEMMA Writers ==
  ASSUME IInv, Next, NEW s \in Ids, shortcut'[s] # shortcut[s]
  PROVE  \/ shortcut'[s] = NoRow /\ shortcut[s].creator \notin user'
         \/ s = last + 1 /\ \E w \in Workers : Insert(w)
         \/ \E w \in Workers :
              /\ request[w].id = s /\ shortcut[s] # NoRow
              /\ pc[w] \in {"update", "delete"} /\ pc'[w] # pc[w]
<1>0. DataOK /\ ControlOK
  BY TypeSplits DEF IInv
<1>1. PICK w \in Workers :
        Insert(w) \/ Update(w) \/ Delete(w) \/ DeleteUser(w) \/ Vacuum(w)
  BY DEF Next, Restart, Receive, Fail, Handle, Load, Select, Fill, InsertFull,
     Save, Activity, Uncache, Reply, db
<1>2. CASE Insert(w)
  <2>1. shortcut' = [shortcut EXCEPT ![last + 1] = shortcut'[last + 1]]
    BY <1>0, <1>2 DEF Insert, DataOK
  <2>2. s = last + 1
    BY <1>0, <2>1 DEF DataOK
  <2> QED
    BY <1>2, <2>2
<1>3. CASE Update(w)
  <2> DEFINE id == request[w].id
             row == [shortcut[id] EXCEPT !.body = request[w].body]
  <2>1. /\ pc[w] = "update" /\ shortcut[id] # NoRow
        /\ shortcut' = [shortcut EXCEPT ![id] = row]
        /\ pc' = [pc EXCEPT ![w] = "save"]
    BY <1>3 DEF Update, Take
  <2> HIDE DEF row
  <2>2. s = id /\ pc'[w] # pc[w]
    BY <1>0, <2>1 DEF DataOK, ControlOK
  <2> QED
    BY <2>1, <2>2
<1>4. CASE Delete(w)
  <2>1. /\ pc[w] = "delete" /\ shortcut[request[w].id] # NoRow
        /\ shortcut' = [shortcut EXCEPT ![request[w].id] = NoRow]
        /\ pc' = [pc EXCEPT ![w] = "uncache"]
    BY <1>4 DEF Delete, Goto
  <2>2. s = request[w].id /\ pc'[w] # pc[w]
    BY <1>0, <2>1 DEF DataOK, ControlOK
  <2> QED
    BY <2>1, <2>2
<1>5. CASE DeleteUser(w) \/ Vacuum(w)
  <2>1. shortcut' = Vacuumed(user')
    BY <1>5 DEF DeleteUser, Vacuum, Vacuumed
  <2> QED
    BY <2>1 DEF Vacuumed
<1> QED
  BY <1>1, <1>2, <1>3, <1>4, <1>5

\* The id of a deleted shortcut stays without a row for ever.
THEOREM NeverResurrected == Spec => NoResurrection
<1>1. IInv /\ [Next]_vars =>
        [\A s \in 1 .. last : shortcut[s] = NoRow => shortcut'[s] = NoRow]_vars
  <2> SUFFICES ASSUME IInv, Next, NEW s \in 1 .. last, shortcut[s] = NoRow
               PROVE  shortcut'[s] = NoRow
    OBVIOUS
  <2>1. s \in Ids /\ s # last + 1
    BY ShortcutsAssumption DEF IInv, TypeOK, Ids
  <2> QED
    BY <2>1, Writers
<1> QED
  BY <1>1, Invariance, PTL DEF Spec, NoResurrection

\* Only the creator of a shortcut patches or deletes it, else it goes with
\* its creator's account.  The row of the owner check may be stale: it names
\* the same creator as whatever row the id has when the write commits.
THEOREM OwnersOnly == Spec => OwnerOnlyWrites
<1>1. ASSUME IInv, Next, NEW s \in Ids, shortcut[s] # NoRow,
             shortcut'[s] # shortcut[s]
      PROVE  \/ \E w \in Workers :
                  /\ pc[w] \in {"update", "delete"} /\ pc'[w] # pc[w]
                  /\ request[w].id = s
                  /\ request[w].user = shortcut[s].creator
             \/ shortcut'[s] = NoRow /\ shortcut[s].creator \notin user'
  <2>0. DataOK /\ ControlOK /\ s # last + 1
    BY <1>1, TypeSplits, ShortcutsAssumption DEF IInv, RowsKeyed, Issued, DataOK
  <2>1. ASSUME NEW w \in Workers, pc[w] \in {"update", "delete"},
               request[w].id = s
        PROVE  request[w].user = shortcut[s].creator
    <3>1. /\ Holding(w) /\ held[w].creator = request[w].user /\ Issued(held[w])
      BY <1>1, <2>1 DEF IInv, Knows, Holding, HeldIssued
    <3> QED
      BY <1>1, <2>1, <3>1 DEF Holding, Issued
  <2> QED
    BY <1>1, <2>0, <2>1, Writers
<1>2. IInv /\ [Next]_vars =>
        [\A s \in Ids :
           shortcut[s] # NoRow /\ shortcut'[s] # shortcut[s] =>
             \/ \E w \in Workers :
                  /\ pc[w] \in {"update", "delete"} /\ pc'[w] # pc[w]
                  /\ request[w].id = s
                  /\ request[w].user = shortcut[s].creator
             \/ shortcut'[s] = NoRow /\ shortcut[s].creator \notin user']_vars
  BY <1>1
<1> QED
  BY <1>2, Invariance, PTL DEF Spec, OwnerOnlyWrites

-----------------------------------------------------------------------------
(***************************************************************************)
(* Shortcuts implements StoreDB.  The mapped database is a function of the *)
(* tables user and shortcut.                                               *)
(***************************************************************************)
Image(table) ==
  {[id |-> s, creator |-> table[s].creator] :
     s \in {i \in Ids : table[i] # NoRow}}

Skeleton(users, rows) ==
  [user |-> users, memo |-> {}, resource |-> {}, shortcut |-> rows,
   userSetting |-> {}, organizer |-> {}, memoResource |-> {}, tag |-> {}]

Counters(n) == [user |-> NumUsers, memo |-> 0, resource |-> 0, shortcut |-> n]

MappedDb == Skeleton(user, Image(shortcut))

Mapped == <<MappedDb, Counters(last)>>

LEMMA MappedIsMapped ==
  /\ Tables!vars = Mapped
  /\ Tables!vars' = Mapped'
BY DEF Tables!vars, Mapped, MappedDb, Skeleton, Image, Counters

LEMMA SkeletonExcept ==
  ASSUME NEW users, NEW rows, NEW new
  PROVE  /\ [Skeleton(users, rows) EXCEPT !.shortcut = new] = Skeleton(users, new)
         /\ [Skeleton(users, rows) EXCEPT !.user = new] = Skeleton(new, rows)
BY DEF Skeleton

\* On the two tables, vacuum is vacuumShortcut.
LEMMA VacuumOfSkeleton ==
  ASSUME NEW users, NEW rows
  PROVE  Tables!vacuum(Skeleton(users, rows))
           = Skeleton(users, {s \in rows : s.creator \in users})
<1> DEFINE kept == {s \in rows : s.creator \in users}
           before == Skeleton(users, rows)
           after  == Skeleton(users, kept)
<1>1. Tables!vacuumMemo(before) = before
  BY DEF Tables!vacuumMemo, Skeleton
<1>2. Tables!vacuumResource(before) = before
  BY DEF Tables!vacuumResource, Skeleton
<1>3. Tables!vacuumShortcut(before) = after
  <2>1. before.user = users /\ before.shortcut = rows
    BY DEF Skeleton
  <2>2. Tables!vacuumShortcut(before) = [before EXCEPT !.shortcut = kept]
    BY <2>1, Zenon DEF Tables!vacuumShortcut
  <2> HIDE DEF kept
  <2>3. [before EXCEPT !.shortcut = kept] = after
    BY SkeletonExcept
  <2> QED
    BY <2>2, <2>3
<1> HIDE DEF kept
<1>4. Tables!vacuumUserSetting(after) = after
  BY DEF Tables!vacuumUserSetting, Skeleton
<1>5. Tables!vacuumMemoOrganizer(after) = after
  BY DEF Tables!vacuumMemoOrganizer, Skeleton
<1>6. Tables!vacuumMemoResource(after) = after
  BY DEF Tables!vacuumMemoResource, Skeleton
<1>7. Tables!vacuumTag(after) = after
  BY DEF Tables!vacuumTag, Skeleton
<1> QED
  BY <1>1, <1>2, <1>3, <1>4, <1>5, <1>6, <1>7, Zenon DEF Tables!vacuum, kept

LEMMA ImageUnchanged ==
  ASSUME NEW t, NEW s,
         \A i \in Ids : /\ t[i] = NoRow <=> s[i] = NoRow
                        /\ t[i] # NoRow => t[i].creator = s[i].creator
  PROVE  Image(t) = Image(s)
BY DEF Image

LEMMA ImageIds ==
  ASSUME NEW t, NEW i \in Ids, t[i] # NoRow
  PROVE  i \in Tables!IdsOf(Image(t))
<1> DEFINE row == [id |-> i, creator |-> t[i].creator]
<1>1. row \in Image(t) /\ i = row.id
  BY DEF Image
<1> QED
  BY <1>1 DEF Tables!IdsOf

\* What vacuumShortcut leaves of the table.
LEMMA ImageVacuumed ==
  ASSUME NEW users
  PROVE  Image(Vacuumed(users)) = {s \in Image(shortcut) : s.creator \in users}
<1> DEFINE v == Vacuumed(users)
<1>1. \A i \in Ids :
        /\ v[i] # NoRow <=> shortcut[i] # NoRow /\ shortcut[i].creator \in users
        /\ v[i] # NoRow => v[i] = shortcut[i]
  BY DEF Vacuumed
<1> HIDE DEF v
<1> QED
  BY <1>1 DEF Image, v

LEMMA InsertMapped ==
  ASSUME IInv, NEW w \in Workers, Insert(w)
  PROVE  \E u \in Tables!KnownUsers : Tables!CreateShortcut(u)
<1>1. DataOK /\ ControlOK /\ Knows(w)
  BY TypeSplits DEF IInv
<1>2. request[w].user \in Users /\ request[w].body \in Bodies
  <2>1. request[w] \in Requests /\ request[w].op = "create"
    BY <1>1 DEF Insert, Knows, Serving, ControlOK
  <2> QED
    BY <2>1, RequestFields
<1> PICK u \in Users : u = request[w].user
  BY <1>2
<1> DEFINE n   == last + 1
           row == [id |-> n, creator |-> u, body |-> request[w].body]
           new == Image(shortcut) \cup {[id |-> n, creator |-> u]}
<1>3. /\ last < MaxShortcut /\ last' = n
      /\ shortcut' = [shortcut EXCEPT ![n] = row] /\ user' = user
  BY DEF Insert
<1>4. n \in Ids /\ last \in Nat /\ ~ n <= last
  BY <1>1, <1>3, ShortcutsAssumption DEF DataOK, Ids
<1>5. shortcut[n] = NoRow
  BY <1>4 DEF IInv, RowsKeyed, Issued
<1>6. row # NoRow /\ row.creator = u
  BY <1>2, <1>4, RowFields
<1>7. \A s \in Ids : shortcut'[s] = IF s = n THEN row ELSE shortcut[s]
  BY <1>1, <1>3 DEF DataOK
<1> HIDE DEF row, n
<1>8. Image(shortcut') = new
  BY <1>4, <1>5, <1>6, <1>7 DEF Image
<1>9. Counters(last') = [Counters(last) EXCEPT !.shortcut = @ + 1]
  BY <1>3 DEF Counters, n
<1>10. MappedDb' = [MappedDb EXCEPT !.shortcut =
                     @ \cup {[id |-> Counters(last').shortcut, creator |-> u]}]
  <2>1. MappedDb' = Skeleton(user, new)
    BY <1>3, <1>8 DEF MappedDb
  <2>2. Counters(last').shortcut = n /\ MappedDb.shortcut = Image(shortcut)
    BY <1>3 DEF Counters, MappedDb, Skeleton
  <2> HIDE DEF new
  <2>3. MappedDb' = [MappedDb EXCEPT !.shortcut = new]
    BY <2>1, SkeletonExcept DEF MappedDb
  <2>4. new = MappedDb.shortcut
                \cup {[id |-> Counters(last').shortcut, creator |-> u]}
    BY <2>2 DEF new
  <2> QED
    BY <2>3, <2>4
<1>11. Counters(last).shortcut < MaxShortcut
  BY <1>3 DEF Counters
<1>12. Tables!CreateShortcut(u)
  BY <1>9, <1>10, <1>11
  DEF Tables!CreateShortcut, MappedDb, Skeleton, Image, Counters
<1> QED
  BY <1>12 DEF Tables!KnownUsers, Users

LEMMA UpdateMapped ==
  ASSUME IInv, NEW w \in Workers, Update(w)
  PROVE  UNCHANGED Mapped
<1> DEFINE i     == request[w].id
           saved == [shortcut[i] EXCEPT !.body = request[w].body]
<1>1. user' = user /\ last' = last
  BY DEF Update
<1>2. CASE shortcut[i] = NoRow
  <2>1. shortcut' = shortcut
    BY <1>2 DEF Update
  <2> QED
    BY <1>1, <2>1 DEF Mapped, MappedDb
<1>3. CASE shortcut[i] # NoRow
  <2>1. DataOK /\ ControlOK /\ Knows(w)
    BY TypeSplits DEF IInv
  <2>2. i \in Ids /\ request[w].body \in Bodies
    <3>1. request[w] \in Requests /\ request[w].op = "patch"
      BY <2>1 DEF Update, Knows, Serving, ControlOK
    <3> QED
      BY <3>1, RequestFields
  <2>3. shortcut[i] \in Row /\ shortcut' = [shortcut EXCEPT ![i] = saved]
    BY <1>3, <2>1, <2>2 DEF Update, DataOK
  <2>4. saved # NoRow /\ saved.creator = shortcut[i].creator
    BY <2>2, <2>3, RowFields DEF Row
  <2>5. \A s \in Ids : shortcut'[s] = IF s = i THEN saved ELSE shortcut[s]
    BY <2>1, <2>3 DEF DataOK
  <2> HIDE DEF saved, i
  <2>6. Image(shortcut') = Image(shortcut)
    <3>1. \A s \in Ids :
            /\ shortcut'[s] = NoRow <=> shortcut[s] = NoRow
            /\ shortcut'[s] # NoRow =>
                 shortcut'[s].creator = shortcut[s].creator
      BY <1>3, <2>4, <2>5
    <3> QED
      BY <3>1, ImageUnchanged
  <2> QED
    BY <1>1, <2>6 DEF Mapped, MappedDb
<1> QED
  BY <1>2, <1>3

LEMMA DeleteMapped ==
  ASSUME IInv, NEW w \in Workers, Delete(w), shortcut[request[w].id] # NoRow
  PROVE  \E s \in Ids : Tables!DeleteShortcut(s)
<1>1. DataOK /\ ControlOK /\ Knows(w)
  BY TypeSplits DEF IInv
<1>2. request[w].id \in Ids
  <2>1. request[w] \in Requests /\ request[w].op = "delete"
    BY <1>1 DEF Delete, Knows, Serving, ControlOK
  <2> QED
    BY <2>1, RequestFields
<1> PICK i \in Ids : i = request[w].id
  BY <1>2
<1> DEFINE left == {r \in Image(shortcut) : r.id # i}
<1>3. /\ shortcut[i] # NoRow /\ shortcut' = [shortcut EXCEPT ![i] = NoRow]
      /\ user' = user /\ last' = last
  BY DEF Delete
<1>4. \A s \in Ids : shortcut'[s] = IF s = i THEN NoRow ELSE shortcut[s]
  BY <1>1, <1>3 DEF DataOK
<1>5. Image(shortcut') = left
  BY <1>4 DEF Image
<1> HIDE DEF left
<1>6. MappedDb' = [MappedDb EXCEPT !.shortcut = left]
  BY <1>3, <1>5, SkeletonExcept DEF MappedDb
<1>7. MappedDb.shortcut = Image(shortcut)
  BY DEF MappedDb, Skeleton
<1>8. MappedDb' = [MappedDb EXCEPT !.shortcut =
                     {r \in MappedDb.shortcut : r.id # i}]
  BY <1>6, <1>7 DEF left
<1>9. i \in Tables!IdsOf(MappedDb.shortcut)
  BY <1>3, <1>7, ImageIds
<1>10. Tables!DeleteShortcut(i)
  BY <1>3, <1>8, <1>9
  DEF Tables!DeleteShortcut, MappedDb, Skeleton, Image
<1> QED
  BY <1>10

LEMMA DeleteUserMapped ==
  ASSUME NEW w \in Workers, DeleteUser(w), request[w].target \in user,
         DataOK
  PROVE  \E u \in Users : Tables!DeleteUser(u)
<1> PICK u \in Users : u = request[w].target
  BY DEF DataOK
<1>1. /\ u \in user /\ user' = user \ {u} /\ shortcut' = Vacuumed(user')
      /\ last' = last
  BY DEF DeleteUser
<1>2. Image(shortcut') = {s \in Image(shortcut) : s.creator \in user'}
  BY <1>1, ImageVacuumed
<1>3. MappedDb' = Tables!vacuum(Skeleton(user', Image(shortcut)))
  BY <1>2, VacuumOfSkeleton DEF MappedDb
<1>4. [MappedDb EXCEPT !.user = @ \ {u}] = Skeleton(user', Image(shortcut))
  BY <1>1 DEF MappedDb, Skeleton
<1>5. MappedDb' = Tables!vacuum([MappedDb EXCEPT !.user = @ \ {u}])
  BY <1>3, <1>4
<1>6. Tables!DeleteUser(u)
  BY <1>1, <1>5 DEF Tables!DeleteUser, MappedDb, Skeleton, Image
<1> QED
  BY <1>6

LEMMA VacuumMapped ==
  ASSUME NEW w \in Workers, Vacuum(w)
  PROVE  Tables!Vacuum
<1>1. user' = user /\ last' = last /\ shortcut' = Vacuumed(user)
  BY DEF Vacuum
<1>2. Image(shortcut') = {s \in Image(shortcut) : s.creator \in user}
  BY <1>1, ImageVacuumed
<1>3. MappedDb' = Tables!vacuum(MappedDb)
  BY <1>1, <1>2, VacuumOfSkeleton DEF MappedDb
<1> QED
  BY <1>1, <1>3 DEF Tables!Vacuum, MappedDb, Skeleton, Image

LEMMA InitMapped == Init => Tables!Init
<1> SUFFICES ASSUME Init
             PROVE  Tables!Init
  OBVIOUS
<1>1. user = 1 .. NumUsers /\ last = 0 /\ \A s \in Ids : shortcut[s] = NoRow
  BY DEF Init, Users
<1>2. Image(shortcut) = {}
  BY <1>1 DEF Image
<1>3. NumUsers \in 0 .. NumUsers
  BY ShortcutsAssumption
<1> QED
  BY <1>1, <1>2, <1>3 DEF Tables!Init, Image

\* Every other step of a worker leaves the two tables alone.
LEMMA StepMapped ==
  ASSUME IInv, Next
  PROVE  Tables!Next \/ UNCHANGED Mapped
<1>1. CASE UNCHANGED db
  BY <1>1 DEF db, Mapped, MappedDb
<1>2. ASSUME NEW w \in Workers, Insert(w)
      PROVE  Tables!Next
  BY <1>2, InsertMapped DEF Tables!Next
<1>3. ASSUME NEW w \in Workers, Delete(w)
      PROVE  Tables!Next \/ UNCHANGED db
  <2>1. CASE shortcut[request[w].id] # NoRow
    BY <1>3, <2>1, DeleteMapped DEF Tables!Next, Tables!ShortcutIds, Ids
  <2>2. CASE shortcut[request[w].id] = NoRow
    BY <1>3, <2>2 DEF Delete, db
  <2> QED
    BY <2>1, <2>2
<1>4. ASSUME NEW w \in Workers, DeleteUser(w)
      PROVE  Tables!Next \/ UNCHANGED db
  <2>1. CASE request[w].target \in user
    <3>1. \E u \in Users : Tables!DeleteUser(u)
      BY <1>4, <2>1, DeleteUserMapped, TypeSplits DEF IInv
    <3> QED
      BY <3>1 DEF Tables!Next, Tables!UserIds, Users
  <2>2. CASE request[w].target \notin user
    BY <1>4, <2>2 DEF DeleteUser, db
  <2> QED
    BY <2>1, <2>2
<1>5. ASSUME NEW w \in Workers, Vacuum(w)
      PROVE  Tables!Next
  BY <1>5, VacuumMapped DEF Tables!Next
<1>6. ASSUME NEW w \in Workers, Receive(w) \/ Handle(w) \/ Fail(w),
             ~ Insert(w), ~ Update(w), ~ Delete(w), ~ DeleteUser(w), ~ Vacuum(w)
      PROVE  UNCHANGED db
  BY <1>6 DEF Receive, Handle, Fail, Load, Select, Fill, InsertFull, Save,
     Activity, Uncache, Reply
<1>7. Restart => UNCHANGED db
  BY DEF Restart
<1> QED
  BY <1>1, <1>2, <1>3, <1>4, <1>5, <1>6, <1>7, UpdateMapped DEF Next

\* Shortcuts implements StoreDB: whatever handlers, failures and restarts
\* interleave, the tables user and shortcut change by whole transactions only
\* (store/shortcut.go, store/user.go:321, store/store.go:28).
THEOREM ImplementsTables == Spec => RefinesTables
<1>1. Init => Tables!Init
  BY InitMapped
<1>2. IInv /\ [Next]_vars => [Tables!Next]_(Tables!vars)
  <2>1. UNCHANGED vars => UNCHANGED Mapped
    BY DEF vars, db, Mapped, MappedDb
  <2> QED
    BY <2>1, StepMapped, MappedIsMapped
<1> QED
  BY <1>1, <1>2, Invariance, PTL DEF Spec, RefinesTables, Tables!Spec
=============================================================================
