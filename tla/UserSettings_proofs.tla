------------------------- MODULE UserSettings_proofs -------------------------
(***************************************************************************)
(* Proofs about UserSettings for any number of users and workers.          *)
(***************************************************************************)
EXTENDS UserSettings, TLAPS

LEMMA RequestFields ==
  ASSUME NEW r \in Requests
  PROVE  /\ r # NoRequest
         /\ r.op \in {"set", "list", "create", "disable", "deleteUser", "vacuum"}
         /\ r.op \in {"set", "list", "create", "deleteUser"} => r.user \in Users
         /\ r.op = "set" => r.value \in Values
         /\ r.op = "create" => r.visibility \in Asked
         /\ r.op = "disable" => r.value \in BOOLEAN
  BY SettingsAssumption DEF Requests

LEMMA DecodeType ==
  ASSUME NEW value \in Setting
  PROVE  Decode(value) \in Visibilities
  BY DEF Decode, Visibilities

-----------------------------------------------------------------------------
(***************************************************************************)
(* A step of worker w leaves the others where they are.                    *)
(***************************************************************************)
DataOK ==
  /\ user \subseteq Users
  /\ setting \in [Users -> Setting]
  /\ disabled \in BOOLEAN
  /\ cache \in [Users -> Setting \cup {Miss}]
  /\ raced \subseteq Users
  /\ seen \in [Workers -> SUBSET Setting]
  /\ allowed \subseteq Workers

ControlOK ==
  /\ pc \in [Workers -> Steps]
  /\ held \in [Workers -> Setting \cup Asked \cup Visibilities]
  /\ request \in [Workers -> Requests \cup {NoRequest}]

LEMMA TypeSplits == TypeOK <=> DataOK /\ ControlOK
BY DEF TypeOK, DataOK, ControlOK

OnlyMoves(w) ==
  \A v \in Workers \ {w} :
    pc'[v] = pc[v] /\ held'[v] = held[v] /\ request'[v] = request[v]

LEMMA GotoEffect ==
  ASSUME ControlOK, NEW w \in Workers, NEW s \in Steps, Goto(w, s)
  PROVE  /\ ControlOK' /\ OnlyMoves(w) /\ pc'[w] = s
         /\ held'[w] = held[w] /\ request'[w] = request[w]
  BY DEF ControlOK, OnlyMoves, Goto

LEMMA TakeEffect ==
  ASSUME ControlOK, NEW w \in Workers, NEW s \in Steps,
         NEW value \in Setting \cup Asked \cup Visibilities, Take(w, value, s)
  PROVE  /\ ControlOK' /\ OnlyMoves(w) /\ pc'[w] = s
         /\ held'[w] = value /\ request'[w] = request[w]
  BY DEF ControlOK, OnlyMoves, Take

LEMMA FinishEffect ==
  ASSUME ControlOK, NEW w \in Workers, Finish(w)
  PROVE  /\ ControlOK' /\ OnlyMoves(w) /\ pc'[w] = "idle" /\ request'[w] = NoRequest
  BY DEF ControlOK, OnlyMoves, Finish, Steps, Setting

-----------------------------------------------------------------------------
(***************************************************************************)
(* What a step may do to what the invariant of the other workers is about. *)
(***************************************************************************)
StoredByOther(w, u) == \E v \in Workers \ {w} : Storing(v, u)

StoringNext(w, u) == pc'[w] \in {"fill", "store"} /\ request'[w].user = u

\* The row goes with its account.
Gone(u) == setting'[u] = Unset /\ u \notin user'

\* Accounts only go, and a setting that is written counts as raced where
\* another worker is about to store it, unless it goes with its account.
Announced(w) ==
  /\ user' \subseteq user
  /\ raced \subseteq raced'
  /\ \A u \in Users : setting'[u] # setting[u] =>
       Gone(u) \/ (StoredByOther(w, u) => u \in raced')

\* The history of the others only grows, by what is written meanwhile.
Remembered(w) ==
  \A v \in Workers \ {w} :
    /\ seen[v] \subseteq seen'[v]
    /\ v \in allowed => v \in allowed'
    /\ Serving(v, {"create"}) /\ ~ disabled' /\ disabled => v \in allowed'
    /\ Choosing(v) /\ setting'[request[v].user] # setting[request[v].user]
         => setting'[request[v].user] \in seen'[v]

HistoryKept(w) ==
  \A v \in Workers \ {w} :
    /\ seen'[v] = seen[v]
    /\ v \in allowed => v \in allowed'
    /\ Serving(v, {"create"}) /\ ~ disabled' /\ disabled => v \in allowed'

\* An entry changes to what w had in hand to store, or is kept while nobody
\* writes its row without going on to store it.
Cached(w) ==
  \A u \in Users : cache'[u] # Miss =>
    \/ Storing(w, u) /\ cache'[u] = held[w] /\ setting'[u] = setting[u]
    \/ /\ cache'[u] = cache[u]
       /\ \/ ~ Storing(w, u) /\ (setting'[u] = setting[u] \/ Gone(u))
          \/ StoringNext(w, u)

DefaultOf(w) ==
  pc[w] = "check" /\ Defaulting(request[w]) /\ request[w].user \in user \ raced
  => held[w] \in {Decode(value) : value \in seen[w]}

AgreesNext(u, value) == value = setting'[u] \/ Gone(u)

LEMMA AgreesStays ==
  ASSUME user' \subseteq user, NEW u \in Users, NEW value, Agrees(u, value),
         setting'[u] = setting[u] \/ Gone(u)
  PROVE  AgreesNext(u, value)
  BY DEF Agrees, AgreesNext, Gone

LEMMA StorerServes ==
  ASSUME ControlOK, NEW w \in Workers, Knows(w), pc[w] \in {"load", "find", "fill", "store"}
  PROVE  /\ request[w] \in Requests /\ request[w].user \in Users
         /\ pc[w] # "store" => Defaulting(request[w])
  BY RequestFields DEF ControlOK, Knows, Serving, Defaulting

LEMMA WorkerStep ==
  ASSUME IInv, NEW w \in Workers, OnlyMoves(w), ControlOK', DataOK',
         Announced(w), Remembered(w), Cached(w),
         \A u \in Users : StoringNext(w, u) => held'[w] = setting'[u],
         Knows(w)', SeenCovers(w)', AllowedPast(w)', DefaultOf(w)'
  PROVE  IInv'
<1>0. DataOK /\ ControlOK
  BY TypeSplits DEF IInv
<1>1. TypeOK'
  BY DEF TypeOK, DataOK, ControlOK
<1>2. ASSUME NEW v \in Workers, v # w
      PROVE  Knows(v)' /\ AllowedPast(v)'
  <2>1. /\ pc'[v] = pc[v] /\ held'[v] = held[v] /\ request'[v] = request[v]
        /\ v \in allowed => v \in allowed'
        /\ Serving(v, {"create"}) /\ ~ disabled' /\ disabled => v \in allowed'
        /\ Knows(v) /\ AllowedPast(v)
    BY <1>2 DEF OnlyMoves, Remembered, IInv
  <2>2. disabled \in BOOLEAN /\ disabled' \in BOOLEAN
    BY <1>0 DEF DataOK
  <2> QED
    BY <2>1, <2>2 DEF Knows, Serving, Defaulting, AllowedPast
<1>3. ASSUME NEW v \in Workers, v # w
      PROVE  FreshInHand(v)'
  <2>1. pc'[v] = pc[v] /\ held'[v] = held[v] /\ request'[v] = request[v]
    BY <1>3 DEF OnlyMoves
  <2> SUFFICES ASSUME pc[v] \in {"fill", "store"}, request[v].user \notin raced'
               PROVE  AgreesNext(request[v].user, held[v])
    BY <2>1 DEF FreshInHand, Agrees, AgreesNext, Gone
  <2>2. request[v].user \in Users /\ Agrees(request[v].user, held[v])
    BY <1>0, StorerServes DEF IInv, FreshInHand, Announced
  <2>3. StoredByOther(w, request[v].user)
    BY <1>3 DEF StoredByOther, Storing
  <2> QED
    BY <2>2, <2>3, AgreesStays DEF Announced
<1>4. FreshInHand(w)'
  <2> SUFFICES ASSUME pc'[w] \in {"fill", "store"}
               PROVE  AgreesNext(request'[w].user, held'[w])
    BY DEF FreshInHand, Agrees, AgreesNext, Gone
  <2>1. request'[w].user \in Users
    BY RequestFields DEF ControlOK, Knows, Serving, Defaulting
  <2>2. StoringNext(w, request'[w].user)
    BY DEF StoringNext
  <2> QED
    BY <2>1, <2>2 DEF AgreesNext
<1>5. ASSUME NEW v \in Workers, v # w
      PROVE  SeenCovers(v)'
  <2>1. /\ pc'[v] = pc[v] /\ held'[v] = held[v] /\ request'[v] = request[v]
        /\ seen[v] \subseteq seen'[v]
    BY <1>5 DEF OnlyMoves, Remembered
  <2> DEFINE u == request[v].user
  <2> SUFFICES ASSUME pc[v] \in {"load", "find", "fill"}, u \in user'
               PROVE  /\ setting'[u] \in seen'[v]
                      /\ pc[v] = "fill" => held[v] \in seen'[v]
                      /\ u \notin raced' =>
                           /\ cache'[u] # Miss => cache'[u] \in seen'[v]
                           /\ \A x \in Workers : StoringNext(x, u) => held'[x] \in seen'[v]
    BY <2>1 DEF SeenCovers, Storing, StoringNext
  <2>2. u \in Users /\ Choosing(v)
    BY <1>0, StorerServes DEF IInv, Choosing
  <2>3. u \in user /\ SeenCovers(v)
    BY DEF Announced, IInv
  <2>4. /\ setting[u] \in seen[v]
        /\ pc[v] = "fill" => held[v] \in seen[v]
        /\ u \notin raced =>
             /\ cache[u] # Miss => cache[u] \in seen[v]
             /\ \A x \in Workers : Storing(x, u) => held[x] \in seen[v]
    BY <2>3 DEF SeenCovers
  <2>5. setting'[u] \in seen'[v]
    BY <1>5, <2>1, <2>2, <2>4 DEF Remembered
  <2>6. ASSUME u \notin raced'
        PROVE  /\ cache'[u] # Miss => cache'[u] \in seen'[v]
               /\ \A x \in Workers : StoringNext(x, u) => held'[x] \in seen'[v]
    <3>1. u \notin raced
      BY <2>6 DEF Announced
    <3>2. cache'[u] # Miss => cache'[u] \in seen'[v]
      BY <2>1, <2>2, <2>4, <3>1 DEF Cached
    <3>3. ASSUME NEW x \in Workers, StoringNext(x, u)
          PROVE  held'[x] \in seen'[v]
      <4>1. CASE x = w
        BY <2>2, <2>5, <3>3, <4>1
      <4>2. CASE x # w
        BY <2>1, <2>4, <3>1, <3>3, <4>2 DEF OnlyMoves, Storing, StoringNext
      <4> QED
        BY <4>1, <4>2
    <3> QED
      BY <3>2, <3>3
  <2> QED
    BY <2>1, <2>4, <2>5, <2>6
<1>6. ASSUME NEW v \in Workers, v # w
      PROVE  DefaultOf(v)'
  <2>1. /\ pc'[v] = pc[v] /\ held'[v] = held[v] /\ request'[v] = request[v]
        /\ seen[v] \subseteq seen'[v] /\ user' \subseteq user /\ raced \subseteq raced'
    BY <1>6 DEF OnlyMoves, Remembered, Announced
  <2>2. DefaultOf(v)
    BY DEF IInv, DefaultIsRecent, DefaultOf
  <2> QED
    BY <2>1, <2>2 DEF DefaultOf, Defaulting
<1>7. StaleOnlyAfterRace'
  <2> SUFFICES ASSUME NEW u \in Users, u \notin raced', cache'[u] # Miss, ~ Settling(u)'
               PROVE  AgreesNext(u, cache'[u])
    BY DEF StaleOnlyAfterRace, Agrees, AgreesNext, Gone
  <2>1. u \notin raced /\ user' \subseteq user
    BY DEF Announced
  <2>2. CASE Storing(w, u) /\ cache'[u] = held[w] /\ setting'[u] = setting[u]
    <3>1. Agrees(u, held[w])
      BY <2>1, <2>2 DEF IInv, FreshInHand, Storing
    <3> QED
      BY <2>1, <2>2, <3>1, AgreesStays
  <2>3. CASE /\ cache'[u] = cache[u] /\ ~ Storing(w, u)
             /\ setting'[u] = setting[u] \/ Gone(u)
    <3>1. ~ Settling(u)
      <4> SUFFICES ASSUME NEW v \in Workers, Storing(v, u)
                   PROVE  FALSE
        BY DEF Settling
      <4>1. v # w
        BY <2>3
      <4>2. StoringNext(v, u)
        BY <4>1 DEF Storing, StoringNext, OnlyMoves
      <4> QED
        BY <4>2 DEF Settling, Storing, StoringNext
    <3>2. Agrees(u, cache[u])
      BY <2>1, <2>3, <3>1 DEF IInv, StaleOnlyAfterRace
    <3> QED
      BY <2>1, <2>3, <3>2, AgreesStays
  <2>4. ~ StoringNext(w, u)
    BY DEF Settling, Storing, StoringNext
  <2> QED
    BY <2>2, <2>3, <2>4 DEF Cached
<1>8. \A v \in Workers : Knows(v)' /\ FreshInHand(v)' /\ SeenCovers(v)' /\ AllowedPast(v)'
  BY <1>2, <1>3, <1>4, <1>5
<1>9. DefaultIsRecent'
  <2>1. \A v \in Workers : DefaultOf(v)'
    BY <1>6
  <2> QED
    BY <2>1 DEF DefaultIsRecent, DefaultOf
<1> QED
  BY <1>1, <1>7, <1>8, <1>9 DEF IInv

\* The same for a step that leaves table and cache alone, was storing nothing
\* and leaves the history of the others alone.
LEMMA LocalStep ==
  ASSUME IInv, NEW w \in Workers, OnlyMoves(w), ControlOK', DataOK',
         UNCHANGED <<user, setting, cache, raced>>,
         HistoryKept(w),
         pc[w] \notin {"fill", "store"},
         \A u \in Users : StoringNext(w, u) => held'[w] = setting[u],
         Knows(w)', SeenCovers(w)', AllowedPast(w)', DefaultOf(w)'
  PROVE  IInv'
<1>1. Announced(w) /\ Remembered(w)
  BY DEF Announced, Remembered, HistoryKept
<1>2. Cached(w)
  BY DEF Cached, Storing
<1> QED
  BY <1>1, <1>2, WorkerStep

-----------------------------------------------------------------------------
(***************************************************************************)
(* One lemma per action, or group of actions with the same effect.         *)
(***************************************************************************)
\* A worker that is idle in the next state has nothing to keep.
LEMMA IdleKeeps ==
  ASSUME NEW w \in Workers, pc'[w] = "idle", request'[w] = NoRequest
  PROVE  /\ Knows(w)' /\ SeenCovers(w)' /\ AllowedPast(w)' /\ DefaultOf(w)'
         /\ \A u \in Users : ~ StoringNext(w, u)
  BY DEF Knows, SeenCovers, AllowedPast, DefaultOf, StoringNext, Serving

LEMMA EndStep ==
  ASSUME IInv, NEW w \in Workers, Finish(w), DataOK',
         UNCHANGED <<user, setting, cache, raced>>,
         HistoryKept(w),
         pc[w] \notin {"fill", "store"}
  PROVE  IInv'
<1>1. /\ OnlyMoves(w) /\ ControlOK'
      /\ pc'[w] = "idle" /\ request'[w] = NoRequest
  BY FinishEffect, TypeSplits DEF IInv
<1> QED
  BY <1>1, IdleKeeps, LocalStep

\* A plain end leaves all the data alone.
LEMMA QuietEnd ==
  ASSUME IInv, NEW w \in Workers, Finish(w), UNCHANGED <<db, cache, history>>,
         pc[w] \notin {"fill", "store"}
  PROVE  IInv'
<1>1. /\ user' = user /\ setting' = setting /\ disabled' = disabled
      /\ cache' = cache /\ raced' = raced /\ seen' = seen /\ allowed' = allowed
  BY DEF db, history
<1>2. DataOK' /\ HistoryKept(w)
  BY <1>1, TypeSplits DEF IInv, DataOK, HistoryKept
<1> QED
  BY <1>1, <1>2, EndStep

LEMMA FinishCreateStep ==
  ASSUME IInv, NEW w \in Workers, FinishCreate(w), pc[w] \notin {"fill", "store"}
  PROVE  IInv'
<1>0. DataOK
  BY TypeSplits DEF IInv
<1>1. /\ user' = user /\ setting' = setting /\ disabled' = disabled
      /\ cache' = cache /\ raced' = raced
      /\ seen' = [seen EXCEPT ![w] = {}] /\ allowed' = allowed \ {w}
  BY DEF FinishCreate, db
<1>2. DataOK' /\ HistoryKept(w)
  BY <1>0, <1>1 DEF DataOK, HistoryKept
<1> QED
  BY <1>1, <1>2, EndStep DEF FinishCreate

LEMMA ReceiveStep ==
  ASSUME IInv, NEW w \in Workers, Receive(w)
  PROVE  IInv'
<1>0. DataOK /\ ControlOK /\ pc[w] = "idle"
  BY TypeSplits DEF IInv, Receive
<1>1. PICK r \in Requests :
        /\ request' = [request EXCEPT ![w] = r]
        /\ held' = [held EXCEPT ![w] = IF r.op = "create" THEN r.visibility ELSE Unset]
        /\ pc' = [pc EXCEPT ![w] =
                    CASE r.op = "set" -> "upsert"
                      [] r.op = "list" -> "select"
                      [] r.op = "create" ->
                           IF r.visibility = "" THEN "load" ELSE "check"
                      [] OTHER -> r.op]
        /\ seen' = [seen EXCEPT ![w] =
                      IF ~ Defaulting(r) THEN {}
                      ELSE {setting[r.user]} \cup
                           (IF Settling(r.user) THEN {cache[r.user]} \ {Miss} ELSE {})]
        /\ allowed' = IF r.op = "create" /\ ~ disabled THEN allowed \cup {w} ELSE allowed
  BY DEF Receive
<1>2. user' = user /\ setting' = setting /\ disabled' = disabled
      /\ cache' = cache /\ raced' = raced
  BY DEF Receive, db
<1>3. /\ r # NoRequest
      /\ r.op \in {"set", "list", "create", "disable", "deleteUser", "vacuum"}
      /\ r.op = "create" => r.user \in Users /\ r.visibility \in Asked
  BY RequestFields
<1>4. pc'[w] = CASE r.op = "set" -> "upsert"
                 [] r.op = "list" -> "select"
                 [] r.op = "create" -> IF r.visibility = "" THEN "load" ELSE "check"
                 [] OTHER -> r.op
  BY <1>0, <1>1 DEF ControlOK
<1>5. /\ pc'[w] \in {"upsert", "select", "load", "check", "disable", "deleteUser", "vacuum"}
      /\ request'[w] = r
      /\ pc'[w] \in {"load", "check"} => r.op = "create"
      /\ pc'[w] = "load" => Defaulting(r)
      /\ pc'[w] = "check" => ~ Defaulting(r)
      /\ pc'[w] = "upsert" => r.op = "set"
      /\ pc'[w] = "select" => r.op = "list"
      /\ pc'[w] = "disable" => r.op = "disable"
      /\ pc'[w] = "deleteUser" => r.op = "deleteUser"
  BY <1>0, <1>1, <1>3, <1>4 DEF ControlOK, Defaulting
<1>6. OnlyMoves(w)
  BY <1>0, <1>1 DEF ControlOK, OnlyMoves
<1>7. ControlOK'
  <2>1. pc' \in [Workers -> Steps]
    BY <1>0, <1>1, <1>4, <1>5 DEF ControlOK, Steps
  <2>2. held' \in [Workers -> Setting \cup Asked \cup Visibilities]
    BY <1>0, <1>1, <1>3 DEF ControlOK, Setting
  <2>3. request' \in [Workers -> Requests \cup {NoRequest}]
    BY <1>0, <1>1 DEF ControlOK
  <2> QED
    BY <2>1, <2>2, <2>3 DEF ControlOK
<1> DEFINE first == {setting[r.user]} \cup
                    (IF Settling(r.user) THEN {cache[r.user]} \ {Miss} ELSE {})
<1>8. DataOK'
  <2>1. Defaulting(r) => first \subseteq Setting
    BY <1>0, <1>3 DEF DataOK, Defaulting
  <2>2. seen' \in [Workers -> SUBSET Setting]
    BY <1>0, <1>1, <2>1 DEF DataOK
  <2> QED
    BY <1>0, <1>1, <1>2, <2>2 DEF DataOK
<1>9. HistoryKept(w)
  BY <1>0, <1>1, <1>2 DEF DataOK, HistoryKept
<1>10. Knows(w)'
  BY <1>3, <1>5 DEF Knows, Serving, Defaulting
<1>11. AllowedPast(w)' /\ DefaultOf(w)'
  BY <1>0, <1>1, <1>2, <1>5 DEF AllowedPast, DefaultOf, Serving, DataOK
<1>12. \A u \in Users : ~ StoringNext(w, u)
  BY <1>5 DEF StoringNext
<1>13. SeenCovers(w)'
  <2> SUFFICES ASSUME pc'[w] = "load", r.user \in user
               PROVE  /\ setting[r.user] \in seen'[w]
                      /\ r.user \notin raced =>
                           /\ cache[r.user] # Miss => cache[r.user] \in seen'[w]
                           /\ \A v \in Workers :
                                StoringNext(v, r.user) => held'[v] \in seen'[w]
    BY <1>2, <1>5 DEF SeenCovers, Storing, StoringNext
  <2>1. seen'[w] = first /\ r.user \in Users
    BY <1>0, <1>1, <1>3, <1>5 DEF DataOK, Defaulting
  <2>2. ASSUME r.user \notin raced, cache[r.user] # Miss
        PROVE  cache[r.user] \in first
    <3>1. CASE Settling(r.user)
      BY <2>2, <3>1
    <3>2. CASE ~ Settling(r.user)
      BY <2>1, <2>2, <3>2 DEF IInv, StaleOnlyAfterRace, Agrees
    <3> QED
      BY <3>1, <3>2
  <2>3. ASSUME r.user \notin raced, NEW v \in Workers, StoringNext(v, r.user)
        PROVE  held'[v] \in first
    <3>1. v # w
      BY <1>12, <2>1, <2>3
    <3>2. held'[v] = held[v] /\ Storing(v, r.user)
      BY <1>6, <2>3, <3>1 DEF OnlyMoves, Storing, StoringNext
    <3>3. Agrees(r.user, held[v])
      BY <2>3, <3>2 DEF IInv, FreshInHand, Storing
    <3> QED
      BY <3>2, <3>3 DEF Agrees
  <2> QED
    BY <2>1, <2>2, <2>3
<1>14. pc[w] \notin {"fill", "store"}
  BY <1>0
<1> QED
  BY <1>2, <1>6, <1>7, <1>8, <1>9, <1>10, <1>11, <1>12, <1>13, <1>14, LocalStep

\* A step to the next place that leaves all the data alone.
LEMMA OnStep ==
  ASSUME IInv, NEW w \in Workers, OnlyMoves(w), ControlOK',
         UNCHANGED <<db, cache, history>>, pc[w] \notin {"fill", "store"},
         \A u \in Users : StoringNext(w, u) => held'[w] = setting[u],
         Knows(w)', SeenCovers(w)', AllowedPast(w)', DefaultOf(w)'
  PROVE  IInv'
<1>1. /\ user' = user /\ setting' = setting /\ disabled' = disabled
      /\ cache' = cache /\ raced' = raced /\ seen' = seen /\ allowed' = allowed
  BY DEF db, history
<1>2. DataOK' /\ HistoryKept(w)
  BY <1>1, TypeSplits DEF IInv, DataOK, HistoryKept
<1> QED
  BY <1>1, <1>2, LocalStep

\* Before the insert it is enough that w was allowed where it is now.
LEMMA AllowedStays ==
  ASSUME IInv, NEW w \in Workers, request'[w] = request[w], pc'[w] # "insert",
         UNCHANGED <<db, cache, history>>
  PROVE  AllowedPast(w)'
<1>1. disabled' = disabled /\ allowed' = allowed
  BY DEF db, history
<1> QED
  BY <1>1 DEF IInv, AllowedPast, Serving

LEMMA SelectStep ==
  ASSUME IInv, NEW w \in Workers, Select(w)
  PROVE  IInv'
<1>0. /\ DataOK /\ ControlOK /\ pc[w] = "select" /\ Serving(w, {"list"})
      /\ UNCHANGED <<db, cache, history>>
  BY TypeSplits DEF IInv, Knows, Select
<1>1. request[w] \in Requests /\ request[w].user \in Users
  BY <1>0, RequestFields DEF ControlOK, Serving
<1> DEFINE row == setting[request[w].user]
<1>2. CASE row # Unset
  <2>1. row \in Setting /\ Take(w, row, "store")
    BY <1>0, <1>1, <1>2 DEF Select, DataOK
  <2>2. /\ ControlOK' /\ OnlyMoves(w) /\ pc'[w] = "store" /\ held'[w] = row
        /\ request'[w] = request[w]
    BY <1>0, <2>1, TakeEffect DEF Steps
  <2>3. /\ Knows(w)' /\ SeenCovers(w)' /\ AllowedPast(w)' /\ DefaultOf(w)'
        /\ \A u \in Users : StoringNext(w, u) => held'[w] = setting[u]
    BY <1>0, <2>1, <2>2, AllowedStays
       DEF Knows, Serving, SeenCovers, DefaultOf, StoringNext
  <2> QED
    BY <1>0, <2>2, <2>3, OnStep
<1>3. CASE row = Unset
  BY <1>0, <1>3, QuietEnd DEF Select
<1> QED
  BY <1>2, <1>3

\* Places from which a request for a default goes on.
LEMMA Covered ==
  ASSUME IInv, NEW w \in Workers, pc[w] \in {"load", "find", "fill"}
  PROVE  /\ DataOK /\ ControlOK /\ Defaulting(request[w])
         /\ request[w] \in Requests /\ request[w].user \in Users
         /\ SeenCovers(w) /\ seen[w] \subseteq Setting
  BY TypeSplits, StorerServes DEF IInv, DataOK

LEMMA LoadStep ==
  ASSUME IInv, NEW w \in Workers, Load(w)
  PROVE  IInv'
<1>0. /\ DataOK /\ ControlOK /\ Defaulting(request[w]) /\ pc[w] = "load"
      /\ request[w].user \in Users /\ SeenCovers(w)
      /\ UNCHANGED <<db, cache, history>>
  BY Covered DEF Load
<1> DEFINE entry == cache[request[w].user]
<1>1. /\ user' = user /\ setting' = setting /\ cache' = cache
      /\ raced' = raced /\ seen' = seen
  BY <1>0 DEF db, history
<1>2. CASE entry # Miss
  <2>1. entry \in Setting /\ Take(w, Decode(entry), "check")
    BY <1>0, <1>2 DEF Load, DataOK
  <2>2. /\ ControlOK' /\ OnlyMoves(w) /\ pc'[w] = "check"
        /\ held'[w] = Decode(entry) /\ request'[w] = request[w]
    BY <1>0, <2>1, TakeEffect, DecodeType DEF Steps
  <2>3. DefaultOf(w)'
    BY <1>0, <1>1, <1>2, <2>2 DEF DefaultOf, SeenCovers
  <2>4. /\ Knows(w)' /\ SeenCovers(w)' /\ AllowedPast(w)'
        /\ \A u \in Users : ~ StoringNext(w, u)
    BY <1>0, <2>2, AllowedStays
       DEF Knows, Serving, Defaulting, SeenCovers, StoringNext
  <2> QED
    BY <1>0, <2>2, <2>3, <2>4, OnStep
<1>3. CASE entry = Miss
  <2>1. Goto(w, "find")
    BY <1>3 DEF Load
  <2>2. /\ ControlOK' /\ OnlyMoves(w) /\ pc'[w] = "find"
        /\ held'[w] = held[w] /\ request'[w] = request[w]
    BY <1>0, <2>1, GotoEffect DEF Steps
  <2>3. SeenCovers(w)'
    <3>1. \A v \in Workers, u \in Users :
            Storing(v, u)' => Storing(v, u) /\ held'[v] = held[v]
      BY <1>0, <2>2 DEF OnlyMoves, Storing
    <3> QED
      BY <1>0, <1>1, <2>2, <3>1 DEF SeenCovers, Storing
  <2>4. /\ Knows(w)' /\ AllowedPast(w)' /\ DefaultOf(w)'
        /\ \A u \in Users : ~ StoringNext(w, u)
    BY <1>0, <2>2, AllowedStays DEF Knows, Defaulting, DefaultOf, StoringNext
  <2> QED
    BY <1>0, <2>2, <2>3, <2>4, OnStep
<1> QED
  BY <1>2, <1>3

LEMMA FindStep ==
  ASSUME IInv, NEW w \in Workers, Find(w)
  PROVE  IInv'
<1>0. /\ DataOK /\ ControlOK /\ Defaulting(request[w]) /\ pc[w] = "find"
      /\ request[w].user \in Users /\ SeenCovers(w)
      /\ UNCHANGED <<db, cache, history>>
  BY Covered DEF Find
<1> DEFINE row == setting[request[w].user]
<1>1. /\ user' = user /\ setting' = setting /\ cache' = cache
      /\ raced' = raced /\ seen' = seen
  BY <1>0 DEF db, history
<1>2. row \in Setting /\ Take(w, row, "fill")
  BY <1>0 DEF Find, DataOK
<1>3. /\ ControlOK' /\ OnlyMoves(w) /\ pc'[w] = "fill" /\ held'[w] = row
      /\ request'[w] = request[w]
  BY <1>0, <1>2, TakeEffect DEF Steps
<1>4. SeenCovers(w)'
  <2>1. \A v \in Workers \ {w}, u \in Users :
          Storing(v, u)' => Storing(v, u) /\ held'[v] = held[v]
    BY <1>3 DEF OnlyMoves, Storing
  <2> QED
    BY <1>0, <1>1, <1>3, <2>1 DEF SeenCovers, Storing
<1>5. /\ Knows(w)' /\ AllowedPast(w)' /\ DefaultOf(w)'
      /\ \A u \in Users : StoringNext(w, u) => held'[w] = setting[u]
  BY <1>0, <1>2, <1>3, AllowedStays DEF Knows, Defaulting, DefaultOf, StoringNext
<1> QED
  BY <1>0, <1>3, <1>4, <1>5, OnStep

\* Storing an entry: what w had in hand agrees, unless a write came since.
LEMMA CachedByStore ==
  ASSUME DataOK, NEW w \in Workers, request[w].user \in Users, UNCHANGED db,
         pc[w] \in {"fill", "store"},
         cache' = [cache EXCEPT ![request[w].user] = held[w]]
  PROVE  Cached(w)
<1>1. setting' = setting
  BY DEF db
<1> QED
  BY <1>1 DEF DataOK, Cached, Storing

LEMMA NothingWritten ==
  ASSUME NEW w \in Workers, UNCHANGED <<db, history>>
  PROVE  Announced(w) /\ Remembered(w)
<1>1. /\ user' = user /\ setting' = setting /\ disabled' = disabled
      /\ raced' = raced /\ seen' = seen /\ allowed' = allowed
  BY DEF db, history
<1> QED
  BY <1>1 DEF Announced, Remembered

LEMMA StoreStep ==
  ASSUME IInv, NEW w \in Workers, Store(w)
  PROVE  IInv'
<1>0. /\ DataOK /\ ControlOK /\ pc[w] = "store" /\ held[w] \in Setting
      /\ request[w].user \in Users
      /\ cache' = [cache EXCEPT ![request[w].user] = held[w]]
      /\ Finish(w) /\ UNCHANGED <<db, history>>
  BY TypeSplits, StorerServes DEF IInv, Knows, Store
<1>1. DataOK'
  BY <1>0 DEF DataOK, db, history
<1>2. /\ OnlyMoves(w) /\ ControlOK'
      /\ pc'[w] = "idle" /\ request'[w] = NoRequest
  BY <1>0, FinishEffect
<1>3. Announced(w) /\ Remembered(w) /\ Cached(w)
  BY <1>0, NothingWritten, CachedByStore
<1>4. /\ Knows(w)' /\ SeenCovers(w)' /\ AllowedPast(w)' /\ DefaultOf(w)'
      /\ \A u \in Users : ~ StoringNext(w, u)
  BY <1>2, IdleKeeps
<1> QED
  BY <1>1, <1>2, <1>3, <1>4, WorkerStep

LEMMA FillStep ==
  ASSUME IInv, NEW w \in Workers, Fill(w)
  PROVE  IInv'
<1>0. /\ DataOK /\ ControlOK /\ Defaulting(request[w]) /\ pc[w] = "fill"
      /\ request[w].user \in Users /\ SeenCovers(w) /\ held[w] \in Setting
      /\ cache' = [cache EXCEPT ![request[w].user] = held[w]]
      /\ Take(w, Decode(held[w]), "check") /\ UNCHANGED <<db, history>>
  BY Covered DEF Fill, IInv, Knows
<1>1. /\ user' = user /\ setting' = setting /\ disabled' = disabled
      /\ raced' = raced /\ seen' = seen /\ allowed' = allowed
  BY <1>0 DEF db, history
<1>2. DataOK'
  BY <1>0, <1>1 DEF DataOK
<1>3. /\ ControlOK' /\ OnlyMoves(w) /\ pc'[w] = "check"
      /\ held'[w] = Decode(held[w]) /\ request'[w] = request[w]
  BY <1>0, TakeEffect, DecodeType DEF Steps
<1>4. Announced(w) /\ Remembered(w) /\ Cached(w)
  BY <1>0, NothingWritten, CachedByStore
<1>5. DefaultOf(w)'
  BY <1>0, <1>1, <1>3 DEF DefaultOf, SeenCovers
<1>6. /\ Knows(w)' /\ SeenCovers(w)' /\ AllowedPast(w)'
      /\ \A u \in Users : ~ StoringNext(w, u)
  BY <1>0, <1>1, <1>3
     DEF IInv, Knows, Serving, Defaulting, SeenCovers, AllowedPast, StoringNext
<1> QED
  BY <1>2, <1>3, <1>4, <1>5, <1>6, WorkerStep

LEMMA UpsertStep ==
  ASSUME IInv, NEW w \in Workers, Upsert(w)
  PROVE  IInv'
<1> DEFINE u == request[w].user
           value == request[w].value
<1>0. /\ DataOK /\ ControlOK /\ pc[w] = "upsert" /\ Serving(w, {"set"})
      /\ setting' = [setting EXCEPT ![u] = value]
      /\ Written(w, u) /\ Witnessed /\ Take(w, value, "store")
      /\ user' = user /\ disabled' = disabled /\ cache' = cache /\ allowed' = allowed
  BY TypeSplits DEF IInv, Knows, Upsert
<1>1. request[w] \in Requests /\ u \in Users /\ value \in Setting
  BY <1>0, RequestFields DEF ControlOK, Serving, Setting
<1>2. /\ ControlOK' /\ OnlyMoves(w) /\ pc'[w] = "store"
      /\ held'[w] = value /\ request'[w] = request[w]
  BY <1>0, <1>1, TakeEffect DEF Steps
<1>3. \A t \in Users : setting'[t] = IF t = u THEN value ELSE setting[t]
  BY <1>0, <1>1 DEF DataOK
<1>4. DataOK'
  <2>1. setting' \in [Users -> Setting] /\ raced' \subseteq Users
    BY <1>0, <1>1 DEF DataOK, Written
  <2>2. \A v \in Workers : Choosing(v) => request[v].user \in Users
    BY <1>0, RequestFields DEF ControlOK, Defaulting, Choosing
  <2>3. seen' \in [Workers -> SUBSET Setting]
    BY <1>0, <2>1, <2>2 DEF DataOK, Witnessed
  <2> QED
    BY <1>0, <2>1, <2>3 DEF DataOK
<1>5. Announced(w)
  BY <1>0, <1>3 DEF Announced, Written, StoredByOther
<1>6. Remembered(w)
  BY <1>0 DEF Remembered, Witnessed, DataOK
<1>7. Cached(w)
  BY <1>0, <1>2, <1>3 DEF Cached, Storing, StoringNext
<1>8. /\ Knows(w)' /\ SeenCovers(w)' /\ AllowedPast(w)' /\ DefaultOf(w)'
      /\ \A t \in Users : StoringNext(w, t) => held'[w] = setting'[t]
  BY <1>0, <1>1, <1>2, <1>3
     DEF Knows, Serving, SeenCovers, AllowedPast, DefaultOf, StoringNext
<1> QED
  BY <1>2, <1>4, <1>5, <1>6, <1>7, <1>8, WorkerStep

LEMMA CheckStep ==
  ASSUME IInv, NEW w \in Workers, Check(w)
  PROVE  IInv'
<1>0. /\ DataOK /\ ControlOK /\ pc[w] = "check" /\ Serving(w, {"create"})
      /\ AllowedPast(w)
      /\ user' = user /\ setting' = setting /\ disabled' = disabled
      /\ cache' = cache /\ raced' = raced /\ allowed' = allowed
      /\ seen' = [seen EXCEPT ![w] = {}]
  BY TypeSplits DEF IInv, Knows, Check, db
<1>1. DataOK' /\ HistoryKept(w)
  BY <1>0 DEF DataOK, HistoryKept
<1>2. /\ ControlOK' /\ OnlyMoves(w) /\ pc'[w] = (IF disabled THEN "role" ELSE "insert")
      /\ held'[w] = held[w] /\ request'[w] = request[w]
  BY <1>0, GotoEffect DEF Check, Steps
<1>3. AllowedPast(w)'
  BY <1>0, <1>2 DEF AllowedPast, Serving
<1>4. /\ Knows(w)' /\ SeenCovers(w)' /\ DefaultOf(w)'
      /\ \A u \in Users : ~ StoringNext(w, u)
  BY <1>0, <1>2 DEF Knows, Serving, SeenCovers, DefaultOf, StoringNext
<1> QED
  BY <1>0, <1>1, <1>2, <1>3, <1>4, LocalStep

LEMMA EnforceStep ==
  ASSUME IInv, NEW w \in Workers, Enforce(w)
  PROVE  IInv'
<1>0. /\ DataOK /\ ControlOK /\ pc[w] = "role" /\ Serving(w, {"create"})
      /\ AllowedPast(w)
  BY TypeSplits DEF IInv, Knows, Enforce
<1>1. CASE FinishCreate(w)
  BY <1>0, <1>1, FinishCreateStep
<1> DEFINE value == IF request[w].user \in Regular THEN "PRIVATE" ELSE held[w]
<1>2. CASE Take(w, value, "insert") /\ UNCHANGED <<db, cache, history>>
  <2>1. disabled' = disabled /\ allowed' = allowed
    BY <1>2 DEF db, history
  <2>2. value \in Setting \cup Asked \cup Visibilities
    BY <1>0 DEF ControlOK, Visibilities
  <2>3. /\ ControlOK' /\ OnlyMoves(w) /\ pc'[w] = "insert"
        /\ held'[w] = value /\ request'[w] = request[w]
    BY <1>0, <1>2, <2>2, TakeEffect DEF Steps
  <2>4. AllowedPast(w)'
    BY <1>0, <2>1, <2>3 DEF AllowedPast, Serving
  <2>5. /\ Knows(w)' /\ SeenCovers(w)' /\ DefaultOf(w)'
        /\ \A u \in Users : ~ StoringNext(w, u)
    BY <1>0, <2>3 DEF Knows, Serving, SeenCovers, DefaultOf, StoringNext
  <2> QED
    BY <1>0, <1>2, <2>3, <2>4, <2>5, OnStep
<1> QED
  BY <1>1, <1>2 DEF Enforce

LEMMA InsertStep ==
  ASSUME IInv, NEW w \in Workers, Insert(w)
  PROVE  IInv'
<1>0. DataOK /\ ControlOK /\ pc[w] = "insert"
  BY TypeSplits DEF IInv, Insert
<1>1. CASE FinishCreate(w)
  BY <1>0, <1>1, FinishCreateStep
<1>2. CASE Goto(w, "activity") /\ UNCHANGED <<db, cache, history>>
  <2>1. /\ ControlOK' /\ OnlyMoves(w) /\ pc'[w] = "activity" /\ request'[w] = request[w]
    BY <1>0, <1>2, GotoEffect DEF Steps
  <2>2. /\ Knows(w)' /\ SeenCovers(w)' /\ AllowedPast(w)' /\ DefaultOf(w)'
        /\ \A u \in Users : ~ StoringNext(w, u)
    BY <1>2, <2>1, AllowedStays DEF Knows, SeenCovers, DefaultOf, StoringNext
  <2> QED
    BY <1>0, <1>2, <2>1, <2>2, OnStep
<1> QED
  BY <1>1, <1>2 DEF Insert

LEMMA DisableStep ==
  ASSUME IInv, NEW w \in Workers, Disable(w)
  PROVE  IInv'
<1>0. /\ DataOK /\ ControlOK /\ pc[w] = "disable" /\ Serving(w, {"disable"})
      /\ disabled' = request[w].value /\ Finish(w)
      /\ allowed' = IF disabled' THEN allowed
                    ELSE allowed \cup {v \in Workers : Serving(v, {"create"})}
      /\ user' = user /\ setting' = setting /\ cache' = cache
      /\ raced' = raced /\ seen' = seen
  BY TypeSplits DEF IInv, Knows, Disable
<1>1. request[w].value \in BOOLEAN
  BY <1>0, RequestFields DEF ControlOK, Serving
<1>2. DataOK'
  BY <1>0, <1>1 DEF DataOK
<1>3. HistoryKept(w)
  BY <1>0 DEF HistoryKept
<1> QED
  BY <1>0, <1>2, <1>3, EndStep

\* The rows of accounts that are gone go.
LEMMA VacuumedStep ==
  ASSUME IInv, NEW w \in Workers, Finish(w), pc[w] \notin {"fill", "store"},
         user' \subseteq user, setting' = Vacuumed(user'), Witnessed,
         UNCHANGED <<disabled, cache, raced, allowed>>
  PROVE  IInv'
<1>0. DataOK /\ ControlOK
  BY TypeSplits DEF IInv
<1>1. /\ OnlyMoves(w) /\ ControlOK'
      /\ pc'[w] = "idle" /\ request'[w] = NoRequest
  BY <1>0, FinishEffect
<1>2. \A u \in Users : setting'[u] # setting[u] => Gone(u)
  BY DEF Vacuumed, Gone
<1>3. DataOK'
  <2>1. setting' \in [Users -> Setting]
    BY <1>0 DEF DataOK, Vacuumed, Setting
  <2>2. \A v \in Workers : Choosing(v) => request[v].user \in Users
    BY <1>0, RequestFields DEF ControlOK, Defaulting, Choosing
  <2>3. seen' \in [Workers -> SUBSET Setting]
    BY <1>0, <2>1, <2>2 DEF DataOK, Witnessed
  <2> QED
    BY <1>0, <2>1, <2>3 DEF DataOK
<1>4. Announced(w)
  BY <1>2 DEF Announced
<1>5. Remembered(w)
  BY <1>0 DEF Remembered, Witnessed, DataOK
<1>6. Cached(w)
  BY <1>2 DEF Cached, Storing
<1>7. /\ Knows(w)' /\ SeenCovers(w)' /\ AllowedPast(w)' /\ DefaultOf(w)'
      /\ \A u \in Users : ~ StoringNext(w, u)
  BY <1>1, IdleKeeps
<1> QED
  BY <1>1, <1>3, <1>4, <1>5, <1>6, <1>7, WorkerStep

LEMMA FailStep ==
  ASSUME IInv, NEW w \in Workers, Fail(w)
  PROVE  IInv'
<1>1. CASE /\ pc[w] \in {"upsert", "select", "disable", "deleteUser", "vacuum"}
           /\ Finish(w)
           /\ UNCHANGED <<db, cache, history>>
  BY <1>1, QuietEnd
<1>2. CASE pc[w] \in {"find", "check", "role", "insert", "activity"} /\ FinishCreate(w)
  BY <1>2, FinishCreateStep
<1> QED
  BY <1>1, <1>2 DEF Fail

LEMMA HandleStep ==
  ASSUME IInv, NEW w \in Workers, Handle(w)
  PROVE  IInv'
<1>1. CASE Activity(w)
  BY <1>1, FinishCreateStep DEF Activity
<1>2. CASE DeleteUser(w)
  BY <1>2, VacuumedStep DEF DeleteUser
<1>3. CASE Vacuum(w)
  <2>1. user' = user /\ setting' = Vacuumed(user')
    BY <1>3 DEF Vacuum, Vacuumed
  <2> QED
    BY <1>3, <2>1, VacuumedStep DEF Vacuum
<1> QED
  BY <1>1, <1>2, <1>3, UpsertStep, SelectStep, StoreStep, LoadStep, FindStep,
     FillStep, CheckStep, EnforceStep, InsertStep, DisableStep DEF Handle

\* Nobody is served.
LEMMA AllIdle ==
  ASSUME user \subseteq Users, setting \in [Users -> Setting], disabled \in BOOLEAN,
         cache = [u \in Users |-> Miss],
         pc = [w \in Workers |-> "idle"], held = [w \in Workers |-> Unset],
         request = [w \in Workers |-> NoRequest],
         raced = {}, seen = [w \in Workers |-> {}], allowed = {}
  PROVE  IInv
<1>1. TypeOK
  BY DEF TypeOK, Setting, Steps
<1>2. \A w \in Workers :
        Knows(w) /\ FreshInHand(w) /\ SeenCovers(w) /\ AllowedPast(w)
  BY DEF Knows, FreshInHand, SeenCovers, AllowedPast, Serving
<1>3. StaleOnlyAfterRace /\ DefaultIsRecent
  BY DEF StaleOnlyAfterRace, DefaultIsRecent
<1> QED
  BY <1>1, <1>2, <1>3 DEF IInv

LEMMA RestartStep ==
  ASSUME IInv, Restart
  PROVE  IInv'
<1>1. /\ user' \subseteq Users /\ setting' \in [Users -> Setting] /\ disabled' \in BOOLEAN
      /\ cache' = [u \in Users |-> Miss]
      /\ pc' = [w \in Workers |-> "idle"] /\ held' = [w \in Workers |-> Unset]
      /\ request' = [w \in Workers |-> NoRequest]
      /\ raced' = {} /\ seen' = [w \in Workers |-> {}] /\ allowed' = {}
  BY DEF Restart, db, IInv, TypeOK
<1>2. TypeOK'
  BY <1>1 DEF TypeOK, Setting, Steps
<1>3. \A w \in Workers :
        Knows(w)' /\ FreshInHand(w)' /\ SeenCovers(w)' /\ AllowedPast(w)'
  BY <1>1 DEF Knows, FreshInHand, SeenCovers, AllowedPast, Serving
<1>4. StaleOnlyAfterRace' /\ DefaultIsRecent'
  BY <1>1 DEF StaleOnlyAfterRace, DefaultIsRecent
<1> QED
  BY <1>2, <1>3, <1>4 DEF IInv

LEMMA StutterStep ==
  ASSUME IInv, UNCHANGED vars
  PROVE  IInv'
BY DEF vars, db, control, history, IInv, TypeOK, Knows, Serving, Defaulting,
       FreshInHand, Agrees, SeenCovers, Storing, AllowedPast, StaleOnlyAfterRace,
       Settling, DefaultIsRecent

LEMMA InitInv == Init => IInv
BY AllIdle DEF Init, Setting

LEMMA StepInv == IInv /\ [Next]_vars => IInv'
<1> SUFFICES ASSUME IInv, [Next]_vars
             PROVE  IInv'
  OBVIOUS
<1>1. ASSUME NEW w \in Workers, Receive(w) \/ Handle(w) \/ Fail(w)
      PROVE  IInv'
  BY <1>1, ReceiveStep, HandleStep, FailStep
<1> QED
  BY <1>1, RestartStep, StutterStep DEF Next

-----------------------------------------------------------------------------
(***************************************************************************)
(* What follows for every behaviour.                                       *)
(***************************************************************************)
\* The inductive invariant: types, what each place in a handler knows, what
\* is in hand, and the two properties of the cache below.
THEOREM Invariance == Spec => []IInv
BY InitInv, StepInv, PTL DEF Spec

\* The cache of settings, its memory that there is none included
\* (user_setting.go:88), is wrong only after a write slipped between another
\* worker's read and its store in the cache.
THEOREM StaleAfterRaceOnly == Spec => []StaleOnlyAfterRace
<1>1. IInv => StaleOnlyAfterRace
  BY DEF IInv
<1> QED
  BY <1>1, Invariance, PTL

\* Without such a race the default visibility of a memo is one its user had
\* while the request was served (memo.go:35).
THEOREM RecentDefaults == Spec => []DefaultIsRecent
<1>1. IInv => DefaultIsRecent
  BY DEF IInv
<1> QED
  BY <1>1, Invariance, PTL

\* A regular user's memo others may see was allowed at some moment of the
\* request, whatever order the settings, the role and the insert are in.
THEOREM PublicWhenAllowed == Spec => PublicOnlyIfAllowed
<1>1. IInv /\ [Next]_vars =>
        [\A w \in Workers :
           pc[w] = "insert" /\ pc'[w] = "activity"
             /\ request[w].user \in Regular /\ held[w] # "PRIVATE"
           => w \in allowed]_vars
  BY DEF IInv, AllowedPast
<1> QED
  BY <1>1, Invariance, PTL DEF Spec, PublicOnlyIfAllowed

-----------------------------------------------------------------------------
(***************************************************************************)
(* UserSettings implements StoreDB.  The mapped database is a function of  *)
(* the tables user and user_setting.                                       *)
(***************************************************************************)
Image(table) ==
  {[user |-> u, key |-> Key] : u \in {v \in Users : table[v] # Unset}}

Skeleton(users, rows) ==
  [user |-> users, memo |-> {}, resource |-> {}, shortcut |-> {},
   userSetting |-> rows, organizer |-> {}, memoResource |-> {}, tag |-> {}]

Counters == [user |-> NumUsers, memo |-> 0, resource |-> 0, shortcut |-> 0]

MappedDb == Skeleton(user, Image(setting))

Mapped == <<MappedDb, Counters>>

LEMMA MappedIsMapped ==
  /\ Tables!vars = Mapped
  /\ Tables!vars' = Mapped'
BY DEF Tables!vars, Mapped, MappedDb, Skeleton, Image, Counters

LEMMA SkeletonExcept ==
  ASSUME NEW users, NEW rows, NEW new
  PROVE  /\ [Skeleton(users, rows) EXCEPT !.userSetting = new] = Skeleton(users, new)
         /\ [Skeleton(users, rows) EXCEPT !.user = new] = Skeleton(new, rows)
BY DEF Skeleton

\* On the two tables, vacuum is vacuumUserSetting.
LEMMA VacuumOfSkeleton ==
  ASSUME NEW users, NEW rows
  PROVE  Tables!vacuum(Skeleton(users, rows))
           = Skeleton(users, {s \in rows : s.user \in users})
<1> DEFINE kept == {s \in rows : s.user \in users}
           before == Skeleton(users, rows)
           after  == Skeleton(users, kept)
<1>1. Tables!vacuumMemo(before) = before
  BY DEF Tables!vacuumMemo, Skeleton
<1>2. Tables!vacuumResource(before) = before
  BY DEF Tables!vacuumResource, Skeleton
<1>3. Tables!vacuumShortcut(before) = before
  BY DEF Tables!vacuumShortcut, Skeleton
<1>4. Tables!vacuumUserSetting(before) = after
  <2>1. before.user = users /\ before.userSetting = rows
    BY DEF Skeleton
  <2>2. Tables!vacuumUserSetting(before) = [before EXCEPT !.userSetting = kept]
    BY <2>1, Zenon DEF Tables!vacuumUserSetting
  <2> HIDE DEF kept
  <2>3. [before EXCEPT !.userSetting = kept] = after
    BY SkeletonExcept
  <2> QED
    BY <2>2, <2>3
<1> HIDE DEF kept
<1>5. Tables!vacuumMemoOrganizer(after) = after
  BY DEF Tables!vacuumMemoOrganizer, Skeleton
<1>6. Tables!vacuumMemoResource(after) = after
  BY DEF Tables!vacuumMemoResource, Skeleton
<1>7. Tables!vacuumTag(after) = after
  BY DEF Tables!vacuumTag, Skeleton
<1> QED
  BY <1>1, <1>2, <1>3, <1>4, <1>5, <1>6, <1>7, Zenon DEF Tables!vacuum, kept

\* What vacuumUserSetting leaves of the table.
LEMMA ImageVacuumed ==
  ASSUME NEW users
  PROVE  Image(Vacuumed(users)) = {s \in Image(setting) : s.user \in users}
<1> DEFINE v == Vacuumed(users)
<1>1. \A u \in Users : v[u] # Unset <=> u \in users /\ setting[u] # Unset
  BY DEF Vacuumed
<1> HIDE DEF v
<1> QED
  BY <1>1 DEF Image, v

LEMMA UpsertMapped ==
  ASSUME IInv, NEW w \in Workers, Upsert(w)
  PROVE  \E u \in Tables!KnownUsers : Tables!UpsertUserSetting(u, Key)
<1>1. DataOK /\ ControlOK /\ Knows(w)
  BY TypeSplits DEF IInv
<1>2. request[w].user \in Users /\ request[w].value \in Values
  <2>1. request[w] \in Requests /\ request[w].op = "set"
    BY <1>1 DEF Upsert, Knows, Serving, ControlOK
  <2> QED
    BY <2>1, RequestFields
<1> PICK u \in Users : u = request[w].user
  BY <1>2
<1> DEFINE value == request[w].value
           new   == Image(setting) \cup {[user |-> u, key |-> Key]}
<1>3. setting' = [setting EXCEPT ![u] = value] /\ user' = user
  BY DEF Upsert
<1>4. value # Unset
  BY <1>2, SettingsAssumption
<1>5. \A v \in Users : setting'[v] = IF v = u THEN value ELSE setting[v]
  BY <1>1, <1>3 DEF DataOK
<1> HIDE DEF value
<1>6. Image(setting') = new
  BY <1>4, <1>5 DEF Image
<1> HIDE DEF new
<1>7. MappedDb' = [MappedDb EXCEPT !.userSetting = new]
  BY <1>3, <1>6, SkeletonExcept DEF MappedDb
<1>8. MappedDb.userSetting = Image(setting)
  BY DEF MappedDb, Skeleton
<1>9. MappedDb' = [MappedDb EXCEPT !.userSetting = @ \cup {[user |-> u, key |-> Key]}]
  BY <1>7, <1>8 DEF new
<1>10. Tables!UpsertUserSetting(u, Key)
  BY <1>9 DEF Tables!UpsertUserSetting, MappedDb, Skeleton, Image
<1> QED
  BY <1>10 DEF Tables!KnownUsers, Users

LEMMA DeleteUserMapped ==
  ASSUME NEW w \in Workers, DeleteUser(w), DataOK
  PROVE  \E u \in Users : Tables!DeleteUser(u)
<1> PICK u \in Users : u = request[w].user
  BY DEF DataOK, DeleteUser
<1>1. u \in user /\ user' = user \ {u} /\ setting' = Vacuumed(user')
  BY DEF DeleteUser
<1>2. Image(setting') = {s \in Image(setting) : s.user \in user'}
  BY <1>1, ImageVacuumed
<1>3. MappedDb' = Tables!vacuum(Skeleton(user', Image(setting)))
  BY <1>2, VacuumOfSkeleton DEF MappedDb
<1>4. [MappedDb EXCEPT !.user = @ \ {u}] = Skeleton(user', Image(setting))
  <2>1. MappedDb.user = user
    BY DEF MappedDb, Skeleton
  <2> QED
    BY <1>1, <2>1, SkeletonExcept DEF MappedDb
<1>5. MappedDb' = Tables!vacuum([MappedDb EXCEPT !.user = @ \ {u}])
  BY <1>3, <1>4
<1>6. Tables!DeleteUser(u)
  BY <1>1, <1>5 DEF Tables!DeleteUser, MappedDb, Skeleton, Image
<1> QED
  BY <1>6

LEMMA VacuumMapped ==
  ASSUME NEW w \in Workers, Vacuum(w)
  PROVE  Tables!Vacuum
<1>1. user' = user /\ setting' = Vacuumed(user)
  BY DEF Vacuum
<1>2. Image(setting') = {s \in Image(setting) : s.user \in user}
  BY <1>1, ImageVacuumed
<1>3. MappedDb' = Tables!vacuum(MappedDb)
  BY <1>1, <1>2, VacuumOfSkeleton DEF MappedDb
<1> QED
  BY <1>3 DEF Tables!Vacuum, MappedDb, Skeleton, Image

LEMMA InitMapped == Init => Tables!Init
<1> SUFFICES ASSUME Init
             PROVE  Tables!Init
  OBVIOUS
<1>1. user = 1 .. NumUsers /\ \A u \in Users : setting[u] = Unset
  BY DEF Init, Users
<1>2. Image(setting) = {}
  BY <1>1 DEF Image
<1>3. NumUsers \in 0 .. NumUsers
  BY SettingsAssumption
<1> QED
  BY <1>1, <1>2, <1>3 DEF Tables!Init, Image

\* The other steps leave the two tables alone.
LEMMA StepMapped ==
  ASSUME IInv, Next
  PROVE  Tables!Next \/ UNCHANGED Mapped
<1>1. CASE UNCHANGED <<user, setting>>
  BY <1>1 DEF Mapped, MappedDb, Counters
<1>2. ASSUME NEW w \in Workers, Upsert(w)
      PROVE  Tables!Next
  BY <1>2, UpsertMapped DEF Tables!Next
<1>3. ASSUME NEW w \in Workers, DeleteUser(w)
      PROVE  Tables!Next
  <2>1. \E u \in Users : Tables!DeleteUser(u)
    BY <1>3, DeleteUserMapped, TypeSplits DEF IInv
  <2> QED
    BY <2>1 DEF Tables!Next, Tables!UserIds, Users
<1>4. ASSUME NEW w \in Workers, Vacuum(w)
      PROVE  Tables!Next
  BY <1>4, VacuumMapped DEF Tables!Next
<1>5. ASSUME NEW w \in Workers, Receive(w) \/ Handle(w) \/ Fail(w),
             ~ Upsert(w), ~ DeleteUser(w), ~ Vacuum(w)
      PROVE  UNCHANGED <<user, setting>>
  BY <1>5 DEF Receive, Handle, Fail, Select, Store, Load, Find, Fill, Check,
     Enforce, Insert, Activity, FinishCreate, Disable, db
<1>6. Restart => UNCHANGED <<user, setting>>
  BY DEF Restart, db
<1> QED
  BY <1>1, <1>2, <1>3, <1>4, <1>5, <1>6 DEF Next

\* UserSettings implements StoreDB: whatever handlers, failures and restarts
\* interleave, the tables user and user_setting change by whole transactions
\* only (store/user_setting.go:25, store/user.go:321, store/store.go:28).
THEOREM ImplementsTables == Spec => RefinesTables
<1>1. Init => Tables!Init
  BY InitMapped
<1>2. IInv /\ [Next]_vars => [Tables!Next]_(Tables!vars)
  <2>1. UNCHANGED vars => UNCHANGED Mapped
    BY DEF vars, db, Mapped, MappedDb, Counters
  <2> QED
    BY <2>1, StepMapped, MappedIsMapped
<1> QED
  BY <1>1, <1>2, Invariance, PTL DEF Spec, RefinesTables, Tables!Spec
=============================================================================
