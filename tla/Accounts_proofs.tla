-------------------------- MODULE Accounts_proofs ---------------------------
(***************************************************************************)
(* Proofs that there are never more hosts than processes that may found    *)
(* one, that only hosts administer, and that with requests in turn there   *)
(* is one host and the user cache is the table, for any number of users    *)
(* and workers.                                                            *)
(***************************************************************************)
EXTENDS Accounts, FiniteSetTheorems, TLAPS

LEMMA RowFields ==
  ASSUME NEW r \in Row
  PROVE  r.role \in Roles /\ r.status \in Statuses
BY DEF Row

\* What a request of each kind carries.
LEMMA RequestFields ==
  ASSUME NEW r \in Requests
  PROVE  /\ r.op \in {"setup", "signup", "signin", "member", "patch", "delete", "allow"}
         /\ r.op \in Authenticated => r.user \in UserIds
         /\ r.op \in {"signin", "patch", "delete"} => r.target \in UserIds
         /\ r.op = "patch" => r.status \in Statuses
         /\ r.op = "allow" => r.value \in BOOLEAN
BY DEF Requests, Authenticated

DataOK ==
  /\ users \in [UserIds -> Row \cup {NoRow}]
  /\ lastUser \in 0 .. MaxUser
  /\ allowSignup \in BOOLEAN
  /\ userCache \in [UserIds -> Row \cup {NoRow}]
  /\ tokens \subseteq UserIds
  /\ granted \in [UserIds -> Roles \cup {NoRow}]

ControlOK ==
  /\ pc \in [Workers -> Steps]
  /\ request \in [Workers -> Requests \cup {NoRequest}]
  /\ held \in [Workers -> Row \cup {NoRow}]
  /\ heldId \in [Workers -> 0 .. MaxUser]
  /\ role \in [Workers -> Roles]

LEMMA TypeSplits == TypeOK <=> DataOK /\ ControlOK /\ overlap \in BOOLEAN
BY DEF TypeOK, DataOK, ControlOK

\* The locals of the other workers stay.
OnlyMoves(w) ==
  \A v \in Workers : v # w =>
    /\ pc'[v] = pc[v] /\ request'[v] = request[v] /\ role'[v] = role[v]
    /\ held'[v] = held[v] /\ heldId'[v] = heldId[v]

\* Who was given a role keeps it, and only new ids are given one.
GrantsKept ==
  /\ \A u \in UserIds : granted[u] # NoRow => granted'[u] = granted[u]
  /\ \A u \in UserIds : granted'[u] # NoRow => u <= lastUser'

RowsHaveRole ==
  /\ \A u \in UserIds : users[u] # NoRow => HasRole(u, users[u])
  /\ \A u \in UserIds : userCache[u] # NoRow => HasRole(u, userCache[u])

HeldHasRole(w) == held[w] # NoRow => HasRole(heldId[w], held[w])

-----------------------------------------------------------------------------
(***************************************************************************)
(* Counting hosts and founders.                                            *)
(***************************************************************************)
LEMMA Finite ==
  ASSUME NEW H \in SUBSET UserIds, NEW F \in SUBSET Workers
  PROVE  /\ IsFiniteSet(H) /\ Cardinality(H) \in Nat
         /\ IsFiniteSet(F) /\ Cardinality(F) \in Nat
         /\ Cardinality(F) <= Cardinality(Workers)
         /\ Cardinality(Workers) \in Nat
<1>1. IsFiniteSet(UserIds)
  BY FS_Interval, AccountsAssumption DEF UserIds
<1>2. IsFiniteSet(H) /\ IsFiniteSet(F) /\ Cardinality(F) <= Cardinality(Workers)
  BY <1>1, FS_Subset, AccountsAssumption
<1> QED
  BY <1>2, FS_CardinalityType, AccountsAssumption

LEMMA HostsAndFounders == Hosts \in SUBSET UserIds /\ Founding \in SUBSET Workers
BY DEF Hosts, Founding

\* The sum is bounded as long as neither set grows.
LEMMA NobodyFounds ==
  ASSUME FoundersBounded, Hosts' \subseteq Hosts, Founding' \subseteq Founding
  PROVE  FoundersBounded'
<1> DEFINE H == Hosts
           F == Founding
           H1 == Hosts'
           F1 == Founding'
<1>1. H \in SUBSET UserIds /\ F \in SUBSET Workers /\ H1 \in SUBSET H /\ F1 \in SUBSET F
  BY HostsAndFounders
<1>2. Cardinality(H) + Cardinality(F) <= Cardinality(Workers)
  BY DEF FoundersBounded
<1> HIDE DEF H, F, H1, F1
<1>3. Cardinality(H1) <= Cardinality(H) /\ Cardinality(F1) <= Cardinality(F)
  BY <1>1, Finite, FS_Subset
<1>4. Cardinality(H1) \in Nat /\ Cardinality(F1) \in Nat
  BY <1>1, Finite
<1>5. Cardinality(H1) + Cardinality(F1) <= Cardinality(Workers)
  BY <1>1, <1>2, <1>3, <1>4, Finite
<1> QED
  BY <1>5 DEF FoundersBounded, H1, F1

\* A worker becomes a founder only when there is no host.
LEMMA OneStartsFounding ==
  ASSUME Hosts = {}, Hosts' = {}
  PROVE  FoundersBounded'
<1>1. Founding' \in SUBSET Workers
  BY DEF Founding
<1>2. Cardinality(Hosts') = 0
  BY FS_EmptySet
<1>3. Cardinality(Founding') <= Cardinality(Workers) /\ Cardinality(Founding') \in Nat
  BY <1>1, Finite
<1> QED
  BY <1>2, <1>3 DEF FoundersBounded

\* A founder founds: one host more, one founder less.
LEMMA OneFounds ==
  ASSUME FoundersBounded, NEW w \in Founding, NEW u,
         Hosts' \subseteq Hosts \cup {u}, Founding' \subseteq Founding \ {w}
  PROVE  FoundersBounded'
<1> DEFINE H == Hosts
           F == Founding
           H1 == Hosts'
           F1 == Founding'
<1>1. /\ H \in SUBSET UserIds /\ F \in SUBSET Workers /\ w \in F
      /\ H1 \in SUBSET (H \cup {u}) /\ F1 \in SUBSET (F \ {w})
      /\ H1 \in SUBSET UserIds
  BY HostsAndFounders DEF Hosts
<1>2. Cardinality(H) + Cardinality(F) <= Cardinality(Workers)
  BY DEF FoundersBounded
<1> HIDE DEF H, F, H1, F1
<1>3. /\ IsFiniteSet(H \cup {u}) /\ Cardinality(H \cup {u}) <= Cardinality(H) + 1
      /\ IsFiniteSet(F \ {w}) /\ Cardinality(F \ {w}) = Cardinality(F) - 1
  <2>1. /\ IsFiniteSet(H) /\ Cardinality(H) \in Nat
        /\ IsFiniteSet(F) /\ Cardinality(F) \in Nat
    BY <1>1, Finite
  <2>2. /\ IsFiniteSet(H \cup {u})
        /\ Cardinality(H \cup {u}) = IF u \in H THEN Cardinality(H)
                                                 ELSE Cardinality(H) + 1
    BY <2>1, FS_AddElement
  <2>3. /\ IsFiniteSet(F \ {w})
        /\ Cardinality(F \ {w}) = IF w \in F THEN Cardinality(F) - 1
                                              ELSE Cardinality(F)
    BY <2>1, FS_RemoveElement
  <2> QED
    BY <1>1, <2>1, <2>2, <2>3
<1>4. /\ Cardinality(H1) <= Cardinality(H \cup {u})
      /\ Cardinality(F1) <= Cardinality(F \ {w})
  BY <1>1, <1>3, FS_Subset
<1>5. /\ Cardinality(H1) \in Nat /\ Cardinality(F1) \in Nat
      /\ Cardinality(H \cup {u}) \in Nat /\ Cardinality(F \ {w}) \in Nat
  BY <1>1, <1>3, Finite, FS_CardinalityType
<1>6. Cardinality(H1) + Cardinality(F1) <= Cardinality(Workers)
  BY <1>1, <1>2, <1>3, <1>4, <1>5, Finite
<1> QED
  BY <1>6 DEF FoundersBounded, H1, F1

-----------------------------------------------------------------------------
(***************************************************************************)
(* Steps of one worker.                                                    *)
(***************************************************************************)
LEMMA OthersKnow ==
  ASSUME IInv, NEW v \in Workers, GrantsKept,
         pc'[v] = pc[v], request'[v] = request[v], role'[v] = role[v],
         held'[v] = held[v], heldId'[v] = heldId[v]
  PROVE  Knows(v)' /\ HeldHasRole(v)'
<1>1. DataOK /\ ControlOK /\ Knows(v) /\ HeldHasRole(v)
  BY TypeSplits DEF IInv, RolesKept, HeldHasRole
<1>2. held[v] \in Row \cup {NoRow} /\ request[v] \in Requests \cup {NoRequest}
  BY <1>1 DEF ControlOK
<1>3. HeldHasRole(v)'
  BY <1>1, <1>2, RowFields, AccountsAssumption DEF HeldHasRole, HasRole, GrantsKept
<1>4. ASSUME NEW ops \in SUBSET Authenticated, Entitled(v, ops)
      PROVE  Entitled(v, ops)'
  BY <1>2, <1>4, RequestFields, AccountsAssumption DEF Entitled, GrantsKept, Roles
<1>5. /\ Entitled(v, {"member"}) => Entitled(v, {"member"})'
      /\ Entitled(v, {"patch"}) => Entitled(v, {"patch"})'
      /\ Entitled(v, {"delete"}) => Entitled(v, {"delete"})'
      /\ Entitled(v, {"allow"}) => Entitled(v, {"allow"})'
  BY <1>4 DEF Authenticated
<1> HIDE DEF Entitled
<1>6. Knows(v)'
  BY <1>1, <1>5 DEF Knows
<1> QED
  BY <1>3, <1>6

LEMMA WorkerStep ==
  ASSUME IInv, UNCHANGED overlap, NEW w \in Workers, OnlyMoves(w),
         DataOK', ControlOK',
         GrantsKept, RowsHaveRole', FoundersBounded',
         Knows(w)', HeldHasRole(w)'
  PROVE  IInv'
<1>1. \A v \in Workers : Knows(v)' /\ HeldHasRole(v)'
  BY OthersKnow DEF OnlyMoves
<1>2. RolesKept'
  BY <1>1 DEF RolesKept, RowsHaveRole, HeldHasRole, GrantsKept
<1>3. TypeOK'
  BY DEF IInv, TypeOK, DataOK, ControlOK
<1> QED
  BY <1>1, <1>2, <1>3 DEF IInv

LEMMA NobodyElseFounds ==
  ASSUME NEW w \in Workers, OnlyMoves(w),
         pc'[w] # "insertUser" \/ role'[w] # "HOST"
  PROVE  Founding' \subseteq Founding \ {w}
BY DEF OnlyMoves, Founding

\* Steps that leave the table as it is and start no founding.
LEMMA TableStays ==
  ASSUME IInv, UNCHANGED overlap, NEW w \in Workers, OnlyMoves(w),
         DataOK', ControlOK',
         UNCHANGED table, RowsHaveRole',
         pc'[w] # "insertUser" \/ role'[w] # "HOST",
         Knows(w)', HeldHasRole(w)'
  PROVE  IInv'
<1>1. GrantsKept
  BY DEF IInv, RolesKept, GrantsKept, table
<1>2. Hosts' \subseteq Hosts /\ Founding' \subseteq Founding
  BY NobodyElseFounds DEF Hosts, table
<1>3. FoundersBounded'
  BY <1>2, NobodyFounds DEF IInv
<1> QED
  BY <1>1, <1>3, WorkerStep

LEMMA LocalStep ==
  ASSUME IInv, UNCHANGED overlap, NEW w \in Workers, OnlyMoves(w), ControlOK',
         UNCHANGED <<table, allowSignup, userCache, tokens>>,
         pc'[w] # "insertUser" \/ role'[w] # "HOST",
         Knows(w)', HeldHasRole(w)'
  PROVE  IInv'
<1>1. DataOK' /\ RowsHaveRole'
  BY TypeSplits DEF IInv, DataOK, RolesKept, RowsHaveRole, HasRole, table
<1> QED
  BY <1>1, TableStays

LEMMA GotoEffect ==
  ASSUME ControlOK, NEW w \in Workers, NEW step \in Steps, Goto(w, step)
  PROVE  /\ OnlyMoves(w) /\ ControlOK' /\ pc'[w] = step
         /\ request'[w] = request[w] /\ role'[w] = role[w]
         /\ held'[w] = held[w] /\ heldId'[w] = heldId[w]
BY DEF ControlOK, OnlyMoves, Goto

LEMMA LetGoEffect ==
  ASSUME ControlOK, NEW w \in Workers, NEW step \in Steps, LetGo(w, step)
  PROVE  /\ OnlyMoves(w) /\ ControlOK' /\ pc'[w] = step
         /\ request'[w] = request[w] /\ role'[w] = role[w]
         /\ held'[w] = NoRow
<1>1. 0 \in 0 .. MaxUser
  BY AccountsAssumption
<1> QED
  BY <1>1 DEF ControlOK, OnlyMoves, LetGo, Take

LEMMA TakeEffect ==
  ASSUME ControlOK, NEW w \in Workers, NEW step \in Steps,
         NEW id \in UserIds, NEW row \in Row, Take(w, id, row, step)
  PROVE  /\ OnlyMoves(w) /\ ControlOK' /\ pc'[w] = step
         /\ request'[w] = request[w] /\ role'[w] = role[w]
         /\ held'[w] = row /\ heldId'[w] = id
BY DEF ControlOK, OnlyMoves, Take, UserIds

LEMMA FinishEffect ==
  ASSUME ControlOK, NEW w \in Workers, Finish(w)
  PROVE  /\ OnlyMoves(w) /\ ControlOK' /\ pc'[w] = "idle" /\ role'[w] = "USER"
         /\ Knows(w)' /\ HeldHasRole(w)'
<1>1. 0 \in 0 .. MaxUser
  BY AccountsAssumption
<1>2. /\ OnlyMoves(w) /\ ControlOK' /\ pc'[w] = "idle" /\ role'[w] = "USER"
      /\ held'[w] = NoRow
  BY <1>1 DEF ControlOK, OnlyMoves, Finish, Steps, Roles
<1> QED
  BY <1>2 DEF Knows, HeldHasRole

LEMMA EndStep ==
  ASSUME IInv, UNCHANGED overlap, NEW w \in Workers, Finish(w),
         UNCHANGED <<table, allowSignup, userCache, tokens>>
  PROVE  IInv'
BY FinishEffect, LocalStep, TypeSplits DEF IInv

LEMMA ReceiveStep ==
  ASSUME IInv, UNCHANGED overlap, NEW w \in Workers, Receive(w)
  PROVE  IInv'
<1>0. ControlOK /\ Knows(w) /\ HeldHasRole(w) /\ pc[w] = "idle"
  BY TypeSplits DEF IInv, RolesKept, HeldHasRole, Receive
<1>1. PICK r \in Requests, step \in {"authLoad", "selectByName", "listHosts"} :
        /\ request' = [request EXCEPT ![w] = r]
        /\ pc' = [pc EXCEPT ![w] = step]
        /\ step = "authLoad" => r.op \in Authenticated
        /\ step = "selectByName" => r.op = "signin"
        /\ step = "listHosts" => r.op \notin Authenticated /\ r.op # "signin"
  BY DEF Receive
<1>2. UNCHANGED <<held, heldId, role>>
  BY DEF Receive
<1>3. OnlyMoves(w) /\ ControlOK' /\ pc'[w] = step /\ request'[w] = r
  BY <1>0, <1>1, <1>2 DEF OnlyMoves, ControlOK, Steps
<1>4. r # NoRequest /\ (step = "listHosts" => r.op \in {"setup", "signup"})
  BY <1>1, RequestFields, AccountsAssumption DEF Authenticated
<1>5. role[w] = "USER"
  BY <1>0 DEF Knows, ControlOK, Roles
<1>6. Knows(w)' /\ HeldHasRole(w)'
  <2>1. HeldHasRole(w)'
    BY <1>0, <1>2 DEF HeldHasRole, HasRole, Receive, table
  <2>2. Knows(w)'
    BY <1>1, <1>2, <1>3, <1>4, <1>5 DEF Knows
  <2> QED
    BY <2>1, <2>2
<1> QED
  BY <1>1, <1>3, <1>6, LocalStep DEF Receive

-----------------------------------------------------------------------------
(***************************************************************************)
(* The lookup of the requester and the role check.                         *)
(***************************************************************************)
LEMMA AuthLoadStep ==
  ASSUME IInv, UNCHANGED overlap, NEW w \in Workers, AuthLoad(w)
  PROVE  IInv'
<1>0. ControlOK /\ Knows(w) /\ HeldHasRole(w) /\ pc[w] = "authLoad"
  BY TypeSplits DEF IInv, RolesKept, HeldHasRole, AuthLoad
<1>1. PICK step \in {"roleLoad", "authSelect"} : Goto(w, step)
  BY DEF AuthLoad
<1>2. /\ OnlyMoves(w) /\ ControlOK' /\ pc'[w] = step
      /\ request'[w] = request[w] /\ role'[w] = role[w]
      /\ held'[w] = held[w] /\ heldId'[w] = heldId[w]
  BY <1>0, <1>1, GotoEffect DEF Steps
<1>3. Knows(w)' /\ HeldHasRole(w)'
  BY <1>0, <1>1, <1>2 DEF Knows, HeldHasRole, HasRole, AuthLoad, table
<1>4. request[w].user \in UserIds
  BY <1>0, RequestFields DEF Knows, ControlOK, Authenticated
<1>5. DataOK' /\ RowsHaveRole'
  BY <1>4, TypeSplits
  DEF IInv, DataOK, RolesKept, RowsHaveRole, HasRole, AuthLoad, Renew, table
<1> QED
  BY <1>1, <1>2, <1>3, <1>5, TableStays DEF AuthLoad

\* Passing the role check needs the role the requester was given.
LEMMA AllowedEffect ==
  ASSUME IInv, NEW w \in Workers, NEW row \in Row, Allowed(w, row),
         HasRole(request[w].user, row), granted' = granted,
         request[w] # NoRequest, request[w].op \in Authenticated,
         role[w] = "USER"
  PROVE  /\ OnlyMoves(w) /\ ControlOK' /\ role'[w] = "USER"
         /\ Knows(w)' /\ HeldHasRole(w)'
<1>0. ControlOK /\ HeldHasRole(w)
  BY TypeSplits DEF IInv, RolesKept, HeldHasRole
<1>1. CASE Finish(w)
  BY <1>0, <1>1, FinishEffect
<1>2. CASE /\ LetGo(w, Entry[request[w].op])
           /\ \/ row.role = "HOST"
              \/ request[w].op = "patch" /\ request[w].user = request[w].target
  <2> DEFINE step == Entry[request[w].op]
  <2>1. /\ request[w].op = "member" => step = "insertUser"
        /\ request[w].op = "patch" => step = "updateUser"
        /\ request[w].op = "delete" => step = "deleteUser"
        /\ request[w].op = "allow" => step = "upsertSetting"
    BY DEF Entry
  <2>2. LetGo(w, step)
    BY <1>2
  <2>3. request[w].op \in {"member", "patch", "delete", "allow"}
    BY DEF Authenticated
  <2> HIDE DEF step
  <2>4. /\ OnlyMoves(w) /\ ControlOK' /\ pc'[w] = step
        /\ request'[w] = request[w] /\ role'[w] = role[w]
        /\ held'[w] = NoRow
    BY <1>0, <2>1, <2>2, <2>3, LetGoEffect DEF Steps
  <2>5. /\ HeldHasRole(w)'
        /\ row.role = "HOST" => granted'[request[w].user] = "HOST"
    BY <1>0, <2>4 DEF HeldHasRole, HasRole
  <2>6. Knows(w)'
    BY <1>2, <2>1, <2>3, <2>4, <2>5 DEF Knows, Entitled
  <2> QED
    BY <2>4, <2>5, <2>6
<1> QED
  BY <1>1, <1>2 DEF Allowed

LEMMA RoleLoadStep ==
  ASSUME IInv, UNCHANGED overlap, NEW w \in Workers, RoleLoad(w)
  PROVE  IInv'
<1>0. /\ DataOK /\ ControlOK /\ Knows(w) /\ HeldHasRole(w) /\ RolesKept
      /\ pc[w] = "roleLoad"
  BY TypeSplits DEF IInv, RolesKept, HeldHasRole, RoleLoad
<1>1. /\ request[w] # NoRequest /\ request[w].op \in Authenticated
      /\ role[w] = "USER"
  BY <1>0 DEF Knows, ControlOK, Roles
<1>2. request[w].user \in UserIds
  BY <1>0, <1>1, RequestFields DEF ControlOK
<1> DEFINE row == userCache[request[w].user]
<1>3. CASE row # NoRow /\ Allowed(w, row)
  <2>1. row \in Row /\ HasRole(request[w].user, row)
    BY <1>0, <1>2, <1>3 DEF DataOK, RolesKept
  <2>2. granted' = granted
    BY DEF RoleLoad, table
  <2> HIDE DEF row
  <2> QED
    BY <1>1, <1>3, <2>1, <2>2, AllowedEffect, LocalStep DEF RoleLoad
<1>4. CASE Goto(w, "roleSelect")
  <2>1. /\ OnlyMoves(w) /\ ControlOK' /\ pc'[w] = "roleSelect"
        /\ request'[w] = request[w] /\ role'[w] = role[w]
        /\ held'[w] = held[w] /\ heldId'[w] = heldId[w]
    BY <1>0, <1>4, GotoEffect DEF Steps
  <2>2. Knows(w)' /\ HeldHasRole(w)'
    BY <1>0, <1>1, <2>1 DEF Knows, HeldHasRole, HasRole, RoleLoad, table
  <2> QED
    BY <2>1, <2>2, LocalStep DEF RoleLoad
<1> QED
  BY <1>3, <1>4 DEF RoleLoad

LEMMA UserSelectStep ==
  ASSUME IInv, UNCHANGED overlap, NEW w \in Workers, UserSelect(w)
  PROVE  IInv'
<1>0. /\ DataOK /\ ControlOK /\ Knows(w) /\ RolesKept
      /\ pc[w] \in {"authSelect", "roleSelect"}
  BY TypeSplits DEF IInv, UserSelect
<1>1. /\ request[w] # NoRequest /\ request[w].op \in Authenticated
      /\ role[w] = "USER"
  BY <1>0 DEF Knows, ControlOK, Roles
<1>2. request[w].user \in UserIds
  BY <1>0, <1>1, RequestFields DEF ControlOK
<1> DEFINE row == users[request[w].user]
           id  == request[w].user
<1>3. CASE Finish(w)
  BY <1>3, EndStep DEF UserSelect
<1>4. ASSUME NEW step \in {"authStore", "roleStore"}, row # NoRow,
             Take(w, id, row, step)
      PROVE  IInv'
  <2>1. row \in Row /\ HasRole(id, row)
    BY <1>0, <1>2, <1>4 DEF DataOK, RolesKept
  <2> HIDE DEF row, id
  <2>2. id \in UserIds /\ id = request[w].user
    BY <1>2 DEF id
  <2>3. /\ OnlyMoves(w) /\ ControlOK' /\ pc'[w] = step
        /\ request'[w] = request[w] /\ role'[w] = role[w]
        /\ held'[w] = row /\ heldId'[w] = id
    BY <1>0, <1>4, <2>1, <2>2, TakeEffect DEF Steps
  <2>4. Knows(w)' /\ HeldHasRole(w)'
    BY <1>1, <1>4, <2>1, <2>2, <2>3
    DEF Knows, HeldHasRole, HasRole, UserSelect, table
  <2> QED
    BY <2>3, <2>4, LocalStep DEF UserSelect
<1> QED
  BY <1>3, <1>4 DEF UserSelect

LEMMA UserStoreStep ==
  ASSUME IInv, UNCHANGED overlap, NEW w \in Workers, UserStore(w)
  PROVE  IInv'
<1>0. /\ DataOK /\ ControlOK /\ Knows(w) /\ RolesKept /\ HeldHasRole(w)
      /\ pc[w] \in {"authStore", "roleStore"}
  BY TypeSplits DEF IInv, UserStore, RolesKept, HeldHasRole
<1>1. /\ request[w] # NoRequest /\ request[w].op \in Authenticated
      /\ role[w] = "USER" /\ held[w] # NoRow /\ heldId[w] = request[w].user
  BY <1>0 DEF Knows, ControlOK, Roles
<1>2. held[w] \in Row /\ HasRole(heldId[w], held[w])
  BY <1>0, <1>1 DEF ControlOK, HeldHasRole
<1>3. DataOK' /\ RowsHaveRole'
  BY <1>0, <1>1, <1>2
  DEF DataOK, RolesKept, RowsHaveRole, HasRole, UserStore, Renew, table
<1>4. CASE LetGo(w, "roleLoad")
  <2>1. /\ OnlyMoves(w) /\ ControlOK' /\ pc'[w] = "roleLoad"
        /\ request'[w] = request[w] /\ role'[w] = role[w]
        /\ held'[w] = NoRow
    BY <1>0, <1>4, LetGoEffect DEF Steps
  <2>2. Knows(w)' /\ HeldHasRole(w)'
    BY <1>0, <1>1, <2>1 DEF Knows, HeldHasRole, HasRole, UserStore, table
  <2> QED
    BY <1>3, <2>1, <2>2, TableStays DEF UserStore
<1>5. CASE Allowed(w, held[w])
  <2>1. granted' = granted
    BY DEF UserStore, table
  <2>2. /\ OnlyMoves(w) /\ ControlOK' /\ role'[w] = "USER"
        /\ Knows(w)' /\ HeldHasRole(w)'
    BY <1>1, <1>2, <1>5, <2>1, AllowedEffect
  <2> QED
    BY <1>3, <2>2, TableStays DEF UserStore
<1> QED
  BY <1>4, <1>5 DEF UserStore

-----------------------------------------------------------------------------
(***************************************************************************)
(* Signup, setup and new members.                                          *)
(***************************************************************************)
LEMMA ListHostsStep ==
  ASSUME IInv, UNCHANGED overlap, NEW w \in Workers, ListHosts(w)
  PROVE  IInv'
<1>0. /\ DataOK /\ ControlOK /\ Knows(w) /\ RolesKept /\ HeldHasRole(w)
      /\ pc[w] = "listHosts"
  BY TypeSplits DEF IInv, ListHosts, RolesKept, HeldHasRole
<1>1. request[w] # NoRequest /\ request[w].op \in {"setup", "signup"} /\ role[w] = "USER"
  BY <1>0 DEF Knows, ControlOK, Roles
<1>2. CASE Finish(w)
  BY <1>2, EndStep DEF ListHosts
<1>3. CASE Goto(w, "readSetting")
  <2>1. /\ OnlyMoves(w) /\ ControlOK' /\ pc'[w] = "readSetting"
        /\ request'[w] = request[w] /\ role'[w] = role[w]
        /\ held'[w] = held[w] /\ heldId'[w] = heldId[w]
    BY <1>0, <1>3, GotoEffect DEF Steps
  <2>2. Knows(w)' /\ HeldHasRole(w)'
    BY <1>0, <1>1, <2>1 DEF Knows, HeldHasRole, HasRole, ListHosts, table
  <2> QED
    BY <2>1, <2>2, LocalStep DEF ListHosts
<1>4. ASSUME Hosts = {},
             role' = [role EXCEPT ![w] = "HOST"],
             pc' = [pc EXCEPT ![w] = "insertUser"],
             UNCHANGED <<request, held, heldId>>
      PROVE  IInv'
  <2>1. /\ OnlyMoves(w) /\ ControlOK' /\ pc'[w] = "insertUser"
        /\ request'[w] = request[w] /\ role'[w] = "HOST"
        /\ held'[w] = held[w] /\ heldId'[w] = heldId[w]
    BY <1>0, <1>4 DEF OnlyMoves, ControlOK, Steps, Roles
  <2>2. Knows(w)' /\ HeldHasRole(w)'
    BY <1>0, <1>1, <2>1 DEF Knows, HeldHasRole, HasRole, ListHosts, table
  <2>3. DataOK' /\ RowsHaveRole' /\ GrantsKept
    BY <1>0 DEF DataOK, RolesKept, RowsHaveRole, HasRole, GrantsKept, ListHosts, table
  <2>4. FoundersBounded'
    BY <1>4, OneStartsFounding DEF Hosts, ListHosts, table
  <2> QED
    BY <2>1, <2>2, <2>3, <2>4, WorkerStep
<1> QED
  BY <1>2, <1>3, <1>4 DEF ListHosts

LEMMA ReadSettingStep ==
  ASSUME IInv, UNCHANGED overlap, NEW w \in Workers, ReadSetting(w)
  PROVE  IInv'
<1>0. ControlOK /\ Knows(w) /\ HeldHasRole(w) /\ pc[w] = "readSetting"
  BY TypeSplits DEF IInv, ReadSetting, RolesKept, HeldHasRole
<1>1. request[w] # NoRequest /\ request[w].op \in {"setup", "signup"} /\ role[w] = "USER"
  BY <1>0 DEF Knows, ControlOK, Roles
<1>2. CASE Finish(w)
  BY <1>2, EndStep DEF ReadSetting
<1>3. CASE Goto(w, "insertUser")
  <2>1. /\ OnlyMoves(w) /\ ControlOK' /\ pc'[w] = "insertUser"
        /\ request'[w] = request[w] /\ role'[w] = role[w]
        /\ held'[w] = held[w] /\ heldId'[w] = heldId[w]
    BY <1>0, <1>3, GotoEffect DEF Steps
  <2>2. Knows(w)' /\ HeldHasRole(w)'
    BY <1>0, <1>1, <2>1 DEF Knows, HeldHasRole, HasRole, ReadSetting, table
  <2> QED
    BY <1>1, <2>1, <2>2, LocalStep DEF ReadSetting
<1> QED
  BY <1>2, <1>3 DEF ReadSetting

\* The only step that makes a host: its worker stops founding.
LEMMA InsertUserStep ==
  ASSUME IInv, UNCHANGED overlap, NEW w \in Workers, InsertUser(w)
  PROVE  IInv'
<1>0. /\ DataOK /\ ControlOK /\ Knows(w) /\ RolesKept /\ FoundersBounded
      /\ pc[w] = "insertUser"
  BY TypeSplits DEF IInv, InsertUser
<1> DEFINE n   == lastUser + 1
           row == [role |-> role[w], status |-> "NORMAL"]
<1>1. n \in UserIds /\ lastUser' = n /\ n > lastUser
  BY <1>0, AccountsAssumption DEF DataOK, InsertUser, UserIds
<1>2. role[w] \in Roles /\ row \in Row /\ row.role = role[w]
  BY <1>0 DEF ControlOK, Row, Statuses
<1>3. request[w] # NoRequest
  BY <1>0 DEF Knows, Entitled
<1>4. /\ users' = [users EXCEPT ![n] = row]
      /\ granted' = [granted EXCEPT ![n] = role[w]]
      /\ Finish(w) \/ Take(w, n, row, "storeRow")
  BY DEF InsertUser
<1> HIDE DEF n, row
<1>5. granted[n] = NoRow
  BY <1>0, <1>1, AccountsAssumption DEF RolesKept, DataOK, UserIds
<1>6. DataOK' /\ GrantsKept
  BY <1>0, <1>1, <1>2, <1>4, <1>5, AccountsAssumption
  DEF DataOK, GrantsKept, RolesKept, InsertUser, UserIds
<1>7. RowsHaveRole'
  <2>1. \A u \in UserIds : users[u] # NoRow \/ userCache[u] # NoRow => u # n
    BY <1>0, <1>5, RowFields, AccountsAssumption DEF RolesKept, HasRole, DataOK
  <2> QED
    BY <1>0, <1>1, <1>2, <1>4, <2>1
    DEF RolesKept, RowsHaveRole, HasRole, DataOK, InsertUser
<1>8. /\ OnlyMoves(w) /\ ControlOK' /\ pc'[w] # "insertUser"
      /\ Knows(w)' /\ HeldHasRole(w)'
  <2>1. CASE Finish(w)
    BY <1>0, <2>1, FinishEffect
  <2>2. CASE Take(w, n, row, "storeRow")
    <3>1. /\ OnlyMoves(w) /\ ControlOK' /\ pc'[w] = "storeRow"
          /\ request'[w] = request[w] /\ role'[w] = role[w]
          /\ held'[w] = row /\ heldId'[w] = n
      BY <1>0, <1>1, <1>2, <2>2, TakeEffect DEF Steps
    <3>2. granted'[n] = role[w]
      BY <1>0, <1>1, <1>4 DEF DataOK
    <3> QED
      BY <1>1, <1>2, <1>3, <3>1, <3>2, AccountsAssumption
      DEF Knows, HeldHasRole, HasRole
  <2> QED
    BY <1>4, <2>1, <2>2
<1>9. FoundersBounded'
  <2>1. Founding' \subseteq Founding \ {w}
    BY <1>8, NobodyElseFounds
  <2>2. Hosts' \subseteq Hosts \cup {n}
    BY <1>0, <1>4 DEF Hosts, DataOK
  <2>3. CASE role[w] = "HOST"
    BY <1>0, <2>1, <2>2, <2>3, OneFounds DEF Founding
  <2>4. CASE role[w] # "HOST"
    <3>1. Hosts' \subseteq Hosts
      BY <1>0, <1>2, <1>4, <2>4 DEF Hosts, DataOK
    <3> QED
      BY <1>0, <2>1, <3>1, NobodyFounds
  <2> QED
    BY <2>3, <2>4
<1> QED
  BY <1>6, <1>7, <1>8, <1>9, WorkerStep

-----------------------------------------------------------------------------
(***************************************************************************)
(* Signing in and the cache.                                               *)
(***************************************************************************)
LEMMA SelectByNameStep ==
  ASSUME IInv, UNCHANGED overlap, NEW w \in Workers, SelectByName(w)
  PROVE  IInv'
<1>0. /\ DataOK /\ ControlOK /\ Knows(w) /\ RolesKept /\ pc[w] = "selectByName"
  BY TypeSplits DEF IInv, SelectByName
<1>1. request[w] # NoRequest /\ request[w].op = "signin"
  BY <1>0 DEF Knows
<1> DEFINE id  == request[w].target
           row == users[request[w].target]
<1>2. id \in UserIds
  BY <1>0, <1>1, RequestFields DEF ControlOK
<1>3. CASE Finish(w)
  BY <1>3, EndStep DEF SelectByName
<1>4. CASE row # NoRow /\ Take(w, id, row, "storeRow")
  <2>1. row \in Row /\ HasRole(id, row)
    BY <1>0, <1>2, <1>4 DEF DataOK, RolesKept
  <2> HIDE DEF id, row
  <2>2. /\ OnlyMoves(w) /\ ControlOK' /\ pc'[w] = "storeRow"
        /\ request'[w] = request[w] /\ role'[w] = role[w]
        /\ held'[w] = row /\ heldId'[w] = id
    BY <1>0, <1>2, <1>4, <2>1, TakeEffect DEF Steps
  <2>3. Knows(w)' /\ HeldHasRole(w)'
    BY <1>1, <1>4, <2>1, <2>2 DEF Knows, HeldHasRole, HasRole, SelectByName, table
  <2> QED
    BY <2>2, <2>3, LocalStep DEF SelectByName
<1> QED
  BY <1>3, <1>4 DEF SelectByName

LEMMA StoreRowStep ==
  ASSUME IInv, UNCHANGED overlap, NEW w \in Workers, StoreRow(w)
  PROVE  IInv'
<1>0. /\ DataOK /\ ControlOK /\ Knows(w) /\ RolesKept /\ HeldHasRole(w)
      /\ pc[w] = "storeRow"
  BY TypeSplits DEF IInv, StoreRow, RolesKept, HeldHasRole
<1>1. /\ request[w] # NoRequest /\ held[w] \in Row
      /\ HasRole(heldId[w], held[w]) /\ held[w] # NoRow
  BY <1>0 DEF Knows, ControlOK, HeldHasRole
<1>2. DataOK' /\ RowsHaveRole'
  BY <1>0, <1>1 DEF DataOK, RolesKept, RowsHaveRole, HasRole, StoreRow, table
<1>3. CASE Finish(w)
  BY <1>0, <1>2, <1>3, FinishEffect, TableStays DEF StoreRow
<1>4. CASE Goto(w, "giveToken")
  <2>1. /\ OnlyMoves(w) /\ ControlOK' /\ pc'[w] = "giveToken"
        /\ request'[w] = request[w] /\ role'[w] = role[w]
        /\ held'[w] = held[w] /\ heldId'[w] = heldId[w]
    BY <1>0, <1>4, GotoEffect DEF Steps
  <2>2. Knows(w)' /\ HeldHasRole(w)'
    BY <1>0, <1>1, <2>1 DEF Knows, HeldHasRole, HasRole, StoreRow, table
  <2> QED
    BY <1>2, <2>1, <2>2, TableStays DEF StoreRow
<1> QED
  BY <1>3, <1>4 DEF StoreRow

LEMMA GiveTokenStep ==
  ASSUME IInv, UNCHANGED overlap, NEW w \in Workers, GiveToken(w)
  PROVE  IInv'
<1>0. /\ DataOK /\ ControlOK /\ Knows(w) /\ RolesKept /\ HeldHasRole(w)
      /\ pc[w] = "giveToken"
  BY TypeSplits DEF IInv, GiveToken, RolesKept, HeldHasRole
<1>1. heldId[w] \in UserIds
  BY <1>0 DEF Knows, HeldHasRole, HasRole
<1>2. DataOK' /\ RowsHaveRole'
  BY <1>0, <1>1 DEF DataOK, RolesKept, RowsHaveRole, HasRole, GiveToken, table
<1> QED
  BY <1>0, <1>2, FinishEffect, TableStays DEF GiveToken

-----------------------------------------------------------------------------
(***************************************************************************)
(* The writes that need a right.                                           *)
(***************************************************************************)
LEMMA UpdateUserStep ==
  ASSUME IInv, UNCHANGED overlap, NEW w \in Workers, UpdateUser(w)
  PROVE  IInv'
<1>0. /\ DataOK /\ ControlOK /\ Knows(w) /\ RolesKept /\ pc[w] = "updateUser"
      /\ FoundersBounded
  BY TypeSplits DEF IInv, UpdateUser
<1>1. request[w] # NoRequest /\ request[w].op = "patch"
  BY <1>0 DEF Knows, Entitled
<1>2. request[w].target \in UserIds /\ request[w].status \in Statuses
  BY <1>0, <1>1, RequestFields DEF ControlOK
<1>3. CASE users[request[w].target] = NoRow
  BY <1>3, EndStep DEF UpdateUser, table
<1>4. CASE users[request[w].target] # NoRow
  <2> DEFINE id  == request[w].target
             old == users[id]
             row == [old EXCEPT !.status = request[w].status]
  <2>1. /\ users' = [users EXCEPT ![id] = row] /\ Take(w, id, row, "storeRow")
        /\ UNCHANGED <<lastUser, granted, allowSignup, userCache, tokens>>
    BY <1>4 DEF UpdateUser
  <2>2. old \in Row /\ HasRole(id, old)
    BY <1>0, <1>2, <1>4 DEF DataOK, RolesKept
  <2>3. row \in Row /\ row.role = old.role
    <3>1. old \in [role : Roles, status : Statuses]
      BY <2>2 DEF Row
    <3> HIDE DEF old
    <3> QED
      BY <1>2, <3>1, Zenon DEF Row
  <2> HIDE DEF row
  <2>4. /\ OnlyMoves(w) /\ ControlOK' /\ pc'[w] = "storeRow"
        /\ request'[w] = request[w] /\ role'[w] = role[w]
        /\ held'[w] = row /\ heldId'[w] = id
    BY <1>0, <1>2, <2>1, <2>3, TakeEffect DEF Steps
  <2>5. Knows(w)' /\ HeldHasRole(w)'
    BY <1>1, <1>2, <2>1, <2>2, <2>3, <2>4, AccountsAssumption
    DEF Knows, HeldHasRole, HasRole
  <2>6. DataOK' /\ RowsHaveRole' /\ GrantsKept
    BY <1>0, <1>2, <2>1, <2>2, <2>3
    DEF DataOK, RolesKept, RowsHaveRole, GrantsKept, HasRole
  <2>7. Hosts' \subseteq Hosts
    BY <1>0, <1>2, <1>4, <2>1, <2>2, <2>3 DEF Hosts, DataOK
  <2>8. Founding' \subseteq Founding
    BY <2>4, NobodyElseFounds
  <2> QED
    BY <1>0, <2>4, <2>5, <2>6, <2>7, <2>8, NobodyFounds, WorkerStep
<1> QED
  BY <1>3, <1>4

LEMMA DeleteUserStep ==
  ASSUME IInv, UNCHANGED overlap, NEW w \in Workers, DeleteUser(w)
  PROVE  IInv'
<1>0. /\ DataOK /\ ControlOK /\ Knows(w) /\ RolesKept /\ pc[w] = "deleteUser"
      /\ FoundersBounded /\ HeldHasRole(w)
  BY TypeSplits DEF IInv, DeleteUser, RolesKept, HeldHasRole
<1>1. CASE users[request[w].target] = NoRow
  BY <1>1, EndStep DEF DeleteUser, table
<1>2. CASE users[request[w].target] # NoRow
  <2>1. /\ users' = [users EXCEPT ![request[w].target] = NoRow]
        /\ Goto(w, "uncache")
        /\ UNCHANGED <<lastUser, granted, allowSignup, userCache, tokens>>
    BY <1>2 DEF DeleteUser
  <2>2. /\ OnlyMoves(w) /\ ControlOK' /\ pc'[w] = "uncache"
        /\ request'[w] = request[w] /\ role'[w] = role[w]
        /\ held'[w] = held[w] /\ heldId'[w] = heldId[w]
    BY <1>0, <2>1, GotoEffect DEF Steps
  <2>3. Knows(w)' /\ HeldHasRole(w)'
    BY <1>0, <2>1, <2>2 DEF Knows, HeldHasRole, HasRole, Entitled
  <2>4. DataOK' /\ RowsHaveRole' /\ GrantsKept
    BY <1>0, <2>1 DEF DataOK, RolesKept, RowsHaveRole, GrantsKept, HasRole
  <2>5. Hosts' \subseteq Hosts
    BY <1>0, <2>1 DEF Hosts, DataOK
  <2>6. Founding' \subseteq Founding
    BY <2>2, NobodyElseFounds
  <2> QED
    BY <1>0, <2>2, <2>3, <2>4, <2>5, <2>6, NobodyFounds, WorkerStep
<1> QED
  BY <1>1, <1>2

LEMMA UncacheStep ==
  ASSUME IInv, UNCHANGED overlap, NEW w \in Workers, Uncache(w)
  PROVE  IInv'
<1>0. DataOK /\ ControlOK /\ RolesKept
  BY TypeSplits DEF IInv
<1>1. DataOK' /\ RowsHaveRole'
  BY <1>0 DEF DataOK, RolesKept, RowsHaveRole, HasRole, Uncache, table
<1> QED
  BY <1>0, <1>1, FinishEffect, TableStays DEF Uncache

LEMMA UpsertSettingStep ==
  ASSUME IInv, UNCHANGED overlap, NEW w \in Workers, UpsertSetting(w)
  PROVE  IInv'
<1>0. DataOK /\ ControlOK /\ RolesKept /\ Knows(w) /\ pc[w] = "upsertSetting"
  BY TypeSplits DEF IInv, UpsertSetting
<1>1. request[w].value \in BOOLEAN
  BY <1>0, RequestFields DEF Knows, Entitled, ControlOK
<1>2. DataOK' /\ RowsHaveRole'
  BY <1>0, <1>1 DEF DataOK, RolesKept, RowsHaveRole, HasRole, UpsertSetting, table
<1> QED
  BY <1>0, <1>2, FinishEffect, TableStays DEF UpsertSetting

\* A crash takes the handlers of the server; the setup processes go on.
LEMMA RestartStep ==
  ASSUME IInv, UNCHANGED overlap, Restart
  PROVE  IInv'
<1> DEFINE Survives(w) == request[w] # NoRequest /\ request[w].op = "setup"
<1>0. DataOK /\ ControlOK /\ RolesKept /\ FoundersBounded
  BY TypeSplits DEF IInv
<1>1. /\ userCache' = [u \in UserIds |-> NoRow]
      /\ pc' = [w \in Workers |-> IF Survives(w) THEN pc[w] ELSE "idle"]
      /\ request' = [w \in Workers |-> IF Survives(w) THEN request[w] ELSE NoRequest]
      /\ held' = [w \in Workers |-> IF Survives(w) THEN held[w] ELSE NoRow]
      /\ heldId' = [w \in Workers |-> IF Survives(w) THEN heldId[w] ELSE 0]
      /\ role' = [w \in Workers |-> IF Survives(w) THEN role[w] ELSE "USER"]
      /\ UNCHANGED <<table, allowSignup, tokens>>
  BY DEF Restart
<1> HIDE DEF Survives
<1>2. TypeOK'
  BY <1>0, <1>1, AccountsAssumption
  DEF IInv, TypeOK, DataOK, ControlOK, Steps, Roles, table
<1>3. GrantsKept
  BY <1>0, <1>1 DEF GrantsKept, RolesKept, table
<1>4. \A v \in Workers : Knows(v)' /\ HeldHasRole(v)'
  <2> SUFFICES ASSUME NEW v \in Workers PROVE Knows(v)' /\ HeldHasRole(v)'
    OBVIOUS
  <2>1. CASE Survives(v)
    <3>1. /\ pc'[v] = pc[v] /\ request'[v] = request[v] /\ role'[v] = role[v]
          /\ held'[v] = held[v] /\ heldId'[v] = heldId[v]
      BY <1>1, <2>1
    <3> QED
      BY <1>3, <3>1, OthersKnow
  <2>2. CASE ~ Survives(v)
    <3>1. pc'[v] = "idle" /\ held'[v] = NoRow /\ role'[v] = "USER"
      BY <1>1, <2>2
    <3> QED
      BY <3>1 DEF Knows, HeldHasRole
  <2> QED
    BY <2>1, <2>2
<1>5. RolesKept'
  BY <1>0, <1>1, <1>3, <1>4
  DEF RolesKept, HeldHasRole, HasRole, GrantsKept, table
<1>6. Hosts' \subseteq Hosts /\ Founding' \subseteq Founding
  BY <1>1 DEF Hosts, Founding, table
<1> QED
  BY <1>0, <1>2, <1>4, <1>5, <1>6, NobodyFounds DEF IInv

-----------------------------------------------------------------------------
LEMMA InitInv == Init => IInv
<1> SUFFICES ASSUME Init PROVE IInv
  OBVIOUS
<1>1. TypeOK
  <2>1. 0 \in 0 .. MaxUser
    BY AccountsAssumption
  <2>2. DataOK
    BY <2>1 DEF Init, DataOK
  <2>3. ControlOK
    BY <2>1 DEF Init, ControlOK, Steps, Roles
  <2> QED
    BY <2>2, <2>3, TypeSplits DEF Init
<1>2. RolesKept /\ \A w \in Workers : Knows(w)
  BY DEF Init, RolesKept, HasRole, Knows
<1>3. Hosts = {} /\ Founding = {}
  BY DEF Init, Hosts, Founding
<1>4. FoundersBounded
  BY <1>3, FS_EmptySet, FS_CardinalityType, AccountsAssumption DEF FoundersBounded
<1> QED
  BY <1>1, <1>2, <1>4 DEF IInv

LEMMA StutterStep ==
  ASSUME IInv, UNCHANGED vars
  PROVE  IInv'
<1>1. TypeOK' /\ RolesKept' /\ \A w \in Workers : Knows(w)'
  BY DEF IInv, TypeOK, RolesKept, HasRole, Knows, Entitled, vars, table, control
<1>2. Hosts' \subseteq Hosts /\ Founding' \subseteq Founding
  BY DEF Hosts, Founding, vars, table, control
<1> QED
  BY <1>1, <1>2, NobodyFounds DEF IInv

LEMMA StepInv == IInv /\ [Next]_vars => IInv'
<1> SUFFICES ASSUME IInv, [Next]_vars PROVE IInv'
  OBVIOUS
<1>1. ASSUME NEW w \in Workers, Receive(w) \/ Handle(w) \/ Fail(w),
             UNCHANGED overlap
      PROVE  IInv'
  <2>1. CASE Receive(w)
    BY <1>1, <2>1, ReceiveStep
  <2>2. CASE Handle(w)
    BY <1>1, <2>2, AuthLoadStep, RoleLoadStep, UserSelectStep, UserStoreStep,
       ListHostsStep, ReadSettingStep, InsertUserStep, SelectByNameStep,
       StoreRowStep, GiveTokenStep, UpdateUserStep, DeleteUserStep,
       UncacheStep, UpsertSettingStep
    DEF Handle
  <2>3. CASE Fail(w)
    BY <1>1, <2>3, EndStep DEF Fail
  <2> QED
    BY <1>1, <2>1, <2>2, <2>3
<1>2. CASE Restart /\ UNCHANGED overlap
  BY <1>2, RestartStep
<1>3. CASE UNCHANGED vars
  BY <1>3, StutterStep
<1> QED
  BY <1>1, <1>2, <1>3 DEF Next

\* Roles never change, every place in a handler has passed its check, and the
\* hosts are counted.
THEOREM Invariance == Spec => []IInv
BY InitInv, StepInv, PTL DEF Spec

\* However signups and setups interleave, there are never more hosts and
\* founders than processes that can serve a request or run setup.
THEOREM HostsAreBounded == Spec => []FoundersBounded
<1>1. IInv => FoundersBounded
  BY DEF IInv
<1> QED
  BY <1>1, Invariance, PTL

-----------------------------------------------------------------------------
(***************************************************************************)
(* Who administers.                                                        *)
(***************************************************************************)
\* Steps that change accounts other than by adding one.
LEMMA AccountsChangeOnly ==
  ASSUME IInv, Next, NEW u \in UserIds, users[u] # NoRow, users'[u] # users[u]
  PROVE  \/ /\ users'[u] # NoRow /\ users'[u].role = users[u].role
            /\ ByHost({"patch"}) \/ ByOwner(u)
         \/ users'[u] = NoRow /\ ByHost({"delete"})
<1>0. DataOK /\ ControlOK /\ RolesKept
  BY TypeSplits DEF IInv
<1>1. PICK w \in Workers : InsertUser(w) \/ UpdateUser(w) \/ DeleteUser(w)
  BY DEF Next, Handle, Receive, Fail, Restart, AuthLoad, RoleLoad, UserSelect, UserStore,
     ListHosts, ReadSetting, SelectByName, StoreRow, GiveToken, Uncache,
     UpsertSetting, table
<1>2. ~ InsertUser(w)
  BY <1>0, AccountsAssumption DEF InsertUser, DataOK, RolesKept, HasRole, UserIds, Row
<1>3. CASE UpdateUser(w)
  <2>1. /\ Knows(w) /\ pc[w] = "updateUser"
        /\ users[request[w].target] # NoRow
    BY <1>3 DEF IInv, UpdateUser
  <2> DEFINE id  == request[w].target
             old == users[id]
             row == [old EXCEPT !.status = request[w].status]
  <2>2. users' = [users EXCEPT ![id] = row] /\ Take(w, id, row, "storeRow")
    BY <1>3, <2>1 DEF UpdateUser
  <2>3. id = u
    BY <1>0, <2>2 DEF DataOK
  <2>4. old \in Row /\ request[w].status \in Statuses
    BY <1>0, <2>1, <2>3, RequestFields DEF DataOK, Knows, Entitled, ControlOK
  <2>5. row \in Row /\ row.role = old.role
    <3>1. old \in [role : Roles, status : Statuses]
      BY <2>4 DEF Row
    <3> HIDE DEF old
    <3> QED
      BY <2>4, <3>1, Zenon DEF Row
  <2> HIDE DEF row
  <2>6. users'[u] = row /\ pc'[w] = "storeRow"
    BY <1>0, <2>2, <2>3 DEF DataOK, ControlOK, Take
  <2>7. ByHost({"patch"}) \/ ByOwner(u)
    BY <2>1, <2>3, <2>6 DEF Knows, Entitled, ByHost, ByOwner, Acting
  <2> QED
    BY <2>3, <2>5, <2>6, <2>7, AccountsAssumption
<1>4. CASE DeleteUser(w)
  <2>1. /\ Knows(w) /\ pc[w] = "deleteUser"
        /\ users[request[w].target] # NoRow
    BY <1>4 DEF IInv, DeleteUser
  <2>2. users' = [users EXCEPT ![request[w].target] = NoRow] /\ Goto(w, "uncache")
    BY <1>4, <2>1 DEF DeleteUser
  <2>3. users'[u] = NoRow /\ pc'[w] = "uncache"
    BY <1>0, <2>2 DEF DataOK, ControlOK, Goto
  <2> QED
    BY <2>1, <2>3 DEF Knows, Entitled, ByHost, Acting
<1> QED
  BY <1>1, <1>2, <1>3, <1>4

LEMMA SettingChangesOnly ==
  ASSUME IInv, Next, allowSignup' # allowSignup
  PROVE  ByHost({"allow"})
<1>0. ControlOK
  BY TypeSplits DEF IInv
<1>1. PICK w \in Workers : UpsertSetting(w)
  BY DEF Next, Handle, Receive, Fail, Restart, AuthLoad, RoleLoad, UserSelect, UserStore,
     ListHosts, ReadSetting, InsertUser, SelectByName, StoreRow, GiveToken,
     UpdateUser, DeleteUser, Uncache
<1>2. Knows(w) /\ pc[w] = "upsertSetting" /\ pc'[w] = "idle"
  BY <1>0, <1>1, FinishEffect DEF IInv, UpsertSetting
<1> QED
  BY <1>2 DEF Knows, Entitled, ByHost, Acting

\* The role check on a row that may be stale still lets only hosts administer
\* (user.go:187, :255, system.go:131).
THEOREM HostsAdminister == Spec => OnlyHostsAdminister
<1> DEFINE Right ==
      /\ \A u \in UserIds : users[u] # NoRow /\ users'[u] # users[u] =>
           \/ /\ users'[u] # NoRow /\ users'[u].role = users[u].role
              /\ ByHost({"patch"}) \/ ByOwner(u)
           \/ users'[u] = NoRow /\ ByHost({"delete"})
      /\ allowSignup' # allowSignup => ByHost({"allow"})
<1>1. IInv /\ [Next]_vars => [Right]_vars
  BY AccountsChangeOnly, SettingChangesOnly
<1> QED
  BY <1>1, Invariance, PTL DEF Spec, OnlyHostsAdminister

-----------------------------------------------------------------------------
(***************************************************************************)
(* Requests in turn: one host, and a cache equal to the table.             *)
(***************************************************************************)
\* What TurnInv says of the only worker that may be busy.
FreshCache(w) ==
  \A u \in UserIds : userCache[u] # NoRow =>
    \/ userCache[u] = users[u]
    \/ pc[w] = "storeRow" /\ heldId[w] = u
    \/ pc[w] = "uncache" /\ request[w].target = u
FreshHeld(w) ==
  pc[w] \in {"authStore", "roleStore", "storeRow"} => held[w] = users[heldId[w]]
FoundsAlone(w) ==
  pc[w] = "insertUser" /\ role[w] = "HOST" => Hosts = {}
HostsAgree == \A u, v \in Hosts : u = v
OthersIdle(w) == \A v \in Workers : v # w => pc[v] = "idle"

LEMMA TurnOfOne ==
  ASSUME TurnInv, ~ overlap, NEW w \in Workers, OthersIdle(w)
  PROVE  FreshCache(w) /\ FreshHeld(w) /\ FoundsAlone(w) /\ HostsAgree
<1>1. FreshCache(w)
  BY DEF TurnInv, Settling, FreshCache, OthersIdle
<1> QED
  BY <1>1 DEF TurnInv, FreshHeld, FoundsAlone, HostsAgree, Founding

LEMMA BusyAlone ==
  ASSUME TurnInv, ~ overlap, NEW w \in Workers, pc[w] # "idle"
  PROVE  OthersIdle(w)
BY DEF TurnInv, InTurn, OthersIdle

LEMMA TurnStays ==
  ASSUME UNCHANGED overlap, NEW w \in Workers, OnlyMoves(w), OthersIdle(w),
         FreshCache(w)', FreshHeld(w)', FoundsAlone(w)', HostsAgree'
  PROVE  TurnInv'
<1>1. \A v \in Workers : v # w => pc'[v] = "idle"
  BY DEF OnlyMoves, OthersIdle
<1>2. InTurn'
  BY <1>1 DEF InTurn
<1>3. \A u \in UserIds : userCache'[u] # NoRow => userCache'[u] = users'[u] \/ Settling(u)'
  BY DEF FreshCache, Settling
<1>4. Founding' # {} => Hosts' = {}
  BY <1>1 DEF Founding, FoundsAlone
<1>5. \A v \in Workers : pc'[v] \in {"authStore", "roleStore", "storeRow"} =>
         held'[v] = users'[heldId'[v]]
  BY <1>1 DEF FreshHeld
<1> QED
  BY <1>2, <1>3, <1>4, <1>5 DEF TurnInv, HostsAgree

\* A handler that leaves table and cache alone, where nothing is unsettled.
LEMMA TurnLocal ==
  ASSUME UNCHANGED overlap, NEW w \in Workers, OnlyMoves(w), OthersIdle(w),
         FreshCache(w), HostsAgree, UNCHANGED <<users, userCache>>,
         pc[w] \notin {"storeRow", "uncache"}, FreshHeld(w)',
         pc'[w] # "insertUser" \/ role'[w] # "HOST" \/ Hosts = {}
  PROVE  TurnInv'
<1>1. FreshCache(w)' /\ HostsAgree' /\ Hosts' = Hosts
  BY DEF FreshCache, HostsAgree, Hosts
<1> QED
  BY <1>1, TurnStays DEF FoundsAlone

\* The control of a handler that ends or goes on without a row in hand.
LEMMA TurnMoves ==
  ASSUME ControlOK, NEW w \in Workers,
         \/ Finish(w)
         \/ \E step \in Steps : Goto(w, step)
  PROVE  /\ OnlyMoves(w)
         /\ Finish(w) \/ UNCHANGED <<held, heldId, request, role>>
         /\ Finish(w) => pc'[w] = "idle" /\ role'[w] = "USER"
BY FinishEffect DEF Goto, OnlyMoves, ControlOK

LEMMA TurnReceive ==
  ASSUME IInv, TurnInv, ~ overlap, UNCHANGED overlap, NEW w \in Workers, Receive(w)
  PROVE  TurnInv'
<1>1. ControlOK
  BY TypeSplits DEF IInv
<1>2. OthersIdle(w) /\ pc[w] = "idle"
  BY DEF Receive, OthersIdle
<1>3. FreshCache(w) /\ HostsAgree
  BY <1>2, TurnOfOne
<1>4. PICK step \in {"authLoad", "selectByName", "listHosts"}, r \in Requests :
        /\ request' = [request EXCEPT ![w] = r]
        /\ pc' = [pc EXCEPT ![w] = step]
  BY DEF Receive
<1>5. OnlyMoves(w) /\ pc'[w] = step
  BY <1>1, <1>4 DEF OnlyMoves, ControlOK, Receive
<1> QED
  BY <1>2, <1>3, <1>5, TurnLocal DEF Receive, FreshHeld, table

LEMMA TurnLook ==
  ASSUME IInv, TurnInv, ~ overlap, UNCHANGED overlap, NEW w \in Workers,
         \/ AuthLoad(w) \/ RoleLoad(w) \/ ReadSetting(w)
         \/ GiveToken(w) \/ UpsertSetting(w) \/ Fail(w)
  PROVE  TurnInv'
<1>1. ControlOK /\ Knows(w)
  BY TypeSplits DEF IInv
<1>2. pc[w] \in {"authLoad", "roleLoad", "readSetting", "giveToken", "upsertSetting",
                 "authSelect", "roleSelect", "listHosts", "insertUser",
                 "selectByName", "updateUser", "deleteUser"}
  BY DEF AuthLoad, RoleLoad, ReadSetting, GiveToken, UpsertSetting, Fail
<1>3. OthersIdle(w) /\ FreshCache(w) /\ HostsAgree
  BY <1>2, BusyAlone, TurnOfOne
<1>4. UNCHANGED <<users, userCache>>
  BY DEF AuthLoad, RoleLoad, ReadSetting, GiveToken, UpsertSetting, Fail, table
<1>5. CASE Finish(w)
  BY <1>1, <1>2, <1>3, <1>4, <1>5, TurnMoves, TurnLocal DEF FreshHeld
<1>6. ASSUME NEW step \in {"roleLoad", "authSelect", "roleSelect", "insertUser",
                           "updateUser", "deleteUser", "upsertSetting"},
             Goto(w, step) \/ LetGo(w, step),
             pc[w] \in {"authLoad", "roleLoad", "readSetting"}
      PROVE  TurnInv'
  <2>1. OnlyMoves(w) /\ pc'[w] = step /\ role' = role
    BY <1>1, <1>6 DEF Goto, LetGo, Take, OnlyMoves, ControlOK
  <2>2. role[w] = "USER"
    BY <1>1, <1>6 DEF Knows, ControlOK, Roles
  <2> QED
    BY <1>2, <1>3, <1>4, <1>6, <2>1, <2>2, TurnLocal DEF FreshHeld
<1>7. CASE ~ Finish(w)
  <2>1. CASE RoleLoad(w)
    <3>1. request[w].op \in {"member", "patch", "delete", "allow"}
      BY <1>1, <2>1 DEF Knows, RoleLoad, Authenticated
    <3> QED
      BY <1>6, <1>7, <2>1, <3>1 DEF RoleLoad, Allowed, Entry
  <2>2. CASE AuthLoad(w) \/ ReadSetting(w)
    BY <1>6, <1>7, <2>2 DEF AuthLoad, ReadSetting
  <2> QED
    BY <1>7, <2>1, <2>2 DEF GiveToken, UpsertSetting, Fail
<1> QED
  BY <1>5, <1>7

\* The rows of the table that are taken in hand.
LEMMA TurnSelect ==
  ASSUME IInv, TurnInv, ~ overlap, UNCHANGED overlap, NEW w \in Workers,
         UserSelect(w) \/ SelectByName(w)
  PROVE  TurnInv'
<1>1. ControlOK /\ Knows(w)
  BY TypeSplits DEF IInv
<1>2. pc[w] \in {"authSelect", "roleSelect", "selectByName"}
  BY DEF UserSelect, SelectByName
<1>3. OthersIdle(w) /\ FreshCache(w) /\ HostsAgree
  BY <1>2, BusyAlone, TurnOfOne
<1>4. UNCHANGED <<users, userCache>>
  BY DEF UserSelect, SelectByName, table
<1>5. CASE Finish(w)
  BY <1>1, <1>2, <1>3, <1>4, <1>5, TurnMoves, TurnLocal DEF FreshHeld
<1>6. ASSUME NEW id, NEW step \in {"authStore", "roleStore", "storeRow"},
             Take(w, id, users[id], step)
      PROVE  TurnInv'
  <2>1. OnlyMoves(w) /\ pc'[w] = step /\ held'[w] = users[id] /\ heldId'[w] = id
    BY <1>1, <1>6 DEF Take, OnlyMoves, ControlOK
  <2> QED
    BY <1>2, <1>3, <1>4, <2>1, TurnLocal DEF FreshHeld
<1> QED
  BY <1>5, <1>6 DEF UserSelect, SelectByName

LEMMA TurnListHosts ==
  ASSUME IInv, TurnInv, ~ overlap, UNCHANGED overlap, NEW w \in Workers, ListHosts(w)
  PROVE  TurnInv'
<1>1. ControlOK /\ Knows(w) /\ pc[w] = "listHosts"
  BY TypeSplits DEF IInv, ListHosts
<1>2. OthersIdle(w) /\ FreshCache(w) /\ HostsAgree
  BY <1>1, BusyAlone, TurnOfOne
<1>3. UNCHANGED <<users, userCache>>
  BY DEF ListHosts, table
<1>4. CASE Finish(w) \/ Goto(w, "readSetting")
  <2>1. OnlyMoves(w) /\ pc'[w] \in {"idle", "readSetting"}
    BY <1>1, <1>4, FinishEffect DEF Goto, OnlyMoves, ControlOK
  <2> QED
    BY <1>1, <1>2, <1>3, <2>1, TurnLocal DEF FreshHeld
<1>5. CASE /\ Hosts = {}
           /\ pc' = [pc EXCEPT ![w] = "insertUser"]
           /\ role' = [role EXCEPT ![w] = "HOST"]
           /\ UNCHANGED <<request, held, heldId>>
  <2>1. OnlyMoves(w) /\ pc'[w] = "insertUser"
    BY <1>1, <1>5 DEF OnlyMoves, ControlOK
  <2> QED
    BY <1>1, <1>2, <1>3, <1>5, <2>1, TurnLocal DEF FreshHeld
<1> QED
  BY <1>4, <1>5 DEF ListHosts

\* What is stored is the row of the table.
LEMMA TurnStore ==
  ASSUME IInv, TurnInv, ~ overlap, UNCHANGED overlap, NEW w \in Workers,
         UserStore(w) \/ StoreRow(w)
  PROVE  TurnInv'
<1>1. DataOK /\ ControlOK /\ Knows(w)
  BY TypeSplits DEF IInv
<1>2. pc[w] \in {"authStore", "roleStore", "storeRow"}
  BY DEF UserStore, StoreRow
<1>3. OthersIdle(w) /\ FreshCache(w) /\ FreshHeld(w) /\ HostsAgree
  BY <1>2, BusyAlone, TurnOfOne
<1>4. /\ users' = users
      /\ userCache' = [userCache EXCEPT ![heldId[w]] = held[w]]
  BY DEF UserStore, StoreRow, table
<1>5. \A u \in UserIds : userCache'[u] # NoRow => userCache'[u] = users[u]
  BY <1>1, <1>2, <1>3, <1>4 DEF FreshCache, FreshHeld, DataOK
<1>6. FreshCache(w)' /\ HostsAgree'
  BY <1>3, <1>4, <1>5 DEF FreshCache, HostsAgree, Hosts
<1>7. CASE Finish(w)
  BY <1>1, <1>3, <1>6, <1>7, FinishEffect, TurnStays DEF FreshHeld, FoundsAlone
<1>8. ASSUME NEW step \in {"roleLoad", "giveToken", "insertUser", "updateUser",
                           "deleteUser", "upsertSetting"},
             Goto(w, step) \/ LetGo(w, step),
             step = "insertUser" => role[w] = "USER"
      PROVE  TurnInv'
  <2>1. OnlyMoves(w) /\ pc'[w] = step /\ role' = role
    BY <1>1, <1>8 DEF Goto, LetGo, Take, OnlyMoves, ControlOK
  <2> QED
    BY <1>3, <1>6, <1>8, <2>1, TurnStays DEF FreshHeld, FoundsAlone
<1>9. CASE UserStore(w) /\ ~ Finish(w)
  <2>1. /\ request[w].op \in {"member", "patch", "delete", "allow"}
        /\ role[w] = "USER"
    BY <1>1, <1>9 DEF Knows, UserStore, Authenticated, ControlOK, Roles
  <2> QED
    BY <1>8, <1>9, <2>1 DEF UserStore, Allowed, Entry
<1>10. CASE StoreRow(w) /\ ~ Finish(w)
  BY <1>8, <1>10 DEF StoreRow
<1> QED
  BY <1>7, <1>9, <1>10

\* The new id was never in the cache; a founder founds because there is none.
LEMMA TurnInsert ==
  ASSUME IInv, TurnInv, ~ overlap, UNCHANGED overlap, NEW w \in Workers, InsertUser(w)
  PROVE  TurnInv'
<1>1. DataOK /\ ControlOK /\ RolesKept /\ pc[w] = "insertUser"
  BY TypeSplits DEF IInv, InsertUser
<1>2. OthersIdle(w) /\ FreshCache(w) /\ FoundsAlone(w) /\ HostsAgree
  BY <1>1, BusyAlone, TurnOfOne
<1> DEFINE n   == lastUser + 1
           row == [role |-> role[w], status |-> "NORMAL"]
<1>3. /\ n \in UserIds /\ userCache' = userCache
      /\ users' = [users EXCEPT ![n] = row]
      /\ Finish(w) \/ Take(w, n, row, "storeRow")
  BY <1>1, AccountsAssumption DEF InsertUser, DataOK, UserIds
<1>4. \A u \in UserIds : userCache[u] # NoRow => u # n
  BY <1>1, RowFields, AccountsAssumption DEF RolesKept, HasRole, DataOK, UserIds
<1>5. row.role = role[w]
  OBVIOUS
<1> HIDE DEF n, row
<1>6. /\ OnlyMoves(w) /\ pc'[w] \in {"idle", "storeRow"}
      /\ pc'[w] = "storeRow" => held'[w] = row /\ heldId'[w] = n
  BY <1>1, <1>3, FinishEffect DEF Take, OnlyMoves, ControlOK
<1>7. FreshCache(w)' /\ FreshHeld(w)' /\ FoundsAlone(w)'
  BY <1>1, <1>2, <1>3, <1>4, <1>6 DEF FreshCache, FreshHeld, FoundsAlone, DataOK
<1>8. HostsAgree'
  <2>1. \A u \in Hosts' : u \in Hosts \/ (u = n /\ role[w] = "HOST")
    <3> SUFFICES ASSUME NEW u \in UserIds, users'[u] # NoRow, users'[u].role = "HOST"
                 PROVE  u \in Hosts \/ (u = n /\ role[w] = "HOST")
      BY DEF Hosts
    <3>1. users'[u] = IF u = n THEN row ELSE users[u]
      BY <1>1, <1>3 DEF DataOK
    <3> QED
      BY <1>5, <3>1 DEF Hosts
  <2> QED
    BY <1>1, <1>2, <2>1 DEF HostsAgree, FoundsAlone
<1> QED
  BY <1>2, <1>6, <1>7, <1>8, TurnStays

LEMMA TurnWrite ==
  ASSUME IInv, TurnInv, ~ overlap, UNCHANGED overlap, NEW w \in Workers,
         UpdateUser(w) \/ DeleteUser(w)
  PROVE  TurnInv'
<1>1. DataOK /\ ControlOK /\ Knows(w) /\ pc[w] \in {"updateUser", "deleteUser"}
  BY TypeSplits DEF IInv, UpdateUser, DeleteUser
<1>2. OthersIdle(w) /\ FreshCache(w) /\ HostsAgree
  BY <1>1, BusyAlone, TurnOfOne
<1> DEFINE id  == request[w].target
           old == users[id]
           row == [old EXCEPT !.status = request[w].status]
<1>3. CASE Finish(w) /\ UNCHANGED users
  BY <1>1, <1>2, <1>3, FinishEffect, TurnLocal DEF UpdateUser, DeleteUser, FreshHeld
<1>4. id \in UserIds
  BY <1>1, RequestFields DEF Knows, Entitled, ControlOK
<1>5. CASE UpdateUser(w) /\ old # NoRow
  <2>1. /\ users' = [users EXCEPT ![id] = row] /\ Take(w, id, row, "storeRow")
        /\ userCache' = userCache
    BY <1>5 DEF UpdateUser
  <2>2. row.role = old.role
    <3>1. old \in [role : Roles, status : Statuses]
      BY <1>1, <1>4, <1>5 DEF DataOK, Row
    <3> HIDE DEF old
    <3> QED
      BY <3>1, Zenon
  <2> HIDE DEF row
  <2>3. OnlyMoves(w) /\ pc'[w] = "storeRow" /\ held'[w] = row /\ heldId'[w] = id
    BY <1>1, <2>1 DEF Take, OnlyMoves, ControlOK
  <2>4. FreshCache(w)' /\ FreshHeld(w)' /\ FoundsAlone(w)'
    BY <1>1, <1>2, <1>4, <2>1, <2>3 DEF FreshCache, FreshHeld, FoundsAlone, DataOK
  <2>5. HostsAgree'
    BY <1>1, <1>2, <1>4, <1>5, <2>1, <2>2 DEF HostsAgree, Hosts, DataOK
  <2> QED
    BY <1>2, <2>3, <2>4, <2>5, TurnStays
<1>6. CASE DeleteUser(w) /\ old # NoRow
  <2>1. /\ users' = [users EXCEPT ![id] = NoRow] /\ Goto(w, "uncache")
        /\ userCache' = userCache
    BY <1>6 DEF DeleteUser
  <2>2. OnlyMoves(w) /\ pc'[w] = "uncache" /\ request' = request
    BY <1>1, <2>1 DEF Goto, OnlyMoves, ControlOK
  <2>3. FreshCache(w)' /\ FreshHeld(w)' /\ FoundsAlone(w)'
    BY <1>1, <1>2, <1>4, <2>1, <2>2 DEF FreshCache, FreshHeld, FoundsAlone, DataOK
  <2>4. HostsAgree'
    BY <1>1, <1>2, <2>1 DEF HostsAgree, Hosts, DataOK
  <2> QED
    BY <1>2, <2>2, <2>3, <2>4, TurnStays
<1> QED
  BY <1>3, <1>5, <1>6 DEF UpdateUser, DeleteUser

LEMMA TurnUncache ==
  ASSUME IInv, TurnInv, ~ overlap, UNCHANGED overlap, NEW w \in Workers, Uncache(w)
  PROVE  TurnInv'
<1>1. DataOK /\ ControlOK /\ pc[w] = "uncache"
  BY TypeSplits DEF IInv, Uncache
<1>2. OthersIdle(w) /\ FreshCache(w) /\ HostsAgree
  BY <1>1, BusyAlone, TurnOfOne
<1>3. /\ users' = users /\ Finish(w)
      /\ userCache' = [userCache EXCEPT ![request[w].target] = NoRow]
  BY DEF Uncache, table
<1>4. OnlyMoves(w) /\ pc'[w] = "idle"
  BY <1>1, <1>3, FinishEffect
<1>5. FreshCache(w)' /\ FreshHeld(w)' /\ FoundsAlone(w)' /\ HostsAgree'
  BY <1>1, <1>2, <1>3, <1>4
  DEF FreshCache, FreshHeld, FoundsAlone, HostsAgree, Hosts, DataOK
<1> QED
  BY <1>2, <1>4, <1>5, TurnStays

\* Whoever survives a restart goes on as before, with an empty cache.
LEMMA TurnRestart ==
  ASSUME IInv, TurnInv, ~ overlap, UNCHANGED overlap, Restart
  PROVE  TurnInv'
<1>1. ControlOK
  BY TypeSplits DEF IInv
<1>2. \A w \in Workers :
        \/ /\ pc'[w] = pc[w] /\ role'[w] = role[w]
           /\ held'[w] = held[w] /\ heldId'[w] = heldId[w]
        \/ pc'[w] = "idle"
  BY <1>1 DEF Restart, ControlOK
<1>3. users' = users /\ \A u \in UserIds : userCache'[u] = NoRow
  BY DEF Restart, table
<1>4. InTurn'
  BY <1>2 DEF TurnInv, InTurn
<1>5. Hosts' = Hosts /\ Founding' \subseteq Founding
  BY <1>2, <1>3 DEF Hosts, Founding
<1>6. \A w \in Workers : pc'[w] \in {"authStore", "roleStore", "storeRow"} =>
        held'[w] = users'[heldId'[w]]
  BY <1>2, <1>3 DEF TurnInv
<1> QED
  BY <1>3, <1>4, <1>5, <1>6 DEF TurnInv

LEMMA TurnStep == IInv /\ TurnInv /\ [Next]_vars => TurnInv'
<1> SUFFICES ASSUME IInv, TurnInv, [Next]_vars PROVE TurnInv'
  OBVIOUS
<1>1. UNCHANGED overlap
  BY DEF Next, vars
<1>2. CASE overlap
  BY <1>1, <1>2 DEF TurnInv
<1>3. CASE ~ overlap
  <2>1. ASSUME NEW w \in Workers, Receive(w) \/ Handle(w) \/ Fail(w)
        PROVE  TurnInv'
    BY <1>1, <1>3, <2>1, TurnReceive, TurnLook, TurnSelect, TurnListHosts,
       TurnStore, TurnInsert, TurnWrite, TurnUncache
    DEF Handle
  <2>2. CASE Restart
    BY <1>1, <1>3, <2>2, TurnRestart
  <2>3. CASE UNCHANGED vars
    <3>1. Hosts' = Hosts /\ Founding' = Founding
      BY <2>3 DEF Hosts, Founding, vars, table, control
    <3> QED
      BY <2>3, <3>1 DEF TurnInv, InTurn, Settling, vars, table, control
  <2> QED
    BY <2>1, <2>2, <2>3 DEF Next
<1> QED
  BY <1>2, <1>3

\* With requests in turn one worker is busy, and it alone knows of an entry
\* in the cache that is about to be replaced or dropped.
THEOREM TurnKept == Spec => []TurnInv
<1>1. Init => TurnInv
  BY DEF Init, TurnInv, InTurn, Hosts, Founding, Settling
<1> QED
  BY <1>1, TurnStep, Invariance, PTL DEF Spec

\* A request that begins after all others have ended finds the rows of the
\* table in the cache.
THEOREM CacheKeptCurrent == Spec => []CacheIsCurrent
<1>1. TurnInv => CacheIsCurrent
  BY DEF TurnInv, CacheIsCurrent, Settling
<1> QED
  BY <1>1, TurnKept, PTL

\* Signups and setups that come one after the other make one host.
THEOREM OneHostAtATime == Spec => []OneHostInTurn
<1>1. TurnInv => OneHostInTurn
  <2> SUFFICES ASSUME TurnInv, ~ overlap PROVE OneHost
    BY DEF OneHostInTurn
  <2>1. CASE Hosts = {}
    BY <2>1, FS_EmptySet DEF OneHost
  <2>2. ASSUME NEW u \in Hosts
        PROVE  OneHost
    <3>1. Hosts = {u}
      BY <2>2 DEF TurnInv
    <3>2. Cardinality({u}) = 1
      BY FS_Singleton
    <3> QED
      BY <3>1, <3>2 DEF OneHost
  <2> QED
    BY <2>1, <2>2
<1> QED
  BY <1>1, TurnKept, PTL

-----------------------------------------------------------------------------
(***************************************************************************)
(* Requests in turn: who gets an account.                                  *)
(***************************************************************************)
\* What a handler past its check knows as long as it is the only one.
Permitted(w) ==
  pc[w] = "insertUser" /\ role[w] = "USER" =>
    request[w].op = "member" \/ allowSignup

PermitInv == ~ overlap => \A w \in Workers : Permitted(w)

LEMMA PermitOfOne ==
  ASSUME UNCHANGED overlap, NEW w \in Workers, OnlyMoves(w), OthersIdle(w), Permitted(w)'
  PROVE  PermitInv'
BY DEF PermitInv, Permitted, OnlyMoves, OthersIdle

\* Ends, and moves to places that no check guards.
LEMMA PermitGoes ==
  ASSUME ControlOK, UNCHANGED overlap, NEW w \in Workers, OthersIdle(w),
         \/ Finish(w)
         \/ \E step \in Steps \ {"insertUser"} :
              Goto(w, step) \/ \E id, row : Take(w, id, row, step)
  PROVE  PermitInv'
<1>1. OnlyMoves(w) /\ pc'[w] # "insertUser"
  BY FinishEffect DEF Goto, Take, OnlyMoves, ControlOK
<1> QED
  BY <1>1, PermitOfOne DEF Permitted

LEMMA PermitAllowed ==
  ASSUME IInv, UNCHANGED overlap, NEW w \in Workers, OthersIdle(w),
         request[w] # NoRequest, request[w].op \in Authenticated,
         NEW row, Allowed(w, row)
  PROVE  PermitInv'
<1>1. ControlOK
  BY TypeSplits DEF IInv
<1>2. CASE request[w].op = "member" /\ LetGo(w, "insertUser")
  <2>1. OnlyMoves(w) /\ pc'[w] = "insertUser" /\ request' = request
    BY <1>1, <1>2 DEF LetGo, Take, OnlyMoves, ControlOK
  <2> QED
    BY <1>2, <2>1, PermitOfOne DEF Permitted
<1>3. CASE request[w].op # "member" /\ LetGo(w, Entry[request[w].op])
  <2>1. Entry[request[w].op] \in Steps \ {"insertUser"}
    BY <1>3 DEF Entry, Steps, Authenticated
  <2> QED
    BY <1>1, <1>3, <2>1, PermitGoes DEF LetGo
<1>4. CASE Finish(w)
  BY <1>1, <1>4, PermitGoes
<1> QED
  BY <1>2, <1>3, <1>4 DEF Allowed, Entry

LEMMA PermitHandle ==
  ASSUME IInv, TurnInv, PermitInv, ~ overlap, UNCHANGED overlap,
         NEW w \in Workers, Handle(w)
  PROVE  PermitInv'
<1>1. ControlOK /\ Knows(w) /\ pc[w] # "idle"
  BY TypeSplits
  DEF IInv, Handle, AuthLoad, RoleLoad, UserSelect, UserStore,
      ListHosts, ReadSetting, InsertUser, SelectByName, StoreRow, GiveToken,
      UpdateUser, DeleteUser, Uncache, UpsertSetting
<1>2. OthersIdle(w)
  BY <1>1, BusyAlone
<1>3. CASE Finish(w)
  BY <1>1, <1>2, <1>3, PermitGoes
<1>4. ASSUME NEW step \in Steps \ {"insertUser"},
             Goto(w, step) \/ \E id, row : Take(w, id, row, step)
      PROVE  PermitInv'
  BY <1>1, <1>2, <1>4, PermitGoes
<1>5. CASE AuthLoad(w) \/ DeleteUser(w) \/ StoreRow(w)
  BY <1>3, <1>4, <1>5 DEF AuthLoad, DeleteUser, StoreRow, Steps
<1>6. CASE UserSelect(w) \/ SelectByName(w) \/ UpdateUser(w)
  BY <1>3, <1>4, <1>6 DEF UserSelect, SelectByName, UpdateUser, Steps
<1>7. CASE RoleLoad(w) \/ UserStore(w)
  <2>1. request[w] # NoRequest /\ request[w].op \in Authenticated
    BY <1>1, <1>7 DEF RoleLoad, UserStore, Knows
  <2>2. CASE Goto(w, "roleSelect") \/ LetGo(w, "roleLoad")
    BY <1>4, <2>2 DEF Steps, LetGo
  <2> QED
    BY <1>2, <1>7, <2>1, <2>2, PermitAllowed DEF RoleLoad, UserStore
<1>8. CASE ListHosts(w)
  <2>1. CASE Goto(w, "readSetting")
    BY <1>4, <2>1 DEF Steps
  <2>2. CASE /\ pc' = [pc EXCEPT ![w] = "insertUser"]
             /\ role' = [role EXCEPT ![w] = "HOST"]
             /\ UNCHANGED <<request, held, heldId>>
    <3>1. OnlyMoves(w) /\ pc'[w] = "insertUser" /\ role'[w] = "HOST"
      BY <1>1, <2>2 DEF OnlyMoves, ControlOK
    <3> QED
      BY <1>2, <3>1, PermitOfOne DEF Permitted
  <2> QED
    BY <1>3, <1>8, <2>1, <2>2 DEF ListHosts
<1>9. CASE ReadSetting(w) /\ ~ Finish(w)
  <2>1. allowSignup /\ Goto(w, "insertUser") /\ allowSignup' = allowSignup
    BY <1>9 DEF ReadSetting
  <2>2. OnlyMoves(w) /\ pc'[w] = "insertUser"
    BY <1>1, <2>1 DEF Goto, OnlyMoves, ControlOK
  <2> QED
    BY <1>2, <2>1, <2>2, PermitOfOne DEF Permitted
<1>10. CASE InsertUser(w) /\ ~ Finish(w)
  BY <1>4, <1>10 DEF InsertUser, Steps
<1> QED
  BY <1>3, <1>5, <1>6, <1>7, <1>8, <1>9, <1>10
  DEF Handle, GiveToken, Uncache, UpsertSetting

LEMMA PermitStep == IInv /\ TurnInv /\ PermitInv /\ [Next]_vars => PermitInv'
<1> SUFFICES ASSUME IInv, TurnInv, PermitInv, [Next]_vars PROVE PermitInv'
  OBVIOUS
<1>1. UNCHANGED overlap /\ ControlOK
  BY TypeSplits DEF IInv, Next, vars
<1>2. CASE overlap
  BY <1>1, <1>2 DEF PermitInv
<1>3. CASE ~ overlap
  <2>1. ASSUME NEW w \in Workers, Handle(w)
        PROVE  PermitInv'
    BY <1>1, <1>3, <2>1, PermitHandle
  <2>2. ASSUME NEW w \in Workers, Receive(w)
        PROVE  PermitInv'
    <3>1. OthersIdle(w)
      BY <1>3, <2>2 DEF Receive, OthersIdle
    <3>2. PICK step \in {"authLoad", "selectByName", "listHosts"}, r \in Requests :
            /\ request' = [request EXCEPT ![w] = r]
            /\ pc' = [pc EXCEPT ![w] = step]
      BY <2>2 DEF Receive
    <3>3. OnlyMoves(w) /\ pc'[w] = step
      BY <1>1, <2>2, <3>2 DEF OnlyMoves, ControlOK, Receive
    <3> QED
      BY <1>1, <3>1, <3>3, PermitOfOne DEF Permitted
  <2>3. ASSUME NEW w \in Workers, Fail(w)
        PROVE  PermitInv'
    <3>1. pc[w] # "idle" /\ Finish(w)
      BY <2>3 DEF Fail
    <3>2. OthersIdle(w)
      BY <1>3, <3>1, BusyAlone
    <3> QED
      BY <1>1, <3>1, <3>2, PermitGoes
  <2>4. CASE Restart
    <3>1. \A w \in Workers :
            \/ /\ pc'[w] = pc[w] /\ role'[w] = role[w] /\ request'[w] = request[w]
               /\ held'[w] = held[w] /\ heldId'[w] = heldId[w]
            \/ pc'[w] = "idle"
      BY <1>1, <2>4 DEF Restart, ControlOK
    <3>2. users' = users /\ allowSignup' = allowSignup
      BY <2>4 DEF Restart, table
    <3> QED
      BY <1>1, <3>1, <3>2 DEF PermitInv, Permitted
  <2>5. CASE UNCHANGED vars
    BY <2>5 DEF PermitInv, Permitted, vars, table, control
  <2> QED
    BY <2>1, <2>2, <2>3, <2>4, <2>5 DEF Next
<1> QED
  BY <1>2, <1>3

LEMMA PermitKept == Spec => []PermitInv
<1>1. Init => PermitInv
  BY DEF Init, PermitInv, Permitted
<1> QED
  BY <1>1, PermitStep, Invariance, TurnKept, PTL DEF Spec

\* With requests in turn an account comes from the host, is the first host, or
\* was allowed to sign up when it was made (auth.go:80-99).
THEOREM SignupsAllowedInTurn == Spec => SignupsAllowed
<1> DEFINE Right ==
      ~ overlap => \A u \in UserIds : users[u] = NoRow /\ users'[u] # NoRow =>
        \/ Hosts = {} /\ users'[u].role = "HOST"
        \/ /\ users'[u].role = "USER"
           /\ allowSignup \/ \E w \in Workers : request[w] # NoRequest
                                               /\ request[w].op = "member"
<1>1. ASSUME IInv, TurnInv, PermitInv, Next, ~ overlap, NEW u \in UserIds,
             users[u] = NoRow, users'[u] # NoRow
      PROVE  \/ Hosts = {} /\ users'[u].role = "HOST"
             \/ /\ users'[u].role = "USER"
                /\ allowSignup \/ \E w \in Workers : request[w] # NoRequest
                                                    /\ request[w].op = "member"
  <2>1. DataOK /\ ControlOK
    BY <1>1, TypeSplits DEF IInv
  <2>2. PICK w \in Workers : InsertUser(w) \/ UpdateUser(w) \/ DeleteUser(w)
    BY <1>1 DEF Next, Receive, Fail, Restart, Handle, AuthLoad, RoleLoad,
       UserSelect, UserStore, ListHosts, ReadSetting, SelectByName, StoreRow,
       GiveToken, Uncache, UpsertSetting, table
  <2>3. InsertUser(w)
    BY <1>1, <2>1, <2>2 DEF UpdateUser, DeleteUser, DataOK
  <2> DEFINE row == [role |-> role[w], status |-> "NORMAL"]
  <2>4. /\ users' = [users EXCEPT ![lastUser'] = row] /\ row.role = role[w]
        /\ pc[w] = "insertUser"
    BY <2>3 DEF InsertUser
  <2> HIDE DEF row
  <2>5. users'[u].role = role[w]
    BY <1>1, <2>1, <2>4 DEF DataOK
  <2>6. Knows(w) /\ Permitted(w) /\ FoundsAlone(w) /\ role[w] \in {"HOST", "USER"}
    BY <1>1, <2>1, <2>4, BusyAlone, TurnOfOne DEF IInv, PermitInv, ControlOK, Roles
  <2> QED
    BY <2>4, <2>5, <2>6 DEF Knows, Entitled, Permitted, FoundsAlone
<1>2. IInv /\ TurnInv /\ PermitInv /\ [Next]_vars => [Right]_vars
  BY <1>1
<1> QED
  BY <1>2, Invariance, TurnKept, PermitKept, PTL DEF Spec, SignupsAllowed

-----------------------------------------------------------------------------
(***************************************************************************)
(* Accounts implements StoreDB, whatever overlaps.  The mapped database is *)
(* a function of the table user.                                           *)
(***************************************************************************)
Image(t) == {u \in UserIds : t[u] # NoRow}

Skeleton(ids) ==
  [user |-> ids, memo |-> {}, resource |-> {}, shortcut |-> {},
   userSetting |-> {}, organizer |-> {}, memoResource |-> {}, tag |-> {}]

Counters(n) == [user |-> n, memo |-> 0, resource |-> 0, shortcut |-> 0]

MappedDb == Skeleton(Image(users))

Mapped == <<MappedDb, Counters(lastUser)>>

LEMMA MappedIsMapped ==
  /\ Tables!vars = Mapped
  /\ Tables!vars' = Mapped'
BY DEF Tables!vars, Mapped, MappedDb, Skeleton, Image, Counters

LEMMA SkeletonExcept ==
  ASSUME NEW ids, NEW new
  PROVE  [Skeleton(ids) EXCEPT !.user = new] = Skeleton(new)
BY DEF Skeleton

\* With no other table there is nothing to vacuum.
LEMMA VacuumOfSkeleton ==
  ASSUME NEW ids
  PROVE  Tables!vacuum(Skeleton(ids)) = Skeleton(ids)
<1> DEFINE d == Skeleton(ids)
<1>1. /\ d.user = ids /\ d.memo = {} /\ d.resource = {}
      /\ d.shortcut = {} /\ d.userSetting = {} /\ d.organizer = {}
      /\ d.memoResource = {} /\ d.tag = {}
  BY DEF Skeleton
<1>2. /\ Tables!vacuumMemo(d) = d /\ Tables!vacuumResource(d) = d
      /\ Tables!vacuumShortcut(d) = d /\ Tables!vacuumUserSetting(d) = d
  BY DEF Tables!vacuumMemo, Tables!vacuumResource, Tables!vacuumShortcut,
     Tables!vacuumUserSetting, Skeleton
<1>3. Tables!vacuumMemoOrganizer(d) = d
  BY DEF Tables!vacuumMemoOrganizer, Skeleton
<1>4. Tables!vacuumMemoResource(d) = d
  BY DEF Tables!vacuumMemoResource, Skeleton
<1>5. Tables!vacuumTag(d) = d
  BY DEF Tables!vacuumTag, Skeleton
<1> QED
  BY <1>2, <1>3, <1>4, <1>5, Zenon DEF Tables!vacuum

LEMMA InsertMapped ==
  ASSUME IInv, NEW w \in Workers, InsertUser(w)
  PROVE  Tables!CreateUser
<1> DEFINE n   == lastUser + 1
           row == [role |-> role[w], status |-> "NORMAL"]
           new == Image(users) \cup {n}
<1>1. DataOK
  BY TypeSplits DEF IInv
<1>2. /\ lastUser < MaxUser /\ lastUser' = n
      /\ users' = [users EXCEPT ![n] = row]
  BY DEF InsertUser
<1>3. n \in UserIds
  BY <1>1, <1>2, AccountsAssumption DEF DataOK, UserIds
<1>4. row # NoRow
  <2>1. row \in Row
    BY TypeSplits DEF IInv, ControlOK, Row, Statuses
  <2> QED
    BY <2>1, AccountsAssumption
<1>5. \A u \in UserIds : users'[u] = IF u = n THEN row ELSE users[u]
  BY <1>1, <1>2 DEF DataOK
<1> HIDE DEF row
<1>6. Image(users') = new
  BY <1>3, <1>4, <1>5 DEF Image
<1>7. Counters(lastUser') = [Counters(lastUser) EXCEPT !.user = @ + 1]
  BY <1>2 DEF Counters
<1>8. MappedDb' = [MappedDb EXCEPT !.user = @ \cup {Counters(lastUser').user}]
  <2>1. MappedDb' = Skeleton(new) /\ Counters(lastUser').user = n
    BY <1>2, <1>6 DEF MappedDb, Counters
  <2> QED
    BY <2>1 DEF MappedDb, Skeleton
<1>9. Counters(lastUser).user < MaxUser
  BY <1>2 DEF Counters
<1> QED
  BY <1>7, <1>8, <1>9
  DEF Tables!CreateUser, MappedDb, Skeleton, Image, Counters

LEMMA UpdateMapped ==
  ASSUME IInv, NEW w \in Workers, UpdateUser(w)
  PROVE  UNCHANGED Mapped
<1> DEFINE i   == request[w].target
           row == [users[i] EXCEPT !.status = request[w].status]
<1>1. CASE users[i] = NoRow
  BY <1>1 DEF UpdateUser, Mapped, MappedDb
<1>2. CASE users[i] # NoRow
  <2>1. DataOK /\ ControlOK /\ Knows(w)
    BY TypeSplits DEF IInv
  <2>2. i \in UserIds /\ request[w].status \in Statuses
    <3>1. request[w] \in Requests /\ request[w].op = "patch"
      BY <2>1 DEF UpdateUser, Knows, Entitled, ControlOK
    <3> QED
      BY <3>1, RequestFields
  <2>3. /\ users[i] \in Row /\ lastUser' = lastUser
        /\ users' = [users EXCEPT ![i] = row]
    BY <1>2, <2>1, <2>2 DEF UpdateUser, DataOK
  <2>4. row # NoRow
    BY <2>2, <2>3, AccountsAssumption DEF Row
  <2>5. \A u \in UserIds : users'[u] = IF u = i THEN row ELSE users[u]
    BY <2>1, <2>3 DEF DataOK
  <2> HIDE DEF row, i
  <2>6. Image(users') = Image(users)
    BY <1>2, <2>4, <2>5 DEF Image
  <2> QED
    BY <2>3, <2>6 DEF Mapped, MappedDb
<1> QED
  BY <1>1, <1>2

LEMMA DeleteMapped ==
  ASSUME IInv, NEW w \in Workers, DeleteUser(w), users[request[w].target] # NoRow
  PROVE  \E u \in UserIds : Tables!DeleteUser(u)
<1>1. DataOK /\ ControlOK /\ Knows(w)
  BY TypeSplits DEF IInv
<1>2. request[w].target \in UserIds
  <2>1. request[w] \in Requests /\ request[w].op = "delete"
    BY <1>1 DEF DeleteUser, Knows, Entitled, ControlOK
  <2> QED
    BY <2>1, RequestFields
<1> PICK i \in UserIds : i = request[w].target
  BY <1>2
<1>3. /\ users[i] # NoRow /\ users' = [users EXCEPT ![i] = NoRow]
      /\ lastUser' = lastUser
  BY DEF DeleteUser
<1>4. \A u \in UserIds : users'[u] = IF u = i THEN NoRow ELSE users[u]
  BY <1>1, <1>3 DEF DataOK
<1>5. Image(users') = Image(users) \ {i} /\ i \in Image(users)
  BY <1>3, <1>4 DEF Image
<1>6. MappedDb' = Tables!vacuum(Skeleton(Image(users) \ {i}))
  BY <1>5, VacuumOfSkeleton DEF MappedDb
<1>7. [MappedDb EXCEPT !.user = @ \ {i}] = Skeleton(Image(users) \ {i})
  <2>1. MappedDb.user = Image(users)
    BY DEF MappedDb, Skeleton
  <2> QED
    BY <2>1, SkeletonExcept DEF MappedDb
<1>8. MappedDb' = Tables!vacuum([MappedDb EXCEPT !.user = @ \ {i}])
  BY <1>6, <1>7
<1>9. i \in MappedDb.user
  BY <1>5 DEF MappedDb, Skeleton
<1>10. Tables!DeleteUser(i)
  BY <1>3, <1>8, <1>9 DEF Tables!DeleteUser, MappedDb, Skeleton, Image
<1> QED
  BY <1>10

LEMMA InitMapped == Init => Tables!Init
<1> SUFFICES ASSUME Init
             PROVE  Tables!Init
  OBVIOUS
<1>1. lastUser = 0 /\ \A u \in UserIds : users[u] = NoRow
  BY DEF Init
<1>2. Image(users) = {}
  BY <1>1 DEF Image
<1>3. 0 \in 0 .. MaxUser /\ 1 .. 0 = {}
  BY AccountsAssumption
<1> QED
  BY <1>1, <1>2, <1>3 DEF Tables!Init, Image

\* The other steps of a worker leave the table alone.
LEMMA StepMapped ==
  ASSUME IInv, Next
  PROVE  Tables!Next \/ UNCHANGED Mapped
<1>1. CASE UNCHANGED <<users, lastUser>>
  BY <1>1 DEF Mapped, MappedDb
<1>2. ASSUME NEW w \in Workers, InsertUser(w)
      PROVE  Tables!Next
  BY <1>2, InsertMapped DEF Tables!Next
<1>3. ASSUME NEW w \in Workers, DeleteUser(w)
      PROVE  Tables!Next \/ UNCHANGED <<users, lastUser>>
  <2>1. CASE users[request[w].target] # NoRow
    BY <1>3, <2>1, DeleteMapped DEF Tables!Next, Tables!UserIds, UserIds
  <2>2. CASE users[request[w].target] = NoRow
    BY <1>3, <2>2 DEF DeleteUser
  <2> QED
    BY <2>1, <2>2
<1>4. ASSUME NEW w \in Workers, Receive(w) \/ Handle(w) \/ Fail(w),
             ~ InsertUser(w), ~ UpdateUser(w), ~ DeleteUser(w)
      PROVE  UNCHANGED <<users, lastUser>>
  BY <1>4 DEF Receive, Handle, Fail, AuthLoad, RoleLoad, UserSelect, UserStore,
     ListHosts, ReadSetting, SelectByName, StoreRow, GiveToken, Uncache,
     UpsertSetting, table
<1>5. Restart => UNCHANGED <<users, lastUser>>
  BY DEF Restart, table
<1> QED
  BY <1>1, <1>2, <1>3, <1>4, <1>5, UpdateMapped DEF Next

\* Accounts implements StoreDB: signups, setups and account endpoints, even
\* those that overlap, make and remove accounts by whole transactions, each
\* under an id of its own (store/user.go:102, :321).
THEOREM ImplementsTables == Spec => RefinesTables
<1>1. Init => Tables!Init
  BY InitMapped
<1>2. IInv /\ [Next]_vars => [Tables!Next]_(Tables!vars)
  <2>1. UNCHANGED vars => UNCHANGED Mapped
    BY DEF vars, table, Mapped, MappedDb
  <2> QED
    BY <2>1, StepMapped, MappedIsMapped
<1> QED
  BY <1>1, <1>2, Invariance, PTL DEF Spec, RefinesTables, Tables!Spec
=============================================================================
