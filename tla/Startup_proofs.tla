--------------------------- MODULE Startup_proofs ---------------------------
(***************************************************************************)
(* Proofs that a server serves only on a complete schema, that with one    *)
(* server the service id stays, and that GET /status agrees with what was  *)
(* accepted, for any number of processes, ids and settings.                *)
(***************************************************************************)
EXTENDS Startup, TLAPS

\* Past the lookup of the service id a server knows that the tables exist.
LookedUp == \A p \in Servers : pc[p] \in {"makeId", "serving"} => tables

\* With one server, who has an id has the stored one, and who is about to
\* make an id has found none.
IdsAgree ==
  /\ \A p \in Servers : /\ own[p] # None => own[p] = stored
                        /\ pc[p] = "makeId" => stored = None
  /\ \A p \in Processes : pc[p] = "makeId" => p \in Servers

LEMMA TypeInit == Init => TypeOK
BY StartupAssumption DEF Init, TypeOK, Steps, None, Posted

\* What cannot be posted is not among the settings one can post.
LEMMA NothingHidden == ASSUME NEW name, NEW value, Validate(name, value)
                       PROVE  name \in DOMAIN TypeOf /\ name \notin Hidden
BY DEF Validate, TypeOf, Hidden

LEMMA PostEffect ==
  ASSUME TypeOK, NEW p \in Processes, PostSetting(p)
  PROVE  /\ TypeOK' /\ stored' = stored
         /\ UNCHANGED <<mode, file, tables, made, pc, own>>
         /\ \A n \in Names : \/ setting'[n] = setting[n]
                             \/ setting'[n] \in Values /\ Validate(n, setting'[n])
<1>1. PICK name \in Names \cup Hidden, value \in Values :
        /\ Validate(name, value)
        /\ setting' = [setting EXCEPT ![name] = value]
        /\ stored' = IF name = "Service_id" THEN Posted ELSE stored
  BY DEF PostSetting
<1>2. name \in Names /\ name # "Service_id"
  BY <1>1, NothingHidden DEF Hidden
<1>3. UNCHANGED <<mode, file, tables, made, pc, own>>
  BY DEF PostSetting
<1> QED
  BY <1>1, <1>2, <1>3 DEF TypeOK

\* A step moves one process; the others stay where they are.
LEMMA ProcessStep ==
  ASSUME TypeOK, NEW p \in Processes, Start(p) \/ Run(p) \/ Stop(p)
  PROVE  /\ TypeOK'
         /\ \A q \in Processes \ {p} : pc'[q] = pc[q] /\ own'[q] = own[q]
<1>1. CASE Start(p) \/ Stat(p) \/ Connect(p) \/ ApplySchema(p) \/ Seed(p)
           \/ FindMigrationHistoryList(p) \/ RunSetup(p)
  BY <1>1 DEF TypeOK, Steps, Goto, Start, Stat, Connect, ApplySchema, Seed,
     FindMigrationHistoryList, RunSetup
<1>2. CASE FindServiceID(p)
  <2>1. CASE tables /\ stored # None
    BY <1>2, <2>1 DEF TypeOK, Steps, FindServiceID
  <2>2. CASE ~ (tables /\ stored # None)
    BY <1>2, <2>2 DEF TypeOK, Steps, Goto, FindServiceID
  <2> QED
    BY <2>1, <2>2
<1>3. CASE MakeServiceID(p) \/ Stop(p)
  BY <1>3, StartupAssumption DEF TypeOK, Steps, MakeServiceID, Stop, None, Posted
<1>4. CASE PostSetting(p)
  BY <1>4, PostEffect
<1> QED
  BY <1>1, <1>2, <1>3, <1>4 DEF Run

\* What the schema and the id do in a step of process p.
LEMMA LookupStep ==
  ASSUME TypeOK, LookedUp, NEW p \in Processes, Start(p) \/ Run(p) \/ Stop(p)
  PROVE  LookedUp'
<1>1. tables => tables'
  BY DEF Run, Start, Stop, Stat, Connect, ApplySchema, Seed,
     FindMigrationHistoryList, FindServiceID, MakeServiceID, RunSetup, PostSetting
<1>2. p \in Servers /\ pc'[p] \in {"makeId", "serving"} => tables'
  <2>1. CASE Start(p) \/ Stat(p) \/ Connect(p) \/ ApplySchema(p) \/ Seed(p)
             \/ FindMigrationHistoryList(p) \/ RunSetup(p) \/ Stop(p)
    BY <2>1 DEF TypeOK, Goto, Start, Stat, Connect, ApplySchema, Seed,
       FindMigrationHistoryList, RunSetup, Stop
  <2>2. CASE FindServiceID(p) \/ MakeServiceID(p)
    BY <2>2 DEF TypeOK, Goto, LookedUp, FindServiceID, MakeServiceID
  <2>3. CASE PostSetting(p)
    BY <2>3, PostEffect DEF LookedUp
  <2> QED
    BY <2>1, <2>2, <2>3 DEF Run
<1> QED
  BY <1>1, <1>2, ProcessStep DEF LookedUp, Processes

LEMMA TypeStep == TypeOK /\ [Next]_vars => TypeOK'
<1>1. TypeOK /\ UNCHANGED vars => TypeOK'
  BY DEF TypeOK, vars
<1> QED
  BY <1>1, ProcessStep DEF Next

\* Every variable keeps to its values in every reachable state.
THEOREM TypeCorrect == Spec => []TypeOK
BY TypeInit, TypeStep, PTL DEF Spec

\* Whatever Open let pass, crashes at any step included: a server that serves
\* has its tables.
THEOREM TablesServed == Spec => []ServesOnTables
<1>1. Init => LookedUp
  BY DEF Init, LookedUp, Processes
<1>2. TypeOK /\ LookedUp /\ [Next]_vars => LookedUp'
  <2>1. LookedUp /\ UNCHANGED vars => LookedUp'
    BY DEF LookedUp, vars
  <2> QED
    BY <2>1, LookupStep DEF Next
<1>3. LookedUp => ServesOnTables
  BY DEF LookedUp, ServesOnTables
<1> QED
  BY <1>1, <1>2, <1>3, TypeCorrect, PTL DEF Spec

-----------------------------------------------------------------------------
\* One server: nobody else finds or makes an id.
LEMMA IdStep ==
  ASSUME TypeOK, IdsAgree, NEW s, Servers = {s},
         NEW p \in Processes, Start(p) \/ Run(p) \/ Stop(p)
  PROVE  /\ IdsAgree'
         /\ stored # None => stored' = stored
         /\ \A q \in Servers : own'[q] # None => own'[q] = stored'
<1> DEFINE Moved == \A q \in Processes : pc'[q] = "makeId" => q \in Servers
<1>0. Moved
  <2>1. pc'[p] = "makeId" => pc[p] = "makeId" \/ p \in Servers
    BY PostEffect DEF FindServiceID, Goto, Run, Start, Stat, Connect, ApplySchema, Seed, MakeServiceID,
       FindMigrationHistoryList, RunSetup, Stop, TypeOK
  <2> QED
    BY <2>1, ProcessStep DEF IdsAgree
<1>1. CASE FindServiceID(p)
  <2>1. p = s /\ stored' = stored
    BY <1>1 DEF FindServiceID
  <2>2. /\ own'[s] \in {own[s], stored}
        /\ pc'[s] = "makeId" => stored = None
    BY <1>1, <2>1 DEF FindServiceID, Goto, TypeOK, Processes
  <2> QED
    BY <1>0, <2>1, <2>2 DEF IdsAgree
<1>2. CASE MakeServiceID(p)
  <2>1. p = s
    BY <1>2 DEF MakeServiceID, IdsAgree
  <2>2. /\ stored = None /\ own'[s] = stored' /\ pc'[s] = "serving"
    BY <1>2, <2>1 DEF MakeServiceID, IdsAgree, TypeOK, Processes
  <2> QED
    BY <1>0, <2>2 DEF IdsAgree
<1>3. CASE Start(p) \/ Stat(p) \/ Connect(p) \/ ApplySchema(p) \/ Seed(p)
           \/ FindMigrationHistoryList(p) \/ RunSetup(p) \/ Stop(p)
  <2>1. stored' = stored
    BY <1>3 DEF Start, Stat, Connect, ApplySchema, Seed,
       FindMigrationHistoryList, RunSetup, Stop
  <2>2. own'[s] \in {own[s], None} /\ (pc'[s] = "makeId" => pc[s] = "makeId")
    BY <1>3 DEF Goto, Start, Stat, Connect, ApplySchema, Seed,
       FindMigrationHistoryList, RunSetup, Stop, TypeOK, Processes
  <2> QED
    BY <1>0, <2>1, <2>2 DEF IdsAgree
<1>4. CASE PostSetting(p)
  <2>1. UNCHANGED <<stored, pc, own>>
    BY <1>4, PostEffect
  <2> QED
    BY <1>0, <2>1 DEF IdsAgree
<1> QED
  BY <1>1, <1>2, <1>3, <1>4 DEF Run

\* With one server, however often it starts again and whatever the setup
\* command does: the stored id stays and is the one the server goes by.
THEOREM ServiceIdKept ==
  ASSUME NEW s, Servers = {s}
  PROVE  Spec => ServiceIdStays
<1> DEFINE Kept == /\ stored # None => stored' = stored
                   /\ \A p \in Servers : own'[p] # None => own'[p] = stored'
<1>1. Init => IdsAgree
  BY DEF Init, IdsAgree, Processes
<1>2. TypeOK /\ IdsAgree /\ [Next]_vars => IdsAgree'
  <2>1. IdsAgree /\ UNCHANGED vars => IdsAgree'
    BY DEF IdsAgree, vars
  <2> QED
    BY <2>1, IdStep DEF Next
<1>3. TypeOK /\ IdsAgree /\ [Next]_vars => [Kept]_vars
  BY IdStep DEF Next
<1>4. Spec => []IdsAgree
  BY <1>1, <1>2, TypeCorrect, PTL DEF Spec
<1> HIDE DEF Kept
<1>5. Spec => [][Kept]_vars
  BY <1>3, <1>4, TypeCorrect, PTL DEF Spec
<1> QED
  BY <1>5 DEF Kept, ServiceIdStays
-----------------------------------------------------------------------------
\* Whatever is stored was decoded when it was posted.
Accepted == \A n \in Names : setting[n] = Absent \/ Validate(n, setting[n])

LEMMA AcceptedStep ==
  ASSUME TypeOK, Accepted, NEW p \in Processes, Start(p) \/ Run(p) \/ Stop(p)
  PROVE  Accepted'
<1>1. CASE PostSetting(p)
  BY <1>1, PostEffect DEF Accepted
<1>2. CASE ~ PostSetting(p)
  <2>1. setting' = setting
    BY <1>2 DEF Run, Start, Stop, Stat, Connect, ApplySchema, Seed, Goto,
       FindMigrationHistoryList, FindServiceID, MakeServiceID, RunSetup
  <2> QED
    BY <2>1 DEF Accepted
<1> QED
  BY <1>1, <1>2

\* A decoded value that is no null passes the type assertion and, if a float64
\* holds it, is shown as it is used.
LEMMA DecodedIsShown ==
  ASSUME NEW n \in DOMAIN TypeOf, NEW value, value # Absent, value # "null",
         Validate(n, value)
  PROVE  /\ Asserts(value, TypeOf[n])
         /\ value # "big_integer" => Shown(n, value) = Used(n, value)
<1>1. TypeOf[n] \in {"bool", "string", "int", "profile", "config"}
  BY DEF TypeOf
<1>2. Decodes(value, TypeOf[n]) /\ value # "malformed"
  BY <1>1 DEF Validate, Decodes
<1> QED
  BY <1>1, <1>2 DEF Decodes, Asserts, Shown, Float64, Used

\* As long as no setting holds a JSON null, GET /status answers, and shows what
\* the handlers act on for every setting but an integer that a float64 does not
\* hold, after any number of restarts (system.go:72, :90).
THEOREM StatusIsTrue == Spec => []StatusTellsTruth
<1>1. Init => Accepted
  BY DEF Init, Accepted
<1>2. TypeOK /\ Accepted /\ [Next]_vars => Accepted'
  <2>1. Accepted /\ UNCHANGED vars => Accepted'
    BY DEF Accepted, vars
  <2> QED
    BY <2>1, AcceptedStep DEF Next
<1>3. TypeOK /\ Accepted => StatusTellsTruth
  <2> SUFFICES ASSUME TypeOK, Accepted, NEW n \in Names, setting[n] # "null"
               PROVE  /\ \/ setting[n] \in {Absent, "malformed"}
                         \/ Asserts(setting[n], TypeOf[n])
                      /\ setting[n] # "big_integer" =>
                           Shown(n, setting[n]) = Used(n, setting[n])
    BY DEF StatusTellsTruth, Answers, TypeOK
  <2>1. n \in DOMAIN TypeOf
    BY StartupAssumption
  <2>2. CASE setting[n] = Absent
    BY <2>2 DEF Shown, Used
  <2>3. CASE setting[n] # Absent
    BY <2>1, <2>3, DecodedIsShown DEF Accepted
  <2> QED
    BY <2>2, <2>3
<1> QED
  BY <1>1, <1>2, <1>3, TypeCorrect, PTL DEF Spec
=============================================================================
