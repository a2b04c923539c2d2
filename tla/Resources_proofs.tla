-------------------------- MODULE Resources_proofs --------------------------
(***************************************************************************)
(* Proofs that the files of uploads are kept, that only owners delete      *)
(* resources, and that at the paths the template does not repeat every     *)
(* upload keeps its own bytes, for any number of users, paths, contents,   *)
(* ids and workers.                                                        *)
(***************************************************************************)
EXTENDS Resources, TLAPS

LEMMA RowFields ==
  ASSUME NEW r \in Row
  PROVE  /\ r.creator \in Users /\ r.path \in Paths \cup {NoPath}
         /\ r.content \in Contents \cup {NoContent}
         /\ Written(r) => r.path \in Paths /\ r.content \in Contents
BY DEF Row, Written

LEMMA BareRow ==
  ASSUME NEW u \in Users, NEW p \in Paths \cup {NoPath}
  PROVE  Bare(u, p) \in Row /\ ~ Written(Bare(u, p))
BY DEF Bare, Row, Written

\* What a request of each kind carries.
LEMMA RequestFields ==
  ASSUME NEW r \in Requests
  PROVE  /\ r.op = "upload" => r.user \in Users /\ r.content \in Contents
         /\ r.op = "delete" => r.user \in Users /\ r.id \in ResourceIds
         /\ r.op = "deleteStorage" => r.storage \in StorageIds
BY DEF Requests

DataOK ==
  /\ resources \in [ResourceIds -> Row \cup {NoRow}]
  /\ lastResource \in 0 .. MaxResource
  /\ storages \subseteq StorageIds
  /\ lastStorage \in 0 .. MaxStorage
  /\ setting \in Settings
  /\ files \in [Paths -> File]
  /\ used \subseteq Fresh
  /\ asked \subseteq Paths

ControlOK ==
  /\ pc \in [Workers -> Steps]
  /\ request \in [Workers -> Requests \cup {NoRequest}]
  /\ row \in [Workers -> Row \cup {NoRow}]
  /\ chosen \in [Workers -> Settings]

LEMMA TypeSplits == TypeOK <=> DataOK /\ ControlOK
BY DEF TypeOK, DataOK, ControlOK

\* The locals of the other workers stay.
OnlyMoves(w) ==
  \A v \in Workers : v # w =>
    pc'[v] = pc[v] /\ request'[v] = request[v] /\ row'[v] = row[v]

\* What every step may do to the files and the table.
Evolves ==
  /\ \A p \in Paths : files'[p] = NoFile => files[p] = NoFile \/ p \in asked
  /\ asked \subseteq asked'
  /\ lastResource <= lastResource'
  /\ \A r \in ResourceIds : r <= lastResource /\ resources'[r] # NoRow =>
       resources'[r] = resources[r]

\* A row of an upload that is new in the table has its file, or its deletion
\* was asked for.
NewRowsHaveFiles ==
  \A r \in ResourceIds : resources'[r] # NoRow /\ resources'[r] # resources[r] =>
    /\ r <= lastResource'
    /\ Written(resources'[r]) =>
         files'[resources'[r].path] # NoFile \/ resources'[r].path \in asked'

LEMMA HandsKept ==
  ASSUME IInv, NEW v \in Workers, Evolves, DataOK',
         pc'[v] = pc[v], request'[v] = request[v], row'[v] = row[v]
  PROVE  Hands(v)'
<1>1. Hands(v) /\ DataOK /\ ControlOK
  BY TypeSplits DEF IInv
<1>2. /\ lastResource \in Nat /\ lastResource' \in Nat
      /\ row[v] \in Row \cup {NoRow} /\ request[v] \in Requests \cup {NoRequest}
  BY <1>1, ResourcesAssumption DEF DataOK, ControlOK
<1>3. ASSUME pc[v] \in {"copyFile", "insert"}, Written(row[v])
      PROVE  files'[row[v].path] # NoFile \/ row[v].path \in asked'
  <2>1. row[v].path \in Paths
    BY <1>1, <1>2, <1>3, RowFields DEF Hands
  <2> QED
    BY <1>1, <1>3, <2>1 DEF Hands, Evolves
<1>4. ASSUME pc[v] \in {"removeFile", "delete"}
      PROVE  /\ request[v].id <= lastResource'
             /\ resources'[request[v].id] # NoRow =>
                  resources'[request[v].id].creator = request[v].user
  <2>1. /\ request[v].id \in ResourceIds /\ request[v].id <= lastResource
        /\ resources[request[v].id] # NoRow =>
             resources[request[v].id].creator = request[v].user
    BY <1>1, <1>2, <1>4, RequestFields DEF Hands
  <2>2. request[v].id <= lastResource'
    BY <1>2, <2>1, ResourcesAssumption DEF Evolves, ResourceIds
  <2> QED
    BY <2>1, <2>2 DEF Evolves
<1>5. asked \subseteq asked'
  BY DEF Evolves
<1> HIDE DEF Written
<1> QED
  BY <1>1, <1>3, <1>4, <1>5 DEF Hands

\* A step preserves the invariant if it does what every step may and leaves
\* the workers in order.
LEMMA TidyStep ==
  ASSUME IInv, DataOK', ControlOK', Evolves, NewRowsHaveFiles,
         \A v \in Workers : Hands(v)'
  PROVE  IInv'
<1>1. DataOK /\ ControlOK /\ RowsIssued /\ FilesKept
  BY TypeSplits DEF IInv
<1>2. TypeOK'
  BY DEF TypeOK, DataOK, ControlOK
<1>3. lastResource \in Nat /\ lastResource' \in Nat
  BY <1>1, ResourcesAssumption DEF DataOK
<1>4. RowsIssued'
  <2> SUFFICES ASSUME NEW r \in ResourceIds, resources'[r] # NoRow
               PROVE  r <= lastResource'
    BY DEF RowsIssued
  <2>1. CASE resources'[r] = resources[r]
    BY <1>1, <1>3, <2>1, ResourcesAssumption DEF RowsIssued, Evolves, ResourceIds
  <2> QED
    BY <2>1 DEF NewRowsHaveFiles
<1>5. FilesKept'
  <2> SUFFICES ASSUME NEW r \in ResourceIds, resources'[r] # NoRow,
                      Written(resources'[r]),
                      files'[resources'[r].path] = NoFile
               PROVE  resources'[r].path \in asked'
    BY DEF FilesKept, Stored, Written
  <2>1. resources'[r].path \in Paths
    BY RowFields DEF DataOK
  <2>2. CASE resources'[r] = resources[r]
    BY <1>1, <2>1, <2>2 DEF FilesKept, Stored, Evolves
  <2> QED
    BY <2>1, <2>2 DEF NewRowsHaveFiles
<1> QED
  BY <1>2, <1>4, <1>5 DEF IInv

\* A step of worker w.
LEMMA WorkerStep ==
  ASSUME IInv, NEW w \in Workers, OnlyMoves(w), DataOK', ControlOK',
         Evolves, NewRowsHaveFiles, Hands(w)'
  PROVE  IInv'
<1>1. \A v \in Workers : Hands(v)'
  BY HandsKept DEF OnlyMoves
<1> QED
  BY <1>1, TidyStep

\* A step that occupies no worker.
LEMMA OtherStep ==
  ASSUME IInv, UNCHANGED control, DataOK', Evolves, NewRowsHaveFiles
  PROVE  IInv'
<1>1. ControlOK'
  BY TypeSplits DEF IInv, ControlOK, control
<1>2. \A v \in Workers : Hands(v)'
  BY HandsKept DEF control
<1> QED
  BY <1>1, <1>2, TidyStep

\* Steps that change no table, no file and no history.
LEMMA LocalStep ==
  ASSUME IInv, NEW w \in Workers, OnlyMoves(w), ControlOK',
         UNCHANGED <<tables, service, files, used, asked>>, Hands(w)'
  PROVE  IInv'
<1>1. DataOK
  BY TypeSplits DEF IInv
<1>2. DataOK' /\ Evolves /\ NewRowsHaveFiles
  BY <1>1, ResourcesAssumption DEF DataOK, Evolves, NewRowsHaveFiles, tables, service
<1> QED
  BY <1>2, WorkerStep

LEMMA FinishEffect ==
  ASSUME ControlOK, NEW w \in Workers, Finish(w)
  PROVE  OnlyMoves(w) /\ ControlOK' /\ pc'[w] = "idle" /\ Hands(w)'
<1>1. OnlyMoves(w) /\ ControlOK' /\ pc'[w] = "idle"
  BY DEF ControlOK, OnlyMoves, Finish, Steps, Settings, DatabaseStorage
<1> QED
  BY <1>1 DEF Hands

LEMMA EndStep ==
  ASSUME IInv, NEW w \in Workers, Finish(w),
         UNCHANGED <<tables, service, files, used, asked>>
  PROVE  IInv'
BY FinishEffect, LocalStep, TypeSplits DEF IInv

\* A row is added with the next id.
LEMMA InsertRowEffect ==
  ASSUME DataOK, RowsIssued, NEW r \in Row, InsertRow(r),
         Written(r) => files[r.path] # NoFile \/ r.path \in asked
  PROVE  DataOK' /\ Evolves /\ NewRowsHaveFiles
<1> DEFINE n == lastResource + 1
<1>1. n \in ResourceIds /\ n > lastResource /\ lastResource' = n
  BY ResourcesAssumption DEF DataOK, InsertRow, ResourceIds
<1>2. resources' = [resources EXCEPT ![n] = r]
  BY DEF InsertRow
<1> HIDE DEF n
<1>3. DataOK'
  BY <1>1, <1>2, ResourcesAssumption DEF DataOK, InsertRow, service, ResourceIds
<1>4. Evolves
  BY <1>1, <1>2, ResourcesAssumption DEF DataOK, Evolves, InsertRow, ResourceIds
<1>5. NewRowsHaveFiles
  BY <1>1, <1>2, ResourcesAssumption
  DEF DataOK, NewRowsHaveFiles, InsertRow, ResourceIds
<1> QED
  BY <1>3, <1>4, <1>5

-----------------------------------------------------------------------------
LEMMA PostResourceStep ==
  ASSUME IInv, NEW u \in Users, NEW p \in Paths \cup {NoPath}, PostResource(u, p)
  PROVE  IInv'
<1>1. DataOK /\ RowsIssued
  BY TypeSplits DEF IInv
<1>2. DataOK' /\ Evolves /\ NewRowsHaveFiles
  BY <1>1, BareRow, InsertRowEffect DEF PostResource
<1> QED
  BY <1>2, OtherStep DEF PostResource

LEMMA ReadSettingStep ==
  ASSUME IInv, NEW w \in Workers, ReadSetting(w)
  PROVE  IInv'
<1>0. ControlOK /\ DataOK
  BY TypeSplits DEF IInv
<1>1. PICK u \in Users, c \in Contents, step \in {"insert", "createFile", "findStorage"} :
        /\ Begin(w, [op |-> "upload", user |-> u, content |-> c], step)
        /\ row' = [row EXCEPT ![w] = Bare(u, NoPath)]
        /\ chosen' = [chosen EXCEPT ![w] = setting]
  BY DEF ReadSetting
<1> DEFINE r   == [op |-> "upload", user |-> u, content |-> c]
           new == Bare(u, NoPath)
<1>2. r \in Requests /\ r.op = "upload"
  BY DEF Requests
<1>3. new \in Row /\ ~ Written(new)
  BY BareRow
<1>4. /\ request' = [request EXCEPT ![w] = r] /\ pc' = [pc EXCEPT ![w] = step]
      /\ row' = [row EXCEPT ![w] = new] /\ chosen' = [chosen EXCEPT ![w] = setting]
  BY <1>1 DEF Begin
<1> HIDE DEF r, new
<1>5. /\ OnlyMoves(w) /\ ControlOK'
      /\ pc'[w] = step /\ request'[w] = r /\ row'[w] = new
  BY <1>0, <1>2, <1>3, <1>4 DEF OnlyMoves, ControlOK, DataOK, Steps
<1>6. Hands(w)'
  <2>1. ~ Written(row'[w]) /\ row'[w] # NoRow
    BY <1>3, <1>5, ResourcesAssumption
  <2> QED
    BY <1>2, <1>5, <2>1, ResourcesAssumption DEF Hands
<1> QED
  BY <1>5, <1>6, LocalStep DEF ReadSetting

LEMMA FindStorageStep ==
  ASSUME IInv, NEW w \in Workers, FindStorage(w)
  PROVE  IInv'
<1>0. ControlOK /\ Hands(w)
  BY TypeSplits DEF IInv
<1>1. CASE Finish(w)
  BY <1>1, EndStep DEF FindStorage
<1>2. CASE Goto(w, "insert")
  <2>1. /\ OnlyMoves(w) /\ ControlOK'
        /\ pc'[w] = "insert" /\ row'[w] = row[w] /\ request'[w] = request[w]
    BY <1>0, <1>2 DEF OnlyMoves, ControlOK, Goto, Steps
  <2>2. row[w] # NoRow /\ ~ Written(row[w])
    BY <1>0 DEF Hands, FindStorage
  <2>3. Hands(w)'
    BY <2>1, <2>2 DEF Hands
  <2> QED
    BY <2>1, <2>3, LocalStep DEF FindStorage
<1> QED
  BY <1>1, <1>2 DEF FindStorage

LEMMA PutRow ==
  ASSUME NEW r \in Row, NEW p \in Paths, NEW c \in Contents
  PROVE  /\ [r EXCEPT !.path = p, !.content = c]
              \in [creator : Users, path : Paths, content : Contents]
         /\ [r EXCEPT !.path = p, !.content = c].path = p
         /\ [r EXCEPT !.path = p, !.content = c].content = c
<1>1. CASE r \in [creator : Users, path : Paths \cup {NoPath}, content : {NoContent}]
  BY <1>1
<1>2. CASE r \in [creator : Users, path : Paths, content : Contents]
  BY <1>2
<1> QED
  BY <1>1, <1>2 DEF Row

\* What an upload holds when it has created its file.
LEMMA UploadRow ==
  ASSUME IInv, NEW w \in Workers, pc[w] = "createFile", NEW p \in Paths
  PROVE  /\ Upload(w, p) \in Row /\ Written(Upload(w, p))
         /\ Upload(w, p).path = p
<1>1. ControlOK /\ Hands(w)
  BY TypeSplits DEF IInv
<1>2. /\ row[w] \in Row
      /\ request[w] \in Requests /\ request[w].op = "upload"
  BY <1>1 DEF Hands, ControlOK
<1>3. request[w].content \in Contents
  BY <1>2, RequestFields
<1>4. /\ Upload(w, p) \in Row /\ Upload(w, p).path = p
      /\ Upload(w, p).content = request[w].content
  BY <1>2, <1>3, PutRow, Zenon DEF Upload, Row
<1> QED
  BY <1>3, <1>4, ResourcesAssumption DEF Written

LEMMA CreateFileStep ==
  ASSUME IInv, NEW w \in Workers, CreateFile(w)
  PROVE  IInv'
<1>0. ControlOK /\ DataOK
  BY TypeSplits DEF IInv
<1>1. PICK p \in Paths :
        /\ files' = [files EXCEPT ![p] = Empty]
        /\ used' = used \cup ({p} \cap Fresh)
        /\ Take(w, Upload(w, p), "copyFile")
  BY DEF CreateFile
<1> DEFINE new == Upload(w, p)
<1>2. new \in Row /\ Written(new) /\ new.path = p
  BY UploadRow DEF CreateFile
<1>3. Take(w, new, "copyFile")
  BY <1>1
<1> HIDE DEF new
<1>4. /\ OnlyMoves(w) /\ ControlOK'
      /\ pc'[w] = "copyFile" /\ row'[w] = new
  BY <1>0, <1>2, <1>3 DEF OnlyMoves, ControlOK, Take, Steps
<1>5. DataOK' /\ Evolves /\ NewRowsHaveFiles /\ files'[p] = Empty
  BY <1>0, <1>1, ResourcesAssumption
  DEF CreateFile, DataOK, Evolves, NewRowsHaveFiles, tables, service, File
<1>6. Hands(w)'
  <2>1. /\ Written(row'[w]) /\ row'[w] # NoRow
        /\ files'[row'[w].path] # NoFile
    BY <1>2, <1>4, <1>5, ResourcesAssumption
  <2> QED
    BY <1>4, <2>1 DEF Hands
<1> QED
  BY <1>4, <1>5, <1>6, WorkerStep

LEMMA CopyFileStep ==
  ASSUME IInv, NEW w \in Workers, CopyFile(w)
  PROVE  IInv'
<1>0. ControlOK /\ DataOK /\ Hands(w)
  BY TypeSplits DEF IInv
<1>1. /\ row[w] \in Row /\ Written(row[w])
      /\ files[row[w].path] # NoFile \/ row[w].path \in asked
  BY <1>0 DEF Hands, CopyFile, ControlOK
<1>2. /\ OnlyMoves(w) /\ ControlOK'
      /\ pc'[w] = "insert" /\ row'[w] = row[w]
  BY <1>0 DEF OnlyMoves, ControlOK, CopyFile, Goto, Steps
<1>3. /\ row[w].path \in Paths
      /\ row[w].content # NoFile /\ row[w].content \in File
      /\ NoFile \in File
  BY <1>1, RowFields, ResourcesAssumption DEF File
<1> DEFINE p == row[w].path
           c == row[w].content
<1>4. files' = [files EXCEPT ![p] = IF @ = NoFile THEN NoFile ELSE c]
  BY DEF CopyFile
<1>5. p \in Paths /\ c # NoFile /\ c \in File /\ (files[p] # NoFile \/ p \in asked)
  BY <1>1, <1>3
<1> HIDE DEF p, c
<1>6. /\ files' \in [Paths -> File]
      /\ \A q \in Paths : files'[q] = NoFile <=> files[q] = NoFile
  BY <1>0, <1>3, <1>4, <1>5 DEF DataOK
<1>7. DataOK' /\ Evolves /\ NewRowsHaveFiles
  BY <1>0, <1>6, ResourcesAssumption
  DEF CopyFile, DataOK, Evolves, NewRowsHaveFiles, tables, service
<1>8. Hands(w)'
  <2>1. /\ row'[w] # NoRow /\ asked' = asked
        /\ files'[row'[w].path] # NoFile \/ row'[w].path \in asked
    BY <1>1, <1>2, <1>3, <1>6, ResourcesAssumption DEF CopyFile
  <2> QED
    BY <1>2, <2>1 DEF Hands
<1> QED
  BY <1>2, <1>7, <1>8, WorkerStep

LEMMA InsertStep ==
  ASSUME IInv, NEW w \in Workers, Insert(w)
  PROVE  IInv'
<1>0. ControlOK /\ DataOK /\ Hands(w) /\ RowsIssued
  BY TypeSplits DEF IInv
<1>1. /\ row[w] \in Row
      /\ Written(row[w]) => files[row[w].path] # NoFile \/ row[w].path \in asked
  BY <1>0 DEF Hands, Insert, ControlOK
<1>2. OnlyMoves(w) /\ ControlOK' /\ Hands(w)'
  BY <1>0, FinishEffect DEF Insert
<1>3. DataOK' /\ Evolves /\ NewRowsHaveFiles
  BY <1>0, <1>1, InsertRowEffect DEF Insert
<1> QED
  BY <1>2, <1>3, WorkerStep

-----------------------------------------------------------------------------
LEMMA FindResourceStep ==
  ASSUME IInv, NEW w \in Workers, FindResource(w)
  PROVE  IInv'
<1>0. ControlOK /\ DataOK /\ RowsIssued
  BY TypeSplits DEF IInv
<1>1. PICK u \in Users, id \in ResourceIds :
        /\ resources[id] # NoRow /\ resources[id].creator = u
        /\ Found(w, u, id)
  BY DEF FindResource
<1> DEFINE r   == [op |-> "delete", user |-> u, id |-> id]
           old == resources[id]
           new == IF old.path = NoPath THEN NoRow ELSE old
<1>2. r \in Requests /\ r.op = "delete" /\ r.user = u /\ r.id = id
  BY DEF Requests
<1>3. old \in Row /\ id <= lastResource
  BY <1>0, <1>1 DEF DataOK, RowsIssued
<1>4. old.path \in Paths \cup {NoPath}
  BY <1>3, RowFields
<1>5. PICK step \in {"delete", "removeFile"} :
        /\ request' = [request EXCEPT ![w] = r] /\ pc' = [pc EXCEPT ![w] = step]
        /\ row' = [row EXCEPT ![w] = new] /\ chosen' = chosen
        /\ step = "removeFile" => old.path # NoPath
  BY <1>1 DEF Found, Begin
<1>6. /\ new \in Row \cup {NoRow}
      /\ old.path # NoPath => new # NoRow /\ new.path \in asked'
  BY <1>1, <1>3, <1>4, ResourcesAssumption DEF Found
<1> HIDE DEF r, new
<1>7. /\ OnlyMoves(w) /\ ControlOK'
      /\ pc'[w] = step /\ request'[w] = r /\ row'[w] = new
  BY <1>0, <1>2, <1>5, <1>6 DEF OnlyMoves, ControlOK, Steps
<1>8. DataOK' /\ Evolves /\ NewRowsHaveFiles /\ UNCHANGED tables
  BY <1>0, <1>1, ResourcesAssumption
  DEF Found, DataOK, Evolves, NewRowsHaveFiles, tables, service
<1>9. Hands(w)'
  BY <1>1, <1>2, <1>3, <1>5, <1>6, <1>7, <1>8, ResourcesAssumption DEF Hands, tables
<1> QED
  BY <1>7, <1>8, <1>9, WorkerStep

LEMMA RemoveFileStep ==
  ASSUME IInv, NEW w \in Workers, RemoveFile(w)
  PROVE  IInv'
<1>0. ControlOK /\ DataOK /\ Hands(w)
  BY TypeSplits DEF IInv
<1>1. /\ OnlyMoves(w) /\ ControlOK'
      /\ pc'[w] = "delete" /\ request'[w] = request[w]
  BY <1>0 DEF OnlyMoves, ControlOK, RemoveFile, Take, Steps
<1>2. row[w].path \in asked
  BY <1>0 DEF Hands, RemoveFile
<1>3. /\ files' \in [Paths -> File]
      /\ \A p \in Paths : files'[p] = NoFile => files[p] = NoFile \/ p \in asked
  BY <1>0, <1>2 DEF RemoveFile, DataOK, File
<1>4. DataOK' /\ Evolves /\ NewRowsHaveFiles
  BY <1>0, <1>3, ResourcesAssumption
  DEF RemoveFile, DataOK, Evolves, NewRowsHaveFiles, tables, service
<1>5. Hands(w)'
  BY <1>0, <1>1 DEF Hands, RemoveFile, tables
<1> QED
  BY <1>1, <1>4, <1>5, WorkerStep

LEMMA DeleteStep ==
  ASSUME IInv, NEW w \in Workers, Delete(w)
  PROVE  IInv'
<1>0. ControlOK /\ DataOK
  BY TypeSplits DEF IInv
<1>1. OnlyMoves(w) /\ ControlOK' /\ Hands(w)'
  BY <1>0, FinishEffect DEF Delete
<1>2. /\ resources' \in [ResourceIds -> Row \cup {NoRow}]
      /\ \A r \in ResourceIds : resources'[r] # NoRow => resources'[r] = resources[r]
  BY <1>0 DEF Delete, DataOK
<1>3. DataOK' /\ Evolves /\ NewRowsHaveFiles
  BY <1>0, <1>2, ResourcesAssumption
  DEF Delete, DataOK, Evolves, NewRowsHaveFiles, service
<1> QED
  BY <1>1, <1>3, WorkerStep

-----------------------------------------------------------------------------
LEMMA InsertStorageStep ==
  ASSUME IInv, InsertStorage
  PROVE  IInv'
<1>0. DataOK
  BY TypeSplits DEF IInv
<1>1. DataOK' /\ Evolves /\ NewRowsHaveFiles
  BY <1>0, ResourcesAssumption
  DEF InsertStorage, DataOK, Evolves, NewRowsHaveFiles, tables, StorageIds
<1> QED
  BY <1>1, OtherStep DEF InsertStorage

LEMMA UpsertSettingStep ==
  ASSUME IInv, UpsertSetting
  PROVE  IInv'
<1>0. DataOK
  BY TypeSplits DEF IInv
<1>1. DataOK' /\ Evolves /\ NewRowsHaveFiles
  BY <1>0, ResourcesAssumption
  DEF UpsertSetting, DataOK, Evolves, NewRowsHaveFiles, tables
<1> QED
  BY <1>1, OtherStep DEF UpsertSetting

LEMMA ReadInUseStep ==
  ASSUME IInv, NEW w \in Workers, ReadInUse(w)
  PROVE  IInv'
<1>0. ControlOK
  BY TypeSplits DEF IInv
<1>1. PICK s \in StorageIds :
        Begin(w, [op |-> "deleteStorage", storage |-> s], "deleteStorage")
  BY DEF ReadInUse
<1> DEFINE r == [op |-> "deleteStorage", storage |-> s]
<1>2. r \in Requests /\ r.op = "deleteStorage"
  BY DEF Requests
<1>3. /\ request' = [request EXCEPT ![w] = r]
      /\ pc' = [pc EXCEPT ![w] = "deleteStorage"] /\ row' = row /\ chosen' = chosen
  BY <1>1 DEF Begin, ReadInUse
<1> HIDE DEF r
<1>4. /\ OnlyMoves(w) /\ ControlOK'
      /\ pc'[w] = "deleteStorage" /\ request'[w] = r
  BY <1>0, <1>2, <1>3 DEF OnlyMoves, ControlOK, Steps
<1>5. Hands(w)'
  BY <1>2, <1>4, ResourcesAssumption DEF Hands
<1> QED
  BY <1>4, <1>5, LocalStep DEF ReadInUse

LEMMA DeleteStorageStep ==
  ASSUME IInv, NEW w \in Workers, DeleteStorage(w)
  PROVE  IInv'
<1>0. ControlOK /\ DataOK
  BY TypeSplits DEF IInv
<1>1. OnlyMoves(w) /\ ControlOK' /\ Hands(w)'
  BY <1>0, FinishEffect DEF DeleteStorage
<1>2. DataOK' /\ Evolves /\ NewRowsHaveFiles
  BY <1>0, ResourcesAssumption
  DEF DeleteStorage, DataOK, Evolves, NewRowsHaveFiles, tables
<1> QED
  BY <1>1, <1>2, WorkerStep

LEMMA DeleteAccountStep ==
  ASSUME IInv, NEW u \in Users, DeleteAccount(u)
  PROVE  IInv'
<1>0. DataOK
  BY TypeSplits DEF IInv
<1>1. DataOK' /\ Evolves
  BY <1>0, ResourcesAssumption DEF DeleteAccount, DataOK, Evolves, service
<1>2. NewRowsHaveFiles
  BY DEF DeleteAccount, NewRowsHaveFiles
<1> QED
  BY <1>1, <1>2, OtherStep DEF DeleteAccount

LEMMA RestartStep ==
  ASSUME IInv, Restart
  PROVE  IInv'
<1>0. DataOK
  BY TypeSplits DEF IInv
<1>1. DataOK' /\ Evolves /\ NewRowsHaveFiles
  BY <1>0, ResourcesAssumption
  DEF Restart, DataOK, Evolves, NewRowsHaveFiles, tables, service
<1>2. ControlOK'
  BY DEF Restart, ControlOK, Steps, Settings, DatabaseStorage
<1>3. \A v \in Workers : Hands(v)'
  BY DEF Restart, Hands
<1> QED
  BY <1>1, <1>2, <1>3, TidyStep

-----------------------------------------------------------------------------
LEMMA InitInv == Init => IInv
<1> SUFFICES ASSUME Init PROVE IInv
  OBVIOUS
<1>1. TypeOK
  BY ResourcesAssumption
  DEF Init, TypeOK, Steps, Settings, DatabaseStorage, File
<1>2. RowsIssued /\ FilesKept
  BY DEF Init, RowsIssued, FilesKept, Stored
<1>3. \A v \in Workers : Hands(v)
  BY DEF Init, Hands
<1> QED
  BY <1>1, <1>2, <1>3 DEF IInv

LEMMA StutterStep ==
  ASSUME IInv, UNCHANGED vars
  PROVE  IInv'
BY DEF IInv, TypeOK, RowsIssued, FilesKept, Stored, Hands,
       vars, tables, service, control

LEMMA StepInv == IInv /\ [Next]_vars => IInv'
<1> SUFFICES ASSUME IInv, [Next]_vars PROVE IInv'
  OBVIOUS
<1>1. ASSUME NEW w \in Workers, Handle(w) \/ Fail(w)
      PROVE  IInv'
  <2>1. CASE Handle(w)
    BY <2>1, ReadSettingStep, FindStorageStep, CreateFileStep, CopyFileStep,
       InsertStep, FindResourceStep, RemoveFileStep, DeleteStep,
       ReadInUseStep, DeleteStorageStep
    DEF Handle
  <2>2. CASE Fail(w)
    BY <2>2, EndStep DEF Fail
  <2> QED
    BY <1>1, <2>1, <2>2
<1>2. CASE \E u \in Users, p \in Paths \cup {NoPath} : PostResource(u, p)
  BY <1>2, PostResourceStep
<1>3. CASE \E u \in Users : DeleteAccount(u)
  BY <1>3, DeleteAccountStep
<1>4. CASE InsertStorage \/ UpsertSetting
  BY <1>4, InsertStorageStep, UpsertSettingStep
<1>5. CASE Restart
  BY <1>5, RestartStep
<1>6. CASE UNCHANGED vars
  BY <1>6, StutterStep
<1> QED
  BY <1>1, <1>2, <1>3, <1>4, <1>5, <1>6 DEF Next

\* The tables, the files and what the workers hold agree in every reachable
\* state of the upload, posting and deletion handlers: an upload keeps its file
\* up to its insert unless the path's deletion is asked for, and a deletion
\* acts on the row of the user it found it for.
THEOREM Invariance == Spec => []IInv
BY InitInv, StepInv, PTL DEF Spec

\* The file of an uploaded resource is missing only if its deletion was asked
\* for with a resource that names it: not after a failed upload, a crash, or
\* the deletion of an account.
THEOREM FilesAreKept == Spec => []FilesKept
<1>1. IInv => FilesKept
  BY DEF IInv
<1> QED
  BY <1>1, Invariance, PTL

\* A row of the table resource that is there only goes with its owner's
\* request or with the account.
LEMMA RowsGoOnly ==
  ASSUME IInv, Next, NEW r \in ResourceIds,
         resources[r] # NoRow, resources'[r] # resources[r]
  PROVE  \/ \E w \in Workers : /\ pc[w] = "delete" /\ pc'[w] # pc[w]
                               /\ request[w].user = resources[r].creator
         \/ \E u \in Users : DeleteAccount(u)
<1>1. DataOK /\ ControlOK /\ RowsIssued
  BY TypeSplits DEF IInv
<1>2. ASSUME NEW new, InsertRow(new)
      PROVE  FALSE
  BY <1>1, <1>2, ResourcesAssumption DEF InsertRow, RowsIssued, DataOK, ResourceIds
<1>3. ASSUME NEW w \in Workers, Delete(w)
      PROVE  /\ pc[w] = "delete" /\ pc'[w] # pc[w]
             /\ request[w].user = resources[r].creator
  <2>1. Hands(w) /\ pc[w] = "delete" /\ pc'[w] = "idle"
    BY <1>1, <1>3, FinishEffect DEF IInv, Delete
  <2>2. r = request[w].id
    BY <1>1, <1>3 DEF Delete, DataOK
  <2> QED
    BY <2>1, <2>2 DEF Hands
<1>4. ASSUME NEW w \in Workers, Handle(w) \/ Fail(w)
      PROVE  Delete(w)
  <2>1. ~ Insert(w)
    BY <1>2 DEF Insert
  <2> QED
    BY <1>4, <2>1 DEF Handle, Fail, ReadSetting, FindStorage, CreateFile, CopyFile,
       FindResource, Found, RemoveFile, ReadInUse, DeleteStorage, tables
<1>5. ~ Restart /\ ~ InsertStorage /\ ~ UpsertSetting
  BY DEF Restart, InsertStorage, UpsertSetting, tables
<1>6. \A u \in Users, p \in Paths \cup {NoPath} : ~ PostResource(u, p)
  BY <1>2 DEF PostResource
<1> QED
  BY <1>3, <1>4, <1>5, <1>6 DEF Next

\* Nobody's resource is deleted but by its owner: the ownership check is made
\* on a row read earlier, and still holds of the row that goes.
THEOREM OnlyOwnersDelete == Spec => OwnersDelete
<1> DEFINE Gone ==
      \A r \in ResourceIds : resources[r] # NoRow /\ resources'[r] # resources[r] =>
        \/ \E w \in Workers : /\ pc[w] = "delete" /\ pc'[w] # pc[w]
                              /\ request[w].user = resources[r].creator
        \/ \E u \in Users : DeleteAccount(u)
<1>1. IInv /\ [Next]_vars => [Gone]_vars
  BY RowsGoOnly
<1> QED
  BY <1>1, Invariance, PTL DEF Spec, OwnersDelete

-----------------------------------------------------------------------------
(***************************************************************************)
(* A resource uploaded to a fresh path keeps its own bytes.                *)
(***************************************************************************)
\* What the typing and the hands say of an upload's row.
LEMMA ClaimFields ==
  ASSUME IInv, NEW w \in Workers, Claiming(w)
  PROVE  row[w] \in Row /\ row[w].path \in Paths
<1>1. ControlOK /\ Hands(w)
  BY TypeSplits DEF IInv
<1>2. row[w] \in Row
  BY <1>1 DEF Hands, Claiming, ControlOK
<1> QED
  BY <1>2, RowFields DEF Claiming

LEMMA OwnedFields ==
  ASSUME IInv, NEW r \in ResourceIds, Owned(r)
  PROVE  resources[r].path \in Paths
BY TypeSplits, RowFields DEF IInv, DataOK, Owned, Stored

\* A step that claims no path, adds no row and writes no file but those that
\* somebody asked to have removed.
Quiet ==
  /\ \A v \in Workers : Claiming(v)' =>
       pc'[v] = pc[v] /\ row'[v] = row[v]
  /\ \A r \in ResourceIds : resources'[r] \in {resources[r], NoRow}
  /\ \A p \in Paths : files'[p] = files[p] \/ p \in asked'
  /\ used' = used
  /\ asked \subseteq asked'

LEMMA QuietStep ==
  ASSUME IInv, OwnInv, Quiet
  PROVE  OwnInv'
<1>1. \A v \in Workers : Claiming(v)' =>
        Claiming(v) /\ pc'[v] = pc[v] /\ row'[v] = row[v]
  BY DEF Quiet, Claiming
<1>2. \A r \in ResourceIds : Owned(r)' => Owned(r) /\ resources'[r] = resources[r]
  BY DEF Quiet, Owned, Stored
<1>3. PathsApart'
  BY <1>1, <1>2 DEF OwnInv, PathsApart, Quiet
<1>4. Copied'
  <2> SUFFICES ASSUME NEW w \in Workers, pc'[w] = "insert", Claiming(w)',
                      row'[w].path \notin asked'
               PROVE  files'[row'[w].path] = row'[w].content
    BY DEF Copied
  <2>1. Claiming(w) /\ pc[w] = "insert" /\ row'[w] = row[w]
    BY <1>1
  <2>2. row[w].path \in Paths
    BY <2>1, ClaimFields
  <2> QED
    BY <2>1, <2>2 DEF OwnInv, Copied, Quiet
<1>5. OwnContent'
  <2> SUFFICES ASSUME NEW r \in ResourceIds, Owned(r)',
                      resources'[r].path \notin asked'
               PROVE  files'[resources'[r].path] = resources'[r].content
    BY DEF OwnContent
  <2>1. Owned(r) /\ resources'[r] = resources[r]
    BY <1>2
  <2>2. resources[r].path \in Paths
    BY <2>1, OwnedFields
  <2> QED
    BY <2>1, <2>2 DEF OwnInv, OwnContent, Quiet
<1> QED
  BY <1>3, <1>4, <1>5 DEF OwnInv

\* A worker that ends, or moves on to a place that claims nothing.
LEMMA QuietMove ==
  ASSUME NEW w \in Workers, OnlyMoves(w), ~ Claiming(w)'
  PROVE  \A v \in Workers : Claiming(v)' => pc'[v] = pc[v] /\ row'[v] = row[v]
BY DEF OnlyMoves

LEMMA FinishQuiet ==
  ASSUME ControlOK, NEW w \in Workers, Finish(w)
  PROVE  OnlyMoves(w) /\ ~ Claiming(w)'
BY FinishEffect DEF Claiming

-----------------------------------------------------------------------------
(***************************************************************************)
(* The three steps of an upload that are not quiet.                        *)
(***************************************************************************)
\* A fresh path is new, so nobody else has it; another one is not claimed.
LEMMA CreateOwn ==
  ASSUME IInv, OwnInv, NEW w \in Workers, CreateFile(w)
  PROVE  OwnInv'
<1>1. DataOK /\ ControlOK
  BY TypeSplits DEF IInv
<1>2. PICK p \in Paths :
        /\ p \notin used
        /\ files' = [files EXCEPT ![p] = Empty]
        /\ used' = used \cup ({p} \cap Fresh)
        /\ Take(w, Upload(w, p), "copyFile")
  BY DEF CreateFile
<1> DEFINE mine == Upload(w, p)
<1>3. pc[w] = "createFile" /\ resources' = resources /\ asked' = asked
  BY DEF CreateFile, tables
<1>4. mine.path = p
  BY <1>3, UploadRow
<1> HIDE DEF mine
<1>5. /\ OnlyMoves(w) /\ pc'[w] = "copyFile" /\ row'[w] = mine
      /\ Claiming(w)' => p \in Fresh
  <2>1. OnlyMoves(w) /\ pc'[w] = "copyFile" /\ row'[w] = mine
    BY <1>1, <1>2 DEF Take, ControlOK, OnlyMoves, mine
  <2> QED
    BY <1>4, <2>1 DEF Claiming
<1>6. \A v \in Workers \ {w} : /\ Claiming(v)' <=> Claiming(v)
                              /\ pc'[v] = pc[v] /\ row'[v] = row[v]
  BY <1>5 DEF OnlyMoves, Claiming
<1>7. \A r \in ResourceIds : Owned(r)' <=> Owned(r)
  BY <1>3 DEF Owned, Stored
<1>8. \A q \in Paths : q # p => files'[q] = files[q]
  BY <1>1, <1>2 DEF DataOK
<1>9. PathsApart'
  BY <1>2, <1>3, <1>4, <1>5, <1>6, <1>7 DEF OwnInv, PathsApart
<1>10. Copied'
  <2> SUFFICES ASSUME NEW v \in Workers, pc'[v] = "insert", Claiming(v)',
                      row'[v].path \notin asked'
               PROVE  files'[row'[v].path] = row'[v].content
    BY DEF Copied
  <2>1. v # w /\ Claiming(v) /\ pc[v] = "insert" /\ row'[v] = row[v]
    BY <1>5, <1>6
  <2>2. row[v].path \in Paths /\ row[v].path # p
    BY <1>2, <2>1, ClaimFields DEF OwnInv, PathsApart, Claiming
  <2> QED
    BY <1>3, <1>8, <2>1, <2>2 DEF OwnInv, Copied
<1>11. OwnContent'
  <2> SUFFICES ASSUME NEW r \in ResourceIds, Owned(r),
                      resources[r].path \notin asked
               PROVE  files'[resources[r].path] = resources[r].content
    BY <1>3, <1>7 DEF OwnContent
  <2>1. resources[r].path \in Paths /\ resources[r].path # p
    BY <1>2, OwnedFields DEF OwnInv, PathsApart, Owned
  <2> QED
    BY <1>8, <2>1 DEF OwnInv, OwnContent
<1> QED
  BY <1>9, <1>10, <1>11 DEF OwnInv

\* The bytes go to the path that only this upload claims, or to one that is
\* not fresh and that nobody claims.
LEMMA CopyOwn ==
  ASSUME IInv, OwnInv, NEW w \in Workers, CopyFile(w)
  PROVE  OwnInv'
<1>1. DataOK /\ ControlOK /\ Hands(w)
  BY TypeSplits DEF IInv
<1> DEFINE p == row[w].path
<1>2. /\ pc[w] = "copyFile" /\ pc' = [pc EXCEPT ![w] = "insert"] /\ row' = row
      /\ resources' = resources /\ asked' = asked /\ used' = used
      /\ files' = [files EXCEPT ![p] = IF @ = NoFile THEN NoFile
                                       ELSE row[w].content]
  BY DEF CopyFile, Goto, tables
<1>3. /\ row[w] \in Row /\ Written(row[w])
      /\ files[p] # NoFile \/ p \in asked
  BY <1>1, <1>2 DEF Hands, ControlOK
<1>4. p \in Paths /\ (p \in Fresh <=> Claiming(w))
  BY <1>2, <1>3, RowFields DEF Claiming
<1>5. p \notin asked => files'[p] = row[w].content
  BY <1>1, <1>2, <1>3, <1>4 DEF DataOK
<1>6. \A q \in Paths : q # p => files'[q] = files[q]
  BY <1>1, <1>2 DEF DataOK
<1> HIDE DEF p
<1>7. \A v \in Workers : /\ Claiming(v)' <=> Claiming(v)
                         /\ v # w => pc'[v] = pc[v]
  BY <1>1, <1>2 DEF Claiming, ControlOK
<1>8. \A r \in ResourceIds : Owned(r)' <=> Owned(r)
  BY <1>2 DEF Owned, Stored
<1>9. PathsApart'
  BY <1>2, <1>7, <1>8 DEF OwnInv, PathsApart
<1>10. Copied'
  <2> SUFFICES ASSUME NEW v \in Workers, pc'[v] = "insert", Claiming(v)',
                      row[v].path \notin asked
               PROVE  files'[row[v].path] = row[v].content
    BY <1>2 DEF Copied
  <2>1. CASE v = w
    BY <1>5, <2>1 DEF p
  <2>2. CASE v # w
    <3>1. Claiming(v) /\ pc[v] = "insert"
      BY <1>7, <2>2
    <3>2. row[v].path \in Paths /\ row[v].path # p
      BY <1>4, <2>2, <3>1, ClaimFields DEF OwnInv, PathsApart, Claiming, p
    <3> QED
      BY <1>6, <3>1, <3>2 DEF OwnInv, Copied
  <2> QED
    BY <2>1, <2>2
<1>11. OwnContent'
  <2> SUFFICES ASSUME NEW r \in ResourceIds, Owned(r),
                      resources[r].path \notin asked
               PROVE  files'[resources[r].path] = resources[r].content
    BY <1>2, <1>8 DEF OwnContent
  <2>1. resources[r].path \in Paths /\ resources[r].path # p
    BY <1>4, OwnedFields DEF OwnInv, PathsApart, Owned, p
  <2> QED
    BY <1>6, <2>1 DEF OwnInv, OwnContent
<1> QED
  BY <1>9, <1>10, <1>11 DEF OwnInv

\* A row that is posted claims nothing.
LEMMA PostOwn ==
  ASSUME IInv, OwnInv, NEW u \in Users, NEW p \in Paths \cup {NoPath},
         PostResource(u, p)
  PROVE  OwnInv'
<1>1. DataOK
  BY TypeSplits DEF IInv
<1> DEFINE n   == lastResource + 1
           new == Bare(u, p)
<1>2. /\ resources' = [resources EXCEPT ![n] = new]
      /\ files' = files /\ used' = used /\ asked' = asked
      /\ pc' = pc /\ row' = row
  BY DEF PostResource, InsertRow, control
<1>3. ~ Written(new)
  BY BareRow
<1> HIDE DEF n, new
<1>4. \A r \in ResourceIds : resources'[r] \in {resources[r], new}
  BY <1>1, <1>2 DEF DataOK
<1>5. \A r \in ResourceIds : Owned(r)' => Owned(r) /\ resources'[r] = resources[r]
  BY <1>3, <1>4 DEF Owned, Stored, Written
<1>6. \A v \in Workers : Claiming(v)' <=> Claiming(v)
  BY <1>2 DEF Claiming
<1>7. PathsApart'
  BY <1>2, <1>5, <1>6 DEF OwnInv, PathsApart
<1>8. Copied' /\ OwnContent'
  BY <1>2, <1>5, <1>6 DEF OwnInv, Copied, OwnContent
<1> QED
  BY <1>7, <1>8 DEF OwnInv

\* The claim passes from the worker to the row.
LEMMA InsertOwn ==
  ASSUME IInv, OwnInv, NEW w \in Workers, Insert(w)
  PROVE  OwnInv'
<1>1. DataOK /\ ControlOK
  BY TypeSplits DEF IInv
<1> DEFINE n == lastResource + 1
<1>2. /\ pc[w] = "insert" /\ resources' = [resources EXCEPT ![n] = row[w]]
      /\ files' = files /\ used' = used /\ asked' = asked
      /\ lastResource < MaxResource /\ Finish(w)
  BY DEF Insert, InsertRow
<1>3. n \in ResourceIds
  BY <1>1, <1>2, ResourcesAssumption DEF DataOK, ResourceIds
<1>4. \A r \in ResourceIds : resources'[r] = IF r = n THEN row[w] ELSE resources[r]
  BY <1>1, <1>2 DEF DataOK
<1> HIDE DEF n
<1>5. OnlyMoves(w) /\ ~ Claiming(w)'
  BY <1>1, <1>2, FinishQuiet
<1>6. \A v \in Workers : Claiming(v)' =>
        v # w /\ Claiming(v) /\ pc'[v] = pc[v] /\ row'[v] = row[v]
  BY <1>5 DEF OnlyMoves, Claiming
<1>7. \A r \in ResourceIds : Owned(r)' =>
        \/ r = n /\ Claiming(w) /\ resources'[r] = row[w]
        \/ Owned(r) /\ resources'[r] = resources[r]
  BY <1>2, <1>4 DEF Owned, Stored, Claiming
<1>8. PathsApart'
  <2>1. \A v \in Workers : Claiming(v)' => row'[v].path \in used'
    BY <1>2, <1>6 DEF OwnInv, PathsApart
  <2>2. \A r \in ResourceIds : Owned(r)' => resources'[r].path \in used'
    BY <1>2, <1>7 DEF OwnInv, PathsApart
  <2>3. \A u, v \in Workers :
          u # v /\ Claiming(u)' /\ Claiming(v)' => row'[u].path # row'[v].path
    BY <1>6 DEF OwnInv, PathsApart
  <2>4. \A r \in ResourceIds, v \in Workers :
          Owned(r)' /\ Claiming(v)' => resources'[r].path # row'[v].path
    BY <1>6, <1>7 DEF OwnInv, PathsApart
  <2> QED
    BY <2>1, <2>2, <2>3, <2>4 DEF PathsApart
<1>9. Copied'
  BY <1>2, <1>6 DEF OwnInv, Copied
<1>10. OwnContent'
  BY <1>2, <1>7 DEF OwnInv, OwnContent, Copied
<1> QED
  BY <1>8, <1>9, <1>10 DEF OwnInv

-----------------------------------------------------------------------------
LEMMA OwnInit == Init => OwnInv
BY DEF Init, OwnInv, PathsApart, Copied, OwnContent, Claiming, Owned, Stored

\* The local moves of a worker, of whatever handler.
LEMMA MoveOwn ==
  ASSUME IInv, OwnInv, NEW w \in Workers, Handle(w) \/ Fail(w),
         ~ CreateFile(w), ~ CopyFile(w), ~ Insert(w)
  PROVE  OwnInv'
<1>1. DataOK /\ ControlOK /\ Hands(w)
  BY TypeSplits DEF IInv
<1>2. CASE ReadSetting(w)
  <2>1. PICK u \in Users, step \in {"insert", "createFile", "findStorage"} :
          /\ row' = [row EXCEPT ![w] = Bare(u, NoPath)]
          /\ pc' = [pc EXCEPT ![w] = step]
          /\ \A v \in Workers : v # w => request'[v] = request[v]
    BY <1>1, <1>2 DEF ReadSetting, Begin, ControlOK
  <2>2. OnlyMoves(w) /\ row'[w] = Bare(u, NoPath)
    BY <1>1, <2>1 DEF OnlyMoves, ControlOK
  <2>3. ~ Claiming(w)'
    BY <2>2, BareRow DEF Claiming
  <2>4. Quiet
    BY <1>2, <2>2, <2>3, QuietMove DEF Quiet, ReadSetting, tables
  <2> QED
    BY <2>4, QuietStep
<1>3. CASE FindStorage(w)
  <2>1. OnlyMoves(w) /\ ~ Claiming(w)'
    <3>1. CASE Finish(w)
      BY <1>1, <3>1, FinishQuiet
    <3>2. CASE Goto(w, "insert")
      <4>1. OnlyMoves(w) /\ row'[w] = row[w]
        BY <1>1, <3>2 DEF Goto, OnlyMoves, ControlOK
      <4>2. ~ Written(row[w])
        BY <1>1, <1>3 DEF FindStorage, Hands
      <4> QED
        BY <4>1, <4>2 DEF Claiming
    <3> QED
      BY <1>3, <3>1, <3>2 DEF FindStorage
  <2>2. Quiet
    BY <1>3, <2>1, QuietMove DEF Quiet, FindStorage, tables
  <2> QED
    BY <2>2, QuietStep
<1>4. CASE FindResource(w) \/ ReadInUse(w)
  <2>1. PICK r \in Requests, step \in {"delete", "removeFile", "deleteStorage"} :
          Begin(w, r, step)
    BY <1>4 DEF FindResource, Found, ReadInUse, Requests
  <2>2. OnlyMoves(w) /\ ~ Claiming(w)'
    BY <1>1, <1>4, <2>1
    DEF Begin, FindResource, Found, ReadInUse, OnlyMoves, ControlOK, Claiming
  <2>3. Quiet
    BY <1>4, <2>2, QuietMove DEF Quiet, FindResource, Found, ReadInUse, tables
  <2> QED
    BY <2>3, QuietStep
<1>5. CASE RemoveFile(w)
  <2>1. OnlyMoves(w) /\ ~ Claiming(w)'
    BY <1>1, <1>5 DEF RemoveFile, Take, OnlyMoves, ControlOK, Claiming
  <2>2. \A p \in Paths : files'[p] = files[p] \/ p \in asked
    BY <1>1, <1>5 DEF RemoveFile, DataOK, Hands
  <2>3. Quiet
    BY <1>5, <2>1, <2>2, QuietMove DEF Quiet, RemoveFile, tables
  <2> QED
    BY <2>3, QuietStep
<1>6. CASE Delete(w) \/ DeleteStorage(w) \/ Fail(w)
  <2>1. Finish(w)
    BY <1>6 DEF Delete, DeleteStorage, Fail
  <2>2. OnlyMoves(w) /\ ~ Claiming(w)'
    BY <1>1, <2>1, FinishQuiet
  <2>3. \A r \in ResourceIds : resources'[r] \in {resources[r], NoRow}
    BY <1>1, <1>6 DEF Delete, DeleteStorage, Fail, tables, DataOK
  <2>4. Quiet
    BY <1>6, <2>2, <2>3, QuietMove DEF Quiet, Delete, DeleteStorage, Fail
  <2> QED
    BY <2>4, QuietStep
<1> QED
  BY <1>2, <1>3, <1>4, <1>5, <1>6 DEF Handle

LEMMA OwnStep ==
  ASSUME IInv, OwnInv, [Next]_vars
  PROVE  OwnInv'
<1>1. ASSUME NEW w \in Workers, Handle(w) \/ Fail(w)
      PROVE  OwnInv'
  BY <1>1, CreateOwn, CopyOwn, InsertOwn, MoveOwn
<1>2. ASSUME NEW u \in Users, DeleteAccount(u)
      PROVE  OwnInv'
  <2>1. Quiet
    BY <1>2 DEF DeleteAccount, Quiet, control
  <2> QED
    BY <2>1, QuietStep
<1>3. CASE InsertStorage \/ UpsertSetting \/ UNCHANGED vars
  <2>1. Quiet
    BY <1>3 DEF InsertStorage, UpsertSetting, vars, Quiet, control, tables
  <2> QED
    BY <2>1, QuietStep
<1>4. CASE Restart
  <2>1. Quiet
    BY <1>4 DEF Restart, Quiet, Claiming, tables
  <2> QED
    BY <2>1, QuietStep
<1> QED
  BY <1>1, <1>2, <1>3, <1>4, PostOwn DEF Next

\* A path that the template yields once at most is that of one upload: no
\* other upload and no other uploaded resource has it, and an upload that is
\* about to insert its row finds its bytes there unless the path's deletion was
\* asked for.  Resources posted with the same path do not count: no bytes were
\* uploaded for them.
THEOREM UploadsApart == Spec => []OwnInv
<1>1. Init => OwnInv
  BY OwnInit
<1>2. IInv /\ OwnInv /\ [Next]_vars => OwnInv'
  BY OwnStep
<1> QED
  BY <1>1, <1>2, Invariance, PTL DEF Spec

\* A resource uploaded to a path that the template yields once at most has the
\* bytes of that upload until deletion is asked for with a resource that names
\* the path, whatever uploads, posts, failures, crashes and deletions
\* interleave.
THEOREM OwnContentKept == Spec => []OwnContent
<1>1. OwnInv => OwnContent
  BY DEF OwnInv
<1> QED
  BY <1>1, UploadsApart, PTL
=============================================================================
