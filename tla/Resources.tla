----------------------------- MODULE Resources ------------------------------
(***************************************************************************)
(* Where the bytes of a resource are: the upload and deletion endpoints of *)
(* service/resource.go, the storage services of service/storage.go that an *)
(* upload may use, and the system setting that says which.  The table, the *)
(* files under the data directory and the setting are changed by separate  *)
(* steps, with no lock and no transaction around them; resources and       *)
(* storages have no cache.  A worker takes up a request with its first     *)
(* access, and one that makes a single access occupies no worker.          *)
(*                                                                         *)
(* Requests come from users whom the middleware and, for storages, the     *)
(* role check let in (module Accounts).  POST /resource stores the fields  *)
(* of its body: no bytes, and as path whatever the body names, looking     *)
(* only at the external link.  A patch changes names only and is no step   *)
(* here.  Where an S3 upload puts the bytes is not modelled.               *)
(***************************************************************************)
EXTENDS Integers

CONSTANTS
  Users,
  MaxResource, MaxStorage,  \* bounds on the ids handed out
  Paths,                    \* file paths under the data directory
  Contents,                 \* what a file can hold
  Fresh,                    \* paths the template yields once at most
  Workers,
  NoRow, NoRequest, NoPath, NoContent, NoFile, Empty

DatabaseStorage == 0
LocalStorage    == -1
ResourceIds     == 1 .. MaxResource
StorageIds      == 1 .. MaxStorage
Settings        == StorageIds \cup {DatabaseStorage, LocalStorage}

\* A resource row: without a path its bytes are in the row or behind a link.
\* Its content stands for the bytes that its upload has put at that path, if it
\* comes from such an upload.
Row  ==
       [creator : Users, path : Paths \cup {NoPath}, content : {NoContent}]
  \cup [creator : Users, path : Paths, content : Contents]
File == Contents \cup {Empty, NoFile}

\* The requests that take several accesses.
Requests ==
       [op : {"upload"}, user : Users, content : Contents]
  \cup [op : {"delete"}, user : Users, id : ResourceIds]
  \cup [op : {"deleteStorage"}, storage : StorageIds]

ASSUME ResourcesAssumption ==
  /\ MaxResource \in Nat /\ MaxStorage \in Nat
  /\ Fresh \subseteq Paths
  /\ NoRow \notin Row /\ NoRequest \notin Requests /\ NoPath \notin Paths
  /\ NoFile \notin Contents \cup {Empty} /\ Empty \notin Contents
  /\ NoContent \notin Contents

VARIABLES
  resources,     \* the table resource: the row of each id, or NoRow
  lastResource,  \* sqlite_sequence of resource
  storages,      \* the ids in the table storage
  lastStorage,   \* sqlite_sequence of storage
  setting,       \* the system setting storage-service-id
  files,         \* what is at each path
  pc,            \* the next shared access of each worker
  request,       \* the request it serves
  row,           \* the row it is going to insert or has found
  chosen,        \* the setting as an upload has read it
  used,          \* the fresh paths that the template has yielded
  asked          \* history variable: paths whose file was to be deleted
                 \* with a resource that names them, as its owner asked

tables  == <<resources, lastResource>>
service == <<storages, lastStorage, setting>>
control == <<pc, request, row, chosen>>
vars    == <<tables, service, files, control, used, asked>>

Steps == {"idle", "findStorage", "createFile", "copyFile", "insert",
          "removeFile", "delete", "deleteStorage"}

TypeOK ==
  /\ resources \in [ResourceIds -> Row \cup {NoRow}]
  /\ lastResource \in 0 .. MaxResource
  /\ storages \subseteq StorageIds
  /\ lastStorage \in 0 .. MaxStorage
  /\ setting \in Settings
  /\ files \in [Paths -> File]
  /\ pc \in [Workers -> Steps]
  /\ request \in [Workers -> Requests \cup {NoRequest}]
  /\ row \in [Workers -> Row \cup {NoRow}]
  /\ chosen \in [Workers -> Settings]
  /\ used \subseteq Fresh
  /\ asked \subseteq Paths

\* Without the setting uploads go to the database.
Init ==
  /\ resources = [r \in ResourceIds |-> NoRow]
  /\ lastResource = 0
  /\ storages = {}
  /\ lastStorage = 0
  /\ setting = DatabaseStorage
  /\ files = [p \in Paths |-> NoFile]
  /\ pc = [w \in Workers |-> "idle"]
  /\ request = [w \in Workers |-> NoRequest]
  /\ row = [w \in Workers |-> NoRow]
  /\ chosen = [w \in Workers |-> DatabaseStorage]
  /\ used = {}
  /\ asked = {}

-----------------------------------------------------------------------------
Goto(w, step) ==
  /\ pc' = [pc EXCEPT ![w] = step]
  /\ UNCHANGED <<request, row, chosen>>

Take(w, r, step) ==
  /\ row' = [row EXCEPT ![w] = r]
  /\ pc' = [pc EXCEPT ![w] = step]
  /\ UNCHANGED <<request, chosen>>

Finish(w) ==
  /\ pc' = [pc EXCEPT ![w] = "idle"]
  /\ request' = [request EXCEPT ![w] = NoRequest]
  /\ row' = [row EXCEPT ![w] = NoRow]
  /\ chosen' = [chosen EXCEPT ![w] = DatabaseStorage]

Begin(w, r, step) ==
  /\ pc[w] = "idle"
  /\ request' = [request EXCEPT ![w] = r]
  /\ pc' = [pc EXCEPT ![w] = step]

\* CreateResource.
InsertRow(r) ==
  /\ lastResource < MaxResource
  /\ lastResource' = lastResource + 1
  /\ resources' = [resources EXCEPT ![lastResource'] = r]
  /\ UNCHANGED <<service, files, used, asked>>

Bare(u, p) == [creator |-> u, path |-> p, content |-> NoContent]

\* POST /resource.
PostResource(u, p) == InsertRow(Bare(u, p)) /\ UNCHANGED control

-----------------------------------------------------------------------------
(***************************************************************************)
(* POST /resource/blob.                                                    *)
(***************************************************************************)
ReadSetting(w) ==
  /\ \E u \in Users, c \in Contents :
       /\ Begin(w, [op |-> "upload", user |-> u, content |-> c],
                IF setting = DatabaseStorage THEN "insert"
                ELSE IF setting = LocalStorage THEN "createFile" ELSE "findStorage")
       /\ row' = [row EXCEPT ![w] = Bare(u, NoPath)]
  /\ chosen' = [chosen EXCEPT ![w] = setting]
  /\ UNCHANGED <<tables, service, files, used, asked>>

\* The storage of the setting read before.  It may be gone by now, and the
\* setting may never have named one.  The upload to it ends in a link.
FindStorage(w) ==
  /\ pc[w] = "findStorage"
  /\ IF chosen[w] \in storages THEN Goto(w, "insert") ELSE Finish(w)
  /\ UNCHANGED <<tables, service, files, used, asked>>

Upload(w, p) == [row[w] EXCEPT !.path = p, !.content = request[w].content]

\* (variant: the row is inserted before the bytes are copied)
CreateFileOnly(w) ==
  /\ pc[w] = "createFile"
  /\ \E p \in Paths :
       /\ p \notin used
       /\ files' = [files EXCEPT ![p] = Empty]
       /\ used' = used \cup ({p} \cap Fresh)
       /\ Take(w, Upload(w, p), "insert")
  /\ UNCHANGED <<tables, service, asked>>

\* os.Create truncates a file that is there already.
CreateFile(w) ==
  /\ pc[w] = "createFile"
  /\ \E p \in Paths :
       /\ p \notin used
       /\ files' = [files EXCEPT ![p] = Empty]
       /\ used' = used \cup ({p} \cap Fresh)
       /\ Take(w, Upload(w, p), "copyFile")
  /\ UNCHANGED <<tables, service, asked>>

\* io.Copy writes through the open file, even if it was removed meanwhile.
CopyFile(w) ==
  /\ pc[w] = "copyFile"
  /\ files' = [files EXCEPT ![row[w].path] =
                 IF @ = NoFile THEN NoFile ELSE row[w].content]
  /\ Goto(w, "insert")
  /\ UNCHANGED <<tables, service, used, asked>>

Insert(w) ==
  /\ pc[w] = "insert"
  /\ InsertRow(row[w])
  /\ Finish(w)

-----------------------------------------------------------------------------
(***************************************************************************)
(* DELETE /resource/:id - the file first, then the row.                    *)
(***************************************************************************)
\* What is found is deleted, what is not found ends the request.
Found(w, u, id) ==
  LET r == resources[id] IN
    /\ Begin(w, [op |-> "delete", user |-> u, id |-> id],
             IF r.path = NoPath THEN "delete" ELSE "removeFile")
    /\ row' = [row EXCEPT ![w] = IF r.path = NoPath THEN NoRow ELSE r]
    /\ asked' = asked \cup ({r.path} \cap Paths)
    /\ UNCHANGED <<chosen, tables, service, files, used>>

\* (variant: a resource of anybody is found)
FindAnyResource(w) ==
  \E u \in Users, id \in ResourceIds : resources[id] # NoRow /\ Found(w, u, id)

FindResource(w) ==
  \E u \in Users, id \in ResourceIds :
    /\ resources[id] # NoRow /\ resources[id].creator = u
    /\ Found(w, u, id)

\* A failure to remove the file is logged, no more.
RemoveFile(w) ==
  /\ pc[w] = "removeFile"
  /\ \/ files' = [files EXCEPT ![row[w].path] = NoFile]
     \/ UNCHANGED files
  /\ Take(w, NoRow, "delete")
  /\ UNCHANGED <<tables, service, used, asked>>

Delete(w) ==
  /\ pc[w] = "delete"
  /\ resources' = [resources EXCEPT ![request[w].id] = NoRow]
  /\ Finish(w)
  /\ UNCHANGED <<lastResource, service, files, used, asked>>

\* vacuumResource takes the rows of the user, nobody takes the files.  It runs
\* in DELETE /user of another worker, and again in the transaction of every
\* later deletion, for what a request of that user has inserted since.
DeleteAccount(u) ==
  /\ resources' = [r \in ResourceIds |->
       IF resources[r] # NoRow /\ resources[r].creator = u THEN NoRow
       ELSE resources[r]]
  /\ UNCHANGED <<lastResource, service, files, control, used, asked>>

-----------------------------------------------------------------------------
(***************************************************************************)
(* Storage services and the setting that names one.                        *)
(***************************************************************************)
InsertStorage ==
  /\ lastStorage < MaxStorage
  /\ lastStorage' = lastStorage + 1
  /\ storages' = storages \cup {lastStorage'}
  /\ UNCHANGED <<tables, setting, files, control, used, asked>>

\* Any integer is accepted.
UpsertSetting ==
  /\ setting' \in Settings
  /\ UNCHANGED <<tables, storages, lastStorage, files, control, used, asked>>

ReadInUse(w) ==
  /\ \E s \in StorageIds \ {setting} :
       Begin(w, [op |-> "deleteStorage", storage |-> s], "deleteStorage")
  /\ UNCHANGED <<row, chosen, tables, service, files, used, asked>>

DeleteStorage(w) ==
  /\ pc[w] = "deleteStorage"
  /\ storages' = storages \ {request[w].storage}
  /\ Finish(w)
  /\ UNCHANGED <<tables, lastStorage, setting, files, used, asked>>

-----------------------------------------------------------------------------
\* (variant: a failed upload cleans up after itself)
FailCleaningUp(w) ==
  /\ pc[w] # "idle"
  /\ files' = IF pc[w] \in {"copyFile", "insert"} /\ row[w].path # NoPath
              THEN [files EXCEPT ![row[w].path] = NoFile]
              ELSE files
  /\ Finish(w)
  /\ UNCHANGED <<tables, service, used, asked>>

\* A database or file access fails; what was done before stays done.
Fail(w) ==
  /\ pc[w] \notin {"idle", "removeFile"}
  /\ Finish(w)
  /\ UNCHANGED <<tables, service, files, used, asked>>

\* The process dies and starts again.
Restart ==
  /\ pc' = [w \in Workers |-> "idle"]
  /\ request' = [w \in Workers |-> NoRequest]
  /\ row' = [w \in Workers |-> NoRow]
  /\ chosen' = [w \in Workers |-> DatabaseStorage]
  /\ UNCHANGED <<tables, service, files, used, asked>>

Handle(w) ==
  \/ ReadSetting(w) \/ FindStorage(w) \/ CreateFile(w) \/ CopyFile(w) \/ Insert(w)
  \/ FindResource(w) \/ RemoveFile(w) \/ Delete(w)
  \/ ReadInUse(w) \/ DeleteStorage(w)

Next ==
  \/ \E w \in Workers : Handle(w) \/ Fail(w)
  \/ \E u \in Users, p \in Paths \cup {NoPath} : PostResource(u, p)
  \/ \E u \in Users : DeleteAccount(u)
  \/ InsertStorage \/ UpsertSetting
  \/ Restart

Spec == Init /\ [][Next]_vars

-----------------------------------------------------------------------------
\* An upload has written the file of this resource.
Written(r) == r.content # NoContent
Stored(r)  == resources[r] # NoRow /\ Written(resources[r])

\* The file that was uploaded for a resource is missing only if its deletion
\* was asked for with a resource that names it (the uploaded one, one that
\* shares the path, or one posted with that path) - never through a failed or
\* repeated upload, a crash, or the end of somebody's account.
FilesKept ==
  \A r \in ResourceIds : Stored(r) /\ files[resources[r].path] = NoFile =>
    resources[r].path \in asked

\* What makes FilesKept and OwnersDelete inductive: an upload keeps its file
\* unless somebody asked for that path; who removes a file or a row has found
\* the row as its owner, and no other row ever gets that id.
RowsIssued == \A r \in ResourceIds : resources[r] # NoRow => r <= lastResource

Hands(w) ==
  /\ pc[w] \in {"findStorage", "createFile"} =>
       /\ request[w] # NoRequest /\ request[w].op = "upload"
       /\ row[w] # NoRow /\ ~ Written(row[w])
  /\ pc[w] \in {"copyFile", "insert"} => row[w] # NoRow
  /\ pc[w] = "copyFile" => Written(row[w])
  /\ pc[w] \in {"copyFile", "insert"} /\ Written(row[w]) =>
       files[row[w].path] # NoFile \/ row[w].path \in asked
  /\ pc[w] = "removeFile" => row[w] # NoRow /\ row[w].path \in asked
  /\ pc[w] \in {"removeFile", "delete"} =>
       /\ request[w] # NoRequest /\ request[w].op = "delete"
       /\ request[w].id <= lastResource
       /\ resources[request[w].id] # NoRow =>
            resources[request[w].id].creator = request[w].user
  /\ pc[w] = "deleteStorage" =>
       request[w] # NoRequest /\ request[w].op = "deleteStorage"

IInv == TypeOK /\ RowsIssued /\ FilesKept /\ \A w \in Workers : Hands(w)

\* A path the template yields once at most (it names a file or a second that
\* no other upload names, replacePathTemplate) has the bytes that were uploaded
\* to it, from the commit of the row until its deletion is asked for with a
\* resource that names it, whatever happens to the paths that are shared and
\* whatever resources are posted with this path.
Owned(r) == Stored(r) /\ resources[r].path \in Fresh

OwnContent ==
  \A r \in ResourceIds : Owned(r) /\ resources[r].path \notin asked =>
    files[resources[r].path] = resources[r].content

\* What makes OwnContent inductive: a fresh path belongs to one upload, or to
\* the resource that has it from one, and an upload that has copied its bytes
\* finds them in its file until somebody asks for it.  A resource that is only
\* posted with the path claims nothing: it has no bytes.
Claiming(w) == /\ pc[w] \in {"copyFile", "insert"}
               /\ Written(row[w]) /\ row[w].path \in Fresh

PathsApart ==
  /\ \A w \in Workers : Claiming(w) => row[w].path \in used
  /\ \A r \in ResourceIds : Owned(r) => resources[r].path \in used
  /\ \A v, w \in Workers :
       v # w /\ Claiming(v) /\ Claiming(w) => row[v].path # row[w].path
  /\ \A r \in ResourceIds, w \in Workers :
       Owned(r) /\ Claiming(w) => resources[r].path # row[w].path

Copied ==
  \A w \in Workers :
    pc[w] = "insert" /\ Claiming(w) /\ row[w].path \notin asked =>
      files[row[w].path] = row[w].content

OwnInv == PathsApart /\ Copied /\ OwnContent

\* A resource goes only because its owner asked for it, or with the account:
\* the row found before is still that of the same owner when it is deleted.
OwnersDelete ==
  [][\A r \in ResourceIds : resources[r] # NoRow /\ resources'[r] # resources[r] =>
       \/ \E w \in Workers : /\ pc[w] = "delete" /\ pc'[w] # pc[w]
                             /\ request[w].user = resources[r].creator
       \/ \E u \in Users : DeleteAccount(u)]_vars

\* service/storage.go:160, "Storage service %d is using": a storage service
\* that uploads go to is not deleted.
InUseStays ==
  [][\A s \in storages : s = setting => s \in storages']_vars
=============================================================================
