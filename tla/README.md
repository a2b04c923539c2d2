# uamemos-server in TLA+

A verification development of uamemos-server: a memo server in Go, one process
serving HTTP (gin) over one SQLite file, with process-wide caches in front of
the tables. It holds TLA+ modules translated from the source, TLC
configurations that check them on small instances, and theorems that TLAPS
proves for every instance. `PROJECT.json` lists the runs, the mutants that show
each property can fail, the source lines behind each definition, the hazards
and the theorems. Paths below are relative to the repository.

    tlc -workers 4 -config MemoService_serial.cfg MCMemoService.tla
    tlapm MemoService_proofs.tla

## The system

### Components, their state and their operations

| component | state | operations |
|---|---|---|
| relational store (`store/*.go`) | the tables user, memo, resource, shortcut, user_setting, memo_organizer, memo_resource, tag; `sqlite_sequence` | one transaction per `Store` method; `vacuum` inside three deletions and `POST /system/vacuum` |
| caches (`store/store.go:14-18`) | `userCache`, `userSettingCache`, `memoCache`, `shortcutCache`, `idpCache`: `sync.Map`s of the process | load before a SELECT by key, store after a SELECT or a commit, delete after a DELETE |
| JWT middleware (`service/jwt.go`) | cookies of the client | check of the token, lookup of its user, refresh |
| accounts (`service/auth.go`, `service/user.go`) | rows of user, roles HOST, ADMIN, USER | signin, signup, create, patch, delete |
| setup command (`setup/setup.go`) | none; a process of its own on the same file | look for a host, insert one |
| memos (`service/memo.go`) | rows of memo, links, pinned flags | create, patch, delete, get, lists, organizer, link, unlink |
| resources (`service/resource.go`) | rows of resource and, with local storage, files | post, upload, patch, delete, stream |
| storages (`service/storage.go`) | rows of storage; the setting `storage-service-id` | create, patch, delete |
| settings (`service/system.go`) | rows of system_setting, no cache | upsert, list, service id and secret |
| shortcuts (`service/shortcut.go`) | rows of shortcut; `shortcutCache` | create, patch, get, list, delete |
| user settings (`store/user_setting.go`) | rows of user_setting; `userSettingCache`, which also remembers that there is none | upsert, list, single lookup (the default visibility of a memo) |
| tags (`service/tag.go`) | rows of tag, no cache | upsert, list, suggest, delete |
| database opening (`store/db`) | the file, its schema, migration_history | `Open` in the modes prod, dev, demo |
| activity log, identity providers, plugins | append-only rows; rows no route reaches; none | not part of the model |

### How they interact

gin runs every request in a goroutine. A handler reaches the middleware first,
then calls `Store` methods one after the other. Each method is a transaction of
its own (SQLite: one writer, 5 s busy timeout); no handler holds a lock across
two calls, nor a transaction that writes: `FindMemo` and `FindMemoList` leave
the one they read in open while they compose, and only read in it. Each cache is
read before the database and written after the commit, so an access to the cache
and the access to the table behind it are two steps. Foreign keys are off
(`store/db/db.go:40`): dependent rows are removed by the seven vacuum
statements, which run in the transaction of a deletion. Files are written and
removed outside any transaction. The setup command opens the same file from a
second process with caches of its own.

### What is hard here

- **Interleavings of handlers.** Every check (owner, role, host exists, storage
  in use) reads in one step and acts in a later one, on a row that may have
  changed, may be gone, or may have come from a stale cache.
- **Caches.** A store into a cache can land after the deletion of the entry and
  after a newer store.
- **Partial failure and crash.** File, row, links, activity and cache are
  written one by one; a failure or a crash leaves what was done.
- **Deletion.** One pass of seven ordered statements has to find all orphans.
- **Refusal without abort.** The middleware answers 401 and returns, but does
  not call `Abort`: gin goes on to the endpoint, which runs without a user.
- **Startup.** The database file exists before its schema does.

`PROJECT.json` "hazards" lists each at its line with the properties about it,
or says why none covers it.

### What makes each component correct

- *Store*: a deletion leaves no orphan, takes nothing else, and a new account
  inherits nothing.
- *Memos*: only the creator changes or deletes a memo; what was deleted stays
  deleted; what is served was committed; every handler ends; with requests one
  after the other what is served is what is stored, and no list fails because
  the creator of a memo is gone.
- *Accounts*: one host, only hosts administer, the cache shows what the table
  holds, signing up follows the setting. (An archived account cannot sign in;
  nothing keeps it out that holds a token, since the middleware renews tokens
  without a look at the status, `service/jwt.go:222`.)
- *Resources*: the file of an upload goes only when deletion is asked for with a
  resource that names its path, rows only with their owner; an upload to a path
  that is not repeated keeps its own bytes; a storage in use stays.
- *Shortcuts*: only the creator changes one, the deleted stay deleted, and the
  cache is wrong only after a race of a read with a write.
- *User settings*: the same of their cache; the default visibility of a memo is
  one its user had, and `POST /memo` makes a regular user's memo public only if
  that was allowed (`PATCH /memo` can do it without asking).
- *System settings*: what is accepted can be shown, and what is shown is what the
  handlers act on, but for JSON null and integers that a float64 does not hold.
- *Startup*: who serves has tables, and one service id.

## The modules

| module | models | extends or instantiates |
|---|---|---|
| `StoreDB` | the tables as sets of rows and references; each action a committed transaction | |
| `MemoService`, `MCMemoService` | the memo endpoints, `DELETE /user/:id`, the middleware's lookup, two caches, step by step | `INSTANCE StoreDB` |
| `Accounts`, `MCAccounts` | signin, signup, account endpoints, `allow-signup`, the setup process, `userCache` | `INSTANCE StoreDB` |
| `Resources`, `MCResources` | upload, deletion, files, storages, the setting that names one | |
| `Shortcuts`, `MCShortcuts` | the shortcut endpoints with `shortcutCache`, deletions of users and vacuums next to them | `INSTANCE StoreDB` |
| `UserSettings`, `MCUserSettings` | the setting memo-visibility with `userSettingCache`, and how `POST /memo` finds the visibility of a memo | `INSTANCE StoreDB` |
| `SystemSettings` | what each system setting may hold, what the status and the handlers make of it (operators only) | |
| `Startup` | `DB.Open` by several processes, the service id, the posted settings over restarts | `SystemSettings` |
| `StoreDB_proofs`, `MemoService_proofs`, `Accounts_proofs`, `Resources_proofs`, `Shortcuts_proofs`, `UserSettings_proofs`, `Startup_proofs` | theorems | the module of the same name |
| `MemoTables_proofs` | theorem: `MemoService` implements `StoreDB` | `MemoService_proofs` |

An MC module defines only symmetry sets on top of the module it extends.
`StoreDB` is what four of the modules promise about the tables: each has an
instance `Tables` of it, with a mapping of its own tables, and `RefinesTables`
says that every step is one of its transactions or none.

### StoreDB

`db` is a record of tables. A row keeps its id and the ids it refers to;
everything else a row says belongs to the module of its service. `seq` is
`sqlite_sequence`: with AUTOINCREMENT an id is never given out twice. Inserts
check no reference, as in the code: a handler that was let in may insert for a
user deleted meanwhile (`KnownUsers`), and links may name memos and resources
that do not exist. `vacuum` is the composition of the seven statements in the
order of `store/store.go`. `Rooted` is the reference definition: the rows all of
whose ancestors exist, said without order.

### MemoService

A worker is the goroutine of a request. Its `pc` is the next access to shared
state; one action is that access and the local code up to the next one.
`stage` says which call of `FindUser` or `ComposeMemo` it is in, `held` is the
row in hand, `request` what was asked.

| actions | code |
|---|---|
| `Receive`, `UserLoad`, `UserSelect`, `UserStore`, `NoUser` | `JWTMiddleware`, `Store.FindUser` |
| `MemoLoad`, `MemoSelect`, `MemoStore`, `Compose` | `Store.FindMemo`, `Store.ComposeMemo` |
| `SelectList`, `ComposeNext` | `Store.FindMemoList`: `GET /memo`, `/memo/all`, `/memo/stats` |
| `CreateMemo`, `CreateFull`, `PatchMemo`, `PatchMissing`, `DeleteMemo`, `DeleteUser` | the transactions |
| `Organize`, `Unlink` | the upsert in memo_organizer, the deletion from memo_resource |
| `MemoUncache`, `UserUncache` | the deletion of the cache entry after the commit |
| `Fail`, `Restart` | any database error; death of the process at any point |

Content, visibility and status of a memo are one value, its `body`. Who may see
a memo is therefore a free choice in `Compose`, and which rows a list selects a
free choice in `SelectList`. The rows of a list do not go through `memoCache`;
`todo` are those that wait to be composed, each of which begins with a lookup of
its creator, as every composition does. `NoUser` follows the missing `Abort`: a
`get` whose user is not found goes on as an anonymous request, a `list` too
unless it names no creator, and every other endpoint refuses. Pinning a memo
needs no ownership in the code and answers with the memo, cached or not; the
flag itself is not kept. `history` is a history variable.

### Accounts

The same style. Only role and status of a row matter. A user name denotes at
most one row, so signing in by name is signing in as a row. ADMIN gives no right
the code asks for and is one with USER. `setup` is a request of the process of
the setup command: it is not touched by `Restart`, and its cache is never read.
The tokens of whoever the middleware finds are renewed (`Renew`), archived or not.
`granted` is a history variable: the role each id was created with. `overlap`
is a rigid variable: whether requests may overlap or come one after the other,
so that one specification and one run serve both kinds of promises.

### Resources

The table, the files and the setting, each changed by steps of its own. `Fresh`
is the set of paths the template yields once at most: it puts the time and the
file name into a path, or neither, and knows no unit below the second, so other
paths may be yielded again. An upload reads the setting (`chosen`), then goes to
the database, to a file, or to a storage. `POST /resource` stores the path its
body names without looking at it (`service/resource.go:44-57`): `PostResource`
inserts a row with any path, and no bytes are uploaded for it (`NoContent`). Its
owner may delete it, and with it the file of somebody's upload; so the properties
about files are about uploads (`Written`), up to a deletion that was asked for
with any resource that names the path (`asked`). Paths no upload is ever
given - other files of the machine - are not in `Paths`. `RemoveFile` may fail
silently as the code only logs it; `DeleteAccount` is the part of `vacuum` that
concerns resources. A worker takes a request up with its first access, and a
request of one access occupies none. `used` and `asked` are history variables.

### Shortcuts

As `MemoService`, after the middleware: a request acts for anyone who has or had
an account. `GET /shortcut/:id` does not look at who asks, so that a `get` has no
user. `Save` stores the row of `RETURNING` after the commit, `Fill` the row
of a SELECT, `Uncache` follows a deletion. `DeleteUser` and `Vacuum` take rows
and leave the cache. `raced` is a history variable: the ids that were written
between another worker's read of the row and its store in the cache.

### UserSettings

Of the keys only memo-visibility is looked up one by one. An entry of the cache
is missing (`Miss`), says that there is no row (`Unset`) or holds a value.
`POST /memo` is followed from the request to the insert: default (`Load`,
`Find`, `Fill`), disable-public-memos (`Check`), role (`Enforce`), insert. A
visibility the table does not take fails there. `raced`, `seen` (what the user
had while the memo got its default) and `allowed` are history variables.

### Startup and SystemSettings

Each process stats the file, connects, creates the schema, and serves or sets
up. The driver creates the file on connecting. In prod no schema is embedded and
the history query does not parse, so every way ends in an error. A server that
serves takes posted settings. A setting is JSON that Go decodes three times: into
a typed variable by `Validate` and by the handlers that act on it, and into an
`any` with a type assertion by `GET /status`, numbers through a float64
(`Float64`); `SystemSettings` has one operator for each of them over JSON texts
told apart by what they decode to.

## What is checked

All passing runs finish within four minutes on two workers. `violation` runs
show that a statement of the repository is not true of the code.

| run | bounds | states | shows |
|---|---|---|---|
| `tables` | 2 users, 2 memos, 1 row of each other kind | 794k | one vacuum pass is exact, deletions leave no orphan and take at most one row for its own sake, nothing is inherited |
| `memo_serial` | 1 worker, 2 users, 2 memos, 2 bodies | 480k | what is served is what is stored; lists find creators; deleted users stay out; every request ends, under fairness, and its steps are bounded |
| `memo_concurrent` | 2 workers, 2 users, 1 memo, 2 bodies, without `organize`, `unlink`, `list` | 1.1M | inductive invariant, only committed rows served, only owners write, no resurrection; `MemoService` implements `StoreDB` |
| `memo_ghost_user` | 2 workers | violation | a deleted user passes the middleware |
| `accounts` | 2 workers, 2 accounts, overlapping or in turn | 1.7M | inductive invariants, hosts bounded by processes, only hosts administer; in turn one host, cache equals table, signups allowed; `Accounts` implements `StoreDB` |
| `accounts_two_hosts` | 2 workers | violation | two hosts |
| `resources` | 2 workers, 2 users, 2 resources, a repeatable and a fresh path, 1 storage | 1.8M | inductive invariant, files of uploads kept, rows go for their owner only, a resource uploaded to a fresh path has its own bytes |
| `storage_race` | 2 workers | violation | the storage in use is deleted when the setting changes in between |
| `shortcuts` | 3 workers, 2 users, 1 shortcut, 2 bodies | 913k | inductive invariant, cache wrong only after a race, only owners write, no resurrection; `Shortcuts` implements `StoreDB` |
| `user_settings` | 2 workers, a host and a regular user, 2 values | 3.0M | inductive invariant, cache wrong only after a race, defaults are recent, public memos only if allowed |
| `startup` | 1 server, 2 setup processes, all modes, 5 settings | 259k | who serves has tables; the service id stays; the status answers and tells what the handlers act on, null and big integers apart |
| `startup_crash` | 1 server, 1 setup process, dev | violation | `Open` succeeds on a file without tables |

**Why the bounds are enough to be interesting.** Every hazard named above needs
two actors, or one actor and a crash, on one row: two workers give every
interleaving of two handlers, and `Restart` and `Fail` (or `Stop`) are in every
run of a service. `shortcuts` has three workers: a reader, a writer and a vacuum.
`memo_concurrent` leaves out three endpoints (`Ops`): the steps of `organize`
past its own upsert are those of `get`, those of `unlink` before its own DELETE
those of `delete`, and neither statement touches what is modelled; a list looks
for creators as `get` does and writes nothing else. The other runs of `MemoService`
call them all, and the theorems hold for any `Ops`.
Two accounts tell owner from stranger and host from member; two ids in
`memo_serial` and `tables` show whether an id comes back and give lists of two.
The five settings of `startup` are one of each type. The ids handed out are the
only counters, bounded by `MaxUser`, `MaxMemo`, `MaxResource`, `MaxStorage`,
`MaxShortcut`, `MaxId`; with the last id given out inserts fail, as SQLite does
with the largest rowid. Symmetry is declared in the MC modules for safety runs
only, over sets whose members no action names (`memo_serial`, which checks
liveness, uses none).

**Serial and concurrent.** Some promises hold only when requests come one after
the other: `ServedIsCurrent`, `ListsFindCreators` and `DeletedUsersStayOut` of
`MemoService`, checked with one worker; `OneHostInTurn`, `CacheIsCurrent`, and
`SignupsAllowed` of `Accounts`, checked where `overlap` is false. Failures and
crashes at any step are part of it. For two of them, and for `InUseStays`, a
`violation` run shows the race. The promises that survive any interleaving are
checked with two workers or more and proved for any number; for the caches of
shortcuts and settings they say exactly which race they do not survive
(`raced`).

**Fairness.** `MemoService!FairSpec` has weak fairness on each worker's
`Handle`: the Go scheduler runs every goroutine, and the busy timeout bounds
every database access. Nothing makes a request arrive, an access fail or the
process die. No handler waits for another, so that one worker shows what can
keep a handler from its end: the loops and early returns of its own code. That
no handler waits for another, or is set back by it, is not left to this
argument: `HandlersAdvance` says so as an action property and is proved for any
number of workers. All other specifications are safety only.

**Findings.** (1) A token of a deleted user passes: `FindUser` stores in
`userCache` after `DeleteUser` dropped the entry (`service/jwt.go:170`,
`store/user.go:168`). (2) Two hosts (`setup/setup.go:56`, `service/auth.go:77`).
(3) A storage in use is deleted (`service/storage.go:160`). (4) After a crash
between the creation of the file and the commit of the schema, no later start
migrates (`store/db/db.go:103`). Met on the way, with no run of their own: mode
prod (`main.go:117`) never opens, since no prod schema is embedded and the history
query does not parse (`store/db/migration.go:42`); a setting posted as JSON null
is accepted and makes `GET /status` panic (`service/system.go:72`), which
`StatusTellsTruth` has as its premise; a storage id above 2^53 is shown rounded
(`service/system.go:90`) and used exactly (`service/resource.go:110`), which
`StatusTellsTruth` excepts.

## What is proved

Each theorem holds for any number of users, ids, workers, paths and so on, under
the named assumptions of the module: bounds are naturals, markers such as
`NoRow` are no rows, and for the counting of hosts the set of workers is finite.
TLC evaluates the assumptions in every run.

| module | theorem | argument |
|---|---|---|
| `StoreDB_proofs` | `VacuumIsAlwaysExact`, `NoOrphansAfterDeletion` | `VacuumRoots`: on any typed database `vacuum(d) = Rooted(d)`, since links are looked at after their parents and nothing refers to links |
| | `NothingInherited` | `IInv`: every owner a row names was given out already, and a new account gets a later id |
| | `OnlyCausedLosses` | `KeysUnique`: a DELETE by id meets one row; the vacuum that follows takes only rows that miss an ancestor |
| `MemoService_proofs` | `CommittedOnly`, `NeverResurrected`, `OwnersOnly` | see below |
| | `TurnKept`, `ServedInTurn`, `ListsInTurn`, `DeletedStayOutInTurn` | for one worker, see below |
| | `HandlersBounded` | see below |
| `MemoTables_proofs`, `Shortcuts_proofs`, `UserSettings_proofs`, `Accounts_proofs` | `ImplementsTables` | see below |
| `Accounts_proofs` | `HostsAdminister` | roles never change and ids are not reused, so a stale row shows the right role |
| | `HostsAreBounded` | hosts and founders are counted together: a founder who inserts leaves the founders, and nobody becomes one while a host is there |
| | `TurnKept`, `CacheKeptCurrent`, `OneHostAtATime` | `TurnInv`: without overlap one worker is busy, and what it is about to replace or drop is the only stale entry |
| | `SignupsAllowedInTurn` | `PermitInv`: what a handler past its check found there stays true while it alone is busy |
| `Resources_proofs` | `FilesAreKept`, `OnlyOwnersDelete`, `UploadsApart`, `OwnContentKept` | see below |
| `Shortcuts_proofs` | `StaleAfterRaceOnly`, `OwnersOnly`, `NeverResurrected` | rows are issued as in `MemoService`, and a row about to be stored agrees with the table unless its id is in `raced` |
| `UserSettings_proofs` | `StaleAfterRaceOnly`, `RecentDefaults`, `PublicWhenAllowed` | `FreshInHand`: what is about to be stored agrees with the table without a race; `SeenCovers`: what a request may find as the default was seen; `AllowedPast`: a handler past the check was allowed |
| `Startup_proofs` | `TablesServed`, `ServiceIdKept` | past the lookup of the id the tables are known to exist and never go; one server alone finds or makes the id |
| | `StatusIsTrue` | only what `Validate` lets through is stored, and of that the type assertions hold but for null, and values are shown as decoded but for big integers |

Type correctness is a conjunct of each `IInv` and part of the theorem
`Invariance` of each module; for `Startup` it is `TypeCorrect`.

*MemoService.* The properties are not inductive: the owner check may have been
made on a row that is gone. `IInv` adds that each row version in the table, in
the cache or in hand was *issued*: its id was given out, it is in the history of
that id, and if the memo still exists its creator is the one the version names.
That outlives the memo because an id is never reused and a creator never
changes. `Knows` says for each program point which request and row are in hand:
a handler about to patch or delete holds a version whose creator is the
requester, hence the row it writes, if there is one, is the requester's.

*One request after the other.* `OneWorker` says that there is one worker. Then
`TurnInv` is inductive on top of `IInv`: every memo of the table has its creator;
a cached user is a user or about to be dropped; a cached memo is the row of the
table, or its creator is gone, or it is about to be replaced or dropped; and what
the handler has in hand is current, except a cached memo whose creator it is about
to look for in vain. The last part is what keeps the memos of a deleted account
from being served, since `DeleteUser` leaves them in `memoCache`. That every memo
has its creator also means that the vacuum of a deletion takes nothing else, and
that no list meets a memo it cannot compose.

*Resources.* `IInv` adds that an upload with a file on disk keeps it until a
deletion asks for that path, that who removes a file has found a row of its own
that names it, and that row ids are bounded by `lastResource`, so that no later
row takes the id a deletion is about to use. `OwnContent` is about uploads to the
paths in `Fresh` and needs `OwnInv`: such a path is claimed by one upload, or by
the row it became, and the claim passes from the one to the other with the
insert. A posted row that names the path claims nothing; what it can do is have
the path asked for, and from then on nothing is promised about it.

*Every handler comes to its end.* `StepsLeft` bounds the accesses a handler may
still make (those that are steps of the model: settings read by `POST /memo`,
the activity it writes and the links it upserts are not): those of the
`FindUser` or `ComposeMemo` call it is in (`InCall`), those of the rest of the
handler (`After`, `Outside`), and four for each row of its list that waits.
`HandlersAdvance` says that a request starts with at most `23 + 4 * MaxMemo`,
that every step of its own handler, failing or not, leaves fewer, and that no
step of another handler leaves more. So the loops of the code are bounded - a
lookup is made once, a save composes the memo twice, a list composes each row
once - and nothing a handler reads, from tables or caches that others change
meanwhile, can send it back. This is the argument behind `EveryRequestEnds` with
the fairness taken out: under weak fairness of `Handle`, and because some step
of `Handle` is enabled at each place, the bound runs down to zero. The proof
needs `IInv` for what a handler at each place is about, and `TodoInv`: the list
of a worker is finite, and empty between requests.

*Refinement.* Each mapping forgets what rows say and keeps ids and owners.
`MemoService`: `Image` maps the table memo. On the two tables `vacuum` is
`vacuumMemo` (`VacuumOfSkeleton`); an UPDATE keeps id and creator and is a stutter;
a new memo needs the id after the last one to be free, which `IInv` says; all
other steps leave the tables alone. `Shortcuts` and `UserSettings` follow the
same line with `vacuumShortcut` and `vacuumUserSetting`; there `POST
/system/vacuum` is a step as well, and an upsert is the replacement of the row
with the same user and key. In `Accounts` the table user is the only one: an
insert takes the id after the last one given out, and with no dependent rows the
vacuum of a deletion takes nothing. TLC checks the refinement of `MemoService`,
`Shortcuts` and `Accounts` in their runs; for `UserSettings`, whose run is the
largest, it is proved only. The theorems about `StoreDB` that hold in every
behaviour - no orphans after a deletion, no inheritance, no collateral loss - are
thereby about the tables of these modules. `Resources` has no such mapping: it
keeps no table of accounts, and of a deletion only what happens to resources.

*How proofs are laid out.* For each module a lemma says what a step of one
worker must respect (`WorkerStep`), one lemma per action shows that it does, and
`StepInv` combines them. Properties of steps are proved from `IInv /\ [Next]_vars`.

## Only model-checked

Liveness (`EveryRequestEnds`): fairness and ENABLED are out of the prover's
reach. What it rests on besides them, the bound of `HandlersAdvance`, is a
theorem, and so is every other property of a passing run.

## Not modelled

- Texts: names, passwords, contents, JSON beyond its type, cookies, tokens,
  headers, logging. Hence the extraction of tags from contents (a regular
  expression, `service/tag.go`), the age of cookies (`service/jwt.go:87`), the
  comparison of versions and the size limits are not in the model.
- The pinned flag. It is a column of memo_organizer, joined when a memo is
  selected; a cached memo has the flag it had when it was selected, one just
  saved has none (`store/memo.go:98`). It orders and filters lists only, which read
  the table, and nothing in code or docs promises more.
- The filters of lists, and endpoints that read only: `GET /shortcut`,
  `GET /user`, streaming of resources, RSS-like pages. Patching a resource, which
  changes its name or public id only.
- When tokens expire: a user who has one is taken to come back before it does.
- Files that no upload was given: a resource may be posted with any path, and
  deleting it removes whatever is there.
- POST of a link between memo and resource in `MemoService`: it touches neither
  cache nor the tables there; the row is in `StoreDB`.
- Activity log (appended, never read), identity providers (`store/idp.go`: no
  route reaches it), plugins (calls to the network without state).
- The timeout of 30 s: the client gets 408, the handler runs on. In the model a
  client may simply use another worker meanwhile.
- Where S3 puts its bytes.
