# Formal models of secret-sauce

TLA+ models of `sauce`, a command-line secret manager: a vault directory of
`age`-encrypted files shared by CLI processes, a background daemon and a GUI,
and by the people whose keys are in `.vault_recipients`. The models are checked
with TLC on small instances, and the central results are proved with TLAPS for
all instances.

    tlc -config MCVault.cfg MCVault             # any run of PROJECT.json
    tlapm VaultProofs.tla                       # or any other module ending in Proofs

## 1. Inventory

| part | state | operations | talks to |
|---|---|---|---|
| vault storage (`internal/vault`) | `*.age` files, `.vault_recipients` | Init, WriteSecret, ReadSecret, ReadAllSecrets, DeleteSecret, AppendRecipient, ReadRecipients | file system |
| vault lock (`lock.go`) | flock on `vault.lock` | AcquireShared, AcquireExclusive, unlock | kernel |
| local service (`service/local.go`) | none | list, read, read all, write, delete, public key | keyring, lock, storage |
| share (`cmd/share.go`) | none | add, ls, pubkey | lock, storage, keyring |
| init (`cmd/init.go`) | keyring entry, recipients file | init | keyring, storage |
| daemon (`internal/daemon`) | name -> UUID index with the directory's mtime; listener, idle timer | one handler goroutine per connection: ping, list, read, read all, write, delete, public key, shutdown | local service, storage directly |
| service resolution (`service_resolver.go`, `guisvc`) | socket path | ping, spawn, wait | daemon |
| IPC client (`ipc_client.go`) | none | one connection per call | daemon |
| set, edit (`cmd/set.go`, `edit.go`) | what was read, the editor's file | make data of arguments; read, edit, write back | a service, an editor |
| run (`cmd/run.go`) | fetched secrets, the child's environment and files | fetch, inject, start | a service, the child |
| import (`cmd/import.go`) | the list of writes, a semaphore, two counters | read an archive, probe write, bounded writes | a service |
| GUI (`gui/`) | service chosen at start; the frontend's names, cache of decrypted secrets, loading flags, dialog | list, show, edit, create, delete | a service |

What is hard, and what makes each part correct:

* **Storage and lock.** A secret's name is inside its encrypted file, so every
  operation scans and decrypts. A missed match makes a second file of the name.
  `share add` appends the recipient first and then rewrites every secret in
  concurrent goroutines; any of them can fail, and the process can die between
  any two of them. Correct means: one file per name, every admitted user can
  read every secret, nobody loses access, and all requests behave as if done
  at one moment.
* **Daemon index.** A cache that is checked before the lock, rebuilt from a
  directory that changes meanwhile, used after the lock, and invalidated by
  other handlers. Correct means: an answer says only what was so at some moment
  of the request, and a file is never taken for another secret's.
* **Daemon and lock.** The daemon's delete does not take `vault.lock`.
* **Init.** Check, keyring and recipients file are separate steps.
* **Lifecycle.** Daemons race for one socket path; idle timeout and shutdown
  meet requests in flight; a killed daemon leaves its socket file behind.
* **Commands.** Several calls make one command, and others write between them;
  each call may fail, through the daemon even after it took effect. Correct
  means: values with `=` signs and lines arrive as they were meant, a child sees
  each secret as of one moment, an import loses and miscounts nothing, and
  every command ends.
* **GUI.** Every handler is cut in two at its `await`; what follows runs on
  whatever the state is by then. Correct means: a dialog saves its own fields
  under its own name, no value from before a save is shown after it, and no
  row or dialog waits for a call that is not there.

`PROJECT.json` lists each hazard at its line with the properties that cover it.

## 2. Modules

| module | models | role |
|---|---|---|
| `AtomicStore` | what the vault promises | abstract specification |
| `Vault` | `internal/vault`, `service/local.go`, `cmd/share.go` | detailed specification |
| `VaultProofs` | | theorems about `Vault` |
| `VaultRefinementProofs` | | `Vault` implements `AtomicStore` |
| `VaultDaemon` | `Vault` with the daemon's lock-free delete | composition |
| `VaultDaemonProofs` | | theorems about `VaultDaemon` |
| `DaemonIndex` | index and handlers of `internal/daemon`, with CLI processes beside | component |
| `DaemonIndexProofs` | | theorems about `DaemonIndex` |
| `VaultInit` | `cmd/init.go` | component |
| `DaemonLifecycle` | `Server.Run` and `Shutdown`, `service_resolver.go`, `guisvc`, `cmd/daemon.go`, `ipc_client.go` | component |
| `DaemonLifecycleProofs` | | theorems about `DaemonLifecycle` |
| `CommandVault` | the vault as one command sees it; `key=value` texts | base of the commands |
| `EditCommand` | `cmd/set.go`, `cmd/edit.go` | component |
| `RunCommand` | `cmd/run.go`, `internal/manifest` | component |
| `ImportItems` | what `cmd/import.go` makes of each item | operators, no state |
| `ImportCommand` | the writes of `cmd/import.go` | component |
| `Commands` | one command of any kind beside other processes | composition |
| `FieldsProofs` | | what pairs, lines and folds over fields compute |
| `CommandsProofs` | | theorems about `Commands` |
| `GuiFrontend` | `App.svelte` and the calls of `gui/app.go` | component |
| `GuiFrontendProofs` | | theorems about `GuiFrontend` |
| `MCVault`, `MCVaultDaemon`, `MCDaemonIndex`, `MCDaemonLifecycle`, `MCCommands`, `MCGuiFrontend` | | instances for TLC |

### Vault

A process serves one request at a time: write, read, delete, read all (also
`ListSecretNames`), or share. `pc` follows the code from lock to unlock; `op`
holds the request with the user (`by`) whose key is in the process's keyring.

| code | action |
|---|---|
| service method called; identity loaded (failure: `Fails` at the lock) | `Begin` |
| `AcquireExclusive`, `AcquireShared` | the same |
| `ReadRecipients` in `LocalVaultService.WriteSecret` | `PlanWrite` |
| `vault.WriteSecret`: the scan; `encryptToFile` to its rename; an error | `WriteSecretScan`, `RenameSecret`, `WriteSecretFails` |
| `g.Wait()` in share add, or the return of the one write | `WritesDone` |
| `vault.ReadSecret`, the scan of `vault.DeleteSecret`, its `os.Remove` | `ReadSecret`, `FindDoomed`, `RemoveSecret`, `NotFound` |
| `AppendRecipient` and the `ReadRecipients` after it | `AppendRecipient` |
| `vault.ReadAllSecrets`: glob, a goroutine per file, the result | `Glob`, `DecryptOne`, `DecryptFails`, `ReadAllDone`, `PlanReencrypt` |
| error returns; unlock and return; death of the process | `Fails`, `Return`, `Crash` |

A file is its name, payload and the users it is encrypted to. File names are
numbers because Glob returns them in order and the first match counts. The
scan of one lookup is one step: under the lock only siblings of a share add
change files meanwhile, and a rename leaves a file's name as it was. Temp files
are not matched by `*.age` and are left out, with the litter a crash leaves.
`admitted` is history: the founders and those whose `share add` was reported
done. Users in `Impatient` act before that; opening a file of `Flaky` may fail
for no lasting reason.

`Store == INSTANCE AtomicStore` maps the files to a map from names to data
(`contents`) and what callers have been told to results (`answers`). A
write takes effect at its rename, a delete at its remove, a read at its lookup,
a read of all when the last file is decrypted: nothing can have changed since
the first. `share add` never changes the map, finished or not.

### VaultDaemon

`OpDelete` in `server.go` resolves the name in the index and removes the file
while any process may hold the lock: `DaemonDelete`, enabled for any file at any
time. `NoResurrection`, that a delete which was answered is final, fails; what is
left of `Vault`'s promises is proved in `VaultDaemonProofs`.

### DaemonIndex

Each handler goes through `refreshIndexIfStale` (stat; check under the read
lock; double check, key and glob under the write lock; one goroutine per file;
install) and then answers a list, or looks the entry up and reads or removes
the file after the lock. A write calls the local service and then sets the time
stamp to zero. A write or delete by the CLI, and the service's write, are
single steps, which `Vault` justifies (`AtomicVault`); that names are unique in
a directory is `UniqueNames` there. Opening or decrypting a file of `Flaky` may
fail at any time, or always: a rebuild skips such a file and is stamped all the
same, and a write takes it for another secret's and makes a second file. What is
claimed of the index is therefore claimed up to `Missing` names, those whose every
file is in `Flaky`: they may be denied although they are there, for as long as the
directory does not change. All other names, and whatever the index does say, are
held to the full claim. Time is a counter. `Coarse` says whose
changes may carry the mtime of an earlier change: kernels stamp files with the
time of the last timer tick. `could` is history: which answers have been right
at some moment of the request, where a change the daemon has made and not yet
answered may count either way. `Restart` is any end of the daemon: handlers and
index go.

### VaultInit

Processes of one or more users run `init`; a process's key is the process
itself. Writing the recipients file is two steps (truncate, write). A process that
finds a vault is refused (`refused`), one whose write fails has failed (`failed`);
the violation is of processes that have all succeeded.

### DaemonLifecycle

A socket is named by the daemon that bound it; `path` is the daemon whose socket
the file names, if any. `dpc` follows `Server.Run`: remove, bind, listen, chmod,
accept, and out by the deferred close and remove, or by the error return after
chmod (`abort`). Every one of these works on the path, whoever's socket it names
by then. Go's listener unlinks the path when it closes. `stopping` says that the
idle timer or a shutdown request has called `Shutdown`; the process does not wait
for it, nor for its handlers. `cpc` follows a client: ping, spawn, wait, and
then any number of calls, a connection each. `daemon start` and `daemon stop`
are requests of CLI clients. A client's connection is queued, being served,
answered, or lost when the listener or the process ends; answered data outlives
the daemon. The kernel's part is marked external. Time is not modelled: a
deadline may pass at any moment and the idle timer may fire even while handlers
work, since nothing but a new request resets it. The GUI's connection is
forgotten when its deadline passes, and what the handler then does is left out.

### CommandVault and the commands

A behaviour of `Commands` is one command from its start to its end. `secrets`
changes at single moments, one per call, which `Vault` justifies (`AtomicVault`);
`OtherWrites` happens between any two of them, and `before` and `others` remember
what was there. `via` is the service that was resolved: a call to the daemon may
take effect and yet fail. A text is lines, a line is the parts between its `=`
signs; that is all the parsing of `set` and `edit` can tell apart, but for white
space: `TrimLeft` and `TrimRight` say what a part is without the white space at its
ends, and `TrimSpace` applies them where `strings.TrimSpace` does, to the first and
the last line that are not blank. Where the code
walks a list and builds a map, the model says which element counts (`LastOf`) or
folds a recursive function over the list (`Format`, `Puts`, `PutAll`): every field
of an item becomes a put, a key with a value, and `Put` is the one rule for keys
that are taken.

| code | action or operator |
|---|---|
| `set`: arguments, pairs, the write and its errors | `BadArgs`, `SetData`, `Set`, `SetFails` |
| `edit`: read and temp file; not found; any error before or of the editor | `ReadForEdit`, `StartEmpty`, `EditFails` |
| the lines shown; the editor; the text trimmed, the lines parsed; write back | `Format`, `EditorSaves`, `TrimSpace`, `EditedLines`, `EditedData`, `SaveEdit`, `SaveFails` |
| `run`: `secretRef`, the set of names, one read per name | `RefName`, `RefField`, `NameSet`, `Fetch`, `FetchFails` |
| environment; one unlinked file per variable; `exec.Cmd` | `InjectEnv`, `InjectFile`, `InjectFails`, `Spawn` |
| `import`: base key, fields and suffixes, one value, documents | `BaseKey`, `Puts`, `Put`, `MapFields`, `OneValue`, `DocumentKey`, `Tasks` |
| `resolveConcurrency`; the probe write | `ResolveConcurrency`, `Probe`, `NothingToProbe` |
| `runBoundedWrites`: `sem <-`, a goroutine, `wg.Wait` and the totals | `StartWrite`, `FinishWrite`, `ImportEnds` |

What a goroutine of the pool does is one step: its call takes effect at one
moment and the counter has a mutex. `tasks` is the slice of writes, indexed by
the place of the item in the export, and does not change; `todo` are the places
the loop has not come to, `writing` those of the goroutines. Behaviours of the code that no property is
about, because nothing promises otherwise:

* a change made by others while the editor is open is overwritten;
* an edit of a new name starts empty with the local service only: through the
  daemon "not found" is an error like any other;
* `set` replaces the data of a secret: the fields it is not given are gone, as
  `vault.go` documents and the help in the GUI does not (`SetStoresWhatIsMeant`,
  and a finding);
* the white space at the end of the value that `edit` shows last is lost when a map is
  saved untouched (`UntouchedEditKeeps` says exactly that much), a key with a `=`
  of its own is cut at it, and white space before the first key goes;
* a value of several lines, shown as a line of a map, is refused or split when
  saved untouched, and as environment or file every other field goes
  (`Carried` says what the format can hold);
* a field whose own name looks like a suffixed one, or `notes`, may be
  overwritten (`Lookalike`; `NoValueLost` leaves such items out), a field whose
  name normalises to nothing is not stored, and of two items with one key one is
  lost.

### GuiFrontend

A handler runs without interruption up to an `await`: the click is one action
(`Toggle`, `OpenEdit`, `SubmitCreate`, `RemoveSecret`, `Refresh`), the call is
served by `App` in one (`ListSecretNames`, `GetSecret`, `SetSecret`,
`DeleteSecret`, or `CallFails`), and what follows the `await` is a third
(`ListAnswered`, `GetAnswered`, `GetFailed`, `SetAnswered`, `SetFailed`,
`DeleteAnswered`). A slot of `calls` holds one call from click to answer. Wails
runs each call in a goroutine of its own, and `App` has a mutex but no queue, so
calls are served and answered in any order. The dialog's backdrop keeps the mouse
from the rest of the window, but neither answers nor the keyboard, so that every
handler may run while a dialog is open. `submitCreate` trims the name, of an edit
too: `Trimmed` says what is left of each name, and `EditKeepsName` that a secret's
fields are saved under that. For a name with white space at its ends, which the
command line can make, this is another name (a finding). Of values only their age is kept, of a
form's fields only whose they are; what `submitCreate` trims of the names of fields, and its
messages, are left out. In `SetAnswered` and `ListAnswered` the code
asks which dialog is open now, not which one the save came from; so does the
model: a creation may be taken for an edit and another secret's dialog closed.
`NoOldValueShown` excepts an answer of a fetch still under way when the save was
answered, and `CreatedIsListed` a creation taken for an edit: the code guards
against neither.

## 3. Runs

| run | instance | shows |
|---|---|---|
| `vault` | 2 processes, founder and one more user, 2 names, 2 payloads, 3 files | `UniqueNames`, `AdmittedReadsAll`, `NoAccessLost`, `ShareKeepsValues`, `InductiveInv`, and that `Vault` implements `AtomicStore` |
| `vault_live` | 2 processes, 1 name, 2 files, an impatient user, a flaky file | `LockInv`, `NoAccessLost`, `LockReleased` |
| `vault_flaky` | as `vault`, 1 name, a flaky file | violation: a second file of a name |
| `daemon_delete_lost` | as `vault`, 1 payload, with `DaemonDelete` | violation: a deleted secret comes back |
| `index` | 2 handlers, 1 directory, 2 names, 2 files, one of them flaky, 3 ticks, daemon changes coarse | `IndexExact`, `AnswersCurrent`, `RightFile` |
| `index_coarse` | as `index`, CLI changes coarse too | violation: the change stays invisible |
| `index_two_vaults` | as `index`, 2 directories, nothing coarse | violation: answers of the other vault |
| `init_race` | 2 processes of one user | violation: the vault does not open |
| `lifecycle` | 2 daemons, a CLI client, the GUI | `NoStaleSocket`, `OrphansEnd`, `NobodyWaitsForever` |
| `lifecycle_stale` | the same, safety only | violation: the wait ends at a dead daemon's socket |
| `commands` | one command, 2 secrets, 3 values, 1 change by others (`MaxOthers`), 2 manifests, 4 exports | `ChildSeesOneMoment`, `ImportCounts`, `ImportKeeps`, `NoValueLost`, `SetStoresWhatIsMeant`, `UntouchedEditKeeps`, `CommandEnds` |
| `gui` | 2 secrets, `db` and ` db`, 2 calls under way (`Slots`) | `EditKeepsName`, `NoOldValueShown`, `CreatedIsListed`, `WaitsForOneCall` |

Why these bounds are enough for the cases meant. Two processes give every pair
of operations with every lock, and a crash of one beside the other. Two names
let a share add have two concurrent rewrites and a read of all see a mix. Three
files leave a write that finds nothing a choice of destination, below and above
the other name's file. Two payloads tell an old value from a new one. In the
index two handlers are enough for one to rebuild while the other stats, waits,
invalidates or uses an old entry; two files let a name be removed and set
again; three ticks allow two changes by the CLI around a rebuild, and any
number of coarse ones by the daemon. Two daemons can take the path from each
other at every point, and one CLI client can start both, as its wait may time
out or it may run `daemon start`, while the GUI calls either. Symmetry is used for processes, names,
payloads and random file names in safety runs only, and not for ordered files
or users. Each module's bound is in its constants: `UUIDs` and `MaxClock`.

In `commands` the values have an `=` inside and at the end, several lines and
several fields; a `set` of a map gives its pairs out of order and one of them twice; one manifest takes two fields of one secret and one of another,
in variables and in files, and one a field that not every value has; one change
by others may fall between any two steps, and a second one of the same secret
would only bring another value of the same set. The exports have two items of
one key, a field name used five times, a name that looks like a suffixed one, and
items of each category with and without a usable value; one has four tasks, a
probe and three for a pool of one or two, so that the pool is full. In `gui` a
second call can be begun, served and answered at any point of the first; with
three slots the case of a save, its list and a fetch is possible as well.
Two names with three slots, or three names, are too many states for a run; that
two names are trimmed to one is the case where a save meets another secret's cache
entry, and names that have nothing to do with each other are left to the proofs.
In `commands` values end in white space, and one typed text begins and ends with
lines of white space and has a key with white space before it: `TrimSpace` has work.

Fairness: `FairSpec` assumes only that a process that can take its next step
takes one (`WF_vars(Step(p))`): the scheduler. Requests, crashes and errors are
not forced, but an error return counts as a step. Nothing says who gets the
lock: flock promises no order, so a writer may wait for ever while readers keep
coming, and no property claims otherwise. `LockReleased` says what the code
must contribute: nobody keeps the lock.

In `DaemonLifecycle` the fairness is that of goroutines and of the system: `Run`,
each accept, each handler and each waiting client go on while they can. That a
handler ends rests on the vault lock being free at some time. The idle timer
must fire only if, from some point on, nobody is connected to the daemon: busy
daemons are never forced to end, and the properties do not need it.

`Commands` assumes that a command that can take a step takes one, and that a
call to the service returns, well or not: that is the scheduler, and for the
calls what `LockReleased` and `NobodyWaitsForever` say. A person is not forced to
leave the editor. `GuiFrontend` has no fairness: what matters is who waits for
what (`WaitsForOneCall`), which is a safety property.

Disagreements between code and documentation are under `findings` in `PROJECT.json`.
Two of them are no counterexamples: the properties `SetStoresWhatIsMeant` and
`EditKeepsName` hold, and what they say is not what the help in the GUI says of `set`
and a comment in `App.svelte` of edits.

## 4. Proofs

`VaultProofs` proves, for any sets of processes, users, names, payloads and
files:

* `LockInvariant`: `LockInv` (types, `LockDiscipline`, `OpShape`,
  `RecipientsCurrent`) is an invariant, with any impatient users and flaky
  files. `LockInv` is inductive: locks exclude, the code reaches each point
  with its lock, and the recipients change only under the exclusive lock, so a
  writer's copy is current until its rename.
* `AccessNeverLost`: from it, `NoAccessLost`.
* `VaultInvariant`: with `Impatient = {}` and `Flaky = {}` (`Calm`),
  `InductiveInv` is an invariant. Uniqueness needs access (a scan must be able
  to read the file of its name), access needs uniqueness (a share add rewrites
  one file per name), and both need where calls under way will write
  (`Destinations`) and what a share add has still to do (`Coverage`).
* `NamesUnique`, `AdmittedCanRead`, `TypeCorrect` follow.

The assumptions are those of `Vault`: founders and impatient users are users,
files are numbers, `None` is none of the values. `Calm` is what users and the
system must contribute; the run `vault_flaky` shows that it is needed.

`VaultRefinementProofs` proves under `Calm` that `Vault` implements
`AtomicStore` (`VaultIsAtomic`), for any number of processes: every step is a
step of the store or a stutter. The rename, the removal, the finding of a read's
file and the last decryption of a read of all are where requests take effect.
A writer's and a reader's steps before that moment must still be true at it.
`RefinementInv` says so on top of `InductiveInv`: a request is undecided until
then (`Unanswered`), what a reader has gathered is what the files still say and
nothing it has passed is missing (`Gathered`), a delete's file is still that of
its name (`Doomed`), and a share add writes back what is there (`Writing`). It
holds because one who changes a name's data holds the lock alone. `UniqueNames` is
what makes `contents` a map at all, and a lookup that could not open the file of its
name would answer that there is none: hence `Calm`.

`VaultDaemonProofs` proves what the daemon's delete, which takes no lock, leaves of
all this. For any number of such deletes at any moment:

* `DaemonLockInvariant`, `DaemonLosesNoAccess`: with no hypothesis, locks and
  recipients are in order and no overwrite takes a secret from anybody.
* `DaemonVaultInvariant`, and from it `DaemonNamesUnique` and
  `DaemonAdmittedCanRead`, under `Calm`: a file that goes between a scan and a
  rename gives no name a second file, and what comes back is readable by all. Every
  part of `InductiveInv` says something of the files there are, so that one file
  less is one thing less to hold.
* `ShareKeepsWhatIsThere` (`ShareKeepsValues`), under `Calm`: from its first
  decryption to its last write a share add meets no other value of a secret than its
  own. So the harm of the missing lock is the one `daemon_delete_lost` shows, a
  deleted secret that comes back, and never an old value over a newer one. Its
  invariant `Fits` is weaker than `Underway`: a share add may know secrets that are
  gone. `ShareAddIsFaithful` is the same without the deletes, as the run `vault` has it.

Atomicity does not survive: a read of all that has listed a file fails when it goes,
and the write of a share add brings a value back that the store no longer has.

`DaemonIndexProofs` proves for any names, files, requests and number of handlers,
that is of goroutines that rebuild, invalidate and use one index:

* `IndexTypeCorrect`, with no hypothesis. Nothing is assumed of `Flaky` but that it is
  a set of files: with an empty one the properties are exact, with all files in it
  they say nothing of what is missing, only of what is answered.
* `FilesAreRight` (`RightFile`), with one vault directory, whatever the clock: an
  entry, once right, can become stale, but a UUID is never given to another name.
* `IndexIsExact` and `AnswersAreCurrent` (`IndexExact`, `AnswersCurrent`), with one
  directory (`OneDirectory`) and time stamps of CLI changes that are later than
  those before (`PreciseCli`). The runs `index_two_vaults` and `index_coarse`
  show that neither can be left out.

The invariant `IndexInv` has two layers. `IndexFresh` and `BuildFresh` say of the
index, and of a rebuild under way, that as long as the directory has not changed
since their time stamp they miss only changes the daemon itself is about to
answer, and so to invalidate: this is where the stat before the glob counts.
`IndexSaid` and `BuildSaid` say of every handler that relies on the index, or will
rely on the rebuild it waits for, that each answer it may give was right at some
moment since its request: freshness is checked once, and the entry used later.

`CommandsProofs` proves for any secrets, manifests, exports, limits and number of
processors:

* `ChildIsConsistent` (`ChildSeesOneMoment`). What `run` has fetched is what the
  secret was at that moment, and since each name is fetched once (`FetchedRight`)
  variables (`EnvRight`) and files (`FilesRight`) come from one moment. `FilesRight`
  also has the numbers: whatever the order of the range over the map, the
  descriptor of a variable is that of the file made for it.
* `ImportIsCounted` (`ImportCounts`): each place of the list is not begun, under
  way, or counted once (`CountsRight`, with cardinalities).
* `ImportLosesNothing` (`ImportKeeps`): as long as `skipped` is the number of
  unusable items, the names of all finished places hold what the list or another
  process wrote (`WritesKept`). A failed write raises `skipped` for ever, so the
  premise at the end is a statement about the whole run.
* `CommandsTypeCorrect`: among the types, the bound of the semaphore.
* `SetIsExact` (`SetStoresWhatIsMeant`) and `UntouchedEditIsExact`
  (`UntouchedEditKeeps`): what is stored is what the pairs, or the lines shown and
  trimmed, say. Keys have no `=` sign (`PlainKeys`); an untouched map has fields of one
  line and no white space before its first key (`Carried`), and comes back but for the
  white space at the end of the value shown last.
  The invariant adds to the others that what the editor was given is the format of
  what was read (`EditInv`).
* `ImportKeepsValues` (`NoValueLost`): in every state, the task of every item stored as
  a map has all the values wanted of it, `Lookalike` items left out.

The last three rest on `FieldsProofs`, about the operators:

* `PairIsCut`: a value with any number of lines and `=` signs, written as key=value,
  is read again as it was. `PairsAreData` lifts it to sets of pairs: pairs that say a
  map are read as that map, in whatever order and however often they are given.
* `FormatLines`: the lines of `edit` are one pair for each field, so with values of
  one line they are read as the data they show. `TrimOfPair`: the line of a field
  without the white space at its end is that of the same key and the value without
  the white space at its end; it keeps its `=` sign, so no line shown is dropped.
* `FieldsKeepValues`: after any number of puts each value put is in the map. A put
  goes to its own key, or, when that is taken, to a suffixed one with the counter; a
  suffixed key that is there has a smaller number, so it is never this one.

These are inductions over lists. Induction theorems with an operator as parameter
cannot be used here, so `SetInduction` is proved from the least element of a set of
numbers, and each fold is shown to exist, and to satisfy its recursion, by applying
it to the set of the lengths up to which a fold exists.

Assumed are: references, keys and requested names are names, exports, arguments and
the parts of items are sequences, limits are integers, there is a processor, values
are texts, every field has a place in `sort.Strings`' order (`FieldOrderAssumption`),
and the number at the end of a suffixed key can be read off it (`WellFormed`): keys
end in `_` and a decimal number. TLC evaluates all of them on the instance.

`DaemonLifecycleProofs` proves for any daemons and clients `SocketNeverStale`:
`NoStaleSocket` is inductive with the types, because a listener unlinks the path
before it closes and a killed daemon is remembered as such.

`GuiFrontendProofs` proves all properties of the run `gui` for any secrets and any
number of calls under way, so that the two slots of the run are no limit. Its
`Inv` adds to the properties that saves and fetches name a secret (`CallShape`),
that a dialog's name and fields come together (`FormsKept`), that whatever is old
awaits the answer of a save (`OldAwaited`), and where a saved name is between the
save and the end of its list (`SavedStays`). The last needs `WaitsForOneCall`: a
second save of the name in that time could take it from `removed`. Assumed is
only that `None` is none of the values, and that `Trimmed` is a function from names
to names or `None` that changes nothing the second time.

Only model-checked: the liveness properties (`LockReleased`, `OrphansEnd`,
`NobodyWaitsForever`, `CommandEnds`), which are out of the prover's reach, and the
violation runs, where a counterexample is the result. Every other invariant and
action property of the passing runs is stated by a theorem.

## 5. Not modelled

Encryption and the JSON form (a file is readable by those it is encrypted to),
tags, printing, argument parsing, configuration, the Windows lock, power loss
(the directory is not synced after a rename), `share ls` and `share pubkey`
(they change nothing). Of the commands: the dialog of `set -i`, reading `sauce.toml` and the archive, the characters
`normalizeKey` maps (`Normal` is its graph on the strings of the instance). Of the
GUI: search, reveal, copy, adding and removing fields, the names of fields and their
trimming, the two dialogs without calls, and `ListSecrets`.

## 6. Plan

1. Done: the vault (`AtomicStore`, `Vault`, `VaultProofs`, `VaultDaemon`), the
   daemon (`DaemonIndex`, `DaemonLifecycle`, `DaemonLifecycleProofs`), `VaultInit`,
   the commands (`CommandVault` to `Commands`) and the GUI (`GuiFrontend`,
   `GuiFrontendProofs`).
2. Done: proofs of every invariant and action property that the passing runs check;
   the refinement of `AtomicStore`; what holds of it beside the daemon's deletes.
3. Open: which parts of `VaultIsAtomic` hold without `Calm` (impatient users and flaky
   files); an abstract store whose deletes may be undone, for `VaultDaemon` to
   implement.
