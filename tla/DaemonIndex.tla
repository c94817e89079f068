---------------------------- MODULE DaemonIndex ----------------------------
(***************************************************************************)
(* The daemon's name -> UUID index and the handler goroutines that refresh,*)
(* use and invalidate it, while CLI processes change the vault beside them.*)
(* The index is fresh as long as the directory's mtime is no later than    *)
(* the one it was built for.                                               *)
(*                                                                         *)
(* A write or delete of the CLI, and LocalVaultService.WriteSecret inside  *)
(* the daemon, are one step here: module Vault shows that they behave so.  *)
(* The daemon's own delete takes no lock and is modelled as it is.  UUIDs  *)
(* are random, so a file name is never used twice.  Opening or decrypting  *)
(* a file of Flaky may fail at any time, or always: a rebuild leaves it    *)
(* out and a write takes it for another secret's.                          *)
(***************************************************************************)
EXTENDS Naturals

CONSTANTS
    Handlers,   \* goroutines serving one connection each
    Dirs,       \* vault directories clients ask about
    Names, UUIDs,
    Flaky,      \* files that may fail to open or to be decrypted
    Unborn, Gone, None,
    Coarse,     \* whose changes may get the mtime of an earlier change:
                \* a subset of {"daemon", "cli"}
    MaxClock    \* bound on the number of ticks

Requests == [op : {"list"}, dir : Dirs]
       \cup [op : {"read", "write", "delete"}, dir : Dirs, name : Names]

ASSUME SentinelsAssumption ==
    /\ {Unborn, Gone} \cap Names = {} /\ Unborn # Gone
    /\ None \notin UUIDs /\ None \notin Handlers /\ None \notin Requests
ASSUME FlakyAssumption == Flaky \subseteq UUIDs
ASSUME ClockAssumption == MaxClock \in Nat \ {0}

Replies == {"none", "ok", "notfound", "error"}

VARIABLES
    file,       \* dir -> UUID -> the name inside, Unborn or Gone
    mtime,      \* dir -> time of its last change
    clock,      \* the file system's clock
    entries,    \* s.index.entries: name -> UUID, or None
    dirModTime, \* s.index.dirModTime; 0 is the zero time
    builder,    \* the handler that holds s.index.mu for writing, or None
    pc,         \* where each handler is
    req,        \* its request
    seen,       \* currentMtime, as it stat'ed it
    scan,       \* the files of its rebuild still to be decrypted
    new,        \* newEntries of its rebuild
    uuid,       \* the entry it looked up
    reply,      \* its answer
    names,      \* the names it answers a list with
    could       \* history: what a correct answer to its request may say of a
                \* name, <<name, present?>>, at some moment of the request

directory == <<file, mtime, clock>>
index     == <<entries, dirModTime>>
rebuild   == <<scan, new>>
answer    == <<reply, names>>
vars == <<directory, index, builder, pc, req, seen, rebuild, uuid, answer, could>>

Empty == [k \in Names |-> None]

TypeOK ==
    /\ file \in [Dirs -> [UUIDs -> Names \cup {Unborn, Gone}]]
    /\ mtime \in [Dirs -> 1..MaxClock]
    /\ clock \in 1..MaxClock
    /\ entries \in [Names -> UUIDs \cup {None}]
    /\ dirModTime \in 0..MaxClock
    /\ builder \in Handlers \cup {None}
    /\ pc \in [Handlers -> {"idle", "stat", "check", "wait", "build", "entry",
                            "decrypt", "remove", "write", "invalidate", "reply"}]
    /\ req \in [Handlers -> Requests \cup {None}]
    /\ seen \in [Handlers -> 0..MaxClock]
    /\ scan \in [Handlers -> SUBSET UUIDs]
    /\ new \in [Handlers -> [Names -> UUIDs \cup {None}]]
    /\ uuid \in [Handlers -> UUIDs \cup {None}]
    /\ reply \in [Handlers -> Replies]
    /\ names \in [Handlers -> SUBSET Names]
    /\ could \in [Handlers -> SUBSET (Names \X BOOLEAN)]

Init ==
    /\ file = [d \in Dirs |-> [u \in UUIDs |-> Unborn]]
    /\ mtime = [d \in Dirs |-> 1]
    /\ clock = 1
    /\ entries = Empty /\ dirModTime = 0 /\ builder = None
    /\ pc = [h \in Handlers |-> "idle"]
    /\ req = [h \in Handlers |-> None]
    /\ seen = [h \in Handlers |-> 0]
    /\ scan = [h \in Handlers |-> {}]
    /\ new = [h \in Handlers |-> Empty]
    /\ uuid = [h \in Handlers |-> None]
    /\ reply = [h \in Handlers |-> "none"]
    /\ names = [h \in Handlers |-> {}]
    /\ could = [h \in Handlers |-> {}]

-----------------------------------------------------------------------------
(* The directory *)

HasName(d, k) == \E u \in UUIDs : file[d][u] = k

\* No file of the name, or only ones that may fail to open: who looks for the
\* name may find none.
Missing(d, k) == \A u \in UUIDs \ Flaky : file[d][u] # k

\* What may be said of the names of d now.  A daemon write or delete that has
\* been done but not yet answered may be counted either way.
Underway(d, o, k) == \E h \in Handlers :
    pc[h] = "invalidate" /\ req[h] = [op |-> o, dir |-> d, name |-> k]

Sayable == [d \in Dirs |->
         {k \in Names : HasName(d, k) \/ Underway(d, "delete", k)} \X {TRUE}
    \cup {k \in Names : Missing(d, k) \/ Underway(d, "write", k)} \X {FALSE}]

\* The names an answer to r says something about.
Asked(r) == CASE r.op = "list" -> Names [] r.op = "write" -> {} [] OTHER -> {r.name}

\* Every step lets the requests not yet answered say what has become true.
Observe == could' = [h \in Handlers |->
    IF req'[h] = None THEN {}
    ELSE IF pc[h] = "reply" THEN could[h]
    ELSE could[h] \cup {s \in Sayable'[req'[h].dir] : s[1] \in Asked(req'[h])}]

\* A change by who: its mtime is the clock's, which has moved on since the
\* last change unless who may be too quick for it.
Touch(who, d) ==
    /\ \E t \in (IF who \in Coarse THEN {clock, clock + 1} ELSE {clock + 1}) :
        t <= MaxClock /\ clock' = t
    /\ mtime' = [mtime EXCEPT ![d] = clock']

\* Slip: file names that can come up again.
PutSecretReused(who, d, k) ==
    /\ \/ HasName(d, k) /\ UNCHANGED file
       \/ Missing(d, k) /\ \E u \in UUIDs :
              /\ \A e \in Dirs : file[e][u] \notin Names
              /\ file' = [file EXCEPT ![d][u] = k]
    /\ Touch(who, d)

\* vault.WriteSecret: the file of that name is replaced (a temp file and a
\* rename touch the directory) or, when it is not found, a new one appears.
PutSecret(who, d, k) ==
    /\ \/ HasName(d, k) /\ UNCHANGED file
       \/ Missing(d, k) /\ \E u \in UUIDs :
              /\ \A e \in Dirs : file[e][u] = Unborn
              /\ file' = [file EXCEPT ![d][u] = k]
    /\ Touch(who, d)

RemoveFile(who, d, u) ==
    /\ file[d][u] \in Names
    /\ file' = [file EXCEPT ![d][u] = Gone]
    /\ Touch(who, d)

CliWrite(d, k) ==
    /\ PutSecret("cli", d, k)
    /\ UNCHANGED <<index, builder, pc, req, seen, rebuild, uuid, answer>>
    /\ Observe

CliDelete(d, u) ==
    /\ RemoveFile("cli", d, u)
    /\ UNCHANGED <<index, builder, pc, req, seen, rebuild, uuid, answer>>
    /\ Observe

-----------------------------------------------------------------------------
(* refreshIndexIfStale *)

Goto(h, step) == pc' = [pc EXCEPT ![h] = step]

Answer(h, what) ==
    /\ reply' = [reply EXCEPT ![h] = what]
    /\ Goto(h, "reply")

Receive(h, r) ==
    /\ pc[h] = "idle"
    /\ req' = [req EXCEPT ![h] = r]
    /\ Goto(h, IF r.op = "write" THEN "write" ELSE "stat")
    /\ UNCHANGED <<directory, index, builder, seen, rebuild, uuid, answer>>
    /\ Observe

\* Slip: the time is rounded up.
StatRoundedUp(h) ==
    /\ pc[h] = "stat"
    /\ seen' = [seen EXCEPT ![h] = mtime[req[h].dir] + 1]
    /\ Goto(h, "check")
    /\ UNCHANGED <<directory, index, builder, req, rebuild, uuid, answer>>
    /\ Observe

Stat(h) ==
    /\ pc[h] = "stat"
    /\ seen' = [seen EXCEPT ![h] = mtime[req[h].dir]]
    /\ Goto(h, "check")
    /\ UNCHANGED <<directory, index, builder, req, rebuild, uuid, answer>>
    /\ Observe

\* refreshIndexIfStale returns nil.
Refreshed(h) ==
    /\ seen' = [seen EXCEPT ![h] = 0]
    /\ Goto(h, "entry")

UpToDate(m) == dirModTime # 0 /\ m <= dirModTime

\* Under the read lock.
Check(h) ==
    /\ pc[h] = "check" /\ builder = None
    /\ IF UpToDate(seen[h])
       THEN Refreshed(h)
       ELSE Goto(h, "wait") /\ UNCHANGED seen
    /\ UNCHANGED <<directory, index, builder, req, rebuild, uuid, answer>>
    /\ Observe

\* Under the write lock: the double check finds another handler's rebuild.
FindRebuilt(h) ==
    /\ pc[h] = "wait" /\ builder = None
    /\ UpToDate(seen[h])
    /\ Refreshed(h)
    /\ UNCHANGED <<directory, index, builder, req, rebuild, uuid, answer>>
    /\ Observe

\* Lock, load the key, glob.
StartRebuild(h) ==
    /\ pc[h] = "wait" /\ builder = None
    /\ ~UpToDate(seen[h])
    /\ builder' = h
    /\ scan' = [scan EXCEPT ![h] = {u \in UUIDs : file[req[h].dir][u] \in Names}]
    /\ new' = [new EXCEPT ![h] = Empty]
    /\ Goto(h, "build")
    /\ UNCHANGED <<directory, index, req, seen, uuid, answer>>
    /\ Observe

\* os.Stat, keyring.Load or the glob fails.
RefreshFails(h) ==
    /\ pc[h] \in {"stat", "wait"}
    /\ pc[h] = "wait" => builder = None
    /\ Answer(h, "error")
    /\ UNCHANGED <<directory, index, builder, req, seen, rebuild, uuid, names>>
    /\ Observe

\* One goroutine per file; a file that has gone meanwhile, or does not open, is
\* skipped, and the rebuild goes on.
IndexFile(h, u) ==
    /\ pc[h] = "build" /\ u \in scan[h]
    /\ scan' = [scan EXCEPT ![h] = @ \ {u}]
    /\ LET k == file[req[h].dir][u]
       IN  \/ k \in Names /\ new' = [new EXCEPT ![h][k] = u]
           \/ (k \in Names => u \in Flaky) /\ new' = new
    /\ UNCHANGED <<directory, index, builder, pc, req, seen, uuid, answer>>
    /\ Observe

\* Slip: the index is stamped with the mtime of when it is ready.
InstallStampedLate(h) ==
    /\ pc[h] = "build" /\ scan[h] = {}
    /\ entries' = new[h]
    /\ dirModTime' = mtime[req[h].dir]
    /\ builder' = None
    /\ new' = [new EXCEPT ![h] = Empty]
    /\ Refreshed(h)
    /\ UNCHANGED <<directory, req, scan, uuid, answer>>
    /\ Observe

Install(h) ==
    /\ pc[h] = "build" /\ scan[h] = {}
    /\ entries' = new[h]
    /\ dirModTime' = seen[h]
    /\ builder' = None
    /\ new' = [new EXCEPT ![h] = Empty]
    /\ Refreshed(h)
    /\ UNCHANGED <<directory, req, scan, uuid, answer>>
    /\ Observe

-----------------------------------------------------------------------------
(* The handlers' use of the index *)

ListNames(h) ==
    /\ pc[h] = "entry" /\ builder = None /\ req[h].op = "list"
    /\ names' = [names EXCEPT ![h] = {k \in Names : entries[k] # None}]
    /\ Answer(h, "ok")
    /\ UNCHANGED <<directory, index, builder, req, seen, rebuild, uuid>>
    /\ Observe

NoEntry(h) ==
    /\ pc[h] = "entry" /\ builder = None /\ req[h].op \in {"read", "delete"}
    /\ entries[req[h].name] = None
    /\ Answer(h, "notfound")
    /\ UNCHANGED <<directory, index, builder, req, seen, rebuild, uuid, names>>
    /\ Observe

Entry(h) ==
    /\ pc[h] = "entry" /\ builder = None /\ req[h].op \in {"read", "delete"}
    /\ entries[req[h].name] # None
    /\ uuid' = [uuid EXCEPT ![h] = entries[req[h].name]]
    /\ Goto(h, IF req[h].op = "read" THEN "decrypt" ELSE "remove")
    /\ UNCHANGED <<directory, index, builder, req, seen, rebuild, answer>>
    /\ Observe

\* decryptFile; it does not look at the name inside.  The keyring, the key and
\* the file may fail it.
DecryptFile(h) ==
    /\ pc[h] = "decrypt"
    /\ \/ file[req[h].dir][uuid[h]] \in Names /\ Answer(h, "ok")
       \/ Answer(h, "error")
    /\ UNCHANGED <<directory, index, builder, req, seen, rebuild, uuid, names>>
    /\ Observe

\* os.Remove without vault.lock.
Remove(h) ==
    /\ pc[h] = "remove"
    /\ RemoveFile("daemon", req[h].dir, uuid[h])
    /\ Goto(h, "invalidate")
    /\ UNCHANGED <<index, builder, req, seen, rebuild, uuid, answer>>
    /\ Observe

Write(h) ==
    /\ pc[h] = "write"
    /\ PutSecret("daemon", req[h].dir, req[h].name)
    /\ Goto(h, "invalidate")
    /\ UNCHANGED <<index, builder, req, seen, rebuild, uuid, answer>>
    /\ Observe

\* The write or os.Remove fails; the latter always does for a file that has gone.
ChangeFails(h) ==
    /\ pc[h] \in {"write", "remove"}
    /\ Answer(h, "error")
    /\ UNCHANGED <<directory, index, builder, req, seen, rebuild, uuid, names>>
    /\ Observe

\* Slip: the index is left alone after a change.
InvalidateNothing(h) ==
    /\ pc[h] = "invalidate" /\ builder = None
    /\ Answer(h, "ok")
    /\ UNCHANGED <<directory, index, builder, req, seen, rebuild, uuid, names>>
    /\ Observe

Invalidate(h) ==
    /\ pc[h] = "invalidate" /\ builder = None
    /\ dirModTime' = 0
    /\ Answer(h, "ok")
    /\ UNCHANGED <<directory, entries, builder, req, seen, rebuild, uuid, names>>
    /\ Observe

Reply(h) ==
    /\ pc[h] = "reply"
    /\ Goto(h, "idle")
    /\ req' = [req EXCEPT ![h] = None]
    /\ seen' = [seen EXCEPT ![h] = 0]
    /\ new' = [new EXCEPT ![h] = Empty]
    /\ uuid' = [uuid EXCEPT ![h] = None]
    /\ reply' = [reply EXCEPT ![h] = "none"]
    /\ names' = [names EXCEPT ![h] = {}]
    /\ UNCHANGED <<directory, index, builder, scan>>
    /\ Observe

\* The daemon exits (idle, stopped or killed) with its requests; another one
\* starts with an empty index.
Restart ==
    /\ entries' = Empty /\ dirModTime' = 0 /\ builder' = None
    /\ pc' = [h \in Handlers |-> "idle"]
    /\ req' = [h \in Handlers |-> None]
    /\ seen' = [h \in Handlers |-> 0]
    /\ scan' = [h \in Handlers |-> {}]
    /\ new' = [h \in Handlers |-> Empty]
    /\ uuid' = [h \in Handlers |-> None]
    /\ reply' = [h \in Handlers |-> "none"]
    /\ names' = [h \in Handlers |-> {}]
    /\ UNCHANGED directory
    /\ Observe

Refresh(h) ==
    \/ Stat(h) \/ Check(h) \/ FindRebuilt(h) \/ StartRebuild(h)
    \/ RefreshFails(h) \/ Install(h)
    \/ \E u \in UUIDs : IndexFile(h, u)

Serve(h) ==
    \/ ListNames(h) \/ NoEntry(h) \/ Entry(h) \/ DecryptFile(h)
    \/ Remove(h) \/ Write(h) \/ ChangeFails(h) \/ Invalidate(h) \/ Reply(h)

Cli ==
    \/ \E d \in Dirs, k \in Names : CliWrite(d, k)
    \/ \E d \in Dirs, u \in UUIDs : CliDelete(d, u)

Next ==
    \/ \E h \in Handlers :
        \/ \E r \in Requests : Receive(h, r)
        \/ Refresh(h) \/ Serve(h)
    \/ Cli \/ Restart

Spec == Init /\ [][Next]_vars

-----------------------------------------------------------------------------
(* Properties *)

\* An index a request would find up to date is exact, but for changes the
\* daemon is about to invalidate it for: what it has is there, and all it may
\* lack is a name whose every file may fail to open (refreshIndexIfStale
\* stamps the index although it has skipped such a file).
IndexExact ==
    \A d \in Dirs : UpToDate(mtime[d]) =>
        \A k \in Names :
            \/ Underway(d, "write", k) \/ Underway(d, "delete", k)
            \/ IF entries[k] = None THEN Missing(d, k)
               ELSE file[d][entries[k]] = k

\* An answer says of a name only what was so at some moment of the request; a
\* name whose every file may fail to open may be said to be missing.
AnswersCurrent == \A h \in Handlers :
    pc[h] = "reply" =>
        /\ reply[h] = "notfound" => <<req[h].name, FALSE>> \in could[h]
        /\ reply[h] = "ok" /\ req[h].op = "read" => <<req[h].name, TRUE>> \in could[h]
        /\ reply[h] = "ok" /\ req[h].op = "list" =>
              \A k \in Names : <<k, k \in names[h]>> \in could[h]

\* A handler reads or removes the file of the secret it was asked for,
\* or finds it gone; never another secret's.
RightFile == \A h \in Handlers :
    pc[h] \in {"decrypt", "remove"} =>
        file[req[h].dir][uuid[h]] \in {req[h].name, Gone}
=============================================================================
