----------------------------- MODULE RunCommand -----------------------------
(***************************************************************************)
(* `sauce run`: fetches the secrets the manifest names, one call each, and *)
(* starts a child with environment variables that hold values, or the path *)
(* of an inherited descriptor whose file holds the value.                  *)
(*                                                                         *)
(* The request is the manifest: env and file, from variables to references *)
(* <<name>> or <<name, field>>: what is before and after the first dot.    *)
(***************************************************************************)
EXTENDS CommandVault

CONSTANTS Manifests

VARIABLES
    fetched,    \* name -> data
    env,        \* variable -> value
    files,      \* the contents of c.ExtraFiles
    fds         \* variable -> number of its descriptor

run == <<fetched, env, files, fds>>

RunOff == fetched = <<>> /\ env = <<>> /\ files = <<>> /\ fds = <<>>

RunInit == request \in Manifests /\ Start("fetch") /\ RunOff

RefName(ref) == ref[1]
RefField(ref) == IF Len(ref) = 1 THEN ValueKey ELSE ref[2]

Refs(vars) == {vars[v] : v \in DOMAIN vars}

ASSUME ManifestsAssumption == \A m \in Manifests :
    \A ref \in Refs(m.env) \cup Refs(m.file) : RefName(ref) \in Names

NameSet == {RefName(r) : r \in Refs(request.env) \cup Refs(request.file)}

HasFields(vars) == \A r \in Refs(vars) : RefField(r) \in DOMAIN fetched[RefName(r)]
Value(ref) == fetched[RefName(ref)][RefField(ref)]

Fetch(n) ==
    /\ n \in NameSet \ DOMAIN fetched
    /\ secrets[n] # None
    /\ Goes("fetch", "fetch")
    /\ fetched' = Extended(fetched, n, secrets[n])
    /\ UNCHANGED <<secrets, env, files, fds>>

\* No service, a missing secret or any other error of a call.
FetchFails ==
    /\ NameSet # DOMAIN fetched
    /\ Goes("fetch", "failed")
    /\ UNCHANGED <<secrets, run>>

InjectEnv ==
    /\ NameSet = DOMAIN fetched
    /\ Goes("fetch", IF HasFields(request.env) THEN "files" ELSE "failed")
    /\ env' = IF HasFields(request.env)
              THEN [v \in DOMAIN request.env |-> Value(request.env[v])] ELSE env
    /\ UNCHANGED <<secrets, fetched, files, fds>>

\* A slip: the secret is read again for the file.
InjectFileAnew(v) ==
    LET ref == request.file[v]
    IN  /\ Goes("files", "files")
        /\ v \notin DOMAIN fds
        /\ secrets[RefName(ref)] # None /\ RefField(ref) \in DOMAIN secrets[RefName(ref)]
        /\ files' = Append(files, secrets[RefName(ref)][RefField(ref)])
        /\ fds' = Extended(fds, v, 3 + Len(files') - 1)
        /\ UNCHANGED <<secrets, fetched, env>>

\* A file of its own for each variable, in any order: the range over a map.
InjectFile(v) ==
    LET ref == request.file[v]
    IN  /\ Goes("files", "files")
        /\ v \notin DOMAIN fds
        /\ RefField(ref) \in DOMAIN fetched[RefName(ref)]
        /\ files' = Append(files, Value(ref))
        /\ fds' = Extended(fds, v, 3 + Len(files') - 1)
        /\ UNCHANGED <<secrets, fetched, env>>

\* A missing field, or an error with the temp file.
InjectFails ==
    /\ DOMAIN fds # DOMAIN request.file
    /\ Goes("files", "failed")
    /\ UNCHANGED <<secrets, run>>

Spawn ==
    /\ DOMAIN fds = DOMAIN request.file
    /\ Goes("files", "done")
    /\ UNCHANGED <<secrets, run>>

RunNext ==
    /\ pc \in {"fetch", "files"}
    /\ \/ \E n \in NameSet : Fetch(n)
       \/ FetchFails
       \/ InjectEnv
       \/ \E v \in DOMAIN request.file : InjectFile(v)
       \/ InjectFails
       \/ Spawn

-----------------------------------------------------------------------------
\* The child's descriptor 3 + i is the i-th of ExtraFiles, from zero.
Inherited(fd) == files[fd - 2]

\* What the child finds of one secret, in variables and files, was that
\* secret's data at one moment of the command, whatever others wrote meanwhile.
Agrees(vars, n, data, Given(_)) ==
    \A v \in DOMAIN vars :
        LET ref == vars[v]
        IN  RefName(ref) = n => RefField(ref) \in DOMAIN data /\ Given(v) = data[RefField(ref)]

ChildSeesOneMoment ==
    pc = "done" /\ fetched # <<>> =>
        \A n \in NameSet : \E data \in (OthersWrote(n) \cup {before[n]}) \ {None} :
            /\ Agrees(request.env, n, data, LAMBDA v : env[v])
            /\ Agrees(request.file, n, data, LAMBDA v : Inherited(fds[v]))
=============================================================================
