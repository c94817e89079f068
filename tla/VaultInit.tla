----------------------------- MODULE VaultInit -----------------------------
(***************************************************************************)
(* `sauce init`, run by several processes on one vault directory: look for *)
(* .vault_recipients, generate a key, save it in the user's keyring under  *)
(* this directory, write the recipients file.  No lock is taken.           *)
(***************************************************************************)
EXTENDS Naturals

CONSTANTS Procs, Users, None

\* The identity process p generates: as unique as p, which runs once.
VARIABLES
    keyring,    \* user -> the key saved for this vault, or None
    recipients, \* .vault_recipients: the keys in it, or None without the file
    pc,         \* new, save, create, fill, done, refused, failed
    user        \* who runs it

vars == <<keyring, recipients, pc, user>>

TypeOK ==
    /\ keyring \in [Users -> Procs \cup {None}]
    /\ recipients \in {None} \cup SUBSET Procs
    /\ pc \in [Procs -> {"new", "save", "create", "fill", "done",
                         "refused", "failed"}]
    /\ user \in [Procs -> Users \cup {None}]

Init ==
    /\ keyring = [u \in Users |-> None]
    /\ recipients = None
    /\ pc = [p \in Procs |-> "new"]
    /\ user = [p \in Procs |-> None]

Goto(p, step) == pc' = [pc EXCEPT ![p] = step]

\* vlt.Exists
Start(p, u) ==
    /\ pc[p] = "new"
    /\ user' = [user EXCEPT ![p] = u]
    /\ Goto(p, IF recipients = None THEN "save" ELSE "refused")
    /\ UNCHANGED <<keyring, recipients>>

\* kr.Save replaces what the keyring has for this directory.
SaveKey(p) ==
    /\ pc[p] = "save"
    /\ keyring' = [keyring EXCEPT ![user[p]] = p]
    /\ Goto(p, "create")
    /\ UNCHANGED <<recipients, user>>

\* os.WriteFile: the file is created, or emptied, and then written.
Create(p) ==
    /\ pc[p] = "create"
    /\ recipients' = {}
    /\ Goto(p, "fill")
    /\ UNCHANGED <<keyring, user>>

Fill(p) ==
    /\ pc[p] = "fill"
    /\ recipients' = {p}
    /\ Goto(p, "done")
    /\ UNCHANGED <<keyring, user>>

\* The process is killed, or a step returns an error.
Stop(p) ==
    /\ pc[p] \in {"save", "create", "fill"}
    /\ Goto(p, "failed")
    /\ UNCHANGED <<keyring, recipients, user>>

Next == \E p \in Procs :
    \/ \E u \in Users : Start(p, u)
    \/ SaveKey(p) \/ Create(p) \/ Fill(p) \/ Stop(p)

Spec == Init /\ [][Next]_vars

\* When every init that was started has come to its end or was refused, and
\* none was cut short, a user who was told that the vault is initialised holds
\* a key that the vault's secrets will be encrypted to.
InitialisedVaultOpens ==
    (\A p \in Procs : pc[p] \in {"new", "done", "refused"}) =>
        \A p \in Procs : pc[p] = "done" => keyring[user[p]] \in recipients
=============================================================================
