------------------------------ MODULE Commands ------------------------------
(***************************************************************************)
(* One command, any of set, edit, run and import, from its start to its    *)
(* end, beside other processes that use the same vault.                    *)
(***************************************************************************)
EXTENDS EditCommand, RunCommand, ImportCommand

vars == <<commandVault, edit, run, import>>

Init ==
    \/ EditInit /\ RunOff /\ ImportOff
    \/ RunInit /\ EditOff /\ ImportOff
    \/ ImportInit /\ EditOff /\ RunOff

\* The command's own steps; those of a person are not the program's.
Progress ==
    \/ EditProgress /\ UNCHANGED <<run, import>>
    \/ RunNext /\ UNCHANGED <<edit, import>>
    \/ ImportNext /\ UNCHANGED <<edit, run>>

Next ==
    \/ EditNext /\ UNCHANGED <<run, import>>
    \/ RunNext /\ UNCHANGED <<edit, import>>
    \/ ImportNext /\ UNCHANGED <<edit, run>>
    \/ \E n \in Shared, data \in Contents \cup {None} :
            OtherWrites(n, data) /\ UNCHANGED <<edit, run, import>>

Spec == Init /\ [][Next]_vars /\ WF_vars(Progress)

TypeOK ==
    /\ DOMAIN secrets = Names /\ DOMAIN before = Names
    /\ others \subseteq Shared \X (Contents \cup {None})
    /\ via \in {"local", "daemon"}
    /\ pc \in Ended \cup {"set", "edit", "editor", "save", "fetch", "files",
                          "probe", "writes"}
    /\ DOMAIN fetched \subseteq Names /\ None \notin {fetched[n] : n \in DOMAIN fetched}
    /\ Cardinality(DOMAIN fds) = Len(files)
    /\ Cardinality(writing) <= conc
    /\ imported \in Nat /\ skipped \in Nat

\* Every command ends, or waits for the person at the editor: no semaphore,
\* wait group or loop holds it, whatever calls fail.
CommandEnds == (pc \notin Ended) ~> (pc \in Ended \cup {"editor"})
=============================================================================
