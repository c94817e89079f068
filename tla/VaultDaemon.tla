---------------------------- MODULE VaultDaemon ----------------------------
(***************************************************************************)
(* The vault of module Vault with the one operation that works on it       *)
(* without vault.lock: the daemon's delete handler looks the file up in    *)
(* its index and removes it, whatever lock anybody holds.                  *)
(***************************************************************************)
EXTENDS Vault

DaemonDelete(f) ==
    /\ f \in Present
    /\ files' = [files EXCEPT ![f] = None]
    /\ UNCHANGED <<recipients, admitted, op, pc, holds, local>>

DaemonNext == Next \/ \E f \in UUIDs : DaemonDelete(f)

DaemonSpec == Init /\ [][DaemonNext]_vars

\* A secret that is gone comes back only when somebody sets it: `rm` that was
\* answered with OK is final.
NoResurrection ==
    [][\A k \in Names :
        (\E f \in UUIDs : files'[f] # None /\ files'[f].name = k)
        => \/ \E f \in Present : files[f].name = k
           \/ \E p \in Procs : pc[p] = "writing" /\ op[p].kind = "write"
                               /\ op[p].name = k]_vars
=============================================================================
