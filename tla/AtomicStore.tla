---------------------------- MODULE AtomicStore ----------------------------
(***************************************************************************)
(* What the vault promises its callers: a map from secret names to data on *)
(* which every request takes effect at once, exactly once, or not at all.  *)
(* A caller may die at any moment; whether its request took effect is then *)
(* unknown, but it never takes effect in part.  Adding a recipient (share) *)
(* leaves every name and value alone.                                      *)
(***************************************************************************)
CONSTANTS Procs, Names, Data, Requests, None

VARIABLES store,   \* name -> data, or None when there is no such secret
          op,      \* the request each process is serving, or None
          status,  \* its outcome: none (not decided), ok, notfound, error
          result   \* what a successful read returned

storeVars == <<store, op, status, result>>

NoResult == [k \in Names |-> None]

Init ==
    /\ store = NoResult
    /\ op = [p \in Procs |-> None]
    /\ status = [p \in Procs |-> "none"]
    /\ result = [p \in Procs |-> NoResult]

Invoke(p, o) ==
    /\ op[p] = None
    /\ op' = [op EXCEPT ![p] = o]
    /\ UNCHANGED <<store, status, result>>

Undecided(p, kind) == op[p] # None /\ op[p].kind = kind /\ status[p] = "none"

Write(p) ==
    /\ Undecided(p, "write")
    /\ store' = [store EXCEPT ![op[p].name] = op[p].data]
    /\ status' = [status EXCEPT ![p] = "ok"]
    /\ UNCHANGED <<op, result>>

Delete(p) ==
    /\ Undecided(p, "delete")
    /\ store[op[p].name] # None
    /\ store' = [store EXCEPT ![op[p].name] = None]
    /\ status' = [status EXCEPT ![p] = "ok"]
    /\ UNCHANGED <<op, result>>

Read(p) ==
    /\ Undecided(p, "read")
    /\ store[op[p].name] # None
    /\ result' = [result EXCEPT ![p] =
                    [k \in Names |-> IF k = op[p].name THEN store[k] ELSE None]]
    /\ status' = [status EXCEPT ![p] = "ok"]
    /\ UNCHANGED <<store, op>>

NotFound(p) ==
    /\ Undecided(p, "read") \/ Undecided(p, "delete")
    /\ store[op[p].name] = None
    /\ status' = [status EXCEPT ![p] = "notfound"]
    /\ UNCHANGED <<store, op, result>>

ReadAll(p) ==
    /\ Undecided(p, "readall")
    /\ result' = [result EXCEPT ![p] = store]
    /\ status' = [status EXCEPT ![p] = "ok"]
    /\ UNCHANGED <<store, op>>

Share(p) ==
    /\ Undecided(p, "share")
    /\ status' = [status EXCEPT ![p] = "ok"]
    /\ UNCHANGED <<store, op, result>>

Fail(p) ==
    /\ op[p] # None /\ status[p] = "none"
    /\ status' = [status EXCEPT ![p] = "error"]
    /\ UNCHANGED <<store, op, result>>

\* The caller takes the answer, or dies (at any moment).
Leave(p) ==
    /\ op[p] # None
    /\ op' = [op EXCEPT ![p] = None]
    /\ status' = [status EXCEPT ![p] = "none"]
    /\ result' = [result EXCEPT ![p] = NoResult]
    /\ UNCHANGED store

Next == \E p \in Procs :
    \/ \E o \in Requests : Invoke(p, o)
    \/ Write(p) \/ Delete(p) \/ Read(p) \/ NotFound(p) \/ ReadAll(p)
    \/ Share(p) \/ Fail(p) \/ Leave(p)

Spec == Init /\ [][Next]_storeVars
=============================================================================
