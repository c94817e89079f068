---------------------------- MODULE GuiFrontend ----------------------------
(***************************************************************************)
(* The GUI: App.svelte's state and handlers, and the calls it has under    *)
(* way to the App of app.go.  A handler runs without interruption up to an *)
(* await; what follows the await is a step of its own, with whatever the   *)
(* state is by then.  App serves one call at a time, in any order; answers *)
(* arrive in any order.  The command line changes the vault beside it.     *)
(*                                                                         *)
(* Of a value read only its age is kept: it is "old" when a save of the    *)
(* GUI has succeeded since, and "late" when that save's answer arrived     *)
(* before the value did.  Of a form's fields it is kept whose they are.    *)
(* The names of the fields lose the white space at their ends when they    *)
(* are saved; what they are called is not kept here.                       *)
(***************************************************************************)
CONSTANTS
    Names,      \* the names of secrets
    Trimmed,    \* name -> the name that submitCreate saves it under: without the white
                \* space at its ends; None if it refuses that (nothing left, ".", "..")
    Slots,      \* bound: calls under way at a time
    None

VARIABLES
    stored,     \* the names in the vault
    removed,    \* history: names removed since the GUI last saved them
    calls,      \* slot -> the call in it, or None
    secretNames, secretData, expanded, loading,     \* secretData: age or None
    modal,      \* showCreate, editingName, and whose createFields are
    creating

backend == <<stored, removed>>
view == <<secretNames, secretData, expanded, loading>>
vars == <<backend, calls, view, modal, creating>>

Ages == {"current", "old", "late"}

\* For whom a fetch is: toggle or openEdit.  A list names the secret whose
\* creation it follows, a set the owner of the fields.
Calls == [op : {"list", "get", "set", "delete"}, name : Names \cup {None},
          of : {"toggle", "edit", None} \cup Names,
          state : {"waiting", "ok", "error"},
          age : Ages \cup {None}, names : SUBSET Names]

ASSUME NoneAssumption == None \notin Names /\ None \notin Ages /\ None \notin Calls
ASSUME TrimmedAssumption ==
    /\ Trimmed \in [Names -> Names \cup {None}]
    /\ \A n \in Names : Trimmed[n] # None => Trimmed[Trimmed[n]] = Trimmed[n]

NewCall(op, name, of) ==
    [op |-> op, name |-> name, of |-> of, state |-> "waiting", age |-> None, names |-> {}]

Modals == [show : BOOLEAN, editing : Names \cup {None}, fields : Names \cup {None}]
Closed == [show |-> FALSE, editing |-> None, fields |-> None]

Busy(s) == calls[s] # None
Has(s, op, state) == Busy(s) /\ calls[s].op = op /\ calls[s].state = state

\* onMount has sent the first list.
Init ==
    /\ stored \in SUBSET Names /\ removed = {}
    /\ \E first \in Slots : calls =
            [s \in Slots |-> IF s = first THEN NewCall("list", None, None) ELSE None]
    /\ secretNames = {} /\ expanded = {} /\ loading = {}
    /\ secretData = [n \in Names |-> None]
    /\ modal = Closed
    /\ creating = FALSE

Fetches(s, n) == Busy(s) /\ calls[s].op = "get" /\ calls[s].name = n

\* Part of submitCreate: the save, or the list after it.
Saves(s) ==
    Busy(s) /\ (calls[s].op = "set" \/ (calls[s].op = "list" /\ calls[s].name # None))

TypeOK ==
    /\ stored \subseteq Names /\ removed \subseteq Names
    /\ calls \in [Slots -> Calls \cup {None}]
    /\ secretNames \subseteq Names /\ expanded \subseteq Names /\ loading \subseteq Names
    /\ secretData \in [Names -> Ages \cup {None}]
    /\ modal \in Modals /\ creating \in BOOLEAN
    /\ modal.editing # None => modal.show

Send(call) == \E s \in Slots : ~Busy(s) /\ calls' = [calls EXCEPT ![s] = call]

-----------------------------------------------------------------------------
(* Clicks and keys.  The backdrop of an open dialog keeps the mouse from   *)
(* everything else, but not the keyboard.                                  *)

Refresh ==
    /\ Send(NewCall("list", None, None))
    /\ UNCHANGED <<backend, view, modal, creating>>

Fetch(n, whom) ==
    /\ secretData[n] = None
    /\ Send(NewCall("get", n, whom))
    /\ loading' = loading \cup {n}
    /\ UNCHANGED <<backend, secretNames, secretData, expanded, modal, creating>>

Toggle(n) ==
    /\ n \in secretNames \ loading
    /\ IF n \notin expanded /\ secretData[n] = None THEN Fetch(n, "toggle")
       ELSE /\ expanded' = IF n \in expanded THEN expanded \ {n} ELSE expanded \cup {n}
            /\ UNCHANGED <<backend, calls, secretNames, secretData, loading, modal, creating>>

\* A slip: the name of an open dialog stays.
FormKeepingName(n) ==
    [show |-> TRUE, editing |-> IF modal.editing # None THEN modal.editing ELSE n, fields |-> n]
Form(n) == [show |-> TRUE, editing |-> n, fields |-> n]

OpenEdit(n) ==
    /\ n \in secretNames \ loading
    /\ \/ Fetch(n, "edit")
       \/ /\ secretData[n] # None
          /\ modal' = Form(n)
          /\ UNCHANGED <<backend, calls, view, creating>>

RemoveSecret(n) ==
    /\ n \in secretNames
    /\ Send(NewCall("delete", n, None))
    /\ UNCHANGED <<backend, view, modal, creating>>

OpenCreate ==
    /\ modal' = [Closed EXCEPT !.show = TRUE]
    /\ UNCHANGED <<backend, calls, view, creating>>

\* A slip: editingName stays.
CloseCreateOnly ==
    /\ modal.show
    /\ modal' = [modal EXCEPT !.show = FALSE]
    /\ UNCHANGED <<backend, calls, view, creating>>

\* Also while its call is under way.
CloseCreate ==
    /\ modal.show
    /\ modal' = Closed
    /\ UNCHANGED <<backend, calls, view, creating>>

\* A slip: the save is not awaited before the list is asked for.
SubmitCreateAtOnce(n) ==
    /\ modal.show /\ ~creating
    /\ modal.editing \in {n, None} /\ Trimmed[n] # None
    /\ \E s, t \in Slots : s # t /\ ~Busy(s) /\ ~Busy(t) /\ calls' =
            [calls EXCEPT ![s] = NewCall("set", Trimmed[n], modal.fields),
                          ![t] = NewCall("list", Trimmed[n], None)]
    /\ creating' = TRUE
    /\ UNCHANGED <<backend, view, modal>>

\* The name of an edit is read-only, that of a new secret is typed; either is
\* trimmed.  A refusal changes only the message shown.
SubmitCreate(n) ==
    /\ modal.show /\ ~creating
    /\ modal.editing \in {n, None} /\ Trimmed[n] # None
    /\ Send(NewCall("set", Trimmed[n], modal.fields))
    /\ creating' = TRUE
    /\ UNCHANGED <<backend, view, modal>>

-----------------------------------------------------------------------------
(* App: one call at a time (a.mu), each ending well or with an error.      *)

Ends(s, state) == calls' = [calls EXCEPT ![s].state = state]

ListSecretNames(s) ==
    /\ Has(s, "list", "waiting")
    /\ calls' = [calls EXCEPT ![s].state = "ok", ![s].names = stored]
    /\ UNCHANGED <<backend, secretData>>

GetSecret(s) ==
    /\ Has(s, "get", "waiting") /\ calls[s].name \in stored
    /\ calls' = [calls EXCEPT ![s].state = "ok", ![s].age = "current"]
    /\ UNCHANGED <<backend, secretData>>

\* What has been read of the name is old from now on.
SetSecret(s) ==
    LET n == calls[s].name
    IN  /\ Has(s, "set", "waiting")
        /\ stored' = stored \cup {n} /\ removed' = removed \ {n}
        /\ calls' = [t \in Slots |->
                IF t = s THEN [calls[s] EXCEPT !.state = "ok"]
                ELSE IF Has(t, "get", "ok") /\ calls[t].name = n
                     THEN [calls[t] EXCEPT !.age = "old"] ELSE calls[t]]
        /\ secretData' = [secretData EXCEPT ![n] = IF @ = None THEN None ELSE "old"]

DeleteSecret(s) ==
    /\ Has(s, "delete", "waiting") /\ calls[s].name \in stored
    /\ stored' = stored \ {calls[s].name} /\ removed' = removed \cup {calls[s].name}
    /\ Ends(s, "ok")
    /\ UNCHANGED secretData

\* Not ready, not found, or an error of the service; the daemon may have
\* done a change whose answer was lost.
CallFails(s) ==
    /\ Busy(s) /\ calls[s].state = "waiting"
    /\ \/ UNCHANGED backend
       \/ /\ calls[s].op = "set"
          /\ stored' = stored \cup {calls[s].name} /\ UNCHANGED removed
       \/ /\ calls[s].op = "delete"
          /\ stored' = stored \ {calls[s].name} /\ removed' = removed \cup {calls[s].name}
    /\ Ends(s, "error")
    /\ UNCHANGED secretData

Serve(s) ==
    /\ ListSecretNames(s) \/ GetSecret(s) \/ SetSecret(s) \/ DeleteSecret(s) \/ CallFails(s)
    /\ UNCHANGED <<secretNames, expanded, loading, modal, creating>>

-----------------------------------------------------------------------------
(* What follows an await. *)

Free(s) == calls' = [calls EXCEPT ![s] = None]

\* refresh; after a creation the dialog is closed, whatever it shows by now.
ListAnswered(s) ==
    /\ Has(s, "list", "ok") \/ Has(s, "list", "error")
    /\ IF calls[s].state = "ok"
       THEN /\ secretNames' = calls[s].names
            /\ secretData' = [n \in Names |-> None]
            /\ expanded' = {}
       ELSE UNCHANGED <<secretNames, secretData, expanded>>
    /\ Free(s)
    /\ IF calls[s].name # None THEN modal' = Closed /\ creating' = FALSE
       ELSE UNCHANGED <<modal, creating>>
    /\ UNCHANGED <<backend, loading>>

\* The value goes to the cache; then the row opens, or the dialog.
GetAnswered(s) ==
    LET n == calls[s].name
    IN  /\ Has(s, "get", "ok")
        /\ secretData' = [secretData EXCEPT ![n] = calls[s].age]
        /\ loading' = loading \ {n}
        /\ IF calls[s].of = "toggle"
           THEN expanded' = expanded \cup {n} /\ UNCHANGED modal
           ELSE modal' = Form(n) /\ UNCHANGED expanded
        /\ Free(s)
        /\ UNCHANGED <<backend, secretNames, creating>>

\* A slip: the row stays marked as loading.
GetFailedLoading(s) ==
    /\ Has(s, "get", "error")
    /\ Free(s)
    /\ UNCHANGED <<backend, view, modal, creating>>

GetFailed(s) ==
    /\ Has(s, "get", "error")
    /\ loading' = loading \ {calls[s].name}
    /\ Free(s)
    /\ UNCHANGED <<backend, secretNames, secretData, expanded, modal, creating>>

\* A slip: only after an edit.
ClearedOnEdit(n) ==
    IF modal.editing = None THEN secretData ELSE [secretData EXCEPT ![n] = None]
Cleared(n) == [secretData EXCEPT ![n] = None]

\* The cache entry goes.  Whether this was an edit is asked of the dialog that
\* is open now: then it is closed, else the list is refreshed first.
SetAnswered(s) ==
    LET n == calls[s].name
    IN  /\ Has(s, "set", "ok")
        /\ secretData' = Cleared(n)
        /\ calls' = [t \in Slots |->
                IF t = s THEN IF modal.editing # None THEN None ELSE NewCall("list", n, None)
                ELSE IF Has(t, "get", "ok") /\ calls[t].name = n /\ calls[t].age = "old"
                     THEN [calls[t] EXCEPT !.age = "late"] ELSE calls[t]]
        /\ IF modal.editing # None THEN modal' = Closed /\ creating' = FALSE
           ELSE UNCHANGED <<modal, creating>>
        /\ UNCHANGED <<backend, secretNames, expanded, loading>>

SetFailed(s) ==
    /\ Has(s, "set", "error")
    /\ creating' = FALSE
    /\ Free(s)
    /\ UNCHANGED <<backend, view, modal>>

DeleteAnswered(s) ==
    /\ Has(s, "delete", "ok") \/ Has(s, "delete", "error")
    /\ LET gone == IF calls[s].state = "ok" THEN {calls[s].name} ELSE {}
       IN  /\ secretNames' = secretNames \ gone
           /\ secretData' = [n \in Names |-> IF n \in gone THEN None ELSE secretData[n]]
           /\ expanded' = expanded \ gone
    /\ Free(s)
    /\ UNCHANGED <<backend, loading, modal, creating>>

Answered(s) ==
    \/ ListAnswered(s)
    \/ GetAnswered(s)
    \/ GetFailed(s)
    \/ SetAnswered(s)
    \/ SetFailed(s)
    \/ DeleteAnswered(s)

-----------------------------------------------------------------------------
\* A command beside the GUI sets a secret or removes one.
OtherSets(n) ==
    /\ n \notin stored
    /\ stored' = stored \cup {n}
    /\ UNCHANGED <<removed, calls, view, modal, creating>>

OtherRemoves(n) ==
    /\ n \in stored
    /\ stored' = stored \ {n} /\ removed' = removed \cup {n}
    /\ UNCHANGED <<calls, view, modal, creating>>

Next ==
    \/ Refresh
    \/ OpenCreate
    \/ CloseCreate
    \/ \E n \in Names : Toggle(n) \/ OpenEdit(n) \/ RemoveSecret(n) \/ SubmitCreate(n)
    \/ \E n \in Names : OtherSets(n) \/ OtherRemoves(n)
    \/ \E s \in Slots : Serve(s) \/ Answered(s)

Spec == Init /\ [][Next]_vars

-----------------------------------------------------------------------------
\* Fields that belong to a secret are saved under that secret's name, whichever
\* fetches and dialogs were begun meanwhile; a name with white space at its ends
\* is the exception: its fields are saved under the name without.
EditKeepsName ==
    /\ modal.editing # None => modal.fields = modal.editing
    /\ \A s \in Slots : Busy(s) /\ calls[s].op = "set" /\ calls[s].of # None =>
            calls[s].name = Trimmed[calls[s].of]

\* A value read before a successful save is not shown after the save's
\* answer, except when the fetch was still under way then ("late").
NoOldValueShown ==
    \A n \in Names : secretData[n] = "old" =>
        \E s \in Slots : Has(s, "set", "ok") /\ calls[s].name = n

\* When a creation is over its name is listed or has been removed since.
\* Creations taken for edits, as another secret's dialog is open when the
\* save's answer arrives, have no list.
CreatedIsListed ==
    [][ \A s \in Slots :
            Has(s, "list", "ok") /\ calls[s].name # None /\ calls'[s] = None =>
                calls[s].name \in secretNames' \cup removed
      ]_vars

\* A row is loading exactly while one fetch of it is under way, and the dialog
\* is saving exactly while its save or the list after it is: no error, early
\* answer or second click leaves a row or the dialog waiting for nothing.
WaitsForOneCall ==
    /\ \A n \in Names : n \in loading <=> \E s \in Slots : Fetches(s, n)
    /\ \A n \in Names, s, t \in Slots : Fetches(s, n) /\ Fetches(t, n) => s = t
    /\ creating <=> \E s \in Slots : Saves(s)
    /\ \A s, t \in Slots : Saves(s) /\ Saves(t) => s = t
=============================================================================
