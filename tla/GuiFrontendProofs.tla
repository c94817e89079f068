-------------------------- MODULE GuiFrontendProofs --------------------------
(***************************************************************************)
(* Theorems about GuiFrontend, for any secrets and any number of calls     *)
(* under way.                                                              *)
(***************************************************************************)
EXTENDS GuiFrontend, TLAPS

\* The calls that name a secret.
CallShape ==
    \A s \in Slots : Busy(s) /\ calls[s].op # "list" => calls[s].name \in Names

\* A dialog is one of openEdit or of openCreate, and so is what it has sent.
FormsKept ==
    /\ modal.fields = modal.editing
    /\ \A s \in Slots : Busy(s) /\ calls[s].op = "set" /\ calls[s].of # None =>
            calls[s].name = Trimmed[calls[s].of]

\* Whatever is old, in the cache or on its way to it, is so by a save whose
\* answer is still to come.
OldAwaited ==
    /\ NoOldValueShown
    /\ \A s \in Slots : Has(s, "get", "ok") /\ calls[s].age = "old" =>
           \E t \in Slots : Has(t, "set", "ok") /\ calls[t].name = calls[s].name

\* The name of a save is in the vault from the save to the end of the list.
SavedStays ==
    \A s \in Slots : Busy(s) /\ calls[s].name # None =>
        /\ calls[s].op = "set" /\ calls[s].state = "ok" => calls[s].name \in stored \cup removed
        /\ calls[s].op = "list" /\ calls[s].state = "waiting" =>
               calls[s].name \in stored \cup removed
        /\ calls[s].op = "list" /\ calls[s].state = "ok" =>
               calls[s].name \in calls[s].names \cup removed

Inv == TypeOK /\ CallShape /\ WaitsForOneCall /\ FormsKept /\ OldAwaited /\ SavedStays

-----------------------------------------------------------------------------
(* Facts about calls and dialogs *)

\* A call stays a call when it is answered or what it has read grows old.
LEMMA CallEdits ==
    ASSUME NEW c \in Calls
    PROVE  /\ \A a \in Ages : [c EXCEPT !.age = a] \in Calls
           /\ \A st \in {"waiting", "ok", "error"} :
                /\ [c EXCEPT !.state = st] \in Calls
                /\ \A ns \in SUBSET Names : [c EXCEPT !.state = st, !.names = ns] \in Calls
                /\ \A a \in Ages : [c EXCEPT !.state = st, !.age = a] \in Calls
  BY DEF Calls

\* What a handler sends is a call.
LEMMA NewCalls ==
    ASSUME NEW op \in {"list", "get", "set", "delete"}, NEW n \in Names \cup {None},
           NEW of \in {"toggle", "edit", None} \cup Names
    PROVE  NewCall(op, n, of) \in Calls
  BY DEF Calls, NewCall

\* The dialogs that handlers open, and none.
LEMMA Forms ==
    /\ Closed \in Modals /\ Closed.editing = None
    /\ \A n \in Names : Form(n) \in Modals /\ Form(n).show
  BY DEF Modals, Form, Closed

\* One slot is written.
LEMMA SlotWritten ==
    ASSUME TypeOK, NEW s \in Slots, NEW c \in Calls \cup {None}
    PROVE  [calls EXCEPT ![s] = c] \in [Slots -> Calls \cup {None}]
  BY DEF TypeOK

-----------------------------------------------------------------------------
(* The first state *)

\* One list is under way and nothing else.
LEMMA InitInv == Init => Inv
<1> SUFFICES ASSUME Init PROVE Inv
  OBVIOUS
<1> USE NoneAssumption DEF Init
<1>1. NewCall("list", None, None) \in Calls
  BY NewCalls
<1>2. PICK first \in Slots : calls =
        [s \in Slots |-> IF s = first THEN NewCall("list", None, None) ELSE None]
  OBVIOUS
<1>3. \A s \in Slots : Busy(s) =>
        calls[s].op = "list" /\ calls[s].name = None /\ calls[s].state = "waiting"
  BY <1>2 DEF Busy, NewCall
<1>4. TypeOK
  BY <1>1, <1>2, Forms DEF TypeOK
<1>5. CallShape /\ SavedStays
  BY <1>3 DEF CallShape, SavedStays
<1>6. WaitsForOneCall
  BY <1>3 DEF WaitsForOneCall, Fetches, Saves
<1>7. FormsKept /\ OldAwaited
  BY <1>3 DEF FormsKept, OldAwaited, NoOldValueShown, Closed, Has, Ages
<1> QED
  BY <1>4, <1>5, <1>6, <1>7 DEF Inv

-----------------------------------------------------------------------------
(* The steps *)

\* Serving a call changes neither what calls there are nor what they are for.
LEMMA CallServed ==
    ASSUME Inv, NEW s \in Slots, Serve(s), NEW t \in Slots
    PROVE  /\ Busy(t)' <=> Busy(t)
           /\ Busy(t) => /\ calls'[t].op = calls[t].op /\ calls'[t].name = calls[t].name
                         /\ calls'[t].of = calls[t].of
<1> USE NoneAssumption DEF Inv, TypeOK, Busy, Has, Ages, Calls
<1>1. CASE ListSecretNames(s)
  BY <1>1 DEF ListSecretNames
<1>2. CASE GetSecret(s)
  BY <1>2 DEF GetSecret
<1>3. CASE SetSecret(s)
  BY <1>3 DEF SetSecret
<1>4. CASE DeleteSecret(s)
  BY <1>4 DEF DeleteSecret, Ends
<1>5. CASE CallFails(s)
  BY <1>5 DEF CallFails, Ends
<1> QED
  BY <1>1, <1>2, <1>3, <1>4, <1>5 DEF Serve

\* Every handler, call and answer keeps the types.
LEMMA StepTypeOK == Inv /\ [Next]_vars => TypeOK'
<1> SUFFICES ASSUME Inv, [Next]_vars PROVE TypeOK'
  OBVIOUS
<1> USE NoneAssumption DEF Inv, TypeOK, Busy, Has, backend, view
<1>1. ASSUME Refresh PROVE TypeOK'
  BY <1>1 DEF Refresh, Send, NewCall, Calls, Ages, Modals, CallShape
<1>2. ASSUME OpenCreate PROVE TypeOK'
  <2>1. modal' \in Modals /\ modal'.show
    BY <1>2 DEF OpenCreate, Closed, Modals
  <2> QED
    BY <1>2, <2>1 DEF OpenCreate
<1>3. ASSUME CloseCreate PROVE TypeOK'
  BY <1>3 DEF CloseCreate, Closed, Calls, Ages, Modals, CallShape
<1>4. ASSUME NEW n \in Names, Toggle(n) PROVE TypeOK'
  BY <1>4 DEF Toggle, Fetch, Send, NewCall, Calls, Ages, Modals, CallShape
<1>5. ASSUME NEW n \in Names, OpenEdit(n) PROVE TypeOK'
  <2>1. CASE Fetch(n, "edit")
    BY <2>1, NewCalls, SlotWritten DEF Fetch, Send
  <2>2. CASE ~Fetch(n, "edit")
    BY <1>5, <2>2, Forms DEF OpenEdit, Form
  <2> QED
    BY <2>1, <2>2
<1>6. ASSUME NEW n \in Names, RemoveSecret(n) PROVE TypeOK'
  BY <1>6 DEF RemoveSecret, Send, NewCall, Calls, Ages, Modals, CallShape
<1>7. ASSUME NEW n \in Names, SubmitCreate(n) PROVE TypeOK'
  BY <1>7, TrimmedAssumption DEF SubmitCreate, Send, NewCall, Calls, Ages, Modals, CallShape
<1>8. ASSUME NEW n \in Names, OtherSets(n) PROVE TypeOK'
  BY <1>8 DEF OtherSets, Calls, Ages, Modals, CallShape
<1>9. ASSUME NEW n \in Names, OtherRemoves(n) PROVE TypeOK'
  BY <1>9 DEF OtherRemoves, Calls, Ages, Modals, CallShape
<1>10. ASSUME NEW s \in Slots, ListSecretNames(s),
            UNCHANGED <<secretNames, expanded, loading, modal, creating>>
      PROVE TypeOK'
  <2>1. /\ calls[s] \in Calls
        /\ calls' = [calls EXCEPT ![s] = [calls[s] EXCEPT !.state = "ok", !.names = stored]]
    BY <1>10 DEF ListSecretNames
  <2>2. calls' \in [Slots -> Calls \cup {None}]
    BY <2>1, CallEdits, SlotWritten
  <2> QED
    BY <1>10, <2>2 DEF ListSecretNames
<1>11. ASSUME NEW s \in Slots, GetSecret(s),
            UNCHANGED <<secretNames, expanded, loading, modal, creating>>
      PROVE TypeOK'
  <2>1. /\ calls[s] \in Calls
        /\ calls' = [calls EXCEPT ![s] = [calls[s] EXCEPT !.state = "ok", !.age = "current"]]
    BY <1>11 DEF GetSecret
  <2>2. calls' \in [Slots -> Calls \cup {None}]
    BY <2>1, CallEdits, SlotWritten DEF Ages
  <2> QED
    BY <1>11, <2>2 DEF GetSecret
<1>12. ASSUME NEW s \in Slots, SetSecret(s),
            UNCHANGED <<secretNames, expanded, loading, modal, creating>>
      PROVE TypeOK'
  <2>1. calls' \in [Slots -> Calls \cup {None}]
    BY <1>12, CallEdits DEF SetSecret, Ages
  <2>2. secretData' \in [Names -> Ages \cup {None}]
    BY <1>12 DEF SetSecret, Ages
  <2> QED
    BY <1>12, <2>1, <2>2 DEF SetSecret, CallShape
<1>13. ASSUME NEW s \in Slots, DeleteSecret(s),
            UNCHANGED <<secretNames, expanded, loading, modal, creating>>
      PROVE TypeOK'
  BY <1>13 DEF DeleteSecret, Ends, Calls, Ages, Modals, CallShape
<1>14. ASSUME NEW s \in Slots, CallFails(s),
            UNCHANGED <<secretNames, expanded, loading, modal, creating>>
      PROVE TypeOK'
  <2>1. calls' \in [Slots -> Calls \cup {None}]
    BY <1>14, CallEdits, SlotWritten DEF CallFails, Ends
  <2> QED
    BY <1>14, <2>1 DEF CallFails, CallShape
<1>15. ASSUME NEW s \in Slots, ListAnswered(s) PROVE TypeOK'
  <2>1. calls[s] \in Calls /\ calls[s].names \subseteq Names
    BY <1>15 DEF ListAnswered, Calls
  <2> QED
    BY <1>15, <2>1, Forms DEF ListAnswered, Free
<1>16. ASSUME NEW s \in Slots, GetAnswered(s) PROVE TypeOK'
  <2>1. calls[s].name \in Names /\ calls[s].age \in Ages \cup {None}
    BY <1>16 DEF GetAnswered, Calls, CallShape
  <2>2. modal' \in Modals /\ (modal'.editing # None => modal'.show)
    BY <1>16, <2>1, Forms DEF GetAnswered
  <2> QED
    BY <1>16, <2>1, <2>2 DEF GetAnswered, Free
<1>17. ASSUME NEW s \in Slots, GetFailed(s) PROVE TypeOK'
  BY <1>17 DEF GetFailed, Free, Calls, Ages, Modals, CallShape
<1>18. ASSUME NEW s \in Slots, SetAnswered(s) PROVE TypeOK'
  <2>1. calls[s].name \in Names /\ NewCall("list", calls[s].name, None) \in Calls
    BY <1>18, NewCalls DEF SetAnswered, CallShape
  <2>2. calls' \in [Slots -> Calls \cup {None}]
    BY <1>18, <2>1, CallEdits DEF SetAnswered, Ages
  <2>3. modal' \in Modals /\ (modal'.editing # None => modal'.show)
    BY <1>18, Forms DEF SetAnswered
  <2> QED
    BY <1>18, <2>1, <2>2, <2>3 DEF SetAnswered, Cleared
<1>19. ASSUME NEW s \in Slots, SetFailed(s) PROVE TypeOK'
  BY <1>19 DEF SetFailed, Free
<1>20. ASSUME NEW s \in Slots, DeleteAnswered(s) PROVE TypeOK'
  BY <1>20 DEF DeleteAnswered, Free, Calls, Ages, Modals, CallShape
<1>21. CASE UNCHANGED vars
  BY <1>21 DEF vars
<1> QED
  BY <1>1, <1>2, <1>3, <1>4, <1>5, <1>6, <1>7, <1>8, <1>9, <1>10, <1>11,
     <1>12, <1>13, <1>14, <1>15, <1>16, <1>17, <1>18, <1>19, <1>20, <1>21
     DEF Next, Serve, Answered

\* Gets, saves and deletes name a secret.
LEMMA StepCallShape == Inv /\ [Next]_vars => CallShape'
<1> SUFFICES ASSUME Inv, [Next]_vars PROVE CallShape'
  OBVIOUS
<1> USE NoneAssumption
       DEF Inv, TypeOK, CallShape, Busy, Has,
           Calls, Ages, backend, view
<1>1. ASSUME Refresh PROVE CallShape'
  BY <1>1 DEF Refresh, Send, NewCall
<1>2. ASSUME OpenCreate PROVE CallShape'
  BY <1>2 DEF OpenCreate
<1>3. ASSUME CloseCreate PROVE CallShape'
  BY <1>3 DEF CloseCreate
<1>4. ASSUME NEW n \in Names, Toggle(n) PROVE CallShape'
  BY <1>4 DEF Toggle, Fetch, Send, NewCall
<1>5. ASSUME NEW n \in Names, OpenEdit(n) PROVE CallShape'
  BY <1>5 DEF OpenEdit, Fetch, Send, NewCall
<1>6. ASSUME NEW n \in Names, RemoveSecret(n) PROVE CallShape'
  BY <1>6 DEF RemoveSecret, Send, NewCall
<1>7. ASSUME NEW n \in Names, SubmitCreate(n) PROVE CallShape'
  BY <1>7, TrimmedAssumption DEF SubmitCreate, Send, NewCall
<1>8. ASSUME NEW n \in Names, OtherSets(n) PROVE CallShape'
  BY <1>8 DEF OtherSets
<1>9. ASSUME NEW n \in Names, OtherRemoves(n) PROVE CallShape'
  BY <1>9 DEF OtherRemoves
<1>10. ASSUME NEW s \in Slots, ListAnswered(s) PROVE CallShape'
  BY <1>10 DEF ListAnswered, Free
<1>11. ASSUME NEW s \in Slots, GetAnswered(s) PROVE CallShape'
  BY <1>11 DEF GetAnswered, Free
<1>12. ASSUME NEW s \in Slots, GetFailed(s) PROVE CallShape'
  BY <1>12 DEF GetFailed, Free
<1>13. ASSUME NEW s \in Slots, SetAnswered(s) PROVE CallShape'
  BY <1>13 DEF SetAnswered, NewCall
<1>14. ASSUME NEW s \in Slots, SetFailed(s) PROVE CallShape'
  BY <1>14 DEF SetFailed, Free
<1>15. ASSUME NEW s \in Slots, DeleteAnswered(s) PROVE CallShape'
  BY <1>15 DEF DeleteAnswered, Free
<1>16. ASSUME NEW s \in Slots, Serve(s) PROVE CallShape'
  BY <1>16, CallServed DEF Serve
<1>17. CASE UNCHANGED vars
  BY <1>17 DEF vars
<1> QED
  BY <1>1, <1>2, <1>3, <1>4, <1>5, <1>6, <1>7, <1>8, <1>9, <1>10, <1>11,
     <1>12, <1>13, <1>14, <1>15, <1>16, <1>17
     DEF Next, Answered

\* A save is sent when no other is under way.
LEMMA SaveSentWaits ==
    ASSUME Inv, NEW n \in Names, SubmitCreate(n)
    PROVE  WaitsForOneCall'
<1> USE NoneAssumption DEF Inv, TypeOK, Busy
<1>1. PICK s \in Slots :
        ~Busy(s) /\ calls' = [calls EXCEPT ![s] = NewCall("set", Trimmed[n], modal.fields)]
  BY DEF SubmitCreate, Send
<1>2. Saves(s)' /\ (\A m \in Names : ~Fetches(s, m)' /\ ~Fetches(s, m))
  <2>1. Trimmed[n] \in Names \cup {None} /\ modal.fields \in Names \cup {None}
    BY TrimmedAssumption DEF Modals
  <2>2. NewCall("set", Trimmed[n], modal.fields) \in Calls
    BY <2>1, NewCalls
  <2> QED BY <1>1, <2>2 DEF Saves, Fetches, NewCall
<1>3. \A t \in Slots \ {s} :
        (Saves(t)' <=> Saves(t)) /\ \A m \in Names : Fetches(t, m)' <=> Fetches(t, m)
  BY <1>1 DEF Saves, Fetches
<1>4. \A t \in Slots : ~Saves(t)
  BY DEF SubmitCreate, WaitsForOneCall
<1>5. loading' = loading /\ creating' = TRUE
  BY DEF SubmitCreate, view
<1> QED
  BY <1>2, <1>3, <1>4, <1>5 DEF WaitsForOneCall

\* The answer of a save ends the wait, or hands it to the list.
LEMMA SaveAnsweredWaits ==
    ASSUME Inv, NEW s \in Slots, SetAnswered(s)
    PROVE  WaitsForOneCall'
<1> USE NoneAssumption DEF Inv, TypeOK, Busy
<1> DEFINE n == calls[s].name
<1>1. /\ n \in Names /\ n # None /\ Saves(s) /\ ~Has(s, "get", "ok")
      /\ \A m \in Names : ~Fetches(s, m)
  BY DEF SetAnswered, CallShape, Has, Saves, Fetches
<1>2. ASSUME NEW t \in Slots \ {s}
      PROVE  /\ Busy(t)' <=> Busy(t)
             /\ Busy(t) => calls'[t].op = calls[t].op /\ calls'[t].name = calls[t].name
  <2>1. CASE calls'[t] = calls[t]
    BY <2>1
  <2>2. CASE Busy(t) /\ calls'[t] = [calls[t] EXCEPT !.age = "late"]
    <3>1. calls[t] \in Calls
      BY <2>2
    <3>2. calls'[t] \in Calls
      BY <2>2, <3>1, CallEdits DEF Ages
    <3> QED
      BY <2>2, <3>1, <3>2 DEF Calls
  <2> QED
    BY <2>1, <2>2 DEF SetAnswered, Has
<1>3. \A t \in Slots \ {s} :
        (Saves(t)' <=> Saves(t)) /\ \A m \in Names : Fetches(t, m)' <=> Fetches(t, m)
  BY <1>2 DEF Saves, Fetches
<1>4. \A m \in Names : ~Fetches(s, m)'
  BY DEF SetAnswered, NewCall, Fetches
<1>5. /\ loading' = loading
      /\ \A m \in Names : m \in loading' <=> \E t \in Slots : Fetches(t, m)'
      /\ \A m \in Names, t, u \in Slots : Fetches(t, m)' /\ Fetches(u, m)' => t = u
  BY <1>1, <1>3, <1>4 DEF SetAnswered, WaitsForOneCall
<1>6. \A t \in Slots : Saves(t) => t = s
  BY <1>1 DEF WaitsForOneCall
<1>7. CASE modal.editing # None
  <2>1. ~Saves(s)' /\ creating' = FALSE
    BY <1>7 DEF SetAnswered, Saves
  <2> QED
    BY <2>1, <1>3, <1>5, <1>6 DEF WaitsForOneCall
<1>8. CASE modal.editing = None
  <2>1. Saves(s)' /\ creating' = creating
    BY <1>8, <1>1, NewCalls DEF SetAnswered, Saves, NewCall
  <2> QED
    BY <2>1, <1>1, <1>3, <1>5, <1>6 DEF WaitsForOneCall
<1> QED
  BY <1>7, <1>8

\* A fetch sets the row's flag, which keeps out the next one, and clears it when
\* it ends; a save and the list after it are one wait.
LEMMA StepWaitsForOneCall == Inv /\ [Next]_vars => WaitsForOneCall'
<1> SUFFICES ASSUME Inv, [Next]_vars PROVE WaitsForOneCall'
  OBVIOUS
<1> USE NoneAssumption
       DEF Inv, TypeOK, WaitsForOneCall, Fetches, Saves, Busy, Has,
           Calls, Ages, backend, view
<1>1. ASSUME Refresh PROVE WaitsForOneCall'
  BY <1>1 DEF Refresh, Send, NewCall
<1>2. ASSUME OpenCreate PROVE WaitsForOneCall'
  BY <1>2 DEF OpenCreate
<1>3. ASSUME CloseCreate PROVE WaitsForOneCall'
  BY <1>3 DEF CloseCreate
<1>4. ASSUME NEW n \in Names, Toggle(n) PROVE WaitsForOneCall'
  BY <1>4 DEF Toggle, Fetch, Send, NewCall
<1>5. ASSUME NEW n \in Names, OpenEdit(n) PROVE WaitsForOneCall'
  BY <1>5 DEF OpenEdit, Fetch, Send, NewCall
<1>6. ASSUME NEW n \in Names, RemoveSecret(n) PROVE WaitsForOneCall'
  BY <1>6 DEF RemoveSecret, Send, NewCall
<1>7. ASSUME NEW n \in Names, SubmitCreate(n) PROVE WaitsForOneCall'
  BY <1>7, SaveSentWaits
<1>8. ASSUME NEW n \in Names, OtherSets(n) PROVE WaitsForOneCall'
  BY <1>8 DEF OtherSets
<1>9. ASSUME NEW n \in Names, OtherRemoves(n) PROVE WaitsForOneCall'
  BY <1>9 DEF OtherRemoves
<1>10. ASSUME NEW s \in Slots, ListAnswered(s) PROVE WaitsForOneCall'
  BY <1>10 DEF ListAnswered, Free
<1>11. ASSUME NEW s \in Slots, GetAnswered(s) PROVE WaitsForOneCall'
  BY <1>11 DEF GetAnswered, Free
<1>12. ASSUME NEW s \in Slots, GetFailed(s) PROVE WaitsForOneCall'
  BY <1>12 DEF GetFailed, Free
<1>13. ASSUME NEW s \in Slots, SetAnswered(s) PROVE WaitsForOneCall'
  BY <1>13, SaveAnsweredWaits
<1>14. ASSUME NEW s \in Slots, SetFailed(s) PROVE WaitsForOneCall'
  BY <1>14 DEF SetFailed, Free
<1>15. ASSUME NEW s \in Slots, DeleteAnswered(s) PROVE WaitsForOneCall'
  BY <1>15 DEF DeleteAnswered, Free
<1>16. ASSUME NEW s \in Slots, Serve(s) PROVE WaitsForOneCall'
  BY <1>16, CallServed DEF Serve
<1>17. CASE UNCHANGED vars
  BY <1>17 DEF vars
<1> QED
  BY <1>1, <1>2, <1>3, <1>4, <1>5, <1>6, <1>7, <1>8, <1>9, <1>10, <1>11,
     <1>12, <1>13, <1>14, <1>15, <1>16, <1>17
     DEF Next, Answered

\* Both ways to open the dialog set the name and the fields, and closing clears both.
LEMMA StepFormsKept == Inv /\ [Next]_vars => FormsKept'
<1> SUFFICES ASSUME Inv, [Next]_vars PROVE FormsKept'
  OBVIOUS
<1> USE NoneAssumption
       DEF Inv, TypeOK, FormsKept, Busy, Has,
           Calls, Ages, backend, view, Modals
<1>1. ASSUME Refresh PROVE FormsKept'
  BY <1>1 DEF Refresh, Send, NewCall
<1>2. ASSUME OpenCreate PROVE FormsKept'
  BY <1>2 DEF OpenCreate, Closed
<1>3. ASSUME CloseCreate PROVE FormsKept'
  BY <1>3 DEF CloseCreate, Closed
<1>4. ASSUME NEW n \in Names, Toggle(n) PROVE FormsKept'
  BY <1>4 DEF Toggle, Fetch, Send, NewCall
<1>5. ASSUME NEW n \in Names, OpenEdit(n) PROVE FormsKept'
  BY <1>5 DEF OpenEdit, Fetch, Send, NewCall, Form
<1>6. ASSUME NEW n \in Names, RemoveSecret(n) PROVE FormsKept'
  BY <1>6 DEF RemoveSecret, Send, NewCall
<1>7. ASSUME NEW n \in Names, SubmitCreate(n) PROVE FormsKept'
  BY <1>7, TrimmedAssumption DEF SubmitCreate, Send, NewCall
<1>8. ASSUME NEW n \in Names, OtherSets(n) PROVE FormsKept'
  BY <1>8 DEF OtherSets
<1>9. ASSUME NEW n \in Names, OtherRemoves(n) PROVE FormsKept'
  BY <1>9 DEF OtherRemoves
<1>10. ASSUME NEW s \in Slots, ListAnswered(s) PROVE FormsKept'
  BY <1>10 DEF ListAnswered, Free, Closed
<1>11. ASSUME NEW s \in Slots, GetAnswered(s) PROVE FormsKept'
  BY <1>11 DEF GetAnswered, Free, Form
<1>12. ASSUME NEW s \in Slots, GetFailed(s) PROVE FormsKept'
  BY <1>12 DEF GetFailed, Free
<1>13. ASSUME NEW s \in Slots, SetAnswered(s) PROVE FormsKept'
  BY <1>13 DEF SetAnswered, Closed, NewCall
<1>14. ASSUME NEW s \in Slots, SetFailed(s) PROVE FormsKept'
  BY <1>14 DEF SetFailed, Free
<1>15. ASSUME NEW s \in Slots, DeleteAnswered(s) PROVE FormsKept'
  BY <1>15 DEF DeleteAnswered, Free
<1>16. ASSUME NEW s \in Slots, Serve(s) PROVE FormsKept'
  BY <1>16, CallServed DEF Serve
<1>17. CASE UNCHANGED vars
  BY <1>17 DEF vars
<1> QED
  BY <1>1, <1>2, <1>3, <1>4, <1>5, <1>6, <1>7, <1>8, <1>9, <1>10, <1>11,
     <1>12, <1>13, <1>14, <1>15, <1>16, <1>17
     DEF Next, Answered

\* A save makes values old, and its answer clears them or marks them late.
LEMMA StepOldAwaited == Inv /\ [Next]_vars => OldAwaited'
<1> SUFFICES ASSUME Inv, [Next]_vars PROVE OldAwaited'
  OBVIOUS
<1> USE NoneAssumption
       DEF Inv, TypeOK, OldAwaited, NoOldValueShown, Busy, Has,
           Calls, Ages, backend, view
<1>1. ASSUME Refresh PROVE OldAwaited'
  BY <1>1 DEF Refresh, Send, NewCall
<1>2. ASSUME OpenCreate PROVE OldAwaited'
  BY <1>2 DEF OpenCreate
<1>3. ASSUME CloseCreate PROVE OldAwaited'
  BY <1>3 DEF CloseCreate
<1>4. ASSUME NEW n \in Names, Toggle(n) PROVE OldAwaited'
  BY <1>4 DEF Toggle, Fetch, Send, NewCall
<1>5. ASSUME NEW n \in Names, OpenEdit(n) PROVE OldAwaited'
  BY <1>5 DEF OpenEdit, Fetch, Send, NewCall
<1>6. ASSUME NEW n \in Names, RemoveSecret(n) PROVE OldAwaited'
  BY <1>6 DEF RemoveSecret, Send, NewCall
<1>7. ASSUME NEW n \in Names, SubmitCreate(n) PROVE OldAwaited'
  BY <1>7, TrimmedAssumption DEF SubmitCreate, Send, NewCall
<1>8. ASSUME NEW n \in Names, OtherSets(n) PROVE OldAwaited'
  BY <1>8 DEF OtherSets
<1>9. ASSUME NEW n \in Names, OtherRemoves(n) PROVE OldAwaited'
  BY <1>9 DEF OtherRemoves
<1>10. ASSUME NEW s \in Slots, ListSecretNames(s),
            UNCHANGED <<secretNames, expanded, loading, modal, creating>>
      PROVE OldAwaited'
  BY <1>10 DEF ListSecretNames
<1>11. ASSUME NEW s \in Slots, GetSecret(s),
            UNCHANGED <<secretNames, expanded, loading, modal, creating>>
      PROVE OldAwaited'
  BY <1>11 DEF GetSecret
<1>12. ASSUME NEW s \in Slots, SetSecret(s),
            UNCHANGED <<secretNames, expanded, loading, modal, creating>>
      PROVE OldAwaited'
  BY <1>12 DEF SetSecret
<1>13. ASSUME NEW s \in Slots, DeleteSecret(s),
            UNCHANGED <<secretNames, expanded, loading, modal, creating>>
      PROVE OldAwaited'
  BY <1>13 DEF DeleteSecret, Ends
<1>14. ASSUME NEW s \in Slots, CallFails(s),
            UNCHANGED <<secretNames, expanded, loading, modal, creating>>
      PROVE OldAwaited'
  BY <1>14 DEF CallFails, Ends
<1>15. ASSUME NEW s \in Slots, ListAnswered(s) PROVE OldAwaited'
  BY <1>15 DEF ListAnswered, Free
<1>16. ASSUME NEW s \in Slots, GetAnswered(s) PROVE OldAwaited'
  BY <1>16 DEF GetAnswered, Free
<1>17. ASSUME NEW s \in Slots, GetFailed(s) PROVE OldAwaited'
  BY <1>17 DEF GetFailed, Free
<1>18. ASSUME NEW s \in Slots, SetAnswered(s) PROVE OldAwaited'
  BY <1>18 DEF SetAnswered, Cleared, NewCall
<1>19. ASSUME NEW s \in Slots, SetFailed(s) PROVE OldAwaited'
  BY <1>19 DEF SetFailed, Free
<1>20. ASSUME NEW s \in Slots, DeleteAnswered(s) PROVE OldAwaited'
  BY <1>20 DEF DeleteAnswered, Free
<1>21. CASE UNCHANGED vars
  BY <1>21 DEF vars
<1> QED
  BY <1>1, <1>2, <1>3, <1>4, <1>5, <1>6, <1>7, <1>8, <1>9, <1>10, <1>11,
     <1>12, <1>13, <1>14, <1>15, <1>16, <1>17, <1>18, <1>19, <1>20, <1>21
     DEF Next, Serve, Answered

\* A save is the only one, so the names of other calls are as they were.
LEMMA SaveKeepsSaved ==
    ASSUME Inv, NEW s \in Slots, SetSecret(s)
    PROVE  SavedStays'
<1> USE NoneAssumption DEF Inv, TypeOK, Busy
<1>1. Has(s, "set", "waiting") /\ calls[s].name \in Names
  BY DEF SetSecret, Has, CallShape
<1>2. \A t \in Slots \ {s} :
        /\ Busy(t)' <=> Busy(t)
        /\ Busy(t) => /\ calls'[t].op = calls[t].op /\ calls'[t].name = calls[t].name
                      /\ calls'[t].state = calls[t].state
                      /\ calls[t].op # "get" => calls'[t] = calls[t]
  BY DEF SetSecret, Has, Calls, Ages
<1>3. Busy(s)' /\ calls'[s].op = "set" /\ calls'[s].name = calls[s].name
  BY DEF SetSecret, Has, Calls
<1>4. \A t \in Slots \ {s} : ~Saves(t)
  BY <1>1 DEF WaitsForOneCall, Saves, Has
<1>5. calls[s].name \in stored'
  BY DEF SetSecret
<1>6. ASSUME NEW t \in Slots \ {s}, Busy(t), calls[t].name # None
      PROVE  calls[t].op \notin {"set", "list"}
  BY <1>4, <1>6 DEF Saves
<1> QED
  BY <1>2, <1>3, <1>5, <1>6 DEF SavedStays

\* Between a save and the end of its list no other save can take the name from
\* removed and not be in the list, as there is no other save.
LEMMA StepSavedStays == Inv /\ [Next]_vars => SavedStays'
<1> SUFFICES ASSUME Inv, [Next]_vars PROVE SavedStays'
  OBVIOUS
<1> USE NoneAssumption
       DEF Inv, TypeOK, SavedStays, Busy, Has,
           Calls, Ages, backend, view
<1>1. ASSUME Refresh PROVE SavedStays'
  BY <1>1 DEF Refresh, Send, NewCall
<1>2. ASSUME OpenCreate PROVE SavedStays'
  BY <1>2 DEF OpenCreate
<1>3. ASSUME CloseCreate PROVE SavedStays'
  BY <1>3 DEF CloseCreate
<1>4. ASSUME NEW n \in Names, Toggle(n) PROVE SavedStays'
  BY <1>4 DEF Toggle, Fetch, Send, NewCall
<1>5. ASSUME NEW n \in Names, OpenEdit(n) PROVE SavedStays'
  BY <1>5 DEF OpenEdit, Fetch, Send, NewCall
<1>6. ASSUME NEW n \in Names, RemoveSecret(n) PROVE SavedStays'
  BY <1>6 DEF RemoveSecret, Send, NewCall
<1>7. ASSUME NEW n \in Names, SubmitCreate(n) PROVE SavedStays'
  BY <1>7, TrimmedAssumption DEF SubmitCreate, Send, NewCall
<1>8. ASSUME NEW n \in Names, OtherSets(n) PROVE SavedStays'
  BY <1>8 DEF OtherSets
<1>9. ASSUME NEW n \in Names, OtherRemoves(n) PROVE SavedStays'
  BY <1>9 DEF OtherRemoves
<1>10. ASSUME NEW s \in Slots, ListSecretNames(s),
            UNCHANGED <<secretNames, expanded, loading, modal, creating>>
      PROVE SavedStays'
  BY <1>10 DEF ListSecretNames
<1>11. ASSUME NEW s \in Slots, GetSecret(s),
            UNCHANGED <<secretNames, expanded, loading, modal, creating>>
      PROVE SavedStays'
  BY <1>11 DEF GetSecret
<1>12. ASSUME NEW s \in Slots, SetSecret(s),
            UNCHANGED <<secretNames, expanded, loading, modal, creating>>
      PROVE SavedStays'
  BY <1>12, SaveKeepsSaved
<1>13. ASSUME NEW s \in Slots, DeleteSecret(s),
            UNCHANGED <<secretNames, expanded, loading, modal, creating>>
      PROVE SavedStays'
  BY <1>13 DEF DeleteSecret, Ends
<1>14. ASSUME NEW s \in Slots, CallFails(s),
            UNCHANGED <<secretNames, expanded, loading, modal, creating>>
      PROVE SavedStays'
  BY <1>14 DEF CallFails, Ends
<1>15. ASSUME NEW s \in Slots, ListAnswered(s) PROVE SavedStays'
  BY <1>15 DEF ListAnswered, Free
<1>16. ASSUME NEW s \in Slots, GetAnswered(s) PROVE SavedStays'
  BY <1>16 DEF GetAnswered, Free
<1>17. ASSUME NEW s \in Slots, GetFailed(s) PROVE SavedStays'
  BY <1>17 DEF GetFailed, Free
<1>18. ASSUME NEW s \in Slots, SetAnswered(s) PROVE SavedStays'
  BY <1>18 DEF SetAnswered, NewCall
<1>19. ASSUME NEW s \in Slots, SetFailed(s) PROVE SavedStays'
  BY <1>19 DEF SetFailed, Free
<1>20. ASSUME NEW s \in Slots, DeleteAnswered(s) PROVE SavedStays'
  BY <1>20 DEF DeleteAnswered, Free
<1>21. CASE UNCHANGED vars
  BY <1>21 DEF vars
<1> QED
  BY <1>1, <1>2, <1>3, <1>4, <1>5, <1>6, <1>7, <1>8, <1>9, <1>10, <1>11,
     <1>12, <1>13, <1>14, <1>15, <1>16, <1>17, <1>18, <1>19, <1>20, <1>21
     DEF Next, Serve, Answered

-----------------------------------------------------------------------------
(* The theorems *)

\* The invariant behind all that follows.
THEOREM FrontendInvariant == Spec => []Inv
<1>1. Inv /\ [Next]_vars => Inv'
  BY StepTypeOK, StepCallShape, StepWaitsForOneCall, StepFormsKept, StepOldAwaited,
     StepSavedStays DEF Inv
<1> QED
  BY InitInv, <1>1, PTL DEF Spec

\* Every variable keeps its type.
THEOREM FrontendTypeCorrect == Spec => []TypeOK
<1>1. Inv => TypeOK
  BY DEF Inv
<1> QED
  BY FrontendInvariant, <1>1, PTL

\* Rows and dialogs wait for exactly one call: toggle, openEdit and submitCreate
\* set and clear their flags with it.
THEOREM WaitsEnd == Spec => []WaitsForOneCall
<1>1. Inv => WaitsForOneCall
  BY DEF Inv
<1> QED
  BY FrontendInvariant, <1>1, PTL

\* Whatever fetches open the dialog over another, fields are saved under the name
\* they belong to, without the white space at its ends.
THEOREM EditsKeepTheirName == Spec => []EditKeepsName
<1>1. Inv => EditKeepsName
  BY DEF Inv, FormsKept, EditKeepsName
<1> QED
  BY FrontendInvariant, <1>1, PTL

\* A value read before a save is not shown after the save's answer, unless its
\* fetch was still under way then.
THEOREM OldValuesGo == Spec => []NoOldValueShown
<1>1. Inv => NoOldValueShown
  BY DEF Inv, OldAwaited
<1> QED
  BY FrontendInvariant, <1>1, PTL

\* submitCreate asks for the list after the save, and no other save comes between.
THEOREM CreatedAreListed == Spec => CreatedIsListed
<1> DEFINE Listed == \A s \in Slots :
        Has(s, "list", "ok") /\ calls[s].name # None /\ calls'[s] = None =>
            calls[s].name \in secretNames' \cup removed
<1>1. Inv /\ [Next]_vars => [Listed]_vars
  <2> SUFFICES ASSUME Inv, Next, NEW s \in Slots, Has(s, "list", "ok"),
                      calls[s].name # None, calls'[s] = None
               PROVE  calls[s].name \in secretNames' \cup removed
    OBVIOUS
  <2> USE NoneAssumption DEF Inv, TypeOK, Has, Busy
  <2>1. calls[s] \in Calls /\ calls[s].name \in calls[s].names \cup removed
    BY DEF SavedStays
  <2>2. CASE ListAnswered(s)
    BY <2>1, <2>2 DEF ListAnswered
  <2>3. CASE \E n \in Names : Toggle(n) \/ OpenEdit(n) \/ RemoveSecret(n) \/ SubmitCreate(n)
    BY <2>3 DEF Toggle, OpenEdit, RemoveSecret, SubmitCreate, Fetch, Send
  <2>4. CASE Refresh
    BY <2>4 DEF Refresh, Send
  <2>5. CASE OpenCreate \/ CloseCreate \/ \E n \in Names : OtherSets(n) \/ OtherRemoves(n)
    BY <2>5 DEF OpenCreate, CloseCreate, OtherSets, OtherRemoves
  <2>6. ASSUME NEW t \in Slots, Serve(t) PROVE calls'[s] = calls[s]
    BY <2>6 DEF Serve, ListSecretNames, GetSecret, SetSecret, DeleteSecret, CallFails, Ends
  <2>7. ASSUME NEW t \in Slots \ {s}, Answered(t) PROVE calls'[s] = calls[s]
    BY <2>7 DEF Answered, ListAnswered, GetAnswered, GetFailed, SetAnswered, SetFailed,
                DeleteAnswered, Free
  <2>8. Answered(s) => ListAnswered(s)
    BY DEF Answered, GetAnswered, GetFailed, SetAnswered, SetFailed, DeleteAnswered
  <2> QED
    BY <2>2, <2>3, <2>4, <2>5, <2>6, <2>7, <2>8 DEF Next
<1> QED
  BY FrontendInvariant, <1>1, PTL DEF Spec, CreatedIsListed
=============================================================================
