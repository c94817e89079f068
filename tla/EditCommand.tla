----------------------------- MODULE EditCommand -----------------------------
(***************************************************************************)
(* `sauce set` and `sauce edit`.  set makes the data of its arguments and  *)
(* writes it.  edit reads the secret, shows it to a person in an editor,   *)
(* for as long as it takes, and writes what the editor leaves.             *)
(***************************************************************************)
EXTENDS CommandVault

CONSTANTS
    Requests,   \* records of kind, name, args: a sequence of texts, used by set
    FieldOrder, \* the field names in the order of sort.Strings
    Typed,      \* what a person may type instead of what is shown
    TrimLeft,   \* a part of a line -> without the white space at its start
    TrimRight   \* the same at its end

ASSUME RequestsAssumption == \A r \in Requests :
    r.name \in Names /\ r.args \in Seq(Range(r.args))
ASSUME FieldOrderAssumption ==
    /\ FieldOrder \in Seq(Text)
    /\ \A data \in Contents : DOMAIN data \subseteq Range(FieldOrder)

VARIABLES
    base,       \* what edit has read, None for nothing
    shown,      \* the text given to the editor
    typed       \* the text it left

edit == <<base, shown, typed>>

EditOff == base = None /\ shown = <<>> /\ typed = <<>>

EditInit ==
    /\ request \in Requests
    /\ Start("set") \/ Start("edit")
    /\ EditOff

EmptyLine == <<"">>
Blank == <<EmptyLine>>

-----------------------------------------------------------------------------
(* set: environment and file have one argument, the value. *)

SetData ==
    IF request.kind = "map" THEN FromPairs(request.args)
    ELSE OnlyValue(Head(request.args))

BadArgs ==
    IF request.kind = "map"
    THEN request.args = <<>> \/ \E i \in DOMAIN request.args : ~HasKey(request.args[i])
    ELSE Len(request.args) # 1

Set ==
    /\ Goes("set", "done")
    /\ ~BadArgs
    /\ Writes(request.name, SetData)
    /\ UNCHANGED edit

\* Refused arguments, no service, or an error of the call.
SetFails ==
    /\ Goes("set", "failed")
    /\ IF BadArgs THEN UNCHANGED secrets ELSE WriteFails(request.name, SetData)
    /\ UNCHANGED edit

-----------------------------------------------------------------------------
(* edit *)

\* The lines of a map, k=v by field; "\n" joins them.
Format(data) ==
    LET text[n \in 0..Len(FieldOrder)] ==
            IF n = 0 THEN <<>>
            ELSE IF FieldOrder[n] \notin DOMAIN data THEN text[n - 1]
            ELSE text[n - 1] \o Pair(FieldOrder[n], data[FieldOrder[n]])
    IN  IF data = <<>> THEN Blank ELSE text[Len(FieldOrder)]

\* A slip: a single value is shown as get prints it.
ShownAsGet(data) == IF DOMAIN data = {ValueKey} THEN data[ValueKey] ELSE Format(data)

Shown(data) ==
    IF request.kind = "map" THEN Format(data)
    ELSE IF ValueKey \in DOMAIN data THEN data[ValueKey] ELSE Blank

\* The current value, into the temp file.
ReadForEdit ==
    /\ Goes("edit", "editor")
    /\ secrets[request.name] # None
    /\ base' = secrets[request.name]
    /\ shown' = Shown(base')
    /\ UNCHANGED <<secrets, typed>>

\* Not found: an empty text.  The daemon's "not found" is an error like any
\* other, so this needs the local service.
StartEmpty ==
    /\ Goes("edit", "editor")
    /\ secrets[request.name] = None /\ via = "local"
    /\ shown' = Blank
    /\ UNCHANGED <<secrets, base, typed>>

\* Any other error, before the editor or of it.
EditFails ==
    /\ \E from \in {"edit", "editor"} : Goes(from, "failed")
    /\ UNCHANGED <<secrets, edit>>

EditorSaves(text) ==
    /\ Goes("editor", "save")
    /\ typed' = text
    /\ UNCHANGED <<secrets, base, shown>>

\* strings.TrimSpace: a line loses the white space at its start, or its end.
TrimFront(line) == <<TrimLeft[Head(line)]>> \o Tail(line)
TrimBack(line) == [line EXCEPT ![Len(line)] = TrimRight[@]]

\* The places of the lines of a text that are not white space only, and the
\* text from the first of them to the last: a function on its places.
Ink(text) == {i \in DOMAIN text : TrimFront(text[i]) # EmptyLine}
TrimSpace(text) ==
    [i \in {j \in DOMAIN text : \E k, l \in Ink(text) : k <= j /\ j <= l} |->
        LET line == IF \A j \in Ink(text) : i <= j THEN TrimFront(text[i]) ELSE text[i]
        IN  IF \A j \in Ink(text) : j <= i THEN TrimBack(line) ELSE line]

\* Empty lines do not count; each other line is a text of its own.
EditedLines ==
    LET text == TrimSpace(typed)
    IN  [i \in {j \in DOMAIN text : text[j] # EmptyLine} |-> <<text[i]>>]

BadLine == request.kind = "map" /\ \E i \in DOMAIN EditedLines : ~HasKey(EditedLines[i])

EditedData == IF request.kind = "map" THEN FromPairs(EditedLines) ELSE OnlyValue(typed)

SaveEdit ==
    /\ Goes("save", "done")
    /\ ~BadLine
    /\ Writes(request.name, EditedData)
    /\ UNCHANGED edit

SaveFails ==
    /\ Goes("save", "failed")
    /\ IF BadLine THEN UNCHANGED secrets ELSE WriteFails(request.name, EditedData)
    /\ UNCHANGED edit

EditNext ==
    /\ pc \in {"set", "edit", "editor", "save"}
    /\ \/ SetFails
       \/ Set
       \/ ReadForEdit
       \/ StartEmpty
       \/ EditFails
       \/ \E text \in {shown} \cup Typed : EditorSaves(text)
       \/ SaveFails
       \/ SaveEdit

\* A person may leave the editor open for ever.
EditProgress == pc # "editor" /\ EditNext

-----------------------------------------------------------------------------
\* set stores what its pairs say and nothing else, whatever "=" signs and lines
\* the values have, in whatever order and however often they are given: the
\* fields a secret had before are gone.
SetStoresWhatIsMeant ==
    [][ \A data \in Contents :
            /\ pc = "set" /\ pc' = "done" /\ request.kind = "map"
            /\ PlainKeys(data)
            /\ Range(request.args) = {Pair(f, data[f]) : f \in DOMAIN data}
            => secrets' = [secrets EXCEPT ![request.name] = data]
      ]_<<commandVault, edit>>

\* What the format of edit can carry: of a map fields of one line, "=" signs in
\* values only and no white space before the first key; of environment and
\* file a single field.
Carried ==
    /\ base # None
    /\ IF request.kind = "map"
       THEN /\ base # <<>> /\ OneLine(base) /\ PlainKeys(base)
            /\ TrimFront(Head(shown)) = Head(shown)
       ELSE DOMAIN base = {ValueKey}

TrimEnd(text) == <<TrimBack(Head(text))>>

\* A secret that was shown and left as it was is written back as it was read,
\* except that the value shown last in a map loses the white space at its end.
UntouchedEditKeeps ==
    [][ pc = "save" /\ pc' = "done" /\ typed = shown /\ Carried =>
            IF request.kind = "map"
            THEN \E f \in DOMAIN base :
                    /\ Pair(f, base[f]) = <<Last(shown)>>
                    /\ secrets' = [secrets EXCEPT
                            ![request.name] = [base EXCEPT ![f] = TrimEnd(@)]]
            ELSE secrets' = [secrets EXCEPT ![request.name] = base]
      ]_<<commandVault, edit>>
=============================================================================
