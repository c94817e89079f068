---------------------------- MODULE ImportItems ----------------------------
(***************************************************************************)
(* What `sauce import 1password` makes of the items of an export: one task *)
(* (a key and a map of fields) per item, or nothing when the item has no   *)
(* usable value.                                                           *)
(*                                                                         *)
(* An item has a category, title, url, uuid, login (a sequence of fields   *)
(* with name, designation, value), section (the fields of all its sections *)
(* one after the other: title, string, totp, and ssh, a sequence of pairs  *)
(* <<key, value>> that is empty for other fields), notes, and, for a       *)
(* document, fileName and file: the content, or NoFile without a readable  *)
(* zip entry.  NoText is what any of them is when the export has none.      *)
(***************************************************************************)
EXTENDS Naturals, SequencesExt, TLC

CONSTANTS
    Normal,     \* string -> what normalizeKey leaves of it, NoText for nothing
    NoFile      \* a document whose file the archive does not have

\* The empty string.
NoText == ""

FirstNonEmpty(s) ==
    LET i == SelectInSeq(s, LAMBDA x : x # NoText) IN IF i = 0 THEN NoText ELSE s[i]

LoginValues(item) == [i \in DOMAIN item.login |-> item.login[i].value]
Designated(item, what) ==
    LET found == SelectSeq(item.login, LAMBDA f : f.designation = what)
    IN  FirstNonEmpty([i \in DOMAIN found |-> found[i].value])

\* The value of a section field: its string, its private key, its code.
FieldValue(f) ==
    FirstNonEmpty(<<f.string, IF f.ssh = <<>> THEN NoText ELSE f.ssh[1][2], f.totp>>)
SectionValues(item) == [i \in DOMAIN item.section |-> FieldValue(item.section[i])]

BaseKey(item) ==
    LET key == FirstNonEmpty(<<Normal[item.title], Normal[item.url],
                               Normal[Designated(item, "username")]>>)
    IN  IF key # NoText THEN key ELSE "item_" \o item.uuid

-----------------------------------------------------------------------------
(* Categories that keep all fields: each is put under a key.  A put with   *)
(* no key is none; keep says whether an empty value is stored.             *)

Suffixed(key, n) == key \o "_" \o ToString(n)

\* f, which also maps key to x.
With(f, key, x) == [k \in DOMAIN f \cup {key} |-> IF k = key THEN x ELSE f[k]]

\* A slip: the counter stays.
PutSameSuffix(acc, put) ==
    LET dest == IF put.key \in DOMAIN acc.fields
                THEN Suffixed(put.key, acc.counter) ELSE put.key
    IN  IF put.key = NoText \/ (put.value = NoText /\ ~put.keep) THEN acc
        ELSE [acc EXCEPT !.fields = With(acc.fields, dest, put.value)]

\* acc has the fields so far and the counter that makes a second field of a key
\* different.  The suffixed key is not looked up again.
Put(acc, put) ==
    LET taken == put.key \in DOMAIN acc.fields
        dest  == IF taken THEN Suffixed(put.key, acc.counter) ELSE put.key
    IN  IF put.key = NoText THEN acc
        ELSE [fields  |-> IF put.value # NoText \/ put.keep
                          THEN With(acc.fields, dest, put.value) ELSE acc.fields,
              counter |-> IF taken THEN acc.counter + 1 ELSE acc.counter]

LoginKey(f) == FirstNonEmpty(<<Normal[f.name], Normal[f.designation]>>)
LoginPut(f) == [key |-> LoginKey(f), value |-> f.value, keep |-> TRUE]

\* An empty part of an SSH key is not looked at.
PartPut(pair) ==
    [key |-> IF pair[2] = NoText THEN NoText ELSE pair[1], value |-> pair[2], keep |-> TRUE]

SectionPuts(f) ==
    IF Normal[f.title] # NoText /\ f.ssh # <<>>
    THEN [i \in DOMAIN f.ssh |-> PartPut(f.ssh[i])]
    ELSE <<[key |-> Normal[f.title], value |-> FieldValue(f), keep |-> FALSE]>>

Puts(item) ==
    LET upTo[n \in 0..Len(item.section)] ==
            IF n = 0 THEN [i \in DOMAIN item.login |-> LoginPut(item.login[i])]
            ELSE upTo[n - 1] \o SectionPuts(item.section[n])
    IN  upTo[Len(item.section)]

PutAll(puts) ==
    LET acc[n \in 0..Len(puts)] ==
            IF n = 0 THEN [fields |-> <<>>, counter |-> 0] ELSE Put(acc[n - 1], puts[n])
    IN  acc[Len(puts)].fields

MapFields(item) ==
    IF item.notes = NoText THEN PutAll(Puts(item))
    ELSE With(PutAll(Puts(item)), "notes", item.notes)

-----------------------------------------------------------------------------
\* The single value of an item of the other categories, NoText for none.
OneValue(item) ==
    CASE item.category = "password" ->
            FirstNonEmpty(<<Designated(item, "password")>> \o LoginValues(item))
      [] item.category = "securenote" ->
            FirstNonEmpty(<<item.notes>> \o SectionValues(item))
      [] OTHER ->
            FirstNonEmpty(LoginValues(item) \o SectionValues(item) \o <<item.notes>>)

Usable(item) ==
    CASE item.category = "map" -> TRUE
      [] item.category = "document" -> item.file # NoFile
      [] OTHER -> OneValue(item) # NoText

DocumentKey(item) == FirstNonEmpty(<<Normal[item.fileName], BaseKey(item)>>)

WriteTask(item) ==
    CASE item.category = "map" -> [key |-> BaseKey(item), data |-> MapFields(item)]
      [] item.category = "document" ->
            [key |-> DocumentKey(item), data |-> [value |-> item.file]]
      [] OTHER -> [key |-> BaseKey(item), data |-> [value |-> OneValue(item)]]

\* The tasks of the usable items, by their places in the export.
Tasks(export) ==
    [i \in {j \in DOMAIN export : Usable(export[j])} |-> WriteTask(export[i])]

-----------------------------------------------------------------------------
(* The keys an item's fields ask for, and the values that should be kept.  *)
Asked(item) == {put.key : put \in Range(Puts(item))} \ {NoText}

\* The parts of an item are sequences, the parts of an SSH key have names, and
\* the numbers at the ends of suffixed keys can be read off them.
WellFormed(item) ==
    /\ item.login \in Seq(Range(item.login)) /\ item.section \in Seq(Range(item.section))
    /\ \A f \in Range(item.section) :
            f.ssh \in Seq(Range(f.ssh)) /\ \A pair \in Range(f.ssh) : pair[1] # NoText
    /\ \A k, l \in Asked(item), m, n \in 0..Len(Puts(item)) :
            Suffixed(k, m) # "notes" /\ (Suffixed(k, m) = Suffixed(l, n) => m = n)

\* A key that another field's suffixed key may equal, or the key of the notes.
Lookalike(item) ==
    \/ \E k, l \in Asked(item), n \in 0..Len(Puts(item)) : k = Suffixed(l, n)
    \/ item.notes # NoText /\ "notes" \in Asked(item)

Values(f) == IF f.ssh # <<>> THEN {pair[2] : pair \in Range(f.ssh)} ELSE {FieldValue(f)}
WantedOfLogin(item) == {f.value : f \in {g \in Range(item.login) : LoginKey(g) # NoText}}
WantedOfSections(item) ==
    UNION {Values(f) : f \in {g \in Range(item.section) : Normal[g.title] # NoText}}
Wanted(item) == WantedOfLogin(item) \cup WantedOfSections(item) \cup {item.notes}
=============================================================================
