---------------------------- MODULE CommandVault ----------------------------
(***************************************************************************)
(* The vault as one command of `sauce` sees it.  Each call to the service  *)
(* takes effect at one moment, which Vault justifies (AtomicVault); other  *)
(* processes set and remove secrets between the calls.                     *)
(*                                                                         *)
(* A secret's data is a function from texts, the field names, to texts.  A *)
(* text is a sequence of lines, a line the sequence of its parts between   *)
(* "=" signs: <<<<"a">>>> is the text a, <<<<"a", "b">>>> the text a=b.    *)
(***************************************************************************)
EXTENDS Naturals, FiniteSets, SequencesExt

CONSTANTS
    Names,      \* the names of secrets
    Contents,   \* the data that was there and that others write
    Shared,     \* the secrets others write
    MaxOthers,  \* bound: how many different changes they make
    None        \* no secret

Text == {t \in Seq(Seq(STRING)) : t # <<>> /\ \A i \in DOMAIN t : t[i] # <<>>}

\* The text of one word, and the field of environment and file secrets.
Word(w) == <<<<w>>>>
ValueKey == Word("value")
OnlyValue(text) == [key \in {ValueKey} |-> text]

ASSUME SharedAssumption == Shared \subseteq Names
ASSUME AbsentAssumption == None \notin Contents
ASSUME ContentsAssumption == \A data \in Contents :
    DOMAIN data \subseteq Text /\ data \in [DOMAIN data -> Text]

VARIABLES
    secrets,    \* name -> its data, or None
    before,     \* history: secrets when the command started
    others,     \* history: pairs <<name, data>> others have written since
    via,        \* the service resolved: "local" or "daemon"
    request,    \* what the command was given
    pc          \* where it is, or how it ended

commandVault == <<secrets, others, before, via, request, pc>>

Ended == {"done", "failed", "incomplete"}

\* How a command finds the vault.
Start(command) ==
    /\ secrets \in [Names -> Contents \cup {None}]
    /\ before = secrets
    /\ others = {}
    /\ via \in {"local", "daemon"}
    /\ pc = command

OthersWrote(n) == {o[2] : o \in {x \in others : x[1] = n}}

\* Another process sets a secret, or removes it.
OtherWrites(n, data) ==
    /\ Cardinality(others \cup {<<n, data>>}) <= MaxOthers
    /\ secrets' = [secrets EXCEPT ![n] = data]
    /\ others' = others \cup {<<n, data>>}
    /\ UNCHANGED <<before, via, request, pc>>

-----------------------------------------------------------------------------
\* A step of the command itself, with or without a call that changes secrets.
Goes(from, to) ==
    /\ pc = from /\ pc' = to
    /\ UNCHANGED <<others, before, via, request>>

Writes(n, data) == secrets' = [secrets EXCEPT ![n] = data]

\* A call to the daemon may fail after the write.
WriteFails(n, data) ==
    \/ UNCHANGED secrets
    \/ via = "daemon" /\ Writes(n, data)

\* f, which also maps x to v.
Extended(f, x, v) == [y \in DOMAIN f \cup {x} |-> IF y = x THEN v ELSE f[y]]

-----------------------------------------------------------------------------
\* The text key=value; what is before and after its first "=".
Pair(key, value) == Front(key) \o <<Last(key) \o Head(value)>> \o Tail(value)
HasKey(text) == \E i \in DOMAIN text : Len(text[i]) > 1
CutLine(text) ==
    CHOOSE i \in DOMAIN text :
        Len(text[i]) > 1 /\ \A j \in DOMAIN text : Len(text[j]) > 1 => i <= j
CutKey(text) == SubSeq(text, 1, CutLine(text) - 1) \o Word(Head(text[CutLine(text)]))
LinesAfter(text) == SubSeq(text, CutLine(text) + 1, Len(text))

\* A slip: the part between the first and the second "=".
CutValueSplit(text) == Word(text[CutLine(text)][2]) \o LinesAfter(text)
CutValue(text) == <<Tail(text[CutLine(text)])>> \o LinesAfter(text)

\* The data of pairs; the last one of a key counts.
LastOf(texts, key) ==
    CHOOSE i \in DOMAIN texts :
        CutKey(texts[i]) = key /\ \A j \in DOMAIN texts : j > i => CutKey(texts[j]) # key
FromPairs(texts) ==
    [key \in {CutKey(texts[i]) : i \in DOMAIN texts} |-> CutValue(texts[LastOf(texts, key)])]

\* Keys without "=" signs; fields of one line.
Plain(key) == \A i \in DOMAIN key : Len(key[i]) = 1
PlainKeys(data) == \A key \in DOMAIN data : Plain(key)
OneLine(data) == \A key \in DOMAIN data : Len(key) = 1 /\ Len(data[key]) = 1
=============================================================================
