---------------------------- MODULE FieldsProofs ----------------------------
(***************************************************************************)
(* What the algorithms on fields compute, for every input: strings.Cut     *)
(* undoes k=v, the format of edit is read back as the data it was made of, *)
(* and the fields import makes of an item keep every value it has.         *)
(***************************************************************************)
EXTENDS EditCommand, ImportItems, Integers, SequenceTheorems, WellFoundedInduction, TLAPS

\* A set of numbers has a least one.
LEMMA LeastOf ==
    ASSUME NEW T \in SUBSET Nat, T # {}
    PROVE  \E m \in T : \A k \in T : m <= k
<1>1. PICK m \in T : \A k \in T : <<k, m>> \notin OpToRel(<, Nat)
  BY WFMin, NatLessThanWellFounded, Zenon
<1>2. \A k \in T : ~(k < m)
  BY <1>1, Zenon DEF OpToRel
<1> QED BY <1>2

\* Induction, over a set instead of a predicate.
LEMMA SetInduction ==
    ASSUME NEW T, 0 \in T, \A n \in Nat : n \in T => n + 1 \in T
    PROVE  Nat \subseteq T
<1> DEFINE U == Nat \ T
<1>1. CASE U # {}
  <2>1. PICK m \in U : \A k \in U : m <= k
    BY <1>1, LeastOf
  <2>2. m \in Nat /\ m # 0 /\ m - 1 \in Nat
    BY <2>1
  <2>3. m - 1 \in T
    BY <2>1, <2>2
  <2> QED BY <2>1, <2>2, <2>3
<1> QED BY <1>1

\* A set of numbers up to n has a greatest one.
LEMMA GreatestOf ==
    ASSUME NEW n \in Nat, NEW T \in SUBSET (1..n), T # {}
    PROVE  \E m \in T : \A k \in T : k <= m
<1> DEFINE U == {n - k : k \in T}
<1>1. U \in SUBSET Nat /\ U # {}
  <2>1. \A k \in T : k \in 1..n
    OBVIOUS
  <2>2. \A k \in T : n - k \in Nat
    BY <2>1
  <2> QED BY <2>2
<1>2. PICK u \in U : \A w \in U : u <= w
  <2> HIDE DEF U
  <2> QED BY <1>1, LeastOf
<1>3. PICK m \in T : u = n - m
  BY <1>2
<1>4. \A k \in T : n - k \in U
  OBVIOUS
<1>5. \A k \in T : k <= m
  BY <1>2, <1>3, <1>4
<1> QED BY <1>3, <1>5

-----------------------------------------------------------------------------
(* key=value: strings.Cut of set and edit *)

\* A text has a line, and every line a part.
AText(Parts) == {t \in Seq(Seq(Parts)) : t # <<>> /\ \A i \in DOMAIN t : t[i] # <<>>}

\* A sequence put before another comes off again.
LEMMA PutBefore ==
    ASSUME NEW S, NEW x \in S, NEW rest \in Seq(S)
    PROVE  /\ <<x>> \o rest \in Seq(S) /\ Len(<<x>> \o rest) = Len(rest) + 1
           /\ Head(<<x>> \o rest) = x /\ Tail(<<x>> \o rest) = rest
<1> DEFINE all == <<x>> \o rest
<1>1. /\ <<x>> \in Seq(S) /\ Len(<<x>>) = 1 /\ Len(rest) \in Nat
  BY LenProperties
<1>2. /\ all \in Seq(S) /\ Len(all) = Len(rest) + 1 /\ all[1] = x
      /\ \A i \in 1..Len(rest) : all[i + 1] = rest[i]
  <2>1. /\ all \in Seq(S) /\ Len(all) = 1 + Len(rest)
        /\ \A i \in 1..(1 + Len(rest)) : all[i] = IF i <= 1 THEN <<x>>[i] ELSE rest[i - 1]
    BY <1>1, ConcatProperties
  <2> HIDE DEF all
  <2> QED BY <1>1, <2>1
<1> HIDE DEF all
<1>3. all # <<>>
  BY <1>1, <1>2
<1>4. Head(all) = x
  BY <1>2, <1>3
<1>5. /\ Tail(all) \in Seq(S) /\ Len(Tail(all)) = Len(all) - 1
      /\ \A i \in 1..Len(Tail(all)) : Tail(all)[i] = all[i + 1]
  BY <1>2, <1>3, HeadTailProperties
<1>6. Len(Tail(all)) = Len(rest)
  BY <1>1, <1>2, <1>5
<1>7. Tail(all) = rest
  BY <1>1, <1>2, <1>5, <1>6, SeqEqual
<1> QED BY <1>2, <1>4, <1>7 DEF all

\* A sequence is its head and its tail.
LEMMA HeadAndTail ==
    ASSUME NEW S, NEW s \in Seq(S), s # <<>>
    PROVE  <<Head(s)>> \o Tail(s) = s /\ Head(s) \in S /\ Tail(s) \in Seq(S)
<1>1. /\ Head(s) \in S /\ Tail(s) \in Seq(S) /\ Len(Tail(s)) = Len(s) - 1
      /\ \A i \in 1..Len(Tail(s)) : Tail(s)[i] = s[i + 1]
  BY HeadTailProperties
<1>2. Len(s) \in Nat \ {0} /\ Head(s) = s[1]
  BY EmptySeq
<1>3. /\ <<Head(s)>> \in Seq(S) /\ Len(<<Head(s)>>) = 1 /\ <<Head(s)>>[1] = s[1]
  BY <1>1, <1>2
<1> DEFINE all == <<Head(s)>> \o Tail(s)
<1>4. /\ all \in Seq(S) /\ Len(all) = 1 + Len(Tail(s))
      /\ \A i \in 1..(1 + Len(Tail(s))) :
            all[i] = IF i <= 1 THEN <<Head(s)>>[i] ELSE Tail(s)[i - 1]
  BY <1>1, <1>3, ConcatProperties
<1> HIDE DEF all
<1>5. Len(all) = Len(s) /\ \A i \in 1..Len(all) : all[i] = s[i]
  BY <1>1, <1>2, <1>3, <1>4
<1>6. all = s
  BY <1>4, <1>5, SeqEqual
<1> QED BY <1>1, <1>6 DEF all

\* The c elements of a sequence that follow the first a.
LEMMA PartOf ==
    ASSUME NEW S, NEW s \in Seq(S), NEW a \in Nat, NEW c \in Nat, a + c <= Len(s),
           NEW part, part = SubSeq(s, a + 1, a + c)
    PROVE  part \in Seq(S) /\ Len(part) = c /\ \A i \in 1..c : part[i] = s[a + i]
<1>1. PICK from \in Int, to \in Int : from = a + 1 /\ to = a + c
  OBVIOUS
<1>2. \A i \in from..to : s[i] \in S
  BY <1>1, LenProperties
<1>3. /\ part \in Seq(S) /\ Len(part) = IF from <= to THEN to - from + 1 ELSE 0
      /\ \A i \in 1..(to - from + 1) : part[i] = s[from + i - 1]
  BY ONLY <1>1, <1>2, part = SubSeq(s, a + 1, a + c), SubSeqProperties
<1>4. to - from + 1 = c /\ \A i \in 1..c : from + i - 1 = a + i
  BY <1>1
<1>5. (IF from <= to THEN to - from + 1 ELSE 0) = c
  BY <1>1
<1> QED BY ONLY <1>3, <1>4, <1>5

\* Two sequences, one after the other.
LEMMA BothOf ==
    ASSUME NEW S, NEW s \in Seq(S), NEW t \in Seq(S)
    PROVE  /\ s \o t \in Seq(S) /\ Len(s \o t) = Len(s) + Len(t)
           /\ \A i \in 1..Len(s) : (s \o t)[i] = s[i]
           /\ \A i \in 1..Len(t) : (s \o t)[Len(s) + i] = t[i]
<1> PICK both : both = s \o t
  OBVIOUS
<1>0. PICK a \in Nat, b \in Nat : a = Len(s) /\ b = Len(t)
  BY LenProperties
<1>1. /\ both \in Seq(S) /\ Len(both) = a + b
      /\ \A i \in 1..(a + b) : both[i] = IF i <= a THEN s[i] ELSE t[i - a]
  BY <1>0, ConcatProperties
<1>2. ASSUME NEW i \in 1..b
      PROVE  both[a + i] = t[i]
  <2>1. PICK j \in 1..(a + b) : j = a + i /\ ~(j <= a) /\ j - a = i
    OBVIOUS
  <2> QED BY ONLY <1>1, <2>1
<1>3. ASSUME NEW i \in 1..a
      PROVE  both[i] = s[i]
  <2>1. i \in 1..(a + b) /\ i <= a
    OBVIOUS
  <2> QED BY ONLY <1>1, <2>1
<1> QED BY <1>0, <1>1, <1>2, <1>3

\* A text has a first line.
LEMMA TextHasLines ==
    ASSUME NEW Parts, NEW text \in AText(Parts), NEW Lines, Lines = Seq(Parts)
    PROVE  \E n \in Nat : /\ Len(text) = n + 1 /\ text \in Seq(Lines) /\ DOMAIN text = 1..(n + 1)
                          /\ \A i \in 1..(n + 1) :
                                text[i] \in Seq(Parts) /\ Len(text[i]) \in Nat \ {0}
                          /\ Head(text) = text[1]
<1>1. text \in Seq(Lines) /\ text # <<>> /\ \A i \in DOMAIN text : text[i] # <<>>
  BY DEF AText
<1>2. Len(text) \in Nat \ {0}
  BY <1>1, EmptySeq
<1>3. PICK n \in Nat : Len(text) = n + 1
  <2>1. Len(text) - 1 \in Nat /\ Len(text) = (Len(text) - 1) + 1
    BY <1>2
  <2> QED BY <2>1
<1>4. DOMAIN text = 1..(n + 1)
  BY <1>1, <1>3, LenProperties
<1>5. ASSUME NEW i \in 1..(n + 1)
      PROVE  text[i] \in Seq(Parts) /\ Len(text[i]) \in Nat \ {0}
  <2>1. text[i] \in Seq(Parts) /\ text[i] # <<>>
    BY <1>1, <1>4
  <2> QED BY <2>1, EmptySeq
<1> QED BY <1>1, <1>3, <1>4, <1>5

\* key=value, line by line: the lines of the key, of which the last is joined
\* with the first of the value, and the other lines of the value.
LEMMA LinesOfPair ==
    ASSUME NEW Parts, NEW key \in AText(Parts), NEW text \in AText(Parts)
    PROVE  /\ Pair(key, text) \in Seq(Seq(Parts))
           /\ Len(Pair(key, text)) = Len(key) + Len(text) - 1
           /\ \A i \in 1..(Len(key) - 1) : Pair(key, text)[i] = key[i]
           /\ Pair(key, text)[Len(key)] = key[Len(key)] \o text[1]
           /\ \A i \in 1..(Len(text) - 1) : Pair(key, text)[Len(key) + i] = text[i + 1]
<1> PICK Lines : Lines = Seq(Parts)
  OBVIOUS
<1> PICK m \in Nat : Len(key) = m + 1 /\ key \in Seq(Lines)
  BY TextHasLines
<1> PICK n \in Nat : Len(text) = n + 1 /\ text \in Seq(Lines)
  BY TextHasLines
<1>0. PICK pair : pair = Pair(key, text)
  OBVIOUS
<1>1. PICK front : front = SubSeq(key, 1, m)
  OBVIOUS
<1>2. front \in Seq(Lines) /\ Len(front) = m /\ \A i \in 1..m : front[i] = key[i]
  <2>1. 0 + m <= Len(key) /\ 0 + 1 = 1 /\ 0 + m = m /\ 0 \in Nat
    OBVIOUS
  <2>2. front = SubSeq(key, 0 + 1, 0 + m)
    BY <1>1, <2>1
  <2>3. front \in Seq(Lines) /\ Len(front) = m /\ \A i \in 1..m : front[i] = key[0 + i]
    BY <2>1, <2>2, PartOf
  <2>4. \A i \in 1..m : 0 + i = i
    OBVIOUS
  <2> QED BY ONLY <2>3, <2>4
<1>3. key # <<>> /\ text # <<>>
  BY EmptySeq
<1>4. PICK joined \in Lines : joined = key[m + 1] \o text[1]
  <2>1. key[m + 1] \in Lines /\ text[1] \in Lines
    BY LenProperties
  <2>2. PICK k \in Lines, t \in Lines : k = key[m + 1] /\ t = text[1]
    BY <2>1
  <2>3. k \o t \in Seq(Parts)
    BY <2>2, ConcatProperties
  <2> QED BY <2>2, <2>3
<1>5. PICK rest : rest = Tail(text)
  OBVIOUS
<1>6. rest \in Seq(Lines) /\ Len(rest) = n /\ \A i \in 1..n : rest[i] = text[i + 1]
  BY <1>3, <1>5, HeadTailProperties
<1>7. PICK one : one = <<joined>>
  OBVIOUS
<1>8. one \in Seq(Lines) /\ Len(one) = 1 /\ one[1] = joined
  BY <1>7
<1>9. PICK left : left = front \o one
  OBVIOUS
<1>10. /\ left \in Seq(Lines) /\ Len(left) = m + 1
       /\ \A i \in 1..m : left[i] = front[i]
       /\ \A i \in 1..1 : left[m + i] = one[i]
  <2>1. /\ left \in Seq(Lines) /\ Len(left) = Len(front) + Len(one)
        /\ \A i \in 1..Len(front) : left[i] = front[i]
        /\ \A i \in 1..Len(one) : left[Len(front) + i] = one[i]
    <3>1. front \in Seq(Lines) /\ one \in Seq(Lines)
      BY <1>2, <1>8
    <3> QED BY ONLY <1>9, <3>1, BothOf
  <2> QED BY ONLY <1>2, <1>8, <2>1
<1>11. pair = left \o rest
  <2>1. Front(key) = front /\ Last(key) = key[m + 1] /\ Head(text) = text[1]
    BY <1>1, <1>3 DEF Front, Last
  <2> QED BY ONLY <1>0, <1>4, <1>5, <1>7, <1>9, <2>1 DEF Pair
<1>12. /\ pair \in Seq(Lines) /\ Len(pair) = (m + 1) + n
       /\ \A i \in 1..(m + 1) : pair[i] = left[i]
       /\ \A i \in 1..n : pair[(m + 1) + i] = rest[i]
  <2>2. /\ pair \in Seq(Lines) /\ Len(pair) = Len(left) + Len(rest)
        /\ \A i \in 1..Len(left) : pair[i] = left[i]
        /\ \A i \in 1..Len(rest) : pair[Len(left) + i] = rest[i]
    <3>1. left \in Seq(Lines) /\ rest \in Seq(Lines)
      BY <1>6, <1>10
    <3> QED BY ONLY <1>11, <3>1, BothOf
  <2> QED BY ONLY <1>6, <1>10, <2>2
<1>13. ASSUME NEW i \in 1..m
       PROVE  pair[i] = key[i]
  <2>1. i \in 1..(m + 1)
    OBVIOUS
  <2> QED BY ONLY <1>2, <1>10, <1>12, <1>13, <2>1
<1>14. pair[m + 1] = joined
  <2>1. m + 1 \in 1..(m + 1) /\ 1 \in 1..1
    OBVIOUS
  <2>2. left[m + 1] = one[1]
    BY ONLY <1>10, <2>1
  <2> QED BY ONLY <1>8, <1>12, <2>1, <2>2
<1>15. \A i \in 1..n : pair[m + 1 + i] = text[i + 1]
  BY ONLY <1>6, <1>12
<1>16. /\ Len(key) + Len(text) - 1 = (m + 1) + n /\ Len(key) - 1 = m /\ Len(text) - 1 = n
       /\ Len(key) = m + 1
  OBVIOUS
<1>17. pair \in Seq(Seq(Parts))
  BY <1>12
<1> QED BY ONLY <1>0, <1>4, <1>12, <1>13, <1>14, <1>15, <1>16, <1>17

\* What is written as key=value is read as that key and that value, whatever
\* "=" signs the value has and whatever lines both have (cmd/set.go,
\* cmd/edit.go).
THEOREM PairIsCut ==
    ASSUME NEW Parts, NEW key \in AText(Parts), Plain(key), NEW text \in AText(Parts)
    PROVE  /\ HasKey(Pair(key, text))
           /\ CutKey(Pair(key, text)) = key
           /\ CutValue(Pair(key, text)) = text
<1>1. PICK Lines : Lines = Seq(Parts)
  OBVIOUS
<1>2. PICK m \in Nat : /\ Len(key) = m + 1 /\ key \in Seq(Lines) /\ DOMAIN key = 1..(m + 1)
                       /\ \A i \in 1..(m + 1) : key[i] \in Seq(Parts)
  BY <1>1, TextHasLines
<1>3. PICK n \in Nat : /\ Len(text) = n + 1 /\ text \in Seq(Lines) /\ DOMAIN text = 1..(n + 1)
                       /\ \A i \in 1..(n + 1) :
                                text[i] \in Seq(Parts) /\ Len(text[i]) \in Nat \ {0}
  BY <1>1, TextHasLines
<1>5. PICK pair \in Seq(Lines) :
            /\ pair = Pair(key, text) /\ Len(pair) = m + 1 + n
            /\ \A i \in 1..m : pair[i] = key[i]
            /\ pair[m + 1] = key[m + 1] \o text[1]
            /\ \A i \in 1..n : pair[m + 1 + i] = text[i + 1]
  <2>1. PICK pair : pair = Pair(key, text)
    OBVIOUS
  <2>2. /\ pair \in Seq(Seq(Parts)) /\ Len(pair) = Len(key) + Len(text) - 1
        /\ \A i \in 1..(Len(key) - 1) : pair[i] = key[i]
        /\ pair[Len(key)] = key[Len(key)] \o text[1]
        /\ \A i \in 1..(Len(text) - 1) : pair[Len(key) + i] = text[i + 1]
    BY ONLY <2>1, key \in AText(Parts), text \in AText(Parts), LinesOfPair
  <2>3. /\ Len(key) + Len(text) - 1 = m + 1 + n /\ Len(key) - 1 = m /\ Len(text) - 1 = n
        /\ Len(key) = m + 1
    BY <1>2, <1>3
  <2> QED BY ONLY <1>1, <2>1, <2>2, <2>3
<1>6. PICK p \in Nat : p = m + 1
  OBVIOUS
<1>7. DOMAIN pair = 1..(p + n) /\ p \in 1..(p + n)
  BY <1>5, <1>6, LenProperties
<1>8. PICK last \in Parts : key[p] = <<last>>
  <2>1. key[p] \in Seq(Parts) /\ Len(key[p]) = 1
    BY <1>2, <1>6 DEF Plain
  <2>2. PICK line : line = key[p]
    OBVIOUS
  <2>3. line = <<line[1]>> /\ line[1] \in Parts
    BY ONLY <2>1, <2>2
  <2> QED BY <2>2, <2>3
<1>9. PICK value \in Seq(Parts) : value = text[1] /\ Len(value) \in Nat \ {0}
  <2>1. 1 \in 1..(n + 1)
    OBVIOUS
  <2> QED BY <1>3, <2>1
<1>10. PICK line : line = pair[p] /\ line = <<last>> \o value
  BY <1>5, <1>6, <1>8, <1>9
<1>11. Len(line) > 1 /\ Head(line) = last /\ Tail(line) = value
  <2>1. Len(line) = Len(value) + 1 /\ Head(line) = last /\ Tail(line) = value
    BY ONLY <1>8, <1>9, <1>10, PutBefore
  <2> QED BY ONLY <2>1, <1>9
<1>12. CutLine(pair) = p
  <2>1. ASSUME NEW i \in 1..m
        PROVE  Len(pair[i]) = 1
    <3>1. i \in DOMAIN key
      BY <1>2
    <3> QED BY <1>5, <3>1 DEF Plain
  <2>2. ASSUME NEW j \in DOMAIN pair, Len(pair[j]) > 1
        PROVE  p <= j
    <3>1. j \notin 1..m
      <4>1. ~(1 > 1)
        OBVIOUS
      <4> QED BY ONLY <2>1, <2>2, <4>1
    <3> QED BY <1>6, <1>7, <3>1
  <2>3. p \in DOMAIN pair /\ Len(pair[p]) > 1
    BY <1>7, <1>10, <1>11
  <2>4. DOMAIN pair \subseteq Nat
    BY <1>7
  <2>5. ASSUME NEW i \in DOMAIN pair, \A j \in DOMAIN pair : Len(pair[j]) > 1 => i <= j,
               Len(pair[i]) > 1
        PROVE  i = p
    <3>1. i <= p /\ p <= i /\ i \in Nat
      BY <2>2, <2>3, <2>4, <2>5
    <3> QED BY <3>1
  <2> QED BY ONLY <2>2, <2>3, <2>5 DEF CutLine
<1>13. HasKey(pair)
  BY <1>7, <1>10, <1>11 DEF HasKey
<1>14. CutKey(pair) = key
  <2>1. PICK front : front = SubSeq(pair, 1, m)
    OBVIOUS
  <2>2. front \in Seq(Lines) /\ Len(front) = m /\ \A i \in 1..m : front[i] = pair[i]
    <3>1. 0 + m <= Len(pair) /\ 0 + 1 = 1 /\ 0 + m = m /\ 0 \in Nat
      BY <1>5
    <3>2. front = SubSeq(pair, 0 + 1, 0 + m)
      BY <2>1, <3>1
    <3>3. front \in Seq(Lines) /\ Len(front) = m /\ \A i \in 1..m : front[i] = pair[0 + i]
      BY <1>5, <3>1, <3>2, PartOf
    <3>4. \A i \in 1..m : 0 + i = i
      OBVIOUS
    <3> QED BY ONLY <3>3, <3>4
  <2>3. PICK one : one = Word(last)
    OBVIOUS
  <2>4. one \in Seq(Lines) /\ Len(one) = 1 /\ one[1] = key[p]
    <3>1. one = <<key[p]>> /\ key[p] \in Lines
      BY <1>1, <1>2, <1>6, <1>8, <2>3 DEF Word
    <3>2. PICK k \in Lines : k = key[p] /\ one = <<k>>
      BY <3>1
    <3>3. one \in Seq(Lines) /\ Len(one) = 1 /\ one[1] = k
      BY ONLY <3>2
    <3> QED BY <3>2, <3>3
  <2>5. PICK both : both = front \o one
    OBVIOUS
  <2>6. /\ both \in Seq(Lines) /\ Len(both) = m + 1
        /\ \A i \in 1..m : both[i] = front[i]
        /\ \A i \in 1..1 : both[m + i] = one[i]
    <3>1. /\ both \in Seq(Lines) /\ Len(both) = Len(front) + Len(one)
          /\ \A i \in 1..Len(front) : both[i] = front[i]
          /\ \A i \in 1..Len(one) : both[Len(front) + i] = one[i]
      <4>1. front \in Seq(Lines) /\ one \in Seq(Lines)
        BY <2>2, <2>4
      <4> QED BY ONLY <2>5, <4>1, BothOf
    <3> QED BY ONLY <2>2, <2>4, <3>1
  <2>7. ASSUME NEW i \in 1..Len(both)
        PROVE  both[i] = key[i]
    <3>1. i \in 1..m \/ i = m + 1
      BY <2>6, <2>7
    <3>2. i \in 1..m => both[i] = key[i]
      BY <1>5, <2>2, <2>6
    <3>3. 1 \in 1..1 /\ both[m + 1] = one[1]
      BY <2>6
    <3> QED BY ONLY <1>6, <2>4, <3>1, <3>2, <3>3
  <2>8. both = key
    BY ONLY <1>2, <2>6, <2>7, SeqEqual
  <2>9. p - 1 = m
    BY <1>6
  <2>10. CutKey(pair) = front \o one
    BY ONLY <1>10, <1>11, <1>12, <2>1, <2>3, <2>9 DEF CutKey
  <2> QED BY ONLY <2>5, <2>8, <2>10
<1>15. CutValue(pair) = text
  <2>1. PICK rest : rest = SubSeq(pair, p + 1, p + n)
    OBVIOUS
  <2>2. rest \in Seq(Lines) /\ Len(rest) = n /\ \A i \in 1..n : rest[i] = pair[p + i]
    <3>1. p + n <= Len(pair)
      BY <1>5, <1>6
    <3> QED BY ONLY <1>5, <2>1, <3>1, p \in Nat, n \in Nat, PartOf
  <2>3. rest = LinesAfter(pair)
    <3>1. Len(pair) = p + n
      BY <1>5, <1>6
    <3> QED BY ONLY <1>12, <2>1, <3>1 DEF LinesAfter
  <2>4. PICK one : one = <<value>>
    OBVIOUS
  <2>5. one \in Seq(Lines) /\ Len(one) = 1 /\ one[1] = value
    BY ONLY <1>1, <1>9, <2>4
  <2>6. PICK both : both = one \o rest
    OBVIOUS
  <2>7. /\ both \in Seq(Lines) /\ Len(both) = 1 + n
        /\ \A i \in 1..1 : both[i] = one[i]
        /\ \A i \in 1..n : both[1 + i] = rest[i]
    <3>1. /\ both \in Seq(Lines) /\ Len(both) = Len(one) + Len(rest)
          /\ \A i \in 1..Len(one) : both[i] = one[i]
          /\ \A i \in 1..Len(rest) : both[Len(one) + i] = rest[i]
      <4>1. one \in Seq(Lines) /\ rest \in Seq(Lines)
        BY <2>2, <2>5
      <4> QED BY ONLY <2>6, <4>1, BothOf
    <3> QED BY ONLY <2>2, <2>5, <3>1
  <2>8. ASSUME NEW i \in 1..Len(both)
        PROVE  both[i] = text[i]
    <3>1. i = 1 \/ \E j \in 1..n : i = 1 + j
      <4>1. i - 1 \in 0..n /\ i = 1 + (i - 1)
        BY <2>7, <2>8
      <4> QED BY <4>1
    <3>2. CASE i = 1
      <4>1. 1 \in 1..1
        OBVIOUS
      <4> QED BY ONLY <1>9, <2>5, <2>7, <3>2, <4>1
    <3>3. ASSUME NEW j \in 1..n, i = 1 + j
          PROVE  both[i] = text[i]
      <4>1. both[1 + j] = pair[p + j]
        BY ONLY <2>2, <2>7, <3>3
      <4>2. \A k \in 1..n : pair[p + k] = text[k + 1]
        BY ONLY <1>5, <1>6
      <4>3. pair[p + j] = text[j + 1] /\ j + 1 = 1 + j
        BY <3>3, <4>2
      <4> QED BY ONLY <3>3, <4>1, <4>3
    <3> QED BY <3>1, <3>2, <3>3
  <2>9. both = text
    <3>1. Len(text) = 1 + n
      BY <1>3
    <3> QED BY ONLY <1>3, <2>7, <2>8, <3>1, SeqEqual
  <2>10. CutValue(pair) = one \o rest
    BY ONLY <1>10, <1>11, <1>12, <2>3, <2>4 DEF CutValue
  <2> QED BY ONLY <2>6, <2>9, <2>10
<1> QED BY ONLY <1>5, <1>13, <1>14, <1>15

\* What two sequences have, one after the other.
LEMMA RangeOfBoth ==
    ASSUME NEW S, NEW s \in Seq(S), NEW t \in Seq(S)
    PROVE  s \o t \in Seq(S) /\ Range(s \o t) = Range(s) \cup Range(t)
<1> DEFINE u == s \o t
<1>1. /\ Len(s) \in Nat /\ DOMAIN s = 1..Len(s)
      /\ Len(t) \in Nat /\ DOMAIN t = 1..Len(t)
  BY LenProperties
<1>2. /\ u \in Seq(S) /\ Len(u) = Len(s) + Len(t)
      /\ \A i \in 1..(Len(s) + Len(t)) : u[i] = IF i <= Len(s) THEN s[i] ELSE t[i - Len(s)]
  BY ConcatProperties
<1> HIDE DEF u
<1>3. DOMAIN u = 1..(Len(s) + Len(t))
  BY <1>2, LenProperties
<1>4. ASSUME NEW i \in DOMAIN u
      PROVE  u[i] \in Range(s) \cup Range(t)
  <2>1. CASE i <= Len(s)
    BY <1>1, <1>2, <1>3, <2>1 DEF Range
  <2>2. CASE i > Len(s)
    <3>1. i - Len(s) \in DOMAIN t /\ u[i] = t[i - Len(s)]
      BY <1>1, <1>2, <1>3, <2>2
    <3> QED BY <3>1 DEF Range
  <2> QED BY <1>1, <1>3, <2>1, <2>2
<1>5. ASSUME NEW i \in DOMAIN s
      PROVE  s[i] \in Range(u)
  <2>1. i \in DOMAIN u /\ u[i] = s[i]
    BY <1>1, <1>2, <1>3
  <2> QED BY <2>1 DEF Range
<1>6. ASSUME NEW i \in DOMAIN t
      PROVE  t[i] \in Range(u)
  <2>1. Len(s) + i \in DOMAIN u /\ u[Len(s) + i] = t[i]
    BY <1>1, <1>2, <1>3
  <2> QED BY <2>1 DEF Range
<1>7. Range(u) = Range(s) \cup Range(t)
  BY <1>4, <1>5, <1>6 DEF Range
<1> QED BY <1>2, <1>7 DEF u

\* What a sequence of one has.
LEMMA RangeOfOne ==
    ASSUME NEW S, NEW x \in S
    PROVE  <<x>> \in Seq(S) /\ Range(<<x>>) = {x}
  BY DEF Range

-----------------------------------------------------------------------------
(* The data of pairs *)

\* Texts are read as some data if they have its keys, and the last one of each
\* key has the value.
LEMMA LastCounts ==
    ASSUME NEW data, data = [f \in DOMAIN data |-> data[f]],
           NEW n \in Nat, NEW texts, DOMAIN texts \subseteq 1..n,
           {CutKey(texts[i]) : i \in DOMAIN texts} = DOMAIN data,
           \A i \in DOMAIN texts :
                (\A j \in DOMAIN texts : j > i => CutKey(texts[j]) # CutKey(texts[i]))
                    => CutValue(texts[i]) = data[CutKey(texts[i])]
    PROVE  FromPairs(texts) = data
<1>1. ASSUME NEW f \in DOMAIN data
      PROVE  CutValue(texts[LastOf(texts, f)]) = data[f]
  <2> DEFINE places == {i \in DOMAIN texts : CutKey(texts[i]) = f}
  <2>1. places \in SUBSET (1..n) /\ places # {}
    OBVIOUS
  <2>2. PICK m \in places : \A k \in places : k <= m
    <3> HIDE DEF places
    <3> QED BY <2>1, GreatestOf
  <2>3. /\ m \in DOMAIN texts /\ CutKey(texts[m]) = f
        /\ \A j \in DOMAIN texts : j > m => CutKey(texts[j]) # f
    BY <2>1, <2>2
  <2>4. /\ LastOf(texts, f) \in DOMAIN texts /\ CutKey(texts[LastOf(texts, f)]) = f
        /\ \A j \in DOMAIN texts : j > LastOf(texts, f) => CutKey(texts[j]) # f
    BY <2>3 DEF LastOf
  <2> QED BY <2>4
<1>2. FromPairs(texts) = [f \in DOMAIN data |-> data[f]]
  BY <1>1 DEF FromPairs
<1> QED BY <1>2

\* The texts of the commands have strings as parts.
LEMMA TextsOfParts == Text = AText(STRING)
  BY DEF Text, AText

\* Texts that are the pairs of some data, in any order and however often each
\* is there, are read as that data.
LEMMA PairsAreData ==
    ASSUME NEW data \in Contents, PlainKeys(data), NEW n \in Nat, NEW texts,
           DOMAIN texts \subseteq 1..n,
           Range(texts) = {Pair(f, data[f]) : f \in DOMAIN data}
    PROVE  /\ \A i \in DOMAIN texts : HasKey(texts[i])
           /\ FromPairs(texts) = data
<1>1. DOMAIN data \subseteq Text /\ data \in [DOMAIN data -> Text]
  BY ContentsAssumption
<1>2. ASSUME NEW f \in DOMAIN data
      PROVE  /\ HasKey(Pair(f, data[f])) /\ CutKey(Pair(f, data[f])) = f
             /\ CutValue(Pair(f, data[f])) = data[f]
  <2>1. f \in AText(STRING) /\ data[f] \in AText(STRING) /\ Plain(f)
    BY <1>1, TextsOfParts DEF PlainKeys
  <2> QED BY <2>1, PairIsCut
<1>3. ASSUME NEW i \in DOMAIN texts
      PROVE  /\ CutKey(texts[i]) \in DOMAIN data /\ HasKey(texts[i])
             /\ CutValue(texts[i]) = data[CutKey(texts[i])]
  <2>1. PICK f \in DOMAIN data : texts[i] = Pair(f, data[f])
    BY DEF Range
  <2> QED BY <1>2, <2>1
<1>4. {CutKey(texts[i]) : i \in DOMAIN texts} = DOMAIN data
  <2>1. ASSUME NEW f \in DOMAIN data
        PROVE  \E i \in DOMAIN texts : CutKey(texts[i]) = f
    <3>1. PICK i \in DOMAIN texts : texts[i] = Pair(f, data[f])
      BY DEF Range
    <3> QED BY <1>2, <3>1
  <2> QED BY <1>3, <2>1
<1>5. data = [f \in DOMAIN data |-> data[f]]
  BY <1>1
<1> QED BY <1>3, <1>4, <1>5, LastCounts

-----------------------------------------------------------------------------
(* The format of edit *)

\* The text after the first n fields.
After(text, data, n) ==
    IF n = 0 THEN <<>>
    ELSE IF FieldOrder[n] \notin DOMAIN data THEN text[n - 1]
    ELSE text[n - 1] \o Pair(FieldOrder[n], data[FieldOrder[n]])

\* Format goes through the fields one after the other.
LEMMA FormatIsFold ==
    ASSUME NEW data, data # <<>>
    PROVE  \E text : /\ \A n \in 0..Len(FieldOrder) : text[n] = After(text, data, n)
                     /\ Format(data) = text[Len(FieldOrder)]
<1> DEFINE N == Len(FieldOrder)
           T == {n \in Nat : \E text : text = [i \in 0..n |-> After(text, data, i)]}
<1>0. N \in Nat
  BY FieldOrderAssumption
<1>1. 0 \in T
  <2> DEFINE text == [i \in 0..0 |-> <<>>]
  <2>1. text = [i \in 0..0 |-> After(text, data, i)]
    BY DEF After
  <2> QED BY <2>1
<1>2. ASSUME NEW n \in Nat, n \in T
      PROVE  n + 1 \in T
  <2>1. PICK text : text = [i \in 0..n |-> After(text, data, i)]
    BY <1>2
  <2> DEFINE longer == [i \in 0..(n + 1) |-> IF i <= n THEN text[i]
                                              ELSE After(text, data, i)]
  <2>2. \A i \in 0..n : longer[i] = text[i]
    OBVIOUS
  <2>3. \A i \in 0..(n + 1) : After(longer, data, i) = After(text, data, i)
    BY <2>2 DEF After
  <2>4. longer = [i \in 0..(n + 1) |-> After(longer, data, i)]
    BY <2>1, <2>3
  <2> HIDE DEF longer
  <2>5. n + 1 \in Nat /\ \E g : g = [i \in 0..(n + 1) |-> After(g, data, i)]
    BY <2>4
  <2> QED BY <2>5
<1>3. N \in T
  <2> HIDE DEF T
  <2> QED BY <1>0, <1>1, <1>2, SetInduction
<1> DEFINE chosen == CHOOSE text : text = [n \in 0..N |-> After(text, data, n)]
<1>4. chosen = [n \in 0..N |-> After(chosen, data, n)]
  BY <1>3
<1>5. Format(data) = chosen[N]
  BY DEF Format, After
<1> QED BY <1>4, <1>5

\* A field of one line makes one line, the key, a "=" sign and the value.
LEMMA PairOfOneLine ==
    ASSUME NEW Parts, NEW key \in AText(Parts), Len(key) = 1,
           NEW text \in AText(Parts), Len(text) = 1
    PROVE  \E line \in Seq(Parts) : /\ line = key[1] \o text[1] /\ Pair(key, text) = <<line>>
                                    /\ Len(line) = Len(key[1]) + Len(text[1]) /\ Len(line) > 1
<1>1. PICK pair : pair = Pair(key, text)
  OBVIOUS
<1>2. /\ pair \in Seq(Seq(Parts)) /\ Len(pair) = Len(key) + Len(text) - 1
      /\ pair[Len(key)] = key[Len(key)] \o text[1]
  BY ONLY <1>1, key \in AText(Parts), text \in AText(Parts), LinesOfPair
<1>3. Len(pair) = 1 /\ pair[1] = key[1] \o text[1]
  BY <1>2
<1>4. pair = <<pair[1]>> /\ pair[1] \in Seq(Parts)
  <2>1. PICK Lines : Lines = Seq(Parts)
    OBVIOUS
  <2>2. pair \in Seq(Lines) /\ Len(pair) = 1
    BY ONLY <1>2, <1>3, <2>1
  <2>3. pair = <<pair[1]>> /\ pair[1] \in Lines
    BY ONLY <2>2
  <2> QED BY <2>1, <2>3
<1>5. /\ key[1] \in Seq(Parts) /\ Len(key[1]) \in Nat \ {0}
      /\ text[1] \in Seq(Parts) /\ Len(text[1]) \in Nat \ {0}
  <2>1. 1 \in DOMAIN key /\ 1 \in DOMAIN text
    BY TextHasLines
  <2>2. key[1] \in Seq(Parts) /\ text[1] \in Seq(Parts) /\ key[1] # <<>> /\ text[1] # <<>>
    BY <2>1 DEF AText
  <2> QED BY ONLY <2>2, EmptySeq
<1>6. Len(pair[1]) = Len(key[1]) + Len(text[1])
  <2>1. PICK k \in Seq(Parts), t \in Seq(Parts) : k = key[1] /\ t = text[1]
    BY <1>5
  <2>2. Len(k \o t) = Len(k) + Len(t)
    BY ConcatProperties
  <2> QED BY <1>3, <2>1, <2>2
<1>7. Len(pair[1]) > 1
  <2>1. PICK a \in Nat \ {0}, b \in Nat \ {0} : a = Len(key[1]) /\ b = Len(text[1])
    BY <1>5
  <2>2. a + b > 1
    OBVIOUS
  <2> QED BY ONLY <1>6, <2>1, <2>2
<1> QED BY <1>1, <1>3, <1>4, <1>6, <1>7

\* The format of a map with fields of one line has one line for each field,
\* and none of them is empty.
LEMMA FormatLines ==
    ASSUME NEW data \in Contents, data # <<>>, OneLine(data)
    PROVE  /\ Format(data) \in Seq(Seq(STRING))
           /\ \A line \in Range(Format(data)) : Len(line) > 1
           /\ {<<line>> : line \in Range(Format(data))}
                = {Pair(f, data[f]) : f \in DOMAIN data}
<1> DEFINE N == Len(FieldOrder)
           First(n) == {FieldOrder[i] : i \in 1..n} \cap DOMAIN data
<1>0. /\ FieldOrder \in Seq(Text) /\ N \in Nat /\ DOMAIN FieldOrder = 1..N
      /\ DOMAIN data \subseteq Text /\ data \in [DOMAIN data -> Text]
      /\ DOMAIN data \subseteq Range(FieldOrder)
  BY FieldOrderAssumption, ContentsAssumption
<1>1. PICK text : /\ \A n \in 0..N : text[n] = After(text, data, n)
                  /\ Format(data) = text[N]
  BY FormatIsFold
<1>2. PICK line \in [DOMAIN data -> Seq(STRING)] :
        \A f \in DOMAIN data : Pair(f, data[f]) = <<line[f]>> /\ Len(line[f]) > 1
  <2>1. ASSUME NEW f \in DOMAIN data
        PROVE  \E l \in Seq(STRING) : Pair(f, data[f]) = <<l>> /\ Len(l) > 1
    <3>1. /\ f \in AText(STRING) /\ Len(f) = 1
          /\ data[f] \in AText(STRING) /\ Len(data[f]) = 1
      BY <1>0, TextsOfParts DEF OneLine
    <3> QED BY <3>1, PairOfOneLine
  <2> DEFINE L == [f \in DOMAIN data |->
                    CHOOSE l \in Seq(STRING) : Pair(f, data[f]) = <<l>> /\ Len(l) > 1]
  <2>2. \A f \in DOMAIN data : /\ L[f] \in Seq(STRING)
                                /\ Pair(f, data[f]) = <<L[f]>> /\ Len(L[f]) > 1
    BY <2>1
  <2>3. L \in [DOMAIN data -> Seq(STRING)]
    BY <2>2
  <2> HIDE DEF L
  <2> QED BY <2>2, <2>3
<1> DEFINE Ok(n) == /\ text[n] \in Seq(Seq(STRING))
                    /\ Range(text[n]) = {line[f] : f \in First(n)}
           T == {n \in Nat : n <= N => Ok(n)}
<1>3. 0 \in T
  <2>1. text[0] = <<>>
    BY <1>0, <1>1 DEF After
  <2>2. Range(text[0]) = {} /\ text[0] \in Seq(Seq(STRING))
    BY <2>1, EmptySeq DEF Range
  <2> QED BY <2>2
<1>4. ASSUME NEW n \in Nat, n \in T
      PROVE  n + 1 \in T
  <2> SUFFICES ASSUME n + 1 <= N PROVE Ok(n + 1)
    OBVIOUS
  <2> DEFINE f == FieldOrder[n + 1]
  <2>1. Ok(n)
    BY <1>0, <1>4
  <2>2. {FieldOrder[i] : i \in 1..(n + 1)} = {FieldOrder[i] : i \in 1..n} \cup {f}
    <3>1. 1..(n + 1) = (1..n) \cup {n + 1}
      OBVIOUS
    <3> QED BY <3>1
  <2>3. text[n + 1] = IF f \notin DOMAIN data THEN text[n] ELSE text[n] \o Pair(f, data[f])
    <3>1. n + 1 \in 0..N /\ n + 1 # 0 /\ n + 1 - 1 = n
      BY <1>0
    <3> QED BY <1>1, <3>1 DEF After
  <2>4. CASE f \notin DOMAIN data
    <3>1. First(n + 1) = First(n)
      BY <2>2, <2>4
    <3> QED BY <2>1, <2>3, <2>4, <3>1
  <2>5. CASE f \in DOMAIN data
    <3>1. First(n + 1) = First(n) \cup {f}
      BY <2>2, <2>5
    <3>2. text[n + 1] = text[n] \o <<line[f]>> /\ line[f] \in Seq(STRING)
      BY <1>2, <2>3, <2>5
    <3>3. /\ text[n + 1] \in Seq(Seq(STRING))
          /\ Range(text[n + 1]) = Range(text[n]) \cup {line[f]}
      <4>1. PICK Lines : Lines = Seq(STRING)
        OBVIOUS
      <4>2. text[n] \in Seq(Lines) /\ line[f] \in Lines
        BY <2>1, <3>2, <4>1
      <4>3. PICK one : one = <<line[f]>>
        OBVIOUS
      <4>4. one \in Seq(Lines) /\ Range(one) = {line[f]}
        BY ONLY <4>2, <4>3, RangeOfOne
      <4>5. /\ text[n] \o one \in Seq(Lines)
            /\ Range(text[n] \o one) = Range(text[n]) \cup Range(one)
        BY ONLY <4>2, <4>4, RangeOfBoth
      <4> QED BY ONLY <3>2, <4>1, <4>3, <4>4, <4>5
    <3> HIDE DEF f, First
    <3> QED BY <2>1, <3>1, <3>3
  <2> QED BY <2>4, <2>5
<1>5. Ok(N)
  <2>1. N \in T
    <3> HIDE DEF T
    <3> QED BY <1>0, <1>3, <1>4, SetInduction
  <2> QED BY <1>0, <2>1
<1>6. First(N) = DOMAIN data
  BY <1>0 DEF Range
<1>7. Range(Format(data)) = {line[f] : f \in DOMAIN data}
  BY <1>1, <1>5, <1>6
<1>8. Format(data) \in Seq(Seq(STRING))
  BY <1>1, <1>5
<1> HIDE DEF First, Ok, T
<1> QED BY <1>2, <1>7, <1>8

\* A sequence over a set is one over every larger set.
LEMMA WiderSeq ==
    ASSUME NEW S, NEW T, S \subseteq T, NEW s \in Seq(S)
    PROVE  s \in Seq(T)
<1>1. Len(s) \in Nat /\ s \in [1..Len(s) -> S]
  BY LenProperties
<1>2. s \in [1..Len(s) -> T]
  BY <1>1
<1> QED BY <1>1, <1>2

\* A line without the white space at its end has as many parts, and differs in
\* the last one only.
LEMMA TrimBackOf ==
    ASSUME NEW S, NEW line \in Seq(S), line # <<>>, TrimRight[line[Len(line)]] \in S
    PROVE  /\ TrimBack(line) \in Seq(S) /\ Len(TrimBack(line)) = Len(line)
           /\ \A i \in 1..Len(line) : i # Len(line) => TrimBack(line)[i] = line[i]
           /\ TrimBack(line)[Len(line)] = TrimRight[line[Len(line)]]
<1>1. Len(line) \in Nat \ {0} /\ DOMAIN line = 1..Len(line)
  BY EmptySeq, LenProperties
<1>2. PICK n \in Nat \ {0} : n = Len(line)
  BY <1>1
<1>3. PICK e \in S : e = TrimRight[line[n]]
  BY <1>2
<1>4. PICK cut : cut = [line EXCEPT ![n] = e]
  OBVIOUS
<1>5. n \in 1..Len(line) /\ n \in DOMAIN line
  BY <1>1, <1>2
<1>6. cut = TrimBack(line)
  BY <1>2, <1>3, <1>4, <1>5 DEF TrimBack
<1>7. /\ cut \in Seq(S) /\ Len(cut) = Len(line)
      /\ \A j \in 1..Len(line) : cut[j] = IF j = n THEN e ELSE line[j]
  BY <1>3, <1>4, <1>5, ExceptSeq
<1>8. cut[n] = e /\ \A j \in 1..Len(line) : j # n => cut[j] = line[j]
  BY <1>5, <1>7
<1> QED BY ONLY <1>2, <1>3, <1>6, <1>7, <1>8

\* The parts of a line and what is left of them without white space.
CutParts == STRING \cup {TrimRight[s] : s \in STRING}

\* The line of a field without the white space at its end is the line of the
\* key and the value without the white space at its end.
LEMMA TrimOfPair ==
    ASSUME NEW key \in Text, Len(key) = 1, NEW text \in Text, Len(text) = 1,
           NEW line, Pair(key, text) = <<line>>
    PROVE  /\ key \in AText(CutParts) /\ TrimEnd(text) \in AText(CutParts)
           /\ Pair(key, TrimEnd(text)) = <<TrimBack(line)>>
           /\ Len(TrimBack(line)) > 1
<1>0. PICK All : All = CutParts
  OBVIOUS
<1>1. key \in AText(STRING) /\ text \in AText(STRING)
  BY TextsOfParts
<1>2. PICK k \in Seq(STRING), t \in Seq(STRING) :
            k = key[1] /\ t = text[1] /\ Head(text) = t /\ k # <<>> /\ t # <<>>
  <2>1. 1 \in DOMAIN key /\ 1 \in DOMAIN text /\ Head(text) = text[1]
    BY <1>1, TextHasLines
  <2>2. /\ key[1] \in Seq(STRING) /\ key[1] # <<>>
        /\ text[1] \in Seq(STRING) /\ text[1] # <<>>
    BY <1>1, <2>1 DEF AText
  <2> QED BY <2>1, <2>2
<1>3. PICK a \in Nat \ {0}, b \in Nat \ {0} : a = Len(k) /\ b = Len(t)
  BY <1>2, EmptySeq
<1>4. line = k \o t
  <2>1. PICK l : l = key[1] \o text[1] /\ Pair(key, text) = <<l>>
    BY ONLY <1>1, Len(key) = 1, Len(text) = 1, PairOfOneLine
  <2>2. PICK one : one = <<line>> /\ one = <<l>>
    BY <2>1
  <2>3. line = l
    BY ONLY <2>2
  <2> QED BY <1>2, <2>1, <2>3
<1>5. k \in Seq(All) /\ t \in Seq(All) /\ \A s \in STRING : TrimRight[s] \in All
  <2>1. STRING \subseteq All /\ \A s \in STRING : TrimRight[s] \in All
    BY <1>0 DEF CutParts
  <2>2. k \in Seq(All) /\ t \in Seq(All)
    BY ONLY <1>2, <2>1, WiderSeq
  <2> QED BY <2>1, <2>2
<1>6. PICK u : u = TrimBack(t)
  OBVIOUS
<1>7. /\ u \in Seq(All) /\ Len(u) = b /\ u[b] = TrimRight[t[b]]
      /\ \A i \in 1..b : i # b => u[i] = t[i]
  <2>1. t[b] \in STRING
    BY <1>3, LenProperties
  <2>2. TrimRight[t[Len(t)]] \in All
    BY <1>3, <1>5, <2>1
  <2>3. /\ TrimBack(t) \in Seq(All) /\ Len(TrimBack(t)) = Len(t)
        /\ \A i \in 1..Len(t) : i # Len(t) => TrimBack(t)[i] = t[i]
        /\ TrimBack(t)[Len(t)] = TrimRight[t[Len(t)]]
    BY ONLY <1>2, <1>5, <2>2, TrimBackOf
  <2> QED BY ONLY <1>3, <1>6, <2>3
<1>8. PICK cut : cut = TrimEnd(text)
  OBVIOUS
<1>9. cut = <<u>>
  BY <1>2, <1>6, <1>8 DEF TrimEnd
<1>10. cut \in AText(All) /\ Len(cut) = 1 /\ cut[1] = u
  <2>1. PICK Lines : Lines = Seq(All)
    OBVIOUS
  <2>2. u \in Lines
    BY <1>7, <2>1
  <2>3. cut \in Seq(Lines) /\ Len(cut) = 1 /\ cut[1] = u /\ DOMAIN cut = {1} /\ cut # <<>>
    BY ONLY <1>9, <2>2
  <2>4. u # <<>>
    BY ONLY <1>3, <1>7, EmptySeq
  <2> QED BY ONLY <2>1, <2>3, <2>4 DEF AText
<1>11. key \in AText(All)
  <2>1. PICK Lines : Lines = Seq(All)
    OBVIOUS
  <2>2. key \in Seq(Seq(STRING)) /\ key # <<>> /\ DOMAIN key = 1..1
    BY <1>1, LenProperties DEF AText
  <2>3. DOMAIN key = {1}
    BY <2>2
  <2>4. key = <<k>>
    <3>1. PICK Words : Words = Seq(STRING)
      OBVIOUS
    <3>2. key \in Seq(Words) /\ Len(key) = 1
      BY <2>2, <3>1
    <3>3. key = <<key[1]>>
      BY ONLY <3>2
    <3> QED BY <1>2, <3>3
  <2>5. <<k>> \in Seq(Lines)
    BY <1>5, <2>1
  <2> QED BY ONLY <1>2, <2>1, <2>2, <2>3, <2>4, <2>5 DEF AText
<1>12. PICK line2 \in Seq(All) : line2 = k \o u /\ Pair(key, cut) = <<line2>> /\ Len(line2) > 1
  <2>1. PICK l \in Seq(All) : l = key[1] \o cut[1] /\ Pair(key, cut) = <<l>> /\ Len(l) > 1
    BY ONLY <1>10, <1>11, Len(key) = 1, PairOfOneLine
  <2> QED BY <1>2, <1>10, <2>1
<1>13. PICK p \in Nat : p = a + b
  OBVIOUS
<1>14. /\ line \in Seq(All) /\ Len(line) = p
       /\ \A i \in 1..a : line[i] = k[i]
       /\ \A i \in 1..b : line[a + i] = t[i]
  <2>1. /\ line \in Seq(All) /\ Len(line) = Len(k) + Len(t)
        /\ \A i \in 1..Len(k) : line[i] = k[i]
        /\ \A i \in 1..Len(t) : line[Len(k) + i] = t[i]
    BY ONLY <1>4, <1>5, BothOf
  <2> QED BY ONLY <1>3, <1>13, <2>1
<1>15. /\ line2 \in Seq(All) /\ Len(line2) = p
       /\ \A i \in 1..a : line2[i] = k[i]
       /\ \A i \in 1..b : line2[a + i] = u[i]
  <2>1. u \in Seq(All) /\ k \in Seq(All) /\ line2 = k \o u
    BY <1>5, <1>7, <1>12
  <2>2. /\ line2 \in Seq(All) /\ Len(line2) = Len(k) + Len(u)
        /\ \A i \in 1..Len(k) : line2[i] = k[i]
        /\ \A i \in 1..Len(u) : line2[Len(k) + i] = u[i]
    BY ONLY <2>1, BothOf
  <2> QED BY ONLY <1>3, <1>7, <1>13, <2>2
<1>16. PICK back : back = TrimBack(line)
  OBVIOUS
<1>17. line[p] = t[b] /\ t[b] \in STRING
  <2>1. b \in 1..b
    OBVIOUS
  <2>2. line[a + b] = t[b]
    BY ONLY <1>14, <2>1
  <2> QED BY <1>3, <1>13, <2>2, LenProperties
<1>18. /\ back \in Seq(All) /\ Len(back) = p /\ back[p] = TrimRight[t[b]]
       /\ \A i \in 1..p : i # p => back[i] = line[i]
  <2>0. line # <<>> /\ Len(line) = p
    BY <1>13, <1>14, EmptySeq
  <2>1. line # <<>> /\ TrimRight[line[Len(line)]] \in All
    BY ONLY <1>5, <1>17, <2>0
  <2>2. line \in Seq(All)
    BY <1>14
  <2>3. /\ TrimBack(line) \in Seq(All) /\ Len(TrimBack(line)) = Len(line)
        /\ \A i \in 1..Len(line) : i # Len(line) => TrimBack(line)[i] = line[i]
        /\ TrimBack(line)[Len(line)] = TrimRight[line[Len(line)]]
    BY ONLY <2>1, <2>2, TrimBackOf
  <2>4. Len(line) = p
    BY <1>14
  <2> QED BY ONLY <1>16, <1>17, <2>3, <2>4
<1>19. ASSUME NEW i \in 1..p
       PROVE  back[i] = line2[i]
  <2>1. CASE i \in 1..a
    <3>1. i # p
      BY <1>13, <2>1
    <3> QED BY <1>14, <1>15, <1>18, <2>1, <3>1
  <2>2. CASE i \notin 1..a
    <3>1. PICK j \in 1..b : i = a + j /\ (i = p <=> j = b)
      <4>1. i - a \in 1..b /\ i = a + (i - a) /\ (i = p <=> i - a = b)
        BY <1>13, <2>2
      <4> QED BY <4>1
    <3>2. line2[i] = u[j] /\ line[i] = t[j]
      BY ONLY <1>14, <1>15, <3>1
    <3> QED BY ONLY <1>7, <1>18, <1>19, <3>1, <3>2
  <2> QED BY <2>1, <2>2
<1>20. back = line2
  BY ONLY <1>15, <1>18, <1>19, SeqEqual
<1> QED BY ONLY <1>0, <1>8, <1>10, <1>11, <1>12, <1>16, <1>20

-----------------------------------------------------------------------------
(* The fields of an item *)

\* The puts of the login fields and of the first n fields of the sections.
PutsAfter(upTo, item, n) ==
    IF n = 0 THEN [i \in DOMAIN item.login |-> LoginPut(item.login[i])]
    ELSE upTo[n - 1] \o SectionPuts(item.section[n])

\* Puts goes through the fields one after the other.
LEMMA PutsIsFold ==
    ASSUME NEW item, Len(item.section) \in Nat
    PROVE  \E upTo : /\ \A n \in 0..Len(item.section) : upTo[n] = PutsAfter(upTo, item, n)
                     /\ Puts(item) = upTo[Len(item.section)]
<1> DEFINE N == Len(item.section)
           T == {n \in Nat : \E upTo : upTo = [i \in 0..n |-> PutsAfter(upTo, item, i)]}
<1>1. 0 \in T
  <2> DEFINE upTo == [i \in 0..0 |-> [j \in DOMAIN item.login |-> LoginPut(item.login[j])]]
  <2>1. upTo = [i \in 0..0 |-> PutsAfter(upTo, item, i)]
    BY DEF PutsAfter
  <2> QED BY <2>1
<1>2. ASSUME NEW n \in Nat, n \in T
      PROVE  n + 1 \in T
  <2>1. PICK upTo : upTo = [i \in 0..n |-> PutsAfter(upTo, item, i)]
    BY <1>2
  <2> DEFINE longer == [i \in 0..(n + 1) |-> IF i <= n THEN upTo[i]
                                              ELSE PutsAfter(upTo, item, i)]
  <2>2. \A i \in 0..n : longer[i] = upTo[i]
    OBVIOUS
  <2>3. \A i \in 0..(n + 1) : PutsAfter(longer, item, i) = PutsAfter(upTo, item, i)
    BY <2>2 DEF PutsAfter
  <2>4. longer = [i \in 0..(n + 1) |-> PutsAfter(longer, item, i)]
    BY <2>1, <2>3
  <2> HIDE DEF longer
  <2>5. n + 1 \in Nat /\ \E g : g = [i \in 0..(n + 1) |-> PutsAfter(g, item, i)]
    BY <2>4
  <2> QED BY <2>5
<1>3. N \in T
  <2> HIDE DEF T
  <2> QED BY <1>1, <1>2, SetInduction
<1> DEFINE chosen == CHOOSE upTo : upTo = [n \in 0..N |-> PutsAfter(upTo, item, n)]
<1>4. chosen = [n \in 0..N |-> PutsAfter(chosen, item, n)]
  BY <1>3
<1>5. Puts(item) = chosen[N]
  BY DEF Puts, PutsAfter
<1> QED BY <1>4, <1>5

\* The puts of an item are those of its login fields and of its sections.
LEMMA PutsAreThoseOfFields ==
    ASSUME NEW item, WellFormed(item)
    PROVE  /\ Puts(item) \in Seq(Range(Puts(item)))
           /\ \A f \in Range(item.login) : LoginPut(f) \in Range(Puts(item))
           /\ \A f \in Range(item.section) : Range(SectionPuts(f)) \subseteq Range(Puts(item))
<1> DEFINE N == Len(item.section)
           All == {LoginPut(f) : f \in Range(item.login)}
                    \cup UNION {Range(SectionPuts(f)) : f \in Range(item.section)}
<1>0. N \in Nat /\ DOMAIN item.section = 1..N
  BY LenProperties DEF WellFormed
<1>1. PICK upTo : /\ \A n \in 0..N : upTo[n] = PutsAfter(upTo, item, n)
                  /\ Puts(item) = upTo[N]
  BY <1>0, PutsIsFold
<1>2. ASSUME NEW n \in 1..N
      PROVE  SectionPuts(item.section[n]) \in Seq(All)
  <2> DEFINE f == item.section[n]
  <2>1. f \in Range(item.section)
    BY <1>0 DEF Range
  <2>2. Range(SectionPuts(f)) \subseteq All
    BY <2>1
  <2>3. \E k \in Nat : SectionPuts(f) \in [1..k -> Range(SectionPuts(f))]
    <3>1. Len(f.ssh) \in Nat /\ DOMAIN f.ssh = 1..Len(f.ssh)
      BY <2>1, LenProperties DEF WellFormed
    <3>2. CASE Normal[f.title] # NoText /\ f.ssh # <<>>
      BY <3>1, <3>2 DEF SectionPuts, Range
    <3>3. CASE ~(Normal[f.title] # NoText /\ f.ssh # <<>>)
      <4> DEFINE put == [key |-> Normal[f.title], value |-> FieldValue(f), keep |-> FALSE]
      <4>1. SectionPuts(f) = <<put>>
        BY <3>3 DEF SectionPuts
      <4> HIDE DEF put
      <4>2. <<put>> \in Seq({put}) /\ Range(<<put>>) = {put} /\ Len(<<put>>) = 1
        BY RangeOfOne
      <4>3. <<put>> \in [1..1 -> {put}]
        BY <4>2, LenProperties
      <4> QED BY <4>1, <4>2, <4>3
    <3> QED BY <3>2, <3>3
  <2> HIDE DEF All, f
  <2>5. PICK k \in Nat : SectionPuts(f) \in [1..k -> All]
    BY <2>2, <2>3
  <2> QED BY <2>5 DEF f
<1> DEFINE Ok(n) == /\ upTo[n] \in Seq(All)
                    /\ \A f \in Range(item.login) : LoginPut(f) \in Range(upTo[n])
                    /\ \A i \in 1..n :
                            Range(SectionPuts(item.section[i])) \subseteq Range(upTo[n])
           T == {n \in Nat : n <= N => Ok(n)}
<1>3. 0 \in T
  <2>1. upTo[0] = [i \in DOMAIN item.login |-> LoginPut(item.login[i])]
    BY <1>0, <1>1 DEF PutsAfter
  <2>2. Len(item.login) \in Nat /\ DOMAIN item.login = 1..Len(item.login)
    BY LenProperties DEF WellFormed
  <2>3. \A i \in DOMAIN item.login : LoginPut(item.login[i]) \in All
    BY DEF Range
  <2>4. upTo[0] \in Seq(All)
    <3> HIDE DEF All
    <3> QED BY <2>1, <2>2, <2>3
  <2>5. \A f \in Range(item.login) : LoginPut(f) \in Range(upTo[0])
    BY <2>1 DEF Range
  <2> HIDE DEF All
  <2> QED BY <2>4, <2>5
<1>4. ASSUME NEW n \in Nat, n \in T
      PROVE  n + 1 \in T
  <2> SUFFICES ASSUME n + 1 <= N PROVE Ok(n + 1)
    OBVIOUS
  <2>1. Ok(n)
    BY <1>0, <1>4
  <2> HIDE DEF T, All
  <2>2. n + 1 \in 1..N /\ n + 1 \in 0..N /\ n + 1 # 0 /\ n + 1 - 1 = n
    BY <1>0
  <2>3. upTo[n + 1] = upTo[n] \o SectionPuts(item.section[n + 1])
    <3>1. PICK m \in 0..N : m = n + 1 /\ m # 0 /\ m - 1 = n
      BY <2>2
    <3>2. upTo[m] = PutsAfter(upTo, item, m)
      BY <1>1
    <3>3. PutsAfter(upTo, item, m) = upTo[n] \o SectionPuts(item.section[m])
      BY ONLY <3>1 DEF PutsAfter
    <3> QED BY <3>1, <3>2, <3>3
  <2>4. SectionPuts(item.section[n + 1]) \in Seq(All)
    BY <1>2, <2>2
  <2>5. /\ upTo[n + 1] \in Seq(All)
        /\ Range(upTo[n + 1]) = Range(upTo[n]) \cup Range(SectionPuts(item.section[n + 1]))
    BY <2>1, <2>3, <2>4, RangeOfBoth
  <2>6. \A i \in 1..(n + 1) : i \in 1..n \/ i = n + 1
    OBVIOUS
  <2> QED BY <2>1, <2>5, <2>6
<1>5. Ok(N)
  <2>1. N \in T
    <3> HIDE DEF T
    <3> QED BY <1>0, <1>3, <1>4, SetInduction
  <2> HIDE DEF All, Ok
  <2> QED BY <1>0, <2>1
<1>6. Puts(item) \in Seq(Range(Puts(item)))
  <2> HIDE DEF All
  <2>1. Puts(item) \in Seq(All)
    BY <1>1, <1>5
  <2>2. Len(Puts(item)) \in Nat /\ Puts(item) \in [1..Len(Puts(item)) -> All]
    BY <2>1, LenProperties
  <2>3. Puts(item) \in [1..Len(Puts(item)) -> Range(Puts(item))]
    BY <2>2 DEF Range
  <2> QED BY <2>2, <2>3
<1>7. ASSUME NEW f \in Range(item.section)
      PROVE  Range(SectionPuts(f)) \subseteq Range(Puts(item))
  <2>1. PICK i \in 1..N : f = item.section[i]
    BY <1>0 DEF Range
  <2> QED BY <1>1, <1>5, <2>1
<1> QED BY <1>1, <1>5, <1>6, <1>7

\* What has been put after n puts.
PutAfter(acc, puts, n) ==
    IF n = 0 THEN [fields |-> <<>>, counter |-> 0] ELSE Put(acc[n - 1], puts[n])

\* PutAll makes one put after the other.
LEMMA PutAllIsFold ==
    ASSUME NEW puts, Len(puts) \in Nat
    PROVE  \E acc : /\ \A n \in 0..Len(puts) : acc[n] = PutAfter(acc, puts, n)
                    /\ PutAll(puts) = acc[Len(puts)].fields
<1> DEFINE N == Len(puts)
           T == {n \in Nat : \E acc : acc = [i \in 0..n |-> PutAfter(acc, puts, i)]}
<1>1. 0 \in T
  <2> DEFINE acc == [i \in 0..0 |-> [fields |-> <<>>, counter |-> 0]]
  <2>1. acc = [i \in 0..0 |-> PutAfter(acc, puts, i)]
    BY DEF PutAfter
  <2> QED BY <2>1
<1>2. ASSUME NEW n \in Nat, n \in T
      PROVE  n + 1 \in T
  <2>1. PICK acc : acc = [i \in 0..n |-> PutAfter(acc, puts, i)]
    BY <1>2
  <2> DEFINE longer == [i \in 0..(n + 1) |-> IF i <= n THEN acc[i] ELSE PutAfter(acc, puts, i)]
  <2>2. \A i \in 0..n : longer[i] = acc[i]
    OBVIOUS
  <2>3. \A i \in 0..(n + 1) : PutAfter(longer, puts, i) = PutAfter(acc, puts, i)
    BY <2>2 DEF PutAfter
  <2>4. longer = [i \in 0..(n + 1) |-> PutAfter(longer, puts, i)]
    BY <2>1, <2>3
  <2> HIDE DEF longer
  <2>5. n + 1 \in Nat /\ \E g : g = [i \in 0..(n + 1) |-> PutAfter(g, puts, i)]
    BY <2>4
  <2> QED BY <2>5
<1>3. N \in T
  <2> HIDE DEF T
  <2> QED BY <1>1, <1>2, SetInduction
<1> DEFINE chosen == CHOOSE acc : acc = [n \in 0..N |-> PutAfter(acc, puts, n)]
<1>4. chosen = [n \in 0..N |-> PutAfter(chosen, puts, n)]
  BY <1>3
<1>5. PutAll(puts) = chosen[N].fields
  BY DEF PutAll, PutAfter
<1> QED BY <1>4, <1>5

\* The keys asked for, and those made of them with numbers below c.
Made(Keys, c) == Keys \cup {Suffixed(k, m) : k \in Keys, m \in 0..(c - 1)}

\* The numbers up to N can be read off the suffixed keys, and no key looks
\* like one.
Readable(Keys, N) ==
    \A k, l \in Keys, m, n \in 0..N :
        k # Suffixed(l, n) /\ (Suffixed(k, m) = Suffixed(l, n) => m = n)

\* A put replaces no value, and stores its own unless that is empty.
LEMMA PutKeeps ==
    ASSUME NEW Keys, NEW N \in Nat, Readable(Keys, N),
           NEW acc, acc.counter \in 0..N, DOMAIN acc.fields \subseteq Made(Keys, acc.counter),
           NEW put, put.key \in Keys \cup {NoText}
    PROVE  /\ Put(acc, put).counter \in {acc.counter, acc.counter + 1}
           /\ DOMAIN Put(acc, put).fields \subseteq Made(Keys, Put(acc, put).counter)
           /\ Range(acc.fields) \subseteq Range(Put(acc, put).fields)
           /\ put.key # NoText /\ put.value # NoText => put.value \in Range(Put(acc, put).fields)
<1> DEFINE taken == put.key \in DOMAIN acc.fields
<1>0. PICK c : c = acc.counter /\ c \in 0..N
  OBVIOUS
<1> DEFINE dest  == IF taken THEN Suffixed(put.key, c) ELSE put.key
           after == IF taken THEN c + 1 ELSE c
<1>1. CASE put.key = NoText
  BY <1>1 DEF Put
<1>2. CASE put.key # NoText
  <2>1. put.key \in Keys
    BY <1>2
  <2>2. Made(Keys, c) \subseteq Made(Keys, after) /\ dest \in Made(Keys, after)
    <3>1. \A m \in 0..(c - 1) : m \in 0..c
      BY <1>0
    <3>2. c \in 0..c /\ (c + 1) - 1 = c
      BY <1>0
    <3>3. Made(Keys, c) \subseteq Made(Keys, c + 1)
      BY <3>1, <3>2 DEF Made
    <3>4. Suffixed(put.key, c) \in Made(Keys, c + 1) /\ put.key \in Made(Keys, c)
      BY <2>1, <3>2 DEF Made
    <3> QED BY <3>3, <3>4
  <2>3. dest \notin DOMAIN acc.fields
    <3>1. CASE taken
      <4>1. Suffixed(put.key, c) \notin Keys
        BY <1>0, <2>1 DEF Readable
      <4>2. ASSUME NEW k \in Keys, NEW m \in 0..(c - 1)
            PROVE  Suffixed(put.key, c) # Suffixed(k, m)
        <5>1. m \in 0..N /\ m # c
          BY <1>0
        <5> QED BY <1>0, <2>1, <5>1 DEF Readable
      <4>3. Suffixed(put.key, c) \notin Made(Keys, c)
        BY <4>1, <4>2 DEF Made
      <4> QED BY <1>0, <3>1, <4>3
    <3>2. CASE ~taken
      BY <3>2
    <3> QED BY <3>1, <3>2
  <2>4. Put(acc, put).counter = after
    BY <1>0, <1>2 DEF Put
  <2>5. Put(acc, put).fields = IF put.value # NoText \/ put.keep
                               THEN With(acc.fields, dest, put.value) ELSE acc.fields
    BY <1>0, <1>2 DEF Put
  <2> HIDE DEF taken, dest
  <2>6. /\ DOMAIN With(acc.fields, dest, put.value) = DOMAIN acc.fields \cup {dest}
        /\ With(acc.fields, dest, put.value)[dest] = put.value
        /\ \A k \in DOMAIN acc.fields :
                With(acc.fields, dest, put.value)[k] = acc.fields[k]
    BY <2>3 DEF With
  <2>7. /\ Range(acc.fields) \subseteq Range(With(acc.fields, dest, put.value))
        /\ put.value \in Range(With(acc.fields, dest, put.value))
    BY <2>6 DEF Range
  <2>8. DOMAIN Put(acc, put).fields \subseteq DOMAIN acc.fields \cup {dest}
    BY <2>5, <2>6
  <2>9. DOMAIN Put(acc, put).fields \subseteq Made(Keys, Put(acc, put).counter)
    BY <1>0, <2>2, <2>4, <2>8
  <2> QED BY <1>0, <2>4, <2>5, <2>7, <2>9
<1> QED BY <1>1, <1>2

\* What has been put after n puts is there.
PutsKept(a, puts, Keys, n) ==
    /\ a.counter \in 0..n
    /\ DOMAIN a.fields \subseteq Made(Keys, a.counter)
    /\ \A i \in 1..n :
            puts[i].key # NoText /\ puts[i].value # NoText => puts[i].value \in Range(a.fields)

\* Every value that is put is kept, under the key it asks for or one made of it.
LEMMA AllPutsAreKept ==
    ASSUME NEW puts, puts \in Seq(Range(puts)), NEW Keys,
           \A put \in Range(puts) : put.key \in Keys \cup {NoText}, Readable(Keys, Len(puts))
    PROVE  /\ \A put \in Range(puts) :
                put.key # NoText /\ put.value # NoText => put.value \in Range(PutAll(puts))
           /\ DOMAIN PutAll(puts) \subseteq Made(Keys, Len(puts))
<1> DEFINE N == Len(puts)
<1>0. N \in Nat /\ DOMAIN puts = 1..N
  BY LenProperties
<1>1. PICK acc : /\ \A n \in 0..N : acc[n] = PutAfter(acc, puts, n)
                 /\ PutAll(puts) = acc[N].fields
  BY <1>0, PutAllIsFold
<1> DEFINE T == {n \in Nat : n <= N => PutsKept(acc[n], puts, Keys, n)}
<1>2. 0 \in T
  <2>1. acc[0] = PutAfter(acc, puts, 0)
    BY <1>0, <1>1
  <2>2. PICK a : a = acc[0] /\ a = [fields |-> <<>>, counter |-> 0]
    BY ONLY <2>1 DEF PutAfter
  <2>3. PutsKept(a, puts, Keys, 0)
    BY ONLY <2>2 DEF PutsKept
  <2> QED BY <2>2, <2>3
<1>3. ASSUME NEW n \in Nat, n \in T
      PROVE  n + 1 \in T
  <2> SUFFICES ASSUME n + 1 <= N PROVE PutsKept(acc[n + 1], puts, Keys, n + 1)
    OBVIOUS
  <2>1. PICK a : a = acc[n] /\ PutsKept(a, puts, Keys, n)
    BY <1>0, <1>3
  <2> HIDE DEF T
  <2>2. PICK m \in 1..N : m = n + 1 /\ m # 0 /\ m - 1 = n
    BY <1>0
  <2>3. acc[m] = PutAfter(acc, puts, m)
    BY <1>0, <1>1
  <2>4. PICK b : b = acc[m] /\ b = Put(a, puts[m])
    BY ONLY <2>1, <2>2, <2>3 DEF PutAfter
  <2>5. puts[m].key \in Keys \cup {NoText}
    BY <1>0, <2>2 DEF Range
  <2>6. a.counter \in 0..n /\ a.counter \in 0..N
    BY <1>0, <2>1 DEF PutsKept
  <2>7. /\ b.counter \in {a.counter, a.counter + 1}
        /\ DOMAIN b.fields \subseteq Made(Keys, b.counter)
        /\ Range(a.fields) \subseteq Range(b.fields)
        /\ puts[m].key # NoText /\ puts[m].value # NoText => puts[m].value \in Range(b.fields)
    <3>1. DOMAIN a.fields \subseteq Made(Keys, a.counter)
      BY <2>1 DEF PutsKept
    <3>2. N \in Nat /\ Readable(Keys, N)
      BY <1>0
    <3> HIDE DEF N
    <3>3. PICK put : put = puts[m]
      OBVIOUS
    <3>4. put.key \in Keys \cup {NoText}
      BY <2>5, <3>3
    <3>5. /\ Put(a, put).counter \in {a.counter, a.counter + 1}
          /\ DOMAIN Put(a, put).fields \subseteq Made(Keys, Put(a, put).counter)
          /\ Range(a.fields) \subseteq Range(Put(a, put).fields)
          /\ put.key # NoText /\ put.value # NoText
                => put.value \in Range(Put(a, put).fields)
      BY ONLY <2>6, <3>1, <3>2, <3>4, PutKeeps
    <3> QED BY ONLY <2>4, <3>3, <3>5
  <2>8. b.counter \in 0..m
    BY <2>2, <2>6, <2>7
  <2>9. ASSUME NEW i \in 1..m, puts[i].key # NoText, puts[i].value # NoText
        PROVE  puts[i].value \in Range(b.fields)
    <3>1. i \in 1..n \/ i = m
      BY <2>2
    <3> QED BY <2>1, <2>7, <2>9, <3>1 DEF PutsKept
  <2>10. PutsKept(b, puts, Keys, m)
    BY <2>7, <2>8, <2>9 DEF PutsKept
  <2> QED BY <2>2, <2>4, <2>10
<1>4. PICK a : a = acc[N] /\ PutsKept(a, puts, Keys, N)
  <2>1. N \in T
    <3> HIDE DEF T
    <3> QED BY <1>0, <1>2, <1>3, SetInduction
  <2> QED BY <1>0, <2>1
<1>5. Made(Keys, a.counter) \subseteq Made(Keys, N)
  <2>1. \A m \in 0..(a.counter - 1) : m \in 0..(N - 1)
    BY <1>0, <1>4 DEF PutsKept
  <2> QED BY <2>1 DEF Made
<1>6. ASSUME NEW put \in Range(puts), put.key # NoText, put.value # NoText
      PROVE  put.value \in Range(PutAll(puts))
  <2>1. PICK i \in 1..N : put = puts[i]
    BY <1>0 DEF Range
  <2> QED BY <1>1, <1>4, <1>6, <2>1 DEF PutsKept
<1>7. DOMAIN PutAll(puts) \subseteq Made(Keys, N)
  BY <1>1, <1>4, <1>5 DEF PutsKept
<1> QED BY <1>6, <1>7

\* No value of an item is lost, whatever fields and sections it has and however
\* often their keys are the same: renaming the second field of a key never meets
\* another key, unless the item has a field whose own key looks like a renamed
\* one (cmd/import.go).
THEOREM FieldsKeepValues ==
    ASSUME NEW item, WellFormed(item), ~Lookalike(item)
    PROVE  Wanted(item) \ {NoText} \subseteq Range(MapFields(item))
<1>1. PICK puts : puts = Puts(item)
  OBVIOUS
<1>2. PICK Keys : Keys = Asked(item)
  OBVIOUS
<1>3. /\ puts \in Seq(Range(puts))
      /\ \A f \in Range(item.login) : LoginPut(f) \in Range(puts)
      /\ \A f \in Range(item.section) : Range(SectionPuts(f)) \subseteq Range(puts)
  BY <1>1, PutsAreThoseOfFields
<1>4. \A put \in Range(puts) : put.key \in Keys \cup {NoText}
  BY <1>1, <1>2 DEF Asked
<1>5. Readable(Keys, Len(puts))
  BY <1>1, <1>2 DEF Readable, WellFormed, Lookalike
<1>6. PICK fields : fields = PutAll(puts)
  OBVIOUS
<1>7. /\ \A put \in Range(puts) :
            put.key # NoText /\ put.value # NoText => put.value \in Range(fields)
      /\ DOMAIN fields \subseteq Made(Keys, Len(puts))
  BY <1>3, <1>4, <1>5, <1>6, AllPutsAreKept
<1>8. ASSUME NEW f \in Range(item.login), LoginKey(f) # NoText, f.value # NoText
      PROVE  f.value \in Range(fields)
  <2>1. LoginPut(f).key = LoginKey(f) /\ LoginPut(f).value = f.value
    BY DEF LoginPut
  <2> QED BY <1>3, <1>7, <1>8, <2>1
<1>9. ASSUME NEW f \in Range(item.section), Normal[f.title] # NoText, f.ssh # <<>>,
             NEW pair \in Range(f.ssh), pair[2] # NoText
      PROVE  pair[2] \in Range(fields)
  <2>1. PartPut(pair).key = pair[1] /\ PartPut(pair).value = pair[2]
    BY <1>9 DEF PartPut
  <2>2. PartPut(pair) \in Range(SectionPuts(f))
    BY <1>9 DEF SectionPuts, Range
  <2>3. PartPut(pair) \in Range(puts) /\ pair[1] # NoText
    BY <1>3, <2>2 DEF WellFormed
  <2> QED BY <1>7, <1>9, <2>1, <2>3
<1>10. ASSUME NEW f \in Range(item.section), Normal[f.title] # NoText, f.ssh = <<>>,
              FieldValue(f) # NoText
       PROVE  FieldValue(f) \in Range(fields)
  <2>1. PICK put : put = [key |-> Normal[f.title], value |-> FieldValue(f), keep |-> FALSE]
    OBVIOUS
  <2>2. SectionPuts(f) = <<put>> /\ put.key = Normal[f.title] /\ put.value = FieldValue(f)
    BY <1>10, <2>1 DEF SectionPuts
  <2>3. put \in Range(SectionPuts(f))
    BY <2>2, RangeOfOne
  <2>4. put \in Range(puts)
    BY <1>3, <2>3
  <2> QED BY <1>7, <1>10, <2>2, <2>4
<1>11. ASSUME NEW x \in Wanted(item), x # NoText
       PROVE  x \in Range(fields) \/ x = item.notes
  <2>1. ASSUME NEW f \in Range(item.login), LoginKey(f) # NoText, x = f.value
        PROVE  x \in Range(fields)
    BY <1>8, <1>11, <2>1
  <2>2. ASSUME NEW f \in Range(item.section), Normal[f.title] # NoText, x \in Values(f)
        PROVE  x \in Range(fields)
    <3>1. CASE f.ssh # <<>>
      <4>1. PICK pair \in Range(f.ssh) : x = pair[2]
        BY <2>2, <3>1 DEF Values
      <4> QED BY <1>9, <1>11, <2>2, <3>1, <4>1
    <3>2. CASE f.ssh = <<>>
      <4>1. x = FieldValue(f)
        BY <2>2, <3>2 DEF Values
      <4> QED BY <1>10, <1>11, <2>2, <3>2, <4>1
    <3> QED BY <3>1, <3>2
  <2>3. x \in WantedOfLogin(item) => x \in Range(fields)
    BY <2>1 DEF WantedOfLogin
  <2>4. x \in WantedOfSections(item) => x \in Range(fields)
    BY <2>2 DEF WantedOfSections
  <2> QED BY <1>11, <2>3, <2>4 DEF Wanted
<1>12. CASE item.notes = NoText
  <2>1. MapFields(item) = fields
    BY <1>1, <1>6, <1>12 DEF MapFields
  <2> QED BY <1>11, <1>12, <2>1
<1>13. CASE item.notes # NoText
  <2>1. "notes" \notin Keys
    BY <1>2, <1>13 DEF Lookalike
  <2>2. ASSUME NEW k \in Keys, NEW m \in 0..(Len(puts) - 1)
        PROVE  Suffixed(k, m) # "notes"
    <3>1. Len(puts) \in Nat /\ m \in 0..Len(puts)
      BY <1>3, LenProperties
    <3> QED BY <1>1, <1>2, <3>1 DEF WellFormed
  <2>3. "notes" \notin DOMAIN fields
    BY <1>7, <2>1, <2>2 DEF Made
  <2>4. PICK all : all = With(fields, "notes", item.notes) /\ MapFields(item) = all
    BY <1>1, <1>6, <1>13 DEF MapFields
  <2>5. /\ DOMAIN all = DOMAIN fields \cup {"notes"} /\ all["notes"] = item.notes
        /\ \A k \in DOMAIN fields : all[k] = fields[k]
    BY <2>3, <2>4 DEF With
  <2>6. Range(fields) \subseteq Range(all) /\ item.notes \in Range(all)
    BY <2>5 DEF Range
  <2> QED BY <1>11, <2>4, <2>6
<1> QED BY <1>12, <1>13
=============================================================================
