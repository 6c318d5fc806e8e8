------------------------- MODULE JsonCommandProofs -------------------------
(***************************************************************************)
(* Theorems about JsonCommand for texts of any length, any characters and  *)
(* any number of fields.  Induction is by sets of numbers (Induction), as  *)
(* the library's theorems of induction take an operator.                   *)
(***************************************************************************)
EXTENDS JsonCommand, WellFoundedInduction, TLAPS

Text == Seq(Chars)

-----------------------------------------------------------------------------
(* Induction, and the folds of the community modules *)

\* A set of numbers that is not empty has a least one, and Min finds it.
LEMMA MinOf ==
    ASSUME NEW T, T \subseteq Nat, T # {}
    PROVE  Min(T) \in T /\ \A n \in T : Min(T) <= n
<1> DEFINE Less == {ss \in Nat \X Nat : ss[1] < ss[2]}
<1>1. IsWellFoundedOn(Less, Nat)
  BY NatLessThanWellFounded DEF OpToRel
<1>2. \A m, n \in Nat : <<m, n>> \in Less <=> m < n
  OBVIOUS
<1>3. PICK n \in T : \A m \in T : ~(<<m, n>> \in Less)
  <2> HIDE DEF Less
  <2>1. \E n \in T : \A m \in T : ~(<<m, n>> \in Less)
    BY <1>1, WFMin, Zenon
  <2>2. QED BY <2>1
<1>4. ASSUME NEW m \in T PROVE n <= m
  <2> HIDE DEF Less
  <2>1. m \in Nat /\ n \in Nat
    OBVIOUS
  <2>2. ~(m < n)
    BY <1>2, <1>3, <2>1
  <2>3. QED BY <2>1, <2>2
<1>5. QED BY <1>4 DEF Min

\* A set of numbers that has 0, and with each number the next, has them all.
LEMMA Induction ==
    ASSUME NEW T, T \subseteq Nat, 0 \in T, \A n \in T : n + 1 \in T
    PROVE  T = Nat
<1> SUFFICES ASSUME Nat \ T # {} PROVE FALSE
  OBVIOUS
<1> DEFINE n == Min(Nat \ T)
<1>1. n \in Nat \ T /\ \A m \in Nat \ T : n <= m
  BY MinOf
<1> HIDE DEF n
<1>2. n - 1 \in Nat /\ n - 1 + 1 = n
  BY <1>1
<1>3. QED BY <1>1, <1>2

\* Max of the numbers up to n.
LEMMA MaxOf == \A n \in Nat : \A s \in SUBSET (1 .. n + 1) : n + 1 \in s => Max(s) = n + 1
<1> SUFFICES ASSUME NEW n \in Nat, NEW s \in SUBSET (1 .. n + 1), n + 1 \in s
             PROVE  Max(s) = n + 1
  OBVIOUS
<1>1. n + 1 \in s /\ \A y \in s : n + 1 >= y
  OBVIOUS
<1>2. \A x \in s : (\A y \in s : x >= y) => x = n + 1
  BY <1>1
<1>3. QED BY <1>1, <1>2 DEF Max

\* The places before a place of a sequence.
LEMMA Prefix ==
    ASSUME NEW n \in Nat, NEW i \in 1 .. n
    PROVE  /\ 1 .. i \in SUBSET (1 .. n) /\ 1 .. i # {}
           /\ Max(1 .. i) = i /\ (1 .. i) \ {i} = 1 .. i - 1
<1>1. i - 1 \in Nat /\ i - 1 + 1 = i /\ i \in 1 .. i
  OBVIOUS
<1>2. Max(1 .. i) = i
  BY <1>1, MaxOf
<1>3. QED BY <1>1, <1>2

\* The steps of a fold, as functions, and what FoldLeft computes with one: a
\* value for each set of places.
Steps(S, D) == [S \X D -> S]
IsFold(g, S, base, step, seq) ==
    /\ g \in [SUBSET (1 .. Len(seq)) -> S]
    /\ \A s \in SUBSET (1 .. Len(seq)) :
          /\ s # {} => Max(s) \in s
          /\ g[s] = IF s = {} THEN base ELSE step[<<g[s \ {Max(s)}], seq[Max(s)]>>]

\* There is such a value, for any step on any sequence.
LEMMA FoldExists ==
    ASSUME NEW S, NEW D, NEW base \in S, NEW step \in Steps(S, D), NEW seq \in Seq(D)
    PROVE  \E g : IsFold(g, S, base, step, seq)
<1> USE DEF Steps
<1> DEFINE Folds(g, n) ==
             \A s \in SUBSET (1 .. n) :
                 /\ s # {} => Max(s) \in s
                 /\ g[s] = IF s = {} THEN base ELSE step[<<g[s \ {Max(s)}], seq[Max(s)]>>]
           Foldable(n) == n <= Len(seq) => \E g \in [SUBSET (1 .. n) -> S] : Folds(g, n)
<1>1. Foldable(0)
  <2>1. SUBSET (1 .. 0) = {{}}
    OBVIOUS
  <2>2. [s \in SUBSET (1 .. 0) |-> base] \in [SUBSET (1 .. 0) -> S]
    OBVIOUS
  <2>3. Folds([s \in SUBSET (1 .. 0) |-> base], 0)
    BY <2>1
  <2>4. QED BY <2>2, <2>3
<1>2. ASSUME NEW n \in Nat, Foldable(n) PROVE Foldable(n + 1)
  <2> SUFFICES ASSUME n + 1 <= Len(seq)
               PROVE  \E g \in [SUBSET (1 .. n + 1) -> S] : Folds(g, n + 1)
    OBVIOUS
  <2>1. n \in Nat /\ n <= Len(seq) /\ n + 1 \in 1 .. Len(seq) /\ seq[n + 1] \in D
    OBVIOUS
  <2>2. PICK g \in [SUBSET (1 .. n) -> S] : Folds(g, n)
    <3> HIDE DEF Folds
    <3>1. QED BY <1>2, <2>1
  <2> DEFINE h == [s \in SUBSET (1 .. n + 1) |->
                     IF n + 1 \in s THEN step[<<g[s \ {n + 1}], seq[n + 1]>>] ELSE g[s]]
  <2>3. \A s \in SUBSET (1 .. n + 1) : /\ n + 1 \in s => s \ {n + 1} \in SUBSET (1 .. n)
                                       /\ n + 1 \notin s => s \in SUBSET (1 .. n)
    BY <2>1
  <2>4. h \in [SUBSET (1 .. n + 1) -> S]
    <3>1. ASSUME NEW s \in SUBSET (1 .. n + 1), n + 1 \in s
          PROVE  step[<<g[s \ {n + 1}], seq[n + 1]>>] \in S
      <4>1. g[s \ {n + 1}] \in S
        BY <2>3, <3>1
      <4>2. QED BY <2>1, <4>1
    <3>2. QED BY <2>3, <3>1
  <2>5. \A s \in SUBSET (1 .. n) : s \in SUBSET (1 .. n + 1) /\ h[s] = g[s]
    BY <2>1
  <2>6. ASSUME NEW s \in SUBSET (1 .. n + 1), n + 1 \in s
        PROVE  /\ Max(s) = n + 1 /\ s # {}
               /\ h[s] = step[<<h[s \ {Max(s)}], seq[Max(s)]>>]
    <3>1. Max(s) = n + 1
      BY <2>1, <2>6, MaxOf
    <3>2. h[s \ {n + 1}] = g[s \ {n + 1}]
      BY <2>3, <2>5, <2>6
    <3>3. QED BY <2>6, <3>1, <3>2
  <2>7. ASSUME NEW s \in SUBSET (1 .. n + 1), n + 1 \notin s
        PROVE  /\ s # {} => Max(s) \in s
               /\ h[s] = IF s = {} THEN base ELSE step[<<h[s \ {Max(s)}], seq[Max(s)]>>]
    <3>1. s \in SUBSET (1 .. n) /\ s \ {Max(s)} \in SUBSET (1 .. n)
      BY <2>3, <2>7
    <3>2. h[s] = g[s] /\ h[s \ {Max(s)}] = g[s \ {Max(s)}]
      BY <2>5, <3>1
    <3>3. QED BY <2>2, <3>1, <3>2
  <2>8. Folds(h, n + 1)
    BY <2>6, <2>7
  <2>9. QED BY <2>4, <2>8
<1>3. Foldable(Len(seq))
  <2> HIDE DEF Foldable
  <2> DEFINE T == {n \in Nat : Foldable(n)}
  <2>1. T \subseteq Nat /\ 0 \in T /\ \A n \in T : n + 1 \in T
    BY <1>1, <1>2
  <2>2. T = Nat
    <3> HIDE DEF T
    <3>1. QED BY <2>1, Induction
  <2>3. QED BY <2>2
<1>4. \E g \in [SUBSET (1 .. Len(seq)) -> S] : Folds(g, Len(seq))
  <2> HIDE DEF Folds
  <2>1. Len(seq) <= Len(seq)
    OBVIOUS
  <2>2. QED BY <1>3, <2>1, Zenon
<1>5. QED BY <1>4 DEF IsFold

\* What goes through the steps of a fold keeps its type.
LEMMA RunTypes ==
    ASSUME NEW S, NEW D, NEW step \in Steps(S, D), NEW seq \in Seq(D), NEW r, r[0] \in S,
           \A i \in 1 .. Len(seq) : r[i - 1] \in S => r[i] = step[<<r[i - 1], seq[i]>>]
    PROVE  \A i \in 0 .. Len(seq) : r[i] \in S
<1> USE DEF Steps
<1> DEFINE T == {n \in Nat : n <= Len(seq) => r[n] \in S}
<1>1. T \subseteq Nat /\ 0 \in T
  OBVIOUS
<1>2. ASSUME NEW n \in T PROVE n + 1 \in T
  <2> SUFFICES ASSUME n + 1 <= Len(seq) PROVE r[n + 1] \in S
    OBVIOUS
  <2>1. n + 1 \in 1 .. Len(seq) /\ n + 1 - 1 = n /\ r[n] \in S /\ seq[n + 1] \in D
    OBVIOUS
  <2>2. r[n + 1] = step[<<r[n], seq[n + 1]>>]
    BY <2>1
  <2>3. QED BY <2>1, <2>2
<1>3. T = Nat
  <2> HIDE DEF T
  <2>1. QED BY <1>1, <1>2, Induction
<1>4. QED BY <1>3

-----------------------------------------------------------------------------
(* The runs of the three folds *)

\* What extract knows while it reads a value.
Value == [chars : Text, escaped : BOOLEAN, closed : BOOLEAN]
ReadStep == [p \in Value \X Chars |-> ReadChar(p[1], p[2])]

\* What json.loads knows while it reads an object.
Loader == {r \in [strings : Seq(Text), open : BOOLEAN, escaped : BOOLEAN] :
              (r.open => r.strings # << >>) /\ (r.escaped => r.open)}
LoadStep == [p \in Loader \X Chars |-> LoadChar(p[1], p[2])]

\* A field as it is written.
Written == [key : Chars, chars : Text]
JoinStep == [p \in Text \X Written |-> Joined(p[1], p[2])]

\* The characters that have a name are characters, all different.
LEMMA Characters ==
    /\ Marks \cup Keys \cup StateKeys \cup {Quote, Backslash, LineFeed, NotAscii} \subseteq Chars
    /\ {FormFeed, Control, "n", "f", "u0007", "u00e9"} \subseteq Chars
    /\ Quote # Backslash /\ Quote # LineFeed /\ Backslash # LineFeed
    /\ Backslash # "n" /\ Quote # "n" /\ LineFeed # "n"
  BY CharsAssumption DEF Quote, Backslash, LineFeed, NotAscii, Marks

\* The characters with an escape and the letters of their escapes are different.
LEMMA NamedDiffer ==
    /\ Quote \notin {Backslash, LineFeed, FormFeed, Control, NotAscii}
    /\ Backslash \notin {LineFeed, FormFeed, Control, NotAscii}
    /\ LineFeed \notin {FormFeed, Control, NotAscii}
    /\ FormFeed \notin {Control, NotAscii} /\ Control # NotAscii
    /\ {"n", "f", "u0007", "u00e9"} \cap {Quote, Backslash, LineFeed} = {}
  BY DEF Quote, Backslash, LineFeed, FormFeed, Control, NotAscii

\* What json.loads makes of an escape is a character, a quote and a backslash too.
LEMMA DecodedType ==
    /\ \A c \in Chars : Decoded(c) \in Chars
    /\ Decoded(Quote) = Quote /\ Decoded(Backslash) = Backslash
<1>1. \A c \in Chars : Decoded(c) \in Chars
  BY Characters DEF Decoded
<1>2. Quote \notin {"n", "f", "u0007", "u00e9"} /\ Backslash \notin {"n", "f", "u0007", "u00e9"}
  BY DEF Quote, Backslash
<1>3. QED BY <1>1, <1>2 DEF Decoded

\* extract's round gives a value again.
LEMMA ReadStepType == ReadStep \in Steps(Value, Chars)
<1> SUFFICES ASSUME NEW v \in Value, NEW c \in Chars PROVE ReadChar(v, c) \in Value
  BY DEF ReadStep, Steps
<1>1. \A d \in Chars : Append(v.chars, d) \in Text
  BY DEF Value, Text
<1>2. Unescaped(c) \in Chars
  BY Characters DEF Unescaped
<1>3. QED BY <1>1, <1>2 DEF ReadChar, Value

\* What json.loads does with a character within a string.
LEMMA LoadPutType ==
    ASSUME NEW r \in Loader, r.open, NEW d \in Chars
    PROVE  /\ LoadPut(r, d) \in Loader
           /\ LoadPut(r, d).open /\ ~LoadPut(r, d).escaped
           /\ Len(LoadPut(r, d).strings) = Len(r.strings)
           /\ LoadPut(r, d).strings[Len(r.strings)] = Append(r.strings[Len(r.strings)], d)
           /\ \A i \in 1 .. Len(r.strings) - 1 : LoadPut(r, d).strings[i] = r.strings[i]
<1> DEFINE n == Len(r.strings)
           strings == [r.strings EXCEPT ![n] = Append(r.strings[n], d)]
<1>1. r.strings \in Seq(Text) /\ n \in 1 .. Len(r.strings)
  BY DEF Loader
<1>2. Append(r.strings[n], d) \in Text
  BY <1>1 DEF Text
<1>3. /\ strings \in Seq(Text) /\ Len(strings) = n
      /\ strings[n] = Append(r.strings[n], d)
      /\ \A i \in 1 .. n - 1 : strings[i] = r.strings[i]
  BY <1>1, <1>2
<1>4. strings # << >>
  BY <1>1, <1>3
<1>5. LoadPut(r, d) = [r EXCEPT !.strings = strings, !.escaped = FALSE]
  BY DEF LoadPut, Loader
<1> HIDE DEF strings
<1>6. LoadPut(r, d).strings = strings /\ LoadPut(r, d).open = TRUE /\ LoadPut(r, d).escaped = FALSE
  BY <1>5 DEF Loader
<1>7. LoadPut(r, d) \in Loader
  BY <1>3, <1>4, <1>5 DEF Loader
<1>8. QED BY <1>3, <1>6, <1>7

\* A step of json.loads gives a state of it again.
LEMMA LoadStepType == LoadStep \in Steps(Loader, Chars)
<1> SUFFICES ASSUME NEW r \in Loader, NEW c \in Chars PROVE LoadChar(r, c) \in Loader
  BY DEF LoadStep, Steps
<1>1. r.strings \in Seq(Text)
  BY DEF Loader
<1>2. Append(r.strings, << >>) \in Seq(Text) /\ Append(r.strings, << >>) # << >>
  BY <1>1 DEF Text
<1>3. CASE ~r.open /\ c = Quote
  <2>1. [r EXCEPT !.strings = Append(@, << >>), !.open = TRUE] \in Loader
    BY <1>2, <1>3 DEF Loader
  <2>2. QED BY <1>3, <2>1 DEF LoadChar
<1>4. CASE ~r.open /\ c # Quote
  BY <1>4 DEF LoadChar
<1>5. CASE r.open /\ (r.escaped \/ c \notin {Quote, Backslash})
  <2>1. Decoded(c) \in Chars
    BY DecodedType
  <2>2. CASE r.escaped
    BY <1>5, <2>1, <2>2, LoadPutType DEF LoadChar
  <2>3. CASE ~r.escaped
    BY <1>5, <2>3, LoadPutType DEF LoadChar
  <2>4. QED BY <2>2, <2>3
<1>6. CASE r.open /\ ~r.escaped /\ c \in {Quote, Backslash}
  <2>1. [r EXCEPT !.escaped = TRUE] \in Loader /\ [r EXCEPT !.open = FALSE] \in Loader
    BY <1>6 DEF Loader
  <2>2. QED BY <1>6, <2>1 DEF LoadChar
<1>7. QED BY <1>3, <1>4, <1>5, <1>6

\* A text of one character, and two texts together.
LEMMA Single == \A c \in Chars : <<c>> \in Text /\ Len(<<c>>) = 1 /\ <<c>>[1] = c
  BY DEF Text

\* The elements of two sequences put together.
LEMMA ConcatSeq ==
    ASSUME NEW D, NEW s \in Seq(D), NEW t \in Seq(D)
    PROVE  /\ s \o t \in Seq(D) /\ Len(s) \in Nat /\ Len(t) \in Nat
           /\ Len(s \o t) = Len(s) + Len(t)
           /\ \A i \in 1 .. Len(s) : (s \o t)[i] = s[i]
           /\ \A i \in 1 .. Len(t) : (s \o t)[Len(s) + i] = t[i]
  OBVIOUS

\* The characters of two texts put together.
LEMMA Concat ==
    ASSUME NEW s \in Text, NEW t \in Text
    PROVE  /\ s \o t \in Text /\ Len(s) \in Nat /\ Len(t) \in Nat
           /\ Len(s \o t) = Len(s) + Len(t)
           /\ \A i \in 1 .. Len(s) : (s \o t)[i] = s[i]
           /\ \A i \in 1 .. Len(t) : (s \o t)[Len(s) + i] = t[i]
  BY ConcatSeq DEF Text

\* The empty text.
LEMMA EmptyText == << >> \in Text /\ Len(<< >>) = 0
  BY DEF Text

\* What quotes and fields are made of.
LEMMA QuotedType ==
    ASSUME NEW chars \in Text
    PROVE  Quoted(chars) \in Text /\ Len(Quoted(chars)) = Len(chars) + 2
<1>1. <<Quote>> \in Text /\ Len(<<Quote>>) = 1
  BY Characters, Single
<1>2. <<Quote>> \o chars \in Text /\ Len(<<Quote>> \o chars) = Len(chars) + 1
  BY <1>1, Concat
<1>3. Len(chars) \in Nat
  BY <1>1, Concat
<1>4. QED BY <1>1, <1>2, <1>3, Concat DEF Quoted

\* A field is written with its key and six marks.
LEMMA MemberType ==
    ASSUME NEW f \in Written
    PROVE  Member(f) \in Text /\ Len(Member(f)) = Len(f.chars) + 6 /\ Len(f.chars) \in Nat
<1> DEFINE name == <<f.key>>
           key == Quoted(name)
           colon == <<":">>
           value == Quoted(f.chars)
<1>1. name \in Text /\ Len(name) = 1 /\ f.chars \in Text
  BY Single DEF Written
<1> HIDE DEF name
<1>2. key \in Text /\ Len(key) = 3
  <2>1. Quoted(name) \in Text /\ Len(Quoted(name)) = Len(name) + 2
    BY <1>1, QuotedType
  <2>2. Len(key) = Len(name) + 2
    BY <2>1
  <2> HIDE DEF key
  <2>3. Len(key) = 3
    BY <1>1, <2>2
  <2>4. QED BY <2>1, <2>3 DEF key
<1>3. value \in Text /\ Len(value) = Len(f.chars) + 2 /\ Len(f.chars) \in Nat
  BY <1>1, QuotedType, Concat
<1>4. colon \in Text /\ Len(colon) = 1
  BY Characters, Single DEF Marks
<1>5. Member(f) = key \o colon \o value
  BY DEF Member, name
<1> HIDE DEF key, colon, value
<1>6. key \o colon \in Text /\ Len(key \o colon) = Len(key) + Len(colon)
  BY <1>2, <1>4, Concat
<1>7. /\ (key \o colon) \o value \in Text
      /\ Len((key \o colon) \o value) = Len(key \o colon) + Len(value)
  BY <1>3, <1>6, Concat
<1>8. QED BY <1>2, <1>3, <1>4, <1>5, <1>6, <1>7

\* Fields joined to a text give a text.
LEMMA JoinStepType == JoinStep \in Steps(Text, Written)
<1> SUFFICES ASSUME NEW all \in Text, NEW f \in Written PROVE Joined(all, f) \in Text
  BY DEF JoinStep, Steps
<1>1. Member(f) \in Text /\ <<",">> \in Text
  BY MemberType, Characters, Single DEF Marks
<1>2. all \o <<",">> \in Text
  BY <1>1, Concat
<1>3. QED BY <1>1, <1>2, Concat DEF Joined

\* The values that a fold goes through, one more than there are places.
Run(r, step, S, seq) == /\ r \in [0 .. Len(seq) -> S]
                        /\ \A i \in 1 .. Len(seq) : r[i] = step[<<r[i - 1], seq[i]>>]

\* FoldLeft with ReadChar.
LEMMA ReadRuns ==
    ASSUME NEW json \in Text, NEW base \in Value
    PROVE  \E r : /\ Run(r, ReadStep, Value, json) /\ r[0] = base
                 /\ FoldLeft(ReadChar, base, json) = r[Len(json)]
<1> DEFINE Places == SUBSET (1 .. Len(json))
           It(g) == [s \in Places |->
                       IF s = {} THEN base ELSE ReadChar(g[s \ {Max(s)}], json[Max(s)])]
           iter == CHOOSE g : g = It(g)
           r == [i \in 0 .. Len(json) |-> iter[1 .. i]]
<1>1. json \in Seq(Chars) /\ Len(json) \in Nat /\ DOMAIN json = 1 .. Len(json)
  BY DEF Text
<1>2. FoldLeft(ReadChar, base, json) = iter[1 .. Len(json)]
  BY <1>1 DEF FoldLeft, MapThenFoldSet
<1>3. \A v \in Value, c \in Chars : ReadStep[<<v, c>>] = ReadChar(v, c)
  BY DEF ReadStep
<1>4. \E g : g = It(g)
  <2>1. PICK g : IsFold(g, Value, base, ReadStep, json)
    BY <1>1, ReadStepType, FoldExists
  <2>2. ASSUME NEW s \in Places, s # {} PROVE g[s] = ReadChar(g[s \ {Max(s)}], json[Max(s)])
    <3>1. Max(s) \in 1 .. Len(json) /\ s \ {Max(s)} \in Places
      BY <2>1, <2>2 DEF IsFold
    <3>2. json[Max(s)] \in Chars /\ g[s \ {Max(s)}] \in Value
      BY <1>1, <2>1, <3>1 DEF IsFold
    <3>3. QED BY <1>3, <2>1, <2>2, <3>2 DEF IsFold
  <2>3. g = It(g)
    BY <2>1, <2>2 DEF IsFold
  <2>4. QED BY <2>3
<1>5. iter = It(iter)
  BY <1>4
<1> HIDE DEF iter
<1>6. ASSUME NEW i \in 1 .. Len(json) PROVE r[i] = ReadChar(r[i - 1], json[i])
  <2>1. /\ 1 .. i \in Places /\ 1 .. i # {}
        /\ Max(1 .. i) = i /\ (1 .. i) \ {i} = 1 .. i - 1
    BY <1>1, Prefix
  <2>2. iter[1 .. i] = ReadChar(iter[(1 .. i) \ {Max(1 .. i)}], json[Max(1 .. i)])
    BY <1>5, <2>1
  <2>3. r[i] = iter[1 .. i] /\ r[i - 1] = iter[1 .. i - 1]
    BY <1>1
  <2>4. QED BY <2>1, <2>2, <2>3
<1>7. r[0] = base
  <2>1. 1 .. 0 = {} /\ {} \in Places /\ 0 \in 0 .. Len(json)
    BY <1>1
  <2>2. QED BY <1>5, <2>1
<1>8. r[Len(json)] = iter[1 .. Len(json)]
  BY <1>1
<1> HIDE DEF r
<1>9. \A i \in 0 .. Len(json) : r[i] \in Value
  <2>1. \A i \in 1 .. Len(json) : r[i - 1] \in Value => r[i] = ReadStep[<<r[i - 1], json[i]>>]
    BY <1>1, <1>3, <1>6
  <2>2. QED BY <1>1, <1>7, <2>1, ReadStepType, RunTypes
<1>10. Run(r, ReadStep, Value, json)
  <2>1. r \in [0 .. Len(json) -> Value]
    BY <1>9 DEF r
  <2>2. \A i \in 1 .. Len(json) : i - 1 \in 0 .. Len(json) /\ json[i] \in Chars
    BY <1>1
  <2>3. \A i \in 1 .. Len(json) : r[i] = ReadStep[<<r[i - 1], json[i]>>]
    BY <1>3, <1>6, <1>9, <2>2
  <2>4. QED BY <2>1, <2>3 DEF Run
<1>11. QED BY <1>2, <1>7, <1>8, <1>10

\* FoldLeft with LoadChar.
LEMMA LoadRuns ==
    ASSUME NEW json \in Text, NEW base \in Loader
    PROVE  \E r : /\ Run(r, LoadStep, Loader, json) /\ r[0] = base
                 /\ FoldLeft(LoadChar, base, json) = r[Len(json)]
<1> DEFINE Places == SUBSET (1 .. Len(json))
           It(g) == [s \in Places |->
                       IF s = {} THEN base ELSE LoadChar(g[s \ {Max(s)}], json[Max(s)])]
           iter == CHOOSE g : g = It(g)
           r == [i \in 0 .. Len(json) |-> iter[1 .. i]]
<1>1. json \in Seq(Chars) /\ Len(json) \in Nat /\ DOMAIN json = 1 .. Len(json)
  BY DEF Text
<1>2. FoldLeft(LoadChar, base, json) = iter[1 .. Len(json)]
  BY <1>1 DEF FoldLeft, MapThenFoldSet
<1>3. \A v \in Loader, c \in Chars : LoadStep[<<v, c>>] = LoadChar(v, c)
  BY DEF LoadStep
<1>4. \E g : g = It(g)
  <2>1. PICK g : IsFold(g, Loader, base, LoadStep, json)
    BY <1>1, LoadStepType, FoldExists
  <2>2. ASSUME NEW s \in Places, s # {} PROVE g[s] = LoadChar(g[s \ {Max(s)}], json[Max(s)])
    <3>1. Max(s) \in 1 .. Len(json) /\ s \ {Max(s)} \in Places
      BY <2>1, <2>2 DEF IsFold
    <3>2. json[Max(s)] \in Chars /\ g[s \ {Max(s)}] \in Loader
      BY <1>1, <2>1, <3>1 DEF IsFold
    <3>3. QED BY <1>3, <2>1, <2>2, <3>2 DEF IsFold
  <2>3. g = It(g)
    BY <2>1, <2>2 DEF IsFold
  <2>4. QED BY <2>3
<1>5. iter = It(iter)
  BY <1>4
<1> HIDE DEF iter
<1>6. ASSUME NEW i \in 1 .. Len(json) PROVE r[i] = LoadChar(r[i - 1], json[i])
  <2>1. /\ 1 .. i \in Places /\ 1 .. i # {}
        /\ Max(1 .. i) = i /\ (1 .. i) \ {i} = 1 .. i - 1
    BY <1>1, Prefix
  <2>2. iter[1 .. i] = LoadChar(iter[(1 .. i) \ {Max(1 .. i)}], json[Max(1 .. i)])
    BY <1>5, <2>1
  <2>3. r[i] = iter[1 .. i] /\ r[i - 1] = iter[1 .. i - 1]
    BY <1>1
  <2>4. QED BY <2>1, <2>2, <2>3
<1>7. r[0] = base
  <2>1. 1 .. 0 = {} /\ {} \in Places /\ 0 \in 0 .. Len(json)
    BY <1>1
  <2>2. QED BY <1>5, <2>1
<1>8. r[Len(json)] = iter[1 .. Len(json)]
  BY <1>1
<1> HIDE DEF r
<1>9. \A i \in 0 .. Len(json) : r[i] \in Loader
  <2>1. \A i \in 1 .. Len(json) : r[i - 1] \in Loader => r[i] = LoadStep[<<r[i - 1], json[i]>>]
    BY <1>1, <1>3, <1>6
  <2>2. QED BY <1>1, <1>7, <2>1, LoadStepType, RunTypes
<1>10. Run(r, LoadStep, Loader, json)
  <2>1. r \in [0 .. Len(json) -> Loader]
    BY <1>9 DEF r
  <2>2. \A i \in 1 .. Len(json) : i - 1 \in 0 .. Len(json) /\ json[i] \in Chars
    BY <1>1
  <2>3. \A i \in 1 .. Len(json) : r[i] = LoadStep[<<r[i - 1], json[i]>>]
    BY <1>3, <1>6, <1>9, <2>2
  <2>4. QED BY <2>1, <2>3 DEF Run
<1>11. QED BY <1>2, <1>7, <1>8, <1>10

\* FoldLeft with Joined.
LEMMA JoinRuns ==
    ASSUME NEW fields \in Seq(Written)
    PROVE  \E r : /\ Run(r, JoinStep, Text, fields) /\ r[0] = << >>
                 /\ FoldLeft(Joined, << >>, fields) = r[Len(fields)]
<1> DEFINE Places == SUBSET (1 .. Len(fields))
           It(g) == [s \in Places |->
                       IF s = {} THEN << >> ELSE Joined(g[s \ {Max(s)}], fields[Max(s)])]
           iter == CHOOSE g : g = It(g)
           r == [i \in 0 .. Len(fields) |-> iter[1 .. i]]
<1>1. /\ fields \in Seq(Written) /\ Len(fields) \in Nat /\ DOMAIN fields = 1 .. Len(fields)
      /\ << >> \in Text
  BY EmptyText
<1>2. FoldLeft(Joined, << >>, fields) = iter[1 .. Len(fields)]
  BY <1>1 DEF FoldLeft, MapThenFoldSet
<1>3. \A v \in Text, c \in Written : JoinStep[<<v, c>>] = Joined(v, c)
  BY DEF JoinStep
<1>4. \E g : g = It(g)
  <2>1. PICK g : IsFold(g, Text, << >>, JoinStep, fields)
    BY <1>1, JoinStepType, FoldExists
  <2>2. ASSUME NEW s \in Places, s # {} PROVE g[s] = Joined(g[s \ {Max(s)}], fields[Max(s)])
    <3>1. Max(s) \in 1 .. Len(fields) /\ s \ {Max(s)} \in Places
      BY <2>1, <2>2 DEF IsFold
    <3>2. fields[Max(s)] \in Written /\ g[s \ {Max(s)}] \in Text
      BY <1>1, <2>1, <3>1 DEF IsFold
    <3>3. QED BY <1>3, <2>1, <2>2, <3>2 DEF IsFold
  <2>3. g = It(g)
    BY <2>1, <2>2 DEF IsFold
  <2>4. QED BY <2>3
<1>5. iter = It(iter)
  BY <1>4
<1> HIDE DEF iter
<1>6. ASSUME NEW i \in 1 .. Len(fields) PROVE r[i] = Joined(r[i - 1], fields[i])
  <2>1. /\ 1 .. i \in Places /\ 1 .. i # {}
        /\ Max(1 .. i) = i /\ (1 .. i) \ {i} = 1 .. i - 1
    BY <1>1, Prefix
  <2>2. iter[1 .. i] = Joined(iter[(1 .. i) \ {Max(1 .. i)}], fields[Max(1 .. i)])
    BY <1>5, <2>1
  <2>3. r[i] = iter[1 .. i] /\ r[i - 1] = iter[1 .. i - 1]
    BY <1>1
  <2>4. QED BY <2>1, <2>2, <2>3
<1>7. r[0] = << >>
  <2>1. 1 .. 0 = {} /\ {} \in Places /\ 0 \in 0 .. Len(fields)
    BY <1>1
  <2>2. QED BY <1>5, <2>1
<1>8. r[Len(fields)] = iter[1 .. Len(fields)]
  BY <1>1
<1> HIDE DEF r
<1>9. \A i \in 0 .. Len(fields) : r[i] \in Text
  <2>1. \A i \in 1 .. Len(fields) : r[i - 1] \in Text => r[i] = JoinStep[<<r[i - 1], fields[i]>>]
    BY <1>1, <1>3, <1>6
  <2>2. QED BY <1>1, <1>7, <2>1, JoinStepType, RunTypes
<1>10. Run(r, JoinStep, Text, fields)
  <2>1. r \in [0 .. Len(fields) -> Text]
    BY <1>9 DEF r
  <2>2. \A i \in 1 .. Len(fields) : i - 1 \in 0 .. Len(fields) /\ fields[i] \in Written
    BY <1>1
  <2>3. \A i \in 1 .. Len(fields) : r[i] = JoinStep[<<r[i - 1], fields[i]>>]
    BY <1>3, <1>6, <1>9, <2>2
  <2>4. QED BY <2>1, <2>3 DEF Run
<1>11. QED BY <1>2, <1>7, <1>8, <1>10

\* Two runs from the same value are the same.
LEMMA RunSame ==
    ASSUME NEW step, NEW S, NEW seq, Len(seq) \in Nat,
           NEW r, Run(r, step, S, seq), NEW q, Run(q, step, S, seq), r[0] = q[0]
    PROVE  \A i \in 0 .. Len(seq) : r[i] = q[i]
<1> DEFINE T == {n \in Nat : n <= Len(seq) => r[n] = q[n]}
<1>1. T \subseteq Nat /\ 0 \in T
  OBVIOUS
<1>2. ASSUME NEW n \in T PROVE n + 1 \in T
  <2> SUFFICES ASSUME n + 1 <= Len(seq) PROVE r[n + 1] = q[n + 1]
    OBVIOUS
  <2>1. n + 1 \in 1 .. Len(seq) /\ n + 1 - 1 = n /\ r[n] = q[n]
    OBVIOUS
  <2>2. r[n + 1] = step[<<r[n], seq[n + 1]>>] /\ q[n + 1] = step[<<q[n], seq[n + 1]>>]
    BY <2>1 DEF Run
  <2>3. QED BY <2>1, <2>2
<1>3. T = Nat
  <2> HIDE DEF T
  <2>1. QED BY <1>1, <1>2, Induction
<1>4. QED BY <1>3

\* A run over one text and then one over another.
Meet(r, s, q) == r[Len(s)] = q[0]
Glues(g, r, s, q, t) == /\ \A i \in 0 .. Len(s) : g[i] = r[i]
                        /\ \A i \in 0 .. Len(t) : g[Len(s) + i] = q[i]

\* Two runs, the second from where the first ended, are a run over both texts.
LEMMA RunGlued ==
    ASSUME NEW step, NEW S, NEW s \in Text, NEW t \in Text,
           NEW r, Run(r, step, S, s), NEW q, Run(q, step, S, t), Meet(r, s, q)
    PROVE  \E g : Run(g, step, S, s \o t) /\ Glues(g, r, s, q, t)
<1> DEFINE n == Len(s)
           m == Len(t)
           g == [i \in 0 .. n + m |-> IF i <= n THEN r[i] ELSE q[i - n]]
<1>1. n \in Nat /\ m \in Nat /\ s \o t \in Text /\ Len(s \o t) = n + m
  BY Concat
<1>2. /\ \A i \in 1 .. n : (s \o t)[i] = s[i]
      /\ \A i \in 1 .. m : (s \o t)[n + i] = t[i]
  BY Concat
<1> HIDE DEF n, m
<1>3. /\ \A i \in 0 .. n : g[i] = r[i]
      /\ \A i \in 1 .. m : g[n + i] = q[i]
  BY <1>1
<1>4. r[n] = q[0]
  BY DEF n, Meet
<1>5. \A i \in 0 .. m : g[n + i] = q[i]
  BY <1>1, <1>3, <1>4
<1>6. g \in [0 .. n + m -> S]
  <2>1. r \in [0 .. n -> S] /\ q \in [0 .. m -> S]
    BY DEF Run, n, m
  <2>2. QED BY <1>1, <2>1
<1> HIDE DEF g
<1>7. ASSUME NEW i \in 1 .. n + m PROVE g[i] = step[<<g[i - 1], (s \o t)[i]>>]
  <2>1. CASE i <= n
    <3>1. i \in 1 .. n /\ i - 1 \in 0 .. n /\ i \in 0 .. n
      BY <1>1, <2>1
    <3>2. r[i] = step[<<r[i - 1], s[i]>>]
      BY <3>1 DEF Run, n
    <3>3. QED BY <1>2, <1>3, <3>1, <3>2
  <2>2. CASE ~(i <= n)
    <3> DEFINE k == i - n
    <3>1. k \in 1 .. m /\ k - 1 \in 0 .. m /\ k \in 0 .. m /\ n + k = i /\ n + (k - 1) = i - 1
      BY <1>1, <2>2
    <3> HIDE DEF k
    <3>2. q[k] = step[<<q[k - 1], t[k]>>]
      BY <3>1 DEF Run, m
    <3>3. g[i] = q[k] /\ g[i - 1] = q[k - 1] /\ (s \o t)[i] = t[k]
      BY <1>2, <1>5, <3>1
    <3>4. QED BY <3>2, <3>3
  <2>3. QED BY <2>1, <2>2
<1>8. Run(g, step, S, s \o t)
  BY <1>1, <1>6, <1>7 DEF Run
<1>9. Glues(g, r, s, q, t)
  BY <1>3, <1>5 DEF Glues, n, m
<1>10. QED BY <1>8, <1>9

\* A run over nothing, and over one character.
LEMMA RunNothing ==
    ASSUME NEW step, NEW S, NEW a \in S
    PROVE  \E r : Run(r, step, S, << >>) /\ r[0] = a
<1>1. Run([i \in 0 .. 0 |-> a], step, S, << >>)
  BY DEF Run
<1>2. QED BY <1>1

\* Over one character.
LEMMA RunOne ==
    ASSUME NEW step, NEW S, NEW a \in S, NEW c, NEW b \in S, b = step[<<a, c>>]
    PROVE  \E r : Run(r, step, S, <<c>>) /\ r[0] = a /\ r[1] = b
<1> DEFINE r == [i \in 0 .. 1 |-> IF i = 0 THEN a ELSE b]
<1>1. r \in [0 .. 1 -> S] /\ r[0] = a /\ r[1] = b
  OBVIOUS
<1>2. Len(<<c>>) = 1 /\ <<c>>[1] = c
  OBVIOUS
<1> HIDE DEF r
<1>3. Run(r, step, S, <<c>>)
  BY <1>1, <1>2 DEF Run
<1>4. QED BY <1>1, <1>3

\* There is a run from every value.
LEMMA RunExists ==
    ASSUME NEW S, NEW D, NEW base \in S, NEW step \in Steps(S, D), NEW seq \in Seq(D)
    PROVE  \E r : Run(r, step, S, seq) /\ r[0] = base
<1>1. PICK g : IsFold(g, S, base, step, seq)
  BY FoldExists
<1> DEFINE r == [i \in 0 .. Len(seq) |-> g[1 .. i]]
<1>2. Len(seq) \in Nat
  OBVIOUS
<1>3. r[0] = base
  <2>1. 1 .. 0 = {} /\ {} \in SUBSET (1 .. Len(seq)) /\ 0 \in 0 .. Len(seq)
    BY <1>2
  <2>2. QED BY <1>1, <2>1 DEF IsFold
<1>4. ASSUME NEW i \in 1 .. Len(seq) PROVE r[i] = step[<<r[i - 1], seq[i]>>]
  <2>1. /\ 1 .. i \in SUBSET (1 .. Len(seq)) /\ 1 .. i # {}
        /\ Max(1 .. i) = i /\ (1 .. i) \ {i} = 1 .. i - 1
    BY <1>2, Prefix
  <2>2. g[1 .. i] = step[<<g[(1 .. i) \ {Max(1 .. i)}], seq[Max(1 .. i)]>>]
    BY <1>1, <2>1 DEF IsFold
  <2>3. r[i] = g[1 .. i] /\ r[i - 1] = g[1 .. i - 1]
    BY <1>2
  <2>4. QED BY <2>1, <2>2, <2>3
<1>5. r = [i \in 0 .. Len(seq) |-> r[i]]
  OBVIOUS
<1> HIDE DEF r
<1>6. \A i \in 0 .. Len(seq) : r[i] \in S
  BY <1>3, <1>4, RunTypes
<1>7. r \in [0 .. Len(seq) -> S]
  BY <1>5, <1>6
<1>8. QED BY <1>3, <1>4, <1>7 DEF Run

\* FlattenSeq.
AddStep == [p \in Text \X Text |-> p[1] \o p[2]]

\* Texts put together are a text.
LEMMA AddStepType == AddStep \in Steps(Text, Text)
  BY Concat DEF AddStep, Steps

\* FlattenSeq is a run of texts put together, one after the other.
LEMMA FlattenRuns ==
    ASSUME NEW parts \in Seq(Text)
    PROVE  \E r : /\ Run(r, AddStep, Text, parts) /\ r[0] = << >>
                  /\ FlattenSeq(parts) = r[Len(parts)]
<1> DEFINE n == Len(parts)
           It(f) == [i \in 1 .. n |-> IF i = 1 THEN parts[i] ELSE f[i - 1] \o parts[i]]
           flatten == CHOOSE f : f = It(f)
<1>1. n \in Nat /\ \A i \in 1 .. n : parts[i] \in Text
  OBVIOUS
<1>2. PICK q : Run(q, AddStep, Text, parts) /\ q[0] = << >>
  BY EmptyText, AddStepType, RunExists
<1>3. CASE n = 0
  <2>1. parts = << >> /\ FlattenSeq(parts) = << >>
    BY <1>3 DEF FlattenSeq
  <2>2. QED BY <1>2, <1>3, <2>1
<1>4. CASE n # 0
  <2>1. FlattenSeq(parts) = flatten[n]
    BY <1>4 DEF FlattenSeq
  <2>2. \A i \in 1 .. n : q[i] = q[i - 1] \o parts[i]
    BY <1>1, <1>2 DEF Run, AddStep
  <2> HIDE DEF n
  <2>0. 1 \in 1 .. n /\ n - 1 \in Nat /\ n - 1 + 1 = n /\ q[1] = parts[1]
    <3>1. 1 \in 1 .. n /\ n - 1 \in Nat /\ n - 1 + 1 = n /\ 1 - 1 = 0
      BY <1>1, <1>4
    <3>2. q[1] = << >> \o parts[1]
      BY <1>2, <2>2, <3>1
    <3>3. parts[1] \in Seq(Chars)
      BY <1>1, <3>1 DEF Text
    <3>4. QED BY <3>1, <3>2, <3>3
  <2>3. \E f : f = It(f)
    <3> DEFINE f == [i \in 1 .. n |-> q[i]]
    <3>1. ASSUME NEW i \in 1 .. n
          PROVE  f[i] = IF i = 1 THEN parts[i] ELSE f[i - 1] \o parts[i]
      <4>1. CASE i = 1
        BY <2>0, <4>1
      <4>2. CASE i # 1
        <5>1. i - 1 \in 1 .. n
          BY <1>1, <4>2
        <5>2. QED BY <2>2, <4>2, <5>1
      <4>3. QED BY <4>1, <4>2
    <3>2. f = It(f)
      BY <3>1
    <3>3. QED BY <3>2
  <2>4. flatten = It(flatten)
    BY <2>3
  <2> HIDE DEF flatten
  <2> DEFINE T == {m \in Nat : m + 1 <= n => flatten[m + 1] = q[m + 1]}
  <2>5. 0 \in T
    BY <2>0, <2>4
  <2>6. ASSUME NEW m \in T PROVE m + 1 \in T
    <3> SUFFICES ASSUME m + 2 <= n PROVE flatten[m + 2] = q[m + 2]
      BY <1>1
    <3> DEFINE i == m + 2
    <3>1. i \in 1 .. n /\ i # 1 /\ i - 1 = m + 1 /\ i = m + 1 + 1 /\ flatten[m + 1] = q[m + 1]
      BY <1>1, <2>6
    <3> HIDE DEF i
    <3>2. flatten[i] = flatten[i - 1] \o parts[i]
      BY <2>4, <3>1
    <3>3. q[i] = q[i - 1] \o parts[i]
      BY <2>2, <3>1
    <3>4. flatten[i] = q[i]
      BY <3>1, <3>2, <3>3
    <3>5. QED BY <3>4 DEF i
  <2>7. n - 1 \in T
    <3>1. T \subseteq Nat /\ 0 \in T /\ \A m \in T : m + 1 \in T
      BY <2>5, <2>6
    <3> HIDE DEF T
    <3>2. T = Nat
      BY <3>1, Induction
    <3>3. QED BY <2>0, <3>2
  <2>8. flatten[n] = q[n]
    <3> DEFINE k == n - 1
    <3>1. k + 1 <= n => flatten[k + 1] = q[k + 1]
      BY <2>7
    <3>2. k + 1 = n /\ n <= n
      BY <1>1, <2>0
    <3> HIDE DEF k
    <3>3. QED BY <3>1, <3>2
  <2>9. QED BY <1>2, <2>1, <2>8 DEF n
<1>5. QED BY <1>3, <1>4

-----------------------------------------------------------------------------
(* Reading: a text that takes json.loads from one state to another, and     *)
(* what of it is outside strings is marks; a text that takes extract from   *)
(* one state to another.                                                    *)

Reading(a, json, b) ==
    \E r : /\ Run(r, LoadStep, Loader, json) /\ r[0] = a /\ r[Len(json)] = b
           /\ \A i \in 1 .. Len(json) : r[i - 1].open \/ json[i] \in Marks

Extracting(a, json, b) ==
    \E r : Run(r, ReadStep, Value, json) /\ r[0] = a /\ r[Len(json)] = b

\* json.loads over nothing.
LEMMA ReadingNothing == \A a \in Loader : Reading(a, << >>, a)
<1> SUFFICES ASSUME NEW a \in Loader PROVE Reading(a, << >>, a)
  OBVIOUS
<1>1. PICK r : Run(r, LoadStep, Loader, << >>) /\ r[0] = a
  BY RunNothing
<1>2. QED BY <1>1 DEF Reading

\* Over one character.
LEMMA ReadingOne ==
    ASSUME NEW a \in Loader, NEW c \in Chars, a.open \/ c \in Marks
    PROVE  Reading(a, <<c>>, LoadChar(a, c)) /\ LoadChar(a, c) \in Loader
<1>1. LoadStep[<<a, c>>] = LoadChar(a, c) /\ LoadStep[<<a, c>>] \in Loader
  BY LoadStepType DEF LoadStep, Steps
<1>2. PICK r : Run(r, LoadStep, Loader, <<c>>) /\ r[0] = a /\ r[1] = LoadChar(a, c)
  BY <1>1, RunOne
<1>3. Len(<<c>>) = 1 /\ \A i \in 1 .. 1 : i - 1 = 0 /\ <<c>>[i] = c
  OBVIOUS
<1>4. \A i \in 1 .. 1 : r[i - 1].open \/ <<c>>[i] \in Marks
  BY <1>2, <1>3
<1>5. QED BY <1>1, <1>2, <1>3, <1>4 DEF Reading

\* Over two texts.
LEMMA ReadingBoth ==
    ASSUME NEW a, NEW b, NEW c, NEW s \in Text, NEW t \in Text,
           Reading(a, s, b), Reading(b, t, c)
    PROVE  Reading(a, s \o t, c)
<1> DEFINE n == Len(s)
           m == Len(t)
           Between(r, json) == \A i \in 1 .. Len(json) : r[i - 1].open \/ json[i] \in Marks
<1>1. PICK r : Run(r, LoadStep, Loader, s) /\ r[0] = a /\ r[n] = b /\ Between(r, s)
  BY DEF Reading
<1>2. PICK q : Run(q, LoadStep, Loader, t) /\ q[0] = b /\ q[m] = c /\ Between(q, t)
  BY DEF Reading
<1>3. Meet(r, s, q)
  BY <1>1, <1>2 DEF Meet
<1>4. PICK g : Run(g, LoadStep, Loader, s \o t) /\ Glues(g, r, s, q, t)
  <2>1. Run(r, LoadStep, Loader, s) /\ Run(q, LoadStep, Loader, t)
    BY <1>1, <1>2
  <2>2. QED BY <1>3, <2>1, RunGlued
<1>5. /\ \A i \in 0 .. n : g[i] = r[i]
     /\ \A i \in 0 .. m : g[n + i] = q[i]
  BY <1>4 DEF Glues
<1>6. /\ n \in Nat /\ m \in Nat /\ Len(s \o t) = n + m
      /\ \A i \in 1 .. n : (s \o t)[i] = s[i]
      /\ \A i \in 1 .. m : (s \o t)[n + i] = t[i]
  BY Concat
<1>7. \A i \in 1 .. n : r[i - 1].open \/ s[i] \in Marks
  BY <1>1
<1>8. \A i \in 1 .. m : q[i - 1].open \/ t[i] \in Marks
  BY <1>2
<1> HIDE DEF n, m, Between
<1>9. ASSUME NEW i \in 1 .. n + m PROVE g[i - 1].open \/ (s \o t)[i] \in Marks
  <2>1. CASE i <= n
    <3>1. i \in 1 .. n /\ i - 1 \in 0 .. n
      BY <1>6, <2>1
    <3>2. QED BY <1>5, <1>6, <1>7, <3>1
  <2>2. CASE ~(i <= n)
    <3> DEFINE k == i - n
    <3>1. k \in 1 .. m /\ k - 1 \in 0 .. m /\ n + k = i /\ n + (k - 1) = i - 1
      BY <1>6, <2>2
    <3> HIDE DEF k
    <3>2. g[i - 1] = q[k - 1] /\ (s \o t)[i] = t[k]
      BY <1>5, <1>6, <3>1
    <3>3. QED BY <1>8, <3>1, <3>2
  <2>3. QED BY <2>1, <2>2
<1>10. g[0] = a /\ g[n + m] = c
  <2>1. 0 \in 0 .. n /\ m \in 0 .. m
    BY <1>6
  <2>2. QED BY <1>1, <1>2, <1>5, <2>1
<1>11. QED BY <1>4, <1>6, <1>9, <1>10 DEF Reading

\* Over one character.
LEMMA ExtractingOne ==
    ASSUME NEW a \in Value, NEW c \in Chars
    PROVE  Extracting(a, <<c>>, ReadChar(a, c)) /\ ReadChar(a, c) \in Value
<1>1. ReadStep[<<a, c>>] = ReadChar(a, c) /\ ReadStep[<<a, c>>] \in Value
  BY ReadStepType DEF ReadStep, Steps
<1>2. PICK r : Run(r, ReadStep, Value, <<c>>) /\ r[0] = a /\ r[1] = ReadChar(a, c)
  BY <1>1, RunOne
<1>3. Len(<<c>>) = 1
  OBVIOUS
<1>4. QED BY <1>1, <1>2, <1>3 DEF Extracting

\* extract over nothing.
LEMMA ExtractingNothing == \A a \in Value : Extracting(a, << >>, a)
<1> SUFFICES ASSUME NEW a \in Value PROVE Extracting(a, << >>, a)
  OBVIOUS
<1>1. PICK r : Run(r, ReadStep, Value, << >>) /\ r[0] = a
  BY RunNothing
<1>2. QED BY <1>1 DEF Extracting

\* Over two texts.
LEMMA ExtractingBoth ==
    ASSUME NEW a, NEW b, NEW c, NEW s \in Text, NEW t \in Text,
           Extracting(a, s, b), Extracting(b, t, c)
    PROVE  Extracting(a, s \o t, c)
<1> DEFINE n == Len(s)
           m == Len(t)
<1>1. PICK r : Run(r, ReadStep, Value, s) /\ r[0] = a /\ r[n] = b
  BY DEF Extracting
<1>2. PICK q : Run(q, ReadStep, Value, t) /\ q[0] = b /\ q[m] = c
  BY DEF Extracting
<1>3. Meet(r, s, q)
  BY <1>1, <1>2 DEF Meet
<1>4. PICK g : Run(g, ReadStep, Value, s \o t) /\ Glues(g, r, s, q, t)
  <2>1. Run(r, ReadStep, Value, s) /\ Run(q, ReadStep, Value, t)
    BY <1>1, <1>2
  <2>2. QED BY <1>3, <2>1, RunGlued
<1>5. /\ \A i \in 0 .. n : g[i] = r[i]
     /\ \A i \in 0 .. m : g[n + i] = q[i]
  BY <1>4 DEF Glues
<1>6. n \in Nat /\ m \in Nat /\ Len(s \o t) = n + m
  BY Concat
<1> HIDE DEF n, m
<1>7. g[0] = a /\ g[n + m] = c
  <2>1. 0 \in 0 .. n /\ m \in 0 .. m
    BY <1>6
  <2>2. QED BY <1>1, <1>2, <1>5, <2>1
<1>8. QED BY <1>4, <1>6, <1>7 DEF Extracting

\* What a reading leads to is what the fold computes.
LEMMA ReadingFolds ==
    ASSUME NEW a \in Loader, NEW json \in Text, NEW b, Reading(a, json, b)
    PROVE  FoldLeft(LoadChar, a, json) = b
<1>1. PICK q : Run(q, LoadStep, Loader, json) /\ q[0] = a /\ q[Len(json)] = b
  BY DEF Reading
<1>2. PICK r : /\ Run(r, LoadStep, Loader, json) /\ r[0] = a
               /\ FoldLeft(LoadChar, a, json) = r[Len(json)]
  BY LoadRuns
<1>3. Len(json) \in Nat
  BY DEF Text
<1>4. r[Len(json)] = q[Len(json)]
  BY <1>1, <1>2, <1>3, RunSame
<1>5. QED BY <1>1, <1>2, <1>4

\* The same for extract.
LEMMA ExtractingFolds ==
    ASSUME NEW a \in Value, NEW json \in Text, NEW b, Extracting(a, json, b)
    PROVE  FoldLeft(ReadChar, a, json) = b
<1>1. PICK q : Run(q, ReadStep, Value, json) /\ q[0] = a /\ q[Len(json)] = b
  BY DEF Extracting
<1>2. PICK r : /\ Run(r, ReadStep, Value, json) /\ r[0] = a
               /\ FoldLeft(ReadChar, a, json) = r[Len(json)]
  BY ReadRuns
<1>3. Len(json) \in Nat
  BY DEF Text
<1>4. r[Len(json)] = q[Len(json)]
  BY <1>1, <1>2, <1>3, RunSame
<1>5. QED BY <1>1, <1>2, <1>4

-----------------------------------------------------------------------------
(* A string as it is written and as it is read *)

\* json.loads outside strings, in a string, and after a backslash in it;
\* extract in the value.
Outside(S)     == [strings |-> S, open |-> FALSE, escaped |-> FALSE]
Inside(S, w)   == [strings |-> Append(S, w), open |-> TRUE, escaped |-> FALSE]
Escaping(S, w) == [strings |-> Append(S, w), open |-> TRUE, escaped |-> TRUE]
Got(w)         == [chars |-> w, escaped |-> FALSE, closed |-> FALSE]
GotEscape(w)   == [chars |-> w, escaped |-> TRUE, closed |-> FALSE]

\* They are states of the two readers.
LEMMA StateTypes ==
    ASSUME NEW S \in Seq(Text), NEW w \in Text
    PROVE  /\ Outside(S) \in Loader /\ Inside(S, w) \in Loader /\ Escaping(S, w) \in Loader
           /\ Got(w) \in Value /\ GotEscape(w) \in Value
<1>1. Append(S, w) \in Seq(Text) /\ Len(Append(S, w)) # 0
  OBVIOUS
<1>2. Append(S, w) # << >>
  BY <1>1, EmptyText
<1>3. QED BY <1>1, <1>2 DEF Loader, Value, Outside, Inside, Escaping, Got, GotEscape

\* Sequences with the same elements are equal.
LEMMA SameSequence ==
    ASSUME NEW T, NEW s \in Seq(T), NEW t \in Seq(T), Len(s) = Len(t),
           \A i \in 1 .. Len(s) : s[i] = t[i]
    PROVE  s = t
<1>1. s = [i \in 1 .. Len(s) |-> s[i]] /\ t = [i \in 1 .. Len(t) |-> t[i]]
  OBVIOUS
<1>2. QED BY <1>1

\* States of json.loads with the same fields are equal.
LEMMA SameLoader ==
    ASSUME NEW a \in Loader, NEW b \in Loader,
           a.strings = b.strings, a.open = b.open, a.escaped = b.escaped
    PROVE  a = b
  BY DEF Loader

\* What json.loads does with a character that it keeps.
LEMMA PutSteps ==
    ASSUME NEW S \in Seq(Text), NEW w \in Text, NEW d \in Chars, NEW r \in Loader,
           r.open, r.strings = Append(S, w)
    PROVE  LoadPut(r, d) = Inside(S, Append(w, d))
<1> DEFINE n == Len(S) + 1
           A == Append(S, w)
           B == Append(S, Append(w, d))
           x == LoadPut(r, d)
<1>1. Append(w, d) \in Text
  BY DEF Text
<1>2. /\ A \in Seq(Text) /\ Len(A) = n /\ A[n] = w /\ n \in 1 .. n
      /\ \A i \in 1 .. n - 1 : A[i] = S[i]
  OBVIOUS
<1>3. /\ B \in Seq(Text) /\ Len(B) = n /\ B[n] = Append(w, d)
      /\ \A i \in 1 .. n - 1 : B[i] = S[i]
  BY <1>1
<1>4. r.strings = A
  OBVIOUS
<1>5. Inside(S, Append(w, d)) \in Loader
  BY <1>1, StateTypes
<1>6. /\ Inside(S, Append(w, d)).strings = B
      /\ Inside(S, Append(w, d)).open = TRUE /\ Inside(S, Append(w, d)).escaped = FALSE
  BY DEF Inside
<1> HIDE DEF n, A, B
<1>7. /\ x \in Loader /\ x.open /\ ~x.escaped /\ Len(x.strings) = n
      /\ x.strings[n] = Append(w, d)
      /\ \A i \in 1 .. n - 1 : x.strings[i] = S[i]
  <2>1. /\ x \in Loader /\ x.open /\ ~x.escaped /\ Len(x.strings) = Len(r.strings)
        /\ x.strings[Len(r.strings)] = Append(r.strings[Len(r.strings)], d)
        /\ \A i \in 1 .. Len(r.strings) - 1 : x.strings[i] = r.strings[i]
    BY LoadPutType
  <2> HIDE DEF x
  <2>2. Len(r.strings) = n /\ r.strings[n] = w
    BY <1>2, <1>4
  <2>3. QED BY <1>2, <1>4, <2>1, <2>2
<1> HIDE DEF x
<1>8. x.strings \in Seq(Text) /\ x.open = TRUE /\ x.escaped = FALSE
  BY <1>7 DEF Loader
<1>9. x.strings = B
  <2>1. \A i \in 1 .. n : x.strings[i] = B[i]
    <3>1. \A i \in 1 .. n : i = n \/ i \in 1 .. n - 1
      BY DEF n
    <3>2. QED BY <1>3, <1>7, <3>1
  <2>2. QED BY <1>3, <1>7, <1>8, <2>1, SameSequence
<1>10. QED BY <1>5, <1>6, <1>7, <1>8, <1>9, SameLoader DEF x

\* What json.loads does with a character, by where it is.
LEMMA LoadSteps ==
    ASSUME NEW S \in Seq(Text), NEW w \in Text, NEW c \in Chars
    PROVE  /\ LoadChar(Outside(S), Quote) = Inside(S, << >>)
           /\ c # Quote => LoadChar(Outside(S), c) = Outside(S)
           /\ c \notin {Quote, Backslash} => LoadChar(Inside(S, w), c) = Inside(S, Append(w, c))
           /\ LoadChar(Inside(S, w), Backslash) = Escaping(S, w)
           /\ LoadChar(Escaping(S, w), c) = Inside(S, Append(w, Decoded(c)))
           /\ LoadChar(Inside(S, w), Quote) = Outside(Append(S, w))
<1>1. LoadChar(Outside(S), Quote) = Inside(S, << >>)
  BY DEF LoadChar, Outside, Inside
<1>2. ASSUME c # Quote PROVE LoadChar(Outside(S), c) = Outside(S)
  BY <1>2 DEF LoadChar, Outside
<1>3. /\ Inside(S, w).open /\ ~Inside(S, w).escaped /\ Inside(S, w).strings = Append(S, w)
      /\ Escaping(S, w).open /\ Escaping(S, w).escaped /\ Escaping(S, w).strings = Append(S, w)
      /\ Inside(S, w) \in Loader /\ Escaping(S, w) \in Loader
  BY StateTypes DEF Inside, Escaping
<1>4. ASSUME c \notin {Quote, Backslash} PROVE LoadChar(Inside(S, w), c) = Inside(S, Append(w, c))
  <2>1. LoadChar(Inside(S, w), c) = LoadPut(Inside(S, w), c)
    BY <1>3, <1>4 DEF LoadChar
  <2>2. QED BY <1>3, <2>1, PutSteps
<1>5. LoadChar(Inside(S, w), Backslash) = Escaping(S, w)
  BY <1>3, Characters DEF LoadChar, Inside, Escaping
<1>6. LoadChar(Escaping(S, w), c) = Inside(S, Append(w, Decoded(c)))
  <2>1. LoadChar(Escaping(S, w), c) = LoadPut(Escaping(S, w), Decoded(c))
    BY <1>3 DEF LoadChar
  <2>2. Decoded(c) \in Chars
    BY DecodedType
  <2>3. QED BY <1>3, <2>1, <2>2, PutSteps
<1>7. LoadChar(Inside(S, w), Quote) = Outside(Append(S, w))
  BY <1>3, Characters DEF LoadChar, Inside, Outside
<1>8. QED BY <1>1, <1>2, <1>4, <1>5, <1>6, <1>7

\* What extract does with a character, by where it is.
LEMMA ReadSteps ==
    ASSUME NEW w \in Text, NEW c \in Chars
    PROVE  /\ c \notin {Quote, Backslash} => ReadChar(Got(w), c) = Got(Append(w, c))
           /\ ReadChar(Got(w), Backslash) = GotEscape(w)
           /\ ReadChar(GotEscape(w), c) = Got(Append(w, Unescaped(c)))
           /\ ReadChar(Got(w), Quote) = [Got(w) EXCEPT !.closed = TRUE]
  BY Characters DEF ReadChar, Got, GotEscape

\* No line feed in a text.
OneLined(s) == \A i \in 1 .. Len(s) : s[i] # LineFeed

\* Two texts without a line feed are one together.
LEMMA OneLinedBoth ==
    ASSUME NEW s \in Text, NEW t \in Text, OneLined(s), OneLined(t)
    PROVE  OneLined(s \o t)
<1> DEFINE n == Len(s)
           m == Len(t)
<1>1. /\ n \in Nat /\ m \in Nat /\ Len(s \o t) = n + m
      /\ \A i \in 1 .. n : (s \o t)[i] = s[i]
      /\ \A i \in 1 .. m : (s \o t)[n + i] = t[i]
  BY Concat
<1>2. /\ \A i \in 1 .. n : s[i] # LineFeed
      /\ \A i \in 1 .. m : t[i] # LineFeed
  BY DEF OneLined
<1> HIDE DEF n, m
<1>3. ASSUME NEW i \in 1 .. n + m PROVE (s \o t)[i] # LineFeed
  <2>1. CASE i <= n
    BY <1>1, <1>2, <2>1
  <2>2. CASE ~(i <= n)
    <3>1. i - n \in 1 .. m /\ n + (i - n) = i
      BY <1>1, <2>2
    <3>2. QED BY <1>1, <1>2, <3>1
  <2>3. QED BY <2>1, <2>2
<1>4. QED BY <1>1, <1>3 DEF OneLined

\* Nor is there one in a single character that is none.
LEMMA OneLinedOne == \A c \in Chars \ {LineFeed} : <<c>> \in Text /\ OneLined(<<c>>)
<1> SUFFICES ASSUME NEW c \in Chars, c # LineFeed PROVE <<c>> \in Text /\ OneLined(<<c>>)
  OBVIOUS
<1>1. Len(<<c>>) = 1 /\ <<c>>[1] = c /\ <<c>> \in Text
  BY Single
<1>2. QED BY <1>1 DEF OneLined

\* Two characters are one and one.
LEMMA PairIsBoth ==
    ASSUME NEW c \in Chars, NEW d \in Chars
    PROVE  <<c, d>> = <<c>> \o <<d>> /\ <<c, d>> \in Text
<1>1. <<c>> \in Seq(Chars) /\ <<d>> \in Seq(Chars) /\ <<c, d>> \in Seq(Chars)
  OBVIOUS
<1>2. <<c>> \o <<d>> \in Seq(Chars) /\ Len(<<c>> \o <<d>>) = 2 /\ Len(<<c, d>>) = 2
  OBVIOUS
<1>3. \A i \in 1 .. 2 : <<c, d>>[i] = (<<c>> \o <<d>>)[i]
  OBVIOUS
<1>4. <<c, d>> = <<c>> \o <<d>>
  BY <1>1, <1>2, <1>3, SameSequence
<1>5. QED BY <1>1, <1>4 DEF Text

\* extract reads a text with these characters only.
Legible(v) == \A i \in 1 .. Len(v) : v[i] \notin Misread

\* A text is legible as far as it goes.
LEMMA LegibleMore ==
    ASSUME NEW w \in Text, NEW c \in Chars, Legible(Append(w, c))
    PROVE  Legible(w) /\ c \notin Misread
<1> DEFINE u == Append(w, c)
           n == Len(w)
<1>1. n \in Nat /\ Len(u) = n + 1 /\ u[n + 1] = c /\ \A i \in 1 .. n : u[i] = w[i]
  BY DEF Text
<1>2. \A i \in 1 .. Len(u) : u[i] \notin Misread
  BY DEF Legible
<1> HIDE DEF u, n
<1>3. n + 1 \in 1 .. n + 1 /\ \A i \in 1 .. n : i \in 1 .. n + 1
  BY <1>1
<1>4. c \notin Misread /\ \A i \in 1 .. n : w[i] \notin Misread
  BY <1>1, <1>2, <1>3
<1>5. QED BY <1>4 DEF Legible, n

\* e is how the character c is written in a string.
Writes(e, c) ==
    /\ e \in Text /\ OneLined(e)
    /\ \A w \in Text :
          /\ \A S \in Seq(Text) : Reading(Inside(S, w), e, Inside(S, Append(w, c)))
          /\ c \notin Misread => Extracting(Got(w), e, Got(Append(w, c)))

\* A character after a backslash.
LEMMA PairWrites ==
    ASSUME NEW c \in Chars, NEW d \in Chars, d # LineFeed, Decoded(d) = c,
           c \notin Misread => Unescaped(d) = c
    PROVE  Writes(<<Backslash, d>>, c)
<1>1. Backslash \in Chars /\ Backslash # LineFeed
  BY Characters
<1>2. <<Backslash, d>> = <<Backslash>> \o <<d>>
  BY <1>1, PairIsBoth
<1>3. <<Backslash>> \in Text /\ <<d>> \in Text
  BY <1>1, Single
<1>4. <<Backslash, d>> \in Text /\ OneLined(<<Backslash, d>>)
  BY <1>1, <1>2, <1>3, OneLinedOne, OneLinedBoth, Concat
<1>5. ASSUME NEW w \in Text, NEW S \in Seq(Text)
      PROVE  Reading(Inside(S, w), <<Backslash, d>>, Inside(S, Append(w, c)))
  <2>1. /\ Inside(S, w) \in Loader /\ Inside(S, w).open
        /\ Escaping(S, w) \in Loader /\ Escaping(S, w).open
    BY StateTypes DEF Inside, Escaping
  <2>2. Reading(Inside(S, w), <<Backslash>>, Escaping(S, w))
    BY <1>1, <2>1, LoadSteps, ReadingOne
  <2>3. Reading(Escaping(S, w), <<d>>, Inside(S, Append(w, c)))
    BY <2>1, LoadSteps, ReadingOne
  <2>4. QED BY <1>2, <1>3, <2>2, <2>3, ReadingBoth
<1>6. ASSUME NEW w \in Text, c \notin Misread
      PROVE  Extracting(Got(w), <<Backslash, d>>, Got(Append(w, c)))
  <2>1. Got(w) \in Value /\ GotEscape(w) \in Value
    <3>1. << >> \in Seq(Text)
      OBVIOUS
    <3>2. QED BY <3>1, StateTypes
  <2>2. Extracting(Got(w), <<Backslash>>, GotEscape(w))
    BY <1>1, <2>1, ReadSteps, ExtractingOne
  <2>3. Extracting(GotEscape(w), <<d>>, Got(Append(w, c)))
    BY <1>6, <2>1, ReadSteps, ExtractingOne
  <2>4. QED BY <1>2, <1>3, <2>2, <2>3, ExtractingBoth
<1>7. QED BY <1>4, <1>5, <1>6 DEF Writes

\* A character as it is.
LEMMA SelfWrites ==
    ASSUME NEW c \in Chars \ {Quote, Backslash, LineFeed}
    PROVE  Writes(<<c>>, c)
<1>1. <<c>> \in Text /\ OneLined(<<c>>)
  BY OneLinedOne
<1>2. ASSUME NEW w \in Text, NEW S \in Seq(Text)
      PROVE  Reading(Inside(S, w), <<c>>, Inside(S, Append(w, c)))
  <2>1. Inside(S, w) \in Loader /\ Inside(S, w).open
    BY StateTypes DEF Inside
  <2>2. QED BY <2>1, LoadSteps, ReadingOne
<1>3. ASSUME NEW w \in Text PROVE Extracting(Got(w), <<c>>, Got(Append(w, c)))
  <2>1. Got(w) \in Value
    <3>1. << >> \in Seq(Text)
      OBVIOUS
    <3>2. QED BY <3>1, StateTypes
  <2>2. QED BY <2>1, ReadSteps, ExtractingOne
<1>4. QED BY <1>1, <1>2, <1>3 DEF Writes

\* escapeJson and json.dumps write every character, each in its way.
LEMMA BothWrite ==
    ASSUME NEW c \in Chars
    PROVE  Writes(Escaped(c), c) /\ Writes(Dumped(c), c)
<1>1. CASE c \in {Quote, Backslash}
  <2>1. Decoded(c) = c /\ c # LineFeed /\ Unescaped(c) = c
    BY <1>1, DecodedType, Characters DEF Unescaped
  <2>2. Writes(<<Backslash, c>>, c)
    BY <2>1, PairWrites
  <2>3. Escaped(c) = <<Backslash, c>> /\ Dumped(c) = <<Backslash, c>>
    BY <1>1, NamedDiffer DEF Escaped, Dumped
  <2>4. QED BY <2>2, <2>3
<1>2. CASE c = LineFeed
  <2>1. Decoded("n") = c /\ Unescaped("n") = c
    BY <1>2 DEF Decoded, Unescaped
  <2>2. Writes(<<Backslash, "n">>, c)
    BY <2>1, Characters, NamedDiffer, PairWrites
  <2>3. Escaped(c) = <<Backslash, "n">> /\ Dumped(c) = <<Backslash, "n">>
    BY <1>2, NamedDiffer DEF Escaped, Dumped
  <2>4. QED BY <2>2, <2>3
<1>3. CASE c = FormFeed
  <2>1. Decoded("f") = c /\ c \in Misread
    BY <1>3 DEF Decoded, Misread
  <2>2. Writes(<<Backslash, "f">>, c)
    BY <2>1, Characters, NamedDiffer, PairWrites
  <2>3. Escaped(c) = <<Backslash, "f">> /\ Dumped(c) = <<Backslash, "f">>
    BY <1>3, NamedDiffer DEF Escaped, Dumped
  <2>4. QED BY <2>2, <2>3
<1>4. CASE c = Control
  <2>1. Decoded("u0007") = c /\ c \in Misread
    BY <1>4 DEF Decoded, Misread
  <2>2. Writes(<<Backslash, "u0007">>, c)
    BY <2>1, Characters, NamedDiffer, PairWrites
  <2>3. Escaped(c) = <<Backslash, "u0007">> /\ Dumped(c) = <<Backslash, "u0007">>
    BY <1>4, NamedDiffer DEF Escaped, Dumped
  <2>4. QED BY <2>2, <2>3
<1>5. CASE c = NotAscii
  <2>1. Decoded("u00e9") = c /\ c \in Misread /\ c \notin {Quote, Backslash, LineFeed}
    BY <1>5, NamedDiffer DEF Decoded, Misread
  <2>2. Writes(<<Backslash, "u00e9">>, c)
    BY <2>1, Characters, NamedDiffer, PairWrites
  <2>3. Writes(<<c>>, c)
    BY <2>1, SelfWrites
  <2>4. Escaped(c) = <<c>> /\ Dumped(c) = <<Backslash, "u00e9">>
    BY <1>5, NamedDiffer DEF Escaped, Dumped
  <2>5. QED BY <2>2, <2>3, <2>4
<1>6. CASE c \notin {Quote, Backslash, LineFeed, FormFeed, Control, NotAscii}
  <2>1. Escaped(c) = <<c>> /\ Dumped(c) = <<c>>
    BY <1>6 DEF Escaped, Dumped
  <2>2. QED BY <1>6, <2>1, SelfWrites
<1>7. QED BY <1>1, <1>2, <1>3, <1>4, <1>5, <1>6

\* e is how a string of the characters v is written.
Spells(e, v) ==
    /\ e \in Text /\ v \in Text /\ OneLined(e)
    /\ \A S \in Seq(Text) : Reading(Inside(S, << >>), e, Inside(S, v))
    /\ Legible(v) => Extracting(Got(<< >>), e, Got(v))

\* A text and its starts, one character longer at a time.
LEMMA Starts ==
    ASSUME NEW v \in Text
    PROVE  /\ SubSeq(v, 1, 0) = << >> /\ SubSeq(v, 1, Len(v)) = v
           /\ \A n \in Nat : n + 1 <= Len(v) =>
                 /\ SubSeq(v, 1, n) \in Text /\ v[n + 1] \in Chars
                 /\ SubSeq(v, 1, n + 1) = Append(SubSeq(v, 1, n), v[n + 1])
<1>1. v \in Seq(Chars)
  BY DEF Text
<1>2. SubSeq(v, 1, 0) = << >> /\ SubSeq(v, 1, Len(v)) = v
  BY <1>1
<1>3. ASSUME NEW n \in Nat, n + 1 <= Len(v)
      PROVE  /\ SubSeq(v, 1, n) \in Text /\ v[n + 1] \in Chars
             /\ SubSeq(v, 1, n + 1) = Append(SubSeq(v, 1, n), v[n + 1])
  <2>1. SubSeq(v, 1, n) \in Seq(Chars) /\ v[n + 1] \in Chars /\ SubSeq(v, 1, n + 1) \in Seq(Chars)
    BY <1>1, <1>3
  <2>2. SubSeq(v, 1, n + 1) = Append(SubSeq(v, 1, n), v[n + 1])
    BY <1>1, <1>3
  <2>3. QED BY <2>1, <2>2 DEF Text
<1>4. QED BY <1>2, <1>3

\* Nothing is written as nothing.
LEMMA SpellsNothing == Spells(<< >>, << >>)
<1>1. << >> \in Text /\ << >> \in Seq(Text) /\ OneLined(<< >>)
  BY EmptyText DEF OneLined
<1>2. \A S \in Seq(Text) : Reading(Inside(S, << >>), << >>, Inside(S, << >>))
  BY <1>1, StateTypes, ReadingNothing
<1>3. Extracting(Got(<< >>), << >>, Got(<< >>))
  BY <1>1, StateTypes, ExtractingNothing
<1>4. QED BY <1>1, <1>2, <1>3 DEF Spells

\* One more character in a string.
LEMMA SpellsNext ==
    ASSUME NEW s, NEW w, Spells(s, w), NEW c \in Chars, NEW e, Writes(e, c)
    PROVE  Spells(s \o e, Append(w, c))
<1> DEFINE u == Append(w, c)
<1>1. /\ s \in Text /\ w \in Text /\ OneLined(s) /\ << >> \in Text
      /\ \A S \in Seq(Text) : Reading(Inside(S, << >>), s, Inside(S, w))
      /\ Legible(w) => Extracting(Got(<< >>), s, Got(w))
  BY EmptyText DEF Spells
<1>2. /\ e \in Text /\ OneLined(e)
      /\ \A S \in Seq(Text) : Reading(Inside(S, w), e, Inside(S, u))
      /\ c \notin Misread => Extracting(Got(w), e, Got(u))
  BY <1>1 DEF Writes
<1>3. u \in Text /\ (Legible(u) => Legible(w) /\ c \notin Misread)
  BY <1>1, LegibleMore DEF Text
<1> HIDE DEF u
<1>4. s \o e \in Text /\ OneLined(s \o e)
  BY <1>1, <1>2, Concat, OneLinedBoth
<1>5. \A S \in Seq(Text) : Reading(Inside(S, << >>), s \o e, Inside(S, u))
  BY <1>1, <1>2, ReadingBoth
<1>6. Legible(u) => Extracting(Got(<< >>), s \o e, Got(u))
  BY <1>1, <1>2, <1>3, ExtractingBoth
<1>7. Spells(s \o e, u)
  BY <1>3, <1>4, <1>5, <1>6 DEF Spells
<1>8. QED BY <1>7 DEF u

\* Parts that spell one after the other, flattened.
LEMMA FlattenSpells ==
    ASSUME NEW parts \in Seq(Text), NEW w, w[0] = << >>,
           \A i \in 1 .. Len(parts) : \A s : Spells(s, w[i - 1]) => Spells(s \o parts[i], w[i])
    PROVE  Spells(FlattenSeq(parts), w[Len(parts)])
<1> DEFINE n == Len(parts)
<1>1. n \in Nat /\ \A i \in 1 .. n : parts[i] \in Text
  OBVIOUS
<1>2. \A i \in 1 .. n : \A s : Spells(s, w[i - 1]) => Spells(s \o parts[i], w[i])
  OBVIOUS
<1> HIDE DEF n
<1>3. PICK r : /\ Run(r, AddStep, Text, parts) /\ r[0] = << >>
               /\ FlattenSeq(parts) = r[n]
  BY FlattenRuns DEF n
<1>4. /\ r \in [0 .. n -> Text]
      /\ \A i \in 1 .. n : r[i] = r[i - 1] \o parts[i]
  <2>1. r \in [0 .. n -> Text] /\ \A i \in 1 .. n : r[i] = AddStep[<<r[i - 1], parts[i]>>]
    BY <1>3 DEF Run, n
  <2>2. \A s, t \in Text : AddStep[<<s, t>>] = s \o t
    BY DEF AddStep
  <2>3. ASSUME NEW i \in 1 .. n PROVE r[i] = r[i - 1] \o parts[i]
    <3>1. r[i - 1] \in Text /\ parts[i] \in Text
      BY <1>1, <2>1
    <3>2. QED BY <2>1, <2>2, <3>1
  <2>4. QED BY <2>1, <2>3
<1> DEFINE Done(m) == m <= n => Spells(r[m], w[m])
<1>5. Done(0)
  BY <1>3, SpellsNothing
<1>6. ASSUME NEW m \in Nat, Done(m) PROVE Done(m + 1)
  <2> DEFINE k == m + 1
  <2> SUFFICES ASSUME k <= n PROVE Spells(r[k], w[k])
    OBVIOUS
  <2>1. k \in 1 .. n /\ k - 1 = m /\ m <= n
    BY <1>1
  <2>2. Spells(r[m], w[m])
    BY <1>6, <2>1
  <2> HIDE DEF k, Done
  <2>3. r[k] = r[m] \o parts[k]
    BY <1>4, <2>1
  <2>4. QED BY <1>2, <2>1, <2>2, <2>3
<1>7. Done(n)
  <2> HIDE DEF Done
  <2> DEFINE T == {m \in Nat : Done(m)}
  <2>1. T \subseteq Nat /\ 0 \in T /\ \A m \in T : m + 1 \in T
    BY <1>5, <1>6
  <2> HIDE DEF T
  <2>2. T = Nat
    BY <2>1, Induction
  <2>3. QED BY <1>1, <2>2 DEF T
<1>8. n <= n
  BY <1>1
<1>9. QED BY <1>3, <1>7, <1>8 DEF n

\* The characters of a text, written one after the other.
LEMMA PartsSpell ==
    ASSUME NEW v \in Text, NEW parts, parts = [i \in DOMAIN v |-> parts[i]],
           \A i \in 1 .. Len(v) : Writes(parts[i], v[i])
    PROVE  Spells(FlattenSeq(parts), v)
<1> DEFINE n == Len(v)
           w == [i \in 0 .. n |-> SubSeq(v, 1, i)]
<1>1. n \in Nat /\ DOMAIN v = 1 .. n /\ \A i \in 1 .. n : v[i] \in Chars
  BY DEF Text
<1>2. \A i \in 1 .. n : Writes(parts[i], v[i]) /\ parts[i] \in Text
  BY DEF Writes
<1>3. parts \in Seq(Text) /\ Len(parts) = n
  <2> HIDE DEF n
  <2>1. parts = [i \in 1 .. n |-> parts[i]]
    BY <1>1
  <2>2. QED BY <1>1, <1>2, <2>1
<1>4. w[0] = << >> /\ w[n] = v
  <2>1. SubSeq(v, 1, 0) = << >> /\ SubSeq(v, 1, n) = v
    BY Starts
  <2> HIDE DEF n
  <2>2. QED BY <1>1, <2>1
<1>5. ASSUME NEW i \in 1 .. n, NEW s, Spells(s, w[i - 1]) PROVE Spells(s \o parts[i], w[i])
  <2>1. i - 1 \in Nat /\ i - 1 + 1 = i /\ i <= n /\ i - 1 \in 0 .. n /\ i \in 0 .. n
    BY <1>1
  <2>2. SubSeq(v, 1, i) = Append(SubSeq(v, 1, i - 1), v[i])
    <3> DEFINE m == i - 1
    <3>1. m \in Nat /\ m + 1 = i /\ m + 1 <= Len(v)
      BY <2>1
    <3> HIDE DEF m
    <3>2. SubSeq(v, 1, m + 1) = Append(SubSeq(v, 1, m), v[m + 1])
      BY <3>1, Starts
    <3>3. SubSeq(v, 1, i) = Append(SubSeq(v, 1, m), v[i])
      BY <3>1, <3>2
    <3>4. QED BY <3>3 DEF m
  <2>3. w[i] = Append(w[i - 1], v[i])
    BY <2>1, <2>2
  <2> HIDE DEF w
  <2>4. QED BY <1>1, <1>2, <1>5, <2>3, SpellsNext
<1> HIDE DEF w, n
<1>6. QED BY <1>3, <1>4, <1>5, FlattenSpells

\* escapeJson and json.dumps write a string, whatever its characters.
LEMMA BothSpell ==
    ASSUME NEW v \in Text
    PROVE  Spells(EscapeJson(v), v) /\ Spells(DumpedAll(v), v)
<1> DEFINE e == [i \in DOMAIN v |-> Escaped(v[i])]
           d == [i \in DOMAIN v |-> Dumped(v[i])]
<1>1. DOMAIN v = 1 .. Len(v) /\ \A i \in 1 .. Len(v) : v[i] \in Chars
  BY DEF Text
<1>2. /\ e = [i \in DOMAIN v |-> e[i]] /\ \A i \in 1 .. Len(v) : Writes(e[i], v[i])
      /\ d = [i \in DOMAIN v |-> d[i]] /\ \A i \in 1 .. Len(v) : Writes(d[i], v[i])
  BY <1>1, BothWrite
<1>3. EscapeJson(v) = FlattenSeq(e) /\ DumpedAll(v) = FlattenSeq(d)
  BY DEF EscapeJson, DumpedAll
<1> HIDE DEF e, d
<1>4. QED BY <1>2, <1>3, PartsSpell

\* A character that stands for itself: the name of a key.
Plain == Chars \ {Quote, Backslash, LineFeed, FormFeed, Control}

\* A plain character is written as it is.
LEMMA PlainSpells == \A c \in Plain : Spells(<<c>>, <<c>>)
<1> SUFFICES ASSUME NEW c \in Plain PROVE Spells(<<c>>, <<c>>)
  OBVIOUS
<1>1. c \in Chars /\ <<c>> \in Text /\ << >> \in Text /\ << >> \in Seq(Text)
  BY Single, EmptyText DEF Plain
<1>2. Append(<< >>, c) = <<c>>
  OBVIOUS
<1>3. Writes(<<c>>, c)
  BY SelfWrites DEF Plain
<1>4. /\ OneLined(<<c>>)
      /\ c \notin Misread => Extracting(Got(<< >>), <<c>>, Got(<<c>>))
      /\ \A S \in Seq(Text) : Reading(Inside(S, << >>), <<c>>, Inside(S, <<c>>))
  BY <1>1, <1>2, <1>3 DEF Writes
<1>5. Legible(<<c>>) => c \notin Misread
  <2>1. Len(<<c>>) = 1 /\ <<c>>[1] = c
    OBVIOUS
  <2>2. QED BY <2>1 DEF Legible
<1>6. QED BY <1>1, <1>4, <1>5 DEF Spells

\* A string in its quotes.
LEMMA QuotedReads ==
    ASSUME NEW S \in Seq(Text), NEW e, NEW v, Spells(e, v)
    PROVE  /\ Quoted(e) \in Text /\ OneLined(Quoted(e)) /\ Append(S, v) \in Seq(Text)
           /\ Reading(Outside(S), Quoted(e), Outside(Append(S, v)))
<1> DEFINE q == <<Quote>>
<1>1. /\ e \in Text /\ v \in Text /\ OneLined(e) /\ << >> \in Text
      /\ Reading(Inside(S, << >>), e, Inside(S, v))
  BY EmptyText DEF Spells
<1>2. q \in Text /\ OneLined(q) /\ Quote \in Chars
  BY Characters, OneLinedOne
<1>3. /\ Outside(S) \in Loader /\ Inside(S, v) \in Loader /\ Inside(S, v).open
      /\ Quote \in Marks
  BY <1>1, StateTypes DEF Inside, Marks
<1>4. Reading(Outside(S), q, Inside(S, << >>))
  BY <1>1, <1>2, <1>3, LoadSteps, ReadingOne
<1>5. Reading(Inside(S, v), q, Outside(Append(S, v)))
  BY <1>1, <1>2, <1>3, LoadSteps, ReadingOne
<1>6. Quoted(e) = (q \o e) \o q
  BY DEF Quoted
<1> HIDE DEF q
<1>7. /\ q \o e \in Text /\ OneLined(q \o e)
      /\ Reading(Outside(S), q \o e, Inside(S, v))
  BY <1>1, <1>2, <1>4, Concat, OneLinedBoth, ReadingBoth
<1>8. /\ (q \o e) \o q \in Text /\ OneLined((q \o e) \o q)
      /\ Reading(Outside(S), (q \o e) \o q, Outside(Append(S, v)))
  BY <1>1, <1>2, <1>5, <1>7, Concat, OneLinedBoth, ReadingBoth
<1>9. Append(S, v) \in Seq(Text)
  BY <1>1
<1>10. QED BY <1>6, <1>8, <1>9

\* A mark between strings.
LEMMA MarkReads ==
    ASSUME NEW S \in Seq(Text), NEW c \in Marks \ {Quote}
    PROVE  <<c>> \in Text /\ OneLined(<<c>>) /\ Reading(Outside(S), <<c>>, Outside(S))
<1>1. c \in Chars /\ c # Quote /\ c # LineFeed /\ << >> \in Text
  BY Characters, EmptyText DEF Marks, LineFeed
<1>2. Outside(S) \in Loader
  BY <1>1, StateTypes
<1>3. QED BY <1>1, <1>2, OneLinedOne, LoadSteps, ReadingOne

\* A field: its key and its value.
LEMMA MemberReads ==
    ASSUME NEW S \in Seq(Text), NEW f \in Written, f.key \in Plain, NEW v, Spells(f.chars, v)
    PROVE  /\ Member(f) \in Text /\ OneLined(Member(f))
           /\ Append(Append(S, <<f.key>>), v) \in Seq(Text)
           /\ Reading(Outside(S), Member(f), Outside(Append(Append(S, <<f.key>>), v)))
<1> DEFINE K == Append(S, <<f.key>>)
           key == Quoted(<<f.key>>)
           colon == <<":">>
           value == Quoted(f.chars)
<1>1. Spells(<<f.key>>, <<f.key>>)
  BY PlainSpells
<1>2. /\ key \in Text /\ OneLined(key) /\ K \in Seq(Text)
      /\ Reading(Outside(S), key, Outside(K))
  BY <1>1, QuotedReads
<1>3. /\ value \in Text /\ OneLined(value) /\ Append(K, v) \in Seq(Text)
      /\ Reading(Outside(K), value, Outside(Append(K, v)))
  BY <1>2, QuotedReads
<1>4. colon \in Text /\ OneLined(colon) /\ Reading(Outside(K), colon, Outside(K))
  <2>1. ":" \in Marks \ {Quote}
    BY DEF Marks, Quote
  <2>2. QED BY <1>2, <2>1, MarkReads
<1>5. Member(f) = (key \o colon) \o value
  BY DEF Member
<1> HIDE DEF K, key, colon, value
<1>6. /\ key \o colon \in Text /\ OneLined(key \o colon)
      /\ Reading(Outside(S), key \o colon, Outside(K))
  BY <1>2, <1>4, Concat, OneLinedBoth, ReadingBoth
<1>7. /\ (key \o colon) \o value \in Text /\ OneLined((key \o colon) \o value)
      /\ Reading(Outside(S), (key \o colon) \o value, Outside(Append(K, v)))
  BY <1>3, <1>6, Concat, OneLinedBoth, ReadingBoth
<1>8. QED BY <1>3, <1>5, <1>7 DEF K

-----------------------------------------------------------------------------
(* An object as it is written and as it is read *)

\* The fields as written, and the values they were made of.
Named(fields, values) ==
    /\ fields \in Seq(Written) /\ values \in Seq(Text) /\ Len(values) = Len(fields)
    /\ \A i \in 1 .. Len(fields) : fields[i].key \in Plain /\ Spells(fields[i].chars, values[i])

\* The strings of the first k fields.
Told(T, fields, values, k) ==
    /\ T \in Seq(Text) /\ Len(T) = 2 * k
    /\ \A i \in 1 .. k : T[2 * i - 1] = <<fields[i].key>> /\ T[2 * i] = values[i]

\* The strings of one field more.
LEMMA ToldMore ==
    ASSUME NEW fields, NEW values, NEW k \in Nat, NEW T, Told(T, fields, values, k),
           <<fields[k + 1].key>> \in Text, values[k + 1] \in Text
    PROVE  Told(Append(Append(T, <<fields[k + 1].key>>), values[k + 1]), fields, values, k + 1)
<1> DEFINE name == <<fields[k + 1].key>>
           value == values[k + 1]
           U == Append(T, name)
           W == Append(U, value)
<1>1. /\ T \in Seq(Text) /\ Len(T) = 2 * k /\ name \in Text /\ value \in Text
      /\ \A i \in 1 .. k : T[2 * i - 1] = <<fields[i].key>> /\ T[2 * i] = values[i]
  BY DEF Told
<1> HIDE DEF name, value
<1>2. /\ U \in Seq(Text) /\ Len(U) = 2 * k + 1 /\ U[2 * k + 1] = name
      /\ \A n \in 1 .. 2 * k : U[n] = T[n]
  BY <1>1
<1> HIDE DEF U
<1>3. /\ W \in Seq(Text) /\ Len(W) = 2 * k + 2 /\ W[2 * k + 2] = value
      /\ \A n \in 1 .. 2 * k + 1 : W[n] = U[n]
  BY <1>1, <1>2
<1> HIDE DEF W
<1>4. ASSUME NEW i \in 1 .. k + 1 PROVE W[2 * i - 1] = <<fields[i].key>> /\ W[2 * i] = values[i]
  <2>1. CASE i = k + 1
    <3>1. 2 * i - 1 = 2 * k + 1 /\ 2 * i = 2 * k + 2
      BY <2>1
    <3>2. W[2 * k + 1] = name /\ W[2 * k + 2] = value
      BY <1>2, <1>3
    <3>3. QED BY <2>1, <3>1, <3>2 DEF name, value
  <2>2. CASE i \in 1 .. k
    <3>1. 2 * i - 1 \in 1 .. 2 * k /\ 2 * i \in 1 .. 2 * k
      BY <2>2
    <3>2. /\ W[2 * i - 1] = T[2 * i - 1] /\ W[2 * i] = T[2 * i]
      BY <1>2, <1>3, <3>1
    <3>3. QED BY <1>1, <2>2, <3>2
  <2>3. QED BY <2>1, <2>2
<1>5. Len(W) = 2 * (k + 1)
  BY <1>3
<1>6. QED BY <1>3, <1>4, <1>5 DEF Told, W, U, name, value

\* A part of a text.
Around(json, part) == \E before, after \in Text : json = (before \o part) \o after

\* A part of a text is a part of a longer one.
LEMMA AroundMore ==
    ASSUME NEW json \in Text, NEW part \in Text, Around(json, part), NEW s \in Text, NEW t \in Text
    PROVE  Around((s \o json) \o t, part)
<1>1. PICK before \in Text, after \in Text : json = (before \o part) \o after
  BY DEF Around
<1>2. s \o before \in Text /\ after \o t \in Text
  BY Concat
<1>3. /\ s \in Seq(Chars) /\ t \in Seq(Chars) /\ before \in Seq(Chars)
      /\ after \in Seq(Chars) /\ part \in Seq(Chars)
  BY DEF Text
<1>4. (s \o ((before \o part) \o after)) \o t = ((s \o before) \o part) \o (after \o t)
  BY <1>3
<1>5. QED BY <1>1, <1>2, <1>4 DEF Around

\* An object is one line, json.loads reads from it the keys and the values in
\* their order, and every field is in it.
LEMMA ObjectReads ==
    ASSUME NEW fields, NEW values, Named(fields, values)
    PROVE  /\ Object(fields) \in Text /\ OneLined(Object(fields))
           /\ \E T : /\ Told(T, fields, values, Len(fields))
                     /\ Reading(Outside(<< >>), Object(fields), Outside(T))
           /\ \A i \in 1 .. Len(fields) : Around(Object(fields), Member(fields[i]))
<1> DEFINE n == Len(fields)
<1>1. /\ fields \in Seq(Written) /\ n \in Nat
      /\ \A i \in 1 .. n : /\ fields[i] \in Written /\ fields[i].key \in Plain
                           /\ Spells(fields[i].chars, values[i])
                           /\ <<fields[i].key>> \in Text /\ values[i] \in Text
  <2>1. fields \in Seq(Written) /\ n \in Nat
    BY DEF Named
  <2>2. \A i \in 1 .. n : fields[i] \in Written /\ fields[i].key \in Plain
                         /\ Spells(fields[i].chars, values[i])
    BY DEF Named
  <2>3. \A i \in 1 .. n : <<fields[i].key>> \in Text /\ values[i] \in Text
    BY <2>2, Single DEF Spells, Plain
  <2>4. QED BY <2>1, <2>2, <2>3
<1>2. PICK r : /\ Run(r, JoinStep, Text, fields) /\ r[0] = << >>
               /\ FoldLeft(Joined, << >>, fields) = r[n]
  BY <1>1, JoinRuns
<1> HIDE DEF n
<1>3. r \in [0 .. n -> Text] /\ \A i \in 1 .. n : r[i] = Joined(r[i - 1], fields[i])
  <2>1. r \in [0 .. n -> Text] /\ \A i \in 1 .. n : r[i] = JoinStep[<<r[i - 1], fields[i]>>]
    BY <1>2 DEF Run, n
  <2>2. \A s \in Text, f \in Written : JoinStep[<<s, f>>] = Joined(s, f)
    BY DEF JoinStep
  <2>3. ASSUME NEW i \in 1 .. n PROVE r[i] = Joined(r[i - 1], fields[i])
    <3>1. i - 1 \in 0 .. n
      BY <1>1
    <3>2. r[i - 1] \in Text /\ fields[i] \in Written
      BY <1>1, <2>1, <3>1
    <3>3. QED BY <2>1, <2>2, <3>2
  <2>4. QED BY <2>1, <2>3
<1> DEFINE Done(m) == m <= n =>
             /\ OneLined(r[m])
             /\ \E T : Told(T, fields, values, m) /\ Reading(Outside(<< >>), r[m], Outside(T))
             /\ \A i \in 1 .. m : Around(r[m], Member(fields[i]))
<1>4. << >> \in Text /\ << >> \in Seq(Text) /\ Outside(<< >>) \in Loader
  <2>1. << >> \in Text /\ << >> \in Seq(Text)
    BY EmptyText
  <2>2. QED BY <2>1, StateTypes
<1>5. Done(0)
  <2>1. Told(<< >>, fields, values, 0)
    BY <1>4 DEF Told
  <2>2. Reading(Outside(<< >>), << >>, Outside(<< >>))
    BY <1>4, ReadingNothing
  <2>3. OneLined(<< >>)
    BY EmptyText DEF OneLined
  <2>4. QED BY <1>2, <2>1, <2>2, <2>3
<1>6. ASSUME NEW m \in Nat, Done(m) PROVE Done(m + 1)
  <2> DEFINE k == m + 1
             all == r[m]
             f == fields[k]
             v == values[k]
  <2> SUFFICES ASSUME k <= n
               PROVE  /\ OneLined(r[k])
                      /\ \E T : /\ Told(T, fields, values, k)
                                 /\ Reading(Outside(<< >>), r[k], Outside(T))
                      /\ \A i \in 1 .. k : Around(r[k], Member(fields[i]))
    OBVIOUS
  <2>1. k \in 1 .. n /\ k - 1 = m /\ m <= n /\ m \in 0 .. n
    BY <1>1
  <2>2. OneLined(all) /\ \A i \in 1 .. m : Around(all, Member(fields[i]))
    BY <1>6, <2>1
  <2>3. PICK T : Told(T, fields, values, m) /\ Reading(Outside(<< >>), all, Outside(T))
    BY <1>6, <2>1
  <2> HIDE DEF Done
  <2>4. Told(Append(Append(T, <<f.key>>), v), fields, values, k)
    BY <1>1, <2>1, <2>3, ToldMore
  <2> HIDE DEF k
  <2>5. r[k] = Joined(all, f) /\ all \in Text
    BY <1>3, <2>1
  <2>6. f \in Written /\ f.key \in Plain /\ Spells(f.chars, v) /\ T \in Seq(Text)
    BY <1>1, <2>1, <2>3 DEF Told
  <2>7. /\ Member(f) \in Text /\ OneLined(Member(f))
        /\ Reading(Outside(T), Member(f), Outside(Append(Append(T, <<f.key>>), v)))
    BY <2>6, MemberReads
  <2> DEFINE W == Append(Append(T, <<f.key>>), v)
             sep == IF all = << >> THEN << >> ELSE <<",">>
  <2> HIDE DEF all, f, v
  <2>8. sep \in Text /\ OneLined(sep) /\ Reading(Outside(T), sep, Outside(T))
    <3>1. CASE all = << >>
      <4>1. OneLined(<< >>) /\ Outside(T) \in Loader
        BY <1>4, <2>6, EmptyText, StateTypes DEF OneLined
      <4>2. QED BY <1>4, <3>1, <4>1, ReadingNothing
    <3>2. CASE all # << >>
      <4>1. "," \in Marks \ {Quote}
        BY DEF Marks, Quote
      <4>2. QED BY <2>6, <3>2, <4>1, MarkReads
    <3>3. QED BY <3>1, <3>2
  <2>9. Joined(all, f) = (all \o sep) \o Member(f)
    <3>1. CASE all = << >>
      <4>1. (<< >> \o << >>) \o Member(f) = Member(f)
        BY <2>7 DEF Text
      <4>2. QED BY <3>1, <4>1 DEF Joined
    <3>2. CASE all # << >>
      BY <3>2 DEF Joined
    <3>3. QED BY <3>1, <3>2
  <2> HIDE DEF sep, W
  <2>10. /\ all \o sep \in Text /\ OneLined(all \o sep)
         /\ Reading(Outside(<< >>), all \o sep, Outside(T))
    BY <2>2, <2>3, <2>5, <2>8, Concat, OneLinedBoth, ReadingBoth
  <2>11. /\ (all \o sep) \o Member(f) \in Text /\ OneLined((all \o sep) \o Member(f))
         /\ Reading(Outside(<< >>), (all \o sep) \o Member(f), Outside(W))
    BY <2>7, <2>10, Concat, OneLinedBoth, ReadingBoth DEF W
  <2>12. ASSUME NEW i \in 1 .. k PROVE Around((all \o sep) \o Member(f), Member(fields[i]))
    <3>1. CASE i = k
      <4>1. (all \o sep) \o Member(f) = ((all \o sep) \o Member(f)) \o << >>
        BY <2>11 DEF Text
      <4>2. fields[i] = f
        BY <3>1 DEF f
      <4>3. QED BY <1>4, <2>10, <4>1, <4>2 DEF Around
    <3>2. CASE i \in 1 .. m
      <4>1. i \in 1 .. n
        BY <1>1, <2>1, <3>2
      <4>2. Member(fields[i]) \in Text
        BY <1>1, <4>1, MemberType
      <4>3. Around((<< >> \o all) \o (sep \o Member(f)), Member(fields[i]))
        <5>1. Around(all, Member(fields[i])) /\ sep \o Member(f) \in Text
          BY <2>2, <2>7, <2>8, <3>2, Concat
        <5>2. QED BY <1>4, <2>5, <4>2, <5>1, AroundMore
      <4>4. (<< >> \o all) \o (sep \o Member(f)) = (all \o sep) \o Member(f)
        <5>1. all \in Seq(Chars) /\ sep \in Seq(Chars) /\ Member(f) \in Seq(Chars)
          BY <2>5, <2>7, <2>8 DEF Text
        <5>2. QED BY <5>1
      <4>5. QED BY <4>3, <4>4
    <3>3. QED BY <2>1, <3>1, <3>2
  <2>13. Told(W, fields, values, k)
    BY <2>4 DEF W, f, v, k
  <2>14. QED BY <2>5, <2>9, <2>11, <2>12, <2>13
<1>7. Done(n)
  <2> HIDE DEF Done
  <2> DEFINE T == {m \in Nat : Done(m)}
  <2>1. T \subseteq Nat /\ 0 \in T /\ \A m \in T : m + 1 \in T
    BY <1>5, <1>6
  <2> HIDE DEF T
  <2>2. T = Nat
    BY <2>1, Induction
  <2>3. QED BY <1>1, <2>2 DEF T
<1> DEFINE all == r[n]
           open == <<"{">>
           close == <<"}">>
<1>8. /\ OneLined(all) /\ all \in Text
      /\ \A i \in 1 .. n : Around(all, Member(fields[i]))
  BY <1>1, <1>3, <1>7
<1>9. PICK T : Told(T, fields, values, n) /\ Reading(Outside(<< >>), all, Outside(T))
  BY <1>1, <1>7
<1>10. T \in Seq(Text) /\ "{" \in Marks \ {Quote} /\ "}" \in Marks \ {Quote}
  BY <1>9 DEF Told, Marks, Quote
<1>11. /\ open \in Text /\ OneLined(open) /\ Reading(Outside(<< >>), open, Outside(<< >>))
       /\ close \in Text /\ OneLined(close) /\ Reading(Outside(T), close, Outside(T))
  BY <1>4, <1>10, MarkReads
<1>12. Object(fields) = (open \o all) \o close
  BY <1>2 DEF Object
<1> HIDE DEF all, open, close, Done
<1>13. /\ open \o all \in Text /\ OneLined(open \o all)
       /\ Reading(Outside(<< >>), open \o all, Outside(T))
  BY <1>8, <1>9, <1>11, Concat, OneLinedBoth, ReadingBoth
<1>14. /\ Object(fields) \in Text /\ OneLined(Object(fields))
       /\ Reading(Outside(<< >>), Object(fields), Outside(T))
  BY <1>11, <1>12, <1>13, Concat, OneLinedBoth, ReadingBoth
<1>15. ASSUME NEW i \in 1 .. n PROVE Around(Object(fields), Member(fields[i]))
  <2>1. Member(fields[i]) \in Text
    BY <1>1, MemberType
  <2>2. QED BY <1>8, <1>11, <1>12, <2>1, AroundMore
<1>16. QED BY <1>9, <1>14, <1>15 DEF n

-----------------------------------------------------------------------------
(* Find *)

\* Find gives the first place, or 0 when there is none.
LEMMA FindFirst ==
    ASSUME NEW s \in Text, NEW pattern \in Text, NEW from \in Nat \ {0}
    PROVE  LET at == {i \in from .. Len(s) - Len(pattern) + 1 :
                        SubSeq(s, i, i + Len(pattern) - 1) = pattern}
           IN  /\ at = {} => Find(s, pattern, from) = 0
               /\ at # {} => /\ Find(s, pattern, from) \in at
                             /\ \A i \in at : Find(s, pattern, from) <= i
<1> DEFINE at == {i \in from .. Len(s) - Len(pattern) + 1 :
                    SubSeq(s, i, i + Len(pattern) - 1) = pattern}
<1>1. Find(s, pattern, from) = IF at = {} THEN 0 ELSE Min(at)
  BY DEF Find
<1>2. at \subseteq Nat
  <2>1. Len(s) \in Nat /\ Len(pattern) \in Nat
    BY DEF Text
  <2>2. QED BY <2>1
<1> HIDE DEF at
<1>3. at # {} => Min(at) \in at /\ \A i \in at : Min(at) <= i
  BY <1>2, MinOf
<1>4. /\ at = {} => Find(s, pattern, from) = 0
      /\ at # {} => /\ Find(s, pattern, from) \in at
                    /\ \A i \in at : Find(s, pattern, from) <= i
  BY <1>1, <1>3
<1>5. QED BY <1>4 DEF at

\* The first place of a character.
LEMMA FindChar ==
    ASSUME NEW s \in Text, NEW c \in Chars, NEW from \in Nat \ {0}
    PROVE  /\ Find(s, <<c>>, from) \in Nat
           /\ Find(s, <<c>>, from) = 0 => \A i \in from .. Len(s) : s[i] # c
           /\ Find(s, <<c>>, from) # 0 =>
                 /\ Find(s, <<c>>, from) \in from .. Len(s) /\ s[Find(s, <<c>>, from)] = c
                 /\ \A i \in from .. Find(s, <<c>>, from) - 1 : s[i] # c
<1> DEFINE p == <<c>>
           f == Find(s, p, from)
           at == {i \in from .. Len(s) - Len(p) + 1 : SubSeq(s, i, i + Len(p) - 1) = p}
<1>1. p \in Text /\ Len(p) = 1 /\ Len(s) \in Nat
  BY Single DEF Text
<1>2. /\ at = {} => f = 0
      /\ at # {} => f \in at /\ \A i \in at : f <= i
  BY <1>1, FindFirst
<1>3. ASSUME NEW i \in Int PROVE i \in at <=> i \in from .. Len(s) /\ s[i] = c
  <2>1. Len(s) - Len(p) + 1 = Len(s) /\ i + Len(p) - 1 = i
    BY <1>1
  <2>2. i \in at <=> i \in from .. Len(s) /\ SubSeq(s, i, i) = p
    BY <2>1
  <2>3. i \in from .. Len(s) => i \in 1 .. Len(s)
    BY <1>1
  <2>4. ASSUME i \in 1 .. Len(s) PROVE SubSeq(s, i, i) = p <=> s[i] = c
    <3>1. s \in Seq(Chars) /\ p \in Seq(Chars) /\ p[1] = c
      BY Single DEF Text
    <3> HIDE DEF p
    <3>2. /\ SubSeq(s, i, i) \in Seq(Chars) /\ Len(SubSeq(s, i, i)) = 1
          /\ SubSeq(s, i, i)[1] = s[i]
      BY <2>4, <3>1
    <3>3. s[i] = c => \A k \in 1 .. 1 : SubSeq(s, i, i)[k] = p[k]
      BY <3>1, <3>2
    <3>4. s[i] = c => SubSeq(s, i, i) = p
      BY <1>1, <3>1, <3>2, <3>3, SameSequence
    <3>5. QED BY <3>1, <3>2, <3>4
  <2>5. QED BY <2>2, <2>3, <2>4
<1>4. at \subseteq Int
  BY <1>1
<1> HIDE DEF at, f
<1>5. CASE at = {}
  <2>1. ASSUME NEW i \in from .. Len(s) PROVE s[i] # c
    BY <1>1, <1>3, <1>5
  <2>2. QED BY <1>2, <1>5, <2>1 DEF f
<1>6. CASE at # {}
  <2>1. f \in at /\ f \in Int
    BY <1>2, <1>4, <1>6
  <2>2. f \in from .. Len(s) /\ s[f] = c
    BY <1>3, <2>1
  <2>3. f \in Nat /\ f # 0
    BY <1>1, <2>2
  <2>4. ASSUME NEW i \in from .. f - 1 PROVE s[i] # c
    <3>1. i \in Int /\ i \in from .. Len(s) /\ ~(f <= i)
      BY <1>1, <2>2, <2>3
    <3>2. i \notin at
      BY <1>2, <1>6, <3>1
    <3>3. QED BY <1>3, <3>1, <3>2
  <2>5. QED BY <2>2, <2>3, <2>4 DEF f
<1>7. QED BY <1>5, <1>6

-----------------------------------------------------------------------------
(* States *)

\* Keys are plain characters.
LEMMA PlainKeys == Keys \subseteq Plain /\ StateKeys \subseteq Plain
<1>1. Keys \subseteq Plain
  BY Characters, KeysAssumption DEF Plain, Marks
<1>2. StateKeys \subseteq Plain
  <2>1. StateKeys \cap {Quote, Backslash, LineFeed, FormFeed, Control} = {}
    BY DEF StateKeys, Quote, Backslash, LineFeed, FormFeed, Control
  <2>2. QED BY <2>1, Characters DEF Plain
<1>3. QED BY <1>1, <1>2

\* What json.loads makes of the strings that the fields were written with.
LEMMA LoadsTold ==
    ASSUME NEW fields, NEW values, Named(fields, values)
    PROVE  Loads(Object(fields)) = {<<<<fields[i].key>>, values[i]>> : i \in 1 .. Len(fields)}
<1> DEFINE n == Len(fields)
           json == Object(fields)
           Pairs(strings) == {<<strings[i], strings[i + 1]>> :
                                i \in {j \in 1 .. Len(strings) - 1 : j % 2 = 1}}
<1>1. json \in Text /\ n \in Nat
  BY ObjectReads DEF Named
<1>2. PICK T : Told(T, fields, values, n) /\ Reading(Outside(<< >>), json, Outside(T))
  BY ObjectReads
<1>3. FoldLeft(LoadChar, Outside(<< >>), json) = Outside(T)
  <2>1. << >> \in Text /\ << >> \in Seq(Text)
    BY EmptyText
  <2>2. Outside(<< >>) \in Loader
    BY <2>1, StateTypes
  <2> HIDE DEF json
  <2>3. QED BY <1>1, <1>2, <2>2, ReadingFolds
<1>4. Loads(json) = Pairs(T)
  <2>1. Outside(T).strings = T
    BY DEF Outside
  <2>2. Loads(json) = Pairs(FoldLeft(LoadChar, Outside(<< >>), json).strings)
    BY DEF Loads, Outside
  <2>3. QED BY <1>3, <2>1, <2>2
<1>5. /\ Len(T) = 2 * n
      /\ \A i \in 1 .. n : T[2 * i - 1] = <<fields[i].key>> /\ T[2 * i] = values[i]
  BY <1>2 DEF Told
<1> HIDE DEF n, json
<1>6. Pairs(T) = {<<<<fields[i].key>>, values[i]>> : i \in 1 .. n}
  <2>1. ASSUME NEW i \in 1 .. n
        PROVE  <<<<fields[i].key>>, values[i]>> \in Pairs(T)
    <3> DEFINE j == 2 * i - 1
    <3>1. j \in 1 .. 2 * n - 1 /\ j % 2 = 1 /\ j + 1 = 2 * i
      BY <1>1
    <3>2. T[j] = <<fields[i].key>> /\ T[2 * i] = values[i]
      BY <1>5
    <3> HIDE DEF j
    <3>3. QED BY <1>5, <3>1, <3>2
  <2>2. ASSUME NEW j \in 1 .. 2 * n - 1, j % 2 = 1
        PROVE  <<T[j], T[j + 1]>> \in {<<<<fields[i].key>>, values[i]>> : i \in 1 .. n}
    <3>1. PICK i \in 1 .. n : 2 * i - 1 = j /\ 2 * i = j + 1
      <4>1. (j + 1) \div 2 \in 1 .. n /\ 2 * ((j + 1) \div 2) = j + 1
        BY <1>1, <2>2
      <4>2. QED BY <4>1
    <3>2. T[j] = <<fields[i].key>> /\ T[j + 1] = values[i]
      BY <1>5, <3>1
    <3>3. QED BY <3>2
  <2>3. Pairs(T) \subseteq {<<<<fields[i].key>>, values[i]>> : i \in 1 .. n}
    BY <1>5, <2>2
  <2>4. {<<<<fields[i].key>>, values[i]>> : i \in 1 .. n} \subseteq Pairs(T)
    <3> HIDE DEF Pairs
    <3>1. QED BY <2>1
  <2>5. QED BY <2>3, <2>4
<1>7. QED BY <1>4, <1>6 DEF n, json

\* What cleanRemote leaves: the user's part of a URI, as StateAsSent says it.
Users(uri) ==
    {SubSeq(uri, at[1] + 1, at[2] - 1) :
        at \in {p \in (DOMAIN uri) \X (DOMAIN uri) :
                  /\ p[1] < p[2] /\ uri[p[1]] = "sip:" /\ uri[p[2]] = "@"
                  /\ \A k \in 1 .. p[1] - 1 : uri[k] # "sip:"
                  /\ \A k \in p[1] + 1 .. p[2] - 1 : uri[k] # "@"}}

\* cleanRemote gives that part when it is not empty.
LEMMA CleanRemoteIsUser ==
    ASSUME NEW uri \in Text
    PROVE  CleanRemote(uri) \in Text /\ Users(uri) \ {<< >>} = {CleanRemote(uri)} \ {<< >>}
<1> DEFINE n == Len(uri)
           sip == Find(uri, <<"sip:">>, 1)
           end == Find(uri, <<"@">>, sip + 1)
           user == SubSeq(uri, sip + 1, end - 1)
           First(p) == /\ p[1] < p[2] /\ uri[p[1]] = "sip:" /\ uri[p[2]] = "@"
                       /\ \A k \in 1 .. p[1] - 1 : uri[k] # "sip:"
                       /\ \A k \in p[1] + 1 .. p[2] - 1 : uri[k] # "@"
           Pairs == {p \in (1 .. n) \X (1 .. n) : First(p)}
<1>1. n \in Nat /\ DOMAIN uri = 1 .. n /\ "sip:" \in Chars /\ "@" \in Chars
  BY CharsAssumption DEF Text
<1>2. /\ sip \in Nat
      /\ sip = 0 => \A i \in 1 .. n : uri[i] # "sip:"
      /\ sip # 0 => /\ sip \in 1 .. n /\ uri[sip] = "sip:"
                    /\ \A i \in 1 .. sip - 1 : uri[i] # "sip:"
  BY <1>1, FindChar
<1> HIDE DEF sip
<1>3. /\ end \in Nat
      /\ end = 0 => \A i \in sip + 1 .. n : uri[i] # "@"
      /\ end # 0 => /\ end \in sip + 1 .. n /\ uri[end] = "@"
                    /\ \A i \in sip + 1 .. end - 1 : uri[i] # "@"
  <2>1. sip + 1 \in Nat \ {0}
    BY <1>2
  <2>2. QED BY <1>1, <2>1, FindChar
<1> HIDE DEF end
<1>4. CleanRemote(uri) = IF 0 \in {sip, end} THEN << >> ELSE user
  BY DEF CleanRemote, sip, end
<1>5. CleanRemote(uri) \in Text
  <2>1. << >> \in Text
    BY EmptyText
  <2>2. user \in Text
    BY <1>2, <1>3 DEF Text
  <2>3. QED BY <1>4, <2>1, <2>2
<1>6. Users(uri) = {SubSeq(uri, p[1] + 1, p[2] - 1) : p \in Pairs}
  BY <1>1 DEF Users
<1> HIDE DEF n
<1>7. ASSUME NEW p \in Pairs PROVE p = <<sip, end>> /\ sip # 0 /\ end # 0
  <2>1. p[1] \in 1 .. n /\ p[2] \in 1 .. n /\ p = <<p[1], p[2]>> /\ First(p)
    OBVIOUS
  <2> DEFINE x == p[1]
             y == p[2]
  <2>2. /\ x \in 1 .. n /\ y \in 1 .. n /\ x < y /\ uri[x] = "sip:" /\ uri[y] = "@"
        /\ \A k \in 1 .. x - 1 : uri[k] # "sip:"
        /\ \A k \in x + 1 .. y - 1 : uri[k] # "@"
    BY <2>1
  <2> HIDE DEF x, y
  <2>3. sip # 0 /\ x = sip
    BY <1>1, <1>2, <2>2
  <2>4. end # 0 /\ y = end
    BY <1>1, <1>2, <1>3, <2>2, <2>3
  <2>5. QED BY <2>1, <2>3, <2>4 DEF x, y
<1>8. CASE 0 \in {sip, end}
  <2>1. Pairs = {}
    BY <1>7, <1>8
  <2> HIDE DEF Pairs
  <2>2. Users(uri) = {}
    BY <1>6, <2>1
  <2>3. QED BY <1>4, <1>5, <1>8, <2>2
<1>9. CASE 0 \notin {sip, end}
  <2>1. sip \in 1 .. n /\ end \in 1 .. n /\ sip < end
    BY <1>1, <1>2, <1>3, <1>9
  <2>2. First(<<sip, end>>)
    BY <1>2, <1>3, <1>9, <2>1
  <2>3. <<sip, end>> \in Pairs
    BY <2>1, <2>2
  <2>4. Pairs = {<<sip, end>>}
    BY <1>7, <2>3
  <2> HIDE DEF Pairs
  <2>5. Users(uri) = {user}
    BY <1>6, <2>4
  <2>6. QED BY <1>4, <1>5, <1>9, <2>5
<1>10. QED BY <1>8, <1>9

\* The fields of a state in their order.
Told4 == <<"username", "state", "media_state", "audio_state">>
Told5 == <<"username", "state", "media_state", "remote", "audio_state">>

\* Lists of fields.
Forms == Seq(Written)

\* The fields of two lists of fields put together.
LEMMA ConcatForms ==
    ASSUME NEW s \in Forms, NEW t \in Forms
    PROVE  /\ \A i \in 1 .. Len(s) : (s \o t)[i] = s[i]
           /\ \A i \in 1 .. Len(t) : (s \o t)[Len(s) + i] = t[i]
  BY ConcatSeq DEF Forms

\* The list of fields of a state, key by key.
LEMMA FieldsInOrder ==
    ASSUME NEW value \in [StateKeys -> Text]
    PROVE  LET keys == IF value.remote = << >> THEN Told4 ELSE Told5
           IN  /\ Fields(value) \in Seq(Written) /\ Len(Fields(value)) = Len(keys)
               /\ \A i \in 1 .. Len(keys) :
                     /\ Fields(value)[i].key = keys[i]
                     /\ Fields(value)[i].chars = EscapeJson(value[keys[i]])
<1> DEFINE Escape(key) == [key |-> key, chars |-> EscapeJson(value[key])]
<1>1. ASSUME NEW key \in StateKeys
      PROVE  Escape(key) \in Written /\ Escape(key).key = key
             /\ Escape(key).chars = EscapeJson(value[key])
  <2>1. EscapeJson(value[key]) \in Text /\ key \in Chars
    BY BothSpell, Characters DEF Spells
  <2>2. QED BY <2>1 DEF Written
<1>2. /\ "username" \in StateKeys /\ "state" \in StateKeys /\ "media_state" \in StateKeys
      /\ "remote" \in StateKeys /\ "audio_state" \in StateKeys
  BY DEF StateKeys
<1>3. Fields(value) =
        <<Escape("username"), Escape("state"), Escape("media_state")>>
        \o (IF value.remote = << >> THEN << >> ELSE <<Escape("remote")>>)
        \o <<Escape("audio_state")>>
  BY DEF Fields
<1> DEFINE a == Escape("username")
           b == Escape("state")
           c == Escape("media_state")
           d == Escape("remote")
           e == Escape("audio_state")
<1>4. a \in Written /\ b \in Written /\ c \in Written /\ d \in Written /\ e \in Written
  BY <1>1, <1>2
<1>5. CASE value.remote = << >>
  <2>1. Fields(value) = <<a, b, c>> \o << >> \o <<e>>
    BY <1>3, <1>5
  <2> HIDE DEF a, b, c, d, e
  <2>2. Fields(value) \in Seq(Written) /\ Len(Fields(value)) = 4
    BY <1>4, <2>1
  <2>3. /\ Fields(value)[1] = a /\ Fields(value)[2] = b
        /\ Fields(value)[3] = c /\ Fields(value)[4] = e
    BY <1>4, <2>1
  <2>4. /\ Len(Told4) = 4 /\ Told4[1] = "username" /\ Told4[2] = "state"
        /\ Told4[3] = "media_state" /\ Told4[4] = "audio_state"
    BY DEF Told4
  <2>5. ASSUME NEW i \in 1 .. 4
        PROVE  Told4[i] \in StateKeys /\ Fields(value)[i] = Escape(Told4[i])
    <3>1. i = 1 \/ i = 2 \/ i = 3 \/ i = 4
      OBVIOUS
    <3>2. QED BY <1>2, <2>3, <2>4, <3>1 DEF a, b, c, e
  <2> HIDE DEF Escape
  <2>6. QED BY <1>1, <1>5, <2>2, <2>4, <2>5
<1>6. CASE value.remote # << >>
  <2>1. Fields(value) = <<a, b, c>> \o <<d>> \o <<e>>
    BY <1>3, <1>6
  <2> HIDE DEF a, b, c, d, e
  <2>2. Fields(value) \in Seq(Written) /\ Len(Fields(value)) = 5
    BY <1>4, <2>1
  <2>3. /\ Fields(value)[1] = a /\ Fields(value)[2] = b /\ Fields(value)[3] = c
        /\ Fields(value)[4] = d /\ Fields(value)[5] = e
    <3> DEFINE first == <<a, b, c>> \o <<d>>
    <3>1. /\ first \in Seq(Written) /\ Len(first) = 4
          /\ first[1] = a /\ first[2] = b /\ first[3] = c /\ first[4] = d
      BY <1>4
    <3>2. Fields(value) = first \o <<e>>
      BY <2>1
    <3> HIDE DEF first
    <3>3. /\ \A i \in 1 .. 4 : (first \o <<e>>)[i] = first[i]
          /\ (first \o <<e>>)[4 + 1] = e
      <4>1. <<e>> \in Seq(Written) /\ Len(<<e>>) = 1 /\ <<e>>[1] = e
        BY <1>4
      <4> DEFINE last == <<e>>
      <4> HIDE DEF last
      <4>2. last \in Seq(Written) /\ Len(last) = 1 /\ last[1] = e
        BY <4>1 DEF last
      <4>3. /\ \A i \in 1 .. Len(first) : (first \o last)[i] = first[i]
            /\ \A i \in 1 .. Len(last) : (first \o last)[Len(first) + i] = last[i]
        <5>1. first \in Forms /\ last \in Forms
          BY <3>1, <4>2 DEF Forms
        <5>2. QED BY <5>1, ConcatForms
      <4>4. 1 \in 1 .. Len(last)
        BY <4>2
      <4>5. QED BY <3>1, <4>2, <4>3, <4>4 DEF last
    <3>4. 1 \in 1 .. 4 /\ 2 \in 1 .. 4 /\ 3 \in 1 .. 4 /\ 4 \in 1 .. 4 /\ 4 + 1 = 5
      OBVIOUS
    <3>5. QED BY <3>1, <3>2, <3>3, <3>4
  <2>4. /\ Len(Told5) = 5 /\ Told5[1] = "username" /\ Told5[2] = "state"
        /\ Told5[3] = "media_state" /\ Told5[4] = "remote" /\ Told5[5] = "audio_state"
    BY DEF Told5
  <2>5. ASSUME NEW i \in 1 .. 5
        PROVE  Told5[i] \in StateKeys /\ Fields(value)[i] = Escape(Told5[i])
    <3>1. i = 1 \/ i = 2 \/ i = 3 \/ i = 4 \/ i = 5
      OBVIOUS
    <3>2. QED BY <1>2, <2>3, <2>4, <3>1 DEF a, b, c, d, e
  <2> HIDE DEF Escape
  <2>6. QED BY <1>1, <1>6, <2>2, <2>4, <2>5
<1>7. QED BY <1>5, <1>6

\* The text of a state is one line, and what json.loads reads from it.
LEMMA StateTextLoads ==
    ASSUME NEW state \in States
    PROVE  LET value == [state EXCEPT !.remote = CleanRemote(@)]
               keys  == IF value.remote = << >> THEN StateKeys \ {"remote"} ELSE StateKeys
           IN  /\ StateText(state) \in Text /\ OneLined(StateText(state))
               /\ Loads(StateText(state)) = {<<<<key>>, value[key]>> : key \in keys}
<1> DEFINE value == [state EXCEPT !.remote = CleanRemote(@)]
           keys == IF value.remote = << >> THEN Told4 ELSE Told5
           named == IF value.remote = << >> THEN StateKeys \ {"remote"} ELSE StateKeys
           fields == Fields(value)
           n == Len(keys)
           values == [i \in 1 .. n |-> value[keys[i]]]
<1>1. value \in [StateKeys -> Text]
  <2>1. state \in [StateKeys -> Text] /\ "remote" \in StateKeys
    BY StatesAssumption DEF Text, StateKeys
  <2>2. CleanRemote(state.remote) \in Text
    BY <2>1, CleanRemoteIsUser
  <2>3. QED BY <2>1, <2>2
<1>2. /\ n \in Nat /\ {keys[i] : i \in 1 .. n} = named
      /\ \A i \in 1 .. n : keys[i] \in StateKeys
  <2> HIDE DEF value
  <2>1. CASE value.remote = << >>
    <3>1. /\ Len(Told4) = 4 /\ Told4[1] = "username" /\ Told4[2] = "state"
          /\ Told4[3] = "media_state" /\ Told4[4] = "audio_state"
      BY DEF Told4
    <3>2. 1 .. 4 = {1, 2, 3, 4}
      OBVIOUS
    <3>3. {Told4[i] : i \in 1 .. 4} = {"username", "state", "media_state", "audio_state"}
      BY <3>1, <3>2
    <3>4. StateKeys \ {"remote"} = {"username", "state", "media_state", "audio_state"}
      BY DEF StateKeys
    <3>5. \A i \in 1 .. 4 : Told4[i] \in StateKeys
      BY <3>3, <3>4
    <3>6. keys = Told4 /\ named = StateKeys \ {"remote"}
      BY <2>1
    <3> HIDE DEF keys, named
    <3>7. n = 4
      BY <3>1, <3>6
    <3> HIDE DEF n
    <3>8. QED BY <3>3, <3>4, <3>5, <3>6, <3>7
  <2>2. CASE value.remote # << >>
    <3>1. /\ Len(Told5) = 5 /\ Told5[1] = "username" /\ Told5[2] = "state"
          /\ Told5[3] = "media_state" /\ Told5[4] = "remote" /\ Told5[5] = "audio_state"
      BY DEF Told5
    <3>2. 1 .. 5 = {1, 2, 3, 4, 5}
      OBVIOUS
    <3>3. {Told5[i] : i \in 1 .. 5} = StateKeys
      BY <3>1, <3>2 DEF StateKeys
    <3>4. \A i \in 1 .. 5 : Told5[i] \in StateKeys
      BY <3>3
    <3>5. keys = Told5 /\ named = StateKeys
      BY <2>2
    <3> HIDE DEF keys, named
    <3>6. n = 5
      BY <3>1, <3>5
    <3> HIDE DEF n
    <3>7. QED BY <3>3, <3>4, <3>5, <3>6
  <2>3. QED BY <2>1, <2>2
<1>3. /\ fields \in Seq(Written) /\ Len(fields) = n
      /\ \A i \in 1 .. n : /\ fields[i].key = keys[i]
                           /\ fields[i].chars = EscapeJson(value[keys[i]])
  <2> HIDE DEF value
  <2>1. QED BY <1>1, FieldsInOrder
<1>4. StateText(state) = Object(fields)
  BY DEF StateText
<1> HIDE DEF value, keys, n, fields, named
<1>5. values \in Seq(Text) /\ Len(values) = n
  BY <1>1, <1>2
<1>6. Named(fields, values)
  <2>1. ASSUME NEW i \in 1 .. n
        PROVE  fields[i].key \in Plain /\ Spells(fields[i].chars, values[i])
    <3>1. keys[i] \in StateKeys /\ value[keys[i]] \in Text
      BY <1>1, <1>2
    <3>2. QED BY <1>3, <3>1, PlainKeys, BothSpell
  <2> HIDE DEF values
  <2>2. QED BY <1>3, <1>5, <2>1 DEF Named
<1>7. Loads(Object(fields)) = {<<<<key>>, value[key]>> : key \in named}
  <2>1. Loads(Object(fields)) = {<<<<fields[i].key>>, values[i]>> : i \in 1 .. n}
    <3> HIDE DEF values
    <3>1. QED BY <1>3, <1>6, LoadsTold
  <2>2. \A i \in 1 .. n : <<<<fields[i].key>>, values[i]>> = <<<<keys[i]>>, value[keys[i]]>>
    BY <1>3
  <2>3. {<<<<fields[i].key>>, values[i]>> : i \in 1 .. n}
          = {<<<<key>>, value[key]>> : key \in {keys[i] : i \in 1 .. n}}
    <3> DEFINE P(key) == <<<<key>>, value[key]>>
               A == {<<<<fields[i].key>>, values[i]>> : i \in 1 .. n}
               B == {P(key) : key \in {keys[i] : i \in 1 .. n}}
    <3>1. \A i \in 1 .. n : <<<<fields[i].key>>, values[i]>> = P(keys[i])
      BY <2>2
    <3> HIDE DEF P, values
    <3>2. A \subseteq B
      BY <3>1
    <3>3. B \subseteq A
      BY <3>1
    <3>4. A = B
      BY <3>2, <3>3
    <3>5. QED BY <3>4 DEF P
  <2>4. QED BY <1>2, <2>1, <2>3
<1>8. Object(fields) \in Text /\ OneLined(Object(fields))
  <2> HIDE DEF values
  <2>1. QED BY <1>6, ObjectReads
<1>9. QED BY <1>4, <1>7, <1>8 DEF value, named

-----------------------------------------------------------------------------
(* Commands *)

\* json.dumps writes the fields of a command, each with its value.
LEMMA CommandNamed ==
    ASSUME NEW command \in Commands
    PROVE  \E fields, values :
              /\ Dumps(command) = Object(fields) /\ Named(fields, values)
              /\ Len(fields) = Len(command)
              /\ \A i \in 1 .. Len(command) :
                    fields[i].key = command[i].key /\ values[i] = command[i].chars
<1> DEFINE n == Len(command)
           fields == [i \in DOMAIN command |->
                        [key |-> command[i].key, chars |-> DumpedAll(command[i].chars)]]
           values == [i \in 1 .. n |-> command[i].chars]
<1>1. /\ n \in Nat /\ DOMAIN command = 1 .. n
      /\ \A i \in 1 .. n : command[i].key \in Keys /\ command[i].chars \in Text
  <2> DEFINE Field == [key : Keys, chars : Seq(Chars)]
  <2>1. command \in Seq(Field)
    BY CommandsAssumption
  <2> HIDE DEF Field
  <2>2. n \in Nat /\ DOMAIN command = 1 .. n /\ \A i \in 1 .. n : command[i] \in Field
    BY <2>1
  <2>3. QED BY <2>2 DEF Field, Text
<1>2. Dumps(command) = Object(fields)
  BY DEF Dumps
<1> HIDE DEF n
<1>3. ASSUME NEW i \in 1 .. n
      PROVE  /\ fields[i] \in Written /\ fields[i].key = command[i].key
             /\ fields[i].key \in Plain /\ Spells(fields[i].chars, values[i])
             /\ values[i] = command[i].chars
  <2> DEFINE e == DumpedAll(command[i].chars)
             v == command[i].chars
  <2>1. v \in Text /\ command[i].key \in Plain
    BY <1>1, PlainKeys
  <2>2. fields[i] = [key |-> command[i].key, chars |-> e] /\ values[i] = v
    BY <1>1
  <2>3. Spells(e, v)
    BY <2>1, BothSpell
  <2> HIDE DEF e, v, fields, values
  <2>4. e \in Text /\ command[i].key \in Chars
    BY <2>1, <2>3 DEF Spells, Plain
  <2>5. /\ fields[i] \in Written /\ fields[i].key = command[i].key /\ fields[i].chars = e
    BY <2>2, <2>4 DEF Written
  <2>6. QED BY <2>1, <2>2, <2>3, <2>5 DEF v
<1>4. fields = [i \in 1 .. n |-> fields[i]] /\ values = [i \in 1 .. n |-> values[i]]
  BY <1>1
<1> HIDE DEF fields, values
<1>5. fields \in Seq(Written) /\ Len(fields) = n
  BY <1>1, <1>3, <1>4
<1>6. values \in Seq(Text) /\ Len(values) = n
  <2>1. \A i \in 1 .. n : values[i] \in Text
    BY <1>3 DEF Spells
  <2>2. QED BY <1>1, <1>4, <2>1
<1>7. Named(fields, values)
  BY <1>3, <1>5, <1>6 DEF Named
<1>8. QED BY <1>2, <1>3, <1>5, <1>7 DEF n

-----------------------------------------------------------------------------
(* The theorems *)

\* What the phases are: the text is that of what was sent, and what was read is
\* what the other side reads from the text.
PhaseInv ==
    /\ phase \in {"idle", "command", "parsed", "invalid", "state", "loaded"}
    /\ phase = "idle" => text = << >>
    /\ phase \in {"command", "parsed", "invalid"} => sent \in Commands /\ text = Dumps(sent)
    /\ phase \in {"parsed", "invalid"} =>
          /\ read = [key \in Keys |-> Extract(text, key)]
          /\ phase = "invalid" <=> Extract(text, Command) = << >>
    /\ phase \in {"state", "loaded"} => sent \in States /\ text = StateText(sent)
    /\ phase = "loaded" => read = Loads(text)

\* PhaseInv in every state.
LEMMA PhaseInvariant == Spec => []PhaseInv
<1>1. Init => PhaseInv
  BY DEF Init, PhaseInv
<1>2. PhaseInv /\ [Next]_vars => PhaseInv'
  <2> SUFFICES ASSUME PhaseInv, [Next]_vars PROVE PhaseInv'
    OBVIOUS
  <2>1. ASSUME NEW command \in Commands, SendCommand(command) PROVE PhaseInv'
    BY <2>1 DEF PhaseInv, SendCommand
  <2>2. ASSUME NEW state \in States, SendState(state) PROVE PhaseInv'
    BY <2>2 DEF PhaseInv, SendState
  <2>3. CASE Parse
    BY <2>3 DEF PhaseInv, Parse
  <2>4. CASE Load
    BY <2>4 DEF PhaseInv, Load
  <2>5. CASE UNCHANGED vars
    BY <2>5 DEF PhaseInv, vars
  <2>6. QED BY <2>1, <2>2, <2>3, <2>4, <2>5 DEF Next
<1>3. QED BY <1>1, <1>2, PTL DEF Spec

\* No text, of a command or of a state, has a line feed in it: escapeJson and
\* json.dumps write one as a backslash and a letter wherever it is.
THEOREM LinesAreWhole == Spec => []OneLine
<1>1. PhaseInv => OneLine
  <2> SUFFICES ASSUME PhaseInv PROVE OneLine
    OBVIOUS
  <2>1. text \in Text /\ OneLined(text)
    <3>1. CASE text = << >>
      BY <3>1, EmptyText DEF OneLined
    <3>2. CASE sent \in Commands /\ text = Dumps(sent)
      <4>1. PICK fields, values : Dumps(sent) = Object(fields) /\ Named(fields, values)
        BY <3>2, CommandNamed
      <4>2. QED BY <3>2, <4>1, ObjectReads
    <3>3. CASE sent \in States /\ text = StateText(sent)
      BY <3>3, StateTextLoads
    <3>4. QED BY <3>1, <3>2, <3>3 DEF PhaseInv
  <2>2. DOMAIN text = 1 .. Len(text)
    BY <2>1 DEF Text
  <2>3. QED BY <2>1, <2>2 DEF OneLine, OneLined, Range
<1>2. QED BY <1>1, PhaseInvariant, PTL

\* What the SDK reads from the text of a state is what the engine wrote.
THEOREM StatesArriveAsSent == Spec => []StateAsSent
<1>1. PhaseInv => StateAsSent
  <2> SUFFICES ASSUME PhaseInv, phase = "loaded"
               PROVE  read = {<<<<key>>, sent[key]>> : key \in DOMAIN sent \ {"remote"}}
                               \cup {<<<<"remote">>, user>> : user \in Users(sent.remote) \ {<< >>}}
    BY DEF StateAsSent, Users
  <2> DEFINE value == [sent EXCEPT !.remote = CleanRemote(@)]
             keys == IF value.remote = << >> THEN StateKeys \ {"remote"} ELSE StateKeys
             P(key) == <<<<key>>, value[key]>>
  <2>1. sent \in States /\ text = StateText(sent) /\ read = Loads(text)
    BY DEF PhaseInv
  <2>2. read = {P(key) : key \in keys}
    BY <2>1, StateTextLoads
  <2>3. sent \in [StateKeys -> Text] /\ "remote" \in StateKeys
    BY <2>1, StatesAssumption DEF Text, StateKeys
  <2>4. /\ \A key \in StateKeys \ {"remote"} : value[key] = sent[key]
        /\ value.remote = CleanRemote(sent.remote)
    BY <2>3
  <2>5. Users(sent.remote) \ {<< >>} = {value.remote} \ {<< >>}
    BY <2>3, <2>4, CleanRemoteIsUser
  <2> HIDE DEF value
  <2>6. {P(key) : key \in StateKeys \ {"remote"}}
          = {<<<<key>>, sent[key]>> : key \in DOMAIN sent \ {"remote"}}
    BY <2>3, <2>4
  <2>7. CASE value.remote = << >>
    <3>1. Users(sent.remote) \ {<< >>} = {}
      BY <2>5, <2>7
    <3>2. keys = StateKeys \ {"remote"}
      BY <2>7
    <3> HIDE DEF P, keys
    <3>3. {<<<<"remote">>, user>> : user \in Users(sent.remote) \ {<< >>}} = {}
      BY <3>1
    <3>4. QED BY <2>2, <2>6, <3>2, <3>3
  <2>8. CASE value.remote # << >>
    <3>1. Users(sent.remote) \ {<< >>} = {value.remote}
      BY <2>5, <2>8
    <3>2. keys = (StateKeys \ {"remote"}) \cup {"remote"}
      BY <2>3, <2>8
    <3>3. {<<<<"remote">>, user>> : user \in Users(sent.remote) \ {<< >>}} = {P("remote")}
      BY <3>1
    <3> HIDE DEF P, keys
    <3>4. {P(key) : key \in keys} = {P(key) : key \in StateKeys \ {"remote"}} \cup {P("remote")}
      BY <3>2
    <3>5. QED BY <2>2, <2>6, <3>3, <3>4
  <2>9. QED BY <2>7, <2>8
<1>2. QED BY <1>1, PhaseInvariant, PTL

-----------------------------------------------------------------------------
(* Where a key in its quotes can be in the text of a command *)

\* The strings that json.loads is through with, which nothing changes again.
Finished(a) == IF a.open THEN Len(a.strings) - 1 ELSE Len(a.strings)
Kept(a, b)  == /\ Finished(a) <= Finished(b)
               /\ \A m \in 1 .. Finished(a) : b.strings[m] = a.strings[m]

\* json.loads is outside strings, in one, or after a backslash in one.
LEMMA LoaderForms ==
    ASSUME NEW a \in Loader
    PROVE  \E S \in Seq(Text), w \in Text :
              a = Outside(S) \/ a = Inside(S, w) \/ a = Escaping(S, w)
<1>1. /\ a.strings \in Seq(Text) /\ a.open \in BOOLEAN /\ a.escaped \in BOOLEAN
      /\ a.open => a.strings # << >>
      /\ a.escaped => a.open
  BY DEF Loader
<1>2. << >> \in Text
  BY EmptyText
<1>3. CASE ~a.open
  <2>1. Outside(a.strings) \in Loader
    BY <1>1, <1>2, StateTypes
  <2>2. /\ Outside(a.strings).strings = a.strings /\ Outside(a.strings).open = a.open
        /\ Outside(a.strings).escaped = a.escaped
    BY <1>1, <1>3 DEF Outside
  <2>3. a = Outside(a.strings)
    BY <2>1, <2>2, SameLoader
  <2>4. QED BY <1>1, <1>2, <2>3
<1>4. CASE a.open
  <2> DEFINE n == Len(a.strings)
             S == SubSeq(a.strings, 1, n - 1)
             w == a.strings[n]
  <2>1. n \in Nat /\ n # 0
    BY <1>1, <1>4
  <2>2. S \in Seq(Text) /\ w \in Text /\ Append(S, w) = a.strings
    <3>1. /\ S \in Seq(Text) /\ w \in Text
          /\ Len(S) = n - 1 /\ \A i \in 1 .. n - 1 : S[i] = a.strings[i]
      BY <1>1, <2>1
    <3> HIDE DEF S, w
    <3>2. Append(S, w) \in Seq(Text) /\ Len(Append(S, w)) = n
      BY <2>1, <3>1
    <3>3. \A i \in 1 .. n : Append(S, w)[i] = a.strings[i]
      BY <2>1, <3>1 DEF w
    <3>4. QED BY <1>1, <3>1, <3>2, <3>3, SameSequence
  <2> HIDE DEF n, S, w
  <2>3. Inside(S, w) \in Loader /\ Escaping(S, w) \in Loader
    BY <2>2, StateTypes
  <2>4. /\ Inside(S, w).strings = a.strings /\ Inside(S, w).open = a.open
        /\ Inside(S, w).escaped = FALSE
        /\ Escaping(S, w).strings = a.strings /\ Escaping(S, w).open = a.open
        /\ Escaping(S, w).escaped = TRUE
    BY <1>1, <1>4, <2>2 DEF Inside, Escaping
  <2>5. a = Inside(S, w) \/ a = Escaping(S, w)
    BY <1>1, <2>3, <2>4, SameLoader
  <2>6. QED BY <2>2, <2>5
<1>5. QED BY <1>3, <1>4

\* The strings that are finished, by where json.loads is.
LEMMA FinishedForms ==
    ASSUME NEW S \in Seq(Text), NEW w \in Text
    PROVE  /\ Finished(Outside(S)) = Len(S) /\ Len(S) \in Nat
           /\ Finished(Inside(S, w)) = Len(S) /\ Finished(Escaping(S, w)) = Len(S)
           /\ \A m \in 1 .. Len(S) : /\ Outside(S).strings[m] = S[m]
                                     /\ Inside(S, w).strings[m] = S[m]
                                     /\ Escaping(S, w).strings[m] = S[m]
<1>1. /\ Len(S) \in Nat /\ Len(Append(S, w)) = Len(S) + 1
      /\ \A m \in 1 .. Len(S) : Append(S, w)[m] = S[m]
  OBVIOUS
<1>2. /\ Outside(S).strings = S /\ ~Outside(S).open
      /\ Inside(S, w).strings = Append(S, w) /\ Inside(S, w).open
      /\ Escaping(S, w).strings = Append(S, w) /\ Escaping(S, w).open
  BY DEF Outside, Inside, Escaping
<1>3. QED BY <1>1, <1>2 DEF Finished

\* One step of json.loads keeps them.
LEMMA StepKeeps == \A a \in Loader, c \in Chars : Kept(a, LoadChar(a, c))
<1> SUFFICES ASSUME NEW a \in Loader, NEW c \in Chars PROVE Kept(a, LoadChar(a, c))
  OBVIOUS
<1>1. PICK S \in Seq(Text), w \in Text :
         a = Outside(S) \/ a = Inside(S, w) \/ a = Escaping(S, w)
  BY LoaderForms
<1> DEFINE b == LoadChar(a, c)
<1>2. << >> \in Text /\ Append(w, c) \in Text /\ Append(w, Decoded(c)) \in Text
  <2>1. \A d \in Chars : Append(w, d) \in Text
    BY DEF Text
  <2>2. Decoded(c) \in Chars
    BY DecodedType
  <2>3. QED BY <2>1, <2>2, EmptyText
<1>3. \/ b = Outside(S) \/ b = Inside(S, << >>) \/ b = Inside(S, Append(w, c))
      \/ b = Escaping(S, w) \/ b = Inside(S, Append(w, Decoded(c)))
      \/ b = Outside(Append(S, w)) /\ a = Inside(S, w)
  BY <1>1, LoadSteps
<1> HIDE DEF b
<1>4. Finished(a) = Len(S) /\ Len(S) \in Nat /\ \A m \in 1 .. Len(S) : a.strings[m] = S[m]
  BY <1>1, FinishedForms
<1>5. Finished(b) >= Len(S) /\ \A m \in 1 .. Len(S) : b.strings[m] = S[m]
  <2>1. CASE b = Outside(Append(S, w))
    <3>1. /\ Append(S, w) \in Seq(Text) /\ Len(Append(S, w)) = Len(S) + 1
          /\ \A m \in 1 .. Len(S) : Append(S, w)[m] = S[m]
      OBVIOUS
    <3>2. /\ Finished(b) = Len(S) + 1
          /\ \A m \in 1 .. Len(S) + 1 : b.strings[m] = Append(S, w)[m]
      BY <1>2, <2>1, <3>1, FinishedForms
    <3>3. QED BY <1>4, <3>1, <3>2
  <2>2. CASE b # Outside(Append(S, w))
    <3>1. Finished(b) = Len(S) /\ \A m \in 1 .. Len(S) : b.strings[m] = S[m]
      BY <1>2, <1>3, <2>2, FinishedForms
    <3>2. QED BY <1>4, <3>1
  <2>3. QED BY <2>1, <2>2
<1>6. Finished(b) \in Int
  <2>1. LoadStep[<<a, c>>] \in Loader
    BY LoadStepType DEF Steps
  <2>2. b \in Loader
    BY <2>1 DEF LoadStep, b
  <2>3. b.strings \in Seq(Text)
    BY <2>2 DEF Loader
  <2>4. QED BY <2>3 DEF Finished
<1>7. QED BY <1>4, <1>5, <1>6 DEF Kept, b

\* So does a run, between any two of its places.
LEMMA RunKeeps ==
    ASSUME NEW json \in Text, NEW r, Run(r, LoadStep, Loader, json),
           NEW i \in 0 .. Len(json), NEW j \in 0 .. Len(json), i <= j
    PROVE  Kept(r[i], r[j])
<1> DEFINE N == Len(json)
           Done(m) == i + m <= N => Kept(r[i], r[i + m])
<1>1. N \in Nat /\ \A k \in 1 .. N : json[k] \in Chars
  BY DEF Text
<1>2. \A k \in 0 .. N : r[k] \in Loader /\ Finished(r[k]) \in Int
  <2>1. \A k \in 0 .. N : r[k] \in Loader
    BY DEF Run
  <2>2. \A a \in Loader : Finished(a) \in Int
    <3>1. \A a \in Loader : a.strings \in Seq(Text)
      BY DEF Loader
    <3>2. QED BY <3>1 DEF Finished
  <2>3. QED BY <2>1, <2>2
<1>3. ASSUME NEW k \in 1 .. N PROVE Kept(r[k - 1], r[k])
  <2>1. r[k] = LoadStep[<<r[k - 1], json[k]>>] /\ r[k - 1] \in Loader
    BY <1>1, <1>2 DEF Run
  <2>2. r[k] = LoadChar(r[k - 1], json[k])
    BY <1>1, <2>1 DEF LoadStep
  <2>3. QED BY <1>1, <2>1, <2>2, StepKeeps
<1> HIDE DEF N
<1>4. Done(0)
  <2>1. i + 0 = i /\ i \in 0 .. N
    BY <1>1 DEF N
  <2>2. Kept(r[i], r[i])
    BY <1>2, <2>1 DEF Kept
  <2>3. QED BY <2>1, <2>2
<1>5. ASSUME NEW m \in Nat, Done(m) PROVE Done(m + 1)
  <2> SUFFICES ASSUME i + (m + 1) <= N PROVE Kept(r[i], r[i + (m + 1)])
    OBVIOUS
  <2> DEFINE k == i + (m + 1)
  <2>1. k \in 1 .. N /\ k - 1 = i + m /\ i + m <= N /\ k - 1 \in 0 .. N /\ i \in 0 .. N
        /\ k \in 0 .. N
    BY <1>1 DEF N
  <2>2. Kept(r[i], r[i + m])
    BY <1>5, <2>1
  <2> HIDE DEF k, Done
  <2>3. Kept(r[i], r[k - 1]) /\ Kept(r[k - 1], r[k])
    BY <1>3, <2>1, <2>2
  <2>4. Kept(r[i], r[k])
    BY <1>2, <2>1, <2>3 DEF Kept
  <2>5. QED BY <2>4 DEF k
<1>6. Done(j - i)
  <2> HIDE DEF Done
  <2> DEFINE T == {m \in Nat : Done(m)}
  <2>1. T \subseteq Nat /\ 0 \in T /\ \A m \in T : m + 1 \in T
    BY <1>4, <1>5
  <2> HIDE DEF T
  <2>2. T = Nat
    BY <2>1, Induction
  <2>3. j - i \in Nat
    BY <1>1 DEF N
  <2>4. QED BY <2>2, <2>3 DEF T
<1>7. i + (j - i) = j /\ j <= N
  BY <1>1 DEF N
<1>8. QED BY <1>6, <1>7

\* A key in its quotes is three characters, and where they are in a text.
LEMMA QuotedKey ==
    ASSUME NEW key \in Chars
    PROVE  /\ Quoted(<<key>>) \in Text /\ Len(Quoted(<<key>>)) = 3
           /\ Quoted(<<key>>)[1] = Quote /\ Quoted(<<key>>)[2] = key /\ Quoted(<<key>>)[3] = Quote
<1> DEFINE q == <<Quote>>
           k == <<key>>
<1>1. /\ q \in Text /\ Len(q) = 1 /\ q[1] = Quote
      /\ k \in Text /\ Len(k) = 1 /\ k[1] = key
  BY Characters, Single
<1>2. Quoted(<<key>>) = (q \o k) \o q
  BY DEF Quoted
<1> HIDE DEF q, k
<1>3. q \o k \in Text /\ Len(q \o k) = 2 /\ (q \o k)[1] = Quote /\ (q \o k)[2] = key
  <2>1. /\ q \o k \in Text /\ Len(q \o k) = Len(q) + Len(k)
        /\ \A i \in 1 .. Len(q) : (q \o k)[i] = q[i]
        /\ \A i \in 1 .. Len(k) : (q \o k)[Len(q) + i] = k[i]
    BY <1>1, Concat
  <2>2. 1 \in 1 .. Len(q) /\ 1 \in 1 .. Len(k)
    BY <1>1
  <2>3. (q \o k)[1 + 1] = key
    BY <1>1, <2>1, <2>2
  <2>4. QED BY <1>1, <2>1, <2>2, <2>3
<1> DEFINE p == q \o k
<1> HIDE DEF p
<1>4. p \in Text /\ Len(p) = 2 /\ p[1] = Quote /\ p[2] = key
  BY <1>3 DEF p
<1>5. p \o q \in Text /\ Len(p \o q) = 3 /\ (p \o q)[1] = Quote /\ (p \o q)[2] = key
      /\ (p \o q)[3] = Quote
  <2>1. /\ p \o q \in Text /\ Len(p \o q) = Len(p) + Len(q)
        /\ \A i \in 1 .. Len(p) : (p \o q)[i] = p[i]
        /\ \A i \in 1 .. Len(q) : (p \o q)[Len(p) + i] = q[i]
    BY <1>1, <1>4, Concat
  <2>2. 1 \in 1 .. Len(p) /\ 2 \in 1 .. Len(p) /\ 1 \in 1 .. Len(q)
    BY <1>1, <1>4
  <2>3. (p \o q)[2 + 1] = Quote
    BY <1>1, <1>4, <2>1, <2>2
  <2>4. QED BY <1>1, <1>4, <2>1, <2>2, <2>3
<1>6. QED BY <1>2, <1>5 DEF p

\* What it is for a key in its quotes to be at a place.
LEMMA KeyAt ==
    ASSUME NEW key \in Chars, NEW json \in Text, NEW i \in 1 .. Len(json) - 2
    PROVE  SubSeq(json, i, i + 2) = Quoted(<<key>>)
             <=> json[i] = Quote /\ json[i + 1] = key /\ json[i + 2] = Quote
<1> DEFINE s == SubSeq(json, i, i + 2)
           q == Quoted(<<key>>)
<1>1. q \in Text /\ Len(q) = 3 /\ q[1] = Quote /\ q[2] = key /\ q[3] = Quote
  BY QuotedKey
<1>2. s \in Text /\ Len(s) = 3 /\ s[1] = json[i] /\ s[2] = json[i + 1] /\ s[3] = json[i + 2]
  <2>1. json \in Seq(Chars) /\ Len(json) \in Nat
    BY DEF Text
  <2>2. s \in Seq(Chars) /\ Len(s) = 3
    BY <2>1
  <2>3. \A j \in 1 .. 3 : s[j] = json[i + j - 1]
    BY <2>1
  <2>4. s[1] = json[i + 1 - 1] /\ s[2] = json[i + 2 - 1] /\ s[3] = json[i + 3 - 1]
    BY <2>3
  <2>5. i + 1 - 1 = i /\ i + 2 - 1 = i + 1 /\ i + 3 - 1 = i + 2
    BY <2>1
  <2> HIDE DEF s
  <2>6. QED BY <2>2, <2>4, <2>5 DEF Text
<1> HIDE DEF s, q
<1>3. (s[1] = q[1] /\ s[2] = q[2] /\ s[3] = q[3]) => s = q
  <2> SUFFICES ASSUME s[1] = q[1], s[2] = q[2], s[3] = q[3] PROVE s = q
    OBVIOUS
  <2>1. \A j \in 1 .. 3 : j = 1 \/ j = 2 \/ j = 3
    OBVIOUS
  <2>2. \A j \in 1 .. Len(s) : s[j] = q[j]
    BY <1>2, <2>1
  <2>3. QED BY <1>1, <1>2, <2>2, SameSequence DEF Text
<1>4. QED BY <1>1, <1>2, <1>3 DEF s, q

\* The strings T, read from a text by the states r.
StringsOf(json, T, r) ==
    /\ json \in Text /\ T \in Seq(Text)
    /\ Run(r, LoadStep, Loader, json) /\ r[Len(json)] = Outside(T)
    /\ \A i \in 1 .. Len(json) : r[i - 1].open \/ json[i] \in Marks

\* A key in its quotes, somewhere in a text.
KeyFrom(json, key, i) ==
    /\ key \in Plain /\ key \notin Marks /\ i \in 1 .. Len(json) - 2
    /\ json[i] = Quote /\ json[i + 1] = key /\ json[i + 2] = Quote

\* Its strings: the key alone, from its first quote to its last, or one that
\* ends in a quote and the key.
KeyString(T, r, key, i) ==
    \E S \in Seq(Text), w \in Text :
       /\ Len(S) + 1 \in 1 .. Len(T)
       /\ \/ /\ r[i - 1] = Outside(S) /\ T[Len(S) + 1] = <<key>>
             /\ r[i] = Inside(S, << >>) /\ r[i + 1] = Inside(S, <<key>>)
             /\ Finished(r[i + 2]) = Len(S) + 1
          \/ T[Len(S) + 1] = Append(Append(w, Quote), key)

\* A key in its quotes in the text of an object: a string that is the key,
\* from its first quote to its last, or the end of a string.
LEMMA KeyInStrings ==
    ASSUME NEW json, NEW T, NEW r, StringsOf(json, T, r), NEW key, NEW i, KeyFrom(json, key, i)
    PROVE  KeyString(T, r, key, i)
<1> USE DEF StringsOf, KeyFrom, KeyString
<1> DEFINE N == Len(json)
<1>1. /\ N \in Nat /\ \A k \in 1 .. N : json[k] \in Chars
      /\ i \in 1 .. N /\ i + 1 \in 1 .. N /\ i + 2 \in 1 .. N /\ i - 1 \in 0 .. N
      /\ i + 1 - 1 = i /\ i + 2 - 1 = i + 1
  BY DEF Text
<1>2. \A k \in 1 .. N : r[k] = LoadChar(r[k - 1], json[k]) /\ r[k - 1] \in Loader
  <2>1. ASSUME NEW k \in 1 .. N PROVE r[k] = LoadChar(r[k - 1], json[k]) /\ r[k - 1] \in Loader
    <3>1. r[k] = LoadStep[<<r[k - 1], json[k]>>] /\ r[k - 1] \in Loader
      <4>1. k - 1 \in 0 .. N
        BY <1>1
      <4>2. QED BY <4>1 DEF Run
    <3>2. QED BY <1>1, <3>1 DEF LoadStep
  <2>2. QED BY <2>1
<1>3. /\ r[i - 1] \in Loader
      /\ r[i] = LoadChar(r[i - 1], Quote)
      /\ r[i + 1] = LoadChar(r[i], key)
      /\ r[i + 2] = LoadChar(r[i + 1], Quote)
  <2>1. /\ r[i] = LoadChar(r[i - 1], json[i])
        /\ r[i + 1] = LoadChar(r[i + 1 - 1], json[i + 1])
        /\ r[i + 2] = LoadChar(r[i + 2 - 1], json[i + 2])
        /\ r[i - 1] \in Loader
    BY <1>1, <1>2
  <2>2. QED BY <1>1, <2>1
<1>4. r[i].open \/ key \in Marks
  <2>1. r[i + 1 - 1].open \/ json[i + 1] \in Marks
    BY <1>1
  <2>2. QED BY <1>1, <2>1
<1>5. PICK S \in Seq(Text), w \in Text :
         r[i - 1] = Outside(S) \/ r[i - 1] = Inside(S, w) \/ r[i - 1] = Escaping(S, w)
  BY <1>3, LoaderForms
<1>6. /\ key \in Chars \ {Quote, Backslash} /\ Quote \in Chars /\ << >> \in Text
      /\ <<key>> \in Text /\ Append(<< >>, key) = <<key>> /\ Decoded(Quote) = Quote
      /\ Append(w, Quote) \in Text /\ Append(Append(w, Quote), key) \in Text
  <2>1. key \in Chars \ {Quote, Backslash} /\ Quote \in Chars /\ << >> \in Text
    BY Characters, EmptyText DEF Plain
  <2>2. \A x \in Text, d \in Chars : Append(x, d) \in Text
    BY DEF Text
  <2>3. Decoded(Quote) = Quote
    BY DecodedType
  <2>4. <<key>> \in Text /\ Append(<< >>, key) = <<key>>
    BY <2>1, Single
  <2>5. QED BY <2>1, <2>2, <2>3, <2>4
<1>7. ASSUME NEW v \in Text, r[i + 2] = Outside(Append(S, v))
      PROVE  /\ Finished(r[i + 2]) = Len(S) + 1 /\ Len(S) + 1 \in 1 .. Len(T)
             /\ T[Len(S) + 1] = v
  <2> DEFINE U == Append(S, v)
             m == Len(S) + 1
  <2>1. U \in Seq(Text) /\ Len(U) = m /\ U[m] = v /\ m \in 1 .. m
    OBVIOUS
  <2>2. Kept(r[i + 2], r[N])
    BY <1>1, RunKeeps
  <2>3. r[i + 2] = Outside(U) /\ r[N] = Outside(T)
    BY <1>7
  <2> HIDE DEF U, m
  <2>4. /\ Finished(Outside(U)) = m /\ Outside(U).strings[m] = v
        /\ Finished(Outside(T)) = Len(T) /\ Outside(T).strings = T
    BY <1>6, <2>1, FinishedForms DEF Outside
  <2>5. m <= Len(T) /\ T[m] = v
    BY <2>1, <2>2, <2>3, <2>4 DEF Kept
  <2>6. QED BY <2>1, <2>3, <2>4, <2>5 DEF m
<1>8. CASE r[i - 1] = Outside(S)
  <2>1. r[i] = Inside(S, << >>)
    BY <1>3, <1>6, <1>8, LoadSteps
  <2>2. r[i + 1] = Inside(S, <<key>>)
    <3> DEFINE e == << >>
    <3>1. r[i] = Inside(S, e) /\ e \in Text /\ Append(e, key) = <<key>>
      BY <1>6, <2>1
    <3> HIDE DEF e
    <3>2. LoadChar(Inside(S, e), key) = Inside(S, Append(e, key))
      <4>1. key \in Chars /\ key \notin {Quote, Backslash} /\ e \in Text
        BY <1>6, <3>1
      <4>2. QED BY <4>1, LoadSteps
    <3>3. QED BY <1>3, <3>1, <3>2
  <2>3. r[i + 2] = Outside(Append(S, <<key>>))
    BY <1>3, <1>6, <2>2, LoadSteps
  <2>4. QED BY <1>6, <1>7, <1>8, <2>1, <2>2, <2>3
<1>9. CASE r[i - 1] = Inside(S, w)
  <2>1. r[i] = Outside(Append(S, w))
    BY <1>3, <1>6, <1>9, LoadSteps
  <2>2. ~r[i].open
    BY <2>1 DEF Outside
  <2>3. QED BY <1>4, <2>2
<1>10. CASE r[i - 1] = Escaping(S, w)
  <2> DEFINE x == Append(w, Quote)
  <2>1. r[i] = Inside(S, x)
    BY <1>3, <1>6, <1>10, LoadSteps
  <2> HIDE DEF x
  <2>2. x \in Text /\ Append(x, key) \in Text
    BY <1>6 DEF x
  <2>3. r[i + 1] = Inside(S, Append(x, key))
    BY <1>3, <1>6, <2>1, <2>2, LoadSteps
  <2>4. r[i + 2] = Outside(Append(S, Append(x, key)))
    BY <1>3, <1>6, <2>2, <2>3, LoadSteps
  <2>5. QED BY <1>7, <2>2, <2>4 DEF x
<1>11. QED BY <1>5, <1>8, <1>9, <1>10

\* Three texts.
Three(s, t, u) == s \in Text /\ t \in Text /\ u \in Text

\* Putting texts together is associative.
LEMMA Associative ==
    ASSUME NEW s, NEW t, NEW u, Three(s, t, u)
    PROVE  (s \o t) \o u = s \o (t \o u)
  BY DEF Three, Text

\* The text from the place of a field on: its key, its colon, its value.
LEMMA AroundMember ==
    ASSUME NEW json \in Text, NEW f \in Written, Around(json, Member(f))
    PROVE  \E o \in Nat, after \in Text :
              /\ o \in 1 .. Len(json) - 2
              /\ json[o] = Quote /\ json[o + 1] = f.key /\ json[o + 2] = Quote
              /\ o + 4 \in 1 .. Len(json)
              /\ json[o + 3] = ":" /\ json[o + 4] = Quote
              /\ SubSeq(json, o + 5, Len(json)) = f.chars \o (<<Quote>> \o after)
<1> DEFINE key == Quoted(<<f.key>>)
           q == <<Quote>>
           c == <<":">>
           e == f.chars
<1>1. PICK before \in Text, after \in Text : json = (before \o Member(f)) \o after
  BY DEF Around
<1>2. /\ q \in Text /\ c \in Text /\ e \in Text /\ f.key \in Chars
      /\ c \o q = <<":", Quote>> /\ <<":", Quote>> \in Text
  <2>1. ":" \in Chars /\ Quote \in Chars
    BY Characters DEF Marks
  <2>2. QED BY <2>1, Single, PairIsBoth DEF Written
<1>3. key \in Text /\ Len(key) = 3 /\ key[1] = Quote /\ key[2] = f.key /\ key[3] = Quote
  BY <1>2, QuotedKey
<1>4. Member(f) = (key \o c) \o ((q \o e) \o q)
  BY DEF Member, Quoted
<1> DEFINE mark == <<":", Quote>>
           b == before \o key
           head == b \o mark
           tail == e \o (q \o after)
<1>5. mark \in Text /\ Len(mark) = 2 /\ mark[1] = ":" /\ mark[2] = Quote
  BY <1>2
<1> HIDE DEF key, q, c, mark
<1>6. json = head \o tail
  <2>1. json = (before \o ((key \o c) \o ((q \o e) \o q))) \o after
    BY <1>1, <1>4
  <2> DEFINE y == (q \o e) \o q
             z == q \o after
  <2> HIDE DEF e
  <2>2. /\ key \o c \in Text /\ y \in Text /\ q \o e \in Text /\ z \in Text
        /\ b \in Text /\ b \o c \in Text /\ e \o z \in Text
    <3>1. key \o c \in Text /\ q \o e \in Text /\ z \in Text /\ b \in Text
      BY <1>2, <1>3, Concat
    <3> HIDE DEF b, z
    <3>2. QED BY <1>2, <3>1, Concat
  <2> HIDE DEF y, z, b
  <2>3. /\ Three(before, key \o c, y) /\ Three(before, key, c) /\ Three(q \o e, q, after)
        /\ Three(q, e, z) /\ Three(b \o c, y, after) /\ Three(b \o c, q, e \o z)
        /\ Three(b, c, q)
    BY <1>2, <1>3, <2>2 DEF Three
  <2>4. before \o ((key \o c) \o y) = (b \o c) \o y
    <3>1. before \o ((key \o c) \o y) = (before \o (key \o c)) \o y
      BY <2>3, Associative
    <3>2. before \o (key \o c) = b \o c
      BY <2>3, Associative DEF b
    <3>3. QED BY <3>1, <3>2
  <2>5. y \o after = q \o (e \o z)
    <3>1. ((q \o e) \o q) \o after = (q \o e) \o (q \o after)
      BY <2>3, Associative
    <3>2. (q \o e) \o z = q \o (e \o z)
      BY <2>3, Associative
    <3>3. QED BY <3>1, <3>2 DEF y, z
  <2>6. ((b \o c) \o y) \o after = (b \o c) \o (y \o after)
    BY <2>3, Associative
  <2>7. (b \o c) \o (q \o (e \o z)) = ((b \o c) \o q) \o (e \o z)
    BY <2>3, Associative
  <2>8. (b \o c) \o q = b \o mark
    <3>1. (b \o c) \o q = b \o (c \o q)
      BY <2>3, Associative
    <3>2. c \o q = mark
      BY <1>2 DEF mark
    <3>3. QED BY <3>1, <3>2
  <2>9. QED BY <2>1, <2>4, <2>5, <2>6, <2>7, <2>8 DEF y, z
<1> DEFINE n == Len(before)
           o == n + 1
<1>7. /\ b \in Text /\ Len(b) = n + 3 /\ n \in Nat
      /\ b[n + 1] = Quote /\ b[n + 2] = f.key /\ b[n + 3] = Quote
  <2>1. /\ b \in Text /\ Len(b) = n + Len(key) /\ n \in Nat
        /\ \A i \in 1 .. Len(key) : b[n + i] = key[i]
    BY <1>3, Concat
  <2> HIDE DEF b, n
  <2>2. 1 \in 1 .. Len(key) /\ 2 \in 1 .. Len(key) /\ 3 \in 1 .. Len(key)
    BY <1>3
  <2>3. QED BY <1>3, <2>1, <2>2
<1> HIDE DEF b
<1>8. /\ head \in Text /\ Len(head) = n + 5
      /\ head[n + 1] = Quote /\ head[n + 2] = f.key /\ head[n + 3] = Quote
      /\ head[n + 4] = ":" /\ head[n + 5] = Quote
  <2>1. /\ head \in Text /\ Len(head) = Len(b) + Len(mark)
        /\ \A i \in 1 .. Len(b) : head[i] = b[i]
        /\ \A i \in 1 .. Len(mark) : head[Len(b) + i] = mark[i]
    BY <1>5, <1>7, Concat
  <2> HIDE DEF head, n
  <2>2. /\ n + 1 \in 1 .. Len(b) /\ n + 2 \in 1 .. Len(b) /\ n + 3 \in 1 .. Len(b)
        /\ 1 \in 1 .. Len(mark) /\ 2 \in 1 .. Len(mark)
    BY <1>5, <1>7
  <2>3. head[Len(b) + 1] = ":" /\ head[Len(b) + 2] = Quote
    BY <1>5, <2>1, <2>2
  <2>4. Len(b) + 1 = n + 4 /\ Len(b) + 2 = n + 5 /\ Len(b) + Len(mark) = n + 5
    BY <1>5, <1>7
  <2>5. QED BY <1>7, <2>1, <2>2, <2>3, <2>4
<1>9. tail \in Text
  BY <1>2, Concat
<1> HIDE DEF head, tail, n
<1>10. /\ Len(json) = Len(head) + Len(tail) /\ Len(tail) \in Nat
       /\ \A i \in 1 .. Len(head) : json[i] = head[i]
  BY <1>6, <1>8, <1>9, Concat
<1>11. SubSeq(json, Len(head) + 1, Len(json)) = tail
  <2>1. head \in Seq(Chars) /\ tail \in Seq(Chars)
    BY <1>8, <1>9 DEF Text
  <2>2. SubSeq(head \o tail, Len(head) + 1, Len(head \o tail)) = tail
    BY <2>1
  <2>3. QED BY <1>6, <2>2
<1>12. /\ o \in Nat /\ o \in 1 .. Len(json) - 2 /\ o + 4 \in 1 .. Len(json)
       /\ o = n + 1 /\ o + 1 = n + 2 /\ o + 2 = n + 3 /\ o + 3 = n + 4 /\ o + 4 = n + 5
       /\ o + 5 = Len(head) + 1
       /\ n + 1 \in 1 .. Len(head) /\ n + 2 \in 1 .. Len(head) /\ n + 3 \in 1 .. Len(head)
       /\ n + 4 \in 1 .. Len(head) /\ n + 5 \in 1 .. Len(head)
  BY <1>7, <1>8, <1>10
<1> HIDE DEF o
<1>13. /\ json[o] = Quote /\ json[o + 1] = f.key /\ json[o + 2] = Quote
       /\ json[o + 3] = ":" /\ json[o + 4] = Quote
  BY <1>8, <1>10, <1>12
<1>14. SubSeq(json, o + 5, Len(json)) = e \o (q \o after)
  BY <1>11, <1>12 DEF tail
<1>15. QED BY <1>12, <1>13, <1>14 DEF q

\* What extract does from the value's first character on.
LEMMA ExtractReads ==
    ASSUME NEW e, NEW v, Spells(e, v), Legible(v), NEW after \in Text
    PROVE  LET value == FoldLeft(ReadChar, [chars |-> << >>, escaped |-> FALSE, closed |-> FALSE],
                                 e \o (<<Quote>> \o after))
           IN  value.closed /\ value.chars = v
<1> DEFINE q == <<Quote>>
           end == [Got(v) EXCEPT !.closed = TRUE]
           value == FoldLeft(ReadChar, Got(<< >>), e \o (q \o after))
<1>1. /\ e \in Text /\ v \in Text /\ << >> \in Text /\ << >> \in Seq(Text)
      /\ Extracting(Got(<< >>), e, Got(v))
  BY EmptyText DEF Spells
<1>2. Quote \in Chars /\ q \in Text
  BY Characters, Single
<1>3. Got(v) \in Value /\ Got(<< >>) \in Value
  BY <1>1, StateTypes
<1>4. Extracting(Got(v), q, end) /\ end \in Value
  BY <1>1, <1>2, <1>3, ReadSteps, ExtractingOne
<1>5. end.closed /\ end.chars = v
  BY DEF Got
<1> HIDE DEF end, q
<1>6. Extracting(end, after, end)
  <2> DEFINE r == [i \in 0 .. Len(after) |-> end]
  <2>1. \A c \in Chars : ReadStep[<<end, c>>] = end
    BY <1>4, <1>5 DEF ReadStep, ReadChar
  <2>2. Len(after) \in Nat /\ \A i \in 1 .. Len(after) : after[i] \in Chars
    BY DEF Text
  <2>3. r \in [0 .. Len(after) -> Value] /\ \A i \in 0 .. Len(after) : r[i] = end
    BY <1>4
  <2>4. \A i \in 1 .. Len(after) : i \in 0 .. Len(after) /\ i - 1 \in 0 .. Len(after)
    BY <2>2
  <2>5. r[0] = end /\ r[Len(after)] = end
    BY <2>2
  <2> HIDE DEF r
  <2>6. \A i \in 1 .. Len(after) : r[i] = ReadStep[<<r[i - 1], after[i]>>]
    BY <2>1, <2>2, <2>3, <2>4
  <2>7. Run(r, ReadStep, Value, after)
    BY <2>3, <2>6 DEF Run
  <2>8. QED BY <2>5, <2>7 DEF Extracting
<1>7. Extracting(Got(v), q \o after, end) /\ q \o after \in Text
  BY <1>2, <1>4, <1>6, ExtractingBoth, Concat
<1>8. Extracting(Got(<< >>), e \o (q \o after), end) /\ e \o (q \o after) \in Text
  BY <1>1, <1>7, ExtractingBoth, Concat
<1>9. value = end
  BY <1>3, <1>8, ExtractingFolds
<1>10. value = FoldLeft(ReadChar, [chars |-> << >>, escaped |-> FALSE, closed |-> FALSE],
                        e \o (<<Quote>> \o after))
  BY DEF Got, q
<1> HIDE DEF value
<1>11. QED BY <1>5, <1>9, <1>10

\* A value that is a key's name, or ends in a quote and one, looks like a key.
LEMMA SuffixOfTwo ==
    ASSUME NEW t \in Text, NEW c \in Chars, NEW d \in Chars, Len(t) >= 2,
           t[Len(t) - 1] = c, t[Len(t)] = d
    PROVE  IsSuffix(<<c, d>>, t)
<1> DEFINE s == <<c, d>>
           n == Len(t)
           a == Reverse(s)
           b == Reverse(t)
<1>1. /\ t \in Seq(Chars) /\ n \in Nat /\ n >= 2
      /\ s \in Seq(Chars) /\ Len(s) = 2 /\ s[1] = c /\ s[2] = d
  BY DEF Text
<1>2. a = [i \in 1 .. 2 |-> s[(2 - i) + 1]] /\ b = [i \in 1 .. n |-> t[(n - i) + 1]]
  BY DEF Reverse
<1> HIDE DEF s, n, a, b
<1>3. a \in Seq(Chars) /\ Len(a) = 2 /\ a[1] = d /\ a[2] = c
  <2>1. \A i \in 1 .. 2 : s[(2 - i) + 1] \in Chars
    BY <1>1
  <2>2. a[1] = s[(2 - 1) + 1] /\ a[2] = s[(2 - 2) + 1] /\ (2 - 1) + 1 = 2 /\ (2 - 2) + 1 = 1
    BY <1>2
  <2>3. QED BY <1>1, <1>2, <2>1, <2>2
<1>4. b \in Seq(Chars) /\ Len(b) = n /\ b[1] = d /\ b[2] = c
  <2>1. \A i \in 1 .. n : t[(n - i) + 1] \in Chars
    <3>1. \A i \in 1 .. n : (n - i) + 1 \in 1 .. n
      BY <1>1
    <3>2. QED BY <1>1, <3>1 DEF n
  <2>2. b[1] = t[(n - 1) + 1] /\ b[2] = t[(n - 2) + 1] /\ (n - 1) + 1 = n /\ (n - 2) + 1 = n - 1
    BY <1>1, <1>2
  <2>3. b[1] = d /\ b[2] = c
    BY <2>2 DEF n
  <2>4. b \in Seq(Chars) /\ Len(b) = n
    BY <1>1, <1>2, <2>1
  <2>5. QED BY <2>3, <2>4
<1>5. SubSeq(a, 1, 2) = SubSeq(b, 1, 2)
  <2>1. /\ SubSeq(a, 1, 2) \in Seq(Chars) /\ Len(SubSeq(a, 1, 2)) = 2
        /\ SubSeq(b, 1, 2) \in Seq(Chars) /\ Len(SubSeq(b, 1, 2)) = 2
    BY <1>1, <1>3, <1>4
  <2>2. \A i \in 1 .. 2 : SubSeq(a, 1, 2)[i] = a[i] /\ SubSeq(b, 1, 2)[i] = b[i]
    BY <1>1, <1>3, <1>4
  <2>3. \A i \in 1 .. 2 : a[i] = b[i]
    <3>1. \A i \in 1 .. 2 : i = 1 \/ i = 2
      OBVIOUS
    <3>2. QED BY <1>3, <1>4, <3>1
  <2>4. \A i \in 1 .. Len(SubSeq(a, 1, 2)) : SubSeq(a, 1, 2)[i] = SubSeq(b, 1, 2)[i]
    BY <2>1, <2>2, <2>3
  <2>5. QED BY <2>1, <2>4, SameSequence
<1>6. IsPrefix(a, b)
  BY <1>1, <1>3, <1>4, <1>5 DEF IsPrefix
<1>7. QED BY <1>6 DEF IsSuffix, a, b, s

\* A value that does not look like a key is none, and does not end in a
\* quote and a key.
LEMMA NotLikeKey ==
    ASSUME NEW v \in Text, ~LooksLikeKey(v), NEW key \in Keys
    PROVE  v # <<key>> /\ \A w \in Text : v # Append(Append(w, Quote), key)
<1> DEFINE q == <<Quote>>
           n == Len(v)
           t == q \o v
<1>1. /\ q \in Text /\ Len(q) = 1 /\ q[1] = Quote /\ Quote \in Chars /\ key \in Chars
  BY Characters, Single
<1>2. ~IsSuffix(<<Quote, key>>, t)
  BY DEF LooksLikeKey
<1> HIDE DEF q
<1>3. /\ t \in Text /\ Len(t) = n + 1 /\ n \in Nat /\ t[1] = Quote
      /\ \A i \in 1 .. n : t[1 + i] = v[i]
  <2>1. /\ t \in Text /\ Len(t) = Len(q) + n /\ n \in Nat
        /\ \A i \in 1 .. Len(q) : t[i] = q[i]
        /\ \A i \in 1 .. n : t[Len(q) + i] = v[i]
    BY <1>1, Concat
  <2> HIDE DEF n, t
  <2>2. 1 \in 1 .. Len(q)
    BY <1>1
  <2>3. QED BY <1>1, <2>1, <2>2
<1>4. ASSUME v = <<key>> PROVE FALSE
  <2>1. n = 1 /\ v[1] = key
    BY <1>4
  <2> HIDE DEF n, t
  <2>2. 1 \in 1 .. n /\ Len(t) = 2
    BY <1>3, <2>1
  <2>3. t[1 + 1] = key
    BY <1>3, <2>1, <2>2
  <2>4. Len(t) >= 2 /\ t[Len(t) - 1] = Quote /\ t[Len(t)] = key
    <3>1. Len(t) - 1 = 1 /\ Len(t) = 1 + 1
      BY <2>2
    <3>2. t[Len(t) - 1] = t[1] /\ t[Len(t)] = t[1 + 1]
      BY <3>1
    <3>3. QED BY <1>3, <2>2, <2>3, <3>2
  <2>5. QED BY <1>1, <1>2, <1>3, <2>4, SuffixOfTwo
<1>5. ASSUME NEW w \in Text, v = Append(Append(w, Quote), key) PROVE FALSE
  <2> DEFINE m == Len(w)
             x == Append(w, Quote)
  <2>1. x \in Seq(Chars) /\ Len(x) = m + 1 /\ x[m + 1] = Quote /\ m \in Nat
    BY <1>1 DEF Text
  <2> HIDE DEF x, m
  <2>2. v = Append(x, key)
    BY <1>5 DEF x
  <2>3. n = m + 2 /\ v[m + 2] = key /\ v[m + 1] = Quote
    <3>1. /\ Len(Append(x, key)) = m + 2 /\ Append(x, key)[m + 2] = key
          /\ Append(x, key)[m + 1] = x[m + 1]
      BY <1>1, <2>1
    <3>2. QED BY <2>1, <2>2, <3>1
  <2> HIDE DEF n, t
  <2>4. m + 1 \in 1 .. n /\ m + 2 \in 1 .. n
    BY <2>1, <2>3
  <2>5. t[1 + (m + 1)] = Quote /\ t[1 + (m + 2)] = key
    BY <1>3, <2>3, <2>4
  <2>6. Len(t) - 1 = 1 + (m + 1) /\ Len(t) = 1 + (m + 2) /\ Len(t) >= 2
    BY <1>3, <2>1, <2>3
  <2>7. t[Len(t) - 1] = Quote /\ t[Len(t)] = key
    BY <2>5, <2>6
  <2>8. QED BY <1>1, <1>2, <1>3, <2>6, <2>7, SuffixOfTwo
<1>6. QED BY <1>4, <1>5

\* extract gives the value of a key that was written, and nothing for another,
\* when no value looks like a key.
LEMMA ExtractNamed ==
    ASSUME NEW fields, NEW values, Named(fields, values), NEW key \in Keys,
           \A i, j \in 1 .. Len(fields) : fields[i].key = fields[j].key => i = j,
           \A j \in 1 .. Len(fields) : ~LooksLikeKey(values[j]) /\ Legible(values[j])
    PROVE  /\ \A j \in 1 .. Len(fields) :
                 fields[j].key = key => Extract(Object(fields), key) = values[j]
           /\ (\A j \in 1 .. Len(fields) : fields[j].key # key)
                 => Extract(Object(fields), key) = << >>
<1> DEFINE n == Len(fields)
           json == Object(fields)
           N == Len(json)
           At(i) == /\ i \in 1 .. N - 2
                    /\ json[i] = Quote /\ json[i + 1] = key /\ json[i + 2] = Quote
           keyPos == Find(json, Quoted(<<key>>), 1)
           colon == Find(json, <<":">>, keyPos + 3)
           quote == Find(json, <<Quote>>, colon + 1)
           value == FoldLeft(ReadChar, [chars |-> << >>, escaped |-> FALSE, closed |-> FALSE],
                             SubSeq(json, quote + 1, N))
<1>1. /\ json \in Text /\ N \in Nat /\ n \in Nat
      /\ \A j \in 1 .. n : /\ fields[j] \in Written /\ fields[j].key \in Plain
                           /\ Spells(fields[j].chars, values[j]) /\ values[j] \in Text
                           /\ Around(json, Member(fields[j]))
  <2>1. json \in Text /\ \A j \in 1 .. n : Around(json, Member(fields[j]))
    BY ObjectReads
  <2>2. /\ n \in Nat
        /\ \A j \in 1 .. n : /\ fields[j] \in Written /\ fields[j].key \in Plain
                             /\ Spells(fields[j].chars, values[j])
    BY DEF Named
  <2>3. \A j \in 1 .. n : values[j] \in Text
    BY <2>2 DEF Spells
  <2> HIDE DEF json
  <2>4. N \in Nat
    BY <2>1 DEF Text
  <2>5. QED BY <2>1, <2>2, <2>3, <2>4
<1>2. PICK T : Told(T, fields, values, n) /\ Reading(Outside(<< >>), json, Outside(T))
  BY ObjectReads
<1>3. /\ T \in Seq(Text) /\ Len(T) = 2 * n
      /\ \A j \in 1 .. n : T[2 * j - 1] = <<fields[j].key>> /\ T[2 * j] = values[j]
  BY <1>2 DEF Told
<1>4. /\ \A i, j \in 1 .. n : fields[i].key = fields[j].key => i = j
      /\ \A j \in 1 .. n : ~LooksLikeKey(values[j]) /\ Legible(values[j])
  OBVIOUS
<1>5. Extract(json, key) =
        IF 0 \notin {keyPos, colon, quote} /\ value.closed THEN value.chars ELSE << >>
  BY DEF Extract
<1> HIDE DEF json, n
<1>6. PICK r : /\ Run(r, LoadStep, Loader, json) /\ r[N] = Outside(T)
               /\ \A i \in 1 .. N : r[i - 1].open \/ json[i] \in Marks
  BY <1>2 DEF Reading
<1>7. key \in Plain /\ key \notin Marks /\ key \in Chars
  BY PlainKeys, KeysAssumption DEF Plain
\* Where the key can be: at a field of that name.
<1> DEFINE Place(i, j) == /\ fields[j].key = key /\ ~r[i - 1].open /\ r[i].open /\ r[i + 1].open
                          /\ Finished(r[i - 1]) = 2 * j - 2 /\ Finished(r[i + 2]) = 2 * j - 1
<1>8. ASSUME NEW i, At(i) PROVE \E j \in 1 .. n : Place(i, j)
  <2>1. PICK S \in Seq(Text), w \in Text :
           /\ Len(S) + 1 \in 1 .. Len(T)
           /\ \/ /\ r[i - 1] = Outside(S) /\ T[Len(S) + 1] = <<key>>
                 /\ r[i] = Inside(S, << >>) /\ r[i + 1] = Inside(S, <<key>>)
                 /\ Finished(r[i + 2]) = Len(S) + 1
              \/ T[Len(S) + 1] = Append(Append(w, Quote), key)
    <3>1. StringsOf(json, T, r)
      BY <1>1, <1>3, <1>6 DEF StringsOf
    <3>2. KeyFrom(json, key, i)
      BY <1>7, <1>8 DEF KeyFrom
    <3> HIDE DEF N, Place, At
    <3>3. KeyString(T, r, key, i)
      BY <3>1, <3>2, KeyInStrings
    <3>4. QED BY <3>3 DEF KeyString
  <2> DEFINE m == Len(S) + 1
  <2>2. m \in 1 .. 2 * n /\ Len(S) \in Nat
    BY <1>3, <2>1
  <2>3. (\E j \in 1 .. n : m = 2 * j) \/ (\E j \in 1 .. n : m = 2 * j - 1)
    <3> HIDE DEF m
    <3>1. m \div 2 \in Int /\ (m = 2 * (m \div 2) \/ m = 2 * (m \div 2) + 1)
      BY <1>1, <2>2
    <3>2. CASE m = 2 * (m \div 2)
      <4>1. m \div 2 \in 1 .. n
        BY <1>1, <2>2, <3>1, <3>2
      <4>2. QED BY <3>2, <4>1
    <3>3. CASE m = 2 * (m \div 2) + 1
      <4>1. m \div 2 + 1 \in 1 .. n /\ m = 2 * (m \div 2 + 1) - 1
        BY <1>1, <2>2, <3>1, <3>3
      <4>2. QED BY <4>1
    <3>4. QED BY <3>1, <3>2, <3>3
  <2>4. ASSUME NEW j \in 1 .. n, m = 2 * j PROVE FALSE
    <3>1. T[m] = values[j]
      BY <1>3, <2>4
    <3>2. values[j] # <<key>> /\ values[j] # Append(Append(w, Quote), key)
      BY <1>1, <1>4, NotLikeKey
    <3>3. QED BY <2>1, <3>1, <3>2
  <2>5. ASSUME NEW j \in 1 .. n, m = 2 * j - 1 PROVE Place(i, j)
    <3>1. T[m] = <<fields[j].key>>
      BY <1>3, <2>5
    <3>2. <<fields[j].key>> # Append(Append(w, Quote), key)
      <4> DEFINE x == Append(w, Quote)
      <4>1. x \in Seq(Chars) /\ Len(x) = Len(w) + 1 /\ Len(w) \in Nat
        BY Characters DEF Text
      <4> HIDE DEF x
      <4>2. Len(Append(x, key)) = Len(w) + 2
        BY <1>7, <4>1
      <4>3. Len(<<fields[j].key>>) = 1
        OBVIOUS
      <4>4. <<fields[j].key>> # Append(x, key)
        BY <4>1, <4>2, <4>3
      <4>5. QED BY <4>4 DEF x
    <3>3. /\ r[i - 1] = Outside(S) /\ T[m] = <<key>>
          /\ r[i] = Inside(S, << >>) /\ r[i + 1] = Inside(S, <<key>>)
          /\ Finished(r[i + 2]) = m
      BY <2>1, <3>1, <3>2
    <3>4. fields[j].key = key
      <4>1. <<fields[j].key>> = <<key>>
        BY <3>1, <3>3
      <4>2. QED BY <4>1
    <3>5. ~Outside(S).open /\ Inside(S, << >>).open /\ Inside(S, <<key>>).open
      BY DEF Outside, Inside
    <3>6. << >> \in Text
      BY EmptyText
    <3>7. Finished(Outside(S)) = m - 1
      BY <2>2, <3>6, FinishedForms
    <3>8. m - 1 = 2 * j - 2
      BY <2>5
    <3> HIDE DEF m
    <3>9. QED BY <2>5, <3>3, <3>4, <3>5, <3>7, <3>8
  <2> HIDE DEF Place, m
  <2>6. QED BY <2>3, <2>4, <2>5
<1>9. ASSUME NEW i, NEW k, At(i), At(k) PROVE ~(i < k)
  <2> SUFFICES ASSUME i < k PROVE FALSE
    OBVIOUS
  <2>1. PICK j \in 1 .. n : Place(i, j)
    <3> HIDE DEF Place, At
    <3>1. QED BY <1>8, <1>9
  <2>2. PICK l \in 1 .. n : Place(k, l)
    <3> HIDE DEF Place, At
    <3>1. QED BY <1>8, <1>9
  <2>3. j = l
    BY <1>4, <2>1, <2>2
  <2>4. i \in 1 .. N - 2 /\ k \in 1 .. N - 2
    BY <1>9
  <2>5. CASE k - 1 = i \/ k - 1 = i + 1
    BY <2>1, <2>2, <2>5
  <2>6. CASE k - 1 >= i + 2
    <3>1. i + 2 \in 0 .. N /\ k - 1 \in 0 .. N /\ i + 2 <= k - 1
      BY <1>1, <2>4, <2>6
    <3>2. Kept(r[i + 2], r[k - 1])
      BY <1>1, <1>6, <3>1, RunKeeps
    <3>3. Finished(r[i + 2]) <= Finished(r[k - 1])
      BY <3>2 DEF Kept
    <3>4. 2 * j - 1 <= 2 * j - 2
      BY <2>1, <2>2, <2>3, <3>3
    <3>5. QED BY <3>4
  <2>7. k - 1 = i \/ k - 1 = i + 1 \/ k - 1 >= i + 2
    BY <1>1, <2>4
  <2>8. QED BY <2>5, <2>6, <2>7
\* What Find finds.
<1>10. /\ (\A i : ~At(i)) => keyPos = 0
       /\ \A i : At(i) => keyPos = i
  <2> DEFINE q == Quoted(<<key>>)
             at == {i \in 1 .. N - Len(q) + 1 : SubSeq(json, i, i + Len(q) - 1) = q}
  <2>1. q \in Text /\ Len(q) = 3
    BY <1>7, QuotedKey
  <2>2. /\ at = {} => keyPos = 0
        /\ at # {} => keyPos \in at
    <3>1. 1 \in Nat \ {0}
      OBVIOUS
    <3>2. QED BY <1>1, <2>1, <3>1, FindFirst
  <2>3. ASSUME NEW i PROVE i \in at <=> At(i)
    <3>1. N - Len(q) + 1 = N - 2
      <4>1. N \in Nat /\ Len(q) = 3
        BY <1>1, <2>1
      <4> HIDE DEF N, q
      <4>2. QED BY <4>1
    <3>2. ASSUME i \in 1 .. N - 2 PROVE i + Len(q) - 1 = i + 2
      <4>1. N \in Nat /\ Len(q) = 3
        BY <1>1, <2>1
      <4> HIDE DEF N, q
      <4>2. QED BY <3>2, <4>1
    <3>3. ASSUME i \in 1 .. N - 2
          PROVE  SubSeq(json, i, i + 2) = q
                   <=> json[i] = Quote /\ json[i + 1] = key /\ json[i + 2] = Quote
      BY <1>1, <1>7, <3>3, KeyAt
    <3> HIDE DEF q
    <3>4. QED BY <3>1, <3>2, <3>3
  <2>4. \A i : At(i) => i \in Int
    BY <1>1
  <2> HIDE DEF at, At, keyPos
  <2>5. ASSUME NEW i, At(i) PROVE keyPos = i
    <3>1. i \in at /\ keyPos \in at
      BY <2>2, <2>3, <2>5
    <3>2. At(keyPos)
      BY <2>3, <3>1
    <3>3. ~(i < keyPos) /\ ~(keyPos < i) /\ i \in Int /\ keyPos \in Int
      BY <1>9, <2>4, <2>5, <3>2
    <3>4. QED BY <3>3
  <2>6. (\A i : ~At(i)) => keyPos = 0
    BY <2>2, <2>3
  <2>7. QED BY <2>5, <2>6
<1>11. ASSUME \A j \in 1 .. n : fields[j].key # key PROVE Extract(json, key) = << >>
  <2>1. \A i : ~At(i)
    <3> HIDE DEF At
    <3>1. \A i : At(i) => \E j \in 1 .. n : fields[j].key = key
      BY <1>8
    <3>2. QED BY <1>11, <3>1
  <2>2. keyPos = 0
    <3> HIDE DEF At, keyPos
    <3>1. QED BY <1>10, <2>1
  <2> HIDE DEF keyPos, colon, quote, value
  <2>3. QED BY <1>5, <2>2
<1>12. ASSUME NEW j \in 1 .. n, fields[j].key = key PROVE Extract(json, key) = values[j]
  <2> DEFINE e == fields[j].chars
  <2>1. PICK o \in Nat, after \in Text :
           /\ o \in 1 .. N - 2
           /\ json[o] = Quote /\ json[o + 1] = fields[j].key /\ json[o + 2] = Quote
           /\ o + 4 \in 1 .. N
           /\ json[o + 3] = ":" /\ json[o + 4] = Quote
           /\ SubSeq(json, o + 5, N) = e \o (<<Quote>> \o after)
    BY <1>1, AroundMember
  <2>2. keyPos = o
    <3>1. At(o)
      BY <1>12, <2>1
    <3> HIDE DEF At, keyPos
    <3>2. QED BY <1>10, <3>1
  <2>3. ":" \in Chars /\ Quote \in Chars
    BY Characters DEF Marks
  <2> HIDE DEF keyPos
  <2>4. colon = o + 3
    <3> DEFINE from == o + 3
    <3>1. /\ from \in Nat \ {0} /\ from \in from .. N
          /\ json[from] = ":" /\ colon = Find(json, <<":">>, from)
      BY <2>1, <2>2
    <3> HIDE DEF from, colon
    <3>2. /\ colon \in Nat
          /\ colon = 0 => \A i \in from .. N : json[i] # ":"
          /\ colon # 0 => /\ colon \in from .. N
                          /\ \A i \in from .. colon - 1 : json[i] # ":"
      BY <1>1, <2>3, <3>1, FindChar
    <3>3. colon = from
      BY <1>1, <3>1, <3>2
    <3>4. QED BY <3>3 DEF from
  <2> HIDE DEF colon
  <2>5. quote = o + 4
    <3> DEFINE from == o + 4
    <3>1. from \in Nat \ {0} /\ from \in from .. N /\ json[from] = Quote /\ colon + 1 = from
      BY <2>1, <2>4
    <3>2. quote = Find(json, <<Quote>>, from)
      BY <3>1
    <3> HIDE DEF from, quote
    <3>3. /\ quote \in Nat
          /\ quote = 0 => \A i \in from .. N : json[i] # Quote
          /\ quote # 0 => /\ quote \in from .. N
                          /\ \A i \in from .. quote - 1 : json[i] # Quote
      BY <1>1, <2>3, <3>1, <3>2, FindChar
    <3>4. quote = from
      BY <1>1, <3>1, <3>3
    <3>5. QED BY <3>4 DEF from
  <2> HIDE DEF quote
  <2>6. SubSeq(json, quote + 1, N) = e \o (<<Quote>> \o after)
    <3>1. quote + 1 = o + 5
      BY <2>1, <2>5
    <3>2. QED BY <2>1, <3>1
  <2>7. value.closed /\ value.chars = values[j]
    <3>0. Legible(values[j])
      BY <1>4
    <3>1. /\ Spells(e, values[j]) /\ Legible(values[j]) /\ after \in Text
          /\ value = FoldLeft(ReadChar, [chars |-> << >>, escaped |-> FALSE, closed |-> FALSE],
                              e \o (<<Quote>> \o after))
      BY <1>1, <2>1, <2>6, <3>0
    <3> HIDE DEF e, value
    <3>2. QED BY <3>1, ExtractReads
  <2>8. 0 \notin {keyPos, colon, quote}
    BY <2>1, <2>2, <2>4, <2>5
  <2> HIDE DEF value
  <2>9. QED BY <1>5, <2>7, <2>8
<1>13. QED BY <1>11, <1>12 DEF json, n

\* Json::parse gives every field of a command as it was sent, and nothing for a
\* field that was not sent, whatever is in the values, but for those that look
\* like a key and those with a character whose escape extract does not know.
THEOREM CommandsArriveAsSent == Spec => []FieldsAsSent
<1>1. PhaseInv => FieldsAsSent
  <2> SUFFICES ASSUME PhaseInv, phase \in {"parsed", "invalid"},
                      \A i \in DOMAIN sent :
                         /\ Misread \cap Range(sent[i].chars) = {}
                         /\ ~LooksLikeKey(sent[i].chars)
               PROVE  /\ \A i \in DOMAIN sent : read[sent[i].key] = sent[i].chars
                      /\ \A key \in Keys :
                            (\A i \in DOMAIN sent : sent[i].key # key) => read[key] = << >>
                      /\ phase = "parsed" <=>
                            \E i \in DOMAIN sent : sent[i].key = Command /\ sent[i].chars # << >>
    BY DEF FieldsAsSent
  <2> DEFINE n == Len(sent)
  <2>1. /\ sent \in Commands /\ text = Dumps(sent)
        /\ read = [key \in Keys |-> Extract(text, key)]
        /\ phase = "invalid" <=> Extract(text, Command) = << >>
        /\ Command \in Keys
    BY KeysAssumption DEF PhaseInv
  <2>2. /\ DOMAIN sent = 1 .. n
        /\ \A i \in 1 .. n : sent[i].key \in Keys /\ sent[i].chars \in Text
        /\ \A i, j \in 1 .. n : sent[i].key = sent[j].key => i = j
    <3> DEFINE Field == [key : Keys, chars : Seq(Chars)]
    <3>1. /\ sent \in Seq(Field)
          /\ \A i, j \in DOMAIN sent : sent[i].key = sent[j].key => i = j
      BY <2>1, CommandsAssumption
    <3> HIDE DEF Field
    <3>2. DOMAIN sent = 1 .. n /\ \A i \in 1 .. n : sent[i] \in Field
      BY <3>1
    <3>3. QED BY <3>1, <3>2 DEF Field, Text
  <2>3. PICK fields, values :
           /\ text = Object(fields) /\ Named(fields, values) /\ Len(fields) = n
           /\ \A i \in 1 .. n : fields[i].key = sent[i].key /\ values[i] = sent[i].chars
    BY <2>1, CommandNamed
  <2>4. \A i \in 1 .. n :
            values[i] = sent[i].chars /\ ~LooksLikeKey(values[i]) /\ Legible(values[i])
    <3>1. ASSUME NEW i \in 1 .. n PROVE Legible(sent[i].chars)
      <4>1. Misread \cap Range(sent[i].chars) = {}
        BY <2>2
      <4>2. sent[i].chars \in Text
        BY <2>2
      <4>3. \A k \in 1 .. Len(sent[i].chars) : sent[i].chars[k] \in Range(sent[i].chars)
        BY <4>2 DEF Text, Range
      <4>4. QED BY <4>1, <4>3 DEF Legible
    <3>2. QED BY <2>2, <2>3, <3>1
  <2> HIDE DEF n
  <2>5. ASSUME NEW key \in Keys
        PROVE  /\ \A i \in 1 .. n : sent[i].key = key => Extract(text, key) = sent[i].chars
               /\ (\A i \in 1 .. n : sent[i].key # key) => Extract(text, key) = << >>
    <3>1. /\ \A i, j \in 1 .. Len(fields) : fields[i].key = fields[j].key => i = j
          /\ \A i \in 1 .. Len(fields) : ~LooksLikeKey(values[i]) /\ Legible(values[i])
      BY <2>2, <2>3, <2>4
    <3>2. /\ \A i \in 1 .. Len(fields) : fields[i].key = key => Extract(text, key) = values[i]
          /\ (\A i \in 1 .. Len(fields) : fields[i].key # key) => Extract(text, key) = << >>
      BY <2>3, <3>1, ExtractNamed
    <3>3. QED BY <2>3, <2>4, <3>2
  <2>6. \A key \in Keys : read[key] = Extract(text, key)
    BY <2>1
  <2>7. \A i \in DOMAIN sent : read[sent[i].key] = sent[i].chars
    BY <2>2, <2>5, <2>6
  <2>8. \A key \in Keys : (\A i \in DOMAIN sent : sent[i].key # key) => read[key] = << >>
    BY <2>2, <2>5, <2>6
  <2>9. Extract(text, Command) # << >> <=>
           \E i \in DOMAIN sent : sent[i].key = Command /\ sent[i].chars # << >>
    BY <2>1, <2>2, <2>5
  <2>10. phase = "parsed" <=> Extract(text, Command) # << >>
    BY <2>1
  <2>11. QED BY <2>7, <2>8, <2>9, <2>10
<1>2. QED BY <1>1, PhaseInvariant, PTL

=============================================================================
