--------------------------- MODULE Framing_proofs ---------------------------
(***************************************************************************)
(* Framing for objects, junk and reads of any kind and number.             *)
(*                                                                         *)
(* What a scanner computes of a text is an induction over the text.  It is *)
(* made on sets of numbers (NatSet): the places up to which a scan agrees  *)
(* with the grammar that IsObject states without a scanner.  From it, the  *)
(* object that begins a text is found when it is all there (EndFound) and  *)
(* not before (EndNotFound), whatever follows.                             *)
(*                                                                         *)
(* Three invariants then carry the theorems.  The buffer of an address     *)
(* nobody has is empty (OwnBuffers): Accept starts with nothing.  Between  *)
(* two reads at most one beginning is kept (Beginnings).  And a buffer is  *)
(* the last bytes that came and, when no junk came since the mark, begins  *)
(* at a border of what the client wrote, the objects up to which have been *)
(* handled (InStep): a turn of the loop takes the next object off it.      *)
(***************************************************************************)
EXTENDS Framing, FiniteSetTheorems, SequenceTheorems, WellFoundedInduction, TLAPS

-----------------------------------------------------------------------------
(* Induction, without an operator for what is proved: the numbers of which *)
(* it holds are a set, and what is not in it has a least member.           *)

\* A set with 0 and the successor of each of its numbers has all numbers.
LEMMA NatSet ==
  ASSUME NEW T, 0 \in T, \A n \in Nat : n \in T => n + 1 \in T
  PROVE  Nat \subseteq T
<1> SUFFICES ASSUME Nat \ T # {} PROVE FALSE
  OBVIOUS
<1>1. PICK n \in Nat \ T : \A m \in Nat \ T : ~(<<m, n>> \in OpToRel(<, Nat))
  BY NatLessThanWellFounded, WFMin
<1>2. \A m \in Nat \ T : ~(m < n)
  BY <1>1 DEF OpToRel
<1>3. n # 0 /\ n - 1 \in Nat
  OBVIOUS
<1>4. n - 1 \in T
  BY <1>2, <1>3
<1>5. (n - 1) + 1 \in T
  BY <1>3, <1>4
<1>6. QED
  BY <1>3, <1>5

\* The same for the numbers up to one.
LEMMA IntervalSet ==
  ASSUME NEW n \in Nat, NEW T, 0 \in T, \A i \in 1..n : i - 1 \in T => i \in T
  PROVE  0..n \subseteq T
<1> DEFINE U == {k \in Nat : k <= n => k \in T}
<1>1. 0 \in U
  OBVIOUS
<1>2. ASSUME NEW k \in Nat, k \in U
      PROVE  k + 1 \in U
  <2> SUFFICES ASSUME k + 1 <= n PROVE k + 1 \in T
    OBVIOUS
  <2>1. k + 1 \in 1..n /\ (k + 1) - 1 = k /\ k \in T
    BY <1>2
  <2>2. QED
    BY <2>1
<1>3. Nat \subseteq U
  BY <1>1, <1>2, NatSet
<1>4. QED
  BY <1>3

\* A value carried from step to step, each step a function.
IsRun(f, n, S, a, step) ==
  f \in [0..n -> S] /\ f[0] = a /\ \A i \in 1..n : f[i] = step[i][f[i - 1]]

\* Such a run exists.
LEMMA Iterates ==
  ASSUME NEW n \in Nat, NEW S, NEW a \in S, NEW step, step \in [1..n -> [S -> S]]
  PROVE  \E f : IsRun(f, n, S, a, step)
<1> DEFINE Good(f, k) == f \in [0..k -> S] /\ f[0] = a /\ \A i \in 1..k : f[i] = step[i][f[i - 1]]
           T == {k \in 0..n : \E f : Good(f, k)}
<1>1. 0 \in T
  <2>1. Good([i \in 0..0 |-> a], 0)
    OBVIOUS
  <2> HIDE DEF Good
  <2>2. QED
    BY <2>1
<1>2. ASSUME NEW k \in 1..n, k - 1 \in T
      PROVE  k \in T
  <2>1. PICK f : Good(f, k - 1)
    BY <1>2
  <2> DEFINE g == [i \in 0..k |-> IF i = k THEN step[k][f[k - 1]] ELSE f[i]]
  <2>2. step[k] \in [S -> S] /\ f[k - 1] \in S
    BY <2>1
  <2>3. g \in [0..k -> S]
    BY <2>1, <2>2
  <2>4. g[0] = a
    BY <2>1
  <2>5. ASSUME NEW i \in 1..k
        PROVE  g[i] = step[i][g[i - 1]]
    <3>1. CASE i = k
      BY <3>1
    <3>2. CASE i # k
      BY <2>1, <3>2
    <3>3. QED
      BY <3>1, <3>2
  <2>6. Good(g, k)
    BY <2>3, <2>4, <2>5
  <2> HIDE DEF Good, g
  <2>7. QED
    BY <2>6
<1>3. n \in T
  <2> HIDE DEF T
  <2>1. 0..n \subseteq T
    BY <1>1, <1>2, IntervalSet
  <2>2. QED
    BY <2>1
<1>4. QED
  BY <1>3 DEF IsRun

\* A function that goes on as the steps do as long as it has the right values has
\* them and does.
LEMMA IteratesOn ==
  ASSUME NEW n \in Nat, NEW S, NEW step \in [1..n -> [S -> S]],
         NEW f, DOMAIN f = 0..n, f = [i \in DOMAIN f |-> f[i]], f[0] \in S,
         \A i \in 1..n : f[i - 1] \in S => f[i] = step[i][f[i - 1]]
  PROVE  f \in [0..n -> S] /\ \A i \in 1..n : f[i] = step[i][f[i - 1]]
<1> DEFINE T == {k \in 0..n : f[k] \in S}
<1>1. 0 \in T
  OBVIOUS
<1>2. ASSUME NEW k \in 1..n, k - 1 \in T
      PROVE  k \in T
  BY <1>2
<1>3. \A k \in 0..n : f[k] \in S
  <2> HIDE DEF T
  <2>1. 0..n \subseteq T
    BY <1>1, <1>2, IntervalSet
  <2>2. QED
    BY <2>1 DEF T
<1>4. QED
  BY <1>3

-----------------------------------------------------------------------------
(* The scanner. *)

\* What extractSingleJsonObject's loop keeps between two bytes.
ScanState == [depth : Int, inString : BOOLEAN, escaping : BOOLEAN]

\* A byte takes a state of the scanner to another.
LEMMA StepType ==
  ASSUME NEW s \in ScanState, NEW ch
  PROVE  Step(s, ch) \in ScanState
<1>1. s.depth \in Int /\ s.inString \in BOOLEAN /\ s.escaping \in BOOLEAN
  BY DEF ScanState
<1>2. Step(s, ch).depth \in Int
  <2> DEFINE d == IF s.inString THEN 0
                  ELSE IF ch = "lbrace" THEN 1 ELSE IF ch = "rbrace" THEN -1 ELSE 0
  <2>1. Step(s, ch).depth = s.depth + d
    BY Zenon DEF Step
  <2>2. d \in {0, 1, -1}
    BY Zenon
  <2> HIDE DEF d
  <2>3. s.depth + d \in Int
    BY <1>1, <2>2
  <2>4. QED
    BY <2>1, <2>3, Zenon
<1>3. Step(s, ch).inString \in BOOLEAN /\ Step(s, ch).escaping \in BOOLEAN
  BY <1>1, Zenon DEF Step
<1>4. Step(s, ch) = [depth |-> Step(s, ch).depth, inString |-> Step(s, ch).inString,
                     escaping |-> Step(s, ch).escaping]
  BY DEF Step
<1>5. QED
  BY <1>2, <1>3, <1>4 DEF ScanState

\* The scanner takes its steps one by one.
LEMMA ScanRuns ==
  ASSUME NEW text \in Seq(Byte)
  PROVE  /\ Scan(text) \in [0..Len(text) -> ScanState]
         /\ Scan(text)[0] = ScanStart
         /\ \A i \in 1..Len(text) : Scan(text)[i] = Step(Scan(text)[i - 1], text[i])
<1> DEFINE n == Len(text)
           step == [i \in 1..n |-> [s \in ScanState |-> Step(s, text[i])]]
           Is(f) == f = [i \in 0..n |-> IF i = 0 THEN ScanStart ELSE Step(f[i - 1], text[i])]
<1>1. n \in Nat
  OBVIOUS
<1>2. ScanStart \in ScanState /\ step \in [1..n -> [ScanState -> ScanState]]
  BY StepType DEF ScanStart, ScanState
<1>3. PICK f : IsRun(f, n, ScanState, ScanStart, step)
  BY <1>1, <1>2, Iterates
<1>4. Is(f)
  <2>1. ASSUME NEW i \in 1..n
        PROVE  f[i] = Step(f[i - 1], text[i])
    <3>1. f[i - 1] \in ScanState /\ f[i] = step[i][f[i - 1]]
      BY <1>1, <1>3 DEF IsRun
    <3>2. step[i] = [s \in ScanState |-> Step(s, text[i])]
      OBVIOUS
    <3> HIDE DEF step
    <3>3. QED
      BY <3>1, <3>2
  <2>2. QED
    BY <1>1, <1>3, <2>1 DEF IsRun
<1>5. Is(Scan(text))
  BY <1>4 DEF Scan
<1> DEFINE g == Scan(text)
<1> HIDE DEF g, step
<1>6. g = [i \in 0..n |-> IF i = 0 THEN ScanStart ELSE Step(g[i - 1], text[i])]
  BY <1>5 DEF g
<1>7. DOMAIN g = 0..n /\ g[0] = ScanStart /\ \A i \in 1..n : g[i] = Step(g[i - 1], text[i])
  BY <1>1, <1>6
<1>8. \A i \in 1..n : g[i - 1] \in ScanState => g[i] = step[i][g[i - 1]]
  BY <1>7 DEF step
<1>9. g \in [0..n -> ScanState]
  <2>1. g = [i \in DOMAIN g |-> g[i]]
    BY <1>6
  <2>2. QED
    BY <1>1, <1>2, <1>7, <1>8, <2>1, IteratesOn
<1>10. QED
  BY <1>7, <1>9 DEF g

\* What it makes of a text's beginning does not depend on the rest.
LEMMA ScanPrefix ==
  ASSUME NEW s \in Seq(Byte), NEW t \in Seq(Byte), NEW n \in Nat,
         n <= Len(s), n <= Len(t), \A i \in 1..n : s[i] = t[i]
  PROVE  \A i \in 0..n : Scan(s)[i] = Scan(t)[i]
<1> DEFINE T == {i \in 0..n : Scan(s)[i] = Scan(t)[i]}
<1>1. 0 \in T
  BY ScanRuns
<1>2. ASSUME NEW i \in 1..n, i - 1 \in T
      PROVE  i \in T
  <2>1. i \in 1..Len(s) /\ i \in 1..Len(t)
    OBVIOUS
  <2>2. QED
    BY <1>2, <2>1, ScanRuns
<1>3. 0..n \subseteq T
  <2> HIDE DEF T
  <2>1. QED
    BY <1>1, <1>2, IntervalSet
<1>4. QED
  BY <1>3

\* What a byte changes of the depth, in a string and outside.
Change(ch, quoted) ==
  IF quoted THEN 0 ELSE IF ch = "lbrace" THEN 1 ELSE IF ch = "rbrace" THEN -1 ELSE 0

\* A step, field by field.
LEMMA StepFields ==
  ASSUME NEW s, NEW ch, NEW v, v = Step(s, ch)
  PROVE  /\ v.depth = s.depth + Change(ch, s.inString)
         /\ v.inString <=> ((ch = "quote" /\ ~s.escaping) # s.inString)
         /\ v.escaping <=> (s.inString /\ ch = "backslash" /\ ~s.escaping)
<1>1. /\ Step(s, ch).depth = s.depth + Change(ch, s.inString)
      /\ Step(s, ch).inString <=> ((ch = "quote" /\ ~s.escaping) # s.inString)
      /\ Step(s, ch).escaping <=> (s.inString /\ ch = "backslash" /\ ~s.escaping)
  BY Zenon DEF Step, Change
<1>2. v.depth = Step(s, ch).depth /\ v.inString = Step(s, ch).inString
      /\ v.escaping = Step(s, ch).escaping
  OBVIOUS
<1>3. QED
  BY <1>1, <1>2, Zenon

\* Two truth values, by what is known of one.
LEMMA Differ ==
  ASSUME NEW a \in BOOLEAN, NEW b \in BOOLEAN
  PROVE  (a # b) <=> (a <=> ~b)
<1>1. (a = TRUE \/ a = FALSE) /\ (b = TRUE \/ b = FALSE)
  OBVIOUS
<1>2. QED
  BY <1>1, Zenon

\* The braces of one kind, those in strings not counted.
CountedTo(text, I, ch, i) == {j \in (1..i) \ I : text[j] = ch}

\* One byte more, and at most one brace more or less.
LEMMA UnclosedGrows ==
  ASSUME NEW text, NEW I
  PROVE  /\ Unclosed(text, I, 0) = 0
         /\ \A i \in Nat \ {0} :
              /\ Unclosed(text, I, i - 1) \in Int
              /\ Unclosed(text, I, i) = Unclosed(text, I, i - 1) + Change(text[i], i \in I)
<1>1. ASSUME NEW ch, NEW i \in Nat
      PROVE  /\ IsFiniteSet(CountedTo(text, I, ch, i))
             /\ Cardinality(CountedTo(text, I, ch, i)) \in Nat
  <2>1. IsFiniteSet(1..i) /\ CountedTo(text, I, ch, i) \in SUBSET (1..i)
    BY FS_Interval DEF CountedTo
  <2>2. QED
    BY <2>1, FS_Subset, FS_CardinalityType
<1>2. ASSUME NEW ch, NEW i \in Nat \ {0}
      PROVE  Cardinality(CountedTo(text, I, ch, i)) =
               Cardinality(CountedTo(text, I, ch, i - 1))
                 + (IF i \notin I /\ text[i] = ch THEN 1 ELSE 0)
  <2> DEFINE now == CountedTo(text, I, ch, i)
             before == CountedTo(text, I, ch, i - 1)
  <2>1. i - 1 \in Nat
    OBVIOUS
  <2>2. IsFiniteSet(before) /\ Cardinality(before) \in Nat
    BY <1>1, <2>1
  <2>3. i \notin before
    BY DEF CountedTo
  <2>4. CASE i \notin I /\ text[i] = ch
    <3>1. now = before \cup {i}
      BY <2>4 DEF CountedTo
    <3> HIDE DEF now, before
    <3>2. Cardinality(now) = Cardinality(before) + 1
      BY <2>2, <2>3, <3>1, FS_AddElement
    <3>3. QED
      BY <2>4, <3>2 DEF now, before
  <2>5. CASE ~(i \notin I /\ text[i] = ch)
    <3>1. now = before
      BY <2>5 DEF CountedTo
    <3> HIDE DEF now, before
    <3>2. Cardinality(now) = Cardinality(before) + 0
      BY <2>2, <3>1
    <3>3. QED
      BY <2>5, <3>2 DEF now, before
  <2>6. QED
    BY <2>4, <2>5
<1>3. \A i : Unclosed(text, I, i) =
               Cardinality(CountedTo(text, I, "lbrace", i)) - Cardinality(CountedTo(text, I, "rbrace", i))
  BY DEF Unclosed, CountedTo
<1>4. CountedTo(text, I, "lbrace", 0) = {} /\ CountedTo(text, I, "rbrace", 0) = {}
  BY DEF CountedTo
<1>5. Unclosed(text, I, 0) = 0
  <2>1. Unclosed(text, I, 0) = Cardinality({}) - Cardinality({})
    BY <1>3, <1>4
  <2>2. QED
    BY <2>1, FS_EmptySet
<1>6. ASSUME NEW i \in Nat \ {0}
      PROVE  /\ Unclosed(text, I, i - 1) \in Int
             /\ Unclosed(text, I, i) = Unclosed(text, I, i - 1) + Change(text[i], i \in I)
  <2> DEFINE u == Cardinality(CountedTo(text, I, "lbrace", i - 1))
             v == Cardinality(CountedTo(text, I, "rbrace", i - 1))
             p == Cardinality(CountedTo(text, I, "lbrace", i))
             q == Cardinality(CountedTo(text, I, "rbrace", i))
  <2>1. i \in Nat /\ i - 1 \in Nat
    OBVIOUS
  <2>2. u \in Nat /\ v \in Nat
    BY <1>1, <2>1
  <2>3. Unclosed(text, I, i - 1) = u - v /\ Unclosed(text, I, i) = p - q
    BY <1>3
  <2>4. /\ p = u + (IF i \notin I /\ text[i] = "lbrace" THEN 1 ELSE 0)
        /\ q = v + (IF i \notin I /\ text[i] = "rbrace" THEN 1 ELSE 0)
    BY <1>2
  <2> HIDE DEF u, v, p, q
  <2>5. CASE i \in I
    BY <2>2, <2>3, <2>4, <2>5 DEF Change
  <2>6. CASE i \notin I
    BY <2>2, <2>3, <2>4, <2>6 DEF Change
  <2>7. QED
    BY <2>5, <2>6
<1>7. QED
  BY <1>5, <1>6

\* The scanner agrees with the grammar.
Agrees(text, I, E, i) ==
  /\ Scan(text)[i].inString <=> i + 1 \in I
  /\ Scan(text)[i].escaping <=> i + 1 \in E

\* So it does after every byte of an object.
LEMMA ScanAgrees ==
  ASSUME NEW o \in Seq(Byte), NEW I \in SUBSET (2..Len(o)), NEW E \in SUBSET (2..Len(o)),
         \A i \in 1..(Len(o) - 1) :
            /\ (i \in I) # (i + 1 \in I) <=> o[i] = "quote" /\ i \notin E
            /\ i + 1 \in E <=> i \in I \ E /\ o[i] = "backslash"
  PROVE  /\ \A i \in 1..Len(o) : Scan(o)[i - 1].inString <=> i \in I
         /\ \A i \in 0..Len(o) : Scan(o)[i].depth = Unclosed(o, I, i)
<1>1. Len(o) \in Nat
  OBVIOUS
<1> DEFINE T == {i \in 0..(Len(o) - 1) : Agrees(o, I, E, i)}
<1>2. ASSUME Len(o) # 0
      PROVE  0 \in T
  <2>1. Scan(o)[0] = ScanStart /\ 0 + 1 \notin I /\ 0 + 1 \notin E /\ 0 \in 0..(Len(o) - 1)
    BY <1>1, <1>2, ScanRuns
  <2>2. Scan(o)[0].inString = FALSE /\ Scan(o)[0].escaping = FALSE
    BY <2>1 DEF ScanStart
  <2>3. QED
    BY <2>1, <2>2, Zenon DEF Agrees
<1>3. ASSUME NEW i \in 1..(Len(o) - 1), i - 1 \in T
      PROVE  i \in T
  <2> DEFINE s == Scan(o)[i - 1]
  <2>1. /\ i \in 0..(Len(o) - 1) /\ (i - 1) + 1 = i /\ i \in 1..Len(o)
    BY <1>1
  <2>2. Scan(o)[i] = Step(s, o[i])
    BY <2>1, ScanRuns
  <2>3. (s.inString <=> i \in I) /\ (s.escaping <=> i \in E)
    BY <1>3, <2>1, Zenon DEF Agrees
  <2>4. s.inString \in BOOLEAN /\ s.escaping \in BOOLEAN
    <3>1. s \in ScanState
      BY <1>1, ScanRuns
    <3>2. QED
      BY <3>1 DEF ScanState
  <2>5. /\ Scan(o)[i].inString <=> ((o[i] = "quote" /\ ~s.escaping) # s.inString)
        /\ Scan(o)[i].escaping <=> (s.inString /\ o[i] = "backslash" /\ ~s.escaping)
    BY <2>2, StepFields, Zenon
  <2> HIDE DEF s
  <2>6. Scan(o)[i].inString <=> i + 1 \in I
    <3>1. (i \in I) # (i + 1 \in I) <=> o[i] = "quote" /\ i \notin E
      OBVIOUS
    <3>2. ((i \in I) # (i + 1 \in I)) <=> ((i \in I) <=> ~(i + 1 \in I))
      BY Differ
    <3>3. ((o[i] = "quote" /\ ~s.escaping) # s.inString)
            <=> ((o[i] = "quote" /\ ~s.escaping) <=> ~s.inString)
      BY <2>4, Differ
    <3>4. QED
      BY <2>3, <2>5, <3>1, <3>2, <3>3, Zenon
  <2>7. Scan(o)[i].escaping <=> i + 1 \in E
    <3>1. i + 1 \in E <=> i \in I \ E /\ o[i] = "backslash"
      OBVIOUS
    <3>2. QED
      BY <2>3, <2>4, <2>5, <3>1, Zenon
  <2>8. QED
    BY <2>1, <2>6, <2>7 DEF Agrees
<1>4. ASSUME NEW i \in 1..Len(o)
      PROVE  Scan(o)[i - 1].inString <=> i \in I
  <2> HIDE DEF T
  <2>1. Len(o) - 1 \in Nat /\ i - 1 \in 0..(Len(o) - 1) /\ (i - 1) + 1 = i
    BY <1>1
  <2>2. 0..(Len(o) - 1) \subseteq T
    <3>1. 0 \in T
      BY <1>1, <1>2
    <3>2. QED
      BY <1>3, <2>1, <3>1, IntervalSet
  <2>3. i - 1 \in T
    BY <2>1, <2>2
  <2>4. QED
    BY <2>1, <2>3, Zenon DEF T, Agrees
<1> DEFINE D == {i \in 0..Len(o) : Scan(o)[i].depth = Unclosed(o, I, i)}
<1>5. 0 \in D
  BY ScanRuns, UnclosedGrows DEF ScanStart
<1>6. ASSUME NEW i \in 1..Len(o), i - 1 \in D
      PROVE  i \in D
  <2> DEFINE s == Scan(o)[i - 1]
  <2>1. Scan(o)[i] = Step(s, o[i])
    BY ScanRuns
  <2>2. Scan(o)[i].depth = s.depth + Change(o[i], s.inString)
    BY <2>1, StepFields
  <2>3. Change(o[i], s.inString) = Change(o[i], i \in I)
    BY <1>4, Zenon DEF Change
  <2>4. s.depth = Unclosed(o, I, i - 1)
    BY <1>6
  <2>5. i \in Nat \ {0} /\ i \in 0..Len(o)
    OBVIOUS
  <2> HIDE DEF s
  <2>6. Scan(o)[i].depth = Unclosed(o, I, i)
    <3>1. Unclosed(o, I, i) = Unclosed(o, I, i - 1) + Change(o[i], i \in I)
      BY <2>5, UnclosedGrows
    <3>2. QED
      BY <2>2, <2>3, <2>4, <3>1, Zenon
  <2>7. QED
    BY <2>5, <2>6
<1>7. 0..Len(o) \subseteq D
  <2> HIDE DEF D
  <2>1. QED
    BY <1>1, <1>5, <1>6, IntervalSet
<1>8. QED
  BY <1>4, <1>7

\* Where the scanner would stop.
Stops(text, i) == text[i] = "rbrace" /\ ~Scan(text)[i - 1].inString /\ Scan(text)[i].depth = 0

\* It stops at the end of an object and not before.
LEMMA ObjectStops ==
  ASSUME NEW o, IsObject(o)
  PROVE  /\ o \in Seq(Byte) /\ Len(o) \in Nat /\ Len(o) > 0 /\ o[1] = "lbrace"
         /\ \A i \in 1..Len(o) : Stops(o, i) <=> i = Len(o)
<1>1. o \in Seq(Byte) /\ Len(o) \in Nat /\ Len(o) > 0 /\ o[1] = "lbrace"
  <2>1. o \in Seq(Byte) /\ o # <<>> /\ o[1] = "lbrace"
    BY Zenon DEF IsObject
  <2>2. QED
    BY <2>1
<1>2. PICK I \in SUBSET (2..Len(o)), E \in SUBSET (2..Len(o)) :
        /\ \A i \in 1..(Len(o) - 1) :
              /\ (i \in I) # (i + 1 \in I) <=> o[i] = "quote" /\ i \notin E
              /\ i + 1 \in E <=> i \in I \ E /\ o[i] = "backslash"
        /\ \A i \in 1..Len(o) :
              /\ Unclosed(o, I, i) >= 0
              /\ Unclosed(o, I, i) = 0 <=> i = Len(o)
  BY Zenon DEF IsObject
<1>3. /\ \A i \in 1..Len(o) : Scan(o)[i - 1].inString <=> i \in I
      /\ \A i \in 0..Len(o) : Scan(o)[i].depth = Unclosed(o, I, i)
  BY <1>1, <1>2, ScanAgrees
<1>4. \A i \in 1..Len(o) : Scan(o)[i].depth = 0 <=> i = Len(o)
  <2>1. \A i \in 1..Len(o) : i \in 0..Len(o)
    BY <1>1
  <2>2. QED
    BY <1>2, <1>3, <2>1
<1>5. o[Len(o)] = "rbrace" /\ Len(o) \notin I
  <2> DEFINE n == Len(o)
  <2>1. n \in Nat \ {0} /\ n \in 1..n
    BY <1>1
  <2>2. Unclosed(o, I, n) = 0
    BY <1>2, <2>1
  <2>3. Unclosed(o, I, n - 1) \in Int
        /\ Unclosed(o, I, n) = Unclosed(o, I, n - 1) + Change(o[n], n \in I)
    BY <2>1, UnclosedGrows
  <2>4. CASE n = 1
    <3>1. Unclosed(o, I, n - 1) = 0 /\ n \notin I
      BY <2>4, UnclosedGrows
    <3>2. QED
      BY <1>1, <2>2, <2>3, <2>4, <3>1 DEF Change
  <2>5. CASE n # 1
    <3> HIDE DEF n
    <3>1. n - 1 \in 1..n /\ n - 1 # n
      BY <2>1, <2>5
    <3>2. Unclosed(o, I, n - 1) >= 0 /\ Unclosed(o, I, n - 1) # 0
      BY <1>2, <3>1 DEF n
    <3>3. o[n] = "rbrace" /\ n \notin I
      BY <2>2, <2>3, <3>2 DEF Change
    <3>4. QED
      BY <3>3 DEF n
  <2>6. QED
    BY <2>4, <2>5
<1>6. QED
  BY <1>1, <1>3, <1>4, <1>5, Zenon DEF Stops

\* The object that begins a text is found when it is all there, whatever follows.
LEMMA EndFound ==
  ASSUME NEW o, IsObject(o), NEW t \in Seq(Byte), Len(o) <= Len(t),
         \A i \in 1..Len(o) : t[i] = o[i]
  PROVE  EndOf(t) = Len(o)
<1>1. /\ o \in Seq(Byte) /\ Len(o) \in Nat /\ Len(o) > 0
      /\ \A i \in 1..Len(o) : Stops(o, i) <=> i = Len(o)
  BY ObjectStops
<1>2. \A i \in 0..Len(o) : Scan(t)[i] = Scan(o)[i]
  BY <1>1, ScanPrefix
<1>3. ASSUME NEW i \in 1..Len(o)
      PROVE  Stops(t, i) <=> i = Len(o)
  <2>1. i \in 0..Len(o) /\ i - 1 \in 0..Len(o)
    BY <1>1
  <2>2. Scan(t)[i] = Scan(o)[i] /\ Scan(t)[i - 1] = Scan(o)[i - 1] /\ t[i] = o[i]
    BY <1>2, <2>1
  <2>3. QED
    BY <1>1, <2>2, Zenon DEF Stops
<1> DEFINE ends == {i \in 1..Len(t) : Stops(t, i)}
<1>4. Len(o) \in ends /\ \A i \in ends : Len(o) <= i
  <2>1. Len(t) \in Nat
    OBVIOUS
  <2>2. Len(o) \in 1..Len(t) /\ Stops(t, Len(o))
    BY <1>1, <1>3, <2>1
  <2>3. ASSUME NEW i \in ends
        PROVE  Len(o) <= i
    BY <1>1, <1>3
  <2>4. QED
    BY <2>2, <2>3
<1>5. EndOf(t) = IF ends = {} THEN 0 ELSE Min(ends)
  BY Zenon DEF EndOf, Stops
<1>6. ends \in SUBSET Int
  OBVIOUS
<1> HIDE DEF ends
<1>7. Min(ends) = Len(o)
  <2>1. Min(ends) \in ends /\ \A i \in ends : Min(ends) <= i
    BY <1>4 DEF Min
  <2>2. Min(ends) \in Int /\ Len(o) \in Int /\ Min(ends) <= Len(o) /\ Len(o) <= Min(ends)
    BY <1>4, <1>6, <2>1
  <2>3. QED
    BY <2>2
<1>8. QED
  BY <1>4, <1>5, <1>7

\* It is not found before.
LEMMA EndNotFound ==
  ASSUME NEW o, IsObject(o), NEW t \in Seq(Byte), Len(t) < Len(o),
         \A i \in 1..Len(t) : t[i] = o[i]
  PROVE  EndOf(t) = 0
<1>1. /\ o \in Seq(Byte) /\ Len(o) \in Nat /\ Len(o) > 0 /\ Len(t) \in Nat
      /\ \A i \in 1..Len(o) : Stops(o, i) <=> i = Len(o)
  BY ObjectStops
<1>2. \A i \in 0..Len(t) : Scan(t)[i] = Scan(o)[i]
  BY <1>1, ScanPrefix
<1>3. ASSUME NEW i \in 1..Len(t)
      PROVE  ~Stops(t, i)
  <2>1. i \in 0..Len(t) /\ i - 1 \in 0..Len(t) /\ i \in 1..Len(o) /\ i # Len(o)
    BY <1>1
  <2>2. Scan(t)[i] = Scan(o)[i] /\ Scan(t)[i - 1] = Scan(o)[i - 1] /\ t[i] = o[i]
    BY <1>2, <2>1
  <2>3. QED
    BY <1>1, <2>1, <2>2, Zenon DEF Stops
<1>4. EndOf(t) = IF {i \in 1..Len(t) : Stops(t, i)} = {} THEN 0 ELSE Min({i \in 1..Len(t) : Stops(t, i)})
  BY Zenon DEF EndOf, Stops
<1>5. QED
  BY <1>3, <1>4

-----------------------------------------------------------------------------
(* Texts joined end to end. *)

\* What has been joined after each number of texts.
IsJoining(f, ss, S) ==
  /\ f \in [0..Len(ss) -> Seq(S)] /\ f[0] = <<>>
  /\ \A i \in 1..Len(ss) : f[i] = f[i - 1] \o ss[i]

\* There is such a row.
LEMMA Joining ==
  ASSUME NEW S, NEW ss \in Seq(Seq(S))
  PROVE  \E f : IsJoining(f, ss, S)
<1> DEFINE n == Len(ss)
           step == [i \in 1..n |-> [v \in Seq(S) |-> v \o ss[i]]]
<1>1. n \in Nat /\ <<>> \in Seq(S) /\ \A i \in 1..n : ss[i] \in Seq(S)
  OBVIOUS
<1>2. step \in [1..n -> [Seq(S) -> Seq(S)]]
  BY <1>1
<1>3. PICK f : IsRun(f, n, Seq(S), <<>>, step)
  BY <1>1, <1>2, Iterates
<1>4. ASSUME NEW i \in 1..n
      PROVE  f[i] = f[i - 1] \o ss[i]
  <2>1. f[i - 1] \in Seq(S) /\ f[i] = step[i][f[i - 1]]
    <3> HIDE DEF step, n
    <3>1. i - 1 \in 0..n
      BY <1>1
    <3>2. QED
      BY <1>1, <1>3, <3>1 DEF IsRun
  <2>2. step[i] = [v \in Seq(S) |-> v \o ss[i]]
    OBVIOUS
  <2> HIDE DEF step
  <2>3. QED
    BY <2>1, <2>2
<1>5. IsJoining(f, ss, S)
  BY <1>3, <1>4 DEF IsRun, IsJoining
<1>6. QED
  BY <1>5

\* The fold that FlattenSeq is yields its last.
LEMMA JoiningFlattens ==
  ASSUME NEW S, NEW ss \in Seq(Seq(S)), NEW f, IsJoining(f, ss, S)
  PROVE  FlattenSeq(ss) = f[Len(ss)]
<1> DEFINE n == Len(ss)
           Is(g) == g = [i \in 1..n |-> IF i = 1 THEN ss[i] ELSE g[i - 1] \o ss[i]]
           fl == CHOOSE g : Is(g)
<1>1. /\ n \in Nat /\ \A i \in 1..n : ss[i] \in Seq(S)
      /\ f \in [0..n -> Seq(S)] /\ f[0] = <<>>
      /\ \A i \in 1..n : f[i] = f[i - 1] \o ss[i]
  <2>1. n \in Nat /\ \A i \in 1..n : ss[i] \in Seq(S)
    OBVIOUS
  <2>2. QED
    BY <2>1, Zenon DEF IsJoining
<1>2. CASE n = 0
  <2>1. ss = <<>> /\ f[n] = <<>>
    BY <1>1, <1>2
  <2>2. QED
    BY <1>2, <2>1 DEF FlattenSeq
<1>3. CASE n # 0
  <2>1. FlattenSeq(ss) = fl[n]
    BY <1>3, Zenon DEF FlattenSeq
  <2>2. Is([i \in 1..n |-> f[i]])
    <3> DEFINE g == [i \in 1..n |-> f[i]]
    <3>1. ASSUME NEW i \in 1..n
          PROVE  g[i] = IF i = 1 THEN ss[i] ELSE g[i - 1] \o ss[i]
      <4>1. CASE i = 1
        <5>1. f[i] = f[i - 1] \o ss[i] /\ ss[i] \in Seq(S)
          BY <1>1, Zenon
        <5>2. i - 1 = 0
          BY <4>1
        <5>3. f[i] = f[i - 1] \o ss[i] /\ ss[i] \in Seq(S) /\ i - 1 = 0
          BY <5>1, <5>2
        <5>4. f[1] = <<>> \o ss[1] /\ ss[1] \in Seq(S)
          BY <1>1, <4>1, <5>3
        <5>5. <<>> \o ss[1] = ss[1]
          BY <5>4, ConcatEmptySeq
        <5>6. QED
          BY <4>1, <5>4, <5>5
      <4>2. CASE i # 1
        <5>1. i - 1 \in 1..n
          BY <1>1, <4>2
        <5>2. f[i] = f[i - 1] \o ss[i]
          BY <1>1
        <5>3. QED
          BY <4>2, <5>1, <5>2
      <4>3. QED
        BY <4>1, <4>2
    <3>2. QED
      BY <3>1
  <2>3. Is(fl)
    BY <2>2, Zenon
  <2> DEFINE T == {i \in 0..n : i = 0 \/ fl[i] = f[i]}
  <2>4. 0 \in T
    BY <1>1
  <2>5. ASSUME NEW i \in 1..n, i - 1 \in T
        PROVE  i \in T
    <3> HIDE DEF fl
    <3>1. fl[i] = IF i = 1 THEN ss[i] ELSE fl[i - 1] \o ss[i]
      BY <2>3
    <3>2. CASE i = 1
      <4>1. f[i] = f[i - 1] \o ss[i] /\ ss[i] \in Seq(S)
        BY <1>1, Zenon
      <4>2. i - 1 = 0
        BY <3>2
      <4>3. f[i] = f[i - 1] \o ss[i] /\ ss[i] \in Seq(S) /\ i - 1 = 0
        BY <4>1, <4>2
      <4>4. fl[i] = ss[i] /\ f[i] = <<>> \o ss[i] /\ ss[i] \in Seq(S)
        BY <1>1, <3>1, <3>2, <4>3
      <4>5. <<>> \o ss[i] = ss[i]
        BY <4>4, ConcatEmptySeq
      <4>6. QED
        BY <1>1, <4>4, <4>5
    <3>3. CASE i # 1
      <4>1. fl[i - 1] = f[i - 1]
        BY <2>5, <3>3
      <4>2. f[i] = f[i - 1] \o ss[i]
        BY <1>1
      <4>3. i \in 0..n
        BY <1>1
      <4>4. QED
        BY <3>1, <3>3, <4>1, <4>2, <4>3
    <3>4. QED
      BY <3>2, <3>3
  <2>6. 0..n \subseteq T
    <3> HIDE DEF T
    <3>1. QED
      BY <1>1, <2>4, <2>5, IntervalSet
  <2>7. fl[n] = f[n]
    <3>1. n \in 0..n
      BY <1>1
    <3>2. n \in T
      BY <2>6, <3>1, Zenon
    <3>3. QED
      BY <1>3, <3>2
  <2>8. QED
    BY <2>1, <2>7
<1>4. QED
  BY <1>2, <1>3

\* Joined texts are a text over the same bytes.
LEMMA FlattenType ==
  ASSUME NEW S, NEW ss \in Seq(Seq(S))
  PROVE  FlattenSeq(ss) \in Seq(S)
<1>1. PICK f : IsJoining(f, ss, S)
  BY Joining
<1>2. FlattenSeq(ss) = f[Len(ss)] /\ Len(ss) \in Nat
  BY <1>1, JoiningFlattens
<1>3. QED
  BY <1>1, <1>2 DEF IsJoining

\* No texts are the empty text.
LEMMA FlattenEmpty ==
  FlattenSeq(<<>>) = <<>>
BY DEF FlattenSeq

\* One more text is joined at the end.
LEMMA FlattenAppend ==
  ASSUME NEW S, NEW ss \in Seq(Seq(S)), NEW n \in 1..Len(ss)
  PROVE  FlattenSeq(SubSeq(ss, 1, n)) = FlattenSeq(SubSeq(ss, 1, n - 1)) \o ss[n]
<1>1. PICK f : IsJoining(f, ss, S)
  BY Joining
<1>2. ASSUME NEW m \in 0..Len(ss)
      PROVE  FlattenSeq(SubSeq(ss, 1, m)) = f[m]
  <2> DEFINE tt == SubSeq(ss, 1, m)
             g == [i \in 0..m |-> f[i]]
  <2>1. /\ m \in Nat /\ Len(ss) \in Nat /\ f \in [0..Len(ss) -> Seq(S)] /\ f[0] = <<>>
        /\ \A i \in 1..Len(ss) : f[i] = f[i - 1] \o ss[i]
    BY <1>1 DEF IsJoining
  <2>2. tt \in Seq(Seq(S)) /\ Len(tt) = m /\ \A i \in 1..m : tt[i] = ss[i]
    OBVIOUS
  <2> HIDE DEF tt
  <2>3. g \in [0..m -> Seq(S)] /\ g[0] = <<>>
    BY <2>1
  <2>4. ASSUME NEW i \in 1..m
        PROVE  g[i] = g[i - 1] \o tt[i]
    <3>1. i \in 0..m /\ i - 1 \in 0..m /\ i \in 1..Len(ss)
      BY <2>1
    <3>2. g[i] = f[i] /\ g[i - 1] = f[i - 1] /\ tt[i] = ss[i] /\ f[i] = f[i - 1] \o ss[i]
      BY <2>1, <2>2, <3>1
    <3>3. QED
      BY <3>2
  <2> HIDE DEF g
  <2>5. IsJoining(g, tt, S)
    BY <2>2, <2>3, <2>4 DEF IsJoining
  <2>6. FlattenSeq(tt) = g[m]
    BY <2>2, <2>5, JoiningFlattens
  <2>7. QED
    BY <2>1, <2>6 DEF tt, g
<1>3. n \in 0..Len(ss) /\ n - 1 \in 0..Len(ss)
  OBVIOUS
<1>4. f[n] = f[n - 1] \o ss[n]
  BY <1>1 DEF IsJoining
<1>5. QED
  BY <1>2, <1>3, <1>4

\* Two rows of texts.
LEMMA FlattenConcat ==
  ASSUME NEW S, NEW ss \in Seq(Seq(S)), NEW tt \in Seq(Seq(S))
  PROVE  FlattenSeq(ss \o tt) = FlattenSeq(ss) \o FlattenSeq(tt)
<1> DEFINE all == ss \o tt
           m == Len(ss)
           n == Len(tt)
           T == {k \in 0..n : FlattenSeq(SubSeq(all, 1, m + k))
                                = FlattenSeq(ss) \o FlattenSeq(SubSeq(tt, 1, k))}
<1>1. /\ m \in Nat /\ n \in Nat /\ all \in Seq(Seq(S)) /\ Len(all) = m + n
      /\ \A k \in 1..n : all[m + k] = tt[k]
  OBVIOUS
<1>2. /\ FlattenSeq(ss) \in Seq(S)
      /\ \A k \in 0..n : SubSeq(tt, 1, k) \in Seq(Seq(S)) /\ FlattenSeq(SubSeq(tt, 1, k)) \in Seq(S)
  <2>1. ASSUME NEW k \in 0..n
        PROVE  SubSeq(tt, 1, k) \in Seq(Seq(S))
    OBVIOUS
  <2>2. QED
    BY <2>1, FlattenType
<1>3. 0 \in T
  <2>1. SubSeq(all, 1, m + 0) = ss /\ SubSeq(tt, 1, 0) = <<>>
    OBVIOUS
  <2> HIDE DEF all
  <2>2. FlattenSeq(ss) \o <<>> = FlattenSeq(ss)
    BY <1>2, ConcatEmptySeq
  <2>3. 0 \in 0..n
    BY <1>1
  <2>4. QED
    BY <2>1, <2>2, <2>3, FlattenEmpty
<1>4. ASSUME NEW k \in 1..n, k - 1 \in T
      PROVE  k \in T
  <2> DEFINE x == FlattenSeq(SubSeq(tt, 1, k - 1))
             y == FlattenSeq(ss)
             z == tt[k]
  <2>1. m + k \in 1..Len(all) /\ (m + k) - 1 = m + (k - 1) /\ k - 1 \in 0..n /\ k \in 0..n
    BY <1>1
  <2>2. FlattenSeq(SubSeq(all, 1, m + k)) = FlattenSeq(SubSeq(all, 1, m + (k - 1))) \o z
    <3> HIDE DEF all
    <3>1. FlattenSeq(SubSeq(all, 1, m + k)) = FlattenSeq(SubSeq(all, 1, (m + k) - 1)) \o all[m + k]
      BY <1>1, <2>1, FlattenAppend
    <3>2. QED
      BY <1>1, <2>1, <3>1
  <2>3. FlattenSeq(SubSeq(tt, 1, k)) = x \o z
    BY FlattenAppend
  <2>4. FlattenSeq(SubSeq(all, 1, m + (k - 1))) = y \o x
    BY <1>4
  <2>5. x \in Seq(S) /\ y \in Seq(S) /\ z \in Seq(S)
    BY <1>2, <2>1
  <2>6. FlattenSeq(SubSeq(all, 1, m + k)) = y \o (x \o z)
    <3> HIDE DEF x, y, z, all, T, m, n
    <3>1. (y \o x) \o z = y \o (x \o z)
      BY <2>5, ConcatAssociative
    <3>2. QED
      BY <2>2, <2>4, <3>1
  <2>7. FlattenSeq(SubSeq(all, 1, m + k)) = FlattenSeq(ss) \o FlattenSeq(SubSeq(tt, 1, k))
    <3> HIDE DEF x, all
    <3>1. QED
      BY <2>3, <2>6
  <2>8. QED
    BY <2>1, <2>7
<1>5. 0..n \subseteq T
  <2> HIDE DEF T
  <2>1. QED
    BY <1>1, <1>3, <1>4, IntervalSet
<1>6. n \in T
  <2>1. n \in 0..n
    BY <1>1
  <2>2. QED
    BY <1>5, <2>1, Zenon
<1>7. SubSeq(all, 1, m + n) = all /\ SubSeq(tt, 1, n) = tt
  <2> HIDE DEF all
  <2>1. QED
    BY <1>1, SubSeqFull
<1>8. QED
  BY <1>6, <1>7

\* Nothing comes of empty texts.
LEMMA FlattenNothing ==
  ASSUME NEW ss \in Seq({<<>>})
  PROVE  FlattenSeq(ss) = <<>>
<1>1. {<<>>} \subseteq Seq({})
  BY EmptySeq
<1>2. ss \in Seq(Seq({}))
  BY <1>1, SeqMonotonic
<1>3. FlattenSeq(ss) \in Seq({})
  BY <1>2, FlattenType
<1>4. QED
  BY <1>3

-----------------------------------------------------------------------------
(* The next request of a buffer. *)

\* Min is what its name says.
LEMMA HasLeast ==
  ASSUME NEW S \in SUBSET Nat, S # {}
  PROVE  Min(S) \in S /\ \A y \in S : Min(S) <= y
<1>1. PICK x \in S : \A y \in S : ~(<<y, x>> \in OpToRel(<, Nat))
  BY NatLessThanWellFounded, WFMin
<1>2. ASSUME NEW y \in S
      PROVE  x <= y
  <2>1. x \in Nat /\ y \in Nat
    OBVIOUS
  <2>2. ~(y < x)
    BY <1>1, <2>1 DEF OpToRel
  <2>3. QED
    BY <2>1, <2>2
<1>3. QED
  BY <1>2 DEF Min

\* What is before FirstOf is blank, and what is there is not.
LEMMA FirstOfIs ==
  ASSUME NEW t \in Seq(Byte)
  PROVE  /\ FirstOf(t) \in 1..(Len(t) + 1)
         /\ \A i \in 1..(FirstOf(t) - 1) : t[i] = "space"
         /\ FirstOf(t) <= Len(t) => t[FirstOf(t)] # "space"
<1> DEFINE S == {i \in 1..Len(t) : t[i] # "space"} \cup {Len(t) + 1}
<1>1. Len(t) \in Nat
  OBVIOUS
<1>2. S \in SUBSET Nat /\ S # {} /\ S \subseteq 1..(Len(t) + 1)
  BY <1>1
<1>3. FirstOf(t) = Min(S)
  BY DEF FirstOf
<1>4. Min(S) \in S /\ \A y \in S : Min(S) <= y
  <2> HIDE DEF S
  <2>1. QED
    BY <1>2, HasLeast
<1>5. FirstOf(t) \in S /\ \A y \in S : FirstOf(t) <= y
  BY <1>3, <1>4
<1>6. QED
  BY <1>1, <1>5

\* EndOf is the first place the scanner would stop.
LEMMA EndOfIs ==
  ASSUME NEW t \in Seq(Byte)
  PROVE  EndOf(t) \in 0..Len(t)
<1> DEFINE ends == {i \in 1..Len(t) : Stops(t, i)}
<1>1. EndOf(t) = IF ends = {} THEN 0 ELSE Min(ends)
  BY Zenon DEF EndOf, Stops
<1>2. Len(t) \in Nat /\ ends \in SUBSET Nat /\ ends \subseteq 1..Len(t)
  OBVIOUS
<1> HIDE DEF ends
<1>3. CASE ends = {}
  BY <1>1, <1>2, <1>3
<1>4. CASE ends # {}
  <2>1. Min(ends) \in ends
    BY <1>2, <1>4, HasLeast
  <2>2. EndOf(t) \in 1..Len(t)
    BY <1>1, <1>2, <1>4, <2>1
  <2>3. QED
    BY <1>2, <2>2
<1>5. QED
  BY <1>3, <1>4

\* What is left of a buffer when the blanks that begin it are gone.
Rest(t) == SubSeq(t, FirstOf(t), Len(t))

\* The four ways out of extractSingleJsonObject.
AllBlank(t) ==
  /\ FirstOf(t) = Len(t) + 1
  /\ Extract(t) = [found |-> FALSE, text |-> <<>>, rest |-> <<>>]
NoObject(t) ==
  /\ FirstOf(t) <= Len(t) /\ t[FirstOf(t)] # "lbrace"
  /\ Extract(t) = [found |-> TRUE, text |-> Rest(t), rest |-> <<>>]
Unfinished(t) ==
  /\ FirstOf(t) <= Len(t) /\ t[FirstOf(t)] = "lbrace" /\ EndOf(Rest(t)) = 0
  /\ Extract(t) = [found |-> FALSE, text |-> <<>>, rest |-> t]
Finished(t, e) ==
  /\ FirstOf(t) <= Len(t) /\ t[FirstOf(t)] = "lbrace"
  /\ EndOf(Rest(t)) = e /\ e > 0 /\ FirstOf(t) + e <= Len(t) + 1
  /\ Extract(t) = [found |-> TRUE,
                   text  |-> SubSeq(t, FirstOf(t), FirstOf(t) + e - 1),
                   rest  |-> SubSeq(t, FirstOf(t) + e, Len(t))]

\* There is no fifth.
LEMMA ExtractCases ==
  ASSUME NEW t \in Seq(Byte)
  PROVE  \/ AllBlank(t)
         \/ NoObject(t)
         \/ Unfinished(t)
         \/ \E e \in Nat : Finished(t, e)
<1> DEFINE f == FirstOf(t)
           x == Rest(t)
           e == EndOf(x)
<1>1. Len(t) \in Nat /\ f \in 1..(Len(t) + 1)
  BY FirstOfIs
<1>2. /\ x \in Seq(Byte) /\ Len(x) = Len(t) - f + 1
      /\ f <= Len(t) => Head(x) = t[f]
  <2> HIDE DEF f
  <2>1. x = SubSeq(t, f, Len(t))
    BY DEF Rest, f
  <2>2. QED
    BY <1>1, <2>1
<1>3. e \in 0..Len(x)
  BY <1>2, EndOfIs
<1>4. Extract(t) =
        IF x = <<>> THEN [found |-> FALSE, text |-> <<>>, rest |-> <<>>]
        ELSE IF Head(x) # "lbrace" THEN [found |-> TRUE, text |-> x, rest |-> <<>>]
        ELSE IF e = 0 THEN [found |-> FALSE, text |-> <<>>, rest |-> t]
        ELSE [found |-> TRUE, text |-> SubSeq(x, 1, e), rest |-> SubSeq(x, e + 1, Len(x))]
  BY Zenon DEF Extract, Rest
<1>5. x = <<>> <=> f = Len(t) + 1
  <2> HIDE DEF x, f
  <2>1. QED
    BY <1>1, <1>2
<1>6. CASE f = Len(t) + 1
  BY <1>4, <1>5, <1>6, Zenon DEF AllBlank
<1>7. CASE f # Len(t) + 1
  <2>1. f <= Len(t) /\ x # <<>> /\ Head(x) = t[f]
    <3> HIDE DEF x, f
    <3>1. QED
      BY <1>1, <1>2, <1>5, <1>7
  <2>2. CASE t[f] # "lbrace"
    BY <1>4, <2>1, <2>2, Zenon DEF NoObject
  <2>3. CASE t[f] = "lbrace" /\ e = 0
    BY <1>4, <2>1, <2>3, Zenon DEF Unfinished
  <2>4. CASE t[f] = "lbrace" /\ e # 0
    <3>1. e \in Nat /\ e > 0 /\ f + e <= Len(t) + 1
      <4> HIDE DEF e, f, x
      <4>1. QED
        BY <1>1, <1>2, <1>3, <2>4
    <3>2. SubSeq(x, 1, e) = SubSeq(t, f, f + e - 1) /\ SubSeq(x, e + 1, Len(x)) = SubSeq(t, f + e, Len(t))
      <4>1. x = SubSeq(t, f, Len(t))
        BY DEF Rest
      <4> HIDE DEF e, f, x
      <4>2. SubSeq(x, 1, e) = SubSeq(t, f, f + e - 1)
        BY <1>1, <1>2, <2>1, <3>1, <4>1
      <4>3. SubSeq(x, e + 1, Len(x)) = SubSeq(t, f + e, Len(t))
        BY <1>1, <1>2, <2>1, <3>1, <4>1
      <4>4. QED
        BY <4>2, <4>3
    <3>3. Extract(t) = [found |-> TRUE, text |-> SubSeq(t, f, f + e - 1), rest |-> SubSeq(t, f + e, Len(t))]
      BY <1>4, <2>1, <2>4, <3>2, Zenon
    <3>4. Finished(t, e)
      BY <2>1, <2>4, <3>1, <3>3, Zenon DEF Finished
    <3> HIDE DEF e
    <3>5. QED
      BY <3>1, <3>4
  <2>5. QED
    BY <2>2, <2>3, <2>4
<1>8. QED
  BY <1>6, <1>7

-----------------------------------------------------------------------------
(* Blanks. *)

\* What Solid leaves of a byte, and of each byte of a text.
SolidPart(ch) == IF ch = "space" THEN <<>> ELSE <<ch>>
SolidParts(t) == [i \in 1..Len(t) |-> SolidPart(t[i])]

\* Solid, by these.
LEMMA SolidIs ==
  ASSUME NEW t \in Seq(Byte)
  PROVE  /\ SolidParts(t) \in Seq(Seq(Byte)) /\ Len(SolidParts(t)) = Len(t)
         /\ \A i \in 1..Len(t) : SolidParts(t)[i] = SolidPart(t[i])
         /\ Solid(t) = FlattenSeq(SolidParts(t))
         /\ Solid(t) \in Seq(Byte)
<1>1. Len(t) \in Nat /\ \A i \in 1..Len(t) : t[i] \in Byte
  OBVIOUS
<1>2. \A i \in 1..Len(t) : SolidPart(t[i]) \in Seq(Byte)
  BY <1>1 DEF SolidPart
<1>3. SolidParts(t) \in [1..Len(t) -> Seq(Byte)]
  BY <1>2 DEF SolidParts
<1>4. SolidParts(t) \in Seq(Seq(Byte)) /\ Len(SolidParts(t)) = Len(t)
  BY <1>1, <1>3
<1>5. Solid(t) = FlattenSeq(SolidParts(t))
  BY Zenon DEF Solid, SolidParts, SolidPart
<1>6. Solid(t) \in Seq(Byte)
  BY <1>4, <1>5, FlattenType
<1>7. \A i \in 1..Len(t) : SolidParts(t)[i] = SolidPart(t[i])
  BY DEF SolidParts
<1>8. QED
  BY <1>4, <1>5, <1>6, <1>7

\* Two texts lose their blanks one by one.
LEMMA SolidConcat ==
  ASSUME NEW s \in Seq(Byte), NEW t \in Seq(Byte)
  PROVE  Solid(s \o t) = Solid(s) \o Solid(t)
<1> DEFINE a == SolidParts(s)
           b == SolidParts(t)
           c == SolidParts(s \o t)
<1>1. /\ a \in Seq(Seq(Byte)) /\ Len(a) = Len(s) /\ \A i \in 1..Len(s) : a[i] = SolidPart(s[i])
      /\ b \in Seq(Seq(Byte)) /\ Len(b) = Len(t) /\ \A i \in 1..Len(t) : b[i] = SolidPart(t[i])
  BY SolidIs
<1>2. /\ s \o t \in Seq(Byte) /\ Len(s \o t) = Len(s) + Len(t)
      /\ Len(s) \in Nat /\ Len(t) \in Nat
      /\ \A i \in 1..Len(s) : (s \o t)[i] = s[i]
      /\ \A i \in 1..Len(t) : (s \o t)[Len(s) + i] = t[i]
  OBVIOUS
<1>3. c \in Seq(Seq(Byte)) /\ Len(c) = Len(s \o t)
      /\ \A i \in 1..Len(s \o t) : c[i] = SolidPart((s \o t)[i])
  BY <1>2, SolidIs
<1> HIDE DEF a, b, c
<1>4. /\ a \o b \in Seq(Seq(Byte)) /\ Len(a \o b) = Len(s) + Len(t)
      /\ \A i \in 1..Len(s) : (a \o b)[i] = a[i]
      /\ \A i \in 1..Len(t) : (a \o b)[Len(s) + i] = b[i]
  <2>1. /\ a \o b \in Seq(Seq(Byte)) /\ Len(a \o b) = Len(s) + Len(t)
        /\ \A i \in 1..(Len(s) + Len(t)) :
             (a \o b)[i] = IF i <= Len(s) THEN a[i] ELSE b[i - Len(s)]
    <3>1. a \in Seq(Seq(Byte)) /\ b \in Seq(Seq(Byte))
      BY <1>1
    <3>2. /\ a \o b \in Seq(Seq(Byte)) /\ Len(a \o b) = Len(a) + Len(b)
          /\ \A i \in 1..(Len(a) + Len(b)) :
               (a \o b)[i] = IF i <= Len(a) THEN a[i] ELSE b[i - Len(a)]
      BY <3>1, ConcatProperties, Zenon
    <3>3. Len(a) = Len(s) /\ Len(b) = Len(t)
      BY <1>1
    <3>4. QED
      BY <3>2, <3>3, Zenon
  <2>2. ASSUME NEW i \in 1..Len(s)
        PROVE  (a \o b)[i] = a[i]
    BY <1>2, <2>1
  <2>3. ASSUME NEW i \in 1..Len(t)
        PROVE  (a \o b)[Len(s) + i] = b[i]
    <3>1. Len(s) + i \in 1..(Len(s) + Len(t)) /\ ~(Len(s) + i <= Len(s)) /\ (Len(s) + i) - Len(s) = i
      BY <1>2
    <3>2. QED
      BY <2>1, <3>1
  <2>4. QED
    BY <2>1, <2>2, <2>3
<1>5. ASSUME NEW i \in 1..Len(c)
      PROVE  c[i] = (a \o b)[i]
  <2>1. CASE i <= Len(s)
    <3>1. i \in 1..Len(s) /\ c[i] = SolidPart((s \o t)[i])
      BY <1>2, <1>3, <2>1
    <3>2. QED
      BY <1>1, <1>2, <1>4, <3>1
  <2>2. CASE i > Len(s)
    <3> DEFINE j == i - Len(s)
    <3>1. j \in 1..Len(t) /\ i = Len(s) + j /\ c[i] = SolidPart((s \o t)[i])
      BY <1>2, <1>3, <2>2
    <3> HIDE DEF j
    <3>2. (s \o t)[i] = t[j] /\ (a \o b)[i] = b[j] /\ b[j] = SolidPart(t[j])
      BY <1>1, <1>2, <1>4, <3>1
    <3>3. QED
      BY <3>1, <3>2
  <2>3. i <= Len(s) \/ i > Len(s)
    BY <1>2, <1>3
  <2>4. QED
    BY <2>1, <2>2, <2>3
<1>6. c = a \o b
  BY <1>2, <1>3, <1>4, <1>5, SeqEqual
<1>7. FlattenSeq(c) = FlattenSeq(a) \o FlattenSeq(b)
  BY <1>1, <1>6, FlattenConcat
<1>8. QED
  BY <1>2, <1>7, SolidIs DEF a, b, c

\* Nothing is left of blanks.
LEMMA SolidBlank ==
  ASSUME NEW t \in Seq(Byte), \A i \in 1..Len(t) : t[i] = "space"
  PROVE  Solid(t) = <<>>
<1>1. SolidParts(t) \in [1..Len(t) -> {<<>>}]
  BY DEF SolidParts, SolidPart
<1>2. SolidParts(t) \in Seq({<<>>})
  BY <1>1
<1>3. QED
  BY <1>2, FlattenNothing, SolidIs

\* A finished request, field by field.
LEMMA FinishedIs ==
  ASSUME NEW t, NEW e, Finished(t, e)
  PROVE  /\ Extract(t).found = TRUE
         /\ Extract(t).text = SubSeq(t, FirstOf(t), FirstOf(t) + e - 1)
         /\ Extract(t).rest = SubSeq(t, FirstOf(t) + e, Len(t))
         /\ e > 0 /\ FirstOf(t) + e <= Len(t) + 1
<1> DEFINE x == SubSeq(t, FirstOf(t), FirstOf(t) + e - 1)
           y == SubSeq(t, FirstOf(t) + e, Len(t))
<1>1. Extract(t) = [found |-> TRUE, text |-> x, rest |-> y]
      /\ e > 0 /\ FirstOf(t) + e <= Len(t) + 1
  BY Zenon DEF Finished
<1> HIDE DEF x, y
<1>2. Extract(t).found = TRUE /\ Extract(t).text = x /\ Extract(t).rest = y
  BY <1>1
<1>3. QED
  BY <1>1, <1>2, Zenon DEF x, y

\* Between a request and the rest of its buffer only blanks are lost.
LEMMA ExtractKeeps ==
  ASSUME NEW t \in Seq(Byte)
  PROVE  /\ Extract(t).found \in BOOLEAN
         /\ Extract(t).text \in Seq(Byte) /\ Extract(t).rest \in Seq(Byte)
         /\ Extract(t).found = FALSE => Extract(t).text = <<>>
         /\ Solid(t) = Solid(Extract(t).text) \o Solid(Extract(t).rest)
<1> DEFINE f == FirstOf(t)
           n == Len(t)
           r == Rest(t)
           x == Extract(t).text
           y == Extract(t).rest
<1>1. /\ n \in Nat /\ f \in 1..(n + 1) /\ \A i \in 1..(f - 1) : t[i] = "space"
      /\ <<>> \in Seq(Byte)
  BY FirstOfIs
<1>2. r = SubSeq(t, f, n)
  BY DEF Rest
<1>3. Solid(<<>>) = <<>>
  <2>1. <<>> \in Seq(Byte) /\ Len(<<>>) = 0
    OBVIOUS
  <2>2. \A i \in 1..Len(<<>>) : <<>>[i] = "space"
    BY <2>1
  <2>3. QED
    BY <2>1, <2>2, SolidBlank
<1>4. Solid(t) \in Seq(Byte)
  BY SolidIs
<1>5. Solid(t) = Solid(r)
  <2> DEFINE w == SubSeq(t, 1, f - 1)
  <2> HIDE DEF f, n, r
  <2>1. w \in Seq(Byte) /\ r \in Seq(Byte) /\ \A i \in 1..Len(w) : w[i] = "space"
    BY <1>1, <1>2 DEF n
  <2>2. t = w \o r
    <3> DEFINE k == f - 1
    <3>1. k \in (1 - 1)..Len(t) /\ n \in k..Len(t) /\ 1 \in 1..(Len(t) + 1) /\ k + 1 = f /\ n = Len(t)
      BY <1>1 DEF n
    <3> HIDE DEF k
    <3>2. SubSeq(t, 1, k) \o SubSeq(t, k + 1, n) = SubSeq(t, 1, n)
      BY <3>1, ConcatAdjacentSubSeq
    <3>3. SubSeq(t, 1, n) = t
      BY <3>1, SubSeqFull
    <3>4. QED
      BY <1>2, <3>1, <3>2, <3>3 DEF k
  <2>3. Solid(w) = <<>> /\ Solid(r) \in Seq(Byte)
    BY <2>1, SolidBlank, SolidIs
  <2> HIDE DEF w
  <2>4. Solid(w \o r) = Solid(w) \o Solid(r)
    BY <2>1, SolidConcat
  <2>5. <<>> \o Solid(r) = Solid(r)
    BY <2>3, ConcatEmptySeq
  <2>6. QED
    BY <2>2, <2>3, <2>4, <2>5
<1>6. Solid(t) \o <<>> = Solid(t) /\ <<>> \o Solid(t) = Solid(t)
  BY <1>4, ConcatEmptySeq
<1>7. r \in Seq(Byte)
  <2> HIDE DEF f, n, r
  <2>1. QED
    BY <1>1, <1>2 DEF n
<1>8. CASE AllBlank(t)
  <2>1. Extract(t).found = FALSE /\ x = <<>> /\ y = <<>>
    BY <1>8 DEF AllBlank
  <2>2. r = <<>>
    BY <1>1, <1>2, <1>8 DEF AllBlank
  <2>3. QED
    BY <1>1, <1>3, <1>5, <1>6, <2>1, <2>2
<1>9. CASE NoObject(t)
  <2>1. Extract(t).found = TRUE /\ x = r /\ y = <<>>
    BY <1>9 DEF NoObject
  <2>2. QED
    BY <1>1, <1>3, <1>5, <1>6, <1>7, <2>1
<1>10. CASE Unfinished(t)
  <2>1. Extract(t).found = FALSE /\ x = <<>> /\ y = t
    BY <1>10 DEF Unfinished
  <2>2. QED
    BY <1>1, <1>3, <1>6, <2>1
<1>11. CASE \E e \in Nat : Finished(t, e)
  <2>1. PICK e \in Nat : Finished(t, e)
    BY <1>11
  <2>2. /\ Extract(t).found = TRUE /\ x = SubSeq(t, f, f + e - 1) /\ y = SubSeq(t, f + e, n)
        /\ e > 0 /\ f + e <= n + 1
    BY <2>1, FinishedIs, Zenon
  <2> HIDE DEF f, n, r, x, y
  <2>3. x \in Seq(Byte) /\ y \in Seq(Byte)
    BY <1>1, <2>2 DEF n
  <2> DEFINE k == f + e - 1
  <2>4. k \in (f - 1)..n /\ k + 1 = f + e /\ f \in 1..(n + 1) /\ n = Len(t) /\ n \in k..n
    BY <1>1, <2>2 DEF n
  <2>5. r = x \o y
    <3> HIDE DEF k
    <3>1. SubSeq(t, f, k) \o SubSeq(t, k + 1, n) = SubSeq(t, f, n)
      BY <2>4, ConcatAdjacentSubSeq
    <3>2. QED
      BY <1>2, <2>2, <2>4, <3>1 DEF k
  <2>6. Solid(r) = Solid(x) \o Solid(y)
    BY <2>3, <2>5, SolidConcat
  <2>7. QED
    BY <1>5, <2>2, <2>3, <2>6 DEF x, y
<1>12. QED
  BY <1>8, <1>9, <1>10, <1>11, ExtractCases

-----------------------------------------------------------------------------
(* Types *)

\* Pieces are texts with a first byte.
LEMMA PieceType ==
  ASSUME NEW p \in Pieces
  PROVE  p \in Seq(Byte) /\ Len(p) \in Nat /\ Len(p) > 0
<1>1. CASE p \in Objects
  <2>1. IsObject(p)
    BY <1>1, FramingAssumption
  <2>2. QED
    BY <2>1, ObjectStops
<1>2. CASE p \in Junk
  <2>1. p \in Seq(Byte) /\ p # <<>>
    BY <1>2, FramingAssumption
  <2>2. QED
    BY <2>1
<1>3. CASE p = Blank
  BY <1>3 DEF Blank, Byte
<1>4. QED
  BY <1>1, <1>2, <1>3 DEF Pieces

\* So is what a client may write, which has the fields its type wants.
LEMMA StreamType ==
  ASSUME NEW s \in Streams
  PROVE  /\ Len(s) \in Nat /\ \A k \in 1..Len(s) : s[k] \in Pieces
         /\ s \in Seq(Seq(Byte)) /\ FlattenSeq(s) \in Seq(Byte) /\ Len(FlattenSeq(s)) \in Nat
<1>1. PICK m \in 0..MaxPieces : s \in [1..m -> Pieces]
  BY DEF Streams, SeqOf
<1>2. m \in Nat
  BY FramingAssumption
<1>3. s \in Seq(Pieces) /\ Len(s) \in Nat /\ \A k \in 1..Len(s) : s[k] \in Pieces
  BY <1>1, <1>2
<1>4. Pieces \subseteq Seq(Byte)
  BY PieceType
<1>5. s \in Seq(Seq(Byte))
  BY <1>3, <1>4, SeqMonotonic
<1>6. FlattenSeq(s) \in Seq(Byte)
  BY <1>5, FlattenType
<1>7. QED
  BY <1>3, <1>5, <1>6

\* What Extract yields are texts.
LEMMA ExtractType ==
  ASSUME NEW t \in Seq(Byte)
  PROVE  Extract(t).text \in Seq(Byte) /\ Extract(t).rest \in Seq(Byte)
BY ExtractKeeps

\* The types of a connection's variables.
LEMMA WrittenType ==
  ASSUME TypeOK, NEW b \in Bevs
  PROVE  /\ stream[b] \in Streams /\ Written(b) = FlattenSeq(stream[b])
         /\ Written(b) \in Seq(Byte) /\ Len(Written(b)) \in Nat
         /\ arrived[b] \in Nat /\ arrived[b] <= Len(Written(b))
         /\ connectionBuffers[b] \in Seq(Byte) /\ requests[b] \in Seq(Seq(Byte))
         /\ Len(requests[b]) \in Nat
         /\ mark[b] \in [at : Nat, after : Nat]
         /\ mark[b].at <= arrived[b] /\ mark[b].after <= Len(requests[b])
<1>1. /\ stream[b] \in Streams /\ arrived[b] \in Nat /\ arrived[b] <= Len(Written(b))
      /\ connectionBuffers[b] \in Seq(Byte) /\ requests[b] \in Seq(Seq(Byte))
      /\ mark[b] \in [at : Nat, after : Nat]
      /\ mark[b].at <= arrived[b] /\ mark[b].after <= Len(requests[b])
  BY DEF TypeOK
<1>2. Written(b) = FlattenSeq(stream[b])
  BY DEF Written
<1>3. Written(b) \in Seq(Byte) /\ Len(Written(b)) \in Nat
  BY <1>1, <1>2, StreamType
<1>4. Len(requests[b]) \in Nat
  BY <1>1
<1>5. QED
  BY <1>1, <1>2, <1>3, <1>4

\* The types hold at first.
LEMMA TypeInit == Init => TypeOK
<1> SUFFICES ASSUME Init PROVE TypeOK
  OBVIOUS
<1>1. <<>> \in Streams
  BY FramingAssumption DEF Streams, SeqOf
<1>2. /\ open = {} /\ serving = NoBev /\ accepts = 0
      /\ connectionBuffers = [b \in Bevs |-> <<>>] /\ stream = [b \in Bevs |-> <<>>]
      /\ arrived = [b \in Bevs |-> 0] /\ requests = [b \in Bevs |-> <<>>]
      /\ mark = [b \in Bevs |-> Start]
  BY DEF Init
<1>3. accepts \in 0..MaxAccepts
  BY <1>2, FramingAssumption
<1>4. mark \in [Bevs -> [at : Nat, after : Nat]]
  BY <1>2 DEF Start
<1>5. stream \in [Bevs -> Streams]
  BY <1>1, <1>2
<1>6. ASSUME NEW b \in Bevs
      PROVE  /\ arrived[b] <= Len(Written(b))
             /\ mark[b].at <= arrived[b] /\ mark[b].after <= Len(requests[b])
  <2>1. stream[b] \in Streams /\ arrived[b] = 0 /\ mark[b] = Start /\ requests[b] = <<>>
    BY <1>2, <1>5
  <2>2. Len(Written(b)) \in Nat
    BY <2>1, StreamType DEF Written
  <2>3. QED
    BY <2>1, <2>2 DEF Start
<1>7. QED
  BY <1>2, <1>3, <1>4, <1>5, <1>6 DEF TypeOK

\* A step of a connection keeps them.
LEMMA TypeNext == TypeOK /\ [Next]_vars => TypeOK'
<1> SUFFICES ASSUME TypeOK, [Next]_vars PROVE TypeOK'
  OBVIOUS
<1>1. /\ open \subseteq Bevs /\ serving \in open \cup {NoBev}
      /\ accepts \in 0..MaxAccepts
      /\ connectionBuffers \in [Bevs -> Seq(Byte)] /\ stream \in [Bevs -> Streams]
      /\ arrived \in [Bevs -> Nat] /\ requests \in [Bevs -> Seq(Seq(Byte))]
      /\ mark \in [Bevs -> [at : Nat, after : Nat]]
  BY DEF TypeOK
<1> DEFINE Counts(c) ==
      /\ arrived[c] <= Len(Written(c))
      /\ mark[c].at <= arrived[c] /\ mark[c].after <= Len(requests[c])
<1>2. \A c \in Bevs : Counts(c)
  BY DEF TypeOK
<1>3. \A c : Written(c) = FlattenSeq(stream[c]) /\ Written(c)' = FlattenSeq(stream'[c])
  BY DEF Written
<1>4. ASSUME NEW b \in Bevs, Accept(b)
      PROVE  TypeOK'
  <2>1. PICK s \in Streams : stream' = [stream EXCEPT ![b] = s]
    BY <1>4 DEF Accept
  <2>2. /\ serving' = serving /\ connectionBuffers' = connectionBuffers
        /\ open' = open \cup {b} /\ accepts < MaxAccepts /\ accepts' = accepts + 1
        /\ arrived' = [arrived EXCEPT ![b] = 0] /\ requests' = [requests EXCEPT ![b] = <<>>]
        /\ mark' = [mark EXCEPT ![b] = Start]
    BY <1>4 DEF Accept
  <2>3. ASSUME NEW c \in Bevs
        PROVE  Counts(c)'
    <3>1. CASE c = b
      <4>1. stream'[b] \in Streams /\ arrived'[b] = 0 /\ requests'[b] = <<>> /\ mark'[b] = Start
        BY <1>1, <2>1, <2>2
      <4>2. Len(Written(b)') \in Nat
        BY <1>3, <4>1, StreamType
      <4>3. QED
        BY <3>1, <4>1, <4>2 DEF Start
    <3>2. CASE c # b
      <4>1. /\ stream'[c] = stream[c] /\ arrived'[c] = arrived[c] /\ requests'[c] = requests[c]
            /\ mark'[c] = mark[c]
        BY <1>1, <2>1, <2>2, <3>2
      <4>2. QED
        BY <1>2, <1>3, <4>1
    <3>3. QED
      BY <3>1, <3>2
  <2>4. /\ stream' \in [Bevs -> Streams] /\ arrived' \in [Bevs -> Nat]
        /\ requests' \in [Bevs -> Seq(Seq(Byte))] /\ mark' \in [Bevs -> [at : Nat, after : Nat]]
    BY <1>1, <2>1, <2>2 DEF Start
  <2>5. open' \subseteq Bevs /\ serving' \in open' \cup {NoBev} /\ accepts' \in 0..MaxAccepts
    BY <1>1, <2>2, FramingAssumption
  <2>6. QED
    BY <1>1, <2>2, <2>3, <2>4, <2>5 DEF TypeOK
<1>5. ASSUME NEW b \in Bevs, NEW n \in 1..(Len(Written(b)) - arrived[b]), Read(b, n)
      PROVE  TypeOK'
  <2> DEFINE more == SubSeq(Written(b), arrived[b] + 1, arrived[b] + n)
  <2>1. /\ b \in open /\ serving' = b
        /\ arrived' = [arrived EXCEPT ![b] = @ + n]
        /\ connectionBuffers' = [connectionBuffers EXCEPT ![b] = @ \o more]
        /\ open' = open /\ accepts' = accepts /\ stream' = stream /\ requests' = requests /\ mark' = mark
    BY <1>5 DEF Read
  <2>2. /\ Written(b) \in Seq(Byte) /\ Len(Written(b)) \in Nat /\ arrived[b] \in Nat
        /\ connectionBuffers[b] \in Seq(Byte)
    BY WrittenType
  <2>3. more \in Seq(Byte) /\ n \in Nat /\ arrived[b] + n <= Len(Written(b))
    BY <2>2
  <2> HIDE DEF more
  <2>4. connectionBuffers[b] \o more \in Seq(Byte) /\ arrived[b] + n \in Nat
    BY <2>2, <2>3
  <2>5. connectionBuffers' \in [Bevs -> Seq(Byte)] /\ arrived' \in [Bevs -> Nat]
    BY <1>1, <2>1, <2>4
  <2>6. ASSUME NEW c \in Bevs
        PROVE  Counts(c)'
    <3>1. CASE c = b
      <4>1. arrived'[b] = arrived[b] + n /\ mark[b].at \in Nat
        BY <1>1, <2>1
      <4>2. QED
        BY <1>2, <1>3, <2>1, <2>2, <2>3, <3>1, <4>1
    <3>2. CASE c # b
      <4>1. arrived'[c] = arrived[c]
        BY <1>1, <2>1, <3>2
      <4>2. QED
        BY <1>2, <1>3, <2>1, <4>1
    <3>3. QED
      BY <3>1, <3>2
  <2>7. QED
    BY <1>1, <2>1, <2>5, <2>6 DEF TypeOK
<1>6. ASSUME NEW b \in Bevs, Handle(b)
      PROVE  TypeOK'
  <2> DEFINE x == Extract(connectionBuffers[b]).text
             y == Extract(connectionBuffers[b]).rest
  <2>1. /\ connectionBuffers' = [connectionBuffers EXCEPT ![b] = y]
        /\ requests' = [requests EXCEPT ![b] = Append(@, x)]
        /\ open' = open /\ serving' = serving /\ accepts' = accepts /\ stream' = stream
        /\ arrived' = arrived /\ mark' = mark
    BY <1>6 DEF Handle
  <2>2. x \in Seq(Byte) /\ y \in Seq(Byte)
    BY WrittenType, ExtractType
  <2> HIDE DEF x, y
  <2>3. connectionBuffers' \in [Bevs -> Seq(Byte)] /\ requests' \in [Bevs -> Seq(Seq(Byte))]
    BY <1>1, <2>1, <2>2
  <2>4. ASSUME NEW c \in Bevs
        PROVE  Counts(c)'
    <3>1. Len(requests'[c]) >= Len(requests[c]) /\ Len(requests[c]) \in Nat /\ Len(requests'[c]) \in Nat
      <4>1. requests[c] \in Seq(Seq(Byte))
        BY <1>1
      <4>2. CASE c = b
        <5>1. requests'[c] = Append(requests[c], x)
          BY <1>1, <2>1, <4>2
        <5>2. QED
          BY <2>2, <4>1, <5>1
      <4>3. CASE c # b
        <5>1. requests'[c] = requests[c]
          BY <1>1, <2>1, <4>3
        <5>2. QED
          BY <4>1, <5>1
      <4>4. QED
        BY <4>2, <4>3
    <3>2. mark[c].after \in Nat
      BY <1>1
    <3>3. QED
      BY <1>2, <1>3, <2>1, <3>1, <3>2
  <2>5. QED
    BY <1>1, <2>1, <2>3, <2>4 DEF TypeOK
<1>7. ASSUME NEW b \in Bevs, Done(b)
      PROVE  TypeOK'
  <2> DEFINE y == Extract(connectionBuffers[b]).rest
             here == [at |-> arrived[b], after |-> Len(requests[b])]
  <2>1. /\ connectionBuffers' = [connectionBuffers EXCEPT ![b] = y]
        /\ serving' = NoBev
        /\ mark' = [mark EXCEPT ![b] = here] \/ mark' = mark
        /\ open' = open /\ accepts' = accepts /\ stream' = stream
        /\ arrived' = arrived /\ requests' = requests
    BY <1>7 DEF Done
  <2>2. y \in Seq(Byte) /\ arrived[b] \in Nat /\ Len(requests[b]) \in Nat
    BY WrittenType, ExtractType
  <2> HIDE DEF y
  <2>3. connectionBuffers' \in [Bevs -> Seq(Byte)]
    BY <1>1, <2>1, <2>2
  <2>4. here \in [at : Nat, after : Nat]
    BY <2>2
  <2>5. mark' \in [Bevs -> [at : Nat, after : Nat]]
    <3> HIDE DEF here
    <3>1. QED
      BY <1>1, <2>1, <2>4
  <2>6. ASSUME NEW c \in Bevs
        PROVE  Counts(c)'
    <3>1. mark'[c] = mark[c] \/ (c = b /\ mark'[c] = here)
      <4> HIDE DEF here
      <4>1. QED
        BY <1>1, <2>1
    <3>2. QED
      BY <1>2, <1>3, <2>1, <2>2, <3>1
  <2>7. QED
    BY <1>1, <2>1, <2>3, <2>5, <2>6 DEF TypeOK
<1>8. ASSUME NEW b \in Bevs, Close(b)
      PROVE  TypeOK'
  <2>1. /\ open' = open \ {b} /\ serving = NoBev
        /\ connectionBuffers' = [connectionBuffers EXCEPT ![b] = <<>>]
        /\ serving' = serving /\ accepts' = accepts /\ stream' = stream
        /\ arrived' = arrived /\ requests' = requests /\ mark' = mark
    BY <1>8 DEF Close
  <2>2. connectionBuffers' \in [Bevs -> Seq(Byte)]
    BY <1>1, <2>1
  <2>3. \A c \in Bevs : Counts(c)'
    BY <1>2, <1>3, <2>1
  <2>4. QED
    BY <1>1, <2>1, <2>2, <2>3 DEF TypeOK
<1>9. CASE UNCHANGED vars
  <2>1. /\ open' = open /\ connectionBuffers' = connectionBuffers /\ serving' = serving
        /\ accepts' = accepts /\ stream' = stream /\ arrived' = arrived
        /\ requests' = requests /\ mark' = mark
    BY <1>9 DEF vars
  <2>2. \A c \in Bevs : Counts(c)'
    BY <1>2, <1>3, <2>1
  <2>3. QED
    BY <1>1, <2>1, <2>2 DEF TypeOK
<1>10. QED
  BY <1>4, <1>5, <1>6, <1>7, <1>8, <1>9 DEF Next

\* Every variable has its C++ type, and a connection has read no more than its client
\* wrote (madt-server.cpp, accept_conn_cb, readcb, request, eventcb).
THEOREM FramingTypes == Spec => []TypeOK
<1>1. Init => TypeOK
  BY TypeInit
<1>2. TypeOK /\ [Next]_vars => TypeOK'
  BY TypeNext
<1>3. QED
  BY <1>1, <1>2, PTL DEF Spec

-----------------------------------------------------------------------------
(* Nothing lost, nothing invented *)

\* A buffer belongs to a connection.
OwnBuffers == \A b \in Bevs : b \notin open => connectionBuffers[b] = <<>>

\* No connection, no buffer.
LEMMA OwnInit == Init => OwnBuffers
BY DEF Init, OwnBuffers

\* Close leaves none.
LEMMA OwnNext == TypeOK /\ OwnBuffers /\ [Next]_vars => OwnBuffers'
<1> SUFFICES ASSUME TypeOK, OwnBuffers, [Next]_vars PROVE OwnBuffers'
  OBVIOUS
<1>1. /\ connectionBuffers \in [Bevs -> Seq(Byte)] /\ serving \in open \cup {NoBev}
      /\ NoBev \notin Bevs /\ \A c \in Bevs : c \notin open => connectionBuffers[c] = <<>>
  BY FramingAssumption DEF TypeOK, OwnBuffers
<1>2. ASSUME NEW b \in Bevs, Accept(b)
      PROVE  OwnBuffers'
  BY <1>1, <1>2 DEF Accept, OwnBuffers
<1>3. ASSUME NEW b \in Bevs, NEW n \in 1..(Len(Written(b)) - arrived[b]), Read(b, n)
      PROVE  OwnBuffers'
  <2>1. b \in open /\ open' = open /\ \A c \in Bevs : c # b => connectionBuffers'[c] = connectionBuffers[c]
    BY <1>1, <1>3 DEF Read
  <2>2. QED
    BY <1>1, <2>1 DEF OwnBuffers
<1>4. ASSUME NEW b \in Bevs, Handle(b) \/ Done(b)
      PROVE  OwnBuffers'
  <2>1. b \in open /\ open' = open /\ \A c \in Bevs : c # b => connectionBuffers'[c] = connectionBuffers[c]
    BY <1>1, <1>4 DEF Handle, Done
  <2>2. QED
    BY <1>1, <2>1 DEF OwnBuffers
<1>5. ASSUME NEW b \in Bevs, Close(b)
      PROVE  OwnBuffers'
  BY <1>1, <1>5 DEF Close, OwnBuffers
<1>6. CASE UNCHANGED vars
  BY <1>1, <1>6 DEF vars, OwnBuffers
<1>7. QED
  BY <1>2, <1>3, <1>4, <1>5, <1>6 DEF Next

\* The bytes of its requests and of its buffer are those that were read, but for blanks.
Kept(b) == Solid(FlattenSeq(requests[b]) \o connectionBuffers[b])
             = Solid(SubSeq(Written(b), 1, arrived[b]))

\* The same, the blanks of both parts dropped one by one.
LEMMA KeptIs ==
  ASSUME NEW r \in Seq(Seq(Byte)), NEW t \in Seq(Byte)
  PROVE  /\ FlattenSeq(r) \in Seq(Byte)
         /\ Solid(FlattenSeq(r) \o t) = Solid(FlattenSeq(r)) \o Solid(t)
<1>1. FlattenSeq(r) \in Seq(Byte)
  BY FlattenType
<1>2. QED
  BY <1>1, SolidConcat

\* Nothing has been read.
LEMMA NothingInit == Init => NothingLostOrInvented
BY DEF Init, NothingLostOrInvented

\* Each step moves bytes from one place to the next.
LEMMA NothingNext ==
  TypeOK /\ OwnBuffers /\ NothingLostOrInvented /\ [Next]_vars => NothingLostOrInvented'
<1> SUFFICES ASSUME TypeOK, OwnBuffers, NothingLostOrInvented, [Next]_vars
             PROVE  NothingLostOrInvented'
  OBVIOUS
<1>1. /\ open \subseteq Bevs /\ serving \in open \cup {NoBev}
      /\ connectionBuffers \in [Bevs -> Seq(Byte)] /\ stream \in [Bevs -> Streams]
      /\ arrived \in [Bevs -> Nat] /\ requests \in [Bevs -> Seq(Seq(Byte))]
  BY DEF TypeOK
<1>2. NothingLostOrInvented = (\A c \in open : Kept(c))
  BY Zenon DEF NothingLostOrInvented, Kept
<1>3. NothingLostOrInvented' = (\A c \in open' : Kept(c)')
  BY Zenon DEF NothingLostOrInvented, Kept
<1>4. TypeOK'
  BY TypeNext
<1>5. ASSUME NEW c, /\ stream'[c] = stream[c] /\ arrived'[c] = arrived[c] /\ requests'[c] = requests[c]
                    /\ connectionBuffers'[c] = connectionBuffers[c]
      PROVE  Kept(c)' <=> Kept(c)
  BY <1>5, Zenon DEF Kept, Written
<1>6. ASSUME NEW b \in Bevs, Accept(b)
      PROVE  \A c \in open' : Kept(c)'
  <2>1. PICK s \in Streams : stream' = [stream EXCEPT ![b] = s]
    BY <1>6 DEF Accept
  <2>2. /\ b \notin open /\ connectionBuffers' = connectionBuffers
        /\ open' = open \cup {b}
        /\ arrived' = [arrived EXCEPT ![b] = 0] /\ requests' = [requests EXCEPT ![b] = <<>>]
    BY <1>6 DEF Accept
  <2>3. Kept(b)'
    <3>1. arrived'[b] = 0 /\ requests'[b] = <<>> /\ connectionBuffers'[b] = <<>>
      BY <1>1, <2>2 DEF OwnBuffers
    <3>2. SubSeq(Written(b)', 1, 0) = <<>> /\ <<>> \o <<>> = <<>>
      BY SubSeqEmpty, EmptySeq, ConcatEmptySeq
    <3>3. FlattenSeq(requests'[b]) \o connectionBuffers'[b] = <<>>
      BY <3>1, <3>2, FlattenEmpty
    <3>4. SubSeq(Written(b)', 1, arrived'[b]) = <<>>
      BY <3>1, <3>2
    <3>5. QED
      BY <3>3, <3>4, Zenon DEF Kept
  <2>4. ASSUME NEW c \in open, c # b
        PROVE  Kept(c)'
    <3>1. /\ stream'[c] = stream[c] /\ arrived'[c] = arrived[c] /\ requests'[c] = requests[c]
          /\ connectionBuffers'[c] = connectionBuffers[c]
      BY <1>1, <2>1, <2>2, <2>4
    <3>2. QED
      BY <1>2, <1>5, <3>1
  <2>5. QED
    BY <2>2, <2>3, <2>4
<1>7. ASSUME NEW b \in Bevs, NEW n \in 1..(Len(Written(b)) - arrived[b]), Read(b, n)
      PROVE  \A c \in open' : Kept(c)'
  <2> DEFINE more == SubSeq(Written(b), arrived[b] + 1, arrived[b] + n)
             had == SubSeq(Written(b), 1, arrived[b])
             reqs == FlattenSeq(requests[b])
             buf == connectionBuffers[b]
  <2>1. /\ b \in open
        /\ arrived' = [arrived EXCEPT ![b] = @ + n]
        /\ connectionBuffers' = [connectionBuffers EXCEPT ![b] = @ \o more]
        /\ open' = open /\ stream' = stream /\ requests' = requests
    BY <1>7 DEF Read
  <2>2. /\ Written(b) \in Seq(Byte) /\ Len(Written(b)) \in Nat /\ arrived[b] \in Nat
        /\ buf \in Seq(Byte) /\ reqs \in Seq(Byte)
    BY WrittenType, FlattenType
  <2>3. more \in Seq(Byte) /\ had \in Seq(Byte) /\ arrived[b] + n <= Len(Written(b)) /\ n \in Nat
    BY <2>2
  <2>4. Kept(b)'
    <3>1. SubSeq(Written(b), 1, arrived[b] + n) = had \o more
      <4>1. /\ arrived[b] \in (1 - 1)..Len(Written(b)) /\ 1 \in 1..(Len(Written(b)) + 1)
            /\ arrived[b] + n \in arrived[b]..Len(Written(b))
        BY <2>2, <2>3
      <4>2. QED
        BY <2>2, <4>1, ConcatAdjacentSubSeq
    <3>2. /\ Written(b)' = Written(b) /\ arrived'[b] = arrived[b] + n
          /\ connectionBuffers'[b] = buf \o more /\ requests'[b] = requests[b]
      <4> HIDE DEF more
      <4>1. Written(b)' = Written(b)
        BY <2>1 DEF Written
      <4>2. QED
        BY <1>1, <2>1, <4>1
    <3> HIDE DEF more, had, reqs, buf
    <3>3. Solid(had \o more) = Solid(had) \o Solid(more) /\ Solid(buf \o more) = Solid(buf) \o Solid(more)
      BY <2>2, <2>3, SolidConcat
    <3>4. Solid(reqs) \in Seq(Byte) /\ Solid(buf) \in Seq(Byte) /\ Solid(more) \in Seq(Byte)
      BY <2>2, <2>3, SolidIs
    <3>5. Solid(reqs) \o (Solid(buf) \o Solid(more)) = (Solid(reqs) \o Solid(buf)) \o Solid(more)
      BY <3>4, ConcatAssociative
    <3>6. Solid(reqs) \o Solid(buf) = Solid(had)
      <4>1. Kept(b) /\ requests[b] \in Seq(Seq(Byte)) /\ connectionBuffers[b] \in Seq(Byte)
        BY <1>2, <2>1, WrittenType
      <4>2. QED
        BY <4>1, KeptIs, Zenon DEF Kept, had, reqs, buf
    <3>7. requests[b] \in Seq(Seq(Byte)) /\ buf \o more \in Seq(Byte)
      BY <2>2, <2>3, WrittenType
    <3>8. Solid(reqs \o (buf \o more)) = Solid(reqs) \o Solid(buf \o more)
      BY <3>7, KeptIs, Zenon DEF reqs
    <3>9. Solid(reqs \o (buf \o more)) = Solid(had \o more)
      BY <3>3, <3>5, <3>6, <3>8, Zenon
    <3>10. QED
      BY <3>1, <3>2, <3>9, Zenon DEF Kept, reqs
  <2>5. ASSUME NEW c \in open, c # b
        PROVE  Kept(c)'
    <3>1. /\ stream'[c] = stream[c] /\ arrived'[c] = arrived[c] /\ requests'[c] = requests[c]
          /\ connectionBuffers'[c] = connectionBuffers[c]
      <4> HIDE DEF more
      <4>1. QED
        BY <1>1, <2>1, <2>5
    <3>2. QED
      BY <1>2, <1>5, <3>1
  <2>6. QED
    BY <2>1, <2>4, <2>5
<1>8. ASSUME NEW b \in Bevs, Handle(b) \/ Done(b)
      PROVE  \A c \in open' : Kept(c)'
  <2> DEFINE buf == connectionBuffers[b]
             x == Extract(buf).text
             y == Extract(buf).rest
             reqs == FlattenSeq(requests[b])
  <2>1. /\ connectionBuffers' = [connectionBuffers EXCEPT ![b] = y]
        /\ requests' = IF Extract(buf).found THEN [requests EXCEPT ![b] = Append(@, x)] ELSE requests
        /\ serving = b /\ open' = open /\ stream' = stream /\ arrived' = arrived
    BY <1>8 DEF Handle, Done
  <2>2. /\ buf \in Seq(Byte) /\ requests[b] \in Seq(Seq(Byte)) /\ b \in open
    BY <1>1, <2>1, WrittenType, FramingAssumption
  <2>3. /\ x \in Seq(Byte) /\ y \in Seq(Byte) /\ Solid(buf) = Solid(x) \o Solid(y)
        /\ Extract(buf).found \in BOOLEAN /\ (Extract(buf).found = FALSE => x = <<>>)
    BY <2>2, ExtractKeeps
  <2>4. reqs \in Seq(Byte) /\ FlattenSeq(requests'[b]) = reqs \o x
    <3>1. reqs \in Seq(Byte)
      BY <2>2, FlattenType
    <3>2. CASE Extract(buf).found = FALSE
      <4>1. requests'[b] = requests[b] /\ x = <<>>
        BY <2>1, <2>3, <3>2
      <4>2. QED
        BY <3>1, <4>1, ConcatEmptySeq
    <3>3. CASE Extract(buf).found = TRUE
      <4> HIDE DEF x, y, buf
      <4>1. requests'[b] = Append(requests[b], x)
        BY <1>1, <2>1, <3>3
      <4>2. requests'[b] = requests[b] \o <<x>> /\ <<x>> \in Seq(Seq(Byte))
        BY <2>2, <2>3, <4>1
      <4>3. FlattenSeq(<<x>>) = x
        <5>1. SubSeq(<<x>>, 1, 1) = <<x>> /\ SubSeq(<<x>>, 1, 1 - 1) = <<>> /\ <<x>>[1] = x /\ 1 \in 1..Len(<<x>>)
          <6>1. <<x>> \in Seq(Seq(Byte)) /\ Len(<<x>>) = 1 /\ <<x>>[1] = x
            BY <2>3
          <6>2. SubSeq(<<x>>, 1, 1) = <<x>>
            BY <6>1, SubSeqFull
          <6>3. SubSeq(<<x>>, 1, 1 - 1) = <<>>
            BY SubSeqEmpty
          <6>4. QED
            BY <6>1, <6>2, <6>3
        <5>2. FlattenSeq(SubSeq(<<x>>, 1, 1)) = FlattenSeq(SubSeq(<<x>>, 1, 1 - 1)) \o <<x>>[1]
          BY <4>2, <5>1, FlattenAppend
        <5>3. <<>> \o x = x
          BY <2>3, ConcatEmptySeq
        <5>4. QED
          BY <5>1, <5>2, <5>3, FlattenEmpty
      <4>4. QED
        BY <2>2, <3>1, <4>2, <4>3, FlattenConcat
    <3>4. QED
      BY <2>3, <3>1, <3>2, <3>3
  <2>5. Kept(b)'
    <3>1. connectionBuffers'[b] = y /\ Written(b)' = Written(b) /\ arrived'[b] = arrived[b]
      <4> HIDE DEF y
      <4>1. QED
        BY <1>1, <2>1 DEF Written
    <3>2. Kept(b)
      BY <1>2, <2>2
    <3>3. Solid(reqs \o buf) = Solid(reqs) \o Solid(buf)
      BY <2>2, <2>4, SolidConcat
    <3> HIDE DEF x, y, buf, reqs
    <3>4. /\ Solid(reqs \o x) = Solid(reqs) \o Solid(x)
          /\ reqs \o x \in Seq(Byte)
      BY <2>3, <2>4, SolidConcat
    <3>5. Solid((reqs \o x) \o y) = Solid(reqs \o x) \o Solid(y)
      BY <2>3, <3>4, SolidConcat
    <3>6. Solid(reqs) \in Seq(Byte) /\ Solid(x) \in Seq(Byte) /\ Solid(y) \in Seq(Byte)
      BY <2>3, <2>4, SolidIs
    <3>7. (Solid(reqs) \o Solid(x)) \o Solid(y) = Solid(reqs) \o (Solid(x) \o Solid(y))
      BY <3>6, ConcatAssociative
    <3>8. Solid((reqs \o x) \o y) = Solid(reqs \o buf)
      BY <2>3, <3>3, <3>4, <3>5, <3>7, Zenon
    <3>9. Solid(reqs \o buf) = Solid(SubSeq(Written(b), 1, arrived[b]))
      BY <3>2, Zenon DEF Kept, reqs, buf
    <3>10. QED
      BY <2>4, <3>1, <3>8, <3>9, Zenon DEF Kept
  <2>6. ASSUME NEW c \in open, c # b
        PROVE  Kept(c)'
    <3>1. /\ stream'[c] = stream[c] /\ arrived'[c] = arrived[c] /\ requests'[c] = requests[c]
          /\ connectionBuffers'[c] = connectionBuffers[c]
      <4> HIDE DEF x, y, buf
      <4>1. QED
        BY <1>1, <2>1, <2>6
    <3>2. QED
      BY <1>2, <1>5, <3>1
  <2>7. QED
    BY <2>1, <2>5, <2>6
<1>9. ASSUME NEW b \in Bevs, Close(b)
      PROVE  \A c \in open' : Kept(c)'
  <2>1. /\ open' = open \ {b} /\ stream' = stream /\ arrived' = arrived /\ requests' = requests
        /\ connectionBuffers' = [connectionBuffers EXCEPT ![b] = <<>>]
    BY <1>9 DEF Close
  <2>2. ASSUME NEW c \in open'
        PROVE  Kept(c)'
    <3>1. c \in open /\ stream'[c] = stream[c] /\ arrived'[c] = arrived[c]
          /\ requests'[c] = requests[c] /\ connectionBuffers'[c] = connectionBuffers[c]
      BY <1>1, <2>1
    <3>2. QED
      BY <1>2, <1>5, <3>1
  <2>3. QED
    BY <2>2
<1>10. CASE UNCHANGED vars
  <2>1. /\ open' = open /\ stream' = stream /\ arrived' = arrived /\ requests' = requests
        /\ connectionBuffers' = connectionBuffers
    BY <1>10 DEF vars
  <2>2. \A c \in open' : Kept(c)'
    BY <1>2, <1>5, <2>1
  <2>3. QED
    BY <1>3, <2>2
<1>11. QED
  <2>1. CASE Next
    BY <1>6, <1>7, <1>8, <1>9, <1>3, <2>1 DEF Next
  <2>2. CASE UNCHANGED vars
    BY <1>10, <2>2
  <2>3. QED
    BY <2>1, <2>2

\* Whatever clients write, objects or not, and however TCP cuts it: the bytes read are,
\* in order and but for blanks, those of the requests handled and of the buffer kept
\* (madt-server.cpp, readcb, request and extractSingleJsonObject).
THEOREM NoByteIsLost == Spec => []NothingLostOrInvented
<1>1. Init => TypeOK /\ OwnBuffers /\ NothingLostOrInvented
  BY TypeInit, OwnInit, NothingInit
<1>2. TypeOK /\ OwnBuffers /\ NothingLostOrInvented /\ [Next]_vars
        => (TypeOK /\ OwnBuffers /\ NothingLostOrInvented)'
  BY TypeNext, OwnNext, NothingNext
<1>3. QED
  BY <1>1, <1>2, PTL DEF Spec

-----------------------------------------------------------------------------
(* What is kept *)

\* A text that can be kept: blanks, and one object that is not all there.
OneBeginning(t) ==
  t # <<>> =>
    /\ FirstOf(t) <= Len(t) /\ t[FirstOf(t)] = "lbrace"
    /\ \A n \in FirstOf(t)..Len(t) : SubSeq(t, FirstOf(t), n) \notin Objects

\* No object begins what is left of a buffer in which no end is found.
LEMMA UnfinishedIs ==
  ASSUME NEW t \in Seq(Byte), Unfinished(t), NEW n \in FirstOf(t)..Len(t)
  PROVE  SubSeq(t, FirstOf(t), n) \notin Objects
<1> DEFINE f == FirstOf(t)
           o == SubSeq(t, f, n)
           r == Rest(t)
<1>1. Len(t) \in Nat /\ f \in 1..(Len(t) + 1) /\ EndOf(r) = 0 /\ r = SubSeq(t, f, Len(t))
  BY FirstOfIs DEF Unfinished, Rest
<1> SUFFICES ASSUME IsObject(o) PROVE FALSE
  BY FramingAssumption, Zenon
<1>2. Len(o) \in Nat /\ Len(o) > 0
  BY ObjectStops
<1>3. r \in Seq(Byte) /\ Len(o) <= Len(r) /\ \A i \in 1..Len(o) : r[i] = o[i]
  <2>1. n \in f..Len(t)
    OBVIOUS
  <2> HIDE DEF f
  <2>2. QED
    BY <1>1, <2>1
<1> HIDE DEF o, r
<1>4. EndOf(r) = Len(o)
  BY <1>3, EndFound
<1>5. QED
  BY <1>1, <1>2, <1>4

\* Whatever request() stops at can be kept.
LEMMA NotFoundKeeps ==
  ASSUME NEW t \in Seq(Byte), Extract(t).found = FALSE
  PROVE  OneBeginning(Extract(t).rest) /\ (Extract(t).rest = <<>> \/ Extract(t).rest = t)
<1>1. CASE AllBlank(t)
  BY <1>1 DEF AllBlank, OneBeginning
<1>2. CASE NoObject(t)
  BY <1>2 DEF NoObject
<1>3. CASE Unfinished(t)
  <2>1. Extract(t).rest = t /\ FirstOf(t) <= Len(t) /\ t[FirstOf(t)] = "lbrace"
    BY <1>3 DEF Unfinished
  <2>2. QED
    BY <1>3, <2>1, UnfinishedIs DEF OneBeginning
<1>4. CASE \E e \in Nat : Finished(t, e)
  BY <1>4, FinishedIs
<1>5. QED
  BY <1>1, <1>2, <1>3, <1>4, ExtractCases

\* Every connection but the one being served keeps such a text.
Beginnings == \A b \in open : b # serving => OneBeginning(connectionBuffers[b])

\* There are no connections.
LEMMA BeginningsInit == Init => Beginnings
BY DEF Init, Beginnings

\* Only the loop's end leaves the buffer to a later read.
LEMMA BeginningsNext == TypeOK /\ OwnBuffers /\ Beginnings /\ [Next]_vars => Beginnings'
<1> SUFFICES ASSUME TypeOK, OwnBuffers, Beginnings, [Next]_vars PROVE Beginnings'
  OBVIOUS
<1>1. /\ open \subseteq Bevs /\ connectionBuffers \in [Bevs -> Seq(Byte)] /\ serving \in open \cup {NoBev}
      /\ NoBev \notin Bevs /\ \A c \in Bevs : c \notin open => connectionBuffers[c] = <<>>
      /\ \A c \in open : c # serving => OneBeginning(connectionBuffers[c])
  BY FramingAssumption DEF TypeOK, OwnBuffers, Beginnings
<1>2. ASSUME NEW b \in Bevs, Accept(b)
      PROVE  Beginnings'
  <2>1. open' = open \cup {b} /\ b \notin open /\ connectionBuffers' = connectionBuffers /\ serving' = serving
    BY <1>2 DEF Accept
  <2>2. connectionBuffers[b] = <<>>
    BY <1>1, <2>1
  <2>3. OneBeginning(connectionBuffers[b])
    BY <2>2 DEF OneBeginning
  <2>4. QED
    BY <1>1, <2>1, <2>3 DEF Beginnings
<1>3. ASSUME NEW b \in Bevs, NEW n \in 1..(Len(Written(b)) - arrived[b]), Read(b, n)
      PROVE  Beginnings'
  <2>1. serving = NoBev /\ serving' = b /\ open' = open
        /\ \A c \in Bevs : c # b => connectionBuffers'[c] = connectionBuffers[c]
    BY <1>1, <1>3 DEF Read
  <2>2. QED
    BY <1>1, <2>1 DEF Beginnings
<1>4. ASSUME NEW b \in Bevs, Handle(b)
      PROVE  Beginnings'
  <2>1. serving = b /\ serving' = b /\ open' = open
        /\ \A c \in Bevs : c # b => connectionBuffers'[c] = connectionBuffers[c]
    BY <1>1, <1>4 DEF Handle
  <2>2. QED
    BY <1>1, <2>1 DEF Beginnings
<1>5. ASSUME NEW b \in Bevs, Done(b)
      PROVE  Beginnings'
  <2> DEFINE next == Extract(connectionBuffers[b])
  <2>1. serving = b /\ open' = open /\ ~next.found
        /\ connectionBuffers' = [connectionBuffers EXCEPT ![b] = next.rest]
    BY <1>5 DEF Done
  <2>2. next.found \in BOOLEAN /\ connectionBuffers[b] \in Seq(Byte)
    BY <1>1, ExtractKeeps
  <2>3. OneBeginning(next.rest)
    BY <2>1, <2>2, NotFoundKeeps, Zenon
  <2> HIDE DEF next
  <2>4. /\ connectionBuffers'[b] = next.rest
        /\ \A c \in Bevs : c # b => connectionBuffers'[c] = connectionBuffers[c]
    BY <1>1, <2>1
  <2>5. QED
    BY <1>1, <2>1, <2>3, <2>4 DEF Beginnings
<1>6. ASSUME NEW b \in Bevs, Close(b)
      PROVE  Beginnings'
  <2>1. open' = open \ {b} /\ serving' = serving
        /\ \A c \in Bevs : c # b => connectionBuffers'[c] = connectionBuffers[c]
    BY <1>1, <1>6 DEF Close
  <2>2. QED
    BY <1>1, <2>1 DEF Beginnings
<1>7. CASE UNCHANGED vars
  BY <1>1, <1>7 DEF vars, Beginnings
<1>8. QED
  BY <1>2, <1>3, <1>4, <1>5, <1>6, <1>7 DEF Next

\* When request() stops its loop no whole object is left in connectionBuffers, so no
\* client waits for an answer until it, or another, writes more (madt-server.cpp).
THEOREM NothingWholeIsKept == Spec => []KeepsOneBeginning
<1>1. Init => TypeOK /\ OwnBuffers /\ Beginnings
  BY TypeInit, OwnInit, BeginningsInit
<1>2. TypeOK /\ OwnBuffers /\ Beginnings /\ [Next]_vars => (TypeOK /\ OwnBuffers /\ Beginnings)'
  BY TypeNext, OwnNext, BeginningsNext
<1>3. TypeOK /\ Beginnings => KeepsOneBeginning
  <2> SUFFICES ASSUME TypeOK, Beginnings, NEW b \in Bevs, Idle(b)
               PROVE  OneBeginning(connectionBuffers[b])
    BY Zenon DEF KeepsOneBeginning, OneBeginning
  <2>1. b \in open /\ b # serving
    BY FramingAssumption DEF Idle
  <2>2. QED
    BY <2>1 DEF Beginnings
<1>4. QED
  BY <1>1, <1>2, <1>3, PTL DEF Spec

-----------------------------------------------------------------------------
(* Borders *)

\* Where the first k pieces of what a client writes end.
Border(s, k) == Len(FlattenSeq(SubSeq(s, 1, k)))

\* Each piece begins at a border and ends at the next.
LEMMA BorderIs ==
  ASSUME NEW s \in Streams
  PROVE  /\ \A k \in 0..Len(s) : Border(s, k) \in Nat
         /\ Border(s, 0) = 0 /\ Border(s, Len(s)) = Len(FlattenSeq(s))
         /\ \A k \in 1..Len(s) : Border(s, k) = Border(s, k - 1) + Len(s[k])
         /\ \A k \in 1..Len(s) : \A i \in 1..Len(s[k]) :
              FlattenSeq(s)[Border(s, k - 1) + i] = s[k][i]
<1> DEFINE n == Len(s)
           W == FlattenSeq(s)
           F(k) == FlattenSeq(SubSeq(s, 1, k))
<1>1. n \in Nat /\ s \in Seq(Seq(Byte)) /\ \A k \in 1..n : s[k] \in Seq(Byte)
  BY StreamType
<1>2. ASSUME NEW k \in 0..n
      PROVE  F(k) \in Seq(Byte) /\ Border(s, k) = Len(F(k)) /\ Border(s, k) \in Nat
  <2>1. SubSeq(s, 1, k) \in Seq(Seq(Byte))
    BY <1>1
  <2>2. F(k) \in Seq(Byte)
    BY <2>1, FlattenType
  <2>3. QED
    BY <2>2 DEF Border
<1>3. Border(s, 0) = 0 /\ Border(s, n) = Len(W)
  <2>1. SubSeq(s, 1, 0) = <<>> /\ SubSeq(s, 1, n) = s
    BY <1>1, SubSeqEmpty, SubSeqFull
  <2>2. Len(<<>>) = 0
    OBVIOUS
  <2>3. Border(s, 0) = Len(<<>>)
    BY <2>1, FlattenEmpty, Zenon DEF Border
  <2>4. Border(s, n) = Len(W)
    BY <2>1, Zenon DEF Border
  <2>5. QED
    BY <2>2, <2>3, <2>4
<1>4. ASSUME NEW k \in 1..n
      PROVE  /\ F(k) = F(k - 1) \o s[k]
             /\ Border(s, k) = Border(s, k - 1) + Len(s[k])
  <2>1. F(k) = F(k - 1) \o s[k]
    BY <1>1, FlattenAppend
  <2>2. k \in 0..n /\ k - 1 \in 0..n
    BY <1>1
  <2>3. F(k - 1) \in Seq(Byte) /\ s[k] \in Seq(Byte)
        /\ Border(s, k) = Len(F(k)) /\ Border(s, k - 1) = Len(F(k - 1))
    BY <1>1, <1>2, <2>2
  <2> HIDE DEF F
  <2>4. Len(F(k - 1) \o s[k]) = Len(F(k - 1)) + Len(s[k])
    BY <2>3
  <2>5. QED
    BY <2>1, <2>3, <2>4
<1>5. ASSUME NEW k \in 1..n, NEW i \in 1..Len(s[k])
      PROVE  W[Border(s, k - 1) + i] = s[k][i]
  <2> DEFINE G == FlattenSeq(SubSeq(s, k + 1, n))
  <2>1. k \in 0..n /\ k - 1 \in 0..n
    BY <1>1
  <2>2. W = F(k) \o G
    <3>1. s = SubSeq(s, 1, k) \o SubSeq(s, k + 1, n)
      <4>1. 1 \in 1..(Len(s) + 1) /\ k \in (1 - 1)..Len(s) /\ n \in k..Len(s)
        BY <1>1, <2>1
      <4>2. SubSeq(s, 1, k) \o SubSeq(s, k + 1, n) = SubSeq(s, 1, n)
        BY <1>1, <4>1, ConcatAdjacentSubSeq
      <4>3. QED
        BY <1>1, <4>2, SubSeqFull
    <3>2. SubSeq(s, 1, k) \in Seq(Seq(Byte)) /\ SubSeq(s, k + 1, n) \in Seq(Seq(Byte))
      BY <1>1
    <3>3. QED
      BY <3>1, <3>2, FlattenConcat
  <2>3. G \in Seq(Byte)
    <3>1. SubSeq(s, k + 1, n) \in Seq(Seq(Byte))
      BY <1>1
    <3>2. QED
      BY <3>1, FlattenType
  <2>4. /\ F(k) = F(k - 1) \o s[k] /\ F(k) \in Seq(Byte) /\ F(k - 1) \in Seq(Byte) /\ s[k] \in Seq(Byte)
        /\ Border(s, k - 1) = Len(F(k - 1))
    BY <1>1, <1>2, <1>4, <2>1
  <2> DEFINE u == F(k - 1)
             v == F(k)
             p == s[k]
             j == Len(u) + i
  <2> HIDE DEF F, G, W, u, v, p
  <2>5. u \in Seq(Byte) /\ v \in Seq(Byte) /\ p \in Seq(Byte) /\ v = u \o p /\ W = v \o G /\ i \in 1..Len(p)
    BY <2>2, <2>4 DEF u, v, p
  <2>6. Len(v) = Len(u) + Len(p) /\ Len(u) \in Nat /\ Len(p) \in Nat
    BY <2>5
  <2>7. j \in 1..Len(v) /\ v[j] = p[i]
    BY <2>5, <2>6
  <2>8. W[j] = v[j]
    BY <2>3, <2>5, <2>7
  <2>9. QED
    BY <2>4, <2>7, <2>8 DEF u, p
<1>6. QED
  BY <1>2, <1>3, <1>4, <1>5

\* The borders are in order.
LEMMA BordersGrow ==
  ASSUME NEW s \in Streams, NEW j \in 0..Len(s), NEW k \in 0..Len(s), j < k
  PROVE  Border(s, j) < Border(s, k)
<1> DEFINE T == {i \in 0..Len(s) : j < i => Border(s, j) < Border(s, i)}
<1>1. Len(s) \in Nat /\ \A i \in 0..Len(s) : Border(s, i) \in Nat
  BY StreamType, BorderIs
<1>2. 0 \in T
  BY <1>1
<1>3. ASSUME NEW i \in 1..Len(s), i - 1 \in T
      PROVE  i \in T
  <2>1. i \in 0..Len(s) /\ i - 1 \in 0..Len(s)
    BY <1>1
  <2>2. Len(s[i]) \in Nat /\ Len(s[i]) > 0
    BY StreamType, PieceType
  <2>3. Border(s, i) = Border(s, i - 1) + Len(s[i])
    BY BorderIs
  <2>4. ASSUME j < i
        PROVE  Border(s, j) < Border(s, i)
    <3>1. CASE j = i - 1
      BY <1>1, <2>1, <2>2, <2>3, <3>1
    <3>2. CASE j # i - 1
      <4>1. j < i - 1
        BY <1>1, <2>1, <2>4, <3>2
      <4>2. Border(s, j) < Border(s, i - 1)
        BY <1>3, <4>1
      <4>3. QED
        BY <1>1, <2>1, <2>2, <2>3, <4>2
    <3>3. QED
      BY <3>1, <3>2
  <2>5. QED
    BY <2>1, <2>4
<1>4. 0..Len(s) \subseteq T
  <2> HIDE DEF T
  <2>1. QED
    BY <1>1, <1>2, <1>3, IntervalSet
<1>5. k \in T
  BY <1>4
<1>6. QED
  BY <1>5

\* The first byte of a piece tells what it is.
LEMMA FirstByte ==
  ASSUME NEW s \in Streams, NEW k \in 1..Len(s)
  PROVE  /\ FlattenSeq(s)[Border(s, k - 1) + 1] = s[k][1]
         /\ s[k] \in Objects => s[k][1] = "lbrace" /\ s[k] # Blank
         /\ s[k] = Blank => s[k][1] = "space" /\ Len(s[k]) = 1
         /\ s[k] \in Objects \/ s[k] \in Junk \/ s[k] = Blank
<1>1. s[k] \in Pieces /\ Len(s[k]) \in Nat /\ Len(s[k]) > 0
  BY StreamType, PieceType
<1>2. FlattenSeq(s)[Border(s, k - 1) + 1] = s[k][1]
  <2>1. 1 \in 1..Len(s[k])
    BY <1>1
  <2>2. QED
    BY <2>1, BorderIs
<1>3. Blank[1] = "space" /\ Len(Blank) = 1
  BY DEF Blank
<1>4. ASSUME s[k] \in Objects
      PROVE  s[k][1] = "lbrace" /\ s[k] # Blank
  <2>1. s[k][1] = "lbrace"
    BY <1>4, FramingAssumption, ObjectStops
  <2>2. QED
    BY <1>3, <2>1
<1>5. QED
  BY <1>1, <1>2, <1>3, <1>4 DEF Pieces

\* Blanks that begin at a border are pieces.
LEMMA BlankPieces ==
  ASSUME NEW s \in Streams, NEW q \in 0..Len(s), NEW d \in Nat,
         Border(s, q) + d <= Len(FlattenSeq(s)),
         \A i \in 1..d : FlattenSeq(s)[Border(s, q) + i] = "space",
         \A k \in 1..Len(s) :
            Border(s, k) > Border(s, q) /\ Border(s, k - 1) < Border(s, q) + d => s[k] \notin Junk
  PROVE  /\ q + d <= Len(s) /\ Border(s, q + d) = Border(s, q) + d
         /\ \A j \in 1..d : s[q + j] = Blank
<1> DEFINE n == Len(s)
           W == FlattenSeq(s)
           p == Border(s, q)
           T == {j \in 0..d : q + j <= n /\ Border(s, q + j) = p + j /\ (j > 0 => s[q + j] = Blank)}
<1>1. n \in Nat /\ p \in Nat /\ Len(W) \in Nat /\ Border(s, n) = Len(W)
  BY StreamType, BorderIs
<1>2. 0 \in T
  BY <1>1
<1>3. ASSUME NEW j \in 1..d, j - 1 \in T
      PROVE  j \in T
  <2> DEFINE k == q + j
  <2>1. k - 1 = q + (j - 1) /\ k - 1 \in 0..n /\ Border(s, k - 1) = p + (j - 1)
    BY <1>1, <1>3
  <2>2. Border(s, k - 1) < p + d /\ Border(s, k - 1) < Border(s, n)
    BY <1>1, <2>1
  <2>3. k \in 1..n
    <3> HIDE DEF k, n
    <3>1. k - 1 # n
      BY <1>1, <2>2
    <3>2. k \in Int
      BY <1>1 DEF k
    <3>3. QED
      BY <1>1, <2>1, <3>1, <3>2
  <2>4. Border(s, k) = Border(s, k - 1) + Len(s[k]) /\ Len(s[k]) > 0 /\ Len(s[k]) \in Nat
    BY <2>3, BorderIs, StreamType, PieceType
  <2>5. Border(s, k) > p
    BY <1>1, <2>1, <2>4
  <2>6. s[k] \notin Junk
    BY <2>2, <2>3, <2>5
  <2>7. W[p + j] = s[k][1] /\ W[p + j] = "space"
    <3>1. (p + (j - 1)) + 1 = p + j
      BY <1>1
    <3>2. W[Border(s, k - 1) + 1] = s[k][1]
      BY <2>3, FirstByte
    <3> HIDE DEF W, p, k
    <3>3. W[p + j] = s[k][1]
      BY <2>1, <3>1, <3>2
    <3>4. QED
      BY <3>3 DEF W, p
  <2>8. s[k] = Blank /\ Len(s[k]) = 1
    <3> HIDE DEF W, p, k
    <3>1. s[k] \notin Objects
      BY <2>3, <2>7, FirstByte
    <3>2. QED
      BY <2>3, <2>6, <3>1, FirstByte
  <2>9. QED
    BY <1>1, <2>1, <2>3, <2>4, <2>8
<1>4. 0..d \subseteq T
  <2> HIDE DEF T
  <2>1. QED
    BY <1>2, <1>3, IntervalSet
<1>5. d \in T /\ \A j \in 1..d : j \in T
  <2> HIDE DEF T
  <2>1. d \in 0..d /\ \A j \in 1..d : j \in 0..d
    OBVIOUS
  <2>2. QED
    BY <1>4, <2>1
<1>6. q + d <= n /\ Border(s, q + d) = p + d
  BY <1>5
<1>7. ASSUME NEW j \in 1..d
      PROVE  s[q + j] = Blank
  <2>1. j \in T /\ j > 0
    BY <1>5
  <2>2. QED
    BY <2>1
<1>8. QED
  BY <1>6, <1>7

-----------------------------------------------------------------------------
(* The objects between two bytes *)

\* The k-th piece is an object between two bytes; the objects there, as ObjectsIn has them.
Lies(s, k, from, to) == Border(s, k - 1) >= from /\ Border(s, k) <= to /\ s[k] \in Objects
ObjParts(s, from, to) ==
  [k \in 1..Len(s) |-> IF Lies(s, k, from, to) THEN <<s[k]>> ELSE <<>>]
ObjIn(s, from, to) == FlattenSeq(ObjParts(s, from, to))

\* They are rows of objects of a row's length.
LEMMA PartsAre ==
  ASSUME NEW s \in Streams, NEW from, NEW to
  PROVE  /\ ObjParts(s, from, to) \in Seq(Seq(Pieces)) /\ Len(ObjParts(s, from, to)) = Len(s)
         /\ \A k \in 1..Len(s) : ObjParts(s, from, to)[k] = IF Lies(s, k, from, to) THEN <<s[k]>> ELSE <<>>
<1>1. Len(s) \in Nat /\ \A k \in 1..Len(s) : s[k] \in Pieces
  BY StreamType
<1>2. \A k \in 1..Len(s) : (IF Lies(s, k, from, to) THEN <<s[k]>> ELSE <<>>) \in Seq(Pieces)
  BY <1>1
<1>3. ObjParts(s, from, to) \in [1..Len(s) -> Seq(Pieces)]
  BY <1>2 DEF ObjParts
<1>4. ObjParts(s, from, to) \in Seq(Seq(Pieces)) /\ Len(ObjParts(s, from, to)) = Len(s)
  BY <1>1, <1>3
<1>5. \A k \in 1..Len(s) : ObjParts(s, from, to)[k] = IF Lies(s, k, from, to) THEN <<s[k]>> ELSE <<>>
  BY DEF ObjParts
<1>6. QED
  BY <1>4, <1>5

\* Empty texts at the end add nothing.
LEMMA FlattenUpTo ==
  ASSUME NEW S, NEW ss \in Seq(Seq(S)), NEW m \in 0..Len(ss),
         \A k \in 1..Len(ss) : k > m => ss[k] = <<>>
  PROVE  FlattenSeq(ss) = FlattenSeq(SubSeq(ss, 1, m))
<1> DEFINE a == SubSeq(ss, 1, m)
           z == SubSeq(ss, m + 1, Len(ss))
<1>1. Len(ss) \in Nat /\ m \in Nat /\ a \in Seq(Seq(S)) /\ z \in Seq(Seq(S))
  OBVIOUS
<1>2. ss = a \o z
  <2>1. 1 \in 1..(Len(ss) + 1) /\ m \in (1 - 1)..Len(ss) /\ Len(ss) \in m..Len(ss)
    BY <1>1
  <2>2. SubSeq(ss, 1, m) \o SubSeq(ss, m + 1, Len(ss)) = SubSeq(ss, 1, Len(ss))
    BY <2>1, ConcatAdjacentSubSeq
  <2>3. QED
    BY <2>2, SubSeqFull
<1>3. z \in Seq({<<>>})
  <2>1. Len(z) = Len(ss) - m /\ \A i \in 1..Len(z) : z[i] = ss[m + i]
    BY <1>1
  <2>2. \A i \in 1..Len(z) : m + i \in 1..Len(ss) /\ m + i > m
    BY <1>1, <2>1
  <2>3. \A i \in 1..Len(z) : z[i] \in {<<>>}
    BY <2>1, <2>2
  <2> HIDE DEF z
  <2>4. QED
    BY <1>1, <2>3
<1> HIDE DEF a, z
<1>4. FlattenSeq(z) = <<>> /\ FlattenSeq(a) \in Seq(S)
  BY <1>1, <1>3, FlattenNothing, FlattenType
<1>5. FlattenSeq(ss) = FlattenSeq(a) \o FlattenSeq(z)
  BY <1>1, <1>2, FlattenConcat
<1>6. FlattenSeq(a) \o <<>> = FlattenSeq(a)
  BY <1>4, ConcatEmptySeq
<1>7. QED
  BY <1>4, <1>5, <1>6 DEF a

\* No object lies in no bytes.
LEMMA NoneLies ==
  ASSUME NEW s \in Streams, NEW x \in Nat
  PROVE  ObjIn(s, x, x) = <<>>
<1>1. \A k \in 1..Len(s) : ~Lies(s, k, x, x)
  <2> SUFFICES ASSUME NEW k \in 1..Len(s), Lies(s, k, x, x) PROVE FALSE
    OBVIOUS
  <2>1. k \in 0..Len(s) /\ k - 1 \in 0..Len(s) /\ k - 1 < k
    BY StreamType
  <2>2. Border(s, k - 1) < Border(s, k) /\ Border(s, k - 1) \in Nat /\ Border(s, k) \in Nat
    BY <2>1, BordersGrow, BorderIs
  <2>3. QED
    BY <2>2 DEF Lies
<1>2. ObjParts(s, x, x) \in [1..Len(s) -> {<<>>}]
  BY <1>1 DEF ObjParts
<1>3. ObjParts(s, x, x) \in Seq({<<>>})
  <2>1. Len(s) \in Nat
    BY StreamType
  <2>2. QED
    BY <1>2, <2>1
<1>4. QED
  BY <1>3, FlattenNothing DEF ObjIn

\* One object more.
LEMMA OneMore ==
  ASSUME NEW s \in Streams, NEW from \in Nat, NEW q \in 0..Len(s), NEW k \in 1..Len(s),
         q < k, Border(s, q) >= from, s[k] \in Objects,
         \A j \in 1..Len(s) : q < j /\ j < k => s[j] \notin Objects
  PROVE  ObjIn(s, from, Border(s, k)) = Append(ObjIn(s, from, Border(s, q)), s[k])
<1> DEFINE n == Len(s)
           P == ObjParts(s, from, Border(s, q))
           R == ObjParts(s, from, Border(s, k))
<1>1. n \in Nat /\ k - 1 \in 0..n /\ k \in 0..n /\ q \in Nat /\ \A j \in 0..n : Border(s, j) \in Nat
  BY StreamType, BorderIs
<1>2. ASSUME NEW j \in 1..n
      PROVE  /\ j < k => (Lies(s, j, from, Border(s, q)) <=> Lies(s, j, from, Border(s, k)))
             /\ j >= k => ~Lies(s, j, from, Border(s, q))
             /\ j = k => Lies(s, j, from, Border(s, k))
             /\ j > k => ~Lies(s, j, from, Border(s, k))
  <2>1. j \in 0..n /\ j - 1 \in 0..n
    BY <1>1
  <2>2. Border(s, q) < Border(s, k)
    BY <1>1, BordersGrow
  <2>3. CASE j <= q
    <3>1. Border(s, j) <= Border(s, q)
      <4>1. j = q \/ j < q
        BY <1>1, <2>3
      <4>2. CASE j = q
        BY <1>1, <4>2
      <4>3. CASE j < q
        BY <1>1, <2>1, <4>3, BordersGrow
      <4>4. QED
        BY <4>1, <4>2, <4>3
    <3>2. j < k
      BY <1>1, <2>3
    <3>3. QED
      BY <1>1, <2>1, <2>2, <3>1, <3>2 DEF Lies
  <2>4. CASE q < j /\ j < k
    <3>1. s[j] \notin Objects
      BY <2>4
    <3>2. QED
      BY <1>1, <2>4, <3>1 DEF Lies
  <2>5. CASE j = k
    <3>1. Border(s, k - 1) >= Border(s, q)
      <4>1. q = k - 1 \/ q < k - 1
        BY <1>1
      <4>2. CASE q = k - 1
        BY <1>1, <4>2
      <4>3. CASE q < k - 1
        BY <1>1, <4>3, BordersGrow
      <4>4. QED
        BY <4>1, <4>2, <4>3
    <3>2. QED
      BY <1>1, <2>2, <2>5, <3>1 DEF Lies
  <2>6. CASE j > k
    <3>1. Border(s, k) < Border(s, j)
      BY <1>1, <2>1, <2>6, BordersGrow
    <3>2. QED
      BY <1>1, <2>1, <2>2, <2>6, <3>1 DEF Lies
  <2>7. QED
    BY <1>1, <2>3, <2>4, <2>5, <2>6
<1>3. /\ P \in Seq(Seq(Pieces)) /\ Len(P) = n
      /\ R \in Seq(Seq(Pieces)) /\ Len(R) = n
      /\ \A j \in 1..n : P[j] = IF Lies(s, j, from, Border(s, q)) THEN <<s[j]>> ELSE <<>>
      /\ \A j \in 1..n : R[j] = IF Lies(s, j, from, Border(s, k)) THEN <<s[j]>> ELSE <<>>
  BY PartsAre
<1>4. ObjIn(s, from, Border(s, q)) = FlattenSeq(P) /\ ObjIn(s, from, Border(s, k)) = FlattenSeq(R)
  BY DEF ObjIn
<1> HIDE DEF P, R, n
<1>5. k \in 1..n
  BY DEF n
<1>6. \A j \in 1..n : /\ j < k => R[j] = P[j]
                      /\ j >= k => P[j] = <<>>
                      /\ j > k => R[j] = <<>>
  BY <1>2, <1>3
<1>7. R[k] = <<s[k]>>
  BY <1>2, <1>3, <1>5
<1>8. FlattenSeq(P) = FlattenSeq(SubSeq(P, 1, k - 1))
  <2>1. \A j \in 1..Len(P) : j > k - 1 => P[j] = <<>>
    BY <1>1, <1>3, <1>6
  <2>2. k - 1 \in 0..Len(P)
    BY <1>1, <1>3
  <2>3. QED
    BY <1>3, <2>1, <2>2, FlattenUpTo
<1>9. FlattenSeq(R) = FlattenSeq(SubSeq(R, 1, k))
  <2>1. k \in 0..Len(R) /\ \A j \in 1..Len(R) : j > k => R[j] = <<>>
    BY <1>1, <1>3, <1>6
  <2>2. QED
    BY <1>3, <2>1, FlattenUpTo
<1>10. SubSeq(R, 1, k - 1) = SubSeq(P, 1, k - 1)
  <2> DEFINE u == SubSeq(R, 1, k - 1)
             v == SubSeq(P, 1, k - 1)
  <2>1. u \in Seq(Seq(Pieces)) /\ v \in Seq(Seq(Pieces)) /\ Len(u) = k - 1 /\ Len(v) = k - 1
    BY <1>1, <1>3
  <2>2. ASSUME NEW j \in 1..(k - 1)
        PROVE  u[j] = R[j] /\ v[j] = P[j] /\ j \in 1..n /\ j < k
    <3>1. j \in 1..n /\ j < k
      BY <1>1, <1>5
    <3>2. u[j] = R[j] /\ v[j] = P[j]
      BY <1>1, <1>3, <1>5
    <3>3. QED
      BY <3>1, <3>2
  <2>3. \A j \in 1..Len(u) : u[j] = v[j]
    BY <1>6, <2>1, <2>2
  <2> HIDE DEF u, v
  <2>4. u = v
    BY <2>1, <2>3, SeqEqual
  <2>5. QED
    BY <2>4 DEF u, v
<1>11. FlattenSeq(R) = FlattenSeq(P) \o <<s[k]>>
  <2>1. FlattenSeq(SubSeq(R, 1, k)) = FlattenSeq(SubSeq(R, 1, k - 1)) \o R[k]
    BY <1>3, <1>5, FlattenAppend
  <2>2. QED
    BY <1>7, <1>8, <1>9, <1>10, <2>1
<1>12. FlattenSeq(P) \in Seq(Pieces) /\ s[k] \in Pieces
  BY <1>3, <1>5, FlattenType, StreamType DEF n
<1>13. QED
  BY <1>4, <1>11, <1>12, AppendIsConcat

\* The bytes up to the end of a later blank, or inside an object, hold no object more.
LEMMA NoMore ==
  ASSUME NEW s \in Streams, NEW from \in Nat, NEW q \in 0..Len(s), NEW to \in Nat,
         to >= Border(s, q),
         \A k \in 1..Len(s) : q < k /\ Border(s, k) <= to => s[k] \notin Objects
  PROVE  ObjIn(s, from, to) = ObjIn(s, from, Border(s, q))
<1>1. ASSUME NEW k \in 1..Len(s)
      PROVE  Lies(s, k, from, to) <=> Lies(s, k, from, Border(s, q))
  <2>1. k \in 0..Len(s) /\ k - 1 \in 0..Len(s) /\ k \in Nat /\ q \in Nat
    BY StreamType
  <2>2. Border(s, k) \in Nat /\ Border(s, q) \in Nat /\ Border(s, k - 1) \in Nat
    BY <2>1, BorderIs
  <2>3. CASE k <= q
    <3>1. Border(s, k) <= Border(s, q)
      <4>1. CASE k = q
        BY <2>2, <4>1
      <4>2. CASE k < q
        BY <2>1, <2>2, <4>2, BordersGrow
      <4>3. QED
        BY <2>1, <2>3, <4>1, <4>2
    <3>2. QED
      BY <2>2, <3>1 DEF Lies
  <2>4. CASE q < k
    <3>1. Border(s, q) < Border(s, k)
      BY <2>1, <2>4, BordersGrow
    <3>2. ~(Border(s, k) <= Border(s, q))
      BY <2>2, <3>1
    <3>3. QED
      BY <2>4, <3>2 DEF Lies
  <2>5. QED
    BY <2>1, <2>3, <2>4
<1>2. ObjParts(s, from, to) = ObjParts(s, from, Border(s, q))
  BY <1>1 DEF ObjParts
<1>3. QED
  BY <1>2 DEF ObjIn

-----------------------------------------------------------------------------
(* What a buffer that begins at a border begins with *)

\* The bytes a of a stream s have come and those behind its piece q are kept, no junk
\* among them.
BufferAt(buf, s, q, a) ==
  /\ q \in 0..Len(s) /\ a \in Nat /\ Border(s, q) <= a /\ a <= Len(FlattenSeq(s))
  /\ buf = SubSeq(FlattenSeq(s), Border(s, q) + 1, a)
  /\ \A k \in 1..Len(s) :
       Border(s, k) > Border(s, q) /\ Border(s, k - 1) < a => s[k] \notin Junk

\* Such a buffer is a text of the bytes between the border and the last that came.
LEMMA BufferType ==
  ASSUME NEW s \in Streams, NEW q, NEW a, NEW buf, BufferAt(buf, s, q, a)
  PROVE  /\ buf \in Seq(Byte) /\ Len(buf) = a - Border(s, q) /\ Len(buf) \in Nat
         /\ \A i \in 1..Len(buf) : buf[i] = FlattenSeq(s)[Border(s, q) + i]
         /\ FirstOf(buf) \in 1..(Len(buf) + 1)
<1> DEFINE W == FlattenSeq(s)
           p == Border(s, q)
<1>1. /\ q \in 0..Len(s) /\ a \in Nat /\ p <= a /\ a <= Len(W) /\ buf = SubSeq(W, p + 1, a)
  BY Zenon DEF BufferAt
<1>2. W \in Seq(Byte) /\ Len(W) \in Nat /\ p \in Nat
  BY <1>1, StreamType, BorderIs
<1> HIDE DEF W, p
<1>3. /\ buf \in Seq(Byte) /\ Len(buf) = a - p /\ Len(buf) \in Nat
      /\ \A i \in 1..Len(buf) : buf[i] = W[p + i]
  BY <1>1, <1>2
<1>4. FirstOf(buf) \in 1..(Len(buf) + 1)
  BY <1>3, FirstOfIs
<1>5. QED
  BY <1>3, <1>4 DEF W, p

\* Blanks, and then an object.
LEMMA NextPiece ==
  ASSUME NEW s \in Streams, NEW q, NEW a, NEW buf, BufferAt(buf, s, q, a)
  PROVE  LET f == FirstOf(buf)
         IN /\ q + (f - 1) \in 0..Len(s) /\ Border(s, q + (f - 1)) = Border(s, q) + (f - 1)
            /\ \A j \in 1..(f - 1) : s[q + j] = Blank
            /\ f <= Len(buf) => /\ q + f \in 1..Len(s) /\ s[q + f] \in Objects
                                /\ buf[f] = "lbrace"
<1> DEFINE f == FirstOf(buf)
           W == FlattenSeq(s)
           p == Border(s, q)
           d == f - 1
           n == Len(s)
           k == q + f
<1>1. /\ q \in 0..n /\ a \in Nat /\ p <= a /\ a <= Len(W)
      /\ \A i \in 1..n : Border(s, i) > p /\ Border(s, i - 1) < a => s[i] \notin Junk
  BY Zenon DEF BufferAt
<1>2. /\ n \in Nat /\ Len(W) \in Nat /\ p \in Nat /\ Border(s, n) = Len(W)
      /\ \A i \in 0..n : Border(s, i) \in Nat
  BY <1>1, StreamType, BorderIs
<1>3. /\ buf \in Seq(Byte) /\ Len(buf) = a - p /\ Len(buf) \in Nat /\ f \in 1..(Len(buf) + 1)
      /\ \A i \in 1..Len(buf) : buf[i] = W[p + i]
  BY BufferType
<1>4. /\ \A i \in 1..d : buf[i] = "space"
      /\ f <= Len(buf) => buf[f] # "space"
  BY <1>3, FirstOfIs
<1>5. q + d <= n /\ Border(s, q + d) = p + d /\ \A j \in 1..d : s[q + j] = Blank
  <2> HIDE DEF f, W, n
  <2>1. d \in Nat /\ p + d <= a /\ p + d <= Len(W)
    BY <1>1, <1>2, <1>3
  <2>2. \A i \in 1..d : W[p + i] = "space"
    BY <1>3, <1>4
  <2>3. \A i \in 1..n : Border(s, i) > p /\ Border(s, i - 1) < p + d => s[i] \notin Junk
    <3>1. ASSUME NEW i \in 1..n, Border(s, i) > p, Border(s, i - 1) < p + d
          PROVE  s[i] \notin Junk
      <4>1. i - 1 \in 0..n
        BY <1>2
      <4>2. Border(s, i - 1) < a
        BY <1>1, <1>2, <2>1, <3>1, <4>1
      <4>3. QED
        BY <1>1, <3>1, <4>2
    <3>2. QED
      BY <3>1
  <2> HIDE DEF d, p
  <2>4. QED
    BY <1>1, <2>1, <2>2, <2>3, BlankPieces DEF n, W, p
<1>6. q + d \in 0..n
  <2> HIDE DEF f, n
  <2>1. QED
    BY <1>1, <1>2, <1>3, <1>5
<1>7. ASSUME f <= Len(buf)
      PROVE  k \in 1..n /\ s[k] \in Objects /\ buf[f] = "lbrace"
  <2> HIDE DEF f, n, W, p
  <2>1. k - 1 = q + d /\ k - 1 \in 0..n /\ Border(s, k - 1) = p + d /\ p + d < a /\ p + d < Border(s, n)
    BY <1>1, <1>2, <1>3, <1>5, <1>6, <1>7
  <2>2. k \in 1..n
    <3>1. k - 1 # n
      BY <1>2, <1>3, <2>1
    <3>2. q \in Int /\ f \in Int
      BY <1>1, <1>2, <1>3
    <3>3. k \in Int
      BY <3>2
    <3> HIDE DEF k
    <3>4. QED
      BY <1>2, <2>1, <3>1, <3>3
  <2>3. Border(s, k - 1) < Border(s, k) /\ Border(s, k) \in Nat
    <3>1. k \in 0..n /\ k - 1 < k
      BY <1>2, <2>2
    <3> HIDE DEF k
    <3>2. QED
      BY <1>2, <2>1, <3>1, BordersGrow DEF n
  <2>4. Border(s, k) > p
    BY <1>2, <1>3, <2>1, <2>3
  <2>5. s[k] \notin Junk
    BY <1>1, <2>1, <2>2, <2>4
  <2>6. buf[f] = s[k][1]
    <3>1. p + f = (p + d) + 1
      BY <1>2, <1>3
    <3>2. buf[f] = W[p + f]
      BY <1>3, <1>7
    <3> HIDE DEF k, d
    <3>3. W[Border(s, k - 1) + 1] = s[k][1]
      BY <2>2, FirstByte DEF n, W
    <3>4. QED
      BY <2>1, <3>1, <3>2, <3>3
  <2> HIDE DEF k
  <2>7. s[k] # Blank
    BY <1>4, <1>7, <2>2, <2>6, FirstByte DEF n
  <2>8. s[k] \in Objects
    BY <2>2, <2>5, <2>7, FirstByte DEF n
  <2>9. s[k][1] = "lbrace"
    BY <2>2, <2>8, FirstByte DEF n
  <2>10. QED
    BY <2>2, <2>6, <2>8, <2>9
<1>8. QED
  BY <1>5, <1>6, <1>7

\* The object is found where its piece ends, when that has come.
LEMMA NextObject ==
  ASSUME NEW s \in Streams, NEW q, NEW a, NEW buf, BufferAt(buf, s, q, a),
         FirstOf(buf) <= Len(buf)
  PROVE  LET f == FirstOf(buf)
             k == q + f
             e == EndOf(Rest(buf))
         IN /\ Border(s, k) = Border(s, q) + (f - 1) + Len(s[k])
            /\ Border(s, k) <= a => e = Len(s[k]) /\ SubSeq(buf, f, f + e - 1) = s[k]
            /\ Border(s, k) > a => e = 0
<1> DEFINE f == FirstOf(buf)
           W == FlattenSeq(s)
           p == Border(s, q)
           k == q + f
           o == s[k]
           r == Rest(buf)
           e == EndOf(r)
<1>1. q \in 0..Len(s) /\ a \in Nat /\ p <= a /\ a <= Len(W) /\ p \in Nat /\ Len(s) \in Nat
  <2>1. q \in 0..Len(s) /\ a \in Nat /\ p <= a /\ a <= Len(W)
    BY Zenon DEF BufferAt
  <2>2. QED
    BY <2>1, StreamType, BorderIs
<1>2. /\ buf \in Seq(Byte) /\ Len(buf) = a - p /\ Len(buf) \in Nat /\ f \in 1..Len(buf)
      /\ \A i \in 1..Len(buf) : buf[i] = W[p + i]
  BY BufferType
<1>3. Border(s, q + (f - 1)) = p + (f - 1) /\ k \in 1..Len(s) /\ o \in Objects
  BY NextPiece
<1>4. q + (f - 1) = k - 1
  <2> HIDE DEF f
  <2>1. QED
    BY <1>1, <1>2
<1>5. o \in Seq(Byte) /\ Len(o) \in Nat /\ Len(o) > 0 /\ IsObject(o)
  BY <1>3, FramingAssumption, ObjectStops
<1>6. /\ Border(s, k) = (p + (f - 1)) + Len(o)
      /\ \A i \in 1..Len(o) : W[(p + (f - 1)) + i] = o[i]
  <2> HIDE DEF k, W
  <2>1. Border(s, k) = Border(s, k - 1) + Len(s[k])
        /\ \A i \in 1..Len(s[k]) : W[Border(s, k - 1) + i] = s[k][i]
    BY <1>3, BorderIs DEF W
  <2>2. QED
    BY <1>3, <1>4, <2>1
<1>7. /\ r \in Seq(Byte) /\ Len(r) = Len(buf) - f + 1 /\ Len(r) \in Nat
      /\ \A i \in 1..Len(r) : r[i] = W[(p + (f - 1)) + i]
  <2>1. r = SubSeq(buf, f, Len(buf))
    BY DEF Rest
  <2> HIDE DEF f, r, W, p
  <2>2. /\ r \in Seq(Byte) /\ Len(r) = Len(buf) - f + 1 /\ Len(r) \in Nat
        /\ \A i \in 1..Len(r) : r[i] = buf[f + i - 1]
    BY <1>2, <2>1
  <2>3. ASSUME NEW i \in 1..Len(r)
        PROVE  r[i] = W[(p + (f - 1)) + i]
    <3>1. f + i - 1 \in 1..Len(buf) /\ p + (f + i - 1) = (p + (f - 1)) + i
      BY <1>1, <1>2, <2>2
    <3>2. QED
      BY <1>2, <2>2, <3>1
  <2>4. QED
    BY <2>2, <2>3
<1>8. Border(s, k) <= a <=> Len(o) <= Len(r)
  <2> HIDE DEF f, r, o, p, k
  <2>1. QED
    BY <1>1, <1>2, <1>5, <1>6, <1>7
<1>9. ASSUME Len(o) <= Len(r)
      PROVE  e = Len(o) /\ SubSeq(buf, f, f + e - 1) = o
  <2> HIDE DEF f, r, o, p, W
  <2>1. \A i \in 1..Len(o) : r[i] = o[i]
    BY <1>5, <1>6, <1>7, <1>9
  <2>2. e = Len(o)
    BY <1>5, <1>7, <1>9, <2>1, EndFound
  <2> DEFINE x == SubSeq(buf, f, f + Len(o) - 1)
  <2>3. x \in Seq(Byte) /\ Len(x) = Len(o) /\ \A i \in 1..Len(o) : x[i] = buf[f + i - 1]
    BY <1>2, <1>5, <1>7, <1>9
  <2>4. ASSUME NEW i \in 1..Len(o)
        PROVE  x[i] = o[i]
    <3>1. f + i - 1 \in 1..Len(buf) /\ p + (f + i - 1) = (p + (f - 1)) + i
      BY <1>1, <1>2, <1>5, <1>7, <1>9
    <3> HIDE DEF x
    <3>2. QED
      BY <1>2, <1>6, <2>3, <3>1
  <2> HIDE DEF x
  <2>5. x = o
    BY <1>5, <2>3, <2>4, SeqEqual
  <2>6. QED
    BY <2>2, <2>5, Zenon DEF x
<1>10. ASSUME Len(r) < Len(o)
       PROVE  e = 0
  <2> HIDE DEF f, r, o, p, W
  <2>1. \A i \in 1..Len(r) : r[i] = o[i]
    BY <1>5, <1>6, <1>7, <1>10
  <2>2. QED
    BY <1>5, <1>7, <1>10, <2>1, EndNotFound
<1>11. Border(s, k) \in Nat
  <2> HIDE DEF f, r, o, p, k
  <2>1. QED
    BY <1>1, <1>2, <1>5, <1>6
<1>12. /\ Border(s, k) <= a => e = Len(o) /\ SubSeq(buf, f, f + e - 1) = o
       /\ Border(s, k) > a => e = 0
  <2> HIDE DEF f, r, o, p, k, e
  <2>1. Border(s, k) > a => Len(r) < Len(o)
    BY <1>1, <1>5, <1>7, <1>8, <1>11
  <2>2. QED
    BY <1>8, <1>9, <1>10, <2>1
<1>13. QED
  BY <1>6, <1>12

-----------------------------------------------------------------------------
(* Objects are understood *)

\* None of the bytes that came since the mark are junk's.
NoJunkSince(s, a, m) ==
  \A k \in 1..Len(s) : Border(s, k) > m.at /\ Border(s, k - 1) < a => s[k] \notin Junk

\* The buffer ends with the last byte that has come.
Ends(buf, w, a) == Len(buf) <= a /\ buf = SubSeq(w, a - Len(buf) + 1, a)

\* And without junk since the mark it begins at a border, with the objects from the
\* mark to there handled.
InStep(s, a, buf, req, m) ==
  /\ Ends(buf, FlattenSeq(s), a)
  /\ NoJunkSince(s, a, m) =>
       \E q \in 0..Len(s) :
         /\ Border(s, q) + Len(buf) = a /\ m.at <= Border(s, q)
         /\ SubSeq(req, m.after + 1, Len(req)) = ObjIn(s, m.at, Border(s, q))

\* The types of these.
Typed(s, a, buf, req, m) ==
  /\ s \in Streams /\ a \in Nat /\ a <= Len(FlattenSeq(s)) /\ buf \in Seq(Byte)
  /\ req \in Seq(Seq(Byte)) /\ m \in [at : Nat, after : Nat]
  /\ m.at <= a /\ m.after <= Len(req)

\* What follows from them.
LEMMA TypedIs ==
  ASSUME NEW s, NEW a, NEW buf, NEW req, NEW m, Typed(s, a, buf, req, m)
  PROVE  /\ s \in Streams /\ a \in Nat /\ a <= Len(FlattenSeq(s)) /\ buf \in Seq(Byte)
         /\ req \in Seq(Seq(Byte)) /\ m.at \in Nat /\ m.after \in Nat
         /\ m.at <= a /\ m.after <= Len(req) /\ Len(req) \in Nat /\ Len(buf) \in Nat
         /\ FlattenSeq(s) \in Seq(Byte) /\ Len(FlattenSeq(s)) \in Nat /\ Len(s) \in Nat
         /\ \A q \in 0..Len(s) : Border(s, q) \in Nat
<1>1. /\ s \in Streams /\ a \in Nat /\ a <= Len(FlattenSeq(s)) /\ buf \in Seq(Byte)
      /\ req \in Seq(Seq(Byte)) /\ m \in [at : Nat, after : Nat]
      /\ m.at <= a /\ m.after <= Len(req)
  BY Zenon DEF Typed
<1>2. m.at \in Nat /\ m.after \in Nat /\ Len(req) \in Nat /\ Len(buf) \in Nat
  BY <1>1
<1>3. QED
  BY <1>1, <1>2, StreamType, BorderIs

\* Without junk, the buffer is as the lemmas above want it.
LEMMA InStepAt ==
  ASSUME NEW s, NEW a, NEW buf, NEW req, NEW m, Typed(s, a, buf, req, m),
         InStep(s, a, buf, req, m), NoJunkSince(s, a, m)
  PROVE  \E q \in 0..Len(s) :
           /\ BufferAt(buf, s, q, a)
           /\ Border(s, q) \in Nat /\ Border(s, q) + Len(buf) = a /\ m.at <= Border(s, q)
           /\ SubSeq(req, m.after + 1, Len(req)) = ObjIn(s, m.at, Border(s, q))
<1>1. PICK q \in 0..Len(s) :
        /\ Border(s, q) + Len(buf) = a /\ m.at <= Border(s, q)
        /\ SubSeq(req, m.after + 1, Len(req)) = ObjIn(s, m.at, Border(s, q))
  BY Zenon DEF InStep
<1>2. Border(s, q) \in Nat /\ a \in Nat /\ Len(buf) \in Nat /\ a <= Len(FlattenSeq(s)) /\ m.at \in Nat
  BY TypedIs
<1>3. buf = SubSeq(FlattenSeq(s), Border(s, q) + 1, a)
  <2>1. buf = SubSeq(FlattenSeq(s), a - Len(buf) + 1, a)
    BY Zenon DEF InStep, Ends
  <2>2. a - Len(buf) + 1 = Border(s, q) + 1
    BY <1>1, <1>2
  <2>3. QED
    BY <2>1, <2>2
<1>4. ASSUME NEW k \in 1..Len(s), Border(s, k) > Border(s, q), Border(s, k - 1) < a
      PROVE  s[k] \notin Junk
  <2>1. k \in 0..Len(s)
    BY TypedIs
  <2>2. Border(s, k) > m.at
    BY <1>1, <1>2, <1>4, <2>1, TypedIs
  <2>3. QED
    BY <1>4, <2>2 DEF NoJunkSince
<1>5. Border(s, q) <= a
  BY <1>1, <1>2
<1>6. BufferAt(buf, s, q, a)
  BY <1>1, <1>2, <1>3, <1>4, <1>5 DEF BufferAt
<1>7. QED
  BY <1>1, <1>2, <1>6

\* A connection starts in step.
LEMMA InStepStart ==
  ASSUME NEW s \in Streams
  PROVE  InStep(s, 0, <<>>, <<>>, Start)
<1>1. Len(s) \in Nat /\ 0 \in 0..Len(s) /\ Border(s, 0) = 0 /\ Len(<<>>) = 0
  BY StreamType, BorderIs
<1>2. <<>> = SubSeq(FlattenSeq(s), 0 - Len(<<>>) + 1, 0)
  BY <1>1, SubSeqEmpty
<1>3. SubSeq(<<>>, Start.after + 1, Len(<<>>)) = <<>>
  BY <1>1, SubSeqEmpty DEF Start
<1>4. ObjIn(s, Start.at, Border(s, 0)) = <<>>
  BY <1>1, NoneLies DEF Start
<1>5. Border(s, 0) + Len(<<>>) = 0 /\ Start.at <= Border(s, 0)
  BY <1>1 DEF Start
<1>6. Len(<<>>) <= 0
  BY <1>1
<1>7. QED
  BY <1>1, <1>2, <1>3, <1>4, <1>5, <1>6, Zenon DEF InStep, Ends

\* A read appends to its buffer the bytes that come next.
LEMMA InStepRead ==
  ASSUME NEW s, NEW a, NEW buf, NEW req, NEW m, Typed(s, a, buf, req, m),
         InStep(s, a, buf, req, m), NEW n \in Nat, a + n <= Len(FlattenSeq(s))
  PROVE  InStep(s, a + n, buf \o SubSeq(FlattenSeq(s), a + 1, a + n), req, m)
<1> DEFINE W == FlattenSeq(s)
           more == SubSeq(W, a + 1, a + n)
           new == buf \o more
<1>1. /\ a \in Nat /\ buf \in Seq(Byte) /\ Len(buf) \in Nat /\ W \in Seq(Byte) /\ Len(W) \in Nat
      /\ Len(s) \in Nat /\ \A q \in 0..Len(s) : Border(s, q) \in Nat
  BY TypedIs
<1>2. Ends(buf, W, a) /\ Len(buf) <= a /\ buf = SubSeq(W, a - Len(buf) + 1, a)
  BY Zenon DEF InStep, Ends
<1> HIDE DEF W
<1>3. more \in Seq(Byte) /\ Len(more) = n /\ a + n <= Len(W)
  BY <1>1 DEF W
<1>4. new \in Seq(Byte) /\ Len(new) = Len(buf) + n
  <2>1. buf \in Seq(Byte) /\ more \in Seq(Byte)
    BY <1>1, <1>3
  <2> HIDE DEF more
  <2>2. new \in Seq(Byte) /\ Len(new) = Len(buf) + Len(more)
    BY <2>1, ConcatProperties
  <2>3. QED
    BY <1>3, <2>2
<1>5. new = SubSeq(W, (a + n) - Len(new) + 1, a + n)
  <2> DEFINE c == a - Len(buf) + 1
  <2>1. c \in 1..(Len(W) + 1) /\ a \in (c - 1)..Len(W) /\ a + n \in a..Len(W) /\ (a + n) - Len(new) + 1 = c
    <3> HIDE DEF new
    <3>1. QED
      BY <1>1, <1>2, <1>3, <1>4
  <2> HIDE DEF c
  <2>2. SubSeq(W, c, a) \o SubSeq(W, a + 1, a + n) = SubSeq(W, c, a + n)
    BY <1>1, <2>1, ConcatAdjacentSubSeq
  <2>3. new = SubSeq(W, c, a + n)
    BY <1>2, <2>2, Zenon DEF c
  <2>4. QED
    BY <2>1, <2>3
<1>6. ASSUME NoJunkSince(s, a + n, m)
      PROVE  NoJunkSince(s, a, m)
  <2> SUFFICES ASSUME NEW k \in 1..Len(s), Border(s, k) > m.at, Border(s, k - 1) < a
               PROVE  s[k] \notin Junk
    BY DEF NoJunkSince
  <2>1. Border(s, k - 1) < a + n
    <3>1. k - 1 \in 0..Len(s)
      BY <1>1
    <3>2. QED
      BY <1>1, <3>1
  <2>2. QED
    BY <1>6, <2>1 DEF NoJunkSince
<1>7. ASSUME NoJunkSince(s, a + n, m)
      PROVE  \E q \in 0..Len(s) :
               /\ Border(s, q) + Len(new) = a + n /\ m.at <= Border(s, q)
               /\ SubSeq(req, m.after + 1, Len(req)) = ObjIn(s, m.at, Border(s, q))
  <2>1. PICK q \in 0..Len(s) :
          /\ Border(s, q) + Len(buf) = a /\ m.at <= Border(s, q)
          /\ SubSeq(req, m.after + 1, Len(req)) = ObjIn(s, m.at, Border(s, q))
    BY <1>6, <1>7, Zenon DEF InStep
  <2> HIDE DEF new
  <2>2. Border(s, q) + Len(new) = a + n
    <3>1. Border(s, q) \in Nat /\ Border(s, q) + Len(buf) = a
      BY <1>1, <2>1
    <3>2. QED
      BY <1>1, <1>4, <3>1
  <2>3. QED
    BY <2>1, <2>2
<1>8. Len(new) <= a + n
  <2> HIDE DEF new
  <2>1. QED
    BY <1>1, <1>2, <1>4
<1>9. InStep(s, a + n, new, req, m)
  BY <1>5, <1>7, <1>8, Zenon DEF InStep, Ends, W
<1>10. QED
  BY <1>9 DEF W

\* A part of a part.
LEMMA PartOf ==
  ASSUME NEW S, NEW t \in Seq(S), NEW i \in 1..(Len(t) + 1), NEW n \in (i - 1)..Len(t)
  PROVE  /\ SubSeq(t, i, n) \in Seq(S) /\ Len(SubSeq(t, i, n)) = n - i + 1
         /\ Len(SubSeq(t, i, n)) \in Nat
         /\ \A j \in 1..(n - i + 1) : i + j - 1 \in 1..Len(t) /\ SubSeq(t, i, n)[j] = t[i + j - 1]
<1>1. Len(t) \in Nat /\ i \in Int /\ n \in Int /\ \A j \in 1..Len(t) : t[j] \in S
  OBVIOUS
<1>2. \A j \in i..n : t[j] \in S
  BY <1>1
<1>3. /\ SubSeq(t, i, n) \in Seq(S)
      /\ Len(SubSeq(t, i, n)) = IF i <= n THEN n - i + 1 ELSE 0
      /\ \A j \in 1..(n - i + 1) : SubSeq(t, i, n)[j] = t[i + j - 1]
  BY <1>1, <1>2, SubSeqProperties
<1>4. \A j \in 1..(n - i + 1) : i + j - 1 \in 1..Len(t)
  BY <1>1
<1>5. Len(SubSeq(t, i, n)) = n - i + 1 /\ n - i + 1 \in Nat
  BY <1>1, <1>3
<1>6. QED
  BY <1>3, <1>4, <1>5

\* The end of an end.
LEMMA EndOfEnd ==
  ASSUME NEW w \in Seq(Byte), NEW a \in 0..Len(w), NEW t \in Seq(Byte), Ends(t, w, a),
         NEW c \in 1..(Len(t) + 1),
         NEW u, u = SubSeq(t, c, Len(t))
  PROVE  /\ u \in Seq(Byte) /\ Len(u) = Len(t) - c + 1 /\ Len(u) \in Nat
         /\ Ends(u, w, a)
<1> DEFINE n == Len(t)
           y == SubSeq(t, c, n)
           z == SubSeq(w, a - (n - c + 1) + 1, a)
<1>1. n \in Nat /\ Len(w) \in Nat /\ a \in Nat /\ c \in Nat /\ c <= n + 1 /\ c >= 1 /\ n <= a
  BY DEF Ends
<1> HIDE DEF n
<1>2. /\ y \in Seq(Byte) /\ Len(y) = n - c + 1 /\ Len(y) \in Nat
      /\ \A j \in 1..(n - c + 1) : c + j - 1 \in 1..n /\ y[j] = t[c + j - 1]
  <2>1. c \in 1..(Len(t) + 1) /\ n \in (c - 1)..Len(t) /\ n = Len(t)
    BY <1>1 DEF n
  <2>2. QED
    BY <2>1, PartOf
<1>3. \A j \in 1..n : t[j] = w[a - n + j]
  <2> DEFINE i == a - n + 1
  <2>1. i \in 1..(Len(w) + 1) /\ a \in (i - 1)..Len(w) /\ a - i + 1 = n /\ t = SubSeq(w, i, a)
    BY <1>1 DEF Ends, n
  <2>2. \A j \in 1..n : i + j - 1 = a - n + j
    BY <1>1
  <2> HIDE DEF i
  <2>3. \A j \in 1..(a - i + 1) : SubSeq(w, i, a)[j] = w[i + j - 1]
    BY <2>1, PartOf
  <2>4. QED
    BY <2>1, <2>2, <2>3
<1>4. /\ z \in Seq(Byte) /\ Len(z) = n - c + 1
      /\ \A j \in 1..(n - c + 1) : z[j] = w[a - n + (c + j - 1)]
  <2> DEFINE i == a - (n - c + 1) + 1
  <2>1. i \in 1..(Len(w) + 1) /\ a \in (i - 1)..Len(w) /\ a - i + 1 = n - c + 1
    BY <1>1
  <2>2. \A j \in 1..(n - c + 1) : i + j - 1 = a - n + (c + j - 1)
    BY <1>1
  <2> HIDE DEF i
  <2>3. /\ SubSeq(w, i, a) \in Seq(Byte) /\ Len(SubSeq(w, i, a)) = a - i + 1
        /\ \A j \in 1..(a - i + 1) : SubSeq(w, i, a)[j] = w[i + j - 1]
    BY <2>1, PartOf
  <2>4. z = SubSeq(w, i, a)
    BY DEF i
  <2> HIDE DEF z
  <2>5. QED
    BY <2>1, <2>2, <2>3, <2>4
<1> HIDE DEF y, z
<1>5. Len(y) = Len(z) /\ \A j \in 1..Len(y) : y[j] = z[j]
  BY <1>2, <1>3, <1>4
<1>6. y = z
  BY <1>2, <1>4, <1>5, SeqEqual
<1>7. a - (n - c + 1) + 1 = a - Len(y) + 1 /\ Len(y) <= a
  BY <1>1, <1>2
<1>8. u = y
  BY DEF y, n
<1>9. QED
  BY <1>2, <1>6, <1>7, <1>8 DEF z, n, Ends

\* The end of what is appended to.
LEMMA EndGrows ==
  ASSUME NEW S, NEW t \in Seq(S), NEW x \in S, NEW n \in 0..Len(t)
  PROVE  SubSeq(Append(t, x), n + 1, Len(Append(t, x))) = Append(SubSeq(t, n + 1, Len(t)), x)
<1> DEFINE all == Append(t, x)
           m == Len(t)
           h == SubSeq(t, n + 1, m)
           g == SubSeq(all, n + 1, m + 1)
<1>1. /\ m \in Nat /\ n \in Nat /\ n <= m
      /\ all \in Seq(S) /\ Len(all) = m + 1 /\ all[m + 1] = x /\ \A i \in 1..m : all[i] = t[i]
  BY AppendProperties
<1>2. /\ h \in Seq(S) /\ Len(h) = m - n /\ \A j \in 1..(m - n) : n + j \in 1..m /\ h[j] = t[n + j]
  <2> DEFINE i == n + 1
  <2>1. i \in 1..(Len(t) + 1) /\ m \in (i - 1)..Len(t) /\ m - i + 1 = m - n
        /\ \A j \in 1..(m - n) : i + j - 1 = n + j
    BY <1>1
  <2> HIDE DEF i
  <2>2. /\ SubSeq(t, i, m) \in Seq(S) /\ Len(SubSeq(t, i, m)) = m - i + 1
        /\ \A j \in 1..(m - i + 1) : i + j - 1 \in 1..m /\ SubSeq(t, i, m)[j] = t[i + j - 1]
    BY <2>1, PartOf
  <2>3. h = SubSeq(t, i, m)
    BY DEF i
  <2> HIDE DEF h, m
  <2>4. QED
    BY <2>1, <2>2, <2>3
<1> HIDE DEF all, m
<1>3. /\ g \in Seq(S) /\ Len(g) = m - n + 1 /\ \A j \in 1..(m - n + 1) : g[j] = all[n + j]
  <2> DEFINE i == n + 1
  <2>1. i \in 1..(Len(all) + 1) /\ m + 1 \in (i - 1)..Len(all) /\ (m + 1) - i + 1 = m - n + 1
        /\ \A j \in 1..(m - n + 1) : i + j - 1 = n + j
    BY <1>1
  <2> HIDE DEF i
  <2>2. /\ SubSeq(all, i, m + 1) \in Seq(S) /\ Len(SubSeq(all, i, m + 1)) = (m + 1) - i + 1
        /\ \A j \in 1..((m + 1) - i + 1) : SubSeq(all, i, m + 1)[j] = all[i + j - 1]
    BY <1>1, <2>1, PartOf
  <2>3. g = SubSeq(all, i, m + 1)
    BY DEF i
  <2> HIDE DEF g
  <2>4. QED
    BY <2>1, <2>2, <2>3
<1> HIDE DEF g, h
<1>4. /\ Append(h, x) \in Seq(S) /\ Len(Append(h, x)) = (m - n) + 1
      /\ \A j \in 1..(m - n) : Append(h, x)[j] = h[j]
      /\ Append(h, x)[(m - n) + 1] = x
  BY <1>2, AppendProperties
<1>5. ASSUME NEW j \in 1..Len(g)
      PROVE  g[j] = Append(h, x)[j]
  <2>1. CASE j = m - n + 1
    <3>1. n + j = m + 1
      BY <1>1, <2>1
    <3>2. QED
      BY <1>1, <1>3, <1>4, <2>1, <3>1
  <2>2. CASE j # m - n + 1
    <3>1. j \in 1..(m - n) /\ n + j \in 1..m
      BY <1>1, <1>3, <2>2
    <3>2. QED
      BY <1>1, <1>2, <1>3, <1>4, <3>1
  <2>3. QED
    BY <2>1, <2>2
<1>6. Len(g) = Len(Append(h, x))
  BY <1>1, <1>3, <1>4
<1>7. g = Append(h, x)
  BY <1>3, <1>4, <1>5, <1>6, SeqEqual
<1>8. QED
  BY <1>1, <1>7 DEF g, h, all, m

\* A turn of the loop.
LEMMA InStepHandle ==
  ASSUME NEW s, NEW a, NEW buf, NEW req, NEW m, Typed(s, a, buf, req, m),
         InStep(s, a, buf, req, m), Extract(buf).found = TRUE
  PROVE  InStep(s, a, Extract(buf).rest, Append(req, Extract(buf).text), m)
<1> DEFINE W == FlattenSeq(s)
           f == FirstOf(buf)
           x == Extract(buf).text
           y == Extract(buf).rest
           all == Append(req, x)
<1>1. /\ s \in Streams /\ a \in Nat /\ a <= Len(W) /\ buf \in Seq(Byte) /\ Len(buf) \in Nat
      /\ W \in Seq(Byte) /\ Len(W) \in Nat /\ Len(s) \in Nat
      /\ req \in Seq(Seq(Byte)) /\ Len(req) \in Nat /\ m.at \in Nat /\ m.after \in Nat /\ m.after <= Len(req)
      /\ \A q \in 0..Len(s) : Border(s, q) \in Nat
  BY TypedIs
<1>2. Ends(buf, W, a) /\ Len(buf) <= a /\ buf = SubSeq(W, a - Len(buf) + 1, a)
  BY Zenon DEF InStep, Ends
<1>3. f \in 1..(Len(buf) + 1)
  BY <1>1, FirstOfIs
<1>4. CASE NoObject(buf)
  <2>1. y = <<>> /\ Len(y) = 0
    BY <1>4 DEF NoObject
  <2>2. y = SubSeq(W, a - Len(y) + 1, a) /\ Len(y) <= a
    <3> HIDE DEF W, y
    <3>1. a - Len(y) + 1 > a
      BY <1>1, <2>1
    <3>2. QED
      BY <1>1, <2>1, <3>1, SubSeqEmpty
  <2>3. ~NoJunkSince(s, a, m)
    <3> SUFFICES ASSUME NoJunkSince(s, a, m) PROVE FALSE
      OBVIOUS
    <3>1. PICK q \in 0..Len(s) : BufferAt(buf, s, q, a)
      BY InStepAt
    <3>2. f <= Len(buf) => buf[f] = "lbrace"
      BY <1>1, <3>1, NextPiece
    <3>3. QED
      BY <1>4, <3>2 DEF NoObject
  <2>4. QED
    BY <2>2, <2>3, Zenon DEF InStep, Ends
<1>5. CASE \E e \in Nat : Finished(buf, e)
  <2>1. PICK e \in Nat : Finished(buf, e)
    BY <1>5
  <2>2. /\ x = SubSeq(buf, f, f + e - 1) /\ y = SubSeq(buf, f + e, Len(buf))
        /\ e > 0 /\ f + e <= Len(buf) + 1
    BY <2>1, FinishedIs, Zenon
  <2>3. e = EndOf(Rest(buf)) /\ f <= Len(buf)
    BY <2>1 DEF Finished
  <2> HIDE DEF W, f, x, y
  <2> DEFINE c == f + e
  <2>4. c \in 1..(Len(buf) + 1) /\ a \in 0..Len(W) /\ Len(buf) - c + 1 = Len(buf) - f - e + 1
    BY <1>1, <1>3, <2>2
  <2>5. y = SubSeq(buf, c, Len(buf))
    BY <2>2
  <2> HIDE DEF c
  <2>6. /\ Len(y) = Len(buf) - f - e + 1 /\ Len(y) \in Nat /\ Len(y) <= a
        /\ y = SubSeq(W, a - Len(y) + 1, a)
    <3>1. W \in Seq(Byte) /\ buf \in Seq(Byte)
      BY <1>1
    <3>2. Len(y) = Len(buf) - c + 1 /\ Len(y) \in Nat /\ Ends(y, W, a)
      BY <1>2, <2>4, <2>5, <3>1, EndOfEnd, Zenon
    <3>3. QED
      BY <2>4, <3>2, Zenon DEF Ends
  <2>7. ASSUME NoJunkSince(s, a, m)
        PROVE  \E q \in 0..Len(s) :
                 /\ Border(s, q) + Len(y) = a /\ m.at <= Border(s, q)
                 /\ SubSeq(all, m.after + 1, Len(all)) = ObjIn(s, m.at, Border(s, q))
    <3>1. PICK q \in 0..Len(s) :
            /\ BufferAt(buf, s, q, a)
            /\ Border(s, q) \in Nat /\ Border(s, q) + Len(buf) = a /\ m.at <= Border(s, q)
            /\ SubSeq(req, m.after + 1, Len(req)) = ObjIn(s, m.at, Border(s, q))
      BY <2>7, InStepAt
    <3> DEFINE k == q + f
    <3>2. /\ k \in 1..Len(s) /\ s[k] \in Objects
          /\ \A j \in 1..(f - 1) : s[q + j] = Blank
      BY <1>1, <2>3, <3>1, NextPiece DEF f
    <3>3. /\ Border(s, k) = Border(s, q) + (f - 1) + Len(s[k])
          /\ Border(s, k) <= a => e = Len(s[k]) /\ SubSeq(buf, f, f + e - 1) = s[k]
          /\ Border(s, k) > a => e = 0
      BY <1>1, <2>3, <3>1, NextObject DEF f
    <3>4. k \in 0..Len(s) /\ q < k /\ Border(s, k) \in Nat
      <4>1. k \in 0..Len(s) /\ q < k
        BY <1>1, <1>3, <3>2
      <4> HIDE DEF k
      <4>2. QED
        BY <1>1, <4>1
    <3>5. e = Len(s[k]) /\ x = s[k]
      <4> HIDE DEF k
      <4>1. ~(Border(s, k) > a)
        BY <2>2, <3>3
      <4>2. Border(s, k) <= a
        BY <1>1, <3>4, <4>1
      <4>3. QED
        BY <2>2, <3>3, <4>2
    <3>6. \A j \in 1..Len(s) : q < j /\ j < k => s[j] \notin Objects
      <4> SUFFICES ASSUME NEW j \in 1..Len(s), q < j, j < k PROVE s[j] \notin Objects
        OBVIOUS
      <4>1. j - q \in 1..(f - 1) /\ q + (j - q) = j
        BY <1>1, <1>3
      <4>2. s[j] = Blank
        BY <3>2, <4>1
      <4>3. s \in Streams /\ (s[j] \in Objects => s[j] # Blank)
        BY <1>1, FirstByte
      <4>4. QED
        BY <4>2, <4>3
    <3>7. ObjIn(s, m.at, Border(s, k)) = Append(ObjIn(s, m.at, Border(s, q)), s[k])
      <4> HIDE DEF k
      <4>1. QED
        BY <1>1, <3>1, <3>2, <3>4, <3>6, OneMore
    <3>8. SubSeq(all, m.after + 1, Len(all)) = Append(SubSeq(req, m.after + 1, Len(req)), x)
      <4>1. x \in Seq(Byte)
        BY <1>1, ExtractType DEF x
      <4>2. m.after \in 0..Len(req)
        BY <1>1
      <4>3. QED
        BY <1>1, <4>1, <4>2, EndGrows
    <3>9. Border(s, k) + Len(y) = a /\ m.at <= Border(s, k)
      <4> HIDE DEF k
      <4> DEFINE v == Border(s, q)
                 w == Border(s, k)
      <4>1. w = v + (f - 1) + e /\ v \in Nat /\ v + Len(buf) = a /\ m.at <= v
        BY <3>1, <3>3, <3>5
      <4> HIDE DEF v, w
      <4>2. f \in Nat /\ f >= 1 /\ e \in Nat /\ m.at \in Nat /\ Len(y) = Len(buf) - f - e + 1
            /\ Len(buf) \in Nat /\ a \in Nat
        BY <1>1, <1>3, <2>6
      <4>3. w + Len(y) = a
        BY <4>1, <4>2
      <4>4. m.at <= w
        BY <4>1, <4>2
      <4>5. QED
        BY <4>3, <4>4 DEF v, w
    <3> HIDE DEF k, all
    <3>10. SubSeq(all, m.after + 1, Len(all)) = ObjIn(s, m.at, Border(s, k))
      BY <3>1, <3>5, <3>7, <3>8
    <3>11. QED
      BY <3>4, <3>9, <3>10
  <2> HIDE DEF all
  <2>8. InStep(s, a, y, all, m)
    BY <2>6, <2>7, Zenon DEF InStep, Ends, W
  <2>9. QED
    BY <2>8 DEF y, all, x
<1>6. ~AllBlank(buf) /\ ~Unfinished(buf)
  BY DEF AllBlank, Unfinished
<1>7. QED
  BY <1>1, <1>4, <1>5, <1>6, ExtractCases

\* The loop's end, when the mark moves.
LEMMA InStepMarked ==
  ASSUME NEW s, NEW a, NEW buf, NEW req, NEW m, Typed(s, a, buf, req, m),
         NEW k \in 0..Len(s), a = Border(s, k)
  PROVE  InStep(s, a, <<>>, req, [at |-> a, after |-> Len(req)])
<1> DEFINE here == [at |-> a, after |-> Len(req)]
<1>1. s \in Streams /\ a \in Nat /\ Len(req) \in Nat /\ Len(<<>>) = 0 /\ here.at = a /\ here.after = Len(req)
  BY TypedIs
<1>2. Ends(<<>>, FlattenSeq(s), a)
  <2>1. a - Len(<<>>) + 1 > a /\ Len(<<>>) <= a
    BY <1>1
  <2>2. QED
    BY <1>1, <2>1, SubSeqEmpty DEF Ends
<1>3. SubSeq(req, here.after + 1, Len(req)) = <<>>
  <2>1. Len(req) + 1 > Len(req)
    BY <1>1
  <2>2. QED
    BY <1>1, <2>1, SubSeqEmpty
<1>4. ObjIn(s, here.at, Border(s, k)) = <<>>
  BY <1>1, NoneLies
<1>5. Border(s, k) + Len(<<>>) = a /\ here.at <= Border(s, k)
  BY <1>1
<1> HIDE DEF here
<1>6. InStep(s, a, <<>>, req, here)
  BY <1>2, <1>3, <1>4, <1>5, Zenon DEF InStep
<1>7. QED
  BY <1>6 DEF here

\* And when it does not.
LEMMA InStepKept ==
  ASSUME NEW s, NEW a, NEW buf, NEW req, NEW m, Typed(s, a, buf, req, m),
         InStep(s, a, buf, req, m), Extract(buf).found = FALSE,
         ~(Extract(buf).rest = <<>> /\ \E k \in 0..Len(s) : a = Border(s, k))
  PROVE  InStep(s, a, Extract(buf).rest, req, m)
<1>1. a \in Nat /\ s \in Streams /\ buf \in Seq(Byte) /\ Len(buf) \in Nat
  BY TypedIs
<1>2. CASE AllBlank(buf)
  <2>1. Extract(buf).rest = <<>> /\ FirstOf(buf) = Len(buf) + 1
    BY <1>2 DEF AllBlank
  <2>2. Ends(<<>>, FlattenSeq(s), a)
    <3>1. a - Len(<<>>) + 1 > a /\ Len(<<>>) <= a /\ a - Len(<<>>) + 1 \in Int /\ a \in Int
      BY <1>1
    <3>2. QED
      BY <3>1, SubSeqEmpty DEF Ends
  <2>3. ~NoJunkSince(s, a, m)
    <3> SUFFICES ASSUME NoJunkSince(s, a, m) PROVE FALSE
      OBVIOUS
    <3>1. PICK q \in 0..Len(s) : BufferAt(buf, s, q, a) /\ Border(s, q) \in Nat /\ Border(s, q) + Len(buf) = a
      BY InStepAt
    <3>2. q + (FirstOf(buf) - 1) \in 0..Len(s)
          /\ Border(s, q + (FirstOf(buf) - 1)) = Border(s, q) + (FirstOf(buf) - 1)
      BY <1>1, <3>1, NextPiece
    <3>3. Border(s, q + (FirstOf(buf) - 1)) = a
      BY <1>1, <2>1, <3>1, <3>2
    <3>4. QED
      BY <2>1, <3>2, <3>3, Zenon
  <2>4. QED
    BY <2>1, <2>2, <2>3, Zenon DEF InStep
<1>3. CASE Unfinished(buf)
  <2>1. Extract(buf).rest = buf
    BY <1>3 DEF Unfinished
  <2>2. QED
    BY <2>1
<1>4. ~NoObject(buf) /\ \A e \in Nat : ~Finished(buf, e)
  <2>1. ~NoObject(buf)
    BY DEF NoObject
  <2>2. ASSUME NEW e \in Nat, Finished(buf, e)
        PROVE  FALSE
    BY <2>2, FinishedIs
  <2>3. QED
    BY <2>1, <2>2
<1>5. QED
  BY <1>1, <1>2, <1>3, <1>4, ExtractCases

\* When all that is kept is the beginning of an object, all of them are handled.
LEMMA InStepSays ==
  ASSUME NEW s, NEW a, NEW buf, NEW req, NEW m, Typed(s, a, buf, req, m),
         InStep(s, a, buf, req, m), OneBeginning(buf), NoJunkSince(s, a, m)
  PROVE  SubSeq(req, m.after + 1, Len(req)) = ObjIn(s, m.at, a)
<1> DEFINE f == FirstOf(buf)
<1>1. /\ s \in Streams /\ a \in Nat /\ buf \in Seq(Byte) /\ Len(buf) \in Nat /\ m.at \in Nat /\ Len(s) \in Nat
      /\ \A k \in 0..Len(s) : Border(s, k) \in Nat
  BY TypedIs
<1>2. PICK q \in 0..Len(s) :
        /\ BufferAt(buf, s, q, a)
        /\ Border(s, q) \in Nat /\ Border(s, q) + Len(buf) = a /\ m.at <= Border(s, q)
        /\ SubSeq(req, m.after + 1, Len(req)) = ObjIn(s, m.at, Border(s, q))
  BY InStepAt
<1>3. CASE buf = <<>>
  <2>1. Len(buf) = 0
    BY <1>3
  <2>2. Border(s, q) = a
    BY <1>1, <1>2, <2>1
  <2>3. QED
    BY <1>2, <2>2
<1>4. CASE buf # <<>>
  <2> DEFINE k == q + f
             e == EndOf(Rest(buf))
  <2>1. /\ f <= Len(buf) /\ f \in Nat /\ f >= 1
        /\ \A n \in f..Len(buf) : SubSeq(buf, f, n) \notin Objects
    BY <1>1, <1>4, FirstOfIs DEF OneBeginning
  <2>2. k \in 1..Len(s) /\ s[k] \in Objects /\ \A j \in 1..(f - 1) : s[q + j] = Blank
    <3> HIDE DEF f
    <3>1. f <= Len(buf) /\ s \in Streams /\ BufferAt(buf, s, q, a)
      BY <1>1, <1>2, <2>1
    <3>2. k \in 1..Len(s) /\ s[k] \in Objects
      BY <3>1, NextPiece DEF f
    <3>3. \A j \in 1..(f - 1) : s[q + j] = Blank
      BY <3>1, NextPiece DEF f
    <3>4. QED
      BY <3>2, <3>3
  <2>3. /\ Border(s, k) = Border(s, q) + (f - 1) + Len(s[k])
        /\ Border(s, k) <= a => e = Len(s[k]) /\ SubSeq(buf, f, f + e - 1) = s[k]
    BY <1>1, <1>2, <2>1, NextObject
  <2>4. Len(s[k]) \in Nat /\ Len(s[k]) > 0
    BY <1>1, <2>2, StreamType, PieceType
  <2>5. Border(s, k) \in Nat
    BY <1>1, <2>2
  <2> HIDE DEF f, k, e
  <2>6. Border(s, k) > a
    <3> SUFFICES ASSUME Border(s, k) <= a PROVE FALSE
      BY <1>1, <2>5
    <3>1. e = Len(s[k]) /\ SubSeq(buf, f, f + e - 1) \in Objects
      BY <2>2, <2>3
    <3>2. f + e - 1 \in f..Len(buf)
      <4> DEFINE v == Border(s, q)
                 w == Border(s, k)
      <4>1. w = v + (f - 1) + e /\ v + Len(buf) = a /\ w <= a /\ v \in Nat /\ e \in Nat /\ e > 0
        BY <1>2, <2>3, <2>4, <3>1
      <4> HIDE DEF v, w
      <4>2. QED
        BY <1>1, <2>1, <4>1
    <3>3. QED
      BY <2>1, <3>1, <3>2
  <2>7. ASSUME NEW j \in 1..Len(s), q < j, Border(s, j) <= a
        PROVE  s[j] \notin Objects
    <3>1. j < k
      <4> SUFFICES ASSUME ~(j < k) PROVE FALSE
        OBVIOUS
      <4>1. j \in 0..Len(s) /\ k \in 0..Len(s) /\ k \in Nat
        BY <1>1, <2>2
      <4>2. k = j \/ k < j
        BY <1>1, <4>1
      <4>3. Border(s, k) <= Border(s, j)
        <5>1. CASE k = j
          BY <2>5, <5>1
        <5>2. CASE k < j
          <6>1. Border(s, k) < Border(s, j)
            BY <1>1, <4>1, <5>2, BordersGrow
          <6>2. QED
            BY <1>1, <4>1, <6>1
        <5>3. QED
          BY <4>2, <5>1, <5>2
      <4>4. Border(s, j) \in Nat
        BY <1>1, <4>1
      <4>5. QED
        BY <1>1, <2>5, <2>6, <2>7, <4>3, <4>4
    <3>2. j - q \in 1..(f - 1) /\ q + (j - q) = j
      BY <1>1, <2>1, <2>7, <3>1 DEF k
    <3>3. s[j] = Blank
      BY <2>2, <3>2
    <3>4. s[j] \in Objects => s[j] # Blank
      BY <1>1, FirstByte
    <3>5. QED
      BY <3>3, <3>4
  <2>8. a >= Border(s, q)
    BY <1>1, <1>2
  <2>9. ObjIn(s, m.at, a) = ObjIn(s, m.at, Border(s, q))
    BY <1>1, <2>7, <2>8, NoMore
  <2>10. QED
    BY <1>2, <2>9
<1>5. QED
  BY <1>3, <1>4

\* Every connection is in step.
InStepNow(b) == InStep(stream[b], arrived[b], connectionBuffers[b], requests[b], mark[b])
AllInStep == \A b \in open : InStepNow(b)

\* The variables of a connection are so typed.
LEMMA TypedNow ==
  ASSUME TypeOK, NEW b \in Bevs
  PROVE  Typed(stream[b], arrived[b], connectionBuffers[b], requests[b], mark[b])
BY WrittenType, Zenon DEF Typed

\* There are none at first.
LEMMA InStepInit == Init => AllInStep
BY DEF Init, AllInStep

\* Each step of a connection keeps it in step, and no other.
LEMMA InStepNext == TypeOK /\ OwnBuffers /\ AllInStep /\ [Next]_vars => AllInStep'
<1> SUFFICES ASSUME TypeOK, OwnBuffers, AllInStep, [Next]_vars PROVE AllInStep'
  OBVIOUS
<1>1. /\ open \subseteq Bevs /\ serving \in open \cup {NoBev} /\ NoBev \notin Bevs
      /\ connectionBuffers \in [Bevs -> Seq(Byte)] /\ stream \in [Bevs -> Streams]
      /\ arrived \in [Bevs -> Nat] /\ requests \in [Bevs -> Seq(Seq(Byte))]
      /\ mark \in [Bevs -> [at : Nat, after : Nat]]
      /\ \A c \in Bevs : c \notin open => connectionBuffers[c] = <<>>
  BY FramingAssumption DEF TypeOK, OwnBuffers
<1>2. \A c \in open : InStepNow(c)
  BY DEF AllInStep
<1>3. ASSUME NEW c, /\ stream'[c] = stream[c] /\ arrived'[c] = arrived[c] /\ requests'[c] = requests[c]
                    /\ connectionBuffers'[c] = connectionBuffers[c] /\ mark'[c] = mark[c]
      PROVE  InStepNow(c)' <=> InStepNow(c)
  BY <1>3, Zenon DEF InStepNow
<1>4. ASSUME NEW b \in Bevs, Accept(b)
      PROVE  AllInStep'
  <2>1. PICK s \in Streams : stream' = [stream EXCEPT ![b] = s]
    BY <1>4 DEF Accept
  <2>2. /\ b \notin open /\ connectionBuffers' = connectionBuffers
        /\ open' = open \cup {b}
        /\ arrived' = [arrived EXCEPT ![b] = 0] /\ requests' = [requests EXCEPT ![b] = <<>>]
        /\ mark' = [mark EXCEPT ![b] = Start]
    BY <1>4 DEF Accept
  <2>3. InStepNow(b)'
    <3>1. /\ stream'[b] = s /\ arrived'[b] = 0 /\ connectionBuffers'[b] = <<>>
          /\ requests'[b] = <<>> /\ mark'[b] = Start
      BY <1>1, <2>1, <2>2
    <3>2. InStep(s, 0, <<>>, <<>>, Start)
      BY InStepStart
    <3>3. QED
      BY <3>1, <3>2, Zenon DEF InStepNow
  <2>4. ASSUME NEW c \in open, c # b
        PROVE  InStepNow(c)'
    <3>1. /\ stream'[c] = stream[c] /\ arrived'[c] = arrived[c] /\ requests'[c] = requests[c]
          /\ connectionBuffers'[c] = connectionBuffers[c] /\ mark'[c] = mark[c]
      BY <1>1, <2>1, <2>2, <2>4
    <3>2. QED
      BY <1>2, <1>3, <3>1
  <2>5. QED
    BY <2>2, <2>3, <2>4 DEF AllInStep
<1>5. ASSUME NEW b \in Bevs, NEW n \in 1..(Len(Written(b)) - arrived[b]), Read(b, n)
      PROVE  AllInStep'
  <2> DEFINE more == SubSeq(Written(b), arrived[b] + 1, arrived[b] + n)
  <2>1. /\ b \in open /\ open' = open
        /\ arrived' = [arrived EXCEPT ![b] = @ + n]
        /\ connectionBuffers' = [connectionBuffers EXCEPT ![b] = @ \o more]
        /\ stream' = stream /\ requests' = requests /\ mark' = mark
    BY <1>5 DEF Read
  <2> DEFINE s == stream[b]
             a == arrived[b]
             buf == connectionBuffers[b]
             req == requests[b]
             m == mark[b]
  <2>2. Typed(s, a, buf, req, m) /\ InStep(s, a, buf, req, m)
    BY <1>2, <2>1, TypedNow DEF InStepNow
  <2>3. n \in Nat /\ a + n <= Len(FlattenSeq(s))
    BY WrittenType
  <2>4. more = SubSeq(FlattenSeq(s), a + 1, a + n)
    BY DEF Written
  <2>5. /\ stream'[b] = s /\ arrived'[b] = a + n /\ connectionBuffers'[b] = buf \o more
        /\ requests'[b] = req /\ mark'[b] = m
    <3> HIDE DEF more
    <3>1. QED
      BY <1>1, <2>1
  <2>6. ASSUME NEW c \in open, c # b
        PROVE  InStepNow(c)'
    <3>1. /\ stream'[c] = stream[c] /\ arrived'[c] = arrived[c] /\ requests'[c] = requests[c]
          /\ connectionBuffers'[c] = connectionBuffers[c] /\ mark'[c] = mark[c]
      <4> HIDE DEF more
      <4>1. QED
        BY <1>1, <2>1, <2>6
    <3>2. QED
      BY <1>2, <1>3, <3>1
  <2> HIDE DEF s, a, buf, req, m, more
  <2>7. InStep(s, a + n, buf \o SubSeq(FlattenSeq(s), a + 1, a + n), req, m)
    BY <2>2, <2>3, InStepRead
  <2>8. InStepNow(b)'
    BY <2>4, <2>5, <2>7, Zenon DEF InStepNow
  <2>9. QED
    BY <2>1, <2>6, <2>8 DEF AllInStep
<1>6. ASSUME NEW b \in Bevs, Handle(b)
      PROVE  AllInStep'
  <2> DEFINE s == stream[b]
             a == arrived[b]
             buf == connectionBuffers[b]
             req == requests[b]
             m == mark[b]
             x == Extract(buf).text
             y == Extract(buf).rest
  <2>1. /\ serving = b /\ Extract(buf).found /\ open' = open
        /\ connectionBuffers' = [connectionBuffers EXCEPT ![b] = y]
        /\ requests' = [requests EXCEPT ![b] = Append(@, x)]
        /\ stream' = stream /\ arrived' = arrived /\ mark' = mark
    BY <1>6 DEF Handle
  <2>2. b \in open
    BY <1>1, <2>1
  <2>3. Typed(s, a, buf, req, m) /\ InStep(s, a, buf, req, m)
    BY <1>2, <2>2, TypedNow DEF InStepNow
  <2>4. Extract(buf).found = TRUE
    BY <1>1, <2>1, ExtractKeeps, Zenon
  <2>5. /\ stream'[b] = s /\ arrived'[b] = a /\ connectionBuffers'[b] = y
        /\ requests'[b] = Append(req, x) /\ mark'[b] = m
    <3> HIDE DEF x, y
    <3>1. QED
      BY <1>1, <2>1
  <2>6. ASSUME NEW c \in open, c # b
        PROVE  InStepNow(c)'
    <3>1. /\ stream'[c] = stream[c] /\ arrived'[c] = arrived[c] /\ requests'[c] = requests[c]
          /\ connectionBuffers'[c] = connectionBuffers[c] /\ mark'[c] = mark[c]
      <4> HIDE DEF x, y
      <4>1. QED
        BY <1>1, <2>1, <2>6
    <3>2. QED
      BY <1>2, <1>3, <3>1
  <2>7. InStep(s, a, y, Append(req, x), m)
    <3> HIDE DEF s, a, buf, req, m
    <3>1. QED
      BY <2>3, <2>4, InStepHandle
  <2>8. InStepNow(b)'
    <3> HIDE DEF s, a, buf, req, m, x, y
    <3>1. QED
      BY <2>5, <2>7, Zenon DEF InStepNow
  <2>9. QED
    BY <2>1, <2>6, <2>8 DEF AllInStep
<1>7. ASSUME NEW b \in Bevs, Done(b)
      PROVE  AllInStep'
  <2> DEFINE s == stream[b]
             a == arrived[b]
             buf == connectionBuffers[b]
             req == requests[b]
             m == mark[b]
             y == Extract(buf).rest
             here == [at |-> a, after |-> Len(req)]
             marked == y = <<>> /\ \E k \in 0..Len(s) : a = Border(s, k)
  <2>1. /\ serving = b /\ ~Extract(buf).found /\ open' = open
        /\ connectionBuffers' = [connectionBuffers EXCEPT ![b] = y]
        /\ stream' = stream /\ arrived' = arrived /\ requests' = requests
    BY <1>7 DEF Done
  <2>2. b \in open
    BY <1>1, <2>1
  <2>3. Typed(s, a, buf, req, m) /\ InStep(s, a, buf, req, m)
    BY <1>2, <2>2, TypedNow DEF InStepNow
  <2>4. Extract(buf).found = FALSE
    BY <1>1, <2>1, ExtractKeeps, Zenon
  <2>5. mark' = IF marked THEN [mark EXCEPT ![b] = here] ELSE mark
    <3>1. a \in Borders(b) <=> \E k \in 0..Len(s) : a = Border(s, k)
      BY DEF Borders, BorderAfter, Border
    <3>2. mark' = IF y = <<>> /\ a \in Borders(b) THEN [mark EXCEPT ![b] = here] ELSE mark
      BY <1>7, Zenon DEF Done
    <3>3. QED
      BY <3>1, <3>2, Zenon
  <2>6. stream'[b] = s /\ arrived'[b] = a /\ connectionBuffers'[b] = y /\ requests'[b] = req
    <3> HIDE DEF y
    <3>1. QED
      BY <1>1, <2>1
  <2>7. ASSUME NEW c \in open, c # b
        PROVE  InStepNow(c)'
    <3>1. /\ stream'[c] = stream[c] /\ arrived'[c] = arrived[c] /\ requests'[c] = requests[c]
          /\ connectionBuffers'[c] = connectionBuffers[c]
      <4> HIDE DEF y
      <4>1. QED
        BY <1>1, <2>1, <2>7
    <3>2. mark'[c] = mark[c]
      <4> HIDE DEF here, marked
      <4>1. QED
        BY <1>1, <2>5, <2>7
    <3>3. QED
      BY <1>2, <1>3, <3>1, <3>2
  <2>8. CASE marked
    <3>1. mark'[b] = here
      <4> HIDE DEF here, marked
      <4>1. QED
        BY <1>1, <2>5, <2>8
    <3>2. y = <<>> /\ \E k \in 0..Len(s) : a = Border(s, k)
      BY <2>8
    <3> HIDE DEF s, a, buf, req, m, y
    <3>3. InStep(s, a, y, req, here)
      BY <2>3, <3>2, InStepMarked
    <3> HIDE DEF here
    <3>4. InStepNow(b)'
      BY <2>6, <3>1, <3>3, Zenon DEF InStepNow
    <3>5. QED
      BY <2>1, <2>7, <3>4 DEF AllInStep
  <2>9. CASE ~marked
    <3>1. mark'[b] = m
      BY <2>5, <2>9, Zenon
    <3>2. ~(y = <<>> /\ \E k \in 0..Len(s) : a = Border(s, k))
      BY <2>9
    <3>3. InStep(s, a, y, req, m)
      <4> HIDE DEF s, a, buf, req, m
      <4>1. QED
        BY <2>3, <2>4, <3>2, InStepKept
    <3> HIDE DEF s, a, buf, req, m, y
    <3>4. InStepNow(b)'
      BY <2>6, <3>1, <3>3, Zenon DEF InStepNow
    <3>5. QED
      BY <2>1, <2>7, <3>4 DEF AllInStep
  <2>10. QED
    BY <2>8, <2>9
<1>8. ASSUME NEW b \in Bevs, Close(b)
      PROVE  AllInStep'
  <2>1. /\ open' = open \ {b} /\ stream' = stream /\ arrived' = arrived /\ requests' = requests /\ mark' = mark
        /\ connectionBuffers' = [connectionBuffers EXCEPT ![b] = <<>>]
    BY <1>8 DEF Close
  <2>2. ASSUME NEW c \in open'
        PROVE  InStepNow(c)'
    <3>1. c \in open /\ stream'[c] = stream[c] /\ arrived'[c] = arrived[c] /\ mark'[c] = mark[c]
          /\ requests'[c] = requests[c] /\ connectionBuffers'[c] = connectionBuffers[c]
      BY <1>1, <2>1
    <3>2. QED
      BY <1>2, <1>3, <3>1
  <2>3. QED
    BY <2>2 DEF AllInStep
<1>9. CASE UNCHANGED vars
  <2>1. /\ open' = open /\ stream' = stream /\ arrived' = arrived /\ requests' = requests
        /\ connectionBuffers' = connectionBuffers /\ mark' = mark
    BY <1>9 DEF vars
  <2>2. \A c \in open' : InStepNow(c)'
    BY <1>2, <1>3, <2>1
  <2>3. QED
    BY <2>2 DEF AllInStep
<1>10. QED
  BY <1>4, <1>5, <1>6, <1>7, <1>8, <1>9 DEF Next

\* In step and with one beginning kept, it has been handed all its objects.
LEMMA InStepUnderstood == TypeOK /\ Beginnings /\ AllInStep => ObjectsAreUnderstood
<1> SUFFICES ASSUME TypeOK, Beginnings, AllInStep, NEW b \in Bevs, Idle(b),
                    \A k \in PiecesAt(b, mark[b].at, arrived[b]) : stream[b][k] \notin Junk
             PROVE  SubSeq(requests[b], mark[b].after + 1, Len(requests[b]))
                      = ObjectsIn(b, mark[b].at, arrived[b])
  BY Zenon DEF ObjectsAreUnderstood
<1> DEFINE s == stream[b]
           a == arrived[b]
           buf == connectionBuffers[b]
           req == requests[b]
           m == mark[b]
<1>1. b \in open /\ b # serving
  BY FramingAssumption DEF Idle
<1>2. Typed(s, a, buf, req, m) /\ InStep(s, a, buf, req, m) /\ OneBeginning(buf)
  BY <1>1, TypedNow DEF AllInStep, InStepNow, Beginnings
<1>3. NoJunkSince(s, a, m)
  BY DEF NoJunkSince, PiecesAt, BorderAfter, Border
<1>4. ObjectsIn(b, m.at, a) = ObjIn(s, m.at, a)
  <2>1. \A k \in 1..Len(s) : (k \in PiecesIn(b, m.at, a) /\ s[k] \in Objects) <=> Lies(s, k, m.at, a)
    BY DEF PiecesIn, BorderAfter, Lies, Border
  <2>2. [k \in 1..Len(s) |-> IF k \in PiecesIn(b, m.at, a) /\ s[k] \in Objects THEN <<s[k]>> ELSE <<>>]
          = ObjParts(s, m.at, a)
    <3> HIDE DEF s, a, m
    <3>1. QED
      BY <2>1 DEF ObjParts
  <2>3. QED
    BY <2>2, Zenon DEF ObjectsIn, ObjIn
<1>5. SubSeq(req, m.after + 1, Len(req)) = ObjIn(s, m.at, a)
  <2> HIDE DEF s, a, buf, req, m
  <2>1. QED
    BY <1>2, <1>3, InStepSays
<1>6. QED
  BY <1>4, <1>5

\* For JSON objects of any size and nesting, with quotes, escapes and braces in their
\* strings, cut in any way: request() hands over each, once, unaltered and in order
\* (madt-server.cpp, request and extractSingleJsonObject).
THEOREM RequestsAreTheObjects == Spec => []ObjectsAreUnderstood
<1> DEFINE Inv == TypeOK /\ OwnBuffers /\ Beginnings /\ AllInStep
<1>1. Init => Inv
  BY TypeInit, OwnInit, BeginningsInit, InStepInit
<1>2. Inv /\ [Next]_vars => Inv'
  BY TypeNext, OwnNext, BeginningsNext, InStepNext
<1>3. Inv => ObjectsAreUnderstood
  BY InStepUnderstood
<1>4. QED
  BY <1>1, <1>2, <1>3, PTL DEF Spec
=============================================================================
