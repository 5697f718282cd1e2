----------------------------- MODULE UidTextProofs -----------------------------
(***************************************************************************)
(* parseString cuts every text into the pairs that UidText defines, for    *)
(* any number of bytes, of digits and any length of texts.                 *)
(***************************************************************************)
EXTENDS UidText, FiniteSetTheorems, WellFoundedInduction, TLAPS

\* The digit that is pending is the one that opens a pair.
HalfOpens ==
  at = "reading" =>
    IF half = None
    THEN text = <<>> \/ ~Hex(text, Len(text)) \/ Closes(text, Len(text))
    ELSE text # <<>> /\ Opens(text, Len(text)) /\ half = text[Len(text)]

\* While there is room every pair has become a byte.
CountsPairs == at = "reading" => Cardinality(Pairs(text)) = bytes

IInv == TypeOK /\ HalfOpens /\ CountsPairs /\ ParsesPairs

-------------------------------------------------------------------------------
(***************************************************************************)
(* Lemmas about runs and pairs.                                            *)
(***************************************************************************)

\* A position is in one run, so it opens a pair or closes one.
LEMMA NotBoth ==
  ASSUME NEW t \in Seq(Char), NEW i \in 1 .. Len(t)
  PROVE  ~(Opens(t, i) /\ Closes(t, i))
<1> SUFFICES ASSUME Opens(t, i), Closes(t, i) PROVE FALSE
  OBVIOUS
<1>1. PICK j \in 1 .. i : Run(t, j, i) /\ (i - j) % 2 = 0
  BY DEF Opens
<1>2. PICK k \in 1 .. i : Run(t, k, i) /\ (i - k) % 2 = 1
  BY DEF Closes
<1>3. CASE j < k
  <2>1. k - 1 \in j .. i /\ k > 1
    BY <1>3
  <2> QED
    BY <1>1, <1>2, <2>1 DEF Run
<1>4. CASE k < j
  <2>1. j - 1 \in k .. i /\ j > 1
    BY <1>4
  <2> QED
    BY <1>1, <1>2, <2>1 DEF Run
<1>5. j # k
  BY <1>1, <1>2
<1> QED
  BY <1>3, <1>4, <1>5

\* A character more changes nothing about those before it.
LEMMA RunBefore ==
  ASSUME NEW t \in Seq(Char), NEW c \in Char, NEW i \in 1 .. Len(t)
  PROVE  /\ \A j \in 1 .. i : Run(Append(t, c), j, i) <=> Run(t, j, i)
         /\ Opens(Append(t, c), i) <=> Opens(t, i)
         /\ Closes(Append(t, c), i) <=> Closes(t, i)
<1>1. \A k \in 1 .. i : Append(t, c)[k] = t[k]
  OBVIOUS
<1>2. ASSUME NEW j \in 1 .. i PROVE Run(Append(t, c), j, i) <=> Run(t, j, i)
  <2>1. \A k \in j .. i : Hex(Append(t, c), k) <=> Hex(t, k)
    BY <1>1 DEF Hex
  <2>2. j > 1 => (Hex(Append(t, c), j - 1) <=> Hex(t, j - 1))
    BY <1>1 DEF Hex
  <2> QED
    BY <2>1, <2>2 DEF Run
<1> QED
  BY <1>2 DEF Opens, Closes

\* What the last character is to its run
LEMMA RunLast ==
  ASSUME NEW t \in Seq(Char), NEW c \in Char, NEW n, n = Len(t)
  PROVE  /\ Opens(Append(t, c), n + 1) <=>
              c # NotHex /\ (t = <<>> \/ ~Hex(t, n) \/ Closes(t, n))
         /\ Closes(Append(t, c), n + 1) <=> c # NotHex /\ t # <<>> /\ Opens(t, n)
<1> DEFINE s == Append(t, c)
<1>1. /\ n \in Nat /\ s[n + 1] = c
      /\ \A k \in 1 .. n : s[k] = t[k]
  OBVIOUS
<1>2. t = <<>> <=> n = 0
  OBVIOUS
<1> HIDE DEF s
<1>3. Run(s, n + 1, n + 1) <=> c # NotHex /\ (n = 0 \/ ~Hex(t, n))
  BY <1>1 DEF Run, Hex
<1>4. ASSUME NEW j \in 1 .. n PROVE Run(s, j, n + 1) <=> c # NotHex /\ Run(t, j, n)
  <2>1. \A k \in j .. n : Hex(s, k) <=> Hex(t, k)
    BY <1>1 DEF Hex
  <2>2. j > 1 => (Hex(s, j - 1) <=> Hex(t, j - 1))
    BY <1>1 DEF Hex
  <2>3. Hex(s, n + 1) <=> c # NotHex
    BY <1>1 DEF Hex
  <2>4. (\A k \in j .. n + 1 : Hex(s, k)) <=> (\A k \in j .. n : Hex(s, k)) /\ Hex(s, n + 1)
    <3>1. j .. n + 1 = (j .. n) \cup {n + 1}
      BY <1>1
    <3> QED
      BY <3>1
  <2> QED
    BY <1>1, <2>1, <2>2, <2>3, <2>4 DEF Run
<1>5. 1 .. n + 1 = (1 .. n) \cup {n + 1}
  BY <1>1
<1>6. \A j \in 1 .. n : /\ (n + 1 - j) % 2 = 0 <=> (n - j) % 2 = 1
                        /\ (n + 1 - j) % 2 = 1 <=> (n - j) % 2 = 0
  BY <1>1
<1>7. (n + 1 - (n + 1)) % 2 = 0
  BY <1>1
<1>8. Closes(t, n) => n # 0
  BY DEF Closes
<1>9. Opens(s, n + 1) <=> Run(s, n + 1, n + 1) \/ \E j \in 1 .. n : Run(s, j, n + 1) /\ (n - j) % 2 = 1
  BY <1>5, <1>6, <1>7 DEF Opens
<1>10. Closes(s, n + 1) <=> \E j \in 1 .. n : Run(s, j, n + 1) /\ (n - j) % 2 = 0
  BY <1>5, <1>6, <1>7 DEF Closes
<1>11. Opens(s, n + 1) <=> c # NotHex /\ (t = <<>> \/ ~Hex(t, n) \/ Closes(t, n))
  BY <1>2, <1>3, <1>4, <1>9 DEF Closes
<1>12. Closes(s, n + 1) <=> c # NotHex /\ t # <<>> /\ Opens(t, n)
  BY <1>2, <1>4, <1>10 DEF Opens
<1> QED
  BY <1>11, <1>12 DEF s

\* The pairs of a text are finitely many, in front of one are fewer than all.
LEMMA PairsFinite ==
  ASSUME NEW t \in Seq(Char)
  PROVE  /\ IsFiniteSet(Pairs(t)) /\ Cardinality(Pairs(t)) \in Nat
         /\ \A i \in Pairs(t) : Rank(t, i) \in Nat /\ Rank(t, i) < Cardinality(Pairs(t))
<1>1. IsFiniteSet(1 .. Len(t))
  BY FS_Interval
<1>2. IsFiniteSet(Pairs(t)) /\ Cardinality(Pairs(t)) \in Nat
  BY <1>1, FS_Subset, FS_CardinalityType DEF Pairs
<1>3. ASSUME NEW i \in Pairs(t)
      PROVE  Rank(t, i) \in Nat /\ Rank(t, i) < Cardinality(Pairs(t))
  <2> DEFINE S == {j \in Pairs(t) : j < i}
  <2>1. S \subseteq Pairs(t) /\ i \notin S
    BY DEF Pairs
  <2>2. IsFiniteSet(S) /\ Cardinality(S) \in Nat
    BY <1>2, <2>1, FS_Subset, FS_CardinalityType
  <2>3. Cardinality(S) <= Cardinality(Pairs(t)) /\ Cardinality(S) # Cardinality(Pairs(t))
    BY <1>2, <2>1, FS_Subset
  <2> QED
    BY <1>2, <2>2, <2>3 DEF Rank
<1> QED
  BY <1>2, <1>3

\* A character that closes no pair leaves the pairs and their ranks.
LEMMA PairsKept ==
  ASSUME NEW t \in Seq(Char), NEW c \in Char, ~Closes(Append(t, c), Len(t) + 1)
  PROVE  /\ Pairs(Append(t, c)) = Pairs(t)
         /\ \A i \in Pairs(t) : /\ Rank(Append(t, c), i) = Rank(t, i)
                                /\ Append(t, c)[i] = t[i] /\ Append(t, c)[i - 1] = t[i - 1]
<1>1. 1 .. Len(Append(t, c)) = (1 .. Len(t)) \cup {Len(t) + 1}
  OBVIOUS
<1>2. Pairs(Append(t, c)) = Pairs(t)
  BY <1>1, RunBefore DEF Pairs
<1>3. \A i \in Pairs(t) : i - 1 \in 1 .. Len(t) /\ i \in 1 .. Len(t)
  BY DEF Pairs, Closes
<1> QED
  BY <1>2, <1>3 DEF Rank

\* One that closes a pair adds it behind the others.
LEMMA PairAdded ==
  ASSUME NEW t \in Seq(Char), NEW c \in Char, Closes(Append(t, c), Len(t) + 1)
  PROVE  /\ Pairs(Append(t, c)) = Pairs(t) \cup {Len(t) + 1}
         /\ Cardinality(Pairs(Append(t, c))) = Cardinality(Pairs(t)) + 1
         /\ Rank(Append(t, c), Len(t) + 1) = Cardinality(Pairs(t))
         /\ \A i \in Pairs(t) : /\ Rank(Append(t, c), i) = Rank(t, i)
                                /\ Append(t, c)[i] = t[i] /\ Append(t, c)[i - 1] = t[i - 1]
<1>1. 1 .. Len(Append(t, c)) = (1 .. Len(t)) \cup {Len(t) + 1}
  OBVIOUS
<1>2. Pairs(Append(t, c)) = Pairs(t) \cup {Len(t) + 1}
  BY <1>1, RunBefore DEF Pairs
<1>3. \A i \in Pairs(t) : i - 1 \in 1 .. Len(t) /\ i \in 1 .. Len(t)
  BY DEF Pairs, Closes
<1>4. Len(t) + 1 \notin Pairs(t)
  BY DEF Pairs
<1>5. Cardinality(Pairs(t) \cup {Len(t) + 1}) = Cardinality(Pairs(t)) + 1
  BY <1>4, PairsFinite, FS_AddElement
<1>6. {j \in Pairs(t) \cup {Len(t) + 1} : j < Len(t) + 1} = Pairs(t)
  BY <1>3
<1>7. \A i \in Pairs(t) : {j \in Pairs(t) \cup {Len(t) + 1} : j < i} = {j \in Pairs(t) : j < i}
  BY <1>3
<1>8. \A i \in Pairs(t) : Append(t, c)[i] = t[i] /\ Append(t, c)[i - 1] = t[i - 1]
  BY <1>3
<1> QED
  BY <1>2, <1>5, <1>6, <1>7, <1>8 DEF Rank

-------------------------------------------------------------------------------
(***************************************************************************)
(* The invariant.                                                          *)
(***************************************************************************)
LEMMA InitEstablishes == Init => IInv
<1> SUFFICES ASSUME Init PROVE IInv
  OBVIOUS
<1>1. text = <<>> /\ Len(text) = 0
  BY DEF Init
<1>2. Pairs(text) = {}
  BY <1>1 DEF Pairs
<1>3. Cardinality(Pairs(text)) = 0
  BY <1>2, FS_EmptySet
<1>4. TypeOK
  BY UidAssumption DEF Init, TypeOK
<1>5. ParsesPairs
  BY <1>2, <1>3, UidAssumption DEF Init, ParsesPairs
<1> QED
  BY <1>1, <1>3, <1>4, <1>5 DEF Init, IInv, HalfOpens, CountsPairs

\* A text that is read again from the start
LEMMA AssignKeeps ==
  ASSUME IInv, Assign
  PROVE  IInv'
<1>1. text' = <<>> /\ Len(text') = 0 /\ bytes' = 0 /\ half' = None /\ old' = data' /\ data' = data
  BY DEF Assign
<1>2. Pairs(text') = {}
  BY <1>1 DEF Pairs
<1>3. Cardinality(Pairs(text')) = 0
  BY <1>2, FS_EmptySet
<1>4. TypeOK'
  BY <1>1, UidAssumption DEF Assign, IInv, TypeOK
<1>5. ParsesPairs'
  BY <1>1, <1>2, <1>3, UidAssumption DEF ParsesPairs
<1> QED
  BY <1>1, <1>3, <1>4, <1>5 DEF IInv, HalfOpens, CountsPairs

\* A digit that opens a pair, or a separator: no byte is written.
LEMMA NoPairKeeps ==
  ASSUME IInv, NEW c \in Char, Get(c), UNCHANGED <<at, data, bytes>>,
         \/ c # NotHex /\ half = None /\ half' = c
         \/ c = NotHex /\ half' = None
  PROVE  IInv'
<1> DEFINE n == Len(text)
<1>1. /\ text \in Seq(Char) /\ text' = Append(text, c) /\ at = "reading" /\ at' = "reading"
      /\ old' = old /\ data' = data /\ bytes' = bytes
  BY DEF IInv, TypeOK, Get
<1>2. n \in Nat /\ (text # <<>> => n \in 1 .. n)
  BY <1>1
<1>3. ~Closes(Append(text, c), n + 1)
  <2>1. c # NotHex => text = <<>> \/ ~Opens(text, n)
    <3> SUFFICES ASSUME c # NotHex, text # <<>>, Opens(text, n) PROVE FALSE
      OBVIOUS
    <3>1. ~Hex(text, n) \/ Closes(text, n)
      BY <1>1 DEF IInv, HalfOpens
    <3>2. Hex(text, n)
      BY <1>2 DEF Opens, Run
    <3> QED
      BY <1>1, <1>2, <3>1, <3>2, NotBoth
  <2> QED
    BY <1>1, <2>1, RunLast
<1>4. TypeOK'
  BY <1>1 DEF IInv, TypeOK, Char, NotHex
<1>5. HalfOpens'
  <2>1. text' # <<>> /\ Len(text') = n + 1 /\ text'[n + 1] = c
    BY <1>1
  <2>2. CASE c # NotHex
    <3>1. half' = c /\ c # None
      BY <2>2, UidAssumption DEF Char, Digit, NotHex, None
    <3>2. Opens(text', n + 1)
      BY <1>1, <2>2, RunLast DEF IInv, HalfOpens
    <3> QED
      BY <2>1, <3>1, <3>2 DEF HalfOpens
  <2>3. CASE c = NotHex
    BY <2>1, <2>3 DEF HalfOpens, Hex
  <2> QED
    BY <2>2, <2>3
<1>6. CountsPairs' /\ ParsesPairs'
  <2>1. /\ Pairs(text') = Pairs(text)
        /\ \A i \in Pairs(text) : /\ Rank(text', i) = Rank(text, i)
                                  /\ text'[i] = text[i] /\ text'[i - 1] = text[i - 1]
    BY <1>1, <1>3, PairsKept
  <2>2. CountsPairs'
    BY <1>1, <2>1 DEF IInv, CountsPairs
  <2>3. ParsesPairs'
    BY <1>1, <2>1 DEF IInv, ParsesPairs
  <2> QED
    BY <2>2, <2>3
<1> QED
  BY <1>4, <1>5, <1>6 DEF IInv

\* A digit that completes a pair writes the next byte, or ends the loop.
LEMMA SecondDigitKeeps ==
  ASSUME IInv, NEW d \in Digit, SecondDigit(d)
  PROVE  IInv'
<1> DEFINE n == Len(text)
<1>1. /\ text \in Seq(Char) /\ text' = Append(text, d) /\ at = "reading" /\ old' = old
      /\ half # None /\ half \in Digit /\ d \in Char /\ d # NotHex
      /\ N \in Nat \ {0} /\ bytes \in 0 .. N
  BY UidAssumption DEF IInv, TypeOK, SecondDigit, Get, Char, Digit, NotHex
<1>2. text # <<>> /\ Opens(text, n) /\ half = text[n] /\ n \in Nat
  BY <1>1 DEF IInv, HalfOpens
<1>3. Closes(Append(text, d), n + 1)
  BY <1>1, <1>2, RunLast
<1>4. /\ Pairs(text') = Pairs(text) \cup {n + 1}
      /\ Cardinality(Pairs(text')) = Cardinality(Pairs(text)) + 1
      /\ Rank(text', n + 1) = Cardinality(Pairs(text))
      /\ \A i \in Pairs(text) : /\ Rank(text', i) = Rank(text, i)
                                /\ text'[i] = text[i] /\ text'[i - 1] = text[i - 1]
  BY <1>1, <1>3, PairAdded
<1>5. Cardinality(Pairs(text)) = bytes
  BY <1>1 DEF IInv, CountsPairs
<1>6. \A i \in Pairs(text) : Rank(text, i) \in Nat /\ Rank(text, i) < bytes
  BY <1>1, <1>5, PairsFinite
<1>7. text'[n + 1] = d /\ text'[n + 1 - 1] = half /\ text' \in Seq(Char) /\ Len(text') = n + 1
  BY <1>1, <1>2
<1>8. CASE Full
  <2>1. bytes = N /\ at' = "end" /\ UNCHANGED <<data, half, bytes>>
    BY <1>1, <1>8 DEF Full, SecondDigit
  <2>2. TypeOK'
    BY <1>1, <1>7, <2>1 DEF IInv, TypeOK
  <2>3. ParsesPairs'
    <3>1. bytes' = IF Cardinality(Pairs(text')) < N THEN Cardinality(Pairs(text')) ELSE N
      BY <1>1, <1>4, <1>5, <2>1
    <3>2. ASSUME NEW i \in Pairs(text'), Rank(text', i) < N
          PROVE  data'[Rank(text', i)] = Hex2Char(text'[i - 1], text'[i])
      <4>1. i # n + 1
        BY <1>1, <1>4, <1>5, <2>1, <3>2
      <4>2. i \in Pairs(text)
        BY <1>4, <4>1
      <4> QED
        BY <1>4, <2>1, <3>2, <4>2 DEF IInv, ParsesPairs
    <3>3. \A k \in bytes' .. N - 1 : data'[k] = old'[k]
      BY <1>1, <2>1 DEF IInv, ParsesPairs
    <3> QED
      BY <3>1, <3>2, <3>3 DEF ParsesPairs
  <2> QED
    BY <2>1, <2>2, <2>3 DEF IInv, HalfOpens, CountsPairs
<1>9. CASE ~Full
  <2>1. /\ bytes \in 0 .. N - 1 /\ bytes' = bytes + 1 /\ half' = None /\ at' = "reading"
        /\ data' = [data EXCEPT ![bytes] = Hex2Char(half, d)]
    BY <1>1, <1>9 DEF Full, SecondDigit
  <2>2. Hex2Char(half, d) \in Byte
    <3>1. Base \in Nat /\ half \in 0 .. Base - 1 /\ d \in 0 .. Base - 1
      BY <1>1, UidAssumption DEF Digit
    <3>2. half * Base <= (Base - 1) * Base /\ half * Base \in Nat
      BY <3>1
    <3>3. half * Base + d \in 0 .. Base * Base - 1
      BY <3>1, <3>2
    <3> QED
      BY <3>3 DEF Hex2Char, Byte
  <2>3. TypeOK'
    BY <1>1, <1>7, <2>1, <2>2 DEF IInv, TypeOK, UID
  <2>4. HalfOpens'
    BY <1>1, <1>3, <1>7, <2>1 DEF HalfOpens
  <2>5. CountsPairs'
    BY <1>4, <1>5, <2>1 DEF CountsPairs
  <2>6. ParsesPairs'
    <3>1. data \in UID
      BY DEF IInv, TypeOK
    <3>2. data'[bytes] = Hex2Char(half, d) /\ \A k \in 0 .. N - 1 : k # bytes => data'[k] = data[k]
      BY <2>1, <3>1 DEF UID
    <3>3. bytes' = IF Cardinality(Pairs(text')) < N THEN Cardinality(Pairs(text')) ELSE N
      BY <1>1, <1>4, <1>5, <2>1
    <3>4. ASSUME NEW i \in Pairs(text'), Rank(text', i) < N
          PROVE  data'[Rank(text', i)] = Hex2Char(text'[i - 1], text'[i])
      <4>1. CASE i = n + 1
        BY <1>4, <1>5, <1>7, <3>2, <4>1
      <4>2. CASE i \in Pairs(text)
        <5>1. data[Rank(text, i)] = Hex2Char(text[i - 1], text[i])
          BY <1>4, <3>4, <4>2 DEF IInv, ParsesPairs
        <5>2. Rank(text, i) \in 0 .. N - 1 /\ Rank(text, i) # bytes
          BY <1>1, <1>6, <2>1, <4>2
        <5> QED
          BY <1>4, <3>2, <4>2, <5>1, <5>2
      <4> QED
        BY <1>4, <4>1, <4>2
    <3>5. \A k \in bytes' .. N - 1 : data'[k] = old'[k]
      BY <1>1, <2>1, <3>2 DEF IInv, ParsesPairs
    <3> QED
      BY <3>3, <3>4, <3>5 DEF ParsesPairs
  <2> QED
    BY <2>3, <2>4, <2>5, <2>6 DEF IInv
<1> QED
  BY <1>8, <1>9

LEMMA StepKeeps == IInv /\ [Next]_vars => IInv'
<1> SUFFICES ASSUME IInv, [Next]_vars PROVE IInv'
  OBVIOUS
<1>1. ASSUME NEW d \in Digit, FirstDigit(d) PROVE IInv'
  <2>1. d \in Char /\ d # NotHex
    BY UidAssumption DEF Char, Digit, NotHex
  <2> QED
    BY <1>1, <2>1, NoPairKeeps DEF FirstDigit
<1>2. CASE Separator
  <2>1. NotHex \in Char
    BY DEF Char
  <2> QED
    BY <1>2, <2>1, NoPairKeeps DEF Separator
<1>3. CASE TextEnds
  BY <1>3 DEF TextEnds, IInv, TypeOK, HalfOpens, CountsPairs, ParsesPairs
<1>4. CASE UNCHANGED vars
  BY <1>4 DEF vars, IInv, TypeOK, HalfOpens, CountsPairs, ParsesPairs
<1> QED
  BY <1>1, <1>2, <1>3, <1>4, SecondDigitKeeps, AssignKeeps DEF Next

LEMMA IInvInvariant == Spec => []IInv
BY InitEstablishes, StepKeeps, PTL DEF Spec

(***************************************************************************)
(* Types: parseString writes within the bytes of a UID.                    *)
(***************************************************************************)
THEOREM WritesWithinUID == Spec => []TypeOK
<1>1. IInv => TypeOK
  BY DEF IInv
<1> QED
  BY <1>1, IInvInvariant, PTL

(***************************************************************************)
(* The loop of parseString does what ParsesPairs says of whole texts.      *)
(***************************************************************************)
THEOREM ParserIsCorrect == Spec => []ParsesPairs
<1>1. IInv => ParsesPairs
  BY DEF IInv
<1> QED
  BY <1>1, IInvInvariant, PTL

-------------------------------------------------------------------------------
(***************************************************************************)
(* What toString prints.                                                   *)
(***************************************************************************)

\* The numbers for which a statement fails have a least one.
LEMMA LeastNumber ==
  \A T \in SUBSET Nat : T # {} => \E x \in T : \A y \in T : x <= y
<1>. SUFFICES ASSUME NEW T \in SUBSET Nat, T # {}
              PROVE  \E x \in T : \A y \in T : x <= y
  OBVIOUS
<1>. DEFINE R == StrictSubsetOrdering(Nat)
            U == {0 .. n - 1 : n \in T}
<1>1. U \subseteq FiniteSubsetsOf(Nat) /\ U # {}
  <2>. SUFFICES ASSUME NEW n \in T PROVE (0 .. n - 1) \in FiniteSubsetsOf(Nat)
    OBVIOUS
  <2>1. IsFiniteSet(0 .. n - 1)
    BY FS_Interval
  <2>. QED
    BY <2>1 DEF FiniteSubsetsOf
<1>2. IsWellFoundedOn(R, FiniteSubsetsOf(Nat))
  BY FS_StrictSubsetOrderingWellFounded
<1>. HIDE DEF R
<1>3. PICK X \in U : \A Y \in U : ~(<<Y, X>> \in R)
  BY <1>1, <1>2, WFMin
<1>4. PICK x \in T : X = 0 .. x - 1
  BY <1>3
<1>5. ASSUME NEW y \in T, ~(x <= y) PROVE FALSE
  <2>1. 0 .. y - 1 \in U
    OBVIOUS
  <2>2. /\ 0 .. y - 1 \subseteq 0 .. x - 1 /\ 0 .. x - 1 \subseteq Nat
        /\ y \in 0 .. x - 1 /\ y \notin 0 .. y - 1
    BY <1>5
  <2>3. <<0 .. y - 1, 0 .. x - 1>> \in R
    BY <2>2 DEF R, StrictSubsetOrdering
  <2>. QED
    BY <1>3, <1>4, <2>1, <2>3
<1>. QED
  BY <1>5

\* A statement that holds of 0 and is inherited holds of 0 .. N.
LEMMA UptoN ==
  ASSUME NEW S, 0 \in S, \A k \in 0 .. N - 1 : (k \in S) => (k + 1 \in S)
  PROVE  0 .. N \subseteq S
<1>. DEFINE T == {k \in 0 .. N : k \notin S}
<1>1. N \in Nat /\ T \in SUBSET Nat
  BY UidAssumption
<1>2. SUFFICES ASSUME T # {} PROVE FALSE
  OBVIOUS
<1>3. PICK x \in T : \A y \in T : x <= y
  BY <1>1, <1>2, LeastNumber
<1>4. x \in 0 .. N /\ x # 0 /\ x \notin S
  BY <1>3
<1>5. x - 1 \in 0 .. N - 1 /\ x - 1 \notin T
  BY <1>1, <1>3, <1>4
<1>6. x - 1 \in S
  BY <1>1, <1>5
<1>. QED
  BY <1>1, <1>4, <1>5, <1>6

\* The recursion that Prefixes is defined by has a solution.
LEMMA PrefixesDef ==
  ASSUME NEW u
  PROVE  Prefixes(u) = [k \in 0 .. N |-> IF k = 0 THEN <<>>
                                         ELSE Prefixes(u)[k - 1] \o Piece(u, k - 1)]
<1>. DEFINE P(n) == \E g : g = [k \in 0 .. n |-> IF k = 0 THEN <<>>
                                               ELSE g[k - 1] \o Piece(u, k - 1)]
            S == {n \in 0 .. N : P(n)}
<1>1. N \in Nat
  BY UidAssumption
<1>2. P(0)
  <2>. DEFINE g == [k \in 0 .. 0 |-> <<>>]
  <2>1. g = [k \in 0 .. 0 |-> IF k = 0 THEN <<>> ELSE g[k - 1] \o Piece(u, k - 1)]
    OBVIOUS
  <2>. QED
    BY <2>1
<1>3. ASSUME NEW n \in 0 .. N - 1, P(n) PROVE P(n + 1)
  <2>1. PICK g : g = [k \in 0 .. n |-> IF k = 0 THEN <<>>
                                       ELSE g[k - 1] \o Piece(u, k - 1)]
    BY <1>3
  <2>. DEFINE h == [k \in 0 .. n + 1 |-> IF k = n + 1 THEN g[n] \o Piece(u, n) ELSE g[k]]
  <2>2. ASSUME NEW k \in 0 .. n + 1
        PROVE  h[k] = IF k = 0 THEN <<>> ELSE h[k - 1] \o Piece(u, k - 1)
    <3>1. CASE k = n + 1
      <4>1. h[k] = g[n] \o Piece(u, n) /\ h[n] = g[n] /\ k - 1 = n /\ k # 0
        BY <1>1, <3>1
      <4>. QED
        BY <4>1
    <3>2. CASE k # n + 1
      <4>1. k \in 0 .. n /\ h[k] = g[k] /\ (k # 0 => h[k - 1] = g[k - 1])
        BY <1>1, <3>2
      <4>2. g[k] = IF k = 0 THEN <<>> ELSE g[k - 1] \o Piece(u, k - 1)
        BY <2>1, <4>1
      <4>. QED
        BY <4>1, <4>2
    <3>. QED
      BY <3>1, <3>2
  <2>3. h = [k \in 0 .. n + 1 |-> IF k = 0 THEN <<>> ELSE h[k - 1] \o Piece(u, k - 1)]
    <3>. HIDE DEF h
    <3>1. h = [k \in 0 .. n + 1 |-> h[k]]
      BY DEF h
    <3>. QED
      BY <2>2, <3>1
  <2>. QED
    BY <2>3
<1>4. P(N)
  <2>. HIDE DEF P
  <2>1. 0 \in S
    BY <1>1, <1>2
  <2>2. \A n \in 0 .. N - 1 : (n \in S) => (n + 1 \in S)
    BY <1>1, <1>3
  <2>3. 0 .. N \subseteq S
    BY <2>1, <2>2, UptoN
  <2>. QED
    BY <1>1, <2>3
<1>. QED
  BY <1>4 DEF Prefixes

\* What the first k pieces amount to: k pairs, the digits of the first k bytes.
Prints(u, t, k) ==
  /\ t \in Seq(Char)
  /\ t = <<>> \/ ~Hex(t, Len(t)) \/ Closes(t, Len(t))
  /\ Cardinality(Pairs(t)) = k
  /\ \A i \in Pairs(t) : /\ Rank(t, i) \in 0 .. k - 1
                         /\ t[i - 1] = u[Rank(t, i)] \div Base
                         /\ t[i] = u[Rank(t, i)] % Base
  /\ \A r \in 0 .. k - 1 : \E i \in Pairs(t) : Rank(t, i) = r

LEMMA DigitsOfByte ==
  ASSUME NEW b \in Byte
  PROVE  /\ b \div Base \in Digit /\ b % Base \in Digit
         /\ Hex2Char(b \div Base, b % Base) = b
<1>. DEFINE q == b \div Base
            r == b % Base
<1>1. Base \in Nat \ {0, 1} /\ b \in Nat /\ b < Base * Base
  BY UidAssumption DEF Byte
<1>2. q \in Int /\ r \in 0 .. Base - 1 /\ b = Base * q + r
  BY <1>1
<1>. HIDE DEF q, r
<1>3. q * Base = Base * q
  BY <1>1, <1>2
<1>4. q < Base
  <2>. SUFFICES ASSUME q >= Base PROVE FALSE
    BY <1>1, <1>2
  <2>1. Base * q >= Base * Base
    BY <1>1, <1>2
  <2>. QED
    BY <1>1, <1>2, <2>1
<1>5. q >= 0
  <2>. SUFFICES ASSUME q <= 0 - 1 PROVE FALSE
    BY <1>1, <1>2
  <2>1. Base * q <= Base * (0 - 1)
    BY <1>1, <1>2
  <2>. QED
    BY <1>1, <1>2, <2>1
<1>6. q \in Digit /\ r \in Digit
  BY <1>1, <1>2, <1>4, <1>5 DEF Digit
<1>. QED
  BY <1>2, <1>3, <1>6 DEF Hex2Char, q, r

\* A dash separates, two digits are a pair.
LEMMA DashPrinted ==
  ASSUME NEW u, NEW k \in Nat, NEW t, Prints(u, t, k)
  PROVE  Prints(u, Append(t, NotHex), k)
<1>. DEFINE s == Append(t, NotHex)
<1>1. t \in Seq(Char) /\ NotHex \in Char /\ s \in Seq(Char) /\ Len(s) = Len(t) + 1
      /\ s[Len(s)] = NotHex
  BY DEF Prints, Char
<1>2. ~Closes(s, Len(t) + 1)
  BY <1>1, RunLast
<1>3. /\ Pairs(s) = Pairs(t)
      /\ \A i \in Pairs(t) : Rank(s, i) = Rank(t, i) /\ s[i] = t[i] /\ s[i - 1] = t[i - 1]
  BY <1>1, <1>2, PairsKept
<1>4. ~Hex(s, Len(s))
  BY <1>1 DEF Hex
<1>. HIDE DEF s
<1>. QED
  BY <1>1, <1>3, <1>4 DEF Prints, s

LEMMA BytePrinted ==
  ASSUME NEW u, NEW k \in Nat, NEW t, Prints(u, t, k), u[k] \in Byte
  PROVE  Prints(u, Append(Append(t, u[k] \div Base), u[k] % Base), k + 1)
<1>. DEFINE a == u[k] \div Base
            b == u[k] % Base
            s == Append(t, a)
            v == Append(s, b)
<1>1. /\ a \in Digit /\ b \in Digit /\ a \in Char /\ b \in Char /\ a # NotHex /\ b # NotHex
  BY DigitsOfByte, UidAssumption DEF Char, Digit, NotHex
<1>. HIDE DEF a, b
<1>2. /\ t \in Seq(Char) /\ s \in Seq(Char) /\ Len(s) = Len(t) + 1 /\ Len(t) \in Nat
      /\ s # <<>> /\ s[Len(t) + 1] = a
  BY <1>1 DEF Prints
<1>3. /\ v \in Seq(Char) /\ Len(v) = Len(s) + 1 /\ v[Len(s) + 1] = b /\ v[Len(s)] = a
  BY <1>1, <1>2
<1>4. Opens(s, Len(s))
  BY <1>1, <1>2, RunLast DEF Prints
<1>5. ~Closes(s, Len(t) + 1)
  <2>1. Len(s) \in 1 .. Len(s)
    BY <1>2
  <2>. QED
    BY <1>2, <1>4, <2>1, NotBoth
<1>6. /\ Pairs(s) = Pairs(t)
      /\ \A i \in Pairs(t) : Rank(s, i) = Rank(t, i) /\ s[i] = t[i] /\ s[i - 1] = t[i - 1]
  BY <1>1, <1>2, <1>5, PairsKept
<1>. HIDE DEF s
<1>7. Closes(v, Len(s) + 1)
  BY <1>1, <1>2, <1>4, RunLast
<1>8. /\ Pairs(v) = Pairs(s) \cup {Len(s) + 1}
      /\ Cardinality(Pairs(v)) = Cardinality(Pairs(s)) + 1
      /\ Rank(v, Len(s) + 1) = Cardinality(Pairs(s))
      /\ \A i \in Pairs(s) : Rank(v, i) = Rank(s, i) /\ v[i] = s[i] /\ v[i - 1] = s[i - 1]
  BY <1>1, <1>2, <1>7, PairAdded
<1>. HIDE DEF v
<1>9. ASSUME NEW i \in Pairs(v)
      PROVE  /\ Rank(v, i) \in 0 .. k + 1 - 1
             /\ v[i - 1] = u[Rank(v, i)] \div Base /\ v[i] = u[Rank(v, i)] % Base
  <2>1. CASE i \in Pairs(t)
    BY <1>6, <1>8, <2>1 DEF Prints
  <2>2. CASE i = Len(s) + 1
    <3>1. Rank(v, i) = k
      BY <1>6, <1>8, <2>2 DEF Prints
    <3>2. v[i - 1] = a /\ v[i] = b
      BY <1>2, <1>3, <2>2
    <3>. QED
      BY <3>1, <3>2 DEF a, b
  <2>. QED
    BY <1>6, <1>8, <2>1, <2>2
<1>10. ASSUME NEW r \in 0 .. k + 1 - 1 PROVE \E i \in Pairs(v) : Rank(v, i) = r
  <2>1. CASE r = k
    BY <1>6, <1>8, <2>1 DEF Prints
  <2>2. CASE r # k
    <3>1. r \in 0 .. k - 1
      BY <2>2
    <3>2. PICK i \in Pairs(t) : Rank(t, i) = r
      BY <3>1 DEF Prints
    <3>. QED
      BY <1>6, <1>8, <3>2
  <2>. QED
    BY <2>1, <2>2
<1>11. Cardinality(Pairs(v)) = k + 1
  BY <1>6, <1>8 DEF Prints
<1>12. Prints(u, v, k + 1)
  BY <1>3, <1>7, <1>9, <1>10, <1>11 DEF Prints
<1>. QED
  BY <1>12 DEF a, b, s, v

LEMMA PiecePrinted ==
  ASSUME NEW u \in UID, NEW k \in 0 .. N - 1, NEW t, Prints(u, t, k)
  PROVE  Prints(u, t \o Piece(u, k), k + 1)
<1>. DEFINE a == u[k] \div Base
            b == u[k] % Base
<1>1. u[k] \in Byte /\ k \in Nat /\ t \in Seq(Char)
  BY UidAssumption DEF UID, Prints
<1>2. a \in Char /\ b \in Char /\ NotHex \in Char
  BY <1>1, DigitsOfByte DEF Char
<1>3. CASE k \in Dashes
  <2>1. t \o Piece(u, k) = t \o (<<NotHex>> \o <<a, b>>)
    BY <1>3 DEF Piece
  <2>2. @ = Append(Append(Append(t, NotHex), a), b)
    <3>. HIDE DEF a, b
    <3>. QED
      BY <1>1, <1>2
  <2>. QED
    BY <1>1, <2>1, <2>2, DashPrinted, BytePrinted
<1>4. CASE k \notin Dashes
  <2>1. t \o Piece(u, k) = t \o (<<>> \o <<a, b>>)
    BY <1>4 DEF Piece
  <2>2. @ = Append(Append(t, a), b)
    <3>. HIDE DEF a, b
    <3>. QED
      BY <1>1, <1>2
  <2>. QED
    BY <1>1, <2>1, <2>2, BytePrinted
<1>. QED
  BY <1>3, <1>4

LEMMA ToStringPrints ==
  ASSUME NEW u \in UID
  PROVE  Prints(u, ToString(u), N)
<1>. DEFINE S == {k \in 0 .. N : Prints(u, Prefixes(u)[k], k)}
<1>1. N \in Nat
  BY UidAssumption
<1>2. /\ Prefixes(u)[0] = <<>>
      /\ \A k \in 0 .. N - 1 : Prefixes(u)[k + 1] = Prefixes(u)[k] \o Piece(u, k)
  <2>1. PICK g : g = Prefixes(u)
    OBVIOUS
  <2>2. g = [k \in 0 .. N |-> IF k = 0 THEN <<>> ELSE g[k - 1] \o Piece(u, k - 1)]
    BY <2>1, PrefixesDef
  <2>3. g[0] = <<>>
    BY <1>1, <2>2
  <2>4. ASSUME NEW k \in 0 .. N - 1 PROVE g[k + 1] = g[k] \o Piece(u, k)
    <3>1. PICK m \in 0 .. N : m = k + 1 /\ m # 0 /\ m - 1 = k
      BY <1>1
    <3>2. g[m] = IF m = 0 THEN <<>> ELSE g[m - 1] \o Piece(u, m - 1)
      BY <2>2
    <3>. QED
      BY <3>1, <3>2
  <2>. QED
    BY <2>1, <2>3, <2>4
<1>3. Prints(u, <<>>, 0)
  <2>1. Pairs(<<>>) = {}
    BY DEF Pairs
  <2>. QED
    BY <2>1, FS_EmptySet DEF Prints
<1>4. 0 \in S
  BY <1>1, <1>2, <1>3
<1>5. ASSUME NEW k \in 0 .. N - 1, k \in S PROVE k + 1 \in S
  <2>1. Prints(u, Prefixes(u)[k] \o Piece(u, k), k + 1)
    BY <1>5, PiecePrinted
  <2>2. k + 1 \in 0 .. N
    BY <1>1
  <2>. QED
    BY <1>2, <2>1, <2>2
<1>. HIDE DEF S
<1>6. 0 .. N \subseteq S
  BY <1>4, <1>5, UptoN
<1>. QED
  BY <1>1, <1>6 DEF S, ToString

(***************************************************************************)
(* The text that toString prints of a UID is accepted and gives that UID,  *)
(* whatever the object it is read into held: it has one pair for each byte *)
(* and the parser writes them in their order.                              *)
(***************************************************************************)
THEOREM PrintedIsRead == Spec => []RoundTrip
<1>1. IInv => RoundTrip
  <2>. SUFFICES ASSUME IInv, NEW u \in UID, text = ToString(u)
                PROVE  Accepted /\ data = u
    BY DEF RoundTrip
  <2>1. Prints(u, text, N) /\ N \in Nat
    BY ToStringPrints, UidAssumption
  <2>2. bytes = N
    BY <2>1 DEF IInv, ParsesPairs, Prints
  <2>3. ASSUME NEW r \in 0 .. N - 1 PROVE data[r] = u[r]
    <3>1. PICK i \in Pairs(text) : Rank(text, i) = r
      BY <2>1 DEF Prints
    <3>2. data[r] = Hex2Char(text[i - 1], text[i])
      BY <2>1, <3>1 DEF IInv, ParsesPairs
    <3>3. text[i - 1] = u[r] \div Base /\ text[i] = u[r] % Base
      BY <2>1, <3>1 DEF Prints
    <3>4. u[r] \in Byte
      BY DEF UID
    <3>. QED
      BY <3>2, <3>3, <3>4, DigitsOfByte
  <2>4. /\ data = [r \in 0 .. N - 1 |-> data[r]]
        /\ u = [r \in 0 .. N - 1 |-> u[r]]
    BY DEF IInv, TypeOK, UID
  <2>5. data = u
    BY <2>3, <2>4
  <2>. QED
    BY <2>1, <2>2, <2>5 DEF Accepted
<1>. QED
  BY <1>1, IInvInvariant, PTL
===============================================================================
