-------------------------------- MODULE UidText --------------------------------
(***************************************************************************)
(* UIDs and their texts: UID::parseString, character by character into a   *)
(* UID that has a value already, and UID::toString.                        *)
(*                                                                         *)
(* A character is the value of a hex digit, of either case, or NotHex.     *)
(***************************************************************************)
EXTENDS Integers, Sequences, FiniteSets

CONSTANTS
  N,        \* bytes of a UID: 16
  Base,     \* hex digits: 16
  Dashes,   \* the bytes that toString prints a dash in front of: 4, 6, 8, 10
  MaxText   \* bound on the length of a text

ASSUME UidAssumption ==
  /\ N \in Nat \ {0} /\ Base \in Nat \ {0, 1}
  /\ Dashes \subseteq 0 .. N - 1 /\ MaxText \in Nat

Digit == 0 .. Base - 1
NotHex == Base
Char == Digit \cup {NotHex}
None == Base + 1

Byte == 0 .. Base * Base - 1
UID == [0 .. N - 1 -> Byte]

Hex2CharSwapped(a, b) == b * Base + a  \* (mutant)
Hex2Char(a, b) == a * Base + b

\* What toString prints: two digits for each byte.
Piece(u, k) ==
  (IF k \in Dashes THEN <<NotHex>> ELSE <<>>) \o <<u[k] \div Base, u[k] % Base>>

Prefixes(u) ==
  LET Upto[k \in 0 .. N] == IF k = 0 THEN <<>> ELSE Upto[k - 1] \o Piece(u, k - 1)
  IN Upto

ToString(u) == Prefixes(u)[N]

VARIABLES
  at,     \* reading, or at the end
  text,   \* what was read (history)
  old,    \* the value before (history)
  data,   \* UID::data
  half,   \* the first digit of a byte, while digitCount = 1
  bytes   \* the bytes that are complete

vars == <<at, text, old, data, half, bytes>>

\* The constructor leaves the bytes as they are: its memset has a length of 0.
Init ==
  /\ at = "reading"
  /\ text = <<>>
  /\ data \in UID
  /\ old = data
  /\ half = None
  /\ bytes = 0

Get(c) ==
  /\ at = "reading" /\ Len(text) < MaxText
  /\ text' = Append(text, c)
  /\ UNCHANGED old

FirstDigit(d) ==
  /\ half = None
  /\ Get(d)
  /\ half' = d
  /\ UNCHANGED <<at, data, bytes>>

FullLate == bytes > N  \* (mutant) if (bytes > 16)
Full == bytes > N - 1

\* One byte more than fits ends the loop.
SecondDigit(d) ==
  /\ half # None
  /\ Get(d)
  /\ IF Full
     THEN /\ at' = "end"
          /\ UNCHANGED <<data, half, bytes>>
     ELSE /\ data' = [data EXCEPT ![bytes] = Hex2Char(half, d)]
          /\ bytes' = bytes + 1
          /\ half' = None
          /\ UNCHANGED at

SeparatorKept ==  \* (mutant) digitCount is not reset
  /\ Get(NotHex)
  /\ UNCHANGED <<at, data, half, bytes>>

\* Any other character drops a digit that has no second.
Separator ==
  /\ Get(NotHex)
  /\ half' = None
  /\ UNCHANGED <<at, data, bytes>>

\* The terminating zero
TextEnds ==
  /\ at = "reading"
  /\ at' = "end"
  /\ UNCHANGED <<text, old, data, half, bytes>>

\* operator=, which does not look at the result, parses another text.
Assign ==
  /\ at = "end"
  /\ at' = "reading"
  /\ text' = <<>>
  /\ old' = data
  /\ half' = None
  /\ bytes' = 0
  /\ UNCHANGED data

\* What parseString returns
Accepted == bytes >= N - 1

Next ==
  \/ \E d \in Digit : FirstDigit(d) \/ SecondDigit(d)
  \/ Separator
  \/ TextEnds
  \/ Assign

Spec == Init /\ [][Next]_vars

-------------------------------------------------------------------------------
(***************************************************************************)
(* What a text means, said of the whole text.                              *)
(***************************************************************************)

Hex(t, i) == t[i] # NotHex

\* The run of digits that i is in begins at j.
Run(t, j, i) ==
  /\ j \in 1 .. i
  /\ \A k \in j .. i : Hex(t, k)
  /\ j > 1 => ~Hex(t, j - 1)

Opens(t, i) == \E j \in 1 .. i : Run(t, j, i) /\ (i - j) % 2 = 0
Closes(t, i) == \E j \in 1 .. i : Run(t, j, i) /\ (i - j) % 2 = 1

\* The second digits of the pairs of a text, and how many are in front of one
Pairs(t) == {i \in 1 .. Len(t) : Closes(t, i)}
Rank(t, i) == Cardinality({j \in Pairs(t) : j < i})

-------------------------------------------------------------------------------
(***************************************************************************)
(* Type invariant; no more bytes are written than a UID has.               *)
(***************************************************************************)
TypeOK ==
  /\ at \in {"reading", "end"}
  /\ text \in Seq(Char)
  /\ data \in UID /\ old \in UID
  /\ half \in Digit \cup {None}
  /\ bytes \in 0 .. N

(***************************************************************************)
(* Every run of digits is cut into pairs from its beginning, one that is   *)
(* left over is dropped, and the pairs become bytes in their order; the    *)
(* bytes for which there is no pair keep the value they had, also those of *)
(* a text that is accepted: fifteen pairs are enough.                      *)
(***************************************************************************)
ParsesPairs ==
  /\ bytes = IF Cardinality(Pairs(text)) < N THEN Cardinality(Pairs(text)) ELSE N
  /\ \A i \in Pairs(text) :
       LET k == Rank(text, i) IN k < N => data[k] = Hex2Char(text[i - 1], text[i])
  /\ \A k \in bytes .. N - 1 : data[k] = old[k]

(***************************************************************************)
(* The text that toString printed of a UID is accepted and gives that UID  *)
(* again, whatever the object it is read into held.                        *)
(***************************************************************************)
RoundTrip ==
  at = "end" => \A u \in UID : text = ToString(u) => Accepted /\ data = u
===============================================================================
