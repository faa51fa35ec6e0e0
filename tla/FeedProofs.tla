----------------------------- MODULE FeedProofs -----------------------------
(***************************************************************************)
(* What Minter and the walk of Feed promise, for any calls, any clock and  *)
(* any widths, any sizes of page and any query of the service.             *)
(*                                                                         *)
(* The invariant behind the order of ids: last is the timestamp of an id minted   *)
(* (or zero, before any), every id is the encoding of its timestamp, and   *)
(* as long as the timestamps share the bits an id drops none is above last.*)
(* The next one is, or it wrapped and shares them no more, so the order of *)
(* ids is the order of timestamps, which the encoding keeps among those    *)
(* that share what it drops.                                               *)
(***************************************************************************)
EXTENDS Feed, FiniteSetTheorems, SequenceTheorems, WellFoundedInduction, TLAPS

LastIsMinted == last = 0 \/ \E c \in Minted : ts[c] = last

NoneAboveLast == Unwrapped => \A c \in Minted : ts[c] <= last

IdsEncode == \A c \in Minted : id[c] = Encode(ts[c])

MInv == MinterTypeOK /\ LastIsMinted /\ NoneAboveLast /\ IdsEncode /\ AheadByOne

-----------------------------------------------------------------------------
(***************************************************************************)
(* The words.                                                              *)
(***************************************************************************)

\* An id has room for at least one timestamp, and a machine word for more.
LEMMA Widths == Span \in Nat /\ Span > 0 /\ Word \in Nat /\ Word > Span
  BY MinterAssumption DEF Span

\* The timestamp of any instant is a machine word.
LEMMA StampIsWord == ASSUME NEW t \in Int PROVE Stamp(t) \in 0 .. (Word - 1)
  BY Widths DEF Stamp

\* Milliseconds weigh more than the fraction of one.
LEMMA Weighs ==
  ASSUME NEW f \in Nat, NEW v \in Nat, NEW p \in Nat, NEW q \in Nat, p < q,
         NEW r \in 0 .. (f - 1), NEW s \in Nat
  PROVE  p * (16 * f) + v + r < q * (16 * f) + v + s
<1>1. PICK d \in Nat : q = p + 1 + d
  <2>1. q - p - 1 \in Nat /\ q = p + 1 + (q - p - 1)
    OBVIOUS
  <2> QED BY <2>1
<1>2. q * (16 * f) = p * (16 * f) + 16 * f + d * (16 * f)
  BY <1>1
<1>3. d * (16 * f) \in Nat /\ p * (16 * f) \in Nat
  OBVIOUS
<1> QED BY <1>2, <1>3

\* A timestamp within the bits of an id has milliseconds within theirs.
LEMMA MillisFit ==
  ASSUME NEW a \in Nat, a < Span
  PROVE  /\ a \div Frac \in Nat
         /\ (a \div Frac) % Millis = a \div Frac
         /\ a = Frac * (a \div Frac) + (a % Frac)
         /\ (a % Frac) \in 0 .. (Frac - 1)
<1>1. /\ a \div Frac \in Nat
      /\ a = Frac * (a \div Frac) + (a % Frac)
      /\ (a % Frac) \in 0 .. (Frac - 1)
  BY MinterAssumption
<1>2. a \div Frac < Millis
  <2>1. SUFFICES ASSUME a \div Frac >= Millis PROVE FALSE
    BY <1>1, MinterAssumption
  <2>2. Frac * (a \div Frac) >= Frac * Millis
    BY <2>1, <1>1, MinterAssumption
  <2> QED BY <2>2, <1>1, MinterAssumption DEF Span
<1> QED BY <1>1, <1>2, MinterAssumption

\* Of two timestamps an id has room for, the greater has the greater id.
LEMMA EncodeKeepsOrder ==
  ASSUME NEW a \in Nat, NEW b \in Nat, a < b, b < Span
  PROVE  Encode(a) < Encode(b)
<1> DEFINE p == a \div Frac
           q == b \div Frac
           r == a % Frac
           s == b % Frac
<1>1. /\ p \in Nat /\ p % Millis = p /\ a = Frac * p + r /\ r \in 0 .. (Frac - 1)
      /\ q \in Nat /\ q % Millis = q /\ b = Frac * q + s /\ s \in 0 .. (Frac - 1)
  BY MillisFit, Widths
<1>2. /\ Encode(a) = p * (16 * Frac) + 7 * Frac + r
      /\ Encode(b) = q * (16 * Frac) + 7 * Frac + s
  BY <1>1 DEF Encode, Version
<1>3. 7 * Frac \in Nat /\ Frac \in Nat
  BY MinterAssumption
<1> HIDE DEF p, q, r, s
<1>4. p <= q
  <2>1. SUFFICES ASSUME q < p PROVE FALSE
    BY <1>1
  <2>2. PICK d \in Nat : p = q + 1 + d
    <3>1. p - q - 1 \in Nat /\ p = q + 1 + (p - q - 1)
      BY <1>1, <2>1
    <3> QED BY <3>1
  <2>3. Frac * p = Frac * q + Frac + Frac * d /\ Frac * d \in Nat /\ Frac * q \in Nat
    BY <2>2, <1>1, <1>3
  <2> QED BY <2>3, <1>1, <1>3
<1>5. CASE p < q
  BY <1>5, <1>1, <1>2, <1>3, Weighs
<1>6. CASE p = q
  <2>1. r < s
    BY <1>6, <1>1, <1>3
  <2>2. q * (16 * Frac) \in Nat
    BY <1>1, <1>3
  <2> QED BY <2>1, <2>2, <1>6, <1>1, <1>2, <1>3
<1> QED BY <1>1, <1>4, <1>5, <1>6

\* An id is a number.
LEMMA EncodeIsNat == ASSUME NEW a \in Nat PROVE Encode(a) \in Nat
<1>1. a \div Frac \in Nat /\ a % Frac \in Nat
  BY MinterAssumption
<1>2. (a \div Frac) % Millis \in Nat /\ 16 * Frac \in Nat /\ 7 * Frac \in Nat
  BY <1>1, MinterAssumption
<1>3. ((a \div Frac) % Millis) * (16 * Frac) \in Nat
  BY <1>2
<1> QED BY <1>1, <1>2, <1>3 DEF Encode, Version

\* A quotient and a remainder are the only ones.
LEMMA Quotient ==
  ASSUME NEW m \in Nat \ {0}, NEW q \in Nat, NEW r \in 0 .. (m - 1)
  PROVE  (m * q + r) \div m = q /\ (m * q + r) % m = r
<1> DEFINE n == m * q + r
           p == n \div m
           t == n % m
<1>1. n \in Nat /\ m * q \in Nat
  OBVIOUS
<1>2. p \in Nat /\ t \in 0 .. (m - 1) /\ n = m * p + t
  BY <1>1
<1>3. m * p + t = m * q + r
  BY <1>2
<1> HIDE DEF n, p, t
<1>4. ~(p < q)
  <2>1. SUFFICES ASSUME p < q PROVE FALSE
    OBVIOUS
  <2>2. PICK d \in Nat : q = p + 1 + d
    <3>1. q - p - 1 \in Nat /\ q = p + 1 + (q - p - 1)
      BY <1>2, <2>1
    <3> QED BY <3>1
  <2>3. m * q = m * p + m + m * d /\ m * d \in Nat /\ m * p \in Nat
    BY <2>2, <1>2
  <2> QED BY <2>3, <1>2, <1>3
<1>5. ~(q < p)
  <2>1. SUFFICES ASSUME q < p PROVE FALSE
    OBVIOUS
  <2>2. PICK d \in Nat : p = q + 1 + d
    <3>1. p - q - 1 \in Nat /\ p = q + 1 + (p - q - 1)
      BY <1>2, <2>1
    <3> QED BY <3>1
  <2>3. m * p = m * q + m + m * d /\ m * d \in Nat /\ m * q \in Nat
    BY <2>2, <1>2
  <2> QED BY <2>3, <1>2, <1>3
<1>6. p = q
  BY <1>2, <1>4, <1>5
<1>7. t = r
  BY <1>2, <1>3, <1>6
<1> QED BY <1>6, <1>7 DEF n, p, t

\* The multiples of Span are what an id drops.
LEMMA EncodeDrops ==
  ASSUME NEW k \in Nat, NEW a \in Nat, a < Span
  PROVE  Encode(k * Span + a) = Encode(a)
<1> DEFINE p == a \div Frac
           r == a % Frac
<1>1. p \in Nat /\ p % Millis = p /\ a = Frac * p + r /\ r \in 0 .. (Frac - 1)
  BY MillisFit
<1>2. p \in 0 .. (Millis - 1)
  <2>1. p % Millis \in 0 .. (Millis - 1)
    BY <1>1, MinterAssumption
  <2> QED BY <2>1, <1>1
<1> HIDE DEF p, r
<1>3. Millis * k + p \in Nat
  BY <1>1, MinterAssumption
<1>4. k * Span + a = Frac * (Millis * k + p) + r
  <2>1. k * (Millis * Frac) = Frac * (Millis * k)
    BY MinterAssumption
  <2>2. Frac * (Millis * k + p) = Frac * (Millis * k) + Frac * p
    BY <1>1, MinterAssumption
  <2>3. Frac * (Millis * k) \in Nat /\ Frac * p \in Nat
    BY <1>1, MinterAssumption
  <2> QED BY <2>1, <2>2, <2>3, <1>1 DEF Span
<1>5. /\ (k * Span + a) \div Frac = Millis * k + p
      /\ (k * Span + a) % Frac = r
  <2> DEFINE q == Millis * k + p
  <2>1. q \in Nat
    BY <1>3
  <2>2. Frac \in Nat \ {0}
    BY MinterAssumption
  <2> HIDE DEF q
  <2>3. (Frac * q + r) \div Frac = q /\ (Frac * q + r) % Frac = r
    BY <1>1, <2>1, <2>2, Quotient
  <2>4. k * Span + a = Frac * q + r
    BY <1>4 DEF q
  <2>5. q = Millis * k + p
    BY DEF q
  <2> QED BY <2>3, <2>4, <2>5
<1>6. (Millis * k + p) % Millis = p
  BY <1>2, Quotient, MinterAssumption
<1> QED BY <1>1, <1>5, <1>6 DEF Encode, p, r

\* Of two timestamps with the same bits dropped, the greater has the greater
\* id.
LEMMA EncodeKeepsOrderOfEra ==
  ASSUME NEW k \in Nat, NEW a \in Nat, NEW b \in Nat,
         k * Span <= a, a < b, b < (k + 1) * Span
  PROVE  Encode(a) < Encode(b)
<1>1. k * Span \in Nat /\ (k + 1) * Span = k * Span + Span
  BY Widths
<1>2. PICK c \in Nat : a = k * Span + c
  <2>1. a - k * Span \in Nat /\ a = k * Span + (a - k * Span)
    BY <1>1
  <2> QED BY <2>1
<1>3. PICK d \in Nat : b = k * Span + d
  <2>1. b - k * Span \in Nat /\ b = k * Span + (b - k * Span)
    BY <1>1
  <2> QED BY <2>1
<1>4. c < d /\ c < Span /\ d < Span
  BY <1>1, <1>2, <1>3, Widths
<1> QED BY <1>2, <1>3, <1>4, EncodeDrops, EncodeKeepsOrder

-----------------------------------------------------------------------------
(***************************************************************************)
(* The invariant.                                                          *)
(***************************************************************************)

\* The next timestamp is a machine word, not behind the call's own reading
\* and above every timestamp so far, unless it wraps.
LEMMA NextStampAbove ==
  ASSUME MinterTypeOK, NEW t \in Int
  PROVE  /\ NextStamp(t) \in 0 .. (Word - 1)
         /\ \/ /\ last < NextStamp(t)
               /\ Stamp(t) <= NextStamp(t)
               /\ NextStamp(t) = Stamp(t) \/ NextStamp(t) = last + 1
            \/ last = Word - 1 /\ NextStamp(t) = 0
<1>1. Stamp(t) \in 0 .. (Word - 1)
  BY StampIsWord
<1>2. last \in 0 .. (Word - 1) /\ (last + 1) % Word \in 0 .. (Word - 1)
  BY Widths DEF MinterTypeOK
<1>3. (last + 1) % Word = IF last = Word - 1 THEN 0 ELSE last + 1
  BY <1>2, Widths
<1> QED BY <1>1, <1>2, <1>3, Widths DEF NextStamp

\* A timestamp that wrapped does not share the bits an id drops with the last.
LEMMA WrapLeavesEra ==
  ASSUME NEW k \in Nat, k * Span <= 0, Word - 1 < (k + 1) * Span
  PROVE  FALSE
<1>1. k = 0
  <2>1. SUFFICES ASSUME k >= 1 PROVE FALSE
    OBVIOUS
  <2>2. k * Span >= Span
    BY <2>1, Widths
  <2> QED BY <2>2, Widths
<1> QED BY <1>1, Widths

LEMMA InitInv == MinterInit => MInv
  BY Widths DEF MinterInit, MInv, MinterTypeOK, LastIsMinted, NoneAboveLast, IdsEncode,
                AheadByOne, Minted

\* What Mint leaves behind.
LEMMA MintStep ==
  ASSUME MInv, NEW c \in Calls, Mint(c)
  PROVE  MInv' /\ (Unwrapped' => \A d \in Minted : id[d] < id'[c])
<1> DEFINE s == NextStamp(at[c])
<1>1. /\ phase[c] = "read"
      /\ last' = s
      /\ ts' = [ts EXCEPT ![c] = s]
      /\ id' = [id EXCEPT ![c] = Encode(s)]
      /\ phase' = [phase EXCEPT ![c] = "minted"]
      /\ clock' = clock /\ at' = at
  BY DEF Mint
<1>2. MinterTypeOK
  BY DEF MInv
<1>reading. at[c] \in Int
  <2>1. at[c] \in Readings \cup {0}
    BY <1>2 DEF MinterTypeOK
  <2>2. Readings \subseteq Int
    BY MinterAssumption
  <2>3. \A t \in Readings : t \in Int
    BY <2>2
  <2>4. CASE at[c] \in Readings
    BY <2>3, <2>4
  <2>5. CASE at[c] = 0
    BY <2>5
  <2> QED BY <2>1, <2>4, <2>5
<1>3. /\ s \in 0 .. (Word - 1) /\ s \in Nat
      /\ \/ last < s /\ Stamp(at[c]) <= s /\ (s = Stamp(at[c]) \/ s = last + 1)
         \/ last = Word - 1 /\ s = 0
  BY <1>2, <1>reading, NextStampAbove
<1>4. Encode(s) \in Nat
  BY <1>3, EncodeIsNat
<1> HIDE DEF s
<1>5. /\ c \notin Minted
      /\ Minted' = Minted \cup {c}
      /\ ts'[c] = s /\ id'[c] = Encode(s)
      /\ \A d \in Minted : ts'[d] = ts[d] /\ id'[d] = id[d]
  BY <1>1, <1>2 DEF Minted, MinterTypeOK
<1>6. ASSUME Unwrapped'
      PROVE  \E k \in Nat : /\ k * Span <= s /\ s < (k + 1) * Span
                            /\ \A d \in Minted : k * Span <= ts[d] /\ ts[d] < (k + 1) * Span
  <2>1. PICK k \in 0 .. ((Word - 1) \div Span) :
               \A d \in Minted' : k * Span <= ts'[d] /\ ts'[d] < (k + 1) * Span
    BY <1>6 DEF Unwrapped
  <2>2. k \in Nat
    OBVIOUS
  <2> QED BY <2>1, <2>2, <1>5
<1>era. Unwrapped' => Unwrapped
  <2>1. SUFFICES ASSUME Unwrapped' PROVE Unwrapped
    OBVIOUS
  <2>2. PICK k \in 0 .. ((Word - 1) \div Span) :
               \A d \in Minted' : k * Span <= ts'[d] /\ ts'[d] < (k + 1) * Span
    BY <2>1 DEF Unwrapped
  <2> QED BY <2>2, <1>5 DEF Unwrapped
<1>7. Unwrapped' => last < s /\ Stamp(at[c]) <= s /\ (s = Stamp(at[c]) \/ s = last + 1)
  <2>1. SUFFICES ASSUME Unwrapped', last = Word - 1, s = 0 PROVE FALSE
    BY <1>3
  <2>2. PICK k \in Nat : /\ k * Span <= 0
                         /\ \A d \in Minted : ts[d] < (k + 1) * Span
    BY <2>1, <1>6
  <2>3. PICK d \in Minted : ts[d] = last
    BY <2>1, Widths DEF MInv, LastIsMinted
  <2>4. Word - 1 < (k + 1) * Span
    BY <2>1, <2>2, <2>3
  <2> QED BY <2>2, <2>4, WrapLeavesEra
<1>8. MinterTypeOK'
  BY <1>1, <1>2, <1>3, <1>4 DEF MinterTypeOK
<1>9. LastIsMinted'
  BY <1>1, <1>5 DEF LastIsMinted
<1>10. \A d \in Minted : ts[d] \in Nat
  BY <1>2, Widths DEF MinterTypeOK, Minted
<1>11. Unwrapped' => \A d \in Minted : ts[d] < s
  BY <1>3, <1>era, <1>7, <1>10, <1>2 DEF MInv, NoneAboveLast, MinterTypeOK
<1>12. NoneAboveLast'
  BY <1>1, <1>3, <1>5, <1>10, <1>11 DEF NoneAboveLast
<1>13. IdsEncode'
  BY <1>5 DEF MInv, IdsEncode, Encode
<1>14. AheadByOne'
  <2>1. SUFFICES ASSUME Unwrapped', NEW d \in Minted'
                 PROVE  /\ Stamp(at[d]) <= ts'[d]
                        /\ \/ ts'[d] = Stamp(at[d])
                           \/ ts'[d] = 1
                           \/ \E e \in Minted' : ts'[e] = ts'[d] - 1
    BY <1>1 DEF AheadByOne, Stamp
  <2>2. CASE d = c
    <3>1. last = 0 \/ \E e \in Minted : ts[e] = last
      BY DEF MInv, LastIsMinted
    <3>2. last \in Nat
      BY <1>2 DEF MinterTypeOK
    <3> QED BY <3>1, <3>2, <2>1, <2>2, <1>3, <1>5, <1>7
  <2>3. CASE d \in Minted
    BY <2>1, <2>3, <1>5, <1>era DEF MInv, AheadByOne
  <2> QED BY <2>1, <2>2, <2>3, <1>5
<1>15. Unwrapped' => \A d \in Minted : id[d] < id'[c]
  <2>1. SUFFICES ASSUME Unwrapped', NEW d \in Minted PROVE id[d] < id'[c]
    OBVIOUS
  <2>2. PICK k \in Nat : k * Span <= ts[d] /\ s < (k + 1) * Span
    BY <2>1, <1>6
  <2>3. Encode(ts[d]) < Encode(s)
    BY <2>1, <2>2, <1>3, <1>10, <1>11, EncodeKeepsOrderOfEra
  <2> QED BY <2>1, <2>3, <1>5 DEF MInv, IdsEncode
<1> QED BY <1>8, <1>9, <1>12, <1>13, <1>14, <1>15 DEF MInv

\* No other step touches an id minted, or the calls that have one.
LEMMA OtherStep ==
  ASSUME MInv, ClockMoves \/ (\E c \in Calls : ReadClock(c)) \/ UNCHANGED minterVars
  PROVE  MInv' /\ Minted' = Minted
<1>1. /\ last' = last /\ ts' = ts /\ id' = id
      /\ Minted' = Minted
      /\ \A d \in Minted : at'[d] = at[d]
  BY DEF ClockMoves, ReadClock, minterVars, MInv, MinterTypeOK, Minted
<1>2. MinterTypeOK'
  BY DEF ClockMoves, ReadClock, minterVars, MInv, MinterTypeOK
<1>3. Unwrapped' <=> Unwrapped
  BY <1>1 DEF Unwrapped
<1>4. LastIsMinted' /\ NoneAboveLast' /\ IdsEncode'
  BY <1>1, <1>3 DEF MInv, LastIsMinted, NoneAboveLast, IdsEncode, Encode
<1>5. AheadByOne'
  BY <1>1, <1>3 DEF MInv, AheadByOne, Stamp
<1> QED BY <1>1, <1>2, <1>4, <1>5 DEF MInv

LEMMA NextInv == MInv /\ [MinterNext]_minterVars => MInv'
  BY MintStep, OtherStep DEF MinterNext

\* The invariant holds of every behaviour.
THEOREM Invariance == MinterSpec => []MInv
<1>1. MinterInit => MInv
  BY InitInv
<1>2. MInv /\ [MinterNext]_minterVars => MInv'
  BY NextInv
<1> QED BY <1>1, <1>2, PTL DEF MinterSpec

\* Every variable of the minter keeps its type, its words their width.
THEOREM TypeCorrect == MinterSpec => []MinterTypeOK
<1>1. MInv => MinterTypeOK
  BY DEF MInv
<1> QED BY <1>1, Invariance, PTL

\* Mint returns an id above every one minted before, whatever the clock does
\* and in whatever order the mutex was taken (sortid.go:140).
THEOREM Upward == MinterSpec => MintsUpward
<1>1. MInv /\ [MinterNext]_minterVars =>
        [\A c \in Minted' \ Minted, d \in Minted : Unwrapped' => id[d] < id'[c]]_minterVars
  <2> SUFFICES ASSUME MInv, MinterNext
               PROVE  \A c \in Minted' \ Minted, d \in Minted : Unwrapped' => id[d] < id'[c]
    OBVIOUS
  <2>1. CASE \E c \in Calls : Mint(c)
    <3>1. PICK c \in Calls : Mint(c)
      BY <2>1
    <3>2. Minted' \ Minted = {c}
      BY <3>1 DEF Mint, Minted, MInv, MinterTypeOK
    <3> QED BY <3>1, <3>2, MintStep
  <2>2. CASE ClockMoves \/ \E c \in Calls : ReadClock(c)
    BY <2>2, OtherStep
  <2> QED BY <2>1, <2>2 DEF MinterNext
<1> QED BY <1>1, Invariance, PTL DEF MinterSpec, MintsUpward

\* An id is never behind its call's clock, and ahead of it only by standing
\* one tick past another id (sortid.go:142-144).
THEOREM AheadByNoMore == MinterSpec => []AheadByOne
<1>1. MInv => AheadByOne
  BY DEF MInv
<1> QED BY <1>1, Invariance, PTL

-----------------------------------------------------------------------------
(***************************************************************************)
(* The walk.  The cursor parts what was served from what was not: nothing  *)
(* served is below it, and every row of the first page's moment that still *)
(* stands and was not served is.  The ids minted since are above every id  *)
(* of that moment, so the cursor parts them from the walk as well.         *)
(***************************************************************************)
\* A walk that has not begun was served nothing, one that ended asks nothing.
Outside ==
    /\ walk = "idle" => pages = <<>>
    /\ walk \in {"idle", "done"} => bound = Above

\* The cursor of a walk is an id, below every first page's bound.
Cursor == walk = "walking" => IsMinted(bound) /\ bound < Above

\* Nothing served is below the cursor.
ServedAbove == walk = "walking" => \A i \in DOMAIN pages : pages[i] >= bound

\* The cursor is the id of a row minted before the walk began.
CursorOfCut ==
    Unwrapped /\ walk = "walking" => \E c \in cut.minted : id[c] = bound

\* The ids minted since the walk began are above those minted before.
CutBelow ==
    Unwrapped => \A d \in cut.minted, c \in Minted \ cut.minted : id[d] < id[c]

FInv ==
    /\ MInv
    /\ FeedTypeOK
    /\ IsFiniteSet(table)
    /\ Outside /\ Cursor /\ ServedAbove
    /\ CursorOfCut /\ CutBelow
    /\ NoRepeat /\ NothingNewer /\ NoneLost

-----------------------------------------------------------------------------
(***************************************************************************)
(* Numbers and sequences.                                                  *)
(***************************************************************************)

\* A set of naturals with something in it has a least one.
LEMMA Least ==
  ASSUME NEW S \in SUBSET Nat, S # {}
  PROVE  \E m \in S : \A x \in S : m <= x
<1>1. PICK m \in S : \A x \in S : <<x, m>> \notin OpToRel(<, Nat)
  BY NatLessThanWellFounded, WFMin
<1>2. \A x \in S : ~(x < m)
  BY <1>1 DEF OpToRel
<1> QED BY <1>2

\* Every id of this minter is one Parse accepts, below the bound of a first
\* page.
LEMMA EncodeIsMinted ==
  ASSUME NEW s \in Nat
  PROVE  IsMinted(Encode(s)) /\ Encode(s) < Above
<1> DEFINE p == (s \div Frac) % Millis
           r == s % Frac
<1>1. p \in 0 .. (Millis - 1) /\ r \in 0 .. (Frac - 1) /\ Frac \in Nat \ {0} /\ Millis \in Nat
  BY MinterAssumption
<1>2. Encode(s) = p * (16 * Frac) + 7 * Frac + r
  BY DEF Encode, Version
<1> HIDE DEF p, r
<1>3. p * (16 * Frac) = Frac * (16 * p) /\ 16 * p \in Nat
  BY <1>1
<1>4. Encode(s) = Frac * (16 * p + 7) + r
  BY <1>1, <1>2, <1>3
<1>5. Encode(s) \div Frac = 16 * p + 7
  BY <1>1, <1>3, <1>4
<1>6. IsMinted(Encode(s))
  BY <1>1, <1>5 DEF IsMinted, Version
<1>7. Encode(s) < Above
  <2>1. 16 * p + 8 <= 16 * Millis
    BY <1>1
  <2>2. PICK d \in Nat : 16 * Millis = 16 * p + 8 + d
    <3>1. /\ 16 * Millis - (16 * p + 8) \in Nat
          /\ 16 * Millis = 16 * p + 8 + (16 * Millis - (16 * p + 8))
      BY <1>1, <2>1
    <3> QED BY <3>1
  <2>3. Frac * (16 * Millis) = Frac * (16 * p + 7) + Frac + Frac * d /\ Frac * d \in Nat
    BY <2>2, <1>1
  <2>4. Above = Frac * (16 * Millis)
    BY <1>1 DEF Above, Span
  <2> QED BY <2>3, <2>4, <1>1, <1>3, <1>4
<1> QED BY <1>6, <1>7

\* A sequence that falls from each element to the next falls throughout.
LEMMA Falls ==
  ASSUME NEW q, NEW n \in Nat, \A i \in 1 .. n : q[i] \in Nat,
         \A i \in 2 .. n : q[i] < q[i - 1]
  PROVE  \A i, j \in 1 .. n : i < j => q[i] > q[j]
<1> DEFINE Bad == {j \in 1 .. n : \E i \in 1 .. n : i < j /\ ~(q[i] > q[j])}
<1>1. SUFFICES ASSUME Bad # {} PROVE FALSE
  OBVIOUS
<1>2. PICK j \in Bad : \A k \in Bad : j <= k
  <2>1. Bad \in SUBSET Nat
    OBVIOUS
  <2> HIDE DEF Bad
  <2> QED BY <1>1, <2>1, Least
<1>3. j \in 1 .. n
  OBVIOUS
<1>4. PICK i \in 1 .. n : i < j /\ ~(q[i] > q[j])
  OBVIOUS
<1>5. j - 1 \in 1 .. n /\ j \in 2 .. n /\ i <= j - 1
  BY <1>3, <1>4
<1>6. j - 1 \notin Bad
  BY <1>2, <1>3
<1>7. q[j] < q[j - 1]
  BY <1>5
<1>8. i = j - 1 \/ q[i] > q[j - 1]
  BY <1>5, <1>6
<1> QED BY <1>4, <1>5, <1>7, <1>8

\* What a concatenation holds, and where.
LEMMA Joined ==
  ASSUME NEW q \in Seq(Nat), NEW p \in Seq(Nat)
  PROVE  /\ q \o p \in Seq(Nat)
         /\ Len(q \o p) = Len(q) + Len(p)
         /\ \A i \in 1 .. Len(q) : (q \o p)[i] = q[i]
         /\ \A i \in 1 .. Len(p) : (q \o p)[Len(q) + i] = p[i]
<1>1. Len(q) \in Nat /\ Len(p) \in Nat
  BY LenProperties
<1>2. /\ q \o p \in Seq(Nat)
      /\ Len(q \o p) = Len(q) + Len(p)
      /\ \A i \in 1 .. (Len(q) + Len(p)) :
            (q \o p)[i] = IF i <= Len(q) THEN q[i] ELSE p[i - Len(q)]
  BY ConcatProperties
<1>3. ASSUME NEW i \in 1 .. Len(q) PROVE (q \o p)[i] = q[i]
  BY <1>1, <1>2
<1>4. ASSUME NEW i \in 1 .. Len(p) PROVE (q \o p)[Len(q) + i] = p[i]
  <2>1. Len(q) + i \in 1 .. (Len(q) + Len(p)) /\ ~(Len(q) + i <= Len(q))
        /\ (Len(q) + i) - Len(q) = i
    BY <1>1
  <2> QED BY <1>2, <2>1
<1> QED BY <1>2, <1>3, <1>4

\* A finite set of naturals has its elements in descending order, each once.
LEMMA DescendingSorts ==
  ASSUME NEW S \in SUBSET Nat, IsFiniteSet(S)
  PROVE  LET s == Descending(S)
             n == Cardinality(S)
         IN  /\ n \in Nat
             /\ s \in [1 .. n -> S]
             /\ \A i, j \in 1 .. n : i < j => s[i] > s[j]
             /\ \A x \in S : \E i \in 1 .. n : s[i] = x
<1> DEFINE Falling(s, n) == \A i, j \in 1 .. n : i < j => s[i] > s[j]
           Sorted(T) == \E s \in [1 .. Cardinality(T) -> T] : Falling(s, Cardinality(T))
           Unsorted == {T \in SUBSET S : ~Sorted(T)}
<1>1. Sorted(S)
  <2>1. SUFFICES ASSUME Unsorted # {} PROVE FALSE
    OBVIOUS
  <2>2. Unsorted \subseteq FiniteSubsetsOf(S)
    BY FS_FiniteSubsetsOfFinite
  <2>3. PICK T \in Unsorted : \A U \in Unsorted : <<U, T>> \notin StrictSubsetOrdering(S)
    BY <2>1, <2>2, FS_StrictSubsetOrderingWellFounded, WFMin
  <2>4. T \subseteq S /\ T \subseteq Nat /\ ~Sorted(T) /\ IsFiniteSet(T)
    BY FS_Subset
  <2>5. CASE T = {}
    <3>1. Cardinality(T) = 0 /\ 1 .. 0 = {}
      BY <2>5, FS_EmptySet
    <3>2. [i \in 1 .. 0 |-> 0] \in [1 .. Cardinality(T) -> T]
      BY <3>1
    <3> QED BY <2>4, <3>1, <3>2
  <2>6. CASE T # {}
    <3>1. PICK m \in T : \A x \in T : m <= x
      BY <2>4, <2>6, Least
    <3> DEFINE U == T \ {m}
               k == Cardinality(U)
    <3>2. /\ IsFiniteSet(U) /\ k \in Nat
          /\ Cardinality(T) = k + 1
      <4>1. IsFiniteSet(U) /\ k = Cardinality(T) - 1
        BY <2>4, FS_RemoveElement
      <4>2. Cardinality(T) \in Nat
        BY <2>4, FS_CardinalityType
      <4>3. k \in Nat
        BY <4>1, FS_CardinalityType
      <4> QED BY <4>1, <4>2, <4>3
    <3>3. Sorted(U)
      <4>1. U \in SUBSET S /\ U \subseteq T /\ U # T
        BY <2>4
      <4>2. <<U, T>> \in StrictSubsetOrdering(S)
        BY <2>4, <4>1 DEF StrictSubsetOrdering
      <4> QED BY <2>3, <4>1, <4>2
    <3>4. PICK s \in [1 .. k -> U] : Falling(s, k)
      BY <3>3
    <3> HIDE DEF U, k
    <3> DEFINE d == [i \in 1 .. (k + 1) |-> IF i = k + 1 THEN m ELSE s[i]]
    <3>5. U \subseteq T /\ \A x \in U : x \in Nat /\ m < x
      BY <3>1, <2>4 DEF U
    <3>6. \A i \in 1 .. (k + 1) : i = k + 1 \/ i \in 1 .. k
      BY <3>2
    <3>7. d \in [1 .. (k + 1) -> T]
      BY <3>1, <3>4, <3>5, <3>6
    <3>8. Falling(d, k + 1)
      <4>1. SUFFICES ASSUME NEW i \in 1 .. (k + 1), NEW j \in 1 .. (k + 1), i < j
                     PROVE  d[i] > d[j]
        OBVIOUS
      <4>2. i \in 1 .. k /\ d[i] = s[i] /\ s[i] \in U
        BY <4>1, <3>2, <3>4
      <4>3. CASE j = k + 1
        BY <4>2, <4>3, <3>1, <3>5, <2>4
      <4>4. CASE j \in 1 .. k
        BY <4>1, <4>2, <4>4, <3>2, <3>4
      <4> QED BY <4>3, <4>4, <3>6
    <3> QED BY <2>4, <3>2, <3>7, <3>8
  <2> QED BY <2>5, <2>6
<1> DEFINE s == Descending(S)
           n == Cardinality(S)
<1>2. n \in Nat
  BY FS_CardinalityType
<1>3. s \in [1 .. n -> S] /\ Falling(s, n)
  BY <1>1 DEF Descending
<1>4. \A x \in S : \E i \in 1 .. n : s[i] = x
  <2>1. IsFiniteSet(1 .. n) /\ Cardinality(1 .. n) = n
    BY <1>2, FS_Interval
  <2>2. \A i, j \in 1 .. n : s[i] = s[j] => i = j
    <3>1. SUFFICES ASSUME NEW i \in 1 .. n, NEW j \in 1 .. n, s[i] = s[j], i # j PROVE FALSE
      OBVIOUS
    <3>2. s[i] \in Nat /\ s[j] \in Nat
      BY <1>3
    <3>3. i < j \/ j < i
      BY <3>1, <1>2
    <3> QED BY <3>1, <3>2, <3>3, <1>3
  <2>3. s \in Injection(1 .. n, S)
    BY <1>3, <2>2 DEF Injection, IsInjective
  <2>4. s \in Surjection(1 .. n, S)
    BY <2>1, <2>3, FS_Injection
  <2> QED BY <2>4 DEF Surjection
<1> QED BY <1>2, <1>3, <1>4

-----------------------------------------------------------------------------
(***************************************************************************)
(* One page.                                                               *)
(***************************************************************************)

\* Every row carries an id of this minter, in the version it has and below
\* the bound of a first page.
LEMMA TableIds ==
  ASSUME FInv, NEW i \in table
  PROVE  /\ i \in Nat /\ IsMinted(i) /\ i < Above
         /\ \E c \in Minted : id[c] = i
<1>1. PICK c \in Minted : id[c] = i
  BY DEF FInv, FeedTypeOK, Ids
<1>2. ts[c] \in Nat /\ id[c] = Encode(ts[c])
  BY Widths DEF FInv, MInv, MinterTypeOK, IdsEncode, Minted
<1> QED BY <1>1, <1>2, EncodeIsMinted, EncodeIsNat

\* The bound of a page is never above that of a first one.
LEMMA BoundIsNat ==
  ASSUME FInv
  PROVE  Above \in Nat /\ bound \in Nat /\ bound <= Above
<1>1. Above \in Nat
  BY Widths DEF Above
<1>2. bound \in Nat /\ walk \in {"idle", "walking", "done"}
  BY DEF FInv, FeedTypeOK
<1> QED BY <1>1, <1>2 DEF FInv, Outside, Cursor

\* l of the rows became the next page, and the walk goes on below the last of
\* them or has ended.
Turned(n, m, rows, l) ==
    /\ l \in 0 .. m
    /\ pages' \in Seq(Nat)
    /\ Len(pages') = Len(pages) + l
    /\ \A i \in 1 .. Len(pages) : pages'[i] = pages[i]
    /\ \A i \in 1 .. l : pages'[Len(pages) + i] = rows[i]
    /\ \A i \in 1 .. l : rows[i] \in table /\ rows[i] < bound
    /\ \A i, j \in 1 .. l : i < j => rows[i] > rows[j]
    /\ \/ l = m /\ m <= n /\ bound' = Above /\ walk' = "done"
       \/ l = n /\ m = n + 1 /\ bound' = rows[n] /\ walk' = "walking"

\* What Page accepted became the page; what it refused left the client where
\* it was.
LEMMA ServeTurns ==
  ASSUME FInv, NEW n \in Sizes, NEW m \in Nat, NEW rows \in [1 .. m -> table \cup {Alien}],
         Serve(n, rows)
  PROVE  \/ pages' = pages /\ bound' = bound /\ walk' = walk
         \/ \E l \in 0 .. m : Turned(n, m, rows, l)
<1>1. n \in Nat \ {0} /\ Alien \in Nat /\ ~IsMinted(Alien)
  BY FeedAssumption
<1>2. table \subseteq Nat
  BY TableIds
<1>3. rows \in Seq(Nat) /\ Len(rows) = m /\ DOMAIN rows = 1 .. m
  <2>1. rows \in [1 .. m -> Nat]
    BY <1>1, <1>2
  <2>2. rows \in Seq(Nat)
    BY <2>1, SeqDef
  <2> QED BY <2>1, <2>2, LenProperties
<1>4. pages \in Seq(Nat) /\ walk # "done" /\ bound \in Nat /\ bound <= Above /\ Above \in Nat
  BY BoundIsNat DEF FInv, FeedTypeOK, Serve
<1> DEFINE answer == Page(bound, n + 1, rows)
<1>5. /\ pages' = pages \o answer.page
      /\ bound' = IF answer.ok THEN answer.next ELSE bound
      /\ walk' = IF ~answer.ok THEN walk
                 ELSE IF answer.next = Above THEN "done" ELSE "walking"
  BY DEF Serve
<1> HIDE DEF answer
<1>6. CASE ~IsContract(bound, n + 1, rows)
  <2>1. answer = [ok |-> FALSE, page |-> <<>>, next |-> Above]
    BY <1>6 DEF answer, Page, Refusal
  <2>2. pages \o <<>> = pages
    BY <1>4, ConcatEmptySeq
  <2> QED BY <1>5, <2>1, <2>2
<1>7. CASE IsContract(bound, n + 1, rows)
  <2>1. /\ m <= n + 1
        /\ \A i \in 1 .. m : rows[i] < (IF i = 1 THEN bound ELSE rows[i - 1]) /\ IsMinted(rows[i])
    BY <1>3, <1>7 DEF IsContract
  <2>2. \A i \in 1 .. m : rows[i] \in table /\ rows[i] \in Nat
    BY <1>1, <1>2, <2>1
  <2>3. \A i \in 2 .. m : rows[i] < rows[i - 1]
    BY <2>1
  <2>4. \A i, j \in 1 .. m : i < j => rows[i] > rows[j]
    BY <2>2, <2>3, Falls
  <2>5. \A i \in 1 .. m : rows[i] < bound
    <3>1. SUFFICES ASSUME NEW i \in 1 .. m PROVE rows[i] < bound
      OBVIOUS
    <3>2. 1 \in 1 .. m /\ rows[1] < bound
      BY <2>1
    <3>3. i = 1 \/ rows[1] > rows[i]
      BY <3>2, <2>4
    <3> QED BY <3>2, <3>3, <2>2, <1>4
  <2>6. CASE m <= n
    <3>1. answer = [ok |-> TRUE, page |-> rows, next |-> Above]
      BY <1>1, <1>3, <1>7, <2>6 DEF answer, Page
    <3>2. pages' = pages \o rows /\ bound' = Above /\ walk' = "done"
      BY <1>5, <3>1
    <3>3. /\ pages' \in Seq(Nat) /\ Len(pages') = Len(pages) + m
          /\ \A i \in 1 .. Len(pages) : pages'[i] = pages[i]
          /\ \A i \in 1 .. m : pages'[Len(pages) + i] = rows[i]
      BY <1>3, <1>4, <3>2, Joined
    <3>4. Turned(n, m, rows, m)
      BY <2>2, <2>4, <2>5, <2>6, <3>2, <3>3 DEF Turned
    <3> QED BY <3>4
  <2>7. CASE m = n + 1
    <3> DEFINE page == SubSeq(rows, 1, n)
    <3>1. answer = [ok |-> TRUE, page |-> page, next |-> rows[n]]
      BY <1>1, <1>3, <1>7, <2>7 DEF answer, Page
    <3>2. page \in Seq(Nat) /\ Len(page) = n /\ \A i \in 1 .. n : page[i] = rows[i]
      BY <1>1, <2>2, <2>7, SubSeqProperties
    <3> HIDE DEF page
    <3>3. rows[n] # Above
      BY <1>1, <1>4, <2>2, <2>5, <2>7
    <3>4. pages' = pages \o page /\ bound' = rows[n] /\ walk' = "walking"
      BY <1>5, <3>1, <3>3
    <3>5. /\ pages' \in Seq(Nat) /\ Len(pages') = Len(pages) + n
          /\ \A i \in 1 .. Len(pages) : pages'[i] = pages[i]
          /\ \A i \in 1 .. n : pages'[Len(pages) + i] = rows[i]
      BY <1>4, <3>2, <3>4, Joined
    <3>6. n \in 0 .. m /\ \A i \in 1 .. n : i \in 1 .. m
      BY <1>1, <2>7
    <3>7. Turned(n, m, rows, n)
      BY <2>2, <2>4, <2>5, <2>7, <3>4, <3>5, <3>6 DEF Turned
    <3> QED BY <3>6, <3>7
  <2> QED BY <2>1, <2>6, <2>7, <1>1
<1> QED BY <1>6, <1>7

\* Where an element of the pages served stands after a turn.
LEMMA TurnedIndex ==
  ASSUME FInv, NEW n, NEW m \in Nat, NEW rows, NEW l \in 0 .. m, Turned(n, m, rows, l),
         NEW k \in DOMAIN pages'
  PROVE  \/ k \in DOMAIN pages /\ pages'[k] = pages[k]
         \/ \E i \in 1 .. l : k = Len(pages) + i /\ pages'[k] = rows[i]
<1>1. /\ Len(pages) \in Nat /\ DOMAIN pages = 1 .. Len(pages)
      /\ DOMAIN pages' = 1 .. (Len(pages) + l)
  BY LenProperties DEF FInv, FeedTypeOK, Turned
<1>2. CASE k <= Len(pages)
  <2>1. k \in 1 .. Len(pages)
    BY <1>1, <1>2
  <2> QED BY <1>1, <2>1 DEF Turned
<1>3. CASE ~(k <= Len(pages))
  <2>1. k - Len(pages) \in 1 .. l /\ k = Len(pages) + (k - Len(pages))
    BY <1>1, <1>3
  <2> QED BY <2>1 DEF Turned
<1> QED BY <1>2, <1>3

\* A turn goes on falling, from row to row and from page to page.
LEMMA TurnFalls ==
  ASSUME FInv, NEW n \in Nat \ {0}, NEW m \in Nat, NEW rows, NEW l \in 0 .. m, walk # "done",
         Turned(n, m, rows, l)
  PROVE  Outside' /\ Cursor' /\ ServedAbove' /\ NoRepeat'
<1>1. /\ Len(pages) \in Nat /\ DOMAIN pages = 1 .. Len(pages)
      /\ \A k \in DOMAIN pages : pages[k] \in Nat
  BY LenProperties, ElementOfSeq DEF FInv, FeedTypeOK
<1>2. \A k \in DOMAIN pages : pages[k] >= bound
  <2>1. CASE walk = "idle"
    <3>1. Len(pages) = 0
      BY <2>1 DEF FInv, Outside
    <3> QED BY <3>1, <1>1
  <2>2. CASE walk = "walking"
    BY <2>2 DEF FInv, ServedAbove
  <2> QED BY <2>1, <2>2 DEF FInv, FeedTypeOK
<1>3. /\ \A i \in 1 .. l : rows[i] \in table /\ rows[i] \in Nat /\ rows[i] < bound
      /\ \A i, j \in 1 .. l : i < j => rows[i] > rows[j]
  BY TableIds DEF Turned
<1>4. bound \in Nat /\ bound <= Above /\ Above \in Nat
  BY BoundIsNat
<1>5. Outside'
  BY DEF Turned, Outside, Above, Span
<1>6. ASSUME walk' = "walking"
      PROVE  /\ l = n /\ n \in 1 .. l
             /\ bound' = rows[n] /\ rows[n] \in table /\ rows[n] < bound /\ rows[n] \in Nat
  BY <1>6, <1>3 DEF Turned
<1>7. Cursor'
  <2>1. SUFFICES ASSUME walk' = "walking" PROVE IsMinted(bound') /\ bound' < Above
    BY DEF Cursor, IsMinted, Above, Span, Version
  <2> QED BY <2>1, <1>4, <1>6, TableIds
<1>8. ServedAbove'
  <2>1. SUFFICES ASSUME walk' = "walking", NEW k \in DOMAIN pages' PROVE pages'[k] >= bound'
    BY DEF ServedAbove
  <2>2. CASE k \in DOMAIN pages /\ pages'[k] = pages[k]
    BY <2>1, <2>2, <1>1, <1>2, <1>4, <1>6
  <2>3. CASE \E i \in 1 .. l : k = Len(pages) + i /\ pages'[k] = rows[i]
    <3>1. PICK i \in 1 .. l : pages'[k] = rows[i]
      BY <2>3
    <3>2. i = n \/ rows[i] > rows[n]
      BY <2>1, <1>3, <1>6
    <3> QED BY <3>1, <3>2, <2>1, <1>3, <1>6
  <2> QED BY <2>2, <2>3, TurnedIndex
<1>9. NoRepeat'
  <2>1. SUFFICES ASSUME NEW k \in DOMAIN pages', NEW h \in DOMAIN pages', k < h
                 PROVE  pages'[k] > pages'[h]
    BY DEF NoRepeat
  <2>2. CASE k \in DOMAIN pages /\ pages'[k] = pages[k]
    <3>1. CASE h \in DOMAIN pages /\ pages'[h] = pages[h]
      BY <2>1, <2>2, <3>1 DEF FInv, NoRepeat
    <3>2. CASE \E i \in 1 .. l : h = Len(pages) + i /\ pages'[h] = rows[i]
      BY <2>2, <3>2, <1>1, <1>2, <1>3, <1>4
    <3> QED BY <3>1, <3>2, TurnedIndex
  <2>3. CASE \E i \in 1 .. l : k = Len(pages) + i /\ pages'[k] = rows[i]
    <3>1. PICK i \in 1 .. l : k = Len(pages) + i /\ pages'[k] = rows[i]
      BY <2>3
    <3>2. CASE h \in DOMAIN pages /\ pages'[h] = pages[h]
      BY <2>1, <3>1, <3>2, <1>1
    <3>3. CASE \E j \in 1 .. l : h = Len(pages) + j /\ pages'[h] = rows[j]
      <4>1. PICK j \in 1 .. l : h = Len(pages) + j /\ pages'[h] = rows[j]
        BY <3>3
      <4>2. i < j
        BY <2>1, <3>1, <4>1, <1>1
      <4> QED BY <3>1, <4>1, <4>2, <1>3
    <3> QED BY <3>2, <3>3, TurnedIndex
  <2> QED BY <2>2, <2>3, TurnedIndex
<1> QED BY <1>5, <1>7, <1>8, <1>9

\* A row below the cursor of a walk was minted before it began.
LEMMA RowOfCut ==
  ASSUME FInv, walk = "walking", Unwrapped, NEW i \in table, i < bound
  PROVE  \E c \in cut.minted : id[c] = i
<1>1. PICK c \in Minted : id[c] = i
  BY TableIds
<1>2. PICK d \in cut.minted : id[d] = bound
  BY DEF FInv, CursorOfCut
<1>3. SUFFICES ASSUME c \notin cut.minted PROVE FALSE
  BY <1>1
<1>4. id[d] < id[c]
  BY <1>1, <1>3 DEF FInv, CutBelow
<1> QED BY <1>1, <1>2, <1>4, TableIds, BoundIsNat

-----------------------------------------------------------------------------
(***************************************************************************)
(* The steps.                                                              *)
(***************************************************************************)

\* Ids are minted above those there are, and never change.
LEMMA Minting ==
  ASSUME MInv, [MinterNext]_minterVars
  PROVE  /\ MInv'
         /\ Minted \subseteq Minted'
         /\ \A d \in Minted : id'[d] = id[d]
         /\ Unwrapped' => Unwrapped
         /\ Unwrapped' => \A c \in Minted' \ Minted, d \in Minted : id[d] < id'[c]
<1>1. CASE \E c \in Calls : Mint(c)
  <2>1. PICK c \in Calls : Mint(c)
    BY <1>1
  <2>2. /\ Minted' = Minted \cup {c} /\ c \notin Minted
        /\ \A d \in Minted : id'[d] = id[d] /\ ts'[d] = ts[d]
    BY <2>1 DEF Mint, Minted, MInv, MinterTypeOK
  <2>3. Unwrapped' => Unwrapped
    BY <2>2 DEF Unwrapped
  <2> QED BY <2>1, <2>2, <2>3, MintStep
<1>2. CASE ClockMoves \/ (\E c \in Calls : ReadClock(c)) \/ UNCHANGED minterVars
  <2>1. MInv' /\ Minted' = Minted
    BY <1>2, OtherStep
  <2>2. id' = id /\ ts' = ts
    BY <1>2 DEF ClockMoves, ReadClock, minterVars
  <2> QED BY <2>1, <2>2 DEF Unwrapped
<1> QED BY <1>1, <1>2 DEF MinterNext

LEMMA FeedInit == Init => FInv
<1> SUFFICES ASSUME Init PROVE FInv
  OBVIOUS
<1>1. MInv
  BY InitInv DEF Init
<1>2. Above \in Nat
  BY Widths DEF Above
<1>3. pages = <<>> /\ <<>> \in Seq(Nat) /\ DOMAIN pages = {} /\ Range(pages) = {}
  <2>1. pages = <<>> /\ <<>> \in Seq(Nat) /\ Len(<<>>) = 0
    BY EmptySeq DEF Init
  <2>2. DOMAIN pages = {}
    BY <2>1, LenProperties
  <2> QED BY <2>1, <2>2 DEF Range
<1>4. table = {} /\ IsFiniteSet(table)
  BY FS_EmptySet DEF Init
<1>5. FeedTypeOK
  BY <1>2, <1>3 DEF Init, FeedTypeOK
<1>6. Outside /\ Cursor /\ ServedAbove /\ CursorOfCut /\ CutBelow
  BY DEF Init, Outside, Cursor, ServedAbove, CursorOfCut, CutBelow
<1>7. NoRepeat /\ NothingNewer /\ NoneLost
  BY <1>3 DEF Init, NoRepeat, NothingNewer, NoneLost
<1> QED BY <1>1, <1>4, <1>5, <1>6, <1>7 DEF FInv

\* A mint, or a clock that moves.
LEMMA MinterKeeps ==
  ASSUME FInv, MinterNext, UNCHANGED feedVars
  PROVE  FInv'
<1>1. /\ MInv' /\ Minted \subseteq Minted'
      /\ \A d \in Minted : id'[d] = id[d]
      /\ Unwrapped' => Unwrapped
      /\ Unwrapped' => \A c \in Minted' \ Minted, d \in Minted : id[d] < id'[c]
  BY Minting DEF FInv
<1>2. /\ table' = table /\ committed' = committed /\ walk' = walk /\ bound' = bound
      /\ pages' = pages /\ cut' = cut
  BY DEF feedVars
<1>3. cut.minted \subseteq Minted
  BY DEF FInv, FeedTypeOK
<1>4. FeedTypeOK'
  <2>1. table' \subseteq Ids'
    BY <1>1, <1>2 DEF FInv, FeedTypeOK, Ids
  <2>2. cut \in [rows : SUBSET table, minted : SUBSET Minted', honest : BOOLEAN]
    BY <1>1 DEF FInv, FeedTypeOK
  <2> QED BY <2>1, <2>2, <1>1, <1>2 DEF FInv, FeedTypeOK
<1>5. IsFiniteSet(table')
  BY <1>2 DEF FInv
<1>6. Outside' /\ Cursor' /\ ServedAbove' /\ NoRepeat' /\ NoneLost'
  BY <1>2 DEF FInv, Outside, Cursor, ServedAbove, NoRepeat, NoneLost, Above, Span, IsMinted, Version
<1>7. CursorOfCut'
  BY <1>1, <1>2, <1>3 DEF FInv, CursorOfCut
<1>8. CutBelow'
  <2>1. SUFFICES ASSUME Unwrapped', NEW d \in cut.minted, NEW c \in Minted' \ cut.minted
                 PROVE  id'[d] < id'[c]
    BY <1>2 DEF CutBelow
  <2>2. d \in Minted /\ id'[d] = id[d]
    BY <1>1, <1>3
  <2>3. CASE c \in Minted
    BY <2>1, <2>2, <2>3, <1>1 DEF FInv, CutBelow
  <2>4. CASE c \notin Minted
    BY <2>1, <2>2, <2>4, <1>1
  <2> QED BY <2>3, <2>4
<1>9. NothingNewer'
  <2>1. {id'[c] : c \in cut.minted} = {id[c] : c \in cut.minted}
    BY <1>1, <1>3
  <2> QED BY <2>1, <1>1, <1>2 DEF FInv, NothingNewer
<1> QED BY <1>1, <1>4, <1>5, <1>6, <1>7, <1>8, <1>9 DEF FInv

\* What a step of the table or the walk leaves of the ids.
LEMMA IdsStand ==
  ASSUME FInv, UNCHANGED minterVars
  PROVE  /\ MInv' /\ Minted' = Minted /\ id' = id /\ (Unwrapped' <=> Unwrapped)
         /\ Ids' = Ids
<1>1. MInv' /\ Minted' = Minted /\ id' = id /\ ts' = ts
  BY OtherStep DEF FInv, minterVars
<1> QED BY <1>1 DEF Unwrapped, Ids

\* A row that becomes visible.
LEMMA CommitKeeps == ASSUME FInv, NEW c \in Calls, Commit(c) PROVE FInv'
<1>1. /\ phase[c] = "minted"
      /\ committed' = committed \cup {c} /\ table' = table \cup {id[c]}
      /\ UNCHANGED minterVars
      /\ walk' = walk /\ bound' = bound /\ pages' = pages
      /\ cut' = IF walk = "walking" /\ id[c] < bound
                THEN [cut EXCEPT !.rows = @ \cup {id[c]}] ELSE cut
  BY DEF Commit
<1>2. MInv' /\ Minted' = Minted /\ id' = id /\ (Unwrapped' <=> Unwrapped) /\ Ids' = Ids
  BY <1>1, IdsStand
<1>3. c \in Minted
  BY <1>1 DEF Minted
<1>4. /\ cut' \in [rows : SUBSET table', minted : SUBSET Minted, honest : BOOLEAN]
      /\ cut'.minted = cut.minted /\ cut'.honest = cut.honest
      /\ \A x \in cut'.rows : x \in cut.rows \/ (walk = "walking" /\ ~(x >= bound))
  <2>1. cut \in [rows : SUBSET table, minted : SUBSET Minted, honest : BOOLEAN]
    BY DEF FInv, FeedTypeOK
  <2>2. id[c] \in Nat /\ bound \in Nat
    BY <1>3, BoundIsNat DEF FInv, MInv, MinterTypeOK, Minted
  <2>3. CASE walk = "walking" /\ id[c] < bound
    BY <1>1, <2>1, <2>2, <2>3
  <2>4. CASE ~(walk = "walking" /\ id[c] < bound)
    BY <1>1, <2>1, <2>4
  <2> QED BY <2>3, <2>4
<1>5. FeedTypeOK'
  <2>1. table' \subseteq Ids
    BY <1>1, <1>3 DEF FInv, FeedTypeOK, Ids
  <2> QED BY <2>1, <1>1, <1>2, <1>3, <1>4 DEF FInv, FeedTypeOK
<1>6. IsFiniteSet(table')
  BY <1>1, FS_AddElement DEF FInv
<1>7. Outside' /\ Cursor' /\ ServedAbove' /\ NoRepeat'
  BY <1>1 DEF FInv, Outside, Cursor, ServedAbove, NoRepeat, Above, Span, IsMinted, Version
<1>8. NoneLost'
  BY <1>1, <1>4 DEF FInv, NoneLost
<1>9. CursorOfCut' /\ CutBelow' /\ NothingNewer'
  BY <1>1, <1>2, <1>4 DEF FInv, CursorOfCut, CutBelow, NothingNewer
<1> QED BY <1>2, <1>5, <1>6, <1>7, <1>8, <1>9 DEF FInv

\* A row that is deleted.
LEMMA DeleteKeeps == ASSUME FInv, NEW i \in table, Delete(i) PROVE FInv'
<1>1. /\ table' = table \ {i} /\ cut' = [cut EXCEPT !.rows = @ \ {i}]
      /\ UNCHANGED minterVars
      /\ committed' = committed /\ walk' = walk /\ bound' = bound /\ pages' = pages
  BY DEF Delete
<1>2. MInv' /\ Minted' = Minted /\ id' = id /\ (Unwrapped' <=> Unwrapped) /\ Ids' = Ids
  BY <1>1, IdsStand
<1>3. /\ cut.rows \subseteq table /\ cut'.rows = cut.rows \ {i}
      /\ cut'.minted = cut.minted /\ cut'.honest = cut.honest
      /\ cut' \in [rows : SUBSET table', minted : SUBSET Minted, honest : BOOLEAN]
  BY <1>1 DEF FInv, FeedTypeOK
<1>4. FeedTypeOK'
  BY <1>1, <1>2, <1>3 DEF FInv, FeedTypeOK
<1>5. IsFiniteSet(table')
  BY <1>1, FS_RemoveElement DEF FInv
<1>6. Outside' /\ Cursor' /\ ServedAbove' /\ NoRepeat'
  BY <1>1 DEF FInv, Outside, Cursor, ServedAbove, NoRepeat, Above, Span, IsMinted, Version
<1>7. NoneLost'
  BY <1>1, <1>3 DEF FInv, NoneLost
<1>8. CursorOfCut' /\ CutBelow' /\ NothingNewer'
  BY <1>1, <1>2, <1>3 DEF FInv, CursorOfCut, CutBelow, NothingNewer
<1> QED BY <1>2, <1>4, <1>5, <1>6, <1>7, <1>8 DEF FInv

\* The rows of a query that keeps its contract: the first of those below the
\* bound, all of them when there are no more.
LEMMA SelectTakes ==
  ASSUME FInv, NEW n \in Nat \ {0}
  PROVE  LET rows == Select(bound, n + 1)
         IN  \E m \in Nat :
                /\ rows \in [1 .. m -> table]
                /\ m <= n => \A x \in table : x < bound => \E i \in 1 .. m : rows[i] = x
                /\ m = n + 1 =>
                    \A x \in table : x < bound /\ x >= rows[n] => \E i \in 1 .. n : rows[i] = x
<1> DEFINE S == {i \in table : i < bound}
           below == Descending(S)
           k == Cardinality(S)
           m == IF k < n + 1 THEN k ELSE n + 1
           rows == Select(bound, n + 1)
<1>1. S \in SUBSET Nat /\ IsFiniteSet(S) /\ S \subseteq table
  BY TableIds, FS_Subset DEF FInv
<1>2. /\ k \in Nat /\ below \in [1 .. k -> S]
      /\ \A i, j \in 1 .. k : i < j => below[i] > below[j]
      /\ \A x \in S : \E i \in 1 .. k : below[i] = x
  BY <1>1, DescendingSorts
<1>3. \A x \in table : x < bound => x \in S
  OBVIOUS
<1>4. below \in Seq(S) /\ Len(below) = k
  <2>1. below \in Seq(S)
    BY <1>2, SeqDef
  <2>2. DOMAIN below = 1 .. k /\ DOMAIN below = 1 .. Len(below) /\ Len(below) \in Nat
    BY <1>2, <2>1, LenProperties
  <2> QED BY <1>2, <2>1, <2>2
<1>5. rows = SubSeq(below, 1, m)
  BY <1>4 DEF Select
<1> HIDE DEF S, below, k, rows
<1>6. m \in Nat /\ m <= k /\ m <= n + 1 /\ (m <= n => m = k)
  BY <1>2
<1> HIDE DEF m
<1>7. rows \in Seq(S) /\ Len(rows) = m /\ \A i \in 1 .. m : rows[i] = below[i]
  <2>1. \A i \in 1 .. m : below[i] \in S
    BY <1>2, <1>6
  <2> QED BY <2>1, <1>5, <1>6, SubSeqProperties
<1>8. rows \in [1 .. m -> table]
  BY <1>1, <1>7, LenProperties
<1>9. ASSUME m <= n, NEW x \in table, x < bound PROVE \E i \in 1 .. m : rows[i] = x
  BY <1>2, <1>3, <1>6, <1>7, <1>9
<1>10. ASSUME m = n + 1, NEW x \in table, x < bound, x >= rows[n]
       PROVE  \E i \in 1 .. n : rows[i] = x
  <2>1. PICK i \in 1 .. k : below[i] = x
    BY <1>2, <1>3, <1>10
  <2>2. n \in 1 .. k /\ n \in 1 .. m /\ rows[n] = below[n]
    <3>1. n \in 1 .. k /\ n \in 1 .. m
      BY <1>2, <1>6, <1>10
    <3> QED BY <3>1, <1>7
  <2>3. below[n] \in Nat /\ x \in Nat
    <3>1. below[n] \in S /\ x \in S
      BY <1>2, <1>3, <1>10, <2>2
    <3> QED BY <3>1, <1>1
  <2>4. ~(n < i)
    BY <1>2, <1>10, <2>1, <2>2, <2>3
  <2>5. i \in 1 .. n /\ i \in 1 .. m
    BY <2>1, <2>2, <2>4, <1>2, <1>6
  <2> QED BY <2>1, <2>5, <1>7
<1> QED BY <1>6, <1>8, <1>9, <1>10 DEF rows

\* The walk's parts of the invariant that no aim of a query touches.
LEMMA ServeKeeps ==
  ASSUME FInv, NEW n \in Sizes, NEW m \in Nat, NEW rows \in [1 .. m -> table \cup {Alien}],
         Serve(n, rows), UNCHANGED <<minterVars, table, committed>>,
         cut' \in [rows : SUBSET table, minted : SUBSET Minted, honest : BOOLEAN]
  PROVE  /\ MInv' /\ FeedTypeOK' /\ IsFiniteSet(table')
         /\ Outside' /\ Cursor' /\ ServedAbove' /\ NoRepeat'
<1>1. MInv' /\ Minted' = Minted /\ id' = id /\ Ids' = Ids /\ table' = table /\ committed' = committed
  BY IdsStand
<1>2. n \in Nat \ {0} /\ walk # "done"
  BY FeedAssumption DEF Serve
<1>3. CASE pages' = pages /\ bound' = bound /\ walk' = walk
  <2>1. FeedTypeOK'
    BY <1>1, <1>3 DEF FInv, FeedTypeOK
  <2>2. Outside' /\ Cursor' /\ ServedAbove' /\ NoRepeat'
    BY <1>3 DEF FInv, Outside, Cursor, ServedAbove, NoRepeat, Above, Span, IsMinted, Version
  <2> QED BY <1>1, <2>1, <2>2 DEF FInv
<1>4. CASE \E l \in 0 .. m : Turned(n, m, rows, l)
  <2>1. PICK l \in 0 .. m : Turned(n, m, rows, l)
    BY <1>4
  <2>2. Outside' /\ Cursor' /\ ServedAbove' /\ NoRepeat'
    BY <1>2, <2>1, TurnFalls
  <2>3. /\ pages' \in Seq(Nat) /\ walk' \in {"walking", "done"}
        /\ \/ bound' = Above
           \/ l = n /\ bound' = rows[n] /\ \A i \in 1 .. l : rows[i] \in table
    BY <2>1 DEF Turned
  <2>4. bound' \in Nat
    BY <1>2, <2>3, TableIds, BoundIsNat
  <2>5. FeedTypeOK'
    BY <1>1, <2>3, <2>4 DEF FInv, FeedTypeOK
  <2> QED BY <1>1, <2>2, <2>5 DEF FInv
<1> QED BY <1>3, <1>4, ServeTurns

\* What a turn serves was minted before the walk began, whether the cut is of
\* this page's moment or of an earlier one.
LEMMA ServeIsOfCut ==
  ASSUME FInv, NEW n \in Sizes, NEW m \in Nat, NEW rows \in [1 .. m -> table \cup {Alien}],
         Serve(n, rows), UNCHANGED <<minterVars, table, committed>>,
         cut' \in [rows : SUBSET table, minted : SUBSET Minted, honest : BOOLEAN],
         \/ walk = "walking" /\ cut'.minted = cut.minted
         \/ walk = "idle" /\ cut'.minted = Minted
  PROVE  CursorOfCut' /\ CutBelow' /\ NothingNewer'
<1>1. Minted' = Minted /\ id' = id /\ (Unwrapped' <=> Unwrapped) /\ table' = table
  BY IdsStand
<1>2. n \in Nat \ {0}
  BY FeedAssumption
<1>3. CutBelow'
  BY <1>1 DEF FInv, CutBelow
<1>4. Unwrapped => Range(pages) \subseteq {id[c] : c \in cut'.minted}
  <2>1. CASE walk = "walking" /\ cut'.minted = cut.minted
    BY <2>1 DEF FInv, NothingNewer
  <2>2. CASE walk = "idle"
    <3>1. pages = <<>>
      BY <2>2 DEF FInv, Outside
    <3>2. DOMAIN pages = {}
      BY <3>1, EmptySeq, LenProperties
    <3> QED BY <3>2 DEF Range
  <2> QED BY <2>1, <2>2
<1>5. CASE pages' = pages /\ bound' = bound /\ walk' = walk
  <2>1. NothingNewer'
    BY <1>1, <1>4, <1>5 DEF NothingNewer
  <2>2. CursorOfCut'
    BY <1>1, <1>5 DEF FInv, CursorOfCut
  <2> QED BY <1>3, <2>1, <2>2
<1>6. CASE \E l \in 0 .. m : Turned(n, m, rows, l)
  <2>1. PICK l \in 0 .. m : Turned(n, m, rows, l)
    BY <1>6
  <2>2. ASSUME Unwrapped, NEW i \in 1 .. l PROVE \E c \in cut'.minted : id[c] = rows[i]
    <3>1. rows[i] \in table /\ rows[i] < bound
      BY <2>1 DEF Turned
    <3>2. CASE walk = "walking" /\ cut'.minted = cut.minted
      BY <2>2, <3>1, <3>2, RowOfCut
    <3>3. CASE cut'.minted = Minted
      BY <3>1, <3>3, TableIds
    <3> QED BY <3>2, <3>3
  <2>3. CursorOfCut'
    <3>1. SUFFICES ASSUME Unwrapped, walk' = "walking"
                   PROVE  \E c \in cut'.minted : id[c] = bound'
      BY <1>1 DEF CursorOfCut
    <3>2. n \in 1 .. l /\ bound' = rows[n]
      BY <1>2, <2>1, <3>1 DEF Turned
    <3> QED BY <2>2, <3>1, <3>2
  <2>4. NothingNewer'
    <3>1. SUFFICES ASSUME Unwrapped, NEW k \in DOMAIN pages'
                   PROVE  \E c \in cut'.minted : id[c] = pages'[k]
      BY <1>1 DEF NothingNewer, Range
    <3>2. CASE k \in DOMAIN pages /\ pages'[k] = pages[k]
      <4>1. pages[k] \in Range(pages)
        BY <3>2 DEF Range
      <4> QED BY <1>4, <3>1, <3>2, <4>1
    <3>3. CASE \E i \in 1 .. l : k = Len(pages) + i /\ pages'[k] = rows[i]
      BY <2>2, <3>1, <3>3
    <3> QED BY <2>1, <3>2, <3>3, TurnedIndex
  <2> QED BY <1>3, <2>3, <2>4
<1> QED BY <1>3, <1>5, <1>6, ServeTurns

\* A page of a query that keeps its contract.
LEMMA FetchKeeps == ASSUME FInv, NEW n \in Sizes, Fetch(n) PROVE FInv'
<1> DEFINE rows == Select(bound, n + 1)
<1>1. /\ Serve(n, rows) /\ UNCHANGED <<minterVars, table, committed>>
      /\ cut' = IF walk = "idle" THEN [cut EXCEPT !.rows = table, !.minted = Minted] ELSE cut
  BY DEF Fetch, Moment
<1>2. n \in Nat \ {0} /\ walk # "done" /\ walk \in {"idle", "walking", "done"}
  BY <1>1, FeedAssumption DEF Serve, FInv, FeedTypeOK
<1>3. PICK m \in Nat :
        /\ rows \in [1 .. m -> table]
        /\ m <= n => \A x \in table : x < bound => \E i \in 1 .. m : rows[i] = x
        /\ m = n + 1 => \A x \in table : x < bound /\ x >= rows[n] => \E i \in 1 .. n : rows[i] = x
  BY <1>2, SelectTakes
<1>4. /\ cut' \in [rows : SUBSET table, minted : SUBSET Minted, honest : BOOLEAN]
      /\ \/ walk = "walking" /\ cut' = cut
         \/ walk = "idle" /\ cut'.minted = Minted
  BY <1>1, <1>2 DEF FInv, FeedTypeOK
<1> HIDE DEF rows
<1>5. rows \in [1 .. m -> table \cup {Alien}]
  BY <1>3
<1>6. /\ MInv' /\ FeedTypeOK' /\ IsFiniteSet(table')
      /\ Outside' /\ Cursor' /\ ServedAbove' /\ NoRepeat'
  BY <1>1, <1>4, <1>5, ServeKeeps
<1>7. CursorOfCut' /\ CutBelow' /\ NothingNewer'
  BY <1>1, <1>4, <1>5, ServeIsOfCut
<1>8. NoneLost'
  <2>1. SUFFICES ASSUME walk' # "idle", cut'.honest, NEW x \in cut'.rows,
                        walk' = "done" \/ x >= bound'
                 PROVE  x \in Range(pages')
    BY DEF NoneLost
  <2>2. x \in table /\ x \in Nat /\ x < Above /\ bound \in Nat
    BY <1>4, TableIds, BoundIsNat
  <2>3. CASE pages' = pages /\ bound' = bound /\ walk' = walk
    <3>1. cut' = cut
      BY <1>4, <2>1, <2>3
    <3> QED BY <2>1, <2>3, <3>1 DEF FInv, NoneLost
  <2>4. CASE \E l \in 0 .. m : Turned(n, m, rows, l)
    <3>1. PICK l \in 0 .. m : Turned(n, m, rows, l)
      BY <2>4
    <3>2. ASSUME NEW i \in 1 .. l, rows[i] = x PROVE x \in Range(pages')
      <4>1. /\ Len(pages) + i \in DOMAIN pages'
            /\ pages'[Len(pages) + i] = x
        <5>1. Len(pages) \in Nat /\ DOMAIN pages' = 1 .. (Len(pages) + l)
          BY <3>1, LenProperties DEF FInv, FeedTypeOK, Turned
        <5> QED BY <3>1, <3>2, <5>1 DEF Turned
      <4> QED BY <4>1 DEF Range
    <3>3. CASE x < bound
      <4>1. CASE l = m /\ m <= n
        BY <1>3, <2>2, <3>2, <3>3, <4>1
      <4>2. CASE l = n /\ m = n + 1 /\ bound' = rows[n] /\ walk' = "walking"
        BY <1>3, <2>1, <2>2, <3>2, <3>3, <4>2
      <4> QED BY <3>1, <4>1, <4>2 DEF Turned
    <3>4. CASE x >= bound
      <4>1. walk = "walking"
        BY <1>2, <2>2, <3>4 DEF FInv, Outside
      <4>2. cut' = cut
        BY <1>4, <4>1
      <4>3. x \in Range(pages)
        BY <2>1, <3>4, <4>1, <4>2 DEF FInv, NoneLost
      <4>4. PICK k \in DOMAIN pages : pages[k] = x
        BY <4>3 DEF Range
      <4>5. k \in DOMAIN pages' /\ pages'[k] = x
        <5>1. /\ Len(pages) \in Nat /\ DOMAIN pages = 1 .. Len(pages)
              /\ DOMAIN pages' = 1 .. (Len(pages) + l)
          BY <3>1, LenProperties DEF FInv, FeedTypeOK, Turned
        <5> QED BY <3>1, <4>4, <5>1 DEF Turned
      <4> QED BY <4>5 DEF Range
    <3> QED BY <2>2, <3>3, <3>4
  <2> QED BY <1>1, <1>5, <2>3, <2>4, ServeTurns
<1> QED BY <1>6, <1>7, <1>8 DEF FInv

\* A page of one that breaks it.
LEMMA FetchBrokenKeeps ==
  ASSUME FInv, NEW n \in Sizes, NEW rows \in SeqOf(table \cup {Alien}, n + 2), FetchBroken(n, rows)
  PROVE  FInv'
<1>1. /\ Serve(n, rows) /\ UNCHANGED <<minterVars, table, committed>>
      /\ cut' = [Moment EXCEPT !.honest = @ /\ ~IsContract(bound, n + 1, rows)]
  BY DEF FetchBroken
<1>2. PICK m \in Nat : rows \in [1 .. m -> table \cup {Alien}]
  BY DEF SeqOf
<1>3. walk \in {"idle", "walking"}
  BY <1>1 DEF Serve, FInv, FeedTypeOK
<1>4. /\ Moment \in [rows : SUBSET table, minted : SUBSET Minted, honest : BOOLEAN]
      /\ walk = "walking" => Moment = cut
      /\ walk = "idle" => Moment.minted = Minted
  BY DEF FInv, FeedTypeOK, Moment
<1>5. /\ cut' \in [rows : SUBSET table, minted : SUBSET Minted, honest : BOOLEAN]
      /\ cut'.minted = Moment.minted /\ cut'.rows = Moment.rows
      /\ cut'.honest => Moment.honest /\ ~IsContract(bound, n + 1, rows)
  BY <1>1, <1>4
<1>6. /\ MInv' /\ FeedTypeOK' /\ IsFiniteSet(table')
      /\ Outside' /\ Cursor' /\ ServedAbove' /\ NoRepeat'
  BY <1>1, <1>2, <1>5, ServeKeeps
<1>7. CursorOfCut' /\ CutBelow' /\ NothingNewer'
  BY <1>1, <1>2, <1>3, <1>4, <1>5, ServeIsOfCut
<1>8. NoneLost'
  <2>1. SUFFICES ASSUME walk' # "idle", cut'.honest PROVE NoneLost'
    BY DEF NoneLost
  <2>2. Page(bound, n + 1, rows) = [ok |-> FALSE, page |-> <<>>, next |-> Above]
    BY <1>5, <2>1 DEF Page, Refusal
  <2>3. pages' = pages \o <<>> /\ bound' = bound /\ walk' = walk
    <3> DEFINE answer == Page(bound, n + 1, rows)
    <3>1. /\ pages' = pages \o answer.page
          /\ bound' = IF answer.ok THEN answer.next ELSE bound
          /\ walk' = IF ~answer.ok THEN walk
                     ELSE IF answer.next = Above THEN "done" ELSE "walking"
      BY <1>1 DEF Serve
    <3>2. answer = [ok |-> FALSE, page |-> <<>>, next |-> Above]
      BY <2>2
    <3> HIDE DEF answer
    <3> QED BY <3>1, <3>2
  <2>4. pages' = pages
    BY <2>3, ConcatEmptySeq DEF FInv, FeedTypeOK
  <2>5. cut'.rows = cut.rows /\ cut.honest
    BY <1>3, <1>4, <1>5, <2>1, <2>3
  <2> QED BY <2>3, <2>4, <2>5 DEF FInv, NoneLost
<1> QED BY <1>6, <1>7, <1>8 DEF FInv

LEMMA FeedNext == FInv /\ [Next]_vars => FInv'
<1> SUFFICES ASSUME FInv, [Next]_vars PROVE FInv'
  OBVIOUS
<1>1. CASE MinterNext /\ UNCHANGED feedVars
  BY <1>1, MinterKeeps
<1>2. CASE \E c \in Calls : Commit(c)
  BY <1>2, CommitKeeps
<1>3. CASE \E i \in table : Delete(i)
  BY <1>3, DeleteKeeps
<1>4. CASE \E n \in Sizes : Fetch(n)
  BY <1>4, FetchKeeps
<1>5. CASE \E n \in Sizes : \E rows \in SeqOf(table \cup {Alien}, n + 2) : FetchBroken(n, rows)
  BY <1>5, FetchBrokenKeeps
<1>6. CASE UNCHANGED vars
  <2>1. /\ UNCHANGED minterVars /\ table' = table /\ committed' = committed /\ walk' = walk
        /\ bound' = bound /\ pages' = pages /\ cut' = cut
    BY <1>6 DEF vars, minterVars
  <2>2. MInv' /\ Minted' = Minted /\ id' = id /\ (Unwrapped' <=> Unwrapped) /\ Ids' = Ids
    BY <2>1, IdsStand
  <2>3. FeedTypeOK' /\ IsFiniteSet(table')
    BY <2>1, <2>2 DEF FInv, FeedTypeOK
  <2>4. Outside' /\ Cursor' /\ ServedAbove' /\ NoRepeat' /\ NoneLost'
    BY <2>1 DEF FInv, Outside, Cursor, ServedAbove, NoRepeat, NoneLost, Above, Span, IsMinted, Version
  <2>5. CursorOfCut' /\ CutBelow' /\ NothingNewer'
    BY <2>1, <2>2 DEF FInv, CursorOfCut, CutBelow, NothingNewer
  <2> QED BY <2>2, <2>3, <2>4, <2>5 DEF FInv
<1> QED BY <1>1, <1>2, <1>3, <1>4, <1>5, <1>6 DEF Next

\* The invariant of the walk holds of every behaviour.
THEOREM WalkInvariance == Spec => []FInv
  BY FeedInit, FeedNext, PTL DEF Spec

\* The tables, the walk and the client's cursor keep their types.
THEOREM WalkTypeCorrect == Spec => []FeedTypeOK
<1>1. FInv => FeedTypeOK
  BY DEF FInv
<1> QED BY <1>1, WalkInvariance, PTL

\* No row is served twice, and rows come newest first over all the pages of a
\* walk, whatever the service's query returned (keyset.go:149-151).
THEOREM ServesOnce == Spec => []NoRepeat
<1>1. FInv => NoRepeat
  BY DEF FInv
<1> QED BY <1>1, WalkInvariance, PTL

\* The cursor a page hands out is one the next request is accepted on
\* (keyset.go:169-171).
THEOREM AcceptsItsCursor == Spec => []CursorAccepted
<1>1. FInv => CursorAccepted
  BY DEF FInv, FeedTypeOK, Outside, Cursor, CursorAccepted, IsCursor
<1> QED BY <1>1, WalkInvariance, PTL

\* No row that stood at the first page's moment, or came to stand below the
\* cursor since, and still stands is passed over, whatever the sizes of the
\* pages, the rows deleted between them and the pages refused.
THEOREM LosesNone == Spec => []NoneLost
<1>1. FInv => NoneLost
  BY DEF FInv
<1> QED BY <1>1, WalkInvariance, PTL

\* A walk serves no row minted after it began (README.md:793).
THEOREM ServesNothingNewer == Spec => []NothingNewer
<1>1. FInv => NothingNewer
  BY DEF FInv
<1> QED BY <1>1, WalkInvariance, PTL

\* Under writers, readers and a walk, the ids still come upwards.
THEOREM UpwardUnderWalk == Spec => MintsUpward
<1>1. FInv /\ [Next]_vars =>
        [\A c \in Minted' \ Minted, d \in Minted : Unwrapped' => id[d] < id'[c]]_minterVars
  <2> SUFFICES ASSUME FInv, [Next]_vars
               PROVE  \/ \A c \in Minted' \ Minted, d \in Minted : Unwrapped' => id[d] < id'[c]
                      \/ UNCHANGED minterVars
    OBVIOUS
  <2>1. [MinterNext]_minterVars
    BY DEF Next, Commit, Delete, Fetch, FetchBroken, vars, minterVars
  <2> QED BY <2>1, Minting DEF FInv
<1> QED BY <1>1, WalkInvariance, PTL DEF Spec, MintsUpward

\* Under them too an id is ahead of its call's clock only by standing one tick
\* past another.
THEOREM AheadUnderWalk == Spec => []AheadByOne
<1>1. FInv => AheadByOne
  BY DEF FInv, MInv
<1> QED BY <1>1, WalkInvariance, PTL

=============================================================================
