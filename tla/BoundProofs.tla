----------------------------- MODULE BoundProofs ----------------------------
(***************************************************************************)
(* What is proved of Bound for any finite set of calls, any number of      *)
(* places, any passwords and any costs.                                    *)
(*                                                                         *)
(* The channel's length is the number of calls between their take and      *)
(* their give-back: from that, no more than Places run, a refusal finds    *)
(* every place held, and the budget is implemented step by step.  What a   *)
(* verification answers is the verdict on what it was handed, and what it  *)
(* was handed is a row as Hash wrote it, one damage has cut or altered in  *)
(* place, or none.                                                         *)
(***************************************************************************)
EXTENDS Bound, FiniteSetTheorems, TLAPS

\* Every row is one Hash wrote, one damaged, or none.
IsRow(s) == s \in Written \/ s = Empty \/ \E r \in Written : s \in Cut(r) \cup Altered(r)

RowsKnown == IsRow(row) /\ \A c \in Calls : IsRow(read[c])

\* A call that has not been handed a row has nothing to answer about it.
VerdictsRead ==
    \A c \in Calls :
        /\ phase[c] \in {"idle", "running"} => answer[c] = "none"
        /\ Verified(c) => answer[c] = Verdict(read[c], asked[c].plaintext)

\* Only a call that was refused is done without having held a place.
BusyAreDone == \A c \in Calls : answer[c] = "ErrBusy" => phase[c] = "done"

BInv == TypeOK /\ PlacesAreHeld /\ RowsKnown /\ VerdictsRead /\ BusyAreDone

-----------------------------------------------------------------------------
(***************************************************************************)
(* Stored values.                                                          *)
(***************************************************************************)

\* What Hash wrote, parse reads.
LEMMA StoredIsReadable ==
  ASSUME NEW p \in Plaintexts, NEW salt \in Calls \cup {Old}, NEW k \in Costs
  PROVE  Readable(Stored(p, salt, k))
<1>1. salt # Nothing /\ k \in Nat /\ k >= 1
  BY BoundAssumption
<1>2. Key(p, salt, k) # Short
  BY DEF Key, Short
<1> QED BY <1>1, <1>2 DEF Readable, Stored

\* Damage that cuts a row out of shape is seen, and so is an empty text.
LEMMA CutIsNotReadable ==
  /\ ~Readable(Empty)
  /\ \A s \in Written : \A d \in Cut(s) : ~Readable(d)
<1>1. ~Readable(Empty)
  BY DEF Empty, Readable
<1>2. ASSUME NEW s \in Written, NEW d \in Cut(s) PROVE ~Readable(d)
  <2>1. PICK p \in Plaintexts, salt \in Calls \cup {Old}, k \in Costs : s = Stored(p, salt, k)
    BY DEF Written
  <2> QED BY <2>1 DEF Cut, Readable, Stored
<1> QED BY <1>1, <1>2

\* Of a value Hash wrote, the verdict is whether the password is its own.
LEMMA VerdictOnStored ==
  ASSUME NEW p \in Plaintexts, NEW salt \in Calls \cup {Old}, NEW k \in Costs, NEW x
  PROVE  Verdict(Stored(p, salt, k), x) = IF p = x THEN "nil" ELSE "ErrMismatch"
<1>1. Readable(Stored(p, salt, k))
  BY StoredIsReadable
<1>2. /\ Stored(p, salt, k).salt = salt
      /\ Stored(p, salt, k).cost = k
      /\ Stored(p, salt, k).key = Key(p, salt, k)
  BY DEF Stored
<1>3. (Key(x, salt, k) = Key(p, salt, k)) <=> (x = p)
  BY DEF Key
<1> QED BY <1>1, <1>2, <1>3 DEF Verdict

\* A row altered in place opens to no password: its key is not that of its salt
\* and its cost any more.
LEMMA AlteredOpensNot ==
  ASSUME NEW s \in Written, NEW d \in Altered(s), NEW x \in Plaintexts
  PROVE  Verdict(d, x) # "nil"
<1>1. PICK p \in Plaintexts, salt \in Calls \cup {Old}, k \in Costs : s = Stored(p, salt, k)
  BY DEF Written
<1>2. s.salt = salt /\ s.cost = k /\ s.key = Key(p, salt, k)
  BY <1>1 DEF Stored
<1>3. CASE d = [s EXCEPT !.salt = Flipped]
  <2>1. d.salt = Flipped /\ d.cost = k /\ d.key = Key(p, salt, k) /\ salt # Flipped
    BY <1>1, <1>2, <1>3, BoundAssumption DEF Stored
  <2> QED BY <2>1 DEF Verdict, Key
<1>4. CASE d = [s EXCEPT !.key = Key(Flipped, s.salt, s.cost)]
  <2>1. d.salt = salt /\ d.cost = k /\ d.key = Key(Flipped, salt, k) /\ x # Flipped
    BY <1>1, <1>2, <1>4, BoundAssumption DEF Stored
  <2> QED BY <2>1 DEF Verdict, Key
<1>5. ASSUME NEW h \in Costs \ {s.cost}, d = [s EXCEPT !.cost = h] PROVE Verdict(d, x) # "nil"
  <2>1. d.salt = salt /\ d.cost = h /\ d.key = Key(p, salt, k) /\ h # k
    BY <1>1, <1>2, <1>5 DEF Stored
  <2> QED BY <2>1 DEF Verdict, Key
<1> QED BY <1>3, <1>4, <1>5 DEF Altered

-----------------------------------------------------------------------------
(***************************************************************************)
(* The steps.                                                              *)
(***************************************************************************)

\* The places, however many calls there are.
LEMMA HoldersFinite == IsFiniteSet(Holders) /\ Cardinality(Holders) \in Nat
<1>1. Holders \subseteq Calls
  BY DEF Holders
<1>2. IsFiniteSet(Holders)
  BY <1>1, FS_Subset, BoundAssumption
<1> QED BY <1>2, FS_CardinalityType

LEMMA InitInv == Init => BInv
<1> SUFFICES ASSUME Init PROVE BInv
  OBVIOUS
<1>1. TypeOK
  BY BoundAssumption DEF Init, TypeOK, NoAsk, Answers, Methods
<1>2. PlacesAreHeld
  <2>1. Holders = {}
    BY DEF Init, Holders
  <2> QED BY <2>1, FS_EmptySet DEF Init, PlacesAreHeld
<1>3. RowsKnown
  BY DEF Init, RowsKnown, IsRow, Written
<1>4. VerdictsRead /\ BusyAreDone
  BY DEF Init, VerdictsRead, BusyAreDone, Verified, NoAsk
<1> QED BY <1>1, <1>2, <1>3, <1>4 DEF BInv

LEMMA TakeStep ==
  ASSUME BInv, NEW c \in Calls, NEW m \in Methods, NEW p \in Plaintexts, Take(c, m, p)
  PROVE  /\ BInv'
         /\ c \notin Holders \cup Busy
         /\ Holders' = Holders \cup {c}
         /\ Busy' = Busy
         /\ Cardinality(Holders) < Places
<1>1. TypeOK /\ PlacesAreHeld /\ RowsKnown /\ VerdictsRead /\ BusyAreDone
  BY DEF BInv
<1>2. Holders' = Holders \cup {c} /\ c \notin Holders
  BY <1>1 DEF Take, Holders, TypeOK
<1>3. places < Places /\ places \in Nat
  BY <1>1, BoundAssumption DEF Take, IsFree, TypeOK
<1>4. Busy' = Busy /\ c \notin Busy
  BY <1>1 DEF Take, Busy, VerdictsRead
<1>5. TypeOK'
  BY <1>1, <1>3, BoundAssumption DEF Take, TypeOK, Methods
<1>6. PlacesAreHeld'
  BY <1>1, <1>2, <1>3, HoldersFinite, FS_AddElement DEF Take, PlacesAreHeld
<1>7. RowsKnown'
  BY <1>1 DEF Take, RowsKnown, IsRow, Written, Stored, Key, Cut, Altered, Short, Empty, TypeOK
<1>8. answer' = answer /\ answer[c] = "none"
  BY <1>1 DEF Take, VerdictsRead
<1>9. VerdictsRead'
  <2> SUFFICES ASSUME NEW d \in Calls
               PROVE  /\ phase'[d] \in {"idle", "running"} => answer'[d] = "none"
                      /\ Verified(d)' => answer'[d] = Verdict(read'[d], asked'[d].plaintext)
    BY DEF VerdictsRead, Verdict, Readable
  <2>1. CASE d = c
    BY <2>1, <1>8 DEF Verified
  <2>2. CASE d # c
    <3>1. phase'[d] = phase[d] /\ asked'[d] = asked[d] /\ read'[d] = read[d]
      BY <2>2, <1>1 DEF Take, TypeOK
    <3> QED BY <3>1, <1>1, <1>8 DEF VerdictsRead, Verified
  <2> QED BY <2>1, <2>2
<1>10. BusyAreDone'
  BY <1>1, <1>8 DEF Take, BusyAreDone, TypeOK
<1>11. Cardinality(Holders) < Places
  BY <1>1, <1>3 DEF PlacesAreHeld
<1>12. BInv'
  BY <1>5, <1>6, <1>7, <1>9, <1>10 DEF BInv
<1> QED BY <1>2, <1>4, <1>11, <1>12

LEMMA GiveBackStep ==
  ASSUME BInv, NEW c \in Calls, GiveBack(c)
  PROVE  BInv' /\ c \in Holders /\ Holders' = Holders \ {c} /\ Busy' = Busy
<1>1. TypeOK /\ PlacesAreHeld /\ RowsKnown /\ VerdictsRead /\ BusyAreDone
  BY DEF BInv
<1>2. Holders' = Holders \ {c} /\ c \in Holders
  BY <1>1 DEF GiveBack, Holders, TypeOK
<1>3. Busy' = Busy
  BY DEF GiveBack, Busy
<1>4. TypeOK'
  BY <1>1, BoundAssumption DEF GiveBack, TypeOK
<1>5. PlacesAreHeld'
  BY <1>1, <1>2, HoldersFinite, FS_RemoveElement DEF GiveBack, PlacesAreHeld
<1>6. RowsKnown'
  BY <1>1 DEF GiveBack, RowsKnown, IsRow, Written, Stored, Key, Cut, Altered, Short, Empty
<1>7. VerdictsRead'
  BY <1>1 DEF GiveBack, VerdictsRead, Verified, Verdict, Readable, TypeOK
<1>8. BusyAreDone'
  BY <1>1 DEF GiveBack, BusyAreDone, TypeOK
<1>9. BInv'
  BY <1>4, <1>5, <1>6, <1>7, <1>8 DEF BInv
<1> QED BY <1>2, <1>3, <1>9

\* A return or a panic: the call keeps its place.
LEMMA EndStep ==
  ASSUME BInv, NEW c \in Calls, Returns(c) \/ Panics(c)
  PROVE  BInv' /\ Holders' = Holders /\ Busy' = Busy
<1>1. TypeOK /\ PlacesAreHeld /\ RowsKnown /\ VerdictsRead /\ BusyAreDone
  BY DEF BInv
<1>2. /\ phase[c] = "running" /\ phase' = [phase EXCEPT ![c] = "leaving"]
      /\ places' = places /\ asked' = asked /\ read' = read /\ row' = row
  BY DEF Returns, Panics
<1>3. /\ answer'[c] \in {"nil", "ErrMismatch", "ErrUnreadable", "panic"}
      /\ \A d \in Calls : d # c => answer'[d] = answer[d]
      /\ answer' \in [Calls -> Answers]
      /\ Verified(c)' => answer'[c] = Verdict(read[c], asked[c].plaintext)
  BY <1>1, <1>2 DEF Returns, Panics, Verdict, Answers, TypeOK, Verified
<1>4. Holders' = Holders
  BY <1>1, <1>2 DEF Holders, TypeOK
<1>5. Busy' = Busy
  BY <1>1, <1>2, <1>3 DEF Busy, VerdictsRead
<1>6. TypeOK'
  BY <1>1, <1>2, <1>3 DEF TypeOK
<1>7. PlacesAreHeld'
  BY <1>1, <1>2, <1>4 DEF PlacesAreHeld
<1>8. RowsKnown'
  BY <1>1, <1>2 DEF RowsKnown, IsRow, Written, Stored, Key, Cut, Altered, Short, Empty
<1>9. VerdictsRead'
  BY <1>1, <1>2, <1>3 DEF VerdictsRead, Verified, Verdict, Readable, TypeOK
<1>10. BusyAreDone'
  BY <1>1, <1>2, <1>3 DEF BusyAreDone, TypeOK
<1>11. BInv'
  BY <1>6, <1>7, <1>8, <1>9, <1>10 DEF BInv
<1> QED BY <1>4, <1>5, <1>11

\* A call answered without reaching the hasher.
LEMMA RefusedStep ==
  ASSUME BInv, NEW c \in Calls, AskNothing(c) \/ Refuse(c)
  PROVE  BInv' /\ Holders' = Holders
<1>1. TypeOK /\ PlacesAreHeld /\ RowsKnown /\ VerdictsRead /\ BusyAreDone
  BY DEF BInv
<1>2. /\ phase[c] = "idle" /\ phase' = [phase EXCEPT ![c] = "done"]
      /\ places' = places /\ asked' = asked /\ read' = read /\ row' = row
  BY DEF AskNothing, Refuse
<1>3. PICK a \in {"ErrEmpty", "ErrBusy"} : answer' = [answer EXCEPT ![c] = a]
  BY DEF AskNothing, Refuse
<1>4. Holders' = Holders
  BY <1>1, <1>2 DEF Holders, TypeOK
<1>5. TypeOK'
  BY <1>1, <1>2, <1>3 DEF TypeOK, Answers
<1>6. PlacesAreHeld'
  BY <1>1, <1>2, <1>4 DEF PlacesAreHeld
<1>7. RowsKnown'
  BY <1>1, <1>2 DEF RowsKnown, IsRow, Written, Stored, Key, Cut, Altered, Short, Empty
<1>8. VerdictsRead'
  BY <1>1, <1>2, <1>3 DEF VerdictsRead, Verified, Verdict, Readable, TypeOK
<1>9. BusyAreDone'
  BY <1>1, <1>2, <1>3 DEF BusyAreDone, TypeOK
<1>10. BInv'
  BY <1>5, <1>6, <1>7, <1>8, <1>9 DEF BInv
<1> QED BY <1>4, <1>10

\* The row changes, or nothing does.
LEMMA RowStep ==
  ASSUME BInv, RowDamaged \/ (\E c \in Calls : Store(c)) \/ UNCHANGED vars
  PROVE  BInv' /\ Holders' = Holders /\ Busy' = Busy
<1>1. TypeOK /\ PlacesAreHeld /\ RowsKnown /\ VerdictsRead /\ BusyAreDone
  BY DEF BInv
<1>2. places' = places /\ asked' = asked /\ read' = read /\ answer' = answer
  BY DEF RowDamaged, Store, vars
<1>3. /\ phase' \in [Calls -> {"idle", "running", "leaving", "done", "stored"}]
      /\ \A d \in Calls : \/ phase'[d] = phase[d]
                          \/ phase[d] = "done" /\ phase'[d] = "stored" /\ answer[d] = "nil"
  BY <1>1 DEF RowDamaged, Store, vars, TypeOK
<1>4. Holders' = Holders
  BY <1>3 DEF Holders
<1>5. Busy' = Busy
  BY <1>2 DEF Busy
<1>6. TypeOK'
  BY <1>1, <1>2, <1>3 DEF TypeOK
<1>7. PlacesAreHeld'
  BY <1>1, <1>2, <1>4 DEF PlacesAreHeld
<1>8. IsRow(row')
  <2>1. CASE RowDamaged
    BY <2>1 DEF RowDamaged, IsRow
  <2>2. CASE \E c \in Calls : Store(c)
    <3>1. PICK c \in Calls : Store(c)
      BY <2>2
    <3>2. row' = Stored(asked[c].plaintext, c, Cost) \/ IsRow(row')
      BY <3>1 DEF Store
    <3>3. asked[c].plaintext \in Plaintexts
      BY <3>1, <1>1 DEF Store, TypeOK, NoAsk
    <3> QED BY <3>2, <3>3, BoundAssumption DEF IsRow, Written
  <2>3. CASE UNCHANGED vars
    BY <2>3, <1>1 DEF vars, RowsKnown
  <2> QED BY <2>1, <2>2, <2>3
<1>9. RowsKnown'
  BY <1>1, <1>2, <1>8 DEF RowsKnown, IsRow, Written, Stored, Key, Cut, Altered, Short, Empty
<1>10. VerdictsRead'
  BY <1>1, <1>2, <1>3 DEF VerdictsRead, Verified, Verdict, Readable
<1>11. BusyAreDone'
  BY <1>1, <1>2, <1>3 DEF BusyAreDone
<1>12. BInv'
  BY <1>6, <1>7, <1>9, <1>10, <1>11 DEF BInv
<1> QED BY <1>4, <1>5, <1>12

LEMMA NextInv == BInv /\ [Next]_vars => BInv'
  BY TakeStep, GiveBackStep, EndStep, RefusedStep, RowStep DEF Next, Quiet

-----------------------------------------------------------------------------
\* The invariant holds of every behaviour.
THEOREM Invariance == Spec => []BInv
<1>1. Init => BInv
  BY InitInv
<1>2. BInv /\ [Next]_vars => BInv'
  BY NextInv
<1> QED BY <1>1, <1>2, PTL DEF Spec

\* The channel never holds more than its places, and every answer is one of
\* those the package documents.
THEOREM TypeCorrect == Spec => []TypeOK
<1>1. BInv => TypeOK
  BY DEF BInv
<1> QED BY <1>1, Invariance, PTL

\* The length of the channel is the number of calls that took a place and have
\* not given it back (bound.go:56-58).
THEOREM PlacesHeld == Spec => []PlacesAreHeld
<1>1. BInv => PlacesAreHeld
  BY DEF BInv
<1> QED BY <1>1, Invariance, PTL

\* A value verifies its own password, whatever cost it was stored under, and
\* nothing else opens, damaged in place or not (pbkdf2.go:125-126).
THEOREM OwnVerified == Spec => []VerifiesItsOwn
<1>1. BInv => VerifiesItsOwn
  <2> SUFFICES ASSUME BInv, NEW c \in Calls, Verified(c)
               PROVE  answer[c] = "nil" <=>
                        \E k \in Costs, salt \in Calls \cup {Old} :
                            read[c] = Stored(asked[c].plaintext, salt, k)
    BY DEF VerifiesItsOwn
  <2> DEFINE x == asked[c].plaintext
  <2>1. answer[c] = Verdict(read[c], x) /\ x \in Plaintexts /\ IsRow(read[c])
    BY DEF BInv, VerdictsRead, RowsKnown, TypeOK, Verified, NoAsk
  <2> HIDE DEF x
  <2>2. ASSUME NEW k \in Costs, NEW salt \in Calls \cup {Old}, read[c] = Stored(x, salt, k)
        PROVE  answer[c] = "nil"
    BY <2>1, <2>2, VerdictOnStored
  <2>3. ASSUME answer[c] = "nil"
        PROVE  \E k \in Costs, salt \in Calls \cup {Old} : read[c] = Stored(x, salt, k)
    <3>1. Readable(read[c])
      BY <2>1, <2>3 DEF Verdict
    <3>2. read[c] \in Written
      BY <2>1, <2>3, <3>1, CutIsNotReadable, AlteredOpensNot DEF IsRow
    <3>3. PICK p \in Plaintexts, salt \in Calls \cup {Old}, k \in Costs :
             read[c] = Stored(p, salt, k)
      BY <3>2 DEF Written
    <3>4. Verdict(Stored(p, salt, k), x) = IF p = x THEN "nil" ELSE "ErrMismatch"
      BY VerdictOnStored
    <3>5. Verdict(read[c], x) = "nil"
      BY <2>1, <2>3
    <3>6. p = x
      BY <3>3, <3>4, <3>5
    <3> QED BY <3>3, <3>6
  <2> QED BY <2>2, <2>3 DEF x
<1> QED BY <1>1, Invariance, PTL

\* What parse refuses is never answered as a password that was wrong, and a
\* whole row never as unreadable (hasher.go:8-13, pbkdf2.go:148-151).
THEOREM Compared == Spec => []MismatchIsCompared
<1>1. BInv => MismatchIsCompared
  <2> SUFFICES ASSUME BInv, NEW c \in Calls, Verified(c)
               PROVE  /\ read[c] \in Written => answer[c] # "ErrUnreadable"
                      /\ answer[c] = "ErrMismatch" =>
                            \E s \in Written : read[c] \in {s} \cup Altered(s)
    BY DEF MismatchIsCompared
  <2>1. answer[c] = Verdict(read[c], asked[c].plaintext) /\ IsRow(read[c])
    BY DEF BInv, VerdictsRead, RowsKnown
  <2>2. ASSUME read[c] \in Written PROVE answer[c] # "ErrUnreadable"
    <3>1. Readable(read[c])
      BY <2>2, StoredIsReadable DEF Written
    <3> QED BY <2>1, <3>1 DEF Verdict
  <2>3. ASSUME answer[c] = "ErrMismatch"
        PROVE  \E s \in Written : read[c] \in {s} \cup Altered(s)
    <3>1. Readable(read[c])
      BY <2>1, <2>3 DEF Verdict
    <3> QED BY <2>1, <3>1, CutIsNotReadable DEF IsRow
  <2> QED BY <2>2, <2>3
<1> QED BY <1>1, Invariance, PTL

\* Bound implements the budget, its fairness apart: a call enters when a place
\* is free, is refused only when every place is held, and leaves once.
THEOREM BoundImplementsBudget == Spec => ABudget!Init /\ [][ABudget!Next]_ABudget!vars
<1>1. Init => ABudget!Init
  BY DEF Init, ABudget!Init, Holders, Busy
<1>2. BInv /\ [Next]_vars => [ABudget!Next]_ABudget!vars
  <2> SUFFICES ASSUME BInv, [Next]_vars PROVE [ABudget!Next]_ABudget!vars
    OBVIOUS
  <2>1. CASE \E c \in Calls, m \in Methods, p \in Plaintexts : Take(c, m, p)
    <3>1. PICK c \in Calls, m \in Methods, p \in Plaintexts : Take(c, m, p)
      BY <2>1
    <3>2. /\ c \notin Holders /\ c \notin Busy
          /\ Holders' = Holders \cup {c} /\ Busy' = Busy
          /\ Cardinality(Holders) < Places
      BY <3>1, TakeStep
    <3>3. ABudget!Enter(c)
      BY <3>2 DEF ABudget!Enter, ABudget!Cardinality, Cardinality
    <3> QED BY <3>3 DEF ABudget!Next
  <2>2. CASE \E c \in Calls : GiveBack(c)
    <3>1. PICK c \in Calls : ABudget!Leave(c)
      BY <2>2, GiveBackStep DEF ABudget!Leave
    <3> QED BY <3>1 DEF ABudget!Next
  <2>3. CASE \E c \in Calls : Returns(c) \/ Panics(c)
    BY <2>3, EndStep DEF ABudget!vars
  <2>4. CASE \E c \in Calls : AskNothing(c)
    <3>1. PICK c \in Calls : AskNothing(c)
      BY <2>4
    <3>2. Busy' = Busy
      BY <3>1 DEF AskNothing, Busy, BInv, TypeOK, VerdictsRead
    <3> QED BY <3>1, <3>2, RefusedStep DEF ABudget!vars
  <2>5. CASE \E c \in Calls : Refuse(c)
    <3>1. PICK c \in Calls : Refuse(c)
      BY <2>5
    <3>2. Busy' = Busy \cup {c} /\ c \notin Busy /\ c \notin Holders
      BY <3>1 DEF Refuse, Busy, Holders, BInv, TypeOK, VerdictsRead
    <3>3. Cardinality(Holders) >= Places
      BY <3>1, BoundAssumption DEF Refuse, IsFree, BInv, PlacesAreHeld, TypeOK
    <3>4. Holders' = Holders
      BY <3>1, RefusedStep
    <3>5. ABudget!Refuse(c)
      BY <3>2, <3>3, <3>4 DEF ABudget!Refuse, ABudget!Cardinality, Cardinality
    <3> QED BY <3>5 DEF ABudget!Next
  <2>6. CASE RowDamaged \/ (\E c \in Calls : Store(c)) \/ UNCHANGED vars
    BY <2>6, RowStep DEF ABudget!vars
  <2> QED BY <2>1, <2>2, <2>3, <2>4, <2>5, <2>6 DEF Next, Quiet
<1> QED BY <1>1, <1>2, Invariance, PTL DEF Spec

=============================================================================
