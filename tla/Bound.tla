------------------------------- MODULE Bound --------------------------------
(***************************************************************************)
(* crypto/password: a Password verified and hashed through a bounded       *)
(* hasher, against one user's row.                                         *)
(*                                                                         *)
(* Calls run concurrently.  Each takes a place by a send that does not     *)
(* wait on a channel of Places slots, runs the wrapped hasher, and gives   *)
(* the place back by a deferred receive, before its caller sees what it    *)
(* returned and also when the hasher panicked.  The row a verification is  *)
(* handed may have been written by an earlier deployment under another     *)
(* cost, rewritten since it was read, or damaged in the store: cut out of  *)
(* shape, or altered in place and read like any other.                     *)
(*                                                                         *)
(* The wrapped hasher is NewPBKDF2's.  The derivation is external: what a  *)
(* key shows is that equal keys come from equal inputs.  That any hasher   *)
(* may panic instead is what the deferred give-back is for.                *)
(***************************************************************************)
EXTENDS Integers, FiniteSets

CONSTANTS Calls,       \* the calls of a behaviour
          Places,      \* the places Bound was wired with
          Plaintexts,  \* the passwords a carrier may hold
          Nothing,     \* what an unfilled carrier holds, and no salt or key
          Flipped,     \* what a salt altered in place reads as, or a password
                       \* whose key one altered in place would be
          Costs,       \* the iterations a row may say
          Cost,        \* the iterations this hasher was wired with
          Old          \* the salt of the row an earlier deployment stored

ASSUME BoundAssumption ==
    /\ IsFiniteSet(Calls)
    /\ Places \in Nat \ {0}
    /\ Costs \subseteq Nat \ {0}
    /\ Cost \in Costs
    /\ Nothing \notin Plaintexts \cup Calls \cup {Old, Flipped}
    /\ Flipped \notin Plaintexts \cup Calls \cup {Old}

VARIABLES places,   \* the length of the channel
          phase,    \* where each call is
          asked,    \* what it was asked, and of which carrier
          read,     \* the stored value it was handed
          answer,   \* what it returned, or is returning
          row       \* the user's row

vars == <<places, phase, asked, read, answer, row>>

-----------------------------------------------------------------------------
(***************************************************************************)
(* The hasher.                                                             *)
(***************************************************************************)

\* pbkdf2.Key: an injection, as far as this package can tell.
Key(plaintext, salt, cost) == <<plaintext, salt, cost>>

\* A key cut short.
Short == <<>>

\* What Hash stores under a salt.
Stored(plaintext, salt, cost) ==
    [algorithm |-> "pbkdf2-sha256", cost |-> cost, salt |-> salt, key |-> Key(plaintext, salt, cost)]

\* The row of a user who has none yet: an empty text.
Empty == [algorithm |-> "none", cost |-> 0, salt |-> Nothing, key |-> Short]

\* Every value Hash may have written.
Written == {Stored(p, salt, k) : p \in Plaintexts, salt \in Calls \cup {Old}, k \in Costs}

\* Damage that cuts a row out of shape: another algorithm's, a cost that is
\* none, a salt or a key cut short.
Cut(s) == {[s EXCEPT !.algorithm = "other"], [s EXCEPT !.cost = 0],
           [s EXCEPT !.salt = Nothing], [s EXCEPT !.key = Short]}

\* Damage in place, which keeps every length: characters of the salt or of the
\* key, or the digits of the cost.
Altered(s) == {[s EXCEPT !.salt = Flipped], [s EXCEPT !.key = Key(Flipped, s.salt, s.cost)]}
              \cup {[s EXCEPT !.cost = k] : k \in Costs \ {s.cost}}

\* A parse that decodes the salt and the key but not their lengths.
ReadableAnyLength(s) == s.algorithm = "pbkdf2-sha256" /\ s.cost >= 1

\* parse: the algorithm, the cost, and both lengths.
Readable(s) ==
    /\ s.algorithm = "pbkdf2-sha256"
    /\ s.cost >= 1
    /\ s.salt # Nothing
    /\ s.key # Short

\* A verification under the hasher's own cost.
VerdictAtOwnCost(s, plaintext) ==
    IF ~Readable(s) THEN "ErrUnreadable"
    ELSE IF Key(plaintext, s.salt, Cost) # s.key THEN "ErrMismatch" ELSE "nil"

\* Verify: the key derived under the salt and the cost the value carries.
Verdict(s, plaintext) ==
    IF ~Readable(s) THEN "ErrUnreadable"
    ELSE IF Key(plaintext, s.salt, s.cost) # s.key THEN "ErrMismatch" ELSE "nil"

-----------------------------------------------------------------------------
(***************************************************************************)
(* The calls.                                                              *)
(***************************************************************************)
NoAsk == [method |-> "none", plaintext |-> Nothing]

Init ==
    /\ places = 0
    /\ phase = [c \in Calls |-> "idle"]
    /\ asked = [c \in Calls |-> NoAsk]
    /\ read = [c \in Calls |-> Empty]
    /\ answer = [c \in Calls |-> "none"]
    /\ row \in {Empty} \cup {Stored(p, Old, k) : p \in Plaintexts, k \in Costs}

\* A row Hash wrote is damaged in the store, once.
RowDamaged ==
    /\ row \in Written
    /\ row' \in Cut(row) \cup Altered(row)
    /\ UNCHANGED <<places, phase, asked, read, answer>>

\* A carrier holding nothing is refused before the hasher is reached.
AskNothing(c) ==
    /\ phase[c] = "idle"
    /\ phase' = [phase EXCEPT ![c] = "done"]
    /\ answer' = [answer EXCEPT ![c] = "ErrEmpty"]
    /\ UNCHANGED <<places, asked, read, row>>

\* The send goes through: the channel has a slot.
IsFree == places < Places

\* take, and the wrapped hasher is called: to hash p, or to verify it against
\* the row the service has read.
Take(c, method, p) ==
    /\ phase[c] = "idle"
    /\ IsFree
    /\ places' = places + 1
    /\ phase' = [phase EXCEPT ![c] = "running"]
    /\ asked' = [asked EXCEPT ![c] = [method |-> method, plaintext |-> p]]
    /\ read' = IF method = "Verify" THEN [read EXCEPT ![c] = row] ELSE read
    /\ UNCHANGED <<answer, row>>

\* take finds every place held: neither the password nor the row is read.
Refuse(c) ==
    /\ phase[c] = "idle"
    /\ ~IsFree
    /\ phase' = [phase EXCEPT ![c] = "done"]
    /\ answer' = [answer EXCEPT ![c] = "ErrBusy"]
    /\ UNCHANGED <<places, asked, read, row>>

\* The wrapped hasher returns.
Returns(c) ==
    /\ phase[c] = "running"
    /\ phase' = [phase EXCEPT ![c] = "leaving"]
    /\ answer' = [answer EXCEPT ![c] = IF asked[c].method = "Hash" THEN "nil"
                                       ELSE Verdict(read[c], asked[c].plaintext)]
    /\ UNCHANGED <<places, asked, read, row>>

\* A give-back that is not deferred: a panic passes it by.
PanicsPastGiveBack(c) ==
    /\ phase[c] = "running"
    /\ phase' = [phase EXCEPT ![c] = "done"]
    /\ answer' = [answer EXCEPT ![c] = "panic"]
    /\ UNCHANGED <<places, asked, read, row>>

\* The wrapped hasher panics: the call unwinds through the deferred give-back.
Panics(c) ==
    /\ phase[c] = "running"
    /\ phase' = [phase EXCEPT ![c] = "leaving"]
    /\ answer' = [answer EXCEPT ![c] = "panic"]
    /\ UNCHANGED <<places, asked, read, row>>

\* A give-back beside the deferred one.
GiveBackTwice(c) ==
    /\ phase[c] = "leaving"
    /\ places > 1
    /\ places' = places - 2
    /\ phase' = [phase EXCEPT ![c] = "done"]
    /\ UNCHANGED <<asked, read, answer, row>>

\* giveBack: the receive, which waits while the channel is empty.
GiveBack(c) ==
    /\ phase[c] = "leaving"
    /\ places > 0
    /\ places' = places - 1
    /\ phase' = [phase EXCEPT ![c] = "done"]
    /\ UNCHANGED <<asked, read, answer, row>>

\* The service stores what Hash derived, under the salt of that call.
Store(c) ==
    /\ phase[c] = "done"
    /\ asked[c].method = "Hash"
    /\ answer[c] = "nil"
    /\ phase' = [phase EXCEPT ![c] = "stored"]
    /\ row' = Stored(asked[c].plaintext, c, Cost)
    /\ UNCHANGED <<places, asked, read, answer>>

\* Nothing is being asked.
Quiet == (\A c \in Calls : phase[c] \in {"done", "stored"}) /\ UNCHANGED vars

Methods == {"Hash", "Verify"}

Next ==
    \/ RowDamaged
    \/ \E c \in Calls : AskNothing(c)
    \/ \E c \in Calls, m \in Methods, p \in Plaintexts : Take(c, m, p)
    \/ \E c \in Calls : Refuse(c)
    \/ \E c \in Calls : Returns(c)
    \/ \E c \in Calls : Panics(c)
    \/ \E c \in Calls : GiveBack(c)
    \/ \E c \in Calls : Store(c)
    \/ Quiet

\* The derivation ends, a cost being a number; a goroutine that can run does.
Fairness == \A c \in Calls : WF_vars(Returns(c) \/ Panics(c)) /\ WF_vars(GiveBack(c))

Spec == Init /\ [][Next]_vars /\ Fairness

-----------------------------------------------------------------------------
(***************************************************************************)
(* Properties.                                                             *)
(***************************************************************************)
Holders == {c \in Calls : phase[c] \in {"running", "leaving"}}
Busy    == {c \in Calls : answer[c] = "ErrBusy"}

\* A verification that ran.
Verified(c) == asked[c].method = "Verify" /\ answer[c] \in {"nil", "ErrMismatch", "ErrUnreadable"}

Answers == {"none", "nil", "ErrEmpty", "ErrBusy", "ErrMismatch", "ErrUnreadable", "panic"}

TypeOK ==
    /\ places \in 0 .. Places
    /\ phase \in [Calls -> {"idle", "running", "leaving", "done", "stored"}]
    /\ asked \in [Calls -> [method : Methods, plaintext : Plaintexts] \cup {NoAsk}]
    /\ answer \in [Calls -> Answers]
    /\ DOMAIN read = Calls

\* The channel is the one owner of how many places are held (bound.go:56-58):
\* its length is the number of calls between their take and their give-back,
\* panics included, so no more than Places run and no place is ever lost.
PlacesAreHeld == places = Cardinality(Holders)

\* Bound is a budget: a call is refused only while every place is held, is
\* never queued, and gives its place back, so a give-back is never stuck.
ABudget == INSTANCE Budget WITH holders <- Holders, refused <- Busy
IsABudget == ABudget!Spec

\* A value stored under whatever cost verifies its own password
\* (pbkdf2.go:125-126), however many rewrites raced the verification, and
\* nothing else opens: not another password, and no row that damage has made
\* of one, whether it is out of shape or altered in place, its cost among it.
VerifiesItsOwn ==
    \A c \in Calls : Verified(c) =>
        (answer[c] = "nil" <=>
            \E k \in Costs, salt \in Calls \cup {Old} :
                read[c] = Stored(asked[c].plaintext, salt, k))

\* A wrong password is an answer about a password (hasher.go:8-13): a whole row
\* is never unreadable, and one cut short, of another algorithm, without a cost
\* or empty never comes back as a wrong password (pbkdf2.go:148-151).  A row
\* altered in place has the shape of a whole one, and is compared.
MismatchIsCompared ==
    \A c \in Calls : Verified(c) =>
        /\ read[c] \in Written => answer[c] # "ErrUnreadable"
        /\ answer[c] = "ErrMismatch" => \E s \in Written : read[c] \in {s} \cup Altered(s)

=============================================================================
