------------------------------- MODULE Minter -------------------------------
(***************************************************************************)
(* sortid.Minter: identifiers that sort in the order they were minted, off *)
(* a clock that may stand still or step back.                              *)
(*                                                                         *)
(* Mint reads the clock BEFORE it takes its mutex (sortid.go:146-149), so  *)
(* concurrent calls may take the mutex in another order than they read the *)
(* clock in, and the critical section alone keeps the order.  An instant   *)
(* is a whole number of ticks since 1970, Frac of them to a millisecond,   *)
(* and negative before it; the timestamp is the instant in a machine word, *)
(* and an id keeps the low bits of it around its version.                  *)
(***************************************************************************)
EXTENDS Integers

CONSTANTS Calls,     \* the calls of Mint in a behaviour
          Readings,  \* what the service's clock may answer
          Frac,      \* ticks in a millisecond: 4096
          Millis,    \* milliseconds an id has room for: 2^48
          Word       \* values of a uint64: 2^64

\* What a timestamp may be for an id to keep all of it: 60 bits.
Span == Millis * Frac

ASSUME MinterAssumption ==
    /\ Readings \subseteq Int
    /\ Frac \in Nat \ {0}
    /\ Millis \in Nat \ {0}
    /\ Word \in Nat
    /\ Word > Span

VARIABLES clock,   \* what now() answers
          phase,   \* where each call is
          at,      \* its reading of the clock
          last,    \* Minter.last: the timestamp of the id minted last
          ts,      \* the timestamp it was given
          id       \* the first eight bytes of the id it returned

minterVars == <<clock, phase, at, last, ts, id>>

-----------------------------------------------------------------------------
\* The version of every id, in the four bits after the milliseconds.
Version == 7

\* uint64(t.UnixMilli())<<12 | uint64(t.Nanosecond()%1_000_000)*4096/1_000_000
Stamp(t) == t % Word

\* Two past the last timestamp when the clock is not past it.
NextStampPadded(t) == IF Stamp(t) <= last THEN (last + 2) % Word ELSE Stamp(t)

\* The clock's timestamp, whatever was minted before.
NextStampOfClock(t) == Stamp(t)

\* One past the last timestamp when the clock is not past it.
NextStamp(t) == IF Stamp(t) <= last THEN (last + 1) % Word ELSE Stamp(t)

\* ts<<4&^0xffff | ts&0x0fff, with the version set: the milliseconds, the
\* version, the fraction.  The random bytes after these never decide between
\* two ids of one Minter.
Encode(s) == ((s \div Frac) % Millis) * (16 * Frac) + Version * Frac + (s % Frac)

\* id.minted(): the version the first eight bytes carry.
IsMinted(i) == (i \div Frac) % 16 = Version

-----------------------------------------------------------------------------
MinterInit ==
    /\ clock \in Readings
    /\ phase = [c \in Calls |-> "new"]
    /\ at = [c \in Calls |-> 0]
    /\ last = 0
    /\ ts = [c \in Calls |-> 0]
    /\ id = [c \in Calls |-> 0]

\* The wall clock is set, forward or back.
ClockMoves ==
    /\ clock' \in Readings
    /\ clock' # clock
    /\ UNCHANGED <<phase, at, last, ts, id>>

\* t := m.now().  The mutex is not held.
ReadClock(c) ==
    /\ phase[c] = "new"
    /\ phase' = [phase EXCEPT ![c] = "read"]
    /\ at' = [at EXCEPT ![c] = clock]
    /\ UNCHANGED <<clock, last, ts, id>>

\* The critical section, and the id built from the timestamp it left with.
Mint(c) ==
    LET s == NextStamp(at[c])
    IN  /\ phase[c] = "read"
        /\ last' = s
        /\ ts' = [ts EXCEPT ![c] = s]
        /\ id' = [id EXCEPT ![c] = Encode(s)]
        /\ phase' = [phase EXCEPT ![c] = "minted"]
        /\ UNCHANGED <<clock, at>>

MinterNext ==
    \/ ClockMoves
    \/ \E c \in Calls : ReadClock(c)
    \/ \E c \in Calls : Mint(c)

MinterSpec == MinterInit /\ [][MinterNext]_minterVars

-----------------------------------------------------------------------------
Minted == {c \in Calls : phase[c] = "minted"}

MinterTypeOK ==
    /\ clock \in Readings
    /\ phase \in [Calls -> {"new", "read", "minted"}]
    /\ at \in [Calls -> Readings \cup {0}]
    /\ last \in 0 .. (Word - 1)
    /\ ts \in [Calls -> 0 .. (Word - 1)]
    /\ id \in [Calls -> Nat]

\* The timestamps minted differ in no bit an id drops: all of them have the
\* same multiple of Span below them.  Clocks of any one era do, those before
\* 1970 or past the year 10889 among them.
Unwrapped ==
    \E k \in 0 .. ((Word - 1) \div Span) :
        \A c \in Minted : k * Span <= ts[c] /\ ts[c] < (k + 1) * Span

\* Mint returns an id greater than every one this Minter minted before
\* (sortid.go:140), in the order of its mutex and so for every call that
\* began after another returned.
MintsUpward ==
    [][\A c \in Minted' \ Minted, d \in Minted : Unwrapped' => id[d] < id'[c]]_minterVars

\* An id is never behind the clock its call read, and ahead of it only by
\* standing one tick past another id (sortid.go:142-144).
AheadByOne ==
    \A c \in Minted : Unwrapped =>
        /\ Stamp(at[c]) <= ts[c]
        /\ \/ ts[c] = Stamp(at[c])
           \/ ts[c] = 1
           \/ \E d \in Minted : ts[d] = ts[c] - 1

=============================================================================
