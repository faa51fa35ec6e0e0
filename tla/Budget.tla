------------------------------- MODULE Budget -------------------------------
(***************************************************************************)
(* What password.Bound promises (crypto/password/bound.go:20-37): a budget *)
(* of Places shared by every call.  A call enters when a place is free, is *)
(* refused at once when none is, is never made to wait, and gives its      *)
(* place back.                                                             *)
(***************************************************************************)
EXTENDS Naturals, FiniteSets

CONSTANTS Calls, Places

VARIABLES holders,   \* the calls holding a place
          refused    \* the calls that were refused

vars == <<holders, refused>>

Init == holders = {} /\ refused = {}

Enter(c) ==
    /\ c \notin holders \cup refused
    /\ Cardinality(holders) < Places
    /\ holders' = holders \cup {c}
    /\ UNCHANGED refused

Refuse(c) ==
    /\ c \notin holders \cup refused
    /\ Cardinality(holders) >= Places
    /\ refused' = refused \cup {c}
    /\ UNCHANGED holders

Leave(c) ==
    /\ c \in holders
    /\ holders' = holders \ {c}
    /\ UNCHANGED refused

Next == \E c \in Calls : Enter(c) \/ Refuse(c) \/ Leave(c)

\* A place is given back, whatever the others do.
Spec == Init /\ [][Next]_vars /\ \A c \in Calls : WF_vars(Leave(c))

=============================================================================
