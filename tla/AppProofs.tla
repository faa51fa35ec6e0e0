----------------------------- MODULE AppProofs -----------------------------
(***************************************************************************)
(* What is proved of App for any number of runners, however many of them   *)
(* RunnerFrom built.                                                       *)
(***************************************************************************)
EXTENDS App, TLAPS

(***************************************************************************)
(* The inductive invariant: what each goroutine has done fixes what its    *)
(* body, its adapter and its slot of errs hold.                            *)
(***************************************************************************)

\* Nothing of a runner that has not been started has moved.
OffIsOff ==
    \A r \in Runners : goroutine[r] = "off" => adapter[r] = "off" /\ body[r] = "off"

\* A goroutine past its runner holds the error its body returned.
PastIsRecorded ==
    \A r \in Runners : goroutine[r] \in {"leaving", "gone"} =>
        body[r] \in Errors /\ errs[r] = body[r]

\* A RunnerFrom's function is somewhere between its select and its drain for
\* as long as its goroutine runs.
PairsAreInside ==
    \A p \in Runners : adapter[p] \in {"select", "stopping", "draining"} =>
        goroutine[p] = "running" /\ p \in Pairs

RunnersStarted == \A r \in Runners : goroutine[r] # "off" <=> r <= started

JoinedAll ==
    AppReturned =>
        /\ \A r \in Runners : goroutine[r] = "gone"
        /\ result = {r \in Runners : errs[r] = "error"}
        /\ started = N

\* A body that has returned was cancelled, or another one returned before it.
ReturnedHasCause ==
    /\ (\E r \in Runners : body[r] \in Errors) /\ ~outer => alone # {}
    /\ inner /\ ~outer /\ N > 0 => alone # {}

IInv ==
    /\ TypeOK
    /\ OffIsOff
    /\ PastIsRecorded
    /\ PairsAreInside
    /\ RunnersStarted
    /\ JoinedAll
    /\ ReturnedHasCause

LEMMA RunningIsNoResult == Running \notin SUBSET Runners
    BY AppAssumption DEF Running, Runners

LEMMA InitIInv == Init => IInv
<1> SUFFICES ASSUME Init PROVE IInv
    OBVIOUS
<1>1. ~AppReturned
    BY DEF Init, AppReturned
<1>2. \A r \in Runners : r > 0
    BY AppAssumption DEF Runners
<1>3. TypeOK
    <2>1. started \in 0 .. N /\ result \in (SUBSET Runners) \cup {Running}
        BY AppAssumption DEF Init
    <2>2. /\ goroutine \in [Runners -> {"off", "running", "leaving", "gone"}]
          /\ adapter \in [Runners -> {"off", "none", "select", "stopping", "draining"}]
          /\ body \in [Runners -> {"off", "running"} \cup Errors]
          /\ errs \in [Runners -> Errors]
        BY DEF Init, Errors
    <2> QED  BY <2>1, <2>2 DEF Init, TypeOK
<1>4. OffIsOff /\ PastIsRecorded /\ PairsAreInside
    BY DEF Init, OffIsOff, PastIsRecorded, PairsAreInside
<1>5. RunnersStarted
    BY <1>2, AppAssumption DEF Init, RunnersStarted, Runners
<1>6. JoinedAll /\ ReturnedHasCause
    BY <1>1 DEF Init, JoinedAll, ReturnedHasCause, Errors
<1> QED  BY <1>3, <1>4, <1>5, <1>6 DEF IInv

LEMMA NextIInv == IInv /\ [Next]_vars => IInv'
<1> SUFFICES ASSUME IInv, [Next]_vars PROVE IInv'
    OBVIOUS
<1>0. N \in Nat /\ Pairs \subseteq Runners
    BY AppAssumption DEF Runners
<1> USE DEF IInv, TypeOK, Errors, OffIsOff, PastIsRecorded, PairsAreInside, RunnersStarted,
            JoinedAll, ReturnedHasCause, AppReturned, aux
<1>1. CASE CancelOuter
    BY <1>1 DEF CancelOuter
<1>2. ASSUME NEW r \in Runners, Go(r) PROVE IInv'
    BY <1>0, <1>2 DEF Go, Runners
<1>3. ASSUME NEW r \in Runners, NEW e \in Errors, PlainReturn(r, e) PROVE IInv'
    <2> USE <1>0, <1>3 DEF PlainReturn, BodyReturns, Record
    <2>1. TypeOK'
        BY DEF CtxDone
    <2>2. OffIsOff' /\ PastIsRecorded'
        OBVIOUS
    <2>3. PairsAreInside' /\ RunnersStarted' /\ JoinedAll'
        OBVIOUS
    <2>4. ReturnedHasCause'
        <3>1. N > 0
            BY DEF Runners
        <3>2. CASE CtxDone
            BY <3>1, <3>2 DEF CtxDone
        <3>3. CASE ~CtxDone
            <4>1. alone' # {}
                BY <3>3
            <4> QED  BY <4>1
        <3> QED  BY <3>2, <3>3
    <2> QED  BY <2>1, <2>2, <2>3, <2>4
<1>4. ASSUME NEW p \in Pairs, NEW e \in Errors, StartReturns(p, e) PROVE IInv'
    <2> USE <1>0, <1>4 DEF StartReturns, BodyReturns
    <2>1. TypeOK'
        BY DEF CtxDone
    <2>2. OffIsOff' /\ PastIsRecorded'
        OBVIOUS
    <2>3. PairsAreInside' /\ RunnersStarted' /\ JoinedAll'
        OBVIOUS
    <2>4. ReturnedHasCause'
        <3>1. N > 0
            BY DEF Runners
        <3>2. CASE CtxDone
            BY <3>1, <3>2 DEF CtxDone
        <3>3. CASE ~CtxDone
            <4>1. alone' # {}
                BY <3>3
            <4> QED  BY <4>1
        <3> QED  BY <3>2, <3>3
    <2> QED  BY <2>1, <2>2, <2>3, <2>4
<1>5. ASSUME NEW p \in Pairs, SelectDone(p) PROVE IInv'
    BY <1>0, <1>5 DEF SelectDone, Record, Reported
<1>6. ASSUME NEW p \in Pairs, SelectCancelled(p) PROVE IInv'
    BY <1>0, <1>6 DEF SelectCancelled
<1>7. ASSUME NEW p \in Pairs, StopReturns(p) PROVE IInv'
    BY <1>0, <1>7 DEF StopReturns
<1>8. ASSUME NEW p \in Pairs, Drain(p) PROVE IInv'
    BY <1>0, <1>8 DEF Drain, Record, Reported
<1>9. ASSUME NEW r \in Runners, Leave(r) PROVE IInv'
    BY <1>0, <1>9 DEF Leave
<1>10. CASE Join
    BY <1>0, <1>10, RunningIsNoResult DEF Join, Runners
<1>11. CASE UNCHANGED vars
    BY <1>11 DEF vars
<1> QED  BY <1>0, <1>1, <1>2, <1>3, <1>4, <1>5, <1>6, <1>7, <1>8, <1>9, <1>10, <1>11 DEF Next, Stopped

THEOREM Invariance == Spec => []IInv
    BY InitIInv, NextIInv, PTL DEF Spec

-----------------------------------------------------------------------------
\* App's state is what its types say.
THEOREM TypeCorrect == Spec => []TypeOK
<1>1. IInv => TypeOK
    BY DEF IInv
<1> QED  BY <1>1, Invariance, PTL

\* When Run returns, every runner has, and so has the start of every pair:
\* no goroutine outlives it, whichever way each of them came down.
THEOREM NothingOutlives == Spec => []NothingOutlivesRun
<1>1. IInv => NothingOutlivesRun
    BY DEF IInv, JoinedAll, PastIsRecorded, NothingOutlivesRun
<1> QED  BY <1>1, Invariance, PTL

\* Run returns the errors that were reported, all of them and no other.
THEOREM ErrorsAreJoined == Spec => []ErrorsJoined
<1>1. IInv => ErrorsJoined
    BY DEF IInv, JoinedAll, PastIsRecorded, ErrorsJoined
<1> QED  BY <1>1, Invariance, PTL

\* Behind every cancellation is the caller's own, or a runner that returned
\* while nothing asked it to.
THEOREM CancelsHaveCause == Spec => []CancelHasCause
<1>1. IInv => CancelHasCause
    BY DEF IInv, ReturnedHasCause, CancelHasCause
<1> QED  BY <1>1, Invariance, PTL

\* App implements the safety part of the Runner contract, so that an App can
\* be a runner of another: its steps are the cancellation of its context, one
\* return, and steps its caller does not see.
THEOREM AppImplementsRunner ==
    Spec => Contract!Init /\ [][Contract!Next]_(Contract!vars)
<1>1. Init => Contract!Init
    BY DEF Init, Contract!Init, AppReturned
<1>2. ASSUME IInv, [Next]_vars PROVE [Contract!Next]_(Contract!vars)
    <2> USE DEF Contract!vars, AppReturned
    <2>1. CASE CancelOuter
        BY <2>1 DEF CancelOuter, Contract!Next, Contract!Cancel
    <2>2. CASE Join
        <3>1. result' # Running
            BY <2>2, RunningIsNoResult DEF Join
        <3> QED  BY <2>2, <3>1 DEF Join, Contract!Next, Contract!Return
    <2>3. CASE UNCHANGED <<outer, result>>
        BY <2>3
    <2>4. CASE UNCHANGED vars
        BY <2>4 DEF vars
    <2> QED  BY <1>2, <2>1, <2>2, <2>3, <2>4
             DEF Next, Go, PlainReturn, StartReturns, SelectDone, SelectCancelled, StopReturns,
                 Drain, Leave, Stopped, Record, BodyReturns
<1> QED  BY <1>1, <1>2, Invariance, PTL DEF Spec

=============================================================================
