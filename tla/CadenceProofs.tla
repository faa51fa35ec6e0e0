--------------------------- MODULE CadenceProofs ---------------------------
(***************************************************************************)
(* What is proved of Cadence for every set of requests and of callers,     *)
(* every ceiling, every window and every bound on the clock.               *)
(***************************************************************************)
EXTENDS Cadence, FiniteSetTheorems, TLAPS

(***************************************************************************)
(* Retry-After is the delay rounded up to the second: waiting it out is    *)
(* waiting the delay out, and a second less would not be, unless it is the *)
(* one second a header never goes below (rate.go:137-151).                 *)
(***************************************************************************)
LEMMA RetryAfterRoundsUp ==
    ASSUME NEW d \in Nat \ {0}
    PROVE  /\ RetryAfter(d) \in Nat \ {0}
           /\ RetryAfter(d) * Second >= d
           /\ RetryAfter(d) = 1 \/ (RetryAfter(d) - 1) * Second < d
<1>1. Second \in Nat \ {0}
    BY CadenceAssumption
<1>2. /\ d \div Second \in Nat
      /\ d % Second \in 0 .. (Second - 1)
      /\ d = Second * (d \div Second) + (d % Second)
    BY <1>1, SMT
<1>3. CASE d <= Second
    BY <1>1, <1>3 DEF RetryAfter
<1>4. CASE d > Second
    <2> DEFINE n == d \div Second
               m == d % Second
    <2>1. n # 0
        BY <1>1, <1>2, <1>4, SMT
    <2>2. CASE m = 0
        <3>1. RetryAfter(d) = n
            BY <1>1, <1>4, <2>2 DEF RetryAfter
        <3> QED  BY <1>1, <1>2, <2>1, <2>2, <3>1, SMT
    <2>3. CASE m # 0
        <3>1. RetryAfter(d) = n + 1
            BY <1>1, <1>4, <2>3 DEF RetryAfter
        <3> HIDE DEF n, m
        <3>2. n \in Nat /\ m \in 1 .. (Second - 1) /\ d = Second * n + m
            BY <1>2, <2>3 DEF n, m
        <3> QED  BY <1>1, <2>1, <3>1, <3>2, SMT
    <2> QED  BY <2>2, <2>3
<1> QED  BY <1>1, <1>3, <1>4

-----------------------------------------------------------------------------
(***************************************************************************)
(* The inductive invariant, part by part.                                  *)
(***************************************************************************)

\* No reading is ahead of the clock, and none counted is later than latest.
ReadingsPast ==
    /\ swept <= latest
    /\ latest <= clock
    /\ \A r \in Requests : at[r] <= clock

\* A counted reading a window past the last sweep would have swept.
SweptInTime == latest < swept + Window

\* An open window has a call in it, and was opened by a counted reading.
WindowsSound ==
    \A k \in Held : seen[k].calls \in 1 .. Ceiling /\ seen[k].opened <= latest

\* A request that is not answered has taken nothing.
AnsweredOnce ==
    \A r \in Requests : phase[r] # "answered" => answer[r] = NoAnswer

\* A request that has read the clock is a named caller's.
ReadKeyed == \A r \in Requests : phase[r] = "read" => key[r] \in Keys

\* What a refusal says follows from the window it was judged by.
RefusalsSound ==
    \A r \in Requests : Refused(r) =>
        /\ answer[r].delay = answer[r].opened + Window - at[r]
        /\ answer[r].delay > 0
        /\ answer[r].retry = RetryAfter(answer[r].delay)
        /\ answer[r].opened <= IF Late(r) THEN answer[r].after ELSE at[r]

\* A window opened after the last sweep was opened by a request counted
\* since; one that sweep left was opened since the sweep before.
HeldSince ==
    \A k \in Held : \E r \in Requests :
        /\ Served(r)
        /\ key[r] = k
        /\ answer[r].epoch + 1 >= sweeps
        /\ seen[k].opened > swept => answer[r].epoch = sweeps

IInv ==
    /\ TypeOK
    /\ ReadingsPast
    /\ SweptInTime
    /\ WindowsSound
    /\ AnsweredOnce
    /\ ReadKeyed
    /\ RefusalsSound
    /\ HeldSince

-----------------------------------------------------------------------------
(***************************************************************************)
(* The window a critical section judges a call by has not passed, has at   *)
(* most the ceiling in it, and is the open one unless it is fresh.         *)
(***************************************************************************)
LEMMA WindowOfSound ==
    ASSUME TypeOK, WindowsSound, NEW k \in Keys, NEW t \in Nat
    PROVE  LET w == WindowOf(k, t)
           IN  /\ w \in [opened : Nat, calls : Nat]
               /\ w.calls <= Ceiling
               /\ t < w.opened + Window
               /\ \/ w = [opened |-> t, calls |-> 0]
                  \/ /\ k \in Held
                     /\ Forget(t)[k] = seen[k]
                     /\ w = seen[k]
<1> DEFINE f == Forget(t)[k]
<1>1. /\ Window \in Nat \ {0}
      /\ Ceiling \in Nat \ {0}
      /\ NoWindow \notin [opened : Nat, calls : Nat]
    BY CadenceAssumption
<1>2. f = NoWindow \/ f = seen[k]
    BY DEF Forget
<1>3. CASE f = NoWindow \/ Passed(f, t)
    <2>1. WindowOf(k, t) = [opened |-> t, calls |-> 0]
        BY <1>3 DEF WindowOf
    <2> QED  BY <1>1, <2>1
<1>4. CASE ~(f = NoWindow \/ Passed(f, t))
    <2>1. WindowOf(k, t) = seen[k] /\ f = seen[k] /\ seen[k] # NoWindow
        BY <1>2, <1>4 DEF WindowOf
    <2>2. k \in Held /\ seen[k] \in [opened : Nat, calls : Nat]
        BY <2>1 DEF Held, TypeOK
    <2>3. seen[k].calls \in 1 .. Ceiling
        BY <2>2 DEF WindowsSound
    <2>4. t < seen[k].opened + Window
        BY <1>1, <1>4, <2>1, <2>2 DEF Passed
    <2> QED  BY <1>1, <2>1, <2>2, <2>3, <2>4
<1> QED  BY <1>3, <1>4

\* What a sweep leaves in the map, and how it moves the auxiliary variables.
LEMMA SweepSound ==
    ASSUME TypeOK, ReadingsPast, SweptInTime, WindowsSound, HeldSince,
           NEW t \in Nat, t <= clock, Sweep(t)
    PROVE  /\ swept' \in Int /\ latest' \in Int /\ sweeps' \in Nat
           /\ swept' <= latest' /\ latest' <= clock /\ latest' < swept' + Window
           /\ latest <= latest' /\ t <= latest'
           /\ sweeps' >= sweeps
           /\ Forget(t) \in [Keys -> [opened : Nat, calls : Nat] \cup {NoWindow}]
           /\ \A k \in Keys : Forget(t)[k] # NoWindow =>
                /\ k \in Held
                /\ Forget(t)[k] = seen[k]
                /\ \E r \in Requests :
                    /\ Served(r)
                    /\ key[r] = k
                    /\ answer[r].epoch + 1 >= sweeps'
                    /\ seen[k].opened > swept' => answer[r].epoch = sweeps'
<1>1. Window \in Nat \ {0}
    BY CadenceAssumption
<1>2. /\ swept' \in Int /\ latest' \in Int /\ sweeps' \in Nat
      /\ swept' <= latest' /\ latest' <= clock /\ latest' < swept' + Window
      /\ latest <= latest' /\ t <= latest'
      /\ sweeps' >= sweeps
    BY <1>1 DEF TypeOK, ReadingsPast, SweptInTime, Sweep, DueForSweep
<1>3. Forget(t) \in [Keys -> [opened : Nat, calls : Nat] \cup {NoWindow}]
    BY DEF TypeOK, Forget
<1>4. ASSUME NEW k \in Keys, Forget(t)[k] # NoWindow
      PROVE  /\ k \in Held
             /\ Forget(t)[k] = seen[k]
             /\ \E r \in Requests :
                    /\ Served(r)
                    /\ key[r] = k
                    /\ answer[r].epoch + 1 >= sweeps'
                    /\ seen[k].opened > swept' => answer[r].epoch = sweeps'
    <2>1. k \in Held /\ Forget(t)[k] = seen[k]
        BY <1>4 DEF Forget, Held
    <2>2. seen[k] \in [opened : Nat, calls : Nat]
        BY <2>1 DEF TypeOK, Held
    <2>3. PICK r \in Requests :
            /\ Served(r)
            /\ key[r] = k
            /\ answer[r].epoch + 1 >= sweeps
            /\ seen[k].opened > swept => answer[r].epoch = sweeps
        BY <2>1 DEF HeldSince
    <2>4. answer[r].epoch \in Nat
        BY DEF TypeOK, Answers
    <2>5. CASE ~DueForSweep(t)
        <3>1. swept' = swept /\ sweeps' = sweeps
            BY <2>5 DEF Sweep
        <3> QED  BY <2>1, <2>3, <3>1
    <2>6. CASE DueForSweep(t)
        <3>1. swept' = t /\ sweeps' = sweeps + 1
            BY <2>6 DEF Sweep
        <3>2. t < seen[k].opened + Window
            BY <1>1, <1>4, <2>1, <2>2, <2>6 DEF Forget, Passed, TypeOK, Held
        <3>3. t >= swept + Window
            BY <2>6 DEF DueForSweep
        <3>4. answer[r].epoch = sweeps
            BY <1>1, <2>2, <2>3, <3>2, <3>3 DEF TypeOK
        <3>5. seen[k].opened <= latest
            BY <2>1 DEF WindowsSound
        <3>6. ~(seen[k].opened > swept')
            BY <1>1, <2>2, <3>1, <3>3, <3>5 DEF SweptInTime, TypeOK
        <3>7. answer[r].epoch + 1 >= sweeps'
            BY <2>4, <3>1, <3>4
        <3> QED  BY <2>1, <2>3, <3>6, <3>7
    <2> QED  BY <2>5, <2>6
<1> QED  BY <1>2, <1>3, <1>4

-----------------------------------------------------------------------------
LEMMA InitIInv == Init => IInv
<1> SUFFICES ASSUME Init PROVE IInv
    OBVIOUS
<1>1. Window \in Nat \ {0}
    BY CadenceAssumption
<1>2. Held = {}
    BY DEF Init, Held
<1>3. TypeOK
    BY <1>1 DEF Init, TypeOK, NoAnswer, Answers, ZeroTime
<1>4. ReadingsPast /\ SweptInTime
    BY <1>1 DEF Init, ReadingsPast, SweptInTime, ZeroTime
<1>5. WindowsSound /\ HeldSince
    BY <1>2 DEF WindowsSound, HeldSince
<1>6. AnsweredOnce /\ ReadKeyed /\ RefusalsSound
    BY DEF Init, AnsweredOnce, ReadKeyed, RefusalsSound, Refused, NoAnswer
<1> QED  BY <1>3, <1>4, <1>5, <1>6 DEF IInv

LEMMA TickKeeps == IInv /\ Tick => IInv'
<1> SUFFICES ASSUME IInv, Tick PROVE IInv'
    OBVIOUS
<1> USE DEF IInv, Tick, server, aux
<1>1. TypeOK'
    BY DEF TypeOK
<1>2. ReadingsPast' /\ SweptInTime'
    BY DEF TypeOK, ReadingsPast, SweptInTime
<1>3. WindowsSound' /\ HeldSince'
    BY DEF WindowsSound, HeldSince, Held, Served
<1>4. AnsweredOnce' /\ ReadKeyed' /\ RefusalsSound'
    BY DEF AnsweredOnce, ReadKeyed, RefusalsSound, Refused, Late
<1> QED  BY <1>1, <1>2, <1>3, <1>4

LEMMA ServeUnmeteredKeeps ==
    ASSUME IInv, NEW r \in Requests, ServeUnmetered(r)
    PROVE  IInv'
<1> USE DEF IInv, ServeUnmetered, server, aux
<1>1. answer[r] = NoAnswer
    BY DEF AnsweredOnce
<1>2. TypeOK'
    BY DEF TypeOK, Answers
<1>3. ReadingsPast' /\ SweptInTime'
    BY DEF TypeOK, ReadingsPast, SweptInTime
<1>4. \A q \in Requests : q # r => answer'[q] = answer[q]
    BY DEF TypeOK
<1>5. answer'[r].verdict = "unmetered"
    BY DEF TypeOK, Answers
<1>6. WindowsSound'
    BY DEF WindowsSound, Held
<1>7. HeldSince'
    BY <1>1, <1>4 DEF HeldSince, Held, Served, NoAnswer
<1>8. AnsweredOnce' /\ ReadKeyed'
    BY DEF AnsweredOnce, ReadKeyed, TypeOK
<1>9. RefusalsSound'
    BY <1>4, <1>5 DEF RefusalsSound, Refused, Late
<1> QED  BY <1>2, <1>3, <1>6, <1>7, <1>8, <1>9

LEMMA ReadClockKeeps ==
    ASSUME IInv, NEW r \in Requests, NEW k \in Keys, ReadClock(r, k)
    PROVE  IInv'
<1> USE DEF IInv, ReadClock, server, aux
<1>1. answer[r] = NoAnswer
    BY DEF AnsweredOnce
<1>2. TypeOK'
    BY DEF TypeOK
<1>3. ReadingsPast' /\ SweptInTime'
    BY DEF TypeOK, ReadingsPast, SweptInTime
<1>4. \A q \in Requests : q # r => key'[q] = key[q] /\ at'[q] = at[q]
    BY DEF TypeOK
<1>5. ~Served(r) /\ ~Refused(r)
    BY <1>1 DEF Served, Refused, NoAnswer
<1>6. WindowsSound'
    BY DEF WindowsSound, Held
<1>7. HeldSince'
    BY <1>4, <1>5 DEF HeldSince, Held, Served
<1>8. AnsweredOnce' /\ ReadKeyed'
    BY DEF AnsweredOnce, ReadKeyed, TypeOK
<1>9. RefusalsSound'
    BY <1>4, <1>5 DEF RefusalsSound, Refused, Late
<1> QED  BY <1>2, <1>3, <1>6, <1>7, <1>8, <1>9

LEMMA ServeKeeps ==
    ASSUME IInv, NEW r \in Requests, Serve(r)
    PROVE  IInv'
<1> DEFINE k == key[r]
           t == at[r]
           w == WindowOf(k, t)
           a == [verdict |-> "served", opened |-> w.opened, delay |-> 0,
                 retry |-> 0, after |-> latest, epoch |-> sweeps']
           n == [opened |-> w.opened, calls |-> w.calls + 1]
<1>1. /\ phase[r] = "read"
      /\ w.calls < Ceiling
      /\ Sweep(t)
      /\ seen' = [Forget(t) EXCEPT ![k] = n]
      /\ answer' = [answer EXCEPT ![r] = a]
      /\ phase' = [phase EXCEPT ![r] = "answered"]
      /\ UNCHANGED <<clock, key, at>>
    BY DEF Serve, HasCallLeft
<1>2. k \in Keys /\ t \in Nat /\ t <= clock
    BY <1>1 DEF IInv, TypeOK, ReadingsPast, ReadKeyed
<1>3. /\ w \in [opened : Nat, calls : Nat]
      /\ \/ w = [opened |-> t, calls |-> 0]
         \/ k \in Held /\ Forget(t)[k] = seen[k] /\ w = seen[k]
    BY <1>2, WindowOfSound DEF IInv
<1>4. /\ swept' \in Int /\ latest' \in Int /\ sweeps' \in Nat
      /\ swept' <= latest' /\ latest' <= clock /\ latest' < swept' + Window
      /\ latest <= latest' /\ t <= latest'
      /\ Forget(t) \in [Keys -> [opened : Nat, calls : Nat] \cup {NoWindow}]
    BY <1>1, <1>2, SweepSound DEF IInv
<1>5. \A j \in Keys : Forget(t)[j] # NoWindow =>
        /\ j \in Held
        /\ Forget(t)[j] = seen[j]
        /\ \E q \in Requests :
            /\ Served(q)
            /\ key[q] = j
            /\ answer[q].epoch + 1 >= sweeps'
            /\ seen[j].opened > swept' => answer[q].epoch = sweeps'
    BY <1>1, <1>2, SweepSound DEF IInv
<1> HIDE DEF w
<1>6. /\ a \in Answers
      /\ n \in [opened : Nat, calls : Nat]
      /\ a.verdict = "served" /\ a.epoch = sweeps'
      /\ n.opened = w.opened /\ n.calls = w.calls + 1
    BY <1>3, <1>4 DEF Answers, IInv, TypeOK
<1>7. /\ answer'[r] = a
      /\ \A q \in Requests : q # r => answer'[q] = answer[q]
      /\ seen'[k] = n
      /\ \A j \in Keys : j # k => seen'[j] = Forget(t)[j]
    BY <1>1, <1>2, <1>4 DEF IInv, TypeOK
<1>8. answer[r] = NoAnswer
    BY <1>1 DEF IInv, AnsweredOnce
<1> HIDE DEF a, n
<1>9. TypeOK'
    BY <1>1, <1>2, <1>4, <1>6 DEF IInv, TypeOK
<1>10. ReadingsPast' /\ SweptInTime'
    BY <1>1, <1>4 DEF IInv, ReadingsPast, SweptInTime
<1>11. WindowsSound'
    <2>1. w.opened <= latest' /\ w.calls + 1 \in 1 .. Ceiling
        <3>1. CASE w = [opened |-> t, calls |-> 0]
            BY <1>4, <3>1, CadenceAssumption
        <3>2. CASE k \in Held /\ w = seen[k]
            BY <1>1, <1>3, <1>4, <3>2, CadenceAssumption DEF IInv, WindowsSound, TypeOK
        <3> QED  BY <1>3, <3>1, <3>2
    <2>2. ASSUME NEW j \in Keys, seen'[j] # NoWindow, j # k
          PROVE  seen'[j].calls \in 1 .. Ceiling /\ seen'[j].opened <= latest'
        <3>1. j \in Held /\ seen'[j] = seen[j]
            BY <1>5, <1>7, <2>2
        <3>2. seen[j] \in [opened : Nat, calls : Nat]
            BY <3>1 DEF IInv, TypeOK, Held
        <3> QED  BY <1>4, <3>1, <3>2 DEF IInv, WindowsSound, TypeOK
    <2> QED  BY <1>6, <1>7, <2>1, <2>2 DEF WindowsSound, Held
<1>12. AnsweredOnce' /\ ReadKeyed'
    BY <1>1, <1>7 DEF IInv, AnsweredOnce, ReadKeyed, TypeOK
<1>13. RefusalsSound'
    BY <1>1, <1>6, <1>7 DEF IInv, RefusalsSound, Refused, Late
<1>14. HeldSince'
    <2>1. /\ Served(r)' /\ key'[r] = k
          /\ answer'[r].epoch + 1 >= sweeps' /\ answer'[r].epoch = sweeps'
        BY <1>1, <1>4, <1>6, <1>7 DEF Served
    <2>2. ASSUME NEW j \in Keys, seen'[j] # NoWindow, j # k
          PROVE  \E q \in Requests :
                    /\ Served(q)'
                    /\ key'[q] = j
                    /\ answer'[q].epoch + 1 >= sweeps'
                    /\ seen'[j].opened > swept' => answer'[q].epoch = sweeps'
        <3>1. seen'[j] = seen[j] /\ Forget(t)[j] # NoWindow
            BY <1>5, <1>7, <2>2
        <3>2. PICK q \in Requests :
                /\ Served(q)
                /\ key[q] = j
                /\ answer[q].epoch + 1 >= sweeps'
                /\ seen[j].opened > swept' => answer[q].epoch = sweeps'
            BY <1>5, <3>1
        <3>3. q # r
            BY <1>8, <3>2 DEF Served, NoAnswer
        <3> QED  BY <1>1, <1>7, <3>1, <3>2, <3>3 DEF Served
    <2> QED  BY <2>1, <2>2 DEF HeldSince, Held
<1> QED  BY <1>9, <1>10, <1>11, <1>12, <1>13, <1>14 DEF IInv

LEMMA RefuseKeeps ==
    ASSUME IInv, NEW r \in Requests, Refuse(r)
    PROVE  IInv'
<1> DEFINE k == key[r]
           t == at[r]
           w == WindowOf(k, t)
           d == Delay(w, t)
           a == [verdict |-> "refused", opened |-> w.opened, delay |-> d,
                 retry |-> RetryAfter(d), after |-> latest, epoch |-> sweeps']
<1>1. /\ phase[r] = "read"
      /\ ~(w.calls < Ceiling)
      /\ Sweep(t)
      /\ seen' = Forget(t)
      /\ answer' = [answer EXCEPT ![r] = a]
      /\ phase' = [phase EXCEPT ![r] = "answered"]
      /\ UNCHANGED <<clock, key, at>>
    BY DEF Refuse, HasCallLeft
<1>2. k \in Keys /\ t \in Nat /\ t <= clock
    BY <1>1 DEF IInv, TypeOK, ReadingsPast, ReadKeyed
<1>3. /\ w \in [opened : Nat, calls : Nat]
      /\ t < w.opened + Window
      /\ \/ w = [opened |-> t, calls |-> 0]
         \/ k \in Held /\ Forget(t)[k] = seen[k] /\ w = seen[k]
    BY <1>2, WindowOfSound DEF IInv
<1>4. /\ swept' \in Int /\ latest' \in Int /\ sweeps' \in Nat
      /\ swept' <= latest' /\ latest' <= clock /\ latest' < swept' + Window
      /\ latest <= latest'
      /\ Forget(t) \in [Keys -> [opened : Nat, calls : Nat] \cup {NoWindow}]
    BY <1>1, <1>2, SweepSound DEF IInv
<1>5. \A j \in Keys : Forget(t)[j] # NoWindow =>
        /\ j \in Held
        /\ Forget(t)[j] = seen[j]
        /\ \E q \in Requests :
            /\ Served(q)
            /\ key[q] = j
            /\ answer[q].epoch + 1 >= sweeps'
            /\ seen[j].opened > swept' => answer[q].epoch = sweeps'
    BY <1>1, <1>2, SweepSound DEF IInv
\* A fresh window has no call in it and the ceiling is at least one, so the
\* window that refused is one the key had open.
<1>6. w = seen[k] /\ k \in Held
    BY <1>1, <1>3, CadenceAssumption
<1> HIDE DEF w
<1>7. d \in Nat \ {0} /\ RetryAfter(d) \in Nat
    <2>1. d \in Nat \ {0}
        BY <1>2, <1>3, CadenceAssumption DEF Delay
    <2> HIDE DEF d
    <2> QED  BY <2>1, RetryAfterRoundsUp
<1>8. w.opened <= latest
    BY <1>6 DEF IInv, WindowsSound
<1> DEFINE p == RetryAfter(d)
<1> HIDE DEF p
<1>9. /\ a \in Answers
      /\ a.opened = w.opened /\ a.delay = d /\ a.retry = RetryAfter(d)
      /\ a.after = latest /\ a.verdict = "refused"
    <2>1. RetryAfter(d) = p
        BY DEF p
    <2>2. p \in Nat
        BY <1>7, <2>1
    <2> QED  BY <1>3, <1>4, <1>7, <2>1, <2>2 DEF Answers, IInv, TypeOK
<1>10. /\ answer'[r] = a
       /\ \A q \in Requests : q # r => answer'[q] = answer[q]
    BY <1>1 DEF IInv, TypeOK
<1>11. answer[r] = NoAnswer
    BY <1>1 DEF IInv, AnsweredOnce
<1> HIDE DEF a
<1>12. TypeOK'
    BY <1>1, <1>4, <1>9 DEF IInv, TypeOK
<1>13. ReadingsPast' /\ SweptInTime'
    BY <1>1, <1>4 DEF IInv, ReadingsPast, SweptInTime
<1>14. WindowsSound'
    <2>1. ASSUME NEW j \in Keys, seen'[j] # NoWindow
          PROVE  seen'[j].calls \in 1 .. Ceiling /\ seen'[j].opened <= latest'
        <3>1. j \in Held /\ seen'[j] = seen[j]
            BY <1>1, <1>5, <2>1
        <3>2. seen[j] \in [opened : Nat, calls : Nat]
            BY <3>1 DEF IInv, TypeOK, Held
        <3> QED  BY <1>4, <3>1, <3>2 DEF IInv, WindowsSound, TypeOK
    <2> QED  BY <2>1 DEF WindowsSound, Held
<1>15. AnsweredOnce' /\ ReadKeyed'
    BY <1>1, <1>10 DEF IInv, AnsweredOnce, ReadKeyed, TypeOK
<1>16. RefusalsSound'
    <2>1. /\ answer'[r].delay = answer'[r].opened + Window - at'[r]
          /\ answer'[r].delay > 0
          /\ answer'[r].retry = RetryAfter(answer'[r].delay)
        BY <1>1, <1>7, <1>9, <1>10 DEF Delay
    <2>2. answer'[r].opened <= IF Late(r)' THEN answer'[r].after ELSE at'[r]
        BY <1>1, <1>2, <1>3, <1>8, <1>9, <1>10 DEF Late, IInv, TypeOK
    <2>3. ASSUME NEW q \in Requests, q # r, Refused(q)'
          PROVE  /\ answer'[q].delay = answer'[q].opened + Window - at'[q]
                 /\ answer'[q].delay > 0
                 /\ answer'[q].retry = RetryAfter(answer'[q].delay)
                 /\ answer'[q].opened <= IF Late(q)' THEN answer'[q].after ELSE at'[q]
        <3>1. Refused(q) /\ answer'[q] = answer[q] /\ at'[q] = at[q]
            BY <1>1, <1>10, <2>3 DEF Refused
        <3> QED  BY <3>1 DEF IInv, RefusalsSound, Late
    <2> QED  BY <2>1, <2>2, <2>3 DEF RefusalsSound
<1>17. HeldSince'
    <2>1. ASSUME NEW j \in Keys, seen'[j] # NoWindow
          PROVE  \E q \in Requests :
                    /\ Served(q)'
                    /\ key'[q] = j
                    /\ answer'[q].epoch + 1 >= sweeps'
                    /\ seen'[j].opened > swept' => answer'[q].epoch = sweeps'
        <3>1. seen'[j] = seen[j] /\ Forget(t)[j] # NoWindow
            BY <1>1, <1>5, <2>1
        <3>2. PICK q \in Requests :
                /\ Served(q)
                /\ key[q] = j
                /\ answer[q].epoch + 1 >= sweeps'
                /\ seen[j].opened > swept' => answer[q].epoch = sweeps'
            BY <1>5, <3>1
        <3>3. q # r
            BY <1>11, <3>2 DEF Served, NoAnswer
        <3> QED  BY <1>1, <1>10, <3>1, <3>2, <3>3 DEF Served
    <2> QED  BY <2>1 DEF HeldSince, Held
<1> QED  BY <1>12, <1>13, <1>14, <1>15, <1>16, <1>17 DEF IInv

LEMMA NextKeeps == IInv /\ [Next]_vars => IInv'
<1> SUFFICES ASSUME IInv, [Next]_vars PROVE IInv'
    OBVIOUS
<1>1. CASE Tick
    BY <1>1, TickKeeps
<1>2. CASE \E r \in Requests : ServeUnmetered(r)
    BY <1>2, ServeUnmeteredKeeps
<1>3. CASE \E r \in Requests, k \in Keys : ReadClock(r, k)
    BY <1>3, ReadClockKeeps
<1>4. CASE \E r \in Requests : Serve(r)
    BY <1>4, ServeKeeps
<1>5. CASE \E r \in Requests : Refuse(r)
    BY <1>5, RefuseKeeps
<1>6. CASE UNCHANGED vars
    BY <1>6 DEF vars, IInv, TypeOK, ReadingsPast, SweptInTime, WindowsSound, AnsweredOnce,
                ReadKeyed, RefusalsSound, HeldSince, Held, Served, Refused, Late
<1> QED  BY <1>1, <1>2, <1>3, <1>4, <1>5, <1>6 DEF Next, Quiet

THEOREM Invariance == Spec => []IInv
    BY InitIInv, NextKeeps, PTL DEF Spec

-----------------------------------------------------------------------------
(***************************************************************************)
(* What follows from it.                                                   *)
(***************************************************************************)

\* The meter's state and every answer are what their types say.
THEOREM TypeCorrect == Spec => []TypeOK
<1>1. IInv => TypeOK
    BY DEF IInv
<1> QED  BY <1>1, Invariance, PTL

\* Every refusal names a delay above zero, and one longer than the window by no
\* more than its reading was late (rate.go:226-229).
THEOREM DelaysBounded == Spec => []DelayBounded
<1>1. IInv => DelayBounded
    BY CadenceAssumption DEF IInv, TypeOK, Answers, RefusalsSound, DelayBounded, Late
<1> QED  BY <1>1, Invariance, PTL

\* Coming back on the second a refusal named, a caller is not refused again on
\* the strength of the same window, in whatever order readings were counted.
THEOREM PromisesKept == Spec => []PromiseKept
<1>1. ASSUME IInv, NEW r \in Requests, NEW q \in Requests, Refused(r), Refused(q),
             answer[r].opened = answer[q].opened
      PROVE  at[q] < at[r] + answer[r].retry * Second
    <2> DEFINE d == answer[r].delay
               n == answer[r].retry * Second
    <2>1. /\ d = answer[r].opened + Window - at[r] /\ d > 0
          /\ answer[r].retry = RetryAfter(d)
        BY <1>1 DEF IInv, RefusalsSound
    <2>2. answer[q].opened + Window - at[q] > 0
        BY <1>1 DEF IInv, RefusalsSound
    <2>3. /\ d \in Nat \ {0} /\ answer[r].opened \in Nat /\ answer[r].retry \in Nat
          /\ at[r] \in Nat /\ at[q] \in Nat /\ Window \in Nat /\ Second \in Nat
        BY <1>1, <2>1, CadenceAssumption DEF IInv, TypeOK, Answers
    <2>4. n >= d /\ n \in Nat
        BY <2>1, <2>3, RetryAfterRoundsUp
    <2> HIDE DEF n
    <2>5. at[q] < at[r] + n
        BY <1>1, <2>1, <2>2, <2>3, <2>4
    <2> QED  BY <2>5 DEF n
<1>2. IInv => PromiseKept
    BY <1>1 DEF PromiseKept
<1> QED  BY <1>2, Invariance, PTL

\* A second sooner than the header names, the window is still open.
THEOREM PromisesTight == Spec => []PromiseTight
<1>1. ASSUME IInv, NEW r \in Requests, Refused(r), answer[r].retry # 1
      PROVE  at[r] + (answer[r].retry - 1) * Second < answer[r].opened + Window
    <2> DEFINE d == answer[r].delay
               n == (answer[r].retry - 1) * Second
    <2>1. /\ d = answer[r].opened + Window - at[r] /\ d > 0
          /\ answer[r].retry = RetryAfter(d)
        BY <1>1 DEF IInv, RefusalsSound
    <2>2. /\ d \in Nat \ {0} /\ answer[r].opened \in Nat /\ answer[r].retry \in Nat
          /\ at[r] \in Nat /\ Window \in Nat /\ Second \in Nat
        BY <1>1, <2>1, CadenceAssumption DEF IInv, TypeOK, Answers
    <2>3. n < d /\ n \in Int
        BY <1>1, <2>1, <2>2, RetryAfterRoundsUp
    <2> HIDE DEF n
    <2>4. at[r] + n < answer[r].opened + Window
        BY <2>1, <2>2, <2>3
    <2> QED  BY <2>4 DEF n
<1>2. IInv => PromiseTight
    BY <1>1 DEF PromiseTight
<1> QED  BY <1>2, Invariance, PTL

\* The map holds no key but those served since the sweep before the last.
THEOREM MemoryBounded == Spec => []HeldIsRecent
<1>1. IInv => HeldIsRecent
    BY DEF IInv, HeldSince, HeldIsRecent
<1> QED  BY <1>1, Invariance, PTL

\* No step hands a budget back before its window has passed by the clock.
THEOREM BudgetsKept == Spec => BudgetKept
<1> DEFINE Kept(k) == \/ seen'[k] = seen[k]
                      \/ seen'[k] = [opened |-> seen[k].opened, calls |-> seen[k].calls + 1]
                      \/ Passed(seen[k], clock)
<1>1. ASSUME IInv, NEW k \in Held, NEW t \in Nat, t <= clock
      PROVE  \/ Forget(t)[k] = seen[k]
             \/ Passed(seen[k], clock)
    BY <1>1, CadenceAssumption DEF Forget, Passed, Held, IInv, TypeOK
<1>2. ASSUME IInv, [Next]_vars, NEW k \in Held
      PROVE  Kept(k)
    <2>1. CASE UNCHANGED seen
        BY <2>1
    <2>2. ASSUME NEW r \in Requests, Refuse(r)
          PROVE  Kept(k)
        <3>1. seen' = Forget(at[r]) /\ at[r] \in Nat /\ at[r] <= clock
            BY <1>2, <2>2 DEF Refuse, IInv, TypeOK, ReadingsPast
        <3> QED  BY <1>1, <1>2, <3>1
    <2>3. ASSUME NEW r \in Requests, Serve(r)
          PROVE  Kept(k)
        <3> DEFINE w == WindowOf(key[r], at[r])
        <3>1. /\ seen' = [Forget(at[r]) EXCEPT ![key[r]] =
                            [opened |-> w.opened, calls |-> w.calls + 1]]
              /\ at[r] \in Nat /\ at[r] <= clock /\ key[r] \in Keys
            BY <1>2, <2>3 DEF Serve, IInv, TypeOK, ReadingsPast, ReadKeyed
        <3>2. CASE k # key[r]
            <4>1. seen'[k] = Forget(at[r])[k]
                BY <1>2, <3>1, <3>2 DEF Forget, Held
            <4> QED  BY <1>1, <1>2, <3>1, <4>1
        <3>3. CASE k = key[r] /\ ~Passed(seen[k], clock)
            <4>1. Forget(at[r])[k] = seen[k]
                BY <1>1, <1>2, <3>1, <3>3
            <4>2. ~Passed(seen[k], at[r])
                BY <1>2, <3>1, <3>3, CadenceAssumption DEF Passed, Held, IInv, TypeOK
            <4>3. w = seen[k]
                BY <3>3, <4>1, <4>2 DEF WindowOf, Held
            <4> QED  BY <3>1, <3>3, <4>3 DEF Forget, Held
        <3> QED  BY <3>2, <3>3
    <2> QED  BY <1>2, <2>1, <2>2, <2>3
             DEF Next, Tick, ServeUnmetered, ReadClock, Quiet, vars, server
<1>3. IInv /\ [Next]_vars =>
        [\A k \in Held : Kept(k)]_vars
    BY <1>2
<1> QED  BY <1>3, Invariance, PTL DEF Spec, BudgetKept

-----------------------------------------------------------------------------
(***************************************************************************)
(* The ceiling.  Every request served is charged to a window, and as long  *)
(* as no reading counted is past that window's end, the window is the one  *)
(* the key has open: whatever a late reading does, it opens no second      *)
(* window over a live one.                                                 *)
(***************************************************************************)

Answered == {r \in Requests : phase[r] = "answered"}

\* The calls of k read in order and charged to the window it opened at o.
Charged(k, o) ==
    {r \in Requests : Served(r) /\ key[r] = k /\ answer[r].opened = o /\ ~Late(r)}

\* A served request's reading is before the end of its window.
ServedSound ==
    \A r \in Requests : Served(r) =>
        /\ at[r] < answer[r].opened + Window
        /\ at[r] <= latest
        /\ key[r] \in Keys

LiveIsHeld ==
    \A r \in Requests :
        Served(r) /\ latest < answer[r].opened + Window =>
            /\ key[r] \in Held
            /\ seen[key[r]].opened = answer[r].opened

\* A reading taken inside a window opened in order is charged to that window.
OneWindow ==
    \A r, q \in Requests :
        /\ Served(r) /\ ~Late(r) /\ at[r] = answer[r].opened
        /\ Served(q) /\ ~Late(q) /\ key[q] = key[r]
        /\ at[q] >= at[r] /\ at[q] < at[r] + Window
        => answer[q].opened = answer[r].opened

ChargesCounted ==
    /\ \A k \in Held :
            latest < seen[k].opened + Window =>
                Cardinality(Charged(k, seen[k].opened)) <= seen[k].calls
    /\ \A k \in Keys, o \in Nat : Cardinality(Charged(k, o)) <= Ceiling

CInv ==
    /\ IsFiniteSet(Answered)
    /\ ServedSound
    /\ LiveIsHeld
    /\ OneWindow
    /\ ChargesCounted

LEMMA InitCInv == Init => CInv
<1> SUFFICES ASSUME Init PROVE CInv
    OBVIOUS
<1>1. \A r \in Requests : ~Served(r)
    BY DEF Init, Served, NoAnswer
<1>2. Held = {} /\ Answered = {}
    BY DEF Init, Held, Answered
<1>3. \A k, o : Charged(k, o) = {}
    BY <1>1 DEF Charged
<1>4. ChargesCounted
    BY <1>2, <1>3, FS_EmptySet, CadenceAssumption DEF ChargesCounted
<1> QED  BY <1>1, <1>2, <1>4, FS_EmptySet DEF CInv, ServedSound, LiveIsHeld, OneWindow

\* A step that serves nobody keeps the counts, when it forgets no window that
\* a reading counted could still fall in.
LEMMA NothingServed ==
    ASSUME IInv, CInv,
           IsFiniteSet(Answered'),
           \A q \in Requests : Served(q)' <=> Served(q),
           \A q \in Requests : Served(q) =>
                answer'[q] = answer[q] /\ at'[q] = at[q] /\ key'[q] = key[q],
           latest' \in Int, latest <= latest',
           \A k \in Held' : k \in Held /\ seen'[k] = seen[k],
           \A k \in Held : latest' < seen[k].opened + Window => k \in Held'
    PROVE  CInv'
<1>1. \A k, o : Charged(k, o)' = Charged(k, o)
    BY DEF Charged, Late
<1>2. /\ Window \in Nat /\ latest \in Int /\ Held' \subseteq Keys
      /\ \A r \in Requests : at[r] \in Nat /\ answer[r].opened \in Nat
      /\ \A k \in Held : seen[k].opened \in Nat
    BY CadenceAssumption DEF IInv, TypeOK, Answers, Held
<1>3. ServedSound'
    BY <1>2 DEF CInv, ServedSound
<1>4. LiveIsHeld'
    BY <1>2 DEF CInv, LiveIsHeld
<1>5. OneWindow'
    BY <1>2 DEF CInv, OneWindow, Late
<1>6. ChargesCounted'
    BY <1>1, <1>2 DEF CInv, ChargesCounted
<1> QED  BY <1>3, <1>4, <1>5, <1>6 DEF CInv

LEMMA TickCounts == ASSUME IInv, CInv, Tick PROVE CInv'
<1>1. /\ Answered' = Answered /\ Held' = Held /\ seen' = seen /\ latest' = latest
      /\ answer' = answer /\ at' = at /\ key' = key
    BY DEF Tick, server, aux, Answered, Held
<1> QED  BY <1>1, NothingServed DEF CInv, IInv, TypeOK, Served

LEMMA ServeUnmeteredCounts ==
    ASSUME IInv, CInv, NEW r \in Requests, ServeUnmetered(r)
    PROVE  CInv'
<1>1. /\ Answered' = Answered \cup {r}
      /\ Held' = Held /\ seen' = seen /\ latest' = latest /\ at' = at /\ key' = key
    BY DEF ServeUnmetered, server, aux, Answered, Held, IInv, TypeOK
<1>2. /\ \A q \in Requests : q # r => answer'[q] = answer[q]
      /\ ~Served(r) /\ ~Served(r)'
    BY DEF ServeUnmetered, Served, IInv, TypeOK, Answers, AnsweredOnce, NoAnswer
<1>3. IsFiniteSet(Answered')
    BY <1>1, FS_AddElement DEF CInv
<1>4. \A q \in Requests : Served(q)' <=> Served(q)
    BY <1>2 DEF Served
<1> QED  BY <1>1, <1>2, <1>3, <1>4, NothingServed DEF IInv, TypeOK

LEMMA ReadClockCounts ==
    ASSUME IInv, CInv, NEW r \in Requests, NEW k \in Keys, ReadClock(r, k)
    PROVE  CInv'
<1>1. /\ Answered' = Answered
      /\ Held' = Held /\ seen' = seen /\ latest' = latest /\ answer' = answer
    BY DEF ReadClock, server, aux, Answered, Held, IInv, TypeOK
<1>2. /\ \A q \in Requests : q # r => at'[q] = at[q] /\ key'[q] = key[q]
      /\ ~Served(r)
    BY DEF ReadClock, Served, IInv, TypeOK, AnsweredOnce, NoAnswer
<1> QED  BY <1>1, <1>2, NothingServed DEF CInv, IInv, TypeOK, Served

\* forget drops no window that the readings counted have not all passed.
LEMMA ForgetKeepsLive ==
    ASSUME IInv, NEW t \in Nat, t <= clock, Sweep(t), NEW k \in Held,
           latest' < seen[k].opened + Window
    PROVE  Forget(t)[k] = seen[k]
<1>1. t <= latest' /\ latest' \in Int
    BY SweepSound DEF IInv
<1>2. ~Passed(seen[k], t)
    BY <1>1, CadenceAssumption DEF Passed, IInv, TypeOK, Held
<1> QED  BY <1>2 DEF Forget, Held

LEMMA RefuseCounts ==
    ASSUME IInv, CInv, NEW r \in Requests, Refuse(r)
    PROVE  CInv'
<1>1. /\ Answered' = Answered \cup {r} /\ at' = at /\ key' = key
      /\ seen' = Forget(at[r]) /\ Sweep(at[r]) /\ phase[r] = "read"
      /\ at[r] \in Nat /\ at[r] <= clock
    BY DEF Refuse, Answered, IInv, TypeOK, ReadingsPast
<1>2. /\ \A q \in Requests : q # r => answer'[q] = answer[q]
      /\ ~Served(r) /\ ~Served(r)'
    BY DEF Refuse, Served, IInv, TypeOK, AnsweredOnce, NoAnswer
<1>3. IsFiniteSet(Answered')
    BY <1>1, FS_AddElement DEF CInv
<1>4. \A q \in Requests : Served(q)' <=> Served(q)
    BY <1>2 DEF Served
<1>5. latest' \in Int /\ latest <= latest'
    BY <1>1, SweepSound DEF IInv
<1>6. \A k \in Held' : k \in Held /\ seen'[k] = seen[k]
    BY <1>1 DEF Held, Forget
<1>7. \A k \in Held : latest' < seen[k].opened + Window => k \in Held'
    BY <1>1, ForgetKeepsLive DEF Held
<1> QED  BY <1>1, <1>2, <1>3, <1>4, <1>5, <1>6, <1>7, NothingServed

LEMMA ServeCounts ==
    ASSUME IInv, CInv, NEW x \in Requests, Serve(x)
    PROVE  CInv'
<1> DEFINE k == key[x]
           t == at[x]
           w == WindowOf(k, t)
<1>1. /\ phase[x] = "read" /\ w.calls < Ceiling /\ Sweep(t)
      /\ seen' = [Forget(t) EXCEPT ![k] = [opened |-> w.opened, calls |-> w.calls + 1]]
      /\ UNCHANGED <<clock, key, at>>
      /\ k \in Keys /\ t \in Nat /\ t <= clock
    BY DEF Serve, HasCallLeft, IInv, TypeOK, ReadingsPast, ReadKeyed
<1>2. /\ answer'[x].verdict = "served" /\ answer'[x].opened = w.opened
      /\ answer'[x].after = latest
      /\ \A q \in Requests : q # x => answer'[q] = answer[q]
      /\ Answered' = Answered \cup {x}
    BY DEF Serve, IInv, TypeOK, Answered
<1>3. /\ w \in [opened : Nat, calls : Nat]
      /\ t < w.opened + Window
      /\ \/ w = [opened |-> t, calls |-> 0]
         \/ k \in Held /\ w = seen[k]
    BY <1>1, WindowOfSound DEF IInv
<1>4. /\ latest' \in Int /\ latest <= latest' /\ t <= latest'
    BY <1>1, SweepSound DEF IInv
<1>5. /\ seen'[k] = [opened |-> w.opened, calls |-> w.calls + 1] /\ k \in Held'
      /\ \A j \in Keys : j # k => seen'[j] = Forget(t)[j]
    <2>1. seen'[k] = [opened |-> w.opened, calls |-> w.calls + 1]
        BY <1>1 DEF Forget
    <2>2. seen'[k] # NoWindow
        BY <1>3, <2>1, CadenceAssumption
    <2> QED  BY <1>1, <2>1, <2>2 DEF Forget, Held
<1>6. ~Served(x) /\ Served(x)'
    BY <1>1, <1>2 DEF Served, IInv, AnsweredOnce, NoAnswer
<1>7. \A q \in Requests : q # x =>
        (Served(q)' <=> Served(q)) /\ (Late(q)' <=> Late(q))
    BY <1>1, <1>2 DEF Served, Late
<1>8. Late(x)' <=> t < latest
    BY <1>1, <1>2 DEF Late
<1>9. /\ Window \in Nat \ {0} /\ Ceiling \in Nat \ {0} /\ latest \in Int
      /\ \A r \in Requests : at[r] \in Nat /\ answer[r].opened \in Nat
      /\ \A j \in Held : seen[j].opened \in Nat /\ seen[j].calls \in Nat
    BY CadenceAssumption DEF IInv, TypeOK, Answers, Held
\* The window x is charged to is the one any earlier call of k, whose own
\* window no reading counted is past, was charged to.
<1>10. ASSUME NEW q \in Requests, Served(q), key[q] = k,
              latest < answer[q].opened + Window, t < answer[q].opened + Window
       PROVE  k \in Held /\ w = seen[k] /\ w.opened = answer[q].opened
    <2>1. k \in Held /\ seen[k].opened = answer[q].opened
        BY <1>10 DEF CInv, LiveIsHeld
    <2>2. ~Passed(seen[k], t)
        BY <1>1, <1>9, <1>10, <2>1 DEF Passed
    <2>3. Forget(t)[k] = seen[k] /\ seen[k] # NoWindow
        BY <1>1, <2>1, <2>2 DEF Forget, Held
    <2>4. w = seen[k]
        BY <2>2, <2>3 DEF WindowOf
    <2> QED  BY <2>1, <2>4
<1> HIDE DEF w
<1>11. IsFiniteSet(Answered')
    BY <1>2, FS_AddElement DEF CInv
<1>12. ServedSound'
    <2>1. at'[x] < answer'[x].opened + Window /\ at'[x] <= latest' /\ key'[x] \in Keys
        BY <1>1, <1>2, <1>3, <1>4
    <2>2. ASSUME NEW q \in Requests, q # x, Served(q)'
          PROVE  at'[q] < answer'[q].opened + Window /\ at'[q] <= latest' /\ key'[q] \in Keys
        BY <1>1, <1>2, <1>4, <1>7, <1>9, <2>2 DEF CInv, ServedSound
    <2> QED  BY <2>1, <2>2 DEF ServedSound
<1>13. LiveIsHeld'
    <2>1. ASSUME NEW q \in Requests, q # x, Served(q), latest' < answer[q].opened + Window
          PROVE  key[q] \in Held' /\ seen'[key[q]].opened = answer[q].opened
        <3>1. latest < answer[q].opened + Window /\ t < answer[q].opened + Window
            BY <1>1, <1>4, <1>9, <2>1
        <3>2. key[q] \in Held /\ seen[key[q]].opened = answer[q].opened
            BY <2>1, <3>1 DEF CInv, LiveIsHeld
        <3>3. CASE key[q] = k
            BY <1>5, <1>10, <2>1, <3>1, <3>3
        <3>4. CASE key[q] # k
            <4>1. key[q] \in Keys /\ seen'[key[q]] = Forget(t)[key[q]]
                BY <1>5, <3>2, <3>4 DEF Held
            <4>2. Forget(t)[key[q]] = seen[key[q]]
                BY <1>1, <2>1, <3>2, ForgetKeepsLive
            <4> QED  BY <3>2, <4>1, <4>2 DEF Held
        <3> QED  BY <3>3, <3>4
    <2> QED  BY <1>1, <1>2, <1>5, <1>7, <2>1 DEF LiveIsHeld
<1>14. OneWindow'
    <2>1. ASSUME NEW r \in Requests, NEW q \in Requests,
                 Served(r)', ~Late(r)', at[r] = answer'[r].opened,
                 Served(q)', ~Late(q)', key[q] = key[r],
                 at[q] >= at[r], at[q] < at[r] + Window
          PROVE  answer'[q].opened = answer'[r].opened
        <3>1. CASE q # x /\ r # x
            BY <1>2, <1>7, <2>1, <3>1 DEF CInv, OneWindow
        <3>2. CASE q = x /\ r # x
            <4>1. latest < answer[r].opened + Window /\ t < answer[r].opened + Window
                BY <1>1, <1>2, <1>8, <1>9, <2>1, <3>2
            <4>2. Served(r) /\ key[r] = k
                BY <1>7, <2>1, <3>2
            <4> QED  BY <1>2, <1>10, <3>2, <4>1, <4>2
        <3>3. CASE r = x /\ q # x
            <4>1. Served(q) /\ key[q] = k
                BY <1>7, <2>1, <3>3
            <4>2. at[q] = t /\ t = latest
                BY <1>1, <1>8, <1>9, <2>1, <3>3, <4>1 DEF CInv, ServedSound
            <4>3. t < answer[q].opened + Window
                BY <4>1, <4>2 DEF CInv, ServedSound
            <4> QED  BY <1>2, <1>10, <3>3, <4>1, <4>2, <4>3
        <3> QED  BY <3>1, <3>2, <3>3
    <2> QED  BY <1>1, <2>1 DEF OneWindow
<1>15. ChargesCounted'
    <2>1. \A j, o : Charged(j, o)' = IF j = k /\ o = w.opened /\ ~(t < latest)
                                     THEN Charged(j, o) \cup {x}
                                     ELSE Charged(j, o)
        BY <1>1, <1>2, <1>6, <1>7, <1>8 DEF Charged
    <2>2. \A j, o : IsFiniteSet(Charged(j, o))
        <3>1. \A j, o : Charged(j, o) \subseteq Answered
            BY DEF Charged, Answered, Served, IInv, TypeOK, AnsweredOnce, NoAnswer
        <3> QED  BY <3>1, FS_Subset DEF CInv
    <2>3. \A j, o : Cardinality(Charged(j, o)) \in Nat /\ x \notin Charged(j, o)
        BY <1>6, <2>2, FS_CardinalityType DEF Charged
    <2>4. \A j, o : Cardinality(Charged(j, o) \cup {x}) = Cardinality(Charged(j, o)) + 1
        BY <2>2, <2>3, FS_AddElement
    <2>5. latest < w.opened + Window => Cardinality(Charged(k, w.opened)) <= w.calls
        <3>1. CASE k \in Held /\ w = seen[k]
            BY <3>1 DEF CInv, ChargesCounted
        <3>2. CASE w = [opened |-> t, calls |-> 0] /\ latest < w.opened + Window
            <4>1. ASSUME NEW q \in Charged(k, t) PROVE FALSE
                <5>1. /\ q \in Requests /\ Served(q) /\ key[q] = k
                      /\ answer[q].opened = t
                    BY <4>1 DEF Charged
                <5>2. k \in Held /\ w = seen[k]
                    BY <1>3, <1>10, <3>2, <5>1
                <5>3. seen[k].calls >= 1
                    BY <1>9, <5>2 DEF IInv, WindowsSound
                <5> QED  BY <3>2, <5>2, <5>3
            <4>2. Charged(k, w.opened) = {}
                BY <3>2, <4>1
            <4> QED  BY <3>2, <4>2, FS_EmptySet
        <3> QED  BY <1>3, <3>1, <3>2
    <2>6. ASSUME NEW j \in Held', NEW o \in Nat, seen'[j].opened = o, latest' < o + Window
          PROVE  Cardinality(Charged(j, o)') <= seen'[j].calls
        <3>1. CASE j = k
            <4>1. o = w.opened /\ seen'[j].calls = w.calls + 1
                BY <1>5, <2>6, <3>1
            <4>2. Cardinality(Charged(k, o)) <= w.calls
                BY <1>3, <1>4, <1>9, <2>5, <2>6, <4>1
            <4>3. \/ Charged(j, o)' = Charged(k, o) \cup {x}
                  \/ Charged(j, o)' = Charged(k, o)
                BY <2>1, <3>1
            <4> QED  BY <1>3, <2>3, <2>4, <4>1, <4>2, <4>3
        <3>2. CASE j # k
            <4>1. j \in Held /\ seen'[j] = seen[j]
                BY <1>5, <2>6, <3>2 DEF Held, Forget
            <4>2. Charged(j, o)' = Charged(j, o)
                BY <2>1, <3>2
            <4>3. latest < seen[j].opened + Window
                BY <1>4, <1>9, <2>6, <4>1
            <4> QED  BY <2>6, <4>1, <4>2, <4>3 DEF CInv, ChargesCounted
        <3> QED  BY <3>1, <3>2
    <2>7. ASSUME NEW j \in Keys, NEW o \in Nat
          PROVE  Cardinality(Charged(j, o)') <= Ceiling
        <3>1. CASE j = k /\ o = w.opened /\ ~(t < latest)
            <4>1. Cardinality(Charged(k, w.opened)) <= w.calls
                BY <1>1, <1>3, <1>9, <2>5, <3>1
            <4>2. Charged(j, o)' = Charged(k, w.opened) \cup {x}
                BY <2>1, <3>1
            <4> QED  BY <1>1, <1>3, <1>9, <2>3, <2>4, <4>1, <4>2
        <3>2. CASE ~(j = k /\ o = w.opened /\ ~(t < latest))
            BY <2>1, <3>2 DEF CInv, ChargesCounted
        <3> QED  BY <3>1, <3>2
    <2>8. ASSUME NEW j \in Held', latest' < seen'[j].opened + Window
          PROVE  (Cardinality(Charged(j, seen[j].opened)) <= seen[j].calls)'
        <3>1. PICK o \in Nat : o = seen'[j].opened
            BY <1>9, <1>1, NextKeeps DEF Next, IInv, TypeOK, Held
        <3>2. (Charged(j, seen[j].opened))' = Charged(j, o)'
            BY <3>1 DEF Charged
        <3> QED  BY <2>6, <2>8, <3>1, <3>2
    <2>9. (\A j \in Keys, o \in Nat : Cardinality(Charged(j, o)) <= Ceiling)'
        BY <2>7
    <2> QED  BY <2>8, <2>9 DEF ChargesCounted
<1> QED  BY <1>11, <1>12, <1>13, <1>14, <1>15 DEF CInv

LEMMA CInvariance == Spec => [](IInv /\ CInv)
<1>1. Init => IInv /\ CInv
    BY InitIInv, InitCInv
<1>2. IInv /\ CInv /\ [Next]_vars => (IInv /\ CInv)'
    <2> SUFFICES ASSUME IInv, CInv, [Next]_vars PROVE CInv'
        BY NextKeeps
    <2>1. CASE UNCHANGED vars
        <3>1. /\ Answered' = Answered /\ Held' = Held /\ seen' = seen /\ latest' = latest
              /\ answer' = answer /\ at' = at /\ key' = key
            BY <2>1 DEF vars, Answered, Held
        <3> QED  BY <3>1, NothingServed DEF CInv, IInv, TypeOK, Served
    <2> QED  BY <2>1, TickCounts, ServeUnmeteredCounts, ReadClockCounts, ServeCounts,
                RefuseCounts DEF Next, Quiet
<1> QED  BY <1>1, <1>2, PTL DEF Spec

\* Readings counted in the order they were taken never spend more than the
\* ceiling in a window one of them opened, whatever late readings do beside
\* them.
THEOREM CeilingInOrder == Spec => []InOrderCeiling
<1>1. ASSUME IInv, CInv, NEW r \in Requests, Served(r), ~Late(r), at[r] = answer[r].opened
      PROVE  Cardinality({q \in ServedIn(key[r], at[r]) : ~Late(q)}) <= Ceiling
    <2> DEFINE S == {q \in ServedIn(key[r], at[r]) : ~Late(q)}
               C == Charged(key[r], at[r])
    <2>1. S \subseteq C
        BY <1>1 DEF ServedIn, Charged, CInv, OneWindow
    <2>2. IsFiniteSet(C)
        <3>1. C \subseteq Answered
            BY <1>1 DEF Charged, Answered, Served, IInv, TypeOK, AnsweredOnce, NoAnswer
        <3> QED  BY <1>1, <3>1, FS_Subset DEF CInv
    <2>3. Cardinality(C) <= Ceiling
        BY <1>1 DEF CInv, ChargesCounted, ServedSound, IInv, TypeOK
    <2>4. IsFiniteSet(S) /\ Cardinality(S) <= Cardinality(C)
        BY <2>1, <2>2, FS_Subset
    <2>5. Cardinality(S) \in Nat /\ Cardinality(C) \in Nat
        BY <2>2, <2>4, FS_CardinalityType
    <2> HIDE DEF S, C
    <2>6. Cardinality(S) <= Ceiling
        BY <2>3, <2>4, <2>5, CadenceAssumption
    <2> QED  BY <2>6 DEF S
<1>2. IInv /\ CInv => InOrderCeiling
    BY <1>1 DEF InOrderCeiling
<1> QED  BY <1>2, CInvariance, PTL

=============================================================================
