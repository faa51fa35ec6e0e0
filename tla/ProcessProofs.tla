---------------------------- MODULE ProcessProofs ----------------------------
(***************************************************************************)
(* What a binary's life and a migrating command promise, for any checks,   *)
(* settings, pools, commands and migrations.                               *)
(*                                                                         *)
(* The two binaries touch each other's variables in no step, so each has   *)
(* an invariant of its own, and the probe, which the first runs, a third.  *)
(***************************************************************************)
EXTENDS Process, SequenceTheorems, TLAPS

-----------------------------------------------------------------------------
(***************************************************************************)
(* The probe.                                                              *)
(***************************************************************************)

ProbeTypeOK ==
    /\ dep \in [Checks -> {"up", "down", "hung"}]
    /\ probe \in {"none", "running", "answered"}
    /\ check \in [Checks -> {"idle", "asking", "passed", "failed"}]
    /\ results \subseteq Checks
    /\ done \in BOOLEAN

\* The auxiliary sets know what every dependency is, once a probe has arrived.
Witnessed ==
    probe # "none" => \A c \in Checks : IF dep[c] = "up" THEN c \in wasUp ELSE c \in wasDown

\* What a check found is what its dependency was, or what its context said.
Founded ==
    \A c \in Checks :
        /\ probe = "none" <=> check[c] = "idle"
        /\ check[c] = "passed" => c \in wasUp
        /\ check[c] = "failed" => c \in wasDown \/ done
        /\ c \in results => check[c] \in {"passed", "failed"}

\* An answer names the checks that failed, of all of them.
NamesTheFailed ==
    probe = "answered" => results = Checks /\ failed = {c \in Checks : check[c] = "failed"}

ProbeInv == ProbeTypeOK /\ Witnessed /\ Founded /\ NamesTheFailed

LEMMA InitProbe == ProbeInit => ProbeInv
BY DEF ProbeInit, ProbeInv, ProbeTypeOK, Witnessed, Founded, NamesTheFailed

\* Any action that leaves the probe alone and only lets a dependency change.
LEMMA WitnessKeeps ==
  ASSUME ProbeInv, dep' \in [Checks -> {"up", "down", "hung"}], Witness(wasUp, wasDown),
         UNCHANGED <<probe, check, results, done, failed>>
  PROVE  ProbeInv'
BY DEF Witness, ProbeInv, ProbeTypeOK, Witnessed, Founded, NamesTheFailed

LEMMA ArrivalKeeps == ProbeInv /\ ProbeArrives => ProbeInv'
BY DEF ProbeArrives, Witness, ProbeInv, ProbeTypeOK, Witnessed, Founded, NamesTheFailed

LEMMA StepKeeps == ProbeInv /\ ProbeStep => ProbeInv'
<1> SUFFICES ASSUME ProbeInv, ProbeStep PROVE ProbeInv'
  OBVIOUS
<1> USE DEF ProbeInv, ProbeTypeOK, Witnessed, Founded, NamesTheFailed
<1>1. CASE ContextDone
  BY <1>1 DEF ContextDone
<1>2. ASSUME NEW c \in Checks, CheckReturns(c) PROVE ProbeInv'
  <2>1. /\ check[c] = "asking" /\ dep[c] # "hung"
        /\ check' = [check EXCEPT ![c] = IF dep[c] = "up" THEN "passed" ELSE "failed"]
        /\ UNCHANGED <<dep, probe, results, done, failed, wasUp, wasDown>>
    BY <1>2 DEF CheckReturns
  <2>2. c \notin results /\ probe # "answered"
    BY <2>1
  <2> QED BY <2>1, <2>2
<1>3. ASSUME NEW c \in Checks, CheckGivesUp(c) PROVE ProbeInv'
  <2>1. /\ check[c] = "asking" /\ done
        /\ check' = [check EXCEPT ![c] = "failed"]
        /\ UNCHANGED <<dep, probe, results, done, failed, wasUp, wasDown>>
    BY <1>3 DEF CheckGivesUp
  <2>2. c \notin results /\ probe # "answered"
    BY <2>1
  <2> QED BY <2>1, <2>2
<1>4. ASSUME NEW c \in Checks, Send(c) PROVE ProbeInv'
  BY <1>4 DEF Send
<1>5. CASE ProbeAnswered
  BY <1>5 DEF ProbeAnswered, Named
<1> QED BY <1>1, <1>2, <1>3, <1>4, <1>5 DEF ProbeStep

-----------------------------------------------------------------------------
(***************************************************************************)
(* The migrating commands.                                                 *)
(***************************************************************************)

AtWorkPlaces == {"between", "applying", "done"}

MigrationTypeOK ==
    /\ version \in 0 .. Latest
    /\ dirty \in BOOLEAN
    /\ lock \in Commands \cup {Nobody}
    /\ at \in [Commands -> {"new", "open", "logging", "returned"} \cup AtWorkPlaces]
    /\ args \in [Commands -> Arguments]
    /\ todo \in [Commands -> Int]
    /\ err \in [Commands -> {"none", "nil", "no change", "short", "dirty", "error",
                             "usage", "empty dsn", "killed"}]
    /\ from \in [Commands -> Int]
    /\ left \in [Commands -> Int]
    /\ opened \subseteq Commands

\* The lock is held by the one command that is at work, and only a command
\* whose arguments parse comes that far.
Holding(c) ==
    /\ at[c] \in AtWorkPlaces <=> lock = c
    /\ at[c] \in {"open", "logging"} \cup AtWorkPlaces => Parses(args[c])
    /\ at[c] = "new" => c \notin opened
    /\ at[c] \in AtWorkPlaces \cup {"logging"} => args[c].name # "version"

\* Where a command has come to and what it has left make up what it was asked.
OnCourse(c) ==
    /\ at[c] \in {"between", "applying"} =>
        /\ args[c].name = "up" => todo[c] >= 0 /\ version = Latest - todo[c]
        /\ args[c].name = "down" => todo[c] <= 0 /\ version = from[c] - args[c].steps - todo[c]
    /\ at[c] = "between" => err[c] = "none" \/ (err[c] = "no change" /\ todo[c] = 0)
    /\ at[c] = "applying" => err[c] = "none"
    /\ err[c] = "no change" => args[c].name = "up"

\* What a command that is through has done, when nothing failed it.
Applied(c, v) ==
    /\ args[c].name = "up" => v = Latest
    /\ args[c].name = "down" => v = from[c] - args[c].steps

Through(c) ==
    /\ at[c] = "done" => err[c] \in {"none", "no change", "short", "dirty", "error"}
    /\ at[c] = "done" /\ err[c] \in {"none", "no change"} => Applied(c, version)
    /\ at[c] = "logging" => Applied(c, left[c])
    /\ err[c] = "nil" => at[c] = "returned" /\ (args[c].name # "version" => Applied(c, left[c]))
    /\ err[c] \in {"usage", "empty dsn"} => c \notin opened /\ at[c] = "returned"
    /\ at[c] \in {"new", "open", "logging"} => err[c] = "none"

\* A dirty version is being worked on, or has been left by a failure or a kill.
DirtyHasCause ==
    dirty =>
        \/ \E c \in Commands : at[c] = "applying"
        \/ \E c \in Commands : at[c] \in {"done", "returned"} /\ err[c] \in {"error", "killed"}

MigrationInv ==
    /\ MigrationTypeOK
    /\ \A c \in Commands : Holding(c) /\ OnCourse(c) /\ Through(c)
    /\ DirtyHasCause

LEMMA InitMigration == MigrationInit => MigrationInv
<1> SUFFICES ASSUME MigrationInit PROVE MigrationInv
  OBVIOUS
<1> USE MigrationAssumption DEF MigrationInit
<1>1. MigrationTypeOK
  <2>1. version \in 0 .. Latest
    OBVIOUS
  <2>2. /\ at \in [Commands -> {"new"}] /\ err \in [Commands -> {"none"}]
        /\ todo \in [Commands -> Int] /\ from \in [Commands -> Int] /\ left \in [Commands -> Int]
    OBVIOUS
  <2>3. dirty = FALSE /\ lock = Nobody /\ args \in [Commands -> Arguments] /\ opened = {}
    OBVIOUS
  <2> HIDE DEF MigrationInit
  <2> QED BY <2>1, <2>2, <2>3 DEF MigrationTypeOK
<1>2. ASSUME NEW c \in Commands PROVE Holding(c) /\ OnCourse(c) /\ Through(c)
  <2>1. at[c] = "new" /\ err[c] = "none" /\ lock # c /\ opened = {}
    OBVIOUS
  <2> QED BY <2>1 DEF Holding, OnCourse, Through, AtWorkPlaces
<1>3. DirtyHasCause
  BY DEF DirtyHasCause
<1> QED BY <1>1, <1>2, <1>3 DEF MigrationInv

\* A step of c keeps the invariant when it keeps the types, leaves where the
\* others are and what they were told alone, touches the lock and the version
\* only as its holder may, and c is as it should be.
LEMMA StepOf ==
  ASSUME NEW c \in Commands, MigrationInv,
         MigrationTypeOK',
         \A d \in Commands \ {c} :
            /\ at'[d] = at[d] /\ todo'[d] = todo[d] /\ err'[d] = err[d]
            /\ from'[d] = from[d] /\ left'[d] = left[d] /\ (d \in opened' <=> d \in opened),
         args' = args,
         lock' = lock \/ (lock = c /\ lock' = Nobody) \/ (lock = Nobody /\ lock' = c),
         version' = version \/ lock = c,
         Holding(c)', OnCourse(c)', Through(c)',
         DirtyHasCause'
  PROVE  MigrationInv'
<1>1. ASSUME NEW d \in Commands PROVE Holding(d)' /\ OnCourse(d)' /\ Through(d)'
  <2>1. CASE d = c
    BY <2>1
  <2>2. CASE d # c
    <3>1. /\ at'[d] = at[d] /\ todo'[d] = todo[d] /\ err'[d] = err[d]
          /\ from'[d] = from[d] /\ left'[d] = left[d] /\ (d \in opened' <=> d \in opened)
      BY <2>2
    <3>2. Holding(d) /\ OnCourse(d) /\ Through(d)
      BY DEF MigrationInv
    <3>3. lock' = d <=> lock = d
      BY <2>2, MigrationAssumption
    <3>4. Holding(d)'
      BY <3>1, <3>2, <3>3 DEF Holding, AtWorkPlaces
    <3>5. at[d] \in AtWorkPlaces => version' = version
      BY <2>2, <3>2 DEF Holding
    <3>6. OnCourse(d)'
      BY <3>1, <3>2, <3>5 DEF OnCourse, AtWorkPlaces
    <3>7. Through(d)'
      BY <3>1, <3>2, <3>5 DEF Through, Applied, AtWorkPlaces
    <3> QED BY <3>4, <3>6, <3>7
  <2> QED BY <2>1, <2>2
<1> QED BY <1>1 DEF MigrationInv

\* The cause of a dirty version outlives a step that leaves it dirty, unless
\* the step was of the command that is the cause.
LEMMA CauseKeeps ==
  ASSUME NEW c \in Commands, DirtyHasCause, dirty' => dirty,
         \A d \in Commands \ {c} : at'[d] = at[d] /\ err'[d] = err[d],
         \/ /\ at[c] # "applying"
            /\ ~(at[c] \in {"done", "returned"} /\ err[c] \in {"error", "killed"})
         \/ at'[c] \in {"done", "returned"} /\ err'[c] \in {"error", "killed"}
  PROVE  DirtyHasCause'
<1> SUFFICES ASSUME dirty' PROVE DirtyHasCause'
  BY DEF DirtyHasCause
<1>1. CASE at'[c] \in {"done", "returned"} /\ err'[c] \in {"error", "killed"}
  BY <1>1 DEF DirtyHasCause
<1>2. CASE /\ at[c] # "applying"
           /\ ~(at[c] \in {"done", "returned"} /\ err[c] \in {"error", "killed"})
  <2>1. PICK d \in Commands : \/ at[d] = "applying"
                              \/ at[d] \in {"done", "returned"} /\ err[d] \in {"error", "killed"}
    BY DEF DirtyHasCause
  <2>2. d # c
    BY <2>1, <1>2
  <2> QED BY <2>1, <2>2 DEF DirtyHasCause
<1> QED BY <1>1, <1>2

LEMMA MisusedKeeps ==
  ASSUME NEW c \in Commands, MigrationInv, Misused(c)
  PROVE  MigrationInv'
<1>1. PICK e \in {"usage", "empty dsn"} :
        /\ at[c] = "new"
        /\ at' = [at EXCEPT ![c] = "returned"] /\ err' = [err EXCEPT ![c] = e]
        /\ UNCHANGED <<version, dirty, lock, args, todo, from, left, opened>>
  BY DEF Misused, Return, schema
<1>2. MigrationTypeOK /\ Holding(c) /\ OnCourse(c) /\ Through(c) /\ DirtyHasCause
  BY DEF MigrationInv
<1>3. at'[c] = "returned" /\ err'[c] = e
  BY <1>1, <1>2 DEF MigrationTypeOK
<1>4. \A d \in Commands \ {c} : at'[d] = at[d] /\ err'[d] = err[d]
  BY <1>1, <1>2 DEF MigrationTypeOK
<1>5. MigrationTypeOK'
  BY <1>1, <1>2 DEF MigrationTypeOK
<1>6. Holding(c)'
  BY <1>1, <1>2, <1>3 DEF Holding, AtWorkPlaces
<1>7. OnCourse(c)'
  BY <1>3 DEF OnCourse
<1>8. Through(c)'
  BY <1>1, <1>2, <1>3 DEF Through, Holding
<1>9. DirtyHasCause'
  BY <1>1, <1>2, <1>3, <1>4, CauseKeeps
<1> QED BY <1>1, <1>2, <1>4, <1>5, <1>6, <1>7, <1>8, <1>9, StepOf

LEMMA OpenKeeps ==
  ASSUME NEW c \in Commands, MigrationInv, Open(c)
  PROVE  MigrationInv'
<1>1. /\ at[c] = "new" /\ Parses(args[c])
      /\ \/ at' = [at EXCEPT ![c] = "open"] /\ err' = err
         \/ at' = [at EXCEPT ![c] = "returned"] /\ err' = [err EXCEPT ![c] = "error"]
      /\ opened' = opened \cup {c}
      /\ UNCHANGED <<version, dirty, lock, args, todo, from, left>>
  BY DEF Open, Return, schema
<1>2. MigrationTypeOK /\ Holding(c) /\ OnCourse(c) /\ Through(c) /\ DirtyHasCause
  BY DEF MigrationInv
<1>3. (at'[c] = "open" /\ err'[c] = err[c]) \/ (at'[c] = "returned" /\ err'[c] = "error")
  BY <1>1, <1>2 DEF MigrationTypeOK
<1>4. \A d \in Commands \ {c} : at'[d] = at[d] /\ err'[d] = err[d]
  BY <1>1, <1>2 DEF MigrationTypeOK
<1>5. MigrationTypeOK'
  BY <1>1, <1>2 DEF MigrationTypeOK, AtWorkPlaces
<1>6. Holding(c)'
  BY <1>1, <1>2, <1>3 DEF Holding, AtWorkPlaces
<1>7. OnCourse(c)'
  BY <1>1, <1>2, <1>3 DEF OnCourse
<1>8. Through(c)'
  BY <1>1, <1>2, <1>3 DEF Through
<1>9. DirtyHasCause'
  BY <1>1, <1>2, <1>4, CauseKeeps
<1> QED BY <1>1, <1>2, <1>4, <1>5, <1>6, <1>7, <1>8, <1>9, StepOf

LEMMA BeginKeeps ==
  ASSUME NEW c \in Commands, MigrationInv, Begin(c)
  PROVE  MigrationInv'
<1>1. /\ at[c] = "open" /\ args[c].name # "version" /\ lock = Nobody /\ lock' = c
      /\ from' = [from EXCEPT ![c] = version]
      /\ UNCHANGED <<version, dirty, args, left, opened>>
  BY DEF Begin
<1>2. MigrationTypeOK /\ Holding(c) /\ OnCourse(c) /\ Through(c) /\ DirtyHasCause
  BY DEF MigrationInv
<1>3. /\ version \in Int /\ version <= Latest /\ Latest \in Int /\ args[c].steps \in Int
      /\ Parses(args[c]) /\ err[c] = "none" /\ from'[c] = version
  <2>0. version \in 0 .. Latest /\ Latest \in Nat
    BY <1>2, MigrationAssumption DEF MigrationTypeOK
  <2>1. version \in Int /\ version <= Latest /\ Latest \in Int
    BY <2>0
  <2>2. args[c].steps \in Int
    BY <1>2, MigrationAssumption DEF MigrationTypeOK
  <2>3. Parses(args[c]) /\ err[c] = "none"
    BY <1>1, <1>2 DEF Holding, Through
  <2>4. from'[c] = version
    BY <1>1, <1>2 DEF MigrationTypeOK
  <2> QED BY <2>1, <2>2, <2>3, <2>4
<1>4. args[c].name = "up" \/ (args[c].name = "down" /\ args[c].steps >= 1)
  BY <1>1, <1>3 DEF Parses
<1>5. CASE dirty
  <2>1. /\ at' = [at EXCEPT ![c] = "done"] /\ err' = [err EXCEPT ![c] = "dirty"] /\ todo' = todo
    BY <1>5 DEF Begin
  <2>2. at'[c] = "done" /\ err'[c] = "dirty"
    BY <1>2, <2>1 DEF MigrationTypeOK
  <2>3. MigrationTypeOK'
    BY <1>1, <1>2, <1>3, <2>1 DEF MigrationTypeOK, AtWorkPlaces
  <2>4. \A d \in Commands \ {c} :
            /\ at'[d] = at[d] /\ todo'[d] = todo[d] /\ err'[d] = err[d]
            /\ from'[d] = from[d] /\ left'[d] = left[d] /\ (d \in opened' <=> d \in opened)
    BY <1>1, <1>2, <2>1 DEF MigrationTypeOK
  <2>5. Holding(c)'
    BY <1>1, <1>3, <2>2 DEF Holding, AtWorkPlaces
  <2>6. OnCourse(c)'
    BY <2>2 DEF OnCourse
  <2>7. Through(c)'
    BY <2>2 DEF Through
  <2>8. DirtyHasCause'
    BY <1>1, <1>2, <2>4, CauseKeeps
  <2> QED BY <1>1, <2>3, <2>4, <2>5, <2>6, <2>7, <2>8, StepOf
<1>6. CASE ~dirty
  <2>1. /\ at' = [at EXCEPT ![c] = "between"]
        /\ todo' = [todo EXCEPT ![c] =
                      IF args[c].name = "up" THEN Latest - version ELSE -args[c].steps]
        /\ err' = [err EXCEPT ![c] =
                      IF args[c].name = "up" /\ version = Latest THEN "no change" ELSE "none"]
    BY <1>6 DEF Begin
  <2>2. /\ at'[c] = "between"
        /\ todo'[c] = IF args[c].name = "up" THEN Latest - version ELSE -args[c].steps
        /\ err'[c] = IF args[c].name = "up" /\ version = Latest THEN "no change" ELSE "none"
    BY <1>2, <2>1 DEF MigrationTypeOK
  <2>3. MigrationTypeOK'
    <3>1. todo' \in [Commands -> Int] /\ from' \in [Commands -> Int]
      <4>1. todo \in [Commands -> Int] /\ from \in [Commands -> Int]
        BY <1>2 DEF MigrationTypeOK
      <4>2. (IF args[c].name = "up" THEN Latest - version ELSE -args[c].steps) \in Int
        BY <1>3
      <4> QED BY <1>1, <1>3, <2>1, <4>1, <4>2
    <3> QED BY <1>1, <1>2, <2>1, <3>1 DEF MigrationTypeOK, AtWorkPlaces
  <2>4. \A d \in Commands \ {c} :
            /\ at'[d] = at[d] /\ todo'[d] = todo[d] /\ err'[d] = err[d]
            /\ from'[d] = from[d] /\ left'[d] = left[d] /\ (d \in opened' <=> d \in opened)
    BY <1>1, <1>2, <2>1 DEF MigrationTypeOK
  <2>5. Holding(c)'
    BY <1>1, <1>3, <2>2 DEF Holding, AtWorkPlaces
  <2>6. OnCourse(c)'
    <3>1. CASE args[c].name = "up"
      <4>1. todo'[c] = Latest - version /\ (version = Latest \/ err'[c] = "none")
        BY <2>2, <3>1
      <4>2. todo'[c] >= 0 /\ version = Latest - todo'[c] /\ (version = Latest => todo'[c] = 0)
        BY <1>3, <4>1
      <4> QED BY <1>1, <2>2, <3>1, <4>1, <4>2 DEF OnCourse
    <3>2. CASE args[c].name = "down" /\ args[c].steps >= 1
      <4>1. todo'[c] = -args[c].steps /\ err'[c] = "none"
        BY <2>2, <3>2
      <4>2. todo'[c] <= 0 /\ version = from'[c] - args[c].steps - todo'[c]
        BY <1>3, <3>2, <4>1
      <4> QED BY <1>1, <2>2, <3>2, <4>1, <4>2 DEF OnCourse
    <3> QED BY <1>4, <3>1, <3>2
  <2>7. Through(c)'
    BY <1>1, <1>3, <2>2 DEF Through
  <2>8. DirtyHasCause'
    BY <1>1, <1>6 DEF DirtyHasCause
  <2> QED BY <1>1, <2>3, <2>4, <2>5, <2>6, <2>7, <2>8, StepOf
<1> QED BY <1>5, <1>6

LEMMA StartMigrationKeeps ==
  ASSUME NEW c \in Commands, MigrationInv, StartMigration(c)
  PROVE  MigrationInv'
<1>1. /\ at[c] = "between" /\ todo[c] # 0 /\ (todo[c] < 0 => version > 0)
      /\ version' = IF todo[c] > 0 THEN version + 1 ELSE version - 1
      /\ todo' = [todo EXCEPT ![c] = IF todo[c] > 0 THEN todo[c] - 1 ELSE todo[c] + 1]
      /\ at' = [at EXCEPT ![c] = "applying"] /\ dirty' = TRUE
      /\ UNCHANGED <<lock, args, err, from, left, opened>>
  BY DEF StartMigration
<1>2. MigrationTypeOK /\ Holding(c) /\ OnCourse(c) /\ Through(c) /\ DirtyHasCause
  BY DEF MigrationInv
<1>3. version \in Int /\ 0 <= version /\ version <= Latest /\ Latest \in Int /\ todo[c] \in Int
  <2>1. version \in 0 .. Latest /\ Latest \in Nat /\ todo[c] \in Int
    BY <1>2, MigrationAssumption DEF MigrationTypeOK
  <2> QED BY <2>1
<1>4. args[c].steps \in Int /\ from[c] \in Int
  BY <1>2, MigrationAssumption DEF MigrationTypeOK
<1>5. /\ lock = c /\ err[c] = "none"
      /\ args[c].name = "up" \/ args[c].name = "down"
      /\ args[c].name = "up" => todo[c] >= 0 /\ version = Latest - todo[c]
      /\ args[c].name = "down" => todo[c] <= 0 /\ version = from[c] - args[c].steps - todo[c]
  BY <1>1, <1>2 DEF Holding, OnCourse, AtWorkPlaces, Parses
<1>6. /\ at'[c] = "applying"
      /\ todo'[c] = IF todo[c] > 0 THEN todo[c] - 1 ELSE todo[c] + 1
  BY <1>1, <1>2 DEF MigrationTypeOK
<1>7. version' \in 0 .. Latest
  BY <1>1, <1>3, <1>5
<1>8. MigrationTypeOK'
  <2>1. todo' \in [Commands -> Int]
    <3>1. todo \in [Commands -> Int]
      BY <1>2 DEF MigrationTypeOK
    <3>2. (IF todo[c] > 0 THEN todo[c] - 1 ELSE todo[c] + 1) \in Int
      BY <1>3
    <3> QED BY <1>1, <3>1, <3>2
  <2> QED BY <1>1, <1>2, <1>7, <2>1 DEF MigrationTypeOK, AtWorkPlaces
<1>9. \A d \in Commands \ {c} :
          /\ at'[d] = at[d] /\ todo'[d] = todo[d] /\ err'[d] = err[d]
          /\ from'[d] = from[d] /\ left'[d] = left[d] /\ (d \in opened' <=> d \in opened)
  BY <1>1, <1>2 DEF MigrationTypeOK
<1>10. Holding(c)'
  BY <1>1, <1>2, <1>5, <1>6 DEF Holding, AtWorkPlaces
<1>11. OnCourse(c)'
  <2>1. args[c].name = "up" => todo'[c] >= 0 /\ version' = Latest - todo'[c]
    BY <1>1, <1>3, <1>5, <1>6
  <2>2. args[c].name = "down" => todo'[c] <= 0 /\ version' = from[c] - args[c].steps - todo'[c]
    BY <1>1, <1>3, <1>4, <1>5, <1>6
  <2> QED BY <1>1, <1>5, <1>6, <2>1, <2>2 DEF OnCourse
<1>12. Through(c)'
  BY <1>1, <1>5, <1>6 DEF Through
<1>13. DirtyHasCause'
  BY <1>6 DEF DirtyHasCause
<1> QED BY <1>1, <1>5, <1>8, <1>9, <1>10, <1>11, <1>12, <1>13, StepOf

LEMMA EndMigrationKeeps ==
  ASSUME NEW c \in Commands, MigrationInv, EndMigration(c)
  PROVE  MigrationInv'
<1>1. /\ at[c] = "applying"
      /\ \/ at' = [at EXCEPT ![c] = "done"] /\ err' = [err EXCEPT ![c] = "error"] /\ dirty' = dirty
         \/ at' = [at EXCEPT ![c] = "between"] /\ err' = err /\ dirty' = FALSE
      /\ UNCHANGED <<version, lock, args, todo, from, left, opened>>
  BY DEF EndMigration
<1>2. MigrationTypeOK /\ Holding(c) /\ OnCourse(c) /\ Through(c) /\ DirtyHasCause
  BY DEF MigrationInv
<1>3. \/ at'[c] = "done" /\ err'[c] = "error"
      \/ at'[c] = "between" /\ err'[c] = err[c] /\ dirty' = FALSE
  BY <1>1, <1>2 DEF MigrationTypeOK
<1>4. MigrationTypeOK'
  BY <1>1, <1>2 DEF MigrationTypeOK, AtWorkPlaces
<1>5. \A d \in Commands \ {c} : at'[d] = at[d] /\ err'[d] = err[d]
  BY <1>1, <1>2 DEF MigrationTypeOK
<1>6. Holding(c)'
  BY <1>1, <1>2, <1>3 DEF Holding, AtWorkPlaces
<1>7. OnCourse(c)'
  BY <1>1, <1>2, <1>3 DEF OnCourse
<1>8. Through(c)'
  BY <1>1, <1>2, <1>3 DEF Through, OnCourse
<1>9. DirtyHasCause'
  BY <1>3 DEF DirtyHasCause
<1> QED BY <1>1, <1>4, <1>5, <1>6, <1>7, <1>8, <1>9, StepOf

LEMMA NoMoreKeeps ==
  ASSUME NEW c \in Commands, MigrationInv, NoMore(c)
  PROVE  MigrationInv'
<1>1. /\ at[c] = "between" /\ (todo[c] = 0 \/ (todo[c] < 0 /\ version = 0))
      /\ err' = [err EXCEPT ![c] = IF todo[c] # 0 THEN "short" ELSE err[c]]
      /\ at' = [at EXCEPT ![c] = "done"]
      /\ UNCHANGED <<version, dirty, lock, args, todo, from, left, opened>>
  BY DEF NoMore, schema
<1>2. MigrationTypeOK /\ Holding(c) /\ OnCourse(c) /\ Through(c) /\ DirtyHasCause
  BY DEF MigrationInv
<1>3. at'[c] = "done" /\ (err'[c] = "short" \/ (todo[c] = 0 /\ err'[c] = err[c]))
  BY <1>1, <1>2 DEF MigrationTypeOK
<1>4. MigrationTypeOK'
  BY <1>1, <1>2 DEF MigrationTypeOK, AtWorkPlaces
<1>5. \A d \in Commands \ {c} : at'[d] = at[d] /\ err'[d] = err[d]
  BY <1>1, <1>2 DEF MigrationTypeOK
<1>6. Holding(c)'
  BY <1>1, <1>2, <1>3 DEF Holding, AtWorkPlaces
<1>7. /\ err[c] \in {"none", "no change"} /\ (err[c] = "no change" => args[c].name = "up")
      /\ args[c].name = "up" => version = Latest - todo[c]
      /\ args[c].name = "down" => version = from[c] - args[c].steps - todo[c]
  <2>1. at[c] = "between"
    BY <1>1
  <2> QED BY <1>2, <2>1 DEF OnCourse
<1>8. OnCourse(c)'
  <2>1. args' = args /\ (err'[c] = "no change" => err[c] = "no change")
    BY <1>1, <1>3
  <2> QED BY <1>3, <1>7, <2>1 DEF OnCourse
<1>9. Through(c)'
  <2>1. version \in Int /\ Latest \in Int /\ args[c].steps \in Int /\ from[c] \in Int
    <3>1. version \in 0 .. Latest /\ Latest \in Nat
      BY <1>2, MigrationAssumption DEF MigrationTypeOK
    <3>2. args[c].steps \in Int /\ from[c] \in Int
      BY <1>2, MigrationAssumption DEF MigrationTypeOK
    <3> QED BY <3>1, <3>2
  <2>2. todo[c] = 0 => Applied(c, version)
    <3> SUFFICES ASSUME todo[c] = 0 PROVE Applied(c, version)
      OBVIOUS
    <3>1. Latest - todo[c] = Latest /\ from[c] - args[c].steps - todo[c] = from[c] - args[c].steps
      BY <2>1
    <3> QED BY <1>7, <3>1 DEF Applied
  <2>3. err'[c] \in {"none", "no change", "short"} /\ (err'[c] # "short" => todo[c] = 0)
    BY <1>3, <1>7
  <2>4. args' = args /\ version' = version /\ from' = from
    BY <1>1
  <2> QED BY <1>3, <2>2, <2>3, <2>4 DEF Through, Applied
<1>10. DirtyHasCause'
  BY <1>1, <1>2, <1>5, CauseKeeps
<1> QED BY <1>1, <1>4, <1>5, <1>6, <1>8, <1>9, <1>10, StepOf

LEMMA FinishKeeps ==
  ASSUME NEW c \in Commands, MigrationInv, Finish(c)
  PROVE  MigrationInv'
<1>1. /\ at[c] = "done" /\ lock' = Nobody
      /\ left' = [left EXCEPT ![c] = version]
      /\ \/ /\ err[c] = "no change" /\ at' = [at EXCEPT ![c] = "returned"]
            /\ err' = [err EXCEPT ![c] = "nil"]
         \/ /\ err[c] \notin {"none", "no change"} /\ at' = [at EXCEPT ![c] = "returned"]
            /\ err' = [err EXCEPT ![c] = "error"]
         \/ err[c] = "none" /\ at' = [at EXCEPT ![c] = "logging"] /\ err' = err
      /\ UNCHANGED <<version, dirty, args, todo, from, opened>>
  BY DEF Finish, Return, IsNoChange
<1>2. MigrationTypeOK /\ Holding(c) /\ OnCourse(c) /\ Through(c) /\ DirtyHasCause
  BY DEF MigrationInv
<1>3. /\ left'[c] = version
      /\ \/ err[c] = "no change" /\ at'[c] = "returned" /\ err'[c] = "nil"
         \/ err[c] \notin {"none", "no change"} /\ at'[c] = "returned" /\ err'[c] = "error"
         \/ err[c] = "none" /\ at'[c] = "logging" /\ err'[c] = "none"
  BY <1>1, <1>2 DEF MigrationTypeOK
<1>4. MigrationTypeOK'
  <2>1. version \in Int
    <3>1. version \in 0 .. Latest /\ Latest \in Nat
      BY <1>2, MigrationAssumption DEF MigrationTypeOK
    <3> QED BY <3>1
  <2>2. left' \in [Commands -> Int]
    BY <1>1, <1>2, <2>1 DEF MigrationTypeOK
  <2> QED BY <1>1, <1>2, <2>2 DEF MigrationTypeOK, AtWorkPlaces
<1>5. \A d \in Commands \ {c} : at'[d] = at[d] /\ err'[d] = err[d] /\ left'[d] = left[d]
  BY <1>1, <1>2 DEF MigrationTypeOK
<1>6. lock = c /\ Parses(args[c]) /\ args[c].name # "version"
  BY <1>1, <1>2 DEF Holding, AtWorkPlaces
<1>7. Holding(c)'
  BY <1>1, <1>3, <1>6, MigrationAssumption DEF Holding, AtWorkPlaces
<1>8. OnCourse(c)'
  BY <1>3 DEF OnCourse
<1>9. Through(c)'
  <2>1. err[c] \in {"none", "no change"} => Applied(c, version)
    BY <1>1, <1>2 DEF Through
  <2>2. args' = args /\ from' = from
    BY <1>1
  <2> QED BY <1>3, <2>1, <2>2 DEF Through, Applied
<1>10. DirtyHasCause'
  BY <1>1, <1>2, <1>3, <1>5, CauseKeeps
<1> QED BY <1>1, <1>4, <1>5, <1>6, <1>7, <1>8, <1>9, <1>10, StepOf

LEMMA LogVersionKeeps ==
  ASSUME NEW c \in Commands, MigrationInv, LogVersion(c)
  PROVE  MigrationInv'
<1>1. PICK e \in {"nil", "error"} :
        /\ at[c] = "logging" \/ (at[c] = "open" /\ args[c].name = "version")
        /\ at' = [at EXCEPT ![c] = "returned"] /\ err' = [err EXCEPT ![c] = e]
        /\ UNCHANGED <<version, dirty, lock, args, todo, from, left, opened>>
  BY DEF LogVersion, Return, schema
<1>2. MigrationTypeOK /\ Holding(c) /\ OnCourse(c) /\ Through(c) /\ DirtyHasCause
  BY DEF MigrationInv
<1>3. at'[c] = "returned" /\ err'[c] = e
  BY <1>1, <1>2 DEF MigrationTypeOK
<1>4. MigrationTypeOK'
  BY <1>1, <1>2 DEF MigrationTypeOK, AtWorkPlaces
<1>5. \A d \in Commands \ {c} : at'[d] = at[d] /\ err'[d] = err[d]
  BY <1>1, <1>2 DEF MigrationTypeOK
<1>6. Holding(c)'
  BY <1>1, <1>2, <1>3 DEF Holding, AtWorkPlaces
<1>7. OnCourse(c)'
  BY <1>3 DEF OnCourse
<1>8. Through(c)'
  <2>1. args[c].name = "version" \/ Applied(c, left[c])
    BY <1>1, <1>2 DEF Through
  <2>2. args' = args /\ left' = left /\ from' = from
    BY <1>1
  <2> QED BY <1>1, <1>3, <2>1, <2>2 DEF Through, Applied
<1>9. DirtyHasCause'
  BY <1>1, <1>2, <1>5, CauseKeeps
<1> QED BY <1>1, <1>4, <1>5, <1>6, <1>7, <1>8, <1>9, StepOf

LEMMA KilledKeeps ==
  ASSUME NEW c \in Commands, MigrationInv, Killed(c)
  PROVE  MigrationInv'
<1>1. /\ at[c] \notin {"new", "returned"}
      /\ lock' = IF lock = c THEN Nobody ELSE lock
      /\ at' = [at EXCEPT ![c] = "returned"] /\ err' = [err EXCEPT ![c] = "killed"]
      /\ UNCHANGED <<version, dirty, args, todo, from, left, opened>>
  BY DEF Killed, Return
<1>2. MigrationTypeOK /\ Holding(c) /\ OnCourse(c) /\ Through(c) /\ DirtyHasCause
  BY DEF MigrationInv
<1>3. at'[c] = "returned" /\ err'[c] = "killed"
  BY <1>1, <1>2 DEF MigrationTypeOK
<1>4. MigrationTypeOK'
  BY <1>1, <1>2 DEF MigrationTypeOK, AtWorkPlaces
<1>5. \A d \in Commands \ {c} : at'[d] = at[d] /\ err'[d] = err[d]
  BY <1>1, <1>2 DEF MigrationTypeOK
<1>6. Holding(c)'
  BY <1>1, <1>3, MigrationAssumption DEF Holding, AtWorkPlaces
<1>7. OnCourse(c)'
  BY <1>3 DEF OnCourse
<1>8. Through(c)'
  BY <1>3 DEF Through
<1>9. DirtyHasCause'
  BY <1>1, <1>2, <1>3, <1>5, CauseKeeps
<1> QED BY <1>1, <1>4, <1>5, <1>6, <1>7, <1>8, <1>9, StepOf

LEMMA MigrationKeeps == MigrationInv /\ [MigrationNext]_migrationVars => MigrationInv'
<1>1. ASSUME MigrationInv, MigrationNext PROVE MigrationInv'
  BY <1>1, MisusedKeeps, OpenKeeps, BeginKeeps, StartMigrationKeeps, EndMigrationKeeps,
     NoMoreKeeps, FinishKeeps, LogVersionKeeps, KilledKeeps DEF MigrationNext
<1>2. ASSUME MigrationInv, UNCHANGED migrationVars PROVE MigrationInv'
  BY <1>2 DEF migrationVars, MigrationInv, MigrationTypeOK, Holding, OnCourse, Through, Applied,
     DirtyHasCause
<1> QED BY <1>1, <1>2

\* What the invariant says of a caller.
LEMMA MigrationTold == MigrationInv => NilMeansApplied
<1> SUFFICES ASSUME MigrationInv PROVE NilMeansApplied
  OBVIOUS
<1>1. ASSUME NEW c \in Commands
      PROVE  /\ err[c] = "nil" /\ args[c].name = "up" => left[c] = Latest
             /\ err[c] = "nil" /\ args[c].name = "down" => left[c] = from[c] - args[c].steps
             /\ err[c] \in {"usage", "empty dsn"} => c \notin opened
  <2>1. Through(c)
    BY DEF MigrationInv
  <2> QED BY <2>1 DEF Through, Applied
<1>2. dirty /\ lock = Nobody => \E c \in Commands : err[c] \in {"error", "killed"}
  <2>1. \A c \in Commands : at[c] = "applying" => lock = c
    BY DEF MigrationInv, Holding, AtWorkPlaces
  <2>2. DirtyHasCause
    BY DEF MigrationInv
  <2> QED BY <2>1, <2>2, MigrationAssumption DEF DirtyHasCause
<1> QED BY <1>1, <1>2 DEF NilMeansApplied

-----------------------------------------------------------------------------
(***************************************************************************)
(* The serving binary.                                                     *)
(***************************************************************************)

\* A setting nothing is recorded against has a value that is faithful.
LEMMA UnproblematicIsFaithful ==
  ASSUME NEW e \in Environments, NEW k \in DOMAIN e.reads, ~Problem(e.reads[k], e.raw[k])
  PROVE  Faithful(e.reads[k], e.raw[k])
<1> DEFINE s == e.reads[k]  raw == e.raw[k]
<1>1. /\ s.kind \in {"required", "string", "int", "between", "list", "duration"}
      /\ s.kind \in {"required", "string"} /\ raw.set => raw.parses
  BY EnvironmentAssumption
<1>2. ~Problem(s, raw)
  OBVIOUS
<1> HIDE DEF s, raw
<1>3. /\ ~Defective(s)
      /\ s.kind = "required" => raw.set
      /\ raw.set => raw.parses
      /\ s.kind = "between" /\ raw.set => raw.n \in s.lo .. s.hi
  BY <1>1, <1>2 DEF Problem
<1>4. Value(s, raw) = IF raw.set THEN raw.n ELSE s.fallback
  BY <1>2, <1>3 DEF Value
<1>5. s.kind = "between" => Value(s, raw) \in s.lo .. s.hi
  BY <1>3, <1>4 DEF Defective
<1>6. Faithful(s, raw)
  BY <1>3, <1>4, <1>5 DEF Faithful
<1> QED BY <1>6 DEF s, raw

BootTypeOK ==
    /\ env \in Environments
    /\ provider \in [Providers -> {"none", "up", "shut"}]
    /\ stage \in {"config", "telemetry", "tracer", "pool", "run", "unwind", "exited"}
    /\ held \in {"none", "between", "statement"} /\ installed \in BOOLEAN

All(p)  == \A q \in Providers : provider[q] = p
NoneUp  == \A q \in Providers : provider[q] # "up"

\* What is built, and what main has deferred to undo it, at every stage.
Built ==
    /\ stage \in {"config", "telemetry"} => deferred = <<>> /\ All("none") /\ pool = "none"
    /\ stage = "tracer" =>
        deferred = <<>> /\ provider["tracer"] = "up" /\ provider["meter"] = "none" /\ pool = "none"
    /\ stage = "pool" => deferred = <<"telemetry">> /\ All("up") /\ pool = "none"
    /\ stage = "run" => deferred = <<"pool", "telemetry">> /\ All("up") /\ pool = "open"
    /\ stage = "unwind" =>
        \/ deferred = <<"pool", "telemetry">> /\ All("up") /\ pool \in {"open", "closing"}
        \/ deferred = <<"telemetry">> /\ All("up") /\ pool \in {"none", "closed"}
        \/ deferred = <<>> /\ NoneUp /\ pool \in {"none", "closed"}
    /\ stage = "exited" => NoneUp /\ pool \in {"none", "closed"}

\* A global that is installed has been built; a connection is out of a pool that
\* is open or waits for it, and one that is closing has a ping down.
Held ==
    /\ installed => \A q \in Providers : provider[q] # "none"
    /\ stage \in {"config", "telemetry", "tracer"} => ~installed
    /\ pool \in {"none", "closed"} => held = "none"
    /\ pool = "closing" => Postgres \in wasDown

\* A problem stops the boot before anything is built, and names every setting
\* that is not faithful.
Refused ==
    /\ problems # {} => stage \in {"unwind", "exited"} /\ All("none") /\ pool = "none"
    /\ stage # "config" =>
        \A k \in DOMAIN env.reads : k \in problems \/ Faithful(env.reads[k], env.raw[k])

BootInv == BootTypeOK /\ Built /\ Held /\ Refused

LEMMA InitBoot == BootInit => BootInv
BY DEF BootInit, BootInv, BootTypeOK, Built, Held, Refused, All, NoneUp

\* What a handler does with its connection.
LEMMA HandlerKeeps ==
  ASSUME ProbeInv, BootInv,
         Acquire \/ SendStatement \/ StatementAnswered \/ StatementCutOff \/ Release
  PROVE  ProbeInv' /\ BootInv'
<1>1. HandlerOnly /\ Serving
  BY DEF Acquire, SendStatement, StatementAnswered, StatementCutOff, Release
<1>2. ProbeInv'
  BY <1>1 DEF HandlerOnly, probeVars, ProbeInv, ProbeTypeOK, Witnessed, Founded, NamesTheFailed
<1>3. /\ held' \in {"none", "between", "statement"}
      /\ held = "none" /\ held' # "none" => pool = "open"
  BY DEF Acquire, SendStatement, StatementAnswered, StatementCutOff, Release
<1>4. /\ wasDown' = wasDown
      /\ UNCHANGED <<env, stage, problems, provider, installed, pool, deferred>>
  BY <1>1 DEF HandlerOnly, probeVars
<1>5. BootInv'
  BY <1>3, <1>4 DEF BootInv, BootTypeOK, Built, Held, Refused, All, NoneUp
<1> QED BY <1>2, <1>5

\* A step that leaves the boot alone leaves it right, as long as the auxiliary
\* set keeps what a closing pool has put there.
LEMMA BootStays ==
  ASSUME BootInv, UNCHANGED bootVars, pool = "closing" => Postgres \in wasDown'
  PROVE  BootInv'
BY DEF bootVars, BootInv, BootTypeOK, Built, Held, Refused, All, NoneUp

\* The steps of a probe, and of the dependencies.
LEMMA ProbingKeeps ==
  ASSUME ProbeInv, BootInv, ProbeBegins \/ ProbeGoesOn \/ PingRefused \/ Weather
  PROVE  ProbeInv' /\ BootInv'
<1>0. Held /\ Built
  BY DEF BootInv
<1>1. CASE ProbeBegins
  <2>1. pool = "open" /\ UNCHANGED bootVars /\ ProbeArrives
    BY <1>0, <1>1 DEF ProbeBegins, AtWork, Built
  <2> QED BY <2>1, ArrivalKeeps, BootStays
<1>2. CASE ProbeGoesOn
  <2>1. UNCHANGED bootVars /\ ProbeStep
    BY <1>2 DEF ProbeGoesOn, AtWork
  <2>2. wasDown' = wasDown
    BY <2>1 DEF ProbeStep, ContextDone, CheckReturns, CheckGivesUp, Send, ProbeAnswered
  <2> QED BY <1>0, <2>1, <2>2, StepKeeps, BootStays DEF Held
<1>3. CASE PingRefused
  <2>1. /\ check[Postgres] = "asking" /\ Postgres \in wasDown /\ Postgres \in Checks
        /\ check' = [check EXCEPT ![Postgres] = "failed"]
        /\ UNCHANGED <<dep, probe, results, done, failed, wasUp, wasDown>> /\ UNCHANGED bootVars
    BY <1>0, <1>3, BootAssumption, ProbeAssumption DEF PingRefused, Held
  <2>2. Postgres \notin results /\ probe # "answered" /\ probe # "none"
    BY <2>1 DEF ProbeInv, Founded, NamesTheFailed
  <2>3. ProbeInv'
    BY <2>1, <2>2 DEF ProbeInv, ProbeTypeOK, Witnessed, Founded, NamesTheFailed
  <2> QED BY <1>0, <2>1, <2>3, BootStays DEF Held
<1>4. CASE Weather
  <2>1. PICK c \in Checks, state \in {"up", "down", "hung"} : DependencyMoves(c, state)
    BY <1>4 DEF Weather
  <2>2. dep' \in [Checks -> {"up", "down", "hung"}]
    BY <2>1 DEF DependencyMoves, ProbeInv, ProbeTypeOK
  <2>3. Witness(wasUp, wasDown) /\ UNCHANGED <<probe, check, results, done, failed>>
    BY <2>1 DEF DependencyMoves
  <2>4. pool = "closing" => Postgres \in wasDown'
    BY <1>0, <2>3 DEF Witness, Held
  <2>5. UNCHANGED bootVars
    BY <1>4 DEF Weather
  <2> QED BY <2>2, <2>3, <2>4, <2>5, WitnessKeeps, BootStays
<1> QED BY <1>1, <1>2, <1>3, <1>4

\* One in front of one makes two.
LEMMA InFront == ASSUME NEW a, NEW b PROVE <<a>> \o <<b>> = <<a, b>>
<1> DEFINE S == {a, b}  s == <<a>> \o <<b>>  t == <<a, b>>
<1>1. <<a>> \in Seq(S) /\ <<b>> \in Seq(S) /\ t \in Seq(S)
  OBVIOUS
<1>2. s \in Seq(S) /\ Len(s) = 2 /\ s[1] = a /\ s[2] = b
  BY <1>1, ConcatProperties
<1>3. Len(t) = 2 /\ t[1] = a /\ t[2] = b
  OBVIOUS
<1> HIDE DEF S, s, t
<1>4. \A i \in 1 .. Len(s) : s[i] = t[i]
  BY <1>2, <1>3
<1>5. s = t
  BY <1>1, <1>2, <1>3, <1>4, SeqEqual
<1> QED BY <1>5 DEF s, t

\* The steps of main that leave the handlers alone.
LEMMA MainKeeps ==
  ASSUME BootInv,
         \/ ReadConfig \/ ReaderFails \/ SetupFails \/ BuildTracer \/ MeterFails \/ Install
         \/ PoolFails \/ OpenPool \/ RunReturns \/ ShutTelemetry \/ Exit,
         UNCHANGED probeVars
  PROVE  BootInv'
<1> USE DEF BootTypeOK, Built, Held, All, NoneUp, Fail, probeVars
<1>0. BootTypeOK /\ Built /\ Held /\ Refused
  BY DEF BootInv
<1>1. CASE ReadConfig
  <2>1. /\ stage = "config" /\ stage' \in {"telemetry", "unwind"}
        /\ problems' = {k \in DOMAIN env.reads : Problem(env.reads[k], env.raw[k])}
        /\ problems' # {} => stage' = "unwind"
        /\ UNCHANGED <<env, provider, installed, pool, held, deferred>>
    BY <1>1 DEF ReadConfig
  <2>2. BootTypeOK' /\ Built' /\ Held'
    BY <1>0, <2>1
  <2>3. Refused'
    BY <1>0, <2>1, UnproblematicIsFaithful DEF Refused
  <2> QED BY <2>2, <2>3 DEF BootInv
<1>2. CASE ReaderFails \/ SetupFails \/ PoolFails
  <2>1. /\ stage \in {"telemetry", "pool"} /\ stage' = "unwind"
        /\ UNCHANGED <<env, problems, provider, installed, pool, held, deferred>>
    BY <1>2 DEF ReaderFails, SetupFails, PoolFails
  <2> QED BY <1>0, <2>1 DEF BootInv, Refused
<1>3. CASE BuildTracer
  <2>1. /\ stage = "telemetry" /\ stage' = "tracer"
        /\ provider' = [provider EXCEPT !["tracer"] = "up"]
        /\ UNCHANGED <<env, problems, installed, pool, held, deferred>>
    BY <1>3 DEF BuildTracer
  <2>2. provider' \in [Providers -> {"none", "up", "shut"}]
    BY <1>0, <2>1
  <2>3. provider'["tracer"] = "up" /\ provider'["meter"] = "none"
    BY <1>0, <2>1 DEF Providers
  <2> QED BY <1>0, <2>1, <2>2, <2>3 DEF BootInv, Refused
<1>4. CASE MeterFails
  <2>1. /\ stage = "tracer" /\ stage' = "unwind"
        /\ provider' = [provider EXCEPT !["tracer"] = "shut"]
        /\ UNCHANGED <<env, problems, installed, pool, held, deferred>>
    BY <1>4 DEF MeterFails
  <2>2. NoneUp'
    BY <1>0, <2>1 DEF Providers
  <2>3. BootTypeOK'
    BY <1>0, <2>1
  <2>4. problems = {} /\ problems' = {}
    BY <1>0, <2>1 DEF Refused
  <2>5. Refused'
    BY <1>0, <2>1, <2>4 DEF Refused
  <2>6. Built' /\ Held'
    BY <1>0, <2>1, <2>2
  <2> QED BY <2>3, <2>5, <2>6 DEF BootInv
<1>5. CASE Install
  <2>1. /\ stage = "tracer" /\ stage' = "pool" /\ installed' = TRUE
        /\ provider' = [provider EXCEPT !["meter"] = "up"]
        /\ deferred' = <<"telemetry">> \o deferred
        /\ UNCHANGED <<env, problems, pool, held>>
    BY <1>5 DEF Install
  <2>2. deferred' = <<"telemetry">>
    BY <1>0, <2>1
  <2>3. All("up")'
    BY <1>0, <2>1 DEF Providers
  <2>4. BootTypeOK'
    BY <1>0, <2>1
  <2>5. problems = {} /\ problems' = {}
    BY <1>0, <2>1 DEF Refused
  <2>6. Refused'
    BY <1>0, <2>1, <2>5 DEF Refused
  <2>7. Built' /\ Held'
    BY <1>0, <2>1, <2>2, <2>3
  <2> QED BY <2>4, <2>6, <2>7 DEF BootInv
<1>6. CASE OpenPool
  <2>1. /\ stage = "pool" /\ stage' = "run" /\ pool' = "open"
        /\ deferred' = <<"pool">> \o deferred
        /\ UNCHANGED <<env, problems, provider, installed, held>>
    BY <1>6 DEF OpenPool
  <2>2. deferred' = <<"pool", "telemetry">>
    <3>1. deferred = <<"telemetry">>
      BY <1>0, <2>1
    <3>2. <<"pool">> \o <<"telemetry">> = <<"pool", "telemetry">>
      BY InFront
    <3> QED BY <2>1, <3>1, <3>2
  <2> QED BY <1>0, <2>1, <2>2 DEF BootInv, Refused
<1>7. CASE RunReturns
  <2>1. /\ stage = "run" /\ stage' = "unwind"
        /\ UNCHANGED <<env, problems, provider, installed, pool, held, deferred>>
    BY <1>7 DEF RunReturns
  <2> QED BY <1>0, <2>1 DEF BootInv, Refused
<1>8. CASE ShutTelemetry
  <2>1. /\ stage = "unwind" /\ deferred # <<>> /\ Head(deferred) = "telemetry"
        /\ provider' = [p \in Providers |-> "shut"] /\ deferred' = Tail(deferred)
        /\ UNCHANGED <<env, stage, problems, installed, pool, held>>
    BY <1>8 DEF ShutTelemetry
  <2>2. deferred = <<"telemetry">> /\ pool # "open" /\ All("up")
    BY <1>0, <2>1
  <2>3. deferred' = <<>>
    BY <2>1, <2>2
  <2> QED BY <1>0, <2>1, <2>2, <2>3 DEF BootInv, Refused, Providers
<1>9. CASE Exit
  <2>1. /\ stage = "unwind" /\ deferred = <<>> /\ stage' = "exited"
        /\ UNCHANGED <<env, problems, provider, installed, pool, held, deferred>>
    BY <1>9 DEF Exit
  <2> QED BY <1>0, <2>1 DEF BootInv, Refused
<1> QED BY <1>1, <1>2, <1>3, <1>4, <1>5, <1>6, <1>7, <1>8, <1>9

\* Closing the pool refuses the pings to come, and waits for what is out.
LEMMA ClosingKeeps ==
  ASSUME ProbeInv, BootInv, BeginClose \/ ClosePool
  PROVE  ProbeInv' /\ BootInv'
<1>0. BootTypeOK /\ Built /\ Held /\ Refused
  BY DEF BootInv
<1>1. CASE BeginClose
  <2>1. /\ stage = "unwind" /\ pool = "open" /\ pool' = "closing"
        /\ wasDown' = wasDown \cup {Postgres}
        /\ UNCHANGED <<dep, probe, check, results, done, failed, wasUp>>
        /\ UNCHANGED <<env, stage, problems, provider, installed, held, deferred>>
    BY <1>1 DEF BeginClose
  <2>2. ProbeInv'
    BY <2>1 DEF ProbeInv, ProbeTypeOK, Witnessed, Founded, NamesTheFailed
  <2>3. deferred = <<"pool", "telemetry">> /\ All("up") /\ problems = {}
    BY <1>0, <2>1 DEF Built, Refused
  <2>4. Built' /\ BootTypeOK'
    BY <1>0, <2>1, <2>3 DEF Built, BootTypeOK, All
  <2>5. Held' /\ Refused'
    BY <1>0, <2>1, <2>3 DEF Held, Refused
  <2> QED BY <2>2, <2>4, <2>5 DEF BootInv
<1>2. CASE ClosePool
  <2>1. /\ pool = "closing" /\ pool' = "closed" /\ held = "none"
        /\ deferred' = Tail(deferred) /\ wasDown' = wasDown
        /\ UNCHANGED probeVars
        /\ UNCHANGED <<env, stage, problems, provider, installed, held>>
    BY <1>2 DEF ClosePool, probeVars
  <2>2. ProbeInv'
    BY <2>1 DEF probeVars, ProbeInv, ProbeTypeOK, Witnessed, Founded, NamesTheFailed
  <2>3. stage = "unwind" /\ deferred = <<"pool", "telemetry">> /\ All("up")
    BY <1>0, <2>1 DEF Built, BootTypeOK
  <2>4. deferred' = <<"telemetry">> /\ problems = {}
    BY <1>0, <2>1, <2>3 DEF Refused
  <2>5. Built' /\ BootTypeOK'
    BY <1>0, <2>1, <2>3, <2>4 DEF Built, BootTypeOK, All
  <2>6. Held' /\ Refused'
    BY <1>0, <2>1, <2>3, <2>4 DEF Held, Refused
  <2> QED BY <2>2, <2>5, <2>6 DEF BootInv
<1> QED BY <1>1, <1>2

LEMMA BootKeeps == ProbeInv /\ BootInv /\ [BootNext]_vars => ProbeInv' /\ BootInv'
<1>1. ASSUME ProbeInv, UNCHANGED probeVars PROVE ProbeInv'
  BY <1>1 DEF probeVars, ProbeInv, ProbeTypeOK, Witnessed, Founded, NamesTheFailed
<1>2. ASSUME BootInv, UNCHANGED <<probeVars, bootVars>> PROVE BootInv'
  BY <1>2, BootStays DEF probeVars, BootInv, Held
<1>3. ASSUME ProbeInv, BootInv, BootNext PROVE ProbeInv' /\ BootInv'
  <2>1. CASE \/ ReadConfig \/ ReaderFails \/ SetupFails \/ BuildTracer \/ MeterFails \/ Install
             \/ PoolFails \/ OpenPool \/ RunReturns \/ ShutTelemetry \/ Exit
    <3>1. UNCHANGED probeVars
      BY <2>1 DEF ReadConfig, ReaderFails, SetupFails, BuildTracer, MeterFails, Install, PoolFails, OpenPool,
         RunReturns, ShutTelemetry, Exit, probeVars
    <3> QED BY <1>1, <1>3, <2>1, <3>1, MainKeeps
  <2> QED BY <1>3, <2>1, HandlerKeeps, ProbingKeeps, ClosingKeeps DEF BootNext
<1> QED BY <1>1, <1>2, <1>3 DEF vars

-----------------------------------------------------------------------------
(***************************************************************************)
(* Both binaries.                                                          *)
(***************************************************************************)

ProcessInv == ProbeInv /\ BootInv /\ MigrationInv

\* The invariant holds of every life of either binary.
THEOREM ProcessIsInvariant == Spec => []ProcessInv
<1>1. Init => ProcessInv
  BY InitProbe, InitBoot, InitMigration DEF Init, ProcessInv
<1>2. ProcessInv /\ [Next]_<<vars, migrationVars, binary>> => ProcessInv'
  <2> SUFFICES ASSUME ProcessInv, [Next]_<<vars, migrationVars, binary>> PROVE ProcessInv'
    OBVIOUS
  <2>1. [BootNext]_vars /\ [MigrationNext]_migrationVars
    BY DEF Next, Gone
  <2> QED BY <2>1, BootKeeps, MigrationKeeps DEF ProcessInv
<1> QED BY <1>1, <1>2, PTL DEF Spec

\* A probe's answer is about the dependencies of the time it took, for any
\* checks, honouring or not, and whatever closes or fails meanwhile
\* (health.go:68-70).
THEOREM ProbeIsAbout == Spec => []ProbeVerdict
<1>1. ProcessInv => ProbeVerdict
  BY DEF ProcessInv, ProbeInv, ProbeTypeOK, Founded, NamesTheFailed, ProbeVerdict, Answered
<1> QED BY <1>1, ProcessIsInvariant, PTL

\* No boot goes on with a setting that is not what its environment says, for
\* any settings, and one that stops has opened nothing (config.go:46-49).
THEOREM NoFallbackIsQuiet == Spec => []NoQuietFallback
<1>1. ProcessInv => NoQuietFallback
  BY DEF ProcessInv, BootInv, Refused, All, NoQuietFallback
<1> QED BY <1>1, ProcessIsInvariant, PTL

\* Whichever step of a boot fails, a process that is gone has shut down all it
\* built (otel.go:100-101, 137-138).
THEOREM NothingIsLeft == Spec => []NothingLeftOpen
<1>1. ProcessInv => NothingLeftOpen
  BY DEF ProcessInv, BootInv, Built, Held, NoneUp, NothingLeftOpen
<1> QED BY <1>1, ProcessIsInvariant, PTL

\* nil from a migrating command is what it was asked, for any number of
\* commands and migrations, whichever are killed (migrate.go:30-32, 67-71).
THEOREM NilIsApplied == Spec => []NilMeansApplied
<1>1. ProcessInv => NilMeansApplied
  BY MigrationTold DEF ProcessInv
<1> QED BY <1>1, ProcessIsInvariant, PTL

=============================================================================
