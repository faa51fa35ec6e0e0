------------------------------ MODULE Migration ------------------------------
(***************************************************************************)
(* storage/postgres/migrate: commands that apply migrations to one         *)
(* database, several of them at once and any of them killed on the way.    *)
(*                                                                         *)
(* golang-migrate is external, and modelled by what Run relies on: Up and  *)
(* Steps take the database's lock, refuse a dirty version, mark the        *)
(* version they move to dirty before its SQL runs and clean after, and     *)
(* Steps past the first migration applies what there is and answers that   *)
(* it fell short.  The lock goes with the connection of a command that is  *)
(* killed.                                                                 *)
(***************************************************************************)
EXTENDS Integers

CONSTANTS Commands,  \* the invocations of Run
          Arguments, \* the argument lists they may be given
          Latest,    \* how many migrations the service embeds
          Nobody     \* the lock is free

ASSUME MigrationAssumption ==
    /\ Latest \in Nat
    /\ Nobody \notin Commands
    /\ \A a \in Arguments : a.steps \in Int

VARIABLES version,   \* the migrations applied
          dirty,     \* the last of them did not finish
          lock,      \* the command that holds the database's lock
          at,        \* where each command is
          args,      \* what it was given
          todo,      \* the migrations it has left to apply, down below zero
          err,       \* what golang-migrate answered it, and then Run its caller
          from,      \* auxiliary: the version it found under the lock
          left,      \* auxiliary: the version it left there
          opened     \* auxiliary: the commands that have opened a connection

schema        == <<version, dirty, lock>>
migrationVars == <<version, dirty, lock, at, args, todo, err, from, left, opened>>

-----------------------------------------------------------------------------
\* parse: up or version alone, or down and a number above zero.
Parses(a) ==
    \/ a.name \in {"up", "version"} /\ a.count = 1
    \/ a.name = "down" /\ a.count = 2 /\ a.steps >= 1

MigrationInit ==
    /\ version \in 0 .. Latest
    /\ dirty = FALSE
    /\ lock = Nobody
    /\ at = [c \in Commands |-> "new"]
    /\ args \in [Commands -> Arguments]
    /\ todo = [c \in Commands |-> 0]
    /\ err = [c \in Commands |-> "none"]
    /\ from = [c \in Commands |-> 0]
    /\ left = [c \in Commands |-> 0]
    /\ opened = {}

\* Run returns e to its caller.
Return(c, e) ==
    /\ at' = [at EXCEPT ![c] = "returned"]
    /\ err' = [err EXCEPT ![c] = e]

\* parse, and the empty dsn.
Misused(c) ==
    /\ at[c] = "new"
    /\ \/ ~Parses(args[c]) /\ Return(c, "usage")
       \/ Parses(args[c]) /\ Return(c, "empty dsn")
    /\ UNCHANGED <<schema, args, todo, from, left, opened>>

\* sql.Open, and what a migrator is made of.  Any of them may fail.
Open(c) ==
    /\ at[c] = "new"
    /\ Parses(args[c])
    /\ opened' = opened \cup {c}
    /\ \/ at' = [at EXCEPT ![c] = "open"] /\ UNCHANGED err
       \/ Return(c, "error")
    /\ UNCHANGED <<schema, args, todo, from, left>>

\* Up or Steps: the lock, the version under it, and what there is to do.
Begin(c) ==
    /\ at[c] = "open"
    /\ args[c].name # "version"
    /\ lock = Nobody
    /\ lock' = c
    /\ from' = [from EXCEPT ![c] = version]
    /\ IF dirty
       THEN /\ at' = [at EXCEPT ![c] = "done"]
            /\ err' = [err EXCEPT ![c] = "dirty"]
            /\ UNCHANGED todo
       ELSE /\ at' = [at EXCEPT ![c] = "between"]
            /\ todo' = [todo EXCEPT ![c] =
                          IF args[c].name = "up" THEN Latest - version ELSE -args[c].steps]
            /\ err' = [err EXCEPT ![c] =
                          IF args[c].name = "up" /\ version = Latest THEN "no change" ELSE "none"]
    /\ UNCHANGED <<version, dirty, args, left, opened>>

\* The next migration: its version written dirty, and then its SQL.
StartMigration(c) ==
    /\ at[c] = "between"
    /\ todo[c] # 0
    /\ todo[c] < 0 => version > 0
    /\ version' = IF todo[c] > 0 THEN version + 1 ELSE version - 1
    /\ dirty' = TRUE
    /\ todo' = [todo EXCEPT ![c] = IF @ > 0 THEN @ - 1 ELSE @ + 1]
    /\ at' = [at EXCEPT ![c] = "applying"]
    /\ UNCHANGED <<lock, args, err, from, left, opened>>

\* Its SQL fails, and the version stays dirty; or it is written clean.
EndMigration(c) ==
    /\ at[c] = "applying"
    /\ \/ /\ at' = [at EXCEPT ![c] = "done"]
          /\ err' = [err EXCEPT ![c] = "error"]
          /\ UNCHANGED dirty
       \/ /\ at' = [at EXCEPT ![c] = "between"]
          /\ dirty' = FALSE
          /\ UNCHANGED err
    /\ UNCHANGED <<version, lock, args, todo, from, left, opened>>

\* Nothing left to apply, or nothing left to take back.
NoMore(c) ==
    /\ at[c] = "between"
    /\ todo[c] = 0 \/ (todo[c] < 0 /\ version = 0)
    /\ err' = [err EXCEPT ![c] = IF todo[c] # 0 THEN "short" ELSE @]
    /\ at' = [at EXCEPT ![c] = "done"]
    /\ UNCHANGED <<schema, args, todo, from, left, opened>>

\* A command that fell short answered like one with nothing to change.
IsNoChangeOrShort(e) == e \in {"no change", "short"}

\* errors.Is(err, golangmigrate.ErrNoChange)
IsNoChange(e) == e = "no change"

\* The lock is given back; no change is no error, and any other is returned.
\* What applied goes on to the version to log.
Finish(c) ==
    /\ at[c] = "done"
    /\ lock' = Nobody
    /\ left' = [left EXCEPT ![c] = version]
    /\ IF IsNoChange(err[c]) THEN Return(c, "nil")
       ELSE IF err[c] # "none" THEN Return(c, "error")
       ELSE at' = [at EXCEPT ![c] = "logging"] /\ UNCHANGED err
    /\ UNCHANGED <<version, dirty, args, todo, from, opened>>

\* logVersion: a version, none yet, or a failure to read it.
LogVersion(c) ==
    /\ at[c] = "logging" \/ (at[c] = "open" /\ args[c].name = "version")
    /\ \E e \in {"nil", "error"} : Return(c, e)
    /\ UNCHANGED <<schema, args, todo, from, left, opened>>

\* The command is killed: nothing of a migration in flight is undone.
Killed(c) ==
    /\ at[c] \notin {"new", "returned"}
    /\ lock' = IF lock = c THEN Nobody ELSE lock
    /\ Return(c, "killed")
    /\ UNCHANGED <<version, dirty, args, todo, from, left, opened>>

MigrationNext == \E c \in Commands :
    \/ Misused(c) \/ Open(c) \/ Begin(c)
    \/ StartMigration(c) \/ EndMigration(c) \/ NoMore(c)
    \/ Finish(c) \/ LogVersion(c) \/ Killed(c)

-----------------------------------------------------------------------------
\* What a caller of Run is told is what was done, whatever ran beside it or
\* was killed before it: nil is all of the migrations for up and exactly the
\* number asked for down, counted from the version it found; a usage error has
\* opened nothing (migrate.go:30-32, 67-71, 114-122).
NilMeansApplied ==
    /\ \A c \in Commands :
        /\ err[c] = "nil" /\ args[c].name = "up" => left[c] = Latest
        /\ err[c] = "nil" /\ args[c].name = "down" => left[c] = from[c] - args[c].steps
        /\ err[c] \in {"usage", "empty dsn"} => c \notin opened
    \* A version nobody is working on is dirty only after a failure or a kill.
    /\ dirty /\ lock = Nobody => \E c \in Commands : err[c] \in {"error", "killed"}

=============================================================================
