------------------------------ MODULE Process ------------------------------
(***************************************************************************)
(* The two binaries of a service: the one that serves (Boot, and the       *)
(* probes of Probe), and the command that migrates its database            *)
(* (Migration), which is its own so that golang-migrate stays out of the   *)
(* first.  They share no memory; a behaviour is a life of one of them.     *)
(***************************************************************************)
EXTENDS Boot, Migration

VARIABLE binary  \* "serve" or "migrate"

\* The other binary's variables are left at one of their initial values.
Init ==
    /\ BootInit /\ ProbeInit /\ MigrationInit
    /\ \/ binary = "serve" /\ version = 0 /\ args = CHOOSE a \in [Commands -> Arguments] : TRUE
       \/ /\ binary = "migrate"
          /\ env = CHOOSE e \in Environments : TRUE
          /\ tel = CHOOSE t \in Telemetries : TRUE
          /\ db = CHOOSE p \in Pools : TRUE
          /\ dep = [c \in Checks |-> "up"]

Gone ==
    /\ \/ binary = "serve" /\ stage = "exited"
       \/ binary = "migrate" /\ \A c \in Commands : at[c] = "returned"
    /\ UNCHANGED <<vars, migrationVars, binary>>

Next ==
    \/ binary = "serve" /\ BootNext /\ UNCHANGED <<migrationVars, binary>>
    \/ binary = "migrate" /\ MigrationNext /\ UNCHANGED <<vars, binary>>
    \/ Gone

Spec == Init /\ [][Next]_<<vars, migrationVars, binary>> /\ BootFairness

=============================================================================
