---------------------------- MODULE ReleaseProofs ----------------------------
(***************************************************************************)
(* What tag.sh promises, for any clones, commits and modules.              *)
(*                                                                         *)
(* The invariant behind it follows one run through its three loops: every  *)
(* module the check is done with was not served, or has come to origin     *)
(* since, or was checked blind; every tag made, and then every tag pushed, *)
(* is on the commit of the run.  Origin is not cleared while a run is in   *)
(* progress, so a push that is accepted is of a version nobody serves.     *)
(***************************************************************************)
EXTENDS Release, TLAPS

\* A loop is over modules of the commit, and there is one only in a run.
LoopsOverModules ==
    \A r \in Releasers :
        /\ todo[r] \subseteq ModulesOf[head[r]]
        /\ at[r] \notin Running => todo[r] = {}

\* The modules the check of r's run is done with.
Past(r) == IF at[r] = "checking" THEN ModulesOf[head[r]] \ todo[r] ELSE ModulesOf[head[r]]

\* None of them is served without being on origin, but for those checked blind.
PastIsUnserved ==
    \A r \in Releasers : at[r] \in Running =>
        \A m \in Past(r) : m \in blind \/ served[m] = NoTag \/ origin[m] # NoTag

\* What r's run has tagged is tagged at its commit.
TaggedAtHead ==
    \A r \in Releasers :
        /\ at[r] = "tagging" =>
              \A m \in ModulesOf[head[r]] \ todo[r] : local[r][m] = head[r]
        /\ at[r] = "pushing" => \A m \in ModulesOf[head[r]] : local[r][m] = head[r]

\* And so is what it has pushed.
PushedAtHead ==
    \A r \in Releasers : at[r] = "pushing" =>
        \A m \in ModulesOf[head[r]] \ todo[r] : origin[m] = head[r]

\* A run that checks has written nothing yet.
CheckWritesNothing == \A r \in Releasers : at[r] = "checking" => r \notin wrote

IInv ==
    /\ TypeOK
    /\ LoopsOverModules
    /\ PastIsUnserved
    /\ TaggedAtHead
    /\ PushedAtHead
    /\ CheckWritesNothing
    /\ WholeOrRefused
    /\ SealedIsKept

-----------------------------------------------------------------------------
LEMMA InitIInv == Init => IInv
<1> SUFFICES ASSUME Init PROVE IInv
  OBVIOUS
<1> USE ReleaseAssumption DEF Init
<1>1. TypeOK
  BY DEF TypeOK, Tags, Places, Running
<1>2. LoopsOverModules /\ PastIsUnserved /\ TaggedAtHead /\ PushedAtHead /\ CheckWritesNothing
  BY DEF LoopsOverModules, PastIsUnserved, TaggedAtHead, PushedAtHead, CheckWritesNothing, Running
<1>3. WholeOrRefused /\ SealedIsKept
  BY DEF WholeOrRefused, SealedIsKept
<1> QED BY <1>1, <1>2, <1>3 DEF IInv

\* What one module of the check loop comes to: the run is refused, or goes on
\* past a module that is not served or was checked blind.
LEMMA CheckEffect ==
  ASSUME NEW r \in Releasers, NEW m \in Modules, NEW remote \in BOOLEAN,
         NEW reachable \in BOOLEAN, Check(r, m, remote, reachable)
  PROVE  /\ at[r] = "checking" /\ m \in todo[r]
         /\ UNCHANGED <<head, local, origin, served, pushing, wrote, advised>>
         /\ \/ /\ \/ at' = [at EXCEPT ![r] = "refused"]
                 \/ at' = [at EXCEPT ![r] = "exists locally"]
               /\ todo' = [todo EXCEPT ![r] = {}]
               /\ UNCHANGED blind
            \/ /\ todo' = [todo EXCEPT ![r] = @ \ {m}]
               /\ UNCHANGED at
               /\ \/ blind' = blind /\ served[m] = NoTag
                  \/ blind' = blind \cup {m}
<1>1. CASE reachable = TRUE
  BY <1>1, Zenon DEF Check, Published, End, To
<1>2. CASE reachable = FALSE
  BY <1>2, Zenon DEF Check, Published, End, To
<1> QED BY <1>1, <1>2

\* Every step keeps the types.
LEMMA NextTypeOK == TypeOK /\ LoopsOverModules /\ [Next]_vars => TypeOK'
<1> SUFFICES ASSUME TypeOK, LoopsOverModules, [Next]_vars PROVE TypeOK'
  OBVIOUS
<1>1. ASSUME NEW r \in Releasers, NEW push \in BOOLEAN, NEW proper \in BOOLEAN,
             NEW clean \in BOOLEAN, Start(r, push, proper, clean)
      PROVE  TypeOK'
  BY <1>1, ReleaseAssumption DEF Start, NextLoop, End, To, TypeOK, Tags, Places, Running, LoopsOverModules
<1>2. ASSUME NEW r \in Releasers, NEW m \in Modules, NEW remote \in BOOLEAN,
             NEW reachable \in BOOLEAN, Check(r, m, remote, reachable)
      PROVE  TypeOK'
  <2>0. /\ \/ at' = [at EXCEPT ![r] = "refused"]
           \/ at' = [at EXCEPT ![r] = "exists locally"]
           \/ at' = at
        /\ \/ todo' = [todo EXCEPT ![r] = {}]
           \/ todo' = [todo EXCEPT ![r] = @ \ {m}]
        /\ blind' = blind \/ blind' = blind \cup {m}
    BY <1>2, CheckEffect
  <2>1. /\ at' \in [Releasers -> Places] /\ todo' \in [Releasers -> SUBSET Modules]
        /\ blind' \subseteq Modules
    BY <2>0 DEF TypeOK, Places
  <2>2. UNCHANGED <<head, local, origin, served, pushing, wrote, advised>>
    BY <1>2, CheckEffect
  <2> QED BY <2>1, <2>2 DEF TypeOK
<1>3. ASSUME NEW r \in Releasers, NEW m \in Modules, Tag(r, m) PROVE TypeOK'
  BY <1>3, ReleaseAssumption DEF Tag, TypeOK, Tags, Places, Running, LoopsOverModules
<1>4. ASSUME NEW r \in Releasers, NEW m \in Modules, Push(r, m) PROVE TypeOK'
  <2>1. CASE origin[m] = NoTag
    <3>1. /\ origin' = [origin EXCEPT ![m] = local[r][m]]
          /\ todo' = [todo EXCEPT ![r] = @ \ {m}]
          /\ UNCHANGED <<head, local, served, at, pushing, blind, wrote, advised>>
      BY <1>4, <2>1 DEF Push
    <3> QED BY <3>1 DEF TypeOK, Tags
  <2>2. CASE origin[m] # NoTag
    BY <1>4, <2>2 DEF Push, End, To, TypeOK, Places
  <2> QED BY <2>1, <2>2
<1>5. ASSUME NEW r \in Releasers,
             EndCheck(r) \/ Advise(r) \/ BeginPush(r) \/ EndPush(r) \/ Abort(r)
      PROVE  TypeOK'
  BY <1>5, ReleaseAssumption DEF EndCheck, Advise, BeginPush, EndPush, Abort, NextLoop, End, To, TypeOK, Tags, Places, Running, LoopsOverModules
<1>6. ASSUME NEW r \in Releasers, NEW c \in Commits, Work(r, c) PROVE TypeOK'
  BY <1>6, ReleaseAssumption DEF Work, ByHand, To, TypeOK, Tags, Places, Running, LoopsOverModules
<1>7. ASSUME NEW r \in Releasers, ClearLocal(r) PROVE TypeOK'
  BY <1>7, ReleaseAssumption DEF ClearLocal, ByHand, To, TypeOK, Tags, Places, Running, LoopsOverModules
<1>8. CASE ClearOrigin
  BY <1>8, ReleaseAssumption DEF ClearOrigin, TypeOK, Tags, Places, Running, LoopsOverModules
<1>9. ASSUME NEW m \in Modules, Serve(m) PROVE TypeOK'
  BY <1>9, ReleaseAssumption DEF Serve, TypeOK, Tags, Places, Running, LoopsOverModules
<1>10. CASE UNCHANGED vars
  BY <1>10, ReleaseAssumption DEF vars, TypeOK, Tags, Places, Running, LoopsOverModules
<1> QED BY <1>1, <1>2, <1>3, <1>4, <1>5, <1>6, <1>7, <1>8, <1>9, <1>10 DEF Next

\* Every step keeps the invariant.
LEMMA NextIInv == IInv /\ [Next]_vars => IInv'
<1> SUFFICES ASSUME IInv, [Next]_vars PROVE IInv'
  OBVIOUS
<1>0. TypeOK'
  BY NextTypeOK DEF IInv
<1> DEFINE Rest == /\ LoopsOverModules /\ PastIsUnserved /\ TaggedAtHead /\ PushedAtHead
                   /\ CheckWritesNothing /\ WholeOrRefused /\ SealedIsKept
<1> SUFFICES Rest'
  BY <1>0 DEF IInv
<1>T. /\ head \in [Releasers -> Commits]
      /\ at \in [Releasers -> Places]
      /\ todo \in [Releasers -> SUBSET Modules]
      /\ local \in [Releasers -> [Modules -> Commits \cup {NoTag}]]
      /\ origin \in [Modules -> Commits \cup {NoTag}]
      /\ served \in [Modules -> Commits \cup {NoTag}]
      /\ ModulesOf \in [Commits -> SUBSET Modules]
      /\ NoTag \notin Commits
      /\ \A q \in Releasers : ModulesOf[head[q]] \subseteq Modules
  BY ReleaseAssumption DEF IInv, TypeOK, Tags
<1>A. /\ TypeOK /\ LoopsOverModules /\ PastIsUnserved /\ TaggedAtHead /\ PushedAtHead
      /\ CheckWritesNothing /\ WholeOrRefused /\ SealedIsKept
  BY DEF IInv
<1>1. ASSUME NEW r \in Releasers, NEW push \in BOOLEAN, NEW proper \in BOOLEAN,
             NEW clean \in BOOLEAN, Start(r, push, proper, clean)
      PROVE  Rest'
  <2>0. /\ at[r] \notin Running
        /\ \/ /\ at' = [at EXCEPT ![r] = "refused"]
              /\ todo' = [todo EXCEPT ![r] = {}]
           \/ /\ at' = [at EXCEPT ![r] = "checking"]
              /\ todo' = [todo EXCEPT ![r] = ModulesOf[head[r]]]
        /\ wrote' = wrote \ {r}
        /\ UNCHANGED <<head, local, origin, served, blind, advised>>
    BY <1>1, Zenon DEF Start, NextLoop, End, To
  <2>1. LoopsOverModules'
    <3>1. CASE todo' = [todo EXCEPT ![r] = {}]
      BY <3>1, <2>0, <1>A, <1>T DEF LoopsOverModules, Running
    <3>2. CASE /\ at' = [at EXCEPT ![r] = "checking"]
               /\ todo' = [todo EXCEPT ![r] = ModulesOf[head[r]]]
      BY <3>2, <2>0, <1>A, <1>T DEF LoopsOverModules, Running
    <3> QED BY <3>1, <3>2, <2>0
  <2>2. PastIsUnserved'
    BY <2>0, <1>A, <1>T DEF PastIsUnserved, Past, Running
  <2>3. TaggedAtHead'
    BY <2>0, <1>A, <1>T DEF TaggedAtHead
  <2>4. PushedAtHead' /\ CheckWritesNothing'
    BY <2>0, <1>A, <1>T DEF PushedAtHead, CheckWritesNothing
  <2>5. WholeOrRefused'
    BY <2>0, <1>A, <1>T DEF WholeOrRefused
  <2>6. SealedIsKept'
    BY <2>0, <1>A, <1>T DEF SealedIsKept
  <2> QED BY <2>1, <2>2, <2>3, <2>4, <2>5, <2>6
<1>2. ASSUME NEW r \in Releasers, NEW m \in Modules, NEW remote \in BOOLEAN,
             NEW reachable \in BOOLEAN, Check(r, m, remote, reachable)
      PROVE  Rest'
  <2>0. /\ at[r] = "checking" /\ m \in todo[r]
        /\ UNCHANGED <<head, local, origin, served, pushing, wrote, advised>>
        /\ \/ /\ \/ at' = [at EXCEPT ![r] = "refused"]
                 \/ at' = [at EXCEPT ![r] = "exists locally"]
              /\ todo' = [todo EXCEPT ![r] = {}]
              /\ UNCHANGED blind
           \/ /\ todo' = [todo EXCEPT ![r] = @ \ {m}]
              /\ UNCHANGED at
              /\ \/ blind' = blind /\ served[m] = NoTag
                 \/ blind' = blind \cup {m}
    BY <1>2, CheckEffect
  <2>1. LoopsOverModules'
    <3>1. CASE UNCHANGED at
      BY <3>1, <2>0, <1>A, <1>T DEF LoopsOverModules, Running
    <3>2. CASE todo' = [todo EXCEPT ![r] = {}]
      BY <3>2, <2>0, <1>A, <1>T DEF LoopsOverModules, Running
    <3> QED BY <3>1, <3>2, <2>0
  <2>2. PastIsUnserved'
    BY <2>0, <1>A, <1>T DEF PastIsUnserved, Past, Running
  <2>3. TaggedAtHead'
    BY <2>0, <1>A, <1>T DEF TaggedAtHead
  <2>4. PushedAtHead' /\ CheckWritesNothing'
    BY <2>0, <1>A, <1>T DEF PushedAtHead, CheckWritesNothing
  <2>5. WholeOrRefused'
    BY <2>0, <1>A, <1>T DEF WholeOrRefused, CheckWritesNothing
  <2>6. SealedIsKept'
    BY <2>0, <1>A, <1>T DEF SealedIsKept
  <2> QED BY <2>1, <2>2, <2>3, <2>4, <2>5, <2>6
<1>3. ASSUME NEW r \in Releasers, NEW m \in Modules, Tag(r, m) PROVE Rest'
  <2>0. /\ at[r] = "tagging" /\ m \in todo[r]
        /\ local' = [local EXCEPT ![r] = [local[r] EXCEPT ![m] = head[r]]]
        /\ todo' = [todo EXCEPT ![r] = @ \ {m}]
        /\ wrote' = wrote \cup {r}
        /\ UNCHANGED <<head, origin, served, at, pushing, blind, advised>>
    BY <1>3 DEF Tag
  <2>1. LoopsOverModules'
    BY <2>0, <1>A, <1>T DEF LoopsOverModules, Running
  <2>2. PastIsUnserved'
    BY <2>0, <1>A, <1>T DEF PastIsUnserved, Past
  <2>3. TaggedAtHead'
    BY <2>0, <1>A, <1>T DEF TaggedAtHead
  <2>4. PushedAtHead' /\ CheckWritesNothing'
    BY <2>0, <1>A, <1>T DEF PushedAtHead, CheckWritesNothing
  <2>5. WholeOrRefused' /\ SealedIsKept'
    BY <2>0, <1>A, <1>T DEF WholeOrRefused, SealedIsKept
  <2> QED BY <2>1, <2>2, <2>3, <2>4, <2>5
<1>4. ASSUME NEW r \in Releasers, NEW m \in Modules, Push(r, m) PROVE Rest'
  \* What is pushed is on the commit of the run, and origin had none.
  <2>0. /\ at[r] = "pushing" /\ m \in todo[r] /\ m \in ModulesOf[head[r]]
        /\ \A q \in Releasers : head[q] # NoTag
        /\ \/ /\ origin[m] = NoTag
              /\ origin' = [origin EXCEPT ![m] = head[r]]
              /\ todo' = [todo EXCEPT ![r] = @ \ {m}]
              /\ UNCHANGED at
           \/ /\ origin[m] # NoTag
              /\ at' = [at EXCEPT ![r] = "failed"]
              /\ todo' = [todo EXCEPT ![r] = {}]
              /\ UNCHANGED origin
        /\ UNCHANGED <<head, local, served, blind, wrote, advised>>
    BY <1>4, <1>A, <1>T DEF Push, End, To, LoopsOverModules, TaggedAtHead
  <2>1. LoopsOverModules'
    BY <2>0, <1>A, <1>T DEF LoopsOverModules, Running
  <2>2. PastIsUnserved'
    BY <2>0, <1>A, <1>T DEF PastIsUnserved, Past, Running
  <2>3. TaggedAtHead'
    BY <2>0, <1>A, <1>T DEF TaggedAtHead
  <2>A. ASSUME origin[m] = NoTag PROVE PushedAtHead' /\ CheckWritesNothing' /\ WholeOrRefused'
    <3>0. /\ at[r] = "pushing" /\ m \in ModulesOf[head[r]]
          /\ \A q \in Releasers : head[q] # NoTag
      BY <2>0
    <3>1. /\ origin' = [origin EXCEPT ![m] = head[r]]
          /\ todo' = [todo EXCEPT ![r] = @ \ {m}]
          /\ UNCHANGED <<at, head, local, wrote>>
      BY <2>A, <2>0, <1>T
    <3>2. PushedAtHead' /\ CheckWritesNothing'
      BY <3>1, <2>0, <2>A, <1>A, <1>T DEF PushedAtHead, CheckWritesNothing
    <3>3. WholeOrRefused'
      <4> SUFFICES ASSUME NEW q \in Releasers
                   PROVE  /\ at'[q] = "published" => \A n \in ModulesOf[head'[q]] : origin'[n] = head'[q]
                          /\ at'[q] = "tagged" => \A n \in ModulesOf[head'[q]] : local'[q][n] = head'[q]
                          /\ at'[q] \in {"refused", "exists locally"} => q \notin wrote'
        BY Zenon DEF WholeOrRefused
      <4>1. /\ at[q] = "published" => \A n \in ModulesOf[head[q]] : origin[n] = head[q]
            /\ at[q] = "tagged" => \A n \in ModulesOf[head[q]] : local[q][n] = head[q]
            /\ at[q] \in {"refused", "exists locally"} => q \notin wrote
        BY <1>A, Zenon DEF WholeOrRefused
      <4> QED BY <3>1, <3>0, <2>A, <4>1, <1>T
    <3> QED BY <3>2, <3>3
  <2>B. ASSUME origin[m] # NoTag PROVE PushedAtHead' /\ CheckWritesNothing' /\ WholeOrRefused'
    <3>0. /\ at[r] = "pushing" /\ m \in ModulesOf[head[r]]
          /\ \A q \in Releasers : head[q] # NoTag
      BY <2>0
    <3>1. /\ at' = [at EXCEPT ![r] = "failed"]
          /\ todo' = [todo EXCEPT ![r] = {}]
          /\ UNCHANGED <<origin, head, local, wrote>>
      BY <2>B, <2>0
    <3>2. PushedAtHead' /\ CheckWritesNothing'
      BY <3>1, <2>0, <1>A, <1>T DEF PushedAtHead, CheckWritesNothing
    <3>3. WholeOrRefused'
      <4> SUFFICES ASSUME NEW q \in Releasers
                   PROVE  /\ at'[q] = "published" => \A n \in ModulesOf[head'[q]] : origin'[n] = head'[q]
                          /\ at'[q] = "tagged" => \A n \in ModulesOf[head'[q]] : local'[q][n] = head'[q]
                          /\ at'[q] \in {"refused", "exists locally"} => q \notin wrote'
        BY Zenon DEF WholeOrRefused
      <4>1. /\ at[q] = "published" => \A n \in ModulesOf[head[q]] : origin[n] = head[q]
            /\ at[q] = "tagged" => \A n \in ModulesOf[head[q]] : local[q][n] = head[q]
            /\ at[q] \in {"refused", "exists locally"} => q \notin wrote
        BY <1>A, Zenon DEF WholeOrRefused
      <4> QED BY <3>1, <3>0, <4>1, <1>T
    <3> QED BY <3>2, <3>3
  <2>6. SealedIsKept'
    BY <2>0, <1>A, <1>T DEF SealedIsKept, PastIsUnserved, Past, Running
  <2> QED BY <2>1, <2>2, <2>3, <2>A, <2>B, <2>6
<1>5. ASSUME NEW r \in Releasers,
             EndCheck(r) \/ Advise(r) \/ BeginPush(r) \/ EndPush(r) \/ Abort(r)
      PROVE  Rest'
  <2>1. CASE EndCheck(r)
    <3>0. /\ at[r] = "checking" /\ todo[r] = {}
          /\ at' = [at EXCEPT ![r] = "tagging"]
          /\ todo' = [todo EXCEPT ![r] = ModulesOf[head[r]]]
          /\ UNCHANGED <<head, local, origin, served, blind, wrote>>
      BY <2>1 DEF EndCheck, NextLoop, End, To
    <3>1. LoopsOverModules'
      BY <3>0, <1>A, <1>T DEF LoopsOverModules, Running
    <3>2. PastIsUnserved'
      BY <3>0, <1>A, <1>T DEF PastIsUnserved, Past, Running
    <3>3. TaggedAtHead'
      BY <3>0, <1>A, <1>T DEF TaggedAtHead
    <3>4. PushedAtHead' /\ CheckWritesNothing'
      BY <3>0, <1>A, <1>T DEF PushedAtHead, CheckWritesNothing
    <3>5. WholeOrRefused'
      BY <3>0, <1>A, <1>T DEF WholeOrRefused
    <3>6. SealedIsKept'
      BY <3>0, <1>A, <1>T DEF SealedIsKept
    <3> QED BY <3>1, <3>2, <3>3, <3>4, <3>5, <3>6
  <2>2. CASE Advise(r)
    <3>0. /\ at[r] = "tagging" /\ todo[r] = {}
          /\ at' = [at EXCEPT ![r] = "tagged"]
          /\ UNCHANGED todo
          /\ UNCHANGED <<head, local, origin, served, blind, wrote>>
      BY <2>2 DEF Advise, NextLoop, End, To
    <3>1. LoopsOverModules'
      BY <3>0, <1>A, <1>T DEF LoopsOverModules, Running
    <3>2. PastIsUnserved'
      BY <3>0, <1>A, <1>T DEF PastIsUnserved, Past, Running
    <3>3. TaggedAtHead'
      BY <3>0, <1>A, <1>T DEF TaggedAtHead
    <3>4. PushedAtHead' /\ CheckWritesNothing'
      BY <3>0, <1>A, <1>T DEF PushedAtHead, CheckWritesNothing
    <3>5. WholeOrRefused'
      BY <3>0, <1>A, <1>T DEF WholeOrRefused, TaggedAtHead
    <3>6. SealedIsKept'
      BY <3>0, <1>A, <1>T DEF SealedIsKept
    <3> QED BY <3>1, <3>2, <3>3, <3>4, <3>5, <3>6
  <2>3. CASE BeginPush(r)
    <3>0. /\ at[r] = "tagging" /\ todo[r] = {}
          /\ at' = [at EXCEPT ![r] = "pushing"]
          /\ todo' = [todo EXCEPT ![r] = ModulesOf[head[r]]]
          /\ UNCHANGED <<head, local, origin, served, blind, wrote>>
      BY <2>3 DEF BeginPush, NextLoop, End, To
    <3>1. LoopsOverModules'
      BY <3>0, <1>A, <1>T DEF LoopsOverModules, Running
    <3>2. PastIsUnserved'
      BY <3>0, <1>A, <1>T DEF PastIsUnserved, Past, Running
    <3>3. TaggedAtHead'
      BY <3>0, <1>A, <1>T DEF TaggedAtHead
    <3>4. PushedAtHead' /\ CheckWritesNothing'
      BY <3>0, <1>A, <1>T DEF PushedAtHead, CheckWritesNothing
    <3>5. WholeOrRefused'
      BY <3>0, <1>A, <1>T DEF WholeOrRefused
    <3>6. SealedIsKept'
      BY <3>0, <1>A, <1>T DEF SealedIsKept
    <3> QED BY <3>1, <3>2, <3>3, <3>4, <3>5, <3>6
  <2>4. CASE EndPush(r)
    <3>0. /\ at[r] = "pushing" /\ todo[r] = {}
          /\ at' = [at EXCEPT ![r] = "published"]
          /\ todo' = [todo EXCEPT ![r] = {}]
          /\ UNCHANGED <<head, local, origin, served, blind, wrote>>
      BY <2>4 DEF EndPush, NextLoop, End, To
    <3>1. LoopsOverModules'
      BY <3>0, <1>A, <1>T DEF LoopsOverModules, Running
    <3>2. PastIsUnserved'
      BY <3>0, <1>A, <1>T DEF PastIsUnserved, Past, Running
    <3>3. TaggedAtHead'
      BY <3>0, <1>A, <1>T DEF TaggedAtHead
    <3>4. PushedAtHead' /\ CheckWritesNothing'
      BY <3>0, <1>A, <1>T DEF PushedAtHead, CheckWritesNothing
    <3>5. WholeOrRefused'
      BY <3>0, <1>A, <1>T DEF WholeOrRefused, PushedAtHead
    <3>6. SealedIsKept'
      BY <3>0, <1>A, <1>T DEF SealedIsKept
    <3> QED BY <3>1, <3>2, <3>3, <3>4, <3>5, <3>6
  <2>5. CASE Abort(r)
    <3>0. /\ at[r] \in Running
          /\ at' = [at EXCEPT ![r] = "failed"]
          /\ todo' = [todo EXCEPT ![r] = {}]
          /\ UNCHANGED <<head, local, origin, served, blind, wrote>>
      BY <2>5 DEF Abort, NextLoop, End, To
    <3>1. LoopsOverModules'
      BY <3>0, <1>A, <1>T DEF LoopsOverModules, Running
    <3>2. PastIsUnserved'
      BY <3>0, <1>A, <1>T DEF PastIsUnserved, Past, Running
    <3>3. TaggedAtHead'
      BY <3>0, <1>A, <1>T DEF TaggedAtHead
    <3>4. PushedAtHead' /\ CheckWritesNothing'
      BY <3>0, <1>A, <1>T DEF PushedAtHead, CheckWritesNothing
    <3>5. WholeOrRefused'
      BY <3>0, <1>A, <1>T DEF WholeOrRefused
    <3>6. SealedIsKept'
      BY <3>0, <1>A, <1>T DEF SealedIsKept
    <3> QED BY <3>1, <3>2, <3>3, <3>4, <3>5, <3>6
  <2> QED BY <1>5, <2>1, <2>2, <2>3, <2>4, <2>5
<1>6. ASSUME NEW r \in Releasers, NEW c \in Commits, Work(r, c) PROVE Rest'
  <2>0. /\ at[r] \notin Running
        /\ at' = [at EXCEPT ![r] = "new"]
        /\ wrote' = wrote \ {r}
        /\ todo[r] = {}
        /\ head' = [head EXCEPT ![r] = c]
        /\ UNCHANGED <<local, origin, served, todo, blind>>
    BY <1>6, <1>A DEF Work, ByHand, To, LoopsOverModules
  <2>1. LoopsOverModules'
    BY <2>0, <1>A, <1>T DEF LoopsOverModules, Running
  <2>2. PastIsUnserved'
    BY <2>0, <1>A, <1>T DEF PastIsUnserved, Past, Running
  <2>3. TaggedAtHead'
    BY <2>0, <1>A, <1>T DEF TaggedAtHead
  <2>4. PushedAtHead' /\ CheckWritesNothing'
    BY <2>0, <1>A, <1>T DEF PushedAtHead, CheckWritesNothing
  <2>5. WholeOrRefused'
    BY <2>0, <1>A, <1>T DEF WholeOrRefused
  <2>6. SealedIsKept'
    BY <2>0, <1>A, <1>T DEF SealedIsKept
  <2> QED BY <2>1, <2>2, <2>3, <2>4, <2>5, <2>6
<1>7. ASSUME NEW r \in Releasers, ClearLocal(r) PROVE Rest'
  <2>0. /\ at[r] \notin Running
        /\ at' = [at EXCEPT ![r] = "new"]
        /\ wrote' = wrote \ {r}
        /\ local' = [local EXCEPT ![r] = [m \in Modules |-> NoTag]]
        /\ UNCHANGED <<head, origin, served, todo, blind>>
    BY <1>7 DEF ClearLocal, ByHand, To
  <2>1. LoopsOverModules'
    BY <2>0, <1>A, <1>T DEF LoopsOverModules, Running
  <2>2. PastIsUnserved'
    BY <2>0, <1>A, <1>T DEF PastIsUnserved, Past, Running
  <2>3. TaggedAtHead'
    BY <2>0, <1>A, <1>T DEF TaggedAtHead
  <2>4. PushedAtHead' /\ CheckWritesNothing'
    BY <2>0, <1>A, <1>T DEF PushedAtHead, CheckWritesNothing
  <2>5. WholeOrRefused'
    BY <2>0, <1>A, <1>T DEF WholeOrRefused
  <2>6. SealedIsKept'
    BY <2>0, <1>A, <1>T DEF SealedIsKept
  <2> QED BY <2>1, <2>2, <2>3, <2>4, <2>5, <2>6
<1>8. CASE ClearOrigin
  <2>0. /\ \A r \in Releasers : at[r] \notin Running
        /\ origin' = [m \in Modules |-> NoTag]
        /\ at' = [r \in Releasers |-> "new"]
        /\ UNCHANGED <<head, local, served, todo, blind, wrote>>
    BY <1>8 DEF ClearOrigin, Quiet
  <2>1. LoopsOverModules'
    BY <2>0, <1>A, <1>T DEF LoopsOverModules, Running
  <2>2. PastIsUnserved'
    BY <2>0, <1>A, <1>T DEF PastIsUnserved, Past, Running
  <2>3. TaggedAtHead'
    BY <2>0, <1>A, <1>T DEF TaggedAtHead
  <2>4. PushedAtHead' /\ CheckWritesNothing'
    BY <2>0, <1>A, <1>T DEF PushedAtHead, CheckWritesNothing
  <2>5. WholeOrRefused'
    BY <2>0, <1>A, <1>T DEF WholeOrRefused
  <2>6. SealedIsKept'
    BY <2>0, <1>A, <1>T DEF SealedIsKept
  <2> QED BY <2>1, <2>2, <2>3, <2>4, <2>5, <2>6
<1>9. ASSUME NEW m \in Modules, Serve(m) PROVE Rest'
  <2>0. /\ origin[m] # NoTag
        /\ served' = [served EXCEPT ![m] = origin[m]]
        /\ UNCHANGED <<head, local, origin, at, todo, blind, wrote>>
    BY <1>9 DEF Serve
  <2>1. LoopsOverModules'
    BY <2>0, <1>A, <1>T DEF LoopsOverModules, Running
  <2>2. PastIsUnserved'
    BY <2>0, <1>A, <1>T DEF PastIsUnserved, Past, Running
  <2>3. TaggedAtHead'
    BY <2>0, <1>A, <1>T DEF TaggedAtHead
  <2>4. PushedAtHead' /\ CheckWritesNothing'
    BY <2>0, <1>A, <1>T DEF PushedAtHead, CheckWritesNothing
  <2>5. WholeOrRefused'
    BY <2>0, <1>A, <1>T DEF WholeOrRefused
  <2>6. SealedIsKept'
    BY <2>0, <1>A, <1>T DEF SealedIsKept
  <2> QED BY <2>1, <2>2, <2>3, <2>4, <2>5, <2>6
<1>10. CASE UNCHANGED vars
  <2>1. UNCHANGED <<head, local, origin, served, at, pushing, todo, blind, wrote, advised>>
    BY <1>10 DEF vars
  <2>2. LoopsOverModules' /\ PastIsUnserved'
    BY <2>1, <1>A DEF LoopsOverModules, PastIsUnserved, Past
  <2>3. TaggedAtHead' /\ PushedAtHead' /\ CheckWritesNothing'
    BY <2>1, <1>A DEF TaggedAtHead, PushedAtHead, CheckWritesNothing
  <2>4. WholeOrRefused' /\ SealedIsKept'
    BY <2>1, <1>A DEF WholeOrRefused, SealedIsKept
  <2> QED BY <2>2, <2>3, <2>4
<1> QED BY <1>1, <1>2, <1>3, <1>4, <1>5, <1>6, <1>7, <1>8, <1>9, <1>10 DEF Next

\* The invariant is one.
THEOREM Invariance == Spec => []IInv
  BY InitIInv, NextIInv, PTL DEF Spec

-----------------------------------------------------------------------------
\* Release's state is what its types say; what a loop has still to do is of the
\* commit it releases (tag.sh:48-52), and a run that is over, published,
\* refused or aborted, has no loop left.
THEOREM TypeCorrect == Spec => [](TypeOK /\ LoopsOverModules)
<1>1. IInv => TypeOK /\ LoopsOverModules
  BY DEF IInv
<1> QED BY <1>1, Invariance, PTL

\* A run of tag.sh that says it published has published every module of its
\* commit, and one that refused has tagged nothing, whatever failed, was
\* interrupted or ran in another clone meanwhile.
THEOREM ReleaseIsWhole == Spec => []WholeOrRefused
<1>1. IInv => WholeOrRefused
  BY DEF IInv
<1> QED BY <1>1, Invariance, PTL

\* No version the proxy serves is published again from another commit, unless
\* the proxy did not answer when it was checked.
THEOREM SealIsKept == Spec => []SealedIsKept
<1>1. IInv => SealedIsKept
  BY DEF IInv
<1> QED BY <1>1, Invariance, PTL

=============================================================================
