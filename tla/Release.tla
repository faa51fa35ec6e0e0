------------------------------ MODULE Release ------------------------------
(***************************************************************************)
(* scripts/tag.sh: one version of every module of the repository, tagged   *)
(* and pushed by releasers who each have a clone of their own.             *)
(*                                                                         *)
(* The script checks every module, then tags every module, then pushes     *)
(* every tag, and any command of it may fail or be interrupted.  git,      *)
(* origin and the module proxy are external: a tag that origin has is not  *)
(* moved by a push, and the proxy keeps for ever what it once served.  In  *)
(* between runs a releaser may commit, and clear tags away by hand; nobody *)
(* does while a run is in progress.  A loop's modules are taken in any     *)
(* order, the sorted one among them.                                       *)
(***************************************************************************)
CONSTANTS Releasers, \* the clones
          Commits,   \* what may be released
          Modules,   \* the modules of the repository, at any commit
          ModulesOf, \* those a commit has a go.mod of
          NoTag

ASSUME ReleaseAssumption ==
    /\ NoTag \notin Commits
    /\ ModulesOf \in [Commits -> SUBSET Modules]

VARIABLES head,    \* the commit each clone is at
          local,   \* the commit each clone's tag of a module is on
          origin,  \* and origin's
          served,  \* the commit the proxy serves a module's version from
          at,      \* where each clone's run is, or how the last one ended
          pushing, \* it was given --push
          todo,    \* the modules its loop has left
          blind,   \* auxiliary: modules checked while the proxy did not answer
          wrote,   \* auxiliary: the clones whose run has made a tag
          advised  \* auxiliary: the clones told how to publish, and not touched since

vars == <<head, local, origin, served, at, pushing, todo, blind, wrote, advised>>

Running == {"checking", "tagging", "pushing"}
Places  == Running \cup {"new", "refused", "exists locally", "tagged", "published", "failed"}
Tags    == [Modules -> Commits \cup {NoTag}]

Init ==
    /\ head \in [Releasers -> Commits]
    /\ local = [r \in Releasers |-> [m \in Modules |-> NoTag]]
    /\ origin = [m \in Modules |-> NoTag]
    /\ served = [m \in Modules |-> NoTag]
    /\ at = [r \in Releasers |-> "new"]
    /\ pushing = [r \in Releasers |-> FALSE]
    /\ todo = [r \in Releasers |-> {}]
    /\ blind = {}
    /\ wrote = {}
    /\ advised = {}

-----------------------------------------------------------------------------
(***************************************************************************)
(* The script.                                                             *)
(***************************************************************************)

To(r, place) == at' = [at EXCEPT ![r] = place]

\* The run is over.
End(r, how) ==
    /\ To(r, how)
    /\ todo' = [todo EXCEPT ![r] = {}]

\* The run goes on, its loop over, to a loop over every module of the commit.
NextLoop(r, place) ==
    /\ To(r, place)
    /\ todo' = [todo EXCEPT ![r] = ModulesOf[head[r]]]

\* Called with a version or not, and with --push or not, in a tree that is
\* clean or not.
Start(r, push, proper, clean) ==
    /\ at[r] \notin Running
    /\ pushing' = [pushing EXCEPT ![r] = push]
    /\ wrote' = wrote \ {r}
    /\ IF proper /\ clean THEN NextLoop(r, "checking") ELSE End(r, "refused")
    /\ UNCHANGED <<head, local, origin, served, blind, advised>>

\* published(): the proxy lists the version.  One that cannot be reached is a
\* warning and no more.
PublishedUnasked(m, reachable) == FALSE

Published(m, reachable) == reachable /\ served[m] # NoTag

\* One loop for the check and the tag.
CheckTagging(r, m, remote, reachable) ==
    /\ at[r] = "checking"
    /\ m \in todo[r]
    /\ IF local[r][m] # NoTag \/ (remote /\ origin[m] # NoTag) \/ Published(m, reachable)
       THEN End(r, "refused") /\ UNCHANGED <<local, wrote>>
       ELSE /\ todo' = [todo EXCEPT ![r] = @ \ {m}]
            /\ local' = [local EXCEPT ![r][m] = head[r]]
            /\ wrote' = wrote \cup {r}
            /\ UNCHANGED at
    /\ UNCHANGED <<head, origin, served, pushing, blind, advised>>

\* One module of the check loop; ls-remote that fails finds nothing.
Check(r, m, remote, reachable) ==
    /\ at[r] = "checking"
    /\ m \in todo[r]
    /\ IF local[r][m] # NoTag THEN End(r, "exists locally") /\ UNCHANGED blind
       ELSE IF (remote /\ origin[m] # NoTag) \/ Published(m, reachable)
       THEN End(r, "refused") /\ UNCHANGED blind
       ELSE /\ todo' = [todo EXCEPT ![r] = @ \ {m}]
            /\ blind' = IF reachable THEN blind ELSE blind \cup {m}
            /\ UNCHANGED at
    /\ UNCHANGED <<head, local, origin, served, pushing, wrote, advised>>

EndCheck(r) ==
    /\ at[r] = "checking"
    /\ todo[r] = {}
    /\ NextLoop(r, "tagging")
    /\ UNCHANGED <<head, local, origin, served, pushing, blind, wrote, advised>>

\* git tag -a: on the commit the clone is at.
Tag(r, m) ==
    /\ at[r] = "tagging"
    /\ m \in todo[r]
    /\ local[r][m] = NoTag
    /\ local' = [local EXCEPT ![r][m] = head[r]]
    /\ todo' = [todo EXCEPT ![r] = @ \ {m}]
    /\ wrote' = wrote \cup {r}
    /\ UNCHANGED <<head, origin, served, at, pushing, blind, advised>>

\* Without --push: what to do next is printed, and that is all.
Advise(r) ==
    /\ at[r] = "tagging" /\ todo[r] = {}
    /\ ~pushing[r]
    /\ To(r, "tagged")
    /\ advised' = advised \cup {r}
    /\ UNCHANGED <<head, local, origin, served, pushing, todo, blind, wrote>>

BeginPush(r) ==
    /\ at[r] = "tagging" /\ todo[r] = {}
    /\ pushing[r]
    /\ NextLoop(r, "pushing")
    /\ UNCHANGED <<head, local, origin, served, pushing, blind, wrote, advised>>

\* git push of one tag.  One that origin has, and is not this, is rejected.
Push(r, m) ==
    /\ at[r] = "pushing"
    /\ m \in todo[r]
    /\ IF origin[m] = NoTag
       THEN /\ origin' = [origin EXCEPT ![m] = local[r][m]]
            /\ todo' = [todo EXCEPT ![r] = @ \ {m}]
            /\ UNCHANGED at
       ELSE End(r, "failed") /\ UNCHANGED origin
    /\ UNCHANGED <<head, local, served, pushing, blind, wrote, advised>>

EndPush(r) ==
    /\ at[r] = "pushing"
    /\ todo[r] = {}
    /\ End(r, "published")
    /\ UNCHANGED <<head, local, origin, served, pushing, blind, wrote, advised>>

\* set -e and pipefail: a command failed, or the run was interrupted.
Abort(r) ==
    /\ at[r] \in Running
    /\ End(r, "failed")
    /\ UNCHANGED <<head, local, origin, served, pushing, blind, wrote, advised>>

-----------------------------------------------------------------------------
(***************************************************************************)
(* Around it.                                                              *)
(***************************************************************************)

Quiet == \A r \in Releasers : at[r] \notin Running

\* The clone is left as it is between two runs, but for what a hand does.
ByHand(r) ==
    /\ at[r] \notin Running
    /\ To(r, "new")
    /\ pushing' = [pushing EXCEPT ![r] = FALSE]
    /\ wrote' = wrote \ {r}
    /\ advised' = advised \ {r}
    /\ UNCHANGED <<origin, served, todo, blind>>

\* A commit is made, or checked out.
Work(r, c) ==
    /\ ByHand(r)
    /\ head' = [head EXCEPT ![r] = c]
    /\ UNCHANGED local

\* git tag -d.
ClearLocal(r) ==
    /\ ByHand(r)
    /\ local' = [local EXCEPT ![r] = [m \in Modules |-> NoTag]]
    /\ UNCHANGED head

\* git push --delete.
ClearOrigin ==
    /\ Quiet
    /\ origin' = [m \in Modules |-> NoTag]
    /\ at' = [r \in Releasers |-> "new"]
    /\ UNCHANGED <<head, local, served, pushing, todo, blind, wrote, advised>>

\* Somebody's go get: the proxy fetches a version origin has, and seals it.
Serve(m) ==
    /\ origin[m] # NoTag
    /\ served[m] = NoTag
    /\ served' = [served EXCEPT ![m] = origin[m]]
    /\ UNCHANGED <<head, local, origin, at, pushing, todo, blind, wrote, advised>>

Next ==
    \/ \E r \in Releasers, push, proper, clean \in BOOLEAN : Start(r, push, proper, clean)
    \/ \E r \in Releasers, m \in Modules, remote, reachable \in BOOLEAN :
          Check(r, m, remote, reachable)
    \/ \E r \in Releasers, m \in Modules : Tag(r, m)
    \/ \E r \in Releasers, m \in Modules : Push(r, m)
    \/ \E r \in Releasers :
          EndCheck(r) \/ Advise(r) \/ BeginPush(r) \/ EndPush(r) \/ Abort(r)
    \/ \E r \in Releasers, c \in Commits : Work(r, c)
    \/ \E r \in Releasers : ClearLocal(r)
    \/ ClearOrigin
    \/ \E m \in Modules : Serve(m)

Spec == Init /\ [][Next]_vars

-----------------------------------------------------------------------------
\* The variables have their types, and only a run that runs has a loop left.
TypeOK ==
    /\ head \in [Releasers -> Commits]
    /\ local \in [Releasers -> Tags]
    /\ origin \in Tags
    /\ served \in Tags
    /\ at \in [Releasers -> Places]
    /\ pushing \in [Releasers -> BOOLEAN]
    /\ todo \in [Releasers -> SUBSET Modules]
    /\ blind \subseteq Modules
    /\ wrote \subseteq Releasers
    /\ advised \subseteq Releasers

\* A release is whole or was never begun by the check: a run that says it
\* published has every module of its commit on origin at that commit, a run
\* that refused left its clone's tags as they were, and one told to publish has
\* tagged every module (tag.sh:50-51, 53-88).
WholeOrRefused ==
    \A r \in Releasers :
        /\ at[r] = "published" => \A m \in ModulesOf[head[r]] : origin[m] = head[r]
        /\ at[r] = "tagged" => \A m \in ModulesOf[head[r]] : local[r][m] = head[r]
        /\ at[r] \in {"refused", "exists locally"} => r \notin wrote

\* What origin has is what the proxy sealed, however often a release was
\* cleared away and made again from another commit and by another clone, unless
\* the proxy could not be asked when the module was checked (tag.sh:36-46).
SealedIsKept ==
    \A m \in Modules \ blind :
        origin[m] # NoTag /\ served[m] # NoTag => origin[m] = served[m]

\* A releaser who does what the run that tagged printed publishes: nothing the
\* advising run did refuses it (tag.sh:85-87).
AdvicePublishes ==
    \A r \in advised : at[r] = "exists locally" => ~pushing[r]

=============================================================================
