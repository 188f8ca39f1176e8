------------------------------ MODULE Harvest ------------------------------
(***************************************************************************)
(* From a run that is clean_terminated to a pull request (core/harvest.ts, *)
(* core/liveRunner.ts, the harvest handlers of server.ts).  A harvest      *)
(* reads the run, the arms and the phase envelopes one after the other,    *)
(* has the tree it finds signed, authorizes it, commits it, records that,  *)
(* pushes the commit, opens the pull request and records that.             *)
(***************************************************************************)
EXTENDS PhaseSequence, Tournament

CONSTANTS
  Reviews,     \* POST harvest: the client has seen a proposal and signed it
  Approvals    \* POST quick-approve: the server signs what it finds

Harvests == Reviews \cup Approvals \cup LiveRuns

VARIABLES harvest   \* where each harvest is; latest, late and blind are auxiliary

Unsigned == <<"unsigned">>

\* 4b825dc, the tree without a file.
EmptyTree == <<"empty">>

NoHarvest ==
  [pc |-> "idle", row |-> [phase |-> "none", version |-> 1], arm |-> NoArm,
   tree |-> NoTree, signed |-> Unsigned, blind |-> FALSE, late |-> FALSE,
   latest |-> ParentTree, commit |-> 0, real |-> TRUE, pull |-> 0]

HarvestTypeOK ==
  \A h \in Harvests :
    /\ harvest[h].pc \in {"idle", "run", "arms", "envelopes", "signed",
         "authorize", "commit", "record", "push", "open", "report", "done",
         "failed"}
    /\ harvest[h].commit \in 0..Len(commits)
    /\ harvest[h].pull \in 0..Len(pulls)
    /\ harvest[h].arm \in ArmIds \cup {NoArm}

HarvestInit == harvest = [h \in Harvests |-> NoHarvest]

-----------------------------------------------------------------------------
Be(h, l) == harvest' = [harvest EXCEPT ![h] = l]
Step(h, pc) == Be(h, [harvest[h] EXCEPT !.pc = pc])
Is(h, pc) == harvest[h].pc = pc

\* A harvest is requested, or the client that signed a proposal posts it: it
\* is prepared anew.
RequestHarvest(h) ==
  /\ h \in workload \ LiveRuns
  /\ Is(h, "idle") \/ Is(h, "signed")
  /\ Be(h, [NoHarvest EXCEPT !.pc = "run", !.signed = harvest[h].signed])
  /\ NoFault /\ UNCHANGED deliveryVars

(* prepareHarvestProposal *)

ReadRun(h) ==
  /\ Is(h, "run")
  /\ \/ /\ NoFault /\ run.phase # "none"
        /\ Be(h, [harvest[h] EXCEPT !.row = run, !.pc =
                    IF h \in LiveRuns THEN "envelopes" ELSE "arms"])
     \/ NoFault /\ run.phase = "none" /\ Step(h, "failed")
     \/ Fault /\ Step(h, "failed")
  /\ UNCHANGED deliveryVars

\* The first winner on the list.  A failed read counts as no arms, and arms
\* without a winner block the proposal but not the harvest.
ReadArms(h) ==
  /\ Is(h, "arms")
  /\ \/ /\ NoFault
        /\ LET a == IF Winners = {} THEN NoArm ELSE Min(Winners) IN
           Be(h, [harvest[h] EXCEPT !.pc = "envelopes", !.arm = a,
                    !.tree = IF a = NoArm THEN NoTree ELSE arms[a].tree])
     \/ Fault /\ Be(h, [harvest[h] EXCEPT !.pc = "envelopes", !.blind = TRUE])
  /\ UNCHANGED deliveryVars

WithTree == {e \in 1..Len(envelopes) : envelopes[e].tree # NoTree}

\* Mutant: the first tree is taken and not the last.
FirstTree(h) ==
  IF harvest[h].tree # NoTree THEN harvest[h].tree
  ELSE IF WithTree = {} THEN ParentTree ELSE envelopes[Min(WithTree)].tree

\* The winner's tree; without one, the last a phase has left.
AcceptedTree(h) ==
  IF harvest[h].tree # NoTree THEN harvest[h].tree
  ELSE IF WithTree = {} THEN ParentTree ELSE envelopes[Max(WithTree)].tree

\* The proposal is complete; the evidence, which it reads last, holds no
\* record of the gates it looks for (no component writes one).  The server
\* signs its own proposal, the client of a review its first.
Proposed(h, tree, blind) ==
  LET l == harvest[h]
      isFirst == h \in Reviews /\ l.signed = Unsigned IN
  Be(h, [l EXCEPT
    !.pc = IF isFirst THEN "signed" ELSE "authorize",
    !.tree = tree,
    !.signed = IF h \notin Reviews \/ isFirst THEN tree ELSE l.signed,
    !.late = run # l.row,
    !.latest = accepted,
    !.blind = \/ l.blind \/ blind \/ mishaps # {}
              \/ \E d \in Dispatches : work[d].pc = "outputs"])

\* A failed read counts as no envelopes.
ReadEnvelopes(h) ==
  /\ Is(h, "envelopes")
  /\ \/ NoFault /\ Proposed(h, AcceptedTree(h), FALSE)
     \/ /\ Fault
        /\ Proposed(h, IF harvest[h].tree # NoTree THEN harvest[h].tree
                       ELSE ParentTree, TRUE)
  /\ UNCHANGED deliveryVars

(* authorizeHarvest *)

\* Mutant: the phase of the run is not asked for.
SignatureOnly(h) == harvest[h].signed = harvest[h].tree

\* The run was clean_terminated when it was read, and the signature is one of
\* the tree as it is found now.
IsAuthorized(h) ==
  /\ harvest[h].row.phase = "clean_terminated"
  /\ harvest[h].signed = harvest[h].tree

\* The live runner goes by its own proposal and records no authorization.
AuthorizeHarvest(h) ==
  /\ Is(h, "authorize")
  /\ \/ /\ IsAuthorized(h) /\ h \notin LiveRuns
        /\ \/ Recorded("authorized", 0) /\ Step(h, "commit")
           \/ RecordThrows("authorized", 0) /\ Step(h, "failed")
     \/ /\ IsAuthorized(h) /\ h \in LiveRuns
        /\ NoFault /\ Step(h, "commit") /\ UNCHANGED ledger
     \/ ~IsAuthorized(h) /\ NoFault /\ Step(h, "failed") /\ UNCHANGED ledger
  /\ ExceptLedger

(* commitHarvestRef *)

\* git resolves the tree, then the parent's, and takes the empty one in the
\* end: a failed request leads on, as does a tree that is no object.
ResolvedTree(tree, failed) ==
  <<tree, ParentTree, EmptyTree>>[failed + IF tree \in Objects THEN 1 ELSE 2]

\* If git fails to make the commit, or a ref, a hash stands for the commit,
\* which no repository holds.  failed is auxiliary.
CommitTree(h) ==
  /\ Is(h, "commit") /\ Len(commits) < MaxCommits
  /\ \E failed \in 0..2, real \in BOOLEAN :
       /\ harvest[h].tree \notin Objects => failed < 2
       /\ Faults(failed + IF real THEN 0 ELSE 1)
       /\ Be(h, [harvest[h] EXCEPT !.pc = "record", !.commit = Len(commits) + 1,
                                   !.real = real])
       /\ LET l == harvest[h] IN
          commits' = Append(commits,
            [claims |-> l.tree, arm |-> l.arm, failed |-> failed > 0,
             holds |-> ResolvedTree(l.tree, failed),
             blind |-> l.blind, late |-> l.late, latest |-> l.latest])
  /\ UNCHANGED <<run, envelopes, ledger, branch, pulls>>

\* Mutant of RecordCommit: the commit is pushed whether it is on record or not.
RecordCommitOrGoOn(h) ==
  /\ Is(h, "record")
  /\ \/ Recorded("committed", harvest[h].commit) /\ Step(h, "push")
     \/ RecordThrows("committed", harvest[h].commit) /\ Step(h, "push")
  /\ ExceptLedger

RecordCommit(h) ==
  /\ Is(h, "record")
  /\ \/ Recorded("committed", harvest[h].commit) /\ Step(h, "push")
     \/ RecordThrows("committed", harvest[h].commit) /\ Step(h, "failed")
  /\ ExceptLedger

\* The branch is forced to the commit, by git push or through the API: an
\* open pull request follows it, whatever was approved of it.
Push(h) ==
  /\ branch' = harvest[h].commit
  /\ pulls' = [p \in DOMAIN pulls |->
       IF Opened(p) /\ pulls[p].approvals # {}
       THEN [pulls[p] EXCEPT !.repushed = TRUE] ELSE pulls[p]]

PushBranch(h) ==
  /\ Is(h, "push")
  /\ \/ NoFault /\ harvest[h].real /\ Push(h) /\ Step(h, "open")
     \/ NoFault /\ ~harvest[h].real /\ Step(h, "report") /\ UNCHANGED <<branch, pulls>>
     \/ /\ Fault /\ Step(h, "report")
        /\ UNCHANGED <<branch, pulls>> \/ (harvest[h].real /\ Push(h))
  /\ ExceptGitHub

OpenPullRequest(h) ==
  /\ Is(h, "open")
  /\ \/ \E n \in PullIds :
          /\ CreatePull(n)
          /\ Be(h, [harvest[h] EXCEPT !.pc = "report", !.pull = n])
     \/ CreatePullFails /\ Step(h, "report")
  /\ ExceptGitHub

\* What came of it goes on record: with a number only if there is one.
RecordPullRequest(h) ==
  /\ Is(h, "report")
  /\ \/ Recorded("published", harvest[h].pull) /\ Step(h, "done")
     \/ RecordThrows("published", harvest[h].pull) /\ Step(h, "failed")
  /\ ExceptLedger

HarvestStep(h) ==
  \/ RequestHarvest(h) \/ ReadRun(h) \/ ReadArms(h) \/ ReadEnvelopes(h)
  \/ AuthorizeHarvest(h) \/ CommitTree(h) \/ RecordCommit(h) \/ PushBranch(h)
  \/ OpenPullRequest(h) \/ RecordPullRequest(h)

HarvestNext == \E h \in Harvests : HarvestStep(h)

-----------------------------------------------------------------------------
\* What a harvest commits is the run's parent tree, that of an arm, or the
\* output of a phase that passed its gate and ended in clean_terminated; of
\* one that passed its gate only if a dispatch began while the harvest was
\* being prepared.  The commit holds that tree, or the parent's if it is no
\* object of the repository; another only if a request to git has failed.
HarvestedTreeIsAttested ==
  \A c \in 1..Len(commits) :
    LET tree == commits[c].claims IN
    /\ \/ tree = ParentTree
       \/ commits[c].arm # NoArm /\ arms[commits[c].arm].tree = tree
       \/ [of |-> tree, at |-> "clean_terminated"] \in trees
       \/ commits[c].late /\ \E t \in trees : t.of = tree
    /\ \/ commits[c].holds = IF tree \in Objects THEN tree ELSE ParentTree
       \/ commits[c].failed /\ commits[c].holds \in {ParentTree, EmptyTree}

\* Without a winner, it is the output of the last phase that ended well,
\* unless a read failed, outputs were lost or not yet on record, or erased
\* because the phase was dispatched again, or a dispatch began meanwhile.
LatestTreeIsHarvested ==
  \A c \in 1..Len(commits) :
    LET l == commits[c] IN
    l.arm = NoArm => l.claims = l.latest \/ l.late \/ l.blind
=============================================================================
