------------------------------ MODULE Delivery ------------------------------
(***************************************************************************)
(* One run on its way to a deployment: dispatches, selections, harvests,   *)
(* merges and webhooks share its row, its chain, its branch and its pull   *)
(* requests.  The live runner, which POST live-e2e and a labelled issue    *)
(* start, creates, dispatches and harvests a run by itself.                *)
(***************************************************************************)
EXTENDS Harvest, MergeAndDeploy

CONSTANT Issues   \* the live runs that an issue sets off

ASSUME IssuesAssumption == Issues \subseteq LiveRuns

VARIABLES live   \* where each live run is

vars == <<deliveryVars, faults, workload, sequenceVars, tournamentVars, harvest,
          mergeVars, live>>

TypeOK ==
  /\ DeliveryTypeOK /\ SequenceTypeOK /\ TournamentTypeOK /\ HarvestTypeOK
  /\ MergeTypeOK
  /\ live \in [LiveRuns -> {"idle", "launch", "dispatched", "harvesting", "failed"}]

Init ==
  /\ DeliveryInit /\ SequenceInit /\ TournamentInit /\ HarvestInit /\ MergeInit
  /\ live = [l \in LiveRuns |-> "idle"]

-----------------------------------------------------------------------------
(* handleIssueTrigger and executeLiveRun *)

Created == [phase |-> "created", version |-> 1]
MoveLive(l, pc) == live' = [live EXCEPT ![l] = pc]
ExceptRow == UNCHANGED <<envelopes, ledger, commits, branch, pulls, trees, accepted,
                         mishaps, tournamentVars, mergeVars>>

\* An issue is admitted: its key makes a repeated webhook find the run.
AdmitIssue(l) ==
  /\ l \in workload \cap Issues /\ live[l] = "idle"
  /\ \/ /\ NoFault /\ MoveLive(l, "launch")
        /\ run' = IF run.phase = "none" THEN Created ELSE run
     \/ /\ Fault /\ MoveLive(l, "failed")
        /\ run' \in {run, IF run.phase = "none" THEN Created ELSE run}
  /\ ExceptRow /\ UNCHANGED <<work, harvest>>

\* The id is the primary key of factory_runs.
CanCreate == run.phase = "none"

\* The live runner inserts the run it is given, and dispatches it.
LaunchLiveRun(l, plan, body) ==
  /\ l \in workload
  /\ IF l \in Issues THEN live[l] = "launch" ELSE live[l] = "idle"
  /\ \/ /\ NoFault /\ CanCreate
        /\ run' = IF run.phase = "none" THEN Created ELSE run
        /\ work' = [work EXCEPT ![l] = [NoWork EXCEPT
             !.pc = "provision", !.left = plan, !.row = Created, !.body = body]]
        /\ MoveLive(l, "dispatched")
     \/ NoFault /\ ~CanCreate /\ MoveLive(l, "failed") /\ UNCHANGED <<run, work>>
     \/ /\ Fault /\ MoveLive(l, "failed") /\ UNCHANGED work
        /\ run' \in {run, IF run.phase = "none" THEN Created ELSE run}
  /\ ExceptRow /\ UNCHANGED harvest

\* A dispatch that ended well is harvested.
HarvestLiveRun(l) ==
  /\ live[l] = "dispatched" /\ work[l].pc = "done"
  /\ MoveLive(l, "harvesting")
  /\ harvest' = [harvest EXCEPT ![l].pc = "run"]
  /\ NoFault /\ ExceptRow /\ UNCHANGED <<run, work>>

LiveNext ==
  \E l \in LiveRuns :
    \/ AdmitIssue(l)
    \/ \E plan \in PlansOf[l], body \in BodiesOf[l] : LaunchLiveRun(l, plan, body)
    \/ HarvestLiveRun(l)

Next ==
  /\ UNCHANGED workload
  /\ \/ SequenceNext /\ UNCHANGED <<tournamentVars, harvest, mergeVars, live>>
     \/ TournamentNext /\ UNCHANGED <<sequenceVars, harvest, mergeVars, live>>
     \/ HarvestNext /\ UNCHANGED <<sequenceVars, tournamentVars, mergeVars, live>>
     \/ MergeNext /\ UNCHANGED <<sequenceVars, tournamentVars, harvest, live>>
     \/ LiveNext

Spec == Init /\ [][Next]_vars

-----------------------------------------------------------------------------
\* "5. Dispatches execution via LiveSandboxRunner": the run of an issue whose
\* trigger has been through the live runner is, or has been, dispatched.
IssueRunIsDispatched ==
  \A l \in Issues : live[l] \notin {"idle", "launch"} => work[l].pc # "idle"
=============================================================================
