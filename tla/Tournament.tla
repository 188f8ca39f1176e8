----------------------------- MODULE Tournament -----------------------------
(***************************************************************************)
(* The tournament of a run: its arms are registered, compared, and one is  *)
(* selected (core/tournament.ts, adapters/supabase/tournamentRepo.ts).  A  *)
(* selection marks the arms one request after the other, and is recorded   *)
(* in the evidence chain when all are marked.                              *)
(***************************************************************************)
EXTENDS DeliveryStore, Arbitration

CONSTANTS
  ArmNames,     \* the arms, a sequence in the order of their arm_id
  ArmsOf,       \* the arms that may be registered under each
  Policies,     \* the policies of evaluations
  Selections,   \* requests to select a winner
  MayAuto       \* those that leave the choice to the Pareto frontier

VARIABLES
  arms,        \* tournament_arms
  selection,   \* where each selection is
  disturbed    \* auxiliary: a selection was overlapped or cut short

tournamentVars == <<arms, selection, disturbed>>

ArmIds == DOMAIN ArmNames

ArmStates == {"unselected", "winner", "runner_up"}
ArmFields == {"metrics", "flaws", "completed", "selection", "tree"}

ASSUME ArmsAssumption ==
  /\ ArmNames \in Seq(STRING)
  /\ \A a \in ArmIds : \A arm \in ArmsOf[a] :
       /\ DOMAIN arm = ArmFields /\ arm.selection \in ArmStates
       /\ arm.metrics \in [Metrics -> Int]

\* The winner of a run is asked for by its number, or 0 for auto_pareto.
NoArm == 0
AutoPareto == 0
NoSelection == [pc |-> "idle", arm |-> NoArm, left |-> {}, alone |-> TRUE]

TournamentTypeOK ==
  /\ DOMAIN arms \subseteq ArmIds
  /\ \A a \in DOMAIN arms : arms[a].selection \in ArmStates
  /\ \A s \in Selections :
       /\ selection[s].pc \in
            {"idle", "rank", "check", "list", "mark", "record", "done", "failed"}
       /\ selection[s].pc \in {"list", "mark", "record", "done"} =>
            selection[s].arm \in DOMAIN arms
       /\ selection[s].left \subseteq DOMAIN arms
       /\ selection[s].alone \in BOOLEAN
  /\ disturbed \in BOOLEAN

TournamentInit ==
  /\ arms = << >>
  /\ selection = [s \in Selections |-> NoSelection]
  /\ disturbed = FALSE

-----------------------------------------------------------------------------
Winners == {a \in DOMAIN arms : arms[a].selection = "winner"}
Marking == {s \in Selections : selection[s].pc = "mark"}

\* Those that mark arms now are no longer alone.
Disturb ==
  /\ disturbed' = TRUE
  /\ selection' = [s \in Selections |->
       [selection[s] EXCEPT !.alone = @ /\ s \notin Marking]]

\* POST arms: the status, the metrics and the selection are the client's, and
\* an arm_id is registered once.
RegisterArm(a, arm) ==
  /\ ArmNames[a] \in workload /\ a \notin DOMAIN arms
  /\ arms' = [b \in DOMAIN arms \cup {a} |-> IF b = a THEN arm ELSE arms[b]]
  /\ IF arm.selection = "winner" THEN Disturb
     ELSE UNCHANGED <<selection, disturbed>>
  /\ NoFault /\ UNCHANGED deliveryVars

At(s, pc) == selection[s].pc = pc
Move(s, l) == selection' = [selection EXCEPT ![s] = l]
MoveTo(s, pc) == Move(s, [selection[s] EXCEPT !.pc = pc])
Fails(s) == Fault /\ MoveTo(s, "failed")

\* POST select: the winner is named or left to the arbitrator.
RequestSelection(s, a) ==
  /\ s \in workload /\ At(s, "idle") /\ DOMAIN arms # {}
  /\ a = AutoPareto => s \in MayAuto
  /\ Move(s, [NoSelection EXCEPT !.pc = IF a = AutoPareto THEN "rank" ELSE "check",
                                 !.arm = a])
  /\ NoFault /\ UNCHANGED <<arms, disturbed>> /\ UNCHANGED deliveryVars

AutoPolicy ==
  [strategy |-> "pareto_optimal", required |-> Flaws, minCoverage |-> 0]

RankArms(s) ==
  /\ At(s, "rank")
  /\ LET best == Recommended(arms, AutoPolicy) IN
     \/ /\ NoFault /\ best # NoArm
        /\ Move(s, [selection[s] EXCEPT !.pc = "check", !.arm = best])
     \/ NoFault /\ best = NoArm /\ MoveTo(s, "failed")
     \/ Fails(s)
  /\ UNCHANGED <<arms, disturbed>> /\ UNCHANGED deliveryVars

CheckCandidate(s) ==
  /\ At(s, "check")
  /\ LET a == selection[s].arm
         isCandidate == a \in DOMAIN arms /\ arms[a].completed IN
     \/ NoFault /\ isCandidate /\ MoveTo(s, "list")
     \/ NoFault /\ ~isCandidate /\ MoveTo(s, "failed")
     \/ Fails(s)
  /\ UNCHANGED <<arms, disturbed>> /\ UNCHANGED deliveryVars

ListArms(s) ==
  /\ At(s, "list")
  /\ LET l == [selection[s] EXCEPT !.pc = "mark", !.left = DOMAIN arms] IN
     \/ /\ NoFault /\ Marking = {} /\ Move(s, l) /\ UNCHANGED disturbed
     \/ /\ NoFault /\ Marking # {} /\ disturbed' = TRUE
        /\ selection' = [t \in Selections |->
             IF t = s THEN [l EXCEPT !.alone = FALSE]
             ELSE [selection[t] EXCEPT !.alone = @ /\ t \notin Marking]]
     \/ Fails(s) /\ UNCHANGED disturbed
  /\ UNCHANGED arms /\ UNCHANGED deliveryVars

\* Mutant: only the winner is marked.
MarkWinner(s, a) ==
  IF a = selection[s].arm
  THEN arms' = [arms EXCEPT ![a].selection = "winner"] ELSE UNCHANGED arms

MarkArm(s, a) ==
  arms' = [arms EXCEPT
    ![a].selection = IF a = selection[s].arm THEN "winner" ELSE "runner_up"]

\* One UPDATE for each arm on the list, in its order.
MarkNext(s) ==
  /\ At(s, "mark")
  /\ LET l == selection[s]
         a == Min(l.left)
         rest == l.left \ {a} IN
     \/ /\ NoFault /\ MarkArm(s, a)
        /\ Move(s, [l EXCEPT !.left = rest,
                             !.pc = IF rest = {} THEN "record" ELSE "mark"])
        /\ disturbed' = (disturbed /\ ~(rest = {} /\ l.alone))
     \/ /\ Fails(s) /\ (UNCHANGED arms \/ MarkArm(s, a))
        /\ disturbed' = TRUE
  /\ UNCHANGED deliveryVars

RecordSelection(s) ==
  /\ At(s, "record")
  /\ \/ Recorded("selected", selection[s].arm) /\ MoveTo(s, "done")
     \/ RecordThrows("selected", selection[s].arm) /\ MoveTo(s, "failed")
  /\ ExceptLedger /\ UNCHANGED <<arms, disturbed>>

TournamentNext ==
  \/ \E a \in ArmIds : \E arm \in ArmsOf[a] : RegisterArm(a, arm)
  \/ \E s \in Selections :
       \/ \E a \in ArmIds \cup {AutoPareto} : RequestSelection(s, a)
       \/ RankArms(s) \/ CheckCandidate(s) \/ ListArms(s) \/ MarkNext(s)
       \/ RecordSelection(s)

-----------------------------------------------------------------------------
\* Unless selections overlapped, failed midway or an arm was registered as a
\* winner, at most one arm is the winner whenever no selection is under way,
\* and a selection that runs alone to its end restores that.
OneWinnerUnlessRaced ==
  Marking = {} /\ ~disturbed => Cardinality(Winners) <= 1

\* The arm that is recommended is eligible and, by the policy's strategy, is
\* not dominated, or is the cheapest, the fastest or the best covered one:
\* save that the scores of the last three add their metrics up, so that an arm
\* loses to one that costs a cent more and is ten seconds faster, to one that is
\* a millisecond slower and a hundred dollars cheaper, or to one of a percent
\* less coverage that is fifty dollars cheaper or fourteen hours faster.
RecommendationIsSound ==
  \A policy \in Policies :
    LET E == Eligible(arms, policy)
        best == Recommended(arms, policy)
        Better(k) == {a \in E : IsBetter(arms[a].metrics, arms[best].metrics, k)}
        Excess(a, k) == arms[a].metrics[k] - arms[best].metrics[k] IN
    /\ best = NoArm <=> E = {}
    /\ best # NoArm =>
         /\ best \in E
         /\ policy.strategy = "pareto_optimal" =>
              \A a \in E : ~Dominates(arms[a].metrics, arms[best].metrics)
         /\ policy.strategy = "lowest_cost" =>
              \A a \in Better("cost") : Excess(a, "latency") >= 10000
         /\ policy.strategy = "fastest_latency" =>
              \A a \in Better("latency") : Excess(a, "cost") >= 10000
         /\ policy.strategy = "highest_coverage" =>
              \A a \in Better("coverage") :
                Excess(a, "cost") >= 5000 \/ Excess(a, "latency") >= 50000000
=============================================================================
