--------------------------- MODULE DeliveryStore ---------------------------
(***************************************************************************)
(* What the handlers that turn one run into a deployed change share: the   *)
(* run's row, its phase envelopes and its evidence chain in the store, the *)
(* harvest commits, and the branch and the pull requests on GitHub.        *)
(***************************************************************************)
EXTENDS Disturbances, Sequences, FiniteSets

CONSTANTS
  PhaseNames,   \* the factory phases a dispatch names (plan, build, ...)
  Objects,      \* trees that are objects of the git repository
  MaxVersion,   \* bound on state_version
  MaxCommits,   \* bound on the harvest commits
  MaxPulls,     \* bound on the pull requests of the branch
  Scenarios     \* what may happen in one behaviour

ASSUME BoundsAssumption ==
  MaxVersion \in Nat \ {0} /\ MaxCommits \in Nat /\ MaxPulls \in Nat

VARIABLES
  run,        \* the row: phase and state_version; "none" before its creation
  envelopes,  \* phase_envelopes in the order of created_at
  ledger,     \* what the records of the run's evidence chain say, in order
  commits,    \* the harvest commits, in the order of their creation
  branch,     \* the commit the branch of the run on GitHub is at; 0: no branch
  pulls       \* the pull requests of that branch, the oldest first

deliveryVars == <<run, envelopes, ledger, commits, branch, pulls>>

\* A tree is named by the changes that lead to it from the run's parent.
ParentTree == << >>

\* A phase that declares changed files names its output by a hash of its
\* parent and the names of the files, another by the parent itself.
OutputTree(parent, name, files) ==
  IF files = {} THEN parent ELSE Append(parent, name)

CommitIds == 1..MaxCommits
PullIds == 1..MaxPulls

RunStates == {"none", "created", "in_progress", "clean_terminated", "quarantined"}

ASSUME BehavioursAssumption == \A s \in Scenarios : s.phase \in RunStates

DeliveryTypeOK ==
  /\ run \in [phase : RunStates, version : 1..MaxVersion]
  /\ \A e \in 1..Len(envelopes) :
       /\ envelopes[e].name \in PhaseNames
       /\ envelopes[e].status \in {"open", "completed", "failed"}
  /\ \A e \in 1..Len(ledger) :
       ledger[e].is \in {"selected", "authorized", "committed", "published", "merged"}
  /\ Len(commits) <= MaxCommits
  /\ branch \in 0..Len(commits)
  /\ Len(pulls) <= MaxPulls

DeliveryInit ==
  /\ \E s \in Scenarios :
       /\ workload = s.may /\ faults = s.faults
       /\ run = [phase |-> s.phase, version |-> 1]
  /\ envelopes = << >> /\ ledger = << >> /\ commits = << >>
  /\ branch = 0 /\ pulls = << >>

-----------------------------------------------------------------------------
\* recordEvent returns; it throws, and the record may be there nevertheless.
Says(is, of) == [is |-> is, of |-> of]
Recorded(is, of) == NoFault /\ ledger' = Append(ledger, Says(is, of))
RecordThrows(is, of) ==
  Fault /\ (UNCHANGED ledger \/ ledger' = Append(ledger, Says(is, of)))

\* What an action leaves alone besides the row, the chain and so on.
ExceptRun == UNCHANGED <<envelopes, ledger, commits, branch, pulls>>
ExceptEnvelopes == UNCHANGED <<run, ledger, commits, branch, pulls>>
ExceptLedger == UNCHANGED <<run, envelopes, commits, branch, pulls>>
ExceptGitHub == UNCHANGED <<run, envelopes, ledger, commits>>

-----------------------------------------------------------------------------
Opened(p) == p \in 1..Len(pulls) /\ ~pulls[p].merged

NewPull ==
  [merged |-> FALSE, head |-> 0, approvals |-> {}, repushed |-> FALSE,
   checked |-> FALSE]

\* createPullRequest: a new one, or, if the branch has an open one already,
\* the newest of any state.  A lost answer leaves the new one behind.
CanOpenPull == /\ branch # 0 /\ Len(pulls) < MaxPulls
               /\ \A p \in 1..Len(pulls) : ~Opened(p)
PullCreated(n) ==
  \/ /\ CanOpenPull
     /\ pulls' = Append(pulls, NewPull) /\ n = Len(pulls) + 1
  \/ /\ \E p \in 1..Len(pulls) : Opened(p)
     /\ n = Len(pulls) /\ UNCHANGED pulls
CreatePull(n) == NoFault /\ PullCreated(n) /\ UNCHANGED branch
CreatePullFails ==
  /\ UNCHANGED branch
  /\ \/ NoFault /\ branch = 0 /\ UNCHANGED pulls
     \/ Fault /\ UNCHANGED pulls
     \/ Fault /\ CanOpenPull /\ pulls' = Append(pulls, NewPull)
=============================================================================
