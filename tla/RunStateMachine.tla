-------------------------- MODULE RunStateMachine --------------------------
(***************************************************************************)
(* The guarded phase transition of core/stateMachine.ts over the run store *)
(* of adapters/supabase/runsRepo.ts (OutboxAtomic = FALSE) or over         *)
(* InMemoryRunStateStore (OutboxAtomic = TRUE), for one run and several    *)
(* concurrent callers.                                                     *)
(*                                                                         *)
(* transition() awaits three times: it reads the run and checks the        *)
(* request against what it read, it sends the conditional UPDATE, and,     *)
(* with the Supabase store, it inserts the outbox event in a request of    *)
(* its own.  Other callers run in between, either request may fail before  *)
(* or after the database applied it, and the process may die.              *)
(*                                                                         *)
(* A request that fails a check before the UPDATE throws and changes       *)
(* nothing: it is a stuttering step and has no action here.                *)
(*                                                                         *)
(* A definition commented "Mutant of" is a plausible mistake in the code,  *)
(* put in the place of the definition below it to see a property fail.     *)
(***************************************************************************)
EXTENDS Naturals, Sequences, Phases

CONSTANTS
  Clients,       \* concurrent callers of transition()
  Strangers,     \* the callers whose tenant is not the run's
  OutboxAtomic,  \* the store writes the run and its event in one step
  MaxVersion     \* bound on the run's state_version

ASSUME ConstantsAssumption ==
  /\ Strangers \subseteq Clients
  /\ OutboxAtomic \in BOOLEAN
  /\ MaxVersion \in Nat

VARIABLES
  phase,     \* factory_runs.phase
  version,   \* factory_runs.state_version
  outbox,    \* the rows of table events
  pc,        \* where each caller is in transition()
  req,       \* the request each caller is executing
  known,     \* the phase and version each caller last learned
  history,   \* auxiliary: history[v] is the commit that made version v
  broken     \* auxiliary: versions whose commit was cut short of its event

vars == <<phase, version, outbox, pc, req, known, history, broken>>

Unknown == [phase |-> "created", version |-> 0]
NoRequest == [expected |-> Unknown, target |-> "created", event |-> FALSE]

Current == [phase |-> phase, version |-> version]

Init ==
  /\ phase = "created"
  /\ version = 1
  /\ outbox = {}
  /\ pc = [c \in Clients |-> "idle"]
  /\ req = [c \in Clients |-> NoRequest]
  /\ known = [c \in Clients |-> Unknown]
  /\ history = <<[target |-> "created", by |-> {}, event |-> FALSE]>>
  /\ broken = {}

-----------------------------------------------------------------------------
\* A caller reads the run: its later requests expect what it saw.
GetRun(c) ==
  /\ pc[c] = "idle"
  /\ known' = [known EXCEPT ![c] = Current]
  /\ UNCHANGED <<phase, version, outbox, pc, req, history, broken>>

\* Mutant of ReadAndCheck: the transition table is not consulted.
ReadWithoutTable(c, target, event) ==
  /\ pc[c] = "idle"
  /\ c \notin Strangers
  /\ known[c] = Current
  /\ version < MaxVersion
  /\ req' = [req EXCEPT ![c] = [expected |-> known[c], target |-> target,
                                event |-> event]]
  /\ pc' = [pc EXCEPT ![c] = "checked"]
  /\ UNCHANGED <<phase, version, outbox, known, history, broken>>

\* The first await of transition() and the five checks that follow it.
ReadAndCheck(c, target, event) ==
  /\ pc[c] = "idle"
  /\ c \notin Strangers
  /\ known[c] = Current
  /\ canTransition(phase, target)
  /\ version < MaxVersion
  /\ req' = [req EXCEPT ![c] = [expected |-> known[c], target |-> target,
                                event |-> event]]
  /\ pc' = [pc EXCEPT ![c] = "checked"]
  /\ UNCHANGED <<phase, version, outbox, known, history, broken>>

\* Mutant of RowMatches: the UPDATE is filtered by the run's id alone.
RowOfTheRun(c) == TRUE

\* The filters of the UPDATE.
RowMatches(c) == Current = req[c].expected

\* The run row after the UPDATE of caller c, and the record of that commit.
Commit(c) ==
  /\ RowMatches(c)
  /\ phase' = req[c].target
  /\ version' = req[c].expected.version + 1
  /\ history' = Append(history, [target |-> req[c].target, by |-> {c},
                                 event |-> req[c].event])

\* Mutant of Learn: the version returned is the one now stored.
LearnStored(c) ==
  known' = [known EXCEPT ![c] = [phase |-> req[c].target, version |-> version']]

\* What a caller knows once transition() has returned to it.
Learn(c) ==
  known' = [known EXCEPT ![c] = [phase   |-> req[c].target,
                                 version |-> req[c].expected.version + 1]]

\* Mutant of EventOf: the row is written without the event it announces.
EventWithoutBody(c) ==
  [sequence |-> req[c].expected.version + 1, by |-> {c}]

\* Mutant of EventOf: the sequence is the version before the transition.
EventOfOldVersion(c) ==
  [sequence |-> req[c].expected.version, target |-> req[c].target, by |-> {c}]

\* The outbox row of the request: its sequence is the new state version.
EventOf(c) ==
  [sequence |-> req[c].expected.version + 1, target |-> req[c].target,
   by |-> {c}]

\* Back to the caller, which by returning or throwing forgets the request.
Leave(c) ==
  /\ pc' = [pc EXCEPT ![c] = "idle"]
  /\ req' = [req EXCEPT ![c] = NoRequest]

\* The UPDATE matched and nothing is left to write in a second request.
CasReturns(c) ==
  /\ pc[c] = "checked"
  /\ OutboxAtomic \/ ~req[c].event
  /\ Commit(c)
  /\ outbox' = outbox \cup (IF req[c].event THEN {EventOf(c)} ELSE {})
  /\ Learn(c)
  /\ Leave(c)
  /\ UNCHANGED broken

\* Mutant of CasAwaitsEvent: the event is dropped when the UPDATE matched.
CasForgetsEvent(c) ==
  /\ pc[c] = "checked"
  /\ ~OutboxAtomic /\ req[c].event
  /\ Commit(c)
  /\ Learn(c)
  /\ Leave(c)
  /\ UNCHANGED <<outbox, broken>>

\* The UPDATE matched; the event still has to be inserted.
CasAwaitsEvent(c) ==
  /\ pc[c] = "checked"
  /\ ~OutboxAtomic /\ req[c].event
  /\ Commit(c)
  /\ pc' = [pc EXCEPT ![c] = "committed"]
  /\ UNCHANGED <<outbox, req, known, broken>>

\* No row matched: CASConcurrencyConflict.
CasConflict(c) ==
  /\ pc[c] = "checked"
  /\ ~RowMatches(c)
  /\ Leave(c)
  /\ UNCHANGED <<phase, version, outbox, known, history, broken>>

\* The UPDATE request throws after the database applied it: the caller
\* takes the transition for failed and its event is never inserted.
CasReplyLost(c) ==
  /\ pc[c] = "checked"
  /\ ~OutboxAtomic
  /\ Commit(c)
  /\ broken' = broken \cup {version'}
  /\ Leave(c)
  /\ UNCHANGED <<outbox, known>>

InsertEvent(c) ==
  /\ pc[c] = "committed"
  /\ outbox' = outbox \cup {EventOf(c)}
  /\ UNCHANGED <<phase, version, history, broken>>
  /\ Learn(c)
  /\ Leave(c)

\* The INSERT throws, before or after the database applied it.
InsertFails(c) ==
  /\ pc[c] = "committed"
  /\ \E applied \in BOOLEAN :
       /\ outbox' = outbox \cup (IF applied THEN {EventOf(c)} ELSE {})
       /\ broken' = broken \cup {EventOf(c).sequence}
  /\ Leave(c)
  /\ UNCHANGED <<phase, version, known, history>>

\* The caller's process dies: all it knew is lost.
Crash(c) ==
  /\ known[c] # Unknown
  /\ known' = [known EXCEPT ![c] = Unknown]
  /\ broken' = broken \cup
       (IF pc[c] = "committed" THEN {EventOf(c).sequence} ELSE {})
  /\ Leave(c)
  /\ UNCHANGED <<phase, version, outbox, history>>

Next ==
  \E c \in Clients :
    \/ GetRun(c)
    \/ \E target \in Phase, event \in BOOLEAN : ReadAndCheck(c, target, event)
    \/ CasReturns(c) \/ CasAwaitsEvent(c) \/ CasConflict(c) \/ CasReplyLost(c)
    \/ InsertEvent(c) \/ InsertFails(c)
    \/ Crash(c)

Spec == Init /\ [][Next]_vars

-----------------------------------------------------------------------------
Knowledge == [phase : Phase, version : Nat]

\* Every variable holds a value of its kind.
TypeOK ==
  /\ phase \in Phase
  /\ version \in Nat \ {0}
  /\ outbox \subseteq [sequence : Nat, target : Phase, by : SUBSET Clients]
  /\ pc \in [Clients -> {"idle", "checked", "committed"}]
  /\ req \in [Clients -> [expected : Knowledge, target : Phase,
                          event : BOOLEAN]]
  /\ known \in [Clients -> Knowledge]
  /\ history \in Seq([target : Phase, by : SUBSET Clients, event : BOOLEAN])
  /\ broken \subseteq Nat

(***************************************************************************)
(* However callers interleave, fail and retry on stale knowledge, the run  *)
(* takes its versions one at a time: the commits form one chain of         *)
(* permitted transitions that ends in the stored phase, and none of them   *)
(* was made for another tenant.  (compareAndSwapRun's filters)             *)
(***************************************************************************)
OneChainOfCommits ==
  /\ Len(history) = version
  /\ history[version].target = phase
  /\ \A v \in 2 .. version :
       /\ canTransition(history[v - 1].target, history[v].target)
       /\ history[v].by \cap Strangers = {}

(***************************************************************************)
(* An outbox row describes the commit of the version it is numbered with,  *)
(* so two rows never share a sequence and no row announces a transition    *)
(* that lost its race.  (the event is inserted after the UPDATE matched)   *)
(***************************************************************************)
OutboxTellsTheTruth ==
  \A e \in outbox :
    /\ e.sequence \in 2 .. version
    /\ history[e.sequence] = [target |-> e.target, by |-> e.by, event |-> TRUE]

(***************************************************************************)
(* What a caller was told by getRun or by a successful transition() did    *)
(* happen: a stale caller is behind the run, never beside it.              *)
(***************************************************************************)
KnowledgeIsHistory ==
  \A c \in Clients :
    known[c] # Unknown =>
      /\ known[c].version \in 1 .. version
      /\ known[c].phase = history[known[c].version].target

HasEvent(v) == \E e \in outbox : e.sequence = v

(***************************************************************************)
(* A commit that asked for an event lacks it only while its caller is      *)
(* about to insert it, or because that caller was cut off in between.      *)
(***************************************************************************)
MissingEventExplained ==
  \A v \in 2 .. version :
    history[v].event /\ ~HasEvent(v) =>
      \/ v \in broken
      \/ \E c \in Clients : pc[c] = "committed" /\ EventOf(c).sequence = v

(***************************************************************************)
(* The event of a transition is inserted "in the same transaction as the   *)
(* state mutation": no state shows the one without the other.              *)
(* (docs/outside_orchestrator_role_v2.md, section 5.1, item 5)             *)
(***************************************************************************)
TransactionalOutbox ==
  \A v \in 2 .. version : history[v].event => HasEvent(v)

(***************************************************************************)
(* The concurrent, failing implementation makes only the moves that the    *)
(* abstract run makes.                                                     *)
(***************************************************************************)
Abstract == INSTANCE RunPhases
ImplementsRunPhases == Abstract!Spec
=============================================================================
