--------------------------- MODULE PhaseSequence ---------------------------
(***************************************************************************)
(* The multi-phase sequencer (core/multiPhaseSequencer.ts), and executeRun *)
(* as it sees it: the phase envelope it records, the gates it passes, the  *)
(* outputs it leaves.  RunLifecycle models executeRun and its teardown     *)
(* request by request; here the phases between provisioning and terminal   *)
(* are one, in_progress, and the teardown is one step.                     *)
(***************************************************************************)
EXTENDS DeliveryStore, EffectGate

CONSTANTS
  Dispatches,   \* requests to dispatch
  LiveRuns,     \* those made by the live runner, which creates the run itself
  PlansOf,      \* the sequences of phases each of them may name
  BodiesOf,     \* the AGENTS.md and path patterns each of them may carry
  ChangesOf     \* the sets of changed files the sandbox of each may declare

ASSUME LiveRunsAssumption == LiveRuns \subseteq Dispatches

ASSUME PlansAssumption ==
  \A d \in Dispatches : PlansOf[d] \subseteq Seq(PhaseNames) \ {<< >>}

\* "none" stands for a tree that is missing.
ASSUME NamesAssumption == "none" \notin PhaseNames

\* Paths and patterns are sequences, and no AGENTS.md hashes to 64 zeros.
ASSUME GatesAssumption ==
  \A d \in Dispatches :
    /\ \A files \in ChangesOf[d] : files \subseteq Seq(STRING)
    /\ \A body \in BodiesOf[d] :
         /\ body.content # "zeros"
         /\ body.allowed \cup body.immutable \subseteq Seq(STRING)

VARIABLES
  work,      \* where each dispatch is
  trees,     \* auxiliary: output trees of torn down phases, and how it ended
  accepted,  \* auxiliary: the tree of the last phase that ended well
  mishaps    \* auxiliary: outputs were lost, or erased by a repeated phase

sequenceVars == <<work, trees, accepted, mishaps>>

NoTree == <<"none">>

NoWork ==
  [pc |-> "idle", left |-> << >>, row |-> [phase |-> "none", version |-> 1],
   parent |-> ParentTree, tree |-> NoTree, body |-> <<>>, files |-> {},
   ok |-> FALSE, verdict |-> "none"]

SequenceTypeOK ==
  /\ \A d \in Dispatches :
       /\ work[d].pc \in {"idle", "provision", "envelope", "supervise",
            "reconcile", "teardown", "outputs", "propagate", "done", "failed"}
       /\ work[d].pc \notin {"idle", "done", "failed"} => work[d].left # << >>
       /\ work[d].files \in {{}} \cup ChangesOf[d]
       /\ work[d].ok \in BOOLEAN
       /\ work[d].verdict \in {"none", "passed", "refused"}
  /\ mishaps \subseteq {"lost", "repeated"}

SequenceInit ==
  /\ work = [d \in Dispatches |-> NoWork]
  /\ trees = {} /\ accepted = ParentTree /\ mishaps = {}

-----------------------------------------------------------------------------
(* Preflight *)

\* A run of the live runner is not admitted with a digest: the caller's own is
\* expected, or, if there is none, 64 zeros.
HasDigest == workload \cap LiveRuns = {}

ExpectedDigest(body) ==
  IF HasDigest THEN "admitted"
  ELSE IF body.digest \in {"none", "malformed"} THEN "zeros" ELSE body.digest

\* Content, if there is any, is scanned and hashed; else the digest counts,
\* else nothing is compared.
verifyPhasePreflight(body) ==
  LET expected == ExpectedDigest(body) IN
  /\ body.content # "forbidden"
  /\ body.content # "none" => body.content = expected
  /\ body.content = "none" /\ body.digest # "none" => body.digest = expected

-----------------------------------------------------------------------------
(* executeRun *)

Phase1(d) == Head(work[d].left)
Set(d, w) == work' = [work EXCEPT ![d] = w]
Goto(d, pc) == Set(d, [work[d] EXCEPT !.pc = pc])
UnchangedAux == UNCHANGED <<trees, accepted, mishaps>>

\* POST dispatch reads the run and starts the sequence, or the one phase.
Dispatch(d, plan, body) ==
  /\ d \in workload \ LiveRuns /\ work[d].pc = "idle" /\ run.phase # "none"
  /\ Set(d, [NoWork EXCEPT !.pc = "provision", !.left = plan, !.row = run,
                           !.body = body])
  /\ NoFault /\ UNCHANGED deliveryVars /\ UnchangedAux

\* The guard of every transition: the row is as it was read last.
Holds(d, phases) == run = work[d].row /\ run.phase \in phases

To(phase) == [phase |-> phase, version |-> run.version + 1]

\* executeRun's catch block: a run still created is quarantined, whether that
\* works or not, and any other torn down.
Catch(d) ==
  Set(d, [work[d] EXCEPT !.ok = FALSE, !.pc =
            IF work[d].row.phase = "created" THEN "failed" ELSE "teardown"])
Abandon(d) ==
  /\ Catch(d)
  /\ \/ UNCHANGED run
     \/ Holds(d, {"created"}) /\ run' = To("quarantined")

Provision(d) ==
  /\ work[d].pc = "provision"
  /\ run.version < MaxVersion
  /\ IF /\ verifyPhasePreflight(work[d].body)
        /\ Holds(d, {"created", "clean_terminated"})
     THEN \/ /\ NoFault /\ run' = To("in_progress")
             /\ Set(d, [work[d] EXCEPT !.pc = "envelope", !.row = run',
                                       !.verdict = "none"])
          \/ Fault /\ Abandon(d)
     ELSE NoFault /\ Abandon(d)
  /\ UNCHANGED <<envelopes, ledger, commits, branch, pulls>> /\ UnchangedAux

\* The VM boots, enrols and answers, and the envelope is recorded: once for
\* each run, phase and attempt, and the attempt is 1 in every dispatch.
IsOnRecord(name) == \E e \in 1..Len(envelopes) : envelopes[e].name = name
Open(name) ==
  envelopes' = Append(envelopes, [name |-> name, status |-> "open", tree |-> NoTree])

RecordEnvelope(d) ==
  /\ work[d].pc = "envelope"
  /\ \/ /\ NoFault /\ ~IsOnRecord(Phase1(d)) /\ Open(Phase1(d))
        /\ Goto(d, "supervise")
     \/ NoFault /\ IsOnRecord(Phase1(d)) /\ Catch(d) /\ UNCHANGED envelopes
     \/ Fault /\ Catch(d) /\ UNCHANGED envelopes
     \/ Fault /\ ~IsOnRecord(Phase1(d)) /\ Open(Phase1(d)) /\ Catch(d)
  /\ ExceptEnvelopes /\ UnchangedAux

\* Delegate, wait for the sandbox, collect what it declares; it may fail.
Supervise(d) ==
  /\ work[d].pc = "supervise"
  /\ \/ /\ Holds(d, {"in_progress"})
        /\ \E files \in ChangesOf[d] :
             Set(d, [work[d] EXCEPT !.pc = "reconcile", !.files = files])
     \/ Catch(d)
  /\ NoFault /\ UNCHANGED deliveryVars /\ UnchangedAux

\* What the sandbox declares is passed for the actual changes as well.
Reconcile(d) ==
  /\ work[d].pc = "reconcile"
  /\ LET w == work[d] IN
     IF reconcileTreeEffects(w.files, w.files, w.body.allowed, w.body.immutable)
     THEN Set(d, [w EXCEPT !.pc = "teardown", !.ok = TRUE, !.verdict = "passed",
                           !.tree = OutputTree(w.parent, Phase1(d), w.files)])
     ELSE Set(d, [w EXCEPT !.pc = "teardown", !.ok = FALSE, !.verdict = "refused"])
  /\ NoFault /\ UNCHANGED deliveryVars /\ UnchangedAux

\* It ends in clean_terminated or in quarantined, or throws: then executeRun
\* catches it once.
Teardown(d) ==
  /\ work[d].pc = "teardown"
  /\ run.version < MaxVersion
  /\ LET w == work[d]
         Throw == IF w.ok THEN Catch(d) ELSE Goto(d, "failed") IN
     \/ /\ NoFault /\ Holds(d, {"in_progress"})
        /\ run' \in {To("clean_terminated"), To("quarantined")}
        /\ Set(d, [w EXCEPT !.pc = "outputs", !.row = run'])
        /\ trees' = IF w.ok
                    THEN trees \cup {[of |-> w.tree, at |-> run'.phase]} ELSE trees
        /\ accepted' = IF w.ok /\ run'.phase = "clean_terminated"
                       THEN w.tree ELSE accepted
     \/ /\ NoFault /\ ~Holds(d, {"in_progress"}) /\ Throw
        /\ UNCHANGED <<run, trees, accepted>>
     \/ /\ Fault /\ Throw
        /\ \/ UNCHANGED run
           \/ /\ Holds(d, {"in_progress"})
              /\ run' \in {To("clean_terminated"), To("quarantined")}
        /\ UNCHANGED <<trees, accepted>>
  /\ ExceptRun /\ UNCHANGED mishaps

\* Mutant: the end of the sequence is missed by one.
IsPastLastPhase(d) == Len(work[d].left) = 0

IsLastPhase(d) == Len(work[d].left) = 1

\* The update of the envelopes of this run, phase and attempt; its failure is
\* only logged.  A phase that failed leaves no tree, nor one that was there.
IsGood(w) == w.ok /\ w.row.phase = "clean_terminated"

Outputs(w) ==
  [e \in 1..Len(envelopes) |->
     IF envelopes[e].name # Head(w.left) THEN envelopes[e]
     ELSE [name |-> Head(w.left),
           status |-> IF IsGood(w) THEN "completed" ELSE "failed",
           tree |-> IF w.ok THEN w.tree ELSE NoTree]]

ErasesTree(w) ==
  \E e \in 1..Len(envelopes) :
    envelopes[e].name = Head(w.left) /\ envelopes[e].tree # NoTree

RecordOutputs(d) ==
  /\ work[d].pc = "outputs"
  /\ LET w == work[d] IN
     /\ \/ /\ NoFault /\ envelopes' = Outputs(w)
           /\ mishaps' = mishaps \cup (IF ErasesTree(w) THEN {"repeated"} ELSE {})
        \/ /\ Fault /\ envelopes' \in {envelopes, Outputs(w)}
           /\ mishaps' = mishaps \cup {"lost"}
     /\ Goto(d, IF ~IsGood(w) THEN "failed"
                ELSE IF IsLastPhase(d) THEN "done" ELSE "propagate")
  /\ ExceptEnvelopes /\ UNCHANGED <<trees, accepted>>

\* The sequencer goes on from the tree of the phase and the row as it is now.
Propagate(d) ==
  /\ work[d].pc = "propagate"
  /\ \/ /\ NoFault
        /\ Set(d, [work[d] EXCEPT !.pc = "provision", !.left = Tail(@),
             !.parent = work[d].tree, !.row = run, !.files = {}])
     \/ Fault /\ Goto(d, "failed")
  /\ UNCHANGED deliveryVars /\ UnchangedAux

ExecuteRun(d) ==
  \/ Provision(d) \/ RecordEnvelope(d) \/ Supervise(d) \/ Reconcile(d)
  \/ Teardown(d) \/ RecordOutputs(d) \/ Propagate(d)

SequenceNext ==
  \E d \in Dispatches :
    \/ \E plan \in PlansOf[d], body \in BodiesOf[d] : Dispatch(d, plan, body)
    \/ ExecuteRun(d)

-----------------------------------------------------------------------------
\* A sandbox is provisioned only for the AGENTS.md the run was admitted with
\* (for a run of the live runner: for the one its caller names), and the gate
\* passes exactly the changes that the patterns, read as they are documented,
\* allow: save that a star after a dot is no star to the code.
MatchesAsDocumented(path, pattern) ==
  \/ IsGlobMatch(path, pattern)
  \/ pattern[Len(pattern)] = "/" /\ StartsWith(path, pattern)

IsLawful(files, body) ==
  \A f \in files :
    /\ \E p \in body.allowed : MatchesAsDocumented(f, p)
    /\ \A p \in body.immutable : ~MatchesAsDocumented(f, p)

IsMisread(body) ==
  \E p \in body.allowed \cup body.immutable :
    \E i \in 1..Len(p) : Quantifier(p, i)

GatesAreExact ==
  \A d \in Dispatches :
    LET w == work[d] IN
    /\ w.pc \in {"envelope", "supervise", "reconcile", "propagate", "done"} =>
         /\ w.body.content # "forbidden"
         /\ w.body.content \in {"none", w.body.digest} \/ HasDigest
         /\ HasDigest => w.body.content \in {"none", "admitted"}
         /\ HasDigest /\ w.body.content = "none" =>
              w.body.digest \in {"none", "admitted"}
    /\ w.verdict # "none" /\ ~IsMisread(w.body) =>
         (w.verdict = "passed" <=> IsLawful(w.files, w.body))
=============================================================================
