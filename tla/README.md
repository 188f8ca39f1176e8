# Outside Orchestrator: TLA+ models and proofs

The Outside Orchestrator runs coding agents in disposable sandboxes. For each
*run* it creates an exe.dev VM, lets the VM join a Tailscale network, delivers
an instruction to the agent inside, watches it, collects its output, tears the
sandbox down in 13 steps and signs an attestation that nothing is left. The
state of a run lives in Supabase tables that are written over HTTP; the work is
done by asynchronous handlers of one Node process, which interleave at every
`await` and all die when the process dies.

This directory holds models of that system, the configurations with which TLC
checks them, and proofs that TLAPS checks. Paths below are those of the
repository: `src/core/...` is the implementation.

## 1. Inventory

Each row names a part, the state it keeps, what it does, with whom it
interacts, what is hard about it and what makes it correct.

| Part | State | Operations | Interacts with | What is hard | Correct when |
|---|---|---|---|---|---|
| Run state machine (`core/stateMachine.ts`) | none of its own | `canTransition`, `transition` | run store; called by dispatcher, teardown, recovery | check and update are separate awaits; callers hold stale versions | commits form one chain along the table, the loser learns that it lost |
| Run store (`adapters/supabase/runsRepo.ts`, `client.ts`) | tables `factory_runs`, `events` | `createRun`, `getRun`, `compareAndSwapRun`, `updateBudget`, `listInFlightRuns` | everybody | run and event are two requests; replies are lost; newest 100 runs only | an event for each transition that asked for one, and no false one |
| Lease manager (`core/leaseManager.ts`) | table `leases` | `acquireLease`, `renewLease`, `releaseLease`, watchdog | admission, recovery, teardown | read-modify-write without a condition; the clock moves between | one holder, tokens grow |
| Evidence ledger (`warden/ledger.ts`) | table `evidence_ledger` | `recordEvent`, `verifyChain` | dispatcher, teardown, recovery, collector, broker | concurrent writers read the same head | contiguous, hash-linked, final once attested |
| Live dispatcher (`core/liveDispatcher.ts`) | local variables of one call | `executeRun` | state machine, providers, sandbox, teardown | a dozen awaits, each of which may fail or find the run taken | one driver of a run; every end goes through a teardown |
| Teardown engine (`core/teardownEngine.ts`, `attestation.ts`) | flags of one call | 13 steps, 12 predicates | providers, ledger, lease, state machine | steps fail one by one; two teardowns overlap; names may be stale | `clean_terminated` only with proof |
| Recovery engine (`core/recoveryEngine.ts`) | none | `recoverRun`, `recoverAllInFlightRuns` | run store, lease, providers | runs beside live handlers | nothing in flight is forgotten, nothing alive is broken |
| HTTP server (`server.ts`) | the engines | handlers for runs, dispatch, teardown, harvest, merge, tournament, inference, recovery, pruning, webhooks | all | any two requests may overlap | handlers keep the engines' preconditions |
| Ingress (`core/ingress.ts`) | none | `admitRequest` | run store, lease | find, create and lease are three requests | one run per idempotency key, with a lease |
| Multi-phase sequencer (`core/multiPhaseSequencer.ts`) | hashes and version of one call | `executeSequence` | dispatcher, run store, ledger | the run is `clean_terminated` between phases | a failed phase ends the run visibly; each tree is built on the last |
| Delegation dispatcher (`core/dispatcher.ts`, `delegation.ts`) | phase envelopes | `buildAndDispatchEnvelope` | dispatcher, table `phase_envelopes` | unique per run, phase, attempt | isolated policy, one envelope per attempt |
| Live runner (`core/liveRunner.ts`) | none | create, execute, propose, commit | store, dispatcher, harvest | several phases of failure | harvest only after a clean end |
| Inference broker (`core/inferenceBroker.ts`) | the run's budget | `brokerChat` | run store, ledger, worker | budget read before, written after the inference | spending is counted and bounded |
| Tournament (`core/tournament.ts`, `tournamentRepo.ts`) | table `tournament_arms` | create, update, evaluate, `selectWinner` | dispatcher, harvest | the winner is marked arm by arm | at most one winner, on the Pareto front |
| Harvest (`core/harvest.ts`) | git refs | test, authorize, propose, commit | git, ledger, GitHub | gates computed in one place, obeyed in another | nothing committed that a gate refused |
| PR merge and deployment (`core/prMergeCoordinator.ts`, `continuousDeployment.ts`, `prPublisher.ts`) | deployment history | merge, webhook, deploy | GitHub, ledger, git | webhooks repeat | one merge, one deployment |
| Tailscale pruner (`core/tailscalePruner.ts`) | timer, last result | `pruneStaleNodesAndKeys`, daemon | Tailscale, run store, ledger | cycles overlap, runs move on meanwhile | never removes a device in use or a protected one |
| Policy integrity, posture, ERG (`policyIntegrity.ts`, `nodeVerifier.ts`, `erg.ts`) | none | predicates | admission, dispatcher | boundary cases of paths and tags | what passes is within policy |
| exe.dev client (`adapters/exedev`) | the provider's VMs | create, status, rm, ls | dispatcher, teardown, recovery | names are reused, requests fail late | external |
| Tailscale client (`adapters/tailscale`) | the tailnet's devices | keys, list, expire, delete | dispatcher, teardown, recovery, pruner | 404 counts as done; devices of the same name | external |
| Collector, prober (`warden/`) | none | collect, probe | teardown, dispatcher, ledger | timeouts | outcome reported as it was |
| Watchdogs (`core/watchdog.ts`, lease manager) | timers | heartbeat, silence detection | systemd | fires once, is cancelled | silence is noticed |
| Metrics, diff engine, task decomposer, dashboard, JWT, bootstrap texts | counters, texts | formatting, parsing | - | - | not behaviour of the protocol |

The hazards of this code, each at its line and with the properties that would
catch it, are in `PROJECT.json` under `hazards`.

## 2. The modules

### `Phases`, `RunPhases`, `RunStateMachine`

`Phases` is the table of transitions. `RunPhases` is the abstract promise of
the state machine: the phase moves along the table and each move takes the next
version. `RunStateMachine` is `transition()` over the run store as it is built:

| Action | Code |
|---|---|
| `GetRun` | a caller reads the run before it asks for a transition |
| `ReadAndCheck` | the read of `transition()` and its five checks; a failed check throws and changes nothing |
| `CasReturns`, `CasAwaitsEvent` | the conditional UPDATE matched, without or with an event still to insert; `OutboxAtomic` chooses between the in-memory store and Supabase |
| `CasConflict` | no row matched |
| `CasReplyLost` | the UPDATE was applied and its request throws |
| `InsertEvent`, `InsertFails` | the INSERT into `events`, which may fail before or after it was applied |
| `Crash` | the caller's process dies: it knows nothing any more |

`history` and `broken` are auxiliary: the list of commits with who made them,
and the versions whose commit was cut off from its event.

### `LeaseManager`

One row of table `leases` and several calls on it. A call takes the time
(`Begin`), reads and checks the row (`ReadAndCheck`), reads it again inside
`upsertLease` (`ReadForUpsert`), and writes (`Write`); in between the clock
(`Tick`) and the other calls move. `Throw` ends a call anywhere without a
write. `overtaken` and `raced` are auxiliary: a call is overtaken when the row
is written between its read and its write, and the model has raced once an
overtaken call has written. They divide the behaviours into those where the
lease keeps its promises and those where it cannot. `forced` is auxiliary too:
whether the last lease was granted to a call with `force`.

`AtomicLease` is what the lease manager promises while no call has raced: a
lease is granted, extended or ended in one step, which decides by the row it
replaces and by a time not ahead of the clock. Once calls have raced it allows
everything. `LeaseManager` implements it with its own `lease`, `now`, `raced` and
`forced`; the step is the `Write` of a call that was not overtaken, and its time
is the one with which the call began.

### `EvidenceLedger`

The chain of one run. A writer reads the head (`ReadHead`), signs, and inserts
(`Insert`); the key on `(run_id, sequence)` rejects a taken sequence
(`InsertFails`), and a reply may be lost (`InsertReplyLost`). `verifyChain` is
the verification of teardown step 12, and remembers what it attested. A hash is
modelled by the place of its record, which is as unique.

`EvidenceLog` is the promise: a log to which a record is added in one step, of
which its writer may be told the place. `EvidenceLedger` implements it: the log
is the writers of the rows, an answer is a record that was returned with its
sequence, and the step is the insert, so that `recordEvent` is linearizable.

### `RunLifecycle`

The composition: `executeRun`, `executeTeardown`, `recoverRun` and the handlers
that start them, working on one run, one sandbox name at exe.dev and the
devices of its VMs at Tailscale. A handler has a label (`pc`) and the variables
the code keeps (`local`: the phase and version it believes in, the device it
knows, the evidence flags of its teardown). A transition is one step here, with
three outcomes (it succeeds, it throws without effect, it throws after it was
applied): this is what module `RunStateMachine` implements, and why its
properties matter. VMs of the same name are numbered in the order of their
creation, and a VM's number is also its device, so that "the VM is gone" and
"*another* VM is gone" can be told apart. A device is `listed`, `deauthorized`
(expelled, but still in the inventory) or `gone`.

| Action | Code |
|---|---|
| `Dispatch` ... `Supervise` | `executeRun` from the handler's read of the run to the collected output |
| `Abandon`, `Catch` | its catch block: quarantine a run still `created`, else tear down with the snapshot it has |
| `RequestTeardown` | `POST /runs/:id/teardown`, with the names in the body or the defaults |
| `MarkTerminal` ... `Finish` | steps 1, 2-3, 5, 6, 7, 8, 9 and 10-13: `DeauthorizeNode` and `DeleteNode` are two requests that fail apart, and either satisfies the attestation |
| `Reconcile`, `ListInFlight`, `SweepNode`, `SweepVm`, `Quarantine` | `recoverRun`, on request or at boot |
| `NodeEnrolls`, `NodeExpires` | what the VM and Tailscale do by themselves |
| `Crash` | the process dies with all its handlers and starts a recovery |

`RunLifecycle` implements `RunPhases` as `RunStateMachine` does, with `phase` and
`version` as they are. `storeFailed`, `stray` and `unproven` are auxiliary:
whether a request to the store has failed (`StoreFault`; a provider's failure is
an `OtherFault`), whether the VM was created for a
dispatcher that no longer had the run, and which parts of the last clean
attestation were taken on trust (a failed query, a default name, an unknown
device, a deletion that failed after the device was deauthorized).

### The fleet: `Disturbances`, `FleetStore`, `RunRegistry`, `Admission`, `InferenceBroker`, `TailscalePruner`, `BootRecovery`, `Fleet`

`RunLifecycle` looks at one run and sees every request of its handlers. `Fleet`
looks at several runs and at the engines that work across them. `FleetStore`
holds what they share: the rows of `factory_runs` in the order of their
creation, a lease per run, the devices and auth keys of the tailnet. Dispatcher
and teardown appear as what they do to these tables (`Advance`, `Enrol`,
`FindDevice`, `RemoveDevice`); a row is `driven` while a handler works on it.
Hostnames repeat from one dispatch of a run to the next, and `FindDevice` takes
the first device on the list that has the run's: it may be one that an earlier
dispatch left behind. `since`, how many devices had enrolled when the run was
last dispatched, is auxiliary and tells the two apart. A teardown releases the
lease as it ends, unless its request fails or it was called with another token.

| Module | Code | Steps |
|---|---|---|
| `Admission` | `POST /runs`, `admitRequest` | `Submit` (all checks of the request), `FindByIdempotencyKey`, `CreateRun`, `AcquireLease`; `Retry` is the client that sends a failed request again; `LaunchLiveRun` is `executeLiveRun`, which inserts a run (of key `LiveKey`) and takes no lease |
| `InferenceBroker` | `brokerChat` | `BeginChat` (allowlist), `ReadBudget`, `ResolveWorker`, `Infer`, `WriteBudget` |
| `TailscalePruner` | `pruneStaleNodesAndKeys`, daemon, `POST /tailscale/prune` | `ListDevices`, `Judge` and `CheckLease` per device, `DeauthorizeNode`, `DeleteDevice`, `VerifyAbsence`, then `ListKeys`, `DeleteAuthKey`, `Audit` |
| `BootRecovery` | `recoverAllInFlightRuns` at boot | `ListInFlightRuns` (newest `PageSize` rows, filtered afterwards), then per run `ReacquireLease`, `SweepDevice`, `QuarantineRun` |
| `Fleet` | the server | all of these beside each other, and `Crash` |

`RunRegistry` is the abstract promise of admission, a map from keys to runs that
only grows and the answers given from it; `Admission` implements it under the
refinement mapping at its end. Each row of the table implements `RunPhases`
(`RowsAreRuns`), as the runs of `RunStateMachine` and `RunLifecycle` do: the
three models agree on what a run is. `cutShort`, `billed`, `uncounted` and `missed`
are auxiliary: they record which admissions ended before their lease, what the
worker has served, which inferences were lost to the budget, and which runs the
recovery could not see or lost to a failed request.

Recovery sweeps and re-leases also a run that its list shows as `created` and
that is dispatched meanwhile; the quarantine then does not happen, because
`recoverRun` judges by the phase it listed. The model follows the code.

### The delivery: `DeliveryStore`, `EffectGate`, `PhaseSequence`, `Arbitration`, `Tournament`, `Harvest`, `MergeAndDeploy`, `Delivery`

The way of one run from its dispatch to a deployment. `DeliveryStore` holds the
run's row, its phase envelopes, what its evidence chain says, the harvest
commits, the branch and the pull requests. A tree is named by the changes that
lead to it from the run's parent.

| Module | Code | Steps |
|---|---|---|
| `EffectGate` | `erg.ts` | `matchesPathPattern` as the regular expression the code builds, beside `IsGlobMatch`, what its comment promises |
| `PhaseSequence` | `multiPhaseSequencer.ts`, `dispatcher.ts`, `verifyPhasePreflight`, `executeRun` as the sequencer sees it | `Dispatch`, `Provision` (with the preflight), `RecordEnvelope`, `Supervise`, `Reconcile` (the gate), `Teardown`, `RecordOutputs`, `Propagate` |
| `Arbitration` | `evaluateArms` | operators: eligibility, Pareto dominance, utility, scores, the recommended arm |
| `Tournament` | `selectWinner` and the tournament handlers | `RegisterArm`, `RequestSelection`, `RankArms`, `CheckCandidate`, `ListArms`, `MarkNext` (one UPDATE per arm), `RecordSelection` |
| `Harvest` | `harvest.ts`, the harvest handlers, the end of `liveRunner.ts` | `ReadRun`, `ReadArms`, `ReadEnvelopes`, `AuthorizeHarvest`, `CommitTree`, `RecordCommit`, `PushBranch`, `OpenPullRequest`, `RecordPullRequest` |
| `MergeAndDeploy` | `prMergeCoordinator.ts`, `continuousDeployment.ts` | `RequestMerge`, `DeliverWebhook`, `Attest`, `ResolvePull`, `GetPullRequest`, `GetReviews`, `MergePullRequest`, `RecordMerge`, `Deploy`; reviewers `Approve` and `Label` |
| `Delivery` | the server, `liveRunner.ts`, the issue trigger | the composition, and `AdmitIssue`, `LaunchLiveRun`, `HarvestLiveRun` |

The phases between provisioning and terminal are one, `in_progress`, and a
teardown is one step that ends in one of two phases or throws: `RunLifecycle` is
where these are taken apart. A crash is not modelled apart here: the handlers
keep nothing, so that it is a request that fails and a handler that goes no
further. Trees, `accepted`, `mishaps` and the flags `late`, `blind` and `latest`
of a harvest are auxiliary.

`CommitTree` resolves the tree as `commitHarvestRef` does (`ResolvedTree`): the
claimed tree if it is an object of the repository and git answers, else that of
the parent, else the empty tree, each of which becomes a real commit; if git
fails to make the commit, a hash takes its place and nothing is pushed. Up to
three requests fail in this step (`Faults`); `failed`, part of the commit's
record, is auxiliary.

### Proof modules

`RunStateMachineProofs`, `LeaseManagerProofs`, `EvidenceLedgerProofs`,
`RunLifecycleProofs`, `FleetProofs` and `DeliveryProofs` hold the theorems about
the module they are named after. `HarvestProofs` extends `DeliveryProofs` by the
tournament, the phases and the harvests, and `GateProofs` extends that by the
gates and the types of `Delivery`. `MCRunLifecycle` adds a symmetry set for TLC; `MCFleet` and
`MCDelivery` hold the scenarios and the values of the constants.

## 3. What the runs check

| Run | Question | Result |
|---|---|---|
| `run_store` | Do three callers (one of another tenant) with stale knowledge, lost replies, failed inserts and crashes always leave one chain of permitted transitions and a true outbox? Does it implement `RunPhases`? | yes |
| `lease` | What do the token and the holder guarantee when two calls overlap? | everything, until a call writes over a row it has not read: the calls implement `AtomicLease` |
| `ledger` | Is the unique key enough to keep the chain valid, attested prefixes final and acknowledged records in place? | yes, and the writers implement `EvidenceLog` |
| `lifecycle` | Two dispatches, a teardown and a reconcile with one failing request: who drives the run, who may destroy its VM, what is a clean attestation worth? | of the dispatchers one drives it (two teardowns of a run in terminal may both hold it, as both skip step 1); a VM in use is destroyed only by a recovery or a teardown that lost the run; a clean run with a VM or a device left has one of the causes named in `CleanIsProvenOrExplained` |
| `lifecycle_recovery` | Is there always a handler that attends to a run in flight, and does the run end, although providers fail and the server crashes? | yes, unless a request to the store fails |
| `fleet` | Admissions, inferences, prune cycles and recoveries beside each other, with failing requests and a crash: does a key keep one run, which run stays without a lease, what is the stored cost worth, is a device in use ever removed, what does a recovery miss, do leftovers go in the end? | one run per key (`Admission` implements `RunRegistry`); a run without a lease is the live runner's, or one whose admission was cut short; the stored cost is a lower bound, exact until inferences overlap or fail; no device in use is expelled before it has expired, unless an earlier dispatch left it behind; a recovery misses what is behind `PageSize` newer runs; leftovers go |
| `delivery` | Sixteen scenarios of overlapping requests with up to two failures: which arm is recommended, does one winner remain, what passes the gates, which tree is harvested, which commit is merged and deployed? | as the properties say, each with the exceptions it names: overlapping selections, stars after a dot, repeated phases and failed reads, trees that are no object and requests to git that fail, branches that are pushed again after an approval |
| `outbox` | "... in the same transaction as the state mutation" | refuted |
| `lease_overlap` | "fencing token strictly increases on every acquisition" | refuted for overlapping calls |
| `lifecycle_outage` | "CLEAN_TERMINATED is impossible when ... VM destruction ... cannot be proven" | refuted: an error of the status query counts as proof |
| `lifecycle_terminal` | "every phase transition is ... recoverable after restart" | refuted for `terminal` |
| `delivery_issue` | "Dispatches execution via LiveSandboxRunner" (of a labelled issue) | refuted: the live runner inserts the row that admission has inserted, and is refused |

Findings quote the lines of the documents and of the code (`PROJECT.json`).

### Bounds

* `RunStateMachine`: 3 callers, versions up to 4. Three transitions let a
  caller be two versions behind, which is as stale as the code can tell; the
  third caller is of another tenant. The proofs have no such bounds.
* `LeaseManager`: 2 calls in flight, 2 workers, 3 acquisitions, clock 1..3 and
  a lease of one tick: a lease can be granted, expire and be granted again
  while a call waits. Tick is the only time; `ttl` and `extensionMs` are the
  same number.
* `EvidenceLedger`: the number of writers and records is in the cfg; every
  overlap of two writers and of a writer with the verification occurs.
* `RunLifecycle`: `MaxVersion` keeps new dispatches from starting late,
  `MaxBoots` bounds the VMs, `MaxFaults` the failing requests, `MaxCrashes` the
  crashes. One fault suffices for every partial failure of a single teardown;
  `lifecycle_outage` uses two. One VM is created in these runs; what a second
  phase adds, with a second VM of the same name and maybe the device of the
  first, is left to the proofs, which hold for any number of VMs and versions.
  Two dispatchers are interchangeable, so
  `MCRunLifecycle.cfg` uses symmetry; the liveness runs do not.

* `Fleet`: 3 runs, 2 devices, 2 keys, versions up to 5, `PageSize` 2. A workload
  says what occurs in one behaviour, so that the state space is the sum of the
  scenarios of `MCFleet` and not their product: two admissions of one key with a
  crash, all drafts of a request, an admission beside the live runner and a crash, two inferences that overlap or meet a crash, a
  run beside the daemon and time, a run beside daemon, crash and recovery, three
  runs behind a page of two, and each kind of stranger on the tailnet before two
  cycles. One or two requests fail in each.
  The versions let a run be dispatched twice, so that its second dispatch can
  take a device that a prune cycle has judged already.
* `Delivery`: one run, two phases, five arms, two selections, three dispatches,
  three live runs, three harvests, two merges, two webhooks, two commits and two
  pull requests. Arms differ in two values of each metric that a strategy
  weighs, with one gap of latency that is large enough to overrule a cent.
  Globs and digests are enumerated over four patterns, three paths and all
  combinations of digest and content. A utility is computed in steps of 1/100000
  with the default weights, and coverage in whole percents; the glob character
  `?` is left out.

`fleet`, `delivery` and `delivery_issue` turn the deadlock check off: the requests of a scenario
are bounded, and when all are answered nothing is left to do.

`lifecycle_outage` turns the deadlock check off: with its one dispatcher and its
bounds on VMs and versions the model stops where the server would wait for the
next request.

### Fairness

`FairSpec` of `RunLifecycle`: weak fairness of each handler's next step. Node's
event loop runs every ready continuation, and each await of these handlers ends:
the loops of the dispatcher have deadlines (`maxWaitBootMs`, 90 s for health, the
TTL of the execution), and a request to a provider or the store returns or
throws. New requests, failures, crashes, enrolment and expiry have no fairness.
`InFlightEnds` and `TerminalIsRecovered` are checked under it.
`InFlightIsAttended` is the safety half of the first: the handler that fairness
drives is there.

`FairSpec` of `Fleet`: weak fairness of the daemon alone. `setInterval` fires
again and again (`DaemonStarts`), and every await of the cycle returns or throws
(`DaemonSteps`). `LeftoversArePruned` is checked under it: failures are finite
in number, as the bound says, so that one cycle meets none.

## 4. What is proved

For every set of callers, workers, writers, requests, runs, devices, arms and
dispatches and every bound, from the named assumptions of the constants alone:
`ConstantsAssumption` of the single modules; `BoundsAssumption`,
`ScenariosAssumption`, `KeysOfAssumption`, `BudgetAssumption` and
`PageAssumption` of the fleet; `BoundsAssumption`, `BehavioursAssumption`,
`ArmsAssumption`, `LiveRunsAssumption`, `PlansAssumption`, `NamesAssumption`,
`GatesAssumption`, `OptionsAssumption` and `IssuesAssumption` of the delivery.

* **RunStateMachine**. `IInv` adds to the five invariants of the run what makes
  them inductive: a caller that passed the checks holds a request that the table
  permits; a caller between UPDATE and INSERT owns the commit of its version,
  and nobody else does; a commit's author is who the history says. From it
  follow `TypeCorrect`, `CommitsFormOneChain`, `OutboxIsTrue`,
  `CallersKnowHistory`, `GapsAreExplained`, and `Refinement`: each step is a
  step of `RunPhases` or leaves the run alone.
* **LeaseManager**. `IInv` says of a call that was not overtaken that the row it
  read is still the row, and of every pending call that its token is not ahead
  of the acquisitions. `TokenIsBounded` is an invariant, `ActiveLeasesAreSafe`
  and `TermsAreStable` (`TermIsStable`: a token names one term of one worker) are
  action properties that rest on it. So is `Refinement`: a call that was not
  overtaken has checked the very row it replaces, at a time that has passed, and
  `UnracedWriteIsACall` shows that this is one step of `AtomicLease`.
* **EvidenceLedger**. The chain is the simplest it could be: row *i* has
  sequence *i* and links to row *i*-1. `ChainVerifies`, `AttestationsAreFinal`
  and `AcknowledgedStays` (`AcknowledgedIsRecorded`: a returned record is in the
  chain, alone with its sequence) are consequences. `Refinement` maps the rows to
  `EvidenceLog`: an insert that passes the key takes the next place, and nothing
  else adds to the log or to the answers.
* **RunLifecycle**. `IInv` says of each handler what its variables are worth
  while others move: its snapshot of the run is old or it is the run
  (`Snapshot`); past the transition to provisioning it believes the run in
  flight (`Drives`); past step 1 of a teardown it has the run only while the run
  is in terminal (`Closes`); and the evidence of a teardown that has the run is
  true, unless it was taken on trust or a dispatcher that lost the run has
  created a VM since (`VmEvidence`, `NodeEvidence`: a teardown whose device check
  holds has deauthorized the device, and past step 6 has it gone or knows that
  the deletion failed). The evidence survives the
  steps of the others because nobody but such a stray brings a VM or a device
  back once the run is in terminal (`WorldKept`), and because whoever takes the
  run from the teardown moves its version, which ends its claim. Each action is
  shown to keep its own handler's invariant and this frame (`Kept`); one lemma,
  `FrameKeeps`, does the others. `OneDriverHolds`, `CleanIsProven` and the action
  property `VmIsSafe` follow.

  `RunsInFlightAreAttended` takes `IInv` and `InFlightIsAttended` together. A step
  of a handler *tends* (`Tends`) when it leaves the run alone and goes on
  attending, if it did, or moves the run and attends to it from then on or ends
  its flight, or when a request to the store fails in it. Each step of
  `executeRun`, of a teardown and of a recovery is shown to tend: whatever throws
  in `executeRun` goes to the catch block, and that goes to step 1 of the
  teardown with the run as it is stored. `TendsKeeps` is the rest: the others
  keep what they hold of a run that rests. `Refinement`: the run moves only by
  `Advance`, which is a transition of `RunPhases`.

* **Fleet**. `FleetInv` is one invariant per engine beside `StoreInv`, which has
  the types of the tables and says that only a quarantined run has a version
  past the bound and that a run works on a device of its own name. The engines
  are framed against each other by two facts about what a step of one may do
  to the tables of the others (`StoreIsKept`, `NoneIsStranded`).
  `AdmissionInv`: named keys are unique, each request past the checks has passed them,
  and its run is the one of its key. `BrokerInv`: a request past the comparison
  has read a budget below the limit, and no more than was served. `MeterInv`: what
  was served and not yet stored is the sum of the costs about to be written, over
  finitely many requests; a step changes one request, so that a sum falls apart
  into that request and the others (`OwedIsShared`). `PrunerInv`: a
  cycle about to expel has a device that is stale (`IsStale`): it has expired, or
  its run is over, or is in the hands of a dispatch that began when the device had
  enrolled already. No step takes such a verdict back (`VerdictsAreKept`), since a
  new dispatch counts the devices there are.
  `RecoveryInv`: a stranded run is missed or still on the list as it was. From
  them follow `TypeCorrect`, `UnleasedRunsAreExplained`, `AdmissionsAreExact`,
  `StoredCostsAreSound`, `SpendIsMetered`, `PruningSparesRuns`, `VerifiedDevicesAreRemovable` and
  `StrandedRunsAreExplained`; and `AdmissionImplementsRegistry`: the insert of a
  run is `Register`, an answer is `Answer`, and every other step of the fleet
  leaves the registry alone. `RowsFollowRunPhases` needs `StoreInv` and that the
  recovery's list has rows of the table: an insert begins a run, a dispatcher's
  step and a quarantine by a snapshot that still fits move one, the rest moves
  none. This property, `TermIsStable`, `AcknowledgedIsRecorded` and
  `ImplementsRunPhases` of `RunLifecycle` are proved and in no run.
* **Delivery: harvests, merges, deployments** (`DeliveryProofs`). `DeliveryInv`
  is `HubInv`, that the branch and every head of a pull request are on record,
  that a merged head is, and that an approved open head is the branch unless it
  was pushed again; `HarvestInv` and `MergeInv`, what each handler knows of it.
  `HubGrows` says that nothing is taken back, which keeps the knowledge of one
  handler through the steps of the others. From them follow `MergesAreAttested`
  and `MergedHeadsAreReviewed`. `IssueRunsNeverStart`, that no
  dispatch of an issue's run begins, is inductive with `IssueInv`: an issue that
  gets as far as the live runner has a row, so that the insert of its run is
  rejected. `delivery_issue` shows the same of one issue as a violation of what
  the code announces.
* **Delivery: tournament and phases** (`HarvestProofs`). `ArmsInv`: a selection
  that is alone has seen every winner or still has it to mark. `SequenceInv`:
  which dispatch owns a phase envelope, that names are unique, and that the
  accepted tree is, or will be, in one envelope which no later one overrides
  (`LatestAt`). `LiveInv`: a live run is dispatched once before it is harvested.
  `FindsInv` and `CommitsInv`: what a harvest has found, and what it has
  committed, is attested, and a commit holds what it claims or what `ResolvedTree`
  falls back to. `OneWinnerRemains`, `HarvestsAreAttested` and
  `LatestTreesAreHarvested` follow.
* **Delivery: gates and types** (`GateProofs`). The regular expression that the
  code builds from a glob accepts the paths that the glob's comment promises,
  unless a star follows a dot; every path matches itself; hence the gate passes
  the lawful sets of files and no others. `GateInv` carries the verdict and the
  preflight through a dispatch. `GatesRemainExact` follows, and from `TypesInv`
  `TypeCorrect`.

* **Delivery: the recommended arm** (`GateProofs`). Domination is transitive and
  lowers the sum of an arm's losses, so that in a finite set a dominated arm is
  dominated by one that is not (`DominatedByTheBest`). The recommended arm has the
  lowest score (`RecommendedIsFirst`), and an arm that would beat it in the
  metric of the strategy must lose by the other terms of the score as much as
  `RecommendationIsSound` says. `RecommendationsAreSound` follows with the
  invariant that only a registration brings metrics in. `ArmsAssumption` has the
  metrics integers: cents, milliseconds, lines and percents.

What the prover knows of a sum or a least element over a finite set is obtained
without induction: of the subsets for which the statement fails, one of least
cardinality is taken, and one element is taken from it.

Only the liveness properties `InFlightEnds` and `LeftoversArePruned` are
model-checked without a proof: liveness under fairness is beyond the prover.
`InFlightIsAttended` is the part of the first that can be proved.

## 5. What remains

In this order:

1. Proofs: an abstract delivery, in which one request at a time harvests, merges
   and deploys, and what of it `Delivery` implements while requests overlap.
2. A composition of dispatcher and lease that shows what a worker with a stale
   fencing token can do. Each half is there: `LeaseManager` has tokens that may
   repeat, `RunLifecycle` a store that compares none.
3. The collector and the network prober (`warden/`), whose results teardown and
   ledger take as they come.
4. The cache of the OAuth token of the Tailscale client, and its renewal beside
   requests in flight.
5. `executeFrozenTestSuite` and `startLivenessWatchdog`, once something calls
   them.

## 6. Not modelled

* Cryptography (a hash or signature is as unique as what it is of), HTTP and
  JSON, the texts of setup scripts, metrics, diffs for display, the dashboard,
  and the task decomposer's text heuristics.
* Code that nothing calls: `StaleCallbackRejector` is consulted by nothing,
  `startLivenessWatchdog` and `resolveModelFallback` have no caller but tests,
  `executeFrozenTestSuite` is imported and never called. The systemd heartbeat
  is a timer on which no state depends.
* The lease does not appear in `RunLifecycle`, because the run store compares no
  fencing token: the dispatcher passes 1 and `transition()` copies it to its
  result.
* The evidence that `prepareHarvestProposal` reads for its advisory gates: no
  component writes the records it looks for (`erg_result`, `test_result`,
  `evidence_attested`), and the handlers ignore `blockingReasons`. The drift
  evidence of the preflight is a record that nothing reads.
* In the delivery: the glob character `?`; how a deployment script, its probe or
  its record fails (a deployment is the commit that was deployed); a merge
  request that names the pull request of another run, as the model has one run;
  comments and labels that the server puts on issues. The digest of 64
  zeros with which an issue is admitted matters to no run, since none of them
  is dispatched.
* A crash in `Delivery`, where a handler that goes no further stands for it:
  `RunLifecycle` has it. In the fleet, which of a run's handlers makes a
  transition, and the fencing token that a teardown is called with: the release
  of the lease succeeds or not.
