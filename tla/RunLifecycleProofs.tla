------------------------- MODULE RunLifecycleProofs -------------------------
(***************************************************************************)
(* What RunLifecycle's handlers keep true of the run and its sandbox, for  *)
(* any number of handlers, VMs, failing requests and crashes.              *)
(***************************************************************************)
EXTENDS RunLifecycle, TLAPS

Closing ==
  {"revoke", "deauthorize", "delete", "destroy", "confirm", "probe", "finish"}
Shut == {"deauthorized", "gone"}
DrivingPhases == {"provisioning", "delegated", "in_progress"}

-----------------------------------------------------------------------------
(* The invariant *)

\* A handler's snapshot of the run is old, or it is the run.
Snapshot(h) ==
  /\ local[h].run.version <= version
  /\ local[h].run.version = version => local[h].run.phase = phase

\* Past provisioning, a dispatcher believes the run to be in flight.
Drives(h) == pc[h] \in Driving => local[h].run.phase \in DrivingPhases

\* Past step 1, a teardown has the run only if it is still in terminal.
Closes(h) ==
  pc[h] \in Closing =>
    /\ local[h].terminal <= version
    /\ local[h].terminal = version => phase = "terminal"

Owns(h) == pc[h] \in Closing /\ local[h].terminal = version

\* What the teardown that has the run believes of the VM is true, unless it
\* took it on trust or a dispatcher that lost the run has created it since.
VmEvidence(h) ==
  Owns(h) /\ local[h].vm =>
    /\ pc[h] = "confirm" => ~local[h].named \/ vm = 0 \/ stray
    /\ pc[h] \in {"probe", "finish"} =>
         "vm" \in local[h].trust \/ vm = 0 \/ stray

NodeGone == boots = 0 \/ node[boots] = "gone" \/ stray

NodeShut == boots = 0 \/ node[boots] \in Shut \/ stray

\* The same of the node: it is deauthorized, and gone when the deletion is not
\* taken on trust.
NodeEvidence(h) ==
  /\ Owns(h) /\ pc[h] = "delete" =>
       "node" \in local[h].trust \/ local[h].device = boots \/ stray
  /\ Owns(h) /\ local[h].ts /\ pc[h] \notin {"revoke", "deauthorize"} =>
       /\ "node" \in local[h].trust \/ NodeShut
       /\ pc[h] # "delete" =>
            \/ "node" \in local[h].trust \/ "deletion" \in local[h].trust
            \/ NodeGone

HandlerInv(h) ==
  Snapshot(h) /\ Drives(h) /\ Closes(h) /\ VmEvidence(h) /\ NodeEvidence(h)

CleanIsExplained ==
  phase = "clean_terminated" =>
    /\ "vm" \in unproven \/ vm = 0 \/ stray
    /\ "node" \in unproven \/ NodeShut
    /\ "node" \in unproven \/ "deletion" \in unproven \/ NodeGone

IInv ==
  /\ TypeOK
  /\ \A h \in Handlers : HandlerInv(h)
  /\ OneDriver
  /\ CleanIsExplained

-----------------------------------------------------------------------------
(* What a step of a handler does to the rest *)

Others(h) ==
  \A g \in Handlers \ {h} : pc'[g] = pc[g] /\ local'[g] = local[g]

RunMoves == (phase' = phase /\ version' = version) \/ version' = version + 1

\* Once the run is in terminal, a VM that appears is a stray, and a node
\* that is deauthorized or gone stays so.
WorldKept ==
  phase \in {"terminal", "clean_terminated"} =>
    \/ stray'
    \/ /\ stray' = stray /\ boots' = boots /\ vm' \in {0, vm}
       /\ boots # 0 /\ node[boots] = "gone" => node'[boots] = "gone"
       /\ boots # 0 /\ node[boots] \in Shut => node'[boots] \in Shut

CleanKept ==
  phase' = "clean_terminated" => phase' = phase /\ unproven' = unproven

\* A handler enters the phases of driving by a transition of its own.
DriverEnters(h) ==
  version' = version /\ pc'[h] \in Driving =>
    pc[h] \in Driving /\ local'[h].run = local[h].run

Frame(h) == Others(h) /\ RunMoves /\ WorldKept /\ DriverEnters(h)

\* Handler h goes on at a label with the values l of its variables.
Moves(h, label, l) ==
  /\ pc' = [pc EXCEPT ![h] = label]
  /\ local' = [local EXCEPT ![h] = l]

-----------------------------------------------------------------------------
(* Types *)

RunRecord == [phase : Phase, version : Nat]

\* The values of a handler's variables.
LEMMA LocalFields ==
  ASSUME TypeOK, NEW h \in Handlers
  PROVE  /\ local[h] \in Local /\ local[h].run \in RunRecord
         /\ local[h].run.version \in Nat /\ local[h].run.phase \in Phase
         /\ local[h].terminal \in Nat /\ local[h].device \in {0} \cup Vms
         /\ local[h].trust \subseteq Trusts
BY DEF TypeOK, Local, RunRecord

\* A handler's variables keep their kinds when one or two are assigned, and
\* what a teardown took the run with, unless that is assigned.
SameRun(l, m) == l.run = m.run /\ l.terminal = m.terminal

\* The snapshot of the run is replaced.
LEMMA RunUpdated ==
  ASSUME NEW l \in Local, NEW r \in RunRecord
  PROVE  [l EXCEPT !.run = r] \in Local /\ [l EXCEPT !.run = r].run = r
BY DEF Local, RunRecord

\* The version after step 1 is noted.
LEMMA TerminalUpdated ==
  ASSUME NEW l \in Local, NEW v \in Nat
  PROVE  LET m == [l EXCEPT !.terminal = v] IN
         m \in Local /\ m.run = l.run /\ m.terminal = v
BY DEF Local

\* The device is noted.
LEMMA DeviceUpdated ==
  ASSUME NEW l \in Local, NEW k \in Vms
  PROVE  LET m == [l EXCEPT !.device = k] IN m \in Local /\ SameRun(m, l)
BY DEF Local, SameRun

\* The try block is entered or left.
LEMMA TryingUpdated ==
  ASSUME NEW l \in Local, NEW b \in BOOLEAN
  PROVE  LET m == [l EXCEPT !.trying = b] IN m \in Local /\ SameRun(m, l)
BY DEF Local, SameRun

\* The evidence of the credentials.
LEMMA CredUpdated ==
  ASSUME NEW l \in Local, NEW b \in BOOLEAN
  PROVE  LET m == [l EXCEPT !.cred = b] IN m \in Local /\ SameRun(m, l)
BY DEF Local, SameRun

\* The evidence of the probe.
LEMMA ProbeUpdated ==
  ASSUME NEW l \in Local, NEW b \in BOOLEAN
  PROVE  LET m == [l EXCEPT !.probe = b] IN
         /\ m \in Local /\ SameRun(m, l)
         /\ m.vm = l.vm /\ m.ts = l.ts /\ m.trust = l.trust
BY DEF Local, SameRun

\* The evidence of the VM.
LEMMA VmUpdated ==
  ASSUME NEW l \in Local, NEW b \in BOOLEAN
  PROVE  LET m == [l EXCEPT !.vm = b] IN
         /\ m \in Local /\ SameRun(m, l) /\ m.vm = b
         /\ m.named = l.named /\ m.ts = l.ts /\ m.trust = l.trust
BY DEF Local, SameRun

\* The evidence of the node.
LEMMA TsUpdated ==
  ASSUME NEW l \in Local, NEW b \in BOOLEAN
  PROVE  LET m == [l EXCEPT !.ts = b] IN
         m \in Local /\ SameRun(m, l) /\ m.ts = b /\ m.trust = l.trust
BY DEF Local, SameRun

\* What the evidence rests on.
LEMMA TrustUpdated ==
  ASSUME NEW l \in Local, NEW t \in SUBSET Trusts
  PROVE  LET m == [l EXCEPT !.trust = t] IN
         m \in Local /\ SameRun(m, l) /\ m.ts = l.ts /\ m.trust = t
BY DEF Local, SameRun, Trusts

\* A handler that has nothing holds values of their kinds.
LEMMA NothingTyped == Nothing \in Local /\ Nothing.run.version = 0
BY DEF Nothing, Local, Phase, Vms

\* What a handler's step leaves of the others, and of the types.
LEMMA MovesTyped ==
  ASSUME TypeOK, NEW h \in Handlers, NEW label \in Labels, NEW l \in Local,
         Moves(h, label, l)
  PROVE  /\ pc' \in [Handlers -> Labels] /\ local' \in [Handlers -> Local]
         /\ Others(h) /\ pc'[h] = label /\ local'[h] = l
BY DEF TypeOK, Moves, Others

\* What a caller holds after a transition is a run.
LEMMA AfterTyped ==
  ASSUME TypeOK, NEW h \in Handlers, NEW target \in Phase
  PROVE  After(local[h].run, target) \in RunRecord
BY LocalFields DEF After, RunRecord

-----------------------------------------------------------------------------
(* The invariant of the handler that moves *)

\* It rests: it neither drives the run nor closes it.
LEMMA Rests ==
  ASSUME IInv, TypeOK', NEW h \in Handlers, RunMoves,
         pc'[h] \notin Driving \cup Closing,
         \/ local'[h].run = local[h].run
         \/ local'[h].run = Stored'
         \/ local'[h] = Nothing
  PROVE  HandlerInv(h)'
<1>1. Snapshot(h)'
  BY LocalFields, NothingTyped
  DEF IInv, TypeOK, HandlerInv, Snapshot, RunMoves, Stored
<1>2. QED
  BY <1>1 DEF HandlerInv, Drives, Closes, VmEvidence, NodeEvidence, Owns

\* It drives on, or by a transition of its own.
LEMMA DrivesOn ==
  ASSUME IInv, TypeOK', NEW h \in Handlers, RunMoves, pc'[h] \in Driving,
         \/ pc[h] \in Driving /\ local'[h].run = local[h].run
         \/ local'[h].run = Stored' /\ phase' \in DrivingPhases
  PROVE  HandlerInv(h)'
<1>1. Snapshot(h)'
  BY LocalFields DEF IInv, TypeOK, HandlerInv, Snapshot, RunMoves, Stored
<1>2. Drives(h)'
  BY DEF IInv, HandlerInv, Drives, Stored
<1>3. pc'[h] \notin Closing
  BY DEF Driving, Closing
<1>4. QED
  BY <1>1, <1>2, <1>3
  DEF HandlerInv, Closes, VmEvidence, NodeEvidence, Owns

\* It goes through the steps of a teardown, while the run rests.
LEMMA ClosesOn ==
  ASSUME IInv, TypeOK', NEW h \in Handlers,
         phase' = phase, version' = version,
         pc[h] \in Closing, pc'[h] \in Closing,
         local'[h].run = local[h].run,
         local'[h].terminal = local[h].terminal
  PROVE  Snapshot(h)' /\ Drives(h)' /\ Closes(h)' /\ (Owns(h)' <=> Owns(h))
BY DEF IInv, HandlerInv, Snapshot, Drives, Closes, Owns, Driving, Closing

-----------------------------------------------------------------------------
(* The invariant of the others, and of the run *)

\* A handler's step that keeps its own invariant keeps that of the others,
\* and leaves the run with one driver.
LEMMA FrameKeeps ==
  ASSUME IInv, NEW h \in Handlers, TypeOK', Frame(h), HandlerInv(h)'
  PROVE  (\A g \in Handlers : HandlerInv(g))' /\ OneDriver'
<1>1. ASSUME NEW g \in Handlers \ {h}
      PROVE  Snapshot(g)' /\ Drives(g)' /\ Closes(g)'
  BY <1>1, LocalFields
  DEF IInv, TypeOK, HandlerInv, Snapshot, Drives, Closes, Frame, Others,
      RunMoves
<1>2. ASSUME NEW g \in Handlers \ {h}
      PROVE  VmEvidence(g)' /\ NodeEvidence(g)'
  <2>1. Owns(g)' => Owns(g) /\ phase = "terminal" /\ version' = version
    BY <1>2, LocalFields
    DEF IInv, TypeOK, HandlerInv, Closes, Owns, Frame, Others, RunMoves
  <2>2. QED
    BY <1>2, <2>1
    DEF IInv, TypeOK, HandlerInv, VmEvidence, NodeEvidence, NodeGone, NodeShut, Frame,
        Others, WorldKept
<1>3. (\A g \in Handlers : HandlerInv(g))'
  BY <1>1, <1>2 DEF HandlerInv
<1>4. OneDriver'
  <2> SUFFICES ASSUME NEW d \in Dispatchers, NEW e \in Dispatchers,
                      pc'[d] \in Driving, pc'[e] \in Driving,
                      local'[d].run = Stored', local'[e].run = Stored',
                      d # e
               PROVE  FALSE
    BY DEF OneDriver
  <2>1. d \in Handlers /\ e \in Handlers
    BY DEF Handlers
  <2>2. CASE version' = version
    <3>1. phase' = phase
      BY <2>2 DEF IInv, TypeOK, Frame, RunMoves
    <3>2. /\ pc[d] \in Driving /\ local[d].run = Stored
          /\ pc[e] \in Driving /\ local[e].run = Stored
      BY <2>1, <2>2, <3>1 DEF Frame, Others, DriverEnters, Stored
    <3>3. QED
      BY <3>2 DEF IInv, OneDriver
  <2>3. CASE version' = version + 1
    <3>1. \A g \in Handlers \ {h} : local'[g].run # Stored'
      BY <2>3, LocalFields
      DEF IInv, TypeOK, HandlerInv, Snapshot, Frame, Others, Stored
    <3>2. QED
      BY <2>1, <3>1
  <2>4. QED
    BY <2>2, <2>3 DEF Frame, RunMoves
<1>5. QED
  BY <1>3, <1>4

\* An attestation stays explained when no other is made.
LEMMA CleanStays ==
  ASSUME IInv, RunMoves, WorldKept, CleanKept
  PROVE  CleanIsExplained'
BY DEF IInv, TypeOK, RunMoves, WorldKept, CleanKept, CleanIsExplained, NodeGone, NodeShut

-----------------------------------------------------------------------------
(* A step of a handler, put together *)

RunTyped == phase \in Phase /\ version \in Nat \ {0}

FailuresTyped == faults \in 0 .. MaxFaults /\ storeFailed \in BOOLEAN

WorldTyped ==
  /\ boots \in 0 .. MaxBoots
  /\ vm \in {0, boots}
  /\ node \in [Vms -> Statuses]
  /\ FailuresTyped
  /\ crashes \in 0 .. MaxCrashes
  /\ stray \in BOOLEAN
  /\ unproven \subseteq Trusts

Kept(h) == TypeOK' /\ Frame(h) /\ HandlerInv(h)'

\* A handler goes to a label where it neither drives nor closes.
LEMMA GoesToRest ==
  ASSUME IInv, NEW h \in Handlers, RunTyped', WorldTyped', RunMoves, WorldKept,
         NEW label \in Labels \ (Driving \cup Closing), NEW l \in Local,
         Moves(h, label, l),
         l.run = local[h].run \/ l.run = Stored' \/ l = Nothing
  PROVE  Kept(h)
<1>1. TypeOK' /\ Others(h) /\ pc'[h] = label /\ local'[h] = l
  BY MovesTyped DEF IInv, TypeOK, RunTyped, WorldTyped, FailuresTyped
<1>2. HandlerInv(h)'
  BY <1>1, Rests
<1>3. QED
  BY <1>1, <1>2 DEF Kept, Frame, DriverEnters

\* A dispatcher goes on, or takes the run by a transition of its own.
LEMMA GoesDriving ==
  ASSUME IInv, NEW h \in Handlers, RunTyped', WorldTyped', RunMoves, WorldKept,
         NEW label \in Driving, NEW l \in Local, Moves(h, label, l),
         \/ pc[h] \in Driving /\ l.run = local[h].run
         \/ /\ l.run = Stored' /\ phase' \in DrivingPhases
            /\ version' = version + 1
  PROVE  Kept(h)
<1>1. label \in Labels
  BY DEF Driving, Labels
<1>2. TypeOK' /\ Others(h) /\ pc'[h] = label /\ local'[h] = l
  BY <1>1, MovesTyped DEF IInv, TypeOK, RunTyped, WorldTyped, FailuresTyped
<1>3. HandlerInv(h)'
  BY <1>2, DrivesOn
<1>4. DriverEnters(h)
  BY <1>2 DEF DriverEnters, IInv, TypeOK
<1>5. QED
  BY <1>2, <1>3, <1>4 DEF Kept, Frame

\* A teardown goes from one of its steps to the next; what is left to show is
\* its evidence.
LEMMA GoesClosing ==
  ASSUME IInv, NEW h \in Handlers, WorldTyped', WorldKept,
         phase' = phase, version' = version,
         NEW label \in Closing, pc[h] \in Closing,
         NEW l \in Local, Moves(h, label, l),
         l.run = local[h].run, l.terminal = local[h].terminal
  PROVE  /\ TypeOK' /\ Frame(h) /\ pc'[h] = label /\ local'[h] = l
         /\ Owns(h)' => Owns(h) /\ phase = "terminal"
         /\ VmEvidence(h)' /\ NodeEvidence(h)' => Kept(h)
<1>1. label \in Labels
  BY DEF Closing, Labels
<1>2. RunTyped' /\ RunMoves
  BY DEF RunTyped, RunMoves, IInv, TypeOK
<1>3. TypeOK' /\ Others(h) /\ pc'[h] = label /\ local'[h] = l
  BY <1>1, <1>2, MovesTyped DEF IInv, TypeOK, RunTyped, WorldTyped, FailuresTyped
<1>4. Snapshot(h)' /\ Drives(h)' /\ Closes(h)' /\ (Owns(h)' <=> Owns(h))
  BY <1>3, ClosesOn
<1>5. Owns(h) => phase = "terminal"
  BY DEF IInv, HandlerInv, Closes, Owns
<1>6. Frame(h)
  BY <1>2, <1>3 DEF Frame, DriverEnters, Driving, Closing
<1>7. QED
  BY <1>3, <1>4, <1>5, <1>6 DEF Kept, HandlerInv

\* executeRun's catch block, and the end of a handler.
LEMMA CatchKeeps ==
  ASSUME IInv, NEW h \in Handlers, RunTyped', WorldTyped', RunMoves, WorldKept,
         Catch(h)
  PROVE  Kept(h)
<1>1. PICK label \in {"abandon", "mark"} :
        Moves(h, label, [local[h] EXCEPT !.trying = FALSE])
  BY DEF Catch, Goto, Moves
<1>2. /\ [local[h] EXCEPT !.trying = FALSE] \in Local
      /\ [local[h] EXCEPT !.trying = FALSE].run = local[h].run
  BY LocalFields, TryingUpdated DEF IInv, SameRun
<1>3. label \in Labels \ (Driving \cup Closing)
  BY DEF Labels, Driving, Closing
<1>4. QED
  BY <1>1, <1>2, <1>3, GoesToRest

\* A handler ends.
LEMMA LeaveKeeps ==
  ASSUME IInv, NEW h \in Handlers, RunTyped', WorldTyped', RunMoves, WorldKept,
         Leave(h)
  PROVE  Kept(h)
<1>1. Moves(h, "idle", Nothing)
  BY DEF Leave, Goto, Moves
<1>2. "idle" \in Labels \ (Driving \cup Closing)
  BY DEF Labels, Driving, Closing
<1>3. QED
  BY <1>1, <1>2, NothingTyped, GoesToRest

\* A teardown that throws is caught or ends its handler.
LEMMA TeardownThrowsKeeps ==
  ASSUME IInv, NEW h \in Handlers, RunTyped', WorldTyped', RunMoves, WorldKept,
         TeardownThrows(h)
  PROVE  Kept(h)
BY CatchKeeps, LeaveKeeps DEF TeardownThrows

\* A request of any kind may have failed, or none.
Failing == StoreFault \/ OtherFault \/ NoFault

\* A request that fails is counted.
LEMMA FaultTyped ==
  ASSUME TypeOK, Failing
  PROVE  FailuresTyped'
<1>1. faults' \in 0 .. MaxFaults
  <2>1. CASE Fault
    BY <2>1, ConstantsAssumption DEF TypeOK, Fault
  <2>2. CASE NoFault
    BY <2>2 DEF TypeOK, NoFault, failures
  <2>3. QED
    BY <2>1, <2>2 DEF Failing, StoreFault, OtherFault
<1>2. storeFailed' = TRUE \/ storeFailed' = storeFailed
  BY Zenon DEF Failing, StoreFault, OtherFault, NoFault, failures
<1>3. QED
  BY <1>1, <1>2 DEF TypeOK, FailuresTyped

\* None has failed.
LEMMA FailuresRest ==
  ASSUME TypeOK, UNCHANGED failures
  PROVE  FailuresTyped' /\ Failing
BY FaultTyped DEF Failing, NoFault

\* What a transition does to the run.
LEMMA Returns ==
  ASSUME TypeOK, NEW was \in RunRecord, NEW target \in Phase,
         TransitionReturns(was, target)
  PROVE  /\ Stored = was /\ Stored' = After(was, target)
         /\ phase' = target /\ version' = version + 1
         /\ RunTyped' /\ RunMoves /\ FailuresTyped'
<1>1. FailuresTyped'
  BY FailuresRest DEF TransitionReturns, NoFault
<1>2. QED
  BY <1>1
  DEF TypeOK, TransitionReturns, Advance, Fits, Stored, After, RunTyped,
      RunMoves, RunRecord

\* What a transition that throws may have done to the run all the same.
LEMMA Throws ==
  ASSUME TypeOK, NEW was \in RunRecord, NEW target \in Phase,
         TransitionThrows(was, target)
  PROVE  /\ \/ phase' = phase /\ version' = version
            \/ phase' = target /\ version' = version + 1 /\ Stored = was
         /\ RunTyped' /\ RunMoves /\ FailuresTyped'
<1>1. Failing
  BY DEF TransitionThrows, Failing
<1>2. FailuresTyped'
  BY <1>1, FaultTyped
<1>3. QED
  BY <1>2
  DEF TypeOK, TransitionThrows, Advance, Fits, Stored, RunTyped, RunMoves,
      RunRecord, run

\* The sandbox, its providers and the attestation are left alone.
Elsewhere == UNCHANGED <<world, crashes, stray, unproven>>

\* A step elsewhere keeps the sandbox and the attestation.
LEMMA ElsewhereKept ==
  ASSUME IInv, Elsewhere, FailuresTyped'
  PROVE  WorldTyped' /\ WorldKept
BY DEF IInv, TypeOK, Elsewhere, world, WorldTyped, FailuresTyped, WorldKept

-----------------------------------------------------------------------------
(* executeRun *)

\* POST /runs/:id/dispatch begins with a snapshot of the run.
LEMMA DispatchKeeps ==
  ASSUME IInv, NEW d \in Dispatchers, Dispatch(d)
  PROVE  d \in Handlers /\ Kept(d) /\ CleanKept
<1>1. d \in Handlers /\ TypeOK
  BY DEF Handlers, IInv
<1>2. RunTyped' /\ RunMoves /\ Elsewhere /\ NoFault /\ Stored' = Stored
  BY <1>1
  DEF Dispatch, RunTyped, RunMoves, TypeOK, run, Elsewhere, NoFault, Stored
<1>3. WorldTyped' /\ WorldKept
  BY <1>1, <1>2, FailuresRest, ElsewhereKept DEF NoFault
<1>4. Moves(d, "provision", [Nothing EXCEPT !.run = Stored])
  BY DEF Dispatch, Goto, Moves
<1>5. /\ [Nothing EXCEPT !.run = Stored] \in Local
      /\ [Nothing EXCEPT !.run = Stored].run = Stored
  <2>1. Stored \in RunRecord
    BY <1>1 DEF Stored, RunRecord, TypeOK
  <2>2. QED
    BY <2>1, NothingTyped, RunUpdated
<1>6. "provision" \in Labels \ (Driving \cup Closing)
  BY DEF Labels, Driving, Closing
<1>7. Kept(d)
  BY <1>1, <1>2, <1>3, <1>4, <1>5, <1>6, GoesToRest
<1>8. QED
  BY <1>1, <1>2, <1>7 DEF CleanKept, Dispatch, run


\* What every action of a handler keeps.
ActorKeeps(h) == h \in Handlers /\ Kept(h) /\ CleanIsExplained'

\* The attestation is untouched by most steps.
LEMMA Concluded ==
  ASSUME IInv, NEW h \in Handlers, Kept(h), CleanKept
  PROVE  ActorKeeps(h)
BY CleanStays DEF ActorKeeps, Kept, Frame

\* The run is left alone.
LEMMA RunRests ==
  ASSUME IInv, UNCHANGED run, Failing
  PROVE  /\ RunTyped' /\ RunMoves /\ FailuresTyped'
         /\ phase' = phase /\ version' = version
         /\ unproven' = unproven => CleanKept
<1>1. TypeOK /\ phase' = phase /\ version' = version
  BY DEF IInv, run
<1>2. QED
  BY <1>1, FaultTyped DEF TypeOK, RunTyped, RunMoves, CleanKept

\* A step of executeRun that touches neither the run nor the sandbox.
LEMMA QuietlyCaught ==
  ASSUME IInv, NEW h \in Handlers, UNCHANGED run, Failing, Elsewhere,
         Catch(h)
  PROVE  ActorKeeps(h)
<1>1. RunTyped' /\ RunMoves /\ CleanKept /\ WorldTyped' /\ WorldKept
  BY RunRests, ElsewhereKept DEF Elsewhere
<1>2. QED
  BY <1>1, CatchKeeps, Concluded

\* A dispatcher goes on without touching the run or the sandbox.
LEMMA QuietlyOn ==
  ASSUME IInv, NEW h \in Handlers, UNCHANGED run, Failing, Elsewhere,
         pc[h] \in Driving, NEW next \in Driving, NEW l \in Local,
         l.run = local[h].run, Moves(h, next, l)
  PROVE  ActorKeeps(h)
<1>1. RunTyped' /\ RunMoves /\ CleanKept /\ WorldTyped' /\ WorldKept
  BY RunRests, ElsewhereKept DEF Elsewhere
<1>2. QED
  BY <1>1, GoesDriving, Concluded

\* A handler goes to rest without touching the run or the sandbox.
LEMMA QuietlyToRest ==
  ASSUME IInv, NEW h \in Handlers, UNCHANGED run, Failing, Elsewhere,
         NEW label \in Labels \ (Driving \cup Closing), NEW l \in Local,
         l.run = local[h].run \/ l.run = Stored \/ l = Nothing,
         Moves(h, label, l)
  PROVE  ActorKeeps(h)
<1>1. /\ RunTyped' /\ RunMoves /\ CleanKept /\ WorldTyped' /\ WorldKept
      /\ Stored' = Stored
  BY RunRests, ElsewhereKept DEF Elsewhere, Stored
<1>2. QED
  BY <1>1, GoesToRest, Concluded

\* A transition to a phase of driving that returns, and one that throws.
LEMMA TakesOver ==
  ASSUME IInv, NEW d \in Handlers, NEW target \in DrivingPhases,
         NEW next \in Driving, TransitionReturns(local[d].run, target),
         local' = [local EXCEPT ![d].run = After(@, target)],
         Goto(d, next), Elsewhere
  PROVE  ActorKeeps(d)
<1> DEFINE l == [local[d] EXCEPT !.run = After(local[d].run, target)]
<1>1. TypeOK /\ local[d] \in Local /\ local[d].run \in RunRecord
      /\ target \in Phase
  BY LocalFields DEF IInv, DrivingPhases, Phase
<1>2. Moves(d, next, l)
  BY DEF Moves, Goto
<1>3. l \in Local /\ l.run = After(local[d].run, target)
  BY <1>1, AfterTyped, RunUpdated
<1>4. /\ Stored' = After(local[d].run, target)
      /\ phase' = target /\ version' = version + 1
      /\ RunTyped' /\ RunMoves /\ FailuresTyped'
  BY <1>1, Returns
<1>5. WorldTyped' /\ WorldKept
  BY <1>1, <1>4, ElsewhereKept
<1>6. CleanKept
  BY <1>4 DEF CleanKept, DrivingPhases
<1> HIDE DEF l
<1>7. Kept(d)
  BY <1>2, <1>3, <1>4, <1>5, GoesDriving
<1>8. QED
  BY <1>6, <1>7, Concluded

\* A transition that throws leaves the attestation explained.
LEMMA LosesOrFails ==
  ASSUME IInv, NEW h \in Handlers, NEW was \in RunRecord,
         NEW target \in Phase \ {"clean_terminated"},
         TransitionThrows(was, target), Elsewhere
  PROVE  RunTyped' /\ RunMoves /\ WorldTyped' /\ WorldKept /\ CleanKept
<1>1. /\ phase' \in {phase, target} /\ RunTyped' /\ RunMoves
      /\ FailuresTyped'
  BY Throws DEF IInv
<1>2. QED
  BY <1>1, ElsewhereKept DEF CleanKept, Elsewhere

\* A transition that throws in executeRun's try block.
LEMMA FailureCaught ==
  ASSUME IInv, NEW d \in Handlers,
         NEW target \in Phase \ {"clean_terminated"},
         TransitionThrows(local[d].run, target), Catch(d), Elsewhere
  PROVE  ActorKeeps(d)
<1>1. local[d].run \in RunRecord
  BY LocalFields DEF IInv
<1>2. QED
  BY <1>1, LosesOrFails, CatchKeeps, Concluded

\* Preflight and the transition to provisioning, the lock of a dispatcher.
LEMMA ProvisionKeeps ==
  ASSUME IInv, NEW d \in Dispatchers, Provision(d)
  PROVE  ActorKeeps(d)
<1>1. /\ d \in Handlers /\ Elsewhere
      /\ "provisioning" \in Phase \ {"clean_terminated"}
      /\ "provisioning" \in DrivingPhases /\ "create" \in Driving
  BY DEF Handlers, Provision, Elsewhere, Phase, DrivingPhases, Driving
<1>2. CASE /\ TransitionReturns(local[d].run, "provisioning")
           /\ local' = [local EXCEPT ![d].run = After(@, "provisioning")]
           /\ Goto(d, "create")
  BY <1>1, <1>2, TakesOver
<1>3. CASE TransitionThrows(local[d].run, "provisioning") /\ Catch(d)
  BY <1>1, <1>3, FailureCaught
<1>4. CASE UNCHANGED <<run, failures>> /\ Catch(d)
  BY <1>1, <1>4, QuietlyCaught DEF NoFault, Failing
<1>5. QED
  BY <1>2, <1>3, <1>4 DEF Provision

\* The transitions to delegated and to in_progress.
LEMMA StepKeeps ==
  ASSUME IInv, NEW d \in Dispatchers, NEW label, NEW target \in DrivingPhases,
         NEW next \in Driving, Step(d, label, target, next)
  PROVE  ActorKeeps(d)
<1>1. d \in Handlers /\ Elsewhere /\ target \in Phase \ {"clean_terminated"}
  BY DEF Handlers, Step, Elsewhere, Phase, DrivingPhases
<1>2. CASE /\ TransitionReturns(local[d].run, target)
           /\ local' = [local EXCEPT ![d].run = After(@, target)]
           /\ Goto(d, next)
  BY <1>1, <1>2, TakesOver
<1>3. CASE TransitionThrows(local[d].run, target) /\ Catch(d)
  BY <1>1, <1>3, FailureCaught
<1>4. QED
  BY <1>2, <1>3 DEF Step

\* A VM that is created once the run is in terminal is a stray.
LEMMA BootKeepsWorld ==
  ASSUME IInv, NEW d \in Handlers, pc[d] = "create", Boot(d),
         FailuresTyped', UNCHANGED <<crashes, unproven>>
  PROVE  WorldTyped' /\ WorldKept
<1>1. phase \in {"terminal", "clean_terminated"} => stray'
  <2>1. local[d].run.phase \in DrivingPhases
    BY DEF IInv, HandlerInv, Drives, Driving
  <2>2. phase \in {"terminal", "clean_terminated"} => Stored # local[d].run
    BY <2>1 DEF Stored, DrivingPhases
  <2>3. QED
    BY <2>2 DEF Boot
<1>2. /\ boots' = boots + 1 /\ vm' = boots' /\ boots < MaxBoots
      /\ node' = node /\ crashes' = crashes /\ unproven' = unproven
  BY DEF Boot
<1>3. stray' \in BOOLEAN
  BY DEF Boot
<1>4. WorldTyped'
  BY <1>2, <1>3, ConstantsAssumption DEF IInv, TypeOK, WorldTyped, FailuresTyped
<1>5. QED
  BY <1>1, <1>4 DEF WorldKept

\* The VM is created, or not, or its creation is lost.
LEMMA CreateVmKeeps ==
  ASSUME IInv, NEW d \in Dispatchers, CreateVm(d)
  PROVE  ActorKeeps(d)
<1>1. /\ d \in Handlers /\ pc[d] = "create" /\ UNCHANGED run
      /\ crashes' = crashes /\ unproven' = unproven /\ TypeOK
  BY DEF Handlers, CreateVm, IInv
<1>2. CASE Boot(d) /\ Failing
           /\ (Catch(d) \/ (Goto(d, "enroll") /\ UNCHANGED local))
  <2>1. RunTyped' /\ RunMoves /\ FailuresTyped' /\ CleanKept
    BY <1>1, <1>2, RunRests
  <2>2. WorldTyped' /\ WorldKept
    BY <1>1, <1>2, <2>1, BootKeepsWorld
  <2>3. CASE Catch(d)
    BY <1>1, <2>1, <2>2, <2>3, CatchKeeps, Concluded
  <2>4. CASE Goto(d, "enroll") /\ UNCHANGED local
    <3>1. local[d] \in Local /\ Moves(d, "enroll", local[d])
      BY <1>1, <2>4 DEF TypeOK, Moves, Goto
    <3>2. "enroll" \in Driving /\ "create" \in Driving
      BY DEF Driving
    <3>3. QED
      BY <1>1, <2>1, <2>2, <3>1, <3>2, GoesDriving, Concluded
  <2>5. QED
    BY <1>2, <2>3, <2>4
<1>3. CASE Failing /\ Catch(d) /\ UNCHANGED <<world, stray>>
  BY <1>1, <1>3, QuietlyCaught DEF Elsewhere
<1>4. \/ Boot(d) /\ NoFault /\ Goto(d, "enroll") /\ UNCHANGED local
      \/ Boot(d) /\ OtherFault /\ Catch(d)
      \/ OtherFault /\ Catch(d) /\ UNCHANGED <<world, stray>>
      \/ NoFault /\ Catch(d) /\ UNCHANGED <<world, stray>>
  BY Zenon DEF CreateVm
<1>5. QED
  BY <1>2, <1>3, <1>4 DEF Failing

\* The device is found, or the wait times out.
LEMMA EnrollKeeps ==
  ASSUME IInv, NEW d \in Dispatchers, Enroll(d)
  PROVE  ActorKeeps(d)
<1>1. /\ d \in Handlers /\ Elsewhere /\ UNCHANGED run /\ NoFault
      /\ pc[d] \in Driving /\ "deliver" \in Driving
  BY DEF Handlers, Enroll, Elsewhere, NoFault, Driving
<1>2. CASE Catch(d)
  BY <1>1, <1>2, QuietlyCaught DEF Failing
<1>3. ASSUME NEW k \in Vms, local' = [local EXCEPT ![d].device = k],
             Goto(d, "deliver")
      PROVE  ActorKeeps(d)
  <2>1. Moves(d, "deliver", [local[d] EXCEPT !.device = k])
    BY <1>3 DEF Moves, Goto
  <2>2. /\ [local[d] EXCEPT !.device = k] \in Local
        /\ [local[d] EXCEPT !.device = k].run = local[d].run
    BY <1>1, LocalFields, DeviceUpdated DEF IInv, SameRun
  <2>3. QED
    BY <1>1, <2>1, <2>2, QuietlyOn DEF Failing
<1>4. QED
  BY <1>2, <1>3 DEF Enroll

\* The gates, the health check and the delegation pass or not.
LEMMA DeliverKeeps ==
  ASSUME IInv, NEW d \in Dispatchers, Deliver(d)
  PROVE  ActorKeeps(d)
<1>1. /\ d \in Handlers /\ Elsewhere /\ UNCHANGED run /\ NoFault
      /\ pc[d] \in Driving /\ "delegate" \in Driving
  BY DEF Handlers, Deliver, Elsewhere, NoFault, Driving
<1>2. CASE Catch(d)
  BY <1>1, <1>2, QuietlyCaught DEF Failing
<1>3. CASE Goto(d, "delegate") /\ UNCHANGED local
  <2>1. local[d] \in Local /\ Moves(d, "delegate", local[d])
    BY <1>1, <1>3, LocalFields DEF IInv, TypeOK, Moves, Goto
  <2>2. QED
    BY <1>1, <2>1, QuietlyOn DEF Failing
<1>4. QED
  BY <1>2, <1>3 DEF Deliver

\* The sandbox ends, and the teardown is called in the try block.
LEMMA SuperviseKeeps ==
  ASSUME IInv, NEW d \in Dispatchers, Supervise(d)
  PROVE  ActorKeeps(d)
<1>1. /\ d \in Handlers /\ Elsewhere /\ UNCHANGED run /\ NoFault
      /\ "mark" \in Labels \ (Driving \cup Closing)
  BY DEF Handlers, Supervise, Elsewhere, NoFault, Labels, Driving, Closing
<1>2. CASE Catch(d)
  BY <1>1, <1>2, QuietlyCaught DEF Failing
<1>3. CASE Goto(d, "mark") /\ local' = [local EXCEPT ![d].trying = TRUE]
  <2>1. Moves(d, "mark", [local[d] EXCEPT !.trying = TRUE])
    BY <1>3 DEF Moves, Goto
  <2>2. /\ [local[d] EXCEPT !.trying = TRUE] \in Local
        /\ [local[d] EXCEPT !.trying = TRUE].run = local[d].run
    BY <1>1, LocalFields, TryingUpdated DEF IInv, SameRun
  <2>3. QED
    BY <1>1, <2>1, <2>2, QuietlyToRest DEF Failing
<1>4. QED
  BY <1>2, <1>3 DEF Supervise

\* A handler ends with a transition to quarantined, whether it returns.
LEMMA QuarantinesAndLeaves ==
  ASSUME IInv, NEW h \in Handlers, Leave(h), Elsewhere,
         \/ TransitionReturns(local[h].run, "quarantined")
         \/ TransitionThrows(local[h].run, "quarantined")
  PROVE  ActorKeeps(h)
<1>1. /\ local[h].run \in RunRecord /\ TypeOK
      /\ "quarantined" \in Phase \ {"clean_terminated"}
  BY LocalFields DEF IInv, Phase
<1>2. RunTyped' /\ RunMoves /\ WorldTyped' /\ WorldKept /\ CleanKept
  <2>1. CASE TransitionReturns(local[h].run, "quarantined")
    <3>1. /\ phase' = "quarantined" /\ RunTyped' /\ RunMoves
          /\ FailuresTyped'
      BY <1>1, <2>1, Returns
    <3>2. QED
      BY <3>1, ElsewhereKept DEF CleanKept
  <2>2. CASE TransitionThrows(local[h].run, "quarantined")
    BY <1>1, <2>2, LosesOrFails
  <2>3. QED
    BY <2>1, <2>2
<1>3. QED
  BY <1>2, LeaveKeeps, Concluded

\* The catch block quarantines a run that was still created.
LEMMA AbandonKeeps ==
  ASSUME IInv, NEW d \in Dispatchers, Abandon(d)
  PROVE  ActorKeeps(d)
BY QuarantinesAndLeaves DEF Abandon, Elsewhere, Handlers

-----------------------------------------------------------------------------
(* executeTeardown *)

\* POST /runs/:id/teardown begins with a snapshot and the names it is given.
LEMMA RequestTeardownKeeps ==
  ASSUME IInv, NEW t \in Teardowns, NEW named \in BOOLEAN,
         NEW device \in {0} \cup Vms, RequestTeardown(t, named, device)
  PROVE  ActorKeeps(t)
<1> DEFINE l == [Nothing EXCEPT !.run = Stored, !.named = named,
                                !.device = device]
<1>1. /\ t \in Handlers /\ Elsewhere /\ UNCHANGED run /\ NoFault
      /\ "mark" \in Labels \ (Driving \cup Closing)
  BY DEF Handlers, RequestTeardown, Elsewhere, NoFault, Labels, Driving,
         Closing
<1>2. l \in Local /\ l.run = Stored
  BY DEF Nothing, Local, Stored, IInv, TypeOK
<1>3. Moves(t, "mark", l)
  BY DEF RequestTeardown, Moves, Goto
<1>4. QED
  BY <1>1, <1>2, <1>3, QuietlyToRest DEF Failing

\* A step of a teardown that throws.
LEMMA ThrowsKeeps ==
  ASSUME IInv, NEW h \in Handlers, RunTyped', WorldTyped', RunMoves, WorldKept,
         CleanKept, TeardownThrows(h)
  PROVE  ActorKeeps(h)
BY TeardownThrowsKeeps, Concluded

\* Step 1 of the teardown takes the run, or has found it in terminal.
LEMMA GoesToClose ==
  ASSUME IInv, NEW h \in Handlers, RunTyped', WorldTyped', RunMoves, WorldKept,
         CleanKept, NEW l \in Local, Moves(h, "revoke", l),
         l.run = local[h].run, l.terminal <= version',
         l.terminal = version' => phase' = "terminal"
  PROVE  ActorKeeps(h)
<1>1. "revoke" \in Labels /\ "revoke" \notin Driving
  BY DEF Labels, Driving
<1>2. TypeOK' /\ Others(h) /\ pc'[h] = "revoke" /\ local'[h] = l
  BY <1>1, MovesTyped DEF IInv, TypeOK, RunTyped, WorldTyped, FailuresTyped
<1>3. Snapshot(h)'
  BY <1>2, LocalFields DEF IInv, TypeOK, HandlerInv, Snapshot, RunMoves
<1>4. Drives(h)' /\ Closes(h)' /\ VmEvidence(h)' /\ NodeEvidence(h)'
  BY <1>1, <1>2 DEF Drives, Closes, VmEvidence, NodeEvidence
<1>5. Kept(h)
  BY <1>1, <1>2, <1>3, <1>4 DEF Kept, Frame, HandlerInv, DriverEnters
<1>6. QED
  BY <1>5, Concluded

\* Step 1 of a teardown.
LEMMA MarkTerminalKeeps ==
  ASSUME IInv, NEW h \in Handlers, MarkTerminal(h)
  PROVE  ActorKeeps(h)
<1>1. /\ Elsewhere /\ TypeOK /\ local[h] \in Local
      /\ local[h].run \in RunRecord /\ local[h].run.version \in Nat
      /\ "terminal" \in Phase \ {"clean_terminated"}
      /\ Snapshot(h)
  BY LocalFields DEF MarkTerminal, Elsewhere, IInv, Phase, HandlerInv
<1>2. CASE /\ local[h].run.phase = "terminal"
           /\ local' = [local EXCEPT ![h].terminal = local[h].run.version]
           /\ Goto(h, "revoke")
           /\ UNCHANGED <<run, failures>>
  <2> DEFINE l == [local[h] EXCEPT !.terminal = local[h].run.version]
  <2>1. /\ RunTyped' /\ RunMoves /\ WorldTyped' /\ WorldKept /\ CleanKept
        /\ phase' = phase /\ version' = version
    BY <1>1, <1>2, RunRests, ElsewhereKept DEF NoFault, Failing, Elsewhere
  <2>2. /\ Moves(h, "revoke", l) /\ l \in Local /\ l.run = local[h].run
        /\ l.terminal = local[h].run.version
    BY <1>1, <1>2, TerminalUpdated DEF Moves, Goto
  <2> HIDE DEF l
  <2>3. /\ l.terminal <= version'
        /\ l.terminal = version' => phase' = "terminal"
    BY <1>1, <1>2, <2>1, <2>2 DEF Snapshot
  <2>4. QED
    BY <2>1, <2>2, <2>3, GoesToClose
<1>3. CASE /\ TransitionReturns(local[h].run, "terminal")
           /\ local' = [local EXCEPT ![h].terminal = version']
           /\ Goto(h, "revoke")
  <2> DEFINE l == [local[h] EXCEPT !.terminal = version']
  <2>1. /\ RunTyped' /\ RunMoves /\ FailuresTyped' /\ phase' = "terminal"
    BY <1>1, <1>3, Returns
  <2>2. WorldTyped' /\ WorldKept /\ CleanKept /\ version' \in Nat
    BY <1>1, <2>1, ElsewhereKept DEF CleanKept, RunTyped
  <2>3. /\ Moves(h, "revoke", l) /\ l \in Local /\ l.run = local[h].run
        /\ l.terminal = version'
    BY <1>1, <1>3, <2>2, TerminalUpdated DEF Moves, Goto
  <2> HIDE DEF l
  <2>4. l.terminal <= version'
    BY <2>2, <2>3
  <2>5. QED
    BY <2>1, <2>2, <2>3, <2>4, GoesToClose
<1>4. CASE TransitionThrows(local[h].run, "terminal") /\ TeardownThrows(h)
  BY <1>1, <1>4, LosesOrFails, ThrowsKeeps
<1>5. QED
  BY <1>2, <1>3, <1>4 DEF MarkTerminal

\* Steps 2 and 3 of a teardown.
LEMMA RevokeCredentialsKeeps ==
  ASSUME IInv, NEW h \in Handlers, RevokeCredentials(h)
  PROVE  ActorKeeps(h)
<1>1. PICK b \in BOOLEAN : local' = [local EXCEPT ![h].cred = b]
  BY DEF RevokeCredentials
<1> DEFINE l == [local[h] EXCEPT !.cred = b]
<1>2. /\ Elsewhere /\ UNCHANGED run /\ Failing
      /\ Goto(h, "deauthorize") /\ pc[h] \in Closing
      /\ "deauthorize" \in Closing
  BY DEF RevokeCredentials, Elsewhere, Closing, Failing
<1>3. /\ WorldTyped' /\ WorldKept /\ CleanKept
      /\ phase' = phase /\ version' = version
  BY <1>2, RunRests, ElsewhereKept DEF Elsewhere
<1>4. Moves(h, "deauthorize", l) /\ l \in Local /\ SameRun(l, local[h])
  BY <1>1, <1>2, LocalFields, CredUpdated DEF IInv, Moves, Goto
<1> HIDE DEF l
<1>5. /\ TypeOK' /\ pc'[h] = "deauthorize"
      /\ VmEvidence(h)' /\ NodeEvidence(h)' => Kept(h)
  BY <1>2, <1>3, <1>4, GoesClosing DEF SameRun
<1>6. VmEvidence(h)' /\ NodeEvidence(h)'
  BY <1>5 DEF VmEvidence, NodeEvidence
<1>7. QED
  BY <1>3, <1>5, <1>6, Concluded

\* A device that is deauthorized or deleted leaves the sandbox as the others
\* believe it.
ShutsOne == node' = node \/ (\E k \in {0} \cup Vms, s \in Shut : node' = With(k, s))

LEMMA ShutKeepsWorld ==
  ASSUME IInv, FailuresTyped', ShutsOne,
         UNCHANGED <<vm, boots, crashes, stray, unproven>>
  PROVE  WorldTyped' /\ WorldKept
<1>1. TypeOK /\ vm' = vm /\ boots' = boots
  BY DEF IInv
<1>2. node' \in [Vms -> Statuses]
  BY <1>1 DEF TypeOK, ShutsOne, With, Statuses, Shut
<1>3. boots # 0 => boots \in Vms
  BY <1>1, ConstantsAssumption DEF TypeOK, Vms
<1>4. /\ boots # 0 /\ node[boots] = "gone" => node'[boots] = "gone"
      /\ boots # 0 /\ node[boots] \in Shut => node'[boots] \in Shut
  BY <1>1, <1>3 DEF ShutsOne, With, Shut
<1>5. stray' = stray /\ stray' \in BOOLEAN
  BY <1>1 DEF TypeOK
<1>6. QED
  BY <1>1, <1>2, <1>4, <1>5
  DEF TypeOK, WorldTyped, FailuresTyped, WorldKept, Statuses, Trusts

\* Step 5: a device that is deauthorized is that of the last VM, or the
\* teardown takes the node on trust.
LEMMA DeauthorizeNodeKeeps ==
  ASSUME IInv, NEW h \in Handlers, DeauthorizeNode(h)
  PROVE  ActorKeeps(h)
<1> DEFINE k == local[h].device
           t == IF k = boots THEN {} ELSE {"node"}
<1>1. /\ UNCHANGED run /\ Failing
      /\ UNCHANGED <<vm, boots, crashes, stray, unproven>>
      /\ Goto(h, "delete") /\ pc[h] = "deauthorize" /\ pc[h] \in Closing
      /\ "delete" \in Closing /\ TypeOK /\ local[h] \in Local
      /\ k \in {0} \cup Vms /\ t \in SUBSET Trusts
  BY LocalFields DEF DeauthorizeNode, Closing, IInv, Failing, Trusts
<1>2. /\ FailuresTyped' /\ CleanKept
      /\ phase' = phase /\ version' = version
  BY <1>1, RunRests
<1>3. ShutsOne
  BY <1>1 DEF DeauthorizeNode, ShutsOne, Shut
<1>4. WorldTyped' /\ WorldKept
  BY <1>1, <1>2, <1>3, ShutKeepsWorld
<1>5. PICK b \in BOOLEAN :
        /\ local' = [local EXCEPT ![h].ts = b, ![h].trust = t]
        /\ b => node' = With(k, "deauthorized")
  BY DEF DeauthorizeNode
<1> DEFINE l == [local[h] EXCEPT !.ts = b, !.trust = t]
<1>6. /\ Moves(h, "delete", l) /\ l \in Local /\ SameRun(l, local[h])
      /\ l.ts = b /\ l.trust = t /\ l.device = k
  <2>1. Moves(h, "delete", l)
    BY <1>1, <1>5 DEF Moves, Goto
  <2>2. b \in BOOLEAN /\ t \in SUBSET Trusts /\ local[h] \in Local
    BY <1>1
  <2> HIDE DEF t
  <2>3. l.device = k
    BY <2>2 DEF Local
  <2>4. l \in Local /\ SameRun(l, local[h]) /\ l.ts = b /\ l.trust = t
    BY <2>2 DEF Local, SameRun
  <2>5. QED
    BY <2>1, <2>3, <2>4
<1> HIDE DEF l
<1>7. /\ pc'[h] = "delete" /\ local'[h] = l
      /\ VmEvidence(h)' /\ NodeEvidence(h)' => Kept(h)
  BY <1>1, <1>2, <1>4, <1>6, GoesClosing DEF SameRun
<1>8. VmEvidence(h)'
  BY <1>7 DEF VmEvidence
<1>9. b => "node" \in t \/ NodeShut'
  <2>1. boots' = boots /\ (boots # 0 => boots \in Vms)
    BY <1>1, ConstantsAssumption DEF TypeOK, Vms
  <2>2. QED
    BY <1>5, <2>1 DEF NodeShut, With, Shut
<1>10. NodeEvidence(h)'
  BY <1>1, <1>6, <1>7, <1>9 DEF NodeEvidence
<1>11. QED
  BY <1>2, <1>7, <1>8, <1>10, Concluded

\* Step 6: the device is gone, or the teardown takes the deletion on trust and
\* has what it knew of the deauthorization.
LEMMA DeleteNodeKeeps ==
  ASSUME IInv, NEW h \in Handlers, DeleteNode(h)
  PROVE  ActorKeeps(h)
<1> DEFINE k == local[h].device
<1>1. /\ UNCHANGED run /\ Failing
      /\ UNCHANGED <<vm, boots, crashes, stray, unproven>>
      /\ Goto(h, "destroy") /\ pc[h] = "delete" /\ pc[h] \in Closing
      /\ "destroy" \in Closing /\ TypeOK /\ local[h] \in Local
      /\ k \in {0} \cup Vms /\ local[h].trust \in SUBSET Trusts
      /\ local[h].ts \in BOOLEAN
  BY LocalFields DEF DeleteNode, Closing, IInv, Failing, Local
<1>2. /\ FailuresTyped' /\ CleanKept
      /\ phase' = phase /\ version' = version
  BY <1>1, RunRests
<1>3. ShutsOne
  BY <1>1 DEF DeleteNode, ShutsOne, Shut
<1>4. WorldTyped' /\ WorldKept
  BY <1>1, <1>2, <1>3, ShutKeepsWorld
<1>5. /\ boots' = boots /\ stray' = stray
      /\ boots # 0 => boots \in Vms
  BY <1>1, ConstantsAssumption DEF TypeOK, Vms
<1>6. CASE local' = [local EXCEPT ![h].ts = TRUE] /\ node' = With(k, "gone")
  <2> DEFINE l == [local[h] EXCEPT !.ts = TRUE]
  <2>1. /\ Moves(h, "destroy", l) /\ l \in Local /\ SameRun(l, local[h])
        /\ l.ts = TRUE /\ l.trust = local[h].trust
    BY <1>1, <1>6, TsUpdated DEF Moves, Goto
  <2> HIDE DEF l
  <2>2. /\ pc'[h] = "destroy" /\ local'[h] = l /\ (Owns(h)' => Owns(h))
        /\ VmEvidence(h)' /\ NodeEvidence(h)' => Kept(h)
    BY <1>1, <1>2, <1>4, <2>1, GoesClosing DEF SameRun
  <2>3. VmEvidence(h)'
    BY <2>2 DEF VmEvidence
  <2>4. k = boots \/ stray => NodeGone' /\ NodeShut'
    BY <1>5, <1>6 DEF NodeGone, NodeShut, Shut, With
  <2>5. Owns(h) => "node" \in local[h].trust \/ k = boots \/ stray
    BY <1>1 DEF IInv, HandlerInv, NodeEvidence
  <2>6. NodeEvidence(h)'
    BY <2>1, <2>2, <2>4, <2>5 DEF NodeEvidence
  <2>7. QED
    BY <1>2, <2>2, <2>3, <2>6, Concluded
<1>7. CASE local' = [local EXCEPT ![h].trust = @ \cup {"deletion"}]
  <2> DEFINE t == local[h].trust \cup {"deletion"}
             l == [local[h] EXCEPT !.trust = t]
  <2>1. /\ Moves(h, "destroy", l) /\ l \in Local /\ SameRun(l, local[h])
        /\ l.ts = local[h].ts /\ l.trust = t
    <3>1. t \in SUBSET Trusts
      BY <1>1 DEF Trusts
    <3>2. QED
      BY <1>1, <1>7, <3>1, TrustUpdated DEF Moves, Goto
  <2> HIDE DEF l
  <2>2. /\ pc'[h] = "destroy" /\ local'[h] = l
        /\ Owns(h)' => Owns(h) /\ phase = "terminal"
        /\ VmEvidence(h)' /\ NodeEvidence(h)' => Kept(h)
    BY <1>1, <1>2, <1>4, <2>1, GoesClosing DEF SameRun
  <2>3. VmEvidence(h)'
    BY <2>2 DEF VmEvidence
  <2>4. NodeEvidence(h)'
    <3>1. NodeEvidence(h)
      BY DEF IInv, HandlerInv
    <3>2. phase = "terminal" /\ NodeShut => NodeShut'
      BY <1>4, <1>5 DEF WorldKept, NodeShut
    <3>3. QED
      BY <1>1, <2>1, <2>2, <3>1, <3>2 DEF NodeEvidence
  <2>5. QED
    BY <1>2, <2>2, <2>3, <2>4, Concluded
<1>8. QED
  BY <1>6, <1>7 DEF DeleteNode

\* Step 7: a removal that is confirmed was of the run's VM, or of another name.
LEMMA DestroyVmKeeps ==
  ASSUME IInv, NEW h \in Handlers, DestroyVm(h)
  PROVE  ActorKeeps(h)
<1>1. /\ UNCHANGED run /\ Failing /\ vm' \in {0, vm}
      /\ crashes' = crashes /\ stray' = stray /\ unproven' = unproven
      /\ node' = node /\ boots' = boots
      /\ Goto(h, "confirm") /\ pc[h] = "destroy" /\ pc[h] \in Closing
      /\ "confirm" \in Closing /\ TypeOK /\ local[h] \in Local
      /\ local[h].trust \in SUBSET Trusts
  BY LocalFields DEF DestroyVm, Closing, IInv, Failing
<1>2. /\ FailuresTyped' /\ CleanKept
      /\ phase' = phase /\ version' = version
  BY <1>1, RunRests
<1>3. WorldTyped' /\ WorldKept
  <2>1. stray' \in BOOLEAN
    BY <1>1 DEF TypeOK
  <2>2. QED
    BY <1>1, <1>2, <2>1 DEF TypeOK, WorldTyped, FailuresTyped, WorldKept
<1>4. PICK b \in BOOLEAN : /\ local' = [local EXCEPT ![h].vm = b]
                           /\ b => ~local[h].named \/ vm' = 0
  BY DEF DestroyVm
<1> DEFINE l == [local[h] EXCEPT !.vm = b]
<1>5. /\ Moves(h, "confirm", l) /\ l \in Local /\ SameRun(l, local[h])
      /\ l.vm = b /\ l.named = local[h].named
      /\ l.ts = local[h].ts /\ l.trust = local[h].trust
  <2>1. Moves(h, "confirm", l)
    BY <1>1, <1>4 DEF Moves, Goto
  <2>2. QED
    BY <1>1, <2>1, VmUpdated
<1> HIDE DEF l
<1>6. /\ pc'[h] = "confirm" /\ local'[h] = l /\ (Owns(h)' => Owns(h))
      /\ VmEvidence(h)' /\ NodeEvidence(h)' => Kept(h)
  BY <1>1, <1>2, <1>3, <1>5, GoesClosing DEF SameRun
<1>7. VmEvidence(h)'
  BY <1>4, <1>5, <1>6 DEF VmEvidence
<1>8. NodeEvidence(h)'
  <2>1. NodeEvidence(h) /\ (NodeGone' <=> NodeGone) /\ (NodeShut' <=> NodeShut)
    BY <1>1 DEF IInv, HandlerInv, NodeGone, NodeShut
  <2>2. QED
    BY <1>1, <1>5, <1>6, <2>1 DEF NodeEvidence
<1>9. QED
  BY <1>2, <1>6, <1>7, <1>8, Concluded

\* Step 8: absence is true, or taken on trust.
LEMMA ConfirmVmAbsentKeeps ==
  ASSUME IInv, NEW h \in Handlers, ConfirmVmAbsent(h)
  PROVE  ActorKeeps(h)
<1>1. /\ UNCHANGED run /\ Failing /\ Elsewhere
      /\ Goto(h, "probe") /\ pc[h] = "confirm" /\ pc[h] \in Closing
      /\ "probe" \in Closing /\ TypeOK /\ local[h] \in Local
      /\ local[h].trust \in SUBSET Trusts
      /\ local[h].vm \in BOOLEAN /\ local[h].named \in BOOLEAN
  BY LocalFields DEF ConfirmVmAbsent, Closing, IInv, Elsewhere, Local, Failing
<1>2. /\ WorldTyped' /\ WorldKept /\ CleanKept
      /\ phase' = phase /\ version' = version
      /\ vm' = vm /\ boots' = boots /\ node' = node /\ stray' = stray
  BY <1>1, RunRests, ElsewhereKept DEF Elsewhere, world
<1>3. PICK b \in BOOLEAN, t \in SUBSET Trusts :
        /\ local' = [local EXCEPT ![h].vm = b, ![h].trust = t]
        /\ local[h].trust \subseteq t
        /\ b => \/ "vm" \in t
                \/ local[h].named /\ (local[h].vm \/ vm = 0)
  <2> DEFINE seen == local[h].named /\ vm # 0
             b == local[h].vm \/ ~seen
             t == local[h].trust \cup (IF local[h].named THEN {} ELSE {"vm"})
             u == local[h].trust \cup {"vm"}
  <2>1. CASE local' = [local EXCEPT ![h].vm = b, ![h].trust = t]
    <3>1. /\ b \in BOOLEAN /\ t \in SUBSET Trusts
          /\ local[h].trust \subseteq t
          /\ b => \/ "vm" \in t
                  \/ local[h].named /\ (local[h].vm \/ vm = 0)
      BY <1>1 DEF Trusts
    <3> HIDE DEF b, t
    <3>2. QED
      BY <2>1, <3>1
  <2>2. CASE local' = [local EXCEPT ![h].vm = TRUE, ![h].trust = u]
    <3>1. /\ u \in SUBSET Trusts /\ local[h].trust \subseteq u
          /\ "vm" \in u
      BY <1>1 DEF Trusts
    <3> HIDE DEF u
    <3>2. QED
      BY <2>2, <3>1
  <2>3. QED
    BY <2>1, <2>2 DEF ConfirmVmAbsent
<1> DEFINE l == [local[h] EXCEPT !.vm = b, !.trust = t]
<1>4. /\ Moves(h, "probe", l) /\ l \in Local /\ SameRun(l, local[h])
      /\ l.vm = b /\ l.ts = local[h].ts /\ l.trust = t
  <2>1. Moves(h, "probe", l)
    BY <1>1, <1>3 DEF Moves, Goto
  <2>2. b \in BOOLEAN /\ t \in SUBSET Trusts
    BY <1>3
  <2>3. /\ l \in Local /\ SameRun(l, local[h])
        /\ l.vm = b /\ l.ts = local[h].ts /\ l.trust = t
    BY <1>1, <2>2 DEF Local, SameRun
  <2>4. QED
    BY <2>1, <2>3
<1> HIDE DEF l
<1>5. /\ pc'[h] = "probe" /\ local'[h] = l /\ (Owns(h)' => Owns(h))
      /\ VmEvidence(h)' /\ NodeEvidence(h)' => Kept(h)
  BY <1>1, <1>2, <1>4, GoesClosing DEF SameRun
<1>6. VmEvidence(h)'
  <2>1. VmEvidence(h)
    BY DEF IInv, HandlerInv
  <2>2. QED
    BY <1>1, <1>2, <1>3, <1>4, <1>5, <2>1 DEF VmEvidence
<1>7. NodeEvidence(h)'
  <2>1. NodeEvidence(h) /\ (NodeGone' <=> NodeGone) /\ (NodeShut' <=> NodeShut)
    BY <1>2 DEF IInv, HandlerInv, NodeGone, NodeShut
  <2>2. QED
    BY <1>1, <1>3, <1>4, <1>5, <2>1 DEF NodeEvidence
<1>8. QED
  BY <1>2, <1>5, <1>6, <1>7, Concluded

\* Step 9 and the records of steps 8 and 9.
LEMMA ProbeEndpointsKeeps ==
  ASSUME IInv, NEW h \in Handlers, ProbeEndpoints(h)
  PROVE  ActorKeeps(h)
<1>1. /\ UNCHANGED run /\ Failing /\ Elsewhere
      /\ pc[h] = "probe" /\ pc[h] \in Closing /\ "finish" \in Closing
      /\ TypeOK /\ local[h] \in Local
  BY LocalFields DEF ProbeEndpoints, Closing, IInv, Elsewhere, Failing
<1>2. /\ RunTyped' /\ RunMoves /\ WorldTyped' /\ WorldKept /\ CleanKept
      /\ phase' = phase /\ version' = version
      /\ vm' = vm /\ boots' = boots /\ node' = node /\ stray' = stray
  BY <1>1, RunRests, ElsewhereKept DEF Elsewhere, world
<1>3. CASE TeardownThrows(h)
  BY <1>2, <1>3, ThrowsKeeps
<1>4. ASSUME NEW b \in BOOLEAN, local' = [local EXCEPT ![h].probe = b],
             Goto(h, "finish")
      PROVE  ActorKeeps(h)
  <2> DEFINE l == [local[h] EXCEPT !.probe = b]
  <2>1. /\ Moves(h, "finish", l) /\ l \in Local /\ SameRun(l, local[h])
        /\ l.vm = local[h].vm /\ l.ts = local[h].ts
        /\ l.trust = local[h].trust
    <3>1. Moves(h, "finish", l)
      BY <1>4 DEF Moves, Goto
    <3>2. QED
      BY <1>1, <3>1, ProbeUpdated
  <2> HIDE DEF l
  <2>2. /\ pc'[h] = "finish" /\ local'[h] = l /\ (Owns(h)' => Owns(h))
        /\ VmEvidence(h)' /\ NodeEvidence(h)' => Kept(h)
    BY <1>1, <1>2, <2>1, GoesClosing DEF SameRun
  <2>3. VmEvidence(h)'
    <3>1. VmEvidence(h)
      BY DEF IInv, HandlerInv
    <3>2. QED
      BY <1>1, <1>2, <2>1, <2>2, <3>1 DEF VmEvidence
  <2>4. NodeEvidence(h)'
    <3>1. NodeEvidence(h) /\ (NodeGone' <=> NodeGone) /\ (NodeShut' <=> NodeShut)
      BY <1>2 DEF IInv, HandlerInv, NodeGone, NodeShut
    <3>2. QED
      BY <1>1, <2>1, <2>2, <3>1 DEF NodeEvidence
  <2>5. QED
    BY <1>2, <2>2, <2>3, <2>4, Concluded
<1>5. QED
  BY <1>3, <1>4 DEF ProbeEndpoints

\* The attestation is committed by a teardown that has the run, and explains
\* what it claims.
LEMMA FinishKeeps ==
  ASSUME IInv, NEW h \in Handlers, Finish(h)
  PROVE  ActorKeeps(h)
<1> DEFINE clean == evaluateCleanTerminated(h)
           target == IF clean THEN "clean_terminated" ELSE "quarantined"
           was == [phase |-> "terminal", version |-> local[h].terminal]
<1>1. /\ TypeOK /\ was \in RunRecord /\ target \in Phase
      /\ local[h].trust \subseteq Trusts
  BY LocalFields DEF IInv, RunRecord, Phase
<1>2. /\ pc[h] = "finish" /\ crashes' = crashes /\ stray' = stray
      /\ vm' = vm /\ boots' = boots /\ node' = node
  BY DEF Finish, world
<1>3. \/ TransitionReturns(was, target) /\ Leave(h)
      \/ TransitionThrows(was, target) /\ TeardownThrows(h)
  BY DEF Finish
<1>4. /\ RunTyped' /\ RunMoves /\ FailuresTyped'
      /\ \/ phase' = phase /\ version' = version
         \/ phase' = target /\ version' = version + 1 /\ Stored = was
  <2> HIDE DEF was, target
  <2>1. CASE TransitionReturns(was, target)
    BY <1>1, <2>1, Returns
  <2>2. CASE TransitionThrows(was, target)
    BY <1>1, <2>2, Throws
  <2>3. QED
    BY <1>3, <2>1, <2>2
<1>5. unproven' \in {unproven, local[h].trust}
  BY DEF Finish
<1>6. WorldTyped' /\ WorldKept
  <2>1. stray' \in BOOLEAN
    BY <1>1, <1>2 DEF TypeOK
  <2>2. QED
    BY <1>1, <1>2, <1>4, <1>5, <2>1 DEF TypeOK, WorldTyped, FailuresTyped, WorldKept
<1>7. Kept(h)
  BY <1>3, <1>4, <1>6, LeaveKeeps, TeardownThrowsKeeps
<1>8. CleanIsExplained'
  <2>1. CASE phase' = phase
    <3>1. phase' = "clean_terminated" => unproven' = unproven
      <4>1. phase = "clean_terminated" => ~TransitionReturns(was, target)
        BY DEF TransitionReturns, Advance, Fits, Stored
      <4>2. QED
        BY <2>1, <4>1 DEF Finish
    <3>2. CleanKept
      BY <2>1, <3>1 DEF CleanKept
    <3>3. QED
      BY <1>4, <1>6, <3>2, CleanStays
  <2>2. CASE phase' # phase /\ phase' = "clean_terminated"
    <3>1. clean /\ Stored = was
      BY <1>4, <2>2
    <3>2. phase = "terminal" /\ version = local[h].terminal
      BY <3>1 DEF Stored
    <3>3. unproven' = local[h].trust
      BY <2>2, <3>1 DEF Finish
    <3>4. Owns(h) /\ local[h].vm /\ local[h].ts
      BY <1>2, <3>1, <3>2 DEF Owns, Closing, evaluateCleanTerminated
    <3>5. "vm" \in local[h].trust \/ vm = 0 \/ stray
      BY <1>2, <3>4 DEF IInv, HandlerInv, VmEvidence
    <3>6. /\ "node" \in local[h].trust \/ NodeShut
          /\ \/ "node" \in local[h].trust \/ "deletion" \in local[h].trust
             \/ NodeGone
      BY <1>2, <3>4 DEF IInv, HandlerInv, NodeEvidence
    <3>7. QED
      BY <1>2, <3>3, <3>5, <3>6 DEF CleanIsExplained, NodeGone, NodeShut
  <2>3. QED
    BY <2>1, <2>2 DEF CleanIsExplained
<1>9. QED
  BY <1>7, <1>8 DEF ActorKeeps

-----------------------------------------------------------------------------
(* recoverRun *)

\* POST /runs/reconcile begins with a snapshot of the run.
LEMMA ReconcileKeeps ==
  ASSUME IInv, NEW r \in Recoverers, Reconcile(r)
  PROVE  ActorKeeps(r)
<1>1. /\ r \in Handlers /\ Elsewhere /\ UNCHANGED run /\ NoFault
      /\ "sweepNode" \in Labels \ (Driving \cup Closing)
  BY DEF Handlers, Reconcile, Elsewhere, NoFault, Labels, Driving, Closing
<1>2. Moves(r, "sweepNode", [local[r] EXCEPT !.run = Stored])
  BY DEF Reconcile, Moves, Goto
<1>3. /\ [local[r] EXCEPT !.run = Stored] \in Local
      /\ [local[r] EXCEPT !.run = Stored].run = Stored
  <2>1. Stored \in RunRecord
    BY DEF IInv, TypeOK, Stored, RunRecord
  <2>2. QED
    BY <1>1, <2>1, LocalFields, RunUpdated DEF IInv
<1>4. QED
  BY <1>1, <1>2, <1>3, QuietlyToRest DEF Failing

\* The recovery at boot looks for the run.
LEMMA ListInFlightKeeps ==
  ASSUME IInv, NEW r \in Recoverers, ListInFlight(r)
  PROVE  ActorKeeps(r)
<1>1. /\ r \in Handlers /\ Elsewhere /\ UNCHANGED run /\ Failing
      /\ "sweepNode" \in Labels \ (Driving \cup Closing)
      /\ "idle" \in Labels \ (Driving \cup Closing)
  BY DEF Handlers, ListInFlight, Elsewhere, Labels, Driving, Closing, Failing
<1>2. CASE Leave(r)
  <2>1. Moves(r, "idle", Nothing)
    BY <1>2 DEF Leave, Moves, Goto
  <2>2. QED
    BY <1>1, <2>1, NothingTyped, QuietlyToRest
<1>3. CASE local' = [local EXCEPT ![r].run = Stored] /\ Goto(r, "sweepNode")
  <2>1. Moves(r, "sweepNode", [local[r] EXCEPT !.run = Stored])
    BY <1>3 DEF Moves, Goto
  <2>2. /\ [local[r] EXCEPT !.run = Stored] \in Local
        /\ [local[r] EXCEPT !.run = Stored].run = Stored
    <3>1. Stored \in RunRecord
      BY DEF IInv, TypeOK, Stored, RunRecord
    <3>2. QED
      BY <1>1, <3>1, LocalFields, RunUpdated DEF IInv
  <2>3. QED
    BY <1>1, <2>1, <2>2, QuietlyToRest
<1>4. QED
  BY <1>2, <1>3 DEF ListInFlight

\* A recovery that sweeps goes on, or ends.
LEMMA SweepKeeps ==
  ASSUME IInv, NEW r \in Handlers, UNCHANGED run, Failing,
         WorldTyped', WorldKept, unproven' = unproven,
         NEW next \in {"sweepVm", "quarantine"},
         Leave(r) \/ (Goto(r, next) /\ UNCHANGED local)
  PROVE  ActorKeeps(r)
<1>1. RunTyped' /\ RunMoves /\ CleanKept
  BY RunRests
<1>2. CASE Leave(r)
  BY <1>1, <1>2, LeaveKeeps, Concluded
<1>3. CASE Goto(r, next) /\ UNCHANGED local
  <2>1. local[r] \in Local /\ Moves(r, next, local[r])
    BY <1>3, LocalFields DEF IInv, TypeOK, Moves, Goto
  <2>2. next \in Labels \ (Driving \cup Closing)
    BY DEF Labels, Driving, Closing
  <2>3. QED
    BY <1>1, <2>1, <2>2, GoesToRest, Concluded
<1>4. QED
  BY <1>2, <1>3

\* A recovery deletes a device.
LEMMA SweepNodeKeeps ==
  ASSUME IInv, NEW r \in Recoverers, SweepNode(r)
  PROVE  ActorKeeps(r)
<1>1. /\ r \in Handlers /\ UNCHANGED run /\ Failing
      /\ UNCHANGED <<vm, boots, crashes, stray, unproven>>
      /\ Leave(r) \/ (Goto(r, "sweepVm") /\ UNCHANGED local)
  BY DEF Handlers, SweepNode, Failing
<1>2. ShutsOne
  BY DEF SweepNode, ShutsOne, Shut, Inventory
<1>3. WorldTyped' /\ WorldKept
  BY <1>1, <1>2, RunRests, ShutKeepsWorld
<1>4. QED
  BY <1>1, <1>3, SweepKeeps

\* A recovery destroys the VM.
LEMMA SweepVmKeeps ==
  ASSUME IInv, NEW r \in Recoverers, SweepVm(r)
  PROVE  ActorKeeps(r)
<1>1. /\ r \in Handlers /\ UNCHANGED run /\ Failing
      /\ boots' = boots /\ node' = node /\ crashes' = crashes
      /\ stray' = stray /\ unproven' = unproven /\ vm' \in {0, vm}
      /\ Goto(r, "quarantine") /\ UNCHANGED local
  BY DEF Handlers, SweepVm, Failing
<1>2. TypeOK /\ FailuresTyped'
  BY <1>1, RunRests DEF IInv
<1>3. stray' \in BOOLEAN
  BY <1>1, <1>2 DEF TypeOK
<1>4. WorldTyped' /\ WorldKept
  BY <1>1, <1>2, <1>3 DEF TypeOK, WorldTyped, FailuresTyped, WorldKept
<1>5. QED
  BY <1>1, <1>4, SweepKeeps

\* A recovery quarantines the run it found.
LEMMA QuarantineKeeps ==
  ASSUME IInv, NEW r \in Recoverers, Quarantine(r)
  PROVE  ActorKeeps(r)
<1>1. r \in Handlers /\ Elsewhere /\ Leave(r)
  BY DEF Handlers, Quarantine, Elsewhere
<1>2. CASE \/ TransitionReturns(local[r].run, "quarantined")
           \/ TransitionThrows(local[r].run, "quarantined")
  BY <1>1, <1>2, QuarantinesAndLeaves
<1>3. CASE UNCHANGED <<run, failures>>
  <2>1. /\ Moves(r, "idle", Nothing)
        /\ "idle" \in Labels \ (Driving \cup Closing)
    BY <1>1 DEF Leave, Moves, Goto, Labels, Driving, Closing
  <2>2. QED
    BY <1>1, <1>3, <2>1, NothingTyped, QuietlyToRest DEF NoFault, Failing
<1>4. QED
  BY <1>2, <1>3 DEF Quarantine

-----------------------------------------------------------------------------
(* The world *)

\* What the sandbox and its providers do by themselves.
LEMMA WorldStepKeeps ==
  ASSUME IInv, UNCHANGED <<run, pc, local, unproven>>, WorldTyped', WorldKept
  PROVE  IInv'
<1>1. /\ TypeOK /\ phase' = phase /\ version' = version /\ pc' = pc
      /\ local' = local /\ unproven' = unproven
  BY DEF IInv, run
<1>2. TypeOK'
  BY <1>1 DEF TypeOK, WorldTyped, FailuresTyped
<1>3. ASSUME NEW g \in Handlers
      PROVE  HandlerInv(g)'
  <2>1. HandlerInv(g)
    BY DEF IInv
  <2>2. Snapshot(g)' /\ Drives(g)' /\ Closes(g)'
    BY <1>1, <2>1 DEF HandlerInv, Snapshot, Drives, Closes
  <2>3. Owns(g)' => Owns(g) /\ phase = "terminal"
    BY <1>1, <2>1 DEF HandlerInv, Closes, Owns
  <2>4. VmEvidence(g)' /\ NodeEvidence(g)'
    BY <1>1, <2>1, <2>3
    DEF HandlerInv, VmEvidence, NodeEvidence, NodeGone, NodeShut, WorldKept
  <2>5. QED
    BY <2>2, <2>4 DEF HandlerInv
<1>4. OneDriver'
  BY <1>1 DEF IInv, OneDriver, Stored
<1>5. CleanIsExplained'
  BY <1>1, CleanStays DEF RunMoves, CleanKept
<1>6. QED
  BY <1>2, <1>3, <1>4, <1>5 DEF IInv

\* A VM joins the tailnet.
LEMMA NodeEnrollsKeeps ==
  ASSUME IInv, NodeEnrolls
  PROVE  IInv'
<1>1. /\ UNCHANGED <<run, pc, local, unproven>>
      /\ vm' = vm /\ boots' = boots /\ UNCHANGED failures /\ crashes' = crashes
      /\ stray' = stray /\ unproven' = unproven /\ TypeOK
      /\ vm # 0 /\ node[vm] = "none" /\ node' = [node EXCEPT ![vm] = "listed"]
  BY DEF NodeEnrolls, IInv
<1>2. node' \in [Vms -> Statuses]
  BY <1>1 DEF TypeOK, Statuses
<1>3. /\ boots # 0 /\ node[boots] = "gone" => node'[boots] = "gone"
      /\ boots # 0 /\ node[boots] \in Shut => node'[boots] \in Shut
  BY <1>1 DEF TypeOK, Shut
<1>4. stray' \in BOOLEAN
  BY <1>1 DEF TypeOK
<1>5. WorldTyped' /\ WorldKept
  BY <1>1, FailuresRest, <1>2, <1>3, <1>4 DEF TypeOK, WorldTyped, FailuresTyped, WorldKept
<1>6. QED
  BY <1>1, <1>5, WorldStepKeeps

\* Tailscale drops a device.
LEMMA NodeExpiresKeeps ==
  ASSUME IInv, NodeExpires
  PROVE  IInv'
<1>1. /\ UNCHANGED <<run, pc, local, unproven>> /\ UNCHANGED failures
      /\ UNCHANGED <<vm, boots, crashes, stray, unproven>>
      /\ ShutsOne
  BY DEF NodeExpires, ShutsOne, Shut, Inventory
<1>2. FailuresTyped'
  BY <1>1, FailuresRest DEF IInv
<1>3. WorldTyped' /\ WorldKept
  BY <1>1, <1>2, ShutKeepsWorld
<1>4. QED
  BY <1>1, <1>3, WorldStepKeeps

\* The server dies, and no handler is left to hold anything.
LEMMA CrashKeeps ==
  ASSUME IInv, Crash
  PROVE  IInv'
<1>1. /\ TypeOK /\ CleanIsExplained /\ phase' = phase /\ version' = version
      /\ vm' = vm /\ boots' = boots /\ node' = node /\ UNCHANGED failures
      /\ crashes' = crashes + 1 /\ crashes < MaxCrashes
      /\ stray' = stray /\ unproven' = unproven
  BY DEF IInv, Crash, run, world
<1>2. PICK r \in Recoverers :
        pc' = [h \in Handlers |-> IF h = r THEN "boot" ELSE "idle"]
  BY DEF Crash
<1>3. local' = [h \in Handlers |-> Nothing]
  BY DEF Crash
<1>4. TypeOK'
  <2>1. /\ pc' \in [Handlers -> Labels] /\ local' \in [Handlers -> Local]
    BY <1>2, <1>3, NothingTyped DEF Labels
  <2>2. stray' \in BOOLEAN
    BY <1>1 DEF TypeOK
  <2>3. crashes' \in 0 .. MaxCrashes
    BY <1>1, ConstantsAssumption DEF TypeOK
  <2>4. FailuresTyped'
    BY <1>1, FailuresRest
  <2>5. QED
    BY <1>1, <2>1, <2>2, <2>3, <2>4 DEF TypeOK, FailuresTyped
<1>5. ASSUME NEW h \in Handlers
      PROVE  pc'[h] \notin Driving \cup Closing /\ local'[h] = Nothing
  BY <1>2, <1>3 DEF Driving, Closing
<1>6. ASSUME NEW h \in Handlers
      PROVE  HandlerInv(h)'
  <2>1. Snapshot(h)'
    BY <1>1, <1>5, NothingTyped DEF Snapshot, TypeOK
  <2>2. QED
    BY <1>5, <2>1
    DEF HandlerInv, Drives, Closes, VmEvidence, NodeEvidence, Owns
<1>7. OneDriver'
  BY <1>5 DEF OneDriver, Handlers
<1>8. CleanIsExplained'
  BY <1>1 DEF CleanIsExplained, NodeGone, NodeShut
<1>9. QED
  BY <1>4, <1>6, <1>7, <1>8 DEF IInv

-----------------------------------------------------------------------------
(* The invariant holds *)

\* The invariant holds at first.
LEMMA InitInvariant ==
  ASSUME Init
  PROVE  IInv
<1>1. TypeOK
  <2>1. /\ pc \in [Handlers -> Labels] /\ local \in [Handlers -> Local]
        /\ node \in [Vms -> Statuses]
    BY NothingTyped DEF Init, Labels, Statuses
  <2>2. stray \in BOOLEAN
    BY DEF Init
  <2>3. /\ phase \in Phase /\ version \in Nat \ {0}
        /\ boots \in 0 .. MaxBoots /\ vm \in {0, boots}
        /\ faults \in 0 .. MaxFaults /\ crashes \in 0 .. MaxCrashes
        /\ storeFailed = FALSE
        /\ unproven \subseteq Trusts
    BY ConstantsAssumption DEF Init, Phase
  <2>4. QED
    BY <2>1, <2>2, <2>3 DEF TypeOK
<1>2. ASSUME NEW h \in Handlers
      PROVE  HandlerInv(h)
  <2>1. pc[h] = "idle" /\ local[h] = Nothing /\ version = 1
    BY DEF Init
  <2>2. Snapshot(h)
    BY <2>1, NothingTyped DEF Snapshot
  <2>3. QED
    BY <2>1, <2>2
    DEF HandlerInv, Drives, Closes, VmEvidence, NodeEvidence, Owns, Driving,
        Closing
<1>3. OneDriver
  BY DEF Init, OneDriver, Driving, Handlers
<1>4. CleanIsExplained
  BY DEF Init, CleanIsExplained
<1>5. QED
  BY <1>1, <1>2, <1>3, <1>4 DEF IInv

\* A step of a handler keeps the invariant.
LEMMA ActorStepKeeps ==
  ASSUME IInv, NEW h, ActorKeeps(h)
  PROVE  IInv'
BY FrameKeeps DEF ActorKeeps, Kept, IInv

\* Every step of executeRun does.
LEMMA ExecuteRunKeeps ==
  ASSUME IInv, NEW d \in Dispatchers, Dispatch(d) \/ ExecuteRun(d)
  PROVE  ActorKeeps(d)
<1>1. CASE Dispatch(d)
  BY <1>1, DispatchKeeps, Concluded
<1>2. CASE Provision(d)
  BY <1>2, ProvisionKeeps
<1>3. CASE CreateVm(d)
  BY <1>3, CreateVmKeeps
<1>4. CASE Enroll(d)
  BY <1>4, EnrollKeeps
<1>5. CASE Deliver(d)
  BY <1>5, DeliverKeeps
<1>6. CASE Delegate(d)
  <2>1. "delegated" \in DrivingPhases /\ "start" \in Driving
    BY DEF DrivingPhases, Driving
  <2>2. QED
    BY <1>6, <2>1, StepKeeps DEF Delegate
<1>7. CASE Start(d)
  <2>1. "in_progress" \in DrivingPhases /\ "supervise" \in Driving
    BY DEF DrivingPhases, Driving
  <2>2. QED
    BY <1>7, <2>1, StepKeeps DEF Start
<1>8. CASE Supervise(d)
  BY <1>8, SuperviseKeeps
<1>9. CASE Abandon(d)
  BY <1>9, AbandonKeeps
<1>10. QED
  BY <1>1, <1>2, <1>3, <1>4, <1>5, <1>6, <1>7, <1>8, <1>9 DEF ExecuteRun

\* Every step of executeTeardown does.
LEMMA ExecuteTeardownKeeps ==
  ASSUME IInv, NEW h \in Handlers, ExecuteTeardown(h)
  PROVE  ActorKeeps(h)
<1>1. CASE MarkTerminal(h)
  BY <1>1, MarkTerminalKeeps
<1>2. CASE RevokeCredentials(h)
  BY <1>2, RevokeCredentialsKeeps
<1>3. CASE DeauthorizeNode(h) \/ DeleteNode(h)
  BY <1>3, DeauthorizeNodeKeeps, DeleteNodeKeeps
<1>4. CASE DestroyVm(h)
  BY <1>4, DestroyVmKeeps
<1>5. CASE ConfirmVmAbsent(h)
  BY <1>5, ConfirmVmAbsentKeeps
<1>6. CASE ProbeEndpoints(h)
  BY <1>6, ProbeEndpointsKeeps
<1>7. CASE Finish(h)
  BY <1>7, FinishKeeps
<1>8. QED
  BY <1>1, <1>2, <1>3, <1>4, <1>5, <1>6, <1>7 DEF ExecuteTeardown

\* Every step of recoverRun does.
LEMMA RecoverRunKeeps ==
  ASSUME IInv, NEW r \in Recoverers, Reconcile(r) \/ RecoverRun(r)
  PROVE  ActorKeeps(r)
<1>1. CASE Reconcile(r)
  BY <1>1, ReconcileKeeps
<1>2. CASE ListInFlight(r)
  BY <1>2, ListInFlightKeeps
<1>3. CASE SweepNode(r)
  BY <1>3, SweepNodeKeeps
<1>4. CASE SweepVm(r)
  BY <1>4, SweepVmKeeps
<1>5. CASE Quarantine(r)
  BY <1>5, QuarantineKeeps
<1>6. QED
  BY <1>1, <1>2, <1>3, <1>4, <1>5 DEF RecoverRun

\* Every step of the system does.
LEMMA NextInvariant ==
  ASSUME IInv, [Next]_vars
  PROVE  IInv'
<1>1. ASSUME NEW d \in Dispatchers, Dispatch(d) \/ ExecuteRun(d)
      PROVE  IInv'
  BY <1>1, ExecuteRunKeeps, ActorStepKeeps
<1>2. ASSUME NEW t \in Teardowns, NEW named \in BOOLEAN,
             NEW device \in {0} \cup Vms, RequestTeardown(t, named, device)
      PROVE  IInv'
  BY <1>2, RequestTeardownKeeps, ActorStepKeeps
<1>3. ASSUME NEW h \in Dispatchers \cup Teardowns, ExecuteTeardown(h)
      PROVE  IInv'
  BY <1>3, ExecuteTeardownKeeps, ActorStepKeeps DEF Handlers
<1>4. ASSUME NEW r \in Recoverers, Reconcile(r) \/ RecoverRun(r)
      PROVE  IInv'
  BY <1>4, RecoverRunKeeps, ActorStepKeeps
<1>5. CASE UNCHANGED vars
  <2>1. /\ UNCHANGED <<run, pc, local, unproven>> /\ Elsewhere
        /\ UNCHANGED failures
    BY <1>5 DEF vars, run, Elsewhere, world, failures
  <2>2. WorldTyped' /\ WorldKept
    BY <2>1, ElsewhereKept, FailuresRest DEF IInv
  <2>3. QED
    BY <2>1, <2>2, WorldStepKeeps
<1>6. QED
  BY <1>1, <1>2, <1>3, <1>4, <1>5, NodeEnrollsKeeps, NodeExpiresKeeps,
     CrashKeeps
  DEF Next

\* The invariant holds always: whatever handlers interleave, requests fail and
\* the server crashes.
THEOREM InvariantHolds == Spec => []IInv
<1>1. Init => IInv
  BY InitInvariant
<1>2. IInv /\ [Next]_vars => IInv'
  BY NextInvariant
<1>3. QED
  BY <1>1, <1>2, PTL DEF Spec

\* Every variable holds a value of its kind, always.
THEOREM TypeCorrect == Spec => []TypeOK
<1>1. IInv => TypeOK
  BY DEF IInv
<1>2. QED
  BY <1>1, InvariantHolds, PTL

\* However many requests dispatch a run, one at a time drives it: of the
\* dispatchers past the transition to provisioning, one at most has the run.
THEOREM OneDriverHolds == Spec => []OneDriver
<1>1. IInv => OneDriver
  BY DEF IInv
<1>2. QED
  BY <1>1, InvariantHolds, PTL

\* A clean_terminated run whose VM or device is left has an explanation:
\* evaluateCleanTerminated is right but for what it takes on trust, for a
\* device that was deauthorized and whose deletion failed, and for what a
\* dispatcher that lost the run did later.
THEOREM CleanIsProven == Spec => []CleanIsProvenOrExplained
<1>1. IInv => CleanIsProvenOrExplained
  BY DEF IInv, CleanIsExplained, CleanIsProvenOrExplained, NodeGone, NodeShut,
      Shut
<1>2. QED
  BY <1>1, InvariantHolds, PTL

\* No teardown that has the run destroys the VM of a dispatcher that has it.
Bereft == vm # 0 /\ vm' = 0

Robbed ==
  Bereft /\ (\E d \in Dispatchers : /\ pc[d] \in Driving \ {"create"}
                                    /\ local[d].run = Stored)
  => \E h \in Handlers :
       /\ pc'[h] # pc[h]
       /\ \/ pc[h] = "sweepVm"
          \/ pc[h] = "destroy" /\ local[h].terminal # version

\* Only a teardown and a recovery destroy a VM.
LEMMA OnlyTwoDestroy ==
  ASSUME TypeOK, [Next]_vars, Bereft
  PROVE  \/ \E h \in Handlers : DestroyVm(h)
         \/ \E r \in Recoverers : SweepVm(r)
<1>1. ASSUME NEW d \in Dispatchers, Dispatch(d) \/ ExecuteRun(d)
      PROVE  FALSE
  <2>1. CASE CreateVm(d)
    <3>1. vm' = vm \/ vm' = boots + 1
      BY <2>1 DEF CreateVm, Boot, world
    <3>2. QED
      BY <3>1 DEF TypeOK, Bereft
  <2>2. CASE Provision(d) \/ Delegate(d) \/ Start(d)
    BY <2>2 DEF Provision, Delegate, Start, Step, world, Bereft
  <2>3. CASE Dispatch(d) \/ Enroll(d) \/ Deliver(d) \/ Supervise(d)
             \/ Abandon(d)
    BY <2>3 DEF Dispatch, Enroll, Deliver, Supervise, Abandon, world, Bereft
  <2>4. QED
    BY <1>1, <2>1, <2>2, <2>3 DEF ExecuteRun
<1>2. ASSUME NEW t \in Teardowns, NEW named \in BOOLEAN,
             NEW device \in {0} \cup Vms, RequestTeardown(t, named, device)
      PROVE  FALSE
  BY <1>2 DEF RequestTeardown, world, Bereft
<1>3. ASSUME NEW h \in Dispatchers \cup Teardowns, ExecuteTeardown(h)
      PROVE  DestroyVm(h)
  BY <1>3
  DEF ExecuteTeardown, MarkTerminal, RevokeCredentials, DeauthorizeNode,
      DeleteNode,
      ConfirmVmAbsent, ProbeEndpoints, Finish, world, Bereft
<1>4. ASSUME NEW r \in Recoverers, Reconcile(r) \/ RecoverRun(r)
      PROVE  SweepVm(r)
  BY <1>4
  DEF Reconcile, RecoverRun, ListInFlight, SweepNode, Quarantine, world,
      Bereft
<1>5. ~NodeEnrolls /\ ~NodeExpires /\ ~Crash /\ ~UNCHANGED vars
  BY DEF NodeEnrolls, NodeExpires, Crash, vars, world, Bereft
<1>6. QED
  BY <1>1, <1>2, <1>3, <1>4, <1>5 DEF Next, Handlers

\* A VM of a dispatcher that has the run is destroyed by nobody who has it too.
LEMMA NotRobbed ==
  ASSUME IInv, [Next]_vars
  PROVE  Robbed
<1> SUFFICES ASSUME Bereft, NEW d \in Dispatchers,
                    pc[d] \in Driving \ {"create"}, local[d].run = Stored
             PROVE  \E h \in Handlers :
                      /\ pc'[h] # pc[h]
                      /\ \/ pc[h] = "sweepVm"
                         \/ pc[h] = "destroy" /\ local[h].terminal # version
  BY DEF Robbed
<1>1. phase \in DrivingPhases
  BY DEF IInv, HandlerInv, Drives, Handlers, Stored
<1>2. ASSUME NEW h \in Handlers, DestroyVm(h)
      PROVE  /\ pc'[h] # pc[h] /\ pc[h] = "destroy"
             /\ local[h].terminal # version
  <2>1. pc[h] = "destroy" /\ pc'[h] = "confirm"
    BY <1>2 DEF DestroyVm, Goto, IInv, TypeOK
  <2>2. local[h].terminal # version
    BY <1>1, <2>1 DEF IInv, HandlerInv, Closes, Closing, DrivingPhases
  <2>3. QED
    BY <2>1, <2>2
<1>3. ASSUME NEW r \in Recoverers, SweepVm(r)
      PROVE  r \in Handlers /\ pc'[r] # pc[r] /\ pc[r] = "sweepVm"
  BY <1>3 DEF SweepVm, Goto, IInv, TypeOK, Handlers
<1>4. QED
  BY <1>2, <1>3, OnlyTwoDestroy DEF IInv

\* A dispatcher that has the run is robbed of its VM by a recovery, or by a
\* teardown that lost the run; never by a teardown that took the run.
THEOREM VmIsSafe == Spec => VmOutlivesItsRun
<1>1. IInv /\ [Next]_vars => Robbed
  BY NotRobbed
<1>2. [Next]_vars /\ Robbed => [Robbed]_vars
  OBVIOUS
<1>3. QED
  BY <1>1, <1>2, InvariantHolds, PTL DEF Spec, VmOutlivesItsRun, Robbed, Bereft

-----------------------------------------------------------------------------
(* Who attends to a run in flight *)

\* What a step of a handler must do for the run to stay attended: if it
\* leaves the run alone, it goes on attending or did not before; if it moves
\* the run, it attends to it now or the run has left flight.
Tends(h) ==
  \/ storeFailed'
  \/ ~InFlight'
  \/ Attends(h)'
  \/ Stored' = Stored /\ (InFlight /\ ~storeFailed => ~Attends(h))

\* A failure is not forgotten.
LEMMA FailureStays ==
  ASSUME Failing
  PROVE  storeFailed => storeFailed'
BY Zenon DEF Failing, StoreFault, OtherFault, NoFault, failures

\* A step that tends keeps the run attended.
LEMMA TendsKeeps ==
  ASSUME InFlightIsAttended, NEW h \in Handlers, Others(h), Failing, Tends(h)
  PROVE  InFlightIsAttended'
<1> SUFFICES ASSUME InFlight', ~storeFailed'
             PROVE  \E g \in Handlers : Attends(g)'
  BY DEF InFlightIsAttended
<1>1. ~storeFailed
  BY FailureStays
<1>2. CASE Attends(h)'
  BY <1>2
<1>3. CASE Stored' = Stored /\ (InFlight /\ ~storeFailed => ~Attends(h))
  <2>1. phase' = phase
    BY <1>3 DEF Stored
  <2>2. InFlight
    BY <2>1 DEF InFlight
  <2>3. PICK g \in Handlers : Attends(g)
    BY <1>1, <2>2 DEF InFlightIsAttended
  <2>4. g # h
    BY <1>1, <1>3, <2>2, <2>3
  <2>5. pc'[g] = pc[g] /\ local'[g] = local[g]
    BY <2>4 DEF Others
  <2>6. QED
    BY <1>3, <2>3, <2>5 DEF Attends
<1>4. QED
  BY <1>2, <1>3 DEF Tends

\* The run is the same.
LEMMA SameStored == ASSUME UNCHANGED run PROVE Stored' = Stored
BY DEF run, Stored

\* A transition that throws has left the run alone, or the store failed; and
\* it finds a caller that has the run, if the table allows the step.
LEMMA ThrowsTends ==
  ASSUME NEW was, NEW target, TransitionThrows(was, target)
  PROVE  /\ Failing
         /\ \/ storeFailed'
            \/ Stored' = Stored /\ ~(Stored = was /\ canTransition(phase, target))
<1>1. Failing
  BY DEF TransitionThrows, Failing
<1>2. CASE ~Fits(was, target) /\ UNCHANGED run
  BY <1>1, <1>2, SameStored DEF Fits
<1>3. CASE StoreFault
  BY <1>1, <1>3, Zenon DEF StoreFault
<1>4. QED
  BY <1>1, <1>2, <1>3 DEF TransitionThrows

\* Every phase in flight allows the ends, but for a run that is created.
LEMMA EndsAreAllowed ==
  ASSUME InFlight
  PROVE  /\ phase \in Quarantinable /\ phase # "created"
         /\ canTransition(phase, "terminal")
         /\ canTransition(phase, "quarantined")
BY DEF InFlight, InFlightPhases, Quarantinable, canTransition,
       ALLOWED_TRANSITIONS, Phase

\* A handler keeps its hold of a run that rests.
LEMMA HoldsOn ==
  ASSUME Stored' = Stored, NEW h \in Handlers, Attends(h), pc[h] # "boot",
         local'[h].run = local[h].run,
         pc'[h] \in Driving \cup {"mark", "sweepNode", "sweepVm", "quarantine"}
  PROVE  Attends(h)'
BY DEF Attends

\* executeRun's catch block turns to the teardown.
LEMMA CatchTends ==
  ASSUME IInv, NEW h \in Handlers, Catch(h), Stored' = Stored, pc[h] # "boot"
  PROVE  Tends(h)
<1> SUFFICES ASSUME InFlight, Attends(h)
             PROVE  Attends(h)'
  BY DEF Tends
<1>1. local[h].run.phase # "created"
  BY EndsAreAllowed DEF Attends, Stored
<1>2. pc' = [pc EXCEPT ![h] = "mark"]
  BY <1>1 DEF Catch, Goto
<1>3. local' = [local EXCEPT ![h].trying = FALSE]
  BY DEF Catch
<1>4. pc'[h] = "mark"
  BY <1>2 DEF IInv, TypeOK
<1>5. local'[h].run = local[h].run
  BY <1>3, LocalFields, TryingUpdated DEF IInv, TypeOK, SameRun
<1>6. QED
  BY <1>4, <1>5, HoldsOn

\* A handler that does not attend need not, if it leaves the run alone.
LEMMA IdleTends ==
  ASSUME NEW h \in Handlers, Stored' = Stored, pc[h] # "boot",
         pc[h] \notin Driving \cup {"mark", "sweepNode", "sweepVm", "quarantine"}
  PROVE  Tends(h)
BY DEF Tends, Attends

\* A transition that throws in executeRun's try block.
LEMMA ThrowCaughtTends ==
  ASSUME IInv, NEW d \in Handlers, NEW was, NEW target,
         TransitionThrows(was, target), Catch(d), pc[d] # "boot"
  PROVE  Failing /\ Tends(d)
BY ThrowsTends, CatchTends DEF Tends

\* A transition that returns to a driver.
LEMMA TakeOverTends ==
  ASSUME IInv, NEW d \in Handlers, NEW target \in Phase, NEW next \in Driving,
         TransitionReturns(local[d].run, target),
         local' = [local EXCEPT ![d].run = After(@, target)], Goto(d, next)
  PROVE  Failing /\ Tends(d)
<1>1. TypeOK /\ local[d] \in Local /\ local[d].run \in RunRecord
  BY LocalFields DEF IInv
<1>2. Stored' = After(local[d].run, target)
  BY <1>1, Returns
<1>3. local'[d] = [local[d] EXCEPT !.run = After(local[d].run, target)]
  BY <1>1 DEF TypeOK
<1>4. local'[d].run = After(local[d].run, target)
  BY <1>1, <1>3, AfterTyped, RunUpdated
<1>5. pc'[d] = next
  BY <1>1 DEF TypeOK, Goto
<1>6. QED
  BY <1>2, <1>4, <1>5 DEF Tends, Attends, TransitionReturns, Failing

\* A transition to quarantined ends the flight of a run one has.
LEMMA QuarantineTends ==
  ASSUME NEW h \in Handlers, pc[h] # "boot",
         \/ TransitionReturns(local[h].run, "quarantined")
         \/ TransitionThrows(local[h].run, "quarantined")
  PROVE  Failing /\ Tends(h)
<1>1. CASE TransitionReturns(local[h].run, "quarantined")
  BY <1>1
  DEF TransitionReturns, Advance, Failing, Tends, InFlight, InFlightPhases
<1>2. CASE TransitionThrows(local[h].run, "quarantined")
  <2>1. InFlight /\ Attends(h)
        => Stored = local[h].run /\ canTransition(phase, "quarantined")
    BY EndsAreAllowed DEF Attends
  <2>2. QED
    BY <1>2, <2>1, ThrowsTends DEF Tends
<1>3. QED
  BY <1>1, <1>2

\* executeRun tends to the run.
LEMMA ExecuteRunTends ==
  ASSUME IInv, NEW d \in Dispatchers, Dispatch(d) \/ ExecuteRun(d)
  PROVE  Failing /\ Tends(d)
<1>1. d \in Handlers /\ pc \in [Handlers -> Labels] /\ local[d] \in Local
  BY LocalFields DEF Handlers, IInv, TypeOK
<1>2. CASE Dispatch(d)
  <2>1. pc[d] = "idle" /\ UNCHANGED run /\ Failing
    BY <1>2 DEF Dispatch, Failing, NoFault
  <2>2. QED
    BY <1>1, <2>1, IdleTends, SameStored DEF Driving
<1>3. CASE Provision(d)
  <2>1. /\ pc[d] = "provision"
        /\ \/ /\ TransitionReturns(local[d].run, "provisioning")
              /\ local' = [local EXCEPT ![d].run = After(@, "provisioning")]
              /\ Goto(d, "create")
           \/ TransitionThrows(local[d].run, "provisioning") /\ Catch(d)
           \/ UNCHANGED run /\ NoFault /\ Catch(d)
    BY <1>3 DEF Provision, NoFault
  <2>2. "provisioning" \in Phase /\ "create" \in Driving
    BY DEF Phase, Driving
  <2>3. QED
    BY <1>1, <2>1, <2>2, TakeOverTends, ThrowCaughtTends, CatchTends,
       SameStored
    DEF Failing
<1>4. CASE CreateVm(d)
  <2>1. /\ pc[d] = "create" /\ UNCHANGED run /\ Failing
        /\ Catch(d) \/ (Goto(d, "enroll") /\ UNCHANGED local)
    BY <1>4, Zenon DEF CreateVm, Failing
  <2>2. CASE Goto(d, "enroll") /\ UNCHANGED local
    <3>1. pc'[d] = "enroll" /\ local'[d].run = local[d].run
      BY <1>1, <2>2 DEF Goto
    <3>2. QED
      BY <1>1, <2>1, <3>1, HoldsOn, SameStored DEF Tends, Driving
  <2>3. QED
    BY <1>1, <2>1, <2>2, CatchTends, SameStored
<1>5. CASE Enroll(d)
  <2>1. /\ pc[d] = "enroll" /\ UNCHANGED run /\ Failing
        /\ \/ Catch(d)
           \/ \E k \in Vms : /\ local' = [local EXCEPT ![d].device = k]
                             /\ Goto(d, "deliver")
    BY <1>5 DEF Enroll, Failing, NoFault
  <2>2. ASSUME NEW k \in Vms, local' = [local EXCEPT ![d].device = k],
               Goto(d, "deliver")
        PROVE  Tends(d)
    <3>1. pc'[d] = "deliver" /\ local'[d].run = local[d].run
      BY <1>1, <2>2, DeviceUpdated DEF Goto, SameRun, IInv, TypeOK
    <3>2. QED
      BY <1>1, <2>1, <3>1, HoldsOn, SameStored DEF Tends, Driving
  <2>3. QED
    BY <1>1, <2>1, <2>2, CatchTends, SameStored
<1>6. CASE Deliver(d)
  <2>1. /\ pc[d] = "deliver" /\ UNCHANGED run /\ Failing
        /\ Catch(d) \/ (Goto(d, "delegate") /\ UNCHANGED local)
    BY <1>6 DEF Deliver, Failing, NoFault
  <2>2. CASE Goto(d, "delegate") /\ UNCHANGED local
    <3>1. pc'[d] = "delegate" /\ local'[d].run = local[d].run
      BY <1>1, <2>2 DEF Goto
    <3>2. QED
      BY <1>1, <2>1, <3>1, HoldsOn, SameStored DEF Tends, Driving
  <2>3. QED
    BY <1>1, <2>1, <2>2, CatchTends, SameStored
<1>7. ASSUME NEW label \in Driving, NEW target \in Phase, NEW next \in Driving,
             Step(d, label, target, next)
      PROVE  Failing /\ Tends(d)
  <2>1. pc[d] # "boot"
    BY <1>7 DEF Step, Driving
  <2>2. QED
    BY <1>1, <1>7, <2>1, TakeOverTends, ThrowCaughtTends DEF Step
<1>8. CASE Delegate(d) \/ Start(d)
  <2>1. /\ {"delegated", "in_progress"} \subseteq Phase
        /\ {"delegate", "start", "supervise"} \subseteq Driving
    BY DEF Phase, Driving
  <2>2. QED
    BY <1>7, <1>8, <2>1 DEF Delegate, Start
<1>9. CASE Supervise(d)
  <2>1. /\ pc[d] = "supervise" /\ UNCHANGED run /\ Failing
        /\ \/ Catch(d)
           \/ Goto(d, "mark") /\ local' = [local EXCEPT ![d].trying = TRUE]
    BY <1>9 DEF Supervise, Failing, NoFault
  <2>2. CASE Goto(d, "mark") /\ local' = [local EXCEPT ![d].trying = TRUE]
    <3>1. pc'[d] = "mark" /\ local'[d].run = local[d].run
      BY <1>1, <2>2, TryingUpdated DEF Goto, SameRun, IInv, TypeOK
    <3>2. QED
      BY <1>1, <2>1, <3>1, HoldsOn, SameStored DEF Tends
  <2>3. QED
    BY <1>1, <2>1, <2>2, CatchTends, SameStored
<1>10. CASE Abandon(d)
  <2>1. /\ pc[d] = "abandon"
        /\ \/ TransitionReturns(local[d].run, "quarantined")
           \/ TransitionThrows(local[d].run, "quarantined")
    BY <1>10 DEF Abandon
  <2>2. QED
    BY <1>1, <2>1, QuarantineTends DEF Driving
<1>11. QED
  BY <1>2, <1>3, <1>4, <1>5, <1>6, <1>8, <1>9, <1>10 DEF ExecuteRun

\* executeTeardown tends to the run: it ends the flight, or never had the run.
LEMMA ExecuteTeardownTends ==
  ASSUME IInv, NEW h \in Handlers, ExecuteTeardown(h)
  PROVE  Failing /\ Tends(h)
<1>1. CASE MarkTerminal(h)
  <2>1. CASE local[h].run.phase = "terminal" /\ UNCHANGED run /\ NoFault
    <3>1. Stored' = Stored /\ pc[h] = "mark"
      BY <1>1, <2>1, SameStored DEF MarkTerminal
    <3>2. InFlight => ~Attends(h)
      BY <2>1, <3>1 DEF Attends, Stored, InFlight, InFlightPhases
    <3>3. QED
      BY <2>1, <3>1, <3>2 DEF Tends, Failing
  <2>2. CASE TransitionReturns(local[h].run, "terminal")
    BY <2>2
    DEF TransitionReturns, Advance, Failing, Tends, InFlight, InFlightPhases
  <2>3. CASE TransitionThrows(local[h].run, "terminal")
    <3>1. pc[h] = "mark"
      BY <1>1 DEF MarkTerminal
    <3>2. InFlight /\ Attends(h)
          => Stored = local[h].run /\ canTransition(phase, "terminal")
      BY <3>1, EndsAreAllowed DEF Attends
    <3>3. QED
      BY <2>3, <3>2, ThrowsTends DEF Tends
  <2>4. QED
    BY <1>1, <2>1, <2>2, <2>3 DEF MarkTerminal, NoFault
<1>2. CASE \/ RevokeCredentials(h) \/ DeauthorizeNode(h) \/ DeleteNode(h)
         \/ DestroyVm(h)
           \/ ConfirmVmAbsent(h) \/ ProbeEndpoints(h)
  <2>1. UNCHANGED run /\ pc[h] \in Closing
    BY <1>2
    DEF RevokeCredentials, DeauthorizeNode, DeleteNode, DestroyVm,
        ConfirmVmAbsent,
        ProbeEndpoints, Closing
  <2>2. Failing
    BY <1>2, Zenon
    DEF RevokeCredentials, DeauthorizeNode, DeleteNode, DestroyVm,
        ConfirmVmAbsent,
        ProbeEndpoints, Failing
  <2>3. QED
    BY <2>1, <2>2, IdleTends, SameStored DEF Closing, Driving
<1>3. CASE Finish(h)
  <2> DEFINE was == [phase |-> "terminal", version |-> local[h].terminal]
             target == IF evaluateCleanTerminated(h) THEN "clean_terminated"
                                                     ELSE "quarantined"
  <2>1. /\ TransitionReturns(was, target) \/ TransitionThrows(was, target)
        /\ target \in {"clean_terminated", "quarantined"}
    BY <1>3 DEF Finish
  <2> HIDE DEF was, target
  <2>2. CASE TransitionReturns(was, target)
    BY <2>1, <2>2
    DEF TransitionReturns, Advance, Failing, Tends, InFlight, InFlightPhases
  <2>3. CASE TransitionThrows(was, target)
    <3>1. Failing /\ (storeFailed' \/ Stored' = Stored)
      BY <2>3, ThrowsTends
    <3>2. pc[h] = "finish"
      BY <1>3 DEF Finish
    <3>3. QED
      BY <3>1, <3>2, IdleTends DEF Tends, Driving
  <2>4. QED
    BY <2>1, <2>2, <2>3
<1>4. QED
  BY <1>1, <1>2, <1>3 DEF ExecuteTeardown

\* recoverRun tends to the run.
LEMMA RecoverRunTends ==
  ASSUME IInv, NEW r \in Recoverers, Reconcile(r) \/ RecoverRun(r)
  PROVE  Failing /\ Tends(r)
<1>1. r \in Handlers /\ pc \in [Handlers -> Labels] /\ local[r] \in Local
  BY LocalFields DEF Handlers, IInv, TypeOK
<1>2. CASE Reconcile(r)
  <2>1. pc[r] = "idle" /\ UNCHANGED run /\ Failing
    BY <1>2 DEF Reconcile, Failing, NoFault
  <2>2. QED
    BY <1>1, <2>1, IdleTends, SameStored DEF Driving
<1>3. CASE ListInFlight(r)
  <2>1. /\ UNCHANGED run /\ pc[r] = "boot"
        /\ \/ /\ local' = [local EXCEPT ![r].run = Stored]
              /\ Goto(r, "sweepNode") /\ NoFault
           \/ phase \notin InFlightPhases /\ NoFault
           \/ StoreFault
    BY <1>3 DEF ListInFlight
  <2>2. CASE /\ local' = [local EXCEPT ![r].run = Stored]
             /\ Goto(r, "sweepNode") /\ NoFault
    <3>1. Stored \in RunRecord
      BY DEF IInv, TypeOK, Stored, RunRecord
    <3>2. pc'[r] = "sweepNode" /\ local'[r].run = Stored
      BY <1>1, <2>2, <3>1, RunUpdated DEF Goto, IInv, TypeOK
    <3>3. QED
      BY <2>1, <2>2, <3>2, SameStored DEF Tends, Attends, Failing
  <2>3. CASE phase \notin InFlightPhases /\ NoFault
    BY <2>1, <2>3, SameStored DEF Tends, InFlight, Failing
  <2>4. CASE StoreFault
    BY <2>4, Zenon DEF StoreFault, Tends, Failing
  <2>5. QED
    BY <2>1, <2>2, <2>3, <2>4
<1>4. CASE SweepNode(r) \/ SweepVm(r)
  <2>1. /\ UNCHANGED run /\ Failing /\ pc[r] \in {"sweepNode", "sweepVm"}
        /\ \/ /\ Goto(r, "sweepVm") \/ Goto(r, "quarantine")
              /\ UNCHANGED local
           \/ StoreFault
    BY <1>4 DEF SweepNode, SweepVm, Failing
  <2>2. CASE StoreFault
    BY <2>1, <2>2, Zenon DEF StoreFault, Tends
  <2>3. CASE (Goto(r, "sweepVm") \/ Goto(r, "quarantine")) /\ UNCHANGED local
    <3>1. pc'[r] \in {"sweepVm", "quarantine"} /\ local'[r].run = local[r].run
      BY <1>1, <2>3 DEF Goto
    <3>2. QED
      BY <1>1, <2>1, <3>1, HoldsOn, SameStored DEF Tends
  <2>4. QED
    BY <2>1, <2>2, <2>3
<1>5. CASE Quarantine(r)
  <2>1. pc[r] = "quarantine"
    BY <1>5 DEF Quarantine
  <2>2. CASE \/ TransitionReturns(local[r].run, "quarantined")
             \/ TransitionThrows(local[r].run, "quarantined")
    BY <1>1, <2>1, <2>2, QuarantineTends
  <2>3. CASE local[r].run.phase \notin Quarantinable /\ UNCHANGED run /\ NoFault
    <3>1. Stored' = Stored
      BY <2>3, SameStored
    <3>2. InFlight => ~Attends(r)
      BY <2>1, <2>3, EndsAreAllowed DEF Attends, Stored
    <3>3. QED
      BY <2>3, <3>1, <3>2 DEF Tends, Failing
  <2>4. QED
    BY <1>5, <2>2, <2>3 DEF Quarantine, NoFault
<1>6. QED
  BY <1>2, <1>3, <1>4, <1>5 DEF RecoverRun

\* The world, and a crash, leave the run attended.
LEMMA WorldTends ==
  ASSUME InFlightIsAttended, UNCHANGED <<run, pc, local, failures>>
  PROVE  InFlightIsAttended'
<1>1. /\ phase' = phase /\ Stored' = Stored /\ pc' = pc /\ local' = local
      /\ storeFailed' = storeFailed
  BY Zenon, SameStored DEF run, failures
<1>2. QED
  BY <1>1 DEF InFlightIsAttended, InFlight, Attends

\* A server that boots starts a recovery.
LEMMA CrashTends ==
  ASSUME Crash
  PROVE  InFlightIsAttended'
<1>1. PICK r \in Recoverers :
        pc' = [h \in Handlers |-> IF h = r THEN "boot" ELSE "idle"]
  BY DEF Crash
<1>2. r \in Handlers /\ pc'[r] = "boot"
  BY <1>1 DEF Handlers
<1>3. QED
  BY <1>2 DEF InFlightIsAttended, Attends

\* Every step of the system leaves a run in flight attended.
LEMMA NextTends ==
  ASSUME IInv, InFlightIsAttended, [Next]_vars
  PROVE  InFlightIsAttended'
<1>1. ASSUME NEW h, ActorKeeps(h), Failing, Tends(h)
      PROVE  InFlightIsAttended'
  BY <1>1, TendsKeeps DEF ActorKeeps, Kept, Frame
<1>2. ASSUME NEW d \in Dispatchers, Dispatch(d) \/ ExecuteRun(d)
      PROVE  InFlightIsAttended'
  BY <1>1, <1>2, ExecuteRunKeeps, ExecuteRunTends
<1>3. ASSUME NEW t \in Teardowns, NEW named \in BOOLEAN,
             NEW device \in {0} \cup Vms, RequestTeardown(t, named, device)
      PROVE  InFlightIsAttended'
  <2>1. t \in Handlers /\ pc[t] = "idle" /\ UNCHANGED run /\ Failing
    BY <1>3 DEF RequestTeardown, Handlers, Failing, NoFault
  <2>2. Tends(t)
    BY <2>1, IdleTends, SameStored DEF Driving
  <2>3. QED
    BY <1>1, <1>3, <2>1, <2>2, RequestTeardownKeeps
<1>4. ASSUME NEW h \in Dispatchers \cup Teardowns, ExecuteTeardown(h)
      PROVE  InFlightIsAttended'
  BY <1>1, <1>4, ExecuteTeardownKeeps, ExecuteTeardownTends DEF Handlers
<1>5. ASSUME NEW r \in Recoverers, Reconcile(r) \/ RecoverRun(r)
      PROVE  InFlightIsAttended'
  BY <1>1, <1>5, RecoverRunKeeps, RecoverRunTends
<1>6. NodeEnrolls \/ NodeExpires \/ UNCHANGED vars
      => UNCHANGED <<run, pc, local, failures>>
  BY DEF NodeEnrolls, NodeExpires, vars, run, failures
<1>7. QED
  BY <1>2, <1>3, <1>4, <1>5, <1>6, WorldTends, CrashTends DEF Next

\* While the store answers, a run in flight always has a handler that holds it
\* as it is stored, or a recovery that is about to look for it: providers that
\* fail, crashes and handlers that take the run from each other never leave it
\* to nobody.
THEOREM RunsInFlightAreAttended == Spec => []InFlightIsAttended
<1>1. Init => InFlightIsAttended
  BY DEF Init, InFlightIsAttended, InFlight
<1>2. IInv /\ InFlightIsAttended /\ [Next]_vars => InFlightIsAttended'
  BY NextTends
<1>3. QED
  BY <1>1, <1>2, InvariantHolds, PTL DEF Spec

-----------------------------------------------------------------------------
(* The run is a run of the state machine *)

\* A transition that is carried out is one of the abstract run.
LEMMA AdvanceRefines ==
  ASSUME NEW was, NEW target \in Phase, Advance(was, target)
  PROVE  Abstract!Next
<1>1. /\ canTransition(phase, target) /\ phase' = target
      /\ version' = version + 1
  BY DEF Advance, Fits, Stored
<1>2. QED
  BY <1>1
  DEF Abstract!Next, Abstract!Transition, Abstract!Phase, Phase,
      Abstract!canTransition, canTransition,
      Abstract!ALLOWED_TRANSITIONS, ALLOWED_TRANSITIONS

\* A handler moves the run by a transition, or not at all.
Refines == Abstract!Next \/ UNCHANGED run

\* A transition that returns or throws.
LEMMA TransitionRefines ==
  ASSUME NEW was, NEW target \in Phase,
         TransitionReturns(was, target) \/ TransitionThrows(was, target)
  PROVE  Refines
BY AdvanceRefines DEF TransitionReturns, TransitionThrows, Refines

\* What the handlers aim at are phases.
LEMMA Targets ==
  {"provisioning", "delegated", "in_progress", "terminal",
   "clean_terminated", "quarantined"} \subseteq Phase
BY DEF Phase

LEMMA StepsRefine ==
  ASSUME [Next]_vars
  PROVE  Refines
<1>1. ASSUME NEW d \in Dispatchers, Dispatch(d) \/ ExecuteRun(d)
      PROVE  Refines
  <2>1. CASE Provision(d) \/ Delegate(d) \/ Start(d) \/ Abandon(d)
    BY <2>1, Targets, TransitionRefines
    DEF Provision, Delegate, Start, Step, Abandon, Refines
  <2>2. CASE \/ Dispatch(d) \/ CreateVm(d) \/ Enroll(d) \/ Deliver(d)
             \/ Supervise(d)
    BY <2>2 DEF Dispatch, CreateVm, Enroll, Deliver, Supervise, Refines
  <2>3. QED
    BY <1>1, <2>1, <2>2 DEF ExecuteRun
<1>2. ASSUME NEW t \in Teardowns, NEW named \in BOOLEAN,
             NEW device \in {0} \cup Vms, RequestTeardown(t, named, device)
      PROVE  Refines
  BY <1>2 DEF RequestTeardown, Refines
<1>3. ASSUME NEW h \in Dispatchers \cup Teardowns, ExecuteTeardown(h)
      PROVE  Refines
  <2>1. CASE MarkTerminal(h)
    BY <2>1, Targets, TransitionRefines DEF MarkTerminal, Refines
  <2>2. CASE Finish(h)
    BY <2>2, Targets, TransitionRefines DEF Finish, Refines
  <2>3. CASE \/ RevokeCredentials(h) \/ DeauthorizeNode(h) \/ DeleteNode(h)
         \/ DestroyVm(h)
             \/ ConfirmVmAbsent(h) \/ ProbeEndpoints(h)
    BY <2>3
    DEF RevokeCredentials, DeauthorizeNode, DeleteNode, DestroyVm,
        ConfirmVmAbsent,
        ProbeEndpoints, Refines
  <2>4. QED
    BY <1>3, <2>1, <2>2, <2>3 DEF ExecuteTeardown
<1>4. ASSUME NEW r \in Recoverers, Reconcile(r) \/ RecoverRun(r)
      PROVE  Refines
  <2>1. CASE Quarantine(r)
    BY <2>1, Targets, TransitionRefines DEF Quarantine, Refines
  <2>2. CASE Reconcile(r) \/ ListInFlight(r) \/ SweepNode(r) \/ SweepVm(r)
    BY <2>2 DEF Reconcile, ListInFlight, SweepNode, SweepVm, Refines
  <2>3. QED
    BY <1>4, <2>1, <2>2 DEF RecoverRun
<1>5. CASE NodeEnrolls \/ NodeExpires \/ Crash \/ UNCHANGED vars
  BY <1>5 DEF NodeEnrolls, NodeExpires, Crash, vars, run, Refines
<1>6. QED
  BY <1>1, <1>2, <1>3, <1>4, <1>5 DEF Next

\* All the handlers together, with their failures and crashes, implement the
\* abstract run: no interleaving of dispatches, teardowns and recoveries makes
\* the run skip a phase, go back or take a version twice.
THEOREM Refinement == Spec => ImplementsRunPhases
<1>1. Init => Abstract!Init
  BY DEF Init, Abstract!Init
<1>2. [Next]_vars => [Abstract!Next]_(Abstract!vars)
  BY StepsRefine DEF Refines, run, Abstract!vars
<1>3. QED
  BY <1>1, <1>2, PTL DEF Spec, ImplementsRunPhases, Abstract!Spec
=============================================================================
