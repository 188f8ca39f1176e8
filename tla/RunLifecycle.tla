---------------------------- MODULE RunLifecycle ----------------------------
(***************************************************************************)
(* The life of one run and of its sandbox: LiveDispatcher.executeRun, the  *)
(* 13-step TeardownEngine.executeTeardown, RecoveryEngine.recoverRun and   *)
(* the handlers of server.ts that start them, over the run store, exe.dev  *)
(* and Tailscale.                                                          *)
(*                                                                         *)
(* Handlers are asynchronous and nothing keeps two of them from working on *)
(* the same run: each action is what one does between two awaits that      *)
(* matter to the others.  transition() is one step here: module            *)
(* RunStateMachine shows that it implements one.  A fault is a request to  *)
(* the store, the ledger or a provider that throws; the request of a       *)
(* transition or to a provider may have been carried out all the same.     *)
(* What the sandbox does (boots late, fails its gates, fails or exceeds    *)
(* its time) is free.                                                      *)
(*                                                                         *)
(* The run's sandbox has one name; its VMs are numbered as they are        *)
(* created, and a VM's number is also the id of its Tailscale device.      *)
(*                                                                         *)
(* A definition commented "Mutant of" is a plausible mistake in the code.  *)
(***************************************************************************)
EXTENDS Naturals, Phases

CONSTANTS
  Dispatchers,  \* handlers of POST /runs/:id/dispatch
  Teardowns,    \* handlers of POST /runs/:id/teardown
  Recoverers,   \* boot recoveries and handlers of POST /runs/reconcile
  MaxVersion,   \* bound: no dispatch begins at this version or later
  MaxBoots,     \* bound on the VMs ever created
  MaxFaults,    \* bound on the requests that fail
  MaxCrashes    \* bound on the crashes of the server

ASSUME ConstantsAssumption ==
  {MaxVersion, MaxBoots, MaxFaults, MaxCrashes} \subseteq Nat

Handlers == Dispatchers \cup Teardowns \cup Recoverers

VARIABLES
  phase, version,  \* the run, as stored
  vm,              \* exe.dev: the number of the run's VM, 0 when there is none
  boots,           \* exe.dev: how many VMs have been created
  node,            \* Tailscale: what it says of the device of each VM
  pc,              \* where each handler is
  local,           \* what each handler holds in its variables
  faults, crashes, \* auxiliary: how many there have been
  storeFailed,     \* auxiliary: one was a request for the run or its lease
  stray,           \* auxiliary: the VM's creator no longer had the run
  unproven         \* auxiliary: what the last clean attestation took on trust

run == <<phase, version>>
world == <<vm, boots, node>>
failures == <<faults, storeFailed>>
vars == <<phase, version, vm, boots, node, pc, local, faults, crashes,
          storeFailed, stray, unproven>>

Vms == 1 .. MaxBoots

\* The devices that the tailnet's inventory shows.
Inventory == {k \in Vms : node[k] \in {"listed", "deauthorized"}}

Nothing ==
  [run |-> [phase |-> "created", version |-> 0],  \* currentPhase, stateVersion
   terminal |-> 0,      \* the version after step 1 of its teardown
   device |-> 0,        \* the Tailscale device it knows, 0 for unknown-node
   named |-> TRUE,      \* it names the run's VM, not another
   trying |-> FALSE,    \* executeRun's try block calls the teardown
   cred |-> FALSE, ts |-> FALSE, vm |-> FALSE, probe |-> FALSE, \* its evidence
   trust |-> {}]        \* auxiliary: what its evidence takes on trust

Init ==
  /\ phase = "created" /\ version = 1
  /\ vm = 0 /\ boots = 0
  /\ node = [k \in Vms |-> "none"]
  /\ pc = [h \in Handlers |-> "idle"]
  /\ local = [h \in Handlers |-> Nothing]
  /\ faults = 0 /\ crashes = 0 /\ storeFailed = FALSE
  /\ stray = FALSE
  /\ unproven = {}

-----------------------------------------------------------------------------
Fault == faults < MaxFaults /\ faults' = faults + 1
StoreFault == Fault /\ storeFailed' = TRUE
OtherFault == Fault /\ UNCHANGED storeFailed
NoFault == UNCHANGED failures

Stored == [phase |-> phase, version |-> version]

\* transition() finds the run as the caller last knew it.
Fits(was, target) == Stored = was /\ canTransition(phase, target)

Advance(was, target) ==
  /\ Fits(was, target)
  /\ phase' = target
  /\ version' = was.version + 1

TransitionReturns(was, target) == Advance(was, target) /\ NoFault

TransitionThrows(was, target) ==
  \/ ~Fits(was, target) /\ UNCHANGED run /\ NoFault
  \/ (UNCHANGED run \/ Advance(was, target)) /\ StoreFault

\* Mutant of After: the new version is not taken over.
AfterPhase(was, target) == [phase |-> target]

\* What the caller then holds.
After(was, target) == [phase |-> target, version |-> was.version + 1]

Goto(h, label) == pc' = [pc EXCEPT ![h] = label]

Leave(h) == Goto(h, "idle") /\ local' = [local EXCEPT ![h] = Nothing]

\* Mutant of Catch: only a run that is still created is cleaned up.
CatchOrGiveUp(d) ==
  IF local[d].run.phase = "created"
  THEN Goto(d, "abandon") /\ local' = [local EXCEPT ![d].trying = FALSE]
  ELSE Leave(d)

\* executeRun's catch block.
Catch(d) ==
  /\ Goto(d, IF local[d].run.phase = "created" THEN "abandon" ELSE "mark")
  /\ local' = [local EXCEPT ![d].trying = FALSE]

-----------------------------------------------------------------------------
(* executeRun *)

Dispatch(d) ==
  /\ pc[d] = "idle"
  /\ version < MaxVersion
  /\ local' = [local EXCEPT ![d] = [Nothing EXCEPT !.run = Stored]]
  /\ Goto(d, "provision")
  /\ UNCHANGED <<run, world, failures, crashes, stray, unproven>>

\* Mutant of Provision: a run found in provisioning is taken for one's own.
ProvisionIdempotently(d) ==
  /\ pc[d] = "provision"
  /\ \/ /\ TransitionReturns(local[d].run, "provisioning")
        /\ local' = [local EXCEPT ![d].run = After(@, "provisioning")]
        /\ Goto(d, "create")
     \/ /\ phase = "provisioning"
        /\ local' = [local EXCEPT ![d].run = Stored]
        /\ Goto(d, "create")
        /\ UNCHANGED <<run, failures>>
     \/ TransitionThrows(local[d].run, "provisioning") /\ Catch(d)
  /\ UNCHANGED <<world, crashes, stray, unproven>>

\* Preflight, then the transition to provisioning.
Provision(d) ==
  /\ pc[d] = "provision"
  /\ \/ /\ TransitionReturns(local[d].run, "provisioning")
        /\ local' = [local EXCEPT ![d].run = After(@, "provisioning")]
        /\ Goto(d, "create")
     \/ TransitionThrows(local[d].run, "provisioning") /\ Catch(d)
     \/ UNCHANGED <<run, failures>> /\ Catch(d)
  /\ UNCHANGED <<world, crashes, stray, unproven>>

Boot(d) ==
  /\ vm = 0 /\ boots < MaxBoots
  /\ boots' = boots + 1
  /\ vm' = boots'
  /\ stray' = (Stored # local[d].run)
  /\ UNCHANGED node

\* Mint the auth key and create the VM; the name may be taken.
CreateVm(d) ==
  /\ pc[d] = "create"
  /\ \/ Boot(d) /\ NoFault /\ Goto(d, "enroll") /\ UNCHANGED local
     \/ Boot(d) /\ OtherFault /\ Catch(d)
     \/ OtherFault /\ Catch(d) /\ UNCHANGED <<world, stray>>
     \/ /\ vm # 0 \/ boots = MaxBoots
        /\ NoFault /\ Catch(d) /\ UNCHANGED <<world, stray>>
  /\ UNCHANGED <<run, crashes, unproven>>

\* Poll for a device with the VM's hostname, or time out.
Enroll(d) ==
  /\ pc[d] = "enroll"
  /\ \/ \E k \in Vms :
          /\ k \in Inventory
          /\ local' = [local EXCEPT ![d].device = k]
          /\ Goto(d, "deliver")
     \/ Catch(d)
  /\ UNCHANGED <<run, world, failures, crashes, stray, unproven>>

\* Posture gate, health, envelope, POST /delegate: the first that fails ends it.
Deliver(d) ==
  /\ pc[d] = "deliver"
  /\ (Goto(d, "delegate") /\ UNCHANGED local) \/ Catch(d)
  /\ UNCHANGED <<run, world, failures, crashes, stray, unproven>>

Step(d, label, target, next) ==
  /\ pc[d] = label
  /\ \/ /\ TransitionReturns(local[d].run, target)
        /\ local' = [local EXCEPT ![d].run = After(@, target)]
        /\ Goto(d, next)
     \/ TransitionThrows(local[d].run, target) /\ Catch(d)
  /\ UNCHANGED <<world, crashes, stray, unproven>>

Delegate(d) == Step(d, "delegate", "delegated", "start")
Start(d) == Step(d, "start", "in_progress", "supervise")

\* Poll the sandbox, collect its output, reconcile the effects.
Supervise(d) ==
  /\ pc[d] = "supervise"
  /\ \/ Goto(d, "mark") /\ local' = [local EXCEPT ![d].trying = TRUE]
     \/ Catch(d)
  /\ UNCHANGED <<run, world, failures, crashes, stray, unproven>>

\* The run was still created: quarantine it, whether that works or not.
Abandon(d) ==
  /\ pc[d] = "abandon"
  /\ \/ TransitionReturns(local[d].run, "quarantined")
     \/ TransitionThrows(local[d].run, "quarantined")
  /\ Leave(d)
  /\ UNCHANGED <<world, crashes, stray, unproven>>

-----------------------------------------------------------------------------
(* executeTeardown *)

\* POST teardown: the body names the VM and its device, or leaves a default
\* (the names of a multi-phase run's VMs are not the default).
RequestTeardown(t, named, device) ==
  /\ pc[t] = "idle"
  /\ device \in {0} \cup Inventory
  /\ local' = [local EXCEPT ![t] = [Nothing EXCEPT
                 !.run = Stored, !.named = named, !.device = device]]
  /\ Goto(t, "mark")
  /\ UNCHANGED <<run, world, failures, crashes, stray, unproven>>

\* The teardown throws: executeRun catches it once, a handler answers 500.
TeardownThrows(h) == IF local[h].trying THEN Catch(h) ELSE Leave(h)

\* Mutant of MarkTerminal: the teardown goes on when the transition fails.
MarkOrGoOn(h) ==
  /\ pc[h] = "mark"
  /\ \/ /\ TransitionReturns(local[h].run, "terminal")
        /\ local' = [local EXCEPT ![h].terminal = version']
     \/ /\ TransitionThrows(local[h].run, "terminal")
        /\ local' = [local EXCEPT ![h].terminal = local[h].run.version]
  /\ Goto(h, "revoke")
  /\ UNCHANGED <<world, crashes, stray, unproven>>

\* Step 1.
MarkTerminal(h) ==
  /\ pc[h] = "mark"
  /\ IF local[h].run.phase = "terminal"
     THEN /\ local' = [local EXCEPT ![h].terminal = local[h].run.version]
          /\ Goto(h, "revoke")
          /\ UNCHANGED <<run, failures>>
     ELSE \/ /\ TransitionReturns(local[h].run, "terminal")
             /\ local' = [local EXCEPT ![h].terminal = version']
             /\ Goto(h, "revoke")
          \/ TransitionThrows(local[h].run, "terminal") /\ TeardownThrows(h)
  /\ UNCHANGED <<world, crashes, stray, unproven>>

\* Steps 2 and 3: record the revocation, signal the stop.
RevokeCredentials(h) ==
  /\ pc[h] = "revoke"
  /\ \/ NoFault /\ local' = [local EXCEPT ![h].cred = TRUE]
     \/ OtherFault /\ local' = [local EXCEPT ![h].cred = FALSE]
  /\ Goto(h, "deauthorize")
  /\ UNCHANGED <<run, world, crashes, stray, unproven>>

\* The node map when a request about device k has been carried out.
With(k, status) ==
  [j \in Vms |-> IF j = k /\ node[j] # "gone" THEN status ELSE node[j]]

\* Step 5: deauthorize the device it knows, and record it.  The device stays
\* in the inventory; one that is not there answers 404, which counts as done.
DeauthorizeNode(h) ==
  /\ pc[h] = "deauthorize"
  /\ LET k == local[h].device
         taken == IF k = boots THEN {} ELSE {"node"} IN
     \/ /\ NoFault
        /\ node' = With(k, "deauthorized")
        /\ local' = [local EXCEPT ![h].ts = TRUE, ![h].trust = taken]
     \/ /\ OtherFault
        /\ node' \in {node, With(k, "deauthorized")}
        /\ local' = [local EXCEPT ![h].ts = FALSE, ![h].trust = taken]
  /\ Goto(h, "delete")
  /\ UNCHANGED <<run, vm, boots, crashes, stray, unproven>>

\* Step 6: delete it, and record that; either step satisfies the attestation.
DeleteNode(h) ==
  /\ pc[h] = "delete"
  /\ LET k == local[h].device IN
     \/ /\ NoFault
        /\ node' = With(k, "gone")
        /\ local' = [local EXCEPT ![h].ts = TRUE]
     \/ /\ OtherFault
        /\ node' \in {node, With(k, "gone")}
        /\ local' = [local EXCEPT ![h].trust = @ \cup {"deletion"}]
  /\ Goto(h, "destroy")
  /\ UNCHANGED <<run, vm, boots, crashes, stray, unproven>>

\* Step 7.
DestroyVm(h) ==
  /\ pc[h] = "destroy"
  /\ IF local[h].named /\ vm # 0
     THEN \/ /\ NoFault /\ vm' = 0
             /\ local' = [local EXCEPT ![h].vm = TRUE]
          \/ /\ OtherFault /\ vm' \in {0, vm}
             /\ local' = [local EXCEPT ![h].vm = FALSE]
     ELSE \* The provider does not know the name: it may say so or not.
          /\ NoFault /\ UNCHANGED vm
          /\ \E ok \in BOOLEAN : local' = [local EXCEPT ![h].vm = ok]
  /\ Goto(h, "confirm")
  /\ UNCHANGED <<run, boots, node, crashes, stray, unproven>>

\* Step 8.  An error of the query, or an answer without the word running,
\* is taken for absence.
ConfirmVmAbsent(h) ==
  /\ pc[h] = "confirm"
  /\ LET seen == local[h].named /\ vm # 0 IN
     \/ /\ NoFault
        /\ local' = [local EXCEPT
             ![h].vm = @ \/ ~seen,
             ![h].trust = @ \cup (IF local[h].named THEN {} ELSE {"vm"})]
     \/ /\ OtherFault /\ seen
        /\ local' = [local EXCEPT ![h].vm = TRUE, ![h].trust = @ \cup {"vm"}]
  /\ Goto(h, "probe")
  /\ UNCHANGED <<run, world, crashes, stray, unproven>>

\* Step 9, and the records of steps 8 and 9, which may throw.  A device whose
\* VM runs may answer; without a device the address is another host's, about
\* which anything may be found.
ProbeEndpoints(h) ==
  /\ pc[h] = "probe"
  /\ LET k == local[h].device
         mayAnswer == k = 0 \/ (vm = k /\ node[k] = "listed") IN
     \/ /\ NoFault
        /\ \E silent \in IF mayAnswer THEN BOOLEAN ELSE {TRUE} :
             local' = [local EXCEPT ![h].probe = silent]
        /\ Goto(h, "finish")
     \/ OtherFault /\ TeardownThrows(h)
  /\ UNCHANGED <<run, world, crashes, stray, unproven>>

\* Mutant of evaluateCleanTerminated: the VM's fate is not asked for.
evaluateWithoutVm(h) == local[h].cred /\ local[h].ts /\ local[h].probe

\* The predicates of the attestation that can fail (the chain is valid:
\* module EvidenceLedger).
evaluateCleanTerminated(h) ==
  local[h].cred /\ local[h].ts /\ local[h].vm /\ local[h].probe

\* Steps 10 to 13: verify the chain, which may throw; commit the outcome.
Finish(h) ==
  /\ pc[h] = "finish"
  /\ LET clean == evaluateCleanTerminated(h)
         target == IF clean THEN "clean_terminated" ELSE "quarantined"
         was == [phase |-> "terminal", version |-> local[h].terminal] IN
     \/ /\ TransitionReturns(was, target) /\ Leave(h)
        /\ unproven' = IF clean THEN local[h].trust ELSE unproven
     \/ /\ TransitionThrows(was, target) /\ TeardownThrows(h)
        /\ unproven' = IF clean /\ phase' # phase THEN local[h].trust
                                                  ELSE unproven
  /\ UNCHANGED <<world, crashes, stray>>

-----------------------------------------------------------------------------
(* recoverRun *)

\* Mutant of Quarantinable: a phase is forgotten.
QuarantinableButDelegated == {"provisioning", "in_progress", "evaluating"}

Quarantinable == {"provisioning", "delegated", "in_progress", "evaluating"}

\* The operator's reconcile of this run, in any phase.
Reconcile(r) ==
  /\ pc[r] = "idle"
  /\ local' = [local EXCEPT ![r].run = Stored]
  /\ Goto(r, "sweepNode")
  /\ UNCHANGED <<run, world, failures, crashes, stray, unproven>>

\* At boot, of every run listInFlightRuns returns; its query may throw.
ListInFlight(r) ==
  /\ pc[r] = "boot"
  /\ \/ /\ phase \in InFlightPhases
        /\ local' = [local EXCEPT ![r].run = Stored]
        /\ Goto(r, "sweepNode") /\ NoFault
     \/ phase \notin InFlightPhases /\ Leave(r) /\ NoFault
     \/ StoreFault /\ Leave(r)
  /\ UNCHANGED <<run, world, crashes, stray, unproven>>

\* Take the lease, which may throw; deauthorize and delete one device of the
\* run, if any.
SweepNode(r) ==
  /\ pc[r] = "sweepNode"
  /\ \/ /\ NoFault
        /\ Goto(r, "sweepVm") /\ UNCHANGED local
        /\ IF Inventory # {}
           THEN \E k \in Inventory : node' = With(k, "gone")
           ELSE UNCHANGED node
     \/ /\ OtherFault /\ Goto(r, "sweepVm") /\ UNCHANGED local
        /\ \/ UNCHANGED node
           \/ \E k \in Inventory, status \in {"deauthorized", "gone"} :
                node' = With(k, status)
     \/ StoreFault /\ Leave(r) /\ UNCHANGED node
  /\ UNCHANGED <<run, vm, boots, crashes, stray, unproven>>

SweepVm(r) ==
  /\ pc[r] = "sweepVm"
  /\ (NoFault /\ vm' = 0) \/ (OtherFault /\ vm' \in {0, vm})
  /\ Goto(r, "quarantine")
  /\ UNCHANGED <<run, boots, node, local, crashes, stray, unproven>>

Quarantine(r) ==
  /\ pc[r] = "quarantine"
  /\ IF local[r].run.phase \in Quarantinable
     THEN \/ TransitionReturns(local[r].run, "quarantined")
          \/ TransitionThrows(local[r].run, "quarantined")
     ELSE UNCHANGED <<run, failures>>
  /\ Leave(r)
  /\ UNCHANGED <<world, crashes, stray, unproven>>

-----------------------------------------------------------------------------
(* The world *)

\* The VM's setup script joins the tailnet with its single-use key.
NodeEnrolls ==
  /\ vm # 0 /\ node[vm] = "none"
  /\ node' = [node EXCEPT ![vm] = "listed"]
  /\ UNCHANGED <<run, vm, boots, pc, local, failures, crashes, stray, unproven>>

\* Tailscale drops an ephemeral device that has gone offline.
NodeExpires ==
  /\ \E k \in Inventory : /\ k # vm \/ node[k] = "deauthorized"
                          /\ node' = With(k, "gone")
  /\ UNCHANGED <<run, vm, boots, pc, local, failures, crashes, stray, unproven>>

\* The server dies with all its handlers; at boot it starts a recovery.
Crash ==
  /\ crashes < MaxCrashes
  /\ crashes' = crashes + 1
  /\ \E r \in Recoverers :
       pc' = [h \in Handlers |-> IF h = r THEN "boot" ELSE "idle"]
  /\ local' = [h \in Handlers |-> Nothing]
  /\ UNCHANGED <<run, world, failures, stray, unproven>>

ExecuteRun(d) ==
  \/ Provision(d) \/ CreateVm(d) \/ Enroll(d) \/ Deliver(d) \/ Delegate(d)
  \/ Start(d) \/ Supervise(d) \/ Abandon(d)

ExecuteTeardown(h) ==
  \/ MarkTerminal(h) \/ RevokeCredentials(h) \/ DeauthorizeNode(h)
  \/ DeleteNode(h) \/ DestroyVm(h) \/ ConfirmVmAbsent(h) \/ ProbeEndpoints(h)
  \/ Finish(h)

RecoverRun(r) == ListInFlight(r) \/ SweepNode(r) \/ SweepVm(r) \/ Quarantine(r)

Next ==
  \/ \E d \in Dispatchers : Dispatch(d) \/ ExecuteRun(d)
  \/ \E t \in Teardowns, named \in BOOLEAN, device \in {0} \cup Vms :
       RequestTeardown(t, named, device)
  \/ \E h \in Dispatchers \cup Teardowns : ExecuteTeardown(h)
  \/ \E r \in Recoverers : Reconcile(r) \/ RecoverRun(r)
  \/ NodeEnrolls \/ NodeExpires \/ Crash

Spec == Init /\ [][Next]_vars

\* The event loop runs every handler on, and every request ends.
Fairness ==
  /\ \A d \in Dispatchers : WF_vars(ExecuteRun(d) \/ ExecuteTeardown(d))
  /\ \A t \in Teardowns : WF_vars(ExecuteTeardown(t))
  /\ \A r \in Recoverers : WF_vars(RecoverRun(r))

FairSpec == Spec /\ Fairness

-----------------------------------------------------------------------------
Labels ==
  {"idle", "provision", "create", "enroll", "deliver", "delegate", "start",
   "supervise", "abandon", "mark", "revoke", "deauthorize", "delete",
   "destroy", "confirm", "probe", "finish", "boot", "sweepNode", "sweepVm", "quarantine"}

Statuses == {"none", "listed", "deauthorized", "gone"}
Trusts == {"vm", "node", "deletion"}

Local ==
  [run : [phase : Phase, version : Nat], terminal : Nat,
   device : {0} \cup Vms, named : BOOLEAN, trying : BOOLEAN,
   cred : BOOLEAN, ts : BOOLEAN, vm : BOOLEAN, probe : BOOLEAN,
   trust : SUBSET Trusts]

\* Every variable holds a value of its kind.
TypeOK ==
  /\ phase \in Phase
  /\ version \in Nat \ {0}
  /\ boots \in 0 .. MaxBoots
  /\ vm \in {0, boots}
  /\ node \in [Vms -> Statuses]
  /\ pc \in [Handlers -> Labels]
  /\ local \in [Handlers -> Local]
  /\ faults \in 0 .. MaxFaults
  /\ crashes \in 0 .. MaxCrashes
  /\ storeFailed \in BOOLEAN
  /\ stray \in BOOLEAN
  /\ unproven \subseteq Trusts

(***************************************************************************)
(* The run is driven by one dispatcher at a time: of two that create,      *)
(* enroll, deliver to or supervise its sandbox, at most one still has the  *)
(* run's version; the others cannot commit anything any more.  (the        *)
(* transition to provisioning as the lock they take.  It is not so of      *)
(* teardowns: two of a run that is stored terminal both skip step 1, and   *)
(* both have its version until one commits the outcome.)                   *)
(***************************************************************************)
Driving ==
  {"create", "enroll", "deliver", "delegate", "start", "supervise"}

OneDriver ==
  \A d, e \in Dispatchers :
    /\ pc[d] \in Driving /\ pc[e] \in Driving
    /\ local[d].run = Stored /\ local[e].run = Stored
    => d = e

(***************************************************************************)
(* A VM whose dispatcher still has the run is destroyed by no teardown     *)
(* that has the run itself, for such a teardown took it from the           *)
(* dispatcher: only a recovery sweeps it before it quarantines the run, or *)
(* a teardown that lost the run and does not know.  (the order of steps 1  *)
(* and 7 of executeTeardown, and of steps 2 and 3 of recoverRun)           *)
(***************************************************************************)
VmOutlivesItsRun ==
  [][ /\ vm # 0 /\ vm' = 0
      /\ \E d \in Dispatchers : /\ pc[d] \in Driving \ {"create"}
                                /\ local[d].run = Stored
      => \E h \in Handlers :
           /\ pc'[h] # pc[h]
           /\ \/ pc[h] = "sweepVm"
              \/ pc[h] = "destroy" /\ local[h].terminal # version ]_vars

(***************************************************************************)
(* When a run is clean_terminated and its VM exists, or its device is      *)
(* still in the inventory, then either the VM was created by a dispatcher  *)
(* that no longer had the run, or the attestation took that for granted:   *)
(* the status query failed, the teardown named another VM, or it did not   *)
(* know the device.  A device whose deletion failed may be left as well,   *)
(* but only deauthorized.  There is no other way.  (executeTeardown, which *)
(* takes either of its steps 5 and 6 for enough, and                       *)
(* evaluateCleanTerminated)                                                *)
(***************************************************************************)
CleanIsProvenOrExplained ==
  phase = "clean_terminated" =>
    /\ vm # 0 => stray \/ "vm" \in unproven
    /\ boots # 0 /\ node[boots] = "listed" => stray \/ "node" \in unproven
    /\ boots # 0 /\ node[boots] = "deauthorized" =>
         stray \/ "node" \in unproven \/ "deletion" \in unproven

InFlight == phase \in InFlightPhases \ {"created"}
Settled == phase \in {"clean_terminated", "quarantined"}

(***************************************************************************)
(* A run in flight is attended: by a dispatcher, a teardown or a recovery  *)
(* that holds it as it is stored, or by the recovery of a server that has  *)
(* just booted.  Failing providers, crashes and handlers that take the run *)
(* from each other do not change that; only a request to the store that    *)
(* fails (its reply lost, say, when the run had become provisioning and    *)
(* the dispatcher believes it created) leaves it to nobody.  (executeRun's *)
(* catch block, step 1 of executeTeardown, recoverRun)                     *)
(***************************************************************************)
Attends(h) ==
  \/ pc[h] = "boot"
  \/ /\ local[h].run = Stored
     /\ pc[h] \in Driving \cup {"mark", "sweepNode", "sweepVm", "quarantine"}

InFlightIsAttended ==
  InFlight /\ ~storeFailed => \E h \in Handlers : Attends(h)

(***************************************************************************)
(* As long as the store answers, and although providers fail and the       *)
(* server crashes, no run stays in flight: its dispatcher brings it to an  *)
(* end, or the recovery at the next boot does.  (executeRun's catch block; *)
(* listInFlightRuns and recoverRun)                                        *)
(***************************************************************************)
InFlightEnds == InFlight ~> (~InFlight \/ storeFailed)

(***************************************************************************)
(* Whatever the handlers do to each other, the run they work on is a run   *)
(* of the state machine: it moves along the table, one version at a time.  *)
(* That is what RunStateMachine promises of transition(), and all that a   *)
(* reader of the run's row can rely on.                                    *)
(***************************************************************************)
Abstract == INSTANCE RunPhases
ImplementsRunPhases == Abstract!Spec

(***************************************************************************)
(* "Every phase transition is durable, lease-guarded, fencing-token        *)
(* protected, and recoverable after restart": a run whose teardown was cut *)
(* short is torn down in the end.  (docs/outside_orchestrator_role_v2.md)  *)
(***************************************************************************)
TerminalIsRecovered == phase = "terminal" ~> Settled

(***************************************************************************)
(* "CLEAN_TERMINATED is impossible when node absence, VM destruction,      *)
(* credential revocation, or evidence verification cannot be proven."      *)
(* (docs/outside_orchestrator_role_v2.md)                                  *)
(***************************************************************************)
CleanMeansNoVm == phase = "clean_terminated" => vm = 0
=============================================================================
