----------------------------- MODULE FleetStore -----------------------------
(***************************************************************************)
(* What the server's engines share when there are many runs: the rows of   *)
(* factory_runs in the order of their creation, one lease per run, and the *)
(* devices and auth keys of the tailnet.  The dispatcher and the teardown, *)
(* which RunLifecycle models handler by handler for one run, appear here   *)
(* as what they do to these tables (Advance, RemoveDevice).                *)
(***************************************************************************)
EXTENDS Disturbances, Sequences, Phases

CONSTANTS
  Keys,            \* idempotency keys, each with its tenant
  NoKey,           \* a request that names none: the server draws a fresh one
  LiveKey,         \* what the live runner draws for a run of its own
  MaxRuns,         \* bound on the number of runs
  MaxVersion,      \* bound on state_version
  MaxDevices,      \* bound on the devices that ever enrol
  Scenarios        \* what may happen beside each other in one behaviour, how
                   \* many requests fail, and the devices there before any run

ASSUME LiveKeyAssumption == LiveKey \notin Keys \cup {NoKey}

ASSUME BoundsAssumption ==
  MaxRuns \in Nat /\ MaxVersion \in Nat \ {0} /\ MaxDevices \in Nat

VARIABLES
  runs,      \* factory_runs, in the order of created_at
  leases,    \* the state of each run's lease
  tailnet,   \* the devices, in the order of their enrolment
  authKeys   \* the auth key of the VM each run provisioned last

storeVars == <<runs, leases, tailnet, authKeys>>

RunIds == 1..MaxRuns
Rows == 1..Len(runs)

SandboxTags == {"tag:factory-sandbox"}
FORBIDDEN_SANDBOX_TAGS == {"tag:private-compute-prod"}

\* owner is what extractRunId reads from the hostname: 0 when it reads none.
Device ==
  [owner : Nat, tags : SUBSET (SandboxTags \cup FORBIDDEN_SANDBOX_TAGS),
   router : BOOLEAN, sbxName : BOOLEAN,
   authorized : BOOLEAN, expired : BOOLEAN, there : BOOLEAN]

SandboxOf(r) ==
  [owner |-> r, tags |-> SandboxTags, router |-> FALSE, sbxName |-> TRUE,
   authorized |-> TRUE, expired |-> FALSE, there |-> TRUE]

\* since is auxiliary: how many devices had enrolled at the last dispatch.
Run ==
  [key : Keys \cup {NoKey, LiveKey}, phase : Phase, version : 1..(MaxVersion + 1),
   device : 0..MaxDevices, since : 0..MaxDevices, driven : BOOLEAN]

\* Mutant: the first version is 0, as a column without its default would be.
CreatedRunUnversioned(k) ==
  [key |-> k, phase |-> "created", version |-> 0, device |-> 0,
   since |-> 0, driven |-> FALSE]

\* What admission and the live runner insert: no VM, no device, no handler at work.
CreatedRun(k) ==
  [key |-> k, phase |-> "created", version |-> 1, device |-> 0,
   since |-> 0, driven |-> FALSE]

StoreTypeOK ==
  /\ runs \in Seq(Run) /\ Len(runs) <= MaxRuns
  /\ leases \in [RunIds -> {"none", "active", "lapsed"}]
  /\ tailnet \in Seq(Device) /\ Len(tailnet) <= MaxDevices
  /\ authKeys \in [RunIds -> {"none", "fresh", "old", "spent", "deleted"}]
  /\ faults \in Nat
  /\ workload \in {s.may : s \in Scenarios}

\* The devices there from the start belong to no run, or to one long gone.
ScenariosAssumption ==
  \A s \in Scenarios :
    /\ s.faults \in Nat
    /\ s.tailnet \in Seq(Device) /\ Len(s.tailnet) <= MaxDevices
    /\ \A d \in 1..Len(s.tailnet) : s.tailnet[d].owner \notin RunIds
ASSUME ScenariosAssumption

StoreInit ==
  /\ runs = << >>
  /\ leases = [r \in RunIds |-> "none"]
  /\ \E s \in Scenarios :
       workload = s.may /\ faults = s.faults /\ tailnet = s.tailnet
  /\ authKeys = [r \in RunIds |-> "none"]

-----------------------------------------------------------------------------
\* The gate of the dispatcher on the device of its VM (networkPolicy is
\* "isolated" and the expected tag is the sandbox tag in every call).
verifyNodePosture(d) ==
  /\ SandboxTags \subseteq d.tags
  /\ d.tags \cap FORBIDDEN_SANDBOX_TAGS = {}
  /\ ~d.router
  /\ d.authorized
  /\ ~d.expired

\* The phases in which a dispatcher works on the run and uses its device.
DrivenPhases == InFlightPhases \ {"created"}

Uses(r, d) ==
  r \in Rows /\ runs[r].device = d /\ runs[r].phase \in DrivenPhases

\* Names repeat: a device answers to the name of a run, whichever dispatch of
\* the run enrolled it.
DevicesOf(r) ==
  {d \in 1..Len(tailnet) :
     tailnet[d].there /\ tailnet[d].sbxName /\ tailnet[d].owner = r}

\* The first one in the order of the list.
IsFirstDevice(d, r) == d \in DevicesOf(r) /\ \A e \in DevicesOf(r) : d <= e

-----------------------------------------------------------------------------
\* A lease that is released is over at once.
Released(lease) == IF lease = "none" THEN "none" ELSE "lapsed"

\* One transition made by the dispatcher or the teardown of the run.  Both
\* die with the process; a new one starts with a dispatch or a teardown.  A
\* dispatch creates a VM with a fresh auth key, and delegates over the tailnet.
\* A teardown releases the lease before it ends, if its request succeeds and
\* the token it was called with is the lease's; it goes on if not.
Advance(r, target) ==
  /\ r \in Rows
  /\ runs[r].version < MaxVersion
  /\ canTransition(runs[r].phase, target)
  /\ runs[r].driven \/ target \in {"provisioning", "terminal"}
  /\ target = "delegated" =>
       /\ runs[r].device # 0
       /\ tailnet[runs[r].device].there
       /\ verifyNodePosture(tailnet[runs[r].device])
  /\ runs' = [runs EXCEPT
       ![r].phase = target,
       ![r].version = @ + 1,
       ![r].device = IF target = "provisioning" THEN 0 ELSE @,
       ![r].since = IF target = "provisioning" THEN Len(tailnet) ELSE @,
       ![r].driven = target \notin {"clean_terminated", "quarantined"}]
  /\ authKeys' = IF target = "provisioning"
                 THEN [authKeys EXCEPT ![r] = "fresh"] ELSE authKeys
  /\ \/ UNCHANGED leases
     \/ /\ runs[r].phase = "terminal"
        /\ leases' = [leases EXCEPT ![r] = Released(@)]
  /\ UNCHANGED tailnet

\* The teardown of a run in terminal removes the device it knows, or expels it
\* and fails to delete it.
RemoveDevice(r) ==
  /\ r \in Rows
  /\ runs[r].phase = "terminal" /\ runs[r].driven
  /\ runs[r].device # 0
  /\ tailnet[runs[r].device].there
  /\ \/ tailnet' = [tailnet EXCEPT ![runs[r].device].there = FALSE]
     \/ tailnet' = [tailnet EXCEPT ![runs[r].device].authorized = FALSE]
  /\ UNCHANGED <<runs, leases, authKeys>>

\* The VM joins the tailnet with its key, whatever has become of its run.
Enrol(r) ==
  /\ r \in Rows
  /\ authKeys[r] \in {"fresh", "old"}
  /\ Len(tailnet) < MaxDevices
  /\ tailnet' = Append(tailnet, SandboxOf(r))
  /\ authKeys' = [authKeys EXCEPT ![r] = "spent"]
  /\ UNCHANGED <<runs, leases>>

\* The dispatcher waits for a device of the name it gave its VM, and takes the
\* first there is: that of its VM, or one an earlier dispatch left behind.
FindDevice(r) ==
  /\ r \in Rows
  /\ runs[r].phase = "provisioning" /\ runs[r].driven /\ runs[r].device = 0
  /\ \E d \in DevicesOf(r) :
       /\ IsFirstDevice(d, r)
       /\ runs' = [runs EXCEPT ![r].device = d]
  /\ UNCHANGED <<leases, tailnet, authKeys>>

\* Time passes for a lease, a key, a device.
LeaseLapses(r) ==
  /\ leases[r] = "active"
  /\ leases' = [leases EXCEPT ![r] = "lapsed"]
  /\ UNCHANGED <<runs, tailnet, authKeys>>

KeyAges(r) ==
  /\ authKeys[r] = "fresh"
  /\ authKeys' = [authKeys EXCEPT ![r] = "old"]
  /\ UNCHANGED <<runs, leases, tailnet>>

DeviceExpires(d) ==
  /\ d \in 1..Len(tailnet)
  /\ tailnet[d].there /\ ~tailnet[d].expired
  /\ tailnet' = [tailnet EXCEPT ![d].expired = TRUE]
  /\ UNCHANGED <<runs, leases, authKeys>>

\* The process dies with every dispatcher and teardown in it.
DriversDie ==
  /\ runs' = [r \in Rows |-> [runs[r] EXCEPT !.driven = FALSE]]
  /\ UNCHANGED <<leases, tailnet, authKeys>>

Drive == \E r \in RunIds, target \in Phase \cap workload : Advance(r, target)

Join ==
  \E r \in RunIds :
    \/ RemoveDevice(r)
    \/ Enrol(r)
    \/ FindDevice(r)

Age ==
  \/ \E r \in RunIds : LeaseLapses(r)
  \/ \E r \in RunIds : KeyAges(r)
  \/ \E d \in 1..MaxDevices : DeviceExpires(d)

StoreNext ==
  /\ NoFault
  /\ \/ "join" \in workload /\ Join
     \/ Drive
     \/ "age" \in workload /\ Age
=============================================================================
