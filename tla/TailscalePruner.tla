-------------------------- MODULE TailscalePruner --------------------------
(***************************************************************************)
(* pruneStaleNodesAndKeys (core/tailscalePruner.ts): a cycle lists the     *)
(* devices, decides for each one from the state of its run and removes the *)
(* stale ones, then the stale auth keys, and records what it pruned.  Each *)
(* await is a step, so that runs move on and other cycles work in between: *)
(* the daemon's timer and POST /tailscale/prune start cycles that overlap. *)
(***************************************************************************)
EXTENDS FleetStore, FiniteSets

CONSTANTS
  Cycles,     \* cycles that may be at work at the same time
  Daemon      \* the one of the timer, which is never a dry run

VARIABLES
  cycle       \* where each cycle is and what it knows

NoCycle ==
  [pc |-> "idle", dryRun |-> FALSE, todo |-> {}, wasAuthorized |-> {},
   device |-> 0, staleKeys |-> {}]

Cycle ==
  [pc : {"idle", "devices", "lease", "deauthorize", "delete", "verify",
         "listKeys", "keys", "audit"},
   dryRun : BOOLEAN, todo : SUBSET (1..MaxDevices),
   wasAuthorized : SUBSET (1..MaxDevices), device : 0..MaxDevices,
   staleKeys : SUBSET RunIds]

PrunerTypeOK == cycle \in [Cycles -> Cycle]

PrunerInit == cycle = [c \in Cycles |-> NoCycle]

Devices == 1..Len(tailnet)
\* Mutant: a quarantined run counts as one in progress.
FinishedPhases == {"clean_terminated", "terminal"}

\* The phases whose devices are stale.
TerminalPhases == {"clean_terminated", "terminal", "quarantined"}

-----------------------------------------------------------------------------
\* Mutant: the tag and the name are both required.
isProtectedUnlessNamed(d) ==
  \/ d.tags \cap FORBIDDEN_SANDBOX_TAGS # {}
  \/ d.router
  \/ d.tags \cap SandboxTags = {} \/ ~d.sbxName

\* A production tag, a subnet router or exit node, or neither the tag nor the
\* name of a sandbox.
isProtectedDevice(d) ==
  \/ d.tags \cap FORBIDDEN_SANDBOX_TAGS # {}
  \/ d.router
  \/ d.tags \cap SandboxTags = {} /\ ~d.sbxName

\* The loop goes on to the next device, or to the keys when none is left.
Proceed(c, l) == cycle' = [cycle EXCEPT ![c] = l]

NextDevice(l) == [l EXCEPT !.pc = "devices", !.device = 0]

Retain(c, d) ==
  Proceed(c, NextDevice([cycle[c] EXCEPT !.todo = @ \ {d}]))

\* A stale device is removed, or only reported by a dry run.
Prune(c, d) ==
  LET l == [cycle[c] EXCEPT !.todo = @ \ {d}] IN
  Proceed(c, IF l.dryRun THEN NextDevice(l)
             ELSE [l EXCEPT !.pc = "deauthorize", !.device = d])

\* The first await of a cycle: the list of the devices, empty if it fails.
ListDevices(c, dryRun) ==
  /\ c \in workload /\ cycle[c].pc = "idle"
  /\ dryRun => c # Daemon
  /\ \/ /\ NoFault
        /\ Proceed(c, [NoCycle EXCEPT !.pc = "devices", !.dryRun = dryRun,
             !.todo = {d \in Devices : tailnet[d].there},
             !.wasAuthorized =
               {d \in Devices : tailnet[d].there /\ tailnet[d].authorized}])
     \/ /\ Fault
        /\ Proceed(c, [NoCycle EXCEPT !.pc = "devices", !.dryRun = dryRun])
  /\ UNCHANGED storeVars

\* A row of the store whose phase is none of the three.
NotOver(r) == r \in Rows /\ runs[r].phase \notin TerminalPhases

\* One device: protected ones are skipped; one of a run is judged by the run
\* as it is stored now; one of no run by its expiry and, as it was listed, its
\* authorization.
Judge(c) ==
  /\ cycle[c].pc = "devices"
  /\ \E d \in cycle[c].todo :
       LET dev == tailnet[d] IN
       \/ /\ isProtectedDevice(dev)
          /\ Retain(c, d) /\ NoFault
       \/ /\ ~isProtectedDevice(dev) /\ dev.owner # 0
          /\ \/ NoFault /\ ~NotOver(dev.owner) /\ Prune(c, d)
             \/ /\ NoFault /\ NotOver(dev.owner)
                /\ Proceed(c, [cycle[c] EXCEPT !.pc = "lease", !.device = d])
             \/ Fault /\ Retain(c, d)
       \/ /\ ~isProtectedDevice(dev) /\ dev.owner = 0 /\ NoFault
          /\ IF dev.expired \/ d \notin cycle[c].wasAuthorized
             THEN Prune(c, d) ELSE Retain(c, d)
  /\ UNCHANGED storeVars

\* Mutant of CheckLease: a lost lease alone makes the device stale.
CheckLeaseOnly(c) ==
  /\ cycle[c].pc = "lease"
  /\ LET d == cycle[c].device IN
     \/ NoFault /\ (IF leases[tailnet[d].owner] = "active"
                    THEN Retain(c, d) ELSE Prune(c, d))
     \/ Fault /\ Prune(c, d)
  /\ UNCHANGED storeVars

\* A run that is not over: its device stays while its lease is active, and
\* without a lease until the device has expired.  A failed read of the lease
\* counts as a lost lease.
CheckLease(c) ==
  /\ cycle[c].pc = "lease"
  /\ LET d == cycle[c].device
         stale == IF tailnet[d].expired THEN Prune(c, d) ELSE Retain(c, d) IN
     \/ NoFault /\ (IF leases[tailnet[d].owner] = "active"
                    THEN Retain(c, d) ELSE stale)
     \/ Fault /\ stale
  /\ UNCHANGED storeVars

\* The three requests of a removal; an error ends it and is reported.  A
\* device that is gone answers 404, which counts as done.  The error of the
\* query that verifies its absence is caught and counts as absence.  The
\* device is expelled by setting its expiry to the present.
DeauthorizeNode(c) ==
  /\ cycle[c].pc = "deauthorize"
  /\ \/ /\ NoFault
        /\ tailnet' = [tailnet EXCEPT ![cycle[c].device].authorized = FALSE]
        /\ Proceed(c, [cycle[c] EXCEPT !.pc = "delete"])
     \/ /\ Fault /\ Proceed(c, NextDevice(cycle[c]))
        /\ UNCHANGED tailnet
  /\ UNCHANGED <<runs, leases, authKeys>>

DeleteDevice(c) ==
  /\ cycle[c].pc = "delete"
  /\ \/ /\ NoFault
        /\ tailnet' = [tailnet EXCEPT ![cycle[c].device].there = FALSE]
        /\ Proceed(c, [cycle[c] EXCEPT !.pc = "verify"])
     \/ /\ Fault /\ Proceed(c, NextDevice(cycle[c]))
        /\ UNCHANGED tailnet
  /\ UNCHANGED <<runs, leases, authKeys>>

VerifyAbsence(c) ==
  /\ cycle[c].pc = "verify"
  /\ NoFault
  /\ Proceed(c, NextDevice(cycle[c]))
  /\ UNCHANGED storeVars

\* No device is left: the keys.  All of them carry the sandbox tag; one is
\* stale when it was used up or is older than maxAgeMs at the time of the list.
FinishDevices(c) ==
  /\ cycle[c].pc = "devices" /\ cycle[c].todo = {}
  /\ NoFault
  /\ Proceed(c, [cycle[c] EXCEPT !.pc = "listKeys"])
  /\ UNCHANGED storeVars

ListKeys(c) ==
  /\ cycle[c].pc = "listKeys"
  /\ \/ NoFault /\ Proceed(c, [cycle[c] EXCEPT !.pc = "keys",
                     !.staleKeys = {r \in RunIds : authKeys[r] \in {"old", "spent"}}])
     \/ Fault /\ Proceed(c, [cycle[c] EXCEPT !.pc = "audit"])
  /\ UNCHANGED storeVars

DeleteAuthKey(c) ==
  /\ cycle[c].pc = "keys"
  /\ \E r \in cycle[c].staleKeys :
       /\ Proceed(c, [cycle[c] EXCEPT !.staleKeys = @ \ {r}])
       /\ \/ /\ NoFault
             /\ authKeys' = IF ~cycle[c].dryRun
                            THEN [authKeys EXCEPT ![r] = "deleted"]
                            ELSE authKeys
          \/ Fault /\ UNCHANGED authKeys
  /\ UNCHANGED <<runs, leases, tailnet>>

FinishKeys(c) ==
  /\ cycle[c].pc = "keys" /\ cycle[c].staleKeys = {}
  /\ NoFault
  /\ Proceed(c, [cycle[c] EXCEPT !.pc = "audit"])
  /\ UNCHANGED storeVars

\* The record in the evidence ledger, whose error is reported, and the result.
Audit(c) ==
  /\ cycle[c].pc = "audit"
  /\ NoFault
  /\ Proceed(c, NoCycle)
  /\ UNCHANGED storeVars

PrunerStep(c) ==
  \/ Judge(c)
  \/ CheckLease(c)
  \/ DeauthorizeNode(c)
  \/ DeleteDevice(c)
  \/ VerifyAbsence(c)
  \/ FinishDevices(c)
  \/ ListKeys(c)
  \/ DeleteAuthKey(c)
  \/ FinishKeys(c)
  \/ Audit(c)

PrunerNext ==
  \E c \in Cycles :
    \/ \E dryRun \in BOOLEAN : ListDevices(c, dryRun)
    \/ PrunerStep(c)

-----------------------------------------------------------------------------
\* A device that a cycle is about to expel, and that a dispatcher works on all
\* the same, has expired, or an earlier dispatch of the run left it behind and
\* this one took it for its own.  The cycle decided from a list and a row that
\* may be several awaits old.
PruneSparesRunsInFlight ==
  \A c \in Cycles, r \in Rows :
    LET d == cycle[c].device IN
    cycle[c].pc = "deauthorize" /\ Uses(r, d) =>
      tailnet[d].expired \/ d <= runs[r].since

\* The gate of the dispatcher and the guard of the pruner agree: a device on
\* which a run may work is never one the pruner must leave behind.
VerifiedDevicesArePrunable ==
  \A d \in Devices : verifyNodePosture(tailnet[d]) => ~isProtectedDevice(tailnet[d])
=============================================================================
