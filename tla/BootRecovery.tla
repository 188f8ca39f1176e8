---------------------------- MODULE BootRecovery ----------------------------
(***************************************************************************)
(* recoverAllInFlightRuns (core/recoveryEngine.ts) at the boot of a new    *)
(* process: the runs in flight among the newest PageSize runs are          *)
(* recovered one by one, beside the requests the server answers already.   *)
(***************************************************************************)
EXTENDS FleetStore

CONSTANT PageSize   \* the limit of listInFlightRuns (100)

ASSUME PageAssumption == PageSize \in Nat

VARIABLES
  recovery,  \* where the recovery is and the runs it listed
  missed     \* auxiliary: runs with PageSize newer ones, or lost to a failure

Recovery ==
  [pc : {"off", "list", "lease", "sweep", "quarantine"},
   queue :
     SUBSET [run : RunIds, phase : Phase, version : 1..(MaxVersion + 1)]]

NoRecovery == [pc |-> "off", queue |-> {}]

RecoveryTypeOK == recovery \in Recovery /\ missed \subseteq RunIds

RecoveryInit == recovery = NoRecovery /\ missed = {}

\* A run in flight that no handler works on.
Stranded(r) == runs[r].phase \in DrivenPhases /\ ~runs[r].driven

-----------------------------------------------------------------------------
\* Mutant: the page starts one row too late.
ShortPage == {r \in Rows : r + PageSize > Len(runs) + 1}

\* The newest rows, whatever their phase; the filter comes after the limit.
Page == {r \in Rows : r + PageSize > Len(runs)}

Listed == {r \in Page : runs[r].phase \in InFlightPhases}

Snapshot(r) ==
  [run |-> r, phase |-> runs[r].phase, version |-> runs[r].version]

ListInFlightRuns ==
  /\ recovery.pc = "list"
  /\ \/ /\ NoFault
        /\ recovery' = [pc |-> IF Listed = {} THEN "off" ELSE "lease",
                        queue |-> {Snapshot(r) : r \in Listed}]
        /\ missed' = {r \in Rows : Len(runs) - r >= PageSize}
     \/ /\ Fault
        /\ recovery' = NoRecovery
        /\ missed' = RunIds
  /\ UNCHANGED storeVars

\* The loop works on the newest run that is left.
Current(s) ==
  s \in recovery.queue /\ \A t \in recovery.queue : t.run <= s.run

\* The report of this run is made; the loop goes on to the next.
NextRun(s) ==
  recovery' = [pc |-> IF recovery.queue = {s} THEN "off" ELSE "lease",
               queue |-> recovery.queue \ {s}]

\* The lease is taken by force; without it the run is reported as an error.
ReacquireLease(s) ==
  /\ recovery.pc = "lease" /\ Current(s)
  /\ \/ /\ NoFault
        /\ leases' = [leases EXCEPT ![s.run] = "active"]
        /\ recovery' = [recovery EXCEPT !.pc = "sweep"]
        /\ UNCHANGED missed
     \/ /\ Fault /\ NextRun(s)
        /\ missed' = missed \cup {s.run}
        /\ UNCHANGED leases
  /\ UNCHANGED <<runs, tailnet, authKeys>>

\* The first device of the run, in the order of the list, is expelled and
\* deleted; each error is swallowed.
SweepDevice(s) ==
  /\ recovery.pc = "sweep" /\ Current(s)
  /\ recovery' = [recovery EXCEPT !.pc = "quarantine"]
  /\ \/ /\ NoFault
        /\ \/ DevicesOf(s.run) = {} /\ UNCHANGED tailnet
           \/ \E d \in DevicesOf(s.run) :
                /\ IsFirstDevice(d, s.run)
                /\ tailnet' = [tailnet EXCEPT ![d].there = FALSE]
     \/ /\ Fault
        /\ \/ UNCHANGED tailnet
           \/ \E d \in DevicesOf(s.run) :
                /\ IsFirstDevice(d, s.run)
                /\ tailnet' = [tailnet EXCEPT ![d].authorized = FALSE]
  /\ UNCHANGED <<runs, leases, authKeys, missed>>

\* A run listed as created stays; any other is quarantined, if it is still
\* where the list saw it.
QuarantineRun(s) ==
  /\ recovery.pc = "quarantine" /\ Current(s)
  /\ NextRun(s)
  /\ LET asListed == /\ s.phase \in DrivenPhases
                     /\ runs[s.run].phase = s.phase
                     /\ runs[s.run].version = s.version IN
     \/ /\ NoFault /\ asListed
        /\ runs' = [runs EXCEPT ![s.run].phase = "quarantined",
                                ![s.run].version = @ + 1,
                                ![s.run].driven = FALSE]
        /\ UNCHANGED missed
     \/ /\ NoFault /\ ~asListed
        /\ UNCHANGED <<runs, missed>>
     \/ /\ Fault /\ s.phase \in DrivenPhases
        /\ missed' = missed \cup {s.run}
        /\ UNCHANGED runs
  /\ UNCHANGED <<leases, tailnet, authKeys>>

RecoveryNext ==
  \/ ListInFlightRuns
  \/ \E s \in recovery.queue :
       \/ ReacquireLease(s)
       \/ SweepDevice(s)
       \/ QuarantineRun(s)

\* The process dies, and the next one starts with a recovery.
RecoveryRestarts ==
  recovery' = [pc |-> "list", queue |-> {}] /\ missed' = {}

-----------------------------------------------------------------------------
\* When the recovery of a boot has ended, a run in flight without a handler is
\* one it could not see behind PageSize newer runs, or lost to a failed request.
StrandedIsExplained ==
  recovery.pc = "off" => \A r \in Rows : Stranded(r) => r \in missed
=============================================================================
