------------------------------- MODULE Fleet -------------------------------
(***************************************************************************)
(* The server with many runs: admissions, inferences, prune cycles and the *)
(* recovery at boot work on the tables and the tailnet of FleetStore while *)
(* dispatchers and teardowns drive the runs, devices and keys come and go, *)
(* requests fail and the process dies.  A workload names what happens in   *)
(* one behaviour: requests and cycles by their name, the phases to which   *)
(* runs are driven, "join", "age" and "crash".                             *)
(***************************************************************************)
EXTENDS Admission, InferenceBroker, TailscalePruner, BootRecovery

admissionVars == <<admission, cutShort>>
recoveryVars == <<recovery, missed>>

vars == <<storeVars, faults, workload, admissionVars, brokerVars, cycle,
          recoveryVars>>

TypeOK ==
  StoreTypeOK /\ AdmissionTypeOK /\ BrokerTypeOK /\ PrunerTypeOK
  /\ RecoveryTypeOK

Init ==
  StoreInit /\ AdmissionInit /\ BrokerInit /\ PrunerInit /\ RecoveryInit

\* The process dies, with all that is under way in it, and starts again.
Crash ==
  /\ "crash" \in workload
  /\ Fault
  /\ DriversDie
  /\ AdmissionsDie
  /\ ChatsDie
  /\ cycle' = [c \in Cycles |-> NoCycle]
  /\ RecoveryRestarts

Next ==
  /\ UNCHANGED workload
  /\ \/ StoreNext /\ UNCHANGED <<admissionVars, brokerVars, cycle, recoveryVars>>
     \/ AdmissionNext /\ UNCHANGED <<brokerVars, cycle, recoveryVars>>
     \/ BrokerNext /\ UNCHANGED <<admissionVars, cycle, recoveryVars>>
     \/ PrunerNext /\ UNCHANGED <<admissionVars, brokerVars, recoveryVars>>
     \/ RecoveryNext /\ UNCHANGED <<admissionVars, brokerVars, cycle>>
     \/ Crash

Spec == Init /\ [][Next]_vars

\* The timer of the daemon fires again and again, and a cycle that is not cut
\* short by a crash goes on: every await of it returns.
Beside == UNCHANGED <<workload, admissionVars, brokerVars, recoveryVars>>
DaemonStarts == ListDevices(Daemon, FALSE) /\ Beside
DaemonSteps == PrunerStep(Daemon) /\ Beside

FairSpec ==
  Spec /\ WF_vars(DaemonStarts) /\ WF_vars(DaemonSteps)

-----------------------------------------------------------------------------
\* Each row of the table is a run of the state machine, whoever moves it:
\* admission creates it as RunPhases begins, and a dispatcher, a teardown or
\* the recovery with its old snapshot takes it along the table, a version at a
\* time.  No row is deleted.
RunOf(r) == INSTANCE RunPhases
  WITH phase <- runs[r].phase, version <- runs[r].version

RowsAreRuns ==
  [][ /\ \A r \in Rows : r \in Rows' /\ (RunOf(r)!Next \/ UNCHANGED RunOf(r)!vars)
      /\ \A r \in Rows' \ Rows : RunOf(r)!Init' ]_vars

\* What recovery and teardown leave behind on the tailnet, because they look
\* for one device or their request failed, is gone in the end.
LeftoversArePruned ==
  \A d \in 1..MaxDevices :
    /\ Daemon \in workload
    /\ d \in Devices /\ tailnet[d].there
    /\ ~isProtectedDevice(tailnet[d])
    /\ tailnet[d].owner \in Rows
    /\ runs[tailnet[d].owner].phase = "quarantined"
    ~> d \in Devices /\ ~tailnet[d].there
=============================================================================
