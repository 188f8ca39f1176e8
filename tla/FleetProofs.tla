---------------------------- MODULE FleetProofs ----------------------------
(***************************************************************************)
(* What the engines of Fleet keep of their promises, for any number of     *)
(* runs, devices, keys, requests, cycles, failures and crashes.            *)
(***************************************************************************)
EXTENDS Fleet, TLAPS, SequenceTheorems, FiniteSetTheorems

-----------------------------------------------------------------------------
(* The tables *)

\* A version past the bound is that of a run the recovery has quarantined.
VersionsAreBounded ==
  \A r \in Rows : runs[r].version > MaxVersion => runs[r].phase = "quarantined"

\* The device of a run is one that a VM of its own enrolled.
DevicesAreOwn ==
  \A r \in Rows : runs[r].device # 0 =>
    /\ runs[r].device \in Devices
    /\ tailnet[runs[r].device].owner = r

StoreInv == StoreTypeOK /\ VersionsAreBounded /\ DevicesAreOwn

(***************************************************************************)
(* What every step, of whatever engine, leaves alone of these tables: the  *)
(* others rest on it.                                                      *)
(***************************************************************************)
KeysAreKept ==
  Len(runs) <= Len(runs') /\ \A r \in Rows : runs'[r].key = runs[r].key

LeasesAreKept ==
  \A r \in RunIds : leases'[r] = "none" => leases[r] = "none"

DevicesAreKept ==
  /\ Len(tailnet) <= Len(tailnet')
  /\ \A d \in Devices :
       /\ tailnet'[d].owner = tailnet[d].owner
       /\ tailnet[d].expired => tailnet'[d].expired

(***************************************************************************)
(* Why a device may be pruned: it has expired, or its run is not in the    *)
(* hands of a dispatcher, or in those of one that began when the device    *)
(* had enrolled already.  Later dispatches do not take the reason away.    *)
(***************************************************************************)
IsStale(d) ==
  \/ tailnet[d].expired
  \/ \A r \in Rows :
       tailnet[d].owner = r /\ runs[r].phase \in DrivenPhases => d <= runs[r].since
VerdictsAreKept == \A d \in Devices : IsStale(d) => IsStale(d)'

\* Only a crash strands a run.
Stays(r) ==
  /\ r \in Rows /\ Stranded(r)
  /\ runs'[r].phase = runs[r].phase /\ runs'[r].version = runs[r].version
NoneIsStranded == \A r \in Rows' : Stranded(r)' => Stays(r)

StoreIsKept ==
  KeysAreKept /\ LeasesAreKept /\ DevicesAreKept /\ VerdictsAreKept

\* Only an admission adds a run.
Undisturbed ==
  StoreIsKept /\ NoneIsStranded /\ Len(runs') = Len(runs)

-----------------------------------------------------------------------------
LEMMA RowFacts ==
  ASSUME StoreInv
  PROVE  /\ Len(runs) \in Nat /\ Len(runs) <= MaxRuns
         /\ \A r \in Rows : r \in RunIds /\ runs[r] \in Run
         /\ Len(tailnet) \in Nat /\ Len(tailnet) <= MaxDevices
         /\ \A d \in Devices : d \in 1..MaxDevices /\ tailnet[d] \in Device
  <1>1. runs \in Seq(Run) /\ tailnet \in Seq(Device)
    BY DEF StoreInv, StoreTypeOK
  <1>2. Len(runs) \in Nat /\ Len(tailnet) \in Nat
    BY <1>1, LenProperties
  <1>3. \A r \in Rows : runs[r] \in Run
    BY <1>1, ElementOfSeq DEF Rows
  <1>4. \A d \in Devices : tailnet[d] \in Device
    BY <1>1, ElementOfSeq DEF Devices
  <1>5. QED
    BY <1>2, <1>3, <1>4, BoundsAssumption
       DEF StoreInv, StoreTypeOK, Rows, RunIds, Devices

\* Nothing happens to the tables.
LEMMA StoreStutters ==
  ASSUME StoreInv, UNCHANGED storeVars, faults' \in Nat, UNCHANGED workload
  PROVE  StoreInv' /\ Undisturbed
  <1>1. UNCHANGED <<runs, leases, tailnet, authKeys>>
    BY DEF storeVars
  <1>2. StoreInv'
    BY <1>1 DEF StoreInv, StoreTypeOK, VersionsAreBounded, DevicesAreOwn, Rows,
       Devices
  <1>3. KeysAreKept /\ DevicesAreKept
    BY <1>1, RowFacts DEF KeysAreKept, DevicesAreKept
  <1>4. LeasesAreKept /\ VerdictsAreKept
    BY <1>1 DEF LeasesAreKept, VerdictsAreKept, IsStale, Rows
  <1>5. NoneIsStranded
    BY <1>1 DEF NoneIsStranded, Stays, Stranded, Rows
  <1>6. QED
    BY <1>1, <1>2, <1>3, <1>4, <1>5 DEF StoreIsKept, Undisturbed

-----------------------------------------------------------------------------
(* Rows *)

\* A row takes a new value, which keeps its key: the run is driven or over, its
\* device is one of its own, and it is dispatched anew or goes on.
Rewrites(r, row) ==
  /\ r \in Rows
  /\ row \in Run /\ row.key = runs[r].key
  /\ row.version > MaxVersion => row.phase = "quarantined"
  /\ row.device # 0 => row.device = runs[r].device \/ row.device \in DevicesOf(r)
  /\ row.phase \in DrivenPhases =>
       \/ row.since = Len(tailnet)
       \/ runs[r].phase \in DrivenPhases /\ row.since = runs[r].since
  /\ row.driven \/ row.phase \notin DrivenPhases
  /\ runs' = [runs EXCEPT ![r] = row]

LEMMA RewritingARow ==
  ASSUME StoreInv, NEW r, NEW row, Rewrites(r, row),
         UNCHANGED tailnet, UNCHANGED workload, faults' \in Nat,
         leases' \in [RunIds -> {"none", "active", "lapsed"}],
         LeasesAreKept,
         authKeys' \in [RunIds -> {"none", "fresh", "old", "spent", "deleted"}]
  PROVE  StoreInv' /\ Undisturbed
  <1>1. /\ runs' \in Seq(Run) /\ Len(runs') = Len(runs)
        /\ \A s \in Rows : runs'[s] = IF s = r THEN row ELSE runs[s]
    BY ExceptSeq DEF Rewrites, StoreInv, StoreTypeOK, Rows
  <1>2. Rows' = Rows
    BY <1>1 DEF Rows
  <1>3. Devices' = Devices
    BY DEF Devices
  <1>4. StoreTypeOK'
    BY <1>1 DEF StoreInv, StoreTypeOK
  <1>5. VersionsAreBounded'
    BY <1>1, <1>2 DEF StoreInv, VersionsAreBounded, Rewrites
  <1>6. DevicesAreOwn'
    BY <1>1, <1>2, <1>3 DEF StoreInv, DevicesAreOwn, Rewrites, DevicesOf, Devices
  <1>7. KeysAreKept
    BY <1>1, RowFacts DEF KeysAreKept, Rewrites
  <1>8. DevicesAreKept
    BY RowFacts DEF DevicesAreKept
  <1>9. VerdictsAreKept
    <2> SUFFICES ASSUME NEW d \in Devices, IsStale(d), ~tailnet[d].expired,
                        NEW s \in Rows, tailnet[d].owner = s,
                        runs'[s].phase \in DrivenPhases
                 PROVE  d <= runs'[s].since
      BY <1>2 DEF VerdictsAreKept, IsStale
    <2>1. d <= Len(tailnet)
      BY RowFacts DEF Devices
    <2>2. runs[s].phase \in DrivenPhases => d <= runs[s].since
      BY DEF IsStale
    <2>3. QED
      BY <1>1, <2>1, <2>2 DEF Rewrites
  <1>10. NoneIsStranded
    <2> SUFFICES ASSUME NEW s \in Rows, Stranded(s)'  PROVE Stays(s)
      BY <1>2 DEF NoneIsStranded
    <2>1. CASE s = r
      <3>1. runs'[s] = row
        BY <1>1, <2>1
      <3>2. row.phase \in DrivenPhases /\ ~row.driven
        BY <3>1 DEF Stranded
      <3>3. QED
        BY <3>2 DEF Rewrites
    <2>2. CASE s # r
      <3>1. runs'[s] = runs[s]
        BY <1>1, <2>2
      <3>2. QED
        BY <3>1 DEF Stays, Stranded
    <2>3. QED
      BY <2>1, <2>2
  <1>11. QED
    BY <1>1, <1>4, <1>5, <1>6, <1>7, <1>8, <1>9, <1>10
       DEF StoreInv, StoreIsKept, Undisturbed

LEMMA PhaseFacts ==
  /\ DrivenPhases = {"provisioning", "delegated", "in_progress", "evaluating"}
  /\ DrivenPhases \subseteq Phase
  /\ \A p \in Phase, q \in DrivenPhases :
       canTransition(p, q) => q = "provisioning" \/ p \in DrivenPhases
  BY DEF DrivenPhases, InFlightPhases, Phase, canTransition, ALLOWED_TRANSITIONS

LEMMA AdvanceKeeps ==
  ASSUME StoreInv, NEW r \in RunIds, NEW target \in Phase, Advance(r, target),
         UNCHANGED workload, NoFault
  PROVE  StoreInv' /\ Undisturbed
  <1> DEFINE row == [runs[r] EXCEPT
                !.phase = target, !.version = @ + 1,
                !.device = IF target = "provisioning" THEN 0 ELSE @,
                !.since = IF target = "provisioning" THEN Len(tailnet) ELSE @,
                !.driven = target \notin {"clean_terminated", "quarantined"}]
  <1>1. r \in Rows /\ runs[r] \in Run
    BY RowFacts DEF Advance
  <1>2. runs[r].version + 1 \in 1..(MaxVersion + 1) /\ runs[r].version + 1 <= MaxVersion
    BY <1>1, BoundsAssumption DEF Advance, Run
  <1>3. row \in Run
    <2>1. (target \notin {"clean_terminated", "quarantined"}) \in BOOLEAN
      OBVIOUS
    <2>2. (IF target = "provisioning" THEN 0 ELSE runs[r].device) \in 0..MaxDevices
      BY <1>1, BoundsAssumption DEF Run
    <2>3. (IF target = "provisioning" THEN Len(tailnet) ELSE runs[r].since)
            \in 0..MaxDevices
      BY <1>1, RowFacts, BoundsAssumption DEF Run
    <2>4. QED
      BY <1>1, <1>2, <2>1, <2>2, <2>3 DEF Run
  <1>4. runs' = [runs EXCEPT ![r] = row]
    <2>1. runs' = [runs EXCEPT
             ![r].phase = target,
             ![r].version = @ + 1,
             ![r].device = IF target = "provisioning" THEN 0 ELSE @,
             ![r].since = IF target = "provisioning" THEN Len(tailnet) ELSE @,
             ![r].driven = target \notin {"clean_terminated", "quarantined"}]
      BY DEF Advance
    <2>2. runs \in Seq(Run)
      BY DEF StoreInv, StoreTypeOK
    <2>3. QED
      BY <1>1, <2>1, <2>2 DEF Run, Rows
  <1>5. Rewrites(r, row)
    <2>1. row.phase \in DrivenPhases =>
            \/ row.since = Len(tailnet)
            \/ runs[r].phase \in DrivenPhases /\ row.since = runs[r].since
      BY <1>1, PhaseFacts DEF Advance, Run
    <2>2. row.driven \/ row.phase \notin DrivenPhases
      <3>1. row.phase = target
        BY <1>1 DEF Run
      <3>2. row.driven = (target \notin {"clean_terminated", "quarantined"})
        BY <1>1 DEF Run
      <3>3. CASE target \in {"clean_terminated", "quarantined"}
        BY <3>1, <3>3, PhaseFacts
      <3>4. CASE target \notin {"clean_terminated", "quarantined"}
        <4>1. row.driven = TRUE
          BY <3>2, <3>4
        <4>2. QED
          BY <4>1
      <3>5. QED
        BY <3>3, <3>4
    <2>3. ~(row.version > MaxVersion)
      BY <1>1, <1>2, BoundsAssumption DEF Run
    <2>4. row.key = runs[r].key /\ (row.device # 0 => row.device = runs[r].device)
      BY <1>1 DEF Run
    <2> HIDE DEF row
    <2>5. QED
      BY <1>1, <1>3, <1>4, <2>1, <2>2, <2>3, <2>4 DEF Rewrites
  <1> HIDE DEF row
  <1>6. /\ leases' \in [RunIds -> {"none", "active", "lapsed"}]
        /\ LeasesAreKept /\ UNCHANGED tailnet
    <2>1. leases' = leases \/ leases' = [leases EXCEPT ![r] = Released(@)]
      BY DEF Advance
    <2>2. leases \in [RunIds -> {"none", "active", "lapsed"}] /\ UNCHANGED tailnet
      BY DEF Advance, StoreInv, StoreTypeOK
    <2>3. QED
      BY <2>1, <2>2 DEF LeasesAreKept, Released
  <1>7. authKeys' \in [RunIds -> {"none", "fresh", "old", "spent", "deleted"}]
    BY DEF Advance, StoreInv, StoreTypeOK
  <1>8. faults' \in Nat
    BY DEF NoFault, StoreInv, StoreTypeOK
  <1>9. QED
    BY <1>5, <1>6, <1>7, <1>8, RewritingARow

-----------------------------------------------------------------------------
(* Devices, leases and keys *)

\* A device takes a new state: its name is kept, and it does not come back
\* from its expiry.
RewritesDevice(d, dev) ==
  /\ d \in Devices
  /\ dev \in Device /\ dev.owner = tailnet[d].owner
  /\ tailnet[d].expired => dev.expired
  /\ tailnet' = [tailnet EXCEPT ![d] = dev]

LEMMA RewritingADevice ==
  ASSUME StoreInv, NEW d, NEW dev, RewritesDevice(d, dev),
         UNCHANGED <<runs, leases, authKeys>>, UNCHANGED workload,
         faults' \in Nat
  PROVE  StoreInv' /\ Undisturbed
  <1>1. /\ tailnet' \in Seq(Device) /\ Len(tailnet') = Len(tailnet)
        /\ \A e \in Devices : tailnet'[e] = IF e = d THEN dev ELSE tailnet[e]
    BY ExceptSeq DEF RewritesDevice, StoreInv, StoreTypeOK, Devices
  <1>2. Rows' = Rows /\ Devices' = Devices
    BY <1>1 DEF Rows, Devices
  <1>3. StoreTypeOK'
    BY <1>1 DEF StoreInv, StoreTypeOK
  <1>4. VersionsAreBounded'
    BY <1>2 DEF StoreInv, VersionsAreBounded
  <1>5. DevicesAreOwn'
    BY <1>1, <1>2 DEF StoreInv, DevicesAreOwn, RewritesDevice
  <1>6. DevicesAreKept
    BY <1>1, RowFacts DEF DevicesAreKept, RewritesDevice
  <1>7. KeysAreKept /\ LeasesAreKept /\ VerdictsAreKept
    <2>1. KeysAreKept /\ LeasesAreKept
      BY <1>2, RowFacts DEF KeysAreKept, LeasesAreKept
    <2>2. VerdictsAreKept
      BY <1>1, <1>2 DEF VerdictsAreKept, IsStale, RewritesDevice
    <2>3. QED
      BY <2>1, <2>2
  <1>8. NoneIsStranded
    BY <1>2 DEF NoneIsStranded, Stays, Stranded
  <1>9. QED
    BY <1>3, <1>4, <1>5, <1>6, <1>7, <1>8 DEF StoreInv, StoreIsKept, Undisturbed

LEMMA LeasesAndKeys ==
  ASSUME StoreInv, UNCHANGED <<runs, tailnet>>, UNCHANGED workload,
         faults' \in Nat,
         leases' \in [RunIds -> {"none", "active", "lapsed"}], LeasesAreKept,
         authKeys' \in [RunIds -> {"none", "fresh", "old", "spent", "deleted"}]
  PROVE  StoreInv' /\ Undisturbed
  <1>1. Rows' = Rows /\ Devices' = Devices
    BY DEF Rows, Devices
  <1>2. StoreInv'
    BY <1>1 DEF StoreInv, StoreTypeOK, VersionsAreBounded, DevicesAreOwn
  <1>3. KeysAreKept /\ DevicesAreKept /\ VerdictsAreKept
    BY <1>1, RowFacts DEF KeysAreKept, DevicesAreKept, VerdictsAreKept, IsStale
  <1>4. NoneIsStranded
    BY <1>1 DEF NoneIsStranded, Stays, Stranded
  <1>5. QED
    BY <1>2, <1>3, <1>4 DEF StoreIsKept, Undisturbed

LEMMA FaultsAreCounted ==
  ASSUME StoreInv, NoFault \/ Fault
  PROVE  faults' \in Nat
  BY DEF StoreInv, StoreTypeOK, NoFault, Fault

LEMMA GoneAndExpired ==
  ASSUME StoreInv, NEW d \in Devices
  PROVE  /\ [tailnet[d] EXCEPT !.there = FALSE] \in Device
         /\ [tailnet[d] EXCEPT !.authorized = FALSE] \in Device
         /\ [tailnet[d] EXCEPT !.expired = TRUE] \in Device
  BY RowFacts DEF Device

\* A device is deleted, expelled, or expires.
LEMMA LosingADevice ==
  ASSUME StoreInv, NEW d \in Devices,
         \/ tailnet' = [tailnet EXCEPT ![d].there = FALSE]
         \/ tailnet' = [tailnet EXCEPT ![d].authorized = FALSE]
         \/ tailnet' = [tailnet EXCEPT ![d].expired = TRUE],
         UNCHANGED <<runs, leases, authKeys>>, UNCHANGED workload,
         faults' \in Nat
  PROVE  StoreInv' /\ Undisturbed
  <1>1. tailnet[d] \in Device /\ tailnet \in Seq(Device)
    BY RowFacts DEF StoreInv, StoreTypeOK
  <1>2. CASE tailnet' = [tailnet EXCEPT ![d].there = FALSE]
    <2> DEFINE dev == [tailnet[d] EXCEPT !.there = FALSE]
    <2>1. dev \in Device
      BY GoneAndExpired
    <2>2. dev.owner = tailnet[d].owner /\ dev.expired = tailnet[d].expired
      BY <1>1 DEF Device
    <2>3. tailnet' = [tailnet EXCEPT ![d] = dev]
      BY <1>1, <1>2 DEF Devices
    <2> HIDE DEF dev
    <2>4. QED
      BY <2>1, <2>2, <2>3, RewritingADevice DEF RewritesDevice
  <1>3. CASE tailnet' = [tailnet EXCEPT ![d].authorized = FALSE]
    <2> DEFINE dev == [tailnet[d] EXCEPT !.authorized = FALSE]
    <2>1. dev \in Device
      BY GoneAndExpired
    <2>2. dev.owner = tailnet[d].owner /\ dev.expired = tailnet[d].expired
      BY <1>1 DEF Device
    <2>3. tailnet' = [tailnet EXCEPT ![d] = dev]
      BY <1>1, <1>3 DEF Devices
    <2> HIDE DEF dev
    <2>4. QED
      BY <2>1, <2>2, <2>3, RewritingADevice DEF RewritesDevice
  <1>4. CASE tailnet' = [tailnet EXCEPT ![d].expired = TRUE]
    <2> DEFINE dev == [tailnet[d] EXCEPT !.expired = TRUE]
    <2>1. dev \in Device
      BY GoneAndExpired
    <2>2. dev.owner = tailnet[d].owner
      BY <1>1 DEF Device
    <2>3. dev.expired
      BY <1>1 DEF Device
    <2>4. tailnet' = [tailnet EXCEPT ![d] = dev]
      BY <1>1, <1>4 DEF Devices
    <2> HIDE DEF dev
    <2>5. QED
      BY <2>1, <2>2, <2>3, <2>4, RewritingADevice DEF RewritesDevice
  <1>5. QED
    BY <1>2, <1>3, <1>4
-----------------------------------------------------------------------------
(* The steps of the store *)

\* The new device has a number of its own, which no verdict is about.
LEMMA EnrolKeeps ==
  ASSUME StoreInv, NEW r \in RunIds, Enrol(r), UNCHANGED workload, NoFault
  PROVE  StoreInv' /\ Undisturbed
  <1> DEFINE n == Len(tailnet) + 1
  <1>1. /\ runs' = runs /\ leases' = leases
        /\ tailnet \in Seq(Device) /\ Len(tailnet) \in Nat
        /\ n \in 1..MaxDevices
    BY RowFacts, BoundsAssumption DEF Enrol, StoreInv, StoreTypeOK
  <1>2. SandboxOf(r) \in Device
    BY DEF SandboxOf, Device, RunIds, SandboxTags
  <1>3. /\ tailnet' \in Seq(Device) /\ Len(tailnet') = n
        /\ \A d \in Devices : tailnet'[d] = tailnet[d]
    BY <1>1, <1>2, AppendProperties DEF Enrol, Devices
  <1>4. Rows' = Rows
    BY <1>1 DEF Rows
  <1>5. StoreTypeOK'
    <2>1. authKeys' \in [RunIds -> {"none", "fresh", "old", "spent", "deleted"}]
      BY DEF StoreInv, StoreTypeOK, Enrol
    <2>2. QED
      BY <1>1, <1>3, <2>1 DEF StoreInv, StoreTypeOK, NoFault
  <1>6. VersionsAreBounded' /\ NoneIsStranded
    BY <1>1, <1>4
       DEF StoreInv, VersionsAreBounded, NoneIsStranded, Stays, Stranded
  <1>7. DevicesAreOwn'
    BY <1>1, <1>3, <1>4 DEF StoreInv, DevicesAreOwn, Devices
  <1>8. KeysAreKept /\ LeasesAreKept
    BY <1>1, RowFacts DEF KeysAreKept, LeasesAreKept
  <1>9. DevicesAreKept
    BY <1>1, <1>3 DEF DevicesAreKept
  <1>10. VerdictsAreKept
    BY <1>1, <1>3, <1>4 DEF VerdictsAreKept, IsStale
  <1>11. QED
    BY <1>1, <1>5, <1>6, <1>7, <1>8, <1>9, <1>10
       DEF StoreInv, StoreIsKept, Undisturbed

\* The dispatcher takes a device that bears the name of its run.
LEMMA FindKeepsStore ==
  ASSUME StoreInv, NEW r \in RunIds, FindDevice(r), UNCHANGED workload, NoFault
  PROVE  StoreInv' /\ Undisturbed
  <1>1. /\ r \in Rows /\ runs[r] \in Run /\ runs \in Seq(Run) /\ runs[r].driven
        /\ UNCHANGED <<leases, tailnet, authKeys>>
    BY RowFacts DEF FindDevice, StoreInv, StoreTypeOK
  <1>2. PICK d \in DevicesOf(r) : runs' = [runs EXCEPT ![r].device = d]
    BY DEF FindDevice
  <1>3. d \in 0..MaxDevices
    BY RowFacts, BoundsAssumption DEF DevicesOf, Devices
  <1> DEFINE row == [runs[r] EXCEPT !.device = d]
  <1>4. /\ row \in Run /\ row.device = d
        /\ row.key = runs[r].key /\ row.phase = runs[r].phase
        /\ row.version = runs[r].version /\ row.since = runs[r].since
        /\ row.driven
    BY <1>1, <1>3 DEF Run
  <1>5. runs' = [runs EXCEPT ![r] = row]
    BY <1>1, <1>2 DEF Rows
  <1>6. row.version > MaxVersion => row.phase = "quarantined"
    BY <1>1, <1>4 DEF StoreInv, VersionsAreBounded
  <1> HIDE DEF row
  <1>7. Rewrites(r, row)
    BY <1>1, <1>4, <1>5, <1>6 DEF Rewrites
  <1>8. QED
    BY <1>1, <1>7, RewritingARow, FaultsAreCounted
       DEF StoreInv, StoreTypeOK, LeasesAreKept

LEMMA StoreNextKeeps ==
  ASSUME StoreInv, StoreNext, UNCHANGED workload
  PROVE  StoreInv' /\ Undisturbed
  <1>1. NoFault /\ faults' \in Nat
    BY FaultsAreCounted DEF StoreNext
  <1>2. CASE Drive
    BY <1>1, <1>2, AdvanceKeeps DEF Drive
  <1>3. CASE Join
    <2>1. PICK r \in RunIds : RemoveDevice(r) \/ Enrol(r) \/ FindDevice(r)
      BY <1>3 DEF Join
    <2>2. CASE RemoveDevice(r)
      <3>1. runs[r].device \in Devices
        BY <2>2 DEF RemoveDevice, StoreInv, DevicesAreOwn
      <3>2. QED
        BY <1>1, <2>2, <3>1, LosingADevice DEF RemoveDevice
    <2>3. QED
      BY <1>1, <2>1, <2>2, EnrolKeeps, FindKeepsStore
  <1>4. CASE Age
    <2>1. CASE \E r \in RunIds : LeaseLapses(r)
      <3>1. /\ leases' \in [RunIds -> {"none", "active", "lapsed"}]
            /\ LeasesAreKept
        BY <2>1 DEF LeaseLapses, StoreInv, StoreTypeOK, LeasesAreKept
      <3>2. UNCHANGED <<runs, tailnet, authKeys>>
        BY <2>1 DEF LeaseLapses
      <3>3. QED
        BY <1>1, <3>1, <3>2, LeasesAndKeys DEF StoreInv, StoreTypeOK
    <2>2. CASE \E r \in RunIds : KeyAges(r)
      <3>1. authKeys' \in [RunIds -> {"none", "fresh", "old", "spent", "deleted"}]
        BY <2>2 DEF KeyAges, StoreInv, StoreTypeOK
      <3>2. UNCHANGED <<runs, tailnet, leases>>
        BY <2>2 DEF KeyAges
      <3>3. QED
        BY <1>1, <3>1, <3>2, LeasesAndKeys DEF StoreInv, StoreTypeOK, LeasesAreKept
    <2>3. CASE \E d \in 1..MaxDevices : DeviceExpires(d)
      BY <1>1, <2>3, LosingADevice DEF DeviceExpires, Devices
    <2>4. QED
      BY <1>4, <2>1, <2>2, <2>3 DEF Age
  <1>5. QED
    BY <1>2, <1>3, <1>4 DEF StoreNext

\* The new row has no device and no handler, and needs none.
LEMMA InsertKeeps ==
  ASSUME StoreInv, NEW k \in Keys \cup {NoKey, LiveKey}, Len(runs) < MaxRuns,
         runs' = Append(runs, CreatedRun(k)),
         UNCHANGED <<leases, tailnet, authKeys>>, UNCHANGED workload,
         faults' \in Nat
  PROVE  StoreInv' /\ StoreIsKept /\ NoneIsStranded
  <1> DEFINE n == Len(runs) + 1
  <1>1. runs \in Seq(Run) /\ Len(runs) \in Nat
    BY RowFacts DEF StoreInv, StoreTypeOK
  <1>2. /\ CreatedRun(k) \in Run /\ CreatedRun(k).device = 0
        /\ CreatedRun(k).phase = "created" /\ CreatedRun(k).version = 1
    BY BoundsAssumption DEF CreatedRun, Run, Phase
  <1>3. /\ runs' \in Seq(Run) /\ Len(runs') = n
        /\ \A s \in Rows : runs'[s] = runs[s]
        /\ runs'[n] = CreatedRun(k)
    BY <1>1, <1>2, AppendProperties DEF Rows
  <1>4. Rows' = Rows \cup {n} /\ Devices' = Devices
    BY <1>1, <1>3 DEF Rows, Devices
  <1>5. StoreTypeOK'
    BY <1>1, <1>3, BoundsAssumption DEF StoreInv, StoreTypeOK
  <1>6. VersionsAreBounded'
    <2> SUFFICES ASSUME NEW s \in Rows', runs'[s].version > MaxVersion
                 PROVE  runs'[s].phase = "quarantined"
      BY DEF VersionsAreBounded
    <2>1. CASE s = n
      BY <1>2, <1>3, <2>1, BoundsAssumption
    <2>2. CASE s \in Rows
      BY <1>3, <2>2 DEF StoreInv, VersionsAreBounded
    <2>3. QED
      BY <1>4, <2>1, <2>2
  <1>7. DevicesAreOwn'
    BY <1>2, <1>3, <1>4 DEF StoreInv, DevicesAreOwn
  <1>8. KeysAreKept /\ LeasesAreKept /\ DevicesAreKept
    <2>1. KeysAreKept
      <3>1. Len(runs) <= Len(runs')
        BY <1>1, <1>3
      <3>2. \A s \in Rows : runs'[s].key = runs[s].key
        BY <1>3
      <3>3. QED
        BY <3>1, <3>2 DEF KeysAreKept
    <2>2. LeasesAreKept
      BY DEF LeasesAreKept
    <2>3. DevicesAreKept
      BY RowFacts DEF DevicesAreKept
    <2>4. QED
      BY <2>1, <2>2, <2>3
  <1>9. "created" \notin DrivenPhases
    BY DEF DrivenPhases
  <1>10. VerdictsAreKept
    BY <1>2, <1>3, <1>4, <1>9 DEF VerdictsAreKept, IsStale
  <1>11. NoneIsStranded
    BY <1>2, <1>3, <1>4, <1>9 DEF NoneIsStranded, Stays, Stranded
  <1>12. QED
    BY <1>5, <1>6, <1>7, <1>8, <1>10, <1>11 DEF StoreInv, StoreIsKept

\* A crash takes the handlers and leaves the tables.
LEMMA CrashKeeps ==
  ASSUME StoreInv, DriversDie, UNCHANGED workload, faults' \in Nat
  PROVE  StoreInv' /\ StoreIsKept /\ Len(runs') = Len(runs)
  <1>1. \A r \in Rows : runs[r] \in Run
    BY RowFacts
  <1>2. \A r \in Rows : [runs[r] EXCEPT !.driven = FALSE] \in Run
    BY <1>1 DEF Run
  <1>3. Len(runs) \in Nat
    BY RowFacts
  <1>4. /\ runs' \in Seq(Run) /\ Len(runs') = Len(runs)
        /\ \A r \in Rows : runs'[r] = [runs[r] EXCEPT !.driven = FALSE]
    <2>1. runs' = [r \in Rows |-> [runs[r] EXCEPT !.driven = FALSE]]
      BY DEF DriversDie
    <2>2. runs' \in [1..Len(runs) -> Run]
      BY <1>2, <2>1 DEF Rows
    <2>3. QED
      BY <1>3, <2>1, <2>2 DEF Rows
  <1>5. Rows' = Rows /\ Devices' = Devices
    BY <1>4 DEF Rows, Devices, DriversDie
  <1>6. \A r \in Rows :
          /\ runs'[r].key = runs[r].key /\ runs'[r].phase = runs[r].phase
          /\ runs'[r].version = runs[r].version
          /\ runs'[r].device = runs[r].device
          /\ runs'[r].since = runs[r].since
    <2> TAKE r \in Rows
    <2>1. runs'[r] = [runs[r] EXCEPT !.driven = FALSE]
      BY <1>4
    <2>2. QED
      BY <1>1, <2>1 DEF Run
  <1>7. StoreTypeOK'
    BY <1>4 DEF StoreInv, StoreTypeOK, DriversDie
  <1>8. VersionsAreBounded'
    BY <1>5, <1>6 DEF StoreInv, VersionsAreBounded
  <1>9. DevicesAreOwn'
    BY <1>5, <1>6 DEF StoreInv, DevicesAreOwn, DriversDie
  <1>10. KeysAreKept /\ LeasesAreKept /\ DevicesAreKept
    <2>1. KeysAreKept
      BY <1>3, <1>4, <1>6 DEF KeysAreKept
    <2>2. LeasesAreKept
      BY DEF LeasesAreKept, DriversDie
    <2>3. DevicesAreKept
      BY RowFacts DEF DevicesAreKept, DriversDie
    <2>4. QED
      BY <2>1, <2>2, <2>3
  <1>11. VerdictsAreKept
    BY <1>5, <1>6 DEF VerdictsAreKept, IsStale, DriversDie
  <1>12. QED
    BY <1>4, <1>7, <1>8, <1>9, <1>10, <1>11 DEF StoreInv, StoreIsKept
-----------------------------------------------------------------------------
(* The inference broker *)

(***************************************************************************)
(* A request past the comparison holds a budget below the limit that was   *)
(* served; one about to write has a cost that was served as well.          *)
(***************************************************************************)
ChatIsSound(x) ==
  /\ x \in Chat
  /\ x.pc # "idle" => x.run \in RunIds
  /\ x.pc \in {"worker", "infer"} => x.read < Limit /\ x.read <= billed[x.run]
  /\ x.pc = "write" => x.read < Limit /\ x.read + x.cost <= billed[x.run]

BrokerInv ==
  /\ BrokerTypeOK
  /\ \A c \in Chats : ChatIsSound(chat[c])
  /\ StoredCostIsSound

LEMMA BrokerInitially == BrokerInit => BrokerInv
  BY BudgetAssumption, BoundsAssumption
     DEF BrokerInit, BrokerInv, BrokerTypeOK, ChatIsSound, NoChat, Chat,
         StoredCostIsSound, RunIds

\* A request moves: what was billed only grows, so the others stay sound.
LEMMA ChatMoves ==
  ASSUME BrokerInv, NEW c \in Chats, NEW x,
         chat' = [chat EXCEPT ![c] = x],
         x \in Chat, x.pc # "idle" => x.run \in RunIds,
         x.pc \in {"worker", "infer"} => x.read < Limit /\ x.read <= billed'[x.run],
         x.pc = "write" => x.read < Limit /\ x.read + x.cost <= billed'[x.run],
         billed' \in [RunIds -> Nat],
         \A r \in RunIds : billed[r] <= billed'[r],
         spent' \in [RunIds -> Nat],
         \A r \in RunIds : spent'[r] = spent[r]
                           \/ (spent'[r] <= billed'[r] /\ spent'[r] < Limit + MaxCharge),
         uncounted' \subseteq RunIds
  PROVE  BrokerInv'
  <1>1. /\ chat \in [Chats -> Chat] /\ spent \in [RunIds -> Nat]
        /\ billed \in [RunIds -> Nat]
    BY DEF BrokerInv, BrokerTypeOK
  <1>2. /\ chat' \in [Chats -> Chat] /\ chat'[c] = x
        /\ \A d \in Chats : d # c => chat'[d] = chat[d]
    BY <1>1
  <1>3. BrokerTypeOK'
    BY <1>2 DEF BrokerTypeOK
  <1>4. ASSUME NEW d \in Chats  PROVE ChatIsSound(chat[d])'
    <2>1. CASE d = c
      BY <1>2, <2>1 DEF ChatIsSound
    <2>2. CASE d # c
      <3>1. ChatIsSound(chat[d]) /\ chat'[d] = chat[d]
        BY <1>2, <2>2 DEF BrokerInv
      <3>2. /\ chat[d].read \in Nat /\ chat[d].cost \in Nat
            /\ chat[d] \in Chat
        BY <1>1, BudgetAssumption DEF Chat
      <3>3. chat[d].pc # "idle" =>
              /\ chat[d].run \in RunIds
              /\ billed[chat[d].run] \in Nat /\ billed'[chat[d].run] \in Nat
              /\ billed[chat[d].run] <= billed'[chat[d].run]
        BY <1>1, <3>1 DEF ChatIsSound
      <3>4. QED
        BY <3>1, <3>2, <3>3, BudgetAssumption DEF ChatIsSound
    <2>3. QED
      BY <2>1, <2>2
  <1>5. StoredCostIsSound'
    <2> SUFFICES ASSUME NEW r \in RunIds
                 PROVE  /\ spent'[r] <= billed'[r]
                        /\ Limit > 0 => spent'[r] < Limit + MaxCharge
      BY DEF StoredCostIsSound
    <2>1. /\ spent[r] <= billed[r] /\ (Limit > 0 => spent[r] < Limit + MaxCharge)
          /\ spent[r] \in Nat /\ billed[r] \in Nat /\ billed'[r] \in Nat
      BY <1>1 DEF BrokerInv, StoredCostIsSound
    <2>2. QED
      BY <2>1
  <1>6. QED
    BY <1>3, <1>4, <1>5 DEF BrokerInv

LEMMA BrokerStep == ASSUME BrokerInv, BrokerNext  PROVE BrokerInv'
  <1>1. PICK c \in Chats :
          \/ \E r \in RunIds, allowed \in BOOLEAN : BeginChat(c, r, allowed)
          \/ ReadBudget(c) \/ ResolveWorker(c) \/ Infer(c) \/ WriteBudget(c)
    BY DEF BrokerNext
  <1>2. /\ chat \in [Chats -> Chat] /\ spent \in [RunIds -> Nat]
        /\ billed \in [RunIds -> Nat] /\ uncounted \subseteq RunIds
        /\ \A r \in RunIds : billed[r] <= billed[r]
    BY DEF BrokerInv, BrokerTypeOK
  <1> DEFINE y == chat[c]
  <1>3. /\ y \in Chat /\ ChatIsSound(y) /\ DOMAIN y = {"pc", "run", "read", "cost"}
        /\ y.read \in Nat /\ y.cost \in 0..MaxCharge /\ y.run \in 0..MaxRuns
    BY <1>2 DEF BrokerInv, Chat
  <1>4. ASSUME NEW pc \in {"done", "failed"}, chat' = [chat EXCEPT ![c].pc = pc],
               y.pc # "idle",
               UNCHANGED billed, spent' \in [RunIds -> Nat],
               \A r \in RunIds : spent'[r] = spent[r]
                 \/ (spent'[r] <= billed'[r] /\ spent'[r] < Limit + MaxCharge),
               uncounted' \subseteq RunIds
        PROVE  BrokerInv'
    <2> DEFINE x == [y EXCEPT !.pc = pc]
    <2>1. chat' = [chat EXCEPT ![c] = x]
      BY <1>2, <1>4
    <2>2. x \in Chat /\ x.pc = pc /\ x.run = y.run
      BY <1>3, <1>4 DEF Chat
    <2>3. x.run \in RunIds
      BY <1>3, <1>4, <2>2 DEF ChatIsSound
    <2> HIDE DEF x
    <2>4. QED
      BY <1>2, <1>4, <2>1, <2>2, <2>3, ChatMoves
  <1>5. ASSUME NEW r \in RunIds, NEW allowed \in BOOLEAN, BeginChat(c, r, allowed)
        PROVE  BrokerInv'
    <2> DEFINE x == [NoChat EXCEPT !.pc = IF allowed THEN "read" ELSE "failed",
                                   !.run = r]
    <2>1. chat' = [chat EXCEPT ![c] = x]
      BY <1>5 DEF BeginChat
    <2>2. x \in Chat /\ x.pc \in {"read", "failed"} /\ x.run = r
      <3>1. (IF allowed THEN "read" ELSE "failed") \in {"read", "failed"}
        OBVIOUS
      <3>2. r \in 0..MaxRuns /\ 0 \in 0..MaxCharge
        BY BudgetAssumption, BoundsAssumption DEF RunIds
      <3>3. QED
        BY <3>1, <3>2 DEF NoChat, Chat
    <2>3. UNCHANGED <<spent, billed, uncounted>>
      BY <1>5 DEF BeginChat
    <2> HIDE DEF x
    <2>4. QED
      BY <1>2, <2>1, <2>2, <2>3, ChatMoves
  <1>6. CASE ReadBudget(c)
    <2>1. UNCHANGED <<spent, billed, uncounted>> /\ y.pc = "read"
      BY <1>6 DEF ReadBudget
    <2>2. CASE At(c, "failed")
      BY <1>2, <1>4, <2>1, <2>2 DEF At
    <2>3. CASE MaySpend(y.run)
                 /\ chat' = [chat EXCEPT ![c].pc = "worker",
                                         ![c].read = spent[y.run]]
      <3> DEFINE x == [y EXCEPT !.pc = "worker", !.read = spent[y.run]]
      <3>1. chat' = [chat EXCEPT ![c] = x]
        BY <1>2, <2>3
      <3>2. y.run \in RunIds /\ spent[y.run] \in Nat /\ spent[y.run] < Limit
            /\ spent[y.run] <= billed[y.run]
        BY <1>2, <1>3, <2>1, <2>3
           DEF ChatIsSound, MaySpend, BrokerInv, StoredCostIsSound
      <3>3. x \in Chat /\ x.pc = "worker" /\ x.run = y.run /\ x.read = spent[y.run]
        BY <1>3, <3>2 DEF Chat
      <3> HIDE DEF x
      <3>4. QED
        BY <1>2, <2>1, <3>1, <3>2, <3>3, ChatMoves
    <2>4. QED
      BY <1>6, <2>2, <2>3 DEF ReadBudget
  <1>7. CASE ResolveWorker(c)
    <2> DEFINE x == [y EXCEPT !.pc = "infer"]
    <2>1. chat' = [chat EXCEPT ![c] = x] /\ y.pc = "worker"
          /\ UNCHANGED <<spent, billed, uncounted>>
      BY <1>2, <1>7 DEF ResolveWorker, At
    <2>2. x \in Chat /\ x.pc = "infer" /\ x.run = y.run /\ x.read = y.read
      BY <1>3 DEF Chat
    <2>3. y.run \in RunIds /\ y.read < Limit /\ y.read <= billed[y.run]
      BY <1>3, <2>1 DEF ChatIsSound
    <2> HIDE DEF x
    <2>4. QED
      BY <1>2, <2>1, <2>2, <2>3, ChatMoves
  <1>8. CASE Infer(c)
    <2>1. y.pc = "infer" /\ y.run \in RunIds /\ y.read < Limit
          /\ y.read <= billed[y.run] /\ UNCHANGED spent
      BY <1>3, <1>8 DEF Infer, ChatIsSound
    <2>2. PICK cost \in 0..MaxCharge :
            /\ billed' = [billed EXCEPT ![y.run] = @ + cost]
            /\ \/ /\ chat' = [chat EXCEPT ![c].pc = "write", ![c].cost = cost]
                  /\ UNCHANGED uncounted
               \/ /\ At(c, "failed")
                  /\ uncounted' = uncounted \cup {y.run : i \in 1..cost}
      BY <1>8 DEF Infer
    <2>3. /\ billed' \in [RunIds -> Nat] /\ \A r \in RunIds : billed[r] <= billed'[r]
          /\ y.read + cost <= billed'[y.run]
      BY <1>2, <1>3, <2>1, <2>2, BudgetAssumption
    <2>4. uncounted' \subseteq RunIds
      BY <1>2, <2>1, <2>2
    <2>5. CASE chat' = [chat EXCEPT ![c].pc = "write", ![c].cost = cost]
      <3> DEFINE x == [y EXCEPT !.pc = "write", !.cost = cost]
      <3>1. chat' = [chat EXCEPT ![c] = x]
        BY <1>2, <2>5
      <3>2. x \in Chat /\ x.pc = "write" /\ x.run = y.run /\ x.read = y.read
            /\ x.cost = cost
        BY <1>3 DEF Chat
      <3> HIDE DEF x
      <3>3. QED
        BY <1>2, <2>1, <2>3, <2>4, <3>1, <3>2, ChatMoves
    <2>6. CASE At(c, "failed")
      <3> DEFINE x == [y EXCEPT !.pc = "failed"]
      <3>1. chat' = [chat EXCEPT ![c] = x]
        BY <1>2, <2>6 DEF At
      <3>2. x \in Chat /\ x.pc = "failed" /\ x.run = y.run
        BY <1>3 DEF Chat
      <3> HIDE DEF x
      <3>3. QED
        BY <1>2, <2>1, <2>3, <2>4, <3>1, <3>2, ChatMoves
    <2>7. QED
      BY <2>2, <2>5, <2>6
  <1>9. CASE WriteBudget(c)
    <2> DEFINE written == [spent EXCEPT ![y.run] = y.read + y.cost]
    <2>1. /\ y.pc = "write" /\ y.run \in RunIds /\ y.read < Limit
          /\ y.read + y.cost <= billed[y.run] /\ UNCHANGED billed
      BY <1>3, <1>9 DEF WriteBudget, ChatIsSound
    <2>2. /\ spent' \in {written, spent}
          /\ At(c, "done") \/ At(c, "failed")
          /\ uncounted' = uncounted \/ uncounted' = uncounted \cup {y.run}
      BY <1>9 DEF WriteBudget, NewCost
    <2>3. /\ y.read + y.cost \in Nat
          /\ y.read + y.cost < Limit + MaxCharge
      BY <1>3, <2>1, BudgetAssumption
    <2>4. /\ written \in [RunIds -> Nat]
          /\ \A r \in RunIds : written[r] = IF r = y.run THEN y.read + y.cost
                                            ELSE spent[r]
      BY <1>2, <2>3
    <2> HIDE DEF written
    <2>5. /\ spent' \in [RunIds -> Nat]
          /\ \A r \in RunIds : spent'[r] = spent[r]
               \/ (spent'[r] <= billed'[r] /\ spent'[r] < Limit + MaxCharge)
      BY <1>2, <2>1, <2>2, <2>3, <2>4
    <2>6. QED
      BY <1>2, <1>4, <2>1, <2>2, <2>5 DEF At
  <1>10. QED
    BY <1>1, <1>5, <1>6, <1>7, <1>8, <1>9

LEMMA BrokerCrashes == ASSUME BrokerInv, ChatsDie  PROVE BrokerInv'
  <1>1. /\ chat \in [Chats -> Chat] /\ \A c \in Chats : ChatIsSound(chat[c])
        /\ uncounted \subseteq RunIds
    BY DEF BrokerInv, BrokerTypeOK
  <1>2. \A c \in Chats :
          chat'[c] = IF chat[c].pc \in {"read", "worker", "infer", "write"}
                     THEN [chat[c] EXCEPT !.pc = "failed"] ELSE chat[c]
    BY DEF ChatsDie
  <1>3. ASSUME NEW c \in Chats  PROVE chat'[c] \in Chat /\ ChatIsSound(chat[c])'
    <2>1. chat[c] \in Chat /\ ChatIsSound(chat[c]) /\ billed' = billed
      BY <1>1 DEF ChatsDie
    <2>2. CASE chat'[c] = chat[c]
      BY <2>1, <2>2 DEF ChatIsSound
    <2>3. CASE /\ chat[c].pc \in {"read", "worker", "infer", "write"}
               /\ chat'[c] = [chat[c] EXCEPT !.pc = "failed"]
      <3>1. /\ chat'[c] \in Chat /\ chat'[c].pc = "failed"
            /\ chat'[c].run = chat[c].run
        BY <2>1, <2>3 DEF Chat
      <3>2. chat[c].run \in RunIds
        BY <2>1, <2>3 DEF ChatIsSound
      <3>3. QED
        BY <3>1, <3>2 DEF ChatIsSound
    <2>4. QED
      BY <1>2, <2>2, <2>3
  <1>4. uncounted' \subseteq RunIds
    BY <1>1 DEF ChatsDie, ChatIsSound
  <1>5. chat' \in [Chats -> Chat]
    <2>1. chat' = [c \in Chats |-> chat'[c]]
      BY DEF ChatsDie
    <2>2. QED
      BY <1>3, <2>1
  <1>6. BrokerTypeOK' /\ StoredCostIsSound'
    BY <1>4, <1>5 DEF BrokerInv, BrokerTypeOK, StoredCostIsSound, ChatsDie
  <1>7. QED
    BY <1>3, <1>6 DEF BrokerInv

LEMMA BrokerRests == ASSUME BrokerInv, UNCHANGED brokerVars  PROVE BrokerInv'
  BY DEF BrokerInv, BrokerTypeOK, ChatIsSound, StoredCostIsSound, brokerVars
-----------------------------------------------------------------------------
(* Sums over finite sets *)

(***************************************************************************)
(* A sum is what one of its recursive functions yields, and the finite     *)
(* sets a claim about sums fails for have a smallest one: without the      *)
(* element that is picked first it holds.                                  *)
(***************************************************************************)
LEMMA LeastOfNaturals ==
  ASSUME NEW S \in SUBSET Nat, S # {}
  PROVE  \E m \in S : \A y \in S : m <= y
  <1> DEFINE R == {pair \in Nat \X Nat : pair[1] < pair[2]}
  <1>1. IsWellFoundedOn(R, Nat)
    BY NatLessThanWellFounded DEF OpToRel
  <1>2. \A y, z \in Nat : y < z => <<y, z>> \in R
    OBVIOUS
  <1> HIDE DEF R
  <1>3. PICK x \in S : \A y \in S : ~(<<y, x>> \in R)
    BY <1>1, WFMin
  <1>4. \A y \in S : x <= y
    <2>1. \A y \in S : y \in Nat
      OBVIOUS
    <2>2. \A y \in S : ~(y < x)
      BY <1>2, <1>3, <2>1
    <2>3. QED
      BY <2>1, <2>2
  <1>5. QED
    BY <1>3, <1>4

\* Of the finite sets in a collection, one is the smallest.
LEMMA SmallestSet ==
  ASSUME NEW B, B # {}, \A s \in B : IsFiniteSet(s)
  PROVE  \E s \in B : \A t \in B : Cardinality(s) <= Cardinality(t)
  <1> DEFINE sizes == {Cardinality(s) : s \in B}
  <1>1. \A s \in B : Cardinality(s) \in Nat
    BY FS_CardinalityType
  <1>2. sizes \in SUBSET Nat /\ sizes # {}
    BY <1>1
  <1>3. PICK m \in sizes : \A y \in sizes : m <= y
    BY <1>2, LeastOfNaturals
  <1>4. QED
    BY <1>3

Pick(s) == CHOOSE x \in s : TRUE

Unrolls(g, f, S) ==
  g = [s \in SUBSET S |-> IF s = {} THEN 0 ELSE f[Pick(s)] + g[s \ {Pick(s)}]]

LEMMA SumIsFold ==
  ASSUME NEW f, NEW S
  PROVE  SumFunctionOnSet(f, S) = (CHOOSE g : Unrolls(g, f, S))[S]
  BY DEF SumFunctionOnSet, FoldFunctionOnSet, MapThenFoldSet, Unrolls, Pick

LEMMA PickRemoves ==
  ASSUME NEW s, IsFiniteSet(s), s # {}
  PROVE  /\ Pick(s) \in s
         /\ IsFiniteSet(s \ {Pick(s)})
         /\ Cardinality(s) \in Nat /\ Cardinality(s \ {Pick(s)}) \in Nat
         /\ Cardinality(s \ {Pick(s)}) = Cardinality(s) - 1
  <1>1. Pick(s) \in s
    BY DEF Pick
  <1>2. QED
    BY <1>1, FS_RemoveElement, FS_CardinalityType

LEMMA RemoveShrinks ==
  ASSUME NEW s, IsFiniteSet(s), NEW x \in s
  PROVE  /\ IsFiniteSet(s \ {x})
         /\ Cardinality(s) \in Nat /\ Cardinality(s \ {x}) \in Nat
         /\ Cardinality(s \ {x}) = Cardinality(s) - 1
  BY FS_RemoveElement, FS_CardinalityType

LEMMA SumUnrolls ==
  ASSUME NEW f, NEW S, IsFiniteSet(S)
  PROVE  \E g : Unrolls(g, f, S)
  <1> DEFINE Level(n) == {s \in SUBSET S : Cardinality(s) <= n}
             Unrolled(g, n) == [s \in Level(n) |-> IF s = {} THEN 0
                                   ELSE f[Pick(s)] + g[s \ {Pick(s)}]]
             bad == {n \in Nat : ~ \E g : g = Unrolled(g, n)}
  <1>1. \A s \in SUBSET S : IsFiniteSet(s) /\ Cardinality(s) \in Nat
    BY FS_Subset, FS_CardinalityType
  <1>2. bad = {}
    <2>1. SUFFICES ASSUME bad # {}  PROVE FALSE
      OBVIOUS
    <2>2. PICK n \in bad : \A m \in bad : n <= m
      <3>1. bad \in SUBSET Nat
        OBVIOUS
      <3> HIDE DEF bad
      <3>2. QED
        BY <2>1, <3>1, LeastOfNaturals
    <2>3. CASE n = 0
      <3>1. \A s \in Level(0) : s = {}
        <4>1. SUFFICES ASSUME NEW s \in Level(0), s # {}  PROVE FALSE
          OBVIOUS
        <4>2. s \in SUBSET S /\ Cardinality(s) <= 0
          OBVIOUS
        <4>3. IsFiniteSet(s)
          BY <1>1, <4>2
        <4>4. /\ Cardinality(s \ {Pick(s)}) = Cardinality(s) - 1
              /\ Cardinality(s) \in Nat /\ Cardinality(s \ {Pick(s)}) \in Nat
          <5> HIDE DEF Level
          <5>1. QED
            BY <4>1, <4>3, PickRemoves
        <4>5. QED
          BY <4>2, <4>4
      <3> DEFINE g == [s \in Level(0) |-> 0]
      <3>2. g = Unrolled(g, 0)
        BY <3>1
      <3>3. QED
        BY <2>2, <2>3, <3>2
    <2>4. CASE n # 0
      <3>1. n \in Nat /\ n - 1 \in Nat /\ n - 1 \notin bad
        <4>1. n \in Nat /\ n - 1 \in Nat
          BY <2>4
        <4> HIDE DEF bad
        <4>2. QED
          BY <2>2, <4>1
      <3>2. PICK g : g = Unrolled(g, n - 1)
        BY <3>1
      <3> DEFINE h == Unrolled(g, n)
      <3>3. \A s \in Level(n - 1) : h[s] = g[s]
        <4>1. Level(n - 1) \subseteq Level(n)
          BY <1>1, <3>1
        <4>2. QED
          BY <3>2, <4>1
      <3>4. \A s \in Level(n) : s # {} => s \ {Pick(s)} \in Level(n - 1)
        <4>1. SUFFICES ASSUME NEW s \in Level(n), s # {}
                       PROVE  s \ {Pick(s)} \in Level(n - 1)
          OBVIOUS
        <4>2. s \in SUBSET S /\ Cardinality(s) <= n
          OBVIOUS
        <4>3. Cardinality(s \ {Pick(s)}) <= n - 1
          BY <1>1, <3>1, <4>1, <4>2, PickRemoves
        <4>4. QED
          BY <4>2, <4>3
      <3>5. h = Unrolled(h, n)
        BY <3>3, <3>4
      <3>6. QED
        BY <2>2, <3>5
    <2>5. QED
      BY <2>3, <2>4
  <1>3. Cardinality(S) \in Nat
    BY FS_CardinalityType
  <1>4. PICK g : g = Unrolled(g, Cardinality(S))
    BY <1>2, <1>3
  <1>5. Level(Cardinality(S)) = SUBSET S
    <2>1. \A s \in SUBSET S : Cardinality(s) <= Cardinality(S)
      BY FS_Subset
    <2>2. QED
      BY <2>1
  <1>6. QED
    BY <1>4, <1>5 DEF Unrolls

LEMMA SumsAgree ==
  ASSUME NEW f, NEW S, NEW T, NEW g, NEW h, Unrolls(g, f, S), Unrolls(h, f, T),
         NEW s, s \subseteq S, s \subseteq T, IsFiniteSet(s)
  PROVE  g[s] = h[s]
  <1> DEFINE bad == {t \in SUBSET s : g[t] # h[t]}
  <1>1. \A t \in bad : IsFiniteSet(t)
    BY FS_Subset
  <1>2. SUFFICES ASSUME bad # {}  PROVE FALSE
    OBVIOUS
  <1>3. PICK t \in bad : \A u \in bad : Cardinality(t) <= Cardinality(u)
    <2> HIDE DEF bad
    <2>1. QED
      BY <1>1, <1>2, SmallestSet
  <1>4. t \in SUBSET S /\ t \in SUBSET T /\ t \in SUBSET s
    OBVIOUS
  <1>5. t # {}
    BY <1>4 DEF Unrolls
  <1> DEFINE u == t \ {Pick(t)}
  <1>6. u \notin bad
    BY <1>1, <1>3, <1>5, PickRemoves
  <1>7. g[u] = h[u] /\ u \in SUBSET S /\ u \in SUBSET T
    BY <1>4, <1>6
  <1>8. g[t] = f[Pick(t)] + g[u]
    BY <1>4, <1>5, Zenon DEF Unrolls
  <1>9. h[t] = f[Pick(t)] + h[u]
    BY <1>4, <1>5, Zenon DEF Unrolls
  <1>10. QED
    BY <1>3, <1>7, <1>8, <1>9

LEMMA SumOfNone == \A f : SumFunctionOnSet(f, {}) = 0
  <1> SUFFICES ASSUME NEW f  PROVE SumFunctionOnSet(f, {}) = 0
    OBVIOUS
  <1>1. \E g : Unrolls(g, f, {})
    BY SumUnrolls, FS_EmptySet
  <1> DEFINE g == CHOOSE g : Unrolls(g, f, {})
  <1>2. Unrolls(g, f, {})
    BY <1>1
  <1>3. g[{}] = 0
    <2> HIDE DEF g
    <2>1. QED
      BY <1>2 DEF Unrolls
  <1>4. QED
    BY <1>3, SumIsFold

LEMMA SumOfPick ==
  ASSUME NEW f, NEW S, IsFiniteSet(S), S # {}
  PROVE  SumFunctionOnSet(f, S)
           = f[Pick(S)] + SumFunctionOnSet(f, S \ {Pick(S)})
  <1> DEFINE T == S \ {Pick(S)}
             g == CHOOSE g : Unrolls(g, f, S)
             h == CHOOSE h : Unrolls(h, f, T)
  <1>1. IsFiniteSet(T)
    BY PickRemoves
  <1>2. Unrolls(g, f, S)
    BY SumUnrolls
  <1>3. Unrolls(h, f, T)
    BY <1>1, SumUnrolls
  <1>4. SumFunctionOnSet(f, S) = g[S] /\ SumFunctionOnSet(f, T) = h[T]
    BY SumIsFold
  <1> HIDE DEF g, h
  <1>5. g[T] = h[T]
    BY <1>1, <1>2, <1>3, SumsAgree
  <1>6. g[S] = f[Pick(S)] + g[T]
    BY <1>2, Zenon DEF Unrolls
  <1>7. QED
    BY <1>4, <1>5, <1>6

LEMMA SumIsInt ==
  ASSUME NEW f, NEW S, IsFiniteSet(S), \A x \in S : f[x] \in Int
  PROVE  SumFunctionOnSet(f, S) \in Int
  <1> DEFINE bad == {s \in SUBSET S : SumFunctionOnSet(f, s) \notin Int}
  <1>1. \A s \in SUBSET S : IsFiniteSet(s)
    BY FS_Subset
  <1>2. SUFFICES ASSUME bad # {}  PROVE FALSE
    OBVIOUS
  <1>3. PICK s \in bad : \A t \in bad : Cardinality(s) <= Cardinality(t)
    <2>1. \A t \in bad : IsFiniteSet(t)
      BY <1>1
    <2> HIDE DEF bad
    <2>2. QED
      BY <1>2, <2>1, SmallestSet
  <1>4. s # {}
    BY <1>3, SumOfNone
  <1>5. /\ s \in SUBSET S /\ Pick(s) \in s /\ s \ {Pick(s)} \in SUBSET S
        /\ s \ {Pick(s)} \notin bad
    <2>1. s \in SUBSET S /\ IsFiniteSet(s)
      BY <1>1
    <2>2. /\ Pick(s) \in s /\ Cardinality(s \ {Pick(s)}) < Cardinality(s)
          /\ Cardinality(s) \in Nat /\ Cardinality(s \ {Pick(s)}) \in Nat
      <3> HIDE DEF bad
      <3>1. QED
        BY <1>4, <2>1, PickRemoves
    <2> HIDE DEF bad
    <2>3. QED
      BY <1>3, <2>1, <2>2
  <1>6. SumFunctionOnSet(f, s) = f[Pick(s)] + SumFunctionOnSet(f, s \ {Pick(s)})
    BY <1>1, <1>4, SumOfPick
  <1>7. QED
    BY <1>5, <1>6

\* Any element may be taken out first.
LEMMA SumTakesOut ==
  ASSUME NEW f, NEW S, IsFiniteSet(S), \A y \in S : f[y] \in Int, NEW x \in S
  PROVE  SumFunctionOnSet(f, S) = f[x] + SumFunctionOnSet(f, S \ {x})
  <1> DEFINE Sum(s) == SumFunctionOnSet(f, s)
             Wrong(s, y) == Sum(s) # f[y] + Sum(s \ {y})
             bad == {s \in SUBSET S : \E y \in s : Wrong(s, y)}
  <1>1. \A s \in SUBSET S : IsFiniteSet(s) /\ Sum(s) \in Int
    BY FS_Subset, SumIsInt
  <1>2. SUFFICES ASSUME bad # {}  PROVE FALSE
    OBVIOUS
  <1>3. PICK s \in bad : \A t \in bad : Cardinality(s) <= Cardinality(t)
    <2>1. \A t \in bad : IsFiniteSet(t)
      BY <1>1
    <2> HIDE DEF bad
    <2>2. QED
      BY <1>2, <2>1, SmallestSet
  <1>4. s \in SUBSET S /\ IsFiniteSet(s)
    BY <1>1
  <1>5. PICK y \in s : Wrong(s, y)
    OBVIOUS
  <1> DEFINE p == Pick(s)
             rest == (s \ {p}) \ {y}
  <1>6. \A z \in s : s \ {z} \in SUBSET S /\ s \ {z} \notin bad
    <2>1. SUFFICES ASSUME NEW z \in s  PROVE s \ {z} \in SUBSET S /\ s \ {z} \notin bad
      OBVIOUS
    <2>2. /\ Cardinality(s \ {z}) < Cardinality(s)
          /\ Cardinality(s) \in Nat /\ Cardinality(s \ {z}) \in Nat
      BY <1>4, RemoveShrinks
    <2>3. s \ {z} \in SUBSET S
      BY <1>4
    <2> HIDE DEF bad
    <2>4. QED
      BY <1>3, <2>2, <2>3
  <1>7. p \in s
    BY <1>4, PickRemoves
  <1>8. Sum(s) = f[p] + Sum(s \ {p})
    BY <1>4, SumOfPick
  <1>9. p # y
    BY <1>5, <1>8
  <1>10. Sum(s \ {p}) = f[y] + Sum(rest)
    BY <1>6, <1>7, <1>9
  <1>11. Sum(s \ {y}) = f[p] + Sum((s \ {y}) \ {p})
    BY <1>6, <1>7, <1>9
  <1>12. (s \ {y}) \ {p} = rest
    OBVIOUS
  <1>13. f[p] \in Int /\ f[y] \in Int /\ Sum(rest) \in Int
    BY <1>1, <1>4, <1>7
  <1>14. QED
    BY <1>5, <1>8, <1>10, <1>11, <1>12, <1>13

\* A sum depends on the values of its elements only.
LEMMA SumDependsOnValues ==
  ASSUME NEW f, NEW h, NEW S, IsFiniteSet(S), \A y \in S : f[y] = h[y]
  PROVE  SumFunctionOnSet(f, S) = SumFunctionOnSet(h, S)
  <1> DEFINE bad == {s \in SUBSET S : SumFunctionOnSet(f, s) # SumFunctionOnSet(h, s)}
  <1>1. SUFFICES ASSUME bad # {}  PROVE FALSE
    OBVIOUS
  <1>2. PICK s \in bad : \A t \in bad : Cardinality(s) <= Cardinality(t)
    <2>1. \A t \in bad : IsFiniteSet(t)
      BY FS_Subset
    <2> HIDE DEF bad
    <2>2. QED
      BY <1>1, <2>1, SmallestSet
  <1>3. s \in SUBSET S /\ IsFiniteSet(s) /\ s # {}
    BY FS_Subset, SumOfNone
  <1>4. /\ Pick(s) \in s /\ Cardinality(s \ {Pick(s)}) < Cardinality(s)
        /\ Cardinality(s) \in Nat /\ Cardinality(s \ {Pick(s)}) \in Nat
    BY <1>3, PickRemoves
  <1>5. s \ {Pick(s)} \notin bad
    <2> HIDE DEF bad
    <2>1. QED
      BY <1>2, <1>4
  <1>6. SumFunctionOnSet(f, s) = SumFunctionOnSet(h, s)
    BY <1>3, <1>4, <1>5, SumOfPick
  <1>7. QED
    BY <1>6

-----------------------------------------------------------------------------
(* The meter of the broker *)

(***************************************************************************)
(* What is owed: the sum of the costs that requests are about to write, as *)
(* the part of one request and that of the others.                         *)
(***************************************************************************)
Writing(f, r) == {d \in Chats : f[d].pc = "write" /\ f[d].run = r}
CostsIn(f) == [d \in Chats |-> f[d].cost]
Owed(f, r) == SumFunctionOnSet(CostsIn(f), Writing(f, r))
OwedByOthers(f, c, r) == SumFunctionOnSet(CostsIn(f), Writing(f, r) \ {c})
Share(x, r) == IF x.pc = "write" /\ x.run = r THEN x.cost ELSE 0

MeterInv ==
  /\ SpendIsMeteredUnlessRaced
  /\ \A r \in RunIds : IsFiniteSet(Pending(r))

LEMMA OwedIsShared ==
  ASSUME NEW f \in [Chats -> Chat], NEW r, IsFiniteSet(Writing(f, r)),
         NEW c \in Chats
  PROVE  /\ OwedByOthers(f, c, r) \in Int
         /\ Share(f[c], r) \in Int
         /\ Owed(f, r) = OwedByOthers(f, c, r) + Share(f[c], r)
  <1> DEFINE W == Writing(f, r)
             g == CostsIn(f)
  <1>1. W \subseteq Chats /\ \A d \in Chats : g[d] = f[d].cost /\ g[d] \in Int
    BY BudgetAssumption DEF Chat, Writing, CostsIn
  <1>2. c \in W <=> f[c].pc = "write" /\ f[c].run = r
    BY DEF Writing
  <1>3. Owed(f, r) = SumFunctionOnSet(g, W)
    BY DEF Owed
  <1>4. OwedByOthers(f, c, r) = SumFunctionOnSet(g, W \ {c})
    BY DEF OwedByOthers
  <1>5. IsFiniteSet(W) /\ IsFiniteSet(W \ {c})
    BY FS_Subset
  <1> HIDE DEF W, g
  <1>6. OwedByOthers(f, c, r) \in Int
    BY <1>1, <1>4, <1>5, SumIsInt
  <1>7. CASE c \in W
    <2>1. Share(f[c], r) = g[c] /\ g[c] \in Int
      BY <1>1, <1>2, <1>7 DEF Share
    <2>2. SumFunctionOnSet(g, W) = g[c] + SumFunctionOnSet(g, W \ {c})
      BY <1>1, <1>5, <1>7, SumTakesOut
    <2>3. QED
      BY <1>3, <1>4, <1>6, <2>1, <2>2
  <1>8. CASE c \notin W
    <2>1. Share(f[c], r) = 0
      BY <1>2, <1>8 DEF Share
    <2>2. W \ {c} = W
      BY <1>8
    <2>3. QED
      BY <1>3, <1>4, <1>6, <2>1, <2>2
  <1>9. QED
    BY <1>7, <1>8

\* When one request moves, what the others owe stays.
LEMMA OthersStillOwe ==
  ASSUME NEW f \in [Chats -> Chat], NEW h \in [Chats -> Chat], NEW r,
         IsFiniteSet(Writing(f, r)), NEW c \in Chats,
         \A d \in Chats : d # c => h[d] = f[d]
  PROVE  /\ IsFiniteSet(Writing(h, r))
         /\ OwedByOthers(h, c, r) = OwedByOthers(f, c, r)
  <1>1. Writing(h, r) \ {c} = Writing(f, r) \ {c}
    BY DEF Writing
  <1>2. IsFiniteSet(Writing(f, r) \ {c})
    BY FS_Subset
  <1>3. IsFiniteSet(Writing(h, r))
    <2>1. IsFiniteSet((Writing(f, r) \ {c}) \cup {c})
      BY <1>2, FS_AddElement
    <2>2. Writing(h, r) \subseteq (Writing(f, r) \ {c}) \cup {c}
      BY <1>1
    <2>3. QED
      BY <2>1, <2>2, FS_Subset
  <1>4. \A d \in Writing(f, r) \ {c} : CostsIn(h)[d] = CostsIn(f)[d]
    BY DEF CostsIn, Writing
  <1>5. SumFunctionOnSet(CostsIn(f), Writing(f, r) \ {c})
          = SumFunctionOnSet(CostsIn(h), Writing(f, r) \ {c})
    BY <1>2, <1>4, SumDependsOnValues
  <1>6. QED
    BY <1>1, <1>3, <1>5 DEF OwedByOthers

LEMMA MeterIsOwed ==
  /\ \A r : Pending(r) = Writing(chat, r)
  /\ Costs = CostsIn(chat)
  /\ MeterInv <=> \A r \in RunIds :
                    /\ IsFiniteSet(Writing(chat, r))
                    /\ r \notin uncounted => billed[r] = spent[r] + Owed(chat, r)
  <1>1. (\A r : Pending(r) = Writing(chat, r)) /\ Costs = CostsIn(chat)
    BY DEF Pending, Writing, Costs, CostsIn
  <1>2. QED
    BY <1>1 DEF MeterInv, SpendIsMeteredUnlessRaced, Owed

LEMMA NextMeterIsOwed ==
  MeterInv' <=> \A r \in RunIds :
                  /\ IsFiniteSet(Writing(chat', r))
                  /\ r \notin uncounted' => billed'[r] = spent'[r] + Owed(chat', r)
  <1>1. (\A r : Pending(r)' = Writing(chat', r)) /\ Costs' = CostsIn(chat')
    BY DEF Pending, Writing, Costs, CostsIn
  <1>2. QED
    BY <1>1 DEF MeterInv, SpendIsMeteredUnlessRaced, Owed

LEMMA NothingIsOwed ==
  ASSUME NEW f, NEW r, Writing(f, r) = {}
  PROVE  IsFiniteSet(Writing(f, r)) /\ Owed(f, r) = 0
  BY FS_EmptySet, SumOfNone DEF Owed

LEMMA MeterInitially == BrokerInit => MeterInv
  <1> SUFFICES ASSUME BrokerInit, NEW r \in RunIds
               PROVE  /\ IsFiniteSet(Writing(chat, r))
                      /\ billed[r] = spent[r] + Owed(chat, r)
    BY MeterIsOwed
  <1>1. Writing(chat, r) = {}
    BY DEF BrokerInit, NoChat, Writing
  <1>2. QED
    BY <1>1, NothingIsOwed DEF BrokerInit

\* The meter is right again if what is owed grows by what is billed.
LEMMA MeterMoves ==
  ASSUME BrokerInv, BrokerInv', MeterInv, NEW c \in Chats, NEW x,
         chat' = [chat EXCEPT ![c] = x], uncounted \subseteq uncounted',
         \A r \in RunIds : r \notin uncounted' =>
           billed'[r] - billed[r]
             = spent'[r] - spent[r] + Share(x, r) - Share(chat[c], r)
  PROVE  MeterInv'
  <1>1. /\ chat \in [Chats -> Chat] /\ chat' \in [Chats -> Chat]
        /\ spent \in [RunIds -> Nat] /\ spent' \in [RunIds -> Nat]
        /\ billed \in [RunIds -> Nat] /\ billed' \in [RunIds -> Nat]
    BY DEF BrokerInv, BrokerTypeOK
  <1>2. chat'[c] = x /\ \A d \in Chats : d # c => chat'[d] = chat[d]
    BY <1>1
  <1>3. ASSUME NEW r \in RunIds
        PROVE  /\ IsFiniteSet(Writing(chat', r))
               /\ r \notin uncounted' => billed'[r] = spent'[r] + Owed(chat', r)
    <2>1. /\ IsFiniteSet(Writing(chat, r))
          /\ r \notin uncounted' => billed[r] = spent[r] + Owed(chat, r)
      BY MeterIsOwed
    <2>2. /\ OwedByOthers(chat, c, r) \in Int
          /\ Share(chat[c], r) \in Int
          /\ Owed(chat, r) = OwedByOthers(chat, c, r) + Share(chat[c], r)
      BY <1>1, <2>1, OwedIsShared
    <2>3. /\ IsFiniteSet(Writing(chat', r))
          /\ OwedByOthers(chat', c, r) = OwedByOthers(chat, c, r)
      <3> DEFINE h == chat'
      <3>1. h \in [Chats -> Chat] /\ \A d \in Chats : d # c => h[d] = chat[d]
        BY <1>1, <1>2
      <3> HIDE DEF h
      <3>2. /\ IsFiniteSet(Writing(h, r))
            /\ OwedByOthers(h, c, r) = OwedByOthers(chat, c, r)
        BY <1>1, <2>1, <3>1, OthersStillOwe
      <3>3. QED
        BY <3>2 DEF h
    <2>4. /\ Share(x, r) \in Int
          /\ Owed(chat', r) = OwedByOthers(chat', c, r) + Share(x, r)
      BY <1>1, <1>2, <2>3, OwedIsShared
    <2>5. /\ billed[r] \in Int /\ billed'[r] \in Int
          /\ spent[r] \in Int /\ spent'[r] \in Int
      BY <1>1
    <2>6. r \notin uncounted' =>
            billed'[r] - billed[r]
              = spent'[r] - spent[r] + Share(x, r) - Share(chat[c], r)
      OBVIOUS
    <2>7. Owed(chat, r) \in Int /\ Owed(chat', r) \in Int
      BY <2>2, <2>3, <2>4
    <2>8. Owed(chat', r) - Owed(chat, r) = Share(x, r) - Share(chat[c], r)
      BY <2>2, <2>3, <2>4
    <2>9. r \notin uncounted' => billed'[r] = spent'[r] + Owed(chat', r)
      BY <2>1, <2>2, <2>4, <2>5, <2>6, <2>7, <2>8
    <2>10. QED
      BY <2>3, <2>9
  <1>4. QED
    BY <1>3, NextMeterIsOwed

LEMMA MeterStep ==
  ASSUME BrokerInv, BrokerInv', MeterInv, BrokerNext  PROVE MeterInv'
  <1>1. PICK c \in Chats :
          \/ \E r \in RunIds, allowed \in BOOLEAN : BeginChat(c, r, allowed)
          \/ ReadBudget(c) \/ ResolveWorker(c) \/ Infer(c) \/ WriteBudget(c)
    BY DEF BrokerNext
  <1> DEFINE y == chat[c]
  <1>2. /\ chat \in [Chats -> Chat] /\ spent \in [RunIds -> Nat]
        /\ billed \in [RunIds -> Nat]
        /\ DOMAIN y = {"pc", "run", "read", "cost"}
        /\ y.read \in Nat /\ y.cost \in Nat
    BY BudgetAssumption DEF BrokerInv, BrokerTypeOK, Chat
  <1>3. \A r : y.pc # "write" => Share(y, r) = 0
    BY DEF Share
  \* A step that neither serves nor writes.
  <1>4. ASSUME NEW x, chat' = [chat EXCEPT ![c] = x], x.pc # "write",
               y.pc # "write", UNCHANGED <<spent, billed, uncounted>>
        PROVE  MeterInv'
    <2>1. \A r \in RunIds :
            billed'[r] - billed[r]
              = spent'[r] - spent[r] + Share(x, r) - Share(y, r)
      <3>1. \A r : Share(x, r) = 0 /\ Share(y, r) = 0
        BY <1>4 DEF Share
      <3>2. QED
        BY <1>2, <1>4, <3>1
    <2>2. QED
      BY <1>4, <2>1, MeterMoves
  <1>5. ASSUME NEW r \in RunIds, NEW allowed \in BOOLEAN, BeginChat(c, r, allowed)
        PROVE  MeterInv'
    <2> DEFINE x == [NoChat EXCEPT !.pc = IF allowed THEN "read" ELSE "failed",
                                   !.run = r]
    <2>1. /\ chat' = [chat EXCEPT ![c] = x] /\ y.pc = "idle"
          /\ UNCHANGED <<spent, billed, uncounted>>
      BY <1>5 DEF BeginChat
    <2>2. x.pc # "write"
      BY DEF NoChat
    <2> HIDE DEF x
    <2>3. QED
      BY <1>4, <2>1, <2>2
  <1>6. CASE ReadBudget(c)
    <2>1. /\ y.pc = "read" /\ UNCHANGED <<spent, billed, uncounted>>
          /\ \/ chat' = [chat EXCEPT ![c].pc = "worker", ![c].read = spent[y.run]]
             \/ At(c, "failed")
      BY <1>6 DEF ReadBudget
    <2> DEFINE w == [y EXCEPT !.pc = "worker", !.read = spent[y.run]]
               z == [y EXCEPT !.pc = "failed"]
    <2>2. w.pc # "write" /\ z.pc # "write"
      BY <1>2
    <2>3. chat' = [chat EXCEPT ![c] = w] \/ chat' = [chat EXCEPT ![c] = z]
      BY <1>2, <2>1 DEF At
    <2> HIDE DEF w, z
    <2>4. QED
      BY <1>4, <2>1, <2>2, <2>3
  <1>7. CASE ResolveWorker(c)
    <2> DEFINE x == [y EXCEPT !.pc = "infer"]
    <2>1. /\ y.pc = "worker" /\ UNCHANGED <<spent, billed, uncounted>>
          /\ chat' = [chat EXCEPT ![c] = x] /\ x.pc # "write"
      BY <1>2, <1>7 DEF ResolveWorker, At
    <2> HIDE DEF x
    <2>2. QED
      BY <1>4, <2>1
  <1>8. CASE Infer(c)
    <2>1. y.pc = "infer" /\ UNCHANGED spent
      BY <1>8 DEF Infer
    <2>2. PICK cost \in 0..MaxCharge :
            /\ billed' = [billed EXCEPT ![y.run] = @ + cost]
            /\ \/ /\ chat' = [chat EXCEPT ![c].pc = "write", ![c].cost = cost]
                  /\ UNCHANGED uncounted
               \/ /\ At(c, "failed")
                  /\ uncounted' = uncounted \cup {y.run : i \in 1..cost}
      BY <1>8 DEF Infer
    <2>3. cost \in Nat /\ \A r \in RunIds :
            billed'[r] - billed[r] = IF r = y.run THEN cost ELSE 0
      BY <1>2, <2>2, BudgetAssumption
    <2>4. \A r \in RunIds : spent'[r] - spent[r] = 0
      BY <1>2, <2>1
    <2>5. CASE /\ chat' = [chat EXCEPT ![c].pc = "write", ![c].cost = cost]
               /\ UNCHANGED uncounted
      <3> DEFINE x == [y EXCEPT !.pc = "write", !.cost = cost]
      <3>1. chat' = [chat EXCEPT ![c] = x]
        BY <1>2, <2>5
      <3>2. x.pc = "write" /\ x.run = y.run /\ x.cost = cost
        BY <1>2
      <3> HIDE DEF x
      <3>3. \A r : Share(x, r) = IF r = y.run THEN cost ELSE 0
        BY <3>2 DEF Share
      <3>4. \A r \in RunIds :
              billed'[r] - billed[r]
                = spent'[r] - spent[r] + Share(x, r) - Share(y, r)
        BY <1>3, <2>1, <2>3, <2>4, <3>3
      <3>5. QED
        BY <2>5, <3>1, <3>4, MeterMoves
    <2>6. CASE /\ At(c, "failed")
               /\ uncounted' = uncounted \cup {y.run : i \in 1..cost}
      <3> DEFINE x == [y EXCEPT !.pc = "failed"]
      <3>1. chat' = [chat EXCEPT ![c] = x] /\ x.pc = "failed"
        BY <1>2, <2>6 DEF At
      <3> HIDE DEF x
      <3>2. \A r : Share(x, r) = 0
        BY <3>1 DEF Share
      <3>3. \A r : r \notin uncounted' /\ r = y.run => cost = 0
        <4>1. cost # 0 => 1 \in 1..cost
          BY <2>3
        <4>2. QED
          BY <2>6, <4>1
      <3>4. \A r \in RunIds : r \notin uncounted' =>
              billed'[r] - billed[r]
                = spent'[r] - spent[r] + Share(x, r) - Share(y, r)
        BY <1>3, <2>1, <2>3, <2>4, <3>2, <3>3
      <3>5. uncounted \subseteq uncounted'
        BY <2>6
      <3>6. QED
        BY <3>1, <3>4, <3>5, MeterMoves
    <2>7. QED
      BY <2>2, <2>5, <2>6
  <1>9. CASE WriteBudget(c)
    <2> DEFINE written == [spent EXCEPT ![y.run] = y.read + y.cost]
    <2>1. y.pc = "write" /\ UNCHANGED billed
      BY <1>9 DEF WriteBudget
    <2>2. \/ /\ At(c, "done") /\ spent' = written
             /\ uncounted' = IF y.read = spent[y.run] THEN uncounted
                             ELSE uncounted \cup {y.run}
          \/ /\ At(c, "failed") /\ spent' \in {written, spent}
             /\ uncounted' = uncounted \cup {y.run}
      BY <1>9 DEF WriteBudget, NewCost
    <2>3. PICK pc \in {"done", "failed"} : At(c, pc)
      BY <2>2
    <2> DEFINE x == [y EXCEPT !.pc = pc]
    <2>4. chat' = [chat EXCEPT ![c] = x] /\ x.pc = pc
      BY <1>2, <2>3 DEF At
    <2> HIDE DEF x
    <2>5. \A r : Share(x, r) = 0 /\ Share(y, r) = IF r = y.run THEN y.cost ELSE 0
      BY <2>1, <2>4 DEF Share
    <2>6. \A r \in RunIds : r # y.run => spent'[r] = spent[r]
      BY <1>2, <2>2
    <2>7. y.run \in RunIds /\ y.run \notin uncounted' =>
            /\ y.read = spent[y.run]
            /\ spent'[y.run] = y.read + y.cost
      BY <1>2, <2>2
    <2>8. \A r \in RunIds : r \notin uncounted' =>
            billed'[r] - billed[r]
              = spent'[r] - spent[r] + Share(x, r) - Share(y, r)
      <3> SUFFICES ASSUME NEW r \in RunIds, r \notin uncounted'
                   PROVE  billed'[r] - billed[r]
                            = spent'[r] - spent[r] + Share(x, r) - Share(y, r)
        OBVIOUS
      <3>1. billed'[r] - billed[r] = 0 /\ spent[r] \in Nat
        BY <1>2, <2>1
      <3>2. spent'[r] - spent[r] = IF r = y.run THEN y.cost ELSE 0
        BY <1>2, <2>6, <2>7, <3>1
      <3>3. QED
        BY <1>2, <2>5, <3>1, <3>2
    <2>9. uncounted \subseteq uncounted'
      BY <2>2
    <2>10. QED
      BY <2>4, <2>8, <2>9, MeterMoves
  <1>10. QED
    BY <1>1, <1>5, <1>6, <1>7, <1>8, <1>9

\* After a crash nobody is about to write; who was is not counted.
LEMMA MeterCrashes ==
  ASSUME BrokerInv, MeterInv, ChatsDie  PROVE MeterInv'
  <1>1. chat \in [Chats -> Chat]
    BY DEF BrokerInv, BrokerTypeOK
  <1>2. ASSUME NEW r \in RunIds
        PROVE  /\ IsFiniteSet(Writing(chat', r))
               /\ r \notin uncounted' => billed'[r] = spent'[r] + Owed(chat', r)
    <2>1. Writing(chat', r) = {}
      <3>1. \A d \in Chats : chat'[d].pc # "write"
        <4> SUFFICES ASSUME NEW d \in Chats  PROVE chat'[d].pc # "write"
          OBVIOUS
        <4>1. DOMAIN chat[d] = {"pc", "run", "read", "cost"}
          BY <1>1 DEF Chat
        <4>2. chat'[d] = IF chat[d].pc \in {"read", "worker", "infer", "write"}
                         THEN [chat[d] EXCEPT !.pc = "failed"] ELSE chat[d]
          BY DEF ChatsDie
        <4>3. QED
          BY <4>1, <4>2
      <3>2. QED
        BY <3>1 DEF Writing
    <2>2. IsFiniteSet(Writing(chat', r)) /\ Owed(chat', r) = 0
      BY <2>1, NothingIsOwed
    <2>3. r \notin uncounted' => Writing(chat, r) = {} /\ r \notin uncounted
      BY DEF ChatsDie, Writing
    <2>4. r \notin uncounted' => billed[r] = spent[r] + 0
      BY <2>3, MeterIsOwed, NothingIsOwed
    <2>5. QED
      BY <2>2, <2>4 DEF ChatsDie
  <1>3. QED
    BY <1>2, NextMeterIsOwed

LEMMA MeterRests == ASSUME MeterInv, UNCHANGED brokerVars  PROVE MeterInv'
  BY DEF MeterInv, SpendIsMeteredUnlessRaced, Pending, Costs, brokerVars

-----------------------------------------------------------------------------
(* The recovery at boot *)

\* While it works, what it does not know of it has on its list, unchanged.
StrandedIsListed ==
  recovery.pc \in {"lease", "sweep", "quarantine"} =>
    \A r \in Rows : Stranded(r) => r \in missed \/ Snapshot(r) \in recovery.queue

RecoveryInv ==
  /\ RecoveryTypeOK
  /\ \A s \in recovery.queue : s.run \in Rows
  /\ StrandedIsExplained
  /\ StrandedIsListed

Entry == [run : RunIds, phase : Phase, version : 1..(MaxVersion + 1)]

LEMMA RecoveryShape ==
  ASSUME RecoveryTypeOK
  PROVE  /\ recovery = [pc |-> recovery.pc, queue |-> recovery.queue]
         /\ recovery.pc \in {"off", "list", "lease", "sweep", "quarantine"}
         /\ recovery.queue \subseteq Entry
         /\ \A s \in recovery.queue : s.run \in RunIds
  BY DEF RecoveryTypeOK, Recovery, Entry

LEMMA RecoveryInitially == StoreInit /\ RecoveryInit => RecoveryInv
  <1> SUFFICES ASSUME StoreInit, RecoveryInit  PROVE RecoveryInv
    OBVIOUS
  <1>1. recovery \in Recovery /\ recovery.queue = {} /\ recovery.pc = "off"
    BY DEF RecoveryInit, NoRecovery, Recovery
  <1>2. Rows = {}
    BY DEF StoreInit, Rows
  <1>3. QED
    BY <1>1, <1>2 DEF RecoveryInv, RecoveryTypeOK, StrandedIsExplained,
       StrandedIsListed, RecoveryInit

\* The steps of the others strand no run and change no stranded run.
LEMMA RecoveryRests ==
  ASSUME StoreInv, RecoveryInv, UNCHANGED recoveryVars, KeysAreKept, NoneIsStranded
  PROVE  RecoveryInv'
  <1>1. recovery' = recovery /\ missed' = missed
    BY DEF recoveryVars
  <1>2. \A s \in recovery.queue : s.run \in Rows'
    <2>1. Len(runs) \in Nat /\ Len(runs) <= Len(runs')
      BY RowFacts DEF KeysAreKept
    <2>2. QED
      <3> TAKE s \in recovery.queue
      <3>1. s.run \in 1..Len(runs)
        BY DEF RecoveryInv, Rows
      <3>2. Len(runs') \in Nat
        BY <3>1, <2>1 DEF Rows
      <3>3. QED
        BY <2>1, <3>1, <3>2 DEF Rows
  <1>3. ASSUME NEW r \in Rows', Stranded(r)'
        PROVE  r \in Rows /\ Stranded(r) /\ Snapshot(r)' = Snapshot(r)
    BY <1>3 DEF NoneIsStranded, Stays, Snapshot
  <1>4. StrandedIsExplained'
    BY <1>1, <1>3 DEF RecoveryInv, StrandedIsExplained
  <1>5. StrandedIsListed'
    BY <1>1, <1>3 DEF RecoveryInv, StrandedIsListed
  <1>6. QED
    BY <1>1, <1>2, <1>4, <1>5 DEF RecoveryInv, RecoveryTypeOK

\* A run that was only just listed is on the list or known to be missed.
LEMMA ListingKeeps ==
  ASSUME StoreInv, RecoveryInv, ListInFlightRuns
  PROVE  RecoveryInv'
  <1>1. UNCHANGED runs /\ Rows' = Rows
    BY DEF ListInFlightRuns, storeVars, Rows
  <1>2. \A r \in Rows : Stranded(r)' = Stranded(r) /\ Snapshot(r)' = Snapshot(r)
    BY <1>1 DEF Stranded, Snapshot
  <1>3. CASE recovery' = NoRecovery /\ missed' = RunIds
    <2>1. recovery' \in Recovery /\ recovery'.queue = {} /\ recovery'.pc = "off"
      BY <1>3 DEF NoRecovery, Recovery
    <2>2. \A r \in Rows : r \in RunIds
      BY RowFacts
    <2>3. QED
      BY <1>1, <1>3, <2>1, <2>2
         DEF RecoveryInv, RecoveryTypeOK, StrandedIsExplained, StrandedIsListed
  <1>4. CASE /\ recovery' = [pc |-> IF Listed = {} THEN "off" ELSE "lease",
                             queue |-> {Snapshot(r) : r \in Listed}]
             /\ missed' = {r \in Rows : Len(runs) - r >= PageSize}
    <2>1. recovery'.queue = {Snapshot(r) : r \in Listed}
          /\ recovery'.pc = (IF Listed = {} THEN "off" ELSE "lease")
      BY <1>4
    <2>2. \A r \in Listed : r \in Rows /\ Snapshot(r) \in Entry /\ Snapshot(r).run = r
      BY RowFacts DEF Listed, Page, Snapshot, Entry, Run
    <2>3. recovery' \in Recovery
      <3>1. {Snapshot(r) : r \in Listed} \in SUBSET Entry
        BY <2>2
      <3>2. (IF Listed = {} THEN "off" ELSE "lease") \in {"off", "lease"}
        OBVIOUS
      <3>3. QED
        BY <1>4, <3>1, <3>2 DEF Recovery, Entry
    <2>4. missed' \subseteq RunIds
      BY <1>4, RowFacts
    <2>5. ASSUME NEW r \in Rows, Stranded(r)
          PROVE  r \in missed' \/ r \in Listed
      <3>1. CASE Len(runs) - r >= PageSize
        BY <1>4, <3>1
      <3>2. CASE ~(Len(runs) - r >= PageSize)
        <4>1. r + PageSize > Len(runs)
          BY <3>2, RowFacts, PageAssumption DEF Rows
        <4>2. runs[r].phase \in InFlightPhases
          BY <2>5 DEF Stranded, DrivenPhases
        <4>3. QED
          BY <4>1, <4>2 DEF Listed, Page
      <3>3. QED
        BY <3>1, <3>2
    <2>6. StrandedIsExplained'
      BY <1>1, <1>2, <2>1, <2>5 DEF StrandedIsExplained
    <2>7. StrandedIsListed'
      BY <1>1, <1>2, <2>1, <2>5 DEF StrandedIsListed
    <2>8. \A s \in recovery'.queue : s.run \in Rows'
      BY <1>1, <2>1, <2>2
    <2>9. QED
      BY <2>3, <2>4, <2>6, <2>7, <2>8 DEF RecoveryInv, RecoveryTypeOK
  <1>5. QED
    BY <1>3, <1>4 DEF ListInFlightRuns

\* One step of the loop: an entry leaves the list only when its run is missed
\* or no longer stranded where it was seen.
LEMMA LoopKeeps ==
  ASSUME StoreInv, RecoveryInv, NEW s \in recovery.queue,
         recovery.pc \in {"lease", "sweep", "quarantine"},
         KeysAreKept, NoneIsStranded, Len(runs') = Len(runs),
         missed \subseteq missed', missed' \subseteq RunIds,
         \/ \E pc \in {"sweep", "quarantine"} : recovery' = [recovery EXCEPT !.pc = pc]
         \/ /\ NextRun(s)
            /\ \A r \in Rows :
                 Stranded(r)' /\ Snapshot(r) = s => r \in missed'
  PROVE  RecoveryInv'
  <1>1. Rows' = Rows
    BY DEF Rows
  <1>2. ASSUME NEW r \in Rows, Stranded(r)'
        PROVE  /\ Stranded(r) /\ Snapshot(r)' = Snapshot(r)
               /\ r \in missed \/ Snapshot(r) \in recovery.queue
    BY <1>1, <1>2 DEF NoneIsStranded, Stays, Snapshot, RecoveryInv, StrandedIsListed
  <1>3. recovery = [pc |-> recovery.pc, queue |-> recovery.queue]
        /\ recovery.queue \subseteq Entry
    BY RecoveryShape DEF RecoveryInv
  <1>4. CASE \E pc \in {"sweep", "quarantine"} : recovery' = [recovery EXCEPT !.pc = pc]
    <2>1. recovery'.queue = recovery.queue /\ recovery'.pc \in {"sweep", "quarantine"}
      BY <1>3, <1>4
    <2>2. recovery' \in Recovery
      BY <1>3, <1>4 DEF Recovery, Entry
    <2>3. StrandedIsListed' /\ StrandedIsExplained'
      BY <1>1, <1>2, <2>1 DEF StrandedIsListed, StrandedIsExplained
    <2>4. QED
      BY <1>1, <2>1, <2>2, <2>3 DEF RecoveryInv, RecoveryTypeOK
  <1>5. CASE /\ NextRun(s)
             /\ \A r \in Rows : Stranded(r)' /\ Snapshot(r) = s => r \in missed'
    <2>1. /\ recovery'.queue = recovery.queue \ {s}
          /\ recovery'.pc = (IF recovery.queue = {s} THEN "off" ELSE "lease")
      BY <1>5 DEF NextRun
    <2>2. recovery' \in Recovery
      <3>1. (IF recovery.queue = {s} THEN "off" ELSE "lease") \in {"off", "lease"}
        OBVIOUS
      <3>2. recovery.queue \ {s} \in SUBSET Entry
        BY <1>3
      <3>3. QED
        BY <1>5, <3>1, <3>2 DEF NextRun, Recovery, Entry
    <2>3. \A r \in Rows :
            Stranded(r)' => r \in missed' \/ Snapshot(r)' \in recovery.queue \ {s}
      BY <1>2, <1>5
    <2>4. StrandedIsListed'
      BY <1>1, <2>1, <2>3 DEF StrandedIsListed
    <2>5. StrandedIsExplained'
      BY <1>1, <2>1, <2>3 DEF StrandedIsExplained
    <2>6. QED
      BY <1>1, <2>1, <2>2, <2>4, <2>5 DEF RecoveryInv, RecoveryTypeOK
  <1>6. QED
    BY <1>4, <1>5
LEMMA RecoveryStep ==
  ASSUME StoreInv, RecoveryInv, RecoveryNext, UNCHANGED workload
  PROVE  StoreInv' /\ Undisturbed /\ RecoveryInv'
  <1>1. CASE ListInFlightRuns
    <2>1. UNCHANGED storeVars /\ (NoFault \/ Fault)
      BY <1>1 DEF ListInFlightRuns
    <2>2. QED
      BY <1>1, <2>1, FaultsAreCounted, StoreStutters, ListingKeeps
  <1>2. ASSUME NEW s \in recovery.queue,
               ReacquireLease(s) \/ SweepDevice(s) \/ QuarantineRun(s)
        PROVE  StoreInv' /\ Undisturbed /\ RecoveryInv'
    <2>1. /\ s \in Entry /\ s.run \in RunIds /\ s.run \in Rows /\ s.phase \in Phase
          /\ missed \subseteq RunIds /\ recovery \in Recovery
      BY RecoveryShape DEF RecoveryInv, RecoveryTypeOK, Entry
    <2>2. faults' \in Nat
      BY <1>2, FaultsAreCounted DEF ReacquireLease, SweepDevice, QuarantineRun
    <2>3. CASE ReacquireLease(s)
      <3>1. /\ leases' \in [RunIds -> {"none", "active", "lapsed"}]
            /\ LeasesAreKept /\ UNCHANGED <<runs, tailnet, authKeys>>
        BY <2>1, <2>3 DEF ReacquireLease, StoreInv, StoreTypeOK, LeasesAreKept
      <3>2. StoreInv' /\ Undisturbed
        BY <2>2, <3>1, LeasesAndKeys DEF StoreInv, StoreTypeOK
      <3>3. /\ recovery.pc = "lease"
            /\ missed \subseteq missed' /\ missed' \subseteq RunIds
            /\ \/ recovery' = [recovery EXCEPT !.pc = "sweep"]
               \/ NextRun(s) /\ s.run \in missed'
        BY <2>1, <2>3 DEF ReacquireLease
      <3>4. \A r \in Rows : Snapshot(r) = s => r = s.run
        BY DEF Snapshot
      <3>5. QED
        BY <3>2, <3>3, <3>4, LoopKeeps DEF Undisturbed, StoreIsKept
    <2>4. CASE SweepDevice(s)
      <3>1. UNCHANGED <<runs, leases, authKeys, missed>> /\ recovery.pc = "sweep"
            /\ recovery' = [recovery EXCEPT !.pc = "quarantine"]
        BY <2>4 DEF SweepDevice
      <3>2. StoreInv' /\ Undisturbed
        <4>1. CASE UNCHANGED tailnet
          BY <2>2, <3>1, <4>1, StoreStutters DEF storeVars
        <4>2. CASE \E d \in DevicesOf(s.run) :
                     \/ tailnet' = [tailnet EXCEPT ![d].there = FALSE]
                     \/ tailnet' = [tailnet EXCEPT ![d].authorized = FALSE]
          BY <2>2, <3>1, <4>2, LosingADevice DEF DevicesOf, Devices
        <4>3. QED
          BY <2>4, <4>1, <4>2 DEF SweepDevice
      <3>3. QED
        BY <2>1, <3>1, <3>2, LoopKeeps DEF Undisturbed, StoreIsKept
    <2>5. CASE QuarantineRun(s)
      <3> DEFINE asListed == /\ s.phase \in DrivenPhases
                             /\ runs[s.run].phase = s.phase
                             /\ runs[s.run].version = s.version
      <3>1. /\ recovery.pc = "quarantine" /\ NextRun(s)
            /\ UNCHANGED <<leases, tailnet, authKeys>>
        BY <2>5 DEF QuarantineRun
      <3>2. \A r \in Rows : Snapshot(r) = s =>
              /\ r = s.run /\ s.phase = runs[r].phase /\ s.version = runs[r].version
        BY DEF Snapshot
      <3>3. CASE /\ asListed
                 /\ runs' = [runs EXCEPT ![s.run].phase = "quarantined",
                                         ![s.run].version = @ + 1,
                                         ![s.run].driven = FALSE]
                 /\ UNCHANGED missed
        <4> DEFINE row == [runs[s.run] EXCEPT !.phase = "quarantined",
                             !.version = @ + 1, !.driven = FALSE]
        <4>1. runs[s.run] \in Run /\ runs \in Seq(Run)
          BY <2>1, RowFacts DEF StoreInv, StoreTypeOK
        <4>2. runs' = [runs EXCEPT ![s.run] = row]
          BY <2>1, <3>3, <4>1 DEF Run, Rows
        <4>3. runs[s.run].phase # "quarantined"
          BY <3>3 DEF DrivenPhases, InFlightPhases
        <4>4. runs[s.run].version <= MaxVersion /\ runs[s.run].version \in Nat
              /\ runs[s.run].version >= 1
          BY <2>1, <4>1, <4>3, BoundsAssumption
             DEF StoreInv, VersionsAreBounded, Run
        <4>5. runs[s.run].version + 1 \in 1..(MaxVersion + 1)
          BY <4>4, BoundsAssumption
        <4>6. row \in Run
          BY <4>1, <4>5 DEF Run, Phase
        <4>7. /\ row.key = runs[s.run].key /\ row.phase = "quarantined"
              /\ row.device = runs[s.run].device
          BY <4>1 DEF Run
        <4>8. "quarantined" \notin DrivenPhases
          BY DEF DrivenPhases, InFlightPhases
        <4> HIDE DEF row
        <4>9. Rewrites(s.run, row)
          BY <2>1, <4>2, <4>6, <4>7, <4>8 DEF Rewrites
        <4>10. StoreInv' /\ Undisturbed
          BY <2>2, <3>1, <4>9, RewritingARow DEF StoreInv, StoreTypeOK, LeasesAreKept
        <4>11. runs'[s.run] = row
          BY <2>1, <4>1, <4>2 DEF Rows
        <4>12. ~Stranded(s.run)'
          BY <4>7, <4>8, <4>11 DEF Stranded
        <4>13. \A r \in Rows : Stranded(r)' /\ Snapshot(r) = s => r \in missed'
          BY <3>2, <4>12
        <4>14. missed \subseteq missed' /\ missed' \subseteq RunIds
          BY <2>1, <3>3
        <4>15. QED
          BY <2>1, <3>1, <4>10, <4>13, <4>14, LoopKeeps
             DEF Undisturbed, StoreIsKept
      <3>4. CASE ~asListed /\ UNCHANGED <<runs, missed>>
        <4>1. StoreInv' /\ Undisturbed
          BY <2>2, <3>1, <3>4, StoreStutters DEF storeVars
        <4>2. \A r \in Rows : Stranded(r)' /\ Snapshot(r) = s => r \in missed'
          BY <3>2, <3>4 DEF Stranded
        <4>3. missed \subseteq missed' /\ missed' \subseteq RunIds
          BY <2>1, <3>4
        <4>4. QED
          BY <2>1, <3>1, <4>1, <4>2, <4>3, LoopKeeps DEF Undisturbed, StoreIsKept
      <3>5. CASE missed' = missed \cup {s.run} /\ UNCHANGED runs
        <4>1. StoreInv' /\ Undisturbed
          BY <2>2, <3>1, <3>5, StoreStutters DEF storeVars
        <4>2. \A r \in Rows : Stranded(r)' /\ Snapshot(r) = s => r \in missed'
          BY <3>2, <3>5
        <4>3. missed \subseteq missed' /\ missed' \subseteq RunIds
          BY <2>1, <3>5
        <4>4. QED
          BY <2>1, <3>1, <4>1, <4>2, <4>3, LoopKeeps DEF Undisturbed, StoreIsKept
      <3>6. QED
        BY <2>5, <3>3, <3>4, <3>5 DEF QuarantineRun
    <2>6. QED
      BY <1>2, <2>3, <2>4, <2>5
  <1>3. QED
    BY <1>1, <1>2 DEF RecoveryNext

\* A new process knows nothing and begins with the list.
LEMMA RecoveryCrashes ==
  ASSUME RecoveryRestarts
  PROVE  RecoveryInv'
  BY DEF RecoveryRestarts, RecoveryInv, RecoveryTypeOK, Recovery,
     StrandedIsExplained, StrandedIsListed
-----------------------------------------------------------------------------
(* The pruner *)

\* A cycle removes devices it found, the present one for a reason.
CycleIsSound(x) ==
  /\ x \in Cycle
  /\ x.todo \subseteq Devices
  /\ x.pc \in {"lease", "deauthorize", "delete", "verify"} => x.device \in Devices
  /\ x.pc = "deauthorize" => IsStale(x.device)

PrunerInv == PrunerTypeOK /\ \A c \in Cycles : CycleIsSound(cycle[c])

LEMMA PrunerInitially == PrunerInit => PrunerInv
  <1> SUFFICES ASSUME PrunerInit  PROVE PrunerInv
    OBVIOUS
  <1>1. NoCycle \in Cycle /\ NoCycle.todo = {} /\ NoCycle.pc = "idle"
    BY BoundsAssumption DEF NoCycle, Cycle
  <1>2. cycle \in [Cycles -> Cycle] /\ \A c \in Cycles : cycle[c] = NoCycle
    BY <1>1 DEF PrunerInit
  <1>3. QED
    BY <1>1, <1>2 DEF PrunerInv, PrunerTypeOK, CycleIsSound

\* A device never loses its number, and a sound verdict stands.
LEMMA DevicesStay ==
  ASSUME StoreInv, DevicesAreKept
  PROVE  \A d \in Devices : d \in Devices'
  <1> SUFFICES ASSUME NEW d \in Devices  PROVE d \in Devices'
    OBVIOUS
  <1>1. d \in 1..Len(tailnet) /\ Len(tailnet) <= Len(tailnet') /\ Len(tailnet) \in Nat
    BY RowFacts DEF Devices, DevicesAreKept
  <1>2. QED
    BY <1>1 DEF Devices

LEMMA CycleMoves ==
  ASSUME StoreInv, PrunerInv, NEW c \in Cycles, NEW x, Proceed(c, x), CycleIsSound(x),
         DevicesAreKept, VerdictsAreKept
  PROVE  PrunerInv'
  <1>1. cycle \in [Cycles -> Cycle] /\ x \in Cycle
    BY DEF PrunerInv, PrunerTypeOK, CycleIsSound
  <1>2. /\ cycle' \in [Cycles -> Cycle] /\ cycle'[c] = x
        /\ \A b \in Cycles : b # c => cycle'[b] = cycle[b]
    BY <1>1 DEF Proceed
  <1>3. ASSUME NEW b \in Cycles  PROVE CycleIsSound(cycle[b])'
    <2>1. CASE b = c
      <3>1. cycle'[b] = x
        BY <1>2, <2>1
      <3>2. x.todo \subseteq Devices'
        BY DevicesStay DEF CycleIsSound
      <3>3. x.pc \in {"lease", "deauthorize", "delete", "verify"} => x.device \in Devices'
        BY DevicesStay DEF CycleIsSound
      <3>4. x.pc = "deauthorize" =>
              \/ tailnet'[x.device].expired
              \/ \A r \in Rows' :
                   tailnet'[x.device].owner = r /\ runs'[r].phase \in DrivenPhases
                     => x.device <= runs'[r].since
        BY DEF CycleIsSound, VerdictsAreKept, IsStale
      <3>5. QED
        BY <1>1, <3>1, <3>2, <3>3, <3>4 DEF CycleIsSound, IsStale
    <2>2. CASE b # c
      <3> DEFINE y == cycle[b]
      <3>1. cycle'[b] = y /\ CycleIsSound(y) /\ y \in Cycle
        BY <1>1, <1>2, <2>2 DEF PrunerInv
      <3>2. y.todo \subseteq Devices'
        BY <3>1, DevicesStay DEF CycleIsSound
      <3>3. y.pc \in {"lease", "deauthorize", "delete", "verify"} => y.device \in Devices'
        BY <3>1, DevicesStay DEF CycleIsSound
      <3>4. y.pc = "deauthorize" =>
              \/ tailnet'[y.device].expired
              \/ \A r \in Rows' :
                   tailnet'[y.device].owner = r /\ runs'[r].phase \in DrivenPhases
                     => y.device <= runs'[r].since
        BY <3>1 DEF CycleIsSound, VerdictsAreKept, IsStale
      <3>5. QED
        BY <3>1, <3>2, <3>3, <3>4 DEF CycleIsSound, IsStale
    <2>3. QED
      BY <2>1, <2>2
  <1>4. QED
    BY <1>2, <1>3 DEF PrunerInv, PrunerTypeOK

LEMMA PrunerRests ==
  ASSUME StoreInv, PrunerInv, UNCHANGED cycle, DevicesAreKept, VerdictsAreKept
  PROVE  PrunerInv'
  <1>1. ASSUME NEW b \in Cycles  PROVE CycleIsSound(cycle[b])'
    <2> DEFINE y == cycle[b]
    <2>1. cycle'[b] = y /\ CycleIsSound(y) /\ y \in Cycle
      BY DEF PrunerInv, CycleIsSound
    <2>2. y.todo \subseteq Devices'
      BY <2>1, DevicesStay DEF CycleIsSound
    <2>3. y.pc \in {"lease", "deauthorize", "delete", "verify"} => y.device \in Devices'
      BY <2>1, DevicesStay DEF CycleIsSound
    <2>4. y.pc = "deauthorize" =>
            \/ tailnet'[y.device].expired
            \/ \A r \in Rows' :
                 tailnet'[y.device].owner = r /\ runs'[r].phase \in DrivenPhases
                   => y.device <= runs'[r].since
      BY <2>1 DEF CycleIsSound, VerdictsAreKept, IsStale
    <2>5. QED
      BY <2>1, <2>2, <2>3, <2>4 DEF CycleIsSound, IsStale
  <1>2. QED
    BY <1>1 DEF PrunerInv, PrunerTypeOK

\* What a cycle may become on its way: it keeps its place in the list.
LEMMA CycleFacts ==
  ASSUME PrunerInv, NEW c \in Cycles
  PROVE  /\ cycle[c] \in Cycle /\ CycleIsSound(cycle[c])
         /\ \A D \in SUBSET cycle[c].todo : NextDevice([cycle[c] EXCEPT !.todo = D]) \in Cycle
  <1>1. cycle[c] \in Cycle /\ CycleIsSound(cycle[c])
    BY DEF PrunerInv, PrunerTypeOK
  <1>2. ASSUME NEW D \in SUBSET cycle[c].todo
        PROVE  NextDevice([cycle[c] EXCEPT !.todo = D]) \in Cycle
    <2>1. D \in SUBSET (1..MaxDevices) /\ 0 \in 0..MaxDevices
      BY <1>1, BoundsAssumption DEF Cycle
    <2>2. QED
      BY <1>1, <2>1 DEF NextDevice, Cycle
  <1>3. QED
    BY <1>1, <1>2

\* A device is kept, or it is pruned with a reason.
LEMMA RetainOrPrune ==
  ASSUME StoreInv, PrunerInv, NEW c \in Cycles, NEW d \in Devices,
         \/ Retain(c, d)
         \/ Prune(c, d) /\ IsStale(d),
         DevicesAreKept, VerdictsAreKept
  PROVE  PrunerInv'
  <1> DEFINE y == cycle[c]
             l == [y EXCEPT !.todo = @ \ {d}]
  <1>1. y \in Cycle /\ CycleIsSound(y)
    BY CycleFacts
  <1>2. d \in 1..MaxDevices /\ d \in 0..MaxDevices /\ 0 \in 0..MaxDevices
    BY RowFacts, BoundsAssumption
  <1>3. /\ l \in Cycle /\ l.todo = y.todo \ {d}
    <2>1. y.todo \ {d} \in SUBSET (1..MaxDevices)
      BY <1>1 DEF Cycle
    <2>2. QED
      BY <1>1, <2>1 DEF Cycle
  <1>4. y.todo \ {d} \subseteq Devices
    BY <1>1 DEF CycleIsSound
  <1> HIDE DEF l
  <1>5. CycleIsSound(NextDevice(l))
    <2>1. NextDevice(l) \in Cycle
      BY <1>2, <1>3 DEF NextDevice, Cycle
    <2>2. NextDevice(l).todo = l.todo /\ NextDevice(l).pc = "devices"
      BY <1>3 DEF NextDevice, Cycle
    <2>3. QED
      BY <1>3, <1>4, <2>1, <2>2 DEF CycleIsSound
  <1>6. CASE Retain(c, d)
    <2>1. Proceed(c, NextDevice(l))
      BY <1>6 DEF Retain, l
    <2>2. QED
      BY <1>5, <2>1, CycleMoves
  <1>7. CASE Prune(c, d) /\ IsStale(d)
    <2> DEFINE x == [l EXCEPT !.pc = "deauthorize", !.device = d]
    <2>1. /\ x \in Cycle /\ x.todo = l.todo /\ x.pc = "deauthorize" /\ x.device = d
      BY <1>2, <1>3 DEF Cycle
    <2> HIDE DEF x
    <2>2. CycleIsSound(x)
      BY <1>3, <1>4, <1>7, <2>1 DEF CycleIsSound
    <2>3. Proceed(c, IF l.dryRun THEN NextDevice(l) ELSE x)
      BY <1>7 DEF Prune, l, x
    <2>4. CASE l.dryRun
      BY <1>5, <2>3, <2>4, CycleMoves
    <2>5. CASE ~l.dryRun
      BY <2>2, <2>3, <2>5, CycleMoves
    <2>6. QED
      BY <2>4, <2>5
  <1>8. QED
    BY <1>6, <1>7

\* The other steps of a cycle judge no device.
LEMMA CycleGoesOn ==
  ASSUME StoreInv, PrunerInv, NEW c \in Cycles, NEW x \in Cycle, Proceed(c, x),
         x.todo \subseteq cycle[c].todo,
         x.pc \notin {"lease", "deauthorize"},
         x.pc \in {"delete", "verify"} =>
           /\ x.device = cycle[c].device
           /\ cycle[c].pc \in {"lease", "deauthorize", "delete", "verify"},
         DevicesAreKept, VerdictsAreKept
  PROVE  PrunerInv'
  <1>1. CycleIsSound(cycle[c])
    BY DEF PrunerInv
  <1>2. CycleIsSound(x)
    BY <1>1 DEF CycleIsSound
  <1>3. QED
    BY <1>2, CycleMoves

LEMMA JudgeKeeps ==
  ASSUME StoreInv, PrunerInv, NEW c \in Cycles, Judge(c), UNCHANGED workload
  PROVE  StoreInv' /\ Undisturbed /\ PrunerInv'
  <1>1. UNCHANGED storeVars /\ (NoFault \/ Fault)
    BY DEF Judge
  <1>2. StoreInv' /\ Undisturbed
    BY <1>1, FaultsAreCounted, StoreStutters
  <1>3. DevicesAreKept /\ VerdictsAreKept
    BY <1>2 DEF Undisturbed, StoreIsKept
  <1>4. PICK d \in cycle[c].todo :
          \/ Retain(c, d)
          \/ Prune(c, d) /\ tailnet[d].owner # 0 /\ ~NotOver(tailnet[d].owner)
          \/ Proceed(c, [cycle[c] EXCEPT !.pc = "lease", !.device = d])
          \/ Prune(c, d) /\ tailnet[d].owner = 0
    BY ZenonT(60) DEF Judge
  <1>5. d \in Devices /\ d \in 1..MaxDevices /\ d \in 0..MaxDevices
    BY CycleFacts, RowFacts, BoundsAssumption DEF CycleIsSound
  <1>6. CASE Retain(c, d)
    BY <1>2, <1>3, <1>5, <1>6, RetainOrPrune
  <1>7. CASE Prune(c, d) /\ (tailnet[d].owner = 0 \/ ~NotOver(tailnet[d].owner))
    <2>1. ASSUME NEW r \in Rows, tailnet[d].owner = r, runs[r].phase \in DrivenPhases
          PROVE  FALSE
      <3>1. r # 0
        BY RowFacts DEF Rows
      <3>2. runs[r].phase \notin TerminalPhases
        BY <2>1 DEF DrivenPhases, InFlightPhases, TerminalPhases
      <3>3. QED
        BY <1>7, <2>1, <3>1, <3>2 DEF NotOver
    <2>2. IsStale(d)
      BY <2>1 DEF IsStale
    <2>3. QED
      BY <1>2, <1>3, <1>5, <1>7, <2>2, RetainOrPrune
  <1>8. CASE Proceed(c, [cycle[c] EXCEPT !.pc = "lease", !.device = d])
    <2> DEFINE x == [cycle[c] EXCEPT !.pc = "lease", !.device = d]
    <2>1. cycle[c] \in Cycle /\ CycleIsSound(cycle[c])
      BY CycleFacts
    <2>2. /\ x \in Cycle /\ x.todo = cycle[c].todo /\ x.pc = "lease" /\ x.device = d
      BY <1>5, <2>1 DEF Cycle
    <2>3. Proceed(c, x)
      BY <1>8
    <2> HIDE DEF x
    <2>4. CycleIsSound(x)
      BY <1>5, <2>1, <2>2 DEF CycleIsSound
    <2>5. QED
      BY <1>2, <1>3, <2>3, <2>4, CycleMoves
  <1>9. QED
    BY <1>4, <1>6, <1>7, <1>8

LEMMA CheckLeaseKeeps ==
  ASSUME StoreInv, PrunerInv, NEW c \in Cycles, CheckLease(c), UNCHANGED workload
  PROVE  StoreInv' /\ Undisturbed /\ PrunerInv'
  <1>1. UNCHANGED storeVars /\ (NoFault \/ Fault) /\ cycle[c].pc = "lease"
    BY DEF CheckLease
  <1>2. StoreInv' /\ Undisturbed
    BY <1>1, FaultsAreCounted, StoreStutters
  <1>3. DevicesAreKept /\ VerdictsAreKept
    BY <1>2 DEF Undisturbed, StoreIsKept
  <1>4. cycle[c].device \in Devices
    BY <1>1, CycleFacts DEF CycleIsSound
  <1>5. \/ Retain(c, cycle[c].device)
        \/ Prune(c, cycle[c].device) /\ tailnet[cycle[c].device].expired
    <2>1. CASE tailnet[cycle[c].device].expired
      BY <2>1 DEF CheckLease
    <2>2. CASE ~tailnet[cycle[c].device].expired
      BY <2>2 DEF CheckLease
    <2>3. QED
      BY <2>1, <2>2
  <1>6. tailnet[cycle[c].device].expired => IsStale(cycle[c].device)
    BY DEF IsStale
  <1>7. QED
    BY <1>2, <1>3, <1>4, <1>5, <1>6, RetainOrPrune

LEMMA RemovalKeeps ==
  ASSUME StoreInv, PrunerInv, NEW c \in Cycles, DeauthorizeNode(c) \/ DeleteDevice(c),
         UNCHANGED workload
  PROVE  StoreInv' /\ Undisturbed /\ PrunerInv'
  <1> DEFINE y == cycle[c]
  <1>1. /\ UNCHANGED <<runs, leases, authKeys>> /\ (NoFault \/ Fault)
        /\ y.pc \in {"deauthorize", "delete"}
        /\ \/ tailnet' = [tailnet EXCEPT ![y.device].authorized = FALSE]
           \/ tailnet' = [tailnet EXCEPT ![y.device].there = FALSE]
           \/ UNCHANGED tailnet
        /\ \/ \E pc \in {"delete", "verify"} : Proceed(c, [y EXCEPT !.pc = pc])
           \/ Proceed(c, NextDevice(y))
    BY DEF DeauthorizeNode, DeleteDevice
  <1>2. faults' \in Nat
    BY <1>1, FaultsAreCounted
  <1>3. y \in Cycle /\ CycleIsSound(y) /\ y.device \in Devices
    BY <1>1, CycleFacts DEF CycleIsSound
  <1>4. StoreInv' /\ Undisturbed
    <2>1. CASE UNCHANGED tailnet
      BY <1>1, <1>2, <2>1, StoreStutters DEF storeVars
    <2>2. CASE \/ tailnet' = [tailnet EXCEPT ![y.device].authorized = FALSE]
               \/ tailnet' = [tailnet EXCEPT ![y.device].there = FALSE]
      BY <1>1, <1>2, <1>3, <2>2, LosingADevice
    <2>3. QED
      BY <1>1, <2>1, <2>2
  <1>5. DevicesAreKept /\ VerdictsAreKept
    BY <1>4 DEF Undisturbed, StoreIsKept
  <1>6. PrunerInv'
    <2>1. ASSUME NEW pc \in {"delete", "verify"}, Proceed(c, [y EXCEPT !.pc = pc])
          PROVE  PrunerInv'
      <3> DEFINE x == [y EXCEPT !.pc = pc]
      <3>1. x \in Cycle /\ x.todo = y.todo /\ x.pc = pc /\ x.device = y.device
        BY <1>3 DEF Cycle
      <3>2. Proceed(c, x)
        BY <2>1
      <3> HIDE DEF x
      <3>3. QED
        BY <1>1, <1>5, <3>1, <3>2, CycleGoesOn
    <2>2. CASE Proceed(c, NextDevice(y))
      <3>1. /\ NextDevice(y) \in Cycle /\ NextDevice(y).todo = y.todo
            /\ NextDevice(y).pc = "devices"
        <4>1. 0 \in 0..MaxDevices
          BY BoundsAssumption
        <4>2. QED
          BY <1>3, <4>1 DEF NextDevice, Cycle
      <3>2. QED
        BY <1>5, <2>2, <3>1, CycleGoesOn
    <2>3. QED
      BY <1>1, <2>1, <2>2
  <1>7. QED
    BY <1>4, <1>6

LEMMA ListDevicesKeeps ==
  ASSUME StoreInv, PrunerInv, NEW c \in Cycles, NEW dryRun \in BOOLEAN,
         ListDevices(c, dryRun), UNCHANGED workload
  PROVE  StoreInv' /\ Undisturbed /\ PrunerInv'
  <1>1. UNCHANGED storeVars /\ (NoFault \/ Fault)
    BY DEF ListDevices
  <1>2. StoreInv' /\ Undisturbed
    BY <1>1, FaultsAreCounted, StoreStutters
  <1>3. DevicesAreKept /\ VerdictsAreKept
    BY <1>2 DEF Undisturbed, StoreIsKept
  <1>4. \A d \in Devices : d \in 1..MaxDevices
    BY RowFacts
  <1>5. ASSUME NEW T \in SUBSET Devices, NEW A \in SUBSET Devices
        PROVE  LET x == [NoCycle EXCEPT !.pc = "devices", !.dryRun = dryRun,
                                        !.todo = T, !.wasAuthorized = A]
               IN  x \in Cycle /\ x.todo = T /\ x.pc = "devices"
    <2>1. T \in SUBSET (1..MaxDevices) /\ A \in SUBSET (1..MaxDevices)
          /\ 0 \in 0..MaxDevices
      BY <1>4, BoundsAssumption
    <2>2. QED
      BY <2>1 DEF NoCycle, Cycle
  <1>6. ASSUME NEW x, Proceed(c, x), x \in Cycle, x.todo \subseteq Devices,
               x.pc = "devices"
        PROVE  PrunerInv'
    BY <1>3, <1>6, CycleMoves DEF CycleIsSound
  <1>7. CASE Proceed(c, [NoCycle EXCEPT !.pc = "devices", !.dryRun = dryRun,
               !.todo = {d \in Devices : tailnet[d].there},
               !.wasAuthorized =
                 {d \in Devices : tailnet[d].there /\ tailnet[d].authorized}])
    <2> DEFINE T == {d \in Devices : tailnet[d].there}
               A == {d \in Devices : tailnet[d].there /\ tailnet[d].authorized}
               x == [NoCycle EXCEPT !.pc = "devices", !.dryRun = dryRun,
                                    !.todo = T, !.wasAuthorized = A]
    <2>1. T \in SUBSET Devices /\ A \in SUBSET Devices
      OBVIOUS
    <2>2. Proceed(c, x)
      BY <1>7
    <2> HIDE DEF T, A
    <2>3. x \in Cycle /\ x.todo = T /\ x.pc = "devices"
      BY <1>5, <2>1, ZenonT(60)
    <2> HIDE DEF x
    <2>4. QED
      BY <1>2, <1>6, <2>1, <2>2, <2>3
  <1>8. CASE Proceed(c, [NoCycle EXCEPT !.pc = "devices", !.dryRun = dryRun])
    <2> DEFINE x == [NoCycle EXCEPT !.pc = "devices", !.dryRun = dryRun]
    <2>1. x \in Cycle /\ x.todo = {} /\ x.pc = "devices"
      <3>1. 0 \in 0..MaxDevices
        BY BoundsAssumption
      <3>2. QED
        BY <3>1 DEF NoCycle, Cycle
    <2>2. Proceed(c, x)
      BY <1>8
    <2> HIDE DEF x
    <2>3. QED
      BY <1>2, <1>6, <2>1, <2>2
  <1>9. QED
    BY <1>7, <1>8 DEF ListDevices

LEMMA KeysAndEndKeep ==
  ASSUME StoreInv, PrunerInv, NEW c \in Cycles, UNCHANGED workload,
         \/ VerifyAbsence(c) \/ FinishDevices(c) \/ ListKeys(c)
         \/ DeleteAuthKey(c) \/ FinishKeys(c) \/ Audit(c)
  PROVE  StoreInv' /\ Undisturbed /\ PrunerInv'
  <1> DEFINE y == cycle[c]
  <1>1. y \in Cycle /\ 0 \in 0..MaxDevices
    BY CycleFacts, BoundsAssumption
  <1>2. /\ UNCHANGED <<runs, leases, tailnet>>
        /\ NoFault \/ Fault
        /\ UNCHANGED authKeys \/ \E r \in RunIds : authKeys' = [authKeys EXCEPT ![r] = "deleted"]
    <2>1. CASE DeleteAuthKey(c)
      <3>1. \A r \in y.staleKeys : r \in RunIds
        BY <1>1 DEF Cycle
      <3>2. QED
        BY <2>1, <3>1 DEF DeleteAuthKey
    <2>2. CASE \/ VerifyAbsence(c) \/ FinishDevices(c) \/ ListKeys(c)
               \/ FinishKeys(c) \/ Audit(c)
      BY <2>2 DEF VerifyAbsence, FinishDevices, ListKeys, FinishKeys, Audit, storeVars
    <2>3. QED
      BY <2>1, <2>2
  <1>3. authKeys' \in [RunIds -> {"none", "fresh", "old", "spent", "deleted"}]
    BY <1>2 DEF StoreInv, StoreTypeOK
  <1>4. StoreInv' /\ Undisturbed
    <2>1. faults' \in Nat
      BY <1>2, FaultsAreCounted
    <2>2. leases' \in [RunIds -> {"none", "active", "lapsed"}] /\ LeasesAreKept
      BY <1>2 DEF StoreInv, StoreTypeOK, LeasesAreKept
    <2>3. QED
      BY <1>2, <1>3, <2>1, <2>2, LeasesAndKeys
  <1>5. DevicesAreKept /\ VerdictsAreKept
    BY <1>4 DEF Undisturbed, StoreIsKept
  <1>6. ASSUME NEW x, Proceed(c, x), x \in Cycle, x.todo \subseteq y.todo,
               x.pc \in {"idle", "devices", "listKeys", "keys", "audit"}
        PROVE  PrunerInv'
    BY <1>5, <1>6, CycleGoesOn
  <1>7. CASE VerifyAbsence(c)
    <2>1. Proceed(c, NextDevice(y))
      BY <1>7 DEF VerifyAbsence
    <2>2. /\ NextDevice(y) \in Cycle /\ NextDevice(y).todo = y.todo
          /\ NextDevice(y).pc = "devices"
      BY <1>1 DEF NextDevice, Cycle
    <2>3. QED
      BY <1>4, <1>6, <2>1, <2>2
  <1>8. ASSUME NEW pc \in {"listKeys", "audit"}, Proceed(c, [y EXCEPT !.pc = pc])
        PROVE  PrunerInv'
    <2> DEFINE x == [y EXCEPT !.pc = pc]
    <2>1. x \in Cycle /\ x.todo = y.todo /\ x.pc = pc /\ Proceed(c, x)
      BY <1>1, <1>8 DEF Cycle
    <2> HIDE DEF x
    <2>2. QED
      BY <1>6, <2>1
  <1>9. CASE FinishDevices(c) \/ FinishKeys(c)
    BY <1>4, <1>8, <1>9 DEF FinishDevices, FinishKeys
  <1>10. CASE ListKeys(c)
    <2>1. CASE Proceed(c, [y EXCEPT !.pc = "audit"])
      BY <1>4, <1>8, <2>1
    <2>2. CASE Proceed(c, [y EXCEPT !.pc = "keys",
                 !.staleKeys = {r \in RunIds : authKeys[r] \in {"old", "spent"}}])
      <3> DEFINE S == {r \in RunIds : authKeys[r] \in {"old", "spent"}}
                 x == [y EXCEPT !.pc = "keys", !.staleKeys = S]
      <3>0. S \in SUBSET RunIds
        OBVIOUS
      <3> HIDE DEF S
      <3>1. x \in Cycle /\ x.todo = y.todo /\ x.pc = "keys" /\ Proceed(c, x)
        <4>1. [y EXCEPT !.pc = "keys", !.staleKeys = S] \in Cycle
          BY <1>1, <3>0 DEF Cycle
        <4>2. x.todo = y.todo /\ x.pc = "keys"
          BY <1>1 DEF Cycle
        <4>3. QED
          BY <2>2, <4>1, <4>2 DEF S
      <3> HIDE DEF x
      <3>2. QED
        BY <1>4, <1>6, <3>1
    <2>3. QED
      BY <1>10, <2>1, <2>2 DEF ListKeys
  <1>11. CASE DeleteAuthKey(c)
    <2>1. PICK r \in y.staleKeys : Proceed(c, [y EXCEPT !.staleKeys = @ \ {r}])
                                    /\ y.pc = "keys"
      BY <1>11 DEF DeleteAuthKey
    <2> DEFINE x == [y EXCEPT !.staleKeys = @ \ {r}]
    <2>2. x \in Cycle /\ x.todo = y.todo /\ x.pc = "keys" /\ Proceed(c, x)
      <3>1. y.staleKeys \ {r} \in SUBSET RunIds
        BY <1>1 DEF Cycle
      <3>2. QED
        BY <1>1, <2>1, <3>1 DEF Cycle
    <2> HIDE DEF x
    <2>3. QED
      BY <1>4, <1>6, <2>2
  <1>12. CASE Audit(c)
    <2>1. Proceed(c, NoCycle)
      BY <1>12 DEF Audit
    <2>2. NoCycle \in Cycle /\ NoCycle.todo = {} /\ NoCycle.pc = "idle"
      BY <1>1 DEF NoCycle, Cycle
    <2>3. QED
      BY <1>4, <1>6, <2>1, <2>2
  <1>13. QED
    BY <1>7, <1>9, <1>10, <1>11, <1>12

LEMMA PrunerNextKeeps ==
  ASSUME StoreInv, PrunerInv, PrunerNext, UNCHANGED workload
  PROVE  StoreInv' /\ Undisturbed /\ PrunerInv'
  BY JudgeKeeps, CheckLeaseKeeps, RemovalKeeps, ListDevicesKeeps, KeysAndEndKeep
     DEF PrunerNext, PrunerStep

-----------------------------------------------------------------------------
(* Admission *)

\* No two requests have one key; the runs without one and the live runner's are many.
KeysAreUnique ==
  \A r, s \in Rows :
    runs[r].key = runs[s].key /\ runs[r].key \notin {NoKey, LiveKey} => r = s

\* A request has been checked, and one that has a run has that of its key.
RequestIsSound(x) ==
  /\ x \in Admission
  /\ x.pc \in {"lease", "answered"} => x.run \in Rows /\ runs[x.run].key = x.key
  /\ x.pc \notin {"idle", "rejected"} =>
       verifyAdmissionRequest(x.draft) /\ x.draft.wellFormed
  /\ x.pc = "rejected" => ~(verifyAdmissionRequest(x.draft) /\ x.draft.wellFormed)

AdmissionInv ==
  /\ AdmissionTypeOK
  /\ KeysAreUnique
  /\ \A a \in Admissions : RequestIsSound(admission[a])
  /\ UnleasedRunIsExplained

LEMMA AdmissionInitially == StoreInit /\ AdmissionInit => AdmissionInv
  <1> SUFFICES ASSUME StoreInit, AdmissionInit  PROVE AdmissionInv
    OBVIOUS
  <1>1. Rows = {}
    BY DEF StoreInit, Rows
  <1>2. NoRequest \in Admission /\ NoRequest.pc = "idle"
    BY BoundsAssumption DEF NoRequest, Admission, GoodDraft, Draft, Contents
  <1>3. admission \in [Admissions -> Admission]
        /\ \A a \in Admissions : admission[a] = NoRequest
    BY <1>2 DEF AdmissionInit
  <1>4. cutShort = {}
    BY DEF AdmissionInit
  <1>5. AdmissionTypeOK
    BY <1>3, <1>4 DEF AdmissionTypeOK
  <1>6. ASSUME NEW a \in Admissions  PROVE RequestIsSound(admission[a])
    BY <1>2, <1>3 DEF RequestIsSound
  <1>7. KeysAreUnique /\ UnleasedRunIsExplained
    BY <1>1 DEF KeysAreUnique, UnleasedRunIsExplained
  <1>8. QED
    BY <1>5, <1>6, <1>7 DEF AdmissionInv

\* A row keeps its number and its key.
LEMMA RowsStay ==
  ASSUME StoreInv, KeysAreKept
  PROVE  \A r \in Rows : r \in Rows' /\ runs'[r].key = runs[r].key
  <1>1. Len(runs) \in Nat /\ Len(runs) <= Len(runs')
    BY RowFacts DEF KeysAreKept
  <1>2. ASSUME NEW r \in Rows  PROVE r \in Rows'
    BY <1>1 DEF Rows
  <1>3. QED
    BY <1>2 DEF KeysAreKept

LEMMA RequestsStaySound ==
  ASSUME StoreInv, AdmissionInv, KeysAreKept, NEW b \in Admissions,
         admission'[b] = admission[b]
  PROVE  RequestIsSound(admission[b])'
  <1> DEFINE y == admission[b]
  <1>1. RequestIsSound(y)
    BY DEF AdmissionInv
  <1>2. y.pc \in {"lease", "answered"} => y.run \in Rows' /\ runs'[y.run].key = y.key
    BY <1>1, RowsStay DEF RequestIsSound
  <1>3. QED
    BY <1>1, <1>2 DEF RequestIsSound

LEMMA AdmissionRests ==
  ASSUME StoreInv, AdmissionInv, UNCHANGED admissionVars, KeysAreKept, LeasesAreKept,
         Len(runs') = Len(runs)
  PROVE  AdmissionInv'
  <1>1. Rows' = Rows /\ UNCHANGED <<admission, cutShort>>
    BY DEF Rows, admissionVars
  <1>2. \A r \in Rows : r \in RunIds
    BY RowFacts
  <1>3. KeysAreUnique'
    BY <1>1 DEF AdmissionInv, KeysAreUnique, KeysAreKept
  <1>4. UnleasedRunIsExplained'
    BY <1>1, <1>2, RowsStay DEF AdmissionInv, UnleasedRunIsExplained, LeasesAreKept
  <1>5. \A b \in Admissions : RequestIsSound(admission[b])'
    BY <1>1, RequestsStaySound
  <1>6. QED
    BY <1>1, <1>3, <1>4, <1>5 DEF AdmissionInv, AdmissionTypeOK

\* One request moves.  A run that still has no lease had none before, and was
\* not the one this request was about to lease; or it is accounted for.
LEMMA RequestMoves ==
  ASSUME StoreInv, AdmissionInv, NEW a \in Admissions, NEW x,
         admission' = [admission EXCEPT ![a] = x],
         KeysAreKept, KeysAreUnique',
         x \in Admission,
         x.pc \in {"lease", "answered"} => x.run \in Rows' /\ runs'[x.run].key = x.key,
         x.pc \notin {"idle", "rejected"} =>
           verifyAdmissionRequest(x.draft) /\ x.draft.wellFormed,
         x.pc = "rejected" => ~(verifyAdmissionRequest(x.draft) /\ x.draft.wellFormed),
         cutShort \subseteq cutShort', cutShort' \subseteq RunIds,
         \A r \in Rows' : leases'[r] = "none" =>
           \/ r \in cutShort'
           \/ x.pc = "lease" /\ x.run = r
           \/ /\ r \in Rows /\ leases[r] = "none"
              /\ ~(admission[a].pc = "lease" /\ admission[a].run = r)
  PROVE  AdmissionInv'
  <1>1. admission \in [Admissions -> Admission]
    BY DEF AdmissionInv, AdmissionTypeOK
  <1>2. /\ admission' \in [Admissions -> Admission] /\ admission'[a] = x
        /\ \A b \in Admissions : b # a => admission'[b] = admission[b]
    BY <1>1
  <1>3. ASSUME NEW b \in Admissions  PROVE RequestIsSound(admission[b])'
    <2>1. CASE b = a
      BY <1>2, <2>1 DEF RequestIsSound
    <2>2. CASE b # a
      BY <1>2, <2>2, RequestsStaySound
    <2>3. QED
      BY <2>1, <2>2
  <1>4. ASSUME NEW r \in Rows', leases'[r] = "none"
        PROVE  \/ runs'[r].key = LiveKey
               \/ r \in cutShort'
               \/ \E b \in Admissions : admission'[b].pc = "lease" /\ admission'[b].run = r
    <2>1. CASE r \in cutShort'
      BY <2>1
    <2>2. CASE x.pc = "lease" /\ x.run = r
      BY <1>2, <2>2
    <2>3. CASE /\ r \in Rows /\ leases[r] = "none"
               /\ ~(admission[a].pc = "lease" /\ admission[a].run = r)
      <3>1. CASE r \in cutShort
        BY <3>1
      <3>2. CASE \E b \in Admissions : admission[b].pc = "lease" /\ admission[b].run = r
        BY <1>2, <2>3, <3>2
      <3>3. CASE runs[r].key = LiveKey
        BY <2>3, <3>3, RowsStay
      <3>4. QED
        BY <2>3, <3>1, <3>2, <3>3 DEF AdmissionInv, UnleasedRunIsExplained
    <2>4. QED
      BY <1>4, <2>1, <2>2, <2>3
  <1>5. UnleasedRunIsExplained'
    BY <1>4 DEF UnleasedRunIsExplained
  <1>6. QED
    BY <1>2, <1>3, <1>5 DEF AdmissionInv, AdmissionTypeOK

\* A request moves on with what it has; no table changes.
LEMMA RequestGoesOn ==
  ASSUME StoreInv, AdmissionInv, NEW a \in Admissions, NEW x,
         admission' = [admission EXCEPT ![a] = x],
         UNCHANGED <<runs, leases, cutShort>>,
         x \in Admission, admission[a].pc # "lease",
         x.pc = "answered" => x.run \in Rows /\ runs[x.run].key = x.key,
         x.pc # "lease",
         x.pc \notin {"idle", "rejected"} =>
           verifyAdmissionRequest(x.draft) /\ x.draft.wellFormed,
         x.pc = "rejected" => ~(verifyAdmissionRequest(x.draft) /\ x.draft.wellFormed)
  PROVE  AdmissionInv'
  <1>1. Rows' = Rows
    BY DEF Rows
  <1>2. KeysAreKept /\ KeysAreUnique'
    BY <1>1, RowFacts DEF KeysAreKept, AdmissionInv, KeysAreUnique
  <1>3. cutShort \subseteq cutShort' /\ cutShort' \subseteq RunIds
    BY DEF AdmissionInv, AdmissionTypeOK
  <1>4. x.pc \in {"lease", "answered"} => x.run \in Rows' /\ runs'[x.run].key = x.key
    BY <1>1
  <1>5. \A r \in Rows' : leases'[r] = "none" =>
          /\ r \in Rows /\ leases[r] = "none"
          /\ ~(admission[a].pc = "lease" /\ admission[a].run = r)
    BY <1>1
  <1>6. QED
    BY <1>2, <1>3, <1>4, <1>5, RequestMoves

LEMMA RequestFacts ==
  ASSUME AdmissionInv, NEW a \in Admissions
  PROVE  /\ admission[a] \in Admission /\ RequestIsSound(admission[a])
         /\ admission \in [Admissions -> Admission]
         /\ cutShort \subseteq RunIds
         /\ admission[a].key \in Keys \cup {NoKey}
         /\ admission[a].run \in 0..MaxRuns
  BY DEF AdmissionInv, AdmissionTypeOK, Admission

\* A request that only changes its place is the one it was.
LEMMA MovingKeeps ==
  ASSUME StoreInv, AdmissionInv, NEW a \in Admissions, NEW pc \in {"create", "failed"},
         Move(a, pc), admission[a].pc \in {"find", "create"},
         UNCHANGED <<runs, leases, cutShort>>
  PROVE  AdmissionInv'
  <1> DEFINE y == admission[a]
             x == [y EXCEPT !.pc = pc]
  <1>1. y \in Admission /\ RequestIsSound(y) /\ admission \in [Admissions -> Admission]
    BY RequestFacts
  <1>2. x \in Admission /\ x.pc = pc /\ x.draft = y.draft
    BY <1>1 DEF Admission
  <1>3. admission' = [admission EXCEPT ![a] = x]
    BY <1>1 DEF Move
  <1>4. verifyAdmissionRequest(y.draft) /\ y.draft.wellFormed
    BY <1>1 DEF RequestIsSound
  <1> HIDE DEF x, y
  <1>5. QED
    BY <1>2, <1>3, <1>4, RequestGoesOn DEF y

LEMMA SubmitKeeps ==
  ASSUME StoreInv, AdmissionInv, NEW a \in Admissions, NEW k \in KeysOf[a],
         NEW d \in Draft, Submit(a, k, d)
  PROVE  AdmissionInv'
  <1> DEFINE good == verifyAdmissionRequest(d) /\ d.wellFormed
             pc == IF good THEN "find" ELSE "rejected"
             x == [pc |-> pc, key |-> k, draft |-> d, run |-> 0]
  <1>1. /\ admission[a].pc = "idle" /\ UNCHANGED <<runs, leases, cutShort>>
        /\ admission' = [admission EXCEPT ![a] = x]
    BY DEF Submit, storeVars
  <1>2. k \in Keys \cup {NoKey}
    BY KeysOfAssumption
  <1>3. x.pc = pc /\ x.draft = d
    OBVIOUS
  <1>4. pc \in {"find", "rejected"} /\ (pc = "find" <=> good)
    OBVIOUS
  <1>5. x \in Admission
    <2>1. 0 \in 0..MaxRuns
      BY BoundsAssumption
    <2> HIDE DEF pc
    <2>2. QED
      BY <1>2, <1>4, <2>1 DEF Admission
  <1> HIDE DEF x, pc
  <1>6. QED
    BY <1>1, <1>3, <1>4, <1>5, RequestGoesOn

LEMMA RetryKeeps ==
  ASSUME StoreInv, AdmissionInv, NEW a \in Admissions, Retry(a)
  PROVE  AdmissionInv'
  <1> DEFINE y == admission[a]
             x == [y EXCEPT !.pc = "find", !.run = 0]
  <1>1. y \in Admission /\ RequestIsSound(y) /\ admission \in [Admissions -> Admission]
    BY RequestFacts
  <1>2. x \in Admission /\ x.pc = "find" /\ x.draft = y.draft
    <2>1. 0 \in 0..MaxRuns
      BY BoundsAssumption
    <2>2. QED
      BY <1>1, <2>1 DEF Admission
  <1>3. admission' = [admission EXCEPT ![a] = x] /\ y.pc = "failed"
        /\ UNCHANGED <<runs, leases, cutShort>>
    BY <1>1 DEF Retry, storeVars
  <1>4. verifyAdmissionRequest(y.draft) /\ y.draft.wellFormed
    BY <1>1, <1>3 DEF RequestIsSound
  <1> HIDE DEF x, y
  <1>5. QED
    BY <1>2, <1>3, <1>4, RequestGoesOn DEF y

LEMMA FindKeeps ==
  ASSUME StoreInv, AdmissionInv, NEW a \in Admissions, FindByIdempotencyKey(a)
  PROVE  AdmissionInv'
  <1> DEFINE y == admission[a]
  <1>1. y \in Admission /\ RequestIsSound(y) /\ admission \in [Admissions -> Admission]
    BY RequestFacts
  <1>2. y.pc = "find" /\ UNCHANGED <<runs, leases, cutShort>>
    BY DEF FindByIdempotencyKey, storeVars
  <1>3. CASE Move(a, "create") \/ Move(a, "failed")
    BY <1>2, <1>3, MovingKeeps
  <1>4. ASSUME NEW r \in Rows, HasKey(r, y.key),
               admission' = [admission EXCEPT ![a].pc = "answered", ![a].run = r]
        PROVE  AdmissionInv'
    <2> DEFINE x == [y EXCEPT !.pc = "answered", !.run = r]
    <2>1. r \in 0..MaxRuns
      BY RowFacts, BoundsAssumption DEF RunIds
    <2>2. x \in Admission /\ x.pc = "answered" /\ x.draft = y.draft /\ x.run = r
          /\ x.key = y.key
      BY <1>1, <2>1 DEF Admission
    <2>3. admission' = [admission EXCEPT ![a] = x]
      BY <1>1, <1>4
    <2>4. verifyAdmissionRequest(y.draft) /\ y.draft.wellFormed
      BY <1>1, <1>2 DEF RequestIsSound
    <2>5. runs[r].key = y.key
      BY <1>4 DEF HasKey
    <2> HIDE DEF x
    <2>6. QED
      BY <1>2, <2>2, <2>3, <2>4, <2>5, RequestGoesOn
  <1>5. QED
    BY <1>3, <1>4 DEF FindByIdempotencyKey

\* The row an insert adds, and what it leaves of the others.
LEMMA InsertedRun ==
  ASSUME StoreInv, AdmissionInv, NEW k \in Keys \cup {NoKey, LiveKey},
         Len(runs) < MaxRuns, runs' = Append(runs, CreatedRun(k)),
         UNCHANGED <<leases, tailnet, authKeys>>, k = LiveKey \/ KeyIsUnused(k),
         UNCHANGED workload, faults' \in Nat
  PROVE  /\ StoreInv' /\ StoreIsKept /\ NoneIsStranded
         /\ KeysAreUnique'
         /\ Len(runs) + 1 \in RunIds
         /\ Rows' = Rows \cup {Len(runs) + 1}
         /\ runs'[Len(runs) + 1].key = k
         /\ \A r \in Rows : runs'[r] = runs[r]
  <1> DEFINE n == Len(runs) + 1
  <1>1. runs \in Seq(Run) /\ Len(runs) \in Nat
    BY RowFacts DEF StoreInv, StoreTypeOK
  <1>2. StoreInv' /\ StoreIsKept /\ NoneIsStranded
    BY InsertKeeps
  <1>3. CreatedRun(k) \in Run /\ CreatedRun(k).key = k
    BY BoundsAssumption DEF CreatedRun, Run, Phase
  <1>4. /\ Len(runs') = n /\ \A s \in Rows : runs'[s] = runs[s]
        /\ runs'[n] = CreatedRun(k)
    BY <1>1, <1>3, AppendProperties DEF Rows
  <1>5. Rows' = Rows \cup {n}
    BY <1>1, <1>4 DEF Rows
  <1>6. n \in RunIds
    BY <1>1, BoundsAssumption DEF RunIds
  <1>7. KeysAreUnique'
    <2> SUFFICES ASSUME NEW r \in Rows', NEW s \in Rows',
                        runs'[r].key = runs'[s].key,
                        runs'[r].key \notin {NoKey, LiveKey}
                 PROVE  r = s
      BY DEF KeysAreUnique
    <2>1. k \in {NoKey, LiveKey} \/ \A q \in Rows : runs[q].key # k
      BY DEF KeyIsUnused, HasKey
    <2> HIDE DEF n
    <2>2. CASE r \in Rows /\ s \in Rows
      BY <1>4, <2>2 DEF AdmissionInv, KeysAreUnique
    <2>3. CASE r = n \/ s = n
      BY <1>3, <1>4, <1>5, <2>1, <2>3
    <2>4. QED
      BY <1>5, <2>2, <2>3
  <1>8. QED
    BY <1>2, <1>3, <1>4, <1>5, <1>6, <1>7

LEMMA InsertFacts ==
  ASSUME StoreInv, AdmissionInv, NEW a \in Admissions, InsertRun(a),
         UNCHANGED workload, faults' \in Nat
  PROVE  /\ StoreInv' /\ StoreIsKept /\ NoneIsStranded
         /\ KeysAreUnique'
         /\ Len(runs) + 1 \in RunIds
         /\ Rows' = Rows \cup {Len(runs) + 1}
         /\ runs'[Len(runs) + 1].key = admission[a].key
         /\ \A r \in Rows : runs'[r] = runs[r]
         /\ leases' = leases
  <1>1. PICK k \in Keys \cup {NoKey, LiveKey} : k = admission[a].key
    BY RequestFacts
  <1>2. /\ runs' = Append(runs, CreatedRun(k)) /\ Len(runs) < MaxRuns
        /\ UNCHANGED <<leases, tailnet, authKeys>> /\ KeyIsUnused(k)
    BY <1>1 DEF InsertRun
  <1>3. QED
    BY <1>1, <1>2, InsertedRun

\* A run of the live runner has no lease, and is known by its key.
LEMMA LaunchKeeps ==
  ASSUME StoreInv, AdmissionInv, LaunchLiveRun, UNCHANGED workload
  PROVE  StoreInv' /\ StoreIsKept /\ NoneIsStranded /\ AdmissionInv'
  <1> DEFINE n == Len(runs) + 1
  <1>1. /\ runs' = Append(runs, CreatedRun(LiveKey)) /\ Len(runs) < MaxRuns
        /\ UNCHANGED <<leases, tailnet, authKeys, admission, cutShort>>
        /\ faults' \in Nat
    BY FaultsAreCounted DEF LaunchLiveRun
  <1>2. /\ StoreInv' /\ StoreIsKept /\ NoneIsStranded /\ KeysAreUnique'
        /\ Rows' = Rows \cup {n} /\ runs'[n].key = LiveKey
        /\ \A r \in Rows : runs'[r] = runs[r]
    BY <1>1, InsertedRun
  <1> HIDE DEF n
  <1>3. \A a \in Admissions : RequestIsSound(admission[a])'
    BY <1>1, <1>2, RequestsStaySound DEF StoreIsKept
  <1>4. UnleasedRunIsExplained'
    BY <1>1, <1>2 DEF AdmissionInv, UnleasedRunIsExplained
  <1>5. QED
    BY <1>1, <1>2, <1>3, <1>4 DEF AdmissionInv, AdmissionTypeOK

LEMMA CreateKeeps ==
  ASSUME StoreInv, AdmissionInv, NEW a \in Admissions, CreateRun(a), UNCHANGED workload
  PROVE  StoreInv' /\ StoreIsKept /\ NoneIsStranded /\ AdmissionInv'
  <1> DEFINE y == admission[a]
             n == Len(runs) + 1
  <1>1. /\ y \in Admission /\ RequestIsSound(y)
        /\ admission \in [Admissions -> Admission] /\ cutShort \subseteq RunIds
    BY RequestFacts
  <1>2. y.pc = "create" /\ faults' \in Nat
    BY FaultsAreCounted DEF CreateRun
  <1>3. verifyAdmissionRequest(y.draft) /\ y.draft.wellFormed
    BY <1>1, <1>2 DEF RequestIsSound
  <1>4. CASE Move(a, "failed") /\ UNCHANGED <<storeVars, cutShort>>
    <2>1. StoreInv' /\ Undisturbed
      BY <1>2, <1>4, StoreStutters
    <2>2. UNCHANGED <<runs, leases, cutShort>>
      BY <1>4 DEF storeVars
    <2>3. QED
      BY <1>2, <1>4, <2>1, <2>2, MovingKeeps DEF Undisturbed
  <1>5. ASSUME InsertRun(a), NEW x, x \in Admission, x.draft = y.draft, x.key = y.key,
               admission' = [admission EXCEPT ![a] = x],
               \/ x.pc = "lease" /\ x.run = n /\ UNCHANGED cutShort
               \/ x.pc = "failed" /\ cutShort' = cutShort \cup {n}
        PROVE  StoreInv' /\ StoreIsKept /\ NoneIsStranded /\ AdmissionInv'
    <2>1. /\ StoreInv' /\ StoreIsKept /\ NoneIsStranded
          /\ KeysAreUnique' /\ n \in RunIds /\ Rows' = Rows \cup {n}
          /\ runs'[n].key = y.key /\ leases' = leases
      BY <1>2, <1>5, InsertFacts
    <2> HIDE DEF n, y
    <2>2. KeysAreKept
      BY <2>1 DEF StoreIsKept
    <2>3. x.pc \in {"lease", "answered"} => x.run \in Rows' /\ runs'[x.run].key = x.key
      BY <1>5, <2>1
    <2>4. cutShort \subseteq cutShort' /\ cutShort' \subseteq RunIds
      BY <1>1, <1>5, <2>1
    <2>5. \A r \in Rows' : leases'[r] = "none" =>
            \/ r \in cutShort'
            \/ x.pc = "lease" /\ x.run = r
            \/ /\ r \in Rows /\ leases[r] = "none"
               /\ ~(admission[a].pc = "lease" /\ admission[a].run = r)
      BY <1>2, <1>5, <2>1 DEF y
    <2>6. AdmissionInv'
      BY <1>3, <1>5, <2>1, <2>2, <2>3, <2>4, <2>5, RequestMoves
    <2>7. QED
      BY <2>1, <2>6
  <1>6. CASE /\ InsertRun(a) /\ UNCHANGED cutShort
             /\ admission' = [admission EXCEPT ![a].pc = "lease", ![a].run = n]
    <2> DEFINE x == [y EXCEPT !.pc = "lease", !.run = n]
    <2>1. n \in 0..MaxRuns
      BY <1>2, <1>6, InsertFacts, BoundsAssumption DEF RunIds
    <2>2. /\ x \in Admission /\ x.draft = y.draft /\ x.key = y.key
          /\ x.pc = "lease" /\ x.run = n
      BY <1>1, <2>1 DEF Admission
    <2>3. admission' = [admission EXCEPT ![a] = x]
      BY <1>1, <1>6
    <2> HIDE DEF x
    <2>4. QED
      BY <1>5, <1>6, <2>2, <2>3
  <1>7. CASE Move(a, "failed") /\ InsertRun(a) /\ cutShort' = cutShort \cup {n}
    <2> DEFINE x == [y EXCEPT !.pc = "failed"]
    <2>1. /\ x \in Admission /\ x.draft = y.draft /\ x.key = y.key /\ x.pc = "failed"
      BY <1>1 DEF Admission
    <2>2. admission' = [admission EXCEPT ![a] = x]
      BY <1>1, <1>7 DEF Move
    <2> HIDE DEF x
    <2>3. QED
      BY <1>5, <1>7, <2>1, <2>2
  <1>8. QED
    BY <1>4, <1>6, <1>7 DEF CreateRun

LEMMA LeaseKeeps ==
  ASSUME StoreInv, AdmissionInv, NEW a \in Admissions, AcquireLease(a),
         UNCHANGED workload
  PROVE  StoreInv' /\ Undisturbed /\ AdmissionInv'
  <1> DEFINE y == admission[a]
  <1>1. /\ y \in Admission /\ RequestIsSound(y)
        /\ admission \in [Admissions -> Admission] /\ cutShort \subseteq RunIds
    BY RequestFacts
  <1>2. /\ y.pc = "lease" /\ (NoFault \/ Fault)
        /\ UNCHANGED <<runs, tailnet, authKeys>>
        /\ leases' \in {leases, [leases EXCEPT ![y.run] = "active"]}
        /\ \/ /\ Move(a, "answered") /\ UNCHANGED cutShort
              /\ leases' = [leases EXCEPT ![y.run] = "active"]
           \/ Move(a, "failed") /\ cutShort' = cutShort \cup {y.run}
    BY DEF AcquireLease
  <1>3. /\ y.run \in Rows /\ runs[y.run].key = y.key /\ y.run \in RunIds
        /\ verifyAdmissionRequest(y.draft) /\ y.draft.wellFormed
    BY <1>1, <1>2, RowFacts DEF RequestIsSound
  <1>4. /\ leases' \in [RunIds -> {"none", "active", "lapsed"}]
        /\ LeasesAreKept /\ faults' \in Nat
    BY <1>2, <1>3, FaultsAreCounted DEF StoreInv, StoreTypeOK, LeasesAreKept
  <1>5. StoreInv' /\ Undisturbed
    BY <1>2, <1>4, LeasesAndKeys DEF StoreInv, StoreTypeOK
  <1>6. Rows' = Rows /\ \A r \in Rows : r \in RunIds
    BY <1>2, RowFacts DEF Rows
  <1>7. KeysAreKept /\ KeysAreUnique'
    BY <1>2, <1>5, <1>6 DEF Undisturbed, StoreIsKept, AdmissionInv, KeysAreUnique
  <1>8. cutShort \subseteq cutShort' /\ cutShort' \subseteq RunIds
    BY <1>1, <1>2, <1>3
  <1>9. \A r \in Rows' : leases'[r] = "none" =>
          \/ r \in cutShort'
          \/ r \in Rows /\ leases[r] = "none" /\ ~(y.pc = "lease" /\ y.run = r)
    <2> SUFFICES ASSUME NEW r \in Rows, leases'[r] = "none"
                 PROVE  r \in cutShort' \/ (leases[r] = "none" /\ y.run # r)
      BY <1>6
    <2>1. leases[r] = "none"
      BY <1>4, <1>6 DEF LeasesAreKept
    <2>2. CASE y.run = r
      <3>1. leases' # [leases EXCEPT ![y.run] = "active"]
        BY <1>3, <2>2 DEF StoreInv, StoreTypeOK
      <3>2. QED
        BY <1>2, <2>2, <3>1
    <2>3. QED
      BY <2>1, <2>2
  <1>10. ASSUME NEW pc \in {"answered", "failed"}, Move(a, pc)
         PROVE  AdmissionInv'
    <2> DEFINE x == [y EXCEPT !.pc = pc]
    <2>1. /\ x \in Admission /\ x.pc = pc /\ x.draft = y.draft /\ x.key = y.key
          /\ x.run = y.run
      BY <1>1 DEF Admission
    <2>2. admission' = [admission EXCEPT ![a] = x]
      BY <1>1, <1>10 DEF Move
    <2> HIDE DEF x
    <2>3. x.pc \in {"lease", "answered"} => x.run \in Rows' /\ runs'[x.run].key = x.key
      BY <1>2, <1>3, <1>6, <2>1
    <2>4. QED
      BY <1>3, <1>7, <1>8, <1>9, <2>1, <2>2, <2>3, RequestMoves
  <1>11. QED
    BY <1>2, <1>5, <1>10

LEMMA AdmissionStep ==
  ASSUME StoreInv, AdmissionInv, AdmissionNext, UNCHANGED workload
  PROVE  StoreInv' /\ StoreIsKept /\ NoneIsStranded /\ AdmissionInv'
  <1> SUFFICES ASSUME ~LaunchLiveRun
               PROVE  StoreInv' /\ StoreIsKept /\ NoneIsStranded /\ AdmissionInv'
    BY LaunchKeeps
  <1>1. PICK a \in Admissions :
          \/ \E k \in KeysOf[a], d \in Draft : Submit(a, k, d)
          \/ FindByIdempotencyKey(a) \/ CreateRun(a) \/ AcquireLease(a) \/ Retry(a)
    BY Zenon DEF AdmissionNext
  <1>2. CASE \/ \E k \in KeysOf[a], d \in Draft : Submit(a, k, d)
             \/ FindByIdempotencyKey(a) \/ Retry(a)
    <2>1. UNCHANGED storeVars /\ (NoFault \/ Fault)
      BY <1>2 DEF Submit, FindByIdempotencyKey, Retry
    <2>2. StoreInv' /\ Undisturbed
      BY <2>1, FaultsAreCounted, StoreStutters
    <2>3. AdmissionInv'
      BY <1>2, SubmitKeeps, FindKeeps, RetryKeeps
    <2>4. QED
      BY <2>2, <2>3 DEF Undisturbed
  <1>3. QED
    BY <1>1, <1>2, CreateKeeps, LeaseKeeps DEF Undisturbed

LEMMA AdmissionCrashes ==
  ASSUME StoreInv, AdmissionInv, AdmissionsDie, KeysAreKept, LeasesAreKept,
         Len(runs') = Len(runs)
  PROVE  AdmissionInv'
  <1>1. Rows' = Rows /\ \A r \in Rows : r \in RunIds
    BY RowFacts DEF Rows
  <1>2. \A a \in Admissions :
          admission'[a] = IF admission[a].pc \in {"find", "create", "lease"}
                          THEN [admission[a] EXCEPT !.pc = "failed"] ELSE admission[a]
    BY DEF AdmissionsDie
  <1>3. ASSUME NEW a \in Admissions
        PROVE  admission'[a] \in Admission /\ RequestIsSound(admission[a])'
    <2>1. admission[a] \in Admission /\ RequestIsSound(admission[a])
      BY RequestFacts
    <2>2. CASE admission'[a] = admission[a]
      BY <2>1, <2>2, RequestsStaySound
    <2>3. CASE /\ admission[a].pc \in {"find", "create", "lease"}
               /\ admission'[a] = [admission[a] EXCEPT !.pc = "failed"]
      <3>1. /\ admission'[a] \in Admission /\ admission'[a].pc = "failed"
            /\ admission'[a].draft = admission[a].draft
        BY <2>1, <2>3 DEF Admission
      <3>2. verifyAdmissionRequest(admission[a].draft) /\ admission[a].draft.wellFormed
        BY <2>1, <2>3 DEF RequestIsSound
      <3>3. QED
        BY <3>1, <3>2 DEF RequestIsSound
    <2>4. QED
      BY <1>2, <2>2, <2>3
  <1>4. admission' \in [Admissions -> Admission]
    <2>1. admission' = [a \in Admissions |-> admission'[a]]
      BY DEF AdmissionsDie
    <2>2. QED
      BY <1>3, <2>1
  <1>5. cutShort' = cutShort \cup
          {admission[a].run : a \in {b \in Admissions : admission[b].pc = "lease"}}
    BY DEF AdmissionsDie
  <1>6. cutShort' \subseteq RunIds
    <2>1. \A a \in Admissions : admission[a].pc = "lease" => admission[a].run \in Rows
      BY RequestFacts DEF RequestIsSound
    <2>2. cutShort \subseteq RunIds
      BY DEF AdmissionInv, AdmissionTypeOK
    <2>3. QED
      BY <1>1, <1>5, <2>1, <2>2
  <1>7. KeysAreUnique'
    BY <1>1 DEF AdmissionInv, KeysAreUnique, KeysAreKept
  <1>8. UnleasedRunIsExplained'
    <2> SUFFICES ASSUME NEW r \in Rows, leases'[r] = "none"
                 PROVE  runs'[r].key = LiveKey \/ r \in cutShort'
      BY <1>1 DEF UnleasedRunIsExplained
    <2>1. leases[r] = "none" /\ runs'[r].key = runs[r].key
      BY <1>1 DEF LeasesAreKept, KeysAreKept
    <2>2. QED
      BY <1>5, <2>1 DEF AdmissionInv, UnleasedRunIsExplained
  <1>9. QED
    BY <1>3, <1>4, <1>6, <1>7, <1>8 DEF AdmissionInv, AdmissionTypeOK

-----------------------------------------------------------------------------
(* The server *)

FleetInv == StoreInv /\ AdmissionInv /\ BrokerInv /\ PrunerInv /\ RecoveryInv

LEMMA StoreInitially == StoreInit => StoreInv
  <1> SUFFICES ASSUME StoreInit  PROVE StoreInv
    OBVIOUS
  <1>1. Rows = {} /\ runs \in Seq(Run) /\ Len(runs) <= MaxRuns
    BY BoundsAssumption DEF StoreInit, Rows
  <1>2. PICK s \in Scenarios :
          workload = s.may /\ faults = s.faults /\ tailnet = s.tailnet
    BY DEF StoreInit
  <1>3. faults \in Nat /\ tailnet \in Seq(Device) /\ Len(tailnet) <= MaxDevices
    BY <1>2, ScenariosAssumption DEF ScenariosAssumption
  <1>4. QED
    BY <1>1, <1>2, <1>3
       DEF StoreInit, StoreInv, StoreTypeOK, VersionsAreBounded, DevicesAreOwn

LEMMA FleetInitially == Init => FleetInv
  BY StoreInitially, AdmissionInitially, BrokerInitially, PrunerInitially,
     RecoveryInitially DEF Init, FleetInv

\* A crash is one step of all of them.
LEMMA CrashStep == ASSUME FleetInv, Crash, UNCHANGED workload  PROVE FleetInv'
  <1>1. /\ StoreInv' /\ StoreIsKept /\ Len(runs') = Len(runs)
    BY FaultsAreCounted, CrashKeeps DEF Crash, FleetInv
  <1>2. AdmissionInv'
    BY <1>1, AdmissionCrashes DEF Crash, FleetInv, StoreIsKept
  <1>3. BrokerInv'
    BY BrokerCrashes DEF Crash, FleetInv
  <1>4. RecoveryInv'
    BY RecoveryCrashes DEF Crash
  <1>5. PrunerInv'
    <2>1. NoCycle \in Cycle /\ NoCycle.todo = {} /\ NoCycle.pc = "idle"
      BY BoundsAssumption DEF NoCycle, Cycle
    <2>2. cycle' = [c \in Cycles |-> NoCycle]
      BY DEF Crash
    <2>3. cycle' \in [Cycles -> Cycle] /\ \A c \in Cycles : cycle'[c] = NoCycle
      BY <2>1, <2>2
    <2>4. ASSUME NEW c \in Cycles  PROVE CycleIsSound(cycle[c])'
      BY <2>1, <2>3 DEF CycleIsSound
    <2>5. QED
      BY <2>3, <2>4 DEF PrunerInv, PrunerTypeOK
  <1>6. QED
    BY <1>1, <1>2, <1>3, <1>4, <1>5 DEF FleetInv

LEMMA FleetStep == ASSUME FleetInv, [Next]_vars  PROVE FleetInv'
  <1>1. ASSUME StoreInv', StoreIsKept, Len(runs') = Len(runs), UNCHANGED admissionVars
        PROVE  AdmissionInv'
    BY <1>1, AdmissionRests DEF FleetInv, StoreIsKept
  <1>2. ASSUME UNCHANGED brokerVars  PROVE BrokerInv'
    BY <1>2, BrokerRests DEF FleetInv
  <1>3. ASSUME StoreIsKept, UNCHANGED cycle  PROVE PrunerInv'
    BY <1>3, PrunerRests DEF FleetInv, StoreIsKept
  <1>4. ASSUME StoreIsKept, NoneIsStranded, UNCHANGED recoveryVars  PROVE RecoveryInv'
    BY <1>4, RecoveryRests DEF FleetInv, StoreIsKept
  <1>5. CASE /\ StoreNext /\ UNCHANGED workload
             /\ UNCHANGED <<admissionVars, brokerVars, cycle, recoveryVars>>
    <2>1. StoreInv' /\ Undisturbed
      BY <1>5, StoreNextKeeps DEF FleetInv
    <2>2. QED
      BY <1>1, <1>2, <1>3, <1>4, <1>5, <2>1 DEF FleetInv, Undisturbed
  <1>6. CASE /\ AdmissionNext /\ UNCHANGED workload
             /\ UNCHANGED <<brokerVars, cycle, recoveryVars>>
    <2>1. StoreInv' /\ StoreIsKept /\ NoneIsStranded /\ AdmissionInv'
      BY <1>6, AdmissionStep DEF FleetInv
    <2>2. QED
      BY <1>2, <1>3, <1>4, <1>6, <2>1 DEF FleetInv
  <1>7. CASE /\ BrokerNext /\ UNCHANGED workload
             /\ UNCHANGED <<admissionVars, cycle, recoveryVars>>
    <2>1. UNCHANGED storeVars /\ faults' \in Nat
      <3>1. NoFault \/ Fault
        <4>1. PICK c \in Chats :
                \/ \E r \in RunIds, allowed \in BOOLEAN : BeginChat(c, r, allowed)
                \/ ReadBudget(c) \/ ResolveWorker(c) \/ Infer(c) \/ WriteBudget(c)
          BY <1>7, Zenon DEF BrokerNext
        <4>2. ReadBudget(c) => NoFault \/ Fault
          BY Zenon DEF ReadBudget
        <4>3. Infer(c) => NoFault \/ Fault
          BY Zenon DEF Infer
        <4>4. WriteBudget(c) => NoFault \/ Fault
          BY Zenon DEF WriteBudget
        <4>5. QED
          BY <4>1, <4>2, <4>3, <4>4, Zenon DEF BeginChat, ResolveWorker
      <3>2. QED
        BY <1>7, <3>1, FaultsAreCounted DEF BrokerNext, FleetInv
    <2>2. StoreInv' /\ Undisturbed
      BY <1>7, <2>1, StoreStutters DEF FleetInv
    <2>3. BrokerInv'
      BY <1>7, BrokerStep DEF FleetInv
    <2>4. QED
      BY <1>1, <1>3, <1>4, <1>7, <2>2, <2>3 DEF FleetInv, Undisturbed
  <1>8. CASE /\ PrunerNext /\ UNCHANGED workload
             /\ UNCHANGED <<admissionVars, brokerVars, recoveryVars>>
    <2>1. StoreInv' /\ Undisturbed /\ PrunerInv'
      BY <1>8, PrunerNextKeeps DEF FleetInv
    <2>2. QED
      BY <1>1, <1>2, <1>4, <1>8, <2>1 DEF FleetInv, Undisturbed
  <1>9. CASE /\ RecoveryNext /\ UNCHANGED workload
             /\ UNCHANGED <<admissionVars, brokerVars, cycle>>
    <2>1. StoreInv' /\ Undisturbed /\ RecoveryInv'
      BY <1>9, RecoveryStep DEF FleetInv
    <2>2. QED
      BY <1>1, <1>2, <1>3, <1>9, <2>1 DEF FleetInv, Undisturbed
  <1>10. CASE Crash /\ UNCHANGED workload
    BY <1>10, CrashStep
  <1>11. CASE UNCHANGED vars
    <2>1. /\ UNCHANGED storeVars /\ UNCHANGED faults /\ UNCHANGED workload
          /\ UNCHANGED admissionVars /\ UNCHANGED brokerVars /\ UNCHANGED cycle
          /\ UNCHANGED recoveryVars
      BY <1>11 DEF vars
    <2>2. StoreInv' /\ Undisturbed
      <3>1. faults' \in Nat
        BY <2>1 DEF FleetInv, StoreInv, StoreTypeOK
      <3>2. QED
        BY <2>1, <3>1, StoreStutters DEF FleetInv
    <2>3. QED
      BY <1>1, <1>2, <1>3, <1>4, <2>1, <2>2 DEF FleetInv, Undisturbed
  <1>12. QED
    BY <1>5, <1>6, <1>7, <1>8, <1>9, <1>10, <1>11 DEF Next

LEMMA FleetInvariance == Spec => []FleetInv
  <1>1. Init => FleetInv
    BY FleetInitially
  <1>2. FleetInv /\ [Next]_vars => FleetInv'
    BY FleetStep
  <1>3. QED
    BY <1>1, <1>2, PTL DEF Spec

-----------------------------------------------------------------------------
(* What it promises *)

\* However many runs, requests and cycles there are, the tables hold rows,
\* leases, devices and keys of their kind.
THEOREM TypeCorrect == Spec => []TypeOK
  <1>1. FleetInv => TypeOK
    BY DEF FleetInv, TypeOK, StoreInv, AdmissionInv, BrokerInv, PrunerInv,
       RecoveryInv
  <1>2. QED
    BY <1>1, FleetInvariance, PTL

\* A run without a lease is one that executeLiveRun inserted, or one whose
\* admission (admitRequest) is still at work on it or was cut short by a
\* failure or a crash.
THEOREM UnleasedRunsAreExplained == Spec => []UnleasedRunIsExplained
  <1>1. FleetInv => UnleasedRunIsExplained
    BY DEF FleetInv, AdmissionInv
  <1>2. QED
    BY <1>1, FleetInvariance, PTL

\* The checks of POST /runs and verifyAdmissionRequest let through what is
\* supported, well formed and consistent, and nothing else, save that empty
\* content without a digest is refused.
THEOREM AdmissionsAreExact == Spec => []AdmissionIsExact
  <1>1. ASSUME NEW d \in Draft
        PROVE  LET consistent == \/ d.digest = "none" \/ d.content = "none"
                                 \/ d.digest = d.content
                   misread == d.digest = "none" /\ d.content = "empty" IN
               /\ verifyAdmissionRequest(d) =>
                    /\ d.supported /\ d.digest # "malformed"
                    /\ d.content # "forbidden" /\ consistent
               /\ ~verifyAdmissionRequest(d) =>
                    \/ ~d.supported \/ d.digest = "malformed"
                    \/ d.content = "forbidden" \/ ~consistent \/ misread
    <2>1. /\ d.supported \in BOOLEAN /\ d.content \in Contents
          /\ d.digest \in Contents \cup {"malformed"}
      BY DEF Draft
    <2>2. CASE d.digest = "none"
      BY <2>1, <2>2 DEF verifyAdmissionRequest, DigestOf, Contents
    <2>3. CASE d.digest # "none"
      BY <2>1, <2>3 DEF verifyAdmissionRequest, DigestOf, Contents
    <2>4. QED
      BY <2>2, <2>3
  <1>2. FleetInv => AdmissionIsExact
    <2> SUFFICES ASSUME FleetInv, NEW a \in Admissions
                 PROVE  LET d == admission[a].draft
                            consistent == \/ d.digest = "none" \/ d.content = "none"
                                          \/ d.digest = d.content
                            misread == d.digest = "none" /\ d.content = "empty" IN
                        /\ admission[a].pc \notin {"idle", "rejected"} =>
                             /\ d.supported /\ d.wellFormed /\ d.digest # "malformed"
                             /\ d.content # "forbidden" /\ consistent
                        /\ admission[a].pc = "rejected" =>
                             \/ ~d.supported \/ ~d.wellFormed \/ d.digest = "malformed"
                             \/ d.content = "forbidden" \/ ~consistent \/ misread
      BY DEF AdmissionIsExact
    <2> DEFINE e == admission[a].draft
    <2>1. /\ admission[a].pc \notin {"idle", "rejected"} =>
               verifyAdmissionRequest(e) /\ e.wellFormed
          /\ admission[a].pc = "rejected" =>
               ~(verifyAdmissionRequest(e) /\ e.wellFormed)
          /\ e \in Draft
      BY RequestFacts DEF FleetInv, RequestIsSound, Admission
    <2>2. QED
      BY <1>1, <2>1
  <1>3. QED
    BY <1>2, FleetInvariance, PTL

\* However the inferences of a run overlap and fail, the cost brokerChat has
\* stored is no more than what was served, and below the limit by less than
\* one inference too much.
THEOREM StoredCostsAreSound == Spec => []StoredCostIsSound
  <1>1. FleetInv => StoredCostIsSound
    BY DEF FleetInv, BrokerInv
  <1>2. QED
    BY <1>1, FleetInvariance, PTL

\* The store (current_cost_cents) counts every inference a worker has served,
\* those about to be written included, until two of one run overlap
\* (brokerChat reads the budget before and writes it after the inference) or
\* one fails after it was served.
THEOREM SpendIsMetered == Spec => []SpendIsMeteredUnlessRaced
  <1>1. Init => FleetInv /\ MeterInv
    BY FleetInitially, MeterInitially DEF Init
  <1>2. FleetInv /\ MeterInv /\ [Next]_vars => FleetInv' /\ MeterInv'
    <2> SUFFICES ASSUME FleetInv, MeterInv, [Next]_vars
                 PROVE  FleetInv' /\ MeterInv'
      OBVIOUS
    <2>1. FleetInv'
      BY FleetStep
    <2>2. BrokerInv /\ BrokerInv'
      BY <2>1 DEF FleetInv
    <2>3. UNCHANGED brokerVars \/ BrokerNext \/ ChatsDie
      BY DEF Next, Crash, vars
    <2>4. QED
      BY <2>1, <2>2, <2>3, MeterStep, MeterCrashes, MeterRests
  <1>3. MeterInv => SpendIsMeteredUnlessRaced
    BY DEF MeterInv
  <1>4. QED
    BY <1>1, <1>2, <1>3, PTL DEF Spec

\* A device that a cycle of pruneStaleNodesAndKeys is about to expel, and that
\* a run in flight uses, has expired or was there before the run was dispatched,
\* however old the verdict is: the device a dispatch enrolled itself is safe.
THEOREM PruningSparesRuns == Spec => []PruneSparesRunsInFlight
  <1>1. FleetInv => PruneSparesRunsInFlight
    <2> SUFFICES ASSUME FleetInv, NEW c \in Cycles, NEW r \in Rows,
                        cycle[c].pc = "deauthorize", Uses(r, cycle[c].device),
                        ~tailnet[cycle[c].device].expired
                 PROVE  cycle[c].device <= runs[r].since
      BY DEF PruneSparesRunsInFlight
    <2>1. cycle[c].device \in Devices /\ IsStale(cycle[c].device)
      BY DEF FleetInv, PrunerInv, CycleIsSound
    <2>2. cycle[c].device # 0
      BY <2>1, RowFacts DEF FleetInv
    <2>3. tailnet[cycle[c].device].owner = r
      BY <2>2 DEF FleetInv, StoreInv, DevicesAreOwn, Uses
    <2>4. QED
      BY <2>1, <2>3 DEF IsStale, Uses
  <1>2. QED
    BY <1>1, FleetInvariance, PTL

\* When recoverAllInFlightRuns has ended, a run in flight that no handler
\* works on was behind the page it read, or lost to a failed request.
THEOREM StrandedRunsAreExplained == Spec => []StrandedIsExplained
  <1>1. FleetInv => StrandedIsExplained
    BY DEF FleetInv, RecoveryInv
  <1>2. QED
    BY <1>1, FleetInvariance, PTL

\* A device that passes the dispatcher's verifyNodePosture is never one that
\* the pruner's isProtectedDevice makes it leave behind.
THEOREM VerifiedDevicesAreRemovable == Spec => []VerifiedDevicesArePrunable
  <1>1. FleetInv => VerifiedDevicesArePrunable
    BY DEF VerifiedDevicesArePrunable, verifyNodePosture, isProtectedDevice,
       SandboxTags
  <1>2. QED
    BY <1>1, FleetInvariance, PTL

-----------------------------------------------------------------------------
(* The registry of keys that admission implements *)

RegistryOf == [k \in Keys |-> RunOfKey(k)]
AnswersOf == [a \in Admissions |-> AnswerOf(a)]

\* The first run with the key is the only one.
LEMMA RunOfKeyIsUnique ==
  ASSUME KeysAreUnique, NEW k \in Keys, NEW r \in Rows, HasKey(r, k)
  PROVE  RunOfKey(k) = r
  <1> DEFINE q == CHOOSE s \in Rows : HasKey(s, k)
  <1>1. q \in Rows /\ HasKey(q, k)
    OBVIOUS
  <1>2. RunOfKey(k) = q
    BY DEF RunOfKey
  <1> HIDE DEF q
  <1>3. QED
    BY <1>1, <1>2, LiveKeyAssumption DEF KeysAreUnique, HasKey

LEMMA NewRunOfKeyIsUnique ==
  ASSUME KeysAreUnique', NEW k \in Keys, NEW r \in Rows', HasKey(r, k)'
  PROVE  RunOfKey(k)' = r
  <1> DEFINE P(s) == s \in Rows' /\ runs'[s].key = k /\ k # NoKey
             q == CHOOSE s \in Rows' : P(s)
  <1>1. P(r)
    BY DEF HasKey
  <1>2. q \in Rows' /\ P(q)
    BY <1>1
  <1>3. RunOfKey(k)' = q
    BY <1>1 DEF RunOfKey, HasKey
  <1> HIDE DEF q
  <1>4. QED
    BY <1>1, <1>2, <1>3, LiveKeyAssumption DEF KeysAreUnique

\* While no row gets or loses the key, its run is the same.
LEMMA RunOfKeyStays ==
  ASSUME KeysAreUnique, KeysAreUnique', NEW k \in Keys,
         \A r \in Rows : r \in Rows' /\ runs'[r].key = runs[r].key,
         \A r \in Rows' : HasKey(r, k)' => r \in Rows
  PROVE  RunOfKey(k)' = RunOfKey(k)
  <1>1. CASE \E r \in Rows : HasKey(r, k)
    <2>1. PICK r \in Rows : HasKey(r, k)
      BY <1>1
    <2>2. r \in Rows' /\ HasKey(r, k)'
      BY <2>1 DEF HasKey
    <2>3. QED
      BY <2>1, <2>2, RunOfKeyIsUnique, NewRunOfKeyIsUnique
  <1>2. CASE ~ \E r \in Rows : HasKey(r, k)
    <2>1. RunOfKey(k) = 0
      BY <1>2 DEF RunOfKey
    <2>2. ~ \E r \in Rows' : HasKey(r, k)'
      BY <1>2 DEF HasKey
    <2>3. RunOfKey(k)' = 0
      BY <2>2 DEF RunOfKey
    <2>4. QED
      BY <2>1, <2>3
  <1>3. QED
    BY <1>1, <1>2

LEMMA RegistryStays ==
  ASSUME StoreInv, KeysAreUnique, KeysAreUnique', KeysAreKept,
         \A r \in Rows' : r \in Rows \/ runs'[r].key \in {NoKey, LiveKey}
  PROVE  RegistryOf' = RegistryOf
  <1>1. \A r \in Rows : r \in Rows' /\ runs'[r].key = runs[r].key
    BY RowsStay
  <1>2. ASSUME NEW k \in Keys  PROVE RunOfKey(k)' = RunOfKey(k)
    BY <1>1, RunOfKeyStays, LiveKeyAssumption DEF HasKey
  <1>3. QED
    BY <1>2 DEF RegistryOf

LEMMA AnswersStay ==
  ASSUME \A a \in Admissions :
           \/ admission'[a] = admission[a]
           \/ admission[a].pc # "answered" /\ admission'[a].pc # "answered"
  PROVE  AnswersOf' = AnswersOf
  <1>1. ASSUME NEW a \in Admissions  PROVE AnswerOf(a)' = AnswerOf(a)
    BY DEF AnswerOf
  <1>2. QED
    BY <1>1 DEF AnswersOf

RegistryStep == Registry!Next \/ UNCHANGED <<RegistryOf, AnswersOf>>

\* A request is told the run of its key.
LEMMA AnswerIsRegistered ==
  ASSUME AdmissionInv, NEW a \in Admissions, NEW r \in Rows, NEW x,
         admission' = [admission EXCEPT ![a] = x],
         admission[a].pc # "answered", x.pc = "answered", x.run = r,
         x.key \in Keys \cup {NoKey}, runs[r].key = x.key, r # 0,
         RegistryOf' = RegistryOf
  PROVE  RegistryStep
  <1> DEFINE k == x.key
  <1>1. admission \in [Admissions -> Admission]
    BY RequestFacts
  <1>2. /\ admission'[a] = x
        /\ \A b \in Admissions : b # a => admission'[b] = admission[b]
    BY <1>1
  <1>3. \A b \in Admissions : b # a => AnswerOf(b)' = AnswerOf(b)
    BY <1>2 DEF AnswerOf
  <1>4. AnswerOf(a) = [key |-> "none", run |-> 0]
    BY DEF AnswerOf
  <1>5. CASE k = NoKey
    <2>1. AnswerOf(a)' = AnswerOf(a)
      BY <1>2, <1>4, <1>5 DEF AnswerOf
    <2>2. AnswersOf' = AnswersOf
      BY <1>3, <2>1 DEF AnswersOf
    <2>3. QED
      BY <2>2 DEF RegistryStep
  <1>6. CASE k # NoKey
    <2>1. RunOfKey(k) = r
      BY <1>6, RunOfKeyIsUnique DEF AdmissionInv, HasKey
    <2>2. AnswerOf(a)' = [key |-> k, run |-> r]
      BY <1>2, <1>6 DEF AnswerOf
    <2>3. AnswersOf' = [AnswersOf EXCEPT ![a] = [key |-> k, run |-> r]]
      BY <1>3, <2>2 DEF AnswersOf
    <2>4. k \in Keys /\ RegistryOf[k] = r
      BY <1>6, <2>1 DEF RegistryOf
    <2>5. AnswersOf[a] = [key |-> "none", run |-> 0]
      BY <1>4 DEF AnswersOf
    <2> HIDE DEF k
    <2>6. Registry!Answer(a)
      BY <2>3, <2>4, <2>5
         DEF Registry!Answer, Registry!Unanswered, RegistryOf, AnswersOf
    <2>7. QED
      BY <2>6 DEF RegistryStep, Registry!Next
  <1>7. QED
    BY <1>5, <1>6

\* A new row registers its key, if it has one.
LEMMA InsertRegisters ==
  ASSUME StoreInv, AdmissionInv, NEW a \in Admissions, InsertRun(a),
         UNCHANGED workload, faults' \in Nat, AnswersOf' = AnswersOf
  PROVE  RegistryStep
  <1>0. PICK k \in Keys \cup {NoKey}, n \in RunIds :
          k = admission[a].key /\ n = Len(runs) + 1
    BY InsertFacts, RequestFacts
  <1>1. /\ KeysAreKept /\ KeysAreUnique' /\ KeysAreUnique
        /\ Rows' = Rows \cup {n} /\ runs'[n].key = k /\ KeyIsUnused(k)
    BY <1>0, InsertFacts DEF StoreIsKept, InsertRun, AdmissionInv
  <1>2. n \in Nat \ {0} /\ \A r \in Rows : r \in Nat \ {0} /\ r # n
    BY <1>0, RowFacts DEF Rows
  <1>3. CASE k = NoKey
    <2>1. RegistryOf' = RegistryOf
      BY <1>1, <1>3, RegistryStays
    <2>2. QED
      BY <2>1 DEF RegistryStep
  <1>4. CASE k # NoKey
    <2>0. k \in Keys
      BY <1>0, <1>4
    <2>1. RunOfKey(k) = 0
      BY <1>1 DEF KeyIsUnused, RunOfKey
    <2>2. n \in Rows' /\ HasKey(n, k)'
      BY <1>1, <1>4 DEF HasKey
    <2>3. RunOfKey(k)' = n
      BY <1>1, <2>0, <2>2, NewRunOfKeyIsUnique
    <2>4. ASSUME NEW j \in Keys, j # k  PROVE RunOfKey(j)' = RunOfKey(j)
      <3>1. \A r \in Rows : r \in Rows' /\ runs'[r].key = runs[r].key
        BY <1>1, RowsStay
      <3>2. \A r \in Rows' : HasKey(r, j)' => r \in Rows
        BY <1>1, <2>4 DEF HasKey
      <3>3. QED
        BY <1>1, <3>1, <3>2, RunOfKeyStays
    <2>5. ASSUME NEW j \in Keys  PROVE RunOfKey(j) # n
      <3>1. CASE \E r \in Rows : HasKey(r, j)
        <4>1. PICK r \in Rows : HasKey(r, j)
          BY <3>1
        <4>2. RunOfKey(j) = r
          BY <1>1, <4>1, RunOfKeyIsUnique
        <4>3. QED
          BY <1>2, <4>2
      <3>2. CASE ~ \E r \in Rows : HasKey(r, j)
        <4>1. RunOfKey(j) = 0
          BY <3>2 DEF RunOfKey
        <4>2. QED
          BY <1>2, <4>1
      <3>3. QED
        BY <3>1, <3>2
    <2>6. RegistryOf' = [RegistryOf EXCEPT ![k] = n]
      BY <2>0, <2>3, <2>4 DEF RegistryOf
    <2>7. RegistryOf[k] = 0 /\ RegistryOf'[k] = n
          /\ \A j \in Keys : RegistryOf[j] # n
      BY <2>0, <2>1, <2>3, <2>5 DEF RegistryOf
    <2>8. Registry!Register(k)
      BY <1>2, <2>6, <2>7 DEF Registry!Register, RegistryOf, AnswersOf
    <2>9. QED
      BY <2>0, <2>8 DEF RegistryStep, Registry!Next
  <1>5. QED
    BY <1>1, <1>3, <1>4

\* Everything but an insert leaves the registry as it is.
LEMMA UndisturbedRegistry ==
  ASSUME StoreInv, AdmissionInv, AdmissionInv', StoreIsKept, Len(runs') = Len(runs)
  PROVE  RegistryOf' = RegistryOf
  <1>1. Rows' = Rows
    BY DEF Rows
  <1>2. QED
    BY <1>1, RegistryStays DEF AdmissionInv, StoreIsKept

LEMMA AdmissionRegisters ==
  ASSUME StoreInv, AdmissionInv, AdmissionInv', AdmissionNext, UNCHANGED workload
  PROVE  RegistryStep
  <1>0. CASE LaunchLiveRun
    <2>1. /\ runs' = Append(runs, CreatedRun(LiveKey)) /\ Len(runs) < MaxRuns
          /\ UNCHANGED <<leases, tailnet, authKeys>> /\ UNCHANGED admission
          /\ faults' \in Nat
      BY <1>0, FaultsAreCounted DEF LaunchLiveRun
    <2>2. /\ KeysAreKept /\ Rows' = Rows \cup {Len(runs) + 1}
          /\ runs'[Len(runs) + 1].key = LiveKey
      BY <2>1, InsertedRun DEF StoreIsKept
    <2>3. RegistryOf' = RegistryOf
      BY <2>2, RegistryStays DEF AdmissionInv
    <2>4. QED
      BY <2>1, <2>3, AnswersStay DEF RegistryStep
  <1> SUFFICES ASSUME ~LaunchLiveRun  PROVE RegistryStep
    BY <1>0
  <1>1. PICK a \in Admissions :
          \/ \E k \in KeysOf[a], d \in Draft : Submit(a, k, d)
          \/ FindByIdempotencyKey(a) \/ CreateRun(a) \/ AcquireLease(a) \/ Retry(a)
    BY Zenon DEF AdmissionNext
  <1> DEFINE y == admission[a]
  <1>2. /\ y \in Admission /\ RequestIsSound(y)
        /\ admission \in [Admissions -> Admission] /\ y.key \in Keys \cup {NoKey}
        /\ DOMAIN y = {"pc", "key", "draft", "run"}
    BY RequestFacts DEF Admission
  <1>3. ASSUME y.pc # "answered", admission'[a].pc # "answered",
               \A b \in Admissions : b # a => admission'[b] = admission[b]
        PROVE  AnswersOf' = AnswersOf
    BY <1>3, AnswersStay
  <1>4. ASSUME NEW pc, pc # "answered", Move(a, pc), y.pc # "answered"
        PROVE  AnswersOf' = AnswersOf
    BY <1>2, <1>3, <1>4 DEF Move
  <1>5. ASSUME UNCHANGED storeVars  PROVE RegistryOf' = RegistryOf
    <2>1. Rows' = Rows /\ KeysAreKept
      BY <1>5, RowFacts DEF storeVars, Rows, KeysAreKept
    <2>2. QED
      BY <2>1, RegistryStays DEF AdmissionInv
  <1>6. CASE \E k \in KeysOf[a], d \in Draft : Submit(a, k, d)
    <2>1. /\ y.pc = "idle" /\ UNCHANGED storeVars
          /\ \A b \in Admissions : b # a => admission'[b] = admission[b]
          /\ admission'[a].pc \in {"find", "rejected"}
      BY <1>2, <1>6 DEF Submit
    <2>2. QED
      BY <1>3, <1>5, <2>1 DEF RegistryStep
  <1>7. CASE Retry(a)
    <2>1. /\ y.pc = "failed" /\ UNCHANGED storeVars
          /\ \A b \in Admissions : b # a => admission'[b] = admission[b]
          /\ admission'[a].pc = "find"
      BY <1>2, <1>7 DEF Retry
    <2>2. QED
      BY <1>3, <1>5, <2>1 DEF RegistryStep
  <1>8. CASE FindByIdempotencyKey(a)
    <2>1. y.pc = "find" /\ UNCHANGED storeVars
      BY <1>8 DEF FindByIdempotencyKey
    <2>2. CASE Move(a, "create") \/ Move(a, "failed")
      BY <1>4, <1>5, <2>1, <2>2 DEF RegistryStep
    <2>3. ASSUME NEW r \in Rows, HasKey(r, y.key),
                 admission' = [admission EXCEPT ![a].pc = "answered", ![a].run = r]
          PROVE  RegistryStep
      <3> DEFINE x == [y EXCEPT !.pc = "answered", !.run = r]
      <3>1. admission' = [admission EXCEPT ![a] = x]
        BY <1>2, <2>3
      <3>2. x.pc = "answered" /\ x.run = r /\ x.key = y.key
        BY <1>2
      <3>3. runs[r].key = y.key /\ r # 0
        BY <2>3, RowFacts DEF HasKey, Rows
      <3> HIDE DEF x
      <3>4. QED
        BY <1>2, <1>5, <2>1, <3>1, <3>2, <3>3, AnswerIsRegistered
    <2>4. QED
      BY <1>8, <2>2, <2>3 DEF FindByIdempotencyKey
  <1>9. CASE CreateRun(a)
    <2>1. y.pc = "create" /\ faults' \in Nat
      BY <1>9, FaultsAreCounted DEF CreateRun
    <2>2. CASE Move(a, "failed") /\ UNCHANGED storeVars
      BY <1>4, <1>5, <2>1, <2>2 DEF RegistryStep
    <2>3. CASE /\ InsertRun(a)
               /\ \/ Move(a, "failed")
                  \/ admission' = [admission EXCEPT ![a].pc = "lease",
                                                    ![a].run = Len(runs) + 1]
      <3>1. /\ \A b \in Admissions : b # a => admission'[b] = admission[b]
            /\ admission'[a].pc \in {"failed", "lease"}
        BY <1>2, <2>3 DEF Move
      <3>2. AnswersOf' = AnswersOf
        BY <1>3, <2>1, <3>1
      <3>3. QED
        BY <2>1, <2>3, <3>2, InsertRegisters
    <2>4. QED
      BY <1>9, <2>2, <2>3 DEF CreateRun
  <1>10. CASE AcquireLease(a)
    <2>1. y.pc = "lease" /\ UNCHANGED runs
      BY <1>10 DEF AcquireLease
    <2>2. RegistryOf' = RegistryOf
      <3>1. Rows' = Rows /\ KeysAreKept
        BY <2>1, RowFacts DEF Rows, KeysAreKept
      <3>2. QED
        BY <3>1, RegistryStays DEF AdmissionInv
    <2>3. CASE Move(a, "failed")
      BY <1>4, <2>1, <2>2, <2>3 DEF RegistryStep
    <2>4. CASE Move(a, "answered")
      <3> DEFINE x == [y EXCEPT !.pc = "answered"]
      <3>1. admission' = [admission EXCEPT ![a] = x]
        BY <1>2, <2>4 DEF Move
      <3>2. x.pc = "answered" /\ x.run = y.run /\ x.key = y.key
        BY <1>2
      <3>3. y.run \in Rows /\ runs[y.run].key = y.key /\ y.run # 0
        BY <1>2, <2>1, RowFacts DEF RequestIsSound, Rows
      <3> HIDE DEF x
      <3>4. QED
        BY <1>2, <2>1, <2>2, <3>1, <3>2, <3>3, AnswerIsRegistered
    <2>5. QED
      BY <1>10, <2>3, <2>4 DEF AcquireLease
  <1>11. QED
    BY <1>1, <1>6, <1>7, <1>8, <1>9, <1>10

LEMMA FleetRegisters ==
  ASSUME FleetInv, FleetInv', [Next]_vars
  PROVE  RegistryStep
  <1>1. ASSUME UNCHANGED admission  PROVE AnswersOf' = AnswersOf
    BY <1>1, AnswersStay
  <1>2. ASSUME Undisturbed, UNCHANGED admissionVars  PROVE RegistryStep
    BY <1>1, <1>2, UndisturbedRegistry
       DEF FleetInv, Undisturbed, admissionVars, RegistryStep
  <1>3. CASE /\ StoreNext /\ UNCHANGED workload
             /\ UNCHANGED <<admissionVars, brokerVars, cycle, recoveryVars>>
    BY <1>2, <1>3, StoreNextKeeps DEF FleetInv
  <1>4. CASE AdmissionNext /\ UNCHANGED workload
    BY <1>4, AdmissionRegisters DEF FleetInv
  <1>5. CASE /\ PrunerNext /\ UNCHANGED workload
             /\ UNCHANGED <<admissionVars, brokerVars, recoveryVars>>
    BY <1>2, <1>5, PrunerNextKeeps DEF FleetInv
  <1>6. CASE /\ RecoveryNext /\ UNCHANGED workload
             /\ UNCHANGED <<admissionVars, brokerVars, cycle>>
    BY <1>2, <1>6, RecoveryStep DEF FleetInv
  <1>7. CASE UNCHANGED storeVars /\ UNCHANGED admissionVars
    <2>1. UNCHANGED <<runs, admission>>
      BY <1>7 DEF storeVars, admissionVars
    <2>2. Rows' = Rows /\ KeysAreKept
      BY <2>1, RowFacts DEF FleetInv, Rows, KeysAreKept
    <2>3. RegistryOf' = RegistryOf
      BY <2>2, RegistryStays DEF FleetInv, AdmissionInv
    <2>4. QED
      BY <1>1, <2>1, <2>3 DEF RegistryStep
  <1>8. CASE Crash /\ UNCHANGED workload
    <2>1. StoreIsKept /\ Len(runs') = Len(runs)
      BY <1>8, FaultsAreCounted, CrashKeeps DEF Crash, FleetInv
    <2>2. RegistryOf' = RegistryOf
      BY <2>1, UndisturbedRegistry DEF FleetInv
    <2>3. \A a \in Admissions :
            \/ admission'[a] = admission[a]
            \/ admission[a].pc # "answered" /\ admission'[a].pc # "answered"
      <3> TAKE a \in Admissions
      <3>1. admission[a] \in Admission
        BY RequestFacts DEF FleetInv
      <3>2. CASE admission[a].pc \in {"find", "create", "lease"}
        <4>1. admission'[a] = [admission[a] EXCEPT !.pc = "failed"]
          BY <1>8, <3>2 DEF Crash, AdmissionsDie
        <4>2. admission'[a].pc = "failed"
          BY <3>1, <4>1 DEF Admission
        <4>3. QED
          BY <3>2, <4>2
      <3>3. CASE admission[a].pc \notin {"find", "create", "lease"}
        BY <1>8, <3>3 DEF Crash, AdmissionsDie
      <3>4. QED
        BY <3>2, <3>3
    <2>4. QED
      BY <2>2, <2>3, AnswersStay DEF RegistryStep
  <1>9. QED
    BY <1>3, <1>4, <1>5, <1>6, <1>7, <1>8 DEF Next, vars, BrokerNext

\* Admission, with its table, its failures, retries and crashes, implements
\* the registry: every key has one run for ever and every answer names it.
THEOREM AdmissionImplementsRegistry == Spec => ImplementsRunRegistry
  <1>1. Init => Registry!Init
    <2> SUFFICES ASSUME Init  PROVE Registry!Init
      OBVIOUS
    <2>1. Rows = {} /\ \A a \in Admissions : admission[a].pc = "idle"
      BY DEF Init, StoreInit, AdmissionInit, NoRequest, Rows
    <2>2. \A k \in Keys : RunOfKey(k) = 0
      BY <2>1 DEF RunOfKey
    <2>3. \A a \in Admissions : AnswerOf(a) = [key |-> "none", run |-> 0]
      BY <2>1 DEF AnswerOf
    <2>4. QED
      BY <2>2, <2>3 DEF Registry!Init, Registry!Unanswered
  <1>2. FleetInv /\ FleetInv' /\ [Next]_vars => [Registry!Next]_(Registry!vars)
    BY FleetRegisters DEF RegistryStep, Registry!vars, RegistryOf, AnswersOf
  <1>3. QED
    BY <1>1, <1>2, FleetInvariance, PTL DEF Spec, ImplementsRunRegistry, Registry!Spec

-----------------------------------------------------------------------------
(* The rows are runs *)

\* One row from one state to the next, in constants.
RowMoves(x, y) ==
  \/ y.phase = x.phase /\ y.version = x.version
  \/ /\ canTransition(x.phase, y.phase) /\ y.phase \in Phase
     /\ y.version = x.version + 1

RowsMove ==
  /\ \A r \in Rows : r \in Rows' /\ RowMoves(runs[r], runs'[r])
  /\ \A r \in Rows' \ Rows : runs'[r].phase = "created" /\ runs'[r].version = 1

LEMMA RowsRest == runs' = runs => RowsMove
  BY DEF RowsMove, RowMoves, Rows

\* An update of one row that moves it as the table says.
LEMMA RowUpdated ==
  ASSUME NEW S \in Seq(Run), NEW T, NEW r \in 1..Len(S), NEW y,
         T = [S EXCEPT ![r] = y], RowMoves(S[r], y)
  PROVE  /\ Len(T) = Len(S)
         /\ \A q \in 1..Len(S) : RowMoves(S[q], T[q])
  <1>1. DOMAIN S = 1..Len(S) /\ Len(S) \in Nat
    OBVIOUS
  <1>2. T = [q \in 1..Len(S) |-> IF q = r THEN y ELSE S[q]]
    BY <1>1
  <1>3. Len(T) = Len(S)
    BY <1>1, <1>2
  <1>4. QED
    BY <1>2, <1>3 DEF RowMoves

LEMMA RowOfRunUpdated ==
  ASSUME runs \in Seq(Run), NEW r \in Rows, NEW y,
         runs' = [runs EXCEPT ![r] = y], RowMoves(runs[r], y)
  PROVE  RowsMove
  <1>1. Len(runs') = Len(runs) /\ \A q \in Rows : RowMoves(runs[q], runs'[q])
    BY RowUpdated DEF Rows
  <1>2. QED
    BY <1>1 DEF RowsMove, Rows

LEMMA InsertedRowBegins ==
  ASSUME StoreInv, NEW k, runs' = Append(runs, CreatedRun(k))
  PROVE  RowsMove
  <1>1. runs \in Seq(Run)
    BY DEF StoreInv, StoreTypeOK
  <1>2. /\ Len(runs') = Len(runs) + 1 /\ Len(runs) \in Nat
        /\ \A r \in 1..Len(runs) : runs'[r] = runs[r]
        /\ runs'[Len(runs) + 1] = CreatedRun(k)
    BY <1>1
  <1>3. /\ CreatedRun(k).phase = "created"
        /\ CreatedRun(k).version = 1
    BY DEF CreatedRun
  <1>4. QED
    BY <1>2, <1>3 DEF RowsMove, RowMoves, Rows

LEMMA AdvancedRowMoves ==
  ASSUME StoreInv, NEW r \in Rows, NEW target \in Phase, Advance(r, target)
  PROVE  RowsMove
  <1>1. runs \in Seq(Run) /\ runs[r] \in Run
    BY DEF StoreInv, StoreTypeOK, Rows
  <1>2. canTransition(runs[r].phase, target)
    BY DEF Advance
  <1> DEFINE device == IF target = "provisioning" THEN 0 ELSE runs[r].device
             since == IF target = "provisioning" THEN Len(tailnet) ELSE runs[r].since
             driven == target \notin {"clean_terminated", "quarantined"}
  <1>3. runs' = [runs EXCEPT ![r].phase = target, ![r].version = @ + 1,
                             ![r].device = device, ![r].since = since,
                             ![r].driven = driven]
    BY <1>1, Zenon DEF Advance, Run
  <1> HIDE DEF device, since, driven
  <1> DEFINE y == [runs[r] EXCEPT !.phase = target, !.version = @ + 1,
                                  !.device = device, !.since = since,
                                  !.driven = driven]
  <1>4. runs' = [runs EXCEPT ![r] = y]
    BY <1>1, <1>3 DEF Run
  <1>5. y.phase = target /\ y.version = runs[r].version + 1
    BY <1>1 DEF Run
  <1> HIDE DEF y
  <1>6. RowMoves(runs[r], y)
    BY <1>2, <1>5 DEF RowMoves
  <1>7. QED
    BY <1>1, <1>4, <1>6, RowOfRunUpdated

LEMMA FoundRowRests ==
  ASSUME StoreInv, NEW r \in Rows, FindDevice(r)
  PROVE  RowsMove
  <1>1. runs \in Seq(Run) /\ runs[r] \in Run
    BY DEF StoreInv, StoreTypeOK, Rows
  <1>2. PICK d : runs' = [runs EXCEPT ![r].device = d]
    BY DEF FindDevice
  <1> DEFINE y == [runs[r] EXCEPT !.device = d]
  <1>3. runs' = [runs EXCEPT ![r] = y]
    BY <1>2
  <1>4. y.phase = runs[r].phase /\ y.version = runs[r].version
    BY <1>1 DEF Run
  <1> HIDE DEF y
  <1>5. RowMoves(runs[r], y)
    BY <1>4 DEF RowMoves
  <1>6. QED
    BY <1>1, <1>3, <1>5, RowOfRunUpdated

LEMMA QuarantinedRowMoves ==
  ASSUME StoreInv, NEW s, s.run \in Rows, QuarantineRun(s)
  PROVE  RowsMove
  <1>1. runs \in Seq(Run) /\ runs[s.run] \in Run
    BY DEF StoreInv, StoreTypeOK, Rows
  <1>2. CASE runs' = runs
    BY <1>2, RowsRest
  <1>3. CASE /\ runs[s.run].phase \in DrivenPhases
             /\ runs' = [runs EXCEPT ![s.run].phase = "quarantined",
                                     ![s.run].version = @ + 1,
                                     ![s.run].driven = FALSE]
    <2> DEFINE y == [runs[s.run] EXCEPT !.phase = "quarantined",
                                        !.version = @ + 1, !.driven = FALSE]
    <2>1. runs' = [runs EXCEPT ![s.run] = y]
      BY <1>1, <1>3 DEF Run
    <2>2. y.phase = "quarantined" /\ y.version = runs[s.run].version + 1
      BY <1>1 DEF Run
    <2>3. canTransition(runs[s.run].phase, "quarantined")
      BY <1>3
      DEF DrivenPhases, InFlightPhases, canTransition, ALLOWED_TRANSITIONS, Phase
    <2>4. "quarantined" \in Phase
      BY DEF Phase
    <2> HIDE DEF y
    <2>5. RowMoves(runs[s.run], y)
      BY <2>2, <2>3, <2>4 DEF RowMoves
    <2>6. QED
      BY <1>1, <2>1, <2>5, RowOfRunUpdated
  <1>4. QED
    BY <1>2, <1>3 DEF QuarantineRun

LEMMA CrashedRowsRest ==
  ASSUME StoreInv, DriversDie
  PROVE  RowsMove
  <1>1. runs \in Seq(Run) /\ Len(runs) \in Nat
    BY DEF StoreInv, StoreTypeOK
  <1>2. runs' = [r \in 1..Len(runs) |-> [runs[r] EXCEPT !.driven = FALSE]]
    BY DEF DriversDie, Rows
  <1>3. Len(runs') = Len(runs)
    BY <1>1, <1>2
  <1>4. \A r \in 1..Len(runs) : /\ runs'[r].phase = runs[r].phase
                                /\ runs'[r].version = runs[r].version
    <2> TAKE r \in 1..Len(runs)
    <2>1. runs[r] \in Run
      BY <1>1
    <2>2. QED
      BY <1>2, <2>1 DEF Run
  <1>5. QED
    BY <1>3, <1>4 DEF RowsMove, RowMoves, Rows

\* The pruner reads the rows only.
LEMMA PrunerLeavesRows == PrunerNext => runs' = runs
  <1> SUFFICES ASSUME NEW c \in Cycles,
                      PrunerStep(c) \/ \E dryRun \in BOOLEAN : ListDevices(c, dryRun)
               PROVE  runs' = runs
    BY DEF PrunerNext
  <1>1. CASE \E dryRun \in BOOLEAN : ListDevices(c, dryRun)
    BY <1>1, Zenon DEF ListDevices, storeVars
  <1>2. CASE Judge(c) \/ CheckLease(c)
    BY <1>2, Zenon DEF Judge, CheckLease, storeVars
  <1>3. CASE DeauthorizeNode(c) \/ DeleteDevice(c) \/ DeleteAuthKey(c)
    BY <1>3 DEF DeauthorizeNode, DeleteDevice, DeleteAuthKey
  <1>4. CASE VerifyAbsence(c) \/ FinishDevices(c) \/ ListKeys(c)
             \/ FinishKeys(c) \/ Audit(c)
    BY <1>4 DEF VerifyAbsence, FinishDevices, ListKeys, FinishKeys, Audit, storeVars
  <1>5. QED
    BY <1>1, <1>2, <1>3, <1>4 DEF PrunerStep

\* Nobody else touches the rows.
LEMMA RowsAreMoved ==
  ASSUME FleetInv, [Next]_vars
  PROVE  RowsMove
  <1>0. StoreInv
    BY DEF FleetInv
  <1>1. CASE UNCHANGED vars
    BY <1>1, RowsRest DEF vars, storeVars
  <1>2. CASE StoreNext
    <2>1. \/ \E r \in Rows, target \in Phase : Advance(r, target)
          \/ \E r \in Rows : FindDevice(r)
          \/ runs' = runs
      <3>1. CASE Drive
        <4>1. PICK r \in RunIds, target \in Phase : Advance(r, target)
          BY <3>1, Zenon DEF Drive
        <4>2. r \in Rows
          BY <4>1, Zenon DEF Advance
        <4>3. QED
          BY <4>1, <4>2
      <3>2. CASE Join
        <4>1. PICK r \in RunIds : RemoveDevice(r) \/ Enrol(r) \/ FindDevice(r)
          BY <3>2 DEF Join
        <4>2. RemoveDevice(r) \/ Enrol(r) => runs' = runs
          BY DEF RemoveDevice, Enrol
        <4>3. FindDevice(r) => r \in Rows
          BY Zenon DEF FindDevice
        <4>4. QED
          BY <4>1, <4>2, <4>3
      <3>3. CASE Age
        BY <3>3 DEF Age, LeaseLapses, KeyAges, DeviceExpires
      <3>4. QED
        BY <1>2, <3>1, <3>2, <3>3 DEF StoreNext
    <2>2. QED
      BY <1>0, <2>1, AdvancedRowMoves, FoundRowRests, RowsRest
  <1>3. CASE AdmissionNext
    <2>1. (\E k : runs' = Append(runs, CreatedRun(k))) \/ runs' = runs
      BY <1>3
      DEF AdmissionNext, LaunchLiveRun, Submit, FindByIdempotencyKey, CreateRun,
          InsertRun, AcquireLease, Retry, Move, storeVars
    <2>2. QED
      BY <1>0, <2>1, InsertedRowBegins, RowsRest
  <1>4. CASE BrokerNext
    BY <1>4, RowsRest DEF BrokerNext, storeVars
  <1>5. CASE PrunerNext
    <2>1. runs' = runs
      BY <1>5, PrunerLeavesRows
    <2>2. QED
      BY <2>1, RowsRest
  <1>6. CASE RecoveryNext
    <2>1. \A s \in recovery.queue : s.run \in Rows
      BY DEF FleetInv, RecoveryInv
    <2>2. \/ \E s \in recovery.queue : QuarantineRun(s)
          \/ runs' = runs
      BY <1>6 DEF RecoveryNext, ListInFlightRuns, ReacquireLease, SweepDevice, storeVars
    <2>3. QED
      BY <1>0, <2>1, <2>2, QuarantinedRowMoves, RowsRest
  <1>7. CASE Crash
    BY <1>0, <1>7, CrashedRowsRest DEF Crash
  <1>8. QED
    BY <1>1, <1>2, <1>3, <1>4, <1>5, <1>6, <1>7 DEF Next

\* Every row of factory_runs begins and moves as RunPhases says, although an
\* admission, a dispatcher, a teardown and a recovery work on it side by side.
THEOREM RowsFollowRunPhases == Spec => RowsAreRuns
  <1>1. ASSUME RowsMove
        PROVE  /\ \A r \in Rows :
                    r \in Rows' /\ (RunOf(r)!Next \/ UNCHANGED RunOf(r)!vars)
               /\ \A r \in Rows' \ Rows : RunOf(r)!Init'
    BY <1>1
    DEF RowsMove, RowMoves, RunOf!Next, RunOf!Transition, RunOf!vars, RunOf!Init,
        RunOf!canTransition, canTransition, RunOf!Phase, Phase,
        RunOf!ALLOWED_TRANSITIONS, ALLOWED_TRANSITIONS
  <1>2. QED
    BY <1>1, RowsAreMoved, FleetInvariance, PTL DEF Spec, RowsAreRuns
=============================================================================
