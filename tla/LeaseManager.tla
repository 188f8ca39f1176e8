---------------------------- MODULE LeaseManager ----------------------------
(***************************************************************************)
(* acquireLease, renewLease and releaseLease of core/leaseManager.ts over  *)
(* SupabaseLeaseStorage, for the lease of one run.                         *)
(*                                                                         *)
(* Each call takes the time, reads the row and checks it, reads the row    *)
(* again inside upsertLease to choose between UPDATE and INSERT, and       *)
(* writes.  Each of these is a request of its own, so that other calls and *)
(* the clock move in between; any request may fail, and the process may    *)
(* die.  The UPDATE is filtered by the run's id alone.                     *)
(*                                                                         *)
(* A definition commented "Mutant of" is a plausible mistake in the code.  *)
(***************************************************************************)
EXTENDS Integers

CONSTANTS
  Calls,            \* the calls that may be in flight together
  Holders,          \* the workers they are made for
  NoHolder,         \* not a worker
  Ttl,              \* the ttlMs or extensionMs of every call
  MaxTime,          \* bound on the clock
  MaxAcquisitions   \* bound on the leases ever granted

ASSUME ConstantsAssumption ==
  /\ NoHolder \notin Holders
  /\ Ttl \in Nat \ {0}
  /\ MaxTime \in Nat
  /\ MaxAcquisitions \in Nat

VARIABLES
  lease,      \* the row of table leases; token 0 when there is none
  now,        \* Date.now()
  pc,         \* where each call is
  req,        \* the arguments of each call
  began,      \* the time each call took when it was made
  seen,       \* the row each call read
  forced,     \* auxiliary: the last lease was granted to a call with force
  acquired,   \* auxiliary: how many leases have been granted
  overtaken,  \* auxiliary: calls whose row was written since they read it
  raced       \* auxiliary: an overtaken call has written

vars == <<lease, now, pc, req, began, seen, forced, acquired, overtaken, raced>>
granted == <<forced, acquired>>

NoLease == [holder |-> NoHolder, token |-> 0, expires |-> 0]

Acquisitions ==
  [op : {"acquire"}, holder : Holders, token : {0}, force : BOOLEAN]
Renewals ==
  [op : {"renew"}, holder : Holders, token : 1 .. MaxAcquisitions,
   force : {FALSE}]
Releases ==
  [op : {"release"}, holder : {NoHolder}, token : 1 .. MaxAcquisitions,
   force : {FALSE}]

Requests == Acquisitions \cup Renewals \cup Releases
NoRequest == [op |-> "release", holder |-> NoHolder, token |-> 0,
              force |-> FALSE]

Init ==
  /\ lease = NoLease
  /\ now = 1
  /\ pc = [c \in Calls |-> "idle"]
  /\ req = [c \in Calls |-> NoRequest]
  /\ began = [c \in Calls |-> 0]
  /\ seen = [c \in Calls |-> NoLease]
  /\ forced = FALSE
  /\ acquired = 0
  /\ overtaken = {}
  /\ raced = FALSE

-----------------------------------------------------------------------------
Tick ==
  /\ now < MaxTime
  /\ now' = now + 1
  /\ UNCHANGED <<lease, pc, req, began, seen, granted, overtaken, raced>>

Begin(c, r) ==
  /\ pc[c] = "idle"
  /\ pc' = [pc EXCEPT ![c] = "reading"]
  /\ req' = [req EXCEPT ![c] = r]
  /\ began' = [began EXCEPT ![c] = now]
  /\ UNCHANGED <<lease, now, seen, granted, overtaken, raced>>

\* Mutant of MayAcquire: nobody asks who holds the lease.
MayAcquireAlways(c, row) == req[c].op = "acquire"

\* Active leases of others are respected, unless the call is forced.
MayAcquire(c, row) ==
  /\ req[c].op = "acquire"
  /\ row.expires > began[c] /\ row.holder # req[c].holder => req[c].force

\* Mutant of MayRenew: the expiry is not checked.
MayRenewLate(c, row) ==
  /\ req[c].op = "renew"
  /\ row.token = req[c].token
  /\ row.holder = req[c].holder

MayRenew(c, row) ==
  /\ req[c].op = "renew"
  /\ row.token = req[c].token
  /\ row.expires > began[c]
  /\ row.holder = req[c].holder

MayRelease(c, row) ==
  /\ req[c].op = "release"
  /\ row.token = req[c].token

\* The call's read of the row, and the checks made on it.
ReadAndCheck(c) ==
  /\ pc[c] = "reading"
  /\ MayAcquire(c, lease) \/ MayRenew(c, lease) \/ MayRelease(c, lease)
  /\ seen' = [seen EXCEPT ![c] = lease]
  /\ overtaken' = overtaken \ {c}
  /\ pc' = [pc EXCEPT ![c] = "upserting"]
  /\ UNCHANGED <<lease, now, req, began, granted, raced>>

\* upsertLease reads the row again.
ReadForUpsert(c) ==
  /\ pc[c] = "upserting"
  /\ pc' = [pc EXCEPT ![c] = IF lease = NoLease THEN "inserting"
                                                ELSE "updating"]
  /\ UNCHANGED <<lease, now, req, began, seen, granted, overtaken, raced>>

\* Mutant of NextToken: re-acquiring one's own lease keeps its token.
NextTokenOfOthers(c) ==
  IF seen[c].holder = req[c].holder THEN seen[c].token ELSE seen[c].token + 1

NextToken(c) == seen[c].token + 1

\* Mutant of Released: the rest of the row is not carried over.
ReleasedAlone(row) == [expires |-> 0]

Released(row) == [row EXCEPT !.expires = 0]

\* The row the call writes.
Row(c) ==
  IF req[c].op = "acquire"
  THEN [holder |-> req[c].holder, token |-> NextToken(c),
        expires |-> began[c] + Ttl]
  ELSE IF req[c].op = "renew"
       THEN [seen[c] EXCEPT !.expires = began[c] + Ttl]
       ELSE Released(seen[c])

Pending(c) == pc[c] \in {"upserting", "updating", "inserting"}

\* The UPDATE, whatever the row now is, or the INSERT, which the primary
\* key rejects when there is a row.  The reply may still get lost.
Write(c) ==
  /\ pc[c] = "updating" \/ (pc[c] = "inserting" /\ lease = NoLease)
  /\ req[c].op = "acquire" => acquired < MaxAcquisitions
  /\ lease' = Row(c)
  /\ IF req[c].op = "acquire"
     THEN acquired' = acquired + 1 /\ forced' = req[c].force
     ELSE UNCHANGED granted
  /\ raced' = (raced \/ c \in overtaken)
  /\ overtaken' = {d \in Calls \ {c} : d \in overtaken \/ Pending(d)}
  /\ pc' = [pc EXCEPT ![c] = "idle"]
  /\ req' = [req EXCEPT ![c] = NoRequest]
  /\ seen' = [seen EXCEPT ![c] = NoLease]
  /\ began' = [began EXCEPT ![c] = 0]
  /\ UNCHANGED now

\* The call ends without a write: a check failed, a request failed, there
\* was nothing to release, or the process died.
Throw(c) ==
  /\ pc[c] # "idle"
  /\ pc' = [pc EXCEPT ![c] = "idle"]
  /\ req' = [req EXCEPT ![c] = NoRequest]
  /\ seen' = [seen EXCEPT ![c] = NoLease]
  /\ began' = [began EXCEPT ![c] = 0]
  /\ overtaken' = overtaken \ {c}
  /\ UNCHANGED <<lease, now, granted, raced>>

Next ==
  \/ Tick
  \/ \E c \in Calls :
       \/ \E r \in Requests : Begin(c, r)
       \/ ReadAndCheck(c) \/ ReadForUpsert(c) \/ Write(c) \/ Throw(c)

Spec == Init /\ [][Next]_vars

-----------------------------------------------------------------------------
LeaseRow == [holder : Holders \cup {NoHolder}, token : Nat, expires : Nat]

\* Every variable holds a value of its kind.
TypeOK ==
  /\ lease \in LeaseRow
  /\ now \in Nat \ {0}
  /\ pc \in [Calls -> {"idle", "reading", "upserting", "updating",
                       "inserting"}]
  /\ req \in [Calls -> Requests \cup {NoRequest}]
  /\ began \in [Calls -> Nat]
  /\ seen \in [Calls -> LeaseRow]
  /\ forced \in BOOLEAN
  /\ acquired \in Nat
  /\ overtaken \subseteq Calls
  /\ raced \in BOOLEAN

(***************************************************************************)
(* The fencing token never runs ahead of the leases granted, and it is     *)
(* their number exactly as long as no call has written over a row that     *)
(* changed after it read it.  (acquireLease's "existing token + 1")        *)
(***************************************************************************)
TokenCountsAcquisitions ==
  /\ lease.token <= acquired
  /\ ~raced => lease.token = acquired

(***************************************************************************)
(* Without such a race, and although the clock moves between the check and *)
(* the write, a lease changes hands only when it has expired or the taker  *)
(* forces it.  (the LeaseConflictError of acquireLease)                    *)
(***************************************************************************)
ActiveLeaseIsNotTaken ==
  [][ ~raced' /\ lease'.holder # lease.holder =>
        lease.expires <= now \/ forced' ]_vars

(***************************************************************************)
(* Without such a race, a token names one term of one worker: under the    *)
(* same token the holder stays, and a released lease stays released.       *)
(* (the checks of renewLease and releaseLease)                             *)
(***************************************************************************)
TermIsStable ==
  [][ ~raced' /\ lease'.token = lease.token =>
        /\ lease'.holder = lease.holder
        /\ lease.expires = 0 => lease'.expires = 0 ]_vars

(***************************************************************************)
(* Until two calls race, the requests of a call, which reads the clock     *)
(* first, then the row, then the row again, and writes last, amount to one *)
(* step that decides by the row it replaces.  (acquireLease, renewLease    *)
(* and releaseLease over SupabaseLeaseStorage)                             *)
(***************************************************************************)
Abstract == INSTANCE AtomicLease
ImplementsAtomicLease == Abstract!Spec

(***************************************************************************)
(* "Monotonic fencing token strictly increases on every acquisition", with *)
(* calls that overlap.  (docs/v0.2_implementation_backlog.md, ISSUE-03)    *)
(***************************************************************************)
FencingTokenIncreases ==
  [][ acquired' > acquired => lease'.token > lease.token ]_vars
=============================================================================
