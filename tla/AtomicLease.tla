---------------------------- MODULE AtomicLease ----------------------------
(***************************************************************************)
(* What the lease manager promises of one run as long as no call writes    *)
(* over a row that changed after it read it: a lease is granted, extended  *)
(* or ended in one step, which decides by the row it replaces and by a     *)
(* time that is not ahead of the clock.  Once calls have raced, nothing is *)
(* promised any more.                                                      *)
(***************************************************************************)
EXTENDS Integers

CONSTANTS Holders, NoHolder, Ttl

VARIABLES
  lease,   \* who holds the lease, under which token, until when
  forced,  \* it was granted by force
  now,     \* the clock
  raced    \* a call has written over a row it had not seen

vars == <<lease, forced, now, raced>>

Init ==
  /\ lease = [holder |-> NoHolder, token |-> 0, expires |-> 0]
  /\ forced = FALSE
  /\ now = 1
  /\ raced = FALSE

\* A lease that is active at the time of the call is respected, unless it is
\* the caller's own or the caller says so.
Grant(holder, at) ==
  /\ forced' \in BOOLEAN
  /\ lease.expires <= at \/ lease.holder = holder \/ forced'
  /\ lease' = [holder |-> holder, token |-> lease.token + 1,
               expires |-> at + Ttl]

\* A lease that has expired is not revived.
Extend(at) ==
  /\ lease.holder \in Holders
  /\ lease.expires > at
  /\ lease' = [lease EXCEPT !.expires = at + Ttl]
  /\ UNCHANGED forced

End ==
  /\ lease.token > 0
  /\ lease' = [lease EXCEPT !.expires = 0]
  /\ UNCHANGED forced

Call ==
  /\ \/ \E at \in 0 .. now :
          Extend(at) \/ \E holder \in Holders : Grant(holder, at)
     \/ End
  /\ UNCHANGED <<now, raced>>

Tick == now' = now + 1 /\ UNCHANGED <<lease, forced, raced>>

Race == raced' = TRUE

Next == Tick \/ Call \/ Race

Spec == Init /\ [][Next]_vars
=============================================================================
