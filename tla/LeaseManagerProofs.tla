------------------------- MODULE LeaseManagerProofs -------------------------
(***************************************************************************)
(* The properties of LeaseManager for any number of overlapping calls and  *)
(* of workers, any duration and any bounds.                                *)
(***************************************************************************)
EXTENDS LeaseManager, TLAPS

(***************************************************************************)
(* The strengthening: a call about to write has passed its check on the    *)
(* row it read, which has not changed since unless the call was overtaken, *)
(* and whose token was no further than the leases granted.                 *)
(***************************************************************************)
Permitted(c, row) == MayAcquire(c, row) \/ MayRenew(c, row) \/ MayRelease(c, row)

PendingCallsAreChecked ==
  \A c \in Calls :
    Pending(c) =>
      /\ Permitted(c, seen[c])
      /\ seen[c].token <= acquired
      /\ c \notin overtaken => seen[c] = lease

ClockNeverBehind == \A c \in Calls : began[c] <= now

CallsAreRequests == \A c \in Calls : pc[c] # "idle" => req[c] \in Requests

IInv ==
  /\ TypeOK
  /\ CallsAreRequests
  /\ TokenCountsAcquisitions
  /\ PendingCallsAreChecked
  /\ ClockNeverBehind

-----------------------------------------------------------------------------
\* Init: nothing is pending and no lease was granted.
LEMMA InitInvariant == Init => IInv
  <1> SUFFICES ASSUME Init PROVE IInv
    OBVIOUS
  <1>1. NoLease \in LeaseRow
    BY DEF NoLease, LeaseRow
  <1>2. TypeOK
    <2>1. /\ lease \in LeaseRow
          /\ seen \in [Calls -> LeaseRow]
      BY <1>1 DEF Init
    <2>2. /\ req \in [Calls -> Requests \cup {NoRequest}]
          /\ raced \in BOOLEAN /\ forced \in BOOLEAN
      BY DEF Init
    <2>3. /\ now \in Nat \ {0} /\ acquired \in Nat
          /\ began \in [Calls -> Nat]
          /\ pc \in [Calls -> {"idle", "reading", "upserting", "updating",
                               "inserting"}]
          /\ overtaken \subseteq Calls
      BY DEF Init
    <2>4. QED
      BY <2>1, <2>2, <2>3 DEF TypeOK
  <1>3. /\ TokenCountsAcquisitions /\ PendingCallsAreChecked
        /\ ClockNeverBehind /\ CallsAreRequests
    BY DEF Init, CallsAreRequests, TokenCountsAcquisitions, PendingCallsAreChecked, Pending,
           ClockNeverBehind, NoLease
  <1>4. QED
    BY <1>2, <1>3 DEF IInv

\* A call is one of three, and an acquisition is made for a worker.
LEMMA RequestKinds ==
  ASSUME NEW r \in Requests \cup {NoRequest}
  PROVE  /\ r.op \in {"acquire", "renew", "release"}
         /\ r.op = "acquire" => r.holder \in Holders
  <1>1. CASE r \in Acquisitions
    BY <1>1 DEF Acquisitions
  <1>2. CASE r \in Renewals
    BY <1>2 DEF Renewals
  <1>3. CASE r \in Releases
    BY <1>3 DEF Releases
  <1>4. CASE r = NoRequest
    BY <1>4 DEF NoRequest
  <1>5. QED
    BY <1>1, <1>2, <1>3, <1>4 DEF Requests

\* An acquisition is forced or not, a renewal has a worker, and whoever
\* releases names a token.
LEMMA RequestArguments ==
  ASSUME NEW r \in Requests
  PROVE  /\ r.op = "acquire" => r.holder \in Holders /\ r.force \in BOOLEAN
         /\ r.op = "renew" => r.holder \in Holders
         /\ r.op = "release" => r.token > 0
  <1>1. CASE r \in Acquisitions
    <2>1. r.holder \in Holders /\ r.force \in BOOLEAN /\ r.op = "acquire"
      BY <1>1 DEF Acquisitions
    <2>2. QED
      BY <2>1
  <1>2. CASE r \in Renewals
    BY <1>2 DEF Renewals
  <1>3. CASE r \in Releases
    BY <1>3, ConstantsAssumption DEF Releases
  <1>4. QED
    BY <1>1, <1>2, <1>3 DEF Requests

\* Whatever was asked, a call writes a well-formed row.
LEMMA RowIsTyped ==
  ASSUME TypeOK, NEW c \in Calls
  PROVE  Row(c) \in LeaseRow
  <1>1. /\ req[c] \in Requests \cup {NoRequest}
        /\ seen[c] \in LeaseRow
        /\ began[c] + Ttl \in Nat
    BY ConstantsAssumption DEF TypeOK
  <1>2. CASE req[c].op = "acquire"
    <2>1. req[c].holder \in Holders
      BY <1>1, <1>2, RequestKinds
    <2>2. seen[c].token + 1 \in Nat
      BY <1>1 DEF LeaseRow
    <2>3. QED
      BY <1>1, <1>2, <2>1, <2>2 DEF Row, NextToken, LeaseRow
  <1>3. CASE req[c].op = "renew"
    BY <1>1, <1>3 DEF Row, LeaseRow
  <1>4. CASE req[c].op = "release"
    BY <1>1, <1>4 DEF Row, Released, LeaseRow
  <1>5. req[c].op \in {"acquire", "renew", "release"}
    BY <1>1, RequestKinds
  <1>6. QED
    BY <1>2, <1>3, <1>4, <1>5

\* An acquisition writes the token after the one it read; the other calls
\* write the token and the holder they read.
LEMMA RowContents ==
  ASSUME TypeOK, NEW c \in Calls
  PROVE  /\ req[c].op = "acquire" =>
              Row(c) = [holder |-> req[c].holder, token |-> seen[c].token + 1,
                        expires |-> began[c] + Ttl]
         /\ req[c].op # "acquire" => /\ Row(c).token = seen[c].token
                                     /\ Row(c).holder = seen[c].holder
         /\ req[c].op = "release" => Row(c).expires = 0
  <1>1. /\ req[c] \in Requests \cup {NoRequest}
        /\ seen[c] \in LeaseRow
    BY DEF TypeOK
  <1>2. req[c].op \in {"acquire", "renew", "release"}
    BY <1>1, RequestKinds
  <1>3. QED
    BY <1>1, <1>2 DEF Row, NextToken, Released, LeaseRow

-----------------------------------------------------------------------------
\* A call is made with a request, and keeps it until it ends.
LEMMA RequestsAreKept ==
  ASSUME TypeOK, CallsAreRequests, [Next]_vars
  PROVE  CallsAreRequests'
  <1>1. CASE \E c \in Calls : Write(c) \/ Throw(c)
    BY <1>1 DEF TypeOK, CallsAreRequests, Write, Throw
  <1>2. CASE \E c \in Calls : ReadAndCheck(c) \/ ReadForUpsert(c)
    BY <1>2 DEF TypeOK, CallsAreRequests, ReadAndCheck, ReadForUpsert
  <1>3. CASE \E c \in Calls, r \in Requests : Begin(c, r)
    BY <1>3 DEF TypeOK, CallsAreRequests, Begin
  <1>4. CASE Tick \/ UNCHANGED vars
    BY <1>4 DEF CallsAreRequests, Tick, vars
  <1>5. QED
    BY <1>1, <1>2, <1>3, <1>4 DEF Next

\* Every action of every call keeps the invariant.
LEMMA NextInvariant == IInv /\ [Next]_vars => IInv'
  <1> SUFFICES ASSUME IInv, [Next]_vars
               PROVE  IInv'
    OBVIOUS
  <1> USE ConstantsAssumption
  <1>0. CallsAreRequests'
    BY RequestsAreKept DEF IInv
  <1>1. CASE Tick
    <2>1. TypeOK'
      BY <1>1 DEF Tick, granted, IInv, TypeOK
    <2>2. TokenCountsAcquisitions' /\ PendingCallsAreChecked'
      BY <1>1
      DEF Tick, granted, IInv, TokenCountsAcquisitions, PendingCallsAreChecked,
          Permitted, MayAcquire, MayRenew, MayRelease, Pending
    <2>3. ClockNeverBehind'
      BY <1>1 DEF Tick, IInv, TypeOK, ClockNeverBehind
    <2>4. QED
      BY <1>0, <2>1, <2>2, <2>3 DEF IInv
  <1>2. ASSUME NEW c \in Calls, NEW r \in Requests, Begin(c, r)
        PROVE  IInv'
    <2>1. TypeOK'
      BY <1>2 DEF Begin, granted, IInv, TypeOK
    <2>2. TokenCountsAcquisitions'
      BY <1>2 DEF Begin, granted, IInv, TokenCountsAcquisitions
    <2>3. \A d \in Calls :
            Pending(d)' => /\ d # c /\ Pending(d)
                           /\ req'[d] = req[d] /\ began'[d] = began[d]
      BY <1>2 DEF Begin, granted, IInv, TypeOK, Pending
    <2>4. PendingCallsAreChecked'
      BY <1>2, <2>3
      DEF Begin, granted, IInv, PendingCallsAreChecked, Permitted, MayAcquire,
          MayRenew, MayRelease
    <2>5. ClockNeverBehind'
      BY <1>2 DEF Begin, granted, IInv, TypeOK, ClockNeverBehind
    <2>6. QED
      BY <1>0, <2>1, <2>2, <2>4, <2>5 DEF IInv
  <1>3. ASSUME NEW c \in Calls, ReadAndCheck(c)
        PROVE  IInv'
    <2>1. TypeOK'
      BY <1>3 DEF ReadAndCheck, granted, IInv, TypeOK
    <2>2. TokenCountsAcquisitions' /\ ClockNeverBehind'
      BY <1>3
      DEF ReadAndCheck, granted, IInv, TokenCountsAcquisitions, ClockNeverBehind
    <2>3. ASSUME NEW d \in Calls, Pending(d)'
          PROVE  /\ Permitted(d, seen[d])'
                 /\ (seen[d].token <= acquired)'
                 /\ (d \notin overtaken => seen[d] = lease)'
      <3>1. CASE d = c
        BY <1>3, <3>1
        DEF ReadAndCheck, granted, IInv, TypeOK, TokenCountsAcquisitions, Permitted,
            MayAcquire, MayRenew, MayRelease
      <3>2. CASE d # c
        <4>1. Pending(d) /\ seen'[d] = seen[d]
          BY <1>3, <2>3, <3>2 DEF ReadAndCheck, granted, IInv, TypeOK, Pending
        <4>2. QED
          BY <1>3, <3>2, <4>1
          DEF ReadAndCheck, granted, IInv, PendingCallsAreChecked, Permitted,
              MayAcquire, MayRenew, MayRelease
      <3>3. QED
        BY <3>1, <3>2
    <2>4. QED
      BY <1>0, <2>1, <2>2, <2>3 DEF IInv, PendingCallsAreChecked
  <1>4. ASSUME NEW c \in Calls, ReadForUpsert(c)
        PROVE  IInv'
    <2>1. TypeOK'
      BY <1>4 DEF ReadForUpsert, granted, IInv, TypeOK
    <2>2. \A d \in Calls : Pending(d)' => Pending(d)
      BY <1>4 DEF ReadForUpsert, granted, IInv, TypeOK, Pending
    <2>3. QED
      BY <1>0, <1>4, <2>1, <2>2
      DEF ReadForUpsert, granted, IInv, TokenCountsAcquisitions, ClockNeverBehind,
          PendingCallsAreChecked, Permitted, MayAcquire, MayRenew, MayRelease
  <1>5. ASSUME NEW c \in Calls, Write(c)
        PROVE  IInv'
    <2>1. /\ lease' = Row(c) /\ Row(c) \in LeaseRow
          /\ Pending(c)
      BY <1>5, RowIsTyped DEF Write, granted, IInv, Pending
    <2>2. TypeOK'
      <3>1. /\ lease' \in LeaseRow /\ now' = now
            /\ pc' \in [Calls -> {"idle", "reading", "upserting", "updating",
                                  "inserting"}]
            /\ req' \in [Calls -> Requests \cup {NoRequest}]
        BY <1>5, <2>1 DEF Write, IInv, TypeOK
      <3>2. /\ began' \in [Calls -> Nat]
            /\ seen' \in [Calls -> LeaseRow]
            /\ overtaken' \subseteq Calls
        BY <1>5 DEF Write, IInv, TypeOK, LeaseRow, NoLease
      <3>3. raced' \in BOOLEAN
        BY <1>5 DEF Write, IInv, TypeOK
      <3>4. req[c] \in Requests
        BY <1>5 DEF Write, IInv, CallsAreRequests
      <3>5. forced' \in BOOLEAN
        <4>1. CASE req[c].op = "acquire"
          <5>1. req[c].force \in BOOLEAN
            BY <3>4, <4>1, RequestArguments
          <5>2. forced' = req[c].force
            BY <1>5, <4>1 DEF Write
          <5>3. QED
            BY <5>1, <5>2
        <4>2. CASE req[c].op # "acquire"
          BY <1>5, <4>2 DEF Write, granted, IInv, TypeOK
        <4>3. QED
          BY <4>1, <4>2
      <3>6. acquired' \in Nat
        BY <1>5 DEF Write, granted, IInv, TypeOK
      <3>7. QED
        BY <3>1, <3>2, <3>3, <3>5, <3>6 DEF IInv, TypeOK
    <2>3. /\ seen[c].token <= acquired
          /\ ~raced' => ~raced /\ seen[c] = lease
      BY <1>5, <2>1 DEF Write, granted, IInv, TypeOK, PendingCallsAreChecked
    <2>4. TokenCountsAcquisitions'
      <3>1. /\ acquired \in Nat /\ seen[c].token \in Nat
            /\ ~raced => lease.token = acquired
        BY DEF IInv, TypeOK, LeaseRow, TokenCountsAcquisitions
      <3>2. CASE req[c].op = "acquire"
        <4>1. acquired' = acquired + 1 /\ lease'.token = seen[c].token + 1
          BY <1>5, <2>1, <3>2, RowContents DEF Write, granted, IInv
        <4>2. QED
          BY <2>3, <3>1, <4>1 DEF TokenCountsAcquisitions
      <3>3. CASE req[c].op # "acquire"
        <4>1. acquired' = acquired /\ lease'.token = seen[c].token
          BY <1>5, <2>1, <3>3, RowContents DEF Write, granted, IInv
        <4>2. QED
          BY <2>3, <3>1, <4>1 DEF TokenCountsAcquisitions
      <3>4. QED
        BY <3>2, <3>3
    <2>5. ClockNeverBehind'
      BY <1>5 DEF Write, granted, IInv, TypeOK, ClockNeverBehind
    <2>6. \A d \in Calls :
            Pending(d)' => /\ d # c /\ Pending(d) /\ d \in overtaken'
                           /\ req'[d] = req[d] /\ seen'[d] = seen[d]
                           /\ began'[d] = began[d]
      BY <1>5 DEF Write, granted, IInv, TypeOK, Pending
    <2>7. acquired' \in Nat /\ acquired <= acquired'
      BY <1>5 DEF Write, granted, IInv, TypeOK
    <2>8. PendingCallsAreChecked'
      BY <2>6, <2>7
      DEF IInv, TypeOK, LeaseRow, PendingCallsAreChecked, Permitted,
          MayAcquire, MayRenew, MayRelease
    <2>9. QED
      BY <1>0, <2>2, <2>4, <2>5, <2>8 DEF IInv
  <1>6. ASSUME NEW c \in Calls, Throw(c)
        PROVE  IInv'
    <2>1. TypeOK'
      BY <1>6 DEF Throw, granted, IInv, TypeOK, LeaseRow, NoLease, NoRequest
    <2>2. \A d \in Calls :
            Pending(d)' => /\ d # c /\ Pending(d)
                           /\ req'[d] = req[d] /\ seen'[d] = seen[d]
                           /\ began'[d] = began[d]
      BY <1>6 DEF Throw, granted, IInv, TypeOK, Pending
    <2>3. PendingCallsAreChecked'
      BY <1>6, <2>2
      DEF Throw, granted, IInv, PendingCallsAreChecked, Permitted, MayAcquire,
          MayRenew, MayRelease
    <2>4. ClockNeverBehind' /\ TokenCountsAcquisitions'
      BY <1>6
      DEF Throw, granted, IInv, TypeOK, ClockNeverBehind, TokenCountsAcquisitions
    <2>5. QED
      BY <1>0, <2>1, <2>3, <2>4 DEF IInv
  <1>7. CASE UNCHANGED vars
    BY <1>0, <1>7
    DEF vars, IInv, TypeOK, TokenCountsAcquisitions, PendingCallsAreChecked,
        ClockNeverBehind, Permitted, MayAcquire, MayRenew, MayRelease, Pending
  <1>8. QED
    BY <1>1, <1>2, <1>3, <1>4, <1>5, <1>6, <1>7 DEF Next

\* The invariant holds of every behaviour.
THEOREM InvariantHolds == Spec => []IInv
  <1>1. QED
    BY InitInvariant, NextInvariant, PTL DEF Spec

(***************************************************************************)
(* Every variable keeps its type.                                          *)
(***************************************************************************)
THEOREM TypeCorrect == Spec => []TypeOK
  <1>1. IInv => TypeOK
    BY DEF IInv
  <1>2. QED
    BY <1>1, InvariantHolds, PTL

(***************************************************************************)
(* acquireLease never takes a token beyond the number of leases granted,   *)
(* and takes exactly that number until two calls race.                     *)
(***************************************************************************)
THEOREM TokenIsBounded == Spec => []TokenCountsAcquisitions
  <1>1. IInv => TokenCountsAcquisitions
    BY DEF IInv
  <1>2. QED
    BY <1>1, InvariantHolds, PTL

-----------------------------------------------------------------------------
\* A call that was not overtaken writes over the row it checked.
LEMMA UnracedWrite ==
  ASSUME IInv, NEW c \in Calls, Write(c), ~raced'
  PROVE  /\ Permitted(c, lease)
         /\ seen[c] = lease
         /\ lease' = Row(c)
         /\ req[c].op = "acquire" => forced' = req[c].force
BY DEF Write, IInv, TypeOK, PendingCallsAreChecked, Pending

\* Only Write touches the row.
LEMMA OthersKeepTheRow ==
  ASSUME [Next]_vars, \A c \in Calls : ~Write(c)
  PROVE  lease' = lease
BY DEF Next, vars, Tick, Begin, ReadAndCheck, ReadForUpsert, Throw

(***************************************************************************)
(* Outside a race, acquireLease takes another worker's lease only when it  *)
(* has expired by the time of the write, or by force.                      *)
(***************************************************************************)
THEOREM ActiveLeasesAreSafe == Spec => ActiveLeaseIsNotTaken
  <1> DEFINE taken == lease.expires <= now \/ forced'
  <1>1. ASSUME IInv, [Next]_vars, ~raced', lease'.holder # lease.holder
        PROVE  taken
    <2>1. PICK c \in Calls : Write(c)
      BY <1>1, OthersKeepTheRow
    <2>2. /\ Permitted(c, lease) /\ seen[c] = lease /\ lease' = Row(c)
          /\ req[c].op = "acquire" => forced' = req[c].force
      BY <1>1, <2>1, UnracedWrite
    <2>3. req[c].op = "acquire"
      BY <1>1, <2>2, RowContents DEF IInv
    <2>4. lease'.holder = req[c].holder
      BY <1>1, <2>2, <2>3, RowContents DEF IInv
    <2>5. lease.expires > began[c] => req[c].force
      BY <1>1, <2>2, <2>3, <2>4
      DEF Permitted, MayAcquire, MayRenew, MayRelease
    <2>6. /\ lease.expires \in Nat /\ began[c] \in Nat /\ now \in Nat
          /\ began[c] <= now
      BY <1>1 DEF IInv, TypeOK, LeaseRow, ClockNeverBehind
    <2>7. lease.expires <= now \/ req[c].force
      BY <2>5, <2>6
    <2>8. QED
      BY <2>2, <2>3, <2>7
  <1>2. IInv /\ [Next]_vars =>
          [~raced' /\ lease'.holder # lease.holder => taken]_vars
    BY <1>1
  <1>3. QED
    BY <1>2, InvariantHolds, PTL DEF Spec, ActiveLeaseIsNotTaken

(***************************************************************************)
(* Outside a race, neither renewLease nor releaseLease ever changes the    *)
(* holder behind a token or revives a lease that was released.             *)
(***************************************************************************)
THEOREM TermsAreStable == Spec => TermIsStable
  <1> DEFINE stable == /\ lease'.holder = lease.holder
                       /\ lease.expires = 0 => lease'.expires = 0
  <1>1. ASSUME IInv, [Next]_vars, ~raced', lease'.token = lease.token
        PROVE  stable
    <2>1. CASE \A c \in Calls : ~Write(c)
      BY <1>1, <2>1, OthersKeepTheRow
    <2>2. ASSUME NEW c \in Calls, Write(c)
          PROVE  stable
      <3>1. /\ Permitted(c, lease) /\ seen[c] = lease /\ lease' = Row(c)
        BY <1>1, <2>2, UnracedWrite
      <3>2. req[c].op # "acquire"
        <4>1. lease.token \in Nat
          BY <1>1 DEF IInv, TypeOK, LeaseRow
        <4>2. QED
          BY <1>1, <3>1, <4>1, RowContents DEF IInv
      <3>3. lease'.holder = lease.holder
        BY <1>1, <3>1, <3>2, RowContents DEF IInv
      <3>4. CASE req[c].op = "release"
        BY <1>1, <3>1, <3>3, <3>4, RowContents DEF IInv
      <3>5. CASE req[c].op # "release"
        <4>1. MayRenew(c, lease)
          BY <3>1, <3>2, <3>5 DEF Permitted, MayAcquire, MayRelease
        <4>2. began[c] \in Nat /\ lease.expires > began[c]
          BY <1>1, <4>1 DEF IInv, TypeOK, MayRenew
        <4>3. QED
          BY <3>3, <4>2
      <3>6. QED
        BY <3>4, <3>5
    <2>3. QED
      BY <2>1, <2>2
  <1>2. IInv /\ [Next]_vars =>
          [~raced' /\ lease'.token = lease.token => stable]_vars
    BY <1>1
  <1>3. QED
    BY <1>2, InvariantHolds, PTL DEF Spec, TermIsStable

-----------------------------------------------------------------------------
\* What a call that was not overtaken writes, it could have written in one
\* step, at the time at which it was made.
LEMMA UnracedWriteIsACall ==
  ASSUME IInv, NEW c \in Calls, Write(c), ~raced'
  PROVE  Abstract!Call
  <1> USE ConstantsAssumption
  <1>1. /\ Permitted(c, lease) /\ seen[c] = lease /\ lease' = Row(c)
        /\ req[c].op = "acquire" => forced' = req[c].force
    BY UnracedWrite
  <1>2. now' = now /\ raced' = raced
    BY DEF Write, IInv, TypeOK
  <1>3. began[c] \in 0 .. now
    BY DEF IInv, TypeOK, ClockNeverBehind
  <1>4. req[c] \in Requests
    BY DEF Write, IInv, CallsAreRequests
  <1>5. CASE req[c].op = "acquire"
    <2>1. /\ req[c].holder \in Holders
          /\ req[c].force \in BOOLEAN
      BY <1>4, <1>5, RequestArguments
    <2>2. forced' \in BOOLEAN
      BY <1>1, <1>5, <2>1
    <2>3. \/ lease.expires <= began[c] \/ lease.holder = req[c].holder
          \/ req[c].force
      <3>1. lease.expires \in Nat /\ began[c] \in Nat
        BY DEF IInv, TypeOK, LeaseRow
      <3>2. lease.expires > began[c] /\ lease.holder # req[c].holder
              => req[c].force
        BY <1>1, <1>5 DEF Permitted, MayAcquire, MayRenew, MayRelease
      <3>3. QED
        BY <3>1, <3>2
    <2>4. lease' = [holder |-> req[c].holder, token |-> lease.token + 1,
                    expires |-> began[c] + Ttl]
      BY <1>1, <1>5, RowContents DEF IInv
    <2>5. Abstract!Grant(req[c].holder, began[c])
      BY <1>1, <1>5, <2>2, <2>3, <2>4 DEF Abstract!Grant
    <2>6. QED
      BY <1>2, <1>3, <2>1, <2>5 DEF Abstract!Call
  <1>6. CASE req[c].op = "renew"
    <2>1. MayRenew(c, lease)
      BY <1>1, <1>6 DEF Permitted, MayAcquire, MayRelease
    <2>2. lease.holder \in Holders
      BY <1>4, <1>6, <2>1, RequestArguments DEF MayRenew
    <2>3. lease' = [lease EXCEPT !.expires = began[c] + Ttl]
      BY <1>1, <1>6 DEF Row
    <2>4. forced' = forced
      BY <1>6 DEF Write, granted
    <2>5. Abstract!Extend(began[c])
      BY <2>1, <2>2, <2>3, <2>4 DEF MayRenew, Abstract!Extend
    <2>6. QED
      BY <1>2, <1>3, <2>5 DEF Abstract!Call
  <1>7. CASE req[c].op = "release"
    <2>1. MayRelease(c, lease)
      BY <1>1, <1>7 DEF Permitted, MayAcquire, MayRenew
    <2>2. lease.token > 0
      BY <1>4, <1>7, <2>1, RequestArguments DEF MayRelease
    <2>3. lease' = [lease EXCEPT !.expires = 0]
      BY <1>1, <1>7 DEF Row, Released
    <2>4. forced' = forced
      BY <1>7 DEF Write, granted
    <2>5. QED
      BY <1>2, <2>2, <2>3, <2>4 DEF Abstract!Call, Abstract!End
  <1>8. QED
    BY <1>4, <1>5, <1>6, <1>7, RequestKinds

(***************************************************************************)
(* acquireLease, renewLease and releaseLease, three requests each and      *)
(* beside each other, do what AtomicLease does in one step, until a call   *)
(* writes over a row that it did not see.                                  *)
(***************************************************************************)
THEOREM Refinement == Spec => ImplementsAtomicLease
  <1>1. Init => Abstract!Init
    BY DEF Init, NoLease, Abstract!Init
  <1>2. ASSUME IInv, IInv', [Next]_vars
        PROVE  [Abstract!Next]_(Abstract!vars)
    <2>1. CASE raced'
      <3>1. raced' = TRUE
        BY <1>2, <2>1 DEF IInv, TypeOK
      <3>2. QED
        BY <3>1 DEF Abstract!Next, Abstract!Race
    <2>2. CASE Tick
      BY <2>2 DEF Tick, granted, Abstract!Next, Abstract!Tick
    <2>3. ASSUME NEW c \in Calls, Write(c), ~raced'
          PROVE  Abstract!Call
      BY <1>2, <2>3, UnracedWriteIsACall
    <2>4. CASE UNCHANGED <<lease, forced, now, raced>>
      BY <2>4 DEF Abstract!vars
    <2>5. \/ Tick \/ \E c \in Calls : Write(c)
          \/ UNCHANGED <<lease, forced, now, raced>>
      BY <1>2
      DEF Next, vars, granted, Begin, ReadAndCheck, ReadForUpsert, Throw
    <2>6. QED
      BY <2>1, <2>2, <2>3, <2>4, <2>5 DEF Abstract!Next
  <1>3. IInv /\ IInv' /\ [Next]_vars => [Abstract!Next]_(Abstract!vars)
    BY <1>2
  <1>4. QED
    BY <1>1, <1>3, InvariantHolds, PTL
    DEF Spec, ImplementsAtomicLease, Abstract!Spec
=============================================================================
