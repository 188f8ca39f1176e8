----------------------------- MODULE Admission -----------------------------
(***************************************************************************)
(* POST /runs and admitRequest (core/ingress.ts): a request is checked,    *)
(* its idempotency key is looked up, the run is inserted, and its first    *)
(* lease is acquired.  The lookup, the insert and the lease are requests   *)
(* of their own to the store: two admissions of one key interleave, and    *)
(* each of the three may fail, with or without having been applied.        *)
(* Beside them the live runner (core/liveRunner.ts) inserts runs itself.   *)
(***************************************************************************)
EXTENDS FleetStore

CONSTANTS
  Admissions,  \* requests of clients
  KeysOf,      \* the keys each of them may carry
  Drafting     \* those whose policy version, digest and content are arbitrary

ASSUME KeysOfAssumption == KeysOf \in [Admissions -> SUBSET (Keys \cup {NoKey})]

VARIABLES
  admission,   \* where each request is
  cutShort     \* auxiliary: runs whose admission ended before their lease

(***************************************************************************)
(* A request is told apart by whether its policy version is supported,     *)
(* whether its ids and commit are well formed, the digest of AGENTS.md and *)
(* the content of it that it carries.  A digest is named by the content it *)
(* is the digest of; "plain" is any harmless content.                      *)
(***************************************************************************)
Contents == {"none", "empty", "plain", "forbidden"}
Draft ==
  [supported : BOOLEAN, wellFormed : BOOLEAN,
   digest : Contents \cup {"malformed"}, content : Contents]
GoodDraft ==
  [supported |-> TRUE, wellFormed |-> TRUE, digest |-> "none",
   content |-> "none"]

NoRequest == [pc |-> "idle", key |-> NoKey, draft |-> GoodDraft, run |-> 0]

Admission ==
  [pc : {"idle", "find", "create", "lease", "answered", "rejected", "failed"},
   key : Keys \cup {NoKey}, draft : Draft, run : 0..MaxRuns]

AdmissionTypeOK ==
  /\ admission \in [Admissions -> Admission]
  /\ cutShort \subseteq RunIds

AdmissionInit ==
  /\ admission = [a \in Admissions |-> NoRequest]
  /\ cutShort = {}

-----------------------------------------------------------------------------
\* The handler fills in a missing digest: of the content, if that is not the
\* empty string, else 64 zeros, which are the digest of nothing.
DigestOf(d) ==
  IF d.digest # "none" THEN d.digest
  ELSE IF d.content \in {"none", "empty"} THEN "zeros" ELSE d.content

\* Mutant: the digest of the content is not compared.
verifyFormatOnly(d) ==
  d.supported /\ DigestOf(d) # "malformed" /\ d.content # "forbidden"

verifyAdmissionRequest(d) ==
  /\ d.supported
  /\ DigestOf(d) # "malformed"
  /\ d.content # "none" =>
       DigestOf(d) = d.content /\ d.content # "forbidden"

Move(a, pc) == admission' = [admission EXCEPT ![a].pc = pc]

\* A request that fails any check is answered with an error and forgotten.
Submit(a, k, d) ==
  /\ a \in workload /\ admission[a].pc = "idle"
  /\ a \notin Drafting => d = GoodDraft
  /\ admission' = [admission EXCEPT ![a] =
       [pc |-> IF verifyAdmissionRequest(d) /\ d.wellFormed
               THEN "find" ELSE "rejected",
        key |-> k, draft |-> d, run |-> 0]]
  /\ NoFault /\ UNCHANGED <<storeVars, cutShort>>

HasKey(r, k) == r \in Rows /\ runs[r].key = k /\ k # NoKey

\* A request without a key gets a random one, which no run has.
FindByIdempotencyKey(a) ==
  /\ admission[a].pc = "find"
  /\ \/ /\ NoFault
        /\ \E r \in Rows : HasKey(r, admission[a].key) /\
             admission' = [admission EXCEPT ![a].pc = "answered", ![a].run = r]
     \/ /\ NoFault
        /\ \A r \in Rows : ~HasKey(r, admission[a].key)
        /\ Move(a, "create")
     \/ Fault /\ Move(a, "failed")
  /\ UNCHANGED <<storeVars, cutShort>>

\* Mutant: the table has no such key.
KeyIsNotChecked(k) == TRUE

\* The unique key on tenant and idempotency key.
KeyIsUnused(k) == \A r \in Rows : ~HasKey(r, k)

InsertRun(a) ==
  /\ Len(runs) < MaxRuns
  /\ KeyIsUnused(admission[a].key)
  /\ runs' = Append(runs, CreatedRun(admission[a].key))
  /\ UNCHANGED <<leases, tailnet, authKeys>>

CreateRun(a) ==
  /\ admission[a].pc = "create"
  /\ \/ /\ NoFault /\ InsertRun(a)
        /\ admission' = [admission EXCEPT ![a].pc = "lease",
                                          ![a].run = Len(runs) + 1]
        /\ UNCHANGED cutShort
     \/ /\ NoFault /\ ~KeyIsUnused(admission[a].key)
        /\ Move(a, "failed")
        /\ UNCHANGED <<storeVars, cutShort>>
     \/ /\ Fault /\ Move(a, "failed")
        /\ UNCHANGED <<storeVars, cutShort>>
     \/ /\ Fault /\ Move(a, "failed")
        /\ InsertRun(a)
        /\ cutShort' = cutShort \cup {Len(runs) + 1}

\* Mutant: the answer does not wait for the lease.
AnswerBeforeLease(a) ==
  /\ admission[a].pc = "lease"
  /\ NoFault /\ Move(a, "answered")
  /\ UNCHANGED <<storeVars, cutShort>>

AcquireLease(a) ==
  /\ admission[a].pc = "lease"
  /\ \/ /\ NoFault /\ Move(a, "answered")
        /\ leases' = [leases EXCEPT ![admission[a].run] = "active"]
        /\ UNCHANGED cutShort
     \/ /\ Fault /\ Move(a, "failed")
        /\ leases' \in {leases,
             [leases EXCEPT ![admission[a].run] = "active"]}
        /\ cutShort' = cutShort \cup {admission[a].run}
  /\ UNCHANGED <<runs, tailnet, authKeys>>

\* The client sends a failed request again.
Retry(a) ==
  /\ admission[a].pc = "failed"
  /\ admission' = [admission EXCEPT ![a].pc = "find", ![a].run = 0]
  /\ NoFault /\ UNCHANGED <<storeVars, cutShort>>

\* The process dies: the clients see their connections end.
AdmissionsDie ==
  /\ admission' = [a \in Admissions |->
       IF admission[a].pc \in {"find", "create", "lease"}
       THEN [admission[a] EXCEPT !.pc = "failed"] ELSE admission[a]]
  /\ cutShort' = cutShort \cup
       {admission[a].run : a \in {b \in Admissions : admission[b].pc = "lease"}}

\* POST /runs/live-e2e: the live runner inserts a run of its own, which it
\* dispatches next, and acquires no lease.  The reply to the insert may be lost.
LaunchLiveRun ==
  /\ "live" \in workload
  /\ Len(runs) < MaxRuns
  /\ runs' = Append(runs, CreatedRun(LiveKey))
  /\ NoFault \/ Fault
  /\ UNCHANGED <<leases, tailnet, authKeys, admission, cutShort>>

AdmissionNext ==
  \/ LaunchLiveRun
  \/ \E a \in Admissions :
       \/ \E k \in KeysOf[a], d \in Draft : Submit(a, k, d)
       \/ FindByIdempotencyKey(a)
       \/ CreateRun(a)
       \/ AcquireLease(a)
       \/ Retry(a)

-----------------------------------------------------------------------------
\* However many requests with one key overlap, fail and are sent again, the
\* key has one run and every answer names it.
RunOfKey(k) ==
  IF \E r \in Rows : HasKey(r, k)
  THEN CHOOSE r \in Rows : HasKey(r, k) ELSE 0

AnswerOf(a) ==
  IF admission[a].pc = "answered" /\ admission[a].key # NoKey
  THEN [key |-> admission[a].key, run |-> admission[a].run]
  ELSE [key |-> "none", run |-> 0]

Registry == INSTANCE RunRegistry
  WITH Requests <- Admissions,
       registry <- [k \in Keys |-> RunOfKey(k)],
       answers <- [a \in Admissions |-> AnswerOf(a)]

ImplementsRunRegistry == Registry!Spec

\* A run without a lease is one of the live runner, which acquires none, or one
\* whose admission is about to acquire it or was cut short: the request that is
\* sent again finds the run and takes no lease.
UnleasedRunIsExplained ==
  \A r \in Rows :
    leases[r] = "none" =>
      \/ runs[r].key = LiveKey
      \/ r \in cutShort
      \/ \E a \in Admissions : admission[a].pc = "lease" /\ admission[a].run = r

\* A well-formed request passes exactly if its policy is supported, it carries
\* no forbidden directive, and its digest, if it has one, is that of its
\* content, if it has any: save that empty content without a digest, which
\* the handler takes for no content and the check does not, is refused.
AdmissionIsExact ==
  \A a \in Admissions :
    LET d == admission[a].draft
        consistent == \/ d.digest = "none" \/ d.content = "none"
                      \/ d.digest = d.content
        misread == d.digest = "none" /\ d.content = "empty" IN
    /\ admission[a].pc \notin {"idle", "rejected"} =>
         /\ d.supported /\ d.wellFormed /\ d.digest # "malformed"
         /\ d.content # "forbidden" /\ consistent
    /\ admission[a].pc = "rejected" =>
         \/ ~d.supported \/ ~d.wellFormed \/ d.digest = "malformed"
         \/ d.content = "forbidden" \/ ~consistent \/ misread
=============================================================================
