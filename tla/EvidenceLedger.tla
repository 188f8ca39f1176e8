--------------------------- MODULE EvidenceLedger ---------------------------
(***************************************************************************)
(* recordEvent and verifyChain of warden/ledger.ts over                    *)
(* SupabaseEvidenceStore, for the evidence chain of one run.               *)
(*                                                                         *)
(* recordEvent reads the head of the chain, signs a record that continues  *)
(* it and inserts the record: two requests, between which other writers    *)
(* (executeRun, executeTeardown, recoverRun, the collector, the inference  *)
(* broker) may insert theirs.  Nothing in the code serializes them; the    *)
(* table's UNIQUE (run_id, sequence) is what rejects the second.           *)
(*                                                                         *)
(* Different records have different hashes, so a record's hash is modelled *)
(* by its place in the table, and 64 zeros by place 0.  Signatures and     *)
(* payloads are abstracted away: nobody rewrites a row.                    *)
(*                                                                         *)
(* A definition commented "Mutant of" is a plausible mistake in the code.  *)
(***************************************************************************)
EXTENDS Naturals, Sequences

CONSTANTS
  Writers,    \* concurrent callers of recordEvent
  MaxRecords  \* bound on the length of the chain

ASSUME ConstantsAssumption == MaxRecords \in Nat

VARIABLES
  records,   \* table evidence_ledger, in insertion order
  pc,        \* where each writer is in recordEvent
  head,      \* the place of the head each writer read
  told,      \* the records recordEvent has returned, with their writers
  attested   \* the chain lengths verifyChain has found valid

vars == <<records, pc, head, told, attested>>

Init ==
  /\ records = <<>>
  /\ pc = [w \in Writers |-> "idle"]
  /\ head = [w \in Writers |-> 0]
  /\ told = {}
  /\ attested = {}

-----------------------------------------------------------------------------
Places == 1 .. Len(records)

\* getChainHead: order by sequence descending, limit 1.
getChainHead ==
  IF records = <<>> THEN 0
  ELSE CHOOSE i \in Places :
         \A j \in Places : records[j].sequence <= records[i].sequence

ReadHead(w) ==
  /\ pc[w] = "idle"
  /\ Len(records) < MaxRecords
  /\ head' = [head EXCEPT ![w] = getChainHead]
  /\ pc' = [pc EXCEPT ![w] = "signed"]
  /\ UNCHANGED <<records, told, attested>>

\* Mutant of NextRecord: the link to the previous event is left out.
UnlinkedRecord(w) ==
  [sequence |-> IF head[w] = 0 THEN 1 ELSE records[head[w]].sequence + 1,
   by |-> w]

\* The record that continues the head the writer read.
NextRecord(w) ==
  [sequence |-> IF head[w] = 0 THEN 1 ELSE records[head[w]].sequence + 1,
   previous |-> head[w],
   by |-> w]

\* Mutant of KeyIsFree: the table lacks the key on the sequence.
AnyKey(w) == TRUE

\* UNIQUE (run_id, sequence).
KeyIsFree(w) ==
  \A i \in Places : records[i].sequence # NextRecord(w).sequence

Leave(w) ==
  /\ pc' = [pc EXCEPT ![w] = "idle"]
  /\ head' = [head EXCEPT ![w] = 0]

\* Mutant of Insert: a taken sequence is ignored, as ON CONFLICT DO NOTHING.
InsertIgnoringConflict(w) ==
  /\ pc[w] = "signed"
  /\ records' = IF KeyIsFree(w) THEN Append(records, NextRecord(w))
                                ELSE records
  /\ told' = told \cup {NextRecord(w)}
  /\ Leave(w)
  /\ UNCHANGED attested

Insert(w) ==
  /\ pc[w] = "signed"
  /\ KeyIsFree(w)
  /\ records' = Append(records, NextRecord(w))
  /\ told' = told \cup {NextRecord(w)}
  /\ Leave(w)
  /\ UNCHANGED attested

\* The record is stored but recordEvent throws, or its process has died.
InsertReplyLost(w) ==
  /\ pc[w] = "signed"
  /\ KeyIsFree(w)
  /\ records' = Append(records, NextRecord(w))
  /\ Leave(w)
  /\ UNCHANGED <<told, attested>>

\* recordEvent throws and has stored nothing.
InsertFails(w) ==
  /\ pc[w] = "signed"
  /\ Leave(w)
  /\ UNCHANGED <<records, told, attested>>

\* verifyChain on the records sorted by sequence: the sequences are 1, 2,
\* 3..., and each record links to the one before it.
ChainIsValid ==
  \A i \in Places :
    /\ \A j \in Places : records[j].sequence = records[i].sequence => j = i
    /\ IF records[i].sequence = 1
       THEN records[i].previous = 0
       ELSE \E j \in Places : /\ records[j].sequence + 1 = records[i].sequence
                              /\ records[i].previous = j

\* Step 12 of a teardown signs the head of a chain it found valid.
verifyChain ==
  /\ ChainIsValid
  /\ attested' = attested \cup {Len(records)}
  /\ UNCHANGED <<records, pc, head, told>>

Next ==
  \/ \E w \in Writers :
       ReadHead(w) \/ Insert(w) \/ InsertReplyLost(w) \/ InsertFails(w)
  \/ verifyChain

Spec == Init /\ [][Next]_vars

-----------------------------------------------------------------------------
Record == [sequence : Nat, previous : Nat, by : Writers]

\* Every variable holds a value of its kind.
TypeOK ==
  /\ records \in Seq(Record)
  /\ pc \in [Writers -> {"idle", "signed"}]
  /\ head \in [Writers -> Nat]
  /\ told \subseteq Record
  /\ attested \subseteq Nat

(***************************************************************************)
(* "Enforces contiguous sequencing and cryptographic hash linking": the    *)
(* chain verifies at every moment, however the writers' reads and inserts  *)
(* interleave and whatever replies are lost.  (EvidenceLedger.recordEvent) *)
(***************************************************************************)
ChainAlwaysVerifies == ChainIsValid

(***************************************************************************)
(* An attested chain is final: what is recorded later goes on from its     *)
(* head and never beside a record under it, so that the signature of the   *)
(* head stands for the same evidence for ever.  (teardown step 12)         *)
(***************************************************************************)
AttestedPrefixIsFinal ==
  \A n \in attested :
    /\ n <= Len(records)
    /\ \A i \in Places : i > n <=> records[i].sequence > n

(***************************************************************************)
(* A record that was returned to its writer is in the chain, and nobody    *)
(* else was returned one of its sequence.  (teardown's flags rest on it)   *)
(***************************************************************************)
AcknowledgedIsRecorded ==
  \A r \in told :
    /\ \E i \in Places : records[i] = r
    /\ \A s \in told : s.sequence = r.sequence => s = r

(***************************************************************************)
(* recordEvent is atomic as far as anyone can tell: although it reads the  *)
(* head in one request and inserts in another, with other writers between  *)
(* them and replies that get lost, the table is a log to which one record  *)
(* is appended at a time, and a writer is told the place of its own.       *)
(***************************************************************************)
Log == INSTANCE EvidenceLog
  WITH log <- [i \in Places |-> records[i].by],
       answers <- {[at |-> r.sequence, to |-> r.by] : r \in told}

ImplementsEvidenceLog == Log!Spec
=============================================================================
