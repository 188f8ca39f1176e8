------------------------ MODULE EvidenceLedgerProofs ------------------------
(***************************************************************************)
(* The evidence chain stays valid, attested prefixes stay final and        *)
(* acknowledged records stay recorded, for any number of writers and any   *)
(* length of the chain.                                                    *)
(***************************************************************************)
EXTENDS EvidenceLedger, TLAPS

(***************************************************************************)
(* The strengthening: thanks to the key on the sequence, rows are inserted *)
(* in the order of the chain, whoever inserts them.                        *)
(***************************************************************************)
RowsFollowTheChain ==
  \A i \in Places : records[i].sequence = i /\ records[i].previous = i - 1

HeadsAreInTheChain == \A w \in Writers : head[w] \in 0 .. Len(records)

AttestedLengths == \A n \in attested : n <= Len(records)

ToldAreRows == \A r \in told : \E i \in Places : records[i] = r

IInv ==
  /\ TypeOK
  /\ RowsFollowTheChain
  /\ HeadsAreInTheChain
  /\ AttestedLengths
  /\ ToldAreRows

-----------------------------------------------------------------------------
\* The empty table.
LEMMA InitInvariant == Init => IInv
BY DEF Init, IInv, TypeOK, RowsFollowTheChain, HeadsAreInTheChain,
       AttestedLengths, ToldAreRows, Places, Record

\* The head of the chain is the last row inserted.
LEMMA HeadIsLast ==
  ASSUME IInv
  PROVE  getChainHead = Len(records)
  <1>1. Len(records) \in Nat /\ records \in Seq(Record)
    BY DEF IInv, TypeOK
  <1>2. CASE records = <<>>
    BY <1>1, <1>2 DEF getChainHead
  <1>3. CASE records # <<>>
    <2> DEFINE Highest(i) ==
          \A j \in Places : records[j].sequence <= records[i].sequence
    <2>1. Len(records) \in Places
      BY <1>1, <1>3 DEF Places
    <2>2. Highest(Len(records))
      BY <1>1, <2>1 DEF IInv, RowsFollowTheChain, Places
    <2>3. \A i \in Places : Highest(i) => i = Len(records)
      <3> SUFFICES ASSUME NEW i \in Places, Highest(i)
                   PROVE  i = Len(records)
        OBVIOUS
      <3>1. records[Len(records)].sequence <= records[i].sequence
        BY <2>1
      <3>2. /\ records[Len(records)].sequence = Len(records)
            /\ records[i].sequence = i
        BY <2>1 DEF IInv, RowsFollowTheChain
      <3>3. QED
        BY <1>1, <3>1, <3>2 DEF Places
    <2>4. getChainHead = CHOOSE i \in Places : Highest(i)
      BY <1>3 DEF getChainHead
    <2> HIDE DEF Highest
    <2>5. QED
      BY <2>1, <2>2, <2>3, <2>4
  <1>4. QED
    BY <1>2, <1>3

\* A row whose key is free extends the chain by one.
LEMMA AppendExtends ==
  ASSUME IInv, NEW w \in Writers, pc[w] = "signed", KeyIsFree(w),
         records' = Append(records, NextRecord(w))
  PROVE  /\ NextRecord(w) \in Record
         /\ records' \in Seq(Record)
         /\ Len(records') = Len(records) + 1
         /\ \A i \in Places : i \in Places' /\ records'[i] = records[i]
         /\ Len(records') \in Places'
         /\ records'[Len(records')] = NextRecord(w)
         /\ RowsFollowTheChain'
  <1>1. /\ Len(records) \in Nat /\ records \in Seq(Record)
        /\ head[w] \in 0 .. Len(records)
    BY DEF IInv, TypeOK, HeadsAreInTheChain
  <1>2. head[w] # 0 => head[w] \in Places
    BY <1>1 DEF Places
  <1>3. NextRecord(w) = [sequence |-> head[w] + 1, previous |-> head[w],
                         by |-> w]
    BY <1>1, <1>2 DEF NextRecord, IInv, RowsFollowTheChain
  <1>4. head[w] = Len(records)
    <2>1. ASSUME head[w] < Len(records)
          PROVE  FALSE
      <3>1. head[w] + 1 \in Places
        BY <1>1, <2>1 DEF Places
      <3>2. records[head[w] + 1].sequence = head[w] + 1
        BY <3>1 DEF IInv, RowsFollowTheChain
      <3>3. QED
        BY <1>3, <3>1, <3>2 DEF KeyIsFree
    <2>2. QED
      BY <1>1, <2>1
  <1>5. NextRecord(w) \in Record
    BY <1>1, <1>3 DEF Record
  <1>6. /\ records' \in Seq(Record)
        /\ Len(records') = Len(records) + 1
        /\ \A i \in Places : records'[i] = records[i]
        /\ records'[Len(records) + 1] = NextRecord(w)
    BY <1>1, <1>5 DEF Places
  <1>7. \A i \in Places' : i \in Places \/ i = Len(records) + 1
    BY <1>1, <1>6 DEF Places
  <1>8. RowsFollowTheChain'
    <2> SUFFICES ASSUME NEW i \in Places'
                 PROVE  records'[i].sequence = i /\ records'[i].previous = i - 1
      BY DEF RowsFollowTheChain
    <2>1. CASE i \in Places
      BY <1>6, <2>1 DEF IInv, RowsFollowTheChain
    <2>2. CASE i = Len(records) + 1
      BY <1>1, <1>3, <1>4, <1>6, <2>2
    <2>3. QED
      BY <1>7, <2>1, <2>2
  <1>9. /\ \A i \in Places : i \in Places'
        /\ Len(records') \in Places'
    BY <1>1, <1>6 DEF Places
  <1>10. QED
    BY <1>5, <1>6, <1>8, <1>9

\* Every step of every writer keeps the invariant.
LEMMA NextInvariant == IInv /\ [Next]_vars => IInv'
  <1> SUFFICES ASSUME IInv, [Next]_vars
               PROVE  IInv'
    OBVIOUS
  <1>0. Len(records) \in Nat
    BY DEF IInv, TypeOK
  <1>1. ASSUME NEW w \in Writers, ReadHead(w)
        PROVE  IInv'
    <2>1. getChainHead \in 0 .. Len(records) /\ getChainHead \in Nat
      BY <1>0, HeadIsLast
    <2>2. TypeOK' /\ HeadsAreInTheChain'
      BY <1>1, <2>1 DEF ReadHead, IInv, TypeOK, HeadsAreInTheChain
    <2>3. QED
      BY <1>1, <2>2
      DEF ReadHead, IInv, RowsFollowTheChain, AttestedLengths, ToldAreRows,
          Places
  <1>2. ASSUME NEW w \in Writers, pc[w] = "signed", KeyIsFree(w),
               records' = Append(records, NextRecord(w)), Leave(w),
               told' = told \cup {NextRecord(w)} \/ told' = told,
               UNCHANGED attested
        PROVE  IInv'
    <2>1. /\ NextRecord(w) \in Record
          /\ records' \in Seq(Record)
          /\ Len(records') = Len(records) + 1
          /\ \A i \in Places : i \in Places' /\ records'[i] = records[i]
          /\ Len(records') \in Places'
          /\ records'[Len(records')] = NextRecord(w)
          /\ RowsFollowTheChain'
      BY <1>2, AppendExtends
    <2>2. TypeOK'
      BY <1>2, <2>1 DEF Leave, IInv, TypeOK
    <2>3. HeadsAreInTheChain' /\ AttestedLengths'
      BY <1>0, <1>2, <2>1
      DEF Leave, IInv, TypeOK, HeadsAreInTheChain, AttestedLengths
    <2>4. ToldAreRows'
      BY <1>2, <2>1 DEF IInv, ToldAreRows
    <2>5. QED
      BY <2>1, <2>2, <2>3, <2>4 DEF IInv
  <1>3. ASSUME NEW w \in Writers, InsertFails(w)
        PROVE  IInv'
    BY <1>0, <1>3
    DEF InsertFails, Leave, IInv, TypeOK, RowsFollowTheChain,
        HeadsAreInTheChain, AttestedLengths, ToldAreRows, Places
  <1>4. CASE verifyChain
    <2>a. /\ attested' = attested \cup {Len(records)}
          /\ UNCHANGED <<records, pc, head, told>>
      BY <1>4 DEF verifyChain
    <2>b. ASSUME NEW n \in attested'
          PROVE  n \in Nat /\ n <= Len(records)
      <3>1. n \in attested \/ n = Len(records)
        BY <2>a
      <3>2. n \in attested => n \in Nat /\ n <= Len(records)
        BY DEF IInv, TypeOK, AttestedLengths
      <3>3. QED
        BY <1>0, <3>1, <3>2
    <2>1. TypeOK' /\ AttestedLengths'
      BY <2>a, <2>b DEF IInv, TypeOK, AttestedLengths
    <2>2. QED
      BY <1>4, <2>1
      DEF verifyChain, IInv, RowsFollowTheChain, HeadsAreInTheChain,
          ToldAreRows, Places
  <1>5. CASE UNCHANGED vars
    BY <1>5
    DEF vars, IInv, TypeOK, RowsFollowTheChain, HeadsAreInTheChain,
        AttestedLengths, ToldAreRows, Places
  <1>6. QED
    BY <1>1, <1>2, <1>3, <1>4, <1>5 DEF Next, Insert, InsertReplyLost

\* The invariant holds of every behaviour.
THEOREM InvariantHolds == Spec => []IInv
  <1>1. QED
    BY InitInvariant, NextInvariant, PTL DEF Spec

(***************************************************************************)
(* Every variable keeps its type.                                          *)
(***************************************************************************)
THEOREM TypeCorrect == Spec => []TypeOK
  <1>1. IInv => TypeOK
    BY DEF IInv
  <1>2. QED
    BY <1>1, InvariantHolds, PTL

(***************************************************************************)
(* The chain of a run verifies at every moment, for any number of writers  *)
(* of recordEvent.                                                         *)
(***************************************************************************)
THEOREM ChainVerifies == Spec => []ChainAlwaysVerifies
  <1>1. ASSUME IInv
        PROVE  ChainAlwaysVerifies
    <2> SUFFICES
          ASSUME NEW i \in Places
          PROVE  /\ \A j \in Places :
                      records[j].sequence = records[i].sequence => j = i
                 /\ IF records[i].sequence = 1
                    THEN records[i].previous = 0
                    ELSE \E j \in Places :
                           /\ records[j].sequence + 1 = records[i].sequence
                           /\ records[i].previous = j
      BY DEF ChainAlwaysVerifies, ChainIsValid
    <2>1. \A j \in Places :
            records[j].sequence = j /\ records[j].previous = j - 1
      BY <1>1 DEF IInv, RowsFollowTheChain
    <2>2. Len(records) \in Nat
      BY <1>1 DEF IInv, TypeOK
    <2>3. CASE i = 1
      BY <2>1, <2>3
    <2>4. CASE i # 1
      <3>1. i - 1 \in Places /\ (i - 1) + 1 = i
        BY <2>2, <2>4 DEF Places
      <3>2. QED
        BY <2>1, <2>4, <3>1
    <2>5. QED
      BY <2>3, <2>4
  <1>2. IInv => ChainAlwaysVerifies
    BY <1>1
  <1>3. QED
    BY <1>2, InvariantHolds, PTL

(***************************************************************************)
(* What a signature of the head stands for never changes afterwards.       *)
(***************************************************************************)
THEOREM AttestationsAreFinal == Spec => []AttestedPrefixIsFinal
  <1>1. IInv => AttestedPrefixIsFinal
    BY DEF IInv, AttestedLengths, RowsFollowTheChain, AttestedPrefixIsFinal,
           Places
  <1>2. QED
    BY <1>1, InvariantHolds, PTL

(***************************************************************************)
(* No acknowledged record is ever missing or shares its sequence.          *)
(***************************************************************************)
THEOREM AcknowledgedStays == Spec => []AcknowledgedIsRecorded
  <1>1. IInv => AcknowledgedIsRecorded
    BY DEF IInv, ToldAreRows, RowsFollowTheChain, AcknowledgedIsRecorded,
           Places
  <1>2. QED
    BY <1>1, InvariantHolds, PTL

-----------------------------------------------------------------------------
\* The log that the table is, and what its writers were told.
LogOf == [i \in Places |-> records[i].by]
AnswersOf == {[at |-> r.sequence, to |-> r.by] : r \in told}

\* The log is a sequence as long as the table.
LEMMA WritersAreASequence ==
  ASSUME NEW t \in Seq(Record)
  PROVE  LET l == [i \in 1 .. Len(t) |-> t[i].by] IN
         l \in Seq(Writers) /\ Len(l) = Len(t)
  <1>1. \A i \in 1 .. Len(t) : t[i] \in Record
    OBVIOUS
  <1>2. \A i \in 1 .. Len(t) : t[i].by \in Writers
    BY <1>1 DEF Record
  <1>3. QED
    BY <1>2

LEMMA LogIsASequence ==
  ASSUME TypeOK, TypeOK'
  PROVE  /\ LogOf \in Seq(Writers) /\ Len(LogOf) = Len(records)
         /\ LogOf' \in Seq(Writers) /\ Len(LogOf') = Len(records')
  <1>1. records \in Seq(Record) /\ records' \in Seq(Record)
    BY DEF TypeOK
  <1>2. QED
    BY <1>1, WritersAreASequence DEF LogOf, Places

\* An insert appends one record to the log, and its writer is told its place.
LEMMA InsertRecords ==
  ASSUME IInv, IInv', NEW w \in Writers, pc[w] = "signed", KeyIsFree(w),
         records' = Append(records, NextRecord(w)),
         told' = told \cup {NextRecord(w)} \/ told' = told,
         UNCHANGED attested
  PROVE  Log!Record(w)
  <1>1. /\ Len(records) \in Nat /\ records' \in Seq(Record)
        /\ Len(records') = Len(records) + 1
        /\ \A i \in Places : i \in Places' /\ records'[i] = records[i]
        /\ Len(records') \in Places'
        /\ records'[Len(records')] = NextRecord(w)
        /\ RowsFollowTheChain'
    <2>1. Len(records) \in Nat
      BY DEF IInv, TypeOK
    <2>2. QED
      BY <2>1, AppendExtends
  <1>2. NextRecord(w).sequence = Len(records') /\ NextRecord(w).by = w
    BY <1>1 DEF RowsFollowTheChain, NextRecord
  <1>3. /\ LogOf \in Seq(Writers) /\ Len(LogOf) = Len(records)
        /\ LogOf' \in Seq(Writers) /\ Len(LogOf') = Len(records')
    BY LogIsASequence DEF IInv
  <1>4. LogOf' = Append(LogOf, w)
    <2>1. \A i \in 1 .. Len(records') : LogOf'[i] = Append(LogOf, w)[i]
      <3> TAKE i \in 1 .. Len(records')
      <3>1. CASE i \in Places
        <4>1. LogOf'[i] = records[i].by /\ LogOf[i] = records[i].by
          BY <1>1, <3>1 DEF LogOf
        <4>2. Append(LogOf, w)[i] = LogOf[i]
          BY <1>3, <3>1 DEF Places
        <4>3. QED
          BY <4>1, <4>2
      <3>2. CASE i = Len(records')
        <4>1. LogOf'[i] = w
          BY <1>1, <1>2, <3>2 DEF LogOf
        <4>2. Append(LogOf, w)[i] = w
          BY <1>1, <1>3, <3>2
        <4>3. QED
          BY <4>1, <4>2
      <3>3. i \in Places \/ i = Len(records')
        BY <1>1 DEF Places
      <3>4. QED
        BY <3>1, <3>2, <3>3
    <2>2. /\ Append(LogOf, w) \in Seq(Writers)
          /\ Len(Append(LogOf, w)) = Len(records')
      BY <1>1, <1>3
    <2>3. QED
      BY <1>3, <2>1, <2>2
  <1>5. AnswersOf' \in {AnswersOf, AnswersOf \cup {[at |-> Len(LogOf'), to |-> w]}}
    <2>1. CASE told' = told
      BY <2>1 DEF AnswersOf
    <2>2. CASE told' = told \cup {NextRecord(w)}
      BY <1>2, <1>3, <2>2, Zenon DEF AnswersOf
    <2>3. QED
      BY <2>1, <2>2
  <1>6. QED
    BY <1>4, <1>5 DEF Log!Record, LogOf, AnswersOf

\* Every step of the ledger is one of the log, or leaves the log alone.
LEMMA StepsRefine ==
  ASSUME IInv, IInv', [Next]_vars
  PROVE  Log!Next \/ UNCHANGED Log!vars
  <1>1. ASSUME NEW w \in Writers, Insert(w) \/ InsertReplyLost(w)
        PROVE  Log!Next
    BY <1>1, InsertRecords DEF Insert, InsertReplyLost, Log!Next
  <1>2. CASE verifyChain
    <2>1. /\ LogOf' = LogOf /\ AnswersOf' = AnswersOf
          /\ attested' = attested \cup {Len(records)}
      BY <1>2 DEF verifyChain, LogOf, AnswersOf, Places
    <2>2. QED
      BY <2>1, LogIsASequence DEF IInv, Log!Next, Log!Attest, LogOf, AnswersOf
  <1>3. ASSUME UNCHANGED <<records, told, attested>>
        PROVE  UNCHANGED Log!vars
    <2>1. LogOf' = LogOf /\ AnswersOf' = AnswersOf
      BY <1>3 DEF LogOf, AnswersOf, Places
    <2>2. QED
      BY <1>3, <2>1 DEF Log!vars, LogOf, AnswersOf
  <1>4. QED
    BY <1>1, <1>2, <1>3 DEF Next, ReadHead, InsertFails, vars

(***************************************************************************)
(* recordEvent is linearizable: for any number of writers, the reads,      *)
(* inserts, conflicts and lost replies implement a log with atomic append, *)
(* and with it everything that holds of such a log.                        *)
(***************************************************************************)
THEOREM Refinement == Spec => ImplementsEvidenceLog
  <1>1. Init => Log!Init
    <2> SUFFICES ASSUME Init
                 PROVE  LogOf = <<>> /\ AnswersOf = {} /\ attested = {}
      BY DEF Log!Init, LogOf, AnswersOf
    <2>1. Places = {}
      BY DEF Init, Places
    <2>2. QED
      BY <2>1 DEF Init, LogOf, AnswersOf
  <1>2. IInv /\ IInv' /\ [Next]_vars => [Log!Next]_(Log!vars)
    BY StepsRefine
  <1>3. QED
    BY <1>1, <1>2, InvariantHolds, PTL
    DEF Spec, ImplementsEvidenceLog, Log!Spec
=============================================================================
