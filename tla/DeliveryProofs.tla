--------------------------- MODULE DeliveryProofs ---------------------------
(***************************************************************************)
(* What is merged has a harvest on record and was reviewed, and a run      *)
(* admitted for an issue is not started: for any number of requests,       *)
(* failures, arms and pull requests.                                       *)
(***************************************************************************)
EXTENDS Delivery, TLAPS, WellFoundedInduction, SequenceTheorems

-----------------------------------------------------------------------------
(* Facts about data *)

\* A sequence of whatever values.
IsSequence(s) == s \in Seq({s[i] : i \in 1..Len(s)})

LEMMA SequenceLength ==
  ASSUME NEW s, IsSequence(s)
  PROVE  Len(s) \in Nat /\ DOMAIN s = 1..Len(s)
  BY LenProperties DEF IsSequence

LEMMA EmptyIsSequence == IsSequence(<< >>) /\ Len(<< >>) = 0
  BY DEF IsSequence

\* Append adds one element and keeps the others.
LEMMA AppendKeeps ==
  ASSUME NEW s, IsSequence(s), NEW e
  PROVE  LET t == Append(s, e) IN
         /\ IsSequence(t)
         /\ Len(t) = Len(s) + 1
         /\ t[Len(t)] = e
         /\ \A i \in 1..Len(s) : t[i] = s[i]
  <1> DEFINE S == {s[i] : i \in 1..Len(s)} \cup {e}
             t == Append(s, e)
             T == {t[i] : i \in 1..Len(t)}
  <1>1. s \in Seq(S)
    <2>1. s \in Seq({s[i] : i \in 1..Len(s)})
      BY DEF IsSequence
    <2>2. Len(s) \in Nat /\ DOMAIN s = 1..Len(s)
      BY SequenceLength
    <2>3. \A i \in 1..Len(s) : s[i] \in S
      OBVIOUS
    <2>4. QED
      BY <2>1, <2>2, <2>3
  <1>2. /\ t \in Seq(S)
        /\ Len(t) = Len(s) + 1
        /\ t[Len(t)] = e
        /\ \A i \in 1..Len(s) : t[i] = s[i]
    BY <1>1, AppendProperties
  <1>3. t \in Seq(T)
    <2>1. Len(t) \in Nat /\ DOMAIN t = 1..Len(t)
      BY <1>2, LenProperties
    <2>2. \A i \in 1..Len(t) : t[i] \in T
      OBVIOUS
    <2>3. QED
      BY <1>2, <2>1, <2>2
  <1>4. QED
    BY <1>2, <1>3 DEF IsSequence

\* A set of natural numbers that is not empty has a smallest element, and a
\* largest one if it is bounded.
LEMMA MinIsMember ==
  ASSUME NEW S \in SUBSET Nat, S # {}
  PROVE  Min(S) \in S /\ \A y \in S : Min(S) <= y
  <1> DEFINE R == {pair \in Nat \X Nat : pair[1] < pair[2]}
  <1>1. IsWellFoundedOn(R, Nat)
    BY NatLessThanWellFounded DEF OpToRel
  <1>2. \A y, z \in Nat : y < z => <<y, z>> \in R
    OBVIOUS
  <1> HIDE DEF R
  <1>3. \E x \in S : \A y \in S : ~(<<y, x>> \in R)
    BY <1>1, WFMin
  <1>4. PICK x \in S : \A y \in S : ~(<<y, x>> \in R)
    BY <1>3
  <1>5. \A y \in S : x <= y
    <2>1. \A y \in S : y \in Nat
      OBVIOUS
    <2>2. \A y \in S : ~(y < x)
      BY <1>2, <1>4, <2>1
    <2>3. QED
      BY <2>1, <2>2
  <1>6. \E m \in S : \A y \in S : m <= y
    BY <1>4, <1>5
  <1>7. QED
    BY <1>6 DEF Min

LEMMA MaxIsMember ==
  ASSUME NEW n \in Nat, NEW S, \A y \in S : y \in 1..n, S # {}
  PROVE  Max(S) \in S /\ \A y \in S : y <= Max(S)
  <1> DEFINE T == {z \in Nat : n - z \in S}
  <1>1. T # {}
    <2>1. PICK y \in S : y \in 1..n
      OBVIOUS
    <2>2. n - y \in T
      BY <2>1
    <2>3. QED
      BY <2>2
  <1>2. Min(T) \in T /\ \A z \in T : Min(T) <= z
    BY <1>1, MinIsMember
  <1> DEFINE x == n - Min(T)
  <1>3. x \in S
    BY <1>2
  <1>4. \A y \in S : y <= x
    <2>1. SUFFICES ASSUME NEW y \in S  PROVE y <= x
      OBVIOUS
    <2>2. n - y \in T
      OBVIOUS
    <2>3. QED
      BY <1>2, <2>2
  <1>5. \E m \in S : \A y \in S : m >= y
    BY <1>3, <1>4
  <1>6. Max(S) \in S /\ \A y \in S : Max(S) >= y
    BY <1>5 DEF Max
  <1>7. QED
    BY <1>6

\* A function on 1..n is a sequence.
LEMMA FunctionIsSequence ==
  ASSUME NEW n \in Nat, NEW t, t = [i \in 1..n |-> t[i]]
  PROVE  IsSequence(t) /\ Len(t) = n
  <1> DEFINE T == {t[i] : i \in 1..n}
  <1>1. t \in [1..n -> T]
    BY Zenon
  <1>2. t \in Seq(T) /\ Len(t) = n
    BY <1>1, LenProperties
  <1>3. QED
    BY <1>2 DEF IsSequence

-----------------------------------------------------------------------------
(* What holds of the store and of GitHub *)

OnRecord(c) == \E e \in 1..Len(ledger) : ledger[e] = Says("committed", c)

PullFields == {"merged", "head", "approvals", "repushed", "checked"}

\* The records name commits and pull requests that exist.
LedgerInv ==
  \A e \in 1..Len(ledger) :
    /\ ledger[e].is \in {"selected", "authorized", "committed", "published", "merged"}
    /\ ledger[e].is = "committed" => ledger[e].of \in 1..Len(commits)
    /\ ledger[e].is = "published" => ledger[e].of \in 0..Len(pulls)

\* The branch is at a commit that is on record, and so was the head of every
\* merge; whoever approved an open pull request approved that head, unless
\* the branch was pushed again.
PullInv(p) ==
  /\ DOMAIN p = PullFields
  /\ p.merged \in BOOLEAN
  /\ p.merged => OnRecord(p.head)
  /\ p.merged /\ p.checked =>
       p.approvals # {} /\ (p.head \in p.approvals \/ p.repushed)
  /\ ~p.merged /\ p.approvals # {} => branch \in p.approvals \/ p.repushed

HubInv ==
  /\ IsSequence(ledger) /\ IsSequence(pulls) /\ IsSequence(commits)
  /\ Len(pulls) <= MaxPulls /\ Len(commits) <= MaxCommits
  /\ LedgerInv
  /\ branch \in 0..Len(commits)
  /\ branch # 0 => OnRecord(branch)
  /\ Len(pulls) > 0 => branch # 0
  /\ \A p \in 1..Len(pulls) : PullInv(pulls[p])

\* Nothing is taken back: records and commits stay, a merged pull request
\* stays as it is, an approval stays given.
HubGrows ==
  /\ Len(ledger) <= Len(ledger')
  /\ \A e \in 1..Len(ledger) : ledger'[e] = ledger[e]
  /\ Len(commits) <= Len(commits')
  /\ Len(pulls) <= Len(pulls')
  /\ \A p \in 1..Len(pulls) :
       /\ pulls[p].merged => pulls'[p] = pulls[p]
       /\ pulls[p].approvals # {} => pulls'[p].approvals # {}

hub == <<ledger, commits, branch, pulls>>

LEMMA HubLengths ==
  ASSUME HubInv
  PROVE  Len(ledger) \in Nat /\ Len(pulls) \in Nat /\ Len(commits) \in Nat
  BY SequenceLength DEF HubInv

LEMMA RecordsStay ==
  ASSUME IsSequence(ledger), IsSequence(ledger'), HubGrows, NEW c, OnRecord(c)
  PROVE  OnRecord(c)'
  BY SequenceLength DEF OnRecord, HubGrows

LEMMA HubStutters ==
  ASSUME HubInv, UNCHANGED hub
  PROVE  HubInv' /\ HubGrows
  <1>1. HubGrows
    BY HubLengths DEF HubGrows, hub
  <1>2. HubInv'
    BY DEF hub, HubInv, LedgerInv, PullInv, OnRecord
  <1>3. QED
    BY <1>1, <1>2

\* recordEvent appends a record about a commit or pull request that exists.
LEMMA HubRecords ==
  ASSUME HubInv, NEW is, NEW of,
         is \in {"selected", "authorized", "committed", "published", "merged"},
         is = "committed" => of \in 1..Len(commits),
         is = "published" => of \in 0..Len(pulls),
         ledger' = Append(ledger, Says(is, of)), UNCHANGED <<commits, branch, pulls>>
  PROVE  HubInv' /\ HubGrows /\ (is = "committed" => OnRecord(of)')
  <1>1. /\ IsSequence(ledger') /\ Len(ledger') = Len(ledger) + 1
        /\ ledger'[Len(ledger')] = Says(is, of)
        /\ \A i \in 1..Len(ledger) : ledger'[i] = ledger[i]
    BY AppendKeeps DEF HubInv
  <1>2. /\ Len(ledger) \in Nat /\ Len(ledger') \in Nat
        /\ Len(pulls) \in Nat /\ Len(commits) \in Nat
    BY <1>1, HubLengths
  <1>3. HubGrows
    BY <1>1, <1>2 DEF HubGrows
  <1>4. LedgerInv'
    <2>1. SUFFICES ASSUME NEW e \in 1..Len(ledger')
                   PROVE  /\ ledger'[e].is \in {"selected", "authorized", "committed",
                                                "published", "merged"}
                          /\ ledger'[e].is = "committed" => ledger'[e].of \in 1..Len(commits)
                          /\ ledger'[e].is = "published" => ledger'[e].of \in 0..Len(pulls)
      BY DEF LedgerInv
    <2>2. CASE e \in 1..Len(ledger)
      BY <1>1, <2>2 DEF HubInv, LedgerInv
    <2>3. CASE e = Len(ledger')
      BY <1>1, <2>3 DEF Says
    <2>4. QED
      BY <1>1, <1>2, <2>2, <2>3
  <1>5. branch' # 0 => OnRecord(branch)'
    BY <1>1, <1>3, RecordsStay DEF HubInv
  <1>6. ASSUME NEW p \in 1..Len(pulls)  PROVE PullInv(pulls[p])'
    BY <1>1, <1>3, RecordsStay DEF HubInv, PullInv
  <1>7. HubInv'
    BY <1>1, <1>4, <1>5, <1>6 DEF HubInv
  <1>8. is = "committed" => OnRecord(of)'
    BY <1>1, <1>2 DEF OnRecord
  <1>9. QED
    BY <1>3, <1>7, <1>8

\* A pull request is opened for a branch that exists.
LEMMA HubOpens ==
  ASSUME HubInv, CanOpenPull, pulls' = Append(pulls, NewPull),
         UNCHANGED <<ledger, commits, branch>>
  PROVE  HubInv' /\ HubGrows /\ Len(pulls') = Len(pulls) + 1
  <1>1. /\ IsSequence(pulls') /\ Len(pulls') = Len(pulls) + 1
        /\ pulls'[Len(pulls')] = NewPull
        /\ \A i \in 1..Len(pulls) : pulls'[i] = pulls[i]
    BY AppendKeeps DEF HubInv
  <1>2. /\ Len(ledger) \in Nat /\ Len(pulls') \in Nat
        /\ Len(pulls) \in Nat /\ Len(commits) \in Nat /\ MaxPulls \in Nat
    BY <1>1, HubLengths, BoundsAssumption
  <1>3. HubGrows
    BY <1>1, <1>2 DEF HubGrows
  <1>4. LedgerInv'
    BY <1>1, <1>2 DEF HubInv, LedgerInv
  <1>5. branch' # 0 /\ Len(pulls') <= MaxPulls
    BY <1>1, <1>2 DEF CanOpenPull
  <1>6. ASSUME NEW p \in 1..Len(pulls')  PROVE PullInv(pulls[p])'
    <2>1. CASE p \in 1..Len(pulls)
      BY <1>1, <2>1 DEF HubInv, PullInv, OnRecord
    <2>2. CASE p = Len(pulls')
      <3>1. pulls'[p] = NewPull
        BY <1>1, <2>2
      <3>2. /\ DOMAIN NewPull = PullFields
            /\ NewPull.merged = FALSE /\ NewPull.approvals = {}
        BY DEF NewPull, PullFields
      <3>3. PullInv(NewPull)'
        BY <3>2 DEF PullInv
      <3>4. QED
        BY <3>1, <3>3 DEF PullInv
    <2>3. QED
      BY <1>1, <1>2, <2>1, <2>2
  <1>7. OnRecord(branch)'
    BY <1>5 DEF HubInv, OnRecord
  <1>8. HubInv'
    BY <1>1, <1>4, <1>5, <1>6, <1>7 DEF HubInv
  <1>9. QED
    BY <1>1, <1>3, <1>8

\* What createPullRequest does, whether it succeeds or fails.
LEMMA HubCreatesPull ==
  ASSUME HubInv, NEW n, PullCreated(n), UNCHANGED <<ledger, commits, branch>>
  PROVE  HubInv' /\ HubGrows /\ n \in 1..Len(pulls')
  <1>1. Len(pulls) \in Nat
    BY HubLengths
  <1>2. CASE CanOpenPull /\ pulls' = Append(pulls, NewPull) /\ n = Len(pulls) + 1
    BY <1>1, <1>2, HubOpens
  <1>3. CASE /\ \E p \in 1..Len(pulls) : Opened(p)
             /\ n = Len(pulls) /\ UNCHANGED pulls
    BY <1>1, <1>3, HubStutters DEF hub
  <1>4. QED
    BY <1>2, <1>3, Zenon DEF PullCreated

LEMMA HubFailsToCreatePull ==
  ASSUME HubInv, CreatePullFails, UNCHANGED <<ledger, commits>>
  PROVE  HubInv' /\ HubGrows
  <1>1. CASE UNCHANGED pulls
    BY <1>1, HubStutters DEF hub, CreatePullFails
  <1>2. CASE CanOpenPull /\ pulls' = Append(pulls, NewPull)
    BY <1>2, HubOpens DEF CreatePullFails
  <1>3. QED
    BY <1>1, <1>2 DEF CreatePullFails

\* pulls' = [p \in DOMAIN pulls |-> ...] and EXCEPT keep the sequence.
LEMMA PullsReplaced ==
  ASSUME HubInv, NEW t, t = [p \in DOMAIN pulls |-> t[p]]
  PROVE  IsSequence(t) /\ Len(t) = Len(pulls)
  <1>1. Len(pulls) \in Nat /\ DOMAIN pulls = 1..Len(pulls)
    BY SequenceLength DEF HubInv
  <1>2. QED
    BY <1>1, FunctionIsSequence

\* The branch is forced to a commit on record.
LEMMA HubPushes ==
  ASSUME HubInv, NEW h, Push(h), OnRecord(harvest[h].commit),
         harvest[h].commit \in 1..Len(commits), UNCHANGED <<ledger, commits>>
  PROVE  HubInv' /\ HubGrows
  <1> DEFINE after(p) == IF Opened(p) /\ pulls[p].approvals # {}
                         THEN [pulls[p] EXCEPT !.repushed = TRUE] ELSE pulls[p]
  <1>1. pulls' = [p \in DOMAIN pulls |-> after(p)]
    BY DEF Push
  <1>2. DOMAIN pulls = 1..Len(pulls) /\ Len(pulls) \in Nat /\ Len(commits) \in Nat
        /\ Len(ledger) \in Nat
    BY SequenceLength DEF HubInv
  <1>3. IsSequence(pulls') /\ Len(pulls') = Len(pulls)
    <2>1. pulls' = [p \in DOMAIN pulls |-> pulls'[p]]
      BY <1>1
    <2>2. QED
      BY <2>1, PullsReplaced
  <1>4. \A p \in 1..Len(pulls) : pulls'[p] = after(p)
    BY <1>1, <1>2
  <1>5. branch' = harvest[h].commit /\ branch' # 0 /\ OnRecord(branch)'
    BY DEF Push, OnRecord
  <1>6. ASSUME NEW p \in 1..Len(pulls)
        PROVE  /\ PullInv(pulls[p])'
               /\ pulls[p].merged => pulls'[p] = pulls[p]
               /\ pulls[p].approvals # {} => pulls'[p].approvals # {}
    <2>1. PullInv(pulls[p])
      BY DEF HubInv
    <2>2. CASE Opened(p) /\ pulls[p].approvals # {}
      <3>1. pulls'[p] = [pulls[p] EXCEPT !.repushed = TRUE]
        BY <1>4, <2>2
      <3>2. /\ DOMAIN pulls'[p] = PullFields /\ pulls'[p].merged = pulls[p].merged
            /\ pulls'[p].approvals = pulls[p].approvals
            /\ pulls'[p].repushed = TRUE
        BY <2>1, <3>1 DEF PullInv, PullFields
      <3>3. QED
        BY <2>1, <2>2, <3>2 DEF PullInv, Opened
    <2>3. CASE ~(Opened(p) /\ pulls[p].approvals # {})
      <3>1. pulls'[p] = pulls[p]
        BY <1>4, <2>3
      <3>2. QED
        BY <1>2, <2>1, <2>3, <3>1 DEF PullInv, OnRecord, Opened
    <2>4. QED
      BY <2>2, <2>3
  <1>7. HubGrows
    BY <1>2, <1>3, <1>6 DEF HubGrows
  <1>8. LedgerInv'
    BY <1>3 DEF HubInv, LedgerInv
  <1>9. HubInv'
    BY <1>3, <1>5, <1>6, <1>8 DEF HubInv
  <1>10. QED
    BY <1>7, <1>9

\* GitHub merges the head of the branch.
LEMMA HubMerges ==
  ASSUME HubInv, NEW p \in 1..Len(pulls), NEW checked \in BOOLEAN,
         GitHubMerges(p, checked), checked => pulls[p].approvals # {},
         UNCHANGED <<ledger, commits, branch>>
  PROVE  /\ HubInv' /\ HubGrows
         /\ pulls'[p].merged /\ pulls'[p].head = branch
  <1> DEFINE after == [[[pulls[p] EXCEPT !.merged = TRUE] EXCEPT !.head = branch]
                         EXCEPT !.checked = checked]
  <1>1. DOMAIN pulls = 1..Len(pulls) /\ Len(pulls) \in Nat /\ Len(commits) \in Nat
        /\ Len(ledger) \in Nat
    BY SequenceLength DEF HubInv
  <1>2. PullInv(pulls[p]) /\ ~pulls[p].merged
    BY DEF HubInv, GitHubMerges, Opened
  <1>3. pulls' = [pulls EXCEPT ![p] = after]
    BY <1>1 DEF GitHubMerges
  <1>4. /\ pulls'[p] = after
        /\ \A q \in 1..Len(pulls) : q # p => pulls'[q] = pulls[q]
    BY <1>1, <1>3
  <1>5. IsSequence(pulls') /\ Len(pulls') = Len(pulls)
    <2>1. pulls' = [q \in DOMAIN pulls |-> pulls'[q]]
      BY <1>3
    <2>2. QED
      BY <2>1, PullsReplaced
  <1>6. /\ DOMAIN after = PullFields /\ after.merged = TRUE
        /\ after.head = branch /\ after.checked = checked
        /\ after.approvals = pulls[p].approvals
        /\ after.repushed = pulls[p].repushed
    BY <1>2 DEF PullInv, PullFields
  <1>7. branch # 0 /\ OnRecord(branch)
    BY <1>1 DEF HubInv
  <1> HIDE DEF after
  <1>8. PullInv(pulls[p])'
    <2>1. OnRecord(branch)'
      BY <1>7 DEF OnRecord
    <2>2. checked => pulls[p].approvals # {} /\ (branch \in pulls[p].approvals \/ pulls[p].repushed)
      BY <1>2 DEF PullInv
    <2>3. pulls'[p].checked => checked
      BY <1>4, <1>6
    <2>4. /\ DOMAIN pulls'[p] = PullFields /\ pulls'[p].merged = TRUE
          /\ pulls'[p].head = branch
          /\ pulls'[p].approvals = pulls[p].approvals
          /\ pulls'[p].repushed = pulls[p].repushed
      BY <1>4, <1>6
    <2>5. pulls'[p].checked =>
            /\ pulls'[p].approvals # {}
            /\ pulls'[p].head \in pulls'[p].approvals \/ pulls'[p].repushed
      BY <2>2, <2>3, <2>4
    <2>6. QED
      BY <2>1, <2>4, <2>5 DEF PullInv
  <1>9. ASSUME NEW q \in 1..Len(pulls), q # p  PROVE PullInv(pulls[q])'
    BY <1>4, <1>9 DEF HubInv, PullInv, OnRecord
  <1>10. HubGrows
    BY <1>1, <1>2, <1>4, <1>5, <1>6 DEF HubGrows
  <1>11. LedgerInv'
    BY <1>5 DEF HubInv, LedgerInv
  <1>12. branch' # 0 /\ OnRecord(branch)'
    BY <1>7 DEF OnRecord
  <1>13. HubInv'
    BY <1>5, <1>8, <1>9, <1>11, <1>12 DEF HubInv
  <1>14. QED
    BY <1>4, <1>6, <1>10, <1>13

\* A reviewer approves the head of the branch.
LEMMA HubApproves ==
  ASSUME HubInv, NEW p \in 1..Len(pulls), Opened(p),
         pulls' = [pulls EXCEPT ![p].approvals = @ \cup {branch}],
         UNCHANGED <<ledger, commits, branch>>
  PROVE  HubInv' /\ HubGrows /\ pulls'[p].approvals # {}
  <1> DEFINE after == [pulls[p] EXCEPT !.approvals = pulls[p].approvals \cup {branch}]
  <1>1. DOMAIN pulls = 1..Len(pulls) /\ Len(pulls) \in Nat /\ Len(commits) \in Nat
        /\ Len(ledger) \in Nat
    BY SequenceLength DEF HubInv
  <1>2. PullInv(pulls[p]) /\ ~pulls[p].merged
    BY DEF HubInv, Opened
  <1>3. pulls' = [pulls EXCEPT ![p] = after]
    BY <1>1
  <1>4. /\ pulls'[p] = after
        /\ \A q \in 1..Len(pulls) : q # p => pulls'[q] = pulls[q]
    BY <1>1, <1>3
  <1>5. IsSequence(pulls') /\ Len(pulls') = Len(pulls)
    <2>1. pulls' = [q \in DOMAIN pulls |-> pulls'[q]]
      BY <1>3
    <2>2. QED
      BY <2>1, PullsReplaced
  <1>6. /\ DOMAIN after = PullFields /\ after.merged = pulls[p].merged
        /\ after.approvals = pulls[p].approvals \cup {branch}
    BY <1>2 DEF PullInv, PullFields
  <1>7. PullInv(pulls[p])'
    <2>1. PullInv(after)'
      BY <1>2, <1>6 DEF PullInv
    <2>2. QED
      BY <1>4, <2>1 DEF PullInv
  <1>8. ASSUME NEW q \in 1..Len(pulls), q # p  PROVE PullInv(pulls[q])'
    BY <1>4, <1>8 DEF HubInv, PullInv, OnRecord
  <1>9. HubGrows
    BY <1>1, <1>2, <1>4, <1>5, <1>6 DEF HubGrows
  <1>10. LedgerInv'
    BY <1>5 DEF HubInv, LedgerInv
  <1>11. (branch # 0 => OnRecord(branch))'
    BY DEF HubInv, OnRecord
  <1>12. HubInv'
    BY <1>5, <1>7, <1>8, <1>10, <1>11 DEF HubInv
  <1>13. QED
    BY <1>4, <1>6, <1>9, <1>12

\* A harvest commits a tree.
LEMMA HubCommits ==
  ASSUME HubInv, NEW c, commits' = Append(commits, c), Len(commits) < MaxCommits,
         UNCHANGED <<ledger, branch, pulls>>
  PROVE  HubInv' /\ HubGrows /\ Len(commits') = Len(commits) + 1
  <1>1. /\ IsSequence(commits') /\ Len(commits') = Len(commits) + 1
        /\ \A i \in 1..Len(commits) : commits'[i] = commits[i]
    BY AppendKeeps DEF HubInv
  <1>2. /\ Len(ledger) \in Nat /\ Len(pulls) \in Nat /\ Len(commits) \in Nat
        /\ MaxCommits \in Nat
    BY HubLengths, BoundsAssumption
  <1>3. HubGrows
    BY <1>1, <1>2 DEF HubGrows
  <1>4. LedgerInv'
    BY <1>1, <1>2 DEF HubInv, LedgerInv
  <1>5. (branch # 0 => OnRecord(branch))'
    BY DEF HubInv, OnRecord
  <1>6. ASSUME NEW p \in 1..Len(pulls)  PROVE PullInv(pulls[p])'
    BY DEF HubInv, PullInv, OnRecord
  <1>7. HubInv'
    BY <1>1, <1>2, <1>4, <1>5, <1>6 DEF HubInv
  <1>8. QED
    BY <1>1, <1>3, <1>7

-----------------------------------------------------------------------------
(* What holds of a harvest and of a merge *)

HarvestSteps ==
  {"idle", "run", "arms", "envelopes", "signed", "authorize", "commit", "record",
   "push", "open", "report", "done", "failed"}

HarvestFields ==
  {"pc", "row", "arm", "tree", "signed", "blind", "late", "latest", "commit", "real",
   "pull"}

\* A commit is pushed only when it is on record.
HarvestOK(l) ==
  /\ DOMAIN l = HarvestFields
  /\ l.pc \in HarvestSteps
  /\ l.commit \in 0..Len(commits) /\ l.pull \in 0..Len(pulls)
  /\ l.pc \in {"record", "push"} => l.commit # 0
  /\ l.pc = "push" => OnRecord(l.commit)

HarvestInv ==
  DOMAIN harvest = Harvests /\ \A h \in Harvests : HarvestOK(harvest[h])

IsMergedAs(p, c) == p \in 1..Len(pulls) /\ pulls[p].merged /\ pulls[p].head = c
IsApproved(p) == p \in 1..Len(pulls) /\ pulls[p].approvals # {}

MergeFields == {"pc", "pull", "approval", "checked", "deploy", "head"}

\* A merge that asks for an approval finds one before it merges; a merge that
\* is recorded or deployed has been made.
MergeOK(l) ==
  /\ DOMAIN l = MergeFields
  /\ l.pc \in MergeSteps
  /\ l.pull \in 0..Len(pulls) /\ l.head \in 0..Len(commits)
  /\ l.approval \in BOOLEAN /\ l.checked \in BOOLEAN /\ l.deploy \in BOOLEAN
  /\ l.pc \in {"details", "reviews", "merge", "record"} => l.pull # 0
  /\ l.pc = "resolve" => l.pull = 0
  /\ l.checked => l.approval \/ IsApproved(l.pull)
  /\ l.pc = "merge" /\ l.approval => IsApproved(l.pull)
  /\ l.pc \in {"record", "deploy"} => IsMergedAs(l.pull, l.head)

EventOK(e) ==
  /\ e.is \in {"approved", "labeled", "closed"} /\ e.pull \in 1..Len(pulls)
  /\ e.is = "approved" => IsApproved(e.pull)
  /\ e.is = "closed" => pulls[e.pull].merged

MergeInv ==
  /\ DOMAIN merge = Coordinations
  /\ \A m \in Coordinations : MergeOK(merge[m])
  /\ \A e \in events : EventOK(e)
  /\ \A c \in deployed : \E p \in 1..Len(pulls) : IsMergedAs(p, c)

\* What holds of a harvest, a merge or an event is not undone by others.
LEMMA HarvestOKStays ==
  ASSUME HubInv, HubInv', HubGrows, NEW l, HarvestOK(l)
  PROVE  HarvestOK(l)'
  <1>1. /\ Len(pulls) \in Nat /\ Len(commits) \in Nat
        /\ Len(pulls') \in Nat /\ Len(commits') \in Nat
    BY SequenceLength DEF HubInv
  <1>2. l.pc = "push" => OnRecord(l.commit)'
    BY RecordsStay DEF HarvestOK, HubInv
  <1>3. QED
    BY <1>1, <1>2 DEF HarvestOK, HubGrows

LEMMA ApprovalStays ==
  ASSUME HubInv, HubInv', HubGrows, NEW p
  PROVE  /\ IsApproved(p) => IsApproved(p)'
         /\ \A c : IsMergedAs(p, c) => IsMergedAs(p, c)'
  <1>1. Len(pulls) \in Nat /\ Len(pulls') \in Nat
    BY SequenceLength DEF HubInv
  <1>2. QED
    BY <1>1 DEF IsApproved, IsMergedAs, HubGrows

LEMMA MergeOKStays ==
  ASSUME HubInv, HubInv', HubGrows, NEW l, MergeOK(l)
  PROVE  MergeOK(l)'
  <1>1. /\ Len(pulls) \in Nat /\ Len(commits) \in Nat
        /\ Len(pulls') \in Nat /\ Len(commits') \in Nat
    BY SequenceLength DEF HubInv
  <1>2. /\ IsApproved(l.pull) => IsApproved(l.pull)'
        /\ IsMergedAs(l.pull, l.head) => IsMergedAs(l.pull, l.head)'
    BY ApprovalStays
  <1>3. QED
    BY <1>1, <1>2 DEF MergeOK, HubGrows

LEMMA EventOKStays ==
  ASSUME HubInv, HubInv', HubGrows, NEW e, EventOK(e)
  PROVE  EventOK(e)'
  <1>1. /\ Len(pulls) \in Nat /\ Len(pulls') \in Nat
    BY SequenceLength DEF HubInv
  <1>2. IsApproved(e.pull) => IsApproved(e.pull)'
    BY ApprovalStays
  <1>3. QED
    BY <1>1, <1>2 DEF EventOK, HubGrows

LEMMA HarvestInvStays ==
  ASSUME HubInv, HubInv', HubGrows, HarvestInv, UNCHANGED harvest
  PROVE  HarvestInv'
  BY HarvestOKStays DEF HarvestInv

LEMMA MergeInvStays ==
  ASSUME HubInv, HubInv', HubGrows, MergeInv, UNCHANGED mergeVars
  PROVE  MergeInv'
  <1>1. UNCHANGED <<merge, events, deployed>>
    BY DEF mergeVars
  <1>2. \A m \in Coordinations : MergeOK(merge[m])'
    BY <1>1, MergeOKStays DEF MergeInv
  <1>3. \A e \in events' : EventOK(e)'
    BY <1>1, EventOKStays DEF MergeInv
  <1>4. \A c \in deployed' : \E p \in 1..Len(pulls') : IsMergedAs(p, c)'
    <2>1. SUFFICES ASSUME NEW c \in deployed
                   PROVE  \E p \in 1..Len(pulls') : IsMergedAs(p, c)'
      BY <1>1
    <2>2. PICK p \in 1..Len(pulls) : IsMergedAs(p, c)
      BY DEF MergeInv
    <2>3. IsMergedAs(p, c)'
      BY <2>2, ApprovalStays
    <2>4. QED
      BY <2>3 DEF IsMergedAs
  <1>5. QED
    BY <1>1, <1>2, <1>3, <1>4 DEF MergeInv

\* One harvest, or one merge, takes a step.
LEMMA OneHarvestMoves ==
  ASSUME HubInv, HubInv', HubGrows, HarvestInv, NEW h \in Harvests, NEW l, Be(h, l)
  PROVE  /\ harvest'[h] = l
         /\ HarvestOK(harvest[h])
         /\ HarvestOK(harvest[h])' => HarvestInv'
  <1>1. /\ DOMAIN harvest' = Harvests /\ harvest'[h] = l
        /\ \A g \in Harvests : g # h => harvest'[g] = harvest[g]
    BY DEF Be, HarvestInv
  <1>2. ASSUME NEW g \in Harvests, g # h  PROVE HarvestOK(harvest[g])'
    <2>1. harvest'[g] = harvest[g] /\ HarvestOK(harvest[g])
      BY <1>1, <1>2 DEF HarvestInv
    <2>2. QED
      BY <2>1, HarvestOKStays
  <1>3. HarvestOK(harvest[h])
    BY DEF HarvestInv
  <1>4. QED
    BY <1>1, <1>2, <1>3 DEF HarvestInv

LEMMA OneMergeMoves ==
  ASSUME HubInv, HubInv', HubGrows, MergeInv, NEW m \in Coordinations, NEW l,
         Let(m, l)
  PROVE  /\ merge'[m] = l
         /\ MergeOK(merge[m])
         /\ MergeOK(merge[m])' /\ UNCHANGED <<events, deployed>> => MergeInv'
         /\ MergeOK(merge[m])' => \A n \in Coordinations : MergeOK(merge[n])'
         /\ DOMAIN merge' = Coordinations
  <1>1. /\ DOMAIN merge' = Coordinations /\ merge'[m] = l
        /\ \A n \in Coordinations : n # m => merge'[n] = merge[n]
    BY DEF Let, MergeInv
  <1>2. ASSUME NEW n \in Coordinations, n # m  PROVE MergeOK(merge[n])'
    <2>1. merge'[n] = merge[n] /\ MergeOK(merge[n])
      BY <1>1, <1>2 DEF MergeInv
    <2>2. QED
      BY <2>1, MergeOKStays
  <1>3. MergeOK(merge[m])
    BY DEF MergeInv
  <1>4. ASSUME UNCHANGED events  PROVE \A e \in events' : EventOK(e)'
    BY <1>4, EventOKStays DEF MergeInv
  <1>5. ASSUME UNCHANGED deployed
        PROVE  \A c \in deployed' : \E p \in 1..Len(pulls') : IsMergedAs(p, c)'
    <2>1. SUFFICES ASSUME NEW c \in deployed
                   PROVE  \E p \in 1..Len(pulls') : IsMergedAs(p, c)'
      BY <1>5
    <2>2. PICK p \in 1..Len(pulls) : IsMergedAs(p, c)
      BY DEF MergeInv
    <2>3. IsMergedAs(p, c)'
      BY <2>2, ApprovalStays
    <2>4. QED
      BY <2>3 DEF IsMergedAs
  <1>6. MergeOK(merge[m])' => \A n \in Coordinations : MergeOK(merge[n])'
    BY <1>2
  <1>7. QED
    BY <1>1, <1>3, <1>4, <1>5, <1>6 DEF MergeInv

\* Fields of a record that is changed at one or two places.
LEMMA HarvestFieldsStay ==
  ASSUME NEW l, DOMAIN l = HarvestFields, NEW x, NEW y
  PROVE  LET m == [l EXCEPT !.pc = x]
             n == [l EXCEPT !.pc = x, !.pull = y] IN
         /\ DOMAIN m = HarvestFields /\ m.pc = x
         /\ m.commit = l.commit /\ m.pull = l.pull
         /\ DOMAIN n = HarvestFields /\ n.pc = x
         /\ n.commit = l.commit /\ n.pull = y
  BY DEF HarvestFields

\* A harvest that neither records nor pushes its commit next.
LEMMA HarvestGoesOn ==
  ASSUME HubInv, HubInv', HubGrows, HarvestInv, NEW h \in Harvests, NEW l, Be(h, l),
         DOMAIN l = HarvestFields, l.pc \in HarvestSteps \ {"record", "push"},
         l.commit \in {0, harvest[h].commit}, l.pull \in {0, harvest[h].pull}
  PROVE  HarvestInv'
  <1>1. harvest'[h] = l /\ HarvestOK(harvest[h])
    BY OneHarvestMoves
  <1>2. HarvestOK(harvest[h])'
    <2>1. /\ Len(pulls) \in Nat /\ Len(commits) \in Nat
          /\ Len(pulls') \in Nat /\ Len(commits') \in Nat
      BY SequenceLength DEF HubInv
    <2>2. QED
      BY <1>1, <2>1 DEF HarvestOK, HubGrows
  <1>3. QED
    BY <1>2, OneHarvestMoves

LEMMA HarvestStepsOn ==
  ASSUME HubInv, HubInv', HubGrows, HarvestInv, NEW h \in Harvests, NEW pc, Step(h, pc),
         pc \in HarvestSteps \ {"record", "push"}
  PROVE  HarvestInv'
  <1> DEFINE l == [harvest[h] EXCEPT !.pc = pc]
  <1>1. HarvestOK(harvest[h])
    BY DEF HarvestInv
  <1>2. /\ DOMAIN l = HarvestFields /\ l.pc = pc
        /\ l.commit = harvest[h].commit /\ l.pull = harvest[h].pull
    BY <1>1, HarvestFieldsStay DEF HarvestOK
  <1>3. Be(h, l)
    BY DEF Step
  <1> HIDE DEF l
  <1>4. QED
    BY <1>2, <1>3, HarvestGoesOn

-----------------------------------------------------------------------------
(* The steps of a harvest *)

\* The requests that only read leave the store as it is.
LEMMA HarvestReads ==
  ASSUME HubInv, HarvestInv, NEW h \in Harvests,
         RequestHarvest(h) \/ ReadRun(h) \/ ReadArms(h) \/ ReadEnvelopes(h)
  PROVE  HubInv' /\ HubGrows /\ HarvestInv'
  <1>1. UNCHANGED hub
    BY DEF hub, deliveryVars, RequestHarvest, ReadRun, ReadArms, ReadEnvelopes
  <1>2. HubInv' /\ HubGrows
    BY <1>1, HubStutters
  <1>3. DOMAIN harvest[h] = HarvestFields
    BY DEF HarvestInv, HarvestOK
  <1>4. CASE RequestHarvest(h)
    <2> DEFINE l == [NoHarvest EXCEPT !.pc = "run", !.signed = harvest[h].signed]
    <2>1. Be(h, l)
      BY <1>4 DEF RequestHarvest
    <2>2. DOMAIN l = HarvestFields /\ l.pc = "run" /\ l.commit = 0 /\ l.pull = 0
      BY DEF NoHarvest, HarvestFields
    <2> HIDE DEF l
    <2>3. QED
      BY <1>2, <2>1, <2>2, HarvestGoesOn DEF HarvestSteps
  <1>5. CASE ReadRun(h)
    <2>1. CASE Step(h, "failed")
      BY <1>2, <2>1, HarvestStepsOn DEF HarvestSteps
    <2>2. CASE Be(h, [harvest[h] EXCEPT !.row = run, !.pc =
                        IF h \in LiveRuns THEN "envelopes" ELSE "arms"])
      <3> DEFINE l == [harvest[h] EXCEPT !.row = run, !.pc =
                         IF h \in LiveRuns THEN "envelopes" ELSE "arms"]
      <3>1. /\ DOMAIN l = HarvestFields /\ l.pc \in {"envelopes", "arms"}
            /\ l.commit = harvest[h].commit /\ l.pull = harvest[h].pull
        BY <1>3 DEF HarvestFields
      <3>2. Be(h, l)
        BY <2>2
      <3> HIDE DEF l
      <3>3. QED
        BY <1>2, <3>1, <3>2, HarvestGoesOn DEF HarvestSteps
    <2>3. QED
      BY <1>5, <2>1, <2>2 DEF ReadRun
  <1>6. CASE ReadArms(h)
    <2>1. PICK a, t, b :
            Be(h, [harvest[h] EXCEPT !.pc = "envelopes", !.arm = a, !.tree = t])
              \/ Be(h, [harvest[h] EXCEPT !.pc = "envelopes", !.blind = b])
      BY <1>6 DEF ReadArms
    <2> DEFINE l == [harvest[h] EXCEPT !.pc = "envelopes", !.arm = a, !.tree = t]
               k == [harvest[h] EXCEPT !.pc = "envelopes", !.blind = b]
    <2>2. /\ DOMAIN l = HarvestFields /\ l.pc = "envelopes"
          /\ l.commit = harvest[h].commit /\ l.pull = harvest[h].pull
          /\ DOMAIN k = HarvestFields /\ k.pc = "envelopes"
          /\ k.commit = harvest[h].commit /\ k.pull = harvest[h].pull
      BY <1>3 DEF HarvestFields
    <2>3. Be(h, l) \/ Be(h, k)
      BY <2>1
    <2> HIDE DEF l, k
    <2>4. QED
      BY <1>2, <2>2, <2>3, HarvestGoesOn DEF HarvestSteps
  <1>7. CASE ReadEnvelopes(h)
    <2>0. PICK pc \in {"signed", "authorize"} : \E t, s, late, latest, blind :
            Be(h, [harvest[h] EXCEPT !.pc = pc, !.tree = t, !.signed = s,
                     !.late = late, !.latest = latest, !.blind = blind])
      BY <1>7 DEF ReadEnvelopes, Proposed
    <2>1. PICK t, s, late, latest, blind :
            Be(h, [harvest[h] EXCEPT !.pc = pc, !.tree = t, !.signed = s,
                     !.late = late, !.latest = latest, !.blind = blind])
      BY <2>0
    <2> DEFINE l == [harvest[h] EXCEPT !.pc = pc, !.tree = t, !.signed = s,
                     !.late = late, !.latest = latest, !.blind = blind]
    <2>2. /\ DOMAIN l = HarvestFields /\ l.pc = pc
          /\ l.commit = harvest[h].commit /\ l.pull = harvest[h].pull
      BY <1>3 DEF HarvestFields
    <2>3. Be(h, l)
      BY <2>1
    <2> HIDE DEF l
    <2>4. QED
      BY <1>2, <2>0, <2>2, <2>3, HarvestGoesOn DEF HarvestSteps
  <1>8. QED
    BY <1>2, <1>4, <1>5, <1>6, <1>7

\* A request to record: done, or failed with or without the record.
LEMMA RecordingGrows ==
  ASSUME HubInv, NEW is, NEW of,
         is \in {"selected", "authorized", "committed", "published", "merged"},
         is = "committed" => of \in 1..Len(commits),
         is = "published" => of \in 0..Len(pulls),
         UNCHANGED <<commits, branch, pulls>>
  PROVE  /\ Recorded(is, of) \/ RecordThrows(is, of) => HubInv' /\ HubGrows
         /\ Recorded(is, of) /\ is = "committed" => OnRecord(of)'
  <1>1. ASSUME UNCHANGED ledger  PROVE HubInv' /\ HubGrows
    BY <1>1, HubStutters DEF hub
  <1>2. ASSUME ledger' = Append(ledger, Says(is, of))  PROVE HubInv' /\ HubGrows
    BY <1>2, HubRecords
  <1>3. Recorded(is, of) \/ RecordThrows(is, of) => HubInv' /\ HubGrows
    BY <1>1, <1>2 DEF Recorded, RecordThrows
  <1>4. ASSUME Recorded(is, of), is = "committed"  PROVE OnRecord(of)'
    <2>1. ledger' = Append(ledger, Says(is, of))
      BY <1>4 DEF Recorded
    <2>2. QED
      BY <1>4, <2>1, HubRecords
  <1>5. QED
    BY <1>3, <1>4

\* authorizeHarvest records before the commit is made.
LEMMA HarvestAuthorizes ==
  ASSUME HubInv, HarvestInv, NEW h \in Harvests, AuthorizeHarvest(h)
  PROVE  HubInv' /\ HubGrows /\ HarvestInv'
  <1>1. UNCHANGED <<commits, branch, pulls>>
    BY DEF AuthorizeHarvest, ExceptLedger
  <1>2. \/ Recorded("authorized", 0) \/ RecordThrows("authorized", 0)
        \/ UNCHANGED ledger
    BY DEF AuthorizeHarvest
  <1>3. HubInv' /\ HubGrows
    BY <1>1, <1>2, RecordingGrows, HubStutters DEF hub
  <1>4. Step(h, "commit") \/ Step(h, "failed")
    BY DEF AuthorizeHarvest
  <1>5. QED
    BY <1>3, <1>4, HarvestStepsOn DEF HarvestSteps

LEMMA HarvestCommits ==
  ASSUME HubInv, HarvestInv, NEW h \in Harvests, CommitTree(h)
  PROVE  HubInv' /\ HubGrows /\ HarvestInv'
  <1>1. PICK c : commits' = Append(commits, c)
    BY DEF CommitTree
  <1>2. /\ HubInv' /\ HubGrows /\ Len(commits') = Len(commits) + 1
        /\ UNCHANGED pulls
    BY <1>1, HubCommits DEF CommitTree
  <1>3. /\ Len(commits) \in Nat /\ Len(pulls) \in Nat
    BY HubLengths
  <1>4. PICK real \in BOOLEAN :
          Be(h, [harvest[h] EXCEPT !.pc = "record", !.commit = Len(commits) + 1,
                                   !.real = real])
    BY Zenon DEF CommitTree
  <1> DEFINE l == [harvest[h] EXCEPT !.pc = "record", !.commit = Len(commits) + 1,
                                     !.real = real]
  <1>5. HarvestOK(harvest[h])
    BY DEF HarvestInv
  <1>6. /\ DOMAIN l = HarvestFields /\ l.pc = "record"
        /\ l.commit = Len(commits) + 1 /\ l.pull = harvest[h].pull
    BY <1>5 DEF HarvestOK, HarvestFields
  <1>7. Be(h, l)
    BY <1>4
  <1> HIDE DEF l
  <1>8. harvest'[h] = l
    BY <1>2, <1>7, OneHarvestMoves
  <1>9. HarvestOK(harvest[h])'
    BY <1>2, <1>3, <1>5, <1>6, <1>8 DEF HarvestOK, HarvestSteps
  <1>10. QED
    BY <1>2, <1>7, <1>9, OneHarvestMoves

\* The commit is pushed only if its record is there.
LEMMA HarvestRecords ==
  ASSUME HubInv, HarvestInv, NEW h \in Harvests, RecordCommit(h)
  PROVE  HubInv' /\ HubGrows /\ HarvestInv'
  <1>1. UNCHANGED <<commits, branch, pulls>>
    BY DEF RecordCommit, ExceptLedger
  <1>2. HarvestOK(harvest[h]) /\ harvest[h].pc = "record"
    BY DEF HarvestInv, RecordCommit, Is
  <1>3. harvest[h].commit \in 1..Len(commits)
    BY <1>2, HubLengths DEF HarvestOK
  <1>4. HubInv' /\ HubGrows
    BY <1>1, <1>3, RecordingGrows DEF RecordCommit
  <1>5. CASE Step(h, "failed")
    BY <1>4, <1>5, HarvestStepsOn DEF HarvestSteps
  <1>6. CASE Recorded("committed", harvest[h].commit) /\ Step(h, "push")
    <2> DEFINE l == [harvest[h] EXCEPT !.pc = "push"]
    <2>1. Be(h, l)
      BY <1>6 DEF Step
    <2>2. /\ DOMAIN l = HarvestFields /\ l.pc = "push"
          /\ l.commit = harvest[h].commit /\ l.pull = harvest[h].pull
      BY <1>2, HarvestFieldsStay DEF HarvestOK
    <2> HIDE DEF l
    <2>3. harvest'[h] = l
      BY <1>4, <2>1, OneHarvestMoves
    <2> DEFINE c == harvest[h].commit
    <2>4. \A k \in 1..Len(commits) :
            Recorded("committed", k) => OnRecord(k)'
      BY <1>1, RecordingGrows
    <2>5. harvest'[h].commit \in 1..Len(commits) /\ OnRecord(harvest[h].commit)'
      BY <1>3, <1>6, <2>2, <2>3, <2>4
    <2>6. HarvestOK(harvest[h])'
      BY <1>1, <1>2, <1>3, <2>2, <2>3, <2>5, HubLengths DEF HarvestOK, HarvestSteps
    <2>7. QED
      BY <1>4, <2>1, <2>6, OneHarvestMoves
  <1>7. QED
    BY <1>5, <1>6 DEF RecordCommit

LEMMA HarvestPushes ==
  ASSUME HubInv, HarvestInv, NEW h \in Harvests, PushBranch(h)
  PROVE  HubInv' /\ HubGrows /\ HarvestInv'
  <1>1. HarvestOK(harvest[h]) /\ harvest[h].pc = "push"
    BY DEF HarvestInv, PushBranch, Is
  <1>2. OnRecord(harvest[h].commit) /\ harvest[h].commit \in 1..Len(commits)
    BY <1>1, HubLengths DEF HarvestOK
  <1>3. UNCHANGED <<ledger, commits>>
    BY DEF PushBranch, ExceptGitHub
  <1>4. Push(h) \/ UNCHANGED <<branch, pulls>>
    BY DEF PushBranch
  <1>5. HubInv' /\ HubGrows
    BY <1>2, <1>3, <1>4, HubPushes, HubStutters DEF hub
  <1>6. Step(h, "open") \/ Step(h, "report")
    BY DEF PushBranch
  <1>7. QED
    BY <1>5, <1>6, HarvestStepsOn DEF HarvestSteps

LEMMA HarvestOpens ==
  ASSUME HubInv, HarvestInv, NEW h \in Harvests, OpenPullRequest(h)
  PROVE  HubInv' /\ HubGrows /\ HarvestInv'
  <1>1. UNCHANGED <<ledger, commits>>
    BY DEF OpenPullRequest, ExceptGitHub
  <1>2. CASE CreatePullFails /\ Step(h, "report")
    BY <1>1, <1>2, HubFailsToCreatePull, HarvestStepsOn DEF HarvestSteps
  <1>3. ASSUME NEW n \in PullIds, CreatePull(n),
               Be(h, [harvest[h] EXCEPT !.pc = "report", !.pull = n])
        PROVE  HubInv' /\ HubGrows /\ HarvestInv'
    <2> DEFINE l == [harvest[h] EXCEPT !.pc = "report", !.pull = n]
    <2>1. PullCreated(n) /\ UNCHANGED branch
      BY <1>3 DEF CreatePull
    <2>2. HubInv' /\ HubGrows /\ n \in 1..Len(pulls')
      BY <1>1, <2>1, HubCreatesPull
    <2>3. HarvestOK(harvest[h])
      BY DEF HarvestInv
    <2>4. /\ DOMAIN l = HarvestFields /\ l.pc = "report"
          /\ l.commit = harvest[h].commit /\ l.pull = n
      BY <2>3, HarvestFieldsStay DEF HarvestOK
    <2>5. Be(h, l)
      BY <1>3
    <2> HIDE DEF l
    <2>6. harvest'[h] = l
      BY <2>2, <2>5, OneHarvestMoves
    <2>7. Len(pulls') \in Nat
      BY <2>2, SequenceLength DEF HubInv
    <2>8. HarvestOK(harvest[h])'
      BY <1>1, <2>2, <2>3, <2>4, <2>6, <2>7 DEF HarvestOK, HarvestSteps
    <2>9. QED
      BY <2>2, <2>5, <2>8, OneHarvestMoves
  <1>4. QED
    BY <1>2, <1>3 DEF OpenPullRequest

LEMMA HarvestReports ==
  ASSUME HubInv, HarvestInv, NEW h \in Harvests, RecordPullRequest(h)
  PROVE  HubInv' /\ HubGrows /\ HarvestInv'
  <1>1. UNCHANGED <<commits, branch, pulls>>
    BY DEF RecordPullRequest, ExceptLedger
  <1>2. harvest[h].pull \in 0..Len(pulls)
    BY DEF HarvestInv, HarvestOK
  <1>3. HubInv' /\ HubGrows
    BY <1>1, <1>2, RecordingGrows DEF RecordPullRequest
  <1>4. Step(h, "done") \/ Step(h, "failed")
    BY DEF RecordPullRequest
  <1>5. QED
    BY <1>3, <1>4, HarvestStepsOn DEF HarvestSteps

\* Every step of a harvest keeps what holds of the store and of harvests.
LEMMA HarvestStepKeeps ==
  ASSUME HubInv, HarvestInv, HarvestNext
  PROVE  HubInv' /\ HubGrows /\ HarvestInv'
  <1>1. PICK h \in Harvests : HarvestStep(h)
    BY DEF HarvestNext
  <1>2. QED
    BY <1>1, HarvestReads, HarvestAuthorizes, HarvestCommits, HarvestRecords,
       HarvestPushes, HarvestOpens, HarvestReports
       DEF HarvestStep

-----------------------------------------------------------------------------
(* The steps of a merge *)

LEMMA MergeFieldsStay ==
  ASSUME NEW l, DOMAIN l = MergeFields, NEW x
  PROVE  LET k == [l EXCEPT !.pc = x] IN
         /\ DOMAIN k = MergeFields /\ k.pc = x /\ k.pull = l.pull
         /\ k.head = l.head /\ k.approval = l.approval
         /\ k.checked = l.checked /\ k.deploy = l.deploy
  BY DEF MergeFields

\* A merge that goes on without having merged or looked anything up.
LEMMA MergeGoesOn ==
  ASSUME HubInv, HubInv', HubGrows, MergeInv, NEW m \in Coordinations, NEW pc,
         Go(m, pc), UNCHANGED <<events, deployed>>,
         pc \in {"done", "failed", "reviews", "merge"},
         pc \in {"reviews", "merge"} => merge[m].pull # 0,
         pc = "merge" /\ merge[m].approval => IsApproved(merge[m].pull)
  PROVE  MergeInv'
  <1> DEFINE l == [merge[m] EXCEPT !.pc = pc]
  <1>1. MergeOK(merge[m])
    BY DEF MergeInv
  <1>2. /\ DOMAIN l = MergeFields /\ l.pc = pc /\ l.pull = merge[m].pull
        /\ l.head = merge[m].head /\ l.approval = merge[m].approval
        /\ l.checked = merge[m].checked /\ l.deploy = merge[m].deploy
    BY <1>1, MergeFieldsStay DEF MergeOK
  <1>3. Let(m, l)
    BY DEF Go
  <1> HIDE DEF l
  <1>4. merge'[m] = l
    BY <1>3, OneMergeMoves
  <1>5. MergeOK(l)
    BY <1>1, <1>2 DEF MergeOK, MergeSteps
  <1>6. \A k : MergeOK(k) => MergeOK(k)'
    BY MergeOKStays
  <1>7. MergeOK(merge[m])'
    BY <1>4, <1>5, <1>6 DEF MergeOK
  <1>8. QED
    BY <1>3, <1>7, OneMergeMoves

LEMMA MergeIsRequested ==
  ASSUME HubInv, MergeInv, NEW m \in Merges, NEW p, NEW options \in OptionsOf[m],
         RequestMerge(m, p, options)
  PROVE  HubInv' /\ HubGrows /\ MergeInv'
  <1> DEFINE l == [NoMerge EXCEPT !.pc = "attest", !.pull = p,
                     !.approval = options.approval, !.checked = options.approval,
                     !.deploy = options.deploy]
  <1>1. HubInv' /\ HubGrows
    BY HubStutters DEF RequestMerge, deliveryVars, hub
  <1>2. options.approval \in BOOLEAN /\ options.deploy \in BOOLEAN
    BY OptionsAssumption
  <1>3. /\ DOMAIN l = MergeFields /\ l.pc = "attest" /\ l.pull = p /\ l.head = 0
        /\ l.deploy = options.deploy
    BY DEF NoMerge, MergeFields
  <1>4. l.approval = options.approval /\ l.checked = options.approval
    BY DEF NoMerge
  <1>5. Let(m, l) /\ m \in Coordinations
    BY DEF RequestMerge, Coordinations
  <1>6. p \in 0..Len(pulls) /\ UNCHANGED <<pulls, commits, events, deployed>>
    BY DEF RequestMerge, deliveryVars, Elsewhere
  <1> HIDE DEF l
  <1>7. merge'[m] = l
    BY <1>1, <1>5, OneMergeMoves
  <1>8. MergeOK(l)
    BY <1>2, <1>3, <1>4, <1>6, HubLengths DEF MergeOK, MergeSteps
  <1>9. MergeOK(merge[m])'
    BY <1>1, <1>7, <1>8, MergeOKStays DEF MergeOK
  <1>10. QED
    BY <1>1, <1>5, <1>6, <1>9, OneMergeMoves

\* A report of an approval finds it given, one of a merge finds it made.
LEMMA MergeIsReported ==
  ASSUME HubInv, MergeInv, NEW m \in Webhooks, NEW e \in events, DeliverWebhook(m, e)
  PROVE  HubInv' /\ HubGrows /\ MergeInv'
  <1>1. HubInv' /\ HubGrows
    BY HubStutters DEF DeliverWebhook, deliveryVars, hub
  <1>2. m \in Coordinations /\ UNCHANGED <<pulls, commits, events, deployed>>
    BY DEF DeliverWebhook, deliveryVars, Elsewhere, Coordinations
  <1>3. EventOK(e)
    BY DEF MergeInv
  <1>4. Len(pulls) \in Nat /\ Len(commits) \in Nat
    BY HubLengths
  <1>5. CASE e.is = "closed"
    <2> DEFINE l == [NoMerge EXCEPT !.pc = "deploy", !.pull = e.pull,
                                    !.head = pulls[e.pull].head]
    <2>1. Let(m, l)
      BY <1>5 DEF DeliverWebhook
    <2>2. /\ DOMAIN l = MergeFields /\ l.pc = "deploy" /\ l.pull = e.pull
          /\ l.head = pulls[e.pull].head /\ l.approval = FALSE
          /\ l.checked = FALSE /\ l.deploy = TRUE
      BY DEF NoMerge, MergeFields
    <2> HIDE DEF l
    <2>3. merge'[m] = l
      BY <1>1, <1>2, <2>1, OneMergeMoves
    <2>4. IsMergedAs(e.pull, pulls[e.pull].head)
      BY <1>3, <1>5 DEF EventOK, IsMergedAs
    <2>5. pulls[e.pull].head \in 0..Len(commits)
      <3>1. OnRecord(pulls[e.pull].head)
        BY <2>4 DEF IsMergedAs, HubInv, PullInv
      <3>2. PICK i \in 1..Len(ledger) : ledger[i] = Says("committed", pulls[e.pull].head)
        BY <3>1 DEF OnRecord
      <3>3. ledger[i].is = "committed" /\ ledger[i].of = pulls[e.pull].head
        BY <3>2 DEF Says
      <3>4. ledger[i].of \in 1..Len(commits)
        BY <3>3 DEF HubInv, LedgerInv
      <3>5. QED
        BY <1>4, <3>3, <3>4
    <2>6. MergeOK(l)
      <3>1. e.pull \in 0..Len(pulls) /\ IsMergedAs(l.pull, l.head)
        BY <1>3, <1>4, <2>2, <2>4 DEF EventOK
      <3>2. ~l.approval /\ ~l.checked /\ l.approval \in BOOLEAN
            /\ l.checked \in BOOLEAN /\ l.deploy \in BOOLEAN
        BY <2>2
      <3>3. QED
        BY <2>2, <2>5, <3>1, <3>2 DEF MergeOK, MergeSteps
    <2>7. MergeOK(merge[m])'
      BY <1>1, <2>3, <2>6, MergeOKStays DEF MergeOK
    <2>8. QED
      BY <1>1, <1>2, <2>1, <2>7, OneMergeMoves
  <1>6. CASE e.is # "closed"
    <2> DEFINE l == [NoMerge EXCEPT !.pc = "attest", !.pull = e.pull,
                                    !.checked = e.is = "approved"]
    <2>1. Let(m, l)
      BY <1>6 DEF DeliverWebhook
    <2>2. /\ DOMAIN l = MergeFields /\ l.pc = "attest" /\ l.pull = e.pull
          /\ l.head = 0 /\ l.approval = FALSE /\ l.deploy = TRUE
      BY DEF NoMerge, MergeFields
    <2>3. l.checked = (e.is = "approved")
      BY DEF NoMerge
    <2> HIDE DEF l
    <2>4. merge'[m] = l
      BY <1>1, <1>2, <2>1, OneMergeMoves
    <2>5. l.checked \in BOOLEAN /\ (l.checked => IsApproved(e.pull))
      BY <1>3, <2>3 DEF EventOK
    <2>6. MergeOK(l)
      <3>1. e.pull \in 0..Len(pulls)
        BY <1>3, <1>4 DEF EventOK
      <3>2. ~l.approval /\ l.approval \in BOOLEAN /\ l.deploy \in BOOLEAN
        BY <2>2
      <3>3. l.checked => IsApproved(l.pull)
        BY <2>2, <2>5
      <3>4. QED
        BY <1>4, <2>2, <2>5, <3>1, <3>2, <3>3 DEF MergeOK, MergeSteps
    <2>7. MergeOK(merge[m])'
      BY <1>1, <2>4, <2>6, MergeOKStays DEF MergeOK
    <2>8. QED
      BY <1>1, <1>2, <2>1, <2>7, OneMergeMoves
  <1>7. QED
    BY <1>5, <1>6

\* A pull request on record exists.
LEMMA PublishedPullExists ==
  ASSUME HubInv
  PROVE  PublishedPull \in 0..Len(pulls)
  <1> DEFINE found == {e \in 1..Len(ledger) :
                         ledger[e].is = "published" /\ ledger[e].of # 0}
  <1>1. Len(pulls) \in Nat /\ Len(ledger) \in Nat
    BY HubLengths
  <1>2. CASE found = {}
    BY <1>1, <1>2 DEF PublishedPull
  <1>3. CASE found # {}
    <2>1. found \in SUBSET Nat
      BY <1>1
    <2>2. Min(found) \in found
      BY <1>3, <2>1, MinIsMember
    <2>3. ledger[Min(found)].of \in 0..Len(pulls)
      BY <2>2 DEF HubInv, LedgerInv
    <2>4. PublishedPull = ledger[Min(found)].of
      BY <1>3 DEF PublishedPull
    <2>5. QED
      BY <2>3, <2>4
  <1>4. QED
    BY <1>2, <1>3

LEMMA MergeIsAttested ==
  ASSUME HubInv, MergeInv, NEW m \in Coordinations, Attest(m)
  PROVE  HubInv' /\ HubGrows /\ MergeInv'
  <1>1. HubInv' /\ HubGrows
    BY HubStutters DEF Attest, deliveryVars, hub
  <1>2. UNCHANGED <<pulls, commits, events, deployed>>
    BY DEF Attest, deliveryVars, Elsewhere
  <1>3. CASE Go(m, "failed")
    BY <1>1, <1>2, <1>3, MergeGoesOn
  <1>4. CASE ~Go(m, "failed")
    <2> DEFINE p == IF merge[m].pull # 0 THEN merge[m].pull ELSE PublishedPull
               l == [merge[m] EXCEPT !.pull = p,
                       !.pc = IF p = 0 THEN "resolve" ELSE "details"]
    <2>1. Let(m, l)
      BY <1>4 DEF Attest, Ends
    <2>2. MergeOK(merge[m])
      BY DEF MergeInv
    <2>3. p \in 0..Len(pulls)
      BY <2>2, PublishedPullExists DEF MergeOK
    <2>4. /\ DOMAIN l = MergeFields /\ l.pull = p
          /\ l.pc = IF p = 0 THEN "resolve" ELSE "details"
          /\ l.head = merge[m].head /\ l.approval = merge[m].approval
          /\ l.checked = merge[m].checked /\ l.deploy = merge[m].deploy
      BY <2>2 DEF MergeOK, MergeFields
    <2>5. IsApproved(merge[m].pull) => p = merge[m].pull
      BY HubLengths DEF IsApproved
    <2> HIDE DEF p, l
    <2>6. merge'[m] = l
      BY <1>1, <2>1, OneMergeMoves
    <2>7. MergeOK(l)
      BY <2>2, <2>3, <2>4, <2>5 DEF MergeOK, MergeSteps
    <2>8. MergeOK(merge[m])'
      BY <1>1, <2>6, <2>7, MergeOKStays DEF MergeOK
    <2>9. QED
      BY <1>1, <1>2, <2>1, <2>8, OneMergeMoves
  <1>5. QED
    BY <1>3, <1>4

LEMMA MergeResolves ==
  ASSUME HubInv, MergeInv, NEW m \in Coordinations, ResolvePull(m)
  PROVE  HubInv' /\ HubGrows /\ MergeInv'
  <1>1. UNCHANGED <<ledger, commits, events, deployed>>
    BY DEF ResolvePull, ExceptGitHub, Elsewhere
  <1>2. CASE CreatePullFails /\ Go(m, "failed")
    BY <1>1, <1>2, HubFailsToCreatePull, MergeGoesOn
  <1>3. ASSUME NEW n \in PullIds, CreatePull(n),
               Let(m, [merge[m] EXCEPT !.pc = "details", !.pull = n])
        PROVE  HubInv' /\ HubGrows /\ MergeInv'
    <2> DEFINE l == [merge[m] EXCEPT !.pc = "details", !.pull = n]
    <2>1. PullCreated(n) /\ UNCHANGED branch
      BY <1>3 DEF CreatePull
    <2>2. HubInv' /\ HubGrows /\ n \in 1..Len(pulls')
      BY <1>1, <2>1, HubCreatesPull
    <2>3. MergeOK(merge[m]) /\ merge[m].pull = 0
      BY DEF MergeInv, MergeOK, ResolvePull, In
    <2>4. /\ DOMAIN l = MergeFields /\ l.pc = "details" /\ l.pull = n
          /\ l.head = merge[m].head /\ l.approval = merge[m].approval
          /\ l.checked = merge[m].checked /\ l.deploy = merge[m].deploy
      BY <2>3 DEF MergeOK, MergeFields
    <2>5. Let(m, l)
      BY <1>3
    <2> HIDE DEF l
    <2>6. merge'[m] = l
      BY <2>2, <2>5, OneMergeMoves
    <2>7. /\ Len(pulls') \in Nat /\ Len(commits) \in Nat
      BY <2>2, SequenceLength DEF HubInv
    <2>8. ~IsApproved(0)
      BY HubLengths DEF IsApproved
    <2>9. l.checked => l.approval
      BY <2>3, <2>4, <2>8 DEF MergeOK
    <2>10. MergeOK(merge[m])'
      BY <1>1, <2>2, <2>3, <2>4, <2>6, <2>7, <2>9 DEF MergeOK, MergeSteps
    <2>11. QED
      BY <1>1, <2>2, <2>5, <2>10, OneMergeMoves
  <1>4. QED
    BY <1>2, <1>3 DEF ResolvePull

\* A merged pull request keeps its head.
LEMMA MergedHeadIsACommit ==
  ASSUME HubInv, NEW p \in 1..Len(pulls), pulls[p].merged
  PROVE  pulls[p].head \in 1..Len(commits)
  <1>1. OnRecord(pulls[p].head)
    BY DEF HubInv, PullInv
  <1>2. PICK i \in 1..Len(ledger) : ledger[i] = Says("committed", pulls[p].head)
    BY <1>1 DEF OnRecord
  <1>3. ledger[i].is = "committed" /\ ledger[i].of = pulls[p].head
    BY <1>2 DEF Says
  <1>4. QED
    BY <1>3 DEF HubInv, LedgerInv

LEMMA MergeIsLookedUp ==
  ASSUME HubInv, MergeInv, NEW m \in Coordinations, GetPullRequest(m)
  PROVE  HubInv' /\ HubGrows /\ MergeInv'
  <1>1. HubInv' /\ HubGrows
    BY HubStutters DEF GetPullRequest, deliveryVars, hub
  <1>2. UNCHANGED <<pulls, commits, events, deployed>>
    BY DEF GetPullRequest, deliveryVars, Elsewhere
  <1>3. MergeOK(merge[m]) /\ merge[m].pc = "details"
    BY DEF MergeInv, GetPullRequest, In
  <1>4. merge[m].pull \in 1..Len(pulls)
    BY <1>3, HubLengths DEF MergeOK
  <1>5. CASE Go(m, "failed")
    BY <1>1, <1>2, <1>5, MergeGoesOn
  <1>6. CASE Go(m, IF merge[m].approval THEN "reviews" ELSE "merge")
    BY <1>1, <1>2, <1>3, <1>6, MergeGoesOn DEF MergeOK
  <1>7. ASSUME pulls[merge[m].pull].merged, ~merge[m].approval \/ merge[m].approval,
               Let(m, [merge[m] EXCEPT !.head = pulls[merge[m].pull].head,
                         !.pc = IF merge[m].deploy THEN "deploy" ELSE "done"])
        PROVE  MergeInv'
    <2> DEFINE l == [merge[m] EXCEPT !.head = pulls[merge[m].pull].head,
                         !.pc = IF merge[m].deploy THEN "deploy" ELSE "done"]
    <2>1. /\ DOMAIN l = MergeFields /\ l.pc \in {"deploy", "done"}
          /\ l.pull = merge[m].pull /\ l.head = pulls[merge[m].pull].head
          /\ l.approval = merge[m].approval
          /\ l.checked = merge[m].checked /\ l.deploy = merge[m].deploy
      BY <1>3 DEF MergeOK, MergeFields
    <2>2. Let(m, l)
      BY <1>7
    <2> HIDE DEF l
    <2>3. IsMergedAs(l.pull, l.head)
      BY <1>4, <1>7, <2>1 DEF IsMergedAs
    <2>4. l.head \in 0..Len(commits)
      BY <1>4, <1>7, <2>1, MergedHeadIsACommit, HubLengths
    <2>5. MergeOK(l)
      BY <1>3, <2>1, <2>3, <2>4 DEF MergeOK, MergeSteps
    <2>6. merge'[m] = l
      BY <1>1, <2>2, OneMergeMoves
    <2>7. MergeOK(merge[m])'
      BY <1>1, <2>5, <2>6, MergeOKStays DEF MergeOK
    <2>8. QED
      BY <1>1, <1>2, <2>2, <2>7, OneMergeMoves
  <1>8. QED
    BY <1>1, <1>5, <1>6, <1>7 DEF GetPullRequest, Ends

LEMMA MergeIsReviewed ==
  ASSUME HubInv, MergeInv, NEW m \in Coordinations, GetReviews(m)
  PROVE  HubInv' /\ HubGrows /\ MergeInv'
  <1>1. HubInv' /\ HubGrows
    BY HubStutters DEF GetReviews, deliveryVars, hub
  <1>2. UNCHANGED <<pulls, commits, events, deployed>>
    BY DEF GetReviews, deliveryVars, Elsewhere
  <1>3. MergeOK(merge[m]) /\ merge[m].pc = "reviews"
    BY DEF MergeInv, GetReviews, In
  <1>4. merge[m].pull \in 1..Len(pulls)
    BY <1>3, HubLengths DEF MergeOK
  <1>5. CASE Go(m, "failed")
    BY <1>1, <1>2, <1>5, MergeGoesOn
  <1>6. CASE pulls[merge[m].pull].approvals # {} /\ Go(m, "merge")
    <2>1. IsApproved(merge[m].pull) /\ merge[m].pull # 0
      BY <1>3, <1>4, <1>6 DEF IsApproved, MergeOK
    <2>2. QED
      BY <1>1, <1>2, <1>6, <2>1, MergeGoesOn
  <1>7. QED
    BY <1>1, <1>5, <1>6 DEF GetReviews, Ends

\* What GitHub has to report when it merges a pull request.
LEMMA MergeIsReportable ==
  ASSUME HubInv, HubInv', HubGrows, MergeInv, NEW p \in 1..Len(pulls'),
         pulls'[p].merged, Reports("closed", p)
  PROVE  \A e \in events' : EventOK(e)'
  <1>1. ASSUME NEW e \in events  PROVE EventOK(e)'
    BY <1>1, EventOKStays DEF MergeInv
  <1>2. EventOK([is |-> "closed", pull |-> p])'
    BY DEF EventOK
  <1>3. QED
    BY <1>1, <1>2 DEF Reports

LEMMA DeployedStays ==
  ASSUME HubInv, HubInv', HubGrows, MergeInv, NEW c \in deployed
  PROVE  \E p \in 1..Len(pulls') : IsMergedAs(p, c)'
  <1>1. PICK p \in 1..Len(pulls) : IsMergedAs(p, c)
    BY DEF MergeInv
  <1>2. IsMergedAs(p, c)'
    BY <1>1, ApprovalStays
  <1>3. QED
    BY <1>2 DEF IsMergedAs

LEMMA GitHubMergesOne ==
  ASSUME HubInv, MergeInv, NEW p \in 1..Len(pulls), NEW checked \in BOOLEAN,
         GitHubMerges(p, checked), checked => IsApproved(p),
         UNCHANGED <<ledger, commits, branch>>
  PROVE  /\ HubInv' /\ HubGrows
         /\ pulls'[p].merged /\ pulls'[p].head = branch
         /\ p \in 1..Len(pulls')
         /\ \A e \in events' : EventOK(e)'
  <1>1. /\ HubInv' /\ HubGrows /\ pulls'[p].merged /\ pulls'[p].head = branch
    BY HubMerges DEF IsApproved
  <1>2. Len(pulls) \in Nat /\ Len(pulls') \in Nat
    BY <1>1, SequenceLength DEF HubInv
  <1>3. p \in 1..Len(pulls')
    BY <1>1, <1>2 DEF HubGrows
  <1>4. \A e \in events' : EventOK(e)'
    BY <1>1, <1>3, MergeIsReportable DEF GitHubMerges
  <1>5. QED
    BY <1>1, <1>3, <1>4

LEMMA MergeIsMade ==
  ASSUME HubInv, MergeInv, NEW m \in Coordinations, MergePullRequest(m)
  PROVE  HubInv' /\ HubGrows /\ MergeInv'
  <1>1. UNCHANGED <<ledger, commits, branch, deployed>>
    BY DEF MergePullRequest
  <1>2. MergeOK(merge[m]) /\ merge[m].pc = "merge"
    BY DEF MergeInv, MergePullRequest, In
  <1>3. merge[m].pull \in 1..Len(pulls) /\ merge[m].checked \in BOOLEAN
    BY <1>2, HubLengths DEF MergeOK
  <1>4. merge[m].checked => IsApproved(merge[m].pull)
    BY <1>2 DEF MergeOK
  <1>5. CASE Go(m, "failed") /\ UNCHANGED <<pulls, events>>
    BY <1>1, <1>5, HubStutters, MergeGoesOn DEF hub
  <1>6. ASSUME NEW p, p = merge[m].pull, GitHubMerges(p, merge[m].checked)
        PROVE  /\ HubInv' /\ HubGrows
               /\ pulls'[p].merged /\ pulls'[p].head = branch
               /\ p \in 1..Len(pulls')
               /\ \A e \in events' : EventOK(e)'
               /\ \A c \in deployed' : \E q \in 1..Len(pulls') : IsMergedAs(q, c)'
    <2>1. /\ HubInv' /\ HubGrows /\ pulls'[p].merged /\ pulls'[p].head = branch
          /\ p \in 1..Len(pulls') /\ \A e \in events' : EventOK(e)'
      BY <1>1, <1>3, <1>4, <1>6, GitHubMergesOne
    <2>2. QED
      BY <1>1, <2>1, DeployedStays
  <1>7. ASSUME GitHubMerges(merge[m].pull, merge[m].checked), Go(m, "failed")
        PROVE  HubInv' /\ HubGrows /\ MergeInv'
    <2> DEFINE l == [merge[m] EXCEPT !.pc = "failed"]
    <2>1. /\ DOMAIN l = MergeFields /\ l.pc = "failed" /\ l.pull = merge[m].pull
          /\ l.head = merge[m].head /\ l.approval = merge[m].approval
          /\ l.checked = merge[m].checked /\ l.deploy = merge[m].deploy
      BY <1>2, MergeFieldsStay DEF MergeOK
    <2>2. Let(m, l)
      BY <1>7 DEF Go
    <2> HIDE DEF l
    <2>3. /\ HubInv' /\ HubGrows /\ \A e \in events' : EventOK(e)'
          /\ \A c \in deployed' : \E q \in 1..Len(pulls') : IsMergedAs(q, c)'
      BY <1>6, <1>7
    <2>4. MergeOK(l)
      BY <1>2, <2>1 DEF MergeOK, MergeSteps
    <2>5. merge'[m] = l
      BY <2>2, <2>3, OneMergeMoves
    <2>6. MergeOK(merge[m])'
      BY <2>3, <2>4, <2>5, MergeOKStays DEF MergeOK
    <2>7. QED
      BY <2>2, <2>3, <2>6, OneMergeMoves DEF MergeInv
  <1>8. ASSUME GitHubMerges(merge[m].pull, merge[m].checked),
               Let(m, [merge[m] EXCEPT !.pc = "record", !.head = branch])
        PROVE  HubInv' /\ HubGrows /\ MergeInv'
    <2> DEFINE l == [merge[m] EXCEPT !.pc = "record", !.head = branch]
    <2>1. /\ DOMAIN l = MergeFields /\ l.pc = "record" /\ l.pull = merge[m].pull
          /\ l.head = branch /\ l.approval = merge[m].approval
          /\ l.checked = merge[m].checked /\ l.deploy = merge[m].deploy
      BY <1>2 DEF MergeOK, MergeFields
    <2>2. Let(m, l)
      BY <1>8
    <2> HIDE DEF l
    <2>3. PICK p : p = merge[m].pull
      OBVIOUS
    <2>4. /\ HubInv' /\ HubGrows /\ \A e \in events' : EventOK(e)'
          /\ pulls'[p].merged /\ pulls'[p].head = branch
          /\ p \in 1..Len(pulls')
          /\ \A c \in deployed' : \E q \in 1..Len(pulls') : IsMergedAs(q, c)'
      BY <1>6, <1>8, <2>3
    <2>5. merge'[m] = l
      BY <2>2, <2>4, OneMergeMoves
    <2>6. IsMergedAs(p, branch)' /\ (merge[m].checked => IsApproved(p)')
      BY <1>1, <1>4, <2>3, <2>4, ApprovalStays DEF IsMergedAs
    <2>7. Len(pulls') \in Nat /\ branch \in 0..Len(commits) /\ p \in 1..Len(pulls)
      BY <1>3, <2>3, <2>4, SequenceLength DEF HubInv
    <2>8. MergeOK(merge[m])'
      BY <1>1, <1>2, <2>1, <2>3, <2>4, <2>5, <2>6, <2>7 DEF MergeOK, MergeSteps
    <2>9. QED
      BY <2>2, <2>4, <2>8, OneMergeMoves DEF MergeInv
  <1>9. QED
    BY <1>1, <1>5, <1>7, <1>8 DEF MergePullRequest, Ends

\* A merge that was made is deployed from here, whoever asks.
LEMMA MergeIsDeployable ==
  ASSUME HubInv, HubInv', HubGrows, MergeInv, NEW m \in Coordinations,
         Go(m, "deploy"), merge[m].pc = "record", UNCHANGED <<events, deployed>>
  PROVE  MergeInv'
  <1> DEFINE l == [merge[m] EXCEPT !.pc = "deploy"]
  <1>1. MergeOK(merge[m])
    BY DEF MergeInv
  <1>2. /\ DOMAIN l = MergeFields /\ l.pc = "deploy" /\ l.pull = merge[m].pull
        /\ l.head = merge[m].head /\ l.approval = merge[m].approval
        /\ l.checked = merge[m].checked /\ l.deploy = merge[m].deploy
    BY <1>1, MergeFieldsStay DEF MergeOK
  <1>3. Let(m, l)
    BY DEF Go
  <1> HIDE DEF l
  <1>4. merge'[m] = l
    BY <1>3, OneMergeMoves
  <1>5. MergeOK(l)
    BY <1>1, <1>2 DEF MergeOK, MergeSteps
  <1>6. MergeOK(merge[m])'
    BY <1>4, <1>5, MergeOKStays DEF MergeOK
  <1>7. QED
    BY <1>3, <1>6, OneMergeMoves

LEMMA MergeIsRecorded ==
  ASSUME HubInv, MergeInv, NEW m \in Coordinations, RecordMerge(m)
  PROVE  HubInv' /\ HubGrows /\ MergeInv'
  <1>1. UNCHANGED <<commits, branch, pulls, events, deployed>>
    BY DEF RecordMerge, ExceptLedger, Elsewhere
  <1>2. merge[m].pc = "record"
    BY DEF RecordMerge, In
  <1>3. HubInv' /\ HubGrows
    BY <1>1, RecordingGrows DEF RecordMerge
  <1>4. CASE Go(m, "failed") \/ Go(m, "done")
    BY <1>1, <1>3, <1>4, MergeGoesOn
  <1>5. CASE Go(m, "deploy")
    BY <1>1, <1>2, <1>3, <1>5, MergeIsDeployable
  <1>6. QED
    BY <1>4, <1>5 DEF RecordMerge

LEMMA MergeIsDeployed ==
  ASSUME HubInv, MergeInv, NEW m \in Coordinations, Deploy(m)
  PROVE  HubInv' /\ HubGrows /\ MergeInv'
  <1> DEFINE l == [merge[m] EXCEPT !.pc = "done"]
  <1>1. /\ HubInv' /\ HubGrows /\ UNCHANGED <<pulls, events>>
    BY HubStutters DEF Deploy, deliveryVars, hub
  <1>2. MergeOK(merge[m]) /\ merge[m].pc = "deploy"
    BY DEF MergeInv, Deploy, In
  <1>3. /\ DOMAIN l = MergeFields /\ l.pc = "done" /\ l.pull = merge[m].pull
        /\ l.head = merge[m].head /\ l.approval = merge[m].approval
        /\ l.checked = merge[m].checked /\ l.deploy = merge[m].deploy
    BY <1>2, MergeFieldsStay DEF MergeOK
  <1>4. Let(m, l)
    BY DEF Deploy, Go
  <1> HIDE DEF l
  <1>5. merge'[m] = l
    BY <1>1, <1>4, OneMergeMoves
  <1>6. MergeOK(l)
    BY <1>2, <1>3 DEF MergeOK, MergeSteps
  <1>7. MergeOK(merge[m])'
    BY <1>1, <1>5, <1>6, MergeOKStays DEF MergeOK
  <1>8. \A n \in Coordinations : MergeOK(merge[n])'
    BY <1>1, <1>4, <1>7, OneMergeMoves
  <1>9. \A e \in events' : EventOK(e)'
    BY <1>1, EventOKStays DEF MergeInv
  <1>10. \A c \in deployed' : \E p \in 1..Len(pulls') : IsMergedAs(p, c)'
    <2>1. \A c \in deployed : \E p \in 1..Len(pulls') : IsMergedAs(p, c)'
      BY <1>1, DeployedStays
    <2>2. PICK p, c : p = merge[m].pull /\ c = merge[m].head
      OBVIOUS
    <2>3. IsMergedAs(p, c)'
      BY <1>1, <1>2, <2>2, ApprovalStays DEF MergeOK
    <2>4. \E q \in 1..Len(pulls') : IsMergedAs(q, c)'
      BY <2>3 DEF IsMergedAs
    <2>5. deployed' = deployed \cup {c}
      BY <2>2 DEF Deploy
    <2>6. QED
      BY <2>1, <2>4, <2>5
  <1>11. DOMAIN merge' = Coordinations
    BY <1>1, <1>4, OneMergeMoves
  <1>12. QED
    BY <1>1, <1>8, <1>9, <1>10, <1>11 DEF MergeInv

LEMMA StatusIsQueried ==
  ASSUME HubInv, MergeInv, QueryPullStatus
  PROVE  HubInv' /\ HubGrows /\ MergeInv'
  <1>1. UNCHANGED <<ledger, commits>> /\ UNCHANGED mergeVars
    BY DEF QueryPullStatus, ExceptGitHub
  <1>2. CASE CreatePullFails
    BY <1>1, <1>2, HubFailsToCreatePull, MergeInvStays
  <1>3. ASSUME NEW n, CreatePull(n)  PROVE HubInv' /\ HubGrows
    BY <1>1, <1>3, HubCreatesPull DEF CreatePull
  <1>4. QED
    BY <1>1, <1>2, <1>3, MergeInvStays DEF QueryPullStatus

\* A reviewer acts: GitHub has it to report.
LEMMA ReviewersAct ==
  ASSUME HubInv, MergeInv, NEW p, Approve(p) \/ Label(p)
  PROVE  HubInv' /\ HubGrows /\ MergeInv'
  <1>1. p \in 1..Len(pulls) /\ UNCHANGED <<merge, deployed>>
    BY DEF Approve, Label, Opened
  <1>2. CASE Approve(p)
    <2>1. HubInv' /\ HubGrows /\ pulls'[p].approvals # {}
      BY <1>1, <1>2, HubApproves DEF Approve
    <2>2. p \in 1..Len(pulls')
      BY <1>1, <2>1, SequenceLength DEF HubInv, HubGrows
    <2>3. EventOK([is |-> "approved", pull |-> p])'
      BY <2>1, <2>2 DEF EventOK, IsApproved
    <2>4. \A e \in events : EventOK(e)'
      BY <2>1, EventOKStays DEF MergeInv
    <2>5. \A e \in events' : EventOK(e)'
      BY <1>2, <2>3, <2>4 DEF Approve, Reports
    <2>6. \A n \in Coordinations : MergeOK(merge[n])'
      BY <1>1, <2>1, MergeOKStays DEF MergeInv
    <2>7. \A c \in deployed' : \E q \in 1..Len(pulls') : IsMergedAs(q, c)'
      BY <1>1, <2>1, DeployedStays
    <2>8. QED
      BY <1>1, <2>1, <2>5, <2>6, <2>7 DEF MergeInv
  <1>3. CASE Label(p)
    <2>1. HubInv' /\ HubGrows
      BY <1>3, HubStutters DEF Label, deliveryVars, hub
    <2>2. p \in 1..Len(pulls')
      BY <1>1, <2>1, SequenceLength DEF HubInv, HubGrows
    <2>3. EventOK([is |-> "labeled", pull |-> p])'
      BY <2>1, <2>2 DEF EventOK
    <2>4. \A e \in events : EventOK(e)'
      BY <2>1, EventOKStays DEF MergeInv
    <2>5. \A e \in events' : EventOK(e)'
      BY <1>3, <2>3, <2>4 DEF Label, Reports
    <2>6. \A n \in Coordinations : MergeOK(merge[n])'
      BY <1>1, <2>1, MergeOKStays DEF MergeInv
    <2>7. \A c \in deployed' : \E q \in 1..Len(pulls') : IsMergedAs(q, c)'
      BY <1>1, <2>1, DeployedStays
    <2>8. QED
      BY <1>1, <2>1, <2>5, <2>6, <2>7 DEF MergeInv
  <1>4. QED
    BY <1>2, <1>3

\* Every step of a merge, a webhook or a reviewer.
LEMMA MergeStepKeeps ==
  ASSUME HubInv, MergeInv, MergeNext
  PROVE  HubInv' /\ HubGrows /\ MergeInv'
  <1>1. ASSUME NEW m \in Merges, NEW p \in {0} \cup PullIds,
               NEW options \in OptionsOf[m], RequestMerge(m, p, options)
        PROVE  HubInv' /\ HubGrows /\ MergeInv'
    BY <1>1, MergeIsRequested
  <1>2. ASSUME NEW m \in Webhooks, NEW e \in events, DeliverWebhook(m, e)
        PROVE  HubInv' /\ HubGrows /\ MergeInv'
    BY <1>2, MergeIsReported
  <1>3. ASSUME NEW m \in Coordinations,
               \/ Attest(m) \/ ResolvePull(m) \/ GetPullRequest(m) \/ GetReviews(m)
               \/ MergePullRequest(m) \/ RecordMerge(m) \/ Deploy(m)
        PROVE  HubInv' /\ HubGrows /\ MergeInv'
    BY <1>3, MergeIsAttested, MergeResolves, MergeIsLookedUp, MergeIsReviewed,
       MergeIsMade, MergeIsRecorded, MergeIsDeployed
  <1>4. CASE QueryPullStatus
    BY <1>4, StatusIsQueried
  <1>5. ASSUME NEW p \in PullIds, Approve(p) \/ Label(p)
        PROVE  HubInv' /\ HubGrows /\ MergeInv'
    BY <1>5, ReviewersAct
  <1>6. QED
    BY <1>1, <1>2, <1>3, <1>4, <1>5 DEF MergeNext

-----------------------------------------------------------------------------
(* The steps of the others *)

\* Dispatches and live runs leave the chain, the commits and GitHub alone.
LEMMA SequenceLeavesHub ==
  ASSUME SequenceNext
  PROVE  UNCHANGED hub
  <1>1. ASSUME NEW d, NEW plan, NEW body, Dispatch(d, plan, body)
        PROVE  UNCHANGED hub
    BY <1>1 DEF Dispatch, deliveryVars, hub
  <1>2. ASSUME NEW d, ExecuteRun(d)
        PROVE  UNCHANGED hub
    <2>1. CASE Provision(d)
      BY <2>1 DEF Provision, hub
    <2>2. CASE RecordEnvelope(d)
      BY <2>2 DEF RecordEnvelope, ExceptEnvelopes, hub
    <2>3. CASE Supervise(d)
      BY <2>3 DEF Supervise, deliveryVars, hub
    <2>4. CASE Reconcile(d)
      BY <2>4 DEF Reconcile, deliveryVars, hub
    <2>5. CASE Teardown(d)
      BY <2>5 DEF Teardown, ExceptRun, hub
    <2>6. CASE RecordOutputs(d)
      BY <2>6 DEF RecordOutputs, ExceptEnvelopes, hub
    <2>7. CASE Propagate(d)
      BY <2>7 DEF Propagate, deliveryVars, hub
    <2>8. QED
      BY <1>2, <2>1, <2>2, <2>3, <2>4, <2>5, <2>6, <2>7 DEF ExecuteRun
  <1>3. QED
    BY <1>1, <1>2 DEF SequenceNext

\* A selection may add its record to the chain.
LEMMA TournamentGrowsHub ==
  ASSUME HubInv, TournamentNext
  PROVE  HubInv' /\ HubGrows
  <1>1. ASSUME NEW a, NEW arm, RegisterArm(a, arm)  PROVE UNCHANGED hub
    BY <1>1 DEF RegisterArm, deliveryVars, hub
  <1>2. ASSUME NEW s, NEW a, RequestSelection(s, a)  PROVE UNCHANGED hub
    BY <1>2 DEF RequestSelection, deliveryVars, hub
  <1>3. ASSUME NEW s, RankArms(s) \/ CheckCandidate(s) \/ ListArms(s) \/ MarkNext(s)
        PROVE  UNCHANGED hub
    BY <1>3 DEF RankArms, CheckCandidate, ListArms, MarkNext, deliveryVars, hub
  <1>4. ASSUME NEW s, RecordSelection(s)  PROVE HubInv' /\ HubGrows
    BY <1>4, RecordingGrows DEF RecordSelection, ExceptLedger
  <1>5. QED
    BY <1>1, <1>2, <1>3, <1>4, HubStutters DEF TournamentNext

LEMMA LiveRunsLeaveHub ==
  ASSUME HubInv, HarvestInv, LiveNext
  PROVE  UNCHANGED hub /\ UNCHANGED mergeVars /\ HarvestInv'
  <1>1. PICK l \in LiveRuns :
          \/ AdmitIssue(l)
          \/ \E plan \in PlansOf[l], body \in BodiesOf[l] : LaunchLiveRun(l, plan, body)
          \/ HarvestLiveRun(l)
    BY DEF LiveNext
  <1>2. UNCHANGED hub /\ UNCHANGED mergeVars
    BY <1>1 DEF AdmitIssue, LaunchLiveRun, HarvestLiveRun, ExceptRow, hub
  <1>3. HubInv' /\ HubGrows
    BY <1>2, HubStutters
  <1>4. CASE HarvestLiveRun(l)
    <2> DEFINE k == [harvest[l] EXCEPT !.pc = "run"]
    <2>1. l \in Harvests /\ HarvestOK(harvest[l])
      BY DEF Harvests, HarvestInv
    <2>2. DOMAIN k = HarvestFields /\ k.pc = "run"
          /\ k.commit = harvest[l].commit /\ k.pull = harvest[l].pull
      BY <2>1, HarvestFieldsStay DEF HarvestOK
    <2>3. Be(l, k)
      BY <1>4 DEF HarvestLiveRun, Be
    <2> HIDE DEF k
    <2>4. QED
      BY <1>2, <1>3, <2>1, <2>2, <2>3, HarvestGoesOn DEF HarvestSteps
  <1>5. CASE ~HarvestLiveRun(l)
    <2>1. UNCHANGED harvest
      BY <1>1, <1>5 DEF AdmitIssue, LaunchLiveRun
    <2>2. QED
      BY <1>2, <1>3, <2>1, HarvestInvStays
  <1>6. QED
    BY <1>2, <1>4, <1>5

-----------------------------------------------------------------------------
(* The invariant *)

DeliveryInv == HubInv /\ HarvestInv /\ MergeInv

LEMMA DeliveryBegins == Init => DeliveryInv
  <1> SUFFICES ASSUME Init  PROVE DeliveryInv
    OBVIOUS
  <1>1. /\ ledger = << >> /\ commits = << >> /\ pulls = << >> /\ branch = 0
        /\ events = {} /\ deployed = {}
        /\ harvest = [h \in Harvests |-> NoHarvest]
        /\ merge = [m \in Coordinations |-> NoMerge]
    BY DEF Init, DeliveryInit, HarvestInit, MergeInit
  <1>2. HubInv
    BY <1>1, EmptyIsSequence, BoundsAssumption DEF HubInv, LedgerInv
  <1>3. HarvestOK(NoHarvest)
    BY <1>1, EmptyIsSequence DEF HarvestOK, NoHarvest, HarvestFields, HarvestSteps
  <1>4. MergeOK(NoMerge)
    BY <1>1, EmptyIsSequence DEF MergeOK, NoMerge, MergeFields, MergeSteps
  <1>5. QED
    BY <1>1, <1>2, <1>3, <1>4 DEF DeliveryInv, HarvestInv, MergeInv

LEMMA DeliveryStepKeeps ==
  ASSUME DeliveryInv, [Next]_vars
  PROVE  DeliveryInv'
  <1>1. HubInv /\ HarvestInv /\ MergeInv
    BY DEF DeliveryInv
  <1>2. CASE SequenceNext /\ UNCHANGED <<tournamentVars, harvest, mergeVars, live>>
    <2>1. HubInv' /\ HubGrows
      BY <1>1, <1>2, SequenceLeavesHub, HubStutters
    <2>2. QED
      BY <1>1, <1>2, <2>1, HarvestInvStays, MergeInvStays DEF DeliveryInv
  <1>3. CASE TournamentNext /\ UNCHANGED <<sequenceVars, harvest, mergeVars, live>>
    <2>1. HubInv' /\ HubGrows
      BY <1>1, <1>3, TournamentGrowsHub
    <2>2. QED
      BY <1>1, <1>3, <2>1, HarvestInvStays, MergeInvStays DEF DeliveryInv
  <1>4. CASE HarvestNext /\ UNCHANGED <<sequenceVars, tournamentVars, mergeVars, live>>
    <2>1. HubInv' /\ HubGrows /\ HarvestInv'
      BY <1>1, <1>4, HarvestStepKeeps
    <2>2. QED
      BY <1>1, <1>4, <2>1, MergeInvStays DEF DeliveryInv
  <1>5. CASE MergeNext /\ UNCHANGED <<sequenceVars, tournamentVars, harvest, live>>
    <2>1. HubInv' /\ HubGrows /\ MergeInv'
      BY <1>1, <1>5, MergeStepKeeps
    <2>2. QED
      BY <1>1, <1>5, <2>1, HarvestInvStays DEF DeliveryInv
  <1>6. CASE LiveNext
    <2>1. UNCHANGED hub /\ UNCHANGED mergeVars /\ HarvestInv'
      BY <1>1, <1>6, LiveRunsLeaveHub
    <2>2. HubInv' /\ HubGrows
      BY <1>1, <2>1, HubStutters
    <2>3. QED
      BY <1>1, <2>1, <2>2, MergeInvStays DEF DeliveryInv
  <1>7. CASE UNCHANGED vars
    <2>1. UNCHANGED hub /\ UNCHANGED mergeVars /\ UNCHANGED harvest
      BY <1>7 DEF vars, deliveryVars, hub
    <2>2. HubInv' /\ HubGrows
      BY <1>1, <2>1, HubStutters
    <2>3. QED
      BY <1>1, <2>1, <2>2, HarvestInvStays, MergeInvStays DEF DeliveryInv
  <1>8. QED
    BY <1>2, <1>3, <1>4, <1>5, <1>6, <1>7 DEF Next

LEMMA DeliveryHolds == Spec => []DeliveryInv
  <1>1. Init => DeliveryInv
    BY DeliveryBegins
  <1>2. DeliveryInv /\ [Next]_vars => DeliveryInv'
    BY DeliveryStepKeeps
  <1>3. QED
    BY <1>1, <1>2, PTL DEF Spec

\* What is merged has its harvest on record, and what is deployed was merged:
\* for every number of requests, webhooks, reviewers and failures.
THEOREM MergesAreAttested == Spec => []MergedIsAttested
  <1>1. DeliveryInv => MergedIsAttested
    BY DEF DeliveryInv, HubInv, PullInv, OnRecord, MergeInv, IsMergedAs,
           MergedIsAttested
  <1>2. QED
    BY <1>1, DeliveryHolds, PTL

\* A merge that asked for an approval, or was set off by one, merged what was
\* approved, or the branch was pushed again after the approval.
THEOREM MergedHeadsAreReviewed == Spec => []MergedHeadIsReviewed
  <1>1. DeliveryInv => MergedHeadIsReviewed
    BY DEF DeliveryInv, HubInv, PullInv, MergedHeadIsReviewed
  <1>2. QED
    BY <1>1, DeliveryHolds, PTL

-----------------------------------------------------------------------------
(* Issues *)

\* An issue that gets as far as the live runner has its run in the store.
IssueInv ==
  /\ DOMAIN work = Dispatches /\ DOMAIN live = LiveRuns
  /\ \A l \in Issues :
       /\ work[l].pc = "idle"
       /\ live[l] = "launch" => run.phase # "none"

\* A row in the store is not deleted.
LEMMA ProvisionKeepsRow ==
  ASSUME NEW d, ExecuteRun(d), run.phase # "none"
  PROVE  run'.phase # "none"
  <1>1. \A p : To(p).phase = p
    BY DEF To
  <1>2. CASE Provision(d)
    BY <1>1, <1>2 DEF Provision, Abandon
  <1>3. CASE Teardown(d)
    BY <1>1, <1>3 DEF Teardown
  <1>4. CASE RecordEnvelope(d) \/ Supervise(d) \/ Reconcile(d) \/ RecordOutputs(d)
             \/ Propagate(d)
    BY <1>4 DEF RecordEnvelope, Supervise, Reconcile, RecordOutputs, Propagate,
                ExceptEnvelopes, deliveryVars
  <1>5. QED
    BY <1>2, <1>3, <1>4 DEF ExecuteRun

\* A dispatch takes steps only after it is requested, and changes its own work.
LEMMA WorkIsOnesOwn ==
  ASSUME NEW d, ExecuteRun(d)
  PROVE  work[d].pc # "idle" /\ \E w : Set(d, w)
  <1>1. CASE Provision(d)
    BY <1>1, Zenon DEF Provision, Abandon, Catch, Set
  <1>2. CASE RecordEnvelope(d)
    BY <1>2, Zenon DEF RecordEnvelope, Goto, Catch, Set
  <1>3. CASE Supervise(d)
    BY <1>3, Zenon DEF Supervise, Catch, Set
  <1>4. CASE Reconcile(d)
    BY <1>4, Zenon DEF Reconcile, Set
  <1>5. CASE Teardown(d)
    <2>1. \E w : Set(d, w)
      BY <1>5, Zenon DEF Teardown, Goto, Catch
    <2>2. QED
      BY <1>5, <2>1 DEF Teardown
  <1>6. CASE RecordOutputs(d)
    BY <1>6, Zenon DEF RecordOutputs, Goto, Set
  <1>7. CASE Propagate(d)
    BY <1>7, Zenon DEF Propagate, Goto, Set
  <1>8. QED
    BY <1>1, <1>2, <1>3, <1>4, <1>5, <1>6, <1>7 DEF ExecuteRun

\* Selections, harvests and merges do not write the row.
LEMMA OthersKeepRow ==
  ASSUME TournamentNext \/ HarvestNext \/ MergeNext
  PROVE  UNCHANGED run
  <1>1. CASE TournamentNext
    <2>1. ASSUME NEW s, NEW a, NEW arm,
                 \/ RegisterArm(a, arm) \/ RequestSelection(s, a) \/ RankArms(s)
                 \/ CheckCandidate(s) \/ ListArms(s) \/ MarkNext(s)
                 \/ RecordSelection(s)
          PROVE  UNCHANGED run
      BY <2>1 DEF RegisterArm, RequestSelection, RankArms, CheckCandidate, ListArms,
                  MarkNext, RecordSelection, deliveryVars, ExceptLedger
    <2>2. QED
      BY <1>1, <2>1, Zenon DEF TournamentNext
  <1>2. CASE HarvestNext
    <2>1. PICK h \in Harvests : HarvestStep(h)
      BY <1>2 DEF HarvestNext
    <2>2. QED
      BY <2>1 DEF HarvestStep, RequestHarvest, ReadRun, ReadArms, ReadEnvelopes,
                  AuthorizeHarvest, CommitTree, RecordCommit, PushBranch,
                  OpenPullRequest, RecordPullRequest, deliveryVars, ExceptLedger,
                  ExceptGitHub
  <1>3. CASE MergeNext
    <2>1. ASSUME NEW m, NEW p, NEW o, NEW e,
                 \/ RequestMerge(m, p, o) \/ DeliverWebhook(m, e) \/ Attest(m)
                 \/ ResolvePull(m) \/ GetPullRequest(m) \/ GetReviews(m)
                 \/ MergePullRequest(m) \/ RecordMerge(m) \/ Deploy(m)
                 \/ QueryPullStatus \/ Approve(p) \/ Label(p)
          PROVE  UNCHANGED run
      BY <2>1 DEF RequestMerge, DeliverWebhook, Attest, ResolvePull, GetPullRequest,
                  GetReviews, MergePullRequest, RecordMerge, Deploy, QueryPullStatus,
                  Approve, Label, deliveryVars, ExceptLedger, ExceptGitHub
    <2>2. QED
      BY <1>3, <2>1, Zenon DEF MergeNext
  <1>4. QED
    BY <1>1, <1>2, <1>3

LEMMA IssueStepKeeps ==
  ASSUME IssueInv, [Next]_vars
  PROVE  IssueInv'
  <1>1. \A l \in Issues : l \in LiveRuns /\ l \in Dispatches
    BY IssuesAssumption, LiveRunsAssumption
  <1>2. CASE UNCHANGED <<work, live, run>>
    BY <1>2 DEF IssueInv
  <1>3. CASE SequenceNext /\ UNCHANGED live
    <2>1. ASSUME NEW d \in Dispatches, NEW plan, NEW body, Dispatch(d, plan, body)
          PROVE  IssueInv'
      <3>1. UNCHANGED run /\ d \notin LiveRuns /\ \E w : Set(d, w)
        BY <2>1 DEF Dispatch, deliveryVars
      <3>2. QED
        BY <1>1, <1>3, <3>1 DEF IssueInv, Set
    <2>2. ASSUME NEW d \in Dispatches, ExecuteRun(d)
          PROVE  IssueInv'
      <3>1. work[d].pc # "idle" /\ \E w : Set(d, w)
        BY <2>2, WorkIsOnesOwn
      <3>2. run.phase # "none" => run'.phase # "none"
        BY <2>2, ProvisionKeepsRow
      <3>3. QED
        BY <1>1, <1>3, <3>1, <3>2 DEF IssueInv, Set
    <2>3. QED
      BY <1>3, <2>1, <2>2 DEF SequenceNext
  <1>4. ASSUME NEW l \in LiveRuns, AdmitIssue(l)  PROVE IssueInv'
    BY <1>1, <1>4 DEF AdmitIssue, IssueInv, MoveLive, Created
  <1>5. ASSUME NEW l \in LiveRuns, NEW plan, NEW body, LaunchLiveRun(l, plan, body)
        PROVE  IssueInv'
    <2>1. run.phase # "none" => run'.phase # "none"
      BY <1>5 DEF LaunchLiveRun
    <2>2. CASE l \in Issues
      <3>1. run.phase # "none" /\ UNCHANGED work /\ MoveLive(l, "failed")
        BY <1>5, <2>2 DEF LaunchLiveRun, IssueInv, CanCreate
      <3>2. QED
        BY <1>1, <2>1, <3>1 DEF IssueInv, MoveLive
    <2>3. CASE l \notin Issues
      <3>1. \E pc : MoveLive(l, pc)
        BY <1>5, Zenon DEF LaunchLiveRun
      <3>2. UNCHANGED work \/ \E w : work' = [work EXCEPT ![l] = w]
        BY <1>5, Zenon DEF LaunchLiveRun
      <3>3. QED
        BY <1>1, <2>1, <2>3, <3>1, <3>2 DEF IssueInv, MoveLive
    <2>4. QED
      BY <2>2, <2>3
  <1>6. ASSUME NEW l \in LiveRuns, HarvestLiveRun(l)  PROVE IssueInv'
    BY <1>1, <1>6 DEF HarvestLiveRun, IssueInv, MoveLive
  <1>7. QED
    BY <1>2, <1>3, <1>4, <1>5, <1>6, OthersKeepRow
       DEF Next, LiveNext, vars, sequenceVars, deliveryVars

\* A run that an issue admits is never dispatched, contrary to what
\* handleIssueTrigger announces, whatever else happens: executeLiveRun inserts
\* the run that is there already.
THEOREM IssueRunsNeverStart == Spec => [](\A l \in Issues : work[l].pc = "idle")
  <1>1. Init => IssueInv
    BY IssuesAssumption, LiveRunsAssumption
       DEF Init, SequenceInit, NoWork, IssueInv
  <1>2. IssueInv /\ [Next]_vars => IssueInv'
    BY IssueStepKeeps
  <1>3. IssueInv => \A l \in Issues : work[l].pc = "idle"
    BY DEF IssueInv
  <1>4. QED
    BY <1>1, <1>2, <1>3, PTL DEF Spec
=============================================================================
