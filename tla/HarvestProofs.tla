--------------------------- MODULE HarvestProofs ---------------------------
(***************************************************************************)
(* A tournament ends with one winner unless something came between, and    *)
(* what is harvested was accepted: for any number of arms, selections,     *)
(* dispatches, harvests and failures.                                      *)
(***************************************************************************)
EXTENDS DeliveryProofs, FiniteSetTheorems

-----------------------------------------------------------------------------
(* The arms *)

LEMMA SequenceNumbers ==
  ASSUME NEW S, NEW t \in Seq(S)
  PROVE  DOMAIN t \subseteq Nat /\ 0 \notin DOMAIN t
  BY LenProperties

SelectionFields == {"pc", "arm", "left", "alone"}

ArmsAreWhole ==
  /\ DOMAIN arms \subseteq ArmIds
  /\ arms = [a \in DOMAIN arms |-> arms[a]]
  /\ \A a \in DOMAIN arms : DOMAIN arms[a] = ArmFields

\* What has been registered stays, with its tree.
ArmsAreKept ==
  \A a \in DOMAIN arms : a \in DOMAIN arms' /\ arms'[a].tree = arms[a].tree

\* A selection that is alone has seen every winner or has yet to see it; when
\* nobody marks arms and nothing came between, there is one winner at most.
ArmsInv ==
  /\ ArmsAreWhole
  /\ DOMAIN selection = Selections
  /\ \A s \in Selections :
       /\ DOMAIN selection[s] = SelectionFields
       /\ selection[s].pc \in {"idle", "rank", "check", "list"} => selection[s].alone
       /\ selection[s].pc = "list" => DOMAIN arms # {}
       /\ s \in Marking =>
            /\ selection[s].left \subseteq DOMAIN arms /\ selection[s].left # {}
            /\ selection[s].alone =>
                 /\ Marking = {s}
                 /\ \A a \in Winners : a \in selection[s].left \/ a = selection[s].arm
            /\ ~selection[s].alone => disturbed
  /\ Marking = {} /\ ~disturbed => \A a, b \in Winners : a = b

LEMMA ArmsStutter ==
  ASSUME ArmsInv, UNCHANGED tournamentVars
  PROVE  ArmsInv' /\ ArmsAreKept
  BY DEF ArmsInv, ArmsAreWhole, ArmsAreKept, Marking, Winners, tournamentVars

\* A new arm that is no winner changes nothing for the selections; one that
\* is a winner disturbs those that mark.
LEMMA ArmIsRegistered ==
  ASSUME ArmsInv, NEW a \in ArmIds, NEW arm \in ArmsOf[a], RegisterArm(a, arm)
  PROVE  ArmsInv' /\ ArmsAreKept
  <1>1. DOMAIN arm = ArmFields
    BY ArmsAssumption
  <1>2. /\ a \notin DOMAIN arms
        /\ arms' = [b \in DOMAIN arms \cup {a} |-> IF b = a THEN arm ELSE arms[b]]
    BY DEF RegisterArm
  <1>3. /\ DOMAIN arms' = DOMAIN arms \cup {a} /\ arms'[a] = arm
        /\ \A b \in DOMAIN arms : arms'[b] = arms[b]
        /\ arms' = [b \in DOMAIN arms' |-> arms'[b]]
    BY <1>2
  <1>4. ArmsAreWhole' /\ ArmsAreKept
    BY <1>1, <1>3 DEF ArmsInv, ArmsAreWhole, ArmsAreKept
  <1>5. CASE arm.selection = "winner"
    <2>1. Disturb
      BY <1>5 DEF RegisterArm
    <2>2. disturbed' /\ DOMAIN selection' = Selections
      BY <2>1 DEF Disturb
    <2>3. ASSUME NEW s \in Selections
          PROVE  /\ DOMAIN selection'[s] = SelectionFields
                 /\ selection'[s].pc = selection[s].pc
                 /\ selection'[s].left = selection[s].left
                 /\ s \in Marking => ~selection'[s].alone
                 /\ s \notin Marking /\ selection[s].alone => selection'[s].alone
      <3>1. selection'[s] = [selection[s] EXCEPT !.alone = @ /\ s \notin Marking]
        BY <2>1 DEF Disturb
      <3>2. DOMAIN selection[s] = SelectionFields
        BY DEF ArmsInv
      <3>3. QED
        BY <3>1, <3>2 DEF SelectionFields
    <2>4. Marking' = Marking
      BY <2>3 DEF Marking
    <2>5. \A s \in Selections :
            selection[s].pc \in {"idle", "rank", "check", "list"} => s \notin Marking
      BY DEF Marking
    <2>6. QED
      BY <1>3, <1>4, <2>2, <2>3, <2>4, <2>5 DEF ArmsInv
  <1>6. CASE arm.selection # "winner"
    <2>1. UNCHANGED <<selection, disturbed>>
      BY <1>6 DEF RegisterArm
    <2>2. Winners' = Winners
      BY <1>3, <1>6 DEF Winners
    <2>3. Marking' = Marking
      BY <2>1 DEF Marking
    <2>4. QED
      BY <1>3, <1>4, <2>1, <2>2, <2>3 DEF ArmsInv
  <1>7. QED
    BY <1>5, <1>6

\* A selection that neither marks arms nor is about to.
LEMMA SelectionGoesOn ==
  ASSUME ArmsInv, NEW s \in Selections, NEW l, Move(s, l),
         DOMAIN l = SelectionFields, l.pc # "mark", s \notin Marking,
         l.pc \in {"rank", "check", "list"} => l.alone,
         l.pc = "list" => DOMAIN arms # {},
         l.pc # "idle",
         UNCHANGED <<arms, disturbed>>
  PROVE  ArmsInv' /\ ArmsAreKept
  <1>1. /\ DOMAIN selection' = Selections /\ selection'[s] = l
        /\ \A t \in Selections : t # s => selection'[t] = selection[t]
    BY DEF Move, ArmsInv
  <1>2. Marking' = Marking /\ Winners' = Winners
    BY <1>1 DEF Marking, Winners
  <1>3. ArmsAreWhole' /\ ArmsAreKept
    BY DEF ArmsInv, ArmsAreWhole, ArmsAreKept
  <1>4. QED
    BY <1>1, <1>2, <1>3 DEF ArmsInv

LEMMA SelectionStepsOn ==
  ASSUME ArmsInv, NEW s \in Selections, NEW pc, MoveTo(s, pc),
         pc \notin {"idle", "mark"}, s \notin Marking, UNCHANGED <<arms, disturbed>>,
         pc \in {"rank", "check", "list"} =>
           selection[s].pc \in {"idle", "rank", "check", "list"},
         pc = "list" => DOMAIN arms # {}
  PROVE  ArmsInv' /\ ArmsAreKept
  <1> DEFINE l == [selection[s] EXCEPT !.pc = pc]
  <1>1. DOMAIN l = SelectionFields /\ l.pc = pc /\ l.alone = selection[s].alone
    BY DEF ArmsInv, SelectionFields
  <1>2. Move(s, l)
    BY DEF MoveTo
  <1> HIDE DEF l
  <1>3. l.pc \in {"rank", "check", "list"} => l.alone
    BY <1>1 DEF ArmsInv
  <1>4. QED
    BY <1>1, <1>2, <1>3, SelectionGoesOn

LEMMA SelectionIsPrepared ==
  ASSUME ArmsInv, NEW s \in Selections,
         \/ \E a \in ArmIds \cup {AutoPareto} : RequestSelection(s, a)
         \/ RankArms(s) \/ CheckCandidate(s) \/ RecordSelection(s)
  PROVE  ArmsInv' /\ ArmsAreKept
  <1>1. CASE \E a \in ArmIds \cup {AutoPareto} : RequestSelection(s, a)
    <2>1. PICK a \in ArmIds \cup {AutoPareto} : RequestSelection(s, a)
      BY <1>1
    <2> DEFINE pc == IF a = AutoPareto THEN "rank" ELSE "check"
               l == [NoSelection EXCEPT !.pc = pc, !.arm = a]
    <2>2. DOMAIN l = SelectionFields /\ l.pc \in {"rank", "check"} /\ l.alone
      BY DEF NoSelection, SelectionFields
    <2>3. Move(s, l) /\ s \notin Marking /\ UNCHANGED <<arms, disturbed>>
      BY <2>1 DEF RequestSelection, At, Marking
    <2> HIDE DEF l
    <2>4. QED
      BY <2>2, <2>3, SelectionGoesOn
  <1>2. CASE RankArms(s)
    <2>1. s \notin Marking /\ UNCHANGED <<arms, disturbed>>
      BY <1>2 DEF RankArms, At, Marking
    <2>2. CASE MoveTo(s, "failed")
      BY <2>1, <2>2, SelectionStepsOn
    <2>3. CASE ~MoveTo(s, "failed")
      <3>1. PICK a : Move(s, [selection[s] EXCEPT !.pc = "check", !.arm = a])
        BY <1>2, <2>3 DEF RankArms, Fails
      <3> DEFINE l == [selection[s] EXCEPT !.pc = "check", !.arm = a]
      <3>2. DOMAIN l = SelectionFields /\ l.pc = "check" /\ l.alone
        BY <1>2 DEF RankArms, At, ArmsInv, SelectionFields
      <3>3. Move(s, l)
        BY <3>1
      <3> HIDE DEF l
      <3>4. QED
        BY <2>1, <3>2, <3>3, SelectionGoesOn
    <2>4. QED
      BY <2>2, <2>3
  <1>3. CASE CheckCandidate(s)
    <2>1. s \notin Marking /\ UNCHANGED <<arms, disturbed>>
      BY <1>3 DEF CheckCandidate, At, Marking
    <2>2. \/ MoveTo(s, "list") /\ selection[s].arm \in DOMAIN arms
          \/ MoveTo(s, "failed")
      BY <1>3, Zenon DEF CheckCandidate, Fails
    <2>3. selection[s].pc = "check"
      BY <1>3 DEF CheckCandidate, At
    <2>4. QED
      BY <2>1, <2>2, <2>3, SelectionStepsOn
  <1>4. CASE RecordSelection(s)
    <2>1. s \notin Marking /\ UNCHANGED <<arms, disturbed>>
      BY <1>4 DEF RecordSelection, At, Marking
    <2>2. MoveTo(s, "done") \/ MoveTo(s, "failed")
      BY <1>4, Zenon DEF RecordSelection
    <2>3. QED
      BY <2>1, <2>2, SelectionStepsOn
  <1>5. QED
    BY <1>1, <1>2, <1>3, <1>4

\* A selection that begins to mark has all arms before it, and is alone unless
\* another marks already.
LEMMA ArmsAreListed ==
  ASSUME ArmsInv, NEW s \in Selections, ListArms(s)
  PROVE  ArmsInv' /\ ArmsAreKept
  <1> DEFINE l == [selection[s] EXCEPT !.pc = "mark", !.left = DOMAIN arms]
  <1>1. UNCHANGED arms /\ s \notin Marking
    BY DEF ListArms, At, Marking
  <1>2. /\ DOMAIN selection[s] = SelectionFields
        /\ DOMAIN l = SelectionFields /\ l.pc = "mark" /\ l.left = DOMAIN arms
        /\ l.alone = selection[s].alone /\ l.arm = selection[s].arm
    BY DEF ArmsInv, SelectionFields
  <1>3. ArmsAreWhole' /\ ArmsAreKept /\ Winners' = Winners
    BY <1>1 DEF ArmsInv, ArmsAreWhole, ArmsAreKept, Winners
  <1>4. selection[s].alone /\ DOMAIN arms # {}
    BY DEF ListArms, At, ArmsInv
  <1> HIDE DEF l
  <1>5. CASE MoveTo(s, "failed") /\ UNCHANGED disturbed
    BY <1>1, <1>5, SelectionStepsOn
  <1>6. CASE Marking = {} /\ Move(s, l) /\ UNCHANGED disturbed
    <2>1. /\ DOMAIN selection' = Selections /\ selection'[s] = l
          /\ \A t \in Selections : t # s => selection'[t] = selection[t]
      BY <1>6 DEF Move, ArmsInv
    <2>2. Marking' = {s}
      BY <1>2, <1>6, <2>1 DEF Marking
    <2>3. ASSUME NEW t \in Selections, t # s, t \in Marking'  PROVE FALSE
      BY <2>2, <2>3
    <2>4. \A a \in Winners : a \in DOMAIN arms
      BY DEF Winners
    <2>5. QED
      BY <1>1, <1>2, <1>3, <1>4, <1>6, <2>1, <2>2, <2>3, <2>4 DEF ArmsInv
  <1>7. CASE /\ Marking # {} /\ disturbed' = TRUE
             /\ selection' = [t \in Selections |->
                  IF t = s THEN [l EXCEPT !.alone = FALSE]
                  ELSE [selection[t] EXCEPT !.alone = @ /\ t \notin Marking]]
    <2> DEFINE k == [l EXCEPT !.alone = FALSE]
    <2>1. /\ DOMAIN k = SelectionFields /\ k.pc = "mark" /\ k.left = DOMAIN arms
          /\ ~k.alone
      BY <1>2 DEF SelectionFields
    <2>2. DOMAIN selection' = Selections /\ selection'[s] = k
      BY <1>7
    <2> HIDE DEF k
    <2>3. ASSUME NEW t \in Selections, t # s
          PROVE  /\ DOMAIN selection'[t] = SelectionFields
                 /\ selection'[t].pc = selection[t].pc
                 /\ selection'[t].left = selection[t].left
                 /\ t \in Marking => ~selection'[t].alone
                 /\ t \notin Marking /\ selection[t].alone => selection'[t].alone
      <3>1. selection'[t] = [selection[t] EXCEPT !.alone = @ /\ t \notin Marking]
        BY <1>7, <2>3
      <3>2. DOMAIN selection[t] = SelectionFields
        BY DEF ArmsInv
      <3>3. QED
        BY <3>1, <3>2 DEF SelectionFields
    <2>4. Marking' = Marking \cup {s}
      BY <2>1, <2>2, <2>3 DEF Marking
    <2>5. \A t \in Selections :
            selection[t].pc \in {"idle", "rank", "check", "list"} => t \notin Marking
      BY DEF Marking
    <2>6. disturbed' /\ Marking' # {}
      BY <1>7, <2>4
    <2>7. \A t \in Selections : t # s /\ t \in Marking' =>
            /\ selection'[t].left \subseteq DOMAIN arms /\ selection'[t].left # {}
            /\ ~selection'[t].alone
      BY <2>3, <2>4 DEF ArmsInv
    <2>8. \A t \in Selections : t # s =>
            /\ selection'[t].pc \in {"idle", "rank", "check", "list"} =>
                 selection'[t].alone
            /\ selection'[t].pc = "list" => DOMAIN arms # {}
      BY <1>4, <2>3, <2>5 DEF ArmsInv
    <2>9. \A t \in Selections : DOMAIN selection'[t] = SelectionFields
      BY <2>1, <2>2, <2>3
    <2>10. QED
      BY <1>1, <1>3, <1>4, <2>1, <2>2, <2>6, <2>7, <2>8, <2>9 DEF ArmsInv
  <1>8. QED
    <2>1. \/ Move(s, l) /\ Marking = {} /\ UNCHANGED disturbed
          \/ MoveTo(s, "failed") /\ UNCHANGED disturbed
          \/ /\ Marking # {} /\ disturbed' = TRUE
             /\ selection' = [t \in Selections |->
                  IF t = s THEN [l EXCEPT !.alone = FALSE]
                  ELSE [selection[t] EXCEPT !.alone = @ /\ t \notin Marking]]
      BY Zenon DEF ListArms, Fails, l
    <2>2. QED
      BY <1>5, <1>6, <1>7, <2>1

LEMMA OneArmIsMarked ==
  ASSUME ArmsAreWhole, NEW s \in Selections, NEW a \in DOMAIN arms, MarkArm(s, a)
  PROVE  /\ ArmsAreWhole' /\ ArmsAreKept /\ DOMAIN arms' = DOMAIN arms
         /\ \A b \in Winners' : (b \in Winners /\ b # a) \/ b = selection[s].arm
  <1> DEFINE mark == IF a = selection[s].arm THEN "winner" ELSE "runner_up"
             marked == [arms[a] EXCEPT !.selection = mark]
  <1>1. /\ DOMAIN marked = ArmFields /\ marked.selection = mark
        /\ marked.tree = arms[a].tree
    BY DEF ArmsAreWhole, ArmFields
  <1>2. arms' = [arms EXCEPT ![a] = marked]
    BY DEF MarkArm
  <1> HIDE DEF marked
  <1>3. /\ DOMAIN arms' = DOMAIN arms /\ arms'[a] = marked
        /\ \A b \in DOMAIN arms : b # a => arms'[b] = arms[b]
        /\ arms' = [b \in DOMAIN arms' |-> arms'[b]]
    BY <1>2 DEF ArmsAreWhole
  <1>4. ArmsAreWhole' /\ ArmsAreKept
    BY <1>1, <1>3 DEF ArmsAreWhole, ArmsAreKept
  <1>5. mark = "winner" => a = selection[s].arm
    OBVIOUS
  <1> HIDE DEF mark
  <1>6. \A b \in Winners' : (b \in Winners /\ b # a) \/ b = selection[s].arm
    BY <1>1, <1>3, <1>5 DEF Winners
  <1>7. QED
    BY <1>3, <1>4, <1>6

\* The next arm on the list is marked; when a selection that is alone has
\* marked the last, its own arm is the only winner.
LEMMA ArmIsMarked ==
  ASSUME ArmsInv, NEW s \in Selections, MarkNext(s)
  PROVE  ArmsInv' /\ ArmsAreKept
  <1> DEFINE l == selection[s]
             a == Min(l.left)
             rest == l.left \ {a}
             pc == IF rest = {} THEN "record" ELSE "mark"
             k == [l EXCEPT !.left = rest, !.pc = pc]
             f == [l EXCEPT !.pc = "failed"]
  <1>1. s \in Marking
    BY DEF MarkNext, At, Marking
  <1>2. /\ DOMAIN l = SelectionFields
        /\ l.left \subseteq DOMAIN arms /\ l.left # {}
        /\ l.alone => /\ Marking = {s}
                      /\ \A b \in Winners : b \in l.left \/ b = l.arm
        /\ ~l.alone => disturbed
    BY <1>1 DEF ArmsInv
  <1>3. a \in l.left
    <2>1. l.left \in SUBSET Nat
      BY <1>2, ArmsAssumption, SequenceNumbers DEF ArmsInv, ArmsAreWhole, ArmIds
    <2>2. QED
      BY <1>2, <2>1, MinIsMember
  <1>4. /\ DOMAIN k = SelectionFields /\ k.left = rest /\ k.pc = pc
        /\ k.alone = l.alone /\ k.arm = l.arm
        /\ DOMAIN f = SelectionFields /\ f.pc = "failed"
    BY <1>2 DEF SelectionFields
  <1>5. ASSUME NEW b \in Selections, b # s, b \in Marking  PROVE disturbed /\ ~l.alone
    BY <1>1, <1>2, <1>5 DEF ArmsInv
  <1> HIDE DEF k, f
  <1>6. ASSUME UNCHANGED arms \/ MarkArm(s, a)  PROVE ArmsAreWhole' /\ ArmsAreKept
    <2>1. CASE UNCHANGED arms
      BY <2>1 DEF ArmsInv, ArmsAreWhole, ArmsAreKept
    <2>2. CASE MarkArm(s, a)
      BY <1>2, <1>3, <2>2, OneArmIsMarked DEF ArmsInv
    <2>3. QED
      BY <1>6, <2>1, <2>2
  <1>7. CASE /\ MarkArm(s, a) /\ Move(s, k)
             /\ disturbed' = (disturbed /\ ~(rest = {} /\ l.alone))
    <2>1. /\ DOMAIN selection' = Selections /\ selection'[s] = k
          /\ \A t \in Selections : t # s => selection'[t] = selection[t]
      BY <1>7 DEF Move, ArmsInv
    <2>2. ArmsAreWhole' /\ ArmsAreKept /\ DOMAIN arms' = DOMAIN arms
          /\ \A b \in Winners' : (b \in Winners /\ b # a) \/ b = l.arm
      BY <1>2, <1>3, <1>7, OneArmIsMarked DEF ArmsInv
    <2>3. CASE rest # {}
      <3>1. Marking' = Marking
        BY <1>1, <1>4, <2>1, <2>3 DEF Marking
      <3>2. disturbed' <=> disturbed
        BY <1>7, <2>3
      <3>3. l.alone => \A b \in Winners' : b \in rest \/ b = l.arm
        BY <1>2, <2>2
      <3>4. QED
        BY <1>1, <1>2, <1>4, <2>1, <2>2, <2>3, <3>1, <3>2, <3>3 DEF ArmsInv
    <2>4. CASE rest = {}
      <3>1. Marking' = Marking \ {s}
        BY <1>4, <2>1, <2>4 DEF Marking
      <3>2. ASSUME l.alone
            PROVE  Marking' = {} /\ \A b, c \in Winners' : b = c
        BY <1>2, <2>2, <2>4, <3>1, <3>2
      <3>3. ~l.alone => disturbed'
        BY <1>2, <1>7
      <3>4. ASSUME NEW t \in Selections, t \in Marking'
            PROVE  disturbed' /\ ~selection'[t].alone
        BY <1>1, <1>5, <1>7, <2>1, <3>1, <3>2, <3>4 DEF ArmsInv
      <3>5. QED
        BY <1>4, <2>1, <2>2, <2>4, <3>1, <3>2, <3>3, <3>4 DEF ArmsInv
    <2>5. QED
      BY <2>3, <2>4
  <1>8. CASE /\ Move(s, f) /\ (UNCHANGED arms \/ MarkArm(s, a)) /\ disturbed' = TRUE
    <2>1. /\ DOMAIN selection' = Selections /\ selection'[s] = f
          /\ \A t \in Selections : t # s => selection'[t] = selection[t]
      BY <1>8 DEF Move, ArmsInv
    <2>2. ArmsAreWhole' /\ ArmsAreKept /\ DOMAIN arms' = DOMAIN arms
      BY <1>2, <1>3, <1>6, <1>8, OneArmIsMarked DEF ArmsInv
    <2>3. Marking' = Marking \ {s}
      BY <1>4, <2>1 DEF Marking
    <2>4. ASSUME NEW t \in Selections, t \in Marking'
          PROVE  ~selection'[t].alone
      BY <1>1, <1>2, <2>1, <2>3, <2>4 DEF ArmsInv
    <2>5. QED
      BY <1>4, <1>8, <2>1, <2>2, <2>3, <2>4 DEF ArmsInv
  <1>9. QED
    <2>1. \/ /\ MarkArm(s, a) /\ Move(s, k)
             /\ disturbed' = (disturbed /\ ~(rest = {} /\ l.alone))
          \/ Move(s, f) /\ (UNCHANGED arms \/ MarkArm(s, a)) /\ disturbed' = TRUE
      BY Zenon DEF MarkNext, Fails, MoveTo, k, f
    <2>2. QED
      BY <1>7, <1>8, <2>1

LEMMA TournamentStepKeeps ==
  ASSUME ArmsInv, TournamentNext
  PROVE  ArmsInv' /\ ArmsAreKept
  BY ArmIsRegistered, SelectionIsPrepared, ArmsAreListed, ArmIsMarked
     DEF TournamentNext

\* The others leave the tournament alone.
LEMMA OthersLeaveArms ==
  ASSUME [Next]_vars, ~TournamentNext
  PROVE  UNCHANGED tournamentVars
  BY DEF Next, vars, LiveNext, AdmitIssue, LaunchLiveRun, HarvestLiveRun, ExceptRow

LEMMA ArmsHold == Spec => []ArmsInv
  <1>1. Init => ArmsInv
    BY DEF Init, TournamentInit, ArmsInv, ArmsAreWhole, NoSelection, SelectionFields,
           Marking, Winners
  <1>2. ArmsInv /\ [Next]_vars => ArmsInv'
    BY TournamentStepKeeps, OthersLeaveArms, ArmsStutter
  <1>3. QED
    BY <1>1, <1>2, PTL DEF Spec

\* Unless selections overlapped, failed midway or found a winner registered,
\* one arm at most is the winner of a run whenever none is being selected:
\* however many arms and selections there are.
THEOREM OneWinnerRemains == Spec => []OneWinnerUnlessRaced
  <1>1. ASSUME ArmsInv, Marking = {}, ~disturbed  PROVE Cardinality(Winners) <= 1
    <2>1. CASE Winners = {}
      BY <2>1, FS_EmptySet
    <2>2. CASE Winners # {}
      <3>1. PICK a \in Winners : TRUE
        BY <2>2
      <3>2. Winners = {a}
        BY <1>1, <3>1 DEF ArmsInv
      <3>3. QED
        BY <3>2, FS_Singleton
    <2>3. QED
      BY <2>1, <2>2
  <1>2. ArmsInv => OneWinnerUnlessRaced
    BY <1>1 DEF OneWinnerUnlessRaced
  <1>3. QED
    BY <1>2, ArmsHold, PTL

-----------------------------------------------------------------------------
(* The dispatches *)

WorkFields ==
  {"pc", "left", "row", "parent", "tree", "body", "files", "ok", "verdict"}

\* A dispatch that has a tree has one of the phases' outputs, and one that
\* hands it on has phases left.
WorkOK(w) ==
  /\ DOMAIN w = WorkFields
  /\ w.left \in Seq(PhaseNames)
  /\ w.pc \notin {"idle", "done", "failed"} => w.left # << >>
  /\ w.pc = "propagate" => w.ok /\ Len(w.left) # 1
  /\ w.parent \in Seq(PhaseNames)
  /\ w.ok => w.tree \in Seq(PhaseNames)
  /\ w.row.version \in Nat

\* A dispatch owns the envelope it has opened until its outputs are on record;
\* these are pending once the sandbox is torn down.  It drives the run while
\* the row is as it read it.
Owns(w) ==
  \/ w.pc \in {"supervise", "reconcile"}
  \/ w.pc \in {"teardown", "outputs"} /\ w.ok
Pends(w) == w.pc = "outputs" /\ w.ok
Drives(w) == Owns(w) /\ ~Pends(w) /\ w.row = run /\ run.phase = "in_progress"

WorkInv ==
  /\ run.version \in Nat /\ (run.phase = "none" => run.version = 1)
  /\ accepted \in Seq(PhaseNames)
  /\ DOMAIN work = Dispatches
  /\ \A d \in Dispatches : WorkOK(work[d]) /\ work[d].row.version <= run.version

\* A tree on record is of a phase that ended in clean_terminated, or the run
\* is quarantined.
IsEnded(t) ==
  \/ [of |-> t, at |-> "clean_terminated"] \in trees
  \/ run.phase = "quarantined" /\ [of |-> t, at |-> "quarantined"] \in trees

EnvelopesInv ==
  /\ IsSequence(envelopes)
  /\ \A e, f \in 1..Len(envelopes) : envelopes[e].name = envelopes[f].name => e = f
  /\ \A e \in 1..Len(envelopes) :
       envelopes[e].tree # NoTree => IsEnded(envelopes[e].tree)
  /\ \A d \in Dispatches : Owns(work[d]) => IsOnRecord(Head(work[d].left))
  /\ \A d \in Dispatches : Pends(work[d]) => IsEnded(work[d].tree)
  /\ \A c, d \in Dispatches :
       Owns(work[c]) /\ Owns(work[d]) /\ Head(work[c].left) = Head(work[d].left) => c = d

\* The tree of the last phase that ended well is that of envelope k, or will
\* be; no later envelope has or gets one, until the dispatch that drives the
\* run, whose envelope is later, ends well.
LatestAt(k) ==
  /\ k = 0 => accepted = ParentTree
  /\ k # 0 =>
       \/ envelopes[k].tree = accepted
       \/ \E d \in Dispatches : /\ Pends(work[d]) /\ work[d].tree = accepted
                                /\ Head(work[d].left) = envelopes[k].name
  /\ \A e \in 1..Len(envelopes) : e > k =>
       /\ envelopes[e].tree = NoTree
       /\ \A d \in Dispatches : Pends(work[d]) => Head(work[d].left) # envelopes[e].name
  /\ \A d \in Dispatches : Drives(work[d]) =>
       \E e \in 1..Len(envelopes) : e > k /\ envelopes[e].name = Head(work[d].left)

LatestInv ==
  run.phase # "quarantined" /\ mishaps = {} =>
    \E k \in 0..Len(envelopes) : LatestAt(k)

SequenceInv == WorkInv /\ EnvelopesInv /\ LatestInv

\* A tree that was attested stays attested, and a quarantined run stays so.
TreesAreKept ==
  /\ trees \subseteq trees'
  /\ run.phase = "quarantined" => run'.phase = "quarantined"

\* The row stays, gets its next version or is inserted.
RunMoves ==
  \/ UNCHANGED run
  \/ /\ run'.version \in Nat /\ run.version < run'.version
     /\ run.phase # "quarantined" /\ run'.phase # "none"
  \/ run.phase = "none" /\ run' = Created

LEMMA EndedStays ==
  ASSUME TreesAreKept, NEW t, IsEnded(t)
  PROVE  IsEnded(t)'
  BY DEF TreesAreKept, IsEnded

LEMMA RowsAreOld ==
  ASSUME WorkInv, RunMoves
  PROVE  /\ run'.version \in Nat /\ run.version <= run'.version
         /\ run'.phase = "none" => run'.version = 1
         /\ run.phase = "quarantined" => run'.phase = "quarantined"
  BY DEF WorkInv, RunMoves, Created

\* The row moves on, and nobody that drove the run before drives it then.
LEMMA DriversStay ==
  ASSUME WorkInv, RunMoves, NEW w, w.row.version <= run.version, w.row.version \in Nat,
         Drives(w)'
  PROVE  UNCHANGED run /\ Drives(w)
  <1>1. Owns(w) /\ ~Pends(w) /\ w.row = run' /\ run'.phase = "in_progress"
    BY DEF Drives
  <1>2. UNCHANGED run
    BY <1>1 DEF RunMoves, WorkInv, Created
  <1>3. QED
    BY <1>1, <1>2 DEF Drives

LEMMA OneWorks ==
  ASSUME WorkInv, NEW d \in Dispatches, NEW w, Set(d, w)
  PROVE  /\ DOMAIN work' = Dispatches /\ work'[d] = w
         /\ \A c \in Dispatches : c # d => work'[c] = work[c]
  BY DEF Set, WorkInv

LEMMA WorkIsKept ==
  ASSUME WorkInv, RunMoves, NEW d \in Dispatches, NEW w, Set(d, w), WorkOK(w),
         w.row.version <= run'.version, accepted' \in Seq(PhaseNames)
  PROVE  WorkInv'
  <1>1. /\ run'.version \in Nat /\ run.version <= run'.version
        /\ run'.phase = "none" => run'.version = 1
    BY RowsAreOld
  <1>2. \A c \in Dispatches : WorkOK(work[c])' /\ work'[c].row.version <= run'.version
    <2>1. SUFFICES ASSUME NEW c \in Dispatches
                   PROVE  WorkOK(work[c])' /\ work'[c].row.version <= run'.version
      OBVIOUS
    <2>2. CASE c = d
      BY <2>2, OneWorks DEF WorkOK
    <2>3. CASE c # d
      BY <1>1, <2>3, OneWorks DEF WorkInv, WorkOK
    <2>4. QED
      BY <2>2, <2>3
  <1>3. QED
    BY <1>1, <1>2, OneWorks DEF WorkInv

\* A step that opens no envelope and leaves the outputs as they are.
LEMMA QuietStep ==
  ASSUME SequenceInv, RunMoves, NEW d \in Dispatches, NEW w, Set(d, w), WorkOK(w),
         w.row.version <= run'.version, UNCHANGED <<envelopes, accepted, mishaps>>,
         trees \subseteq trees', ~Pends(work[d]), ~Pends(w),
         Owns(w) => Owns(work[d]) /\ w.left = work[d].left /\ w.row = work[d].row
  PROVE  SequenceInv' /\ TreesAreKept
  <1>1. WorkInv /\ EnvelopesInv /\ LatestInv
    BY DEF SequenceInv
  <1>2. TreesAreKept
    BY <1>1, RowsAreOld DEF TreesAreKept
  <1>3. /\ DOMAIN work' = Dispatches /\ work'[d] = w
        /\ \A c \in Dispatches : c # d => work'[c] = work[c]
    BY <1>1, OneWorks
  <1>4. WorkInv'
    BY <1>1, WorkIsKept DEF WorkInv
  <1>5. \A c \in Dispatches :
          /\ Owns(work'[c]) => Owns(work[c]) /\ work'[c].left = work[c].left
          /\ Pends(work'[c]) <=> Pends(work[c])
          /\ Pends(work[c]) => work'[c] = work[c]
    BY <1>3
  <1>6. EnvelopesInv'
    <2>1. \A e \in 1..Len(envelopes) :
            envelopes[e].tree # NoTree => IsEnded(envelopes[e].tree)'
      BY <1>1, <1>2, EndedStays DEF EnvelopesInv
    <2>2. \A c \in Dispatches : Pends(work[c])' => IsEnded(work[c].tree)'
      <3>1. SUFFICES ASSUME NEW c \in Dispatches, Pends(work'[c])
                     PROVE  IsEnded(work[c].tree)'
        BY DEF Pends
      <3>2. work'[c] = work[c] /\ IsEnded(work[c].tree)
        BY <1>1, <1>5, <3>1 DEF EnvelopesInv
      <3>3. QED
        BY <1>2, <3>2, EndedStays
    <2>3. \A c \in Dispatches : Owns(work[c])' => IsOnRecord(Head(work[c].left))'
      BY <1>1, <1>5 DEF EnvelopesInv, Owns, IsOnRecord
    <2>4. \A b, c \in Dispatches :
            Owns(work[b])' /\ Owns(work[c])' /\ Head(work'[b].left) = Head(work'[c].left)
              => b = c
      BY <1>1, <1>5 DEF EnvelopesInv, Owns
    <2>5. QED
      BY <1>1, <2>1, <2>2, <2>3, <2>4 DEF EnvelopesInv
  <1>7. ASSUME NEW c \in Dispatches, Drives(work[c])'
        PROVE  Drives(work[c]) /\ work'[c].left = work[c].left
    <2>1. work[c].row.version <= run.version /\ work[c].row.version \in Nat
      BY <1>1 DEF WorkInv, WorkOK
    <2>2. work'[c].row = work[c].row /\ Owns(work[c]) /\ work'[c].left = work[c].left
      BY <1>3, <1>7 DEF Drives
    <2>3. PICK v : v = work'[c]
      OBVIOUS
    <2>4. v.row.version <= run.version /\ v.row.version \in Nat
      BY <2>1, <2>2, <2>3
    <2>5. Drives(v)'
      BY <1>7, <2>3 DEF Drives, Owns, Pends
    <2>6. UNCHANGED run /\ Drives(v)
      BY <1>1, <2>4, <2>5, DriversStay
    <2>7. QED
      BY <1>5, <2>2, <2>3, <2>6 DEF Drives
  <1>8. LatestInv'
    <2>1. SUFFICES ASSUME run'.phase # "quarantined", mishaps' = {}
                   PROVE  \E k \in 0..Len(envelopes) : LatestAt(k)'
      BY DEF LatestInv
    <2>2. PICK k \in 0..Len(envelopes) : LatestAt(k)
      BY <1>1, <2>1, RowsAreOld DEF LatestInv
    <2>3. k # 0 =>
            \/ envelopes[k].tree = accepted
            \/ \E c \in Dispatches : /\ Pends(work[c])' /\ work'[c].tree = accepted
                                     /\ Head(work'[c].left) = envelopes[k].name
      BY <1>5, <2>2 DEF LatestAt, Pends
    <2>4. \A e \in 1..Len(envelopes) : e > k =>
            /\ envelopes[e].tree = NoTree
            /\ \A c \in Dispatches :
                 Pends(work[c])' => Head(work'[c].left) # envelopes[e].name
      BY <1>5, <2>2 DEF LatestAt, Pends
    <2>5. \A c \in Dispatches : Drives(work[c])' =>
            \E e \in 1..Len(envelopes) :
              e > k /\ envelopes[e].name = Head(work'[c].left)
      BY <1>7, <2>2 DEF LatestAt
    <2>6. LatestAt(k)'
      BY <2>2, <2>3, <2>4, <2>5 DEF LatestAt
    <2>7. QED
      BY <2>6
  <1>9. QED
    BY <1>2, <1>4, <1>6, <1>8 DEF SequenceInv

\* A step of one of the others, or an insert of the row.
LEMMA RowStep ==
  ASSUME SequenceInv, RunMoves, UNCHANGED <<work, envelopes, trees, accepted, mishaps>>
  PROVE  SequenceInv' /\ TreesAreKept
  <1>1. WorkInv /\ EnvelopesInv /\ LatestInv
    BY DEF SequenceInv
  <1>2. TreesAreKept
    BY <1>1, RowsAreOld DEF TreesAreKept
  <1>3. WorkInv'
    BY <1>1, RowsAreOld DEF WorkInv, WorkOK
  <1>4. EnvelopesInv'
    <2>1. \A t : IsEnded(t) => IsEnded(t)'
      BY <1>2, EndedStays
    <2>2. QED
      BY <1>1, <2>1 DEF EnvelopesInv, Owns, Pends, IsOnRecord
  <1>5. \A d \in Dispatches : Drives(work[d])' => Drives(work[d])
    BY <1>1, DriversStay DEF WorkInv, WorkOK, Drives, Owns, Pends
  <1>6. LatestInv'
    <2>1. SUFFICES ASSUME run'.phase # "quarantined", mishaps = {}
                   PROVE  \E k \in 0..Len(envelopes) : LatestAt(k)'
      BY DEF LatestInv
    <2>2. PICK k \in 0..Len(envelopes) : LatestAt(k)
      BY <1>1, <2>1, RowsAreOld DEF LatestInv
    <2>3. LatestAt(k)'
      BY <1>5, <2>2 DEF LatestAt, Pends
    <2>4. QED
      BY <2>3
  <1>7. QED
    BY <1>2, <1>3, <1>4, <1>6 DEF SequenceInv

LEMMA RowGetsVersion ==
  ASSUME WorkInv, NEW phase, phase # "none", run.phase # "quarantined", run' = To(phase)
  PROVE  RunMoves /\ run'.phase = phase /\ run'.version = run.version + 1
  BY DEF WorkInv, RunMoves, To

LEMMA WorkFieldsStay ==
  ASSUME NEW w, DOMAIN w = WorkFields, NEW pc, NEW row
  PROVE  LET m == [w EXCEPT !.pc = pc]
             n == [w EXCEPT !.pc = pc, !.row = row] IN
         /\ DOMAIN m = WorkFields /\ m.pc = pc /\ m.left = w.left /\ m.row = w.row
         /\ m.parent = w.parent /\ m.tree = w.tree /\ m.ok = w.ok
         /\ DOMAIN n = WorkFields /\ n.pc = pc /\ n.left = w.left /\ n.row = row
         /\ n.parent = w.parent /\ n.tree = w.tree /\ n.ok = w.ok
  BY DEF WorkFields

\* The catch block of executeRun.
LEMMA CatchIsQuiet ==
  ASSUME SequenceInv, NEW d \in Dispatches, Catch(d), RunMoves,
         work[d].pc \notin {"idle", "done", "failed", "outputs"},
         UNCHANGED <<envelopes, accepted, mishaps>>, trees \subseteq trees'
  PROVE  SequenceInv' /\ TreesAreKept
  <1> DEFINE pc == IF work[d].row.phase = "created" THEN "failed" ELSE "teardown"
             w == [work[d] EXCEPT !.ok = FALSE, !.pc = pc]
  <1>1. WorkInv /\ WorkOK(work[d]) /\ work[d].row.version <= run.version
    BY DEF SequenceInv, WorkInv
  <1>2. Set(d, w)
    BY DEF Catch
  <1>3. pc \in {"failed", "teardown"}
    OBVIOUS
  <1>4. /\ DOMAIN w = WorkFields /\ w.pc = pc /\ w.left = work[d].left
        /\ w.row = work[d].row /\ w.parent = work[d].parent /\ ~w.ok
    BY <1>1 DEF WorkOK, WorkFields
  <1> HIDE DEF w, pc
  <1>5. WorkOK(w)
    BY <1>1, <1>3, <1>4 DEF WorkOK
  <1>6. w.row.version <= run'.version
    <2>1. run'.version \in Nat /\ run.version <= run'.version /\ run.version \in Nat
      BY <1>1, RowsAreOld DEF WorkInv
    <2>2. QED
      BY <1>1, <1>4, <2>1 DEF WorkOK
  <1>7. ~Owns(w) /\ ~Pends(w) /\ ~Pends(work[d])
    BY <1>3, <1>4 DEF Owns, Pends
  <1>8. QED
    BY <1>2, <1>5, <1>6, <1>7, QuietStep

\* A step on the program counter alone.
LEMMA GotoIsQuiet ==
  ASSUME SequenceInv, NEW d \in Dispatches, Goto(d, "failed"), RunMoves,
         work[d].pc # "outputs",
         UNCHANGED <<envelopes, accepted, mishaps>>, trees \subseteq trees'
  PROVE  SequenceInv' /\ TreesAreKept
  <1> DEFINE w == [work[d] EXCEPT !.pc = "failed"]
  <1>1. WorkInv /\ WorkOK(work[d]) /\ work[d].row.version <= run.version
    BY DEF SequenceInv, WorkInv
  <1>2. Set(d, w)
    BY DEF Goto
  <1>3. /\ DOMAIN w = WorkFields /\ w.pc = "failed" /\ w.left = work[d].left
        /\ w.row = work[d].row /\ w.parent = work[d].parent
        /\ w.ok = work[d].ok /\ w.tree = work[d].tree
    BY <1>1, WorkFieldsStay DEF WorkOK
  <1> HIDE DEF w
  <1>4. WorkOK(w)
    BY <1>1, <1>3 DEF WorkOK
  <1>5. w.row.version <= run'.version
    <2>1. run'.version \in Nat /\ run.version <= run'.version /\ run.version \in Nat
      BY <1>1, RowsAreOld DEF WorkInv
    <2>2. QED
      BY <1>1, <1>3, <2>1 DEF WorkOK
  <1>6. ~Owns(w) /\ ~Pends(w) /\ ~Pends(work[d])
    BY <1>3 DEF Owns, Pends
  <1>7. QED
    BY <1>2, <1>4, <1>5, <1>6, QuietStep

LEMMA DispatchIsQuiet ==
  ASSUME SequenceInv, NEW d \in Dispatches, NEW plan \in PlansOf[d], NEW body,
         Dispatch(d, plan, body)
  PROVE  SequenceInv' /\ TreesAreKept
  <1> DEFINE w == [NoWork EXCEPT !.pc = "provision", !.left = plan, !.row = run,
                                 !.body = body]
  <1>1. WorkInv /\ UNCHANGED <<run, envelopes, trees, accepted, mishaps>>
    BY DEF Dispatch, deliveryVars, UnchangedAux, SequenceInv
  <1>2. Set(d, w) /\ work[d].pc = "idle"
    BY DEF Dispatch
  <1>3. plan \in Seq(PhaseNames) /\ plan # << >>
    BY PlansAssumption
  <1>4. /\ DOMAIN w = WorkFields /\ w.pc = "provision" /\ w.left = plan
        /\ w.row = run /\ w.parent = << >> /\ ~w.ok
    BY DEF NoWork, WorkFields, ParentTree
  <1> HIDE DEF w
  <1>5. WorkOK(w) /\ w.row.version <= run'.version
    BY <1>1, <1>3, <1>4 DEF WorkOK, WorkInv
  <1>6. ~Owns(w) /\ ~Pends(w) /\ ~Pends(work[d])
    BY <1>2, <1>4 DEF Owns, Pends
  <1>7. QED
    BY <1>1, <1>2, <1>5, <1>6, QuietStep DEF RunMoves

LEMMA ProvisionIsQuiet ==
  ASSUME SequenceInv, NEW d \in Dispatches, Provision(d)
  PROVE  SequenceInv' /\ TreesAreKept
  <1>1. /\ WorkInv /\ WorkOK(work[d]) /\ work[d].pc = "provision"
        /\ UNCHANGED <<envelopes, trees, accepted, mishaps>>
    BY DEF Provision, UnchangedAux, SequenceInv, WorkInv
  <1>2. CASE Abandon(d)
    <2>1. RunMoves
      BY <1>1, <1>2, RowGetsVersion DEF Abandon, Holds, RunMoves
    <2>2. QED
      BY <1>1, <1>2, <2>1, CatchIsQuiet DEF Abandon
  <1>3. CASE ~Abandon(d)
    <2> DEFINE w == [work[d] EXCEPT !.pc = "envelope", !.row = run', !.verdict = "none"]
    <2>1. run' = To("in_progress") /\ Set(d, w)
          /\ Holds(d, {"created", "clean_terminated"})
      BY <1>3, Zenon DEF Provision
    <2>2. RunMoves /\ run'.version = run.version + 1
      BY <1>1, <2>1, RowGetsVersion DEF Holds
    <2>3. /\ DOMAIN w = WorkFields /\ w.pc = "envelope" /\ w.left = work[d].left
          /\ w.row = run' /\ w.parent = work[d].parent
          /\ w.ok = work[d].ok /\ w.tree = work[d].tree
      BY <1>1 DEF WorkOK, WorkFields
    <2> HIDE DEF w
    <2>4. run'.version \in Nat /\ w.row.version <= run'.version
      BY <1>1, <2>2, <2>3 DEF WorkInv
    <2>5. WorkOK(w)
      BY <1>1, <2>3, <2>4 DEF WorkOK
    <2>6. ~Owns(w) /\ ~Pends(w) /\ ~Pends(work[d])
      BY <1>1, <2>3 DEF Owns, Pends
    <2>7. QED
      BY <1>1, <2>1, <2>2, <2>4, <2>5, <2>6, QuietStep
  <1>4. QED
    BY <1>2, <1>3

LEMMA SuperviseIsQuiet ==
  ASSUME SequenceInv, NEW d \in Dispatches, Supervise(d)
  PROVE  SequenceInv' /\ TreesAreKept
  <1>1. /\ WorkInv /\ WorkOK(work[d]) /\ work[d].pc = "supervise"
        /\ work[d].row.version <= run.version
        /\ UNCHANGED <<run, envelopes, trees, accepted, mishaps>>
    BY DEF Supervise, deliveryVars, UnchangedAux, SequenceInv, WorkInv
  <1>2. CASE Catch(d)
    BY <1>1, <1>2, CatchIsQuiet DEF RunMoves
  <1>3. CASE ~Catch(d)
    <2>1. PICK files : Set(d, [work[d] EXCEPT !.pc = "reconcile", !.files = files])
      BY <1>3 DEF Supervise
    <2> DEFINE w == [work[d] EXCEPT !.pc = "reconcile", !.files = files]
    <2>2. /\ DOMAIN w = WorkFields /\ w.pc = "reconcile" /\ w.left = work[d].left
          /\ w.row = work[d].row /\ w.parent = work[d].parent
          /\ w.ok = work[d].ok /\ w.tree = work[d].tree
      BY <1>1 DEF WorkOK, WorkFields
    <2>3. Set(d, w)
      BY <2>1
    <2> HIDE DEF w
    <2>4. WorkOK(w) /\ w.row.version <= run'.version
      BY <1>1, <2>2 DEF WorkOK
    <2>5. ~Pends(w) /\ ~Pends(work[d]) /\ Owns(work[d])
      BY <1>1, <2>2 DEF Owns, Pends
    <2>6. QED
      BY <1>1, <2>2, <2>3, <2>4, <2>5, QuietStep DEF RunMoves
  <1>4. QED
    BY <1>2, <1>3

LEMMA OutputsAreTrees ==
  ASSUME NEW w, WorkOK(w), w.left # << >>, NEW files
  PROVE  OutputTree(w.parent, Head(w.left), files) \in Seq(PhaseNames)
  <1>1. w.parent \in Seq(PhaseNames) /\ Head(w.left) \in PhaseNames
    BY DEF WorkOK
  <1>2. Append(w.parent, Head(w.left)) \in Seq(PhaseNames)
    BY <1>1, AppendProperties
  <1>3. QED
    BY <1>1, <1>2 DEF OutputTree

LEMMA ReconcileIsQuiet ==
  ASSUME SequenceInv, NEW d \in Dispatches, Reconcile(d)
  PROVE  SequenceInv' /\ TreesAreKept
  <1>1. /\ WorkInv /\ WorkOK(work[d]) /\ work[d].pc = "reconcile"
        /\ work[d].row.version <= run.version
        /\ UNCHANGED <<run, envelopes, trees, accepted, mishaps>>
    BY DEF Reconcile, deliveryVars, UnchangedAux, SequenceInv, WorkInv
  <1>2. PICK tree : tree = OutputTree(work[d].parent, Phase1(d), work[d].files)
    OBVIOUS
  <1>3. tree \in Seq(PhaseNames)
    BY <1>1, <1>2, OutputsAreTrees DEF WorkOK, Phase1
  <1> DEFINE w == [work[d] EXCEPT !.pc = "teardown", !.ok = TRUE, !.verdict = "passed",
                                  !.tree = tree]
             v == [work[d] EXCEPT !.pc = "teardown", !.ok = FALSE, !.verdict = "refused"]
  <1>4. Set(d, w) \/ Set(d, v)
    BY <1>2 DEF Reconcile
  <1>5. /\ DOMAIN w = WorkFields /\ w.pc = "teardown" /\ w.left = work[d].left
        /\ w.row = work[d].row /\ w.parent = work[d].parent /\ w.ok /\ w.tree = tree
        /\ DOMAIN v = WorkFields /\ v.pc = "teardown" /\ v.left = work[d].left
        /\ v.row = work[d].row /\ v.parent = work[d].parent /\ ~v.ok
    BY <1>1 DEF WorkOK, WorkFields
  <1> HIDE DEF w, v
  <1>6. /\ WorkOK(w) /\ w.row.version <= run'.version
        /\ WorkOK(v) /\ v.row.version <= run'.version
    BY <1>1, <1>3, <1>5 DEF WorkOK
  <1>7. ~Pends(w) /\ ~Pends(v) /\ ~Pends(work[d]) /\ Owns(work[d])
    BY <1>1, <1>5 DEF Owns, Pends
  <1>8. QED
    BY <1>1, <1>4, <1>5, <1>6, <1>7, QuietStep DEF RunMoves

LEMMA PropagateIsQuiet ==
  ASSUME SequenceInv, NEW d \in Dispatches, Propagate(d)
  PROVE  SequenceInv' /\ TreesAreKept
  <1>1. /\ WorkInv /\ WorkOK(work[d]) /\ work[d].pc = "propagate"
        /\ UNCHANGED <<run, envelopes, trees, accepted, mishaps>>
    BY DEF Propagate, deliveryVars, UnchangedAux, SequenceInv, WorkInv
  <1>2. CASE Goto(d, "failed")
    BY <1>1, <1>2, GotoIsQuiet DEF RunMoves
  <1>3. CASE ~Goto(d, "failed")
    <2> DEFINE w == [work[d] EXCEPT !.pc = "provision", !.left = Tail(@),
                       !.parent = work[d].tree, !.row = run, !.files = {}]
    <2>1. Set(d, w)
      BY <1>3, Zenon DEF Propagate
    <2>2. /\ DOMAIN w = WorkFields /\ w.pc = "provision" /\ w.left = Tail(work[d].left)
          /\ w.row = run /\ w.parent = work[d].tree
          /\ w.ok = work[d].ok /\ w.tree = work[d].tree
      BY <1>1 DEF WorkOK, WorkFields
    <2> HIDE DEF w
    <2>3. w.left \in Seq(PhaseNames) /\ w.left # << >>
      <3>1. /\ work[d].left \in Seq(PhaseNames) /\ work[d].left # << >>
            /\ Len(work[d].left) # 1
        BY <1>1 DEF WorkOK
      <3>2. /\ Tail(work[d].left) \in Seq(PhaseNames)
            /\ Len(Tail(work[d].left)) = Len(work[d].left) - 1
        BY <3>1, HeadTailProperties
      <3>3. Len(work[d].left) \in Nat /\ Len(work[d].left) # 0
        BY <3>1, EmptySeq, LenProperties
      <3>4. Len(Tail(work[d].left)) # 0
        BY <3>1, <3>2, <3>3
      <3>5. QED
        BY <2>2, <3>2, <3>4, EmptySeq
    <2>4. WorkOK(w) /\ w.row.version <= run'.version
      BY <1>1, <2>2, <2>3 DEF WorkOK, WorkInv
    <2>5. ~Owns(w) /\ ~Pends(w) /\ ~Pends(work[d])
      BY <1>1, <2>2 DEF Owns, Pends
    <2>6. QED
      BY <1>1, <2>1, <2>4, <2>5, QuietStep DEF RunMoves
  <1>4. QED
    BY <1>2, <1>3

\* A phase that passed its gate is torn down: its tree is on its way.
LEMMA TeardownEndsWell ==
  ASSUME SequenceInv, NEW d \in Dispatches, Holds(d, {"in_progress"}),
         work[d].pc = "teardown", work[d].ok,
         NEW phase \in {"clean_terminated", "quarantined"}, run' = To(phase),
         NEW w, Set(d, w), WorkOK(w), w.row.version <= run'.version,
         w.pc = "outputs", w.ok, w.left = work[d].left, w.tree = work[d].tree,
         trees' = trees \cup {[of |-> work[d].tree, at |-> phase]},
         accepted' = IF phase = "clean_terminated" THEN work[d].tree ELSE accepted,
         UNCHANGED <<envelopes, mishaps>>
  PROVE  SequenceInv' /\ TreesAreKept
  <1>1. WorkInv /\ EnvelopesInv /\ LatestInv /\ WorkOK(work[d])
    BY DEF SequenceInv, WorkInv
  <1>2. RunMoves /\ run'.phase = phase
    BY <1>1, RowGetsVersion DEF Holds
  <1>3. TreesAreKept
    BY <1>1, <1>2, RowsAreOld DEF TreesAreKept
  <1>4. /\ DOMAIN work' = Dispatches /\ work'[d] = w
        /\ \A c \in Dispatches : c # d => work'[c] = work[c]
    BY <1>1, OneWorks
  <1>5. WorkInv'
    <2>1. accepted' \in Seq(PhaseNames)
      BY <1>1 DEF WorkInv, WorkOK
    <2>2. QED
      BY <1>1, <1>2, <2>1, WorkIsKept
  <1>6. /\ Owns(w) /\ Pends(w) /\ Owns(work[d]) /\ ~Pends(work[d])
        /\ Drives(work[d])
    BY DEF Owns, Pends, Drives, Holds
  <1>7. \A c \in Dispatches :
          /\ Owns(work'[c]) <=> Owns(work[c])
          /\ work'[c].left = work[c].left /\ work'[c].tree = work[c].tree
          /\ Pends(work'[c]) <=> Pends(work[c]) \/ c = d
    BY <1>4, <1>6
  <1>8. EnvelopesInv'
    <2>1. \A e \in 1..Len(envelopes) :
            envelopes[e].tree # NoTree => IsEnded(envelopes[e].tree)'
      BY <1>1, <1>3, EndedStays DEF EnvelopesInv
    <2>2. \A c \in Dispatches : Pends(work[c])' => IsEnded(work[c].tree)'
      <3>1. SUFFICES ASSUME NEW c \in Dispatches, Pends(work'[c])
                     PROVE  IsEnded(work[c].tree)'
        BY DEF Pends
      <3>2. CASE c = d
        BY <1>2, <1>4, <3>2 DEF IsEnded
      <3>3. CASE c # d
        <4>1. work'[c] = work[c] /\ IsEnded(work[c].tree)
          BY <1>1, <1>4, <3>1, <3>3 DEF EnvelopesInv
        <4>2. IsEnded(work[c].tree)'
          <5>1. PICK t : t = work[c].tree
            OBVIOUS
          <5>2. IsEnded(t)'
            BY <1>3, <4>1, <5>1, EndedStays
          <5>3. QED
            BY <4>1, <5>1, <5>2 DEF IsEnded
        <4>3. QED
          BY <4>2
      <3>4. QED
        BY <3>2, <3>3
    <2>3. \A c \in Dispatches : Owns(work[c])' => IsOnRecord(Head(work[c].left))'
      BY <1>1, <1>7 DEF EnvelopesInv, Owns, IsOnRecord
    <2>4. \A b, c \in Dispatches :
            Owns(work[b])' /\ Owns(work[c])' /\ Head(work'[b].left) = Head(work'[c].left)
              => b = c
      BY <1>1, <1>7 DEF EnvelopesInv, Owns
    <2>5. QED
      BY <1>1, <2>1, <2>2, <2>3, <2>4 DEF EnvelopesInv
  <1>9. LatestInv'
    <2>1. SUFFICES ASSUME run'.phase # "quarantined", mishaps = {}
                   PROVE  \E k \in 0..Len(envelopes) : LatestAt(k)'
      BY DEF LatestInv
    <2>2. PICK k \in 0..Len(envelopes) : LatestAt(k)
      BY <1>1, <2>1, <1>2, RowsAreOld DEF LatestInv
    <2>3. PICK e \in 1..Len(envelopes) :
            e > k /\ envelopes[e].name = Head(work[d].left)
      BY <1>6, <2>2 DEF LatestAt
    <2>4. phase = "clean_terminated" /\ accepted' = work[d].tree
      BY <1>2, <2>1
    <2>5. Len(envelopes) \in Nat
      BY <1>1, SequenceLength DEF EnvelopesInv
    <2>6. \E c \in Dispatches : /\ Pends(work[c])' /\ work'[c].tree = accepted'
                                /\ Head(work'[c].left) = envelopes[e].name
      BY <1>4, <1>6, <2>3, <2>4 DEF Pends
    <2>7. \A f \in 1..Len(envelopes) : f > e =>
            /\ envelopes[f].tree = NoTree
            /\ \A c \in Dispatches :
                 Pends(work[c])' => Head(work'[c].left) # envelopes[f].name
      <3>1. SUFFICES ASSUME NEW f \in 1..Len(envelopes), f > e
                     PROVE  /\ envelopes[f].tree = NoTree
                            /\ \A c \in Dispatches :
                                 Pends(work'[c]) => Head(work'[c].left) # envelopes[f].name
        BY DEF Pends
      <3>2. f > k /\ f # e
        BY <2>3, <2>5, <3>1
      <3>3. /\ envelopes[f].tree = NoTree
            /\ \A c \in Dispatches : Pends(work[c]) => Head(work[c].left) # envelopes[f].name
        BY <2>2, <3>2 DEF LatestAt
      <3>4. Head(work[d].left) # envelopes[f].name
        BY <1>1, <2>3, <3>2 DEF EnvelopesInv
      <3>5. QED
        BY <1>7, <3>3, <3>4
    <2>8. \A c \in Dispatches : ~Drives(work[c])'
      BY <1>2, <2>4 DEF Drives
    <2>9. LatestAt(e)'
      BY <2>6, <2>7, <2>8 DEF LatestAt
    <2>10. QED
      BY <2>9
  <1>10. QED
    BY <1>3, <1>5, <1>8, <1>9 DEF SequenceInv

LEMMA TeardownKeeps ==
  ASSUME SequenceInv, NEW d \in Dispatches, Teardown(d)
  PROVE  SequenceInv' /\ TreesAreKept
  <1>1. /\ WorkInv /\ WorkOK(work[d]) /\ work[d].pc = "teardown"
        /\ work[d].row.version <= run.version
        /\ UNCHANGED <<envelopes, mishaps>>
    BY DEF Teardown, ExceptRun, SequenceInv, WorkInv
  <1> DEFINE w == [work[d] EXCEPT !.pc = "outputs", !.row = run']
             Endings == {To("clean_terminated"), To("quarantined")}
  <1>2. CASE /\ Catch(d) \/ Goto(d, "failed")
             /\ UNCHANGED run \/ (Holds(d, {"in_progress"}) /\ run' \in Endings)
             /\ UNCHANGED <<trees, accepted>>
    <2>1. RunMoves
      BY <1>1, <1>2, RowGetsVersion DEF Holds, RunMoves
    <2>2. QED
      BY <1>1, <1>2, <2>1, CatchIsQuiet, GotoIsQuiet
  <1>3. CASE /\ Holds(d, {"in_progress"}) /\ run' \in Endings /\ Set(d, w)
             /\ trees' = IF work[d].ok
                         THEN trees \cup {[of |-> work[d].tree, at |-> run'.phase]}
                         ELSE trees
             /\ accepted' = IF work[d].ok /\ run'.phase = "clean_terminated"
                            THEN work[d].tree ELSE accepted
    <2>1. PICK phase \in {"clean_terminated", "quarantined"} : run' = To(phase)
      BY <1>3
    <2>2. RunMoves /\ run'.phase = phase /\ run'.version = run.version + 1
      BY <1>1, <1>3, <2>1, RowGetsVersion DEF Holds
    <2>3. /\ DOMAIN w = WorkFields /\ w.pc = "outputs" /\ w.left = work[d].left
          /\ w.row = run' /\ w.parent = work[d].parent
          /\ w.tree = work[d].tree /\ w.ok = work[d].ok
      BY <1>1 DEF WorkOK, WorkFields
    <2> HIDE DEF w
    <2>4. run'.version \in Nat /\ w.row.version <= run'.version
      BY <1>1, <2>2, <2>3 DEF WorkInv
    <2>5. WorkOK(w)
      BY <1>1, <2>3, <2>4 DEF WorkOK
    <2>6. CASE work[d].ok
      BY <1>1, <1>3, <2>1, <2>2, <2>3, <2>4, <2>5, <2>6, TeardownEndsWell
    <2>7. CASE ~work[d].ok
      <3>1. ~Owns(w) /\ ~Pends(w) /\ ~Pends(work[d])
        BY <2>3, <2>7 DEF Owns, Pends
      <3>2. UNCHANGED <<trees, accepted>>
        BY <1>3, <2>7
      <3>3. QED
        BY <1>1, <1>3, <2>2, <2>4, <2>5, <3>1, <3>2, QuietStep
    <2>8. QED
      BY <2>6, <2>7
  <1>4. QED
    <2>1. \/ /\ Catch(d) \/ Goto(d, "failed")
             /\ UNCHANGED run \/ (Holds(d, {"in_progress"}) /\ run' \in Endings)
             /\ UNCHANGED <<trees, accepted>>
          \/ /\ Holds(d, {"in_progress"}) /\ run' \in Endings /\ Set(d, w)
             /\ trees' = IF work[d].ok
                         THEN trees \cup {[of |-> work[d].tree, at |-> run'.phase]}
                         ELSE trees
             /\ accepted' = IF work[d].ok /\ run'.phase = "clean_terminated"
                            THEN work[d].tree ELSE accepted
      BY Zenon DEF Teardown
    <2>2. QED
      BY <1>2, <1>3, <2>1

\* A new envelope is the last, and its name is new.
LEMMA EnvelopeOpens ==
  ASSUME SequenceInv, NEW d \in Dispatches, NEW name, name = Head(work[d].left),
         ~IsOnRecord(name), Open(name), NEW w, Set(d, w), WorkOK(w),
         w.row = work[d].row, w.left = work[d].left, ~Pends(w), ~Owns(work[d]),
         UNCHANGED <<run, trees, accepted, mishaps>>
  PROVE  SequenceInv' /\ TreesAreKept
  <1>1. WorkInv /\ EnvelopesInv /\ LatestInv /\ WorkOK(work[d])
        /\ work[d].row.version <= run.version
    BY DEF SequenceInv, WorkInv
  <1>2. TreesAreKept
    BY DEF TreesAreKept
  <1>3. /\ DOMAIN work' = Dispatches /\ work'[d] = w
        /\ \A c \in Dispatches : c # d => work'[c] = work[c]
    BY <1>1, OneWorks
  <1>4. WorkInv'
    BY <1>1, WorkIsKept DEF WorkInv, RunMoves
  <1>5. PICK new : new = [name |-> name, status |-> "open", tree |-> NoTree]
    OBVIOUS
  <1>6. /\ IsSequence(envelopes') /\ Len(envelopes') = Len(envelopes) + 1
        /\ envelopes'[Len(envelopes')] = new
        /\ \A e \in 1..Len(envelopes) : envelopes'[e] = envelopes[e]
    BY <1>1, <1>5, AppendKeeps DEF EnvelopesInv, Open
  <1>7. /\ Len(envelopes) \in Nat /\ Len(envelopes') \in Nat
        /\ \A e \in 1..Len(envelopes') : e \in 1..Len(envelopes) \/ e = Len(envelopes')
        /\ Len(envelopes') \notin 1..Len(envelopes) /\ Len(envelopes') \in 1..Len(envelopes')
        /\ 1..Len(envelopes) \subseteq 1..Len(envelopes')
    BY <1>1, <1>6, SequenceLength DEF EnvelopesInv
  <1>8. \A e \in 1..Len(envelopes) : envelopes[e].name # name
    BY DEF IsOnRecord
  <1>9. \A c \in Dispatches :
          c # d /\ Owns(work[c]) => Head(work[c].left) # name
    BY <1>1, <1>8 DEF EnvelopesInv, IsOnRecord
  <1>10. \A c \in Dispatches : Pends(work'[c]) => c # d /\ work'[c] = work[c]
    BY <1>3
  <1>11. \A c \in Dispatches : Pends(work[c]) => c # d /\ work'[c] = work[c] /\ Owns(work[c])
    BY <1>3 DEF Owns, Pends
  <1>12. EnvelopesInv'
    <2>1. \A e, f \in 1..Len(envelopes') :
            envelopes'[e].name = envelopes'[f].name => e = f
      BY <1>1, <1>5, <1>6, <1>7, <1>8 DEF EnvelopesInv
    <2>2. \A e \in 1..Len(envelopes') :
            envelopes'[e].tree # NoTree => IsEnded(envelopes[e].tree)'
      <3>1. SUFFICES ASSUME NEW e \in 1..Len(envelopes'), envelopes'[e].tree # NoTree
                     PROVE  \/ [of |-> envelopes'[e].tree, at |-> "clean_terminated"] \in trees
                            \/ /\ run.phase = "quarantined"
                               /\ [of |-> envelopes'[e].tree, at |-> "quarantined"] \in trees
        BY DEF IsEnded
      <3>2. envelopes'[e] = envelopes[e] /\ e \in 1..Len(envelopes)
        BY <1>5, <1>6, <1>7, <3>1
      <3>3. QED
        BY <1>1, <3>1, <3>2 DEF EnvelopesInv, IsEnded
    <2>3. \A c \in Dispatches : Pends(work[c])' => IsEnded(work[c].tree)'
      BY <1>1, <1>10 DEF EnvelopesInv, Pends, IsEnded
    <2>4. \A c \in Dispatches : Owns(work[c])' => IsOnRecord(Head(work[c].left))'
      <3>1. SUFFICES ASSUME NEW c \in Dispatches, Owns(work'[c])
                     PROVE  \E e \in 1..Len(envelopes') :
                              envelopes'[e].name = Head(work'[c].left)
        BY DEF Owns, IsOnRecord
      <3>2. CASE c = d
        BY <1>3, <1>5, <1>6, <1>7, <3>2
      <3>3. CASE c # d
        <4>1. work'[c] = work[c]
          BY <1>3, <3>3
        <4>2. PICK e \in 1..Len(envelopes) : envelopes[e].name = Head(work[c].left)
          BY <1>1, <3>1, <4>1 DEF EnvelopesInv, IsOnRecord
        <4>3. QED
          BY <1>6, <1>7, <4>1, <4>2
      <3>4. QED
        BY <3>2, <3>3
    <2>5. \A b, c \in Dispatches :
            Owns(work[b])' /\ Owns(work[c])' /\ Head(work'[b].left) = Head(work'[c].left)
              => b = c
      BY <1>1, <1>3, <1>9 DEF EnvelopesInv, Owns
    <2>6. QED
      BY <1>6, <2>1, <2>2, <2>3, <2>4, <2>5 DEF EnvelopesInv
  <1>13. LatestInv'
    <2>1. SUFFICES ASSUME run.phase # "quarantined", mishaps = {}
                   PROVE  \E k \in 0..Len(envelopes') : LatestAt(k)'
      BY DEF LatestInv
    <2>2. PICK k \in 0..Len(envelopes) : LatestAt(k)
      BY <1>1, <2>1 DEF LatestInv
    <2>3. k \in Nat /\ Len(envelopes') > k /\ (k # 0 => k \in 1..Len(envelopes))
          /\ k \in 0..Len(envelopes')
      BY <1>6, <1>7, <2>2
    <2>4. k # 0 =>
            \/ envelopes'[k].tree = accepted
            \/ \E c \in Dispatches : /\ Pends(work'[c]) /\ work'[c].tree = accepted
                                     /\ Head(work'[c].left) = envelopes'[k].name
      BY <1>6, <1>11, <2>2, <2>3 DEF LatestAt
    <2>5. \A e \in 1..Len(envelopes') : e > k =>
            /\ envelopes'[e].tree = NoTree
            /\ \A c \in Dispatches :
                 Pends(work'[c]) => Head(work'[c].left) # envelopes'[e].name
      <3>1. SUFFICES ASSUME NEW e \in 1..Len(envelopes'), e > k
                     PROVE  /\ envelopes'[e].tree = NoTree
                            /\ \A c \in Dispatches :
                                 Pends(work'[c]) => Head(work'[c].left) # envelopes'[e].name
        OBVIOUS
      <3>2. CASE e \in 1..Len(envelopes)
        BY <1>6, <1>10, <2>2, <3>1, <3>2 DEF LatestAt
      <3>3. CASE e = Len(envelopes')
        BY <1>5, <1>6, <1>9, <1>10, <1>11, <3>3
      <3>4. QED
        BY <1>7, <3>2, <3>3
    <2>6. \A c \in Dispatches : Drives(work[c])' =>
            \E e \in 1..Len(envelopes') : e > k /\ envelopes'[e].name = Head(work'[c].left)
      <3>1. SUFFICES ASSUME NEW c \in Dispatches, Drives(work[c])'
                     PROVE  \E e \in 1..Len(envelopes') :
                              e > k /\ envelopes'[e].name = Head(work'[c].left)
        OBVIOUS
      <3>2. CASE c = d
        BY <1>3, <1>5, <1>6, <1>7, <2>3, <3>2
      <3>3. CASE c # d
        <4>1. work'[c] = work[c] /\ Drives(work[c])
          BY <1>3, <3>1, <3>3 DEF Drives, Owns, Pends
        <4>2. PICK e \in 1..Len(envelopes) :
                e > k /\ envelopes[e].name = Head(work[c].left)
          BY <2>2, <4>1 DEF LatestAt
        <4>3. QED
          BY <1>6, <1>7, <4>1, <4>2
      <3>4. QED
        BY <3>2, <3>3
    <2>7. LatestAt(k)'
      <3>1. \A c : Pends(work[c])' <=> Pends(work'[c])
        BY DEF Pends
      <3>2. QED
        BY <2>2, <2>4, <2>5, <2>6, <3>1 DEF LatestAt
    <2>8. QED
      BY <2>3, <2>7
  <1>14. QED
    BY <1>2, <1>4, <1>12, <1>13 DEF SequenceInv

LEMMA RecordEnvelopeKeeps ==
  ASSUME SequenceInv, NEW d \in Dispatches, RecordEnvelope(d)
  PROVE  SequenceInv' /\ TreesAreKept
  <1>1. /\ WorkOK(work[d]) /\ work[d].pc = "envelope"
        /\ UNCHANGED <<run, trees, accepted, mishaps>>
    BY DEF RecordEnvelope, ExceptEnvelopes, UnchangedAux, SequenceInv, WorkInv
  <1> DEFINE pc == IF work[d].row.phase = "created" THEN "failed" ELSE "teardown"
             w == [work[d] EXCEPT !.ok = FALSE, !.pc = pc]
             v == [work[d] EXCEPT !.pc = "supervise"]
  <1>2. pc \in {"failed", "teardown"}
    OBVIOUS
  <1>3. /\ DOMAIN w = WorkFields /\ w.pc = pc /\ w.left = work[d].left
        /\ w.row = work[d].row /\ w.parent = work[d].parent /\ ~w.ok
    BY <1>1 DEF WorkOK, WorkFields
  <1>4. /\ DOMAIN v = WorkFields /\ v.pc = "supervise" /\ v.left = work[d].left
        /\ v.row = work[d].row /\ v.parent = work[d].parent
        /\ v.ok = work[d].ok /\ v.tree = work[d].tree
    BY <1>1, WorkFieldsStay DEF WorkOK
  <1>5. \/ Catch(d) /\ UNCHANGED envelopes
        \/ /\ ~IsOnRecord(Phase1(d)) /\ Open(Phase1(d))
           /\ Set(d, w) \/ Set(d, v)
    BY Zenon DEF RecordEnvelope, Catch, Goto
  <1> HIDE DEF w, v, pc
  <1>6. /\ WorkOK(w) /\ ~Pends(w)
        /\ WorkOK(v) /\ ~Pends(v) /\ ~Owns(work[d])
    BY <1>1, <1>2, <1>3, <1>4 DEF WorkOK, Pends, Owns
  <1>7. CASE Catch(d) /\ UNCHANGED envelopes
    BY <1>1, <1>7, CatchIsQuiet DEF RunMoves
  <1>8. CASE /\ ~IsOnRecord(Phase1(d)) /\ Open(Phase1(d))
             /\ Set(d, w) \/ Set(d, v)
    BY <1>1, <1>3, <1>4, <1>6, <1>8, EnvelopeOpens DEF Phase1
  <1>9. QED
    BY <1>5, <1>7, <1>8

LEMMA NoTreeIsNone == NoTree \notin Seq(PhaseNames)
  <1> SUFFICES ASSUME NoTree \in Seq(PhaseNames)  PROVE FALSE
    OBVIOUS
  <1>1. Len(NoTree) = 1 /\ NoTree[1] = "none"
    BY DEF NoTree
  <1>2. NoTree[1] \in PhaseNames
    BY <1>1, ElementOfSeq
  <1>3. QED
    BY <1>1, <1>2, NamesAssumption

\* The update changes no name and the trees of one name.
LEMMA OutputsAreWritten ==
  ASSUME EnvelopesInv, NEW w
  PROVE  /\ IsSequence(Outputs(w)) /\ Len(Outputs(w)) = Len(envelopes)
         /\ \A e \in 1..Len(envelopes) :
              /\ Outputs(w)[e].name = envelopes[e].name
              /\ envelopes[e].name # Head(w.left) =>
                   Outputs(w)[e].tree = envelopes[e].tree
              /\ envelopes[e].name = Head(w.left) =>
                   Outputs(w)[e].tree = IF w.ok THEN w.tree ELSE NoTree
  <1>1. Len(envelopes) \in Nat
    BY SequenceLength DEF EnvelopesInv
  <1> DEFINE New(e) == [name |-> Head(w.left),
                        status |-> IF IsGood(w) THEN "completed" ELSE "failed",
                        tree |-> IF w.ok THEN w.tree ELSE NoTree]
  <1>2. Outputs(w) = [e \in 1..Len(envelopes) |->
                        IF envelopes[e].name # Head(w.left) THEN envelopes[e] ELSE New(e)]
    BY Zenon DEF Outputs
  <1>3. \A e : New(e).name = Head(w.left) /\ New(e).tree = IF w.ok THEN w.tree ELSE NoTree
    OBVIOUS
  <1> HIDE DEF New
  <1>4. Outputs(w) = [e \in 1..Len(envelopes) |-> Outputs(w)[e]]
    BY <1>2
  <1>5. IsSequence(Outputs(w)) /\ Len(Outputs(w)) = Len(envelopes)
    BY <1>1, <1>4, FunctionIsSequence
  <1>6. QED
    BY <1>2, <1>3, <1>5

\* The outputs of a phase go on record: the tree is there that was on its way.
LEMMA RecordOutputsKeeps ==
  ASSUME SequenceInv, NEW d \in Dispatches, RecordOutputs(d)
  PROVE  SequenceInv' /\ TreesAreKept
  <1>1. /\ WorkInv /\ EnvelopesInv /\ LatestInv
        /\ WorkOK(work[d]) /\ work[d].row.version <= run.version
        /\ work[d].pc = "outputs"
        /\ UNCHANGED <<run, trees, accepted>>
    BY DEF RecordOutputs, ExceptEnvelopes, SequenceInv, WorkInv
  <1>2. TreesAreKept
    BY <1>1 DEF TreesAreKept
  <1> DEFINE pc == IF ~IsGood(work[d]) THEN "failed"
                   ELSE IF IsLastPhase(d) THEN "done" ELSE "propagate"
             w == [work[d] EXCEPT !.pc = pc]
  <1>0. PICK old : old = work[d]
    OBVIOUS
  <1>3. /\ pc \in {"failed", "done", "propagate"}
        /\ pc = "propagate" => work[d].ok /\ Len(work[d].left) # 1
    BY DEF IsGood, IsLastPhase
  <1>4. Set(d, w)
    BY Zenon DEF RecordOutputs, Goto
  <1>5. /\ envelopes' = envelopes \/ envelopes' = Outputs(old)
        /\ mishaps \subseteq mishaps'
        /\ mishaps' = {} => envelopes' = Outputs(old) /\ ~ErasesTree(old)
    BY <1>0 DEF RecordOutputs
  <1>6. /\ DOMAIN w = WorkFields /\ w.pc = pc /\ w.left = work[d].left
        /\ w.row = work[d].row /\ w.parent = work[d].parent
        /\ w.ok = work[d].ok /\ w.tree = work[d].tree
    BY <1>1, WorkFieldsStay DEF WorkOK
  <1> HIDE DEF w, pc
  <1>7. WorkOK(w) /\ ~Owns(w) /\ ~Pends(w)
    BY <1>1, <1>3, <1>6 DEF WorkOK, Owns, Pends
  <1>8. WorkInv'
    BY <1>1, <1>4, <1>6, <1>7, WorkIsKept DEF WorkInv, RunMoves
  <1>9. /\ DOMAIN work' = Dispatches /\ work'[d] = w
        /\ \A c \in Dispatches : c # d => work'[c] = work[c]
    BY <1>1, <1>4, OneWorks
  <1>10. \A c \in Dispatches :
           /\ Owns(work'[c]) => c # d /\ work'[c] = work[c]
           /\ Pends(work'[c]) => c # d /\ work'[c] = work[c]
           /\ Pends(work[c]) => Owns(work[c])
    BY <1>7, <1>9 DEF Owns, Pends
  <1>a. /\ IsSequence(Outputs(old)) /\ Len(Outputs(old)) = Len(envelopes)
        /\ \A e \in 1..Len(envelopes) :
             /\ Outputs(old)[e].name = envelopes[e].name
             /\ envelopes[e].name # Head(old.left) =>
                  Outputs(old)[e].tree = envelopes[e].tree
             /\ envelopes[e].name = Head(old.left) =>
                  Outputs(old)[e].tree = IF old.ok THEN old.tree ELSE NoTree
    BY <1>1, OutputsAreWritten
  <1>11. /\ IsSequence(envelopes') /\ Len(envelopes') = Len(envelopes)
         /\ \A e \in 1..Len(envelopes) :
              /\ envelopes'[e].name = envelopes[e].name
              /\ \/ envelopes'[e].tree \in {envelopes[e].tree, NoTree}
                 \/ Pends(old) /\ envelopes'[e].tree = old.tree
    <2>1. CASE envelopes' = envelopes
      BY <1>1, <2>1 DEF EnvelopesInv
    <2>2. CASE envelopes' = Outputs(old)
      <3>1. Pends(old) <=> old.ok
        BY <1>0, <1>1 DEF Pends
      <3>2. QED
        BY <1>a, <2>2, <3>1
    <2>3. QED
      BY <1>5, <2>1, <2>2
  <1>12. EnvelopesInv'
    <2>1. \A e, f \in 1..Len(envelopes') :
            envelopes'[e].name = envelopes'[f].name => e = f
      BY <1>1, <1>11 DEF EnvelopesInv
    <2>2. \A e \in 1..Len(envelopes') :
            (envelopes[e].tree # NoTree => IsEnded(envelopes[e].tree))'
      <3>1. SUFFICES ASSUME NEW e \in 1..Len(envelopes'), envelopes'[e].tree # NoTree
                     PROVE  \/ [of |-> envelopes'[e].tree, at |-> "clean_terminated"] \in trees
                            \/ /\ run.phase = "quarantined"
                               /\ [of |-> envelopes'[e].tree, at |-> "quarantined"] \in trees
        BY <1>1 DEF IsEnded
      <3>2. PICK t : t = envelopes'[e].tree
        OBVIOUS
      <3>3. IsEnded(t)
        BY <1>0, <1>1, <1>11, <3>1, <3>2 DEF EnvelopesInv
      <3>4. QED
        BY <3>2, <3>3 DEF IsEnded
    <2>3. \A c \in Dispatches : Pends(work[c])' => IsEnded(work[c].tree)'
      BY <1>1, <1>10 DEF EnvelopesInv, Pends, IsEnded
    <2>4. \A c \in Dispatches : Owns(work[c])' => IsOnRecord(Head(work[c].left))'
      BY <1>1, <1>10, <1>11 DEF EnvelopesInv, Owns, IsOnRecord
    <2>5. \A b, c \in Dispatches :
            Owns(work[b])' /\ Owns(work[c])' /\ Head(work'[b].left) = Head(work'[c].left)
              => b = c
      BY <1>1, <1>10 DEF EnvelopesInv, Owns
    <2>6. QED
      BY <1>11, <2>1, <2>2, <2>3, <2>4, <2>5 DEF EnvelopesInv
  <1>13. LatestInv'
    <2>1. SUFFICES ASSUME run.phase # "quarantined", mishaps' = {}
                   PROVE  \E k \in 0..Len(envelopes') : LatestAt(k)'
      BY <1>1 DEF LatestInv
    <2>2. PICK k \in 0..Len(envelopes) : LatestAt(k)
      BY <1>1, <1>5, <2>1 DEF LatestInv
    <2>3. \A e \in 1..Len(envelopes) :
            /\ envelopes[e].name # Head(old.left) => envelopes'[e].tree = envelopes[e].tree
            /\ envelopes[e].name = Head(old.left) =>
                 /\ envelopes[e].tree = NoTree
                 /\ envelopes'[e].tree = IF old.ok THEN old.tree ELSE NoTree
      BY <1>5, <1>a, <2>1 DEF ErasesTree
    <2>4. Len(envelopes) \in Nat /\ accepted # NoTree
      BY <1>1, NoTreeIsNone, SequenceLength DEF EnvelopesInv, WorkInv
    <2>5. k # 0 =>
            \/ envelopes'[k].tree = accepted
            \/ \E c \in Dispatches : /\ Pends(work'[c]) /\ work'[c].tree = accepted
                                     /\ Head(work'[c].left) = envelopes'[k].name
      <3>1. SUFFICES ASSUME k # 0, envelopes'[k].tree # accepted
                     PROVE  \E c \in Dispatches :
                              /\ Pends(work'[c]) /\ work'[c].tree = accepted
                              /\ Head(work'[c].left) = envelopes'[k].name
        OBVIOUS
      <3>2. k \in 1..Len(envelopes)
        BY <2>2, <2>4, <3>1
      <3>3. envelopes[k].tree # accepted
        BY <2>3, <2>4, <3>1, <3>2
      <3>4. PICK c \in Dispatches : /\ Pends(work[c]) /\ work[c].tree = accepted
                                    /\ Head(work[c].left) = envelopes[k].name
        BY <2>2, <3>1, <3>3 DEF LatestAt
      <3>5. c # d
        BY <1>0, <2>3, <3>1, <3>2, <3>4 DEF Pends
      <3>6. QED
        BY <1>9, <1>11, <3>2, <3>4, <3>5
    <2>6. \A e \in 1..Len(envelopes') : e > k =>
            /\ envelopes'[e].tree = NoTree
            /\ \A c \in Dispatches :
                 Pends(work'[c]) => Head(work'[c].left) # envelopes'[e].name
      <3>1. SUFFICES ASSUME NEW e \in 1..Len(envelopes), e > k
                     PROVE  /\ envelopes'[e].tree = NoTree
                            /\ \A c \in Dispatches :
                                 Pends(work'[c]) => Head(work'[c].left) # envelopes'[e].name
        BY <1>11
      <3>2. /\ envelopes[e].tree = NoTree
            /\ \A c \in Dispatches : Pends(work[c]) => Head(work[c].left) # envelopes[e].name
        BY <2>2, <3>1 DEF LatestAt
      <3>3. envelopes'[e].tree = NoTree
        BY <1>0, <1>1, <2>3, <3>2 DEF Pends
      <3>4. QED
        BY <1>10, <1>11, <3>2, <3>3
    <2>7. \A c \in Dispatches : Drives(work[c])' =>
            \E e \in 1..Len(envelopes') : e > k /\ envelopes'[e].name = Head(work'[c].left)
      <3>1. SUFFICES ASSUME NEW c \in Dispatches, Drives(work[c])'
                     PROVE  \E e \in 1..Len(envelopes') :
                              e > k /\ envelopes'[e].name = Head(work'[c].left)
        OBVIOUS
      <3>2. Owns(work'[c])
        BY <3>1 DEF Drives, Owns
      <3>3. work'[c] = work[c] /\ Drives(work[c])
        BY <1>1, <1>10, <3>1, <3>2 DEF Drives, Owns, Pends
      <3>4. PICK e \in 1..Len(envelopes) : e > k /\ envelopes[e].name = Head(work[c].left)
        BY <2>2, <3>3 DEF LatestAt
      <3>5. QED
        BY <1>11, <3>3, <3>4
    <2>8. LatestAt(k)'
      <3>1. \A c : Pends(work[c])' <=> Pends(work'[c])
        BY DEF Pends
      <3>2. QED
        BY <1>1, <2>2, <2>5, <2>6, <2>7, <3>1 DEF LatestAt
    <2>9. QED
      BY <1>11, <2>8
  <1>14. QED
    BY <1>2, <1>8, <1>12, <1>13 DEF SequenceInv

LEMMA SequenceStepKeeps ==
  ASSUME SequenceInv, SequenceNext
  PROVE  SequenceInv' /\ TreesAreKept
  BY DispatchIsQuiet, ProvisionIsQuiet, RecordEnvelopeKeeps, SuperviseIsQuiet,
     ReconcileIsQuiet, TeardownKeeps, RecordOutputsKeeps, PropagateIsQuiet
     DEF SequenceNext, ExecuteRun

-----------------------------------------------------------------------------
(* The live runs *)

\* A live run is dispatched once, before it is harvested.
LiveInv ==
  /\ DOMAIN live = LiveRuns
  /\ \A l \in LiveRuns :
       /\ live[l] = "harvesting" \/ harvest[l].pc = "idle"
       /\ live[l] \in {"idle", "launch"} => work[l].pc = "idle"

\* A row that is inserted is the first.
LEMMA RowIsInserted ==
  ASSUME run' \in {run, IF run.phase = "none" THEN Created ELSE run}
  PROVE  RunMoves
  BY DEF RunMoves

LEMMA LiveStepKeeps ==
  ASSUME SequenceInv, LiveInv, LiveNext
  PROVE  SequenceInv' /\ TreesAreKept
  <1>1. PICK l \in LiveRuns :
          \/ AdmitIssue(l)
          \/ \E plan \in PlansOf[l], body \in BodiesOf[l] : LaunchLiveRun(l, plan, body)
          \/ HarvestLiveRun(l)
    BY DEF LiveNext
  <1>2. CASE AdmitIssue(l)
    <2>1. RunMoves
      BY <1>2, RowIsInserted DEF AdmitIssue
    <2>2. UNCHANGED <<work, envelopes, trees, accepted, mishaps>>
      BY <1>2 DEF AdmitIssue, ExceptRow
    <2>3. QED
      BY <2>1, <2>2, RowStep
  <1>3. CASE HarvestLiveRun(l)
    <2>1. RunMoves
      BY <1>3 DEF HarvestLiveRun, RunMoves
    <2>2. UNCHANGED <<work, envelopes, trees, accepted, mishaps>>
      BY <1>3 DEF HarvestLiveRun, ExceptRow
    <2>3. QED
      BY <2>1, <2>2, RowStep
  <1>4. ASSUME NEW plan \in PlansOf[l], NEW body \in BodiesOf[l],
               LaunchLiveRun(l, plan, body)
        PROVE  SequenceInv' /\ TreesAreKept
    <2>1. RunMoves
      BY <1>4, RowIsInserted DEF LaunchLiveRun, CanCreate
    <2>2. UNCHANGED <<envelopes, trees, accepted, mishaps>>
      BY <1>4 DEF LaunchLiveRun, ExceptRow
    <2>3. CASE UNCHANGED work
      BY <2>1, <2>2, <2>3, RowStep
    <2>4. CASE ~UNCHANGED work
      <3> DEFINE w == [NoWork EXCEPT !.pc = "provision", !.left = plan, !.row = Created,
                                     !.body = body]
      <3>1. Set(l, w) /\ run.phase = "none" /\ run' = Created
        BY <1>4, <2>4 DEF LaunchLiveRun, CanCreate, Set
      <3>2. l \in Dispatches /\ plan \in Seq(PhaseNames) /\ plan # << >>
        BY LiveRunsAssumption, PlansAssumption
      <3>3. /\ DOMAIN w = WorkFields /\ w.pc = "provision" /\ w.left = plan
            /\ w.row = Created /\ w.parent = ParentTree /\ w.ok = FALSE
        BY DEF NoWork, WorkFields
      <3> HIDE DEF w
      <3>4. WorkOK(w) /\ ~Owns(w) /\ ~Pends(w)
        BY <3>2, <3>3 DEF WorkOK, Owns, Pends, Created, ParentTree
      <3>5. w.row.version <= run'.version
        BY <3>1, <3>3 DEF Created
      <3>6. work[l].pc = "idle" /\ ~Pends(work[l])
        BY <1>4 DEF LaunchLiveRun, LiveInv, Pends
      <3>7. QED
        BY <2>1, <2>2, <3>1, <3>2, <3>4, <3>5, <3>6, QuietStep
    <2>5. QED
      BY <2>3, <2>4
  <1>5. QED
    BY <1>1, <1>2, <1>3, <1>4

\* A harvest of a live run takes steps only after it was set off.
LEMMA HarvestIsOnesOwn ==
  ASSUME NEW h, HarvestStep(h)
  PROVE  (harvest[h].pc # "idle" \/ h \notin LiveRuns) /\ \E l : Be(h, l)
  <1>1. CASE RequestHarvest(h)
    BY <1>1, Zenon DEF RequestHarvest
  <1>2. CASE ReadRun(h)
    BY <1>2, Zenon DEF ReadRun, Step, Is
  <1>3. CASE ReadArms(h)
    BY <1>3, Zenon DEF ReadArms, Is
  <1>4. CASE ReadEnvelopes(h)
    BY <1>4, Zenon DEF ReadEnvelopes, Proposed, Is
  <1>5. CASE AuthorizeHarvest(h)
    BY <1>5, Zenon DEF AuthorizeHarvest, Step, Is
  <1>6. CASE CommitTree(h)
    BY <1>6, Zenon DEF CommitTree, Is
  <1>7. CASE RecordCommit(h)
    BY <1>7, Zenon DEF RecordCommit, Step, Is
  <1>8. CASE PushBranch(h)
    BY <1>8, Zenon DEF PushBranch, Step, Is
  <1>9. CASE OpenPullRequest(h)
    BY <1>9, Zenon DEF OpenPullRequest, Step, Is
  <1>10. CASE RecordPullRequest(h)
    BY <1>10, Zenon DEF RecordPullRequest, Step, Is
  <1>11. QED
    BY <1>1, <1>2, <1>3, <1>4, <1>5, <1>6, <1>7, <1>8, <1>9, <1>10 DEF HarvestStep

LEMMA LiveRunsKeep ==
  ASSUME DOMAIN work = Dispatches, DOMAIN harvest = Harvests, LiveInv, [Next]_vars
  PROVE  LiveInv'
  <1>1. LiveRuns \subseteq Dispatches /\ LiveRuns \subseteq Harvests
    BY LiveRunsAssumption DEF Harvests
  <1>2. CASE SequenceNext /\ UNCHANGED <<harvest, live>>
    <2>1. ASSUME NEW l \in LiveRuns, work[l].pc = "idle"  PROVE work'[l].pc = "idle"
      <3>1. CASE \E d \in Dispatches : \E plan \in PlansOf[d], body \in BodiesOf[d] :
                   Dispatch(d, plan, body)
        BY <1>1, <2>1, <3>1 DEF Dispatch, Set
      <3>2. ASSUME NEW d \in Dispatches, ExecuteRun(d)  PROVE work'[l].pc = "idle"
        <4>1. work[d].pc # "idle" /\ \E w : Set(d, w)
          BY <3>2, WorkIsOnesOwn
        <4>2. QED
          BY <1>1, <2>1, <4>1 DEF Set
      <3>3. QED
        BY <1>2, <3>1, <3>2 DEF SequenceNext
    <2>2. QED
      BY <1>2, <2>1 DEF LiveInv
  <1>3. CASE HarvestNext /\ UNCHANGED <<work, live>>
    <2>1. PICK h \in Harvests : HarvestStep(h)
      BY <1>3 DEF HarvestNext
    <2>2. PICK k : Be(h, k)
      BY <2>1, HarvestIsOnesOwn
    <2>3. \A l \in LiveRuns : harvest[l].pc = "idle" => harvest'[l] = harvest[l]
      BY <1>1, <2>1, <2>2, HarvestIsOnesOwn DEF Be
    <2>4. QED
      BY <1>3, <2>3 DEF LiveInv
  <1>4. CASE LiveNext
    <2>1. PICK l \in LiveRuns :
            \/ AdmitIssue(l)
            \/ \E plan \in PlansOf[l], body \in BodiesOf[l] : LaunchLiveRun(l, plan, body)
            \/ HarvestLiveRun(l)
      BY <1>4 DEF LiveNext
    <2>2. /\ \A k \in LiveRuns : k # l =>
               /\ live'[k] = live[k] /\ work'[k] = work[k] /\ harvest'[k] = harvest[k]
          /\ DOMAIN live' = LiveRuns
      <3>1. CASE AdmitIssue(l)
        BY <3>1 DEF AdmitIssue, MoveLive, LiveInv
      <3>2. ASSUME NEW plan, NEW body, LaunchLiveRun(l, plan, body)
            PROVE  /\ \A k \in LiveRuns : k # l =>
                        /\ live'[k] = live[k] /\ work'[k] = work[k]
                        /\ harvest'[k] = harvest[k]
                   /\ DOMAIN live' = LiveRuns
        <4>1. UNCHANGED harvest
          BY <3>2 DEF LaunchLiveRun
        <4>2. UNCHANGED work \/ \E w : work' = [work EXCEPT ![l] = w]
          BY <3>2, Zenon DEF LaunchLiveRun
        <4>3. \E pc : live' = [live EXCEPT ![l] = pc]
          BY <3>2, Zenon DEF LaunchLiveRun, MoveLive
        <4>4. QED
          BY <1>1, <4>1, <4>2, <4>3 DEF LiveInv
      <3>3. CASE HarvestLiveRun(l)
        <4>1. UNCHANGED work /\ live' = [live EXCEPT ![l] = "harvesting"]
          BY <3>3 DEF HarvestLiveRun, MoveLive
        <4>2. \E k : harvest' = [harvest EXCEPT ![l] = k]
          BY <3>3, Zenon DEF HarvestLiveRun
        <4>3. QED
          BY <1>1, <4>1, <4>2 DEF LiveInv
      <3>4. QED
        BY <2>1, <3>1, <3>2, <3>3
    <2>3. /\ live'[l] = "harvesting" \/ harvest'[l].pc = "idle"
          /\ live'[l] \in {"idle", "launch"} => work'[l].pc = "idle"
      <3>1. CASE AdmitIssue(l)
        BY <3>1 DEF AdmitIssue, MoveLive, LiveInv
      <3>2. CASE \E plan, body : LaunchLiveRun(l, plan, body)
        BY <3>2 DEF LaunchLiveRun, MoveLive, LiveInv
      <3>3. CASE HarvestLiveRun(l)
        BY <3>3 DEF HarvestLiveRun, MoveLive, LiveInv
      <3>4. QED
        BY <2>1, <3>1, <3>2, <3>3
    <2>4. QED
      BY <2>2, <2>3 DEF LiveInv
  <1>5. CASE UNCHANGED <<work, harvest, live>>
    BY <1>5 DEF LiveInv
  <1>6. QED
    <2>1. \/ SequenceNext /\ UNCHANGED <<harvest, live>>
          \/ HarvestNext /\ UNCHANGED <<work, live>>
          \/ LiveNext
          \/ UNCHANGED <<work, harvest, live>>
      BY DEF Next, vars, sequenceVars
    <2>2. QED
      BY <1>2, <1>3, <1>4, <1>5, <2>1

-----------------------------------------------------------------------------
(* The invariant of the dispatches *)

\* The others leave the row and the envelopes as they are.
LEMMA TournamentLeavesRow ==
  ASSUME TournamentNext
  PROVE  UNCHANGED <<run, envelopes, commits>>
  <1>1. ASSUME NEW a, NEW arm, RegisterArm(a, arm)
        PROVE  UNCHANGED <<run, envelopes, commits>>
    BY <1>1 DEF RegisterArm, deliveryVars
  <1>2. ASSUME NEW s, NEW a, RequestSelection(s, a)
        PROVE  UNCHANGED <<run, envelopes, commits>>
    BY <1>2 DEF RequestSelection, deliveryVars
  <1>3. ASSUME NEW s, RankArms(s) \/ CheckCandidate(s) \/ ListArms(s) \/ MarkNext(s)
        PROVE  UNCHANGED <<run, envelopes, commits>>
    BY <1>3 DEF RankArms, CheckCandidate, ListArms, MarkNext, deliveryVars
  <1>4. ASSUME NEW s, RecordSelection(s)
        PROVE  UNCHANGED <<run, envelopes, commits>>
    BY <1>4 DEF RecordSelection, ExceptLedger
  <1>5. QED
    BY <1>1, <1>2, <1>3, <1>4 DEF TournamentNext

LEMMA MergesLeaveRow ==
  ASSUME MergeNext
  PROVE  UNCHANGED <<run, envelopes, commits>>
  <1>1. ASSUME NEW m, NEW p, NEW options, RequestMerge(m, p, options)
        PROVE  UNCHANGED <<run, envelopes, commits>>
    BY <1>1 DEF RequestMerge, deliveryVars
  <1>2. ASSUME NEW m, NEW e, DeliverWebhook(m, e)
        PROVE  UNCHANGED <<run, envelopes, commits>>
    BY <1>2 DEF DeliverWebhook, deliveryVars
  <1>3. ASSUME NEW m, Attest(m) \/ ResolvePull(m) \/ GetPullRequest(m) \/ GetReviews(m)
        PROVE  UNCHANGED <<run, envelopes, commits>>
    BY <1>3 DEF Attest, ResolvePull, GetPullRequest, GetReviews, deliveryVars, ExceptGitHub
  <1>4. ASSUME NEW m, MergePullRequest(m) \/ RecordMerge(m) \/ Deploy(m)
        PROVE  UNCHANGED <<run, envelopes, commits>>
    BY <1>4 DEF MergePullRequest, RecordMerge, Deploy, deliveryVars, ExceptLedger
  <1>5. ASSUME NEW p, Approve(p) \/ Label(p) \/ QueryPullStatus
        PROVE  UNCHANGED <<run, envelopes, commits>>
    BY <1>5 DEF Approve, Label, QueryPullStatus, deliveryVars, ExceptGitHub
  <1>6. QED
    BY <1>1, <1>2, <1>3, <1>4, <1>5 DEF MergeNext

LEMMA HarvestLeavesRow ==
  ASSUME NEW h, HarvestStep(h)
  PROVE  UNCHANGED <<run, envelopes>> /\ (~CommitTree(h) => UNCHANGED commits)
  <1>1. CASE RequestHarvest(h) \/ ReadRun(h) \/ ReadArms(h) \/ ReadEnvelopes(h)
    BY <1>1 DEF RequestHarvest, ReadRun, ReadArms, ReadEnvelopes, deliveryVars
  <1>2. CASE AuthorizeHarvest(h) \/ RecordCommit(h) \/ RecordPullRequest(h)
    BY <1>2 DEF AuthorizeHarvest, RecordCommit, RecordPullRequest, ExceptLedger
  <1>3. CASE CommitTree(h)
    BY <1>3 DEF CommitTree
  <1>4. CASE PushBranch(h) \/ OpenPullRequest(h)
    BY <1>4 DEF PushBranch, OpenPullRequest, ExceptGitHub
  <1>5. QED
    BY <1>1, <1>2, <1>3, <1>4 DEF HarvestStep

LEMMA OthersLeaveSequence ==
  ASSUME [Next]_vars, ~SequenceNext, ~LiveNext
  PROVE  UNCHANGED <<run, envelopes, sequenceVars>>
  <1>1. \/ TournamentNext /\ UNCHANGED sequenceVars
        \/ HarvestNext /\ UNCHANGED sequenceVars
        \/ MergeNext /\ UNCHANGED sequenceVars
        \/ UNCHANGED vars
    BY DEF Next
  <1>2. QED
    BY <1>1, TournamentLeavesRow, MergesLeaveRow, HarvestLeavesRow
       DEF HarvestNext, vars, deliveryVars

LEMMA SequenceKeeps ==
  ASSUME SequenceInv, LiveInv, [Next]_vars
  PROVE  SequenceInv' /\ TreesAreKept
  <1>1. CASE SequenceNext
    BY <1>1, SequenceStepKeeps
  <1>2. CASE LiveNext
    BY <1>2, LiveStepKeeps
  <1>3. CASE UNCHANGED <<run, envelopes, sequenceVars>>
    BY <1>3, RowStep DEF RunMoves, sequenceVars
  <1>4. QED
    BY <1>1, <1>2, <1>3, OthersLeaveSequence

LEMMA SequenceBegins == Init => SequenceInv /\ LiveInv
  <1> SUFFICES ASSUME Init  PROVE SequenceInv /\ LiveInv
    OBVIOUS
  <1>1. /\ envelopes = << >> /\ trees = {} /\ accepted = ParentTree /\ mishaps = {}
        /\ work = [d \in Dispatches |-> NoWork]
        /\ harvest = [h \in Harvests |-> NoHarvest]
        /\ live = [l \in LiveRuns |-> "idle"]
        /\ run.version = 1
    BY DEF Init, DeliveryInit, SequenceInit, HarvestInit
  <1>2. WorkOK(NoWork) /\ ~Owns(NoWork) /\ ~Pends(NoWork) /\ NoWork.pc = "idle"
        /\ NoWork.row.version = 1
    BY DEF WorkOK, Owns, Pends, NoWork, WorkFields, ParentTree
  <1>3. WorkInv
    BY <1>1, <1>2 DEF WorkInv, ParentTree
  <1>4. EnvelopesInv
    BY <1>1, <1>2, EmptyIsSequence DEF EnvelopesInv
  <1>5. LatestAt(0)
    BY <1>1, <1>2, EmptyIsSequence DEF LatestAt, Drives
  <1>6. LiveInv
    <2>1. LiveRuns \subseteq Dispatches /\ LiveRuns \subseteq Harvests
      BY LiveRunsAssumption DEF Harvests
    <2>2. QED
      BY <1>1, <1>2, <2>1 DEF LiveInv, NoHarvest
  <1>7. QED
    BY <1>1, <1>3, <1>4, <1>5, <1>6, EmptyIsSequence DEF SequenceInv, LatestInv

-----------------------------------------------------------------------------
(* What a harvest finds *)

\* The parent's tree, an arm's, or that of a phase that ended well; of another
\* only if a dispatch began meanwhile.
Attested(tree, arm, late) ==
  \/ tree = ParentTree
  \/ arm \in DOMAIN arms /\ arms[arm].tree = tree
  \/ [of |-> tree, at |-> "clean_terminated"] \in trees
  \/ late /\ \E t \in trees : t.of = tree

IsFound(tree, arm, late, latest, blind) ==
  /\ Attested(tree, arm, late)
  /\ arm = NoArm => tree = latest \/ late \/ blind

\* Before it reads the envelopes a harvest has an arm's tree or none.
FindsOK(l) ==
  /\ l.pc \in {"idle", "run", "arms"} => l.arm = NoArm /\ l.tree = NoTree
  /\ l.pc = "envelopes" => \/ l.arm = NoArm /\ l.tree = NoTree
                           \/ l.arm \in DOMAIN arms /\ arms[l.arm].tree = l.tree
  /\ l.pc = "authorize" /\ l.row.phase = "clean_terminated" =>
       IsFound(l.tree, l.arm, l.late, l.latest, l.blind)
  /\ l.pc = "commit" => IsFound(l.tree, l.arm, l.late, l.latest, l.blind)

FindsInv == \A h \in Harvests : FindsOK(harvest[h])

CommitOK(c) ==
  /\ IsFound(c.claims, c.arm, c.late, c.latest, c.blind)
  /\ \/ c.holds = IF c.claims \in Objects THEN c.claims ELSE ParentTree
     \/ c.failed /\ c.holds \in {ParentTree, EmptyTree}

CommitsInv == \A c \in 1..Len(commits) : CommitOK(commits[c])

LEMMA FoundStays ==
  ASSUME ArmsAreKept, TreesAreKept, NEW tree, NEW arm, NEW late, NEW latest, NEW blind,
         IsFound(tree, arm, late, latest, blind)
  PROVE  IsFound(tree, arm, late, latest, blind)'
  BY DEF ArmsAreKept, TreesAreKept, IsFound, Attested

LEMMA FindsStay ==
  ASSUME ArmsAreKept, TreesAreKept, NEW l, FindsOK(l)
  PROVE  FindsOK(l)'
  BY FoundStays DEF ArmsAreKept, FindsOK

LEMMA NoArmIsNone ==
  ASSUME ArmsInv
  PROVE  NoArm \notin DOMAIN arms
  BY ArmsAssumption, SequenceNumbers DEF ArmsInv, ArmsAreWhole, ArmIds, NoArm

\* The last tree on record is that of a phase that ended, and, when nothing is
\* lost or on its way, that of the last that ended well.
LEMMA LastTreeIsEnded ==
  ASSUME SequenceInv, WithTree # {}
  PROVE  /\ Max(WithTree) \in 1..Len(envelopes)
         /\ IsEnded(envelopes[Max(WithTree)].tree)
         /\ \A e \in WithTree : e <= Max(WithTree)
         /\ Max(WithTree) \in WithTree
  <1>1. Len(envelopes) \in Nat
    BY SequenceLength DEF SequenceInv, EnvelopesInv
  <1>2. Max(WithTree) \in WithTree /\ \A e \in WithTree : e <= Max(WithTree)
    BY <1>1, MaxIsMember DEF WithTree
  <1>3. QED
    BY <1>2 DEF WithTree, SequenceInv, EnvelopesInv

LEMMA LastTreeIsLatest ==
  ASSUME SequenceInv, run.phase # "quarantined", mishaps = {},
         \A d \in Dispatches : work[d].pc # "outputs"
  PROVE  /\ WithTree = {} => accepted = ParentTree
         /\ WithTree # {} => envelopes[Max(WithTree)].tree = accepted
  <1>1. PICK k \in 0..Len(envelopes) : LatestAt(k)
    BY DEF SequenceInv, LatestInv
  <1>2. /\ k = 0 => accepted = ParentTree
        /\ k # 0 => envelopes[k].tree = accepted
        /\ \A e \in 1..Len(envelopes) : e > k => envelopes[e].tree = NoTree
    BY <1>1 DEF LatestAt, Pends
  <1>3. Len(envelopes) \in Nat /\ accepted # NoTree
    BY SequenceLength, NoTreeIsNone DEF SequenceInv, EnvelopesInv, WorkInv
  <1>4. CASE k = 0
    <2>1. WithTree = {}
      BY <1>2, <1>3, <1>4 DEF WithTree
    <2>2. QED
      BY <1>2, <1>4, <2>1
  <1>5. CASE k # 0
    <2>1. k \in WithTree /\ \A e \in WithTree : e <= k
      BY <1>2, <1>3, <1>5 DEF WithTree
    <2>2. Max(WithTree) = k
      BY <1>3, <2>1, LastTreeIsEnded
    <2>3. QED
      BY <1>2, <1>5, <2>1, <2>2
  <1>6. QED
    BY <1>4, <1>5

LEMMA OneHarvestFinds ==
  ASSUME HarvestInv, FindsInv, ArmsAreKept, TreesAreKept, NEW h \in Harvests, NEW l,
         Be(h, l)
  PROVE  /\ harvest'[h] = l /\ DOMAIN harvest[h] = HarvestFields
         /\ FindsOK(harvest[h])
         /\ FindsOK(harvest[h])' => FindsInv'
  <1>1. /\ harvest'[h] = l /\ DOMAIN harvest[h] = HarvestFields
        /\ \A g \in Harvests : g # h => harvest'[g] = harvest[g]
    BY DEF Be, HarvestInv, HarvestOK
  <1>2. ASSUME NEW g \in Harvests, g # h  PROVE FindsOK(harvest[g])'
    <2>1. harvest'[g] = harvest[g] /\ FindsOK(harvest[g])
      BY <1>1, <1>2 DEF FindsInv
    <2>2. QED
      BY <2>1, FindsStay
  <1>3. QED
    BY <1>1, <1>2 DEF FindsInv

\* A step that leads to none of the places where something is to be found.
LEMMA FindsNoMore ==
  ASSUME HarvestInv, FindsInv, ArmsAreKept, TreesAreKept, NEW h \in Harvests, NEW l,
         Be(h, l),
         l.pc \in {"signed", "record", "push", "open", "report", "done", "failed"}
  PROVE  FindsInv'
  <1>1. harvest'[h] = l
    BY OneHarvestFinds
  <1>2. FindsOK(harvest[h])'
    BY <1>1 DEF FindsOK
  <1>3. QED
    BY <1>2, OneHarvestFinds DEF FindsInv

LEMMA FindsNoMoreAt ==
  ASSUME HarvestInv, FindsInv, ArmsAreKept, TreesAreKept, NEW h \in Harvests, NEW pc,
         Step(h, pc), pc \in {"push", "open", "report", "done", "failed"}
  PROVE  FindsInv'
  <1> DEFINE l == [harvest[h] EXCEPT !.pc = pc]
  <1>1. DOMAIN harvest[h] = HarvestFields
    BY DEF HarvestInv, HarvestOK
  <1>2. l.pc = pc
    BY <1>1, HarvestFieldsStay
  <1>3. Be(h, l)
    BY DEF Step
  <1> HIDE DEF l
  <1>4. QED
    BY <1>2, <1>3, FindsNoMore

LEMMA FindsWhatItRead ==
  ASSUME HarvestInv, FindsInv, ArmsAreKept, TreesAreKept, NEW h \in Harvests,
         RequestHarvest(h) \/ ReadRun(h)
  PROVE  FindsInv'
  <1>1. CASE RequestHarvest(h)
    <2> DEFINE l == [NoHarvest EXCEPT !.pc = "run", !.signed = harvest[h].signed]
    <2>1. Be(h, l)
      BY <1>1 DEF RequestHarvest
    <2>2. l.pc = "run" /\ l.arm = NoArm /\ l.tree = NoTree
      BY DEF NoHarvest
    <2> HIDE DEF l
    <2>3. FindsOK(harvest[h])'
      <3>1. harvest'[h] = l
        BY <2>1, OneHarvestFinds
      <3>2. QED
        BY <2>2, <3>1 DEF FindsOK
    <2>4. QED
      BY <2>1, <2>3, OneHarvestFinds DEF FindsInv
  <1>2. CASE ReadRun(h) /\ Step(h, "failed")
    BY <1>2, FindsNoMoreAt
  <1>3. CASE ReadRun(h) /\ ~Step(h, "failed")
    <2> DEFINE pc == IF h \in LiveRuns THEN "envelopes" ELSE "arms"
               l == [harvest[h] EXCEPT !.row = run, !.pc = pc]
    <2>1. Be(h, l) /\ harvest[h].pc = "run"
      BY <1>3 DEF ReadRun, Is
    <2>2. DOMAIN harvest[h] = HarvestFields /\ FindsOK(harvest[h])
      BY DEF HarvestInv, HarvestOK, FindsInv
    <2>3. l.pc = pc /\ l.arm = harvest[h].arm /\ l.tree = harvest[h].tree
      BY <2>2 DEF HarvestFields
    <2>4. pc \in {"envelopes", "arms"}
      OBVIOUS
    <2> HIDE DEF l, pc
    <2>5. FindsOK(harvest[h])'
      <3>1. harvest'[h] = l
        BY <2>1, OneHarvestFinds
      <3>2. l.arm = NoArm /\ l.tree = NoTree
        BY <2>1, <2>2, <2>3 DEF FindsOK
      <3>3. QED
        BY <2>3, <2>4, <3>1, <3>2 DEF FindsOK
    <2>6. QED
      BY <2>1, <2>5, OneHarvestFinds DEF FindsInv
  <1>4. QED
    BY <1>1, <1>2, <1>3

LEMMA FindsAnArm ==
  ASSUME HarvestInv, ArmsInv, FindsInv, ArmsAreKept, TreesAreKept, NEW h \in Harvests,
         ReadArms(h), UNCHANGED arms
  PROVE  FindsInv'
  <1> DEFINE a == IF Winners = {} THEN NoArm ELSE Min(Winners)
             t == IF a = NoArm THEN NoTree ELSE arms[a].tree
             m == [harvest[h] EXCEPT !.pc = "envelopes", !.arm = a, !.tree = t]
             n == [harvest[h] EXCEPT !.pc = "envelopes", !.blind = TRUE]
  <1>1. (Be(h, m) \/ Be(h, n)) /\ harvest[h].pc = "arms"
    BY Zenon DEF ReadArms, Is
  <1>2. DOMAIN harvest[h] = HarvestFields /\ FindsOK(harvest[h])
    BY DEF HarvestInv, HarvestOK, FindsInv
  <1>3. harvest[h].arm = NoArm /\ harvest[h].tree = NoTree
    BY <1>1, <1>2 DEF FindsOK
  <1>4. a = NoArm \/ a \in DOMAIN arms
    <2>1. CASE Winners = {}
      BY <2>1
    <2>2. CASE Winners # {}
      <3>1. Winners \subseteq Nat
        <4>1. DOMAIN ArmNames \subseteq Nat
          BY ArmsAssumption, SequenceNumbers
        <4>2. QED
          BY <4>1 DEF Winners, ArmsInv, ArmsAreWhole, ArmIds
      <3>2. Min(Winners) \in Winners
        BY <2>2, <3>1, MinIsMember
      <3>3. QED
        BY <2>2, <3>2 DEF Winners
    <2>3. QED
      BY <2>1, <2>2
  <1>5. (a = NoArm /\ t = NoTree) \/ (a \in DOMAIN arms /\ arms[a].tree = t)
    BY <1>4
  <1>6. /\ m.pc = "envelopes" /\ m.arm = a /\ m.tree = t
        /\ n.pc = "envelopes" /\ n.arm = NoArm /\ n.tree = NoTree
    BY <1>2, <1>3 DEF HarvestFields
  <1> HIDE DEF a, t, m, n
  <1>7. PICK l : /\ Be(h, l) /\ l.pc = "envelopes"
                 /\ \/ l.arm = NoArm /\ l.tree = NoTree
                    \/ l.arm \in DOMAIN arms /\ arms[l.arm].tree = l.tree
    BY <1>1, <1>5, <1>6
  <1>8. FindsOK(harvest[h])'
    <2>1. harvest'[h] = l
      BY <1>7, OneHarvestFinds
    <2>2. QED
      BY <1>7, <2>1 DEF FindsOK
  <1>9. QED
    BY <1>7, <1>8, OneHarvestFinds DEF FindsInv

\* The fields of a proposal.
LEMMA ProposalHas ==
  ASSUME HarvestInv, NEW h \in Harvests, NEW t, NEW b, Proposed(h, t, b)
  PROVE  \E l : /\ Be(h, l)
                /\ l.pc \in {"signed", "authorize"}
                /\ l.tree = t /\ l.arm = harvest[h].arm
                /\ l.row = harvest[h].row /\ l.latest = accepted
                /\ l.late <=> run # harvest[h].row
                /\ l.blind <=> \/ harvest[h].blind \/ b \/ mishaps # {}
                               \/ \E d \in Dispatches : work[d].pc = "outputs"
  <1> DEFINE isFirst == h \in Reviews /\ harvest[h].signed = Unsigned
             pc == IF isFirst THEN "signed" ELSE "authorize"
             signed == IF h \notin Reviews \/ isFirst THEN t ELSE harvest[h].signed
             late == run # harvest[h].row
             blind == \/ harvest[h].blind \/ b \/ mishaps # {}
                      \/ \E d \in Dispatches : work[d].pc = "outputs"
             l == [harvest[h] EXCEPT !.pc = pc, !.tree = t, !.signed = signed,
                     !.late = late, !.latest = accepted, !.blind = blind]
  <1>1. Be(h, l)
    BY Zenon DEF Proposed
  <1>2. pc \in {"signed", "authorize"}
    OBVIOUS
  <1>3. PICK x : x = late
    OBVIOUS
  <1>4. PICK y : y = blind
    OBVIOUS
  <1>5. (x <=> late) /\ (y <=> blind)
    BY <1>3, <1>4
  <1>6. DOMAIN harvest[h] = HarvestFields
    BY DEF HarvestInv, HarvestOK
  <1> HIDE DEF pc, signed, late, blind
  <1>7. /\ l.pc = pc /\ l.tree = t /\ l.arm = harvest[h].arm
        /\ l.row = harvest[h].row /\ l.latest = accepted
        /\ l.late = late /\ l.blind = blind
    BY <1>6 DEF HarvestFields
  <1> HIDE DEF l
  <1>8. (l.late <=> late) /\ (l.blind <=> blind)
    BY <1>7, Zenon
  <1>9. QED
    BY <1>1, <1>2, <1>7, <1>8 DEF late, blind

\* What the envelopes yield is attested, and the latest unless something was
\* missed.
LEMMA EnvelopesYield ==
  ASSUME SequenceInv, NEW row, row.phase = "clean_terminated",
         NEW t, t = IF WithTree = {} THEN ParentTree ELSE envelopes[Max(WithTree)].tree
  PROVE  /\ Attested(t, NoArm, run # row)
         /\ \/ t = accepted \/ run # row \/ mishaps # {}
            \/ \E d \in Dispatches : work[d].pc = "outputs"
  <1>1. CASE WithTree = {}
    <2>1. t = ParentTree
      BY <1>1
    <2>2. QED
      BY <1>1, <2>1, LastTreeIsLatest DEF Attested
  <1>2. CASE WithTree # {}
    <2>1. t = envelopes[Max(WithTree)].tree
      BY <1>2
    <2>2. IsEnded(t)
      BY <1>2, <2>1, LastTreeIsEnded
    <2>3. Attested(t, NoArm, run # row)
      BY <2>2 DEF IsEnded, Attested
    <2>4. QED
      BY <1>2, <2>1, <2>3, LastTreeIsLatest
  <1>3. QED
    BY <1>1, <1>2

LEMMA FindsATree ==
  ASSUME HarvestInv, ArmsInv, SequenceInv, FindsInv, ArmsAreKept, TreesAreKept,
         NEW h \in Harvests, ReadEnvelopes(h), UNCHANGED <<arms, trees>>
  PROVE  FindsInv'
  <1>1. /\ harvest[h].pc = "envelopes" /\ FindsOK(harvest[h])
        /\ NoArm \notin DOMAIN arms
    BY NoArmIsNone DEF ReadEnvelopes, Is, FindsInv
  <1>2. \/ harvest[h].arm = NoArm /\ harvest[h].tree = NoTree
        \/ /\ harvest[h].arm \in DOMAIN arms /\ harvest[h].arm # NoArm
           /\ arms[harvest[h].arm].tree = harvest[h].tree
    BY <1>1 DEF FindsOK
  <1>3. ASSUME NEW l, Be(h, l),
               /\ l.pc = "authorize" /\ l.row.phase = "clean_terminated" =>
                    IsFound(l.tree, l.arm, l.late, l.latest, l.blind)
               /\ l.pc \in {"signed", "authorize"}
        PROVE  FindsInv'
    <2>1. harvest'[h] = l
      BY <1>3, OneHarvestFinds
    <2>2. l.pc = "authorize" /\ l.row.phase = "clean_terminated" =>
            IsFound(l.tree, l.arm, l.late, l.latest, l.blind)'
      BY <1>3, FoundStays
    <2>3. FindsOK(harvest[h])'
      BY <1>3, <2>1, <2>2 DEF FindsOK
    <2>4. QED
      BY <1>3, <2>3, OneHarvestFinds
  <1>4. CASE Proposed(h, AcceptedTree(h), FALSE)
    <2>1. PICK t : t = AcceptedTree(h)
      OBVIOUS
    <2>2. PICK l : /\ Be(h, l)
                   /\ l.pc \in {"signed", "authorize"}
                   /\ l.tree = t /\ l.arm = harvest[h].arm
                   /\ l.row = harvest[h].row /\ l.latest = accepted
                   /\ l.late <=> run # harvest[h].row
                   /\ l.blind <=> \/ harvest[h].blind \/ FALSE \/ mishaps # {}
                                  \/ \E d \in Dispatches : work[d].pc = "outputs"
      BY <1>4, <2>1, ProposalHas
    <2>3. ASSUME l.row.phase = "clean_terminated"
          PROVE  IsFound(l.tree, l.arm, l.late, l.latest, l.blind)
      <3>1. CASE harvest[h].tree # NoTree
        BY <1>2, <2>1, <2>2, <3>1 DEF AcceptedTree, IsFound, Attested
      <3>2. CASE harvest[h].tree = NoTree
        <4>1. t = IF WithTree = {} THEN ParentTree ELSE envelopes[Max(WithTree)].tree
          BY <2>1, <3>2 DEF AcceptedTree
        <4>2. PICK row : row = harvest[h].row
          OBVIOUS
        <4>3. /\ Attested(t, NoArm, run # row)
              /\ \/ t = accepted \/ run # row \/ mishaps # {}
                 \/ \E d \in Dispatches : work[d].pc = "outputs"
          BY <2>2, <2>3, <4>1, <4>2, EnvelopesYield
        <4>4. QED
          BY <1>1, <2>2, <4>2, <4>3 DEF IsFound, Attested
      <3>3. QED
        BY <3>1, <3>2
    <2>4. QED
      BY <1>3, <2>2, <2>3
  <1>5. CASE Proposed(h, IF harvest[h].tree # NoTree THEN harvest[h].tree
                         ELSE ParentTree, TRUE)
    <2>1. PICK t : t = IF harvest[h].tree # NoTree THEN harvest[h].tree ELSE ParentTree
      OBVIOUS
    <2>2. PICK l : /\ Be(h, l)
                   /\ l.pc \in {"signed", "authorize"}
                   /\ l.tree = t /\ l.arm = harvest[h].arm
                   /\ l.row = harvest[h].row /\ l.latest = accepted
                   /\ l.late <=> run # harvest[h].row
                   /\ l.blind <=> \/ harvest[h].blind \/ TRUE \/ mishaps # {}
                                  \/ \E d \in Dispatches : work[d].pc = "outputs"
      BY <1>5, <2>1, ProposalHas
    <2>3. IsFound(l.tree, l.arm, l.late, l.latest, l.blind)
      BY <1>2, <2>1, <2>2 DEF IsFound, Attested
    <2>4. QED
      BY <1>3, <2>2, <2>3
  <1>6. QED
    BY <1>4, <1>5 DEF ReadEnvelopes

\* A harvest is authorized only for what it found in a run that was
\* clean_terminated.
LEMMA FindsAuthorized ==
  ASSUME HarvestInv, FindsInv, ArmsAreKept, TreesAreKept, NEW h \in Harvests,
         AuthorizeHarvest(h)
  PROVE  FindsInv'
  <1>1. CASE Step(h, "failed")
    BY <1>1, FindsNoMoreAt
  <1>2. CASE Step(h, "commit") /\ IsAuthorized(h)
    <2> DEFINE l == [harvest[h] EXCEPT !.pc = "commit"]
    <2>1. /\ harvest[h].pc = "authorize" /\ harvest[h].row.phase = "clean_terminated"
          /\ FindsOK(harvest[h]) /\ DOMAIN harvest[h] = HarvestFields
      BY <1>2 DEF AuthorizeHarvest, Is, IsAuthorized, FindsInv, HarvestInv, HarvestOK
    <2>2. IsFound(harvest[h].tree, harvest[h].arm, harvest[h].late, harvest[h].latest,
                  harvest[h].blind)
      BY <2>1 DEF FindsOK
    <2>3. /\ l.pc = "commit" /\ l.tree = harvest[h].tree /\ l.arm = harvest[h].arm
          /\ l.late = harvest[h].late /\ l.latest = harvest[h].latest
          /\ l.blind = harvest[h].blind
      BY <2>1 DEF HarvestFields
    <2>4. Be(h, l)
      BY <1>2 DEF Step
    <2> HIDE DEF l
    <2>5. PICK k : k = l
      OBVIOUS
    <2>6. IsFound(k.tree, k.arm, k.late, k.latest, k.blind)
      BY <2>2, <2>3, <2>5
    <2>7. harvest'[h] = k
      BY <2>4, <2>5, OneHarvestFinds
    <2>8. IsFound(k.tree, k.arm, k.late, k.latest, k.blind)'
      BY <2>6, FoundStays
    <2>9. FindsOK(harvest[h])'
      BY <2>3, <2>5, <2>7, <2>8 DEF FindsOK
    <2>10. QED
      BY <2>4, <2>9, OneHarvestFinds
  <1>3. QED
    BY <1>1, <1>2, Zenon DEF AuthorizeHarvest

LEMMA FindsThroughStep ==
  ASSUME HarvestInv, ArmsInv, SequenceInv, FindsInv, ArmsAreKept, TreesAreKept,
         UNCHANGED <<arms, trees>>, NEW h \in Harvests, HarvestStep(h)
  PROVE  FindsInv'
  <1>1. CASE RequestHarvest(h) \/ ReadRun(h)
    BY <1>1, FindsWhatItRead
  <1>2. CASE ReadArms(h)
    BY <1>2, FindsAnArm
  <1>3. CASE ReadEnvelopes(h)
    BY <1>3, FindsATree
  <1>4. CASE AuthorizeHarvest(h)
    BY <1>4, FindsAuthorized
  <1>5. CASE CommitTree(h)
    <2>1. PICK real \in BOOLEAN :
            Be(h, [harvest[h] EXCEPT !.pc = "record", !.commit = Len(commits) + 1,
                                     !.real = real])
      BY <1>5, Zenon DEF CommitTree
    <2> DEFINE l == [harvest[h] EXCEPT !.pc = "record", !.commit = Len(commits) + 1,
                                       !.real = real]
    <2>2. DOMAIN harvest[h] = HarvestFields
      BY DEF HarvestInv, HarvestOK
    <2>3. l.pc = "record"
      BY <2>2 DEF HarvestFields
    <2>4. Be(h, l)
      BY <2>1
    <2> HIDE DEF l
    <2>5. QED
      BY <2>3, <2>4, FindsNoMore
  <1>6. CASE RecordCommit(h)
    BY <1>6, FindsNoMoreAt, Zenon DEF RecordCommit
  <1>7. CASE PushBranch(h)
    BY <1>7, FindsNoMoreAt, Zenon DEF PushBranch
  <1>8. CASE OpenPullRequest(h)
    <2>1. CASE Step(h, "report")
      BY <2>1, FindsNoMoreAt
    <2>2. ASSUME NEW n, Be(h, [harvest[h] EXCEPT !.pc = "report", !.pull = n])
          PROVE  FindsInv'
      <3> DEFINE l == [harvest[h] EXCEPT !.pc = "report", !.pull = n]
      <3>1. DOMAIN harvest[h] = HarvestFields
        BY DEF HarvestInv, HarvestOK
      <3>2. l.pc = "report"
        BY <3>1, HarvestFieldsStay
      <3>3. Be(h, l)
        BY <2>2
      <3> HIDE DEF l
      <3>4. QED
        BY <3>2, <3>3, FindsNoMore
    <2>3. QED
      BY <1>8, <2>1, <2>2 DEF OpenPullRequest
  <1>9. CASE RecordPullRequest(h)
    BY <1>9, FindsNoMoreAt, Zenon DEF RecordPullRequest
  <1>10. QED
    BY <1>1, <1>2, <1>3, <1>4, <1>5, <1>6, <1>7, <1>8, <1>9 DEF HarvestStep

-----------------------------------------------------------------------------
(* What was committed *)

LEMMA CommitsStay ==
  ASSUME ArmsAreKept, TreesAreKept, CommitsInv, UNCHANGED commits
  PROVE  CommitsInv'
  <1>1. SUFFICES ASSUME NEW c \in 1..Len(commits)  PROVE CommitOK(commits[c])'
    BY DEF CommitsInv
  <1>2. PICK k : k = commits[c]
    OBVIOUS
  <1>3. CommitOK(k)
    BY <1>2 DEF CommitsInv
  <1>4. IsFound(k.claims, k.arm, k.late, k.latest, k.blind)'
    BY <1>3, FoundStays DEF CommitOK
  <1>5. CommitOK(k)'
    BY <1>3, <1>4 DEF CommitOK
  <1>6. QED
    BY <1>2, <1>5 DEF CommitOK

LEMMA CommitIsFound ==
  ASSUME HubInv, ArmsAreKept, TreesAreKept, FindsInv, CommitsInv,
         NEW h \in Harvests, CommitTree(h)
  PROVE  CommitsInv'
  <1> DEFINE l == harvest[h]
             R(failed) == ResolvedTree(l.tree, failed)
             new(failed) == [claims |-> l.tree, arm |-> l.arm, failed |-> failed > 0,
                             holds |-> R(failed), blind |-> l.blind,
                             late |-> l.late, latest |-> l.latest]
  <1>0. l.pc = "commit"
    BY DEF CommitTree, Is
  <1>1. PICK failed \in 0..2 :
          /\ commits' = Append(commits, new(failed))
          /\ l.tree \notin Objects => failed < 2
    BY Zenon DEF CommitTree
  <1>2. IsFound(l.tree, l.arm, l.late, l.latest, l.blind)
    BY <1>0 DEF FindsInv, FindsOK
  <1> DEFINE k == new(failed)
  <1>3. /\ k.claims = l.tree /\ k.arm = l.arm /\ k.late = l.late
        /\ k.latest = l.latest /\ k.blind = l.blind /\ k.holds = R(failed)
        /\ k.failed = (failed > 0)
    OBVIOUS
  <1>4. \/ R(failed) = IF l.tree \in Objects THEN l.tree ELSE ParentTree
        \/ failed > 0 /\ R(failed) \in {ParentTree, EmptyTree}
    <2>1. CASE l.tree \in Objects
      <3>1. failed = 0 => R(failed) = l.tree
        BY <2>1 DEF ResolvedTree
      <3>2. failed = 1 => R(failed) = ParentTree
        BY <2>1 DEF ResolvedTree
      <3>3. failed = 2 => R(failed) = EmptyTree
        BY <2>1 DEF ResolvedTree
      <3> HIDE DEF R, l
      <3>4. QED
        BY <2>1, <3>1, <3>2, <3>3
    <2>2. CASE l.tree \notin Objects
      <3>1. failed = 0 => R(failed) = ParentTree
        BY <2>2 DEF ResolvedTree
      <3>2. failed = 1 => R(failed) = EmptyTree
        BY <2>2 DEF ResolvedTree
      <3> HIDE DEF R, l
      <3>3. QED
        BY <1>1, <2>2, <3>1, <3>2
    <2>3. QED
      BY <2>1, <2>2
  <1> HIDE DEF k, l, R
  <1>5. commits' = Append(commits, k)
    BY <1>1 DEF k, l, R
  <1>6. CommitOK(k)
    BY <1>2, <1>3, <1>4 DEF CommitOK
  <1>7. /\ Len(commits) \in Nat /\ Len(commits') = Len(commits) + 1
        /\ commits'[Len(commits')] = k
        /\ \A i \in 1..Len(commits) : commits'[i] = commits[i]
    BY <1>5, AppendKeeps, SequenceLength DEF HubInv
  <1>8. SUFFICES ASSUME NEW c \in 1..Len(commits')  PROVE CommitOK(commits[c])'
    BY DEF CommitsInv
  <1>9. PICK m : m = commits'[c]
    OBVIOUS
  <1>10. CommitOK(m)
    <2>1. CASE c = Len(commits')
      BY <1>6, <1>7, <1>9, <2>1
    <2>2. CASE c # Len(commits')
      <3>1. c \in 1..Len(commits)
        BY <1>7, <2>2
      <3>2. QED
        BY <1>7, <1>9, <3>1 DEF CommitsInv
    <2>3. QED
      BY <2>1, <2>2
  <1>11. IsFound(m.claims, m.arm, m.late, m.latest, m.blind)'
    BY <1>10, FoundStays DEF CommitOK
  <1>12. CommitOK(m)'
    BY <1>10, <1>11 DEF CommitOK
  <1>13. QED
    BY <1>9, <1>12 DEF CommitOK

-----------------------------------------------------------------------------
(* The invariant *)

AcceptanceInv == SequenceInv /\ LiveInv /\ FindsInv /\ CommitsInv

LEMMA AcceptanceBegins == Init => AcceptanceInv
  <1> SUFFICES ASSUME Init  PROVE AcceptanceInv
    OBVIOUS
  <1>1. commits = << >> /\ harvest = [h \in Harvests |-> NoHarvest]
    BY DEF Init, DeliveryInit, HarvestInit
  <1>2. FindsOK(NoHarvest)
    BY DEF FindsOK, NoHarvest
  <1>3. QED
    BY <1>1, <1>2, SequenceBegins, EmptyIsSequence
       DEF AcceptanceInv, FindsInv, CommitsInv

LEMMA ArmsStay ==
  ASSUME ArmsInv, [Next]_vars
  PROVE  ArmsAreKept /\ (~TournamentNext => UNCHANGED arms)
  BY TournamentStepKeeps, OthersLeaveArms, ArmsStutter DEF tournamentVars

\* A live run's harvest begins from nothing.
LEMMA FindsOfLiveRuns ==
  ASSUME HarvestInv, LiveInv, FindsInv, ArmsAreKept, TreesAreKept, LiveNext
  PROVE  FindsInv'
  <1>1. CASE UNCHANGED harvest
    BY <1>1, FindsStay DEF FindsInv
  <1>2. CASE \E l \in LiveRuns : HarvestLiveRun(l)
    <2>1. PICK h \in LiveRuns : HarvestLiveRun(h)
      BY <1>2
    <2> DEFINE l == [harvest[h] EXCEPT !.pc = "run"]
    <2>2. h \in Harvests /\ Be(h, l)
      BY <2>1 DEF Harvests, HarvestLiveRun, Be
    <2>3. harvest[h].pc = "idle" /\ FindsOK(harvest[h])
          /\ DOMAIN harvest[h] = HarvestFields
      BY <2>1, <2>2 DEF HarvestLiveRun, LiveInv, FindsInv, HarvestInv, HarvestOK
    <2>4. l.pc = "run" /\ l.arm = NoArm /\ l.tree = NoTree
      BY <2>3 DEF FindsOK, HarvestFields
    <2> HIDE DEF l
    <2>5. harvest'[h] = l
      BY <2>2, OneHarvestFinds
    <2>6. FindsOK(harvest[h])'
      BY <2>4, <2>5 DEF FindsOK
    <2>7. QED
      BY <2>2, <2>6, OneHarvestFinds
  <1>3. QED
    BY <1>1, <1>2 DEF LiveNext, AdmitIssue, LaunchLiveRun

LEMMA AcceptanceStepKeeps ==
  ASSUME DeliveryInv, ArmsInv, AcceptanceInv, [Next]_vars
  PROVE  AcceptanceInv'
  <1>1. /\ HubInv /\ HarvestInv /\ SequenceInv /\ LiveInv /\ FindsInv /\ CommitsInv
        /\ DOMAIN work = Dispatches /\ DOMAIN harvest = Harvests
    BY DEF DeliveryInv, AcceptanceInv, SequenceInv, WorkInv, HarvestInv
  <1>2. SequenceInv' /\ TreesAreKept
    BY <1>1, SequenceKeeps
  <1>3. LiveInv'
    BY <1>1, LiveRunsKeep
  <1>4. ArmsAreKept
    BY ArmsStay
  <1>5. CASE HarvestNext /\ UNCHANGED <<sequenceVars, tournamentVars>>
    <2>1. PICK h \in Harvests : HarvestStep(h)
      BY <1>5 DEF HarvestNext
    <2>2. FindsInv'
      BY <1>1, <1>2, <1>4, <1>5, <2>1, FindsThroughStep DEF sequenceVars, tournamentVars
    <2>3. CommitsInv'
      BY <1>1, <1>2, <1>4, <2>1, CommitIsFound, CommitsStay, HarvestLeavesRow
    <2>4. QED
      BY <1>2, <1>3, <2>2, <2>3 DEF AcceptanceInv
  <1>6. CASE LiveNext
    <2>1. UNCHANGED commits
      BY <1>1, <1>6, LiveRunsLeaveHub DEF hub
    <2>2. QED
      BY <1>1, <1>2, <1>3, <1>4, <1>6, <2>1, FindsOfLiveRuns, CommitsStay
         DEF AcceptanceInv
  <1>7. CASE UNCHANGED <<commits, harvest>>
    <2>1. FindsInv'
      BY <1>1, <1>2, <1>4, <1>7, FindsStay DEF FindsInv
    <2>2. QED
      BY <1>1, <1>2, <1>3, <1>4, <1>7, <2>1, CommitsStay DEF AcceptanceInv
  <1>8. QED
    <2>1. \/ SequenceNext /\ UNCHANGED harvest
          \/ TournamentNext /\ UNCHANGED harvest
          \/ HarvestNext /\ UNCHANGED <<sequenceVars, tournamentVars>>
          \/ MergeNext /\ UNCHANGED harvest
          \/ LiveNext
          \/ UNCHANGED <<commits, harvest>>
      BY DEF Next, vars, deliveryVars
    <2>2. QED
      BY <1>5, <1>6, <1>7, <2>1, SequenceLeavesHub, TournamentLeavesRow,
         MergesLeaveRow DEF hub

LEMMA AcceptanceHolds == Spec => []AcceptanceInv
  <1>1. DeliveryInv /\ ArmsInv /\ AcceptanceInv /\ [Next]_vars => AcceptanceInv'
    BY AcceptanceStepKeeps
  <1>2. QED
    BY <1>1, AcceptanceBegins, DeliveryHolds, ArmsHold, PTL DEF Spec

\* What a harvest commits is the run's parent tree, an arm's, or what a phase
\* left that passed its gate, however dispatches, selections and harvests
\* overlap and whatever fails; and the commit holds that tree, or what
\* commitHarvestRef falls back to when it is no object or git fails.
THEOREM HarvestsAreAttested == Spec => []HarvestedTreeIsAttested
  <1>1. ASSUME ArmsInv, AcceptanceInv  PROVE HarvestedTreeIsAttested
    <2>1. NoArm \notin DOMAIN arms /\ CommitsInv
      BY <1>1, NoArmIsNone DEF AcceptanceInv
    <2>2. QED
      BY <2>1 DEF CommitsInv, CommitOK, IsFound, Attested, HarvestedTreeIsAttested
  <1>2. QED
    BY <1>1, ArmsHold, AcceptanceHolds, PTL

\* Without a winner it is the output of the last phase that ended well, unless
\* something was lost, erased, on its way or overtaken.
THEOREM LatestTreesAreHarvested == Spec => []LatestTreeIsHarvested
  <1>1. AcceptanceInv => LatestTreeIsHarvested
    BY DEF AcceptanceInv, CommitsInv, CommitOK, IsFound, LatestTreeIsHarvested
  <1>2. QED
    BY <1>1, AcceptanceHolds, PTL
=============================================================================
