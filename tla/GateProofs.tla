----------------------------- MODULE GateProofs -----------------------------
(***************************************************************************)
(* The gates of a phase are exact, for whatever paths, patterns, digests   *)
(* and phases; every variable of Delivery has its type; and the arbitrator *)
(* recommends what its strategies say, for any arms and metrics.           *)
(***************************************************************************)
EXTENDS HarvestProofs

-----------------------------------------------------------------------------
(* Paths and patterns *)

LEMMA OneIsAPiece ==
  ASSUME NEW path \in Seq(STRING), NEW i \in 1..Len(path)
  PROVE  SubSeq(path, i, i) = <<path[i]>> /\ SubSeq(path, i, i) \in Pieces(path)
  <1>1. Len(path) \in Nat
    OBVIOUS
  <1>2. SubSeq(path, i, i) = <<path[i]>>
    <2> DEFINE s == SubSeq(path, i, i)
    <2>1. path[i] \in STRING /\ i \in Int /\ i..i = {i} /\ (i - i) + 1 = 1 /\ (i + 1) - 1 = i
      BY <1>1
    <2>2. s \in Seq(STRING) /\ Len(s) = 1 /\ s[1] = path[i]
      BY <2>1, SubSeqProperties
    <2> HIDE DEF s
    <2>3. <<path[i]>> \in Seq(STRING)
      BY <2>1
    <2>4. s = <<path[i]>>
      BY <2>2, <2>3, SeqEqual
    <2>5. QED
      BY <2>4 DEF s
  <1>3. i \in 1..(Len(path) + 1) /\ i \in 0..Len(path)
    BY <1>1
  <1>4. QED
    BY <1>2, <1>3 DEF Pieces

\* Every path is matched by itself.
LEMMA LiteralsMatch ==
  ASSUME NEW path \in Seq(STRING)
  PROVE  IsGlobMatch(path, path)
  <1> DEFINE fits == [i \in 1..Len(path) |-> {piece \in Pieces(path) :
               \/ path[i] = "**"
               \/ path[i] = "*" /\ "/" \notin Tokens(piece)
               \/ path[i] \notin Stars /\ piece = <<path[i]>>}]
             cut == [i \in 0..Len(path) |-> i]
  <1>1. Len(path) \in Nat
    OBVIOUS
  <1>2. cut \in [0..Len(path) -> 0..Len(path)] /\ cut[0] = 0 /\ cut[Len(path)] = Len(path)
    BY <1>1
  <1>3. ASSUME NEW i \in 1..Len(path)
        PROVE  /\ cut[i-1] <= cut[i]
               /\ SubSeq(path, cut[i-1] + 1, cut[i]) \in fits[i]
    <2>1. i - 1 \in 0..Len(path) /\ i \in 0..Len(path) /\ i - 1 <= i /\ (i - 1) + 1 = i
      BY <1>1
    <2>2. cut[i-1] = i - 1 /\ cut[i] = i
      BY <2>1
    <2> HIDE DEF cut
    <2> DEFINE one == <<path[i]>>
    <2>3. SubSeq(path, cut[i-1] + 1, cut[i]) = one /\ one \in Pieces(path)
      BY <2>1, <2>2, OneIsAPiece
    <2>4. Tokens(one) = {path[i]}
      <3>1. Len(one) = 1 /\ one[1] = path[i]
        OBVIOUS
      <3> HIDE DEF one
      <3>2. 1..Len(one) = {1}
        BY <3>1
      <3>3. QED
        BY <3>1, <3>2 DEF Tokens
    <2>5. \/ path[i] = "**"
          \/ path[i] = "*" /\ "/" \notin Tokens(one)
          \/ path[i] \notin Stars
      BY <2>4 DEF Stars
    <2>6. one \in fits[i]
      BY <2>3, <2>5
    <2>7. QED
      BY <2>1, <2>2, <2>3, <2>6
  <1>4. Covers(path, path, fits)
    <2> HIDE DEF fits
    <2>1. /\ cut[0] = 0 /\ cut[Len(path)] = Len(path)
          /\ \A i \in 1..Len(path) :
               /\ cut[i-1] <= cut[i]
               /\ SubSeq(path, cut[i-1] + 1, cut[i]) \in fits[i]
      BY <1>2, <1>3
    <2> HIDE DEF cut
    <2>2. QED
      BY <1>2, <2>1 DEF Covers
  <1>5. QED
    BY <1>4 DEF IsGlobMatch

\* The regular expression says what the documentation does, unless a star
\* follows a dot.
LEMMA RegexIsGlob ==
  ASSUME NEW path, NEW pattern \in Seq(STRING),
         \A i \in 1..Len(pattern) : ~Quantifier(pattern, i)
  PROVE  IsRegexMatch(path, pattern) <=> IsGlobMatch(path, pattern)
  <1> DEFINE Glob(i) == {piece \in Pieces(path) :
               \/ pattern[i] = "**"
               \/ pattern[i] = "*" /\ "/" \notin Tokens(piece)
               \/ pattern[i] \notin Stars /\ piece = <<pattern[i]>>}
             Regex(i) == {piece \in Pieces(path) :
               IF Quantified(pattern, i) THEN Tokens(piece) \subseteq {"."}
               ELSE IF Quantifier(pattern, i) THEN piece = << >>
               ELSE \/ pattern[i] = "**"
                    \/ pattern[i] = "*" /\ "/" \notin Tokens(piece)
                    \/ pattern[i] \notin Stars /\ piece = <<pattern[i]>>}
  <1>1. ASSUME NEW i \in 1..Len(pattern)  PROVE ~Quantified(pattern, i)
    <2>1. SUFFICES ASSUME Quantified(pattern, i)  PROVE FALSE
      OBVIOUS
    <2>2. /\ i + 1 \in 1..Len(pattern) /\ i + 1 > 1 /\ (i + 1) - 1 = i
          /\ pattern[i] = "." /\ pattern[i+1] = "*"
      BY <2>1 DEF Quantified
    <2>3. Quantifier(pattern, i + 1)
      BY <2>2 DEF Quantifier
    <2>4. QED
      BY <2>2, <2>3
  <1>2. \A i \in 1..Len(pattern) : Regex(i) = Glob(i)
    BY <1>1
  <1>3. /\ IsRegexMatch(path, pattern) =
             Covers(path, pattern, [i \in 1..Len(pattern) |-> Regex(i)])
        /\ IsGlobMatch(path, pattern) =
             Covers(path, pattern, [i \in 1..Len(pattern) |-> Glob(i)])
    BY Zenon DEF IsRegexMatch, IsGlobMatch
  <1> HIDE DEF Glob, Regex
  <1>4. [i \in 1..Len(pattern) |-> Regex(i)] = [i \in 1..Len(pattern) |-> Glob(i)]
    BY <1>2
  <1>5. QED
    BY <1>3, <1>4

LEMMA MatchesAsTheySay ==
  ASSUME NEW path \in Seq(STRING), NEW pattern \in Seq(STRING),
         \A i \in 1..Len(pattern) : ~Quantifier(pattern, i)
  PROVE  matchesPathPattern(path, pattern) <=> MatchesAsDocumented(path, pattern)
  BY LiteralsMatch, RegexIsGlob DEF matchesPathPattern, MatchesAsDocumented

\* The gate lets pass what the patterns allow.
LEMMA GateIsLawful ==
  ASSUME NEW files \in SUBSET Seq(STRING), NEW body, ~IsMisread(body),
         body.allowed \cup body.immutable \subseteq Seq(STRING)
  PROVE  reconcileTreeEffects(files, files, body.allowed, body.immutable)
           <=> IsLawful(files, body)
  <1>1. \A f \in files, p \in body.allowed \cup body.immutable :
          matchesPathPattern(f, p) <=> MatchesAsDocumented(f, p)
    BY MatchesAsTheySay DEF IsMisread
  <1>2. QED
    BY <1>1 DEF reconcileTreeEffects, IsLawful

-----------------------------------------------------------------------------
(* The dispatches *)

\* What the preflight lets pass.
IsChecked(body) ==
  /\ body.content # "forbidden"
  /\ body.content \in {"none", body.digest} \/ HasDigest
  /\ HasDigest => body.content \in {"none", "admitted"}
  /\ HasDigest /\ body.content = "none" => body.digest \in {"none", "admitted"}

LEMMA PreflightChecks ==
  ASSUME NEW body, body.content # "zeros", verifyPhasePreflight(body)
  PROVE  IsChecked(body)
  BY DEF verifyPhasePreflight, ExpectedDigest, IsChecked

\* A dispatch that gets on passed its preflight, and its gate if it ended well.
Proceeds(w) ==
  \/ w.pc \in {"envelope", "supervise", "reconcile", "propagate", "done"}
  \/ w.pc \in {"teardown", "outputs"} /\ w.ok

WorkSteps ==
  {"idle", "provision", "envelope", "supervise", "reconcile", "teardown", "outputs",
   "propagate", "done", "failed"}

GateOK(d, w) ==
  /\ DOMAIN w = WorkFields
  /\ w.pc \in WorkSteps /\ w.ok \in BOOLEAN /\ w.verdict \in {"none", "passed", "refused"}
  /\ w.pc # "idle" => w.body \in BodiesOf[d]
  /\ w.files \in {{}} \cup ChangesOf[d]
  /\ Proceeds(w) => IsChecked(w.body)
  /\ w.pc \in {"envelope", "supervise", "reconcile"} => w.verdict = "none"
  /\ \/ w.pc \in {"teardown", "outputs"} /\ w.ok
     \/ w.pc = "propagate"
     => w.verdict = "passed"
  /\ w.verdict # "none" /\ ~IsMisread(w.body) =>
       (w.verdict = "passed" <=> IsLawful(w.files, w.body))

GateInv == DOMAIN work = Dispatches /\ \A d \in Dispatches : GateOK(d, work[d])

LEMMA GateStays ==
  ASSUME UNCHANGED workload, NEW d, NEW w
  PROVE  GateOK(d, w)' <=> GateOK(d, w)
  BY DEF GateOK, IsChecked, HasDigest

LEMMA OneGates ==
  ASSUME GateInv, UNCHANGED workload, NEW d \in Dispatches, NEW w, Set(d, w), GateOK(d, w)
  PROVE  GateInv'
  <1>1. /\ DOMAIN work' = Dispatches /\ work'[d] = w
        /\ \A c \in Dispatches : c # d => work'[c] = work[c]
    BY DEF Set, GateInv
  <1>2. SUFFICES ASSUME NEW c \in Dispatches  PROVE GateOK(c, work[c])'
    BY <1>1 DEF GateInv
  <1>3. PICK v : v = work'[c]
    OBVIOUS
  <1>4. GateOK(c, v)
    BY <1>1, <1>3 DEF GateInv
  <1>5. GateOK(c, v)'
    BY <1>4, GateStays
  <1>6. QED
    BY <1>3, <1>5 DEF GateOK

\* A step to a place where nothing is asked of a phase that failed.
LEMMA GateEnds ==
  ASSUME NEW d, NEW w, GateOK(d, w), w.pc # "idle", NEW pc, NEW ok \in BOOLEAN,
         pc = "failed" \/ (pc = "teardown" /\ ~ok)
  PROVE  /\ pc = "failed" => GateOK(d, [w EXCEPT !.pc = pc])
         /\ GateOK(d, [w EXCEPT !.ok = ok, !.pc = pc])
  <1> DEFINE m == [w EXCEPT !.pc = pc]
             n == [w EXCEPT !.ok = ok, !.pc = pc]
  <1>1. DOMAIN w = WorkFields
    BY DEF GateOK
  <1>2. /\ DOMAIN m = WorkFields /\ m.pc = pc /\ m.body = w.body /\ m.files = w.files
        /\ m.verdict = w.verdict /\ m.ok = w.ok
        /\ DOMAIN n = WorkFields /\ n.pc = pc /\ n.body = w.body /\ n.files = w.files
        /\ n.verdict = w.verdict /\ n.ok = ok
    BY <1>1 DEF WorkFields
  <1> HIDE DEF m, n
  <1>3. pc = "failed" => GateOK(d, m)
    BY <1>2 DEF GateOK, Proceeds, WorkSteps
  <1>4. GateOK(d, n)
    BY <1>2 DEF GateOK, Proceeds, WorkSteps
  <1>5. QED
    BY <1>3, <1>4 DEF m, n

LEMMA CatchGates ==
  ASSUME GateInv, UNCHANGED workload, NEW d \in Dispatches, Catch(d), work[d].pc # "idle"
  PROVE  GateInv'
  <1> DEFINE pc == IF work[d].row.phase = "created" THEN "failed" ELSE "teardown"
             w == [work[d] EXCEPT !.ok = FALSE, !.pc = pc]
  <1>1. Set(d, w)
    BY DEF Catch
  <1>2. pc = "failed" \/ (pc = "teardown" /\ ~FALSE)
    OBVIOUS
  <1> HIDE DEF pc
  <1>3. GateOK(d, work[d])
    BY DEF GateInv
  <1>4. GateOK(d, w)
    BY <1>2, <1>3, GateEnds
  <1> HIDE DEF w
  <1>5. QED
    BY <1>1, <1>4, OneGates

LEMMA FailureGates ==
  ASSUME GateInv, UNCHANGED workload, NEW d \in Dispatches, Goto(d, "failed"),
         work[d].pc # "idle"
  PROVE  GateInv'
  <1> DEFINE w == [work[d] EXCEPT !.pc = "failed"]
  <1>1. Set(d, w)
    BY DEF Goto
  <1>2. GateOK(d, work[d])
    BY DEF GateInv
  <1>3. GateOK(d, w)
    BY <1>2, GateEnds
  <1> HIDE DEF w
  <1>4. QED
    BY <1>1, <1>3, OneGates

\* A dispatch begins with nothing passed.
LEMMA BeginningGates ==
  ASSUME NEW d, NEW plan, NEW row, NEW body \in BodiesOf[d]
  PROVE  GateOK(d, [NoWork EXCEPT !.pc = "provision", !.left = plan, !.row = row,
                                  !.body = body])
  <1> DEFINE w == [NoWork EXCEPT !.pc = "provision", !.left = plan, !.row = row,
                                 !.body = body]
  <1>1. /\ DOMAIN w = WorkFields /\ w.pc = "provision" /\ w.body = body
        /\ w.files = {} /\ w.verdict = "none" /\ w.ok = FALSE
    BY DEF NoWork, WorkFields
  <1> HIDE DEF w
  <1>2. GateOK(d, w)
    BY <1>1 DEF GateOK, Proceeds, WorkSteps
  <1>3. QED
    BY <1>2 DEF w

LEMMA ProvisionGates ==
  ASSUME GateInv, UNCHANGED workload, NEW d \in Dispatches, Provision(d)
  PROVE  GateInv'
  <1>1. GateOK(d, work[d]) /\ work[d].pc = "provision"
    BY DEF Provision, GateInv
  <1>2. CASE Abandon(d)
    BY <1>1, <1>2, CatchGates DEF Abandon
  <1>3. CASE ~Abandon(d)
    <2> DEFINE w == [work[d] EXCEPT !.pc = "envelope", !.row = run', !.verdict = "none"]
    <2>1. Set(d, w) /\ verifyPhasePreflight(work[d].body)
      BY <1>3, Zenon DEF Provision
    <2>2. IsChecked(work[d].body)
      BY <1>1, <2>1, PreflightChecks, GatesAssumption DEF GateOK
    <2>3. /\ DOMAIN w = WorkFields /\ w.pc = "envelope" /\ w.body = work[d].body
          /\ w.files = work[d].files /\ w.verdict = "none" /\ w.ok = work[d].ok
      BY <1>1 DEF GateOK, WorkFields
    <2> HIDE DEF w
    <2>4. GateOK(d, w)
      BY <1>1, <2>2, <2>3 DEF GateOK, WorkSteps
    <2>5. QED
      BY <2>1, <2>4, OneGates
  <1>4. QED
    BY <1>2, <1>3

LEMMA EnvelopeGates ==
  ASSUME GateInv, UNCHANGED workload, NEW d \in Dispatches, RecordEnvelope(d)
  PROVE  GateInv'
  <1>1. GateOK(d, work[d]) /\ work[d].pc = "envelope"
    BY DEF RecordEnvelope, GateInv
  <1>2. CASE Catch(d)
    BY <1>1, <1>2, CatchGates
  <1>3. CASE Goto(d, "supervise")
    <2> DEFINE w == [work[d] EXCEPT !.pc = "supervise"]
    <2>1. Set(d, w)
      BY <1>3 DEF Goto
    <2>2. /\ DOMAIN w = WorkFields /\ w.pc = "supervise" /\ w.body = work[d].body
          /\ w.files = work[d].files /\ w.verdict = work[d].verdict
          /\ w.ok = work[d].ok
      BY <1>1 DEF GateOK, WorkFields
    <2> HIDE DEF w
    <2>3. GateOK(d, w)
      BY <1>1, <2>2 DEF GateOK, Proceeds, WorkSteps
    <2>4. QED
      BY <2>1, <2>3, OneGates
  <1>4. QED
    BY <1>2, <1>3, Zenon DEF RecordEnvelope

LEMMA SupervisionGates ==
  ASSUME GateInv, UNCHANGED workload, NEW d \in Dispatches, Supervise(d)
  PROVE  GateInv'
  <1>1. GateOK(d, work[d]) /\ work[d].pc = "supervise"
    BY DEF Supervise, GateInv
  <1>2. CASE Catch(d)
    BY <1>1, <1>2, CatchGates
  <1>3. CASE ~Catch(d)
    <2>1. PICK files \in ChangesOf[d] :
            Set(d, [work[d] EXCEPT !.pc = "reconcile", !.files = files])
      BY <1>3 DEF Supervise
    <2> DEFINE w == [work[d] EXCEPT !.pc = "reconcile", !.files = files]
    <2>2. Set(d, w)
      BY <2>1
    <2>3. /\ DOMAIN w = WorkFields /\ w.pc = "reconcile" /\ w.body = work[d].body
          /\ w.files = files /\ w.verdict = work[d].verdict /\ w.ok = work[d].ok
      BY <1>1 DEF GateOK, WorkFields
    <2> HIDE DEF w
    <2>4. GateOK(d, w)
      BY <1>1, <2>3 DEF GateOK, Proceeds, WorkSteps
    <2>5. QED
      BY <2>2, <2>4, OneGates
  <1>4. QED
    BY <1>2, <1>3

LEMMA ReconciliationGates ==
  ASSUME GateInv, UNCHANGED workload, NEW d \in Dispatches, Reconcile(d)
  PROVE  GateInv'
  <1> DEFINE v == work[d]
             passes == reconcileTreeEffects(v.files, v.files, v.body.allowed,
                                            v.body.immutable)
             tree == OutputTree(v.parent, Phase1(d), v.files)
             m == [v EXCEPT !.pc = "teardown", !.ok = TRUE, !.verdict = "passed",
                            !.tree = tree]
             n == [v EXCEPT !.pc = "teardown", !.ok = FALSE, !.verdict = "refused"]
  <1>1. GateOK(d, v) /\ v.pc = "reconcile"
    BY DEF Reconcile, GateInv
  <1>2. IF passes THEN Set(d, m) ELSE Set(d, n)
    BY Zenon DEF Reconcile
  <1>3. /\ DOMAIN m = WorkFields /\ m.pc = "teardown" /\ m.body = v.body
        /\ m.files = v.files /\ m.verdict = "passed" /\ m.ok = TRUE
        /\ DOMAIN n = WorkFields /\ n.pc = "teardown" /\ n.body = v.body
        /\ n.files = v.files /\ n.verdict = "refused" /\ n.ok = FALSE
    BY <1>1 DEF GateOK, WorkFields
  <1>4. v.files \in SUBSET Seq(STRING) /\ v.body \in BodiesOf[d]
        /\ v.body.allowed \cup v.body.immutable \subseteq Seq(STRING)
    BY <1>1, GatesAssumption DEF GateOK
  <1>5. ~IsMisread(v.body) => (passes <=> IsLawful(v.files, v.body))
    BY <1>4, GateIsLawful
  <1> HIDE DEF m, n, passes, v
  <1>6. passes => GateOK(d, m)
    BY <1>1, <1>3, <1>4, <1>5 DEF GateOK, Proceeds, WorkSteps
  <1>7. ~passes => GateOK(d, n)
    BY <1>1, <1>3, <1>4, <1>5 DEF GateOK, Proceeds, WorkSteps
  <1>8. CASE passes
    BY <1>2, <1>6, <1>8, OneGates
  <1>9. CASE ~passes
    BY <1>2, <1>7, <1>9, OneGates
  <1>10. QED
    BY <1>8, <1>9

LEMMA TeardownGates ==
  ASSUME GateInv, UNCHANGED workload, NEW d \in Dispatches, Teardown(d)
  PROVE  GateInv'
  <1>1. GateOK(d, work[d]) /\ work[d].pc = "teardown"
    BY DEF Teardown, GateInv
  <1>2. CASE Catch(d)
    BY <1>1, <1>2, CatchGates
  <1>3. CASE Goto(d, "failed")
    BY <1>1, <1>3, FailureGates
  <1>4. CASE ~Catch(d) /\ ~Goto(d, "failed")
    <2> DEFINE w == [work[d] EXCEPT !.pc = "outputs", !.row = run']
    <2>1. Set(d, w)
      BY <1>4, Zenon DEF Teardown
    <2>2. /\ DOMAIN w = WorkFields /\ w.pc = "outputs" /\ w.body = work[d].body
          /\ w.files = work[d].files /\ w.verdict = work[d].verdict
          /\ w.ok = work[d].ok
      BY <1>1 DEF GateOK, WorkFields
    <2> HIDE DEF w
    <2>3. GateOK(d, w)
      BY <1>1, <2>2 DEF GateOK, Proceeds, WorkSteps
    <2>4. QED
      BY <2>1, <2>3, OneGates
  <1>5. QED
    BY <1>2, <1>3, <1>4

LEMMA OutputsGate ==
  ASSUME GateInv, UNCHANGED workload, NEW d \in Dispatches, RecordOutputs(d)
  PROVE  GateInv'
  <1> DEFINE pc == IF ~IsGood(work[d]) THEN "failed"
                   ELSE IF IsLastPhase(d) THEN "done" ELSE "propagate"
             w == [work[d] EXCEPT !.pc = pc]
  <1>1. GateOK(d, work[d]) /\ work[d].pc = "outputs"
    BY DEF RecordOutputs, GateInv
  <1>2. Set(d, w)
    BY Zenon DEF RecordOutputs, Goto
  <1>3. pc = "failed" \/ (pc \in {"done", "propagate"} /\ work[d].ok)
    BY DEF IsGood
  <1>4. /\ DOMAIN w = WorkFields /\ w.pc = pc /\ w.body = work[d].body
        /\ w.files = work[d].files /\ w.verdict = work[d].verdict
        /\ w.ok = work[d].ok
    BY <1>1 DEF GateOK, WorkFields
  <1> HIDE DEF w, pc
  <1>5. GateOK(d, w)
    BY <1>1, <1>3, <1>4 DEF GateOK, Proceeds, WorkSteps
  <1>6. QED
    BY <1>2, <1>5, OneGates

LEMMA PropagationGates ==
  ASSUME GateInv, UNCHANGED workload, NEW d \in Dispatches, Propagate(d)
  PROVE  GateInv'
  <1>1. GateOK(d, work[d]) /\ work[d].pc = "propagate"
    BY DEF Propagate, GateInv
  <1>2. CASE Goto(d, "failed")
    BY <1>1, <1>2, FailureGates
  <1>3. CASE ~Goto(d, "failed")
    <2> DEFINE w == [work[d] EXCEPT !.pc = "provision", !.left = Tail(@),
                                    !.parent = work[d].tree, !.row = run, !.files = {}]
    <2>1. Set(d, w)
      BY <1>3, Zenon DEF Propagate
    <2>2. /\ DOMAIN w = WorkFields /\ w.pc = "provision" /\ w.body = work[d].body
          /\ w.files = {} /\ w.verdict = work[d].verdict /\ w.ok = work[d].ok
      BY <1>1 DEF GateOK, WorkFields
    <2> HIDE DEF w
    <2>3. /\ work[d].verdict = "passed" /\ work[d].body \in BodiesOf[d]
          /\ work[d].ok \in BOOLEAN
      BY <1>1 DEF GateOK
    <2>4. GateOK(d, w)
      BY <2>2, <2>3 DEF GateOK, Proceeds, WorkSteps, IsLawful
    <2>5. QED
      BY <2>1, <2>4, OneGates
  <1>4. QED
    BY <1>2, <1>3

LEMMA SequenceGates ==
  ASSUME GateInv, UNCHANGED workload, SequenceNext
  PROVE  GateInv'
  <1>1. ASSUME NEW d \in Dispatches, NEW plan \in PlansOf[d], NEW body \in BodiesOf[d],
               Dispatch(d, plan, body)
        PROVE  GateInv'
    <2> DEFINE w == [NoWork EXCEPT !.pc = "provision", !.left = plan, !.row = run,
                                   !.body = body]
    <2>1. Set(d, w)
      BY <1>1 DEF Dispatch
    <2>2. GateOK(d, w)
      BY BeginningGates
    <2> HIDE DEF w
    <2>3. QED
      BY <2>1, <2>2, OneGates
  <1>2. ASSUME NEW d \in Dispatches, ExecuteRun(d)  PROVE GateInv'
    BY <1>2, ProvisionGates, EnvelopeGates, SupervisionGates, ReconciliationGates,
       TeardownGates, OutputsGate, PropagationGates DEF ExecuteRun
  <1>3. QED
    BY <1>1, <1>2 DEF SequenceNext

LEMMA LiveRunsGate ==
  ASSUME GateInv, UNCHANGED workload, LiveNext
  PROVE  GateInv'
  <1>1. CASE UNCHANGED work
    BY <1>1, GateStays DEF GateInv
  <1>2. ASSUME NEW l \in LiveRuns, NEW plan \in PlansOf[l], NEW body \in BodiesOf[l],
               LaunchLiveRun(l, plan, body), ~UNCHANGED work
        PROVE  GateInv'
    <2> DEFINE w == [NoWork EXCEPT !.pc = "provision", !.left = plan, !.row = Created,
                                   !.body = body]
    <2>1. Set(l, w) /\ l \in Dispatches
      BY <1>2, LiveRunsAssumption DEF LaunchLiveRun, Set
    <2>2. GateOK(l, w)
      BY BeginningGates
    <2> HIDE DEF w
    <2>3. QED
      BY <2>1, <2>2, OneGates
  <1>3. QED
    BY <1>1, <1>2 DEF LiveNext, AdmitIssue, HarvestLiveRun

LEMMA GatesHold == Spec => []GateInv
  <1>1. Init => GateInv
    <2>1. \A d \in Dispatches : GateOK(d, NoWork)
      BY DEF GateOK, NoWork, WorkFields, Proceeds, WorkSteps
    <2>2. QED
      BY <2>1 DEF Init, SequenceInit, GateInv
  <1>2. ASSUME GateInv, [Next]_vars  PROVE GateInv'
    <2>1. UNCHANGED workload
      BY <1>2 DEF Next, vars
    <2>2. CASE SequenceNext
      BY <1>2, <2>1, <2>2, SequenceGates
    <2>3. CASE LiveNext
      BY <1>2, <2>1, <2>3, LiveRunsGate
    <2>4. CASE UNCHANGED work
      BY <1>2, <2>1, <2>4, GateStays DEF GateInv
    <2>5. QED
      BY <1>2, <2>2, <2>3, <2>4 DEF Next, vars, sequenceVars
  <1>3. QED
    BY <1>1, <1>2, PTL DEF Spec

\* A sandbox is provisioned only for the AGENTS.md that is expected, and the
\* gate passes exactly the changes that the patterns allow as they are
\* documented, unless a star follows a dot: for all paths, patterns and
\* digests, and for any number of phases and dispatches.
THEOREM GatesRemainExact == Spec => []GatesAreExact
  <1>1. GateInv => GatesAreExact
    BY DEF GateInv, GateOK, Proceeds, IsChecked, GatesAreExact
  <1>2. QED
    BY <1>1, GatesHold, PTL

-----------------------------------------------------------------------------
(* The types of the tournament *)

SelectionSteps == {"idle", "rank", "check", "list", "mark", "record", "done", "failed"}

SelectionOK(l) ==
  /\ l.pc \in SelectionSteps
  /\ l.pc \in {"list", "mark", "record", "done"} => l.arm \in DOMAIN arms
  /\ l.left \subseteq DOMAIN arms
  /\ l.alone \in BOOLEAN

ArmTypes ==
  /\ \A a \in DOMAIN arms : arms[a].selection \in ArmStates
  /\ \A s \in Selections : SelectionOK(selection[s])
  /\ disturbed \in BOOLEAN

LEMMA OneSelectionIsTyped ==
  ASSUME ArmsInv, ArmTypes, NEW s \in Selections, NEW l, Move(s, l), SelectionOK(l),
         UNCHANGED arms, disturbed' \in BOOLEAN
  PROVE  ArmTypes'
  <1>1. /\ selection'[s] = l
        /\ \A t \in Selections : t # s => selection'[t] = selection[t]
    BY DEF Move, ArmsInv
  <1>2. \A t \in Selections : SelectionOK(selection[t])'
    BY <1>1 DEF ArmTypes, SelectionOK
  <1>3. QED
    BY <1>2 DEF ArmTypes

\* A step to another place, where an arm is known if it asks for one.
LEMMA SelectionMovesTyped ==
  ASSUME ArmsInv, ArmTypes, NEW s \in Selections, NEW pc \in SelectionSteps, MoveTo(s, pc),
         pc \in {"list", "mark", "record", "done"} => selection[s].arm \in DOMAIN arms,
         UNCHANGED arms, disturbed' \in BOOLEAN
  PROVE  ArmTypes'
  <1> DEFINE l == [selection[s] EXCEPT !.pc = pc]
  <1>1. DOMAIN selection[s] = SelectionFields /\ SelectionOK(selection[s])
    BY DEF ArmsInv, ArmTypes
  <1>2. l.pc = pc /\ l.arm = selection[s].arm /\ l.left = selection[s].left
        /\ l.alone = selection[s].alone
    BY <1>1 DEF SelectionFields
  <1>3. Move(s, l)
    BY DEF MoveTo
  <1> HIDE DEF l
  <1>4. SelectionOK(l)
    BY <1>1, <1>2 DEF SelectionOK
  <1>5. QED
    BY <1>3, <1>4, OneSelectionIsTyped

\* Arms get more, and their marks change; no selection but one does more than
\* lose its solitude.
LEMMA SelectionsStayTyped ==
  ASSUME ArmTypes, DOMAIN arms \subseteq DOMAIN arms',
         \A a \in DOMAIN arms' : arms'[a].selection \in ArmStates,
         NEW l, SelectionOK(l),
         NEW m, m.pc = l.pc, m.arm = l.arm, m.left = l.left, m.alone \in BOOLEAN
  PROVE  SelectionOK(m)'
  BY DEF SelectionOK

\* A selection that loses its solitude.
LEMMA SolitudeIsLost ==
  ASSUME NEW l, DOMAIN l = SelectionFields, NEW t,
         NEW m, m = [l EXCEPT !.alone = @ /\ t \notin Marking]
  PROVE  m.pc = l.pc /\ m.arm = l.arm /\ m.left = l.left /\ m.alone \in BOOLEAN
  <1> DEFINE x == l.alone /\ t \notin Marking
  <1>1. x \in BOOLEAN
    OBVIOUS
  <1>2. m = [l EXCEPT !.alone = x]
    OBVIOUS
  <1> HIDE DEF x
  <1>3. m.alone = x /\ m.pc = l.pc /\ m.arm = l.arm /\ m.left = l.left
    BY <1>2 DEF SelectionFields
  <1>4. QED
    BY <1>1, <1>3

LEMMA RegistrationIsTyped ==
  ASSUME ArmsInv, ArmTypes, NEW a \in ArmIds, NEW arm \in ArmsOf[a], RegisterArm(a, arm)
  PROVE  ArmTypes'
  <1>1. /\ a \notin DOMAIN arms
        /\ arms' = [b \in DOMAIN arms \cup {a} |-> IF b = a THEN arm ELSE arms[b]]
    BY DEF RegisterArm
  <1>2. DOMAIN arms' = DOMAIN arms \cup {a}
    BY <1>1
  <1>3. \A b \in DOMAIN arms' : arms'[b].selection \in ArmStates
    BY <1>1, ArmsAssumption DEF ArmTypes
  <1>4. ASSUME NEW s \in Selections  PROVE SelectionOK(selection[s])'
    <2>1. SelectionOK(selection[s]) /\ DOMAIN selection[s] = SelectionFields
          /\ selection[s].alone \in BOOLEAN
      BY DEF ArmTypes, ArmsInv, SelectionOK
    <2>2. PICK m : m = selection'[s]
      OBVIOUS
    <2>3. \/ m = selection[s]
          \/ m = [selection[s] EXCEPT !.alone = @ /\ s \notin Marking]
      <3>1. CASE Disturb
        BY <2>2, <3>1 DEF Disturb
      <3>2. CASE UNCHANGED selection
        BY <2>2, <3>2
      <3>3. QED
        BY <3>1, <3>2 DEF RegisterArm
    <2>4. /\ m.pc = selection[s].pc /\ m.arm = selection[s].arm
          /\ m.left = selection[s].left /\ m.alone \in BOOLEAN
      BY <2>1, <2>3, SolitudeIsLost
    <2>5. PICK l : l = selection[s]
      OBVIOUS
    <2>6. SelectionOK(m)'
      BY <1>2, <1>3, <2>1, <2>4, <2>5, SelectionsStayTyped
    <2>7. QED
      BY <2>2, <2>6 DEF SelectionOK
  <1>5. disturbed' \in BOOLEAN
    BY DEF RegisterArm, Disturb, ArmTypes
  <1>6. QED
    BY <1>3, <1>4, <1>5 DEF ArmTypes

LEMMA SelectionStartsTyped ==
  ASSUME ArmsInv, ArmTypes, NEW s \in Selections,
         (\E a \in ArmIds \cup {AutoPareto} : RequestSelection(s, a))
           \/ RankArms(s) \/ CheckCandidate(s)
  PROVE  ArmTypes'
  <1>0. disturbed \in BOOLEAN /\ SelectionOK(selection[s])
        /\ DOMAIN selection[s] = SelectionFields
    BY DEF ArmTypes, ArmsInv
  <1>1. ASSUME NEW a, RequestSelection(s, a)  PROVE ArmTypes'
    <2> DEFINE pc == IF a = AutoPareto THEN "rank" ELSE "check"
               l == [NoSelection EXCEPT !.pc = pc, !.arm = a]
    <2>1. Move(s, l) /\ UNCHANGED <<arms, disturbed>>
      BY <1>1, Zenon DEF RequestSelection
    <2>2. l.pc = pc /\ l.left = {} /\ l.alone = TRUE
      BY DEF NoSelection
    <2>3. pc \in {"rank", "check"}
      OBVIOUS
    <2> HIDE DEF l, pc
    <2>4. SelectionOK(l)
      BY <2>2, <2>3 DEF SelectionOK, SelectionSteps
    <2>5. QED
      BY <1>0, <2>1, <2>4, OneSelectionIsTyped
  <1>2. CASE RankArms(s)
    <2>1. UNCHANGED <<arms, disturbed>>
      BY <1>2 DEF RankArms
    <2>2. CASE MoveTo(s, "failed")
      BY <1>0, <2>1, <2>2, SelectionMovesTyped DEF SelectionSteps
    <2>3. CASE ~MoveTo(s, "failed")
      <3>1. PICK best : Move(s, [selection[s] EXCEPT !.pc = "check", !.arm = best])
        BY <1>2, <2>3 DEF RankArms, Fails
      <3> DEFINE l == [selection[s] EXCEPT !.pc = "check", !.arm = best]
      <3>2. l.pc = "check" /\ l.left = selection[s].left /\ l.alone = selection[s].alone
        BY <1>0 DEF SelectionFields
      <3>3. Move(s, l)
        BY <3>1
      <3> HIDE DEF l
      <3>4. SelectionOK(l)
        BY <1>0, <3>2 DEF SelectionOK, SelectionSteps
      <3>5. QED
        BY <1>0, <2>1, <3>3, <3>4, OneSelectionIsTyped
    <2>4. QED
      BY <2>2, <2>3
  <1>3. CASE CheckCandidate(s)
    BY <1>0, <1>3, SelectionMovesTyped DEF CheckCandidate, Fails, SelectionSteps
  <1>4. QED
    BY <1>1, <1>2, <1>3

LEMMA ListingIsTyped ==
  ASSUME ArmsInv, ArmTypes, NEW s \in Selections, ListArms(s)
  PROVE  ArmTypes'
  <1>0. /\ disturbed \in BOOLEAN /\ SelectionOK(selection[s])
        /\ DOMAIN selection[s] = SelectionFields
        /\ UNCHANGED arms /\ selection[s].pc = "list"
    BY DEF ArmTypes, ArmsInv, ListArms, At
  <1> DEFINE l == [selection[s] EXCEPT !.pc = "mark", !.left = DOMAIN arms]
  <1>1. /\ l.pc = "mark" /\ l.left = DOMAIN arms /\ l.arm = selection[s].arm
        /\ l.alone = selection[s].alone /\ DOMAIN l = SelectionFields
    BY <1>0 DEF SelectionFields
  <1>2. CASE Fails(s)
    BY <1>0, <1>2, SelectionMovesTyped DEF Fails, ListArms, SelectionSteps
  <1>3. CASE Move(s, l) /\ UNCHANGED disturbed
    <2> HIDE DEF l
    <2>1. SelectionOK(l)
      BY <1>0, <1>1 DEF SelectionOK, SelectionSteps
    <2>2. QED
      BY <1>0, <1>3, <2>1, OneSelectionIsTyped
  <1>4. CASE /\ disturbed' = TRUE
             /\ selection' = [t \in Selections |->
                  IF t = s THEN [l EXCEPT !.alone = FALSE]
                  ELSE [selection[t] EXCEPT !.alone = @ /\ t \notin Marking]]
    <2> HIDE DEF l
    <2>1. ASSUME NEW t \in Selections  PROVE SelectionOK(selection[t])'
      <3>1. PICK m : m = selection'[t]
        OBVIOUS
      <3>2. CASE t = s
        <4>1. m = [l EXCEPT !.alone = FALSE]
          BY <1>4, <3>1, <3>2
        <4>2. m.pc = "mark" /\ m.left = DOMAIN arms /\ m.arm = selection[s].arm
              /\ m.alone = FALSE
          BY <1>1, <4>1 DEF SelectionFields
        <4>3. SelectionOK(m)'
          BY <1>0, <4>2 DEF SelectionOK, SelectionSteps
        <4>4. QED
          BY <3>1, <4>3 DEF SelectionOK
      <3>3. CASE t # s
        <4>1. m = [selection[t] EXCEPT !.alone = @ /\ t \notin Marking]
          BY <1>4, <3>1, <3>3
        <4>2. DOMAIN selection[t] = SelectionFields /\ SelectionOK(selection[t])
          BY DEF ArmsInv, ArmTypes
        <4>3. /\ m.pc = selection[t].pc /\ m.arm = selection[t].arm
              /\ m.left = selection[t].left /\ m.alone \in BOOLEAN
          BY <4>1, <4>2, SolitudeIsLost
        <4>4. SelectionOK(m)'
          BY <1>0, <4>2, <4>3 DEF SelectionOK
        <4>5. QED
          BY <3>1, <4>4 DEF SelectionOK
      <3>4. QED
        BY <3>2, <3>3
    <2>2. QED
      BY <1>0, <1>4, <2>1 DEF ArmTypes
  <1>5. QED
    BY <1>2, <1>3, <1>4, Zenon DEF ListArms

LEMMA MarkingIsTyped ==
  ASSUME ArmsInv, ArmTypes, NEW s \in Selections, MarkNext(s)
  PROVE  ArmTypes'
  <1> DEFINE a == Min(selection[s].left)
             rest == selection[s].left \ {a}
             pc == IF rest = {} THEN "record" ELSE "mark"
             m == [selection[s] EXCEPT !.left = rest, !.pc = pc]
             n == [selection[s] EXCEPT !.pc = "failed"]
             x == disturbed /\ ~(rest = {} /\ selection[s].alone)
  <1>0. /\ disturbed \in BOOLEAN /\ SelectionOK(selection[s])
        /\ DOMAIN selection[s] = SelectionFields /\ selection[s].pc = "mark"
    BY DEF ArmTypes, ArmsInv, MarkNext, At
  <1>1. \/ MarkArm(s, a) /\ Move(s, m) /\ disturbed' = x
        \/ /\ Move(s, n) /\ (UNCHANGED arms \/ MarkArm(s, a))
           /\ disturbed' = TRUE
    BY Zenon DEF MarkNext, Fails, MoveTo
  <1>2. x \in BOOLEAN /\ rest \subseteq selection[s].left /\ pc \in {"record", "mark"}
    OBVIOUS
  <1>3. /\ m.pc = pc /\ m.left = rest /\ m.arm = selection[s].arm
        /\ m.alone = selection[s].alone
        /\ n.pc = "failed" /\ n.left = selection[s].left /\ n.alone = selection[s].alone
    BY <1>0 DEF SelectionFields
  <1> HIDE DEF x, rest, pc, m, n
  <1>4. SelectionOK(m) /\ SelectionOK(n)
    BY <1>0, <1>2, <1>3 DEF SelectionOK, SelectionSteps
  <1>5. disturbed' \in BOOLEAN
    BY <1>1, <1>2
  <1>6. DOMAIN arms' = DOMAIN arms
    BY <1>1 DEF MarkArm
  <1>7. ASSUME NEW b \in DOMAIN arms'  PROVE arms'[b].selection \in ArmStates
    <2>1. CASE MarkArm(s, a)
      <3>1. DOMAIN arms[b] = ArmFields /\ arms[b].selection \in ArmStates
        BY <1>6, <1>7 DEF ArmsInv, ArmsAreWhole, ArmTypes
      <3> HIDE DEF a
      <3>2. PICK new \in ArmStates : arms' = [arms EXCEPT ![a].selection = new]
        BY <2>1 DEF MarkArm, ArmStates
      <3>3. QED
        BY <1>6, <3>1, <3>2 DEF ArmFields
    <2>2. CASE UNCHANGED arms
      BY <1>7, <2>2 DEF ArmTypes
    <2>3. QED
      BY <1>1, <2>1, <2>2
  <1>8. PICK l : Move(s, l) /\ SelectionOK(l)
    BY <1>1, <1>4
  <1>9. ASSUME NEW t \in Selections  PROVE SelectionOK(selection[t])'
    <2>1. SelectionOK(selection'[t])
      BY <1>8 DEF Move, ArmsInv, ArmTypes
    <2>2. PICK k : k = selection'[t]
      OBVIOUS
    <2>3. SelectionOK(k)'
      BY <1>6, <2>1, <2>2 DEF SelectionOK
    <2>4. QED
      BY <2>2, <2>3 DEF SelectionOK
  <1>10. QED
    BY <1>5, <1>7, <1>9 DEF ArmTypes

LEMMA TournamentIsTyped ==
  ASSUME ArmsInv, ArmTypes, TournamentNext
  PROVE  ArmTypes'
  <1>1. ASSUME NEW s \in Selections, RecordSelection(s)  PROVE ArmTypes'
    <2>1. selection[s].pc = "record" /\ selection[s].arm \in DOMAIN arms
          /\ disturbed' \in BOOLEAN /\ UNCHANGED arms
      BY <1>1 DEF RecordSelection, At, ArmTypes, SelectionOK
    <2>2. MoveTo(s, "done") \/ MoveTo(s, "failed")
      BY <1>1 DEF RecordSelection
    <2>3. QED
      BY <2>1, <2>2, SelectionMovesTyped DEF SelectionSteps
  <1>2. QED
    BY <1>1, RegistrationIsTyped, SelectionStartsTyped, ListingIsTyped, MarkingIsTyped
       DEF TournamentNext

-----------------------------------------------------------------------------
(* The types of the row, the envelopes, the harvests and the live runs *)

EnvelopeOK(e) == e.name \in PhaseNames /\ e.status \in {"open", "completed", "failed"}

RowTypes ==
  /\ run \in [phase : RunStates, version : 1..MaxVersion]
  /\ \A e \in 1..Len(envelopes) : EnvelopeOK(envelopes[e])
  /\ mishaps \subseteq {"lost", "repeated"}

LEMMA NextRowIsTyped ==
  ASSUME RowTypes, run.version < MaxVersion, NEW phase \in RunStates
  PROVE  To(phase) \in [phase : RunStates, version : 1..MaxVersion]
  <1>1. run.version \in 1..MaxVersion
    BY DEF RowTypes
  <1>2. run.version + 1 \in 1..MaxVersion
    BY <1>1, BoundsAssumption
  <1>3. QED
    BY <1>2 DEF To

LEMMA CreatedIsTyped == Created \in [phase : RunStates, version : 1..MaxVersion]
  BY BoundsAssumption DEF Created, RunStates

LEMMA EnvelopesAreTyped ==
  ASSUME EnvelopesInv, NEW d, WorkOK(work[d]), work[d].left # << >>,
         \A e \in 1..Len(envelopes) : EnvelopeOK(envelopes[e]),
         RecordEnvelope(d) \/ RecordOutputs(d)
  PROVE  \A e \in 1..Len(envelopes') : EnvelopeOK(envelopes[e])'
  <1>0. Head(work[d].left) \in PhaseNames /\ Len(envelopes) \in Nat
    BY SequenceLength DEF WorkOK, EnvelopesInv
  <1>1. CASE UNCHANGED envelopes
    BY <1>1
  <1>2. CASE Open(Phase1(d))
    <2>1. PICK new : new = [name |-> Phase1(d), status |-> "open", tree |-> NoTree]
      OBVIOUS
    <2>2. envelopes' = Append(envelopes, new) /\ new.name = Phase1(d) /\ new.status = "open"
      BY <1>2, <2>1 DEF Open
    <2>3. EnvelopeOK(new)
      BY <1>0, <2>2 DEF EnvelopeOK, Phase1
    <2>4. /\ Len(envelopes') = Len(envelopes) + 1 /\ envelopes'[Len(envelopes')] = new
          /\ \A i \in 1..Len(envelopes) : envelopes'[i] = envelopes[i]
      BY <2>2, AppendKeeps DEF EnvelopesInv
    <2>5. ASSUME NEW e \in 1..Len(envelopes')  PROVE EnvelopeOK(envelopes'[e])
      <3>1. e \in 1..Len(envelopes) \/ e = Len(envelopes')
        BY <1>0, <2>4
      <3>2. QED
        BY <2>3, <2>4, <3>1
    <2>6. QED
      BY <2>5 DEF EnvelopeOK
  <1>3. CASE envelopes' = Outputs(work[d])
    <2>1. Len(Outputs(work[d])) = Len(envelopes)
      BY OutputsAreWritten
    <2>2. ASSUME NEW e \in 1..Len(envelopes)  PROVE EnvelopeOK(Outputs(work[d])[e])
      BY <1>0, <2>2 DEF Outputs, EnvelopeOK
    <2>3. QED
      BY <1>3, <2>1, <2>2 DEF EnvelopeOK
  <1>4. QED
    BY <1>1, <1>2, <1>3 DEF RecordEnvelope, RecordOutputs

LEMMA RowIsTyped ==
  ASSUME SequenceInv, RowTypes, [Next]_vars
  PROVE  RowTypes'
  <1>0. WorkInv /\ EnvelopesInv
    BY DEF SequenceInv
  <1>1. CASE UNCHANGED <<run, envelopes, mishaps>>
    BY <1>1 DEF RowTypes, EnvelopeOK
  <1>2. ASSUME NEW d \in Dispatches, ExecuteRun(d)  PROVE RowTypes'
    <2>1. CASE Supervise(d) \/ Reconcile(d) \/ Propagate(d)
      BY <1>1, <2>1 DEF Supervise, Reconcile, Propagate, deliveryVars, UnchangedAux
    <2>2. CASE Provision(d)
      <3>1. UNCHANGED <<envelopes, mishaps>> /\ run.version < MaxVersion
        BY <2>2 DEF Provision, UnchangedAux
      <3>2. run' \in {run, To("in_progress"), To("quarantined")}
        BY <2>2 DEF Provision, Abandon
      <3>3. run' \in [phase : RunStates, version : 1..MaxVersion]
        BY <3>1, <3>2, NextRowIsTyped DEF RunStates, RowTypes
      <3>4. QED
        BY <3>1, <3>3 DEF RowTypes, EnvelopeOK
    <2>3. CASE Teardown(d)
      <3>1. UNCHANGED <<envelopes, mishaps>> /\ run.version < MaxVersion
        BY <2>3 DEF Teardown, ExceptRun
      <3>2. run' \in {run, To("clean_terminated"), To("quarantined")}
        BY <2>3 DEF Teardown
      <3>3. run' \in [phase : RunStates, version : 1..MaxVersion]
        BY <3>1, <3>2, NextRowIsTyped DEF RunStates, RowTypes
      <3>4. QED
        BY <3>1, <3>3 DEF RowTypes, EnvelopeOK
    <2>4. CASE RecordEnvelope(d) \/ RecordOutputs(d)
      <3>1. WorkOK(work[d]) /\ work[d].left # << >>
        BY <1>0, <2>4 DEF WorkInv, WorkOK, RecordEnvelope, RecordOutputs
      <3>2. UNCHANGED run /\ mishaps' \subseteq {"lost", "repeated"}
        BY <2>4 DEF RecordEnvelope, RecordOutputs, ExceptEnvelopes, UnchangedAux, RowTypes
      <3>3. \A e \in 1..Len(envelopes') : EnvelopeOK(envelopes[e])'
        BY <1>0, <2>4, <3>1, EnvelopesAreTyped DEF RowTypes
      <3>4. QED
        BY <3>2, <3>3 DEF RowTypes
    <2>5. QED
      BY <1>2, <2>1, <2>2, <2>3, <2>4 DEF ExecuteRun
  <1>3. CASE SequenceNext
    <2>1. ASSUME NEW d, NEW plan, NEW body, Dispatch(d, plan, body)
          PROVE  UNCHANGED <<run, envelopes, mishaps>>
      BY <2>1 DEF Dispatch, deliveryVars, UnchangedAux
    <2>2. QED
      BY <1>1, <1>2, <1>3, <2>1 DEF SequenceNext
  <1>4. CASE LiveNext
    <2>1. UNCHANGED <<envelopes, mishaps>> /\ run' \in {run, Created}
      BY <1>4 DEF LiveNext, AdmitIssue, LaunchLiveRun, HarvestLiveRun, ExceptRow
    <2>2. QED
      BY <2>1, CreatedIsTyped DEF RowTypes, EnvelopeOK
  <1>5. QED
    BY <1>1, <1>3, <1>4, OthersLeaveSequence DEF sequenceVars

HarvestArms == \A h \in Harvests : harvest[h].arm \in ArmIds \cup {NoArm}

\* A step of a harvest keeps its arm, drops it or takes a winner's.
LEMMA HarvestArmIsTyped ==
  ASSUME HarvestInv, ArmsInv, HarvestArms, NEW h \in Harvests, HarvestStep(h)
  PROVE  HarvestArms'
  <1>0. DOMAIN harvest[h] = HarvestFields
    BY DEF HarvestInv, HarvestOK
  <1>1. ASSUME NEW l, Be(h, l), l.arm \in ArmIds \cup {NoArm}
        PROVE  HarvestArms'
    BY <1>1 DEF Be, HarvestInv, HarvestArms
  <1>2. ASSUME NEW l, Be(h, l), l.arm = harvest[h].arm  PROVE HarvestArms'
    BY <1>1, <1>2 DEF HarvestArms
  <1>3. ASSUME NEW pc, Step(h, pc)  PROVE HarvestArms'
    <2> DEFINE l == [harvest[h] EXCEPT !.pc = pc]
    <2>1. Be(h, l) /\ l.arm = harvest[h].arm
      BY <1>0, <1>3 DEF Step, HarvestFields
    <2> HIDE DEF l
    <2>2. QED
      BY <1>2, <2>1
  <1>4. CASE RequestHarvest(h)
    <2> DEFINE l == [NoHarvest EXCEPT !.pc = "run", !.signed = harvest[h].signed]
    <2>1. Be(h, l) /\ l.arm = NoArm
      BY <1>4 DEF RequestHarvest, NoHarvest
    <2> HIDE DEF l
    <2>2. QED
      BY <1>1, <2>1
  <1>5. CASE ReadRun(h)
    <2> DEFINE pc == IF h \in LiveRuns THEN "envelopes" ELSE "arms"
               l == [harvest[h] EXCEPT !.row = run, !.pc = pc]
    <2>1. Be(h, l) \/ Step(h, "failed")
      BY <1>5, Zenon DEF ReadRun
    <2> HIDE DEF pc
    <2>2. l.arm = harvest[h].arm
      BY <1>0 DEF HarvestFields
    <2> HIDE DEF l
    <2>3. QED
      BY <1>2, <1>3, <2>1, <2>2
  <1>6. CASE ReadArms(h)
    <2> DEFINE a == IF Winners = {} THEN NoArm ELSE Min(Winners)
               t == IF a = NoArm THEN NoTree ELSE arms[a].tree
               m == [harvest[h] EXCEPT !.pc = "envelopes", !.arm = a, !.tree = t]
               n == [harvest[h] EXCEPT !.pc = "envelopes", !.blind = TRUE]
    <2>1. Be(h, m) \/ Be(h, n)
      BY <1>6, Zenon DEF ReadArms
    <2>2. a \in ArmIds \cup {NoArm}
      <3>1. Winners \subseteq ArmIds /\ Winners \in SUBSET Nat
        <4>1. DOMAIN ArmNames \subseteq Nat
          BY ArmsAssumption, SequenceNumbers
        <4>2. QED
          BY <4>1 DEF Winners, ArmsInv, ArmsAreWhole, ArmIds
      <3>2. Winners # {} => Min(Winners) \in Winners
        BY <3>1, MinIsMember
      <3>3. QED
        BY <3>1, <3>2
    <2> HIDE DEF a, t
    <2>3. m.arm = a /\ n.arm = harvest[h].arm
      BY <1>0 DEF HarvestFields
    <2> HIDE DEF m, n
    <2>4. QED
      BY <1>1, <1>2, <2>1, <2>2, <2>3
  <1>7. CASE ReadEnvelopes(h)
    <2>1. \E t, b : Proposed(h, t, b)
      BY <1>7, Zenon DEF ReadEnvelopes
    <2>2. QED
      BY <1>2, <2>1, ProposalHas
  <1>8. CASE CommitTree(h)
    <2>1. PICK real : Be(h, [harvest[h] EXCEPT !.pc = "record",
                               !.commit = Len(commits) + 1, !.real = real])
      BY <1>8, Zenon DEF CommitTree
    <2> DEFINE l == [harvest[h] EXCEPT !.pc = "record", !.commit = Len(commits) + 1,
                                       !.real = real]
    <2>2. Be(h, l) /\ l.arm = harvest[h].arm
      BY <1>0, <2>1 DEF HarvestFields
    <2> HIDE DEF l
    <2>3. QED
      BY <1>2, <2>2
  <1>9. CASE OpenPullRequest(h)
    <2>1. CASE Step(h, "report")
      BY <1>3, <2>1
    <2>2. ASSUME NEW n, Be(h, [harvest[h] EXCEPT !.pc = "report", !.pull = n])
          PROVE  HarvestArms'
      <3> DEFINE l == [harvest[h] EXCEPT !.pc = "report", !.pull = n]
      <3>1. Be(h, l) /\ l.arm = harvest[h].arm
        BY <1>0, <2>2 DEF HarvestFields
      <3> HIDE DEF l
      <3>2. QED
        BY <1>2, <3>1
    <2>3. QED
      BY <1>9, <2>1, <2>2 DEF OpenPullRequest
  <1>10. CASE \/ AuthorizeHarvest(h) \/ RecordCommit(h) \/ PushBranch(h)
              \/ RecordPullRequest(h)
    BY <1>3, <1>10, Zenon DEF AuthorizeHarvest, RecordCommit, PushBranch, RecordPullRequest
  <1>11. QED
    BY <1>4, <1>5, <1>6, <1>7, <1>8, <1>9, <1>10 DEF HarvestStep

LEMMA HarvestArmsAreTyped ==
  ASSUME HarvestInv, ArmsInv, HarvestArms, [Next]_vars
  PROVE  HarvestArms'
  <1>1. CASE HarvestNext
    BY <1>1, HarvestArmIsTyped DEF HarvestNext
  <1>2. CASE UNCHANGED harvest
    BY <1>2 DEF HarvestArms
  <1>3. ASSUME NEW l \in LiveRuns, HarvestLiveRun(l)  PROVE HarvestArms'
    <2>1. l \in Harvests /\ DOMAIN harvest[l] = HarvestFields
      BY DEF Harvests, HarvestInv, HarvestOK
    <2> DEFINE k == [harvest[l] EXCEPT !.pc = "run"]
    <2>2. k.arm = harvest[l].arm
      BY <2>1 DEF HarvestFields
    <2>3. harvest' = [harvest EXCEPT ![l] = k]
      BY <1>3 DEF HarvestLiveRun
    <2> HIDE DEF k
    <2>4. QED
      BY <2>1, <2>2, <2>3 DEF HarvestInv, HarvestArms
  <1>4. QED
    BY <1>1, <1>2, <1>3 DEF Next, vars, LiveNext, AdmitIssue, LaunchLiveRun

LiveSteps == {"idle", "launch", "dispatched", "harvesting", "failed"}

LiveTypes == live \in [LiveRuns -> LiveSteps]

LEMMA LiveIsTyped ==
  ASSUME LiveTypes, [Next]_vars
  PROVE  LiveTypes'
  <1>1. CASE LiveNext
    <2>1. ASSUME NEW l \in LiveRuns, NEW pc \in LiveSteps, MoveLive(l, pc)
          PROVE  LiveTypes'
      BY <2>1 DEF MoveLive, LiveTypes
    <2>2. {"launch", "dispatched", "harvesting", "failed"} \subseteq LiveSteps
      BY DEF LiveSteps
    <2>3. PICK l \in LiveRuns :
            \/ AdmitIssue(l)
            \/ \E plan \in PlansOf[l], body \in BodiesOf[l] : LaunchLiveRun(l, plan, body)
            \/ HarvestLiveRun(l)
      BY <1>1 DEF LiveNext
    <2>4. \/ MoveLive(l, "launch") \/ MoveLive(l, "dispatched")
          \/ MoveLive(l, "harvesting") \/ MoveLive(l, "failed")
      BY <2>3, Zenon DEF AdmitIssue, LaunchLiveRun, HarvestLiveRun
    <2>5. QED
      BY <2>1, <2>2, <2>4
  <1>2. QED
    BY <1>1 DEF Next, vars, LiveTypes

-----------------------------------------------------------------------------
(* The type invariant *)

TypesInv == ArmTypes /\ RowTypes /\ HarvestArms /\ LiveTypes

LEMMA TypesHold == Spec => []TypesInv
  <1>1. Init => TypesInv
    <2>1. SUFFICES ASSUME Init  PROVE TypesInv
      OBVIOUS
    <2>2. /\ envelopes = << >> /\ mishaps = {} /\ arms = << >> /\ disturbed = FALSE
          /\ selection = [s \in Selections |-> NoSelection]
          /\ harvest = [h \in Harvests |-> NoHarvest]
          /\ live = [l \in LiveRuns |-> "idle"]
          /\ \E s \in Scenarios : run = [phase |-> s.phase, version |-> 1]
      BY <2>1 DEF Init, DeliveryInit, SequenceInit, TournamentInit, HarvestInit
    <2>3. ArmTypes
      <3>0. DOMAIN arms = {}
        <4>1. DOMAIN << >> = {}
          OBVIOUS
        <4>2. QED
          BY <2>2, <4>1
      <3>1. disturbed \in BOOLEAN
        BY <2>2
      <3>2. /\ NoSelection.pc = "idle" /\ NoSelection.left = {}
            /\ NoSelection.alone = TRUE
        BY DEF NoSelection
      <3>3. SelectionOK(NoSelection)
        BY <3>2 DEF SelectionOK, SelectionSteps
      <3>4. \A s \in Selections : selection[s] = NoSelection
        BY <2>2
      <3>5. QED
        BY <3>0, <3>1, <3>3, <3>4 DEF ArmTypes
    <2>4. RowTypes
      BY <2>2, BoundsAssumption, BehavioursAssumption, EmptyIsSequence DEF RowTypes
    <2>5. HarvestArms /\ LiveTypes
      BY <2>2 DEF HarvestArms, NoHarvest, LiveTypes, LiveSteps
    <2>6. QED
      BY <2>3, <2>4, <2>5 DEF TypesInv
  <1>2. ASSUME HarvestInv, ArmsInv, SequenceInv, TypesInv, [Next]_vars  PROVE TypesInv'
    <2>1. ArmTypes'
      <3>1. CASE TournamentNext
        BY <1>2, <3>1, TournamentIsTyped DEF TypesInv
      <3>2. CASE UNCHANGED tournamentVars
        BY <1>2, <3>2 DEF TypesInv, ArmTypes, SelectionOK, tournamentVars
      <3>3. QED
        BY <1>2, <3>1, <3>2, OthersLeaveArms
    <2>2. QED
      BY <1>2, <2>1, RowIsTyped, HarvestArmsAreTyped, LiveIsTyped DEF TypesInv
  <1>3. DeliveryInv /\ AcceptanceInv => HarvestInv /\ SequenceInv
    BY DEF DeliveryInv, AcceptanceInv
  <1>4. QED
    BY <1>1, <1>2, <1>3, DeliveryHolds, ArmsHold, AcceptanceHolds, PTL DEF Spec

\* Every variable has its type, for any number of requests and failures.
THEOREM TypeCorrect == Spec => []TypeOK
  <1>1. ASSUME DeliveryInv, ArmsInv, AcceptanceInv, GateInv, TypesInv  PROVE TypeOK
    <2>0. HubInv /\ HarvestInv /\ MergeInv /\ SequenceInv /\ WorkInv
      BY <1>1 DEF DeliveryInv, AcceptanceInv, SequenceInv
    <2>1. DeliveryTypeOK
      BY <1>1, <2>0 DEF HubInv, LedgerInv, TypesInv, RowTypes, EnvelopeOK, DeliveryTypeOK
    <2>2. SequenceTypeOK
      BY <1>1, <2>0 DEF GateInv, GateOK, WorkSteps, WorkInv, WorkOK, TypesInv, RowTypes,
                        SequenceTypeOK
    <2>3. TournamentTypeOK
      BY <1>1 DEF ArmsInv, ArmsAreWhole, TypesInv, ArmTypes, SelectionOK, SelectionSteps,
                  TournamentTypeOK
    <2>4. HarvestTypeOK
      BY <1>1, <2>0 DEF HarvestInv, HarvestOK, HarvestSteps, TypesInv, HarvestArms,
                        HarvestTypeOK
    <2>5. MergeTypeOK
      <3>1. deployed \subseteq 1..Len(commits)
        BY <2>0, MergedHeadIsACommit DEF MergeInv, IsMergedAs
      <3>2. QED
        BY <2>0, <3>1 DEF MergeInv, MergeOK, EventOK, MergeTypeOK
    <2>6. QED
      BY <1>1, <2>1, <2>2, <2>3, <2>4, <2>5 DEF TypesInv, LiveTypes, LiveSteps, TypeOK
  <1>2. QED
    BY <1>1, DeliveryHolds, ArmsHold, AcceptanceHolds, GatesHold, TypesHold, PTL

-----------------------------------------------------------------------------
(* The arbitrator *)

(***************************************************************************)
(* A finite set has an element with the least value: one that the fewest   *)
(* are below.                                                              *)
(***************************************************************************)
LEMMA LeastOfFinite ==
  ASSUME NEW E, IsFiniteSet(E), E # {}, NEW v \in [E -> Int]
  PROVE  \E a \in E : \A b \in E : v[a] <= v[b]
  <1> DEFINE below(a) == {b \in E : v[b] < v[a]}
             sizes == {Cardinality(below(a)) : a \in E}
  <1>1. \A a \in E : IsFiniteSet(below(a)) /\ Cardinality(below(a)) \in Nat
    BY FS_Subset, FS_CardinalityType
  <1>2. sizes \in SUBSET Nat /\ sizes # {}
    BY <1>1
  <1>3. Min(sizes) \in sizes /\ \A y \in sizes : Min(sizes) <= y
    BY <1>2, MinIsMember
  <1>4. PICK a \in E : \A b \in E : Cardinality(below(a)) <= Cardinality(below(b))
    BY <1>3
  <1>5. SUFFICES ASSUME NEW b \in E, ~(v[a] <= v[b])  PROVE FALSE
    OBVIOUS
  <1>6. v[a] \in Int /\ v[b] \in Int /\ \A c \in E : v[c] \in Int
    OBVIOUS
  <1>7. below(b) \in SUBSET below(a) /\ b \in below(a) /\ b \notin below(b)
    BY <1>5, <1>6
  <1> HIDE DEF below
  <1>8. /\ Cardinality(below(b)) <= Cardinality(below(a))
        /\ Cardinality(below(a)) = Cardinality(below(b)) => below(a) = below(b)
    BY <1>1, <1>7, FS_Subset
  <1>9. Cardinality(below(a)) = Cardinality(below(b))
    BY <1>1, <1>4, <1>8
  <1>10. QED
    BY <1>7, <1>8, <1>9

Measures == [Metrics -> Int]

\* The least and the greatest of the values of one metric are two of them.
LEMMA ValuesAreBounded ==
  ASSUME NEW E, IsFiniteSet(E), E # {}, NEW mu \in [E -> Measures], NEW k \in Metrics
  PROVE  LET values == {n[k] : n \in {mu[a] : a \in E}} IN
         /\ Min(values) \in Int /\ \A a \in E : Min(values) <= mu[a][k]
         /\ Max(values) \in Int /\ \A a \in E : mu[a][k] <= Max(values)
  <1> DEFINE values == {n[k] : n \in {mu[a] : a \in E}}
             v == [a \in E |-> mu[a][k]]
             w == [a \in E |-> 0 - mu[a][k]]
  <1>1. /\ \A a \in E : mu[a][k] \in Int /\ mu[a][k] \in values
        /\ \A y \in values : \E a \in E : y = mu[a][k]
    BY DEF Measures
  <1>2. v \in [E -> Int] /\ w \in [E -> Int]
    BY <1>1
  <1>3. PICK a \in E : \A b \in E : v[a] <= v[b]
    BY <1>2, LeastOfFinite
  <1>4. PICK z \in E : \A b \in E : w[z] <= w[b]
    BY <1>2, LeastOfFinite
  <1>5. \A b \in E : mu[a][k] <= mu[b][k]
    BY <1>3
  <1>6. \A b \in E : mu[b][k] <= mu[z][k]
    BY <1>1, <1>4
  <1> HIDE DEF values, v, w
  <1>7. \E x \in values : \A y \in values : x <= y
    BY <1>1, <1>5
  <1>8. \E x \in values : \A y \in values : x >= y
    <2>1. \A b \in E : mu[z][k] >= mu[b][k]
      BY <1>1, <1>6
    <2>2. QED
      BY <1>1, <2>1
  <1>9. Min(values) \in values /\ \A y \in values : Min(values) <= y
    BY <1>7 DEF Min
  <1>10. Max(values) \in values /\ \A y \in values : Max(values) >= y
    BY <1>8 DEF Max
  <1>11. \A y \in values : y \in Int
    BY <1>1
  <1>12. \A b \in E : mu[b][k] <= Max(values)
    BY <1>1, <1>10, <1>11
  <1>13. QED
    BY <1>1, <1>9, <1>10, <1>11, <1>12 DEF values

LEMMA QuotientsGrow ==
  ASSUME NEW x \in Int, NEW y \in Int, NEW s \in Int, s > 0, x <= y
  PROVE  x \div s \in Int /\ y \div s \in Int /\ x \div s <= y \div s
  OBVIOUS

\* What is no worse is normalised to no less.
LEMMA NormalisationGrows ==
  ASSUME NEW E, IsFiniteSet(E), E # {}, NEW mu \in [E -> Measures], NEW k \in Metrics,
         NEW a \in E, NEW b \in E, ~IsBetter(mu[a], mu[b], k)
  PROVE  LET M == {mu[c] : c \in E} IN
         /\ Normalised(k, mu[a], M) \in Int /\ Normalised(k, mu[b], M) \in Int
         /\ Normalised(k, mu[a], M) <= Normalised(k, mu[b], M)
  <1> DEFINE M == {mu[c] : c \in E}
             values == {n[k] : n \in M}
             span == Max(values) - Min(values)
             above(m) == IF k \in Gains THEN m[k] - Min(values) ELSE Max(values) - m[k]
  <1>1. /\ Min(values) \in Int /\ \A c \in E : Min(values) <= mu[c][k]
        /\ Max(values) \in Int /\ \A c \in E : mu[c][k] <= Max(values)
    BY ValuesAreBounded
  <1>2. mu[a][k] \in Int /\ mu[b][k] \in Int
    BY DEF Measures
  <1>3. \A m : Normalised(k, m, M)
                 = IF span = 0 THEN 100000 ELSE (above(m) * 100000) \div span
    BY DEF Normalised
  <1> HIDE DEF values
  <1>4. span \in Int /\ span >= 0
    BY <1>1, <1>2
  <1>5. above(mu[a]) \in Int /\ above(mu[b]) \in Int /\ above(mu[a]) <= above(mu[b])
    BY <1>1, <1>2 DEF IsBetter
  <1> HIDE DEF span, above
  <1>6. CASE span = 0
    BY <1>3, <1>6
  <1>7. CASE span # 0
    <2>1. span > 0
      BY <1>4, <1>7
    <2>2. /\ above(mu[a]) * 100000 \in Int /\ above(mu[b]) * 100000 \in Int
          /\ above(mu[a]) * 100000 <= above(mu[b]) * 100000
      BY <1>5
    <2>3. QED
      BY <1>3, <1>4, <1>7, <2>1, <2>2, QuotientsGrow
  <1>8. QED
    BY <1>6, <1>7

\* What is no worse in any metric has no less utility.
LEMMA UtilityGrows ==
  ASSUME NEW E, IsFiniteSet(E), E # {}, NEW mu \in [E -> Measures],
         NEW a \in E, NEW b \in E, \A k \in Metrics : ~IsBetter(mu[a], mu[b], k)
  PROVE  LET M == {mu[c] : c \in E} IN
         /\ UtilityScore(mu[a], M) \in Int /\ UtilityScore(mu[b], M) \in Int
         /\ UtilityScore(mu[a], M) <= UtilityScore(mu[b], M)
  <1> DEFINE M == {mu[c] : c \in E}
             Parts == {"cost", "latency", "quality", "churn", "coverage"}
             part(m, k) == Weights[k] * Normalised(k, m, M)
             sum(m) == part(m, "cost") + part(m, "latency") + part(m, "quality")
                         + part(m, "churn") + part(m, "coverage") + 500
  <1>1. \A k \in Parts : k \in Metrics /\ Weights[k] \in {1, 2, 3}
    BY DEF Metrics, Gains, Losses, Weights
  <1>2. ASSUME NEW k \in Parts
        PROVE  /\ part(mu[a], k) \in Int /\ part(mu[b], k) \in Int
               /\ part(mu[a], k) <= part(mu[b], k)
    <2>1. /\ Normalised(k, mu[a], M) \in Int /\ Normalised(k, mu[b], M) \in Int
          /\ Normalised(k, mu[a], M) <= Normalised(k, mu[b], M)
      BY <1>1, NormalisationGrows
    <2> HIDE DEF M
    <2>2. QED
      BY <1>1, <2>1
  <1>3. \A m : UtilityScore(m, M) = sum(m) \div 1000
    BY DEF UtilityScore
  <1>4. sum(mu[a]) \in Int /\ sum(mu[b]) \in Int /\ sum(mu[a]) <= sum(mu[b])
    <2>1. /\ "cost" \in Parts /\ "latency" \in Parts /\ "quality" \in Parts
          /\ "churn" \in Parts /\ "coverage" \in Parts
      OBVIOUS
    <2> HIDE DEF part, Parts
    <2>2. QED
      BY <1>2, <2>1
  <1> HIDE DEF sum
  <1>5. QED
    BY <1>3, <1>4, QuotientsGrow

LEMMA DominationIsTransitive ==
  ASSUME NEW m \in Measures, NEW n \in Measures, NEW p \in Measures,
         Dominates(m, n), Dominates(n, p)
  PROVE  Dominates(m, p)
  <1>1. /\ \A k \in Metrics : ~IsBetter(n, m, k) /\ ~IsBetter(p, n, k)
        /\ \E k \in Metrics : IsBetter(m, n, k)
    BY DEF Dominates
  <1>2. ASSUME NEW k \in Metrics
        PROVE  ~IsBetter(p, m, k) /\ (IsBetter(m, n, k) => IsBetter(m, p, k))
    <2>1. m[k] \in Int /\ n[k] \in Int /\ p[k] \in Int
      BY DEF Measures
    <2>2. QED
      BY <1>1, <2>1 DEF IsBetter
  <1>3. QED
    BY <1>1, <1>2 DEF Dominates

Loss(m) ==
  m["cost"] + m["latency"] + m["churn"] + m["duration"] - m["quality"] - m["coverage"]

LEMMA LossIsInt == ASSUME NEW m \in Measures  PROVE Loss(m) \in Int
  BY DEF Measures, Loss, Metrics, Gains, Losses

LEMMA DominatingLosesLess ==
  ASSUME NEW m \in Measures, NEW n \in Measures, Dominates(m, n)
  PROVE  Loss(m) < Loss(n)
  <1> DEFINE gain(k) == IF k \in Gains THEN m[k] - n[k] ELSE n[k] - m[k]
  <1>1. \A k \in Metrics : m[k] \in Int /\ n[k] \in Int
    BY DEF Measures
  <1>2. \A k \in Metrics : gain(k) \in Int /\ gain(k) >= 0
    BY <1>1 DEF Dominates, IsBetter
  <1>3. \E k \in Metrics : gain(k) > 0
    BY <1>1 DEF Dominates, IsBetter
  <1>4. Loss(n) - Loss(m)
          = gain("cost") + gain("latency") + gain("churn") + gain("duration")
              + gain("quality") + gain("coverage")
    BY <1>1 DEF Loss, Metrics, Gains, Losses
  <1> HIDE DEF gain
  <1>5. gain("cost") + gain("latency") + gain("churn") + gain("duration")
          + gain("quality") + gain("coverage") > 0
    BY <1>2, <1>3 DEF Metrics, Gains, Losses
  <1>6. QED
    BY <1>4, <1>5, LossIsInt

\* An arm that is dominated is dominated by one that is not.
LEMMA DominatedByTheBest ==
  ASSUME NEW E, IsFiniteSet(E), NEW mu \in [E -> Measures],
         NEW a \in E, NEW d \in E, Dominates(mu[d], mu[a])
  PROVE  \E b \in E : /\ Dominates(mu[b], mu[a])
                      /\ \A c \in E : ~Dominates(mu[c], mu[b])
  <1> DEFINE D == {c \in E : Dominates(mu[c], mu[a])}
             v == [c \in D |-> Loss(mu[c])]
  <1>1. IsFiniteSet(D) /\ D # {}
    BY FS_Subset
  <1>2. v \in [D -> Int]
    BY LossIsInt
  <1>3. PICK b \in D : \A c \in D : v[b] <= v[c]
    <2> HIDE DEF D, v
    <2>1. QED
      BY <1>1, <1>2, LeastOfFinite
  <1>4. b \in E /\ Dominates(mu[b], mu[a])
    OBVIOUS
  <1>5. ASSUME NEW c \in E, Dominates(mu[c], mu[b])  PROVE FALSE
    <2>1. Dominates(mu[c], mu[a])
      BY <1>4, <1>5, DominationIsTransitive
    <2>2. Loss(mu[b]) <= Loss(mu[c])
      BY <1>3, <2>1
    <2>3. Loss(mu[c]) < Loss(mu[b])
      BY <1>4, <1>5, DominatingLosesLess
    <2>4. Loss(mu[b]) \in Int /\ Loss(mu[c]) \in Int
      BY <1>4, LossIsInt
    <2>5. QED
      BY <2>2, <2>3, <2>4
  <1>6. QED
    BY <1>4, <1>5

\* The recommended arm has the lowest score.
LEMMA RecommendedIsFirst ==
  ASSUME NEW policy, DOMAIN arms \in SUBSET Nat, 0 \notin DOMAIN arms,
         IsFiniteSet(DOMAIN arms),
         \A a \in DOMAIN arms : arms[a].metrics \in Measures
  PROVE  LET E == Eligible(arms, policy)
             mu == [a \in E |-> arms[a].metrics]
             score(m) == Score(policy.strategy, m, {mu[a] : a \in E})
             best == Recommended(arms, policy) IN
         /\ IsFiniteSet(E) /\ mu \in [E -> Measures]
         /\ best = NoArm <=> E = {}
         /\ E # {} => /\ best \in E
                      /\ \A a \in E : /\ score(mu[a]) \in Int
                                      /\ score(mu[best]) <= score(mu[a])
  <1> DEFINE E == Eligible(arms, policy)
             mu == [a \in E |-> arms[a].metrics]
             M == {mu[a] : a \in E}
             score(m) == Score(policy.strategy, m, M)
             v == [a \in E |-> score(mu[a])]
             first == {a \in E : \A b \in E : v[a] <= v[b]}
  <1>1. E \subseteq DOMAIN arms
    BY DEF Eligible
  <1>2. IsFiniteSet(E) /\ mu \in [E -> Measures]
    BY <1>1, FS_Subset
  <1>3. CASE E = {}
    <2>1. Recommended(arms, policy) = NoArm
      BY <1>3 DEF Recommended, NoArm
    <2> HIDE DEF score, v, first, M
    <2>2. QED
      BY <1>2, <1>3, <2>1 DEF M, score
  <1>4. CASE E # {}
    <2>1. ASSUME NEW a \in E  PROVE score(mu[a]) \in Int
      <3>1. \A k \in Metrics : mu[a][k] \in Int
        BY <1>2 DEF Measures
      <3>2. UtilityScore(mu[a], M) \in Int
        <4>1. \A k \in Metrics : ~IsBetter(mu[a], mu[a], k)
          BY <3>1 DEF IsBetter
        <4> HIDE DEF E, mu
        <4>2. QED
          BY <1>2, <1>4, <4>1, UtilityGrows
      <3> HIDE DEF M, mu, E
      <3>3. QED
        BY <3>1, <3>2 DEF Score, Metrics, Gains, Losses
    <2>2. v \in [E -> Int]
      BY <2>1
    <2>3. \E a \in E : \A b \in E : v[a] <= v[b]
      <3> HIDE DEF E, v
      <3>1. QED
        BY <1>2, <1>4, <2>2, LeastOfFinite
    <2>4. first \in SUBSET Nat /\ first # {}
      BY <1>1, <2>3
    <2>5. Recommended(arms, policy) = Min(first)
      <3>1. M = {arms[a].metrics : a \in E}
        OBVIOUS
      <3>2. v = [a \in E |-> Score(policy.strategy, arms[a].metrics,
                                   {arms[b].metrics : b \in E})]
        BY <3>1
      <3> HIDE DEF v, M, mu
      <3>3. QED
        BY <1>4, <3>2 DEF Recommended
    <2>6. Min(first) \in first
      <3> HIDE DEF first
      <3>1. QED
        BY <2>4, MinIsMember
    <2>7. Min(first) \in E /\ \A b \in E : v[Min(first)] <= v[b]
      BY <2>6
    <2>8. Recommended(arms, policy) # NoArm
      BY <1>1, <2>5, <2>7 DEF NoArm
    <2>9. \A b \in E : v[b] = score(mu[b])
      OBVIOUS
    <2> HIDE DEF first, v, E, mu, M, score
    <2>10. /\ Recommended(arms, policy) \in E
           /\ \A a \in E : /\ score(mu[a]) \in Int
                           /\ score(mu[Recommended(arms, policy)]) <= score(mu[a])
      BY <2>1, <2>5, <2>7, <2>9
    <2>11. QED
      BY <1>2, <1>4, <2>8, <2>10 DEF E, mu, M, score
  <1>5. QED
    BY <1>3, <1>4

\* Only a registration brings metrics in.
ArmsAreMeasured == \A a \in DOMAIN arms : arms[a].metrics \in Measures

LEMMA ArmsStayMeasured ==
  ASSUME ArmsInv, ArmsAreMeasured, TournamentNext
  PROVE  ArmsAreMeasured'
  <1>1. CASE UNCHANGED arms
    BY <1>1 DEF ArmsAreMeasured
  <1>2. ASSUME NEW a \in ArmIds, NEW arm \in ArmsOf[a], RegisterArm(a, arm)
        PROVE  ArmsAreMeasured'
    <2>1. arms' = [b \in DOMAIN arms \cup {a} |-> IF b = a THEN arm ELSE arms[b]]
      BY <1>2 DEF RegisterArm
    <2>2. arm.metrics \in Measures
      BY ArmsAssumption DEF Measures
    <2>3. QED
      BY <2>1, <2>2 DEF ArmsAreMeasured
  <1>3. ASSUME NEW s \in Selections, NEW a, MarkArm(s, a)
        PROVE  ArmsAreMeasured'
    <2>1. PICK x : arms' = [arms EXCEPT ![a].selection = x]
      BY <1>3 DEF MarkArm
    <2>2. \A b \in DOMAIN arms : DOMAIN arms[b] = ArmFields
      BY DEF ArmsInv, ArmsAreWhole
    <2>3. DOMAIN arms' = DOMAIN arms
      BY <2>1
    <2>4. \A b \in DOMAIN arms : arms'[b].metrics = arms[b].metrics
      BY <2>1, <2>2 DEF ArmFields
    <2>5. QED
      BY <2>3, <2>4 DEF ArmsAreMeasured
  <1>4. QED
    BY <1>1, <1>2, <1>3, Zenon
       DEF TournamentNext, RequestSelection, RankArms, CheckCandidate, ListArms,
           MarkNext, RecordSelection

LEMMA MeasuresHold == Spec => []ArmsAreMeasured
  <1>1. Init => ArmsAreMeasured
    BY DEF Init, TournamentInit, ArmsAreMeasured
  <1>2. ArmsInv /\ ArmsAreMeasured /\ [Next]_vars => ArmsAreMeasured'
    BY ArmsStayMeasured, OthersLeaveArms DEF tournamentVars, ArmsAreMeasured
  <1>3. QED
    BY <1>1, <1>2, ArmsHold, PTL DEF Spec

LEMMA RecommendedIsSound ==
  ASSUME ArmsInv, ArmsAreMeasured
  PROVE  RecommendationIsSound
  <1>1. /\ DOMAIN arms \in SUBSET Nat /\ 0 \notin DOMAIN arms
        /\ IsFiniteSet(DOMAIN arms)
    <2>1. ArmIds \subseteq Nat /\ 0 \notin ArmIds
      BY ArmsAssumption, SequenceNumbers DEF ArmIds
    <2>2. Len(ArmNames) \in Nat /\ ArmIds = 1..Len(ArmNames)
      BY ArmsAssumption, LenProperties DEF ArmIds
    <2>3. IsFiniteSet(ArmIds)
      BY <2>2, FS_Interval
    <2>4. QED
      BY <2>1, <2>3, FS_Subset DEF ArmsInv, ArmsAreWhole
  <1>2. SUFFICES ASSUME NEW policy \in Policies
        PROVE LET E == Eligible(arms, policy)
                  best == Recommended(arms, policy)
                  Better(k) == {a \in E :
                    IsBetter(arms[a].metrics, arms[best].metrics, k)}
                  Excess(a, k) == arms[a].metrics[k] - arms[best].metrics[k] IN
              /\ best = NoArm <=> E = {}
              /\ best # NoArm =>
                   /\ best \in E
                   /\ policy.strategy = "pareto_optimal" =>
                        \A a \in E : ~Dominates(arms[a].metrics, arms[best].metrics)
                   /\ policy.strategy = "lowest_cost" =>
                        \A a \in Better("cost") : Excess(a, "latency") >= 10000
                   /\ policy.strategy = "fastest_latency" =>
                        \A a \in Better("latency") : Excess(a, "cost") >= 10000
                   /\ policy.strategy = "highest_coverage" =>
                        \A a \in Better("coverage") :
                          Excess(a, "cost") >= 5000 \/ Excess(a, "latency") >= 50000000
    BY DEF RecommendationIsSound
  <1> DEFINE E == Eligible(arms, policy)
             best == Recommended(arms, policy)
             mu == [a \in E |-> arms[a].metrics]
             M == {mu[a] : a \in E}
             score(m) == Score(policy.strategy, m, M)
  <1>3. /\ IsFiniteSet(E) /\ mu \in [E -> Measures]
        /\ best = NoArm <=> E = {}
        /\ E # {} => /\ best \in E
                     /\ \A a \in E : /\ score(mu[a]) \in Int
                                     /\ score(mu[best]) <= score(mu[a])
    BY <1>1, RecommendedIsFirst DEF ArmsAreMeasured
  <1>4. \A a \in E : arms[a].metrics = mu[a]
    OBVIOUS
  <1>5. CASE E = {}
    BY <1>3, <1>5
  <1>6. CASE E # {}
    <2>1. /\ best \in E
          /\ \A a \in E : score(mu[a]) \in Int /\ score(mu[best]) <= score(mu[a])
      BY <1>3, <1>6
    <2> HIDE DEF E, best, mu
    <2>2. \A a \in E : \A k \in Metrics : mu[a][k] \in Int
      BY <1>3 DEF Measures
    <2>3. {"cost", "latency", "coverage"} \subseteq Metrics
          /\ "cost" \notin Gains /\ "latency" \notin Gains /\ "coverage" \in Gains
      BY DEF Metrics, Gains, Losses
    <2>4. ASSUME policy.strategy = "pareto_optimal", NEW a \in E
          PROVE  ~Dominates(mu[a], mu[best])
      <3>1. SUFFICES ASSUME Dominates(mu[a], mu[best])  PROVE FALSE
        OBVIOUS
      <3>2. PICK b \in E : /\ Dominates(mu[b], mu[best])
                          /\ \A c \in E : ~Dominates(mu[c], mu[b])
        BY <1>3, <2>1, <3>1, DominatedByTheBest
      <3>3. /\ UtilityScore(mu[best], M) \in Int /\ UtilityScore(mu[b], M) \in Int
            /\ UtilityScore(mu[best], M) <= UtilityScore(mu[b], M)
        <4>1. \A k \in Metrics : ~IsBetter(mu[best], mu[b], k)
          BY <3>2 DEF Dominates
        <4>2. QED
          BY <1>3, <1>6, <2>1, <4>1, UtilityGrows
      <3>4. score(mu[best]) = 0 - (UtilityScore(mu[best], M) + 0)
        <4>1. \E n \in M : Dominates(n, mu[best])
          BY <3>2
        <4> HIDE DEF M
        <4>2. QED
          BY <2>4, <4>1 DEF Score
      <3>5. score(mu[b]) = 0 - (UtilityScore(mu[b], M) + 10000)
        <4>1. ~ \E n \in M : Dominates(n, mu[b])
          BY <3>2
        <4> HIDE DEF M
        <4>2. QED
          BY <2>4, <4>1 DEF Score
      <3> HIDE DEF score, M
      <3>6. QED
        BY <2>1, <3>3, <3>4, <3>5
    <2>5. ASSUME policy.strategy = "lowest_cost", NEW a \in E,
                 IsBetter(mu[a], mu[best], "cost")
          PROVE  mu[a]["latency"] - mu[best]["latency"] >= 10000
      <3>1. \A c \in E : score(mu[c]) = mu[c]["cost"] * 10000 + mu[c]["latency"]
        BY <2>5 DEF Score
      <3>2. mu[a]["cost"] < mu[best]["cost"]
        BY <2>3, <2>5 DEF IsBetter
      <3> HIDE DEF score
      <3>3. score(mu[best]) <= score(mu[a])
        BY <2>1
      <3>4. QED
        BY <2>1, <2>2, <2>3, <3>1, <3>2, <3>3
    <2>6. ASSUME policy.strategy = "fastest_latency", NEW a \in E,
                 IsBetter(mu[a], mu[best], "latency")
          PROVE  mu[a]["cost"] - mu[best]["cost"] >= 10000
      <3>1. \A c \in E : score(mu[c]) = mu[c]["latency"] * 10000 + mu[c]["cost"]
        BY <2>6 DEF Score
      <3>2. mu[a]["latency"] < mu[best]["latency"]
        BY <2>3, <2>6 DEF IsBetter
      <3> HIDE DEF score
      <3>3. score(mu[best]) <= score(mu[a])
        BY <2>1
      <3>4. QED
        BY <2>1, <2>2, <2>3, <3>1, <3>2, <3>3
    <2>7. ASSUME policy.strategy = "highest_coverage", NEW a \in E,
                 IsBetter(mu[a], mu[best], "coverage")
          PROVE  \/ mu[a]["cost"] - mu[best]["cost"] >= 5000
                 \/ mu[a]["latency"] - mu[best]["latency"] >= 50000000
      <3>1. \A c \in E : score(mu[c])
              = mu[c]["cost"] * 10000 + mu[c]["latency"] - mu[c]["coverage"] * 100000000
        BY <2>7 DEF Score
      <3>2. mu[a]["coverage"] > mu[best]["coverage"]
        BY <2>3, <2>7 DEF IsBetter
      <3> HIDE DEF score
      <3>3. score(mu[best]) <= score(mu[a])
        BY <2>1
      <3>4. QED
        BY <2>1, <2>2, <2>3, <3>1, <3>2, <3>3
    <2>8. QED
      BY <1>3, <1>4, <1>6, <2>1, <2>4, <2>5, <2>6, <2>7 DEF E, best
  <1>7. QED
    BY <1>5, <1>6

\* The arm that evaluateArms recommends is eligible; by its strategy it is not
\* dominated, or none is cheaper, faster or better covered save for what the
\* score of the strategy adds up: for any arms, metrics and policies.
THEOREM RecommendationsAreSound == Spec => []RecommendationIsSound
  BY RecommendedIsSound, ArmsHold, MeasuresHold, PTL
=============================================================================
