----------------------- MODULE RunStateMachineProofs -----------------------
(***************************************************************************)
(* The invariants of RunStateMachine and its refinement of RunPhases, for  *)
(* any set of callers, either store and any bound on the version.          *)
(***************************************************************************)
EXTENDS RunStateMachine, TLAPS

(***************************************************************************)
(* The strengthening: a request in flight expects a point of the history   *)
(* and a permitted move from there, and a caller that has committed finds  *)
(* its own commit in the history.                                          *)
(***************************************************************************)
RequestsFollowHistory ==
  \A c \in Clients :
    pc[c] # "idle" =>
      /\ c \notin Strangers
      /\ req[c].expected.version \in 1 .. version
      /\ req[c].expected.phase = history[req[c].expected.version].target
      /\ canTransition(req[c].expected.phase, req[c].target)

CommitsAreRecorded ==
  \A c \in Clients :
    pc[c] = "committed" =>
      /\ req[c].expected.version + 1 <= version
      /\ history[req[c].expected.version + 1] =
           [target |-> req[c].target, by |-> {c}, event |-> TRUE]

IInv ==
  /\ TypeOK
  /\ OneChainOfCommits
  /\ RequestsFollowHistory
  /\ CommitsAreRecorded
  /\ OutboxTellsTheTruth
  /\ KnowledgeIsHistory
  /\ MissingEventExplained

-----------------------------------------------------------------------------
\* Every target in the table is a phase.
LEMMA TransitionTargets ==
  ASSUME NEW p \in Phase, NEW q, canTransition(p, q)
  PROVE  q \in Phase
BY DEF canTransition, ALLOWED_TRANSITIONS, Phase

\* A fresh run: one version, no event, nobody knows anything.
LEMMA InitInvariant == Init => IInv
BY ConstantsAssumption
DEF Init, IInv, TypeOK, OneChainOfCommits, RequestsFollowHistory,
    CommitsAreRecorded, OutboxTellsTheTruth, KnowledgeIsHistory,
    MissingEventExplained, Phase, Unknown, NoRequest, Knowledge

\* What a matched UPDATE does to the row and to the history, whatever the
\* caller does next.
LEMMA CommitStep ==
  ASSUME IInv, NEW c \in Clients, pc[c] = "checked", Commit(c)
  PROVE  /\ phase' \in Phase
         /\ version' = version + 1
         /\ version' \in Nat \ {0}
         /\ req[c].expected.version = version
         /\ history' \in Seq([target : Phase, by : SUBSET Clients,
                              event : BOOLEAN])
         /\ Len(history') = version'
         /\ history'[version'] = [target |-> req[c].target, by |-> {c},
                                  event |-> req[c].event]
         /\ \A v \in 1 .. version : history'[v] = history[v]
         /\ OneChainOfCommits'
  <1> USE DEF IInv, TypeOK, Knowledge
  <1> DEFINE entry == [target |-> req[c].target, by |-> {c},
                       event |-> req[c].event]
  <1>1. /\ req[c] \in [expected : Knowledge, target : Phase, event : BOOLEAN]
        /\ entry \in [target : Phase, by : SUBSET Clients, event : BOOLEAN]
    OBVIOUS
  <1>2. /\ req[c].expected.version = version
        /\ req[c].expected.phase = phase
        /\ phase' = req[c].target
        /\ version' = version + 1
        /\ history' = Append(history, entry)
    BY DEF Commit, RowMatches, Current
  <1>3. /\ Len(history) = version
        /\ history[version].target = phase
    BY DEF OneChainOfCommits
  <1>4. /\ history' \in Seq([target : Phase, by : SUBSET Clients,
                             event : BOOLEAN])
        /\ Len(history') = version'
        /\ history'[version'] = entry
        /\ \A v \in 1 .. version : history'[v] = history[v]
    BY <1>1, <1>2, <1>3
  <1>5. canTransition(phase, req[c].target) /\ c \notin Strangers
    BY <1>2 DEF RequestsFollowHistory
  <1>6. OneChainOfCommits'
    <2>1. history'[version'].target = phase'
      BY <1>2, <1>4
    <2>2. ASSUME NEW v \in 2 .. version'
          PROVE  /\ canTransition(history'[v - 1].target, history'[v].target)
                 /\ history'[v].by \cap Strangers = {}
      <3>1. CASE v <= version
        <4>1. v \in 2 .. version /\ v - 1 \in 1 .. version /\ v \in 1 .. version
          BY <3>1
        <4>2. QED
          BY <4>1, <1>4 DEF OneChainOfCommits
      <3>2. CASE v = version + 1
        <4>1. history'[v - 1] = history[version] /\ history'[v] = entry
          BY <3>2, <1>2, <1>4
        <4>2. QED
          BY <4>1, <1>3, <1>5
      <3>3. version \in Nat /\ v \in 2 .. version + 1
        BY <1>2
      <3>4. v <= version \/ v = version + 1
        BY <3>3
      <3>5. QED
        BY <3>1, <3>2, <3>4
    <2>3. QED
      BY <1>4, <2>1, <2>2 DEF OneChainOfCommits
  <1>7. QED
    BY <1>1, <1>2, <1>4, <1>6

\* What was true of the old history is true of the longer one.
LEMMA CommitKeeps ==
  ASSUME IInv, NEW c \in Clients, pc[c] = "checked", Commit(c)
  PROVE  /\ \A d \in Clients :
              known[d] # Unknown =>
                /\ known[d].version \in 1 .. version'
                /\ known[d].phase = history'[known[d].version].target
         /\ \A d \in Clients :
              pc[d] # "idle" =>
                /\ d \notin Strangers
                /\ req[d].expected.version \in 1 .. version'
                /\ req[d].expected.phase
                     = history'[req[d].expected.version].target
                /\ canTransition(req[d].expected.phase, req[d].target)
         /\ \A d \in Clients :
              pc[d] = "committed" =>
                /\ req[d].expected.version + 1 <= version'
                /\ history'[req[d].expected.version + 1] =
                     [target |-> req[d].target, by |-> {d}, event |-> TRUE]
         /\ \A e \in outbox :
              /\ e.sequence \in 2 .. version'
              /\ history'[e.sequence]
                   = [target |-> e.target, by |-> e.by, event |-> TRUE]
         /\ \A v \in 2 .. version' :
              history'[v].event /\ ~HasEvent(v) =>
                \/ v \in broken
                \/ v = version' /\ req[c].event
                \/ \E d \in Clients : pc[d] = "committed"
                                      /\ EventOf(d).sequence = v
  <1>1. /\ version \in Nat \ {0}
        /\ version' = version + 1
        /\ \A v \in 1 .. version : history'[v] = history[v]
        /\ history'[version'].event = req[c].event
    <2>1. /\ version' = version + 1
          /\ \A v \in 1 .. version : history'[v] = history[v]
          /\ history'[version'] = [target |-> req[c].target, by |-> {c},
                                   event |-> req[c].event]
      BY CommitStep
    <2>2. version \in Nat \ {0}
      BY DEF IInv, TypeOK
    <2>3. QED
      BY <2>1, <2>2
  <1>2. \A v \in 1 .. version : v \in 1 .. version'
    BY <1>1
  <1>3. \A d \in Clients :
          known[d] # Unknown =>
            /\ known[d].version \in 1 .. version'
            /\ known[d].phase = history'[known[d].version].target
    BY <1>1, <1>2 DEF IInv, KnowledgeIsHistory
  <1>4. \A d \in Clients :
          pc[d] # "idle" =>
            /\ d \notin Strangers
            /\ req[d].expected.version \in 1 .. version'
            /\ req[d].expected.phase = history'[req[d].expected.version].target
            /\ canTransition(req[d].expected.phase, req[d].target)
    BY <1>1, <1>2 DEF IInv, RequestsFollowHistory
  <1>5. ASSUME NEW d \in Clients, pc[d] = "committed"
        PROVE  /\ req[d].expected.version + 1 <= version'
               /\ history'[req[d].expected.version + 1] =
                    [target |-> req[d].target, by |-> {d}, event |-> TRUE]
    <2>1. /\ req[d].expected.version \in 1 .. version
          /\ req[d].expected.version + 1 <= version
          /\ history[req[d].expected.version + 1] =
               [target |-> req[d].target, by |-> {d}, event |-> TRUE]
      BY <1>5 DEF IInv, RequestsFollowHistory, CommitsAreRecorded
    <2>2. req[d].expected.version + 1 \in 1 .. version
      BY <1>1, <2>1
    <2>3. QED
      BY <1>1, <2>1, <2>2
  <1>6. ASSUME NEW e \in outbox
        PROVE  /\ e.sequence \in 2 .. version'
               /\ history'[e.sequence]
                    = [target |-> e.target, by |-> e.by, event |-> TRUE]
    <2>1. /\ e.sequence \in 2 .. version
          /\ history[e.sequence]
               = [target |-> e.target, by |-> e.by, event |-> TRUE]
      BY DEF IInv, OutboxTellsTheTruth
    <2>2. e.sequence \in 1 .. version /\ e.sequence \in 2 .. version'
      BY <1>1, <2>1
    <2>3. QED
      BY <1>1, <2>1, <2>2
  <1>7. ASSUME NEW v \in 2 .. version', history'[v].event, ~HasEvent(v)
        PROVE  \/ v \in broken
               \/ v = version' /\ req[c].event
               \/ \E d \in Clients : pc[d] = "committed"
                                     /\ EventOf(d).sequence = v
    <2>1. v \in 2 .. version \/ v = version'
      BY <1>1
    <2>2. CASE v = version'
      BY <1>1, <1>7, <2>2
    <2>3. CASE v \in 2 .. version
      <3>1. v \in 1 .. version
        BY <2>3, <1>1
      <3>2. history[v].event
        BY <3>1, <1>1, <1>7
      <3>3. QED
        BY <2>3, <3>2, <1>7 DEF IInv, MissingEventExplained
    <2>4. QED
      BY <2>1, <2>2, <2>3
  <1>8. QED
    BY <1>3, <1>4, <1>5, <1>6, <1>7

\* A step that leaves the run, its history and the outbox alone keeps every
\* part of the invariant that does not speak of the callers.
LEMMA StoreUntouched ==
  ASSUME IInv, UNCHANGED <<phase, version, outbox, history>>
  PROVE  OneChainOfCommits' /\ OutboxTellsTheTruth'
BY DEF IInv, OneChainOfCommits, OutboxTellsTheTruth

\* Every step of every caller keeps the invariant.
LEMMA NextInvariant == IInv /\ [Next]_vars => IInv'
  <1> SUFFICES ASSUME IInv, [Next]_vars
               PROVE  IInv'
    OBVIOUS
  <1>. DEFINE Entry == [target : Phase, by : SUBSET Clients, event : BOOLEAN]
              Row == [sequence : Nat, target : Phase, by : SUBSET Clients]
  <1>a. /\ version \in Nat \ {0} /\ phase \in Phase
        /\ \A d \in Clients :
             /\ req[d] \in [expected : Knowledge, target : Phase,
                            event : BOOLEAN]
             /\ known[d] \in Knowledge
             /\ pc[d] \in {"idle", "checked", "committed"}
             /\ EventOf(d) \in Row
             /\ EventOf(d).sequence = req[d].expected.version + 1
    BY DEF IInv, TypeOK, EventOf, Knowledge
  <1>b. Unknown \in Knowledge /\ NoRequest \in [expected : Knowledge,
                                              target : Phase, event : BOOLEAN]
    BY DEF Unknown, NoRequest, Knowledge, Phase
  <1>1. ASSUME NEW c \in Clients, GetRun(c)
        PROVE  IInv'
    <2> USE <1>1 DEF GetRun
    <2>1. TypeOK'
      BY <1>a DEF IInv, TypeOK, Current, Knowledge
    <2>2. KnowledgeIsHistory'
      BY <1>a DEF IInv, TypeOK, KnowledgeIsHistory, OneChainOfCommits, Current,
                  Unknown
    <2>3. RequestsFollowHistory' /\ CommitsAreRecorded'
      BY DEF IInv, RequestsFollowHistory, CommitsAreRecorded
    <2>4. MissingEventExplained'
      BY DEF IInv, MissingEventExplained, HasEvent, EventOf
    <2>5. QED
      BY <2>1, <2>2, <2>3, <2>4, StoreUntouched DEF IInv
  <1>2. ASSUME NEW c \in Clients, NEW target \in Phase, NEW event \in BOOLEAN,
               ReadAndCheck(c, target, event)
        PROVE  IInv'
    <2> USE <1>2 DEF ReadAndCheck
    <2>1. TypeOK'
      BY <1>a DEF IInv, TypeOK
    <2>2. KnowledgeIsHistory'
      BY DEF IInv, KnowledgeIsHistory
    <2>3. RequestsFollowHistory'
      BY <1>a DEF IInv, TypeOK, RequestsFollowHistory, OneChainOfCommits, Current
    <2>4. CommitsAreRecorded'
      BY <1>a DEF IInv, TypeOK, CommitsAreRecorded
    <2>5. MissingEventExplained'
      BY <1>a DEF IInv, TypeOK, MissingEventExplained, HasEvent, EventOf
    <2>6. QED
      BY <2>1, <2>2, <2>3, <2>4, <2>5, StoreUntouched DEF IInv
  <1>3. ASSUME NEW c \in Clients, CasReturns(c)
        PROVE  IInv'
    <2>. USE <1>3 DEF CasReturns
    <2>0. pc[c] = "checked" /\ Commit(c)
      OBVIOUS
    <2>c. /\ phase' \in Phase /\ version' \in Nat \ {0}
          /\ version' = version + 1
          /\ req[c].expected.version = version
          /\ phase' = req[c].target
          /\ history' \in Seq(Entry)
          /\ history'[version'] = [target |-> req[c].target, by |-> {c},
                                   event |-> req[c].event]
          /\ OneChainOfCommits'
      BY <2>0, CommitStep DEF Commit
    <2>1. TypeOK'
      BY <2>c, <1>a, <1>b DEF IInv, TypeOK, Learn, Leave, Knowledge
    <2>2. KnowledgeIsHistory'
      <3>1. ASSUME NEW d \in Clients, known'[d] # Unknown
            PROVE  /\ known'[d].version \in 1 .. version'
                   /\ known'[d].phase = history'[known'[d].version].target
        <4>1. CASE d = c
          <5>1. known'[d] = [phase |-> req[c].target, version |-> version']
            BY <4>1, <2>c DEF Learn, IInv, TypeOK
          <5>2. QED
            BY <5>1, <2>c
        <4>2. CASE d # c
          <5>1. known'[d] = known[d]
            BY <4>2 DEF Learn, IInv, TypeOK
          <5>2. QED
            BY <5>1, <3>1, <2>0, CommitKeeps
        <4>3. QED
          BY <4>1, <4>2
      <3>2. QED
        BY <3>1 DEF KnowledgeIsHistory
    <2>p. /\ pc' = [pc EXCEPT ![c] = "idle"]
          /\ \A d \in Clients : d # c => req'[d] = req[d]
          /\ \A d \in Clients : pc'[d] # "idle" => d # c /\ pc'[d] = pc[d]
      BY <1>a DEF Leave, IInv, TypeOK
    <2>3. RequestsFollowHistory'
      BY <2>0, <2>p, CommitKeeps DEF RequestsFollowHistory
    <2>4. CommitsAreRecorded'
      BY <2>0, <2>p, CommitKeeps DEF CommitsAreRecorded
    <2>5. OutboxTellsTheTruth'
      <3>1. ASSUME NEW e \in outbox'
            PROVE  /\ e.sequence \in 2 .. version'
                   /\ history'[e.sequence]
                        = [target |-> e.target, by |-> e.by, event |-> TRUE]
        <4>1. CASE e \in outbox
          BY <4>1, <2>0, CommitKeeps
        <4>2. CASE req[c].event /\ e = EventOf(c)
          <5>1. /\ e.sequence = version' /\ e.target = req[c].target
                /\ e.by = {c}
            BY <4>2, <2>c DEF EventOf
          <5>2. req[c].event = TRUE
            BY <4>2, <1>a
          <5>3. version' \in 2 .. version'
            BY <2>c, <1>a
          <5>4. QED
            BY <5>1, <5>2, <5>3, <2>c
        <4>3. QED
          BY <4>1, <4>2
      <3>2. QED
        BY <3>1 DEF OutboxTellsTheTruth
    <2>6. MissingEventExplained'
      <3>1. ASSUME NEW v \in 2 .. version', history'[v].event,
                   ~ \E e \in outbox' : e.sequence = v
            PROVE  \/ v \in broken
                   \/ \E d \in Clients : pc'[d] = "committed"
                                         /\ req'[d].expected.version + 1 = v
        <4>1. ~HasEvent(v)
          BY <3>1 DEF HasEvent
        <4>2. ~(v = version' /\ req[c].event)
          <5>1. EventOf(c).sequence = version'
            BY <2>c, <1>a
          <5>2. req[c].event => EventOf(c) \in outbox'
            OBVIOUS
          <5>3. QED
            BY <5>1, <5>2, <3>1
        <4>3. \/ v \in broken
              \/ \E d \in Clients : pc[d] = "committed"
                                    /\ EventOf(d).sequence = v
          BY <3>1, <4>1, <4>2, <2>0, CommitKeeps
        <4>4. QED
          BY <4>3, <2>0, <2>p, <1>a
      <3>2. QED
        BY <3>1 DEF MissingEventExplained, HasEvent, EventOf
    <2>7. QED
      BY <2>c, <2>1, <2>2, <2>3, <2>4, <2>5, <2>6 DEF IInv
  <1>4. ASSUME NEW c \in Clients, CasAwaitsEvent(c)
        PROVE  IInv'
    <2>. USE <1>4 DEF CasAwaitsEvent
    <2>0. pc[c] = "checked" /\ Commit(c) /\ req[c].event = TRUE
      BY <1>a
    <2>c. /\ phase' \in Phase /\ version' \in Nat \ {0}
          /\ version' = version + 1
          /\ req[c].expected.version = version
          /\ history' \in Seq(Entry)
          /\ history'[version'] = [target |-> req[c].target, by |-> {c},
                                   event |-> req[c].event]
          /\ OneChainOfCommits'
      BY <2>0, CommitStep
    <2>1. TypeOK'
      BY <2>c, <1>a DEF IInv, TypeOK
    <2>2. KnowledgeIsHistory'
      BY <2>0, CommitKeeps DEF KnowledgeIsHistory
    <2>p. /\ pc'[c] = "committed"
          /\ \A d \in Clients : d # c => pc'[d] = pc[d]
      BY <1>a DEF IInv, TypeOK
    <2>3. RequestsFollowHistory'
      BY <2>0, <2>p, CommitKeeps DEF RequestsFollowHistory
    <2>4. CommitsAreRecorded'
      <3>1. ASSUME NEW d \in Clients, pc'[d] = "committed"
            PROVE  /\ req[d].expected.version + 1 <= version'
                   /\ history'[req[d].expected.version + 1] =
                        [target |-> req[d].target, by |-> {d}, event |-> TRUE]
        <4>1. CASE d = c
          <5>1. req[c].expected.version + 1 = version'
            BY <2>c
          <5>2. version' <= version'
            BY <2>c
          <5>3. QED
            BY <4>1, <5>1, <5>2, <2>c, <2>0
        <4>2. CASE d # c
          BY <4>2, <3>1, <2>p, <2>0, CommitKeeps
        <4>3. QED
          BY <4>1, <4>2
      <3>2. QED
        BY <3>1 DEF CommitsAreRecorded
    <2>5. OutboxTellsTheTruth'
      BY <2>0, CommitKeeps DEF OutboxTellsTheTruth
    <2>6. MissingEventExplained'
      <3>1. ASSUME NEW v \in 2 .. version', history'[v].event,
                   ~ \E e \in outbox' : e.sequence = v
            PROVE  \/ v \in broken
                   \/ \E d \in Clients : pc'[d] = "committed"
                                         /\ EventOf(d).sequence = v
        <4>1. \/ v \in broken
              \/ v = version' /\ req[c].event
              \/ \E d \in Clients : pc[d] = "committed"
                                    /\ EventOf(d).sequence = v
          BY <3>1, <2>0, CommitKeeps DEF HasEvent
        <4>2. EventOf(c).sequence = version'
          BY <2>c, <1>a
        <4>3. QED
          BY <4>1, <4>2, <2>p
      <3>2. QED
        BY <3>1 DEF MissingEventExplained, HasEvent, EventOf
    <2>7. QED
      BY <2>1, <2>2, <2>3, <2>4, <2>5, <2>6, <2>c DEF IInv
  <1>5. ASSUME NEW c \in Clients, CasReplyLost(c)
        PROVE  IInv'
    <2>. USE <1>5 DEF CasReplyLost
    <2>0. pc[c] = "checked" /\ Commit(c)
      OBVIOUS
    <2>c. /\ phase' \in Phase /\ version' \in Nat \ {0}
          /\ history' \in Seq(Entry)
          /\ OneChainOfCommits'
      BY <2>0, CommitStep
    <2>1. TypeOK'
      BY <2>c, <1>a, <1>b DEF IInv, TypeOK, Leave
    <2>2. KnowledgeIsHistory'
      BY <2>0, CommitKeeps DEF KnowledgeIsHistory
    <2>p. /\ \A d \in Clients : d # c => req'[d] = req[d]
          /\ \A d \in Clients : pc'[d] # "idle" => d # c /\ pc'[d] = pc[d]
          /\ pc'[c] = "idle" /\ \A d \in Clients : d # c => pc'[d] = pc[d]
      BY <1>a DEF Leave, IInv, TypeOK
    <2>3. RequestsFollowHistory'
      BY <2>0, <2>p, CommitKeeps DEF RequestsFollowHistory
    <2>4. CommitsAreRecorded'
      BY <2>0, <2>p, CommitKeeps DEF CommitsAreRecorded
    <2>5. OutboxTellsTheTruth'
      BY <2>0, CommitKeeps DEF OutboxTellsTheTruth
    <2>6. MissingEventExplained'
      <3>1. ASSUME NEW v \in 2 .. version', history'[v].event,
                   ~ \E e \in outbox' : e.sequence = v
            PROVE  \/ v \in broken'
                   \/ \E d \in Clients : pc'[d] = "committed"
                                         /\ req'[d].expected.version + 1 = v
        <4>1. \/ v \in broken
              \/ v = version' /\ req[c].event
              \/ \E d \in Clients : pc[d] = "committed"
                                    /\ EventOf(d).sequence = v
          BY <3>1, <2>0, CommitKeeps DEF HasEvent
        <4>2. QED
          BY <4>1, <2>0, <2>p, <1>a
      <3>2. QED
        BY <3>1 DEF MissingEventExplained, HasEvent, EventOf
    <2>7. QED
      BY <2>1, <2>2, <2>3, <2>4, <2>5, <2>6, <2>c DEF IInv
  <1>6. ASSUME NEW c \in Clients, CasConflict(c)
        PROVE  IInv'
    <2>. USE <1>6 DEF CasConflict
    <2>1. TypeOK'
      BY <1>a, <1>b DEF IInv, TypeOK, Leave
    <2>p. /\ \A d \in Clients : d # c => req'[d] = req[d]
          /\ \A d \in Clients : pc'[d] # "idle" => d # c /\ pc'[d] = pc[d]
          /\ \A d \in Clients : pc[d] = "committed" => d # c /\ pc'[d] = pc[d]
      BY <1>a DEF Leave, IInv, TypeOK
    <2>2. KnowledgeIsHistory'
      BY DEF IInv, KnowledgeIsHistory
    <2>3. RequestsFollowHistory' /\ CommitsAreRecorded'
      BY <2>p DEF IInv, RequestsFollowHistory, CommitsAreRecorded
    <2>4. MissingEventExplained'
      BY <2>p DEF IInv, MissingEventExplained, HasEvent, EventOf
    <2>5. QED
      BY <2>1, <2>2, <2>3, <2>4, StoreUntouched DEF IInv
  \* A committed caller leaves, having possibly inserted its event.
  <1>7. ASSUME NEW c \in Clients, pc[c] = "committed", Leave(c),
               UNCHANGED <<phase, version, history>>,
               outbox' \in {outbox, outbox \cup {EventOf(c)}},
               known' \in {known} \cup {k \in {known'} : Learn(c)},
               broken' \in {broken, broken \cup {EventOf(c).sequence}},
               EventOf(c) \in outbox' \/ EventOf(c).sequence \in broken'
        PROVE  IInv'
    <2>p. /\ \A d \in Clients : d # c => req'[d] = req[d]
          /\ \A d \in Clients : pc'[d] # "idle" => d # c /\ pc'[d] = pc[d]
          /\ \A d \in Clients : d # c => pc'[d] = pc[d]
      BY <1>7, <1>a DEF Leave, IInv, TypeOK
    <2>e. /\ EventOf(c).sequence \in 2 .. version
          /\ EventOf(c).sequence = req[c].expected.version + 1
          /\ history[EventOf(c).sequence] =
               [target |-> req[c].target, by |-> {c}, event |-> TRUE]
          /\ EventOf(c).target = req[c].target
          /\ EventOf(c).by = {c}
      <3>1. /\ req[c].expected.version \in 1 .. version
            /\ req[c].expected.version + 1 <= version
            /\ history[req[c].expected.version + 1] =
                 [target |-> req[c].target, by |-> {c}, event |-> TRUE]
        BY <1>7 DEF IInv, RequestsFollowHistory, CommitsAreRecorded
      <3>2. QED
        BY <3>1, <1>a DEF EventOf
    <2>k. \/ known' = known
          \/ /\ \A d \in Clients : d # c => known'[d] = known[d]
             /\ known'[c] = [phase |-> req[c].target,
                             version |-> EventOf(c).sequence]
             /\ known' \in [Clients -> Knowledge]
      <3>1. CASE known' = known
        BY <3>1
      <3>2. CASE Learn(c)
        <4>1. known' = [known EXCEPT ![c] = [phase |-> req[c].target,
                                             version |-> EventOf(c).sequence]]
          BY <3>2, <2>e DEF Learn
        <4>2. [phase |-> req[c].target, version |-> EventOf(c).sequence]
                \in Knowledge
          BY <1>a DEF Knowledge
        <4>3. QED
          BY <4>1, <4>2 DEF IInv, TypeOK
      <3>3. QED
        BY <3>1, <3>2, <1>7
    <2>1. TypeOK'
      <3>1. /\ pc' \in [Clients -> {"idle", "checked", "committed"}]
            /\ req' \in [Clients -> [expected : Knowledge, target : Phase,
                                     event : BOOLEAN]]
        BY <1>7, <1>b DEF Leave, IInv, TypeOK
      <3>2. known' \in [Clients -> Knowledge]
        BY <2>k DEF IInv, TypeOK
      <3>3. outbox' \subseteq Row /\ broken' \subseteq Nat
        BY <1>7, <1>a, <2>e DEF IInv, TypeOK
      <3>4. QED
        BY <3>1, <3>2, <3>3, <1>7 DEF IInv, TypeOK
    <2>2. KnowledgeIsHistory'
      <3>1. ASSUME NEW d \in Clients, known'[d] # Unknown
            PROVE  /\ known'[d].version \in 1 .. version
                   /\ known'[d].phase = history[known'[d].version].target
        <4>1. CASE known'[d] = known[d]
          BY <4>1, <3>1 DEF IInv, KnowledgeIsHistory
        <4>2. CASE known'[d] = [phase |-> req[c].target,
                                version |-> EventOf(c).sequence]
          BY <4>2, <2>e, <1>a
        <4>3. QED
          BY <4>1, <4>2, <2>k
      <3>2. QED
        BY <3>1, <1>7 DEF KnowledgeIsHistory
    <2>3. RequestsFollowHistory' /\ CommitsAreRecorded'
      BY <1>7, <2>p DEF IInv, RequestsFollowHistory, CommitsAreRecorded
    <2>4. OutboxTellsTheTruth' /\ OneChainOfCommits'
      <3>1. ASSUME NEW e \in outbox'
            PROVE  /\ e.sequence \in 2 .. version
                   /\ history[e.sequence]
                        = [target |-> e.target, by |-> e.by, event |-> TRUE]
        <4>1. CASE e \in outbox
          BY <4>1 DEF IInv, OutboxTellsTheTruth
        <4>2. CASE e = EventOf(c)
          BY <4>2, <2>e
        <4>3. QED
          BY <4>1, <4>2, <1>7
      <3>2. QED
        BY <3>1, <1>7 DEF IInv, OutboxTellsTheTruth, OneChainOfCommits
    <2>5. MissingEventExplained'
      <3>1. ASSUME NEW v \in 2 .. version, history[v].event,
                   ~ \E e \in outbox' : e.sequence = v
            PROVE  \/ v \in broken'
                   \/ \E d \in Clients : pc'[d] = "committed"
                                         /\ req'[d].expected.version + 1 = v
        <4>1. \/ v \in broken
              \/ \E d \in Clients : pc[d] = "committed"
                                    /\ EventOf(d).sequence = v
          BY <3>1, <1>7 DEF IInv, MissingEventExplained, HasEvent
        <4>2. CASE v \in broken
          BY <4>2, <1>7
        <4>3. CASE v = EventOf(c).sequence
          BY <4>3, <3>1, <1>7
        <4>4. ASSUME NEW d \in Clients, pc[d] = "committed", d # c,
                     EventOf(d).sequence = v
              PROVE  pc'[d] = "committed" /\ req'[d].expected.version + 1 = v
          BY <4>4, <2>p, <1>a
        <4>5. QED
          BY <4>1, <4>2, <4>3, <4>4
      <3>2. QED
        BY <3>1, <1>7 DEF MissingEventExplained, HasEvent, EventOf
    <2>6. QED
      BY <2>1, <2>2, <2>3, <2>4, <2>5 DEF IInv
  <1>8. ASSUME NEW c \in Clients, InsertEvent(c)
        PROVE  IInv'
    BY <1>8, <1>7 DEF InsertEvent
  <1>9. ASSUME NEW c \in Clients, InsertFails(c)
        PROVE  IInv'
    BY <1>9, <1>7 DEF InsertFails
  <1>10. ASSUME NEW c \in Clients, Crash(c)
         PROVE  IInv'
    <2>. USE <1>10 DEF Crash
    <2>1. TypeOK'
      BY <1>a, <1>b DEF IInv, TypeOK, Leave
    <2>p. /\ \A d \in Clients : d # c => req'[d] = req[d]
          /\ \A d \in Clients : pc'[d] # "idle" => d # c /\ pc'[d] = pc[d]
          /\ \A d \in Clients : d # c => pc'[d] = pc[d]
          /\ \A d \in Clients : known'[d] # Unknown => known'[d] = known[d]
      BY <1>a DEF Leave, IInv, TypeOK
    <2>2. KnowledgeIsHistory'
      BY <2>p DEF IInv, KnowledgeIsHistory
    <2>3. RequestsFollowHistory' /\ CommitsAreRecorded'
      BY <2>p DEF IInv, RequestsFollowHistory, CommitsAreRecorded
    <2>4. MissingEventExplained'
      BY <2>p, <1>a DEF IInv, MissingEventExplained, HasEvent, EventOf
    <2>5. QED
      BY <2>1, <2>2, <2>3, <2>4, StoreUntouched DEF IInv
  <1>11. CASE UNCHANGED vars
    BY <1>11
    DEF vars, IInv, TypeOK, OneChainOfCommits, RequestsFollowHistory,
        CommitsAreRecorded, OutboxTellsTheTruth, KnowledgeIsHistory,
        MissingEventExplained, HasEvent, EventOf
  <1>12. QED
    BY <1>1, <1>2, <1>3, <1>4, <1>5, <1>6, <1>8, <1>9, <1>10, <1>11 DEF Next

\* The invariant holds of every behaviour.
THEOREM InvariantHolds == Spec => []IInv
  <1>1. QED
    BY InitInvariant, NextInvariant, PTL DEF Spec

(***************************************************************************)
(* Every variable keeps its type, for any number of callers and versions.  *)
(***************************************************************************)
THEOREM TypeCorrect == Spec => []TypeOK
  <1>1. IInv => TypeOK
    BY DEF IInv
  <1>2. QED
    BY <1>1, InvariantHolds, PTL

(***************************************************************************)
(* compareAndSwapRun serializes any number of callers: the versions of a   *)
(* run form one chain of permitted transitions, however stale their        *)
(* knowledge and whatever fails.                                           *)
(***************************************************************************)
THEOREM CommitsFormOneChain == Spec => []OneChainOfCommits
  <1>1. IInv => OneChainOfCommits
    BY DEF IInv
  <1>2. QED
    BY <1>1, InvariantHolds, PTL

(***************************************************************************)
(* No outbox row ever names a transition that did not happen, or another   *)
(* caller's: each describes the commit of its own sequence.                *)
(***************************************************************************)
THEOREM OutboxIsTrue == Spec => []OutboxTellsTheTruth
  <1>1. IInv => OutboxTellsTheTruth
    BY DEF IInv
  <1>2. QED
    BY <1>1, InvariantHolds, PTL

(***************************************************************************)
(* A getRun result or a successful transition() is never a fiction: it is  *)
(* a point of the run's history, at worst an old one.                      *)
(***************************************************************************)
THEOREM CallersKnowHistory == Spec => []KnowledgeIsHistory
  <1>1. IInv => KnowledgeIsHistory
    BY DEF IInv
  <1>2. QED
    BY <1>1, InvariantHolds, PTL

(***************************************************************************)
(* An event is missing only where its caller is still on its way to insert *)
(* it or was cut off between the UPDATE and the INSERT.                    *)
(***************************************************************************)
THEOREM GapsAreExplained == Spec => []MissingEventExplained
  <1>1. IInv => MissingEventExplained
    BY DEF IInv
  <1>2. QED
    BY <1>1, InvariantHolds, PTL

-----------------------------------------------------------------------------
\* A step that commits is a transition of the abstract run; every other
\* step leaves the run alone.
LEMMA StepsRefine == IInv /\ [Next]_vars => [Abstract!Next]_(Abstract!vars)
  <1> SUFFICES ASSUME IInv, [Next]_vars
               PROVE  \/ Abstract!Next
                      \/ phase' = phase /\ version' = version
    BY DEF Abstract!vars
  <1>1. ASSUME NEW c \in Clients, pc[c] = "checked", Commit(c)
        PROVE  Abstract!Next
    <2>1. /\ version' = version + 1
          /\ phase' \in Phase
      BY <1>1, CommitStep
    <2>2. /\ phase' = req[c].target
          /\ req[c].expected.phase = phase
      BY <1>1 DEF Commit, RowMatches, Current
    <2>3. canTransition(phase, phase')
      BY <1>1, <2>2 DEF IInv, RequestsFollowHistory
    <2>4. QED
      BY <2>1, <2>3
      DEF Abstract!Next, Abstract!Transition, Abstract!Phase, Phase,
          Abstract!canTransition, canTransition,
          Abstract!ALLOWED_TRANSITIONS, ALLOWED_TRANSITIONS
  <1>2. QED
    BY <1>1
    DEF Next, vars, GetRun, ReadAndCheck, CasReturns, CasAwaitsEvent,
        CasConflict, CasReplyLost, InsertEvent, InsertFails, Crash

(***************************************************************************)
(* The implementation refines the abstract run: every step of every caller *)
(* is one permitted transition with the next version, or changes neither.  *)
(***************************************************************************)
THEOREM Refinement == Spec => ImplementsRunPhases
  <1>1. Init => Abstract!Init
    BY DEF Init, Abstract!Init
  <1>2. QED
    BY <1>1, StepsRefine, InvariantHolds, PTL
    DEF Spec, ImplementsRunPhases, Abstract!Spec
=============================================================================
