-------------------------- MODULE InferenceBroker --------------------------
(***************************************************************************)
(* brokerChat (core/inferenceBroker.ts): the budget of the run is read and *)
(* compared with its limit, the worker infers, and the budget that was     *)
(* read is written back with the cost added.  Inferences of one run        *)
(* overlap; a request may end without an answer although the worker has    *)
(* served it.  Money is counted in the smallest unit the code keeps.       *)
(***************************************************************************)
EXTENDS FleetStore, Functions

CONSTANTS
  Chats,      \* requests of agents
  Limit,      \* max_cost_cents
  MaxCharge   \* the most one inference costs

ASSUME BudgetAssumption == Limit \in Nat /\ MaxCharge \in Nat

VARIABLES
  spent,      \* current_cost_cents of each run
  chat,       \* where each request is and what it read
  billed,     \* auxiliary: what the worker has served
  uncounted   \* auxiliary: runs of which an inference was lost to the budget

brokerVars == <<spent, chat, billed, uncounted>>

NoChat == [pc |-> "idle", run |-> 0, read |-> 0, cost |-> 0]

Chat ==
  [pc : {"idle", "read", "worker", "infer", "write", "done", "failed"},
   run : 0..MaxRuns, read : Nat, cost : 0..MaxCharge]

BrokerTypeOK ==
  /\ spent \in [RunIds -> Nat]
  /\ chat \in [Chats -> Chat]
  /\ billed \in [RunIds -> Nat]
  /\ uncounted \subseteq RunIds

BrokerInit ==
  /\ spent = [r \in RunIds |-> 0]
  /\ chat = [c \in Chats |-> NoChat]
  /\ billed = [r \in RunIds |-> 0]
  /\ uncounted = {}

At(c, pc) == chat' = [chat EXCEPT ![c].pc = pc]

-----------------------------------------------------------------------------
\* A model outside the allowlist is refused before anything is read.
BeginChat(c, r, allowed) ==
  /\ c \in workload /\ chat[c].pc = "idle"
  /\ chat' = [chat EXCEPT ![c] =
       [NoChat EXCEPT !.pc = IF allowed THEN "read" ELSE "failed", !.run = r]]
  /\ NoFault /\ UNCHANGED <<spent, billed, uncounted>>

\* Mutant: the last cent may be spent twice.
MaySpendAtLimit(r) == r \in Rows /\ spent[r] <= Limit

\* A run is refused when it is unknown or has spent its limit.
MaySpend(r) == r \in Rows /\ spent[r] < Limit

ReadBudget(c) ==
  /\ chat[c].pc = "read"
  /\ \/ /\ NoFault /\ MaySpend(chat[c].run)
        /\ chat' = [chat EXCEPT ![c].pc = "worker",
                                ![c].read = spent[chat[c].run]]
     \/ NoFault /\ ~MaySpend(chat[c].run) /\ At(c, "failed")
     \/ Fault /\ At(c, "failed")
  /\ UNCHANGED <<spent, billed, uncounted>>

\* The endpoint is configured, or an authorized device with the tag of the
\* private workers, or the local default: an error of the list is caught.
ResolveWorker(c) ==
  /\ chat[c].pc = "worker"
  /\ NoFault /\ At(c, "infer")
  /\ UNCHANGED <<spent, billed, uncounted>>

\* calculateCostCents: at least one unit when tokens were reported, nothing
\* when the worker reports no usage.  A request that fails may have been served.
Infer(c) ==
  /\ chat[c].pc = "infer"
  /\ \E cost \in 0..MaxCharge :
       LET r == chat[c].run IN
       /\ billed' = [billed EXCEPT ![r] = @ + cost]
       /\ \/ /\ NoFault
             /\ chat' = [chat EXCEPT ![c].pc = "write", ![c].cost = cost]
             /\ UNCHANGED uncounted
          \/ /\ Fault
             /\ At(c, "failed")
             /\ uncounted' = uncounted \cup {r : x \in 1..cost}
  /\ UNCHANGED spent

\* Mutant: as an increment by one who has not read the store again.
NewCostTwice(c) == chat[c].read + 2 * chat[c].cost

\* The whole budget is written, from what was read before the inference.
NewCost(c) == chat[c].read + chat[c].cost

WriteBudget(c) ==
  /\ chat[c].pc = "write"
  /\ LET r == chat[c].run
         written == [spent EXCEPT ![r] = NewCost(c)] IN
     \/ /\ NoFault /\ At(c, "done") /\ spent' = written
        /\ uncounted' = IF chat[c].read = spent[r] THEN uncounted
                        ELSE uncounted \cup {r}
     \/ /\ Fault /\ At(c, "failed") /\ spent' \in {written, spent}
        /\ uncounted' = uncounted \cup {r}
  /\ UNCHANGED billed

ChatsDie ==
  /\ chat' = [c \in Chats |->
       IF chat[c].pc \in {"read", "worker", "infer", "write"}
       THEN [chat[c] EXCEPT !.pc = "failed"] ELSE chat[c]]
  /\ uncounted' = uncounted \cup
       {chat[c].run : c \in {x \in Chats : chat[x].pc = "write"}}
  /\ UNCHANGED <<spent, billed>>

BrokerNext ==
  /\ \E c \in Chats :
       \/ \E r \in RunIds, allowed \in BOOLEAN : BeginChat(c, r, allowed)
       \/ ReadBudget(c)
       \/ ResolveWorker(c)
       \/ Infer(c)
       \/ WriteBudget(c)
  /\ UNCHANGED storeVars

-----------------------------------------------------------------------------
\* Whatever overlaps and fails, the stored cost is never more than what was
\* served, and never above the limit by a whole inference or more: a request
\* starts only from a budget below the limit.
StoredCostIsSound ==
  \A r \in RunIds :
    /\ spent[r] <= billed[r]
    /\ Limit > 0 => spent[r] < Limit + MaxCharge

\* The store counts every inference, those about to be written included, until
\* two of them overlap or one fails after it was served.
Pending(r) == {c \in Chats : chat[c].pc = "write" /\ chat[c].run = r}

Costs == [c \in Chats |-> chat[c].cost]

SpendIsMeteredUnlessRaced ==
  \A r \in RunIds :
    r \notin uncounted =>
      billed[r] = spent[r] + SumFunctionOnSet(Costs, Pending(r))
=============================================================================
