------------------------------ MODULE MCFleet ------------------------------
(***************************************************************************)
(* A small instance of Fleet.  The state space is the sum of the scenarios *)
(* and not their product.                                                  *)
(***************************************************************************)
EXTENDS Fleet

Worker ==
  [owner |-> 0, tags |-> FORBIDDEN_SANDBOX_TAGS, router |-> FALSE,
   sbxName |-> FALSE, authorized |-> TRUE, expired |-> FALSE, there |-> TRUE]

\* Any device that belongs to no run of the store.
Strangers ==
  [owner : {0, MaxRuns + 1}, tags : SUBSET (SandboxTags \cup FORBIDDEN_SANDBOX_TAGS),
   router : BOOLEAN, sbxName : BOOLEAN, authorized : BOOLEAN,
   expired : BOOLEAN, there : {TRUE}]

Quiet(may, n) == [may |-> may, faults |-> n, tailnet |-> << >>]

MCKeysOf ==
  [a \in Admissions |->
     CASE a \in {"a1", "a3"} -> {"k1"}
       [] a = "a2" -> {"k1", "k2", NoKey}
       [] OTHER -> {NoKey}]

MCScenarios ==
  { Quiet({"a1", "a2", "crash"}, 2),
    Quiet({"a3"}, 0),
    Quiet({"a2", "live", "provisioning", "crash"}, 1),
    Quiet({"a1", "c1", "c2"}, 2),
    Quiet({"a1", "c1", "crash"}, 2),
    Quiet({"a1", "join", "age", "daemon"} \cup Phase, 1),
    Quiet({"a1", "join", "crash", "daemon"} \cup Phase, 1),
    Quiet({"a1", "a4", "a5", "provisioning", "crash"}, 1) }
  \cup [may : {{"daemon", "p1"}}, faults : {1}, tailnet : {<<d>> : d \in Strangers}]
=============================================================================
