--------------------------- MODULE MergeAndDeploy ---------------------------
(***************************************************************************)
(* From a pull request to a deployment (core/prMergeCoordinator.ts,        *)
(* core/continuousDeployment.ts): the operator asks for a merge, GitHub    *)
(* reports an approval, a label or a merge by webhooks, which may come     *)
(* late and more than once, and reviewers act between any two requests.    *)
(***************************************************************************)
EXTENDS DeliveryStore, FiniteSetsExt

CONSTANTS
  Merges,      \* POST merge-pr
  OptionsOf,   \* the requireApproval and deploy flags each of them may carry
  Webhooks     \* deliveries of webhooks

Coordinations == Merges \cup Webhooks

VARIABLES
  merge,      \* where each of them is
  events,     \* what GitHub has to report
  deployed    \* the commits that deployments were triggered with

mergeVars == <<merge, events, deployed>>

NoMerge ==
  [pc |-> "idle", pull |-> 0, approval |-> FALSE, checked |-> FALSE,
   deploy |-> TRUE, head |-> 0]

MergeSteps ==
  {"idle", "attest", "resolve", "details", "reviews", "merge", "record", "deploy",
   "done", "failed"}

ASSUME OptionsAssumption ==
  \A m \in Merges : OptionsOf[m] \subseteq [approval : BOOLEAN, deploy : BOOLEAN]

MergeTypeOK ==
  /\ \A m \in Coordinations :
       /\ merge[m].pc \in MergeSteps
       /\ merge[m].pull \in 0..Len(pulls) /\ merge[m].head \in 0..Len(commits)
       /\ merge[m].approval \in BOOLEAN /\ merge[m].deploy \in BOOLEAN
       /\ merge[m].checked \in BOOLEAN
  /\ \A e \in events :
       e.is \in {"approved", "labeled", "closed"} /\ e.pull \in 1..Len(pulls)
  /\ deployed \subseteq 1..Len(commits)

MergeInit ==
  /\ merge = [m \in Coordinations |-> NoMerge]
  /\ events = {} /\ deployed = {}

-----------------------------------------------------------------------------
In(m, pc) == merge[m].pc = pc
Let(m, l) == merge' = [merge EXCEPT ![m] = l]
Go(m, pc) == Let(m, [merge[m] EXCEPT !.pc = pc])
Ends(m) == Fault /\ Go(m, "failed")
Elsewhere == UNCHANGED <<events, deployed>>

\* The head of the branch, of which GitHub merges whatever it is then.
Reports(is, p) == events' = events \cup {[is |-> is, pull |-> p]}

\* POST merge-pr, which may name a pull request.
RequestMerge(m, p, options) ==
  /\ m \in workload /\ In(m, "idle") /\ run.phase # "none"
  /\ p \in 0..Len(pulls)
  /\ Let(m, [NoMerge EXCEPT !.pc = "attest", !.pull = p,
                            !.approval = options.approval,
                            !.checked = options.approval,
                            !.deploy = options.deploy])
  /\ NoFault /\ UNCHANGED deliveryVars /\ Elsewhere

\* handleWebhookEvent: an approval or a label merges without asking for the
\* reviews; a merge, whoever made it, is deployed.
DeliverWebhook(m, e) ==
  /\ m \in workload /\ In(m, "idle") /\ e \in events
  /\ Let(m, IF e.is = "closed"
            THEN [NoMerge EXCEPT !.pc = "deploy", !.pull = e.pull,
                                 !.head = pulls[e.pull].head]
            ELSE [NoMerge EXCEPT !.pc = "attest", !.pull = e.pull,
                                 !.checked = e.is = "approved"])
  /\ NoFault /\ UNCHANGED deliveryVars /\ Elsewhere

IsAttested ==
  \E e \in 1..Len(ledger) : ledger[e].is \in {"authorized", "committed"}

\* The first published pull request on record: 0 if there is none.
PublishedPull ==
  LET found == {e \in 1..Len(ledger) : ledger[e].is = "published" /\ ledger[e].of # 0}
  IN IF found = {} THEN 0 ELSE ledger[Min(found)].of

\* Any harvest on record will do, of whichever commit, and none is needed if
\* an approval is.
Attest(m) ==
  /\ In(m, "attest")
  /\ LET p == IF merge[m].pull # 0 THEN merge[m].pull ELSE PublishedPull IN
     \/ /\ NoFault /\ (IsAttested \/ merge[m].approval)
        /\ Let(m, [merge[m] EXCEPT !.pull = p,
                     !.pc = IF p = 0 THEN "resolve" ELSE "details"])
     \/ NoFault /\ ~IsAttested /\ ~merge[m].approval /\ Go(m, "failed")
     \/ Ends(m)
  /\ UNCHANGED deliveryVars /\ Elsewhere

\* A pull request for the branch is opened, or found.
ResolvePull(m) ==
  /\ In(m, "resolve")
  /\ \/ \E n \in PullIds :
          /\ CreatePull(n)
          /\ Let(m, [merge[m] EXCEPT !.pc = "details", !.pull = n])
     \/ CreatePullFails /\ Go(m, "failed")
  /\ ExceptGitHub /\ Elsewhere

\* One that is merged already is deployed again.
GetPullRequest(m) ==
  /\ In(m, "details")
  /\ LET l == merge[m] IN
     \/ /\ NoFault /\ pulls[l.pull].merged
        /\ Let(m, [l EXCEPT !.head = pulls[l.pull].head,
                            !.pc = IF l.deploy THEN "deploy" ELSE "done"])
     \/ /\ NoFault /\ ~pulls[l.pull].merged
        /\ Go(m, IF l.approval THEN "reviews" ELSE "merge")
     \/ Ends(m)
  /\ UNCHANGED deliveryVars /\ Elsewhere

\* Mutant: a failed request for the reviews is taken for an approval.
TakeReviewsForGranted(m) ==
  /\ In(m, "reviews")
  /\ \/ NoFault /\ pulls[merge[m].pull].approvals # {} /\ Go(m, "merge")
     \/ NoFault /\ pulls[merge[m].pull].approvals = {} /\ Go(m, "failed")
     \/ Fault /\ Go(m, "merge")
  /\ UNCHANGED deliveryVars /\ Elsewhere

\* An approval of any head will do; a failed request counts as no reviews.
GetReviews(m) ==
  /\ In(m, "reviews")
  /\ \/ NoFault /\ pulls[merge[m].pull].approvals # {} /\ Go(m, "merge")
     \/ NoFault /\ pulls[merge[m].pull].approvals = {} /\ Go(m, "failed")
     \/ Ends(m)
  /\ UNCHANGED deliveryVars /\ Elsewhere

GitHubMerges(p, checked) ==
  /\ Opened(p)
  /\ pulls' = [pulls EXCEPT ![p].merged = TRUE, ![p].head = branch,
                            ![p].checked = checked]
  /\ Reports("closed", p)

\* GitHub merges an open pull request; the lost answer of a merge is an error.
MergePullRequest(m) ==
  /\ In(m, "merge")
  /\ LET l == merge[m] IN
     \/ /\ NoFault /\ GitHubMerges(l.pull, l.checked)
        /\ Let(m, [l EXCEPT !.pc = "record", !.head = branch])
     \/ /\ NoFault /\ ~Opened(l.pull) /\ Go(m, "failed")
        /\ UNCHANGED <<pulls, events>>
     \/ /\ Ends(m)
        /\ UNCHANGED <<pulls, events>> \/ GitHubMerges(l.pull, l.checked)
  /\ UNCHANGED <<run, envelopes, ledger, commits, branch, deployed>>

\* Without the record there is no deployment from here.
RecordMerge(m) ==
  /\ In(m, "record")
  /\ \/ /\ Recorded("merged", merge[m].pull)
        /\ Go(m, IF merge[m].deploy THEN "deploy" ELSE "done")
     \/ RecordThrows("merged", merge[m].pull) /\ Go(m, "failed")
  /\ ExceptLedger /\ Elsewhere

\* triggerDeployment: the script, the probe and its record may fail, which is
\* reported; nothing keeps a commit from being deployed again.
Deploy(m) ==
  /\ In(m, "deploy")
  /\ deployed' = deployed \cup {merge[m].head}
  /\ Go(m, "done")
  /\ NoFault /\ UNCHANGED deliveryVars /\ UNCHANGED events

\* GET pr-status: without a pull request on record it opens one.
QueryPullStatus ==
  /\ "status" \in workload /\ PublishedPull = 0
  /\ (\E n \in PullIds : CreatePull(n)) \/ CreatePullFails
  /\ ExceptGitHub /\ UNCHANGED mergeVars

-----------------------------------------------------------------------------
(* Reviewers *)

Approve(p) ==
  /\ "approve" \in workload /\ Opened(p) /\ branch \notin pulls[p].approvals
  /\ pulls' = [pulls EXCEPT ![p].approvals = @ \cup {branch}]
  /\ Reports("approved", p)
  /\ NoFault /\ UNCHANGED <<run, envelopes, ledger, commits, branch, merge, deployed>>

Label(p) ==
  /\ "label" \in workload /\ Opened(p)
  /\ Reports("labeled", p)
  /\ NoFault /\ UNCHANGED deliveryVars /\ UNCHANGED <<merge, deployed>>

MergeNext ==
  \/ \E m \in Merges, p \in {0} \cup PullIds :
       \E options \in OptionsOf[m] : RequestMerge(m, p, options)
  \/ \E m \in Webhooks, e \in events : DeliverWebhook(m, e)
  \/ \E m \in Coordinations :
       \/ Attest(m) \/ ResolvePull(m) \/ GetPullRequest(m) \/ GetReviews(m)
       \/ MergePullRequest(m) \/ RecordMerge(m) \/ Deploy(m)
  \/ QueryPullStatus
  \/ \E p \in PullIds : Approve(p) \/ Label(p)

-----------------------------------------------------------------------------
\* Whatever is merged is a commit whose harvest is on record, and whatever is
\* deployed has been merged, however webhooks are repeated and answers lost.
MergedIsAttested ==
  /\ \A p \in 1..Len(pulls) :
       pulls[p].merged =>
         \E e \in 1..Len(ledger) : ledger[e] = Says("committed", pulls[p].head)
  /\ \A c \in deployed :
       \E p \in 1..Len(pulls) : pulls[p].merged /\ pulls[p].head = c

\* A merge that asked for an approval, or was set off by one, merges what was
\* approved, unless the branch was pushed again after the approval: GitHub is
\* not told which head is meant.
MergedHeadIsReviewed ==
  \A p \in 1..Len(pulls) :
    pulls[p].merged /\ pulls[p].checked =>
      /\ pulls[p].approvals # {}
      /\ pulls[p].head \in pulls[p].approvals \/ pulls[p].repushed
=============================================================================
