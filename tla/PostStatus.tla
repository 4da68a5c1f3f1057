----------------------------- MODULE PostStatus -----------------------------
(***************************************************************************)
(* The lifecycle statuses of posts and post_targets (internal/models/      *)
(* post.go) and the pure resolver that derives a post's status from the    *)
(* statuses of its targets (internal/models/post_aggregate_status.go).     *)
(* Every persistence path calls the same resolver.                         *)
(***************************************************************************)

\* models.PostStatus: the values IsValid accepts.
PostStatuses ==
  {"draft", "queued", "publishing", "published", "partially_published",
   "failed", "waiting_provider", "retrying", "dlq", "blocked_auth",
   "drive_required_failed"}

\* PostStatus.IsTerminal.
TerminalStatuses ==
  {"published", "partially_published", "failed", "dlq", "blocked_auth",
   "drive_required_failed"}

\* The statuses ListPending and ClaimQueuedTargetWithLease accept.
PendingStatuses == {"queued", "waiting_provider", "retrying"}

\* The statuses the resolver counts as a failed destination.  (Its alias
\* 'dead_letter' for 'dlq' fails IsValid and is written by nobody.)
FailedStatuses == {"failed", "dlq", "blocked_auth", "drive_required_failed"}

\* Mutant: a published destination outweighs the failed ones.
ResolveOptimistic(S) ==
  IF S = {} THEN "draft"
  ELSE IF "publishing" \in S THEN "publishing"
  ELSE IF S \cap PendingStatuses # {} THEN "queued"
  ELSE IF "published" \in S THEN "published"
  ELSE "failed"

\* Resolve over the set S of the statuses of a post's targets: the loop only
\* computes "all" and "any" flags, so the multiset of statuses is irrelevant.
Resolve(S) ==
  IF S = {} THEN "draft"
  ELSE IF S = {"published"} THEN "published"
  ELSE IF "publishing" \in S THEN "publishing"
  ELSE IF "retrying" \in S THEN "retrying"
  ELSE IF "waiting_provider" \in S THEN "waiting_provider"
  ELSE IF "queued" \in S THEN "queued"
  ELSE IF S \cap {"published", "partially_published"} # {} THEN "partially_published"
  ELSE IF S \subseteq FailedStatuses THEN "failed"
  ELSE IF S = {"draft"} THEN "draft"
  ELSE "failed"
=============================================================================
