-------------------------- MODULE PublishPipeline --------------------------
(***************************************************************************)
(* The publishing pipeline: the post_targets rows of one post, the publish *)
(* driver (PublishWorker) and the reconciler (ReconcileWorker) of every    *)
(* worker process, the API operations of the post's owner, and the         *)
(* provider that the publications reach.                                   *)
(*                                                                         *)
(* One committed SQL transaction is one step.  A worker's local state      *)
(* between two transactions (the row it listed, the provider's answer it   *)
(* carries) is kept in job and rjob, so every interleaving of the two      *)
(* goroutines of several processes, of the owner and of the clock is       *)
(* explored.  Timestamps are compared with the database's NOW() only, and  *)
(* are therefore abstracted to "due" or "live" flags that time flips.      *)
(***************************************************************************)
EXTENDS PostStatus, Naturals, FiniteSets

CONSTANTS
  Targets,       \* the post_targets rows of the post
  Workers,       \* worker processes; a restarted process has a new worker id
  NoOne,         \* SQL NULL in an owner column
  AsyncTargets,  \* targets whose platform implements AsyncPublisher
  YouTube,       \* targets of YouTube accounts
  Exports,       \* targets of Google Drive accounts
  MaxReconcile,  \* reconcileMaxAttempts
  MaxSends,      \* bound: publications a provider accepts per target
  UserOps,       \* the API operations of this instance
  MaxUserOps,    \* bound: API calls
  Faults         \* the faults of this instance: "crash", "drop", "stall",
                 \* "lost" (an answer), "noid" (an answer without an id)

ASSUME PipelineAssumption ==
  /\ NoOne \notin Workers
  /\ AsyncTargets \subseteq Targets
  /\ YouTube \subseteq Targets
  /\ Exports \subseteq Targets \ (AsyncTargets \cup YouTube)
  /\ MaxReconcile \in Nat \ {0}
  /\ MaxSends \in Nat \ {0}
  /\ MaxUserOps \in Nat

VARIABLES
  row,    \* post_targets, one record per target
  post,   \* posts.status
  dirty,  \* the post is in post_aggregate_repair_queue
  held,   \* process holding the post's row lock in a transaction it never ends
  up,     \* running worker processes
  job,    \* job[w][t]: the driver goroutine of process w on target t
  rjob,   \* rjob[w][t]: the reconciler of process w on target t
  pub,    \* provider side: the state of publication n of each target
  fails,  \* history: transient poll failures of t since it was last claimed
  ops,    \* API calls made so far
  fromUpload  \* posts.upload_job_id is set: the upload worker made the post

vars == <<row, post, dirty, held, up, job, rjob, pub, fails, ops, fromUpload>>

Ids == 1..MaxSends        \* a platform_post_id; 0 is the empty string

\* "live": the provider carried the publication out as it was asked to;
\* "unnamed": it is processing one whose id nobody was told.
PubStates == {"none", "processing", "live", "rejected", "unnamed"}

\* post_targets: due stands for next_attempt_at/next_retry_at <= NOW(),
\* pollDue for next_reconcile_at <= NOW(), recLive for reconcile_until > NOW().
Row == [status : PostStatuses, pid : Ids \cup {0}, owner : Workers \cup {NoOne},
        due : BOOLEAN, recOwner : Workers \cup {NoOne}, recLive : BOOLEAN,
        recAttempt : 0..(MaxReconcile - 1), pollDue : BOOLEAN]

Job == [pc : {"idle", "listed", "owned", "sent", "gate"},
        pid : Ids \cup {0}, to : {"publishing", "published"}]
RJob == [pc : {"idle", "listed", "polling"},
         pid : Ids \cup {0}, attempt : 0..(MaxReconcile - 1)]

IdleJob == [pc |-> "idle", pid |-> 0, to |-> "published"]
IdleRJob == [pc |-> "idle", pid |-> 0, attempt |-> 0]

TypeOK ==
  /\ row \in [Targets -> Row]
  /\ post \in PostStatuses
  /\ dirty \in BOOLEAN
  /\ held \in Workers \cup {NoOne}
  /\ up \subseteq Workers
  /\ job \in [Workers -> [Targets -> Job]]
  /\ rjob \in [Workers -> [Targets -> RJob]]
  /\ pub \in [Targets -> [Ids -> PubStates]]
  /\ fails \in [Targets -> 0..MaxReconcile]
  /\ ops \in 0..MaxUserOps
  /\ fromUpload \in BOOLEAN

NewRow(s) == [status |-> s, pid |-> 0, owner |-> NoOne, due |-> TRUE,
              recOwner |-> NoOne, recLive |-> FALSE, recAttempt |-> 0,
              pollDue |-> TRUE]

Aggregate(r) == Resolve({r[t].status : t \in Targets})

\* PostRepository.Create inserts the post and its targets in one transaction,
\* all with the status of the request; the insert trigger marks the post dirty.
Init ==
  /\ \E s \in {"draft", "queued"} :
       row = [t \in Targets |-> NewRow(s)]
  /\ post = Aggregate(row)
  /\ dirty = TRUE
  /\ held = NoOne
  /\ up = Workers
  /\ job = [w \in Workers |-> [t \in Targets |-> IdleJob]]
  /\ rjob = [w \in Workers |-> [t \in Targets |-> IdleRJob]]
  /\ pub = [t \in Targets |-> [i \in Ids |-> "none"]]
  /\ fails = [t \in Targets |-> 0]
  /\ ops = 0
  /\ fromUpload \in BOOLEAN

-----------------------------------------------------------------------------
(* The repository's transactions.                                          *)

\* A transaction that may change target statuses takes the post's row lock;
\* when it commits, the triggers of migration 105 have marked the post dirty
\* and persistAggregatePostStatusLockedTx has recomputed posts.status.
Commit(r) ==
  /\ held = NoOne
  /\ row' = r
  /\ post' = IF r = row THEN post ELSE Aggregate(r)
  /\ dirty' = (dirty \/ \E t \in Targets : r[t].status # row[t].status)
  /\ UNCHANGED held

\* Mutant: a row another process is publishing may be claimed again.
ClaimableBusy(t) == row[t].status \in PendingStatuses \cup {"publishing"} /\ row[t].due

\* ClaimQueuedTargetWithLease's SELECT ... FOR UPDATE SKIP LOCKED predicate.
Claimable(t) == row[t].status \in PendingStatuses /\ row[t].due

\* The claim's UPDATE, with the migration-108 trigger on entering 'publishing'.
Claimed(w, t) ==
  [row EXCEPT ![t] = [@ EXCEPT !.status = "publishing", !.owner = w,
                               !.recAttempt = 0, !.pollDue = TRUE,
                               !.recOwner = NoOne, !.recLive = FALSE]]

\* The driver-lease CAS of UpdateStatusWithLease and of the rate-limit write.
HoldsClaim(w, t) == row[t].owner = w /\ row[t].status = "publishing"

\* UpdateStatusWithLease: the lease is kept only while the row stays
\* 'publishing'.  On a stale CAS the function returns a fresh error while its
\* local err is nil, so the deferred rollback does not run: the transaction
\* stays open and keeps the post's row lock.
UpdateStatusWithLease(w, t, s, p) ==
  IF HoldsClaim(w, t)
  THEN Commit([row EXCEPT ![t] = [@ EXCEPT !.status = s, !.pid = p,
                 !.owner = IF s = "publishing" THEN w ELSE NoOne]])
  ELSE /\ held = NoOne
       /\ held' = w
       /\ UNCHANGED <<row, post, dirty>>

\* Mutant: the retry is scheduled but the status stays 'publishing'.
RetriedInPlace(w, t) ==
  IF row[t].owner = w THEN [row EXCEPT ![t].owner = NoOne, ![t].due = FALSE] ELSE row

\* MarkRetrying: CAS on the driver lease only.
Retried(w, t) ==
  IF row[t].owner = w
  THEN [row EXCEPT ![t] = [@ EXCEPT !.status = "retrying", !.owner = NoOne,
                                    !.due = FALSE]]
  ELSE row

\* MarkRateLimitedRetryWithLease: CAS on the lease and on 'publishing'.
RateLimited(w, t) ==
  IF HoldsClaim(w, t)
  THEN [row EXCEPT ![t] = [@ EXCEPT !.status = "queued", !.owner = NoOne,
                                    !.due = FALSE]]
  ELSE row

\* Mutant: a lease is only free once it was released.
PollableUnowned(t) ==
  /\ row[t].status = "publishing"
  /\ row[t].pid # 0
  /\ row[t].pollDue
  /\ row[t].recOwner = NoOne

\* The predicate shared by ListPublishing and ClaimPublishingTarget.
Pollable(t) ==
  /\ row[t].status = "publishing"
  /\ row[t].pid # 0
  /\ row[t].pollDue
  /\ row[t].recOwner = NoOne \/ ~row[t].recLive

\* The owner-and-expiry CAS of every write of the reconciler.
OwnsPoll(w, t) ==
  /\ row[t].status = "publishing"
  /\ row[t].recOwner = w
  /\ row[t].recLive

\* Mutant: an unconditional UPDATE by id, taken to be idempotent.
ReconcileStatusById(w, t, s, p) ==
  [row EXCEPT ![t] = [@ EXCEPT !.status = s, !.pid = p,
                               !.recOwner = NoOne, !.recLive = FALSE]]

\* UpdateReconcileStatusWithLease: writes the status, the caller's copy of
\* platform_post_id, and releases the reconcile lease (not the driver lease).
ReconcileStatus(w, t, s, p) ==
  IF OwnsPoll(w, t)
  THEN [row EXCEPT ![t] = [@ EXCEPT !.status = s, !.pid = p,
                                    !.recOwner = NoOne, !.recLive = FALSE]]
  ELSE row

\* ReleaseReconcileTarget, deferred by reconcileTarget.
Released(w, t) ==
  IF OwnsPoll(w, t)
  THEN [row EXCEPT ![t] = [@ EXCEPT !.recOwner = NoOne, !.recLive = FALSE]]
  ELSE row

\* ScheduleNextReconcileWithLease; when its CAS on the attempt fails the
\* deferred release is all that happens.
Scheduled(w, t, attempt, inc) ==
  IF OwnsPoll(w, t) /\ row[t].recAttempt = attempt /\ row[t].pid # 0
  THEN [row EXCEPT ![t] = [@ EXCEPT !.recAttempt = attempt + inc, !.pollDue = FALSE,
                                    !.recOwner = NoOne, !.recLive = FALSE]]
  ELSE Released(w, t)

-----------------------------------------------------------------------------
(* The publish driver of process w: tick, then publishTarget per target.   *)

\* tick: ListPending; the next tick starts when the whole batch is done.
ListPending(w) ==
  /\ w \in up
  /\ \A t \in Targets : job[w][t].pc = "idle"
  /\ \E t \in Targets : Claimable(t)
  /\ job' = [job EXCEPT ![w] = [t \in Targets |->
               IF Claimable(t) THEN [IdleJob EXCEPT !.pc = "listed", !.pid = row[t].pid]
               ELSE IdleJob]]
  /\ UNCHANGED <<row, post, dirty, held, up, rjob, pub, fails, ops, fromUpload>>

\* Mutant: the claim trusts the listing and does not select the row again.
ClaimUnchecked(w, t) ==
  /\ w \in up
  /\ job[w][t].pc = "listed"
  /\ Commit(Claimed(w, t))
  /\ job' = [job EXCEPT ![w][t].pc = "owned"]
  /\ fails' = [fails EXCEPT ![t] = 0]
  /\ UNCHANGED <<up, rjob, pub, ops, fromUpload>>

\* claimTarget: the loser of the race skips the target.
Claim(w, t) ==
  /\ w \in up
  /\ job[w][t].pc = "listed"
  /\ IF Claimable(t)
     THEN /\ Commit(Claimed(w, t))
          /\ job' = [job EXCEPT ![w][t].pc = "owned"]
          /\ fails' = [fails EXCEPT ![t] = 0]
     ELSE /\ job' = [job EXCEPT ![w][t] = IdleJob]
          /\ UNCHANGED <<row, post, dirty, held, fails>>
  /\ UNCHANGED <<up, rjob, pub, ops, fromUpload>>

\* The driver's goroutine leaves publishTarget before Publish succeeded.
Finish(w, t) ==
  /\ w \in up
  /\ job[w][t].pc = "owned"
  /\ job' = [job EXCEPT ![w][t] = IdleJob]
  /\ UNCHANGED <<up, rjob, fails, ops, fromUpload>>

\* markFailed: post/account/media/capability/translation/token errors, a
\* transient channel-binding error, or an error of Publisher.Publish.
MarkFailed(w, t) == Finish(w, t) /\ Commit(Retried(w, t)) /\ UNCHANGED pub

\* updateTargetStatus with the row's platform_post_id as it was listed.
Abandon(w, t, s) ==
  Finish(w, t) /\ UpdateStatusWithLease(w, t, s, job[w][t].pid) /\ UNCHANGED pub

\* markPublishBlockedAuth: reauthorisation, channel mismatch, canary refusal.
MarkBlockedAuth(w, t) == Abandon(w, t, "blocked_auth")

\* ensureProviderIdempotencyKey on ErrProviderIdempotencyConflict; a Drive
\* export never asks for a key.
KeyConflict(w, t) == t \notin Exports /\ Abandon(w, t, "failed")

\* publishYouTubePhase2 cannot look up the delivery row of a YouTube target, or
\* the state of its video: the claim is rolled back.
RollBackClaim(w, t) == t \in YouTube /\ Abandon(w, t, "queued")

\* publishYouTubePhase2's last gate looks at the post's upload_job_id and not at
\* the platform: a target of any platform but Drive waits for the upload worker.
AwaitUpload(w, t) ==
  fromUpload /\ t \notin Exports /\ Abandon(w, t, "waiting_provider")

\* The targets that reach executePublish.
Direct(t) == ~fromUpload /\ t \notin Exports

\* executePublish on a rate-limit error: markRateLimited.
MarkRateLimited(w, t) ==
  Direct(t) /\ Finish(w, t) /\ Commit(RateLimited(w, t)) /\ UNCHANGED pub

\* What the provider does with an accepted publication it answers with id p: an
\* asynchronous platform goes on processing it, and without an id (p = 0)
\* nobody can ask for the outcome.
Outcome(t, p) ==
  IF t \notin AsyncTargets THEN "live" ELSE IF p # 0 THEN "processing" ELSE "unnamed"

\* The provider accepts a publication of t: i is the next unused id.
Accept(t, i, s) ==
  /\ pub[t][i] = "none"
  /\ \A j \in Ids : pub[t][j] = "none" => i <= j
  /\ pub' = [pub EXCEPT ![t][i] = s]

\* No Publish but YouTube's makes sure of the id in the provider's answer.
Answers(t, i) == IF "noid" \in Faults /\ t \notin YouTube THEN {i, 0} ELSE {i}

\* Publisher.Publish answers.  Only an asynchronous platform that gave an id
\* leaves the target to the reconciler.
PublishAccepted(w, t) ==
  /\ w \in up
  /\ job[w][t].pc = "owned"
  /\ Direct(t)
  /\ \E i \in Ids : \E p \in Answers(t, i) :
       /\ Accept(t, i, Outcome(t, p))
       /\ job' = [job EXCEPT ![w][t] = [pc |-> "sent", pid |-> p,
                    to |-> IF Outcome(t, p) = "processing" THEN "publishing" ELSE "published"]]
  /\ UNCHANGED <<row, post, dirty, held, up, rjob, fails, ops, fromUpload>>

\* publishDriveExport: the provider of the DeliveryRegistry has the file; the
\* row keeps the platform_post_id it was listed with.
ExportCompletes(w, t) ==
  /\ w \in up
  /\ job[w][t].pc = "owned"
  /\ t \in Exports
  /\ \E i \in Ids : Accept(t, i, "live")
  /\ job' = [job EXCEPT ![w][t] = [pc |-> "sent", pid |-> job[w][t].pid, to |-> "published"]]
  /\ UNCHANGED <<row, post, dirty, held, up, rjob, fails, ops, fromUpload>>

\* The provider accepted the publication but the call fails (a timeout after
\* the request was processed): the driver only sees the error and retries.
PublishAnswerLost(w, t) ==
  /\ "lost" \in Faults
  /\ Direct(t) \/ t \in Exports
  /\ Finish(w, t)
  /\ Commit(Retried(w, t))
  /\ \E i \in Ids : Accept(t, i, Outcome(t, i))

\* publishYouTubePhase2 gives the one Phase-1 video the privacy that was asked
\* for (see YouTubeDelivery), or finds that YouTube has published it.
PhaseTwoPublishes(w, t) ==
  /\ w \in up
  /\ job[w][t].pc = "owned"
  /\ fromUpload /\ t \in YouTube
  /\ pub' = [pub EXCEPT ![t][1] = "live"]
  /\ job' = [job EXCEPT ![w][t] = [pc |-> "sent", pid |-> 1, to |-> "published"]]
  /\ UNCHANGED <<row, post, dirty, held, up, rjob, fails, ops, fromUpload>>

\* updateTargetStatus with the provider's answer.  A stale CAS ends the
\* attempt; a recorded 'published' goes on to dispatchPostCompletion, which a
\* Drive export has behind it.
Record(w, t) ==
  /\ w \in up
  /\ job[w][t].pc = "sent"
  /\ UpdateStatusWithLease(w, t, job[w][t].to, job[w][t].pid)
  /\ job' = [job EXCEPT ![w][t] =
               IF HoldsClaim(w, t) /\ @.to = "published" /\ t \notin Exports
               THEN [IdleJob EXCEPT !.pc = "gate"] ELSE IdleJob]
  /\ UNCHANGED <<up, rjob, pub, fails, ops, fromUpload>>

\* dispatchPostCompletion: the drive_required gate may turn a row that is
\* still 'published' into 'drive_required_failed' (MarkDriveRequiredFailed).
DeliveryGate(w, t) ==
  /\ w \in up
  /\ job[w][t].pc = "gate"
  /\ \/ UNCHANGED <<row, post, dirty, held>>
     \/ /\ row[t].status = "published"
        /\ Commit([row EXCEPT ![t].status = "drive_required_failed"])
  /\ job' = [job EXCEPT ![w][t] = IdleJob]
  /\ UNCHANGED <<up, rjob, pub, fails, ops, fromUpload>>

\* publishTarget returns an error without any write: the throttle wait is
\* cancelled, the key stamp fails, or the final status write fails.
DropJob(w, t) ==
  /\ "drop" \in Faults
  /\ w \in up
  /\ job[w][t].pc \in {"owned", "sent"}
  /\ job' = [job EXCEPT ![w][t] = IdleJob]
  /\ UNCHANGED <<row, post, dirty, held, up, rjob, pub, fails, ops, fromUpload>>

-----------------------------------------------------------------------------
(* The reconciler of process w: repair, then tickReconcile.                *)

\* repairDirtyAggregates / RepairDirtyAggregatePost.
RepairDirty(w) ==
  /\ w \in up
  /\ dirty
  /\ held = NoOne
  /\ post' = Aggregate(row)
  /\ dirty' = FALSE
  /\ UNCHANGED <<row, held, up, job, rjob, pub, fails, ops, fromUpload>>

\* tickReconcile: ListPublishing copies platform_post_id and the attempt.
ListPublishing(w) ==
  /\ w \in up
  /\ \A t \in Targets : rjob[w][t].pc = "idle"
  /\ \E t \in Targets : Pollable(t)
  /\ rjob' = [rjob EXCEPT ![w] = [t \in Targets |->
                IF Pollable(t)
                THEN [pc |-> "listed", pid |-> row[t].pid, attempt |-> row[t].recAttempt]
                ELSE IdleRJob]]
  /\ UNCHANGED <<row, post, dirty, held, up, job, pub, fails, ops, fromUpload>>

\* ClaimPublishingTarget; targets of one process are polled one at a time.
ClaimPublishing(w, t) ==
  /\ w \in up
  /\ rjob[w][t].pc = "listed"
  /\ \A u \in Targets : rjob[w][u].pc # "polling"
  /\ IF Pollable(t)
     THEN /\ row' = [row EXCEPT ![t].recOwner = w, ![t].recLive = TRUE]
          /\ rjob' = [rjob EXCEPT ![w][t].pc = "polling"]
     ELSE /\ rjob' = [rjob EXCEPT ![w][t] = IdleRJob]
          /\ UNCHANGED row
  /\ UNCHANGED <<post, dirty, held, up, job, pub, fails, ops, fromUpload>>

\* reconcileTarget ends with a terminal status, written by Commit.
Settle(w, t, s, p) ==
  /\ w \in up
  /\ rjob[w][t].pc = "polling"
  /\ Commit(ReconcileStatus(w, t, s, p))
  /\ rjob' = [rjob EXCEPT ![w][t] = IdleRJob]
  /\ UNCHANGED <<up, job, pub, ops, fromUpload>>

\* Mutant: an in-flight answer is taken as completion.
PollCompletedEarly(w, t) ==
  /\ t \in AsyncTargets
  /\ Settle(w, t, "published", rjob[w][t].pid)
  /\ UNCHANGED fails

\* Reconcile reports completion; for these providers the public id is the
\* publish id that was polled.  (Threads' Reconcile publishes the finished
\* container itself before it answers: there, ProviderSettles is a poll's doing.)
PollCompleted(w, t) ==
  /\ t \in AsyncTargets
  /\ rjob[w][t].pid # 0
  /\ pub[t][rjob[w][t].pid] = "live"
  /\ Settle(w, t, "published", rjob[w][t].pid)
  /\ UNCHANGED fails

\* A permanent provider error on a rejected publication.
PollRejected(w, t) ==
  /\ t \in AsyncTargets
  /\ rjob[w][t].pid # 0
  /\ pub[t][rjob[w][t].pid] = "rejected"
  /\ Settle(w, t, "failed", rjob[w][t].pid)
  /\ UNCHANGED fails

\* Account gone, OAuth missing or token refresh failed -> failed; a YouTube
\* grant that needs reauthorisation -> blocked_auth.  No provider answer.
PollImpossible(w, t) ==
  /\ \E s \in {"failed", "blocked_auth"} : Settle(w, t, s, rjob[w][t].pid)
  /\ UNCHANGED fails

CountFailure(t) ==
  fails' = [fails EXCEPT ![t] = IF @ < MaxReconcile THEN @ + 1 ELSE @]

\* Mutant: off by one.
BudgetSpentLate(attempt) == attempt >= MaxReconcile

\* The transient-failure budget test, on the attempt read by ListPublishing.
BudgetSpent(attempt) == attempt >= MaxReconcile - 1

\* markDeadLetterAndReturn on a transient error with the budget exhausted.
PollDeadLetter(w, t) ==
  /\ t \in AsyncTargets
  /\ BudgetSpent(rjob[w][t].attempt)
  /\ Settle(w, t, "dlq", rjob[w][t].pid)
  /\ CountFailure(t)

\* reconcileTarget ends by (re)scheduling or releasing the row.
Yield(w, t, r) ==
  /\ w \in up
  /\ rjob[w][t].pc = "polling"
  /\ row' = r
  /\ rjob' = [rjob EXCEPT ![w][t] = IdleRJob]
  /\ UNCHANGED <<post, dirty, held, up, job, pub, ops, fromUpload>>

\* scheduleRetry on a transient error within the budget.
PollTransient(w, t) ==
  /\ t \in AsyncTargets
  /\ ~BudgetSpent(rjob[w][t].attempt)
  /\ Yield(w, t, Scheduled(w, t, rjob[w][t].attempt, 1))
  /\ CountFailure(t)

\* Mutant: a poll that finds the publication in flight uses up an attempt.
PollInFlightCounts(w, t) ==
  /\ t \in AsyncTargets
  /\ ~BudgetSpent(rjob[w][t].attempt)
  /\ Yield(w, t, Scheduled(w, t, rjob[w][t].attempt, 1))
  /\ UNCHANGED fails

\* scheduleInFlight, or scheduleRetry on a rate limit: no attempt is used.
PollInFlight(w, t) ==
  /\ t \in AsyncTargets
  /\ Yield(w, t, Scheduled(w, t, rjob[w][t].attempt, 0))
  /\ UNCHANGED fails

\* The account cannot be loaded, or the platform is not asynchronous: the
\* deferred release is all that happens.
PollSkipped(w, t) ==
  /\ Yield(w, t, Released(w, t))
  /\ UNCHANGED fails

-----------------------------------------------------------------------------
(* The owner's API calls.                                                  *)

UserCall(op) == op \in UserOps /\ ops < MaxUserOps /\ ops' = ops + 1

\* resetPostTargetsAndAggregateTx: the aggregate is always recomputed.
Reset(r) ==
  /\ held = NoOne
  /\ row' = r
  /\ post' = Aggregate(r)
  /\ dirty' = (dirty \/ \E t \in Targets : r[t].status # row[t].status)
  /\ UNCHANGED <<held, up, job, rjob, pub, fails, fromUpload>>

WithStatus(S, s) == [t \in Targets |-> IF t \in S THEN [row[t] EXCEPT !.status = s] ELSE row[t]]

\* PublishPost (POST /posts/{id}/publish, and the upload worker): every target.
PublishPost == UserCall("publish") /\ Reset(WithStatus(Targets, "queued"))

\* The statuses a cancellation preserves.
CancelKeeps == {"published", "partially_published", "failed", "dlq"}

\* CancelPost, and the same UPDATE per account on a disconnect.
CancelTargets(S) ==
  UserCall("cancel") /\ Reset(WithStatus({t \in S : row[t].status \notin CancelKeeps}, "draft"))
CancelPost == CancelTargets(Targets)
CancelFutureJobsForAccount(t) == row[t].status \notin CancelKeeps /\ CancelTargets({t})

\* RetryPost and RetryTarget: failed targets only.
RetryPost ==
  UserCall("retry") /\ Reset(WithStatus({t \in Targets : row[t].status = "failed"}, "queued"))
RetryTarget(t) ==
  UserCall("retry") /\ row[t].status = "failed" /\ Reset(WithStatus({t}, "queued"))

\* PostRepository.Update writes posts.status directly: no target is touched,
\* no aggregate is computed and nothing marks the post dirty.
WritePost(op, s) ==
  /\ UserCall(op)
  /\ held = NoOne
  /\ post' = s
  /\ UNCHANGED <<row, dirty, held, up, job, rjob, pub, fails, fromUpload>>

\* handleSchedulePost.
SchedulePost == WritePost("schedule", "queued")

\* handlePatchPost: the status of the request, or the one FindByID returned
\* before the target transitions that came in between.
EditPost == \E s \in PostStatuses : WritePost("edit", s)

-----------------------------------------------------------------------------
(* Time, the provider and process crashes.                                 *)

\* next_attempt_at, next_reconcile_at: the scheduled moment arrives.
AttemptDue(t) ==
  /\ ~row[t].due
  /\ row' = [row EXCEPT ![t].due = TRUE]
  /\ UNCHANGED <<post, dirty, held, up, job, rjob, pub, fails, ops, fromUpload>>

PollDue(t) ==
  /\ ~row[t].pollDue
  /\ row' = [row EXCEPT ![t].pollDue = TRUE]
  /\ UNCHANGED <<post, dirty, held, up, job, rjob, pub, fails, ops, fromUpload>>

\* reconcile_until passes.  A running owner's heartbeat renews the lease every
\* third of its length, so it expires only when that process stalls or is gone.
PollLeaseExpires(t) ==
  /\ row[t].recLive
  /\ row[t].recOwner \in up => "stall" \in Faults
  /\ row' = [row EXCEPT ![t].recLive = FALSE]
  /\ UNCHANGED <<post, dirty, held, up, job, rjob, pub, fails, ops, fromUpload>>

\* The provider finishes processing an asynchronous publication.
ProviderSettles(t, i) ==
  /\ pub[t][i] = "processing"
  /\ \E s \in {"live", "rejected"} : pub' = [pub EXCEPT ![t][i] = s]
  /\ UNCHANGED <<row, post, dirty, held, up, job, rjob, fails, ops, fromUpload>>

\* A process dies with everything it had in memory.  Its supervisor starts a
\* process with a fresh worker id, so one worker at least is always running.
Crash(w) ==
  /\ "crash" \in Faults
  /\ w \in up
  /\ up # {w}
  /\ up' = up \ {w}
  /\ job' = [job EXCEPT ![w] = [t \in Targets |-> IdleJob]]
  /\ rjob' = [rjob EXCEPT ![w] = [t \in Targets |-> IdleRJob]]
  /\ held' = IF held = w THEN NoOne ELSE held
  /\ UNCHANGED <<row, post, dirty, pub, fails, ops, fromUpload>>

-----------------------------------------------------------------------------
DriverStep(w, t) ==
  \/ Claim(w, t) \/ MarkFailed(w, t) \/ MarkBlockedAuth(w, t) \/ KeyConflict(w, t)
  \/ RollBackClaim(w, t) \/ AwaitUpload(w, t) \/ MarkRateLimited(w, t)
  \/ PublishAccepted(w, t) \/ ExportCompletes(w, t) \/ PhaseTwoPublishes(w, t)
  \/ Record(w, t) \/ DeliveryGate(w, t)

ReconcilerStep(w, t) ==
  \/ ClaimPublishing(w, t) \/ PollCompleted(w, t) \/ PollRejected(w, t)
  \/ PollImpossible(w, t) \/ PollDeadLetter(w, t) \/ PollTransient(w, t)
  \/ PollInFlight(w, t) \/ PollSkipped(w, t)

FaultStep ==
  \/ \E w \in Workers : Crash(w)
  \/ \E w \in Workers, t \in Targets : DropJob(w, t) \/ PublishAnswerLost(w, t)

UserStep ==
  \/ PublishPost \/ CancelPost \/ RetryPost \/ SchedulePost \/ EditPost
  \/ \E t \in Targets : CancelFutureJobsForAccount(t) \/ RetryTarget(t)

TimeStep ==
  \/ \E t \in Targets : AttemptDue(t) \/ PollDue(t) \/ PollLeaseExpires(t)
  \/ \E t \in Targets, i \in Ids : ProviderSettles(t, i)

Next ==
  \/ \E w \in Workers : ListPending(w) \/ ListPublishing(w) \/ RepairDirty(w)
  \/ \E w \in Workers, t \in Targets : DriverStep(w, t) \/ ReconcilerStep(w, t)
  \/ FaultStep \/ UserStep \/ TimeStep

Spec == Init /\ [][Next]_vars

\* Run's ticker and the batch goroutines keep a running process going, and
\* deadlines pass.  A crashed process takes no step: its actions are disabled.
WorkersRun ==
  /\ \A w \in Workers : WF_vars(ListPending(w)) /\ WF_vars(ListPublishing(w))
  /\ \A w \in Workers, t \in Targets :
       WF_vars(DriverStep(w, t)) /\ WF_vars(ReconcilerStep(w, t))
  /\ \A t \in Targets :
       WF_vars(AttemptDue(t)) /\ WF_vars(PollDue(t)) /\ WF_vars(PollLeaseExpires(t))

\* The provider is not unavailable for ever: a publication attempted again and
\* again is accepted (or, when the post came from an upload job, found waiting
\* for its upload), and a settled publication polled again and again is reported
\* as settled.
ProviderAnswers ==
  /\ \A t \in Targets, i \in Ids : WF_vars(ProviderSettles(t, i))
  /\ \A w \in Workers, t \in Targets :
       /\ SF_vars(\/ PublishAccepted(w, t) \/ ExportCompletes(w, t)
                  \/ PhaseTwoPublishes(w, t) \/ AwaitUpload(w, t))
       /\ SF_vars(PollCompleted(w, t) \/ PollRejected(w, t))

FairSpec == Spec /\ WorkersRun
ProviderFairSpec == FairSpec /\ ProviderAnswers

-----------------------------------------------------------------------------
(* Properties that hold.                                                   *)

\* What the provider has of a target whose row carries id p: the publication of
\* that id is live.  A row without an id (and a Drive export's) stands for a
\* publication that was accepted, and that is live unless an asynchronous
\* platform kept its id to itself.
Delivered(t, p) ==
  IF p # 0 /\ t \notin Exports THEN pub[t][p] = "live"
  ELSE \E i \in Ids : pub[t][i] = Outcome(t, 0)

\* A target is shown as published only when its platform_post_id names a
\* publication that is live at the provider, or when it names none because the
\* provider accepted the publication without giving an id: neither a late
\* writer, a stale poll, a lost answer nor an API call makes the row claim more.
PublishedIsLive ==
  \A t \in Targets : row[t].status = "published" => Delivered(t, row[t].pid)

\* Unless the owner edits posts.status, the post is seen as published only when
\* every destination carries a live publication, or one whose id its provider
\* never gave: the aggregate, the rows and the provider agree.
PostPublishedIsLive ==
  post = "published" =>
    \A t \in Targets : \E i \in Ids : pub[t][i] \in {"live", Outcome(t, 0)}

\* The claim transaction gives a target to one publish driver at a time: two
\* processes are never both between their claim and their final write.
SingleDriver ==
  \A t \in Targets, v, w \in Workers :
    job[v][t].pc \in {"owned", "sent"} /\ job[w][t].pc \in {"owned", "sent"} => v = w

\* A target is handed to its provider at most once, whatever the crashes, the
\* stalled pollers and the cancellations (PublishAnswerLost excepted: there
\* the provider's idempotency key has to recognise the second request).
AtMostOnePublication ==
  \A t \in Targets, i, j \in Ids : pub[t][i] # "none" /\ pub[t][j] # "none" => i = j

\* The reconciler dead-letters a target only after reconcileMaxAttempts
\* transient failures of the current lifecycle: competing pollers and stale
\* copies of the attempt counter never spend the budget early.
BudgetHonoured ==
  \A t \in Targets :
    /\ row[t].recAttempt <= fails[t]
    /\ row[t].status = "dlq" => fails[t] = MaxReconcile

\* Without a retry or a new publication request, nothing a worker, a late
\* answer or a cancellation does takes a settled target back: only the
\* delivery gate moves 'published' on, and only a cancellation moves
\* 'blocked_auth' or 'drive_required_failed' back to 'draft'.
SettledStep(t) ==
  CASE row[t].status = "published" -> row'[t].status \in {"published", "drive_required_failed"}
    [] row[t].status \in {"failed", "dlq"} -> row'[t].status = row[t].status
    [] row[t].status \in {"blocked_auth", "drive_required_failed"} ->
         row'[t].status \in {row[t].status, "draft"}
    [] OTHER -> TRUE
TerminalStable == [][\A t \in Targets : SettledStep(t)]_vars

\* A publication the provider accepted asynchronously is settled although the
\* process polling it may die: the poll lease it leaves behind expires and
\* another reconciler takes over.  (A transaction that a stale write of a sibling
\* target left open keeps the post's row lock, and the poller's write waits.)
AsyncSettles ==
  [](held = NoOne) =>
    \A t \in Targets :
      row[t].status = "publishing" /\ row[t].pid # 0 ~> row[t].status # "publishing"

\* The targets that need the upload worker before they can be published, or
\* that wait for it although it will do nothing for them (any platform but
\* YouTube and Drive).
WaitsForUpload(t) == fromUpload /\ t \notin Exports

\* As long as no process dies and no transaction is left open, every queued
\* target of a post made through the API, and every Drive export, reaches a
\* terminal status or is cancelled, whichever process claims it and however
\* often the provider turns it away; a target of an upload job's post reaches
\* that or 'waiting_provider'.
EveryTargetSettles ==
  [](up = Workers /\ held = NoOne) =>
    \A t \in Targets :
      row[t].status = "queued" ~>
        \/ row[t].status \in TerminalStatuses \cup {"draft"}
        \/ WaitsForUpload(t) /\ row[t].status = "waiting_provider"

-----------------------------------------------------------------------------
(* What the documentation or a comment says and the code does not do.      *)

\* "a crashed worker doesn't leak the row forever" (post_repo_retry.go): a row
\* in 'publishing' leaves it, although its claiming process may die.
ClaimedRowIsNotLeaked ==
  \A t \in Targets : row[t].status = "publishing" ~> row[t].status # "publishing"
=============================================================================
