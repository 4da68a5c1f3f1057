----------------------- MODULE PublishPipelineProofs -----------------------
(***************************************************************************)
(* Proofs about the publishing pipeline, for any number of targets and     *)
(* worker processes, any budget and any bounds.                            *)
(***************************************************************************)
EXTENDS PublishPipeline, TLAPS

-----------------------------------------------------------------------------
(* Typing lemmas for the repository's transactions.                        *)

LEMMA AggregateType == ASSUME NEW r PROVE Aggregate(r) \in PostStatuses
BY DEF Aggregate, Resolve, PostStatuses

LEMMA ConstantTypes ==
  /\ NoOne \notin Workers
  /\ MaxReconcile \in Nat /\ MaxReconcile >= 1
  /\ MaxSends \in Nat /\ MaxSends >= 1
  /\ 0 \in 0..(MaxReconcile - 1)
  /\ 1 \in Ids /\ 0 \notin Ids
  /\ Ids \subseteq Nat
BY PipelineAssumption DEF Ids

LEMMA CommitType ==
  ASSUME TypeOK, NEW r \in [Targets -> Row], Commit(r)
  PROVE  /\ row' \in [Targets -> Row]
         /\ post' \in PostStatuses
         /\ dirty' \in BOOLEAN
         /\ held' \in Workers \cup {NoOne}
<1>1. row' \in [Targets -> Row] /\ held' \in Workers \cup {NoOne}
  BY DEF Commit, TypeOK
<1>2. post' \in PostStatuses
  BY AggregateType DEF Commit, TypeOK
<1>3. dirty' \in BOOLEAN
  BY Zenon DEF Commit
<1> QED
  BY <1>1, <1>2, <1>3

LEMMA IdleTypes == IdleJob \in Job /\ IdleRJob \in RJob
BY ConstantTypes DEF IdleJob, IdleRJob, Job, RJob

LEMMA ClaimedType ==
  ASSUME TypeOK, NEW w \in Workers, NEW t \in Targets
  PROVE  Claimed(w, t) \in [Targets -> Row]
<1>1. row \in [Targets -> Row] /\ row[t] \in Row
  BY DEF TypeOK
<1>2. [row[t] EXCEPT !.status = "publishing", !.owner = w, !.recAttempt = 0,
                     !.pollDue = TRUE, !.recOwner = NoOne, !.recLive = FALSE] \in Row
  BY <1>1, ConstantTypes DEF Row, PostStatuses
<1> QED
  BY <1>1, <1>2 DEF Claimed

LEMMA RetriedType ==
  ASSUME TypeOK, NEW w \in Workers, NEW t \in Targets
  PROVE  Retried(w, t) \in [Targets -> Row]
<1>1. row \in [Targets -> Row] /\ row[t] \in Row
  BY DEF TypeOK
<1>2. [row[t] EXCEPT !.status = "retrying", !.owner = NoOne, !.due = FALSE] \in Row
  BY <1>1, ConstantTypes DEF Row, PostStatuses
<1> QED
  BY <1>1, <1>2 DEF Retried

LEMMA RateLimitedType ==
  ASSUME TypeOK, NEW w \in Workers, NEW t \in Targets
  PROVE  RateLimited(w, t) \in [Targets -> Row]
<1>1. row \in [Targets -> Row] /\ row[t] \in Row
  BY DEF TypeOK
<1>2. [row[t] EXCEPT !.status = "queued", !.owner = NoOne, !.due = FALSE] \in Row
  BY <1>1, ConstantTypes DEF Row, PostStatuses
<1> QED
  BY <1>1, <1>2 DEF RateLimited

LEMMA ReleasedType ==
  ASSUME TypeOK, NEW w \in Workers, NEW t \in Targets
  PROVE  Released(w, t) \in [Targets -> Row]
<1>1. row \in [Targets -> Row] /\ row[t] \in Row
  BY DEF TypeOK
<1>2. [row[t] EXCEPT !.recOwner = NoOne, !.recLive = FALSE] \in Row
  BY <1>1, ConstantTypes DEF Row, PostStatuses
<1> QED
  BY <1>1, <1>2 DEF Released

LEMMA ReconcileStatusType ==
  ASSUME TypeOK, NEW w \in Workers, NEW t \in Targets,
         NEW s \in PostStatuses, NEW p \in Ids \cup {0}
  PROVE  ReconcileStatus(w, t, s, p) \in [Targets -> Row]
<1>1. row \in [Targets -> Row] /\ row[t] \in Row
  BY DEF TypeOK
<1>2. [row[t] EXCEPT !.status = s, !.pid = p, !.recOwner = NoOne, !.recLive = FALSE] \in Row
  BY <1>1, ConstantTypes DEF Row, PostStatuses
<1> QED
  BY <1>1, <1>2 DEF ReconcileStatus

LEMMA ScheduledType ==
  ASSUME TypeOK, NEW w \in Workers, NEW t \in Targets,
         NEW a \in 0..(MaxReconcile - 1), NEW inc \in {0, 1},
         inc = 1 => ~BudgetSpent(a)
  PROVE  Scheduled(w, t, a, inc) \in [Targets -> Row]
<1>1. row \in [Targets -> Row] /\ row[t] \in Row
  BY DEF TypeOK
<1>2. a + inc \in 0..(MaxReconcile - 1)
  BY ConstantTypes DEF BudgetSpent
<1>3. [row[t] EXCEPT !.recAttempt = a + inc, !.pollDue = FALSE,
                     !.recOwner = NoOne, !.recLive = FALSE] \in Row
  BY <1>1, <1>2 DEF Row
<1> QED
  BY <1>1, <1>3, ReleasedType DEF Scheduled

LEMMA UpdateStatusType ==
  ASSUME TypeOK, NEW w \in Workers, NEW t \in Targets,
         NEW s \in PostStatuses, NEW p \in Ids \cup {0},
         UpdateStatusWithLease(w, t, s, p)
  PROVE  /\ row' \in [Targets -> Row]
         /\ post' \in PostStatuses
         /\ dirty' \in BOOLEAN
         /\ held' \in Workers \cup {NoOne}
<1>1. CASE HoldsClaim(w, t)
  <2> DEFINE r == [row EXCEPT ![t] = [@ EXCEPT !.status = s, !.pid = p,
                     !.owner = IF s = "publishing" THEN w ELSE NoOne]]
  <2>1. row \in [Targets -> Row] /\ row[t] \in Row
    BY DEF TypeOK
  <2>2. [row[t] EXCEPT !.status = s, !.pid = p,
                       !.owner = IF s = "publishing" THEN w ELSE NoOne] \in Row
    BY <2>1 DEF Row
  <2>3. r \in [Targets -> Row]
    BY <2>1, <2>2
  <2>4. Commit(r)
    BY <1>1 DEF UpdateStatusWithLease
  <2> QED
    BY <2>3, <2>4, CommitType
<1>2. CASE ~HoldsClaim(w, t)
  BY <1>2 DEF UpdateStatusWithLease, TypeOK
<1> QED
  BY <1>1, <1>2

LEMMA PutJob ==
  ASSUME TypeOK, NEW w \in Workers, NEW t \in Targets, NEW j \in Job
  PROVE  [job EXCEPT ![w][t] = j] \in [Workers -> [Targets -> Job]]
BY DEF TypeOK

LEMMA PutRJob ==
  ASSUME TypeOK, NEW w \in Workers, NEW t \in Targets, NEW j \in RJob
  PROVE  [rjob EXCEPT ![w][t] = j] \in [Workers -> [Targets -> RJob]]
BY DEF TypeOK

\* What a type-correct job carries.
LEMMA JobFields ==
  ASSUME TypeOK, NEW w \in Workers, NEW t \in Targets
  PROVE  /\ row[t] \in Row /\ row[t].pid \in Ids \cup {0}
         /\ row[t].recAttempt \in 0..(MaxReconcile - 1)
         /\ job[w][t] \in Job /\ job[w][t].pid \in Ids \cup {0}
         /\ job[w][t].to \in {"publishing", "published"}
         /\ rjob[w][t] \in RJob /\ rjob[w][t].pid \in Ids \cup {0}
         /\ rjob[w][t].attempt \in 0..(MaxReconcile - 1)
<1>1. row[t] \in Row /\ job[w][t] \in Job /\ rjob[w][t] \in RJob
  BY DEF TypeOK
<1> QED
  BY <1>1 DEF Row, Job, RJob

LEMMA FinishType ==
  ASSUME TypeOK, NEW w \in Workers, NEW t \in Targets, Finish(w, t)
  PROVE  /\ job' \in [Workers -> [Targets -> Job]]
         /\ UNCHANGED <<up, rjob, fails, ops, fromUpload>>
BY PutJob, IdleTypes DEF Finish

LEMMA SettleType ==
  ASSUME TypeOK, NEW w \in Workers, NEW t \in Targets,
         NEW s \in PostStatuses, Settle(w, t, s, rjob[w][t].pid),
         fails' \in [Targets -> 0..MaxReconcile]
  PROVE  TypeOK'
<1>1. Commit(ReconcileStatus(w, t, s, rjob[w][t].pid))
  BY DEF Settle
<1>2. ReconcileStatus(w, t, s, rjob[w][t].pid) \in [Targets -> Row]
  BY ReconcileStatusType, JobFields
<1>3. rjob' \in [Workers -> [Targets -> RJob]]
  BY PutRJob, IdleTypes DEF Settle
<1> QED
  BY <1>1, <1>2, <1>3, CommitType DEF Settle, TypeOK

LEMMA YieldType ==
  ASSUME TypeOK, NEW w \in Workers, NEW t \in Targets,
         NEW r \in [Targets -> Row], Yield(w, t, r),
         fails' \in [Targets -> 0..MaxReconcile]
  PROVE  TypeOK'
<1>1. rjob' \in [Workers -> [Targets -> RJob]]
  BY PutRJob, IdleTypes DEF Yield
<1> QED
  BY <1>1 DEF Yield, TypeOK

LEMMA CountFailureType ==
  ASSUME TypeOK, NEW t \in Targets, CountFailure(t)
  PROVE  fails' \in [Targets -> 0..MaxReconcile]
BY ConstantTypes DEF TypeOK, CountFailure

LEMMA WithStatusType ==
  ASSUME TypeOK, NEW S, NEW s \in PostStatuses
  PROVE  WithStatus(S, s) \in [Targets -> Row]
<1>1. ASSUME NEW t \in Targets
      PROVE  (IF t \in S THEN [row[t] EXCEPT !.status = s] ELSE row[t]) \in Row
  <2>1. row[t] \in Row
    BY DEF TypeOK
  <2>2. [row[t] EXCEPT !.status = s] \in Row
    BY <2>1 DEF Row
  <2> QED
    BY <2>1, <2>2
<1> QED
  BY <1>1 DEF WithStatus

LEMMA ResetType ==
  ASSUME TypeOK, NEW S, NEW s \in PostStatuses, Reset(WithStatus(S, s)),
         NEW op, UserCall(op)
  PROVE  TypeOK'
<1>1. row' \in [Targets -> Row]
  BY WithStatusType DEF Reset
<1>2. post' \in PostStatuses
  BY AggregateType DEF Reset
<1>3. dirty' \in BOOLEAN
  BY Zenon DEF Reset
<1>4. ops' \in 0..MaxUserOps
  BY PipelineAssumption DEF UserCall, TypeOK
<1>5. UNCHANGED <<held, up, job, rjob, pub, fails, fromUpload>>
  BY DEF Reset
<1> QED
  BY <1>1, <1>2, <1>3, <1>4, <1>5 DEF TypeOK

-----------------------------------------------------------------------------
(* Every step preserves the type invariant: one step per action.           *)

LEMMA OutcomeType == ASSUME NEW t, NEW p PROVE Outcome(t, p) \in PubStates
BY DEF Outcome, PubStates

\* An accepted publication and the job that carries its answer.
LEMMA SentJob ==
  ASSUME NEW w \in Workers, NEW t \in Targets, PublishAccepted(w, t)
  PROVE  \E i \in Ids, p \in Ids \cup {0}, j \in Job :
           /\ Accept(t, i, Outcome(t, p))
           /\ job' = [job EXCEPT ![w][t] = j]
           /\ j.pc = "sent" /\ j.pid = p /\ p \in {i, 0}
           /\ j.to = IF Outcome(t, p) = "processing" THEN "publishing" ELSE "published"
<1>0. PICK i \in Ids : \E p \in Answers(t, i) :
        /\ Accept(t, i, Outcome(t, p))
        /\ job' = [job EXCEPT ![w][t] = [pc |-> "sent", pid |-> p,
                     to |-> IF Outcome(t, p) = "processing" THEN "publishing" ELSE "published"]]
  BY DEF PublishAccepted
<1>1. PICK p \in Answers(t, i) :
        /\ Accept(t, i, Outcome(t, p))
        /\ job' = [job EXCEPT ![w][t] = [pc |-> "sent", pid |-> p,
                     to |-> IF Outcome(t, p) = "processing" THEN "publishing" ELSE "published"]]
  BY <1>0
<1>2. p \in {i, 0}
  BY DEF Answers
<1> DEFINE j == [pc |-> "sent", pid |-> p,
                 to |-> IF Outcome(t, p) = "processing" THEN "publishing" ELSE "published"]
<1>3. j \in Job /\ j.pc = "sent" /\ j.pid = p
      /\ j.to = IF Outcome(t, p) = "processing" THEN "publishing" ELSE "published"
  BY <1>2 DEF Job
<1>4. job' = [job EXCEPT ![w][t] = j]
  BY <1>1
<1> HIDE DEF j
<1> QED
  BY <1>1, <1>2, <1>3, <1>4

LEMMA DriverTypes ==
  ASSUME TypeOK, NEW w \in Workers, NEW t \in Targets,
         DriverStep(w, t) \/ DropJob(w, t) \/ PublishAnswerLost(w, t)
  PROVE  TypeOK'
<1> USE JobFields, ConstantTypes
<1>1. CASE Claim(w, t)
  <2>1. [job[w][t] EXCEPT !.pc = "owned"] \in Job
    BY DEF Job
  <2>2. CASE Claimable(t)
    <3>1. job' = [job EXCEPT ![w][t] = [job[w][t] EXCEPT !.pc = "owned"]]
      BY <1>1, <2>2 DEF Claim
    <3>2. fails' \in [Targets -> 0..MaxReconcile]
      BY <1>1, <2>2 DEF Claim, TypeOK
    <3>3. Commit(Claimed(w, t)) /\ UNCHANGED <<up, rjob, pub, ops, fromUpload>>
      BY <1>1, <2>2 DEF Claim
    <3> QED
      BY <2>1, <3>1, <3>2, <3>3, PutJob, CommitType, ClaimedType DEF TypeOK
  <2>3. CASE ~Claimable(t)
    <3>0. job' = [job EXCEPT ![w][t] = IdleJob]
      BY <1>1, <2>3 DEF Claim
    <3>1. job' \in [Workers -> [Targets -> Job]]
      BY <3>0, PutJob, IdleTypes
    <3> QED
      BY <1>1, <2>3, <3>1 DEF Claim, TypeOK
  <2> QED
    BY <2>2, <2>3
<1>2. CASE MarkFailed(w, t)
  BY <1>2, FinishType, CommitType, RetriedType DEF MarkFailed, TypeOK
<1>3. ASSUME NEW s \in PostStatuses, Abandon(w, t, s) PROVE TypeOK'
  BY <1>3, FinishType, UpdateStatusType DEF Abandon, TypeOK
<1>4. CASE MarkBlockedAuth(w, t) \/ KeyConflict(w, t) \/ RollBackClaim(w, t) \/ AwaitUpload(w, t)
  BY <1>3, <1>4 DEF MarkBlockedAuth, KeyConflict, RollBackClaim, AwaitUpload, PostStatuses
<1>5. CASE MarkRateLimited(w, t)
  BY <1>5, FinishType, CommitType, RateLimitedType DEF MarkRateLimited, TypeOK
<1>6. ASSUME NEW i \in Ids, NEW s \in PubStates, Accept(t, i, s)
      PROVE  pub' \in [Targets -> [Ids -> PubStates]]
  BY <1>6 DEF Accept, TypeOK, PubStates
<1>7. CASE PublishAccepted(w, t)
  <2>1. PICK i \in Ids, p \in Ids \cup {0}, j \in Job :
          Accept(t, i, Outcome(t, p)) /\ job' = [job EXCEPT ![w][t] = j]
    BY <1>7, SentJob
  <2> QED
    BY <1>6, <1>7, <2>1, OutcomeType, PutJob DEF PublishAccepted, TypeOK
<1>13. CASE ExportCompletes(w, t)
  <2>1. [pc |-> "sent", pid |-> job[w][t].pid, to |-> "published"] \in Job
    BY DEF Job
  <2>2. pub' \in [Targets -> [Ids -> PubStates]]
    BY <1>6, <1>13 DEF ExportCompletes, PubStates
  <2>3. job' \in [Workers -> [Targets -> Job]]
    BY <1>13, <2>1, PutJob DEF ExportCompletes
  <2> QED
    BY <1>13, <2>2, <2>3 DEF ExportCompletes, TypeOK
<1>8. CASE PublishAnswerLost(w, t)
  <2>1. pub' \in [Targets -> [Ids -> PubStates]]
    BY <1>6, <1>8, OutcomeType DEF PublishAnswerLost
  <2> QED
    BY <1>8, <2>1, FinishType, CommitType, RetriedType DEF PublishAnswerLost, TypeOK
<1>9. CASE PhaseTwoPublishes(w, t)
  <2>1. [pc |-> "sent", pid |-> 1, to |-> "published"] \in Job
    BY DEF Job
  <2>2. pub' \in [Targets -> [Ids -> PubStates]]
    BY <1>9 DEF PhaseTwoPublishes, TypeOK, PubStates
  <2> QED
    BY <1>9, <2>1, <2>2, PutJob DEF PhaseTwoPublishes, TypeOK
<1>10. CASE Record(w, t)
  <2>1. [IdleJob EXCEPT !.pc = "gate"] \in Job
    BY DEF IdleJob, Job
  <2>2. job' \in [Workers -> [Targets -> Job]]
    BY <1>10, <2>1, PutJob, IdleTypes DEF Record
  <2> QED
    BY <1>10, <2>2, UpdateStatusType DEF Record, TypeOK, PostStatuses
<1>11. CASE DeliveryGate(w, t)
  <2>1. [row EXCEPT ![t].status = "drive_required_failed"] \in [Targets -> Row]
    <3>1. [row[t] EXCEPT !.status = "drive_required_failed"] \in Row
      BY DEF Row, PostStatuses
    <3> QED
      BY <3>1 DEF TypeOK
  <2>2. job' \in [Workers -> [Targets -> Job]]
    BY <1>11, PutJob, IdleTypes DEF DeliveryGate
  <2> QED
    BY <1>11, <2>1, <2>2, CommitType DEF DeliveryGate, TypeOK
<1>12. CASE DropJob(w, t)
  BY <1>12, PutJob, IdleTypes DEF DropJob, TypeOK
<1> QED
  BY <1>1, <1>2, <1>4, <1>5, <1>7, <1>8, <1>9, <1>10, <1>11, <1>12, <1>13 DEF DriverStep

LEMMA ReconcilerTypes ==
  ASSUME TypeOK, NEW w \in Workers, NEW t \in Targets, ReconcilerStep(w, t)
  PROVE  TypeOK'
<1> USE JobFields, ConstantTypes
<1>1. CASE ClaimPublishing(w, t)
  <2>1. [rjob[w][t] EXCEPT !.pc = "polling"] \in RJob
    BY DEF RJob
  <2>2. \/ rjob' = [rjob EXCEPT ![w][t] = [rjob[w][t] EXCEPT !.pc = "polling"]]
        \/ rjob' = [rjob EXCEPT ![w][t] = IdleRJob]
    BY <1>1 DEF ClaimPublishing
  <2>3. [row[t] EXCEPT !.recOwner = w, !.recLive = TRUE] \in Row
    BY DEF Row
  <2>4. row' \in [Targets -> Row]
    BY <1>1, <2>3 DEF ClaimPublishing, TypeOK
  <2> QED
    <3>1. [rjob EXCEPT ![w][t] = [rjob[w][t] EXCEPT !.pc = "polling"]]
            \in [Workers -> [Targets -> RJob]]
      BY <2>1, PutRJob
    <3>2. [rjob EXCEPT ![w][t] = IdleRJob] \in [Workers -> [Targets -> RJob]]
      BY PutRJob, IdleTypes
    <3>3. rjob' \in [Workers -> [Targets -> RJob]]
      BY <2>2, <3>1, <3>2, Zenon
    <3> QED
      BY <1>1, <2>4, <3>3 DEF ClaimPublishing, TypeOK
<1>2. CASE PollCompleted(w, t) \/ PollRejected(w, t) \/ PollImpossible(w, t)
  <2>1. fails' \in [Targets -> 0..MaxReconcile]
    BY <1>2 DEF PollCompleted, PollRejected, PollImpossible, TypeOK
  <2>2. \E s \in PostStatuses : Settle(w, t, s, rjob[w][t].pid)
    BY <1>2 DEF PollCompleted, PollRejected, PollImpossible, PostStatuses
  <2> QED
    BY <2>1, <2>2, SettleType
<1>3. CASE PollDeadLetter(w, t)
  BY <1>3, SettleType, CountFailureType DEF PollDeadLetter, PostStatuses
<1>4. CASE PollTransient(w, t)
  BY <1>4, YieldType, ScheduledType, CountFailureType DEF PollTransient
<1>5. CASE PollInFlight(w, t)
  <2>1. fails' \in [Targets -> 0..MaxReconcile]
    BY <1>5 DEF PollInFlight, TypeOK
  <2> QED
    BY <1>5, <2>1, YieldType, ScheduledType DEF PollInFlight
<1>6. CASE PollSkipped(w, t)
  <2>1. fails' \in [Targets -> 0..MaxReconcile]
    BY <1>6 DEF PollSkipped, TypeOK
  <2> QED
    BY <1>6, <2>1, YieldType, ReleasedType DEF PollSkipped
<1> QED
  BY <1>1, <1>2, <1>3, <1>4, <1>5, <1>6 DEF ReconcilerStep

LEMMA UserTypes == ASSUME TypeOK, UserStep PROVE TypeOK'
<1> USE DEF PostStatuses
<1>1. CASE PublishPost
  BY <1>1, ResetType DEF PublishPost
<1>2. ASSUME NEW S, CancelTargets(S) PROVE TypeOK'
  BY <1>2, ResetType DEF CancelTargets
<1>3. CASE CancelPost
  BY <1>2, <1>3 DEF CancelPost
<1>4. ASSUME NEW t \in Targets, CancelFutureJobsForAccount(t) PROVE TypeOK'
  BY <1>2, <1>4 DEF CancelFutureJobsForAccount
<1>5. CASE RetryPost
  BY <1>5, ResetType DEF RetryPost
<1>6. ASSUME NEW t \in Targets, RetryTarget(t) PROVE TypeOK'
  BY <1>6, ResetType DEF RetryTarget
<1>7. ASSUME NEW op, NEW s \in PostStatuses, WritePost(op, s) PROVE TypeOK'
  BY <1>7, PipelineAssumption DEF WritePost, UserCall, TypeOK
<1>8. CASE SchedulePost \/ EditPost
  BY <1>7, <1>8 DEF SchedulePost, EditPost
<1> QED
  BY <1>1, <1>3, <1>4, <1>5, <1>6, <1>8 DEF UserStep

LEMMA TimeTypes == ASSUME TypeOK, TimeStep PROVE TypeOK'
<1>1. ASSUME NEW t \in Targets, AttemptDue(t) \/ PollDue(t) \/ PollLeaseExpires(t)
      PROVE  TypeOK'
  <2>1. row[t] \in Row
    BY DEF TypeOK
  <2>2. [row[t] EXCEPT !.due = TRUE] \in Row /\ [row[t] EXCEPT !.pollDue = TRUE] \in Row
    BY <2>1 DEF Row
  <2>3. [row[t] EXCEPT !.recLive = FALSE] \in Row
    BY <2>1 DEF Row
  <2> QED
    BY <1>1, <2>2, <2>3 DEF AttemptDue, PollDue, PollLeaseExpires, TypeOK
<1>2. ASSUME NEW t \in Targets, NEW i \in Ids, ProviderSettles(t, i) PROVE TypeOK'
  <2>1. pub' \in [Targets -> [Ids -> PubStates]]
    BY <1>2 DEF ProviderSettles, TypeOK, PubStates
  <2> QED
    BY <1>2, <2>1 DEF ProviderSettles, TypeOK
<1> QED
  BY <1>1, <1>2 DEF TimeStep

LEMMA ProcessTypes ==
  ASSUME TypeOK, NEW w \in Workers,
         ListPending(w) \/ ListPublishing(w) \/ RepairDirty(w) \/ Crash(w)
  PROVE  TypeOK'
<1> USE JobFields, IdleTypes
<1>1. CASE ListPending(w)
  <2>1. ASSUME NEW t \in Targets
        PROVE  [IdleJob EXCEPT !.pc = "listed", !.pid = row[t].pid] \in Job
    BY DEF IdleJob, Job
  <2>2. job' \in [Workers -> [Targets -> Job]]
    BY <1>1, <2>1 DEF ListPending, TypeOK
  <2> QED
    BY <1>1, <2>2 DEF ListPending, TypeOK
<1>2. CASE ListPublishing(w)
  <2>1. ASSUME NEW t \in Targets
        PROVE  [pc |-> "listed", pid |-> row[t].pid, attempt |-> row[t].recAttempt] \in RJob
    BY DEF RJob
  <2>2. rjob' \in [Workers -> [Targets -> RJob]]
    BY <1>2, <2>1 DEF ListPublishing, TypeOK
  <2> QED
    BY <1>2, <2>2 DEF ListPublishing, TypeOK
<1>3. CASE RepairDirty(w)
  BY <1>3, AggregateType DEF RepairDirty, TypeOK
<1>4. CASE Crash(w)
  <2>1. job' \in [Workers -> [Targets -> Job]] /\ rjob' \in [Workers -> [Targets -> RJob]]
    BY <1>4 DEF Crash, TypeOK
  <2> QED
    BY <1>4, <2>1 DEF Crash, TypeOK
<1> QED
  BY <1>1, <1>2, <1>3, <1>4

LEMMA TypeStep == TypeOK /\ [Next]_vars => TypeOK'
<1> SUFFICES ASSUME TypeOK, [Next]_vars PROVE TypeOK'
  OBVIOUS
<1>1. CASE Next
  BY <1>1, ProcessTypes, DriverTypes, ReconcilerTypes, UserTypes, TimeTypes DEF Next, FaultStep
<1>2. CASE UNCHANGED vars
  BY <1>2 DEF vars, TypeOK
<1> QED
  BY <1>1, <1>2

LEMMA TypeInit == Init => TypeOK
<1> SUFFICES ASSUME Init PROVE TypeOK
  OBVIOUS
<1>1. ASSUME NEW s \in {"draft", "queued"} PROVE NewRow(s) \in Row
  BY ConstantTypes DEF NewRow, Row, PostStatuses
<1>2. row \in [Targets -> Row]
  BY <1>1 DEF Init
<1> QED
  BY <1>2, AggregateType, ConstantTypes, IdleTypes, PipelineAssumption
     DEF Init, TypeOK, PubStates

\* Every reachable state of the pipeline is well typed; in particular the
\* reconciler's attempt counter never reaches reconcileMaxAttempts.
THEOREM TypeCorrect == Spec => []TypeOK
BY TypeInit, TypeStep, PTL DEF Spec

-----------------------------------------------------------------------------
(* The inductive invariants.                                               *)

\* What makes 'published' trustworthy: an answer the driver still has to
\* record as 'published' is about a publication that the provider has already carried out.
LiveInv(t) ==
  /\ row[t].status = "published" => Delivered(t, row[t].pid)
  /\ \A w \in Workers : job[w][t].pc = "sent" /\ job[w][t].to = "published" =>
       Delivered(t, job[w][t].pid)
  /\ t \in YouTube => \A i \in Ids : pub[t][i] # "unnamed"

\* The history of one target while nobody publishes or retries it again:
\* the driver at work is the lease owner and the row is fresh; a row that may
\* still be claimed has never had a publication id, so no reconciler knows it;
\* the counters the pollers carry count failures of this lifecycle.
ClaimInv(t) ==
  /\ \A w \in Workers : job[w][t].pc \in {"owned", "sent"} =>
       row[t].owner = w /\ row[t].status \in {"publishing", "draft"} /\ row[t].pid = 0
  /\ \A w \in Workers : job[w][t].pc \in {"listed", "owned"} => job[w][t].pid = 0
  /\ row[t].status \in PendingStatuses => row[t].pid = 0
  /\ row[t].pid = 0 => row[t].recOwner = NoOne

CountInv(t) ==
  /\ row[t].pid = 0 => \A w \in Workers : rjob[w][t].pc = "idle"
  /\ \A w \in Workers : rjob[w][t].pc # "idle" =>
       rjob[w][t].pid # 0 /\ rjob[w][t].attempt <= fails[t]
  /\ row[t].recAttempt <= fails[t]
  /\ row[t].status = "dlq" => fails[t] = MaxReconcile

\* While a target may still be sent, the provider has not accepted it.
SendInv(t) ==
  /\ ~(fromUpload /\ t \in YouTube) =>
       /\ row[t].status \in PendingStatuses => \A i \in Ids : pub[t][i] = "none"
       /\ \A w \in Workers : job[w][t].pc = "owned" => \A i \in Ids : pub[t][i] = "none"
  /\ fromUpload /\ t \in YouTube => \A i \in Ids : pub[t][i] # "none" => i = 1
  /\ \A i, j \in Ids : pub[t][i] # "none" /\ pub[t][j] # "none" => i = j

-----------------------------------------------------------------------------
(* What the transactions do to the fields of the rows.                     *)

\* r agrees with row except on target t.
OnlyRow(t, r) == \A u \in Targets : u # t => r[u] = row[u]

LEMMA ClaimedFields ==
  ASSUME TypeOK, NEW w \in Workers, NEW t \in Targets
  PROVE  /\ OnlyRow(t, Claimed(w, t))
         /\ Claimed(w, t)[t].status = "publishing" /\ Claimed(w, t)[t].owner = w
         /\ Claimed(w, t)[t].pid = row[t].pid /\ Claimed(w, t)[t].recOwner = NoOne
         /\ Claimed(w, t)[t].recAttempt = 0
<1>1. row \in [Targets -> Row] /\ row[t] \in Row
  BY DEF TypeOK
<1> QED
  BY <1>1 DEF OnlyRow, Claimed, Row

\* A lost lease leaves the row alone; otherwise the target is pending again.
LEMMA RequeuedFields ==
  ASSUME TypeOK, NEW w \in Workers, NEW t \in Targets,
         NEW r \in {Retried(w, t), RateLimited(w, t)}
  PROVE  /\ OnlyRow(t, r)
         /\ \/ r[t] = row[t]
            \/ /\ row[t].owner = w
               /\ r = RateLimited(w, t) => row[t].status = "publishing"
               /\ r[t].status \in PendingStatuses /\ r[t].owner = NoOne
               /\ r[t].pid = row[t].pid /\ r[t].recOwner = row[t].recOwner
               /\ r[t].recAttempt = row[t].recAttempt
<1>1. row \in [Targets -> Row] /\ row[t] \in Row
  BY DEF TypeOK
<1>2. CASE r = Retried(w, t)
  BY <1>1, <1>2 DEF OnlyRow, Retried, RateLimited, HoldsClaim, Row, PendingStatuses
<1>3. CASE r = RateLimited(w, t)
  BY <1>1, <1>3 DEF OnlyRow, RateLimited, HoldsClaim, Row, PendingStatuses
<1> QED
  BY <1>2, <1>3

LEMMA UpdateStatusFields ==
  ASSUME TypeOK, NEW w \in Workers, NEW t \in Targets,
         NEW s \in PostStatuses, NEW p \in Ids \cup {0},
         UpdateStatusWithLease(w, t, s, p)
  PROVE  /\ OnlyRow(t, row')
         /\ \/ row'[t] = row[t] /\ ~HoldsClaim(w, t)
            \/ /\ HoldsClaim(w, t)
               /\ row'[t].status = s /\ row'[t].pid = p
               /\ row'[t].owner = IF s = "publishing" THEN w ELSE NoOne
               /\ row'[t].recOwner = row[t].recOwner
               /\ row'[t].recAttempt = row[t].recAttempt
<1>1. row \in [Targets -> Row] /\ row[t] \in Row
  BY DEF TypeOK
<1>2. CASE HoldsClaim(w, t)
  <2>1. row' = [row EXCEPT ![t] = [row[t] EXCEPT !.status = s, !.pid = p,
                  !.owner = IF s = "publishing" THEN w ELSE NoOne]]
    BY <1>2 DEF UpdateStatusWithLease, Commit
  <2> QED
    BY <1>1, <1>2, <2>1 DEF OnlyRow, Row
<1>3. CASE ~HoldsClaim(w, t)
  BY <1>3 DEF UpdateStatusWithLease, OnlyRow
<1> QED
  BY <1>2, <1>3

\* The reconciler's terminal write happens under its live lease or not at all.
LEMMA ReconcileFields ==
  ASSUME TypeOK, NEW w \in Workers, NEW t \in Targets,
         NEW s \in PostStatuses, NEW p \in Ids \cup {0}
  PROVE  LET r == ReconcileStatus(w, t, s, p) IN
         /\ OnlyRow(t, r)
         /\ \/ r[t] = row[t]
            \/ /\ OwnsPoll(w, t)
               /\ r[t].status = s /\ r[t].pid = p /\ r[t].owner = row[t].owner
               /\ r[t].recOwner = NoOne /\ r[t].recAttempt = row[t].recAttempt
<1>1. row \in [Targets -> Row] /\ row[t] \in Row
  BY DEF TypeOK
<1> QED
  BY <1>1 DEF OnlyRow, ReconcileStatus, Row

\* Releasing or rescheduling a poll touches nothing the driver looks at.
LEMMA YieldFields ==
  ASSUME TypeOK, NEW w \in Workers, NEW t \in Targets,
         NEW a \in 0..(MaxReconcile - 1), NEW inc \in {0, 1},
         NEW r \in {Released(w, t), Scheduled(w, t, a, inc)}
  PROVE  /\ OnlyRow(t, r)
         /\ r[t].status = row[t].status /\ r[t].pid = row[t].pid
         /\ r[t].owner = row[t].owner
         /\ r[t].recOwner \in {row[t].recOwner, NoOne}
         /\ \/ r[t].recAttempt = row[t].recAttempt
            \/ r = Scheduled(w, t, a, inc) /\ r[t].recAttempt = a + inc
<1>1. row \in [Targets -> Row] /\ row[t] \in Row
  BY DEF TypeOK
<1>2. CASE r = Released(w, t)
  BY <1>1, <1>2 DEF OnlyRow, Released, Row
<1>3. CASE r = Scheduled(w, t, a, inc)
  BY <1>1, <1>3 DEF OnlyRow, Scheduled, Released, Row
<1> QED
  BY <1>2, <1>3

LEMMA WithStatusFields ==
  ASSUME TypeOK, NEW S, NEW s \in PostStatuses, NEW t \in Targets
  PROVE  LET r == WithStatus(S, s) IN
         /\ r[t].status = IF t \in S THEN s ELSE row[t].status
         /\ r[t].pid = row[t].pid /\ r[t].owner = row[t].owner
         /\ r[t].recOwner = row[t].recOwner /\ r[t].recAttempt = row[t].recAttempt
<1>1. row[t] \in Row
  BY DEF TypeOK
<1> QED
  BY <1>1 DEF WithStatus, Row

-----------------------------------------------------------------------------
(* A published row names a live publication.                               *)

\* The four things that happen to a publication: nothing, it is accepted, an
\* accepted one is settled, the second phase publishes an uploaded video.
PubStep(t, i) ==
  \/ pub'[t][i] = pub[t][i]
  \/ pub[t][i] = "none" /\ (pub'[t][i] = "unnamed" => t \notin YouTube)
  \/ pub[t][i] = "processing" /\ pub'[t][i] # "unnamed"
  \/ t \in YouTube /\ pub'[t][i] = "live"

LEMMA Publications ==
  ASSUME TypeOK, Next, NEW t \in Targets, NEW i \in Ids
  PROVE  PubStep(t, i)
<1>1. pub \in [Targets -> [Ids -> PubStates]]
  BY DEF TypeOK
<1>2. ASSUME NEW u \in Targets, NEW k \in Ids, NEW s, Accept(u, k, s),
             s = "unnamed" => u \notin YouTube
      PROVE  PubStep(t, i)
  BY <1>1, <1>2 DEF Accept, PubStep
<1>3. ASSUME NEW u \in Targets, NEW k \in Ids, ProviderSettles(u, k) PROVE PubStep(t, i)
  BY <1>1, <1>3 DEF ProviderSettles, PubStep
<1>4. ASSUME NEW w \in Workers, NEW u \in Targets, PhaseTwoPublishes(w, u)
      PROVE  PubStep(t, i)
  BY <1>1, <1>4 DEF PhaseTwoPublishes, PubStep
<1>a. ASSUME UNCHANGED pub PROVE PubStep(t, i)
  BY <1>a DEF PubStep
<1>b. ASSUME NEW w \in Workers, NEW u \in Targets, PublishAccepted(w, u)
      PROVE  PubStep(t, i)
  <2>0. PICK k \in Ids : \E p \in Answers(u, k) : Accept(u, k, Outcome(u, p))
    BY <1>b DEF PublishAccepted
  <2>1. PICK p \in Answers(u, k) : Accept(u, k, Outcome(u, p))
    BY <2>0
  <2>2. Outcome(u, p) = "unnamed" => u \notin YouTube
    BY ConstantTypes DEF Answers, Outcome
  <2> QED
    BY <1>2, <2>1, <2>2
<1>c. ASSUME NEW w \in Workers, NEW u \in Targets, PublishAnswerLost(w, u)
      PROVE  PubStep(t, i)
  <2>1. PICK k \in Ids : Accept(u, k, Outcome(u, k))
    BY <1>c DEF PublishAnswerLost
  <2>2. Outcome(u, k) # "unnamed"
    BY ConstantTypes DEF Outcome
  <2> QED
    BY <1>2, <2>1, <2>2
<1>d. ASSUME NEW w \in Workers, NEW u \in Targets, ExportCompletes(w, u)
      PROVE  PubStep(t, i)
  BY <1>2, <1>d DEF ExportCompletes
<1>5. ASSUME NEW w \in Workers, NEW u \in Targets, DriverStep(w, u)
      PROVE  PubStep(t, i)
  BY <1>4, <1>5, <1>a, <1>b, <1>d
     DEF DriverStep, Claim, MarkFailed, Abandon, MarkBlockedAuth, KeyConflict, RollBackClaim,
         AwaitUpload, MarkRateLimited, Record, DeliveryGate
<1>6. ASSUME NEW w \in Workers, NEW u \in Targets, ReconcilerStep(w, u)
      PROVE  UNCHANGED pub
  BY <1>6 DEF ReconcilerStep, ClaimPublishing, Settle, Yield, PollCompleted, PollRejected,
              PollImpossible, PollDeadLetter, PollTransient, PollInFlight, PollSkipped
<1>7. CASE FaultStep
  BY <1>7, <1>a, <1>c DEF FaultStep, Crash, DropJob
<1>8. CASE UserStep
  BY <1>8, <1>a DEF UserStep, PublishPost, CancelPost, RetryPost, SchedulePost, EditPost,
              WritePost, CancelTargets, CancelFutureJobsForAccount, RetryTarget, Reset
<1>9. CASE TimeStep
  BY <1>3, <1>9, <1>a DEF TimeStep, AttemptDue, PollDue, PollLeaseExpires
<1> QED
  BY <1>5, <1>6, <1>7, <1>8, <1>9, <1>a DEF Next, ListPending, ListPublishing, RepairDirty

\* What a provider has carried out, or accepted without an id, stays so.
LEMMA LiveStays ==
  ASSUME TypeOK, Next, NEW t \in Targets, LiveInv(t), NEW i \in Ids,
         pub[t][i] \in {"live", "unnamed"}
  PROVE  pub'[t][i] = pub[t][i]
BY Publications DEF PubStep, LiveInv

LEMMA DeliveredStays ==
  ASSUME TypeOK, Next, NEW t \in Targets, LiveInv(t), NEW p \in Ids \cup {0}, Delivered(t, p)
  PROVE  Delivered(t, p)'
<1>1. Outcome(t, 0) \in {"live", "unnamed"}
  BY DEF Outcome
<1> QED
  BY <1>1, LiveStays, ConstantTypes DEF Delivered

-----------------------------------------------------------------------------
(* A worker's step on one target leaves the others alone.                  *)

SameTarget(t) ==
  /\ row'[t] = row[t] /\ pub'[t] = pub[t] /\ fails'[t] = fails[t] /\ UNCHANGED fromUpload
  /\ \A w \in Workers : job'[w][t] = job[w][t] /\ rjob'[w][t] = rjob[w][t]

LEMMA JobFrame ==
  ASSUME TypeOK, NEW w \in Workers, NEW u \in Targets, NEW t \in Targets, u # t, NEW j,
         job' = [job EXCEPT ![w][u] = j], NEW v \in Workers
  PROVE  job'[v][t] = job[v][t]
BY DEF TypeOK

LEMMA RJobFrame ==
  ASSUME TypeOK, NEW w \in Workers, NEW u \in Targets, NEW t \in Targets, u # t, NEW j,
         rjob' = [rjob EXCEPT ![w][u] = j], NEW v \in Workers
  PROVE  rjob'[v][t] = rjob[v][t]
BY DEF TypeOK

LEMMA DriverOrigin ==
  ASSUME NEW w \in Workers, NEW t \in Targets,
         DriverStep(w, t) \/ DropJob(w, t) \/ PublishAnswerLost(w, t)
  PROVE  UNCHANGED fromUpload
BY DEF DriverStep, Claim, MarkFailed, Abandon, MarkBlockedAuth, KeyConflict, Finish,
       RollBackClaim, AwaitUpload, MarkRateLimited, Record, DeliveryGate, DropJob,
       PublishAnswerLost, PhaseTwoPublishes, PublishAccepted, ExportCompletes

LEMMA DriverFrame ==
  ASSUME TypeOK, NEW w \in Workers, NEW u \in Targets, NEW t \in Targets, u # t,
         DriverStep(w, u) \/ DropJob(w, u) \/ PublishAnswerLost(w, u)
  PROVE  SameTarget(t)
<1>0. UNCHANGED fromUpload
  BY DriverOrigin
<1> USE JobFields, ConstantTypes
<1>1. \A v \in Workers : job'[v][t] = job[v][t]
  <2>1. \E j : job' = [job EXCEPT ![w][u] = j]
    <3>1. CASE Claim(w, u)
      <4>1. \/ job' = [job EXCEPT ![w][u] = [job[w][u] EXCEPT !.pc = "owned"]]
            \/ job' = [job EXCEPT ![w][u] = IdleJob]
        BY <3>1 DEF Claim
      <4> QED
        BY <4>1
    <3>2. CASE PublishAccepted(w, u)
      BY <3>2, SentJob
    <3>4. CASE ExportCompletes(w, u)
      BY <3>4 DEF ExportCompletes
    <3>3. CASE ~Claim(w, u) /\ ~PublishAccepted(w, u) /\ ~ExportCompletes(w, u)
      BY <3>3 DEF DriverStep, MarkFailed, Abandon, MarkBlockedAuth, KeyConflict, Finish,
                  RollBackClaim, AwaitUpload, MarkRateLimited, Record, DeliveryGate, DropJob,
                  PublishAnswerLost, PhaseTwoPublishes
    <3> QED
      BY <3>1, <3>2, <3>3, <3>4
  <2> QED
    BY <2>1, JobFrame
<1>2. UNCHANGED rjob
  BY DEF DriverStep, Claim, MarkFailed, Abandon, MarkBlockedAuth, KeyConflict, Finish,
         RollBackClaim, AwaitUpload, MarkRateLimited, Record, DeliveryGate, DropJob,
         PublishAnswerLost, PhaseTwoPublishes, PublishAccepted, ExportCompletes
<1>3. pub'[t] = pub[t]
  BY DEF DriverStep, Claim, MarkFailed, Abandon, MarkBlockedAuth, KeyConflict, TypeOK,
         RollBackClaim, AwaitUpload, MarkRateLimited, Record, DeliveryGate, DropJob, Accept,
         PublishAnswerLost, PhaseTwoPublishes, PublishAccepted, ExportCompletes
<1>4. fails'[t] = fails[t]
  BY DEF DriverStep, Claim, MarkFailed, Abandon, MarkBlockedAuth, KeyConflict, TypeOK,
         RollBackClaim, AwaitUpload, MarkRateLimited, Record, DeliveryGate, DropJob, Finish,
         PublishAnswerLost, PhaseTwoPublishes, PublishAccepted, ExportCompletes
<1>5. row'[t] = row[t]
  <2>1. ASSUME NEW s \in PostStatuses, NEW p \in Ids \cup {0}, UpdateStatusWithLease(w, u, s, p)
        PROVE  row'[t] = row[t]
    BY <2>1, UpdateStatusFields DEF OnlyRow
  <2>2. CASE MarkBlockedAuth(w, u) \/ KeyConflict(w, u) \/ RollBackClaim(w, u) \/ AwaitUpload(w, u)
    BY <2>1, <2>2 DEF MarkBlockedAuth, KeyConflict, RollBackClaim, AwaitUpload, Abandon, PostStatuses
  <2>3. CASE Record(w, u)
    BY <2>1, <2>3 DEF Record, PostStatuses
  <2>4. CASE MarkFailed(w, u) \/ MarkRateLimited(w, u) \/ PublishAnswerLost(w, u)
    BY <2>4, RequeuedFields DEF MarkFailed, MarkRateLimited, PublishAnswerLost, Commit, OnlyRow
  <2>5. CASE Claim(w, u)
    BY <2>5, ClaimedFields DEF Claim, Commit, OnlyRow
  <2>6. CASE DeliveryGate(w, u)
    BY <2>6 DEF DeliveryGate, Commit, TypeOK
  <2>7. CASE DropJob(w, u) \/ PublishAccepted(w, u) \/ ExportCompletes(w, u) \/ PhaseTwoPublishes(w, u)
    BY <2>7 DEF DropJob, PublishAccepted, ExportCompletes, PhaseTwoPublishes
  <2> QED
    BY <2>2, <2>3, <2>4, <2>5, <2>6, <2>7 DEF DriverStep
<1> QED
  BY <1>0, <1>1, <1>2, <1>3, <1>4, <1>5 DEF SameTarget

LEMMA ReconcilerFrame ==
  ASSUME TypeOK, NEW w \in Workers, NEW u \in Targets, NEW t \in Targets, u # t,
         ReconcilerStep(w, u)
  PROVE  SameTarget(t)
<1> USE JobFields, ConstantTypes
<1>1. UNCHANGED <<job, pub, fromUpload>>
  BY DEF ReconcilerStep, ClaimPublishing, Settle, Yield, PollCompleted, PollRejected,
         PollImpossible, PollDeadLetter, PollTransient, PollInFlight, PollSkipped
<1>2. \A v \in Workers : rjob'[v][t] = rjob[v][t]
  <2>1. \E j : rjob' = [rjob EXCEPT ![w][u] = j]
    <3>1. CASE ClaimPublishing(w, u)
      <4>1. \/ rjob' = [rjob EXCEPT ![w][u] = [rjob[w][u] EXCEPT !.pc = "polling"]]
            \/ rjob' = [rjob EXCEPT ![w][u] = IdleRJob]
        BY <3>1 DEF ClaimPublishing
      <4> QED
        BY <4>1
    <3>2. CASE ~ClaimPublishing(w, u)
      BY <3>2 DEF ReconcilerStep, Settle, Yield, PollCompleted, PollRejected,
         PollImpossible, PollDeadLetter, PollTransient, PollInFlight, PollSkipped
    <3> QED
      BY <3>1, <3>2
  <2> QED
    BY <2>1, RJobFrame
<1>3. fails'[t] = fails[t]
  BY DEF ReconcilerStep, ClaimPublishing, PollCompleted, PollRejected, TypeOK, CountFailure,
         PollImpossible, PollDeadLetter, PollTransient, PollInFlight, PollSkipped
<1>4. row'[t] = row[t]
  <2>1. ASSUME NEW s \in PostStatuses, Settle(w, u, s, rjob[w][u].pid) PROVE row'[t] = row[t]
    BY <2>1, ReconcileFields DEF Settle, Commit, OnlyRow
  <2>2. CASE PollCompleted(w, u) \/ PollRejected(w, u) \/ PollImpossible(w, u) \/ PollDeadLetter(w, u)
    BY <2>1, <2>2 DEF PollCompleted, PollRejected, PollImpossible, PollDeadLetter, PostStatuses
  <2>3. CASE PollTransient(w, u) \/ PollInFlight(w, u) \/ PollSkipped(w, u)
    BY <2>3, YieldFields DEF PollTransient, PollInFlight, PollSkipped, Yield, OnlyRow
  <2>4. CASE ClaimPublishing(w, u)
    BY <2>4 DEF ClaimPublishing, TypeOK
  <2> QED
    BY <2>2, <2>3, <2>4 DEF ReconcilerStep
<1> QED
  BY <1>1, <1>2, <1>3, <1>4 DEF SameTarget

LEMMA JobAt ==
  ASSUME TypeOK, NEW w \in Workers, NEW t \in Targets, NEW j,
         job' = [job EXCEPT ![w][t] = j]
  PROVE  \A v \in Workers : job'[v][t] = IF v = w THEN j ELSE job[v][t]
BY DEF TypeOK

LEMMA RJobAt ==
  ASSUME TypeOK, NEW w \in Workers, NEW t \in Targets, NEW j,
         rjob' = [rjob EXCEPT ![w][t] = j]
  PROVE  \A v \in Workers : rjob'[v][t] = IF v = w THEN j ELSE rjob[v][t]
BY DEF TypeOK

-----------------------------------------------------------------------------
(* LiveInv is inductive, whatever the owner does and whatever fails.       *)

\* A row or an answer newly said to be published is about what is there already.
LEMMA LiveCore ==
  ASSUME TypeOK, Next, NEW t \in Targets, LiveInv(t),
         row'[t].status = "published" =>
           \/ row[t].status = "published" /\ row'[t].pid = row[t].pid
           \/ \E w \in Workers : /\ job[w][t].pc = "sent" /\ job[w][t].to = "published"
                                 /\ row'[t].pid = job[w][t].pid
           \/ row'[t].pid \in Ids \cup {0} /\ Delivered(t, row'[t].pid),
         \A w \in Workers : job'[w][t].pc = "sent" /\ job'[w][t].to = "published" =>
           \/ job'[w][t] = job[w][t]
           \/ \E p \in Ids \cup {0} : p = job'[w][t].pid /\ Delivered(t, p)'
  PROVE  LiveInv(t)'
<1>1. row[t].pid \in Ids \cup {0} /\ \A w \in Workers : job[w][t].pid \in Ids \cup {0}
  <2>1. row[t] \in Row /\ \A w \in Workers : job[w][t] \in Job
    BY DEF TypeOK
  <2> QED
    BY <2>1 DEF Row, Job
<1>2. ASSUME row'[t].status = "published" PROVE Delivered(t, row[t].pid)'
  <2>1. PICK p \in Ids \cup {0} : p = row'[t].pid /\ Delivered(t, p)
    BY <1>1, <1>2 DEF LiveInv
  <2>2. Delivered(t, p)'
    BY <2>1, DeliveredStays
  <2> QED
    BY <2>1, <2>2 DEF Delivered
<1>3. ASSUME NEW w \in Workers, job'[w][t].pc = "sent", job'[w][t].to = "published"
      PROVE  Delivered(t, job[w][t].pid)'
  <2>1. CASE job'[w][t] = job[w][t]
    <3>1. Delivered(t, job[w][t].pid)
      BY <1>3, <2>1 DEF LiveInv
    <3>2. PICK p \in Ids \cup {0} : p = job[w][t].pid
      BY <1>1
    <3>3. Delivered(t, p)'
      BY <3>1, <3>2, DeliveredStays
    <3> QED
      BY <2>1, <3>2, <3>3 DEF Delivered
  <2>2. CASE \E p \in Ids \cup {0} : p = job'[w][t].pid /\ Delivered(t, p)'
    BY <2>2 DEF Delivered
  <2> QED
    BY <1>3, <2>1, <2>2
<1>4. t \in YouTube => \A i \in Ids : pub'[t][i] # "unnamed"
  BY Publications DEF PubStep, LiveInv
<1> QED
  BY <1>2, <1>3, <1>4 DEF LiveInv

LEMMA LiveDriver ==
  ASSUME TypeOK, Next, NEW w \in Workers, NEW t \in Targets, LiveInv(t),
         DriverStep(w, t) \/ DropJob(w, t) \/ PublishAnswerLost(w, t)
  PROVE  LiveInv(t)'
<1> USE JobFields, ConstantTypes
<1>a. IdleJob.pc = "idle" /\ [IdleJob EXCEPT !.pc = "gate"].pc = "gate"
  BY DEF IdleJob
<1>1. CASE Claim(w, t)
  <2>1. CASE Claimable(t)
    <3>1. row' = Claimed(w, t)
      BY <1>1, <2>1 DEF Claim, Commit
    <3>2. job' = [job EXCEPT ![w][t] = [job[w][t] EXCEPT !.pc = "owned"]]
      BY <1>1, <2>1 DEF Claim
    <3>3. [job[w][t] EXCEPT !.pc = "owned"].pc = "owned"
      BY DEF Job
    <3> QED
      BY <3>1, <3>2, <3>3, ClaimedFields, JobAt, LiveCore
  <2>2. CASE ~Claimable(t)
    <3>1. UNCHANGED row /\ job' = [job EXCEPT ![w][t] = IdleJob]
      BY <1>1, <2>2 DEF Claim
    <3> QED
      BY <1>a, <3>1, JobAt, LiveCore
  <2> QED
    BY <2>1, <2>2
<1>2. CASE MarkFailed(w, t) \/ MarkRateLimited(w, t) \/ PublishAnswerLost(w, t)
  <2>1. job' = [job EXCEPT ![w][t] = IdleJob] /\ row' \in {Retried(w, t), RateLimited(w, t)}
    BY <1>2 DEF MarkFailed, MarkRateLimited, PublishAnswerLost, Finish, Commit
  <2>2. row'[t] = row[t] \/ row'[t].status \in PendingStatuses
    BY <2>1, RequeuedFields
  <2> QED
    BY <1>a, <2>1, <2>2, JobAt, LiveCore DEF PendingStatuses
<1>3. CASE MarkBlockedAuth(w, t) \/ KeyConflict(w, t) \/ RollBackClaim(w, t) \/ AwaitUpload(w, t)
  <2>1. PICK s \in PostStatuses : s # "published" /\ Abandon(w, t, s)
    BY <1>3 DEF MarkBlockedAuth, KeyConflict, RollBackClaim, AwaitUpload, PostStatuses
  <2>2. job' = [job EXCEPT ![w][t] = IdleJob]
    BY <2>1 DEF Abandon, Finish
  <2>3. row'[t] = row[t] \/ row'[t].status = s
    BY <2>1, UpdateStatusFields DEF Abandon
  <2> QED
    BY <1>a, <2>1, <2>2, <2>3, JobAt, LiveCore
<1>4. CASE PublishAccepted(w, t)
  <2>1. PICK i \in Ids, p \in Ids \cup {0}, j \in Job :
          /\ Accept(t, i, Outcome(t, p))
          /\ job' = [job EXCEPT ![w][t] = j]
          /\ j.pc = "sent" /\ j.pid = p /\ p \in {i, 0}
          /\ j.to = IF Outcome(t, p) = "processing" THEN "publishing" ELSE "published"
    BY <1>4, SentJob
  <2>2. pub'[t][i] = Outcome(t, p)
    BY <2>1 DEF Accept, TypeOK
  <2>3. UNCHANGED row
    BY <1>4 DEF PublishAccepted
  <2>4. j.to = "published" => Delivered(t, p)'
    <3>1. CASE p = 0
      BY <2>2, <3>1 DEF Delivered
    <3>2. CASE p # 0 /\ t \notin AsyncTargets
      <4>1. p = i /\ pub'[t][i] = "live" /\ Outcome(t, 0) = "live"
        BY <2>1, <2>2, <3>2 DEF Outcome
      <4> QED
        BY <4>1 DEF Delivered
    <3>3. CASE p # 0 /\ t \in AsyncTargets
      BY <2>1, <3>3 DEF Outcome
    <3> QED
      BY <3>1, <3>2, <3>3
  <2> HIDE DEF Delivered
  <2> QED
    BY <2>1, <2>3, <2>4, JobAt, LiveCore
<1>8. CASE ExportCompletes(w, t)
  <2> DEFINE j == [pc |-> "sent", pid |-> job[w][t].pid, to |-> "published"]
  <2>1. job' = [job EXCEPT ![w][t] = j] /\ UNCHANGED row /\ j.pid \in Ids \cup {0}
    BY <1>8 DEF ExportCompletes
  <2>2. PICK i \in Ids : pub'[t][i] = "live"
    BY <1>8 DEF ExportCompletes, Accept, TypeOK
  <2>3. t \in Exports /\ Outcome(t, 0) = "live"
    BY <1>8, PipelineAssumption DEF ExportCompletes, Outcome
  <2>4. \A p \in Ids \cup {0} : Delivered(t, p)'
    BY <2>2, <2>3 DEF Delivered
  <2> HIDE DEF j
  <2> QED
    BY <2>1, <2>4, JobAt, LiveCore
<1>5. CASE PhaseTwoPublishes(w, t)
  <2>1. pub'[t][1] = "live" /\ t \in YouTube
    BY <1>5 DEF PhaseTwoPublishes, TypeOK
  <2>2. job' = [job EXCEPT ![w][t] = [pc |-> "sent", pid |-> 1, to |-> "published"]]
    BY <1>5 DEF PhaseTwoPublishes
  <2>3. UNCHANGED row
    BY <1>5 DEF PhaseTwoPublishes
  <2>4. 1 \in Ids \cup {0} /\ Delivered(t, 1)'
    BY <2>1, PipelineAssumption DEF Delivered
  <2> QED
    BY <2>2, <2>3, <2>4, JobAt, LiveCore
<1>6. CASE Record(w, t)
  <2>1. \/ row'[t] = row[t]
        \/ row'[t].status = job[w][t].to /\ row'[t].pid = job[w][t].pid
    BY <1>6, UpdateStatusFields DEF Record, PostStatuses
  <2>2. PICK j : j.pc # "sent" /\ job' = [job EXCEPT ![w][t] = j]
    BY <1>a, <1>6 DEF Record
  <2>3. job[w][t].pc = "sent"
    BY <1>6 DEF Record
  <2>4. ASSUME NEW v \in Workers, job'[v][t].pc = "sent" PROVE job'[v][t] = job[v][t]
    BY <1>a, <2>2, <2>4, JobAt
  <2>5. CASE row'[t] = row[t]
    BY <2>4, <2>5, LiveCore
  <2>6. CASE row'[t].status = job[w][t].to /\ row'[t].pid = job[w][t].pid
    BY <2>3, <2>4, <2>6, LiveCore
  <2> QED
    BY <2>1, <2>5, <2>6
<1>7. CASE DeliveryGate(w, t) \/ DropJob(w, t)
  <2>1. job' = [job EXCEPT ![w][t] = IdleJob]
    BY <1>7 DEF DeliveryGate, DropJob
  <2>2. [row EXCEPT ![t].status = "drive_required_failed"][t].status = "drive_required_failed"
    BY DEF TypeOK, Row
  <2>3. row' = row \/ row'[t].status = "drive_required_failed"
    BY <1>7, <2>2 DEF DeliveryGate, DropJob, Commit
  <2> QED
    BY <1>a, <2>1, <2>3, JobAt, LiveCore
<1> QED
  BY <1>1, <1>2, <1>3, <1>4, <1>5, <1>6, <1>7, <1>8 DEF DriverStep

LEMMA LiveReconciler ==
  ASSUME TypeOK, Next, NEW w \in Workers, NEW t \in Targets, LiveInv(t),
         ReconcilerStep(w, t)
  PROVE  LiveInv(t)'
<1> USE JobFields, ConstantTypes
<1>1. UNCHANGED job
  BY DEF ReconcilerStep, ClaimPublishing, Settle, Yield, PollCompleted, PollRejected,
         PollImpossible, PollDeadLetter, PollTransient, PollInFlight, PollSkipped
<1>2. CASE PollCompleted(w, t)
  <2>1. rjob[w][t].pid \in Ids /\ pub[t][rjob[w][t].pid] = "live"
    BY <1>2 DEF PollCompleted
  <2>2. "published" \in PostStatuses /\ rjob[w][t].pid \in Ids \cup {0}
    BY <2>1 DEF PostStatuses
  <2>3. row' = ReconcileStatus(w, t, "published", rjob[w][t].pid)
    BY <1>2 DEF PollCompleted, Settle, Commit
  <2>4. LET r == ReconcileStatus(w, t, "published", rjob[w][t].pid) IN
        r[t] = row[t] \/ r[t].pid = rjob[w][t].pid
    BY ONLY <2>2, TypeOK, w \in Workers, t \in Targets, ReconcileFields
  <2>5. row'[t] = row[t] \/ row'[t].pid = rjob[w][t].pid
    BY <2>3, <2>4
  <2>6. t \notin Exports
    BY <1>2, PipelineAssumption DEF PollCompleted
  <2>7. Delivered(t, rjob[w][t].pid)
    BY <2>1, <2>6 DEF Delivered
  <2> QED
    BY <1>1, <2>1, <2>5, <2>7, LiveCore
<1>3. CASE PollRejected(w, t) \/ PollImpossible(w, t) \/ PollDeadLetter(w, t)
  <2>1. PICK s \in {"failed", "blocked_auth", "dlq"} : Settle(w, t, s, rjob[w][t].pid)
    BY <1>3 DEF PollRejected, PollImpossible, PollDeadLetter
  <2>2. s \in PostStatuses /\ rjob[w][t].pid \in Ids \cup {0}
    BY DEF PostStatuses
  <2>3. row' = ReconcileStatus(w, t, s, rjob[w][t].pid)
    BY <2>1 DEF Settle, Commit
  <2>4. LET r == ReconcileStatus(w, t, s, rjob[w][t].pid) IN
        r[t] = row[t] \/ r[t].status = s
    BY ONLY <2>2, TypeOK, w \in Workers, t \in Targets, ReconcileFields
  <2>5. row'[t] = row[t] \/ row'[t].status = s
    BY <2>3, <2>4
  <2> QED
    BY <1>1, <2>5, LiveCore
<1>4. CASE PollTransient(w, t) \/ PollInFlight(w, t) \/ PollSkipped(w, t)
  <2>1. row'[t].status = row[t].status /\ row'[t].pid = row[t].pid
    BY <1>4, YieldFields DEF PollTransient, PollInFlight, PollSkipped, Yield
  <2> QED
    BY <1>1, <2>1, LiveCore
<1>5. CASE ClaimPublishing(w, t)
  <2>1. row'[t].status = row[t].status /\ row'[t].pid = row[t].pid
    <3>1. [row EXCEPT ![t].recOwner = w, ![t].recLive = TRUE][t].status = row[t].status
      BY DEF TypeOK, Row
    <3>2. [row EXCEPT ![t].recOwner = w, ![t].recLive = TRUE][t].pid = row[t].pid
      BY DEF TypeOK, Row
    <3> QED
      BY <1>5, <3>1, <3>2 DEF ClaimPublishing
  <2> QED
    BY <1>1, <2>1, LiveCore
<1> QED
  BY <1>2, <1>3, <1>4, <1>5 DEF ReconcilerStep

\* What the steps that are not a worker's work on a target do to its row.
LEMMA QuietFields ==
  ASSUME TypeOK, NEW t \in Targets,
         \/ TimeStep \/ SchedulePost \/ EditPost
         \/ \E w \in Workers : ListPending(w) \/ ListPublishing(w) \/ RepairDirty(w) \/ Crash(w)
  PROVE  /\ row'[t].status = row[t].status /\ row'[t].pid = row[t].pid
         /\ row'[t].owner = row[t].owner /\ row'[t].recOwner = row[t].recOwner
         /\ row'[t].recAttempt = row[t].recAttempt /\ fails'[t] = fails[t]
<1>1. ASSUME NEW u \in Targets, AttemptDue(u) \/ PollDue(u) \/ PollLeaseExpires(u)
      PROVE  /\ row'[t].status = row[t].status /\ row'[t].pid = row[t].pid
             /\ row'[t].owner = row[t].owner /\ row'[t].recOwner = row[t].recOwner
             /\ row'[t].recAttempt = row[t].recAttempt /\ fails'[t] = fails[t]
  <2>1. row \in [Targets -> Row] /\ row[u] \in Row
    BY DEF TypeOK
  <2>2. UNCHANGED fails
    BY <1>1 DEF AttemptDue, PollDue, PollLeaseExpires
  <2>3. CASE AttemptDue(u)
    BY <2>1, <2>2, <2>3 DEF AttemptDue, Row
  <2>4. CASE PollDue(u)
    BY <2>1, <2>2, <2>4 DEF PollDue, Row
  <2>5. CASE PollLeaseExpires(u)
    BY <2>1, <2>2, <2>5 DEF PollLeaseExpires, Row
  <2> QED
    BY <1>1, <2>3, <2>4, <2>5
<1>2. CASE \/ SchedulePost \/ EditPost
           \/ \E u \in Targets, i \in Ids : ProviderSettles(u, i)
  BY <1>2 DEF SchedulePost, EditPost, WritePost, ProviderSettles
<1>3. CASE \E w \in Workers : ListPending(w) \/ ListPublishing(w) \/ RepairDirty(w) \/ Crash(w)
  BY <1>3 DEF ListPending, ListPublishing, RepairDirty, Crash
<1> QED
  BY <1>1, <1>2, <1>3 DEF TimeStep

\* What they do to the driver's job on it.
LEMMA QuietJobs ==
  ASSUME TypeOK, NEW t \in Targets, NEW v \in Workers,
         \/ TimeStep \/ UserStep
         \/ \E w \in Workers : ListPending(w) \/ ListPublishing(w) \/ RepairDirty(w) \/ Crash(w)
  PROVE  \/ job'[v][t] = job[v][t]
         \/ job'[v][t].pc = "idle"
         \/ Claimable(t) /\ job'[v][t].pc = "listed" /\ job'[v][t].pid = row[t].pid
<1>1. ASSUME NEW w \in Workers, ListPending(w)
      PROVE  \/ job'[v][t] = job[v][t]
             \/ job'[v][t].pc = "idle"
             \/ Claimable(t) /\ job'[v][t].pc = "listed" /\ job'[v][t].pid = row[t].pid
  <2>1. [IdleJob EXCEPT !.pc = "listed", !.pid = row[t].pid].pc = "listed"
    BY DEF IdleJob
  <2>2. [IdleJob EXCEPT !.pc = "listed", !.pid = row[t].pid].pid = row[t].pid
    BY DEF IdleJob
  <2>3. IdleJob.pc = "idle"
    BY DEF IdleJob
  <2>4. v = w => job'[v][t] = IF Claimable(t)
                              THEN [IdleJob EXCEPT !.pc = "listed", !.pid = row[t].pid]
                              ELSE IdleJob
    BY <1>1 DEF ListPending, TypeOK
  <2>5. v # w => job'[v][t] = job[v][t]
    BY <1>1 DEF ListPending, TypeOK
  <2> QED
    BY <2>1, <2>2, <2>3, <2>4, <2>5
<1>2. ASSUME NEW w \in Workers, Crash(w)
      PROVE  job'[v][t] = job[v][t] \/ job'[v][t].pc = "idle"
  BY <1>2 DEF Crash, TypeOK, IdleJob
<1>3. CASE \E w \in Workers : ListPublishing(w) \/ RepairDirty(w)
  BY <1>3 DEF ListPublishing, RepairDirty
<1>4. CASE TimeStep
  BY <1>4 DEF TimeStep, AttemptDue, PollDue, PollLeaseExpires, ProviderSettles
<1>5. CASE UserStep
  BY <1>5 DEF UserStep, PublishPost, CancelPost, RetryPost, SchedulePost, EditPost, WritePost, CancelTargets,
              CancelFutureJobsForAccount, RetryTarget, Reset
<1> QED
  BY <1>1, <1>2, <1>3, <1>4, <1>5

LEMMA LiveQuiet ==
  ASSUME TypeOK, Next, NEW t \in Targets, LiveInv(t),
         \/ TimeStep \/ UserStep
         \/ \E w \in Workers : ListPending(w) \/ ListPublishing(w) \/ RepairDirty(w) \/ Crash(w)
  PROVE  LiveInv(t)'
<1>1. \A v \in Workers : job'[v][t].pc = "sent" => job'[v][t] = job[v][t]
  BY QuietJobs
<1>2. ASSUME NEW S, NEW s \in {"queued", "draft"}, Reset(WithStatus(S, s)) PROVE LiveInv(t)'
  <2>1. s \in PostStatuses
    BY DEF PostStatuses
  <2>2. row'[t].pid = row[t].pid /\ row'[t].status \in {s, row[t].status}
    BY <1>2, <2>1, WithStatusFields DEF Reset
  <2> QED
    BY <1>1, <2>2, LiveCore
<1>3. CASE UserStep /\ ~SchedulePost /\ ~EditPost
  BY <1>2, <1>3 DEF UserStep, PublishPost, CancelPost, RetryPost, CancelTargets,
                    CancelFutureJobsForAccount, RetryTarget
<1>4. CASE ~UserStep \/ SchedulePost \/ EditPost
  <2>1. row'[t].status = row[t].status /\ row'[t].pid = row[t].pid
    BY <1>4, QuietFields
  <2> QED
    BY <1>1, <2>1, LiveCore
<1> QED
  BY <1>3, <1>4

LEMMA LiveStep ==
  ASSUME TypeOK, [Next]_vars, NEW t \in Targets, LiveInv(t)
  PROVE  LiveInv(t)'
<1>1. ASSUME SameTarget(t) PROVE LiveInv(t)'
  BY <1>1 DEF SameTarget, LiveInv, Delivered
<1>2. ASSUME NEW w \in Workers, NEW u \in Targets, Next,
             DriverStep(w, u) \/ DropJob(w, u) \/ PublishAnswerLost(w, u)
      PROVE  LiveInv(t)'
  BY <1>1, <1>2, DriverFrame, LiveDriver
<1>3. ASSUME NEW w \in Workers, NEW u \in Targets, Next, ReconcilerStep(w, u)
      PROVE  LiveInv(t)'
  BY <1>1, <1>3, ReconcilerFrame, LiveReconciler
<1>4. CASE Next
  BY <1>2, <1>3, <1>4, LiveQuiet DEF Next, FaultStep
<1>5. CASE UNCHANGED vars
  BY <1>1, <1>5 DEF vars, SameTarget
<1> QED
  BY <1>4, <1>5

\* A target shown as published carries the id of a publication that is live at
\* its provider, or no id because an accepted publication was given none: under
\* every interleaving of workers, crashes, lost answers and API calls, for any
\* number of targets and processes.
THEOREM PublishedIsLiveAlways == Spec => []PublishedIsLive
<1> DEFINE Inv == TypeOK /\ \A t \in Targets : LiveInv(t)
<1>1. Init => Inv
  <2> SUFFICES ASSUME Init PROVE Inv
    OBVIOUS
  <2>1. ASSUME NEW t \in Targets PROVE LiveInv(t)
    BY DEF Init, LiveInv, NewRow, IdleJob
  <2> QED
    BY <2>1, TypeInit
<1>2. Inv /\ [Next]_vars => Inv'
  BY TypeStep, LiveStep
<1>3. Inv => PublishedIsLive
  BY DEF LiveInv, PublishedIsLive
<1> QED
  BY <1>1, <1>2, <1>3, PTL DEF Spec

-----------------------------------------------------------------------------
(* Claims and counters while the owner only cancels or schedules.          *)

TargetInv(t) == ClaimInv(t) /\ CountInv(t)

LEMMA SameTargetInv ==
  ASSUME NEW t \in Targets, TargetInv(t), SameTarget(t)
  PROVE  TargetInv(t)'
BY DEF SameTarget, TargetInv, ClaimInv, CountInv

\* The driver at work on a target holds its lease, so no other driver is.
LEMMA OneAtWork ==
  ASSUME NEW t \in Targets, ClaimInv(t), NEW w \in Workers,
         job[w][t].pc \in {"owned", "sent"}, NEW v \in Workers, v # w
  PROVE  job[v][t].pc \notin {"owned", "sent"}
BY DEF ClaimInv

\* The driver gives the target up, and its job ends.
LEMMA GiveUpInv ==
  ASSUME TypeOK, NEW w \in Workers, NEW t \in Targets, TargetInv(t),
         job[w][t].pc \in {"owned", "sent", "gate"},
         NEW j \in Job, job' = [job EXCEPT ![w][t] = j], j.pc = "idle" \/ j.pc = "gate",
         UNCHANGED <<rjob, fails>>,
         row'[t].recOwner = row[t].recOwner, row'[t].recAttempt = row[t].recAttempt,
         row'[t].status = "dlq" => row[t].status = "dlq",
         \/ row'[t] = row[t]
         \/ /\ job[w][t].pc \in {"owned", "sent"}
            /\ row'[t].pid = 0 \/ row'[t].status \notin PendingStatuses
         \/ /\ row[t].status = "published" /\ row'[t].status = "drive_required_failed"
            /\ row'[t].pid = row[t].pid
  PROVE  TargetInv(t)'
<1>1. \A v \in Workers : v # w => job'[v][t] = job[v][t]
  BY JobAt
<1>2. job'[w][t].pc = "idle" \/ job'[w][t].pc = "gate"
  <2>1. job'[w][t] = j
    BY DEF TypeOK
  <2> QED
    BY <2>1
<1>3. CountInv(t)'
  <2>1. row[t].pid = row'[t].pid \/ row[t].pid = 0
    BY DEF TargetInv, ClaimInv
  <2> QED
    BY <2>1 DEF TargetInv, CountInv
<1>4. ClaimInv(t)'
  <2>1. CASE row'[t] = row[t]
    BY <1>1, <1>2, <2>1 DEF TargetInv, ClaimInv
  <2>2. CASE /\ job[w][t].pc \in {"owned", "sent"}
             /\ row'[t].pid = 0 \/ row'[t].status \notin PendingStatuses
    BY <1>1, <1>2, <2>2, OneAtWork DEF TargetInv, ClaimInv
  <2>3. CASE /\ row[t].status = "published" /\ row'[t].status = "drive_required_failed"
             /\ row'[t].pid = row[t].pid
    BY <1>1, <1>2, <2>3 DEF TargetInv, ClaimInv, PendingStatuses
  <2> QED
    BY <2>1, <2>2, <2>3
<1> QED
  BY <1>3, <1>4 DEF TargetInv

LEMMA ClaimStepInv ==
  ASSUME TypeOK, NEW w \in Workers, NEW t \in Targets, TargetInv(t), Claim(w, t)
  PROVE  TargetInv(t)'
<1> USE JobFields, ConstantTypes
<1>1. job[w][t].pc = "listed" /\ UNCHANGED rjob
  BY DEF Claim
<1>2. CASE Claimable(t)
  <2>1. row' = Claimed(w, t) /\ fails' = [fails EXCEPT ![t] = 0]
    BY <1>2 DEF Claim, Commit
  <2>2. job' = [job EXCEPT ![w][t] = [job[w][t] EXCEPT !.pc = "owned"]]
    BY <1>2 DEF Claim
  <2>3. [job[w][t] EXCEPT !.pc = "owned"].pc = "owned"
        /\ [job[w][t] EXCEPT !.pc = "owned"].pid = job[w][t].pid
    BY DEF Job
  <2>4. row[t].pid = 0 /\ row[t].status \in PendingStatuses /\ job[w][t].pid = 0
    BY <1>1, <1>2 DEF Claimable, TargetInv, ClaimInv
  <2>5. \A v \in Workers : job[v][t].pc \notin {"owned", "sent"}
    BY <2>4 DEF TargetInv, ClaimInv, PendingStatuses
  <2>6. fails'[t] = 0
    BY <2>1 DEF TypeOK
  <2>7. CountInv(t)'
    BY <1>1, <2>1, <2>4, <2>6, ClaimedFields DEF TargetInv, CountInv
  <2>8. ClaimInv(t)'
    BY <2>1, <2>2, <2>3, <2>4, <2>5, ClaimedFields, JobAt
       DEF TargetInv, ClaimInv, PendingStatuses
  <2> QED
    BY <2>7, <2>8 DEF TargetInv
<1>3. CASE ~Claimable(t)
  <2>1. UNCHANGED <<row, fails>> /\ job' = [job EXCEPT ![w][t] = IdleJob]
    BY <1>3 DEF Claim
  <2>2. IdleJob.pc = "idle"
    BY DEF IdleJob
  <2> QED
    BY <1>1, <2>1, <2>2, JobAt DEF TargetInv, ClaimInv, CountInv
<1> QED
  BY <1>2, <1>3

LEMMA DriverInv ==
  ASSUME TypeOK, NEW w \in Workers, NEW t \in Targets, TargetInv(t),
         DriverStep(w, t) \/ DropJob(w, t) \/ PublishAnswerLost(w, t)
  PROVE  TargetInv(t)'
<1> USE JobFields, ConstantTypes
<1>a. IdleJob.pc = "idle" /\ [IdleJob EXCEPT !.pc = "gate"].pc = "gate"
  BY DEF IdleJob
<1>b. IdleJob \in Job /\ [IdleJob EXCEPT !.pc = "gate"] \in Job
  BY DEF IdleJob, Job
<1>c. job[w][t].pc = "owned" => row[t].pid = 0 /\ job[w][t].pid = 0
  BY DEF TargetInv, ClaimInv
<1>1. CASE Claim(w, t)
  BY <1>1, ClaimStepInv
<1>2. CASE MarkFailed(w, t) \/ MarkRateLimited(w, t) \/ PublishAnswerLost(w, t)
  <2>1. /\ job[w][t].pc = "owned" /\ job' = [job EXCEPT ![w][t] = IdleJob]
        /\ row' \in {Retried(w, t), RateLimited(w, t)}
        /\ UNCHANGED <<rjob, fails>>
    BY <1>2 DEF MarkFailed, MarkRateLimited, PublishAnswerLost, Finish, Commit
  <2>2. \/ row'[t] = row[t]
        \/ /\ row'[t].status \in PendingStatuses /\ row'[t].pid = row[t].pid
           /\ row'[t].recOwner = row[t].recOwner /\ row'[t].recAttempt = row[t].recAttempt
    BY <2>1, RequeuedFields
  <2> QED
    BY <1>a, <1>c, <1>b, <2>1, <2>2, GiveUpInv DEF PendingStatuses
<1>3. CASE MarkBlockedAuth(w, t) \/ KeyConflict(w, t) \/ RollBackClaim(w, t) \/ AwaitUpload(w, t)
  <2>1. PICK s \in PostStatuses : s # "dlq" /\ Abandon(w, t, s)
    BY <1>3 DEF MarkBlockedAuth, KeyConflict, RollBackClaim, AwaitUpload, PostStatuses
  <2>2. /\ job[w][t].pc = "owned" /\ job' = [job EXCEPT ![w][t] = IdleJob]
        /\ UNCHANGED <<rjob, fails>>
    BY <2>1 DEF Abandon, Finish
  <2>0. PICK p \in Ids \cup {0} : p = job[w][t].pid
    BY JobFields
  <2>4. UpdateStatusWithLease(w, t, s, p)
    BY <2>1, <2>0 DEF Abandon
  <2>5. \/ row'[t] = row[t]
        \/ /\ row'[t].status = s /\ row'[t].pid = p
           /\ row'[t].recOwner = row[t].recOwner /\ row'[t].recAttempt = row[t].recAttempt
    BY ONLY <2>4, s \in PostStatuses, p \in Ids \cup {0}, TypeOK, w \in Workers,
            t \in Targets, UpdateStatusFields
  <2>3. \/ row'[t] = row[t]
        \/ /\ row'[t].status = s /\ row'[t].pid = job[w][t].pid
           /\ row'[t].recOwner = row[t].recOwner /\ row'[t].recAttempt = row[t].recAttempt
    BY <2>0, <2>5
  <2> QED
    BY <1>a, <1>c, <1>b, <2>1, <2>2, <2>3, GiveUpInv
<1>4. CASE PublishAccepted(w, t) \/ ExportCompletes(w, t) \/ PhaseTwoPublishes(w, t)
  <2>1. PICK j : j.pc = "sent" /\ job' = [job EXCEPT ![w][t] = j]
    BY <1>4 DEF PublishAccepted, ExportCompletes, PhaseTwoPublishes
  <2>2. job[w][t].pc = "owned" /\ UNCHANGED <<row, rjob, fails>>
    BY <1>4 DEF PublishAccepted, ExportCompletes, PhaseTwoPublishes
  <2> QED
    BY <2>1, <2>2, JobAt DEF TargetInv, ClaimInv, CountInv
<1>5. CASE Record(w, t)
  <2>1. job[w][t].pc = "sent" /\ UNCHANGED <<rjob, fails>>
    BY <1>5 DEF Record
  <2>2. PICK j \in Job :
          (j.pc = "idle" \/ j.pc = "gate") /\ job' = [job EXCEPT ![w][t] = j]
    BY <1>a, <1>b, <1>5 DEF Record
  <2>3. \/ row'[t] = row[t]
        \/ /\ row'[t].status = job[w][t].to
           /\ row'[t].recOwner = row[t].recOwner /\ row'[t].recAttempt = row[t].recAttempt
    BY <1>5, UpdateStatusFields DEF Record, PostStatuses
  <2> QED
    BY <2>1, <2>2, <2>3, GiveUpInv DEF PendingStatuses
<1>6. CASE DropJob(w, t)
  BY <1>a, <1>b, <1>6, GiveUpInv DEF DropJob
<1>7. CASE DeliveryGate(w, t)
  <2> DEFINE r == [row EXCEPT ![t].status = "drive_required_failed"]
  <2>1. job[w][t].pc = "gate" /\ job' = [job EXCEPT ![w][t] = IdleJob] /\ UNCHANGED <<rjob, fails>>
    BY <1>7 DEF DeliveryGate
  <2>2. /\ r[t].status = "drive_required_failed" /\ r[t].pid = row[t].pid
        /\ r[t].recOwner = row[t].recOwner /\ r[t].recAttempt = row[t].recAttempt
    <3>1. row \in [Targets -> Row] /\ row[t] \in Row
      BY DEF TypeOK
    <3> QED
      BY <3>1 DEF Row
  <2>3. row' = row \/ (row[t].status = "published" /\ row' = r)
    BY <1>7 DEF DeliveryGate, Commit
  <2> HIDE DEF r
  <2> QED
    BY <1>a, <1>b, <2>1, <2>2, <2>3, GiveUpInv
<1> QED
  BY <1>1, <1>2, <1>3, <1>4, <1>5, <1>6, <1>7 DEF DriverStep

\* A poll ends; whatever it wrote was written under the reconcile lease, and
\* the failures counted for the target never decrease.
LEMMA PollEndInv ==
  ASSUME TypeOK, NEW w \in Workers, NEW t \in Targets, TargetInv(t),
         rjob[w][t].pc = "polling", rjob' = [rjob EXCEPT ![w][t] = IdleRJob],
         UNCHANGED job,
         fails'[t] \in 0..MaxReconcile, fails[t] <= fails'[t],
         row'[t].recAttempt <= fails'[t],
         row'[t].status = "dlq" => fails'[t] = MaxReconcile,
         row'[t].pid # 0,
         row'[t].status \in PendingStatuses => row[t].status \in PendingStatuses
  PROVE  TargetInv(t)'
<1>1. row[t].pid # 0
  BY DEF TargetInv, CountInv
<1>2. \A v \in Workers : job[v][t].pc \notin {"owned", "sent"}
  BY <1>1 DEF TargetInv, ClaimInv
<1>3. ClaimInv(t)'
  BY <1>1, <1>2 DEF TargetInv, ClaimInv
<1>4. IdleRJob.pc = "idle"
  BY DEF IdleRJob
<1>5. CountInv(t)'
  <2>1. ASSUME NEW v \in Workers, rjob'[v][t].pc # "idle"
        PROVE  rjob'[v][t].pid # 0 /\ rjob'[v][t].attempt <= fails'[t]
    <3>1. rjob'[v][t] = rjob[v][t]
      BY <1>4, <2>1, RJobAt
    <3>2. rjob[v][t].pid # 0 /\ rjob[v][t].attempt <= fails[t]
      BY <2>1, <3>1 DEF TargetInv, CountInv
    <3>3. rjob[v][t].attempt \in Nat /\ fails[t] \in Nat /\ fails'[t] \in Nat
      BY JobFields, ConstantTypes DEF TypeOK
    <3> QED
      BY <3>1, <3>2, <3>3
  <2> QED
    BY <2>1 DEF CountInv
<1> QED
  BY <1>3, <1>5 DEF TargetInv

LEMMA CountFailureFacts ==
  ASSUME TypeOK, NEW t \in Targets, CountFailure(t)
  PROVE  /\ fails'[t] \in 0..MaxReconcile /\ fails[t] <= fails'[t]
         /\ fails'[t] = MaxReconcile \/ fails'[t] = fails[t] + 1
<1>1. fails[t] \in 0..MaxReconcile
  BY DEF TypeOK
<1>2. fails'[t] = IF fails[t] < MaxReconcile THEN fails[t] + 1 ELSE fails[t]
  BY DEF CountFailure, TypeOK
<1> QED
  BY <1>1, <1>2, ConstantTypes

LEMMA ReconcilerInv ==
  ASSUME TypeOK, NEW w \in Workers, NEW t \in Targets, TargetInv(t), ReconcilerStep(w, t)
  PROVE  TargetInv(t)'
<1> USE JobFields, ConstantTypes
<1>a. UNCHANGED job
  BY DEF ReconcilerStep, ClaimPublishing, Settle, Yield, PollCompleted, PollRejected,
         PollImpossible, PollDeadLetter, PollTransient, PollInFlight, PollSkipped
<1>b. fails[t] \in 0..MaxReconcile
  BY DEF TypeOK
<1>c. rjob[w][t].pc = "polling" =>
        row[t].pid # 0 /\ rjob[w][t].pid # 0 /\ rjob[w][t].attempt <= fails[t]
  BY DEF TargetInv, CountInv
<1>d. row[t].recAttempt <= fails[t] /\ (row[t].status = "dlq" => fails[t] = MaxReconcile)
  BY DEF TargetInv, CountInv
<1>1. CASE PollCompleted(w, t) \/ PollRejected(w, t) \/ PollImpossible(w, t)
  <2>1. PICK s \in PostStatuses :
          /\ s # "dlq" /\ s \notin PendingStatuses
          /\ Settle(w, t, s, rjob[w][t].pid)
    BY <1>1 DEF PollCompleted, PollRejected, PollImpossible, PostStatuses, PendingStatuses
  <2>2. \/ row'[t] = row[t]
        \/ /\ row'[t].status = s /\ row'[t].pid = rjob[w][t].pid
           /\ row'[t].recAttempt = row[t].recAttempt
    BY <2>1, ReconcileFields DEF Settle, Commit
  <2>3. UNCHANGED fails
    BY <1>1 DEF PollCompleted, PollRejected, PollImpossible
  <2>4. rjob[w][t].pc = "polling" /\ rjob' = [rjob EXCEPT ![w][t] = IdleRJob]
    BY <2>1 DEF Settle
  <2>5. row'[t].recAttempt = row[t].recAttempt /\ row'[t].pid # 0
    BY <1>c, <2>2, <2>4
  <2>6. row'[t].status = "dlq" => row[t].status = "dlq"
    BY <2>1, <2>2
  <2>7. row'[t].status \in PendingStatuses => row[t].status \in PendingStatuses
    BY <2>1, <2>2
  <2>8. fails'[t] = fails[t] /\ fails[t] <= fails[t]
    BY <1>b, <2>3
  <2> QED
    BY <1>a, <1>b, <1>d, <2>4, <2>5, <2>6, <2>7, <2>8, PollEndInv
<1>2. CASE PollDeadLetter(w, t)
  <2>1. Settle(w, t, "dlq", rjob[w][t].pid) /\ "dlq" \in PostStatuses
    BY <1>2 DEF PollDeadLetter, PostStatuses
  <2>2. \/ row'[t] = row[t]
        \/ /\ row'[t].status = "dlq" /\ row'[t].pid = rjob[w][t].pid
           /\ row'[t].recAttempt = row[t].recAttempt
    BY <2>1, ReconcileFields DEF Settle, Commit
  <2>3. rjob[w][t].pc = "polling" /\ rjob' = [rjob EXCEPT ![w][t] = IdleRJob]
    BY <2>1 DEF Settle
  <2>4. /\ fails'[t] \in 0..MaxReconcile /\ fails[t] <= fails'[t]
        /\ fails'[t] = MaxReconcile \/ fails'[t] = fails[t] + 1
    BY <1>2, CountFailureFacts DEF PollDeadLetter
  <2>5. fails'[t] = MaxReconcile
    BY <1>2, <1>b, <1>c, <2>3, <2>4 DEF PollDeadLetter, BudgetSpent
  <2>6. row'[t].recAttempt <= fails'[t] /\ row'[t].pid # 0
    BY <1>b, <1>c, <1>d, <2>2, <2>3, <2>4
  <2>7. row'[t].status \in PendingStatuses => row[t].status \in PendingStatuses
    BY <2>2 DEF PendingStatuses
  <2> QED
    BY <1>a, <2>3, <2>4, <2>5, <2>6, <2>7, PollEndInv
<1>3. CASE PollTransient(w, t) \/ PollInFlight(w, t) \/ PollSkipped(w, t)
  <2> DEFINE a == rjob[w][t].attempt
  <2>1. rjob[w][t].pc = "polling" /\ rjob' = [rjob EXCEPT ![w][t] = IdleRJob]
    BY <1>3 DEF PollTransient, PollInFlight, PollSkipped, Yield
  <2>2. row'[t].status = row[t].status /\ row'[t].pid = row[t].pid
    BY <1>3, YieldFields DEF PollTransient, PollInFlight, PollSkipped, Yield
  <2>3. /\ fails'[t] \in 0..MaxReconcile /\ fails[t] <= fails'[t]
        /\ fails'[t] = fails[t] \/ (PollTransient(w, t) /\
             (fails'[t] = MaxReconcile \/ fails'[t] = fails[t] + 1))
    BY <1>3, <1>b, CountFailureFacts DEF PollTransient, PollInFlight, PollSkipped
  <2>4. row'[t].recAttempt <= fails'[t]
    <3>1. CASE PollTransient(w, t)
      <4>1. row'[t].recAttempt = row[t].recAttempt \/ row'[t].recAttempt = a + 1
        BY <3>1, YieldFields DEF PollTransient, Yield
      <4>2. fails'[t] = MaxReconcile \/ fails'[t] = fails[t] + 1
        BY <3>1, CountFailureFacts DEF PollTransient
      <4>3. a < MaxReconcile - 1
        BY <3>1 DEF PollTransient, BudgetSpent
      <4> QED
        BY <1>b, <1>c, <1>d, <2>1, <2>3, <4>1, <4>2, <4>3
    <3>2. CASE ~PollTransient(w, t)
      <4>1. row'[t].recAttempt = row[t].recAttempt \/ row'[t].recAttempt = a + 0
        BY <1>3, <3>2, YieldFields DEF PollInFlight, PollSkipped, Yield
      <4> QED
        BY <1>b, <1>c, <1>d, <2>1, <2>3, <4>1
    <3> QED
      BY <3>1, <3>2
  <2>5. row'[t].status = "dlq" => fails'[t] = MaxReconcile
    BY <1>b, <1>d, <2>2, <2>3
  <2> QED
    BY <1>a, <1>c, <2>1, <2>2, <2>3, <2>4, <2>5, PollEndInv
<1>4. CASE ClaimPublishing(w, t)
  <2>1. CASE Pollable(t)
    <3> DEFINE r == [row EXCEPT ![t].recOwner = w, ![t].recLive = TRUE]
               j == [rjob[w][t] EXCEPT !.pc = "polling"]
    <3>1. row' = r /\ rjob' = [rjob EXCEPT ![w][t] = j] /\ UNCHANGED fails
      BY <1>4, <2>1 DEF ClaimPublishing
    <3>2. /\ r[t].status = row[t].status /\ r[t].pid = row[t].pid
          /\ r[t].owner = row[t].owner /\ r[t].recAttempt = row[t].recAttempt
      <4>1. row \in [Targets -> Row] /\ row[t] \in Row
        BY DEF TypeOK
      <4> QED
        BY <4>1 DEF Row
    <3>3. j.pc = "polling" /\ j.pid = rjob[w][t].pid /\ j.attempt = rjob[w][t].attempt
      BY DEF RJob
    <3>4. rjob[w][t].pc = "listed" /\ row[t].pid # 0
      BY <1>4, <2>1 DEF ClaimPublishing, Pollable
    <3>5. \A v \in Workers : rjob'[v][t] = IF v = w THEN j ELSE rjob[v][t]
      <4> HIDE DEF j
      <4> QED
        BY <3>1 DEF TypeOK
    <3> HIDE DEF r, j
    <3>6. CountInv(t)'
      BY <3>1, <3>2, <3>3, <3>4, <3>5 DEF TargetInv, CountInv
    <3>7. ClaimInv(t)'
      BY <1>a, <3>1, <3>2, <3>4 DEF TargetInv, ClaimInv
    <3> QED
      BY <3>6, <3>7 DEF TargetInv
  <2>2. CASE ~Pollable(t)
    <3>1. UNCHANGED <<row, fails>> /\ rjob' = [rjob EXCEPT ![w][t] = IdleRJob]
      BY <1>4, <2>2 DEF ClaimPublishing
    <3>2. IdleRJob.pc = "idle"
      BY DEF IdleRJob
    <3> QED
      BY <1>a, <3>1, <3>2, RJobAt DEF TargetInv, ClaimInv, CountInv
  <2> QED
    BY <2>1, <2>2
<1> QED
  BY <1>1, <1>2, <1>3, <1>4 DEF ReconcilerStep

\* What the same steps do to the reconciler's job on a target.
LEMMA QuietPolls ==
  ASSUME TypeOK, NEW t \in Targets, NEW v \in Workers,
         \/ TimeStep \/ UserStep
         \/ \E w \in Workers : ListPending(w) \/ ListPublishing(w) \/ RepairDirty(w) \/ Crash(w)
  PROVE  \/ rjob'[v][t] = rjob[v][t]
         \/ rjob'[v][t].pc = "idle"
         \/ Pollable(t) /\ rjob'[v][t].pid = row[t].pid /\ rjob'[v][t].attempt = row[t].recAttempt
<1>1. ASSUME NEW w \in Workers, ListPublishing(w)
      PROVE  \/ rjob'[v][t] = rjob[v][t]
             \/ rjob'[v][t].pc = "idle"
             \/ /\ Pollable(t) /\ rjob'[v][t].pid = row[t].pid
                /\ rjob'[v][t].attempt = row[t].recAttempt
  <2> DEFINE j == [pc |-> "listed", pid |-> row[t].pid, attempt |-> row[t].recAttempt]
  <2>1. v = w => rjob'[v][t] = IF Pollable(t) THEN j ELSE IdleRJob
    BY <1>1 DEF ListPublishing, TypeOK
  <2>2. v # w => rjob'[v][t] = rjob[v][t]
    BY <1>1 DEF ListPublishing, TypeOK
  <2>3. IdleRJob.pc = "idle" /\ j.pid = row[t].pid /\ j.attempt = row[t].recAttempt
    BY DEF IdleRJob
  <2> QED
    BY <2>1, <2>2, <2>3
<1>2. ASSUME NEW w \in Workers, Crash(w)
      PROVE  rjob'[v][t] = rjob[v][t] \/ rjob'[v][t].pc = "idle"
  BY <1>2 DEF Crash, TypeOK, IdleRJob
<1>3. CASE \E w \in Workers : ListPending(w) \/ RepairDirty(w)
  BY <1>3 DEF ListPending, RepairDirty
<1>4. CASE TimeStep
  BY <1>4 DEF TimeStep, AttemptDue, PollDue, PollLeaseExpires, ProviderSettles
<1>5. CASE UserStep
  BY <1>5 DEF UserStep, PublishPost, CancelPost, RetryPost, SchedulePost, EditPost, WritePost, CancelTargets,
              CancelFutureJobsForAccount, RetryTarget, Reset
<1> QED
  BY <1>1, <1>2, <1>3, <1>4, <1>5

\* The owner neither publishes nor retries the post again.
OwnerOnlyCancels == UserOps \subseteq {"cancel", "schedule", "edit"}

LEMMA OwnerSteps ==
  ASSUME OwnerOnlyCancels, UserStep
  PROVE  SchedulePost \/ EditPost \/ \E S \in SUBSET Targets : CancelTargets(S)
<1>1. "publish" \notin UserOps /\ "retry" \notin UserOps
  BY DEF OwnerOnlyCancels
<1> QED
  BY <1>1 DEF UserStep, PublishPost, CancelPost, RetryPost, RetryTarget, UserCall,
              CancelFutureJobsForAccount

\* A cancellation only moves rows to 'draft', and never a settled one.
LEMMA CancelFields ==
  ASSUME TypeOK, NEW S \in SUBSET Targets, CancelTargets(S), NEW t \in Targets
  PROVE  /\ row'[t].pid = row[t].pid /\ row'[t].owner = row[t].owner
         /\ row'[t].recOwner = row[t].recOwner /\ row'[t].recAttempt = row[t].recAttempt
         /\ fails'[t] = fails[t]
         /\ \/ row'[t].status = row[t].status
            \/ row[t].status \notin CancelKeeps /\ row'[t].status = "draft"
<1> DEFINE C == {u \in S : row[u].status \notin CancelKeeps}
<1>1. Reset(WithStatus(C, "draft")) /\ "draft" \in PostStatuses
  BY DEF CancelTargets, PostStatuses
<1>2. t \in C => row[t].status \notin CancelKeeps
  OBVIOUS
<1> HIDE DEF C
<1> QED
  BY <1>1, <1>2, WithStatusFields DEF Reset

LEMMA QuietInv ==
  ASSUME OwnerOnlyCancels, TypeOK, NEW t \in Targets, TargetInv(t),
         \/ TimeStep \/ UserStep
         \/ \E w \in Workers : ListPending(w) \/ ListPublishing(w) \/ RepairDirty(w) \/ Crash(w)
  PROVE  TargetInv(t)'
<1>1. /\ row'[t].pid = row[t].pid /\ row'[t].owner = row[t].owner
      /\ row'[t].recOwner = row[t].recOwner /\ row'[t].recAttempt = row[t].recAttempt
      /\ fails'[t] = fails[t]
      /\ row'[t].status = row[t].status \/ row'[t].status = "draft"
  <2>1. CASE \E S \in SUBSET Targets : CancelTargets(S)
    BY <2>1, CancelFields
  <2>2. CASE ~\E S \in SUBSET Targets : CancelTargets(S)
    BY <2>2, OwnerSteps, QuietFields
  <2> QED
    BY <2>1, <2>2
<1>2. \A v \in Workers :
        \/ job'[v][t] = job[v][t]
        \/ job'[v][t].pc = "idle"
        \/ Claimable(t) /\ job'[v][t].pc = "listed" /\ job'[v][t].pid = row[t].pid
  BY QuietJobs
<1>3. \A v \in Workers :
        \/ rjob'[v][t] = rjob[v][t]
        \/ rjob'[v][t].pc = "idle"
        \/ Pollable(t) /\ rjob'[v][t].pid = row[t].pid /\ rjob'[v][t].attempt = row[t].recAttempt
  BY QuietPolls
<1>4. ClaimInv(t)'
  BY <1>1, <1>2 DEF TargetInv, ClaimInv, Claimable, PendingStatuses
<1>5. CountInv(t)'
  BY <1>1, <1>3 DEF TargetInv, CountInv, Pollable
<1> QED
  BY <1>4, <1>5 DEF TargetInv

LEMMA TargetStep ==
  ASSUME OwnerOnlyCancels, TypeOK, [Next]_vars, NEW t \in Targets, TargetInv(t)
  PROVE  TargetInv(t)'
<1>1. ASSUME NEW w \in Workers, NEW u \in Targets,
             DriverStep(w, u) \/ DropJob(w, u) \/ PublishAnswerLost(w, u)
      PROVE  TargetInv(t)'
  BY <1>1, DriverFrame, DriverInv, SameTargetInv
<1>2. ASSUME NEW w \in Workers, NEW u \in Targets, ReconcilerStep(w, u) PROVE TargetInv(t)'
  BY <1>2, ReconcilerFrame, ReconcilerInv, SameTargetInv
<1>3. CASE Next
  BY <1>1, <1>2, <1>3, QuietInv DEF Next, FaultStep
<1>4. CASE UNCHANGED vars
  BY <1>4, SameTargetInv DEF vars, SameTarget
<1> QED
  BY <1>3, <1>4

LEMMA TargetInit == Init => \A t \in Targets : TargetInv(t)
<1> SUFFICES ASSUME Init, NEW t \in Targets PROVE TargetInv(t)
  OBVIOUS
<1>1. row[t].pid = 0 /\ row[t].recOwner = NoOne /\ row[t].recAttempt = 0 /\ fails[t] = 0
      /\ row[t].status \in {"draft", "queued"}
  BY DEF Init, NewRow
<1>2. \A w \in Workers : job[w][t].pc = "idle" /\ rjob[w][t].pc = "idle"
  BY DEF Init, IdleJob, IdleRJob
<1> QED
  BY <1>1, <1>2 DEF TargetInv, ClaimInv, CountInv

\* The inductive invariant of the claims and counters.
PipelineInv == TypeOK /\ \A t \in Targets : TargetInv(t)

LEMMA PipelineInvariant == ASSUME OwnerOnlyCancels PROVE Spec => []PipelineInv
<1>1. Init => PipelineInv
  BY TypeInit, TargetInit DEF PipelineInv
<1>2. PipelineInv /\ [Next]_vars => PipelineInv'
  BY TypeStep, TargetStep DEF PipelineInv
<1> QED
  BY <1>1, <1>2, PTL DEF Spec

\* Two worker processes never both have a target between their claim and their
\* final write, however listings, stale answers, crashes and cancellations
\* interleave.
THEOREM SingleDriverAlways == ASSUME OwnerOnlyCancels PROVE Spec => []SingleDriver
<1>1. PipelineInv => SingleDriver
  BY DEF PipelineInv, TargetInv, ClaimInv, SingleDriver
<1> QED
  BY <1>1, PipelineInvariant, PTL

\* A target reaches the dead-letter status only after reconcileMaxAttempts
\* transient failures of polls of this publication.
THEOREM BudgetHonouredAlways == ASSUME OwnerOnlyCancels PROVE Spec => []BudgetHonoured
<1>1. PipelineInv => BudgetHonoured
  BY DEF PipelineInv, TargetInv, CountInv, BudgetHonoured
<1> QED
  BY <1>1, PipelineInvariant, PTL

-----------------------------------------------------------------------------
(* Settled targets stay settled.                                           *)

\* A worker writes the status of a row that is pending, that it is publishing
\* or polling, or that its own delivery gate still finds 'published'.
LEMMA SettledWorker ==
  ASSUME TypeOK, NEW w \in Workers, NEW t \in Targets, TargetInv(t),
         \/ DriverStep(w, t) \/ DropJob(w, t) \/ PublishAnswerLost(w, t)
         \/ ReconcilerStep(w, t)
  PROVE  \/ row'[t].status = row[t].status
         \/ row[t].status \in PendingStatuses \cup {"publishing", "draft"}
         \/ row[t].status = "published" /\ row'[t].status = "drive_required_failed"
<1> USE JobFields, ConstantTypes
<1>1. CASE Claim(w, t)
  BY <1>1 DEF Claim, Claimable
<1>2. CASE MarkFailed(w, t) \/ MarkRateLimited(w, t) \/ PublishAnswerLost(w, t)
  <2>1. job[w][t].pc = "owned"
    BY <1>2 DEF MarkFailed, MarkRateLimited, PublishAnswerLost, Finish
  <2> QED
    BY <2>1 DEF TargetInv, ClaimInv
<1>3. ASSUME NEW s \in PostStatuses, NEW p \in Ids \cup {0}, UpdateStatusWithLease(w, t, s, p)
      PROVE  row'[t] = row[t] \/ row[t].status = "publishing"
  BY <1>3, UpdateStatusFields DEF HoldsClaim
<1>4. CASE MarkBlockedAuth(w, t) \/ KeyConflict(w, t) \/ RollBackClaim(w, t) \/ AwaitUpload(w, t)
  BY <1>3, <1>4 DEF MarkBlockedAuth, KeyConflict, RollBackClaim, AwaitUpload, Abandon, PostStatuses
<1>5. CASE Record(w, t)
  BY <1>3, <1>5 DEF Record, PostStatuses
<1>6. CASE DropJob(w, t) \/ PublishAccepted(w, t) \/ ExportCompletes(w, t) \/ PhaseTwoPublishes(w, t)
  BY <1>6 DEF DropJob, PublishAccepted, ExportCompletes, PhaseTwoPublishes
<1>7. CASE DeliveryGate(w, t)
  <2>1. [row EXCEPT ![t].status = "drive_required_failed"][t].status = "drive_required_failed"
    BY DEF TypeOK, Row
  <2> QED
    BY <1>7, <2>1 DEF DeliveryGate, Commit
<1>8. CASE PollCompleted(w, t) \/ PollRejected(w, t) \/ PollImpossible(w, t)
           \/ PollDeadLetter(w, t)
  <2>1. PICK s \in PostStatuses : Settle(w, t, s, rjob[w][t].pid)
    BY <1>8 DEF PollCompleted, PollRejected, PollImpossible, PollDeadLetter, PostStatuses
  <2> QED
    BY <2>1, ReconcileFields DEF Settle, Commit, OwnsPoll
<1>9. CASE PollTransient(w, t) \/ PollInFlight(w, t) \/ PollSkipped(w, t)
  BY <1>9, YieldFields DEF PollTransient, PollInFlight, PollSkipped, Yield
<1>10. CASE ClaimPublishing(w, t)
  <2>1. [row EXCEPT ![t].recOwner = w, ![t].recLive = TRUE][t].status = row[t].status
    BY DEF TypeOK, Row
  <2> QED
    BY <1>10, <2>1 DEF ClaimPublishing
<1> QED
  BY <1>1, <1>2, <1>4, <1>5, <1>6, <1>7, <1>8, <1>9, <1>10 DEF DriverStep, ReconcilerStep

LEMMA SettledNext ==
  ASSUME OwnerOnlyCancels, PipelineInv, Next, NEW t \in Targets
  PROVE  SettledStep(t)
<1> USE DEF PipelineInv
<1>1. ASSUME \/ row'[t].status = row[t].status
             \/ row[t].status \in PendingStatuses \cup {"publishing", "draft"}
             \/ row[t].status = "published" /\ row'[t].status = "drive_required_failed"
      PROVE  SettledStep(t)
  BY <1>1 DEF SettledStep, PendingStatuses
<1>2. ASSUME NEW w \in Workers, NEW u \in Targets,
             \/ DriverStep(w, u) \/ DropJob(w, u) \/ PublishAnswerLost(w, u)
             \/ ReconcilerStep(w, u)
      PROVE  SettledStep(t)
  <2>1. CASE u = t
    BY <1>1, <1>2, <2>1, SettledWorker
  <2>2. CASE u # t
    BY <1>1, <1>2, <2>2, DriverFrame, ReconcilerFrame DEF SameTarget
  <2> QED
    BY <2>1, <2>2
<1>3. CASE UserStep /\ ~SchedulePost /\ ~EditPost
  <2>1. PICK S \in SUBSET Targets : CancelTargets(S)
    BY <1>3, OwnerSteps
  <2> QED
    BY <2>1, CancelFields DEF SettledStep, CancelKeeps
<1>4. CASE \/ TimeStep \/ SchedulePost \/ EditPost
           \/ \E w \in Workers : ListPending(w) \/ ListPublishing(w) \/ RepairDirty(w) \/ Crash(w)
  BY <1>1, <1>4, QuietFields
<1> QED
  BY <1>2, <1>3, <1>4 DEF Next, FaultStep

\* No step of a worker, of the clock or of a cancellation takes back the
\* outcome of a target, for every interleaving with late writers.
THEOREM TerminalStableAlways == ASSUME OwnerOnlyCancels PROVE Spec => TerminalStable
<1>1. PipelineInv /\ [Next]_vars => [\A t \in Targets : SettledStep(t)]_vars
  BY SettledNext
<1> QED
  BY <1>1, PipelineInvariant, PTL DEF Spec, TerminalStable

-----------------------------------------------------------------------------
(* At most one publication reaches the provider.                           *)

\* A step that sends nothing: whoever may send the target afterwards could
\* already send it before.
LEMMA SendCore ==
  ASSUME NEW t \in Targets, SendInv(t),
         \A i \in Ids : pub'[t][i] = "none" <=> pub[t][i] = "none", UNCHANGED fromUpload,
         row'[t].status \in PendingStatuses =>
           \/ row[t].status \in PendingStatuses
           \/ \E v \in Workers : job[v][t].pc = "owned",
         \A v \in Workers : job'[v][t].pc = "owned" =>
           job[v][t].pc = "owned" \/ row[t].status \in PendingStatuses
  PROVE  SendInv(t)'
BY DEF SendInv

LEMMA SendDriver ==
  ASSUME TypeOK, NEW w \in Workers, NEW t \in Targets, TargetInv(t), SendInv(t),
         DriverStep(w, t) \/ DropJob(w, t)
  PROVE  SendInv(t)'
<1> USE JobFields, ConstantTypes
<1>a. IdleJob.pc = "idle" /\ [IdleJob EXCEPT !.pc = "gate"].pc = "gate"
  BY DEF IdleJob
<1>b. UNCHANGED fromUpload
  BY DriverOrigin
<1>1. CASE PublishAccepted(w, t) \/ ExportCompletes(w, t)
  <2>0. PICK j \in Job : job' = [job EXCEPT ![w][t] = j] /\ j.pc = "sent"
    <3>1. CASE PublishAccepted(w, t)
      BY <3>1, SentJob
    <3>2. CASE ExportCompletes(w, t)
      <4> DEFINE j == [pc |-> "sent", pid |-> job[w][t].pid, to |-> "published"]
      <4>1. j \in Job /\ j.pc = "sent"
        BY DEF Job
      <4>2. job' = [job EXCEPT ![w][t] = j]
        BY <3>2 DEF ExportCompletes
      <4> HIDE DEF j
      <4> QED
        BY <4>1, <4>2
    <3> QED
      BY <1>1, <3>1, <3>2
  <2>1. PICK i \in Ids : \E s : Accept(t, i, s)
    BY <1>1 DEF PublishAccepted, ExportCompletes
  <2>2. job[w][t].pc = "owned" /\ UNCHANGED row
    BY <1>1 DEF PublishAccepted, ExportCompletes
  <2>3. ~(fromUpload /\ t \in YouTube) /\ \A k \in Ids : k # i => pub'[t][k] = pub[t][k]
    BY <1>1, <2>1, PipelineAssumption DEF Accept, TypeOK, PublishAccepted, ExportCompletes, Direct
  <2>4. \A k \in Ids : pub[t][k] = "none"
    BY <2>2, <2>3 DEF SendInv
  <2>5. \A v \in Workers : job'[v][t].pc # "owned"
    <3>1. \A v \in Workers : v # w => job[v][t].pc # "owned"
      BY <2>2, OneAtWork DEF TargetInv
    <3>2. \A v \in Workers : job'[v][t] = IF v = w THEN j ELSE job[v][t]
      <4>1. job' = [job EXCEPT ![w][t] = j]
        BY <2>0
      <4> QED
        BY ONLY <4>1, TypeOK, w \in Workers, t \in Targets DEF TypeOK
    <3> QED
      BY <2>0, <3>1, <3>2
  <2>6. row'[t].status \notin PendingStatuses
    BY <2>2 DEF TargetInv, ClaimInv, PendingStatuses
  <2> QED
    BY <1>b, <2>3, <2>4, <2>5, <2>6 DEF SendInv
<1>2. CASE PhaseTwoPublishes(w, t)
  <2>1. fromUpload /\ t \in YouTube /\ \A k \in Ids : k # 1 => pub'[t][k] = pub[t][k]
    BY <1>2 DEF PhaseTwoPublishes, TypeOK
  <2> QED
    BY <1>b, <2>1 DEF SendInv
<1>3. CASE ~PublishAccepted(w, t) /\ ~ExportCompletes(w, t) /\ ~PhaseTwoPublishes(w, t)
  <2>1. UNCHANGED <<pub, fromUpload>>
    BY <1>3, <1>b DEF DriverStep, Claim, MarkFailed, Abandon, MarkBlockedAuth, KeyConflict,
                RollBackClaim, AwaitUpload, MarkRateLimited, Record, DeliveryGate, DropJob
  <2>2. \A v \in Workers : v # w => job'[v][t] = job[v][t]
    <3>1. \E j : job' = [job EXCEPT ![w][t] = j]
      <4>1. CASE Claim(w, t)
        <5>1. \/ job' = [job EXCEPT ![w][t] = [job[w][t] EXCEPT !.pc = "owned"]]
              \/ job' = [job EXCEPT ![w][t] = IdleJob]
          BY <4>1 DEF Claim
        <5> QED
          BY <5>1
      <4>2. CASE ~Claim(w, t)
        BY <1>3, <4>2 DEF DriverStep, MarkFailed, Abandon, MarkBlockedAuth, KeyConflict,
             Finish, RollBackClaim, AwaitUpload, MarkRateLimited, Record, DeliveryGate, DropJob
      <4> QED
        BY <4>1, <4>2
    <3> QED
      BY <3>1, JobAt
  <2>3. CASE Claim(w, t)
    <3>1. CASE Claimable(t)
      BY <2>1, <2>2, <2>3, <3>1, ClaimedFields, SendCore
         DEF Claim, Commit, Claimable, PendingStatuses
    <3>2. CASE ~Claimable(t)
      <4>1. UNCHANGED row /\ job' = [job EXCEPT ![w][t] = IdleJob]
        BY <2>3, <3>2 DEF Claim
      <4> QED
        BY <1>a, <2>1, <4>1, JobAt, SendCore
    <3> QED
      BY <3>1, <3>2
  <2>4. CASE MarkFailed(w, t) \/ MarkBlockedAuth(w, t) \/ KeyConflict(w, t)
             \/ RollBackClaim(w, t) \/ AwaitUpload(w, t) \/ MarkRateLimited(w, t)
    <3>1. job[w][t].pc = "owned"
      BY <2>4 DEF MarkFailed, MarkBlockedAuth, KeyConflict, RollBackClaim, AwaitUpload, MarkRateLimited,
                  Abandon, Finish
    <3> QED
      BY <2>1, <2>2, <3>1, SendCore
  <2>5. CASE Record(w, t)
    <3>1. PICK j : j.pc # "owned" /\ job' = [job EXCEPT ![w][t] = j]
      BY <1>a, <2>5 DEF Record
    <3>2. row'[t] = row[t] \/ row'[t].status = job[w][t].to
      BY <2>5, UpdateStatusFields DEF Record, PostStatuses
    <3> QED
      BY <2>1, <3>1, <3>2, JobAt, SendCore DEF PendingStatuses
  <2>6. CASE DeliveryGate(w, t) \/ DropJob(w, t)
    <3>1. job' = [job EXCEPT ![w][t] = IdleJob]
      BY <2>6 DEF DeliveryGate, DropJob
    <3>2. [row EXCEPT ![t].status = "drive_required_failed"][t].status = "drive_required_failed"
      BY DEF TypeOK, Row
    <3>3. row' = row \/ row'[t].status = "drive_required_failed"
      BY <2>6, <3>2 DEF DeliveryGate, DropJob, Commit
    <3> QED
      BY <1>a, <2>1, <3>1, <3>3, JobAt, SendCore DEF PendingStatuses
  <2> QED
    BY <1>3, <2>3, <2>4, <2>5, <2>6 DEF DriverStep
<1> QED
  BY <1>1, <1>2, <1>3

LEMMA SendReconciler ==
  ASSUME TypeOK, NEW w \in Workers, NEW t \in Targets, SendInv(t), ReconcilerStep(w, t)
  PROVE  SendInv(t)'
<1> USE JobFields, ConstantTypes
<1>1. UNCHANGED <<job, pub, fromUpload>>
  BY DEF ReconcilerStep, ClaimPublishing, Settle, Yield, PollCompleted, PollRejected,
         PollImpossible, PollDeadLetter, PollTransient, PollInFlight, PollSkipped
<1>2. row'[t].status = row[t].status \/ row'[t].status \notin PendingStatuses
  <2>1. CASE PollCompleted(w, t) \/ PollRejected(w, t) \/ PollImpossible(w, t)
             \/ PollDeadLetter(w, t)
    <3>1. PICK s \in PostStatuses :
            s \notin PendingStatuses /\ Settle(w, t, s, rjob[w][t].pid)
      BY <2>1 DEF PollCompleted, PollRejected, PollImpossible, PollDeadLetter, PostStatuses,
                  PendingStatuses
    <3> QED
      BY <3>1, ReconcileFields DEF Settle, Commit
  <2>2. CASE PollTransient(w, t) \/ PollInFlight(w, t) \/ PollSkipped(w, t)
    BY <2>2, YieldFields DEF PollTransient, PollInFlight, PollSkipped, Yield
  <2>3. CASE ClaimPublishing(w, t)
    <3>1. [row EXCEPT ![t].recOwner = w, ![t].recLive = TRUE][t].status = row[t].status
      BY DEF TypeOK, Row
    <3> QED
      BY <2>3, <3>1 DEF ClaimPublishing
  <2> QED
    BY <2>1, <2>2, <2>3 DEF ReconcilerStep
<1> QED
  BY <1>1, <1>2, SendCore

LEMMA SendQuiet ==
  ASSUME OwnerOnlyCancels, TypeOK, NEW t \in Targets, SendInv(t),
         \/ TimeStep \/ UserStep
         \/ \E w \in Workers : ListPending(w) \/ ListPublishing(w) \/ RepairDirty(w) \/ Crash(w)
  PROVE  SendInv(t)'
<1>1. row'[t].status = row[t].status \/ row'[t].status \notin PendingStatuses
  <2>1. CASE \E S \in SUBSET Targets : CancelTargets(S)
    BY <2>1, CancelFields DEF PendingStatuses
  <2>2. CASE ~\E S \in SUBSET Targets : CancelTargets(S)
    BY <2>2, OwnerSteps, QuietFields
  <2> QED
    BY <2>1, <2>2
<1>2. \A v \in Workers : job'[v][t].pc = "owned" => job[v][t].pc = "owned"
  BY QuietJobs
<1>3. ASSUME NEW u \in Targets, NEW k \in Ids, ProviderSettles(u, k), NEW i \in Ids
      PROVE  pub'[t][i] = "none" <=> pub[t][i] = "none"
  BY <1>3 DEF ProviderSettles, TypeOK
<1>4. CASE \E u \in Targets, k \in Ids : ProviderSettles(u, k)
  BY <1>1, <1>2, <1>3, <1>4, SendCore DEF ProviderSettles
<1>5. CASE ~\E u \in Targets, k \in Ids : ProviderSettles(u, k)
  <2>1. UNCHANGED <<pub, fromUpload>>
    BY <1>5 DEF TimeStep, AttemptDue, PollDue, PollLeaseExpires, UserStep, PublishPost,
                CancelPost, RetryPost, SchedulePost, EditPost, WritePost, CancelTargets, Reset, RetryTarget,
                CancelFutureJobsForAccount, ListPending, ListPublishing, RepairDirty, Crash
  <2> QED
    BY <1>1, <1>2, <2>1, SendCore
<1> QED
  BY <1>4, <1>5

LEMMA SendStep ==
  ASSUME OwnerOnlyCancels, "lost" \notin Faults, PipelineInv, [Next]_vars,
         NEW t \in Targets, SendInv(t)
  PROVE  SendInv(t)'
<1> USE DEF PipelineInv
<1>1. ASSUME SameTarget(t) PROVE SendInv(t)'
  BY <1>1 DEF SameTarget, SendInv
<1>2. ASSUME NEW w \in Workers, NEW u \in Targets, DriverStep(w, u) \/ DropJob(w, u)
      PROVE  SendInv(t)'
  BY <1>1, <1>2, DriverFrame, SendDriver
<1>3. ASSUME NEW w \in Workers, NEW u \in Targets, ReconcilerStep(w, u) PROVE SendInv(t)'
  BY <1>1, <1>3, ReconcilerFrame, SendReconciler
<1>4. CASE Next
  BY <1>2, <1>3, <1>4, SendQuiet DEF Next, FaultStep, PublishAnswerLost
<1>5. CASE UNCHANGED vars
  BY <1>1, <1>5 DEF vars, SameTarget
<1> QED
  BY <1>4, <1>5

\* Unless the provider's answer is lost or the owner asks again, a target is
\* accepted by its provider at most once: no race of the pipeline duplicates a
\* publication.
THEOREM AtMostOnePublicationAlways ==
  ASSUME OwnerOnlyCancels, "lost" \notin Faults PROVE Spec => []AtMostOnePublication
<1> DEFINE Inv == PipelineInv /\ \A t \in Targets : SendInv(t)
<1>1. Init => Inv
  <2> SUFFICES ASSUME Init PROVE Inv
    OBVIOUS
  <2>1. \A t \in Targets, i \in Ids : pub[t][i] = "none"
    BY DEF Init
  <2> QED
    BY <2>1, TypeInit, TargetInit DEF SendInv, PipelineInv
<1>2. Inv /\ [Next]_vars => Inv'
  BY TypeStep, TargetStep, SendStep DEF PipelineInv
<1>3. Inv => AtMostOnePublication
  BY DEF SendInv, AtMostOnePublication
<1> QED
  BY <1>1, <1>2, <1>3, PTL DEF Spec

-----------------------------------------------------------------------------
(* The post's status and the provider.                                     *)

\* Every write of posts.status stores the resolver's answer for the rows as
\* committed with it, or the schedule handler's 'queued'.
LEMMA PostSource ==
  ASSUME Next, "edit" \notin UserOps
  PROVE  post' = post \/ post' = Aggregate(row') \/ post' = "queued"
<1>1. ASSUME NEW r, Commit(r) PROVE post' = post \/ post' = Aggregate(row')
  BY <1>1 DEF Commit
<1>2. ASSUME NEW w, NEW t, NEW s, NEW p, UpdateStatusWithLease(w, t, s, p)
      PROVE  post' = post \/ post' = Aggregate(row')
  BY <1>1, <1>2 DEF UpdateStatusWithLease
<1>3. ASSUME NEW w \in Workers, NEW t \in Targets,
             DriverStep(w, t) \/ DropJob(w, t) \/ PublishAnswerLost(w, t)
      PROVE  post' = post \/ post' = Aggregate(row')
  <2>1. CASE Claim(w, t)
    BY <1>1, <2>1 DEF Claim
  <2>2. CASE MarkFailed(w, t) \/ MarkRateLimited(w, t) \/ PublishAnswerLost(w, t)
    BY <1>1, <2>2 DEF MarkFailed, MarkRateLimited, PublishAnswerLost
  <2>3. CASE MarkBlockedAuth(w, t) \/ KeyConflict(w, t) \/ RollBackClaim(w, t) \/ AwaitUpload(w, t) \/ Record(w, t)
    BY <1>2, <2>3 DEF MarkBlockedAuth, KeyConflict, RollBackClaim, AwaitUpload, Abandon, Record
  <2>4. CASE DeliveryGate(w, t)
    BY <1>1, <2>4 DEF DeliveryGate
  <2>5. CASE DropJob(w, t) \/ PublishAccepted(w, t) \/ ExportCompletes(w, t) \/ PhaseTwoPublishes(w, t)
    BY <2>5 DEF DropJob, PublishAccepted, ExportCompletes, PhaseTwoPublishes
  <2> QED
    BY <1>3, <2>1, <2>2, <2>3, <2>4, <2>5 DEF DriverStep
<1>4. ASSUME NEW w \in Workers, NEW t \in Targets, ReconcilerStep(w, t)
      PROVE  post' = post \/ post' = Aggregate(row')
  BY <1>1, <1>4 DEF ReconcilerStep, ClaimPublishing, Settle, Yield, PollCompleted, PollRejected,
         PollImpossible, PollDeadLetter, PollTransient, PollInFlight, PollSkipped
<1>5. CASE UserStep
  BY <1>5 DEF UserStep, PublishPost, CancelPost, RetryPost, SchedulePost, EditPost, WritePost, CancelTargets,
              CancelFutureJobsForAccount, RetryTarget, Reset, UserCall
<1>6. CASE TimeStep
  BY <1>6 DEF TimeStep, AttemptDue, PollDue, PollLeaseExpires, ProviderSettles
<1>7. ASSUME NEW w \in Workers, ListPending(w) \/ ListPublishing(w) \/ RepairDirty(w) \/ Crash(w)
      PROVE  post' = post \/ post' = Aggregate(row')
  BY <1>7 DEF ListPending, ListPublishing, RepairDirty, Crash
<1> QED
  BY <1>3, <1>4, <1>5, <1>6, <1>7 DEF Next, FaultStep

\* The resolver answers 'published' only when every target is.
LEMMA AggregatePublished ==
  ASSUME NEW r, Aggregate(r) = "published", NEW t \in Targets
  PROVE  r[t].status = "published"
<1> DEFINE S == {r[u].status : u \in Targets}
<1>1. Resolve(S) = "published"
  BY DEF Aggregate
<1>2. r[t].status \in S
  OBVIOUS
<1> HIDE DEF S
<1>3. S = {"published"}
  BY <1>1 DEF Resolve
<1> QED
  BY <1>2, <1>3

\* Unless its owner edits posts.status, a post seen as published has at the
\* provider of every one of its targets a publication that is live, or that was
\* accepted without an id by an asynchronous platform.
THEOREM PostPublishedIsLiveAlways ==
  ASSUME "edit" \notin UserOps PROVE Spec => []PostPublishedIsLive
<1> DEFINE Inv == TypeOK /\ (\A t \in Targets : LiveInv(t)) /\ PostPublishedIsLive
<1>1. ASSUME TypeOK, \A t \in Targets : LiveInv(t), Aggregate(row) = "published", NEW t \in Targets
      PROVE  \E i \in Ids : pub[t][i] \in {"live", Outcome(t, 0)}
  <2>1. row[t].status = "published"
    BY <1>1, AggregatePublished
  <2>2. row[t].pid \in Ids \cup {0}
    <3>1. row[t] \in Row
      BY <1>1 DEF TypeOK
    <3> QED
      BY <3>1 DEF Row
  <2>3. Delivered(t, row[t].pid)
    BY <1>1, <2>1 DEF LiveInv
  <2> QED
    BY <2>2, <2>3 DEF Delivered
<1>2. Init => Inv
  <2> SUFFICES ASSUME Init PROVE Inv
    OBVIOUS
  <2>1. TypeOK
    BY TypeInit
  <2>2. ASSUME NEW t \in Targets PROVE LiveInv(t)
    BY DEF Init, LiveInv, NewRow, IdleJob
  <2>3. PostPublishedIsLive
    BY <1>1, <2>1, <2>2 DEF Init, PostPublishedIsLive
  <2> QED
    BY <2>1, <2>2, <2>3
<1>3. Inv /\ [Next]_vars => Inv'
  <2> SUFFICES ASSUME Inv, [Next]_vars PROVE Inv'
    OBVIOUS
  <2>1. TypeOK' /\ \A t \in Targets : LiveInv(t)'
    BY TypeStep, LiveStep
  <2>2. CASE Next
    <3>1. CASE post' = Aggregate(row')
      <4>1. ASSUME Aggregate(row') = "published", NEW t \in Targets
            PROVE  \E i \in Ids : pub'[t][i] \in {"live", Outcome(t, 0)}
        <5>1. row'[t].status = "published"
          BY <4>1, AggregatePublished
        <5>2. row'[t].pid \in Ids \cup {0}
          <6>1. row'[t] \in Row
            BY <2>1 DEF TypeOK
          <6> QED
            BY <6>1 DEF Row
        <5>3. Delivered(t, row[t].pid)'
          BY <2>1, <5>1 DEF LiveInv
        <5> QED
          BY <5>2, <5>3 DEF Delivered
      <4> QED
        BY <2>1, <3>1, <4>1 DEF PostPublishedIsLive
    <3>2. CASE post' = post
      <4>1. \A t \in Targets : Outcome(t, 0) \in {"live", "unnamed"}
        BY DEF Outcome
      <4> QED
        BY <2>1, <2>2, <3>2, <4>1, LiveStays DEF PostPublishedIsLive
    <3>3. CASE post' = "queued"
      BY <2>1, <3>3 DEF PostPublishedIsLive
    <3> QED
      BY <2>2, <3>1, <3>2, <3>3, PostSource
  <2>3. CASE UNCHANGED vars
    BY <2>1, <2>3 DEF vars, PostPublishedIsLive
  <2> QED
    BY <2>2, <2>3
<1> QED
  BY <1>2, <1>3, PTL DEF Spec
=============================================================================
