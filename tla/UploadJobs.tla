----------------------------- MODULE UploadJobs -----------------------------
(***************************************************************************)
(* upload_jobs and the worker pools that consume it: the ingest pool       *)
(* streams the source to object storage and stages a media asset, the      *)
(* upload pool materialises the post and its YouTube delivery row, the     *)
(* reaper returns rows whose lease ran out, and the user cancels or        *)
(* reschedules pending rows.  One autocommitted statement, one transaction *)
(* or one provider call is one step.                                       *)
(***************************************************************************)
EXTENDS Naturals, FiniteSets

CONSTANTS
  Jobs,         \* rows of upload_jobs
  Procs,        \* worker processes; a restarted process is another member
  Slots,        \* goroutines of the pools
  Home,         \* Home[s]: the process of slot s
  NoOne,        \* SQL NULL in an owner column
  MaxAttempts,  \* upload_jobs.max_attempts
  MaxAssets,    \* bound: media assets one job stages
  MaxReaps,     \* bound: lease losses of one job
  MaxTime,      \* bound: instants that publish_at tells apart
  UserOps,      \* the API operations of this instance: "cancel", "reschedule"
  Faults        \* the faults of this instance: "crash", "stall", "drop"

ASSUME UploadAssumption ==
  /\ Home \in [Slots -> Procs]
  /\ NoOne \notin Procs \X {"ingest", "upload"}
  /\ Jobs # {}
  /\ MaxAttempts \in Nat \ {0}
  /\ MaxAssets \in Nat /\ MaxReaps \in Nat /\ MaxTime \in Nat

VARIABLES
  job,    \* upload_jobs
  asset,  \* asset[j][a]: the a-th media asset staged for j; "unready" stands
          \* for the statuses pending and failed
  post,   \* post[j]: the posts row with upload_job_id = j
  run,    \* run[s]: the goroutine in slot s
  up,     \* running processes
  now,    \* the clock, as far as publish_at values tell it
  reaps   \* reaps[j]: how often the reaper returned j

vars == <<job, asset, post, run, up, now, reaps>>

Pools == {"ingest", "upload"}

\* uniqueWorkerID: one lease_owner string per process and pool, shared by all
\* the goroutines of the pool.
WorkerIDs == Procs \X Pools

AtRest == {"pending", "retry_wait", "ingest_completed"}
Settled == {"publish_scheduled", "publish_completed", "dead_letter", "cancelled"}
JobStatuses == {"absent", "leased"} \cup AtRest \cup Settled

Assets == 1..MaxAssets

\* asset is asset_id (0 is NULL), at is publish_at (0: publish now).
Job == [status : JobStatuses, owner : WorkerIDs \cup {NoOne}, asset : 0..MaxAssets,
        att : Nat, at : 0..MaxTime]

\* filled: the YouTube delivery row of its target exists.
Post == [asset : 0..MaxAssets, at : 0..MaxTime, filled : BOOLEAN]

NoPost == [asset |-> 0, at |-> 0, filled |-> FALSE]

\* "wait": claimed, no semaphore slot and no heartbeat yet.  The other
\* counters name the last thing the goroutine did; att, asset and at are the
\* columns the claim returned.
Run == [pc : {"idle", "wait", "open", "staging", "stored", "posted", "filled", "fired",
              "retry", "giveUp"},
        job : Jobs, pool : Pools, att : Nat, asset : 0..MaxAssets, at : 0..MaxTime]

IdleRun == [pc |-> "idle", job |-> CHOOSE j \in Jobs : TRUE, pool |-> "ingest", att |-> 0,
            asset |-> 0, at |-> 0]

TypeOK ==
  /\ job \in [Jobs -> Job]
  /\ asset \in [Jobs -> [Assets -> {"none", "unready", "ready"}]]
  /\ post \in [Jobs -> Post]
  /\ run \in [Slots -> Run]
  /\ up \subseteq Procs
  /\ now \in 0..MaxTime
  /\ reaps \in [Jobs -> Nat]

Init ==
  /\ job = [j \in Jobs |-> [status |-> "absent", owner |-> NoOne, asset |-> 0, att |-> 0,
                            at |-> 0]]
  /\ asset = [j \in Jobs |-> [a \in Assets |-> "none"]]
  /\ post = [j \in Jobs |-> NoPost]
  /\ run = [s \in Slots |-> IdleRun]
  /\ up = Procs
  /\ now = 0
  /\ reaps = [j \in Jobs |-> 0]

-----------------------------------------------------------------------------
(* The table's producers and users                                         *)

\* createUploadJob: the INSERT every producer shares.
CreateUploadJob(j, at) ==
  /\ job[j].status = "absent"
  /\ job' = [job EXCEPT ![j].status = "pending", ![j].at = at]
  /\ UNCHANGED <<asset, post, run, up, now, reaps>>

\* UploadJobRepository.Cancel deletes a pending row.
Cancel(j) ==
  /\ job[j].status = "pending"
  /\ job' = [job EXCEPT ![j].status = "cancelled"]

\* UploadJobRepository.Reschedule moves publish_at of a pending row.
Reschedule(j, at) ==
  /\ job[j].status = "pending"
  /\ job' = [job EXCEPT ![j].at = at]

HandleCancelUpload(j) ==
  /\ "cancel" \in UserOps
  /\ Cancel(j)
  /\ UNCHANGED <<asset, post, run, up, now, reaps>>

\* The handler refuses an instant that is not in the future.
HandleRescheduleUpload(j, at) ==
  /\ "reschedule" \in UserOps
  /\ at > now
  /\ Reschedule(j, at)
  /\ UNCHANGED <<asset, post, run, up, now, reaps>>

Tick ==
  /\ now < MaxTime
  /\ now' = now + 1
  /\ UNCHANGED <<job, asset, post, run, up, reaps>>

-----------------------------------------------------------------------------
(* Claims and leases                                                       *)

\* Mutant: the upload pool only takes rows that ingest just handed over.
ClaimableFresh(j, pool) ==
  IF pool = "ingest"
    THEN job[j].status = "pending" \/ (job[j].status = "retry_wait" /\ job[j].asset = 0)
    ELSE job[j].status = "ingest_completed"

\* SQLClaimBatch and SQLClaimBatchForPublish: the rows each pool may take.
\* next_attempt_at and ingest_after only delay the claim.
Claimable(j, pool) ==
  IF pool = "ingest"
    THEN job[j].status = "pending" \/ (job[j].status = "retry_wait" /\ job[j].asset = 0)
    ELSE job[j].status = "ingest_completed" \/ (job[j].status = "retry_wait" /\ job[j].asset # 0)

\* runPoolTick: the claim leases the row and charges an attempt; the row then
\* waits for a place in the semaphore.
Claim(s, j, pool) ==
  /\ Home[s] \in up
  /\ run[s].pc = "idle"
  /\ Claimable(j, pool)
  /\ job' = [job EXCEPT ![j].status = "leased", ![j].owner = <<Home[s], pool>>,
                        ![j].att = @ + 1]
  /\ run' = [run EXCEPT ![s] = [pc |-> "wait", job |-> j, pool |-> pool,
                                att |-> job[j].att + 1, asset |-> job[j].asset,
                                at |-> job[j].at]]
  /\ UNCHANGED <<asset, post, up, now, reaps>>

\* Some goroutine renews the lease: runWithHeartbeat runs from the moment the
\* goroutine has its place until it returns, and renews by worker ID.
Heartbeating(j) ==
  \E s \in Slots :
    /\ run[s].pc \notin {"idle", "wait"}
    /\ run[s].job = j
    /\ job[j].owner = <<Home[s], run[s].pool>>

\* A goroutine works on the row under its current lease_owner.
Attended(j) ==
  \E s \in Slots :
    run[s].pc # "idle" /\ run[s].job = j /\ job[j].owner = <<Home[s], run[s].pool>>

\* lease_expires_at and the five-minute heartbeat grace are both past: nobody
\* is left to renew, the row waits for the semaphore, or the process or its
\* connection stalled.
LeaseRanOut(j) ==
  /\ job[j].status = "leased"
  /\ \/ ~Attended(j)
     \/ reaps[j] < MaxReaps /\ (~Heartbeating(j) \/ "stall" \in Faults)

\* SQLReclaimExpiredLeases, run by any process at start and on its ticker.
Reclaim(j) ==
  /\ up # {}
  /\ LeaseRanOut(j)
  /\ job' = [job EXCEPT ![j].status = "pending", ![j].owner = NoOne]
  /\ reaps' = [reaps EXCEPT ![j] = @ + 1]
  /\ UNCHANGED <<asset, post, run, up, now>>

\* The CAS of every Mark*: lease_owner = workerID AND status = 'leased'.
Owns(s) ==
  LET j == run[s].job IN
  job[j].status = "leased" /\ job[j].owner = <<Home[s], run[s].pool>>

\* Mutant: the UPDATE without the CAS.
MarkById(s, status, a) ==
  LET j == run[s].job IN
  /\ job' = [job EXCEPT ![j].status = status, ![j].owner = NoOne, ![j].asset = a]
  /\ run' = [run EXCEPT ![s] = IdleRun]

\* A Mark* that found its row, or lost its lease and changed nothing; either
\* way the goroutine ends.
Mark(s, status, a) ==
  LET j == run[s].job IN
  /\ job' = IF Owns(s)
              THEN [job EXCEPT ![j].status = status, ![j].owner = NoOne, ![j].asset = a]
              ELSE job
  /\ run' = [run EXCEPT ![s] = IdleRun]

\* The goroutine of slot s goes on from one step to the next.
Step(s, from, to) ==
  /\ Home[s] \in up
  /\ run[s].pc = from
  /\ run' = [run EXCEPT ![s].pc = to]

\* The semaphore admits the row: runWithHeartbeat starts.
Start(s) == Step(s, "wait", "open") /\ UNCHANGED <<job, asset, post, up, now, reaps>>

-----------------------------------------------------------------------------
(* processIngestJob                                                        *)

\* Resolve, Inspect and Open the source, then create the pending media asset;
\* every ingest creates a new one.
StageAsset(s) ==
  LET j == run[s].job IN
  /\ run[s].pool = "ingest"
  /\ Home[s] \in up
  /\ run[s].pc = "open"
  /\ \E a \in Assets :
       /\ asset[j][a] = "none"
       /\ \A b \in Assets : asset[j][b] = "none" => a <= b
       /\ asset' = [asset EXCEPT ![j][a] = "unready"]
       /\ run' = [run EXCEPT ![s].pc = "staging", ![s].asset = a]
  /\ UNCHANGED <<job, post, up, now, reaps>>

\* The PUT went through and size, SHA and MIME type agree: MarkReady.
StoreAsset(s) ==
  /\ Step(s, "staging", "stored")
  /\ asset' = [asset EXCEPT ![run[s].job][run[s].asset] = "ready"]
  /\ UNCHANGED <<job, post, up, now, reaps>>

\* Signing, the PUT or a verification failed: markAssetFailed, best effort.  A
\* mismatch is permanent.
StoreFails(s) ==
  /\ \E to \in {"retry", "giveUp"} : Step(s, "staging", to)
  /\ UNCHANGED <<job, asset, post, up, now, reaps>>

\* Mutant: the row is handed over before the stored bytes are verified.
MarkIngestedEarly(s) ==
  /\ Home[s] \in up
  /\ run[s].pc \in {"staging", "stored"}
  /\ Mark(s, "ingest_completed", run[s].asset)
  /\ UNCHANGED <<asset, post, up, now, reaps>>

\* MarkIngested hands the row to the upload pool.
MarkIngested(s) ==
  /\ Home[s] \in up
  /\ run[s].pc = "stored"
  /\ Mark(s, "ingest_completed", run[s].asset)
  /\ UNCHANGED <<asset, post, up, now, reaps>>

-----------------------------------------------------------------------------
(* processPublishJob                                                       *)

\* PostRepository.Create: ON CONFLICT (upload_job_id) the existing post wins.
CreatePost(s) ==
  LET j == run[s].job IN
  /\ run[s].pool = "upload"
  /\ Step(s, "open", "posted")
  /\ post' = IF post[j] = NoPost
               THEN [post EXCEPT ![j] = [NoPost EXCEPT !.asset = run[s].asset, !.at = run[s].at]]
               ELSE post
  /\ UNCHANGED <<job, asset, up, now, reaps>>

\* materializeYouTubeDeliveries: the row exists afterwards, whoever made it.
MaterializeDeliveries(s) ==
  /\ Step(s, "posted", "filled")
  /\ post' = [post EXCEPT ![run[s].job].filled = TRUE]
  /\ UNCHANGED <<job, asset, up, now, reaps>>

\* PublishPost, unless the claimed publish_at is still ahead: it requeues the
\* targets of the post, which were created queued.
TriggerPublish(s) == Step(s, "filled", "fired") /\ UNCHANGED <<job, asset, post, up, now, reaps>>

\* Mutant: a future post is reported as prepared once it exists.
MarkDoneEarly(s) ==
  /\ Home[s] \in up
  /\ run[s].pc = "fired" \/ (run[s].pc = "posted" /\ run[s].at > now)
  /\ Mark(s, IF run[s].at > now THEN "publish_scheduled" ELSE "publish_completed", run[s].asset)
  /\ UNCHANGED <<asset, post, up, now, reaps>>

\* MarkPrepared or MarkCompleted, by a second look at the clock.
MarkDone(s) ==
  /\ Home[s] \in up
  /\ run[s].pc = "fired"
  /\ Mark(s, IF run[s].at > now THEN "publish_scheduled" ELSE "publish_completed", run[s].asset)
  /\ UNCHANGED <<asset, post, up, now, reaps>>

-----------------------------------------------------------------------------
(* Failures                                                                *)

\* A step fails: a permanent error or a panic gives up, any other retries.
StepFails(s) ==
  /\ \E from \in {"open", "stored", "posted", "filled", "fired"}, to \in {"retry", "giveUp"} :
       Step(s, from, to)
  /\ UNCHANGED <<job, asset, post, up, now, reaps>>

\* Mutant: the attempts of the other pool are not counted.
HandleProcessingErrorPerPool(s) ==
  /\ Home[s] \in up
  /\ run[s].pc \in {"retry", "giveUp"}
  /\ Mark(s, IF run[s].pc = "giveUp"
                  \/ (run[s].att >= MaxAttempts /\ run[s].pool = "ingest")
                  \/ run[s].att >= 2 * MaxAttempts
               THEN "dead_letter" ELSE "retry_wait",
             job[run[s].job].asset)
  /\ UNCHANGED <<asset, post, up, now, reaps>>

\* handleProcessingError, and the MarkDeadLetter of a recovered panic.
HandleProcessingError(s) ==
  /\ Home[s] \in up
  /\ run[s].pc \in {"retry", "giveUp"}
  /\ Mark(s, IF run[s].pc = "giveUp" \/ run[s].att >= MaxAttempts
               THEN "dead_letter" ELSE "retry_wait",
             job[run[s].job].asset)
  /\ UNCHANGED <<asset, post, up, now, reaps>>

\* The row stays leased: the error was the shutdown's cancellation, the claim
\* loop stopped before the row got its place, or the Mark* itself failed.
Abandon(s) ==
  /\ "drop" \in Faults
  /\ Home[s] \in up
  /\ run[s].pc \in {"wait", "retry", "giveUp"}
  /\ reaps[run[s].job] < MaxReaps
  /\ run' = [run EXCEPT ![s] = IdleRun]
  /\ UNCHANGED <<job, asset, post, up, now, reaps>>

\* A process dies with all its goroutines.
Crash(p) ==
  /\ "crash" \in Faults
  /\ up \ {p} # {}
  /\ p \in up
  /\ up' = up \ {p}
  /\ run' = [s \in Slots |-> IF Home[s] = p THEN IdleRun ELSE run[s]]
  /\ UNCHANGED <<job, asset, post, now, reaps>>

-----------------------------------------------------------------------------
SlotStep(s) ==
  \/ Start(s) \/ StageAsset(s) \/ StoreAsset(s) \/ StoreFails(s) \/ MarkIngested(s)
  \/ CreatePost(s) \/ MaterializeDeliveries(s) \/ TriggerPublish(s) \/ MarkDone(s)
  \/ StepFails(s) \/ HandleProcessingError(s)

Next ==
  \/ \E j \in Jobs, at \in 0..MaxTime : CreateUploadJob(j, at) \/ HandleRescheduleUpload(j, at)
  \/ \E j \in Jobs : HandleCancelUpload(j) \/ Reclaim(j)
  \/ \E s \in Slots, j \in Jobs, pool \in Pools : Claim(s, j, pool)
  \/ \E s \in Slots : SlotStep(s) \/ Abandon(s)
  \/ \E p \in Procs : Crash(p)
  \/ Tick

Spec == Init /\ [][Next]_vars

\* A running goroutine goes on, a pool polls for every row it may take, and
\* the reaper's ticker fires; a process that dies is the only thing that stops.
FairSpec ==
  /\ Spec
  /\ \A s \in Slots : WF_vars(SlotStep(s))
  /\ \A j \in Jobs : WF_vars(\E s \in Slots, pool \in Pools : Claim(s, j, pool))
  /\ \A j \in Jobs : WF_vars(Reclaim(j))

-----------------------------------------------------------------------------
(* Properties                                                              *)

\* processPublishJob trusts the asset_id that its claim returned: no post is
\* built, and no row waits for the upload pool, on an asset whose bytes were
\* not verified, whichever goroutine staged it and however often the reaper
\* sent the row back to ingest (SQLReclaimExpiredLeases, MarkIngested).
PostAssetReady ==
  \A j \in Jobs :
    /\ post[j] # NoPost => post[j].asset # 0 /\ asset[j][post[j].asset] = "ready"
    /\ job[j].asset # 0 => asset[j][job[j].asset] = "ready"
    /\ job[j].status = "ingest_completed" => job[j].asset # 0

\* A row reported as prepared or completed has its post, and the post its
\* delivery row, whichever of several goroutines made them and whichever of
\* them wrote the last Mark* (processPublishJob, MarkPrepared, MarkCompleted).
DoneIsMaterialised ==
  \A j \in Jobs :
    job[j].status \in {"publish_scheduled", "publish_completed"} => post[j].filled

\* Ingest and publish claims share attempt_count, and a claim never looks at
\* max_attempts: what keeps a row from being claimed for ever is the test in
\* handleProcessingError.  Only lease losses, never failures, take a row past
\* max_attempts and the one publish claim after a last successful ingest.
BudgetAccounted ==
  \A j \in Jobs : job[j].att <= MaxAttempts + 1 + 2 * reaps[j]

\* upload_jobs is a leased work table: a row never passes from one worker to
\* another without going back to the queue, and no late Mark* of a worker that
\* lost its lease revives a row that is done (the CAS of every Mark*).
Phase(j) ==
  IF job[j].status = "absent" THEN "absent"
  ELSE IF job[j].status = "leased" THEN "held"
  ELSE IF job[j].status \in AtRest THEN "ready" ELSE "settled"

Lease == INSTANCE LeasedWork WITH
  Items <- Jobs, Workers <- WorkerIDs, NoOne <- NoOne,
  phase <- [j \in Jobs |-> Phase(j)], holder <- [j \in Jobs |-> job[j].owner]

ImplementsLeasedWork == Lease!Spec

\* Every row that was created is prepared, completed, dead-lettered or
\* cancelled in the end, although processes die, leases run out and marks get
\* lost: the reaper brings back every abandoned row.
JobSettles ==
  \A j \in Jobs : job[j].status # "absent" ~> job[j].status \in Settled
=============================================================================
