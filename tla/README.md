# InstaEdit publishing: TLA+ models and proofs

InstaEdit publishes a post to several social platforms. A post has one
`post_targets` row per destination; worker processes claim the rows, hand the
media to the provider, poll the publications the provider finishes
asynchronously, and keep the parent's `posts.status` equal to an aggregate of
the targets. Everything is coordinated through PostgreSQL: claims with
`FOR UPDATE SKIP LOCKED`, leases, compare-and-set updates, triggers and row
locks. That coordination is what these modules model, for the publishing of a
post and for the queues and transactions around it: uploads, YouTube deliveries
and their quota, external deliveries, webhooks, the outbox and the OAuth grants.
They are checked by TLC on small instances; every safety property that a passing
run checks, and every refinement, is proved by TLAPS for every instance (five of
the pipeline's under hypotheses on the owner or the provider, named below).

## The system

| part | state it keeps | operations | what is hard about it |
|---|---|---|---|
| Publish driver (`internal/worker/publish_worker_*.go`) | a batch of listed targets in memory; `lease_owner_id` in the row | tick, claim, publish, record, retry, rate limit, block, delivery gate | several processes, a provider call between two transactions, cancellations in between |
| Reconciler (`reconcile_worker.go`) | poll lease, `reconcile_attempt`, `next_reconcile_at` | list, claim, poll, settle, schedule, dead-letter, repair dirty posts | leases that run out, stale attempt counters, late answers |
| Post repository (`internal/repository/post_repo_*.go`) | `posts`, `post_targets` | every status transition, with the aggregate in the same transaction | lost updates of the aggregate, lock order |
| Aggregate resolver (`internal/models/post_aggregate_status.go`) | none | `Resolve` | precedence of nine flags |
| Repair queue (migration 105) | `post_aggregate_repair_queue` | trigger on a changed status, repair in the reconciler's tick | a third lock beside target and parent |
| Post API (`pkg/api/posts_*.go`) | none | publish, cancel, retry, schedule, patch, disconnect an account | runs at any moment of a publication |
| Outbox (`internal/outbox`, `outbox_repo.go`) | `outbox_events`, `publish_jobs` | claim, heartbeat, process, four marks | at-least-once delivery, stalls, partial persistence |
| Upload worker (`upload_worker_*.go`, `upload_job_*.go`) | `upload_jobs`, `media_assets` | ingest pool, upload pool, reaper, cancel, reschedule | one attempt budget and one lease column for two phases, the reaper's way back to the first |
| YouTube deliveries (`youtube_delivery_queue.go`, `publish_worker_youtube.go`) | `youtube_target_publications` | claim, upload as private, mark, reclaim, make visible | a provider call that cannot be undone between two statements; a target and a row that move apart |
| YouTube quota (`youtube_quota_repo.go`) | `youtube_quota_daily` | reserve under a row lock | several processes at the limit and at midnight |
| External deliveries (`external_delivery_*.go`, `velox_artifact_downloader.go`) | `external_deliveries` | idempotent insert, claim, link, marks | concurrent repetitions, marks that name the row by id alone |
| Credential vault (`vault_refresh.go`, `channel_authorization.go`, disconnects and deletion) | `tokens`, `oauth_connections`, `platform_accounts` | renew, authorize, disconnect or delete an account, disconnect a grant, write a status | the provider rotates the refresh token before the transaction commits; lock order |
| Webhooks (`webhook_worker.go`, `webhook_repo.go`) | `webhook_deliveries` | fan-out, claim, send, mark, replay | heartbeats that stop, writes of a stale owner |
| Idempotency, sessions, livestreams, import batches, content packages | a table each | lookup and record, rotate, claim and mark | races of requests |

The publish driver and the reconciler of a process run in goroutines of their
own and share one worker id. They interact with each other, with other
processes and with the API only through rows. `PostRepository.Create` writes
the post, its targets and one outbox event per target in one transaction; the
outbox materialises `publish_jobs` rows, which the driver does not read: it
lists `post_targets` itself. An external delivery becomes an upload job; an
upload job becomes a post with targets and one YouTube delivery row per YouTube
target; the delivery pool uploads the video and the publish driver's second
phase gives it the privacy asked for. Every provider call takes its token from
the vault. The remaining parts (web frontend, provider
adapters, billing, analytics, thumbnails, configuration) are listed in
`PROJECT.json` with the reason they are left out.

The properties that make the parts correct: a target is published by one driver
and handed to the provider once; what the rows show is what the provider has;
the aggregate is exact; a settled target is not taken back; every target and
every event settles; the retry budgets mean what they say; transactions do not
wait for each other in a circle; a leased row is in one pair of hands and a
decision about it is final; a quota is not exceeded; a refresh token is not
spent twice and not lost without a trace. `PROJECT.json` lists, under "hazards", the
lines where each of these can go wrong and the property that would show it.

## Modules

| module | models | extends |
|---|---|---|
| `PostStatus` | the statuses of posts and targets, `Resolve` as a function of a set of statuses | |
| `AggregateResolver` | the loop of `Resolve`, one step per target | `PostStatus` |
| `PublishPipeline` | targets of one post, driver and reconciler of every process, owner, clock, provider | `PostStatus` |
| `AggregateTx` | the transactions of the repository, statement by statement, with PostgreSQL's row locks | `PostStatus` |
| `Outbox` | outbox rows, dispatchers, materialiser | |
| `LeasedWork` | abstract: what a leased work table promises | |
| `UploadJobs` | `upload_jobs`, the two pools, reaper, user | instance of `LeasedWork` |
| `YouTubeDelivery` | delivery rows, quota, YouTube, the second phase | instance of `LeasedWork` |
| `Webhooks` | `webhook_deliveries` and its goroutines | instance of `LeasedWork` |
| `ExternalDelivery` | the insert of a delivery and the downloader | |
| `CredentialVault` | one grant, the accounts that may share it, token, provider, and the kinds of transaction that write them | |
| `MC*` | model values, functions and symmetry sets for TLC | their module |
| `*Proofs` | theorems and proofs | their module |

### PublishPipeline

One committed transaction is one step. `row[t]` is the `post_targets` row,
`job[w][t]` the goroutine of process `w` on target `t` (listed, owned, sent, in
the delivery gate), `rjob[w][t]` the reconciler's copy of the row it polls. The
provider's side is `pub[t][i]`, the state of the i-th publication it accepted.
Actions carry the names of the Go functions. `fromUpload`, fixed by the initial
state, says that the post has an `upload_job_id`. After the claim a target goes
one of three ways: a Drive export is handed to the DeliveryRegistry
(`ExportCompletes`), a target of an upload job's post is published by YouTube's
second phase or parked (`PhaseTwoPublishes`, `AwaitUpload`), and every other one
reaches `executePublish` (`Direct`, `PublishAccepted`). Five actions deserve a
word:

* `UpdateStatusWithLease`: when its compare-and-set matches no row, the Go
  function returns an error its deferred rollback does not see. The transaction
  stays open with the parent's row locked; `held` is the process it belongs to,
  and every transaction that needs the parent waits while `held` is set.
* `AwaitUpload`: the gate at `publish_worker_youtube.go:194` asks for
  `post.UploadJobID`, not for the platform. It sits behind the Drive branch, so
  every target but a Drive export passes it.
* `PublishAccepted`: with an id, an asynchronous platform leaves the target to
  the reconciler; without one (fault "noid") the synchronous branch writes
  'published' while the provider may still be processing. The publication is
  then "unnamed", because nobody can ask for its outcome. `PublishedIsLive` says
  what such a row stands for.
* `PollLeaseExpires`: a running owner renews its poll lease, so it runs out
  only when the process is gone or when the instance allows stalls.
* `Crash`: the supervisor's replacement has a new worker id, so a crashed worker
  never returns; one process at least keeps running.

Abstractions: timestamps are compared with `NOW()` only and become flags that
time sets; the publish lease's `leased_until` is left out because no production
code compares it; `attempt_count` is left out because nothing reads it; the
outcome of a provider call is a choice among the classes the code tells apart;
Threads' `Reconcile` publishes a finished container itself, so there the
provider's step (`ProviderSettles`) is a poll's doing; `SetTargetStatus`, by which
the upload worker blocks a target, is an action of `YouTubeDelivery` only;
the status 'dead_letter', an alias `Resolve` accepts beside 'dlq', is written by
nobody and is no value of `IsValid`;
a post's targets are fixed (`AddTarget` and `Delete` are not modelled).

### AggregateTx

`Path` gives the statements of each kind of transaction; `tx[c]` is the
connection's open transaction with its uncommitted writes, and `tlock`, `plock`,
`pshare`, `qlock` are the holders of the row locks. A transaction reads its own
writes over what is committed (READ COMMITTED). The insert into the repair queue
waits for an uncommitted insert or delete of the same row, and its foreign key
takes a KEY SHARE lock on the post. "transition" stands for several functions
with different WHERE clauses, and therefore accepts every status. A PATCH is
modelled by its read and its later, separate write; the history variable
`edited` says that this write was the last one to `posts.status`.

### Outbox

`lease_id` is a fresh UUID per claim; since `attempt_count` grows with every
claim, the claim's number names it. Which claimable row comes first is left open:
rows locked by peers are skipped. `RenewLease` looks at the lease id only, the
marks as well, so a dispatcher that stalled can keep a row nobody else has
claimed.

### LeasedWork and its implementations

`LeasedWork` says what the users of a work table rely on: an item is ready, held
by one worker, or settled; it is held by somebody else only after it went back;
only a held item is settled, or a ready one withdrawn; nothing leaves "settled".
`UploadJobs`, `YouTubeDelivery` and `Webhooks` each give a refinement mapping
from their rows (status and lease columns) and are checked to implement it
(`ImplementsLeasedWork`). A worker that lost its lease exists only in the
detailed modules: the refinement says that whatever it still does is invisible.
The mappings differ where the tables do. A webhook row is held while its lease
is live, since every write also asks for `lease_until > NOW()`; upload jobs and
deliveries are held until the reaper has taken the row, since their marks look
at the owner only. A dead webhook waits for the operator and counts as ready.
`ExternalDelivery` has no such mapping: its marks name the row by id, so a stale
downloader does take decisions back (see below), and its properties say how far.

### UploadJobs

`job[j]` is the row, `asset[j]` the media assets staged for it, `post[j]` the
post with `upload_job_id = j`, `run[s]` the goroutine in slot `s`. The lease
owner is a string per process and pool, so goroutines of one pool share it.
Between the claim and its place in the semaphore a row has no heartbeat ("wait").
The reaper sends every expired row to 'pending', whatever its phase, so a job
that died while it was published is ingested again; `ON CONFLICT
(upload_job_id)` keeps the first post. `next_attempt_at` only delays.

### YouTubeDelivery

`run[s]` is a goroutine of the delivery pool, `pub[d]` the publish driver in its
second phase, `video[d]` what YouTube has. `ReserveQuota` is modelled by its
statements (lock, commit or refuse) because two processes with different
configured ceilings meet at one row. `losses[d]` counts the claims whose outcome
never reached the row: a lease that ran out, an answer or a mark that was lost.
`UpdateVideoPrivacy` sets what `CoercePrivacyForUpdate` returns, which may be
"unlisted" or "kept" (private): only a forced native publication is always
public. An upload ends in the attempt counter (`MarkDeliveryFailed`) or, when
`context.Canceled` or `context.DeadlineExceeded` comes out of it, in
`ReleaseDeliveryLease` (fault "cancel"), at a shutdown or an ordinary timeout.
One driver per target is assumed here; `PublishPipeline` proves it.

### CredentialVault

One lock is one step, in the order of the statements; writes appear at the
commit, as the rows are locked until then. `DeadlockVictim` is PostgreSQL's
detector. The module follows one grant. `linked` are the accounts whose
`oauth_connection_id` names it: every authorization rewrites the link, so an
account comes with `PromoteAccount` and goes with `MoveAccount`, when the user
consents with another Google account, and a deletion unlinks all of them. `here`
is what a handler read of the link before its transaction. Of the
`oauth_connections` row only its existence is kept, since no transaction reads
its status. The writers of account status outside these transactions are
`UpdatePlatformAccount` (a whole row as it was read earlier),
`MarkConnectionReauth` and `MarkSnapshotTerminal`. `valid` is the set of refresh tokens the provider accepts; a rotating
answer replaces one, a revocation empties it. `spoiled` is a history variable:
tokens revoked, and tokens the provider had replaced when the renewal was rolled
back. `slipped` is another: an account left the grant by a move or by a stale
status, without a disconnection. Whether the access token is in its refresh
window is left to the clock, at every look. The in-process `singleflight` only means that a second request of the same
process does not start, and is covered by renewals of other processes.

### Webhooks

The lease id is new with every claim, so a goroutine stands for its lease.
`losses[d]` counts leases lost to a crash, a heartbeat that stopped or a write
that failed, `replays[d]` the operator's replays.

### ExternalDelivery

`req[r]` is the handler of a request, `row[r]` the row it inserted, `run[w]` a
downloader. The advisory lock on the key is a step of its own, the lookup and
the INSERT are others, so the two UNIQUE constraints matter. The upload job is
counted (`jobs`, and `gone` for those a cancellation deleted): what becomes of
it is `UploadJobs`.

## Runs

Passing runs (distinct states in parentheses):

| run | instance | shows |
|---|---|---|
| `race` (234 k) | 2 processes, 1 YouTube target (asynchronous) of an API or an upload post, budget 2, crash, drop, stall, 2 owner calls | one driver, one publication, budget honoured, settled targets stay settled |
| `fanout` (289 k) | 1 process, an asynchronous target and a Drive export, lost answers, answers without an id, dropped jobs, publish/cancel/retry/schedule | rows and parent claim no more than the provider has |
| `settles` (11 k) | 2 processes, 1 asynchronous target of an API or an upload post, crash, cancel, fair | a publication whose poller died is settled; while nobody dies every queued target ends, or waits for its upload |
| `tx_all` (1.5 M) | 2 connections, 2 targets, all kinds | the aggregate is exact |
| `tx_order` (50 k) | 3 connections, 2 targets, claim, publish and repair, fair | no wait cycle; transactions end |
| `outbox` (128 k) | 2 events (one foreign), 2 dispatchers, all faults, fair | exactly one job, justified dead letters, stable decisions, every event settles |
| `upload` (335 k) | 1 job, 2 processes, budget 3, one lost lease, crash, stall, drop, cancel, reschedule, fair | posts on verified assets, done jobs have post and delivery, shared budget, refinement, every job settles |
| `delivery` (460 k) | 1 delivery, 2 processes with ceilings 1 and 2, 2 days, 2 attempts, all faults, fair | quota, duplicates accounted for, attempts, published as asked, refinement, every delivery settles or is stranded by a release |
| `vault` (1.8 M) | 2 accounts, 2 transactions of any kind, 2 refresh tokens, all faults | no double spend, stored token works or its loss is recorded, no orphan grant unless an account slipped away, no resurrection |
| `webhooks` (53 k) | 1 delivery, 3 goroutines, 3 attempts, 2 losses, 1 replay, all faults, fair | requests accounted for, one sender, refinement, every delivery ends |
| `external` (146 k) | 4 requests (a repetition, another body, another key), 2 downloaders, 2 attempts, all faults, fair | repetitions answered alike, one upload job, stale marks only after a fault, budget, every delivery decided |

Every module states a type invariant. `race` checks the pipeline's; all of them
are proved.

`tx_order` has one representative of each way to lock: claim holds one target
and waits for the parent, publish takes all targets in order, repair takes the
queue's row as well. Cancel has the statements of publish, and a transition
waits for its target while it holds nothing and is then where a claim is.

Why the bounds are enough: every property relates at most two actors and one
target or event, so two processes (or connections, or dispatchers) suffice to
break it, and a third connection is there for wait cycles of length three. Two
targets let siblings interfere; `MaxReconcile = 2` and `MaxAttempts = 2` have a
first, a last and a surplus attempt; `MaxSends = 2` lets a second publication
exist, which `AtMostOnePublication` forbids; `MaxClaims` exceeds `MaxAttempts`
so that the dead-letter decision is reached after crashes. The queue modules
have one row each, since rows of one table meet only in the quota, and two or
three workers: the one that lost its lease, the one that has it, and in
`webhooks` a third that could send as well. One lost lease per row gives the
stale worker; webhooks, which account for losses, have two. Two days and two
ceilings let a reservation meet midnight and a peer with another limit. Two
refresh tokens allow one rotation or one new consent beside the first token;
the theorems hold for any number.

Bounds the code does not have: `MaxSends`, `MaxUserOps`, `MaxClaims`,
`MaxAssets`, `MaxReaps`, `MaxTime`, `MaxDays`, `MaxVideos`, `MaxLosses`,
`MaxReplays`, `MaxTokens`. `MaxAssets` and `MaxVideos` are large enough never to
refuse a step in their instance. The properties that are proved are proved
without them, or for every value of them.

Deadlock checking is off for the pipeline and the queues because an idle system
with nothing queued really stops; `AggregateTx` and `CredentialVault` are checked
for deadlock.

### Where a comment or a document says otherwise

The run `leak` checks one statement quoted from the repository and finds a
behaviour of the code that contradicts it: a claimed row is never reclaimed
after a crash, because nobody calls `PostRepository.ReclaimExpiredLeases`
(`PROJECT.json` has the quotation).

Other disagreements, seen in the code the modules translate and left without a
run. In the publishing core:

* `qMarkRetrying` (`queries.go:393`) has no status guard and a cancellation keeps
  `lease_owner_id`: a target cancelled during `Publish()` is set to 'retrying' by
  the failure path and published later, although `queries.go:314` says that such
  jobs "stop being publishable after a disconnect";
* when the compare-and-set of `UpdateStatusWithLease` matches no row
  (`post_repo_retry.go:396`) its transaction is neither committed nor rolled back
  and keeps the post's row lock: every target of the post waits, although
  `publish_worker_lifecycle.go:59` says that targets are independent;
* `UpdateStatusWithLease` locks the parent before the target
  (`post_repo_retry.go:383`) and deadlocks with a cancellation;
  `post_repo_aggregate.go:23` says that all transitions lock target, then parent;
* publishing again keeps the old `platform_post_id` (`queries.go:303`), so the
  reconciler may poll the old publication while the driver is in `Publish()`,
  which `post_repo_target.go:173` excludes;
* a poller that read `reconcile_attempt` before a target was published again may
  dead-letter the new lifecycle (`post_repo_reconcile_lease.go:120`), although
  migration 107 resets the counter for it;
* the delivery gate moves a published target to `drive_required_failed`;
  `docs/ARCHITECTURE.md:232` has no transition out of published;
* publication retries are unbounded: nothing compares `attempt_count`
  (`publish_worker_retry.go:34` calls the budget bounded);
* `Resolve` answers "queued" for a published and a queued target; its comment
  (`post_aggregate_status.go:29`) says partial;
* `cancelFutureJobsTx` updates its targets before it locks the post's targets in
  order, so disconnects of two accounts of one post can deadlock;
* `handlePatchPost` writes back the status it read over a newer aggregate, and
  no trigger queues the post for repair;
* outbox claims, crashed ones included, spend `attempt_count`; migration 023 says
  only failures do;
* a dispatcher that lost its row may find it pending under a peer's lease
  (`outbox_repo.go:333` says terminal), and `MarkDeadLetter` never writes the
  error it takes;
* the comment on `qCancelPostTargetsReset` counts `blocked_auth` among the
  preserved statuses and the query does not; `OutboxRepository.ReleaseLease`
  names callers that do not exist; the events `platform_account.deleted` and
  `oauth_connection.disconnected` have no processor and always end as dead
  letters.

* any platform's target of an upload job's post but a Drive export is parked in
  'waiting_provider' (`publish_worker_youtube.go:194`), and outside YouTube no
  delivery row will ever come; `upload_worker_publish.go:228` and `:465` say
  "TikTok / Instagram / Facebook keep using publish_worker's synchronous
  upload+publish flow". `EveryTargetSettles` names this end;
* an asynchronous platform that answers without an id is written 'published'
  (`publish_worker_upload.go:74`) while the provider is still at work and nobody
  can poll it; TikTok's `StartPublish` never checks `publish_id`
  (`tiktok_oauth.go:231`);
* a Drive export is written 'published' without a `platform_post_id`
  (`publish_worker_status.go:201`), so the row names no file;
* no production code sets `drive_required`, the flag the delivery gate reads.

In uploads and YouTube deliveries:

* on shutdown, and whenever `context.DeadlineExceeded` comes out of the upload
  (an ordinary timeout; `upload_worker_publish.go:366`), `ReleaseDeliveryLease`
  clears the lease and leaves the state
  'uploading', which neither the claim nor the reclaimer (it asks for an owner's
  expired lease) finds again; `upload_worker_publish.go:363` says "so the next
  worker can resume the same delivery". `DeliverySettles` excludes these rows;
* 'published' is stamped on a video whose requested privacy is private or
  unlisted (`publish_worker_youtube.go:177`), or private until a `publishAt` that
  is still to come, while `markYouTubeTargetPublished`'s comment
  (`publish_worker_youtube.go:206`) says it "is (or, for native-publishAt uploads,
  will be) public";
* a job reaped in its publish phase is 'pending' again and can be cancelled or
  rescheduled although its post exists (`upload_job_calendar.go:219`); the post
  keeps its old time;
* the goroutines of one pool share `lease_owner` (`upload_job_retry.go:17`), so a
  late mark of one passes the compare-and-set under the lease of another of the
  same process; rows that wait for the semaphore have no heartbeat;
* `SuppressPendingDuplicates` looks for the status 'completed'
  (`upload_job_dedupe.go:107`), which jobs no longer reach;
* `ClearYouTubeUpload` empties a row whose video is gone and leaves its state, so
  nobody uploads again and the target waits for ever; so does the target of a
  dead-lettered delivery. A unit reserved before midnight may be used after it.

In the vault:

* `AuthorizeChannel` takes no advisory lock: the disconnection of the last other
  account, running at the same time, revokes the grant and deletes the token just
  stored, and leaves an active account without a token;
* an authorization through another Google account moves the account to another
  grant (`channel_authorization.go:470`); if it was the last one, the old grant
  keeps its tokens and no account leads to them;
* `UpdatePlatformAccount` writes back the status a handler read earlier
  (`accounts_sync.go:154`, `accounts_validate.go:342`): it may revive an account
  that was disconnected meanwhile, or end one that is in use. `NoOrphanGrant` has
  `slipped` for this and for the move;
* `MarkInvalidGrantTx` and `MarkOAuthConnectionAccountsReauthRequired` spare
  disconnected accounts but not deleted ones: a tombstone becomes
  'reauth_required';
* the revocation prepared for a disconnection names the grant that was read
  before the lock; if the account moved meanwhile, the wrong grant is revoked;
* a renewal that fails softly leaves the grant in 'error', which the sweep
  excludes although it logs "will retry at next interval"; `AuthorizeChannel`
  never resets `oauth_connections.status`; the status written after a rollback
  takes no lock and may overwrite a newer one;
* the grant's disconnection and a renewal can wait for each other in a circle
  (`oauth_connection_disconnect.go:17` says the order prevents it), and the victim
  may be a renewal whose token was already rotated;
* after the last disconnection a sibling in 'reauth_required' can be neither
  disconnected nor deleted any more, because the token to revoke is gone;
* `FindLatestToken` takes a second connection of the pool while the transaction
  holds one.

In webhooks and external deliveries:

* a shutdown dead-letters the delivery whose request it cancels, and a database
  error in `FindEventByID` dead-letters at once;
* `webhook_repo.go:69`, `:96` and `:140` scan the TEXT[] column of an endpoint's
  events into a `[]string` without `pq.Array`, which fails on every row; the model
  has the failure as `LoadFails`;
* `webhook_dispatcher.go:166` says that the worker retries a delivery whose
  `CreateDelivery` failed, but that row never exists;
* `CreateUploadJobAndLink` leaves "the delivery row untouched for the winner", and
  the failure path that follows overwrites it by id: it may dead-letter a delivery
  whose upload goes on, or revive one that was decided. `LinkedIsDownloading` says
  that this takes a lost lease or a lost answer;
* after 'downloading' no production code moves `external_deliveries.status`:
  `IngestFSM` is constructed (`workers_specs.go:249`) and never called, the
  callback dispatcher is not constructed;
* a conflict on `external_delivery_id` is reported as an idempotency conflict.

## Fairness

* `WorkersRun`: weak fairness of the ticks, of the goroutines of a running
  process and of the clock. The tickers fire for ever and Go schedules runnable
  goroutines; a crashed process's actions are disabled.
* `ProviderAnswers`: an assumption about the provider, not the code. It settles
  what it accepted (weak fairness), and does not turn away for ever what is
  tried again and again (strong fairness). `settles` and `leak` use it; without it a provider that is always down refutes any claim
  that targets settle.
* `AggregateTx!FairSpec`: strong fairness per connection, because PostgreSQL
  queues the waiters of a row lock.
* `Outbox!FairSpec`: weak fairness of the ticker, of a running dispatcher's
  steps, of lease expiry and of the backoff. Renewals, failures of marks and
  crashes are not fair.
* `UploadJobs!FairSpec`, `YouTubeDelivery!FairSpec`, `Webhooks!FairSpec`,
  `ExternalDelivery!FairSpec`: weak fairness of every running goroutine's steps,
  of the claim of every row (pollers take the oldest rows first, so a row that
  stays claimable is reached), of the reaper or the expiry of a lease nobody
  renews, and of the clock. Which outcome a call has is never fair: a provider
  may fail for ever, and the budgets end it. No fairness for crashes, faults,
  users and operators.

## Proofs

All proofs are checked by TLAPS with no facts assumed beyond the `ASSUME`s of
the modules (which TLC evaluates in every run) and the hypotheses named below.

`PublishPipelineProofs`:

* `TypeCorrect`.
* `PublishedIsLiveAlways`, for all faults and all owner calls. The published
  status is carried through a goroutine's local state for several steps, so the
  invariant adds what each carrier knows: a job about to record "published"
  carries an id whose publication is live, or none although one was accepted,
  and what was delivered stays delivered (`DeliveredStays`).
* `SingleDriverAlways`, `BudgetHonouredAlways`, `TerminalStableAlways`, under
  `OwnerOnlyCancels` (the owner cancels, schedules or edits; publishing again and
  retrying reset the row on purpose, and the budget does not survive a stale
  poller then). They share `PipelineInv`, one `TargetInv(t)` per target: who
  may be between claim and final write, what the owner columns say then, that
  a poller's copy of the attempt counter is the row's as long as it owns the
  lease, and that the counter never exceeds the failures that happened.
* `AtMostOnePublicationAlways`, under `OwnerOnlyCancels` and without lost
  answers: a driver that may still send works on a target with no publication.
* `PostPublishedIsLiveAlways`, if the owner does not edit `posts.status`.

`AggregateTxProofs`: `TxTypeCorrect` and `AggregateExactAlways`, for any number
of targets and connections. `AggregateExact` is not inductive: the aggregate a
transaction resolved must still be right when it commits. `AggregateInv` adds
that whoever is past its lock of the parent holds it, and that whoever has
resolved holds an aggregate equal to that of the statuses it sees; as no other
transaction can commit a target status without the parent's lock, the two stay
equal until the commit.

`NoWaitCycleAlways` is the argument of the lock order, for circles of any length
that avoid the two transactions known to depart from it. `WaitInv` says which
rows a transaction holds at each statement and that whoever locks the targets in
order holds every target below one it holds. Nobody in such a circle waits while it holds the
post, so everybody waits for a target; the one who waits for the largest target
waits for somebody who holds it and so must want a larger one. The largest
exists because targets are numbered (`WFMin` of the library). The proof showed
that `Blockers` had left out a waiter: `qLockDirtyAggregatePost`
(`queries.go:207`) is a plain FOR UPDATE and waits for the queue's row. The model
has it now.

The same module proves the resolver's loop: the flags are exactly the "any" and
"all" statements over the visited statuses (`LoopInvariant`), from which
`LoopIsResolve` and `ParentWaits` follow for any number of targets in any order.

`OutboxProofs`: `OutboxTypeCorrect`, `ExactlyOneJobAlways`,
`DeadLetterJustifiedAlways`, `DecisionStableAlways`, `OneDispatcherAlways`, for
any number of events and dispatchers. The invariant relates the lease number a
dispatcher carries to the row: it never exceeds `attempt_count`, decided rows
have no lease, and a dispatcher that carries a success has its job in the table.
For `OneDispatcher` the further invariant is that, without stalls, a busy
dispatcher's lease is the row's and is live, so nobody else can claim it.

`WebhooksProofs`: `WebhookTypeCorrect`, and `WebhooksImplementLeasedWork` for any
number of deliveries and goroutines and all faults. The mapping reads only a
row's status and lease, so each action maps by what it does to one row
(`RowMaps`): emission offers, a claim takes, an expired or stopped heartbeat
returns, a fenced write settles or returns, a stale one stutters. The invariant
needed is `LiveInv`, that a live lease is a worker's and on a pending row: it
makes the claimed row one nobody holds and the operator's replay a stutter.

`OneSenderAlways` needs that the goroutines on a delivery are the one whose lease
it is and at most one per loss. `SendsAccountedAlways` counts ahead: what was
sent, plus what the goroutines on the delivery may still send, plus what the row's
attempts still allow, never exceeds the bound; and the copy of `attempt_count` that
a holder carries is the row's.

`UploadJobsProofs`: `UploadTypeCorrect`, `PostAssetReadyAlways`,
`DoneIsMaterialisedAlways`, `BudgetAccountedAlways` and
`UploadsImplementLeasedWork`. `UploadInv` has two parts. `RowInv(j)` relates the
row to its asset and its post: an asset the row or the post names is ready, a
done row has its filled post, and from the last attempt on the claims made, those
the status still allows (`Ahead`) and those that busy goroutines may cause are paid
for, two per reap. `RunInv(s)` says what a goroutine carries through
its steps: the asset its claim returned is ready, and it writes a done status
only after the post exists. Both survive goroutines that lost their lease, because
assets never leave "ready" and posts are never unmade.

`YouTubeDeliveryProofs`: `DeliveryTypeCorrect`, `QuotaHonouredAlways`,
`DuplicatesAccountedAlways`, `AttemptsHonouredAlways`, `PublishedAsAskedAlways`
and `DeliveriesImplementLeasedWork`. The quota needs two facts: while a
reservation holds the day's row, what it read there is still so, and calls made
plus calls paid for and not yet made never exceed the calls charged. For the
videos, `VideoInv(d)` bounds the videos inserted, plus the goroutines that still
can insert one, plus one if the row invites another claim, by one plus the
losses: every step that opens a new chance closes one or counts a loss. `RowNext`
reduces any step to one of five writes of a row or none; the attempts and the
refinement mapping are both read off it.

`ExternalDeliveryProofs`: `ExternalTypeCorrect`, `ReplayIsAnsweredAlways`,
`OneUploadJobAlways`, `LinkedIsDownloadingAlways`, `AttemptsAccountedAlways`. The
invariant says that a handler past its lookup holds the key's advisory lock and
what it found is still so, that only inserted rows are worked on, and, per
delivery, that jobs and claims are accounted for by the row, the goroutines on it
and the losses. One assumption on the constants was missing: bodies are
compared by the SHA-256 of the raw request (`external_delivery_repo.go:138`), and
the key and the external id are parts of it, so equal bodies have equal keys.

`CredentialVaultProofs`: `VaultTypeCorrect`, `NoDoubleSpendAlways`,
`StoredTokenLiveAlways`, `NoOrphanGrantAlways` and the action property
`NoResurrectionAlways`, for any accounts, transactions, operations and faults. None
of the four is inductive. `LockInv(t)` adds which rows each transaction holds at
each statement, `TokenInv(t)` what the refresh tokens it carries are still worth.
The core is `RenewsAlone`: while one transaction renews, no other renews or
disconnects an account (both hold the advisory lock), and none disconnects the
grant, which takes no advisory lock but holds every linked account, the
renewal's among them; an account is linked only under the grant's row, so that
set does not grow meanwhile. Hence the token read inside the lock is the one the
provider knows (`NoDoubleSpend`), and still there when the renewal commits
(`NoResurrection`). A callback takes neither
lock; its token is safe because nobody else has seen it. `NoOrphanGrant` needs
`SiblingStays`: between the moment a disconnection counts an active sibling and
its commit, that sibling stays on the grant or `slipped` is set. Every other way
to take an account off the grant deletes the tokens or sets it (`ServeFrame`).

`LoopComputesResolve`, `ParentWaitsForTargets` and `OneDispatcher` are stated by
theorems only; no run repeats them.

Only model-checked, because TLAPS does not reason about fairness and `ENABLED`
here: the liveness properties `EveryTargetSettles`, `AsyncSettles`,
`TransactionsEnd`, `EventSettles`, `JobSettles`, `DeliverySettles` (of deliveries and
of webhooks) and `DeliveryDecided`. `ClaimedRowIsNotLeaked` is refuted.

## What is not modelled yet, and the plan

1. Proofs: further facts behind the liveness properties that are safety in
   themselves (a row that is not settled always has a step that may move it), and
   `NoWaitCycle`'s counterpart for the two disconnections of the vault.
2. HTTP idempotency (lookup, handler, record), and sessions: `RevokeFamily` and
   `RevokeAllForUser` may miss the row that a concurrent `Rotate` inserts.
3. An abstract specification of a target's lifecycle that `PublishPipeline`
   implements.
4. Livestreams, import batches and content packages.

Not planned: provider HTTP adapters, media processing, rendering, the web
frontend, billing, analytics, and tables without a protocol of their own; most
of the repository's lines are of this kind. Hazards of unmodelled parts, and
hazards the code does not guard against, are listed in `PROJECT.json` with a
note.
