-------------------------- MODULE UploadJobsProofs --------------------------
(***************************************************************************)
(* The safety properties of UploadJobs, and that it implements LeasedWork, *)
(* for any jobs, processes, goroutines, budgets and faults.                *)
(***************************************************************************)
EXTENDS UploadJobs, FiniteSetTheorems, TLAPS

LEMMA IdleRunType == IdleRun \in Run /\ IdleRun.pc = "idle"
<1>1. (CHOOSE j \in Jobs : TRUE) \in Jobs
  BY UploadAssumption
<1>2. 0 \in 0..MaxAssets /\ 0 \in 0..MaxTime
  BY UploadAssumption
<1> QED BY <1>1, <1>2 DEF IdleRun, Run, Pools

\* What the columns of one row are.
LEMMA JobType ==
  ASSUME TypeOK, NEW j \in Jobs
  PROVE  /\ job[j] \in Job /\ job[j].att \in Nat /\ job[j].asset \in 0..MaxAssets
         /\ job[j].status \in JobStatuses /\ post[j] \in Post /\ reaps[j] \in Nat
BY DEF TypeOK, Job

LEMMA SlotType ==
  ASSUME TypeOK, NEW s \in Slots
  PROVE  /\ run[s] \in Run /\ run[s].job \in Jobs /\ run[s].pool \in Pools /\ run[s].att \in Nat
         /\ run[s].asset \in 0..MaxAssets /\ run[s].at \in 0..MaxTime
         /\ <<Home[s], run[s].pool>> \in WorkerIDs
<1>1. run[s] \in Run
  BY DEF TypeOK
<1> QED BY <1>1, UploadAssumption DEF Run, WorkerIDs

-----------------------------------------------------------------------------
(* What the steps write.                                                   *)

\* One row changes.
Writes(j, x) == x \in Job /\ job' = [job EXCEPT ![j] = x]

LEMMA WritesType ==
  ASSUME TypeOK, NEW j \in Jobs, NEW x, Writes(j, x)
  PROVE  job' \in [Jobs -> Job] /\ job'[j] = x /\ \A i \in Jobs \ {j} : job'[i] = job[i]
BY DEF Writes, TypeOK

\* The users, the producers and the reaper write one row that no goroutine's
\* counter knows of.
LEMMA TableStep ==
  ASSUME TypeOK, NEW j \in Jobs, NEW at \in 0..MaxTime,
         \/ CreateUploadJob(j, at) \/ HandleRescheduleUpload(j, at)
         \/ HandleCancelUpload(j) \/ Reclaim(j)
  PROVE  /\ \E x : Writes(j, x) /\ x.att = job[j].att /\ x.asset = job[j].asset
                   /\ \/ job[j].status = "absent" /\ x.status = "pending" /\ x.owner = job[j].owner
                         /\ reaps' = reaps
                      \/ /\ job[j].status = "pending" /\ x.status \in {"pending", "cancelled"}
                         /\ x.owner = job[j].owner /\ reaps' = reaps
                      \/ /\ job[j].status = "leased" /\ x.status = "pending" /\ x.owner = NoOne
                         /\ reaps' = [reaps EXCEPT ![j] = @ + 1]
         /\ UNCHANGED <<asset, post, run, up, now>>
<1>1. job[j] \in Job
  BY JobType
<1>2. CASE CreateUploadJob(j, at)
  <2> DEFINE x == [job[j] EXCEPT !.status = "pending", !.at = at]
  <2>1. x \in Job
    BY <1>1 DEF Job, JobStatuses, AtRest
  <2>2. job' = [job EXCEPT ![j] = x]
    BY <1>1, <1>2 DEF CreateUploadJob, TypeOK, Job
  <2>3. /\ x.status = "pending" /\ x.owner = job[j].owner /\ x.att = job[j].att
        /\ x.asset = job[j].asset
    BY <1>1 DEF Job
  <2> HIDE DEF x
  <2> QED BY <1>2, <2>1, <2>2, <2>3 DEF CreateUploadJob, Writes
<1>3. CASE HandleRescheduleUpload(j, at)
  <2> DEFINE x == [job[j] EXCEPT !.at = at]
  <2>1. x \in Job
    BY <1>1 DEF Job
  <2>2. job' = [job EXCEPT ![j] = x]
    BY <1>1, <1>3 DEF HandleRescheduleUpload, Reschedule, TypeOK, Job
  <2>3. /\ x.status = job[j].status /\ x.owner = job[j].owner /\ x.att = job[j].att
        /\ x.asset = job[j].asset
    BY <1>1 DEF Job
  <2> HIDE DEF x
  <2> QED BY <1>3, <2>1, <2>2, <2>3 DEF HandleRescheduleUpload, Reschedule, Writes
<1>4. CASE HandleCancelUpload(j)
  <2> DEFINE x == [job[j] EXCEPT !.status = "cancelled"]
  <2>1. x \in Job
    BY <1>1 DEF Job, JobStatuses, Settled
  <2>2. job' = [job EXCEPT ![j] = x]
    BY <1>1, <1>4 DEF HandleCancelUpload, Cancel, TypeOK, Job
  <2>3. /\ x.status = "cancelled" /\ x.owner = job[j].owner /\ x.att = job[j].att
        /\ x.asset = job[j].asset
    BY <1>1 DEF Job
  <2> HIDE DEF x
  <2> QED BY <1>4, <2>1, <2>2, <2>3 DEF HandleCancelUpload, Cancel, Writes
<1>5. CASE Reclaim(j)
  <2> DEFINE x == [job[j] EXCEPT !.status = "pending", !.owner = NoOne]
  <2>1. x \in Job
    BY <1>1 DEF Job, JobStatuses, AtRest
  <2>2. job' = [job EXCEPT ![j] = x]
    BY <1>1, <1>5 DEF Reclaim, TypeOK, Job
  <2>3. /\ x.status = "pending" /\ x.owner = NoOne /\ x.att = job[j].att
        /\ x.asset = job[j].asset
    BY <1>1 DEF Job
  <2> HIDE DEF x
  <2> QED BY <1>5, <2>1, <2>2, <2>3 DEF Reclaim, LeaseRanOut, Writes
<1> QED BY <1>2, <1>3, <1>4, <1>5

LEMMA ClaimStep ==
  ASSUME TypeOK, NEW s \in Slots, NEW j \in Jobs, NEW pool \in Pools, Claim(s, j, pool)
  PROVE  /\ \E x : /\ Writes(j, x) /\ x.status = "leased" /\ x.owner = <<Home[s], pool>>
                   /\ x.att = job[j].att + 1 /\ x.asset = job[j].asset
         /\ <<Home[s], pool>> \in WorkerIDs
         /\ run' \in [Slots -> Run] /\ run[s].pc = "idle"
         /\ run'[s].pc = "wait" /\ run'[s].job = j /\ run'[s].pool = pool
         /\ run'[s].att = job[j].att + 1 /\ run'[s].asset = job[j].asset
         /\ \A t \in Slots \ {s} : run'[t] = run[t]
         /\ UNCHANGED <<asset, post, up, now, reaps>>
<1> DEFINE x == [job[j] EXCEPT !.status = "leased", !.owner = <<Home[s], pool>>,
                               !.att = job[j].att + 1]
<1>1. job[j] \in Job /\ job[j].att + 1 \in Nat /\ <<Home[s], pool>> \in WorkerIDs
  BY JobType, UploadAssumption DEF WorkerIDs
<1>2. x \in Job
  BY <1>1 DEF Job, JobStatuses
<1>3. job' = [job EXCEPT ![j] = x]
  BY <1>1 DEF Claim, TypeOK, Job
<1>4. /\ x.status = "leased" /\ x.owner = <<Home[s], pool>> /\ x.att = job[j].att + 1
      /\ x.asset = job[j].asset
  BY <1>1 DEF Job
<1> HIDE DEF x
<1>5. [pc |-> "wait", job |-> j, pool |-> pool, att |-> job[j].att + 1, asset |-> job[j].asset,
       at |-> job[j].at] \in Run
  BY <1>1 DEF Run, Job
<1>6. /\ run' \in [Slots -> Run] /\ run[s].pc = "idle"
      /\ run'[s].pc = "wait" /\ run'[s].job = j /\ run'[s].pool = pool
      /\ run'[s].att = job[j].att + 1 /\ run'[s].asset = job[j].asset
      /\ \A t \in Slots \ {s} : run'[t] = run[t]
  BY <1>5 DEF Claim, TypeOK
<1> QED BY <1>1, <1>2, <1>3, <1>4, <1>6 DEF Claim, Writes

\* A Mark* of an owner writes his row, that of anyone else nothing.
LEMMA MarkStep ==
  ASSUME TypeOK, NEW s \in Slots, NEW status \in JobStatuses, NEW a \in 0..MaxAssets,
         Mark(s, status, a), NEW j \in Jobs, run[s].job = j
  PROVE  /\ \/ job' = job
            \/ /\ Owns(s)
               /\ \E x : /\ Writes(j, x) /\ x.status = status /\ x.owner = NoOne
                         /\ x.att = job[j].att /\ x.asset = a
         /\ run' \in [Slots -> Run] /\ run'[s].pc = "idle"
         /\ \A t \in Slots \ {s} : run'[t] = run[t]
<1> DEFINE x == [job[j] EXCEPT !.status = status, !.owner = NoOne, !.asset = a]
<1>1. job[j] \in Job
  BY JobType
<1>2. x \in Job
  BY <1>1 DEF Job
<1>3. Owns(s) => job' = [job EXCEPT ![j] = x]
  BY <1>1 DEF Mark, TypeOK, Job
<1>4. x.status = status /\ x.owner = NoOne /\ x.att = job[j].att /\ x.asset = a
  BY <1>1 DEF Job
<1> HIDE DEF x
<1>5. ~Owns(s) => job' = job
  BY DEF Mark
<1>6. /\ run' \in [Slots -> Run] /\ run'[s].pc = "idle"
      /\ \A t \in Slots \ {s} : run'[t] = run[t]
  BY IdleRunType DEF Mark, TypeOK
<1> QED BY <1>2, <1>3, <1>4, <1>5, <1>6 DEF Writes

\* A goroutine moves on and keeps its claim.
LEMMA GoesOn ==
  ASSUME TypeOK, NEW s \in Slots, NEW from, NEW to \in {"open", "stored", "posted", "filled", "fired",
         "retry", "giveUp"}, Step(s, from, to)
  PROVE  /\ run' \in [Slots -> Run] /\ run[s].pc = from /\ run'[s].pc = to
         /\ run'[s].job = run[s].job /\ run'[s].pool = run[s].pool /\ run'[s].att = run[s].att
         /\ run'[s].asset = run[s].asset
         /\ \A t \in Slots \ {s} : run'[t] = run[t]
<1>1. run[s] \in Run
  BY SlotType
<1>2. [run[s] EXCEPT !.pc = to] \in Run
  BY <1>1 DEF Run
<1> QED BY <1>1, <1>2 DEF Step, TypeOK, Run

LEMMA StageStep ==
  ASSUME TypeOK, NEW s \in Slots, StageAsset(s), NEW j \in Jobs, run[s].job = j
  PROVE  /\ run' \in [Slots -> Run] /\ run[s].pc = "open" /\ run[s].pool = "ingest"
         /\ run'[s].pc = "staging" /\ run'[s].asset \in Assets
         /\ run'[s].job = run[s].job /\ run'[s].pool = run[s].pool /\ run'[s].att = run[s].att
         /\ \A t \in Slots \ {s} : run'[t] = run[t]
         /\ asset' \in [Jobs -> [Assets -> {"none", "unready", "ready"}]]
         /\ \A i \in Jobs, a \in Assets : asset[i][a] = "ready" => asset'[i][a] = "ready"
<1>1. run[s] \in Run
  BY SlotType
<1>2. PICK a \in Assets : /\ asset[j][a] = "none" /\ asset' = [asset EXCEPT ![j][a] = "unready"]
                          /\ run' = [run EXCEPT ![s].pc = "staging", ![s].asset = a]
  BY DEF StageAsset
<1>3. a \in 0..MaxAssets
  BY <1>2, UploadAssumption DEF Assets
<1>4. [run[s] EXCEPT !.pc = "staging", !.asset = a] \in Run
  BY <1>1, <1>3 DEF Run
<1>5. /\ run' \in [Slots -> Run] /\ run'[s].pc = "staging" /\ run'[s].asset = a
      /\ run'[s].job = run[s].job /\ run'[s].pool = run[s].pool /\ run'[s].att = run[s].att
      /\ \A t \in Slots \ {s} : run'[t] = run[t]
  BY <1>1, <1>2, <1>4 DEF TypeOK, Run
<1>6. asset[j] \in [Assets -> {"none", "unready", "ready"}]
  BY DEF TypeOK
<1>7. [asset[j] EXCEPT ![a] = "unready"] \in [Assets -> {"none", "unready", "ready"}]
  BY <1>6
<1>8. asset' = [asset EXCEPT ![j] = [asset[j] EXCEPT ![a] = "unready"]]
  BY <1>2, <1>6 DEF TypeOK
<1>9. asset' \in [Jobs -> [Assets -> {"none", "unready", "ready"}]]
  BY <1>7, <1>8 DEF TypeOK
<1>10. \A i \in Jobs, b \in Assets : asset[i][b] = "ready" => asset'[i][b] = "ready"
  BY <1>2, <1>6, <1>8 DEF TypeOK
<1> QED BY <1>2, <1>5, <1>9, <1>10 DEF StageAsset

LEMMA StoreStep ==
  ASSUME TypeOK, NEW s \in Slots, StoreAsset(s), NEW j \in Jobs, run[s].job = j,
         NEW b \in Assets, run[s].asset = b
  PROVE  /\ asset' \in [Jobs -> [Assets -> {"none", "unready", "ready"}]]
         /\ asset'[j][b] = "ready"
         /\ \A i \in Jobs, a \in Assets : asset[i][a] = "ready" => asset'[i][a] = "ready"
<1>1. asset[j] \in [Assets -> {"none", "unready", "ready"}]
  BY DEF TypeOK
<1>2. asset' = [asset EXCEPT ![j] = [asset[j] EXCEPT ![b] = "ready"]]
  BY <1>1 DEF StoreAsset, TypeOK
<1> QED BY <1>1, <1>2 DEF TypeOK

LEMMA CreatePostStep ==
  ASSUME TypeOK, NEW s \in Slots, CreatePost(s), NEW j \in Jobs, run[s].job = j
  PROVE  /\ post' \in [Jobs -> Post] /\ \A i \in Jobs \ {j} : post'[i] = post[i]
         /\ post[j] # NoPost => post'[j] = post[j]
         /\ post[j] = NoPost => post'[j].asset = run[s].asset /\ ~post'[j].filled
<1> DEFINE x == [NoPost EXCEPT !.asset = run[s].asset, !.at = run[s].at]
<1>1. NoPost \in Post /\ ~NoPost.filled
  BY UploadAssumption DEF NoPost, Post
<1>2. x \in Post /\ x.asset = run[s].asset /\ ~x.filled
  BY <1>1, SlotType DEF Post
<1>3. CASE post[j] = NoPost
  <2>1. post' = [post EXCEPT ![j] = x]
    BY <1>3 DEF CreatePost
  <2> HIDE DEF x
  <2> QED BY <1>2, <1>3, <2>1 DEF TypeOK
<1>4. CASE post[j] # NoPost
  BY <1>4 DEF CreatePost, TypeOK
<1> QED BY <1>3, <1>4

LEMMA FillStep ==
  ASSUME TypeOK, NEW s \in Slots, MaterializeDeliveries(s), NEW j \in Jobs, run[s].job = j
  PROVE  /\ post' \in [Jobs -> Post] /\ \A i \in Jobs \ {j} : post'[i] = post[i]
         /\ post'[j].filled /\ post'[j].asset = post[j].asset
<1>1. post[j] \in Post
  BY JobType
<1>2. [post[j] EXCEPT !.filled = TRUE] \in Post
  BY <1>1 DEF Post
<1> QED BY <1>1, <1>2 DEF MaterializeDeliveries, TypeOK, Post

-----------------------------------------------------------------------------
(* The invariant.                                                          *)

Ready(j, a) == a # 0 /\ asset[j][a] = "ready"

\* A goroutine works on row j, whether or not the row is still its own.
Live(s, j) == run[s].pc # "idle" /\ run[s].job = j
Busy(j) == {s \in Slots : Live(s, j)}

\* Those that may put the row back although nobody took it from them.
Fresh(j) == {s \in Slots : Live(s, j) /\ run[s].att < MaxAttempts}

\* lease_owner names the upload pool.
Uploading(j) == job[j].status = "leased" /\ job[j].owner[2] = "upload"

\* An asset_id names verified bytes, wherever it stands.
TableInv(j) ==
  /\ job[j].status = "absent" => job[j].att = 0
  /\ IF job[j].status = "leased" THEN job[j].owner \in WorkerIDs ELSE job[j].owner = NoOne
  /\ job[j].asset # 0 => Ready(j, job[j].asset)
  /\ job[j].status = "ingest_completed" \/ Uploading(j) => job[j].asset # 0
  /\ job[j].status \in {"publish_scheduled", "publish_completed"} => post[j].filled

PostInv(j) == post[j] # NoPost => Ready(j, post[j].asset)

\* What a goroutine relies on when it goes on.
RunInv(s) ==
  run[s].pc # "idle" =>
    /\ run[s].pool = "upload" \/ run[s].pc = "stored" => Ready(run[s].job, run[s].asset)
    /\ run[s].pc \in {"staging", "stored"} => run[s].pool = "ingest" /\ run[s].asset \in Assets
    /\ run[s].pc \in {"posted", "filled", "fired"} =>
         run[s].pool = "upload" /\ post[run[s].job] # NoPost
    /\ run[s].pc \in {"filled", "fired"} => post[run[s].job].filled

\* The claims that a row may still see before another lease is lost and without
\* a retry: ingest, then publish.
Ahead(j) ==
  IF job[j].status = "pending" THEN 2
  ELSE IF job[j].status = "retry_wait" THEN (IF job[j].asset = 0 THEN 2 ELSE 1)
  ELSE IF job[j].status = "ingest_completed" THEN 1
  ELSE IF job[j].status = "leased" /\ ~Uploading(j) THEN 1
  ELSE 0

\* Goroutines pile up on a row only when its lease is lost, and from the last
\* attempt on each claim is paid for by a lease loss.
CountInv(j) ==
  /\ IsFiniteSet(Busy(j)) /\ IsFiniteSet(Fresh(j))
  /\ Cardinality(Busy(j)) <= reaps[j] + (IF job[j].status = "leased" THEN 1 ELSE 0)
  /\ job[j].att >= MaxAttempts =>
       job[j].att + Ahead(j) + Cardinality(Fresh(j)) <= MaxAttempts + 1 + 2 * reaps[j]

RowInv(j) == TableInv(j) /\ PostInv(j) /\ CountInv(j)

UploadInv ==
  /\ TypeOK
  /\ \A j \in Jobs : RowInv(j)
  /\ \A s \in Slots : RunInv(s)

LEMMA UploadInit == Init => UploadInv
<1> SUFFICES ASSUME Init PROVE UploadInv
  OBVIOUS
<1>1. 0 \in 0..MaxAssets /\ 0 \in 0..MaxTime
  BY UploadAssumption
<1>2. [status |-> "absent", owner |-> NoOne, asset |-> 0, att |-> 0, at |-> 0] \in Job
  BY <1>1 DEF Job, JobStatuses
<1>3. NoPost \in Post
  BY <1>1 DEF NoPost, Post
<1>4. TypeOK
  BY <1>1, <1>2, <1>3, IdleRunType DEF Init, TypeOK
<1>5. ASSUME NEW j \in Jobs PROVE RowInv(j)
  <2>1. job[j].status = "absent" /\ job[j].owner = NoOne /\ job[j].asset = 0 /\ job[j].att = 0
    BY DEF Init
  <2>2. TableInv(j) /\ PostInv(j)
    BY <2>1 DEF TableInv, Uploading, PostInv, Init
  <2>3. Busy(j) = {} /\ Fresh(j) = {}
    BY IdleRunType DEF Busy, Fresh, Live, Init
  <2>4. CountInv(j)
    BY <2>1, <2>3, FS_EmptySet, UploadAssumption DEF CountInv, Init
  <2> QED BY <2>2, <2>4 DEF RowInv
<1>6. \A s \in Slots : RunInv(s)
  BY IdleRunType DEF Init, RunInv
<1> QED BY <1>4, <1>5, <1>6 DEF UploadInv

LEMMA Fewer ==
  ASSUME NEW S, NEW T, IsFiniteSet(S), T \subseteq S
  PROVE  /\ IsFiniteSet(T) /\ Cardinality(T) \in Nat /\ Cardinality(S) \in Nat
         /\ Cardinality(T) <= Cardinality(S)
         /\ \A x \in S \ T : Cardinality(T) + 1 <= Cardinality(S)
<1>1. IsFiniteSet(T) /\ Cardinality(T) \in Nat /\ Cardinality(S) \in Nat
      /\ Cardinality(T) <= Cardinality(S)
  BY FS_Subset, FS_CardinalityType
<1>2. ASSUME NEW x \in S \ T PROVE Cardinality(T) + 1 <= Cardinality(S)
  <2>1. T \subseteq S \ {x}
    BY <1>2
  <2>2. IsFiniteSet(S \ {x}) /\ Cardinality(S \ {x}) = Cardinality(S) - 1
    BY <1>2, FS_RemoveElement
  <2>3. Cardinality(T) <= Cardinality(S \ {x})
    BY <2>1, <2>2, FS_Subset
  <2> QED BY <1>1, <2>2, <2>3
<1> QED BY <1>1, <1>2

LEMMA CountTypes ==
  ASSUME UploadInv, NEW j \in Jobs
  PROVE  /\ TypeOK /\ TableInv(j) /\ PostInv(j) /\ CountInv(j)
         /\ job[j] \in Job /\ job[j].att \in Nat /\ reaps[j] \in Nat
         /\ Cardinality(Busy(j)) \in Nat /\ Cardinality(Fresh(j)) \in Nat
         /\ Ahead(j) \in 0..2 /\ MaxAttempts \in Nat /\ MaxAttempts >= 1
<1>1. TypeOK /\ TableInv(j) /\ PostInv(j) /\ CountInv(j)
  BY DEF UploadInv, RowInv
<1>2. Cardinality(Busy(j)) \in Nat /\ Cardinality(Fresh(j)) \in Nat
  BY <1>1, FS_CardinalityType DEF CountInv
<1>3. Ahead(j) \in 0..2
  BY DEF Ahead
<1> QED BY <1>1, <1>2, <1>3, JobType, UploadAssumption

-----------------------------------------------------------------------------
(* What steps that leave a part alone preserve.                            *)

\* Verified bytes, posts and delivery rows never go.
Grows ==
  /\ \A j \in Jobs, a \in 0..MaxAssets : Ready(j, a) => Ready(j, a)'
  /\ \A j \in Jobs : post[j] # NoPost => post'[j] # NoPost
  /\ \A j \in Jobs : post[j].filled => post'[j].filled

LEMMA SameGrows == ASSUME UNCHANGED <<asset, post>> PROVE Grows
BY DEF Grows, Ready

LEMMA RunKept ==
  ASSUME UploadInv, Grows, NEW t \in Slots, run'[t] = run[t]
  PROVE  RunInv(t)'
<1>1. RunInv(t) /\ TypeOK
  BY DEF UploadInv
<1>2. run[t].job \in Jobs /\ run[t].asset \in 0..MaxAssets
  BY <1>1, SlotType
<1> QED BY <1>1, <1>2 DEF RunInv, Grows

LEMMA RestInv == ASSUME NEW t \in Slots, run'[t].pc = "idle" PROVE RunInv(t)'
BY DEF RunInv

LEMMA TableKept ==
  ASSUME UploadInv, Grows, NEW j \in Jobs, job'[j] = job[j]
  PROVE  TableInv(j)'
<1>1. TableInv(j) /\ TypeOK /\ job[j].asset \in 0..MaxAssets
  BY JobType DEF UploadInv, RowInv
<1> QED BY <1>1 DEF TableInv, Uploading, Grows

LEMMA PostKept ==
  ASSUME UploadInv, Grows, NEW j \in Jobs, post'[j] = post[j]
  PROVE  PostInv(j)'
<1>1. PostInv(j) /\ TypeOK /\ post[j] \in Post
  BY JobType DEF UploadInv, RowInv
<1>2. post[j].asset \in 0..MaxAssets
  BY <1>1 DEF Post
<1> QED BY <1>1, <1>2 DEF PostInv, Grows

\* No goroutine takes a row: each goes on with its claim, or rests.
Quiet ==
  \A t \in Slots : run'[t].pc # "idle" =>
    run[t].pc # "idle" /\ run'[t].job = run[t].job /\ run'[t].att = run[t].att

LEMMA QuietCounts ==
  ASSUME UploadInv, Quiet, NEW j \in Jobs
  PROVE  /\ IsFiniteSet(Busy(j)') /\ IsFiniteSet(Fresh(j)')
         /\ Cardinality(Busy(j)') \in Nat /\ Cardinality(Fresh(j)') \in Nat
         /\ Cardinality(Busy(j)') <= Cardinality(Busy(j))
         /\ Cardinality(Fresh(j)') <= Cardinality(Fresh(j))
         /\ \A s \in Slots : Live(s, j) /\ ~Live(s, j)' =>
              /\ Cardinality(Busy(j)') + 1 <= Cardinality(Busy(j))
              /\ run[s].att < MaxAttempts => Cardinality(Fresh(j)') + 1 <= Cardinality(Fresh(j))
<1>1. Busy(j)' \subseteq Busy(j) /\ Fresh(j)' \subseteq Fresh(j)
  BY DEF Quiet, Busy, Fresh, Live
<1>2. IsFiniteSet(Busy(j)) /\ IsFiniteSet(Fresh(j))
  BY CountTypes DEF CountInv
<1>3. ASSUME NEW s \in Slots, Live(s, j), ~Live(s, j)'
      PROVE  /\ s \in Busy(j) \ Busy(j)'
             /\ run[s].att < MaxAttempts => s \in Fresh(j) \ Fresh(j)'
  BY <1>3 DEF Busy, Fresh
<1>4. /\ IsFiniteSet(Busy(j)') /\ Cardinality(Busy(j)') \in Nat
      /\ Cardinality(Busy(j)') <= Cardinality(Busy(j))
      /\ \A s \in Busy(j) \ Busy(j)' : Cardinality(Busy(j)') + 1 <= Cardinality(Busy(j))
  BY <1>1, <1>2, Fewer
<1>5. /\ IsFiniteSet(Fresh(j)') /\ Cardinality(Fresh(j)') \in Nat
      /\ Cardinality(Fresh(j)') <= Cardinality(Fresh(j))
      /\ \A s \in Fresh(j) \ Fresh(j)' : Cardinality(Fresh(j)') + 1 <= Cardinality(Fresh(j))
  BY <1>1, <1>2, Fewer
<1> QED BY <1>3, <1>4, <1>5

LEMMA CountKept ==
  ASSUME UploadInv, Quiet, NEW j \in Jobs, job'[j] = job[j], reaps'[j] = reaps[j]
  PROVE  CountInv(j)'
<1>1. Ahead(j)' = Ahead(j)
  BY DEF Ahead, Uploading
<1> QED BY <1>1, QuietCounts, CountTypes DEF CountInv

\* A step of the goroutines that writes no row.
LEMMA RowsKept ==
  ASSUME UploadInv, Grows, Quiet, UNCHANGED <<job, reaps>>, TypeOK',
         \A j \in Jobs : PostInv(j)', \A s \in Slots : RunInv(s)'
  PROVE  UploadInv'
<1>1. \A j \in Jobs : RowInv(j)'
  BY TableKept, CountKept DEF RowInv
<1> QED BY <1>1 DEF UploadInv

-----------------------------------------------------------------------------
(* The steps.                                                              *)

LEMMA TableKeeps ==
  ASSUME UploadInv, NEW j \in Jobs, NEW at \in 0..MaxTime,
         \/ CreateUploadJob(j, at) \/ HandleRescheduleUpload(j, at)
         \/ HandleCancelUpload(j) \/ Reclaim(j)
  PROVE  UploadInv'
<1>1. TypeOK /\ UNCHANGED <<asset, post, run, up, now>>
  BY TableStep DEF UploadInv
<1>2. PICK x : /\ Writes(j, x) /\ x.att = job[j].att /\ x.asset = job[j].asset
               /\ \/ job[j].status = "absent" /\ x.status = "pending" /\ x.owner = job[j].owner
                     /\ reaps' = reaps
                  \/ /\ job[j].status = "pending" /\ x.status \in {"pending", "cancelled"}
                     /\ x.owner = job[j].owner /\ reaps' = reaps
                  \/ /\ job[j].status = "leased" /\ x.status = "pending" /\ x.owner = NoOne
                     /\ reaps' = [reaps EXCEPT ![j] = @ + 1]
  BY <1>1, TableStep
<1>3. job' \in [Jobs -> Job] /\ job'[j] = x /\ \A i \in Jobs \ {j} : job'[i] = job[i]
  BY <1>1, <1>2, WritesType
<1>4. /\ reaps' \in [Jobs -> Nat] /\ \A i \in Jobs \ {j} : reaps'[i] = reaps[i]
      /\ reaps'[j] = reaps[j] \/ (job[j].status = "leased" /\ reaps'[j] = reaps[j] + 1)
  BY <1>1, <1>2 DEF TypeOK
<1>5. TypeOK' /\ Grows /\ Quiet
  BY <1>1, <1>3, <1>4, SameGrows DEF TypeOK, Quiet
<1>6. \A s \in Slots : RunInv(s)'
  BY <1>1, <1>5, RunKept
<1>7. \A i \in Jobs : PostInv(i)'
  BY <1>1, <1>5, PostKept
<1>8. \A i \in Jobs \ {j} : TableInv(i)' /\ CountInv(i)'
  BY <1>3, <1>4, <1>5, TableKept, CountKept
<1>9. TableInv(j)'
  BY <1>1, <1>2, <1>3, CountTypes DEF TableInv, Uploading, Ready
<1>10. CountInv(j)'
  <2>1. Busy(j)' = Busy(j) /\ Fresh(j)' = Fresh(j)
    BY <1>1 DEF Busy, Fresh, Live
  <2>2. CASE job[j].status = "absent"
    BY <1>2, <1>3, <1>4, <2>1, <2>2, CountTypes DEF CountInv, TableInv
  <2>3. CASE job[j].status = "pending"
    <3>1. Ahead(j) = 2 /\ Ahead(j)' \in 0..2
      BY <2>3 DEF Ahead
    <3> QED BY <1>2, <1>3, <1>4, <2>1, <2>3, <3>1, CountTypes DEF CountInv
  <2>4. CASE job[j].status = "leased"
    <3>1. Ahead(j)' = 2 /\ reaps'[j] = reaps[j] + 1
      BY <1>1, <1>2, <1>3, <2>4 DEF Ahead, TypeOK
    <3> QED BY <1>2, <1>3, <2>1, <2>4, <3>1, CountTypes DEF CountInv
  <2> QED BY <1>2, <2>2, <2>3, <2>4
<1> QED BY <1>5, <1>6, <1>7, <1>8, <1>9, <1>10 DEF UploadInv, RowInv

LEMMA ClaimKeeps ==
  ASSUME UploadInv, NEW s \in Slots, NEW j \in Jobs, NEW pool \in Pools, Claim(s, j, pool)
  PROVE  UploadInv'
<1>1. TypeOK /\ UNCHANGED <<asset, post, up, now, reaps>> /\ <<Home[s], pool>> \in WorkerIDs
  BY ClaimStep DEF UploadInv
<1>2. PICK x : /\ Writes(j, x) /\ x.status = "leased" /\ x.owner = <<Home[s], pool>>
               /\ x.att = job[j].att + 1 /\ x.asset = job[j].asset
  BY <1>1, ClaimStep
<1>3. job' \in [Jobs -> Job] /\ job'[j] = x /\ \A i \in Jobs \ {j} : job'[i] = job[i]
  BY <1>1, <1>2, WritesType
<1>4. /\ run' \in [Slots -> Run] /\ run[s].pc = "idle"
      /\ run'[s].pc = "wait" /\ run'[s].job = j /\ run'[s].pool = pool
      /\ run'[s].att = job[j].att + 1 /\ run'[s].asset = job[j].asset
      /\ \A t \in Slots \ {s} : run'[t] = run[t]
  BY <1>1, ClaimStep
<1>5. TypeOK' /\ Grows
  BY <1>1, <1>3, <1>4, SameGrows DEF TypeOK
<1>6. pool = "upload" => job[j].asset # 0
  BY CountTypes DEF Claim, Claimable, TableInv
<1>7. RunInv(s)'
  <2>1. pool = "upload" => asset'[j][run'[s].asset] = "ready" /\ run'[s].asset # 0
    BY <1>1, <1>4, <1>6, CountTypes DEF TableInv, Ready
  <2> QED BY <1>4, <2>1 DEF RunInv, Ready
<1>8. \A t \in Slots : RunInv(t)'
  BY <1>4, <1>5, <1>7, RunKept
<1>9. \A i \in Jobs : PostInv(i)'
  BY <1>1, <1>5, PostKept
<1>10. \A i \in Jobs \ {j} : TableInv(i)' /\ CountInv(i)'
  <2> TAKE i \in Jobs \ {j}
  <2>1. Busy(i)' = Busy(i) /\ Fresh(i)' = Fresh(i)
    BY <1>4 DEF Busy, Fresh, Live
  <2>2. Ahead(i)' = Ahead(i)
    BY <1>3 DEF Ahead, Uploading
  <2> QED BY <1>1, <1>3, <1>5, <2>1, <2>2, TableKept, CountTypes DEF CountInv
<1>11. TableInv(j)'
  BY <1>1, <1>2, <1>3, <1>6, CountTypes DEF TableInv, Uploading, Ready
<1>12. CountInv(j)'
  <2>1. Busy(j)' = Busy(j) \cup {s} /\ s \notin Busy(j)
    BY <1>4 DEF Busy, Live
  <2>2. IsFiniteSet(Busy(j)') /\ Cardinality(Busy(j)') = Cardinality(Busy(j)) + 1
    BY <2>1, CountTypes, FS_AddElement DEF CountInv
  <2>3. Cardinality(Busy(j)) <= reaps[j] /\ job[j].status # "leased"
    BY CountTypes DEF CountInv, Claim, Claimable
  <2>4. Fresh(j)' \subseteq Busy(j)' /\ Fresh(j) \subseteq Busy(j)
    BY DEF Fresh, Busy
  <2>5. IsFiniteSet(Fresh(j)') /\ Cardinality(Fresh(j)) <= Cardinality(Busy(j))
    BY <2>2, <2>4, CountTypes, FS_Subset DEF CountInv
  <2>6. ASSUME job'[j].att >= MaxAttempts PROVE Fresh(j)' = Fresh(j)
    <3>1. ~(run'[s].att < MaxAttempts) /\ ~Live(s, j)
      BY <1>2, <1>3, <1>4, <2>6, CountTypes DEF Live
    <3> QED BY <1>4, <3>1 DEF Fresh, Live
  <2>7. Ahead(j)' = IF pool = "upload" THEN 0 ELSE 1
    BY <1>2, <1>3 DEF Ahead, Uploading
  <2>8. Ahead(j) = IF pool = "upload" THEN 1 ELSE 2
    BY CountTypes DEF Ahead, Claim, Claimable, Pools, TableInv
  <2>9. ASSUME job'[j].att >= MaxAttempts
        PROVE  job'[j].att + Ahead(j)' + Cardinality(Fresh(j)') <= MaxAttempts + 1 + 2 * reaps'[j]
    <3>1. CASE job[j].att >= MaxAttempts
      BY <1>1, <1>2, <1>3, <2>6, <2>7, <2>8, <2>9, <3>1, CountTypes DEF CountInv
    <3>2. CASE job[j].att < MaxAttempts
      <4>1. job'[j].att = MaxAttempts
        BY <1>2, <1>3, <2>9, <3>2, CountTypes
      <4> QED BY <1>1, <2>3, <2>5, <2>6, <2>7, <2>9, <4>1, CountTypes
    <3> QED BY <3>1, <3>2, CountTypes
  <2> QED BY <1>1, <1>2, <1>3, <2>2, <2>3, <2>5, <2>9, CountTypes DEF CountInv
<1> QED BY <1>5, <1>8, <1>9, <1>10, <1>11, <1>12 DEF UploadInv, RowInv

\* A Mark*: what it may write.  A late one of the same pool, whose row is held by
\* another goroutine under the same lease_owner, writes too.
LEMMA MarkKeeps ==
  ASSUME UploadInv, NEW s \in Slots, NEW j \in Jobs, run[s].job = j, run[s].pc # "idle",
         NEW status \in {"retry_wait", "ingest_completed"} \cup Settled, NEW a \in 0..MaxAssets,
         Mark(s, status, a), UNCHANGED <<asset, post, up, now, reaps>>,
         a # 0 => Ready(j, a),
         status = "ingest_completed" => a # 0 /\ run[s].pool = "ingest",
         status = "retry_wait" => run[s].att < MaxAttempts /\ a = job[j].asset,
         status \in {"publish_scheduled", "publish_completed"} => post[j].filled
  PROVE  UploadInv'
<1>1. TypeOK /\ status \in JobStatuses /\ status \notin {"leased", "absent", "pending"}
  BY DEF UploadInv, JobStatuses, AtRest, Settled
<1>2. /\ run' \in [Slots -> Run] /\ run'[s].pc = "idle"
      /\ \A t \in Slots \ {s} : run'[t] = run[t]
  BY <1>1, MarkStep
<1>3. Grows /\ Quiet
  BY <1>2, SameGrows DEF Quiet
<1>4. \A t \in Slots : RunInv(t)'
  BY <1>2, <1>3, RunKept, RestInv
<1>5. \A i \in Jobs : PostInv(i)'
  BY <1>3, PostKept
<1>6. CASE job' = job
  <2>1. TypeOK'
    BY <1>1, <1>2, <1>6 DEF TypeOK
  <2> QED BY <1>3, <1>4, <1>5, <1>6, <2>1, RowsKept
<1>7. CASE job' # job
  <2>1. Owns(s)
    BY <1>1, <1>7, MarkStep
  <2>2. PICK x : /\ Writes(j, x) /\ x.status = status /\ x.owner = NoOne
                 /\ x.att = job[j].att /\ x.asset = a
    BY <1>1, <1>7, MarkStep
  <2>3. job' \in [Jobs -> Job] /\ job'[j] = x /\ \A i \in Jobs \ {j} : job'[i] = job[i]
    BY <1>1, <2>2, WritesType
  <2>4. TypeOK'
    BY <1>1, <1>2, <2>3 DEF TypeOK
  <2>5. \A i \in Jobs \ {j} : TableInv(i)' /\ CountInv(i)'
    BY <1>3, <2>3, TableKept, CountKept
  <2>6. TableInv(j)'
    BY <1>1, <2>2, <2>3 DEF TableInv, Uploading, Ready
  <2>7. job[j].status = "leased" /\ job[j].owner = <<Home[s], run[s].pool>>
    BY <2>1 DEF Owns
  <2>8. Live(s, j) /\ ~Live(s, j)'
    BY <1>2 DEF Live
  <2>9. /\ IsFiniteSet(Busy(j)') /\ IsFiniteSet(Fresh(j)')
        /\ Cardinality(Busy(j)') \in Nat /\ Cardinality(Fresh(j)') \in Nat
        /\ Cardinality(Busy(j)') + 1 <= Cardinality(Busy(j))
        /\ Cardinality(Fresh(j)') <= Cardinality(Fresh(j))
        /\ run[s].att < MaxAttempts => Cardinality(Fresh(j)') + 1 <= Cardinality(Fresh(j))
    BY <1>3, <2>8, QuietCounts
  <2>10. Ahead(j)' + Cardinality(Fresh(j)') <= Ahead(j) + Cardinality(Fresh(j)) /\ Ahead(j)' \in 0..2
    <3>1. CASE status \in Settled
      <4>1. Ahead(j)' = 0
        BY <2>2, <2>3, <3>1 DEF Ahead, Uploading, Settled
      <4> QED BY <2>9, <4>1, CountTypes
    <3>2. CASE status = "ingest_completed"
      <4>1. Ahead(j)' = 1 /\ Ahead(j) = 1
        BY <2>2, <2>3, <2>7, <3>2 DEF Ahead, Uploading
      <4> QED BY <2>9, <4>1, CountTypes
    <3>3. CASE status = "retry_wait"
      <4>1. Ahead(j)' = (IF a = 0 THEN 2 ELSE 1) /\ (Uploading(j) => a # 0)
        BY <2>2, <2>3, <3>3, CountTypes DEF Ahead, TableInv
      <4>2. Ahead(j) = IF Uploading(j) THEN 0 ELSE 1
        BY <2>7 DEF Ahead
      <4> QED BY <2>9, <3>3, <4>1, <4>2, CountTypes
    <3> QED BY <3>1, <3>2, <3>3
  <2>11. CountInv(j)'
    BY <1>1, <2>2, <2>3, <2>7, <2>9, <2>10, CountTypes DEF CountInv
  <2> QED BY <1>4, <1>5, <2>4, <2>5, <2>6, <2>11 DEF UploadInv, RowInv
<1> QED BY <1>6, <1>7

LEMMA MarksKeep ==
  ASSUME UploadInv, NEW s \in Slots, MarkIngested(s) \/ MarkDone(s) \/ HandleProcessingError(s)
  PROVE  UploadInv'
<1>1. TypeOK /\ RunInv(s) /\ run[s] \in Run /\ run[s].att \in Nat /\ run[s].asset \in 0..MaxAssets
  BY SlotType DEF UploadInv
<1>2. PICK j \in Jobs : run[s].job = j
  BY <1>1, SlotType
<1>3. job[j].asset \in 0..MaxAssets /\ (job[j].asset # 0 => Ready(j, job[j].asset))
  BY <1>1, JobType, CountTypes DEF TableInv
<1>4. UNCHANGED <<asset, post, up, now, reaps>>
  BY DEF MarkIngested, MarkDone, HandleProcessingError
<1>5. CASE MarkIngested(s)
  <2>1. PICK a \in 0..MaxAssets : a = run[s].asset
    BY <1>1
  <2>2. Ready(j, a) /\ a # 0 /\ run[s].pool = "ingest" /\ run[s].pc # "idle"
    BY <1>1, <1>2, <1>5, <2>1 DEF RunInv, MarkIngested, Ready
  <2>3. Mark(s, "ingest_completed", a)
    BY <1>5, <2>1 DEF MarkIngested
  <2> QED BY <1>2, <1>4, <2>2, <2>3, MarkKeeps DEF Settled
<1>6. CASE MarkDone(s)
  <2>1. PICK a \in 0..MaxAssets : a = run[s].asset
    BY <1>1
  <2>2. Ready(j, a) /\ post[j].filled /\ run[s].pc # "idle"
    BY <1>1, <1>2, <1>6, <2>1 DEF RunInv, MarkDone
  <2>3. PICK st \in {"publish_scheduled", "publish_completed"} : Mark(s, st, a)
    BY <1>6, <2>1 DEF MarkDone
  <2>4. st \in Settled /\ st # "ingest_completed" /\ st # "retry_wait"
    BY DEF Settled
  <2> QED BY <1>2, <1>4, <2>2, <2>3, <2>4, MarkKeeps
<1>7. CASE HandleProcessingError(s)
  <2>1. PICK a \in 0..MaxAssets : a = job[j].asset
    BY <1>3
  <2>2. PICK st \in {"dead_letter", "retry_wait"} :
          Mark(s, st, a) /\ (st = "retry_wait" => run[s].att < MaxAttempts)
    BY <1>1, <1>2, <1>7, <2>1, UploadAssumption DEF HandleProcessingError
  <2>3. st \in {"retry_wait", "ingest_completed"} \cup Settled /\ st # "ingest_completed"
        /\ st \notin {"publish_scheduled", "publish_completed"} /\ run[s].pc # "idle"
    BY <1>7 DEF Settled, HandleProcessingError
  <2> QED BY <1>2, <1>3, <1>4, <2>1, <2>2, <2>3, MarkKeeps
<1> QED BY <1>5, <1>6, <1>7

\* A goroutine that goes on and changes nothing but its counter.
LEMMA StepKeeps ==
  ASSUME UploadInv, NEW s \in Slots, NEW from, NEW to \in {"open", "fired", "retry", "giveUp"},
         Step(s, from, to), from # "idle", to = "fired" => from = "filled",
         UNCHANGED <<job, asset, post, up, now, reaps>>
  PROVE  UploadInv'
<1>1. TypeOK /\ RunInv(s)
  BY DEF UploadInv
<1>2. /\ run' \in [Slots -> Run] /\ run[s].pc = from /\ run'[s].pc = to
      /\ run'[s].job = run[s].job /\ run'[s].pool = run[s].pool /\ run'[s].att = run[s].att
      /\ run'[s].asset = run[s].asset
      /\ \A t \in Slots \ {s} : run'[t] = run[t]
  BY <1>1, GoesOn
<1>3. Grows /\ Quiet /\ TypeOK'
  BY <1>1, <1>2, SameGrows DEF Quiet, TypeOK
<1>4. RunInv(s)'
  BY <1>1, <1>2 DEF RunInv, Ready
<1>5. \A t \in Slots : RunInv(t)'
  BY <1>2, <1>3, <1>4, RunKept
<1>6. \A i \in Jobs : PostInv(i)'
  BY <1>3, PostKept
<1> QED BY <1>3, <1>5, <1>6, RowsKept

LEMMA QuietSteps ==
  ASSUME UploadInv, NEW s \in Slots, Start(s) \/ StoreFails(s) \/ TriggerPublish(s) \/ StepFails(s)
  PROVE  UploadInv'
<1>1. PICK from \in {"wait", "staging", "filled", "open", "stored", "posted", "fired"},
           to \in {"open", "fired", "retry", "giveUp"} :
        Step(s, from, to) /\ (to = "fired" => from = "filled")
  BY DEF Start, StoreFails, TriggerPublish, StepFails
<1>2. UNCHANGED <<job, asset, post, up, now, reaps>>
  BY DEF Start, StoreFails, TriggerPublish, StepFails
<1> QED BY <1>1, <1>2, StepKeeps

LEMMA StageKeeps == ASSUME UploadInv, NEW s \in Slots, StageAsset(s) PROVE UploadInv'
<1>1. TypeOK /\ RunInv(s) /\ UNCHANGED <<job, post, up, now, reaps>>
  BY DEF UploadInv, StageAsset
<1>2. PICK j \in Jobs : run[s].job = j
  BY <1>1, SlotType
<1>3. /\ run' \in [Slots -> Run] /\ run[s].pc = "open" /\ run[s].pool = "ingest"
      /\ run'[s].pc = "staging" /\ run'[s].asset \in Assets
      /\ run'[s].job = run[s].job /\ run'[s].pool = run[s].pool /\ run'[s].att = run[s].att
      /\ \A t \in Slots \ {s} : run'[t] = run[t]
      /\ asset' \in [Jobs -> [Assets -> {"none", "unready", "ready"}]]
      /\ \A i \in Jobs, a \in Assets : asset[i][a] = "ready" => asset'[i][a] = "ready"
  BY <1>1, <1>2, StageStep
<1>4. \A a \in 0..MaxAssets : a # 0 => a \in Assets
  BY UploadAssumption DEF Assets
<1>5. Grows /\ Quiet /\ TypeOK'
  BY <1>1, <1>3, <1>4 DEF Grows, Quiet, TypeOK, Ready
<1>6. RunInv(s)'
  BY <1>3 DEF RunInv
<1>7. \A t \in Slots : RunInv(t)'
  BY <1>3, <1>5, <1>6, RunKept
<1>8. \A i \in Jobs : PostInv(i)'
  BY <1>1, <1>5, PostKept
<1> QED BY <1>1, <1>5, <1>7, <1>8, RowsKept

LEMMA StoreKeeps == ASSUME UploadInv, NEW s \in Slots, StoreAsset(s) PROVE UploadInv'
<1>1. TypeOK /\ RunInv(s) /\ UNCHANGED <<job, post, up, now, reaps>> /\ Step(s, "staging", "stored")
  BY DEF UploadInv, StoreAsset
<1>2. PICK j \in Jobs : run[s].job = j
  BY <1>1, SlotType
<1>3. /\ run' \in [Slots -> Run] /\ run[s].pc = "staging" /\ run'[s].pc = "stored"
      /\ run'[s].job = run[s].job /\ run'[s].pool = run[s].pool /\ run'[s].att = run[s].att
      /\ run'[s].asset = run[s].asset
      /\ \A t \in Slots \ {s} : run'[t] = run[t]
  BY <1>1, GoesOn
<1>4. PICK b \in Assets : run[s].asset = b
  BY <1>1, <1>3 DEF RunInv
<1>5. /\ asset' \in [Jobs -> [Assets -> {"none", "unready", "ready"}]] /\ asset'[j][b] = "ready"
      /\ \A i \in Jobs, a \in Assets : asset[i][a] = "ready" => asset'[i][a] = "ready"
  BY <1>1, <1>2, <1>4, StoreStep
<1>6. (\A a \in 0..MaxAssets : a # 0 => a \in Assets) /\ b # 0
  BY UploadAssumption DEF Assets
<1>7. Grows /\ Quiet /\ TypeOK'
  BY <1>1, <1>3, <1>5, <1>6 DEF Grows, Quiet, TypeOK, Ready
<1>8. RunInv(s)'
  BY <1>1, <1>2, <1>3, <1>4, <1>5, <1>6 DEF RunInv, Ready
<1>9. \A t \in Slots : RunInv(t)'
  BY <1>3, <1>7, <1>8, RunKept
<1>10. \A i \in Jobs : PostInv(i)'
  BY <1>1, <1>7, PostKept
<1> QED BY <1>1, <1>7, <1>9, <1>10, RowsKept

LEMMA PostKeeps ==
  ASSUME UploadInv, NEW s \in Slots, CreatePost(s) \/ MaterializeDeliveries(s) PROVE UploadInv'
<1>1. TypeOK /\ RunInv(s) /\ UNCHANGED <<job, asset, up, now, reaps>>
  BY DEF UploadInv, CreatePost, MaterializeDeliveries
<1>2. PICK j \in Jobs : run[s].job = j
  BY <1>1, SlotType
<1>3. PICK from \in {"open", "posted"}, to \in {"posted", "filled"} :
        /\ Step(s, from, to) /\ (from = "open" <=> to = "posted")
        /\ IF to = "posted" THEN CreatePost(s) ELSE MaterializeDeliveries(s)
  BY DEF CreatePost, MaterializeDeliveries
<1>4. /\ run' \in [Slots -> Run] /\ run[s].pc = from /\ run'[s].pc = to
      /\ run'[s].job = run[s].job /\ run'[s].pool = run[s].pool /\ run'[s].att = run[s].att
      /\ run'[s].asset = run[s].asset
      /\ \A t \in Slots \ {s} : run'[t] = run[t]
  BY <1>1, <1>3, GoesOn
<1>5. NoPost.asset = 0 /\ ~NoPost.filled
  BY DEF NoPost
<1>6. Ready(run[s].job, run[s].asset) /\ run[s].pool = "upload"
  BY <1>1, <1>3, <1>4 DEF RunInv, CreatePost
<1>7. PICK c \in 0..MaxAssets : c = run[s].asset /\ c # 0 /\ asset[j][c] = "ready"
  BY <1>1, <1>2, <1>6, SlotType DEF Ready
<1>8. /\ post' \in [Jobs -> Post] /\ \A i \in Jobs \ {j} : post'[i] = post[i]
      /\ post'[j] # NoPost /\ post'[j].asset # 0 /\ asset[j][post'[j].asset] = "ready"
      /\ post[j].filled \/ to = "filled" => post'[j].filled
  <2>1. CASE to = "posted"
    <3>1. /\ post' \in [Jobs -> Post] /\ \A i \in Jobs \ {j} : post'[i] = post[i]
          /\ post[j] # NoPost => post'[j] = post[j]
          /\ post[j] = NoPost => post'[j].asset = run[s].asset /\ ~post'[j].filled
      BY <1>1, <1>2, <1>3, <2>1, CreatePostStep
    <3>2. post[j] # NoPost => post[j].asset # 0 /\ asset[j][post[j].asset] = "ready"
      BY CountTypes DEF PostInv, Ready
    <3> QED BY <1>5, <1>7, <2>1, <3>1, <3>2
  <2>2. CASE to = "filled"
    <3>1. /\ post' \in [Jobs -> Post] /\ \A i \in Jobs \ {j} : post'[i] = post[i]
          /\ post'[j].filled /\ post'[j].asset = post[j].asset
      BY <1>1, <1>2, <1>3, <2>2, FillStep
    <3>2. post[j] # NoPost
      BY <1>1, <1>2, <1>3, <1>4, <2>2 DEF RunInv
    <3>3. post[j].asset # 0 /\ asset[j][post[j].asset] = "ready"
      BY <3>2, CountTypes DEF PostInv, Ready
    <3> QED BY <1>5, <3>1, <3>3
  <2> QED BY <1>3, <2>1, <2>2
<1>9. Grows /\ Quiet /\ TypeOK'
  BY <1>1, <1>3, <1>4, <1>8 DEF Grows, Quiet, TypeOK, Ready
<1>10. RunInv(s)'
  BY <1>1, <1>2, <1>3, <1>4, <1>6, <1>8 DEF RunInv, Ready
<1>11. \A t \in Slots : RunInv(t)'
  BY <1>4, <1>9, <1>10, RunKept
<1>12. \A i \in Jobs : PostInv(i)'
  BY <1>1, <1>8, <1>9, PostKept DEF PostInv, Ready
<1> QED BY <1>1, <1>9, <1>11, <1>12, RowsKept

\* Goroutines end, and leave the rows as they are.
LEMMA EndKeeps ==
  ASSUME UploadInv, UNCHANGED <<job, asset, post, now, reaps>>, up' \subseteq Procs,
         run' \in [Slots -> Run], \A t \in Slots : run'[t] = run[t] \/ run'[t] = IdleRun
  PROVE  UploadInv'
<1>1. TypeOK /\ Grows
  BY SameGrows DEF UploadInv
<1>2. Quiet /\ TypeOK'
  BY <1>1, IdleRunType DEF Quiet, TypeOK
<1>3. \A t \in Slots : RunInv(t)'
  BY <1>1, IdleRunType, RunKept, RestInv
<1>4. \A i \in Jobs : PostInv(i)'
  BY <1>1, PostKept
<1> QED BY <1>1, <1>2, <1>3, <1>4, RowsKept

LEMMA StopKeeps ==
  ASSUME UploadInv, \/ \E s \in Slots : Abandon(s)
                    \/ \E p \in Procs : Crash(p)
                    \/ UNCHANGED vars
  PROVE  UploadInv'
<1>1. TypeOK
  BY DEF UploadInv
<1>2. /\ UNCHANGED <<job, asset, post, now, reaps>> /\ up' \subseteq Procs
      /\ run' \in [Slots -> Run] /\ \A t \in Slots : run'[t] = run[t] \/ run'[t] = IdleRun
  BY <1>1, IdleRunType DEF Abandon, Crash, vars, TypeOK
<1> QED BY <1>2, EndKeeps

LEMMA TickKeeps == ASSUME UploadInv, Tick PROVE UploadInv'
<1>1. TypeOK /\ UNCHANGED <<job, asset, post, run, up, reaps>> /\ now' \in 0..MaxTime
  BY UploadAssumption DEF UploadInv, Tick, TypeOK
<1>2. Grows /\ Quiet /\ TypeOK'
  BY <1>1, SameGrows DEF Quiet, TypeOK
<1>3. (\A t \in Slots : RunInv(t)') /\ \A i \in Jobs : PostInv(i)'
  BY <1>1, <1>2, RunKept, PostKept
<1> QED BY <1>1, <1>2, <1>3, RowsKept

LEMMA UploadNext == UploadInv /\ [Next]_vars => UploadInv'
<1> SUFFICES ASSUME UploadInv, [Next]_vars PROVE UploadInv'
  OBVIOUS
<1>1. 0 \in 0..MaxTime
  BY UploadAssumption
<1>2. ASSUME NEW s \in Slots, SlotStep(s) PROVE UploadInv'
  BY <1>2, MarksKeep, QuietSteps, StageKeeps, StoreKeeps, PostKeeps DEF SlotStep
<1>3. ASSUME NEW j \in Jobs, HandleCancelUpload(j) \/ Reclaim(j) PROVE UploadInv'
  BY <1>1, <1>3, TableKeeps
<1> QED BY <1>2, <1>3, TableKeeps, ClaimKeeps, StopKeeps, TickKeeps DEF Next

LEMMA UploadAlways == Spec => []UploadInv
BY UploadInit, UploadNext, PTL DEF Spec

\* upload_jobs, the assets, the posts and the goroutines keep their types, whatever
\* the pools, the reaper, the users and the faults do.
THEOREM UploadTypeCorrect == Spec => []TypeOK
<1>1. UploadInv => TypeOK
  BY DEF UploadInv
<1> QED BY <1>1, UploadAlways, PTL

\* No post is built, and no row waits for the upload pool, on an asset whose bytes
\* were not verified, for any number of jobs, processes, goroutines and lost leases
\* (processPublishJob, MarkIngested, SQLReclaimExpiredLeases).
THEOREM PostAssetReadyAlways == Spec => []PostAssetReady
<1>1. UploadInv => PostAssetReady
  BY CountTypes DEF PostAssetReady, TableInv, PostInv, Ready
<1> QED BY <1>1, UploadAlways, PTL

\* A row reported as prepared or completed has its post and the post its delivery
\* row, whichever goroutines made them and wrote the last Mark*.
THEOREM DoneIsMaterialisedAlways == Spec => []DoneIsMaterialised
<1>1. UploadInv => DoneIsMaterialised
  BY CountTypes DEF DoneIsMaterialised, TableInv
<1> QED BY <1>1, UploadAlways, PTL

\* Only lost leases take a row past max_attempts and the publish claim after a last
\* successful ingest, two claims each: the row itself goes through ingest and
\* publish again, and the goroutine that lost it may put it back once more.
THEOREM BudgetAccountedAlways == Spec => []BudgetAccounted
<1>1. ASSUME UploadInv, NEW j \in Jobs PROVE job[j].att <= MaxAttempts + 1 + 2 * reaps[j]
  <2>1. CASE job[j].att >= MaxAttempts
    BY <1>1, <2>1, CountTypes DEF CountInv
  <2>2. CASE job[j].att < MaxAttempts
    BY <1>1, <2>2, CountTypes
  <2> QED BY <1>1, <2>1, <2>2, CountTypes
<1>2. UploadInv => BudgetAccounted
  BY <1>1 DEF BudgetAccounted
<1> QED BY <1>2, UploadAlways, PTL

-----------------------------------------------------------------------------
(* UploadJobs implements LeasedWork.                                       *)

\* Row j moves and the others stay.
LEMMA MoveMaps ==
  ASSUME UploadInv, NEW j \in Jobs, NEW x, Writes(j, x), NEW from, NEW to, NEW who,
         Phase(j) = from, Phase(j)' = to, x.owner = who
  PROVE  Lease!Move(j, from, to, who)
<1>1. job'[j] = x /\ \A i \in Jobs \ {j} : job'[i] = job[i]
  BY WritesType DEF UploadInv
<1>2. \A i \in Jobs \ {j} : Phase(i)' = Phase(i)
  BY <1>1 DEF Phase
<1> QED BY <1>1, <1>2 DEF Lease!Move

LEMMA StayMaps ==
  ASSUME \A j \in Jobs : Phase(j)' = Phase(j) /\ job'[j].owner = job[j].owner
  PROVE  UNCHANGED Lease!vars
BY DEF Lease!vars

LEMMA SameMaps == ASSUME job' = job PROVE UNCHANGED Lease!vars
BY StayMaps DEF Phase

LEMMA LeaseInit == Init => Lease!Init
<1> SUFFICES ASSUME Init PROVE Lease!Init
  OBVIOUS
<1>1. \A j \in Jobs : Phase(j) = "absent" /\ job[j].owner = NoOne
  BY DEF Init, Phase
<1> QED BY <1>1 DEF Lease!Init

LEMMA TableMaps ==
  ASSUME UploadInv, NEW j \in Jobs, NEW at \in 0..MaxTime,
         \/ CreateUploadJob(j, at) \/ HandleRescheduleUpload(j, at)
         \/ HandleCancelUpload(j) \/ Reclaim(j)
  PROVE  Lease!Next \/ UNCHANGED Lease!vars
<1>1. PICK x : /\ Writes(j, x)
               /\ \/ job[j].status = "absent" /\ x.status = "pending" /\ x.owner = job[j].owner
                  \/ /\ job[j].status = "pending" /\ x.status \in {"pending", "cancelled"}
                     /\ x.owner = job[j].owner
                  \/ /\ job[j].status = "leased" /\ x.status = "pending" /\ x.owner = NoOne
  BY TableStep DEF UploadInv
<1>2. job'[j] = x /\ \A i \in Jobs \ {j} : job'[i] = job[i]
  BY <1>1, WritesType DEF UploadInv
<1>3. x.owner = NoOne
  BY <1>1, CountTypes DEF TableInv
<1>4. CASE job[j].status = "absent"
  <2>1. Phase(j) = "absent" /\ Phase(j)' = "ready"
    BY <1>1, <1>2, <1>4 DEF Phase, AtRest
  <2>2. Lease!Offer(j)
    BY <1>1, <1>3, <2>1, MoveMaps DEF Lease!Offer
  <2> QED BY <2>2 DEF Lease!Next
<1>5. CASE job[j].status = "leased"
  <2>1. Phase(j) = "held" /\ Phase(j)' = "ready"
    BY <1>1, <1>2, <1>5 DEF Phase, AtRest
  <2>2. Lease!Return(j)
    BY <1>1, <1>3, <2>1, MoveMaps DEF Lease!Return
  <2> QED BY <2>2 DEF Lease!Next
<1>6. CASE job[j].status = "pending" /\ x.status = "cancelled"
  <2>1. Phase(j) = "ready" /\ Phase(j)' = "settled"
    BY <1>1, <1>2, <1>6 DEF Phase, AtRest
  <2>2. Lease!Withdraw(j)
    BY <1>1, <1>3, <2>1, MoveMaps DEF Lease!Withdraw
  <2> QED BY <2>2 DEF Lease!Next
<1>7. CASE job[j].status = "pending" /\ x.status = "pending"
  <2>1. \A i \in Jobs : Phase(i)' = Phase(i) /\ job'[i].owner = job[i].owner
    BY <1>1, <1>2, <1>7 DEF Phase
  <2> QED BY <2>1, StayMaps
<1> QED BY <1>1, <1>4, <1>5, <1>6, <1>7

LEMMA ClaimMaps ==
  ASSUME UploadInv, NEW s \in Slots, NEW j \in Jobs, NEW pool \in Pools, Claim(s, j, pool)
  PROVE  Lease!Next
<1>0. TypeOK /\ UNCHANGED <<asset, post, up, now, reaps>> /\ <<Home[s], pool>> \in WorkerIDs
  BY ClaimStep DEF UploadInv
<1>1. PICK x : /\ Writes(j, x) /\ x.status = "leased" /\ x.owner = <<Home[s], pool>>
               /\ x.att = job[j].att + 1 /\ x.asset = job[j].asset
  BY <1>0, ClaimStep
<1>3. job'[j] = x
  BY <1>1, WritesType DEF UploadInv
<1>4. Phase(j) = "ready" /\ Phase(j)' = "held"
  BY <1>1, <1>3 DEF Phase, AtRest, Claim, Claimable
<1>5. Lease!Take(j, <<Home[s], pool>>)
  BY <1>1, <1>4, MoveMaps DEF Lease!Take
<1> QED BY <1>0, <1>5 DEF Lease!Next

\* The CAS: only the goroutines of the pool that holds the row settle or return it.
LEMMA MarkMaps ==
  ASSUME UploadInv, NEW s \in Slots, MarkIngested(s) \/ MarkDone(s) \/ HandleProcessingError(s)
  PROVE  Lease!Next \/ UNCHANGED Lease!vars
<1>1. TypeOK
  BY DEF UploadInv
<1>2. PICK j \in Jobs : run[s].job = j
  BY <1>1, SlotType
<1>3. PICK st \in {"retry_wait", "ingest_completed"} \cup Settled, a \in 0..MaxAssets :
        Mark(s, st, a)
  <2>1. run[s].asset \in 0..MaxAssets /\ job[j].asset \in 0..MaxAssets
    BY <1>1, SlotType, JobType
  <2>2. CASE MarkIngested(s)
    BY <2>1, <2>2 DEF MarkIngested
  <2>3. CASE MarkDone(s)
    <3>1. \E st \in {"publish_scheduled", "publish_completed"} : Mark(s, st, run[s].asset)
      BY <2>3 DEF MarkDone
    <3> QED BY <2>1, <3>1 DEF Settled
  <2>4. CASE HandleProcessingError(s)
    <3>1. \E st \in {"dead_letter", "retry_wait"} : Mark(s, st, job[j].asset)
      BY <1>2, <2>4 DEF HandleProcessingError
    <3> QED BY <2>1, <3>1 DEF Settled
  <2> QED BY <2>2, <2>3, <2>4
<1>4. st \in JobStatuses
  BY DEF JobStatuses, AtRest, Settled
<1>5. CASE job' = job
  BY <1>5, SameMaps
<1>6. CASE job' # job
  <2>1. PICK x : Writes(j, x) /\ x.status = st /\ x.owner = NoOne
    BY <1>1, <1>2, <1>3, <1>4, <1>6, MarkStep
  <2>2. job[j].status = "leased"
    BY <1>1, <1>2, <1>3, <1>4, <1>6, MarkStep DEF Owns
  <2>3. job'[j] = x
    BY <1>1, <2>1, WritesType
  <2>4. CASE st \in Settled
    <3>1. Phase(j) = "held" /\ Phase(j)' = "settled"
      BY <2>1, <2>2, <2>3, <2>4 DEF Phase, AtRest, Settled
    <3>2. Lease!Settle(j)
      BY <2>1, <3>1, MoveMaps DEF Lease!Settle
    <3> QED BY <3>2 DEF Lease!Next
  <2>5. CASE st \notin Settled
    <3>1. Phase(j) = "held" /\ Phase(j)' = "ready"
      BY <2>1, <2>2, <2>3, <2>5 DEF Phase, AtRest
    <3>2. Lease!Return(j)
      BY <2>1, <3>1, MoveMaps DEF Lease!Return
    <3> QED BY <3>2 DEF Lease!Next
  <2> QED BY <2>4, <2>5
<1> QED BY <1>5, <1>6

LEMMA LeaseNext == UploadInv /\ [Next]_vars => [Lease!Next]_(Lease!vars)
<1> SUFFICES ASSUME UploadInv, [Next]_vars PROVE Lease!Next \/ UNCHANGED Lease!vars
  OBVIOUS
<1>1. 0 \in 0..MaxTime
  BY UploadAssumption
<1>2. CASE job' = job
  BY <1>2, SameMaps
<1>3. ASSUME NEW s \in Slots, SlotStep(s) \/ Abandon(s) PROVE Lease!Next \/ UNCHANGED Lease!vars
  BY <1>2, <1>3, MarkMaps
  DEF SlotStep, Start, StageAsset, StoreAsset, StoreFails, CreatePost, MaterializeDeliveries,
      TriggerPublish, StepFails, Abandon
<1>4. ASSUME NEW j \in Jobs, HandleCancelUpload(j) \/ Reclaim(j)
      PROVE  Lease!Next \/ UNCHANGED Lease!vars
  BY <1>1, <1>4, TableMaps
<1>5. CASE Tick \/ (\E p \in Procs : Crash(p)) \/ UNCHANGED vars
  BY <1>2, <1>5 DEF Tick, Crash, vars
<1> QED BY <1>3, <1>4, <1>5, TableMaps, ClaimMaps DEF Next

\* upload_jobs is a leased work table for any number of jobs, processes, pools and
\* faults: one lease_owner at a time, only under the lease is a row settled or put
\* back, and a row that is done is never taken again.
THEOREM UploadsImplementLeasedWork == Spec => ImplementsLeasedWork
BY LeaseInit, LeaseNext, UploadAlways, PTL DEF Spec, ImplementsLeasedWork, Lease!Spec
=============================================================================
