--------------------------- MODULE YouTubeDelivery ---------------------------
(***************************************************************************)
(* youtube_target_publications as a queue: the delivery pool uploads each  *)
(* video as private behind the daily quota gate, and the publish worker    *)
(* gives it the privacy it was asked for later (phase 2).  One autocommitted statement, one     *)
(* statement of the quota transaction or one call of the YouTube API is    *)
(* one step.                                                               *)
(***************************************************************************)
EXTENDS Naturals, FiniteSets

CONSTANTS
  Deliveries,   \* rows of youtube_target_publications, one per post target
  Procs,        \* worker processes; a restarted process is another member
  Slots,        \* goroutines of the delivery pools
  Home,         \* Home[s]: the process of slot s; its pool's lease_owner
  NoOne,        \* SQL NULL in lease_owner, and the owner of a free row lock
  MaxAttempts,  \* max_attempts of a delivery
  Limit,        \* Limit[p]: the video_uploads ceiling process p is configured with
  MaxDays,      \* bound: Pacific days
  MaxVideos,    \* bound: videos.insert calls that succeed for one delivery
  MaxLosses,    \* bound: leases that run out for one delivery while it is worked on
  Faults        \* of this instance: "crash", "stall", "drop", "answer", "mark",
                \* "cancel", "delete"

ASSUME DeliveryAssumption ==
  /\ Home \in [Slots -> Procs]
  /\ NoOne \notin Procs /\ NoOne \notin Slots
  /\ Deliveries # {}
  /\ MaxAttempts \in Nat \ {0} /\ Limit \in [Procs -> Nat \ {0}]
  /\ MaxDays \in Nat \ {0} /\ MaxVideos \in Nat /\ MaxLosses \in Nat

VARIABLES
  row,      \* youtube_target_publications
  target,   \* status of the post target of each row
  pub,      \* the phase-2 driver of each target
  run,      \* run[s]: the goroutine in slot s
  video,    \* video[d][v]: visibility of the v-th video inserted for d
  quota,    \* youtube_quota_daily of the bucket video_uploads, by day
  made,     \* made[t]: videos.insert calls paid from day t
  day,      \* the Pacific day
  up,       \* running processes
  losses    \* losses[d]: claims of d whose outcome never reached the row

vars == <<row, target, pub, run, video, quota, made, day, up, losses>>

Days == 1..MaxDays
Videos == 1..MaxVideos

Waiting == {"ready_to_upload", "retry_wait", "quota_wait"}
Settled == {"youtube_uploaded", "failed", "dead_letter"}

\* vid is youtube_video_id (0 is NULL) and stamped youtube_upload_status =
\* 'youtube_uploaded'; native tells whether native_publish_at is set; parked is
\* the day whose end a row in quota_wait waits for.
Row == [state : {"absent", "uploading"} \cup Waiting \cup Settled, owner : Procs \cup {NoOne},
        att : Nat, vid : 0..MaxVideos, stamped : BOOLEAN, native : BOOLEAN,
        parked : 0..MaxDays]

Run == [pc : {"idle", "open", "locked", "refused", "paid", "sent", "failing", "blocking"},
        d : Deliveries, day : 0..MaxDays, calls : Nat, vid : 0..MaxVideos]

IdleRun == [pc |-> "idle", d |-> CHOOSE d \in Deliveries : TRUE, day |-> 0, calls |-> 0,
            vid |-> 0]

\* A video is "private" as uploaded, and "kept" once videos.update has set that
\* it stays private.  A deleted one is "removed", "closed" or "withdrawn": it was
\* as uploaded, kept or unlisted, or public.
Present == {"private", "kept", "unlisted", "public"}
Deleted == {"removed", "closed", "withdrawn"}
Visibility == {"none"} \cup Present \cup Deleted

\* A quota row that does not exist yet has limit 0; lock is the connection that
\* holds it FOR UPDATE.
Quota == [calls : Nat, limit : Nat, lock : Slots \cup {NoOne}]

TypeOK ==
  /\ row \in [Deliveries -> Row]
  /\ target \in [Deliveries -> {"none", "queued", "publishing", "waiting_provider", "published",
                                "failed", "blocked_auth"}]
  /\ pub \in [Deliveries -> [pc : {"idle", "look", "check", "update", "stamp", "wait"},
                             vid : 0..MaxVideos]]
  /\ run \in [Slots -> Run]
  /\ video \in [Deliveries -> [Videos -> Visibility]]
  /\ quota \in [Days -> Quota]
  /\ made \in [Days -> Nat]
  /\ day \in Days
  /\ up \subseteq Procs
  /\ losses \in [Deliveries -> Nat]

Init ==
  /\ row = [d \in Deliveries |-> [state |-> "absent", owner |-> NoOne, att |-> 0, vid |-> 0,
                                  stamped |-> FALSE, native |-> FALSE, parked |-> 0]]
  /\ target = [d \in Deliveries |-> "none"]
  /\ pub = [d \in Deliveries |-> [pc |-> "idle", vid |-> 0]]
  /\ run = [s \in Slots |-> IdleRun]
  /\ video = [d \in Deliveries |-> [v \in Videos |-> "none"]]
  /\ quota = [t \in Days |-> [calls |-> 0, limit |-> 0, lock |-> NoOne]]
  /\ made = [t \in Days |-> 0]
  /\ day = 1
  /\ up = Procs
  /\ losses = [d \in Deliveries |-> 0]

-----------------------------------------------------------------------------
(* The queue                                                               *)

\* materializeYouTubeDelivery; native_publish_at is set for a public video
\* whose publish_at is in the future.
Materialize(d, native) ==
  /\ row[d].state = "absent"
  /\ row' = [row EXCEPT ![d].state = "ready_to_upload", ![d].native = native]
  /\ target' = [target EXCEPT ![d] = "queued"]
  /\ UNCHANGED <<pub, run, video, quota, made, day, up, losses>>

\* Midnight Pacific time.
NextDay ==
  /\ day < MaxDays
  /\ day' = day + 1
  /\ UNCHANGED <<row, target, pub, run, video, quota, made, up, losses>>

\* Mutant: a parked row is not claimed again.
ClaimableUnparked(d) == row[d].state \in Waiting \ {"quota_wait"}

\* Mutant: an uploaded row is claimed again.
ClaimableUploaded(d) ==
  /\ row[d].state \in Waiting \cup {"youtube_uploaded"}
  /\ row[d].state = "quota_wait" => row[d].parked < day

\* The claim states; next_attempt_at of a parked row is the end of the day.
Claimable(d) ==
  /\ row[d].state \in Waiting
  /\ row[d].state = "quota_wait" => row[d].parked < day

ClaimReadyDeliveries(s, d) ==
  /\ Home[s] \in up
  /\ run[s].pc = "idle"
  /\ Claimable(d)
  /\ row' = [row EXCEPT ![d].state = "uploading", ![d].owner = Home[s]]
  /\ run' = [run EXCEPT ![s] = [IdleRun EXCEPT !.pc = "open", !.d = d]]
  /\ UNCHANGED <<target, pub, video, quota, made, day, up, losses>>

\* A goroutine works on the row under its current lease_owner and renews it.
Attended(d) ==
  \E s \in Slots : run[s].pc # "idle" /\ run[s].d = d /\ row[d].owner = Home[s]

\* ReclaimExpiredDeliveryLeases: nobody is left to renew, or the lease ran out
\* under a goroutine that waited for the semaphore or stalled.
Reclaim(d) ==
  /\ up # {}
  /\ row[d].state = "uploading" /\ row[d].owner # NoOne
  /\ ~Attended(d) \/ ("stall" \in Faults /\ losses[d] < MaxLosses)
  /\ row' = [row EXCEPT ![d].state = "ready_to_upload", ![d].owner = NoOne]
  /\ losses' = [losses EXCEPT ![d] = @ + 1]
  /\ UNCHANGED <<target, pub, run, video, quota, made, day, up>>

\* The CAS of every Mark*: lease_owner = workerID, whatever the state.
Owns(s) == row[run[s].d].owner = Home[s]

\* A Mark* by s: new is the row if the CAS succeeds.
Mark(s, new) ==
  /\ row' = [row EXCEPT ![run[s].d] = IF Owns(s) THEN [new EXCEPT !.owner = NoOne] ELSE @]
  /\ run' = [run EXCEPT ![s] = IdleRun]

Goes(s, from, to) ==
  /\ Home[s] \in up
  /\ run[s].pc = from
  /\ run' = [run EXCEPT ![s].pc = to]

-----------------------------------------------------------------------------
(* processYouTubeDelivery                                                  *)

\* The post or the target is gone, the grant is invalid, the channel check, the
\* media URL or the quota gate failed: all end in MarkDeliveryFailed.
PreflightFails(s) ==
  /\ Goes(s, "open", "failing")
  /\ UNCHANGED <<row, target, pub, video, quota, made, day, up, losses>>

\* The channel does not belong to the grant: handleTargetBlockedAuth writes the
\* row under its lease, then the target whether or not the lease was lost.
MarkDeliveryBlockedAuth(s) ==
  LET d == run[s].d IN
  /\ Goes(s, "open", "blocking")
  /\ row' = [row EXCEPT ![d] = IF Owns(s)
                                 THEN [row[d] EXCEPT !.state = "failed", !.att = row[d].att + 1,
                                                     !.owner = NoOne]
                                 ELSE @]
  /\ UNCHANGED <<target, pub, video, quota, made, day, up, losses>>

\* SetTargetStatus spares a target that is terminal.
SetTargetStatus(s) ==
  /\ Home[s] \in up
  /\ run[s].pc = "blocking"
  /\ run' = [run EXCEPT ![s] = IdleRun]
  /\ target' = [target EXCEPT ![run[s].d] =
                  IF @ \in {"published", "failed"} THEN @ ELSE "blocked_auth"]
  /\ UNCHANGED <<row, pub, video, quota, made, day, up, losses>>

\* Mutant: the SELECT without FOR UPDATE.
ReserveUnlocked(s) ==
  /\ Home[s] \in up
  /\ run[s].pc = "open"
  /\ run' = [run EXCEPT ![s].pc = "locked", ![s].day = day, ![s].calls = quota[day].calls]
  /\ UNCHANGED <<row, target, pub, video, quota, made, day, up, losses>>

\* ReserveQuota up to its SELECT ... FOR UPDATE on the row of the day that the
\* goroutine read from its clock.
ReserveLock(s) ==
  /\ Home[s] \in up
  /\ run[s].pc = "open"
  /\ quota[day].lock = NoOne
  /\ quota' = [quota EXCEPT ![day].lock = s]
  /\ run' = [run EXCEPT ![s].pc = "locked", ![s].day = day, ![s].calls = quota[day].calls]
  /\ UNCHANGED <<row, target, pub, video, made, day, up, losses>>

\* A stored ceiling is raised, never lowered; the first reservation of a day
\* stores its own.
Ceiling(s) ==
  LET stored == quota[run[s].day].limit IN
  IF Limit[Home[s]] > stored THEN Limit[Home[s]] ELSE stored

\* calls + 1 fits: increment and COMMIT.
ReserveCommit(s) ==
  LET t == run[s].day IN
  /\ Goes(s, "locked", "paid")
  /\ run[s].calls + 1 <= Ceiling(s)
  /\ quota' = [quota EXCEPT ![t] = [calls |-> @.calls + 1, limit |-> Ceiling(s), lock |-> NoOne]]
  /\ UNCHANGED <<row, target, pub, video, made, day, up, losses>>

\* The bucket is used up: the transaction rolls back.
ReserveRefuse(s) ==
  LET t == run[s].day IN
  /\ Goes(s, "locked", "refused")
  /\ run[s].calls + 1 > Ceiling(s)
  /\ quota' = [quota EXCEPT ![t].lock = NoOne]
  /\ UNCHANGED <<row, target, pub, video, made, day, up, losses>>

MarkDeliveryQuotaWait(s) ==
  /\ Home[s] \in up
  /\ run[s].pc = "refused"
  /\ Mark(s, [row[run[s].d] EXCEPT !.state = "quota_wait", !.parked = run[s].day])
  /\ UNCHANGED <<target, pub, video, quota, made, day, up, losses>>

\* A new private video of delivery d, and the v it got.
NewVideo(d, v) ==
  /\ video[d][v] = "none"
  /\ \A w \in Videos : video[d][w] = "none" => v <= w
  /\ video' = [video EXCEPT ![d][v] = "private"]

\* UploadVideoAsPrivate returned the new video.
Upload(s) ==
  LET d == run[s].d IN
  /\ Home[s] \in up
  /\ run[s].pc = "paid"
  /\ \E v \in Videos :
       NewVideo(d, v) /\ run' = [run EXCEPT ![s].pc = "sent", ![s].vid = v]
  /\ made' = [made EXCEPT ![run[s].day] = @ + 1]
  /\ UNCHANGED <<row, target, pub, quota, day, up, losses>>

\* videos.insert brought no video id back; the charge stands.  The video may
\* exist if the answer was lost.
InsertUnanswered(s) ==
  LET d == run[s].d IN
  /\ run[s].pc = "paid"
  /\ \/ video' = video /\ losses' = losses
     \/ /\ "answer" \in Faults /\ losses[d] < MaxLosses
        /\ \E v \in Videos : NewVideo(d, v)
        /\ losses' = [losses EXCEPT ![d] = @ + 1]
  /\ made' = [made EXCEPT ![run[s].day] = @ + 1]

\* It failed, with any error but a cancelled context or a timeout.
UploadFails(s) ==
  /\ Goes(s, "paid", "failing")
  /\ InsertUnanswered(s)
  /\ UNCHANGED <<row, target, pub, quota, day, up>>

\* Mutant: the video is recorded, but the row goes back to the queue.
MarkDeliveryUploadedAgain(s) ==
  /\ Home[s] \in up
  /\ run[s].pc = "sent"
  /\ Mark(s, [row[run[s].d] EXCEPT !.state = "retry_wait", !.stamped = TRUE,
                                   !.vid = run[s].vid])
  /\ UNCHANGED <<target, pub, video, quota, made, day, up, losses>>

\* The UPDATE that records the video; after a lost CAS the MarkDeliveryFailed
\* that follows finds nothing either.
MarkDeliveryUploaded(s) ==
  /\ Home[s] \in up
  /\ run[s].pc = "sent"
  /\ Mark(s, [row[run[s].d] EXCEPT !.state = "youtube_uploaded", !.stamped = TRUE,
                                   !.vid = run[s].vid, !.att = @ + 1])
  /\ UNCHANGED <<target, pub, video, quota, made, day, up, losses>>

\* That UPDATE itself failed: the delivery counts as failed although the video
\* is there.
MarkUploadedFails(s) ==
  LET d == run[s].d IN
  /\ "mark" \in Faults /\ losses[d] < MaxLosses
  /\ Goes(s, "sent", "failing")
  /\ losses' = [losses EXCEPT ![d] = @ + 1]
  /\ UNCHANGED <<row, target, pub, video, quota, made, day, up>>

\* Mutant: one attempt too many.
MarkDeliveryFailedLate(s) ==
  LET r == row[run[s].d] IN
  /\ Home[s] \in up
  /\ run[s].pc = "failing"
  /\ Mark(s, [r EXCEPT !.att = @ + 1,
                       !.state = IF r.att >= MaxAttempts THEN "dead_letter" ELSE "retry_wait"])
  /\ UNCHANGED <<target, pub, video, quota, made, day, up, losses>>

MarkDeliveryFailed(s) ==
  LET r == row[run[s].d] IN
  /\ Home[s] \in up
  /\ run[s].pc = "failing"
  /\ Mark(s, [r EXCEPT !.att = @ + 1,
                       !.state = IF r.att + 1 >= MaxAttempts THEN "dead_letter" ELSE "retry_wait"])
  /\ UNCHANGED <<target, pub, video, quota, made, day, up, losses>>

\* context.Canceled or context.DeadlineExceeded came out of the preparation, the
\* insert or the UPDATE of MarkDeliveryUploaded, at a shutdown or because a call
\* timed out: ReleaseDeliveryLease clears the lease and leaves the state.
ReleaseDeliveryLease(s) ==
  LET d == run[s].d IN
  /\ "cancel" \in Faults
  /\ Home[s] \in up
  /\ Mark(s, row[d])
  /\ \/ run[s].pc = "open" /\ UNCHANGED <<video, made, losses>>
     \/ InsertUnanswered(s)
     \/ /\ run[s].pc = "sent" /\ losses[d] < MaxLosses
        /\ losses' = [losses EXCEPT ![d] = @ + 1]
        /\ UNCHANGED <<video, made>>
  /\ UNCHANGED <<target, pub, quota, day, up>>

\* An error before the first Mark*, a failing Mark* or a panic: nothing is
\* written and the lease runs out.
Drop(s) ==
  /\ "drop" \in Faults
  /\ Home[s] \in up
  /\ run[s].pc \in {"open", "refused", "sent", "failing"}
  /\ losses[run[s].d] < MaxLosses
  /\ run' = [run EXCEPT ![s] = IdleRun]
  /\ UNCHANGED <<row, target, pub, video, quota, made, day, up, losses>>

\* A process dies; PostgreSQL rolls its quota transactions back.
Crash(p) ==
  /\ "crash" \in Faults
  /\ p \in up /\ up \ {p} # {}
  /\ up' = up \ {p}
  /\ run' = [s \in Slots |-> IF Home[s] = p THEN IdleRun ELSE run[s]]
  /\ quota' = [t \in Days |->
                 IF \E s \in Slots : quota[t].lock = s /\ Home[s] = p
                   THEN [quota[t] EXCEPT !.lock = NoOne] ELSE quota[t]]
  /\ UNCHANGED <<row, target, pub, video, made, day, losses>>
-----------------------------------------------------------------------------
(* The publish worker's second phase                                       *)

\* The claim of the target; PublishPipeline shows that one process drives it.
ClaimTarget(d) ==
  /\ target[d] \in {"queued", "waiting_provider"}
  /\ pub[d].pc = "idle"
  /\ target' = [target EXCEPT ![d] = "publishing"]
  /\ pub' = [pub EXCEPT ![d].pc = "look"]
  /\ UNCHANGED <<row, run, video, quota, made, day, up, losses>>

\* A write of the driver: UpdateStatusWithLease wants status = 'publishing'.
DriverWrites(d, status) ==
  /\ target' = [target EXCEPT ![d] = IF @ = "publishing" THEN status ELSE @]
  /\ pub' = [pub EXCEPT ![d] = [pc |-> "idle", vid |-> 0]]

\* FindByPostTargetID: an uploaded row goes on with its video.
FindByPostTargetID(d) ==
  LET r == row[d] IN
  /\ pub[d].pc = "look"
  /\ pub' = [pub EXCEPT ![d] =
       [pc |-> IF ~r.stamped \/ r.vid = 0 THEN "wait" ELSE IF r.native THEN "check" ELSE "update",
        vid |-> r.vid]]
  /\ UNCHANGED <<row, target, run, video, quota, made, day, up, losses>>

\* The lookup or videos.list failed, or the video is still private within the
\* grace window: the target is queued again.
TryLater(d) ==
  /\ pub[d].pc \in {"look", "check"}
  /\ DriverWrites(d, "queued")
  /\ UNCHANGED <<row, run, video, quota, made, day, up, losses>>

\* No uploaded row: a post of an upload job never falls through to Publish.
WaitForDelivery(d) ==
  /\ pub[d].pc = "wait"
  /\ DriverWrites(d, "waiting_provider")
  /\ UNCHANGED <<row, run, video, quota, made, day, up, losses>>

\* Mutant: the native publication is stamped without looking.
SettleNativePublishBlind(d) ==
  /\ pub[d].pc = "check"
  /\ pub' = [pub EXCEPT ![d].pc = "stamp"]
  /\ UNCHANGED <<row, target, run, video, quota, made, day, up, losses>>

\* settleNativePublish: a public video is settled, and one that is still
\* private after the grace window is forced.
SettleNativePublish(d) ==
  LET seen == video[d][pub[d].vid] IN
  /\ pub[d].pc = "check"
  /\ seen \in Present
  /\ pub' = [pub EXCEPT ![d].pc = IF seen = "public" THEN "stamp" ELSE "update"]
  /\ UNCHANGED <<row, target, run, video, quota, made, day, up, losses>>

\* What videos.update may set: a forced native publication is public, any other
\* gets the privacy the post asks for (CoercePrivacyForUpdate).
Privacies(d) == IF row[d].native THEN {"public"} ELSE {"public", "unlisted", "kept"}

\* videos.update.
UpdateVideoPrivacy(d) ==
  /\ pub[d].pc = "update"
  /\ video[d][pub[d].vid] \in Present
  /\ \E p \in Privacies(d) : video' = [video EXCEPT ![d][pub[d].vid] = p]
  /\ pub' = [pub EXCEPT ![d].pc = "stamp"]
  /\ UNCHANGED <<row, target, run, quota, made, day, up, losses>>

\* videos.list or videos.update says 404: ClearYouTubeUpload empties the row,
\* whose state stays, and the target waits.
ClearYouTubeUpload(d) ==
  /\ pub[d].pc \in {"check", "update"}
  /\ video[d][pub[d].vid] \in Deleted
  /\ row' = [row EXCEPT ![d].vid = 0, ![d].stamped = FALSE, ![d].att = 0]
  /\ pub' = [pub EXCEPT ![d].pc = "wait"]
  /\ UNCHANGED <<target, run, video, quota, made, day, up, losses>>

\* Any other error of videos.update: markFailed.
UpdateFails(d) ==
  /\ pub[d].pc = "update"
  /\ DriverWrites(d, "failed")
  /\ UNCHANGED <<row, run, video, quota, made, day, up, losses>>

\* markYouTubeTargetPublished.
MarkYouTubeTargetPublished(d) ==
  /\ pub[d].pc = "stamp"
  /\ DriverWrites(d, "published")
  /\ UNCHANGED <<row, run, video, quota, made, day, up, losses>>

\* YouTube makes a native video public at its publishAt.
YouTubePublishes(d, v) ==
  /\ row[d].native
  /\ video[d][v] = "private"
  /\ video' = [video EXCEPT ![d][v] = "public"]
  /\ UNCHANGED <<row, target, pub, run, quota, made, day, up, losses>>

\* The owner or YouTube deletes a video.
VideoDeleted(d, v) ==
  /\ "delete" \in Faults
  /\ video[d][v] \in Present
  /\ video' = [video EXCEPT ![d][v] = IF @ = "private" THEN "removed"
                                     ELSE IF @ = "public" THEN "withdrawn" ELSE "closed"]
  /\ UNCHANGED <<row, target, pub, run, quota, made, day, up, losses>>

-----------------------------------------------------------------------------
SlotStep(s) ==
  \/ PreflightFails(s) \/ MarkDeliveryBlockedAuth(s) \/ SetTargetStatus(s)
  \/ ReserveLock(s) \/ ReserveCommit(s) \/ ReserveRefuse(s) \/ MarkDeliveryQuotaWait(s)
  \/ Upload(s) \/ UploadFails(s) \/ MarkDeliveryUploaded(s) \/ MarkUploadedFails(s)
  \/ MarkDeliveryFailed(s)

DriverStep(d) ==
  \/ FindByPostTargetID(d) \/ TryLater(d) \/ WaitForDelivery(d) \/ SettleNativePublish(d)
  \/ UpdateVideoPrivacy(d) \/ ClearYouTubeUpload(d) \/ UpdateFails(d)
  \/ MarkYouTubeTargetPublished(d)

Next ==
  \/ \E d \in Deliveries, native \in BOOLEAN : Materialize(d, native)
  \/ \E s \in Slots, d \in Deliveries : ClaimReadyDeliveries(s, d)
  \/ \E s \in Slots : SlotStep(s) \/ ReleaseDeliveryLease(s) \/ Drop(s)
  \/ \E d \in Deliveries : Reclaim(d) \/ ClaimTarget(d) \/ DriverStep(d)
  \/ \E d \in Deliveries, v \in Videos : YouTubePublishes(d, v) \/ VideoDeleted(d, v)
  \/ \E p \in Procs : Crash(p)
  \/ NextDay

Spec == Init /\ [][Next]_vars

\* A running goroutine goes on, the pools poll for every row they may take, the
\* reclaimer's ticker fires and days pass.
FairSpec ==
  /\ Spec
  /\ \A s \in Slots : WF_vars(SlotStep(s))
  /\ \A d \in Deliveries : WF_vars(\E s \in Slots : ClaimReadyDeliveries(s, d))
  /\ \A d \in Deliveries : WF_vars(Reclaim(d))
  /\ WF_vars(NextDay)

-----------------------------------------------------------------------------
(* Properties                                                              *)

\* No day is charged more calls than the largest ceiling any process is
\* configured with, and no videos.insert is made that its day was not charged
\* for, whoever reserves at the limit, at midnight or twice for one delivery
\* (ReserveQuota before UploadVideoAsPrivate).
QuotaHonoured ==
  \A t \in Days :
    /\ made[t] <= quota[t].calls
    /\ \/ quota[t].calls = 0
       \/ \E p \in Procs : quota[t].calls <= Limit[p]

Inserted(d) == {v \in Videos : video[d][v] # "none"}

\* A second video of one delivery is always the trace of a claim whose outcome
\* did not reach the row (a lease that ran out, an answer or a mark that was
\* lost): plain failures, quota waits and retries never duplicate a video, and
\* once the row names its video nothing more is inserted but by such a claim.
DuplicatesAccounted ==
  \A d \in Deliveries : Cardinality(Inserted(d)) <= 1 + losses[d]

\* A row that may be claimed has attempts left, quota waits do not use them up
\* and no path goes past max_attempts (MarkDeliveryFailed, MarkDeliveryUploaded,
\* MarkDeliveryBlockedAuth, ClearYouTubeUpload).
AttemptsHonoured ==
  \A d \in Deliveries :
    /\ row[d].att <= MaxAttempts
    /\ row[d].state \in Waiting \cup {"uploading"} => row[d].att < MaxAttempts

\* A target is shown as published only if videos.update has given a video of it
\* the privacy the post asks for, and in the native case only if a video of it has
\* been public, for settled and forced publications, deleted videos and late
\* uploads alike (settleNativePublish, markYouTubeTargetPublished).
PublishedAsAsked ==
  \A d \in Deliveries :
    target[d] = "published" =>
      \E v \in Videos :
        video[d][v] \in IF row[d].native THEN {"public", "withdrawn"}
                        ELSE {"kept", "unlisted", "public", "closed", "withdrawn"}

\* A delivery that is uploaded or given up for good is a decision nobody takes
\* back, and a row never changes hands without going back to the queue (the
\* lease_owner CAS of every Mark*).
Phase(d) ==
  IF row[d].state = "absent" THEN "absent"
  ELSE IF row[d].state \in Settled THEN "settled"
  ELSE IF row[d].owner = NoOne THEN "ready" ELSE "held"

Lease == INSTANCE LeasedWork WITH
  Items <- Deliveries, Workers <- Procs, NoOne <- NoOne,
  phase <- [d \in Deliveries |-> Phase(d)], holder <- [d \in Deliveries |-> row[d].owner]

ImplementsLeasedWork == Lease!Spec

\* Unless a shutdown or a timeout released it, or it waits for a day beyond
\* MaxDays, every delivery is uploaded, failed or dead-lettered in the end,
\* whatever crashes, stalls and quota waits come between.  A released row is no
\* exception the code means to make: nothing claims an 'uploading' row that has
\* no lease.
DeliverySettles ==
  \A d \in Deliveries :
    row[d].state # "absent" ~>
      \/ row[d].state \in Settled
      \/ row[d].state = "uploading" /\ row[d].owner = NoOne
      \/ row[d].state = "quota_wait" /\ row[d].parked = MaxDays
=============================================================================
