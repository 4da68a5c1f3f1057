------------------------ MODULE YouTubeDeliveryProofs ------------------------
(***************************************************************************)
(* The safety properties of YouTubeDelivery, and that it implements        *)
(* LeasedWork, for any deliveries, processes, goroutines, ceilings,        *)
(* budgets and faults.                                                     *)
(***************************************************************************)
EXTENDS YouTubeDelivery, FiniteSetTheorems, TLAPS

LEMMA IdleRunType == IdleRun \in Run /\ IdleRun.pc = "idle"
<1>1. (CHOOSE d \in Deliveries : TRUE) \in Deliveries
  BY DeliveryAssumption
<1>2. 0 \in 0..MaxDays /\ 0 \in 0..MaxVideos
  BY DeliveryAssumption
<1> QED BY <1>1, <1>2 DEF IdleRun, Run

LEMMA RowType ==
  ASSUME TypeOK, NEW d \in Deliveries
  PROVE  /\ row[d] \in Row /\ row[d].att \in Nat /\ row[d].owner \in Procs \cup {NoOne}
         /\ row[d].vid \in 0..MaxVideos /\ losses[d] \in Nat
         /\ MaxAttempts \in Nat /\ MaxAttempts >= 1
BY DeliveryAssumption DEF TypeOK, Row

LEMMA SlotType ==
  ASSUME TypeOK, NEW s \in Slots
  PROVE  /\ run[s] \in Run /\ run[s].d \in Deliveries /\ run[s].day \in 0..MaxDays
         /\ run[s].calls \in Nat /\ run[s].vid \in 0..MaxVideos
         /\ Home[s] \in Procs /\ Home[s] # NoOne
BY DeliveryAssumption DEF TypeOK, Run

-----------------------------------------------------------------------------
(* What the steps write to youtube_target_publications.                    *)

RowWrite(d, x) == x \in Row /\ row' = [row EXCEPT ![d] = x]

LEMMA RowWriteType ==
  ASSUME TypeOK, NEW d \in Deliveries, NEW x, RowWrite(d, x)
  PROVE  row' \in [Deliveries -> Row] /\ row'[d] = x /\ \A e \in Deliveries \ {d} : row'[e] = row[e]
BY DEF RowWrite, TypeOK

LEMMA MaterializeWrite ==
  ASSUME TypeOK, NEW d \in Deliveries, NEW native \in BOOLEAN, Materialize(d, native)
  PROVE  \E x : /\ RowWrite(d, x) /\ row[d].state = "absent" /\ x.state = "ready_to_upload"
                /\ x.owner = row[d].owner /\ x.att = row[d].att
<1> DEFINE x == [row[d] EXCEPT !.state = "ready_to_upload", !.native = native]
<1>1. row[d] \in Row
  BY RowType
<1>2. x \in Row
  BY <1>1 DEF Row, Waiting
<1>3. row' = [row EXCEPT ![d] = x]
  BY <1>1 DEF Materialize, TypeOK, Row
<1>4. x.state = "ready_to_upload" /\ x.owner = row[d].owner /\ x.att = row[d].att
  BY <1>1 DEF Row
<1> HIDE DEF x
<1> QED BY <1>2, <1>3, <1>4 DEF RowWrite, Materialize

LEMMA ClaimWrite ==
  ASSUME TypeOK, NEW s \in Slots, NEW d \in Deliveries, ClaimReadyDeliveries(s, d)
  PROVE  \E x : /\ RowWrite(d, x) /\ row[d].state \in Waiting /\ x.state = "uploading"
                /\ x.owner = Home[s] /\ x.att = row[d].att
<1> DEFINE x == [row[d] EXCEPT !.state = "uploading", !.owner = Home[s]]
<1>1. row[d] \in Row /\ Home[s] \in Procs
  BY RowType, SlotType
<1>2. x \in Row
  BY <1>1 DEF Row
<1>3. row' = [row EXCEPT ![d] = x]
  BY <1>1 DEF ClaimReadyDeliveries, TypeOK, Row
<1>4. x.state = "uploading" /\ x.owner = Home[s] /\ x.att = row[d].att
  BY <1>1 DEF Row
<1> HIDE DEF x
<1> QED BY <1>2, <1>3, <1>4 DEF RowWrite, ClaimReadyDeliveries, Claimable

LEMMA ReclaimWrite ==
  ASSUME TypeOK, NEW d \in Deliveries, Reclaim(d)
  PROVE  \E x : /\ RowWrite(d, x) /\ row[d].owner \in Procs /\ x.state = "ready_to_upload"
                /\ x.owner = NoOne /\ x.att = row[d].att
<1> DEFINE x == [row[d] EXCEPT !.state = "ready_to_upload", !.owner = NoOne]
<1>1. row[d] \in Row /\ row[d].owner \in Procs
  BY RowType DEF Reclaim
<1>2. x \in Row
  BY <1>1 DEF Row, Waiting
<1>3. row' = [row EXCEPT ![d] = x]
  BY <1>1 DEF Reclaim, TypeOK, Row
<1>4. x.state = "ready_to_upload" /\ x.owner = NoOne /\ x.att = row[d].att
  BY <1>1 DEF Row
<1> HIDE DEF x
<1> QED BY <1>1, <1>2, <1>3, <1>4 DEF RowWrite

LEMMA ClearWrite ==
  ASSUME TypeOK, NEW d \in Deliveries, ClearYouTubeUpload(d)
  PROVE  \E x : /\ RowWrite(d, x) /\ x.state = row[d].state /\ x.owner = row[d].owner /\ x.att = 0
<1> DEFINE x == [row[d] EXCEPT !.vid = 0, !.stamped = FALSE, !.att = 0]
<1>1. row[d] \in Row /\ 0 \in 0..MaxVideos
  BY RowType, DeliveryAssumption
<1>2. x \in Row
  BY <1>1 DEF Row
<1>3. row' = [row EXCEPT ![d] = x]
  BY <1>1 DEF ClearYouTubeUpload, TypeOK, Row
<1>4. x.state = row[d].state /\ x.owner = row[d].owner /\ x.att = 0
  BY <1>1 DEF Row
<1> HIDE DEF x
<1> QED BY <1>2, <1>3, <1>4 DEF RowWrite

\* A Mark* writes the row of its owner and changes nothing for anyone else.
LEMMA MarkWrite ==
  ASSUME TypeOK, NEW s \in Slots, NEW d \in Deliveries, run[s].d = d, NEW new \in Row, Mark(s, new)
  PROVE  /\ row' = row \/ (Owns(s) /\ \E x : /\ RowWrite(d, x) /\ x.owner = NoOne
                                             /\ x.state = new.state /\ x.att = new.att)
         /\ run' \in [Slots -> Run] /\ run'[s].pc = "idle"
         /\ \A t \in Slots \ {s} : run'[t] = run[t]
<1> DEFINE x == [new EXCEPT !.owner = NoOne]
<1>1. x \in Row /\ x.owner = NoOne /\ x.state = new.state /\ x.att = new.att
  BY DEF Row
<1>2. row' = [row EXCEPT ![d] = IF Owns(s) THEN x ELSE row[d]]
  BY DEF Mark
<1> HIDE DEF x
<1>3. Owns(s) => RowWrite(d, x)
  BY <1>1, <1>2 DEF RowWrite
<1>4. ~Owns(s) => row' = row
  BY <1>2 DEF TypeOK
<1>5. run' \in [Slots -> Run] /\ run'[s].pc = "idle" /\ \A t \in Slots \ {s} : run'[t] = run[t]
  BY IdleRunType DEF Mark, TypeOK
<1> QED BY <1>1, <1>3, <1>4, <1>5

\* What an owner's Mark* makes of the row: it waits for the next day or stays
\* without a lease, it is settled, or it is charged an attempt and waits or dies.
Marks(d, x) ==
  /\ RowWrite(d, x) /\ row[d].owner \in Procs /\ x.owner = NoOne
  /\ \/ x.state \in {"quota_wait", "uploading"} /\ x.att = row[d].att
     \/ x.state \in {"youtube_uploaded", "failed"} /\ x.att = row[d].att + 1
     \/ /\ x.att = row[d].att + 1
        /\ x.state = IF row[d].att + 1 >= MaxAttempts THEN "dead_letter" ELSE "retry_wait"

LEMMA MarksWrite ==
  ASSUME TypeOK, NEW s \in Slots, NEW d \in Deliveries, run[s].d = d,
         row[d].owner # NoOne => row[d].state = "uploading",
         \/ MarkDeliveryQuotaWait(s) \/ MarkDeliveryUploaded(s) \/ MarkDeliveryFailed(s)
         \/ ReleaseDeliveryLease(s)
  PROVE  /\ row' = row \/ (Owns(s) /\ \E x : Marks(d, x))
         /\ run' \in [Slots -> Run] /\ run'[s].pc = "idle"
         /\ \A t \in Slots \ {s} : run'[t] = run[t]
         /\ (MarkDeliveryUploaded(s) \/ ReleaseDeliveryLease(s)) /\ row' # row =>
              row'[d].state \in {"youtube_uploaded", "uploading"}
<1>1. /\ row[d] \in Row /\ row[d].att + 1 \in Nat /\ run[s].day \in 0..MaxDays
      /\ run[s].vid \in 0..MaxVideos /\ Home[s] \in Procs
  BY RowType, SlotType
<1>2. Owns(s) => row[d].owner \in Procs /\ row[d].state = "uploading"
  BY <1>1, DeliveryAssumption DEF Owns
<1>3. CASE MarkDeliveryQuotaWait(s)
  <2> DEFINE new == [row[d] EXCEPT !.state = "quota_wait", !.parked = run[s].day]
  <2>1. new \in Row /\ new.state = "quota_wait" /\ new.att = row[d].att
    BY <1>1 DEF Row, Waiting
  <2>2. Mark(s, new)
    BY <1>3 DEF MarkDeliveryQuotaWait
  <2> HIDE DEF new
  <2>3. /\ row' = row \/ (Owns(s) /\ \E x : /\ RowWrite(d, x) /\ x.owner = NoOne
                                             /\ x.state = new.state /\ x.att = new.att)
        /\ run' \in [Slots -> Run] /\ run'[s].pc = "idle"
        /\ \A t \in Slots \ {s} : run'[t] = run[t]
    BY <2>1, <2>2, MarkWrite
  <2>4. run[s].pc = "refused"
    BY <1>3 DEF MarkDeliveryQuotaWait
  <2>5. ~MarkDeliveryUploaded(s) /\ ~ReleaseDeliveryLease(s)
    BY <2>4 DEF MarkDeliveryUploaded, ReleaseDeliveryLease, InsertUnanswered
  <2> QED BY <1>2, <2>1, <2>3, <2>5 DEF Marks
<1>4. CASE MarkDeliveryUploaded(s)
  <2> DEFINE new == [row[d] EXCEPT !.state = "youtube_uploaded", !.stamped = TRUE,
                                   !.vid = run[s].vid, !.att = row[d].att + 1]
  <2>1. new \in Row /\ new.state = "youtube_uploaded" /\ new.att = row[d].att + 1
    BY <1>1 DEF Row, Settled
  <2>2. Mark(s, new)
    BY <1>1, <1>4 DEF MarkDeliveryUploaded, Row
  <2> HIDE DEF new
  <2>3. /\ row' = row \/ (Owns(s) /\ \E x : /\ RowWrite(d, x) /\ x.owner = NoOne
                                             /\ x.state = new.state /\ x.att = new.att)
        /\ run' \in [Slots -> Run] /\ run'[s].pc = "idle"
        /\ \A t \in Slots \ {s} : run'[t] = run[t]
    BY <2>1, <2>2, MarkWrite
  <2>5. row' # row => row'[d].state = "youtube_uploaded"
    BY <2>1, <2>3, RowWriteType
  <2> QED BY <1>2, <2>1, <2>3, <2>5 DEF Marks
<1>5. CASE MarkDeliveryFailed(s)
  <2> DEFINE st == IF row[d].att + 1 >= MaxAttempts THEN "dead_letter" ELSE "retry_wait"
             new == [row[d] EXCEPT !.att = row[d].att + 1, !.state = st]
  <2>1. st \in Waiting \cup Settled
    BY DEF Waiting, Settled
  <2>2. new \in Row /\ new.state = st /\ new.att = row[d].att + 1
    BY <1>1, <2>1 DEF Row
  <2>3. Mark(s, new)
    BY <1>1, <1>5 DEF MarkDeliveryFailed, Row
  <2> HIDE DEF new
  <2>4. /\ row' = row \/ (Owns(s) /\ \E x : /\ RowWrite(d, x) /\ x.owner = NoOne
                                             /\ x.state = new.state /\ x.att = new.att)
        /\ run' \in [Slots -> Run] /\ run'[s].pc = "idle"
        /\ \A t \in Slots \ {s} : run'[t] = run[t]
    BY <2>2, <2>3, MarkWrite
  <2>5. run[s].pc = "failing"
    BY <1>5 DEF MarkDeliveryFailed
  <2>6. ~MarkDeliveryUploaded(s) /\ ~ReleaseDeliveryLease(s)
    BY <2>5 DEF MarkDeliveryUploaded, ReleaseDeliveryLease, InsertUnanswered
  <2> QED BY <1>2, <2>2, <2>4, <2>6 DEF Marks
<1>6. CASE ReleaseDeliveryLease(s)
  <2>1. Mark(s, row[d])
    BY <1>6 DEF ReleaseDeliveryLease
  <2>2. PICK new \in Row : new = row[d] /\ Mark(s, new)
    BY <1>1, <2>1
  <2>3. /\ row' = row \/ (Owns(s) /\ \E x : /\ RowWrite(d, x) /\ x.owner = NoOne
                                             /\ x.state = new.state /\ x.att = new.att)
        /\ run' \in [Slots -> Run] /\ run'[s].pc = "idle"
        /\ \A t \in Slots \ {s} : run'[t] = run[t]
    BY <2>2, MarkWrite
  <2>4. row' # row => row'[d].state = "uploading"
    BY <1>2, <2>2, <2>3, RowWriteType
  <2> QED BY <1>2, <2>2, <2>3, <2>4 DEF Marks
<1> QED BY <1>3, <1>4, <1>5, <1>6

LEMMA BlockedWrite ==
  ASSUME TypeOK, NEW s \in Slots, NEW d \in Deliveries, run[s].d = d, MarkDeliveryBlockedAuth(s)
  PROVE  row' = row \/ (Owns(s) /\ \E x : Marks(d, x) /\ x.state = "failed")
<1> DEFINE x == [row[d] EXCEPT !.state = "failed", !.att = row[d].att + 1, !.owner = NoOne]
<1>1. row[d] \in Row /\ row[d].att + 1 \in Nat /\ Home[s] \in Procs
  BY RowType, SlotType
<1>2. x \in Row /\ x.state = "failed" /\ x.att = row[d].att + 1 /\ x.owner = NoOne
  BY <1>1 DEF Row, Settled
<1>3. Owns(s) => row' = [row EXCEPT ![d] = x]
  BY <1>1 DEF MarkDeliveryBlockedAuth, TypeOK, Row
<1> HIDE DEF x
<1>4. Owns(s) => Marks(d, x)
  BY <1>1, <1>2, <1>3 DEF Marks, RowWrite, Owns
<1>5. ~Owns(s) => row' = row
  BY DEF MarkDeliveryBlockedAuth, TypeOK
<1> QED BY <1>2, <1>4, <1>5

-----------------------------------------------------------------------------
(* What the steps of a goroutine make of it.                               *)

LEMMA GoesType ==
  ASSUME TypeOK, NEW s \in Slots, NEW from,
         NEW to \in {"refused", "paid", "failing", "blocking"}, Goes(s, from, to)
  PROVE  /\ run' \in [Slots -> Run] /\ run[s].pc = from /\ run'[s].pc = to
         /\ run'[s].d = run[s].d /\ run'[s].day = run[s].day /\ run'[s].calls = run[s].calls
         /\ \A t \in Slots \ {s} : run'[t] = run[t]
<1>1. run[s] \in Run
  BY SlotType
<1>2. [run[s] EXCEPT !.pc = to] \in Run
  BY <1>1 DEF Run
<1> QED BY <1>1, <1>2 DEF Goes, TypeOK, Run

LEMMA ClaimRun ==
  ASSUME TypeOK, NEW s \in Slots, NEW d \in Deliveries, ClaimReadyDeliveries(s, d)
  PROVE  /\ run' \in [Slots -> Run] /\ run[s].pc = "idle" /\ run'[s].pc = "open" /\ run'[s].d = d
         /\ \A t \in Slots \ {s} : run'[t] = run[t]
<1> DEFINE x == [IdleRun EXCEPT !.pc = "open", !.d = d]
<1>1. x \in Run /\ x.pc = "open" /\ x.d = d
  BY IdleRunType DEF Run
<1>2. run' = [run EXCEPT ![s] = x] /\ run[s].pc = "idle"
  BY DEF ClaimReadyDeliveries
<1> HIDE DEF x
<1> QED BY <1>1, <1>2 DEF TypeOK

LEMMA LockRun ==
  ASSUME TypeOK, NEW s \in Slots, ReserveLock(s)
  PROVE  /\ run' \in [Slots -> Run] /\ run[s].pc = "open" /\ run'[s].pc = "locked"
         /\ run'[s].d = run[s].d /\ run'[s].day = day /\ run'[s].calls = quota[day].calls
         /\ \A t \in Slots \ {s} : run'[t] = run[t]
         /\ quota' \in [Days -> Quota] /\ quota'[day].lock = s
         /\ \A t \in Days : quota'[t].calls = quota[t].calls /\ quota'[t].limit = quota[t].limit
         /\ \A t \in Days \ {day} : quota'[t] = quota[t]
<1>1. run[s] \in Run /\ day \in Days /\ quota[day] \in Quota
  BY SlotType DEF TypeOK
<1>2. day \in 0..MaxDays /\ quota[day].calls \in Nat
  BY <1>1, DeliveryAssumption DEF Days, Quota
<1>3. [run[s] EXCEPT !.pc = "locked", !.day = day, !.calls = quota[day].calls] \in Run
  BY <1>1, <1>2 DEF Run
<1>4. [quota[day] EXCEPT !.lock = s] \in Quota
  BY <1>1 DEF Quota
<1>5. /\ run' \in [Slots -> Run] /\ run[s].pc = "open" /\ run'[s].pc = "locked"
      /\ run'[s].d = run[s].d /\ run'[s].day = day /\ run'[s].calls = quota[day].calls
      /\ \A t \in Slots \ {s} : run'[t] = run[t]
  BY <1>1, <1>3 DEF ReserveLock, TypeOK, Run
<1>6. /\ quota' \in [Days -> Quota] /\ quota'[day].lock = s
      /\ quota'[day].calls = quota[day].calls /\ quota'[day].limit = quota[day].limit
      /\ \A t \in Days \ {day} : quota'[t] = quota[t]
  BY <1>1, <1>4 DEF ReserveLock, TypeOK, Quota
<1> QED BY <1>5, <1>6

\* The commit, or the rollback of a refusal, on the row of day t.
LEMMA CommitQuota ==
  ASSUME TypeOK, NEW s \in Slots, NEW t \in Days, run[s].day = t, ReserveCommit(s)
  PROVE  /\ quota' \in [Days -> Quota] /\ quota'[t].calls = quota[t].calls + 1
         /\ quota'[t].limit = Ceiling(s)
         /\ \A u \in Days \ {t} : quota'[u] = quota[u]
<1>1. quota[t] \in Quota /\ Limit[Home[s]] \in Nat
  BY SlotType, DeliveryAssumption DEF TypeOK
<1>2. quota[t].calls + 1 \in Nat /\ Ceiling(s) \in Nat
  BY <1>1 DEF Quota, Ceiling
<1>3. [calls |-> quota[t].calls + 1, limit |-> Ceiling(s), lock |-> NoOne] \in Quota
  BY <1>2 DEF Quota
<1> QED BY <1>1, <1>3 DEF ReserveCommit, TypeOK

LEMMA RefuseQuota ==
  ASSUME TypeOK, NEW s \in Slots, NEW t \in Days, run[s].day = t, ReserveRefuse(s)
  PROVE  /\ quota' \in [Days -> Quota] /\ quota'[t].calls = quota[t].calls
         /\ quota'[t].limit = quota[t].limit
         /\ \A u \in Days \ {t} : quota'[u] = quota[u]
<1>1. quota[t] \in Quota
  BY DEF TypeOK
<1>2. [quota[t] EXCEPT !.lock = NoOne] \in Quota
  BY <1>1 DEF Quota
<1> QED BY <1>1, <1>2 DEF ReserveRefuse, TypeOK, Quota

LEMMA CrashType ==
  ASSUME TypeOK, NEW p \in Procs, Crash(p)
  PROVE  /\ run' \in [Slots -> Run] /\ quota' \in [Days -> Quota]
         /\ \A s \in Slots : run'[s] = IF Home[s] = p THEN IdleRun ELSE run[s]
         /\ \A t \in Days : quota'[t].calls = quota[t].calls /\ quota'[t].limit = quota[t].limit
         /\ \A t \in Days, s \in Slots : quota[t].lock = s /\ Home[s] # p => quota'[t].lock = s
         /\ up' \subseteq Procs
<1>1. /\ run' \in [Slots -> Run] /\ up' \subseteq Procs
      /\ \A s \in Slots : run'[s] = IF Home[s] = p THEN IdleRun ELSE run[s]
  BY IdleRunType DEF Crash, TypeOK
<1>2. ASSUME NEW t \in Days
      PROVE  /\ quota'[t] \in Quota
             /\ quota'[t].calls = quota[t].calls /\ quota'[t].limit = quota[t].limit
             /\ \A s \in Slots : quota[t].lock = s /\ Home[s] # p => quota'[t].lock = s
  <2>1. quota[t] \in Quota
    BY DEF TypeOK
  <2>2. [quota[t] EXCEPT !.lock = NoOne] \in Quota
    BY <2>1 DEF Quota
  <2>3. CASE \E s \in Slots : quota[t].lock = s /\ Home[s] = p
    <3>1. quota'[t] = [quota[t] EXCEPT !.lock = NoOne]
      BY <2>3 DEF Crash
    <3> QED BY <2>1, <2>2, <2>3, <3>1 DEF Quota
  <2>4. CASE ~\E s \in Slots : quota[t].lock = s /\ Home[s] = p
    <3>1. quota'[t] = quota[t]
      BY <2>4 DEF Crash
    <3> QED BY <2>1, <3>1
  <2> QED BY <2>3, <2>4
<1>3. quota' \in [Days -> Quota]
  BY <1>2 DEF Crash
<1> QED BY <1>1, <1>2, <1>3

\* A new video: the other videos stay.
LEMMA NewVideoType ==
  ASSUME TypeOK, NEW d \in Deliveries, NEW v \in Videos, NewVideo(d, v)
  PROVE  /\ video' \in [Deliveries -> [Videos -> Visibility]]
         /\ v \notin Inserted(d) /\ Inserted(d)' = Inserted(d) \cup {v}
         /\ \A e \in Deliveries \ {d} : video'[e] = video[e]
         /\ \A w \in Videos \ {v} : video'[d][w] = video[d][w]
<1>1. video[d] \in [Videos -> Visibility] /\ video[d][v] = "none"
  BY DEF TypeOK, NewVideo
<1>2. video' = [video EXCEPT ![d] = [video[d] EXCEPT ![v] = "private"]]
  BY <1>1 DEF NewVideo, TypeOK
<1>3. [video[d] EXCEPT ![v] = "private"] \in [Videos -> Visibility]
  BY <1>1 DEF Visibility, Present
<1>4. /\ video' \in [Deliveries -> [Videos -> Visibility]]
      /\ video'[d] = [video[d] EXCEPT ![v] = "private"]
      /\ \A e \in Deliveries \ {d} : video'[e] = video[e]
  BY <1>2, <1>3 DEF TypeOK
<1>5. video'[d][v] = "private" /\ \A w \in Videos \ {v} : video'[d][w] = video[d][w]
  BY <1>1, <1>4
<1> QED BY <1>1, <1>4, <1>5 DEF Inserted

\* A video that tells that d may be called published.
Shown(d) == IF row[d].native THEN {"public", "withdrawn"}
            ELSE {"kept", "unlisted", "public", "closed", "withdrawn"}

\* A change of visibility: no video comes or goes, and what was shown has been.
LEMMA SeenType ==
  ASSUME TypeOK, NEW d \in Deliveries, NEW v \in Videos,
         NEW x \in Present \cup Deleted, video[d][v] \in Present,
         video[d][v] \in Shown(d) => x \in Shown(d),
         video' = [video EXCEPT ![d][v] = x]
  PROVE  /\ video' \in [Deliveries -> [Videos -> Visibility]] /\ video'[d][v] = x
         /\ \A e \in Deliveries : Inserted(e)' = Inserted(e)
         /\ \A e \in Deliveries, w \in Videos :
              video[e][w] \in Shown(e) => video'[e][w] \in Shown(e)
<1>1. video[d] \in [Videos -> Visibility]
  BY DEF TypeOK
<1>2. video' = [video EXCEPT ![d] = [video[d] EXCEPT ![v] = x]]
  BY <1>1 DEF TypeOK
<1>3. [video[d] EXCEPT ![v] = x] \in [Videos -> Visibility] /\ x # "none" /\ video[d][v] # "none"
  BY <1>1 DEF Visibility, Present, Deleted
<1>4. /\ video' \in [Deliveries -> [Videos -> Visibility]]
      /\ video'[d] = [video[d] EXCEPT ![v] = x]
      /\ \A e \in Deliveries \ {d} : video'[e] = video[e]
  BY <1>2, <1>3 DEF TypeOK
<1>5. video'[d][v] = x /\ \A w \in Videos \ {v} : video'[d][w] = video[d][w]
  BY <1>1, <1>4
<1> QED BY <1>3, <1>4, <1>5 DEF Inserted

-----------------------------------------------------------------------------
(* The rows: whatever happens, a step leaves the table alone or is one of  *)
(* five writes of one row.                                                 *)

RowSteps(d, x) ==
  \/ /\ RowWrite(d, x) /\ row[d].state = "absent" /\ x.state = "ready_to_upload"
     /\ x.owner = row[d].owner /\ x.att = row[d].att
  \/ /\ RowWrite(d, x) /\ row[d].state \in Waiting /\ x.state = "uploading"
     /\ x.owner \in Procs /\ x.att = row[d].att
  \/ /\ RowWrite(d, x) /\ row[d].owner \in Procs /\ x.state = "ready_to_upload"
     /\ x.owner = NoOne /\ x.att = row[d].att
  \/ RowWrite(d, x) /\ x.state = row[d].state /\ x.owner = row[d].owner /\ x.att = 0
  \/ Marks(d, x)

\* A lease stands on a row that is being uploaded, and a row that can be worked on
\* has attempts left.
TableInv(d) ==
  /\ row[d].owner # NoOne => row[d].state = "uploading"
  /\ row[d].att <= MaxAttempts
  /\ row[d].state \in Waiting \cup {"absent", "uploading"} => row[d].att < MaxAttempts

LEMMA RowNext ==
  ASSUME TypeOK, \A d \in Deliveries : TableInv(d), [Next]_vars
  PROVE  row' = row \/ \E d \in Deliveries, x \in Row : RowSteps(d, x)
<1>1. ASSUME NEW d \in Deliveries, NEW native \in BOOLEAN, Materialize(d, native)
      PROVE  \E x \in Row : RowSteps(d, x)
  BY <1>1, MaterializeWrite DEF RowSteps, RowWrite
<1>2. ASSUME NEW s \in Slots, NEW d \in Deliveries, ClaimReadyDeliveries(s, d)
      PROVE  \E x \in Row : RowSteps(d, x)
  BY <1>2, ClaimWrite, SlotType DEF RowSteps, RowWrite
<1>3. ASSUME NEW s \in Slots, SlotStep(s) \/ ReleaseDeliveryLease(s) \/ Drop(s)
      PROVE  row' = row \/ \E d \in Deliveries, x \in Row : RowSteps(d, x)
  <2>1. PICK d \in Deliveries : run[s].d = d
    BY SlotType
  <2>2. row[d].owner # NoOne => row[d].state = "uploading"
    BY DEF TableInv
  <2>3. CASE \/ MarkDeliveryQuotaWait(s) \/ MarkDeliveryUploaded(s) \/ MarkDeliveryFailed(s)
             \/ ReleaseDeliveryLease(s)
    BY <2>1, <2>2, <2>3, MarksWrite DEF RowSteps, Marks, RowWrite
  <2>4. CASE MarkDeliveryBlockedAuth(s)
    BY <2>1, <2>4, BlockedWrite DEF RowSteps, Marks, RowWrite
  <2>5. CASE \/ PreflightFails(s) \/ SetTargetStatus(s) \/ ReserveLock(s) \/ ReserveCommit(s)
             \/ ReserveRefuse(s) \/ Upload(s) \/ UploadFails(s) \/ MarkUploadedFails(s) \/ Drop(s)
    BY <2>5 DEF PreflightFails, SetTargetStatus, ReserveLock, ReserveCommit, ReserveRefuse, Upload,
                UploadFails, MarkUploadedFails, Drop
  <2> QED BY <1>3, <2>3, <2>4, <2>5 DEF SlotStep
<1>4. ASSUME NEW d \in Deliveries, Reclaim(d) \/ ClearYouTubeUpload(d)
      PROVE  \E x \in Row : RowSteps(d, x)
  BY <1>4, ReclaimWrite, ClearWrite DEF RowSteps, RowWrite
<1>5. ASSUME NEW d \in Deliveries, ClaimTarget(d) \/ DriverStep(d), ~ClearYouTubeUpload(d)
      PROVE  row' = row
  BY <1>5 DEF ClaimTarget, DriverStep, FindByPostTargetID, TryLater, WaitForDelivery,
              SettleNativePublish, UpdateVideoPrivacy, UpdateFails, MarkYouTubeTargetPublished
<1>6. ASSUME NEW d \in Deliveries, NEW v \in Videos, YouTubePublishes(d, v) \/ VideoDeleted(d, v)
      PROVE  row' = row
  BY <1>6 DEF YouTubePublishes, VideoDeleted
<1>7. CASE NextDay \/ (\E p \in Procs : Crash(p)) \/ UNCHANGED vars
  BY <1>7 DEF NextDay, Crash, vars
<1> QED BY <1>1, <1>2, <1>3, <1>4, <1>5, <1>6, <1>7 DEF Next

LEMMA RowsKeep ==
  ASSUME TypeOK, \A d \in Deliveries : TableInv(d), [Next]_vars
  PROVE  row' \in [Deliveries -> Row] /\ \A d \in Deliveries : TableInv(d)'
<1>1. CASE row' = row
  BY <1>1 DEF TypeOK, TableInv
<1>2. CASE \E d \in Deliveries, x \in Row : RowSteps(d, x)
  <2>1. PICK d \in Deliveries, x \in Row : RowSteps(d, x)
    BY <1>2
  <2>2. RowWrite(d, x)
    BY <2>1 DEF RowSteps, Marks
  <2>3. /\ row' \in [Deliveries -> Row] /\ row'[d] = x
        /\ \A e \in Deliveries \ {d} : row'[e] = row[e]
    BY <2>2, RowWriteType
  <2>4. row[d].att \in Nat /\ MaxAttempts \in Nat /\ MaxAttempts >= 1 /\ TableInv(d)
    BY RowType
  <2>5. /\ x.owner # NoOne => x.state = "uploading"
        /\ x.att <= MaxAttempts
        /\ x.state \in Waiting \cup {"absent", "uploading"} => x.att < MaxAttempts
    BY <2>1, <2>4, DeliveryAssumption DEF RowSteps, Marks, TableInv, Waiting
  <2>6. TableInv(d)'
    BY <2>3, <2>5 DEF TableInv
  <2>7. \A e \in Deliveries \ {d} : TableInv(e)'
    BY <2>3 DEF TableInv
  <2> QED BY <2>3, <2>6, <2>7
<1> QED BY <1>1, <1>2, RowNext

-----------------------------------------------------------------------------
(* The quota.                                                              *)

\* The row lock: what a goroutine read under it is still so.
RunInv(s) ==
  /\ run[s].pc = "locked" =>
       /\ run[s].day \in Days
       /\ quota[run[s].day].lock = s /\ run[s].calls = quota[run[s].day].calls
  /\ run[s].pc = "paid" => run[s].day \in Days

\* The goroutines that have paid for a call they have not made yet.
Paid(t) == {s \in Slots : run[s].pc = "paid" /\ run[s].day = t}

\* Every call is paid for before it is made, and the stored ceiling is some
\* process's own.
QuotaInv(t) ==
  /\ IsFiniteSet(Paid(t)) /\ made[t] + Cardinality(Paid(t)) <= quota[t].calls
  /\ \/ quota[t].calls = 0 /\ quota[t].limit = 0
     \/ \E p \in Procs : quota[t].limit = Limit[p] /\ quota[t].calls <= quota[t].limit

\* A goroutine that may still upload, or put the row back for another upload.
Able == {"open", "locked", "refused", "paid", "failing"}

LEMMA Fewer ==
  ASSUME NEW S, NEW T, IsFiniteSet(S), T \subseteq S
  PROVE  /\ IsFiniteSet(T) /\ Cardinality(T) \in Nat /\ Cardinality(S) \in Nat
         /\ Cardinality(T) <= Cardinality(S)
         /\ \A x \in S \ T : Cardinality(T) + 1 <= Cardinality(S)
<1>1. IsFiniteSet(T) /\ Cardinality(T) \in Nat /\ Cardinality(S) \in Nat
      /\ Cardinality(T) <= Cardinality(S)
  BY FS_Subset, FS_CardinalityType
<1>2. ASSUME NEW x \in S \ T PROVE Cardinality(T) + 1 <= Cardinality(S)
  <2>1. T \subseteq S \ {x}
    BY <1>2
  <2>2. IsFiniteSet(S \ {x}) /\ Cardinality(S \ {x}) = Cardinality(S) - 1
    BY <1>2, FS_RemoveElement
  <2>3. Cardinality(T) <= Cardinality(S \ {x})
    BY <2>1, <2>2, FS_Subset
  <2> QED BY <1>1, <2>2, <2>3
<1> QED BY <1>1, <1>2

LEMMA OneMore ==
  ASSUME NEW S, NEW T, NEW x, IsFiniteSet(S), x \notin S, T \subseteq S \cup {x}
  PROVE  /\ IsFiniteSet(T) /\ Cardinality(T) \in Nat /\ Cardinality(S) \in Nat
         /\ Cardinality(T) <= Cardinality(S) + 1
<1>1. IsFiniteSet(S \cup {x}) /\ Cardinality(S \cup {x}) = Cardinality(S) + 1
  BY FS_AddElement
<1> QED BY <1>1, FS_Subset, FS_CardinalityType

\* The steps of a goroutine that neither reserve nor upload nor lose an answer.
QuietStep(s) ==
  \/ PreflightFails(s) \/ MarkDeliveryBlockedAuth(s) \/ SetTargetStatus(s)
  \/ MarkDeliveryQuotaWait(s) \/ MarkDeliveryUploaded(s) \/ MarkDeliveryFailed(s)
  \/ (ReleaseDeliveryLease(s) /\ run[s].pc = "open") \/ Drop(s)

LEMMA QuietRun ==
  ASSUME TypeOK, \A d \in Deliveries : TableInv(d), NEW s \in Slots, QuietStep(s)
  PROVE  /\ run' \in [Slots -> Run] /\ \A t \in Slots \ {s} : run'[t] = run[t]
         /\ run'[s].pc \in {"idle", "failing", "blocking"}
         /\ run'[s].pc = "failing" => run[s].pc = "open" /\ run'[s].d = run[s].d
         /\ UNCHANGED <<pub, video, quota, made, day, up, losses>>
<1>1. PICK d \in Deliveries : run[s].d = d
  BY SlotType
<1>2. row[d].owner # NoOne => row[d].state = "uploading"
  BY DEF TableInv
<1>3. CASE PreflightFails(s)
  BY <1>3, GoesType DEF PreflightFails
<1>4. CASE MarkDeliveryBlockedAuth(s)
  BY <1>4, GoesType DEF MarkDeliveryBlockedAuth
<1>5. CASE SetTargetStatus(s) \/ Drop(s)
  BY <1>5, IdleRunType DEF SetTargetStatus, Drop, TypeOK
<1>6. CASE \/ MarkDeliveryQuotaWait(s) \/ MarkDeliveryUploaded(s) \/ MarkDeliveryFailed(s)
           \/ (ReleaseDeliveryLease(s) /\ run[s].pc = "open")
  <2>1. /\ run' \in [Slots -> Run] /\ run'[s].pc = "idle"
        /\ \A t \in Slots \ {s} : run'[t] = run[t]
    BY <1>1, <1>2, <1>6, MarksWrite
  <2>2. UNCHANGED <<pub, video, quota, made, day, up, losses>>
    BY <1>6 DEF MarkDeliveryQuotaWait, MarkDeliveryUploaded, MarkDeliveryFailed,
                ReleaseDeliveryLease, InsertUnanswered
  <2> QED BY <2>1, <2>2
<1> QED BY <1>3, <1>4, <1>5, <1>6 DEF QuietStep

LEMMA QuotaType ==
  ASSUME TypeOK, NEW t \in Days
  PROVE  quota[t] \in Quota /\ quota[t].calls \in Nat /\ quota[t].limit \in Nat /\ made[t] \in Nat
BY DEF TypeOK, Quota

LEMMA QuotaKept ==
  ASSUME TypeOK, NEW t \in Days, QuotaInv(t), Paid(t)' \subseteq Paid(t),
         quota'[t].calls = quota[t].calls, quota'[t].limit = quota[t].limit, made'[t] = made[t]
  PROVE  QuotaInv(t)'
BY QuotaType, Fewer DEF QuotaInv

\* Nothing is reserved or uploaded by s.
LEMMA QuotaRests ==
  ASSUME TypeOK, \A u \in Slots : RunInv(u), \A t \in Days : QuotaInv(t), NEW s \in Slots,
         \A u \in Slots \ {s} : run'[u] = run[u], run'[s].pc \notin {"locked", "paid"},
         UNCHANGED <<quota, made>>
  PROVE  (\A u \in Slots : RunInv(u)') /\ \A t \in Days : QuotaInv(t)'
<1>1. \A u \in Slots : RunInv(u)'
  BY DEF RunInv
<1>2. \A t \in Days : Paid(t)' \subseteq Paid(t)
  BY DEF Paid
<1> QED BY <1>1, <1>2, QuotaKept

LEMMA LockKeeps ==
  ASSUME TypeOK, \A u \in Slots : RunInv(u), \A t \in Days : QuotaInv(t), NEW s \in Slots,
         ReserveLock(s)
  PROVE  (\A u \in Slots : RunInv(u)') /\ \A t \in Days : QuotaInv(t)'
<1>1. day \in Days /\ quota[day].lock = NoOne /\ made' = made
  BY DEF TypeOK, ReserveLock
<1>2. ASSUME NEW u \in Slots PROVE RunInv(u)'
  <2>1. CASE u = s
    BY <1>1, <2>1, LockRun DEF RunInv
  <2>2. CASE u # s
    <3>1. run'[u] = run[u]
      BY <2>2, LockRun
    <3>2. run[u].pc = "locked" => run[u].day # day
      BY <1>1, DeliveryAssumption DEF RunInv
    <3>3. \A t \in Days \ {day} : quota'[t] = quota[t]
      BY LockRun
    <3> QED BY <3>1, <3>2, <3>3 DEF RunInv
  <2> QED BY <2>1, <2>2
<1>3. \A t \in Days : Paid(t)' \subseteq Paid(t)
  <2>1. run'[s].pc = "locked" /\ \A u \in Slots \ {s} : run'[u] = run[u]
    BY LockRun
  <2> QED BY <2>1 DEF Paid
<1>4. \A t \in Days : quota'[t].calls = quota[t].calls /\ quota'[t].limit = quota[t].limit
  BY LockRun
<1> QED BY <1>1, <1>2, <1>3, <1>4, QuotaKept

LEMMA CommitKeeps ==
  ASSUME TypeOK, \A u \in Slots : RunInv(u), \A t \in Days : QuotaInv(t), NEW s \in Slots,
         ReserveCommit(s)
  PROVE  (\A u \in Slots : RunInv(u)') /\ \A t \in Days : QuotaInv(t)'
<1>1. /\ run[s].pc = "locked" /\ run'[s].pc = "paid" /\ run'[s].day = run[s].day
      /\ \A u \in Slots \ {s} : run'[u] = run[u]
  BY GoesType DEF ReserveCommit
<1>2. PICK t \in Days : run[s].day = t /\ quota[t].lock = s /\ run[s].calls = quota[t].calls
  BY <1>1 DEF RunInv
<1>3. /\ quota'[t].calls = quota[t].calls + 1 /\ quota'[t].limit = Ceiling(s)
      /\ \A u \in Days \ {t} : quota'[u] = quota[u]
  BY <1>2, CommitQuota
<1>4. made' = made /\ quota[t].calls + 1 <= Ceiling(s)
  BY <1>2 DEF ReserveCommit
<1>5. ASSUME NEW u \in Slots PROVE RunInv(u)'
  <2>1. CASE u = s
    BY <1>1, <1>2, <2>1 DEF RunInv
  <2>2. CASE u # s
    <3>1. run'[u] = run[u]
      BY <1>1, <2>2
    <3>2. run[u].pc = "locked" => run[u].day # t
      BY <1>2, <2>2 DEF RunInv
    <3> QED BY <1>3, <3>1, <3>2 DEF RunInv
  <2> QED BY <2>1, <2>2
<1>6. QuotaInv(t)'
  <2>1. Paid(t)' \subseteq Paid(t) \cup {s} /\ s \notin Paid(t)
    BY <1>1 DEF Paid
  <2>2. IsFiniteSet(Paid(t))
    BY DEF QuotaInv
  <2>3. /\ IsFiniteSet(Paid(t)') /\ Cardinality(Paid(t)') \in Nat /\ Cardinality(Paid(t)) \in Nat
        /\ Cardinality(Paid(t)') <= Cardinality(Paid(t)) + 1
    BY <2>1, <2>2, OneMore
  <2>4. made'[t] + Cardinality(Paid(t)') <= quota'[t].calls
    BY <1>3, <1>4, <2>3, QuotaType DEF QuotaInv
  <2>5. \E p \in Procs : Ceiling(s) = Limit[p]
    <3>1. Home[s] \in Procs /\ Limit[Home[s]] \in Nat /\ Limit[Home[s]] > 0
      BY SlotType, DeliveryAssumption
    <3>2. quota[t].limit = 0 \/ \E p \in Procs : quota[t].limit = Limit[p]
      BY DEF QuotaInv
    <3> QED BY <1>2, <3>1, <3>2, QuotaType DEF Ceiling
  <2> QED BY <1>3, <1>4, <2>3, <2>4, <2>5 DEF QuotaInv
<1>7. ASSUME NEW u \in Days, u # t PROVE QuotaInv(u)'
  <2>1. Paid(u)' \subseteq Paid(u)
    BY <1>1, <1>2, <1>7 DEF Paid
  <2> QED BY <1>3, <1>4, <1>7, <2>1, QuotaKept
<1> QED BY <1>5, <1>6, <1>7

LEMMA RefuseKeeps ==
  ASSUME TypeOK, \A u \in Slots : RunInv(u), \A t \in Days : QuotaInv(t), NEW s \in Slots,
         ReserveRefuse(s)
  PROVE  (\A u \in Slots : RunInv(u)') /\ \A t \in Days : QuotaInv(t)'
<1>1. /\ run[s].pc = "locked" /\ run'[s].pc = "refused"
      /\ \A u \in Slots \ {s} : run'[u] = run[u]
  BY GoesType DEF ReserveRefuse
<1>2. PICK t \in Days : run[s].day = t /\ quota[t].lock = s
  BY <1>1 DEF RunInv
<1>3. /\ quota'[t].calls = quota[t].calls /\ quota'[t].limit = quota[t].limit
      /\ \A u \in Days \ {t} : quota'[u] = quota[u]
  BY <1>2, RefuseQuota
<1>4. made' = made
  BY DEF ReserveRefuse
<1>5. ASSUME NEW u \in Slots PROVE RunInv(u)'
  <2>1. CASE u = s
    BY <1>1, <2>1 DEF RunInv
  <2>2. CASE u # s
    <3>1. run'[u] = run[u]
      BY <1>1, <2>2
    <3>2. run[u].pc = "locked" => run[u].day # t
      BY <1>2, <2>2 DEF RunInv
    <3> QED BY <1>3, <3>1, <3>2 DEF RunInv
  <2> QED BY <2>1, <2>2
<1>6. \A u \in Days : Paid(u)' \subseteq Paid(u)
  BY <1>1 DEF Paid
<1> QED BY <1>3, <1>4, <1>5, <1>6, QuotaKept

\* videos.insert is called, with whatever answer: the goroutine has nothing paid left.
LEMMA CallKeeps ==
  ASSUME TypeOK, \A u \in Slots : RunInv(u), \A t \in Days : QuotaInv(t), NEW s \in Slots,
         run[s].pc = "paid", run'[s].pc \in {"sent", "failing", "idle"},
         \A u \in Slots \ {s} : run'[u] = run[u],
         made' = [made EXCEPT ![run[s].day] = @ + 1], quota' = quota
  PROVE  (\A u \in Slots : RunInv(u)') /\ \A t \in Days : QuotaInv(t)'
<1>1. PICK t \in Days : run[s].day = t
  BY DEF RunInv
<1>2. made'[t] = made[t] + 1 /\ \A u \in Days \ {t} : made'[u] = made[u]
  BY <1>1 DEF TypeOK
<1>3. \A u \in Slots : RunInv(u)'
  BY DEF RunInv
<1>4. QuotaInv(t)'
  <2>1. s \in Paid(t) /\ Paid(t)' \subseteq Paid(t) \ {s}
    BY <1>1 DEF Paid
  <2>2. IsFiniteSet(Paid(t))
    BY DEF QuotaInv
  <2>3. /\ IsFiniteSet(Paid(t)') /\ Cardinality(Paid(t)') \in Nat /\ Cardinality(Paid(t)) \in Nat
        /\ Cardinality(Paid(t)') + 1 <= Cardinality(Paid(t))
    BY <2>1, <2>2, Fewer
  <2> QED BY <1>2, <2>3, QuotaType DEF QuotaInv
<1>5. ASSUME NEW u \in Days, u # t PROVE QuotaInv(u)'
  <2>1. Paid(u)' \subseteq Paid(u)
    BY DEF Paid
  <2> QED BY <1>2, <1>5, <2>1, QuotaKept
<1> QED BY <1>3, <1>4, <1>5

LEMMA UploadRun ==
  ASSUME TypeOK, NEW s \in Slots, NEW d \in Deliveries, run[s].d = d, Upload(s)
  PROVE  /\ run' \in [Slots -> Run] /\ run[s].pc = "paid" /\ run'[s].pc = "sent" /\ run'[s].d = d
         /\ \A u \in Slots \ {s} : run'[u] = run[u]
         /\ \E v \in Videos : NewVideo(d, v)
         /\ made' = [made EXCEPT ![run[s].day] = @ + 1]
         /\ UNCHANGED <<row, target, pub, quota, day, up, losses>>
<1>1. PICK v \in Videos :
        NewVideo(d, v) /\ run' = [run EXCEPT ![s].pc = "sent", ![s].vid = v]
  BY DEF Upload
<1> DEFINE y == [run[s] EXCEPT !.pc = "sent", !.vid = v]
<1>2. run[s] \in Run /\ v \in 0..MaxVideos
  BY SlotType, DeliveryAssumption DEF Videos
<1>3. y \in Run /\ y.pc = "sent" /\ y.d = d
  BY <1>2 DEF Run
<1>4. run' = [run EXCEPT ![s] = y]
  BY <1>1, <1>2 DEF TypeOK, Run
<1> HIDE DEF y
<1>5. /\ run' \in [Slots -> Run] /\ run'[s].pc = "sent" /\ run'[s].d = d
      /\ \A u \in Slots \ {s} : run'[u] = run[u]
  BY <1>3, <1>4 DEF TypeOK
<1> QED BY <1>1, <1>5 DEF Upload

\* The call failed, or the answer to a call that worked was lost.
LEMMA UploadFailsRun ==
  ASSUME TypeOK, NEW s \in Slots, NEW d \in Deliveries, run[s].d = d, UploadFails(s)
  PROVE  /\ run' \in [Slots -> Run] /\ run[s].pc = "paid" /\ run'[s].pc = "failing"
         /\ run'[s].d = d /\ \A u \in Slots \ {s} : run'[u] = run[u]
         /\ \/ video' = video /\ losses' = losses
            \/ (\E v \in Videos : NewVideo(d, v)) /\ losses' = [losses EXCEPT ![d] = @ + 1]
         /\ made' = [made EXCEPT ![run[s].day] = @ + 1]
         /\ UNCHANGED <<row, target, pub, quota, day, up>>
<1>1. Goes(s, "paid", "failing")
  BY DEF UploadFails
<1>2. /\ run' \in [Slots -> Run] /\ run[s].pc = "paid" /\ run'[s].pc = "failing"
      /\ run'[s].d = d /\ \A u \in Slots \ {s} : run'[u] = run[u]
  BY <1>1, GoesType
<1> QED BY <1>2 DEF UploadFails, InsertUnanswered

\* A release, whichever call was cut off.
LEMMA ReleaseRun ==
  ASSUME TypeOK, \A d \in Deliveries : TableInv(d), NEW s \in Slots, NEW d \in Deliveries,
         run[s].d = d, ReleaseDeliveryLease(s)
  PROVE  /\ run' \in [Slots -> Run] /\ run'[s].pc = "idle"
         /\ \A u \in Slots \ {s} : run'[u] = run[u]
         /\ UNCHANGED <<target, pub, quota, day, up>>
         /\ \/ run[s].pc = "open" /\ QuietStep(s)
            \/ /\ run[s].pc = "paid" /\ made' = [made EXCEPT ![run[s].day] = @ + 1]
               /\ \/ video' = video /\ losses' = losses
                  \/ (\E v \in Videos : NewVideo(d, v)) /\ losses' = [losses EXCEPT ![d] = @ + 1]
            \/ /\ run[s].pc = "sent" /\ losses' = [losses EXCEPT ![d] = @ + 1]
               /\ UNCHANGED <<video, made>>
<1>1. row[d].owner # NoOne => row[d].state = "uploading"
  BY DEF TableInv
<1>2. /\ run' \in [Slots -> Run] /\ run'[s].pc = "idle"
      /\ \A u \in Slots \ {s} : run'[u] = run[u]
  BY <1>1, MarksWrite
<1>3. /\ UNCHANGED <<target, pub, quota, day, up>>
      /\ \/ run[s].pc = "open"
         \/ /\ run[s].pc = "paid" /\ made' = [made EXCEPT ![run[s].day] = @ + 1]
            /\ \/ video' = video /\ losses' = losses
               \/ (\E v \in Videos : NewVideo(d, v)) /\ losses' = [losses EXCEPT ![d] = @ + 1]
         \/ /\ run[s].pc = "sent" /\ losses' = [losses EXCEPT ![d] = @ + 1]
            /\ UNCHANGED <<video, made>>
  BY DEF ReleaseDeliveryLease, InsertUnanswered
<1> QED BY <1>2, <1>3 DEF QuietStep

LEMMA CrashKeeps ==
  ASSUME TypeOK, \A u \in Slots : RunInv(u), \A t \in Days : QuotaInv(t), NEW p \in Procs, Crash(p)
  PROVE  (\A u \in Slots : RunInv(u)') /\ \A t \in Days : QuotaInv(t)'
<1>1. /\ \A s \in Slots : run'[s] = IF Home[s] = p THEN IdleRun ELSE run[s]
      /\ \A t \in Days : quota'[t].calls = quota[t].calls /\ quota'[t].limit = quota[t].limit
      /\ \A t \in Days, s \in Slots : quota[t].lock = s /\ Home[s] # p => quota'[t].lock = s
  BY CrashType
<1>2. ASSUME NEW u \in Slots PROVE RunInv(u)'
  <2>1. CASE Home[u] = p
    BY <1>1, <2>1, IdleRunType DEF RunInv
  <2>2. CASE Home[u] # p
    <3>1. run'[u] = run[u]
      BY <1>1, <2>2
    <3> QED BY <1>1, <2>2, <3>1 DEF RunInv
  <2> QED BY <2>1, <2>2
<1>3. \A t \in Days : Paid(t)' \subseteq Paid(t)
  BY <1>1, IdleRunType DEF Paid
<1>4. made' = made
  BY DEF Crash
<1> QED BY <1>1, <1>2, <1>3, <1>4, QuotaKept

LEMMA QuotaKeeps ==
  ASSUME TypeOK, \A d \in Deliveries : TableInv(d), \A u \in Slots : RunInv(u),
         \A t \in Days : QuotaInv(t), [Next]_vars
  PROVE  (\A u \in Slots : RunInv(u)') /\ \A t \in Days : QuotaInv(t)'
<1>1. CASE UNCHANGED <<run, quota, made>>
  BY <1>1 DEF RunInv, QuotaInv, Paid
<1>2. ASSUME NEW s \in Slots, SlotStep(s) \/ ReleaseDeliveryLease(s) \/ Drop(s)
      PROVE  (\A u \in Slots : RunInv(u)') /\ \A t \in Days : QuotaInv(t)'
  <2>1. CASE QuietStep(s)
    <3>1. /\ \A t \in Slots \ {s} : run'[t] = run[t]
          /\ run'[s].pc \in {"idle", "failing", "blocking"} /\ UNCHANGED <<quota, made>>
      BY <2>1, QuietRun
    <3> QED BY <3>1, QuotaRests
  <2>2. CASE MarkUploadedFails(s)
    <3>1. Goes(s, "sent", "failing") /\ UNCHANGED <<quota, made>>
      BY <2>2 DEF MarkUploadedFails
    <3>2. run'[s].pc = "failing" /\ \A t \in Slots \ {s} : run'[t] = run[t]
      BY <3>1, GoesType
    <3> QED BY <3>1, <3>2, QuotaRests
  <2>3. CASE Upload(s) \/ UploadFails(s)
    <3>1. PICK d \in Deliveries : run[s].d = d
      BY SlotType
    <3>2. /\ run[s].pc = "paid" /\ run'[s].pc \in {"sent", "failing"}
          /\ \A u \in Slots \ {s} : run'[u] = run[u]
          /\ made' = [made EXCEPT ![run[s].day] = @ + 1] /\ quota' = quota
      BY <2>3, <3>1, UploadRun, UploadFailsRun
    <3> QED BY <3>2, CallKeeps
  <2>4. CASE ReleaseDeliveryLease(s) /\ ~QuietStep(s)
    <3>1. PICK d \in Deliveries : run[s].d = d
      BY SlotType
    <3>2. /\ run'[s].pc = "idle" /\ quota' = quota
          /\ \A u \in Slots \ {s} : run'[u] = run[u]
          /\ \/ run[s].pc = "paid" /\ made' = [made EXCEPT ![run[s].day] = @ + 1]
             \/ made' = made
      BY <2>4, <3>1, ReleaseRun
    <3>3. CASE run[s].pc = "paid" /\ made' = [made EXCEPT ![run[s].day] = @ + 1]
      BY <3>2, <3>3, CallKeeps
    <3>4. CASE made' = made
      BY <3>2, <3>4, QuotaRests
    <3> QED BY <3>2, <3>3, <3>4
  <2> QED BY <1>2, <2>1, <2>2, <2>3, <2>4, LockKeeps, CommitKeeps, RefuseKeeps DEF SlotStep, QuietStep
<1>3. ASSUME NEW s \in Slots, NEW d \in Deliveries, ClaimReadyDeliveries(s, d)
      PROVE  (\A u \in Slots : RunInv(u)') /\ \A t \in Days : QuotaInv(t)'
  <2>1. run'[s].pc = "open" /\ \A t \in Slots \ {s} : run'[t] = run[t]
    BY <1>3, ClaimRun
  <2>2. UNCHANGED <<quota, made>>
    BY <1>3 DEF ClaimReadyDeliveries
  <2> QED BY <2>1, <2>2, QuotaRests
<1>4. ASSUME NEW d \in Deliveries, Reclaim(d) \/ ClaimTarget(d) \/ DriverStep(d)
      PROVE  UNCHANGED <<run, quota, made>>
  BY <1>4 DEF Reclaim, ClaimTarget, DriverStep, FindByPostTargetID, TryLater, WaitForDelivery,
              SettleNativePublish, UpdateVideoPrivacy, ClearYouTubeUpload, UpdateFails,
              MarkYouTubeTargetPublished
<1>5. ASSUME NEW d \in Deliveries, NEW v \in Videos, YouTubePublishes(d, v) \/ VideoDeleted(d, v)
      PROVE  UNCHANGED <<run, quota, made>>
  BY <1>5 DEF YouTubePublishes, VideoDeleted
<1>6. ASSUME NEW d \in Deliveries, NEW native \in BOOLEAN, Materialize(d, native)
      PROVE  UNCHANGED <<run, quota, made>>
  BY <1>6 DEF Materialize
<1>7. NextDay \/ UNCHANGED vars => UNCHANGED <<run, quota, made>>
  BY DEF NextDay, vars
<1> QED BY <1>1, <1>2, <1>3, <1>4, <1>5, <1>6, <1>7, CrashKeeps DEF Next

-----------------------------------------------------------------------------
(* The second phase.                                                       *)

\* The driver works on a video, stamps a target one video of which is as asked, and
\* leaves a target without a row alone.
VisibleInv(d) ==
  /\ pub[d].pc \in {"check", "update"} => pub[d].vid \in Videos
  /\ pub[d].pc = "stamp" \/ target[d] = "published" => \E v \in Videos : video[d][v] \in Shown(d)
  /\ row[d].state = "absent" => pub[d].pc = "idle" /\ target[d] \in {"none", "blocked_auth"}

\* No step but Materialize decides whether a delivery is native, and none takes a
\* row away.
RowsStay ==
  \A d \in Deliveries :
    /\ row'[d].native = row[d].native
    /\ row'[d].state = "absent" => row[d].state = "absent"

LEMMA ShownStays ==
  ASSUME RowsStay, NEW d \in Deliveries
  PROVE  Shown(d)' = Shown(d)
BY DEF RowsStay, Shown

LEMMA MarkStays ==
  ASSUME TypeOK, NEW s \in Slots, NEW new, Mark(s, new),
         new.native = row[run[s].d].native, new.state # "absent", new \in Row
  PROVE  RowsStay
<1> DEFINE x == [new EXCEPT !.owner = NoOne]
<1>1. x.native = row[run[s].d].native /\ x.state # "absent"
  BY DEF Row
<1>2. row' = [row EXCEPT ![run[s].d] = IF Owns(s) THEN x ELSE row[run[s].d]]
  BY DEF Mark
<1> HIDE DEF x
<1> QED BY <1>1, <1>2, SlotType DEF RowsStay, TypeOK

LEMMA RowsStayNext ==
  ASSUME TypeOK, \A d \in Deliveries : TableInv(d), Next,
         ~\E d \in Deliveries, native \in BOOLEAN : Materialize(d, native)
  PROVE  RowsStay
<1>1. CASE row' = row
  BY <1>1 DEF RowsStay
<1>2. \A d \in Deliveries : row[d] \in Row
  BY DEF TypeOK
<1>3. ASSUME NEW s \in Slots, NEW d \in Deliveries, ClaimReadyDeliveries(s, d) PROVE RowsStay
  <2> DEFINE x == [row[d] EXCEPT !.state = "uploading", !.owner = Home[s]]
  <2>1. x.native = row[d].native /\ x.state = "uploading"
    BY <1>2 DEF Row
  <2>2. row' = [row EXCEPT ![d] = x]
    BY <1>2, <1>3 DEF ClaimReadyDeliveries, TypeOK, Row
  <2> HIDE DEF x
  <2> QED BY <2>1, <2>2 DEF RowsStay, TypeOK
<1>4. ASSUME NEW d \in Deliveries, Reclaim(d) PROVE RowsStay
  <2> DEFINE x == [row[d] EXCEPT !.state = "ready_to_upload", !.owner = NoOne]
  <2>1. x.native = row[d].native /\ x.state = "ready_to_upload"
    BY <1>2 DEF Row
  <2>2. row' = [row EXCEPT ![d] = x]
    BY <1>2, <1>4 DEF Reclaim, TypeOK, Row
  <2> HIDE DEF x
  <2> QED BY <2>1, <2>2 DEF RowsStay, TypeOK
<1>5. ASSUME NEW d \in Deliveries, ClearYouTubeUpload(d) PROVE RowsStay
  <2> DEFINE x == [row[d] EXCEPT !.vid = 0, !.stamped = FALSE, !.att = 0]
  <2>1. x.native = row[d].native /\ x.state = row[d].state
    BY <1>2 DEF Row
  <2>2. row' = [row EXCEPT ![d] = x]
    BY <1>2, <1>5 DEF ClearYouTubeUpload, TypeOK, Row
  <2> HIDE DEF x
  <2> QED BY <2>1, <2>2 DEF RowsStay, TypeOK
<1>6. ASSUME NEW s \in Slots, MarkDeliveryBlockedAuth(s) PROVE RowsStay
  <2>0. PICK d \in Deliveries : run[s].d = d
    BY SlotType
  <2> DEFINE x == [row[d] EXCEPT !.state = "failed", !.att = row[d].att + 1, !.owner = NoOne]
  <2>1. x.native = row[d].native /\ x.state = "failed"
    BY <1>2 DEF Row
  <2>2. row' = [row EXCEPT ![d] = IF Owns(s) THEN x ELSE row[d]]
    BY <1>6, <2>0 DEF MarkDeliveryBlockedAuth
  <2> HIDE DEF x
  <2> QED BY <2>1, <2>2 DEF RowsStay, TypeOK
<1>7. ASSUME NEW s \in Slots, MarkDeliveryQuotaWait(s) PROVE RowsStay
  <2>0. PICK d \in Deliveries : run[s].d = d
    BY SlotType
  <2> DEFINE x == [row[d] EXCEPT !.state = "quota_wait", !.parked = run[s].day]
  <2>1. x \in Row /\ x.native = row[d].native /\ x.state # "absent"
    BY <1>2, SlotType DEF Row, Waiting
  <2>2. Mark(s, x)
    BY <1>7, <2>0 DEF MarkDeliveryQuotaWait
  <2> HIDE DEF x
  <2> QED BY <2>0, <2>1, <2>2, MarkStays
<1>8. ASSUME NEW s \in Slots, MarkDeliveryUploaded(s) PROVE RowsStay
  <2>0. PICK d \in Deliveries : run[s].d = d
    BY SlotType
  <2> DEFINE x == [row[d] EXCEPT !.state = "youtube_uploaded", !.stamped = TRUE,
                                 !.vid = run[s].vid, !.att = row[d].att + 1]
  <2>1. x \in Row /\ x.native = row[d].native /\ x.state # "absent"
    <3>1. row[d] \in Row /\ row[d].att + 1 \in Nat /\ run[s].vid \in 0..MaxVideos
      BY SlotType, RowType
    <3> QED BY <3>1 DEF Row, Settled
  <2>2. Mark(s, x)
    BY <1>2, <1>8, <2>0 DEF MarkDeliveryUploaded, Row
  <2> HIDE DEF x
  <2> QED BY <2>0, <2>1, <2>2, MarkStays
<1>9. ASSUME NEW s \in Slots, MarkDeliveryFailed(s) PROVE RowsStay
  <2>0. PICK d \in Deliveries : run[s].d = d
    BY SlotType
  <2> DEFINE st == IF row[d].att + 1 >= MaxAttempts THEN "dead_letter" ELSE "retry_wait"
             x == [row[d] EXCEPT !.att = row[d].att + 1, !.state = st]
  <2>1. st \in Waiting \cup Settled /\ st # "absent"
    BY DEF Waiting, Settled
  <2>2. x \in Row /\ x.native = row[d].native /\ x.state # "absent"
    <3>1. row[d] \in Row /\ row[d].att + 1 \in Nat
      BY RowType
    <3> HIDE DEF st
    <3> QED BY <2>1, <3>1 DEF Row
  <2>3. Mark(s, x)
    BY <1>2, <1>9, <2>0 DEF MarkDeliveryFailed, Row
  <2> HIDE DEF x
  <2> QED BY <2>0, <2>2, <2>3, MarkStays
<1>10. ASSUME NEW s \in Slots, ReleaseDeliveryLease(s) PROVE RowsStay
  <2>0. PICK d \in Deliveries : run[s].d = d
    BY SlotType
  <2> DEFINE x == [row[d] EXCEPT !.owner = NoOne]
  <2>1. x.native = row[d].native /\ x.state = row[d].state
    BY <1>2 DEF Row
  <2>2. row' = [row EXCEPT ![d] = IF Owns(s) THEN x ELSE row[d]]
    BY <1>10, <2>0 DEF ReleaseDeliveryLease, Mark
  <2> HIDE DEF x
  <2> QED BY <2>1, <2>2 DEF RowsStay, TypeOK
<1>11. ASSUME NEW s \in Slots,
              \/ PreflightFails(s) \/ SetTargetStatus(s) \/ ReserveLock(s) \/ ReserveCommit(s)
              \/ ReserveRefuse(s) \/ Upload(s) \/ UploadFails(s) \/ MarkUploadedFails(s) \/ Drop(s)
       PROVE  row' = row
  BY <1>11 DEF PreflightFails, SetTargetStatus, ReserveLock, ReserveCommit, ReserveRefuse, Upload,
               UploadFails, MarkUploadedFails, Drop
<1>12. ASSUME NEW d \in Deliveries, ClaimTarget(d) \/ DriverStep(d), ~ClearYouTubeUpload(d)
       PROVE  row' = row
  BY <1>12 DEF ClaimTarget, DriverStep, FindByPostTargetID, TryLater, WaitForDelivery,
               SettleNativePublish, UpdateVideoPrivacy, UpdateFails, MarkYouTubeTargetPublished
<1>13. ASSUME NEW d \in Deliveries, NEW v \in Videos, YouTubePublishes(d, v) \/ VideoDeleted(d, v)
       PROVE  row' = row
  BY <1>13 DEF YouTubePublishes, VideoDeleted
<1>14. NextDay \/ (\E p \in Procs : Crash(p)) => row' = row
  BY DEF NextDay, Crash
<1> QED BY <1>1, <1>3, <1>4, <1>5, <1>6, <1>7, <1>8, <1>9, <1>10, <1>11, <1>12, <1>13, <1>14
        DEF Next, SlotStep

Target == {"none", "queued", "publishing", "waiting_provider", "published", "failed",
           "blocked_auth"}

Driver == [pc : {"idle", "look", "check", "update", "stamp", "wait"}, vid : 0..MaxVideos]

LEMMA DriverType ==
  ASSUME TypeOK, NEW d \in Deliveries
  PROVE  /\ target[d] \in Target /\ pub[d] \in Driver /\ pub[d].vid \in 0..MaxVideos
         /\ target \in [Deliveries -> Target] /\ pub \in [Deliveries -> Driver]
         /\ 0 \in 0..MaxVideos
BY DeliveryAssumption DEF TypeOK, Target, Driver

\* What has been shown stays so, and the drivers and the targets stay put or are
\* published by none but MarkYouTubeTargetPublished.
LEMMA VisibleKept ==
  ASSUME \A d \in Deliveries : VisibleInv(d), pub' = pub,
         \A d \in Deliveries : target'[d] \in {target[d], "blocked_auth"}, RowsStay,
         \A d \in Deliveries, v \in Videos : video[d][v] \in Shown(d) => video'[d][v] \in Shown(d)
  PROVE  \A d \in Deliveries : VisibleInv(d)'
BY ShownStays DEF VisibleInv, RowsStay

LEMMA DriverWritesKeeps ==
  ASSUME TypeOK, \A d \in Deliveries : VisibleInv(d), NEW d \in Deliveries,
         NEW status \in {"queued", "waiting_provider", "failed", "published"},
         status = "published" => pub[d].pc = "stamp",
         DriverWrites(d, status), video' = video, RowsStay, pub[d].pc # "idle"
  PROVE  /\ target' \in [Deliveries -> Target] /\ pub' \in [Deliveries -> Driver]
         /\ \A e \in Deliveries : VisibleInv(e)'
<1>1. [pc |-> "idle", vid |-> 0] \in Driver
  BY DriverType DEF Driver
<1>2. target' \in [Deliveries -> Target] /\ pub' \in [Deliveries -> Driver]
  BY <1>1, DriverType DEF DriverWrites, Target
<1>3. /\ pub'[d].pc = "idle" /\ target'[d] \in {target[d], status}
      /\ \A e \in Deliveries \ {d} : pub'[e] = pub[e] /\ target'[e] = target[e]
  BY DriverType DEF DriverWrites
<1> QED BY <1>2, <1>3, ShownStays DEF VisibleInv, RowsStay

LEMMA ClaimTargetKeeps ==
  ASSUME TypeOK, \A d \in Deliveries : VisibleInv(d), RowsStay, NEW d \in Deliveries, ClaimTarget(d)
  PROVE  /\ target' \in [Deliveries -> Target] /\ pub' \in [Deliveries -> Driver]
         /\ \A e \in Deliveries : VisibleInv(e)'
<1>1. [pub[d] EXCEPT !.pc = "look"] \in Driver
  BY DriverType DEF Driver
<1>2. /\ target' \in [Deliveries -> Target] /\ target'[d] = "publishing"
      /\ \A e \in Deliveries \ {d} : target'[e] = target[e]
  BY DriverType DEF ClaimTarget, Target
<1>3. /\ pub' \in [Deliveries -> Driver] /\ pub'[d].pc = "look"
      /\ \A e \in Deliveries \ {d} : pub'[e] = pub[e]
  BY <1>1, DriverType DEF ClaimTarget, Driver
<1>4. video' = video /\ row[d].state # "absent"
  BY DEF ClaimTarget, VisibleInv
<1> QED BY <1>2, <1>3, <1>4, ShownStays DEF VisibleInv, RowsStay

LEMMA FindKeeps ==
  ASSUME TypeOK, \A d \in Deliveries : VisibleInv(d), RowsStay, NEW d \in Deliveries,
         FindByPostTargetID(d)
  PROVE  pub' \in [Deliveries -> Driver] /\ \A e \in Deliveries : VisibleInv(e)'
<1> DEFINE pc == IF ~row[d].stamped \/ row[d].vid = 0 THEN "wait"
                 ELSE IF row[d].native THEN "check" ELSE "update"
<1>1. row[d].vid \in 0..MaxVideos /\ MaxVideos \in Nat
  BY RowType, DeliveryAssumption
<1>2. pc \in {"wait", "check", "update"} /\ (pc # "wait" => row[d].vid \in Videos)
  BY <1>1 DEF Videos
<1>3. pub' = [pub EXCEPT ![d] = [pc |-> pc, vid |-> row[d].vid]] /\ UNCHANGED <<target, video>>
  BY DEF FindByPostTargetID
<1> HIDE DEF pc
<1>4. [pc |-> pc, vid |-> row[d].vid] \in Driver
  BY <1>1, <1>2 DEF Driver
<1>5. /\ pub' \in [Deliveries -> Driver] /\ pub'[d].pc = pc /\ pub'[d].vid = row[d].vid
      /\ \A e \in Deliveries \ {d} : pub'[e] = pub[e]
  BY <1>3, <1>4, DriverType
<1>6. row[d].state # "absent"
  BY DEF FindByPostTargetID, VisibleInv
<1> QED BY <1>2, <1>3, <1>5, <1>6, ShownStays DEF VisibleInv, RowsStay

LEMMA SettleKeeps ==
  ASSUME TypeOK, \A d \in Deliveries : VisibleInv(d), RowsStay, NEW d \in Deliveries,
         SettleNativePublish(d)
  PROVE  pub' \in [Deliveries -> Driver] /\ \A e \in Deliveries : VisibleInv(e)'
<1> DEFINE pc == IF video[d][pub[d].vid] = "public" THEN "stamp" ELSE "update"
<1>1. pub[d].vid \in Videos
  BY DEF SettleNativePublish, VisibleInv
<1>2. pub' = [pub EXCEPT ![d].pc = pc] /\ UNCHANGED <<target, video>>
  BY DEF SettleNativePublish
<1>3. pc \in {"stamp", "update"} /\ (pc = "stamp" => video[d][pub[d].vid] \in Shown(d))
  BY DEF Shown
<1> HIDE DEF pc
<1>4. [pub[d] EXCEPT !.pc = pc] \in Driver
  BY <1>3, DriverType DEF Driver
<1>5. /\ pub' \in [Deliveries -> Driver] /\ pub'[d].pc = pc /\ pub'[d].vid = pub[d].vid
      /\ \A e \in Deliveries \ {d} : pub'[e] = pub[e]
  BY <1>2, <1>3, <1>4, DriverType DEF Driver
<1>6. VisibleInv(d)'
  <2>1. row[d].state # "absent"
    BY DEF SettleNativePublish, VisibleInv
  <2> QED BY <1>1, <1>2, <1>3, <1>5, <2>1, ShownStays DEF VisibleInv, RowsStay
<1> QED BY <1>2, <1>5, <1>6, ShownStays DEF VisibleInv, RowsStay

LEMMA UpdateKeeps ==
  ASSUME TypeOK, \A d \in Deliveries : VisibleInv(d), RowsStay, NEW d \in Deliveries,
         UpdateVideoPrivacy(d)
  PROVE  /\ pub' \in [Deliveries -> Driver] /\ \A e \in Deliveries : VisibleInv(e)'
         /\ video' \in [Deliveries -> [Videos -> Visibility]]
         /\ \A e \in Deliveries : Inserted(e)' = Inserted(e)
<1>1. PICK v \in Videos : pub[d].vid = v
  BY DEF UpdateVideoPrivacy, VisibleInv
<1>2. PICK x \in Privacies(d) : video[d][v] \in Present /\ video' = [video EXCEPT ![d][v] = x]
  BY <1>1 DEF UpdateVideoPrivacy
<1>x. x \in Present \cup Deleted /\ x \in Shown(d)
  BY DEF Privacies, Present, Shown
<1>3. /\ video' \in [Deliveries -> [Videos -> Visibility]] /\ video'[d][v] = x
      /\ \A e \in Deliveries : Inserted(e)' = Inserted(e)
      /\ \A e \in Deliveries, w \in Videos : video[e][w] \in Shown(e) => video'[e][w] \in Shown(e)
  BY <1>2, <1>x, SeenType
<1>4. [pub[d] EXCEPT !.pc = "stamp"] \in Driver
  BY DriverType DEF Driver
<1>5. /\ pub' \in [Deliveries -> Driver] /\ pub'[d].pc = "stamp"
      /\ \A e \in Deliveries \ {d} : pub'[e] = pub[e]
  BY <1>4, DriverType DEF UpdateVideoPrivacy, Driver
<1>6. target' = target
  BY DEF UpdateVideoPrivacy
<1>7. VisibleInv(d)'
  <2>1. row[d].state # "absent"
    BY DEF UpdateVideoPrivacy, VisibleInv
  <2> QED BY <1>x, <1>3, <1>5, <2>1, ShownStays DEF VisibleInv, RowsStay
<1>8. \A e \in Deliveries \ {d} : VisibleInv(e)'
  BY <1>3, <1>5, <1>6, ShownStays DEF VisibleInv, RowsStay
<1> QED BY <1>3, <1>5, <1>7, <1>8

LEMMA ClearKeeps ==
  ASSUME TypeOK, \A d \in Deliveries : VisibleInv(d), RowsStay, NEW d \in Deliveries,
         ClearYouTubeUpload(d)
  PROVE  pub' \in [Deliveries -> Driver] /\ \A e \in Deliveries : VisibleInv(e)'
<1>1. [pub[d] EXCEPT !.pc = "wait"] \in Driver
  BY DriverType DEF Driver
<1>2. /\ pub' \in [Deliveries -> Driver] /\ pub'[d].pc = "wait"
      /\ \A e \in Deliveries \ {d} : pub'[e] = pub[e]
  BY <1>1, DriverType DEF ClearYouTubeUpload, Driver
<1>3. UNCHANGED <<target, video>> /\ row[d].state # "absent"
  BY DEF ClearYouTubeUpload, VisibleInv
<1> QED BY <1>2, <1>3, ShownStays DEF VisibleInv, RowsStay

LEMMA NewVideoSeen ==
  ASSUME TypeOK, NEW d \in Deliveries, NEW v \in Videos, NewVideo(d, v)
  PROVE  \A e \in Deliveries, w \in Videos : video[e][w] \in Shown(e) => video'[e][w] \in Shown(e)
<1>1. video[d][v] = "none"
  BY DEF NewVideo
<1>2. /\ \A e \in Deliveries \ {d} : video'[e] = video[e]
      /\ \A w \in Videos \ {v} : video'[d][w] = video[d][w]
  BY NewVideoType
<1> QED BY <1>1, <1>2 DEF Shown

\* The targets, the drivers and the videos have their type, and only what was
\* done as asked is published.
Phase2 ==
  /\ target \in [Deliveries -> Target] /\ pub \in [Deliveries -> Driver]
  /\ video \in [Deliveries -> [Videos -> Visibility]]
  /\ \A d \in Deliveries : VisibleInv(d)

\* YouTube publishes or somebody deletes a video.
LEMMA OutsideSeen ==
  ASSUME TypeOK, NEW d \in Deliveries, NEW v \in Videos, YouTubePublishes(d, v) \/ VideoDeleted(d, v)
  PROVE  /\ video' \in [Deliveries -> [Videos -> Visibility]]
         /\ \A e \in Deliveries : Inserted(e)' = Inserted(e)
         /\ \A e \in Deliveries, w \in Videos : video[e][w] \in Shown(e) => video'[e][w] \in Shown(e)
<1>1. PICK x \in Present \cup Deleted :
        /\ video[d][v] \in Present /\ video' = [video EXCEPT ![d][v] = x]
        /\ video[d][v] \in Shown(d) => x \in Shown(d)
  <2>1. CASE YouTubePublishes(d, v)
    BY <2>1 DEF YouTubePublishes, Present, Shown
  <2>2. CASE VideoDeleted(d, v)
    <3> DEFINE x == IF video[d][v] = "private" THEN "removed"
                    ELSE IF video[d][v] = "public" THEN "withdrawn" ELSE "closed"
    <3>1. x \in Deleted /\ (video[d][v] \in Shown(d) => x \in Shown(d))
      BY <2>2 DEF VideoDeleted, Present, Deleted, Shown
    <3>2. video[d][v] \in Present /\ video' = [video EXCEPT ![d][v] = x]
      BY <2>2 DEF VideoDeleted, TypeOK
    <3> HIDE DEF x
    <3> QED BY <3>1, <3>2
  <2> QED BY <2>1, <2>2
<1> QED BY <1>1, SeenType

LEMMA VisibleKeeps ==
  ASSUME TypeOK, \A d \in Deliveries : TableInv(d), \A d \in Deliveries : VisibleInv(d), [Next]_vars
  PROVE  Phase2'
<1>0. /\ target \in [Deliveries -> Target] /\ pub \in [Deliveries -> Driver]
      /\ video \in [Deliveries -> [Videos -> Visibility]]
  BY DEF TypeOK, Target, Driver
<1>2. ASSUME NEW d \in Deliveries, NEW native \in BOOLEAN, Materialize(d, native)
      PROVE  Phase2'
  <2>1. /\ target' \in [Deliveries -> Target] /\ target'[d] = "queued"
        /\ \A e \in Deliveries \ {d} : target'[e] = target[e]
        /\ UNCHANGED <<pub, video>>
    BY <1>0, <1>2 DEF Materialize, Target
  <2>2. PICK x : RowWrite(d, x) /\ row[d].state = "absent" /\ x.state = "ready_to_upload"
    BY <1>2, MaterializeWrite
  <2>3. row'[d] = x /\ \A e \in Deliveries \ {d} : row'[e] = row[e]
    BY <2>2, RowWriteType
  <2>4. VisibleInv(d)'
    BY <2>1, <2>2, <2>3 DEF VisibleInv
  <2>5. \A e \in Deliveries \ {d} : VisibleInv(e)'
    BY <2>1, <2>3 DEF VisibleInv, Shown
  <2> QED BY <1>0, <2>1, <2>4, <2>5 DEF Phase2
<1>r. CASE UNCHANGED vars
  BY <1>0, <1>r DEF Phase2, VisibleInv, Shown, vars
<1> SUFFICES ASSUME Next, ~\E d \in Deliveries, native \in BOOLEAN : Materialize(d, native)
             PROVE  Phase2'
  BY <1>2, <1>r
<1>s. RowsStay
  BY RowsStayNext
<1>1. CASE UNCHANGED <<target, pub, video>>
  BY <1>0, <1>1, <1>s, ShownStays DEF Phase2, VisibleInv, RowsStay
<1>3. ASSUME NEW s \in Slots, SetTargetStatus(s)
      PROVE  Phase2'
  <2>0. PICK d \in Deliveries : run[s].d = d
    BY SlotType
  <2>1. /\ target' \in [Deliveries -> Target]
        /\ \A e \in Deliveries : target'[e] \in {target[e], "blocked_auth"}
        /\ UNCHANGED <<pub, video>>
    BY <1>0, <1>3, <2>0 DEF SetTargetStatus, Target
  <2>2. \A e \in Deliveries : VisibleInv(e)'
    BY <1>s, <2>1, VisibleKept
  <2> QED BY <1>0, <2>1, <2>2 DEF Phase2
<1>4. ASSUME NEW s \in Slots, Upload(s) \/ UploadFails(s) \/ ReleaseDeliveryLease(s)
      PROVE  Phase2'
  <2>0. PICK d \in Deliveries : run[s].d = d
    BY SlotType
  <2>1. UNCHANGED <<target, pub>> /\ (video' = video \/ \E v \in Videos : NewVideo(d, v))
    BY <1>4, <2>0, UploadRun, UploadFailsRun, ReleaseRun, QuietRun
  <2>2. CASE \E v \in Videos : NewVideo(d, v)
    <3>1. /\ video' \in [Deliveries -> [Videos -> Visibility]]
          /\ \A e \in Deliveries, w \in Videos : video[e][w] \in Shown(e) => video'[e][w] \in Shown(e)
      BY <2>2, NewVideoType, NewVideoSeen
    <3>2. \A e \in Deliveries : VisibleInv(e)'
      BY <1>s, <2>1, <3>1, VisibleKept
    <3> QED BY <1>0, <2>1, <3>1, <3>2 DEF Phase2
  <2> QED BY <1>1, <2>1, <2>2
<1>5. ASSUME NEW s \in Slots,
             \/ PreflightFails(s) \/ MarkDeliveryBlockedAuth(s) \/ ReserveLock(s)
             \/ ReserveCommit(s) \/ ReserveRefuse(s) \/ MarkDeliveryQuotaWait(s)
             \/ MarkDeliveryUploaded(s) \/ MarkUploadedFails(s) \/ MarkDeliveryFailed(s)
             \/ Drop(s)
      PROVE  UNCHANGED <<target, pub, video>>
  BY <1>5 DEF PreflightFails, MarkDeliveryBlockedAuth, ReserveLock, ReserveCommit, ReserveRefuse,
              MarkDeliveryQuotaWait, MarkDeliveryUploaded, MarkUploadedFails, MarkDeliveryFailed,
              Drop
<1>6. ASSUME NEW s \in Slots, NEW d \in Deliveries, ClaimReadyDeliveries(s, d)
      PROVE  UNCHANGED <<target, pub, video>>
  BY <1>6 DEF ClaimReadyDeliveries
<1>7. ASSUME NEW d \in Deliveries, ClaimTarget(d) \/ DriverStep(d) PROVE Phase2'
  <2>1. CASE TryLater(d)
    <3>1. DriverWrites(d, "queued") /\ video' = video /\ pub[d].pc # "idle"
      BY <2>1 DEF TryLater
    <3> QED BY <1>0, <1>s, <3>1, DriverWritesKeeps DEF Phase2
  <2>2. CASE WaitForDelivery(d)
    <3>1. DriverWrites(d, "waiting_provider") /\ video' = video /\ pub[d].pc # "idle"
      BY <2>2 DEF WaitForDelivery
    <3> QED BY <1>0, <1>s, <3>1, DriverWritesKeeps DEF Phase2
  <2>3. CASE UpdateFails(d)
    <3>1. DriverWrites(d, "failed") /\ video' = video /\ pub[d].pc # "idle"
      BY <2>3 DEF UpdateFails
    <3> QED BY <1>0, <1>s, <3>1, DriverWritesKeeps DEF Phase2
  <2>4. CASE MarkYouTubeTargetPublished(d)
    <3>1. DriverWrites(d, "published") /\ video' = video /\ pub[d].pc = "stamp"
      BY <2>4 DEF MarkYouTubeTargetPublished
    <3> QED BY <1>0, <1>s, <3>1, DriverWritesKeeps DEF Phase2
  <2>5. CASE ClaimTarget(d)
    <3>1. video' = video
      BY <2>5 DEF ClaimTarget
    <3> QED BY <1>0, <1>s, <2>5, <3>1, ClaimTargetKeeps DEF Phase2
  <2>6. CASE FindByPostTargetID(d)
    <3>1. UNCHANGED <<target, video>>
      BY <2>6 DEF FindByPostTargetID
    <3> QED BY <1>0, <1>s, <2>6, <3>1, FindKeeps DEF Phase2
  <2>7. CASE SettleNativePublish(d)
    <3>1. UNCHANGED <<target, video>>
      BY <2>7 DEF SettleNativePublish
    <3> QED BY <1>0, <1>s, <2>7, <3>1, SettleKeeps DEF Phase2
  <2>8. CASE UpdateVideoPrivacy(d)
    <3>1. target' = target
      BY <2>8 DEF UpdateVideoPrivacy
    <3> QED BY <1>0, <1>s, <2>8, <3>1, UpdateKeeps DEF Phase2
  <2>9. CASE ClearYouTubeUpload(d)
    <3>1. UNCHANGED <<target, video>>
      BY <2>9 DEF ClearYouTubeUpload
    <3> QED BY <1>0, <1>s, <2>9, <3>1, ClearKeeps DEF Phase2
  <2> QED BY <1>7, <2>1, <2>2, <2>3, <2>4, <2>5, <2>6, <2>7, <2>8, <2>9 DEF DriverStep
<1>8. ASSUME NEW d \in Deliveries, NEW v \in Videos, YouTubePublishes(d, v) \/ VideoDeleted(d, v)
      PROVE  Phase2'
  <2>1. UNCHANGED <<target, pub>>
    BY <1>8 DEF YouTubePublishes, VideoDeleted
  <2>2. /\ video' \in [Deliveries -> [Videos -> Visibility]]
        /\ \A e \in Deliveries, w \in Videos : video[e][w] \in Shown(e) => video'[e][w] \in Shown(e)
    BY <1>8, OutsideSeen
  <2>3. \A e \in Deliveries : VisibleInv(e)'
    BY <1>s, <2>1, <2>2, VisibleKept
  <2> QED BY <1>0, <2>1, <2>2, <2>3 DEF Phase2
<1>9. ASSUME NEW d \in Deliveries, Reclaim(d) PROVE UNCHANGED <<target, pub, video>>
  BY <1>9 DEF Reclaim
<1>10. NextDay \/ (\E p \in Procs : Crash(p)) \/ UNCHANGED vars => UNCHANGED <<target, pub, video>>
  BY DEF NextDay, Crash, vars
<1> QED BY <1>1, <1>2, <1>3, <1>4, <1>5, <1>6, <1>7, <1>8, <1>9, <1>10 DEF Next, SlotStep

-----------------------------------------------------------------------------
(* The remaining variables have their types.                               *)

LEMMA RunNext ==
  ASSUME TypeOK, \A d \in Deliveries : TableInv(d), [Next]_vars
  PROVE  run' \in [Slots -> Run]
<1>1. ASSUME NEW s \in Slots, SlotStep(s) \/ ReleaseDeliveryLease(s) \/ Drop(s)
      PROVE  run' \in [Slots -> Run]
  <2>1. PICK d \in Deliveries : run[s].d = d
    BY SlotType
  <2>2. CASE ReserveCommit(s) \/ ReserveRefuse(s) \/ MarkUploadedFails(s)
    BY <2>2, GoesType DEF ReserveCommit, ReserveRefuse, MarkUploadedFails
  <2> QED BY <1>1, <2>1, <2>2, QuietRun, LockRun, UploadRun, UploadFailsRun, ReleaseRun
          DEF SlotStep, QuietStep
<1>2. ASSUME NEW d \in Deliveries, Reclaim(d) \/ ClaimTarget(d) \/ DriverStep(d)
      PROVE  run' = run
  BY <1>2 DEF Reclaim, ClaimTarget, DriverStep, FindByPostTargetID, TryLater, WaitForDelivery,
              SettleNativePublish, UpdateVideoPrivacy, ClearYouTubeUpload, UpdateFails,
              MarkYouTubeTargetPublished
<1>3. ASSUME NEW d \in Deliveries, NEW v \in Videos, YouTubePublishes(d, v) \/ VideoDeleted(d, v)
      PROVE  run' = run
  BY <1>3 DEF YouTubePublishes, VideoDeleted
<1>4. ASSUME NEW d \in Deliveries, NEW native \in BOOLEAN, Materialize(d, native)
      PROVE  run' = run
  BY <1>4 DEF Materialize
<1>5. NextDay \/ UNCHANGED vars => run' = run
  BY DEF NextDay, vars
<1>6. run \in [Slots -> Run]
  BY DEF TypeOK
<1> QED BY <1>1, <1>2, <1>3, <1>4, <1>5, <1>6, ClaimRun, CrashType DEF Next

\* losses only grow.
LEMMA OtherNext ==
  ASSUME TypeOK, \A d \in Deliveries : TableInv(d), \A u \in Slots : RunInv(u), [Next]_vars
  PROVE  /\ quota' \in [Days -> Quota] /\ made' \in [Days -> Nat] /\ day' \in Days
         /\ up' \subseteq Procs /\ losses' \in [Deliveries -> Nat]
         /\ \A d \in Deliveries : losses'[d] >= losses[d]
<1>0. /\ quota \in [Days -> Quota] /\ made \in [Days -> Nat] /\ day \in Days
      /\ up \subseteq Procs /\ losses \in [Deliveries -> Nat]
  BY DEF TypeOK
<1>1. CASE UNCHANGED <<quota, made, day, up, losses>>
  BY <1>0, <1>1
<1>2. ASSUME NEW s \in Slots, SlotStep(s) \/ ReleaseDeliveryLease(s) \/ Drop(s)
      PROVE  /\ quota' \in [Days -> Quota] /\ made' \in [Days -> Nat] /\ day' \in Days
             /\ up' \subseteq Procs /\ losses' \in [Deliveries -> Nat]
             /\ \A d \in Deliveries : losses'[d] >= losses[d]
  <2>1. PICK d \in Deliveries : run[s].d = d
    BY SlotType
  <2>2. CASE QuietStep(s)
    BY <1>1, <2>2, QuietRun
  <2>3. CASE ReserveLock(s) \/ ReserveCommit(s) \/ ReserveRefuse(s)
    <3>1. ~ReserveLock(s) => run[s].day \in Days
      BY <2>3 DEF ReserveCommit, ReserveRefuse, Goes, RunInv
    <3>2. quota' \in [Days -> Quota]
      BY <2>3, <3>1, LockRun, CommitQuota, RefuseQuota
    <3>3. UNCHANGED <<made, day, up, losses>>
      BY <2>3 DEF ReserveLock, ReserveCommit, ReserveRefuse
    <3> QED BY <1>0, <3>2, <3>3
  <2>4. CASE Upload(s) \/ UploadFails(s)
    <3>1. /\ made' = [made EXCEPT ![run[s].day] = @ + 1] /\ UNCHANGED <<quota, day, up>>
          /\ losses' = losses \/ losses' = [losses EXCEPT ![d] = @ + 1]
      BY <2>1, <2>4, UploadRun, UploadFailsRun
    <3>2. run[s].day \in Days
      BY <2>1, <2>4, UploadRun, UploadFailsRun DEF RunInv
    <3> QED BY <1>0, <3>1, <3>2
  <2>5. CASE MarkUploadedFails(s)
    <3>1. UNCHANGED <<quota, made, day, up>> /\ losses' = [losses EXCEPT ![d] = @ + 1]
      BY <2>1, <2>5 DEF MarkUploadedFails
    <3> QED BY <1>0, <3>1
  <2>6. CASE ReleaseDeliveryLease(s) /\ ~QuietStep(s)
    <3>1. /\ UNCHANGED <<quota, day, up>>
          /\ losses' = losses \/ losses' = [losses EXCEPT ![d] = @ + 1]
          /\ \/ run[s].pc = "paid" /\ made' = [made EXCEPT ![run[s].day] = @ + 1]
             \/ made' = made
      BY <2>1, <2>6, ReleaseRun
    <3>2. run[s].pc = "paid" => run[s].day \in Days
      BY DEF RunInv
    <3> QED BY <1>0, <3>1, <3>2
  <2> QED BY <1>2, <2>2, <2>3, <2>4, <2>5, <2>6 DEF SlotStep, QuietStep
<1>3. ASSUME NEW d \in Deliveries, Reclaim(d)
      PROVE  /\ losses' \in [Deliveries -> Nat] /\ \A e \in Deliveries : losses'[e] >= losses[e]
             /\ UNCHANGED <<quota, made, day, up>>
  BY <1>0, <1>3 DEF Reclaim
<1>4. ASSUME NEW d \in Deliveries, ClaimTarget(d) \/ DriverStep(d)
      PROVE  UNCHANGED <<quota, made, day, up, losses>>
  BY <1>4 DEF ClaimTarget, DriverStep, FindByPostTargetID, TryLater, WaitForDelivery,
              SettleNativePublish, UpdateVideoPrivacy, ClearYouTubeUpload, UpdateFails,
              MarkYouTubeTargetPublished
<1>5. ASSUME NEW d \in Deliveries, NEW v \in Videos, YouTubePublishes(d, v) \/ VideoDeleted(d, v)
      PROVE  UNCHANGED <<quota, made, day, up, losses>>
  BY <1>5 DEF YouTubePublishes, VideoDeleted
<1>6. ASSUME NEW d \in Deliveries, NEW native \in BOOLEAN, Materialize(d, native)
      PROVE  UNCHANGED <<quota, made, day, up, losses>>
  BY <1>6 DEF Materialize
<1>7. ASSUME NEW s \in Slots, NEW d \in Deliveries, ClaimReadyDeliveries(s, d)
      PROVE  UNCHANGED <<quota, made, day, up, losses>>
  BY <1>7 DEF ClaimReadyDeliveries
<1>8. CASE NextDay
  <2>1. day' \in Days /\ UNCHANGED <<quota, made, up, losses>>
    BY <1>0, <1>8, DeliveryAssumption DEF NextDay, Days
  <2> QED BY <1>0, <2>1
<1>9. ASSUME NEW p \in Procs, Crash(p)
      PROVE  quota' \in [Days -> Quota] /\ up' \subseteq Procs /\ UNCHANGED <<made, day, losses>>
  BY <1>9, CrashType DEF Crash
<1>10. UNCHANGED vars => UNCHANGED <<quota, made, day, up, losses>>
  BY DEF vars
<1>11. \A d \in Deliveries : losses[d] >= losses[d]
  BY <1>0
<1> QED BY <1>0, <1>1, <1>2, <1>3, <1>4, <1>5, <1>6, <1>7, <1>8, <1>9, <1>10, <1>11 DEF Next

-----------------------------------------------------------------------------
(* The videos of a delivery: those that exist, those that may still come   *)
(* from a goroutine, and the one of a row that waits for a claim.          *)

Can(d) == {s \in Slots : run[s].d = d /\ run[s].pc \in Able}

Open(d) == IF row[d].state \in Waiting \cup {"absent"} THEN 1 ELSE 0

VideoInv(d) ==
  /\ IsFiniteSet(Can(d))
  /\ Cardinality(Inserted(d)) + Cardinality(Can(d)) + Open(d) <= 1 + losses[d]

LEMMA VideoTypes ==
  ASSUME TypeOK, NEW d \in Deliveries, VideoInv(d)
  PROVE  /\ IsFiniteSet(Inserted(d)) /\ Cardinality(Inserted(d)) \in Nat
         /\ Cardinality(Can(d)) \in Nat /\ Open(d) \in {0, 1} /\ losses[d] \in Nat
<1>1. IsFiniteSet(Videos) /\ Inserted(d) \subseteq Videos
  BY FS_Interval, DeliveryAssumption DEF Videos, Inserted
<1>2. IsFiniteSet(Inserted(d)) /\ Cardinality(Inserted(d)) \in Nat
  BY <1>1, Fewer
<1>3. Cardinality(Can(d)) \in Nat
  BY FS_CardinalityType DEF VideoInv
<1> QED BY <1>2, <1>3, RowType DEF Open

LEMMA VideoKept ==
  ASSUME TypeOK, NEW d \in Deliveries, VideoInv(d), Can(d)' \subseteq Can(d),
         Inserted(d)' = Inserted(d), Open(d)' \in {0, Open(d)},
         losses'[d] \in Nat, losses'[d] >= losses[d]
  PROVE  VideoInv(d)'
<1>1. IsFiniteSet(Can(d))
  BY DEF VideoInv
<1>2. IsFiniteSet(Can(d)') /\ Cardinality(Can(d)') \in Nat /\ Cardinality(Can(d)') <= Cardinality(Can(d))
  BY <1>1, Fewer
<1> QED BY <1>2, VideoTypes DEF VideoInv

\* A goroutine that puts the row back is no longer one of those that can.
LEMMA VideoReturned ==
  ASSUME TypeOK, NEW d \in Deliveries, VideoInv(d), NEW s \in Can(d), Can(d)' \subseteq Can(d) \ {s},
         Inserted(d)' = Inserted(d), losses' = losses, Open(d)' = 0 \/ Open(d) = 0
  PROVE  VideoInv(d)'
<1>1. IsFiniteSet(Can(d))
  BY DEF VideoInv
<1>2. /\ IsFiniteSet(Can(d)') /\ Cardinality(Can(d)') \in Nat
      /\ Cardinality(Can(d)') + 1 <= Cardinality(Can(d))
  BY <1>1, Fewer
<1>3. Open(d)' \in {0, 1}
  BY DEF Open
<1> QED BY <1>2, <1>3, VideoTypes DEF VideoInv

\* A lost claim lets the row, or a goroutine, have one more video.
LEMMA VideoReopened ==
  ASSUME TypeOK, NEW d \in Deliveries, VideoInv(d), Inserted(d)' = Inserted(d),
         losses'[d] = losses[d] + 1,
         \/ Can(d)' \subseteq Can(d) /\ (Open(d) = 0 \/ Open(d)' = 0)
         \/ (\E s \in Slots : s \notin Can(d) /\ Can(d)' \subseteq Can(d) \cup {s})
              /\ Open(d)' = Open(d)
  PROVE  VideoInv(d)'
<1>1. IsFiniteSet(Can(d))
  BY DEF VideoInv
<1>2. Open(d)' \in {0, 1}
  BY DEF Open
<1>3. CASE Can(d)' \subseteq Can(d) /\ (Open(d) = 0 \/ Open(d)' = 0)
  <2>1. /\ IsFiniteSet(Can(d)') /\ Cardinality(Can(d)') \in Nat
        /\ Cardinality(Can(d)') <= Cardinality(Can(d))
    BY <1>1, <1>3, Fewer
  <2> QED BY <1>2, <1>3, <2>1, VideoTypes DEF VideoInv
<1>4. CASE (\E s \in Slots : s \notin Can(d) /\ Can(d)' \subseteq Can(d) \cup {s})
             /\ Open(d)' = Open(d)
  <2>1. /\ IsFiniteSet(Can(d)') /\ Cardinality(Can(d)') \in Nat
        /\ Cardinality(Can(d)') <= Cardinality(Can(d)) + 1
    BY <1>1, <1>4, OneMore
  <2> QED BY <1>4, <2>1, VideoTypes DEF VideoInv
<1> QED BY <1>3, <1>4

\* A video that came: its goroutine may insert no more, or its answer was lost.
LEMMA VideoCame ==
  ASSUME TypeOK, NEW d \in Deliveries, VideoInv(d), NEW v \in Videos, NewVideo(d, v),
         Open(d)' = Open(d),
         \/ losses' = losses /\ \E s \in Can(d) : Can(d)' \subseteq Can(d) \ {s}
         \/ losses'[d] = losses[d] + 1 /\ Can(d)' \subseteq Can(d)
  PROVE  VideoInv(d)'
<1>1. IsFiniteSet(Can(d))
  BY DEF VideoInv
<1>2. Inserted(d)' = Inserted(d) \cup {v} /\ v \notin Inserted(d)
  BY NewVideoType
<1>3. Cardinality(Inserted(d)') = Cardinality(Inserted(d)) + 1
  BY <1>2, VideoTypes, FS_AddElement
<1>4. /\ IsFiniteSet(Can(d)') /\ Cardinality(Can(d)') \in Nat
      /\ Cardinality(Can(d)') <= Cardinality(Can(d))
      /\ losses' = losses => Cardinality(Can(d)') + 1 <= Cardinality(Can(d))
  <2>1. Can(d)' \subseteq Can(d)
    OBVIOUS
  <2>2. losses' = losses => \E s \in Can(d) \ Can(d)' : TRUE
    BY VideoTypes
  <2> QED BY <1>1, <2>1, <2>2, Fewer
<1> QED BY <1>3, <1>4, VideoTypes DEF VideoInv

LEMMA SameInserted ==
  ASSUME TypeOK, NEW d \in Deliveries, NEW v \in Videos, NEW x \in Present,
         video[d][v] \in Present, video' = [video EXCEPT ![d][v] = x]
  PROVE  \A e \in Deliveries : Inserted(e)' = Inserted(e)
<1>1. x # "none" /\ video[d][v] # "none"
  BY DEF Present
<1>2. video \in [Deliveries -> [Videos -> Visibility]]
  BY DEF TypeOK
<1>3. \A e \in Deliveries \ {d} : video'[e] = video[e]
  BY <1>2
<1>4. video'[d][v] = x /\ \A w \in Videos \ {v} : video'[d][w] = video[d][w]
  BY <1>2
<1> QED BY <1>1, <1>3, <1>4 DEF Inserted

LEMMA VideosRest ==
  ASSUME TypeOK, \A d \in Deliveries : VideoInv(d), UNCHANGED <<run, losses>>,
         \A d \in Deliveries : Inserted(d)' = Inserted(d),
         \A d \in Deliveries : Open(d)' = Open(d)
  PROVE  \A d \in Deliveries : VideoInv(d)'
<1>1. \A d \in Deliveries : Can(d)' = Can(d)
  BY DEF Can
<1>2. \A d \in Deliveries : losses'[d] \in Nat /\ losses'[d] >= losses[d]
  BY RowType
<1> QED BY <1>1, <1>2, VideoKept

LEMMA QuietVideos ==
  ASSUME TypeOK, \A d \in Deliveries : TableInv(d), \A d \in Deliveries : VideoInv(d),
         NEW s \in Slots, QuietStep(s)
  PROVE  \A d \in Deliveries : VideoInv(d)'
<1>1. PICK d \in Deliveries : run[s].d = d
  BY SlotType
<1>2. /\ \A t \in Slots \ {s} : run'[t] = run[t]
      /\ run'[s].pc \in {"idle", "failing", "blocking"}
      /\ run'[s].pc = "failing" => run[s].pc = "open" /\ run'[s].d = run[s].d
      /\ UNCHANGED <<video, losses>>
  BY QuietRun
<1>3. \A e \in Deliveries : Can(e)' \subseteq Can(e) /\ Inserted(e)' = Inserted(e)
  BY <1>2 DEF Can, Able, Inserted
<1>4. \A e \in Deliveries : losses'[e] \in Nat /\ losses'[e] >= losses[e]
  BY <1>2, RowType
<1>5. row[d].owner # NoOne => row[d].state = "uploading"
  BY DEF TableInv
<1>6. CASE row' = row
  <2>1. \A e \in Deliveries : Open(e)' = Open(e)
    BY <1>6 DEF Open
  <2> QED BY <1>3, <1>4, <2>1, VideoKept
<1>7. CASE row' # row
  <2>1. /\ Owns(s)
        /\ \E x : Marks(d, x)
    <3>1. CASE MarkDeliveryBlockedAuth(s)
      BY <1>1, <1>7, <3>1, BlockedWrite
    <3>2. CASE \/ MarkDeliveryQuotaWait(s) \/ MarkDeliveryUploaded(s) \/ MarkDeliveryFailed(s)
               \/ ReleaseDeliveryLease(s)
      BY <1>1, <1>5, <1>7, <3>2, MarksWrite
    <3> QED BY <1>7, <3>1, <3>2 DEF QuietStep, PreflightFails, SetTargetStatus, Drop
  <2>2. Open(d) = 0
    BY <1>1, <1>5, <2>1, SlotType DEF Owns, Open, Waiting
  <2>3. \A e \in Deliveries \ {d} : row'[e] = row[e]
    BY <2>1, RowWriteType DEF Marks
  <2>4. \A e \in Deliveries \ {d} : VideoInv(e)'
    <3>1. \A e \in Deliveries \ {d} : Open(e)' = Open(e)
      BY <2>3 DEF Open
    <3> QED BY <1>3, <1>4, <3>1, VideoKept
  <2>5. CASE MarkDeliveryBlockedAuth(s)
    <3>1. PICK x : Marks(d, x) /\ x.state = "failed"
      BY <1>1, <1>7, <2>5, BlockedWrite
    <3>2. row'[d] = x
      BY <3>1, RowWriteType DEF Marks
    <3>3. Open(d)' = 0
      BY <3>1, <3>2 DEF Open, Waiting
    <3>4. VideoInv(d)'
      BY <1>3, <1>4, <3>3, VideoKept
    <3> QED BY <2>4, <3>4
  <2>6. CASE MarkDeliveryUploaded(s) \/ ReleaseDeliveryLease(s)
    <3>1. row'[d].state \in {"youtube_uploaded", "uploading"}
      BY <1>1, <1>5, <1>7, <2>6, MarksWrite
    <3>2. Open(d)' = 0
      BY <3>1 DEF Open, Waiting
    <3>3. VideoInv(d)'
      BY <1>3, <1>4, <3>2, VideoKept
    <3> QED BY <2>4, <3>3
  <2>7. CASE MarkDeliveryQuotaWait(s) \/ MarkDeliveryFailed(s)
    <3>1. run'[s].pc = "idle"
      BY <1>1, <1>5, <2>7, MarksWrite
    <3>2. s \in Can(d)
      BY <1>1, <2>7 DEF Can, Able, MarkDeliveryQuotaWait, MarkDeliveryFailed
    <3>3. Can(d)' \subseteq Can(d) \ {s}
      BY <1>2, <3>1 DEF Can, Able
    <3>4. VideoInv(d)'
      BY <1>2, <1>3, <2>2, <3>2, <3>3, VideoReturned
    <3> QED BY <2>4, <3>4
  <2> QED BY <1>7, <2>5, <2>6, <2>7 DEF QuietStep, PreflightFails, SetTargetStatus, Drop
<1> QED BY <1>6, <1>7

LEMMA ClaimVideos ==
  ASSUME TypeOK, \A d \in Deliveries : VideoInv(d), NEW s \in Slots, NEW d \in Deliveries,
         ClaimReadyDeliveries(s, d)
  PROVE  \A e \in Deliveries : VideoInv(e)'
<1>1. /\ run[s].pc = "idle" /\ run'[s].pc = "open" /\ run'[s].d = d
      /\ \A t \in Slots \ {s} : run'[t] = run[t]
  BY ClaimRun
<1>2. UNCHANGED <<video, losses>>
  BY DEF ClaimReadyDeliveries
<1>3. PICK x : RowWrite(d, x) /\ row[d].state \in Waiting /\ x.state = "uploading"
  BY ClaimWrite
<1>4. row'[d] = x /\ \A e \in Deliveries \ {d} : row'[e] = row[e]
  BY <1>3, RowWriteType
<1>5. VideoInv(d)'
  <2>1. s \notin Can(d) /\ Can(d)' \subseteq Can(d) \cup {s}
    BY <1>1 DEF Can, Able
  <2>2. Open(d) = 1 /\ Open(d)' = 0 /\ Inserted(d)' = Inserted(d)
    BY <1>2, <1>3, <1>4 DEF Open, Waiting, Inserted
  <2>3. IsFiniteSet(Can(d))
    BY DEF VideoInv
  <2>4. /\ IsFiniteSet(Can(d)') /\ Cardinality(Can(d)') \in Nat
        /\ Cardinality(Can(d)') <= Cardinality(Can(d)) + 1
    BY <2>1, <2>3, OneMore
  <2> QED BY <1>2, <2>2, <2>4, VideoTypes DEF VideoInv
<1>6. ASSUME NEW e \in Deliveries \ {d} PROVE VideoInv(e)'
  <2>1. Can(e)' \subseteq Can(e) /\ Open(e)' = Open(e) /\ Inserted(e)' = Inserted(e)
    BY <1>1, <1>2, <1>4, <1>6 DEF Can, Open, Inserted
  <2>2. losses'[e] \in Nat /\ losses'[e] >= losses[e]
    BY <1>2, RowType
  <2> QED BY <2>1, <2>2, VideoKept
<1> QED BY <1>5, <1>6

LEMMA ReclaimVideos ==
  ASSUME TypeOK, \A d \in Deliveries : VideoInv(d), NEW d \in Deliveries, Reclaim(d)
  PROVE  \A e \in Deliveries : VideoInv(e)'
<1>1. UNCHANGED <<run, video>> /\ losses' = [losses EXCEPT ![d] = @ + 1]
      /\ row[d].state = "uploading"
  BY DEF Reclaim
<1>2. losses'[d] = losses[d] + 1 /\ \A e \in Deliveries \ {d} : losses'[e] = losses[e]
  BY <1>1 DEF TypeOK
<1>3. \A e \in Deliveries \ {d} : row'[e] = row[e]
  BY ReclaimWrite, RowWriteType
<1>4. \A e \in Deliveries : Can(e)' = Can(e) /\ Inserted(e)' = Inserted(e)
  BY <1>1 DEF Can, Inserted
<1>5. Open(d) = 0
  BY <1>1 DEF Open, Waiting
<1>6. VideoInv(d)'
  BY <1>2, <1>4, <1>5, VideoReopened
<1>7. \A e \in Deliveries \ {d} : VideoInv(e)'
  <2>1. \A e \in Deliveries \ {d} : Open(e)' = Open(e)
    BY <1>3 DEF Open
  <2>2. \A e \in Deliveries \ {d} : losses'[e] \in Nat /\ losses'[e] >= losses[e]
    BY <1>2, RowType
  <2> QED BY <1>4, <2>1, <2>2, VideoKept
<1> QED BY <1>6, <1>7

\* The quota transaction: the goroutine that has it can upload before and after.
LEMMA ReserveVideos ==
  ASSUME TypeOK, \A d \in Deliveries : VideoInv(d), NEW s \in Slots,
         ReserveLock(s) \/ ReserveCommit(s) \/ ReserveRefuse(s)
  PROVE  \A e \in Deliveries : VideoInv(e)'
<1>1. /\ run[s].pc \in Able /\ run'[s].d = run[s].d
      /\ \A t \in Slots \ {s} : run'[t] = run[t]
  BY LockRun, GoesType DEF ReserveCommit, ReserveRefuse, Able
<1>2. UNCHANGED <<row, video, losses>>
  BY DEF ReserveLock, ReserveCommit, ReserveRefuse
<1>3. \A e \in Deliveries : /\ Can(e)' \subseteq Can(e) /\ Inserted(e)' = Inserted(e)
                            /\ Open(e)' = Open(e)
  BY <1>1, <1>2 DEF Can, Inserted, Open
<1>4. \A e \in Deliveries : losses'[e] \in Nat /\ losses'[e] >= losses[e]
  BY <1>2, RowType
<1> QED BY <1>3, <1>4, VideoKept

LEMMA UploadVideos ==
  ASSUME TypeOK, \A d \in Deliveries : VideoInv(d), NEW s \in Slots,
         Upload(s) \/ UploadFails(s) \/ MarkUploadedFails(s)
  PROVE  \A e \in Deliveries : VideoInv(e)'
<1>1. PICK d \in Deliveries : run[s].d = d
  BY SlotType
<1>2. /\ run'[s].d = d /\ row' = row
      /\ \A t \in Slots \ {s} : run'[t] = run[t]
  <2>1. MarkUploadedFails(s) => Goes(s, "sent", "failing") /\ row' = row
    BY DEF MarkUploadedFails
  <2> QED BY <1>1, <2>1, UploadRun, UploadFailsRun, GoesType
<1>3. \A e \in Deliveries : Open(e)' = Open(e)
  BY <1>2 DEF Open
<1>4. \A e \in Deliveries \ {d} : Can(e)' = Can(e)
  BY <1>1, <1>2 DEF Can
<1>5. \A e \in Deliveries \ {d} : losses'[e] = losses[e] /\ Inserted(e)' = Inserted(e)
  <2>1. /\ losses' = losses \/ losses' = [losses EXCEPT ![d] = @ + 1]
        /\ video' = video \/ \E v \in Videos : NewVideo(d, v)
    BY <1>1, UploadRun, UploadFailsRun DEF MarkUploadedFails
  <2>2. \A e \in Deliveries \ {d} : losses'[e] = losses[e]
    BY <2>1 DEF TypeOK
  <2>3. \A e \in Deliveries \ {d} : video'[e] = video[e]
    BY <2>1, NewVideoType
  <2> QED BY <2>2, <2>3 DEF Inserted
<1>6. \A e \in Deliveries \ {d} : VideoInv(e)'
  <2>1. \A e \in Deliveries \ {d} : losses'[e] \in Nat /\ losses'[e] >= losses[e]
    BY <1>5, RowType
  <2> QED BY <1>3, <1>4, <1>5, <2>1, VideoKept
<1>7. CASE Upload(s)
  <2>1. /\ run[s].pc = "paid" /\ run'[s].pc = "sent" /\ losses' = losses
    BY <1>1, <1>7, UploadRun
  <2>2. PICK v \in Videos : NewVideo(d, v)
    BY <1>1, <1>7, UploadRun
  <2>3. s \in Can(d) /\ Can(d)' \subseteq Can(d) \ {s}
    BY <1>1, <1>2, <2>1 DEF Can, Able
  <2> QED BY <1>3, <1>6, <2>1, <2>2, <2>3, VideoCame
<1>8. CASE UploadFails(s)
  <2>1. run[s].pc = "paid"
    BY <1>1, <1>8, UploadFailsRun
  <2>2. Can(d)' \subseteq Can(d)
    BY <1>1, <1>2, <2>1 DEF Can, Able
  <2>3. CASE video' = video /\ losses' = losses
    <3>1. Inserted(d)' = Inserted(d) /\ losses'[d] \in Nat /\ losses'[d] >= losses[d]
      BY <2>3, RowType DEF Inserted
    <3> QED BY <1>3, <1>6, <2>2, <3>1, VideoKept
  <2>4. CASE (\E v \in Videos : NewVideo(d, v)) /\ losses' = [losses EXCEPT ![d] = @ + 1]
    <3>1. losses'[d] = losses[d] + 1
      BY <2>4 DEF TypeOK
    <3> QED BY <1>3, <1>6, <2>2, <2>4, <3>1, VideoCame
  <2> QED BY <1>1, <1>8, <2>3, <2>4, UploadFailsRun
<1>9. CASE MarkUploadedFails(s)
  <2>1. Goes(s, "sent", "failing") /\ losses' = [losses EXCEPT ![d] = @ + 1] /\ video' = video
    BY <1>1, <1>9 DEF MarkUploadedFails
  <2>2. run[s].pc = "sent" /\ losses'[d] = losses[d] + 1 /\ Inserted(d)' = Inserted(d)
    BY <2>1, GoesType DEF TypeOK, Inserted
  <2>3. s \notin Can(d) /\ Can(d)' \subseteq Can(d) \cup {s}
    BY <1>2, <2>2 DEF Can, Able
  <2>4. VideoInv(d)'
    BY <1>3, <2>2, <2>3, VideoReopened
  <2> QED BY <1>6, <2>4
<1> QED BY <1>7, <1>8, <1>9

\* A release whose insert, or whose answer, was cut off: the row keeps its state.
LEMMA ReleaseVideos ==
  ASSUME TypeOK, \A d \in Deliveries : TableInv(d), \A d \in Deliveries : VideoInv(d),
         NEW s \in Slots, ReleaseDeliveryLease(s), ~QuietStep(s)
  PROVE  \A e \in Deliveries : VideoInv(e)'
<1>1. PICK d \in Deliveries : run[s].d = d
  BY SlotType
<1>2. /\ run'[s].pc = "idle" /\ \A u \in Slots \ {s} : run'[u] = run[u]
      /\ \/ video' = video /\ losses' = losses
         \/ (\E v \in Videos : NewVideo(d, v)) /\ losses' = [losses EXCEPT ![d] = @ + 1]
         \/ video' = video /\ losses' = [losses EXCEPT ![d] = @ + 1]
  BY <1>1, ReleaseRun
<1>3. \A e \in Deliveries : Can(e)' \subseteq Can(e)
  BY <1>2 DEF Can, Able
<1>4. \A e \in Deliveries : Open(e)' = Open(e)
  <2>1. row[d] \in Row
    BY RowType
  <2> DEFINE x == [row[d] EXCEPT !.owner = NoOne]
  <2>2. x.state = row[d].state
    BY <2>1 DEF Row
  <2>3. row' = [row EXCEPT ![d] = IF Owns(s) THEN x ELSE row[d]]
    BY <1>1 DEF ReleaseDeliveryLease, Mark
  <2> HIDE DEF x
  <2>4. \A e \in Deliveries : row'[e].state = row[e].state
    BY <2>2, <2>3 DEF TypeOK
  <2> QED BY <2>4 DEF Open
<1>5. \A e \in Deliveries : losses'[e] \in Nat /\ losses'[e] >= losses[e]
  BY <1>2 DEF TypeOK
<1>6. CASE video' = video
  <2>1. \A e \in Deliveries : Inserted(e)' = Inserted(e)
    BY <1>6 DEF Inserted
  <2> QED BY <1>3, <1>4, <1>5, <2>1, VideoKept
<1>7. ASSUME NEW v \in Videos, NewVideo(d, v), losses' = [losses EXCEPT ![d] = @ + 1]
      PROVE  \A e \in Deliveries : VideoInv(e)'
  <2>1. losses'[d] = losses[d] + 1
    BY <1>7 DEF TypeOK
  <2>2. VideoInv(d)'
    BY <1>3, <1>4, <1>7, <2>1, VideoCame
  <2>3. \A e \in Deliveries \ {d} : Inserted(e)' = Inserted(e)
    BY <1>7, NewVideoType DEF Inserted
  <2>4. \A e \in Deliveries \ {d} : VideoInv(e)'
    BY <1>3, <1>4, <1>5, <2>3, VideoKept
  <2> QED BY <2>2, <2>4
<1> QED BY <1>2, <1>6, <1>7

LEMMA VideosKeep ==
  ASSUME TypeOK, \A d \in Deliveries : TableInv(d), \A d \in Deliveries : VisibleInv(d),
         \A d \in Deliveries : VideoInv(d), [Next]_vars
  PROVE  \A d \in Deliveries : VideoInv(d)'
<1>1. CASE UNCHANGED <<run, losses, video, row>>
  <2>1. \A d \in Deliveries : Inserted(d)' = Inserted(d) /\ Open(d)' = Open(d)
    BY <1>1 DEF Inserted, Open
  <2> QED BY <1>1, <2>1, VideosRest
<1>2. ASSUME NEW s \in Slots, SlotStep(s) \/ ReleaseDeliveryLease(s) \/ Drop(s)
      PROVE  \A d \in Deliveries : VideoInv(d)'
  BY <1>2, QuietVideos, ReserveVideos, UploadVideos, ReleaseVideos DEF SlotStep, QuietStep
<1>3. ASSUME NEW d \in Deliveries, NEW native \in BOOLEAN, Materialize(d, native)
      PROVE  \A e \in Deliveries : VideoInv(e)'
  <2>1. PICK x : RowWrite(d, x) /\ row[d].state = "absent" /\ x.state = "ready_to_upload"
    BY <1>3, MaterializeWrite
  <2>2. row'[d] = x /\ \A e \in Deliveries \ {d} : row'[e] = row[e]
    BY <2>1, RowWriteType
  <2>3. Open(d)' = Open(d)
    BY <2>1, <2>2 DEF Open, Waiting
  <2>4. \A e \in Deliveries \ {d} : Open(e)' = Open(e)
    BY <2>2 DEF Open
  <2>5. UNCHANGED <<run, losses>> /\ \A e \in Deliveries : Inserted(e)' = Inserted(e)
    BY <1>3 DEF Materialize, Inserted
  <2> QED BY <2>3, <2>4, <2>5, VideosRest
<1>4. ASSUME NEW d \in Deliveries, ClaimTarget(d) \/ DriverStep(d)
      PROVE  \A e \in Deliveries : VideoInv(e)'
  <2>1. CASE UpdateVideoPrivacy(d)
    <3>1. \A e \in Deliveries : Inserted(e)' = Inserted(e)
      <4>1. PICK v \in Videos, x \in Present :
              video[d][v] \in Present /\ video' = [video EXCEPT ![d][v] = x]
        <5>1. pub[d].vid \in Videos
          BY <2>1 DEF UpdateVideoPrivacy, VisibleInv
        <5>2. Privacies(d) \subseteq Present
          BY DEF Privacies, Present
        <5> QED BY <2>1, <5>1, <5>2 DEF UpdateVideoPrivacy
      <4> QED BY <4>1, SameInserted
    <3>2. UNCHANGED <<run, losses, row>>
      BY <2>1 DEF UpdateVideoPrivacy
    <3>3. \A e \in Deliveries : Open(e)' = Open(e)
      BY <3>2 DEF Open
    <3> QED BY <3>1, <3>2, <3>3, VideosRest
  <2>2. CASE ClearYouTubeUpload(d)
    <3>1. PICK x : RowWrite(d, x) /\ x.state = row[d].state
      BY <2>2, ClearWrite
    <3>2. row'[d] = x /\ \A e \in Deliveries \ {d} : row'[e] = row[e]
      BY <3>1, RowWriteType
    <3>3. Open(d)' = Open(d)
      BY <3>1, <3>2 DEF Open
    <3>4. \A e \in Deliveries \ {d} : Open(e)' = Open(e)
      BY <3>2 DEF Open
    <3>5. UNCHANGED <<run, losses>> /\ \A e \in Deliveries : Inserted(e)' = Inserted(e)
      BY <2>2 DEF ClearYouTubeUpload, Inserted
    <3> QED BY <3>3, <3>4, <3>5, VideosRest
  <2>3. CASE ~UpdateVideoPrivacy(d) /\ ~ClearYouTubeUpload(d)
    <3>1. UNCHANGED <<run, losses, video, row>>
      BY <1>4, <2>3 DEF ClaimTarget, DriverStep, FindByPostTargetID, TryLater, WaitForDelivery,
                        SettleNativePublish, UpdateFails, MarkYouTubeTargetPublished
    <3> QED BY <1>1, <3>1
  <2> QED BY <2>1, <2>2, <2>3
<1>5. ASSUME NEW d \in Deliveries, NEW v \in Videos, YouTubePublishes(d, v) \/ VideoDeleted(d, v)
      PROVE  \A e \in Deliveries : VideoInv(e)'
  <2>2. \A e \in Deliveries : Inserted(e)' = Inserted(e)
    BY <1>5, OutsideSeen
  <2>3. UNCHANGED <<run, losses, row>>
    BY <1>5 DEF YouTubePublishes, VideoDeleted
  <2>4. \A e \in Deliveries : Open(e)' = Open(e)
    BY <2>3 DEF Open
  <2> QED BY <2>2, <2>3, <2>4, VideosRest
<1>6. ASSUME NEW p \in Procs, Crash(p) PROVE \A e \in Deliveries : VideoInv(e)'
  <2>1. \A s \in Slots : run'[s] = IF Home[s] = p THEN IdleRun ELSE run[s]
    BY <1>6, CrashType
  <2>2. \A e \in Deliveries : Can(e)' \subseteq Can(e)
    BY <2>1, IdleRunType DEF Can, Able
  <2>3. UNCHANGED <<losses, video, row>>
    BY <1>6 DEF Crash
  <2>4. \A e \in Deliveries : Inserted(e)' = Inserted(e) /\ Open(e)' = Open(e)
    BY <2>3 DEF Inserted, Open
  <2>5. \A e \in Deliveries : losses'[e] \in Nat /\ losses'[e] >= losses[e]
    BY <2>3, RowType
  <2> QED BY <2>2, <2>4, <2>5, VideoKept
<1>7. NextDay \/ UNCHANGED vars => UNCHANGED <<run, losses, video, row>>
  BY DEF NextDay, vars
<1> QED BY <1>1, <1>2, <1>3, <1>4, <1>5, <1>6, <1>7, ClaimVideos, ReclaimVideos DEF Next

-----------------------------------------------------------------------------
(* The inductive invariant and the theorems.                               *)

DeliveryInv ==
  /\ TypeOK
  /\ \A s \in Slots : RunInv(s)
  /\ \A t \in Days : QuotaInv(t)
  /\ \A d \in Deliveries : TableInv(d)
  /\ \A d \in Deliveries : VisibleInv(d)
  /\ \A d \in Deliveries : VideoInv(d)

LEMMA DeliveryInit == Init => DeliveryInv
<1> SUFFICES ASSUME Init PROVE DeliveryInv
  OBVIOUS
<1>1. 0 \in 0..MaxVideos /\ 0 \in 0..MaxDays /\ 1 \in Days /\ MaxAttempts \in Nat /\ MaxAttempts > 0
  BY DeliveryAssumption DEF Days
<1>2. TypeOK
  <2>1. row \in [Deliveries -> Row]
    BY <1>1 DEF Init, Row
  <2>2. pub \in [Deliveries -> [pc : {"idle", "look", "check", "update", "stamp", "wait"},
                                vid : 0..MaxVideos]]
    BY <1>1 DEF Init
  <2>3. run \in [Slots -> Run]
    BY IdleRunType DEF Init
  <2>4. quota \in [Days -> Quota]
    BY DEF Init, Quota
  <2> QED BY <1>1, <2>1, <2>2, <2>3, <2>4 DEF Init, TypeOK, Visibility
<1>3. \A s \in Slots : run[s].pc = "idle"
  BY IdleRunType DEF Init
<1>4. \A s \in Slots : RunInv(s)
  BY <1>3 DEF RunInv
<1>5. ASSUME NEW t \in Days PROVE QuotaInv(t)
  <2>1. Paid(t) = {}
    BY <1>3 DEF Paid
  <2>2. made[t] = 0 /\ quota[t].calls = 0 /\ quota[t].limit = 0
    BY DEF Init
  <2> QED BY <2>1, <2>2, FS_EmptySet DEF QuotaInv
<1>6. \A d \in Deliveries : TableInv(d)
  BY <1>1 DEF Init, TableInv
<1>7. \A d \in Deliveries : VisibleInv(d)
  BY DEF Init, VisibleInv
<1>8. ASSUME NEW d \in Deliveries PROVE VideoInv(d)
  <2>1. Can(d) = {} /\ Inserted(d) = {}
    BY <1>3 DEF Can, Able, Inserted, Init
  <2>2. Open(d) = 1 /\ losses[d] = 0
    BY DEF Init, Open
  <2> QED BY <2>1, <2>2, FS_EmptySet DEF VideoInv
<1> QED BY <1>2, <1>4, <1>5, <1>6, <1>7, <1>8 DEF DeliveryInv

LEMMA DeliveryNext == DeliveryInv /\ [Next]_vars => DeliveryInv'
<1> SUFFICES ASSUME DeliveryInv, [Next]_vars PROVE DeliveryInv'
  OBVIOUS
<1>1. /\ TypeOK /\ \A s \in Slots : RunInv(s)
      /\ \A t \in Days : QuotaInv(t)
      /\ \A d \in Deliveries : TableInv(d)
      /\ \A d \in Deliveries : VisibleInv(d)
      /\ \A d \in Deliveries : VideoInv(d)
  BY DEF DeliveryInv
<1>2. row' \in [Deliveries -> Row] /\ \A d \in Deliveries : TableInv(d)'
  BY <1>1, RowsKeep
<1>3. (\A u \in Slots : RunInv(u)') /\ \A t \in Days : QuotaInv(t)'
  BY <1>1, QuotaKeeps
<1>4. Phase2'
  BY <1>1, VisibleKeeps
<1>5. \A d \in Deliveries : VideoInv(d)'
  BY <1>1, VideosKeep
<1>6. run' \in [Slots -> Run]
  BY <1>1, RunNext
<1>7. /\ quota' \in [Days -> Quota] /\ made' \in [Days -> Nat] /\ day' \in Days
      /\ up' \subseteq Procs /\ losses' \in [Deliveries -> Nat]
  BY <1>1, OtherNext
<1>8. TypeOK'
  BY <1>2, <1>4, <1>6, <1>7 DEF TypeOK, Phase2, Target, Driver
<1> QED BY <1>2, <1>3, <1>4, <1>5, <1>8 DEF DeliveryInv, Phase2

LEMMA DeliveryAlways == Spec => []DeliveryInv
BY DeliveryInit, DeliveryNext, PTL DEF Spec

\* Every reachable state of the delivery queue, the quota rows and the second phase
\* has the declared type.
THEOREM DeliveryTypeCorrect == Spec => []TypeOK
<1>1. DeliveryInv => TypeOK
  BY DEF DeliveryInv
<1> QED BY <1>1, DeliveryAlways, PTL

\* However many goroutines and processes reserve, with whatever ceilings, and
\* wherever a day ends or a process dies, no day is charged beyond the largest
\* ceiling and no video is inserted that its day was not charged for.
THEOREM QuotaHonouredAlways == Spec => []QuotaHonoured
<1>1. DeliveryInv => QuotaHonoured
  <2> SUFFICES ASSUME DeliveryInv, NEW t \in Days
               PROVE  /\ made[t] <= quota[t].calls
                      /\ quota[t].calls = 0 \/ \E p \in Procs : quota[t].calls <= Limit[p]
    BY DEF QuotaHonoured
  <2>1. TypeOK /\ QuotaInv(t)
    BY DEF DeliveryInv
  <2>2. Cardinality(Paid(t)) \in Nat
    BY <2>1, FS_CardinalityType DEF QuotaInv
  <2> QED BY <2>1, <2>2, QuotaType DEF QuotaInv
<1> QED BY <1>1, DeliveryAlways, PTL

\* A delivery has at most one video more than claims of it were lost, for any
\* number of retries, quota waits, crashes and goroutines under one lease_owner.
THEOREM DuplicatesAccountedAlways == Spec => []DuplicatesAccounted
<1>1. DeliveryInv => DuplicatesAccounted
  <2> SUFFICES ASSUME DeliveryInv, NEW d \in Deliveries
               PROVE  Cardinality(Inserted(d)) <= 1 + losses[d]
    BY DEF DuplicatesAccounted
  <2>1. TypeOK /\ VideoInv(d)
    BY DEF DeliveryInv
  <2> QED BY <2>1, VideoTypes DEF VideoInv
<1> QED BY <1>1, DeliveryAlways, PTL

\* No delivery uses more than max_attempts attempts, and one that waits or is being
\* uploaded has an attempt left, whoever marks it and however often it is cleared.
THEOREM AttemptsHonouredAlways == Spec => []AttemptsHonoured
<1>1. DeliveryInv => AttemptsHonoured
  BY DEF DeliveryInv, TableInv, AttemptsHonoured
<1> QED BY <1>1, DeliveryAlways, PTL

\* A target is published only after a video of it was given the privacy that was
\* asked for, and of a native delivery only after one was public, whatever is
\* deleted, cleared, timed out and uploaded again in between.
THEOREM PublishedAsAskedAlways == Spec => []PublishedAsAsked
<1>1. DeliveryInv => PublishedAsAsked
  BY DEF DeliveryInv, VisibleInv, PublishedAsAsked, Shown
<1> QED BY <1>1, DeliveryAlways, PTL

-----------------------------------------------------------------------------
(* youtube_target_publications implements LeasedWork.                      *)

LEMMA MoveMaps ==
  ASSUME TypeOK, NEW d \in Deliveries, NEW x, RowWrite(d, x), NEW from, NEW to, NEW who,
         Phase(d) = from, Phase(d)' = to, x.owner = who
  PROVE  Lease!Move(d, from, to, who)
<1>1. row'[d] = x /\ \A e \in Deliveries \ {d} : row'[e] = row[e]
  BY RowWriteType
<1>2. \A e \in Deliveries \ {d} : Phase(e)' = Phase(e)
  BY <1>1 DEF Phase
<1> QED BY <1>1, <1>2 DEF Lease!Move

LEMMA StayMaps ==
  ASSUME \A d \in Deliveries : Phase(d)' = Phase(d) /\ row'[d].owner = row[d].owner
  PROVE  UNCHANGED Lease!vars
BY DEF Lease!vars

LEMMA LeaseInit == Init => Lease!Init
<1> SUFFICES ASSUME Init PROVE Lease!Init
  OBVIOUS
<1>1. \A d \in Deliveries : Phase(d) = "absent" /\ row[d].owner = NoOne
  BY DEF Init, Phase
<1> QED BY <1>1 DEF Lease!Init

\* The five writes of a row are an offer, a take, a return, nothing, and a return or
\* a settlement by the holder.
LEMMA RowMaps ==
  ASSUME TypeOK, NEW d \in Deliveries, TableInv(d), NEW x \in Row, RowSteps(d, x)
  PROVE  Lease!Next \/ UNCHANGED Lease!vars
<1>1. RowWrite(d, x)
  BY DEF RowSteps, Marks
<1>2. row'[d] = x /\ \A e \in Deliveries \ {d} : row'[e] = row[e]
  BY <1>1, RowWriteType
<1>3. /\ NoOne \notin Procs /\ row[d].owner \in Procs \cup {NoOne}
      /\ row[d].owner # NoOne => row[d].state = "uploading"
  BY DeliveryAssumption, RowType DEF TableInv
<1>4. CASE row[d].state = "absent" /\ x.state = "ready_to_upload" /\ x.owner = row[d].owner
  <2>1. Phase(d) = "absent" /\ Phase(d)' = "ready" /\ x.owner = NoOne
    BY <1>2, <1>3, <1>4 DEF Phase, Settled
  <2>2. Lease!Offer(d)
    BY <1>1, <2>1, MoveMaps DEF Lease!Offer
  <2> QED BY <2>2 DEF Lease!Next
<1>5. CASE row[d].state \in Waiting /\ x.state = "uploading" /\ x.owner \in Procs
  <2>1. Phase(d) = "ready" /\ Phase(d)' = "held"
    BY <1>2, <1>3, <1>5 DEF Phase, Settled, Waiting
  <2>2. Lease!Take(d, x.owner)
    BY <1>1, <2>1, MoveMaps DEF Lease!Take
  <2> QED BY <1>5, <2>2 DEF Lease!Next
<1>6. CASE /\ row[d].owner \in Procs /\ x.owner = NoOne
           /\ x.state \in {"ready_to_upload", "quota_wait", "uploading", "retry_wait"}
  <2>1. Phase(d) = "held" /\ Phase(d)' = "ready"
    BY <1>2, <1>3, <1>6 DEF Phase, Settled
  <2>2. Lease!Return(d)
    BY <1>1, <1>6, <2>1, MoveMaps DEF Lease!Return
  <2> QED BY <2>2 DEF Lease!Next
<1>7. CASE /\ row[d].owner \in Procs /\ x.owner = NoOne
           /\ x.state \in {"youtube_uploaded", "failed", "dead_letter"}
  <2>1. Phase(d) = "held" /\ Phase(d)' = "settled"
    BY <1>2, <1>3, <1>7 DEF Phase, Settled
  <2>2. Lease!Settle(d)
    BY <1>1, <1>7, <2>1, MoveMaps DEF Lease!Settle
  <2> QED BY <2>2 DEF Lease!Next
<1>8. CASE x.state = row[d].state /\ x.owner = row[d].owner
  <2>1. \A e \in Deliveries : Phase(e)' = Phase(e) /\ row'[e].owner = row[e].owner
    BY <1>2, <1>8 DEF Phase
  <2> QED BY <2>1, StayMaps
<1> QED BY <1>4, <1>5, <1>6, <1>7, <1>8 DEF RowSteps, Marks

LEMMA LeaseNext == DeliveryInv /\ [Next]_vars => [Lease!Next]_(Lease!vars)
<1> SUFFICES ASSUME DeliveryInv, [Next]_vars PROVE Lease!Next \/ UNCHANGED Lease!vars
  OBVIOUS
<1>1. TypeOK /\ \A d \in Deliveries : TableInv(d)
  BY DEF DeliveryInv
<1>2. CASE row' = row
  BY <1>2, StayMaps DEF Phase
<1>3. CASE \E d \in Deliveries, x \in Row : RowSteps(d, x)
  BY <1>1, <1>3, RowMaps
<1> QED BY <1>1, <1>2, <1>3, RowNext

\* youtube_target_publications is a leased work table for any number of deliveries,
\* processes and goroutines: only the holder's Mark* settles or returns a row, a row
\* changes hands through the queue, and an uploaded row is never taken again, not
\* even after ClearYouTubeUpload.
THEOREM DeliveriesImplementLeasedWork == Spec => ImplementsLeasedWork
BY LeaseInit, LeaseNext, DeliveryAlways, PTL DEF Spec, ImplementsLeasedWork, Lease!Spec
=============================================================================
