---------------------------- MODULE OutboxProofs ----------------------------
(***************************************************************************)
(* The safety properties of Outbox for any events, dispatchers and faults. *)
(*                                                                         *)
(* A claim is named by its number, so an old claim can never be mistaken   *)
(* for the current one (CtlInv: lease >= 1 and at most attempt_count), and *)
(* a decided row has no lease (RowInv): its CAS fails for everybody.       *)
(***************************************************************************)
EXTENDS Outbox, TLAPS

\* A row's lease is a claim that was made; a decided row has none.
RowInv(e) ==
  /\ row[e].lease <= row[e].attempts
  /\ row[e].status # "pending" => row[e].lease = 0 /\ ~row[e].live /\ row[e].due
  /\ jobs[e] \in {0, 1}
  /\ row[e].status = "processed" => jobs[e] = 1
  /\ row[e].status = "dead_letter" =>
       \/ e \in Foreign
       \/ e \notin target /\ jobs[e] = 0
       \/ row[e].attempts >= MaxAttempts

\* What a dispatcher at work knows of its row.
CtlInv(d) ==
  ctl[d].pc # "idle" =>
    /\ ctl[d].lease >= 1 /\ ctl[d].lease <= row[ctl[d].ev].attempts
    /\ ctl[d].result = "ok" => jobs[ctl[d].ev] = 1
    /\ ctl[d].result = "terminal" =>
         ctl[d].ev \in Foreign \/ (ctl[d].ev \notin target /\ jobs[ctl[d].ev] = 0)

OutboxInv == TypeOK /\ (\A e \in Events : RowInv(e)) /\ (\A d \in Dispatchers : CtlInv(d))

LEMMA IdleCtlType == IdleCtl \in Ctl /\ IdleCtl.pc = "idle"
<1>1. (CHOOSE e \in Events : TRUE) \in Events
  BY OutboxAssumption
<1> QED BY <1>1, OutboxAssumption DEF IdleCtl, Ctl

LEMMA OutboxInvInit == Init => OutboxInv
<1> SUFFICES ASSUME Init PROVE OutboxInv
  OBVIOUS
<1>1. TypeOK
  BY IdleCtlType, OutboxAssumption DEF Init, TypeOK, Row, Statuses
<1>2. ASSUME NEW e \in Events PROVE RowInv(e)
  BY <1>2 DEF Init, RowInv
<1>3. ASSUME NEW d \in Dispatchers PROVE CtlInv(d)
  BY <1>3, IdleCtlType DEF Init, CtlInv
<1> QED BY <1>1, <1>2, <1>3 DEF OutboxInv

LEMMA ClaimNextInv ==
  ASSUME OutboxInv, NEW d \in Dispatchers, ClaimNext(d)
  PROVE  OutboxInv'
<1> USE DEF OutboxInv
<1>1. PICK e \in Events :
        /\ Claimable(e) /\ row[e].attempts < MaxClaims
        /\ row' = [row EXCEPT ![e].lease = row[e].attempts + 1, ![e].live = TRUE,
                              ![e].attempts = row[e].attempts + 1]
        /\ ctl' = [ctl EXCEPT ![d] = [pc |-> "work", ev |-> e, lease |-> row[e].attempts + 1,
                                      result |-> "none"]]
  BY DEF ClaimNext
<1> DEFINE n == row[e].attempts + 1
<1>2. n \in 1..MaxClaims /\ row[e] \in Row /\ n > row[e].attempts
  BY <1>1, OutboxAssumption DEF TypeOK, Row
<1>3. row' = [row EXCEPT ![e] = [row[e] EXCEPT !.lease = n, !.live = TRUE, !.attempts = n]]
  BY <1>1 DEF TypeOK
<1>4. ctl' = [ctl EXCEPT ![d] = [pc |-> "work", ev |-> e, lease |-> n, result |-> "none"]]
  BY <1>1
<1> HIDE DEF n
<1>5. row' \in [Events -> Row] /\ ctl' \in [Dispatchers -> Ctl]
  <2>1. n \in 0..MaxClaims
    BY <1>2
  <2>2. [row[e] EXCEPT !.lease = n, !.live = TRUE, !.attempts = n] \in Row
    BY <1>2, <2>1 DEF Row
  <2>3. [pc |-> "work", ev |-> e, lease |-> n, result |-> "none"] \in Ctl
    BY <2>1 DEF Ctl
  <2> QED BY <1>3, <1>4, <2>2, <2>3 DEF TypeOK
<1>6. TypeOK'
  BY <1>5 DEF TypeOK, ClaimNext
<1>7. /\ row'[e].lease = n /\ row'[e].attempts = n /\ row'[e].status = "pending"
      /\ \A f \in Events \ {e} : row'[f] = row[f]
  BY <1>1, <1>2, <1>3 DEF TypeOK, Row, Claimable
<1>8. ASSUME NEW f \in Events PROVE RowInv(f)'
  <2>1. CASE f = e
    <3>1. jobs' = jobs /\ jobs[e] \in {0, 1} /\ n <= n
      BY <1>2 DEF ClaimNext, RowInv
    <3>2. RowInv(e)'
      BY <1>7, <3>1 DEF RowInv
    <3> QED BY <2>1, <3>2
  <2>2. CASE f # e
    BY <1>7, <2>2 DEF RowInv, ClaimNext
  <2> QED BY <2>1, <2>2
<1>9. ASSUME NEW c \in Dispatchers PROVE CtlInv(c)'
  <2>1. CASE c = d
    BY <1>2, <1>4, <1>7, <2>1 DEF CtlInv, TypeOK
  <2>2. CASE c # d
    <3>1. ctl'[c] = ctl[c] /\ ctl[c].ev \in Events /\ ctl[c].lease \in 0..MaxClaims
      BY <1>4, <2>2 DEF TypeOK, Ctl
    <3>2. row[ctl[c].ev].attempts <= row'[ctl[c].ev].attempts
          /\ row[ctl[c].ev].attempts \in Nat /\ row'[ctl[c].ev].attempts \in Nat
      <4>1. \A f \in Events : row[f].attempts \in 0..MaxClaims
        BY DEF TypeOK, Row
      <4>2. CASE ctl[c].ev = e
        BY <1>2, <1>7, <4>1, <4>2
      <4>3. CASE ctl[c].ev # e
        BY <1>7, <3>1, <4>1, <4>3
      <4> QED BY <4>2, <4>3
    <3> QED BY <3>1, <3>2, OutboxAssumption DEF CtlInv, ClaimNext
  <2> QED BY <2>1, <2>2
<1> QED BY <1>6, <1>8, <1>9

\* The row keeps its decision, its lease and its count.
SameRow(f) ==
  /\ row'[f].status = row[f].status /\ row'[f].lease = row[f].lease
  /\ row'[f].attempts = row[f].attempts
  /\ row[f].due => row'[f].due
  /\ row'[f].live => row[f].live \/ row[f].lease # 0

\* Steps that change neither status, lease nor attempt_count of any row.
LEMMA LeaseFrame ==
  ASSUME OutboxInv, NEW e \in Events, NEW b \in BOOLEAN,
         \/ row' = [row EXCEPT ![e] = [row[e] EXCEPT !.live = b]] /\ (b => row[e].lease # 0)
         \/ row' = [row EXCEPT ![e] = [row[e] EXCEPT !.due = TRUE]],
         UNCHANGED <<target, jobs, ctl, up>>
  PROVE  OutboxInv'
<1> USE DEF OutboxInv
<1>1. row[e] \in Row
  BY DEF TypeOK
<1>2. row' \in [Events -> Row] /\ \A f \in Events : SameRow(f)
  <2>1. CASE row' = [row EXCEPT ![e] = [row[e] EXCEPT !.live = b]] /\ (b => row[e].lease # 0)
    <3>1. [row[e] EXCEPT !.live = b] \in Row
      BY <1>1 DEF Row
    <3>2. row' \in [Events -> Row]
      BY <2>1, <3>1 DEF TypeOK
    <3>3. ASSUME NEW f \in Events PROVE SameRow(f)
      <4>1. CASE f = e
        <5>1. row'[f] = [row[e] EXCEPT !.live = b]
          BY <2>1, <4>1 DEF TypeOK
        <5> QED BY <1>1, <2>1, <4>1, <5>1 DEF Row, SameRow
      <4>2. CASE f # e
        BY <2>1, <4>2 DEF TypeOK, SameRow
      <4> QED BY <4>1, <4>2
    <3> QED BY <3>2, <3>3
  <2>2. CASE row' = [row EXCEPT ![e] = [row[e] EXCEPT !.due = TRUE]]
    <3>1. [row[e] EXCEPT !.due = TRUE] \in Row
      BY <1>1 DEF Row
    <3>2. row' \in [Events -> Row]
      BY <2>2, <3>1 DEF TypeOK
    <3>3. ASSUME NEW f \in Events PROVE SameRow(f)
      <4>1. CASE f = e
        <5>1. row'[f] = [row[e] EXCEPT !.due = TRUE]
          BY <2>2, <4>1 DEF TypeOK
        <5> QED BY <1>1, <4>1, <5>1 DEF Row, SameRow
      <4>2. CASE f # e
        BY <2>2, <4>2 DEF TypeOK, SameRow
      <4> QED BY <4>1, <4>2
    <3> QED BY <3>2, <3>3
  <2> QED BY <2>1, <2>2
<1>4. TypeOK'
  BY <1>2 DEF TypeOK
<1>5. ASSUME NEW f \in Events PROVE RowInv(f)'
  <2>1. RowInv(f) /\ SameRow(f)
    BY <1>2
  <2>2. row'[f].live \in BOOLEAN /\ row'[f].due \in BOOLEAN
        /\ row[f].live \in BOOLEAN /\ row[f].due \in BOOLEAN
    BY <1>2 DEF TypeOK, Row
  <2>3. jobs'[f] = jobs[f] /\ target' = target
    OBVIOUS
  <2>4. row'[f].lease <= row'[f].attempts
    BY <2>1 DEF RowInv, SameRow
  <2>5. row'[f].status # "pending" => row'[f].lease = 0 /\ ~row'[f].live /\ row'[f].due
    BY <2>1, <2>2 DEF RowInv, SameRow
  <2>6. jobs'[f] \in {0, 1} /\ (row'[f].status = "processed" => jobs'[f] = 1)
    BY <2>1, <2>3 DEF RowInv, SameRow
  <2>7. row'[f].status = "dead_letter" =>
          f \in Foreign \/ (f \notin target' /\ jobs'[f] = 0) \/ row'[f].attempts >= MaxAttempts
    BY <2>1, <2>3 DEF RowInv, SameRow
  <2> QED BY <2>4, <2>5, <2>6, <2>7 DEF RowInv
<1>6. ASSUME NEW c \in Dispatchers PROVE CtlInv(c)'
  <2>1. CtlInv(c) /\ ctl[c].ev \in Events
    BY DEF TypeOK, Ctl
  <2>2. SameRow(ctl[c].ev)
    BY <1>2, <2>1
  <2>3. ctl' = ctl /\ jobs' = jobs /\ target' = target
    OBVIOUS
  <2>4. row'[ctl[c].ev].attempts = row[ctl[c].ev].attempts
    BY <2>2 DEF SameRow
  <2> QED BY <2>1, <2>3, <2>4 DEF CtlInv
<1> QED BY <1>4, <1>5, <1>6

\* ProcessFunc returns: the row is untouched, publish_jobs may have grown.
LEMMA ReturnsInv ==
  ASSUME OutboxInv, NEW d \in Dispatchers, NEW r \in {"ok", "terminal", "transient"},
         Returns(d, r),
         jobs' = jobs \/ ((ctl[d].ev \in target \/ jobs[ctl[d].ev] > 0) /\ InsertJob(ctl[d].ev)),
         r = "ok" => jobs'[ctl[d].ev] = 1,
         r = "terminal" => ctl[d].ev \in Foreign \/ (ctl[d].ev \notin target /\ jobs'[ctl[d].ev] = 0)
  PROVE  OutboxInv'
<1> USE DEF OutboxInv
<1>1. ctl[d] \in Ctl /\ ctl[d].ev \in Events
  BY DEF TypeOK, Ctl
<1>2. [ctl[d] EXCEPT !.pc = "mark", !.result = r] \in Ctl
  BY <1>1 DEF Ctl
<1>3. ctl' = [ctl EXCEPT ![d] = [ctl[d] EXCEPT !.pc = "mark", !.result = r]]
  BY DEF Returns, TypeOK
<1>4. ctl' \in [Dispatchers -> Ctl]
  BY <1>2, <1>3 DEF TypeOK
<1>6. /\ jobs' \in [Events -> Nat]
      /\ \A e \in Events : jobs'[e] \in {0, 1} /\ (jobs[e] = 1 => jobs'[e] = 1)
      /\ \A e \in Events : e \notin target => jobs'[e] = jobs[e]
  BY <1>1 DEF InsertJob, TypeOK, RowInv
<1>7. TypeOK'
  BY <1>4, <1>6 DEF TypeOK, Returns
<1>8. \A e \in Events : RowInv(e)'
  BY <1>6 DEF RowInv, Returns
<1>9. ASSUME NEW c \in Dispatchers PROVE CtlInv(c)'
  <2>1. CASE c = d
    <3>1. ctl'[c].ev = ctl[c].ev /\ ctl'[c].lease = ctl[c].lease /\ ctl'[c].result = r
      BY <1>1, <1>3, <2>1 DEF TypeOK, Ctl
    <3>2. ctl[c].pc = "work" /\ row' = row /\ target' = target
      BY <2>1 DEF Returns
    <3> QED BY <2>1, <3>1, <3>2 DEF CtlInv
  <2>2. CASE c # d
    <3>1. ctl'[c] = ctl[c] /\ ctl[c].ev \in Events
      BY <1>3, <2>2 DEF TypeOK, Ctl
    <3>2. row' = row /\ target' = target
      BY DEF Returns
    <3> QED BY <1>6, <3>1, <3>2 DEF CtlInv
  <2> QED BY <2>1, <2>2
<1> QED BY <1>7, <1>8, <1>9

\* A mark writes a decided or a failed row, and only over its own lease.
LEMMA MarksInv ==
  ASSUME OutboxInv, NEW d \in Dispatchers, NEW r \in Row, Marks(d, r),
         r.attempts = row[ctl[d].ev].attempts, r.lease = 0, ~r.live,
         r.status # "pending" => r.due,
         r.status = "processed" => ctl[d].result = "ok",
         r.status = "dead_letter" =>
           ctl[d].result = "terminal" \/ ctl[d].lease >= MaxAttempts
  PROVE  OutboxInv'
<1> USE DEF OutboxInv
<1>1. ctl[d] \in Ctl /\ ctl[d].ev \in Events /\ ctl[d].lease \in 0..MaxClaims
  BY DEF TypeOK, Ctl
<1>2. ctl' = [ctl EXCEPT ![d] = IdleCtl] /\ ctl' \in [Dispatchers -> Ctl]
  BY IdleCtlType DEF Marks, TypeOK
<1>3. row' \in [Events -> Row] /\ \A f \in Events : row'[f].attempts = row[f].attempts
  BY <1>1 DEF Marks, TypeOK
<1>4. TypeOK'
  BY <1>2, <1>3 DEF TypeOK, Marks
<1>5. ASSUME NEW f \in Events PROVE RowInv(f)'
  <2>1. CASE row'[f] = row[f]
    BY <2>1 DEF RowInv, Marks
  <2>2. CASE row'[f] # row[f]
    <3>1. f = ctl[d].ev /\ row'[f] = r /\ OwnsLease(d)
      BY <1>1, <2>2 DEF Marks, TypeOK
    <3>2. CtlInv(d) /\ ctl[d].pc # "idle" /\ jobs' = jobs /\ target' = target
      BY DEF Marks
    <3>3. row[f].attempts \in Nat /\ MaxAttempts \in Nat /\ ctl[d].lease <= row[f].attempts
      BY <3>1, <3>2, OutboxAssumption DEF CtlInv, TypeOK, Row
    <3>4. r.lease <= r.attempts
      BY <3>1, <3>3
    <3>5. jobs[f] \in {0, 1} /\ (r.status = "processed" => jobs[f] = 1)
      BY <3>1, <3>2 DEF CtlInv, RowInv
    <3>6. ctl[d].lease >= MaxAttempts => r.attempts >= MaxAttempts
      BY <1>1, <3>1, <3>3, OutboxAssumption
    <3>7. r.status = "dead_letter" =>
            f \in Foreign \/ (f \notin target /\ jobs[f] = 0) \/ r.attempts >= MaxAttempts
      BY <3>1, <3>2, <3>6 DEF CtlInv
    <3> QED BY <3>1, <3>2, <3>4, <3>5, <3>7 DEF RowInv
  <2> QED BY <2>1, <2>2
<1>6. ASSUME NEW c \in Dispatchers PROVE CtlInv(c)'
  <2>1. CASE c = d
    BY <1>2, <2>1, IdleCtlType DEF CtlInv, TypeOK
  <2>2. CASE c # d
    <3>1. ctl'[c] = ctl[c] /\ ctl[c].ev \in Events
      BY <1>2, <2>2 DEF TypeOK, Ctl
    <3>2. row'[ctl[c].ev].attempts = row[ctl[c].ev].attempts /\ jobs' = jobs /\ target' = target
      BY <1>3, <3>1 DEF Marks
    <3> QED BY <3>1, <3>2 DEF CtlInv
  <2> QED BY <2>1, <2>2
<1> QED BY <1>4, <1>5, <1>6

\* The three marks are marks in the sense of MarksInv.
LEMMA MarkingInv ==
  ASSUME OutboxInv, NEW d \in Dispatchers, MarkProcessed(d) \/ MarkDeadLetter(d) \/ MarkFailed(d)
  PROVE  OutboxInv'
<1> DEFINE old == row[ctl[d].ev]
           done == [old EXCEPT !.status = "processed", !.lease = 0, !.live = FALSE,
                               !.due = TRUE]
           dead == [old EXCEPT !.status = "dead_letter", !.lease = 0, !.live = FALSE, !.due = TRUE]
           again == [old EXCEPT !.lease = 0, !.live = FALSE, !.due = FALSE]
<1>1. ctl[d].ev \in Events /\ ctl[d].lease \in 0..MaxClaims /\ old \in Row
  BY DEF OutboxInv, TypeOK, Ctl
<1>2. 0 \in 0..MaxClaims
  BY OutboxAssumption
<1>3. CASE MarkProcessed(d)
  <2>1. done \in Row /\ done.attempts = old.attempts /\ done.lease = 0 /\ ~done.live
        /\ done.status = "processed" /\ done.due
    BY <1>1, <1>2 DEF Row, Statuses
  <2>2. Marks(d, done) /\ ctl[d].result = "ok"
    BY <1>3 DEF MarkProcessed
  <2> HIDE DEF done
  <2> QED BY <2>1, <2>2, MarksInv
<1>4. CASE MarkDeadLetter(d)
  <2>1. dead \in Row /\ dead.attempts = old.attempts /\ dead.lease = 0 /\ ~dead.live
        /\ dead.status = "dead_letter" /\ dead.due
    BY <1>1, <1>2 DEF Row, Statuses
  <2>2. Marks(d, dead) /\ (ctl[d].result = "terminal" \/ ~AttemptsLeft(d))
    BY <1>4 DEF MarkDeadLetter
  <2>3. ctl[d].result = "terminal" \/ ctl[d].lease >= MaxAttempts
    BY <1>1, <2>2, OutboxAssumption DEF AttemptsLeft
  <2> HIDE DEF dead
  <2> QED BY <2>1, <2>2, <2>3, MarksInv
<1>5. CASE MarkFailed(d)
  <2>1. again \in Row /\ again.attempts = old.attempts /\ again.lease = 0 /\ ~again.live
        /\ again.status = old.status
    BY <1>1, <1>2 DEF Row, Statuses
  <2>2. Marks(d, again) /\ ctl[d].pc = "mark"
    BY <1>5 DEF MarkFailed, Marks
  <2> HIDE DEF again
  <2>3. CASE OwnsLease(d)
    <3>1. ctl[d].lease >= 1 /\ old.lease = ctl[d].lease
      BY <2>2, <2>3 DEF OutboxInv, CtlInv, OwnsLease
    <3>2. old.lease # 0
      BY <1>1, <3>1
    <3>3. old.status = "pending"
      BY <1>1, <3>2 DEF OutboxInv, RowInv
    <3> QED BY <2>1, <2>2, <3>3, MarksInv
  <2>4. CASE ~OwnsLease(d)
    <3>1. row' = row /\ ctl' = [ctl EXCEPT ![d] = IdleCtl] /\ UNCHANGED <<target, jobs, up>>
      BY <2>2, <2>4 DEF Marks
    <3>2. TypeOK'
      BY <3>1, IdleCtlType DEF OutboxInv, TypeOK
    <3>3. \A f \in Events : RowInv(f)'
      BY <3>1 DEF OutboxInv, RowInv
    <3>4. ASSUME NEW c \in Dispatchers PROVE CtlInv(c)'
      BY <3>1, <3>4, IdleCtlType DEF OutboxInv, TypeOK, CtlInv
    <3> QED BY <3>2, <3>3, <3>4 DEF OutboxInv
  <2> QED BY <2>3, <2>4
<1> QED BY <1>3, <1>4, <1>5

LEMMA ProcessInv ==
  ASSUME OutboxInv, NEW d \in Dispatchers,
         ProcessTerminal(d) \/ ProcessOk(d) \/ ProcessTransient(d)
  PROVE  OutboxInv'
<1>0. ctl[d].ev \in Events /\ jobs[ctl[d].ev] \in {0, 1}
  BY DEF OutboxInv, TypeOK, Ctl, RowInv
<1>1. CASE ProcessTerminal(d)
  BY <1>1, ReturnsInv DEF ProcessTerminal
<1>2. CASE ProcessOk(d)
  <2>1. jobs'[ctl[d].ev] = 1
    BY <1>0, <1>2 DEF ProcessOk, InsertJob, OutboxInv, TypeOK
  <2> QED BY <1>2, <2>1, ReturnsInv DEF ProcessOk
<1>3. CASE ProcessTransient(d)
  BY <1>3, ReturnsInv DEF ProcessTransient
<1> QED BY <1>1, <1>2, <1>3

\* A dispatcher that forgets its row, and a target that disappears.
LEMMA ForgetInv ==
  ASSUME OutboxInv, NEW d \in Dispatchers, MarkLost(d) \/ Crash(d)
  PROVE  OutboxInv'
<1>1. row' = row /\ ctl' = [ctl EXCEPT ![d] = IdleCtl] /\ UNCHANGED <<target, jobs>>
      /\ up' \subseteq Dispatchers
  BY DEF MarkLost, Crash, OutboxInv, TypeOK
<1>2. TypeOK'
  BY <1>1, IdleCtlType DEF OutboxInv, TypeOK
<1>3. \A f \in Events : RowInv(f)'
  BY <1>1 DEF OutboxInv, RowInv
<1>4. ASSUME NEW c \in Dispatchers PROVE CtlInv(c)'
  BY <1>1, <1>4, IdleCtlType DEF OutboxInv, TypeOK, CtlInv
<1> QED BY <1>2, <1>3, <1>4 DEF OutboxInv

LEMMA DeleteTargetInv ==
  ASSUME OutboxInv, NEW e \in Events, DeleteTarget(e)
  PROVE  OutboxInv'
<1>1. TypeOK'
  BY DEF OutboxInv, TypeOK, DeleteTarget
<1>2. \A f \in Events : RowInv(f)'
  BY DEF OutboxInv, RowInv, DeleteTarget
<1>3. \A c \in Dispatchers : CtlInv(c)'
  BY DEF OutboxInv, CtlInv, DeleteTarget
<1> QED BY <1>1, <1>2, <1>3 DEF OutboxInv

LEMMA TimeInv ==
  ASSUME OutboxInv, NEW e \in Events, LeaseExpires(e) \/ BackoffEnds(e)
  PROVE  OutboxInv'
<1>1. CASE LeaseExpires(e)
  <2>1. row' = [row EXCEPT ![e] = [row[e] EXCEPT !.live = FALSE]]
        /\ UNCHANGED <<target, jobs, ctl, up>>
    BY <1>1 DEF LeaseExpires, OutboxInv, TypeOK
  <2> QED BY <2>1, LeaseFrame
<1>2. CASE BackoffEnds(e)
  <2>1. row' = [row EXCEPT ![e] = [row[e] EXCEPT !.due = TRUE]]
        /\ UNCHANGED <<target, jobs, ctl, up>>
    BY <1>2 DEF BackoffEnds, OutboxInv, TypeOK
  <2> QED BY <2>1, LeaseFrame
<1> QED BY <1>1, <1>2

LEMMA RenewInv ==
  ASSUME OutboxInv, NEW d \in Dispatchers, RenewLease(d)
  PROVE  OutboxInv'
<1>1. ctl[d].ev \in Events /\ row[ctl[d].ev].lease # 0
  <2>1. ctl[d].ev \in Events /\ ctl[d].lease \in 0..MaxClaims
    BY DEF OutboxInv, TypeOK, Ctl
  <2>2. ctl[d].lease >= 1 /\ row[ctl[d].ev].lease = ctl[d].lease
    BY DEF RenewLease, OutboxInv, CtlInv
  <2> QED BY <2>1, <2>2
<1>2. row' = [row EXCEPT ![ctl[d].ev] = [row[ctl[d].ev] EXCEPT !.live = TRUE]]
      /\ UNCHANGED <<target, jobs, ctl, up>>
  BY DEF RenewLease, OutboxInv, TypeOK
<1> QED BY <1>1, <1>2, LeaseFrame

-----------------------------------------------------------------------------
LEMMA OutboxInvNext == OutboxInv /\ [Next]_vars => OutboxInv'
<1> SUFFICES ASSUME OutboxInv, [Next]_vars PROVE OutboxInv'
  OBVIOUS
<1>1. CASE UNCHANGED vars
  BY <1>1 DEF vars, OutboxInv, TypeOK, RowInv, CtlInv
<1>2. ASSUME NEW d \in Dispatchers,
             ClaimNext(d) \/ Dispatch(d) \/ RenewLease(d) \/ MarkLost(d) \/ Crash(d)
      PROVE  OutboxInv'
  BY <1>2, ClaimNextInv, ProcessInv, MarkingInv, RenewInv, ForgetInv DEF Dispatch
<1>3. ASSUME NEW e \in Events, LeaseExpires(e) \/ BackoffEnds(e) \/ DeleteTarget(e)
      PROVE  OutboxInv'
  BY <1>3, TimeInv, DeleteTargetInv
<1> QED BY <1>1, <1>2, <1>3 DEF Next

\* The rows of outbox_events and the dispatchers' state keep their types.
THEOREM OutboxTypeCorrect == Spec => []TypeOK
<1>1. OutboxInv => TypeOK
  BY DEF OutboxInv
<1> QED BY <1>1, OutboxInvInit, OutboxInvNext, PTL DEF Spec

\* However many dispatchers claim an event again after crashes, stalls, lost
\* marks and lost answers, it makes at most one publish_jobs row, and one if it
\* is marked processed.
THEOREM ExactlyOneJobAlways == Spec => []ExactlyOneJob
<1>1. OutboxInv => ExactlyOneJob
  BY DEF OutboxInv, RowInv, ExactlyOneJob
<1> QED BY <1>1, OutboxInvInit, OutboxInvNext, PTL DEF Spec

\* Every dead letter has one of the three reasons the dispatcher knows.
THEOREM DeadLetterJustifiedAlways == Spec => []DeadLetterJustified
<1>1. OutboxInv => DeadLetterJustified
  BY DEF OutboxInv, RowInv, DeadLetterJustified
<1> QED BY <1>1, OutboxInvInit, OutboxInvNext, PTL DEF Spec

-----------------------------------------------------------------------------
(* A decided row has no lease, so no claim, mark or renewal can touch it.  *)

LEMMA DecidedUntouched ==
  ASSUME OutboxInv, [Next]_vars, NEW e \in Events, row[e].status # "pending"
  PROVE  row'[e] = row[e]
<1>1. row[e].lease = 0 /\ ~row[e].live /\ row[e].due
  BY DEF OutboxInv, RowInv
<1>2. ASSUME NEW d \in Dispatchers, ctl[d].pc # "idle", ctl[d].ev = e
      PROVE  ~OwnsLease(d)
  <2>1. ctl[d].lease >= 1 /\ ctl[d].lease \in 0..MaxClaims
    BY <1>2 DEF OutboxInv, CtlInv, TypeOK, Ctl
  <2> QED BY <1>1, <1>2, <2>1 DEF OwnsLease
<1>3. CASE UNCHANGED vars
  BY <1>3 DEF vars
<1>4. ASSUME NEW d \in Dispatchers, ClaimNext(d) PROVE row'[e] = row[e]
  BY <1>4 DEF ClaimNext, Claimable, OutboxInv, TypeOK
<1>5. ASSUME NEW d \in Dispatchers, NEW r, Marks(d, r) PROVE row'[e] = row[e]
  <2>1. CASE ctl[d].ev = e
    BY <1>2, <1>5, <2>1 DEF Marks
  <2>2. CASE ctl[d].ev # e
    BY <1>5, <2>2 DEF Marks, OutboxInv, TypeOK
  <2> QED BY <2>1, <2>2
<1>6. ASSUME NEW d \in Dispatchers, Dispatch(d) PROVE row'[e] = row[e]
  <2>1. CASE ProcessTerminal(d) \/ ProcessOk(d) \/ ProcessTransient(d)
    BY <2>1 DEF ProcessTerminal, ProcessOk, ProcessTransient, Returns
  <2>2. CASE MarkProcessed(d)
    BY <1>5, <2>2 DEF MarkProcessed
  <2>3. CASE MarkDeadLetter(d)
    BY <1>5, <2>3 DEF MarkDeadLetter
  <2>4. CASE MarkFailed(d)
    BY <1>5, <2>4 DEF MarkFailed
  <2> QED BY <1>6, <2>1, <2>2, <2>3, <2>4 DEF Dispatch
<1>7. ASSUME NEW d \in Dispatchers, RenewLease(d) PROVE row'[e] = row[e]
  <2>1. ctl[d].ev # e
    BY <1>2, <1>7 DEF RenewLease, OwnsLease
  <2> QED BY <1>7, <2>1 DEF RenewLease, OutboxInv, TypeOK
<1>8. ASSUME NEW d \in Dispatchers, MarkLost(d) \/ Crash(d) PROVE row'[e] = row[e]
  BY <1>8 DEF MarkLost, Crash
<1>9. ASSUME NEW f \in Events, LeaseExpires(f) \/ BackoffEnds(f) \/ DeleteTarget(f)
      PROVE  row'[e] = row[e]
  <2>1. CASE f = e
    BY <1>1, <1>9, <2>1 DEF LeaseExpires, BackoffEnds, DeleteTarget
  <2>2. CASE f # e
    BY <1>9, <2>2 DEF LeaseExpires, BackoffEnds, DeleteTarget, OutboxInv, TypeOK
  <2> QED BY <2>1, <2>2
<1> QED BY <1>3, <1>4, <1>6, <1>7, <1>8, <1>9 DEF Next

\* No late mark, renewal or second claim changes a row that is processed or
\* dead-lettered.
THEOREM DecisionStableAlways == Spec => DecisionStable
<1>1. OutboxInv /\ [Next]_vars => [\A e \in Events : row[e].status # "pending" => row'[e] = row[e]]_vars
  BY DecidedUntouched
<1> QED BY <1>1, OutboxInvInit, OutboxInvNext, PTL DEF Spec, DecisionStable

-----------------------------------------------------------------------------
(* Without stalls a dispatcher at work holds the live lease of its row.    *)

HoldInv ==
  "stall" \notin Faults =>
    /\ \A d \in Dispatchers :
         ctl[d].pc # "idle" => d \in up /\ OwnsLease(d) /\ row[ctl[d].ev].live
    /\ \A c, d \in Dispatchers :
         ctl[c].pc # "idle" /\ ctl[d].pc # "idle" /\ ctl[c].ev = ctl[d].ev => c = d

LEMMA HoldInvNext == OutboxInv /\ HoldInv /\ [Next]_vars => HoldInv'
<1> SUFFICES ASSUME OutboxInv, HoldInv, [Next]_vars, "stall" \notin Faults
             PROVE  /\ \A d \in Dispatchers :
                         ctl'[d].pc # "idle" => d \in up' /\ OwnsLease(d)' /\ row'[ctl'[d].ev].live
                    /\ \A c, d \in Dispatchers :
                         ctl'[c].pc # "idle" /\ ctl'[d].pc # "idle" /\ ctl'[c].ev = ctl'[d].ev => c = d
  BY DEF HoldInv
<1>1. ASSUME NEW d \in Dispatchers, ctl[d].pc # "idle"
      PROVE  d \in up /\ OwnsLease(d) /\ row[ctl[d].ev].live
  BY <1>1 DEF HoldInv
<1>2. ASSUME NEW c \in Dispatchers, NEW d \in Dispatchers,
             ctl[c].pc # "idle", ctl[d].pc # "idle", ctl[c].ev = ctl[d].ev
      PROVE  c = d
  BY <1>2 DEF HoldInv
\* Nobody's event changes, and the events at work keep their leases.
<1>3. ASSUME \A d \in Dispatchers : ctl'[d].pc # "idle" =>
               /\ ctl[d].pc # "idle" /\ ctl'[d].ev = ctl[d].ev /\ ctl'[d].lease = ctl[d].lease
               /\ d \in up'
               /\ row'[ctl[d].ev].lease = row[ctl[d].ev].lease
               /\ row'[ctl[d].ev].live = row[ctl[d].ev].live
      PROVE  /\ \A d \in Dispatchers :
                  ctl'[d].pc # "idle" => d \in up' /\ OwnsLease(d)' /\ row'[ctl'[d].ev].live
             /\ \A c, d \in Dispatchers :
                  ctl'[c].pc # "idle" /\ ctl'[d].pc # "idle" /\ ctl'[c].ev = ctl'[d].ev => c = d
  <2>1. ASSUME NEW d \in Dispatchers, ctl'[d].pc # "idle"
        PROVE  d \in up' /\ OwnsLease(d)' /\ row'[ctl'[d].ev].live
    BY <1>1, <1>3, <2>1 DEF OwnsLease
  <2>2. ASSUME NEW c \in Dispatchers, NEW d \in Dispatchers,
               ctl'[c].pc # "idle", ctl'[d].pc # "idle", ctl'[c].ev = ctl'[d].ev
        PROVE  c = d
    BY <1>2, <1>3, <2>2
  <2> QED BY <2>1, <2>2
<1>4. CASE UNCHANGED vars
  BY <1>3, <1>4, <1>1 DEF vars
<1>5. ASSUME NEW d \in Dispatchers, ClaimNext(d)
      PROVE  /\ \A c \in Dispatchers :
                  ctl'[c].pc # "idle" => c \in up' /\ OwnsLease(c)' /\ row'[ctl'[c].ev].live
             /\ \A b, c \in Dispatchers :
                  ctl'[b].pc # "idle" /\ ctl'[c].pc # "idle" /\ ctl'[b].ev = ctl'[c].ev => b = c
  <2>1. PICK e \in Events :
          /\ Claimable(e)
          /\ row' = [row EXCEPT ![e].lease = row[e].attempts + 1, ![e].live = TRUE,
                                ![e].attempts = row[e].attempts + 1]
          /\ ctl' = [ctl EXCEPT ![d] = [pc |-> "work", ev |-> e, lease |-> row[e].attempts + 1,
                                        result |-> "none"]]
    BY <1>5 DEF ClaimNext
  <2>2. d \in up /\ up' = up
    BY <1>5 DEF ClaimNext
  <2>3. ASSUME NEW c \in Dispatchers, ctl[c].pc # "idle" PROVE ctl[c].ev # e
    <3>1. ctl[c].lease >= 1 /\ ctl[c].lease \in 0..MaxClaims /\ OwnsLease(c) /\ row[ctl[c].ev].live
      BY <1>1, <2>3 DEF OutboxInv, CtlInv, TypeOK, Ctl
    <3> QED BY <2>1, <3>1 DEF Claimable, OwnsLease
  <2>4. row'[e].lease = row[e].attempts + 1 /\ row'[e].live = TRUE
    BY <2>1 DEF OutboxInv, TypeOK, Row
  <2>5. ctl'[d].ev = e /\ ctl'[d].lease = row[e].attempts + 1
    BY <2>1 DEF OutboxInv, TypeOK
  <2>6. ASSUME NEW c \in Dispatchers \ {d} PROVE ctl'[c] = ctl[c] /\ ctl[c].ev \in Events
    BY <2>1, <2>6 DEF OutboxInv, TypeOK, Ctl
  <2>7. ASSUME NEW c \in Dispatchers \ {d}, ctl[c].pc # "idle"
        PROVE  row'[ctl[c].ev] = row[ctl[c].ev]
    BY <2>1, <2>3, <2>6, <2>7 DEF OutboxInv, TypeOK
  <2>8. ASSUME NEW c \in Dispatchers, ctl'[c].pc # "idle"
        PROVE  c \in up' /\ OwnsLease(c)' /\ row'[ctl'[c].ev].live
    <3>1. CASE c = d
      BY <2>2, <2>4, <2>5, <3>1 DEF OwnsLease
    <3>2. CASE c # d
      BY <1>1, <2>2, <2>6, <2>7, <2>8, <3>2 DEF OwnsLease
    <3> QED BY <3>1, <3>2
  <2>9. ASSUME NEW b \in Dispatchers, NEW c \in Dispatchers,
               ctl'[b].pc # "idle", ctl'[c].pc # "idle", ctl'[b].ev = ctl'[c].ev
        PROVE  b = c
    BY <1>2, <2>3, <2>5, <2>6, <2>9
  <2> QED BY <2>8, <2>9
\* A dispatcher that becomes idle leaves the events of the others alone.
<1>6. ASSUME NEW d \in Dispatchers, NEW r, Marks(d, r) \/ MarkLost(d) \/ Crash(d)
      PROVE  \A c \in Dispatchers : ctl'[c].pc # "idle" =>
               /\ ctl[c].pc # "idle" /\ ctl'[c].ev = ctl[c].ev /\ ctl'[c].lease = ctl[c].lease
               /\ c \in up'
               /\ row'[ctl[c].ev].lease = row[ctl[c].ev].lease
               /\ row'[ctl[c].ev].live = row[ctl[c].ev].live
  <2>1. ctl' = [ctl EXCEPT ![d] = IdleCtl]
    BY <1>6 DEF Marks, MarkLost, Crash
  <2>2. ASSUME NEW c \in Dispatchers, ctl'[c].pc # "idle"
        PROVE  c # d /\ ctl'[c] = ctl[c] /\ ctl[c].pc # "idle"
    BY <2>1, <2>2, IdleCtlType DEF OutboxInv, TypeOK
  <2>3. ASSUME NEW c \in Dispatchers, ctl'[c].pc # "idle"
        PROVE  c \in up' /\ row'[ctl[c].ev] = row[ctl[c].ev]
    <3>1. c # d /\ ctl[c].pc # "idle" /\ c \in up /\ ctl[c].ev \in Events
      BY <1>1, <2>2, <2>3 DEF OutboxInv, TypeOK, Ctl
    <3>2. CASE Marks(d, r)
      <4>1. ctl[d].pc # "idle" /\ up' = up
        BY <3>2 DEF Marks
      <4>2. ctl[c].ev # ctl[d].ev
        BY <1>2, <3>1, <4>1
      <4> QED BY <3>1, <3>2, <4>1, <4>2 DEF Marks, OutboxInv, TypeOK
    <3>3. CASE MarkLost(d) \/ Crash(d)
      BY <3>1, <3>3 DEF MarkLost, Crash
    <3> QED BY <1>6, <3>2, <3>3
  <2> QED BY <2>2, <2>3
<1>7. ASSUME NEW d \in Dispatchers, Dispatch(d)
      PROVE  \A c \in Dispatchers : ctl'[c].pc # "idle" =>
               /\ ctl[c].pc # "idle" /\ ctl'[c].ev = ctl[c].ev /\ ctl'[c].lease = ctl[c].lease
               /\ c \in up'
               /\ row'[ctl[c].ev].lease = row[ctl[c].ev].lease
               /\ row'[ctl[c].ev].live = row[ctl[c].ev].live
  <2>1. ASSUME NEW s, Returns(d, s)
        PROVE  \A c \in Dispatchers : ctl'[c].pc # "idle" =>
                 /\ ctl[c].pc # "idle" /\ ctl'[c].ev = ctl[c].ev /\ ctl'[c].lease = ctl[c].lease
                 /\ c \in up'
                 /\ row'[ctl[c].ev].lease = row[ctl[c].ev].lease
                 /\ row'[ctl[c].ev].live = row[ctl[c].ev].live
    <3>1. ASSUME NEW c \in Dispatchers, ctl'[c].pc # "idle"
          PROVE  ctl[c].pc # "idle" /\ ctl'[c].ev = ctl[c].ev /\ ctl'[c].lease = ctl[c].lease
      <4>1. ctl[c] \in Ctl /\ ctl[d] \in Ctl
        BY DEF OutboxInv, TypeOK
      <4>2. CASE c = d
        <5>1. ctl'[c] = [ctl[c] EXCEPT !.pc = "mark", !.result = s] /\ ctl[c].pc = "work"
          BY <2>1, <4>2 DEF Returns, OutboxInv, TypeOK
        <5> QED BY <4>1, <5>1 DEF Ctl
      <4>3. CASE c # d
        BY <2>1, <3>1, <4>3 DEF Returns, OutboxInv, TypeOK
      <4> QED BY <4>2, <4>3
    <3>2. row' = row /\ up' = up
      BY <2>1 DEF Returns
    <3> QED BY <1>1, <3>1, <3>2
  <2>2. CASE ProcessTerminal(d) \/ ProcessOk(d) \/ ProcessTransient(d)
    BY <2>1, <2>2 DEF ProcessTerminal, ProcessOk, ProcessTransient
  <2>3. CASE MarkProcessed(d)
    BY <1>6, <2>3 DEF MarkProcessed
  <2>4. CASE MarkDeadLetter(d)
    BY <1>6, <2>4 DEF MarkDeadLetter
  <2>5. CASE MarkFailed(d)
    BY <1>6, <2>5 DEF MarkFailed
  <2> QED BY <1>7, <2>2, <2>3, <2>4, <2>5 DEF Dispatch
<1>8. ASSUME NEW d \in Dispatchers PROVE ~RenewLease(d)
  BY <1>1, <1>8 DEF RenewLease
<1>9. ASSUME NEW e \in Events, LeaseExpires(e) \/ BackoffEnds(e) \/ DeleteTarget(e)
      PROVE  \A c \in Dispatchers : ctl'[c].pc # "idle" =>
               /\ ctl[c].pc # "idle" /\ ctl'[c].ev = ctl[c].ev /\ ctl'[c].lease = ctl[c].lease
               /\ c \in up'
               /\ row'[ctl[c].ev].lease = row[ctl[c].ev].lease
               /\ row'[ctl[c].ev].live = row[ctl[c].ev].live
  <2>1. ctl' = ctl /\ up' = up
    BY <1>9 DEF LeaseExpires, BackoffEnds, DeleteTarget
  <2>2. ASSUME NEW c \in Dispatchers, ctl[c].pc # "idle"
        PROVE  /\ row'[ctl[c].ev].lease = row[ctl[c].ev].lease
               /\ row'[ctl[c].ev].live = row[ctl[c].ev].live
    <3>1. ctl[c].ev \in Events /\ c \in up /\ OwnsLease(c) /\ row[ctl[c].ev] \in Row
      BY <1>1, <2>2 DEF OutboxInv, TypeOK, Ctl
    <3>2. CASE LeaseExpires(e)
      <4>1. ctl[c].ev # e
        BY <2>2, <3>1, <3>2 DEF LeaseExpires
      <4> QED BY <3>1, <3>2, <4>1 DEF LeaseExpires, OutboxInv, TypeOK
    <3>3. CASE BackoffEnds(e)
      <4>1. CASE ctl[c].ev = e
        <5>1. row'[e] = [row[e] EXCEPT !.due = TRUE]
          BY <3>3 DEF BackoffEnds, OutboxInv, TypeOK
        <5> QED BY <3>1, <4>1, <5>1 DEF Row
      <4>2. CASE ctl[c].ev # e
        BY <3>1, <3>3, <4>2 DEF BackoffEnds, OutboxInv, TypeOK
      <4> QED BY <4>1, <4>2
    <3>4. CASE DeleteTarget(e)
      BY <3>4 DEF DeleteTarget
    <3> QED BY <1>9, <3>2, <3>3, <3>4
  <2> QED BY <1>1, <2>1, <2>2
<1>10. ASSUME NEW d \in Dispatchers, MarkLost(d) \/ Crash(d)
       PROVE  \A c \in Dispatchers : ctl'[c].pc # "idle" =>
                /\ ctl[c].pc # "idle" /\ ctl'[c].ev = ctl[c].ev /\ ctl'[c].lease = ctl[c].lease
                /\ c \in up'
                /\ row'[ctl[c].ev].lease = row[ctl[c].ev].lease
                /\ row'[ctl[c].ev].live = row[ctl[c].ev].live
  BY <1>6, <1>10
<1>11. CASE \E d \in Dispatchers : ClaimNext(d)
  BY <1>5, <1>11
<1>12. CASE \E d \in Dispatchers : Dispatch(d)
  BY <1>3, <1>7, <1>12
<1>13. CASE \E d \in Dispatchers : MarkLost(d) \/ Crash(d)
  BY <1>3, <1>10, <1>13
<1>14. CASE \E e \in Events : LeaseExpires(e) \/ BackoffEnds(e) \/ DeleteTarget(e)
  BY <1>3, <1>9, <1>14
<1> QED BY <1>4, <1>8, <1>11, <1>12, <1>13, <1>14 DEF Next

\* Without stalls two dispatchers never hold the same event, whatever crashes
\* and lost marks leave behind.
THEOREM OneDispatcherAlways == Spec => []OneDispatcher
<1>1. Init => HoldInv
  BY IdleCtlType DEF Init, HoldInv
<1>2. HoldInv => OneDispatcher
  BY DEF HoldInv, OneDispatcher
<1> QED BY <1>1, <1>2, OutboxInvInit, OutboxInvNext, HoldInvNext, PTL DEF Spec
=============================================================================
