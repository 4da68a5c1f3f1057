--------------------------- MODULE WebhooksProofs ---------------------------
(***************************************************************************)
(* The safety properties of Webhooks for any deliveries, workers, budgets  *)
(* and faults, and that it implements LeasedWork.                          *)
(***************************************************************************)
EXTENDS Webhooks, FiniteSetTheorems, TLAPS

\* A lease is live only on a pending row, in the hands of a worker.
LiveInv == \A d \in Deliveries : row[d].live => row[d].status = "pending" /\ row[d].lease \in Workers

WebhookInv == TypeOK /\ LiveInv

LEMMA IdleRunType == IdleRun \in Run /\ IdleRun.pc = "idle"
<1>1. (CHOOSE d \in Deliveries : TRUE) \in Deliveries
  BY WebhookAssumption
<1> QED BY <1>1 DEF IdleRun, Run

LEMMA InvInit == Init => WebhookInv
<1> SUFFICES ASSUME Init PROVE WebhookInv
  OBVIOUS
<1>1. Absent \in Row /\ Absent.lease = NoOne /\ Absent.live = FALSE
  BY DEF Absent, Row
<1>2. TypeOK
  BY <1>1, IdleRunType, WebhookAssumption DEF Init, TypeOK
<1>3. LiveInv
  BY <1>1 DEF Init, LiveInv
<1> QED BY <1>2, <1>3 DEF WebhookInv

\* One row changes: what the new row must satisfy for the invariant to hold.
LEMMA RowStep ==
  ASSUME WebhookInv, NEW d \in Deliveries, NEW r \in Row,
         r.lease # NoOne => r.status = "pending",
         r.live => r.status = "pending" /\ r.lease \in Workers,
         row' = [row EXCEPT ![d] = r],
         run' \in [Workers -> Run],
         sends' \in [Deliveries -> Nat],
         losses' \in [Deliveries -> 0..MaxLosses],
         replays' \in [Deliveries -> 0..MaxReplays]
  PROVE  WebhookInv'
<1>1. row' \in [Deliveries -> Row]
  BY DEF WebhookInv, TypeOK
<1>2. \A e \in Deliveries : row'[e] = IF e = d THEN r ELSE row[e]
  BY DEF WebhookInv, TypeOK
<1> QED BY <1>1, <1>2 DEF WebhookInv, TypeOK, LiveInv

LEMMA EmitInv == ASSUME WebhookInv, NEW d \in Deliveries, Emit(d) PROVE WebhookInv'
<1> DEFINE r == [row[d] EXCEPT !.status = "pending", !.due = TRUE]
<1>1. row[d] \in Row /\ r \in Row
  BY DEF WebhookInv, TypeOK, Row
<1>2. row' = [row EXCEPT ![d] = r]
  BY <1>1 DEF Emit, Row, WebhookInv, TypeOK
<1>3. r.status = "pending" /\ r.lease = row[d].lease /\ r.live = row[d].live
  BY <1>1 DEF Row
<1> QED
  BY <1>1, <1>2, <1>3, RowStep DEF Emit, WebhookInv, TypeOK, LiveInv

LEMMA ComesDueInv == ASSUME WebhookInv, NEW d \in Deliveries, ComesDue(d) PROVE WebhookInv'
<1> DEFINE r == [row[d] EXCEPT !.due = TRUE]
<1>1. row[d] \in Row /\ r \in Row
  BY DEF WebhookInv, TypeOK, Row
<1>2. row' = [row EXCEPT ![d] = r]
  BY <1>1 DEF ComesDue, Row, WebhookInv, TypeOK
<1>3. r.status = "pending" /\ r.lease = row[d].lease /\ r.live = row[d].live
  BY <1>1 DEF Row, ComesDue
<1> QED
  BY <1>1, <1>2, <1>3, RowStep DEF ComesDue, WebhookInv, TypeOK, LiveInv

LEMMA ClaimInv ==
  ASSUME WebhookInv, NEW w \in Workers, NEW d \in Deliveries, ClaimDueDeliveries(w, d)
  PROVE  WebhookInv'
<1> DEFINE r == [row[d] EXCEPT !.att = row[d].att + 1, !.lease = w, !.live = TRUE]
<1>1. row[d] \in Row /\ row[d].att + 1 \in Nat
  BY DEF WebhookInv, TypeOK, Row
<1>2. r \in Row
  BY <1>1 DEF Row
<1>3. row' = [row EXCEPT ![d] = r]
  BY <1>1 DEF ClaimDueDeliveries, Row, WebhookInv, TypeOK
<1>4. r.status = "pending" /\ r.lease = w
  BY <1>1 DEF Row, ClaimDueDeliveries, Claimable
<1>5. run' \in [Workers -> Run]
  BY <1>1 DEF ClaimDueDeliveries, WebhookInv, TypeOK, Run
<1>6. /\ sends' \in [Deliveries -> Nat]
      /\ losses' \in [Deliveries -> 0..MaxLosses]
      /\ replays' \in [Deliveries -> 0..MaxReplays]
  BY DEF ClaimDueDeliveries, WebhookInv, TypeOK
<1> HIDE DEF r
<1> QED BY <1>2, <1>3, <1>4, <1>5, <1>6, RowStep

\* The goroutine takes a step that leaves the rows alone.
LEMMA RunStep ==
  ASSUME WebhookInv, row' = row, run' \in [Workers -> Run], sends' \in [Deliveries -> Nat],
         losses' \in [Deliveries -> 0..MaxLosses], UNCHANGED replays
  PROVE  WebhookInv'
BY DEF WebhookInv, TypeOK, LiveInv

LEMMA SendInv ==
  ASSUME WebhookInv, NEW w \in Workers,
         Delivered(w) \/ SendFails(w) \/ Refused(w) \/ LoadFails(w) \/ Cancelled(w)
  PROVE  WebhookInv'
<1>1. Route(w) \in {"dead", "retry"}
  BY DEF Route
<1>2. run[w] \in Run /\ run[w].d \in Deliveries
  BY DEF WebhookInv, TypeOK, Run
<1>3. run' \in [Workers -> Run]
  BY <1>1, <1>2 DEF Delivered, SendFails, Refused, LoadFails, Cancelled, Goes, WebhookInv, TypeOK, Run
<1>4. sends' \in [Deliveries -> Nat]
  BY <1>2 DEF Delivered, SendFails, Refused, LoadFails, Cancelled, WebhookInv, TypeOK
<1>5. row' = row /\ UNCHANGED <<losses, replays>>
  BY DEF Delivered, SendFails, Refused, LoadFails, Cancelled
<1> QED BY <1>3, <1>4, <1>5, RunStep DEF WebhookInv, TypeOK

LEMMA RestsType == ASSUME WebhookInv, NEW w \in Workers, Rests(w) PROVE run' \in [Workers -> Run]
BY IdleRunType DEF Rests, WebhookInv, TypeOK

LEMMA LoseType ==
  ASSUME WebhookInv, NEW d \in Deliveries, Lose(d) PROVE losses' \in [Deliveries -> 0..MaxLosses]
BY WebhookAssumption DEF Lose, WebhookInv, TypeOK

\* The outcome leaves no lease behind.
LEMMA WrittenRow ==
  ASSUME WebhookInv, NEW w \in Workers, run[w].pc \in {"success", "retry", "dead"}
  PROVE  /\ run[w].d \in Deliveries
         /\ Written(w) \in Row
         /\ Written(w).lease = NoOne /\ ~Written(w).live
         /\ Written(w).status = IF run[w].pc = "retry" THEN "pending" ELSE run[w].pc
<1>1. run[w].d \in Deliveries /\ row[run[w].d] \in Row
  BY DEF WebhookInv, TypeOK, Run
<1>2. CASE run[w].pc = "success"
  BY <1>1, <1>2 DEF Written, Row
<1>3. CASE run[w].pc = "retry"
  BY <1>1, <1>3 DEF Written, Row
<1>4. CASE run[w].pc = "dead"
  BY <1>1, <1>4 DEF Written, Row
<1> QED BY <1>1, <1>2, <1>3, <1>4

LEMMA MarkInv == ASSUME WebhookInv, NEW w \in Workers, Mark(w) PROVE WebhookInv'
<1>1. run' \in [Workers -> Run]
  BY RestsType DEF Mark
<1>2. CASE Owns(w)
  BY <1>1, <1>2, WrittenRow, RowStep DEF Mark, WebhookInv, TypeOK
<1>3. CASE ~Owns(w)
  BY <1>1, <1>3, RunStep DEF Mark, WebhookInv, TypeOK
<1> QED BY <1>2, <1>3

LEMMA FaultInv ==
  ASSUME WebhookInv, NEW w \in Workers, MarkFails(w) \/ Crash(w)
  PROVE  WebhookInv'
<1>1. run[w].d \in Deliveries
  BY DEF WebhookInv, TypeOK, Run
<1>2. run' \in [Workers -> Run] /\ losses' \in [Deliveries -> 0..MaxLosses]
  BY <1>1, RestsType, LoseType DEF MarkFails, Crash
<1>3. sends' \in [Deliveries -> Nat]
  BY <1>1 DEF MarkFails, Crash, WebhookInv, TypeOK
<1> QED BY <1>2, <1>3, RunStep DEF MarkFails, Crash

LEMMA ExpiryInv ==
  ASSUME WebhookInv, NEW d \in Deliveries, LeaseRunsOut(d) \/ HeartbeatStops(d)
  PROVE  WebhookInv'
<1> DEFINE r == [row[d] EXCEPT !.live = FALSE]
<1>1. row[d] \in Row /\ r \in Row
  BY DEF WebhookInv, TypeOK, Row
<1>2. row' = [row EXCEPT ![d] = r]
  BY <1>1 DEF LeaseRunsOut, HeartbeatStops, Row, WebhookInv, TypeOK
<1>3. r.status = row[d].status /\ r.lease = row[d].lease /\ ~r.live
  BY <1>1 DEF Row
<1>4. losses' \in [Deliveries -> 0..MaxLosses]
  BY LoseType DEF LeaseRunsOut, HeartbeatStops, WebhookInv, TypeOK
<1> QED
  BY <1>1, <1>2, <1>3, <1>4, RowStep DEF LeaseRunsOut, HeartbeatStops, WebhookInv, TypeOK

LEMMA ReplayInv == ASSUME WebhookInv, NEW d \in Deliveries, MarkReplay(d) PROVE WebhookInv'
<1> DEFINE r == [Absent EXCEPT !.status = "pending", !.due = TRUE]
<1>1. r \in Row /\ r.lease = NoOne /\ ~r.live
  BY DEF Absent, Row
<1>2. replays' \in [Deliveries -> 0..MaxReplays]
  BY WebhookAssumption DEF MarkReplay, WebhookInv, TypeOK
<1> QED
  BY <1>1, <1>2, RowStep DEF MarkReplay, WebhookInv, TypeOK

LEMMA NextInv == WebhookInv /\ [Next]_vars => WebhookInv'
<1> SUFFICES ASSUME WebhookInv, [Next]_vars PROVE WebhookInv'
  OBVIOUS
<1>1. CASE UNCHANGED vars
  BY <1>1 DEF vars, WebhookInv, TypeOK, LiveInv
<1>2. ASSUME NEW w \in Workers, Worker(w) PROVE WebhookInv'
  BY <1>2, ClaimInv, SendInv, MarkInv DEF Worker
<1>3. ASSUME NEW w \in Workers, MarkFails(w) \/ Crash(w) PROVE WebhookInv'
  BY <1>3, FaultInv
<1>4. ASSUME NEW d \in Deliveries,
             Emit(d) \/ ComesDue(d) \/ LeaseRunsOut(d) \/ HeartbeatStops(d) \/ MarkReplay(d)
      PROVE  WebhookInv'
  BY <1>4, EmitInv, ComesDueInv, ExpiryInv, ReplayInv
<1> QED BY <1>1, <1>2, <1>3, <1>4 DEF Next

LEMMA InvAlways == Spec => []WebhookInv
BY InvInit, NextInv, PTL DEF Spec

\* webhook_deliveries is well typed in every state, and a lease is stored on
\* pending rows only, for any deliveries, workers, budgets and faults.
THEOREM WebhookTypeCorrect == Spec => []TypeOK
<1>1. WebhookInv => TypeOK
  BY DEF WebhookInv
<1> QED BY <1>1, InvAlways, PTL

-----------------------------------------------------------------------------
(* Webhooks implements LeasedWork.                                         *)

\* Delivery d moves and the others stay.
LEMMA MoveMaps ==
  ASSUME NEW d \in Deliveries, NEW from, NEW to, NEW who,
         Phase(d) = from, Phase(d)' = to, Holder(d)' = who,
         \A e \in Deliveries \ {d} : Phase(e)' = Phase(e) /\ Holder(e)' = Holder(e)
  PROVE  Work!Move(d, from, to, who)
BY DEF Work!Move

LEMMA StayMaps ==
  ASSUME \A e \in Deliveries : Phase(e)' = Phase(e) /\ Holder(e)' = Holder(e)
  PROVE  UNCHANGED Work!vars
BY DEF Work!vars

\* The phase and the holder depend on one row only.
LEMMA SameRow ==
  ASSUME NEW e \in Deliveries, row'[e] = row[e]
  PROVE  Phase(e)' = Phase(e) /\ Holder(e)' = Holder(e)
BY DEF Phase, Holder

\* A step that writes row d alone is a move of d, or a stutter if d shows no change.
LEMMA RowMaps ==
  ASSUME WebhookInv, NEW d \in Deliveries, NEW r, row' = [row EXCEPT ![d] = r]
  PROVE  /\ row'[d] = r
         /\ \A e \in Deliveries \ {d} : Phase(e)' = Phase(e) /\ Holder(e)' = Holder(e)
<1>1. row'[d] = r /\ \A e \in Deliveries \ {d} : row'[e] = row[e]
  BY DEF WebhookInv, TypeOK
<1> QED BY <1>1, SameRow

LEMMA InitMaps == Init => Work!Init
<1> SUFFICES ASSUME Init PROVE Work!Init
  OBVIOUS
<1>1. \A d \in Deliveries : row[d].status = "absent" /\ ~row[d].live
  BY DEF Init, Absent
<1>2. \A d \in Deliveries : Phase(d) = "absent" /\ Holder(d) = NoOne
  BY <1>1 DEF Phase, Holder
<1> QED BY <1>2 DEF Work!Init

LEMMA EmitMaps == ASSUME WebhookInv, NEW d \in Deliveries, Emit(d) PROVE Work!Next
<1> DEFINE r == [row[d] EXCEPT !.status = "pending", !.due = TRUE]
<1>1. row[d] \in Row /\ row[d].status = "absent" /\ ~row[d].live
  BY DEF Emit, WebhookInv, TypeOK, LiveInv
<1>2. row' = [row EXCEPT ![d] = r]
  BY <1>1 DEF Emit, Row, WebhookInv, TypeOK
<1>3. r.status = "pending" /\ ~r.live
  BY <1>1 DEF Row
<1> HIDE DEF r
<1>4. Phase(d) = "absent" /\ Phase(d)' = "ready" /\ Holder(d)' = NoOne
  BY <1>1, <1>2, <1>3, RowMaps DEF Phase, Holder
<1>5. Work!Offer(d)
  BY <1>2, <1>4, RowMaps, MoveMaps DEF Work!Offer
<1> QED BY <1>5 DEF Work!Next

LEMMA ClaimMaps ==
  ASSUME WebhookInv, NEW w \in Workers, NEW d \in Deliveries, ClaimDueDeliveries(w, d)
  PROVE  Work!Next
<1> DEFINE r == [row[d] EXCEPT !.att = row[d].att + 1, !.lease = w, !.live = TRUE]
<1>1. row[d] \in Row /\ row[d].status = "pending" /\ ~row[d].live
  BY WebhookAssumption DEF ClaimDueDeliveries, Claimable, WebhookInv, TypeOK, LiveInv
<1>2. row' = [row EXCEPT ![d] = r]
  BY <1>1 DEF ClaimDueDeliveries, Row, WebhookInv, TypeOK
<1>3. r.status = "pending" /\ r.live /\ r.lease = w
  BY <1>1 DEF Row
<1> HIDE DEF r
<1>4. Phase(d) = "ready" /\ Phase(d)' = "held" /\ Holder(d)' = w
  BY <1>1, <1>2, <1>3, RowMaps DEF Phase, Holder
<1>5. Work!Take(d, w)
  BY <1>2, <1>4, RowMaps, MoveMaps DEF Work!Take
<1> QED BY <1>5 DEF Work!Next

\* Success settles the item, a retry or a death gives it back, and a stale
\* owner's write changes nothing.
LEMMA MarkMaps ==
  ASSUME WebhookInv, NEW w \in Workers, Mark(w) PROVE Work!Next \/ UNCHANGED Work!vars
<1>1. CASE ~Owns(w)
  BY <1>1, SameRow, StayMaps DEF Mark
<1>2. CASE Owns(w)
  <2> PICK d \in Deliveries : d = run[w].d
    BY WrittenRow DEF Mark
  <2>1. /\ row' = [row EXCEPT ![d] = Written(w)]
        /\ ~Written(w).live
        /\ Written(w).status = IF run[w].pc = "retry" THEN "pending" ELSE run[w].pc
        /\ run[w].pc \in {"success", "retry", "dead"}
    BY <1>2, WrittenRow DEF Mark
  <2>2. Phase(d) = "held"
    BY <1>2 DEF Owns, Phase
  <2>3. Phase(d)' = (IF run[w].pc = "success" THEN "settled" ELSE "ready") /\ Holder(d)' = NoOne
    <3>1. row'[d] = Written(w)
      BY <2>1, RowMaps
    <3> QED BY <2>1, <3>1 DEF Phase, Holder
  <2>4. \A e \in Deliveries \ {d} : Phase(e)' = Phase(e) /\ Holder(e)' = Holder(e)
    BY <2>1, RowMaps
  <2>5. CASE run[w].pc = "success"
    <3>1. Work!Settle(d)
      BY <2>1, <2>2, <2>3, <2>4, <2>5, MoveMaps DEF Work!Settle
    <3> QED BY <3>1 DEF Work!Next
  <2>6. CASE run[w].pc # "success"
    <3>1. Work!Return(d)
      BY <2>1, <2>2, <2>3, <2>4, <2>6, MoveMaps DEF Work!Return
    <3> QED BY <3>1 DEF Work!Next
  <2> QED BY <2>5, <2>6
<1> QED BY <1>1, <1>2

LEMMA ExpiryMaps ==
  ASSUME WebhookInv, NEW d \in Deliveries, LeaseRunsOut(d) \/ HeartbeatStops(d)
  PROVE  Work!Next
<1> DEFINE r == [row[d] EXCEPT !.live = FALSE]
<1>1. row[d] \in Row /\ row[d].live /\ row[d].status = "pending"
  BY DEF LeaseRunsOut, HeartbeatStops, WebhookInv, TypeOK, LiveInv
<1>2. row' = [row EXCEPT ![d] = r]
  BY <1>1 DEF LeaseRunsOut, HeartbeatStops, Row, WebhookInv, TypeOK
<1>3. r.status = "pending" /\ ~r.live
  BY <1>1 DEF Row
<1> HIDE DEF r
<1>4. Phase(d) = "held" /\ Phase(d)' = "ready" /\ Holder(d)' = NoOne
  BY <1>1, <1>2, <1>3, RowMaps DEF Phase, Holder
<1>5. Work!Return(d)
  BY <1>2, <1>4, RowMaps, MoveMaps DEF Work!Return
<1> QED BY <1>5 DEF Work!Next

\* Time and the operator change neither phase nor holder.
LEMMA QuietMaps ==
  ASSUME WebhookInv, NEW d \in Deliveries, ComesDue(d) \/ MarkReplay(d)
  PROVE  UNCHANGED Work!vars
<1>1. row[d] \in Row
  BY DEF WebhookInv, TypeOK
<1>2. CASE ComesDue(d)
  <2> DEFINE r == [row[d] EXCEPT !.due = TRUE]
  <2>1. row' = [row EXCEPT ![d] = r]
    BY <1>1, <1>2 DEF ComesDue, Row, WebhookInv, TypeOK
  <2>2. r.status = row[d].status /\ r.live = row[d].live /\ r.lease = row[d].lease
    BY <1>1 DEF Row
  <2> HIDE DEF r
  <2>3. Phase(d)' = Phase(d) /\ Holder(d)' = Holder(d)
    BY <2>1, <2>2, RowMaps DEF Phase, Holder
  <2> QED BY <2>1, <2>3, RowMaps, StayMaps
<1>3. CASE MarkReplay(d)
  <2> DEFINE r == [Absent EXCEPT !.status = "pending", !.due = TRUE]
  <2>1. row' = [row EXCEPT ![d] = r]
    BY <1>3 DEF MarkReplay
  <2>2. r.status = "pending" /\ ~r.live
    BY DEF Absent
  <2>3. row[d].status = "dead" /\ ~row[d].live
    BY <1>3 DEF MarkReplay, WebhookInv, LiveInv
  <2> HIDE DEF r
  <2>4. Phase(d)' = Phase(d) /\ Holder(d)' = Holder(d)
    BY <2>1, <2>2, <2>3, RowMaps DEF Phase, Holder
  <2> QED BY <2>1, <2>4, RowMaps, StayMaps
<1> QED BY <1>2, <1>3

LEMMA NextMaps == WebhookInv /\ [Next]_vars => [Work!Next]_(Work!vars)
<1> SUFFICES ASSUME WebhookInv, [Next]_vars PROVE Work!Next \/ UNCHANGED Work!vars
  OBVIOUS
<1>1. CASE row' = row
  BY <1>1, SameRow, StayMaps
<1>2. ASSUME NEW w \in Workers, Worker(w) \/ MarkFails(w) \/ Crash(w)
      PROVE  Work!Next \/ UNCHANGED Work!vars
  <2>1. CASE \E d \in Deliveries : ClaimDueDeliveries(w, d)
    BY <2>1, ClaimMaps
  <2>2. CASE Mark(w)
    BY <2>2, MarkMaps
  <2>3. CASE \/ Delivered(w) \/ SendFails(w) \/ Refused(w) \/ LoadFails(w) \/ Cancelled(w)
             \/ MarkFails(w) \/ Crash(w)
    BY <1>1, <2>3
    DEF Delivered, SendFails, Refused, LoadFails, Cancelled, MarkFails, Crash
  <2> QED BY <1>2, <2>1, <2>2, <2>3 DEF Worker
<1>3. ASSUME NEW d \in Deliveries,
             Emit(d) \/ ComesDue(d) \/ LeaseRunsOut(d) \/ HeartbeatStops(d) \/ MarkReplay(d)
      PROVE  Work!Next \/ UNCHANGED Work!vars
  BY <1>3, EmitMaps, QuietMaps, ExpiryMaps
<1> QED BY <1>1, <1>2, <1>3 DEF Next, vars

\* Every behaviour of the webhook workers is one of a leased work table: a
\* delivery is held by one worker at a time, only its holder settles it, and a
\* delivered event is never claimed again, whatever crashes, stalls or fails.
THEOREM WebhooksImplementLeasedWork == Spec => ImplementsLeasedWork
BY InitMaps, NextMaps, InvAlways, PTL DEF Spec, ImplementsLeasedWork, Work!Spec
-----------------------------------------------------------------------------
(* How often a delivery is sent, and by how many at a time.                *)

\* A goroutine works on delivery d, and one that has not sent it yet.
On(w, d) == run[w].pc # "idle" /\ run[w].d = d
Unsent(w, d) == run[w].pc = "claimed" /\ run[w].d = d
Busy(d) == {w \in Workers : On(w, d)}
Senders(d) == {w \in Workers : Unsent(w, d)}

\* The lease is live in the hands of a goroutine that works on the delivery.
Kept(d) == row[d].live /\ Attended(d)

\* The claims a delivery can still get without a further loss: what is left of
\* MaxAttempts, or one more if a loss has made a row free that had none left.
Credit(d) ==
  IF row[d].att < MaxAttempts THEN MaxAttempts - row[d].att
  ELSE IF row[d].status = "pending" /\ ~Kept(d) THEN 1 ELSE 0

\* A goroutine's copy of the attempt counter is the row's while it has the lease,
\* and a retry is decided only below MaxAttempts.
CopyInv ==
  \A w \in Workers :
    /\ run[w].pc = "retry" => run[w].att < MaxAttempts
    /\ \A d \in Deliveries : On(w, d) /\ row[d].lease = w => run[w].att = row[d].att

CountInv(d) ==
  /\ row[d].status = "absent" => row[d].att = 0
  /\ IsFiniteSet(Busy(d)) /\ IsFiniteSet(Senders(d))
  /\ Cardinality(Busy(d)) + (IF Kept(d) THEN 0 ELSE 1) <= 1 + losses[d]
  /\ sends[d] + Cardinality(Senders(d)) + Credit(d)
       <= MaxAttempts * (1 + replays[d]) + losses[d]

AccountInv == WebhookInv /\ CopyInv /\ \A d \in Deliveries : CountInv(d)

LEMMA AccountInit == Init => AccountInv
<1> SUFFICES ASSUME Init PROVE AccountInv
  OBVIOUS
<1>1. \A w \in Workers : run[w].pc = "idle"
  BY IdleRunType DEF Init
<1>2. CopyInv
  BY <1>1 DEF CopyInv, On
<1>3. ASSUME NEW d \in Deliveries PROVE CountInv(d)
  <2>1. Busy(d) = {} /\ Senders(d) = {}
    BY <1>1 DEF Busy, Senders, On, Unsent
  <2>2. ~Kept(d) /\ Credit(d) = MaxAttempts /\ sends[d] = 0 /\ losses[d] = 0 /\ replays[d] = 0
    BY WebhookAssumption DEF Init, Kept, Credit, Absent
  <2>3. MaxAttempts * (1 + 0) = MaxAttempts /\ row[d].att = 0
    BY WebhookAssumption DEF Init, Absent
  <2> QED BY <2>1, <2>2, <2>3, FS_EmptySet, WebhookAssumption DEF CountInv
<1> QED BY <1>2, <1>3, InvInit DEF AccountInv

\* How the size of a set changes when w joins it, leaves it or neither.
Shift(was, is) == IF is /\ ~was THEN 1 ELSE IF was /\ ~is THEN 0 - 1 ELSE 0

LEMMA SetShift ==
  ASSUME NEW S, NEW T, NEW w, IsFiniteSet(S), T \ {w} = S \ {w}
  PROVE  /\ Cardinality(S) \in Nat /\ IsFiniteSet(T)
         /\ Cardinality(T) = Cardinality(S) + Shift(w \in S, w \in T)
<1>1. Cardinality(S) \in Nat
  BY FS_CardinalityType
<1>2. CASE w \in T
  <2>1. T = S \cup {w}
    BY <1>2
  <2> QED BY <1>1, <1>2, <2>1, FS_AddElement DEF Shift
<1>3. CASE w \notin T
  <2>1. T = S \ {w}
    BY <1>3
  <2> QED BY <1>1, <1>3, <2>1, FS_RemoveElement DEF Shift
<1> QED BY <1>1, <1>2, <1>3

\* One goroutine changes: what becomes of the two sets.
LEMMA RunChange ==
  ASSUME NEW w \in Workers, NEW d \in Deliveries, CountInv(d),
         \A v \in Workers \ {w} : run'[v] = run[v]
  PROVE  /\ IsFiniteSet(Busy(d)') /\ IsFiniteSet(Senders(d)')
         /\ Cardinality(Busy(d)) \in Nat /\ Cardinality(Senders(d)) \in Nat
         /\ Cardinality(Busy(d)') = Cardinality(Busy(d)) + Shift(On(w, d), On(w, d)')
         /\ Cardinality(Senders(d)') = Cardinality(Senders(d)) + Shift(Unsent(w, d), Unsent(w, d)')
<1>1. Busy(d)' \ {w} = Busy(d) \ {w} /\ Senders(d)' \ {w} = Senders(d) \ {w}
  BY DEF Busy, On, Senders, Unsent
<1>2. /\ w \in Busy(d) <=> On(w, d)
      /\ w \in Busy(d)' <=> On(w, d)'
      /\ w \in Senders(d) <=> Unsent(w, d)
      /\ w \in Senders(d)' <=> Unsent(w, d)'
  BY DEF Busy, Senders
<1>3. IsFiniteSet(Busy(d)) /\ IsFiniteSet(Senders(d))
  BY DEF CountInv
<1>4. /\ Cardinality(Busy(d)) \in Nat /\ IsFiniteSet(Busy(d)')
      /\ Cardinality(Busy(d)') = Cardinality(Busy(d)) + Shift(w \in Busy(d), w \in Busy(d)')
  BY <1>1, <1>3, SetShift
<1>5. /\ Cardinality(Senders(d)) \in Nat /\ IsFiniteSet(Senders(d)')
      /\ Cardinality(Senders(d)') =
           Cardinality(Senders(d)) + Shift(w \in Senders(d), w \in Senders(d)')
  BY <1>1, <1>3, SetShift
<1> QED BY <1>2, <1>4, <1>5 DEF Shift
\* A delivery that nobody touches, seen from the goroutine that moves.
LEMMA Untouched ==
  ASSUME AccountInv, NEW w \in Workers, NEW e \in Deliveries,
         \A v \in Workers \ {w} : run'[v] = run[v],
         On(w, e) <=> On(w, e)', Unsent(w, e) <=> Unsent(w, e)',
         row'[e] = row[e], sends'[e] = sends[e], losses'[e] = losses[e], replays'[e] = replays[e]
  PROVE  CountInv(e)'
<1>1. CountInv(e)
  BY DEF AccountInv
<1>2. /\ IsFiniteSet(Busy(e)') /\ IsFiniteSet(Senders(e)')
      /\ Cardinality(Busy(e)') = Cardinality(Busy(e))
      /\ Cardinality(Senders(e)') = Cardinality(Senders(e))
  BY <1>1, RunChange DEF Shift
<1>3. Attended(e)' <=> Attended(e)
  BY DEF Attended, On
<1> QED BY <1>1, <1>2, <1>3 DEF CountInv, Kept, Credit

\* No goroutine moves.
LEMMA RunStill ==
  ASSUME run' = run, NEW e \in Deliveries
  PROVE  /\ Busy(e)' = Busy(e) /\ Senders(e)' = Senders(e)
         /\ row'[e].lease = row[e].lease => (Attended(e)' <=> Attended(e))
BY DEF Busy, Senders, On, Unsent, Attended

LEMMA Still ==
  ASSUME AccountInv, NEW e \in Deliveries, run' = run,
         row'[e] = row[e], sends'[e] = sends[e], losses'[e] = losses[e], replays'[e] = replays[e]
  PROVE  CountInv(e)'
<1>1. CountInv(e)
  BY DEF AccountInv
<1> QED BY <1>1, RunStill DEF CountInv, Kept, Credit

\* The numbers CountInv speaks of.
LEMMA CountTypes ==
  ASSUME AccountInv, NEW e \in Deliveries
  PROVE  /\ CountInv(e)
         /\ Cardinality(Busy(e)) \in Nat /\ Cardinality(Senders(e)) \in Nat
         /\ row[e].att \in Nat /\ sends[e] \in Nat /\ losses[e] \in Nat /\ replays[e] \in Nat
         /\ MaxAttempts * (1 + replays[e]) \in Nat
         /\ Credit(e) \in Nat
<1>1. CountInv(e) /\ row[e] \in Row /\ sends[e] \in Nat /\ losses[e] \in Nat /\ replays[e] \in Nat
  BY WebhookAssumption DEF AccountInv, WebhookInv, TypeOK
<1>2. Cardinality(Busy(e)) \in Nat /\ Cardinality(Senders(e)) \in Nat
  BY <1>1, FS_CardinalityType DEF CountInv
<1>3. row[e].att \in Nat
  BY <1>1 DEF Row
<1>4. MaxAttempts * (1 + replays[e]) \in Nat
  BY <1>1, WebhookAssumption
<1>5. Credit(e) \in Nat
  BY <1>3, WebhookAssumption DEF Credit
<1> QED BY <1>1, <1>2, <1>3, <1>4, <1>5

LEMMA TimeCounts ==
  ASSUME AccountInv, NEW d \in Deliveries, Emit(d) \/ ComesDue(d) \/ LeaseRunsOut(d),
         NEW e \in Deliveries
  PROVE  CountInv(e)'
<1>1. CASE e # d
  BY <1>1, Still DEF Emit, ComesDue, LeaseRunsOut, AccountInv, WebhookInv, TypeOK
<1>2. CASE e = d
  <2>1. row[d] \in Row
    BY DEF AccountInv, WebhookInv, TypeOK
  <2>2. row'[d].att = row[d].att /\ row'[d].lease = row[d].lease /\ run' = run
    BY <2>1 DEF Emit, ComesDue, LeaseRunsOut, AccountInv, WebhookInv, TypeOK, Row
  <2>3. Kept(d)' <=> Kept(d)
    BY <2>1, <2>2, RunStill
    DEF Emit, ComesDue, LeaseRunsOut, Kept, AccountInv, WebhookInv, TypeOK, Row
  <2>4. Credit(d)' = Credit(d) /\ CountInv(d)
    BY <2>1, <2>2, <2>3, CountTypes, WebhookAssumption
    DEF Emit, ComesDue, LeaseRunsOut, Credit, CountInv, AccountInv, WebhookInv, TypeOK, Row
  <2>5. row'[d].status # "absent"
    BY <2>1 DEF Emit, ComesDue, LeaseRunsOut, AccountInv, WebhookInv, TypeOK, Row
  <2> QED BY <1>2, <2>2, <2>3, <2>4, <2>5, RunStill
          DEF CountInv, Emit, ComesDue, LeaseRunsOut
<1> QED BY <1>1, <1>2

LEMMA StopCounts ==
  ASSUME AccountInv, NEW d \in Deliveries, HeartbeatStops(d), NEW e \in Deliveries
  PROVE  CountInv(e)'
<1>1. CASE e # d
  BY <1>1, Still DEF HeartbeatStops, Lose, AccountInv, WebhookInv, TypeOK
<1>2. CASE e = d
  <2>1. row[d] \in Row
    BY DEF AccountInv, WebhookInv, TypeOK
  <2>2. /\ row'[d].att = row[d].att /\ row'[d].status = row[d].status /\ ~row'[d].live
        /\ losses'[d] = losses[d] + 1
    BY <2>1 DEF HeartbeatStops, Lose, AccountInv, WebhookInv, TypeOK, Row
  <2>3. Kept(d) /\ ~Kept(d)'
    BY <2>2 DEF HeartbeatStops, Kept
  <2>4. Credit(d)' <= Credit(d) + 1 /\ Credit(d)' \in Nat
    BY <2>1, <2>2, CountTypes, WebhookAssumption DEF Credit
  <2> QED BY <1>2, <2>2, <2>3, <2>4, RunStill, CountTypes DEF CountInv, HeartbeatStops
<1> QED BY <1>1, <1>2

LEMMA ReplayCounts ==
  ASSUME AccountInv, NEW d \in Deliveries, MarkReplay(d), NEW e \in Deliveries
  PROVE  CountInv(e)'
<1>1. CASE e # d
  BY <1>1, Still DEF MarkReplay, AccountInv, WebhookInv, TypeOK
<1>2. CASE e = d
  <2>1. /\ row'[d].att = 0 /\ row'[d].status = "pending" /\ ~row'[d].live
        /\ replays'[d] = replays[d] + 1
    BY DEF MarkReplay, Absent, AccountInv, WebhookInv, TypeOK
  <2>2. ~Kept(d) /\ ~Kept(d)'
    BY <2>1 DEF MarkReplay, Kept, AccountInv, WebhookInv, LiveInv
  <2>3. Credit(d)' = MaxAttempts
    BY <2>1, WebhookAssumption DEF Credit
  <2>4. MaxAttempts * (1 + replays'[d]) = MaxAttempts * (1 + replays[d]) + MaxAttempts
    BY <2>1, CountTypes, WebhookAssumption
  <2>5. /\ sends'[d] = sends[d] /\ losses'[d] = losses[d]
        /\ Busy(d)' = Busy(d) /\ Senders(d)' = Senders(d)
    BY RunStill DEF MarkReplay
  <2>6. sends'[d] + Cardinality(Senders(d)') + Credit(d)'
          <= MaxAttempts * (1 + replays'[d]) + losses'[d]
    BY <2>3, <2>4, <2>5, CountTypes, WebhookAssumption DEF CountInv
  <2> QED BY <1>2, <2>1, <2>2, <2>5, <2>6, CountTypes DEF CountInv
<1> QED BY <1>1, <1>2

LEMMA ClaimCounts ==
  ASSUME AccountInv, NEW w \in Workers, NEW d \in Deliveries, ClaimDueDeliveries(w, d),
         NEW e \in Deliveries
  PROVE  CountInv(e)'
<1>1. run[w].pc = "idle" /\ (\A v \in Workers \ {w} : run'[v] = run[v])
  BY DEF ClaimDueDeliveries, AccountInv, WebhookInv, TypeOK
<1>2. run'[w].pc = "claimed" /\ run'[w].d = d
  BY DEF ClaimDueDeliveries, AccountInv, WebhookInv, TypeOK
<1>3. CASE e # d
  BY <1>1, <1>2, <1>3, Untouched
  DEF ClaimDueDeliveries, On, Unsent, AccountInv, WebhookInv, TypeOK
<1>4. CASE e = d
  <2>1. row[d] \in Row
    BY DEF AccountInv, WebhookInv, TypeOK
  <2>2. row'[d].att = row[d].att + 1 /\ row'[d].lease = w /\ row'[d].live
    BY <2>1 DEF ClaimDueDeliveries, AccountInv, WebhookInv, TypeOK, Row
  <2>3. row[d].status = "pending" /\ row'[d].status = "pending"
    BY <2>1 DEF ClaimDueDeliveries, Claimable, AccountInv, WebhookInv, TypeOK, Row
  <2>4. ~Kept(d) /\ Kept(d)'
    BY <1>2, <2>2, WebhookAssumption
    DEF ClaimDueDeliveries, Claimable, Kept, Attended
  <2>5. Credit(d) = Credit(d)' + 1
    BY <2>2, <2>3, <2>4, CountTypes, WebhookAssumption DEF Credit
  <2>6. /\ IsFiniteSet(Busy(d)') /\ IsFiniteSet(Senders(d)')
        /\ Cardinality(Busy(d)') = Cardinality(Busy(d)) + 1
        /\ Cardinality(Senders(d)') = Cardinality(Senders(d)) + 1
    BY <1>1, <1>2, RunChange, CountTypes DEF Shift, On, Unsent
  <2>7. Credit(d)' \in Nat
    BY <2>2, CountTypes, WebhookAssumption DEF Credit
  <2> QED BY <1>4, <2>3, <2>4, <2>5, <2>6, <2>7, CountTypes DEF CountInv, ClaimDueDeliveries
<1> QED BY <1>3, <1>4
\* A goroutine that has the row goes from its claim to an outcome.
LEMMA SendCounts ==
  ASSUME AccountInv, NEW w \in Workers,
         Delivered(w) \/ SendFails(w) \/ Refused(w) \/ LoadFails(w) \/ Cancelled(w),
         NEW e \in Deliveries
  PROVE  CountInv(e)'
<1>1. run[w] \in Run /\ run[w].d \in Deliveries /\ run[w].pc = "claimed"
  BY DEF Delivered, SendFails, Refused, LoadFails, Cancelled, AccountInv, WebhookInv, TypeOK, Run
<1>2. \A v \in Workers \ {w} : run'[v] = run[v]
  BY DEF Delivered, SendFails, Refused, LoadFails, Cancelled, Goes, AccountInv, WebhookInv, TypeOK
<1>3. run'[w].d = run[w].d /\ run'[w].pc \in {"success", "retry", "dead"}
  BY <1>1
  DEF Delivered, SendFails, Refused, LoadFails, Cancelled, Goes, Route, AccountInv, WebhookInv,
      TypeOK, Run
<1>4. row' = row /\ losses' = losses /\ replays' = replays
  BY DEF Delivered, SendFails, Refused, LoadFails, Cancelled
<1>5. CASE e # run[w].d
  <2>1. sends'[e] = sends[e]
    BY <1>5 DEF Delivered, SendFails, Refused, LoadFails, Cancelled, AccountInv, WebhookInv, TypeOK
  <2> QED BY <1>2, <1>3, <1>4, <1>5, <2>1, Untouched DEF On, Unsent
<1>6. CASE e = run[w].d
  <2>1. sends'[e] <= sends[e] + 1 /\ sends'[e] \in Nat
    BY <1>6, CountTypes
    DEF Delivered, SendFails, Refused, LoadFails, Cancelled, AccountInv, WebhookInv, TypeOK
  <2>2. /\ IsFiniteSet(Busy(e)') /\ IsFiniteSet(Senders(e)')
        /\ Cardinality(Busy(e)') = Cardinality(Busy(e))
        /\ Cardinality(Senders(e)') = Cardinality(Senders(e)) - 1
    BY <1>1, <1>2, <1>3, <1>6, RunChange, CountTypes DEF Shift, On, Unsent
  <2>3. Attended(e)' <=> Attended(e)
    BY <1>1, <1>2, <1>3, <1>4 DEF Attended
  <2>4. (Kept(e)' <=> Kept(e)) /\ Credit(e)' = Credit(e)
    BY <1>4, <2>3 DEF Kept, Credit
  <2> QED BY <1>4, <2>1, <2>2, <2>4, CountTypes DEF CountInv
<1> QED BY <1>5, <1>6

\* A goroutine rests: it is counted no longer.
LEMMA RestCounts ==
  ASSUME AccountInv, NEW w \in Workers, Rests(w), NEW e \in Deliveries
  PROVE  /\ \A v \in Workers \ {w} : run'[v] = run[v]
         /\ ~On(w, e)' /\ ~Unsent(w, e)'
         /\ IsFiniteSet(Busy(e)') /\ IsFiniteSet(Senders(e)')
         /\ Cardinality(Busy(e)') = Cardinality(Busy(e)) - (IF On(w, e) THEN 1 ELSE 0)
         /\ Cardinality(Senders(e)') = Cardinality(Senders(e)) - (IF Unsent(w, e) THEN 1 ELSE 0)
<1>1. run'[w].pc = "idle" /\ (\A v \in Workers \ {w} : run'[v] = run[v])
  BY IdleRunType DEF Rests, AccountInv, WebhookInv, TypeOK
<1>2. ~On(w, e)' /\ ~Unsent(w, e)'
  BY <1>1 DEF On, Unsent
<1> QED BY <1>1, <1>2, RunChange, CountTypes DEF Shift

\* The write of an owner frees the row, and leaves a row without attempts only
\* settled; that of a stale owner changes nothing he is counted for.
LEMMA MarkCounts ==
  ASSUME AccountInv, NEW w \in Workers, Mark(w), NEW e \in Deliveries
  PROVE  CountInv(e)'
<1>1. Rests(w) /\ sends' = sends /\ losses' = losses /\ replays' = replays
  BY DEF Mark
<1>2. run[w].d \in Deliveries /\ run[w].pc \in {"success", "retry", "dead"}
  BY DEF Mark, AccountInv, WebhookInv, TypeOK, Run
<1>3. ~Unsent(w, e)
  BY <1>2 DEF Unsent
<1>4. CASE e # run[w].d
  <2>1. row'[e] = row[e]
    BY <1>2, <1>4 DEF Mark, AccountInv, WebhookInv, TypeOK
  <2>2. ~On(w, e)
    BY <1>4 DEF On
  <2> QED BY <1>1, <1>3, <2>1, <2>2, RestCounts, Untouched
<1>5. CASE e = run[w].d /\ ~Owns(w)
  <2>1. row' = row /\ On(w, e)
    BY <1>2, <1>5 DEF Mark, On
  <2>2. Kept(e)' <=> Kept(e)
    BY <1>1, <1>2, <1>5, <2>1, RestCounts
    DEF Owns, Kept, Attended, On, AccountInv, WebhookInv, LiveInv
  <2>3. Credit(e)' = Credit(e)
    BY <2>1, <2>2 DEF Credit
  <2> QED BY <1>1, <1>3, <2>1, <2>2, <2>3, RestCounts, CountTypes DEF CountInv
<1>6. CASE e = run[w].d /\ Owns(w)
  <2>1. On(w, e) /\ Kept(e)
    BY <1>2, <1>6 DEF On, Owns, Kept, Attended
  <2>2. row'[e] = Written(w) /\ ~row'[e].live /\ row'[e].status # "absent"
    BY <1>2, <1>6, WrittenRow DEF Mark, AccountInv, WebhookInv, TypeOK
  <2>3. row'[e].att = row[e].att
    <3>1. row[e] \in Row
      BY DEF AccountInv, WebhookInv, TypeOK
    <3> QED BY <1>2, <1>6, <2>2, <3>1 DEF Written, Row
  <2>4. row'[e].status = "pending" => row[e].att < MaxAttempts
    <3>1. run[w].pc = "retry" => run[w].att < MaxAttempts /\ run[w].att = row[e].att
      BY <1>6, <2>1 DEF AccountInv, CopyInv, Owns
    <3>2. row'[e].status = IF run[w].pc = "retry" THEN "pending" ELSE run[w].pc
      BY <1>2, <2>2, WrittenRow DEF AccountInv
    <3> QED BY <1>2, <3>1, <3>2
  <2>5. Credit(e)' <= Credit(e) /\ Credit(e)' \in Nat /\ ~Kept(e)'
    BY <2>2, <2>3, <2>4, CountTypes, WebhookAssumption DEF Credit, Kept
  <2> QED BY <1>1, <1>3, <2>1, <2>2, <2>5, RestCounts, CountTypes DEF CountInv
<1> QED BY <1>4, <1>5, <1>6

LEMMA FaultCounts ==
  ASSUME AccountInv, NEW w \in Workers, MarkFails(w) \/ Crash(w), NEW e \in Deliveries
  PROVE  CountInv(e)'
<1>1. Rests(w) /\ row' = row /\ replays' = replays
  BY DEF MarkFails, Crash
<1>2. run[w].d \in Deliveries /\ run[w].pc # "idle"
  BY DEF MarkFails, Crash, AccountInv, WebhookInv, TypeOK, Run
<1>3. CASE e # run[w].d
  <2>1. sends'[e] = sends[e] /\ losses'[e] = losses[e]
    BY <1>3 DEF MarkFails, Crash, Lose, AccountInv, WebhookInv, TypeOK
  <2>2. ~On(w, e) /\ ~Unsent(w, e)
    BY <1>3 DEF On, Unsent
  <2> QED BY <1>1, <2>1, <2>2, RestCounts, Untouched
<1>4. CASE e = run[w].d
  <2>1. On(w, e) /\ losses'[e] = losses[e] + 1
    BY <1>2, <1>4 DEF MarkFails, Crash, Lose, On, AccountInv, WebhookInv, TypeOK
  <2>2. sends'[e] \in Nat /\ sends'[e] <= sends[e] + (IF Unsent(w, e) THEN 1 ELSE 0)
    BY <1>2, <1>4, CountTypes DEF MarkFails, Crash, Unsent, AccountInv, WebhookInv, TypeOK
  <2>3. Credit(e)' <= Credit(e) + 1 /\ Credit(e)' \in Nat
    BY <1>1, CountTypes, WebhookAssumption DEF Credit
  <2> QED BY <1>1, <2>1, <2>2, <2>3, RestCounts, CountTypes DEF CountInv
<1> QED BY <1>3, <1>4
\* CopyInv speaks of a goroutine and of the row whose lease it has.
LEMMA CopyRun ==
  ASSUME AccountInv, NEW w \in Workers,
         Rests(w) \/ Delivered(w) \/ SendFails(w) \/ Refused(w) \/ LoadFails(w) \/ Cancelled(w),
         \A d \in Deliveries :
           row'[d].lease \in Workers => row'[d].lease = row[d].lease /\ row'[d].att = row[d].att
  PROVE  CopyInv'
<1>1. \A v \in Workers \ {w} : run'[v] = run[v]
  BY DEF Rests, Delivered, SendFails, Refused, LoadFails, Cancelled, Goes, AccountInv, WebhookInv,
         TypeOK
<1>2. run[w] \in Run
  BY DEF AccountInv, WebhookInv, TypeOK
<1>3. \/ run'[w].pc = "idle"
      \/ /\ run'[w].att = run[w].att /\ run'[w].d = run[w].d /\ run[w].pc = "claimed"
         /\ run'[w].pc = "retry" => run'[w].att < MaxAttempts
  BY <1>2, IdleRunType, WebhookAssumption
  DEF Rests, Delivered, SendFails, Refused, LoadFails, Cancelled, Goes, Route, AccountInv,
      WebhookInv, TypeOK, Run
<1> QED BY <1>1, <1>3 DEF CopyInv, AccountInv, On

LEMMA CopyRow ==
  ASSUME AccountInv, NEW d \in Deliveries,
         Emit(d) \/ ComesDue(d) \/ LeaseRunsOut(d) \/ HeartbeatStops(d) \/ MarkReplay(d)
  PROVE  CopyInv'
<1>1. run' = run /\ row[d] \in Row /\ \A e \in Deliveries \ {d} : row'[e] = row[e]
  BY DEF Emit, ComesDue, LeaseRunsOut, HeartbeatStops, MarkReplay, AccountInv, WebhookInv, TypeOK
<1>2. row'[d].lease \in Workers => row'[d].lease = row[d].lease /\ row'[d].att = row[d].att
  <2>1. CASE MarkReplay(d)
    <3>1. row'[d].lease = NoOne
      BY <2>1 DEF MarkReplay, Absent, AccountInv, WebhookInv, TypeOK
    <3> QED BY <3>1, WebhookAssumption
  <2>2. CASE Emit(d) \/ ComesDue(d) \/ LeaseRunsOut(d) \/ HeartbeatStops(d)
    BY <1>1, <2>2
    DEF Emit, ComesDue, LeaseRunsOut, HeartbeatStops, AccountInv, WebhookInv, TypeOK, Row
  <2> QED BY <2>1, <2>2
<1> QED BY <1>1, <1>2 DEF CopyInv, AccountInv, On

LEMMA CopyClaim ==
  ASSUME AccountInv, NEW w \in Workers, NEW d \in Deliveries, ClaimDueDeliveries(w, d)
  PROVE  CopyInv'
<1>1. /\ \A v \in Workers \ {w} : run'[v] = run[v]
      /\ run'[w] = [pc |-> "claimed", d |-> d, att |-> row[d].att + 1]
      /\ \A e \in Deliveries \ {d} : row'[e] = row[e]
  BY DEF ClaimDueDeliveries, AccountInv, WebhookInv, TypeOK
<1>2. row'[d].lease = w /\ row'[d].att = row[d].att + 1
  BY DEF ClaimDueDeliveries, AccountInv, WebhookInv, TypeOK, Row
<1> QED BY <1>1, <1>2 DEF CopyInv, AccountInv, On

LEMMA CopyMark == ASSUME AccountInv, NEW w \in Workers, Mark(w) PROVE CopyInv'
<1>1. \A d \in Deliveries : row'[d] = row[d] \/ row'[d].lease = NoOne
  BY WrittenRow DEF Mark, AccountInv, WebhookInv, TypeOK
<1> QED BY <1>1, CopyRun, WebhookAssumption DEF Mark

LEMMA AccountNext == AccountInv /\ [Next]_vars => AccountInv'
<1> SUFFICES ASSUME AccountInv, [Next]_vars PROVE AccountInv'
  OBVIOUS
<1>1. WebhookInv'
  BY NextInv DEF AccountInv
<1>2. CASE UNCHANGED vars
  <2>1. CopyInv'
    BY <1>2 DEF vars, AccountInv, CopyInv, On
  <2>2. \A e \in Deliveries : CountInv(e)'
    BY <1>2, Still DEF vars
  <2> QED BY <1>1, <2>1, <2>2 DEF AccountInv
<1>3. ASSUME NEW w \in Workers, Worker(w) \/ MarkFails(w) \/ Crash(w) PROVE AccountInv'
  <2>1. CASE \E d \in Deliveries : ClaimDueDeliveries(w, d)
    BY <1>1, <2>1, ClaimCounts, CopyClaim DEF AccountInv
  <2>2. CASE Delivered(w) \/ SendFails(w) \/ Refused(w) \/ LoadFails(w) \/ Cancelled(w)
    <3>1. row' = row
      BY <2>2 DEF Delivered, SendFails, Refused, LoadFails, Cancelled
    <3> QED BY <1>1, <2>2, <3>1, SendCounts, CopyRun DEF AccountInv
  <2>3. CASE Mark(w)
    BY <1>1, <2>3, MarkCounts, CopyMark DEF AccountInv
  <2>4. CASE MarkFails(w) \/ Crash(w)
    <3>1. row' = row /\ Rests(w)
      BY <2>4 DEF MarkFails, Crash
    <3> QED BY <1>1, <2>4, <3>1, FaultCounts, CopyRun DEF AccountInv
  <2> QED BY <1>3, <2>1, <2>2, <2>3, <2>4 DEF Worker
<1>4. ASSUME NEW d \in Deliveries,
             Emit(d) \/ ComesDue(d) \/ LeaseRunsOut(d) \/ HeartbeatStops(d) \/ MarkReplay(d)
      PROVE  AccountInv'
  BY <1>1, <1>4, CopyRow, TimeCounts, StopCounts, ReplayCounts DEF AccountInv
<1> QED BY <1>2, <1>3, <1>4 DEF Next

LEMMA AccountAlways == Spec => []AccountInv
BY AccountInit, AccountNext, PTL DEF Spec

\* A receiver sees one delivery at most MaxAttempts times for each life of it, and
\* once more for each lease that was lost, for any number of goroutines, deliveries,
\* faults and replays: the fenced marks, the counter that the claim charges and
\* routeFailure's test leave no other way to repeat a request.
THEOREM SendsAccountedAlways == Spec => []SendsAccounted
<1>1. AccountInv => SendsAccounted
  <2> SUFFICES ASSUME AccountInv, NEW d \in Deliveries
               PROVE  sends[d] <= MaxAttempts * (1 + replays[d]) + losses[d]
    BY DEF SendsAccounted
  <2> QED BY CountTypes DEF CountInv
<1> QED BY <1>1, AccountAlways, PTL

\* Two goroutines send one delivery together only if a lease ran out under one of
\* them, or the process that had it died: ClaimDueDeliveries hands out a row only
\* when its lease is gone, and the heartbeat keeps it while somebody works.
THEOREM OneSenderAlways == Spec => []OneSender
<1>1. AccountInv => OneSender
  <2> SUFFICES ASSUME AccountInv, NEW d \in Deliveries
               PROVE  Cardinality(Senders(d)) <= 1 + losses[d]
    BY DEF OneSender, Senders, Unsent
  <2>1. Senders(d) \subseteq Busy(d) /\ IsFiniteSet(Busy(d))
    BY CountTypes DEF Senders, Busy, On, Unsent, CountInv
  <2>2. Cardinality(Senders(d)) <= Cardinality(Busy(d))
    BY <2>1, FS_Subset
  <2> QED BY <2>2, CountTypes DEF CountInv
<1> QED BY <1>1, AccountAlways, PTL
=============================================================================
