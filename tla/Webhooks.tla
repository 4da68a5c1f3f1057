------------------------------ MODULE Webhooks ------------------------------
(***************************************************************************)
(* webhook_deliveries and its workers (internal/worker/webhook_worker.go,  *)
(* internal/repository/webhook_repo.go): the fan-out creates one row per   *)
(* event and endpoint, a worker claims a due row with a lease of its own,  *)
(* posts the event, and writes the outcome if the lease is still its own.  *)
(* One statement or one HTTP exchange is one step.                         *)
(***************************************************************************)
EXTENDS Naturals, FiniteSets

CONSTANTS
  Deliveries,   \* (event, endpoint) pairs
  Workers,      \* processOne goroutines of all processes
  NoOne,        \* SQL NULL
  MaxAttempts,  \* services.MaxAttempts
  MaxLosses,    \* bound: faults one delivery meets
  MaxReplays,   \* bound: replays an operator asks for
  Faults        \* the faults of this instance

ASSUME WebhookAssumption ==
  /\ MaxAttempts \in Nat \ {0}
  /\ MaxLosses \in Nat /\ MaxReplays \in Nat
  /\ NoOne \notin Workers
  /\ Deliveries # {}
  /\ Faults \subseteq {"crash", "stall", "mark", "shutdown", "load"}

VARIABLES
  row,      \* webhook_deliveries
  run,      \* the goroutine of each worker
  sends,    \* history: POST requests made for each delivery
  losses,   \* history: leases lost, to a crash, a stall or a failed write
  replays   \* history: MarkReplay calls

vars == <<row, run, sends, losses, replays>>

\* live: lease_until is in the future.  due: so is scheduled_at not.
Row == [status : {"absent", "pending", "success", "dead"}, att : Nat,
        lease : Workers \cup {NoOne}, live : BOOLEAN, due : BOOLEAN]

Absent == [status |-> "absent", att |-> 0, lease |-> NoOne, live |-> FALSE, due |-> FALSE]

\* "claimed": the lease is stamped, nothing sent.  The other counters say which
\* write comes next.  att is the attempt the claim returned.
Run == [pc : {"idle", "claimed", "success", "retry", "dead"}, d : Deliveries, att : Nat]

IdleRun == [pc |-> "idle", d |-> CHOOSE d \in Deliveries : TRUE, att |-> 0]

TypeOK ==
  /\ row \in [Deliveries -> Row]
  /\ run \in [Workers -> Run]
  /\ sends \in [Deliveries -> Nat]
  /\ losses \in [Deliveries -> 0..MaxLosses]
  /\ replays \in [Deliveries -> 0..MaxReplays]
  /\ \A d \in Deliveries : row[d].lease # NoOne => row[d].status = "pending"

Init ==
  /\ row = [d \in Deliveries |-> Absent]
  /\ run = [w \in Workers |-> IdleRun]
  /\ sends = [d \in Deliveries |-> 0]
  /\ losses = [d \in Deliveries |-> 0]
  /\ replays = [d \in Deliveries |-> 0]

Goes(w, pc) == run' = [run EXCEPT ![w].pc = pc]
Rests(w) == run' = [run EXCEPT ![w] = IdleRun]

\* Emit: InsertEvent, then CreateDelivery for each endpoint; a repeated event
\* finds its rows there (ON CONFLICT DO NOTHING).
Emit(d) ==
  /\ row[d].status = "absent"
  /\ row' = [row EXCEPT ![d].status = "pending", ![d].due = TRUE]
  /\ UNCHANGED <<run, sends, losses, replays>>

\* scheduled_at passes.
ComesDue(d) ==
  /\ row[d].status = "pending" /\ ~row[d].due
  /\ row' = [row EXCEPT ![d].due = TRUE]
  /\ UNCHANGED <<run, sends, losses, replays>>

\* A claim that asks only for a pending row whose time has come.
ClaimableUnleased(d) == row[d].status = "pending" /\ row[d].due

\* A claim that passes over rows somebody has leased, whatever became of him.
ClaimableNever(d) == row[d].status = "pending" /\ row[d].due /\ row[d].lease = NoOne

Claimable(d) ==
  /\ row[d].status = "pending" /\ row[d].due
  /\ row[d].lease = NoOne \/ ~row[d].live

\* ClaimDueDeliveries, for one row.
ClaimDueDeliveries(w, d) ==
  /\ run[w].pc = "idle" /\ Claimable(d)
  /\ row' = [row EXCEPT ![d].att = @ + 1, ![d].lease = w, ![d].live = TRUE]
  /\ run' = [run EXCEPT ![w] = [pc |-> "claimed", d |-> d, att |-> row[d].att + 1]]
  /\ UNCHANGED <<sends, losses, replays>>

\* The receiver answers 2xx.
Delivered(w) ==
  /\ run[w].pc = "claimed"
  /\ sends' = [sends EXCEPT ![run[w].d] = @ + 1]
  /\ Goes(w, "success")
  /\ UNCHANGED <<row, losses, replays>>

\* An off-by-one in the budget.
RouteLate(w) == IF run[w].att > MaxAttempts THEN "dead" ELSE "retry"

\* routeFailure: a retryable failure is retried until MaxAttempts.
Route(w) == IF run[w].att >= MaxAttempts THEN "dead" ELSE "retry"

\* A timeout, a lost answer, 429 or 5xx; the receiver may have got the event.
SendFails(w) ==
  /\ run[w].pc = "claimed"
  /\ sends' = [sends EXCEPT ![run[w].d] = @ + 1]
  /\ Goes(w, Route(w))
  /\ UNCHANGED <<row, losses, replays>>

\* The receiver refuses for good (4xx).
Refused(w) ==
  /\ run[w].pc = "claimed"
  /\ sends' = [sends EXCEPT ![run[w].d] = @ + 1]
  /\ Goes(w, "dead")
  /\ UNCHANGED <<row, losses, replays>>

\* FindEventByID or FindEndpointByID fails, for whatever reason.
LoadFails(w) ==
  /\ "load" \in Faults
  /\ run[w].pc = "claimed"
  /\ Goes(w, "dead")
  /\ UNCHANGED <<row, sends, losses, replays>>

\* The worker is told to stop: the request's context is cancelled, and
\* ClassifyError calls that transient but not retryable.
Cancelled(w) ==
  /\ "shutdown" \in Faults
  /\ run[w].pc = "claimed"
  /\ sends' = [sends EXCEPT ![run[w].d] = @ + 1]
  /\ Goes(w, "dead")
  /\ UNCHANGED <<row, losses, replays>>

Owns(w) ==
  /\ row[run[w].d].status = "pending"
  /\ row[run[w].d].lease = w /\ row[run[w].d].live

\* The row the outcome leaves behind.
Written(w) ==
  LET r == row[run[w].d]
  IN CASE run[w].pc = "success" -> [r EXCEPT !.status = "success", !.lease = NoOne, !.live = FALSE]
       [] run[w].pc = "dead"    -> [r EXCEPT !.status = "dead", !.lease = NoOne, !.live = FALSE]
       [] run[w].pc = "retry"   -> [r EXCEPT !.due = FALSE, !.lease = NoOne, !.live = FALSE,
                                             !.status = "pending"]

\* A write that names the row by its id alone.
MarkById(w) ==
  /\ run[w].pc \in {"success", "retry", "dead"}
  /\ row' = [row EXCEPT ![run[w].d] = Written(w)]
  /\ Rests(w)
  /\ UNCHANGED <<sends, losses, replays>>

\* MarkSuccess, MarkRetry, MarkDead: a stale owner's write matches no row.
Mark(w) ==
  /\ run[w].pc \in {"success", "retry", "dead"}
  /\ row' = IF Owns(w) THEN [row EXCEPT ![run[w].d] = Written(w)] ELSE row
  /\ Rests(w)
  /\ UNCHANGED <<sends, losses, replays>>

\* A fault that costs delivery d the lease it has.
Lose(d) ==
  /\ losses[d] < MaxLosses
  /\ losses' = [losses EXCEPT ![d] = @ + 1]

\* The write fails; the goroutine only logs it.
MarkFails(w) ==
  /\ "mark" \in Faults
  /\ run[w].pc \in {"success", "retry", "dead"}
  /\ Lose(run[w].d)
  /\ Rests(w)
  /\ UNCHANGED <<row, sends, replays>>

\* The process dies, perhaps after the request was sent.
Crash(w) ==
  /\ "crash" \in Faults
  /\ run[w].pc # "idle"
  /\ Lose(run[w].d)
  /\ Rests(w)
  /\ \/ sends' = [sends EXCEPT ![run[w].d] = @ + (IF run[w].pc = "claimed" THEN 1 ELSE 0)]
     \/ UNCHANGED sends
  /\ UNCHANGED <<row, replays>>

\* While processOne runs, its heartbeat keeps the lease alive.
Attended(d) == \E w \in Workers : row[d].lease = w /\ run[w].pc # "idle" /\ run[w].d = d

LeaseRunsOut(d) ==
  /\ row[d].lease # NoOne /\ row[d].live /\ ~Attended(d)
  /\ row' = [row EXCEPT ![d].live = FALSE]
  /\ UNCHANGED <<run, sends, losses, replays>>

\* A heartbeat fails and its goroutine ends: the lease runs out under the worker.
HeartbeatStops(d) ==
  /\ "stall" \in Faults
  /\ row[d].lease # NoOne /\ row[d].live /\ Attended(d)
  /\ Lose(d)
  /\ row' = [row EXCEPT ![d].live = FALSE]
  /\ UNCHANGED <<run, sends, replays>>

\* MarkReplay: the operator sends a dead delivery again, with a new budget.
MarkReplay(d) ==
  /\ row[d].status = "dead" /\ replays[d] < MaxReplays
  /\ row' = [row EXCEPT ![d] = [Absent EXCEPT !.status = "pending", !.due = TRUE]]
  /\ replays' = [replays EXCEPT ![d] = @ + 1]
  /\ UNCHANGED <<run, sends, losses>>

Worker(w) ==
  \/ \E d \in Deliveries : ClaimDueDeliveries(w, d)
  \/ Delivered(w) \/ SendFails(w) \/ Refused(w) \/ LoadFails(w) \/ Cancelled(w)
  \/ Mark(w)

Next ==
  \/ \E w \in Workers : Worker(w) \/ MarkFails(w) \/ Crash(w)
  \/ \E d \in Deliveries :
       \/ Emit(d) \/ ComesDue(d) \/ LeaseRunsOut(d) \/ HeartbeatStops(d) \/ MarkReplay(d)

Spec == Init /\ [][Next]_vars

\* The workers' tickers keep firing, an HTTP exchange ends within its timeout,
\* and time passes.
FairSpec ==
  /\ Spec
  /\ \A w \in Workers : WF_vars(Worker(w))
  /\ \A d \in Deliveries : WF_vars(ComesDue(d)) /\ WF_vars(LeaseRunsOut(d))

-----------------------------------------------------------------------------
\* A receiver sees one delivery at most MaxAttempts times for each life of it,
\* and once more for each lease that was lost: nothing else repeats a request.
SendsAccounted ==
  \A d \in Deliveries : sends[d] <= MaxAttempts * (1 + replays[d]) + losses[d]

\* Two workers send one delivery together only if a lease ran out under one.
OneSender ==
  \A d \in Deliveries :
    Cardinality({w \in Workers : run[w].pc = "claimed" /\ run[w].d = d}) <= 1 + losses[d]

\* Every delivery ends, delivered or dead, whatever crashes.
DeliverySettles ==
  \A d \in Deliveries :
    row[d].status = "pending" ~> row[d].status \in {"success", "dead"}

\* webhook_deliveries is a leased work table: "every later write is fenced by the
\* returned lease_id" (ClaimDueDeliveries).  A row is held while its lease is
\* live; a dead row waits for the operator.
Phase(d) ==
  CASE row[d].status = "absent"  -> "absent"
    [] row[d].status = "success" -> "settled"
    [] row[d].status \in {"pending", "dead"} -> IF row[d].live THEN "held" ELSE "ready"

Holder(d) == IF row[d].live THEN row[d].lease ELSE NoOne

Work == INSTANCE LeasedWork WITH
  Items <- Deliveries, Workers <- Workers, NoOne <- NoOne,
  phase <- [d \in Deliveries |-> Phase(d)], holder <- [d \in Deliveries |-> Holder(d)]

ImplementsLeasedWork == Work!Spec
=============================================================================
