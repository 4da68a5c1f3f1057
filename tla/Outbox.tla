------------------------------- MODULE Outbox -------------------------------
(***************************************************************************)
(* The transactional outbox: the rows of outbox_events, the dispatchers of *)
(* several worker processes (claim, heartbeat, process, mark) and the      *)
(* publish_jobs materialiser they run.  One autocommitted statement, or    *)
(* the claim transaction, is one step.                                     *)
(***************************************************************************)
EXTENDS Naturals, FiniteSets

CONSTANTS
  Events,       \* rows of outbox_events
  Foreign,      \* events no processor knows (platform_account.deleted, ...)
  Dispatchers,  \* dispatcher goroutines, one per worker process
  MaxAttempts,  \* DispatcherConfig.MaxAttempts
  MaxClaims,    \* bound: claims of one row
  Faults        \* the faults of this instance: "crash", "stall", "mark", "insert"

ASSUME OutboxAssumption ==
  /\ Events # {} /\ Foreign \subseteq Events
  /\ MaxAttempts \in Nat \ {0}
  /\ MaxClaims \in Nat /\ MaxClaims >= MaxAttempts

VARIABLES
  row,     \* outbox_events
  target,  \* the post_targets rows that still exist
  jobs,    \* jobs[e]: number of publish_jobs rows with outbox_event_id = e
  ctl,     \* the dispatchers' local state
  up       \* running dispatchers

vars == <<row, target, jobs, ctl, up>>

Statuses == {"pending", "processed", "dead_letter"}

\* lease_id is a fresh UUID per claim.  attempt_count grows with every claim,
\* so the claim's number names it; 0 is NULL.  live is lease_until >= now(),
\* due is next_attempt_at <= now() or NULL.
Row == [status : Statuses, lease : 0..MaxClaims, live : BOOLEAN, due : BOOLEAN,
        attempts : 0..MaxClaims]

\* "work": ProcessFunc runs and the heartbeat renews; "mark": it returned.
Ctl == [pc : {"idle", "work", "mark"}, ev : Events, lease : 0..MaxClaims,
        result : {"none", "ok", "terminal", "transient"}]

TypeOK ==
  /\ row \in [Events -> Row]
  /\ target \subseteq Events
  /\ jobs \in [Events -> Nat]
  /\ ctl \in [Dispatchers -> Ctl]
  /\ up \subseteq Dispatchers

IdleCtl == [pc |-> "idle", ev |-> CHOOSE e \in Events : TRUE, lease |-> 0, result |-> "none"]

\* PostRepository.Create writes the post, its targets and one event per target
\* in one transaction.
Init ==
  /\ row = [e \in Events |-> [status |-> "pending", lease |-> 0, live |-> FALSE, due |-> TRUE,
                              attempts |-> 0]]
  /\ target = Events
  /\ jobs = [e \in Events |-> 0]
  /\ ctl = [d \in Dispatchers |-> IdleCtl]
  /\ up = Dispatchers

-----------------------------------------------------------------------------
(* ClaimNext.                                                              *)

\* Mutant: a row whose lease ran out is not free.
ClaimableUnleased(e) == row[e].status = "pending" /\ row[e].lease = 0 /\ row[e].due

\* The WHERE clause of the claim's SELECT ... FOR UPDATE SKIP LOCKED.
Claimable(e) ==
  /\ row[e].status = "pending"
  /\ row[e].lease = 0 \/ ~row[e].live
  /\ row[e].due

\* Which claimable row is first in ORDER BY next_attempt_at, created_at is left
\* open: peers hold row locks that SKIP LOCKED passes over.
ClaimNext(d) ==
  /\ d \in up /\ ctl[d].pc = "idle"
  /\ \E e \in Events :
       /\ Claimable(e)
       /\ row[e].attempts < MaxClaims
       /\ row' = [row EXCEPT ![e].lease = row[e].attempts + 1, ![e].live = TRUE,
                             ![e].attempts = row[e].attempts + 1]
       /\ ctl' = [ctl EXCEPT ![d] = [pc |-> "work", ev |-> e, lease |-> row[e].attempts + 1,
                                     result |-> "none"]]
  /\ UNCHANGED <<target, jobs, up>>

\* heartbeatLoop: RenewLease compares lease_id only.
RenewLease(d) ==
  LET e == ctl[d].ev IN
  /\ d \in up /\ ctl[d].pc = "work"
  /\ row[e].lease = ctl[d].lease /\ ~row[e].live
  /\ row' = [row EXCEPT ![e].live = TRUE]
  /\ UNCHANGED <<target, jobs, ctl, up>>

-----------------------------------------------------------------------------
(* safeProcess: the materialiser's validation and its INSERT.              *)

Returns(d, result) ==
  /\ d \in up /\ ctl[d].pc = "work"
  /\ ctl' = [ctl EXCEPT ![d].pc = "mark", ![d].result = result]
  /\ UNCHANGED <<row, target, up>>

\* validateEventMetadata, or SQLSTATE 23503 for a deleted target.
ProcessTerminal(d) ==
  /\ Returns(d, "terminal")
  /\ ctl[d].ev \in Foreign \/ (ctl[d].ev \notin target /\ jobs[ctl[d].ev] = 0)
  /\ UNCHANGED jobs

\* Mutant: publish_jobs has no unique index on outbox_event_id.
InsertAlways(e) == jobs' = [jobs EXCEPT ![e] = @ + 1]

\* The INSERT into publish_jobs; SQLSTATE 23505 counts as success.
InsertJob(e) == jobs' = IF jobs[e] = 0 THEN [jobs EXCEPT ![e] = 1] ELSE jobs

\* PostgreSQL checks the unique index before the foreign key, so a row that
\* exists already is a success even when the target is gone.
ProcessOk(d) ==
  /\ ctl[d].ev \notin Foreign
  /\ ctl[d].ev \in target \/ jobs[ctl[d].ev] > 0
  /\ Returns(d, "ok")
  /\ InsertJob(ctl[d].ev)

\* Any other error, a panic or a cancelled context; the INSERT may have been
\* committed although its answer is lost.
ProcessTransient(d) ==
  /\ ctl[d].ev \notin Foreign
  /\ Returns(d, "transient")
  /\ \/ UNCHANGED jobs
     \/ "insert" \in Faults /\ ctl[d].ev \in target /\ InsertJob(ctl[d].ev)

-----------------------------------------------------------------------------
(* The four mark arms: UPDATE ... WHERE id = $1 AND lease_id = $2.         *)

OwnsLease(d) == row[ctl[d].ev].lease = ctl[d].lease

\* Mutant: the UPDATE names the row only.
MarksAnyLease(d, r) ==
  /\ d \in up /\ ctl[d].pc = "mark"
  /\ row' = [row EXCEPT ![ctl[d].ev] = r]
  /\ ctl' = [ctl EXCEPT ![d] = IdleCtl]
  /\ UNCHANGED <<target, jobs, up>>

\* d writes r over its row, or finds that a peer stole it (ErrOutboxGone); in
\* both cases drainOnce goes on.
Marks(d, r) ==
  /\ d \in up /\ ctl[d].pc = "mark"
  /\ row' = IF OwnsLease(d) THEN [row EXCEPT ![ctl[d].ev] = r] ELSE row
  /\ ctl' = [ctl EXCEPT ![d] = IdleCtl]
  /\ UNCHANGED <<target, jobs, up>>

MarkProcessed(d) ==
  /\ ctl[d].result = "ok"
  /\ Marks(d, [row[ctl[d].ev] EXCEPT !.status = "processed", !.lease = 0, !.live = FALSE,
                                     !.due = TRUE])

\* Mutant: the count is taken to be that of the earlier attempts.
AttemptsLeftEarly(d) == ctl[d].lease + 1 < MaxAttempts

\* ev.AttemptCount < MaxAttempts, with the count ClaimNext returned.
AttemptsLeft(d) == ctl[d].lease < MaxAttempts

\* markDeadLetterTerminal, markDeadLetterMaxAttempts.
MarkDeadLetter(d) ==
  /\ ctl[d].result = "terminal" \/ (ctl[d].result = "transient" /\ ~AttemptsLeft(d))
  /\ Marks(d, [row[ctl[d].ev] EXCEPT !.status = "dead_letter", !.lease = 0, !.live = FALSE,
                                     !.due = TRUE])

\* markFailedBackoff.
MarkFailed(d) ==
  /\ ctl[d].result = "transient" /\ AttemptsLeft(d)
  /\ Marks(d, [row[ctl[d].ev] EXCEPT !.lease = 0, !.live = FALSE, !.due = FALSE])

\* The mark fails with a database error (ErrPartialPersistence): no other mark
\* is tried and the lease stays until it runs out.
MarkLost(d) ==
  /\ "mark" \in Faults
  /\ d \in up /\ ctl[d].pc = "mark"
  /\ ctl' = [ctl EXCEPT ![d] = IdleCtl]
  /\ UNCHANGED <<row, target, jobs, up>>

-----------------------------------------------------------------------------
(* Time, deletions and crashes.                                            *)

\* lease_until passes.  The heartbeat of a running holder prevents it, unless
\* the holder stalls or its clock is behind the database's.
LeaseExpires(e) ==
  /\ row[e].live
  /\ \/ "stall" \in Faults
     \/ ~\E d \in up : ctl[d].pc # "idle" /\ ctl[d].ev = e /\ OwnsLease(d)
  /\ row' = [row EXCEPT ![e].live = FALSE]
  /\ UNCHANGED <<target, jobs, ctl, up>>

BackoffEnds(e) ==
  /\ ~row[e].due
  /\ row' = [row EXCEPT ![e].due = TRUE]
  /\ UNCHANGED <<target, jobs, ctl, up>>

\* The post is deleted, and its targets with it; the event stays.
DeleteTarget(e) ==
  /\ e \in target
  /\ target' = target \ {e}
  /\ UNCHANGED <<row, jobs, ctl, up>>

\* A worker process dies; a supervisor restarts it, so one is always running.
Crash(d) ==
  /\ "crash" \in Faults
  /\ d \in up /\ up # {d}
  /\ up' = up \ {d}
  /\ ctl' = [ctl EXCEPT ![d] = IdleCtl]
  /\ UNCHANGED <<row, target, jobs>>

Dispatch(d) ==
  \/ ProcessTerminal(d) \/ ProcessOk(d) \/ ProcessTransient(d)
  \/ MarkProcessed(d) \/ MarkDeadLetter(d) \/ MarkFailed(d)

Next ==
  \/ \E d \in Dispatchers : ClaimNext(d) \/ Dispatch(d) \/ RenewLease(d) \/ MarkLost(d) \/ Crash(d)
  \/ \E e \in Events : LeaseExpires(e) \/ BackoffEnds(e) \/ DeleteTarget(e)

Spec == Init /\ [][Next]_vars

\* Run's ticker drains the queue again and again, a running dispatcher goes on
\* with the row it holds, and leases and backoffs run out.
FairSpec ==
  /\ Spec
  /\ \A d \in Dispatchers : WF_vars(ClaimNext(d)) /\ WF_vars(Dispatch(d))
  /\ \A e \in Events : WF_vars(LeaseExpires(e)) /\ WF_vars(BackoffEnds(e))

-----------------------------------------------------------------------------
(* Properties.                                                             *)

\* At-least-once delivery has an exactly-once effect: however often a row is
\* claimed again after a crash, a stall or a lost mark, at most one publish_jobs
\* row is made for it, and a row marked processed has one.
ExactlyOneJob ==
  \A e \in Events : jobs[e] <= 1 /\ (row[e].status = "processed" => jobs[e] = 1)

\* An event is given up only for a reason: a processor that refused it, a
\* target deleted before its job was made, or MaxAttempts claims.
DeadLetterJustified ==
  \A e \in Events : row[e].status = "dead_letter" =>
    \/ e \in Foreign
    \/ e \notin target /\ jobs[e] = 0
    \/ row[e].attempts >= MaxAttempts

\* The mark of a dispatcher that lost its row never takes back what a peer
\* decided: a processed or dead-lettered row stays as it is.
DecisionStable == [][\A e \in Events : row[e].status # "pending" => row'[e] = row[e]]_vars

\* While no process stalls, a row is in the hands of one dispatcher.
OneDispatcher ==
  "stall" \notin Faults =>
    \A c, d \in Dispatchers :
      ctl[c].pc # "idle" /\ ctl[d].pc # "idle" /\ ctl[c].ev = ctl[d].ev => c = d

\* Every event is processed or dead-lettered although dispatchers die, stall or
\* lose their marks after the claim, unless these faults use up every claim that
\* the bound leaves it.
EventSettles ==
  \A e \in Events : <>(row[e].status # "pending" \/ row[e].attempts = MaxClaims)
=============================================================================
