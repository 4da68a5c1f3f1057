-------------------------- MODULE ExternalDelivery --------------------------
(***************************************************************************)
(* external_deliveries: the requests that hand InstaEdit a rendered video  *)
(* (pkg/api/deliveries_handler.go, Insert of external_delivery_repo.go),   *)
(* and the downloader that turns each accepted row into one upload job     *)
(* (internal/worker/velox_artifact_downloader.go).  A row is named by the  *)
(* request that inserted it.  One statement, or a transaction from its     *)
(* last lock to its commit, is one step.                                   *)
(***************************************************************************)
EXTENDS Naturals, FiniteSets

CONSTANTS
  Requests,     \* POST /internal/v1/deliveries calls
  Key,          \* Key[r]: idempotency_key
  Ext,          \* Ext[r]: external_delivery_id
  Body,         \* Body[r]: request_sha256
  Artifacts,    \* the requests that carry a download_url
  Workers,      \* downloaders, one per process
  NoOne,        \* SQL NULL, and the holder of a free lock
  MaxAttempts,  \* VeloxArtifactDownloaderOptions.MaxAttempts
  MaxLosses,    \* bound: faults, and cancelled uploads, that one row meets
  Faults        \* the faults of this instance

ASSUME ExternalAssumption ==
  /\ Requests # {} /\ Artifacts \subseteq Requests
  /\ NoOne \notin Workers /\ NoOne \notin Requests
  /\ MaxAttempts \in Nat \ {0} /\ MaxLosses \in Nat
  /\ Faults \subseteq {"request", "answer", "crash", "stall", "mark", "cancel"}
  \* request_sha256 is that of the raw body, which holds the key and the name.
  /\ \A q, r \in Requests : Body[q] = Body[r] => Key[q] = Key[r] /\ Ext[q] = Ext[r]

VARIABLES
  req,      \* req[r]: the handler of r, then its answer
  lock,     \* lock[k]: the request that holds the advisory lock of key k
  row,      \* row[r]: the external_deliveries row r inserted
  run,      \* the downloaders
  jobs,     \* history: upload_jobs rows created for each row
  gone,     \* history: of these, the ones deleted by a cancelled upload
  losses    \* history: faults that hit each row

vars == <<req, lock, row, run, jobs, gone, losses>>

Keys == {Key[r] : r \in Requests}

\* Steps of a handler, and its answers: 202 (with the row it names), 409, 500.
Handler == [pc : {"new", "locked", "absent", "accepted", "conflict", "error"},
            id : Requests \cup {NoOne}]

Claimed == {"accepted", "retry_wait"}
Statuses == {"none", "downloading", "failed", "blocked_auth", "dead_letter"} \cup Claimed

\* live: lease_expires_at is ahead.  due: next_attempt_at is not.  linked:
\* upload_job_id is set.
Row == [status : Statuses, owner : Workers \cup {NoOne}, live : BOOLEAN, due : BOOLEAN,
        att : Nat, linked : BOOLEAN]

NoRow == [status |-> "none", owner |-> NoOne, live |-> FALSE, due |-> TRUE, att |-> 0,
          linked |-> FALSE]

\* After "claimed" the counter is the status that handleFailure will write.
Run == [pc : {"idle", "claimed", "retry_wait", "failed", "blocked_auth", "dead_letter"},
        d : Requests, att : Nat]

IdleRun == [pc |-> "idle", d |-> CHOOSE r \in Requests : TRUE, att |-> 0]

TypeOK ==
  /\ req \in [Requests -> Handler]
  /\ lock \in [Keys -> Requests \cup {NoOne}]
  /\ row \in [Requests -> Row]
  /\ run \in [Workers -> Run]
  /\ jobs \in [Requests -> Nat] /\ gone \in [Requests -> Nat]
  /\ losses \in [Requests -> 0..MaxLosses]
  /\ \A r \in Requests : row[r].status \notin Claimed => row[r].owner = NoOne

Init ==
  /\ req = [r \in Requests |-> [pc |-> "new", id |-> NoOne]]
  /\ lock = [k \in Keys |-> NoOne]
  /\ row = [r \in Requests |-> NoRow]
  /\ run = [w \in Workers |-> IdleRun]
  /\ jobs = [r \in Requests |-> 0]
  /\ gone = [r \in Requests |-> 0]
  /\ losses = [r \in Requests |-> 0]

-----------------------------------------------------------------------------
(* handleCreateInternalDelivery, persistInternalDelivery, Insert           *)

Answer(r, pc, id) ==
  /\ req' = [req EXCEPT ![r] = [pc |-> pc, id |-> id]]
  /\ lock' = [lock EXCEPT ![Key[r]] = IF @ = r THEN NoOne ELSE @]

\* An Insert that takes no lock.
InsertLockNone(r) ==
  /\ req[r].pc = "new"
  /\ req' = [req EXCEPT ![r].pc = "locked"]
  /\ UNCHANGED <<lock, row, run, jobs, gone, losses>>

\* The request is valid and its destination publishable: BEGIN, then
\* pg_advisory_xact_lock on the idempotency key.
InsertLock(r) ==
  /\ req[r].pc = "new" /\ lock[Key[r]] = NoOne
  /\ lock' = [lock EXCEPT ![Key[r]] = r]
  /\ req' = [req EXCEPT ![r].pc = "locked"]
  /\ UNCHANGED <<row, run, jobs, gone, losses>>

\* The lookup by key: a replay gets the row, another body a conflict.
InsertLookup(r) ==
  LET found == {q \in Requests : row[q].status # "none" /\ Key[q] = Key[r]} IN
  /\ req[r].pc = "locked"
  /\ \/ found = {} /\ req' = [req EXCEPT ![r].pc = "absent"] /\ UNCHANGED lock
     \/ \E q \in found : Body[q] = Body[r] /\ Answer(r, "accepted", q)
     \/ \E q \in found : Body[q] # Body[r] /\ Answer(r, "conflict", q)
  /\ UNCHANGED <<row, run, jobs, gone, losses>>

\* The two UNIQUE constraints.
Unique(r) ==
  \A q \in Requests : row[q].status # "none" => Key[q] # Key[r] /\ Ext[q] # Ext[r]

\* INSERT and COMMIT; the answer to a commit may be lost.
InsertRow(r) ==
  /\ req[r].pc = "absent"
  /\ \/ /\ Unique(r)
        /\ row' = [row EXCEPT ![r].status = "accepted"]
        /\ \/ Answer(r, "accepted", r)
           \/ "answer" \in Faults /\ Answer(r, "error", NoOne)
     \/ /\ ~Unique(r)
        /\ Answer(r, "conflict", NoOne)
        /\ UNCHANGED row
  /\ UNCHANGED <<run, jobs, gone, losses>>

\* The handler's 5 s run out, a statement fails, or the process dies.
RequestFails(r) ==
  /\ "request" \in Faults
  /\ req[r].pc \in {"new", "locked", "absent"}
  /\ Answer(r, "error", NoOne)
  /\ UNCHANGED <<row, run, jobs, gone, losses>>

-----------------------------------------------------------------------------
(* claimAndProcess                                                         *)

\* A claim that never takes over the row of a downloader that died.
ClaimableUnleased(d) == row[d].status \in Claimed /\ row[d].due /\ row[d].owner = NoOne

Claimable(d) ==
  /\ row[d].status \in Claimed
  /\ row[d].due
  /\ row[d].owner = NoOne \/ ~row[d].live

\* The claim leaves the status alone.
ClaimDelivery(w, d) ==
  /\ run[w].pc = "idle" /\ Claimable(d)
  /\ row' = [row EXCEPT ![d].owner = w, ![d].live = TRUE, ![d].att = @ + 1]
  /\ run' = [run EXCEPT ![w] = [pc |-> "claimed", d |-> d, att |-> row[d].att + 1]]
  /\ UNCHANGED <<req, lock, jobs, gone, losses>>

Goes(w, pc) == run' = [run EXCEPT ![w].pc = pc]

\* An off-by-one in the budget.
RetryLate(w) == IF run[w].att > MaxAttempts THEN "dead_letter" ELSE "retry_wait"

\* handleFailure on a transient error, with the count the claim returned.
Retry(w) == IF run[w].att >= MaxAttempts THEN "dead_letter" ELSE "retry_wait"

\* processOne without a download_url, with a terminal error (destination or
\* workspace gone or disabled, bad metadata), or with a failing lookup.
ProcessFails(w) ==
  /\ run[w].pc = "claimed"
  /\ IF run[w].d \notin Artifacts THEN Goes(w, "blocked_auth")
     ELSE Goes(w, "failed") \/ Goes(w, Retry(w))
  /\ UNCHANGED <<req, lock, row, jobs, gone, losses>>

\* A link that does not ask whether the row has an upload job.
LinkableAgain(w) ==
  /\ row[run[w].d].status \in Claimed
  /\ row[run[w].d].owner \in {w, NoOne}

\* The WHERE clause of CreateUploadJobAndLink.
Linkable(w) ==
  /\ row[run[w].d].status \in Claimed /\ ~row[run[w].d].linked
  /\ row[run[w].d].owner \in {w, NoOne}

\* A link that leaves the status to a later step.
LinkedOnly(d) == [row[d] EXCEPT !.linked = TRUE, !.owner = NoOne, !.live = FALSE]

Linked(d) ==
  [row[d] EXCEPT !.status = "downloading", !.linked = TRUE, !.owner = NoOne, !.live = FALSE]

Lose(d) ==
  /\ losses[d] < MaxLosses
  /\ losses' = [losses EXCEPT ![d] = @ + 1]

\* The upload job is inserted and the row linked in one transaction; without a
\* row to link it is rolled back and ErrExternalDeliveryAlreadyClaimed counts as
\* transient.  So does a commit whose answer is lost.
CreateUploadJobAndLink(w) ==
  LET d == run[w].d IN
  /\ run[w].pc = "claimed" /\ d \in Artifacts
  /\ \/ /\ Linkable(w)
        /\ row' = [row EXCEPT ![d] = Linked(d)]
        /\ jobs' = [jobs EXCEPT ![d] = @ + 1]
        /\ \/ run' = [run EXCEPT ![w] = IdleRun] /\ UNCHANGED losses
           \/ "answer" \in Faults /\ Lose(d) /\ Goes(w, Retry(w))
     \/ /\ ~Linkable(w)
        /\ Goes(w, Retry(w))
        /\ UNCHANGED <<row, jobs, losses>>
  /\ UNCHANGED <<req, lock, gone>>

\* MarkRetry, MarkFailed, MarkBlockedAuth, MarkDeadLetter: WHERE id = $1.
Marked(w) ==
  [row[run[w].d] EXCEPT !.status = run[w].pc, !.owner = NoOne, !.live = FALSE,
                        !.due = (run[w].pc # "retry_wait")]

Mark(w) ==
  /\ run[w].pc \notin {"idle", "claimed"}
  /\ row' = [row EXCEPT ![run[w].d] = Marked(w)]
  /\ run' = [run EXCEPT ![w] = IdleRun]
  /\ UNCHANGED <<req, lock, jobs, gone, losses>>

\* logMarkFailure: the row stays leased.
MarkFails(w) ==
  /\ "mark" \in Faults
  /\ run[w].pc \notin {"idle", "claimed"}
  /\ Lose(run[w].d)
  /\ run' = [run EXCEPT ![w] = IdleRun]
  /\ UNCHANGED <<req, lock, row, jobs, gone>>

\* The process dies and is started again.
Crash(w) ==
  /\ "crash" \in Faults
  /\ run[w].pc # "idle"
  /\ Lose(run[w].d)
  /\ run' = [run EXCEPT ![w] = IdleRun]
  /\ UNCHANGED <<req, lock, row, jobs, gone>>

-----------------------------------------------------------------------------
Attended(d) == \E w \in Workers : row[d].owner = w /\ run[w].pc # "idle" /\ run[w].d = d

\* There is no heartbeat, but the five minutes are ample for processOne ...
LeaseRunsOut(d) ==
  /\ row[d].live /\ ~Attended(d)
  /\ row' = [row EXCEPT ![d].live = FALSE]
  /\ UNCHANGED <<req, lock, run, jobs, gone, losses>>

\* ... unless the process stalls.
Stall(d) ==
  /\ "stall" \in Faults
  /\ row[d].live /\ Attended(d)
  /\ Lose(d)
  /\ row' = [row EXCEPT ![d].live = FALSE]
  /\ UNCHANGED <<req, lock, run, jobs, gone>>

BackoffEnds(d) ==
  /\ ~row[d].due
  /\ row' = [row EXCEPT ![d].due = TRUE]
  /\ UNCHANGED <<req, lock, run, jobs, gone, losses>>

\* The user cancels the pending upload: the job's row is deleted, and ON DELETE
\* SET NULL unlinks the delivery.
CancelUpload(d) ==
  /\ "cancel" \in Faults
  /\ row[d].linked /\ gone[d] < MaxLosses
  /\ row' = [row EXCEPT ![d].linked = FALSE]
  /\ gone' = [gone EXCEPT ![d] = @ + 1]
  /\ UNCHANGED <<req, lock, run, jobs, losses>>

-----------------------------------------------------------------------------
Handle(r) == InsertLock(r) \/ InsertLookup(r) \/ InsertRow(r)
Process(w) == ProcessFails(w) \/ CreateUploadJobAndLink(w) \/ Mark(w)

Next ==
  \/ \E r \in Requests :
       \/ Handle(r) \/ RequestFails(r)
       \/ LeaseRunsOut(r) \/ Stall(r) \/ BackoffEnds(r) \/ CancelUpload(r)
       \/ \E w \in Workers : ClaimDelivery(w, r)
  \/ \E w \in Workers : Process(w) \/ MarkFails(w) \/ Crash(w)

Spec == Init /\ [][Next]_vars

\* Run claims at every tick, the oldest row first, and a claimed row is worked
\* on; leases and backoffs run out.
FairSpec ==
  /\ Spec
  /\ \A w \in Workers : WF_vars(Process(w))
  /\ \A d \in Requests :
       /\ WF_vars(\E w \in Workers : ClaimDelivery(w, d))
       /\ WF_vars(LeaseRunsOut(d)) /\ WF_vars(BackoffEnds(d))

-----------------------------------------------------------------------------
(* Properties                                                              *)

\* The three outcomes of Insert: concurrent and repeated requests for one key are
\* all answered with the same row, a repetition with the same body is never
\* refused, and one with another body never accepted.
ReplayIsAnswered ==
  \A q, r \in Requests :
    Key[q] = Key[r] /\ req[q].pc = "accepted" =>
      /\ req[r].pc = "accepted" => req[r].id = req[q].id /\ Body[r] = Body[q]
      /\ req[r].pc = "conflict" => Body[r] # Body[q]

\* A delivery is uploaded once: whichever downloader creates the upload job, dies
\* after its commit or loses its lease before it, a second job is created only in
\* the place of one that was deleted.
OneUploadJob == \A d \in Requests : jobs[d] <= 1 + gone[d]

\* The marks name the row by its id alone, so a downloader that lost its lease, or
\* the answer to its commit, overwrites what was decided.  Nothing else does: a
\* delivery with an upload job is reported as waiting, failed or dead only after
\* such a fault.
LinkedIsDownloading ==
  \A d \in Requests : row[d].linked /\ losses[d] = 0 => row[d].status = "downloading"

\* Failures never take a row past MaxAttempts; each fault may add one claim.
AttemptsAccounted == \A d \in Requests : row[d].att <= MaxAttempts + losses[d]

\* Every accepted delivery is handed to the upload worker or given up.
DeliveryDecided ==
  \A d \in Requests : row[d].status = "accepted" ~> row[d].status \notin Claimed
=============================================================================
