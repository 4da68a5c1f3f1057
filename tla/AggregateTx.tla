---------------------------- MODULE AggregateTx ----------------------------
(***************************************************************************)
(* The transactions that keep posts.status equal to the aggregate of the   *)
(* post's targets, statement by statement.  PublishPipeline takes each of  *)
(* them as one step; here PostgreSQL's row locks and READ COMMITTED        *)
(* visibility are modelled, so that lost updates of the aggregate and lock *)
(* cycles between the repository's functions can show.                     *)
(*                                                                         *)
(* A transaction sees its own writes and what is committed; its writes and *)
(* its locks last until it commits or rolls back.                          *)
(***************************************************************************)
EXTENDS PostStatus, Naturals, Sequences, FiniteSets

CONSTANTS
  N,        \* the post has the targets 1..N, locked in id order
  Clients,  \* database connections of workers and API handlers
  Nobody,   \* no lock holder
  Kinds     \* the kinds of transactions of this instance

ASSUME AggregateTxAssumption ==
  /\ N \in Nat \ {0}
  /\ Nobody \notin Clients
  /\ Kinds \subseteq {"claim", "transition", "lease", "publish", "cancel", "repair",
                      "disconnect", "edit"}

Targets == 1..N

VARIABLES
  status,   \* committed post_targets.status
  post,     \* committed posts.status
  queued,   \* committed: the post has a post_aggregate_repair_queue row
  edited,   \* history: posts.status was last written by handlePatchPost
  tx,       \* tx[c]: the open transaction of c
  tlock,    \* tlock[t]: holder of the row lock of target t
  plock,    \* holder of the post's row FOR UPDATE
  pshare,   \* holders of the post's row FOR KEY SHARE (foreign-key check)
  qlock     \* holder of the queue row, or its uncommitted inserter

vars == <<status, post, queued, edited, tx, tlock, plock, pshare, qlock>>
locks == <<tlock, plock, pshare, qlock>>

\* Mutant: the aggregate is resolved before the parent is locked.
PathResolvesEarly ==
  [claim      |-> <<"skipLocked", "update", "enqueue", "persist", "lockPost", "commit">>,
   transition |-> <<"lockTarget", "update", "enqueue", "persist", "lockPost", "commit">>,
   lease      |-> <<"lockPost", "update", "enqueue", "persist", "commit">>,
   publish    |-> <<"lockAll", "lockPost", "update", "enqueue", "persist", "commit">>,
   cancel     |-> <<"lockAll", "lockPost", "update", "enqueue", "persist", "commit">>,
   repair     |-> <<"lockAll", "lockPost", "lockQueue", "persist", "dequeue", "commit">>,
   disconnect |-> <<"update", "enqueue", "keyShare", "lockAll", "lockPost", "persist", "commit">>,
   edit       |-> <<"read", "writePost">>]

\* The statements of each transaction:
\*   claim       ClaimQueuedTargetWithLease, claimTargetTx
\*   transition  mutateLeasedTargetTx, updateTargetStatusTx, resetTargetAndAggregateTx,
\*               UpdateReconcileStatusWithLease, markDriveRequiredFailedTx
\*   lease       UpdateStatusWithLease, which locks the parent first
\*   publish, cancel   resetPostTargetsAndAggregateTx
\*   repair      RepairDirtyAggregatePost
\*   disconnect  cancelFutureJobsTx, which updates before it locks
\*   edit        handlePatchPost: FindByID, then PostRepository.Update
\* "enqueue" is the trigger of migration 105 on a changed status, "keyShare"
\* the foreign-key check of the queue row it inserts.
Path ==
  [claim      |-> <<"skipLocked", "lockPost", "update", "enqueue", "persist", "commit">>,
   transition |-> <<"lockTarget", "lockPost", "update", "enqueue", "persist", "commit">>,
   lease      |-> <<"lockPost", "update", "enqueue", "persist", "commit">>,
   publish    |-> <<"lockAll", "lockPost", "update", "enqueue", "persist", "commit">>,
   cancel     |-> <<"lockAll", "lockPost", "update", "enqueue", "persist", "commit">>,
   repair     |-> <<"lockAll", "lockPost", "lockQueue", "persist", "dequeue", "commit">>,
   disconnect |-> <<"update", "enqueue", "keyShare", "lockAll", "lockPost", "persist", "commit">>,
   edit       |-> <<"read", "writePost">>]

CancelKeeps == {"published", "partially_published", "failed", "dlq"}

\* The status part of the WHERE clause of each UPDATE of post_targets, and what
\* it may write.  "transition" stands for several statements whose clauses
\* differ (qMarkRetrying has no status guard at all), so it accepts every
\* status, and writes one representative of each class the resolver tells apart.
Accepts ==
  [claim |-> PendingStatuses, transition |-> PostStatuses, lease |-> {"publishing"},
   publish |-> PostStatuses, cancel |-> PostStatuses \ CancelKeeps,
   disconnect |-> PostStatuses \ CancelKeeps]
Writes ==
  [claim |-> {"publishing"}, transition |-> {"queued", "retrying", "published", "failed"},
   lease |-> {"published", "failed"}, publish |-> {"queued"}, cancel |-> {"draft"},
   disconnect |-> {"draft"}]

\* "idle": no transaction; "leaked": one that is neither committed nor rolled
\* back.  new[t] is the uncommitted status of t, agg that of the post.
Tx == [kind : DOMAIN Path \cup {"idle", "leaked"}, target : Targets, at : 1..8,
       new : [Targets -> PostStatuses \cup {"same"}], agg : PostStatuses \cup {"same"},
       queue : {"same", "insert", "delete"}]

TypeOK ==
  /\ status \in [Targets -> PostStatuses]
  /\ post \in PostStatuses
  /\ queued \in BOOLEAN /\ edited \in BOOLEAN
  /\ tx \in [Clients -> Tx]
  /\ tlock \in [Targets -> Clients \cup {Nobody}]
  /\ plock \in Clients \cup {Nobody}
  /\ pshare \subseteq Clients
  /\ qlock \in Clients \cup {Nobody}

Idle == [kind |-> "idle", target |-> 1, at |-> 1, new |-> [t \in Targets |-> "same"],
         agg |-> "same", queue |-> "same"]

Aggregate(s) == Resolve({s[t] : t \in Targets})

Init ==
  /\ \E s \in {"draft", "queued"} : status = [t \in Targets |-> s]
  /\ post = Aggregate(status)
  /\ queued = TRUE
  /\ edited = FALSE
  /\ tx = [c \in Clients |-> Idle]
  /\ tlock = [t \in Targets |-> Nobody]
  /\ plock = Nobody
  /\ pshare = {}
  /\ qlock = Nobody

-----------------------------------------------------------------------------
At(c, step) ==
  /\ tx[c].kind \in DOMAIN Path
  /\ Path[tx[c].kind][tx[c].at] = step

\* c goes on to its next statement.
Goes(c) == tx' = [tx EXCEPT ![c].at = @ + 1]

\* The statuses c reads: its own writes over what is committed.
View(c) == [t \in Targets |-> IF tx[c].new[t] = "same" THEN status[t] ELSE tx[c].new[t]]

\* The targets c's UPDATE addresses, and those its WHERE clause accepts.
Scope(c) == IF tx[c].kind \in {"publish", "cancel"} THEN Targets ELSE {tx[c].target}
Matching(c) == {t \in Scope(c) : status[t] \in Accepts[tx[c].kind]}

\* The transaction of c ends and its locks are released.
Ends(c) ==
  /\ tx' = [tx EXCEPT ![c] = Idle]
  /\ tlock' = [t \in Targets |-> IF tlock[t] = c THEN Nobody ELSE tlock[t]]
  /\ plock' = IF plock = c THEN Nobody ELSE plock
  /\ pshare' = pshare \ {c}
  /\ qlock' = IF qlock = c THEN Nobody ELSE qlock

RollsBack(c) == Ends(c) /\ UNCHANGED <<status, post, queued, edited>>

\* A client begins a transaction.
Begin(c) ==
  /\ tx[c].kind = "idle"
  /\ \E k \in Kinds, t \in Targets : tx' = [tx EXCEPT ![c] = [Idle EXCEPT !.kind = k, !.target = t]]
  /\ UNCHANGED <<status, post, queued, edited, locks>>

\* SELECT ... FOR UPDATE SKIP LOCKED: no row, no claim.
SkipLocked(c) ==
  LET t == tx[c].target IN
  /\ At(c, "skipLocked")
  /\ IF Matching(c) # {} /\ tlock[t] = Nobody
     THEN /\ tlock' = [tlock EXCEPT ![t] = c]
          /\ Goes(c)
          /\ UNCHANGED <<status, post, queued, edited, plock, pshare, qlock>>
     ELSE RollsBack(c)

\* lockTargetTx.
LockTarget(c) ==
  /\ At(c, "lockTarget")
  /\ tlock[tx[c].target] = Nobody
  /\ tlock' = [tlock EXCEPT ![tx[c].target] = c]
  /\ Goes(c)
  /\ UNCHANGED <<status, post, queued, edited, plock, pshare, qlock>>

NotLocked(c) == {t \in Targets : tlock[t] # c}

\* Mutant: the locking SELECT has no ORDER BY.
LockAllUnordered(c) ==
  /\ At(c, "lockAll")
  /\ \E t \in NotLocked(c) : tlock[t] = Nobody /\ tlock' = [tlock EXCEPT ![t] = c]
  /\ UNCHANGED <<status, post, queued, edited, tx, plock, pshare, qlock>>

\* lockTargetsForPostTx: SELECT ... ORDER BY id FOR UPDATE locks row by row.
LockAll(c) ==
  /\ At(c, "lockAll")
  /\ \E t \in NotLocked(c) :
       /\ \A u \in NotLocked(c) : t <= u
       /\ tlock[t] = Nobody
       /\ tlock' = [tlock EXCEPT ![t] = c]
  /\ UNCHANGED <<status, post, queued, edited, tx, plock, pshare, qlock>>

\* It returns with every target of the post locked.
LockedAll(c) ==
  /\ At(c, "lockAll")
  /\ NotLocked(c) = {}
  /\ Goes(c)
  /\ UNCHANGED <<status, post, queued, edited, locks>>

\* lockPostTx.
LockPost(c) ==
  /\ At(c, "lockPost")
  /\ plock = Nobody /\ pshare \subseteq {c}
  /\ plock' = c
  /\ Goes(c)
  /\ UNCHANGED <<status, post, queued, edited, tlock, pshare, qlock>>

\* The UPDATE of post_targets; it waits for rows another transaction holds.
Update(c) ==
  /\ At(c, "update")
  /\ Matching(c) # {} \/ tx[c].kind \in {"publish", "cancel"}
  /\ \A t \in Matching(c) : tlock[t] \in {c, Nobody}
  /\ tlock' = [t \in Targets |-> IF t \in Matching(c) THEN c ELSE tlock[t]]
  /\ \E s \in Writes[tx[c].kind] :
       tx' = [tx EXCEPT ![c].at = @ + 1,
                        ![c].new = [t \in Targets |-> IF t \in Matching(c) THEN s ELSE "same"]]
  /\ UNCHANGED <<status, post, queued, edited, plock, pshare, qlock>>

\* No row matches, for its status or because the lease in the WHERE clause is
\* lost: nothing is written, and UpdateStatusWithLease returns without ending
\* its transaction.
UpdateMatchesNothing(c) ==
  /\ At(c, "update")
  /\ \/ Matching(c) = {} /\ tx[c].kind \notin {"publish", "cancel"}
     \/ tx[c].kind \in {"transition", "lease"}
  /\ IF tx[c].kind = "lease"
     THEN /\ tx' = [tx EXCEPT ![c].kind = "leaked"]
          /\ UNCHANGED <<status, post, queued, edited, locks>>
     ELSE RollsBack(c)

\* INSERT ... ON CONFLICT DO NOTHING for each changed status: it waits for an
\* uncommitted insert or delete of the same queue row.
Enqueue(c) ==
  LET changed == View(c) # status IN
  /\ At(c, "enqueue")
  /\ changed => qlock \in {c, Nobody}
  /\ IF changed /\ ~queued
     THEN /\ qlock' = c
          /\ tx' = [tx EXCEPT ![c].at = @ + 1, ![c].queue = "insert"]
     ELSE Goes(c) /\ UNCHANGED qlock
  /\ UNCHANGED <<status, post, queued, edited, tlock, plock, pshare>>

\* The foreign key of a queue row inserted without holding the post.
KeyShare(c) ==
  /\ At(c, "keyShare")
  /\ tx[c].queue = "insert" => plock = Nobody
  /\ pshare' = IF tx[c].queue = "insert" THEN pshare \cup {c} ELSE pshare
  /\ Goes(c)
  /\ UNCHANGED <<status, post, queued, edited, tlock, plock, qlock>>

\* Mutant: the early return for a missing queue row does not roll back.
LockQueueLeaks(c) ==
  /\ At(c, "lockQueue")
  /\ IF queued
     THEN /\ qlock = Nobody /\ qlock' = c
          /\ Goes(c)
          /\ UNCHANGED <<status, post, queued, edited, tlock, plock, pshare>>
     ELSE /\ tx' = [tx EXCEPT ![c].kind = "leaked"]
          /\ UNCHANGED <<status, post, queued, edited, locks>>

\* qLockDirtyAggregatePost; without a queue row the repair is over.
LockQueue(c) ==
  /\ At(c, "lockQueue")
  /\ IF queued
     THEN /\ qlock = Nobody /\ qlock' = c
          /\ Goes(c)
          /\ UNCHANGED <<status, post, queued, edited, tlock, plock, pshare>>
     ELSE RollsBack(c)

\* persistAggregatePostStatusLockedTx: the SELECT takes no lock.
Persist(c) ==
  /\ At(c, "persist")
  /\ tx' = [tx EXCEPT ![c].at = @ + 1, ![c].agg = Aggregate(View(c))]
  /\ UNCHANGED <<status, post, queued, edited, locks>>

Dequeue(c) ==
  /\ At(c, "dequeue")
  /\ tx' = [tx EXCEPT ![c].at = @ + 1, ![c].queue = "delete"]
  /\ UNCHANGED <<status, post, queued, edited, locks>>

Commit(c) ==
  /\ At(c, "commit")
  /\ status' = View(c)
  /\ post' = tx[c].agg
  /\ edited' = FALSE
  /\ queued' = CASE tx[c].queue = "insert" -> TRUE
                 [] tx[c].queue = "delete" -> FALSE
                 [] OTHER -> queued
  /\ Ends(c)

\* handlePatchPost without a status in the request: FindByID's copy.
ReadPost(c) ==
  /\ At(c, "read")
  /\ tx' = [tx EXCEPT ![c].at = @ + 1, ![c].agg = post]
  /\ UNCHANGED <<status, post, queued, edited, locks>>

\* PostRepository.Update, a statement of its own.
WritePost(c) ==
  /\ At(c, "writePost")
  /\ plock = Nobody
  /\ post' = tx[c].agg
  /\ edited' = TRUE
  /\ UNCHANGED <<status, queued>>
  /\ Ends(c)

\* A statement fails or the connection is lost: the deferred Rollback.
Fail(c) == tx[c].kind \in DOMAIN Path /\ RollsBack(c)

-----------------------------------------------------------------------------
(* Who waits for whom, and PostgreSQL's deadlock detector.                 *)

\* The target rows c has to wait for before its next statement ends.
WantedTargets(c) ==
  CASE At(c, "lockTarget") -> {tx[c].target}
    [] At(c, "lockAll") -> {t \in NotLocked(c) : \A u \in NotLocked(c) : t <= u}
    [] At(c, "update") -> Matching(c)
    [] OTHER -> {}

Blockers(c) ==
  LET onPost  == IF At(c, "lockPost") THEN {plock} \cup pshare
                 ELSE IF \/ At(c, "writePost")
                         \/ At(c, "keyShare") /\ tx[c].queue = "insert" THEN {plock}
                 ELSE {}
      onQueue == IF \/ At(c, "enqueue") /\ View(c) # status
                    \/ At(c, "lockQueue") /\ queued THEN {qlock} ELSE {}
  IN  ({tlock[t] : t \in WantedTargets(c)} \cup onPost \cup onQueue) \ {c, Nobody}

\* c and others wait for each other.
WaitCycle(C) == C # {} /\ \A c \in C : Blockers(c) \cap C # {}

\* The detector ends one transaction of a cycle.
DeadlockVictim(c) ==
  /\ \E C \in SUBSET Clients : c \in C /\ WaitCycle(C)
  /\ RollsBack(c)

Step(c) ==
  \/ SkipLocked(c) \/ LockTarget(c) \/ LockAll(c) \/ LockedAll(c) \/ LockPost(c)
  \/ Update(c) \/ UpdateMatchesNothing(c) \/ Enqueue(c) \/ KeyShare(c) \/ LockQueue(c)
  \/ Persist(c) \/ Dequeue(c) \/ Commit(c) \/ ReadPost(c) \/ WritePost(c)

Next == \E c \in Clients : Begin(c) \/ Step(c) \/ Fail(c) \/ DeadlockVictim(c)

Spec == Init /\ [][Next]_vars

\* PostgreSQL queues the waiters of a row lock, so a lock that is released
\* again and again is eventually granted.
FairSpec == Spec /\ \A c \in Clients : SF_vars(Step(c))

-----------------------------------------------------------------------------
(* Properties.                                                             *)

\* The status a reader of the post sees is the aggregate of the statuses it
\* sees of the targets: no interleaving of the transactions loses an update of
\* the aggregate, although the resolver's SELECT locks nothing.
AggregateExact == ~edited => post = Aggregate(status)

\* "The repository uses target -> parent lock ordering for all target
\* transitions" (post_repo_aggregate.go): transactions wait for each other in a
\* circle only if one of them departs from that order, as UpdateStatusWithLease
\* (parent first) and cancelFutureJobsTx (updates before it locks) do.
NoWaitCycle ==
  \A C \in SUBSET Clients :
    WaitCycle(C) => \E c \in C : tx[c].kind \in {"lease", "disconnect"}

\* Every transaction that follows the order ends, and so frees its rows.
TransactionsEnd == \A c \in Clients : tx[c].kind # "idle" ~> tx[c].kind = "idle"
=============================================================================
