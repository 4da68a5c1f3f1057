------------------------- MODULE AggregateTxProofs -------------------------
(***************************************************************************)
(* AggregateExact and NoWaitCycle of AggregateTx for any number of         *)
(* targets, any set of clients and any mix of transactions, and the        *)
(* resolver's loop for any number of targets.                              *)
(*                                                                         *)
(* AggregateExact: every transaction that commits target statuses holds    *)
(* the post's row from its lockPost statement to its end (HoldsPost), and  *)
(* it resolves the aggregate after that statement and after its own        *)
(* UPDATE.  So nobody can commit between its SELECT of the statuses and    *)
(* its COMMIT, and the aggregate it computed is still that of the statuses *)
(* it leaves.                                                              *)
(***************************************************************************)
EXTENDS AggregateTx, WellFoundedInduction, TLAPS

Kind == {"claim", "transition", "lease", "publish", "cancel", "repair", "disconnect", "edit"}

\* The length of each path and the places of two of its statements.
PathLen == [claim |-> 6, transition |-> 6, lease |-> 5, publish |-> 6, cancel |-> 6,
            repair |-> 6, disconnect |-> 7, edit |-> 2]
LockPostAt == [claim |-> 2, transition |-> 2, lease |-> 1, publish |-> 2, cancel |-> 2,
               repair |-> 2, disconnect |-> 5, edit |-> 3]
PersistAt == [claim |-> 5, transition |-> 5, lease |-> 4, publish |-> 5, cancel |-> 5,
              repair |-> 4, disconnect |-> 6, edit |-> 3]

HoldsPost(c) == tx[c].kind \in Kind /\ tx[c].at > LockPostAt[tx[c].kind]
Resolved(c) == tx[c].kind \in Kind /\ tx[c].at > PersistAt[tx[c].kind]

TxInv(c) ==
  /\ tx[c].kind \in Kind => tx[c].at <= PathLen[tx[c].kind]
  /\ HoldsPost(c) => plock = c
  /\ Resolved(c) => tx[c].agg = Aggregate(View(c))
  /\ tx[c].kind = "edit" /\ tx[c].at = 2 => tx[c].agg \in PostStatuses

AggregateInv == TypeOK /\ AggregateExact /\ \A c \in Clients : TxInv(c)

\* The paths of AggregateTx are those of the seven transactions and of edit.
LEMMA PathDomain == DOMAIN Path = Kind
BY DEF Path, Kind

\* What the place of a statement in its path says.
PlaceFacts(k, i) ==
  /\ Path[k][i] \notin {"commit", "writePost"} => i + 1 <= PathLen[k]
  /\ Path[k][i] = "commit" => k # "edit" /\ i > PersistAt[k]
  /\ i = LockPostAt[k] => Path[k][i] = "lockPost"
  /\ i = PersistAt[k] => Path[k][i] = "persist"
  /\ Path[k][i] = "read" => k = "edit" /\ i = 1
  /\ Path[k][i] = "writePost" => k = "edit" /\ i = 2
  /\ Path[k][i] = "persist" => k # "edit"
  /\ Path[k][i] \in {"update", "enqueue", "skipLocked", "keyShare"} => i < PersistAt[k] /\ k # "edit"
  /\ k = "edit" => Path[k][i] \in {"read", "writePost"}
  /\ Path[k][i] = "update" => k \in Kind \ {"edit", "repair"}
  /\ PathLen[k] <= 7 /\ LockPostAt[k] <= PersistAt[k] /\ PersistAt[k] \in Nat /\ LockPostAt[k] \in Nat
  /\ PathLen[k] \in Nat /\ LockPostAt[k] >= 1

LEMMA PathPlaces ==
  ASSUME NEW k \in Kind, NEW i \in 1..PathLen[k]
  PROVE  PlaceFacts(k, i)
<1>1. CASE k = "claim"
  <2>1. i \in {1, 2, 3, 4, 5, 6} BY <1>1 DEF PathLen
  <2> QED BY <2>1, <1>1 DEF PlaceFacts, Path, PathLen, LockPostAt, PersistAt, Kind
<1>2. CASE k = "transition"
  <2>1. i \in {1, 2, 3, 4, 5, 6} BY <1>2 DEF PathLen
  <2> QED BY <2>1, <1>2 DEF PlaceFacts, Path, PathLen, LockPostAt, PersistAt, Kind
<1>3. CASE k = "lease"
  <2>1. i \in {1, 2, 3, 4, 5} BY <1>3 DEF PathLen
  <2> QED BY <2>1, <1>3 DEF PlaceFacts, Path, PathLen, LockPostAt, PersistAt, Kind
<1>4. CASE k = "publish"
  <2>1. i \in {1, 2, 3, 4, 5, 6} BY <1>4 DEF PathLen
  <2> QED BY <2>1, <1>4 DEF PlaceFacts, Path, PathLen, LockPostAt, PersistAt, Kind
<1>5. CASE k = "cancel"
  <2>1. i \in {1, 2, 3, 4, 5, 6} BY <1>5 DEF PathLen
  <2> QED BY <2>1, <1>5 DEF PlaceFacts, Path, PathLen, LockPostAt, PersistAt, Kind
<1>6. CASE k = "repair"
  <2>1. i \in {1, 2, 3, 4, 5, 6} BY <1>6 DEF PathLen
  <2> QED BY <2>1, <1>6 DEF PlaceFacts, Path, PathLen, LockPostAt, PersistAt, Kind
<1>7. CASE k = "disconnect"
  <2>1. i \in {1, 2, 3, 4, 5, 6, 7} BY <1>7 DEF PathLen
  <2> QED BY <2>1, <1>7 DEF PlaceFacts, Path, PathLen, LockPostAt, PersistAt, Kind
<1>8. CASE k = "edit"
  <2>1. i \in {1, 2} BY <1>8 DEF PathLen
  <2> QED BY <2>1, <1>8 DEF PlaceFacts, Path, PathLen, LockPostAt, PersistAt, Kind
<1> QED BY <1>1, <1>2, <1>3, <1>4, <1>5, <1>6, <1>7, <1>8 DEF Kind

\* The resolver returns a post status.
LEMMA AggregateType ==
  ASSUME NEW s \in [Targets -> PostStatuses]
  PROVE  Aggregate(s) \in PostStatuses
<1>1. {s[t] : t \in Targets} \subseteq PostStatuses
  OBVIOUS
<1> QED BY <1>1 DEF Aggregate, Resolve, PostStatuses, FailedStatuses

LEMMA IdleType == Idle \in Tx
BY AggregateTxAssumption DEF Idle, Tx, Targets, PostStatuses

LEMMA ViewType ==
  ASSUME TypeOK, NEW c \in Clients
  PROVE  View(c) \in [Targets -> PostStatuses]
BY DEF View, TypeOK, Tx

\* A client at a statement is in a transaction, at a place of its path.
LEMMA AtPlace ==
  ASSUME TypeOK, NEW c \in Clients, TxInv(c), NEW s, At(c, s)
  PROVE  /\ tx[c].kind \in Kind /\ tx[c].at \in 1..PathLen[tx[c].kind]
         /\ Path[tx[c].kind][tx[c].at] = s
         /\ PlaceFacts(tx[c].kind, tx[c].at)
<1>1. tx[c].kind \in Kind /\ Path[tx[c].kind][tx[c].at] = s
  BY PathDomain DEF At
<1>2. tx[c].at \in 1..8
  BY DEF TypeOK, Tx
<1>3. PathLen[tx[c].kind] \in 1..7
  BY <1>1 DEF Kind, PathLen
<1>4. tx[c].at \in 1..PathLen[tx[c].kind]
  BY <1>1, <1>2, <1>3 DEF TxInv
<1> QED BY <1>1, <1>4, PathPlaces

\* The steps of c that leave the statuses, the post and the other
\* transactions alone, and take the post's row from nobody.
LEMMA Frame ==
  ASSUME AggregateInv, NEW c \in Clients,
         TypeOK', TxInv(c)',
         \A d \in Clients \ {c} : tx'[d] = tx[d] /\ (plock = d => plock' = d),
         UNCHANGED <<status, post>>, edited' = edited
  PROVE  AggregateInv'
<1>1. ASSUME NEW d \in Clients \ {c} PROVE TxInv(d)'
  BY <1>1 DEF AggregateInv, TxInv, HoldsPost, Resolved, View
<1> QED BY <1>1 DEF AggregateInv, AggregateExact, Aggregate

\* The end of a transaction leaves the locks of the others.
LEMMA EndsFrame ==
  ASSUME TypeOK, NEW c \in Clients, Ends(c),
         status' \in [Targets -> PostStatuses], post' \in PostStatuses,
         queued' \in BOOLEAN, edited' \in BOOLEAN
  PROVE  /\ TypeOK' /\ TxInv(c)'
         /\ \A d \in Clients \ {c} : tx'[d] = tx[d] /\ (plock = d => plock' = d)
<1>1. tx' \in [Clients -> Tx] /\ tx'[c] = Idle /\ \A d \in Clients \ {c} : tx'[d] = tx[d]
  BY IdleType DEF TypeOK, Ends
<1>2. TypeOK'
  BY <1>1 DEF TypeOK, Ends
<1>3. TxInv(c)'
  BY <1>1 DEF TxInv, HoldsPost, Resolved, Idle, Kind
<1> QED BY <1>1, <1>2, <1>3, AggregateTxAssumption DEF Ends

LEMMA RollsBackInv ==
  ASSUME AggregateInv, NEW c \in Clients, RollsBack(c)
  PROVE  AggregateInv'
<1>1. TypeOK' /\ TxInv(c)' /\ \A d \in Clients \ {c} : tx'[d] = tx[d] /\ (plock = d => plock' = d)
  BY EndsFrame DEF RollsBack, AggregateInv, TypeOK
<1> QED BY <1>1, Frame DEF RollsBack

\* A statement that only moves c forward, and is neither the lock of the post
\* nor the SELECT of the statuses, keeps what c knows.
LEMMA MovesOn ==
  ASSUME AggregateInv, NEW c \in Clients, NEW s, At(c, s),
         s \notin {"commit", "writePost", "persist", "lockPost", "read", "update"},
         NEW q \in {"same", "insert", "delete"},
         tx' = [tx EXCEPT ![c] = [tx[c] EXCEPT !.at = tx[c].at + 1, !.queue = q]],
         plock' = plock, UNCHANGED status
  PROVE  /\ tx' \in [Clients -> Tx] /\ TxInv(c)'
         /\ \A d \in Clients \ {c} : tx'[d] = tx[d]
<1> USE DEF AggregateInv
<1>1. /\ tx[c].kind \in Kind /\ tx[c].at \in 1..PathLen[tx[c].kind]
      /\ Path[tx[c].kind][tx[c].at] = s
      /\ PlaceFacts(tx[c].kind, tx[c].at)
  BY AtPlace
<1>2. /\ tx[c].at + 1 <= PathLen[tx[c].kind] /\ PathLen[tx[c].kind] <= 7
      /\ tx[c].at # LockPostAt[tx[c].kind] /\ tx[c].at # PersistAt[tx[c].kind]
      /\ LockPostAt[tx[c].kind] \in Nat /\ PersistAt[tx[c].kind] \in Nat
      /\ tx[c].kind # "edit" /\ PathLen[tx[c].kind] \in Nat
  BY <1>1 DEF PlaceFacts
<1>3. tx[c] \in Tx
  BY DEF TypeOK
<1>4. [tx[c] EXCEPT !.at = tx[c].at + 1, !.queue = q] \in Tx
  <2> DEFINE next == tx[c].at + 1
  <2>1. next \in 1..8 BY <1>1, <1>2
  <2> HIDE DEF next
  <2>2. [tx[c] EXCEPT !.at = next, !.queue = q] \in Tx
    BY <1>3, <2>1 DEF Tx
  <2> QED BY <2>2 DEF next
<1>5. tx' \in [Clients -> Tx] /\ \A d \in Clients \ {c} : tx'[d] = tx[d]
  BY <1>4 DEF TypeOK
<1>6. /\ tx'[c].at = tx[c].at + 1 /\ tx'[c].kind = tx[c].kind
      /\ tx'[c].new = tx[c].new /\ tx'[c].agg = tx[c].agg
  BY <1>3 DEF TypeOK, Tx
<1>7. View(c)' = View(c)
  BY <1>6 DEF View
<1>8. HoldsPost(c)' => HoldsPost(c)
  BY <1>1, <1>2, <1>6 DEF HoldsPost
<1>9. Resolved(c)' => Resolved(c)
  BY <1>1, <1>2, <1>6 DEF Resolved
<1>10. TxInv(c)'
  BY <1>1, <1>2, <1>6, <1>7, <1>8, <1>9 DEF TxInv, Aggregate
<1> QED BY <1>5, <1>10

\* Goes is such a move when the queue's row is left alone.
LEMMA GoesMoves ==
  ASSUME TypeOK, NEW c \in Clients, Goes(c)
  PROVE  /\ tx[c].queue \in {"same", "insert", "delete"}
         /\ tx' = [tx EXCEPT ![c] = [tx[c] EXCEPT !.at = tx[c].at + 1, !.queue = tx[c].queue]]
<1>1. tx[c] \in Tx
  BY DEF TypeOK
<1>2. [tx[c] EXCEPT !.at = tx[c].at + 1] = [tx[c] EXCEPT !.at = tx[c].at + 1, !.queue = tx[c].queue]
  BY <1>1 DEF Tx
<1> QED BY <1>1, <1>2 DEF Goes, Tx

-----------------------------------------------------------------------------
(* One lemma per group of statements.                                      *)

LEMMA BeginInv ==
  ASSUME AggregateInv, NEW c \in Clients, Begin(c)
  PROVE  AggregateInv'
<1>1. PICK k \in Kinds, t \in Targets :
        tx' = [tx EXCEPT ![c] = [Idle EXCEPT !.kind = k, !.target = t]]
  BY DEF Begin
<1>2. k \in Kind
  BY AggregateTxAssumption DEF Kind
<1>3. [Idle EXCEPT !.kind = k, !.target = t] \in Tx
  BY <1>2, IdleType, PathDomain DEF Tx
<1>4. tx' \in [Clients -> Tx] /\ \A d \in Clients \ {c} : tx'[d] = tx[d]
  BY <1>1, <1>3 DEF AggregateInv, TypeOK
<1>5. tx'[c].kind = k /\ tx'[c].at = 1
  BY <1>1, IdleType DEF AggregateInv, TypeOK, Tx, Idle
<1>6. 1 \in 1..PathLen[k]
  BY <1>2 DEF Kind, PathLen
<1>7. PlaceFacts(k, 1)
  BY <1>2, <1>6, PathPlaces
<1>8. TxInv(c)'
  BY <1>5, <1>6, <1>7 DEF TxInv, HoldsPost, Resolved, PlaceFacts
<1>9. TypeOK'
  BY <1>4 DEF Begin, AggregateInv, TypeOK, locks
<1> QED BY <1>4, <1>8, <1>9, Frame DEF Begin, locks

\* The statements that take locks of targets, or none.
LEMMA LockingInv ==
  ASSUME AggregateInv, NEW c \in Clients,
         SkipLocked(c) \/ LockTarget(c) \/ LockAll(c) \/ LockedAll(c)
  PROVE  AggregateInv'
<1> USE DEF AggregateInv
<1>1. ASSUME NEW s \in {"skipLocked", "lockTarget", "lockAll"}, At(c, s), Goes(c),
             tlock' \in [Targets -> Clients \cup {Nobody}],
             UNCHANGED <<status, post, queued, edited, plock, pshare, qlock>>
      PROVE  AggregateInv'
  <2>1. tx' \in [Clients -> Tx] /\ TxInv(c)' /\ \A d \in Clients \ {c} : tx'[d] = tx[d]
    BY <1>1, GoesMoves, MovesOn
  <2>2. TypeOK'
    BY <1>1, <2>1 DEF TypeOK
  <2> QED BY <1>1, <2>1, <2>2, Frame
<1>2. CASE SkipLocked(c)
  <2>1. CASE Matching(c) # {} /\ tlock[tx[c].target] = Nobody
    BY <1>2, <2>1, <1>1 DEF SkipLocked, TypeOK, Tx
  <2>2. CASE ~(Matching(c) # {} /\ tlock[tx[c].target] = Nobody)
    BY <1>2, <2>2, RollsBackInv DEF SkipLocked
  <2> QED BY <2>1, <2>2
<1>3. CASE LockTarget(c)
  BY <1>3, <1>1 DEF LockTarget, TypeOK, Tx
<1>4. CASE LockAll(c)
  <2>1. PICK t \in NotLocked(c) : tlock' = [tlock EXCEPT ![t] = c]
    BY <1>4 DEF LockAll
  <2>2. tlock' \in [Targets -> Clients \cup {Nobody}]
    BY <2>1 DEF TypeOK, NotLocked
  <2>3. UNCHANGED <<status, post, queued, edited, tx, plock, pshare, qlock>>
    BY <1>4 DEF LockAll
  <2>4. TypeOK'
    BY <2>2, <2>3 DEF TypeOK
  <2>5. TxInv(c)'
    BY <2>3 DEF TxInv, HoldsPost, Resolved, View
  <2> QED BY <2>3, <2>4, <2>5, Frame
<1>5. CASE LockedAll(c)
  BY <1>5, <1>1 DEF LockedAll, TypeOK, locks
<1> QED BY <1>2, <1>3, <1>4, <1>5

\* The post's row goes to c only when nobody holds it.
LEMMA LockPostInv ==
  ASSUME AggregateInv, NEW c \in Clients, LockPost(c)
  PROVE  AggregateInv'
<1> USE DEF AggregateInv
<1>1. /\ tx[c].kind \in Kind /\ tx[c].at \in 1..PathLen[tx[c].kind]
      /\ Path[tx[c].kind][tx[c].at] = "lockPost"
      /\ PlaceFacts(tx[c].kind, tx[c].at)
  BY AtPlace DEF LockPost
<1>2. /\ tx[c].at + 1 <= PathLen[tx[c].kind] /\ PathLen[tx[c].kind] \in 0..7
      /\ tx[c].at # PersistAt[tx[c].kind] /\ PersistAt[tx[c].kind] \in Nat
      /\ tx[c].kind # "edit"
  BY <1>1 DEF PlaceFacts
<1>3. tx[c] \in Tx
  BY DEF TypeOK
<1>4. tx'[c] = [tx[c] EXCEPT !.at = tx[c].at + 1]
  BY DEF LockPost, Goes, TypeOK
<1>5. tx[c].at + 1 \in 1..8
  BY <1>1, <1>2
<1>6. tx'[c] \in Tx
  <2> DEFINE next == tx[c].at + 1
  <2> HIDE DEF next
  <2>1. [tx[c] EXCEPT !.at = next] \in Tx
    BY <1>3, <1>5 DEF Tx, next
  <2> QED BY <1>4, <2>1 DEF next
<1>7. tx' \in [Clients -> Tx] /\ \A d \in Clients \ {c} : tx'[d] = tx[d]
  BY <1>6 DEF LockPost, Goes, TypeOK
<1>8. /\ tx'[c].at = tx[c].at + 1 /\ tx'[c].kind = tx[c].kind
      /\ tx'[c].new = tx[c].new /\ tx'[c].agg = tx[c].agg
  BY <1>3, <1>4 DEF Tx
<1>9. View(c)' = View(c)
  BY <1>8 DEF View, LockPost
<1>10. Resolved(c)' => Resolved(c)
  BY <1>1, <1>2, <1>8 DEF Resolved
<1>11. TxInv(c)'
  BY <1>1, <1>2, <1>8, <1>9, <1>10 DEF TxInv, Aggregate, LockPost
<1>12. TypeOK'
  BY <1>7 DEF TypeOK, LockPost
<1> QED BY <1>7, <1>11, <1>12, Frame, AggregateTxAssumption DEF LockPost

\* The statements that concern the queue's row.
LEMMA QueueInv ==
  ASSUME AggregateInv, NEW c \in Clients,
         Enqueue(c) \/ KeyShare(c) \/ LockQueue(c) \/ Dequeue(c)
  PROVE  AggregateInv'
<1> USE DEF AggregateInv
<1>1. ASSUME NEW s \in {"enqueue", "keyShare", "lockQueue", "dequeue"}, At(c, s),
             NEW q \in {"same", "insert", "delete"},
             tx' = [tx EXCEPT ![c] = [tx[c] EXCEPT !.at = tx[c].at + 1, !.queue = q]],
             pshare' \subseteq Clients, qlock' \in Clients \cup {Nobody},
             UNCHANGED <<status, post, queued, edited, tlock, plock>>
      PROVE  AggregateInv'
  <2>1. tx' \in [Clients -> Tx] /\ TxInv(c)' /\ \A d \in Clients \ {c} : tx'[d] = tx[d]
    BY <1>1, MovesOn
  <2>2. TypeOK'
    BY <1>1, <2>1 DEF TypeOK
  <2> QED BY <1>1, <2>1, <2>2, Frame
<1>2. CASE Enqueue(c)
  <2>1. CASE View(c) # status /\ ~queued
    BY <1>2, <2>1, <1>1 DEF Enqueue, TypeOK
  <2>2. CASE ~(View(c) # status /\ ~queued)
    <3>1. Goes(c) /\ UNCHANGED <<status, post, queued, edited, tlock, plock, pshare, qlock>> /\ At(c, "enqueue")
      BY <1>2, <2>2 DEF Enqueue
    <3> QED BY <3>1, GoesMoves, <1>1 DEF TypeOK
  <2> QED BY <2>1, <2>2
<1>3. CASE KeyShare(c)
  <2>1. Goes(c) /\ At(c, "keyShare") /\ pshare' \subseteq Clients
        /\ UNCHANGED <<status, post, queued, edited, tlock, plock, qlock>>
    BY <1>3 DEF KeyShare, TypeOK
  <2> QED BY <2>1, GoesMoves, <1>1 DEF TypeOK
<1>4. CASE LockQueue(c)
  <2>1. CASE queued
    <3>1. Goes(c) /\ At(c, "lockQueue") /\ qlock' = c
          /\ UNCHANGED <<status, post, queued, edited, tlock, plock, pshare>>
      BY <1>4, <2>1 DEF LockQueue
    <3> QED BY <3>1, GoesMoves, <1>1 DEF TypeOK
  <2>2. CASE ~queued
    BY <1>4, <2>2, RollsBackInv DEF LockQueue
  <2> QED BY <2>1, <2>2
<1>5. CASE Dequeue(c)
  BY <1>5, <1>1 DEF Dequeue, TypeOK, locks
<1> QED BY <1>2, <1>3, <1>4, <1>5

\* The UPDATE comes before the aggregate is resolved.
LEMMA UpdateInv ==
  ASSUME AggregateInv, NEW c \in Clients, Update(c)
  PROVE  AggregateInv'
<1> USE DEF AggregateInv
<1>1. /\ tx[c].kind \in Kind /\ tx[c].at \in 1..PathLen[tx[c].kind]
      /\ Path[tx[c].kind][tx[c].at] = "update"
      /\ PlaceFacts(tx[c].kind, tx[c].at)
  BY AtPlace DEF Update
<1>2. /\ tx[c].at + 1 <= PathLen[tx[c].kind] /\ PathLen[tx[c].kind] \in 0..7
      /\ tx[c].at < PersistAt[tx[c].kind] /\ PersistAt[tx[c].kind] \in Nat
      /\ tx[c].at # LockPostAt[tx[c].kind] /\ LockPostAt[tx[c].kind] \in Nat
      /\ tx[c].kind \in Kind \ {"edit", "repair"}
  BY <1>1 DEF PlaceFacts
<1>3. tx[c] \in Tx
  BY DEF TypeOK
<1>4. PICK s \in Writes[tx[c].kind] :
        tx' = [tx EXCEPT ![c].at = @ + 1,
                         ![c].new = [t \in Targets |-> IF t \in Matching(c) THEN s ELSE "same"]]
  BY DEF Update
<1>5. s \in PostStatuses
  BY <1>2 DEF Writes, Kind, PostStatuses
<1> DEFINE next == tx[c].at + 1
           new == [t \in Targets |-> IF t \in Matching(c) THEN s ELSE "same"]
<1>6. next \in 1..8
  BY <1>1, <1>2
<1>7. new \in [Targets -> PostStatuses \cup {"same"}]
  BY <1>5
<1>8. tx' = [tx EXCEPT ![c] = [tx[c] EXCEPT !.at = next, !.new = new]]
  BY <1>4 DEF TypeOK
<1> HIDE DEF new
<1>9. [tx[c] EXCEPT !.at = next, !.new = new] \in Tx
  <2> HIDE DEF next
  <2> QED BY <1>3, <1>6, <1>7 DEF Tx
<1>10. tx' \in [Clients -> Tx] /\ \A d \in Clients \ {c} : tx'[d] = tx[d]
  BY <1>8, <1>9 DEF TypeOK
<1>11. tx'[c].at = tx[c].at + 1 /\ tx'[c].kind = tx[c].kind
  BY <1>3, <1>8 DEF TypeOK, Tx
<1>12. ~Resolved(c)'
  BY <1>1, <1>2, <1>11 DEF Resolved
<1>13. HoldsPost(c)' => HoldsPost(c)
  BY <1>1, <1>2, <1>11 DEF HoldsPost
<1>14. TxInv(c)'
  BY <1>1, <1>2, <1>11, <1>12, <1>13 DEF TxInv, Update
<1>15. TypeOK'
  BY <1>10 DEF TypeOK, Update
<1> QED BY <1>10, <1>14, <1>15, Frame DEF Update

LEMMA UpdateMatchesNothingInv ==
  ASSUME AggregateInv, NEW c \in Clients, UpdateMatchesNothing(c)
  PROVE  AggregateInv'
<1> USE DEF AggregateInv
<1>1. CASE tx[c].kind = "lease"
  <2>1. tx' = [tx EXCEPT ![c].kind = "leaked"] /\ UNCHANGED <<status, post, queued, edited, locks>>
    BY <1>1 DEF UpdateMatchesNothing
  <2>2. tx[c] \in Tx
    BY DEF TypeOK
  <2>3. [tx[c] EXCEPT !.kind = "leaked"] \in Tx
    BY <2>2 DEF Tx
  <2>4. tx' \in [Clients -> Tx] /\ \A d \in Clients \ {c} : tx'[d] = tx[d]
    BY <2>1, <2>3 DEF TypeOK
  <2>5. tx'[c].kind = "leaked"
    BY <2>1, <2>2 DEF TypeOK, Tx
  <2>6. TxInv(c)'
    BY <2>5 DEF TxInv, HoldsPost, Resolved, Kind
  <2>7. TypeOK'
    BY <2>1, <2>4 DEF TypeOK, locks
  <2> QED BY <2>1, <2>4, <2>6, <2>7, Frame DEF locks
<1>2. CASE tx[c].kind # "lease"
  BY <1>2, RollsBackInv DEF UpdateMatchesNothing
<1> QED BY <1>1, <1>2

\* The SELECT of the statuses: from here on the aggregate of c is exact.
LEMMA PersistInv ==
  ASSUME AggregateInv, NEW c \in Clients, Persist(c)
  PROVE  AggregateInv'
<1> USE DEF AggregateInv
<1>1. /\ tx[c].kind \in Kind /\ tx[c].at \in 1..PathLen[tx[c].kind]
      /\ Path[tx[c].kind][tx[c].at] = "persist"
      /\ PlaceFacts(tx[c].kind, tx[c].at)
  BY AtPlace DEF Persist
<1>2. /\ tx[c].at + 1 <= PathLen[tx[c].kind] /\ PathLen[tx[c].kind] \in 0..7
      /\ tx[c].at # LockPostAt[tx[c].kind] /\ LockPostAt[tx[c].kind] \in Nat
      /\ tx[c].kind # "edit"
  BY <1>1 DEF PlaceFacts
<1>3. tx[c] \in Tx
  BY DEF TypeOK
<1> DEFINE next == tx[c].at + 1
           agg == Aggregate(View(c))
<1>4. next \in 1..8
  BY <1>1, <1>2
<1>5. agg \in PostStatuses
  BY ViewType, AggregateType
<1>6. tx' = [tx EXCEPT ![c] = [tx[c] EXCEPT !.at = next, !.agg = agg]]
  BY DEF Persist, TypeOK
<1> HIDE DEF agg
<1>7. [tx[c] EXCEPT !.at = next, !.agg = agg] \in Tx
  <2> HIDE DEF next
  <2> QED BY <1>3, <1>4, <1>5 DEF Tx
<1>8. tx' \in [Clients -> Tx] /\ \A d \in Clients \ {c} : tx'[d] = tx[d]
  BY <1>6, <1>7 DEF TypeOK
<1>9. /\ tx'[c].at = tx[c].at + 1 /\ tx'[c].kind = tx[c].kind
      /\ tx'[c].new = tx[c].new /\ tx'[c].agg = agg
  BY <1>3, <1>6 DEF TypeOK, Tx
<1>10. View(c)' = View(c)
  BY <1>9 DEF View, Persist
<1>11. tx'[c].agg = Aggregate(View(c)')
  BY <1>9, <1>10 DEF agg
<1>12. HoldsPost(c)' => HoldsPost(c)
  BY <1>1, <1>2, <1>9 DEF HoldsPost
<1>13. TxInv(c)'
  BY <1>1, <1>2, <1>9, <1>11, <1>12 DEF TxInv, Persist, locks, Aggregate
<1>14. TypeOK'
  BY <1>8 DEF TypeOK, Persist, locks
<1> QED BY <1>8, <1>13, <1>14, Frame DEF Persist, locks

\* COMMIT: c holds the post's row, so no other client is past its own
\* lockPost, and the aggregate c resolved is that of what it commits.
LEMMA CommitInv ==
  ASSUME AggregateInv, NEW c \in Clients, Commit(c)
  PROVE  AggregateInv'
<1> USE DEF AggregateInv
<1>1. /\ tx[c].kind \in Kind /\ tx[c].at \in 1..PathLen[tx[c].kind]
      /\ Path[tx[c].kind][tx[c].at] = "commit"
      /\ PlaceFacts(tx[c].kind, tx[c].at)
  BY AtPlace DEF Commit
<1>2. /\ tx[c].at > PersistAt[tx[c].kind] /\ LockPostAt[tx[c].kind] <= PersistAt[tx[c].kind]
      /\ LockPostAt[tx[c].kind] \in Nat /\ PersistAt[tx[c].kind] \in Nat
  BY <1>1 DEF PlaceFacts
<1>3. plock = c /\ tx[c].agg = Aggregate(View(c))
  BY <1>1, <1>2 DEF TxInv, HoldsPost, Resolved
<1>4. View(c) \in [Targets -> PostStatuses] /\ tx[c].agg \in PostStatuses
  BY <1>3, ViewType, AggregateType
<1>5. queued' \in BOOLEAN
  BY DEF Commit, TypeOK
<1>6. TypeOK' /\ TxInv(c)' /\ \A d \in Clients \ {c} : tx'[d] = tx[d] /\ (plock = d => plock' = d)
  BY <1>4, <1>5, EndsFrame DEF Commit
<1>7. AggregateExact'
  BY <1>3 DEF AggregateExact, Aggregate, Commit
<1>8. ASSUME NEW d \in Clients \ {c} PROVE TxInv(d)'
  <2>1. ~HoldsPost(d)
    BY <1>3, <1>8 DEF TxInv
  <2>2. ~Resolved(d)
    <3>1. CASE tx[d].kind \in Kind
      <4>1. LockPostAt[tx[d].kind] <= PersistAt[tx[d].kind] /\ LockPostAt[tx[d].kind] \in Nat
            /\ PersistAt[tx[d].kind] \in Nat
        BY <3>1 DEF Kind, LockPostAt, PersistAt
      <4>2. tx[d].at \in Nat
        BY DEF TypeOK, Tx
      <4> QED BY <2>1, <3>1, <4>1, <4>2 DEF HoldsPost, Resolved
    <3> QED BY <3>1 DEF Resolved
  <2> QED BY <1>6, <1>8, <2>1, <2>2 DEF TxInv, HoldsPost, Resolved
<1> QED BY <1>6, <1>7, <1>8

\* handlePatchPost's read, and its blind write of the copy it read.
LEMMA EditInv ==
  ASSUME AggregateInv, NEW c \in Clients, ReadPost(c) \/ WritePost(c)
  PROVE  AggregateInv'
<1> USE DEF AggregateInv
<1>1. CASE ReadPost(c)
  <2>1. /\ tx[c].kind \in Kind /\ tx[c].at \in 1..PathLen[tx[c].kind]
        /\ Path[tx[c].kind][tx[c].at] = "read"
        /\ PlaceFacts(tx[c].kind, tx[c].at)
    BY <1>1, AtPlace DEF ReadPost
  <2>2. tx[c].kind = "edit" /\ tx[c].at = 1
    BY <2>1 DEF PlaceFacts
  <2>3. tx[c] \in Tx
    BY DEF TypeOK
  <2> DEFINE next == tx[c].at + 1
  <2>0. next = 2 /\ next \in 1..8 /\ post \in PostStatuses
    BY <2>2 DEF TypeOK
  <2>4. tx' = [tx EXCEPT ![c] = [tx[c] EXCEPT !.at = next, !.agg = post]]
    BY <1>1 DEF ReadPost, TypeOK
  <2> HIDE DEF next
  <2>5. [tx[c] EXCEPT !.at = next, !.agg = post] \in Tx
    BY <2>0, <2>3 DEF Tx
  <2>6. tx' \in [Clients -> Tx] /\ \A d \in Clients \ {c} : tx'[d] = tx[d]
    BY <2>4, <2>5 DEF TypeOK
  <2>7. tx'[c].at = 2 /\ tx'[c].kind = "edit" /\ tx'[c].agg = post
    BY <2>0, <2>2, <2>3, <2>4 DEF TypeOK, Tx
  <2>8. TxInv(c)'
    BY <2>7 DEF TxInv, HoldsPost, Resolved, PathLen, LockPostAt, PersistAt, TypeOK
  <2>9. TypeOK'
    BY <1>1, <2>6 DEF TypeOK, ReadPost, locks
  <2> QED BY <1>1, <2>6, <2>8, <2>9, Frame DEF ReadPost, locks
<1>2. CASE WritePost(c)
  <2>1. /\ tx[c].kind \in Kind /\ tx[c].at \in 1..PathLen[tx[c].kind]
        /\ Path[tx[c].kind][tx[c].at] = "writePost"
        /\ PlaceFacts(tx[c].kind, tx[c].at)
    BY <1>2, AtPlace DEF WritePost
  <2>2. tx[c].agg \in PostStatuses
    BY <2>1 DEF PlaceFacts, TxInv
  <2>3. TypeOK' /\ TxInv(c)' /\ \A d \in Clients \ {c} : tx'[d] = tx[d] /\ (plock = d => plock' = d)
    BY <1>2, <2>2, EndsFrame DEF WritePost, TypeOK
  <2>4. ASSUME NEW d \in Clients \ {c} PROVE TxInv(d)'
    BY <1>2, <2>3, <2>4 DEF TxInv, HoldsPost, Resolved, View, WritePost, Aggregate
  <2>5. AggregateExact'
    BY <1>2 DEF WritePost, AggregateExact
  <2> QED BY <2>3, <2>4, <2>5
<1> QED BY <1>1, <1>2

-----------------------------------------------------------------------------
LEMMA AggregateInvInit == Init => AggregateInv
<1> SUFFICES ASSUME Init PROVE AggregateInv
  OBVIOUS
<1>1. status \in [Targets -> PostStatuses]
  BY DEF Init, PostStatuses
<1>2. post \in PostStatuses
  BY <1>1, AggregateType DEF Init
<1>3. TypeOK
  BY <1>1, <1>2, IdleType DEF Init, TypeOK
<1>4. \A c \in Clients : TxInv(c)
  BY DEF Init, TxInv, HoldsPost, Resolved, Idle, Kind
<1> QED BY <1>3, <1>4 DEF AggregateInv, AggregateExact, Init

LEMMA AggregateInvNext == AggregateInv /\ [Next]_vars => AggregateInv'
<1> SUFFICES ASSUME AggregateInv, [Next]_vars PROVE AggregateInv'
  OBVIOUS
<1>1. CASE UNCHANGED vars
  BY <1>1 DEF vars, AggregateInv, TypeOK, AggregateExact, Aggregate, TxInv, HoldsPost, Resolved, View
<1>2. ASSUME NEW c \in Clients, Begin(c) \/ Step(c) \/ Fail(c) \/ DeadlockVictim(c)
      PROVE  AggregateInv'
  <2>1. CASE Begin(c)
    BY <2>1, BeginInv
  <2>2. CASE Step(c)
    BY <2>2, LockingInv, LockPostInv, UpdateInv, UpdateMatchesNothingInv, QueueInv,
       PersistInv, CommitInv, EditInv DEF Step
  <2>3. CASE Fail(c) \/ DeadlockVictim(c)
    BY <2>3, RollsBackInv DEF Fail, DeadlockVictim
  <2> QED BY <1>2, <2>1, <2>2, <2>3
<1> QED BY <1>1, <1>2 DEF Next

\* The rows, the open transactions and the lock tables keep their types.
THEOREM TxTypeCorrect == Spec => []TypeOK
<1>1. AggregateInv => TypeOK
  BY DEF AggregateInv
<1> QED BY <1>1, AggregateInvInit, AggregateInvNext, PTL DEF Spec

\* Whatever the number of targets and of connections, and however the claims,
\* transitions, resets, repairs and disconnects interleave, fail or are chosen
\* as deadlock victims, posts.status is the resolver's value of the committed
\* target statuses, unless handlePatchPost wrote it last.
THEOREM AggregateExactAlways == Spec => []AggregateExact
<1>1. AggregateInv => AggregateExact
  BY DEF AggregateInv
<1> QED BY <1>1, AggregateInvInit, AggregateInvNext, PTL DEF Spec

-----------------------------------------------------------------------------
(* Lock order.  A circle of waits among transactions that lock targets     *)
(* before their post is impossible: none of them waits while it holds the  *)
(* post, so all wait for targets, and each waits for a larger target than  *)
(* any it holds.                                                           *)

\* What a client holds, read from the place of its transaction.
WaitInv(c) ==
  /\ plock = c => HoldsPost(c) \/ tx[c].kind = "leaked"
  /\ c \in pshare => tx[c].kind = "disconnect"
  /\ qlock = c => HoldsPost(c) \/ tx[c].kind \in {"disconnect", "leaked"}
  /\ tx[c].kind = "idle" => \A t \in Targets : tlock[t] # c
  /\ tx[c].kind = "transition" /\ tx[c].at = 1 => \A t \in Targets : tlock[t] # c
  /\ tx[c].kind \in {"claim", "transition"} /\ tx[c].at > 1 => tlock[tx[c].target] = c
  /\ tx[c].kind \in {"publish", "cancel"} /\ tx[c].at > 1 => \A t \in Targets : tlock[t] = c
  /\ tx[c].kind \in {"publish", "cancel", "repair"} /\ tx[c].at = 1 =>
       \A t, u \in Targets : tlock[t] = c /\ u < t => tlock[u] = c

\* Which statements lock, and before or after which.
LockFacts(k, i) ==
  /\ i = 1 => /\ k = "claim" => Path[k][i] = "skipLocked"
              /\ k = "transition" => Path[k][i] = "lockTarget"
              /\ k \in {"publish", "cancel", "repair"} => Path[k][i] = "lockAll"
  /\ Path[k][i] = "lockTarget" => k = "transition" /\ i = 1
  /\ Path[k][i] = "lockAll" => k = "disconnect" \/ (k \in {"publish", "cancel", "repair"} /\ i = 1)
  /\ Path[k][i] \in {"enqueue", "lockQueue"} => k = "disconnect" \/ i > LockPostAt[k]
  /\ Path[k][i] = "keyShare" => k = "disconnect"
  /\ Path[k][i] = "lockPost" => i = LockPostAt[k]
  /\ Path[k][i] = "writePost" => k = "edit"
  /\ Path[k][i] = "update" => \/ k \in {"lease", "disconnect"}
                              \/ k \in {"claim", "transition", "publish", "cancel"} /\ i > 1
  /\ i > LockPostAt[k] => Path[k][i] \notin {"lockTarget", "lockAll", "lockPost", "writePost"}

LEMMA LockPlaces ==
  ASSUME NEW k \in Kind, NEW i \in 1..PathLen[k]
  PROVE  LockFacts(k, i)
<1>1. CASE k = "claim"
  <2>1. i \in {1, 2, 3, 4, 5, 6} BY <1>1 DEF PathLen
  <2> QED BY <2>1, <1>1 DEF LockFacts, Path, LockPostAt
<1>2. CASE k = "transition"
  <2>1. i \in {1, 2, 3, 4, 5, 6} BY <1>2 DEF PathLen
  <2> QED BY <2>1, <1>2 DEF LockFacts, Path, LockPostAt
<1>3. CASE k = "lease"
  <2>1. i \in {1, 2, 3, 4, 5} BY <1>3 DEF PathLen
  <2> QED BY <2>1, <1>3 DEF LockFacts, Path, LockPostAt
<1>4. CASE k = "publish"
  <2>1. i \in {1, 2, 3, 4, 5, 6} BY <1>4 DEF PathLen
  <2> QED BY <2>1, <1>4 DEF LockFacts, Path, LockPostAt
<1>5. CASE k = "cancel"
  <2>1. i \in {1, 2, 3, 4, 5, 6} BY <1>5 DEF PathLen
  <2> QED BY <2>1, <1>5 DEF LockFacts, Path, LockPostAt
<1>6. CASE k = "repair"
  <2>1. i \in {1, 2, 3, 4, 5, 6} BY <1>6 DEF PathLen
  <2> QED BY <2>1, <1>6 DEF LockFacts, Path, LockPostAt
<1>7. CASE k = "disconnect"
  <2>1. i \in {1, 2, 3, 4, 5, 6, 7} BY <1>7 DEF PathLen
  <2> QED BY <2>1, <1>7 DEF LockFacts, Path, LockPostAt
<1>8. CASE k = "edit"
  <2>1. i \in {1, 2} BY <1>8 DEF PathLen
  <2> QED BY <2>1, <1>8 DEF LockFacts, Path, LockPostAt
<1> QED BY <1>1, <1>2, <1>3, <1>4, <1>5, <1>6, <1>7, <1>8 DEF Kind

LEMMA LockPlace ==
  ASSUME AggregateInv, NEW c \in Clients, NEW s, At(c, s)
  PROVE  /\ tx[c].kind \in Kind /\ tx[c].at \in Nat /\ tx[c].at >= 1
         /\ Path[tx[c].kind][tx[c].at] = s /\ LockFacts(tx[c].kind, tx[c].at)
         /\ LockPostAt[tx[c].kind] \in Nat
<1>1. TypeOK /\ TxInv(c)
  BY DEF AggregateInv
<1>2. /\ tx[c].kind \in Kind /\ tx[c].at \in 1..PathLen[tx[c].kind]
      /\ Path[tx[c].kind][tx[c].at] = s
  BY <1>1, AtPlace
<1>3. PathLen[tx[c].kind] \in Nat /\ LockPostAt[tx[c].kind] \in Nat
  BY <1>2 DEF Kind, PathLen, LockPostAt
<1> QED BY <1>2, <1>3, LockPlaces

\* The step of c leaves the transactions and the locks of the others.
Spares(c) ==
  \A d \in Clients \ {c} :
    /\ tx'[d] = tx[d] /\ (plock' = d <=> plock = d) /\ (qlock' = d <=> qlock = d)
    /\ d \in pshare' <=> d \in pshare
    /\ \A t \in Targets : tlock'[t] = d <=> tlock[t] = d

LEMMA SparesWait ==
  ASSUME NEW c \in Clients, Spares(c), NEW d \in Clients \ {c}, WaitInv(d), TypeOK
  PROVE  WaitInv(d)'
<1>1. tx[d] \in Tx
  BY DEF TypeOK
<1>2. tx[d].target \in Targets
  BY <1>1 DEF Tx
<1> QED BY <1>2 DEF Spares, WaitInv, HoldsPost

LEMMA EndsWait ==
  ASSUME TypeOK, NEW c \in Clients, Ends(c)
  PROVE  Spares(c) /\ WaitInv(c)'
<1>1. tx'[c] = Idle /\ \A d \in Clients \ {c} : tx'[d] = tx[d]
  BY DEF Ends, TypeOK
<1>2. Spares(c)
  BY <1>1, AggregateTxAssumption DEF Ends, Spares
<1>3. plock' # c /\ c \notin pshare' /\ qlock' # c /\ \A t \in Targets : tlock'[t] # c
  BY AggregateTxAssumption DEF Ends
<1>4. tx'[c].kind = "idle"
  BY <1>1 DEF Idle
<1> QED BY <1>2, <1>3, <1>4 DEF WaitInv

LEMMA BeginWait ==
  ASSUME TypeOK, NEW c \in Clients, WaitInv(c), Begin(c)
  PROVE  Spares(c) /\ WaitInv(c)'
<1>1. PICK k \in Kinds, t \in Targets :
        tx' = [tx EXCEPT ![c] = [Idle EXCEPT !.kind = k, !.target = t]]
  BY DEF Begin
<1>2. k \in Kind
  BY AggregateTxAssumption DEF Kind
<1>3. /\ tx'[c].kind = k /\ tx'[c].at = 1 /\ \A d \in Clients \ {c} : tx'[d] = tx[d]
  BY <1>1 DEF TypeOK, Idle
<1>4. UNCHANGED <<tlock, plock, pshare, qlock>> /\ tx[c].kind = "idle"
  BY DEF Begin, locks
<1>5. plock # c /\ c \notin pshare /\ qlock # c /\ \A u \in Targets : tlock[u] # c
  BY <1>4 DEF WaitInv, HoldsPost, Kind
<1>6. Spares(c)
  BY <1>3, <1>4 DEF Spares
<1>7. WaitInv(c)'
  BY <1>2, <1>3, <1>4, <1>5 DEF WaitInv, Kind
<1> QED BY <1>6, <1>7

\* c goes on to its next statement with the locks this one takes.
LEMMA MovesWait ==
  ASSUME AggregateInv, NEW c \in Clients, WaitInv(c), NEW s, At(c, s),
         tx'[c].at = tx[c].at + 1, tx'[c].kind = tx[c].kind, tx'[c].target = tx[c].target,
         plock' = c => plock = c \/ s = "lockPost",
         c \in pshare' => c \in pshare \/ s = "keyShare",
         qlock' = c => qlock = c \/ s \in {"enqueue", "lockQueue"},
         \A t \in Targets : tlock[t] = c => tlock'[t] = c,
         s \in {"skipLocked", "lockTarget"} => tlock'[tx[c].target] = c,
         s = "lockAll" => \A t \in Targets : tlock[t] = c
  PROVE  WaitInv(c)'
<1>1. /\ tx[c].kind \in Kind /\ tx[c].at \in Nat /\ tx[c].at >= 1
      /\ Path[tx[c].kind][tx[c].at] = s /\ LockFacts(tx[c].kind, tx[c].at)
      /\ LockPostAt[tx[c].kind] \in Nat
  BY LockPlace
<1>2. tx[c].target \in Targets
  BY DEF AggregateInv, TypeOK, Tx
<1>3. HoldsPost(c) \/ s = "lockPost" => HoldsPost(c)'
  BY <1>1 DEF HoldsPost, LockFacts
<1>4. s \in {"enqueue", "lockQueue"} => HoldsPost(c)' \/ tx'[c].kind = "disconnect"
  BY <1>1 DEF HoldsPost, LockFacts
<1>5. plock' = c => HoldsPost(c)'
  BY <1>1, <1>3 DEF WaitInv, Kind
<1>6. /\ c \in pshare' => tx'[c].kind = "disconnect"
      /\ qlock' = c => HoldsPost(c)' \/ tx'[c].kind = "disconnect"
  BY <1>1, <1>3, <1>4 DEF WaitInv, LockFacts, Kind
<1>7. tx'[c].kind \in {"claim", "transition"} => tlock'[tx[c].target] = c
  BY <1>1, <1>2 DEF WaitInv, LockFacts
<1>8. tx'[c].kind \in {"publish", "cancel"} => \A t \in Targets : tlock'[t] = c
  BY <1>1 DEF WaitInv, LockFacts
<1>9. tx'[c].kind # "idle" /\ tx'[c].at # 1
  BY <1>1 DEF Kind
<1> QED BY <1>5, <1>6, <1>7, <1>8, <1>9 DEF WaitInv

LEMMA StepWait ==
  ASSUME AggregateInv, NEW c \in Clients, WaitInv(c), Step(c)
  PROVE  Spares(c) /\ WaitInv(c)'
<1>1. TypeOK /\ tx[c] \in Tx /\ tx[c].target \in Targets /\ Nobody \notin Clients
  BY AggregateTxAssumption DEF AggregateInv, TypeOK, Tx
<1>2. Goes(c) => /\ tx'[c].at = tx[c].at + 1 /\ tx'[c].kind = tx[c].kind
                 /\ tx'[c].target = tx[c].target
                 /\ \A d \in Clients \ {c} : tx'[d] = tx[d]
  BY <1>1 DEF Goes, TypeOK, Tx
<1>3. CASE SkipLocked(c) /\ ~RollsBack(c)
  <2>1. /\ At(c, "skipLocked") /\ Goes(c) /\ UNCHANGED <<plock, pshare, qlock>>
        /\ tlock[tx[c].target] = Nobody /\ tlock' = [tlock EXCEPT ![tx[c].target] = c]
    BY <1>3 DEF SkipLocked
  <2>2. /\ tlock'[tx[c].target] = c
        /\ \A t \in Targets : tlock'[t] = tlock[t] \/ (tlock[t] = Nobody /\ tlock'[t] = c)
    BY <1>1, <2>1 DEF TypeOK
  <2>3. Spares(c)
    BY <1>1, <1>2, <2>1, <2>2 DEF Spares
  <2>4. WaitInv(c)'
    BY <1>1, <1>2, <2>1, <2>2, MovesWait
  <2> QED BY <2>3, <2>4
<1>4. CASE LockTarget(c)
  <2>1. /\ At(c, "lockTarget") /\ Goes(c) /\ UNCHANGED <<plock, pshare, qlock>>
        /\ tlock[tx[c].target] = Nobody /\ tlock' = [tlock EXCEPT ![tx[c].target] = c]
    BY <1>4 DEF LockTarget
  <2>2. /\ tlock'[tx[c].target] = c
        /\ \A t \in Targets : tlock'[t] = tlock[t] \/ (tlock[t] = Nobody /\ tlock'[t] = c)
    BY <1>1, <2>1 DEF TypeOK
  <2>3. Spares(c)
    BY <1>1, <1>2, <2>1, <2>2 DEF Spares
  <2>4. WaitInv(c)'
    BY <1>1, <1>2, <2>1, <2>2, MovesWait
  <2> QED BY <2>3, <2>4
<1>5. CASE LockAll(c)
  <2>1. PICK t \in NotLocked(c) : /\ \A u \in NotLocked(c) : t <= u
                                  /\ tlock[t] = Nobody /\ tlock' = [tlock EXCEPT ![t] = c]
    BY <1>5 DEF LockAll
  <2>2. UNCHANGED <<tx, plock, pshare, qlock>> /\ At(c, "lockAll")
    BY <1>5 DEF LockAll
  <2>3. t \in Targets /\ \A u \in Targets : u < t => tlock[u] = c
    BY <2>1, AggregateTxAssumption DEF NotLocked, Targets
  <2>4. tlock'[t] = c /\ \A u \in Targets \ {t} : tlock'[u] = tlock[u]
    BY <1>1, <2>1, <2>3 DEF TypeOK
  <2>5. Spares(c)
    BY <1>1, <2>1, <2>2, <2>3, <2>4 DEF Spares
  <2>6. /\ tx[c].kind \in Kind /\ tx[c].at \in Nat /\ LockFacts(tx[c].kind, tx[c].at)
        /\ Path[tx[c].kind][tx[c].at] = "lockAll"
    BY <2>2, LockPlace
  <2>7. tx[c].kind \in {"disconnect", "publish", "cancel", "repair"}
        /\ (tx[c].kind # "disconnect" => tx[c].at = 1)
    BY <2>6 DEF LockFacts
  <2>8. tx[c].kind # "disconnect" =>
          \A u, v \in Targets : tlock'[u] = c /\ v < u => tlock'[v] = c
    <3> SUFFICES ASSUME tx[c].kind # "disconnect", NEW u \in Targets, NEW v \in Targets,
                        tlock'[u] = c, v < u
                 PROVE  tlock'[v] = c
      OBVIOUS
    <3>1. CASE u = t
      BY <2>3, <2>4, <3>1
    <3>2. CASE u # t
      BY <2>4, <2>7, <3>2 DEF WaitInv
    <3> QED BY <3>1, <3>2
  <2>9. WaitInv(c)'
    BY <2>2, <2>7, <2>8 DEF WaitInv, HoldsPost
  <2> QED BY <2>5, <2>9
<1>6. CASE LockedAll(c)
  <2>1. At(c, "lockAll") /\ Goes(c) /\ UNCHANGED <<tlock, plock, pshare, qlock>>
        /\ \A t \in Targets : tlock[t] = c
    BY <1>6 DEF LockedAll, locks, NotLocked
  <2>2. Spares(c)
    BY <1>2, <2>1 DEF Spares
  <2>3. WaitInv(c)'
    BY <1>1, <1>2, <2>1, MovesWait
  <2> QED BY <2>2, <2>3
<1>7. CASE LockPost(c)
  <2>1. /\ At(c, "lockPost") /\ Goes(c) /\ UNCHANGED <<tlock, pshare, qlock>>
        /\ plock = Nobody /\ plock' = c
    BY <1>7 DEF LockPost
  <2>2. Spares(c)
    BY <1>1, <1>2, <2>1 DEF Spares
  <2>3. WaitInv(c)'
    BY <1>1, <1>2, <2>1, MovesWait
  <2> QED BY <2>2, <2>3
<1>8. CASE Update(c)
  <2>1. /\ At(c, "update") /\ UNCHANGED <<plock, pshare, qlock>>
        /\ \A t \in Matching(c) : tlock[t] \in {c, Nobody}
        /\ tlock' = [t \in Targets |-> IF t \in Matching(c) THEN c ELSE tlock[t]]
    BY <1>8 DEF Update
  <2>2. /\ tx'[c].at = tx[c].at + 1 /\ tx'[c].kind = tx[c].kind
        /\ tx'[c].target = tx[c].target
        /\ \A d \in Clients \ {c} : tx'[d] = tx[d]
    <3>1. PICK new : tx' = [tx EXCEPT ![c].at = @ + 1, ![c].new = new]
      BY <1>8 DEF Update
    <3> QED BY <1>1, <3>1 DEF TypeOK, Tx
  <2>3. \A t \in Targets : tlock'[t] = tlock[t] \/ (tlock[t] = Nobody /\ tlock'[t] = c)
    BY <1>1, <2>1
  <2>4. Spares(c)
    BY <1>1, <2>1, <2>2, <2>3 DEF Spares
  <2>5. WaitInv(c)'
    BY <1>1, <2>1, <2>2, <2>3, MovesWait
  <2> QED BY <2>4, <2>5
<1>9. CASE UpdateMatchesNothing(c) /\ tx[c].kind = "lease"
  <2>1. tx' = [tx EXCEPT ![c].kind = "leaked"] /\ UNCHANGED <<tlock, plock, pshare, qlock>>
    BY <1>9 DEF UpdateMatchesNothing, locks
  <2>2. tx'[c].kind = "leaked" /\ \A d \in Clients \ {c} : tx'[d] = tx[d]
    BY <1>1, <2>1 DEF TypeOK, Tx
  <2>3. c \notin pshare
    BY <1>9 DEF WaitInv
  <2> QED BY <2>1, <2>2, <2>3 DEF Spares, WaitInv
<1>10. CASE Enqueue(c)
  <2>1. /\ At(c, "enqueue") /\ UNCHANGED <<tlock, plock, pshare>>
        /\ qlock' = qlock \/ (qlock' = c /\ qlock \in {c, Nobody})
    BY <1>10 DEF Enqueue
  <2>2. /\ tx'[c].at = tx[c].at + 1 /\ tx'[c].kind = tx[c].kind
        /\ tx'[c].target = tx[c].target
        /\ \A d \in Clients \ {c} : tx'[d] = tx[d]
    <3>1. Goes(c) \/ tx' = [tx EXCEPT ![c].at = @ + 1, ![c].queue = "insert"]
      BY <1>10 DEF Enqueue
    <3> QED BY <1>1, <1>2, <3>1 DEF TypeOK, Tx
  <2>3. Spares(c)
    BY <1>1, <2>1, <2>2 DEF Spares
  <2>4. WaitInv(c)'
    BY <1>1, <2>1, <2>2, MovesWait
  <2> QED BY <2>3, <2>4
<1>11. CASE KeyShare(c)
  <2>1. /\ At(c, "keyShare") /\ Goes(c) /\ UNCHANGED <<tlock, plock, qlock>>
        /\ pshare' \in {pshare, pshare \cup {c}}
    BY <1>11 DEF KeyShare
  <2>2. Spares(c)
    BY <1>2, <2>1 DEF Spares
  <2>3. WaitInv(c)'
    BY <1>1, <1>2, <2>1, MovesWait
  <2> QED BY <2>2, <2>3
<1>12. CASE LockQueue(c) /\ queued
  <2>1. /\ At(c, "lockQueue") /\ Goes(c) /\ UNCHANGED <<tlock, plock, pshare>>
        /\ qlock = Nobody /\ qlock' = c
    BY <1>12 DEF LockQueue
  <2>2. Spares(c)
    BY <1>1, <1>2, <2>1 DEF Spares
  <2>3. WaitInv(c)'
    BY <1>1, <1>2, <2>1, MovesWait
  <2> QED BY <2>2, <2>3
<1>13. CASE Persist(c) \/ Dequeue(c) \/ ReadPost(c)
  <2>1. PICK s \in {"persist", "dequeue", "read"} : At(c, s)
    BY <1>13 DEF Persist, Dequeue, ReadPost
  <2>2. UNCHANGED <<tlock, plock, pshare, qlock>>
    BY <1>13 DEF Persist, Dequeue, ReadPost, locks
  <2>3. /\ tx'[c].at = tx[c].at + 1 /\ tx'[c].kind = tx[c].kind
        /\ tx'[c].target = tx[c].target
        /\ \A d \in Clients \ {c} : tx'[d] = tx[d]
    <3>1. \/ tx' = [tx EXCEPT ![c].at = @ + 1, ![c].queue = "delete"]
          \/ \E agg : tx' = [tx EXCEPT ![c].at = @ + 1, ![c].agg = agg]
      BY <1>13 DEF Persist, Dequeue, ReadPost
    <3> QED BY <1>1, <3>1 DEF TypeOK, Tx
  <2>4. Spares(c)
    BY <2>2, <2>3 DEF Spares
  <2>5. WaitInv(c)'
    BY <1>1, <2>1, <2>2, <2>3, MovesWait
  <2> QED BY <2>4, <2>5
<1>14. CASE Ends(c)
  BY <1>1, <1>14, EndsWait
<1> QED BY <1>3, <1>4, <1>5, <1>6, <1>7, <1>8, <1>9, <1>10, <1>11, <1>12, <1>13, <1>14
        DEF Step, UpdateMatchesNothing, LockQueue, Commit, WritePost, RollsBack

LEMMA WaitNext ==
  ASSUME AggregateInv, \A c \in Clients : WaitInv(c), [Next]_vars
  PROVE  \A c \in Clients : WaitInv(c)'
<1>1. CASE UNCHANGED vars
  BY <1>1 DEF vars, WaitInv, HoldsPost
<1>2. ASSUME NEW c \in Clients, Begin(c) \/ Step(c) \/ Fail(c) \/ DeadlockVictim(c)
      PROVE  \A d \in Clients : WaitInv(d)'
  <2>1. TypeOK
    BY DEF AggregateInv
  <2>2. Fail(c) \/ DeadlockVictim(c) => Ends(c)
    BY DEF Fail, DeadlockVictim, RollsBack
  <2>3. Spares(c) /\ WaitInv(c)'
    BY <1>2, <2>1, <2>2, BeginWait, StepWait, EndsWait
  <2> QED BY <2>1, <2>3, SparesWait
<1> QED BY <1>1, <1>2 DEF Next

-----------------------------------------------------------------------------
\* A nonempty set of targets has a largest member.
LEMMA LargestTarget ==
  ASSUME NEW S, S \subseteq Targets, S # {}
  PROVE  \E m \in S : \A t \in S : t <= m
<1> DEFINE R == OpToRel(<, Nat)
           D == {n \in Nat : \E t \in S : n = N - t}
<1>1. \A t \in S : t \in Nat /\ N \in Nat /\ N - t \in Nat
  BY AggregateTxAssumption DEF Targets
<1>2. D \subseteq Nat /\ D # {}
  BY <1>1
<1>3. IsWellFoundedOn(R, Nat)
  BY NatLessThanWellFounded
<1> HIDE DEF R
<1>4. PICK x \in D : \A y \in D : ~(<<y, x>> \in R)
  BY <1>2, <1>3, WFMin
<1>5. \A y \in D : ~(y < x)
  BY <1>2, <1>4 DEF R, OpToRel
<1>6. PICK m \in S : x = N - m
  OBVIOUS
<1>7. ASSUME NEW t \in S PROVE t <= m
  <2>1. N - t \in D
    BY <1>1
  <2>2. ~(N - t < N - m)
    BY <1>5, <1>6, <2>1
  <2> QED BY <1>1, <2>2
<1> QED BY <1>7

\* Whom a client may wait for, and at which statement.
LEMMA WaitsAt ==
  ASSUME NEW c \in Clients, NEW b \in Blockers(c)
  PROVE  /\ b # c /\ b # Nobody
         /\ \/ \E t \in WantedTargets(c) : b = tlock[t]
            \/ At(c, "lockPost") /\ (b = plock \/ b \in pshare)
            \/ (At(c, "writePost") \/ At(c, "keyShare")) /\ b = plock
            \/ (At(c, "enqueue") \/ At(c, "lockQueue")) /\ b = qlock
BY DEF Blockers

LEMMA WantsAt ==
  ASSUME NEW c \in Clients, NEW t \in WantedTargets(c)
  PROVE  \/ At(c, "lockTarget") /\ t = tx[c].target
         \/ At(c, "lockAll") /\ t \in NotLocked(c) /\ \A u \in NotLocked(c) : t <= u
         \/ At(c, "update") /\ t \in Matching(c)
BY DEF WantedTargets

\* A transaction that has locked its targets first never waits in its UPDATE.
LEMMA UpdateWaitsForNone ==
  ASSUME AggregateInv, NEW c \in Clients, WaitInv(c), At(c, "update"),
         tx[c].kind \notin {"lease", "disconnect"}, NEW t \in Matching(c)
  PROVE  tlock[t] = c
<1>1. /\ tx[c].kind \in {"claim", "transition", "publish", "cancel"} /\ tx[c].at > 1
  BY LockPlace DEF LockFacts
<1>2. t \in Scope(c) /\ tx[c].target \in Targets
  BY DEF Matching, AggregateInv, TypeOK, Tx
<1> QED BY <1>1, <1>2 DEF Scope, WaitInv

LEMMA OrderedNoCycle ==
  ASSUME AggregateInv, \A c \in Clients : WaitInv(c), NEW C \in SUBSET Clients, WaitCycle(C),
         \A c \in C : tx[c].kind \notin {"lease", "disconnect"}
  PROVE  FALSE
<1>1. \A c \in C : \E b \in C : b \in Blockers(c)
  BY DEF WaitCycle
<1>2. ASSUME NEW c \in C PROVE tx[c].kind \in Kind
  <2>1. PICK b \in C : b \in Blockers(c)
    BY <1>1
  <2>2. \E s : At(c, s)
    BY <2>1, WaitsAt, WantsAt
  <2> QED BY <2>2, PathDomain DEF At
<1>3. ASSUME NEW c \in C, qlock = c PROVE plock = c
  <2>1. HoldsPost(c)
    BY <1>2, <1>3 DEF WaitInv, Kind
  <2> QED BY <2>1 DEF AggregateInv, TxInv
<1>4. ASSUME NEW c \in C PROVE plock # c
  <2> SUFFICES ASSUME plock = c PROVE FALSE
    OBVIOUS
  <2>1. HoldsPost(c)
    BY <1>2 DEF WaitInv, Kind
  <2>2. PICK b \in C : b \in Blockers(c)
    BY <1>1
  <2>3. b # c /\ ~At(c, "lockPost") /\ ~At(c, "lockTarget") /\ ~At(c, "lockAll")
    <3>1. ASSUME NEW s, At(c, s) PROVE s \notin {"lockTarget", "lockAll", "lockPost"}
      BY <2>1, <3>1, LockPlace DEF HoldsPost, LockFacts
    <3> QED BY <2>2, <3>1, WaitsAt
  <2>4. ~\E t \in WantedTargets(c) : b = tlock[t]
    BY <2>3, WantsAt, UpdateWaitsForNone
  <2>5. b = qlock \/ b = plock
    BY <2>2, <2>3, <2>4, WaitsAt
  <2> QED BY <1>3, <2>3, <2>5
<1>5. ASSUME NEW c \in C
      PROVE  \E t \in WantedTargets(c) : tlock[t] \in C \ {c}
  <2>1. PICK b \in C : b \in Blockers(c)
    BY <1>1
  <2>2. b # plock /\ b # qlock
    BY <1>3, <1>4
  <2>3. b \notin pshare
    BY DEF WaitInv
  <2> QED BY <2>1, <2>2, <2>3, WaitsAt
<1>6. ASSUME NEW c \in C, NEW t \in WantedTargets(c), tlock[t] \in C \ {c}
      PROVE  /\ t \in Targets
             /\ \/ At(c, "lockTarget")
                \/ At(c, "lockAll") /\ \A u \in NotLocked(c) : t <= u
  <2>1. t \in Targets
    BY <1>6, WantsAt DEF NotLocked, Matching, Scope, AggregateInv, TypeOK, Tx
  <2> QED BY <1>6, <2>1, WantsAt, UpdateWaitsForNone
<1> DEFINE S == {t \in Targets : \E c \in C : t \in WantedTargets(c) /\ tlock[t] \in C \ {c}}
<1>7. S # {}
  BY <1>5, <1>6 DEF WaitCycle
<1>8. PICK m \in S : \A t \in S : t <= m
  BY <1>7, LargestTarget
<1>9. PICK b \in C : tlock[m] = b
  BY <1>8
<1>10. PICK t \in WantedTargets(b) : tlock[t] \in C \ {b}
  BY <1>5
<1>11. t \in Targets /\ t \in S /\ t <= m /\ t # m
  BY <1>6, <1>8, <1>9, <1>10
<1>12. CASE At(b, "lockTarget")
  <2>1. tx[b].kind = "transition" /\ tx[b].at = 1
    BY <1>12, LockPlace DEF LockFacts
  <2> QED BY <1>9, <2>1 DEF WaitInv
<1>13. CASE At(b, "lockAll")
  <2>1. tx[b].kind \in {"publish", "cancel", "repair"} /\ tx[b].at = 1
    BY <1>13, LockPlace DEF LockFacts
  <2>2. t < m
    BY <1>11 DEF Targets
  <2>3. tlock[t] = b
    BY <1>9, <1>11, <2>1, <2>2 DEF WaitInv
  <2> QED BY <1>10, <2>3
<1> QED BY <1>6, <1>10, <1>12, <1>13

\* "Target -> parent lock ordering": for any number of targets, connections and
\* transactions of every kind, a circle of waits always goes through
\* UpdateStatusWithLease or cancelFutureJobsTx, the two that depart from the order.
THEOREM NoWaitCycleAlways == Spec => []NoWaitCycle
<1> DEFINE Inv == AggregateInv /\ \A c \in Clients : WaitInv(c)
<1>1. Init => Inv
  <2> SUFFICES ASSUME Init PROVE Inv
    OBVIOUS
  <2>1. \A c \in Clients : WaitInv(c)
    BY AggregateTxAssumption DEF Init, WaitInv, Idle
  <2> QED BY <2>1, AggregateInvInit
<1>2. Inv /\ [Next]_vars => Inv'
  BY AggregateInvNext, WaitNext
<1>3. Inv => NoWaitCycle
  BY OrderedNoCycle DEF NoWaitCycle
<1> HIDE DEF Inv
<1> QED BY <1>1, <1>2, <1>3, PTL DEF Spec

-----------------------------------------------------------------------------
(* The resolver: Resolve, which the transactions above apply to the set of *)
(* statuses, is what the loop of PostAggregateStatusResolver computes, for *)
(* posts with any number of targets visited in any order.                  *)

VARIABLES seen, flag

Loop == INSTANCE AggregateResolver

\* What each flag says of the targets visited so far: the loop invariant.
LoopInv ==
  /\ seen \subseteq Loop!PostStatuses
  /\ \A f \in Loop!AnyFlags : f \in flag <=> Loop!Raising[f] \in seen
  /\ \A f \in Loop!AllFlags : f \in flag <=> seen \subseteq Loop!Keeping[f]

\* Visiting one more target keeps the meaning of every flag.
LEMMA VisitKeepsFlags ==
  ASSUME LoopInv, NEW s \in Loop!PostStatuses, Loop!Visit(s)
  PROVE  LoopInv'
<1>1. Loop!AnyFlags \cap Loop!AllFlags = {}
  BY DEF Loop!AnyFlags, Loop!AllFlags
<1>2. seen' = seen \cup {s} /\ seen' \subseteq Loop!PostStatuses
  BY DEF Loop!Visit, LoopInv
<1>3. ASSUME NEW f \in Loop!AnyFlags PROVE f \in flag' <=> Loop!Raising[f] \in seen'
  BY <1>1, <1>2 DEF Loop!Visit, LoopInv
<1>4. ASSUME NEW f \in Loop!AllFlags PROVE f \in flag' <=> seen' \subseteq Loop!Keeping[f]
  BY <1>1, <1>2 DEF Loop!Visit, LoopInv
<1> QED BY <1>2, <1>3, <1>4 DEF LoopInv

\* The early returns, read with the meaning of the flags, are Resolve.
LEMMA FlagsDecide == LoopInv => Loop!LoopComputesResolve
<1> SUFFICES ASSUME LoopInv PROVE Loop!LoopComputesResolve
  OBVIOUS
<1>1. /\ "anyPublished" \in flag <=> "published" \in seen
      /\ "anyPartial" \in flag <=> "partially_published" \in seen
      /\ "anyPublishing" \in flag <=> "publishing" \in seen
      /\ "anyRetrying" \in flag <=> "retrying" \in seen
      /\ "anyWaitingProvider" \in flag <=> "waiting_provider" \in seen
      /\ "anyQueued" \in flag <=> "queued" \in seen
  BY DEF LoopInv, Loop!AnyFlags, Loop!Raising
<1>2. /\ "allPublished" \in flag <=> seen \subseteq {"published"}
      /\ "allDraft" \in flag <=> seen \subseteq {"draft"}
      /\ "allFailed" \in flag <=> seen \subseteq Loop!FailedStatuses
  BY DEF LoopInv, Loop!AllFlags, Loop!Keeping
<1> QED BY <1>1, <1>2 DEF Loop!LoopComputesResolve, Loop!Decision, Loop!Resolve

\* Resolve is terminal only for a set without active targets.
LEMMA ResolveWaits ==
  ASSUME NEW S \in SUBSET Loop!PostStatuses
  PROVE  /\ Loop!Resolve(S) \in Loop!TerminalStatuses =>
              S \cap (Loop!PendingStatuses \cup {"publishing"}) = {}
         /\ Loop!Resolve(S) = "published" => S = {"published"}
BY DEF Loop!Resolve, Loop!TerminalStatuses, Loop!PendingStatuses

\* The loop invariant holds whatever targets are visited.
LEMMA LoopInvariant == Loop!Spec => []LoopInv
<1>1. Loop!Init => LoopInv
  BY DEF Loop!Init, LoopInv, Loop!AnyFlags, Loop!AllFlags
<1>2. LoopInv /\ [Loop!Next]_(Loop!vars) => LoopInv'
  <2> SUFFICES ASSUME LoopInv, [Loop!Next]_(Loop!vars) PROVE LoopInv'
    OBVIOUS
  <2>1. CASE Loop!Next
    BY <2>1, VisitKeepsFlags DEF Loop!Next
  <2>2. CASE UNCHANGED Loop!vars
    BY <2>2 DEF Loop!vars, LoopInv
  <2> QED BY <2>1, <2>2
<1> QED BY <1>1, <1>2, PTL DEF Loop!Spec

\* The resolver computes the aggregate of the set of statuses, for any number
\* of targets in any order.
THEOREM LoopIsResolve == Loop!Spec => []Loop!LoopComputesResolve
BY LoopInvariant, FlagsDecide, PTL

\* The parent of any post is terminal only when no target is active, and
\* published only when every target is.
THEOREM ParentWaits == Loop!Spec => []Loop!ParentWaitsForTargets
<1>1. LoopInv => Loop!ParentWaitsForTargets
  BY FlagsDecide, ResolveWaits
     DEF LoopInv, Loop!LoopComputesResolve, Loop!ParentWaitsForTargets
<1> QED BY <1>1, LoopInvariant, PTL
=============================================================================
