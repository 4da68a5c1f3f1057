----------------------- MODULE ExternalDeliveryProofs -----------------------
(***************************************************************************)
(* The safety properties of ExternalDelivery for any requests, keys,       *)
(* downloaders, budgets and faults.                                        *)
(***************************************************************************)
EXTENDS ExternalDelivery, FiniteSetTheorems, TLAPS

Present(r) == row[r].status # "none"

\* The handler holds its key's lock from the lookup to its answer.
Locking(r) == req[r].pc \in {"locked", "absent"}

\* A downloader works on row d.
On(w, d) == run[w].pc # "idle" /\ run[w].d = d

LEMMA IdleRunType == IdleRun \in Run /\ IdleRun.pc = "idle"
<1>1. (CHOOSE r \in Requests : TRUE) \in Requests
  BY ExternalAssumption
<1> QED BY <1>1 DEF IdleRun, Run

LEMMA KeyType == \A r \in Requests : Key[r] \in Keys
BY DEF Keys

-----------------------------------------------------------------------------
(* Types.                                                                  *)

LEMMA TypeInit == Init => TypeOK
<1> SUFFICES ASSUME Init PROVE TypeOK
  OBVIOUS
<1>1. NoRow \in Row /\ NoRow.owner = NoOne
  BY DEF NoRow, Row, Statuses, Claimed
<1> QED BY <1>1, IdleRunType, ExternalAssumption DEF Init, TypeOK, Handler

\* One row changes: what the new row must satisfy.
LEMMA RowType ==
  ASSUME TypeOK, NEW d \in Requests, NEW x \in Row, x.status \notin Claimed => x.owner = NoOne,
         row' = [row EXCEPT ![d] = x]
  PROVE  /\ row' \in [Requests -> Row]
         /\ \A r \in Requests : row'[r].status \notin Claimed => row'[r].owner = NoOne
         /\ row'[d] = x /\ \A e \in Requests \ {d} : row'[e] = row[e]
BY DEF TypeOK

LEMMA AnswerType ==
  ASSUME TypeOK, NEW r \in Requests, NEW pc \in {"accepted", "conflict", "error"},
         NEW id \in Requests \cup {NoOne}, Answer(r, pc, id)
  PROVE  /\ req' \in [Requests -> Handler] /\ lock' \in [Keys -> Requests \cup {NoOne}]
         /\ req'[r] = [pc |-> pc, id |-> id]
         /\ \A q \in Requests \ {r} : req'[q] = req[q]
         /\ \A k \in Keys : lock'[k] = IF k = Key[r] /\ lock[k] = r THEN NoOne ELSE lock[k]
BY KeyType DEF Answer, TypeOK, Handler

\* What each step of a handler does.
LEMMA HandlerStep ==
  ASSUME TypeOK, NEW r \in Requests, Handle(r) \/ RequestFails(r)
  PROVE  /\ req' \in [Requests -> Handler] /\ lock' \in [Keys -> Requests \cup {NoOne}]
         /\ \A q \in Requests \ {r} : req'[q] = req[q]
         /\ row' \in [Requests -> Row]
         /\ row' = row \/ (InsertRow(r) /\ Unique(r) /\ row' = [row EXCEPT ![r].status = "accepted"])
         /\ UNCHANGED <<run, jobs, gone, losses>>
<1>0. req[r] \in Handler /\ row[r] \in Row
  BY DEF TypeOK
<1>1. CASE InsertLock(r)
  BY <1>0, <1>1, KeyType DEF InsertLock, TypeOK, Handler
<1>2. CASE InsertLookup(r)
  <2>1. CASE req' = [req EXCEPT ![r].pc = "absent"] /\ UNCHANGED lock
    BY <1>0, <1>2, <2>1 DEF InsertLookup, TypeOK, Handler
  <2>2. CASE \E pc \in {"accepted", "conflict"}, id \in Requests : Answer(r, pc, id)
    <3>1. PICK pc \in {"accepted", "conflict"}, id \in Requests : Answer(r, pc, id)
      BY <2>2
    <3>2. row' = row /\ UNCHANGED <<run, jobs, gone, losses>>
      BY <1>2 DEF InsertLookup
    <3> QED BY <3>1, <3>2, AnswerType DEF TypeOK
  <2> QED BY <1>2, <2>1, <2>2 DEF InsertLookup
<1>3. CASE InsertRow(r)
  <2>1. [row[r] EXCEPT !.status = "accepted"] \in Row
    BY <1>0 DEF Row, Statuses, Claimed
  <2>2. row' \in [Requests -> Row]
    BY <1>3, <2>1 DEF InsertRow, TypeOK
  <2>3. \E pc \in {"accepted", "conflict", "error"}, id \in Requests \cup {NoOne} : Answer(r, pc, id)
    BY <1>3 DEF InsertRow
  <2> QED BY <1>3, <2>2, <2>3, AnswerType DEF InsertRow
<1>4. CASE RequestFails(r)
  BY <1>4, AnswerType DEF RequestFails, TypeOK
<1> QED BY <1>1, <1>2, <1>3, <1>4 DEF Handle

\* What each step of a downloader, or of the time and the user, does to the rows:
\* it writes one row at most, and the owner column stays on claimable rows.
RowWrite(d, x) ==
  /\ x \in Row /\ (x.status \notin Claimed => x.owner = NoOne)
  /\ row' = [row EXCEPT ![d] = x]

LEMMA ClaimWrite ==
  ASSUME TypeOK, NEW w \in Workers, NEW d \in Requests, ClaimDelivery(w, d)
  PROVE  /\ RowWrite(d, [row[d] EXCEPT !.owner = w, !.live = TRUE, !.att = row[d].att + 1])
         /\ run' \in [Workers -> Run]
<1>1. row[d] \in Row /\ row[d].att + 1 \in Nat /\ row[d].status \in Claimed
  BY DEF TypeOK, Row, ClaimDelivery, Claimable
<1>2. [row[d] EXCEPT !.owner = w, !.live = TRUE, !.att = row[d].att + 1] \in Row
  BY <1>1 DEF Row
<1>3. row' = [row EXCEPT ![d] = [row[d] EXCEPT !.owner = w, !.live = TRUE, !.att = row[d].att + 1]]
  BY <1>1 DEF ClaimDelivery, TypeOK, Row
<1>4. run' \in [Workers -> Run]
  BY <1>1 DEF ClaimDelivery, TypeOK, Run
<1> QED BY <1>1, <1>2, <1>3, <1>4 DEF RowWrite, Row

LEMMA LinkedWrite ==
  ASSUME TypeOK, NEW d \in Requests, row' = [row EXCEPT ![d] = Linked(d)]
  PROVE  RowWrite(d, Linked(d))
<1>1. row[d] \in Row
  BY DEF TypeOK
<1>2. Linked(d) \in Row /\ Linked(d).owner = NoOne
  BY <1>1 DEF Linked, Row, Statuses
<1> QED BY <1>2 DEF RowWrite

LEMMA MarkWrite ==
  ASSUME TypeOK, NEW w \in Workers, Mark(w)
  PROVE  run[w].d \in Requests /\ RowWrite(run[w].d, Marked(w))
<1>1. run[w] \in Run /\ run[w].d \in Requests /\ row[run[w].d] \in Row
  BY DEF TypeOK, Run
<1>2. run[w].pc \in {"retry_wait", "failed", "blocked_auth", "dead_letter"}
  BY <1>1 DEF Mark, Run
<1>3. Marked(w) \in Row /\ Marked(w).owner = NoOne
  BY <1>1, <1>2 DEF Marked, Row, Statuses, Claimed
<1> QED BY <1>1, <1>3 DEF Mark, RowWrite

LEMMA ExpiryWrite ==
  ASSUME TypeOK, NEW d \in Requests, LeaseRunsOut(d) \/ Stall(d)
  PROVE  RowWrite(d, [row[d] EXCEPT !.live = FALSE])
<1>1. row[d] \in Row
  BY DEF TypeOK
<1> QED BY <1>1 DEF RowWrite, LeaseRunsOut, Stall, TypeOK, Row

LEMMA BackoffWrite ==
  ASSUME TypeOK, NEW d \in Requests, BackoffEnds(d)
  PROVE  RowWrite(d, [row[d] EXCEPT !.due = TRUE])
<1>1. row[d] \in Row
  BY DEF TypeOK
<1> QED BY <1>1 DEF RowWrite, BackoffEnds, TypeOK, Row

LEMMA CancelWrite ==
  ASSUME TypeOK, NEW d \in Requests, CancelUpload(d)
  PROVE  RowWrite(d, [row[d] EXCEPT !.linked = FALSE])
<1>1. row[d] \in Row
  BY DEF TypeOK
<1> QED BY <1>1 DEF RowWrite, CancelUpload, TypeOK, Row

\* The run of a downloader that goes on, or rests.
LEMMA RunType ==
  ASSUME TypeOK, NEW w \in Workers,
         \/ run' = [run EXCEPT ![w] = IdleRun]
         \/ \E pc \in {"retry_wait", "failed", "blocked_auth", "dead_letter"} : Goes(w, pc)
  PROVE  /\ run' \in [Workers -> Run]
         /\ \A v \in Workers \ {w} : run'[v] = run[v]
BY IdleRunType DEF TypeOK, Goes, Run

LEMMA LoseType ==
  ASSUME TypeOK, NEW d \in Requests, Lose(d)
  PROVE  /\ losses' \in [Requests -> 0..MaxLosses]
         /\ losses'[d] = losses[d] + 1
         /\ \A e \in Requests \ {d} : losses'[e] = losses[e]
BY ExternalAssumption DEF Lose, TypeOK

LEMMA TypeNext == TypeOK /\ [Next]_vars => TypeOK'
<1> SUFFICES ASSUME TypeOK, [Next]_vars PROVE TypeOK'
  OBVIOUS
<1>1. CASE UNCHANGED vars
  BY <1>1 DEF vars, TypeOK
<1>2. ASSUME NEW r \in Requests, Handle(r) \/ RequestFails(r) PROVE TypeOK'
  <2>1. \A q \in Requests : row'[q].status \notin Claimed => row'[q].owner = NoOne
    <3>1. CASE row' = row
      BY <3>1 DEF TypeOK
    <3>2. CASE row' = [row EXCEPT ![r].status = "accepted"]
      <4>1. row[r] \in Row /\ "accepted" \in Claimed
        BY DEF TypeOK, Claimed
      <4>2. row'[r].status = "accepted" /\ \A q \in Requests \ {r} : row'[q] = row[q]
        BY <3>2, <4>1 DEF TypeOK, Row
      <4> QED BY <4>1, <4>2 DEF TypeOK
    <3> QED BY <1>2, <3>1, <3>2, HandlerStep
  <2> QED BY <1>2, <2>1, HandlerStep DEF TypeOK
<1>3. ASSUME NEW r \in Requests, LeaseRunsOut(r) \/ Stall(r) \/ BackoffEnds(r) \/ CancelUpload(r)
      PROVE  TypeOK'
  <2>1. \E x : RowWrite(r, x)
    BY <1>3, ExpiryWrite, BackoffWrite, CancelWrite
  <2>2. losses' \in [Requests -> 0..MaxLosses] /\ gone' \in [Requests -> Nat]
    BY <1>3, LoseType DEF LeaseRunsOut, Stall, BackoffEnds, CancelUpload, TypeOK
  <2> QED BY <1>3, <2>1, <2>2, RowType
          DEF RowWrite, LeaseRunsOut, Stall, BackoffEnds, CancelUpload, TypeOK
<1>4. ASSUME NEW w \in Workers, NEW r \in Requests, ClaimDelivery(w, r) PROVE TypeOK'
  BY <1>4, ClaimWrite, RowType DEF RowWrite, ClaimDelivery, TypeOK
<1>5. ASSUME NEW w \in Workers, ProcessFails(w) PROVE TypeOK'
  <2>1. \E pc \in {"retry_wait", "failed", "blocked_auth", "dead_letter"} : Goes(w, pc)
    BY <1>5 DEF ProcessFails, Retry
  <2> QED BY <1>5, <2>1, RunType DEF ProcessFails, TypeOK
<1>6. ASSUME NEW w \in Workers, CreateUploadJobAndLink(w) PROVE TypeOK'
  <2>1. run[w].d \in Requests
    BY DEF TypeOK, Run
  <2>2. run' \in [Workers -> Run]
    BY <1>6, RunType DEF CreateUploadJobAndLink, Retry
  <2>3. losses' \in [Requests -> 0..MaxLosses] /\ jobs' \in [Requests -> Nat]
    BY <1>6, <2>1, LoseType DEF CreateUploadJobAndLink, TypeOK
  <2>4. row' = row \/ RowWrite(run[w].d, Linked(run[w].d))
    BY <1>6, <2>1, LinkedWrite DEF CreateUploadJobAndLink
  <2> QED BY <1>6, <2>1, <2>2, <2>3, <2>4, RowType DEF RowWrite, CreateUploadJobAndLink, TypeOK
<1>7. ASSUME NEW w \in Workers, Mark(w) PROVE TypeOK'
  BY <1>7, MarkWrite, RowType, RunType DEF RowWrite, Mark, TypeOK
<1>8. ASSUME NEW w \in Workers, MarkFails(w) \/ Crash(w) PROVE TypeOK'
  <2>1. run[w].d \in Requests
    BY DEF TypeOK, Run
  <2> QED BY <1>8, <2>1, LoseType, RunType DEF MarkFails, Crash, TypeOK
<1> QED BY <1>1, <1>2, <1>3, <1>4, <1>5, <1>6, <1>7, <1>8 DEF Next, Process

LEMMA TypeAlways == Spec => []TypeOK
BY TypeInit, TypeNext, PTL DEF Spec

\* The rows, the requests and the locks keep the types the columns give them,
\* whatever the handlers, the downloaders and their faults do; the owner column is
\* set on a claimable row only.
THEOREM ExternalTypeCorrect == Spec => []TypeOK
BY TypeAlways

-----------------------------------------------------------------------------
(* The answers.  The advisory lock of a key is held from the lookup to the *)
(* answer, so "no row with this key" stays true until the INSERT; the      *)
(* second UNIQUE constraint decides what the lock does not cover.          *)

\* Row x stands in the way of r: its key with another body, or its name under
\* another key.
Refusal(x, r) ==
  \/ Key[x] = Key[r] /\ Body[x] # Body[r]
  \/ Ext[x] = Ext[r] /\ Key[x] # Key[r]

LockInv ==
  /\ \A r \in Requests : Locking(r) => lock[Key[r]] = r
  /\ \A q, r \in Requests : req[r].pc = "absent" /\ Present(q) => Key[q] # Key[r]

UniqueInv ==
  \A q, r \in Requests :
    Present(q) /\ Present(r) /\ (Key[q] = Key[r] \/ Ext[q] = Ext[r]) => q = r

Answered(r) ==
  /\ req[r].pc = "accepted" =>
       /\ req[r].id \in Requests /\ Present(req[r].id)
       /\ Key[req[r].id] = Key[r] /\ Body[req[r].id] = Body[r]
  /\ req[r].pc = "conflict" => \E x \in Requests : Present(x) /\ Refusal(x, r)

KeyInv == LockInv /\ UniqueInv /\ \A r \in Requests : Answered(r)

\* The work on one row: who is on it, and what its upload jobs are.
OnPresent == \A d \in Requests, w \in Workers : On(w, d) => Present(d)

LEMMA PresentType == ASSUME TypeOK, NEW r \in Requests PROVE Unique(r) => ~Present(r)
BY DEF Unique, Present

\* Rows are inserted and never deleted.
LEMMA PresentGrows ==
  ASSUME TypeOK, NEW r \in Requests, Handle(r) \/ RequestFails(r)
  PROVE  \A q \in Requests : Present(q) => Present(q)'
<1>1. CASE row' = row
  BY <1>1 DEF Present
<1>2. CASE row' = [row EXCEPT ![r].status = "accepted"]
  <2>1. row[r] \in Row
    BY DEF TypeOK
  <2>2. row'[r].status = "accepted" /\ \A q \in Requests \ {r} : row'[q] = row[q]
    BY <1>2, <2>1 DEF TypeOK, Row
  <2> QED BY <2>2 DEF Present
<1> QED BY <1>1, <1>2, HandlerStep

LEMMA PresentStays ==
  ASSUME TypeOK, OnPresent, NEW d \in Requests, NEW x, RowWrite(d, x),
         x.status # "none" <=> row[d].status # "none"
  PROVE  \A q \in Requests : Present(q) <=> Present(q)'
BY RowType DEF RowWrite, Present

\* Another request's answer and the locks of other requests are left alone.
LEMMA OthersKept ==
  ASSUME TypeOK, KeyInv, NEW r \in Requests, Handle(r) \/ RequestFails(r)
  PROVE  /\ \A q \in Requests \ {r} : Answered(q)'
         /\ \A q \in Requests \ {r} : Locking(q)' => lock'[Key[q]] = q
<1>1. /\ \A q \in Requests \ {r} : req'[q] = req[q]
      /\ \A q \in Requests : Present(q) => Present(q)'
  BY HandlerStep, PresentGrows
<1>2. \A q \in Requests \ {r} : Answered(q)'
  BY <1>1 DEF KeyInv, Answered
<1>3. \A k \in Keys : lock[k] # NoOne /\ lock[k] # r => lock'[k] = lock[k]
  <2>1. CASE InsertLock(r)
    BY <2>1, KeyType DEF InsertLock, TypeOK
  <2>2. CASE lock' = lock
    BY <2>2
  <2>3. CASE \E pc, id : Answer(r, pc, id)
    BY <2>3, KeyType DEF Answer, TypeOK
  <2> QED BY <2>1, <2>2, <2>3 DEF Handle, InsertLookup, InsertRow, RequestFails
<1>4. \A q \in Requests \ {r} : Locking(q)' => lock'[Key[q]] = q
  <2> TAKE q \in Requests \ {r}
  <2> HAVE Locking(q)'
  <2>1. Locking(q)
    BY <1>1 DEF Locking
  <2>2. lock[Key[q]] = q /\ Key[q] \in Keys /\ q # NoOne
    BY <2>1, KeyType, ExternalAssumption DEF KeyInv, LockInv
  <2> QED BY <1>3, <2>2
<1> QED BY <1>2, <1>4

\* A step that answers: the lock goes, and the answer is what Insert found.
LEMMA AnswerKeeps ==
  ASSUME TypeOK, KeyInv, NEW r \in Requests, NEW pc \in {"accepted", "conflict", "error"},
         NEW id \in Requests \cup {NoOne}, Answer(r, pc, id), Handle(r) \/ RequestFails(r),
         pc = "accepted" =>
           id \in Requests /\ Present(id)' /\ Key[id] = Key[r] /\ Body[id] = Body[r],
         pc = "conflict" => \E x \in Requests : Present(x)' /\ Refusal(x, r)
  PROVE  /\ \A q \in Requests : Answered(q)'
         /\ \A q \in Requests : Locking(q)' => lock'[Key[q]] = q
<1>0. req'[r] = [pc |-> pc, id |-> id]
  BY AnswerType
<1>1. req'[r].pc = pc /\ req'[r].id = id
  BY <1>0
<1>2. Answered(r)' /\ ~Locking(r)'
  BY <1>1 DEF Answered, Locking
<1> QED BY <1>2, OthersKept

\* Until r itself inserts, the rows stay as they are.
LEMMA SameRows ==
  ASSUME KeyInv, row' = row
  PROVE  UniqueInv'
BY DEF KeyInv, UniqueInv, Present

LEMMA LockKeeps ==
  ASSUME TypeOK, KeyInv, NEW r \in Requests, InsertLock(r)
  PROVE  KeyInv'
<1>1. req[r] \in Handler /\ Handle(r) /\ row' = row
  BY DEF TypeOK, InsertLock, Handle
<1>2. req'[r].pc = "locked" /\ lock'[Key[r]] = r /\ \A q \in Requests \ {r} : req'[q] = req[q]
  BY <1>1, KeyType DEF InsertLock, TypeOK, Handler
<1>3. Answered(r)' /\ \A q \in Requests : Answered(q)'
  BY <1>1, <1>2, OthersKept DEF Answered
<1>4. \A q \in Requests : Locking(q)' => lock'[Key[q]] = q
  BY <1>1, <1>2, OthersKept
<1>5. \A p, q \in Requests : req'[q].pc = "absent" /\ Present(p)' => Key[p] # Key[q]
  BY <1>1, <1>2 DEF KeyInv, LockInv, Present
<1> QED BY <1>1, <1>3, <1>4, <1>5, SameRows DEF KeyInv, LockInv

LEMMA LookupKeeps ==
  ASSUME TypeOK, KeyInv, NEW r \in Requests, InsertLookup(r)
  PROVE  KeyInv'
<1>1. req[r] \in Handler /\ Handle(r) /\ row' = row /\ req[r].pc = "locked"
  BY DEF TypeOK, InsertLookup, Handle
<1>2. \A q \in Requests \ {r} : req'[q] = req[q]
  BY <1>1, HandlerStep
<1>3. CASE /\ req' = [req EXCEPT ![r].pc = "absent"] /\ UNCHANGED lock
           /\ {q \in Requests : row[q].status # "none" /\ Key[q] = Key[r]} = {}
  <2>1. req'[r].pc = "absent" /\ lock'[Key[r]] = r
    BY <1>1, <1>3 DEF TypeOK, Handler, KeyInv, LockInv, Locking
  <2>2. \A q \in Requests : Answered(q)'
    BY <1>1, <2>1, OthersKept DEF Answered
  <2>3. \A q \in Requests : Locking(q)' => lock'[Key[q]] = q
    BY <1>1, <2>1, OthersKept
  <2>4. \A p, q \in Requests : req'[q].pc = "absent" /\ Present(p)' => Key[p] # Key[q]
    BY <1>1, <1>2, <1>3 DEF KeyInv, LockInv, Present
  <2> QED BY <1>1, <2>2, <2>3, <2>4, SameRows DEF KeyInv, LockInv
<1>4. CASE \E q \in Requests : /\ row[q].status # "none" /\ Key[q] = Key[r]
                               /\ \/ Body[q] = Body[r] /\ Answer(r, "accepted", q)
                                  \/ Body[q] # Body[r] /\ Answer(r, "conflict", q)
  <2>1. PICK q \in Requests : /\ row[q].status # "none" /\ Key[q] = Key[r]
                              /\ \/ Body[q] = Body[r] /\ Answer(r, "accepted", q)
                                 \/ Body[q] # Body[r] /\ Answer(r, "conflict", q)
    BY <1>4
  <2>2. Present(q)'
    BY <1>1, <2>1 DEF Present
  <2>3. /\ \A p \in Requests : Answered(p)'
        /\ \A p \in Requests : Locking(p)' => lock'[Key[p]] = p
    <3>1. CASE Body[q] = Body[r] /\ Answer(r, "accepted", q)
      BY <1>1, <2>1, <2>2, <3>1, AnswerKeeps
    <3>2. CASE Body[q] # Body[r] /\ Answer(r, "conflict", q)
      <4>1. Refusal(q, r)
        BY <2>1, <3>2 DEF Refusal
      <4> QED BY <1>1, <2>2, <3>2, <4>1, AnswerKeeps
    <3> QED BY <2>1, <3>1, <3>2
  <2>4. req'[r].pc # "absent"
    BY <2>1 DEF Answer, TypeOK
  <2>5. \A o, p \in Requests : req'[p].pc = "absent" /\ Present(o)' => Key[o] # Key[p]
    BY <1>1, <1>2, <2>4 DEF KeyInv, LockInv, Present
  <2> QED BY <1>1, <2>3, <2>5, SameRows DEF KeyInv, LockInv
<1> QED BY <1>3, <1>4 DEF InsertLookup

LEMMA FailKeeps ==
  ASSUME TypeOK, KeyInv, NEW r \in Requests, RequestFails(r)
  PROVE  KeyInv'
<1>1. row' = row /\ Answer(r, "error", NoOne)
  BY DEF RequestFails
<1>2. req'[r].pc # "absent" /\ \A q \in Requests \ {r} : req'[q] = req[q]
  BY <1>1 DEF Answer, TypeOK
<1>3. /\ \A q \in Requests : Answered(q)'
      /\ \A q \in Requests : Locking(q)' => lock'[Key[q]] = q
  BY <1>1, AnswerKeeps
<1>4. \A p, q \in Requests : req'[q].pc = "absent" /\ Present(p)' => Key[p] # Key[q]
  BY <1>1, <1>2 DEF KeyInv, LockInv, Present
<1> QED BY <1>1, <1>3, <1>4, SameRows DEF KeyInv, LockInv

\* The INSERT: nobody else is between the lookup and the answer for this key.
LEMMA InsertKeeps ==
  ASSUME TypeOK, KeyInv, NEW r \in Requests, InsertRow(r)
  PROVE  KeyInv'
<1>1. /\ req[r] \in Handler /\ row[r] \in Row /\ Handle(r) /\ req[r].pc = "absent"
      /\ lock[Key[r]] = r
  BY DEF TypeOK, InsertRow, Handle, KeyInv, LockInv, Locking
<1>2. \A q \in Requests \ {r} : req'[q] = req[q]
  BY <1>1, HandlerStep
<1>3. \A q \in Requests : Key[q] = Key[r] => ~Present(q)
  BY <1>1 DEF KeyInv, LockInv
<1>4. CASE ~Unique(r)
  <2>1. row' = row /\ Answer(r, "conflict", NoOne)
    BY <1>4 DEF InsertRow
  <2>2. PICK x \in Requests : Present(x) /\ (Key[x] = Key[r] \/ Ext[x] = Ext[r])
    BY <1>4 DEF Unique, Present
  <2>3. Present(x)' /\ Refusal(x, r)
    BY <1>3, <2>1, <2>2 DEF Refusal, Present
  <2>4. /\ \A q \in Requests : Answered(q)'
        /\ \A q \in Requests : Locking(q)' => lock'[Key[q]] = q
    BY <1>1, <2>1, <2>3, AnswerKeeps
  <2>5. req'[r].pc # "absent"
    BY <2>1 DEF Answer, TypeOK
  <2>6. \A p, q \in Requests : req'[q].pc = "absent" /\ Present(p)' => Key[p] # Key[q]
    BY <1>2, <2>1, <2>5 DEF KeyInv, LockInv, Present
  <2> QED BY <2>1, <2>4, <2>6, SameRows DEF KeyInv, LockInv
<1>5. CASE Unique(r)
  <2>1. row' = [row EXCEPT ![r].status = "accepted"]
    BY <1>5 DEF InsertRow
  <2>2. row'[r].status = "accepted" /\ \A q \in Requests \ {r} : row'[q] = row[q]
    BY <1>1, <2>1 DEF TypeOK, Row
  <2>3. Present(r)' /\ \A q \in Requests \ {r} : Present(q)' <=> Present(q)
    BY <2>2 DEF Present
  <2>4. Answer(r, "accepted", r) \/ Answer(r, "error", NoOne)
    BY <1>5 DEF InsertRow
  <2>5. /\ \A q \in Requests : Answered(q)'
        /\ \A q \in Requests : Locking(q)' => lock'[Key[q]] = q
    BY <1>1, <2>3, <2>4, AnswerKeeps
  <2>6. req'[r].pc # "absent"
    BY <2>4 DEF Answer, TypeOK
  <2>7. \A q \in Requests : req'[q].pc = "absent" => Key[q] # Key[r]
    <3> TAKE q \in Requests
    <3> HAVE req'[q].pc = "absent"
    <3>1. q # r /\ req[q].pc = "absent"
      BY <1>2, <2>6
    <3>2. lock[Key[q]] = q
      BY <3>1 DEF KeyInv, LockInv, Locking
    <3> QED BY <1>1, <3>1, <3>2
  <2>8. \A p, q \in Requests : req'[q].pc = "absent" /\ Present(p)' => Key[p] # Key[q]
    BY <1>2, <2>3, <2>6, <2>7 DEF KeyInv, LockInv
  <2>9. \A q \in Requests \ {r} : Present(q) => Key[q] # Key[r] /\ Ext[q] # Ext[r]
    BY <1>5 DEF Unique, Present
  <2>10. UniqueInv'
    BY <2>3, <2>9 DEF KeyInv, UniqueInv
  <2> QED BY <2>5, <2>8, <2>10 DEF KeyInv, LockInv
<1> QED BY <1>4, <1>5

\* Every other step leaves the requests and the locks alone, and each row there.
LEMMA KeyFrame ==
  ASSUME KeyInv, UNCHANGED <<req, lock>>, \A q \in Requests : Present(q) <=> Present(q)'
  PROVE  KeyInv'
<1>1. LockInv' /\ UniqueInv'
  BY DEF KeyInv, LockInv, UniqueInv, Locking
<1>2. \A r \in Requests : Answered(r)'
  BY DEF KeyInv, Answered
<1> QED BY <1>1, <1>2 DEF KeyInv

-----------------------------------------------------------------------------
(* The work on one row.  A fault is what lets a downloader be on a row it  *)
(* no longer owns, lets a row be claimed past its budget, and lets a mark  *)
(* overwrite a link.                                                       *)

\* 0 or 1.
One(b) == IF b THEN 1 ELSE 0

\* The row's owner is on it and his lease has not run out: nobody can claim it.
Kept(d) == row[d].live /\ Attended(d)

\* The downloaders on row d, and those whose mark may make it claimable again.
Busy(d) == {w \in Workers : On(w, d)}

Revives(w, d) ==
  /\ run[w].d = d
  /\ run[w].pc = "retry_wait" \/ (run[w].pc = "claimed" /\ run[w].att < MaxAttempts)

Revivers(d) == {w \in Workers : Revives(w, d)}

\* The row counts the upload jobs that exist, and a row that no fault has hit is
\* worked on by its owner alone.
JobInv(d) ==
  /\ ~Present(d) => row[d].att = 0 /\ ~row[d].linked
  /\ jobs[d] = gone[d] + One(row[d].linked)
  /\ losses[d] = 0 =>
       /\ row[d].linked => row[d].status = "downloading"
       /\ \A w \in Workers : On(w, d) => row[d].owner = w /\ row[d].live

\* Each downloader on a row beyond its owner, each claim beyond the budget and each
\* claim that may still come is owed to a fault of its own.
CountInv(d) ==
  /\ IsFiniteSet(Busy(d)) /\ IsFiniteSet(Revivers(d))
  /\ Cardinality(Busy(d)) + One(~Kept(d)) <= 1 + losses[d]
  /\ row[d].att >= MaxAttempts =>
       row[d].att + Cardinality(Revivers(d)) + One(row[d].status \in Claimed /\ ~Kept(d))
         <= MaxAttempts + losses[d]

WorkInv(d) == JobInv(d) /\ CountInv(d)

ExternalInv == TypeOK /\ KeyInv /\ OnPresent /\ \A d \in Requests : WorkInv(d)

LEMMA WorkInit == Init => ExternalInv
<1> SUFFICES ASSUME Init PROVE ExternalInv
  OBVIOUS
<1>1. \A r \in Requests : row[r].status = "none" /\ row[r].att = 0 /\ ~row[r].linked /\ ~row[r].live
  BY DEF Init, NoRow
<1>2. \A w \in Workers : run[w].pc = "idle"
  BY IdleRunType DEF Init
<1>3. \A r \in Requests : req[r].pc = "new" /\ ~Present(r)
  BY <1>1 DEF Init, Present
<1>4. KeyInv /\ OnPresent
  BY <1>2, <1>3 DEF KeyInv, LockInv, UniqueInv, Answered, Locking, OnPresent, On
<1>5. ASSUME NEW d \in Requests PROVE WorkInv(d)
  <2>1. Busy(d) = {} /\ Revivers(d) = {}
    BY <1>2 DEF Busy, On, Revivers, Revives
  <2>2. Cardinality({}) = 0 /\ IsFiniteSet({})
    BY FS_EmptySet
  <2>3. JobInv(d)
    BY <1>1, <1>2 DEF JobInv, One, On, Init
  <2>4. CountInv(d)
    BY <1>1, <2>1, <2>2, ExternalAssumption DEF CountInv, One, Init
  <2> QED BY <2>3, <2>4 DEF WorkInv
<1> QED BY <1>4, <1>5, TypeInit DEF ExternalInv

LEMMA Shift ==
  ASSUME NEW S, NEW T, NEW w, IsFiniteSet(S), T \ {w} = S \ {w}
  PROVE  /\ Cardinality(S) \in Nat /\ IsFiniteSet(T) /\ Cardinality(T) \in Nat
         /\ Cardinality(T) + One(w \in S) = Cardinality(S) + One(w \in T)
<1>1. Cardinality(S) \in Nat
  BY FS_CardinalityType
<1>2. CASE w \in T
  <2>1. T = S \cup {w}
    BY <1>2
  <2> QED BY <1>1, <1>2, <2>1, FS_AddElement DEF One
<1>3. CASE w \notin T
  <2>1. T = S \ {w}
    BY <1>3
  <2>2. IsFiniteSet(T) /\ Cardinality(T) = IF w \in S THEN Cardinality(S) - 1 ELSE Cardinality(S)
    BY <2>1, FS_RemoveElement
  <2>3. Cardinality(T) \in Nat
    BY <2>2, FS_CardinalityType
  <2> QED BY <1>1, <1>3, <2>2, <2>3 DEF One
<1> QED BY <1>2, <1>3

\* The numbers the invariant speaks of.
LEMMA WorkTypes ==
  ASSUME ExternalInv, NEW d \in Requests
  PROVE  /\ row[d] \in Row /\ row[d].att \in Nat /\ losses[d] \in Nat
         /\ jobs[d] \in Nat /\ gone[d] \in Nat
         /\ Cardinality(Busy(d)) \in Nat /\ Cardinality(Revivers(d)) \in Nat
         /\ MaxAttempts \in Nat /\ MaxAttempts >= 1
         /\ JobInv(d) /\ CountInv(d)
<1>1. JobInv(d) /\ CountInv(d) /\ TypeOK
  BY DEF ExternalInv, WorkInv
<1>2. row[d] \in Row /\ losses[d] \in Nat /\ jobs[d] \in Nat /\ gone[d] \in Nat
  BY <1>1, ExternalAssumption DEF TypeOK
<1>3. Cardinality(Busy(d)) \in Nat /\ Cardinality(Revivers(d)) \in Nat
  BY <1>1, FS_CardinalityType DEF CountInv
<1> QED BY <1>1, <1>2, <1>3, ExternalAssumption DEF Row

\* One downloader moves: what becomes of the two sets.
LEMMA RunChange ==
  ASSUME ExternalInv, NEW w \in Workers, NEW d \in Requests,
         \A v \in Workers \ {w} : run'[v] = run[v]
  PROVE  /\ IsFiniteSet(Busy(d)') /\ IsFiniteSet(Revivers(d)')
         /\ Cardinality(Busy(d)') \in Nat /\ Cardinality(Revivers(d)') \in Nat
         /\ Cardinality(Busy(d)') + One(On(w, d)) = Cardinality(Busy(d)) + One(On(w, d)')
         /\ Cardinality(Revivers(d)') + One(Revives(w, d))
              = Cardinality(Revivers(d)) + One(Revives(w, d)')
<1>1. Busy(d)' \ {w} = Busy(d) \ {w} /\ Revivers(d)' \ {w} = Revivers(d) \ {w}
  BY DEF Busy, On, Revivers, Revives
<1>2. /\ w \in Busy(d) <=> On(w, d)
      /\ w \in Busy(d)' <=> On(w, d)'
      /\ w \in Revivers(d) <=> Revives(w, d)
      /\ w \in Revivers(d)' <=> Revives(w, d)'
  BY DEF Busy, Revivers
<1>3. IsFiniteSet(Busy(d)) /\ IsFiniteSet(Revivers(d))
  BY WorkTypes DEF CountInv
<1>4. /\ IsFiniteSet(Busy(d)') /\ Cardinality(Busy(d)') \in Nat
      /\ Cardinality(Busy(d)') + One(w \in Busy(d)) = Cardinality(Busy(d)) + One(w \in Busy(d)')
  BY <1>1, <1>3, Shift
<1>5. /\ IsFiniteSet(Revivers(d)') /\ Cardinality(Revivers(d)') \in Nat
      /\ Cardinality(Revivers(d)') + One(w \in Revivers(d))
           = Cardinality(Revivers(d)) + One(w \in Revivers(d)')
  BY <1>1, <1>3, Shift
<1> QED BY <1>2, <1>4, <1>5 DEF One

\* A row that nobody touches.
LEMMA Untouched ==
  ASSUME ExternalInv, NEW w \in Workers, NEW e \in Requests,
         \A v \in Workers \ {w} : run'[v] = run[v],
         On(w, e) <=> On(w, e)', Revives(w, e) <=> Revives(w, e)',
         row'[e] = row[e], UNCHANGED <<jobs[e], gone[e], losses[e]>>
  PROVE  WorkInv(e)'
<1>1. /\ IsFiniteSet(Busy(e)') /\ IsFiniteSet(Revivers(e)')
      /\ Cardinality(Busy(e)') = Cardinality(Busy(e))
      /\ Cardinality(Revivers(e)') = Cardinality(Revivers(e))
  BY RunChange, WorkTypes DEF One
<1>2. Attended(e)' <=> Attended(e)
  BY DEF Attended, On
<1>3. CountInv(e)'
  BY <1>1, <1>2, WorkTypes DEF CountInv, Kept
<1>4. JobInv(e)'
  BY WorkTypes DEF JobInv, Present, On
<1> QED BY <1>3, <1>4 DEF WorkInv

\* No downloader moves.
LEMMA RunStill ==
  ASSUME run' = run, NEW e \in Requests
  PROVE  /\ Busy(e)' = Busy(e) /\ Revivers(e)' = Revivers(e)
         /\ row'[e].owner = row[e].owner => (Attended(e)' <=> Attended(e))
BY DEF Busy, Revivers, On, Revives, Attended

LEMMA Still ==
  ASSUME ExternalInv, NEW e \in Requests, run' = run,
         row'[e] = row[e], UNCHANGED <<jobs[e], gone[e], losses[e]>>
  PROVE  WorkInv(e)'
<1>1. CountInv(e)'
  BY WorkTypes, RunStill DEF CountInv, Kept
<1>2. JobInv(e)'
  BY WorkTypes DEF JobInv, Present, On
<1> QED BY <1>1, <1>2 DEF WorkInv

\* A handler: a new row has no work on it.
LEMMA HandlerWork ==
  ASSUME ExternalInv, NEW r \in Requests, Handle(r) \/ RequestFails(r), NEW e \in Requests
  PROVE  WorkInv(e)' /\ OnPresent'
<1>1. TypeOK /\ UNCHANGED <<run, jobs, gone, losses>>
  BY HandlerStep DEF ExternalInv
<1>2. OnPresent'
  BY <1>1, PresentGrows DEF ExternalInv, OnPresent, On
<1>3. CASE row'[e] = row[e]
  BY <1>1, <1>2, <1>3, Still
<1>4. CASE row'[e] # row[e]
  <2>1. e = r /\ Unique(r) /\ row' = [row EXCEPT ![r].status = "accepted"]
    BY <1>1, <1>4, HandlerStep DEF TypeOK
  <2>2. ~Present(e) /\ row[e] \in Row
    BY <1>1, <2>1, PresentType DEF TypeOK
  <2>3. /\ row'[e].att = 0 /\ row'[e].linked = row[e].linked /\ row'[e].owner = row[e].owner
        /\ row'[e].live = row[e].live /\ Present(e)' /\ ~row[e].linked
    BY <1>1, <2>1, <2>2, WorkTypes DEF TypeOK, Row, JobInv, Present
  <2>4. \A w \in Workers : ~On(w, e)'
    BY <1>1, <2>2 DEF ExternalInv, OnPresent, On
  <2>5. JobInv(e)'
    BY <1>1, <2>3, <2>4, WorkTypes DEF JobInv
  <2>6. CountInv(e)'
    BY <1>1, <2>3, WorkTypes, RunStill DEF CountInv, Kept
  <2> QED BY <1>2, <2>5, <2>6 DEF WorkInv
<1> QED BY <1>3, <1>4

\* The lease, the backoff and the user.
LEMMA TimeWork ==
  ASSUME ExternalInv, NEW d \in Requests,
         LeaseRunsOut(d) \/ Stall(d) \/ BackoffEnds(d) \/ CancelUpload(d), NEW e \in Requests
  PROVE  WorkInv(e)'
<1>1. run' = run /\ jobs' = jobs /\ TypeOK
  BY DEF LeaseRunsOut, Stall, BackoffEnds, CancelUpload, ExternalInv
<1>2. CASE e # d
  <2>1. row'[e] = row[e] /\ losses'[e] = losses[e] /\ gone'[e] = gone[e]
    BY <1>1, <1>2 DEF LeaseRunsOut, Stall, BackoffEnds, CancelUpload, Lose, TypeOK
  <2> QED BY <1>1, <2>1, Still
<1>3. CASE e = d /\ LeaseRunsOut(d)
  <2>1. /\ row'[d].att = row[d].att /\ row'[d].status = row[d].status /\ ~row'[d].live
        /\ row'[d].linked = row[d].linked /\ row'[d].owner = row[d].owner
        /\ UNCHANGED <<gone, losses>>
    BY <1>1, <1>3, WorkTypes DEF LeaseRunsOut, TypeOK, Row
  <2>2. ~Kept(d) /\ ~Kept(d)' /\ ~Attended(d)
    BY <1>3, <2>1 DEF LeaseRunsOut, Kept
  <2>3. losses[d] = 0 => \A w \in Workers : ~On(w, d)
    BY <2>2, WorkTypes DEF JobInv, Attended, On
  <2>4. JobInv(d)'
    BY <1>1, <2>1, <2>3, WorkTypes DEF JobInv, Present, On
  <2>5. CountInv(d)'
    BY <1>1, <2>1, <2>2, WorkTypes, RunStill DEF CountInv
  <2> QED BY <1>3, <2>4, <2>5 DEF WorkInv
<1>4. CASE e = d /\ Stall(d)
  <2>1. /\ row'[d].att = row[d].att /\ row'[d].status = row[d].status /\ ~row'[d].live
        /\ row'[d].linked = row[d].linked /\ losses'[d] = losses[d] + 1 /\ gone' = gone
    BY <1>1, <1>4, WorkTypes DEF Stall, Lose, TypeOK, Row
  <2>2. Kept(d) /\ ~Kept(d)'
    BY <1>4, <2>1 DEF Stall, Kept
  <2>3. JobInv(d)'
    BY <1>1, <2>1, WorkTypes DEF JobInv, Present
  <2>4. CountInv(d)'
    BY <1>1, <2>1, <2>2, WorkTypes, RunStill DEF CountInv, One
  <2> QED BY <1>4, <2>3, <2>4 DEF WorkInv
<1>5. CASE e = d /\ BackoffEnds(d)
  <2>1. /\ row'[d].att = row[d].att /\ row'[d].status = row[d].status /\ row'[d].live = row[d].live
        /\ row'[d].linked = row[d].linked /\ row'[d].owner = row[d].owner
        /\ UNCHANGED <<gone, losses>>
    BY <1>1, <1>5, WorkTypes DEF BackoffEnds, TypeOK, Row
  <2>2. JobInv(d)'
    BY <1>1, <2>1, WorkTypes DEF JobInv, Present, On
  <2>3. CountInv(d)'
    BY <1>1, <2>1, WorkTypes, RunStill DEF CountInv, Kept
  <2> QED BY <1>5, <2>2, <2>3 DEF WorkInv
<1>6. CASE e = d /\ CancelUpload(d)
  <2>1. /\ row'[d].att = row[d].att /\ row'[d].status = row[d].status /\ row'[d].live = row[d].live
        /\ row[d].linked /\ ~row'[d].linked /\ row'[d].owner = row[d].owner
        /\ losses' = losses /\ gone'[d] = gone[d] + 1
    BY <1>1, <1>6, WorkTypes DEF CancelUpload, TypeOK, Row
  <2>2. JobInv(d)'
    BY <1>1, <2>1, WorkTypes DEF JobInv, Present, On, One
  <2>3. CountInv(d)'
    BY <1>1, <2>1, WorkTypes, RunStill DEF CountInv, Kept
  <2> QED BY <1>6, <2>2, <2>3 DEF WorkInv
<1> QED BY <1>2, <1>3, <1>4, <1>5, <1>6

LEMMA TimePresent ==
  ASSUME ExternalInv, NEW d \in Requests,
         LeaseRunsOut(d) \/ Stall(d) \/ BackoffEnds(d) \/ CancelUpload(d)
  PROVE  KeyInv' /\ OnPresent'
<1>1. TypeOK /\ OnPresent /\ KeyInv /\ UNCHANGED <<run, req, lock>>
  BY DEF ExternalInv, LeaseRunsOut, Stall, BackoffEnds, CancelUpload
<1>2. PICK x : RowWrite(d, x) /\ x.status = row[d].status
  <2>1. row[d] \in Row
    BY <1>1 DEF TypeOK
  <2>2. CASE LeaseRunsOut(d) \/ Stall(d)
    <3>1. RowWrite(d, [row[d] EXCEPT !.live = FALSE])
      BY <1>1, <2>2, ExpiryWrite
    <3>2. [row[d] EXCEPT !.live = FALSE].status = row[d].status
      BY <2>1 DEF Row
    <3> QED BY <3>1, <3>2
  <2>3. CASE BackoffEnds(d)
    <3>1. RowWrite(d, [row[d] EXCEPT !.due = TRUE])
      BY <1>1, <2>3, BackoffWrite
    <3>2. [row[d] EXCEPT !.due = TRUE].status = row[d].status
      BY <2>1 DEF Row
    <3> QED BY <3>1, <3>2
  <2>4. CASE CancelUpload(d)
    <3>1. RowWrite(d, [row[d] EXCEPT !.linked = FALSE])
      BY <1>1, <2>4, CancelWrite
    <3>2. [row[d] EXCEPT !.linked = FALSE].status = row[d].status
      BY <2>1 DEF Row
    <3> QED BY <3>1, <3>2
  <2> QED BY <2>2, <2>3, <2>4
<1>3. \A q \in Requests : Present(q) <=> Present(q)'
  BY <1>1, <1>2, PresentStays
<1> QED BY <1>1, <1>3, KeyFrame DEF OnPresent, On

\* The claim: the row had a free place, and now has none.
LEMMA ClaimWork ==
  ASSUME ExternalInv, NEW w \in Workers, NEW d \in Requests, ClaimDelivery(w, d), NEW e \in Requests
  PROVE  WorkInv(e)'
<1>1. TypeOK /\ run[w].pc = "idle" /\ (\A v \in Workers \ {w} : run'[v] = run[v])
  BY DEF ClaimDelivery, ExternalInv, TypeOK
<1>2. run'[w].pc = "claimed" /\ run'[w].d = d /\ run'[w].att = row[d].att + 1
  BY <1>1 DEF ClaimDelivery, TypeOK
<1>3. CASE e # d
  <2>1. row'[e] = row[e] /\ UNCHANGED <<jobs[e], gone[e], losses[e]>>
    BY <1>1, <1>3 DEF ClaimDelivery, TypeOK
  <2> QED BY <1>1, <1>2, <1>3, <2>1, Untouched DEF On, Revives
<1>4. CASE e = d
  <2>1. row[d] \in Row /\ row[d].status \in Claimed /\ ~Kept(d) /\ UNCHANGED <<jobs, gone, losses>>
    BY WorkTypes, ExternalAssumption DEF ClaimDelivery, Claimable, Kept, Attended
  <2>2. /\ row'[d].att = row[d].att + 1 /\ row'[d].owner = w /\ row'[d].live
        /\ row'[d].status = row[d].status /\ row'[d].linked = row[d].linked
    BY <1>1, <2>1 DEF ClaimDelivery, TypeOK, Row
  <2>3. Kept(d)'
    BY <1>2, <2>2 DEF Kept, Attended
  <2>4. JobInv(d)'
    <3>1. losses[d] = 0 => \A v \in Workers : ~On(v, d)
      BY WorkTypes, <2>1, ExternalAssumption DEF JobInv, On, Kept, Attended
    <3>2. losses'[d] = 0 => \A v \in Workers : On(v, d)' => v = w
      BY <1>1, <2>1, <3>1 DEF On
    <3>3. Present(d) /\ Present(d)' /\ row[d].status # "downloading"
      BY <2>1, <2>2 DEF Present, Claimed
    <3> QED BY <2>1, <2>2, <3>2, <3>3, WorkTypes DEF JobInv
  <2>5. ~On(w, d) /\ On(w, d)' /\ ~Revives(w, d)
    BY <1>1, <1>2 DEF On, Revives
  <2>6. Revives(w, d)' <=> row'[d].att < MaxAttempts
    BY <1>2, <2>2 DEF Revives
  <2>7. /\ IsFiniteSet(Busy(d)') /\ IsFiniteSet(Revivers(d)')
        /\ Cardinality(Busy(d)') = Cardinality(Busy(d)) + 1
        /\ row'[d].att >= MaxAttempts => Cardinality(Revivers(d)') = Cardinality(Revivers(d))
    BY <1>1, <2>2, <2>5, <2>6, RunChange, WorkTypes DEF One
  <2>8. Cardinality(Revivers(d)) <= Cardinality(Busy(d))
    <3>1. Revivers(d) \subseteq Busy(d)
      BY DEF Revivers, Busy, Revives, On
    <3> QED BY <3>1, WorkTypes, FS_Subset DEF CountInv
  <2>9. CountInv(d)'
    BY <2>1, <2>2, <2>3, <2>7, <2>8, WorkTypes DEF CountInv, One
  <2> QED BY <1>4, <2>4, <2>9 DEF WorkInv
<1> QED BY <1>3, <1>4

\* A downloader learns that it failed: it stays on the row, and its mark can make
\* the row claimable only if the claim left attempts.
LEMMA GoesWork ==
  ASSUME ExternalInv, NEW w \in Workers, run[w].pc = "claimed", NEW e \in Requests,
         \/ Goes(w, Retry(w))
         \/ \E pc \in {"failed", "blocked_auth"} : Goes(w, pc)
  PROVE  /\ \A v \in Workers \ {w} : run'[v] = run[v]
         /\ run'[w].d = run[w].d /\ run'[w].pc \notin {"idle", "claimed"}
         /\ On(w, e)' <=> On(w, e)
         /\ Revives(w, e)' => Revives(w, e)
<1>1. TypeOK /\ run[w] \in Run /\ run[w].att \in Nat /\ MaxAttempts \in Nat
  BY ExternalAssumption DEF ExternalInv, TypeOK, Run
<1>2. PICK pc \in {"retry_wait", "failed", "blocked_auth", "dead_letter"} :
        Goes(w, pc) /\ (pc = "retry_wait" => run[w].att < MaxAttempts)
  BY <1>1 DEF Retry
<1>3. /\ \A v \in Workers \ {w} : run'[v] = run[v]
      /\ run'[w].d = run[w].d /\ run'[w].pc = pc
  BY <1>1, <1>2 DEF Goes, TypeOK, Run
<1> QED BY <1>2, <1>3 DEF On, Revives

LEMMA FewerCounts ==
  ASSUME ExternalInv, NEW w \in Workers, NEW e \in Requests,
         \A v \in Workers \ {w} : run'[v] = run[v],
         On(w, e)' => On(w, e), Revives(w, e)' => Revives(w, e)
  PROVE  /\ IsFiniteSet(Busy(e)') /\ IsFiniteSet(Revivers(e)')
         /\ Cardinality(Busy(e)') \in Nat /\ Cardinality(Revivers(e)') \in Nat
         /\ Cardinality(Busy(e)') <= Cardinality(Busy(e))
         /\ Cardinality(Revivers(e)') <= Cardinality(Revivers(e))
         /\ On(w, e) /\ ~On(w, e)' => Cardinality(Busy(e)') + 1 = Cardinality(Busy(e))
         /\ Revives(w, e) /\ ~Revives(w, e)' =>
              Cardinality(Revivers(e)') + 1 = Cardinality(Revivers(e))
BY RunChange, WorkTypes DEF One

\* A failure that writes nothing.
LEMMA FailWork ==
  ASSUME ExternalInv, NEW w \in Workers, run[w].pc = "claimed", NEW e \in Requests,
         \/ Goes(w, Retry(w))
         \/ \E pc \in {"failed", "blocked_auth"} : Goes(w, pc),
         UNCHANGED <<row, jobs, gone, losses>>
  PROVE  WorkInv(e)'
<1>1. /\ \A v \in Workers \ {w} : run'[v] = run[v]
      /\ run'[w].d = run[w].d /\ run'[w].pc # "idle"
      /\ On(w, e)' <=> On(w, e)
      /\ Revives(w, e)' => Revives(w, e)
  BY GoesWork
<1>2. Kept(e)' <=> Kept(e)
  BY <1>1 DEF Kept, Attended
<1>3. /\ IsFiniteSet(Busy(e)') /\ IsFiniteSet(Revivers(e)')
      /\ Cardinality(Busy(e)') \in Nat /\ Cardinality(Revivers(e)') \in Nat
      /\ Cardinality(Busy(e)') <= Cardinality(Busy(e))
      /\ Cardinality(Revivers(e)') <= Cardinality(Revivers(e))
  BY <1>1, FewerCounts
<1>4. CountInv(e)'
  BY <1>2, <1>3, WorkTypes DEF CountInv, One
<1>5. JobInv(e)'
  BY <1>1, WorkTypes DEF JobInv, Present, On
<1> QED BY <1>4, <1>5 DEF WorkInv

\* The link, with its answer or without.
LEMMA LinkWork ==
  ASSUME ExternalInv, NEW w \in Workers, NEW d \in Requests, run[w].pc = "claimed", run[w].d = d,
         Linkable(w), row' = [row EXCEPT ![d] = Linked(d)],
         jobs' = [jobs EXCEPT ![d] = @ + 1], gone' = gone,
         \/ run' = [run EXCEPT ![w] = IdleRun] /\ losses' = losses
         \/ Lose(d) /\ Goes(w, Retry(w)),
         NEW e \in Requests
  PROVE  WorkInv(e)'
<1>1. TypeOK /\ run[w] \in Run /\ row[d] \in Row
  BY DEF ExternalInv, TypeOK
<1>2. /\ \A v \in Workers \ {w} : run'[v] = run[v]
      /\ \A f \in Requests : On(w, f)' => On(w, f)
      /\ \A f \in Requests : Revives(w, f)' => Revives(w, f)
      /\ run'[w].pc # "idle" => run'[w].d = d
  <2>1. CASE run' = [run EXCEPT ![w] = IdleRun]
    BY <1>1, <2>1, IdleRunType DEF TypeOK, On, Revives
  <2>2. CASE Goes(w, Retry(w))
    BY <2>2, GoesWork
  <2> QED BY <2>1, <2>2
<1>3. CASE e # d
  <2>1. row'[e] = row[e] /\ jobs'[e] = jobs[e] /\ losses'[e] = losses[e]
    BY <1>1, <1>3 DEF TypeOK, Lose
  <2>2. ~On(w, e) /\ ~Revives(w, e)
    BY <1>3 DEF On, Revives
  <2> QED BY <1>2, <2>1, <2>2, Untouched
<1>4. CASE e = d
  <2>1. /\ row'[d].att = row[d].att /\ row'[d].owner = NoOne /\ ~row'[d].live
        /\ row'[d].status = "downloading" /\ row'[d].linked /\ ~row[d].linked
        /\ jobs'[d] = jobs[d] + 1
    BY <1>1 DEF Linked, Linkable, TypeOK, Row
  <2>2. ~Kept(d)' /\ "downloading" \notin Claimed /\ On(w, d)
    BY <2>1 DEF Kept, Claimed, On
  <2>3. \/ losses' = losses /\ ~On(w, d)'
        \/ losses'[d] = losses[d] + 1
    BY <1>1, IdleRunType DEF TypeOK, On, Lose
  <2>4. CountInv(d)'
    BY <1>2, <2>1, <2>2, <2>3, FewerCounts, WorkTypes DEF CountInv, One
  <2>5. JobInv(d)'
    <3>1. losses'[d] = 0 => \A v \in Workers : ~On(v, d)'
      <4> SUFFICES ASSUME losses'[d] = 0, NEW v \in Workers, On(v, d)' PROVE FALSE
        OBVIOUS
      <4>1. losses[d] = 0 /\ v # w
        BY <2>3, WorkTypes
      <4>2. On(v, d)
        BY <1>2, <4>1 DEF On
      <4> QED BY <2>2, <4>1, <4>2, WorkTypes DEF JobInv
    <3> QED BY <2>1, <3>1, WorkTypes DEF JobInv, Present, One
  <2> QED BY <1>4, <2>4, <2>5 DEF WorkInv
<1> QED BY <1>3, <1>4

\* The mark: the row is free again, and claimable only if its writer was counted.
LEMMA MarkWork ==
  ASSUME ExternalInv, NEW w \in Workers, Mark(w), NEW e \in Requests
  PROVE  WorkInv(e)'
<1>1. TypeOK /\ run[w] \in Run /\ UNCHANGED <<jobs, gone, losses>>
  BY DEF ExternalInv, TypeOK, Mark
<1>2. PICK d \in Requests : run[w].d = d
  BY <1>1 DEF Run
<1>3. row[d] \in Row /\ run[w].pc \in {"retry_wait", "failed", "blocked_auth", "dead_letter"}
  BY <1>1 DEF Mark, Run, TypeOK
<1>4. /\ \A v \in Workers \ {w} : run'[v] = run[v]
      /\ \A f \in Requests : ~On(w, f)' /\ ~Revives(w, f)'
  BY <1>1, IdleRunType DEF Mark, TypeOK, On, Revives
<1>5. row' = [row EXCEPT ![d] = Marked(w)]
  BY <1>2 DEF Mark
<1>6. CASE e # d
  <2>1. row'[e] = row[e] /\ ~On(w, e) /\ ~Revives(w, e)
    BY <1>1, <1>2, <1>5, <1>6 DEF TypeOK, On, Revives
  <2> QED BY <1>1, <1>4, <2>1, Untouched
<1>7. CASE e = d
  <2>1. /\ row'[d].att = row[d].att /\ row'[d].owner = NoOne /\ ~row'[d].live
        /\ row'[d].status = run[w].pc /\ row'[d].linked = row[d].linked
    BY <1>1, <1>2, <1>3, <1>5 DEF Marked, TypeOK, Row
  <2>2. ~Kept(d)' /\ On(w, d) /\ (row'[d].status \in Claimed => Revives(w, d))
    BY <1>2, <1>3, <2>1 DEF Kept, Claimed, On, Revives
  <2>3. CountInv(d)'
    BY <1>1, <1>4, <2>1, <2>2, FewerCounts, WorkTypes DEF CountInv, One
  <2>4. JobInv(d)'
    <3>1. losses[d] = 0 => row[d].owner = w
      BY <2>2, WorkTypes DEF JobInv
    <3>2. losses[d] = 0 => row[d].status \in Claimed /\ row[d].status # "downloading"
      BY <1>1, <3>1, ExternalAssumption DEF TypeOK, Claimed
    <3>3. losses[d] = 0 => ~row[d].linked
      BY <3>2, WorkTypes DEF JobInv
    <3>4. losses[d] = 0 => \A v \in Workers : ~On(v, d)'
      BY <1>4, <3>1, WorkTypes DEF JobInv, On
    <3>5. Present(d)'
      BY <1>3, <2>1 DEF Present
    <3> QED BY <1>1, <2>1, <3>3, <3>4, <3>5, WorkTypes DEF JobInv
  <2> QED BY <1>7, <2>3, <2>4 DEF WorkInv
<1> QED BY <1>6, <1>7

\* A failing mark and a crash leave the row as it is.
LEMMA StopWork ==
  ASSUME ExternalInv, NEW w \in Workers, MarkFails(w) \/ Crash(w), NEW e \in Requests
  PROVE  WorkInv(e)'
<1>1. /\ TypeOK /\ run[w] \in Run /\ UNCHANGED <<row, jobs, gone>> /\ run[w].pc # "idle"
      /\ run' = [run EXCEPT ![w] = IdleRun]
  BY DEF ExternalInv, TypeOK, MarkFails, Crash
<1>2. PICK d \in Requests : run[w].d = d
  BY <1>1 DEF Run
<1>3. Lose(d)
  BY <1>2 DEF MarkFails, Crash
<1>4. /\ \A v \in Workers \ {w} : run'[v] = run[v]
      /\ \A f \in Requests : ~On(w, f)' /\ ~Revives(w, f)'
  BY <1>1, IdleRunType DEF TypeOK, On, Revives
<1>5. CASE e # d
  <2>1. losses'[e] = losses[e] /\ ~On(w, e) /\ ~Revives(w, e)
    BY <1>1, <1>2, <1>3, <1>5, LoseType DEF On, Revives
  <2> QED BY <1>1, <1>4, <2>1, Untouched
<1>6. CASE e = d
  <2>1. losses'[d] = losses[d] + 1 /\ On(w, d)
    BY <1>1, <1>2, <1>3, LoseType DEF On
  <2>2. CountInv(d)'
    BY <1>1, <1>4, <2>1, FewerCounts, WorkTypes DEF CountInv, One
  <2>3. JobInv(d)'
    BY <1>1, <2>1, WorkTypes DEF JobInv, Present
  <2> QED BY <1>6, <2>2, <2>3 DEF WorkInv
<1> QED BY <1>5, <1>6

\* The steps of a downloader touch neither requests nor locks, and no row goes.
LEMMA RunPresent ==
  ASSUME ExternalInv, NEW w \in Workers,
         \/ \E d \in Requests : ClaimDelivery(w, d)
         \/ Process(w) \/ MarkFails(w) \/ Crash(w)
  PROVE  KeyInv' /\ OnPresent'
<1>1. TypeOK /\ OnPresent /\ KeyInv /\ run[w] \in Run /\ UNCHANGED <<req, lock>>
  BY DEF ExternalInv, TypeOK, ClaimDelivery, Process, ProcessFails, CreateUploadJobAndLink, Mark,
         MarkFails, Crash
<1>2. \A q \in Requests : Present(q) <=> Present(q)'
  <2>1. CASE \E d \in Requests : ClaimDelivery(w, d)
    <3>1. PICK d \in Requests : ClaimDelivery(w, d)
      BY <2>1
    <3>2. row[d] \in Row /\ row' = [row EXCEPT ![d].owner = w, ![d].live = TRUE, ![d].att = @ + 1]
      BY <1>1, <3>1 DEF TypeOK, ClaimDelivery
    <3>3. row'[d].status = row[d].status /\ \A q \in Requests \ {d} : row'[q] = row[q]
      BY <1>1, <3>2 DEF TypeOK, Row
    <3> QED BY <3>3 DEF Present
  <2>2. CASE row' = row
    BY <2>2 DEF Present
  <2>3. ASSUME NEW d \in Requests, On(w, d), NEW x, RowWrite(d, x), x.status # "none"
        PROVE  \A q \in Requests : Present(q) <=> Present(q)'
    BY <1>1, <2>3, PresentStays DEF OnPresent, Present
  <2>4. CASE CreateUploadJobAndLink(w) /\ row' # row
    <3>1. PICK d \in Requests : run[w].d = d
      BY <1>1 DEF Run
    <3>2. On(w, d) /\ RowWrite(d, Linked(d)) /\ row[d] \in Row
      BY <1>1, <2>4, <3>1, LinkedWrite DEF CreateUploadJobAndLink, On, TypeOK
    <3>3. Linked(d).status # "none"
      BY <3>2 DEF Linked, Row
    <3> QED BY <2>3, <3>2, <3>3
  <2>5. CASE Mark(w)
    <3>1. PICK d \in Requests : run[w].d = d
      BY <1>1 DEF Run
    <3>2. On(w, d) /\ RowWrite(d, Marked(w)) /\ row[d] \in Row
      BY <1>1, <2>5, <3>1, MarkWrite DEF Mark, On, TypeOK
    <3>3. Marked(w).status # "none"
      BY <1>1, <3>1, <3>2 DEF Marked, Row, Run
    <3> QED BY <2>3, <3>2, <3>3
  <2> QED BY <2>1, <2>2, <2>4, <2>5 DEF Process, ProcessFails, MarkFails, Crash
<1>3. \A v \in Workers, d \in Requests : On(v, d)' => On(v, d) \/ (v = w /\ Present(d))
  <2>1. CASE \E d \in Requests : ClaimDelivery(w, d)
    <3>1. PICK d \in Requests : ClaimDelivery(w, d)
      BY <2>1
    <3>2. Present(d) /\ run'[w].d = d /\ \A v \in Workers \ {w} : run'[v] = run[v]
      BY <1>1, <3>1 DEF ClaimDelivery, Claimable, Claimed, Present, TypeOK
    <3> QED BY <3>2 DEF On
  <2>2. CASE run' = [run EXCEPT ![w] = IdleRun]
    BY <1>1, <2>2, IdleRunType DEF TypeOK, On
  <2>3. CASE run[w].pc = "claimed" /\ \E pc : Goes(w, pc)
    <3>1. PICK pc : Goes(w, pc)
      BY <2>3
    <3>2. run'[w].d = run[w].d /\ \A v \in Workers \ {w} : run'[v] = run[v]
      BY <1>1, <3>1 DEF Goes, TypeOK, Run
    <3> QED BY <2>3, <3>2 DEF On
  <2>4. CASE Process(w) \/ MarkFails(w) \/ Crash(w)
    BY <2>2, <2>3, <2>4
    DEF Process, ProcessFails, CreateUploadJobAndLink, Mark, MarkFails, Crash
  <2> QED BY <2>1, <2>4
<1>4. OnPresent'
  BY <1>1, <1>2, <1>3 DEF OnPresent
<1> QED BY <1>1, <1>2, <1>4, KeyFrame

LEMMA ProcessWork ==
  ASSUME ExternalInv, NEW w \in Workers, Process(w), NEW e \in Requests
  PROVE  WorkInv(e)'
<1>1. TypeOK /\ run[w] \in Run
  BY DEF ExternalInv, TypeOK
<1>2. CASE ProcessFails(w)
  BY <1>2, FailWork DEF ProcessFails
<1>3. CASE CreateUploadJobAndLink(w)
  <2>1. PICK d \in Requests : run[w].d = d
    BY <1>1 DEF Run
  <2>2. CASE Linkable(w)
    BY <1>3, <2>1, <2>2, LinkWork DEF CreateUploadJobAndLink
  <2>3. CASE ~Linkable(w)
    BY <1>3, <2>1, <2>3, FailWork DEF CreateUploadJobAndLink
  <2> QED BY <2>2, <2>3
<1>4. CASE Mark(w)
  BY <1>4, MarkWork
<1> QED BY <1>2, <1>3, <1>4 DEF Process

LEMMA ExternalNext == ExternalInv /\ [Next]_vars => ExternalInv'
<1> SUFFICES ASSUME ExternalInv, [Next]_vars PROVE ExternalInv'
  OBVIOUS
<1>0. TypeOK /\ TypeOK'
  BY TypeNext DEF ExternalInv
<1>1. CASE UNCHANGED vars
  <2>1. KeyInv' /\ OnPresent'
    BY <1>1, KeyFrame DEF vars, ExternalInv, Present, OnPresent, On
  <2>2. \A e \in Requests : WorkInv(e)'
    BY <1>1, Still DEF vars
  <2> QED BY <1>0, <2>1, <2>2 DEF ExternalInv
<1>2. ASSUME NEW r \in Requests, Handle(r) \/ RequestFails(r) PROVE ExternalInv'
  <2>1. KeyInv'
    BY <1>0, <1>2, LockKeeps, LookupKeeps, InsertKeeps, FailKeeps DEF Handle, ExternalInv
  <2>2. OnPresent' /\ \A e \in Requests : WorkInv(e)'
    BY <1>2, HandlerWork
  <2> QED BY <1>0, <2>1, <2>2 DEF ExternalInv
<1>3. ASSUME NEW d \in Requests, LeaseRunsOut(d) \/ Stall(d) \/ BackoffEnds(d) \/ CancelUpload(d)
      PROVE  ExternalInv'
  BY <1>0, <1>3, TimeWork, TimePresent DEF ExternalInv
<1>4. ASSUME NEW w \in Workers, NEW d \in Requests, ClaimDelivery(w, d) PROVE ExternalInv'
  BY <1>0, <1>4, ClaimWork, RunPresent DEF ExternalInv
<1>5. ASSUME NEW w \in Workers, Process(w) PROVE ExternalInv'
  BY <1>0, <1>5, ProcessWork, RunPresent DEF ExternalInv
<1>6. ASSUME NEW w \in Workers, MarkFails(w) \/ Crash(w) PROVE ExternalInv'
  BY <1>0, <1>6, StopWork, RunPresent DEF ExternalInv
<1> QED BY <1>1, <1>2, <1>3, <1>4, <1>5, <1>6 DEF Next

LEMMA ExternalAlways == Spec => []ExternalInv
BY WorkInit, ExternalNext, PTL DEF Spec

\* Whatever the interleaving of the handlers, concurrent and repeated requests for
\* one key that are accepted name one row, a repetition with the same body is not
\* refused and one with another body not accepted: Insert's three outcomes under
\* its advisory lock and the two UNIQUE constraints.
THEOREM ReplayIsAnsweredAlways == Spec => []ReplayIsAnswered
<1>1. ExternalInv => ReplayIsAnswered
  <2> SUFFICES ASSUME ExternalInv, NEW q \in Requests, NEW r \in Requests,
                      Key[q] = Key[r], req[q].pc = "accepted"
               PROVE  /\ req[r].pc = "accepted" => req[r].id = req[q].id /\ Body[r] = Body[q]
                      /\ req[r].pc = "conflict" => Body[r] # Body[q]
    BY DEF ReplayIsAnswered
  <2>1. PICK i \in Requests : i = req[q].id /\ Present(i) /\ Key[i] = Key[q] /\ Body[i] = Body[q]
    BY DEF ExternalInv, KeyInv, Answered
  <2>2. UniqueInv /\ Answered(r)
    BY DEF ExternalInv, KeyInv
  <2>3. ASSUME req[r].pc = "accepted" PROVE req[r].id = req[q].id /\ Body[r] = Body[q]
    BY <2>1, <2>2, <2>3 DEF Answered, UniqueInv
  <2>4. ASSUME req[r].pc = "conflict" PROVE Body[r] # Body[q]
    <3>1. PICK x \in Requests : Present(x) /\ Refusal(x, r)
      BY <2>2, <2>4 DEF Answered
    <3>2. CASE Key[x] = Key[r] /\ Body[x] # Body[r]
      BY <2>1, <2>2, <3>1, <3>2 DEF UniqueInv
    <3>3. CASE Ext[x] = Ext[r] /\ Key[x] # Key[r]
      <4> SUFFICES ASSUME Body[r] = Body[q] PROVE FALSE
        OBVIOUS
      <4>1. Ext[i] = Ext[r]
        BY <2>1, ExternalAssumption
      <4> QED BY <2>1, <2>2, <3>1, <3>3, <4>1 DEF UniqueInv
    <3> QED BY <3>1, <3>2, <3>3 DEF Refusal
  <2> QED BY <2>3, <2>4
<1> QED BY <1>1, ExternalAlways, PTL

\* CreateUploadJobAndLink creates a second upload job for a delivery only in the
\* place of one that was deleted, whichever downloaders crash, stall or lose the
\* answer to their commit.
THEOREM OneUploadJobAlways == Spec => []OneUploadJob
<1>1. ExternalInv => OneUploadJob
  BY WorkTypes DEF OneUploadJob, JobInv, One
<1> QED BY <1>1, ExternalAlways, PTL

\* Without a fault, the marks by id alone never overwrite a link: a delivery with
\* an upload job is 'downloading'.
THEOREM LinkedIsDownloadingAlways == Spec => []LinkedIsDownloading
<1>1. ExternalInv => LinkedIsDownloading
  BY WorkTypes DEF LinkedIsDownloading, JobInv
<1> QED BY <1>1, ExternalAlways, PTL

\* handleFailure's budget: a row is claimed more than MaxAttempts times only as
\* often as faults hit it, for any number of downloaders.
THEOREM AttemptsAccountedAlways == Spec => []AttemptsAccounted
<1>1. ASSUME ExternalInv, NEW d \in Requests PROVE row[d].att <= MaxAttempts + losses[d]
  <2>1. CASE row[d].att >= MaxAttempts
    BY <1>1, <2>1, WorkTypes DEF CountInv, One
  <2>2. CASE row[d].att < MaxAttempts
    BY <1>1, <2>2, WorkTypes
  <2> QED BY <1>1, <2>1, <2>2, WorkTypes
<1>2. ExternalInv => AttemptsAccounted
  BY <1>1 DEF AttemptsAccounted
<1> QED BY <1>2, ExternalAlways, PTL
=============================================================================
