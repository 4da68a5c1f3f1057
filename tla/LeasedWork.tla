----------------------------- MODULE LeasedWork -----------------------------
(***************************************************************************)
(* What every leased work table of this system promises its users: an item *)
(* is taken by one worker at a time, only an item that is held can be      *)
(* settled, a held item is returned or settled but never changes hands,    *)
(* and a settled item is never worked on again.  The work tables           *)
(* (upload_jobs, youtube_target_publications, webhook_deliveries) are      *)
(* shown to implement it.                                                  *)
(***************************************************************************)
CONSTANTS
  Items,    \* rows of the table
  Workers,  \* values of its lease_owner column
  NoOne     \* SQL NULL

VARIABLES
  phase,   \* phase[i]: "absent", "ready", "held" or "settled"
  holder   \* holder[i]: the worker that holds i, or NoOne

vars == <<phase, holder>>

Init ==
  /\ phase = [i \in Items |-> "absent"]
  /\ holder = [i \in Items |-> NoOne]

Move(i, from, to, who) ==
  /\ phase[i] = from
  /\ phase' = [phase EXCEPT ![i] = to]
  /\ holder' = [holder EXCEPT ![i] = who]

Offer(i) == Move(i, "absent", "ready", NoOne)

Take(i, w) == Move(i, "ready", "held", w)

\* The worker gives the item up, or its lease runs out.
Return(i) == Move(i, "held", "ready", NoOne)

Settle(i) == Move(i, "held", "settled", NoOne)

\* A user or an operator ends an item nobody holds.
Withdraw(i) == Move(i, "ready", "settled", NoOne)

Next ==
  \E i \in Items :
    \/ Offer(i) \/ Return(i) \/ Settle(i) \/ Withdraw(i)
    \/ \E w \in Workers : Take(i, w)

Spec == Init /\ [][Next]_vars
=============================================================================
