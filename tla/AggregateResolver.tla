------------------------- MODULE AggregateResolver -------------------------
(***************************************************************************)
(* PostAggregateStatusResolver.Resolve (internal/models/                   *)
(* post_aggregate_status.go) as the loop it is: one step per visited       *)
(* target, nine Boolean flags, and a chain of early returns that reads the *)
(* flags.  The operator Resolve of PostStatus, which the other modules     *)
(* use, is its meaning as a function of the set of target statuses.        *)
(***************************************************************************)
EXTENDS PostStatus

VARIABLES
  seen,   \* the statuses of the targets visited so far
  flag    \* the loop's Boolean variables that are true

vars == <<seen, flag>>

\* The status whose presence raises an any-flag, and the statuses that do not
\* clear an all-flag: the switch on target.Status, read by flag.
Raising ==
  [anyPublished |-> "published", anyPartial |-> "partially_published",
   anyPublishing |-> "publishing", anyRetrying |-> "retrying",
   anyWaitingProvider |-> "waiting_provider", anyQueued |-> "queued"]
Keeping ==
  [allPublished |-> {"published"}, allDraft |-> {"draft"}, allFailed |-> FailedStatuses]

AnyFlags == {"anyPublished", "anyPartial", "anyPublishing", "anyRetrying",
             "anyWaitingProvider", "anyQueued"}
AllFlags == {"allPublished", "allDraft", "allFailed"}

Init ==
  /\ seen = {}
  /\ flag = AllFlags

\* One iteration of the loop.
Visit(s) ==
  /\ seen' = seen \cup {s}
  /\ flag' = {f \in AnyFlags : f \in flag \/ s = Raising[f]}
             \cup {f \in AllFlags : f \in flag /\ s \in Keeping[f]}

Next == \E s \in PostStatuses : Visit(s)

Spec == Init /\ [][Next]_vars

\* The early returns before and after the loop.
Decision ==
  IF seen = {} THEN "draft"
  ELSE IF "allPublished" \in flag THEN "published"
  ELSE IF "anyPublishing" \in flag THEN "publishing"
  ELSE IF "anyRetrying" \in flag THEN "retrying"
  ELSE IF "anyWaitingProvider" \in flag THEN "waiting_provider"
  ELSE IF "anyQueued" \in flag THEN "queued"
  ELSE IF "anyPublished" \in flag \/ "anyPartial" \in flag THEN "partially_published"
  ELSE IF "allFailed" \in flag THEN "failed"
  ELSE IF "allDraft" \in flag THEN "draft"
  ELSE "failed"

-----------------------------------------------------------------------------
\* The flags the loop maintains decide what the set of statuses determines:
\* neither the order of the targets nor their number matters.
LoopComputesResolve == Decision = Resolve(seen)

\* "The parent must remain publishing until every destination reaches a
\* terminal outcome": the aggregate is terminal only when no target is queued
\* or active, and says "published" only when every target is.
ParentWaitsForTargets ==
  /\ Decision \in TerminalStatuses =>
       seen \cap (PendingStatuses \cup {"publishing"}) = {}
  /\ Decision = "published" => seen = {"published"}
=============================================================================
