------------------------------ MODULE Admission ------------------------------
(***************************************************************************)
(* What the HTTP server promises its clients: a request is admitted at     *)
(* once when fewer than MaxInFlight slots are taken, and refused at once   *)
(* otherwise.  A refusal takes a slot itself for an instant, so a burst    *)
(* can be refused a little early, but never admitted beyond the limit.     *)
(***************************************************************************)
EXTENDS Integers, FiniteSets

CONSTANTS Request, MaxInFlight

VARIABLE fate   \* of a request: waiting, serving, refusing, served, refused

Taken == {r \in Request : fate[r] \in {"serving", "refusing"}}

Init == fate = [r \in Request |-> "waiting"]

Becomes(r, from, to) == fate[r] = from /\ fate' = [fate EXCEPT ![r] = to]

Accept(r) == Cardinality(Taken) < MaxInFlight /\ Becomes(r, "waiting", "serving")
Refuse(r) == Cardinality(Taken) >= MaxInFlight /\ Becomes(r, "waiting", "refusing")
Finish(r) == Becomes(r, "serving", "served") \/ Becomes(r, "refusing", "refused")

Next == \E r \in Request : Accept(r) \/ Refuse(r) \/ Finish(r)

Spec == Init /\ [][Next]_fate
=============================================================================
