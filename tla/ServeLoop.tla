------------------------------ MODULE ServeLoop ------------------------------
(***************************************************************************)
(* Admission control of the HTTP server (serve() in src/src/serve.rs): a   *)
(* few dispatcher threads take requests from tiny_http's queue and give    *)
(* each a thread of its own, unless MAX_IN_FLIGHT are already counted.     *)
(* The counter is a single atomic; a dispatcher that finds it too high     *)
(* takes its own increment back before it answers 503.                     *)
(***************************************************************************)
EXTENDS Integers, FiniteSets

CONSTANTS
  Request,       \* the requests ever made
  Slow,          \* those whose handler may never finish
  Dispatcher,    \* the dispatcher threads
  MaxInFlight    \* MAX_IN_FLIGHT

ASSUME ServeAssumption ==
  /\ IsFiniteSet(Request) /\ Slow \subseteq Request
  /\ IsFiniteSet(Dispatcher) /\ Dispatcher # {}
  /\ MaxInFlight \in Nat \ {0}

VARIABLES
  state,      \* per request: new, queued, held, handled, answered, done, refused
  pc,         \* per dispatcher: recv, admit, undo, refuse
  held,       \* per dispatcher: the request it received last
  inFlight    \* IN_FLIGHT

vars == <<state, pc, held, inFlight>>

None == "none"

\* Threads that hold a slot: spawned, and not yet past their fetch_sub.
Handlers == {r \in Request : state[r] \in {"handled", "answered"}}
Undoing == {d \in Dispatcher : pc[d] = "undo"}

Init ==
  /\ state = [r \in Request |-> "new"]
  /\ pc = [d \in Dispatcher |-> "recv"]
  /\ held = [d \in Dispatcher |-> None]
  /\ inFlight = 0

\* tiny_http queues whatever arrives.
Arrive(r) ==
  /\ state[r] = "new"
  /\ state' = [state EXCEPT ![r] = "queued"]
  /\ UNCHANGED <<pc, held, inFlight>>

\* Mutant: a dispatcher handles its request itself, as the earlier fixed pool
\* of workers did.
FreeAfterHandling(d) == pc[d] = "recv" /\ held[d] \notin Handlers

\* A dispatcher returns to recv as soon as it has spawned the handler.
Free(d) == pc[d] = "recv"

Receive(d, r) ==
  /\ Free(d) /\ state[r] = "queued"
  /\ state' = [state EXCEPT ![r] = "held"]
  /\ held' = [held EXCEPT ![d] = r]
  /\ pc' = [pc EXCEPT ![d] = "admit"]
  /\ UNCHANGED inFlight

\* Mutant: off by one at the limit.
OverLimit(n) == n > MaxInFlight

\* Tested on the value fetch_add returns, the one before the increment.
AtLimit(n) == n >= MaxInFlight

Admit(d) ==
  /\ pc[d] = "admit"
  /\ inFlight' = inFlight + 1
  /\ IF AtLimit(inFlight)
     THEN pc' = [pc EXCEPT ![d] = "undo"] /\ UNCHANGED state
     ELSE /\ pc' = [pc EXCEPT ![d] = "recv"]
          /\ state' = [state EXCEPT ![held[d]] = "handled"]
  /\ UNCHANGED held

\* Mutant: the refused increment stays.
KeepSlot(n) == n

ReleaseSlot(n) == n - 1

UndoSlot(d) ==
  /\ pc[d] = "undo"
  /\ inFlight' = ReleaseSlot(inFlight)
  /\ pc' = [pc EXCEPT ![d] = "refuse"]
  /\ UNCHANGED <<state, held>>

Refuse(d) ==
  /\ pc[d] = "refuse"
  /\ state' = [state EXCEPT ![held[d]] = "refused"]
  /\ pc' = [pc EXCEPT ![d] = "recv"]
  /\ UNCHANGED <<held, inFlight>>

\* The handler answers, with the page or with an error, then gives its slot back.
Respond(r) ==
  /\ state[r] = "handled"
  /\ state' = [state EXCEPT ![r] = "answered"]
  /\ UNCHANGED <<pc, held, inFlight>>

EndHandler(r) ==
  /\ state[r] = "answered"
  /\ state' = [state EXCEPT ![r] = "done"]
  /\ inFlight' = ReleaseSlot(inFlight)
  /\ UNCHANGED <<pc, held>>

DispatchStep(d) == (\E r \in Request : Receive(d, r)) \/ Admit(d) \/ UndoSlot(d) \/ Refuse(d)
HandlerStep(r) == Respond(r) \/ EndHandler(r)

\* Every request has been answered; the server waits for more.
Quiet == (\A r \in Request : state[r] \in {"done", "refused"}) /\ UNCHANGED vars

Next ==
  \/ \E r \in Request : Arrive(r) \/ HandlerStep(r)
  \/ \E d \in Dispatcher : DispatchStep(d)
  \/ Quiet

Spec == Init /\ [][Next]_vars

\* Dispatchers run, and so do handlers, but for the slow ones; requests need
\* not arrive.
FairSpec ==
  /\ Spec
  /\ \A d \in Dispatcher : WF_vars(DispatchStep(d))
  /\ \A r \in Request \ Slow : WF_vars(HandlerStep(r))

-----------------------------------------------------------------------------
(* Properties.                                                              *)

\* Every count in IN_FLIGHT belongs to a live handler or to a dispatcher about
\* to take it back: no path through refusal or completion leaks a slot.
SlotsAccounted == inFlight = Cardinality(Handlers) + Cardinality(Undoing)

HeldAt(r, where) == \E d \in Dispatcher : held[d] = r /\ pc[d] \in where

\* A refusal is decided by the fetch_add and occupies the counter until its
\* increment is taken back; the 503 itself is sent after that.
Fate(r) ==
  IF r \in Handlers THEN "serving"
  ELSE IF state[r] = "done" THEN "served"
  ELSE IF state[r] = "refused" THEN "refused"
  ELSE IF state[r] # "held" THEN "waiting"
  ELSE IF HeldAt(r, {"undo"}) THEN "refusing"
  ELSE IF HeldAt(r, {"refuse"}) THEN "refused" ELSE "waiting"

Abstract == INSTANCE Admission WITH fate <- [r \in Request |-> Fate(r)]

\* Dispatchers that test, overshoot and repair one atomic counter admit as the
\* atomic rule of Admission does: never more than MAX_IN_FLIGHT handlers, a
\* refusal only while handlers and refusals under way fill every slot, and each
\* request served or refused once.
ImplementsAdmission == Abstract!Spec

\* "A slow request can only ever tie up its own thread": every request that
\* arrives, unless it is itself one that never finishes, is answered, even when
\* such requests occupy every slot.
OthersAnswered ==
  \A r \in Request \ Slow : state[r] = "queued" ~> state[r] \in {"done", "refused"}

-----------------------------------------------------------------------------
(* Inductive strengthenings: what the proofs carry from step to step.       *)

States == {"new", "queued", "held", "handled", "answered", "done", "refused"}

\* A dispatcher past recv holds one request, which nobody else has; IN_FLIGHT is
\* the number of slots given away.
AdmissionInv ==
  /\ state \in [Request -> States]
  /\ pc \in [Dispatcher -> {"recv", "admit", "undo", "refuse"}]
  /\ DOMAIN held = Dispatcher
  /\ \A d \in Dispatcher : pc[d] # "recv" =>
       /\ held[d] \in Request /\ state[held[d]] = "held"
       /\ \A e \in Dispatcher \ {d} : pc[e] # "recv" => held[e] # held[d]
  /\ SlotsAccounted
=============================================================================
