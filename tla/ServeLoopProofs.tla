--------------------------- MODULE ServeLoopProofs ---------------------------
(* Theorems about ServeLoop for any requests, dispatchers and limit.         *)
EXTENDS ServeLoop, FiniteSetTheorems, TLAPS

LEMMA SetsFinite == IsFiniteSet(Handlers) /\ IsFiniteSet(Undoing)
BY ServeAssumption, FS_Subset DEF Handlers, Undoing

\* The two sets that own a slot, and what a step that moves one of their
\* members does to the count.
LEMMA CountsAreNat == Cardinality(Handlers) \in Nat /\ Cardinality(Undoing) \in Nat
BY SetsFinite, FS_CardinalityType

LEMMA InitAdmission == Init => AdmissionInv
<1> SUFFICES ASSUME Init PROVE AdmissionInv
  OBVIOUS
<1>1. Handlers = {} /\ Undoing = {}
  BY DEF Init, Handlers, Undoing
<1>2. QED
  BY <1>1, FS_EmptySet DEF Init, AdmissionInv, SlotsAccounted, States

LEMMA ArriveKeeps ==
  ASSUME AdmissionInv, NEW r \in Request, Arrive(r)
  PROVE  AdmissionInv'
<1> USE DEF AdmissionInv, Arrive
<1>1. Handlers' = Handlers /\ Undoing' = Undoing
  BY DEF Handlers, Undoing
<1>2. QED
  BY <1>1 DEF SlotsAccounted, States

LEMMA ReceiveKeeps ==
  ASSUME AdmissionInv, NEW d \in Dispatcher, NEW r \in Request, Receive(d, r)
  PROVE  AdmissionInv'
<1> USE DEF AdmissionInv, Receive, Free
<1>1. Handlers' = Handlers /\ Undoing' = Undoing
  BY DEF Handlers, Undoing
<1>2. \A e \in Dispatcher : pc[e] # "recv" => held[e] # r
  OBVIOUS
<1>3. QED
  BY <1>1, <1>2 DEF SlotsAccounted, States

LEMMA AdmitKeeps ==
  ASSUME AdmissionInv, NEW d \in Dispatcher, Admit(d)
  PROVE  AdmissionInv'
<1> USE DEF AdmissionInv, Admit
<1>1. held[d] \in Request /\ state[held[d]] = "held"
  OBVIOUS
<1>2. CASE AtLimit(inFlight)
  <2>1. Handlers' = Handlers /\ Undoing' = Undoing \cup {d} /\ d \notin Undoing
    BY <1>2 DEF Handlers, Undoing
  <2>2. Cardinality(Undoing') = Cardinality(Undoing) + 1
    BY <2>1, SetsFinite, FS_AddElement
  <2>3. SlotsAccounted'
    BY <2>1, <2>2, CountsAreNat DEF SlotsAccounted
  <2>4. QED
    BY <1>2, <2>3
<1>3. CASE ~AtLimit(inFlight)
  <2>1. /\ Handlers' = Handlers \cup {held[d]} /\ held[d] \notin Handlers
        /\ Undoing' = Undoing
    BY <1>1, <1>3 DEF Handlers, Undoing
  <2>2. Cardinality(Handlers') = Cardinality(Handlers) + 1
    BY <2>1, SetsFinite, FS_AddElement
  <2>3. SlotsAccounted'
    BY <2>1, <2>2, CountsAreNat DEF SlotsAccounted
  <2>4. QED
    BY <1>1, <1>3, <2>3 DEF States
<1>4. QED
  BY <1>2, <1>3

LEMMA UndoKeeps ==
  ASSUME AdmissionInv, NEW d \in Dispatcher, UndoSlot(d)
  PROVE  AdmissionInv'
<1> USE DEF AdmissionInv, UndoSlot
<1>1. Handlers' = Handlers /\ Undoing' = Undoing \ {d} /\ d \in Undoing
  BY DEF Handlers, Undoing
<1>2. Cardinality(Undoing') = Cardinality(Undoing) - 1
  BY <1>1, SetsFinite, FS_RemoveElement
<1>3. SlotsAccounted'
  BY <1>1, <1>2, CountsAreNat DEF SlotsAccounted, ReleaseSlot
<1>4. QED
  BY <1>3

LEMMA RefuseKeeps ==
  ASSUME AdmissionInv, NEW d \in Dispatcher, Refuse(d)
  PROVE  AdmissionInv'
<1> USE DEF AdmissionInv, Refuse
<1>1. held[d] \in Request /\ state[held[d]] = "held"
  OBVIOUS
<1>2. Handlers' = Handlers /\ Undoing' = Undoing
  BY <1>1 DEF Handlers, Undoing
<1>3. QED
  BY <1>1, <1>2 DEF SlotsAccounted, States

LEMMA HandlerKeeps ==
  ASSUME AdmissionInv, NEW r \in Request, HandlerStep(r)
  PROVE  AdmissionInv'
<1> USE DEF AdmissionInv
<1>1. CASE Respond(r)
  <2>1. Handlers' = Handlers /\ Undoing' = Undoing
    BY <1>1 DEF Respond, Handlers, Undoing
  <2>2. QED
    BY <1>1, <2>1 DEF Respond, SlotsAccounted, States
<1>2. CASE EndHandler(r)
  <2>1. Handlers' = Handlers \ {r} /\ r \in Handlers /\ Undoing' = Undoing
    BY <1>2 DEF EndHandler, Handlers, Undoing
  <2>2. Cardinality(Handlers') = Cardinality(Handlers) - 1
    BY <2>1, SetsFinite, FS_RemoveElement
  <2>3. SlotsAccounted'
    BY <1>2, <2>1, <2>2, CountsAreNat DEF EndHandler, SlotsAccounted, ReleaseSlot
  <2>4. QED
    BY <1>2, <2>3 DEF EndHandler, States
<1>3. QED
  BY <1>1, <1>2 DEF HandlerStep

LEMMA AdmissionInductive == AdmissionInv /\ [Next]_vars => AdmissionInv'
<1> SUFFICES ASSUME AdmissionInv, [Next]_vars PROVE AdmissionInv'
  OBVIOUS
<1>1. CASE UNCHANGED vars
  BY <1>1 DEF vars, AdmissionInv, SlotsAccounted, Handlers, Undoing
<1>2. ASSUME NEW d \in Dispatcher, DispatchStep(d) PROVE AdmissionInv'
  BY <1>2, ReceiveKeeps, AdmitKeeps, UndoKeeps, RefuseKeeps DEF DispatchStep
<1>3. QED
  BY <1>1, <1>2, ArriveKeeps, HandlerKeeps DEF Next, Quiet

LEMMA AdmissionInvariant == Spec => []AdmissionInv
<1>1. QED
  BY InitAdmission, AdmissionInductive, PTL DEF Spec

\* For any number of requests, dispatchers and slots: IN_FLIGHT counts exactly
\* the live handlers and the refusals not yet taken back.
THEOREM SlotsNeverLeak == Spec => []SlotsAccounted
<1>1. AdmissionInv => SlotsAccounted
  BY DEF AdmissionInv
<1>2. QED
  BY <1>1, AdmissionInvariant, PTL

-----------------------------------------------------------------------------
(* ServeLoop implements Admission.                                          *)

Mapped == [r \in Request |-> Fate(r)]

\* Admission's Cardinality is ours.
LEMMA SameCount == \A S : Abstract!Cardinality(S) = Cardinality(S)
BY DEF Abstract!Cardinality, Cardinality

\* Every refusal under way is one dispatcher's.
LEMMA RefusalsCounted ==
  ASSUME AdmissionInv
  PROVE  Cardinality({held[d] : d \in Undoing}) = Cardinality(Undoing)
         /\ IsFiniteSet({held[d] : d \in Undoing})
<1> DEFINE f == [d \in Undoing |-> held[d]]
           T == {held[d] : d \in Undoing}
<1>1. \A d, e \in Undoing : held[d] = held[e] => d = e
  BY DEF AdmissionInv, Undoing
<1>2. f \in Bijection(Undoing, T)
  <2>1. f \in [Undoing -> T] /\ \A d \in Undoing : f[d] = held[d]
    OBVIOUS
  <2>2. \A t \in T : \E d \in Undoing : f[d] = t
    OBVIOUS
  <2> HIDE DEF f, T
  <2>3. f \in Injection(Undoing, T)
    BY <1>1, <2>1 DEF Injection, IsInjective
  <2>4. f \in Surjection(Undoing, T)
    BY <2>1, <2>2 DEF Surjection
  <2>5. QED
    BY <2>3, <2>4 DEF Bijection
<1>3. ExistsBijection(Undoing, T)
  BY <1>2 DEF ExistsBijection
<1> HIDE DEF f, T
<1>4. IsFiniteSet(T) /\ Cardinality(T) = Cardinality(Undoing)
  BY <1>3, SetsFinite, FS_Bijection
<1>5. QED
  BY <1>4 DEF T

\* The slots Admission counts are those of IN_FLIGHT.
LEMMA TakenCounted ==
  ASSUME AdmissionInv
  PROVE  Abstract!Cardinality(Abstract!Taken) = inFlight
<1> DEFINE T == {held[d] : d \in Undoing}
<1>1. \A r \in Request : r \in T <=> state[r] = "held" /\ HeldAt(r, {"undo"})
  BY DEF AdmissionInv, Undoing, HeldAt
<1>2. T \subseteq Request /\ T \cap Handlers = {}
  BY DEF AdmissionInv, Undoing, Handlers
<1> HIDE DEF T
<1>3. Abstract!Taken = Handlers \cup T
  BY <1>1, <1>2 DEF Abstract!Taken, Fate, Handlers
<1>3a. \A S : Abstract!Cardinality(S) = Cardinality(S)
  BY SameCount
<1>4. Cardinality(T) = Cardinality(Undoing) /\ IsFiniteSet(T)
  BY RefusalsCounted DEF T
<1>5. Cardinality(Handlers \cup T) = Cardinality(Handlers) + Cardinality(Undoing)
  <2>1. Cardinality(Handlers \cap T) = 0
    BY <1>2, FS_EmptySet
  <2>2. Cardinality(Handlers \cup T) =
          Cardinality(Handlers) + Cardinality(T) - Cardinality(Handlers \cap T)
    BY <1>4, SetsFinite, FS_Union
  <2>3. QED
    BY <1>4, <2>1, <2>2, CountsAreNat
<1>6. QED
  BY <1>3, <1>3a, <1>5 DEF AdmissionInv, SlotsAccounted

\* A request's fate depends on its state and on the dispatcher that holds it.
LEMMA FateFrame ==
  ASSUME NEW r \in Request, state'[r] = state[r],
         state[r] = "held" => \A d \in Dispatcher :
           pc[d] \in {"undo", "refuse"} \/ pc'[d] \in {"undo", "refuse"} =>
             \/ held[d] # r /\ held'[d] # r
             \/ pc'[d] = pc[d] /\ held'[d] = held[d]
  PROVE  Fate(r)' = Fate(r)
BY DEF Fate, HeldAt, Handlers

LEMMA InitRefines == Init => Abstract!Init
BY DEF Init, Abstract!Init, Fate, Handlers

\* A request is admitted or refused at the fetch_add.
LEMMA AdmitRefines ==
  ASSUME AdmissionInv, NEW d \in Dispatcher, Admit(d)
  PROVE  Abstract!Next
<1> USE DEF AdmissionInv, Admit
<1> DEFINE h == held[d]
<1>1. h \in Request /\ state[h] = "held" /\ pc[d] = "admit"
  OBVIOUS
<1>2. \A e \in Dispatcher \ {d} : pc[e] # "recv" => held[e] # h
  OBVIOUS
<1>3. Fate(h) = "waiting"
  BY <1>1, <1>2 DEF Fate, Handlers, HeldAt
<1>4. \A r \in Request \ {h} : Fate(r)' = Fate(r)
  <2> SUFFICES ASSUME NEW r \in Request \ {h} PROVE Fate(r)' = Fate(r)
    OBVIOUS
  <2>1. state'[r] = state[r] /\ held' = held /\ \A e \in Dispatcher \ {d} : pc'[e] = pc[e]
    BY <1>1
  <2>2. QED
    BY <2>1, FateFrame
<1>5. CASE AtLimit(inFlight)
  <2>1. Fate(h)' = "refusing"
    BY <1>1, <1>5 DEF Fate, Handlers, HeldAt
  <2>2. Mapped' = [Mapped EXCEPT ![h] = "refusing"]
    BY <1>4, <2>1 DEF Mapped
  <2>3. Abstract!Refuse(h)
    BY <1>1, <1>3, <1>5, <2>2, TakenCounted
    DEF Abstract!Refuse, Abstract!Becomes, AtLimit, Mapped
  <2>4. QED
    BY <1>1, <2>3 DEF Abstract!Next
<1>6. CASE ~AtLimit(inFlight)
  <2>1. Fate(h)' = "serving"
    BY <1>1, <1>6 DEF Fate, Handlers
  <2>2. Mapped' = [Mapped EXCEPT ![h] = "serving"]
    BY <1>4, <2>1 DEF Mapped
  <2>3. inFlight < MaxInFlight
    BY <1>6, CountsAreNat, ServeAssumption DEF AtLimit, SlotsAccounted
  <2>4. Abstract!Accept(h)
    BY <1>1, <1>3, <2>2, <2>3, TakenCounted DEF Abstract!Accept, Abstract!Becomes, Mapped
  <2>5. QED
    BY <1>1, <2>4 DEF Abstract!Next
<1>7. QED
  BY <1>5, <1>6

\* The increment is taken back: the refusal no longer holds a slot.
LEMMA UndoRefines ==
  ASSUME AdmissionInv, NEW d \in Dispatcher, UndoSlot(d)
  PROVE  Abstract!Next
<1> USE DEF AdmissionInv, UndoSlot
<1> DEFINE h == held[d]
<1>1. h \in Request /\ state[h] = "held" /\ pc[d] = "undo" /\ pc'[d] = "refuse"
      /\ \A e \in Dispatcher \ {d} : pc[e] # "recv" => held[e] # h
  OBVIOUS
<1>2. Fate(h) = "refusing"
  BY <1>1 DEF Fate, Handlers, HeldAt
<1>3. Fate(h)' = "refused"
  BY <1>1 DEF Fate, Handlers, HeldAt
<1>4. \A r \in Request \ {h} : Fate(r)' = Fate(r)
  BY <1>1, FateFrame
<1>5. Mapped' = [Mapped EXCEPT ![h] = "refused"]
  BY <1>3, <1>4 DEF Mapped
<1>6. QED
  BY <1>1, <1>2, <1>5 DEF Abstract!Next, Abstract!Finish, Abstract!Becomes, Mapped

LEMMA EndRefines ==
  ASSUME AdmissionInv, NEW r \in Request, EndHandler(r)
  PROVE  Abstract!Next
<1> USE DEF AdmissionInv, EndHandler
<1>1. Fate(r) = "serving" /\ Fate(r)' = "served"
  BY DEF Fate, Handlers
<1>2. \A s \in Request \ {r} : Fate(s)' = Fate(s)
  BY FateFrame
<1>3. Mapped' = [Mapped EXCEPT ![r] = "served"]
  BY <1>1, <1>2 DEF Mapped
<1>4. QED
  BY <1>1, <1>3 DEF Abstract!Next, Abstract!Finish, Abstract!Becomes, Mapped

\* Steps the client cannot see.
LEMMA StutterRefines ==
  ASSUME AdmissionInv,
         \/ UNCHANGED vars
         \/ \E r \in Request : Arrive(r) \/ Respond(r)
         \/ \E d \in Dispatcher : Refuse(d) \/ \E r \in Request : Receive(d, r)
  PROVE  Mapped' = Mapped
<1> USE DEF AdmissionInv
<1> SUFFICES ASSUME NEW r \in Request PROVE Fate(r)' = Fate(r)
  BY DEF Mapped
<1>1. CASE UNCHANGED vars
  BY <1>1 DEF vars, Fate, HeldAt, Handlers
<1>2. ASSUME NEW s \in Request, Arrive(s) \/ Respond(s) PROVE Fate(r)' = Fate(r)
  BY <1>2 DEF Arrive, Respond, Fate, HeldAt, Handlers
<1>3. ASSUME NEW d \in Dispatcher, NEW s \in Request, Receive(d, s)
      PROVE  Fate(r)' = Fate(r)
  <2>1. \A e \in Dispatcher : pc[e] # "recv" => held[e] # s
    BY <1>3 DEF Receive
  <2>2. CASE r = s
    BY <1>3, <2>1, <2>2 DEF Receive, Fate, HeldAt, Handlers
  <2>3. CASE r # s
    <3>1. state'[r] = state[r] /\ \A e \in Dispatcher \ {d} : pc'[e] = pc[e] /\ held'[e] = held[e]
      BY <1>3, <2>3 DEF Receive
    <3>2. pc[d] = "recv" /\ pc'[d] = "admit"
      BY <1>3 DEF Receive, Free
    <3>3. QED
      BY <3>1, <3>2, FateFrame
  <2>4. QED
    BY <2>2, <2>3
<1>4. ASSUME NEW d \in Dispatcher, Refuse(d) PROVE Fate(r)' = Fate(r)
  <2>1. held[d] \in Request /\ state[held[d]] = "held" /\ pc[d] = "refuse"
        /\ \A e \in Dispatcher \ {d} : pc[e] # "recv" => held[e] # held[d]
    BY <1>4 DEF Refuse
  <2>2. CASE r = held[d]
    BY <1>4, <2>1, <2>2 DEF Refuse, Fate, HeldAt, Handlers
  <2>3. CASE r # held[d]
    BY <1>4, <2>1, <2>3, FateFrame DEF Refuse
  <2>4. QED
    BY <2>2, <2>3
<1>5. QED
  BY <1>1, <1>2, <1>3, <1>4

\* For any requests, dispatchers and limit: every step of the server is a step
\* of atomic admission, or invisible to the clients.
THEOREM AdmissionImplemented == Spec => ImplementsAdmission
<1>1. AdmissionInv /\ [Next]_vars => [Abstract!Next]_Mapped
  <2> SUFFICES ASSUME AdmissionInv, [Next]_vars PROVE Abstract!Next \/ Mapped' = Mapped
    OBVIOUS
  <2>1. QED
    BY StutterRefines, AdmitRefines, UndoRefines, EndRefines
    DEF Next, DispatchStep, HandlerStep, Quiet
<1>2. QED
  BY <1>1, InitRefines, AdmissionInvariant, PTL
  DEF Spec, ImplementsAdmission, Abstract!Spec, Mapped

=============================================================================
