---------------------------- MODULE CrawlerProofs ----------------------------
(* Theorems about Crawler for every network, worker pool, cap and seed list,   *)
(* last the refinement of CrawlSpec.                                            *)
EXTENDS Crawler, SequenceTheorems, FiniteSetTheorems, TLAPS

\* What Load builds is well typed whenever the state it loads is.
LEMMA LoadTyped ==
  ASSUME NEW st \in SavedState, Load(st)
  PROVE  /\ phase' = "restore" /\ todo' \in Seq(Seed)
         /\ stack' \in [Pool -> Seq(Task)] /\ active' = 0 /\ waiting' = {}
         /\ seen' \subseteq Peer /\ nodes' \in [Peer -> Record]
         /\ edges' \subseteq Peer \X Peer
         /\ pc' = [w \in Worker |-> "next"] /\ task' = [w \in Worker |-> <<>>]
         /\ attempt' \in [Worker -> 0..Retries]
         /\ found' \in [Worker -> [Pool -> Seq(Task)]]
         /\ step' = 0 /\ save' \in SavedState /\ saves' = 0
         /\ popped' = {} /\ baseline' = {}
<1>1. st.frontier \in Seq(Task) /\ st.nodes \in [Peer -> Record]
      /\ st.edges \subseteq Peer \X Peer
  BY DEF SavedState
<1>2. Len(st.frontier) \in Nat /\ \A i \in 1..Len(st.frontier) : st.frontier[i] \in Task
  BY <1>1, ElementOfSeq, LenProperties
<1>3. \A i \in 1..Len(st.frontier) : AsSeed(st.frontier[i]) \in Seed
  BY <1>2 DEF AsSeed, Seed, Task
<1>4. todo' \in Seq(Seed)
  BY <1>2, <1>3, IsASeq DEF Load
<1>5. EmptyState \in SavedState
  BY DEF EmptyState, SavedState, Record
<1>6. 0 \in 0..Retries
  BY ConstantsAssumption
<1>7. QED
  BY <1>1, <1>4, <1>5, <1>6 DEF Load, EmptyStacks

LEMMA TasksFinite ==
  ASSUME NEW P, IsFiniteSet(P), NEW d
  PROVE  IsFiniteSet(Tasks(P, d))
<1>1. [c \in P |-> [peer |-> c, depth |-> d]] \in Surjection(P, Tasks(P, d))
  BY DEF Surjection, Tasks
<1>2. QED
  BY <1>1, FS_Surjection

\* An ordering of a set of tasks is a sequence of tasks.
LEMMA OrderingsTyped ==
  ASSUME NEW S, NEW T, IsFiniteSet(S), S \subseteq T, NEW s \in Orderings(S)
  PROVE  s \in Seq(T)
<1>1. Cardinality(S) \in Nat
  BY FS_CardinalityType
<1>2. QED
  BY <1>1, IsASeq DEF Orderings

LEMMA InitTyped == Init => TypeOK
<1> SUFFICES ASSUME Init PROVE TypeOK
  OBVIOUS
<1>1. EmptyState \in SavedState
  BY DEF EmptyState, SavedState, Record
<1>2. Busy = {}
  BY DEF Init, Busy
<1>3. 0 \in 0..Retries /\ 1 \in 1..MaxRuns /\ 0 \in 0..MaxSaves
  BY ConstantsAssumption
<1>4. EmptyState.nodes \in [Peer -> Record]
  BY DEF EmptyState, Record
<1>5. todo \in Seq(Seed) /\ stack \in [Pool -> Seq(Task)]
      /\ found \in [Worker -> [Pool -> Seq(Task)]]
  BY DEF Init, EmptyStacks
<1>6. QED
  BY <1>1, <1>2, <1>3, <1>4, <1>5 DEF Init, TypeOK

\* The stacks stay well typed when a task is pushed.
LEMMA PushTyped ==
  ASSUME NEW t, t.peer \in Peer, t.depth \in Nat, stack \in [Pool -> Seq(Task)],
         Push(t)
  PROVE  stack' \in [Pool -> Seq(Task)]
<1>1. [peer |-> t.peer, depth |-> t.depth] \in Task
  BY DEF Task
<1>2. PoolOf(t.peer) \in Pool
  BY DEF PoolOf, Pool
<1>3. Append(stack[PoolOf(t.peer)], [peer |-> t.peer, depth |-> t.depth]) \in Seq(Task)
  BY <1>1, <1>2, AppendProperties
<1>4. QED
  BY <1>2, <1>3 DEF Push

\* The head and tail of the list of entries still to be queued.
LEMMA TodoTyped ==
  ASSUME todo \in Seq(Seed), todo # <<>>
  PROVE  /\ Head(todo) \in Seed /\ Tail(todo) \in Seq(Seed)
         /\ Head(todo).peer \in Peer /\ Head(todo).depth \in Nat
         /\ Head(todo).pre \in BOOLEAN
<1>1. Head(todo) \in Seed /\ Tail(todo) \in Seq(Seed)
  BY HeadTailProperties
<1>2. QED
  BY <1>1 DEF Seed

LEMMA StartUpTyped == TypeOK /\ StartUp => TypeOK'
<1> SUFFICES ASSUME TypeOK, StartUp PROVE TypeOK'
  OBVIOUS
<1> USE DEF TypeOK
<1>1. CASE RestoreEntry
  <2>1. Head(todo).peer \in Peer /\ Head(todo).depth \in Nat /\ Tail(todo) \in Seq(Seed)
    BY <1>1, TodoTyped DEF RestoreEntry
  <2>2. stack' \in [Pool -> Seq(Task)]
    BY <1>1, <2>1, PushTyped DEF RestoreEntry
  <2>3. seen' \subseteq Peer
    BY <1>1, <2>1 DEF RestoreEntry
  <2>4. QED
    BY <1>1, <2>1, <2>2, <2>3 DEF RestoreEntry, workerVars, saveVars, Busy
<1>2. CASE SeedEntry
  <2>1. Head(todo).peer \in Peer /\ Head(todo).depth \in Nat /\ Tail(todo) \in Seq(Seed)
    BY <1>2, TodoTyped DEF SeedEntry
  <2>2. stack' \in [Pool -> Seq(Task)]
    BY <1>2, <2>1, PushTyped DEF SeedEntry
  <2>3. seen' \subseteq Peer /\ nodes' \in [Peer -> Record]
    BY <1>2, <2>1 DEF SeedEntry, Record
  <2>4. QED
    BY <1>2, <2>1, <2>2, <2>3 DEF SeedEntry, workerVars, saveVars, Busy
<1>3. CASE BeginSeeding
  BY <1>3, ConstantsAssumption
  DEF BeginSeeding, workerVars, saveVars, frontierVars, mapVars, Busy
<1>4. CASE SpawnWorkers
  BY <1>4 DEF SpawnWorkers, workerVars, saveVars, frontierVars, mapVars, Busy, Recorded
<1>5. QED
  BY <1>1, <1>2, <1>3, <1>4 DEF StartUp

LEMMA NextTaskTyped ==
  ASSUME TypeOK, NEW w \in Worker, NextTask(w)
  PROVE  TypeOK'
<1> USE DEF TypeOK
<1>0. PoolOfWorker(w) \in Pool
  BY DEF PoolOfWorker, Pool
<1>1. CASE PopTask(w)
  <2> DEFINE s == stack[PoolOfWorker(w)]
  <2>1. s \in Seq(Task) /\ s # <<>>
    BY <1>0, <1>1 DEF PopTask
  <2>2. Len(s) \in Nat \ {0} /\ s[Len(s)] \in Task
    BY <2>1, LenProperties, EmptySeq, ElementOfSeq
  <2>3. SubSeq(s, 1, Len(s) - 1) \in Seq(Task)
    BY <2>1, <2>2, SubSeqProperties
  <2>4. stack' \in [Pool -> Seq(Task)]
    BY <1>0, <1>1, <2>3 DEF PopTask
  <2>5. s[Len(s)].peer \in Peer
    BY <2>2 DEF Task
  <2>6. popped' \subseteq Peer
    BY <1>1, <2>5 DEF PopTask
  <2>7. task' \in [Worker -> Task \cup {<<>>}] /\ \A v \in Busy' : task'[v] \in Task
    BY <1>1, <2>2 DEF PopTask, Busy
  <2>8. QED
    BY <1>1, <2>4, <2>6, <2>7 DEF PopTask, NextTask, startVars, mapVars, saveVars
<1>2. CASE ExitLoop(w)
  BY <1>2 DEF ExitLoop, NextTask, startVars, mapVars, saveVars, Busy
<1>3. CASE WaitForWork(w)
  BY <1>3 DEF WaitForWork, NextTask, startVars, mapVars, saveVars, workerVars, Busy
<1>4. QED
  BY <1>1, <1>2, <1>3 DEF NextTask

LEMMA FinishTaskTyped ==
  ASSUME TypeOK, NEW w \in Worker, FinishTask(w)
  PROVE  TypeOK'
<1> USE DEF TypeOK
<1>1. \A q \in Pool : stack[q] \o found[w][q] \in Seq(Task)
  BY ConcatProperties
<1>2. stack' \in [Pool -> Seq(Task)]
  BY <1>1 DEF FinishTask
<1>3. waiting' \subseteq Worker
  BY DEF FinishTask, StillWaiting
<1>4. found' \in [Worker -> [Pool -> Seq(Task)]]
  BY DEF FinishTask, EmptyStacks
<1>5. attempt' \in [Worker -> 0..Retries]
  BY ConstantsAssumption DEF FinishTask
<1>6. \A v \in Busy' : task'[v] \in Task
  BY DEF FinishTask, Busy
<1>7. QED
  BY <1>2, <1>3, <1>4, <1>5, <1>6 DEF FinishTask, startVars, mapVars, saveVars

\* The children of a reply, in whatever order, are sequences of tasks.
LEMMA ExpandTyped ==
  ASSUME TypeOK, NEW w \in Worker, NEW disc \in SUBSET Peer, Expand(w, disc)
  PROVE  TypeOK'
<1> USE DEF TypeOK
<1> DEFINE reply == {c \in disc : Crawlable(c)}
           fresh == {x \in reply : IsNew(x)}
           Kids(q) == Tasks({x \in fresh : PoolOf(x) = q}, task[w].depth + 1)
<1>1. task[w].peer \in Peer /\ task[w].depth \in Nat
  BY DEF Expand, Busy, Task
<1>2. ASSUME NEW q \in Pool PROVE IsFiniteSet(Kids(q)) /\ Kids(q) \subseteq Task
  <2> DEFINE P == {x \in fresh : PoolOf(x) = q}
  <2>1. IsFiniteSet(P)
    BY FS_Subset, ConstantsAssumption
  <2>2. Kids(q) \subseteq Task
    BY <1>1 DEF Task, Tasks
  <2> HIDE DEF P
  <2>3. IsFiniteSet(Tasks(P, task[w].depth + 1))
    BY <2>1, TasksFinite
  <2>4. QED
    BY <2>2, <2>3 DEF P
<1>3. PICK c \in Orderings(Kids("clearnet")), o \in Orderings(Kids("onion")) :
        found' = [found EXCEPT ![w] = [q \in Pool |-> IF q = "onion" THEN o ELSE c]]
  BY DEF Expand
<1>4. c \in Seq(Task) /\ o \in Seq(Task)
  <2>1. "clearnet" \in Pool /\ "onion" \in Pool
    BY DEF Pool
  <2> HIDE DEF Kids
  <2>2. QED
    BY <1>2, <2>1, OrderingsTyped
<1>5. found' \in [Worker -> [Pool -> Seq(Task)]]
  BY <1>3, <1>4
<1>6. seen' \subseteq Peer
  BY DEF Expand
<1>7. edges' \subseteq Peer \X Peer
  <2>1. PICK new \in EdgeChoices(task[w].peer, reply) : edges' = edges \cup new
    BY DEF Expand
  <2>2. new \subseteq Peer \X Peer
    BY <1>1 DEF EdgeChoices
  <2>3. QED
    BY <2>1, <2>2
<1>8. task' = task /\ Busy' = Busy
  BY DEF Expand, Busy
<1>9. QED
  BY <1>5, <1>6, <1>7, <1>8
  DEF Expand, startVars, frontierVars, saveVars

LEMMA ProbeTyped ==
  ASSUME TypeOK, NEW w \in Worker, CheckCap(w) \/ ProbeStep(w)
  PROVE  TypeOK'
<1> USE DEF TypeOK, startVars, frontierVars, saveVars, mapVars
<1>1. CASE CheckCap(w)
  BY <1>1 DEF CheckCap, Busy
<1>2. CASE RetryProbe(w)
  <2>1. attempt' \in [Worker -> 0..Retries]
    BY <1>2, ConstantsAssumption DEF RetryProbe, MayRetry
  <2>2. QED
    BY <1>2, <2>1 DEF RetryProbe, Busy
<1>3. CASE RecordUp(w)
  <2>1. nodes' \in [Peer -> Record]
    BY <1>3 DEF RecordUp, Record
  <2>2. QED
    BY <1>3, <2>1 DEF RecordUp, Busy
<1>4. CASE RecordStub(w)
  <2>1. nodes' \in [Peer -> Record]
    BY <1>4 DEF RecordStub, StubIfAbsent, Record
  <2>2. QED
    BY <1>4, <2>1 DEF RecordStub, Busy
<1>5. QED
  BY <1>1, <1>2, <1>3, <1>4 DEF ProbeStep

\* What save_state assembles, part by part, is a saved state.
LEMMA ClonePartTyped == TypeOK /\ ClonePart => TypeOK'
<1> SUFFICES ASSUME TypeOK, ClonePart PROVE TypeOK'
  OBVIOUS
<1> USE DEF TypeOK
<1>1. stack["clearnet"] \o stack["onion"] \in Seq(Task)
  BY ConcatProperties DEF Pool
<1>2. save' \in SavedState
  <2>1. step = 1 \/ step = 2 \/ step = 3
    BY DEF ClonePart
  <2>2. CASE step = 1
    <3>1. save' = [save EXCEPT !.frontier = stack["clearnet"] \o stack["onion"]]
      BY <2>2 DEF ClonePart, SaveOrder
    <3>2. QED
      BY <1>1, <3>1 DEF SavedState
  <2>3. CASE step = 2
    <3>1. save' = [save EXCEPT !.nodes = nodes]
      BY <2>3 DEF ClonePart, SaveOrder
    <3>2. QED
      BY <3>1 DEF SavedState
  <2>4. CASE step = 3
    <3>1. save' = [save EXCEPT !.edges = edges]
      BY <2>4 DEF ClonePart, SaveOrder
    <3>2. QED
      BY <3>1 DEF SavedState
  <2>5. QED
    BY <2>1, <2>2, <2>3, <2>4
<1>3. Queued \subseteq Peer
  <2>1. ASSUME NEW q \in Pool, NEW i \in 1..Len(stack[q])
        PROVE  stack[q][i].peer \in Peer
    <3>1. stack[q][i] \in Task
      BY ElementOfSeq
    <3>2. QED
      BY <3>1 DEF Task
  <2>2. QED
    BY <2>1 DEF Queued, PeersIn
<1>4. owed' \in [saving : SUBSET Peer, disk : SUBSET Peer]
  BY <1>3 DEF ClonePart, TakeStock, Recorded
<1>5. step' \in 0..4
  BY DEF ClonePart
<1>6. Busy' = Busy
  BY DEF ClonePart, workerVars, Busy
<1>7. QED
  BY <1>2, <1>4, <1>5, <1>6
  DEF ClonePart, startVars, frontierVars, workerVars, mapVars

LEMMA SaveTyped == TypeOK /\ (BeginSave \/ WriteState) => TypeOK'
<1> SUFFICES ASSUME TypeOK, BeginSave \/ WriteState PROVE TypeOK'
  OBVIOUS
<1> USE DEF TypeOK, startVars, frontierVars, workerVars, mapVars
<1>1. CASE BeginSave
  <2>1. saves' \in 0..MaxSaves
    BY <1>1, ConstantsAssumption DEF BeginSave
  <2>2. QED
    BY <1>1, <2>1 DEF BeginSave, Busy
<1>2. CASE WriteState
  <2>1. save' \in SavedState
    BY <1>2 DEF WriteState, EmptyState, SavedState, Record
  <2>2. disk' \in SavedState
        /\ owed' \in [saving : SUBSET Peer, disk : SUBSET Peer]
    BY <1>2 DEF WriteState
  <2>3. QED
    BY <1>2, <2>1, <2>2 DEF WriteState, Busy
<1>3. QED
  BY <1>1, <1>2

LEMMA RestartTyped == TypeOK /\ Restart => TypeOK'
<1> SUFFICES ASSUME TypeOK, Restart PROVE TypeOK'
  OBVIOUS
<1>1. PICK st \in SavedState : Load(st)
  <2>1. EmptyState \in SavedState
    BY DEF EmptyState, SavedState, Record
  <2>2. QED
    BY <2>1 DEF Restart, TypeOK
<1>2. Busy' = {}
  BY <1>1, LoadTyped DEF Busy
<1>3. owed' \in [saving : SUBSET Peer, disk : SUBSET Peer]
  BY DEF Restart, TypeOK
<1>4. run' \in 1..MaxRuns /\ 0 \in 0..MaxSaves
  BY ConstantsAssumption DEF Restart, TypeOK
<1>5. disk' \in SavedState
  BY DEF Restart, TypeOK
<1>6. QED
  BY <1>1, <1>2, <1>3, <1>4, <1>5, LoadTyped DEF TypeOK

LEMMA NextTyped == TypeOK /\ [Next]_vars => TypeOK'
<1> SUFFICES ASSUME TypeOK, [Next]_vars PROVE TypeOK'
  OBVIOUS
<1>1. ASSUME NEW w \in Worker, WorkerStep(w) PROVE TypeOK'
  <2>1. CASE ExpandStep(w)
    <3>1. task[w].peer \in Peer
      BY <2>1 DEF ExpandStep, TypeOK, Busy, Task
    <3>2. PICK disc \in SUBSET Peer : Expand(w, disc)
      BY <2>1, <3>1, ConstantsAssumption DEF ExpandStep
    <3>3. QED
      BY <3>2, ExpandTyped
  <2>2. QED
    BY <1>1, <2>1, NextTaskTyped, FinishTaskTyped, ProbeTyped DEF WorkerStep
<1>2. ASSUME NEW w \in Worker, SpuriousWakeup(w) PROVE TypeOK'
  BY <1>2 DEF SpuriousWakeup, TypeOK, startVars, workerVars, mapVars, saveVars, Busy
<1>3. CASE JoinWorkers \/ JoinMonitor
  BY <1>3 DEF JoinWorkers, JoinMonitor, TypeOK, frontierVars, workerVars, mapVars,
              saveVars, Busy
<1>4. CASE UNCHANGED vars
  BY <1>4 DEF vars, startVars, frontierVars, workerVars, mapVars, saveVars, TypeOK, Busy
<1>5. QED
  BY <1>1, <1>2, <1>3, <1>4, StartUpTyped, ClonePartTyped, SaveTyped, RestartTyped
  DEF Next, Finished

\* Type correctness of the crawl: in particular a retry counter never exceeds
\* cfg.retries and every busy worker holds a task.
THEOREM TypeCorrect == Spec => []TypeOK
<1>1. QED
  BY InitTyped, NextTyped, PTL DEF Spec

-----------------------------------------------------------------------------
(* Termination detection: who may sleep and who may leave.                  *)

LEMMA BusyFinite == IsFiniteSet(Worker) /\ IsFiniteSet(Busy)
<1>1. IsFiniteSet(Worker)
  BY ConstantsAssumption, FS_Union, FS_EmptySet DEF Worker
<1>2. QED
  BY <1>1, FS_Subset DEF Busy

\* active reaches zero exactly when no worker is busy.
LEMMA NobodyBusy == ActiveCount /\ active = 0 => Busy = {}
BY BusyFinite, FS_EmptySet DEF ActiveCount

\* A worker that takes a task is counted; one that finishes is discounted.
LEMMA CountEnter ==
  ASSUME NEW w \in Worker, w \notin Busy, Busy' = Busy \cup {w},
         active' = active + 1, ActiveCount
  PROVE  ActiveCount'
BY BusyFinite, FS_AddElement DEF ActiveCount

LEMMA CountLeave ==
  ASSUME NEW w \in Busy, Busy' = Busy \ {w}, active' = active - 1, ActiveCount
  PROVE  ActiveCount'
BY BusyFinite, FS_RemoveElement DEF ActiveCount

\* Steps that leave the frontier, the wait sets and the set of busy workers
\* alone preserve the invariant as long as nobody leaves.
LEMMA PoolInvFrame ==
  ASSUME PoolInv, UNCHANGED <<stack, active, waiting>>, Busy' = Busy, QuietStart',
         \A w \in Worker : pc'[w] = "exited" => pc[w] = "exited"
  PROVE  PoolInv'
BY DEF PoolInv, ActiveCount, NoLostWakeup, ExitOnlyWhenFinished, Exhausted, FrontierEmpty

LEMMA NextTaskPool ==
  ASSUME TypeOK, PoolInv, NEW w \in Worker, NextTask(w)
  PROVE  PoolInv'
<1> USE DEF PoolInv
<1>1. PoolOfWorker(w) \in Pool /\ pc \in [Worker -> {"next", "cap", "probe", "expand", "finish", "exited"}]
  BY DEF PoolOfWorker, Pool, TypeOK
<1>2. QuietStart'
  BY DEF NextTask, QuietStart, startVars
<1>3. CASE PopTask(w)
  <2>1. w \notin Busy /\ Busy' = Busy \cup {w}
    BY <1>1, <1>3 DEF NextTask, PopTask, Busy
  <2>2. ActiveCount'
    BY <1>3, <2>1, CountEnter DEF PopTask
  <2>3. active' # 0
    <3>1. Cardinality(Busy) \in Nat
      BY BusyFinite, FS_CardinalityType
    <3>2. QED
      BY <1>3, <3>1 DEF PopTask, ActiveCount
  <2>4. NoLostWakeup'
    <3>1. ASSUME NEW v \in waiting PROVE stack'[PoolOfWorker(v)] = <<>>
      <4>1. PoolOfWorker(v) # PoolOfWorker(w)
        BY <1>3 DEF PopTask, NoLostWakeup
      <4>2. PoolOfWorker(v) \in Pool
        BY DEF PoolOfWorker, Pool
      <4>3. stack'[PoolOfWorker(v)] = stack[PoolOfWorker(v)]
        BY <1>3, <4>1, <4>2 DEF PopTask, TypeOK
      <4>4. QED
        BY <4>3 DEF NoLostWakeup
    <3>2. QED
      BY <1>3, <2>3, <3>1 DEF PopTask, NoLostWakeup, Exhausted
  <2>5. ExitOnlyWhenFinished'
    <3>1. ~\E v \in Worker : pc[v] = "exited"
      BY <1>1, <1>3 DEF PopTask, ExitOnlyWhenFinished, FrontierEmpty
    <3>2. QED
      BY <1>1, <1>3, <3>1 DEF PopTask, ExitOnlyWhenFinished
  <2>6. QED
    BY <1>2, <2>2, <2>4, <2>5
<1>4. CASE ExitLoop(w)
  <2>1. Busy = {} /\ FrontierEmpty
    BY <1>4, NobodyBusy DEF ExitLoop, Exhausted
  <2>2. Busy' = Busy
    BY <1>1, <1>4 DEF ExitLoop, NextTask, Busy
  <2>3. stack' = stack /\ active' = active /\ waiting' = {}
    BY <1>4 DEF ExitLoop
  <2>4. QED
    BY <1>2, <2>1, <2>2, <2>3
    DEF ActiveCount, NoLostWakeup, ExitOnlyWhenFinished, FrontierEmpty
<1>5. CASE WaitForWork(w)
  <2>1. stack' = stack /\ active' = active /\ Busy' = Busy /\ pc' = pc
    BY <1>5 DEF WaitForWork, workerVars, Busy
  <2>2. NoLostWakeup'
    BY <1>5, <2>1 DEF WaitForWork, NoLostWakeup, Exhausted, FrontierEmpty
  <2>3. QED
    BY <1>2, <2>1, <2>2 DEF ActiveCount, ExitOnlyWhenFinished, FrontierEmpty
<1>6. QED
  BY <1>3, <1>4, <1>5 DEF NextTask

LEMMA FinishTaskPool ==
  ASSUME TypeOK, PoolInv, NEW w \in Worker, FinishTask(w)
  PROVE  PoolInv'
<1> USE DEF PoolInv
<1>1. w \in Busy /\ Busy' = Busy \ {w}
  BY DEF FinishTask, Busy, TypeOK
<1>2. ActiveCount'
  BY <1>1, CountLeave DEF FinishTask
<1>3. \A v \in Worker : pc[v] # "exited" /\ pc'[v] # "exited"
  BY <1>1 DEF ExitOnlyWhenFinished, FinishTask, TypeOK
<1>4. phase \notin {"restore", "seed"} /\ phase' = phase
  BY DEF QuietStart, FinishTask, startVars
<1>5. NoLostWakeup'
  <2>1. ASSUME NEW v \in waiting' PROVE stack'[PoolOfWorker(v)] = <<>> /\ ~Exhausted'
    <3>1. ~Exhausted' /\ v \in waiting /\ found[w][PoolOfWorker(v)] = <<>>
      BY DEF FinishTask, StillWaiting, Exhausted, FrontierEmpty
    <3>2. stack[PoolOfWorker(v)] = <<>> /\ PoolOfWorker(v) \in Pool
      BY <3>1 DEF NoLostWakeup, PoolOfWorker, Pool
    <3>3. stack'[PoolOfWorker(v)] = <<>> \o <<>>
      BY <3>1, <3>2 DEF FinishTask
    <3>4. QED
      BY <3>1, <3>3
  <2>2. QED
    BY <2>1 DEF NoLostWakeup
<1>6. QED
  BY <1>2, <1>3, <1>4, <1>5 DEF ExitOnlyWhenFinished, QuietStart

LEMMA StartUpPool == TypeOK /\ PoolInv /\ StartUp => PoolInv'
<1> SUFFICES ASSUME TypeOK, PoolInv, StartUp PROVE PoolInv'
  OBVIOUS
<1> USE DEF PoolInv
<1>1. phase \in {"restore", "seed"} /\ waiting = {} /\ (\A w \in Worker : pc[w] = "next")
  BY DEF StartUp, RestoreEntry, SeedEntry, BeginSeeding, SpawnWorkers, QuietStart
<1>2. UNCHANGED <<pc, found, waiting, active, popped, step>>
  BY DEF StartUp, RestoreEntry, SeedEntry, BeginSeeding, SpawnWorkers,
         workerVars, frontierVars, saveVars
<1>3. QuietStart'
  BY <1>1, <1>2 DEF QuietStart
<1>4. Busy' = Busy
  BY <1>2 DEF Busy
<1>5. QED
  BY <1>1, <1>2, <1>3, <1>4 DEF ActiveCount, NoLostWakeup, ExitOnlyWhenFinished

LEMMA RestartPool == TypeOK /\ Restart => PoolInv'
<1> SUFFICES ASSUME TypeOK, Restart PROVE PoolInv'
  OBVIOUS
<1>1. active' = 0 /\ waiting' = {} /\ pc' = [w \in Worker |-> "next"] /\ popped' = {}
      /\ step' = 0 /\ found' = [w \in Worker |-> EmptyStacks]
  BY DEF Restart, Load
<1>2. Busy' = {}
  BY <1>1 DEF Busy
<1>3. QED
  BY <1>1, <1>2, FS_EmptySet
  DEF PoolInv, QuietStart, ActiveCount, NoLostWakeup, ExitOnlyWhenFinished

LEMMA OtherPool ==
  ASSUME TypeOK, PoolInv, NEW w \in Worker,
         CheckCap(w) \/ ProbeStep(w) \/ ExpandStep(w)
  PROVE  PoolInv'
<1>1. UNCHANGED <<stack, active, waiting, phase, popped, step>>
  BY DEF CheckCap, ProbeStep, RetryProbe, RecordUp, RecordStub, ExpandStep, Expand,
         frontierVars, startVars, saveVars
<1>2. Busy' = Busy
  BY DEF CheckCap, ProbeStep, RetryProbe, RecordUp, RecordStub, ExpandStep, Expand,
         Busy, TypeOK
<1>3. \A v \in Worker : pc'[v] = "exited" => pc[v] = "exited"
  BY DEF CheckCap, ProbeStep, RetryProbe, RecordUp, RecordStub, ExpandStep, Expand,
         TypeOK
<1>4. phase \notin {"restore", "seed"}
  BY DEF CheckCap, ProbeStep, RetryProbe, RecordUp, RecordStub, ExpandStep, Expand,
         PoolInv, QuietStart
<1>5. QED
  BY <1>1, <1>2, <1>3, <1>4, PoolInvFrame DEF QuietStart

LEMMA MainPool ==
  ASSUME TypeOK, PoolInv,
         BeginSave \/ ClonePart \/ WriteState \/ JoinWorkers \/ JoinMonitor
           \/ UNCHANGED vars
  PROVE  PoolInv'
<1>1. UNCHANGED <<stack, active, waiting, pc, found, popped>>
  BY DEF BeginSave, ClonePart, WriteState, JoinWorkers, JoinMonitor, vars,
         frontierVars, workerVars
<1>2. Busy' = Busy
  BY <1>1 DEF Busy
<1>3. QuietStart'
  <2>1. ASSUME phase' \in {"restore", "seed"}
        PROVE  phase' = phase /\ step' = step
    <3>1. phase \in {"restore", "seed"} => step = 0
      BY DEF PoolInv, QuietStart
    <3>2. CASE BeginSave
      BY <2>1, <3>2 DEF BeginSave, startVars
    <3>3. CASE ClonePart \/ WriteState
      <4>1. step # 0 /\ (phase' = phase \/ phase' = "done")
        <5>1. CASE ClonePart
          <6>1. step \in 1..3 /\ UNCHANGED startVars
            BY <5>1, Zenon DEF ClonePart
          <6>2. QED
            BY <6>1 DEF startVars
        <5>2. CASE WriteState
          BY <5>2 DEF WriteState
        <5>3. QED
          BY <3>3, <5>1, <5>2
      <4>2. QED
        BY <2>1, <3>1, <4>1
    <3>4. CASE JoinWorkers \/ JoinMonitor \/ UNCHANGED vars
      BY <2>1, <3>4 DEF JoinWorkers, JoinMonitor, vars, startVars, saveVars
    <3>5. QED
      BY <3>2, <3>3, <3>4
  <2>2. QED
    BY <1>1, <2>1 DEF PoolInv, QuietStart
<1>4. QED
  BY <1>1, <1>2, <1>3, PoolInvFrame

LEMMA SpuriousPool ==
  ASSUME PoolInv, NEW w \in Worker, SpuriousWakeup(w)
  PROVE  PoolInv'
<1>1. UNCHANGED <<stack, active, pc, found, popped, phase, step>> /\ waiting' \subseteq waiting
  BY DEF SpuriousWakeup, startVars, workerVars, saveVars
<1>2. Busy' = Busy
  BY <1>1 DEF Busy
<1>3. QED
  BY <1>1, <1>2 DEF PoolInv, QuietStart, ActiveCount, NoLostWakeup,
                    ExitOnlyWhenFinished, Exhausted, FrontierEmpty

LEMMA PoolInductive == TypeOK /\ PoolInv /\ [Next]_vars => PoolInv'
<1> SUFFICES ASSUME TypeOK, PoolInv, [Next]_vars PROVE PoolInv'
  OBVIOUS
<1>1. ASSUME NEW w \in Worker, WorkerStep(w) PROVE PoolInv'
  BY <1>1, NextTaskPool, FinishTaskPool, OtherPool DEF WorkerStep
<1>2. QED
  BY <1>1, SpuriousPool, StartUpPool, RestartPool, MainPool DEF Next, Finished

LEMMA InitPool == Init => PoolInv
<1> SUFFICES ASSUME Init PROVE PoolInv
  OBVIOUS
<1>1. Busy = {}
  BY DEF Init, Busy
<1>2. QED
  BY <1>1, FS_EmptySet
  DEF Init, PoolInv, QuietStart, ActiveCount, NoLostWakeup, ExitOnlyWhenFinished

LEMMA PoolInvariant == Spec => []PoolInv
<1>1. QED
  BY TypeCorrect, InitPool, PoolInductive, PTL DEF Spec

\* For any pools and any network: no worker ever sleeps through work queued for
\* its pool or through the end of the crawl, although finish_task wakes only the
\* pools it has queued work for.
THEOREM WakeupsNeverLost == Spec => []NoLostWakeup
<1>1. PoolInv => NoLostWakeup
  BY DEF PoolInv
<1>2. QED
  BY <1>1, PoolInvariant, PTL

\* For any pools and any network: next_task lets a worker go only when the whole
\* crawl is finished.
THEOREM ExitIsFinal == Spec => []ExitOnlyWhenFinished
<1>1. PoolInv => ExitOnlyWhenFinished
  BY DEF PoolInv
<1>2. QED
  BY <1>1, PoolInvariant, PTL

-----------------------------------------------------------------------------
(* save_state: what the file must hold although the crawl goes on.          *)

LEMMA PeersInConcat ==
  ASSUME NEW S, NEW s \in Seq(S), NEW t \in Seq(S)
  PROVE  PeersIn(s \o t) = PeersIn(s) \cup PeersIn(t)
<1>1. /\ Len(s \o t) = Len(s) + Len(t) /\ Len(s) \in Nat /\ Len(t) \in Nat
      /\ \A i \in 1..(Len(s) + Len(t)) :
           (s \o t)[i] = IF i <= Len(s) THEN s[i] ELSE t[i - Len(s)]
  BY ConcatProperties, LenProperties
<1>2. ASSUME NEW p \in PeersIn(s \o t) PROVE p \in PeersIn(s) \cup PeersIn(t)
  <2>1. PICK i \in 1..(Len(s) + Len(t)) : p = (s \o t)[i].peer
    BY <1>1 DEF PeersIn
  <2>2. CASE i <= Len(s)
    BY <1>1, <2>1, <2>2 DEF PeersIn
  <2>3. CASE ~(i <= Len(s))
    <3>1. i - Len(s) \in 1..Len(t) /\ p = t[i - Len(s)].peer
      BY <1>1, <2>1, <2>3
    <3>2. QED
      BY <3>1 DEF PeersIn
  <2>4. QED
    BY <2>2, <2>3
<1>3. ASSUME NEW p \in PeersIn(s) PROVE p \in PeersIn(s \o t)
  <2>1. PICK i \in 1..Len(s) : p = s[i].peer
    BY DEF PeersIn
  <2>2. i \in 1..Len(s \o t) /\ p = (s \o t)[i].peer
    BY <1>1, <2>1
  <2>3. QED
    BY <2>2 DEF PeersIn
<1>4. ASSUME NEW p \in PeersIn(t) PROVE p \in PeersIn(s \o t)
  <2>1. PICK j \in 1..Len(t) : p = t[j].peer
    BY DEF PeersIn
  <2>2. j + Len(s) \in 1..Len(s \o t) /\ p = (s \o t)[j + Len(s)].peer
    BY <1>1, <2>1
  <2>3. QED
    BY <2>2 DEF PeersIn
<1>5. QED
  BY <1>2, <1>3, <1>4

\* Within a run no step but a restart takes a record away.
LEMMA RecordedGrows ==
  ASSUME TypeOK, [Next]_vars, ~Restart
  PROVE  Recorded \subseteq Recorded'
<1>1. CASE SeedEntry
  BY <1>1 DEF SeedEntry, Recorded, TypeOK
<1>2. ASSUME NEW w \in Worker, RecordUp(w) PROVE Recorded \subseteq Recorded'
  BY <1>2 DEF RecordUp, Recorded, TypeOK
<1>3. ASSUME NEW w \in Worker, RecordStub(w) PROVE Recorded \subseteq Recorded'
  BY <1>3 DEF RecordStub, StubIfAbsent, Recorded, TypeOK
<1>4. CASE nodes' = nodes
  BY <1>4 DEF Recorded
<1>5. \/ SeedEntry \/ nodes' = nodes
      \/ \E w \in Worker : RecordUp(w) \/ RecordStub(w)
  BY Zenon DEF Next, StartUp, RestoreEntry, BeginSeeding, SpawnWorkers, WorkerStep,
     NextTask, CheckCap, ProbeStep, RetryProbe, ExpandStep, Expand, FinishTask,
     SpuriousWakeup, BeginSave, ClonePart, WriteState, JoinWorkers, JoinMonitor,
     Finished, vars, mapVars
<1>6. QED
  BY <1>1, <1>2, <1>3, <1>4, <1>5

\* Only the steps of save_state and a restart touch the copy and the file.
LEMMA SaveFrame ==
  ASSUME [Next]_vars, ~Restart, ~ClonePart, ~WriteState
  PROVE  UNCHANGED <<save, disk, owed>> /\ (step' = step \/ step' = 1)
<1>1. CASE BeginSave
  BY <1>1, Zenon DEF BeginSave
<1>2. CASE StartUp
  BY <1>2, Zenon DEF StartUp, RestoreEntry, SeedEntry, BeginSeeding, SpawnWorkers, saveVars
<1>3. ASSUME NEW w \in Worker, WorkerStep(w) \/ SpuriousWakeup(w)
      PROVE  UNCHANGED <<saveVars, owed>>
  BY <1>3, Zenon DEF WorkerStep, NextTask, CheckCap, ProbeStep, RetryProbe, RecordUp,
     RecordStub, ExpandStep, Expand, FinishTask, SpuriousWakeup
<1>4. CASE JoinWorkers \/ JoinMonitor
  BY <1>4, Zenon DEF JoinWorkers, JoinMonitor, saveVars
<1>5. CASE UNCHANGED vars
  BY <1>5 DEF vars, saveVars
<1>6. QED
  BY <1>1, <1>2, <1>3, <1>4, <1>5 DEF Next, Finished, saveVars

LEMMA CloneKeeps == TypeOK /\ SaveInv /\ ClonePart => SaveInv'
<1> SUFFICES ASSUME TypeOK, SaveInv, ClonePart PROVE SaveInv'
  OBVIOUS
<1>1. step \in 1..3 /\ step' = step + 1 /\ nodes' = nodes /\ disk' = disk
  BY Zenon DEF ClonePart, mapVars
<1>2. owed \in [saving : SUBSET Peer, disk : SUBSET Peer]
  BY DEF TypeOK
<1>3. TakeStock
  BY Zenon DEF ClonePart
<1>4. owed'.disk = owed.disk
  BY <1>2, <1>3 DEF TakeStock
<1>5. save \in SavedState
  BY DEF TypeOK
<1>6. CASE step = 1
  <2>1. save' = [save EXCEPT !.frontier = stack["clearnet"] \o stack["onion"]]
    BY <1>6 DEF ClonePart, SaveOrder
  <2>2. save'.frontier = stack["clearnet"] \o stack["onion"]
    BY <1>5, <2>1 DEF SavedState
  <2>3. PeersIn(save'.frontier) = Queued
    <3>1. stack["clearnet"] \in Seq(Task) /\ stack["onion"] \in Seq(Task)
      BY DEF TypeOK, Pool
    <3>2. Queued = PeersIn(stack["clearnet"]) \cup PeersIn(stack["onion"])
      BY DEF Queued, Pool
    <3>3. QED
      BY <2>2, <3>1, <3>2, PeersInConcat
  <2>4. owed'.saving = Queued \cup Recorded
    BY <1>2, <1>3, <1>6 DEF TakeStock
  <2>5. Recorded' = Recorded
    BY <1>1 DEF Recorded
  <2>6. QED
    BY <1>1, <1>4, <1>6, <2>3, <2>4, <2>5 DEF SaveInv, QueuedPeersSaved
<1>7. CASE step = 2
  <2>1. save' = [save EXCEPT !.nodes = nodes]
    BY <1>7 DEF ClonePart, SaveOrder
  <2>2. save'.nodes = nodes /\ save'.frontier = save.frontier
    BY <1>5, <2>1 DEF SavedState
  <2>3. owed' = owed
    BY <1>3, <1>7 DEF TakeStock
  <2>4. owed.saving \subseteq PeersIn(save.frontier) \cup Recorded
    BY <1>7 DEF SaveInv
  <2>5. owed'.saving \subseteq PeersIn(save'.frontier)
                              \cup {p \in Peer : save'.nodes[p] # "absent"}
    BY <2>2, <2>3, <2>4 DEF Recorded
  <2>6. QED
    BY <1>1, <1>4, <1>7, <2>5 DEF SaveInv, QueuedPeersSaved
<1>8. CASE step = 3
  <2>1. save' = [save EXCEPT !.edges = edges]
    BY <1>8 DEF ClonePart, SaveOrder
  <2>2. save'.nodes = save.nodes /\ save'.frontier = save.frontier
    BY <1>5, <2>1 DEF SavedState
  <2>3. owed' = owed
    BY <1>3, <1>8 DEF TakeStock
  <2>4. QED
    BY <1>1, <1>8, <2>2, <2>3 DEF SaveInv, QueuedPeersSaved
<1>9. QED
  BY <1>1, <1>6, <1>7, <1>8

LEMMA SaveInductive == TypeOK /\ SaveInv /\ [Next]_vars => SaveInv'
<1> SUFFICES ASSUME TypeOK, SaveInv, [Next]_vars PROVE SaveInv'
  OBVIOUS
<1>1. CASE Restart
  <2>1. step' = 0 /\ disk' = disk
    BY <1>1, Zenon DEF Restart, Load
  <2>2. owed'.disk = owed.disk
    BY <1>1 DEF Restart, TypeOK
  <2>3. QED
    BY <2>1, <2>2 DEF SaveInv, QueuedPeersSaved
<1>2. CASE WriteState
  <2>1. step = 4 /\ step' = 0
    BY <1>2 DEF WriteState
  <2>2. \/ disk' = save /\ owed'.disk = owed.saving
        \/ disk' = disk /\ owed' = owed
    BY <1>2 DEF WriteState, TypeOK
  <2>3. QED
    BY <2>1, <2>2 DEF SaveInv, QueuedPeersSaved
<1>3. CASE ~Restart /\ ~WriteState /\ ~ClonePart
  <2>1. UNCHANGED <<save, disk, owed>> /\ (step' = step \/ step' = 1)
    BY <1>3, SaveFrame
  <2>2. Recorded \subseteq Recorded'
    BY <1>3, RecordedGrows
  <2>3. QED
    BY <2>1, <2>2 DEF SaveInv, QueuedPeersSaved
<1>4. QED
  BY <1>1, <1>2, <1>3, CloneKeeps

\* For any interleaving of a save with the workers, and across restarts: a peer
\* that was queued or recorded when save_state began is in the file it writes.
THEOREM SavesKeepQueuedPeers == Spec => []QueuedPeersSaved
<1>1. Init => SaveInv
  BY DEF Init, SaveInv, QueuedPeersSaved
<1>2. SaveInv => QueuedPeersSaved
  BY DEF SaveInv
<1>3. QED
  BY <1>1, <1>2, TypeCorrect, SaveInductive, PTL DEF Spec

-----------------------------------------------------------------------------
(* Each peer is handed out once: lemmas about stacks without repetition.    *)

LEMMA UniqueAppend ==
  ASSUME NEW S, NEW s \in Seq(S), NEW t \in S, Unique(s), t.peer \notin PeersIn(s)
  PROVE  Unique(Append(s, t)) /\ PeersIn(Append(s, t)) = PeersIn(s) \cup {t.peer}
<1>1. /\ Len(Append(s, t)) = Len(s) + 1 /\ Len(s) \in Nat
      /\ \A i \in 1..Len(s) : Append(s, t)[i] = s[i]
      /\ Append(s, t)[Len(s) + 1] = t
  BY AppendProperties, LenProperties
<1>2. \A i \in 1..Len(s) : s[i].peer # t.peer
  BY DEF PeersIn
<1>3. Unique(Append(s, t))
  <2> SUFFICES ASSUME NEW i \in 1..(Len(s) + 1), NEW j \in 1..(Len(s) + 1),
                      Append(s, t)[i].peer = Append(s, t)[j].peer
               PROVE  i = j
    BY <1>1 DEF Unique
  <2>1. CASE i \in 1..Len(s) /\ j \in 1..Len(s)
    BY <1>1, <2>1 DEF Unique
  <2>2. CASE ~(i \in 1..Len(s) /\ j \in 1..Len(s))
    BY <1>1, <1>2, <2>2
  <2>3. QED
    BY <2>1, <2>2
<1>4. PeersIn(Append(s, t)) = PeersIn(s) \cup {t.peer}
  BY <1>1 DEF PeersIn
<1>5. QED
  BY <1>3, <1>4

LEMMA UniqueFront ==
  ASSUME NEW S, NEW s \in Seq(S), s # <<>>, Unique(s)
  PROVE  LET f == SubSeq(s, 1, Len(s) - 1)
         IN  /\ Unique(f) /\ PeersIn(s) = PeersIn(f) \cup {s[Len(s)].peer}
             /\ s[Len(s)].peer \notin PeersIn(f)
<1> DEFINE f == SubSeq(s, 1, Len(s) - 1)
<1>1. Len(s) \in Nat \ {0}
  BY LenProperties, EmptySeq
<1>2. Len(f) = Len(s) - 1 /\ \A i \in 1..(Len(s) - 1) : f[i] = s[i]
  <2>1. \A i \in 1..(Len(s) - 1) : s[i] \in S
    BY <1>1, ElementOfSeq
  <2> DEFINE n == Len(s) - 1
  <2>2. n \in Nat /\ 1 \in Int /\ n \in Int
    BY <1>1
  <2>3. /\ Len(SubSeq(s, 1, n)) = IF 1 <= n THEN n - 1 + 1 ELSE 0
        /\ \A i \in 1..(n - 1 + 1) : SubSeq(s, 1, n)[i] = s[1 + i - 1]
    <3>1. \A i \in 1..n : s[i] \in S
      BY <2>1
    <3> HIDE DEF n
    <3>2. QED
      BY <2>2, <3>1, SubSeqProperties
  <2> HIDE DEF n
  <2>4. n - 1 + 1 = n /\ (IF 1 <= n THEN n - 1 + 1 ELSE 0) = n
    BY <2>2
  <2>5. \A i \in 1..n : 1 + i - 1 = i
    BY <2>2
  <2>6. Len(SubSeq(s, 1, n)) = n /\ \A i \in 1..n : SubSeq(s, 1, n)[i] = s[i]
    BY <2>3, <2>4, <2>5, Zenon
  <2>7. QED
    BY <2>6 DEF n
<1> HIDE DEF f
<1>3. Unique(f)
  BY <1>1, <1>2 DEF Unique
<1>4. PeersIn(s) = PeersIn(f) \cup {s[Len(s)].peer}
  <2>1. \A i \in 1..Len(s) : i \in 1..(Len(s) - 1) \/ i = Len(s)
    BY <1>1
  <2>2. Len(s) \in 1..Len(s) /\ \A i \in 1..(Len(s) - 1) : i \in 1..Len(s)
    BY <1>1
  <2>3. QED
    BY <1>2, <2>1, <2>2 DEF PeersIn
<1>5. s[Len(s)].peer \notin PeersIn(f)
  <2> SUFFICES ASSUME NEW i \in 1..(Len(s) - 1), f[i].peer = s[Len(s)].peer
               PROVE  FALSE
    BY <1>2 DEF PeersIn
  <2>1. i \in 1..Len(s) /\ Len(s) \in 1..Len(s) /\ i # Len(s)
    BY <1>1
  <2>2. QED
    BY <1>2, <2>1 DEF Unique
<1>6. QED
  BY <1>3, <1>4, <1>5 DEF f

LEMMA UniqueTail ==
  ASSUME NEW S, NEW s \in Seq(S), s # <<>>, Unique(s)
  PROVE  /\ Unique(Tail(s)) /\ PeersIn(Tail(s)) \subseteq PeersIn(s)
         /\ Head(s).peer \notin PeersIn(Tail(s)) /\ Head(s).peer \in PeersIn(s)
<1>1. Len(s) \in Nat \ {0}
  BY LenProperties, EmptySeq
<1>2. /\ Len(Tail(s)) = Len(s) - 1 /\ Head(s) = s[1]
      /\ \A i \in 1..(Len(s) - 1) : Tail(s)[i] = s[i + 1]
  BY <1>1, HeadTailProperties
<1>3. Unique(Tail(s))
  <2> SUFFICES ASSUME NEW i \in 1..(Len(s) - 1), NEW j \in 1..(Len(s) - 1),
                      Tail(s)[i].peer = Tail(s)[j].peer
               PROVE  i = j
    BY <1>2 DEF Unique
  <2>1. i + 1 \in 1..Len(s) /\ j + 1 \in 1..Len(s) /\ s[i + 1].peer = s[j + 1].peer
    BY <1>1, <1>2
  <2>2. i + 1 = j + 1
    BY <2>1 DEF Unique
  <2>3. QED
    BY <2>2
<1>4. PeersIn(Tail(s)) \subseteq PeersIn(s) /\ Head(s).peer \in PeersIn(s)
  <2>1. ASSUME NEW i \in 1..(Len(s) - 1) PROVE Tail(s)[i].peer \in PeersIn(s)
    <3>1. i + 1 \in 1..Len(s)
      BY <1>1
    <3>2. QED
      BY <1>2, <3>1 DEF PeersIn
  <2>2. QED
    BY <1>1, <1>2, <2>1 DEF PeersIn
<1>5. Head(s).peer \notin PeersIn(Tail(s))
  <2> SUFFICES ASSUME NEW i \in 1..(Len(s) - 1), Tail(s)[i].peer = Head(s).peer
               PROVE  FALSE
    BY <1>2 DEF PeersIn
  <2>1. i + 1 \in 1..Len(s) /\ 1 \in 1..Len(s) /\ s[i + 1].peer = s[1].peer
    BY <1>1, <1>2
  <2>2. i + 1 = 1
    BY <2>1 DEF Unique
  <2>3. QED
    BY <2>2
<1>6. QED
  BY <1>3, <1>4, <1>5

LEMMA UniqueConcat ==
  ASSUME NEW S, NEW s \in Seq(S), NEW t \in Seq(S), Unique(s), Unique(t),
         PeersIn(s) \cap PeersIn(t) = {}
  PROVE  Unique(s \o t)
<1>1. /\ Len(s \o t) = Len(s) + Len(t) /\ Len(s) \in Nat /\ Len(t) \in Nat
      /\ \A i \in 1..(Len(s) + Len(t)) :
           (s \o t)[i] = IF i <= Len(s) THEN s[i] ELSE t[i - Len(s)]
  BY ConcatProperties, LenProperties
<1>2. \A i \in 1..Len(s), j \in 1..Len(t) : s[i].peer # t[j].peer
  BY DEF PeersIn
<1> SUFFICES ASSUME NEW i \in 1..(Len(s) + Len(t)), NEW j \in 1..(Len(s) + Len(t)),
                    (s \o t)[i].peer = (s \o t)[j].peer
             PROVE  i = j
  BY <1>1 DEF Unique
<1>3. CASE i <= Len(s) /\ j <= Len(s)
  BY <1>1, <1>3 DEF Unique
<1>4. CASE ~(i <= Len(s)) /\ ~(j <= Len(s))
  <2>1. /\ i - Len(s) \in 1..Len(t) /\ j - Len(s) \in 1..Len(t)
        /\ t[i - Len(s)].peer = t[j - Len(s)].peer
    BY <1>1, <1>4
  <2>2. i - Len(s) = j - Len(s)
    BY <2>1 DEF Unique
  <2>3. QED
    BY <1>1, <2>2
<1>5. CASE i <= Len(s) /\ ~(j <= Len(s))
  <2>1. i \in 1..Len(s) /\ j - Len(s) \in 1..Len(t) /\ s[i].peer = t[j - Len(s)].peer
    BY <1>1, <1>5
  <2>2. QED
    BY <1>2, <2>1
<1>6. CASE ~(i <= Len(s)) /\ j <= Len(s)
  <2>1. j \in 1..Len(s) /\ i - Len(s) \in 1..Len(t) /\ s[j].peer = t[i - Len(s)].peer
    BY <1>1, <1>6
  <2>2. QED
    BY <1>2, <2>1
<1>7. QED
  BY <1>3, <1>4, <1>5, <1>6

\* The children of one reply, all at the same depth, in any order.
LEMMA UniqueOrdering ==
  ASSUME NEW P, IsFiniteSet(P), NEW d,
         NEW s \in Orderings(Tasks(P, d))
  PROVE  Unique(s) /\ PeersIn(s) \subseteq P
<1> DEFINE K == Tasks(P, d)
<1>1. IsFiniteSet(K)
  BY TasksFinite
<1>2. s \in [1..Cardinality(K) -> K] /\ Cardinality(K) \in Nat
  BY <1>1, FS_CardinalityType DEF Orderings
<1>3. \A i, j \in 1..Cardinality(K) : s[i] = s[j] => i = j
  BY <1>2 DEF Orderings
<1>4. Len(s) = Cardinality(K)
  <2> HIDE DEF K
  <2>1. s \in Seq(K) /\ DOMAIN s = 1..Cardinality(K)
    BY <1>2, SeqDef
  <2>2. QED
    BY <1>2, <2>1, LenProperties
<1>5. \A i \in 1..Len(s) : s[i] \in K
  BY <1>2, <1>4
<1>6. \A i \in 1..Len(s) : s[i].peer \in P /\ s[i] = [peer |-> s[i].peer, depth |-> d]
  BY <1>5 DEF Tasks
<1>7. QED
  BY <1>3, <1>4, <1>6 DEF Unique, PeersIn

-----------------------------------------------------------------------------
(* Each peer is handed out once: the invariant, action by action.           *)

\* The task a worker takes was on no other stack and in no worker's list.
LEMMA PopOnce ==
  ASSUME TypeOK, OnceInv, NEW w \in Worker, NextTask(w), PopTask(w)
  PROVE  OnceInv' /\ task'[w].peer \notin popped
<1> DEFINE q == PoolOfWorker(w)
           s == stack[q]
           p == s[Len(s)].peer
<1>1. q \in Pool /\ s \in Seq(Task) /\ s # <<>> /\ Unique(s)
  BY DEF PoolOfWorker, Pool, TypeOK, PopTask, OnceInv
<1>2. /\ Unique(SubSeq(s, 1, Len(s) - 1))
      /\ PeersIn(s) = PeersIn(SubSeq(s, 1, Len(s) - 1)) \cup {p}
      /\ p \notin PeersIn(SubSeq(s, 1, Len(s) - 1))
  <2> HIDE DEF s
  <2>1. QED
    BY <1>1, UniqueFront
<1>3. task'[w].peer = p /\ popped' = popped \cup {p}
      /\ stack' = [stack EXCEPT ![q] = SubSeq(s, 1, Len(s) - 1)]
  BY DEF PopTask, TypeOK
<1>4. UNCHANGED <<seen, found, save, disk, phase>> /\ phase = "crawl"
  BY DEF PopTask, NextTask, mapVars, saveVars, startVars
<1>5. PoolOf(p) = q /\ p \in seen /\ p \notin popped
  BY <1>1, <1>2 DEF OnceInv
<1>6. /\ stack'[q] = SubSeq(s, 1, Len(s) - 1)
      /\ \A r \in Pool \ {q} : stack'[r] = stack[r]
  BY <1>1, <1>3 DEF TypeOK
<1>6a. popped' = popped \cup {p} /\ seen' = seen /\ found' = found
  BY <1>3, <1>4
<1> HIDE DEF q, s, p
<1>7. \A r \in Pool : PeersIn(stack'[r]) \subseteq PeersIn(stack[r])
  BY <1>2, <1>6 DEF s
<1>8. \A r \in Pool : /\ Unique(stack'[r])
        /\ \A x \in PeersIn(stack'[r]) : PoolOf(x) = r /\ x \in seen' /\ x \notin popped'
  <2>1. ASSUME NEW r \in Pool PROVE p \notin PeersIn(stack'[r]) /\ Unique(stack'[r])
    <3>1. CASE r = q
      BY <1>2, <1>6, <3>1
    <3>2. CASE r # q
      <4>1. stack'[r] = stack[r]
        BY <1>6, <3>2
      <4>2. QED
        BY <1>5, <3>2, <4>1 DEF OnceInv
    <3>3. QED
      BY <3>1, <3>2
  <2>2. \A r \in Pool : \A x \in PeersIn(stack[r]) :
          PoolOf(x) = r /\ x \in seen /\ x \notin popped
    BY DEF OnceInv
  <2>3. QED
    BY <1>6a, <1>7, <2>1, <2>2
<1>9. \A v \in Worker, r \in Pool : p \notin PeersIn(found[v][r])
  BY <1>1, <1>2, <1>5 DEF OnceInv, s
<1>10. \A v \in Worker, r \in Pool :
         /\ Unique(found'[v][r])
         /\ \A x \in PeersIn(found'[v][r]) :
              /\ PoolOf(x) = r /\ x \in seen' /\ x \notin popped'
              /\ x \notin PeersIn(stack'[r])
         /\ \A u \in Worker \ {v} : PeersIn(found'[v][r]) \cap PeersIn(found'[u][r]) = {}
  <2>1. \A v \in Worker, r \in Pool :
          /\ Unique(found[v][r])
          /\ \A x \in PeersIn(found[v][r]) :
               PoolOf(x) = r /\ x \in seen /\ x \notin popped /\ x \notin PeersIn(stack[r])
          /\ \A u \in Worker \ {v} : PeersIn(found[v][r]) \cap PeersIn(found[u][r]) = {}
    BY DEF OnceInv
  <2>2. QED
    BY <1>6a, <1>7, <1>9, <2>1
<1>11. popped' \subseteq seen' /\ Unique(save'.frontier) /\ Unique(disk'.frontier)
  BY <1>3, <1>4, <1>5 DEF OnceInv
<1>12. OnceInv'
  BY <1>4, <1>8, <1>10, <1>11 DEF OnceInv
<1>13. QED
  BY <1>3, <1>5, <1>12

LEMMA FinishOnce ==
  ASSUME TypeOK, OnceInv, PoolInv, NEW w \in Worker, FinishTask(w)
  PROVE  OnceInv'
<1>1. /\ stack' = [q \in Pool |-> stack[q] \o found[w][q]]
      /\ found' = [found EXCEPT ![w] = EmptyStacks]
      /\ UNCHANGED <<seen, popped, save, disk, phase>>
  BY DEF FinishTask, mapVars, saveVars, startVars
<1>2. phase # "restore"
  BY DEF FinishTask, PoolInv, QuietStart
<1>3. ASSUME NEW q \in Pool
      PROVE  /\ Unique(stack'[q])
             /\ PeersIn(stack'[q]) = PeersIn(stack[q]) \cup PeersIn(found[w][q])
  <2>1. stack[q] \in Seq(Task) /\ found[w][q] \in Seq(Task)
    BY DEF TypeOK
  <2>2. Unique(stack[q]) /\ Unique(found[w][q])
        /\ PeersIn(stack[q]) \cap PeersIn(found[w][q]) = {}
    BY DEF OnceInv
  <2>3. stack'[q] = stack[q] \o found[w][q]
    BY <1>1
  <2>4. QED
    BY <2>1, <2>2, <2>3, UniqueConcat, PeersInConcat
<1>4. \A v \in Worker, q \in Pool :
        /\ v # w => found'[v][q] = found[v][q]
        /\ found'[w][q] = <<>>
  BY <1>1 DEF EmptyStacks, TypeOK
<1>5. Unique(<<>>) /\ PeersIn(<<>>) = {}
  BY DEF Unique, PeersIn
<1>6. \A q \in Pool : /\ Unique(stack'[q])
        /\ \A x \in PeersIn(stack'[q]) : PoolOf(x) = q /\ x \in seen' /\ x \notin popped'
  BY <1>1, <1>3 DEF OnceInv
<1>7. ASSUME NEW v \in Worker, NEW q \in Pool
      PROVE  /\ Unique(found'[v][q])
             /\ \A x \in PeersIn(found'[v][q]) :
                  /\ PoolOf(x) = q /\ x \in seen' /\ x \notin popped'
                  /\ x \notin PeersIn(stack'[q])
             /\ \A u \in Worker \ {v} :
                  PeersIn(found'[v][q]) \cap PeersIn(found'[u][q]) = {}
  <2>1. CASE v = w
    BY <1>4, <1>5, <2>1
  <2>2. CASE v # w
    <3>1. found'[v][q] = found[v][q] /\ PeersIn(found[v][q]) \cap PeersIn(found[w][q]) = {}
      BY <1>4, <2>2 DEF OnceInv
    <3>2. \A u \in Worker \ {v} : found'[u][q] = found[u][q] \/ PeersIn(found'[u][q]) = {}
      BY <1>4, <1>5
    <3>3. QED
      BY <1>1, <1>3, <3>1, <3>2 DEF OnceInv
  <2>3. QED
    BY <2>1, <2>2
<1>8. QED
  BY <1>1, <1>2, <1>6, <1>7 DEF OnceInv

LEMMA ExpandOnce ==
  ASSUME TypeOK, OnceInv, PoolInv, NEW w \in Worker, NEW disc \in SUBSET Peer, Expand(w, disc)
  PROVE  OnceInv'
<1> DEFINE reply == {c \in disc : Crawlable(c)}
           fresh == {x \in reply : IsNew(x)}
           Of(q) == {x \in fresh : PoolOf(x) = q}
<1>1. PICK c \in Orderings(Tasks(Of("clearnet"), task[w].depth + 1)),
           o \in Orderings(Tasks(Of("onion"), task[w].depth + 1)) :
        found' = [found EXCEPT ![w] = [q \in Pool |-> IF q = "onion" THEN o ELSE c]]
  BY DEF Expand
<1>2. \A q \in Pool : IsFiniteSet(Of(q))
  BY FS_Subset, ConstantsAssumption
<1>3. /\ Unique(c) /\ PeersIn(c) \subseteq Of("clearnet")
      /\ Unique(o) /\ PeersIn(o) \subseteq Of("onion")
  <2>1. IsFiniteSet(Of("clearnet")) /\ IsFiniteSet(Of("onion"))
    BY <1>2 DEF Pool
  <2> HIDE DEF Of
  <2>2. QED
    BY <2>1, UniqueOrdering
<1>4. /\ seen' = seen \cup fresh
      /\ UNCHANGED <<stack, popped, save, disk, phase>>
  BY DEF Expand, frontierVars, saveVars, startVars
<1>5. phase # "restore"
  BY DEF Expand, PoolInv, QuietStart
<1>6. \A q \in Pool : found'[w][q] = IF q = "onion" THEN o ELSE c
  BY <1>1 DEF TypeOK
<1>7. \A v \in Worker \ {w} : found'[v] = found[v]
  BY <1>1 DEF TypeOK
<1>8. \A q \in Pool : Unique(found'[w][q]) /\ PeersIn(found'[w][q]) \subseteq Of(q)
  BY <1>3, <1>6 DEF Pool
<1>9. \A q \in Pool : \A x \in Of(q) : PoolOf(x) = q /\ x \in seen' /\ x \notin seen
  BY <1>4 DEF IsNew
<1> HIDE DEF Of, fresh, reply
<1>10. ASSUME NEW v \in Worker, NEW q \in Pool
       PROVE  /\ Unique(found'[v][q])
              /\ \A x \in PeersIn(found'[v][q]) :
                   /\ PoolOf(x) = q /\ x \in seen' /\ x \notin popped'
                   /\ x \notin PeersIn(stack'[q])
              /\ \A u \in Worker \ {v} :
                   PeersIn(found'[v][q]) \cap PeersIn(found'[u][q]) = {}
  <2>1. \A x \in PeersIn(found'[w][q]) : x \notin seen /\ x \in seen' /\ PoolOf(x) = q
    BY <1>8, <1>9
  <2>2. \A u \in Worker \ {w} : \A x \in PeersIn(found'[u][q]) : x \in seen
    BY <1>7 DEF OnceInv
  <2>3. CASE v = w
    <3>1. \A x \in PeersIn(found'[w][q]) : x \notin popped' /\ x \notin PeersIn(stack'[q])
      BY <1>4, <2>1 DEF OnceInv
    <3>2. QED
      BY <1>8, <2>1, <2>2, <2>3, <3>1
  <2>4. CASE v # w
    <3>1. found'[v][q] = found[v][q]
      BY <1>7, <2>4
    <3>2. \A u \in Worker \ {v} : PeersIn(found'[v][q]) \cap PeersIn(found'[u][q]) = {}
      <4>1. ASSUME NEW u \in Worker \ {v}, u # w
            PROVE  PeersIn(found'[v][q]) \cap PeersIn(found'[u][q]) = {}
        BY <1>7, <2>4, <4>1 DEF OnceInv
      <4>2. PeersIn(found'[v][q]) \cap PeersIn(found'[w][q]) = {}
        BY <2>1, <2>2, <2>4
      <4>3. QED
        BY <4>1, <4>2
    <3>3. QED
      BY <1>4, <3>1, <3>2 DEF OnceInv
  <2>5. QED
    BY <2>3, <2>4
<1>11. QED
  BY <1>4, <1>5, <1>10 DEF OnceInv

\* What pushing a peer does to its own stack, and to the set of queued peers.
LEMMA PushQueued ==
  ASSUME TypeOK, OnceInv, NEW t \in Seed, Push(t), t.peer \notin Queued
  PROVE  LET q == PoolOf(t.peer)
         IN  /\ q \in Pool /\ Unique(stack'[q])
             /\ PeersIn(stack'[q]) = PeersIn(stack[q]) \cup {t.peer}
             /\ \A r \in Pool \ {q} : stack'[r] = stack[r]
             /\ Queued' = Queued \cup {t.peer}
<1> DEFINE q == PoolOf(t.peer)
           e == [peer |-> t.peer, depth |-> t.depth]
<1>1. q \in Pool /\ stack[q] \in Seq(Task) /\ e \in Task /\ e.peer = t.peer
  BY DEF PoolOf, Pool, TypeOK, Task, Seed
<1>2. t.peer \notin PeersIn(stack[q])
  BY <1>1 DEF Queued
<1>3. Unique(Append(stack[q], e)) /\ PeersIn(Append(stack[q], e)) = PeersIn(stack[q]) \cup {t.peer}
  <2>1. Unique(stack[q])
    BY <1>1 DEF OnceInv
  <2> HIDE DEF q, e
  <2>2. QED
    BY <1>1, <1>2, <2>1, UniqueAppend
<1>4. stack'[q] = Append(stack[q], e) /\ \A r \in Pool \ {q} : stack'[r] = stack[r]
  BY <1>1 DEF Push, TypeOK
<1>5. Queued' = Queued \cup {t.peer}
  <2>1. Queued' = UNION {PeersIn(stack'[r]) : r \in Pool}
    BY DEF Queued
  <2>2. PeersIn(stack'[q]) = PeersIn(stack[q]) \cup {t.peer}
    BY <1>3, <1>4
  <2>3. \A r \in Pool \ {q} : PeersIn(stack'[r]) = PeersIn(stack[r])
    BY <1>4
  <2>4. q \in Pool
    BY <1>1
  <2> HIDE DEF q, e
  <2>5. ASSUME NEW x \in Queued' PROVE x \in Queued \cup {t.peer}
    <3>1. PICK r \in Pool : x \in PeersIn(stack'[r])
      BY <2>1, <2>5
    <3>2. QED
      BY <2>2, <2>3, <3>1 DEF Queued
  <2>6. ASSUME NEW x \in Queued \cup {t.peer} PROVE x \in Queued'
    <3>1. CASE x = t.peer
      BY <2>1, <2>2, <2>4, <3>1
    <3>2. CASE x \in Queued
      <4>1. PICK r \in Pool : x \in PeersIn(stack[r])
        BY <3>2 DEF Queued
      <4>2. x \in PeersIn(stack'[r])
        BY <2>2, <2>3, <4>1
      <4>3. QED
        BY <2>1, <4>1, <4>2
    <3>3. QED
      BY <2>6, <3>1, <3>2
  <2>7. QED
    BY <2>5, <2>6
<1>6. QED
  BY <1>1, <1>3, <1>4, <1>5

\* Queueing a peer that is queued nowhere, while no worker exists.
LEMMA PushOnce ==
  ASSUME TypeOK, OnceInv, PoolInv, phase \in {"restore", "seed"}, NEW t \in Seed, Push(t),
         t.peer \notin Queued, seen' = seen \cup {t.peer},
         UNCHANGED <<found, popped, save, disk>>,
         phase' = "restore" => Unique(todo') /\ PeersIn(todo') \cap (Queued \cup {t.peer}) = {}
  PROVE  OnceInv'
<1> DEFINE q == PoolOf(t.peer)
<1>1. /\ q \in Pool /\ Unique(stack'[q])
      /\ PeersIn(stack'[q]) = PeersIn(stack[q]) \cup {t.peer}
      /\ \A r \in Pool \ {q} : stack'[r] = stack[r]
      /\ Queued' = Queued \cup {t.peer}
  BY PushQueued
<1>5. popped = {} /\ \A w \in Worker : found[w] = EmptyStacks
  BY DEF PoolInv, QuietStart
<1>6. Unique(<<>>) /\ PeersIn(<<>>) = {}
  BY DEF Unique, PeersIn
<1>7. \A w \in Worker, r \in Pool : found'[w][r] = <<>>
  BY <1>5 DEF EmptyStacks
<1>9. \A r \in Pool : /\ Unique(stack'[r])
        /\ \A x \in PeersIn(stack'[r]) : PoolOf(x) = r /\ x \in seen'
  <2>1. ASSUME NEW r \in Pool, r = q
        PROVE  Unique(stack'[r]) /\ \A x \in PeersIn(stack'[r]) : PoolOf(x) = r /\ x \in seen'
    BY <1>1, <2>1 DEF OnceInv
  <2>2. ASSUME NEW r \in Pool, r # q
        PROVE  Unique(stack'[r]) /\ \A x \in PeersIn(stack'[r]) : PoolOf(x) = r /\ x \in seen'
    BY <1>1, <2>2 DEF OnceInv
  <2>3. QED
    BY <2>1, <2>2
<1>10. QED
  BY <1>1, <1>5, <1>6, <1>7, <1>9 DEF OnceInv

LEMMA StartUpOnce == TypeOK /\ PoolInv /\ OnceInv /\ StartUp => OnceInv'
<1> SUFFICES ASSUME TypeOK, PoolInv, OnceInv, StartUp PROVE OnceInv'
  OBVIOUS
<1>1. CASE RestoreEntry
  <2>1. /\ phase = "restore" /\ todo # <<>> /\ todo' = Tail(todo)
        /\ UNCHANGED <<phase, found, popped, save, disk>>
    BY <1>1 DEF RestoreEntry, workerVars, saveVars
  <2>2. todo \in Seq(Seed) /\ Head(todo) \in Seed
    BY <2>1, TodoTyped DEF TypeOK
  <2>3. Unique(todo) /\ PeersIn(todo) \cap Queued = {}
    BY <2>1 DEF OnceInv
  <2>4. /\ Unique(Tail(todo)) /\ PeersIn(Tail(todo)) \subseteq PeersIn(todo)
        /\ Head(todo).peer \notin PeersIn(Tail(todo)) /\ Head(todo).peer \in PeersIn(todo)
    BY <2>1, <2>2, <2>3, UniqueTail
  <2>5. CASE Crawlable(Head(todo).peer)
    <3>1. Push(Head(todo)) /\ seen' = seen \cup {Head(todo).peer}
      BY <1>1, <2>5 DEF RestoreEntry
    <3>2. QED
      BY <2>1, <2>2, <2>3, <2>4, <3>1, PushOnce
  <2>6. CASE ~Crawlable(Head(todo).peer)
    <3>1. UNCHANGED <<stack, seen>>
      BY <1>1, <2>6 DEF RestoreEntry
    <3>2. Queued' = Queued
      BY <3>1 DEF Queued
    <3>3. Unique(todo') /\ PeersIn(todo') \cap Queued = {}
      BY <2>1, <2>3, <2>4
    <3>4. QED
      BY <2>1, <3>1, <3>2, <3>3 DEF OnceInv
  <2>7. QED
    BY <2>5, <2>6
<1>2. CASE SeedEntry
  <2>1. /\ phase = "seed" /\ todo # <<>>
        /\ UNCHANGED <<phase, found, popped, save, disk>>
    BY <1>2 DEF SeedEntry, workerVars, saveVars
  <2>2. Head(todo) \in Seed
    BY <2>1, TodoTyped DEF TypeOK
  <2>3. CASE Crawlable(Head(todo).peer) /\ IsNew(Head(todo).peer)
    <3>1. Push(Head(todo)) /\ seen' = seen \cup {Head(todo).peer}
      BY <1>2, <2>3 DEF SeedEntry
    <3>2. Head(todo).peer \notin Queued
      BY <2>3 DEF IsNew, OnceInv, Queued
    <3>3. QED
      BY <2>1, <2>2, <3>1, <3>2, PushOnce
  <2>4. CASE ~(Crawlable(Head(todo).peer) /\ IsNew(Head(todo).peer))
    <3>1. UNCHANGED <<stack, seen>>
      BY <1>2, <2>4 DEF SeedEntry
    <3>2. QED
      BY <2>1, <3>1 DEF OnceInv
  <2>5. QED
    BY <2>3, <2>4
<1>3. CASE BeginSeeding \/ SpawnWorkers
  <2>1. UNCHANGED <<stack, seen, found, popped, save, disk>> /\ phase' # "restore"
    BY <1>3 DEF BeginSeeding, SpawnWorkers, frontierVars, mapVars, workerVars, saveVars
  <2>2. QED
    BY <2>1 DEF OnceInv
<1>4. QED
  BY <1>1, <1>2, <1>3 DEF StartUp

\* A run that starts from a file without repetitions queues without repetitions.
LEMMA RestartOnce == TypeOK /\ OnceInv /\ Restart => OnceInv'
<1> SUFFICES ASSUME TypeOK, OnceInv, Restart PROVE OnceInv'
  OBVIOUS
<1>1. EmptyState \in SavedState /\ EmptyState.frontier = <<>>
  BY DEF EmptyState, SavedState, Record
<1>2. Unique(<<>>) /\ PeersIn(<<>>) = {}
  BY DEF Unique, PeersIn
<1>3. PICK st \in SavedState : Load(st) /\ Unique(st.frontier)
  BY <1>1, <1>2 DEF Restart, TypeOK, OnceInv
<1>4. st.frontier \in Seq(Task)
  BY DEF SavedState
<1>5. todo' = [i \in 1..Len(st.frontier) |-> AsSeed(st.frontier[i])]
  BY <1>3 DEF Load
<1>6. Len(st.frontier) \in Nat /\ todo' \in Seq(Seed)
  BY <1>3, <1>4, LoadTyped, LenProperties
<1>7. Len(todo') = Len(st.frontier)
  <2>1. DOMAIN todo' = 1..Len(st.frontier)
    BY <1>5
  <2>2. QED
    BY <1>6, <2>1, LenProperties
<1>8. \A i \in 1..Len(st.frontier) : todo'[i].peer = st.frontier[i].peer
  BY <1>5 DEF AsSeed
<1>9. Unique(todo')
  BY <1>3, <1>7, <1>8 DEF Unique
<1>10. /\ stack' = EmptyStacks /\ popped' = {} /\ found' = [w \in Worker |-> EmptyStacks]
       /\ save' = EmptyState
  BY <1>3 DEF Load
<1>11. \A q \in Pool : stack'[q] = <<>> /\ \A w \in Worker : found'[w][q] = <<>>
  BY <1>10 DEF EmptyStacks
<1>12. Queued' = {}
  <2>1. Queued' = UNION {PeersIn(stack'[q]) : q \in Pool}
    BY DEF Queued
  <2>2. QED
    BY <1>2, <1>11, <2>1
<1>13. disk' = disk
  BY DEF Restart
<1>14. save'.frontier = <<>>
  BY <1>1, <1>10
<1>15. QED
  BY <1>2, <1>9, <1>10, <1>11, <1>12, <1>13, <1>14 DEF OnceInv

LEMMA SaveOnce ==
  ASSUME TypeOK, OnceInv, PoolInv, ClonePart \/ WriteState
  PROVE  OnceInv'
<1>1. /\ UNCHANGED <<stack, seen, found, popped>>
      /\ phase' # "restore"
  <2>1. CASE ClonePart
    <3>1. step \in 1..3 /\ UNCHANGED <<startVars, frontierVars, workerVars, mapVars, popped>>
      BY <2>1, Zenon DEF ClonePart
    <3>2. QED
      BY <3>1 DEF startVars, frontierVars, workerVars, mapVars, PoolInv, QuietStart
  <2>2. CASE WriteState
    BY <2>2 DEF WriteState, frontierVars, workerVars, mapVars, PoolInv, QuietStart
  <2>3. QED
    BY <2>1, <2>2
<1>2. Unique(save'.frontier) /\ Unique(disk'.frontier)
  <2>1. CASE WriteState
    <3>1. save' = EmptyState /\ (disk' = save \/ disk' = disk)
      BY <2>1 DEF WriteState
    <3>2. Unique(EmptyState.frontier)
      BY DEF EmptyState, Unique
    <3>3. QED
      BY <3>1, <3>2 DEF OnceInv
  <2>2. CASE ClonePart
    <3>1. disk' = disk /\ step \in 1..3
      BY <2>2, Zenon DEF ClonePart
    <3>2. CASE step = 1
      <4>1. save' = [save EXCEPT !.frontier = stack["clearnet"] \o stack["onion"]]
        BY <2>2, <3>2 DEF ClonePart, SaveOrder
      <4>2. save'.frontier = stack["clearnet"] \o stack["onion"]
        BY <4>1 DEF TypeOK, SavedState
      <4>3. stack["clearnet"] \in Seq(Task) /\ stack["onion"] \in Seq(Task)
        BY DEF TypeOK, Pool
      <4>4. PeersIn(stack["clearnet"]) \cap PeersIn(stack["onion"]) = {}
        BY DEF OnceInv, Pool
      <4>5. Unique(stack["clearnet"]) /\ Unique(stack["onion"])
        BY DEF OnceInv, Pool
      <4>6. QED
        BY <3>1, <4>2, <4>3, <4>4, <4>5, UniqueConcat DEF OnceInv
    <3>3. CASE step # 1
      <4>1. save' = [save EXCEPT !.nodes = nodes] \/ save' = [save EXCEPT !.edges = edges]
        BY <2>2, <3>1, <3>3 DEF ClonePart, SaveOrder
      <4>2. save'.frontier = save.frontier
        BY <4>1 DEF TypeOK, SavedState
      <4>3. QED
        BY <3>1, <4>2 DEF OnceInv
    <3>4. QED
      BY <3>2, <3>3
  <2>3. QED
    BY <2>1, <2>2
<1>3. QED
  BY <1>1, <1>2 DEF OnceInv

\* Every other step leaves the holders of peers alone.
LEMMA OtherOnce ==
  ASSUME OnceInv, UNCHANGED <<stack, seen, found, popped, save, disk, todo>>,
         phase' = "restore" => phase = "restore"
  PROVE  OnceInv'
BY DEF OnceInv, Queued

LEMMA OnceInductive ==
  TypeOK /\ PoolInv /\ OnceInv /\ [Next]_vars =>
    /\ OnceInv'
    /\ \A w \in Worker : pc[w] = "next" /\ pc'[w] = "cap" => task'[w].peer \notin popped
<1> SUFFICES ASSUME TypeOK, PoolInv, OnceInv, [Next]_vars
             PROVE  /\ OnceInv'
                    /\ \A w \in Worker : pc[w] = "next" /\ pc'[w] = "cap"
                                          => task'[w].peer \notin popped
  OBVIOUS
<1> DEFINE Fresh == \A w \in Worker : pc[w] = "next" /\ pc'[w] = "cap"
                                       => task'[w].peer \notin popped
<1>1. ASSUME NEW w \in Worker, NextTask(w) PROVE OnceInv' /\ Fresh
  <2>1. CASE PopTask(w)
    <3>1. OnceInv' /\ task'[w].peer \notin popped
      BY <1>1, <2>1, PopOnce
    <3>2. \A v \in Worker \ {w} : pc'[v] = pc[v]
      BY <2>1 DEF PopTask, TypeOK
    <3>3. QED
      BY <3>1, <3>2
  <2>2. CASE ExitLoop(w) \/ WaitForWork(w)
    <3>1. UNCHANGED <<stack, seen, found, popped, save, disk, todo, phase>>
      BY <1>1, <2>2 DEF NextTask, ExitLoop, WaitForWork, workerVars, mapVars, saveVars, startVars
    <3>2. \A v \in Worker : pc'[v] = pc[v] \/ pc'[v] = "exited"
      BY <2>2 DEF ExitLoop, WaitForWork, workerVars, TypeOK
    <3>3. QED
      BY <3>1, <3>2, OtherOnce
  <2>3. QED
    BY <1>1, <2>1, <2>2 DEF NextTask
<1>2. ASSUME NEW w \in Worker, FinishTask(w) PROVE OnceInv' /\ Fresh
  <2>1. \A v \in Worker : pc'[v] = pc[v] \/ pc'[v] = "next"
    BY <1>2 DEF FinishTask, TypeOK
  <2>2. QED
    BY <1>2, <2>1, FinishOnce
<1>3. ASSUME NEW w \in Worker, ExpandStep(w) PROVE OnceInv' /\ Fresh
  <2>1. task[w].peer \in Peer
    BY <1>3 DEF ExpandStep, TypeOK, Busy, Task
  <2>2. PICK disc \in SUBSET Peer : Expand(w, disc)
    BY <1>3, <2>1, ConstantsAssumption DEF ExpandStep
  <2>3. \A v \in Worker : pc'[v] = pc[v] \/ pc'[v] = "finish"
    BY <2>2 DEF Expand, TypeOK
  <2>4. QED
    BY <2>2, <2>3, ExpandOnce
<1>4. ASSUME NEW w \in Worker, CheckCap(w) \/ ProbeStep(w) \/ SpuriousWakeup(w)
      PROVE  OnceInv' /\ Fresh
  <2>1. UNCHANGED <<stack, seen, found, popped, save, disk, todo, phase>>
    BY <1>4 DEF CheckCap, ProbeStep, RetryProbe, RecordUp, RecordStub, SpuriousWakeup,
                startVars, frontierVars, workerVars, mapVars, saveVars
  <2>2. \A v \in Worker : pc'[v] = pc[v] \/ pc[v] # "next"
    BY <1>4 DEF CheckCap, ProbeStep, RetryProbe, RecordUp, RecordStub, SpuriousWakeup,
                workerVars, TypeOK
  <2>3. QED
    BY <2>1, <2>2, OtherOnce
<1>5. CASE StartUp
  <2>1. pc' = pc
    BY <1>5 DEF StartUp, RestoreEntry, SeedEntry, BeginSeeding, SpawnWorkers, workerVars
  <2>2. QED
    BY <1>5, <2>1, StartUpOnce
<1>6. CASE Restart
  <2>1. pc' = [w \in Worker |-> "next"]
    BY <1>6 DEF Restart, Load
  <2>2. QED
    BY <1>6, <2>1, RestartOnce
<1>7. CASE ClonePart \/ WriteState
  <2>1. pc' = pc
    BY <1>7, Zenon DEF ClonePart, WriteState, workerVars
  <2>2. QED
    BY <1>7, <2>1, SaveOnce
<1>8. CASE BeginSave \/ JoinWorkers \/ JoinMonitor \/ UNCHANGED vars
  <2>1. /\ UNCHANGED <<stack, seen, found, popped, save, disk, todo, pc>>
        /\ phase' = phase \/ phase' \in {"stop", "final"}
    BY <1>8 DEF BeginSave, JoinWorkers, JoinMonitor, vars, startVars, frontierVars,
                workerVars, mapVars, saveVars
  <2>2. QED
    BY <2>1, OtherOnce
<1>9. QED
  BY <1>1, <1>2, <1>3, <1>4, <1>5, <1>6, <1>7, <1>8 DEF Next, WorkerStep, Finished

LEMMA InitOnce == Init => OnceInv
<1> SUFFICES ASSUME Init PROVE OnceInv
  OBVIOUS
<1>1. Unique(<<>>) /\ PeersIn(<<>>) = {}
  BY DEF Unique, PeersIn
<1>2. EmptyState.frontier = <<>> /\ todo = <<>> /\ popped = {}
      /\ save = EmptyState /\ disk = EmptyState
  BY DEF Init, EmptyState
<1>3. \A q \in Pool : stack[q] = <<>> /\ \A w \in Worker : found[w][q] = <<>>
  BY DEF Init, EmptyStacks
<1>4. QED
  BY <1>1, <1>2, <1>3 DEF OnceInv

LEMMA OnceInvariant == Spec => []OnceInv
<1>1. TypeOK /\ PoolInv /\ OnceInv /\ [Next]_vars => OnceInv'
  BY OnceInductive
<1>2. QED
  BY <1>1, InitOnce, TypeCorrect, PoolInvariant, PTL DEF Spec

\* For any network, any seeds and any pattern of saves, crashes and resumes: no
\* peer is handed to two workers, or twice to one, within a run of the crawl.
THEOREM EachPeerHandedOutOnce == Spec => HandedOutOnce
<1>1. TypeOK /\ PoolInv /\ OnceInv /\ [Next]_vars
        => [\A w \in Worker : pc[w] = "next" /\ pc'[w] = "cap"
                                => task'[w].peer \notin popped]_vars
  BY OnceInductive
<1>2. QED
  BY <1>1, TypeCorrect, PoolInvariant, OnceInvariant, PTL DEF Spec, HandedOutOnce

-----------------------------------------------------------------------------
(* Who waits and who is in hand, step by step.                              *)

LEMMA RecordedFinite == IsFiniteSet(Recorded) /\ IsFiniteSet(Recorded')
BY ConstantsAssumption, FS_Subset DEF Recorded

\* A sequence that lists a finite set without repetition lists all of it.
LEMMA OrderingComplete ==
  ASSUME NEW P, IsFiniteSet(P), NEW d, NEW s \in Orderings(Tasks(P, d))
  PROVE  PeersIn(s) = P
<1> DEFINE K == Tasks(P, d)
           I == 1..Cardinality(K)
<1>1. IsFiniteSet(K)
  BY TasksFinite
<1>2. s \in [I -> K] /\ Cardinality(K) \in Nat
  BY <1>1, FS_CardinalityType DEF Orderings
<1>3. \A i, j \in I : s[i] = s[j] => i = j
  BY <1>2 DEF Orderings
<1>4. Len(s) = Cardinality(K)
  <2> HIDE DEF K
  <2>1. s \in Seq(K) /\ DOMAIN s = 1..Cardinality(K)
    BY <1>2, SeqDef
  <2>2. QED
    BY <1>2, <2>1, LenProperties
<1>5. \A k \in K : \E i \in I : s[i] = k
  <2> HIDE DEF K
  <2>1. s \in Injection(I, K)
    <3> HIDE DEF I
    <3>1. QED
      BY <1>2, <1>3 DEF Injection, IsInjective
  <2>2. Cardinality(I) = Cardinality(K)
    BY <1>2, FS_Interval
  <2>3. s \in Surjection(I, K)
    <3> HIDE DEF I
    <3>1. QED
      BY <1>1, <2>1, <2>2, FS_Injection
  <2>4. QED
    BY <2>3 DEF Surjection
<1>6. ASSUME NEW p \in P PROVE p \in PeersIn(s)
  <2>1. [peer |-> p, depth |-> d] \in K
    BY DEF Tasks
  <2>2. PICK i \in I : s[i] = [peer |-> p, depth |-> d]
    BY <1>5, <2>1
  <2>3. QED
    BY <1>4, <2>2 DEF PeersIn
<1>7. QED
  BY <1>6, UniqueOrdering

\* Pending, peer by peer.
LEMMA PendingIs ==
  \A p : p \in Pending <=>
    \/ \E q \in Pool : p \in PeersIn(stack[q])
    \/ \E w \in Worker, q \in Pool : p \in PeersIn(found[w][q])
BY DEF Pending, Queued, Found

LEMMA PendingWillBe ==
  \A p : p \in Pending' <=>
    \/ \E q \in Pool : p \in PeersIn(stack'[q])
    \/ \E w \in Worker, q \in Pool : p \in PeersIn(found'[w][q])
BY DEF Pending, Queued, Found

\* A worker takes a peer that waited, and it waits nowhere any more.
LEMMA PopMoves ==
  ASSUME TypeOK, OnceInv, HandInv, NEW w \in Worker, NextTask(w), PopTask(w)
  PROVE  /\ task'[w].peer \in Pending
         /\ Pending' = Pending \ {task'[w].peer}
         /\ InHand' = InHand \cup {task'[w].peer}
<1> DEFINE q == PoolOfWorker(w)
           s == stack[q]
           p == s[Len(s)].peer
           f == SubSeq(s, 1, Len(s) - 1)
<1>1. q \in Pool /\ s \in Seq(Task) /\ s # <<>> /\ Unique(s)
  BY DEF PoolOfWorker, Pool, TypeOK, PopTask, OnceInv
<1>2. PeersIn(s) = PeersIn(f) \cup {p} /\ p \notin PeersIn(f)
  <2> HIDE DEF s
  <2>1. QED
    BY <1>1, UniqueFront
<1>3. task'[w].peer = p /\ found' = found /\ stack' = [stack EXCEPT ![q] = f]
      /\ task' = [task EXCEPT ![w] = s[Len(s)]] /\ pc' = [pc EXCEPT ![w] = "cap"]
  BY DEF PopTask, TypeOK
<1>4. stack'[q] = f /\ \A r \in Pool \ {q} : stack'[r] = stack[r]
  BY <1>1, <1>3 DEF TypeOK
<1>5. PoolOf(p) = q
  BY <1>1, <1>2 DEF OnceInv
<1>6. pc[w] = "next" /\ w \notin Busy
  BY DEF NextTask, Busy
<1>7. InHand' = InHand \cup {p}
  <2>1. Busy' = Busy \cup {w}
    BY <1>3 DEF Busy, TypeOK
  <2>2. \A v \in Busy : task'[v] = task[v]
    BY <1>3, <1>6 DEF TypeOK
  <2> HIDE DEF p
  <2>3. QED
    BY <1>3, <2>1, <2>2 DEF InHand
<1> HIDE DEF q, s, p, f
<1>8. \A v \in Worker, r \in Pool : p \notin PeersIn(found[v][r])
  BY <1>1, <1>2, <1>5 DEF OnceInv, s
<1>9. \A r \in Pool : PeersIn(stack'[r]) = PeersIn(stack[r]) \ {p}
  <2>1. ASSUME NEW r \in Pool, r # q PROVE p \notin PeersIn(stack[r])
    BY <1>5, <2>1 DEF OnceInv
  <2>2. QED
    BY <1>2, <1>4, <2>1 DEF s
<1>10. p \in PeersIn(stack[q])
  BY <1>2 DEF s
<1>11. Pending' = Pending \ {p} /\ p \in Pending
  <2>1. ASSUME NEW x PROVE x \in Pending' <=> x \in Pending /\ x # p
    <3>1. (\E r \in Pool : x \in PeersIn(stack'[r]))
            <=> x # p /\ \E r \in Pool : x \in PeersIn(stack[r])
      BY <1>9
    <3>2. (\E v \in Worker, r \in Pool : x \in PeersIn(found'[v][r]))
            <=> x # p /\ \E v \in Worker, r \in Pool : x \in PeersIn(found[v][r])
      BY <1>3, <1>8
    <3>3. QED
      BY <3>1, <3>2, PendingIs, PendingWillBe
  <2>2. p \in Pending
    BY <1>1, <1>10, PendingIs
  <2>3. QED
    BY <2>1, <2>2
<1>12. QED
  BY <1>3, <1>7, <1>11

\* Finishing moves children from the worker's lists to the stacks: they go on
\* waiting, and the worker's own peer leaves its hand.
LEMMA FinishMoves ==
  ASSUME TypeOK, HandInv, NEW w \in Worker, FinishTask(w)
  PROVE  Pending' = Pending /\ InHand' = InHand \ {task[w].peer}
<1>1. /\ stack' = [q \in Pool |-> stack[q] \o found[w][q]]
      /\ found' = [found EXCEPT ![w] = EmptyStacks]
      /\ task' = [task EXCEPT ![w] = <<>>] /\ pc' = [pc EXCEPT ![w] = "next"]
      /\ w \in Busy
  BY DEF FinishTask, Busy
<1>2. \A q \in Pool : PeersIn(stack'[q]) = PeersIn(stack[q]) \cup PeersIn(found[w][q])
  <2> SUFFICES ASSUME NEW q \in Pool
               PROVE  PeersIn(stack'[q]) = PeersIn(stack[q]) \cup PeersIn(found[w][q])
    OBVIOUS
  <2>1. stack[q] \in Seq(Task) /\ found[w][q] \in Seq(Task)
    BY DEF TypeOK
  <2>2. stack'[q] = stack[q] \o found[w][q]
    BY <1>1
  <2>3. QED
    BY <2>1, <2>2, PeersInConcat
<1>3. PeersIn(<<>>) = {}
  BY DEF PeersIn
<1>4. \A v \in Worker, q \in Pool :
        PeersIn(found'[v][q]) = IF v = w THEN {} ELSE PeersIn(found[v][q])
  BY <1>1, <1>3 DEF EmptyStacks, TypeOK
<1>5. Pending' = Pending
  <2>1. ASSUME NEW x \in Pending' PROVE x \in Pending
    <3>1. CASE \E q \in Pool : x \in PeersIn(stack'[q])
      BY <1>2, <3>1, PendingIs
    <3>2. CASE \E v \in Worker, q \in Pool : x \in PeersIn(found'[v][q])
      BY <1>4, <3>2, PendingIs
    <3>3. QED
      BY <2>1, <3>1, <3>2, PendingWillBe
  <2>2. ASSUME NEW x \in Pending PROVE x \in Pending'
    <3>1. CASE \E q \in Pool : x \in PeersIn(stack[q])
      BY <1>2, <3>1, PendingWillBe
    <3>2. CASE \E v \in Worker, q \in Pool : x \in PeersIn(found[v][q])
      BY <1>2, <1>4, <3>2, PendingWillBe
    <3>3. QED
      BY <2>2, <3>1, <3>2, PendingIs
  <2>3. QED
    BY <2>1, <2>2
<1>6. Busy' = Busy \ {w} /\ \A v \in Busy \ {w} : task'[v] = task[v]
  BY <1>1 DEF Busy, TypeOK
<1>7. \A v \in Busy \ {w} : task[v].peer # task[w].peer
  BY <1>1 DEF HandInv
<1>8. InHand' = InHand \ {task[w].peer}
  BY <1>6, <1>7 DEF InHand
<1>9. QED
  BY <1>5, <1>8

\* Exactly the addresses that enter seen start to wait.
LEMMA ExpandMoves ==
  ASSUME TypeOK, HandInv, NEW w \in Worker, NEW disc \in SUBSET Peer, Expand(w, disc)
  PROVE  \E new \in SUBSET Peer :
           /\ new \cap seen = {} /\ seen' = seen \cup new
           /\ Pending' = Pending \cup new
<1> DEFINE reply == {c \in disc : Crawlable(c)}
           fresh == {x \in reply : IsNew(x)}
           Of(q) == {x \in fresh : PoolOf(x) = q}
<1>1. PICK c \in Orderings(Tasks(Of("clearnet"), task[w].depth + 1)),
           o \in Orderings(Tasks(Of("onion"), task[w].depth + 1)) :
        found' = [found EXCEPT ![w] = [q \in Pool |-> IF q = "onion" THEN o ELSE c]]
  BY DEF Expand
<1>2. IsFiniteSet(Of("clearnet")) /\ IsFiniteSet(Of("onion"))
  BY FS_Subset, ConstantsAssumption
<1>3. PeersIn(c) = Of("clearnet") /\ PeersIn(o) = Of("onion")
  <2> HIDE DEF Of
  <2>1. QED
    BY <1>2, OrderingComplete
<1>4. seen' = seen \cup fresh /\ stack' = stack /\ fresh \cap seen = {} /\ fresh \in SUBSET Peer
  BY DEF Expand, frontierVars, IsNew
<1>5. \A x \in fresh : x \in Of("clearnet") \/ x \in Of("onion")
  BY DEF PoolOf
<1>5a. \A x : x \in Of("clearnet") \/ x \in Of("onion") => x \in fresh
  OBVIOUS
<1>6. \A q \in Pool : found'[w][q] = IF q = "onion" THEN o ELSE c
  BY <1>1 DEF TypeOK
<1>7. \A v \in Worker \ {w} : found'[v] = found[v]
  BY <1>1 DEF TypeOK
<1>8. \A q \in Pool : PeersIn(found[w][q]) = {}
  BY DEF HandInv, Expand, EmptyStacks, PeersIn
<1> HIDE DEF Of, fresh, reply
<1>9. PeersIn(found'[w]["clearnet"]) = Of("clearnet") /\ PeersIn(found'[w]["onion"]) = Of("onion")
  BY <1>3, <1>6 DEF Pool
<1>10. ASSUME NEW x \in Pending' PROVE x \in Pending \cup fresh
  <2>1. CASE \E q \in Pool : x \in PeersIn(stack'[q])
    BY <1>4, <2>1, PendingIs
  <2>2. CASE \E v \in Worker \ {w}, q \in Pool : x \in PeersIn(found'[v][q])
    BY <1>7, <2>2, PendingIs
  <2>3. CASE \E q \in Pool : x \in PeersIn(found'[w][q])
    BY <1>5a, <1>9, <2>3 DEF Pool
  <2>4. QED
    BY <1>10, <2>1, <2>2, <2>3, PendingWillBe
<1>11. ASSUME NEW x \in Pending PROVE x \in Pending'
  <2>1. CASE \E q \in Pool : x \in PeersIn(stack[q])
    BY <1>4, <2>1, PendingWillBe
  <2>2. CASE \E v \in Worker, q \in Pool : x \in PeersIn(found[v][q])
    BY <1>7, <1>8, <2>2, PendingWillBe
  <2>3. QED
    BY <1>11, <2>1, <2>2, PendingIs
<1>12. ASSUME NEW x \in fresh PROVE x \in Pending'
  BY <1>5, <1>9, PendingWillBe DEF Pool
<1>13. Pending' = Pending \cup fresh
  BY <1>10, <1>11, <1>12
<1>14. QED
  BY <1>4, <1>13

\* An entry of the file or a seed is queued.
LEMMA PushMoves ==
  ASSUME TypeOK, OnceInv, NEW t \in Seed, Push(t), t.peer \notin Queued, found' = found
  PROVE  Pending' = Pending \cup {t.peer}
<1>1. Queued' = Queued \cup {t.peer}
  BY PushQueued
<1>2. \A w \in Worker : Found(w)' = Found(w)
  BY DEF Found
<1>3. QED
  BY <1>1, <1>2 DEF Pending

-----------------------------------------------------------------------------
(* HandInv: what the workers hold.                                          *)

LEMMA CapStays ==
  ASSUME Recorded \subseteq Recorded', AtNodeCap
  PROVE  AtNodeCap'
<1>1. Cardinality(Recorded) \in Nat /\ Cardinality(Recorded') \in Nat
      /\ Cardinality(Recorded) <= Cardinality(Recorded')
  BY RecordedFinite, FS_CardinalityType, FS_Subset
<1>2. QED
  BY <1>1, ConstantsAssumption DEF AtNodeCap

\* Only the workers and a restart touch what the workers hold.
LEMMA WorkerFrame ==
  ASSUME [Next]_vars, ~Restart, ~\E w \in Worker : WorkerStep(w)
  PROVE  UNCHANGED <<pc, task, found, popped>>
<1>1. CASE StartUp
  BY <1>1, Zenon DEF StartUp, RestoreEntry, SeedEntry, BeginSeeding, SpawnWorkers, workerVars
<1>2. CASE BeginSave \/ ClonePart \/ WriteState \/ JoinWorkers \/ JoinMonitor
  BY <1>2, Zenon DEF BeginSave, ClonePart, WriteState, JoinWorkers, JoinMonitor, workerVars
<1>3. ASSUME NEW w \in Worker, SpuriousWakeup(w) PROVE UNCHANGED <<workerVars, popped>>
  BY <1>3, Zenon DEF SpuriousWakeup
<1>4. CASE UNCHANGED vars
  BY <1>4 DEF vars, workerVars
<1>5. QED
  BY <1>1, <1>2, <1>3, <1>4 DEF Next, Finished, workerVars

LEMMA HandNext ==
  ASSUME TypeOK, OnceInv, HandInv, NEW w \in Worker, NextTask(w)
  PROVE  HandInv'
<1>1. UNCHANGED <<nodes, found>> /\ Recorded' = Recorded /\ AtNodeCap' = AtNodeCap
  BY DEF NextTask, mapVars, PopTask, ExitLoop, WaitForWork, workerVars, Recorded, AtNodeCap
<1>2. CASE PopTask(w)
  <2>1. task'[w].peer \notin popped
    BY <1>2, PopOnce
  <2>2. /\ pc[w] = "next" /\ Busy' = Busy \cup {w} /\ w \notin Busy
        /\ pc'[w] = "cap" /\ popped' = popped \cup {task'[w].peer}
    BY <1>2 DEF NextTask, PopTask, Busy, TypeOK
  <2>3. \A v \in Worker \ {w} : task'[v] = task[v] /\ pc'[v] = pc[v]
    BY <1>2 DEF PopTask, TypeOK
  <2>4. ASSUME NEW v \in Busy
        PROVE  task[v].peer # task'[w].peer /\ task'[v].peer = task[v].peer
    <3>1. v \in Worker \ {w}
      BY <2>2 DEF Busy
    <3>2. task[v].peer \in popped
      BY DEF HandInv
    <3>3. QED
      BY <2>1, <2>3, <3>1, <3>2
  <2>5. \A v \in Busy' : task'[v].peer \in popped'
    BY <2>2, <2>4 DEF HandInv
  <2>6. \A u, v \in Busy' : task'[u].peer = task'[v].peer => u = v
    BY <2>2, <2>4 DEF HandInv
  <2>7. \A v \in Worker : /\ pc'[v] # "finish" => found'[v] = EmptyStacks
                          /\ pc'[v] = "expand" => task'[v].peer \in Recorded'
                          /\ pc'[v] = "finish" => task'[v].peer \in Recorded' \/ AtNodeCap'
    BY <1>1, <2>2, <2>3 DEF HandInv
  <2>8. QED
    BY <2>5, <2>6, <2>7 DEF HandInv
<1>3. CASE ExitLoop(w) \/ WaitForWork(w)
  <2>1. UNCHANGED <<task, popped>> /\ pc[w] = "next" /\ pc'[w] \in {"next", "exited"}
        /\ \A v \in Worker \ {w} : pc'[v] = pc[v]
    BY <1>3 DEF NextTask, ExitLoop, WaitForWork, workerVars, TypeOK
  <2>2. Busy' = Busy
    BY <2>1 DEF Busy
  <2>3. QED
    BY <1>1, <2>1, <2>2 DEF HandInv
<1>4. QED
  BY <1>2, <1>3 DEF NextTask

LEMMA HandFinish ==
  ASSUME TypeOK, HandInv, NEW w \in Worker, FinishTask(w)
  PROVE  HandInv'
<1>1. /\ pc' = [pc EXCEPT ![w] = "next"] /\ found' = [found EXCEPT ![w] = EmptyStacks]
      /\ task' = [task EXCEPT ![w] = <<>>] /\ UNCHANGED <<popped, nodes>>
  BY DEF FinishTask, mapVars
<1>2. Busy' = Busy \ {w} /\ \A v \in Worker \ {w} :
        task'[v] = task[v] /\ pc'[v] = pc[v] /\ found'[v] = found[v]
  BY <1>1 DEF Busy, TypeOK
<1>3. pc'[w] = "next" /\ found'[w] = EmptyStacks
  BY <1>1 DEF TypeOK
<1>4. Recorded' = Recorded /\ AtNodeCap' = AtNodeCap
  BY <1>1 DEF Recorded, AtNodeCap
<1>5. QED
  BY <1>1, <1>2, <1>3, <1>4 DEF HandInv

\* A worker reaches finish without a record only from the cap test.
LEMMA HandProbe ==
  ASSUME TypeOK, HandInv, NEW w \in Worker, CheckCap(w) \/ ProbeStep(w),
         Recorded \subseteq Recorded'
  PROVE  HandInv'
<1>1. UNCHANGED <<task, found, popped>> /\ w \in Busy /\ pc[w] \in {"cap", "probe"}
  BY DEF CheckCap, ProbeStep, RetryProbe, RecordUp, RecordStub, Busy
<1>2. /\ \A v \in Worker \ {w} : pc'[v] = pc[v]
      /\ pc'[w] \in {"probe", "expand", "finish"}
      /\ pc'[w] = "expand" => task[w].peer \in Recorded'
      /\ pc'[w] = "finish" => task[w].peer \in Recorded' \/ AtNodeCap
  <2>1. task[w].peer \in Peer
    BY <1>1 DEF TypeOK, Task
  <2>2. CASE CheckCap(w)
    BY <2>2 DEF CheckCap, TypeOK
  <2>3. CASE RetryProbe(w)
    BY <2>3 DEF RetryProbe
  <2>4. CASE RecordUp(w) \/ RecordStub(w)
    BY <2>1, <2>4 DEF RecordUp, RecordStub, StubIfAbsent, Recorded, TypeOK
  <2>5. QED
    BY <2>2, <2>3, <2>4 DEF ProbeStep
<1>3. Busy' = Busy
  BY <1>1, <1>2 DEF Busy
<1>4. AtNodeCap => AtNodeCap'
  BY CapStays
<1>5. QED
  BY <1>1, <1>2, <1>3, <1>4 DEF HandInv

LEMMA HandExpand ==
  ASSUME TypeOK, HandInv, NEW w \in Worker, ExpandStep(w)
  PROVE  HandInv'
<1>1. UNCHANGED <<task, popped, nodes>> /\ pc[w] = "expand" /\ pc'[w] = "finish"
      /\ \A v \in Worker \ {w} : pc'[v] = pc[v] /\ found'[v] = found[v]
  BY DEF ExpandStep, Expand, TypeOK
<1>2. Busy' = Busy /\ Recorded' = Recorded /\ AtNodeCap' = AtNodeCap
  BY <1>1 DEF Busy, Recorded, AtNodeCap
<1>3. QED
  BY <1>1, <1>2 DEF HandInv

LEMMA HandInductive ==
  TypeOK /\ OnceInv /\ HandInv /\ [Next]_vars => HandInv'
<1> SUFFICES ASSUME TypeOK, OnceInv, HandInv, [Next]_vars PROVE HandInv'
  OBVIOUS
<1>1. CASE Restart
  <2>1. pc' = [w \in Worker |-> "next"] /\ found' = [w \in Worker |-> EmptyStacks]
    BY <1>1 DEF Restart, Load
  <2>2. Busy' = {}
    BY <2>1 DEF Busy
  <2>3. QED
    BY <2>1, <2>2 DEF HandInv
<1>2. CASE ~Restart
  <2>1. Recorded \subseteq Recorded'
    BY <1>2, RecordedGrows
  <2>2. ASSUME NEW w \in Worker, WorkerStep(w) PROVE HandInv'
    BY <2>1, <2>2, HandNext, HandFinish, HandProbe, HandExpand DEF WorkerStep
  <2>3. CASE ~\E w \in Worker : WorkerStep(w)
    <3>1. UNCHANGED <<pc, task, found, popped>>
      BY <1>2, <2>3, WorkerFrame
    <3>2. Busy' = Busy /\ (AtNodeCap => AtNodeCap')
      BY <2>1, <3>1, CapStays DEF Busy
    <3>3. QED
      BY <2>1, <3>1, <3>2 DEF HandInv
  <2>4. QED
    BY <2>2, <2>3
<1>3. QED
  BY <1>1, <1>2

LEMMA InitHand == Init => HandInv
<1>1. Init => Busy = {}
  BY DEF Init, Busy
<1>2. QED
  BY <1>1 DEF Init, HandInv

LEMMA HandInvariant == Spec => []HandInv
<1>1. QED
  BY InitHand, HandInductive, TypeCorrect, OnceInvariant, PTL DEF Spec

-----------------------------------------------------------------------------
(* SeenInv: nothing that enters seen is dropped.                            *)

\* Saves, joins and spurious wake-ups leave the crawl itself alone.
LEMMA SilentFrame ==
  ASSUME [Next]_vars, ~Restart, ~StartUp, ~\E w \in Worker : WorkerStep(w)
  PROVE  /\ UNCHANGED <<stack, seen, nodes, pc, task, found, popped, baseline>>
         /\ \/ phase' = phase
            \/ phase = "crawl" /\ phase' = "stop" /\ \A w \in Worker : pc[w] = "exited"
            \/ phase \in {"stop", "final"} /\ phase' \in {"final", "done"}
<1>1. CASE BeginSave \/ ClonePart
  BY <1>1, Zenon DEF BeginSave, ClonePart, startVars, frontierVars, workerVars, mapVars
<1>2. CASE WriteState
  BY <1>2 DEF WriteState, frontierVars, workerVars, mapVars
<1>3. CASE JoinWorkers \/ JoinMonitor
  BY <1>3 DEF JoinWorkers, JoinMonitor, frontierVars, workerVars, mapVars
<1>4. ASSUME NEW w \in Worker, SpuriousWakeup(w)
      PROVE  UNCHANGED <<startVars, stack, workerVars, mapVars, popped>>
  BY <1>4, Zenon DEF SpuriousWakeup
<1>5. CASE UNCHANGED vars
  BY <1>5 DEF vars, startVars, frontierVars, workerVars, mapVars
<1>6. QED
  BY <1>1, <1>2, <1>3, <1>4, <1>5 DEF Next, Finished, startVars, workerVars, mapVars

\* A worker moves only after SpawnWorkers and before it has left its loop.
LEMMA WorkerPhase ==
  ASSUME TypeOK, PoolInv, SeenInv, NEW w \in Worker, WorkerStep(w)
  PROVE  phase = "crawl" /\ UNCHANGED <<phase, baseline>>
<1>1. pc[w] # "exited" /\ (pc[w] = "next" => phase = "crawl")
  BY DEF WorkerStep, NextTask, CheckCap, ProbeStep, RetryProbe, RecordUp, RecordStub,
         ExpandStep, FinishTask
<1>2. phase = "crawl"
  BY <1>1 DEF PoolInv, QuietStart, SeenInv, TypeOK
<1>3. UNCHANGED startVars
  BY Zenon DEF WorkerStep, NextTask, CheckCap, ProbeStep, RetryProbe, RecordUp,
         RecordStub, ExpandStep, Expand, FinishTask
<1>4. QED
  BY <1>2, <1>3 DEF startVars

Covered == seen \subseteq Recorded \cup Pending \cup InHand

LEMMA SeenStartUp ==
  ASSUME TypeOK, PoolInv, OnceInv, SeenInv, StartUp
  PROVE  SeenInv'
<1>1. /\ UNCHANGED <<pc, task, found>> /\ phase' \in {"restore", "seed", "crawl"}
      /\ phase \in {"restore", "seed"}
  BY DEF StartUp, RestoreEntry, SeedEntry, BeginSeeding, SpawnWorkers, workerVars
<1>2. InHand' = InHand
  BY <1>1 DEF InHand, Busy
<1>3. Recorded \subseteq seen /\ Covered
  BY <1>1 DEF SeenInv, Covered
<1>4. CASE \E t \in Seed : /\ Push(t) /\ t.peer \notin Queued
                           /\ seen' = seen \cup {t.peer}
                           /\ Recorded \subseteq Recorded'
                           /\ Recorded' \subseteq Recorded \cup {t.peer}
  <2>1. PICK t \in Seed : /\ Pending' = Pending \cup {t.peer} /\ seen' = seen \cup {t.peer}
                          /\ Recorded \subseteq Recorded'
                          /\ Recorded' \subseteq Recorded \cup {t.peer}
    BY <1>1, <1>4, PushMoves
  <2>2. QED
    BY <1>1, <1>2, <1>3, <2>1 DEF SeenInv, Covered
<1>5. CASE UNCHANGED <<stack, seen, nodes>>
  <2>1. Pending' = Pending /\ Recorded' = Recorded
    BY <1>1, <1>5 DEF Pending, Queued, Found, Recorded
  <2>2. QED
    BY <1>1, <1>2, <1>3, <1>5, <2>1 DEF SeenInv, Covered
<1>6. CASE RestoreEntry
  <2>1. todo # <<>> /\ nodes' = nodes /\ todo \in Seq(Seed) /\ phase = "restore"
    BY <1>6 DEF RestoreEntry, TypeOK
  <2>2. Head(todo) \in Seed /\ Head(todo).peer \notin Queued
    BY <2>1, TodoTyped, UniqueTail DEF OnceInv
  <2>3. Recorded' = Recorded
    BY <2>1 DEF Recorded
  <2>4. QED
    BY <1>4, <1>5, <1>6, <2>1, <2>2, <2>3 DEF RestoreEntry
<1>7. CASE SeedEntry
  <2>1. todo # <<>> /\ todo \in Seq(Seed)
    BY <1>7 DEF SeedEntry, TypeOK
  <2>2. Head(todo) \in Seed
    BY <2>1, TodoTyped
  <2>3. CASE Crawlable(Head(todo).peer) /\ IsNew(Head(todo).peer)
    <3>1. Head(todo).peer \notin Queued
      BY <2>3 DEF IsNew, OnceInv, Queued
    <3>2. Recorded \subseteq Recorded' /\ Recorded' \subseteq Recorded \cup {Head(todo).peer}
      BY <1>7, <2>3 DEF SeedEntry, Recorded, TypeOK
    <3>3. QED
      BY <1>4, <1>7, <2>2, <2>3, <3>1, <3>2 DEF SeedEntry
  <2>4. CASE ~(Crawlable(Head(todo).peer) /\ IsNew(Head(todo).peer))
    BY <1>5, <1>7, <2>4 DEF SeedEntry
  <2>5. QED
    BY <2>3, <2>4
<1>8. CASE BeginSeeding \/ SpawnWorkers
  BY <1>5, <1>8 DEF BeginSeeding, SpawnWorkers, frontierVars, mapVars
<1>9. QED
  BY <1>6, <1>7, <1>8 DEF StartUp

LEMMA SeenWorker ==
  ASSUME TypeOK, PoolInv, OnceInv, HandInv, SeenInv, NEW w \in Worker, WorkerStep(w),
         [Next]_vars, ~Restart
  PROVE  SeenInv'
<1>1. phase = "crawl" /\ phase' = "crawl"
  BY WorkerPhase
<1>2. SUFFICES Recorded' \subseteq seen' /\ (MaxNodes = 0 => Covered')
  BY <1>1 DEF SeenInv, Covered
<1>3. Recorded \subseteq seen /\ (MaxNodes = 0 => Covered)
  BY DEF SeenInv, Covered
<1>4. Recorded \subseteq Recorded'
  BY RecordedGrows
<1>5. CASE PopTask(w) /\ NextTask(w)
  <2>1. UNCHANGED <<seen, nodes>>
    BY <1>5 DEF NextTask, mapVars
  <2>2. QED
    BY <1>3, <1>4, <1>5, <2>1, PopMoves DEF Covered, Recorded
<1>6. CASE NextTask(w) /\ ~PopTask(w)
  <2>1. UNCHANGED <<seen, nodes, stack, found, task>> /\ pc[w] = "next" /\ pc'[w] \in {"next", "exited"}
        /\ \A v \in Worker \ {w} : pc'[v] = pc[v]
    BY <1>6 DEF NextTask, mapVars, ExitLoop, WaitForWork, workerVars, TypeOK
  <2>2. Busy' = Busy
    BY <2>1 DEF Busy
  <2>3. Pending' = Pending /\ InHand' = InHand /\ Recorded' = Recorded
    BY <2>1, <2>2 DEF Pending, Queued, Found, InHand, Recorded
  <2>4. QED
    BY <1>3, <2>1, <2>3 DEF Covered
<1>7. CASE CheckCap(w) \/ ProbeStep(w)
  <2>1. UNCHANGED <<seen, stack, found, task>> /\ Busy' = Busy /\ w \in Busy
    BY <1>7 DEF CheckCap, ProbeStep, RetryProbe, RecordUp, RecordStub, frontierVars,
                mapVars, Busy, TypeOK
  <2>2. Recorded' \subseteq Recorded \cup {task[w].peer}
    BY <1>7 DEF CheckCap, ProbeStep, RetryProbe, RecordUp, RecordStub, mapVars, Recorded, TypeOK
  <2>3. task[w].peer \in seen
    BY <2>1 DEF HandInv, OnceInv
  <2>4. Pending' = Pending /\ InHand' = InHand
    BY <2>1 DEF Pending, Queued, Found, InHand
  <2>5. QED
    BY <1>3, <1>4, <2>1, <2>2, <2>3, <2>4 DEF Covered
<1>8. CASE ExpandStep(w)
  <2>1. task[w].peer \in Peer
    BY <1>8 DEF ExpandStep, TypeOK, Busy, Task
  <2>2. PICK disc \in SUBSET Peer : Expand(w, disc)
    BY <1>8, <2>1, ConstantsAssumption DEF ExpandStep
  <2>3. PICK new \in SUBSET Peer : seen' = seen \cup new /\ Pending' = Pending \cup new
    BY <2>2, ExpandMoves
  <2>4. UNCHANGED <<task, nodes>> /\ Busy' = Busy
    BY <2>2 DEF Expand, Busy, TypeOK
  <2>5. InHand' = InHand /\ Recorded' = Recorded
    BY <2>4 DEF InHand, Recorded
  <2>6. QED
    BY <1>3, <2>3, <2>5 DEF Covered
<1>9. CASE FinishTask(w)
  <2>1. UNCHANGED <<seen, nodes>> /\ pc[w] = "finish"
    BY <1>9 DEF FinishTask, mapVars
  <2>2. Pending' = Pending /\ InHand' = InHand \ {task[w].peer} /\ Recorded' = Recorded
    BY <1>9, <2>1, FinishMoves DEF Recorded
  <2>3. MaxNodes = 0 => task[w].peer \in Recorded
    BY <2>1 DEF HandInv, AtNodeCap
  <2>4. QED
    BY <1>3, <2>1, <2>2, <2>3 DEF Covered
<1>10. QED
  BY <1>5, <1>6, <1>7, <1>8, <1>9 DEF WorkerStep

LEMMA SeenInductive ==
  TypeOK /\ PoolInv /\ OnceInv /\ HandInv /\ SeenInv /\ [Next]_vars => SeenInv'
<1> SUFFICES ASSUME TypeOK, PoolInv, OnceInv, HandInv, SeenInv, [Next]_vars PROVE SeenInv'
  OBVIOUS
<1>1. CASE Restart
  <2>1. phase' = "restore" /\ seen' = Recorded'
    BY <1>1 DEF Restart, Load, Recorded
  <2>2. QED
    BY <2>1 DEF SeenInv
<1>2. CASE ~Restart /\ ~StartUp /\ ~\E w \in Worker : WorkerStep(w)
  <2>1. /\ UNCHANGED <<stack, seen, nodes, pc, task, found>>
        /\ \/ phase' = phase
           \/ phase = "crawl" /\ phase' = "stop" /\ \A w \in Worker : pc[w] = "exited"
           \/ phase \in {"stop", "final"} /\ phase' \in {"final", "done"}
    BY <1>2, SilentFrame
  <2>2. Pending' = Pending /\ InHand' = InHand /\ Recorded' = Recorded
    BY <2>1 DEF Pending, Queued, Found, InHand, Busy, Recorded
  <2>3. QED
    BY <2>1, <2>2 DEF SeenInv
<1>3. QED
  BY <1>1, <1>2, SeenStartUp, SeenWorker

LEMMA InitSeen == Init => SeenInv
<1> SUFFICES ASSUME Init PROVE SeenInv
  OBVIOUS
<1>1. Recorded = {}
  BY DEF Init, Recorded, EmptyState
<1>2. QED
  BY <1>1 DEF Init, SeenInv

LEMMA SeenInvariant == Spec => []SeenInv
<1>1. QED
  BY InitSeen, SeenInductive, TypeCorrect, PoolInvariant, OnceInvariant, HandInvariant,
     PTL DEF Spec

\* For any network, seeds and pools: a crawl without a node cap that has ended
\* has a record for every address that ever entered seen.
THEOREM NothingSeenIsDropped == Spec => []EverySeenPeerRecorded
<1>1. TypeOK /\ PoolInv /\ HandInv /\ SeenInv => EverySeenPeerRecorded
  <2> SUFFICES ASSUME PoolInv, HandInv, SeenInv, MaxNodes = 0,
                      phase \in {"stop", "final", "done"}
               PROVE  seen \subseteq Recorded
    BY DEF EverySeenPeerRecorded
  <2>1. \A w \in Worker : pc[w] = "exited" /\ found[w] = EmptyStacks
    BY DEF SeenInv, HandInv
  <2>2. Worker # {}
    BY ConstantsAssumption DEF Worker
  <2>3. FrontierEmpty /\ InHand = {}
    BY <2>1, <2>2 DEF PoolInv, ExitOnlyWhenFinished, InHand
  <2>4. Pending = {}
    <3>1. PeersIn(<<>>) = {}
      BY DEF PeersIn
    <3>2. QED
      BY <2>1, <2>3, <3>1, PendingIs DEF FrontierEmpty, EmptyStacks
  <2>5. QED
    BY <2>3, <2>4 DEF SeenInv
<1>2. QED
  BY <1>1, TypeCorrect, PoolInvariant, HandInvariant, SeenInvariant, PTL

-----------------------------------------------------------------------------
(* KeptInv: what the state file says stays said.                            *)

\* Within a run a record is never removed and an answered peer stays answered:
\* a seed's record is stored only where seen has no entry.
LEMMA NodesExtend ==
  ASSUME TypeOK, SeenInv, [Next]_vars, ~Restart
  PROVE  Extends(nodes', nodes)
<1>1. CASE SeedEntry
  BY <1>1 DEF SeedEntry, IsNew, SeenInv, Recorded, Extends, TypeOK
<1>2. ASSUME NEW w \in Worker, RecordUp(w) PROVE Extends(nodes', nodes)
  BY <1>2 DEF RecordUp, Extends, TypeOK
<1>3. ASSUME NEW w \in Worker, RecordStub(w) PROVE Extends(nodes', nodes)
  BY <1>3 DEF RecordStub, StubIfAbsent, Extends, TypeOK
<1>4. CASE nodes' = nodes
  BY <1>4 DEF Extends
<1>5. \/ SeedEntry \/ nodes' = nodes
      \/ \E w \in Worker : RecordUp(w) \/ RecordStub(w)
  BY Zenon DEF Next, StartUp, RestoreEntry, BeginSeeding, SpawnWorkers, WorkerStep,
     NextTask, CheckCap, ProbeStep, RetryProbe, ExpandStep, Expand, FinishTask,
     SpuriousWakeup, BeginSave, ClonePart, WriteState, JoinWorkers, JoinMonitor,
     Finished, vars, mapVars
<1>6. QED
  BY <1>1, <1>2, <1>3, <1>4, <1>5

LEMMA ExtendsTransitive ==
  \A a, b, c : Extends(c, b) /\ Extends(b, a) => Extends(c, a)
BY DEF Extends

LEMMA ExtendsReflexive == \A a : Extends(a, a)
BY DEF Extends

LEMMA KeptInductive == TypeOK /\ SeenInv /\ KeptInv /\ [Next]_vars => KeptInv'
<1> SUFFICES ASSUME TypeOK, SeenInv, KeptInv, [Next]_vars PROVE KeptInv'
  OBVIOUS
<1>1. CASE Restart
  <2>1. step' = 0 /\ disk' = disk /\ (~LoadMayFail => nodes' = disk.nodes)
    BY <1>1, Zenon DEF Restart, Load
  <2>2. QED
    BY <2>1, ExtendsReflexive DEF KeptInv
<1>2. CASE ClonePart
  <2>1. step \in 1..3 /\ step' = step + 1 /\ nodes' = nodes /\ disk' = disk
    BY <1>2, Zenon DEF ClonePart, mapVars
  <2>2. CASE step = 1
    BY <2>1, <2>2 DEF KeptInv
  <2>3. CASE step = 2
    <3>1. save' = [save EXCEPT !.nodes = nodes]
      BY <1>2, <2>3 DEF ClonePart, SaveOrder
    <3>2. save'.nodes = nodes
      BY <3>1 DEF TypeOK, SavedState
    <3>3. QED
      BY <2>1, <2>3, <3>2, ExtendsReflexive DEF KeptInv
  <2>4. CASE step = 3
    <3>1. save' = [save EXCEPT !.edges = edges]
      BY <1>2, <2>4 DEF ClonePart, SaveOrder
    <3>2. save'.nodes = save.nodes
      BY <3>1 DEF TypeOK, SavedState
    <3>3. QED
      BY <2>1, <2>4, <3>2 DEF KeptInv
  <2>5. QED
    BY <2>1, <2>2, <2>3, <2>4
<1>3. CASE WriteState
  <2>1. step = 4 /\ step' = 0 /\ nodes' = nodes /\ (disk' = save \/ disk' = disk)
    BY <1>3 DEF WriteState, mapVars
  <2>2. QED
    BY <2>1 DEF KeptInv
<1>4. CASE ~Restart /\ ~ClonePart /\ ~WriteState
  <2>1. UNCHANGED <<save, disk>> /\ (step' = step \/ step' = 1)
    BY <1>4, SaveFrame
  <2>2. Extends(nodes', nodes)
    BY <1>4, NodesExtend
  <2>3. QED
    BY <2>1, <2>2, ExtendsTransitive DEF KeptInv
<1>5. QED
  BY <1>1, <1>2, <1>3, <1>4

LEMMA KeptInvariant == Spec => []KeptInv
<1>1. Init => KeptInv
  BY DEF Init, KeptInv, Extends, EmptyState
<1>2. QED
  BY <1>1, KeptInductive, TypeCorrect, SeenInvariant, PTL DEF Spec

\* For any network and any crashes, as long as the state file can be read back: a
\* save of this run or of a later one holds every record the file held before,
\* and no completed handshake turns into a stub.
THEOREM SavedRecordsStay ==
  ASSUME ~LoadMayFail
  PROVE  Spec => SavedRecordsKept
<1>1. KeptInv /\ [Next]_vars => [Extends(disk'.nodes, disk.nodes)]_vars
  <2> SUFFICES ASSUME KeptInv, [Next]_vars PROVE Extends(disk'.nodes, disk.nodes)
    OBVIOUS
  <2>1. CASE WriteState
    BY <2>1, ExtendsReflexive DEF WriteState, KeptInv
  <2>2. CASE Restart \/ ClonePart
    <3>1. disk' = disk
      BY <2>2, Zenon DEF Restart, ClonePart
    <3>2. QED
      BY <3>1, ExtendsReflexive
  <2>3. CASE ~Restart /\ ~ClonePart /\ ~WriteState
    BY <2>3, SaveFrame, ExtendsReflexive
  <2>4. QED
    BY <2>1, <2>2, <2>3
<1>2. QED
  BY <1>1, KeptInvariant, PTL DEF Spec, SavedRecordsKept

-----------------------------------------------------------------------------
(* CapInv: how far the node cap can be overshot.                            *)

LEMMA ProbingFinite ==
  /\ IsFiniteSet(Probing) /\ IsFiniteSet(Probing')
  /\ Cardinality(Recorded) \in Nat /\ Cardinality(Recorded') \in Nat
  /\ Cardinality(Probing) \in Nat /\ Cardinality(Probing') \in Nat
  /\ Cardinality(Probing) <= Cardinality(Worker)
  /\ Cardinality(Probing') <= Cardinality(Worker)
  /\ Cardinality(Worker) \in Nat
<1>1. Probing \subseteq Worker /\ Probing' \subseteq Worker
  BY DEF Probing
<1>2. QED
  BY <1>1, BusyFinite, RecordedFinite, FS_Subset, FS_CardinalityType

\* The worker's probe becomes at most one record.
LEMMA CapRecord ==
  ASSUME TypeOK, CapInv, PoolInv, NEW w \in Worker, RecordUp(w) \/ RecordStub(w),
         UNCHANGED <<phase, baseline>>
  PROVE  CapInv'
<1>1. w \in Probing /\ Probing' = Probing \ {w}
  BY DEF RecordUp, RecordStub, Probing, TypeOK
<1>2. Cardinality(Probing') = Cardinality(Probing) - 1
  BY <1>1, ProbingFinite, FS_RemoveElement
<1>3. Recorded' = Recorded \cup {task[w].peer}
  <2>1. task[w].peer \in Peer
    BY DEF RecordUp, RecordStub, TypeOK, Busy, Task
  <2>2. QED
    BY <2>1 DEF RecordUp, RecordStub, StubIfAbsent, Recorded, TypeOK
<1>4. Cardinality(Recorded') <= Cardinality(Recorded) + 1
  <2>1. Cardinality(Recorded') = IF task[w].peer \in Recorded
          THEN Cardinality(Recorded) ELSE Cardinality(Recorded) + 1
    BY <1>3, RecordedFinite, FS_AddElement
  <2>2. QED
    BY <2>1, ProbingFinite
<1>5. Probing # {}
  BY <1>1
<1>6. QED
  BY <1>2, <1>4, <1>5, ProbingFinite, ConstantsAssumption DEF CapInv

\* A worker that passes the test finds a record missing to the cap.
LEMMA CapCheck ==
  ASSUME TypeOK, CapInv, NEW w \in Worker, CheckCap(w)
  PROVE  CapInv'
<1>1. UNCHANGED <<phase, baseline>> /\ Recorded' = Recorded
  BY DEF CheckCap, startVars, mapVars, Recorded
<1>2. CASE AtNodeCap
  <2>1. Probing' = Probing
    BY <1>2 DEF CheckCap, Probing, TypeOK
  <2>2. QED
    BY <1>1, <2>1 DEF CapInv
<1>3. CASE ~AtNodeCap
  <2>1. MaxNodes # 0 => Cardinality(Recorded') <= MaxNodes - 1
    BY <1>1, <1>3, ProbingFinite, ConstantsAssumption DEF AtNodeCap
  <2>2. QED
    BY <2>1, ProbingFinite, ConstantsAssumption DEF CapInv
<1>4. QED
  BY <1>2, <1>3

LEMMA CapInductive ==
  TypeOK /\ PoolInv /\ SeenInv /\ CapInv /\ [Next]_vars => CapInv'
<1> SUFFICES ASSUME TypeOK, PoolInv, SeenInv, CapInv, [Next]_vars PROVE CapInv'
  OBVIOUS
<1>1. CASE Restart
  BY <1>1 DEF Restart, Load, CapInv
<1>2. CASE StartUp
  <2>1. CASE SpawnWorkers
    <3>1. baseline' = Recorded' /\ Probing' = {}
      BY <2>1 DEF SpawnWorkers, mapVars, workerVars, Recorded, Probing, PoolInv, QuietStart
    <3>2. QED
      BY <3>1 DEF CapInv
  <2>2. CASE ~SpawnWorkers
    <3>1. phase' \in {"restore", "seed"}
      BY <1>2, <2>2 DEF StartUp, RestoreEntry, SeedEntry, BeginSeeding
    <3>2. QED
      BY <3>1 DEF CapInv
  <2>3. QED
    BY <2>1, <2>2
<1>3. ASSUME NEW w \in Worker, WorkerStep(w) PROVE CapInv'
  <2>1. phase' = phase /\ baseline' = baseline
    BY <1>3, WorkerPhase
  <2>2. CASE RecordUp(w) \/ RecordStub(w)
    BY <2>1, <2>2, CapRecord
  <2>3. CASE NextTask(w) \/ RetryProbe(w) \/ ExpandStep(w) \/ FinishTask(w)
    <3>1. nodes' = nodes
      BY <2>3, Zenon DEF NextTask, RetryProbe, ExpandStep, Expand, FinishTask, mapVars
    <3>2. \A v \in Worker : pc'[v] = "probe" <=> pc[v] = "probe"
      BY <2>3 DEF NextTask, PopTask, ExitLoop, WaitForWork, workerVars, RetryProbe,
                  ExpandStep, Expand, FinishTask, TypeOK
    <3>3. Probing' = Probing /\ Recorded' = Recorded
      BY <3>1, <3>2 DEF Probing, Recorded
    <3>4. QED
      BY <2>1, <3>3 DEF CapInv
  <2>4. QED
    BY <1>3, <2>2, <2>3, CapCheck DEF WorkerStep, ProbeStep
<1>4. CASE ~Restart /\ ~StartUp /\ ~\E w \in Worker : WorkerStep(w)
  <2>1. /\ UNCHANGED <<nodes, pc, baseline>>
        /\ phase' = phase \/ phase \in {"crawl", "stop", "final"}
    BY <1>4, SilentFrame
  <2>2. Recorded' = Recorded /\ Probing' = Probing
    BY <2>1 DEF Recorded, Probing
  <2>3. QED
    BY <2>1, <2>2 DEF CapInv
<1>5. QED
  BY <1>1, <1>2, <1>3, <1>4

LEMMA CapInvariant == Spec => []CapInv
<1>1. Init => CapInv
  BY DEF Init, CapInv
<1>2. QED
  BY <1>1, CapInductive, TypeCorrect, PoolInvariant, SeenInvariant, PTL DEF Spec

\* For any cap and any number of workers: although the cap is tested under one
\* lock and acted on under another, a crawl that records anything at all ends up
\* with fewer than MaxNodes plus one record a worker.
THEOREM CapHardlyOvershot == Spec => []NodeCapOvershoot
<1>1. CapInv => NodeCapOvershoot
  BY ProbingFinite, ConstantsAssumption DEF CapInv, NodeCapOvershoot
<1>2. QED
  BY <1>1, CapInvariant, PTL

-----------------------------------------------------------------------------
(* Crawler implements CrawlSpec, action by action.                          *)

Mapped == <<Stage, seen, Pending, InHand, Recorded, SavedNodes>>

ImplInv == TypeOK /\ PoolInv /\ OnceInv /\ HandInv /\ SeenInv /\ KeptInv

\* CrawlSpec's Cardinality is ours.
LEMMA SameCount == \A S : Abstract!Cardinality(S) = Cardinality(S)
BY DEF Abstract!Cardinality, Cardinality

\* Before the workers start, Pending is what is queued and nothing is in hand.
LEMMA LoadingIsQuiet ==
  ASSUME PoolInv, phase \in {"restore", "seed"}
  PROVE  Pending = Queued /\ InHand = {} /\ \A w \in Worker : pc[w] = "next"
<1>1. \A w \in Worker : pc[w] = "next" /\ found[w] = EmptyStacks
  BY DEF PoolInv, QuietStart
<1>2. Busy = {}
  BY <1>1 DEF Busy
<1>3. \A w \in Worker : Found(w) = {}
  BY <1>1 DEF Found, EmptyStacks, PeersIn
<1>4. QED
  BY <1>1, <1>2, <1>3 DEF Pending, InHand

LEMMA StartUpRefines ==
  ASSUME ImplInv, StartUp
  PROVE  [Abstract!Next]_Mapped
<1> USE DEF ImplInv
<1>1. /\ UNCHANGED <<pc, task, found, disk>> /\ phase \in {"restore", "seed"}
      /\ phase' \in {"restore", "seed"} \/ SpawnWorkers
  BY DEF StartUp, RestoreEntry, SeedEntry, BeginSeeding, SpawnWorkers, workerVars, saveVars
<1>2. InHand' = InHand /\ SavedNodes' = SavedNodes /\ Stage = "loading"
  BY <1>1 DEF InHand, Busy, SavedNodes, Stage
<1>3. Pending = Queued /\ InHand = {} /\ \A w \in Worker : pc[w] = "next"
  BY <1>1, LoadingIsQuiet
<1>4. ASSUME NEW t \in Seed, Push(t), t.peer \notin Queued, seen' = seen \cup {t.peer},
             Recorded' \in {Recorded, Recorded \cup {t.peer}}, phase' \in {"restore", "seed"}
      PROVE  Abstract!Next
  <2>1. Pending' = Pending \cup {t.peer}
    BY <1>1, <1>4, PushMoves
  <2>2. t.peer \in seen => t.peer \in Recorded
    BY <1>1, <1>3, <1>4 DEF SeenInv
  <2>3. Stage' = "loading" /\ t.peer \in Peer
    BY <1>4 DEF Stage, Seed
  <2>4. Abstract!Queue(t.peer)
    BY <1>2, <1>3, <1>4, <2>1, <2>2, <2>3 DEF Abstract!Queue
  <2>5. QED
    BY <2>3, <2>4 DEF Abstract!Next
<1>5. ASSUME UNCHANGED <<stack, seen, nodes>>, phase' \in {"restore", "seed"}
      PROVE  UNCHANGED Mapped
  <2>1. Pending' = Pending /\ Recorded' = Recorded /\ Stage' = "loading"
    BY <1>1, <1>5 DEF Pending, Queued, Found, Recorded, Stage
  <2>2. QED
    BY <1>2, <1>5, <2>1 DEF Mapped
<1>6. CASE RestoreEntry
  <2>1. /\ todo # <<>> /\ nodes' = nodes /\ todo \in Seq(Seed)
        /\ phase = "restore" /\ phase' = "restore"
    BY <1>6 DEF RestoreEntry, TypeOK
  <2>2. Head(todo) \in Seed /\ Head(todo).peer \notin Queued
    BY <2>1, TodoTyped, UniqueTail DEF OnceInv
  <2>3. Recorded' = Recorded
    BY <2>1 DEF Recorded
  <2>4. QED
    BY <1>4, <1>5, <1>6, <2>1, <2>2, <2>3 DEF RestoreEntry
<1>7. CASE SeedEntry
  <2>1. todo # <<>> /\ todo \in Seq(Seed) /\ phase' = "seed"
    BY <1>7 DEF SeedEntry, TypeOK
  <2>2. Head(todo) \in Seed
    BY <2>1, TodoTyped
  <2>3. CASE Crawlable(Head(todo).peer) /\ IsNew(Head(todo).peer)
    <3>1. Head(todo).peer \notin Queued /\ Head(todo).peer \in Peer
      BY <2>2, <2>3 DEF IsNew, OnceInv, Queued, Seed
    <3>2. Recorded' \in {Recorded, Recorded \cup {Head(todo).peer}}
      BY <1>7, <2>3, <3>1 DEF SeedEntry, Recorded, TypeOK
    <3>3. QED
      BY <1>4, <1>7, <2>1, <2>2, <2>3, <3>1, <3>2 DEF SeedEntry
  <2>4. CASE ~(Crawlable(Head(todo).peer) /\ IsNew(Head(todo).peer))
    BY <1>5, <1>7, <2>1, <2>4 DEF SeedEntry
  <2>5. QED
    BY <2>3, <2>4
<1>8. CASE BeginSeeding
  BY <1>5, <1>8 DEF BeginSeeding, frontierVars, mapVars
<1>9. CASE SpawnWorkers
  <2>1. UNCHANGED <<stack, seen, nodes>> /\ phase' = "crawl"
    BY <1>9 DEF SpawnWorkers, frontierVars, mapVars
  <2>2. Stage' = "crawling" /\ Pending' = Pending /\ Recorded' = Recorded
    BY <1>1, <1>3, <2>1 DEF Stage, Pending, Queued, Found, Recorded
  <2>3. Abstract!Begin
    BY <1>2, <2>1, <2>2 DEF Abstract!Begin
  <2>4. QED
    BY <2>3 DEF Abstract!Next
<1>10. QED
  BY <1>6, <1>7, <1>8, <1>9 DEF StartUp

\* No worker touches the state file.
LEMMA WorkerSaves ==
  ASSUME NEW w \in Worker, WorkerStep(w)
  PROVE  SavedNodes' = SavedNodes
<1>1. UNCHANGED saveVars
  BY Zenon DEF WorkerStep, NextTask, CheckCap, ProbeStep, RetryProbe, RecordUp,
         RecordStub, ExpandStep, Expand, FinishTask
<1>2. QED
  BY <1>1 DEF saveVars, SavedNodes

\* The stage changes only when the first worker leaves its loop.
LEMMA WorkerStage ==
  ASSUME ImplInv, NEW w \in Worker, WorkerStep(w)
  PROVE  /\ \A v \in Worker \ {w} : pc'[v] = pc[v]
         /\ Busy # {} => Stage = "crawling"
         /\ pc'[w] # "exited" => Stage' = Stage
<1> USE DEF ImplInv
<1>1. phase = "crawl" /\ phase' = "crawl"
  BY WorkerPhase
<1>2. pc[w] # "exited" /\ \A v \in Worker \ {w} : pc'[v] = pc[v]
  BY DEF WorkerStep, NextTask, PopTask, ExitLoop, WaitForWork, workerVars, CheckCap,
         ProbeStep, RetryProbe, RecordUp, RecordStub, ExpandStep, Expand, FinishTask, TypeOK
<1>3. Busy # {} => \A v \in Worker : pc[v] # "exited"
  BY DEF PoolInv, ExitOnlyWhenFinished
<1>4. QED
  BY <1>1, <1>2, <1>3 DEF Stage

LEMMA NextTaskRefines ==
  ASSUME ImplInv, NEW w \in Worker, NextTask(w)
  PROVE  [Abstract!Next]_Mapped
<1> USE DEF ImplInv
<1>1. /\ SavedNodes' = SavedNodes /\ Recorded' = Recorded /\ seen' = seen
      /\ phase = "crawl" /\ phase' = "crawl" /\ pc[w] = "next"
      /\ \A v \in Worker \ {w} : pc'[v] = pc[v]
      /\ pc'[w] # "exited" => Stage' = Stage
  BY WorkerSaves, WorkerStage, WorkerPhase DEF WorkerStep, NextTask, mapVars, Recorded
<1>2. CASE PopTask(w)
  <2> DEFINE p == task'[w].peer
  <2>1. p \in Pending /\ Pending' = Pending \ {p} /\ InHand' = InHand \cup {p}
    BY <1>2, PopMoves
  <2>2. ~FrontierEmpty /\ pc'[w] = "cap"
    BY <1>2 DEF PopTask, FrontierEmpty, PoolOfWorker, Pool, TypeOK
  <2>3. Stage = "crawling" /\ Stage' = "crawling"
    BY <1>1, <2>2 DEF PoolInv, ExitOnlyWhenFinished, Stage
  <2>4. p \in Peer
    <3>1. w \in Busy'
      BY <2>2 DEF Busy
    <3>2. TypeOK'
      BY NextTaskTyped
    <3>3. QED
      BY <3>1, <3>2 DEF TypeOK, Task
  <2> HIDE DEF p
  <2>5. Abstract!Take(p)
    BY <1>1, <2>1, <2>3 DEF Abstract!Take
  <2>6. QED
    BY <2>4, <2>5 DEF Abstract!Next
<1>3. CASE ExitLoop(w)
  <2>1. FrontierEmpty /\ Busy = {} /\ UNCHANGED <<stack, task, found>> /\ pc'[w] = "exited"
    BY <1>3, NobodyBusy DEF ExitLoop, Exhausted, PoolInv, TypeOK
  <2>2. Busy' = {} /\ InHand = {} /\ InHand' = {}
    BY <1>1, <2>1 DEF Busy, InHand
  <2>3. \A v \in Worker : found[v] = EmptyStacks
    BY <2>1 DEF HandInv, Busy
  <2>4. Pending = {}
    <3>1. PeersIn(<<>>) = {}
      BY DEF PeersIn
    <3>2. QED
      BY <2>1, <2>3, <3>1, PendingIs DEF FrontierEmpty, EmptyStacks
  <2>5. Pending' = Pending
    BY <2>1 DEF Pending, Queued, Found
  <2>6. Stage' = "over" /\ Stage \in {"crawling", "over"}
    BY <1>1, <2>1 DEF Stage
  <2>7. CASE Stage = "over"
    BY <1>1, <2>2, <2>5, <2>6, <2>7 DEF Mapped
  <2>8. CASE Stage = "crawling"
    <3>1. Abstract!End
      BY <1>1, <2>2, <2>4, <2>5, <2>6, <2>8 DEF Abstract!End
    <3>2. QED
      BY <3>1 DEF Abstract!Next
  <2>9. QED
    BY <2>6, <2>7, <2>8
<1>4. CASE WaitForWork(w)
  <2>1. UNCHANGED <<stack, task, found, pc>>
    BY <1>4 DEF WaitForWork, workerVars
  <2>2. Pending' = Pending /\ InHand' = InHand /\ Stage' = Stage
    BY <1>1, <2>1 DEF Pending, Queued, Found, InHand, Busy, Stage
  <2>3. QED
    BY <1>1, <2>2 DEF Mapped
<1>5. QED
  BY <1>2, <1>3, <1>4 DEF NextTask

LEMMA ProbeRefines ==
  ASSUME ImplInv, NEW w \in Worker, CheckCap(w) \/ ProbeStep(w)
  PROVE  [Abstract!Next]_Mapped
<1> USE DEF ImplInv
<1> DEFINE p == task[w].peer
<1>1. UNCHANGED <<stack, found, task, seen>> /\ w \in Busy /\ Busy' = Busy
      /\ pc'[w] # "exited"
  BY DEF CheckCap, ProbeStep, RetryProbe, RecordUp, RecordStub, frontierVars, mapVars,
         Busy, TypeOK
<1>2. SavedNodes' = SavedNodes /\ Stage' = Stage
  BY <1>1, WorkerSaves, WorkerStage DEF WorkerStep
<1>3. Pending' = Pending /\ InHand' = InHand
  BY <1>1 DEF Pending, Queued, Found, InHand
<1>4. p \in Peer /\ p \in InHand
  BY <1>1 DEF TypeOK, Task, InHand
<1>5. Recorded' = Recorded \/ Recorded' = Recorded \cup {p}
  BY <1>4 DEF CheckCap, ProbeStep, RetryProbe, RecordUp, RecordStub, StubIfAbsent,
              mapVars, Recorded, TypeOK
<1> HIDE DEF p
<1>6. CASE Recorded' = Recorded
  BY <1>1, <1>2, <1>3, <1>6 DEF Mapped
<1>7. CASE Recorded' = Recorded \cup {p}
  <2>1. Abstract!Record(p)
    BY <1>1, <1>2, <1>3, <1>4, <1>7 DEF Abstract!Record
  <2>2. QED
    BY <1>4, <2>1 DEF Abstract!Next
<1>8. QED
  BY <1>5, <1>6, <1>7

LEMMA ExpandRefines ==
  ASSUME ImplInv, NEW w \in Worker, ExpandStep(w)
  PROVE  Abstract!Next
<1> USE DEF ImplInv
<1> DEFINE p == task[w].peer
<1>1. p \in Peer /\ p \in InHand /\ p \in Recorded
  BY DEF ExpandStep, TypeOK, Busy, Task, InHand, HandInv
<1>2. PICK disc \in SUBSET Peer : Expand(w, disc)
  BY <1>1, ConstantsAssumption DEF ExpandStep
<1>3. PICK new \in SUBSET Peer : /\ new \cap seen = {} /\ seen' = seen \cup new
                                 /\ Pending' = Pending \cup new
  BY <1>2, ExpandMoves
<1>4. UNCHANGED <<task, nodes>> /\ Busy' = Busy /\ pc'[w] # "exited"
  BY <1>2 DEF Expand, Busy, TypeOK
<1>5. InHand' = InHand /\ Recorded' = Recorded
  BY <1>4 DEF InHand, Recorded
<1>6. SavedNodes' = SavedNodes /\ Stage' = Stage
  BY <1>4, WorkerSaves, WorkerStage DEF WorkerStep
<1> HIDE DEF p
<1>7. Abstract!Discover(p, new)
  BY <1>1, <1>3, <1>5, <1>6 DEF Abstract!Discover
<1>8. QED
  BY <1>1, <1>7 DEF Abstract!Next

LEMMA FinishRefines ==
  ASSUME ImplInv, NEW w \in Worker, FinishTask(w)
  PROVE  Abstract!Next
<1> USE DEF ImplInv
<1> DEFINE p == task[w].peer
<1>1. p \in Peer /\ p \in InHand /\ pc[w] = "finish" /\ pc'[w] # "exited"
  BY DEF FinishTask, TypeOK, Busy, Task, InHand
<1>2. Pending' = Pending /\ InHand' = InHand \ {p}
  BY FinishMoves
<1>3. seen' = seen /\ Recorded' = Recorded
  BY DEF FinishTask, mapVars, Recorded
<1>4. SavedNodes' = SavedNodes /\ Stage' = Stage
  BY <1>1, WorkerSaves, WorkerStage DEF WorkerStep
<1>5. p \in Recorded \/ Abstract!CapReached
  <2>1. p \in Recorded \/ AtNodeCap
    BY <1>1 DEF HandInv
  <2>2. AtNodeCap => Abstract!CapReached
    BY SameCount DEF AtNodeCap, Abstract!CapReached
  <2>3. QED
    BY <2>1, <2>2
<1> HIDE DEF p
<1>6. Abstract!Release(p)
  BY <1>1, <1>2, <1>3, <1>4, <1>5 DEF Abstract!Release
<1>7. QED
  BY <1>1, <1>6 DEF Abstract!Next

LEMMA RestartRefines ==
  ASSUME ImplInv, Restart
  PROVE  Abstract!Next
<1>1. PICK st \in {disk, EmptyState} : Load(st)
  BY DEF Restart
<1>2. /\ phase' = "restore" /\ nodes' = st.nodes /\ seen' = Recorded' /\ disk' = disk
      /\ stack' = EmptyStacks /\ pc' = [w \in Worker |-> "next"]
      /\ found' = [w \in Worker |-> EmptyStacks]
  BY <1>1 DEF Load, Recorded, Restart
<1>3. Stage' = "loading" /\ SavedNodes' = SavedNodes
  BY <1>2 DEF Stage, SavedNodes
<1>4. InHand' = {}
  BY <1>2 DEF InHand, Busy
<1>5. Pending' = {}
  <2>1. PeersIn(<<>>) = {}
    BY DEF PeersIn
  <2>2. QED
    BY <1>2, <2>1, PendingWillBe DEF EmptyStacks
<1>6. Recorded' \in {SavedNodes, {}}
  BY <1>1, <1>2 DEF Recorded, SavedNodes, EmptyState
<1>7. Abstract!Restart
  BY <1>2, <1>3, <1>4, <1>5, <1>6 DEF Abstract!Restart
<1>8. QED
  BY <1>7 DEF Abstract!Next

\* Saves, joins and wake-ups: the crawl stands still, the file may change.
LEMMA SilentRefines ==
  ASSUME ImplInv, [Next]_vars, ~Restart, ~StartUp, ~\E w \in Worker : WorkerStep(w)
  PROVE  [Abstract!Next]_Mapped
<1> USE DEF ImplInv
<1>1. /\ UNCHANGED <<stack, seen, nodes, pc, task, found>>
      /\ \/ phase' = phase
         \/ phase = "crawl" /\ phase' = "stop" /\ \A w \in Worker : pc[w] = "exited"
         \/ phase \in {"stop", "final"} /\ phase' \in {"final", "done"}
  BY SilentFrame
<1>2. Pending' = Pending /\ InHand' = InHand /\ Recorded' = Recorded
  BY <1>1 DEF Pending, Queued, Found, InHand, Busy, Recorded
<1>3. Worker # {}
  BY ConstantsAssumption DEF Worker
<1>4. Stage' = Stage
  BY <1>1, <1>3 DEF Stage, SeenInv
<1>5. CASE disk' = disk
  <2>1. SavedNodes' = SavedNodes
    BY <1>5 DEF SavedNodes
  <2>2. QED
    BY <1>1, <1>2, <1>4, <2>1 DEF Mapped
<1>6. CASE WriteState /\ disk' = save
  <2>1. SavedNodes' \subseteq Recorded
    BY <1>6 DEF WriteState, KeptInv, Extends, SavedNodes, Recorded
  <2>2. Abstract!Save
    BY <1>1, <1>2, <1>4, <2>1 DEF Abstract!Save
  <2>3. QED
    BY <2>2 DEF Abstract!Next
<1>7. disk' = disk \/ (WriteState /\ disk' = save)
  <2>1. CASE WriteState
    BY <2>1 DEF WriteState
  <2>2. CASE ClonePart
    BY <2>2, Zenon DEF ClonePart
  <2>3. CASE ~ClonePart /\ ~WriteState
    BY <2>3, SaveFrame
  <2>4. QED
    BY <2>1, <2>2, <2>3
<1>8. QED
  BY <1>5, <1>6, <1>7

LEMMA InitRefines == Init => Abstract!Init
<1> SUFFICES ASSUME Init PROVE Abstract!Init
  OBVIOUS
<1>1. Stage = "loading" /\ seen = {}
  BY DEF Init, Stage
<1>2. Recorded = {} /\ SavedNodes = {}
  BY DEF Init, Recorded, SavedNodes, EmptyState
<1>3. InHand = {}
  BY DEF Init, InHand, Busy
<1>4. Pending = {}
  <2>1. PeersIn(<<>>) = {}
    BY DEF PeersIn
  <2>2. QED
    BY <2>1, PendingIs DEF Init, EmptyStacks
<1>5. QED
  BY <1>1, <1>2, <1>3, <1>4 DEF Abstract!Init

\* For any network, pools, cap and seeds: two pools, two stacks, four mutexes, a
\* counter, a file saved piece by piece and a process that dies at any moment
\* behave as one crawl that takes each address once and ends when none is left.
THEOREM CrawlImplemented == Spec => ImplementsCrawlSpec
<1>1. ImplInv /\ [Next]_vars => [Abstract!Next]_Mapped
  <2> SUFFICES ASSUME ImplInv, [Next]_vars PROVE [Abstract!Next]_Mapped
    OBVIOUS
  <2>1. ASSUME NEW w \in Worker, WorkerStep(w) PROVE [Abstract!Next]_Mapped
    BY <2>1, NextTaskRefines, ProbeRefines, ExpandRefines, FinishRefines DEF WorkerStep
  <2>2. QED
    BY <2>1, StartUpRefines, RestartRefines, SilentRefines
<1>2. Spec => []ImplInv
  BY TypeCorrect, PoolInvariant, OnceInvariant, HandInvariant, SeenInvariant, KeptInvariant,
     PTL DEF ImplInv
<1>3. QED
  BY <1>1, <1>2, InitRefines, PTL
  DEF Spec, ImplementsCrawlSpec, Abstract!Spec, Abstract!crawlVars, Mapped
=============================================================================
