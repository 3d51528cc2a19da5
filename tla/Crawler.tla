------------------------------- MODULE Crawler -------------------------------
(***************************************************************************)
(* The multi-threaded crawl of src/src/crawler.rs: two pools of workers    *)
(* (clearnet and onion) that take peers from two stacks under one mutex,   *)
(* record what they find in maps with mutexes of their own, and stop when  *)
(* both stacks are empty and nobody is busy; a monitor thread that writes  *)
(* the resumable state file while they run; and the process that dies at   *)
(* any moment, or ends a --watch cycle, and resumes from that file.        *)
(*                                                                         *)
(* Every critical section of the code is one action, so two threads        *)
(* interleave here exactly where the code lets go of a mutex.  A probe     *)
(* touches no shared state: its outcome is chosen when it is recorded.     *)
(***************************************************************************)
EXTENDS Integers, Sequences, FiniteSets

CONSTANTS
  Peer,            \* the addresses of the network
  OnionPeer,       \* those reached through Tor
  TorProxy,        \* is a proxy configured (cfg.tor_proxy.is_some())?
  ClearnetWorker,  \* threads of the clearnet pool
  OnionWorker,     \* threads of the onion pool, spawned only with a proxy
  Gossip,          \* the addresses each peer may send us
  Seeds,           \* what main hands to crawl(): a sequence of Seed records
  MaxNodes,        \* cfg.max_nodes, 0 = unlimited
  MaxDepth,        \* cfg.max_depth, 0 = unlimited
  Retries,         \* cfg.retries
  EdgesPerNode,    \* cfg.edges_per_node, 0 = unlimited
  MaxRuns,         \* bound: how often the process is started
  MaxSaves,        \* bound: periodic saves in one run
  LoadMayFail      \* may reading the state file fail?

Pool == {"clearnet", "onion"}
Task == [peer : Peer, depth : Nat]
Seed == [peer : Peer, depth : Nat, pre : BOOLEAN]

ASSUME ConstantsAssumption ==
  /\ IsFiniteSet(Peer)
  /\ OnionPeer \subseteq Peer
  /\ TorProxy \in BOOLEAN
  /\ IsFiniteSet(ClearnetWorker) /\ ClearnetWorker # {}
  /\ IsFiniteSet(OnionWorker) /\ (TorProxy => OnionWorker # {})
  /\ ClearnetWorker \cap OnionWorker = {}
  /\ Gossip \in [Peer -> SUBSET Peer]
  /\ Seeds \in Seq(Seed)
  /\ MaxNodes \in Nat /\ MaxDepth \in Nat
  /\ Retries \in Nat /\ EdgesPerNode \in Nat
  /\ MaxRuns \in Nat \ {0} /\ MaxSaves \in Nat
  /\ LoadMayFail \in BOOLEAN

Worker == ClearnetWorker \cup (IF TorProxy THEN OnionWorker ELSE {})

\* Peer::is_onion routes a peer to one of the two stacks; a worker serves one.
PoolOf(p) == IF p \in OnionPeer THEN "onion" ELSE "clearnet"
PoolOfWorker(w) == IF w \in OnionWorker THEN "onion" ELSE "clearnet"
Crawlable(p) == p \in OnionPeer => TorProxy

\* A node record: none, the record RPC gave us before the crawl, the stub of a
\* failed probe, or the record of a completed handshake.
Record == {"absent", "known", "stub", "up"}

SavedState == [frontier : Seq(Task), nodes : [Peer -> Record],
               edges : SUBSET (Peer \X Peer)]

\* What CrawlState::load gives when there is no file, and what main falls back
\* to when the file cannot be read: a fresh crawl.
EmptyState == [frontier |-> <<>>, nodes |-> [p \in Peer |-> "absent"],
               edges |-> {}]

EmptyStacks == [q \in Pool |-> <<>>]
PeersIn(s) == {s[i].peer : i \in 1..Len(s)}

VARIABLES
  phase,     \* of crawl(): restore, seed, crawl, stop, final, done
  todo,      \* entries of the state file or seeds still to be queued
  stack,     \* Frontier.clearnet and Frontier.onion
  active,    \* Frontier.active
  waiting,   \* workers blocked on their pool's condition variable
  seen, nodes, edges,     \* the other shared maps
  pc, task, attempt,      \* per worker: position, task held, retries made
  found,     \* per worker: new_clearnet and new_onion
  step,      \* of save_state: 0 idle, 1..3 the part to clone, 4 the write
  save,      \* the copy save_state is assembling
  disk,      \* the state file
  run,       \* how often the process has been started
  saves,     \* periodic saves begun in this run
  popped,    \* history: peers handed to a worker in this run
  baseline,  \* history: records present when the workers were spawned
  owed       \* history: what save_state must not lose, see TakeStock

frontierVars == <<stack, active, waiting>>
workerVars == <<pc, task, attempt, found>>
mapVars == <<seen, nodes, edges>>
saveVars == <<step, save, disk, saves>>
startVars == <<phase, todo, run, baseline>>
vars == <<startVars, frontierVars, workerVars, mapVars, saveVars, popped, owed>>

Recorded == {p \in Peer : nodes[p] # "absent"}
Queued == UNION {PeersIn(stack[q]) : q \in Pool}
Found(w) == UNION {PeersIn(found[w][q]) : q \in Pool}

\* Frontier.active counts the workers between next_task and finish_task.
Busy == {w \in Worker : pc[w] \in {"cap", "probe", "expand", "finish"}}

TypeOK ==
  /\ phase \in {"restore", "seed", "crawl", "stop", "final", "done"}
  /\ todo \in Seq(Seed)
  /\ stack \in [Pool -> Seq(Task)]
  /\ active \in Int
  /\ waiting \subseteq Worker
  /\ seen \subseteq Peer
  /\ nodes \in [Peer -> Record]
  /\ edges \subseteq Peer \X Peer
  /\ pc \in [Worker -> {"next", "cap", "probe", "expand", "finish", "exited"}]
  /\ task \in [Worker -> Task \cup {<<>>}]
  /\ \A w \in Busy : task[w] \in Task
  /\ attempt \in [Worker -> 0..Retries]
  /\ found \in [Worker -> [Pool -> Seq(Task)]]
  /\ step \in 0..4
  /\ save \in SavedState
  /\ disk \in SavedState
  /\ run \in 1..MaxRuns
  /\ saves \in 0..MaxSaves
  /\ popped \subseteq Peer
  /\ baseline \subseteq Peer
  /\ owed \in [saving : SUBSET Peer, disk : SUBSET Peer]

-----------------------------------------------------------------------------
(* Start-up: crawl() restores the saved state, then queues the seeds, all   *)
(* before any worker or the monitor is spawned.                             *)

AsSeed(t) == [peer |-> t.peer, depth |-> t.depth, pre |-> FALSE]

\* The memory of a process that has just called crawl() with resume = st:
\* nodes and edges are restored at once, the frontier entries wait in todo.
Load(st) ==
  /\ phase' = "restore"
  /\ todo' = [i \in 1..Len(st.frontier) |-> AsSeed(st.frontier[i])]
  /\ nodes' = st.nodes
  /\ seen' = {p \in Peer : st.nodes[p] # "absent"}
  /\ edges' = st.edges
  /\ stack' = EmptyStacks /\ active' = 0 /\ waiting' = {}
  /\ pc' = [w \in Worker |-> "next"]
  /\ task' = [w \in Worker |-> <<>>]
  /\ attempt' = [w \in Worker |-> 0]
  /\ found' = [w \in Worker |-> EmptyStacks]
  /\ step' = 0 /\ save' = EmptyState /\ saves' = 0
  /\ popped' = {} /\ baseline' = {}

Init ==
  /\ phase = "restore" /\ todo = <<>>
  /\ nodes = EmptyState.nodes /\ seen = {} /\ edges = {}
  /\ stack = EmptyStacks /\ active = 0 /\ waiting = {}
  /\ pc = [w \in Worker |-> "next"]
  /\ task = [w \in Worker |-> <<>>]
  /\ attempt = [w \in Worker |-> 0]
  /\ found = [w \in Worker |-> EmptyStacks]
  /\ step = 0 /\ save = EmptyState /\ disk = EmptyState
  /\ run = 1 /\ saves = 0 /\ popped = {} /\ baseline = {}
  /\ owed = [saving |-> {}, disk |-> {}]

\* The process dies at any moment, or a --watch cycle has ended, and the
\* program is started again with the same state file.  A file that cannot be
\* read is reported and ignored.
Restart ==
  /\ run < MaxRuns
  /\ run' = run + 1
  /\ \/ Load(disk)
     \/ LoadMayFail /\ Load(EmptyState)
  /\ UNCHANGED disk
  /\ owed' = [owed EXCEPT !.saving = {}]

Push(t) == stack' = [stack EXCEPT ![PoolOf(t.peer)] =
                       Append(@, [peer |-> t.peer, depth |-> t.depth])]

\* A saved frontier entry is queued whether or not its peer is in seen: a peer
\* can be saved both as queued and as recorded.
RestoreEntry ==
  /\ phase = "restore" /\ todo # <<>>
  /\ todo' = Tail(todo)
  /\ IF Crawlable(Head(todo).peer)
     THEN Push(Head(todo)) /\ seen' = seen \cup {Head(todo).peer}
     ELSE UNCHANGED <<stack, seen>>
  /\ UNCHANGED <<phase, run, baseline, active, waiting, workerVars, nodes,
                 edges, saveVars, popped, owed>>

\* Mutant: consult the recorded nodes instead of the seen set.
IsUnrecorded(p) == p \notin Recorded

\* seen.insert(p) answers true.
IsNew(p) == p \notin seen

\* A seed is queued, and its pre-known record stored, only if it is new.
SeedEntry ==
  /\ phase = "seed" /\ todo # <<>>
  /\ todo' = Tail(todo)
  /\ LET s == Head(todo) IN
     IF Crawlable(s.peer) /\ IsNew(s.peer)
     THEN /\ Push(s)
          /\ seen' = seen \cup {s.peer}
          /\ nodes' = IF s.pre THEN [nodes EXCEPT ![s.peer] = "known"] ELSE nodes
     ELSE UNCHANGED <<stack, seen, nodes>>
  /\ UNCHANGED <<phase, run, baseline, active, waiting, workerVars, edges,
                 saveVars, popped, owed>>

BeginSeeding ==
  /\ phase = "restore" /\ todo = <<>>
  /\ phase' = "seed" /\ todo' = Seeds
  /\ UNCHANGED <<run, baseline, frontierVars, workerVars, mapVars, saveVars,
                 popped, owed>>

SpawnWorkers ==
  /\ phase = "seed" /\ todo = <<>>
  /\ phase' = "crawl" /\ baseline' = Recorded
  /\ UNCHANGED <<todo, run, frontierVars, workerVars, mapVars, saveVars,
                 popped, owed>>

-----------------------------------------------------------------------------
(* The frontier: next_task and finish_task, each one critical section.      *)

FrontierEmpty == \A q \in Pool : stack[q] = <<>>

\* LIFO: the task on top of this worker's own stack.
PopTask(w) ==
  LET q == PoolOfWorker(w)
      s == stack[q]
  IN  /\ s # <<>>
      /\ task' = [task EXCEPT ![w] = s[Len(s)]]
      /\ stack' = [stack EXCEPT ![q] = SubSeq(s, 1, Len(s) - 1)]
      /\ active' = active + 1
      /\ pc' = [pc EXCEPT ![w] = "cap"]
      /\ popped' = popped \cup {s[Len(s)].peer}
      /\ UNCHANGED <<waiting, attempt, found>>

\* Mutant: forget the workers that may still queue something.
ExhaustedIgnoringBusy == FrontierEmpty

\* Nothing queued anywhere and nobody busy: the crawl is over; wake everyone.
Exhausted == FrontierEmpty /\ active = 0

ExitLoop(w) ==
  /\ stack[PoolOfWorker(w)] = <<>>
  /\ Exhausted
  /\ pc' = [pc EXCEPT ![w] = "exited"]
  /\ waiting' = {}
  /\ UNCHANGED <<stack, active, task, attempt, found, popped>>

WaitForWork(w) ==
  /\ stack[PoolOfWorker(w)] = <<>>
  /\ ~Exhausted
  /\ waiting' = waiting \cup {w}
  /\ UNCHANGED <<stack, active, workerVars, popped>>

NextTask(w) ==
  /\ phase = "crawl" /\ pc[w] = "next" /\ w \notin waiting
  /\ PopTask(w) \/ ExitLoop(w) \/ WaitForWork(w)
  /\ UNCHANGED <<startVars, mapVars, saveVars, owed>>

\* Condvar::wait may return without a notification; the loop tests again.
SpuriousWakeup(w) ==
  /\ w \in waiting
  /\ waiting' = waiting \ {w}
  /\ UNCHANGED <<startVars, stack, active, workerVars, mapVars, saveVars,
                 popped, owed>>

\* Mutant: wake everybody for clearnet work and nobody for onion work.
StillWaitingOneCondvar(pushed, over) ==
  IF over \/ pushed["clearnet"] # <<>> THEN {} ELSE waiting

\* The workers a notification leaves asleep: finish_task wakes the pools it
\* has pushed work for, and everybody when nothing is left.
StillWaiting(pushed, over) ==
  IF over THEN {} ELSE {v \in waiting : pushed[PoolOfWorker(v)] = <<>>}

FinishTask(w) ==
  /\ pc[w] = "finish"
  /\ active' = active - 1
  /\ stack' = [q \in Pool |-> stack[q] \o found[w][q]]
  /\ waiting' = StillWaiting(found[w],
                  active' = 0 /\ \A q \in Pool : stack'[q] = <<>>)
  /\ pc' = [pc EXCEPT ![w] = "next"]
  /\ found' = [found EXCEPT ![w] = EmptyStacks]
  /\ task' = [task EXCEPT ![w] = <<>>]
  /\ attempt' = [attempt EXCEPT ![w] = 0]
  /\ UNCHANGED <<startVars, mapVars, saveVars, popped, owed>>

-----------------------------------------------------------------------------
(* The rest of worker(): cap check, probe, record, expand.                  *)

\* Mutant: off by one at the cap.
AboveNodeCap == MaxNodes # 0 /\ Cardinality(Recorded) > MaxNodes

AtNodeCap == MaxNodes # 0 /\ Cardinality(Recorded) >= MaxNodes

\* The cap is read under the nodes lock and acted on after it is released.  A
\* task met at the cap is finished without being probed or recorded.
CheckCap(w) ==
  /\ pc[w] = "cap"
  /\ pc' = [pc EXCEPT ![w] = IF AtNodeCap THEN "finish" ELSE "probe"]
  /\ UNCHANGED <<startVars, frontierVars, task, attempt, found, mapVars,
                 saveVars, popped, owed>>

\* Mutant: one attempt too many.
MayRetryOnceMore(n) == n <= Retries

MayRetry(n) == n < Retries

\* A failure worth_retrying accepts, with attempts left.
RetryProbe(w) ==
  /\ pc[w] = "probe" /\ MayRetry(attempt[w])
  /\ attempt' = [attempt EXCEPT ![w] = @ + 1]
  /\ UNCHANGED <<startVars, frontierVars, pc, task, found, mapVars, saveVars,
                 popped, owed>>

MayExpand(depth) == MaxDepth = 0 \/ depth < MaxDepth

\* The handshake completed: the record replaces whatever was there.
RecordUp(w) ==
  /\ pc[w] = "probe"
  /\ nodes' = [nodes EXCEPT ![task[w].peer] = "up"]
  /\ pc' = [pc EXCEPT ![w] = IF MayExpand(task[w].depth) THEN "expand" ELSE "finish"]
  /\ UNCHANGED <<startVars, frontierVars, task, attempt, found, seen, edges,
                 saveVars, popped, owed>>

\* Mutants: a failed probe overwrites any record, or leaves no trace.
StubOver(r) == "stub"
KeepOnly(r) == r

\* A failed probe leaves a stub only where there is no record yet.
StubIfAbsent(r) == IF r = "absent" THEN "stub" ELSE r

\* The last attempt failed, or failed in a way no retry can mend.
RecordStub(w) ==
  /\ pc[w] = "probe"
  /\ nodes' = [nodes EXCEPT ![task[w].peer] = StubIfAbsent(@)]
  /\ pc' = [pc EXCEPT ![w] = "finish"]
  /\ UNCHANGED <<startVars, frontierVars, task, attempt, found, seen, edges,
                 saveVars, popped, owed>>

\* A peer lists its addresses in any order.
Orderings(S) ==
  {s \in [1..Cardinality(S) -> S] : \A i, j \in DOMAIN s : s[i] = s[j] => i = j}

Tasks(P, depth) == {[peer |-> p, depth |-> depth] : p \in P}

\* The first EdgesPerNode entries of the reply become edges; a reply that
\* repeats an address spends the budget on fewer distinct edges.
EdgeChoices(from, reply) ==
  IF EdgesPerNode = 0 THEN {{<<from, c>> : c \in reply}}
  ELSE {{<<from, c>> : c \in S} :
          S \in {T \in SUBSET reply : /\ Cardinality(T) <= EdgesPerNode
                                      /\ reply # {} => T # {}}}

\* New addresses enter seen now and the stacks only in FinishTask.
Expand(w, discovered) ==
  LET reply == {c \in discovered : Crawlable(c)}
      fresh == {x \in reply : IsNew(x)}
      Kids(q) == Tasks({x \in fresh : PoolOf(x) = q}, task[w].depth + 1)
  IN  /\ pc[w] = "expand"
      /\ \E new \in EdgeChoices(task[w].peer, reply) : edges' = edges \cup new
      /\ seen' = seen \cup fresh
      /\ \E c \in Orderings(Kids("clearnet")), o \in Orderings(Kids("onion")) :
           found' = [found EXCEPT ![w] =
                       [q \in Pool |-> IF q = "onion" THEN o ELSE c]]
      /\ pc' = [pc EXCEPT ![w] = "finish"]
      /\ UNCHANGED <<startVars, frontierVars, task, attempt, nodes, saveVars,
                     popped, owed>>

-----------------------------------------------------------------------------
(* The monitor thread, save_state, and the end of crawl().                  *)

\* Mutant: clone the nodes first.
SaveNodesFirst == <<"nodes", "frontier", "edges">>

\* save_state clones the three maps one lock at a time, in this order.
SaveOrder == <<"frontier", "nodes", "edges">>

\* history: everything queued or recorded when the save begins.
TakeStock ==
  owed' = IF step = 1 THEN [owed EXCEPT !.saving = Queued \cup Recorded] ELSE owed

\* The monitor has slept, seen `running` still set, and finds a save due; the
\* main thread saves once more after the monitor has stopped.
BeginSave ==
  /\ step = 0
  /\ \/ phase = "crawl" /\ saves < MaxSaves /\ saves' = saves + 1
     \/ phase = "final" /\ UNCHANGED saves
  /\ step' = 1
  /\ UNCHANGED <<startVars, frontierVars, workerVars, mapVars, save, disk,
                 popped, owed>>

ClonePart ==
  /\ step \in 1..3
  /\ step' = step + 1
  /\ save' = CASE SaveOrder[step] = "frontier" ->
                    [save EXCEPT !.frontier = stack["clearnet"] \o stack["onion"]]
               [] SaveOrder[step] = "nodes" -> [save EXCEPT !.nodes = nodes]
               [] SaveOrder[step] = "edges" -> [save EXCEPT !.edges = edges]
  /\ TakeStock
  /\ UNCHANGED <<startVars, frontierVars, workerVars, mapVars, disk, saves,
                 popped>>

\* CrawlState::save writes a temporary file and renames it: the file changes
\* as a whole, or, when the write fails, not at all; an error is only logged.
WriteState ==
  /\ step = 4
  /\ step' = 0 /\ save' = EmptyState
  /\ phase' = IF phase = "final" THEN "done" ELSE phase
  /\ \/ /\ disk' = save
        /\ owed' = [owed EXCEPT !.disk = owed.saving]
     \/ UNCHANGED <<disk, owed>>
  /\ UNCHANGED <<todo, run, baseline, frontierVars, workerVars, mapVars, saves,
                 popped>>

\* Every worker joined; running := false.  A save under way is completed.
JoinWorkers ==
  /\ phase = "crawl" /\ \A w \in Worker : pc[w] = "exited"
  /\ phase' = "stop"
  /\ UNCHANGED <<todo, run, baseline, frontierVars, workerVars, mapVars,
                 saveVars, popped, owed>>

JoinMonitor ==
  /\ phase = "stop" /\ step = 0
  /\ phase' = "final"
  /\ UNCHANGED <<todo, run, baseline, frontierVars, workerVars, mapVars,
                 saveVars, popped, owed>>

-----------------------------------------------------------------------------
StartUp == RestoreEntry \/ SeedEntry \/ BeginSeeding \/ SpawnWorkers

ProbeStep(w) == RetryProbe(w) \/ RecordUp(w) \/ RecordStub(w)

ExpandStep(w) ==
  /\ pc[w] = "expand"
  /\ \E discovered \in SUBSET Gossip[task[w].peer] : Expand(w, discovered)

WorkerStep(w) ==
  NextTask(w) \/ CheckCap(w) \/ ProbeStep(w) \/ ExpandStep(w) \/ FinishTask(w)

Finished == phase = "done" /\ run = MaxRuns /\ UNCHANGED vars

Next ==
  \/ StartUp
  \/ \E w \in Worker : WorkerStep(w) \/ SpuriousWakeup(w)
  \/ BeginSave \/ ClonePart \/ WriteState
  \/ JoinWorkers \/ JoinMonitor
  \/ Restart
  \/ Finished

Spec == Init /\ [][Next]_vars

\* The operating system schedules every thread, every probe ends (its sockets
\* carry timeouts), and main runs to its end.  Nothing obliges the process to
\* crash, a condition variable to wake up unasked, or the monitor to find a
\* save due.
Fairness ==
  /\ WF_vars(StartUp)
  /\ \A w \in Worker : WF_vars(WorkerStep(w))
  /\ WF_vars(ClonePart) /\ WF_vars(WriteState)
  /\ WF_vars(JoinWorkers) /\ WF_vars(JoinMonitor)
  /\ WF_vars(phase = "final" /\ BeginSave)

FairSpec == Spec /\ Fairness

-----------------------------------------------------------------------------
(* Properties.                                                              *)

\* No worker sleeps on its condition variable when what it waits for has come:
\* work on its own stack, or the end of the crawl (next_task, finish_task).
NoLostWakeup ==
  \A w \in waiting : stack[PoolOfWorker(w)] = <<>> /\ ~Exhausted

\* next_task returns None "only when the whole crawl is finished": once one
\* worker has left its loop nothing is queued and nobody in either pool is
\* still holding a task that could queue more.
ExitOnlyWhenFinished ==
  (\E w \in Worker : pc[w] = "exited") => FrontierEmpty /\ Busy = {}

\* The seen set makes the crawl visit each address once: within one run no
\* peer is handed to a second worker, whichever peers gossip it and however
\* the state file repeats it.
HandedOutOnce ==
  [][\A w \in Worker : pc[w] = "next" /\ pc'[w] = "cap"
                         => task'[w].peer \notin popped]_vars

\* The node cap is tested under one lock and acted on under another, so it can
\* be overshot, but by less than one record for each worker thread.
NodeCapOvershoot ==
  MaxNodes # 0 /\ phase \notin {"restore", "seed"} =>
    \/ Recorded = baseline
    \/ Cardinality(Recorded) <= MaxNodes + Cardinality(Worker) - 1

\* A crawl without a node cap ends with a record for every address it ever
\* queued or heard of: nothing that entered seen is dropped on the way.
EverySeenPeerRecorded ==
  MaxNodes = 0 /\ phase \in {"stop", "final", "done"} => seen \subseteq Recorded

\* save_state clones the frontier before the nodes, so a peer that was queued
\* or recorded when the save began is in the file as the one or the other, even
\* if a worker takes it, probes it and records it while the save is under way.
QueuedPeersSaved ==
  owed.disk \subseteq
    PeersIn(disk.frontier) \cup {p \in Peer : disk.nodes[p] # "absent"}

\* Records b hold what records a held, and as much of it.
Extends(b, a) ==
  \A p \in Peer : /\ a[p] # "absent" => b[p] # "absent"
                  /\ a[p] = "up" => b[p] = "up"

\* The state file never forgets a node: a later save, by this run or by a run
\* that resumed from the file, holds every record an earlier one held, and a
\* completed handshake is never downgraded to a stub.
SavedRecordsKept ==
  [][Extends(disk'.nodes, disk.nodes)]_vars

\* Every run of the crawl ends: no worker waits for ever on work that a worker
\* of the other pool has queued, or on a counter that never returns to zero.
CrawlTerminates == <>[](phase = "done")

\* Without a node cap every queued peer is in the end taken by a worker and
\* recorded, unless the process dies first.
QueuedPeerRecorded ==
  \A p \in Peer, r \in 1..MaxRuns :
    (run = r /\ p \in Queued) ~> (p \in Recorded \/ run > r)

\* Where the crawl stands for an observer: threads and stacks apart.
Stage == IF phase \in {"restore", "seed"} THEN "loading"
         ELSE IF \E w \in Worker : pc[w] = "exited" THEN "over" ELSE "crawling"

\* A child a worker has put in seen waits like one that is on a stack.
Pending == Queued \cup UNION {Found(w) : w \in Worker}
InHand == {task[w].peer : w \in Busy}
SavedNodes == {p \in Peer : disk.nodes[p] # "absent"}

Abstract == INSTANCE CrawlSpec WITH
  stage <- Stage, known <- seen, pending <- Pending, inHand <- InHand,
  recorded <- Recorded, saved <- SavedNodes

\* Two pools, two stacks, four mutexes and a counter together do what CrawlSpec
\* says one crawl does: each address known, queued, taken and recorded once, the
\* end declared only when nothing is waiting or in hand, whatever the cap, the
\* saves and the restarts.
ImplementsCrawlSpec == Abstract!Spec

-----------------------------------------------------------------------------
(* Inductive strengthenings: what the proofs carry from step to step.       *)

\* No thread exists before SpawnWorkers.
QuietStart ==
  phase \in {"restore", "seed"} =>
    /\ \A w \in Worker : pc[w] = "next" /\ found[w] = EmptyStacks
    /\ waiting = {} /\ popped = {} /\ step = 0

\* Frontier.active is the number of workers between next_task and finish_task.
ActiveCount == active = Cardinality(Busy)

PoolInv == QuietStart /\ ActiveCount /\ NoLostWakeup /\ ExitOnlyWhenFinished

\* A save under way has lost nothing of what it owes: while the nodes are still
\* to be cloned, what has left the cloned frontier has entered nodes.
SaveInv ==
  /\ step \in 2..4 => owed.saving \subseteq PeersIn(save.frontier) \cup
       (IF step = 2 THEN Recorded ELSE {p \in Peer : save.nodes[p] # "absent"})
  /\ QueuedPeersSaved

Unique(s) == \A i, j \in 1..Len(s) : s[i].peer = s[j].peer => i = j

\* A peer is in at most one place from which it can be handed out: one entry of
\* its own pool's stack, or one worker's list of new children; and never again
\* once it has been handed out.
OnceInv ==
  /\ popped \subseteq seen
  /\ \A q \in Pool :
       /\ Unique(stack[q])
       /\ \A p \in PeersIn(stack[q]) : PoolOf(p) = q /\ p \in seen /\ p \notin popped
  /\ \A w \in Worker, q \in Pool :
       /\ Unique(found[w][q])
       /\ \A p \in PeersIn(found[w][q]) :
            PoolOf(p) = q /\ p \in seen /\ p \notin popped /\ p \notin PeersIn(stack[q])
       /\ \A v \in Worker \ {w} :
            PeersIn(found[w][q]) \cap PeersIn(found[v][q]) = {}
  /\ Unique(save.frontier) /\ Unique(disk.frontier)
  /\ phase = "restore" => Unique(todo) /\ PeersIn(todo) \cap Queued = {}

\* Two workers never hold one peer; a worker brings children only from a
\* recorded peer, keeps them only until it finishes, and finishes a peer without
\* a record only at the node cap.
HandInv ==
  /\ \A w \in Busy : task[w].peer \in popped
  /\ \A w, v \in Busy : task[w].peer = task[v].peer => w = v
  /\ \A w \in Worker :
       /\ pc[w] # "finish" => found[w] = EmptyStacks
       /\ pc[w] = "expand" => task[w].peer \in Recorded
       /\ pc[w] = "finish" => task[w].peer \in Recorded \/ AtNodeCap

\* Whatever is in seen is recorded, waits or is in hand: always before the
\* workers start, and as long as no node cap lets peers go.
SeenInv ==
  /\ Recorded \subseteq seen
  /\ MaxNodes = 0 \/ phase \in {"restore", "seed"} =>
       seen \subseteq Recorded \cup Pending \cup InHand
  /\ phase \in {"stop", "final", "done"} => \A w \in Worker : pc[w] = "exited"

\* From the file to the copy of a save under way to the crawl itself, records
\* only grow; a file that cannot be read breaks the chain.
KeptInv ==
  /\ step \in {3, 4} => Extends(nodes, save.nodes)
  /\ ~LoadMayFail => /\ Extends(nodes, disk.nodes)
                     /\ step \in {3, 4} => Extends(save.nodes, disk.nodes)

\* A worker that has passed the cap test is a record to come.
Probing == {w \in Worker : pc[w] = "probe"}

CapInv ==
  MaxNodes # 0 /\ phase \notin {"restore", "seed"} =>
    \/ Recorded = baseline /\ Probing = {}
    \/ Cardinality(Recorded) + Cardinality(Probing) <= MaxNodes + Cardinality(Worker) - 1
=============================================================================
