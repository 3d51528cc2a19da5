------------------------------ MODULE GeoCache ------------------------------
(***************************************************************************)
(* Geolocation of the reachable peers (src/src/geo.rs and its callers in   *)
(* src/src/main.rs): before each database write a crawler asks for its     *)
(* peers' addresses and then for its own node's.  Each call reads the      *)
(* cache file, looks up what is missing in batches, and writes the merged  *)
(* cache to a temporary file that it renames over the old one.  Crawlers   *)
(* that share the cache share the temporary file's name as well.           *)
(*                                                                         *)
(* Files are modelled as the operating system has them: a rename moves the *)
(* file under a writer's hands, which goes on writing it under its new     *)
(* name, and two writers of one file overwrite each other from its start.  *)
(***************************************************************************)
EXTENDS Integers, FiniteSetsExt

CONSTANTS
  Ip,          \* the addresses to be located
  Crawler,     \* processes that share the cache and the database
  Reachable,   \* per crawler: its online peers' addresses
  OwnIp,       \* per crawler: its own node's address, {} if not known
  BatchSize,   \* addresses in one request, 100 in the code
  MaxCrashes   \* bound

ASSUME GeoAssumption ==
  /\ IsFiniteSet(Ip) /\ IsFiniteSet(Crawler)
  /\ Reachable \in [Crawler -> SUBSET Ip] /\ OwnIp \in [Crawler -> SUBSET Ip]
  /\ BatchSize \in Nat \ {0} /\ MaxCrashes \in Nat

\* What a file holds: nothing after a truncation, part of a cache or a mix of
\* two, which does not parse, or a whole cache.
Absent == [form |-> "absent", ips |-> {}]
Empty == [form |-> "empty", ips |-> {}]
Broken == [form |-> "broken", ips |-> {}]
Whole(S) == [form |-> "whole", ips |-> S]

VARIABLES
  file,         \* the cache file and the temporary file, by name
  fd,           \* per crawler: the name of the file it has open, "lost" when
                \* another file has taken its last name, "none"
  pc,           \* per crawler: load, lookup, open, write, rename, return, store
  call,         \* per crawler: whose addresses the current call is for
  cache,        \* per crawler: the map in memory
  todo,         \* per crawler: missing addresses not yet asked for
  geo,          \* per crawler: locations for this snapshot
  crashes,
  overlapped,   \* history: have two saving calls ever been under way at once?
  saved         \* history: addresses of the caches renamed into place

memory == <<call, cache, todo, geo>>
history == <<crashes, overlapped, saved>>
vars == <<file, fd, pc, memory, history>>

Requested(c) == IF call[c] = "own" THEN OwnIp[c] ELSE Reachable[c]

Init ==
  /\ file = [n \in {"path", "tmp"} |-> Absent]
  /\ fd = [c \in Crawler |-> "none"]
  /\ pc = [c \in Crawler |-> "load"] /\ call = [c \in Crawler |-> "nodes"]
  /\ cache = [c \in Crawler |-> {}] /\ todo = [c \in Crawler |-> {}]
  /\ geo = [c \in Crawler |-> {}]
  /\ crashes = 0 /\ overlapped = FALSE /\ saved = {}

Goto(c, l) == pc' = [pc EXCEPT ![c] = l]

\* What the file crawler c has open becomes.
PutOpen(c, x) ==
  file' = IF fd[c] \in DOMAIN file THEN [file EXCEPT ![fd[c]] = x] ELSE file

-----------------------------------------------------------------------------
(* One call of geolocate_cached.                                            *)

\* load_cache: an absent or unreadable file is an empty cache.
Cached == file["path"].ips

\* Mutant: a file that is there but does not parse is taken as complete.
MissingIfReadable(want, known) ==
  IF file["path"].form \in {"empty", "broken"} THEN {} ELSE want \ known

Missing(want, known) == want \ known

\* The calls that have read the cache and may yet replace it.
Saving == {c \in Crawler : pc[c] \in {"lookup", "open", "write", "rename"}}

\* With nothing missing the file is not written.
Load(c) ==
  /\ pc[c] = "load"
  /\ cache' = [cache EXCEPT ![c] = Cached]
  /\ todo' = [todo EXCEPT ![c] = Missing(Requested(c), Cached)]
  /\ Goto(c, IF todo'[c] = {} THEN "return" ELSE "lookup")
  /\ overlapped' = (overlapped \/ (todo'[c] # {} /\ Saving # {}))
  /\ UNCHANGED <<file, fd, call, geo, crashes, saved>>

\* The next chunk, in the order of the list.
NextBatch(S) == CHOOSE B \in kSubset(Min({BatchSize, Cardinality(S)}), S) : TRUE

\* Mutant: a batch's results take the place of the cache.
OnlyLatest(known, resolved) == resolved

\* Results are merged into what the file held.
Merged(known, resolved) == known \cup resolved

\* One request: it resolves some of its addresses, or fails and resolves none;
\* the next batch follows either way.
LookupBatch(c, resolved) ==
  /\ pc[c] = "lookup" /\ resolved \subseteq NextBatch(todo[c])
  /\ todo' = [todo EXCEPT ![c] = @ \ NextBatch(todo[c])]
  /\ cache' = [cache EXCEPT ![c] = Merged(@, resolved)]
  /\ Goto(c, IF todo'[c] = {} THEN "open" ELSE "lookup")
  /\ UNCHANGED <<file, fd, call, geo, history>>

\* Mutant: write the cache file itself.
InPlace == "path"

\* The file save_cache writes first.
Target == "tmp"

\* fs::write opens and truncates it, creating it if need be.
OpenTmp(c) ==
  /\ pc[c] = "open"
  /\ file' = [file EXCEPT ![Target] = Empty]
  /\ fd' = [fd EXCEPT ![c] = Target]
  /\ Goto(c, "write")
  /\ UNCHANGED <<memory, history>>

\* What a file holds after a write from its first byte: the tail of a longer
\* text keeps it from parsing.
Overlay(old, new) ==
  IF old = Empty \/ (old.form = "whole" /\ old.ips \subseteq new)
  THEN {Whole(new)} ELSE {Whole(new), Broken}

WriteTmp(c) ==
  /\ pc[c] = "write"
  /\ \E x \in IF fd[c] = "lost" THEN {Empty} ELSE Overlay(file[fd[c]], cache[c]) :
       PutOpen(c, x)
  /\ fd' = [fd EXCEPT ![c] = "none"]
  /\ Goto(c, "rename")
  /\ UNCHANGED <<memory, history>>

\* The rename moves whatever the temporary name refers to now, be it another
\* crawler's half-written file: that crawler goes on writing under the new
\* name.  It fails if another crawler has moved the file already.
Rename(c) ==
  /\ pc[c] = "rename" /\ file["tmp"] # Absent
  /\ file' = [path |-> file["tmp"], tmp |-> Absent]
  /\ fd' = [d \in Crawler |-> IF fd[d] = "tmp" THEN "path"
                              ELSE IF fd[d] = "path" THEN "lost" ELSE fd[d]]
  /\ saved' = saved \cup file["tmp"].ips
  /\ Goto(c, "return")
  /\ UNCHANGED <<memory, crashes, overlapped>>

\* Opening, writing or renaming fails: logged, and the call returns what it has
\* in memory.
SaveFails(c) ==
  /\ pc[c] \in {"open", "write", "rename"}
  /\ PutOpen(c, Broken)
  /\ fd' = [fd EXCEPT ![c] = "none"]
  /\ Goto(c, "return")
  /\ UNCHANGED <<memory, history>>

\* geolocate_map is followed by attach_own_geo if the own address is known, and
\* then by the database write; each call returns the requested addresses it has
\* in memory.
Return(c) ==
  /\ pc[c] = "return"
  /\ geo' = [geo EXCEPT ![c] = @ \cup (Requested(c) \cap cache[c])]
  /\ cache' = [cache EXCEPT ![c] = {}]
  /\ IF call[c] = "nodes" /\ OwnIp[c] # {}
     THEN call' = [call EXCEPT ![c] = "own"] /\ Goto(c, "load")
     ELSE call' = [call EXCEPT ![c] = "nodes"] /\ Goto(c, "store")
  /\ UNCHANGED <<file, fd, todo, history>>

\* write_db gets the locations (module NodeStore has the rows, which keep what
\* they have), and the next snapshot follows.
Store(c) ==
  /\ pc[c] = "store"
  /\ geo' = [geo EXCEPT ![c] = {}]
  /\ Goto(c, "load")
  /\ UNCHANGED <<file, fd, call, cache, todo, history>>

\* The process dies and is started again; a write may have been cut short.
Crash(c) ==
  /\ crashes < MaxCrashes /\ crashes' = crashes + 1
  /\ Goto(c, "load") /\ call' = [call EXCEPT ![c] = "nodes"]
  /\ cache' = [cache EXCEPT ![c] = {}] /\ todo' = [todo EXCEPT ![c] = {}]
  /\ geo' = [geo EXCEPT ![c] = {}] /\ fd' = [fd EXCEPT ![c] = "none"]
  /\ PutOpen(c, Broken)
  /\ UNCHANGED <<overlapped, saved>>

-----------------------------------------------------------------------------
Save(c) == OpenTmp(c) \/ WriteTmp(c) \/ Rename(c) \/ SaveFails(c)
Lookup(c) == \E S \in SUBSET todo[c] : LookupBatch(c, S)
CrawlerStep(c) == Load(c) \/ Lookup(c) \/ Save(c) \/ Return(c) \/ Store(c)

Next == \E c \in Crawler : CrawlerStep(c) \/ Crash(c)

Spec == Init /\ [][Next]_vars

\* Every crawler runs, and the service, asked for an address again and again,
\* sometimes resolves it.
FairSpec ==
  /\ Spec
  /\ \A c \in Crawler : WF_vars(CrawlerStep(c))
  /\ \A c \in Crawler, i \in Ip : SF_vars(LookupBatch(c, {i}))

-----------------------------------------------------------------------------
(* Properties.                                                              *)

\* "Only IPs not already in the cache hit the API" (geolocate_cached): as long
\* as no two calls that extend the cache have overlapped, an address that was
\* once saved is never asked for again, whatever writes failed and wherever a
\* crash cut a save short.
NeverAskedAgain ==
  ~overlapped => \A c \in Crawler : todo[c] \cap saved = {}

\* A crash or a failed write never leaves a broken file in place of the cache:
\* that takes two crawlers writing the temporary file at once.
CacheIntact == file["path"].form \in {"empty", "broken"} => overlapped

\* However crawlers overwrite each other's cache, break it or fail to write it,
\* each of them sends every reachable peer and its own node to the database
\* with a location again and again.
EveryoneLocated ==
  \A c \in Crawler : \A x \in Reachable[c] \cup OwnIp[c] :
    []<>(pc[c] = "store" /\ x \in geo[c])

-----------------------------------------------------------------------------
(* Inductive strengthenings.                                                *)

Content == [form : {"absent", "empty", "broken", "whole"}, ips : SUBSET Ip]

GeoTypes ==
  /\ file \in [{"path", "tmp"} -> Content]
  /\ fd \in [Crawler -> {"none", "tmp", "path", "lost"}]
  /\ pc \in [Crawler -> {"load", "lookup", "open", "write", "rename", "return",
                         "store"}]
  /\ call \in [Crawler -> {"nodes", "own"}]
  /\ cache \in [Crawler -> SUBSET Ip] /\ todo \in [Crawler -> SUBSET Ip]
  /\ geo \in [Crawler -> SUBSET Ip] /\ saved \in SUBSET Ip
  /\ crashes \in Nat /\ overlapped \in BOOLEAN

\* A crawler has a file open only while it writes, and something left to ask
\* for only while it asks.
Phases ==
  \A c \in Crawler :
    /\ fd[c] # "none" => pc[c] = "write"
    /\ todo[c] # {} => pc[c] = "lookup"

\* While saving calls have not overlapped: one at most is under way, it has the
\* temporary file to itself and writes all it knows there, it knows all the
\* cache file holds, and that file holds all that was ever saved.
SoloSave ==
  ~overlapped =>
    /\ \A c, d \in Saving : c = d
    /\ file["path"].form \in {"absent", "whole"}
    /\ saved \subseteq file["path"].ips
    /\ \A c \in Saving :
         /\ file["path"].ips \subseteq cache[c]
         /\ todo[c] \cap saved = {}
         /\ pc[c] = "write" => fd[c] = "tmp" /\ file["tmp"] = Empty
         /\ pc[c] = "rename" => file["tmp"] = Whole(cache[c])

GeoInv == GeoTypes /\ Phases /\ SoloSave
=============================================================================
