--------------------------- MODULE GeoCacheProofs ---------------------------
(***************************************************************************)
(* Proofs about module GeoCache: for any number of crawlers that share the *)
(* cache, any addresses and any batch size, as long as two saving calls    *)
(* have not overlapped no failed write and no crash makes an address to be *)
(* asked for again, nor leaves a broken cache file.                        *)
(***************************************************************************)
EXTENDS GeoCache, TLAPS

USE DEF Content, Absent, Empty, Broken, Whole

-----------------------------------------------------------------------------
(* What the operations on files do.                                         *)

\* A write from the first byte leaves the new cache or what does not parse.
LEMMA OverlayContent ==
  ASSUME NEW old \in Content, NEW new \in SUBSET Ip
  PROVE  /\ Overlay(old, new) \subseteq Content
         /\ old = Empty => Overlay(old, new) = {Whole(new)}
  BY DEF Overlay

\* Writing through an open file keeps the files' types; it disturbs only the
\* file that is open.
LEMMA PutOpenContent ==
  ASSUME GeoTypes, NEW c \in Crawler, NEW x, PutOpen(c, x),
         fd[c] \in {"path", "tmp"} => x \in Content
  PROVE  /\ file' \in [{"path", "tmp"} -> Content]
         /\ \A n \in {"path", "tmp"} : fd[c] # n => file'[n] = file[n]
         /\ fd[c] \in {"path", "tmp"} => file'[fd[c]] = x
<1>1. CASE fd[c] \in {"path", "tmp"}
  BY <1>1 DEF GeoTypes, PutOpen
<1>2. CASE fd[c] \notin {"path", "tmp"}
  BY <1>2 DEF GeoTypes, PutOpen
<1> QED
  BY <1>1, <1>2

-----------------------------------------------------------------------------
(* The invariant, action by action.                                         *)

LEMMA InitGeo == Init => GeoInv
<1> SUFFICES ASSUME Init
             PROVE  GeoInv
  OBVIOUS
<1>1. GeoTypes
  <2>1. file \in [{"path", "tmp"} -> Content]
    BY DEF Init
  <2> QED
    BY <2>1 DEF Init, GeoTypes
<1>2. Phases
  BY DEF Init, Phases
<1>3. SoloSave
  BY DEF Init, SoloSave, Saving
<1> QED
  BY <1>1, <1>2, <1>3 DEF GeoInv

\* The first crawler to find something missing is alone; a second one ends the
\* solitude.  It starts from all the cache file holds.
LEMMA LoadGeo ==
  ASSUME GeoInv, NEW c \in Crawler, Load(c)
  PROVE  GeoInv'
<1> USE GeoAssumption DEF GeoInv
<1>0. Requested(c) \subseteq Ip
  BY DEF Requested, GeoTypes
<1>1. /\ pc[c] = "load"
      /\ cache' = [cache EXCEPT ![c] = file["path"].ips]
      /\ todo' = [todo EXCEPT ![c] = Requested(c) \ file["path"].ips]
      /\ pc' = [pc EXCEPT ![c] = IF todo'[c] = {} THEN "return" ELSE "lookup"]
      /\ overlapped' = (overlapped \/ (todo'[c] # {} /\ Saving # {}))
      /\ UNCHANGED <<file, fd, call, geo, crashes, saved>>
  BY DEF Load, Cached, Missing, Goto
<1>2. file["path"].ips \subseteq Ip
  BY DEF GeoTypes
<1>3. GeoTypes'
  <2>1. todo' \in [Crawler -> SUBSET Ip] /\ cache' \in [Crawler -> SUBSET Ip]
    BY <1>0, <1>1, <1>2 DEF GeoTypes
  <2>2. overlapped' \in BOOLEAN
    BY <1>1 DEF GeoTypes
  <2>3. pc' \in [Crawler -> {"load", "lookup", "open", "write", "rename",
                             "return", "store"}]
    BY <1>1 DEF GeoTypes
  <2> QED
    BY <1>1, <2>1, <2>2, <2>3 DEF GeoTypes
<1>4. Phases'
  BY <1>1 DEF GeoTypes, Phases
<1>5. SoloSave'
  <2> SUFFICES ASSUME ~overlapped'
               PROVE  SoloSave'
    BY DEF SoloSave
  <2>1. ~overlapped
    BY <1>1 DEF GeoTypes
  <2>2. CASE todo'[c] = {}
    <3>1. Saving' = Saving /\ c \notin Saving
      BY <1>1, <2>2 DEF Saving, GeoTypes
    <3> QED
      BY <1>1, <2>1, <2>2, <3>1 DEF SoloSave, GeoTypes, Saving
  <2>3. CASE todo'[c] # {}
    <3>1. Saving = {}
      BY <1>1, <2>3 DEF GeoTypes
    <3>2. Saving' = {c} /\ pc'[c] = "lookup"
      BY <1>1, <2>3, <3>1 DEF Saving, GeoTypes
    <3>3. /\ cache'[c] = file["path"].ips
          /\ todo'[c] = Requested(c) \ file["path"].ips
      BY <1>1 DEF GeoTypes
    <3> QED
      BY <1>1, <2>1, <3>2, <3>3 DEF SoloSave
  <2> QED
    BY <2>2, <2>3
<1> QED
  BY <1>3, <1>4, <1>5

\* A batch only adds to what the crawler knows and takes from what it asks for.
LEMMA LookupGeo ==
  ASSUME GeoInv, NEW c \in Crawler, Lookup(c)
  PROVE  GeoInv'
<1> USE DEF GeoInv
<1> PICK S \in SUBSET todo[c] : LookupBatch(c, S)
  BY DEF Lookup
<1> DEFINE B == NextBatch(todo[c])
<1>1. /\ pc[c] = "lookup"
      /\ todo' = [todo EXCEPT ![c] = @ \ B]
      /\ cache' = [cache EXCEPT ![c] = @ \cup S]
      /\ pc' = [pc EXCEPT ![c] = IF todo'[c] = {} THEN "open" ELSE "lookup"]
      /\ UNCHANGED <<file, fd, call, geo, history>>
  BY DEF LookupBatch, Merged, Goto
<1> HIDE DEF B
<1>2. GeoTypes'
  <2>1. S \subseteq Ip
    BY DEF GeoTypes
  <2>2. todo' \in [Crawler -> SUBSET Ip] /\ cache' \in [Crawler -> SUBSET Ip]
    BY <1>1, <2>1 DEF GeoTypes
  <2>3. pc' \in [Crawler -> {"load", "lookup", "open", "write", "rename",
                             "return", "store"}]
    BY <1>1 DEF GeoTypes
  <2> QED
    BY <1>1, <2>2, <2>3 DEF GeoTypes, history
<1>3. Phases'
  BY <1>1 DEF GeoTypes, Phases
<1>4. SoloSave'
  <2>1. Saving' = Saving /\ c \in Saving
    BY <1>1 DEF Saving, GeoTypes
  <2>2. cache[c] \subseteq cache'[c] /\ todo'[c] \subseteq todo[c]
    BY <1>1 DEF GeoTypes
  <2>3. pc'[c] \in {"lookup", "open"}
    BY <1>1 DEF GeoTypes
  <2>4. \A d \in Crawler : d # c =>
          /\ cache'[d] = cache[d] /\ todo'[d] = todo[d] /\ pc'[d] = pc[d]
    BY <1>1 DEF GeoTypes
  <2>5. UNCHANGED <<file, fd, saved, overlapped>>
    BY <1>1 DEF history
  <2>6. ASSUME ~overlapped, NEW d \in Saving
        PROVE  d = c
    BY <2>1, <2>6 DEF SoloSave
  <2> QED
    BY <2>1, <2>2, <2>3, <2>5, <2>6 DEF SoloSave
<1> QED
  BY <1>2, <1>3, <1>4

LEMMA OpenGeo ==
  ASSUME GeoInv, NEW c \in Crawler, OpenTmp(c)
  PROVE  GeoInv'
<1> USE DEF GeoInv
<1>1. /\ pc[c] = "open"
      /\ file' = [file EXCEPT !["tmp"] = Empty]
      /\ fd' = [fd EXCEPT ![c] = "tmp"]
      /\ pc' = [pc EXCEPT ![c] = "write"]
      /\ UNCHANGED <<memory, history>>
  BY DEF OpenTmp, Target, Goto
<1>2. GeoTypes'
  BY <1>1 DEF GeoTypes, memory, history
<1>3. Phases'
  BY <1>1 DEF GeoTypes, Phases, memory
<1>4. SoloSave'
  <2>1. Saving' = Saving /\ c \in Saving
    BY <1>1 DEF Saving, GeoTypes
  <2>2. /\ pc'[c] = "write" /\ fd'[c] = "tmp" /\ file'["tmp"] = Empty
        /\ file'["path"] = file["path"]
    BY <1>1 DEF GeoTypes
  <2>3. UNCHANGED <<cache, todo, saved, overlapped>>
    BY <1>1 DEF memory, history
  <2>4. ASSUME ~overlapped, NEW d \in Saving
        PROVE  d = c
    BY <2>1, <2>4 DEF SoloSave
  <2> QED
    BY <2>1, <2>2, <2>3, <2>4 DEF SoloSave
<1> QED
  BY <1>2, <1>3, <1>4

\* A crawler that is alone writes an empty file, so what it writes is whole.
LEMMA WriteGeo ==
  ASSUME GeoInv, NEW c \in Crawler, WriteTmp(c)
  PROVE  GeoInv'
<1> USE DEF GeoInv
<1> PICK x \in (IF fd[c] = "lost" THEN {Empty} ELSE Overlay(file[fd[c]], cache[c])) :
       PutOpen(c, x)
  BY DEF WriteTmp
<1>1. /\ pc[c] = "write"
      /\ fd' = [fd EXCEPT ![c] = "none"]
      /\ pc' = [pc EXCEPT ![c] = "rename"]
      /\ UNCHANGED <<memory, history>>
  BY DEF WriteTmp, Goto
<1>2. fd[c] \in {"path", "tmp"} =>
        /\ x \in Content
        /\ file[fd[c]] = Empty => x = Whole(cache[c])
  <2> SUFFICES ASSUME fd[c] \in {"path", "tmp"}
               PROVE  /\ x \in Content
                      /\ file[fd[c]] = Empty => x = Whole(cache[c])
    OBVIOUS
  <2>1. file[fd[c]] \in Content /\ cache[c] \in SUBSET Ip
    BY DEF GeoTypes
  <2>2. x \in Overlay(file[fd[c]], cache[c])
    OBVIOUS
  <2> HIDE DEF Content, Empty, Whole
  <2> QED
    BY <2>1, <2>2, OverlayContent
<1>3. /\ file' \in [{"path", "tmp"} -> Content]
      /\ \A n \in {"path", "tmp"} : fd[c] # n => file'[n] = file[n]
      /\ fd[c] \in {"path", "tmp"} => file'[fd[c]] = x
  BY <1>2, PutOpenContent
<1>4. GeoTypes'
  BY <1>1, <1>3 DEF GeoTypes, memory, history
<1>5. Phases'
  BY <1>1 DEF GeoTypes, Phases, memory
<1>6. SoloSave'
  <2>1. Saving' = Saving /\ c \in Saving
    BY <1>1 DEF Saving, GeoTypes
  <2>2. pc'[c] = "rename"
    BY <1>1 DEF GeoTypes
  <2>3. UNCHANGED <<cache, todo, saved, overlapped>>
    BY <1>1 DEF memory, history
  <2>4. ASSUME ~overlapped
        PROVE  file'["tmp"] = Whole(cache[c]) /\ file'["path"] = file["path"]
    BY <1>1, <1>2, <1>3, <2>1, <2>4 DEF SoloSave
  <2>5. ASSUME ~overlapped, NEW d \in Saving
        PROVE  d = c
    BY <2>1, <2>5 DEF SoloSave
  <2> QED
    BY <2>1, <2>2, <2>3, <2>4, <2>5 DEF SoloSave
<1> QED
  BY <1>4, <1>5, <1>6

\* The file renamed into place by a crawler that is alone holds all that the
\* cache held, and nobody is asking for any of it.
LEMMA RenameGeo ==
  ASSUME GeoInv, NEW c \in Crawler, Rename(c)
  PROVE  GeoInv'
<1> USE DEF GeoInv
<1>1. /\ pc[c] = "rename"
      /\ file' = [path |-> file["tmp"], tmp |-> Absent]
      /\ fd' = [d \in Crawler |-> IF fd[d] = "tmp" THEN "path"
                              ELSE IF fd[d] = "path" THEN "lost" ELSE fd[d]]
      /\ saved' = saved \cup file["tmp"].ips
      /\ pc' = [pc EXCEPT ![c] = "return"]
      /\ UNCHANGED <<memory, crashes, overlapped>>
  BY DEF Rename, Goto
<1>2. file' \in [{"path", "tmp"} -> Content] /\ file["tmp"].ips \subseteq Ip
  BY <1>1 DEF GeoTypes
<1>3. GeoTypes'
  BY <1>1, <1>2 DEF GeoTypes, memory
<1>4. Phases'
  BY <1>1 DEF GeoTypes, Phases, memory
<1>5. SoloSave'
  <2> SUFFICES ASSUME ~overlapped
               PROVE  SoloSave'
    BY <1>1 DEF SoloSave
  <2>1. c \in Saving
    BY <1>1 DEF Saving
  <2>2. Saving' = {}
    BY <1>1, <2>1 DEF SoloSave, Saving, GeoTypes
  <2>3. file["tmp"] = Whole(cache[c]) /\ file["path"].ips \subseteq cache[c]
    BY <1>1, <2>1 DEF SoloSave
  <2>4. file'["path"] = Whole(cache[c]) /\ saved' \subseteq cache[c]
    BY <1>1, <2>3 DEF SoloSave
  <2> QED
    BY <2>2, <2>4 DEF SoloSave
<1> QED
  BY <1>3, <1>4, <1>5

\* Giving up what is open, in the middle of a save or of anything else, breaks
\* no file but that one.
LEMMA DropOpen ==
  ASSUME GeoInv, NEW c \in Crawler, PutOpen(c, Broken),
         fd' = [fd EXCEPT ![c] = "none"],
         NEW l \in {"load", "return"}, Goto(c, l),
         todo' \in [Crawler -> SUBSET Ip], cache' \in [Crawler -> SUBSET Ip],
         call' \in [Crawler -> {"nodes", "own"}], geo' \in [Crawler -> SUBSET Ip],
         crashes' \in Nat, UNCHANGED <<saved, overlapped>>,
         todo'[c] = {},
         \A d \in Crawler \ {c} : todo'[d] = todo[d] /\ cache'[d] = cache[d]
  PROVE  GeoInv'
<1> USE DEF GeoInv
<1>1. pc' = [pc EXCEPT ![c] = l]
  BY DEF Goto
<1>2. /\ file' \in [{"path", "tmp"} -> Content]
      /\ \A n \in {"path", "tmp"} : fd[c] # n => file'[n] = file[n]
  <2>1. Broken \in Content
    OBVIOUS
  <2> QED
    BY <2>1, PutOpenContent
<1>3. GeoTypes'
  BY <1>1, <1>2 DEF GeoTypes
<1>4. Phases'
  BY <1>1 DEF GeoTypes, Phases
<1>5. SoloSave'
  <2> SUFFICES ASSUME ~overlapped
               PROVE  SoloSave'
    BY DEF SoloSave
  <2>1. Saving' = Saving \ {c}
    BY <1>1 DEF Saving, GeoTypes
  <2>2. \A d \in Crawler \ {c} : pc'[d] = pc[d] /\ fd'[d] = fd[d]
    BY <1>1 DEF GeoTypes
  <2>3. fd[c] # "none" => c \in Saving /\ fd[c] = "tmp"
    BY DEF Phases, SoloSave, Saving, GeoTypes
  <2>4. file'["path"] = file["path"]
    BY <1>2, <2>3
  <2>5. CASE fd[c] = "none"
    <3>1. file'["tmp"] = file["tmp"]
      BY <1>2, <2>5
    <3> QED
      BY <2>1, <2>2, <2>4, <3>1 DEF SoloSave, Saving
  <2>6. CASE fd[c] # "none"
    <3>1. Saving' = {}
      BY <2>1, <2>3, <2>6 DEF SoloSave
    <3> QED
      BY <2>4, <3>1 DEF SoloSave
  <2> QED
    BY <2>5, <2>6
<1> QED
  BY <1>3, <1>4, <1>5

LEMMA SaveFailsGeo ==
  ASSUME GeoInv, NEW c \in Crawler, SaveFails(c)
  PROVE  GeoInv'
<1>1. todo[c] = {}
  BY DEF SaveFails, GeoInv, Phases
<1>2. /\ PutOpen(c, Broken) /\ fd' = [fd EXCEPT ![c] = "none"]
      /\ Goto(c, "return")
      /\ UNCHANGED <<call, cache, todo, geo, crashes, overlapped, saved>>
  BY DEF SaveFails, memory, history
<1> HIDE DEF Content, Broken
<1> QED
  BY <1>1, <1>2, DropOpen DEF GeoInv, GeoTypes

LEMMA CrashGeo ==
  ASSUME GeoInv, NEW c \in Crawler, Crash(c)
  PROVE  GeoInv'
<1>1. /\ PutOpen(c, Broken) /\ fd' = [fd EXCEPT ![c] = "none"]
      /\ Goto(c, "load") /\ UNCHANGED <<saved, overlapped>>
  BY DEF Crash
<1>2. /\ todo' = [todo EXCEPT ![c] = {}] /\ cache' = [cache EXCEPT ![c] = {}]
      /\ call' = [call EXCEPT ![c] = "nodes"] /\ geo' = [geo EXCEPT ![c] = {}]
      /\ crashes' = crashes + 1
  BY DEF Crash
<1>3. /\ todo' \in [Crawler -> SUBSET Ip] /\ cache' \in [Crawler -> SUBSET Ip]
      /\ call' \in [Crawler -> {"nodes", "own"}] /\ geo' \in [Crawler -> SUBSET Ip]
      /\ crashes' \in Nat /\ todo'[c] = {}
      /\ \A d \in Crawler \ {c} : todo'[d] = todo[d] /\ cache'[d] = cache[d]
  BY <1>2 DEF GeoInv, GeoTypes
<1> HIDE DEF Content, Broken
<1> QED
  BY <1>1, <1>3, DropOpen

\* Outside a save only the crawler's own memory changes.
LEMMA ReturnStoreGeo ==
  ASSUME GeoInv, NEW c \in Crawler, Return(c) \/ Store(c)
  PROVE  GeoInv'
<1> USE DEF GeoInv
<1>1. PICK l \in {"load", "store"} : pc' = [pc EXCEPT ![c] = l]
  BY DEF Return, Store, Goto
<1>2. /\ pc[c] \in {"return", "store"}
      /\ UNCHANGED <<file, fd, todo, history>>
  BY DEF Return, Store
<1>3. cache' \in [Crawler -> SUBSET Ip] /\ geo' \in [Crawler -> SUBSET Ip]
  <2>1. Requested(c) \cap cache[c] \subseteq Ip
    BY DEF GeoTypes
  <2> QED
    BY <2>1 DEF Return, Store, GeoTypes
<1>4. call' \in [Crawler -> {"nodes", "own"}]
  BY DEF Return, Store, GeoTypes
<1>5. \A d \in Crawler \ {c} : cache'[d] = cache[d]
  BY DEF Return, Store, GeoTypes
<1>6. GeoTypes'
  BY <1>1, <1>2, <1>3, <1>4 DEF GeoTypes, history
<1>7. Phases'
  BY <1>1, <1>2 DEF GeoTypes, Phases
<1>8. SoloSave'
  <2>1. Saving' = Saving /\ c \notin Saving
    BY <1>1, <1>2 DEF Saving, GeoTypes
  <2>2. \A d \in Saving : pc'[d] = pc[d] /\ cache'[d] = cache[d] /\ d \in Crawler
    BY <1>1, <1>5, <2>1 DEF Saving, GeoTypes
  <2>3. UNCHANGED <<file, fd, todo, saved, overlapped>>
    BY <1>2 DEF history
  <2> QED
    BY <2>1, <2>2, <2>3 DEF SoloSave
<1> QED
  BY <1>6, <1>7, <1>8

LEMMA GeoInvariant == Spec => []GeoInv
<1>1. GeoInv /\ [Next]_vars => GeoInv'
  <2> SUFFICES ASSUME GeoInv, [Next]_vars
               PROVE  GeoInv'
    OBVIOUS
  <2>1. ASSUME NEW c \in Crawler, CrawlerStep(c)
        PROVE  GeoInv'
    BY <2>1, LoadGeo, LookupGeo, OpenGeo, WriteGeo, RenameGeo, SaveFailsGeo,
       ReturnStoreGeo DEF CrawlerStep, Save
  <2>2. ASSUME NEW c \in Crawler, Crash(c)
        PROVE  GeoInv'
    BY <2>2, CrashGeo
  <2>3. CASE UNCHANGED vars
    BY <2>3 DEF GeoInv, GeoTypes, Phases, SoloSave, Saving, vars, memory, history
  <2> QED
    BY <2>1, <2>2, <2>3 DEF Next
<1> QED
  BY InitGeo, <1>1, PTL DEF Spec

-----------------------------------------------------------------------------
(* The theorems.                                                            *)

\* As long as no two calls that extend the cache have overlapped, an address
\* that was once saved is never asked for again, for any number of crawlers,
\* failures and crashes.
THEOREM SavedNeverAskedAgain == Spec => []NeverAskedAgain
<1>1. GeoInv => NeverAskedAgain
  <2> SUFFICES ASSUME GeoInv, ~overlapped, NEW c \in Crawler
               PROVE  todo[c] \cap saved = {}
    BY DEF NeverAskedAgain
  <2>1. CASE todo[c] # {}
    BY <2>1 DEF GeoInv, Phases, SoloSave, Saving
  <2> QED
    BY <2>1
<1> QED
  BY GeoInvariant, <1>1, PTL

\* Only two crawlers that write the temporary file at once can put a broken
\* file in the cache's place: a crash or a failed write never does.
THEOREM CacheStaysWhole == Spec => []CacheIntact
<1>1. GeoInv => CacheIntact
  BY DEF GeoInv, GeoTypes, SoloSave, CacheIntact
<1> QED
  BY GeoInvariant, <1>1, PTL
=============================================================================
