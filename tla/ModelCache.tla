----------------------------- MODULE ModelCache -----------------------------
(***************************************************************************)
(* ModelCache and ThorModelLoader: ml/serving/model_cache.py.              *)
(*                                                                         *)
(* Each method of the cache runs under its lock; a load runs outside it,   *)
(* so that other threads look up, load and store in between.               *)
(***************************************************************************)
EXTENDS Naturals, Sequences, FiniteSets, SequencesExt, FiniteSetsExt, Ordering

CONSTANTS
  Threads,
  Paths,          \* models asked for
  Hashed(_),      \* stored under the hash of its file, not under its path
  Devices,        \* "cuda", "cuda:0", "cpu": what a caller of a loader may name
  Sizes(_),       \* a model may have: in 4 bits or not, as its file is now
  Budget(_),      \* of a device
  MaxModels,
  MaxModelLoads,  \* bound of this model: loads
  MaxChanges      \* bound of this model: changes of each file

ASSUME CacheAssumption ==
  /\ MaxModels \in Nat \ {0} /\ MaxModelLoads \in Nat
  /\ \A p \in Paths : Sizes(p) \subseteq Nat
  /\ \A d \in Devices : Budget(d) \in Nat

VARIABLES
  cachedModels,  \* _cache, least recently used first
  file,          \* file[p]: how often the file has changed
  thread,        \* thread[t]: [phase, path, device, entry]
  loadCount,     \* loads so far: the next entry's serial number
  unloaded       \* serial numbers of the entries whose model was deleted

cacheVars == <<cachedModels, file, thread, loadCount, unloaded>>

-----------------------------------------------------------------------------
NoEntry == [id |-> <<>>, device |-> "", size |-> 0, serial |-> 0, weighed |-> FALSE]
AtRest == [phase |-> "idle", path |-> "", device |-> "", entry |-> NoEntry]

(* _hash_path(): path, time and size of the file.                          *)
ModelId(p) == IF Hashed(p) THEN <<p, file[p]>> ELSE <<p>>
Positions(s, id) == {k \in DOMAIN s : s[k].id = id}
Without(s, id) == AtPositions(s, {k \in DOMAIN s : s[k].id # id})

(* _total_device_bytes(): the bytes of the entries on a device, counted;   *)
(* devices are compared by name.                                           *)
OnDevice(s, d) == {k \in DOMAIN s : s[k].device = d}
BytesOf(s, at) == UNION {{k} \X (1..s[k].size) : k \in at}
DeviceBytes(s, d) == Cardinality(BytesOf(s, OnDevice(s, d)))
Fits(s, e) == DeviceBytes(s, e.device) + e.size <= Budget(e.device)

CacheInit ==
  /\ cachedModels = <<>>
  /\ file = [p \in Paths |-> 0]
  /\ thread = [t \in Threads |-> AtRest]
  /\ loadCount = 0
  /\ unloaded = {}

FileChanges(p) ==
  /\ file[p] < MaxChanges
  /\ file' = [file EXCEPT ![p] = @ + 1]
  /\ UNCHANGED <<cachedModels, thread, loadCount, unloaded>>

(* load_*(): get() looks under the path, whatever the entry is called and  *)
(* on whatever device it lies.                                             *)
LookUp(t, p, d) ==
  /\ thread[t].phase = "idle"
  /\ LET hit == Positions(cachedModels, <<p>>) IN
       IF hit = {}
       THEN /\ thread' = [thread EXCEPT ![t] = [AtRest EXCEPT !.phase = "loading",
                                                               !.path = p, !.device = d]]
            /\ UNCHANGED cachedModels
       ELSE LET e == cachedModels[CHOOSE k \in hit : TRUE] IN
            /\ thread' = [thread EXCEPT ![t] = [phase |-> "using", path |-> p, device |-> d,
                                               entry |-> e]]
            /\ cachedModels' = Append(Without(cachedModels, e.id), e)
  /\ UNCHANGED <<file, loadCount, unloaded>>

(* The file is missing or no model: the exception is the caller's.         *)
LoadFails(t) ==
  /\ thread[t].phase = "loading"
  /\ thread' = [thread EXCEPT ![t] = AtRest]
  /\ UNCHANGED <<cachedModels, file, loadCount, unloaded>>

(* _evict_lru() until there is a place, and until the entry fits or the    *)
(* cache is empty: the models of other devices go as well.                 *)
Room(s, e) == Len(s) < MaxModels /\ (Fits(s, e) \/ s = <<>>)

(* Mutant: one eviction for the budget, not as many as it takes.           *)
EvictedOnce(e) ==
  LET size == Len(cachedModels)
      full == IF size < MaxModels THEN 0 ELSE size - MaxModels + 1
  IN IF Room(SubSeq(cachedModels, full + 1, size), e) THEN full ELSE Min({full + 1, size})

EvictedCount(e) ==
  LET size == Len(cachedModels)
  IN Min({n \in 0..size : Room(SubSeq(cachedModels, n + 1, size), e)})

(* _unload() deletes what lies on a GPU.                                   *)
Deleted(es) == {e.serial : e \in {x \in es : x.device # "cpu"}}

(* An entry replaces one of its name without a look at the budget.         *)
(* `weighed` records whether its bytes are within bytes that were held     *)
(* against the budget of its device: TRUE without an older entry.          *)
Weighs(s, id, d, size) ==
  \A k \in Positions(s, id) : s[k].weighed /\ s[k].device = d /\ size <= s[k].size

(* put() of the model that was loaded.  Its name holds neither the device  *)
(* nor the precision asked for.  What is replaced is not unloaded.         *)
Put(t, size) ==
  LET id == ModelId(thread[t].path)
      d == thread[t].device
      e == [id |-> id, device |-> d, size |-> size, serial |-> loadCount + 1,
            weighed |-> Weighs(cachedModels, id, d, size)]
      n == EvictedCount(e)
  IN /\ loadCount' = loadCount + 1
     /\ thread' = [thread EXCEPT ![t].phase = "using", ![t].entry = e]
     /\ IF Positions(cachedModels, id) # {}
        THEN cachedModels' = Append(Without(cachedModels, id), e) /\ UNCHANGED unloaded
        ELSE /\ cachedModels' = Append(SubSeq(cachedModels, n + 1, Len(cachedModels)), e)
             /\ unloaded' = unloaded \cup Deleted(ToSet(SubSeq(cachedModels, 1, n)))
     /\ UNCHANGED file

LoadAndPut(t) ==
  /\ thread[t].phase = "loading"
  /\ loadCount < MaxModelLoads
  /\ \E size \in Sizes(thread[t].path) : Put(t, size)

Release(t) ==
  /\ thread[t].phase = "using"
  /\ thread' = [thread EXCEPT ![t] = AtRest]
  /\ UNCHANGED <<cachedModels, file, loadCount, unloaded>>

(* evict()                                                                 *)
EvictModel(p) ==
  /\ Positions(cachedModels, ModelId(p)) # {}
  /\ cachedModels' = Without(cachedModels, ModelId(p))
  /\ unloaded' = unloaded \cup Deleted({cachedModels[k] : k \in Positions(cachedModels, ModelId(p))})
  /\ UNCHANGED <<file, thread, loadCount>>

CacheNext ==
  \/ \E p \in Paths : FileChanges(p) \/ EvictModel(p)
  \/ \E t \in Threads :
       \/ LoadFails(t) \/ LoadAndPut(t) \/ Release(t)
       \/ \E p \in Paths, d \in Devices : LookUp(t, p, d)

CacheSpec == CacheInit /\ [][CacheNext]_cacheVars

-----------------------------------------------------------------------------
(* The variables keep their types.                                         *)
CacheTypeOK ==
  /\ loadCount \in 0..MaxModelLoads /\ unloaded \subseteq 1..MaxModelLoads
  /\ \A t \in Threads : thread[t].phase \in {"idle", "loading", "using"}

Weighed(s, d) == {k \in OnDevice(s, d) : s[k].weighed}

(* Whatever threads load at the same time, the cache holds at most         *)
(* MaxModels models, one of a name, and none that was deleted; on each     *)
(* device the models that were held against its budget fit it, unless one  *)
(* of them alone exceeds it.  A model that replaced one of its name on     *)
(* another device, or a smaller one, was not (put): with it the device may *)
(* hold more than its budget.                                              *)
CacheWithinBounds ==
  /\ Len(cachedModels) <= MaxModels
  /\ \A j, k \in DOMAIN cachedModels : cachedModels[j].id = cachedModels[k].id => j = k
  /\ \A k \in DOMAIN cachedModels : cachedModels[k].serial \notin unloaded
  /\ \A d \in Devices :
       \/ Cardinality(BytesOf(cachedModels, Weighed(cachedModels, d))) <= Budget(d)
       \/ Cardinality(Weighed(cachedModels, d)) = 1
=============================================================================
