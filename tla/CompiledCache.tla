----------------------------- MODULE CompiledCache -----------------------------
(***************************************************************************)
(* The cache of compiled executors (_CompiledExecutorMeta in               *)
(* dmoj/executors/compiled_executor.py) and the directories its objects    *)
(* own and share (BaseExecutor.cleanup).                                   *)
(*                                                                         *)
(* An executor owns a directory once it wrote its first file; one made on  *)
(* a cache hit shares that of the entry.  A directory is named after the   *)
(* object that created it, and an object dies with its last reference, a   *)
(* user's or the cache's: __del__ then removes the directory unless        *)
(* is_cached is set.  One thread of one worker process uses all this.      *)
(*                                                                         *)
(* Entries are found by key.  The key joins problem, command, flags and    *)
(* the texts of the files without separators and without the names of the  *)
(* files, so two sources may share one: nothing is assumed of Key.         *)
(***************************************************************************)
EXTENDS Naturals, FiniteSets

CONSTANTS
    Objects,    \* the executors that may be made, each once
    Sources,    \* what they compile: class, flags and source code
    Key,        \* the key of each: the hash of its parts joined without separators
    None,
    Size,       \* compiled_binary_cache_size
    Sweeps      \* files in the cache's directory may vanish (a cleaner of /tmp)

ASSUME NoneAssumption == None \notin Objects \cup Sources
ASSUME KeyAssumption == DOMAIN Key = Sources
ASSUME SizeAssumption == Size \in Nat \ {0} /\ Sweeps \in BOOLEAN

VARIABLES
    state,      \* of each object: "unborn", "live" or "dead"
    source,     \* what it was made for
    dir,        \* _dir
    cached,     \* is_cached
    held,       \* the objects some user refers to
    entries,    \* the objects in compiled_binary_cache
    newer,      \* of each entry, the entries that were used since
    files,      \* the source whose executable each directory holds, or None
    swept       \* history: the directories that lost their files to a sweep

cache == <<entries, newer>>
cacheVars == <<state, source, dir, cached, held, cache, files, swept>>

CacheInit ==
    /\ state = [o \in Objects |-> "unborn"]
    /\ source = [o \in Objects |-> None]
    /\ dir = [o \in Objects |-> None]
    /\ cached = [o \in Objects |-> FALSE]
    /\ held = {} /\ entries = {} /\ swept = {}
    /\ newer = [o \in Objects |-> {}]
    /\ files = [o \in Objects |-> None]
-----------------------------------------------------------------------------
\* The entries under the key of src: one at most, perhaps of another source.
Entry_Any(src) == entries
Entry(src) == {e \in entries : Key[source[e]] = Key[src]}

\* The order of use with this entry in front, and of what is left of them.
Front(e) == [x \in Objects |-> IF x \in entries \ {e} THEN newer[x] \cup {e} ELSE {}]
Left(gone, order) == [x \in Objects |-> IF x \in gone THEN {} ELSE order[x] \ gone]

CleansUp_Never(o) == FALSE
\* cleanup() removes the directory of an executor that is not cached.
CleansUp(o) == ~cached'[o]

\* The end of a step that leaves these objects and files: those without a
\* reference die, and their __del__ cleans up.
Settle(newState, newFiles) ==
    LET dying == {o \in Objects : newState[o] = "live" /\ o \notin held' \cup entries'}
        removed == {dir'[o] : o \in {p \in dying : CleansUp(p)}}
    IN /\ state' = [o \in Objects |-> IF o \in dying THEN "dead" ELSE newState[o]]
       /\ files' = [d \in Objects |-> IF d \in removed THEN None ELSE newFiles[d]]

Born(o) == [state EXCEPT ![o] = "live"]

\* An executor that is not cached compiles into a directory of its own.
NewUncached(o, src) ==
    /\ state[o] = "unborn"
    /\ source' = [source EXCEPT ![o] = src]
    /\ dir' = [dir EXCEPT ![o] = o]
    /\ held' = held \cup {o}
    /\ UNCHANGED <<cached, cache, swept>>
    /\ Settle(Born(o), [files EXCEPT ![o] = src])

SharesDirectory_Uncached(o) == UNCHANGED cached
\* obj.is_cached = is_cached, before the cache is looked at.
SharesDirectory(o) == cached' = [cached EXCEPT ![o] = TRUE]

\* A hit whose executable is still there: the object takes over _executable and
\* _dir, and the entry becomes the most recently used.
Hit(o, src) ==
    /\ state[o] = "unborn"
    /\ \E e \in Entry(src) :
         /\ files[dir[e]] # None
         /\ dir' = [dir EXCEPT ![o] = dir[e]]
         /\ newer' = Front(e)
    /\ source' = [source EXCEPT ![o] = src]
    /\ SharesDirectory(o)
    /\ held' = held \cup {o}
    /\ UNCHANGED <<entries, swept>>
    /\ Settle(Born(o), files)

Missing(src) == \A e \in Entry(src) : files[dir[e]] = None

\* pylru: replacing an entry evicts nothing, a new one evicts the oldest when the
\* cache is full.
Oldest == {e \in entries : newer[e] = entries \ {e}}
Evicted(src) == IF Entry(src) = {} /\ Cardinality(entries) = Size THEN Oldest ELSE {}

\* No entry, or one whose executable is gone: the executor compiles and becomes
\* the entry; the one that is evicted is marked by _cleanup_cache_entry.
Miss(o, src) ==
    /\ state[o] = "unborn" /\ Missing(src)
    /\ source' = [source EXCEPT ![o] = src]
    /\ dir' = [dir EXCEPT ![o] = o]
    /\ held' = held \cup {o}
    /\ cached' = [x \in Objects |-> IF x = o THEN TRUE
                                    ELSE IF x \in Evicted(src) THEN FALSE ELSE cached[x]]
    /\ entries' = (entries \ (Entry(src) \cup Evicted(src))) \cup {o}
    /\ newer' = Left(Entry(src) \cup Evicted(src), Front(o))
    /\ UNCHANGED swept
    /\ Settle(Born(o), [files EXCEPT ![o] = src])

\* CompileError: the object never reaches its user nor the cache.  (With is_cached
\* set nobody removes what it wrote, but there is no executable in it.)
CompileFails(o, src, isCached) ==
    /\ state[o] = "unborn"
    /\ isCached => Missing(src)
    /\ source' = [source EXCEPT ![o] = src]
    /\ dir' = [dir EXCEPT ![o] = o]
    /\ cached' = [cached EXCEPT ![o] = isCached]
    /\ IF isCached /\ Entry(src) # {} THEN \E e \in Entry(src) : newer' = Front(e)
                                     ELSE UNCHANGED newer
    /\ UNCHANGED <<entries, held, swept>>
    /\ Settle(Born(o), files)

\* The user drops its reference.
DropReference(o) ==
    /\ o \in held
    /\ held' = held \ {o}
    /\ UNCHANGED <<source, dir, cached, cache, swept>>
    /\ Settle(state, files)

Sweep(d) ==
    /\ Sweeps /\ files[d] # None
    /\ files' = [files EXCEPT ![d] = None]
    /\ swept' = swept \cup {d}
    /\ UNCHANGED <<state, source, dir, cached, held, cache>>

CacheNext ==
    \/ \E o \in Objects, src \in Sources : NewUncached(o, src) \/ Hit(o, src) \/ Miss(o, src)
    \/ \E o \in Objects, src \in Sources, c \in BOOLEAN : CompileFails(o, src, c)
    \/ \E o \in Objects : DropReference(o) \/ Sweep(o)

CacheSpec == CacheInit /\ [][CacheNext]_cacheVars
-----------------------------------------------------------------------------
\* Every variable holds a value of its type; the cache is within its size and has
\* one entry for each key.
CacheTypeOK ==
    /\ state \in [Objects -> {"unborn", "live", "dead"}]
    /\ source \in [Objects -> Sources \cup {None}]
    /\ dir \in [Objects -> Objects \cup {None}]
    /\ cached \in [Objects -> BOOLEAN]
    /\ held \subseteq {o \in Objects : state[o] = "live"}
    /\ entries \subseteq Objects /\ Cardinality(entries) <= Size
    /\ \A e, f \in entries : Key[source[e]] = Key[source[f]] => e = f
    /\ newer \in [Objects -> SUBSET entries]
    /\ \A e, f \in entries : e # f => (f \in newer[e] <=> e \notin newer[f])
    /\ files \in [Objects -> Sources \cup {None}]
    /\ swept \subseteq Objects

\* No executor's end takes the files of a cache entry away: only a sweep does,
\* and that is noticed at the next hit.
EntriesKeepFiles ==
    \A e \in entries : files[dir[e]] = None => dir[e] \in swept

\* What an executor runs was compiled from a source with its own key, and from its
\* own source when it is not marked as cached.  No more is true of a shared one: where
\* the key does not tell two sources apart, the second runs the first one's binary
\* (compiled_executor.py:54-63).
RightBinary ==
    \A o \in held : LET compiled == files[dir[o]] IN
        compiled # None => /\ Key[compiled] = Key[source[o]]
                           /\ ~cached[o] => compiled = source[o]

\* What _cleanup_cache_entry promises (compiled_executor.py:35-37), and the same
\* for executors that were never cached: after the last reference to the object
\* its directory is removed.
CleanedUp ==
    \A o \in Objects : state[o] = "dead" /\ ~cached[o] => files[dir[o]] = None
=============================================================================
