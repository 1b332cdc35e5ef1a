------------------------------ MODULE Languages ------------------------------
(* From the name of a language to a query on a tree: TSLoader (src/          *)
(* TSLoader.cpp) finds, clones and builds the parser's library over listings *)
(* that DirEntryCache keeps; the library stays mapped while a wrapper of it  *)
(* lives; TSEnginePool keeps engines by the address of the language and      *)
(* TSQueryCache queries by the address of the engine (src/CacheAndPool.cpp). *)
(* Addresses are reused once what they named is gone.                        *)
(*                                                                           *)
(* A thread holds one language and one tree at a time.  No parser is linked  *)
(* into the program, so loadTSLangFromSelf finds nothing.  make leaves the   *)
(* library in the directory it runs in, so the one listing that can show it  *)
(* or miss it is that of the directory itself, never of one below it.        *)
EXTENDS Naturals, FiniteSets

CONSTANTS Threads, Langs,
          LangAddrs, EngineAddrs,  \* where a library, an engine may be placed
          None, Folders            \* what may be on disk at first, by language

States == {"absent", "source", "built"}

ASSUME NoneAssumption == /\ None \notin Langs \cup LangAddrs \cup EngineAddrs \cup States
                         /\ None \notin [parent : EngineAddrs, lang : Langs]
ASSUME ThreadsAssumption == IsFiniteSet(Threads)
ASSUME FoldersAssumption == Folders \subseteq [Langs -> States]

VARIABLES
  dir,      \* by language: its directory on disk, "built" with the library
  listing,  \* DirEntryCache: the directory as it was listed, or None
  count,    \* how often each library is open
  at,       \* where it is mapped, or None
  pool,     \* TSEnginePool: an engine by the address of a language
  engine,   \* the language an engine was made for, None: no engine there
  query,    \* TSQueryCache: the language of the query kept for an address
  lang,     \* by thread: the language it holds a wrapper of
  tree,     \* by thread: its tree, with the language it was parsed in
  op,       \* by thread: where it is in which call
  early,    \* history: languages whose directory was listed cloned and unbuilt
  stale     \* history: how addresses have come to name something else

disk == <<dir, listing, early>>
libraries == <<count, at, lang>>
caches == <<pool, engine, query, stale>>
vars == <<disk, libraries, caches, tree, op>>

Idle == [at |-> "idle"]

Init ==
  /\ dir \in Folders
  /\ listing = [l \in Langs |-> None] /\ early = {}
  /\ count = [l \in Langs |-> 0] /\ at = [l \in Langs |-> None]
  /\ pool = [a \in LangAddrs |-> None]
  /\ engine = [e \in EngineAddrs |-> None] /\ query = [e \in EngineAddrs |-> None]
  /\ lang = [t \in Threads |-> None] /\ tree = [t \in Threads |-> None]
  /\ op = [t \in Threads |-> Idle]
  /\ stale = {}

Do(t, next) == op' = [op EXCEPT ![t] = next]

-----------------------------------------------------------------------------
(* TSLoader::get *)

\* get(l) walks the directory; round 2 is the walk after the build.
Get(t, l) ==
  /\ op[t] = Idle /\ lang[t] = None
  /\ Do(t, [at |-> "walk", lang |-> l, round |-> 1])
  /\ UNCHANGED <<disk, libraries, caches, tree>>

\* What the walk finds: the library, or that it is not there
AfterWalk(t, seen) ==
  Do(t, [op[t] EXCEPT !.at = IF seen = "built" THEN "open"
                             ELSE IF op[t].round = 1 THEN "clone" ELSE "missing"])

\* A directory that does not exist is not listed.
WalkFails(t) ==
  /\ op[t].at = "walk" /\ dir[op[t].lang] = "absent"
  /\ AfterWalk(t, "absent")
  /\ UNCHANGED <<disk, libraries, caches, tree>>

\* getCachedChildren: a hit under the shared lock, ...
WalkHits(t) ==
  LET l == op[t].lang IN
  /\ op[t].at = "walk" /\ dir[l] # "absent" /\ listing[l] # None
  /\ AfterWalk(t, listing[l])
  /\ UNCHANGED <<disk, libraries, caches, tree>>

\* Mutant: a directory that does not exist is listed, and the listing kept.
Bug_WalkMisses(t) ==
  /\ op[t].at = "walk" /\ listing[op[t].lang] = None
  /\ Do(t, [op[t] EXCEPT !.at = "list"])
  /\ UNCHANGED <<disk, libraries, caches, tree>>

WalkMisses(t) ==
  /\ op[t].at = "walk" /\ dir[op[t].lang] # "absent" /\ listing[op[t].lang] = None
  /\ Do(t, [op[t] EXCEPT !.at = "list"])
  /\ UNCHANGED <<disk, libraries, caches, tree>>

\* ... or the listing is read and stored under the exclusive one, for good: the
\* first walk of get keeps what it lists from the second.
WalkLists(t) ==
  LET l == op[t].lang IN
  /\ op[t].at = "list"
  /\ listing' = [listing EXCEPT ![l] = dir[l]]
  /\ early' = IF dir[l] = "source" THEN early \cup {l} ELSE early
  /\ AfterWalk(t, dir[l])
  /\ UNCHANGED <<dir, libraries, caches, tree>>

\* LibGit::clone refuses a directory that is not empty, and may fail; nobody
\* looks at its result.
Clone(t) ==
  LET l == op[t].lang IN
  /\ op[t].at = "clone"
  /\ \/ dir[l] = "absent" /\ dir' = [dir EXCEPT ![l] = "source"]
     \/ dir' = dir
  /\ Do(t, [op[t] EXCEPT !.at = "build"])
  /\ UNCHANGED <<listing, early, libraries, caches, tree>>

\* make; a failure is only logged.
Build(t) ==
  LET l == op[t].lang IN
  /\ op[t].at = "build"
  /\ \/ dir[l] = "source" /\ dir' = [dir EXCEPT ![l] = "built"]
     \/ dir' = dir
  /\ Do(t, [op[t] EXCEPT !.at = "walk", !.round = 2])
  /\ UNCHANGED <<listing, early, libraries, caches, tree>>

GetThrows(t) ==
  /\ op[t].at = "missing"
  /\ Do(t, Idle)
  /\ UNCHANGED <<disk, libraries, caches, tree>>

\* loadTSLangFromExtern: the library is mapped where there is room, unless it is
\* mapped already.
Open(t) ==
  LET l == op[t].lang IN
  /\ op[t].at = "open"
  /\ count' = [count EXCEPT ![l] = @ + 1]
  /\ \E a \in LangAddrs :
       /\ IF at[l] # None THEN a = at[l] ELSE \A m \in Langs : at[m] # a
       /\ at' = [at EXCEPT ![l] = a]
  /\ lang' = [lang EXCEPT ![t] = l]
  /\ Do(t, Idle)
  /\ UNCHANGED <<disk, caches, tree>>

\* load_library or load_symbol fails: what was opened is closed again, and the
\* exception leaves the walk, and get, before anything is cloned or built.
OpenThrows(t) ==
  /\ op[t].at = "open"
  /\ Do(t, Idle)
  /\ UNCHANGED <<disk, libraries, caches, tree>>

\* Mutant: the library is closed whoever else has it open.
Bug_LastClose(l) == TRUE

\* dlclose unmaps a library when it was opened by nobody else.
LastClose(l) == count[l] = 1

\* The last copy of the wrapper goes; an engine made with it stays in the pool.
Drop(t) ==
  LET l == lang[t] IN
  /\ op[t] = Idle /\ l # None
  /\ lang' = [lang EXCEPT ![t] = None]
  /\ count' = [count EXCEPT ![l] = @ - 1]
  /\ at' = IF LastClose(l) THEN [at EXCEPT ![l] = None] ELSE at
  /\ stale' = IF LastClose(l) /\ pool[at[l]] # None THEN stale \cup {"language"} ELSE stale
  /\ UNCHANGED <<disk, pool, engine, query, tree, op>>

-----------------------------------------------------------------------------
(* TSEnginePool, TSEngine::parse *)

\* The engines somebody owns: the pool, or a thread that has yet to parse
Owned(p, o) == {p[a] : a \in LangAddrs} \cup
               {o[t].engine : t \in {u \in Threads : o[u].at \in {"parse", "local"}}}

\* An engine that nobody owns any more is deleted.
Collect(e) == engine' = [x \in EngineAddrs |-> IF x \in Owned(pool', op') THEN e[x] ELSE None]

\* A new engine for the language of t, where none is
New(t, e) ==
  /\ engine[e] = None
  /\ stale' = IF query[e] \in {None, lang[t]} THEN stale ELSE stale \cup {"engine"}

\* Mutants: the lookup forgets what it finds; languages share an engine.
Bug_Cached(t) == None
Bug_CachedAny(t) ==
  IF \E a \in LangAddrs : pool[a] # None
  THEN pool[CHOOSE a \in LangAddrs : pool[a] # None] ELSE None

Cached(t) == pool[at[lang[t]]]

PoolHits(t) ==
  /\ op[t] = Idle /\ lang[t] # None /\ tree[t] = None
  /\ Cached(t) # None
  /\ Do(t, [at |-> "parse", engine |-> Cached(t)])
  /\ UNCHANGED <<disk, libraries, caches, tree>>

PoolMisses(t) ==
  /\ op[t] = Idle /\ lang[t] # None /\ tree[t] = None
  /\ Cached(t) = None
  /\ Do(t, [at |-> "make"])
  /\ stale' = IF \E u \in Threads : op[u].at = "make" /\ lang[u] = lang[t]
              THEN stale \cup {"misses"} ELSE stale
  /\ UNCHANGED <<disk, libraries, pool, engine, query, tree>>

\* engines[lang] = ptr, over an engine that another miss has stored
PoolMakes(t, e) ==
  LET a == at[lang[t]] IN
  /\ op[t].at = "make"
  /\ New(t, e)
  /\ pool' = [pool EXCEPT ![a] = e]
  /\ Do(t, [at |-> "parse", engine |-> e])
  /\ Collect([engine EXCEPT ![e] = lang[t]])
  /\ UNCHANGED <<disk, libraries, query, tree>>

\* The tree points at its engine; the shared pointer of get goes.
Parse(t) ==
  /\ op[t].at = "parse"
  /\ tree' = [tree EXCEPT ![t] = [parent |-> op[t].engine, lang |-> engine[op[t].engine]]]
  /\ Do(t, Idle)
  /\ pool' = pool
  /\ Collect(engine)
  /\ UNCHANGED <<disk, libraries, query, stale>>

\* A function with an engine and a tree of its own (src/examples)
LocalEngine(t, e) ==
  /\ op[t] = Idle /\ lang[t] # None /\ tree[t] = None
  /\ New(t, e)
  /\ Do(t, [at |-> "local", engine |-> e])
  /\ engine' = [engine EXCEPT ![e] = lang[t]]
  /\ tree' = [tree EXCEPT ![t] = [parent |-> e, lang |-> lang[t]]]
  /\ UNCHANGED <<disk, libraries, pool, query>>

\* The tree of t is deleted, and the engine of the function with it.
DropTree(t) ==
  /\ op[t].at \in {"idle", "local"} /\ tree[t] # None
  /\ tree' = [tree EXCEPT ![t] = None]
  /\ Do(t, Idle)
  /\ pool' = pool
  /\ Collect(engine)
  /\ UNCHANGED <<disk, libraries, query, stale>>

-----------------------------------------------------------------------------
(* TSQueryCache *)

\* Mutant: queries are keyed by their text alone.
Bug_Kept(e) == IF \E x \in EngineAddrs : query[x] # None
               THEN query[CHOOSE x \in EngineAddrs : query[x] # None] ELSE None

\* The language of the query kept for the engine at e
Kept(e) == query[e]

\* getErrors, query: a query is compiled once for an address, while there is an
\* engine; two threads that miss compile the same.
Query(t) ==
  LET e == tree[t].parent IN
  /\ op[t].at \in {"idle", "local"} /\ tree[t] # None
  /\ engine[e] # None /\ Kept(e) = None
  /\ query' = [query EXCEPT ![e] = engine[e]]
  /\ UNCHANGED <<disk, libraries, pool, engine, stale, tree, op>>

-----------------------------------------------------------------------------

Next ==
  \E t \in Threads :
    \/ \E l \in Langs : Get(t, l)
    \/ WalkFails(t) \/ WalkHits(t) \/ WalkMisses(t) \/ WalkLists(t)
    \/ Clone(t) \/ Build(t) \/ GetThrows(t) \/ Open(t) \/ OpenThrows(t) \/ Drop(t)
    \/ PoolHits(t) \/ PoolMisses(t) \/ Parse(t) \/ DropTree(t) \/ Query(t)
    \/ \E e \in EngineAddrs : PoolMakes(t, e) \/ LocalEngine(t, e)

Spec == Init /\ [][Next]_vars

-----------------------------------------------------------------------------
(* Properties *)

\* get misses a library that is there only where a walk has listed the directory
\* while it was cloned and not built: a walk of another get, or the first walk of
\* this very get, which then builds the library and cannot see it.  What was
\* listed in any other state is the directory as it is.
LibraryFound ==
  [][\A t \in Threads :
       op[t].at # "missing" /\ op'[t].at = "missing"
         => dir[op[t].lang] # "built" \/ op[t].lang \in early']_vars

\* The library of a language that a thread holds is mapped, whatever the others
\* have opened and dropped, and no other is where it is.
LibraryHeld ==
  \A t \in Threads :
    lang[t] # None => /\ at[lang[t]] # None
                      /\ \A l \in Langs \ {lang[t]} : at[l] # at[lang[t]]

\* The pool hands out an engine of the language asked for, unless a library
\* went while the pool kept its engine: another may be at its address.
EngineFits ==
  \A t \in Threads :
    op[t].at = "parse" /\ "language" \notin stale => engine[op[t].engine] = lang[t]

\* The engine that a tree points at is alive and of its language, unless two
\* threads have missed the pool at once and one has replaced the other's.
ParentAlive ==
  \A t \in Threads :
    tree[t] # None /\ "misses" \notin stale => engine[tree[t].parent] = tree[t].lang

\* The query that is kept for the engine of a tree is one of its language,
\* unless an engine was placed where one of another language had queries.
QueryFits ==
  \A t \in Threads :
    tree[t] # None /\ stale \cap {"misses", "engine"} = {}
      => Kept(tree[t].parent) \in {None, tree[t].lang}

-----------------------------------------------------------------------------
(* The inductive invariants behind them *)

Loading == {"walk", "list", "clone", "build", "open", "missing"}
Ops == {Idle} \cup [at : Loading, lang : Langs, round : {1, 2}]
       \cup {[at |-> "make"]} \cup [at : {"parse", "local"}, engine : EngineAddrs]

TypeOK ==
  /\ dir \in [Langs -> States] /\ listing \in [Langs -> States \cup {None}]
  /\ count \in [Langs -> Nat] /\ at \in [Langs -> LangAddrs \cup {None}]
  /\ pool \in [LangAddrs -> EngineAddrs \cup {None}]
  /\ engine \in [EngineAddrs -> Langs \cup {None}]
  /\ query \in [EngineAddrs -> Langs \cup {None}]
  /\ lang \in [Threads -> Langs \cup {None}]
  /\ tree \in [Threads -> [parent : EngineAddrs, lang : Langs] \cup {None}]
  /\ op \in [Threads -> Ops]

\* A directory is listed when it is there, and stays; a listing without the
\* library was made before the build.
ListInv ==
  /\ \A t \in Threads : op[t].at = "list" => dir[op[t].lang] # "absent"
  /\ \A l \in Langs : listing[l] # "absent" /\ (listing[l] = "source" => l \in early)

\* A library is open once for each thread that holds it, mapped while it is
\* open, and alone at its address.
Holders(l) == {t \in Threads : lang[t] = l}
LibInv ==
  /\ \A l \in Langs : count[l] = Cardinality(Holders(l)) /\ (at[l] = None <=> Holders(l) = {})
  /\ \A l, m \in Langs : at[l] = at[m] /\ at[l] # None => l = m

\* What a thread holds in each of its calls
OpInv ==
  \A t \in Threads :
    /\ op[t].at \in Loading => lang[t] = None
    /\ op[t].at \in {"make", "parse", "local"} => lang[t] # None
    /\ op[t].at \in {"make", "parse"} => tree[t] = None
    /\ op[t].at = "local" => tree[t] # None /\ tree[t].parent = op[t].engine
                             /\ engine[op[t].engine] = tree[t].lang

\* An engine that somebody owns is alive.
OwnInv == \A e \in Owned(pool, op) \ {None} : engine[e] # None

\* The pool keeps engines of libraries that are where they were.
PoolInv ==
  "language" \notin stale =>
    \A a \in LangAddrs : pool[a] # None => \E l \in Langs : at[l] = a /\ engine[pool[a]] = l

\* One thread at a time makes an engine for a language, and only for one that
\* has none: what the pool handed out it keeps.
MissInv ==
  "misses" \notin stale =>
    \A t \in Threads :
      /\ op[t].at = "make" => /\ Cached(t) = None
                              /\ \A u \in Threads \ {t} : op[u].at = "make" => lang[u] # lang[t]
      /\ op[t].at = "parse" => \E a \in LangAddrs : pool[a] = op[t].engine
      /\ tree[t] # None /\ op[t].at # "local" => \E a \in LangAddrs : pool[a] = tree[t].parent

\* The queries kept for an engine are of its language.
QueryInv ==
  "engine" \notin stale =>
    \A e \in EngineAddrs : engine[e] # None => query[e] \in {None, engine[e]}

IInv == /\ TypeOK /\ ListInv /\ LibInv /\ OpInv /\ OwnInv
        /\ PoolInv /\ EngineFits /\ MissInv /\ ParentAlive /\ QueryInv
==============================================================================
