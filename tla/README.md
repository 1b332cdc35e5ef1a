# Verification of copyPasta

TLA+ models of copyPasta, a C++ toolkit for searching and rewriting source
trees (`src/README.md`), with the TLC runs that check them and the TLAPS proofs
about them. `PROJECT.json` is the index: components, runs, mutants, the map
from each definition to the lines it models, findings, hazards and theorems.
Paths below are those of `PROJECT.json` (`src/` is the repository's root).

## 1. Inventory

| Component | State | Operations | Talks to | Correct when |
|---|---|---|---|---|
| **ThreadPool** (`CacheAndPool.*`) | job queue, `stop`, atomic `activeTasks`, two mutexes, two condition variables | `enqueue`, worker loop, `waitUntilFinished`, destructor | jobs call back into it | each job is run once; a wait returns only when idle, and returns; destruction drains the queue and ends |
| **DirWalker** (`DirWalker.hpp`) | configuration; recursion over listings; shared abort flag | `walk` with and without a pool | ThreadPool (jobs), LibGit (`isPathIgnored`), DirEntryCache, the callback | an entry is met once for each time that the walk comes to its directory; SKIP, STOP and ABORT do what they say; a stored ABORT is prompt across threads |
| **FileSnapCache**, **DirEntryCache** | map behind a shared mutex | `get`, `updateAndGet`, `invalidate`, `clear` | FileReader | an update is fresh; time never runs backwards |
| **PcreCache** | compiled patterns, raw pointers handed out | `get` | FileReader/FileWriter | what is handed out is alive |
| **TSEnginePool**, **TSQueryCache** | engines by language address, queries by engine address | `get` | TSEngine, CSTTree | an engine is of the language asked for and outlives its trees; a query belongs to its engine |
| **FileEditor** (`FileEditor.*`) | queued edits, `currStep`, ids, errors | `queue`, `delEdit`, `reset`, `getConflictErrors`, `apply`, `step`, `applySaveAndMarkErrors` | FileWriter, CSTTree | edits land where they were queued for; conflicts are reported; saves and backups keep the text safe |
| **FileWriter** (`FileReaderWriter.*`) | the text, `dirty`, row offsets | text operations, `save`, `backup` | file system, PcreCache | the text is what the operations say; a save writes it |
| **FileReader**, **File** (`FileReaderWriter.*`) | a buffer over part of the file, a position, a direction, row offsets | `load`, `get`, `next`, `reset`, `find`, `snapshot`, `tsRead`, `sync` | file system, tree-sitter, FileSnapCache | what it answers is what the file holds; a snapshot is whole; searching does not disturb an iteration |
| **TSEngine**, **CSTTree** | parser, tree, a view of the text | `parse`, `edit`, `sync`, `getErrors` | tree-sitter, TSQueryCache | the tree describes the text |
| **LibGit** | repository handle, its index in memory, mutex per handle | `add`, `addAll`, `commit`, `resetHead`, `checkout`, `branchCreate`, ... | libgit2 | a commit holds what was staged; branches grow; a reset brings the files back to HEAD |
| **TSLoader** | environment, library handles | `get`: look, clone, build, look again | DirWalker, DirEntryCache, LibGit | a library that is there is found, and mapped while it is held |
| **LuaExecutor** (`LuaKitty.*`), `main.cpp` | Lua state, watcher flag, pool of one | `exec`, `watchAndExec`, `joinWatcher`, destructor | ThreadPool, everything above | one watch at a time in the Lua state, none after it is closed; the latest script is run; a watch that runs when the destructor begins ends |
| Logger, parser and query tables, vendored Lua, tests and examples | - | - | - | no state of their own that another part reads |

What is hard in this code: condition variables and an atomic count without a
common lock; jobs that enqueue jobs; callbacks that answer from two threads
while the walk goes on; files that vanish under a walk; caches that look twice;
edits of one text that move each other; a chain of kinds of edit (validate,
save, backup) whose order decides what reaches the disk; saves that first
truncate; handles on one repository with an index each; caches keyed by
addresses that are used again; a pager that is right for some sequences of calls
only; a flag that a destructor lowers and a job raises. `PROJECT.json` lists 40
hazards at their lines.

## 2. Plan

1. *(done)* **ThreadPool** refining **JobService**; proofs.
2. *(done)* **DirWalkPool**, on top of the pool's promise, and **DirWalkSeq**;
   proof that a stored ABORT is prompt.
3. *(done)* **FileEditor** over **TextBuffer**, with the writer, the tree and the disk.
4. *(done)* **SnapCache** with proofs, **PatternCache**.
5. *(done)* `applySaveAndMarkErrors` and `step` by itself in FileEditor; the
   block pager in **Reader**.
6. *(done)* **Watcher** (LuaExecutor on its pool), **Languages** (TSLoader over
   DirEntryCache, the engine pool, the query cache), **Git**; proofs of all three.
7. *(done)* Proofs about both walks, FileReader and FileEditor.
8. Left: `deleteRow`, `replace`, `append` of FileWriter; what a search matches.

## 3. Modules

**ThreadPool** - `ThreadPool` of `include/CacheAndPool.hpp`, `src/CacheAndPool.cpp`.
`task`, `active`, `stop` are the members; `pc` is where each worker and client
is. A critical section of `queueMutex` is one action (`EnqueuePush`,
`WorkerPop`/`WorkerSleep`/`WorkerExit`, `DtorStop`), as what it reads and writes
is touched nowhere else. `notify_one` and `notify_all` are actions of their own
because the code calls them unlocked. `waitUntilFinished` is four actions:
take `finishMutex` (`WaitLock`), test the count (`WaitTest`), go to sleep and
give the mutex up (`WaitBlock`), be woken. Testing and sleeping are *not*
atomic with respect to `activeTasks.fetch_sub` and `notify_all`, which take no
mutex. Spurious wake-ups exist. Workers running a job may enqueue. The
destructor starts when no client is inside, the precondition C++ demands.

**JobService** - what the pool promises: `Submit`, `Finish`, `BeginWait`,
`EndWait` (nothing outstanding), `Close`. `ThreadPool!ImplementsJobService` is
the refinement: a job is *outstanding* from the push to the `fetch_sub`.

**DirTree**, **DirFrames** - the tree, the recursion of `walk` as a stack of
(directory, next entry, climbs made), the configuration. `Hidden` are the
entries that a git-ignore rule or `matchExt` filters out. An inverted walk climbs
by the *text* of its path: `fs::absolute(path).parent_path()` of `dir/` or `dir/.`
is the same directory again, of `dir/sub/..` it is `dir/sub`; only `.` is looked
after (`DirWalker.hpp:219`, `324`). `Ways` are the sequences of directories to
which the spellings of the start path lead; `Turns` says after which climbs a walk
lists the directory of an entry, and a start path is `Clean` if no directory
has two. The tree has no cycle
(`DepthAssumption`), as a path is longer than that of its directory. What a
recursive walk should reach (`DirsInReach`) and what is under an entry
(`Subtree`) are least closed sets rather than recursions. `Ahead` is what the
walk of a frame may yet come to.

**DirWalkPool** - the walk with a pool. The walking thread makes the QUEUING
call (`Visit`), descends, climbs or enqueues (`DescendOrOpen`); workers `Take`
a job (look at the flag) and `Open` it (call back), in two steps because the
flag may be raised in between. Whoever is answered ABORT stores the flag in a
further step (`StoreAbort`, `StoreOpened`): the others go on meanwhile, and
nothing in the code bounds the calls they make, so `CallsAfterAbort` counts from
the store. In a flat walk with `filesOnly` the workers open the directories of
the listing (the option is looked at before the QUEUING call only); `Wanted` is
what the documents ask for, `Unwanted` these directories. Any answer at any call; an entry may vanish
after it was listed, which leaves `File::isDir` uninitialised, so either value
is taken; the walk may throw at any point, with jobs left in the pool. The pool
is taken at its word: a queue whose jobs run once (JobService).

**DirWalkSeq** - the walk without a pool: OPENED calls, the STATUS of nested
walks (`Returns`, `Unwound`), the FAILED call, climbing (in the frame of the walk
that climbs, as the code returns the walk of the parent). In both walks the
start directory exists (else the code returns at once). Its names differ from
those of DirWalkPool (`at`, `told`, `SeqNext`, ...), as one module of proofs
extends both.

**TextBuffer** - the operations of `FileWriter` on the text (0-based offsets,
rows, indents). Text is a sequence over a few characters: newline, blank, and
letters. The out-of-range word that `insertRowBefore` reads on the last row
gives a nondeterministic indent.

**FileEditor** - the editor with the writer, the tree, the file and the
backups. `Queue`, `DelEdit`, `Reset`, `GetConflicts`, `Apply` are the calls;
one `Step...` action per kind of edit and outcome is an iteration of `apply`.
`std::sort` is unstable, so `SortedBy` yields every order it may leave. `exact`
says whether the tree is what a fresh parse would give: `OP_DELETE`'s
`new_end_byte`, row lengths that forget the indent, and `REPLACE`'s `sync` of a
stale view make it false, and `VALIDATE_CST` may then report anything. A save is
two steps, truncate and write, either of which may be the last before a crash.
`StepCalled` is `step` by itself, of the last batch. `applySaveAndMarkErrors`
is the pass of `apply("MARK")`: it iterates as `apply` does, then puts a mark at
each error of each conflict and each row of the tree's errors (`MarkErrors`,
`Reports`), saves, restores the text it kept (`kept`) and returns the errors of
*that* pass. The rows of a conflict's range are never set
(`FileEditor.cpp:140`), so a mark of a conflict may go to any row, or outside,
where the behaviour is undefined. Undefined behaviour ends the model in
`pc = "undefined"`. Asserts are off, as in the default Release build
(`src/CMakeLists.txt`).

**SnapCache** - `FileSnapCache` at the granularity of its lock sections. A
snapshot is the version of the file it holds. `DirEntryCache::getCachedChildren`
is the same algorithm without an update.

**PatternCache** - `PcreCache::get` and the frees of its callers.

**Git** - `LibGit`, several handles on one repository. State: working tree, index
file, commits, branch tips, HEAD; by handle the index libgit2 keeps in memory
(`mem`, `fresh`, `dirty`). A call under the handle's mutex that reads and later
writes shared files is several actions (`CommitReads`, `CommitFindsParent`,
`CommitCreates`), as the mutex of one handle does not stop another. What libgit2
does (a stale index written over the file, `git_index_read(index, 0)`, a refused
checkout, a hard reset, which knows HEAD and the index and leaves what neither
has) is modelled from the calls. `checkout` moves HEAD whether or not the files
follow; `ResetRepairs` says what `resetHead` makes good when it is called
*after* that. The examples call it before the checkout (`lua-docs.md:424`), where
it repairs an earlier one only. A commit reads its tree before it looks for its
parent (`LibGit.cpp:306`, `308`): a commit of another handle in between becomes the
parent of a tree that lacks it. The repository has a commit and HEAD exists. `stage` and `clash`
are history: what callers have staged, and that one handle undid or missed it.

**Languages** - from the name of a language to a query on a tree: `TSLoader::get`
as walks over cached listings around clone and build, `dlopen` and `dlclose` by
count, a library or symbol that cannot be loaded (`OpenThrows`), `TSEnginePool::get` in its two lock sections, trees with a raw pointer to
their engine, `TSQueryCache` by the address of the engine. There are fewer
addresses than things placed at them, so addresses are used again. `stale` says
by which of three ways an address has come to name something else ("language",
"misses", "engine"); each property says that there is no further way. A thread may drop its language
and keep a tree of it (`Drop`), whose library is then gone; no property is about
such trees. One listing stands for each
language: `make` leaves the library in the language's own directory, so no other
listing shows it or misses it. `early` marks a listing made while the directory
was cloned and not built. The first walk of a `get` makes one itself
when it finds an unbuilt clone: it then builds the library, and its second walk
reads the listing without it and throws (`TSLoader.cpp:164-191`), on one thread.

**Reader** - `FileReader`: the buffer that `load` resizes and fills, with the
offsets the code computes (also when they are wrong), `next` in both directions,
`reset`, `get`, lines, `find`, `snapshot`, `tsRead`, `sync`, and a file that
changes. A byte is its version and offset. There are two block sizes: `block`, the
constructor's `blockSize`, is what the first load (`get`, `reset`) and tree-sitter's
chunks have; `Block`, `defaultBlockSize`, is by what `next`, `prev`, `find` and
`snapshot` step (`FileReaderWriter.cpp:170-173`, `313-314` against `289`,
`550-583`). The pager is right for some sequences of calls only (blocks in order,
nothing but the first block before a range, ...): `stray` records that a caller
has left them, and the properties promise the file's bytes to whoever has not.
One way to leave them is to page (`next`, `find`, `snapshot`) through a reader
whose block size is no multiple of `Block` while its buffer is short of the file:
the buffer then begins in the middle of a block, and bytes come from the wrong
offset. A reader that was synced is within them, as `test.cpp:87`'s is.
`rows` is the text that the row offsets are of: asked for before the file is read
to its end, they are those of a part, and stay so in the snapshot (`early`).

**Watcher** - `LuaExecutor` and `main.cpp`: one Lua state, a pool of one thread
(at its word, JobService), any number of watches of a script or of the console,
the main thread that calls, joins and destroys, a user who writes, removes and
types. A watch's look at the file's time, its reading and the end of its script
are separate steps (`PollChanged`, `LoadScript`, `ScriptEnds`). `watcherRunning`
is raised by the job, in the pool's thread (`Start`), and lowered by the
destructor. `stopping` are the watches that were past their start at that moment.
A watch that the destructor overtakes raises the flag again and runs on: the
destructor then waits for it for ever, which only `main.cpp`'s order of calls
(it joins first) avoids.

**MC...** modules give the constants values; **...Proofs** modules hold the
theorems.

## 4. Runs

| Run | Shows |
|---|---|
| `threadpool` | `TypeOK`, `ActiveTasksExact`, `NoJobDropped`, `WaitReturnsIdle`, `JobsComplete`, `DestructorCompletes`, and the refinement `ImplementsJobService` |
| `threadpool_wait` | **violated**: "helper to block until all tasks are finished" - a waiter may sleep for ever (lost wake-up) |
| `dirwalk_pool` | `CallsAfterAbort`, `OnceEach`, `SteeringObeyed`, `WalkComplete`, `WalkEnds` |
| `dirwalk_seq` | `AbortUnwinds`, `ParentFirst`, `StopIsLocal`, `SeqComplete`, `SeqEnds` |
| `editor` | `TypeOK`, `ConflictsExact`, `SameKindLands`, `SaveTakesEffect`, `BackupRecovers`, `ValidOnlyWritesValid` |
| `editor_mixed` | **violated**: "proper edits from bottom to top" - kinds are sorted before positions |
| `snap_cache` | `UpdateFresh`, `NeverOlder` |
| `git` | `CommitTakesStage`: a commit holds what was staged unless a handle undid or missed it; `BranchesGrow`: only a reset moves a branch backwards; `ResetRepairs`: after a reset what was committed or staged is as in HEAD, though a checkout had moved HEAD without the files |
| `languages` | `LibraryFound`, `LibraryHeld`, `EngineFits`, `ParentAlive`, `QueryFits`: no way but the three of `stale`, and no missed library but one whose directory was listed unbuilt, by whichever `get` |
| `reader` | `AnswersExact`: ranges, blocks and chunks are the file's bytes, with either block size; `SnapshotWhole`: its text, and its rows unless they were asked for too early; `IterationKept`: a search between two `next` loses no block |
| `watcher` | `LuaHeld`, `RunsTwice`, `LatestRuns` (what was written last is run), `WatchesStop` (the watches past their start end once the destructor has begun) |
| `pattern_free` | **violated**: "owned by the cache for its lifetime" - `replaceAll` frees the code |

Other disagreements of code and documents met on the way, which no run refutes
separately:

- An entered directory gets the QUEUING call only; `DirWalker.hpp:95` speaks of
  two calls per entry.
- `applyAndSaveValidOnly` queues no validation (`LuaKitty.cpp:776`);
  `lua-docs.md:365` says it saves valid text. `ValidOnlyWritesValid` is about
  batches that validate.
- A backup clears `dirty`, so `applyAndSave` after it writes nothing
  (`FileReaderWriter.cpp:679`); `lua-docs.md:364`. `SaveTakesEffect` excepts it.
- A flat walk with a pool and `filesOnly` opens directories
  (`DirWalker.hpp:317-351`); `lua-docs.md:88` speaks of regular files only.
  `WalkComplete` expects exactly these.
- `FileReader::get()` answers with what the buffer holds, after opening the first
  block (`FileReaderWriter.cpp:200`); `lua-docs.md:170`: "Entire file contents".
- A reader constructed with a block size of its own that is no multiple of
  `defaultBlockSize` pages through wrong bytes, and row offsets asked for early
  are kept when they are stale; no comment warns of either.
- An inverted walk from `dir/` or `./` lists `dir` twice and opens its entries
  again (`DirWalker.hpp:219-221`, `324-326`). `OnceEach` counts by `Turns`.
- `TSLoader::get` of a language that is cloned and not built builds it and throws
  all the same. `LibraryFound` names the listing that hides the library.
- `resetHead` is a hard reset by default and overwrites edits;
  `lua-docs.md:403`: "Reset HEAD (unstage)". `checkout` of a branch moves HEAD
  before it checks the files out, and keeps it there if they are refused
  (`LibGit.cpp:223-224`, `232`); `lua-docs.md:407`.
- The editor's `replace` binding queues the template as `change` and the
  pattern as `context` (`LuaKitty.cpp:703`); the step passes them to
  `replaceAll` in that order, which takes the pattern first (`FileEditor.cpp:231`).
- `applySaveAndMarkErrors` returns the errors of its marking pass, not those it
  marked; `lua-docs.md:366`.

Each property of a passing run has a mutant in `PROJECT.json`: a plausible bug
in a modelled definition (`Bug_...` in the module) that TLC finds with it.

### Bounds, and why they are enough

- `threadpool`: 2 workers, 2 clients, 3 jobs. Two clients contend for the
  count; three jobs are one running, one queued, one enqueued by a job after
  `stop`. No symmetry, as liveness is checked.
- `dirwalk_*`: four directories in a chain with files beside, one hidden; two
  workers; all eight configurations; two spellings of the start path with the
  pool (`here`, `here/`), four without (`./` and `here/sub/..` too). Deep enough
  for an ABORT to unwind two walks and for an inverted walk to climb to a new
  directory and to one that it has listed.
- `editor`: text of four characters in two rows; twelve candidate edits;
  `MaxOps` = 3 edits in a queue (two text edits and a save or validation),
  `MaxCalls` = 3 calls of `queue`, `MaxSteps` = 4, `MaxBatches` = 2; single steps
  in the last batch only. The conflict and landing properties are about pairs.
  8.7 million states.
- `snap_cache`: three threads, one file, `MaxVersion` = 2 changes: one thread
  loads, one erases, one gets what is left. Threads are symmetric.
- `pattern_free`: `MaxCodes` = 2 compilations.
- `git`: two threads, two handles, two paths, two branches, `MaxCalls` = 5. Stage,
  commit, reset and a second handle's write fit in five calls, and so do a commit on
  one branch, a refused checkout of the other and a reset; the third content
  (`newer`) lets an edit differ from both trees of a checkout. 3 million states.
- `languages`: two threads, two languages, room for two libraries and three
  engines: each address is used for the other language in turn. One language may
  be absent, cloned or built at first. Symmetric; deadlock is checked.
- `reader`: `defaultBlockSize` two, constructors' sizes two and three (in step and
  out of step with it), files of 0 or 5 bytes (none, or three blocks with the last
  one short), offsets 0, 2, 3, 5 (block ends and a middle), one change of the
  file: enough to load in and out of order and to pass the end.
- `watcher`: two watches of a file and one of the console, `MaxVersion` = 2 writes:
  one between look and read, one during the run.

`CHECK_DEADLOCK FALSE` stands where the bounds or the end of the program let a
session stop: the editor's runs, `pattern_free`, `git`, `reader`, `watcher`.

### Fairness

ThreadPool: weak fairness of each worker's and client's own steps (threads are
scheduled, jobs return), strong fairness of `WaitLock` (a mutex that is free
again and again is got at last). Calls, spurious wake-ups and the start of the
destructor are not fair: nobody has to make them. DirWalk: weak fairness of the
walking thread and of each worker; callbacks return. Watcher: weak fairness of
each watch's steps only (the pool's thread runs, scripts end). That the main
thread's calls return is not assumed: `joinWatcher` and the destructor wait in
`waitUntilFinished`, which need not return (`threadpool_wait`). The user's writes and typing and the main thread's calls are not fair. The
other modules are checked for safety only.

## 5. Proofs

Checked by TLAPS for every value of the constants that satisfies the named
assumptions.

- **ThreadPoolProofs** (assumes at least one worker, threads that are not both
  worker and client, finitely many jobs). `IInv` = types, the queue holds the
  queued jobs once each (`QueueInv`), a taken job is in one worker's hands
  (`HandInv`), the destructor runs alone and the last worker left an empty queue
  (`LifeInv`), and the count is exact. `ActiveTasksExact` is not inductive by
  itself: a `fetch_sub` must belong to one counted job, which is `HandInv`; a
  pop must take a queued one, which is `QueueInv`. From it: `TypeCorrect`,
  `CountExact`, `NothingDropped`, `WaitReturnsOnlyIdle`, and `Refinement`
  (each step maps to a step of JobService or a stutter).
- **DirWalkProofs** (any tree of `TreeAssumption` and `DepthAssumption`, any
  finite set of workers). Of the walk with a pool:
  - `IInv` says that the calls made late, the workers about to call and the
    walking thread, when it is about to call, are together at most the number of
    workers once the flag is up: the thread that raised it is one of the
    workers + 1 threads. Whoever is about to store a second ABORT is past its
    call and counts no more. `AbortIsPrompt` follows. It is a bound from the first
    store on, not from the answer.
  - `CleanInv`: in a walk that comes to no directory twice, `EntriesInv` says that what lies ahead of the frames (`Ahead`) is met by
    nobody yet and is ahead of one frame only, that jobs are queued or held once,
    and that what an answer leaves out was not met and is not ahead. `OnceEach` alone is not
    inductive: it takes the shape of what is left to see that the next entry is
    new. `AnswersAreObeyed` follows, and `MetOnce` for the walks that do not climb.
    Both rest on lemmas about trees: what is under two entries of a listing is
    apart, and nothing is under itself.
  - `TurnsInv`, for inverted walks from any spelling of the start path: the calls
    made for an entry and the turns still to come are together at most its
    `Turns`. With it `MetOnce` says that an entry is asked about and opened no more
    often than the walk comes to its directory.
  - `CompleteInv`: until a walk is cut short, what should be visited and was not is
    ahead of a frame. `WalkIsComplete` follows: what was opened is what the documents
    ask for, and the directories of a flat walk with `filesOnly`.

  Of the walk without one, `SeqInv` adds where the recursion stands (`PlaceInv`),
  what was met (`MetInv`, `UpInv` for the turns of an inverted walk), which listings were stopped and by which entry
  (`StopInv`, `ListingInv`), that an entry is met after its directory (`SeenInv`),
  and what is left when nobody cut the walk short (`CalmInv`):
  `AbortDoesUnwind`, `ParentComesFirst`, `StopStaysLocal`, `SeqIsComplete`.
- **SnapCacheProofs** (any threads, files and number of changes). `IInv`: the
  lock is held exactly between load and store; nothing is newer than the file;
  what is cached or about to be stored is no older than anything handed out, nor
  than a call that has erased. `UpdatesAreFresh` and `NothingOlder` follow.

- **GitProofs** (any threads, handles, paths, branches and contents; the named
  assumptions of Git). `IInv` = types (HEAD, tips and calls in progress name
  commits that exist), at most one thread past the mutex of a handle
  (`MutexInv`), and, while no handle has undone another, that what is staged is in
  the index file or in the memory of the one handle that has yet to write it, and
  that a handle that is clean and up to date equals the file (`StageInv`).
  `CommitTakesStage` needs it: a commit reads the index of its handle only.
  `StagedIsCommitted` follows. `TipsGrow` is an action property from the types;
  `ResetsRepair` is one from all of `IInv`: as the index that the reset goes by is,
  by `StageInv`, what was staged, no staged or committed file escapes it.
- **LanguagesProofs** (any finite set of threads, any languages and addresses).
  `IInv`: listings without a library were made while the directory was unbuilt (`ListInv`); a library is
  open as often as it is held, mapped exactly then, and alone at its address
  (`LibInv`); owned engines are alive (`OwnInv`); unless a library went, the
  pool's engines are of what is mapped (`PoolInv`); unless two threads missed at
  once, the pool owns every tree's engine (`MissInv`), which is what keeps the raw
  pointer of a tree good; queries fit engines (`QueryInv`). All five properties
  of the run follow: `Found`, `Held`, `EnginesFit`, `ParentsAlive`, `QueriesFit`.
- **WatcherProofs** (any set of watches, any number of writes). `QueueInv` and
  `OneWatch`: jobs wait in the queue once each and the pool's thread is in one
  watch; `ClosedLast`: the state is closed when none is left. `OneAtATime`
  follows. `RunsInv` bounds how often a version was run by where the watch is
  (`Allowed`): a version later than the one seen at most once, and that is what
  makes two the bound (`AtMostTwice`).

- **ReaderProofs** (any default block size and any constructors' block sizes above
  zero, whether or not they are multiples, any file sizes and offsets).
  `IInv` = types, what a reader has when it was just opened (`OpenInv`), that the
  position is where the iteration left it or will be put back there (`PlaceInv`),
  and, for a caller who has not strayed (`ProperInv`): the buffer holds the file up
  to the end of a block (`BufferInv`), and a position that is read on from is where
  a block begins (`NextInv`); and the row offsets are of the text, unless they were
  asked for early (`RowsInv`). The arithmetic of `load` is right only under these. `AnswersAreExact`,
  `SnapshotsAreWhole`, `IterationIsKept`.
- **FileEditorProofs** (any text, any edits of `EditsAssumption` and
  `TextAssumption`, any bounds). Every property of the run, from the eight conjuncts
  of `IInv` and the four of `LandsInv`. `ConflictInv` carries the
  conflicts from the sort to the return, also while `applySaveAndMarkErrors` has
  put its queue aside (`MarksInv`); that the sort by range and the early break of
  the inner loop lose no pair is a lemma about `Conflicts` and `SortedBy`. `PassInv`
  says that the queue is in order and that an `apply` that does not begin at
  the first edit never ends; so kinds come in order, backups before any change
  (`BackupInv`), saves after (`SaveInv`), and nothing changes the text after it was
  validated (`ValidInv`). `TypeIsKept`, `ConflictsAreExact`, `SaveDoesTakeEffect`,
  `BackupDoesRecover`, and the action property `ValidOnlyDoesWriteValid`.

  That edits of one kind land where they were meant to (`SameKindDoesLand`) is proved
  on top of that. `LandInv`: in the middle of a pass the text is what all edits done
  so far, at once, make of the text the queue refers to. A step keeps it because the
  next edit lies before all of them (`Before`: the sort, and that they do not
  overlap), so that up to its end the text is still as it was queued for
  (`SpliceAtOnce`). This needs that the ranges lie in that text (`PlacesInv`) and
  that texts are sequences of characters through every kind of edit, rows and marks
  included (`TextInv`). `AllAtOnce` flattens one piece for each place of the text;
  what it is comes from an induction over the pieces, which is had from the least
  member of a set of naturals (`LeastNatural`, `Induction`), as the prover cannot
  use an induction theorem that takes a predicate.

Only model-checked: liveness (`JobsComplete`, `DestructorCompletes`, `WalkEnds`,
`SeqEnds`, `LatestRuns`, `WatchesStop`), which TLAPS does not reach.

## 6. Not modelled

Third-party code (tree-sitter, libgit2, pcre2, Lua) appears only as this code
uses it.

- **LibGit**: `clone` but for its outcome, `openOrInit`, a repository without
  commits, the copy constructor (which leaves the signature uninitialised,
  `LibGit.cpp:51`), `isPathIgnored` and `branchExists`, which only read, and what
  a diff says.
- **FileReader**: what a search matches and where (a match at the end of a block
  is dropped, `FileReaderWriter.cpp:492`), `File`'s rename and delete. That
  out-of-order ranges of files of several blocks are wrong bytes, that `tsRead`
  is wrong from its second block on, and that `pos` and `readReverse` start
  without a value is in the model, as what `stray` excepts.
- **FileWriter**: `deleteRow`, `replace`, `append`, which the editor does not call.
- **LuaKitty**: the bindings, which forward to the components above (but for the
  order of arguments at `LuaKitty.cpp:703`, section 4); `findInFiles`'
  raw pointer into a snapshot that another thread may replace
  (`LuaKitty.cpp:562`); what `exec` leaves on the Lua stack (`LuaKitty.cpp:73`);
  helpers for strings and tables.
- `DirEntryCache::clear`, PcreCache's destructor, lifetimes of locals captured by
  jobs, allocation failures, wording of messages, `File::level`.

A snapshot of SnapCache is read from the disk in one step; Reader is where a file
changes *while* it is read.
