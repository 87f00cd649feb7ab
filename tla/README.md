# SuCo, CSPG and SHG in TLA+

This directory holds TLA+ models of the three nearest-neighbour indexes that
this fork of FAISS adds, of the HNSW code they are built on, and of the two parts
of FAISS in which threads share state by hand: inverted lists on disk, and the
worker threads of composite indexes. TLC checks the models on small instances. TLAPS proves some of the results for every value of
the constants. Line numbers refer to the files under `src/`. The file name
`IndexSuCo.cpp` stands for `src/faiss/IndexSuCo.cpp`, and so on.

1. [The system](#1-the-system)
2. [The modules](#2-the-modules)
3. [What is checked](#3-what-is-checked)
4. [Fairness](#4-fairness)
5. [What is proved](#5-what-is-proved)
6. [What the models say about the code](#6-what-the-models-say-about-the-code)
7. [Limits](#7-limits)
8. [Plan](#8-plan)
9. [Running it](#9-running-it)

## 1. The system

The repository is FAISS with three new indexes. Everything else is upstream
FAISS, which the new code uses in a few places only. The inventory below covers
the parts that carry the repository's own logic, the FAISS parts they rest on,
and the FAISS parts with locks and condition variables of their own. `PROJECT.json` lists every other part with the reason it is left aside.

### SuCo (`IndexSuCo.cpp`, `IndexSuCo.h`)

The dimensions are split into `nsubspaces` subspaces, and each subspace into two
halves. k-means gives `ncentroids_half` centroids per half. The pairs of
centroids are the cells of an inverted multi-index (IMI), and each cell has an
inverted list.

| | |
|---|---|
| State | `is_trained`, `ntotal`, `centroids`, `inv_lists` per subspace and cell, `xb` (all raw vectors) |
| Operations | `train`, `add`, `reset`, `search`, `search_multisequence`, `search_linear`, `get_sc_scores`, `write_index`, `read_index` |
| A query | In each subspace, visit cells in ascending distance until `collision_num` vectors were met. Each meeting adds one to the vector's SC-score. The `candidate_num` vectors of highest score are compared exactly |
| Two traversals | `dynamic_activate` keeps a growing set of rows with a pointer each (358-426). `dynamic_activate_multisequence` keeps a heap and a bitset (760-809). They are said to give identical results (`IndexSuCo.h:299`) |
| Hard parts | Sentinels and exhausted rows at the end of a grid, and ties. A histogram pass and a gather pass that must count alike. `add` and `train` interrupted half way by the callback that the distance kernels poll. Streams that were cut short, since `SUCO_WRITE1` ignores short writes |
| Right when | Cells come in order, each once, and not one more than needed. The traversals agree. Exactly the budget of best vectors is compared. Lists, vectors and count fit each other after any history of calls |

### CSPG (`IndexCSPG.cpp`, `IndexCSPG.h`, `IndexCSPG_io.h`)

The vectors are dealt to `m` partitions, each with an HNSW graph of its own. A
sample of *routing* vectors is in all partitions.

| | |
|---|---|
| State | `partitions` (graphs), `refunction` (local to global ids), `global_to_local`, `num_routing`, the shared flat storage, `ntotal` |
| Operations | `add` (once), `reset`, `search`, write and read of the extra stream |
| A query | Stage 1 descends greedily in partition 0. Stage 2 is a beam search over all partitions at once: accepting a copy of a routing vector pushes its copies in every partition |
| Hard parts | No result list may hold a vector twice although a routing vector has `m` copies. One candidate pool of bounded size serves all partitions. `add` can throw after `ntotal` was set and before all partitions exist |
| Right when | The id maps, graphs and storage describe one split. Every near result is expanded in every partition that has it. The pool loses nothing that matters |

### SHG (`IndexSHG.cpp`, `IndexSHG.h`, `IndexSHG_io.h`)

An HNSW index whose upper levels use compressed vectors (means of blocks of
`eta` coordinates). A learned shortcut says how many levels to skip. At the
base level a lower bound from the coarsest compressed vectors prunes.

| | |
|---|---|
| State | That of `IndexHNSWFlat` (storage and graph), `compressed_vecs`, the tables of the compression, `shortcut` |
| Operations | `add`, `build_shortcut`, `search`, the extra stream; `reset` and `permute_entries` are inherited |
| Hard parts | Three copies of the vectors under one numbering, of which the inherited operations know two. The scale of the lower bound. Predictions of a shortcut that was trained on another state of the index. Distances computed four at a time against a threshold read earlier |
| Right when | The copies agree. What is pruned could not be a result. The descent reads lists at levels that exist. The beam is not cut short |

### HNSW (`impl/HNSW.cpp`, `IndexHNSW.cpp`)

| | |
|---|---|
| State | `levels`, `neighbors` (one fixed-size list per point and level), `entry_point`, `max_level` |
| Operations | `hnsw_add_vertices` / `add_with_locks` (several threads), `search`, `permute_entries`, `reset`; `MinimaxHeap`, the bounded candidate pool of all searches |
| Hard parts | Threads insert the points of one level at once. Each list has a lock, readers take none, `entry_point` is read in a critical section and written outside of it, and `max_level` is not protected. The interrupt callback can stop an add between two points. `pop_min` marks entries dead in place, and they keep their places in a full heap |
| Right when | Lists are only read and written at levels that exist, no link is lost, no inserted point is a dead end, the entry point is on top, and no thread waits forever |

### Inverted lists on disk (`invlists/OnDiskInvertedLists.cpp`)

The lists of an IVF index in one mapped file, with an allocator of slots.

| | |
|---|---|
| State | `lists` (size, capacity, offset), `slots` (the free ones), `totsize` and the file; `LockLevels`: the holders of level 1, counters, flags, one mutex and three condition variables; the tasks and the cursor of `OngoingPrefetch` |
| Operations | `add_entries`, `resize`, `update_entries`, `prefetch_lists`, `merge_from_multiple`; `lock_1` ... `unlock_3` |
| Hard parts | Level 1 is per list, level 2 protects the slots, level 3 the mapping. A thread that is alone on level 3 relies on a count of the threads that sleep on level 2. Each unlock wakes some of the sleepers. The list is read before the wait for level 2. Capacities are entries in a list and bytes in a slot |
| Right when | The file is moved by a thread that is alone with it. No wake-up is lost. No byte has two owners. What is read stands still. The lists, read through the file, are a table of lists |

### Worker threads (`utils/WorkerThread.cpp`, `impl/ThreadedIndex-inl.h`, `IndexShards.cpp`, `IndexReplicas.cpp`, `MetaIndexes.cpp`)

| | |
|---|---|
| State | Per worker a queue of tasks with promises, `wantStop_`, a thread; the collection `indices_`, `ntotal`; in an open call the futures and the arrays for the results |
| Operations | `add`, `stop`, `waitForThreadExit`; `addIndex`, `removeIndex`, the destructor, `runOnIndex`; `add`, `reset` and `search` of shards and replicas, `search` of `IndexSplitVectors` |
| Hard parts | `add` against `stop`, and the flush after it, outside of the mutex. A function that throws while the others still run. Several searches in the same queues. Labels shifted by the sizes of the shards before |
| Right when | Each future is answered once. No task outlives the call whose arrays it writes. A search finds every vector once, under its number. Every call returns |

### How they interact

- `IndexSHG::add` repeats the insertion of `hnsw_add_vertices` with another
  distance computer. `IndexCSPG::add` builds one `IndexHNSW` per partition.
- CSPG's stage 2, SHG's base level and HNSW's own bounded search all pop from a
  `MinimaxHeap`. The models of the two searches use the abstract pool that
  `MinimaxHeap` is shown to implement.
- SuCo uses `knn_L2sqr` and k-means of FAISS. Both poll the interrupt callback
  and throw, which is where `train` and `add` stop half way.
- Searches of all three run one query per thread. Queries share nothing that
  changes, so one query is modelled at a time. Threads meet on shared state in
  the insertion, in the lists on disk, and in the queues of the workers.
- `ThreadedIndex` owns a `WorkerThread` per sub-index. `IndexShards` and
  `IndexReplicas` call `runOnIndex`, which adds a task to each worker and waits
  for all futures. `IndexSplitVectors` makes workers for each search.

## 2. The modules

```
ImiGrid ── CellRetrieval                         what a cell traversal promises
   ├──── DynamicActivation ──┐  (each: R == INSTANCE CellRetrieval)
   ├──── MultiSequence ──────┴─ ImiTraversals    both on one query
SuCoIndex                                        train, add, reset, streams
SuCoRerank                                       scores -> budget -> k results
BoundedPool ─┬ MinimaxHeap                       (implements BoundedPool)
             ├ CSPGSearch ─┐                     stage 2 of a CSPG query
             └ SHGSearch   │   SHGCompress       an SHG query
CSPGIndex ── CSPGPartitions┘                     add, reset, streams of CSPG
HNSWInsert                                       concurrent insertion
SHGIndex                                         the copies an SHG index keeps
InvertedListsStore                               what a table of lists promises
LockLevels ── OnDiskLists                        (implements InvertedListsStore)
WorkerThread ── ThreadedIndex                    shards, replicas, split vectors
```

`*Proofs` modules hold the theorems. `ImiTraversalsProofs`, `OnDiskListsProofs` and
`ThreadedIndexProofs` are also about the modules that these compose (the two
traversals, `LockLevels`, `WorkerThread`). `SuCoProofs`, `CSPGProofs`, `SHGProofs` and
`HNSWProofs` are each about two modules of one index which have no variable in
common: `SuCoIndex` and `SuCoRerank`, `CSPGIndex` and `CSPGSearch`, `SHGIndex` and
`SHGSearch`, `HNSWInsert` and `MinimaxHeap`. So that one module can extend both, one
of the two has longer names for its specification (`RerankSpec`, `IndexSpec`,
`HeapSpec`). `MC*` modules
hold definitions for the constants of a run, and
nothing else.

| Module | Code | State and actions |
|---|---|---|
| `ImiGrid` | `IndexSuCo.cpp:358-400` | Operators. `dist[<<i, j>>]` is the distance of the cell in row `i` and column `j`, rows and columns sorted as by the code, so that grids are monotone. Ranks are counted from 1 |
| `CellRetrieval` | (abstract) | `Retrieve(c)` takes a first cell not taken yet, until the quota is reached. Ties may be taken in the order of `NotAfter`, which is total: (dist, i, j) |
| `DynamicActivation` | 358-426 | `active`, `combined`, `ptr`, `exhausted` are `active.size()`, `combined_dist`, `idx2_ptr`, `exhausted_count`. `Iterate(pos)` is one iteration of the loop: scan, retrieval, quota test, activation of a row, advance |
| `MultiSequence` | 760-809 | `heap` as a multiset, `visited` as a set. `Pop(c)` is one iteration |
| `ImiTraversals` | 610, 858 | Both traversals on the same arguments, in any interleaving |
| `SuCoIndex` | 181-352, 1032-1196 | One action per call, and one per way of stopping half way: `TrainInterrupted`, `AddInterrupted(batch, upto)` (stopped in subspace `upto + 1`), a `WriteIndex` of which only `cut` chunks reach the disk, and `ReadIndexFails`, which stops before, inside of or behind any chunk (`TornLists`, `TornVectors`: a bucket or `xb` that was resized and filled in part). A vector is a model value. Training gives a function from vectors to buckets |
| `SuCoRerank` | 432-558 | `TakeTier` and `FindThreshold` are the loop over the histogram, `Gather` one iteration of the gather loop, `Sort` the exact distances and the partial sort |
| `BoundedPool` | (abstract) | The `Cap` nearest of what was pushed. Popped candidates keep their places |
| `MinimaxHeap` | `HNSW.cpp:1378-1613`, `Heap.h:44-107` | The array heap element by element, with lazy deletion. Both sifts are `Shift` along a `Path` |
| `CSPGSearch` | `IndexCSPG.cpp:420-593` | `Seed` is where stage 1 ended: any vector of partition 0. `Expand` pops a candidate; for each of its neighbours `Skip` (already marked), `Accept` or `Reject` is the marking pass and `process_neighbor` in one, `Push` is one push of a copy |
| `CSPGPartitions` | `IndexCSPG.cpp:314-323` | The numbers of the partitions |
| `CSPGIndex` | `IndexCSPG.cpp:124-286`, `IndexCSPG_io.h` | `Add` for every sample and every deal, `AddFailsInSplit` and `AddFailsInBuild` for a throw at any of its allocations or in the graph of a partition, with what was replaced by then and what was not, `Reset`, `Write`, `Read` |
| `HNSWInsert` | `HNSW.cpp:445-590`, `IndexHNSW.cpp:65-200` | One action per critical section, per unprotected read or write that matters, and per list read. `StartAdd`, `NextBatch` and `Throw` are the driver. `Take` ... `Enter` are a thread in `add_with_locks` |
| `SHGCompress` | `IndexSHG.cpp:578-790` | Operators on integer vectors: the levels, the means, the distances |
| `SHGSearch` | `IndexSHG.cpp:185-392, 1064-1231` | `EnterTop`, `Skip`, `Nearer`, `Settle` are the descent. `Seed`, `Pop`, `Look`, `Add`, `Stop` are the base level |
| `SHGIndex` | `IndexSHG.cpp:413-572, 871-1028`, `HNSW.cpp:1341-1376`, `IndexHNSW.cpp:357-361` | The storage, the graph, the compressed vectors and the skips. `AddVectors`, `Reset`, `Permute`, `BuildShortcut` |
| `LockLevels` | `OnDiskInvertedLists.cpp:32-126` | `at[t]` is how far thread `t` has come, `cv[t]` the condition variable it sleeps on. One action per critical section of `mutex1`: a wait is an action that ends asleep, and is tried again when woken. `Spurious` wakes without a signal |
| `OnDiskLists` | 130-250, 292-334, 393-566, 571-654 | The file byte by byte. A call is `AddEntries` or `Resize` (level 1), then `StaysInPlace`, or `Queues` (level 2), `Reslots`, if needed `Announces` and `Remaps` (level 3), `Moves`, and `Fills`, `Returns`. `Clears`, `Restarts`, `Takes`, `HasRead` are the prefetch. `Merge` is `merge_from_multiple` |
| `InvertedListsStore` | `InvertedLists.cpp:71-89, 278-319` | (abstract) A sequence of entries per list: append, cut, merge into empty lists. This is what `ArrayInvertedLists` does |
| `WorkerThread` | `WorkerThread.cpp:17-115` | `Add` and `Stop` for its users, `Sleeps`, `Takes`, `Runs`, `Leaves`, `Flushes`, `Ends` for `threadMain`. A future is pending, true, false (not run) or raised |
| `ThreadedIndex` | `ThreadedIndex-inl.h:26-191`, `IndexShards.cpp:33-264`, `IndexReplicas.cpp:44-201`, `MetaIndexes.cpp:59-146` | The variable `kind` says who uses the workers: shards, shards with successive ids, replicas, split vectors, or a plain user. A call goes through phases: make a worker, post a task to each, wait for each future, close a worker, return |

Each definition that stands for code is in `PROJECT.json` under `map`, with its
lines. Definitions whose comment begins with `Mutant:` are deliberately wrong
versions of the one that follows. They are used to see that a property can fail,
and no specification refers to them.

**Abstractions.** Distances are small integers. What matters about them is
their order (and, for SHG, sums and means), so floats that are equal or ordered
are represented faithfully and rounding is not. Vectors, trainings and ids are
model values or small numbers. A list whose order nobody looks at is a set or a
count. A choice the code makes by a heuristic or a random number (which levels
are drawn, which neighbours are kept, which vectors are routing vectors, which
skips are accepted, which of two equal results a heap throws out) is a
nondeterministic choice.

## 3. What is checked

Eleven runs pass, and one shows a violation. Distinct states are rounded.

| Run | Bounds | Shows |
|---|---|---|
| `imi_traversals` (401 000) | 3 x 3 cells, 24 grids (all monotone ones over 2 distances, and sums with gaps), 2 vectors in any cells, quotas 1 to 3 | Both traversals implement `CellRetrieval` (`ImplementsRetrieval`), score alike (`IdenticalResults`) and end (`Terminates`) |
| `suco_index` (1 522 000) | 2 subspaces, 2 buckets, 2 vectors, 2 trainings, up to 2 vectors in `xb`, up to 2 calls stopped half way | Unless a call was stopped half way and nothing cured it since, the index is coherent (`Coherent`). Whatever was stopped, an index that is open to search has learned centroids and a vector for every id in its lists, unless a read stopped while it was open (`OpenIsBacked`) |
| `suco_rerank` (114 000) | 4 vectors, scores 0 to 2, every `k`, every budget, 2 distances | Exactly the budget is compared, it consists of the best by score, and nothing better is left out |
| `minimax_heap` (448 000) | 4 places, 6 ids, 3 distances | The array heap implements `BoundedPool` |
| `cspg_search` (1 329 000) | 2 partitions of 3 vectors, 2 of them routing, all graphs without isolated vectors, 4 queries, `ef` 1 to 3 | No vector twice, nothing lost in the pool that matters, results are the best of what was met, near results are expanded in all their partitions, every query ends |
| `cspg_index` (12 200) | 3 partitions, 1 to 3 vectors, every sample, every deal, a throw at every point of add | The id maps describe one split, the present one (`OneSplit`), through adds that throw, resets and round trips. What a search follows is there and agrees, unless an add threw (`SearchDefined`) |
| `hnsw_insert` (91 000) | 2 threads, 7 sequences of adds of up to 4 points on up to 2 levels, lists of 1 (base: 2) neighbours, 1 interrupt | Lists are read and written only where they exist and each link once (`ListsSound`), no link is lost to a race, no dead ends, the entry point is on top, upper levels are frozen while a batch runs, all adds end |
| `shg_search` (230 000) | 5 points, 3 graphs, every placement of 5 vectors of dimension 8, 3 shortcuts, with and without pruning and distance check | The descent reads lists that exist, pruning is sound, results are the best evaluated, the beam is complete, every query ends |
| `shg_index` (112 000) | 3 vectors, levels 0 and 2, every graph, every permutation | Each stored vector has its compressed vector in the slot of the number it was added under, through add, reset, training and permutations (`RepsInStep`). `permute_entries` renames the nodes of the graph and changes nothing else (`PermuteKeepsGraph`) |
| `ondisk_lists` (184 000) | 3 calls of `add_entries` or `resize` by 3 threads, 1 thread that reads ahead, 2 lists, 1 merge, 1 or 2 entries per add, ids of 4 bytes and codes of 1, a first file of 8 bytes | The file is moved only by a thread that is alone (`WriterAlone`), no wake-up is lost (`NobodyForgotten`), no byte has two owners (`BytesOwnedOnce`), what is read ahead stands still (`ReadUndisturbed`), the file implements `InvertedListsStore` (`ImplementsStore`), every call returns (`CallsReturn`) |
| `threaded_index` (667 000) | 2 workers, 2 callers, 6 calls, adds of 1 and 3 vectors, searches of 3 queries, 1 task that throws | Every future is answered once (`FuturesKept`), no task outlives its call (`NoLateTask`), a search finds every vector once under its number (`SearchExact`), every call returns (`CallsReturn`) |
| `ondisk_shrink` | 1 list, an add of 9 entries and a cut to 1, ids of 8 bytes, codes of 1 | Violation, see [6](#6-what-the-models-say-about-the-code) |

**Why the bounds are enough.** The cases that distinguish right from wrong code
occur within them, which the mutants show: for each property a plausible bug in
the code makes TLC find a counterexample at these bounds.

- *Traversals.* Three rows and columns are needed for a row to be activated
  while another is exhausted and a third is not active yet. Two distances make
  every pattern of ties. A quota of 3 with 2 vectors is never reached, so the
  grid is used up. Beyond this instance the proofs take over.
- *SuCo index.* Two stops allow an add that is interrupted and called again and
  interrupted again, or a cut stream of a damaged index that is read into another
  damaged one. With two vectors a stopped call can leave one id with a vector and one
  without, and a bucket can be filled in part.
- *Pool.* Four places give a heap of three levels, so that an entry sinks past
  two children. Six ids fill it and evict live and dead entries.
- *CSPG search.* With two routing vectors of three in each partition a result
  can be reached through either copy first. Result lists of 1 to 3 of 4 vectors
  are full and not full.
- *Insertion.* `ParMin` (100 in the code) is 1 and `M` is 1, so that batches
  are shared and lists overflow with the first few points. Three points of one
  level in two threads give two writers on one list while a third point is
  read. The adds of the run are quiet (`QuietAssumption`): the one add that it
  leaves out is the one in which two points rise above all others at once, see 6.
- *SHG.* Dimension 8 with `eta` 2 has two compression levels, one more than the
  smallest case. `Batch` (4 in the code) is 2, so that buffers fill and drain.
- *SHG index.* Three vectors are the fewest for which a permutation differs from
  its inverse.
- *Lists on disk.* Three threads give a holder of level 1, one that waits on
  level 2 and one that grows the file. Two lists compete for slots that one of
  them left. Sizes of 1 to 4 entries fit in place, need a slot that is free, and
  need a longer file. The sizes of ids and codes are such that the defect that
  `ondisk_shrink` shows does not occur (a cut list never fits into the bytes that
  `free_slot` gives back). The proofs cover any number of threads and lists.
- *Worker threads.* Six calls are two sub-indexes, an add, two searches at the
  same time and a removal, or a stop with two tasks in the queue. Three vectors
  over two shards give slices of different length, and three queries over two
  replicas too. Three workers with five calls (1.4 million states) were checked
  as well and show the same.

`CHECK_DEADLOCK FALSE` is set where the modelled call returns and the behaviour
ends: the traversals, the re-ranking, the searches, the insertion (all adds are
done), the pool (its ids are used up), and the worker threads (all calls are
made, idle workers sleep). The index modules and the lists on disk check for
deadlock.

## 4. Fairness

Liveness is checked in six runs, always with weak fairness only.

- *Traversals* (`ImiTraversals`): weak fairness of each traversal. Each is a loop
  in a thread that waits for nothing.
- *Searches* (`CSPGSearch`, `SHGSearch`): weak fairness of `Next`. A query is a
  loop in one thread.
- *Insertion* (`HNSWInsert`): weak fairness of each thread and of the driver,
  which is what a scheduler gives runnable threads. An OpenMP lock is not fair,
  and none is assumed: `WF_vars(Step(t))` lets a thread that waits for a lock be
  overtaken again and again. `Terminates` holds because the work is finite. A
  thread holds one lock at a time and waits for nothing while it holds it.
- *Lists on disk* (`OnDiskLists`): weak fairness of each thread inside of a call
  and of the restart of the prefetch. Starting a call is not fair. The mutex is
  not fair: a thread that is woken may find the list taken again. A spurious
  wake-up may happen at any time and is never counted on.
- *Worker threads* (`ThreadedIndex`): weak fairness of each caller inside of a
  call and of each worker. Spurious wake-ups and tasks that throw are not fair.

## 5. What is proved

The theorems of eight modules are proved by TLAPS for every value of the
constants within the named assumptions. Nothing else is assumed.

**Cell traversals.** The assumptions are those of `ImiGrid`: `NC` is at least 1,
the vectors are a finite set, grids are monotone. Theorems about
`dynamic_activate` also assume `SumsBelowSentinel`: every cell distance is below
`FLT_MAX`, with which the code marks an exhausted row.

- `CellRetrievalProofs!RetrievalSafe`: the abstract retrieval takes cells in
  order, counts and scores each vector once, and stops at the cell that fills
  the quota.
- `ImiTraversalsProofs!DynamicActivationImplementsRetrieval`. The
  refinement needs more than the retrieved set: that the pointers describe
  exactly what was retrieved, that an exhausted row is at its last column, and
  that the row above the last active one was not begun. This is `RowsAgree`
  (`RowsAlwaysAgree`), an inductive invariant. From it the first
  smallest entry is the first cell, in the order of `NotAfter`, of *all* cells
  not taken, the ones in rows that are not active included: a monotone grid
  puts them behind the last active row.
- `ImiTraversalsProofs!MultiSequenceImplementsRetrieval`, with `Frontier`
  (`FrontierInvariant`): every cell is queued once, the retrieved cells are
  closed under being nearer in both halves, and every other cell lies behind an
  entry of the heap.
- `ImiTraversalsProofs!TraversalsAgree`: when both have returned, all scores are
  equal (`IdenticalResults`). The two sets of retrieved cells are initial
  segments of one total order (hence `OneIsPrefix`), and both end at the first
  segment that fills the quota. `BothImplementRetrieval` and `BothSafe` carry the
  other results over to the composition that the run checks.

**SuCo index.** In `SuCoProofs`, `IndexCoherent` proves `TypeOK` and `Coherent`, and
`OpenAlwaysBacked` proves `OpenIsBacked`, through any number of stopped calls. The
invariant `IndexInv` adds `FileInv`, which says the same of the stream: an index that
was read is as good as the stream it came from, and a stream as good as the index it
was written from. `OpenIsBacked` is what is left of coherence after an add that was
interrupted: ids may be in a bucket twice, or in some subspaces only, but `add` stores
the vectors before it pushes the first id (`PushedBacked`), so each id that `search`
meets has a vector in `xb`. It also needs that `is_trained` is set last by
`read_index`, and that `train` takes it away before it learns the first centroids.

**SuCo re-ranking.** `BudgetAlwaysExact`, `BestAlwaysGathered`,
`TierAlwaysFound` and `NothingBetterIsLeft`, for every number of vectors, scores up to
`TopTier` (the number of subspaces), every `k` and budget. The invariant relates the two passes: the vectors above the threshold
are fewer than the budget, those at or above it are at least as many, and the
gather loop has taken all of the first and the first ones of the second. `NothingBetterLeft` then needs `ChosenOnce`, that no
id is gathered twice: only with it do `candidate_num` entries mean that as many
vectors outrank each one that was left out. The
assumption that no score exceeds `TopTier` (`MaxScore <= TopTier`) is what `ScoredOnce`
gives. An interrupted `add` that is repeated breaks it, as ids are then twice in
some lists (see 6).

**The lock of the lists on disk.** `OnDiskListsProofs` shows for any finite set of
threads, any lists and any order in which the levels may be used: `LockTypeCorrect`
and `LockOwners` (`OneOwner`: a list has one holder, level 2 has one), and for
every run of `OnDiskLists` `FileMovedAlone` (`WriterAlone`) and `NoLostWakeUp`
(`NobodyForgotten`). `lock_3` compares two counters, so the invariant `LInv` says
what they count: `Books` (one entry of `level1_holders` per thread that holds level
1, `n_level2` is the number of threads in line for level 2). `Flags` says that the
flags are up for who is there, and that while a thread is on level 3 the two lines
are the same set: two finite sets, one inside of the other, of the same size. `Beds`
says who sleeps where, which is needed to see that a signal reaches the right line.
`UsesLock` then shows that each step of `OnDiskLists` is a step of `LockLevels` or
leaves the lock alone.

**The bytes of the lists on disk.** `NoByteShared` (`BytesOwnedOnce`) and the action
property `ReadersUndisturbed` (`ReadUndisturbed`) hold for any threads, lists, sizes
of codes, ids, adds and cuts, on the hypothesis `~AddToMerged`: nothing is added to
what was merged. Without it they are false (section 6). The invariant has two
parts. `Progress` ties the place of a thread in its call to the level it holds.
`Space` says where the bytes are. `Placed`: each list lies inside of the file, apart
from the others, and so does the new place of a list that moves. `Unused`: the slots
are inside of the file, apart from each other, from the new place and from each
list, except one whose old slot was given back already (`Transit`). By the lock
there is one such list at a time (`Writer`), and its bytes are its own as long as they
are read. `Ahead` is about the start: while the file is empty nobody reads ahead, so
`merge_from_multiple` finds no reader. Under it are lemmas about the operators of
the allocator, for every set of slots: joining a slot with its neighbours keeps the
slots apart (`FreedIs`), taking a part of the first that fits does (`TakenIs`), growing
the last one does and makes room (`ExtendedIs`), doubling reaches any size
(`DoubledIs`), and merged lists lie one behind the other (`StartsAre`). The last two are about
recursive functions. `RecursionExists` and `LeastExists` (a set of numbers has a
least one) give what an induction would. That an old slot is given back
by a number of entries instead of bytes does not hurt these two properties (fewer
bytes are given back than were taken). It breaks `ImplementsStore`.

**CSPG search.** `CSPGProofs` proves the four safety properties of
`CSPGSearch` for any number of partitions, any finite set of vectors, any routing
vectors among them, any graphs whose edges stay inside their partition, any
distances and any `ef` of at least 1: `NoVectorTwice` (`EachVectorOnce`),
`PoolAlwaysSuffices` (`PoolSuffices`), `ResultsAreBest` (`BestOfSeen`) and
`NoGraphOverlooked` (`AllGraphsSearched`). They are proved together, as they need
each other. The invariant `Inv` says that the vectors of the results, of the pool
and of the copies still to be pushed are marked in every partition that has them
(`ResultsMarked`, `PoolMarked`), that no copy is pushed twice (`PushedOnce`), and
that each copy of a result waits to be pushed, waits in the pool, was expanded, or
is no nearer than the worst result (`CopiesCovered`). The bound of the pool then
follows (`FullPool`): if the vector of some entry is not among the results, it was
expelled or turned away, so it is no nearer than the worst. If all of them are,
partition and vector tell the entries apart, and a pool of `ef * NP` entries
means that the result list is full and that each result has an entry in every
partition, the worst one too. Either way what the pool loses is too far.

**CSPG index.** `AlwaysOneSplit` (`OneSplit`) and `SearchAlwaysDefined`
(`SearchDefined`) hold for any number of partitions, any lambda below 1, any sizes of
an `add`, every sample and every deal. The invariant `LifeInv` says that an index is
empty or what *one* `add` made of it, all of it unless that threw, and that a stream
holds a whole index. After a throw `global_to_local` may lack entries, but has none of
another split, since `reset` clears it: `add` itself would keep them (`resize`). The rest is about the operators: `InOrder` lists a finite set,
each member once (`InOrderIs`, from `RanksAre`: the ranks of `n` numbers are `0` to
`n - 1`), two such lists of disjoint sets one behind the other list the union
(`GluedIs`), so a partition holds the sample and what was dealt to it (`SplitIs`).
That `ReverseMap` finds each vector needs a least partition that has it
(`LeastExists`).

**SHG search.** `LevelsAlwaysExist` (`LevelsExist`), `ResultsAlwaysBest`
(`BestOfEvaluated`), `BeamAlwaysComplete` (`BeamComplete`) and `PruningAlwaysSafe`
(`PrunedIsFarther`) hold for any finite set of points, any graph whose lists lead to
points of their level, any skips, any `k` and `ef` and any size of the buffer.
The invariant `IInv` says of each point that was looked at where it is. It was
evaluated, waits in the buffer, or was pruned, and in one of these places only
(`BufferOK`). An evaluated point is among the results, or these are full and none
is farther (`ResultsOK`). It waits in the pool, was expanded, or has `ef`
evaluated points as near (`BeamOK`). The last is what makes the beam complete: the
pool has `ef` places, and an entry is only evicted by a full pool of points as near,
dead ones among them. Since no point is twice in the pool (`PoolOK`), they are
`ef` different ones, which `count_below` will find too. `PrunedOK` is about a threshold
that lags behind: it was read before the points in the buffer were evaluated, so it
is no smaller than it should be, and only shrinks. `PruningAlwaysSafe`
assumes `LowerBoundHolds`, that `eta^L` times the coarsest distance is no more than
the distance (`IndexSHG.cpp:276`). This is an inequality about sums of squares. `MCSHGSearch!WholeBlocks`
evaluates it for the vectors of the run, where `eta^L` divides `d`, and it is false
for some others, see 6.

**SHG index.** `RepsAlwaysInStep` (`RepsInStep`) and the action property
`PermuteAlwaysKeepsGraph` (`PermuteKeepsGraph`) hold for any vectors, levels, links and
permutations. The first keeps track of the number each vector was added under
(`origin`), since that is the slot its compressed vector stays in. The second says that renaming is sound although `permute_entries`
walks the new numbers with the old lists: each link leads from the new number of a
point to the new number of its neighbour, and the entry point moves along.

**Concurrent insertion.** `HNSWProofs` proves the four invariants and the
action property of `HNSWInsert` for any finite or infinite set of threads, any adds
of any number of points and levels, lists of any size and any number of interrupts.
All assume `QuietAdds`, which is about the input only: after the first, no add has
more than `ParMin` points (100 in the code) at its top level, if that lies above the
tops of all earlier adds. The code does not see to that, and without it `ListsSound` is
false (section 6, *HNSW*), so the theorems say for which use of the index the insertion
is right: every first add, every add whose points do not rise above the graph, and
every add in which at most 100 do on the highest new level.

From `QuietAdds` follows `NoSharedRise`, that no two threads share a batch above all
the points there are (`RiseStep`, `AlwaysOK`). Since adds may be interrupted, this
needs that an add that ends has left a point at its top level (`RisenOK`): the flag of
the callback is raised only after a point was added, and the top comes first.

The inductive invariant `IInv` has three layers. `DriverOK`, `ThreadsOK` and
`EntryOK` say what the barrier between the levels gives: each thread has a point
for itself, walks at levels that its nearest point has, and the entry point is on
top but for a thread that is about to write it. `LocksOK` is the lock discipline,
from which follows that a list which was read under the lock is still the list
(`copy`). The graph comes last. `GraphOK` says that what is linked, met or about to
be linked at a level has that level, although the points of the running batch
are in lists before they are inserted. `OnceOK` says that a point that is still to
be linked back does not know the new point yet, and `PairsOK` that each link with
one side missing overflowed or is still in the hands of a thread. `GroundOK`
is for `NoDeadEnd`: the first point of all has no link until the second has
one, and everybody on the base level can only link to it. `WaitersHoldNothing`
(`NoWaitHolding`) is the reason for `Terminates`: a thread that waits for a lock
holds none.

**The candidate pool.** `HNSWProofs!HeapIsPool` is `HeapSpec => ImplementsPool`, for
every size of the heap, any ids and any distances: what the models of the CSPG and
SHG searches assume of `MinimaxHeap` holds of the array heap. A push and a pop are
the same thing, a hole that moves along a path until it stays. `PathLeads` says of
any such path whose hole only moves on to higher ranks (the places towards the root
in a push, away from it in a pop) that it ends, at one place, and that no two places
of it go on to the same; a path of any length exists because a least length without
one does not (`GoesExists`), so no induction over an operator is needed.
`ShiftPermutes` concludes that the array is permuted, nothing lost and nothing
twice. The inductive invariant `HeapInv` needs less than the code seems to promise:
`HeapOrder` orders fathers and children by distance only, since `pop_min` overwrites
ids that `cmp2` compares among equal distances. That is enough for a farthest one at
the root (`RootFarthest`), which `push` compares with and throws out. `CountsOK`
keeps `nvalid` equal to the number of live candidates, live and dead roots evicted
alike; with it `PopFindsOne` says that `pop_min` never comes back with -1 while
`size()` is positive, on which the search loops rely (`HNSW.cpp:653-655`).

**Worker threads.** `ThreadedIndexProofs` proves `FuturesKept`, `NoLateTask` and
`SearchExact`, the first two for any finite set of workers, any callers, every
kind of collection and tasks that raise anywhere. `WorkerInv` is about one worker: a future is pending exactly when
its task is in the queue or runs, each task is there once, and a thread
is gone only with an empty queue. This is where the flush outside of the mutex
matters: nothing enters the queue once `wantStop_` is set. `CallsOK` is about
the calls: by its phase and position a call tells which of its workers may still
have work of its own (`Left`), and which have ended (`Passed`). `Compatible` says
which calls are open side by side, namely searches, or on a plain worker
anything with an `add`. `Owned` says that each living thread belongs to the
collection or to an open call.

`SearchExact` needs `DeepInv` beside it, about contents and answers. `Holds` says
what the sub-indexes of a collection have between them: each replica all numbers in
order; the shards each number in one place; with successive ids one shard goes on
where the one before it ended. Each end of a call keeps it, or sets `dirty`:
an add because the cuts of a batch go from 0 to its size without a gap (`CutIs`,
`HoldsAdd`), a new or a removed index because it is empty or a replica
(`HoldsAppend`, `HoldsRemove`). While an add is under way the workers are at
different points, so `AddOf` says that there were contents that `Holds` is true
of, and that exactly those who have answered have their share on top. `SawOf` says
that the results of a search are those of the contents as they are, since nothing
changes them while it is open; `AnswersOf`, that nobody was refused and all have
answered when the call returns; `StopsOK` is why nobody is refused. From `Holds` and
`SawOf`, `ExactIs` concludes: the shares of the queries are disjoint and
exhaust them (`OneAsked`), and the shifted labels are the numbers (`InARowHave`).
The running sums of the sizes are a recursive function. That there is one and
only one is shown by the least place where there would be none, or two
(`SumsExist`, `SumsUnique`), so no induction over an operator is needed.

**Model-checked only**, and why:

- All liveness. TLAPS has no rules for fairness.
- `ImplementsStore` of `OnDiskLists`. It is true of some sizes only: `ondisk_shrink`
  refutes it for ids of 8 bytes and codes of 1.
- That the lower bound of SHG is one (`LowerBoundHolds`): it rests on sums that
  `MapThenSumSet` folds, that is, on induction over data.

## 6. What the models say about the code

**Shown by a run.** `ondisk_shrink`: when a list shrinks, `resize_locked` gives its
slot back before it looks for a new one (`OnDiskInvertedLists.cpp:452`), with as
many *bytes* as the list had room for *entries*. If the cut list fits into that, it
gets the same offset, and then the "copy common data" step is skipped (469). But
the ids lie behind `capacity` codes, and the capacity has changed: `get_ids` now
points into the old codes. With codes of one byte, 9 entries cut to 1 are enough.

**Found with the models, without a run of their own.** Each can be reproduced by
the change named.

- *Inverted lists on disk.* The same byte count makes every list that moves leave
  most of its bytes unused for ever. `merge_from_multiple` makes a free slot of the
  whole file over the lists it fills. A list that is added to afterwards is put on
  top of others, or `free_slot` fails an assertion. `OnDiskInvertedLists.h:49-50,
  102-103` says that the merged lists are "in compact form (without allocating
  slots)", for which "there are no available slots" (`AddToMerged = TRUE` in
  `ondisk_lists.cfg`).
- *SuCo.* `IndexSuCo::add` appends to `xb` before it assigns the vectors, subspace
  by subspace, through a kernel that throws when the interrupt callback fires.
  Nothing is rolled back, so `xb` is longer than `ntotal * d` says
  (`IndexSuCo.h:166-168`), and an `add` that is called again pushes the ids a second
  time, under which `rerank` finds the vectors of the add that failed (invariant `VectorsMatchCount` in
  `suco_index.cfg`). Until then some lists hold ids from `ntotal` on, for which `search`
  has no place in its array of `ntotal` scores (`IndexSuCo.cpp:400`). And
  `read_index` does not clear `is_trained` first: one that stops in an index that was
  open leaves it open, with fields of two indexes. `suco_index` shows that `reset`,
  `train` or a complete read cures all this.
- *HNSW.* `add_with_locks` reads `entry_point` in a critical section and
  `max_level` later without one, while another thread of the batch writes both. A
  point may begin its search at a level that its entry point does not have
  (`HNSW.h:130`: "one of the points with maximum level"), and then reads and writes
  the lists of another point. It takes an index with points and a later add with
  more than 100 points on one level above all of them (`Adds <- MCAddsRaise` and
  invariant `StartHasLevel` in `hnsw_insert.cfg`).
- *SHG.* The lower bound of the pruning is sound only when `eta^L` divides `d` (with
  `eta` = 2 that is not so for `d` = 100, 420, 960). A last block of fewer
  coordinates counts as a full one, and a vector nearer than the current results
  can be skipped (`D = 5` and `Data <- MCDataOdd` in `shg_search.cfg`).
- *Shards and replicas.* A task of an add that throws leaves the sub-indexes
  different and `ntotal` as it was, and the next add gives the same ids again. The
  same holds when a shard with vectors is removed. A replica that `onAfterAddIndex`
  refuses (`IndexReplicas.cpp:51`) stays in the collection, since it was put there
  before (`ThreadedIndex-inl.h:79-86`). `SearchExact` holds with these exceptions
  (`dirty`), and only `reset` ends them.

Four more that the models describe as they are:

- A CSPG index of one vector has no routing vector. With the fixed seed and two
  partitions the vector goes to partition 1, while search starts in partition 0:
  it is never found. `SearchDefined` says that two vectors are enough.
- `IndexSHG` inherits `permute_entries`, which permutes the storage and the
  graph but not `compressed_vecs`. `IndexHNSWFlatPanorama` overrides it for this
  reason (`IndexHNSW.cpp:700`). `RepsInStep` says where the compressed vector of each vector
  is: in the slot of the number it was added under (`origin`), which after a permutation
  is not its id. `build_shortcut` does not cure it.
- After `IndexCSPG::add` threw, `ntotal` counts vectors whose partitions do not
  exist. `SearchDefined` holds with this exception (`failed`); only `reset` or a
  new object cures it, and does so completely (`OneSplit`).
- `IndexHNSW::add` lets the storage and `ntotal` grow before the graph
  (`IndexHNSW.cpp:351`). After an interrupt `ntotal` counts vectors that no search
  finds, and a second call adds them again. The graph alone stays sound.

## 7. Limits

- *Floats.* Rounding is not modelled. `candidate_num` is computed in `float`
  (`IndexSuCo.cpp:576`), which above 2^24 vectors may make it smaller than `k`.
  `SumsBelowSentinel` excludes distances that overflow to `FLT_MAX`.
- *Widths.* The 32-bit code of a (partition, local id) in `IndexCSPG.cpp:314` is
  a pair in the model.
- *Undefined behaviour.* Writing a CSPG index without vectors reads an element of
  an empty vector. `Write` is modelled for an index that has some.
- *HNSW distances.* `HNSWInsert` lets a search choose any points it met, so it
  says what links exist, not how good they are. A list that is read while it is
  rewritten is the mix of two reads of it. `init_level0 = false` (set only
  where `GpuIndexCagra.cu` and `GpuIndexBinaryCagra.cu` make a copy) is not modelled; `keep_max_size_level0`
  only chooses among the outcomes that `AddLink` allows anyway.
- *SHG parameters.* `SHGSearch` assumes `maxFixLevel_ > 0`; without it `search`
  is that of `IndexHNSW`. `eta` is a public field that the tables do not follow.
- *`SHGIndex`* inserts the points of an add at once, and its calls do not throw. What
  threads may do to each other is in `HNSWInsert`.
- *Lists on disk.* Searches read lists through `get_codes` and `get_ids` without
  the lock, which is
  not modelled; only the prefetch reads under it. A write of a list and a read of it through `memcpy` are one step
  each. `crop_invlists`, `set_all_lists_sizes`, the I/O hook and a file that cannot
  be grown are left out. `resize` cuts a list and does not lengthen it: nothing under
  `src/` lengthens an `OnDiskInvertedLists` with it (`IndexIVFFlat.cpp:435` and
  `DirectMap.cpp:183, 213, 249` cut; `IndexIVFFastScan.cpp:188` resizes
  `BlockInvertedLists`), and new entries come through `add_entries`. Lists are not added to after a merge.
- *Worker threads.* Sub-indexes are trained and raise before they change anything.
  `train`, ids given by the caller, the unthreaded mode, the k nearest of the
  merged results and `own_indices` are left out. A search of an `IndexShards` with
  successive ids and without shards writes to an empty vector
  (`IndexShards.cpp:214`) and is not started. As the header says, only searches run
  at the same time.
- *Other hazards outside of the models.* `VisitedTable` marks with one byte and is
  wiped every 254 queries (`VisitedTable.cpp:33`); the searches take it as a set.
  `DirectMapAdd` does not set `ntotal` for a hash table (`DirectMap.cpp`).
- Not modelled: stage 1 of the CSPG search (any entry of partition 0 stands for
  it), the density criterion and the piecewise linear fit of the SHG shortcut
  (any accepted skips, any samples), the extra stream of SHG, the wrappers of
  the SuCo searches, and upstream FAISS beyond what is named above.

## 8. Plan

The order was: the traversals of SuCo, as the most intricate code with the
strongest claim; the SuCo index and its re-ranking; the pool and the CSPG search;
the concurrent insertion; SHG; then the two parts of FAISS with locks of their
own, the lists on disk and the worker threads. What is left, in order of value:

1. *Proofs.* That the compressed distance of SHG is a lower bound
   (`LowerBoundHolds`), as far as its sums can be stated as running sums.
2. *HNSW search*: `search_from_candidates` and the unbounded variant over a frozen
   graph, as an instance of one abstract beam search that CSPG's stage 2 and
   SHG's base level also implement.
3. *Index composition*: `IndexHNSW::add` with its storage.
4. *SHG shortcut training*: `get_nearest_by_level` and the order in which samples
   of equal distance are kept; the extra stream.
5. *CSPG stage 1*, and the 32-bit codes.
6. *IVF*: `DirectMap` with its lists, `add` and `remove_ids`, over the store that
   `OnDiskLists` implements.

## 9. Running it

```
tlc -workers 2 -config imi_traversals.cfg MCImiTraversals.tla
tlapm ImiTraversalsProofs.tla
```

`PROJECT.json` names the module, the configuration and the properties of each
run, and for each property the mutant that breaks it. The longest run takes about
a minute, the proofs of the insertion, of SHG and of the worker threads one to three minutes
each, the others less.
