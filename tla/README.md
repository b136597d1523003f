# Interval readers-writer locks: a TLA+ verification project

`interlock` is a Rust crate that locks *intervals* of a slice for reading or
writing. Its README describes the lock as an array of virtual readers-writer
locks, one for each index; a range is locked in ascending and unlocked in
descending order. The implementation keeps no such array: three intrusive
red-black trees hold the borrows and the waiters, and a mutex, park tokens or
wakers connect them to threads and tasks. This directory models that
implementation, model-checks it with TLC on small instances, and proves with
TLAPS that its safety properties hold for any number of locks, indices,
priorities, threads and tasks, those of the red-black tree for trees of any
size, and that the core running on its three trees does what the model without
trees says.

## Inventory

| Component (source under `src/src/`) | State | Operations | Called by / calls |
|---|---|---|---|
| Core, `core/rbtree.rs` | trees `reads`, `writes`, `pendings`; in each lock-state object the cells `parent`, `read`/`write`, `pending` | `lock_read`, `lock_write`, `try_lock_*`, `unlock_*`, `inspect_*` | called with `&mut self`; calls `LockCallback` once when locking and `UnlockCallback::complete` in the middle of the unlock loop |
| Red-black tree, `utils/rbtree.rs` | colour, links and subtree summary of each node | `insert`, `remove`, `lower_bound`, `predecessor`, `prefix_sum` | called by the core only |
| Blocking lock, `raw/sync.rs`, `utils/pinsync.rs` | mutex around the core; for each waiter a flag on its stack and a thread handle | `lock_*`, `try_lock_*`, `unlock_*` | threads; parks and unparks |
| Future-oriented lock, `raw/future.rs`, futures in `hl/slice.rs` | mutex around the core; for each waiter an `Option<Waker>` | `start_lock_*`, `poll_lock_*`, `try_lock_*`, `unlock_*` (also as cancellation) | tasks of any executor; wakes wakers with the mutex held |
| Single-threaded lock, `raw/local.rs` | a `PinCell` around the core | fallible methods; "blocking" ones that panic instead of waiting | one thread |
| Slice container, `hl/slice.rs` | container, cached pointer, raw lock | `read`, `write`, `try_*`, `async_*`, guards; `replace_container`, `update_container` under `Pin<&mut Self>` | user code; checks `start <= end <= len` |
| State holders, `utils/pin*.rs`, `utils/panicking.rs` | lazily pinned storage | construction, early drop that panics if still linked; abort on unwinding | all of the above |

What is hard here, and what the properties are for:

* **The unlock loop** (`unlock_read_inner`, `unlock_write_inner`). It walks the
  waiters inside the released range backwards, gives the range up piece by
  piece, and resumes each waiter in turn, which takes nodes out of the tree it
  walks, puts them back elsewhere, and notifies clients that may run at once.
  No waiter may be skipped (nobody else would ever resume it), served out of
  order, or given something that is still borrowed.
* **Partial borrows.** Everybody who waits holds the beginning of the range and
  may be what others wait for. Progress and the absence of deadlock are not
  local facts.
* **Cancellation.** An asynchronous lock can be given up in any state.
* **Two-step notification.** The unlocking thread sets a flag on the waiter's
  stack and then unparks it; the waiter may load an old value, wake up
  spuriously, find an old token, or be gone before the unpark. The flag is
  accessed with `Ordering::Relaxed`.
* **Wakers** that have to follow a future from one task to another.
* **Builds without debug assertions**, in which empty ranges get into the trees.
* **The trees themselves.** Removal from a red-black tree climbs through cases
  that are `unreachable_unchecked`, hence undefined behaviour, if an invariant
  is off; subtree summaries are kept by differences; `writes` is sorted by
  `start`, searched by `end`, and changed in place.
* **Lifetimes and panics.** The nodes live in the clients' state objects. A
  forgotten guard, a panic inside a method (which poisons the blocking lock's
  mutex), a destructor that panics, a closure that panics half-way through an
  update of the container: each changes the order in which guards, state
  objects, containers and locks end.

`PROJECT.json` lists these hazards with their source lines and the properties
that would catch them going wrong.

## Modules

| Module | Models | State and actions |
|---|---|---|
| `VirtualLocks` | the promise: README "Design" and `refr::RwLockSet` of `core/rbtree/tests.rs` | `held[l]`, the indices `l` owns. `lock`, `resume` advance as far as possible; `Release`, `unlock` give up, highest index first |
| `RbTreeCore` | `core/rbtree.rs` | one variable for each cell of a lock-state object, `older` for the insertion order of equal nodes, `op` for the locals of the unlock loop. One action for each method, one for each step of the loop (`Truncate`, `resume_borrow`, `FinishUnlock`) |
| `SyncRwLock` | `raw/sync.rs` and the mutex of `utils/pinsync.rs`; extends `RbTreeCore` | `phase`, the control point of a thread in its lock method; `complete`, `token`, `unparking`; four variables for the happens-before order. Locking, load, park, spurious wakeup, store, unpark are separate actions |
| `AsyncRwLock` | `raw/future.rs` and the futures and guards of `hl/slice.rs`; extends `RbTreeCore` | `future`, `waker`, `poller`, `woken`. `StartLock`, `Poll`, `AsyncTryLock`, `Drop`, and the loop with `WakeOwner` |
| `LocalRwLock` | `raw/local.rs`; extends `RbTreeCore` | `refused`, the request the last call turned down and how. `LocalLock`, `Refuse` (return `false`, or panic as deadlocked, also with a state object that is in use), `LocalUnlock` |
| `RbTree` | `utils/rbtree.rs` | operators on a tree value (root; children, parent, colour and summary of each node; `ok`, cleared by a failed assertion, a failed `unwrap` or an unreachable arm): the straight-line parts, `rotate`, the exchange with the predecessor, unlinking, and the body of each loop with what follows it (`FixRemoveBody`, `FixRemoveNext`, ...). No recursion |
| `OrderedTree` | the same bodies as a step machine; extends `RbTree` | `tree`, and `before`, the total order it stands for; `pc`, the loop that runs, with its cursor and locals. One action for each operation's beginning and one for each loop, a step being one turn. `LoopInvariant`. `TreeNext` calls the operations in any order, as the test `qc_btree` does |
| `TreeCore` | `core/rbtree.rs` on its trees; extends `RbTreeCore`, with three instances of `OrderedTree` | the variables of the three trees; `stage`, `ask`, `lowest`, `found`, `upcoming`, the locals of the method that runs; `todo`, the insertions and removals it has yet to make. One action for each search, decision and change of the methods, one step being at most one turn of a tree loop |
| `SliceLock` | `hl/slice.rs`, `utils/pin.rs`, destructors of `core/rbtree.rs`, poisoning of `utils/pinsync.rs`; extends `RbTreeCore` | `storage` and `view` of each state object and its guard, `container`, cached `ptr`, `setting` (panic strategy, kind of mutex, habits of clients), `place` (is there a lock at the lock's address), `poisoned`, `running`. Making, locking, dropping and forgetting state objects, guards, containers and locks, and every panic among these |
| `MCCore`, `MCSync`, `MCSyncLive`, `MCAsync`, `MCLocal`, `MCTree`, `MCTreeCore`, `MCSlice` | instances for TLC | `MCSyncLive` adds a counter that ends the workload |
| `RbTreeCoreProofs`, `ClientProofs` (of `SyncRwLock`, `AsyncRwLock`, `SliceLock`), `LocalProofs`, `TreeProofs`, `OrderedTreeProofs`, `TreeCoreLemmas`, `TreeCoreSearches`, `TreeCoreProofs` | theorems | |

How the models correspond to the code:

* **Trees.** A node is in a tree exactly when the cell that stores it is not
  `None`, so the trees' contents are functions of the cells (`Reads`, `Writes`,
  `Waits`). `Before` is `PendingNodeCallback::cmp_element`, ties included:
  `older[l]` records which nodes were inserted before `l`'s. Searches are
  modelled by what they compute on a sound tree: the first write node by
  `lower_bound`, the number of readers at an index as the difference of starts
  and ends (`prefix_sum`), the maximum and the predecessor (`IsMax`). That this
  is what the trees yield is checked and proved: `TreeCore` decides by what it
  finds in the trees and implements `RbTreeCore` (`ImplementsCore`).
* **Tree operations.** A loop of the code is an action of `OrderedTree` that makes
  one turn. What removal leaves in the fields of an unlinked node is dropped,
  since insertion overwrites all of it but the summary, which the core resets
  itself before it inserts the node again; it is the weight of the node.
  Comparisons are passed in by their outcome, as the set of nodes that come
  after the key: `cmp_element` and the predicates of `lower_bound` are such sets
  in `TreeCore`, computed from the cells as they are at that moment (`Upward`
  is what the tree needs of them, which `TreeCore` has to establish).
* **The core on its trees.** A method of `TreeCore` searches, decides, changes the
  cells as in `RbTreeCore` (`LockAt`, `Grant`, `UnlockAt`, `ResumeAt` are shared
  by the two, with the conflict and the next node as parameters), and then makes
  the changes to the trees in the order of the code, from the queue `todo`
  (cancelling comes before the search for the first waiter to visit). In the
  code the cells and the trees change in turn: removal from a tree comes before
  the change of the node's element. Removal looks at no element, only at
  its weight, which never changes, so that changing the cells first is the
  same. Where a write borrow's `end` is changed in place, there is no job.
* **Grain.** `&mut self` excludes other operations of the core, so locking is
  one step. Unlocking is one step for each truncation and each resumption,
  because a client notified by one of them runs concurrently with the rest. In
  the code the callback precedes the expansion of the notified borrow; both are
  one step here, as nobody can look at the trees between them.
* **Mutex.** In `SyncRwLock` and `AsyncRwLock` the mutex is held exactly while
  `op` is not `None`, or within one step. No method waits with the mutex held.
* **Empty requests.** `DebugAssertions` says whether `debug_assert!` is
  compiled in. With it an empty range panics before anything has changed;
  without it `RbTreeCore` lets empty *read* ranges in (`MayLock`). What an empty
  *write* range does depends on the shape of the tree; `TreeCore` lets both in.
* **Lifetimes.** The borrow checker's rules are guards of `SliceLock`'s actions:
  a guard or future borrows its state object and the lock; replacing the
  container or ending the lock needs that nobody does. `mem::forget` ends these
  borrows without a destructor. A panic ends the operation; with `PanicAborts`
  it also ends the program, otherwise somebody catches it, or its thread ends,
  and the rest goes on. A value whose destructor panics is gone all the same. An
  address is used again only when no node at it is in a tree. `Poisoning` tells
  the blocking lock (std mutex) from the other two. Waiting threads keep their
  guard-to-be in `view`, but can neither drop nor forget it.
* **Memory order.** `seen[t]` is the set of elements whose last write
  happens-before `t`'s next step; writing through a guard removes the elements
  from everybody else's set. Acquiring the mutex or consuming a token adds what
  the releasing side had seen; a relaxed load adds nothing, and may return the
  old value as long as the store is not ordered before it (`flagSeen`).

## Runs

| Run | Instance | Shows |
|---|---|---|
| `core` | 1 reader, 2 writers, 1 fallible lock of each kind, 3 elements, 2 priorities | exclusion (of guards and of partial borrows), request = borrowed + pending, no lost wakeup, no deadlock, drop validation, service order, nobody but the released lock loses anything; the inductive invariant; the core implements `VirtualLocks` |
| `core_release` | 1 reader, 1 writer, 2 elements, no debug assertions | *violated*, see below |
| `sync` | 3 threads with one lock each, 2 elements | grants, exclusion, flag lifetime, no lost unpark, memory order on all paths but one |
| `sync_shared` | 2 threads, each with a blocking and a fallible lock, 2 elements | a granted lock is returned to its thread; the unlock loop ends, also when a waiter it resumes gets nowhere |
| `sync_live` | 3 threads, 2 elements, at most `MaxCalls` = 4 lock calls | every waiter gets its lock |
| `sync_relaxed` | 2 threads, 1 element | *violated*, see below |
| `async` | 3 locks and a fallible one, 2 tasks, 2 elements | no lost and no stray wakeup, exclusion under cancellation; a completed lock resolves its future |
| `local` | 2 readers, 2 writers, 4 elements | a call is refused, or panics as deadlocked, only for a lock the caller holds |
| `tree` | trees of any of 4 nodes in any order, of the first 7, and of up to 10, there with equal keys; weights with distinct sums; one step is one turn of a loop | the loop invariant in every turn (links, order, summaries, colours and black heights, up to the one place the loop has yet to repair), no unreachable arm, exact summaries, queries and prefix sums equal to those of the reference order |
| `tree_core` | 1 reader, 2 writers, 1 fallible lock of each kind, 2 elements, 2 priorities; one step is one turn of a tree loop | sound trees with the right nodes and sums; conflict searches as `RbTreeCore` defines them; the debug assertions of `first_read_borrow_in_range`; every step is one of `RbTreeCore` or changes no cell, so that the loop visits the waiters that `RbTreeCore` says although the tree changes under it |
| `empty_writes` | `TreeCore` with 4 fallible writers, 2 elements, no debug assertions | *violated*, see below |
| `slice` | 2 writers and 2 fallible locks, one of each boxed; 2 elements; 14 of the 16 settings: panics that abort or unwind, with and without poisoning, forgotten guards, panics of `deref_mut` | no destroyed node in a lock that can be used, or in a tree that is walked; no confusion of locks at one address; guards point into the present container; each under the condition it states, see below |

**Bounds.** The interesting cases of the core need two locks waiting at the same
index, one waiting behind a partial borrow of another, and a resumption that
stops at a second conflict: three blocking locks that wait for a fallible one on
three elements have all of them, and two priorities separate priority from
arrival. Memory order and notification are per lock, so that two elements and
one holder, one waiter and one newcomer suffice. Ten nodes make trees of black
height three, in which a removal fixes more than one level and every case of the
fix-up occurs, which its mutant (one level only) confirms. The constraint
`Bounded` of `MCTree` leaves out trees between the small and the large ones,
except those on the way, and asks queries of the small ones; the theorems about
`OrderedTree` need neither. In `tree_core` `reads` gets four nodes, `writes`
two and `pendings` three, and a waiter that a resumption moves is put back on the
other side of one with another priority; larger trees are left to the theorems,
which have no bound. For lifetimes one state object of each kind
suffices, pinned and boxed, with `MaxGen` = 2 changes of the container. The
theorems remove the bounds for all safety properties. The only bounds in guards
are `MaxCalls` and `MaxGen`.

**Fairness.** An operation inside the core neither blocks nor waits, hence weak
fairness of the steps of the loop. Threads that can run are scheduled (weak
fairness of the load and of `park` returning once there is a token); spurious
wakeups are never forced. A woken task is polled: weak fairness would not do,
because the mutex can be taken whenever the poll tries, so a fair mutex is
assumed by strong fairness. Nobody is forced to ask for a lock or to release
one, except in `sync_live`, where guards are dropped some time. That run needs a
finite workload: a newcomer can always take an index before a waiter is resumed
there, and the code does not claim otherwise.

**Deadlock** is checked in all runs but `sync_live`, which stops when the
workload is done, and `slice`, in which an aborted program stops.

### Where code and documentation disagree

* `core_release`. Emptiness is checked with `debug_assert!` only
  (`core/rbtree.rs:380`), and the slice layer accepts `start == end`. In a build
  without debug assertions, a reader locks `1..1`; a writer of `0..2` meets its
  endpoint nodes, takes 0 and waits at 1; unlocking `1..1` looks for waiters in
  `[1, 1)`, finds none, and removes the endpoints. Now the writer has the only
  borrow there is, and still waits, for ever, although "other interfaces maintain
  the incomplete borrow until it's [...] completed by the removal of a conflicting
  borrow" (`README.md:70`). `RemovalCompletes` says that: whoever waits, there is
  a conflicting borrow that has not been removed. With debug assertions it follows
  from `PendingBlocked`.
* `sync_relaxed`. A waiter that leaves its loop because it saw the flag, without
  having consumed the park token, has synchronized with nobody since it began
  to wait (`raw/sync.rs:121`, `:208`, both `Relaxed`). It is not ordered after
  the previous holder's writes, which the guard's "Safety: Upheld by a runtime
  check" (`hl/slice.rs:871`, `:888`) relies on. `OrderedAfterWriters` shows that
  this is the only such path: everyone who got the lock at once or through the
  token is ordered.
* `empty_writes`. Not panicking for an empty range is allowed "only to the extent
  that doesn't put soundness in jeopardy" (`core/mod.rs:33`). Without debug
  assertions empty write borrows enter `writes`, next to a longer borrow with the
  same start. The tree is sorted by `start` and searched by `end`
  (`core/rbtree.rs:304`, `:851`), the ends are no longer in order, and the search
  goes past the longer borrow: two writers hold the same index.

Three more promises of the documentation hold only in some of the programs that
can be built; `setting` in `SliceLock` tells these programs apart, and each
lifetime property says on what condition it holds. The run `slice` has all
settings but the two in which no condition is met: panics unwind, guards are
forgotten and `deref_mut` panics. Without its condition TLC finds each of the
properties violated at once.

* "(and dropping it will abort the program)", of the state object of a forgotten
  guard (`hl/slice.rs:731`, `:814`). It panics (`core/rbtree.rs:1369`). Where
  panics unwind, as they do by default, the storage goes and its node stays in a
  lock that can be used. So `NoDanglingNode` and `NoWalkOverDead` have the
  condition `ForgettingIsFatal`: if guards are forgotten, panics abort.
* "Panicking in the destructor prevents this issue" (`core/mod.rs:20`), namely
  that a state object is taken for one of a later lock at the same address.
  Where panics unwind it does not: the lock is gone after the panic, and the
  address can be used again. `OriginCorrect` has the condition `PanicAborts`.
* `update_container` "will **abort** the program if `Container::deref_mut`
  panics" (`hl/slice.rs:183`). It unwinds, unless the closure has panicked as
  well, and leaves the old pointer cached (`hl/slice.rs:217`). So
  `GuardsPointIntoContainer` has the condition `DerefPanicIsFatal`: if `deref_mut`
  panics, panics abort. A closure that panics, alone, is no exception.

## Proofs

The theorems about `IInv` and what follows from it assume `DebugAssertions`: that
no empty range is requested. The assumption is needed, as `core_release` shows,
and covers release builds whose clients never ask for one. `TypeCorrect`,
`SyncImplementsCore`, `AsyncImplementsCore`, `GuardsPointIntoContainerHolds`,
`SliceTypeCorrect` and all theorems about the tree do without it. Otherwise the theorems assume only what the named `ASSUME`s say of
the constants: finite, disjoint sets of state objects, natural numbers as
indices and priorities, a `None` that is none of the values; for the tree,
integers as weights, and that `WeightOf` is their sum (it is 0 of the
empty set, the weight of a single node, and additive for disjoint sets). TLC
evaluates these in every run.

**Core** (`RbTreeCoreProofs`). `IInv` is the inductive invariant. The stated
properties alone are not inductive: that nobody waits unblocked
(`PendingBlocked`) is false in the middle of an unlock loop, so
`LoopSkipsNobody` says what is true there, namely that every waiter is blocked
or still to be visited, and that all who wait inside what the loop still holds
are still to be visited. For that the frame must be consistent (`FrameOK`) and
the wait list totally ordered (`OlderOrder`). Lemmas first establish what the
searches return (`FirstWriteCorrect`, `PrefixSumCorrect`, `FirstReadCorrect`,
`FirstConflictCorrect`: the first index at which a conflicting borrow lies, and
none before it); then there is one lemma for each action. `DeadlockFree` follows
from `IInv` by taking the waiter at the highest index: whoever blocks it does
not wait. `NoOvertaking` and `OnlyUnlockShrinks` are action properties that
follow from `IInv` and the order in which the loop visits. Three theorems say that
the contents of the core's trees are fit to be searched: write borrows are in
the same order by start and by end (`WritesSortedHolds`), the first endpoint
above an index where the count of readers is zero is a start
(`UpperBoundsMatchedHolds`), and waiters are in a strict total order
(`WaitersInLineHolds`, which needs in addition that arrival is transitive).
Type correctness needs less than `IInv`, and has to, since empty read ranges
break `IInv`: `CellsIInv` says that a borrow ends before the place where the
rest waits and that the loop visits waiters above its start, so that no range is
ever inverted, in a build without debug assertions either (`ConflictInRange` is
the fact about the searches).

**Tree** (`TreeProofs`, `OrderedTreeProofs`). `TreeInvariant` says that there are
sets `below[n]` (the nodes of the subtree of `n`) and numbers `height[n]` (black
nodes on each path down) for which `LoopInvariant` holds: links agree in both
directions; each subtree is its node and two disjoint subtrees, inside which
parents stay; the children's subtrees lie on their sides of the node in the
reference order; each summary is the weight of the subtree, up to what the
running loop has yet to add or deduct on its path (`Expected`); no red node has
a red child, except at the cursor of the insertion's repair; all paths are
equally black, except below the cursor of the removal's repair, where one black
node is missing. `below` and `height` are witnesses that every lemma updates,
which takes the place of recursion over the tree; TLC checks `LoopInvariant` with
the sets and heights computed from the tree (`LoopsKeepInvariant`). The lemmas
go from the operations on links upward:

1. a rotation, with its effect on links, subtrees, order, summaries, heights and
   colours (`RotateEffect`, `RotateSound`, `RotateOrder`, `RotateSums`,
   `RotateBlack`, `RotateRed`);
2. a turn of each repair loop, case by case as in the code (`FixInsertTurn`,
   `FixRemoveTurn`): no assertion fails, no unreachable arm is reached, and the
   defect is gone or has moved up;
3. linking a leaf (`LinkLeaf`); the exchange of a node with its predecessor,
   which amounts to renaming two nodes (`SwapRenames`, `SwapTurn`), also when the
   predecessor is its child; unlinking a node with at most one child
   (`UnlinkTurn`);
4. one lemma for each action, `TreeStep` for all, and the theorems.

So the arms that are `unreachable_unchecked` are unreachable, the summaries are
exact whenever no operation is under way, and `lower_bound`, `successor`,
`predecessor`, `min`, `max` and `prefix_sum` return what the order says, whatever
the number of nodes and of equal keys. That the loops end is not proved.

**The core on its trees** (`TreeCoreLemmas`, `TreeCoreSearches`,
`TreeCoreProofs`). `TreeCore` implements `RbTreeCore` (`TreesRefine`), hence also
`VirtualLocks`. Its inductive invariant is the core's `IInv`, the loop invariant
of each of the three trees (`Trees`, by the theorems about `OrderedTree`, whose
assumptions on weights are proved of the weights used here), and `TreesIInv`,
which connects the two:

* The nodes that are linked now, without those still to be removed and with those
  still to be inserted, are the nodes in the cells (`WillHave`); no job is queued
  twice, and removals from a tree precede insertions (`Queued`).
* The nodes that stay are in the tree in the order in which the cells *as they are
  now* put them (`ReadsInOrder`, `WritesInOrder`, `PendingsInOrder`). This is
  where elements change in place: a write borrow grows or shrinks at its end
  while the tree is sorted by starts, the upper bound of a read borrow changes
  while its node is still linked but about to be removed, and a waiter's start
  changes likewise.
* A search or a walk is looking for what `RbTreeCore` says it should find, and
  the conflict found so far is the right one (`Searching`, `Unlocking`).

The proof has three layers. The first states of each of the three trees what
`OrderedTreeProofs` says of any: the start of an insertion or removal changes
the members and their order, no other step of a tree does (`Members`, `Order`
count a node in from the start of its insertion and out from the start of its
removal), and a query finds what it was to find. The second is about queues
(`JobTypes` to `BothDo`) and about searches: the order of `writes` by start is
one by end (`WriteSearch`), and the sum before the first endpoint above an index
is the number of readers there (`ReadSearch`, with `WeightUpTo`). The third has
one lemma for each action: those that leave the cells alone are in
`TreeCoreSearches`, those that change them in `TreeCoreProofs`, and the latter
(`DecideLockKeeps`, `UnlockAtKeeps`, `TurnTruncateKeeps`, `DecideResumeKeeps`,
...) rest on what an update of one lock's borrow or pending borrow does to the
order of the others (`BorrowUpdate`, `PendingUpdate`). `TreesStaySound`,
`SearchesAlwaysAgree` and `FirstEndpointIsAlwaysLower` follow from the invariant,
and `TreesKeepPromises` carries exclusion, the absence of lost wakeups and of
deadlock over.

**Refinement** (`RbTreeCoreProofs`). With `held[l]` the indices in `l`'s borrow,
every step of the core is a step of `VirtualLocks` or leaves it unchanged:
locking and resuming reach exactly as far as ascending locking (`ReachUpTo`),
and the pieces the loop gives up are unlocked from the top.

**Blocking and asynchronous lock** (`ClientProofs`). Each
implements the core's specification, so `IInv` and all its consequences carry
over. `SyncIInv` adds where the notification of a completed waiter is
(`NotificationSomewhere`), and that a thread waits for one lock at a time.
`AsyncIInv` adds that the stored waker belongs to the last poller.

**Memory order** (`ClientProofs`). `OrderedAfterWriters` is carried by
`MemoryIInv`: what has been written to an element that no writer's guard covers
is known to the mutex (`WritesWithMutex`), so that whoever takes it learns of
it; for a waiter that has been granted its lock, what was written to its range
is known to the token on its way, to the unlocking thread that is about to send
it, or to the waiter itself (`WritesWithWaiter`). The invariant has one lemma
for each action.

**Single-threaded lock** (`LocalProofs`). Since nothing is ever pending, a
conflict is always with a granted lock (`RefusalJustified`), possibly that of the
state object that is passed again; the core's invariant is preserved, and
exclusion with it.

**Lifetimes** (`ClientProofs`). Three inductive invariants, for three kinds of
settings. With panics that abort (`PanicAborts`), the core's `IInv` holds as long
as the program runs, and every claimed state object exists (`LifeIInv`), whatever
is forgotten; `OriginCorrect` follows, because linked and claimed are the same
between operations. Without forgetting (`~Forgetting`), `WalkIInv` says that a
node whose storage is gone implies a poisoned mutex, so that no later operation
gets to the trees. These two cover `ForgettingIsFatal`, and with it
`NoDanglingNode` and `NoWalkOverDead`. With `DerefPanicIsFatal`, `PtrIInv` says
that the cached pointer is up to date and that there is a guard only where there
is a lock. The conditions are part of the properties, so that the theorems
are about every setting. A setting is chosen in the initial state and never
changes, so each condition is one about the initial state. A fourth invariant,
`SliceCells`, carries the types through all settings (`SliceTypeCorrect`).

**Only model-checked:** the liveness properties (`UnlockTerminates`,
`GrantedReturns`, `EveryWaiterGetsIn`, `CompletedResolves`), since the prover
handles neither fairness nor `ENABLED`; and `LoopsKeepInvariant`, whose witnesses are
computed by recursion (`TreeCorrect` proves that there are witnesses).
Every other property of a passing run is stated by a theorem. The theorems about
`TreeCore` also assume `DebugAssertions`; what its trees do with empty ranges is
only explored, by `empty_writes`.

## Not modelled

* `abort_on_unwind` (`utils/panicking.rs`): a panic of a user's comparison or
  callback in the middle of a tree operation ends the program, and there is no
  state after it to speak about.
* Executors that poll a future from inside `wake()`, with the mutex held; the
  contract of `Waker` tells them not to.
* Guards sent to another thread. The core does not know threads; only the one
  who takes the mutex to unlock would change.
* Empty write ranges in the models that extend `RbTreeCore` without trees, where
  the outcome of a search cannot be said without the shape of the tree. `TreeCore`
  lets them in.
* The summary that removal leaves in a node: the core resets it before each
  reinsertion (`core/rbtree.rs:1027`, `:1266`), and the model passes the weight.
* Traits, macros and the crate root, `Debug` output, benchmarks.

## Plan

1. Done: `VirtualLocks`, `RbTreeCore`, `SyncRwLock`, `AsyncRwLock`,
   `LocalRwLock`, `RbTree`, `OrderedTree`, `TreeCore`, `SliceLock`; their runs and
   the theorems above, including those of the core on its trees.
2. Wait lists in `VirtualLocks`, so that the refinement carries the service
   order too (`NoOvertaking` is proved on the core directly).
3. Parked threads under poisoning: `SliceLock` has their state objects, not
   their phases in the park loop.
4. A variant for each loop of the tree, so that the loops are known to end.
5. The summary of an unlinked node as part of the tree, so that a missing reset
   would show.
