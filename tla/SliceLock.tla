----------------------------- MODULE SliceLock -----------------------------
(***************************************************************************)
(* The lifetimes around the core: `SliceIntervalRwLock` of hl/slice.rs,    *)
(* its container, its guards and futures, and the state objects, pinned in *)
(* an `EarlyDropGuard` (utils/pin.rs) or boxed together with their guard.  *)
(* The nodes of the core's trees live in the state objects, so the order   *)
(* in which guards, state objects and locks end is a matter of the trees'  *)
(* integrity, and so is every panic that changes that order.               *)
(*                                                                         *)
(* The borrow checker's part is in the guards of the actions: a guard or a *)
(* future borrows its state object and the lock; the container and the     *)
(* lock's end need exclusive access.  `mem::forget` ends these borrows     *)
(* without running a destructor.                                           *)
(*                                                                         *)
(* A panic unwinds to somebody who catches it or ends its thread only; the *)
(* rest of the program goes on.                                            *)
(***************************************************************************)
EXTENDS RbTreeCore

CONSTANTS
  Boxed,     \* the state objects of the *_boxed methods
  Settings,  \* the settings a program may be built and used in
  MaxGen     \* bound: the number of allocations a container goes through

VARIABLES
  setting,    \* the setting of this program; it never changes
  storage,    \* storage[l]: what there is of the state object l
  view,       \* view[l]: the pointer in l's guard or future, or None
  container,  \* the container: which allocation it points to and its length
  ptr,        \* the cached pointer to the elements
  place,      \* whether there is a lock at the address of the lock
  poisoned,   \* the mutex has been poisoned
  running     \* the program has not been aborted

lifeVars == <<storage, view, container, ptr, place, poisoned, running>>
sliceVars == <<vars, lifeVars, setting>>

Poisoning   == setting.poisoning     \* the core is in a std Mutex (raw/sync.rs)
PanicAborts == setting.panicAborts   \* a panic ends the program (panic = "abort")
Forgetting  == setting.forgetting    \* clients forget guards and futures
DerefPanics == setting.derefPanics   \* Container::deref_mut may panic

\* EarlyDropGuard: not there, there without its inner object, or with it; a
\* box that was forgotten stays.
Storages == {"none", "empty", "inner", "leaked"}

\* Container: DerefMut<Target = [Element]> + StableDeref.
Containers == [gen : 0..MaxGen, len : Indices]

ASSUME SliceAssumption ==
  /\ Boxed \subseteq Locks
  /\ Settings \subseteq [poisoning : BOOLEAN, panicAborts : BOOLEAN,
                          forgetting : BOOLEAN, derefPanics : BOOLEAN]
  /\ MaxGen \in Nat
  /\ None \notin Containers

SliceTypeOK ==
  /\ TypeOK
  /\ storage \in [Locks -> Storages]
  /\ view \in [Locks -> Containers \cup {None}]
  /\ container \in Containers /\ ptr \in Containers
  /\ place \in {"lock", "free"} /\ setting \in Settings
  /\ poisoned \in BOOLEAN /\ running \in BOOLEAN

\* SliceIntervalRwLock::new; the state objects come later.
SliceInit ==
  /\ Init
  /\ setting \in Settings
  /\ storage = [l \in Locks |-> "none"]
  /\ view = [l \in Locks |-> None]
  /\ container \in {c \in Containers : c.gen = 0}
  /\ ptr = container
  /\ place = "lock"
  /\ poisoned = FALSE /\ running = TRUE

\* The panic of an operation.
Panic == running' = ~PanicAborts

\* l's node or nodes are in the trees.
Linked(l) == borrow[l] # None \/ pending[l] # None

\* l is not in the hands of an unlock method.
Released(l) == op # None => op.lock # l

\* Nobody borrows the lock: no guard, no future, no method in progress.
Unborrowed == op = None /\ \A l \in Locks : view[l] = None

-----------------------------------------------------------------------------
(* State objects *)

\* EarlyDropGuard::new: a new, empty state object.  An address is not reused
\* while a node at it is in a tree.
NewState(l) ==
  /\ running
  /\ l \notin Boxed /\ storage[l] = "none" /\ ~Linked(l)
  /\ storage' = [storage EXCEPT ![l] = "empty"]
  /\ claimed' = [claimed EXCEPT ![l] = FALSE]
  /\ UNCHANGED <<borrow, pending, older, op, client, guard>>
  /\ UNCHANGED <<view, container, ptr, place, poisoned, running>>

\* get_or_insert_default: the core reaches the inner object of a pinned state
\* object, which is created when it is first needed.
get_or_insert(l) == [storage EXCEPT ![l] = "inner"]

\* The state object l is there to be passed to a lock method; a boxed one is
\* made by the method itself.
Available(l) ==
  /\ running /\ place = "lock"
  /\ view[l] = None /\ Released(l)
  /\ IF l \in Boxed THEN storage[l] = "none" /\ ~Linked(l) ELSE storage[l] \in {"empty", "inner"}

\* early_drop panics if the state object is still claimed.
EarlyDropPanics(l) == storage[l] = "inner" /\ claimed[l]

\* Mutant of DropState: early_drop does not look at `parent`.
BugDropStateUnchecked(l) ==
  /\ running
  /\ storage[l] \in {"empty", "inner"} /\ view[l] = None /\ Released(l)
  /\ storage' = [storage EXCEPT ![l] = "none"]
  /\ UNCHANGED <<vars, view, container, ptr, place, poisoned, running>>

\* A state object is dropped after its guard; the storage is gone afterwards
\* even if early_drop panics.
DropState(l) ==
  /\ running
  /\ storage[l] \in {"empty", "inner"} /\ view[l] = None /\ Released(l)
  /\ storage' = [storage EXCEPT ![l] = "none"]
  /\ IF EarlyDropPanics(l) THEN Panic ELSE UNCHANGED running
  /\ UNCHANGED <<vars, view, container, ptr, place, poisoned>>

-----------------------------------------------------------------------------
(* Locking *)

\* SliceIntervalRwLock::slice: the bounds check, against the cached length.
slice(r) == r.end <= ptr.len

\* The pointer that goes into the guard was made before the lock was asked for.
MakeGuard(l) ==
  /\ storage' = get_or_insert(l)
  /\ view' = [view EXCEPT ![l] = ptr]
  /\ UNCHANGED <<container, ptr, place, poisoned, running>>

\* Mutant of MayEnter: a poisoned mutex is locked all the same.
BugEnterPoisoned(l, r) == Available(l) /\ slice(r)

\* A lock method gets to the core: the range is in bounds, and the mutex is
\* not poisoned (PinMutex::lock unwraps).
MayEnter(l, r) == Available(l) /\ slice(r) /\ ~poisoned

\* try_read and try_write, boxed or not, that get the lock.
try_acquire(l, r) ==
  /\ l \notin Blocking
  /\ MayEnter(l, r)
  /\ TryLock(l, r)
  /\ MakeGuard(l)

\* The same, in vain: a box is freed again, a pinned state object remains.
try_refused(l, r) ==
  /\ l \notin Blocking
  /\ MayEnter(l, r)
  /\ op = None /\ r.start < r.end /\ FirstConflict(l, r) # None
  /\ storage' = IF l \in Boxed THEN storage ELSE get_or_insert(l)
  /\ UNCHANGED <<vars, view, container, ptr, place, poisoned, running>>

\* read, write, async_read, async_write, boxed or not.  The call, or the
\* future, keeps the pointer while it waits.
acquire(l, r, priority) ==
  /\ l \in Blocking
  /\ MayEnter(l, r)
  /\ Lock(l, r, priority)
  /\ MakeGuard(l)

\* The assertions inside the core: an empty range, in a build with debug
\* assertions, and a state object that is in use, once there is no conflict
\* that turns a fallible method away first.
CorePanics(l, r) ==
  /\ op = None
  /\ \/ DebugAssertions /\ r.start = r.end
     \/ /\ storage[l] = "inner" /\ claimed[l]
        /\ l \in Blocking \/ FirstConflict(l, r) = None

\* A lock method panics: out of bounds or poisoned, before it has the mutex;
\* or in the core, which poisons the mutex.  Nothing has been linked yet.
LockPanics(l, r) ==
  /\ Available(l)
  /\ Panic
  /\ \/ /\ ~slice(r) \/ poisoned
        /\ UNCHANGED <<storage, poisoned>>
     \/ /\ MayEnter(l, r) /\ CorePanics(l, r)
        /\ poisoned' = Poisoning
        /\ storage' = IF l \in Boxed THEN storage ELSE get_or_insert(l)
  /\ UNCHANGED <<vars, view, container, ptr, place>>

-----------------------------------------------------------------------------
(* Guards *)

\* The client has a guard or a future of l.  A thread in a blocking method has
\* neither before the lock is granted.
Holds(l) == /\ running
            /\ view[l] # None
            /\ Poisoning => client[l] = "granted"

\* Dropping a guard or a future unlocks.  If the mutex is poisoned this panics
\* and the state object stays linked; in a box it is dropped next, and its
\* panic while the first one unwinds aborts the program.
DropGuard(l) ==
  /\ Holds(l)
  /\ view' = [view EXCEPT ![l] = None]
  /\ \/ /\ ~poisoned
        /\ Unlock(l)
        /\ UNCHANGED running
     \/ /\ poisoned
        /\ running' = ~(PanicAborts \/ l \in Boxed)
        /\ UNCHANGED vars
  /\ UNCHANGED <<storage, container, ptr, place, poisoned>>

\* mem::forget: the borrows end, nothing is unlocked.  With a boxed guard its
\* state object is forgotten, too.
ForgetGuard(l) ==
  /\ Forgetting
  /\ Holds(l)
  /\ view' = [view EXCEPT ![l] = None]
  /\ storage' = IF l \in Boxed THEN [storage EXCEPT ![l] = "leaked"] ELSE storage
  /\ UNCHANGED <<vars, container, ptr, place, poisoned, running>>

\* The unlock loop goes on, under the mutex.
Unlocking ==
  /\ running
  /\ unlock_inner
  /\ UNCHANGED lifeVars

-----------------------------------------------------------------------------
(* The lock and its container *)

\* Mutant of DropLock: the destructor of the core does not look at the trees.
BugDropLockUnchecked ==
  /\ running /\ place = "lock" /\ Unborrowed
  /\ place' = "free"
  /\ borrow' = [l \in Locks |-> None] /\ pending' = [l \in Locks |-> None]
  /\ older' = [l \in Locks |-> {}]
  /\ client' = [l \in Locks |-> "idle"] /\ guard' = [l \in Locks |-> None]
  /\ UNCHANGED <<claimed, op, storage, view, container, ptr, poisoned, running>>

\* The core's destructor panics if its trees are not empty; its memory is gone
\* afterwards all the same, and with it the roots of the trees.
DropLock ==
  /\ running /\ place = "lock" /\ Unborrowed
  /\ place' = "free"
  /\ IF \E l \in Locks : Linked(l) THEN Panic ELSE UNCHANGED running
  /\ borrow' = [l \in Locks |-> None] /\ pending' = [l \in Locks |-> None]
  /\ older' = [l \in Locks |-> {}]
  /\ client' = [l \in Locks |-> "idle"] /\ guard' = [l \in Locks |-> None]
  /\ UNCHANGED <<claimed, op, storage, view, container, ptr, poisoned>>

\* Containers other than the present one, and what a closure can make of it.
Fresh == {c \in Containers : c.gen = container.gen + 1}
Updated == {c \in Containers : c.gen \in {container.gen, container.gen + 1}}

\* Another lock, with a container of its own, is made at the same address.
NewLock ==
  /\ running /\ place = "free"
  /\ container' \in Fresh
  /\ ptr' = container'
  /\ place' = "lock" /\ poisoned' = FALSE
  /\ UNCHANGED <<vars, storage, view, running>>

\* replace_container, and take_container with a default: deref_mut may panic,
\* hence it is called before either field changes.
replace_container ==
  /\ running /\ place = "lock" /\ Unborrowed
  /\ \/ /\ container' \in Fresh
        /\ ptr' = container'
        /\ UNCHANGED running
     \/ /\ DerefPanics
        /\ Panic
        /\ UNCHANGED <<container, ptr>>
  /\ UNCHANGED <<vars, storage, view, place, poisoned>>

\* Mutant of update_container: the pointer is refreshed after the closure, not
\* in a destructor.
BugUpdateWithoutGuard ==
  /\ running /\ place = "lock" /\ Unborrowed
  /\ container' \in Updated
  /\ \/ ptr' = container' /\ UNCHANGED running
     \/ UNCHANGED ptr /\ Panic
  /\ UNCHANGED <<vars, storage, view, place, poisoned>>

\* update_container: the closure changes the container and returns or panics;
\* a destructor refreshes the pointer in both cases.  If deref_mut panics
\* there, the pointer stays; that aborts only if the closure has panicked, too.
update_container ==
  /\ running /\ place = "lock" /\ Unborrowed
  /\ container' \in Updated
  /\ \/ ptr' = container' /\ UNCHANGED running
     \/ ptr' = container' /\ Panic
     \/ DerefPanics /\ UNCHANGED ptr /\ Panic
     \/ DerefPanics /\ UNCHANGED ptr /\ running' = FALSE
  /\ UNCHANGED <<vars, storage, view, place, poisoned>>

-----------------------------------------------------------------------------
SliceStep ==
  \/ \E l \in Locks : NewState(l) \/ DropState(l) \/ DropGuard(l) \/ ForgetGuard(l)
  \/ \E l \in Locks, r \in Ranges :
       try_acquire(l, r) \/ try_refused(l, r) \/ LockPanics(l, r)
  \/ \E l \in Locks, r \in Ranges, p \in Priorities : acquire(l, r, p)
  \/ Unlocking
  \/ DropLock \/ NewLock \/ replace_container \/ update_container

SliceNext == SliceStep /\ UNCHANGED setting

SliceSpec == SliceInit /\ [][SliceNext]_sliceVars

-----------------------------------------------------------------------------
(* Properties *)

\* The storage of l's nodes exists.
Alive(l) == storage[l] \in {"inner", "leaked"}

\* Clients forget guards, if at all, where the panic of a state object that is
\* dropped while it is linked ends the program.  Where it unwinds, the storage
\* goes and the nodes stay, and a lock with a forgotten guard is not safe to use.
ForgettingIsFatal == Forgetting => PanicAborts

\* deref_mut panics, if at all, where this ends the program.  Where it unwinds,
\* update_container leaves the old pointer behind.
DerefPanicIsFatal == DerefPanics => PanicAborts

\* If forgetting is fatal, no tree of a lock that can be used has a node whose
\* state object is gone: a state object is dropped while it is linked only if
\* its panic ends the program, or after a panic has poisoned the mutex, so that
\* nobody gets at the tree any more.
NoDanglingNode ==
  ForgettingIsFatal /\ running /\ place = "lock" /\ ~poisoned =>
    \A l \in Locks : Linked(l) => Alive(l)

\* If forgetting is fatal, no operation walks a tree that has lost a node: the
\* trees change only while all their nodes exist.  In particular, what a poisoned
\* guard's failed unlock leaves behind is never touched again.
NoWalkOverDead ==
  [][ForgettingIsFatal /\ place = "lock" /\ place' = "lock"
       /\ <<borrow, pending>>' # <<borrow, pending>> =>
     \A l \in Locks : Linked(l) => Alive(l)]_sliceVars

\* Where panics abort, the parent pointer of a state object tells its origin: a
\* state object that points to the address of the present lock is linked in
\* this lock, not in an earlier one at the same address, so unlocking with it
\* is what it seems.
OriginCorrect ==
  PanicAborts /\ running /\ place = "lock" /\ op = None =>
    \A l \in Locks : EarlyDropPanics(l) => Linked(l)

\* If a panic of deref_mut is fatal, a guard or future, also of a call that has
\* waited, points into the present container: to its present allocation, and not
\* past its end.  The closure of update_container may panic in any case.
GuardsPointIntoContainer ==
  DerefPanicIsFatal /\ running => \A l \in Locks : view[l] # None =>
    /\ place = "lock"
    /\ view[l].gen = container.gen
    /\ guard[l].end <= container.len
=============================================================================
