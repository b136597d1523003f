---------------------------- MODULE VirtualLocks ----------------------------
(***************************************************************************)
(* What the interval lock promises: the crate's README, and the reference  *)
(* implementation `refr::RwLockSet` that its tests compare the core with,  *)
(* describe it as an array of virtual readers-writer locks, one for every  *)
(* index.  A range is locked one virtual lock after the other in ascending *)
(* order, stopping at the first that is taken, and unlocked in descending  *)
(* order.  Nothing is said here about trees, intervals or wait lists.      *)
(***************************************************************************)
EXTENDS Integers

CONSTANTS Readers, Writers, Blocking, N, None

VARIABLES
  held,    \* held[l]: the virtual locks that l owns
  client,  \* client[l]: "idle", "waiting" or "granted"
  guard    \* guard[l]: the range that l wants or has, None when idle

vars == <<held, client, guard>>

Locks  == Readers \cup Writers
Ranges == {r \in [start : 0..N, end : 0..N] : r.start <= r.end}

Span(r) == {i \in 0..(N - 1) : r.start <= i /\ i < r.end}

\* The virtual lock at i has an owner l cannot share it with.
Taken(l, i) == \E k \in Locks \ {l} : i \in held[k] /\ (l \in Writers \/ k \in Writers)

\* Where ascending locking gets in r.
Reach(l, r) == {i \in Span(r) : \A j \in Span(r) : j <= i => ~Taken(l, j)}

Init ==
  /\ held   = [l \in Locks |-> {}]
  /\ client = [l \in Locks |-> "idle"]
  /\ guard  = [l \in Locks |-> None]

\* Advance l through r as far as possible.
Advance(l, r) ==
  /\ held' = [held EXCEPT ![l] = Reach(l, r)]
  /\ client' = [client EXCEPT ![l] = IF Reach(l, r) = Span(r) THEN "granted" ELSE "waiting"]

\* The fallible kinds take all of the range or nothing.
lock(l, r) ==
  /\ client[l] = "idle"
  /\ held[l] = {}
  /\ l \in Blocking \/ Reach(l, r) = Span(r)
  /\ guard' = [guard EXCEPT ![l] = r]
  /\ Advance(l, r)

resume(l) ==
  /\ client[l] = "waiting"
  /\ Advance(l, guard[l])
  /\ UNCHANGED guard

\* The client is done with l, or gives up waiting ...
Release(l) ==
  /\ client[l] # "idle"
  /\ client' = [client EXCEPT ![l] = "idle"]
  /\ guard' = [guard EXCEPT ![l] = None]
  /\ UNCHANGED held

\* ... and its virtual locks are unlocked, the highest first.
unlock(l) ==
  /\ client[l] = "idle"
  /\ \E i \in held[l] : held' = [held EXCEPT ![l] = {j \in @ : j < i}]
  /\ UNCHANGED <<client, guard>>

Next == \E l \in Locks : \/ \E r \in Ranges : lock(l, r)
                         \/ resume(l) \/ Release(l) \/ unlock(l)

Spec == Init /\ [][Next]_vars
=============================================================================
