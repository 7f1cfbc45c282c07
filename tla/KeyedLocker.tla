------------------------------ MODULE KeyedLocker ------------------------------
(***************************************************************************)
(* store/locks.go: the per-key mutex that serialises PutObject and          *)
(* CompleteMultipartUpload on one bucket+key.  A mutex is created by the    *)
(* first request for a key, shared through a reference count and dropped    *)
(* from the map by the last one to leave.                                   *)
(*                                                                         *)
(* The two sections under l.mu neither block nor call out, so each is one   *)
(* step; m.mu.Lock() and m.mu.Unlock() happen outside l.mu and are steps of *)
(* their own.                                                               *)
(***************************************************************************)
EXTENDS Naturals, FiniteSets

CONSTANTS
  Procs,     \* goroutines that call Lock
  Keys,      \* composite keys, bucket + "\x00" + key
  Mutexes,   \* heap cells a keyedMutex can live in
  None

ASSUME ProcsFinite == IsFiniteSet(Procs)
ASSUME NoneOutside == None \notin Mutexes /\ None \notin Procs

VARIABLES
  locks,     \* locks[k]  : the map l.locks, None where the key has no entry
  owner,     \* owner[m]  : the goroutine that holds m.mu
  refs,      \* refs[m]   : m.refs
  pc,        \* pc[p]     : idle, waiting in m.mu.Lock, holding, releasing
  key,       \* key[p]    : the composite of p's current call
  mutex      \* mutex[p]  : the local m of p's current call

vars == <<locks, owner, refs, pc, key, mutex>>

Init ==
  /\ locks = [k \in Keys |-> None]
  /\ owner = [m \in Mutexes |-> None]
  /\ refs = [m \in Mutexes |-> 0]
  /\ pc = [p \in Procs |-> "idle"]
  /\ key \in [Procs -> Keys]
  /\ mutex = [p \in Procs |-> None]

Users(m) == {p \in Procs : mutex[p] = m}

\* Memory &keyedMutex{} may return: no map entry and no goroutine refers to it.
Unreferenced(m) == Users(m) = {} /\ \A k \in Keys : locks[k] # m

\* Deviation: the request that creates the mutex is not counted.
EnterUncounted(p, k) ==
  /\ pc[p] = "idle"
  /\ pc' = [pc EXCEPT ![p] = "waiting"]
  /\ key' = [key EXCEPT ![p] = k]
  /\ \/ /\ locks[k] # None
        /\ mutex' = [mutex EXCEPT ![p] = locks[k]]
        /\ refs' = [refs EXCEPT ![locks[k]] = @ + 1]
        /\ UNCHANGED <<locks, owner>>
     \/ /\ locks[k] = None
        /\ \E m \in Mutexes :
             /\ Unreferenced(m)
             /\ locks' = [locks EXCEPT ![k] = m]
             /\ mutex' = [mutex EXCEPT ![p] = m]
             /\ refs' = [refs EXCEPT ![m] = 0]
             /\ owner' = [owner EXCEPT ![m] = None]

\* locks.go:24-31, under l.mu.
Enter(p, k) ==
  /\ pc[p] = "idle"
  /\ pc' = [pc EXCEPT ![p] = "waiting"]
  /\ key' = [key EXCEPT ![p] = k]
  /\ \/ /\ locks[k] # None
        /\ mutex' = [mutex EXCEPT ![p] = locks[k]]
        /\ refs' = [refs EXCEPT ![locks[k]] = @ + 1]
        /\ UNCHANGED <<locks, owner>>
     \/ /\ locks[k] = None
        /\ \E m \in Mutexes :
             /\ Unreferenced(m)
             /\ locks' = [locks EXCEPT ![k] = m]
             /\ mutex' = [mutex EXCEPT ![p] = m]
             /\ refs' = [refs EXCEPT ![m] = 1]
             /\ owner' = [owner EXCEPT ![m] = None]

\* Deviation: the mutex is taken without waiting for its owner.
AcquireBarging(p) ==
  /\ pc[p] = "waiting"
  /\ owner' = [owner EXCEPT ![mutex[p]] = p]
  /\ pc' = [pc EXCEPT ![p] = "holding"]
  /\ UNCHANGED <<locks, refs, key, mutex>>

\* locks.go:33.
Acquire(p) ==
  /\ pc[p] = "waiting"
  /\ owner[mutex[p]] = None
  /\ owner' = [owner EXCEPT ![mutex[p]] = p]
  /\ pc' = [pc EXCEPT ![p] = "holding"]
  /\ UNCHANGED <<locks, refs, key, mutex>>

\* Deviation: the release never unlocks the mutex.
UnlockForgotten(p) ==
  /\ pc[p] = "holding"
  /\ pc' = [pc EXCEPT ![p] = "releasing"]
  /\ UNCHANGED <<locks, owner, refs, key, mutex>>

\* locks.go:35.
Unlock(p) ==
  /\ pc[p] = "holding"
  /\ owner' = [owner EXCEPT ![mutex[p]] = None]
  /\ pc' = [pc EXCEPT ![p] = "releasing"]
  /\ UNCHANGED <<locks, refs, key, mutex>>

\* Deviation: the entry is deleted by whoever leaves first.
LeaveDropsEntry(p) ==
  /\ pc[p] = "releasing"
  /\ refs' = [refs EXCEPT ![mutex[p]] = @ - 1]
  /\ locks' = [locks EXCEPT ![key[p]] = None]
  /\ mutex' = [mutex EXCEPT ![p] = None]
  /\ pc' = [pc EXCEPT ![p] = "idle"]
  /\ UNCHANGED <<owner, key>>

\* Deviation: the entry is never deleted.
LeaveKeepsEntry(p) ==
  /\ pc[p] = "releasing"
  /\ refs' = [refs EXCEPT ![mutex[p]] = @ - 1]
  /\ mutex' = [mutex EXCEPT ![p] = None]
  /\ pc' = [pc EXCEPT ![p] = "idle"]
  /\ UNCHANGED <<locks, owner, key>>

\* locks.go:37-42, under l.mu.
Leave(p) ==
  /\ pc[p] = "releasing"
  /\ refs' = [refs EXCEPT ![mutex[p]] = @ - 1]
  /\ locks' = IF refs[mutex[p]] = 1 /\ locks[key[p]] = mutex[p]
                THEN [locks EXCEPT ![key[p]] = None] ELSE locks
  /\ mutex' = [mutex EXCEPT ![p] = None]
  /\ pc' = [pc EXCEPT ![p] = "idle"]
  /\ UNCHANGED <<owner, key>>

Next == \E p \in Procs : (\E k \in Keys : Enter(p, k)) \/ Acquire(p) \/ Unlock(p) \/ Leave(p)

Spec == Init /\ [][Next]_vars

\* A goroutine in Lock or in its release runs on; sync.Mutex hands a mutex to a
\* waiter of more than a millisecond, so a waiter is not passed over for ever;
\* every caller defers the release and finishes (store.go:172, 363).
Fairness ==
  \A p \in Procs : SF_vars(Acquire(p)) /\ WF_vars(Unlock(p)) /\ WF_vars(Leave(p))

FairSpec == Spec /\ Fairness
--------------------------------------------------------------------------------
TypeOK ==
  /\ locks \in [Keys -> Mutexes \cup {None}]
  /\ owner \in [Mutexes -> Procs \cup {None}]
  /\ refs \in [Mutexes -> Nat]
  /\ pc \in [Procs -> {"idle", "waiting", "holding", "releasing"}]
  /\ key \in [Procs -> Keys]
  /\ mutex \in [Procs -> Mutexes \cup {None}]

\* Two requests never hold the lock of one key, although the mutex behind it
\* is created and deleted while others wait (locks.go:24-42).
MutualExclusion ==
  \A p, q \in Procs :
    pc[p] = "holding" /\ pc[q] = "holding" /\ key[p] = key[q] => p = q

\* The reference count is the number of calls that still use the mutex.
RefsCountUsers == \A m \in Mutexes : refs[m] = Cardinality(Users(m))

\* Every call in progress uses the mutex its key maps to: no request is left
\* behind on a mutex that was dropped from the map.
UsersShareEntry ==
  \A p \in Procs :
    /\ (pc[p] = "idle") = (mutex[p] = None)
    /\ pc[p] # "idle" => locks[key[p]] = mutex[p]

\* The mutex a request holds is owned by that request.
HolderOwns == \A p \in Procs : pc[p] = "holding" => owner[mutex[p]] = p

\* The map keeps an entry only for keys that some call is using, so it is
\* bounded by the requests in flight (locks.go:39).
NoStaleEntry ==
  \A k \in Keys : locks[k] # None => \E p \in Procs : pc[p] # "idle" /\ key[p] = k

\* No mutex serves two keys.
EntriesDistinct ==
  \A k1, k2 \in Keys : locks[k1] = locks[k2] /\ locks[k1] # None => k1 = k2

IInv ==
  /\ TypeOK
  /\ RefsCountUsers
  /\ UsersShareEntry
  /\ EntriesDistinct
  /\ HolderOwns
  /\ NoStaleEntry

\* A request that waits for a key is granted it in the end.
WaiterServed == \A p \in Procs : pc[p] = "waiting" ~> pc[p] = "holding"

\* KeyedLocker implements one lock per key with a one-step grant.
Lock == INSTANCE AbstractKeyLock
LockSpec == Lock!Spec
================================================================================
