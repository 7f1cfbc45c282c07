--------------------------- MODULE KeyedLockerProofs ---------------------------
(***************************************************************************)
(* store/locks.go for any number of goroutines and keys: the inductive      *)
(* invariant of KeyedLocker, mutual exclusion per key, no entry left behind *)
(* in the map, and the implementation of AbstractKeyLock.                   *)
(***************************************************************************)
EXTENDS KeyedLocker, FiniteSetTheorems, TLAPS

\* The set of calls that use a mutex is finite, with a natural cardinality.
LEMMA UsersFinite ==
  ASSUME NEW m PROVE IsFiniteSet(Users(m)) /\ Cardinality(Users(m)) \in Nat
<1>1. IsFiniteSet(Users(m))
  BY ProcsFinite, FS_Subset DEF Users
<1> QED BY <1>1, FS_CardinalityType

\* A call that starts to use mutex m raises the count of m's users by one and
\* no other count (locks.go:24-31).
LEMMA JoinUsers ==
  ASSUME NEW p \in Procs, NEW m \in Mutexes, TypeOK,
         mutex[p] = None, mutex' = [mutex EXCEPT ![p] = m]
  PROVE  /\ Cardinality(Users(m)') = Cardinality(Users(m)) + 1
         /\ \A n \in Mutexes : n # m => Users(n)' = Users(n)
<1>1. Users(m)' = Users(m) \cup {p}
  BY NoneOutside DEF Users, TypeOK
<1>2. p \notin Users(m)
  BY NoneOutside DEF Users
<1>3. Cardinality(Users(m) \cup {p}) = Cardinality(Users(m)) + 1
  BY <1>2, UsersFinite, FS_AddElement
<1>4. \A n \in Mutexes : n # m => Users(n)' = Users(n)
  BY NoneOutside DEF Users, TypeOK
<1> QED BY <1>1, <1>3, <1>4

\* A call that returns lowers the count of its mutex's users by one and no
\* other count (locks.go:37-42).
LEMMA LeaveUsers ==
  ASSUME NEW p \in Procs, NEW m \in Mutexes, TypeOK,
         mutex[p] = m, mutex' = [mutex EXCEPT ![p] = None]
  PROVE  /\ Users(m)' = Users(m) \ {p}
         /\ Cardinality(Users(m)') = Cardinality(Users(m)) - 1
         /\ \A n \in Mutexes : n # m => Users(n)' = Users(n)
<1>1. Users(m)' = Users(m) \ {p}
  BY NoneOutside DEF Users, TypeOK
<1>2. p \in Users(m)
  BY DEF Users
<1>3. Cardinality(Users(m) \ {p}) = Cardinality(Users(m)) - 1
  BY <1>2, UsersFinite, FS_RemoveElement
<1>4. \A n \in Mutexes : n # m => Users(n)' = Users(n)
  BY NoneOutside DEF Users, TypeOK
<1> QED BY <1>1, <1>3, <1>4

\* The mutexes are unused and the map is empty when the store starts.
LEMMA InitIInv == Init => IInv
<1> SUFFICES ASSUME Init PROVE IInv
  OBVIOUS
<1>1. TypeOK
  BY DEF Init, TypeOK
<1>2. RefsCountUsers
  <2>1. \A m \in Mutexes : Users(m) = {}
    BY NoneOutside DEF Init, Users
  <2> QED BY <2>1, FS_EmptySet DEF Init, RefsCountUsers
<1>3. UsersShareEntry /\ EntriesDistinct /\ HolderOwns /\ NoStaleEntry
  BY DEF Init, UsersShareEntry, EntriesDistinct, HolderOwns, NoStaleEntry
<1> QED BY <1>1, <1>2, <1>3 DEF IInv

\* Entering keeps the invariant: a fresh mutex has no user and the key it is
\* created for had none either.
LEMMA EnterIInv ==
  ASSUME NEW p \in Procs, NEW k \in Keys, IInv, Enter(p, k)
  PROVE  IInv'
<1> USE NoneOutside
<1>1. mutex[p] = None /\ pc[p] = "idle"
  BY DEF IInv, UsersShareEntry, Enter
<1>2. CASE locks[k] # None
  <2> DEFINE m == locks[k]
  <2>1. /\ m \in Mutexes /\ mutex' = [mutex EXCEPT ![p] = m]
        /\ refs' = [refs EXCEPT ![m] = @ + 1]
        /\ locks' = locks /\ owner' = owner
        /\ pc' = [pc EXCEPT ![p] = "waiting"] /\ key' = [key EXCEPT ![p] = k]
    BY <1>2 DEF Enter, IInv, TypeOK
  <2>2. TypeOK'
    BY <2>1 DEF IInv, TypeOK
  <2>3. RefsCountUsers'
    BY <1>1, <2>1, JoinUsers DEF IInv, TypeOK, RefsCountUsers
  <2>4. UsersShareEntry' /\ EntriesDistinct' /\ HolderOwns' /\ NoStaleEntry'
    BY <1>1, <2>1 DEF IInv, TypeOK, UsersShareEntry, EntriesDistinct, HolderOwns, NoStaleEntry
  <2> QED BY <2>2, <2>3, <2>4 DEF IInv
<1>3. CASE locks[k] = None
  <2>1. PICK m \in Mutexes :
          /\ Unreferenced(m)
          /\ locks' = [locks EXCEPT ![k] = m] /\ mutex' = [mutex EXCEPT ![p] = m]
          /\ refs' = [refs EXCEPT ![m] = 1] /\ owner' = [owner EXCEPT ![m] = None]
    BY <1>3 DEF Enter
  <2>2. pc' = [pc EXCEPT ![p] = "waiting"] /\ key' = [key EXCEPT ![p] = k]
    BY DEF Enter
  <2>3. TypeOK'
    BY <2>1, <2>2 DEF IInv, TypeOK
  <2>4. RefsCountUsers'
    <3>1. Cardinality(Users(m)) = 0
      BY <2>1, FS_EmptySet DEF Unreferenced
    <3>2. TypeOK /\ mutex' = [mutex EXCEPT ![p] = m]
      BY <2>1 DEF IInv
    <3>4. /\ Cardinality(Users(m)') = Cardinality(Users(m)) + 1
          /\ \A n \in Mutexes : n # m => Users(n)' = Users(n)
      BY <1>1, <3>2, JoinUsers
    <3>3. \A n \in Mutexes : refs'[n] = Cardinality(Users(n)')
      BY <2>1, <3>1, <3>4 DEF IInv, TypeOK, RefsCountUsers
    <3> QED BY <3>3 DEF RefsCountUsers
  <2>5. UsersShareEntry'
    BY <1>1, <1>3, <2>1, <2>2 DEF IInv, TypeOK, UsersShareEntry
  <2>6. EntriesDistinct'
    BY <1>1, <2>1, <2>2 DEF IInv, TypeOK, EntriesDistinct, Unreferenced
  <2>7. HolderOwns'
    BY <1>1, <2>1, <2>2 DEF IInv, TypeOK, HolderOwns, Unreferenced, Users
  <2>8. NoStaleEntry'
    BY <1>1, <2>1, <2>2 DEF IInv, TypeOK, NoStaleEntry
  <2> QED BY <2>3, <2>4, <2>5, <2>6, <2>7, <2>8 DEF IInv
<1> QED BY <1>2, <1>3

\* Acquiring keeps the invariant.
LEMMA AcquireIInv ==
  ASSUME NEW p \in Procs, IInv, Acquire(p)
  PROVE  IInv'
<1> USE NoneOutside DEF IInv, Acquire
<1>1. TypeOK'
  BY DEF TypeOK
<1>2. RefsCountUsers' /\ UsersShareEntry' /\ EntriesDistinct' /\ NoStaleEntry'
  BY DEF TypeOK, RefsCountUsers, Users, UsersShareEntry, EntriesDistinct, NoStaleEntry
<1>3. HolderOwns'
  BY DEF TypeOK, HolderOwns, UsersShareEntry
<1> QED BY <1>1, <1>2, <1>3

\* Unlocking keeps the invariant: no one else owns the mutex that p gives up.
LEMMA UnlockIInv ==
  ASSUME NEW p \in Procs, IInv, Unlock(p)
  PROVE  IInv'
<1> USE NoneOutside DEF IInv, Unlock
<1>1. TypeOK'
  BY DEF TypeOK
<1>2. RefsCountUsers' /\ UsersShareEntry' /\ EntriesDistinct' /\ NoStaleEntry'
  BY DEF TypeOK, RefsCountUsers, Users, UsersShareEntry, EntriesDistinct, NoStaleEntry
<1>3. HolderOwns'
  BY DEF TypeOK, HolderOwns, UsersShareEntry
<1> QED BY <1>1, <1>2, <1>3

\* Leaving keeps the invariant: the entry goes only with its last user.
LEMMA LeaveIInv ==
  ASSUME NEW p \in Procs, IInv, Leave(p)
  PROVE  IInv'
<1> USE NoneOutside
<1>0. PICK m \in Mutexes : m = mutex[p]
  BY DEF IInv, TypeOK, Leave, UsersShareEntry
<1>1. /\ pc[p] = "releasing" /\ m = mutex[p] /\ locks[key[p]] = m
      /\ pc' = [pc EXCEPT ![p] = "idle"] /\ key' = key /\ owner' = owner
      /\ mutex' = [mutex EXCEPT ![p] = None] /\ refs' = [refs EXCEPT ![m] = @ - 1]
      /\ key[p] \in Keys /\ locks \in [Keys -> Mutexes \cup {None}]
  BY <1>0 DEF IInv, TypeOK, Leave, UsersShareEntry
<1>2. locks' = IF refs[m] = 1 THEN [locks EXCEPT ![key[p]] = None] ELSE locks
  BY <1>1 DEF Leave
<1>3. /\ Users(m)' = Users(m) \ {p}
      /\ Cardinality(Users(m)') = Cardinality(Users(m)) - 1
      /\ \A n \in Mutexes : n # m => Users(n)' = Users(n)
  BY <1>1, LeaveUsers DEF IInv
<1>4. refs[m] = Cardinality(Users(m)) /\ refs[m] \in Nat /\ p \in Users(m)
  <2>1. p \in Users(m)
    BY <1>1 DEF Users
  <2> QED BY <1>1, <2>1 DEF IInv, RefsCountUsers, TypeOK
<1>5. refs[m] >= 1
  BY <1>4, UsersFinite, FS_EmptySet
<1>6. TypeOK'
  BY <1>1, <1>2, <1>4, <1>5 DEF IInv, TypeOK
<1>7. RefsCountUsers'
  <2>1. \A n \in Mutexes : refs'[n] = Cardinality(Users(n)')
    BY <1>1, <1>3, <1>4 DEF IInv, TypeOK, RefsCountUsers
  <2> QED BY <2>1 DEF RefsCountUsers
<1>8. HolderOwns' /\ EntriesDistinct'
  BY <1>1, <1>2 DEF IInv, TypeOK, HolderOwns, EntriesDistinct
<1>9. CASE refs[m] = 1
  <2>1. Users(m)' = {}
    BY <1>3, <1>4, <1>9, UsersFinite, FS_RemoveElement, FS_EmptySet, FS_Subset
  <2>2. \A q \in Procs : q # p => mutex[q] # m
    BY <1>1, <2>1 DEF Users, IInv, TypeOK
  <2>3. UsersShareEntry'
    BY <1>1, <1>2, <1>9, <2>2 DEF IInv, TypeOK, UsersShareEntry
  <2>4. NoStaleEntry'
    BY <1>1, <1>2, <1>9 DEF IInv, TypeOK, NoStaleEntry, EntriesDistinct
  <2> QED BY <1>6, <1>7, <1>8, <2>3, <2>4 DEF IInv
<1>10. CASE refs[m] # 1
  <2>1. PICK q \in Procs : q # p /\ mutex[q] = m
    <3>1. Users(m) # {p}
      BY <1>4, <1>10, FS_Singleton
    <3> QED BY <1>4, <3>1 DEF Users
  <2>2. pc[q] # "idle" /\ key[q] = key[p]
    BY <1>1, <2>1 DEF IInv, TypeOK, UsersShareEntry, EntriesDistinct
  <2>3. UsersShareEntry'
    BY <1>1, <1>2, <1>10 DEF IInv, TypeOK, UsersShareEntry
  <2>4. NoStaleEntry'
    BY <1>1, <1>2, <1>10, <2>1, <2>2 DEF IInv, TypeOK, NoStaleEntry, EntriesDistinct
  <2> QED BY <1>6, <1>7, <1>8, <2>3, <2>4 DEF IInv
<1> QED BY <1>9, <1>10

\* The inductive invariant of the keyed mutexes holds in every state.
THEOREM Invariance == Spec => []IInv
<1>1. Init => IInv
  BY InitIInv
<1>2. IInv /\ [Next]_vars => IInv'
  <2> SUFFICES ASSUME IInv, [Next]_vars PROVE IInv'
    OBVIOUS
  <2>1. CASE UNCHANGED vars
    BY <2>1 DEF vars, IInv, TypeOK, RefsCountUsers, Users, UsersShareEntry,
                EntriesDistinct, HolderOwns, NoStaleEntry
  <2>2. CASE Next
    BY <2>2, EnterIInv, AcquireIInv, UnlockIInv, LeaveIInv DEF Next
  <2> QED BY <2>1, <2>2
<1> QED BY <1>1, <1>2, PTL DEF Spec

\* Two requests never hold the lock of one key (locks.go:20-42).
THEOREM KeyMutualExclusion == Spec => []MutualExclusion
<1>1. IInv => MutualExclusion
  BY NoneOutside DEF IInv, UsersShareEntry, HolderOwns, MutualExclusion
<1> QED BY <1>1, Invariance, PTL

\* The map, the mutexes and the goroutines keep their types (locks.go:5-17).
THEOREM TypesHold == Spec => []TypeOK
<1>1. IInv => TypeOK
  BY DEF IInv
<1> QED BY <1>1, Invariance, PTL

\* The map holds entries only for keys in use (locks.go:39-41).
THEOREM EntriesInUse == Spec => []NoStaleEntry
<1>1. IInv => NoStaleEntry
  BY DEF IInv
<1> QED BY <1>1, Invariance, PTL

\* The mutexes of locks.go implement one lock per key that is granted in one
\* step: every behaviour of the map of mutexes is one of AbstractKeyLock.
THEOREM ImplementsKeyLock == Spec => LockSpec
<1>1. Init => Lock!Init
  BY DEF Init, Lock!Init
<1>2. IInv /\ [Next]_vars => [Lock!Next]_(Lock!vars)
  <2> SUFFICES ASSUME IInv, Next PROVE Lock!Next
    BY DEF vars, Lock!vars
  <2>1. PICK p \in Procs :
          (\E k \in Keys : Enter(p, k)) \/ Acquire(p) \/ Unlock(p) \/ Leave(p)
    BY DEF Next
  <2>2. CASE \E k \in Keys : Enter(p, k)
    BY <2>2 DEF Enter, Lock!Next, Lock!Request
  <2>3. CASE Acquire(p)
    <3>1. Lock!Holders(key[p]) = {}
      BY <2>3, NoneOutside DEF IInv, UsersShareEntry, HolderOwns, Acquire, Lock!Holders
    <3> QED BY <2>3, <3>1 DEF Acquire, Lock!Next, Lock!Grant
  <2>4. CASE Unlock(p)
    BY <2>4 DEF Unlock, Lock!Next, Lock!Free
  <2>5. CASE Leave(p)
    BY <2>5 DEF Leave, Lock!Next, Lock!Return
  <2> QED BY <2>1, <2>2, <2>3, <2>4, <2>5
<1> QED BY <1>1, <1>2, Invariance, PTL DEF Spec, LockSpec, Lock!Spec
================================================================================
