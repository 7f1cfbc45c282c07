---------------------------- MODULE AdmissionProofs ----------------------------
(***************************************************************************)
(* The slots and key locks of Admission for any number of requests, keys,   *)
(* chunks and attempts and any limits: every channel holds one token for    *)
(* each request between acquire and release, so the limits hold and no      *)
(* release ever blocks.                                                     *)
(***************************************************************************)
EXTENDS Admission, FiniteSetTheorems, TLAPS

\* Requests are finitely many, so their slots can be counted.
LEMMA HoldersFinite ==
  ASSUME NEW s PROVE IsFiniteSet(Holders(s)) /\ Cardinality(Holders(s)) \in Nat
<1>1. IsFiniteSet(Requests)
  BY RequestsFinite, FS_Union DEF Requests
<1>2. IsFiniteSet(Holders(s))
  BY <1>1, FS_Subset DEF Holders
<1> QED BY <1>2, FS_CardinalityType

\* How a step of r may touch a channel: r passes acquire, passes release, or
\* does neither.
Joins(r, s) ==
  /\ req[r].at \notin Section[s] /\ req'[r].at \in Section[s]
  /\ limits[s] = 0 \/ slots[s] < limits[s]
  /\ slots'[s] = IF limits[s] = 0 THEN slots[s] ELSE slots[s] + 1

Leaves(r, s) ==
  /\ req[r].at \in Section[s] /\ req'[r].at \notin Section[s]
  /\ slots'[s] = IF limits[s] = 0 THEN slots[s] ELSE slots[s] - 1

Stays(r, s) ==
  /\ req[r].at \in Section[s] <=> req'[r].at \in Section[s]
  /\ slots'[s] = slots[s]

Touches(r) ==
  /\ slots' = [s \in Channels |-> slots'[s]]
  /\ \A s \in Channels : Joins(r, s) \/ Leaves(r, s) \/ Stays(r, s)

\* How it may touch the locks.
Locks(r) ==
  /\ req[r].at \notin LockedPlaces /\ req'[r].at \in LockedPlaces
  /\ req'[r].key \in Keys /\ lock[req'[r].key] = None
  /\ lock' = [lock EXCEPT ![req'[r].key] = r]

Unlocks(r) ==
  /\ req[r].at \in LockedPlaces /\ req'[r].at \notin LockedPlaces
  /\ lock' = [lock EXCEPT ![req[r].key] = None]

LeavesLocks(r) ==
  /\ req[r].at \in LockedPlaces <=> req'[r].at \in LockedPlaces
  /\ req[r].at \in LockedPlaces => req'[r].key = req[r].key
  /\ lock' = lock

TouchesLocks(r) == Locks(r) \/ Unlocks(r) \/ LeavesLocks(r)

RequestOK(q) ==
  /\ q.at \in PutPlaces \cup CompletePlaces => q.key \in Keys
  /\ q.at = "getCopy" => q.left > 0
  /\ q.at \in {"getFile", "getFetch"} => q.left > 0 /\ q.try > 0

\* Of all requests a step moves one, to a sound state.
Moves(r) ==
  /\ req' = [req EXCEPT ![r] = req'[r]]
  /\ req'[r] \in Request /\ RequestOK(req'[r])
  /\ limits' = limits

\* One channel under one step: the token count follows the holders.
LEMMA ChannelKept ==
  ASSUME NEW r \in Requests, NEW s \in Channels, IInv, Moves(r),
         Joins(r, s) \/ Leaves(r, s) \/ Stays(r, s)
  PROVE  /\ slots'[s] = IF limits[s] = 0 THEN 0 ELSE Cardinality(Holders(s)')
         /\ limits[s] # 0 => slots'[s] <= limits[s]
         /\ slots'[s] \in Nat
<1>1. /\ limits[s] \in Nat /\ slots[s] \in Nat
      /\ slots[s] = IF limits[s] = 0 THEN 0 ELSE Cardinality(Holders(s))
      /\ limits[s] # 0 => slots[s] <= limits[s]
  BY LimitsAssumption DEF IInv, TypeOK, SlotsCount, SlotsWithin
<1>2. \A q \in Requests : q # r => req'[q] = req[q]
  BY DEF Moves, IInv, TypeOK
<1>3. Cardinality(Holders(s)) \in Nat
  BY HoldersFinite
<1>4. CASE Joins(r, s)
  <2>1. Holders(s)' = Holders(s) \cup {r} /\ r \notin Holders(s)
    BY <1>2, <1>4 DEF Joins, Holders, Section
  <2>2. Cardinality(Holders(s)') = Cardinality(Holders(s)) + 1
    BY <2>1, HoldersFinite, FS_AddElement
  <2> QED BY <1>1, <1>3, <1>4, <2>2 DEF Joins
<1>5. CASE Leaves(r, s)
  <2>1. Holders(s)' = Holders(s) \ {r} /\ r \in Holders(s)
    BY <1>2, <1>5 DEF Leaves, Holders, Section
  <2>2. Cardinality(Holders(s)') = Cardinality(Holders(s)) - 1
    BY <2>1, HoldersFinite, FS_RemoveElement
  <2>3. Cardinality(Holders(s)') \in Nat
    BY <2>1, HoldersFinite, FS_RemoveElement, FS_CardinalityType
  <2> QED BY <1>1, <1>3, <1>5, <2>2, <2>3 DEF Leaves
<1>6. CASE Stays(r, s)
  <2>1. Holders(s)' = Holders(s)
    BY <1>2, <1>6 DEF Stays, Holders, Section
  <2> QED BY <1>1, <1>3, <1>6, <2>1 DEF Stays
<1> QED BY <1>4, <1>5, <1>6

\* The locks under one step.
LEMMA LocksKept ==
  ASSUME NEW r \in Requests, IInv, Moves(r), TouchesLocks(r)
  PROVE  LockHeld' /\ lock' \in [Keys -> Requests \cup {None}]
<1>1. \A q \in Requests : q # r => req'[q] = req[q]
  BY DEF Moves, IInv, TypeOK
<1>2. /\ lock \in [Keys -> Requests \cup {None}] /\ None \notin Requests
      /\ \A q \in Requests, k \in Keys :
           lock[k] = q <=> req[q].at \in LockedPlaces /\ req[q].key = k
  BY NoneAssumption DEF IInv, TypeOK, LockHeld
<1>3. req[r].at \in LockedPlaces => req[r].key \in Keys
  BY DEF IInv, RequestsOK, LockedPlaces, PutPlaces, CompletePlaces
<1>4. CASE Locks(r)
  BY <1>1, <1>2, <1>4 DEF Locks, LockHeld
<1>5. CASE Unlocks(r)
  BY <1>1, <1>2, <1>3, <1>5 DEF Unlocks, LockHeld
<1>6. CASE LeavesLocks(r)
  BY <1>1, <1>2, <1>6 DEF LeavesLocks, LockHeld
<1> QED BY <1>4, <1>5, <1>6 DEF TouchesLocks

\* A step of the shapes above keeps the invariant.
LEMMA MoveKept ==
  ASSUME NEW r \in Requests, IInv, Moves(r), Touches(r), TouchesLocks(r)
  PROVE  IInv'
<1>1. \A s \in Channels :
        /\ slots'[s] = IF limits[s] = 0 THEN 0 ELSE Cardinality(Holders(s)')
        /\ limits[s] # 0 => slots'[s] <= limits[s]
        /\ slots'[s] \in Nat
  BY ChannelKept DEF Touches
<1>2. LockHeld' /\ lock' \in [Keys -> Requests \cup {None}]
  BY LocksKept
<1>3. slots' \in [Channels -> Nat]
  BY <1>1 DEF Touches
<1>4. TypeOK'
  BY <1>2, <1>3 DEF Moves, IInv, TypeOK
<1>5. SlotsCount' /\ SlotsWithin'
  BY <1>1 DEF Moves, SlotsCount, SlotsWithin
<1>6. RequestsOK'
  BY DEF Moves, RequestOK, IInv, TypeOK, RequestsOK
<1> QED BY <1>2, <1>4, <1>5, <1>6 DEF IInv

\* Sending to channel s is a step of its section, and of no other.
LEMMA TakeShapes ==
  ASSUME NEW r \in Requests, NEW t \in Channels, IInv, Take(t),
         req[r].at \notin Section[t], req'[r].at \in Section[t],
         \A s \in Channels \ {t} : req[r].at \in Section[s] <=> req'[r].at \in Section[s]
  PROVE  Touches(r)
<1>1. slots \in [Channels -> Nat] /\ limits \in [Channels -> Nat]
  BY LimitsAssumption DEF IInv, TypeOK
<1>2. slots' = [s \in Channels |-> slots'[s]]
  BY <1>1 DEF Take
<1>3. Joins(r, t)
  BY <1>1 DEF Take, Joins
<1>4. \A s \in Channels : s # t => Stays(r, s)
  BY <1>1 DEF Take, Stays
<1> QED BY <1>2, <1>3, <1>4 DEF Touches

\* Receiving from the channels in S leaves their sections, and no other.
LEMMA GiveShapes ==
  ASSUME NEW r \in Requests, NEW S \in SUBSET Channels, IInv, Give(S),
         \A s \in S : req[r].at \in Section[s] /\ req'[r].at \notin Section[s],
         \A s \in Channels \ S : req[r].at \in Section[s] <=> req'[r].at \in Section[s]
  PROVE  Touches(r)
<1>1. slots \in [Channels -> Nat] /\ limits \in [Channels -> Nat]
  BY LimitsAssumption DEF IInv, TypeOK
<1>2. slots' = [s \in Channels |-> slots'[s]]
  BY <1>1 DEF Give
<1>3. \A s \in S : Leaves(r, s)
  BY <1>1 DEF Give, Leaves
<1>4. \A s \in Channels \ S : Stays(r, s)
  BY <1>1 DEF Give, Stays
<1> QED BY <1>2, <1>3, <1>4 DEF Touches

\* A step that leaves the channels alone and crosses no section.
LEMMA StayShapes ==
  ASSUME NEW r \in Requests, IInv, slots' = slots,
         \A s \in Channels : req[r].at \in Section[s] <=> req'[r].at \in Section[s]
  PROVE  Touches(r)
BY DEF IInv, TypeOK, Stays, Touches
--------------------------------------------------------------------------------
(* Each action is such a move *)

\* Where a request holds a token of each channel, place by place.
LEMMA Sections ==
  /\ Channels = {"uploads", "downloads", "telegramSem"}
  /\ Section["uploads"] = {"putLock", "putBody", "putTelegram", "putSend", "putCommit",
                           "partBody", "partTelegram", "partSend"}
  /\ Section["downloads"] = {"getNext", "getFile", "getFetch", "getCopy"}
  /\ Section["telegramSem"] = {"putSend", "partSend", "getFile", "getFetch", "getCopy"}
BY DEF Channels, Section, PutPlaces, PartPlaces

\* A call holds nothing yet.
LEMMA CallKept ==
  ASSUME NEW r \in Requests, IInv, Call(r) PROVE IInv'
<1> USE DEF PutPlaces, PartPlaces, CompletePlaces, GetPlaces, WritePlaces
<1>1. Moves(r) /\ LeavesLocks(r) /\ slots' = slots
  BY BoundsAssumption DEF Call, At, Move, Moves, RequestOK, Request, LeavesLocks, LockedPlaces, IInv, TypeOK
<1>2. req[r].at = "idle" /\ req'[r].at \in {"putSlot", "completeLock", "partSlot", "getSlot"}
  BY DEF Call, At, Move, IInv, TypeOK, Request
<1>3. Touches(r)
  <2> \A s \in Channels : req[r].at \in Section[s] <=> req'[r].at \in Section[s]
    BY <1>2, Sections
  <2> QED BY <1>1, StayShapes
<1> QED BY <1>1, <1>3, MoveKept DEF TouchesLocks

\* A client that goes away moves no request.
LEMMA HangUpKept ==
  ASSUME NEW r \in Requests, IInv, HangUp(r) PROVE IInv'
<1>1. /\ Moves(r) /\ LeavesLocks(r) /\ slots' = slots
      /\ req'[r].at = req[r].at
  BY DEF HangUp, Moves, RequestOK, Request, LeavesLocks, LockedPlaces, IInv, TypeOK, RequestsOK
<1>2. Touches(r)
  BY <1>1, StayShapes
<1> QED BY <1>1, <1>2, MoveKept DEF TouchesLocks

\* Return and End forget the key, the chunks and the try.
LEMMA ReturnMoves ==
  ASSUME NEW r \in Requests, IInv, Return(r) \/ End(r), limits' = limits
  PROVE  Moves(r) /\ req'[r].at \in {"idle", "getEnd"}
<1> USE BoundsAssumption DEF Moves, RequestOK, Request, IInv, TypeOK,
    PutPlaces, PartPlaces, CompletePlaces, GetPlaces, WritePlaces, Idle
<1>1. CASE Return(r)
  BY <1>1 DEF Return
<1>2. CASE End(r)
  <2>1. req'[r] = [at |-> "getEnd", key |-> None, left |-> 0, try |-> 0, gone |-> req[r].gone]
    BY <1>2 DEF End
  <2> QED BY <1>2, <2>1 DEF End
<1> QED BY <1>1, <1>2

\* The channels r has a token in.
Held(r) == {s \in Channels : req[r].at \in Section[s]}
GivesHeld(r) ==
  /\ slots' = [s \in Channels |-> slots'[s]]
  /\ \A s \in Channels :
       slots'[s] = IF s \in Held(r) /\ limits[s] # 0 THEN slots[s] - 1 ELSE slots[s]

\* A request that returns, or reaches the end of its download, and gives back
\* exactly the slots and the lock that its place holds.
LEMMA ReturnKept ==
  ASSUME NEW r \in Requests, IInv, limits' = limits,
         Return(r) \/ End(r),
         GivesHeld(r),
         \/ req[r].at \in LockedPlaces /\ Free(r)
         \/ req[r].at \notin LockedPlaces /\ UNCHANGED lock
  PROVE  IInv'
<1>1. Moves(r) /\ req'[r].at \in {"idle", "getEnd"}
  BY ReturnMoves
<1>2. TouchesLocks(r)
  BY <1>1 DEF Free, Unlocks, LeavesLocks, TouchesLocks, LockedPlaces
<1>3. \A s \in Channels : req'[r].at \notin Section[s]
  BY <1>1, Sections
<1>4. Touches(r)
  BY <1>3 DEF GivesHeld, Held, Touches, Joins, Leaves, Stays
<1> QED BY <1>1, <1>2, <1>4, MoveKept

\* A write whose wait for a slot is cancelled gives back what it holds: nothing, or
\* its upload slot and, if it puts, its key lock.
LEMMA WriteGivenUpKept ==
  ASSUME NEW r \in Requests, IInv, WriteGivenUp(r) PROVE IInv'
<1> USE DEF WriteGivenUp, At
<1>1. CASE req[r].at \in {"putSlot", "partSlot"}
  <2>1. Held(r) = {}
    BY <1>1, Sections DEF Held
  <2>2. GivesHeld(r)
    BY <1>1, <2>1 DEF GivesHeld, IInv, TypeOK
  <2> QED BY <1>1, <2>2, ReturnKept DEF LockedPlaces
<1>2. CASE req[r].at \in {"putTelegram", "partTelegram"}
  <2>1. Held(r) = {"uploads"}
    BY <1>2, Sections DEF Held
  <2>2. GivesHeld(r)
    BY <1>2, <2>1 DEF Give, GivesHeld
  <2> QED BY <1>2, <2>2, ReturnKept DEF LockedPlaces
<1> QED BY <1>1, <1>2

\* A read whose wait for a slot is cancelled gives back its download slot, if it has one.
LEMMA ReadGivenUpKept ==
  ASSUME NEW r \in Requests, IInv, ReadGivenUp(r) PROVE IInv'
<1> USE DEF ReadGivenUp, At
<1>1. CASE req[r].at = "getSlot"
  <2>1. Held(r) = {}
    BY <1>1, Sections DEF Held
  <2>2. GivesHeld(r)
    BY <1>1, <2>1 DEF GivesHeld, IInv, TypeOK
  <2> QED BY <1>1, <2>2, ReturnKept DEF LockedPlaces
<1>2. CASE req[r].at = "getNext"
  <2>1. Held(r) = {"downloads"}
    BY <1>2, Sections DEF Held
  <2>2. GivesHeld(r)
    BY <1>2, <2>1 DEF Give, GivesHeld
  <2> QED BY <1>2, <2>2, ReturnKept DEF LockedPlaces
<1> QED BY <1>1, <1>2

\* The early returns of a write give back the same things, from the body on or
\* from the call of Telegram on.
LEMMA BodyRefusedKept ==
  ASSUME NEW r \in Requests, IInv, BodyRefused(r) PROVE IInv'
<1>1. Held(r) = {"uploads"}
  BY Sections DEF Held, BodyRefused, At
<1>2. GivesHeld(r)
  BY <1>1 DEF BodyRefused, Give, GivesHeld
<1> QED BY <1>2, ReturnKept DEF BodyRefused, At, LockedPlaces

\* A failed upload gives back both slots and the lock.
LEMMA SendFailedKept ==
  ASSUME NEW r \in Requests, IInv, SendFailed(r) PROVE IInv'
<1>1. Held(r) = {"telegramSem", "uploads"}
  BY Sections DEF Held, SendFailed, At
<1>2. GivesHeld(r)
  BY <1>1 DEF SendFailed, Give, GivesHeld
<1> QED BY <1>2, ReturnKept DEF SendFailed, At, LockedPlaces

\* A commit gives back the upload slot of a put, and the lock.
LEMMA CommitKept ==
  ASSUME NEW r \in Requests, IInv, Commit(r) PROVE IInv'
<1> USE DEF Commit, At
<1>1. CASE req[r].at = "putCommit"
  <2>1. Held(r) = {"uploads"}
    BY <1>1, Sections DEF Held
  <2>2. GivesHeld(r)
    BY <1>1, <2>1 DEF Give, GivesHeld
  <2> QED BY <1>1, <2>2, ReturnKept DEF LockedPlaces
<1>2. CASE req[r].at = "completeCommit"
  <2>1. Held(r) = {}
    BY <1>2, Sections DEF Held
  <2>2. GivesHeld(r)
    BY <1>2, <2>1 DEF GivesHeld, IInv, TypeOK
  <2> QED BY <1>2, <2>2, ReturnKept DEF LockedPlaces
<1> QED BY <1>1, <1>2

\* So do the ends of a download, on each of its paths.
LEMMA DownloadFailedKept ==
  ASSUME NEW r \in Requests, IInv, DownloadFailed(r) PROVE IInv'
<1>1. Held(r) = {"telegramSem", "downloads"}
  BY Sections DEF Held, DownloadFailed, At
<1>2. GivesHeld(r)
  BY <1>1 DEF DownloadFailed, Give, GivesHeld
<1> QED BY <1>2, ReturnKept DEF DownloadFailed, At, LockedPlaces

\* A copy that breaks off gives back both slots.
LEMMA CopyBrokenKept ==
  ASSUME NEW r \in Requests, IInv, CopyBroken(r) PROVE IInv'
<1>1. Held(r) = {"telegramSem", "downloads"}
  BY Sections DEF Held, CopyBroken, At
<1>2. GivesHeld(r)
  BY <1>1 DEF CopyBroken, Give, GivesHeld
<1> QED BY <1>2, ReturnKept DEF CopyBroken, At, LockedPlaces

\* A download that has sent all its chunks gives back its download slot.
LEMMA ThroughKept ==
  ASSUME NEW r \in Requests, IInv, Through(r) PROVE IInv'
<1>1. Held(r) = {"downloads"}
  BY Sections DEF Held, Through, At
<1>2. GivesHeld(r)
  BY <1>1 DEF Through, Give, GivesHeld
<1> QED BY <1>2, ReturnKept DEF Through, At, LockedPlaces

\* A part returns with nothing left to give back.
LEMMA OverKept ==
  ASSUME NEW r \in Requests, IInv, Over(r) PROVE IInv'
<1>1. Held(r) = {}
  BY Sections DEF Held, Over, At
<1>2. GivesHeld(r)
  BY <1>1 DEF Over, GivesHeld, IInv, TypeOK
<1> QED BY <1>2, ReturnKept DEF Over, At, LockedPlaces

\* Waiting: acquire is passed where there is room, the lock taken where it is
\* free.
LEMMA UploadSlotKept ==
  ASSUME NEW r \in Requests, IInv, UploadSlot(r) PROVE IInv'
<1>1. Moves(r) /\ LeavesLocks(r)
  BY DEF UploadSlot, At, Move, Moves, RequestOK, Request, LeavesLocks, LockedPlaces, IInv, TypeOK,
     RequestsOK, PutPlaces, PartPlaces, CompletePlaces, WritePlaces
<1>2. req[r].at \in {"putSlot", "partSlot"} /\ req'[r].at \in {"putLock", "partBody"}
  BY DEF UploadSlot, At, Move, IInv, TypeOK, Request
<1>3. /\ req[r].at \notin Section["uploads"] /\ req'[r].at \in Section["uploads"]
      /\ \A s \in Channels \ {"uploads"} : req[r].at \in Section[s] <=> req'[r].at \in Section[s]
  BY <1>2, Sections
<1>4. Touches(r)
  BY <1>3, TakeShapes DEF UploadSlot, Channels
<1> QED BY <1>1, <1>4, MoveKept DEF TouchesLocks

\* A read takes a download slot.
LEMMA DownloadSlotKept ==
  ASSUME NEW r \in Requests, IInv, DownloadSlot(r) PROVE IInv'
<1>1. Moves(r) /\ LeavesLocks(r)
  BY DEF DownloadSlot, At, Move, Moves, RequestOK, Request, LeavesLocks, LockedPlaces, IInv, TypeOK,
     PutPlaces, CompletePlaces, GetPlaces
<1>2. req[r].at = "getSlot" /\ req'[r].at = "getNext"
  BY DEF DownloadSlot, At, Move, IInv, TypeOK, Request
<1>3. /\ req[r].at \notin Section["downloads"] /\ req'[r].at \in Section["downloads"]
      /\ \A s \in Channels \ {"downloads"} : req[r].at \in Section[s] <=> req'[r].at \in Section[s]
  BY <1>2, Sections
<1>4. Touches(r)
  BY <1>3, TakeShapes DEF DownloadSlot, Channels
<1> QED BY <1>1, <1>4, MoveKept DEF TouchesLocks

\* A write takes the lock of its key when nobody has it.
LEMMA KeyLockKept ==
  ASSUME NEW r \in Requests, IInv, KeyLock(r) PROVE IInv'
<1>1. req[r] \in Request /\ req[r].key \in Keys
  BY DEF KeyLock, At, IInv, TypeOK, RequestsOK, PutPlaces, CompletePlaces
<1>2. Moves(r) /\ req'[r].key = req[r].key /\ slots' = slots
  BY <1>1 DEF KeyLock, At, Move, Moves, RequestOK, Request, IInv, TypeOK,
     PutPlaces, CompletePlaces, WritePlaces
<1>3. \/ req[r].at = "putLock" /\ req'[r].at = "putBody"
      \/ req[r].at = "completeLock" /\ req'[r].at = "completeCommit"
  BY DEF KeyLock, At, Move, IInv, TypeOK, Request
<1>4. Locks(r)
  BY <1>1, <1>2, <1>3 DEF KeyLock, Locks, LockedPlaces
<1>5. \A s \in Channels : req[r].at \in Section[s] <=> req'[r].at \in Section[s]
  BY <1>3, Sections
<1>6. Touches(r)
  BY <1>2, <1>5, StayShapes
<1> QED BY <1>2, <1>4, <1>6, MoveKept DEF TouchesLocks

\* A write or a read takes a Telegram slot.
LEMMA TelegramSlotKept ==
  ASSUME NEW r \in Requests, IInv, TelegramSlot(r) PROVE IInv'
<1>1. Moves(r) /\ LeavesLocks(r)
  BY BoundsAssumption DEF TelegramSlot, At, Move, Moves, RequestOK, Request, LeavesLocks, LockedPlaces,
     IInv, TypeOK, RequestsOK, PutPlaces, PartPlaces, CompletePlaces, WritePlaces, GetPlaces
<1>2. \/ req[r].at = "putTelegram" /\ req'[r].at = "putSend"
      \/ req[r].at = "partTelegram" /\ req'[r].at = "partSend"
      \/ req[r].at = "getNext" /\ req'[r].at = "getFile"
  BY DEF TelegramSlot, At, Move, IInv, TypeOK, Request
<1>3. /\ req[r].at \notin Section["telegramSem"] /\ req'[r].at \in Section["telegramSem"]
      /\ \A s \in Channels \ {"telegramSem"} : req[r].at \in Section[s] <=> req'[r].at \in Section[s]
  BY <1>2, Sections
<1>4. Touches(r)
  BY <1>3, TakeShapes DEF TelegramSlot, Channels
<1> QED BY <1>1, <1>4, MoveKept DEF TouchesLocks

\* The steps of a call of Telegram, and the body that is read before it.
LEMMA BodyKept ==
  ASSUME NEW r \in Requests, IInv, Body(r) PROVE IInv'
<1>1. Moves(r) /\ LeavesLocks(r) /\ slots' = slots
  BY DEF Body, At, Move, Moves, RequestOK, Request, LeavesLocks, LockedPlaces, IInv, TypeOK,
     RequestsOK, PutPlaces, PartPlaces, CompletePlaces, WritePlaces
<1>2. \/ req[r].at = "putBody" /\ req'[r].at \in {"putTelegram", "putCommit"}
      \/ req[r].at = "partBody" /\ req'[r].at = "partTelegram"
  BY DEF Body, At, Move, IInv, TypeOK, Request
<1>3. \A s \in Channels : req[r].at \in Section[s] <=> req'[r].at \in Section[s]
  BY <1>2, Sections
<1>4. Touches(r)
  BY <1>1, <1>3, StayShapes
<1> QED BY <1>1, <1>4, MoveKept DEF TouchesLocks

\* An upload that is done gives back its Telegram slot, and a part its upload slot too.
LEMMA SentKept ==
  ASSUME NEW r \in Requests, IInv, Sent(r) PROVE IInv'
<1>1. CASE At(r, "putSend")
  <2>1. Moves(r) /\ LeavesLocks(r)
    BY <1>1 DEF Sent, At, Move, Moves, RequestOK, Request, LeavesLocks, LockedPlaces, IInv, TypeOK,
       RequestsOK, PutPlaces, CompletePlaces, WritePlaces
  <2>2. req[r].at = "putSend" /\ req'[r].at = "putCommit"
    BY <1>1 DEF Sent, At, Move, IInv, TypeOK, Request
  <2>3. /\ \A s \in {"telegramSem"} : req[r].at \in Section[s] /\ req'[r].at \notin Section[s]
        /\ \A s \in Channels \ {"telegramSem"} : req[r].at \in Section[s] <=> req'[r].at \in Section[s]
    BY <2>2, Sections
  <2>4. Touches(r)
    BY <1>1, <2>3, GiveShapes DEF Sent, At, Channels
  <2> QED BY <2>1, <2>4, MoveKept DEF TouchesLocks
<1>2. CASE At(r, "partSend")
  <2>1. Held(r) = {"telegramSem", "uploads"}
    BY <1>2, Sections DEF Held, At
  <2>2. GivesHeld(r)
    BY <1>2, <2>1 DEF Sent, At, Give, GivesHeld
  <2> QED BY <1>2, <2>2, ReturnKept DEF Sent, At, LockedPlaces
<1> QED BY <1>1, <1>2 DEF Sent

\* getFile has answered: the attempts at the file begin, under the same slots.
LEMMA LocatedKept ==
  ASSUME NEW r \in Requests, IInv, Located(r) PROVE IInv'
<1>1. req[r] \in Request /\ req[r].at = "getFile" /\ req[r].left > 0
  BY DEF Located, At, IInv, TypeOK, RequestsOK
<1>2. /\ req'[r] = [at |-> "getFetch", key |-> req[r].key, left |-> req[r].left,
                   try |-> 1, gone |-> req[r].gone]
      /\ req' = [req EXCEPT ![r] = req'[r]]
  BY <1>1 DEF Located, IInv, TypeOK, Request
<1>3. Moves(r) /\ LeavesLocks(r) /\ slots' = slots
  BY <1>1, <1>2, BoundsAssumption DEF Located, Moves, RequestOK, Request, LeavesLocks, LockedPlaces,
     PutPlaces, CompletePlaces, GetPlaces
<1>4. \A s \in Channels : req[r].at \in Section[s] <=> req'[r].at \in Section[s]
  BY <1>1, <1>2, Sections
<1>5. Touches(r)
  BY <1>3, <1>4, StayShapes
<1> QED BY <1>3, <1>5, MoveKept DEF TouchesLocks

\* The file is there: its bytes are copied under the same slots.
LEMMA FetchedKept ==
  ASSUME NEW r \in Requests, IInv, Fetched(r) PROVE IInv'
<1>1. Moves(r) /\ LeavesLocks(r) /\ slots' = slots
  BY BoundsAssumption DEF Fetched, At, Moves, RequestOK, Request, LeavesLocks, LockedPlaces, IInv, TypeOK,
     RequestsOK, PutPlaces, CompletePlaces, GetPlaces
<1>2. req[r].at = "getFetch" /\ req'[r].at = "getCopy"
  BY DEF Fetched, At, IInv, TypeOK, Request
<1>3. \A s \in Channels : req[r].at \in Section[s] <=> req'[r].at \in Section[s]
  BY <1>2, Sections
<1>4. Touches(r)
  BY <1>1, <1>3, StayShapes
<1> QED BY <1>1, <1>4, MoveKept DEF TouchesLocks

\* A repeated attempt keeps its slots.
LEMMA RetryKept ==
  ASSUME NEW r \in Requests, IInv, Retry(r) PROVE IInv'
<1>1. Moves(r) /\ LeavesLocks(r) /\ slots' = slots /\ req'[r].at = req[r].at
  BY BoundsAssumption DEF Retry, At, Moves, RequestOK, Request, LeavesLocks, LockedPlaces, IInv, TypeOK,
     RequestsOK, PutPlaces, CompletePlaces
<1>2. Touches(r)
  BY <1>1, StayShapes
<1> QED BY <1>1, <1>2, MoveKept DEF TouchesLocks

\* A chunk that has been copied gives back its Telegram slot.
LEMMA CopiedKept ==
  ASSUME NEW r \in Requests, IInv, Copied(r) PROVE IInv'
<1>1. Moves(r) /\ LeavesLocks(r)
  BY BoundsAssumption DEF Copied, At, Moves, RequestOK, Request, LeavesLocks, LockedPlaces, IInv, TypeOK,
     RequestsOK, PutPlaces, CompletePlaces, GetPlaces
<1>2. req[r].at = "getCopy" /\ req'[r].at = "getNext"
  BY DEF Copied, At, IInv, TypeOK, Request
<1>3. /\ \A s \in {"telegramSem"} : req[r].at \in Section[s] /\ req'[r].at \notin Section[s]
      /\ \A s \in Channels \ {"telegramSem"} : req[r].at \in Section[s] <=> req'[r].at \in Section[s]
  BY <1>2, Sections
<1>4. Touches(r)
  BY <1>3, GiveShapes DEF Copied, Channels
<1> QED BY <1>1, <1>4, MoveKept DEF TouchesLocks
--------------------------------------------------------------------------------
(* The specification *)

\* NewObjectStore makes empty channels, and no key is locked yet.
LEMMA InitIInv == Init => IInv
<1> SUFFICES ASSUME Init PROVE IInv
  OBVIOUS
<1>1. TypeOK /\ RequestsOK
  BY BoundsAssumption DEF Init, Idle, TypeOK, Request, RequestsOK, PutPlaces, CompletePlaces
<1>2. \A s \in Channels : Holders(s) = {}
  BY Sections, SMTT(20) DEF Init, Idle, Holders
<1>3. SlotsCount
  BY <1>2, FS_EmptySet DEF Init, SlotsCount
<1>4. LockHeld
  BY NoneAssumption DEF Init, Idle, LockHeld, LockedPlaces
<1>5. SlotsWithin
  BY LimitsAssumption DEF Init, SlotsWithin
<1> QED BY <1>1, <1>3, <1>4, <1>5 DEF IInv

\* Every step keeps the invariant.
LEMMA NextIInv == IInv /\ [Next]_vars => IInv'
<1> SUFFICES ASSUME IInv, [Next]_vars PROVE IInv'
  OBVIOUS
<1>1. CASE UNCHANGED vars
  BY <1>1 DEF vars, IInv, TypeOK, RequestsOK, SlotsCount, LockHeld, SlotsWithin, Holders
<1>2. CASE Next
  <2>1. PICK r \in Requests :
          Call(r) \/ HangUp(r) \/ WriteGivenUp(r) \/ Wait(r) \/ Write(r) \/ Read(r)
    BY <1>2 DEF Next
  <2>2. CASE Call(r) \/ HangUp(r) \/ WriteGivenUp(r)
    BY <2>2, CallKept, HangUpKept, WriteGivenUpKept
  <2>3. CASE Wait(r)
    BY <2>3, UploadSlotKept, DownloadSlotKept, KeyLockKept, TelegramSlotKept DEF Wait
  <2>4. CASE Write(r)
    BY <2>4, BodyKept, BodyRefusedKept, SentKept, SendFailedKept, CommitKept DEF Write
  <2>5. CASE Read(r)
    BY <2>5, ReadGivenUpKept, LocatedKept, FetchedKept, RetryKept, DownloadFailedKept,
       CopiedKept, CopyBrokenKept, ThroughKept, OverKept DEF Read
  <2> QED BY <2>1, <2>2, <2>3, <2>4, <2>5
<1> QED BY <1>1, <1>2

\* Every channel holds exactly one token for each request between its acquire
\* and its release, and every lock is held by the request in its section: no
\* return of store.go loses a slot or a lock, or gives one back twice.
THEOREM Invariance == Spec => []IInv
<1> QED BY InitIInv, NextIInv, PTL DEF Spec

\* Never more requests work at once than the limits allow
\* (docs/superpowers/specs/2026-05-22-go-telegram-s3-design.md:312-316).
THEOREM LimitsHold == Spec => []CallsLimited
<1>1. IInv => CallsLimited
  BY DEF IInv, SlotsCount, SlotsWithin, CallsLimited
<1> QED BY <1>1, Invariance, PTL

\* A receive from the channel where a request stands in its section.
ReleaseReady == \A r \in Requests : \A s \in Held(r) : limits[s] = 0 \/ slots[s] > 0

\* No release of a slot ever blocks (store.go:859, 868-871, 954): whoever may
\* receive from a channel finds a token in it.
THEOREM ReleasesNeverBlock == Spec => []ReleaseReady
<1>1. ASSUME IInv PROVE ReleaseReady
  <2> SUFFICES ASSUME NEW r \in Requests, NEW s \in Held(r), limits[s] # 0
               PROVE  slots[s] > 0
    BY DEF ReleaseReady
  <2>1. s \in Channels /\ r \in Holders(s)
    BY DEF Held, Holders
  <2>2. Cardinality(Holders(s)) \in Nat /\ Cardinality(Holders(s)) # 0
    BY <2>1, HoldersFinite, FS_EmptySet
  <2> QED BY <1>1, <2>1, <2>2 DEF IInv, SlotsCount
<1> QED BY <1>1, Invariance, PTL

\* At most one request is at work under the lock of a key (store.go:172, 363).
Exclusive ==
  \A q, r \in Requests :
    /\ req[q].at \in LockedPlaces /\ req[r].at \in LockedPlaces
    /\ req[q].key = req[r].key
    => q = r

THEOREM OneWriterPerKey == Spec => []Exclusive
<1>1. IInv => Exclusive
  BY DEF IInv, RequestsOK, LockHeld, Exclusive, LockedPlaces, PutPlaces, CompletePlaces
<1> QED BY <1>1, Invariance, PTL
================================================================================
