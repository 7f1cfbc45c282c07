--------------------------- MODULE ObjectStoreProofs ---------------------------
(***************************************************************************)
(* store/store.go for any number of requests, keys, files, sessions and     *)
(* restarts, in three parts.                                                *)
(*                                                                         *)
(* The inductive invariant IInv: an object consists of files sent to        *)
(* Telegram for that bucket and key, objects come and go only under buckets   *)
(* of the running process's snapshot, and the key lock is held exactly in   *)
(* the sections it protects.                                                *)
(*                                                                         *)
(* What becomes of the files that Telegram holds, and how many sessions     *)
(* there can be: FInv.  A request carries files only between an upload and   *)
(* the step that hands them on, and the files it copied out of a session     *)
(* stay accounted for when the session goes away under it.                  *)
(*                                                                         *)
(* ObjectStore implements AtomicObjects.  Every write publishes files that   *)
(* no earlier write has published: a file is in one session, or with one     *)
(* request, or a completion has copied it under the lock of the key; the     *)
(* parts of a session are published only by a completion that is about to    *)
(* delete the session.                                                      *)
(***************************************************************************)
EXTENDS ObjectStore, FiniteSetTheorems, TLAPS

\* The store starts without objects, sessions, requests or locks.
LEMMA InitIInv == Init => IInv
<1> USE NoneAssumption DEF Init, Idle, PutPlaces, PartPlaces, CompletePlaces, LockedPlaces
<1>1. Init => TypeOK
  BY DEF TypeOK, RequestsOK, Request
<1>2. Init => LockHeld
  BY DEF LockHeld
<1>3. Init => FilesOfKey /\ StagedFilesOfKey /\ StagedServed
  BY DEF FilesOfKey, StagedFilesOfKey, StagedServed, Served
<1> QED BY <1>1, <1>2, <1>3 DEF IInv

\* What an upload does, answered or not, however often it is sent: it writes
\* captions of messages that did not exist, and lets go of those it does not
\* return (telegram/client.go:200-249).
LEMMA Uploaded ==
  ASSUME NEW c \in Clients, NEW place, TypeOK, req[c].key \in Keys, Sent(c, place) \/ NotSent(c)
  PROVE  /\ telegram' \in [Files -> Keys \cup {None}]
         /\ dropped' \subseteq Files /\ dropped \subseteq dropped'
         /\ \A f \in Files : telegram[f] # None => telegram'[f] = telegram[f]
<1>1. CASE Sent(c, place)
  <2>1. PICK f \in Unsent, lost \in SUBSET Unsent : Stored(c, {f}, lost)
    BY <1>1 DEF Sent
  <2> QED BY <2>1 DEF Stored, Unsent, TypeOK
<1>2. CASE NotSent(c)
  <2>1. PICK lost \in SUBSET Unsent : Stored(c, {}, lost)
    BY <1>2 DEF NotSent
  <2> QED BY <2>1 DEF Stored, Unsent, TypeOK
<1> QED BY <1>1, <1>2

\* A message keeps its caption.
LEMMA CaptionsStay ==
  ASSUME NEW c \in Clients, NEW place, TypeOK, req[c].key \in Keys, Sent(c, place) \/ NotSent(c)
  PROVE  \A f \in Files, k \in Keys : telegram[f] = k => telegram'[f] = k
BY Uploaded, NoneAssumption

\* An upload that is answered hands over a message that did not exist, with the
\* key of the request in its caption, and lets go of the other copies.
LEMMA Answered ==
  ASSUME NEW c \in Clients, NEW place, TypeOK, Sent(c, place)
  PROVE  \E f \in Files :
           /\ telegram[f] = None /\ telegram'[f] = req[c].key /\ Move(c, place, {f})
           /\ \A g \in Files \ {f} : telegram'[g] # telegram[g] => g \in dropped'
BY DEF Sent, Stored, Unsent, TypeOK

\* A running request may move to another place and take files with it.
LEMMA MovedRequests ==
  ASSUME NEW c \in Clients, NEW place \in PutPlaces \cup PartPlaces \cup CompletePlaces,
         NEW files \in SUBSET Files, RequestsOK, Move(c, place, files), req[c].at # "idle",
         place \in PartPlaces \cup CompletePlaces => req[c].upload \in Uploads
  PROVE  RequestsOK'
<1> DEFINE moved == [req[c] EXCEPT !.at = place, !.files = files]
<1>1. moved \in Request
  BY DEF RequestsOK, Request
<1>2. moved.at = place /\ moved.files = files /\ moved.key = req[c].key /\ moved.upload = req[c].upload
  BY DEF RequestsOK, Request
<1>3. req' = [req EXCEPT ![c] = moved]
  BY DEF Move
<1>4. place # "idle"
  BY DEF PutPlaces, PartPlaces, CompletePlaces
<1> HIDE DEF moved
<1> QED BY <1>1, <1>2, <1>3, <1>4 DEF RequestsOK

\* Keeping captions keeps every file with its key where objects do not change.
LEMMA ObjectsKeepFiles ==
  ASSUME TypeOK, FilesOfKey, UNCHANGED objects,
         \A f \in Files, k \in Keys : telegram[f] = k => telegram'[f] = k
  PROVE  FilesOfKey'
BY DEF TypeOK, RequestsOK, FilesOfKey

\* Nor do sessions and requests lose the key of a file, where sessions do not
\* change and requests go on with the files they had or with none.
LEMMA StagesKeepFiles ==
  ASSUME TypeOK, StagedFilesOfKey, UNCHANGED sessions,
         \A f \in Files, k \in Keys : telegram[f] = k => telegram'[f] = k,
         \A d \in Clients :
           req'[d].files = {} \/ (req'[d].files = req[d].files /\ req'[d].key = req[d].key)
  PROVE  StagedFilesOfKey'
<1>1. ASSUME NEW u \in Uploads, sessions[u] # None, NEW f \in PartFiles(sessions, u)
      PROVE  telegram'[f] = sessions[u].key
  <2>1. f \in Files /\ sessions[u].key \in Keys
    BY <1>1 DEF TypeOK, Session, PartFiles
  <2> QED BY <1>1, <2>1 DEF StagedFilesOfKey
<1>2. ASSUME NEW d \in Clients, NEW f \in req[d].files
      PROVE  telegram'[f] = req[d].key
  <2>1. f \in Files /\ req[d].key \in Keys
    BY <1>2 DEF TypeOK, RequestsOK, Request
  <2> QED BY <1>2, <2>1 DEF StagedFilesOfKey
<1>3. \A u : PartFiles(sessions, u)' = PartFiles(sessions, u)
  BY DEF PartFiles
<1>4. \A d \in Clients : \A f \in req'[d].files : telegram'[f] = req'[d].key
  BY <1>2
<1> QED BY <1>1, <1>3, <1>4 DEF StagedFilesOfKey

\* A PutObject that is admitted holds no lock and no file yet (store.go:152-168).
LEMMA PutCallIInv ==
  ASSUME NEW c \in Clients, NEW k \in Keys, IInv, PutCall(c, k)
  PROVE  IInv'
<1> USE NoneAssumption DEF IInv, PutCall, history, Call, At,
                            Idle, PutPlaces, PartPlaces, CompletePlaces, LockedPlaces
<1>1. TypeOK'
  BY DEF TypeOK, RequestsOK, Request
<1>2. LockHeld'
  BY DEF TypeOK, RequestsOK, Request, LockHeld
<1>3. FilesOfKey'
  BY DEF TypeOK, RequestsOK, Request, FilesOfKey, StagedFilesOfKey
<1>4. StagedFilesOfKey'
  BY DEF TypeOK, RequestsOK, Request, Session, StagedFilesOfKey, PartFiles
<1>5. StagedServed'
  BY DEF TypeOK, RequestsOK, Request, Session, StagedServed, Served
<1> QED BY <1>1, <1>2, <1>3, <1>4, <1>5

\* A PutObject that is turned away before it has the lock (store.go:164-184).
LEMMA PutRefusedIInv ==
  ASSUME NEW c \in Clients, IInv, PutRefused(c)
  PROVE  IInv'
<1> USE NoneAssumption DEF IInv, PutRefused, history, Return, At,
                            Idle, PutPlaces, PartPlaces, CompletePlaces, LockedPlaces
<1>1. TypeOK'
  BY DEF TypeOK, RequestsOK, Request
<1>2. LockHeld'
  BY DEF TypeOK, RequestsOK, Request, LockHeld
<1>3. FilesOfKey'
  BY DEF TypeOK, RequestsOK, Request, FilesOfKey, StagedFilesOfKey
<1>4. StagedFilesOfKey'
  BY DEF TypeOK, RequestsOK, Request, Session, StagedFilesOfKey, PartFiles
<1>5. StagedServed'
  BY DEF TypeOK, RequestsOK, Request, Session, StagedServed, Served
<1> QED BY <1>1, <1>2, <1>3, <1>4, <1>5

\* A PutObject takes the free lock of its key (store.go:171).
LEMMA PutLockedIInv ==
  ASSUME NEW c \in Clients, IInv, PutLocked(c)
  PROVE  IInv'
<1> USE NoneAssumption DEF IInv, PutLocked, history, Move, Take, At,
                            Idle, PutPlaces, PartPlaces, CompletePlaces, LockedPlaces
<1>1. TypeOK'
  <2>1. PICK next \in {"putUpload", "putCommit"} : Move(c, next, {})
    OBVIOUS
  <2>2. RequestsOK /\ req[c].key \in Keys
    BY DEF TypeOK, RequestsOK
  <2>3. RequestsOK'
    <3> HIDE DEF Move
    <3> QED BY <2>1, <2>2, MovedRequests
  <2>4. lock' \in [Keys -> Clients \cup {None}]
    BY <2>2 DEF TypeOK
  <2> QED BY <2>3, <2>4 DEF TypeOK
<1>2. LockHeld'
  BY DEF TypeOK, RequestsOK, Request, LockHeld
<1>3. FilesOfKey'
  BY DEF TypeOK, RequestsOK, Request, FilesOfKey, StagedFilesOfKey
<1>4. StagedFilesOfKey'
  BY DEF TypeOK, RequestsOK, Request, Session, StagedFilesOfKey, PartFiles
<1>5. StagedServed'
  BY DEF TypeOK, RequestsOK, Request, Session, StagedServed, Served
<1> QED BY <1>1, <1>2, <1>3, <1>4, <1>5

\* Telegram stores the file of a PutObject under its key (store.go:780-790).
LEMMA PutSentIInv ==
  ASSUME NEW c \in Clients, IInv, PutSent(c)
  PROVE  IInv'
<1> USE NoneAssumption DEF IInv, PutSent, At,
                            Idle, PutPlaces, PartPlaces, CompletePlaces, LockedPlaces
<1>1. TypeOK'
  <2>1. PICK f \in Files : Move(c, "putCommit", {f})
    BY Answered
  <2>2. req[c].key \in Keys
    BY DEF TypeOK, RequestsOK
  <2>3. RequestsOK'
    <3> HIDE DEF PutPlaces, PartPlaces, CompletePlaces
    <3>1. RequestsOK /\ req[c].at # "idle" /\ (req[c].at = "partUpload" => req[c].upload \in Uploads)
      BY DEF TypeOK, RequestsOK, PartPlaces
    <3>2. /\ {f} \in SUBSET Files
          /\ "putCommit" \in PutPlaces \cup PartPlaces \cup CompletePlaces
          /\ "putCommit" \in PartPlaces \cup CompletePlaces => req[c].upload \in Uploads
      BY <3>1 DEF PutPlaces, PartPlaces, CompletePlaces
    <3> QED BY <2>1, <2>2, <3>1, <3>2, MovedRequests
  <2> QED BY <2>2, <2>3, Uploaded DEF TypeOK
<1>2. req[c].key \in Keys /\ req[c].at # "idle"
  BY DEF TypeOK, RequestsOK
<1>3. PICK f \in Files :
        /\ telegram[f] = None /\ telegram'[f] = req[c].key /\ Move(c, "putCommit", {f})
        /\ \A g \in Files \ {f} : telegram'[g] # telegram[g] => g \in dropped'
  BY Answered
<1>4. /\ req'[c].at = "putCommit" /\ req'[c].files = {f} /\ req'[c].key = req[c].key
      /\ \A d \in Clients \ {c} : req'[d] = req[d]
  BY <1>3 DEF Move, TypeOK, RequestsOK, Request
<1>5. LockHeld'
  BY <1>4 DEF LockHeld
<1>6. FilesOfKey'
  BY <1>2, CaptionsStay, ObjectsKeepFiles
<1>7. StagedFilesOfKey'
  <2>1. \A g \in Files, k \in Keys : telegram[g] = k => telegram'[g] = k
    BY <1>2, CaptionsStay
  <2>2. ASSUME NEW u \in Uploads, sessions[u] # None, NEW g \in PartFiles(sessions, u)
        PROVE  telegram'[g] = sessions[u].key
    <3>1. g \in Files /\ sessions[u].key \in Keys
      BY <2>2 DEF TypeOK, Session, PartFiles
    <3> QED BY <2>1, <2>2, <3>1 DEF StagedFilesOfKey
  <2>3. ASSUME NEW d \in Clients, NEW g \in req'[d].files PROVE telegram'[g] = req'[d].key
    <3>1. CASE d = c
      BY <1>3, <1>4, <2>3, <3>1
    <3>2. CASE d # c
      <4>1. req'[d] = req[d] /\ g \in req[d].files /\ g \in Files /\ req[d].key \in Keys
        BY <1>4, <2>3, <3>2 DEF TypeOK, RequestsOK, Request
      <4> QED BY <2>1, <4>1 DEF StagedFilesOfKey
    <3> QED BY <3>1, <3>2
  <2>4. \A u : PartFiles(sessions, u)' = PartFiles(sessions, u)
    BY DEF PartFiles
  <2> QED BY <2>2, <2>3, <2>4 DEF StagedFilesOfKey
<1>8. StagedServed'
  BY <1>4 DEF StagedServed, Served
<1> QED BY <1>1, <1>5, <1>6, <1>7, <1>8

\* A failed upload gives the lock back (store.go:788-790).
LEMMA PutNotSentIInv ==
  ASSUME NEW c \in Clients, IInv, PutNotSent(c)
  PROVE  IInv'
<1> USE NoneAssumption DEF IInv, PutNotSent, NotSent, Return, Release, At,
                            Idle, PutPlaces, PartPlaces, CompletePlaces, LockedPlaces
<1>0. req[c].key \in Keys /\ NotSent(c)
  BY DEF TypeOK, RequestsOK
<1>1. TypeOK'
  <2>1. RequestsOK' /\ lock' \in [Keys -> Clients \cup {None}]
    BY DEF TypeOK, RequestsOK, Request
  <2> HIDE DEF NotSent
  <2> QED BY <1>0, <2>1, Uploaded DEF TypeOK
<1>2. LockHeld'
  BY DEF TypeOK, RequestsOK, Request, LockHeld
<1>3. FilesOfKey'
  BY <1>0, CaptionsStay, ObjectsKeepFiles
<1>4. StagedFilesOfKey'
  <2>1. \A d \in Clients : req'[d].files = {} \/ (req'[d].files = req[d].files /\ req'[d].key = req[d].key)
    BY DEF TypeOK, RequestsOK
  <2> QED BY <1>0, <2>1, CaptionsStay, StagesKeepFiles
<1>5. StagedServed'
  BY DEF TypeOK, RequestsOK, Request, Session, StagedServed, Served
<1> QED BY <1>1, <1>2, <1>3, <1>4, <1>5

\* The commit makes the uploaded file the object (store.go:830).
LEMMA PutCommitIInv ==
  ASSUME NEW c \in Clients, IInv, PutCommit(c)
  PROVE  IInv'
<1> USE NoneAssumption DEF IInv, PutCommit, history, Return, Release, At,
                            Idle, PutPlaces, PartPlaces, CompletePlaces, LockedPlaces
<1>1. TypeOK'
  BY DEF TypeOK, RequestsOK, Request
<1>2. LockHeld'
  BY DEF TypeOK, RequestsOK, Request, LockHeld
<1>3. FilesOfKey'
  BY DEF TypeOK, RequestsOK, Request, FilesOfKey, StagedFilesOfKey
<1>4. StagedFilesOfKey'
  <2>1. \A d \in Clients : req'[d].files = {} \/ (req'[d].files = req[d].files /\ req'[d].key = req[d].key)
    BY DEF TypeOK, RequestsOK
  <2> QED BY <2>1, StagesKeepFiles
<1>5. StagedServed'
  BY DEF TypeOK, RequestsOK, Request, Session, StagedServed, Served
<1> QED BY <1>1, <1>2, <1>3, <1>4, <1>5

\* A failed commit logs the file and leaves the object (store.go:830-834).
LEMMA PutCommitFailedIInv ==
  ASSUME NEW c \in Clients, IInv, PutCommitFailed(c)
  PROVE  IInv'
<1> USE NoneAssumption DEF IInv, PutCommitFailed, history, Return, Release, At,
                            Idle, PutPlaces, PartPlaces, CompletePlaces, LockedPlaces
<1>1. TypeOK'
  BY DEF TypeOK, RequestsOK, Request
<1>2. LockHeld'
  BY DEF TypeOK, RequestsOK, Request, LockHeld
<1>3. FilesOfKey'
  BY DEF TypeOK, RequestsOK, Request, FilesOfKey, StagedFilesOfKey
<1>4. StagedFilesOfKey'
  <2>1. \A d \in Clients : req'[d].files = {} \/ (req'[d].files = req[d].files /\ req'[d].key = req[d].key)
    BY DEF TypeOK, RequestsOK
  <2> QED BY <2>1, StagesKeepFiles
<1>5. StagedServed'
  BY DEF TypeOK, RequestsOK, Request, Session, StagedServed, Served
<1> QED BY <1>1, <1>2, <1>3, <1>4, <1>5

\* UploadPart finds the session of its key (store.go:262-268).
LEMMA PartCallIInv ==
  ASSUME NEW c \in Clients, NEW k \in Keys, NEW u \in Uploads, IInv, PartCall(c, k, u)
  PROVE  IInv'
<1> USE NoneAssumption DEF IInv, PartCall, history, Call, At,
                            Idle, PutPlaces, PartPlaces, CompletePlaces, LockedPlaces
<1>1. TypeOK'
  BY DEF TypeOK, RequestsOK, Request
<1>2. LockHeld'
  BY DEF TypeOK, RequestsOK, Request, LockHeld
<1>3. FilesOfKey'
  BY DEF TypeOK, RequestsOK, Request, FilesOfKey, StagedFilesOfKey
<1>4. StagedFilesOfKey'
  BY DEF TypeOK, RequestsOK, Request, Session, StagedFilesOfKey, PartFiles
<1>5. StagedServed'
  BY DEF TypeOK, RequestsOK, Request, Session, StagedServed, Served
<1> QED BY <1>1, <1>2, <1>3, <1>4, <1>5

\* Telegram stores a part under the session's key (store.go:324-334).
LEMMA PartSentIInv ==
  ASSUME NEW c \in Clients, IInv, PartSent(c)
  PROVE  IInv'
<1> USE NoneAssumption DEF IInv, PartSent, At,
                            Idle, PutPlaces, PartPlaces, CompletePlaces, LockedPlaces
<1>1. TypeOK'
  <2>1. PICK f \in Files : Move(c, "partStore", {f})
    BY Answered
  <2>2. req[c].key \in Keys
    BY DEF TypeOK, RequestsOK
  <2>3. RequestsOK'
    <3> HIDE DEF PutPlaces, PartPlaces, CompletePlaces
    <3>1. RequestsOK /\ req[c].at # "idle" /\ (req[c].at = "partUpload" => req[c].upload \in Uploads)
      BY DEF TypeOK, RequestsOK, PartPlaces
    <3>2. /\ {f} \in SUBSET Files
          /\ "partStore" \in PutPlaces \cup PartPlaces \cup CompletePlaces
          /\ "partStore" \in PartPlaces \cup CompletePlaces => req[c].upload \in Uploads
      BY <3>1 DEF PutPlaces, PartPlaces, CompletePlaces
    <3> QED BY <2>1, <2>2, <3>1, <3>2, MovedRequests
  <2> QED BY <2>2, <2>3, Uploaded DEF TypeOK
<1>2. req[c].key \in Keys /\ req[c].at # "idle"
  BY DEF TypeOK, RequestsOK
<1>3. PICK f \in Files :
        /\ telegram[f] = None /\ telegram'[f] = req[c].key /\ Move(c, "partStore", {f})
        /\ \A g \in Files \ {f} : telegram'[g] # telegram[g] => g \in dropped'
  BY Answered
<1>4. /\ req'[c].at = "partStore" /\ req'[c].files = {f} /\ req'[c].key = req[c].key
      /\ \A d \in Clients \ {c} : req'[d] = req[d]
  BY <1>3 DEF Move, TypeOK, RequestsOK, Request
<1>5. LockHeld'
  BY <1>4 DEF LockHeld
<1>6. FilesOfKey'
  BY <1>2, CaptionsStay, ObjectsKeepFiles
<1>7. StagedFilesOfKey'
  <2>1. \A g \in Files, k \in Keys : telegram[g] = k => telegram'[g] = k
    BY <1>2, CaptionsStay
  <2>2. ASSUME NEW u \in Uploads, sessions[u] # None, NEW g \in PartFiles(sessions, u)
        PROVE  telegram'[g] = sessions[u].key
    <3>1. g \in Files /\ sessions[u].key \in Keys
      BY <2>2 DEF TypeOK, Session, PartFiles
    <3> QED BY <2>1, <2>2, <3>1 DEF StagedFilesOfKey
  <2>3. ASSUME NEW d \in Clients, NEW g \in req'[d].files PROVE telegram'[g] = req'[d].key
    <3>1. CASE d = c
      BY <1>3, <1>4, <2>3, <3>1
    <3>2. CASE d # c
      <4>1. req'[d] = req[d] /\ g \in req[d].files /\ g \in Files /\ req[d].key \in Keys
        BY <1>4, <2>3, <3>2 DEF TypeOK, RequestsOK, Request
      <4> QED BY <2>1, <4>1 DEF StagedFilesOfKey
    <3> QED BY <3>1, <3>2
  <2>4. \A u : PartFiles(sessions, u)' = PartFiles(sessions, u)
    BY DEF PartFiles
  <2> QED BY <2>2, <2>3, <2>4 DEF StagedFilesOfKey
<1>8. StagedServed'
  BY <1>4 DEF StagedServed, Served
<1> QED BY <1>1, <1>5, <1>6, <1>7, <1>8

\* A part that could not be uploaded changes no session (store.go:277-279).
LEMMA PartNotSentIInv ==
  ASSUME NEW c \in Clients, IInv, PartNotSent(c)
  PROVE  IInv'
<1> USE NoneAssumption DEF IInv, PartNotSent, NotSent, Return, At,
                            Idle, PutPlaces, PartPlaces, CompletePlaces, LockedPlaces
<1>0. req[c].key \in Keys /\ NotSent(c)
  BY DEF TypeOK, RequestsOK
<1>1. TypeOK'
  <2>1. RequestsOK' /\ lock' \in [Keys -> Clients \cup {None}]
    BY DEF TypeOK, RequestsOK, Request
  <2> HIDE DEF NotSent
  <2> QED BY <1>0, <2>1, Uploaded DEF TypeOK
<1>2. LockHeld'
  BY DEF TypeOK, RequestsOK, Request, LockHeld
<1>3. FilesOfKey'
  BY <1>0, CaptionsStay, ObjectsKeepFiles
<1>4. StagedFilesOfKey'
  <2>1. \A d \in Clients : req'[d].files = {} \/ (req'[d].files = req[d].files /\ req'[d].key = req[d].key)
    BY DEF TypeOK, RequestsOK
  <2> QED BY <1>0, <2>1, CaptionsStay, StagesKeepFiles
<1>5. StagedServed'
  BY DEF TypeOK, RequestsOK, Request, Session, StagedServed, Served
<1> QED BY <1>1, <1>2, <1>3, <1>4, <1>5

\* The part is filed in the session of its own key (store.go:284-299).
LEMMA PartStoredIInv ==
  ASSUME NEW c \in Clients, NEW n \in PartNumbers, IInv, PartStored(c, n)
  PROVE  IInv'
<1> USE NoneAssumption DEF IInv, PartStored, history, Matches, Return, At,
                            Idle, PutPlaces, PartPlaces, CompletePlaces, LockedPlaces
<1>1. TypeOK'
  <2>1. PICK f \in req[c].files : sessions' = [sessions EXCEPT ![req[c].upload].parts[n] = f]
    OBVIOUS
  <2>2. f \in Files /\ req[c].upload \in Uploads /\ sessions[req[c].upload] \in Session
    BY <2>1 DEF TypeOK, RequestsOK, Request
  <2>3. sessions' \in [Uploads -> Session \cup {None}]
    BY <2>1, <2>2 DEF TypeOK, Session
  <2>4. logged' \subseteq Files
    BY <2>2 DEF TypeOK, Session
  <2>5. RequestsOK'
    BY DEF TypeOK, RequestsOK, Request
  <2> QED BY <2>3, <2>4, <2>5 DEF TypeOK
<1>2. LockHeld'
  BY DEF TypeOK, RequestsOK, Request, LockHeld
<1>3. FilesOfKey'
  BY DEF TypeOK, RequestsOK, Request, FilesOfKey, StagedFilesOfKey
<1>4. StagedFilesOfKey'
  BY DEF TypeOK, RequestsOK, Request, Session, StagedFilesOfKey, PartFiles
<1>5. StagedServed'
  BY DEF TypeOK, RequestsOK, Request, Session, StagedServed, Served
<1> QED BY <1>1, <1>2, <1>3, <1>4, <1>5

\* A part whose session went away is filed nowhere (store.go:285-288).
LEMMA PartTooLateIInv ==
  ASSUME NEW c \in Clients, IInv, PartTooLate(c)
  PROVE  IInv'
<1> USE NoneAssumption DEF IInv, PartTooLate, history, Matches, Return, At,
                            Idle, PutPlaces, PartPlaces, CompletePlaces, LockedPlaces
<1>1. TypeOK'
  BY DEF TypeOK, RequestsOK, Request
<1>2. LockHeld'
  BY DEF TypeOK, RequestsOK, Request, LockHeld
<1>3. FilesOfKey'
  BY DEF TypeOK, RequestsOK, Request, FilesOfKey, StagedFilesOfKey
<1>4. StagedFilesOfKey'
  BY DEF TypeOK, RequestsOK, Request, Session, StagedFilesOfKey, PartFiles
<1>5. StagedServed'
  BY DEF TypeOK, RequestsOK, Request, Session, StagedServed, Served
<1> QED BY <1>1, <1>2, <1>3, <1>4, <1>5

\* CompleteMultipartUpload asks for the lock of its key (store.go:357-362).
LEMMA CompleteCallIInv ==
  ASSUME NEW c \in Clients, NEW k \in Keys, NEW u \in Uploads, IInv, CompleteCall(c, k, u)
  PROVE  IInv'
<1> USE NoneAssumption DEF IInv, CompleteCall, history, Call, At,
                            Idle, PutPlaces, PartPlaces, CompletePlaces, LockedPlaces
<1>1. TypeOK'
  BY DEF TypeOK, RequestsOK, Request
<1>2. LockHeld'
  BY DEF TypeOK, RequestsOK, Request, LockHeld
<1>3. FilesOfKey'
  BY DEF TypeOK, RequestsOK, Request, FilesOfKey, StagedFilesOfKey
<1>4. StagedFilesOfKey'
  BY DEF TypeOK, RequestsOK, Request, Session, StagedFilesOfKey, PartFiles
<1>5. StagedServed'
  BY DEF TypeOK, RequestsOK, Request, Session, StagedServed, Served
<1> QED BY <1>1, <1>2, <1>3, <1>4, <1>5

\* A manifest that does not fit the session changes nothing (store.go:366-374).
LEMMA CompleteRefusedIInv ==
  ASSUME NEW c \in Clients, IInv, CompleteRefused(c)
  PROVE  IInv'
<1> USE NoneAssumption DEF IInv, CompleteRefused, history, Return, At,
                            Idle, PutPlaces, PartPlaces, CompletePlaces, LockedPlaces
<1>1. TypeOK'
  BY DEF TypeOK, RequestsOK, Request
<1>2. LockHeld'
  BY DEF TypeOK, RequestsOK, Request, LockHeld
<1>3. FilesOfKey'
  BY DEF TypeOK, RequestsOK, Request, FilesOfKey, StagedFilesOfKey
<1>4. StagedFilesOfKey'
  BY DEF TypeOK, RequestsOK, Request, Session, StagedFilesOfKey, PartFiles
<1>5. StagedServed'
  BY DEF TypeOK, RequestsOK, Request, Session, StagedServed, Served
<1> QED BY <1>1, <1>2, <1>3, <1>4, <1>5

\* The parts copied from the session are files of its key (store.go:365-375).
LEMMA CompleteCheckedIInv ==
  ASSUME NEW c \in Clients, IInv, CompleteChecked(c)
  PROVE  IInv'
<1> USE NoneAssumption DEF IInv, CompleteChecked, history, Move, Take, Matches, At,
                            Idle, PutPlaces, PartPlaces, CompletePlaces, LockedPlaces
<1>1. TypeOK'
  <2>1. PICK ns \in (SUBSET PartNumbers) \ {{}} :
          /\ \A n \in ns : sessions[req[c].upload].parts[n] # None
          /\ Move(c, "completeCommit", {sessions[req[c].upload].parts[n] : n \in ns})
    OBVIOUS
  <2>2. RequestsOK /\ req[c].upload \in Uploads /\ req[c].key \in Keys
    BY DEF TypeOK, RequestsOK
  <2>3. {sessions[req[c].upload].parts[n] : n \in ns} \subseteq Files
    BY <2>1, <2>2 DEF TypeOK, Session
  <2>4. RequestsOK'
    BY <2>1, <2>2, <2>3, MovedRequests
  <2>5. lock' \in [Keys -> Clients \cup {None}]
    BY <2>2 DEF TypeOK
  <2> QED BY <2>4, <2>5 DEF TypeOK
<1>2. LockHeld'
  BY DEF TypeOK, RequestsOK, Request, LockHeld
<1>3. FilesOfKey'
  BY DEF TypeOK, RequestsOK, Request, FilesOfKey, StagedFilesOfKey
<1>4. StagedFilesOfKey'
  BY DEF TypeOK, RequestsOK, Request, Session, StagedFilesOfKey, PartFiles
<1>5. StagedServed'
  BY DEF TypeOK, RequestsOK, Request, Session, StagedServed, Served
<1> QED BY <1>1, <1>2, <1>3, <1>4, <1>5

\* The parts become the object of the key (store.go:378).
LEMMA CompleteCommitIInv ==
  ASSUME NEW c \in Clients, IInv, CompleteCommit(c)
  PROVE  IInv'
<1> USE NoneAssumption DEF IInv, CompleteCommit, history, Move, At,
                            Idle, PutPlaces, PartPlaces, CompletePlaces, LockedPlaces
<1>1. TypeOK'
  <2>1. /\ RequestsOK /\ req[c].at # "idle" /\ req[c].upload \in Uploads
        /\ req[c].files \in SUBSET Files /\ req[c].key \in Keys
    BY DEF TypeOK, RequestsOK, Request
  <2>2. RequestsOK'
    <3> HIDE DEF Move
    <3> QED BY <2>1, MovedRequests
  <2>3. /\ objects' \in [Keys -> (SUBSET Files) \cup {None}]
        /\ published' \subseteq Files
    BY <2>1 DEF TypeOK
  <2> QED BY <2>2, <2>3 DEF TypeOK
<1>2. LockHeld'
  <2>1. req'[c].at = "completeForget" /\ req'[c].key = req[c].key
    BY DEF TypeOK, RequestsOK, Request
  <2>2. \A d \in Clients : d # c => req'[d] = req[d]
    BY DEF TypeOK, RequestsOK
  <2>3. req[c].at = "completeCommit" /\ lock' = lock
    OBVIOUS
  <2> QED BY <2>1, <2>2, <2>3 DEF LockHeld
<1>3. FilesOfKey'
  BY DEF TypeOK, RequestsOK, Request, FilesOfKey, StagedFilesOfKey
<1>4. StagedFilesOfKey'
  <2>1. \A d \in Clients : req'[d].files = {} \/ (req'[d].files = req[d].files /\ req'[d].key = req[d].key)
    BY DEF TypeOK, RequestsOK
  <2> QED BY <2>1, StagesKeepFiles
<1>5. StagedServed'
  BY DEF TypeOK, RequestsOK, Request, Session, StagedServed, Served
<1> QED BY <1>1, <1>2, <1>3, <1>4, <1>5

\* A failed commit leaves object and session (store.go:378-381).
LEMMA CompleteCommitFailedIInv ==
  ASSUME NEW c \in Clients, IInv, CompleteCommitFailed(c)
  PROVE  IInv'
<1> USE NoneAssumption DEF IInv, CompleteCommitFailed, history, Return, Release, At,
                            Idle, PutPlaces, PartPlaces, CompletePlaces, LockedPlaces
<1>1. TypeOK'
  BY DEF TypeOK, RequestsOK, Request
<1>2. LockHeld'
  BY DEF TypeOK, RequestsOK, Request, LockHeld
<1>3. FilesOfKey'
  BY DEF TypeOK, RequestsOK, Request, FilesOfKey, StagedFilesOfKey
<1>4. StagedFilesOfKey'
  <2>1. \A d \in Clients : req'[d].files = {} \/ (req'[d].files = req[d].files /\ req'[d].key = req[d].key)
    BY DEF TypeOK, RequestsOK
  <2> QED BY <2>1, StagesKeepFiles
<1>5. StagedServed'
  BY DEF TypeOK, RequestsOK, Request, Session, StagedServed, Served
<1> QED BY <1>1, <1>2, <1>3, <1>4, <1>5

\* The committed session is deleted and the lock given back (store.go:386-388).
LEMMA CompleteForgetIInv ==
  ASSUME NEW c \in Clients, IInv, CompleteForget(c)
  PROVE  IInv'
<1> USE NoneAssumption DEF IInv, CompleteForget, history, Return, Release, At,
                            Idle, PutPlaces, PartPlaces, CompletePlaces, LockedPlaces
<1>1. TypeOK'
  <2>1. sessions' \in [Uploads -> Session \cup {None}]
    BY DEF TypeOK, RequestsOK
  <2>2. dropped' \subseteq Files
    <3>1. PartFiles(sessions, req[c].upload) \subseteq Files
      BY DEF TypeOK, RequestsOK, Session, PartFiles
    <3> QED BY <3>1 DEF TypeOK, RequestsOK
  <2>3. lock' \in [Keys -> Clients \cup {None}] /\ req' \in [Clients -> Request]
    BY DEF TypeOK, RequestsOK, Request
  <2> QED BY <2>1, <2>2, <2>3 DEF TypeOK, RequestsOK
<1>2. LockHeld'
  BY DEF TypeOK, RequestsOK, Request, LockHeld
<1>3. FilesOfKey'
  BY DEF TypeOK, RequestsOK, Request, FilesOfKey, StagedFilesOfKey
<1>4. StagedFilesOfKey'
  BY DEF TypeOK, RequestsOK, Request, Session, StagedFilesOfKey, PartFiles
<1>5. StagedServed'
  BY DEF TypeOK, RequestsOK, Request, Session, StagedServed, Served
<1> QED BY <1>1, <1>2, <1>3, <1>4, <1>5

\* A delete removes an object and leaves all else (store.go:715-726).
LEMMA DeleteObjectIInv ==
  ASSUME NEW k \in Keys, IInv, DeleteObject(k)
  PROVE  IInv'
<1> USE DEF IInv, DeleteObject, history
<1>1. TypeOK'
  BY DEF TypeOK, RequestsOK
<1>2. LockHeld' /\ StagedFilesOfKey'
  BY DEF LockHeld, StagedFilesOfKey, PartFiles
<1>3. FilesOfKey'
  BY DEF TypeOK, RequestsOK, FilesOfKey
<1>4. StagedServed'
  BY DEF TypeOK, RequestsOK, StagedServed, Served
<1> QED BY <1>1, <1>2, <1>3, <1>4

\* Sessions may be replaced by others of served keys whose files are of their
\* key: what every session operation relies on.
LEMMA SessionsIInv ==
  ASSUME IInv, UNCHANGED <<objects, telegram, lock, req, published, dropped, crashes>>,
         sessions' \in [Uploads -> Session \cup {None}],
         issued' \subseteq Uploads, logged' \subseteq Files,
         \A u \in Uploads : sessions'[u] # None =>
           /\ Served(sessions'[u].key)
           /\ \A f \in PartFiles(sessions', u) : telegram[f] = sessions'[u].key
  PROVE  IInv'
<1> USE DEF IInv
<1>1. TypeOK'
  BY DEF TypeOK, RequestsOK
<1>2. LockHeld' /\ FilesOfKey'
  BY DEF LockHeld, FilesOfKey
<1>3. StagedFilesOfKey'
  BY DEF StagedFilesOfKey, PartFiles
<1>4. StagedServed'
  BY DEF StagedServed, Served
<1> QED BY <1>1, <1>2, <1>3, <1>4

\* The files of a session's parts are files.
LEMMA PartFilesType ==
  ASSUME NEW ss \in [Uploads -> Session \cup {None}], NEW u \in Uploads
  PROVE  PartFiles(ss, u) \subseteq Files
BY DEF PartFiles, Session

\* Creating a session for a served key, with whatever the limit evicts.
LEMMA CreateUploadIInv ==
  ASSUME NEW k \in Keys, NEW u \in Uploads, NEW t \in Times, IInv, CreateUpload(k, u, t)
  PROVE  IInv'
<1> DEFINE new == [key |-> k, createdAt |-> t, parts |-> NoParts]
           grown == [sessions EXCEPT ![u] = new]
<1>1. new \in Session /\ Served(k)
  BY BoundsAssumption DEF Session, NoParts, CreateUpload
<1>2. grown \in [Uploads -> Session \cup {None}]
  BY <1>1 DEF IInv, TypeOK, RequestsOK
<1>3. \A v \in Uploads : grown[v] # None =>
        /\ Served(grown[v].key)
        /\ \A f \in PartFiles(grown, v) : telegram[f] = grown[v].key
  <2> SUFFICES ASSUME NEW v \in Uploads, grown[v] # None
               PROVE  /\ Served(grown[v].key)
                      /\ \A f \in PartFiles(grown, v) : telegram[f] = grown[v].key
    OBVIOUS
  <2>1. CASE v = u
    <3>1. grown[v] = new
      BY <2>1 DEF IInv, TypeOK, RequestsOK
    <3>2. PartFiles(grown, v) = {}
      BY <3>1 DEF PartFiles, NoParts
    <3>3. grown[v].key = k
      BY <3>1
    <3> HIDE DEF grown, new
    <3> QED BY <1>1, <3>2, <3>3
  <2>2. CASE v # u
    <3>1. grown[v] = sessions[v] /\ PartFiles(grown, v) = PartFiles(sessions, v)
      BY <2>2 DEF IInv, TypeOK, RequestsOK, PartFiles
    <3> QED BY <3>1 DEF IInv, StagedServed, Served, StagedFilesOfKey
  <2> QED BY <2>1, <2>2
<1> HIDE DEF grown
<1>4. EvictOldest(grown) /\ UNCHANGED <<objects, telegram, lock, req, published, dropped, crashes>>
      /\ issued' \subseteq Uploads
  BY DEF CreateUpload, history, grown, IInv, TypeOK
<1>5. CASE sessions' = grown /\ UNCHANGED logged
  <2>1. logged' \subseteq Files
    BY <1>5 DEF IInv, TypeOK, RequestsOK
  <2> QED BY <1>2, <1>3, <1>4, <1>5, <2>1, SessionsIInv
<1>6. CASE \E w \in Oldest(grown) :
             sessions' = [grown EXCEPT ![w] = None] /\ logged' = logged \cup PartFiles(grown, w)
  <2>1. PICK w \in Uploads :
          sessions' = [grown EXCEPT ![w] = None] /\ logged' = logged \cup PartFiles(grown, w)
    BY <1>6 DEF Oldest, Live
  <2>2. logged' \subseteq Files /\ sessions' \in [Uploads -> Session \cup {None}]
    BY <1>2, <2>1, PartFilesType DEF IInv, TypeOK, RequestsOK
  <2>3. \A v \in Uploads : sessions'[v] # None =>
          sessions'[v] = grown[v] /\ PartFiles(sessions', v) = PartFiles(grown, v)
    BY <1>2, <2>1 DEF PartFiles
  <2> QED BY <1>3, <1>4, <2>2, <2>3, SessionsIInv
<1> QED BY <1>4, <1>5, <1>6 DEF EvictOldest

\* Aborting removes one session and logs its files (store.go:465-478).
LEMMA AbortUploadIInv ==
  ASSUME NEW u \in Uploads, IInv, AbortUpload(u)
  PROVE  IInv'
<1>1. /\ sessions' = [sessions EXCEPT ![u] = None]
      /\ logged' = logged \cup PartFiles(sessions, u)
      /\ UNCHANGED <<objects, telegram, issued, lock, req, published, dropped, crashes>>
  BY DEF AbortUpload, history
<1>2. logged' \subseteq Files /\ sessions' \in [Uploads -> Session \cup {None}]
  BY <1>1, PartFilesType DEF IInv, TypeOK, RequestsOK
<1>3. \A v \in Uploads : sessions'[v] # None =>
        sessions'[v] = sessions[v] /\ PartFiles(sessions', v) = PartFiles(sessions, v)
  BY <1>1 DEF IInv, TypeOK, RequestsOK, PartFiles
<1>4. issued' \subseteq Uploads
  BY <1>1 DEF IInv, TypeOK, RequestsOK
<1>5. \A v \in Uploads : sessions'[v] # None =>
        /\ Served(sessions'[v].key)
        /\ \A f \in PartFiles(sessions', v) : telegram[f] = sessions'[v].key
  BY <1>3 DEF IInv, StagedServed, Served, StagedFilesOfKey
<1> QED BY <1>1, <1>2, <1>4, <1>5, SessionsIInv

\* A restart empties memory and leaves Telegram and SQLite.
LEMMA CrashIInv ==
  ASSUME IInv, Crash
  PROVE  IInv'
<1> USE NoneAssumption DEF IInv, Crash, Idle
<1>1. TypeOK'
  <2>1. \A u \in Uploads : PartFiles(sessions, u) \subseteq Files
    BY PartFilesType DEF TypeOK, RequestsOK
  <2>2. dropped' \subseteq Files
    BY <2>1 DEF TypeOK, RequestsOK, Request
  <2>3. /\ sessions' \in [Uploads -> Session \cup {None}] /\ lock' \in [Keys -> Clients \cup {None}]
        /\ req' \in [Clients -> Request] /\ crashes' \in Nat
    BY DEF TypeOK, RequestsOK, Request
  <2> QED BY <2>2, <2>3 DEF TypeOK, RequestsOK, PartPlaces, CompletePlaces
<1>2. LockHeld' /\ FilesOfKey'
  BY DEF LockHeld, FilesOfKey, LockedPlaces
<1>3. StagedFilesOfKey' /\ StagedServed'
  BY DEF StagedFilesOfKey, StagedServed, Served, PutPlaces, PartPlaces, LockedPlaces
<1> QED BY <1>1, <1>2, <1>3

\* The inductive invariant holds in every state of the store.
THEOREM Invariance == Spec => []IInv
<1>1. IInv /\ [Next]_vars => IInv'
  <2> SUFFICES ASSUME IInv, [Next]_vars PROVE IInv'
    OBVIOUS
  <2>1. ASSUME NEW c \in Clients, Put(c) PROVE IInv'
    BY <2>1, PutCallIInv, PutRefusedIInv, PutLockedIInv, PutSentIInv, PutNotSentIInv,
       PutCommitIInv, PutCommitFailedIInv DEF Put
  <2>2. ASSUME NEW c \in Clients, Part(c) PROVE IInv'
    BY <2>2, PartCallIInv, PartSentIInv, PartNotSentIInv, PartStoredIInv, PartTooLateIInv DEF Part
  <2>3. ASSUME NEW c \in Clients, Complete(c) PROVE IInv'
    BY <2>3, CompleteCallIInv, CompleteRefusedIInv, CompleteCheckedIInv, CompleteCommitIInv,
       CompleteCommitFailedIInv, CompleteForgetIInv DEF Complete
  <2>4. CASE UNCHANGED vars
    BY <2>4 DEF vars, IInv, TypeOK, RequestsOK, LockHeld, FilesOfKey, StagedFilesOfKey, StagedServed, Served, PartFiles
  <2> QED BY <2>1, <2>2, <2>3, <2>4, DeleteObjectIInv, CreateUploadIInv, AbortUploadIInv, CrashIInv
          DEF Next
<1> QED BY InitIInv, <1>1, PTL DEF Spec

\* Every file of an object was sent to Telegram for that bucket and key.
THEOREM ObjectsOwnTheirFiles == Spec => []FilesOfKey
<1>1. IInv => FilesOfKey
  BY DEF IInv
<1> QED BY <1>1, Invariance, PTL

\* Only the two commits and DeleteObject touch an object.
LEMMA OthersLeaveObjects ==
  ASSUME Next
  PROVE  \/ UNCHANGED objects
         \/ \E c \in Clients : PutCommit(c) \/ CompleteCommit(c)
         \/ \E k \in Keys : DeleteObject(k)
<1>1. ASSUME NEW c \in Clients, Put(c) PROVE UNCHANGED objects \/ PutCommit(c)
  BY <1>1 DEF Put, PutCall, PutRefused, PutLocked, PutSent, PutNotSent, PutCommitFailed
<1>2. ASSUME NEW c \in Clients, Part(c) PROVE UNCHANGED objects
  BY <1>2 DEF Part, PartCall, PartSent, PartNotSent, PartTooLate, PartStored
<1>3. ASSUME NEW c \in Clients, Complete(c) PROVE UNCHANGED objects \/ CompleteCommit(c)
  BY <1>3 DEF Complete, CompleteCall, CompleteRefused, CompleteChecked, CompleteCommitFailed, CompleteForget
<1>4. ASSUME NEW k \in Keys, NEW u \in Uploads, NEW t \in Times, CreateUpload(k, u, t) PROVE UNCHANGED objects
  BY <1>4 DEF CreateUpload
<1>5. ASSUME NEW u \in Uploads, AbortUpload(u) PROVE UNCHANGED objects
  BY <1>5 DEF AbortUpload
<1>6. ASSUME Crash PROVE UNCHANGED objects
  BY <1>6 DEF Crash
<1> QED BY <1>1, <1>2, <1>3, <1>4, <1>5, <1>6 DEF Next

\* No object comes or goes under a bucket outside the snapshot of the running
\* process, whatever earlier processes served.
THEOREM SnapshotConfines == Spec => OnlyServedChange
<1>1. IInv /\ [Next]_vars => [\A k \in Keys : objects'[k] # objects[k] => Served(k)]_vars
  <2> SUFFICES ASSUME IInv, Next, NEW k \in Keys, objects'[k] # objects[k] PROVE Served(k)
    OBVIOUS
  <2>1. ASSUME NEW c \in Clients, PutCommit(c) \/ CompleteCommit(c) PROVE Served(k)
    <3>1. req[c].at \in LockedPlaces /\ objects' = [objects EXCEPT ![req[c].key] = req[c].files]
      BY <2>1 DEF PutCommit, CompleteCommit, At, LockedPlaces
    <3>2. k = req[c].key
      BY <3>1 DEF IInv, TypeOK
    <3> QED BY <3>1, <3>2 DEF IInv, StagedServed
  <2>2. ASSUME NEW j \in Keys, DeleteObject(j) PROVE Served(k)
    <3>1. k = j
      BY <2>2 DEF DeleteObject, IInv, TypeOK
    <3> QED BY <2>2, <3>1 DEF DeleteObject
  <2> QED BY <2>1, <2>2, OthersLeaveObjects
<1> QED BY <1>1, Invariance, PTL DEF Spec, OnlyServedChange

\* The lock of a key is held exactly by a request in its protected section, so
\* two requests are never in the protected section of one key.
THEOREM ProtectedSections ==
  Spec => [](\A c, d \in Clients :
               req[c].at \in LockedPlaces /\ req[d].at \in LockedPlaces /\ req[c].key = req[d].key
                 => c = d)
<1>1. IInv => \A c, d \in Clients :
                req[c].at \in LockedPlaces /\ req[d].at \in LockedPlaces /\ req[c].key = req[d].key
                  => c = d
  BY DEF IInv, TypeOK, RequestsOK, LockHeld, LockedPlaces
<1> QED BY <1>1, Invariance, PTL
--------------------------------------------------------------------------------
(* Files and sessions *)

\* What was part of an object, is named in the log, or was let go of.
Settled == published \cup logged \cup dropped

\* What a request may carry at its place.
Carries(c) ==
  /\ req[c].at \notin {"putCommit", "partStore", "completeCommit", "completeForget"} => req[c].files = {}
  /\ req[c].at = "partStore" => \E f \in Files : req[c].files = {f}
  /\ req[c].at = "completeCommit" => req[c].files \subseteq Settled \cup PartFiles(sessions, req[c].upload)
  /\ req[c].at = "completeForget" => req[c].files \subseteq published

SessionsIssued == \A u \in Uploads : sessions[u] # None => u \in issued

Accounted == (\A c \in Clients : Carries(c)) /\ SessionsIssued /\ NoUntrackedFile

FInv == IInv /\ Accounted
--------------------------------------------------------------------------------
(* What a step must do for its files *)

\* Nothing that is settled is unsettled, a file leaves a session only to be
\* settled.
Settles ==
  /\ published \subseteq published' /\ Settled \subseteq Settled'
  /\ \A u \in Uploads : PartFiles(sessions, u) \subseteq PartFiles(sessions', u) \cup Settled'

\* A step that hands on what it takes keeps every file accounted for.
LEMMA HandedOn ==
  ASSUME FInv, Settles, SessionsIssued',
         \A d \in Clients :
           req'[d] = req[d] \/ (Carries(d)' /\ req[d].files \subseteq Tracked'),
         \A f \in Files : telegram[f] = None => telegram'[f] = None \/ f \in Tracked'
  PROVE  Accounted'
<1>1. \A u : PartFiles(sessions, u)' = PartFiles(sessions', u)
  BY DEF PartFiles
<1>2. ASSUME NEW d \in Clients PROVE Carries(d)'
  <2>1. CASE req'[d] = req[d]
    <3>1. req[d].at = "completeCommit" => req[d].upload \in Uploads
      BY DEF FInv, IInv, TypeOK, RequestsOK, CompletePlaces
    <3>2. Carries(d)
      BY DEF FInv, Accounted
    <3>3. req[d].at = "completeCommit" => req'[d].files \subseteq Settled' \cup PartFiles(sessions, req[d].upload)'
      BY <1>1, <2>1, <3>1, <3>2 DEF Carries, Settles
    <3>4. req[d].at = "completeForget" => req'[d].files \subseteq published'
      BY <2>1, <3>2 DEF Carries, Settles
    <3> QED BY <2>1, <3>2, <3>3, <3>4 DEF Carries
  <2> QED BY <2>1
<1>3. NoUntrackedFile'
  <2> SUFFICES ASSUME NEW f \in Files, telegram'[f] # None PROVE f \in Tracked'
    BY DEF NoUntrackedFile, Unsent
  <2>1. CASE telegram[f] = None
    BY <2>1
  <2>2. CASE telegram[f] # None
    <3>1. f \in Tracked
      BY <2>2 DEF FInv, Accounted, NoUntrackedFile, Unsent
    <3>2. CASE f \in Settled
      BY <3>2 DEF Settles, Settled, Tracked
    <3>3. CASE \E u \in Uploads : f \in PartFiles(sessions, u)
      BY <1>1, <3>3 DEF Settles, Settled, Tracked
    <3>4. CASE \E d \in Clients : f \in req[d].files
      BY <3>4 DEF Tracked
    <3> QED BY <3>1, <3>2, <3>3, <3>4 DEF Tracked, Settled
  <2> QED BY <2>1, <2>2
<1> QED BY <1>2, <1>3 DEF Accounted

\* The settled files of a step that leaves sessions alone.
LEMMA SessionsStay ==
  ASSUME FInv, UNCHANGED <<sessions, issued>>, published \subseteq published', Settled \subseteq Settled'
  PROVE  Settles /\ SessionsIssued'
BY DEF Settles, FInv, Accounted, SessionsIssued

\* Calls, refusals and returns of requests that carry nothing.
LEMMA EmptyHanded ==
  ASSUME FInv, NEW c \in Clients, UNCHANGED <<sessions, issued, logged, telegram, history>>,
         req[c].files = {}, \A d \in Clients \ {c} : req'[d] = req[d],
         Carries(c)'
  PROVE  Accounted'
<1>1. Settles /\ SessionsIssued'
  BY SessionsStay DEF history, Settled
<1> QED BY <1>1, HandedOn

\* What a request that goes on to another place changes of itself, and that it changes no other.
LEMMA Moved ==
  ASSUME FInv, NEW c \in Clients, NEW place, NEW files, Move(c, place, files)
  PROVE  /\ req'[c].at = place /\ req'[c].files = files
         /\ req'[c].upload = req[c].upload /\ req'[c].key = req[c].key
         /\ \A d \in Clients \ {c} : req'[d] = req[d]
BY DEF Move, FInv, IInv, TypeOK, RequestsOK, Request

\* A request that returns carries nothing, and the others stay as they are.
LEMMA Returned ==
  ASSUME FInv, NEW c \in Clients, Return(c)
  PROVE  req'[c] = Idle /\ Carries(c)' /\ \A d \in Clients \ {c} : req'[d] = req[d]
BY DEF Return, Idle, Carries, FInv, IInv, TypeOK, RequestsOK

\* A request that is called carries nothing yet.
LEMMA Called ==
  ASSUME FInv, NEW c \in Clients, NEW k, NEW u,
         NEW place \in {"putLock", "partUpload", "completeLock"}, Call(c, place, k, u)
  PROVE  req[c].files = {} /\ Carries(c)' /\ \A d \in Clients \ {c} : req'[d] = req[d]
BY DEF Call, At, Carries, FInv, IInv, TypeOK, RequestsOK, Accounted
--------------------------------------------------------------------------------
(* Uploads *)

\* The file that was answered for is in the hands of the request, its other
\* copies are let go of.
LEMMA SentAccounted ==
  ASSUME FInv, NEW c \in Clients, NEW place \in {"putCommit", "partStore"}, Sent(c, place),
         req[c].files = {}, req[c].key \in Keys, UNCHANGED <<sessions, issued, logged, published>>
  PROVE  Accounted'
<1>0. TypeOK
  BY DEF FInv, IInv
<1>1. Settles /\ SessionsIssued'
  BY <1>0, Uploaded, SessionsStay DEF Settled
<1>2. PICK f \in Files :
        /\ Move(c, place, {f})
        /\ \A g \in Files \ {f} : telegram'[g] # telegram[g] => g \in dropped'
  BY <1>0, Answered
<1>3. /\ req'[c].at = place /\ req'[c].files = {f}
      /\ \A d \in Clients \ {c} : req'[d] = req[d]
  BY <1>2, Moved
<1>4. f \in Tracked' /\ Carries(c)'
  BY <1>2, <1>3 DEF Tracked, Carries
<1>5. \A g \in Files : telegram[g] = None => telegram'[g] = None \/ g \in Tracked'
  BY <1>2, <1>4 DEF Tracked
<1> QED BY <1>1, <1>3, <1>4, <1>5, HandedOn

\* Files whose answers were lost are let go of.
LEMMA NotSentAccounted ==
  ASSUME FInv, NEW c \in Clients, NotSent(c), req[c].files = {}, req[c].key \in Keys,
         UNCHANGED <<sessions, issued, logged, published>>
  PROVE  Accounted'
<1>1. Settles /\ SessionsIssued'
  BY Uploaded, SessionsStay DEF Settled, FInv, IInv
<1>2. Carries(c)' /\ \A d \in Clients \ {c} : req'[d] = req[d]
  BY Returned DEF NotSent
<1>3. \A g \in Files : telegram[g] = None => telegram'[g] = None \/ g \in Tracked'
  <2>1. PICK lost \in SUBSET Unsent : Stored(c, {}, lost)
    BY DEF NotSent
  <2> QED BY <2>1 DEF Stored, Tracked
<1> QED BY <1>1, <1>2, <1>3, HandedOn

\* A request that settles what it carries and returns.
LEMMA SettledReturn ==
  ASSUME FInv, NEW c \in Clients, Return(c), UNCHANGED telegram, Settles, SessionsIssued',
         req[c].files \subseteq Tracked'
  PROVE  Accounted'
BY Returned, HandedOn

\* The steps of PutObject.
LEMMA PutAccounted ==
  ASSUME FInv, NEW c \in Clients, Put(c) PROVE Accounted'
<1> USE DEF At
<1>1. ASSUME NEW k \in Keys, PutCall(c, k) PROVE Accounted'
  BY <1>1, Called, EmptyHanded DEF PutCall
<1>2. Carries(c)
  BY DEF FInv, Accounted
<1>3. ASSUME PutRefused(c) PROVE Accounted'
  BY <1>2, <1>3, Returned, EmptyHanded DEF PutRefused, Carries
<1>4. ASSUME PutLocked(c) PROVE Accounted'
  <2>1. req[c].files = {}
    BY <1>2, <1>4 DEF PutLocked, Carries
  <2>2. PICK next \in {"putUpload", "putCommit"} : Move(c, next, {})
    BY <1>4 DEF PutLocked
  <2>3. Carries(c)' /\ \A d \in Clients \ {c} : req'[d] = req[d]
    BY <2>2, Moved DEF Carries
  <2> QED BY <1>4, <2>1, <2>3, EmptyHanded DEF PutLocked
<1>5. ASSUME PutSent(c) PROVE Accounted'
  BY <1>2, <1>5, SentAccounted DEF PutSent, Carries, FInv, IInv, TypeOK, RequestsOK
<1>6. ASSUME PutNotSent(c) PROVE Accounted'
  BY <1>2, <1>6, NotSentAccounted DEF PutNotSent, Carries, FInv, IInv, TypeOK, RequestsOK
<1>7. ASSUME PutCommit(c) PROVE Accounted'
  <2>1. Settles /\ SessionsIssued'
    BY <1>7, SessionsStay DEF PutCommit, Settled
  <2>2. req[c].files \subseteq Tracked'
    BY <1>7 DEF PutCommit, Tracked
  <2> QED BY <1>7, <2>1, <2>2, SettledReturn DEF PutCommit
<1>8. ASSUME PutCommitFailed(c) PROVE Accounted'
  <2>1. Settles /\ SessionsIssued'
    BY <1>8, SessionsStay DEF PutCommitFailed, history, Settled
  <2>2. req[c].files \subseteq Tracked'
    BY <1>8 DEF PutCommitFailed, Tracked
  <2> QED BY <1>8, <2>1, <2>2, SettledReturn DEF PutCommitFailed
<1> QED BY <1>1, <1>3, <1>4, <1>5, <1>6, <1>7, <1>8 DEF Put

\* The part joins its session, and the one it replaces is logged.
LEMMA PartStoredAccounted ==
  ASSUME FInv, NEW c \in Clients, NEW n \in PartNumbers, PartStored(c, n) PROVE Accounted'
<1> DEFINE v == req[c].upload
<1>1. Carries(c) /\ req[c].at = "partStore" /\ v \in Uploads /\ sessions[v] # None
  BY DEF PartStored, At, Matches, FInv, Accounted, IInv, TypeOK, RequestsOK, PartPlaces
<1>2. PICK f \in Files :
        /\ req[c].files = {f}
        /\ sessions' = [sessions EXCEPT ![v].parts[n] = f]
        /\ logged' = logged \cup ({sessions[v].parts[n]} \ {None})
  BY <1>1 DEF PartStored, Carries
<1>3. sessions[v] \in Session /\ f # None
  BY <1>1, NoneAssumption DEF FInv, IInv, TypeOK
<1>4. /\ \A u \in Uploads \ {v} : sessions'[u] = sessions[u]
      /\ sessions'[v] # None /\ sessions'[v].parts[n] = f
      /\ \A m \in PartNumbers \ {n} : sessions'[v].parts[m] = sessions[v].parts[m]
  <2>1. sessions'[v] = [sessions[v] EXCEPT !.parts = [@ EXCEPT ![n] = f]]
    BY <1>1, <1>2 DEF FInv, IInv, TypeOK
  <2>2. sessions'[v] \in Session
    BY <1>2, <1>3, <2>1 DEF Session
  <2>3. sessions'[v] # None
    BY <2>2, SessionAssumption
  <2> QED BY <1>1, <1>2, <1>3, <2>1, <2>3 DEF FInv, IInv, TypeOK, Session
<1>5. \A u \in Uploads : PartFiles(sessions, u) \subseteq PartFiles(sessions', u) \cup Settled'
  <2>1. ASSUME NEW u \in Uploads, u # v PROVE PartFiles(sessions, u) = PartFiles(sessions', u)
    BY <1>4, <2>1 DEF PartFiles
  <2>2. sessions[v].parts[n] # None => sessions[v].parts[n] \in Settled'
    BY <1>2 DEF Settled
  <2>3. PartFiles(sessions, v) \subseteq PartFiles(sessions', v) \cup Settled'
    BY <1>1, <1>4, <2>2 DEF PartFiles
  <2> QED BY <2>1, <2>3
<1>6. Settles /\ SessionsIssued'
  <2>1. published' = published /\ dropped' = dropped /\ issued' = issued
    BY DEF PartStored, history
  <2>2. Settles
    BY <1>2, <1>5, <2>1 DEF Settles, Settled
  <2>3. SessionsIssued'
    BY <1>1, <1>4, <2>1 DEF SessionsIssued, FInv, Accounted
  <2> QED BY <2>2, <2>3
<1>7. f \in PartFiles(sessions', v)
  BY <1>3, <1>4 DEF PartFiles
<1>8. req[c].files \subseteq Tracked'
  <2>1. PartFiles(sessions', v) \subseteq Tracked'
    BY <1>1 DEF Tracked
  <2> QED BY <1>2, <1>7, <2>1
<1> QED BY <1>6, <1>8, SettledReturn DEF PartStored

\* The steps of UploadPart.
LEMMA PartAccounted ==
  ASSUME FInv, NEW c \in Clients, Part(c) PROVE Accounted'
<1> USE DEF At
<1>1. ASSUME NEW k \in Keys, NEW u \in Uploads, PartCall(c, k, u) PROVE Accounted'
  BY <1>1, Called, EmptyHanded DEF PartCall
<1>2. Carries(c)
  BY DEF FInv, Accounted
<1>3. ASSUME PartSent(c) PROVE Accounted'
  BY <1>2, <1>3, SentAccounted DEF PartSent, Carries, FInv, IInv, TypeOK, RequestsOK
<1>4. ASSUME PartNotSent(c) PROVE Accounted'
  BY <1>2, <1>4, NotSentAccounted DEF PartNotSent, Carries, FInv, IInv, TypeOK, RequestsOK
<1>5. ASSUME PartTooLate(c) PROVE Accounted'
  <2>1. Settles /\ SessionsIssued'
    BY <1>5, SessionsStay DEF PartTooLate, Settled
  <2>2. req[c].files \subseteq Tracked'
    BY <1>5 DEF PartTooLate, Tracked
  <2> QED BY <1>5, <2>1, <2>2, SettledReturn DEF PartTooLate
<1> QED BY <1>1, <1>3, <1>4, <1>5, PartStoredAccounted DEF Part

\* Completing: the files copied out of the session are the session's, or settled
\* by whoever ends the session or replaces the part meanwhile.
LEMMA CompleteAccounted ==
  ASSUME FInv, NEW c \in Clients, Complete(c) PROVE Accounted'
<1> USE DEF At
<1>1. ASSUME NEW k \in Keys, NEW u \in Uploads, CompleteCall(c, k, u) PROVE Accounted'
  BY <1>1, Called, EmptyHanded DEF CompleteCall
<1>2. Carries(c)
  BY DEF FInv, Accounted
<1>3. ASSUME CompleteRefused(c) PROVE Accounted'
  BY <1>2, <1>3, Returned, EmptyHanded DEF CompleteRefused, Carries
<1>4. ASSUME CompleteChecked(c) PROVE Accounted'
  <2>1. req[c].files = {} /\ sessions[req[c].upload] # None
    BY <1>2, <1>4 DEF CompleteChecked, Carries, Matches
  <2>2. PICK ns \in SUBSET PartNumbers :
          /\ \A n \in ns : sessions[req[c].upload].parts[n] # None
          /\ Move(c, "completeCommit", {sessions[req[c].upload].parts[n] : n \in ns})
    BY <1>4 DEF CompleteChecked
  <2>3. {sessions[req[c].upload].parts[n] : n \in ns} \subseteq PartFiles(sessions, req[c].upload)
    BY <2>1, <2>2 DEF PartFiles
  <2>4. /\ req'[c].at = "completeCommit" /\ req'[c].upload = req[c].upload
        /\ req'[c].files \subseteq PartFiles(sessions, req[c].upload)
        /\ \A d \in Clients \ {c} : req'[d] = req[d]
    BY <2>2, <2>3, Moved
  <2>5. sessions' = sessions
    BY <1>4 DEF CompleteChecked
  <2>6. Carries(c)'
    BY <2>4, <2>5 DEF Carries, PartFiles
  <2> QED BY <1>4, <2>1, <2>4, <2>6, EmptyHanded DEF CompleteChecked
<1>5. ASSUME CompleteCommit(c) PROVE Accounted'
  <2>1. Settles /\ SessionsIssued'
    BY <1>5, SessionsStay DEF CompleteCommit, Settled
  <2>2. /\ req'[c].at = "completeForget" /\ req'[c].files = req[c].files
        /\ \A d \in Clients \ {c} : req'[d] = req[d]
    BY <1>5, Moved DEF CompleteCommit
  <2>3. Carries(c)' /\ req[c].files \subseteq Tracked'
    BY <1>5, <2>2 DEF CompleteCommit, Carries, Tracked
  <2> QED BY <1>5, <2>1, <2>2, <2>3, HandedOn DEF CompleteCommit
<1>6. ASSUME CompleteCommitFailed(c) PROVE Accounted'
  <2>1. Settles /\ SessionsIssued'
    BY <1>6, SessionsStay DEF CompleteCommitFailed, history, Settled
  <2>2. req[c].upload \in Uploads /\ req[c].files \subseteq Settled \cup PartFiles(sessions, req[c].upload)
    BY <1>2, <1>6 DEF CompleteCommitFailed, Carries, FInv, IInv, TypeOK, RequestsOK, CompletePlaces
  <2>3. req[c].files \subseteq Tracked'
    BY <1>6, <2>2 DEF CompleteCommitFailed, history, Tracked, Settled, PartFiles
  <2> QED BY <1>6, <2>1, <2>3, SettledReturn DEF CompleteCommitFailed
<1>7. ASSUME CompleteForget(c) PROVE Accounted'
  <2> DEFINE v == req[c].upload
  <2>1. /\ sessions' = [sessions EXCEPT ![v] = None] /\ UNCHANGED <<issued, logged, published>>
        /\ dropped' = dropped \cup (PartFiles(sessions, v) \ published)
        /\ v \in Uploads
    BY <1>7 DEF CompleteForget, FInv, IInv, TypeOK, RequestsOK, CompletePlaces
  <2>2. \A u \in Uploads \ {v} : sessions'[u] = sessions[u] /\ PartFiles(sessions', u) = PartFiles(sessions, u)
    BY <2>1 DEF PartFiles, FInv, IInv, TypeOK
  <2>3. Settles
    BY <2>1, <2>2 DEF Settles, Settled
  <2>4. SessionsIssued'
    BY <2>1, <2>2 DEF SessionsIssued, FInv, Accounted, IInv, TypeOK
  <2>5. req[c].files \subseteq Tracked'
    BY <1>2, <1>7, <2>1 DEF CompleteForget, Carries, Tracked
  <2> QED BY <1>7, <2>3, <2>4, <2>5, SettledReturn DEF CompleteForget
<1> QED BY <1>1, <1>3, <1>4, <1>5, <1>6, <1>7 DEF Complete
--------------------------------------------------------------------------------
(* The session operations, the delete and the restart *)

\* A session may come or go if its files are logged.
LEMMA SessionsAccounted ==
  ASSUME FInv, UNCHANGED <<telegram, req, history>>, logged \subseteq logged', SessionsIssued',
         \A u \in Uploads : PartFiles(sessions, u) \subseteq PartFiles(sessions', u) \cup logged'
  PROVE  Accounted'
<1>1. Settles
  BY DEF Settles, Settled, history
<1> QED BY <1>1, HandedOn

\* DeleteObject: what has been published stays accounted for.
LEMMA DeleteAccounted ==
  ASSUME FInv, NEW k \in Keys, DeleteObject(k) PROVE Accounted'
<1>1. SessionsIssued' /\ sessions' = sessions /\ logged' = logged
  BY DEF DeleteObject, SessionsIssued, FInv, Accounted
<1>2. \A u \in Uploads : PartFiles(sessions, u) \subseteq PartFiles(sessions', u)
  BY <1>1
<1> QED BY <1>1, <1>2, SessionsAccounted DEF DeleteObject

\* The sessions with the new one, before the limit is applied.
Grown(k, u, t) == [sessions EXCEPT ![u] = [key |-> k, createdAt |-> t, parts |-> NoParts]]

\* The new session is there, and the others are as they were.
LEMMA GrownSessions ==
  ASSUME IInv, NEW k \in Keys, NEW u \in Uploads, NEW t \in Times
  PROVE  /\ Grown(k, u, t) \in [Uploads -> Session \cup {None}]
         /\ Grown(k, u, t)[u] = [key |-> k, createdAt |-> t, parts |-> NoParts]
         /\ Grown(k, u, t)[u] # None
         /\ \A v \in Uploads : v # u => Grown(k, u, t)[v] = sessions[v]
<1> DEFINE new == [key |-> k, createdAt |-> t, parts |-> NoParts]
<1>1. new \in Session /\ new # None
  BY BoundsAssumption, SessionAssumption DEF Session, NoParts
<1>2. sessions \in [Uploads -> Session \cup {None}]
  BY DEF IInv, TypeOK
<1> HIDE DEF new
<1>3. Grown(k, u, t) = [sessions EXCEPT ![u] = new]
  BY DEF Grown, new
<1>4. /\ Grown(k, u, t) \in [Uploads -> Session \cup {None}]
      /\ Grown(k, u, t)[u] = new
      /\ \A v \in Uploads : v # u => Grown(k, u, t)[v] = sessions[v]
  BY <1>1, <1>2, <1>3
<1> QED BY <1>1, <1>4 DEF new

\* What CreateMultipartUpload leaves: the new session, and at most one fewer.
LEMMA Evicted ==
  ASSUME NEW k \in Keys, NEW u \in Uploads, NEW t \in Times, CreateUpload(k, u, t)
  PROVE  \/ /\ Cardinality(Live(Grown(k, u, t))) <= MaxMultipart
            /\ sessions' = Grown(k, u, t) /\ logged' = logged
         \/ /\ ~(Cardinality(Live(Grown(k, u, t))) <= MaxMultipart)
            /\ \E w \in Oldest(Grown(k, u, t)) :
                 /\ sessions' = [Grown(k, u, t) EXCEPT ![w] = None]
                 /\ logged' = logged \cup PartFiles(Grown(k, u, t), w)
BY DEF CreateUpload, Grown, EvictOldest

\* CreateMultipartUpload: the parts of the session it evicts are logged.
LEMMA CreateAccounted ==
  ASSUME FInv, NEW k \in Keys, NEW u \in Uploads, NEW t \in Times, CreateUpload(k, u, t)
  PROVE  Accounted'
<1> DEFINE grown == Grown(k, u, t)
<1>1. /\ grown \in [Uploads -> Session \cup {None}]
      /\ grown[u] = [key |-> k, createdAt |-> t, parts |-> NoParts]
      /\ \A v \in Uploads : v # u => grown[v] = sessions[v]
  <2>1. IInv
    BY DEF FInv
  <2> QED BY <2>1, GrownSessions
<1>2. \/ sessions' = grown /\ logged' = logged
      \/ \E w \in Uploads :
           /\ sessions' = [grown EXCEPT ![w] = None]
           /\ logged' = logged \cup PartFiles(grown, w)
  <2>1. \A w \in Oldest(grown) : w \in Uploads
    BY DEF Oldest, Live
  <2> QED BY <2>1, Evicted
<1>3. /\ u \notin issued /\ issued' = issued \cup {u}
      /\ UNCHANGED <<telegram, req, history>>
  BY DEF CreateUpload
<1>4. sessions[u] = None
  BY <1>3 DEF FInv, Accounted, SessionsIssued
<1> HIDE DEF grown
<1>5. \A v \in Uploads : PartFiles(sessions, v) \subseteq PartFiles(grown, v)
  BY <1>1, <1>4 DEF PartFiles
<1>6. \A v \in Uploads : PartFiles(grown, v) \subseteq PartFiles(sessions', v) \cup logged'
  <2>1. CASE sessions' = grown
    BY <2>1
  <2>2. ASSUME NEW w \in Uploads, sessions' = [grown EXCEPT ![w] = None],
               logged' = logged \cup PartFiles(grown, w)
        PROVE  \A v \in Uploads : PartFiles(grown, v) \subseteq PartFiles(sessions', v) \cup logged'
    BY <1>1, <2>2 DEF PartFiles
  <2> QED BY <1>2, <2>1, <2>2
<1>7. SessionsIssued'
  BY <1>1, <1>2, <1>3 DEF SessionsIssued, FInv, Accounted
<1>8. logged \subseteq logged'
  BY <1>2
<1> QED BY <1>3, <1>5, <1>6, <1>7, <1>8, SessionsAccounted

\* AbortMultipartUpload: the parts of its session are logged.
LEMMA AbortAccounted ==
  ASSUME FInv, NEW u \in Uploads, AbortUpload(u) PROVE Accounted'
<1>1. /\ sessions' = [sessions EXCEPT ![u] = None] /\ logged' = logged \cup PartFiles(sessions, u)
      /\ issued' = issued
  BY DEF AbortUpload
<1>2. \A v \in Uploads : PartFiles(sessions, v) \subseteq PartFiles(sessions', v) \cup logged'
  BY <1>1 DEF PartFiles, FInv, IInv, TypeOK
<1>3. SessionsIssued'
  BY <1>1 DEF SessionsIssued, FInv, Accounted, IInv, TypeOK
<1> QED BY <1>1, <1>2, <1>3, SessionsAccounted DEF AbortUpload

\* A restart drops what sessions and requests held, by name.
LEMMA CrashAccounted ==
  ASSUME FInv, Crash PROVE Accounted'
<1>1. Tracked \subseteq published' \cup logged' \cup dropped'
  <2> DEFINE held == UNION ({PartFiles(sessions, u) : u \in Uploads} \cup {req[c].files : c \in Clients})
  <2>2. dropped' = dropped \cup (held \ (published \cup logged))
    BY DEF Crash
  <2>3. published' = published /\ logged' = logged
    BY DEF Crash
  <2>4. /\ \A u \in Uploads : PartFiles(sessions, u) \subseteq held
        /\ \A c \in Clients : req[c].files \subseteq held
    OBVIOUS
  <2> HIDE DEF held
  <2> SUFFICES ASSUME NEW f \in Tracked PROVE f \in published' \cup logged' \cup dropped'
    OBVIOUS
  <2>1. f \in published \cup logged \cup dropped \/ f \in held
    BY <2>4 DEF Tracked
  <2> QED BY <2>1, <2>2, <2>3
<1>2. NoUntrackedFile'
  BY <1>1 DEF NoUntrackedFile, Tracked, Unsent, Crash, FInv, Accounted
<1>3. \A c \in Clients : Carries(c)'
  BY DEF Crash, Carries, Idle
<1>4. SessionsIssued'
  BY DEF Crash, SessionsIssued
<1> QED BY <1>2, <1>3, <1>4 DEF Accounted

\* At every place of a request the files it carries are accounted for, should
\* the session they came from go away.
THEOREM Accounting == Spec => []FInv
<1>1. Init => Accounted
  BY DEF Init, Idle, Accounted, Carries, SessionsIssued, NoUntrackedFile, Unsent
<1>2. FInv /\ [Next]_vars => Accounted'
  <2> SUFFICES ASSUME FInv, [Next]_vars PROVE Accounted'
    OBVIOUS
  <2>1. CASE UNCHANGED vars
    BY <2>1 DEF vars, history, FInv, Accounted, Carries, Settled, SessionsIssued, NoUntrackedFile, Tracked, Unsent, PartFiles
  <2>2. CASE Next
    BY <2>2, PutAccounted, PartAccounted, CompleteAccounted, DeleteAccounted, CreateAccounted,
       AbortAccounted, CrashAccounted DEF Next
  <2> QED BY <2>1, <2>2
<1> QED BY <1>1, <1>2, Invariance, PTL DEF Spec, FInv

\* No file that Telegram holds is lost track of, however often an upload was
\* sent: store.go logs every file it gives up, except the ones of `dropped`.
THEOREM NothingLost == Spec => []NoUntrackedFile
<1>1. FInv => NoUntrackedFile
  BY DEF FInv, Accounted
<1> QED BY <1>1, Accounting, PTL
--------------------------------------------------------------------------------
(* How many sessions there are *)

Bounded == IsFiniteSet(Live(sessions)) /\ SessionsBounded

\* Only CreateMultipartUpload adds a session.
LEMMA OthersAddNone ==
  ASSUME IInv, Next, ~ \E k \in Keys, u \in Uploads, t \in Times : CreateUpload(k, u, t)
  PROVE  Live(sessions') \subseteq Live(sessions) /\ issued' = issued
<1> USE DEF Live
<1>1. ASSUME NEW c \in Clients, Put(c) PROVE sessions' = sessions /\ issued' = issued
  BY <1>1 DEF Put, PutCall, PutRefused, PutLocked, PutSent, PutNotSent, PutCommit, PutCommitFailed
<1>2. ASSUME NEW c \in Clients, Part(c) PROVE Live(sessions') \subseteq Live(sessions) /\ issued' = issued
  <2>1. ASSUME NEW n \in PartNumbers, PartStored(c, n)
        PROVE  Live(sessions') \subseteq Live(sessions) /\ issued' = issued
    <3>1. PICK f : sessions' = [sessions EXCEPT ![req[c].upload].parts[n] = f]
      BY <2>1 DEF PartStored
    <3>2. \A u \in Uploads : u # req[c].upload => sessions'[u] = sessions[u]
      BY <3>1 DEF IInv, TypeOK
    <3>3. sessions[req[c].upload] # None /\ issued' = issued
      BY <2>1 DEF PartStored, Matches
    <3> QED BY <3>2, <3>3
  <2> QED BY <1>2, <2>1 DEF Part, PartCall, PartSent, PartNotSent, PartTooLate
<1>3. ASSUME NEW c \in Clients, Complete(c) PROVE Live(sessions') \subseteq Live(sessions) /\ issued' = issued
  BY <1>3 DEF IInv, TypeOK, Complete, CompleteCall, CompleteRefused, CompleteChecked, CompleteCommit,
              CompleteCommitFailed, CompleteForget
<1>4. ASSUME NEW u \in Uploads, AbortUpload(u) PROVE Live(sessions') \subseteq Live(sessions) /\ issued' = issued
  BY <1>4 DEF IInv, TypeOK, AbortUpload
<1>5. ASSUME NEW k \in Keys, DeleteObject(k) PROVE sessions' = sessions /\ issued' = issued
  BY <1>5 DEF DeleteObject
<1>6. ASSUME Crash PROVE Live(sessions') \subseteq Live(sessions) /\ issued' = issued
  BY <1>6 DEF Crash
<1> QED BY <1>1, <1>2, <1>3, <1>4, <1>5, <1>6 DEF Next

\* One session more, and one fewer if that is over the limit.
LEMMA CreateBounded ==
  ASSUME IInv, Bounded, NEW k \in Keys, NEW u \in Uploads, NEW t \in Times, CreateUpload(k, u, t)
  PROVE  Bounded'
<1> DEFINE grown == Grown(k, u, t)
           live == Live(grown)
<1> USE BoundsAssumption
<1>1. \A v \in Uploads : v # u => grown[v] = sessions[v]
  BY GrownSessions
<1>2. live \subseteq Live(sessions) \cup {u}
  BY <1>1 DEF Live
<1>3. /\ IsFiniteSet(Live(sessions) \cup {u})
      /\ Cardinality(Live(sessions) \cup {u}) <= MaxMultipart + 1
      /\ Cardinality(Live(sessions) \cup {u}) \in Nat
  <2>1. IsFiniteSet(Live(sessions)) /\ Cardinality(Live(sessions)) <= MaxMultipart
    BY DEF Bounded, SessionsBounded
  <2> DEFINE old == Live(sessions)
  <2> HIDE DEF old
  <2>2. IsFiniteSet(old) /\ Cardinality(old) <= MaxMultipart /\ Cardinality(old) \in Nat
    BY <2>1, FS_CardinalityType DEF old
  <2>3. /\ IsFiniteSet(old \cup {u})
        /\ Cardinality(old \cup {u}) = IF u \in old THEN Cardinality(old) ELSE Cardinality(old) + 1
    BY <2>2, FS_AddElement
  <2>4. Cardinality(old \cup {u}) <= MaxMultipart + 1 /\ Cardinality(old \cup {u}) \in Nat
    BY <2>2, <2>3
  <2> QED BY <2>3, <2>4 DEF old
<1>4. IsFiniteSet(live) /\ Cardinality(live) \in Nat /\ Cardinality(live) <= MaxMultipart + 1
  BY <1>2, <1>3, FS_Subset, FS_CardinalityType
<1>5. CASE Cardinality(live) <= MaxMultipart /\ sessions' = grown
  BY <1>4, <1>5 DEF Bounded, SessionsBounded
<1>6. ASSUME NEW w \in Oldest(grown), sessions' = [grown EXCEPT ![w] = None] PROVE Bounded'
  <2>1. grown \in [Uploads -> Session \cup {None}] /\ w \in live
    BY GrownSessions DEF Oldest
  <2>2. Live(sessions') = live \ {w}
    BY <1>6, <2>1 DEF Live
  <2>3. IsFiniteSet(live \ {w}) /\ Cardinality(live \ {w}) = Cardinality(live) - 1
    BY <1>4, <2>1, FS_RemoveElement
  <2> HIDE DEF live
  <2> QED BY <1>4, <2>2, <2>3 DEF Bounded, SessionsBounded
<1> QED BY <1>5, <1>6, Evicted

\* There are never more unfinished sessions than maxMultipartUploads allows.
THEOREM LimitHolds == Spec => []SessionsBounded
<1>1. Init => Bounded
  <2> SUFFICES ASSUME Init PROVE Bounded
    OBVIOUS
  <2>1. Live(sessions) = {}
    BY DEF Init, Live
  <2> QED BY <2>1, FS_EmptySet, BoundsAssumption DEF Bounded, SessionsBounded
<1>2. IInv /\ Bounded /\ [Next]_vars => Bounded'
  <2> SUFFICES ASSUME IInv, Bounded, [Next]_vars PROVE Bounded'
    OBVIOUS
  <2>1. CASE UNCHANGED vars
    BY <2>1 DEF vars, Bounded, SessionsBounded, Live
  <2>2. CASE \E k \in Keys, u \in Uploads, t \in Times : CreateUpload(k, u, t)
    BY <2>2, CreateBounded
  <2>3. CASE Next /\ ~ \E k \in Keys, u \in Uploads, t \in Times : CreateUpload(k, u, t)
    <3>1. Live(sessions') \in SUBSET Live(sessions)
      BY <2>3, OthersAddNone
    <3>2. /\ IsFiniteSet(Live(sessions')) /\ Cardinality(Live(sessions')) <= Cardinality(Live(sessions))
          /\ Cardinality(Live(sessions)) \in Nat /\ Cardinality(Live(sessions')) \in Nat
      BY <3>1, FS_Subset, FS_CardinalityType DEF Bounded
    <3> QED BY <3>2, BoundsAssumption DEF Bounded, SessionsBounded
  <2> QED BY <2>1, <2>2, <2>3
<1>3. Bounded => SessionsBounded
  BY DEF Bounded
<1> QED BY <1>1, <1>2, <1>3, Invariance, PTL DEF Spec

\* An upload id that a client receives names a session at that moment, as long
\* as the clock moves forward: the eviction takes an older session.
THEOREM NewcomerStays == ASSUME ClockForward PROVE Spec => NewUploadUsable
<1>1. ASSUME IInv, Next, NEW i \in issued' \ issued PROVE sessions'[i] # None
  <2>1. PICK k \in Keys, u \in Uploads, t \in Times : CreateUpload(k, u, t)
    BY <1>1, OthersAddNone
  <2>2. /\ i = u /\ i \in Uploads /\ t \in Nat
        /\ \A v \in Live(sessions) : sessions[v].createdAt < t
    BY <1>1, <2>1, BoundsAssumption DEF CreateUpload
  <2> DEFINE grown == Grown(k, u, t)
  <2>3. /\ grown[u].createdAt = t /\ grown[u] # None
        /\ grown \in [Uploads -> Session \cup {None}]
        /\ \A v \in Uploads : v # u => grown[v] = sessions[v]
    <3>1. /\ grown[u] = [key |-> k, createdAt |-> t, parts |-> NoParts] /\ grown[u] # None
          /\ grown \in [Uploads -> Session \cup {None}]
      BY <1>1, GrownSessions
    <3>2. \A v \in Uploads : v # u => grown[v] = sessions[v]
      BY <1>1, GrownSessions
    <3> QED BY <3>1, <3>2
  <2>4. CASE sessions' = grown
    BY <2>2, <2>3, <2>4
  <2>5. ASSUME NEW w \in Oldest(grown), sessions' = [grown EXCEPT ![w] = None],
               ~(Cardinality(Live(grown)) <= MaxMultipart)
        PROVE  sessions'[i] # None
    <3>1. Live(grown) # {u}
      <4>1. Cardinality({u}) = 1
        BY FS_Singleton
      <4> QED BY <2>5, <4>1, BoundsAssumption
    <3>2. PICK v \in Live(grown) : v # u
      BY <2>3, <3>1 DEF Live
    <3>3. v \in Live(sessions) /\ grown[v] = sessions[v]
      BY <2>3, <3>2 DEF Live
    <3>4. sessions[v].createdAt \in Nat /\ sessions[v].createdAt < t
      BY <1>1, <2>2, <3>3 DEF IInv, TypeOK, Session, Live
    <3>5. w # u
      <4>1. grown[w].createdAt <= grown[v].createdAt
        BY <3>2 DEF Oldest
      <4> QED BY <2>2, <2>3, <3>3, <3>4, <4>1
    <3> QED BY <2>2, <2>3, <2>5, <3>5
  <2> QED BY <1>1, <2>1, <2>4, <2>5, Evicted
<1>2. IInv /\ [Next]_vars => [\A u \in issued' \ issued : sessions'[u] # None]_vars
  BY <1>1
<1> QED BY <1>2, Invariance, PTL DEF Spec, NewUploadUsable
--------------------------------------------------------------------------------
(* ObjectStore implements AtomicObjects *)

PublishedSent == \A f \in published : telegram[f] # None

\* A published part is one of a session that its completion is about to delete.
PublishedParts ==
  \A u \in Uploads : \A f \in PartFiles(sessions, u) :
    f \in published => \E c \in Clients : req[c].at = "completeForget" /\ req[c].upload = u

PartsApart ==
  \A u, v \in Uploads : u # v => \A f \in PartFiles(sessions, u) : f \notin PartFiles(sessions, v)

\* A file that has just been sent is nowhere but in the hands of its request.
Fresh(c) ==
  req[c].at \in {"putCommit", "partStore"} =>
    \A f \in req[c].files :
      /\ f \notin published
      /\ \A u \in Uploads : f \notin PartFiles(sessions, u)
      /\ \A d \in Clients : d # c => f \notin req[d].files

\* What a completion has copied out of its session is in no other session and
\* with no other completion, even if the session is gone by now.
Copied(c) ==
  req[c].at = "completeCommit" =>
    \A f \in req[c].files :
      /\ f \notin published
      /\ \A u \in Uploads : u # req[c].upload => f \notin PartFiles(sessions, u)
      /\ \A d \in Clients : d # c /\ req[d].at = "completeCommit" => f \notin req[d].files

\* A completion holds the lock of the key that its session was opened for.
Completes(c) ==
  req[c].at \in {"completeCommit", "completeForget"} =>
    /\ req[c].upload \in issued
    /\ sessions[req[c].upload] # None => sessions[req[c].upload].key = req[c].key

Apart ==
  /\ PublishedSent /\ PublishedParts /\ PartsApart
  /\ \A c \in Clients : Fresh(c) /\ Copied(c) /\ Completes(c)

AInv == FInv /\ Apart
--------------------------------------------------------------------------------
(* Steps that publish nothing and hand nothing out *)

\* A request keeps what it has or lets go of it.
Lessens(d) ==
  \/ req'[d] = req[d]
  \/ req'[d].files = {} /\ req'[d].at \notin {"completeCommit", "completeForget"}

\* A session stays as it was opened, or its id is new.
KeepsKeys ==
  \A u \in Uploads : sessions'[u] # None =>
    u \notin issued \/ (sessions[u] # None /\ sessions'[u].key = sessions[u].key)

\* Sessions and requests that only lose files stay apart.
LEMMA LessApart ==
  ASSUME AInv, published' = published, issued \subseteq issued', KeepsKeys,
         \A f \in Files : telegram[f] # None => telegram'[f] # None,
         \A d \in Clients : Lessens(d),
         \A u \in Uploads : \A f \in PartFiles(sessions', u) : f \in PartFiles(sessions, u),
         \A d \in Clients : req[d].at = "completeForget" =>
           req'[d] = req[d] \/ PartFiles(sessions', req[d].upload) = {}
  PROVE  Apart'
<1> USE DEF AInv, Apart
<1>1. \A u : PartFiles(sessions, u)' = PartFiles(sessions', u)
  BY DEF PartFiles
<1>2. PublishedSent'
  BY DEF PublishedSent, FInv, IInv, TypeOK
<1>3. PublishedParts'
  <2> SUFFICES ASSUME NEW u \in Uploads, NEW f \in PartFiles(sessions', u), f \in published
               PROVE  \E c \in Clients : req'[c].at = "completeForget" /\ req'[c].upload = u
    BY <1>1 DEF PublishedParts
  <2>1. PICK c \in Clients : req[c].at = "completeForget" /\ req[c].upload = u
    BY DEF PublishedParts
  <2>2. req'[c] = req[c]
    BY <2>1
  <2> QED BY <2>1, <2>2
<1>4. PartsApart'
  BY <1>1 DEF PartsApart
<1>5. ASSUME NEW c \in Clients PROVE Fresh(c)'
  BY <1>1 DEF Fresh, Lessens
<1>6. ASSUME NEW c \in Clients PROVE Copied(c)'
  BY <1>1 DEF Copied, Lessens
<1>7. ASSUME NEW c \in Clients PROVE Completes(c)'
  <2>1. CASE req'[c] = req[c] /\ req[c].at \in {"completeCommit", "completeForget"}
    <3>1. req[c].upload \in Uploads
      BY <2>1 DEF FInv, IInv, TypeOK, RequestsOK, CompletePlaces
    <3> QED BY <2>1, <3>1 DEF Completes, KeepsKeys
  <2>2. CASE req'[c].at \notin {"completeCommit", "completeForget"}
    BY <2>2 DEF Completes
  <2> QED BY <2>1, <2>2 DEF Lessens
<1> QED BY <1>2, <1>3, <1>4, <1>5, <1>6, <1>7

\* What a step leaves apart that leaves the sessions alone.
LEMMA PartsStay ==
  ASSUME Apart, sessions' = sessions
  PROVE  PartsApart' /\ \A u : PartFiles(sessions, u)' = PartFiles(sessions, u)
<1>1. \A u : PartFiles(sessions, u)' = PartFiles(sessions, u)
  BY DEF PartFiles
<1>2. PartsApart
  BY DEF Apart
<1>3. PartsApart'
  BY <1>1, <1>2 DEF PartsApart
<1> QED BY <1>1, <1>3

\* The same for one request, with the sessions as they are.
LEMMA LessOne ==
  ASSUME AInv, NEW c \in Clients, UNCHANGED <<sessions, issued, published>>,
         \A f \in Files : telegram[f] # None => telegram'[f] # None,
         \A d \in Clients \ {c} : req'[d] = req[d],
         req[c].at # "completeForget",
         req'[c].files = {}, req'[c].at \notin {"completeCommit", "completeForget"}
  PROVE  Apart'
<1>1. KeepsKeys /\ \A d \in Clients : Lessens(d)
  BY DEF KeepsKeys, Lessens, AInv, FInv, Accounted, SessionsIssued
<1> QED BY <1>1, LessApart

\* A request that returns lets go of its files.
LEMMA ReturnApart ==
  ASSUME AInv, NEW c \in Clients, Return(c), UNCHANGED <<sessions, issued, published>>,
         \A f \in Files : telegram[f] # None => telegram'[f] # None,
         req[c].at # "completeForget"
  PROVE  Apart'
BY Returned, LessOne DEF AInv, Idle

\* A request that is called has no files.
LEMMA CallApart ==
  ASSUME AInv, NEW c \in Clients, NEW k, NEW u,
         NEW place \in {"putLock", "partUpload", "completeLock"}, Call(c, place, k, u),
         UNCHANGED <<sessions, issued, published, telegram>>
  PROVE  Apart'
<1>1. /\ req'[c].files = {} /\ req'[c].at = place /\ req[c].at = "idle"
      /\ \A d \in Clients \ {c} : req'[d] = req[d]
  BY DEF Call, At, AInv, FInv, IInv, TypeOK, RequestsOK
<1> QED BY <1>1, LessOne

\* A request whose upload failed has no file.
LEMMA NotSentApart ==
  ASSUME AInv, NEW c \in Clients, NotSent(c), req[c].key \in Keys, req[c].at # "completeForget",
         UNCHANGED <<sessions, issued, published>>
  PROVE  Apart'
<1>1. \A f \in Files : telegram[f] # None => telegram'[f] # None
  BY Uploaded DEF AInv, FInv, IInv
<1> QED BY <1>1, ReturnApart DEF NotSent
--------------------------------------------------------------------------------
(* Steps that hand files on *)

\* The file that was sent was nowhere.
LEMMA SentApart ==
  ASSUME AInv, NEW c \in Clients, NEW place \in {"putCommit", "partStore"}, Sent(c, place),
         req[c].key \in Keys, req[c].files = {}, req[c].at # "completeForget",
         UNCHANGED <<sessions, issued, published>>
  PROVE  Apart'
<1> USE DEF AInv, Apart
<1>0. TypeOK
  BY DEF FInv, IInv
<1>1. PICK f \in Files : telegram[f] = None /\ telegram'[f] = req[c].key /\ Move(c, place, {f})
  BY <1>0, Answered
<1>2. /\ req'[c].at = place /\ req'[c].files = {f}
      /\ \A d \in Clients \ {c} : req'[d] = req[d]
  BY <1>1, Moved
<1>3. /\ f \in Files /\ telegram[f] = None /\ f \notin published
      /\ \A u \in Uploads : f \notin PartFiles(sessions, u)
      /\ \A d \in Clients : f \notin req[d].files
  <2>1. f \in Files /\ telegram[f] = None /\ f \notin published
    BY <1>1 DEF PublishedSent
  <2>2. ASSUME NEW u \in Uploads PROVE f \notin PartFiles(sessions, u)
    BY <2>1, NoneAssumption DEF PartFiles, FInv, IInv, TypeOK, StagedFilesOfKey, Session
  <2>3. ASSUME NEW d \in Clients PROVE f \notin req[d].files
    BY <2>1, NoneAssumption DEF FInv, IInv, TypeOK, RequestsOK, StagedFilesOfKey
  <2> QED BY <2>1, <2>2, <2>3
<1>4. PublishedSent'
  <2>1. \A g \in Files : telegram[g] # None => telegram'[g] = telegram[g]
    BY <1>0, Uploaded
  <2>2. PublishedSent /\ published \subseteq Files /\ published' = published
    BY <1>0 DEF TypeOK
  <2> HIDE DEF AInv, Apart
  <2> QED BY <2>1, <2>2 DEF PublishedSent
<1>5. PublishedParts' /\ PartsApart'
  <2>1. PublishedParts /\ PartsApart /\ UNCHANGED <<sessions, issued, published>>
    OBVIOUS
  <2> HIDE DEF AInv, Apart
  <2> QED BY <1>2, <2>1 DEF PublishedParts, PartsApart, PartFiles
<1>6. ASSUME NEW d \in Clients PROVE Fresh(d)' /\ Copied(d)' /\ Completes(d)'
  <2>1. CASE d = c
    BY <1>2, <1>3, <2>1 DEF Fresh, Copied, Completes, PartFiles
  <2>2. CASE d # c
    BY <1>2, <1>3, <2>2 DEF Fresh, Copied, Completes, PartFiles
  <2> QED BY <2>1, <2>2
<1> QED BY <1>4, <1>5, <1>6

\* Publishing a file that has just been sent.
LEMMA PutCommitApart ==
  ASSUME AInv, NEW c \in Clients, PutCommit(c) PROVE Apart'
<1> USE DEF AInv, Apart
<1>1. /\ req[c].at = "putCommit" /\ published' = published \cup req[c].files
      /\ telegram' = telegram /\ sessions' = sessions /\ issued' = issued
      /\ req'[c].at = "idle" /\ req'[c].files = {}
      /\ \A d \in Clients \ {c} : req'[d] = req[d]
  BY Returned DEF PutCommit, At, Idle
<1>2. Fresh(c)
  OBVIOUS
<1>3. PublishedSent'
  BY <1>1, NoneAssumption DEF PublishedSent, FInv, IInv, TypeOK, RequestsOK, StagedFilesOfKey
<1>4. PublishedParts'
  BY <1>1, <1>2 DEF PublishedParts, Fresh, PartFiles
<1>5. PartsApart'
  BY <1>1, PartsStay
<1>6. ASSUME NEW d \in Clients PROVE Fresh(d)' /\ Copied(d)' /\ Completes(d)'
  <2>1. CASE d = c
    BY <1>1, <2>1 DEF Fresh, Copied, Completes
  <2>2. CASE d # c
    <3>1. Fresh(d) /\ Copied(d) /\ Completes(d) /\ req'[d] = req[d]
      BY <1>1, <2>2
    <3>2. Fresh(d)'
      BY <1>1, <1>2, <2>2, <3>1 DEF Fresh, PartFiles
    <3>3. Copied(d)'
      BY <1>1, <1>2, <2>2, <3>1 DEF Fresh, Copied, PartFiles
    <3> QED BY <1>1, <3>1, <3>2, <3>3 DEF Completes
  <2> QED BY <2>1, <2>2
<1> QED BY <1>3, <1>4, <1>5, <1>6

\* A file that has just been sent becomes a part.
LEMMA PartStoredApart ==
  ASSUME AInv, NEW c \in Clients, NEW n \in PartNumbers, PartStored(c, n) PROVE Apart'
<1> USE DEF AInv, Apart
<1> DEFINE v == req[c].upload
<1>1. /\ req[c].at = "partStore" /\ v \in Uploads /\ sessions[v] # None /\ sessions[v] \in Session
      /\ published' = published /\ telegram' = telegram /\ issued' = issued
      /\ req'[c].at = "idle" /\ req'[c].files = {}
      /\ \A d \in Clients \ {c} : req'[d] = req[d]
  BY Returned DEF PartStored, At, Matches, Idle, history, FInv, IInv, TypeOK, RequestsOK, PartPlaces
<1>2. PICK f \in req[c].files : sessions' = [sessions EXCEPT ![v].parts[n] = f]
  BY DEF PartStored
<1>3. sessions'[v] = [sessions[v] EXCEPT !.parts = [@ EXCEPT ![n] = f]]
  BY <1>1, <1>2 DEF FInv, IInv, TypeOK
<1>4. /\ sessions'[v].key = sessions[v].key
      /\ \A m \in PartNumbers : sessions'[v].parts[m] = f \/ sessions'[v].parts[m] = sessions[v].parts[m]
  BY <1>1, <1>3 DEF Session
<1>5. \A u \in Uploads : u # v => sessions'[u] = sessions[u]
  BY <1>2 DEF FInv, IInv, TypeOK
<1>6. \A u \in Uploads : \A g \in PartFiles(sessions', u) :
        g \in PartFiles(sessions, u) \/ (u = v /\ g = f)
  BY <1>1, <1>4, <1>5 DEF PartFiles
<1>7. Fresh(c)
  OBVIOUS
<1>8. /\ f \notin published /\ \A u \in Uploads : f \notin PartFiles(sessions, u)
      /\ \A d \in Clients : d # c => f \notin req[d].files
  BY <1>1, <1>7 DEF Fresh
<1>9. \A u : PartFiles(sessions, u)' = PartFiles(sessions', u)
  BY DEF PartFiles
<1>10. PublishedSent' /\ PublishedParts'
  BY <1>1, <1>6, <1>8, <1>9 DEF PublishedSent, PublishedParts
<1>11. PartsApart'
  BY <1>6, <1>8, <1>9 DEF PartsApart
<1>12. ASSUME NEW d \in Clients PROVE Fresh(d)' /\ Copied(d)' /\ Completes(d)'
  <2>1. CASE d = c
    BY <1>1, <2>1 DEF Fresh, Copied, Completes
  <2>2. CASE d # c
    <3>1. Fresh(d) /\ Copied(d) /\ Completes(d) /\ req'[d] = req[d] /\ f \notin req[d].files
      BY <1>1, <1>8, <2>2
    <3>2. Fresh(d)'
      BY <1>1, <1>6, <1>9, <3>1 DEF Fresh
    <3>3. Copied(d)'
      BY <1>1, <1>6, <1>9, <3>1 DEF Copied
    <3>4. Completes(d)'
      <4>1. req[d].at \in CompletePlaces => req[d].upload \in Uploads
        BY DEF FInv, IInv, TypeOK, RequestsOK
      <4>2. \A u \in Uploads : sessions'[u] # None => sessions[u] # None /\ sessions'[u].key = sessions[u].key
        BY <1>1, <1>4, <1>5
      <4> QED BY <1>1, <3>1, <4>1, <4>2 DEF Completes, CompletePlaces
    <3> QED BY <3>2, <3>3, <3>4
  <2> QED BY <2>1, <2>2
<1> QED BY <1>10, <1>11, <1>12

\* Copying the parts: no other completion of the session is under way, as it
\* would hold the lock of the same key.
LEMMA CompleteCheckedApart ==
  ASSUME AInv, NEW c \in Clients, CompleteChecked(c) PROVE Apart'
<1> USE DEF AInv, Apart
<1> DEFINE v == req[c].upload
<1>1. /\ req[c].at = "completeLock" /\ v \in Uploads /\ sessions[v] # None
      /\ sessions[v].key = req[c].key /\ req[c].key \in Keys /\ lock[req[c].key] = None
      /\ published' = published /\ telegram' = telegram /\ issued' = issued /\ sessions' = sessions
  BY DEF CompleteChecked, At, Take, Matches, history, FInv, IInv, TypeOK, RequestsOK, CompletePlaces
<1>2. PICK ns \in SUBSET PartNumbers :
        /\ \A n \in ns : sessions[v].parts[n] # None
        /\ Move(c, "completeCommit", {sessions[v].parts[n] : n \in ns})
  BY DEF CompleteChecked
<1>3. {sessions[v].parts[n] : n \in ns} \subseteq PartFiles(sessions, v)
  BY <1>1, <1>2 DEF PartFiles
<1>4. /\ req'[c].at = "completeCommit" /\ req'[c].upload = v /\ req'[c].key = req[c].key
      /\ req'[c].files \subseteq PartFiles(sessions, v)
      /\ \A d \in Clients \ {c} : req'[d] = req[d]
  <2>1. FInv
    OBVIOUS
  <2> HIDE DEF AInv
  <2> QED BY <1>2, <1>3, <2>1, Moved
<1>5. ASSUME NEW d \in Clients, req[d].at \in {"completeCommit", "completeForget"} PROVE req[d].upload # v
  <2>1. SUFFICES ASSUME req[d].upload = v PROVE FALSE
    OBVIOUS
  <2>2. req[d].key = req[c].key
    BY <1>1, <1>5, <2>1 DEF Completes
  <2>3. lock[req[c].key] = d
    BY <1>1, <1>5, <2>2 DEF FInv, IInv, LockHeld, LockedPlaces
  <2> QED BY <1>1, <2>3, NoneAssumption
<1>6. \A f \in req'[c].files : f \in PartFiles(sessions, v) /\ f \notin published
  BY <1>1, <1>4, <1>5 DEF PublishedParts
<1>7. PublishedSent' /\ PartsApart'
  BY <1>1 DEF PublishedSent, PartsApart, PartFiles
<1>8. PublishedParts'
  BY <1>1, <1>4 DEF PublishedParts, PartFiles
<1>9. ASSUME NEW d \in Clients PROVE Fresh(d)' /\ Copied(d)' /\ Completes(d)'
  <2>1. \A u : PartFiles(sessions, u)' = PartFiles(sessions, u)
    BY <1>1 DEF PartFiles
  <2>2. CASE d = c
    <3>1. Fresh(c)'
      BY <1>4 DEF Fresh
    <3>2. Copied(c)'
      BY <1>1, <1>4, <1>5, <1>6, <2>1 DEF Copied, PartsApart
    <3>3. Completes(c)'
      BY <1>1, <1>4 DEF Completes, FInv, Accounted, SessionsIssued
    <3> QED BY <2>2, <3>1, <3>2, <3>3
  <2>3. CASE d # c
    <3>1. Fresh(d) /\ Copied(d) /\ Completes(d) /\ req'[d] = req[d]
      BY <1>4, <2>3
    <3>2. Fresh(d)'
      BY <1>1, <1>4, <1>6, <2>1, <3>1 DEF Fresh
    <3>3. Copied(d)'
      BY <1>1, <1>4, <1>5, <1>6, <2>1, <3>1 DEF Copied
    <3> QED BY <1>1, <3>1, <3>2, <3>3 DEF Completes
  <2> QED BY <2>2, <2>3
<1> QED BY <1>7, <1>8, <1>9

\* Publishing the parts of a session, which is deleted next.
LEMMA CompleteCommitApart ==
  ASSUME AInv, NEW c \in Clients, CompleteCommit(c) PROVE Apart'
<1> USE DEF AInv, Apart
<1>1. /\ req[c].at = "completeCommit" /\ published' = published \cup req[c].files
      /\ telegram' = telegram /\ sessions' = sessions /\ issued' = issued
  BY DEF CompleteCommit, At
<1>2. /\ req'[c].at = "completeForget" /\ req'[c].files = req[c].files /\ req'[c].upload = req[c].upload
      /\ req'[c].key = req[c].key
      /\ \A d \in Clients \ {c} : req'[d] = req[d]
  <2>1. FInv
    OBVIOUS
  <2> QED BY <2>1, Moved DEF CompleteCommit
<1>3. Copied(c) /\ Completes(c)
  OBVIOUS
<1>4. PublishedSent'
  BY <1>1, NoneAssumption DEF PublishedSent, FInv, IInv, TypeOK, RequestsOK, CompletePlaces, StagedFilesOfKey
<1>5. PublishedParts'
  BY <1>1, <1>2, <1>3 DEF PublishedParts, Copied, PartFiles
<1>6. PartsApart'
  BY <1>1, PartsStay
<1>7. ASSUME NEW d \in Clients PROVE Fresh(d)' /\ Copied(d)' /\ Completes(d)'
  <2>1. \A u : PartFiles(sessions, u)' = PartFiles(sessions, u)
    BY <1>1 DEF PartFiles
  <2>2. CASE d = c
    BY <1>1, <1>2, <1>3, <2>2 DEF Fresh, Copied, Completes
  <2>3. CASE d # c
    <3>1. Fresh(d) /\ Copied(d) /\ Completes(d) /\ req'[d] = req[d]
      BY <1>2, <2>3
    <3>2. Fresh(d)'
      BY <1>1, <1>2, <2>1, <2>3, <3>1 DEF Fresh
    <3>3. Copied(d)'
      BY <1>1, <1>2, <2>1, <2>3, <3>1 DEF Copied
    <3> QED BY <1>1, <3>1, <3>2, <3>3 DEF Completes
  <2> QED BY <2>2, <2>3
<1> QED BY <1>4, <1>5, <1>6, <1>7
--------------------------------------------------------------------------------
(* The invariant *)

\* The steps of PutObject.
LEMMA PutApart ==
  ASSUME AInv, NEW c \in Clients, Put(c) PROVE Apart'
<1> USE DEF At
<1>1. FInv /\ Carries(c)
  BY DEF AInv, FInv, Accounted
<1>2. req[c].at # "idle" => req[c].key \in Keys
  BY <1>1 DEF FInv, IInv, TypeOK, RequestsOK
<1>3. ASSUME NEW k \in Keys, PutCall(c, k) PROVE Apart'
  BY <1>3, CallApart DEF PutCall, history
<1>4. ASSUME PutRefused(c) PROVE Apart'
  BY <1>4, ReturnApart DEF PutRefused, history
<1>5. ASSUME PutLocked(c) PROVE Apart'
  <2>1. PICK next \in {"putUpload", "putCommit"} : Move(c, next, {})
    BY <1>5 DEF PutLocked
  <2>2. /\ req'[c].at = next /\ req'[c].files = {}
        /\ \A d \in Clients \ {c} : req'[d] = req[d]
    BY <1>1, <2>1, Moved
  <2> QED BY <1>5, <2>2, LessOne DEF PutLocked, history
<1>6. ASSUME PutSent(c) PROVE Apart'
  BY <1>1, <1>2, <1>6, SentApart DEF PutSent, Carries, history
<1>7. ASSUME PutNotSent(c) PROVE Apart'
  BY <1>2, <1>7, NotSentApart DEF PutNotSent
<1>8. ASSUME PutCommitFailed(c) PROVE Apart'
  BY <1>8, ReturnApart DEF PutCommitFailed, history
<1> QED BY <1>3, <1>4, <1>5, <1>6, <1>7, <1>8, PutCommitApart DEF Put

\* The steps of UploadPart.
LEMMA PartApart ==
  ASSUME AInv, NEW c \in Clients, Part(c) PROVE Apart'
<1> USE DEF At
<1>1. FInv /\ Carries(c)
  BY DEF AInv, FInv, Accounted
<1>2. req[c].at # "idle" => req[c].key \in Keys
  BY <1>1 DEF FInv, IInv, TypeOK, RequestsOK
<1>3. ASSUME NEW k \in Keys, NEW u \in Uploads, PartCall(c, k, u) PROVE Apart'
  BY <1>3, CallApart DEF PartCall, history
<1>4. ASSUME PartSent(c) PROVE Apart'
  BY <1>1, <1>2, <1>4, SentApart DEF PartSent, Carries, history
<1>5. ASSUME PartNotSent(c) PROVE Apart'
  BY <1>2, <1>5, NotSentApart DEF PartNotSent
<1>6. ASSUME PartTooLate(c) PROVE Apart'
  BY <1>6, ReturnApart DEF PartTooLate
<1> QED BY <1>3, <1>4, <1>5, <1>6, PartStoredApart DEF Part

\* The session goes, and with it its published parts.
LEMMA CompleteForgetApart ==
  ASSUME AInv, NEW c \in Clients, CompleteForget(c) PROVE Apart'
<1> DEFINE v == req[c].upload
<1>1. /\ published' = published /\ telegram' = telegram /\ issued' = issued
      /\ req[c].at = "completeForget" /\ v \in Uploads
      /\ sessions' = [sessions EXCEPT ![v] = None] /\ sessions \in [Uploads -> Session \cup {None}]
  BY DEF CompleteForget, At, AInv, FInv, IInv, TypeOK, RequestsOK, CompletePlaces
<1>2. /\ req'[c].files = {} /\ req'[c].at = "idle"
      /\ \A d \in Clients \ {c} : req'[d] = req[d]
  <2>1. FInv /\ Return(c)
    BY DEF AInv, CompleteForget
  <2> QED BY <2>1, Returned DEF Idle
<1>3. \A u \in Uploads : sessions'[u] = IF u = v THEN None ELSE sessions[u]
  BY <1>1
<1>4. KeepsKeys
  BY <1>3 DEF KeepsKeys
<1>5. /\ \A u \in Uploads : \A f \in PartFiles(sessions', u) : f \in PartFiles(sessions, u)
      /\ PartFiles(sessions', v) = {}
  BY <1>1, <1>3 DEF PartFiles
<1>6. \A d \in Clients : Lessens(d)
  BY <1>2 DEF Lessens
<1>7. \A d \in Clients : req[d].at = "completeForget" =>
        req'[d] = req[d] \/ PartFiles(sessions', req[d].upload) = {}
  BY <1>2, <1>5
<1> HIDE DEF v
<1> QED BY <1>1, <1>4, <1>5, <1>6, <1>7, LessApart

\* The steps of CompleteMultipartUpload.
LEMMA CompleteApart ==
  ASSUME AInv, NEW c \in Clients, Complete(c) PROVE Apart'
<1> USE DEF At
<1>1. ASSUME NEW k \in Keys, NEW u \in Uploads, CompleteCall(c, k, u) PROVE Apart'
  BY <1>1, CallApart DEF CompleteCall, history
<1>2. ASSUME CompleteRefused(c) PROVE Apart'
  BY <1>2, ReturnApart DEF CompleteRefused, history
<1>3. ASSUME CompleteCommitFailed(c) PROVE Apart'
  BY <1>3, ReturnApart DEF CompleteCommitFailed, history
<1> QED BY <1>1, <1>2, <1>3, CompleteCheckedApart, CompleteCommitApart, CompleteForgetApart DEF Complete

\* Sessions may come and go while the requests stay as they are.
LEMMA SessionsApart ==
  ASSUME AInv, UNCHANGED <<telegram, req, published>>, issued \subseteq issued', KeepsKeys,
         \A u \in Uploads : \A f \in PartFiles(sessions', u) : f \in PartFiles(sessions, u)
  PROVE  Apart'
<1>1. \A d \in Clients : Lessens(d)
  BY DEF Lessens
<1> QED BY <1>1, LessApart

\* CreateMultipartUpload: the new session is empty, under an id that nobody uses.
LEMMA CreateApart ==
  ASSUME AInv, NEW k \in Keys, NEW u \in Uploads, NEW t \in Times, CreateUpload(k, u, t)
  PROVE  Apart'
<1> DEFINE grown == Grown(k, u, t)
<1>1. /\ grown \in [Uploads -> Session \cup {None}]
      /\ grown[u] = [key |-> k, createdAt |-> t, parts |-> NoParts]
      /\ \A v \in Uploads : v # u => grown[v] = sessions[v]
  <2>1. IInv
    BY DEF AInv, FInv
  <2> QED BY <2>1, GrownSessions
<1>2. \/ sessions' = grown
      \/ \E w \in Uploads : sessions' = [grown EXCEPT ![w] = None]
  <2>1. \A w \in Oldest(grown) : w \in Uploads
    BY DEF Oldest, Live
  <2> QED BY <2>1, Evicted
<1>3. /\ u \notin issued /\ issued' = issued \cup {u} /\ UNCHANGED <<telegram, req, published>>
  BY DEF CreateUpload, history
<1> HIDE DEF grown
<1>4. \A v \in Uploads : sessions'[v] = None \/ sessions'[v] = grown[v]
  BY <1>1, <1>2
<1>5. KeepsKeys
  BY <1>1, <1>3, <1>4 DEF KeepsKeys
<1>6. \A f : f \notin PartFiles(grown, u)
  BY <1>1 DEF PartFiles, NoParts
<1>7. \A v \in Uploads : \A f \in PartFiles(sessions', v) : f \in PartFiles(grown, v)
  BY <1>4 DEF PartFiles
<1>8. \A v \in Uploads : v # u => \A f \in PartFiles(grown, v) : f \in PartFiles(sessions, v)
  BY <1>1 DEF PartFiles
<1>9. \A v \in Uploads : \A f \in PartFiles(sessions', v) : f \in PartFiles(sessions, v)
  BY <1>6, <1>7, <1>8
<1> QED BY <1>3, <1>5, <1>9, SessionsApart

\* AbortMultipartUpload takes a session away.
LEMMA AbortApart ==
  ASSUME AInv, NEW u \in Uploads, AbortUpload(u) PROVE Apart'
<1>1. \A v \in Uploads : sessions'[v] = IF v = u THEN None ELSE sessions[v]
  BY DEF AbortUpload, AInv, FInv, IInv, TypeOK
<1>2. KeepsKeys
  BY <1>1 DEF KeepsKeys
<1>3. \A v \in Uploads : \A f \in PartFiles(sessions', v) : f \in PartFiles(sessions, v)
  BY <1>1 DEF PartFiles
<1> QED BY <1>2, <1>3, SessionsApart DEF AbortUpload, history

\* DeleteObject touches no file that is on its way.
LEMMA DeleteApart ==
  ASSUME AInv, NEW k \in Keys, DeleteObject(k) PROVE Apart'
<1>1. UNCHANGED <<telegram, req, published, sessions, issued>>
  BY DEF DeleteObject, history
<1>2. KeepsKeys
  BY <1>1 DEF KeepsKeys, AInv, FInv, Accounted, SessionsIssued
<1> QED BY <1>1, <1>2, SessionsApart

\* A restart takes all sessions and requests away.
LEMMA CrashApart ==
  ASSUME AInv, Crash PROVE Apart'
<1>1. \A u \in Uploads : sessions'[u] = None
  BY DEF Crash
<1>2. \A c \in Clients : req'[c] = Idle
  BY DEF Crash
<1>3. published' = published /\ telegram' = telegram
  BY DEF Crash
<1>4. \A u \in Uploads : PartFiles(sessions, u)' = {}
  BY <1>1 DEF PartFiles
<1>5. PublishedSent' /\ PublishedParts' /\ PartsApart'
  BY <1>3, <1>4 DEF AInv, Apart, PublishedSent, PublishedParts, PartsApart
<1>6. \A c \in Clients : Fresh(c)' /\ Copied(c)' /\ Completes(c)'
  BY <1>2 DEF Idle, Fresh, Copied, Completes
<1> QED BY <1>5, <1>6 DEF Apart

\* No file is published twice: at every place the files that a request is about
\* to publish are with it alone.
THEOREM FilesApart == Spec => []AInv
<1>1. Init => Apart
  BY DEF Init, Idle, Apart, PublishedSent, PublishedParts, PartsApart, Fresh, Copied, Completes, PartFiles
<1>2. AInv /\ [Next]_vars => Apart'
  <2> SUFFICES ASSUME AInv, [Next]_vars PROVE Apart'
    OBVIOUS
  <2>1. CASE UNCHANGED vars
    <3>1. KeepsKeys
      BY <2>1 DEF vars, KeepsKeys, AInv, FInv, Accounted, SessionsIssued
    <3> QED BY <2>1, <3>1, SessionsApart DEF vars, history
  <2>2. CASE Next
    BY <2>2, PutApart, PartApart, CompleteApart, DeleteApart, CreateApart, AbortApart, CrashApart DEF Next
  <2> QED BY <2>1, <2>2
<1> QED BY <1>1, <1>2, Accounting, PTL DEF Spec, AInv
--------------------------------------------------------------------------------
(* The refinement *)

PhaseOf(c) ==
  CASE At(c, "idle") -> "idle" [] At(c, "completeForget") -> "done" [] OTHER -> "working"

Phases == [c \in Clients |-> PhaseOf(c)]

\* A step of one request changes its phase only.
LEMMA PhaseStep ==
  ASSUME NEW c \in Clients, \A d \in Clients \ {c} : req'[d] = req[d]
  PROVE  Phases' = [Phases EXCEPT ![c] = PhaseOf(c)']
<1>1. \A d \in Clients : d # c => PhaseOf(d)' = PhaseOf(d)
  BY DEF PhaseOf, At
<1> QED BY <1>1 DEF Phases

\* Steps of AtomicObjects, by what they do to objects, published files and phases.
LEMMA BeginStep ==
  ASSUME NEW c \in Clients, Phases[c] = "idle", Phases' = [Phases EXCEPT ![c] = "working"],
         UNCHANGED <<objects, published>>
  PROVE  Atomic!Next
BY DEF Atomic!Next, Atomic!Begin, Phases, PhaseOf

\* A phase that ends, and nothing else, is a return.
LEMMA FinishStep ==
  ASSUME NEW c \in Clients, Phases[c] # "idle", Phases' = [Phases EXCEPT ![c] = "idle"],
         UNCHANGED <<objects, published>>
  PROVE  Atomic!Next
BY DEF Atomic!Next, Atomic!Finish, Phases, PhaseOf

\* Files that no write has published, under one key, are a write.
LEMMA WriteStep ==
  ASSUME NEW c \in Clients, NEW k \in Keys, NEW p \in {"done", "idle"},
         NEW files \in SUBSET (Files \ published), Phases[c] = "working",
         objects' = [objects EXCEPT ![k] = files], published' = published \cup files,
         Phases' = [Phases EXCEPT ![c] = p]
  PROVE  Atomic!Next
<1>1. Atomic!Write(c, k)
  BY DEF Atomic!Write, Phases, PhaseOf
<1> QED BY <1>1 DEF Atomic!Next

\* A step within a phase that leaves the objects alone is none of the abstract store.
LEMMA StutterStep ==
  ASSUME NEW c \in Clients, PhaseOf(c)' = PhaseOf(c), \A d \in Clients \ {c} : req'[d] = req[d],
         UNCHANGED <<objects, published>>
  PROVE  UNCHANGED Atomic!vars
<1>1. Phases' = Phases
  BY PhaseStep DEF Phases
<1> QED BY <1>1 DEF Atomic!vars, Phases, PhaseOf

\* A call begins a request; what does not commit ends it without effect.
LEMMA CallBegins ==
  ASSUME FInv, NEW c \in Clients, NEW k, NEW u,
         NEW place \in {"putLock", "partUpload", "completeLock"}, Call(c, place, k, u),
         UNCHANGED <<objects, published>>
  PROVE  Atomic!Next
<1>1. /\ req'[c].at = place /\ req[c].at = "idle"
      /\ \A d \in Clients \ {c} : req'[d] = req[d]
  BY DEF Call, At, FInv, IInv, TypeOK, RequestsOK
<1>2. Phases[c] = "idle" /\ PhaseOf(c)' = "working"
  BY <1>1 DEF Phases, PhaseOf, At
<1> QED BY <1>1, <1>2, PhaseStep, BeginStep

\* A request that returns without a commit finishes.
LEMMA ReturnFinishes ==
  ASSUME FInv, NEW c \in Clients, Return(c), req[c].at # "idle", UNCHANGED <<objects, published>>
  PROVE  Atomic!Next
<1>1. req'[c].at = "idle" /\ \A d \in Clients \ {c} : req'[d] = req[d]
  BY Returned DEF Idle
<1>2. Phases[c] # "idle" /\ PhaseOf(c)' = "idle"
  BY <1>1 DEF Phases, PhaseOf, At
<1> QED BY <1>1, <1>2, PhaseStep, FinishStep

\* A request that goes on within its work does nothing of its own in the abstract store.
LEMMA MoveStutters ==
  ASSUME FInv, NEW c \in Clients, NEW place, NEW files, Move(c, place, files),
         req[c].at \notin {"idle", "completeForget"}, place \notin {"idle", "completeForget"},
         UNCHANGED <<objects, published>>
  PROVE  UNCHANGED Atomic!vars
<1>1. req'[c].at = place /\ \A d \in Clients \ {c} : req'[d] = req[d]
  BY Moved
<1>2. PhaseOf(c)' = PhaseOf(c)
  BY <1>1 DEF PhaseOf, At
<1> QED BY <1>1, <1>2, StutterStep

\* The steps of PutObject: the commit is the write.
LEMMA PutRefines ==
  ASSUME AInv, NEW c \in Clients, Put(c) PROVE Atomic!Next \/ UNCHANGED Atomic!vars
<1> USE DEF At
<1>1. FInv /\ Fresh(c) /\ (req[c].at # "idle" => req[c].key \in Keys) /\ req[c].files \subseteq Files
  BY DEF AInv, Apart, FInv, IInv, TypeOK, RequestsOK, Request
<1>2. ASSUME NEW k \in Keys, PutCall(c, k) PROVE Atomic!Next
  BY <1>1, <1>2, CallBegins DEF PutCall, history
<1>3. ASSUME PutRefused(c) PROVE Atomic!Next
  BY <1>1, <1>3, ReturnFinishes DEF PutRefused, history
<1>4. ASSUME PutLocked(c) PROVE UNCHANGED Atomic!vars
  BY <1>1, <1>4, MoveStutters DEF PutLocked, history
<1>5. ASSUME PutSent(c) PROVE UNCHANGED Atomic!vars
  BY <1>1, <1>5, MoveStutters DEF PutSent, Sent, history
<1>6. ASSUME PutNotSent(c) PROVE Atomic!Next
  BY <1>1, <1>6, ReturnFinishes DEF PutNotSent, NotSent
<1>7. ASSUME PutCommitFailed(c) PROVE Atomic!Next
  BY <1>1, <1>7, ReturnFinishes DEF PutCommitFailed, history
<1>8. ASSUME PutCommit(c) PROVE Atomic!Next
  <2>1. req'[c].at = "idle" /\ \A d \in Clients \ {c} : req'[d] = req[d]
    BY <1>1, <1>8, Returned DEF PutCommit, Idle
  <2>2. Phases[c] = "working" /\ PhaseOf(c)' = "idle"
    BY <1>8, <2>1 DEF PutCommit, Phases, PhaseOf
  <2>3. Phases' = [Phases EXCEPT ![c] = "idle"]
    BY <2>1, <2>2, PhaseStep
  <2>4. req[c].files \in SUBSET (Files \ published) /\ req[c].key \in Keys
    BY <1>1, <1>8 DEF PutCommit, Fresh
  <2> QED BY <1>8, <2>2, <2>3, <2>4, WriteStep DEF PutCommit
<1> QED BY <1>2, <1>3, <1>4, <1>5, <1>6, <1>7, <1>8 DEF Put

\* The steps of UploadPart: no part is an object.
LEMMA PartRefines ==
  ASSUME AInv, NEW c \in Clients, Part(c) PROVE Atomic!Next \/ UNCHANGED Atomic!vars
<1> USE DEF At
<1>1. FInv
  BY DEF AInv
<1>2. ASSUME NEW k \in Keys, NEW u \in Uploads, PartCall(c, k, u) PROVE Atomic!Next
  BY <1>1, <1>2, CallBegins DEF PartCall, history
<1>3. ASSUME PartSent(c) PROVE UNCHANGED Atomic!vars
  BY <1>1, <1>3, MoveStutters DEF PartSent, Sent, history
<1>4. ASSUME PartNotSent(c) PROVE Atomic!Next
  BY <1>1, <1>4, ReturnFinishes DEF PartNotSent, NotSent
<1>5. ASSUME PartTooLate(c) PROVE Atomic!Next
  BY <1>1, <1>5, ReturnFinishes DEF PartTooLate
<1>6. ASSUME NEW n \in PartNumbers, PartStored(c, n) PROVE Atomic!Next
  BY <1>1, <1>6, ReturnFinishes DEF PartStored, history
<1> QED BY <1>2, <1>3, <1>4, <1>5, <1>6 DEF Part

\* The steps of CompleteMultipartUpload: the commit is the write.
LEMMA CompleteRefines ==
  ASSUME AInv, NEW c \in Clients, Complete(c) PROVE Atomic!Next \/ UNCHANGED Atomic!vars
<1> USE DEF At
<1>1. FInv /\ Copied(c) /\ (req[c].at # "idle" => req[c].key \in Keys) /\ req[c].files \subseteq Files
  BY DEF AInv, Apart, FInv, IInv, TypeOK, RequestsOK, Request
<1>2. ASSUME NEW k \in Keys, NEW u \in Uploads, CompleteCall(c, k, u) PROVE Atomic!Next
  BY <1>1, <1>2, CallBegins DEF CompleteCall, history
<1>3. ASSUME CompleteRefused(c) PROVE Atomic!Next
  BY <1>1, <1>3, ReturnFinishes DEF CompleteRefused, history
<1>4. ASSUME CompleteChecked(c) PROVE UNCHANGED Atomic!vars
  BY <1>1, <1>4, MoveStutters DEF CompleteChecked, history
<1>5. ASSUME CompleteCommitFailed(c) PROVE Atomic!Next
  BY <1>1, <1>5, ReturnFinishes DEF CompleteCommitFailed, history
<1>6. ASSUME CompleteForget(c) PROVE Atomic!Next
  BY <1>1, <1>6, ReturnFinishes DEF CompleteForget
<1>7. ASSUME CompleteCommit(c) PROVE Atomic!Next
  <2>1. req'[c].at = "completeForget" /\ \A d \in Clients \ {c} : req'[d] = req[d]
    BY <1>1, <1>7, Moved DEF CompleteCommit
  <2>2. Phases[c] = "working" /\ PhaseOf(c)' = "done"
    BY <1>7, <2>1 DEF CompleteCommit, Phases, PhaseOf
  <2>3. Phases' = [Phases EXCEPT ![c] = "done"]
    BY <2>1, <2>2, PhaseStep
  <2>4. req[c].files \in SUBSET (Files \ published) /\ req[c].key \in Keys
    BY <1>1, <1>7 DEF CompleteCommit, Copied
  <2> QED BY <1>7, <2>2, <2>3, <2>4, WriteStep DEF CompleteCommit
<1> QED BY <1>2, <1>3, <1>4, <1>5, <1>6, <1>7 DEF Complete

\* An object changes in one step, at most once per request and only while the
\* request runs; a failed request changes nothing; nothing that was replaced or
\* deleted comes back: store.go's steps are steps of AtomicObjects or stutters.
THEOREM ImplementsAtomicObjects == Spec => AtomicSpec
<1>1. Init => Atomic!Init
  BY DEF Init, Idle, At, Atomic!Init
<1>2. AInv /\ [Next]_vars => [Atomic!Next]_(Atomic!vars)
  <2> SUFFICES ASSUME AInv, [Next]_vars PROVE Atomic!Next \/ UNCHANGED Atomic!vars
    OBVIOUS
  <2>1. CASE UNCHANGED vars
    BY <2>1 DEF vars, Atomic!vars, At
  <2>2. ASSUME NEW k \in Keys, DeleteObject(k) PROVE Atomic!Next
    <3>1. /\ UNCHANGED <<published, req>> /\ objects' = [objects EXCEPT ![k] = None]
      BY <2>2 DEF DeleteObject, history
    <3>2. Atomic!Delete(k)
      BY <3>1 DEF Atomic!Delete, At
    <3> QED BY <3>2 DEF Atomic!Next
  <2>3. ASSUME UNCHANGED <<objects, published, req>> PROVE UNCHANGED Atomic!vars
    BY <2>3 DEF Atomic!vars, At
  <2>4. ASSUME NEW k \in Keys, NEW u \in Uploads, NEW t \in Times, CreateUpload(k, u, t)
        PROVE  UNCHANGED Atomic!vars
    BY <2>3, <2>4 DEF CreateUpload, history
  <2>5. ASSUME NEW u \in Uploads, AbortUpload(u) PROVE UNCHANGED Atomic!vars
    BY <2>3, <2>5 DEF AbortUpload, history
  <2>6. ASSUME Crash PROVE Atomic!Next
    <3>1. UNCHANGED <<objects, published>> /\ req' = [c \in Clients |-> Idle]
      BY <2>6 DEF Crash
    <3>2. \A c \in Clients : PhaseOf(c)' = "idle"
      BY <3>1 DEF PhaseOf, At, Idle
    <3>3. Phases' = [c \in Clients |-> "idle"]
      BY <3>2 DEF Phases
    <3>4. Atomic!Restart
      BY <3>1, <3>3 DEF Atomic!Restart, Phases, PhaseOf
    <3> QED BY <3>4 DEF Atomic!Next
  <2>7. CASE Next
    BY <2>2, <2>4, <2>5, <2>6, <2>7, PutRefines, PartRefines, CompleteRefines DEF Next
  <2> QED BY <2>1, <2>7
<1> QED BY <1>1, <1>2, FilesApart, PTL DEF Spec, AtomicSpec, Atomic!Spec
================================================================================
