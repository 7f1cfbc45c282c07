------------------------------ MODULE ObjectStore ------------------------------
(***************************************************************************)
(* store/store.go: PutObject, DeleteObject and the multipart lifecycle of   *)
(* store.ObjectStore.  Bytes go to Telegram first, where they are never     *)
(* deleted; a metadata transaction then makes them an object.  Unfinished   *)
(* multipart uploads live in memory only.                                   *)
(*                                                                         *)
(* A request is a goroutine; it is cut where it waits, calls Telegram or    *)
(* SQLite, or lets go of multipartMu, and each piece is one step.  An input *)
(* (size, part number, manifest) is chosen where the code first uses it.    *)
(* The upload slots bound the number of requests in flight and are the      *)
(* number of Clients here (what requests wait for is Admission's subject);  *)
(* an object is the set of its Telegram files, its chunk order and offsets  *)
(* are those of buildMultipartObject.                                       *)
(***************************************************************************)
EXTENDS Naturals, FiniteSets

CONSTANTS
  Clients,       \* requests in flight
  Keys,          \* bucket+key pairs
  Snapshots,     \* Snapshots[n]: the keys whose bucket is in startupBuckets after n restarts
  Files,         \* messages Telegram can store, bounds the uploads
  Attempts,      \* how often one upload is sent before it fails
  Uploads,       \* multipart upload ids, bounds the sessions
  PartNumbers,   \* part numbers a client uses
  MaxMultipart,  \* maxMultipartUploads
  Times,         \* readings of the wall clock
  ClockForward,  \* TRUE iff each reading is later than the previous ones
  MaxCrashes,    \* bound on process restarts
  None

ASSUME NoneAssumption ==
  None \notin Keys \cup Files \cup Uploads \cup Clients
ASSUME BoundsAssumption ==
  /\ MaxMultipart \in Nat \ {0} /\ Attempts \in Nat \ {0} /\ MaxCrashes \in Nat
  /\ Times \subseteq Nat /\ ClockForward \in BOOLEAN
ASSUME SnapshotsAssumption == Snapshots \in [0..MaxCrashes -> SUBSET Keys]

VARIABLES
  objects,    \* objects[k]  : the files of the committed object, None without one
  telegram,   \* telegram[f] : the key in the caption of message f, None if never sent
  sessions,   \* sessions[u] : the entry of multipartUploads, None without one
  issued,     \* the upload ids ever handed out (random, so never twice)
  lock,       \* lock[k]     : the request that holds the KeyedLocker lock of k
  req,        \* req[c]      : where request c stands, its key, upload and files
  logged,     \* files named by an orphan_upload log line
  published,  \* history: files some commit made part of an object
  dropped,    \* history: files no log line, session, request or commit accounts for
  crashes     \* restarts so far

vars == <<objects, telegram, sessions, issued, lock, req, logged, published, dropped, crashes>>
history == <<published, dropped, crashes>>

Idle == [at |-> "idle", key |-> None, upload |-> None, files |-> {}]
NoParts == [n \in PartNumbers |-> None]

Init ==
  /\ objects = [k \in Keys |-> None]
  /\ telegram = [f \in Files |-> None]
  /\ sessions = [u \in Uploads |-> None]
  /\ issued = {}
  /\ lock = [k \in Keys |-> None]
  /\ req = [c \in Clients |-> Idle]
  /\ logged = {}
  /\ published = {}
  /\ dropped = {}
  /\ crashes = 0

\* A start reads the enabled buckets once; every check uses that snapshot.
Served(k) == k \in Snapshots[crashes]

At(c, place) == req[c].at = place
Unsent == {f \in Files : telegram[f] = None}
Live(ss) == {u \in Uploads : ss[u] # None}
PartFiles(ss, u) == IF ss[u] = None THEN {} ELSE {ss[u].parts[n] : n \in PartNumbers} \ {None}

Call(c, place, k, u) ==
  /\ At(c, "idle")
  /\ req' = [req EXCEPT ![c] = [at |-> place, key |-> k, upload |-> u, files |-> {}]]

Move(c, next, files) == req' = [req EXCEPT ![c] = [@ EXCEPT !.at = next, !.files = files]]

Return(c) == req' = [req EXCEPT ![c] = Idle]

\* The upload that request c waits for stores fs under the caption of its key.
\* An attempt whose answer is lost may have stored its message all the same, and
\* the next attempt sends the whole body again: what only lost answers name, no
\* return value, session or log line ever does.
Stored(c, fs, lost) ==
  /\ telegram' = [f \in Files |-> IF f \in fs \cup lost THEN req[c].key ELSE telegram[f]]
  /\ dropped' = dropped \cup lost

\* One of at most Attempts attempts is answered.
Sent(c, next) ==
  \E f \in Unsent, lost \in SUBSET Unsent :
    /\ f \notin lost /\ Cardinality(lost) < Attempts
    /\ Stored(c, {f}, lost)
    /\ Move(c, next, {f})

\* The upload fails: the body could not be read, Telegram refused it, or no
\* attempt was answered.
NotSent(c) ==
  /\ \E lost \in SUBSET Unsent : Cardinality(lost) <= Attempts /\ Stored(c, {}, lost)
  /\ Return(c)

Take(c) ==
  /\ lock[req[c].key] = None
  /\ lock' = [lock EXCEPT ![req[c].key] = c]

Release(c) == lock' = [lock EXCEPT ![req[c].key] = None]
--------------------------------------------------------------------------------
(* PutObject *)

\* store.go:152-161, the bucket check.
PutCall(c, k) ==
  /\ Served(k)
  /\ Call(c, "putLock", k, None)
  /\ UNCHANGED <<objects, telegram, sessions, issued, lock, logged, history>>

\* The context ends in the wait for a slot, or the size and type fit no
\* upload strategy (store.go:164-184): nothing has changed.
PutRefused(c) ==
  /\ At(c, "putLock")
  /\ Return(c)
  /\ UNCHANGED <<objects, telegram, sessions, issued, lock, logged, history>>

\* The key lock is granted; an empty object needs no upload (store.go:170-185).
PutLocked(c) ==
  /\ At(c, "putLock")
  /\ Take(c)
  /\ \E next \in {"putUpload", "putCommit"} : Move(c, next, {})
  /\ UNCHANGED <<objects, telegram, sessions, issued, logged, history>>

PutSent(c) ==
  /\ At(c, "putUpload")
  /\ Sent(c, "putCommit")
  /\ UNCHANGED <<objects, sessions, issued, lock, logged, published, crashes>>

\* Deviation: an error return that keeps the key lock.
PutNotSentKeepsLock(c) ==
  /\ At(c, "putUpload")
  /\ NotSent(c)
  /\ UNCHANGED <<objects, sessions, issued, lock, logged, published, crashes>>

PutNotSent(c) ==
  /\ At(c, "putUpload")
  /\ NotSent(c)
  /\ Release(c)
  /\ UNCHANGED <<objects, sessions, issued, logged, published, crashes>>

\* Metadata commits, the deferred releases run.
PutCommit(c) ==
  /\ At(c, "putCommit")
  /\ objects' = [objects EXCEPT ![req[c].key] = req[c].files]
  /\ published' = published \cup req[c].files
  /\ Release(c)
  /\ Return(c)
  /\ UNCHANGED <<telegram, sessions, issued, logged, dropped, crashes>>

\* The transaction fails (SQLITE_BUSY, a cancelled context) and the uploaded
\* file is logged as an orphan.
PutCommitFailed(c) ==
  /\ At(c, "putCommit")
  /\ logged' = logged \cup req[c].files
  /\ Release(c)
  /\ Return(c)
  /\ UNCHANGED <<objects, telegram, sessions, issued, history>>

\* DeleteObject is one transaction; it takes no lock (store.go:715-726).
DeleteObject(k) ==
  /\ Served(k)
  /\ objects[k] # None
  /\ objects' = [objects EXCEPT ![k] = None]
  /\ UNCHANGED <<telegram, sessions, issued, lock, req, logged, history>>
--------------------------------------------------------------------------------
(* Multipart sessions *)

\* The sessions evictOldestMultipartUploadLocked may pick: map iteration
\* order decides between equal creation times.
Oldest(ss) ==
  {u \in Live(ss) : \A v \in Live(ss) : ss[u].createdAt <= ss[v].createdAt}

\* Deviation: the limit is tested before the new session is counted.
EvictOneLate(ss) ==
  IF Cardinality(Live(ss)) <= MaxMultipart + 1
    THEN sessions' = ss /\ UNCHANGED logged
    ELSE \E u \in Oldest(ss) :
           /\ sessions' = [ss EXCEPT ![u] = None]
           /\ logged' = logged \cup PartFiles(ss, u)

\* Deviation: the newest session is evicted.
EvictNewest(ss) ==
  IF Cardinality(Live(ss)) <= MaxMultipart
    THEN sessions' = ss /\ UNCHANGED logged
    ELSE \E u \in {w \in Live(ss) : \A v \in Live(ss) : ss[w].createdAt >= ss[v].createdAt} :
           /\ sessions' = [ss EXCEPT ![u] = None]
           /\ logged' = logged \cup PartFiles(ss, u)

EvictOldest(ss) ==
  IF Cardinality(Live(ss)) <= MaxMultipart
    THEN sessions' = ss /\ UNCHANGED logged
    ELSE \E u \in Oldest(ss) :
           /\ sessions' = [ss EXCEPT ![u] = None]
           /\ logged' = logged \cup PartFiles(ss, u)

\* Deviation: the bucket is not looked up.
CreateUploadUnchecked(k, u, t) ==
  /\ u \notin issued
  /\ ClockForward => \A v \in Live(sessions) : sessions[v].createdAt < t
  /\ issued' = issued \cup {u}
  /\ EvictOldest([sessions EXCEPT ![u] = [key |-> k, createdAt |-> t, parts |-> NoParts]])
  /\ UNCHANGED <<objects, telegram, lock, req, history>>

\* CreateMultipartUpload; createdAt is time.Now().UTC(), which has dropped the
\* monotonic reading and so may stand still or step back.
CreateUpload(k, u, t) ==
  /\ Served(k)
  /\ u \notin issued
  /\ ClockForward => \A v \in Live(sessions) : sessions[v].createdAt < t
  /\ issued' = issued \cup {u}
  /\ EvictOldest([sessions EXCEPT ![u] = [key |-> k, createdAt |-> t, parts |-> NoParts]])
  /\ UNCHANGED <<objects, telegram, lock, req, history>>

AbortUpload(u) ==
  /\ sessions[u] # None
  /\ logged' = logged \cup PartFiles(sessions, u)
  /\ sessions' = [sessions EXCEPT ![u] = None]
  /\ UNCHANGED <<objects, telegram, issued, lock, req, history>>

Matches(c) == sessions[req[c].upload] # None /\ sessions[req[c].upload].key = req[c].key

\* UploadPart, the first look at the session (store.go:255-269).
PartCall(c, k, u) ==
  /\ sessions[u] # None /\ sessions[u].key = k
  /\ Call(c, "partUpload", k, u)
  /\ UNCHANGED <<objects, telegram, sessions, issued, lock, logged, history>>

PartSent(c) ==
  /\ At(c, "partUpload")
  /\ Sent(c, "partStore")
  /\ UNCHANGED <<objects, sessions, issued, lock, logged, published, crashes>>

PartNotSent(c) ==
  /\ At(c, "partUpload")
  /\ NotSent(c)
  /\ UNCHANGED <<objects, sessions, issued, lock, logged, published, crashes>>

\* Deviation: the part that is replaced is not logged.
PartStoredOver(c, n) ==
  /\ At(c, "partStore")
  /\ Matches(c)
  /\ \E f \in req[c].files : sessions' = [sessions EXCEPT ![req[c].upload].parts[n] = f]
  /\ Return(c)
  /\ UNCHANGED <<objects, telegram, issued, lock, logged, history>>

\* The second look at the session: the part replaces one of the same number,
\* whose file is logged (store.go:285-300).
PartStored(c, n) ==
  /\ At(c, "partStore")
  /\ Matches(c)
  /\ logged' = logged \cup ({sessions[req[c].upload].parts[n]} \ {None})
  /\ \E f \in req[c].files : sessions' = [sessions EXCEPT ![req[c].upload].parts[n] = f]
  /\ Return(c)
  /\ UNCHANGED <<objects, telegram, issued, lock, history>>

\* The session went away during the upload: ErrNoSuchUpload, and no log line
\* names the file (store.go:285-288).
PartTooLate(c) ==
  /\ At(c, "partStore")
  /\ ~Matches(c)
  /\ dropped' = dropped \cup req[c].files
  /\ Return(c)
  /\ UNCHANGED <<objects, telegram, sessions, issued, lock, logged, published, crashes>>

CompleteCall(c, k, u) ==
  /\ u \in issued
  /\ Call(c, "completeLock", k, u)
  /\ UNCHANGED <<objects, telegram, sessions, issued, lock, logged, history>>

\* No session, or a manifest that is out of order or names a missing part or a
\* wrong etag: the lock is taken and given back, nothing has changed.
CompleteRefused(c) ==
  /\ At(c, "completeLock")
  /\ lock[req[c].key] = None
  /\ Return(c)
  /\ UNCHANGED <<objects, telegram, sessions, issued, lock, logged, history>>

\* Deviation: the session is used whatever key it was opened for.
CompleteCheckedAnyKey(c) ==
  /\ At(c, "completeLock")
  /\ Take(c)
  /\ sessions[req[c].upload] # None
  /\ \E ns \in (SUBSET PartNumbers) \ {{}} :
       LET parts == sessions[req[c].upload].parts IN
       /\ \A n \in ns : parts[n] # None
       /\ Move(c, "completeCommit", {parts[n] : n \in ns})
  /\ UNCHANGED <<objects, telegram, sessions, issued, logged, history>>

\* The manifest names stored parts with their etags: they are copied out of the
\* session under multipartMu (store.go:362-375).
CompleteChecked(c) ==
  /\ At(c, "completeLock")
  /\ Take(c)
  /\ Matches(c)
  /\ \E ns \in (SUBSET PartNumbers) \ {{}} :
       LET parts == sessions[req[c].upload].parts IN
       /\ \A n \in ns : parts[n] # None
       /\ Move(c, "completeCommit", {parts[n] : n \in ns})
  /\ UNCHANGED <<objects, telegram, sessions, issued, logged, history>>

\* Deviation: the key lock is given back before the session is deleted.
CompleteCommitUnlocks(c) ==
  /\ At(c, "completeCommit")
  /\ objects' = [objects EXCEPT ![req[c].key] = req[c].files]
  /\ published' = published \cup req[c].files
  /\ Move(c, "completeForget", req[c].files)
  /\ Release(c)
  /\ UNCHANGED <<telegram, sessions, issued, logged, dropped, crashes>>

CompleteCommit(c) ==
  /\ At(c, "completeCommit")
  /\ objects' = [objects EXCEPT ![req[c].key] = req[c].files]
  /\ published' = published \cup req[c].files
  /\ Move(c, "completeForget", req[c].files)
  /\ UNCHANGED <<telegram, sessions, issued, lock, logged, dropped, crashes>>

\* The transaction fails; the session stays for another attempt.
CompleteCommitFailed(c) ==
  /\ At(c, "completeCommit")
  /\ Release(c)
  /\ Return(c)
  /\ UNCHANGED <<objects, telegram, sessions, issued, logged, history>>

\* The session is deleted; parts the manifest did not name go with it, unlogged.
CompleteForget(c) ==
  /\ At(c, "completeForget")
  /\ dropped' = dropped \cup (PartFiles(sessions, req[c].upload) \ published)
  /\ sessions' = [sessions EXCEPT ![req[c].upload] = None]
  /\ Release(c)
  /\ Return(c)
  /\ UNCHANGED <<objects, telegram, issued, logged, published, crashes>>

\* The process ends and starts again, with the next snapshot of the buckets:
\* Telegram, SQLite and the log remain.
Crash ==
  /\ crashes < MaxCrashes
  /\ crashes' = crashes + 1
  /\ dropped' = dropped \cup
       ((UNION ({PartFiles(sessions, u) : u \in Uploads} \cup {req[c].files : c \in Clients}))
          \ (published \cup logged))
  /\ sessions' = [u \in Uploads |-> None]
  /\ lock' = [k \in Keys |-> None]
  /\ req' = [c \in Clients |-> Idle]
  /\ UNCHANGED <<objects, telegram, issued, logged, published>>
--------------------------------------------------------------------------------
Put(c) ==
  \/ \E k \in Keys : PutCall(c, k)
  \/ PutRefused(c) \/ PutLocked(c) \/ PutSent(c) \/ PutNotSent(c)
  \/ PutCommit(c) \/ PutCommitFailed(c)

Part(c) ==
  \/ \E k \in Keys, u \in Uploads : PartCall(c, k, u)
  \/ PartSent(c) \/ PartNotSent(c) \/ PartTooLate(c)
  \/ \E n \in PartNumbers : PartStored(c, n)

Complete(c) ==
  \/ \E k \in Keys, u \in Uploads : CompleteCall(c, k, u)
  \/ CompleteRefused(c) \/ CompleteChecked(c) \/ CompleteCommit(c)
  \/ CompleteCommitFailed(c) \/ CompleteForget(c)

Next ==
  \/ \E c \in Clients : Put(c) \/ Part(c) \/ Complete(c)
  \/ \E k \in Keys : DeleteObject(k)
  \/ \E k \in Keys, u \in Uploads, t \in Times : CreateUpload(k, u, t)
  \/ \E u \in Uploads : AbortUpload(u)
  \/ Crash

Spec == Init /\ [][Next]_vars

--------------------------------------------------------------------------------
(* Types and the inductive invariant *)

PutPlaces == {"putLock", "putUpload", "putCommit"}
PartPlaces == {"partUpload", "partStore"}
CompletePlaces == {"completeLock", "completeCommit", "completeForget"}
LockedPlaces == {"putUpload", "putCommit", "completeCommit", "completeForget"}

Session == [key : Keys, createdAt : Nat, parts : [PartNumbers -> Files \cup {None}]]

ASSUME SessionAssumption == None \notin Session

Request ==
  [at : {"idle"} \cup PutPlaces \cup PartPlaces \cup CompletePlaces,
   key : Keys \cup {None}, upload : Uploads \cup {None}, files : SUBSET Files]

\* What each place lets a request rely on.
RequestsOK ==
  /\ req \in [Clients -> Request]
  /\ \A c \in Clients :
       /\ req[c].at = "idle" => req[c].files = {}
       /\ req[c].at # "idle" => req[c].key \in Keys
       /\ req[c].at \in PartPlaces \cup CompletePlaces => req[c].upload \in Uploads

TypeOK ==
  /\ objects \in [Keys -> (SUBSET Files) \cup {None}]
  /\ telegram \in [Files -> Keys \cup {None}]
  /\ sessions \in [Uploads -> Session \cup {None}]
  /\ issued \subseteq Uploads
  /\ lock \in [Keys -> Clients \cup {None}]
  /\ RequestsOK
  /\ logged \subseteq Files /\ published \subseteq Files /\ dropped \subseteq Files
  /\ crashes \in Nat

\* A request holds the lock of its key exactly while it is in the section that
\* store.go:171 and 362 protect; every return path gives it back.
LockHeld ==
  \A c \in Clients, k \in Keys :
    lock[k] = c <=> req[c].at \in LockedPlaces /\ req[c].key = k

\* Every file of an object was sent to Telegram for that very bucket and key,
\* although parts are filed under an upload id, completed by another request
\* and checked against the session at three different times.  (A WebDAV copy
\* shares the files of its source on purpose: DavNamespace.)
FilesOfKey ==
  \A k \in Keys : objects[k] # None => \A f \in objects[k] : telegram[f] = k

\* The same of the files that sessions and requests hold.
StagedFilesOfKey ==
  /\ \A u \in Uploads : sessions[u] # None =>
       \A f \in PartFiles(sessions, u) : telegram[f] = sessions[u].key
  /\ \A c \in Clients : \A f \in req[c].files : telegram[f] = req[c].key

\* Sessions and the requests that write belong to buckets of the snapshot of the
\* running process (the completions that hold the lock among them).
StagedServed ==
  /\ \A u \in Uploads : sessions[u] # None => Served(sessions[u].key)
  /\ \A c \in Clients : req[c].at \in PutPlaces \cup PartPlaces \cup LockedPlaces => Served(req[c].key)

IInv == TypeOK /\ LockHeld /\ FilesOfKey /\ StagedFilesOfKey /\ StagedServed
--------------------------------------------------------------------------------
(* What the store guarantees *)

\* No file is lost track of: what Telegram holds was part of an object, is in a
\* session or a request, or is named in the log, except where the code lets
\* go of it: an upload that failed for want of an answer, the copies that the
\* repeated attempts of an upload leave, a late part, an unlisted part, a restart.
Tracked ==
  published \cup logged \cup dropped
    \cup (UNION {PartFiles(sessions, u) : u \in Uploads}) \cup (UNION {req[c].files : c \in Clients})
NoUntrackedFile == Files \ Unsent \subseteq Tracked

\* Objects come and go only under buckets that the running process serves,
\* whatever the processes before it served: UploadPart and
\* CompleteMultipartUpload do not look the bucket up, they trust the session,
\* and an object of a bucket that is served no longer stays as it is.
OnlyServedChange ==
  [][\A k \in Keys : objects'[k] # objects[k] => Served(k)]_vars

\* Unfinished sessions never exceed the limit, whatever is completed, aborted
\* or restarted in between (store.go:218-234).
SessionsBounded == Cardinality(Live(sessions)) <= MaxMultipart

\* An upload id that a client receives names a session at that moment: the
\* eviction spares the newcomer (as long as the clock moves forward).
NewUploadUsable == [][\A u \in issued' \ issued : sessions'[u] # None]_vars

\* Objects change as AtomicObjects says: once per successful request, never
\* for a failed one, and never back to files published before.
Atomic == INSTANCE AtomicObjects WITH
  phase <- [c \in Clients |->
              CASE At(c, "idle") -> "idle" [] At(c, "completeForget") -> "done" [] OTHER -> "working"]
AtomicSpec == Atomic!Spec
--------------------------------------------------------------------------------
(* What the design documents say *)

\* docs/superpowers/specs/2026-05-25-tgnas-s3-multipart-upload-design.md:198:
\* when UploadPart fails after its upload, the uploaded chunks are logged.
FailedPartLogged ==
  [][\A c \in Clients :
       At(c, "partStore") /\ At(c, "idle")' /\ crashes' = crashes =>
         \A f \in req[c].files :
           f \in logged' \/ \E u \in Uploads : f \in PartFiles(sessions, u)']_vars
================================================================================
