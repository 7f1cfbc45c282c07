------------------------------- MODULE Admission -------------------------------
(***************************************************************************)
(* What a request of store/store.go waits for and holds: a slot for uploads *)
(* or downloads, the lock of its key, a slot for calls of Telegram, and, for *)
(* a GET, the client that takes the bytes.  The slots are channels that      *)
(* NewObjectStore makes with a capacity; a limit of 0, as a negative one is  *)
(* taken here, leaves the channel nil and the number unlimited.              *)
(*                                                                          *)
(* A GET is two goroutines: one downloads chunk after chunk and writes them  *)
(* into a pipe, which holds nothing itself; the other hands the bytes to the *)
(* client.  When the client goes away, that one closes the pipe's reader,    *)
(* which also ends the context of the downloads.                             *)
(***************************************************************************)
EXTENDS Naturals, FiniteSets

Channels == {"uploads", "downloads", "telegramSem"}

CONSTANTS
  Writers,    \* goroutines of the HTTP server that put, upload parts, complete
  Readers,    \* goroutines of the HTTP server that get
  Keys,       \* bucket+key pairs
  Limits,     \* the limits a configuration may set: functions on Channels
  MaxChunks,  \* bound: chunks of an object
  Attempts,   \* tries of one request to Telegram: 4
  None

Requests == Writers \cup Readers

ASSUME RequestsFinite == IsFiniteSet(Writers) /\ IsFiniteSet(Readers)
ASSUME LimitsAssumption == Limits \subseteq [Channels -> Nat]
ASSUME BoundsAssumption == MaxChunks \in Nat /\ Attempts \in Nat \ {0}
ASSUME NoneAssumption == None \notin Keys \cup Requests

VARIABLES
  limits,   \* the limits of this process
  slots,    \* slots[s] : the tokens in channel s
  lock,     \* lock[k]  : the request that holds the lock of k, None without one
  req       \* req[r]   : where r stands; its key, if it locks one; the chunks still
            \*            to send; the try of a download; whether the client of a
            \*            GET has gone

vars == <<limits, slots, lock, req>>

Idle == [at |-> "idle", key |-> None, left |-> 0, try |-> 0, gone |-> FALSE]

Init ==
  /\ limits \in Limits
  /\ slots = [s \in Channels |-> 0]
  /\ lock = [k \in Keys |-> None]
  /\ req = [r \in Requests |-> Idle]

PutPlaces == {"putSlot", "putLock", "putBody", "putTelegram", "putSend", "putCommit"}
PartPlaces == {"partSlot", "partBody", "partTelegram", "partSend"}
CompletePlaces == {"completeLock", "completeCommit"}
GetPlaces == {"getSlot", "getNext", "getFile", "getFetch", "getCopy", "getEnd"}
WritePlaces == PutPlaces \cup PartPlaces \cup CompletePlaces

At(r, place) == req[r].at = place
Move(r, place) == req' = [req EXCEPT ![r].at = place]
Return(r) == req' = [req EXCEPT ![r] = Idle]
End(r) == req' = [req EXCEPT ![r] = [Idle EXCEPT !.at = "getEnd", !.gone = req[r].gone]]

\* acquire, where it sends to the channel.
Take(s) ==
  /\ limits[s] = 0 \/ slots[s] < limits[s]
  /\ slots' = [slots EXCEPT ![s] = IF limits[s] = 0 THEN @ ELSE @ + 1]

\* The releases it returned: each receives from its channel, and would block on
\* an empty one.
Give(S) ==
  /\ \A s \in S : limits[s] = 0 \/ slots[s] > 0
  /\ slots' = [s \in Channels |-> IF s \in S /\ limits[s] # 0 THEN slots[s] - 1 ELSE slots[s]]

Free(r) == lock' = [lock EXCEPT ![req[r].key] = None]
--------------------------------------------------------------------------------
(* The client *)

\* A request that passes its first checks; a GET has read its chunks.
Call(r) ==
  /\ At(r, "idle")
  /\ \/ /\ r \in Writers
        /\ \/ \E k \in Keys, place \in {"putSlot", "completeLock"} :
                req' = [req EXCEPT ![r].at = place, ![r].key = k]
           \/ Move(r, "partSlot")
     \/ /\ r \in Readers
        /\ \E n \in 0..MaxChunks : req' = [req EXCEPT ![r].at = "getSlot", ![r].left = n]
  /\ UNCHANGED <<limits, slots, lock>>

\* The client of a GET goes away: the server ends the request's context, the
\* handler's next write fails, and cancelReadCloser.Close closes the pipe and
\* ends the context of the downloads (store.go:964-976).
HangUp(r) ==
  /\ req[r].at \in GetPlaces /\ ~req[r].gone
  /\ req' = [req EXCEPT ![r].gone = TRUE]
  /\ UNCHANGED <<limits, slots, lock>>
--------------------------------------------------------------------------------
(* Waiting *)

\* acquire, where the context of a write ends before a slot is free: what the
\* request holds by then goes back (store.go:163-167, 272-276, 855-858).
WriteGivenUp(r) ==
  /\ \/ /\ limits["uploads"] # 0
        /\ At(r, "putSlot") \/ At(r, "partSlot")
        /\ UNCHANGED <<slots, lock>>
     \/ /\ limits["telegramSem"] # 0
        /\ \/ At(r, "putTelegram") /\ Free(r)
           \/ At(r, "partTelegram") /\ UNCHANGED lock
        /\ Give({"uploads"})
  /\ Return(r)
  /\ UNCHANGED limits

\* Deviation: the wait of a download for the next chunk does not look at the
\* context.
ReadGivenUpEarly(r) ==
  /\ req[r].gone
  /\ At(r, "getSlot") /\ limits["downloads"] # 0
  /\ Return(r)
  /\ UNCHANGED <<limits, slots, lock>>

\* The same of a GET (store.go:519-523, 864-867, 531-535).
ReadGivenUp(r) ==
  /\ req[r].gone
  /\ \/ /\ At(r, "getSlot") /\ limits["downloads"] # 0
        /\ Return(r)
        /\ UNCHANGED slots
     \/ /\ At(r, "getNext") /\ req[r].left > 0 /\ limits["telegramSem"] # 0
        /\ Give({"downloads"})
        /\ End(r)
  /\ UNCHANGED <<limits, lock>>

UploadSlot(r) ==
  /\ \/ At(r, "putSlot") /\ Move(r, "putLock")
     \/ At(r, "partSlot") /\ Move(r, "partBody")
  /\ Take("uploads")
  /\ UNCHANGED <<limits, lock>>

\* GetObject starts its goroutine and returns the reader (store.go:519-568).
DownloadSlot(r) ==
  /\ At(r, "getSlot")
  /\ Take("downloads")
  /\ Move(r, "getNext")
  /\ UNCHANGED <<limits, lock>>

\* KeyedLocker.Lock, which does not look at the context.
KeyLock(r) ==
  /\ \/ At(r, "putLock") /\ Move(r, "putBody")
     \/ At(r, "completeLock") /\ Move(r, "completeCommit")
  /\ lock[req[r].key] = None
  /\ lock' = [lock EXCEPT ![req[r].key] = r]
  /\ UNCHANGED <<limits, slots>>

\* Deviation: the limit is tested after the call has been counted.
TelegramSlotLate(r) ==
  /\ \/ At(r, "putTelegram") /\ Move(r, "putSend")
     \/ At(r, "partTelegram") /\ Move(r, "partSend")
     \/ /\ At(r, "getNext") /\ req[r].left > 0
        /\ req' = [req EXCEPT ![r].at = "getFile", ![r].try = 1]
  /\ slots["telegramSem"] <= limits["telegramSem"]
  /\ slots' = [slots EXCEPT !["telegramSem"] = IF limits["telegramSem"] = 0 THEN @ ELSE @ + 1]
  /\ UNCHANGED <<limits, lock>>

\* A call of Telegram: an upload, or the download of the next chunk.
TelegramSlot(r) ==
  /\ \/ At(r, "putTelegram") /\ Move(r, "putSend")
     \/ At(r, "partTelegram") /\ Move(r, "partSend")
     \/ /\ At(r, "getNext") /\ req[r].left > 0
        /\ req' = [req EXCEPT ![r].at = "getFile", ![r].try = 1]
  /\ Take("telegramSem")
  /\ UNCHANGED <<limits, lock>>
--------------------------------------------------------------------------------
(* PutObject, UploadPart, CompleteMultipartUpload *)

\* The client's body is read to its end, under the slot and the lock of the key
\* (store.go:308-320, 768-774); an empty object needs no upload (178-180).
Body(r) ==
  /\ \/ At(r, "putBody") /\ \E next \in {"putTelegram", "putCommit"} : Move(r, next)
     \/ At(r, "partBody") /\ Move(r, "partTelegram")
  /\ UNCHANGED <<limits, slots, lock>>

\* Deviation: an early return that keeps the lock.
BodyRefusedLocked(r) ==
  /\ At(r, "putBody") \/ At(r, "partBody")
  /\ Give({"uploads"})
  /\ Return(r)
  /\ UNCHANGED <<limits, lock>>

\* It breaks off, has another size, or is too large.
BodyRefused(r) ==
  /\ \/ At(r, "putBody") /\ Free(r)
     \/ At(r, "partBody") /\ UNCHANGED lock
  /\ Give({"uploads"})
  /\ Return(r)
  /\ UNCHANGED limits

Sent(r) ==
  /\ \/ At(r, "putSend") /\ Move(r, "putCommit") /\ Give({"telegramSem"})
     \/ At(r, "partSend") /\ Return(r) /\ Give({"telegramSem", "uploads"})
  /\ UNCHANGED <<limits, lock>>

SendFailed(r) ==
  /\ \/ At(r, "putSend") /\ Free(r)
     \/ At(r, "partSend") /\ UNCHANGED lock
  /\ Give({"telegramSem", "uploads"})
  /\ Return(r)
  /\ UNCHANGED limits

\* The metadata transaction, whatever its outcome.
Commit(r) ==
  /\ \/ At(r, "putCommit") /\ Give({"uploads"})
     \/ At(r, "completeCommit") /\ UNCHANGED slots
  /\ Free(r)
  /\ Return(r)
  /\ UNCHANGED limits
--------------------------------------------------------------------------------
(* GetObject: the goroutine *)

\* getFile has named the path, which is opened or asked for next.
Located(r) ==
  /\ At(r, "getFile")
  /\ req' = [req EXCEPT ![r].at = "getFetch", ![r].try = 1]
  /\ UNCHANGED <<limits, slots, lock>>

\* A local file is open, or Telegram answers with the bytes to come.
Fetched(r) ==
  /\ At(r, "getFetch")
  /\ req' = [req EXCEPT ![r].at = "getCopy", ![r].try = 0]
  /\ UNCHANGED <<limits, slots, lock>>

\* A broken connection, 429 or 5xx: after the backoff the request goes out again.
Retry(r) ==
  /\ At(r, "getFile") \/ At(r, "getFetch")
  /\ req[r].try < Attempts
  /\ req' = [req EXCEPT ![r].try = @ + 1]
  /\ UNCHANGED <<limits, slots, lock>>

\* Deviation: the slot of the call is not given back when the call fails.
DownloadFailedLeaks(r) ==
  /\ At(r, "getFile") \/ At(r, "getFetch")
  /\ Give({"downloads"})
  /\ End(r)
  /\ UNCHANGED <<limits, lock>>

\* A refusal, the last attempt, or the end of the context, which also ends a
\* backoff: the pipe is closed with the error (store.go:531-535, 868-871).
DownloadFailed(r) ==
  /\ At(r, "getFile") \/ At(r, "getFetch")
  /\ Give({"telegramSem", "downloads"})
  /\ End(r)
  /\ UNCHANGED <<limits, lock>>

\* Deviation: the reader of a chunk is closed only when the goroutine ends.
CopiedDefersClose(r) ==
  /\ At(r, "getCopy") /\ ~req[r].gone
  /\ req' = [req EXCEPT ![r].at = "getNext", ![r].left = @ - 1]
  /\ UNCHANGED <<limits, slots, lock>>

\* The client has taken the chunk; closing its reader gives the slot back
\* (store.go:552-564, 950-962).
Copied(r) ==
  /\ At(r, "getCopy") /\ ~req[r].gone
  /\ Give({"telegramSem"})
  /\ req' = [req EXCEPT ![r].at = "getNext", ![r].left = @ - 1]
  /\ UNCHANGED <<limits, lock>>

\* Telegram's answer breaks off, or the pipe is closed under the write.
CopyBroken(r) ==
  /\ At(r, "getCopy")
  /\ Give({"telegramSem", "downloads"})
  /\ End(r)
  /\ UNCHANGED <<limits, lock>>

\* The last chunk is through: the deferred calls run.
Through(r) ==
  /\ At(r, "getNext") /\ req[r].left = 0
  /\ Give({"downloads"})
  /\ End(r)
  /\ UNCHANGED <<limits, lock>>

\* The pipe is at its end: the handler closes it and returns, once the client
\* has taken what was left.
Over(r) ==
  /\ At(r, "getEnd")
  /\ Return(r)
  /\ UNCHANGED <<limits, slots, lock>>
--------------------------------------------------------------------------------
Wait(r) == UploadSlot(r) \/ DownloadSlot(r) \/ KeyLock(r) \/ TelegramSlot(r)
Write(r) == Body(r) \/ BodyRefused(r) \/ Sent(r) \/ SendFailed(r) \/ Commit(r)
Read(r) ==
  \/ ReadGivenUp(r) \/ Located(r) \/ Fetched(r) \/ Retry(r) \/ DownloadFailed(r)
  \/ Copied(r) \/ CopyBroken(r) \/ Through(r) \/ Over(r)

Next == \E r \in Requests : Call(r) \/ HangUp(r) \/ WriteGivenUp(r) \/ Wait(r) \/ Write(r) \/ Read(r)

Spec == Init /\ [][Next]_vars

\* What the server and Telegram do without the client of a GET: goroutines run
\* on, a call of Telegram ends because its attempts are bounded and http.Client
\* has a timeout.
Work(r) ==
  \/ Write(r) \/ ReadGivenUp(r)
  \/ Located(r) \/ Fetched(r) \/ Retry(r) \/ DownloadFailed(r) \/ Through(r)
  \/ req[r].gone /\ (CopyBroken(r) \/ Over(r))

\* Channels and mutexes serve those who wait in turn; whoever uploads sends its
\* body or goes away (the HTTP server sets no deadline, cmd/tgnas/main.go:900).
\* Nothing is assumed of those who download.
Fairness == \A r \in Requests : WF_vars(Work(r)) /\ SF_vars(Wait(r))

FairSpec == Spec /\ Fairness
--------------------------------------------------------------------------------
(* What each place holds *)

\* The places between acquire and release of each channel.
Section ==
  [uploads |-> (PutPlaces \cup PartPlaces) \ {"putSlot", "partSlot"},
   downloads |-> {"getNext", "getFile", "getFetch", "getCopy"},
   telegramSem |-> {"putSend", "partSend", "getFile", "getFetch", "getCopy"}]

LockedPlaces == {"putBody", "putTelegram", "putSend", "putCommit", "completeCommit"}

Holders(s) == {r \in Requests : req[r].at \in Section[s]}

Request ==
  [at : {"idle"} \cup WritePlaces \cup GetPlaces, key : Keys \cup {None}, left : 0..MaxChunks,
   try : 0..Attempts, gone : BOOLEAN]

TypeOK ==
  /\ limits \in Limits
  /\ slots \in [Channels -> Nat]
  /\ lock \in [Keys -> Requests \cup {None}]
  /\ req \in [Requests -> Request]

\* What a place lets a request rely on.
RequestsOK ==
  \A r \in Requests :
    /\ req[r].at \in PutPlaces \cup CompletePlaces => req[r].key \in Keys
    /\ req[r].at = "getCopy" => req[r].left > 0
    /\ req[r].at \in {"getFile", "getFetch"} => req[r].left > 0 /\ req[r].try > 0

\* Every channel holds one token for each request between acquire and release,
\* on each of the paths a request may leave by: none is lost, none is given back
\* twice.
SlotsCount ==
  \A s \in Channels : slots[s] = IF limits[s] = 0 THEN 0 ELSE Cardinality(Holders(s))

\* The lock of a key is held exactly by a request in its section.
LockHeld ==
  \A r \in Requests, k \in Keys : lock[k] = r <=> req[r].at \in LockedPlaces /\ req[r].key = k

SlotsWithin == \A s \in Channels : limits[s] # 0 => slots[s] <= limits[s]

IInv == TypeOK /\ RequestsOK /\ SlotsCount /\ LockHeld /\ SlotsWithin
--------------------------------------------------------------------------------
(* What the limits promise *)

\* Never more requests at work than the configuration allows, downloads whose
\* client is still reading included
\* (docs/superpowers/specs/2026-05-22-go-telegram-s3-design.md:312-316).
CallsLimited == \A s \in Channels : limits[s] # 0 => Cardinality(Holders(s)) <= limits[s]

\* With fewer downloads than calls, downloads never hold all slots for calls.
Room ==
  \/ limits["telegramSem"] = 0
  \/ limits["downloads"] # 0 /\ limits["downloads"] < limits["telegramSem"]

\* Then every write returns, whatever those who download do: they may stop to
\* read and keep their slots for ever (store.go:552).
WritesReturn == \A r \in Writers : Room /\ req[r].at \in WritePlaces ~> At(r, "idle")

\* A download whose client has gone lets go of everything, even while it waits
\* for slots that others keep for ever.
DepartedReturn == \A r \in Readers : req[r].at \in GetPlaces /\ req[r].gone ~> At(r, "idle")

\* No circle of waits: under any limits every request returns if those who
\* download take what they are sent, or go away.
ReadersGoOn == \A r \in Readers : WF_vars(Copied(r) \/ CopyBroken(r) \/ Over(r))
AllReturn == ReadersGoOn => \A r \in Requests : ~At(r, "idle") ~> At(r, "idle")
================================================================================
