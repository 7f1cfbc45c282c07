----------------------------- MODULE TelegramUpload -----------------------------
(***************************************************************************)
(* telegram/client.go: one call of HTTPClient.Upload.  Each attempt starts a *)
(* goroutine that writes the form into a pipe, from which the transport      *)
(* sends it; all attempts read the file from one shared reader, whose offset *)
(* is set back between them.  Telegram stores a message for every form that  *)
(* arrives whole, whether or not the client is still there for the answer.   *)
(*                                                                         *)
(* The file is a run of Size blocks, block 0 first.  bytes.Reader.WriteTo,   *)
(* which io.Copy uses, takes all bytes behind the offset, hands them to the  *)
(* pipe in one Write, and adds what the pipe took to the offset.             *)
(***************************************************************************)
EXTENDS Naturals

CONSTANTS
  Attempts,  \* tries in all: 4
  Size,      \* blocks of the file
  Prompt,    \* TRUE iff a goroutine whose pipe is closed ends within the backoff
  None

Tries == 1..Attempts

ASSUME BoundsAssumption == Attempts \in Nat \ {0} /\ Size \in Nat \ {0} /\ Prompt \in BOOLEAN

VARIABLES
  replayable,  \* whether the reader can be set back, as those of the store can
  at,          \* idle, waiting (for the answer), backoff, returned
  try,         \* the attempt under way
  result,      \* None, "ok" or "error"
  offset,      \* of the shared reader
  pipe,        \* pipe[a]   : none, open, closed (by the reader), sent (to its end)
  writer,      \* writer[a] : the goroutine of attempt a, where its bytes begin and how many went
  messages     \* what Telegram has stored: attempt, first block, blocks

vars == <<replayable, at, try, result, offset, pipe, writer, messages>>

Init ==
  /\ replayable \in BOOLEAN
  /\ at = "idle"
  /\ try = 0
  /\ result = None
  /\ offset = 0
  /\ pipe = [a \in Tries |-> "none"]
  /\ writer = [a \in Tries |-> [at |-> "none", from |-> 0, sent |-> 0]]
  /\ messages = {}

Rest(from) == IF from < Size THEN Size - from ELSE 0
--------------------------------------------------------------------------------
(* doUploadRequest *)

\* Deviation: the reader is not set back.
AttemptUnreset ==
  /\ at \in {"idle", "backoff"}
  /\ at = "backoff" /\ Prompt => writer[try].at = "done"
  /\ try' = try + 1
  /\ pipe' = [pipe EXCEPT ![try'] = "open"]
  /\ writer' = [writer EXCEPT ![try'].at = "form"]
  /\ at' = "waiting"
  /\ UNCHANGED <<replayable, result, offset, messages>>

\* Another attempt: the offset is set back, a pipe and its goroutine are made
\* and the request goes out (client.go:204-223).
Attempt ==
  /\ at \in {"idle", "backoff"}
  /\ at = "backoff" /\ Prompt => writer[try].at = "done"
  /\ try' = try + 1
  /\ offset' = IF at = "idle" THEN offset ELSE 0
  /\ pipe' = [pipe EXCEPT ![try'] = "open"]
  /\ writer' = [writer EXCEPT ![try'].at = "form"]
  /\ at' = "waiting"
  /\ UNCHANGED <<replayable, result, messages>>

Return(r) ==
  /\ at' = "returned"
  /\ result' = r
  /\ UNCHANGED <<replayable, try, offset, writer, messages>>

\* The deferred reader.Close().
Close == pipe' = [pipe EXCEPT ![try] = IF @ = "open" THEN "closed" ELSE @]

\* The answer says that the message is stored (277-278).
Accepted ==
  /\ at = "waiting"
  /\ \E m \in messages : m.try = try
  /\ Return("ok")
  /\ Close

\* A refusal, an unreadable answer, or the end of the context (227-231).
Refused ==
  /\ at = "waiting"
  /\ Return("error")
  /\ Close

Another ==
  /\ at' = "backoff"
  /\ UNCHANGED <<replayable, try, result, offset, writer, messages>>

\* Deviation: the pipe stays open when an attempt is given up.
FailedLeavesPipe ==
  /\ at = "waiting"
  /\ \/ (~replayable \/ try = Attempts) /\ Return("error")
     \/ replayable /\ try < Attempts /\ Another
  /\ UNCHANGED pipe

\* A broken connection, a timeout, 429 or 5xx, with the form on its way or all
\* of it there: another attempt, if the reader can be set back and one is left
\* (233-239).
Failed ==
  /\ at = "waiting"
  /\ \/ (~replayable \/ try = Attempts) /\ Return("error")
     \/ replayable /\ try < Attempts /\ Another
  /\ Close

\* The context ends during the backoff (240-242).
Cancelled ==
  /\ at = "backoff"
  /\ Return("error")
  /\ UNCHANGED pipe
--------------------------------------------------------------------------------
(* The goroutine of uploadBody, the transport, and Telegram *)

\* The transport reads from the pipe as long as the attempt lasts.
Sending(a) == a = try /\ at = "waiting" /\ pipe[a] = "open"

\* The fields are written and the bytes behind the offset are taken (175-191).
Begin(a) ==
  /\ writer[a].at = "form" /\ Sending(a)
  /\ writer' = [writer EXCEPT ![a] = [at |-> "copy", from |-> offset, sent |-> 0]]
  /\ UNCHANGED <<replayable, at, try, result, offset, pipe, messages>>

\* The transport takes a block.
Block(a) ==
  /\ writer[a].at = "copy" /\ Sending(a)
  /\ writer[a].sent < Rest(writer[a].from)
  /\ writer' = [writer EXCEPT ![a].sent = @ + 1]
  /\ UNCHANGED <<replayable, at, try, result, offset, pipe, messages>>

\* All bytes are written: the offset moves, and the form is closed.
End(a) ==
  /\ writer[a].at = "copy" /\ Sending(a)
  /\ writer[a].sent = Rest(writer[a].from)
  /\ offset' = offset + writer[a].sent
  /\ writer' = [writer EXCEPT ![a].at = "done"]
  /\ pipe' = [pipe EXCEPT ![a] = "sent"]
  /\ UNCHANGED <<replayable, at, try, result, messages>>

\* The pipe was closed under a Write: the offset moves by what the pipe took.
Cut(a) ==
  /\ writer[a].at \in {"form", "copy"} /\ pipe[a] = "closed"
  /\ offset' = offset + writer[a].sent
  /\ writer' = [writer EXCEPT ![a].at = "done"]
  /\ UNCHANGED <<replayable, at, try, result, pipe, messages>>

\* Telegram stores what a whole form holds, at any time after.
Store(a) ==
  /\ pipe[a] = "sent"
  /\ \A m \in messages : m.try # a
  /\ messages' = messages \cup {[try |-> a, from |-> writer[a].from, blocks |-> writer[a].sent]}
  /\ UNCHANGED <<replayable, at, try, result, offset, pipe, writer>>

Answer == Accepted \/ Refused \/ Failed
Writer(a) == Begin(a) \/ Block(a) \/ End(a) \/ Cut(a)

Next == Attempt \/ Answer \/ Cancelled \/ \E a \in Tries : Writer(a) \/ Store(a)

Spec == Init /\ [][Next]_vars

\* The caller calls, and goroutines run on; an attempt ends, because http.Client
\* has a timeout.
Fairness == WF_vars(Attempt) /\ WF_vars(Answer) /\ \A a \in Tries : WF_vars(Writer(a))

FairSpec == Spec /\ Fairness
--------------------------------------------------------------------------------
(* What the store relies on *)

\* Every message holds the whole file, although all attempts share one reader
\* and any of them may be cut in the middle; that holds as long as each
\* goroutine is done with the reader before the next attempt sets it back,
\* which only the backoff sees to.
WholeFiles == \A m \in messages : m.from = 0 /\ m.blocks = Size

\* The call returns after a bounded number of attempts, and none of their
\* goroutines stays blocked in a write to its pipe (client.go:167-168).
UploadEnds == <>[](at = "returned" /\ \A a \in Tries : writer[a].at \in {"none", "done"})
================================================================================
