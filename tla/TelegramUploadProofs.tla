-------------------------- MODULE TelegramUploadProofs --------------------------
(***************************************************************************)
(* telegram/client.go for any number of attempts and any size of file: as    *)
(* long as the goroutine of an attempt is done before the next one sets the  *)
(* shared reader back, every message that Telegram stores is the whole file. *)
(***************************************************************************)
EXTENDS TelegramUpload, TLAPS

States == {"idle", "waiting", "backoff", "returned"}

TypeOK ==
  /\ replayable \in BOOLEAN
  /\ at \in States
  /\ try \in 0..Attempts
  /\ offset \in Nat
  /\ pipe \in [Tries -> {"none", "open", "closed", "sent"}]
  /\ writer \in [Tries -> [at : {"none", "form", "copy", "done"}, from : Nat, sent : Nat]]

\* Where the call stands.
CallOK ==
  /\ at = "idle" => try = 0 /\ offset = 0
  /\ at = "waiting" => try \in Tries
  /\ at = "backoff" => try \in Tries /\ try < Attempts

\* Only the goroutine of the last attempt may still read, and it found the
\* reader set back.
OneReader ==
  \A a \in Tries :
    /\ writer[a].at = "none" => writer[a].sent = 0
    /\ a > try => writer[a].at = "none"
    /\ a < try => writer[a].at = "done"
    /\ writer[a].at \in {"form", "copy"} => offset = 0
    /\ writer[a].at = "form" => writer[a].sent = 0
    /\ writer[a].at = "copy" => writer[a].from = 0 /\ writer[a].sent <= Size

\* A pipe that was read to its end held the whole file.
SentWhole ==
  \A a \in Tries :
    pipe[a] = "sent" => writer[a] = [at |-> "done", from |-> 0, sent |-> Size]

IInv == TypeOK /\ CallOK /\ OneReader /\ SentWhole /\ WholeFiles
--------------------------------------------------------------------------------
\* Before the first attempt nothing is sent and no goroutine runs.
LEMMA InitIInv == Init => IInv
BY BoundsAssumption DEF Init, IInv, TypeOK, States, CallOK, OneReader, SentWhole, WholeFiles, Tries

\* With Prompt no goroutine is left in the reader when it is set back.
LEMMA AttemptIInv ==
  ASSUME Prompt, IInv, Attempt PROVE IInv'
<1> USE BoundsAssumption DEF IInv, Attempt
<1>1. try' = try + 1 /\ try' \in Tries
  BY DEF TypeOK, CallOK, Tries
<1>2. \A a \in Tries : a <= try => writer[a].at = "done"
  BY DEF TypeOK, CallOK, OneReader, Tries
<1>3. offset' = 0
  BY DEF CallOK
<1>4. /\ \A a \in Tries : a # try' => writer'[a] = writer[a] /\ pipe'[a] = pipe[a]
      /\ writer'[try'] = [at |-> "form", from |-> writer[try'].from, sent |-> writer[try'].sent]
      /\ pipe'[try'] = "open"
  BY <1>1 DEF TypeOK
<1>5. TypeOK' /\ CallOK'
  BY <1>1, <1>3 DEF TypeOK, CallOK, States
<1>6. OneReader'
  <2> SUFFICES ASSUME NEW a \in Tries
               PROVE  OneReader!(a)'
    BY DEF OneReader
  <2>1. CASE a = try'
    BY <1>1, <1>3, <1>4, <2>1 DEF OneReader, TypeOK, Tries
  <2>2. CASE a # try'
    BY <1>1, <1>2, <1>3, <1>4, <2>2 DEF OneReader, TypeOK, Tries
  <2> QED BY <2>1, <2>2
<1>7. SentWhole' /\ WholeFiles'
  BY <1>1, <1>4 DEF SentWhole, WholeFiles
<1> QED BY <1>5, <1>6, <1>7

\* The call's own steps leave reader and goroutines alone.
LEMMA CallIInv ==
  ASSUME IInv, Answer \/ Cancelled PROVE IInv'
<1> USE DEF IInv, Answer, Accepted, Refused, Failed, Cancelled, Another, Return, Close
<1>1. /\ UNCHANGED <<replayable, try, offset, writer, messages>>
      /\ at' \in {"returned", "backoff"}
      /\ at' = "backoff" => try \in Tries /\ try < Attempts
  BY BoundsAssumption DEF CallOK, TypeOK, Tries
<1>2. pipe' = pipe \/ pipe' = [pipe EXCEPT ![try] = IF @ = "open" THEN "closed" ELSE @]
  OBVIOUS
<1>3. TypeOK' /\ CallOK'
  BY <1>1, <1>2 DEF TypeOK, CallOK, States
<1>4. OneReader' /\ WholeFiles'
  BY <1>1 DEF OneReader, WholeFiles
<1>5. SentWhole'
  BY <1>1, <1>2 DEF SentWhole, TypeOK
<1> QED BY <1>3, <1>4, <1>5

\* A step of the goroutine of attempt a, which is the last one.
LEMMA WriterIInv ==
  ASSUME NEW a \in Tries, IInv, Writer(a) PROVE IInv'
<1> USE BoundsAssumption DEF IInv
<1>1. /\ writer[a].at \in {"form", "copy"} /\ a = try /\ offset = 0
      /\ UNCHANGED <<replayable, at, try, result, messages>>
      /\ at # "idle"
  BY DEF Writer, Begin, Block, End, Cut, OneReader, CallOK, TypeOK, Tries
<1>2. WholeFiles' /\ CallOK'
  BY <1>1 DEF WholeFiles, CallOK
<1>3. ASSUME Begin(a) PROVE IInv'
  <2>1. /\ writer' = [writer EXCEPT ![a] = [at |-> "copy", from |-> 0, sent |-> 0]]
        /\ UNCHANGED <<offset, pipe>>
    BY <1>1, <1>3 DEF Begin
  <2>2. TypeOK' /\ OneReader'
    BY <1>1, <2>1 DEF TypeOK, OneReader
  <2>3. SentWhole'
    BY <1>1, <2>1 DEF TypeOK, SentWhole
  <2> QED BY <1>2, <2>2, <2>3
<1>4. ASSUME Block(a) PROVE IInv'
  <2>1. /\ writer[a].at = "copy" /\ writer[a].from = 0 /\ writer[a].sent < Size
        /\ writer' = [writer EXCEPT ![a].sent = @ + 1]
        /\ UNCHANGED <<offset, pipe>>
    BY <1>4 DEF Block, OneReader, Rest
  <2>2. /\ \A b \in Tries : b # a => writer'[b] = writer[b]
        /\ writer'[a] = [at |-> "copy", from |-> 0, sent |-> writer[a].sent + 1]
    BY <2>1 DEF TypeOK
  <2>3. TypeOK'
    BY <1>1, <2>1 DEF TypeOK
  <2>4. OneReader'
    BY <1>1, <2>1, <2>2 DEF TypeOK, OneReader
  <2>5. SentWhole'
    BY <1>1, <2>1, <2>2 DEF TypeOK, SentWhole
  <2> QED BY <1>2, <2>3, <2>4, <2>5
<1>5. ASSUME End(a) PROVE IInv'
  <2>1. /\ writer[a].at = "copy" /\ writer[a].from = 0 /\ writer[a].sent = Size
        /\ writer' = [writer EXCEPT ![a].at = "done"]
        /\ offset' = Size /\ pipe' = [pipe EXCEPT ![a] = "sent"]
    BY <1>1, <1>5 DEF End, OneReader, Rest
  <2>2. /\ \A b \in Tries : b # a => writer'[b] = writer[b] /\ pipe'[b] = pipe[b]
        /\ writer'[a] = [at |-> "done", from |-> 0, sent |-> Size]
    BY <2>1 DEF TypeOK
  <2>3. TypeOK'
    BY <1>1, <2>1 DEF TypeOK
  <2>4. OneReader'
    BY <1>1, <2>1, <2>2 DEF TypeOK, OneReader, Tries
  <2>5. SentWhole'
    BY <2>2 DEF SentWhole
  <2> QED BY <1>2, <2>3, <2>4, <2>5
<1>6. ASSUME Cut(a) PROVE IInv'
  <2>1. /\ writer' = [writer EXCEPT ![a].at = "done"]
        /\ offset' = writer[a].sent /\ pipe[a] = "closed" /\ pipe' = pipe
    BY <1>1, <1>6 DEF Cut, TypeOK
  <2>2. /\ \A b \in Tries : b # a => writer'[b] = writer[b]
        /\ writer'[a] = [at |-> "done", from |-> writer[a].from, sent |-> writer[a].sent]
    BY <2>1 DEF TypeOK
  <2>3. TypeOK'
    BY <1>1, <2>1 DEF TypeOK
  <2>4. OneReader'
    BY <1>1, <2>1, <2>2 DEF TypeOK, OneReader, Tries
  <2>5. SentWhole'
    BY <2>1, <2>2 DEF SentWhole
  <2> QED BY <1>2, <2>3, <2>4, <2>5
<1> QED BY <1>3, <1>4, <1>5, <1>6 DEF Writer

\* Telegram stores what a pipe that was read to its end held: the whole file.
LEMMA StoreIInv ==
  ASSUME NEW a \in Tries, IInv, Store(a) PROVE IInv'
<1>1. WholeFiles'
  BY DEF IInv, Store, SentWhole, WholeFiles
<1>2. TypeOK' /\ CallOK' /\ OneReader' /\ SentWhole'
  BY DEF IInv, Store, TypeOK, CallOK, OneReader, SentWhole
<1> QED BY <1>1, <1>2 DEF IInv

\* Every step keeps the invariant, as every attempt starts at offset 0.
LEMMA NextIInv == ASSUME Prompt PROVE IInv /\ [Next]_vars => IInv'
<1> SUFFICES ASSUME IInv, [Next]_vars PROVE IInv'
  OBVIOUS
<1>1. CASE UNCHANGED vars
  BY <1>1 DEF vars, IInv, TypeOK, CallOK, OneReader, SentWhole, WholeFiles
<1>2. CASE Next
  BY <1>2, AttemptIInv, CallIInv, WriterIInv, StoreIInv DEF Next
<1> QED BY <1>1, <1>2

\* Whatever is cut, lost or answered late: every message holds the whole file,
\* if a goroutine whose pipe is closed ends within the backoff
\* (client.go:200-249).
THEOREM WholeFilesHold == ASSUME Prompt PROVE Spec => []WholeFiles
<1>1. IInv => WholeFiles
  BY DEF IInv
<1> QED BY <1>1, InitIInv, NextIInv, PTL DEF Spec
================================================================================
