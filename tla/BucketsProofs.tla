----------------------------- MODULE BucketsProofs -----------------------------
(***************************************************************************)
(* The life of buckets for any number of buckets, objects, links, requests  *)
(* and starts: the inductive invariant IInv of Buckets, under the condition *)
(* that buckets are renamed while the service is off.  From it follow that   *)
(* the snapshot of the service is as good as the table, that no object is    *)
(* left without a bucket, that a removal takes only what is not served, and  *)
(* that a link opens no bucket that is gone or disabled.                     *)
(***************************************************************************)
EXTENDS Buckets, TLAPS

\* The database starts empty and the service off.
LEMMA InitIInv == Init => IInv
<1> USE NoneAssumption DEF Init, Off, Idle, NoConfig
<1>1. Init => TypeOK
  BY DEF TypeOK, Request
<1>2. Init => StartInv /\ ServedExist /\ RequestInv
  BY DEF StartInv, ServedExist, Serving, RequestInv, Granted
<1>3. Init => RowsHaveBucket /\ ClicksCounted /\ TicksOfLinks
  BY DEF RowsHaveBucket, ClicksCounted, TicksOfLinks
<1> QED BY <1>1, <1>2, <1>3 DEF IInv

\* The row an upsert writes is one, with its bucket enabled.
LEMMA RowIsEnabled ==
  ASSUME NEW x \in Chats
  PROVE  [chat |-> x, enabled |-> TRUE] \in Row /\ [chat |-> x, enabled |-> TRUE] # None
<1>1. [chat |-> x, enabled |-> TRUE] \in Row
  BY DEF Row
<1>2. None \notin Row
  BY NoneAssumption
<1> QED BY <1>1, <1>2

\* What a running service serves is enabled in the table.
LEMMA ServedIsEnabled ==
  ASSUME NEW n \in Names, TypeOK, ServedExist, Serving, Served(n)
  PROVE  Enabled(n)
<1>1. service.conf[n] \in Chats
  BY DEF ServedExist, TypeOK, Configs, NoConfig
<1>2. buckets[n] = [chat |-> service.conf[n], enabled |-> TRUE]
  BY DEF ServedExist
<1>3. buckets[n] # None
  BY <1>1, <1>2, RowIsEnabled
<1>4. buckets[n].enabled
  BY <1>2
<1> QED BY <1>3, <1>4 DEF Enabled

\* Loading a configuration starts the upserts of its buckets.
LEMMA LoadIInv ==
  ASSUME NEW conf \in Configs, ~Online, IInv, Load(conf)
  PROVE  IInv'
<1> USE DEF IInv, Load, linkVars
<1>1. TypeOK'
  BY DEF TypeOK
<1>2. StartInv'
  BY DEF StartInv
<1>3. ServedExist' /\ RequestInv'
  BY DEF StartInv, ServedExist, Serving, RequestInv, Granted
<1>4. RowsHaveBucket' /\ ClicksCounted' /\ TicksOfLinks'
  BY DEF RowsHaveBucket, ClicksCounted, TicksOfLinks
<1> QED BY <1>1, <1>2, <1>3, <1>4

\* An upsert makes one more row as configured.
LEMMA UpsertIInv ==
  ASSUME NEW n \in Names, ~Online, IInv, Upsert(n)
  PROVE  IInv'
<1> USE DEF IInv, Upsert, linkVars
<1> DEFINE row == [chat |-> service.conf[n], enabled |-> TRUE]
<1>1. service.conf[n] \in Chats
  BY NoneAssumption DEF TypeOK, Configs, NoConfig, StartInv
<1>2. row \in Row /\ row # None
  BY <1>1, RowIsEnabled
<1>3. TypeOK'
  BY <1>2 DEF TypeOK
<1>4. StartInv'
  BY <1>2 DEF StartInv, TypeOK
<1>5. ServedExist' /\ RequestInv'
  BY DEF StartInv, ServedExist, Serving, RequestInv, Granted, TypeOK
<1>6. RowsHaveBucket' /\ ClicksCounted' /\ TicksOfLinks'
  BY <1>2 DEF RowsHaveBucket, ClicksCounted, TicksOfLinks, TypeOK
<1> QED BY <1>3, <1>4, <1>5, <1>6

\* Disabling leaves enabled exactly the configured buckets.
LEMMA DisableIInv ==
  ASSUME ~Online, IInv, Disable
  PROVE  IInv'
<1> USE DEF IInv, Disable, linkVars
<1>1. None \notin Row
  BY NoneAssumption
<1>2. \A n \in Names : buckets[n] # None =>
        /\ [buckets[n] EXCEPT !.enabled = FALSE] \in Row
        /\ [buckets[n] EXCEPT !.enabled = FALSE].enabled = FALSE
  BY DEF TypeOK, Row
<1>3. TypeOK'
  BY <1>2 DEF TypeOK, Enabled
<1>4. \A n \in Names : buckets[n] # None => buckets'[n] # None
  BY <1>1, <1>2
<1>5. \A n \in Names : service.conf[n] # None => buckets'[n] = buckets[n]
  BY DEF Enabled, TypeOK
<1>6. \A n \in Names : Enabled(n)' => service.conf[n] # None
  BY <1>2 DEF Enabled
<1>7. StartInv'
  BY <1>5, <1>6 DEF StartInv, TypeOK
<1>8. ServedExist' /\ RequestInv'
  BY DEF StartInv, ServedExist, Serving, RequestInv, Granted, TypeOK
<1>9. RowsHaveBucket' /\ ClicksCounted' /\ TicksOfLinks'
  BY <1>4 DEF RowsHaveBucket, ClicksCounted, TicksOfLinks
<1> QED BY <1>3, <1>7, <1>8, <1>9

\* The snapshot holds the configured buckets.
LEMMA SnapshotIInv ==
  ASSUME ~Online, IInv, Snapshot
  PROVE  IInv'
<1> USE DEF IInv, Snapshot, linkVars
<1>1. /\ service'.at = "serving" /\ service'.startup = {n \in Names : Enabled(n)}
      /\ service'.conf = service.conf /\ service'.left = service.left
      /\ service' \in [at : {"off", "upsert", "snapshot", "serving"}, conf : Configs \cup {NoConfig},
                       left : SUBSET Names, startup : SUBSET Names]
  BY DEF TypeOK
<1>2. TypeOK'
  BY <1>1 DEF TypeOK
<1>3. StartInv' /\ RequestInv'
  BY <1>1 DEF StartInv, RequestInv, Granted, Enabled
<1>4. ServedExist'
  <2>1. \A n \in Names : service.conf[n] # None => Enabled(n)
    <3> SUFFICES ASSUME NEW n \in Names, service.conf[n] # None PROVE Enabled(n)
      OBVIOUS
    <3>1. service.conf[n] \in Chats
      BY DEF TypeOK, Configs, NoConfig
    <3>2. buckets[n] = [chat |-> service.conf[n], enabled |-> TRUE]
      BY DEF StartInv
    <3> QED BY <3>1, <3>2, RowIsEnabled DEF Enabled
  <2> QED BY <1>1, <2>1 DEF StartInv, ServedExist, Serving, Served
<1>5. RowsHaveBucket' /\ ClicksCounted' /\ TicksOfLinks'
  BY DEF RowsHaveBucket, ClicksCounted, TicksOfLinks
<1> QED BY <1>2, <1>3, <1>4, <1>5

\* The end of the process takes requests and counting goroutines with it.
LEMMA StopIInv ==
  ASSUME ~Online, IInv, Stop
  PROVE  IInv'
<1> USE DEF IInv, Stop, Off, Idle, NoConfig
<1>1. TypeOK'
  BY DEF TypeOK, Request
<1>2. StartInv' /\ ServedExist' /\ RequestInv'
  BY DEF StartInv, ServedExist, Serving, RequestInv, Granted
<1>3. RowsHaveBucket' /\ ClicksCounted' /\ TicksOfLinks'
  BY DEF RowsHaveBucket, ClicksCounted, TicksOfLinks, TypeOK, LinkRow
<1> QED BY <1>1, <1>2, <1>3

\* A request moves on to r, which the tables grant, while the service goes on.
LEMMA RequestMoves ==
  ASSUME NEW c \in Clients, NEW r \in Request, IInv, Granted(r), req' = [req EXCEPT ![c] = r],
         Serving \/ r.at = "idle", UNCHANGED <<buckets, service, cli, links>>
  PROVE  /\ req' \in [Clients -> Request] /\ StartInv' /\ ServedExist' /\ RequestInv'
<1> USE DEF IInv
<1>1. req' \in [Clients -> Request]
  BY DEF TypeOK
<1>2. RequestInv'
  BY DEF TypeOK, RequestInv, Granted, Served, Enabled
<1>3. StartInv' /\ ServedExist'
  BY DEF TypeOK, StartInv, Serving, ServedExist, Served, Enabled
<1> QED BY <1>1, <1>2, <1>3

\* To be idle asks for nothing.
LEMMA IdleGranted == Idle \in Request /\ Idle.at = "idle" /\ Granted(Idle)
BY DEF Idle, Request, Granted

\* A check that passes puts its request in the state the tables grant.
LEMMA AskIInv ==
  ASSUME NEW c \in Clients, NEW what \in {"put", "deleteBucket", "link", "follow"}, NEW n \in Names,
         NEW k \in Keys \cup {None}, NEW t \in Tokens \cup {None}, IInv, Ask(c, what, n, k, t),
         Granted([at |-> what, bucket |-> n, key |-> k, token |-> t]),
         UNCHANGED <<buckets, objects, service, cli, linkVars>>
  PROVE  IInv'
<1> DEFINE r == [at |-> what, bucket |-> n, key |-> k, token |-> t]
<1>1. r \in Request
  BY DEF Request
<1>2. req' = [req EXCEPT ![c] = r] /\ Serving
  BY DEF Ask
<1> HIDE DEF r
<1>3. req' \in [Clients -> Request] /\ StartInv' /\ ServedExist' /\ RequestInv'
  BY <1>1, <1>2, RequestMoves DEF linkVars, r
<1>4. TypeOK' /\ RowsHaveBucket' /\ ClicksCounted' /\ TicksOfLinks'
  BY <1>3 DEF IInv, TypeOK, RowsHaveBucket, ClicksCounted, TicksOfLinks, linkVars
<1> QED BY <1>3, <1>4 DEF IInv

\* A put is granted in a bucket that is served.
LEMMA PutCheckIInv ==
  ASSUME NEW c \in Clients, NEW n \in Names, NEW k \in Keys, IInv, PutCheck(c, n, k)
  PROVE  IInv'
<1>1. Granted([at |-> "put", bucket |-> n, key |-> k, token |-> None])
  BY DEF PutCheck, Granted
<1> QED BY <1>1, AskIInv DEF PutCheck

\* A removal is granted of a bucket that is disabled, hence not served.
LEMMA DeleteBucketCheckIInv ==
  ASSUME NEW c \in Clients, NEW n \in Names, IInv, DeleteBucketCheck(c, n)
  PROVE  IInv'
<1>1. ~Enabled(n)
  BY DEF DeleteBucketCheck, Enabled
<1>2. ~Served(n)
  BY <1>1, ServedIsEnabled DEF DeleteBucketCheck, Ask, IInv
<1>3. Granted([at |-> "deleteBucket", bucket |-> n, key |-> None, token |-> None])
  BY <1>1, <1>2 DEF Granted
<1> QED BY <1>3, AskIInv DEF DeleteBucketCheck

\* A link is granted for an object that is there.
LEMMA LinkCheckIInv ==
  ASSUME NEW c \in Clients, NEW n \in Names, NEW k \in Keys, IInv, LinkCheck(c, n, k)
  PROVE  IInv'
<1>1. Granted([at |-> "link", bucket |-> n, key |-> k, token |-> None])
  BY DEF LinkCheck, Granted
<1> QED BY <1>1, AskIInv DEF LinkCheck

\* A GET of a link goes on with the bucket and key of its row.
LEMMA FollowIInv ==
  ASSUME NEW c \in Clients, NEW t \in Tokens, IInv, Follow(c, t)
  PROVE  IInv'
<1>1. links[t].bucket \in Names /\ links[t].key \in Keys /\ links[t] # None
  BY DEF Follow, IInv, TypeOK, LinkRow
<1>2. Granted([at |-> "follow", bucket |-> links[t].bucket, key |-> links[t].key, token |-> t])
  BY <1>1 DEF Granted
<1> QED BY <1>1, <1>2, AskIInv DEF Follow

\* A request that fails has done nothing.
LEMMA FailIInv ==
  ASSUME NEW c \in Clients, IInv, Fail(c)
  PROVE  IInv'
<1>1. req' \in [Clients -> Request] /\ StartInv' /\ ServedExist' /\ RequestInv'
  BY IdleGranted, RequestMoves DEF Fail, Return, linkVars
<1>2. TypeOK' /\ RowsHaveBucket' /\ ClicksCounted' /\ TicksOfLinks'
  BY <1>1 DEF Fail, IInv, TypeOK, RowsHaveBucket, ClicksCounted, TicksOfLinks, linkVars
<1> QED BY <1>1, <1>2 DEF IInv

\* A commit finds the bucket its check found: the service serves it still.
LEMMA PutCommitIInv ==
  ASSUME NEW c \in Clients, IInv, PutCommit(c)
  PROVE  IInv'
<1> USE DEF PutCommit
<1>1. req' \in [Clients -> Request] /\ StartInv' /\ ServedExist' /\ RequestInv'
  BY IdleGranted, RequestMoves DEF Return, linkVars
<1>2. req[c].bucket \in Names /\ req[c].key \in Keys /\ Served(req[c].bucket)
  BY DEF IInv, RequestInv, Granted
<1>3. TypeOK'
  BY <1>1, <1>2 DEF IInv, TypeOK, linkVars
<1>4. Serving
  BY DEF IInv, StartInv, Serving
<1>5. buckets[req[c].bucket] # None
  BY <1>2, <1>4, ServedIsEnabled DEF IInv, Enabled
<1>6. RowsHaveBucket'
  BY <1>2, <1>5 DEF IInv, TypeOK, RowsHaveBucket
<1>7. ClicksCounted' /\ TicksOfLinks'
  BY DEF IInv, ClicksCounted, TicksOfLinks, linkVars
<1> QED BY <1>1, <1>3, <1>6, <1>7 DEF IInv

\* Deletes of objects leave buckets alone.
LEMMA DeleteObjectIInv ==
  ASSUME NEW n \in Names, NEW k \in Keys, IInv, DeleteObject(n, k)
  PROVE  IInv'
<1> USE DEF IInv, DeleteObject, linkVars
<1>1. TypeOK' /\ RowsHaveBucket'
  BY DEF TypeOK, RowsHaveBucket
<1>2. StartInv' /\ ServedExist' /\ RequestInv'
  BY DEF StartInv, ServedExist, Serving, Served, RequestInv, Granted, Enabled
<1>3. ClicksCounted' /\ TicksOfLinks'
  BY DEF ClicksCounted, TicksOfLinks
<1> QED BY <1>1, <1>2, <1>3

\* A removal takes a bucket the service does not serve, with its objects.
LEMMA DeleteBucketIInv ==
  ASSUME NEW c \in Clients, IInv, DeleteBucket(c)
  PROVE  IInv'
<1> USE DEF IInv, DeleteBucket, linkVars
<1>1. req[c].bucket \in Names /\ ~Served(req[c].bucket) /\ Serving
  BY DEF RequestInv, Granted, StartInv, Serving
<1>2. service.conf[req[c].bucket] = None
  BY <1>1 DEF ServedExist
<1>3. \A d \in Clients \ {c} : req'[d] = req[d]
  BY DEF Return, TypeOK
<1>4. req' \in [Clients -> Request] /\ req'[c] = Idle
  BY IdleGranted DEF Return, TypeOK
<1>5. TypeOK' /\ RowsHaveBucket'
  BY <1>1, <1>4 DEF TypeOK, RowsHaveBucket
<1>6. \A n \in Names : Enabled(n)' => Enabled(n)
  BY <1>1 DEF Enabled, TypeOK
<1>7. StartInv'
  BY <1>1, <1>2, <1>6 DEF StartInv, TypeOK, Serving
<1>8. ServedExist'
  BY <1>1, <1>2 DEF ServedExist, Serving, Served, TypeOK
<1>9. RequestInv'
  BY <1>3, <1>4, <1>6, IdleGranted DEF RequestInv, Granted, Served
<1>10. ClicksCounted' /\ TicksOfLinks'
  BY DEF ClicksCounted, TicksOfLinks
<1> QED BY <1>5, <1>7, <1>8, <1>9, <1>10

\* "bucket rename" looks and fails without a trace in the tables.
LEMMA RenameCheckIInv ==
  ASSUME ~Online, IInv, RenameFails \/ \E old, new \in Names, conf \in Configs : RenameCheck(old, new, conf)
  PROVE  IInv'
<1>1. UNCHANGED <<buckets, objects, service, req, links, answers, ticks>>
  BY DEF RenameCheck, RenameFails, linkVars
<1>2. cli' \in (Names \X Names) \cup {None} /\ (service.at # "off" => cli' = None)
  BY DEF RenameCheck, RenameFails, IInv, StartInv
<1>3. TypeOK' /\ StartInv'
  BY <1>1, <1>2 DEF IInv, TypeOK, StartInv, Enabled
<1>4. ServedExist' /\ RequestInv'
  BY <1>1 DEF IInv, ServedExist, Serving, Served, RequestInv, Granted, Enabled
<1>5. RowsHaveBucket' /\ ClicksCounted' /\ TicksOfLinks'
  BY <1>1 DEF IInv, RowsHaveBucket, ClicksCounted, TicksOfLinks
<1> QED BY <1>3, <1>4, <1>5 DEF IInv

\* A renaming moves rows and objects together, while the service is off.
LEMMA RenameIInv ==
  ASSUME NEW old \in Names, NEW new \in Names, ~Online, IInv, Rename(old, new)
  PROVE  IInv'
<1> USE DEF IInv, Rename, linkVars
<1>1. service.at = "off"
  <2>1. <<old, new>> # None
    BY NoneAssumption
  <2> QED BY <2>1 DEF StartInv, TypeOK
<1>2. TypeOK'
  BY DEF TypeOK
<1>3. StartInv' /\ ServedExist' /\ RequestInv'
  BY <1>1 DEF StartInv, ServedExist, Serving, RequestInv, Granted
<1>4. RowsHaveBucket'
  BY DEF TypeOK, RowsHaveBucket
<1>5. ClicksCounted' /\ TicksOfLinks'
  BY DEF ClicksCounted, TicksOfLinks
<1> QED BY <1>2, <1>3, <1>4, <1>5

\* A new link has no clicks, and no goroutine counts more than was answered.
LEMMA LinkInsertIInv ==
  ASSUME NEW c \in Clients, NEW t \in Tokens, IInv, LinkInsert(c, t)
  PROVE  IInv'
<1> DEFINE row == [bucket |-> req[c].bucket, key |-> req[c].key, over |-> FALSE, clicks |-> 0]
<1>1. row \in LinkRow /\ row # None
  <2>1. row \in LinkRow
    BY DEF LinkInsert, IInv, RequestInv, Granted, LinkRow
  <2>2. None \notin LinkRow
    BY NoneAssumption
  <2> QED BY <2>1, <2>2
<1>2. links' = [links EXCEPT ![t] = row] /\ row.clicks = 0
  BY DEF LinkInsert
<1> HIDE DEF row
<1>0. links' \in [Tokens -> LinkRow \cup {None}]
  BY <1>1, <1>2 DEF IInv, TypeOK
<1> USE DEF IInv, LinkInsert
<1>3. \A d \in Clients \ {c} : req'[d] = req[d]
  BY DEF Return, TypeOK
<1>4. req' \in [Clients -> Request] /\ req'[c] = Idle
  BY IdleGranted DEF Return, TypeOK
<1>5. TypeOK'
  BY <1>0, <1>4 DEF TypeOK
<1>6. \A u \in Tokens : links[u] # None => links'[u] = links[u]
  BY <1>2 DEF TypeOK
<1>7. RequestInv'
  BY <1>3, <1>4, <1>6, IdleGranted DEF RequestInv, Granted, Served, Enabled
<1>8. StartInv' /\ ServedExist'
  BY <1>3, <1>4, IdleGranted DEF StartInv, ServedExist, Serving, Served, Enabled
<1>9. RowsHaveBucket' /\ TicksOfLinks'
  BY <1>1, <1>2 DEF TypeOK, RowsHaveBucket, TicksOfLinks
<1>10. ClicksCounted'
  BY <1>2, <1>6 DEF ClicksCounted, TicksOfLinks, TypeOK
<1> QED BY <1>5, <1>7, <1>8, <1>9, <1>10

\* A row of a link keeps its bucket when it is revoked or counted.
LEMMA LinkChanges ==
  ASSUME NEW t \in Tokens, NEW row \in LinkRow, IInv, links[t] # None, links' = [links EXCEPT ![t] = row],
         row.bucket = links[t].bucket, UNCHANGED <<buckets, objects, service, req, cli>>
  PROVE  /\ links' \in [Tokens -> LinkRow \cup {None}]
         /\ StartInv' /\ ServedExist' /\ RequestInv' /\ RowsHaveBucket'
         /\ links'[t] = row /\ \A u \in Tokens \ {t} : links'[u] = links[u]
         /\ \A u \in Tokens : links'[u] = None => links[u] = None
<1> USE DEF IInv
<1>1. None \notin LinkRow
  BY NoneAssumption
<1>2. links' \in [Tokens -> LinkRow \cup {None}]
  BY DEF TypeOK
<1>3. \A u \in Tokens : links[u] # None => links'[u] # None /\ links'[u].bucket = links[u].bucket
  BY <1>1 DEF TypeOK
<1>4. RequestInv'
  BY <1>3 DEF RequestInv, Granted, Served, Enabled
<1>5. StartInv' /\ ServedExist' /\ RowsHaveBucket'
  BY DEF StartInv, ServedExist, Serving, Served, Enabled, RowsHaveBucket
<1>6. links'[t] = row /\ \A u \in Tokens \ {t} : links'[u] = links[u]
  BY DEF TypeOK
<1> QED BY <1>2, <1>3, <1>4, <1>5, <1>6

\* Revoking counts nothing.
LEMMA LinkOverIInv ==
  ASSUME NEW t \in Tokens, IInv, LinkOver(t)
  PROVE  IInv'
<1> DEFINE row == [links[t] EXCEPT !.over = TRUE]
<1>1. row \in LinkRow /\ row.bucket = links[t].bucket /\ row.clicks = links[t].clicks
  BY DEF LinkOver, IInv, TypeOK, LinkRow
<1>2. links' = [links EXCEPT ![t] = row] /\ links[t] # None
  BY DEF LinkOver
<1> HIDE DEF row
<1>3. /\ links' \in [Tokens -> LinkRow \cup {None}]
      /\ StartInv' /\ ServedExist' /\ RequestInv' /\ RowsHaveBucket'
      /\ links'[t] = row /\ \A u \in Tokens \ {t} : links'[u] = links[u]
      /\ \A u \in Tokens : links'[u] = None => links[u] = None
  BY <1>1, <1>2, LinkChanges DEF LinkOver
<1>4. TypeOK'
  BY <1>3 DEF LinkOver, IInv, TypeOK
<1>5. TicksOfLinks'
  BY <1>3 DEF LinkOver, IInv, TicksOfLinks
<1>6. ClicksCounted'
  <2> SUFFICES ASSUME NEW u \in Tokens, links'[u] # None
               PROVE  links'[u].clicks + ticks[u] <= answers[u]
    BY DEF LinkOver, ClicksCounted
  <2>1. CASE u = t
    BY <2>1, <1>1, <1>2, <1>3 DEF IInv, ClicksCounted
  <2>2. CASE u # t
    BY <2>2, <1>3 DEF IInv, ClicksCounted
  <2> QED BY <2>1, <2>2
<1> QED BY <1>3, <1>4, <1>5, <1>6 DEF IInv

\* An answer leaves one goroutine behind.
LEMMA AnswerIInv ==
  ASSUME NEW c \in Clients, IInv, Answer(c)
  PROVE  IInv'
<1>1. req' \in [Clients -> Request] /\ StartInv' /\ ServedExist' /\ RequestInv'
  BY IdleGranted, RequestMoves DEF Answer, Return
<1>2. req[c].token \in Tokens
  BY DEF Answer, IInv, RequestInv, Granted
<1>3. TypeOK'
  BY <1>1, <1>2 DEF Answer, IInv, TypeOK
<1>4. RowsHaveBucket'
  BY DEF Answer, IInv, RowsHaveBucket
<1>5. TicksOfLinks'
  BY <1>2 DEF Answer, IInv, TypeOK, TicksOfLinks, RequestInv, Granted
<1>6. ClicksCounted'
  <2> SUFFICES ASSUME NEW u \in Tokens, links[u] # None
               PROVE  links[u].clicks + ticks'[u] <= answers'[u]
    BY DEF Answer, ClicksCounted
  <2>1. links[u].clicks \in Nat /\ links[u].clicks + ticks[u] <= answers[u]
    BY DEF IInv, TypeOK, LinkRow, ClicksCounted
  <2> QED BY <1>2, <2>1 DEF Answer, IInv, TypeOK
<1> QED BY <1>1, <1>3, <1>4, <1>5, <1>6 DEF IInv

\* A goroutine counts once at most.
LEMMA TickIInv ==
  ASSUME NEW t \in Tokens, IInv, Tick(t)
  PROVE  IInv'
<1>0. links[t] # None
  BY DEF Tick, IInv, TicksOfLinks
<1> PICK n \in {0, 1} : links' = [links EXCEPT ![t].clicks = @ + n]
  BY DEF Tick
<1> DEFINE row == [links[t] EXCEPT !.clicks = @ + n]
<1>1. row \in LinkRow /\ row.bucket = links[t].bucket /\ row.clicks = links[t].clicks + n
  BY <1>0 DEF IInv, TypeOK, LinkRow
<1>2. links' = [links EXCEPT ![t] = row]
  OBVIOUS
<1> HIDE DEF row
<1>3. /\ links' \in [Tokens -> LinkRow \cup {None}]
      /\ StartInv' /\ ServedExist' /\ RequestInv' /\ RowsHaveBucket'
      /\ links'[t] = row /\ \A u \in Tokens \ {t} : links'[u] = links[u]
      /\ \A u \in Tokens : links'[u] = None => links[u] = None
  BY <1>0, <1>1, <1>2, LinkChanges DEF Tick
<1>4. ticks'[t] = ticks[t] - 1 /\ ticks' \in [Tokens -> Nat]
  BY DEF Tick, IInv, TypeOK
<1>5. TypeOK'
  BY <1>3, <1>4 DEF Tick, IInv, TypeOK
<1>6. TicksOfLinks'
  BY <1>0, <1>3 DEF Tick, IInv, TypeOK, TicksOfLinks
<1>7. ClicksCounted'
  <2> SUFFICES ASSUME NEW u \in Tokens, links'[u] # None
               PROVE  links'[u].clicks + ticks'[u] <= answers'[u]
    BY DEF ClicksCounted
  <2>1. CASE u = t
    <3>1. links[t].clicks \in Nat /\ links[t].clicks + ticks[t] <= answers[t]
      BY <1>0 DEF IInv, TypeOK, LinkRow, ClicksCounted
    <3>2. links'[t].clicks = links[t].clicks + n
      BY <1>1, <1>3
    <3> QED BY <2>1, <3>1, <3>2, <1>4 DEF Tick, IInv, TypeOK
  <2>2. CASE u # t
    <3>1. ticks'[u] = ticks[u] /\ answers'[u] = answers[u]
      BY <2>2 DEF Tick, IInv, TypeOK
    <3> QED BY <2>2, <3>1, <1>3 DEF IInv, ClicksCounted
  <2> QED BY <2>1, <2>2
<1> QED BY <1>3, <1>5, <1>6, <1>7 DEF IInv

\* The inductive invariant holds in every state, if buckets are renamed offline.
THEOREM Invariance ==
  ASSUME ~Online
  PROVE  Spec => []IInv
<1>1. IInv /\ [Next]_vars => IInv'
  <2> SUFFICES ASSUME IInv, [Next]_vars PROVE IInv'
    OBVIOUS
  <2>1. CASE Service
    BY <2>1, LoadIInv, UpsertIInv, DisableIInv, SnapshotIInv, StopIInv DEF Service
  <2>2. CASE Command
    BY <2>2, RenameIInv, RenameCheckIInv DEF Command
  <2>3. ASSUME NEW c \in Clients, Object(c) PROVE IInv'
    BY <2>3, PutCheckIInv, DeleteBucketCheckIInv, PutCommitIInv, DeleteBucketIInv, FailIInv DEF Object
  <2>4. ASSUME NEW c \in Clients, Link(c) PROVE IInv'
    BY <2>4, LinkCheckIInv, LinkInsertIInv, FollowIInv, AnswerIInv DEF Link
  <2>5. CASE UNCHANGED vars
    BY <2>5 DEF vars, linkVars, IInv, TypeOK, StartInv, ServedExist, Serving, Served, Enabled, RequestInv, Granted,
       RowsHaveBucket, ClicksCounted, TicksOfLinks
  <2> QED BY <2>1, <2>2, <2>3, <2>4, <2>5, DeleteObjectIInv, LinkOverIInv, TickIInv DEF Next
<1> QED BY InitIInv, <1>1, PTL DEF Spec

\* The snapshot of a running service is as good as a look at the table.
THEOREM SnapshotIsCurrent ==
  ASSUME ~Online
  PROVE  Spec => []ServedExist
<1>1. IInv => ServedExist
  BY DEF IInv
<1> QED BY <1>1, Invariance, PTL

\* No object is left under a name without a bucket.
THEOREM NoStrayRows ==
  ASSUME ~Online
  PROVE  Spec => []RowsHaveBucket
<1>1. IInv => RowsHaveBucket
  BY DEF IInv
<1> QED BY <1>1, Invariance, PTL

\* Clicks never exceed the responses given.
THEOREM ClicksAreAnswers ==
  ASSUME ~Online
  PROVE  Spec => []ClicksCounted
<1>1. IInv => ClicksCounted
  BY DEF IInv
<1> QED BY <1>1, Invariance, PTL

\* Only DeleteBucket and "bucket rename" take rows of buckets away, and the
\* first finds them disabled and not served.
THEOREM RemovalsSpareServed ==
  ASSUME ~Online
  PROVE  Spec => OnlyOrphansRemoved
<1> DEFINE Removal ==
      \A n \in Names :
        buckets[n] # None /\ buckets'[n] = None /\ cli' = cli => ~buckets[n].enabled /\ ~Served(n)
<1>1. IInv /\ [Next]_vars => [Removal]_vars
  <2> SUFFICES ASSUME IInv, Next, NEW n \in Names, buckets[n] # None, buckets'[n] = None, cli' = cli
               PROVE  ~buckets[n].enabled /\ ~Served(n)
    BY DEF vars
  <2>1. CASE \E m \in Names : Upsert(m)
    <3> PICK m \in Names : Upsert(m)
      BY <2>1
    <3>1. service.conf[m] \in Chats
      BY DEF Upsert, IInv, TypeOK, Configs, NoConfig, StartInv
    <3> QED BY <3>1, RowIsEnabled DEF Upsert, IInv, TypeOK
  <2>2. CASE Disable
    <3>1. [buckets[n] EXCEPT !.enabled = FALSE] \in Row
      BY DEF IInv, TypeOK, Row
    <3>2. None \notin Row
      BY NoneAssumption
    <3> QED BY <2>2, <3>1, <3>2 DEF Disable
  <2>3. CASE \E c \in Clients : DeleteBucket(c)
    <3> PICK c \in Clients : DeleteBucket(c)
      BY <2>3
    <3>1. n = req[c].bucket
      BY DEF DeleteBucket, IInv, TypeOK
    <3> QED BY <3>1 DEF DeleteBucket, IInv, RequestInv, Granted, Enabled
  <2>4. CASE \E old, new \in Names : Rename(old, new)
    <3>1. None \notin Names \X Names
      BY NoneAssumption
    <3> QED BY <2>4, <3>1 DEF Rename
  <2>5. CASE UNCHANGED buckets
    BY <2>5
  <2> QED BY <2>1, <2>2, <2>3, <2>4, <2>5
          DEF Next, Service, Command, Object, Link, Load, Snapshot, Stop, Fail, PutCheck, PutCommit, DeleteObject,
              DeleteBucketCheck, RenameCheck, RenameFails, LinkCheck, LinkInsert, LinkOver, Follow, Answer, Tick
<1> QED BY <1>1, Invariance, PTL DEF Spec, OnlyOrphansRemoved

\* An answer is given while the bucket of the link is served, hence enabled.
THEOREM LinksStayConfined ==
  ASSUME ~Online
  PROVE  Spec => LinksConfined
<1> DEFINE Confined == \A t \in Tokens : answers'[t] # answers[t] => Enabled(links[t].bucket)
<1>1. IInv /\ [Next]_vars => [Confined]_vars
  <2> SUFFICES ASSUME IInv, Next, NEW t \in Tokens, answers'[t] # answers[t] PROVE Enabled(links[t].bucket)
    BY DEF vars
  <2>1. CASE \E c \in Clients : Answer(c)
    <3> PICK c \in Clients : Answer(c)
      BY <2>1
    <3>1. t = req[c].token
      BY DEF Answer, IInv, TypeOK
    <3>2. links[t].bucket \in Names /\ Served(links[t].bucket) /\ Serving
      BY <3>1 DEF Answer, IInv, RequestInv, Granted, StartInv, Serving
    <3> QED BY <3>2, ServedIsEnabled DEF IInv
  <2>2. CASE UNCHANGED answers
    BY <2>2
  <2> QED BY <2>1, <2>2
          DEF Next, Service, Command, Object, Link, Load, Upsert, Disable, Snapshot, Stop, Fail, PutCheck, PutCommit,
              DeleteObject, DeleteBucketCheck, DeleteBucket, RenameCheck, Rename, RenameFails, LinkCheck, LinkInsert,
              LinkOver, Follow, Tick, linkVars
<1> QED BY <1>1, Invariance, PTL DEF Spec, LinksConfined
================================================================================
