# TGNAS: TLA+ models, checks and proofs

TGNAS is a server that keeps the bytes of files as messages of a Telegram chat
and their metadata in SQLite, and serves them as S3 buckets, as WebDAV trees and
through a web interface. This directory holds TLA+ modules of its stateful
parts, the TLC configurations that check them on small instances, and TLAPS
proofs for the core. All paths below are relative to `src/`.

## 1. The system

### Components, their state and operations

| component | code | state | operations |
|---|---|---|---|
| Key lock | `store/locks.go` | map from bucket+key to a reference-counted mutex | `Lock`, the returned release |
| Object store | `store/store.go`, `store/range.go` | unfinished multipart uploads (memory only), startup snapshot of buckets, three channels that count uploads, downloads and calls of Telegram | `PutObject`, `GetObject`, `HeadObject`, `ListObjects`, `DeleteObject`, `CreateMultipartUpload`, `UploadPart`, `CompleteMultipartUpload`, `AbortMultipartUpload`, `DeleteBucket` |
| Metadata store | `metadata/sqlite.go` | tables `buckets`, `objects`, `chunks`, `direct_links` | transactions on one key, on a prefix, on a bucket; ordered listing |
| Telegram client | `telegram/client.go` | none between calls | `Upload` (up to four attempts over one reader), `DownloadFile` |
| S3 API | `internal/s3api` | none | routing, SigV4, XML, ranges, continuation tokens |
| WebDAV | `internal/dav` | none (locks are always granted) | `PUT`, `MKCOL`, `DELETE`, `COPY`, `MOVE`, reads |
| Web API | `internal/web` | direct links (in the metadata) | login, list, upload, delete, links, short links |
| Service and command line | `cmd/tgnas/main.go` | configuration | start (buckets enabled and disabled), `bucket rename`, `ls`, `lsd` |

### How they interact

An HTTP handler (S3, WebDAV or web) calls the object store; every request is a
goroutine. A write takes an upload slot, then the lock of its key, then sends
the bytes to Telegram under a Telegram slot, and commits one metadata
transaction. A part of a multipart upload takes no key lock: it looks its
session up, uploads, and looks it up again. A completion takes the key lock,
assembles the parts under `multipartMu`, commits, and deletes the session in a
later section of `multipartMu`. A download takes a download slot for all of the
object and a Telegram slot for each chunk, which it gives back when the client
has taken the bytes. WebDAV's copy, move and delete bypass the object
store: they look at the metadata in several reads and then run one transaction.
A read asks the metadata for the chunks and fetches them one after the other.

### What is hard

* **Check, then act.** `UploadPart`, `CompleteMultipartUpload`, every WebDAV
  write, every ranged `GET` and `DeleteBucket` decide on state that may be gone
  when they act.
* **Two stores, no transaction over both.** Telegram never forgets a message, the
  metadata may not know it: crashes, lost answers, late parts.
* **Volatile sessions with a limit**, evicted by age under the wall clock.
* **A mutex that is created and deleted while others wait for it.**
* **Rows rewritten in a loop** when the source and the destination of a copy overlap.
* **Paging over a table that changes**, with rows rolled up into prefixes.
* **Waits for several resources** by requests that hold others: an upload slot, a
  key lock, a Telegram slot, and a client at the other end of a download.
* **Retries over a shared reader** by goroutines that may outlive their attempt.

`PROJECT.json` lists each hazard at the line where it bites, with the properties
that cover it or the reason why none does yet.

### What makes each component correct

* Key lock: mutual exclusion per key, no leaked map entry, waiters are served.
* Object store, writes: an object changes atomically and consists of files sent
  for its key; a failed request changes nothing; files are accounted for; the
  sessions stay within their limit.
* Object store, admission: no limit of the configuration is exceeded, every slot
  and lock is given back exactly once on each path out, no circle of waits.
* Object store, reads: a response is a run of bytes of one version.
* Listing: a walk lists every object that was there all the time, once, and ends.
* WebDAV: the tree changes as one simultaneous copy, move or removal;
  `Overwrite: F` overwrites nothing.
* Telegram client: what it stores is the whole file; it returns and leaves no
  goroutine behind.
* Buckets and direct links: what is served is configured and enabled; no object
  is left without a bucket; a removal takes nothing that is served; a link opens
  no bucket that is gone.

## 2. The modules

| module | models | implements |
|---|---|---|
| `AbstractKeyLock` | one lock per key, granted in one step | |
| `KeyedLocker` | every step of `Lock` and its release | `AbstractKeyLock` (`LockSpec`, checked and proved) |
| `AtomicObjects` | what a caller of the store may expect of objects | |
| `ObjectStore` | put, delete, multipart, eviction, restart | `AtomicObjects` (`AtomicSpec`, checked and proved) |
| `Admission` | slots, key locks and clients that a put, a part, a completion or a `GET` waits for | |
| `Tree` | a tree that changes by simultaneous transfers | |
| `DavNamespace` | WebDAV's checks and the metadata transactions | `Tree` (`TreeSpec`, checked and proved) |
| `RangeRead` | a full or ranged `GET` over chunks, and one over WebDAV | |
| `Listing` | `ListObjects` page after page, `ls`, `lsd`, the children of a WebDAV collection | |
| `TelegramUpload` | one `Upload` with its attempts and goroutines | |
| `Buckets` | the start of the service, removal and renaming of buckets, direct links | |
| `KeyedLockerProofs`, `ObjectStoreProofs`, `AdmissionProofs`, `DavNamespaceProofs`, `RangeReadProofs`, `ListingProofs`, `TelegramUploadProofs`, `BucketsProofs` | theorems and proofs | |
| `MC*` | instances for TLC: constants, small trees, symmetry | |

Modules refer to one another by what they promise: `ObjectStore` takes the key
lock in one step because `KeyedLocker` implements `AbstractKeyLock`, and so does
`Admission`, which shows that what `ObjectStore` waits for is granted; it takes a
Telegram upload to end with a whole message, none, or a message whose answer is
lost, and to leave up to one more whole message for each repeated attempt
(`telegram/client.go:200-249`), because `TelegramUpload` shows that what is stored is
whole; `RangeRead` takes an object as the gapless chunks that `ObjectStore` commits at once.

An operator with the comment "Deviation" is no part of a specification. It is a
plausible mistake in the definition below it, with which the property named in
`PROJECT.json` ("mutants") must fail; it documents what that property is good for.

### Where the state and the actions come from

**KeyedLocker** (`store/locks.go`). `locks`, `owner` and `refs` are the map, the
mutexes and their counts; `pc`, `key` and `mutex` are the position and the local
variables of each goroutine. The sections under `l.mu` neither block nor call
out and are one step each (`Enter`, `Leave`); `m.mu.Lock()` and `m.mu.Unlock()`
are `Acquire` and `Unlock`. A new mutex may live in any cell that nothing refers
to, so that the reuse of memory is covered.

**ObjectStore** (`store/store.go`). `objects` is the metadata: the set of
Telegram files of each key. `telegram` says which key a message was sent for,
`sessions` is `multipartUploads`, `lock` the key locks, `req` the goroutines.
`Served` is the snapshot of the buckets, which a process reads once, when it starts
(`store/store.go:114-120`); `Snapshots` gives one for each start, so that a restart may find
another configuration. One attempt of an upload is answered at most; any other attempt
may have stored its form all the same, and `Sent` and `NotSent` put these copies in
`dropped`: nothing in the code names them.
`logged` holds the files named by an `orphan_upload` log line. `published`,
`dropped` and `crashes` are history. A request is cut where it waits, calls
Telegram or SQLite, or lets go of `multipartMu`; every piece is an action:

| code | actions |
|---|---|
| `PutObject` | `PutCall`, `PutRefused`, `PutLocked`, `PutSent`, `PutNotSent`, `PutCommit`, `PutCommitFailed` |
| `DeleteObject` | `DeleteObject` |
| `CreateMultipartUpload` with its eviction | `CreateUpload` |
| `UploadPart` | `PartCall`, `PartSent`, `PartNotSent`, `PartStored`, `PartTooLate` |
| `CompleteMultipartUpload` | `CompleteCall`, `CompleteRefused`, `CompleteChecked`, `CompleteCommit`, `CompleteCommitFailed`, `CompleteForget` |
| `AbortMultipartUpload` | `AbortUpload` |
| a restart of the process | `Crash` |

Abstracted: sizes, hashes and MIME types; the choice of a Telegram method; the
slots, which are `Admission`'s subject (here the number of `Clients` stands for
them). A part is one Telegram file, as `uploadMultipartPartChunks` makes it.

**Admission** (`store/store.go`, `telegram/client.go`). `limits` is the
configuration, `slots` the number of tokens in each channel, `lock` the key locks,
`req` where each request stands, the chunks it has still to send, the try of its
download, and whether its client has gone. A limit of 0 stands for a nil channel,
which never blocks. A release receives from its channel, so that a release
too many blocks (`Give`). The two goroutines of a `GET` are one request, since the
pipe between them holds nothing: the client takes a chunk in `Copied`, and a client
that goes away ends the context and closes the reader in one step (`HangUp`), after
which every wait of the download may end. A write looks at its context only where it
waits for a slot; `KeyedLocker.Lock` does not look at it.

| code | actions |
|---|---|
| `acquire`, and the releases it returns | `UploadSlot`, `DownloadSlot`, `TelegramSlot`; `Give` within the others |
| `acquire` on `ctx.Done()` | `WriteGivenUp`, `ReadGivenUp` |
| `PutObject`, `putSingle`, `UploadPart`, `CompleteMultipartUpload` | `Call`, `KeyLock`, `Body`, `BodyRefused`, `Sent`, `SendFailed`, `Commit` |
| `GetObject` and its goroutine, `downloadChunk` | `Call`, `Copied`, `CopyBroken`, `Through`, `Over` |
| `getFile`, `downloadHTTPFile`, their attempts | `Located`, `Fetched`, `Retry`, `DownloadFailed` |
| the server ends a request's context | `HangUp` |

**DavNamespace** (`internal/dav`, `metadata/sqlite.go`). `rows[k]` pairs the
object row of a key (`meta`) with its chunk rows (`chunks`), because the
transactions write them separately. `req[c]` is what a request is about to do
after its checks. A key is a sequence of numbered names, a collection's marker
ends in the empty name 0. `Like` is SQLite's `LIKE`, which ignores case through
`Fold`; `Under` is the byte-wise comparison in Go. A copy of a collection goes
through a listing of the rows that match (`Listings`: `ORDER BY key`), one round
(`CopyNext`) after the other (`CopyPrefix`). `S3Put` and `S3Delete` are
the other writers. Requests on the root or on a whole bucket, and reads, are left out.

**RangeRead** (`internal/s3api/server.go:497-529`, `store/range.go`). A byte is a
pair of a version and a position. The size a range is parsed against comes from
one query, the chunks it is applied to from a later one, and each chunk is
fetched in a step of its own; a fetch may break off at any byte. A `GET` over
WebDAV (`internal/dav/fs.go`) reads the row when it opens the file and the whole
object when `http.ServeContent` first asks for its size (`DavOpen`, `DavGet`,
`DavRead`, `DavServe`); a failed download is an error and no body.

**Listing** (`store/store.go:571-713`). Keys are numbered in index order;
`Group` gives the common prefix of a key. Each query of the loop, of
`advanceContinuationPastPrefix` and of the probe for more is one step; between
two of them keys come and go. The client follows the continuation. `Ls`, `Lsd` and
`ListAll` are the loops of `tgnas ls`, `tgnas lsd` and of WebDAV's
`collectionChildren`, each over the same query with pages of its own. `Marker` is the
row that `Mkdir` writes for the collection itself, which `collectionChildren` skips
(`internal/dav/fs.go:340`).

**TelegramUpload** (`telegram/client.go:154-281`). The attempts, one goroutine
per attempt with its pipe, the reader whose offset all of them share, and the
messages Telegram has stored. An attempt may fail at any point of its body or
after it; Telegram may store a whole form whether or not anyone waits for the answer.

**Buckets** (`cmd/tgnas/main.go`, `metadata/sqlite.go`, `internal/web`).
`buckets`, `objects` and `links` are the tables; an object is a key that is there
or not. `service` is the running process: its phase, the configuration it read,
the buckets it has still to upsert, and its snapshot. The configuration file may
have been edited before each start and each command, so both find any valid one.
`req` holds what a request has looked up and not yet acted on, `cli` the same of
`bucket rename`, a process of its own; `ticks` counts the goroutines that will
count a click; `answers` is history.

| code | actions |
|---|---|
| `runServiceWithDebug` | `Load`, `Upsert` for each bucket, `Disable`, `Snapshot`; `Stop` at any point |
| `PutObject`, `CompleteMultipartUpload` | `PutCheck`, `PutCommit` |
| `ObjectStore.DeleteBucket`, WebDAV's `DELETE` of a bucket | `DeleteBucketCheck`, `DeleteBucket` |
| `runRenameBucket` | `RenameCheck`, `Rename`, `RenameFails` (a dry run is the first and the last) |
| `createLink` | `LinkCheck`, `LinkInsert` |
| `handleRevokeLink`, expiry | `LinkOver` |
| `handleDirectLink` | `Follow`, `Answer`, `Tick` |

One service runs at a time. WebDAV looks a bucket up in the table instead of the
snapshot when it writes (`internal/dav/handler.go:94`); with `ServedExist` the
two agree. `web.allowed_buckets` is taken as unset, which allows every configured bucket.

## 3. The runs

| run | constants | question |
|---|---|---|
| `keyed_locker` | 3 goroutines, 2 keys, 3 mutexes | exclusion, leaks, waiters, refinement |
| `object_store` | 2 requests, 2 keys of which a restart serves one, 2 files, 4 attempts, 2 uploads, 2 part numbers, 1 session slot, 1 restart | invariants, accounting, the session limit, atomicity |
| `admission` | 3 goroutines (one writes, one reads, one does either), 1 key, 2 configurations, up to 2 chunks, 2 attempts | slots and locks given back, limits, no circle of waits, stalled readers |
| `dav` | 6 paths three levels deep, 3 rows, 2 contents | checks kept, rows whole, refinement of `Tree`, `Overwrite: F` |
| `range_read` | up to 3 chunks of 0, 1 or 2 bytes, 2 versions, S3 and WebDAV | the right bytes, the announced length |
| `listing` | 6 keys, prefixes of 3 keys and of 1, pages of 2, batches of 2, 2 writes, five kinds of walk | complete, ordered, bounded, ends |
| `telegram_upload` | 4 attempts, 2 blocks | whole files, the call ends |
| `buckets` | 3 names, 1 key, 2 chats, 1 link, 2 requests, 2 answers | what is served exists, removals, links, clicks |
| `late_part`, `move_up`, `other_case`, `rename_online` | | disagreements with the documents, section 6 |

### What each passing run shows

* `keyed_locker`: no two requests hold one key (`MutualExclusion`) although the
  mutex behind it is dropped and made anew; `NoStaleEntry`: the map keeps no key
  that nobody uses; `WaiterServed`; `LockSpec`; and `IInv`, the invariant of the
  proofs. Three goroutines are a holder, a waiter and a newcomer, which is what
  the reference count has to get right; a mutex per goroutine is the most that
  can be in use.
* `object_store`: `FilesOfKey`: no object ever holds a file that was sent for
  another key; `OnlyServedChange`: no object comes or goes under a bucket that the running
  process does not serve, though sessions of an earlier one knew other buckets;
  `NoUntrackedFile`: every stored file was in an object, is in a session, a request or
  the log, or fell to one of five named gaps (an upload that failed for want of an
  answer, the copies that repeated attempts leave, a late part, a part the manifest
  leaves out, a restart);
  `SessionsBounded`; `NewUploadUsable`: an upload id is never evicted by the call
  that returns it; `AtomicSpec`. Two requests are enough for each race in
  `PROJECT.json`, since deletes, aborts, creations and restarts are steps of
  their own beside them; one session slot makes every second creation evict; two
  part numbers distinguish a replaced part from an unlisted one. Two files are a part
  in a session and one on its way to replace it, or a file of an object and the copy that
  a repeated attempt has left; with three the run finds nothing more in 1.45 million states.
* `admission`: `IInv`, the invariant of the proofs: a channel holds one token for
  each request between acquire and release, whichever way each of them leaves;
  `CallsLimited`; `WritesReturn`: with fewer downloads than calls (`Room`) every
  write returns even if those who download stop reading for ever;
  `DepartedReturn`: a download whose client has gone lets go of everything;
  `AllReturn`: under any limits every request returns if those who download go on
  reading or go away. One configuration has fewer downloads than calls, the other
  more, as the defaults do, with channels that a single request fills, so that
  every request waits behind the others. Two chunks make a download wait for a
  slot again while it keeps another; two attempts are one that is repeated and one
  that is the last. Three goroutines are a request that holds, one that waits for
  it, and one that both wait for.
* `dav`: `IInv`, the invariant of the proofs: a transaction finds the request as
  its checks left it; `RowsWhole`: metadata and chunks of a key belong together after any
  transaction; `TreeSpec`: every change of the tree is one of `Tree`'s, the loop
  over rows included; `OverwriteForbidden`. Two names in three levels suffice for
  a collection within a collection, a file and a collection of one name, and a
  copy of either into the other; three rows for a loop whose later rows clash. A
  second WebDAV request could only change rows in between, as `S3Put` and
  `S3Delete` do at every point.
* `range_read`: `RightBytes`: a response is a prefix of what the range asks of
  one version and, if it ends without an error, all of it; `LengthKept`: it has
  the announced length if the object was not rewritten between the two reads.
  Three chunks give a first, a middle and a last one; every range of each form is
  tried, those beyond the end included. Over WebDAV both hold by the buffer, even if
  the object was rewritten since the file was opened.
* `listing`: `NothingMissed`, `KeysAscend`, `PagesWithinLimit`, `PrefixesOnce`,
  `WalkEnds`, from each of the 64 buckets over six keys. The read-ahead of 4, the
  batch of 32 and the page of 1000 become 1, 2 and 2 so that a query ends within, at and behind the
  end of a prefix; the logic knows no other relation between them. The first key is the
  marker of the collection whose children are listed, which is no child of it.
* `telegram_upload`: `WholeFiles` and `UploadEnds`. Two blocks allow a body that
  is cut in the middle; the number of attempts is that of the code.
* `buckets`: `ServedExist`: once a service listens, it serves the configured
  buckets and no other, each enabled and with its chat in the table, whatever
  earlier starts left behind; `RowsHaveBucket`; `OnlyOrphansRemoved`;
  `LinksConfined`; `ClicksCounted`; and `IInv`, the invariant of the proofs.
  Three names are one that keeps its configuration, one that loses it and one
  that a bucket is renamed to; two chats make a bucket move between chats; two
  requests put and remove, or follow a link, around one another.

### Bounds

`MaxCrashes`, `MaxWrites`, `MaxVersions`, `MaxAnswers`, `MaxRows`, `MaxRecursive` and
the `Attempts` of `Admission` (2 instead of 4) cap counters; `ObjectStore` has the code's 4,
of which two files allow one copy of an answered upload and two of an unanswered one;
`Files`, `Uploads`, `Tokens`, `Contents`, `MaxChunks` and `Size` bound data. `MaxRows` is
also what keeps copies of copies finite. `Times` has two readings, enough for an order.
Deadlock is checked in every run but `telegram_upload`, where the one call ends
and the system stops. Symmetry is used in `object_store` and `buckets`, over sets whose
members the module does not tell apart, and never together with liveness.

### Assumptions of the models

* `ClockForward = TRUE` (`NewUploadUsable`): creation times grow. The code stores
  `time.Now().UTC()`, which drops the monotonic reading, so a clock that steps
  back can make the newcomer the oldest; without the assumption the property fails.
* `Upwards = FALSE` (`dav`): no collection is copied or moved onto one of its own
  ancestors. It restricts what clients send (`Destinations`), not the check of the
  handler, which lets it pass; `RowsWhole` and `TreeSpec` then fail, see section 6.
* `Prompt = TRUE` (`telegram_upload`): the goroutine of a failed attempt is done
  with the reader before the backoff is over, which is 25 ms, 50 ms and so on up to
  200 ms, or what Telegram's `retry_after` asks for (`telegram/client.go:453`). The
  code does not wait for it; without the assumption `WholeFiles` fails; see section 6.
* `FilesOfKey` is about the store's own operations. A WebDAV copy shares the
  files of its source on purpose and is `DavNamespace`'s subject.
* `Online = FALSE` (`buckets`): buckets are renamed while no service runs. The
  code does not ask for it; with `Online = TRUE` every property of the run but
  `ClicksCounted` may fail, and `rename_online` shows the first consequence.
* `Limit >= 1` in `Listing`: S3 lets `max-keys=0` through
  (`internal/s3api/server.go:333`); the loop of `ListObjects` is then not entered, and the
  one page is empty and the last, so that there is no walk to speak of.
* `Room` (`WritesReturn`): fewer downloads than calls of Telegram are allowed, or
  calls are unlimited. The defaults are 16 and 8; without the assumption the
  property fails; see section 6.

### Fairness

* `KeyedLocker`: strong fairness of `Acquire`, because `sync.Mutex` hands the
  mutex to a waiter of more than a millisecond; weak fairness of the release,
  which every caller defers.
* `Admission`: weak fairness of what the server and Telegram do without the client
  of a download (`Work`): goroutines run, the attempts at Telegram are bounded and
  `http.Client` has a timeout, and whoever uploads sends its body or goes away. The
  last is an assumption about clients, which no deadline in the code enforces: one that
  stops in the middle of its body keeps its slot and the lock of its key.
  Strong fairness of the waits (`Wait`): a Go channel serves those who wait on it in
  turn, and `sync.Mutex` hands itself to whoever waits longer than a millisecond,
  as `WaiterServed` shows of the key lock. Nothing is assumed of those who
  download; that they go on is the premise of `AllReturn` alone (`ReadersGoOn`).
* `Listing`: the request runs on and the client asks for the next page.
* `TelegramUpload`: the call and its goroutines run on; an attempt ends because
  `http.Client` has a timeout.

No fairness is assumed of `Crash`, of failures or of other clients' writes, and
none is needed for a safety property.

## 4. Theorems

The proofs hold for every value of the constants. Their only assumptions are the
named ones in the modules: goroutines are finitely many (`ProcsFinite`,
`RequestsFinite`), `None` is no member of the other sets (`NoneOutside`,
`NoneAssumption`) and no session (`SessionAssumption`), each start has a snapshot of
the buckets (`SnapshotsAssumption`), limits are numbers (`LimitsAssumption`), the marker
of a collection has no common prefix (`MarkerAssumption`), keys of one common prefix lie side by side in
the index (`GroupAssumption`), paths are made of numbered names (`FoldAssumption`), and
the bounds are of their types.
Theorems that need one of `ClockForward`, `Prompt`, `~Online` or `Plain` state it.

The code's loops are recursive functions in the models. Nothing is taken on trust about
them either: a set of naturals has a least element (`LeastNatural`), so that a set
of rounds that contains round 0 and with each round the next contains all (`Rounds`), and
so a loop has the values that its equation gives (`LoopDefined`). These three lemmas
open the three modules that reason about loops.

`KeyedLockerProofs`: `Invariance` (`Spec => []IInv`) and, from it,
`KeyMutualExclusion`, `TypesHold`, `EntriesInUse` and `ImplementsKeyLock`. Mutual exclusion is
not inductive: that nobody else is on the mutex of a key that has just been
dropped follows only from counting. `IInv` adds that `refs` is the number of
calls that use the mutex (`RefsCountUsers`), that each call in progress uses the
mutex its key maps to (`UsersShareEntry`), that no mutex serves two keys
(`EntriesDistinct`) and that a holder owns its mutex (`HolderOwns`). The lemmas
`JoinUsers` and `LeaveUsers` do the counting; one lemma per action follows. The
refinement takes each step to one of `AbstractKeyLock`, `Acquire` being the one
that needs the invariant: an unowned mutex means an unheld key.

`ObjectStoreProofs`: `Invariance`, and from it `ObjectsOwnTheirFiles`
(`FilesOfKey`), `SnapshotConfines` (`OnlyServedChange`) and `ProtectedSections`
(no two requests in the protected section of a key). `FilesOfKey` alone is not
inductive: a completion publishes the files of a session that other requests
filled earlier, so the same must hold of sessions and of requests under way
(`StagedFilesOfKey`), which in turn needs that a session keeps its key.
`OnlyServedChange` likewise needs a statement about sessions and requests
(`StagedServed`), because a completion never looks the bucket up: that it does not carry a
key of an earlier snapshot over a restart is what has to be shown. `LockHeld` ties the lock of a key to the places of
the requests. `CaptionsStay` (a message keeps the key it was sent for) and
`ObjectsKeepFiles` serve several actions; each action has its own lemma.

The files, in the same module: `Accounting` and from it `NothingLost`
(`NoUntrackedFile`); `LimitHolds` (`SessionsBounded`) and, under `ClockForward`,
`NewcomerStays` (`NewUploadUsable`). That a stored file is accounted for depends on
what each request may carry at its place (`Carries`): a completion carries copies
of the parts of a session that an abort, an eviction or a replacement may take
meanwhile, and these are settled then because whoever takes a part logs it. All
steps reduce to `HandedOn`: whatever leaves a request or a session is settled. An upload
that stores anything stores files that did not exist (`Uploaded`), and of these one goes
to the request and the copies are let go of (`Answered`). The
limit is inductive with the finiteness of the sessions (`CreateBounded`: one more,
and one fewer if that is too many); the newcomer is never the oldest, since at
least one session is older when the limit is reached.

The refinement, in the same module: `FilesApart` and from it `ImplementsAtomicObjects`
(`AtomicSpec`). The refinement needs that every write publishes files that no
earlier write has published. The invariant says where a file may be: with one
request and nowhere else after its upload (`Fresh`), in one session (`PartsApart`),
copied by one completion (`Copied`), and published while it is still in a session
only if the completion of that session is about to delete it (`PublishedParts`).
Two completions of one upload exclude each other by the lock of the key that the
session was opened for (`Completes`, with `LockHeld`), which is why the deletion
of the session has to come before the lock is given back. The refinement maps a
commit to `Write`, calls and returns to `Begin` and `Finish`, and all else but
deletes and restarts to stuttering.

`AdmissionProofs`: `Invariance` and from it `LimitsHold` (`CallsLimited`),
`ReleasesNeverBlock` and `OneWriterPerKey`. The invariant counts: the tokens of a
channel are the requests between acquire and release (`SlotsCount`, with the
cardinality of `Holders`), which bounds them by the limit and finds a token for
each release. Each action passes acquire, passes release, or does neither, for each
channel (`Joins`, `Leaves`, `Stays`), and `ChannelKept` counts once for all.

`TelegramUploadProofs`: `WholeFilesHold` (`WholeFiles` under `Prompt`), for any
number of attempts and blocks: only the goroutine of the last attempt reads, it
began at offset 0, and a pipe that was read to its end held the file (`OneReader`,
`SentWhole`).

`BucketsProofs`: `Invariance` and from it `SnapshotIsCurrent` (`ServedExist`),
`NoStrayRows` (`RowsHaveBucket`), `RemovalsSpareServed` (`OnlyOrphansRemoved`),
`LinksStayConfined` (`LinksConfined`) and `ClicksAreAnswers` (`ClicksCounted`), all
assuming `~Online`. None is inductive alone. What a start has done so far
(`StartInv`: the buckets upserted are as configured, and after `Disable` no other
is enabled) gives `ServedExist` at the snapshot; from there a request acts under
what its check found (`RequestInv`: a put's bucket is served, a removal's is
disabled and not served, the row a link request has read keeps its bucket),
because only a start changes what is enabled. `ServedIsEnabled` is the lemma most
steps rest on.

`RangeReadProofs`: `Invariance` and from it `ResponsesRight` (`RightBytes`) and
`LengthsKept` (`LengthKept`), for any chunks, empty ones included. `IInv` says that the
chunks of an object lie without gaps from 0 on, that those a `GET` has still to send go on
where the bytes sent end (`Joined`), and that what has been sent is a run of the version
that was opened (`Run`). The lemmas about `Selected` show that cutting the chunks to
a range leaves chunks that join from the first byte asked for to the last.

`ListingProofs`: `Invariance` and from it `WalksMissNothing` (`NothingMissed`),
`KeysInOrder` (`KeysAscend`), `LimitsKept` (`PagesWithinLimit`) and `PrefixesListedOnce`
(`PrefixesOnce`), for any keys and prefixes, limits, sizes of a query and numbers of
writes. `NothingMissed` speaks of a walk that has ended; the invariant says it of the
part behind the cursor (`ListedUpTo`). Each row of a query moves the cursor, because a
query leaves out no row between two others (`QueryOK`); a row whose prefix the page has
already moves it without an entry. That the next page may begin behind
the last prefix rests on `GroupAssumption`: a prefix that has been passed does
not come back (`PassedOK`).

`DavNamespaceProofs`: `Invariance`, `OverwritesRefused` (`OverwriteForbidden`) and,
for a bucket that is `Plain`, `RowsStayWhole` (`RowsWhole`) and `ImplementsTree`
(`TreeSpec`), for any tree, any number of requests and rows. `Plain` says that no
two names differ in case only and that no collection goes onto its own ancestor. It is
no assumption the code makes: `move_up` and `other_case` are
counterexamples without it, and section 6 has more. `OverwritesRefused` does without `Plain`: the
destination is looked up in the transaction, in each round, so that stale checks do no
harm (`ClashSeen`). For the others the loop has to amount to one simultaneous copy
(`CopiedAtOnce`), which follows from `TargetApart`: between two places of which none
lies below the other, nothing is copied over a row still to be copied. `IInv` keeps what
the checks have found about the two places until the transaction, which is what they
need to remember. The refinement maps each transaction to a step of `Tree` and
all else to stuttering. `ListingExists` says that any finite set of rows can
be listed in order, so that `TransferTree` is never disabled for want of a listing.

Model-checked only: all liveness (`WaiterServed`, `WritesReturn`, `DepartedReturn`,
`AllReturn`, `WalkEnds`, `UploadEnds`), because the prover does not reach fairness and
ENABLED. Every other property that a passing run checks is stated by a theorem.

## 5. Not modelled

* SigV4, web sessions, configuration, captions, upload strategy, routing, XML:
  stateless functions of one request, the configuration and the clock, where the
  data is the point. Their outcome is in the models: a refused request, a limit, a
  configured bucket.
* Two services over one database, and opening the database.
* The front end in `web`, which only calls the web API, and its lists of buckets and
  links, which are one query each.
* What a chunk of a download holds: that the bytes are those of the Telegram file is
  taken from Telegram, and a file that is shorter than its row says is only logged
  (`store/store.go:552`).
* WebDAV requests on the root and the properties that `PROPFIND` prints of a row.

## 6. Where the code and its documents disagree

Checked by runs that end in a counterexample:

* `late_part`: a part whose session vanished during its upload is refused without
  a log line, so nothing names its file (`store/store.go:285`); the multipart
  design promises that uploaded chunks are logged.
* `move_up`: a collection moved onto its ancestor is copied there and then
  deleted with everything under the source prefix; if the source holds a collection
  of its own name, that is where some copies went (`metadata/sqlite.go:395`).
* `other_case`: a recursive delete matches its prefix with `LIKE`, so deleting
  `a/` deletes `A/` too (`metadata/sqlite.go:898`).
* `rename_online`: after `bucket rename` under a running service, puts to the old
  name are accepted against the snapshot and create rows of a bucket that no
  longer exists (`store/store.go:132`), where the S3 design promises
  `NoSuchBucket` for a missing bucket.

Seen while modelling, and kept as remarks:

* `DeleteBucket` does not look at the row again in its transaction
  (`metadata/sqlite.go:417`). If a bucket is removed, and another renamed to its
  name under the running service, a second removal that was granted before
  removes the new one.
* `bucket rename --dry-run` does not look for the target in the metadata
  (`cmd/tgnas/main.go:404`), so it announces a renaming that the real run refuses; the
  design lists the check among the preconditions of a dry run
  (`docs/superpowers/specs/2026-05-25-tgnas-bucket-rename-design.md:42`).
* A client that stops reading keeps its Telegram slot (`store/store.go:552`). With
  the defaults, 16 downloads and 8 calls (`config/config.go:197`), eight such
  clients hold up every write; `admission` without `Room` violates `WritesReturn`.
* A `PUT` whose client has gone while it waits for the lock of its key returns only
  when it gets the lock (`store/locks.go:20` takes no context), and keeps its upload
  slot until then.
* A WebDAV `GET` sends the ETag and the date of the row it opened with bytes of the
  object as it is at the first read (`internal/dav/fs.go:430`).
* An upload whose answer is lost is repeated (`telegram/client.go:259`), up to three
  times, also when Telegram has stored the message. The call may then succeed with the last
  one; the others stay in the chat, and no object, session or log line names them.
* A listing matches its prefix with `LIKE` (`metadata/sqlite.go:234`); a key that
  differs in case is listed, and with a delimiter it is rolled up into the prefix of
  the request followed by its own first segment, under which nothing lies.
* Direct links do not follow a renaming (`metadata/sqlite.go:529`); they answer 404
  until a bucket of the old name is configured again, and then open its objects.
* `copyPrefixInTx` reads the metadata of all rows before its loop and the chunks of
  each row within it, when an earlier round may have written them over
  (`metadata/sqlite.go:874`). With `a/a/x` and `a/a/a/x`, copying `a/a/` to `a/` makes an
  `a/x` with the size and hash of the one and the chunks of the other; `isSubpath`
  refuses the other direction only (`internal/dav/handler.go:262`). Names that differ in
  case only do the same: copying `A/` to `a/` takes the rows of `a/` along
  (`metadata/sqlite.go:840`), writes `A/x` over `a/x` and pairs the old metadata of `a/x`
  with the new chunks under `a/a/x`. The proof of `RowsWhole` needs that nothing
  is copied over a row still to be copied, and failed here; `dav` with
  `Upwards = TRUE`, or with one name in two cases, violates `RowsWhole`.
* `CompleteMultipartUpload` deletes the session after the commit, in another
  section (`store/store.go:378-390`). An abort, an eviction or a replaced part in
  between logs files of the new object as orphans.
* `DeleteObject` does not take the key lock (`store/store.go:715`), although the
  S3 design says that puts and deletes of one key share it; `AtomicSpec` shows
  that the object is nevertheless always as one of them left it.
* A WebDAV `PUT` looks for a collection when it opens the file and stores it when
  it closes it (`internal/dav/fs.go:447`); a collection made in between stays
  beside the file.
* A ranged `GET` of an object that is replaced by a shorter one between the two
  reads sends fewer bytes than it announced (`internal/s3api/server.go:506`);
  hence the condition in `LengthKept`.
* The goroutine of a failed upload attempt may still move the shared offset when
  the next attempt has set it back (`telegram/client.go:212`); `telegram_upload`
  with `Prompt = FALSE` violates `WholeFiles`.

## 7. Plan

Done: all modules are checked, and every safety property, action property and
refinement of a passing run is proved.

What could follow: `Admission` composed with `ObjectStore`, so that a late part or an
eviction falls into a wait for a slot instead of between two steps of a request; the
`TransferTree` of a bucket that is not `Plain`, with a statement of what remains true
there (no row outside the destination changes, a copy that is refused changes
nothing); two services over one database, if that is ever supported.
