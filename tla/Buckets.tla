-------------------------------- MODULE Buckets --------------------------------
(***************************************************************************)
(* The life of buckets and of the direct links into them: the start of the  *)
(* service (cmd/tgnas/main.go:766-904), which brings the table of buckets in *)
(* line with the configuration and keeps a snapshot of it, the requests that *)
(* rely on that snapshot, the removal of buckets that are configured no more *)
(* (store.go:136-150, dav/handler.go:105-111), "bucket rename" as a process  *)
(* of its own (main.go:359-419), and the links of internal/web.              *)
(*                                                                         *)
(* The configuration file may be edited at any time, so every process that   *)
(* reads it finds any valid one.  Objects are keys that are there or not.    *)
(***************************************************************************)
EXTENDS Naturals, FiniteSets

CONSTANTS
  Names,       \* of buckets
  Keys,        \* of objects in a bucket
  Chats,       \* Telegram chats
  Tokens,      \* of direct links, bounds the links
  Clients,     \* requests in flight
  MaxAnswers,  \* bound: responses per link
  Online,      \* TRUE iff buckets are renamed while the service runs
  None

Row == [chat : Chats, enabled : BOOLEAN]
LinkRow == [bucket : Names, key : Keys, over : BOOLEAN, clicks : Nat]

ASSUME NoneAssumption == None \notin Chats \cup (Names \X Names) \cup Row \cup LinkRow
ASSUME BoundsAssumption == MaxAnswers \in Nat /\ Online \in BOOLEAN

VARIABLES
  buckets,  \* table buckets: [chat, enabled] of each name, or None
  objects,  \* table objects: the keys under each name
  links,    \* table direct_links: the row of each token, or None
  service,  \* off, upsert, snapshot or serving; its configuration, the names still
            \* to upsert, and startupBuckets
  req,      \* what a request is about to do after its checks
  cli,      \* what "bucket rename" is about to do after its checks, or None
  answers,  \* history: responses to GETs of each link
  ticks     \* goroutines that will count a click of each link

vars == <<buckets, objects, links, service, req, cli, answers, ticks>>
linkVars == <<links, answers, ticks>>

\* config.Validate: at least one bucket, each with a chat.
Configs == {f \in [Names -> Chats \cup {None}] : \E n \in Names : f[n] # None}
NoConfig == [n \in Names |-> None]

Off == [at |-> "off", conf |-> NoConfig, left |-> {}, startup |-> {}]
Idle == [at |-> "idle", bucket |-> None, key |-> None, token |-> None]

Init ==
  /\ buckets = [n \in Names |-> None]
  /\ objects = [n \in Names |-> {}]
  /\ links = [t \in Tokens |-> None]
  /\ service = Off
  /\ req = [c \in Clients |-> Idle]
  /\ cli = None
  /\ answers = [t \in Tokens |-> 0]
  /\ ticks = [t \in Tokens |-> 0]

Enabled(n) == buckets[n] # None /\ buckets[n].enabled
Serving == service.at = "serving"
Served(n) == n \in service.startup      \* ObjectStore.HeadBucket
--------------------------------------------------------------------------------
(* The start of the service *)

Load(conf) ==
  /\ service.at = "off"
  /\ Online \/ cli = None
  /\ service' = [at |-> "upsert", conf |-> conf, left |-> {n \in Names : conf[n] # None}, startup |-> {}]
  /\ UNCHANGED <<buckets, objects, req, cli, linkVars>>

\* Deviation: a row that exists is left as it is.
UpsertNew(n) ==
  /\ service.at = "upsert" /\ n \in service.left
  /\ buckets' = IF buckets[n] # None THEN buckets
                ELSE [buckets EXCEPT ![n] = [chat |-> service.conf[n], enabled |-> TRUE]]
  /\ service' = [service EXCEPT !.left = @ \ {n}]
  /\ UNCHANGED <<objects, req, cli, linkVars>>

\* A round of the loop over the configured buckets, in the order of a Go map.
Upsert(n) ==
  /\ service.at = "upsert" /\ n \in service.left
  /\ buckets' = [buckets EXCEPT ![n] = [chat |-> service.conf[n], enabled |-> TRUE]]
  /\ service' = [service EXCEPT !.left = @ \ {n}]
  /\ UNCHANGED <<objects, req, cli, linkVars>>

\* DisableBucketsExcept.
Disable ==
  /\ service.at = "upsert" /\ service.left = {}
  /\ buckets' = [n \in Names |->
                   IF Enabled(n) /\ service.conf[n] = None THEN [buckets[n] EXCEPT !.enabled = FALSE]
                   ELSE buckets[n]]
  /\ service' = [service EXCEPT !.at = "snapshot"]
  /\ UNCHANGED <<objects, req, cli, linkVars>>

\* NewObjectStore takes the snapshot, and the service listens.
Snapshot ==
  /\ service.at = "snapshot"
  /\ service' = [service EXCEPT !.at = "serving", !.startup = {n \in Names : Enabled(n)}]
  /\ UNCHANGED <<buckets, objects, req, cli, linkVars>>

\* The process ends: an error of the start, a signal, a crash.
Stop ==
  /\ service.at # "off"
  /\ service' = Off
  /\ req' = [c \in Clients |-> Idle]
  /\ ticks' = [t \in Tokens |-> 0]
  /\ UNCHANGED <<buckets, objects, links, cli, answers>>
--------------------------------------------------------------------------------
(* Requests *)

Ask(c, what, n, k, t) ==
  /\ Serving
  /\ req[c].at = "idle"
  /\ req' = [req EXCEPT ![c] = [at |-> what, bucket |-> n, key |-> k, token |-> t]]

Return(c) == req' = [req EXCEPT ![c] = Idle]

\* An error on the way: nothing has changed.
Fail(c) ==
  /\ req[c].at # "idle"
  /\ Return(c)
  /\ UNCHANGED <<buckets, objects, service, cli, linkVars>>

\* Deviation: the bucket is not looked up.
PutCheckAny(c, n, k) ==
  /\ Ask(c, "put", n, k, None)
  /\ UNCHANGED <<buckets, objects, service, cli, linkVars>>

\* PutObject and CompleteMultipartUpload: the bucket is looked up in the
\* snapshot only, long before the commit.
PutCheck(c, n, k) ==
  /\ Served(n)
  /\ Ask(c, "put", n, k, None)
  /\ UNCHANGED <<buckets, objects, service, cli, linkVars>>

PutCommit(c) ==
  /\ req[c].at = "put"
  /\ objects' = [objects EXCEPT ![req[c].bucket] = @ \cup {req[c].key}]
  /\ Return(c)
  /\ UNCHANGED <<buckets, service, cli, linkVars>>

DeleteObject(n, k) ==
  /\ Serving /\ Served(n)
  /\ k \in objects[n]
  /\ objects' = [objects EXCEPT ![n] = @ \ {k}]
  /\ UNCHANGED <<buckets, service, req, cli, linkVars>>

\* Deviation: any bucket may be removed.
DeleteBucketCheckAny(c, n) ==
  /\ buckets[n] # None
  /\ Ask(c, "deleteBucket", n, None, None)
  /\ UNCHANGED <<buckets, objects, service, cli, linkVars>>

\* DeleteBucket, and WebDAV's DELETE of a bucket: a bucket in use is refused ...
DeleteBucketCheck(c, n) ==
  /\ buckets[n] # None /\ ~buckets[n].enabled
  /\ Ask(c, "deleteBucket", n, None, None)
  /\ UNCHANGED <<buckets, objects, service, cli, linkVars>>

\* Deviation: the rows of its objects stay behind.
DeleteBucketRowOnly(c) ==
  /\ req[c].at = "deleteBucket"
  /\ buckets' = [buckets EXCEPT ![req[c].bucket] = None]
  /\ Return(c)
  /\ UNCHANGED <<objects, service, cli, linkVars>>

\* ... and the rest happens in a transaction that does not look again
\* (sqlite.go:417-434).
DeleteBucket(c) ==
  /\ req[c].at = "deleteBucket"
  /\ buckets' = [buckets EXCEPT ![req[c].bucket] = None]
  /\ objects' = [objects EXCEPT ![req[c].bucket] = {}]
  /\ Return(c)
  /\ UNCHANGED <<service, cli, linkVars>>
--------------------------------------------------------------------------------
(* bucket rename *)

\* The target is configured, with the chat the source has (main.go:370-398).
RenameCheck(old, new, conf) ==
  /\ Online \/ service.at = "off"
  /\ cli = None
  /\ conf[new] # None
  /\ buckets[old] # None /\ buckets[old].chat = conf[new]
  /\ cli' = <<old, new>>
  /\ UNCHANGED <<buckets, objects, service, req, linkVars>>

\* RenameBucket: the row and its objects, unless a bucket of the new name
\* exists, or one of its keys does (sqlite.go:493-540).  Links stay as they are.
Rename(old, new) ==
  /\ cli = <<old, new>>
  /\ old # new /\ buckets[old] # None /\ buckets[new] = None
  /\ objects[old] \cap objects[new] = {}
  /\ buckets' = [buckets EXCEPT ![new] = buckets[old], ![old] = None]
  /\ objects' = [objects EXCEPT ![new] = @ \cup objects[old], ![old] = {}]
  /\ cli' = None
  /\ UNCHANGED <<service, req, linkVars>>

RenameFails ==
  /\ cli # None
  /\ cli' = None
  /\ UNCHANGED <<buckets, objects, service, req, linkVars>>
--------------------------------------------------------------------------------
(* Direct links *)

\* createLink, by itself or after an upload: the object is there ...
LinkCheck(c, n, k) ==
  /\ service.conf[n] # None
  /\ Served(n) /\ k \in objects[n]
  /\ Ask(c, "link", n, k, None)
  /\ UNCHANGED <<buckets, objects, service, cli, linkVars>>

\* ... and the row is inserted under a fresh token (api_files.go:205-229).
LinkInsert(c, t) ==
  /\ req[c].at = "link"
  /\ links[t] = None
  /\ links' = [links EXCEPT ![t] =
                 [bucket |-> req[c].bucket, key |-> req[c].key, over |-> FALSE, clicks |-> 0]]
  /\ Return(c)
  /\ UNCHANGED <<buckets, objects, service, cli, answers, ticks>>

\* It is revoked, or its time runs out.
LinkOver(t) ==
  /\ links[t] # None /\ ~links[t].over
  /\ links' = [links EXCEPT ![t].over = TRUE]
  /\ UNCHANGED <<buckets, objects, service, req, cli, answers, ticks>>

\* Deviation: the click is counted when the link is looked up.
FollowCounted(c, t) ==
  /\ links[t] # None /\ ~links[t].over
  /\ answers[t] < MaxAnswers /\ ticks[t] < MaxAnswers
  /\ Ask(c, "follow", links[t].bucket, links[t].key, t)
  /\ ticks' = [ticks EXCEPT ![t] = @ + 1]
  /\ UNCHANGED <<buckets, objects, service, cli, links, answers>>

\* A GET of the link: the row is read (shortlink.go:23-42) ...
Follow(c, t) ==
  /\ links[t] # None /\ ~links[t].over
  /\ Ask(c, "follow", links[t].bucket, links[t].key, t)
  /\ UNCHANGED <<buckets, objects, service, cli, linkVars>>

\* Deviation: the bucket is not looked up for a link.
AnswerUnserved(c) ==
  /\ req[c].at = "follow"
  /\ req[c].key \in objects[req[c].bucket]
  /\ answers[req[c].token] < MaxAnswers
  /\ answers' = [answers EXCEPT ![req[c].token] = @ + 1]
  /\ ticks' = [ticks EXCEPT ![req[c].token] = @ + 1]
  /\ Return(c)
  /\ UNCHANGED <<buckets, objects, links, service, cli>>

\* ... the object is served, as far as its bytes go, and a goroutine is left
\* behind that counts the click (shortlink.go:71-97).
Answer(c) ==
  /\ req[c].at = "follow"
  /\ Served(req[c].bucket) /\ req[c].key \in objects[req[c].bucket]
  /\ answers[req[c].token] < MaxAnswers
  /\ answers' = [answers EXCEPT ![req[c].token] = @ + 1]
  /\ ticks' = [ticks EXCEPT ![req[c].token] = @ + 1]
  /\ Return(c)
  /\ UNCHANGED <<buckets, objects, links, service, cli>>

\* It counts, or gives up after two seconds.
Tick(t) ==
  /\ ticks[t] > 0
  /\ ticks' = [ticks EXCEPT ![t] = @ - 1]
  /\ \E n \in {0, 1} : links' = [links EXCEPT ![t].clicks = @ + n]
  /\ UNCHANGED <<buckets, objects, service, req, cli, answers>>
--------------------------------------------------------------------------------
Service == (\E conf \in Configs : Load(conf)) \/ (\E n \in Names : Upsert(n)) \/ Disable \/ Snapshot \/ Stop

Object(c) ==
  \/ \E n \in Names, k \in Keys : PutCheck(c, n, k)
  \/ \E n \in Names : DeleteBucketCheck(c, n)
  \/ PutCommit(c) \/ DeleteBucket(c) \/ Fail(c)

Link(c) ==
  \/ \E n \in Names, k \in Keys : LinkCheck(c, n, k)
  \/ \E t \in Tokens : LinkInsert(c, t) \/ Follow(c, t)
  \/ Answer(c)

Command ==
  \/ \E old, new \in Names : Rename(old, new) \/ \E conf \in Configs : RenameCheck(old, new, conf)
  \/ RenameFails

Next ==
  \/ Service \/ Command
  \/ \E c \in Clients : Object(c) \/ Link(c)
  \/ \E n \in Names, k \in Keys : DeleteObject(n, k)
  \/ \E t \in Tokens : LinkOver(t) \/ Tick(t)

Spec == Init /\ [][Next]_vars
--------------------------------------------------------------------------------
(* What the operator relies on, as long as buckets are renamed offline *)

Request ==
  [at : {"idle", "put", "deleteBucket", "link", "follow"},
   bucket : Names \cup {None}, key : Keys \cup {None}, token : Tokens \cup {None}]

TypeOK ==
  /\ buckets \in [Names -> Row \cup {None}]
  /\ objects \in [Names -> SUBSET Keys]
  /\ links \in [Tokens -> LinkRow \cup {None}]
  /\ service \in [at : {"off", "upsert", "snapshot", "serving"}, conf : Configs \cup {NoConfig},
                  left : SUBSET Names, startup : SUBSET Names]
  /\ req \in [Clients -> Request]
  /\ cli \in (Names \X Names) \cup {None}
  /\ answers \in [Tokens -> Nat] /\ ticks \in [Tokens -> Nat]

\* A service that listens serves the configured buckets and no other, each
\* enabled in the table and with its configured chat, whatever starts broke off
\* half way before, were given another configuration or found buckets disabled
\* (main.go:800-815).  So its snapshot is as good as a look at the table.
ServedExist ==
  Serving =>
    \A n \in Names :
      /\ Served(n) <=> service.conf[n] # None
      /\ Served(n) => buckets[n] = [chat |-> service.conf[n], enabled |-> TRUE]

\* No object is left under a name without a bucket, where nothing would ever
\* serve or remove it.
RowsHaveBucket == \A n \in Names : objects[n] # {} => buckets[n] # None

\* A removal takes only what the service does not serve, although it decides
\* before its transaction (store.go:136-150;
\* docs/superpowers/specs/2026-05-23-tgnas-webdav-design.md:341-357).
OnlyOrphansRemoved ==
  [][\A n \in Names :
       buckets[n] # None /\ buckets'[n] = None /\ cli' = cli => ~buckets[n].enabled /\ ~Served(n)]_vars

\* A link gives access to no bucket that is gone or disabled, although it keeps
\* the name it was made with across removals, renamings and restarts.
LinksConfined ==
  [][\A t \in Tokens : answers'[t] # answers[t] => Enabled(links[t].bucket)]_vars

\* Clicks are responses that were given, however many goroutines count at once.
ClicksCounted == \A t \in Tokens : links[t] # None => links[t].clicks + ticks[t] <= answers[t]

\* Before the service listens there are no requests; the upserts done so far
\* and the disabling leave the table as the snapshot needs it.
StartInv ==
  /\ service.at # "serving" => service.startup = {} /\ \A c \in Clients : req[c].at = "idle"
  /\ service.at # "off" => cli = None /\ service.left \subseteq {n \in Names : service.conf[n] # None}
  /\ service.at # "off" =>
       \A n \in Names \ service.left :
         service.conf[n] # None => buckets[n] = [chat |-> service.conf[n], enabled |-> TRUE]
  /\ service.at \in {"snapshot", "serving"} =>
       service.left = {} /\ \A n \in Names : Enabled(n) => service.conf[n] # None

\* What the checks of a request r have found still holds when it acts.
Granted(r) ==
  /\ r.at # "idle" => r.bucket \in Names
  /\ r.at \in {"put", "link", "follow"} => r.key \in Keys
  /\ r.at = "put" => Served(r.bucket)
  /\ r.at = "deleteBucket" => ~Served(r.bucket) /\ ~Enabled(r.bucket)
  /\ r.at = "follow" =>
       r.token \in Tokens /\ links[r.token] # None /\ links[r.token].bucket = r.bucket

RequestInv == \A c \in Clients : Granted(req[c])

\* Only GETs of a link leave goroutines that count its clicks.
TicksOfLinks == \A t \in Tokens : links[t] = None => ticks[t] = 0

\* The inductive invariant, as long as buckets are renamed offline: a request
\* acts on what it found (main.go:800-815, store.go:112-150).
IInv ==
  /\ TypeOK
  /\ StartInv
  /\ ServedExist
  /\ RequestInv
  /\ RowsHaveBucket
  /\ ClicksCounted
  /\ TicksOfLinks
--------------------------------------------------------------------------------
(* What the design promises and does not keep when Online is TRUE *)

\* A put of a bucket that is not there is refused (store.go:131-137;
\* docs/superpowers/specs/2026-05-22-go-telegram-s3-design.md:356).
MissingRefused ==
  [][\A c \in Clients :
       req[c].at = "idle" /\ req'[c].at = "put" => buckets[req'[c].bucket] # None]_vars
================================================================================
