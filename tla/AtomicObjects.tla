----------------------------- MODULE AtomicObjects -----------------------------
(***************************************************************************)
(* What the object store promises its callers: an object changes in one     *)
(* step, at most once per request and only while the request runs; a failed *)
(* request has changed nothing; every write publishes files that no earlier *)
(* write has published, so nothing a client has deleted or replaced comes   *)
(* back.  ObjectStore implements it.                                        *)
(***************************************************************************)
CONSTANTS Clients, Keys, Files, None

VARIABLES
  objects,    \* objects[k] : the set of Telegram files of the object, or None
  published,  \* the files some write has made part of an object
  phase       \* phase[c]   : idle, working, done

vars == <<objects, published, phase>>

Init ==
  /\ objects = [k \in Keys |-> None]
  /\ published = {}
  /\ phase = [c \in Clients |-> "idle"]

Begin(c) ==
  /\ phase[c] = "idle"
  /\ phase' = [phase EXCEPT ![c] = "working"]
  /\ UNCHANGED <<objects, published>>

Write(c, k) ==
  /\ phase[c] = "working"
  /\ \E files \in SUBSET (Files \ published) :
       /\ objects' = [objects EXCEPT ![k] = files]
       /\ published' = published \cup files
  /\ \E p \in {"done", "idle"} : phase' = [phase EXCEPT ![c] = p]

\* From working the request has failed, from done it has succeeded.
Finish(c) ==
  /\ phase[c] # "idle"
  /\ phase' = [phase EXCEPT ![c] = "idle"]
  /\ UNCHANGED <<objects, published>>

Delete(k) ==
  /\ objects' = [objects EXCEPT ![k] = None]
  /\ UNCHANGED <<published, phase>>

Restart ==
  /\ phase' = [c \in Clients |-> "idle"]
  /\ UNCHANGED <<objects, published>>

Next ==
  \/ \E c \in Clients : Begin(c) \/ Finish(c) \/ \E k \in Keys : Write(c, k)
  \/ \E k \in Keys : Delete(k)
  \/ Restart

Spec == Init /\ [][Next]_vars
================================================================================
