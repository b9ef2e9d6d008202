-------------------------- MODULE BrokerProperties --------------------------
(***************************************************************************)
(* What the broker and its thin clients must do together, stated over      *)
(* module Broker.                                                          *)
(***************************************************************************)
EXTENDS Broker

(* A call that succeeds returns the answer to its own request and, for a   *)
(* screenshot, its own image, although images carry no request id: the     *)
(* correlation of handle_text_frame and handle_binary_frame, with late     *)
(* answers, timeouts, lost frames and reconnects in between.               *)
AnswerMatchesRequest ==
  \A r \in Calls : outcome[r] = "ok" =>
    /\ future[r].body = r
    /\ future[r].image = IF r \in Screenshots THEN r ELSE None

(* A machine is registered under a connection that it opened itself, with  *)
(* the right key, and whose handler is still in its serving loop: no early *)
(* return of the handler leaves an entry behind (ws_server.handler).       *)
RegisteredIsServing ==
  \A m \in Machines : registered[m] # None =>
    /\ owner[registered[m]] = m
    /\ m \in Known
    /\ handler[registered[m]] = "serving"

(* The first frame after the handshake ack is the config push, whatever    *)
(* calls arrive meanwhile: a request that overtook it would be taken for   *)
(* the push and never answered (ws_server.handler, ws_client.run).         *)
ConfigComesFirst ==
  \A c \in Conns :
    /\ agent[c] = "config" /\ toAgent[c] # << >> => Head(toAgent[c]).kind = "config"
    /\ agent[c] = "idle" /\ toAgent[c] # << >> => Head(toAgent[c]).kind = "request"

(* On one connection commands are performed in the order in which the      *)
(* broker sent them, each once, with none left out: what was performed is  *)
(* a prefix of what was sent (_dispatch is sequential in ws_client.run).   *)
PerformedInOrder ==
  \A c \in Conns : \A i, j \in DOMAIN sent[c] :
    i < j => sent[c][i] # sent[c][j] /\ runs[sent[c][i]] >= runs[sent[c][j]]

(* A future that is done keeps its value: a late answer, a second answer,  *)
(* a disconnect or a timeout never overwrites it (the done() guards of     *)
(* unregister, handle_text_frame and handle_binary_frame, for which        *)
(* asyncio would raise InvalidStateError in the handler).                  *)
SettledOnce ==
  [][\A r \in Calls :
       future[r].state \notin {"none", "pending"} => future'[r] = future[r]]_vars

(* A machine leaves the registry only when the handler of the very         *)
(* connection it is registered under ends: the late exit of an older       *)
(* connection does not evict it (unregister and _current).                 *)
OnlyOwnExitEvicts ==
  [][\A m \in Machines :
       registered[m] # None /\ registered'[m] = None =>
         handler[registered[m]] = "serving" /\ handler'[registered[m]] = "done"]_vars

(* Every HTTP call that is accepted ends, even if the machine never        *)
(* answers, its connection is replaced, or its thin client is gone:        *)
(* request_timeout and unregister see to it (ConnectionRegistry.call).     *)
EveryCallEnds == \A r \in Calls : stage[r] = "sending" ~> stage[r] = "done"

(* A thin client that is gone does not stay listed: once nothing but the   *)
(* keepalive tells, the entry of its connection goes or is replaced.       *)
GoneMachineUnlisted ==
  \A m \in Machines, c \in Conns :
    registered[m] = c /\ agent[c] = "gone" ~> registered[m] # c

(* The broker implements the promise of module AtMostOnce.                 *)
Reply(r) ==
  CASE outcome[r] = "none" -> "none"
    [] outcome[r] = "not_connected" -> "refused"
    [] outcome[r] = "ok" -> "ok"
    [] outcome[r] = "machine_error" -> "error"
    [] OTHER -> "unknown"

Promise == INSTANCE AtMostOnce WITH
  reply <- [r \in Calls |-> Reply(r)],
  open <- {r \in Calls : stage[r] \in {"sending", "waiting"}}

(* Every command is performed at most once; an answer means it was         *)
(* performed; a refusal (404 before sending) means it never will be.       *)
ImplementsPromise == Promise!Spec

-----------------------------------------------------------------------------
(* Why an image is never given to the wrong call: the inductive invariant  *)
(* behind AnswerMatchesRequest, one connection at a time.                  *)

(* A handler that has not registered its connection awaits no image; one   *)
(* that has ended leaves a closed transport and an empty queue.            *)
HandlerPhase(c) ==
  /\ handler[c] \in {"none", "handshake", "monitors", "pushing"} => awaiting[c] = None
  /\ handler[c] = "none" => toBroker[c] = << >> /\ agent[c] = "none"
  /\ handler[c] = "done" => toBroker[c] = << >> /\ ~ up[c]

(* A connection that is served but has been replaced: its frames are       *)
(* ignored from then on, so what it awaits no longer matters.              *)
Replaced(c) == handler[c] = "serving" /\ ~ Current(c)

(* On the wire an image is right behind the metadata of the same request;  *)
(* at the head of the queue it is the one that is awaited, if any is.      *)
ImageFollowsMetadata(c) ==
  \A i \in DOMAIN toBroker[c] : toBroker[c][i].kind = "image" =>
    IF i = 1
    THEN Replaced(c) \/ awaiting[c] \in {None, toBroker[c][1].of}
    ELSE toBroker[c][i-1] = Frame("result", toBroker[c][i].of)

(* The metadata of a screenshot is followed by its image, or the image is  *)
(* yet to be sent, or no frame comes any more.                             *)
NoMoreFrames(c) == agent[c] = "gone" \/ ~ up[c]

MetadataThenImage(c) ==
  \A i \in DOMAIN toBroker[c] :
    toBroker[c][i].kind = "result" /\ toBroker[c][i].of \in Screenshots =>
      IF i < Len(toBroker[c])
      THEN toBroker[c][i+1] = Frame("image", toBroker[c][i].of)
      ELSE (agent[c] = "image" /\ job[c] = toBroker[c][i].of) \/ NoMoreFrames(c)

(* While an image is awaited the next frame is that image, or it is yet to *)
(* be sent, or no frame comes any more.                                    *)
AwaitedComesNext(c) ==
  handler[c] = "serving" /\ Current(c) /\ awaiting[c] # None =>
    /\ awaiting[c] \in Screenshots
    /\ IF toBroker[c] # << >>
       THEN Head(toBroker[c]) = Frame("image", awaiting[c])
       ELSE (agent[c] = "image" /\ job[c] = awaiting[c]) \/ NoMoreFrames(c)

(* A thin client about to send an image has just sent its metadata.        *)
MetadataSent(c) ==
  agent[c] = "image" /\ up[c] =>
    IF toBroker[c] # << >>
    THEN toBroker[c][Len(toBroker[c])] = Frame("result", job[c])
    ELSE Replaced(c) \/ awaiting[c] \in {None, job[c]}

WireInv(c) ==
  /\ HandlerPhase(c)
  /\ ImageFollowsMetadata(c)
  /\ MetadataThenImage(c)
  /\ AwaitedComesNext(c)
  /\ MetadataSent(c)

(* What a future holds is the answer to its own request, and only a call   *)
(* whose future holds a result succeeds.                                   *)
AnswerInv(r) ==
  /\ future[r].state = "result" =>
       /\ future[r].body = r
       /\ future[r].image = IF r \in Screenshots THEN r ELSE None
  /\ outcome[r] = "ok" => stage[r] = "done" /\ future[r].state = "result"

ImagesInv == (\A c \in Conns : WireInv(c)) /\ (\A r \in Calls : AnswerInv(r))

-----------------------------------------------------------------------------
(* Statements of the repository that the code does not keep.               *)

(* A connection never displaces a newer one of its machine: a stale        *)
(* connection "must not be allowed to act on a newer connection's state"   *)
(* (_current's comment).  register itself does not ask.                    *)
NewerConnectionKept ==
  [][\A m \in Machines :
       registered[m] # None /\ registered'[m] # None =>
         registered'[m] >= registered[m]]_vars
=============================================================================
