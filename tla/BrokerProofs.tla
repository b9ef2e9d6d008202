---------------------------- MODULE BrokerProofs ----------------------------
(***************************************************************************)
(* Proofs about module Broker, for every set of machines and calls and     *)
(* every number of connections.                                            *)
(***************************************************************************)
EXTENDS BrokerProperties, SequenceTheorems, TLAPS

USE KnownAssumption, MaxConnAssumption, CallsAssumption, NoneAssumption DEF Conns

(* A connection that nobody has opened is in its initial state.            *)
Unopened ==
  \A c \in Conns : owner[c] = None => agent[c] = "none" /\ handler[c] = "none"

TypeInv == TypeOK /\ Unopened

-----------------------------------------------------------------------------
(* The wires.                                                              *)

(* A queue is emptied.                                                     *)
LEMMA EmptyWire ==
  ASSUME NEW F, NEW queue \in [Conns -> Seq(F)], NEW c \in Conns
  PROVE  [queue EXCEPT ![c] = << >>] \in [Conns -> Seq(F)]
OBVIOUS

(* The frame at the head of a queue is taken.                              *)
LEMMA ReadWire ==
  ASSUME NEW F, NEW queue \in [Conns -> Seq(F)], NEW c \in Conns,
         queue[c] # << >>
  PROVE  /\ Head(queue[c]) \in F
         /\ [queue EXCEPT ![c] = Tail(@)] \in [Conns -> Seq(F)]
<1>1. queue[c] \in Seq(F)
  OBVIOUS
<1>2. Head(queue[c]) \in F /\ Tail(queue[c]) \in Seq(F)
  BY <1>1
<1> QED BY <1>2

(* A frame appended to a queue is its last; the others stay where they are. *)
LEMMA Appended ==
  ASSUME NEW F, NEW q \in Seq(F), NEW f \in F
  PROVE  /\ Append(q, f) # << >>
         /\ Len(q) \in Nat
         /\ DOMAIN q = 1..Len(q)
         /\ DOMAIN Append(q, f) = 1..(Len(q) + 1)
         /\ Len(Append(q, f)) = Len(q) + 1
         /\ Append(q, f)[Len(q) + 1] = f
         /\ \A i \in 1..Len(q) : Append(q, f)[i] = q[i]
         /\ q # << >> => Head(Append(q, f)) = q[1] /\ Head(q) = q[1] /\ 1 \in 1..Len(q)
         /\ q = << >> => Len(q) = 0 /\ Head(Append(q, f)) = f
BY AppendProperties, LenProperties, EmptySeq

(* Without its head a queue holds the other frames, one place earlier.     *)
LEMMA Consumed ==
  ASSUME NEW F, NEW q \in Seq(F), q # << >>
  PROVE  /\ Len(q) \in Nat \ {0}
         /\ DOMAIN q = 1..Len(q)
         /\ DOMAIN Tail(q) = 1..(Len(q) - 1)
         /\ Len(Tail(q)) = Len(q) - 1
         /\ \A i \in 1..(Len(q) - 1) : Tail(q)[i] = q[i + 1]
         /\ Head(q) = q[1]
         /\ Tail(q) = << >> <=> Len(q) = 1
         /\ Tail(q) # << >> => Head(Tail(q)) = q[2] /\ Len(q) > 1
<1>1. Len(q) \in Nat \ {0} /\ DOMAIN q = 1..Len(q) /\ Head(q) = q[1]
  BY HeadTailProperties, LenProperties, EmptySeq
<1>2. /\ Tail(q) \in Seq(F)
      /\ Len(Tail(q)) = Len(q) - 1
      /\ \A i \in 1..(Len(q) - 1) : Tail(q)[i] = q[i + 1]
  BY <1>1, HeadTailProperties
<1>3. DOMAIN Tail(q) = 1..(Len(q) - 1)
  BY <1>2, LenProperties
<1>4. Tail(q) = << >> <=> Len(q) = 1
  <2>1. Tail(q) # << >> => Len(Tail(q)) \in Nat \ {0}
    BY <1>2, EmptySeq
  <2>2. Len(<< >>) = 0
    BY EmptySeq
  <2> QED BY <1>1, <1>2, <2>1, <2>2
<1>5. ASSUME Tail(q) # << >> PROVE Head(Tail(q)) = q[2] /\ Len(q) > 1
  <2>1. Len(q) > 1
    BY <1>1, <1>4, <1>5
  <2>2. Head(Tail(q)) = Tail(q)[1]
    BY <1>2, <1>5, HeadTailProperties
  <2> QED BY <1>2, <2>1, <2>2
<1> QED BY <1>1, <1>2, <1>3, <1>4, <1>5

(* A frame is written to a connection, up or down.                         *)
LEMMA WriteWire ==
  ASSUME TypeOK, NEW F, NEW queue \in [Conns -> Seq(F)], NEW c \in Conns,
         NEW f \in F
  PROVE  WithFrame(queue, c, f) \in [Conns -> Seq(F)]
<1>1. queue[c] \in Seq(F)
  OBVIOUS
<1>2. Append(queue[c], f) \in Seq(F)
  BY <1>1
<1> QED BY <1>2 DEF WithFrame

(* Every frame the model builds is one of the protocol's.                  *)
LEMMA FrameTypes ==
  /\ Frame("hello", None) \in ToBrokerFrames
  /\ Frame("monitors", None) \in ToBrokerFrames
  /\ \A x \in Calls \cup {None} : /\ Frame("error", x) \in ToBrokerFrames
                                 /\ Frame("result", x) \in ToBrokerFrames
                                 /\ Frame("image", x) \in ToBrokerFrames
                                 /\ Frame("request", x) \in ToAgentFrames
  /\ Frame("ack", None) \in ToAgentFrames
  /\ Frame("nack", None) \in ToAgentFrames
  /\ Frame("config", None) \in ToAgentFrames
  /\ \A f \in ToBrokerFrames \cup ToAgentFrames : f.of \in Calls \cup {None}
BY DEF Frame, ToBrokerFrames, ToAgentFrames

(* Every future the model builds is one of Futures.                        *)
LEMMA FutureTypes ==
  \A s \in {"none", "pending", "result", "error", "gone", "cancelled"},
     b, i \in Calls \cup {None} : Future(s, b, i) \in Futures
BY DEF Future, Futures

-----------------------------------------------------------------------------
(* Types.                                                                  *)

(* The thin clients' steps keep the types.                                 *)
LEMMA AgentKeepsTypes ==
  ASSUME TypeInv, NEW c \in Conns, AgentStep(c)
  PROVE  TypeInv'
<1> USE DEF TypeInv, TypeOK, Unopened, vars, registryVars, callVars, handlerVars,
            agentVars, wireVars, historyVars
<1>1. CASE \E m \in Machines : AgentConnects(m, c)
  <2>1. <<Frame("hello", None)>> \in Seq(ToBrokerFrames)
    BY FrameTypes
  <2> QED BY <1>1, <2>1 DEF AgentConnects
<1>2. CASE AgentReportsMonitors(c)
  BY <1>2, ReadWire, WriteWire, FrameTypes DEF AgentReportsMonitors
<1>3. CASE AgentIsRejected(c)
  BY <1>3, EmptyWire DEF AgentIsRejected
<1>4. CASE AgentTakesConfig(c)
  BY <1>4, ReadWire DEF AgentTakesConfig
<1>5. CASE AgentTakesRequest(c)
  <2> DEFINE x == Head(toAgent[c]).of
  <2>1. x \in Calls \cup {None}
    BY <1>5, ReadWire, FrameTypes DEF AgentTakesRequest
  <2>2. runs' = [runs EXCEPT ![x] = @ + 1] /\ job' = [job EXCEPT ![c] = x]
    BY <1>5 DEF AgentTakesRequest
  <2> HIDE DEF x
  <2>4. job' \in [Conns -> Calls \cup {None}]
    BY <2>1, <2>2
  <2>5. runs' \in [Calls -> Nat]
    <3>1. \A y \in Calls : runs[y] \in Nat /\ runs[y] + 1 \in Nat
      OBVIOUS
    <3>2. CASE x \in Calls
      BY <2>2, <3>1, <3>2
    <3>3. CASE x \notin Calls
      BY <2>2, <3>3, Zenon
    <3> QED BY <3>2, <3>3
  <2>3. toAgent' \in [Conns -> Seq(ToAgentFrames)]
    BY <1>5, ReadWire DEF AgentTakesRequest
  <2> QED BY <1>5, <2>3, <2>4, <2>5 DEF AgentTakesRequest
<1>6. CASE AgentReportsError(c)
  BY <1>6, WriteWire, FrameTypes DEF AgentReportsError
<1>7. CASE AgentReportsResult(c)
  BY <1>7, WriteWire, FrameTypes DEF AgentReportsResult
<1>8. CASE AgentSendsImage(c)
  BY <1>8, WriteWire, FrameTypes DEF AgentSendsImage
<1>9. CASE AgentLost(c)
  BY <1>9, EmptyWire DEF AgentLost
<1> QED
  BY <1>1, <1>2, <1>3, <1>4, <1>5, <1>6, <1>7, <1>8, <1>9 DEF AgentStep

(* The handlers' steps keep the types.                                     *)
LEMMA HandlerKeepsTypes ==
  ASSUME TypeInv, NEW c \in Conns, HandlerStep(c)
  PROVE  TypeInv'
<1> USE DEF TypeInv, TypeOK, Unopened, vars, registryVars, callVars, handlerVars,
            agentVars, wireVars, historyVars
<1>1. CASE HandlerAccepts(c)
  BY <1>1, ReadWire, WriteWire, FrameTypes DEF HandlerAccepts
<1>2. CASE HandlerRejects(c)
  BY <1>2, EmptyWire, WriteWire, FrameTypes DEF HandlerRejects
<1>3. CASE HandlerPushesConfig(c)
  BY <1>3, ReadWire, WriteWire, FrameTypes DEF HandlerPushesConfig
<1>4. CASE HandlerRegisters(c)
  BY <1>4 DEF HandlerRegisters, MayRegister
<1>5. CASE HandlerQuits(c)
  BY <1>5, EmptyWire DEF HandlerQuits
<1>6. CASE HandlerTakesError(c)
  BY <1>6, ReadWire, FrameTypes, FutureTypes DEF HandlerTakesError, Addressee, Undone, Pending
<1>7. CASE HandlerTakesResult(c)
  <2>1. toBroker' \in [Conns -> Seq(ToBrokerFrames)]
    BY <1>7, ReadWire DEF HandlerTakesResult
  <2>2. Addressee(c) \in Calls
    BY <1>7 DEF HandlerTakesResult, Undone, Pending
  <2>3. Future("result", Head(toBroker[c]).of, None) \in Futures
    BY <1>7, ReadWire, FrameTypes, FutureTypes DEF HandlerTakesResult
  <2>4. future' \in [Calls -> Futures]
    BY <1>7, <2>2, <2>3 DEF HandlerTakesResult
  <2>5. awaiting' \in [Conns -> Calls \cup {None}]
    BY <1>7, <2>2 DEF HandlerTakesResult
  <2> QED BY <1>7, <2>1, <2>4, <2>5 DEF HandlerTakesResult
<1>8. CASE HandlerTakesImage(c)
  BY <1>8, ReadWire, FrameTypes, FutureTypes DEF HandlerTakesImage, Undone, Pending
<1>9. CASE HandlerIgnores(c)
  BY <1>9, ReadWire DEF HandlerIgnores
<1>10. CASE HandlerExits(c)
  <2>1. toBroker' \in [Conns -> Seq(ToBrokerFrames)]
    BY <1>10, EmptyWire DEF HandlerExits
  <2>2. registered' \in [Machines -> Conns \cup {None}]
    BY <1>10 DEF HandlerExits, Unregister
  <2>3. Future("gone", None, None) \in Futures
    BY FutureTypes
  <2>4. future' \in [Calls -> Futures]
    <3>1. CASE Current(c)
      <4>1. future' = [y \in Calls |-> IF y \in Undone(c)
                                       THEN Future("gone", None, None)
                                       ELSE future[y]]
        BY <1>10, <3>1 DEF HandlerExits, Unregister
      <4> QED BY <4>1, <2>3
    <3>2. CASE ~ Current(c)
      BY <1>10, <3>2 DEF HandlerExits, Unregister
    <3> QED BY <3>1, <3>2
  <2> QED BY <1>10, <2>1, <2>2, <2>4 DEF HandlerExits
<1> QED
  BY <1>1, <1>2, <1>3, <1>4, <1>5, <1>6, <1>7, <1>8, <1>9, <1>10 DEF HandlerStep

(* The HTTP calls' steps keep the types.                                   *)
LEMMA CallKeepsTypes ==
  ASSUME TypeInv, NEW r \in Calls, CallStep(r)
  PROVE  TypeInv'
<1> USE DEF TypeInv, TypeOK, Unopened, vars, registryVars, callVars, handlerVars,
            agentVars, wireVars, historyVars
<1>1. CASE CallRefused(r)
  BY <1>1 DEF CallRefused, Ends
<1>2. CASE CallStarts(r)
  <2> DEFINE d == registered[Target[r]]
  <2>1. d \in Conns
    BY <1>2 DEF CallStarts
  <2>2. toAgent' \in [Conns -> Seq(ToAgentFrames)]
    BY <1>2, <2>1, WriteWire, FrameTypes DEF CallStarts
  <2>3. Append(sent[d], r) \in Seq(Calls)
    BY <2>1
  <2>4. sent' \in [Conns -> Seq(Calls)]
    BY <1>2, <2>1, <2>3 DEF CallStarts
  <2>5. future' \in [Calls -> Futures]
    BY <1>2, FutureTypes DEF CallStarts
  <2> QED BY <1>2, <2>1, <2>2, <2>4, <2>5 DEF CallStarts
<1>3. CASE CallSent(r)
  BY <1>3 DEF CallSent
<1>4. CASE CallSendFails(r)
  BY <1>4 DEF CallSendFails, Ends
<1>5. CASE CallAnswered(r)
  <2>1. \E how \in {"ok", "machine_error", "disconnected"} : Ends(r, how)
    BY <1>5 DEF CallAnswered
  <2> QED BY <1>5, <2>1 DEF CallAnswered, Ends
<1>6. CASE CallExpires(r)
  BY <1>6, FutureTypes DEF CallExpires
<1>7. CASE CallTimesOut(r)
  BY <1>7 DEF CallTimesOut, Ends
<1> QED
  BY <1>1, <1>2, <1>3, <1>4, <1>5, <1>6, <1>7 DEF CallStep

(* TypeInv is inductive.                                                   *)
LEMMA TypeInvInductive ==
  /\ Init => TypeInv
  /\ TypeInv /\ [Next]_vars => TypeInv'
<1>1. Init => TypeInv
  BY FutureTypes DEF Init, TypeInv, TypeOK, Unopened
<1>2. ASSUME TypeInv, [Next]_vars PROVE TypeInv'
  <2>1. CASE UNCHANGED vars
    BY <1>2, <2>1 DEF TypeInv, TypeOK, Unopened, vars, registryVars, callVars,
       handlerVars, agentVars, wireVars, historyVars
  <2>2. ASSUME NEW c \in Conns, TransportLost(c) PROVE TypeInv'
    BY <1>2, <2>2 DEF TransportLost, TypeInv, TypeOK, Unopened, registryVars,
       callVars, handlerVars, agentVars, wireVars, historyVars
  <2> QED
    BY <1>2, <2>1, <2>2, AgentKeepsTypes, HandlerKeepsTypes, CallKeepsTypes DEF Next
<1> QED BY <1>1, <1>2

(* Every variable stays in its domain: the frames on the wires are frames  *)
(* of the protocol, the futures, calls, handlers and thin clients are in   *)
(* one of their states, and every id names a connection or a call.         *)
THEOREM TypeCorrect == Spec => []TypeOK
<1>1. TypeInv => TypeOK
  BY DEF TypeInv
<1> QED BY <1>1, TypeInvInductive, PTL DEF Spec

-----------------------------------------------------------------------------
(* Images.                                                                 *)

(* A step keeps WireInv of a connection whose queue, handler and awaited   *)
(* image it leaves alone, if the connection does not come back up or       *)
(* become the registered one and its thin client neither starts nor ends   *)
(* sending an image.                                                       *)
Untouched(d) ==
  /\ toBroker'[d] = toBroker[d]
  /\ awaiting'[d] = awaiting[d]
  /\ handler'[d] = handler[d]
  /\ up'[d] => up[d]
  /\ handler[d] = "serving" /\ Current(d)' => Current(d)
  /\ \/ agent'[d] = agent[d] /\ job'[d] = job[d]
     \/ /\ agent[d] \notin {"none", "gone"}
        /\ agent'[d] # "image"
        /\ agent[d] = "image" => agent'[d] = "gone"

(* A step that does not touch a connection keeps its WireInv.              *)
LEMMA UntouchedKept ==
  ASSUME NEW d \in Conns, WireInv(d), Untouched(d)
  PROVE  WireInv(d)'
<1> USE DEF WireInv, Untouched, Replaced, NoMoreFrames
<1>1. HandlerPhase(d)'
  BY DEF HandlerPhase
<1>2. ImageFollowsMetadata(d)'
  BY DEF ImageFollowsMetadata
<1>3. MetadataThenImage(d)'
  BY DEF MetadataThenImage
<1>4. AwaitedComesNext(d)'
  BY DEF AwaitedComesNext
<1>5. MetadataSent(d)'
  BY DEF MetadataSent
<1> QED BY <1>1, <1>2, <1>3, <1>4, <1>5

(* The thin client writes a frame that is no image.                        *)
LEMMA FrameSent ==
  ASSUME TypeInv, NEW c \in Conns, WireInv(c), NEW f \in ToBrokerFrames,
         toBroker' = WithFrame(toBroker, c, f),
         f.kind # "image",
         agent[c] \notin {"none", "image", "gone"},
         awaiting'[c] = awaiting[c], handler'[c] = handler[c], up'[c] = up[c],
         handler[c] = "serving" /\ Current(c)' => Current(c),
         agent'[c] = "image" => f = Frame("result", job'[c]),
         f.kind = "result" /\ f.of \in Screenshots =>
           agent'[c] = "image" /\ f.of = job'[c]
  PROVE  WireInv(c)'
<1> DEFINE q == toBroker[c]
<1>1. q \in Seq(ToBrokerFrames) /\ up[c] \in BOOLEAN
  BY DEF TypeInv, TypeOK
<1>2. /\ Append(q, f) # << >>
      /\ Len(q) \in Nat
      /\ DOMAIN q = 1..Len(q)
      /\ DOMAIN Append(q, f) = 1..(Len(q) + 1)
      /\ Len(Append(q, f)) = Len(q) + 1
      /\ Append(q, f)[Len(q) + 1] = f
      /\ \A i \in 1..Len(q) : Append(q, f)[i] = q[i]
      /\ q # << >> => Head(Append(q, f)) = q[1] /\ Head(q) = q[1] /\ 1 \in 1..Len(q)
      /\ q = << >> => Len(q) = 0 /\ Head(Append(q, f)) = f
  <2> HIDE DEF q
  <2> QED BY <1>1, Appended
<1> USE DEF TypeInv, TypeOK, WireInv, Replaced, NoMoreFrames, WithFrame
<1>3. CASE ~ up[c]
  <2>1. toBroker'[c] = q
    BY <1>3
  <2>2. HandlerPhase(c)' /\ ImageFollowsMetadata(c)'
    BY <1>3, <2>1 DEF HandlerPhase, ImageFollowsMetadata
  <2>3. MetadataThenImage(c)'
    BY <1>3, <2>1 DEF MetadataThenImage
  <2>4. AwaitedComesNext(c)' /\ MetadataSent(c)'
    BY <1>3, <2>1 DEF AwaitedComesNext, MetadataSent
  <2> QED BY <2>2, <2>3, <2>4
<1>4. CASE up[c]
  <2>1. toBroker'[c] = Append(q, f)
    BY <1>4
  <2>2. HandlerPhase(c)'
    BY <1>4, <2>1 DEF HandlerPhase
  <2>3. ImageFollowsMetadata(c)'
    <3> SUFFICES ASSUME NEW i \in DOMAIN toBroker'[c], toBroker'[c][i].kind = "image"
                 PROVE  IF i = 1
                        THEN Replaced(c)' \/ awaiting'[c] \in {None, toBroker'[c][1].of}
                        ELSE toBroker'[c][i-1] = Frame("result", toBroker'[c][i].of)
      BY DEF ImageFollowsMetadata, Frame
    <3>1. i \in 1..Len(q) /\ toBroker'[c][i] = q[i] /\ 1 \in 1..Len(q)
      BY <1>2, <2>1 DEF Frame
    <3>2. i # 1 => i - 1 \in 1..Len(q) /\ toBroker'[c][i-1] = q[i-1]
      BY <1>2, <2>1, <3>1
    <3>3. toBroker'[c][1] = q[1] /\ i \in DOMAIN q
      BY <1>2, <2>1, <3>1
    <3>4. IF i = 1 THEN Replaced(c) \/ awaiting[c] \in {None, q[1].of}
          ELSE q[i-1] = Frame("result", q[i].of)
      BY <3>1, <3>3 DEF ImageFollowsMetadata
    <3>5. Replaced(c) => Replaced(c)'
      OBVIOUS
    <3>6. CASE i = 1
      BY <3>3, <3>4, <3>5, <3>6
    <3>7. CASE i # 1
      BY <3>1, <3>2, <3>4, <3>7
    <3> QED BY <3>6, <3>7
  <2>4. MetadataThenImage(c)'
    <3> SUFFICES ASSUME NEW i \in DOMAIN toBroker'[c], toBroker'[c][i].kind = "result",
                        toBroker'[c][i].of \in Screenshots
                 PROVE  IF i < Len(toBroker'[c])
                        THEN toBroker'[c][i+1] = Frame("image", toBroker'[c][i].of)
                        ELSE \/ agent'[c] = "image" /\ job'[c] = toBroker'[c][i].of
                             \/ NoMoreFrames(c)'
      BY DEF MetadataThenImage, Frame
    <3>1. CASE i = Len(q) + 1
      BY <1>2, <2>1, <3>1
    <3>2. CASE i \in 1..Len(q)
      <4>1. q[i].kind = "result" /\ q[i].of \in Screenshots /\ i \in DOMAIN q
        BY <1>2, <2>1, <3>2
      <4>2. i < Len(q) /\ q[i+1] = Frame("image", q[i].of)
        BY <1>2, <1>4, <3>2, <4>1 DEF MetadataThenImage
      <4> QED BY <1>2, <2>1, <3>2, <4>2
    <3>3. i \in 1..Len(q) \/ i = Len(q) + 1
      <4>1. i \in 1..(Len(q) + 1)
        BY <1>2, <2>1
      <4> QED BY <1>2, <4>1
    <3> QED BY <3>1, <3>2, <3>3
  <2>5. AwaitedComesNext(c)'
    BY <1>2, <1>4, <2>1 DEF AwaitedComesNext
  <2>6. MetadataSent(c)'
    BY <1>2, <2>1 DEF MetadataSent
  <2> QED BY <2>2, <2>3, <2>4, <2>5, <2>6
<1> QED BY <1>1, <1>3, <1>4

(* The thin client writes the image of its job.                            *)
LEMMA ImageSent ==
  ASSUME TypeInv, NEW c \in Conns, WireInv(c), AgentSendsImage(c)
  PROVE  WireInv(c)'
<1> DEFINE q == toBroker[c]
           f == Frame("image", job[c])
<1>1. q \in Seq(ToBrokerFrames) /\ up[c] \in BOOLEAN /\ f \in ToBrokerFrames
  BY FrameTypes DEF TypeInv, TypeOK
<1>2. /\ Append(q, f) # << >>
      /\ Len(q) \in Nat
      /\ DOMAIN q = 1..Len(q)
      /\ DOMAIN Append(q, f) = 1..(Len(q) + 1)
      /\ Len(Append(q, f)) = Len(q) + 1
      /\ Append(q, f)[Len(q) + 1] = f
      /\ \A i \in 1..Len(q) : Append(q, f)[i] = q[i]
      /\ q # << >> => Head(Append(q, f)) = q[1] /\ Head(q) = q[1] /\ 1 \in 1..Len(q)
      /\ q = << >> => Len(q) = 0 /\ Head(Append(q, f)) = f
  <2> HIDE DEF q, f
  <2> QED BY <1>1, Appended
<1>5. /\ agent[c] = "image" /\ agent'[c] = "idle"
      /\ toBroker'[c] = IF up[c] THEN Append(q, f) ELSE q
      /\ awaiting'[c] = awaiting[c] /\ handler'[c] = handler[c] /\ up'[c] = up[c]
      /\ Current(c)' = Current(c)
  BY DEF AgentSendsImage, WithFrame, TypeInv, TypeOK, registryVars, handlerVars, Current
<1> USE DEF WireInv, Replaced, NoMoreFrames
<1>3. CASE ~ up[c]
  <2>1. HandlerPhase(c)' /\ ImageFollowsMetadata(c)'
    BY <1>3, <1>5 DEF HandlerPhase, ImageFollowsMetadata
  <2>2. MetadataThenImage(c)'
    BY <1>3, <1>5 DEF MetadataThenImage
  <2>3. AwaitedComesNext(c)' /\ MetadataSent(c)'
    BY <1>3, <1>5 DEF AwaitedComesNext, MetadataSent
  <2> QED BY <2>1, <2>2, <2>3
<1>4. CASE up[c]
  <2>1. toBroker'[c] = Append(q, f)
    BY <1>4, <1>5
  <2>2. IF q # << >> THEN q[Len(q)] = Frame("result", job[c])
                     ELSE Replaced(c) \/ awaiting[c] \in {None, job[c]}
    BY <1>4, <1>5 DEF MetadataSent
  <2>3. HandlerPhase(c)'
    BY <1>4, <1>5 DEF HandlerPhase
  <2>4. ImageFollowsMetadata(c)'
    <3> SUFFICES ASSUME NEW i \in DOMAIN toBroker'[c], toBroker'[c][i].kind = "image"
                 PROVE  IF i = 1
                        THEN Replaced(c)' \/ awaiting'[c] \in {None, toBroker'[c][1].of}
                        ELSE toBroker'[c][i-1] = Frame("result", toBroker'[c][i].of)
      BY DEF ImageFollowsMetadata, Frame
    <3>1. CASE i = Len(q) + 1
      BY <1>2, <1>5, <2>1, <2>2, <3>1 DEF Frame
    <3>2. CASE i \in 1..Len(q)
      <4>1. q[i].kind = "image" /\ i \in DOMAIN q
        BY <1>2, <2>1, <3>2
      <4>2. /\ toBroker'[c][i] = q[i] /\ toBroker'[c][1] = q[1]
            /\ i # 1 => toBroker'[c][i-1] = q[i-1]
        BY <1>2, <2>1, <3>2
      <4> QED BY <1>5, <4>1, <4>2 DEF ImageFollowsMetadata
    <3> QED BY <1>2, <2>1, <3>1, <3>2
  <2>5. MetadataThenImage(c)'
    <3> SUFFICES ASSUME NEW i \in DOMAIN toBroker'[c], toBroker'[c][i].kind = "result",
                        toBroker'[c][i].of \in Screenshots
                 PROVE  /\ i < Len(toBroker'[c])
                        /\ toBroker'[c][i+1] = Frame("image", toBroker'[c][i].of)
      BY DEF MetadataThenImage, Frame
    <3>1. i \in 1..Len(q) /\ toBroker'[c][i] = q[i] /\ i \in DOMAIN q
      BY <1>2, <2>1 DEF Frame
    <3>2. CASE i < Len(q)
      <4>1. q[i+1] = Frame("image", q[i].of)
        BY <3>1, <3>2 DEF MetadataThenImage
      <4> QED BY <1>2, <2>1, <3>1, <3>2, <4>1
    <3>3. CASE i = Len(q)
      BY <1>2, <2>1, <2>2, <3>1, <3>3 DEF Frame
    <3> QED BY <1>2, <3>1, <3>2, <3>3
  <2>6. AwaitedComesNext(c)'
    BY <1>2, <1>4, <1>5, <2>1, <2>2 DEF AwaitedComesNext
  <2>7. MetadataSent(c)'
    BY <1>5 DEF MetadataSent
  <2> QED BY <2>3, <2>4, <2>5, <2>6, <2>7
<1> QED BY <1>1, <1>3, <1>4

(* The handler takes a frame off the queue.  If it is metadata, its image  *)
(* is awaited afterwards or nothing is, unless the connection is replaced. *)
LEMMA FrameRead ==
  ASSUME TypeInv, NEW c \in Conns, WireInv(c),
         toBroker[c] # << >>,
         toBroker'[c] = Tail(toBroker[c]),
         agent'[c] = agent[c], job'[c] = job[c], up'[c] = up[c],
         handler[c] \notin {"none", "done"},
         handler'[c] \notin {"none", "done"},
         handler'[c] # "serving" => awaiting'[c] = None,
         Head(toBroker[c]).kind = "result" =>
           Replaced(c)' \/ awaiting'[c] \in {None, Head(toBroker[c]).of},
         handler'[c] = "serving" /\ Current(c)' /\ awaiting'[c] # None =>
           /\ Head(toBroker[c]) = Frame("result", awaiting'[c])
           /\ awaiting'[c] \in Screenshots
  PROVE  WireInv(c)'
<1> DEFINE q == toBroker[c]
<1>1. q \in Seq(ToBrokerFrames) /\ q # << >>
  BY DEF TypeInv, TypeOK
<1>2. /\ Len(q) \in Nat \ {0}
      /\ DOMAIN q = 1..Len(q)
      /\ DOMAIN Tail(q) = 1..(Len(q) - 1)
      /\ Len(Tail(q)) = Len(q) - 1
      /\ \A i \in 1..(Len(q) - 1) : Tail(q)[i] = q[i + 1]
      /\ Head(q) = q[1]
      /\ Tail(q) = << >> <=> Len(q) = 1
      /\ Tail(q) # << >> => Head(Tail(q)) = q[2] /\ Len(q) > 1
  <2> HIDE DEF q
  <2> QED BY <1>1, Consumed
<1> USE DEF WireInv, NoMoreFrames
<1>3. HandlerPhase(c)'
  BY DEF HandlerPhase
<1>4. ImageFollowsMetadata(c)'
  <2> SUFFICES ASSUME NEW i \in DOMAIN Tail(q), Tail(q)[i].kind = "image"
               PROVE  IF i = 1
                      THEN Replaced(c)' \/ awaiting'[c] \in {None, Tail(q)[1].of}
                      ELSE Tail(q)[i-1] = Frame("result", Tail(q)[i].of)
    BY DEF ImageFollowsMetadata, Frame
  <2>1. i \in 1..(Len(q) - 1) /\ Tail(q)[i] = q[i+1] /\ i + 1 \in DOMAIN q /\ i + 1 # 1
    BY <1>2
  <2>2. q[i] = Frame("result", q[i+1].of)
    <3>1. (i + 1) - 1 = i
      BY <2>1
    <3> QED BY <2>1, <3>1 DEF ImageFollowsMetadata
  <2>3. CASE i = 1
    BY <1>2, <2>1, <2>2, <2>3 DEF Frame
  <2>4. CASE i # 1
    <3>1. Tail(q)[i-1] = q[i]
      <4>1. i - 1 \in 1..(Len(q) - 1) /\ (i - 1) + 1 = i
        BY <1>2, <2>1, <2>4
      <4> QED BY <1>2, <4>1
    <3> QED BY <2>1, <2>2, <2>4, <3>1
  <2> QED BY <2>3, <2>4
<1>5. MetadataThenImage(c)'
  <2> SUFFICES ASSUME NEW i \in DOMAIN Tail(q), Tail(q)[i].kind = "result",
                      Tail(q)[i].of \in Screenshots
               PROVE  IF i < Len(Tail(q))
                      THEN Tail(q)[i+1] = Frame("image", Tail(q)[i].of)
                      ELSE (agent[c] = "image" /\ job[c] = Tail(q)[i].of) \/ NoMoreFrames(c)
    BY DEF MetadataThenImage, Frame
  <2>1. i \in 1..(Len(q) - 1) /\ Tail(q)[i] = q[i+1] /\ i + 1 \in DOMAIN q
    BY <1>2
  <2>2. IF i + 1 < Len(q)
        THEN q[(i+1)+1] = Frame("image", q[i+1].of)
        ELSE (agent[c] = "image" /\ job[c] = q[i+1].of) \/ NoMoreFrames(c)
    BY <2>1 DEF MetadataThenImage
  <2>3. i < Len(Tail(q)) => i + 1 < Len(q) /\ Tail(q)[i+1] = q[(i+1)+1]
    BY <1>2, <2>1
  <2>4. ~ (i < Len(Tail(q))) => ~ (i + 1 < Len(q))
    BY <1>2, <2>1
  <2> QED BY <2>1, <2>2, <2>3, <2>4
<1>6. AwaitedComesNext(c)'
  <2> SUFFICES ASSUME handler'[c] = "serving", Current(c)', awaiting'[c] # None
               PROVE  /\ awaiting'[c] \in Screenshots
                      /\ IF Tail(q) # << >>
                         THEN Head(Tail(q)) = Frame("image", awaiting'[c])
                         ELSE \/ agent[c] = "image" /\ job[c] = awaiting'[c]
                              \/ NoMoreFrames(c)
    BY DEF AwaitedComesNext
  <2>1. q[1] = Frame("result", awaiting'[c]) /\ awaiting'[c] \in Screenshots
    BY <1>2
  <2>2. IF 1 < Len(q)
        THEN q[2] = Frame("image", awaiting'[c])
        ELSE (agent[c] = "image" /\ job[c] = awaiting'[c]) \/ NoMoreFrames(c)
    <3>1. 1 \in DOMAIN q /\ 1 + 1 = 2
      BY <1>2
    <3>2. q[1].kind = "result" /\ q[1].of = awaiting'[c]
      BY <2>1 DEF Frame
    <3>3. IF 1 < Len(q)
          THEN q[1 + 1] = Frame("image", q[1].of)
          ELSE (agent[c] = "image" /\ job[c] = q[1].of) \/ NoMoreFrames(c)
      BY <2>1, <3>1, <3>2 DEF MetadataThenImage
    <3> QED BY <3>1, <3>2, <3>3
  <2> QED BY <1>2, <2>1, <2>2
<1>7. MetadataSent(c)'
  <2> SUFFICES ASSUME agent[c] = "image", up[c]
               PROVE  IF Tail(q) # << >>
                      THEN Tail(q)[Len(Tail(q))] = Frame("result", job[c])
                      ELSE Replaced(c)' \/ awaiting'[c] \in {None, job[c]}
    BY DEF MetadataSent
  <2>1. q[Len(q)] = Frame("result", job[c])
    BY <1>1 DEF MetadataSent
  <2>2. CASE Tail(q) # << >>
    <3>1. Tail(q)[Len(q) - 1] = q[(Len(q) - 1) + 1] /\ (Len(q) - 1) + 1 = Len(q)
      BY <1>2, <2>2
    <3> QED BY <1>2, <2>1, <2>2, <3>1
  <2>3. CASE Tail(q) = << >>
    BY <1>2, <2>1, <2>3 DEF Frame
  <2> QED BY <2>2, <2>3
<1> QED BY <1>3, <1>4, <1>5, <1>6, <1>7

Wired == \A c \in Conns : WireInv(c)

(* Every step of a thin client keeps WireInv on every connection.          *)
LEMMA AgentKeepsWires ==
  ASSUME TypeInv, Wired, NEW c \in Conns, AgentStep(c)
  PROVE  Wired'
<1> USE DEF TypeInv, TypeOK, registryVars, callVars, handlerVars, agentVars,
            wireVars, historyVars
<1>1. WireInv(c)
  BY DEF Wired
<1>2. ASSUME NEW d \in Conns, d # c PROVE WireInv(d)'
  <2>1. Untouched(d)
    <3>1. CASE \E m \in Machines : AgentConnects(m, c)
      BY <1>2, <3>1 DEF AgentConnects, Untouched, Current
    <3>2. CASE AgentReportsMonitors(c) \/ AgentReportsError(c)
      <4>1. PICK f : toBroker' = WithFrame(toBroker, c, f)
        BY <3>2 DEF AgentReportsMonitors, AgentReportsError
      <4>2. toBroker'[d] = toBroker[d]
        BY <1>2, <4>1 DEF WithFrame
      <4> QED BY <1>2, <3>2, <4>2 DEF AgentReportsMonitors, AgentReportsError,
                 Untouched, Current
    <3>3. CASE AgentReportsResult(c) \/ AgentSendsImage(c)
      <4>1. PICK f : toBroker' = WithFrame(toBroker, c, f)
        BY <3>3 DEF AgentReportsResult, AgentSendsImage
      <4>2. toBroker'[d] = toBroker[d]
        BY <1>2, <4>1 DEF WithFrame
      <4> QED BY <1>2, <3>3, <4>2 DEF AgentReportsResult, AgentSendsImage,
                 Untouched, Current
    <3>4. CASE AgentIsRejected(c) \/ AgentTakesConfig(c)
      BY <1>2, <3>4 DEF AgentIsRejected, AgentTakesConfig, Untouched, Current
    <3>5. CASE AgentTakesRequest(c) \/ AgentLost(c)
      BY <1>2, <3>5 DEF AgentTakesRequest, AgentLost, Untouched, Current
    <3> QED BY <3>1, <3>2, <3>3, <3>4, <3>5 DEF AgentStep
  <2> QED BY <1>2, <2>1, UntouchedKept DEF Wired
<1>3. WireInv(c)'
  <2>1. CASE \E m \in Machines : AgentConnects(m, c)
    <3>1. handler[c] = "none"
      BY <2>1 DEF AgentConnects, Unopened
    <3>2. /\ toBroker'[c] = <<Frame("hello", None)>> /\ awaiting'[c] = None
          /\ handler'[c] = "handshake" /\ agent'[c] = "hello"
      BY <1>1, <2>1, <3>1 DEF AgentConnects, WireInv, HandlerPhase
    <3> QED BY <3>2 DEF WireInv, HandlerPhase, ImageFollowsMetadata, MetadataThenImage,
               AwaitedComesNext, MetadataSent, Frame
  <2>2. CASE AgentReportsMonitors(c)
    BY <1>1, <2>2, FrameSent, FrameTypes DEF AgentReportsMonitors, Current, Frame
  <2>3. CASE AgentIsRejected(c)
    BY <1>1, <2>3, UntouchedKept DEF AgentIsRejected, Untouched, Current
  <2>4. CASE AgentTakesConfig(c)
    BY <1>1, <2>4, UntouchedKept DEF AgentTakesConfig, Untouched, Current
  <2>5. CASE AgentTakesRequest(c)
    BY <1>1, <2>5, UntouchedKept DEF AgentTakesRequest, Untouched, Current
  <2>6. CASE AgentReportsError(c)
    <3> DEFINE f == Frame("error", job[c])
    <3>1. f \in ToBrokerFrames /\ f.kind = "error"
      BY FrameTypes DEF Frame
    <3>2. /\ toBroker' = WithFrame(toBroker, c, f) /\ Current(c)' = Current(c)
          /\ agent[c] = "busy" /\ agent'[c] = "idle" /\ awaiting'[c] = awaiting[c]
          /\ handler'[c] = handler[c] /\ up'[c] = up[c]
      BY <2>6 DEF AgentReportsError, Current
    <3> HIDE DEF f, TypeInv
    <3> QED BY <1>1, <3>1, <3>2, FrameSent
  <2>7. CASE AgentReportsResult(c)
    <3> DEFINE f == Frame("result", job[c])
    <3>1. f \in ToBrokerFrames /\ f.kind = "result" /\ f.of = job[c]
      BY FrameTypes DEF Frame
    <3>2. /\ toBroker' = WithFrame(toBroker, c, f) /\ Current(c)' = Current(c)
          /\ agent[c] = "busy" /\ awaiting'[c] = awaiting[c]
          /\ handler'[c] = handler[c] /\ up'[c] = up[c]
      BY <2>7 DEF AgentReportsResult, Current
    <3>3. /\ agent'[c] = "image" => f = Frame("result", job'[c])
          /\ f.of \in Screenshots => agent'[c] = "image" /\ f.of = job'[c]
      BY <2>7, <3>1 DEF AgentReportsResult
    <3> HIDE DEF f, TypeInv
    <3> QED BY <1>1, <3>1, <3>2, <3>3, FrameSent
  <2>8. CASE AgentSendsImage(c)
    BY <1>1, <2>8, ImageSent
  <2>9. CASE AgentLost(c)
    BY <1>1, <2>9, UntouchedKept DEF AgentLost, Untouched, Current
  <2> QED BY <2>1, <2>2, <2>3, <2>4, <2>5, <2>6, <2>7, <2>8, <2>9 DEF AgentStep
<1> QED BY <1>2, <1>3 DEF Wired

(* Every step of a handler keeps WireInv on every connection.              *)
LEMMA HandlerKeepsWires ==
  ASSUME TypeInv, Wired, NEW c \in Conns, HandlerStep(c)
  PROVE  Wired'
<1> USE DEF TypeInv, TypeOK, registryVars, callVars, handlerVars, agentVars,
            wireVars, historyVars
<1>1. WireInv(c)
  BY DEF Wired
<1>2. ASSUME NEW d \in Conns, d # c PROVE WireInv(d)'
  <2>1. Untouched(d)
    <3>1. handler[d] = "serving" => owner[d] \in Machines
      BY DEF Unopened
    <3>2. CASE HandlerAccepts(c) \/ HandlerRejects(c) \/ HandlerPushesConfig(c)
      BY <1>2, <3>2 DEF HandlerAccepts, HandlerRejects, HandlerPushesConfig,
         Untouched, Current
    <3>3. CASE HandlerRegisters(c)
      BY <1>2, <3>1, <3>3 DEF HandlerRegisters, Untouched, Current
    <3>4. CASE HandlerQuits(c) \/ HandlerIgnores(c)
      BY <1>2, <3>4 DEF HandlerQuits, HandlerIgnores, Untouched, Current
    <3>5. CASE HandlerTakesError(c) \/ HandlerTakesResult(c) \/ HandlerTakesImage(c)
      BY <1>2, <3>5 DEF HandlerTakesError, HandlerTakesResult, HandlerTakesImage,
         Untouched, Current
    <3>6. CASE HandlerExits(c)
      <4>1. /\ toBroker'[d] = toBroker[d] /\ awaiting'[d] = awaiting[d]
            /\ handler'[d] = handler[d] /\ up'[d] = up[d]
            /\ agent'[d] = agent[d] /\ job'[d] = job[d] /\ owner'[d] = owner[d]
        BY <1>2, <3>6 DEF HandlerExits
      <4>2. registered' = registered \/
            registered' = [registered EXCEPT ![owner[c]] = None]
        BY <3>6 DEF HandlerExits, Unregister
      <4>3. d # None
        BY NoneAssumption DEF Conns
      <4>4. handler[d] = "serving" /\ Current(d)' => Current(d)
        BY <3>1, <4>1, <4>2, <4>3 DEF Current
      <4> QED BY <4>1, <4>4 DEF Untouched
    <3> QED BY <3>2, <3>3, <3>4, <3>5, <3>6 DEF HandlerStep
  <2> QED BY <1>2, <2>1, UntouchedKept DEF Wired
<1>3. WireInv(c)'
  <2>1. CASE HandlerAccepts(c) \/ HandlerPushesConfig(c)
    <3>1. awaiting'[c] = None
      BY <1>1, <2>1 DEF HandlerAccepts, HandlerPushesConfig, WireInv, HandlerPhase
    <3>2. /\ toBroker[c] # << >> /\ toBroker'[c] = Tail(toBroker[c])
          /\ agent'[c] = agent[c] /\ job'[c] = job[c] /\ up'[c] = up[c]
          /\ handler[c] \notin {"none", "done"}
          /\ handler'[c] \notin {"none", "done", "serving"}
      BY <2>1 DEF HandlerAccepts, HandlerPushesConfig
    <3> HIDE DEF TypeInv, TypeOK
    <3> QED BY <1>1, <3>1, <3>2, FrameRead
  <2>2. CASE HandlerRejects(c) \/ HandlerQuits(c) \/ HandlerExits(c)
    <3>1. toBroker'[c] = << >> /\ handler'[c] = "done" /\ up'[c] = FALSE
      BY <2>2 DEF HandlerRejects, HandlerQuits, HandlerExits
    <3> QED BY <3>1 DEF WireInv, HandlerPhase, ImageFollowsMetadata,
               MetadataThenImage, AwaitedComesNext, MetadataSent
  <2>3. CASE HandlerRegisters(c)
    <3>1. awaiting[c] = None
      BY <1>1, <2>3 DEF HandlerRegisters, MayRegister, WireInv, HandlerPhase
    <3>2. /\ toBroker'[c] = toBroker[c] /\ awaiting'[c] = None
          /\ agent'[c] = agent[c] /\ job'[c] = job[c] /\ up'[c] = up[c]
          /\ handler[c] = "pushing" /\ handler'[c] = "serving"
      BY <2>3, <3>1 DEF HandlerRegisters, MayRegister
    <3>3. HandlerPhase(c)'
      BY <3>2 DEF HandlerPhase
    <3>4. ImageFollowsMetadata(c)' /\ MetadataThenImage(c)'
      BY <1>1, <3>2 DEF WireInv, ImageFollowsMetadata, MetadataThenImage, NoMoreFrames
    <3>5. AwaitedComesNext(c)' /\ MetadataSent(c)'
      BY <1>1, <3>2 DEF WireInv, AwaitedComesNext, MetadataSent
    <3> QED BY <3>3, <3>4, <3>5 DEF WireInv
  <2>4. CASE HandlerTakesError(c)
    <3>1. Current(c) /\ Head(toBroker[c]).kind = "error"
      BY <2>4 DEF HandlerTakesError
    <3>2. awaiting[c] = None
      BY <1>1, <2>4, <3>1 DEF HandlerTakesError, WireInv, AwaitedComesNext, Frame
    <3> QED BY <1>1, <2>4, <3>1, <3>2, FrameRead DEF HandlerTakesError
  <2>5. CASE HandlerTakesResult(c)
    <3>1. Current(c) /\ Head(toBroker[c]).kind = "result"
      BY <2>5 DEF HandlerTakesResult
    <3>2. awaiting[c] = None
      BY <1>1, <2>5, <3>1 DEF HandlerTakesResult, WireInv, AwaitedComesNext, Frame
    <3>3. Head(toBroker[c]) \in ToBrokerFrames
      BY <2>5, ReadWire DEF HandlerTakesResult
    <3>4. Head(toBroker[c]) = Frame("result", Addressee(c))
      BY <3>1, <3>3 DEF Frame, Addressee, ToBrokerFrames
    <3>5. awaiting'[c] = None \/ (/\ awaiting'[c] = Addressee(c)
                                 /\ Addressee(c) \in Screenshots)
      BY <2>5, <3>2 DEF HandlerTakesResult
    <3> QED BY <1>1, <2>5, <3>4, <3>5, FrameRead DEF HandlerTakesResult, Addressee
  <2>6. CASE HandlerTakesImage(c)
    BY <1>1, <2>6, FrameRead DEF HandlerTakesImage
  <2>7. CASE HandlerIgnores(c)
    <3>1. Current(c)' = Current(c)
      BY <2>7 DEF HandlerIgnores, Current
    <3>2. CASE ~ Current(c)
      BY <1>1, <2>7, <3>1, <3>2, FrameRead DEF HandlerIgnores, Replaced
    <3>3. CASE Current(c)
      <4>1. awaiting[c] = None
        BY <1>1, <2>7, <3>3 DEF HandlerIgnores, WireInv, AwaitedComesNext, Frame
      <4> QED BY <1>1, <2>7, <4>1, FrameRead DEF HandlerIgnores
    <3> QED BY <3>2, <3>3
  <2> QED BY <2>1, <2>2, <2>3, <2>4, <2>5, <2>6, <2>7 DEF HandlerStep
<1> QED BY <1>2, <1>3 DEF Wired

Answered == \A r \in Calls : AnswerInv(r)

(* Thin clients and transports do not touch futures and outcomes.          *)
LEMMA AgentKeepsAnswers ==
  ASSUME Answered, NEW c \in Conns, AgentStep(c) \/ TransportLost(c)
  PROVE  Answered'
<1>1. UNCHANGED <<future, outcome, stage>>
  <2> USE DEF registryVars, callVars
  <2>1. CASE TransportLost(c)
    BY <2>1 DEF TransportLost
  <2>2. CASE AgentStep(c)
    BY <2>2 DEF AgentStep, AgentConnects, AgentReportsMonitors, AgentIsRejected,
       AgentTakesConfig, AgentTakesRequest, AgentReportsError, AgentReportsResult,
       AgentSendsImage, AgentLost
  <2> QED BY <2>1, <2>2
<1> QED BY <1>1 DEF Answered, AnswerInv

(* A handler only ever puts into a future the answer to its own request.   *)
LEMMA HandlerKeepsAnswers ==
  ASSUME TypeInv, Wired, Answered, NEW c \in Conns, HandlerStep(c)
  PROVE  Answered'
<1> USE DEF TypeInv, TypeOK, registryVars, callVars
<1>1. CASE UNCHANGED <<future, outcome, stage>>
  BY <1>1 DEF Answered, AnswerInv
<1>2. CASE HandlerTakesError(c)
  <2>1. /\ Addressee(c) \in Calls
        /\ future' = [future EXCEPT ![Addressee(c)] =
                        Future("error", Head(toBroker[c]).of, None)]
        /\ future[Addressee(c)].state = "pending"
        /\ UNCHANGED <<outcome, stage>>
    BY <1>2 DEF HandlerTakesError, Undone, Pending
  <2>2. ASSUME NEW r \in Calls PROVE AnswerInv(r)'
    BY <2>1, <2>2 DEF Answered, AnswerInv, Future
  <2> QED BY <2>2 DEF Answered
<1>3. CASE HandlerTakesResult(c)
  <2>1. CASE Addressee(c) \in Screenshots
    BY <1>3, <2>1 DEF HandlerTakesResult, Answered, AnswerInv
  <2>2. CASE Addressee(c) \notin Screenshots
    <3>1. /\ Addressee(c) \in Calls
          /\ future' = [future EXCEPT ![Addressee(c)] =
                          Future("result", Addressee(c), None)]
          /\ future[Addressee(c)].state = "pending"
          /\ UNCHANGED <<outcome, stage>>
      BY <1>3, <2>2 DEF HandlerTakesResult, Undone, Pending, Addressee
    <3>2. ASSUME NEW r \in Calls PROVE AnswerInv(r)'
      BY <2>2, <3>1, <3>2 DEF Answered, AnswerInv, Future
    <3> QED BY <3>2 DEF Answered
  <2> QED BY <2>1, <2>2
<1>4. CASE HandlerTakesImage(c)
  <2> DEFINE a == awaiting[c]
  <2>1. CASE a \notin Undone(c)
    BY <1>4, <2>1 DEF HandlerTakesImage, Answered, AnswerInv
  <2>2. CASE a \in Undone(c)
    <3>1. a \in Screenshots /\ Head(toBroker[c]) = Frame("image", a)
      BY <1>4 DEF HandlerTakesImage, Wired, WireInv, AwaitedComesNext
    <3>2. Head(toBroker[c]).of = a
      BY <3>1 DEF Frame
    <3>3. future' = [future EXCEPT ![a] = Future("result", a, a)]
      BY <1>4, <2>2, <3>2 DEF HandlerTakesImage
    <3>4. /\ a \in Calls
          /\ future[a].state = "pending"
          /\ UNCHANGED <<outcome, stage>>
      BY <1>4, <2>2 DEF HandlerTakesImage, Undone, Pending
    <3>5. ASSUME NEW r \in Calls PROVE AnswerInv(r)'
      BY <3>1, <3>3, <3>4, <3>5 DEF Answered, AnswerInv, Future
    <3> QED BY <3>5 DEF Answered
  <2> QED BY <2>1, <2>2
<1>5. CASE HandlerExits(c)
  <2>1. CASE Current(c)
    <3>1. /\ future' = [x \in Calls |-> IF x \in Undone(c)
                                       THEN Future("gone", None, None)
                                       ELSE future[x]]
          /\ UNCHANGED <<outcome, stage>>
      BY <1>5, <2>1 DEF HandlerExits, Unregister
    <3>2. ASSUME NEW r \in Calls PROVE AnswerInv(r)'
      <4>1. CASE r \in Undone(c)
        <5>1. future[r].state = "pending" /\ future'[r].state = "gone"
          BY <3>1, <4>1 DEF Undone, Future
        <5> QED BY <3>1, <5>1 DEF Answered, AnswerInv
      <4>2. CASE r \notin Undone(c)
        BY <3>1, <4>2 DEF Answered, AnswerInv
      <4> QED BY <4>1, <4>2
    <3> QED BY <3>2 DEF Answered
  <2>2. CASE ~ Current(c)
    BY <1>1, <1>5, <2>2 DEF HandlerExits, Unregister
  <2> QED BY <2>1, <2>2
<1>6. CASE HandlerAccepts(c) \/ HandlerRejects(c) \/ HandlerPushesConfig(c) \/
           HandlerRegisters(c) \/ HandlerQuits(c) \/ HandlerIgnores(c)
  BY <1>1, <1>6 DEF HandlerAccepts, HandlerRejects, HandlerPushesConfig,
     HandlerRegisters, HandlerQuits, HandlerIgnores
<1> QED BY <1>2, <1>3, <1>4, <1>5, <1>6 DEF HandlerStep

(* HTTP calls put no frame on the way to the broker and answer no future.  *)
LEMMA CallKeepsWiresAndAnswers ==
  ASSUME TypeInv, Wired, Answered, NEW r \in Calls, CallStep(r)
  PROVE  Wired' /\ Answered'
<1> USE DEF TypeInv, TypeOK, registryVars, callVars, handlerVars, agentVars,
            wireVars, historyVars
<1>1. Wired'
  <2>1. ASSUME NEW c \in Conns PROVE Untouched(c)
    BY DEF CallStep, CallRefused, CallStarts, CallSent, CallSendFails, CallAnswered,
       CallExpires, CallTimesOut, Untouched, Current
  <2> QED BY <2>1, UntouchedKept DEF Wired
<1>2. ASSUME NEW x \in Calls PROVE AnswerInv(x)'
  <2>1. AnswerInv(x)
    BY DEF Answered
  <2>2. CASE CallRefused(r) \/ CallSendFails(r) \/ CallTimesOut(r)
    BY <2>1, <2>2 DEF CallRefused, CallSendFails, CallTimesOut, Ends, AnswerInv
  <2>3. CASE CallStarts(r)
    BY <2>1, <2>3 DEF CallStarts, AnswerInv, Future
  <2>4. CASE CallSent(r)
    BY <2>1, <2>4 DEF CallSent, AnswerInv
  <2>5. CASE CallAnswered(r)
    BY <2>1, <2>5 DEF CallAnswered, Ends, AnswerInv
  <2>6. CASE CallExpires(r)
    BY <2>1, <2>6 DEF CallExpires, TimerRuns, AnswerInv, Future
  <2> QED BY <2>2, <2>3, <2>4, <2>5, <2>6 DEF CallStep
<1> QED BY <1>1, <1>2 DEF Answered

(* On every connection the image of a screenshot is right behind its       *)
(* metadata and is the one awaited, if any is, and a future holds only the *)
(* answer to its own request (handle_text_frame, handle_binary_frame).     *)
THEOREM ImagesHold == Spec => []ImagesInv
<1> DEFINE IInv == TypeInv /\ Wired /\ Answered
<1>1. Init => IInv
  <2> SUFFICES ASSUME Init PROVE IInv
    OBVIOUS
  <2>1. Wired
    BY DEF Init, Wired, WireInv, HandlerPhase, ImageFollowsMetadata,
       MetadataThenImage, AwaitedComesNext, MetadataSent
  <2>2. Answered
    BY DEF Init, Answered, AnswerInv, Future
  <2> QED BY <2>1, <2>2, TypeInvInductive
<1>2. IInv /\ [Next]_vars => IInv'
  <2> SUFFICES ASSUME IInv, [Next]_vars PROVE Wired' /\ Answered'
    BY TypeInvInductive
  <2>1. CASE UNCHANGED vars
    <3>1. ASSUME NEW c \in Conns PROVE Untouched(c)
      BY <2>1 DEF vars, registryVars, callVars, handlerVars, agentVars, wireVars,
         Untouched, Current
    <3>2. Wired'
      BY <3>1, UntouchedKept DEF Wired
    <3>3. Answered'
      BY <2>1 DEF vars, registryVars, callVars, Answered, AnswerInv
    <3> QED BY <3>2, <3>3
  <2>2. ASSUME NEW c \in Conns, AgentStep(c) PROVE Wired' /\ Answered'
    BY <2>2, AgentKeepsWires, AgentKeepsAnswers
  <2>3. ASSUME NEW c \in Conns, HandlerStep(c) PROVE Wired' /\ Answered'
    BY <2>3, HandlerKeepsWires, HandlerKeepsAnswers
  <2>4. ASSUME NEW c \in Conns, TransportLost(c) PROVE Wired' /\ Answered'
    <3>1. ASSUME NEW d \in Conns PROVE Untouched(d)
      BY <2>4 DEF TransportLost, TypeInv, TypeOK, registryVars, callVars, agentVars,
         wireVars, Untouched, Current
    <3>2. Wired'
      BY <3>1, UntouchedKept DEF Wired
    <3> QED BY <2>4, <3>2, AgentKeepsAnswers
  <2>5. ASSUME NEW r \in Calls, CallStep(r) PROVE Wired' /\ Answered'
    BY <2>5, CallKeepsWiresAndAnswers
  <2> QED BY <2>1, <2>2, <2>3, <2>4, <2>5 DEF Next
<1>3. IInv => ImagesInv
  BY DEF Wired, Answered, ImagesInv
<1> QED BY <1>1, <1>2, <1>3, PTL DEF Spec

(* A call that succeeds returns the answer to its own request and, for a   *)
(* screenshot, its own image, whatever arrives late, is lost, times out or *)
(* is replaced: by the order of the frames on each connection (WireInv)    *)
(* although images carry no request id.                                    *)
THEOREM AnswersMatch == Spec => []AnswerMatchesRequest
<1>1. ImagesInv => AnswerMatchesRequest
  BY DEF ImagesInv, AnswerInv, AnswerMatchesRequest
<1> QED BY <1>1, ImagesHold, PTL
=============================================================================
