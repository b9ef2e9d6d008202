---------------------------- MODULE PromiseProofs ----------------------------
(***************************************************************************)
(* Proofs about the order of frames and commands on a connection, and that *)
(* the broker keeps the promise of module AtMostOnce, for every set of     *)
(* machines and calls and every number of connections.                     *)
(***************************************************************************)
EXTENDS RegistryProofs

(* Nothing is written to a connection before its handler reads the hello;  *)
(* an ack or a refusal is the first frame, and the only one until the      *)
(* monitors have been reported.                                            *)
HelloInv(c) ==
  /\ agent[c] = "none" <=> handler[c] = "none"
  /\ agent[c] = "none" => toAgent[c] = << >>
  /\ agent[c] \in {"none", "hello"} => sent[c] = << >>
  /\ agent[c] = "hello" =>
       /\ handler[c] \in {"handshake", "monitors", "done"}
       /\ handler[c] = "handshake" => toAgent[c] = << >> /\ Len(toBroker[c]) = 1
       /\ handler[c] = "monitors" => toBroker[c] = << >>
       /\ toAgent[c] # << >> => Len(toAgent[c]) = 1 /\ Head(toAgent[c]).kind \in {"ack", "nack"}

(* Then comes the config push, before the connection is registered, and    *)
(* behind it the requests, in the order in which they were sent.           *)
ConfigInv(c) ==
  agent[c] = "config" =>
    /\ handler[c] \in {"monitors", "pushing", "serving", "done"}
    /\ handler[c] = "monitors" => toAgent[c] = << >>
    /\ handler[c] \in {"pushing", "serving"} /\ up[c] => toAgent[c] # << >>
    /\ toAgent[c] = << >> => sent[c] = << >>
    /\ toAgent[c] # << >> =>
         /\ Head(toAgent[c]).kind = "config"
         /\ Len(toAgent[c]) = Len(sent[c]) + 1
         /\ \A j \in 1..Len(sent[c]) :
              toAgent[c][j + 1] = Frame("request", sent[c][j]) /\ runs[sent[c][j]] = 0

(* While it serves, the requests on the way are the last ones sent, and    *)
(* those before them have been taken, each once.                           *)
Serves(c) == agent[c] \in {"idle", "busy", "image"}
Taken(c) == Len(sent[c]) - Len(toAgent[c])

ServingInv(c) ==
  Serves(c) =>
    /\ handler[c] \in {"pushing", "serving", "done"}
    /\ Taken(c) \in Nat
    /\ \A j \in 1..Len(toAgent[c]) :
         toAgent[c][j] = Frame("request", sent[c][Taken(c) + j])
    /\ \A j \in 1..Len(sent[c]) : runs[sent[c][j]] = IF j <= Taken(c) THEN 1 ELSE 0

(* A request is written once, to the connection its call looked up.        *)
SentInv(c) ==
  \A i \in 1..Len(sent[c]) :
    /\ conn[sent[c][i]] = c
    /\ stage[sent[c][i]] # "idle"
    /\ \A j \in 1..Len(sent[c]) :
         i < j => sent[c][i] # sent[c][j] /\ runs[sent[c][i]] >= runs[sent[c][j]]

(* What comes back was performed: the job, the answers on the way, the     *)
(* screenshot whose image is awaited.                                      *)
JobInv(c) == agent[c] \in {"busy", "image"} => job[c] \in Calls /\ runs[job[c]] = 1

BackInv(c) ==
  \A i \in 1..Len(toBroker[c]) : toBroker[c][i].kind \in {"error", "result"} =>
    toBroker[c][i].of \in Calls /\ runs[toBroker[c][i].of] = 1

AwaitInv(c) == awaiting[c] # None => runs[awaiting[c]] = 1

ConnInv(c) ==
  /\ HelloInv(c) /\ ConfigInv(c) /\ ServingInv(c) /\ SentInv(c)
  /\ JobInv(c) /\ BackInv(c) /\ AwaitInv(c)

(* A call that has not started, or was refused, was sent nowhere; one that *)
(* is over has a reply, and an answer only if its command was performed.   *)
CallInv(r) ==
  /\ runs[r] \in {0, 1}
  /\ stage[r] = "idle" => conn[r] = None /\ runs[r] = 0
  /\ outcome[r] = "none" <=> stage[r] # "done"
  /\ outcome[r] = "not_connected" => conn[r] = None
  /\ stage[r] \in {"sending", "waiting"} => conn[r] # None
  /\ future[r].state \in {"result", "error"} => runs[r] = 1
  /\ outcome[r] \in {"ok", "machine_error"} => runs[r] = 1

OrderInv == \A c \in Conns : ConnInv(c)
KeptInv == \A r \in Calls : CallInv(r)

PromiseInv == TypeInv /\ RegistryInv /\ OrderInv /\ KeptInv

(* They hold at first.                                                     *)
LEMMA PromiseInit == Init => PromiseInv
<1> SUFFICES ASSUME Init PROVE OrderInv /\ KeptInv
  BY TypeInvInductive, RegistryInvInductive DEF PromiseInv
<1>1. OrderInv
  <2> SUFFICES ASSUME NEW c \in Conns PROVE ConnInv(c)
    BY DEF OrderInv
  <2>1. Len(sent[c]) = 0 /\ Len(toBroker[c]) = 0
    BY EmptySeq DEF Init
  <2> QED BY <2>1 DEF Init, ConnInv, HelloInv, ConfigInv, ServingInv, Serves, SentInv,
             JobInv, BackInv, AwaitInv
<1>2. KeptInv
  BY DEF Init, KeptInv, CallInv, Future
<1> QED BY <1>1, <1>2

-----------------------------------------------------------------------------
(* What a step leaves alone.                                               *)

(* The queues, the history and the state of one connection.                *)
LEMMA TypesAt ==
  ASSUME TypeInv, NEW c \in Conns
  PROVE  /\ toAgent[c] \in Seq(ToAgentFrames)
         /\ toBroker[c] \in Seq(ToBrokerFrames)
         /\ sent[c] \in Seq(Calls)
         /\ Len(toAgent[c]) \in Nat /\ Len(toBroker[c]) \in Nat /\ Len(sent[c]) \in Nat
         /\ toAgent[c] = << >> <=> Len(toAgent[c]) = 0
         /\ toBroker[c] = << >> <=> Len(toBroker[c]) = 0
         /\ up[c] \in BOOLEAN
         /\ \A i \in 1..Len(sent[c]) : sent[c][i] \in Calls
<1>1. /\ toAgent[c] \in Seq(ToAgentFrames)
      /\ toBroker[c] \in Seq(ToBrokerFrames)
      /\ sent[c] \in Seq(Calls)
      /\ up[c] \in BOOLEAN
  BY DEF TypeInv, TypeOK
<1>2. \A i \in 1..Len(sent[c]) : sent[c][i] \in Calls
  BY <1>1, ElementOfSeq
<1> QED BY <1>1, <1>2, EmptySeq, LenProperties

(* A frame is written to one connection, if that is up.                    *)
LEMMA Written ==
  ASSUME TypeInv, NEW c \in Conns, NEW f, NEW d \in Conns
  PROVE  /\ WithFrame(toBroker, c, f)[d] =
              IF d = c /\ up[c] THEN Append(toBroker[d], f) ELSE toBroker[d]
         /\ WithFrame(toAgent, c, f)[d] =
              IF d = c /\ up[c] THEN Append(toAgent[d], f) ELSE toAgent[d]
BY DEF WithFrame, TypeInv, TypeOK

Keeps(d) ==
  /\ agent'[d] = agent[d] /\ handler'[d] = handler[d] /\ (up'[d] => up[d])
  /\ toAgent'[d] = toAgent[d] /\ toBroker'[d] = toBroker[d] /\ sent'[d] = sent[d]
  /\ job'[d] = job[d] /\ awaiting'[d] = awaiting[d]

(* The calls sent to d are still those of d, and performed as often.       *)
KeepsSent(d) ==
  \A i \in 1..Len(sent[d]) :
    /\ conn'[sent[d][i]] = conn[sent[d][i]]
    /\ runs'[sent[d][i]] = runs[sent[d][i]]
    /\ stage'[sent[d][i]] # "idle"

(* What was performed stays performed.                                     *)
KeepsRuns == \A r \in Calls : runs[r] = 1 => runs'[r] = 1

LEMMA KeptElsewhere ==
  ASSUME TypeInv, NEW d \in Conns, ConnInv(d), Keeps(d), KeepsSent(d), KeepsRuns
  PROVE  ConnInv(d)'
<1> USE DEF Keeps
<1>1. HelloInv(d)'
  BY DEF ConnInv, HelloInv
<1>2. ConfigInv(d)'
  BY DEF ConnInv, ConfigInv, KeepsSent
<1>3. ServingInv(d)'
  BY DEF ConnInv, ServingInv, Serves, Taken, KeepsSent
<1>4. SentInv(d)'
  BY DEF ConnInv, SentInv, KeepsSent
<1>5. JobInv(d)'
  BY DEF ConnInv, JobInv, KeepsRuns
<1>6. BackInv(d)'
  BY DEF ConnInv, BackInv, KeepsRuns
<1>7. AwaitInv(d)'
  BY DEF ConnInv, AwaitInv, KeepsRuns, TypeInv, TypeOK
<1> QED BY <1>1, <1>2, <1>3, <1>4, <1>5, <1>6, <1>7 DEF ConnInv

(* A step of one connection leaves the others alone.                       *)
LEMMA StepElsewhere ==
  ASSUME TypeInv, NEW c \in Conns, AgentStep(c) \/ HandlerStep(c) \/ TransportLost(c),
         NEW d \in Conns, d # c
  PROVE  Keeps(d)
<1> USE DEF WithFrame, Keeps, TypeInv, TypeOK, registryVars, callVars, handlerVars,
                    agentVars, wireVars, historyVars
<1>1. CASE AgentStep(c)
  <2>1. CASE \E m \in Machines : AgentConnects(m, c)
    BY <2>1 DEF AgentConnects
  <2>2. CASE AgentReportsMonitors(c) \/ AgentIsRejected(c) \/ AgentTakesConfig(c)
    BY <2>2 DEF AgentReportsMonitors, AgentIsRejected, AgentTakesConfig
  <2>3. CASE AgentTakesRequest(c) \/ AgentLost(c)
    BY <2>3 DEF AgentTakesRequest, AgentLost
  <2>4. CASE AgentReportsError(c) \/ AgentReportsResult(c) \/ AgentSendsImage(c)
    BY <2>4 DEF AgentReportsError, AgentReportsResult, AgentSendsImage
  <2> QED BY <1>1, <2>1, <2>2, <2>3, <2>4 DEF AgentStep
<1>2. CASE HandlerStep(c)
  <2>1. CASE HandlerAccepts(c) \/ HandlerRejects(c) \/ HandlerPushesConfig(c)
    BY <2>1 DEF HandlerAccepts, HandlerRejects, HandlerPushesConfig
  <2>2. CASE HandlerRegisters(c) \/ HandlerQuits(c)
    BY <2>2 DEF HandlerRegisters, HandlerQuits
  <2>3. CASE HandlerTakesError(c) \/ HandlerTakesResult(c) \/ HandlerTakesImage(c)
             \/ HandlerIgnores(c) \/ HandlerExits(c)
    BY <2>3 DEF HandlerTakesError, HandlerTakesResult, HandlerTakesImage,
       HandlerIgnores, HandlerExits
  <2> QED BY <1>2, <2>1, <2>2, <2>3 DEF HandlerStep
<1>3. CASE TransportLost(c)
  BY <1>3 DEF TransportLost
<1> QED BY <1>1, <1>2, <1>3

-----------------------------------------------------------------------------
(* The answers on the way.                                                 *)

LEMMA BackWritten ==
  ASSUME TypeInv, NEW c \in Conns, BackInv(c), NEW f \in ToBrokerFrames,
         toBroker' = WithFrame(toBroker, c, f), runs' = runs,
         f.kind \in {"error", "result"} => f.of \in Calls /\ runs[f.of] = 1
  PROVE  BackInv(c)'
<1>1. toBroker'[c] = IF up[c] THEN Append(toBroker[c], f) ELSE toBroker[c]
  BY Written
<1>2. CASE up[c]
  <2>1. /\ Len(toBroker'[c]) = Len(toBroker[c]) + 1 /\ Len(toBroker[c]) \in Nat
        /\ toBroker'[c][Len(toBroker[c]) + 1] = f
        /\ \A i \in 1..Len(toBroker[c]) : toBroker'[c][i] = toBroker[c][i]
    BY <1>1, <1>2, TypesAt, Appended
  <2>2. ASSUME NEW i \in 1..(Len(toBroker[c]) + 1), toBroker'[c][i].kind \in {"error", "result"}
        PROVE  toBroker'[c][i].of \in Calls /\ runs[toBroker'[c][i].of] = 1
    <3>1. CASE i = Len(toBroker[c]) + 1
      BY <2>1, <2>2, <3>1
    <3>2. CASE i \in 1..Len(toBroker[c])
      BY <2>1, <2>2, <3>2 DEF BackInv
    <3> QED BY <2>1, <3>1, <3>2
  <2> QED BY <2>1, <2>2 DEF BackInv
<1>3. CASE ~ up[c]
  BY <1>1, <1>3 DEF BackInv
<1> QED BY <1>2, <1>3

LEMMA BackTaken ==
  ASSUME TypeInv, NEW c \in Conns, BackInv(c), toBroker[c] # << >>,
         toBroker'[c] = Tail(toBroker[c]), runs' = runs
  PROVE  BackInv(c)'
<1>1. /\ Len(toBroker[c]) \in Nat \ {0}
      /\ Len(toBroker'[c]) = Len(toBroker[c]) - 1
      /\ \A i \in 1..(Len(toBroker[c]) - 1) : toBroker'[c][i] = toBroker[c][i + 1]
  BY TypesAt, Consumed
<1> QED BY <1>1 DEF BackInv

LEMMA BackEmpty ==
  ASSUME NEW c \in Conns, toBroker'[c] = << >>
  PROVE  BackInv(c)'
<1>1. Len(toBroker'[c]) = 0
  BY EmptySeq
<1> QED BY <1>1 DEF BackInv

-----------------------------------------------------------------------------
(* The thin clients' steps.                                                *)

(* The request that a thin client takes is the next one sent, and has not  *)
(* been performed.                                                         *)
LEMMA NextRequest ==
  ASSUME PromiseInv, NEW c \in Conns, AgentTakesRequest(c)
  PROVE  LET r == Head(toAgent[c]).of IN
         /\ Taken(c) \in Nat /\ Taken(c) + 1 \in 1..Len(sent[c])
         /\ r = sent[c][Taken(c) + 1] /\ r \in Calls
         /\ conn[r] = c /\ stage[r] # "idle" /\ runs[r] = 0
         /\ runs' = [runs EXCEPT ![r] = 1]
         /\ \A i \in 1..Len(sent[c]) : i # Taken(c) + 1 => sent[c][i] # r
<1> DEFINE r == Head(toAgent[c]).of
           t == Taken(c)
<1>1. agent[c] = "idle" /\ toAgent[c] # << >> /\ runs' = [runs EXCEPT ![r] = @ + 1]
  BY DEF AgentTakesRequest
<1>2. TypeInv /\ ServingInv(c) /\ SentInv(c)
  BY DEF PromiseInv, OrderInv, ConnInv
<1>3. /\ Len(toAgent[c]) \in Nat \ {0} /\ Len(sent[c]) \in Nat
      /\ Head(toAgent[c]) = toAgent[c][1]
      /\ \A i \in 1..Len(sent[c]) : sent[c][i] \in Calls
  BY <1>1, <1>2, TypesAt, Consumed
<1>4. t \in Nat /\ t + 1 \in 1..Len(sent[c])
  <2>1. t \in Nat
    BY <1>1, <1>2 DEF ServingInv, Serves
  <2>2. t = Len(sent[c]) - Len(toAgent[c])
    BY DEF Taken
  <2>3. \A m \in Nat, n \in Nat \ {0} : \A k \in Nat : k = m - n => k + 1 \in 1..m
    OBVIOUS
  <2> HIDE DEF t
  <2> QED BY <1>3, <2>1, <2>2, <2>3
<1>5. toAgent[c][1] = Frame("request", sent[c][t + 1]) /\ runs[sent[c][t + 1]] = 0
  BY <1>1, <1>2, <1>3, <1>4 DEF ServingInv, Serves
<1>6. r = sent[c][t + 1]
  BY <1>3, <1>5 DEF Frame
<1>7. r \in Calls /\ runs[r] = 0
  BY <1>3, <1>4, <1>5, <1>6
<1>8. conn[r] = c /\ stage[r] # "idle"
  BY <1>2, <1>4, <1>6 DEF SentInv
<1>9. \A i \in 1..Len(sent[c]) : i # t + 1 => sent[c][i] # r
  <2> TAKE i \in 1..Len(sent[c])
  <2>1. CASE i < t + 1
    BY <1>2, <1>4, <1>6, <2>1 DEF SentInv
  <2>2. CASE t + 1 < i
    BY <1>2, <1>4, <1>6, <2>2 DEF SentInv
  <2> QED BY <1>3, <1>4, <2>1, <2>2
<1>10. runs' = [runs EXCEPT ![r] = 1]
  BY <1>1, <1>7
<1> HIDE DEF r, t
<1> QED BY <1>4, <1>6, <1>7, <1>8, <1>9, <1>10 DEF r, t

LEMMA TakingKeepsConn ==
  ASSUME PromiseInv, NEW c \in Conns, AgentTakesRequest(c)
  PROVE  ConnInv(c)' /\ KeepsRuns
<1> DEFINE r == Head(toAgent[c]).of
           t == Taken(c)
<1>1. /\ t \in Nat /\ t + 1 \in 1..Len(sent[c])
      /\ r = sent[c][t + 1] /\ r \in Calls /\ runs[r] = 0
      /\ runs' = [runs EXCEPT ![r] = 1]
      /\ \A i \in 1..Len(sent[c]) : i # t + 1 => sent[c][i] # r
  BY NextRequest
<1>2. TypeInv /\ ConnInv(c)
  BY DEF PromiseInv, OrderInv
<1>3. /\ agent[c] = "idle" /\ agent'[c] = "busy" /\ job'[c] = r
      /\ toAgent[c] # << >> /\ toAgent'[c] = Tail(toAgent[c])
      /\ UNCHANGED <<sent, handler, toBroker, awaiting, conn, stage>>
  BY <1>2 DEF AgentTakesRequest, TypeInv, TypeOK, registryVars, callVars, handlerVars
<1>4. \A y \in Calls : runs[y] \in Nat /\ runs'[y] = IF y = r THEN 1 ELSE runs[y]
  BY <1>1, <1>2 DEF TypeInv, TypeOK
<1>5. /\ Len(toAgent[c]) \in Nat \ {0} /\ Len(sent[c]) \in Nat
      /\ Len(toAgent'[c]) = Len(toAgent[c]) - 1
      /\ \A i \in 1..(Len(toAgent[c]) - 1) : toAgent'[c][i] = toAgent[c][i + 1]
      /\ \A i \in 1..Len(sent[c]) : sent[c][i] \in Calls
  BY <1>2, <1>3, TypesAt, Consumed
<1>6. KeepsRuns
  BY <1>1, <1>4 DEF KeepsRuns
<1>7. \A i \in 1..Len(sent[c]) : runs'[sent[c][i]] = IF i <= t + 1 THEN 1 ELSE 0
  <2> TAKE i \in 1..Len(sent[c])
  <2>1. runs[sent[c][i]] = IF i <= t THEN 1 ELSE 0
    BY <1>2, <1>3 DEF ConnInv, ServingInv, Serves
  <2> QED BY <1>1, <1>4, <1>5, <2>1
<1>8. Taken(c)' = t + 1
  <2>1. Taken(c)' = Len(sent[c]) - Len(toAgent'[c]) /\ t = Len(sent[c]) - Len(toAgent[c])
    BY <1>3 DEF Taken
  <2> QED BY <1>5, <2>1
<1> HIDE DEF r
<1>9. ServingInv(c)'
  <2>1. \A j \in 1..Len(toAgent'[c]) :
          toAgent'[c][j] = Frame("request", sent'[c][t + 1 + j])
    <3> TAKE j \in 1..Len(toAgent'[c])
    <3>1. j + 1 \in 1..Len(toAgent[c]) /\ toAgent'[c][j] = toAgent[c][j + 1]
      BY <1>5
    <3>3. t + (j + 1) = t + 1 + j
      BY <1>1, <1>5
    <3>2. toAgent[c][j + 1] = Frame("request", sent[c][t + (j + 1)])
      BY <1>2, <1>3, <3>1 DEF ConnInv, ServingInv, Serves
    <3> QED BY <1>3, <3>1, <3>2, <3>3
  <2>2. handler'[c] \in {"pushing", "serving", "done"}
    BY <1>2, <1>3 DEF ConnInv, ServingInv, Serves
  <2> HIDE DEF t
  <2> QED BY <1>1, <1>3, <1>7, <1>8, <2>1, <2>2 DEF ServingInv
<1>10. SentInv(c)'
  BY <1>1, <1>2, <1>3, <1>5, <1>7 DEF ConnInv, SentInv
<1>11. HelloInv(c)' /\ ConfigInv(c)'
  BY <1>2, <1>3 DEF ConnInv, HelloInv, ConfigInv
<1>12. JobInv(c)'
  BY <1>1, <1>3, <1>4 DEF JobInv
<1>13. BackInv(c)'
  BY <1>2, <1>3, <1>6 DEF ConnInv, BackInv, KeepsRuns
<1>14. AwaitInv(c)'
  BY <1>2, <1>3, <1>6 DEF ConnInv, AwaitInv, KeepsRuns, TypeInv, TypeOK
<1> QED BY <1>6, <1>9, <1>10, <1>11, <1>12, <1>13, <1>14 DEF ConnInv

(* The others.                                                             *)
LEMMA AgentKeepsConn ==
  ASSUME PromiseInv, NEW c \in Conns, AgentStep(c)
  PROVE  ConnInv(c)'
<1>1. TypeInv /\ ConnInv(c)
  BY DEF PromiseInv, OrderInv
<1>2. CASE AgentTakesRequest(c)
  BY <1>2, TakingKeepsConn
<1> SUFFICES ASSUME ~ AgentTakesRequest(c) PROVE ConnInv(c)'
  BY <1>2
<1>3. UNCHANGED <<awaiting, sent, runs, conn, stage>>
  BY DEF AgentStep, AgentConnects, AgentReportsMonitors, AgentIsRejected,
     AgentTakesConfig, AgentReportsError, AgentReportsResult, AgentSendsImage,
     AgentLost, registryVars, callVars, historyVars
<1>4. SentInv(c)' /\ AwaitInv(c)'
  BY <1>1, <1>3 DEF ConnInv, SentInv, AwaitInv
<1>5. CASE \E m \in Machines : AgentConnects(m, c)
  <2>1. agent[c] = "none" /\ handler[c] = "none"
    BY <1>1, <1>5 DEF AgentConnects, TypeInv, Unopened
  <2>2. /\ agent'[c] = "hello" /\ handler'[c] = "handshake"
        /\ toBroker'[c] = <<Frame("hello", None)>> /\ toAgent'[c] = << >>
        /\ sent'[c] = << >>
    BY <1>1, <1>3, <1>5, <2>1 DEF AgentConnects, TypeInv, TypeOK, ConnInv, HelloInv
  <2>3. HelloInv(c)' /\ ConfigInv(c)' /\ ServingInv(c)' /\ JobInv(c)'
    BY <2>2 DEF HelloInv, ConfigInv, ServingInv, Serves, JobInv
  <2>4. BackInv(c)'
    BY <2>2 DEF BackInv, Frame
  <2> QED BY <1>4, <2>3, <2>4 DEF ConnInv
<1>6. CASE AgentReportsMonitors(c)
  <2>1. /\ agent[c] = "hello" /\ toAgent[c] # << >>
        /\ toAgent'[c] = Tail(toAgent[c]) /\ agent'[c] = "config"
        /\ handler' = handler /\ up' = up
        /\ toBroker' = WithFrame(toBroker, c, Frame("monitors", None))
    BY <1>1, <1>6 DEF AgentReportsMonitors, TypeInv, TypeOK, handlerVars
  <2>2. toAgent'[c] = << >> /\ sent[c] = << >>
        /\ handler[c] \in {"monitors", "done"}
    BY <1>1, <2>1, TypesAt, Consumed DEF ConnInv, HelloInv
  <2>3. HelloInv(c)' /\ ConfigInv(c)' /\ ServingInv(c)' /\ JobInv(c)'
    BY <1>3, <2>1, <2>2 DEF HelloInv, ConfigInv, ServingInv, Serves, JobInv
  <2>4. BackInv(c)'
    BY <1>1, <1>3, <2>1, BackWritten, FrameTypes DEF ConnInv, Frame
  <2> QED BY <1>4, <2>3, <2>4 DEF ConnInv
<1>7. CASE AgentIsRejected(c) \/ AgentLost(c)
  <2>1. agent'[c] = "gone" /\ agent[c] # "none" /\ handler' = handler
        /\ toBroker' = toBroker
    BY <1>1, <1>7 DEF AgentIsRejected, AgentLost, TypeInv, TypeOK, handlerVars
  <2>2. HelloInv(c)' /\ ConfigInv(c)' /\ ServingInv(c)' /\ JobInv(c)' /\ BackInv(c)'
    BY <1>1, <1>3, <2>1 DEF ConnInv, HelloInv, ConfigInv, ServingInv, Serves, JobInv,
       BackInv
  <2> QED BY <1>4, <2>2 DEF ConnInv
<1>8. CASE AgentTakesConfig(c)
  <2>1. /\ agent[c] = "config" /\ toAgent[c] # << >>
        /\ toAgent'[c] = Tail(toAgent[c]) /\ agent'[c] = "idle"
        /\ handler' = handler /\ toBroker' = toBroker
    BY <1>1, <1>8 DEF AgentTakesConfig, TypeInv, TypeOK, handlerVars
  <2>2. /\ Len(toAgent[c]) = Len(sent[c]) + 1 /\ Len(sent[c]) \in Nat
        /\ Len(toAgent'[c]) = Len(toAgent[c]) - 1
        /\ \A i \in 1..(Len(toAgent[c]) - 1) : toAgent'[c][i] = toAgent[c][i + 1]
        /\ \A j \in 1..Len(sent[c]) :
             toAgent[c][j + 1] = Frame("request", sent[c][j]) /\ runs[sent[c][j]] = 0
        /\ handler[c] \in {"pushing", "serving", "done"}
    BY <1>1, <2>1, TypesAt, Consumed DEF ConnInv, ConfigInv
  <2>3. Taken(c)' = 0
    BY <1>3, <2>2 DEF Taken
  <2>4. ServingInv(c)'
    BY <1>3, <2>1, <2>2, <2>3 DEF ServingInv
  <2>5. HelloInv(c)' /\ ConfigInv(c)' /\ JobInv(c)' /\ BackInv(c)'
    BY <1>1, <1>3, <2>1, <2>2 DEF ConnInv, HelloInv, ConfigInv, JobInv, BackInv
  <2> QED BY <1>4, <2>4, <2>5 DEF ConnInv
<1>9. CASE AgentReportsError(c) \/ AgentReportsResult(c) \/ AgentSendsImage(c)
  <2>1. /\ agent[c] \in {"busy", "image"} /\ agent'[c] \in {"idle", "image"}
        /\ agent'[c] = "image" => job'[c] = job[c]
        /\ handler' = handler /\ up' = up /\ toAgent' = toAgent
        /\ \E k \in {"error", "result", "image"} :
             toBroker' = WithFrame(toBroker, c, Frame(k, job[c]))
    BY <1>1, <1>9, Zenon DEF AgentReportsError, AgentReportsResult, AgentSendsImage,
       TypeInv, TypeOK, handlerVars
  <2>2. job[c] \in Calls /\ runs[job[c]] = 1
    BY <1>1, <2>1 DEF ConnInv, JobInv
  <2>3. BackInv(c)'
    BY <1>1, <1>3, <2>1, <2>2, BackWritten, FrameTypes DEF ConnInv, Frame
  <2>4. HelloInv(c)' /\ ConfigInv(c)' /\ ServingInv(c)'
    BY <1>1, <1>3, <2>1 DEF ConnInv, HelloInv, ConfigInv, ServingInv, Serves, Taken
  <2>5. JobInv(c)'
    BY <1>3, <2>1, <2>2 DEF JobInv
  <2> QED BY <1>4, <2>3, <2>4, <2>5 DEF ConnInv
<1> QED BY <1>5, <1>6, <1>7, <1>8, <1>9 DEF AgentStep

(* A thin client's step keeps what is known of calls and of connections.   *)
LEMMA AgentKeepsPromiseInv ==
  ASSUME PromiseInv, NEW c \in Conns, AgentStep(c)
  PROVE  OrderInv' /\ KeptInv'
<1>1. /\ TypeInv /\ OrderInv /\ KeptInv
  BY DEF PromiseInv
<1>2. UNCHANGED <<conn, stage, outcome, future>>
  BY DEF AgentStep, AgentConnects, AgentReportsMonitors, AgentIsRejected,
     AgentTakesConfig, AgentTakesRequest, AgentReportsError, AgentReportsResult,
     AgentSendsImage, AgentLost, registryVars, callVars
<1>3. runs' = runs \/ AgentTakesRequest(c)
  BY DEF AgentStep, AgentConnects, AgentReportsMonitors, AgentIsRejected,
     AgentTakesConfig, AgentReportsError, AgentReportsResult,
     AgentSendsImage, AgentLost, historyVars
<1>4. KeepsRuns
  BY <1>3, TakingKeepsConn DEF KeepsRuns
<1>5. ASSUME NEW d \in Conns, d # c PROVE KeepsSent(d)
  <2>1. \A i \in 1..Len(sent[d]) :
          sent[d][i] \in Calls /\ conn[sent[d][i]] = d /\ stage[sent[d][i]] # "idle"
    BY <1>1, TypesAt DEF OrderInv, ConnInv, SentInv
  <2>2. CASE runs' = runs
    BY <1>2, <2>1, <2>2 DEF KeepsSent
  <2>3. CASE AgentTakesRequest(c)
    <3> DEFINE r == Head(toAgent[c]).of
    <3>1. r \in Calls /\ conn[r] = c /\ runs' = [runs EXCEPT ![r] = 1]
      BY <2>3, NextRequest
    <3> HIDE DEF r
    <3>2. \A i \in 1..Len(sent[d]) : runs'[sent[d][i]] = runs[sent[d][i]]
      BY <1>1, <1>5, <2>1, <3>1 DEF TypeInv, TypeOK
    <3> QED BY <1>2, <2>1, <3>2 DEF KeepsSent
  <2> QED BY <1>3, <2>2, <2>3
<1>6. ASSUME NEW d \in Conns PROVE ConnInv(d)'
  <2>1. CASE d = c
    BY <2>1, AgentKeepsConn
  <2>2. CASE d # c
    BY <1>1, <1>4, <1>5, <2>2, StepElsewhere, KeptElsewhere DEF OrderInv
  <2> QED BY <2>1, <2>2
<1>7. ASSUME NEW r \in Calls PROVE CallInv(r)'
  <2>1. CASE runs' = runs
    BY <1>1, <1>2, <2>1 DEF KeptInv, CallInv
  <2>2. CASE AgentTakesRequest(c)
    <3> DEFINE x == Head(toAgent[c]).of
    <3>1. x \in Calls /\ stage[x] # "idle" /\ runs' = [runs EXCEPT ![x] = 1]
      BY <2>2, NextRequest
    <3> HIDE DEF x
    <3>2. runs'[r] = IF r = x THEN 1 ELSE runs[r]
      BY <1>1, <3>1 DEF TypeInv, TypeOK
    <3> QED BY <1>1, <1>2, <3>1, <3>2 DEF KeptInv, CallInv
  <2> QED BY <1>3, <2>1, <2>2
<1> QED BY <1>6, <1>7 DEF OrderInv, KeptInv

-----------------------------------------------------------------------------
(* The handlers' steps.                                                    *)

(* What a handler reads is an answer to a request that was performed.      *)
LEMMA HeadPerformed ==
  ASSUME PromiseInv, NEW c \in Conns, toBroker[c] # << >>,
         Head(toBroker[c]).kind \in {"error", "result"}
  PROVE  Head(toBroker[c]).of \in Calls /\ runs[Head(toBroker[c]).of] = 1
<1>1. TypeInv /\ BackInv(c)
  BY DEF PromiseInv, OrderInv, ConnInv
<1>2. Len(toBroker[c]) \in Nat \ {0} /\ Head(toBroker[c]) = toBroker[c][1]
  BY <1>1, TypesAt, Consumed
<1> QED BY <1>1, <1>2 DEF BackInv

LEMMA HandlerKeepsConn ==
  ASSUME PromiseInv, NEW c \in Conns, HandlerStep(c)
  PROVE  ConnInv(c)'
<1>1. TypeInv /\ ConnInv(c)
  BY DEF PromiseInv, OrderInv
<1>2. UNCHANGED <<agent, job, sent, runs, conn, stage>>
  BY DEF HandlerStep, HandlerAccepts, HandlerRejects, HandlerPushesConfig,
     HandlerRegisters, HandlerQuits, HandlerTakesError, HandlerTakesResult,
     HandlerTakesImage, HandlerIgnores, HandlerExits, agentVars, callVars,
     historyVars
<1>3. SentInv(c)' /\ JobInv(c)'
  BY <1>1, <1>2 DEF ConnInv, SentInv, JobInv
<1>4. agent[c] # "none"
  BY <1>1 DEF ConnInv, HelloInv, HandlerStep, HandlerAccepts, HandlerRejects,
     HandlerPushesConfig, HandlerRegisters, MayRegister, HandlerQuits,
     HandlerTakesError, HandlerTakesResult, HandlerTakesImage, HandlerIgnores,
     HandlerExits
<1>5. CASE HandlerAccepts(c) \/ HandlerRejects(c)
  <2> DEFINE f == IF HandlerAccepts(c) THEN Frame("ack", None) ELSE Frame("nack", None)
  <2>1. /\ handler[c] = "handshake" /\ handler'[c] \in {"monitors", "done"}
        /\ toAgent' = WithFrame(toAgent, c, f) /\ awaiting' = awaiting
        /\ toBroker[c] # << >> /\ toBroker'[c] \in {<< >>, Tail(toBroker[c])}
    BY <1>1, <1>5 DEF HandlerAccepts, HandlerRejects, TypeInv, TypeOK, registryVars
  <2>2. f \in ToAgentFrames /\ f.kind \in {"ack", "nack"}
    BY FrameTypes DEF Frame
  <2> HIDE DEF f
  <2>3. agent[c] \in {"hello", "gone"}
    BY <1>1, <1>4, <2>1 DEF ConnInv, ConfigInv, ServingInv, Serves, TypeInv, TypeOK
  <2>4. agent[c] = "hello" => /\ toBroker'[c] = << >>
                              /\ toAgent'[c] # << >> => /\ Len(toAgent'[c]) = 1
                                                        /\ Head(toAgent'[c]) = f
    <3> SUFFICES ASSUME agent[c] = "hello"
                 PROVE  /\ toBroker'[c] = << >>
                        /\ toAgent'[c] # << >> => /\ Len(toAgent'[c]) = 1
                                                  /\ Head(toAgent'[c]) = f
      OBVIOUS
    <3>1. toAgent[c] = << >> /\ Len(toBroker[c]) = 1
      BY <1>1, <2>1 DEF ConnInv, HelloInv
    <3>2. toBroker'[c] = << >>
      BY <1>1, <2>1, <3>1, TypesAt, Consumed
    <3>3. toAgent'[c] \in {<< >>, Append(<< >>, f)}
      BY <1>1, <2>1, <3>1, Written
    <3> QED BY <3>2, <3>3
  <2>5. HelloInv(c)' /\ ConfigInv(c)' /\ ServingInv(c)'
    BY <1>1, <1>2, <2>1, <2>2, <2>3, <2>4
       DEF ConnInv, HelloInv, ConfigInv, ServingInv, Serves
  <2>6. BackInv(c)' /\ AwaitInv(c)'
    BY <1>1, <1>2, <2>1, BackTaken, BackEmpty DEF ConnInv, AwaitInv
  <2> QED BY <1>3, <2>5, <2>6 DEF ConnInv
<1>6. CASE HandlerPushesConfig(c)
  <2>1. /\ handler[c] = "monitors" /\ handler'[c] = "pushing" /\ up' = up
        /\ toAgent' = WithFrame(toAgent, c, Frame("config", None))
        /\ awaiting' = awaiting
        /\ toBroker[c] # << >> /\ toBroker'[c] = Tail(toBroker[c])
    BY <1>1, <1>6 DEF HandlerPushesConfig, TypeInv, TypeOK, registryVars
  <2>2. agent[c] \in {"config", "gone"}
    BY <1>1, <1>4, <2>1 DEF ConnInv, HelloInv, ServingInv, Serves, TypeInv, TypeOK
  <2>3. ConfigInv(c)'
    <3> SUFFICES ASSUME agent[c] = "config" PROVE ConfigInv(c)'
      BY <1>2 DEF ConfigInv
    <3>1. toAgent[c] = << >> /\ sent[c] = << >> /\ up[c] \in BOOLEAN
      BY <1>1, <2>1, TypesAt DEF ConnInv, ConfigInv
    <3>2. toAgent'[c] = IF up[c] THEN Append(<< >>, Frame("config", None)) ELSE << >>
      BY <1>1, <2>1, <3>1, Written
    <3>3. /\ toAgent'[c] # << >> <=> up[c]
          /\ up[c] => /\ Len(toAgent'[c]) = 1
                      /\ Head(toAgent'[c]) = Frame("config", None)
      BY <3>2
    <3>4. Frame("config", None).kind = "config" /\ Len(sent[c]) = 0
      BY <3>1 DEF Frame
    <3> QED BY <1>2, <2>1, <3>1, <3>3, <3>4 DEF ConfigInv
  <2>4. HelloInv(c)' /\ ServingInv(c)'
    BY <1>2, <2>1, <2>2 DEF HelloInv, ServingInv, Serves
  <2>5. BackInv(c)' /\ AwaitInv(c)'
    BY <1>1, <1>2, <2>1, BackTaken DEF ConnInv, AwaitInv
  <2> QED BY <1>3, <2>3, <2>4, <2>5 DEF ConnInv
<1>7. CASE HandlerRegisters(c)
  <2>1. /\ handler[c] = "pushing" /\ handler'[c] = "serving" /\ up' = up
        /\ UNCHANGED <<toAgent, toBroker, awaiting>>
    BY <1>1, <1>7 DEF HandlerRegisters, MayRegister, TypeInv, TypeOK, handlerVars,
       wireVars
  <2> QED BY <1>1, <1>2, <1>3, <2>1 DEF ConnInv, HelloInv, ConfigInv, ServingInv,
             Serves, Taken, BackInv, AwaitInv
<1>8. CASE HandlerQuits(c) \/ HandlerExits(c)
  <2>1. /\ handler[c] # "none" /\ handler'[c] = "done" /\ toBroker'[c] = << >>
        /\ UNCHANGED <<toAgent, awaiting>>
    BY <1>1, <1>8 DEF HandlerQuits, HandlerExits, TypeInv, TypeOK, registryVars
  <2>2. HelloInv(c)' /\ ConfigInv(c)' /\ ServingInv(c)'
    BY <1>1, <1>2, <2>1 DEF ConnInv, HelloInv, ConfigInv, ServingInv, Serves, Taken
  <2>3. BackInv(c)' /\ AwaitInv(c)'
    BY <1>1, <1>2, <2>1, BackEmpty DEF ConnInv, AwaitInv
  <2> QED BY <1>3, <2>2, <2>3 DEF ConnInv
<1>9. CASE \/ HandlerTakesError(c) \/ HandlerTakesResult(c)
           \/ HandlerTakesImage(c) \/ HandlerIgnores(c)
  <2>1. /\ handler[c] = "serving" /\ UNCHANGED <<handler, up, toAgent>>
        /\ toBroker[c] # << >> /\ toBroker'[c] = Tail(toBroker[c])
    BY <1>1, <1>9 DEF HandlerTakesError, HandlerTakesResult, HandlerTakesImage,
       HandlerIgnores, handlerVars, TypeInv, TypeOK
  <2>2. HelloInv(c)' /\ ConfigInv(c)' /\ ServingInv(c)'
    BY <1>1, <1>2, <2>1 DEF ConnInv, HelloInv, ConfigInv, ServingInv, Serves, Taken
  <2>3. BackInv(c)'
    BY <1>1, <1>2, <2>1, BackTaken DEF ConnInv
  <2>4. AwaitInv(c)'
    <3>1. CASE HandlerTakesResult(c)
      <4>1. runs[Addressee(c)] = 1
        BY <3>1, HeadPerformed DEF HandlerTakesResult, Addressee
      <4>2. awaiting'[c] \in {awaiting[c], Addressee(c)}
        BY <1>1, <3>1 DEF HandlerTakesResult, TypeInv, TypeOK
      <4> QED BY <1>1, <1>2, <4>1, <4>2 DEF ConnInv, AwaitInv
    <3>2. CASE ~ HandlerTakesResult(c)
      <4>1. awaiting'[c] \in {awaiting[c], None}
        BY <1>1, <1>9, <3>2 DEF HandlerTakesError, HandlerTakesImage, HandlerIgnores,
           TypeInv, TypeOK, registryVars
      <4> QED BY <1>1, <1>2, <4>1 DEF ConnInv, AwaitInv
    <3> QED BY <3>1, <3>2
  <2> QED BY <1>3, <2>2, <2>3, <2>4 DEF ConnInv
<1> QED BY <1>5, <1>6, <1>7, <1>8, <1>9 DEF HandlerStep

(* A future is settled with an answer only when the command was performed. *)
LEMMA HandlerSettles ==
  ASSUME PromiseInv, NEW c \in Conns, HandlerStep(c), NEW r \in Calls,
         future'[r].state \in {"result", "error"}
  PROVE  runs[r] = 1
<1>1. /\ TypeInv /\ AwaitInv(c)
      /\ future[r].state \in {"result", "error"} => runs[r] = 1
  BY DEF PromiseInv, OrderInv, ConnInv, KeptInv, CallInv
<1>2. CASE HandlerTakesError(c)
  <2>1. future'[r] = future[r] \/ r = Addressee(c)
    BY <1>1, <1>2 DEF HandlerTakesError, TypeInv, TypeOK
  <2>2. runs[Addressee(c)] = 1
    BY <1>2, HeadPerformed DEF HandlerTakesError, Addressee
  <2> QED BY <1>1, <2>1, <2>2
<1>3. CASE HandlerTakesResult(c)
  <2>1. future'[r] = future[r] \/ r = Addressee(c)
    BY <1>1, <1>3 DEF HandlerTakesResult, TypeInv, TypeOK
  <2>2. runs[Addressee(c)] = 1
    BY <1>3, HeadPerformed DEF HandlerTakesResult, Addressee
  <2> QED BY <1>1, <2>1, <2>2
<1>4. CASE HandlerTakesImage(c)
  <2>1. future'[r] = future[r] \/ r = awaiting[c]
    BY <1>1, <1>4 DEF HandlerTakesImage, TypeInv, TypeOK
  <2>2. runs[awaiting[c]] = 1
    BY <1>1, <1>4 DEF HandlerTakesImage, AwaitInv
  <2> QED BY <1>1, <2>1, <2>2
<1>5. CASE HandlerExits(c)
  <2>1. future'[r] \in {future[r], Future("gone", None, None)}
    BY <1>1, <1>5 DEF HandlerExits, Unregister, TypeInv, TypeOK
  <2> QED BY <1>1, <2>1 DEF Future
<1>6. CASE future' = future
  BY <1>1, <1>6
<1> QED BY <1>2, <1>3, <1>4, <1>5, <1>6 DEF HandlerStep, HandlerAccepts,
           HandlerRejects, HandlerPushesConfig, HandlerRegisters, HandlerQuits,
           HandlerIgnores, registryVars

(* A handler's step, and the loss of a transport, keep both.               *)
LEMMA HandlerKeepsPromiseInv ==
  ASSUME PromiseInv, NEW c \in Conns, HandlerStep(c) \/ TransportLost(c)
  PROVE  OrderInv' /\ KeptInv'
<1>1. TypeInv /\ OrderInv /\ KeptInv
  BY DEF PromiseInv
<1>2. UNCHANGED <<conn, stage, outcome, runs>>
  BY DEF HandlerStep, HandlerAccepts, HandlerRejects, HandlerPushesConfig,
     HandlerRegisters, HandlerQuits, HandlerTakesError, HandlerTakesResult,
     HandlerTakesImage, HandlerIgnores, HandlerExits, TransportLost, callVars,
     historyVars
<1>3. KeepsRuns
  BY <1>2 DEF KeepsRuns
<1>4. ASSUME NEW d \in Conns PROVE KeepsSent(d)
  BY <1>1, <1>2 DEF KeepsSent, OrderInv, ConnInv, SentInv
<1>5. ASSUME NEW d \in Conns, Keeps(d) PROVE ConnInv(d)'
  BY <1>1, <1>3, <1>4, <1>5, KeptElsewhere DEF OrderInv
<1>6. ASSUME NEW d \in Conns PROVE ConnInv(d)'
  <2>1. CASE d # c
    BY <1>1, <1>5, <2>1, StepElsewhere
  <2>2. CASE d = c /\ HandlerStep(c)
    BY <2>2, HandlerKeepsConn
  <2>3. CASE TransportLost(c)
    <3>1. Keeps(d)
      BY <1>1, <2>3 DEF TransportLost, Keeps, TypeInv, TypeOK, registryVars,
         agentVars, wireVars, historyVars
    <3> QED BY <1>5, <3>1
  <2> QED BY <2>1, <2>2, <2>3
<1>7. ASSUME NEW r \in Calls PROVE CallInv(r)'
  <2>1. future'[r].state \in {"result", "error"} => runs[r] = 1
    <3>1. CASE HandlerStep(c)
      BY <3>1, HandlerSettles
    <3>2. CASE TransportLost(c)
      BY <1>1, <3>2 DEF TransportLost, registryVars, KeptInv, CallInv
    <3> QED BY <3>1, <3>2
  <2> QED BY <1>1, <1>2, <2>1 DEF KeptInv, CallInv
<1> QED BY <1>6, <1>7 DEF OrderInv, KeptInv

-----------------------------------------------------------------------------
(* The calls' steps.                                                       *)

(* A request is written behind those already sent on its connection.       *)
LEMMA StartingKeepsConn ==
  ASSUME PromiseInv, NEW r \in Calls, CallStarts(r),
         NEW c \in Conns, c = registered[Target[r]], up[c], KeepsSent(c)
  PROVE  ConnInv(c)'
<1> DEFINE n == Len(sent[c])
           m == Len(toAgent[c])
           f == Frame("request", r)
<1>1. TypeInv /\ ConnInv(c) /\ f \in ToAgentFrames
  BY FrameTypes DEF PromiseInv, OrderInv
<1>2. handler[c] = "serving"
  BY CallsAssumption DEF PromiseInv, RegistryInv, CallStarts
<1>3. stage[r] = "idle" /\ runs[r] = 0
  BY DEF PromiseInv, KeptInv, CallInv, CallStarts
<1>4. /\ UNCHANGED <<agent, job, handler, up, awaiting, toBroker, runs>>
      /\ conn'[r] = c /\ stage'[r] = "sending"
      /\ toAgent'[c] = Append(toAgent[c], f) /\ sent'[c] = Append(sent[c], r)
  BY <1>1, Written DEF CallStarts, handlerVars, agentVars, TypeInv, TypeOK
<1>5. /\ n \in Nat /\ Len(sent'[c]) = n + 1 /\ sent'[c][n + 1] = r
      /\ \A i \in 1..n : sent'[c][i] = sent[c][i]
  BY <1>1, <1>4, TypesAt, Appended
<1>6. /\ m \in Nat /\ Len(toAgent'[c]) = m + 1 /\ toAgent'[c][m + 1] = f
      /\ \A i \in 1..m : toAgent'[c][i] = toAgent[c][i]
      /\ toAgent'[c] # << >>
      /\ toAgent[c] # << >> => m # 0 /\ Head(toAgent'[c]) = Head(toAgent[c])
  <2> HIDE DEF f
  <2>1. toAgent[c] \in Seq(ToAgentFrames)
    BY <1>1, TypesAt
  <2>2. /\ m \in Nat /\ Len(Append(toAgent[c], f)) = m + 1
        /\ Append(toAgent[c], f)[m + 1] = f
        /\ \A i \in 1..m : Append(toAgent[c], f)[i] = toAgent[c][i]
        /\ Append(toAgent[c], f) # << >>
        /\ toAgent[c] # << >> =>
             m # 0 /\ Head(Append(toAgent[c], f)) = Head(toAgent[c])
    BY <1>1, <2>1, Appended
  <2> QED BY <1>4, <2>2
<1>7. \A i \in 1..n : /\ sent[c][i] \in Calls \ {r} /\ conn'[sent[c][i]] = c
                      /\ stage'[sent[c][i]] # "idle"
                      /\ runs[sent[c][i]] \in {0, 1}
  <2> TAKE i \in 1..n
  <2>1. sent[c][i] \in Calls /\ stage[sent[c][i]] # "idle" /\ conn[sent[c][i]] = c
    BY <1>1, TypesAt DEF ConnInv, SentInv
  <2> QED BY <1>3, <2>1 DEF KeepsSent, PromiseInv, KeptInv, CallInv
<1> HIDE DEF n, m, f
<1>8. HelloInv(c)' /\ JobInv(c)' /\ BackInv(c)' /\ AwaitInv(c)'
  BY <1>1, <1>2, <1>4 DEF ConnInv, HelloInv, JobInv, BackInv, AwaitInv
<1>9. SentInv(c)'
  <2> SUFFICES ASSUME NEW i \in 1..(n + 1)
               PROVE  /\ conn'[sent'[c][i]] = c
                      /\ stage'[sent'[c][i]] # "idle"
                      /\ \A j \in 1..(n + 1) : i < j =>
                           /\ sent'[c][i] # sent'[c][j]
                           /\ runs[sent'[c][i]] >= runs[sent'[c][j]]
    BY <1>4, <1>5 DEF SentInv
  <2>1. conn'[sent'[c][i]] = c /\ stage'[sent'[c][i]] # "idle"
    <3>1. CASE i = n + 1
      BY <1>4, <1>5, <3>1
    <3>2. CASE i \in 1..n
      BY <1>5, <1>7, <3>2
    <3> QED BY <1>5, <3>1, <3>2
  <2>2. ASSUME NEW j \in 1..(n + 1), i < j
        PROVE  sent'[c][i] # sent'[c][j] /\ runs[sent'[c][i]] >= runs[sent'[c][j]]
    <3>1. i \in 1..n
      BY <1>5, <2>2
    <3>2. CASE j = n + 1
      BY <1>3, <1>5, <1>7, <3>1, <3>2
    <3>3. CASE j \in 1..n
      BY <1>1, <1>5, <2>2, <3>1, <3>3 DEF ConnInv, SentInv, n
    <3> QED BY <1>5, <3>2, <3>3
  <2> QED BY <2>1, <2>2
<1>10. ConfigInv(c)'
  <2> SUFFICES ASSUME agent[c] = "config" PROVE ConfigInv(c)'
    BY <1>4 DEF ConfigInv
  <2>1. /\ toAgent[c] # << >> /\ Head(toAgent[c]).kind = "config" /\ m = n + 1
        /\ \A j \in 1..n : toAgent[c][j + 1] = Frame("request", sent[c][j])
                           /\ runs[sent[c][j]] = 0
    BY <1>1, <1>2 DEF ConnInv, ConfigInv, m, n
  <2>2. ASSUME NEW j \in 1..(n + 1)
        PROVE  toAgent'[c][j + 1] = Frame("request", sent'[c][j]) /\ runs[sent'[c][j]] = 0
    <3>1. CASE j = n + 1
      BY <1>3, <1>5, <1>6, <2>1, <3>1 DEF f
    <3>2. CASE j \in 1..n
      <4>1. j + 1 \in 1..m
        BY <1>5, <2>1, <3>2
      <4>2. toAgent'[c][j + 1] = toAgent[c][j + 1] /\ sent'[c][j] = sent[c][j]
        BY <1>5, <1>6, <3>2, <4>1
      <4> QED BY <2>1, <3>2, <4>2
    <3> QED BY <1>5, <3>1, <3>2
  <2> QED BY <1>2, <1>4, <1>5, <1>6, <2>1, <2>2 DEF ConfigInv
<1>11. ServingInv(c)'
  <2> SUFFICES ASSUME Serves(c) PROVE ServingInv(c)'
    BY <1>4 DEF ServingInv, Serves
  <2> DEFINE t == Taken(c)
  <2>1. /\ t \in Nat /\ t = n - m
        /\ \A j \in 1..m : toAgent[c][j] = Frame("request", sent[c][t + j])
        /\ \A j \in 1..n : runs[sent[c][j]] = IF j <= t THEN 1 ELSE 0
    BY <1>1 DEF ConnInv, ServingInv, Taken, m, n
  <2>2. Taken(c)' = Len(sent'[c]) - Len(toAgent'[c])
    BY <1>4 DEF Taken
  <2> HIDE DEF t
  <2>3. Taken(c)' = t
    BY <1>5, <1>6, <2>1, <2>2
  <2>4. ASSUME NEW j \in 1..(m + 1)
        PROVE  toAgent'[c][j] = Frame("request", sent'[c][t + j])
    <3>1. CASE j = m + 1
      <4>1. t + j = n + 1
        BY <1>5, <1>6, <2>1, <3>1
      <4> QED BY <1>5, <1>6, <3>1, <4>1 DEF f
    <3>2. CASE j \in 1..m
      <4>1. t + j \in 1..n
        BY <1>5, <1>6, <2>1, <3>2
      <4> QED BY <1>5, <1>6, <2>1, <3>2, <4>1
    <3> QED BY <1>6, <3>1, <3>2
  <2>5. ASSUME NEW j \in 1..(n + 1)
        PROVE  runs[sent'[c][j]] = IF j <= t THEN 1 ELSE 0
    <3>1. CASE j = n + 1
      BY <1>3, <1>5, <1>6, <2>1, <3>1
    <3>2. CASE j \in 1..n
      BY <1>5, <2>1, <3>2
    <3> QED BY <1>5, <3>1, <3>2
  <2>6. \A j \in 1..Len(toAgent'[c]) : toAgent'[c][j] = Frame("request", sent'[c][t + j])
    BY <1>6, <2>4
  <2>7. \A j \in 1..Len(sent'[c]) : runs'[sent'[c][j]] = IF j <= t THEN 1 ELSE 0
    BY <1>4, <1>5, <2>5
  <2>8. handler'[c] \in {"pushing", "serving", "done"}
    BY <1>2, <1>4
  <2> QED BY <2>1, <2>3, <2>6, <2>7, <2>8 DEF ServingInv
<1> QED BY <1>8, <1>9, <1>10, <1>11 DEF ConnInv

LEMMA CallKeepsPromiseInv ==
  ASSUME PromiseInv, NEW r \in Calls, CallStep(r)
  PROVE  OrderInv' /\ KeptInv'
<1>1. TypeInv /\ OrderInv /\ KeptInv
  BY DEF PromiseInv
<1>2. UNCHANGED <<agent, job, handler, up, awaiting, toBroker, runs>>
  BY DEF CallStep, CallRefused, CallStarts, CallSent, CallSendFails, CallAnswered,
     CallExpires, CallTimesOut, registryVars, handlerVars, agentVars, wireVars,
     historyVars
<1>3. KeepsRuns
  BY <1>2 DEF KeepsRuns
<1>4. /\ \A x \in Calls \ {r} : conn'[x] = conn[x] /\ stage'[x] = stage[x]
      /\ stage'[r] # "idle" /\ (stage[r] # "idle" => conn'[r] = conn[r])
  BY <1>1 DEF CallStep, CallRefused, CallStarts, CallSent, CallSendFails, CallAnswered,
     CallExpires, CallTimesOut, TimerRuns, Ends, callVars, TypeInv, TypeOK
<1>5. ASSUME NEW d \in Conns PROVE KeepsSent(d)
  <2>1. \A i \in 1..Len(sent[d]) : sent[d][i] \in Calls /\ stage[sent[d][i]] # "idle"
    BY <1>1, TypesAt DEF OrderInv, ConnInv, SentInv
  <2> QED BY <1>2, <1>4, <2>1 DEF KeepsSent
<1>6. ASSUME NEW d \in Conns, toAgent'[d] = toAgent[d], sent'[d] = sent[d]
      PROVE  ConnInv(d)'
  <2>1. Keeps(d)
    BY <1>2, <1>6 DEF Keeps
  <2> QED BY <1>1, <1>3, <1>5, <2>1, KeptElsewhere DEF OrderInv
<1>7. OrderInv'
  <2>1. CASE CallStarts(r)
    <3> DEFINE c == registered[Target[r]]
    <3>1. c \in Conns
      <4>1. Target[r] \in Machines /\ registered[Target[r]] # None
        BY <2>1, CallsAssumption DEF CallStarts
      <4> QED BY <1>1, <4>1 DEF TypeInv, TypeOK
    <3>2. ASSUME NEW d \in Conns, d # c \/ ~ up[c] PROVE ConnInv(d)'
      <4>1. toAgent'[d] = toAgent[d] /\ sent'[d] = sent[d]
        BY <1>1, <2>1, <3>1, <3>2, Written DEF CallStarts, TypeInv, TypeOK
      <4> QED BY <1>6, <4>1
    <3>3. CASE up[c]
      <4>1. PICK d \in Conns : d = c
        BY <3>1
      <4>2. ConnInv(d)'
        BY <1>5, <2>1, <3>3, <4>1, StartingKeepsConn
      <4> QED BY <3>2, <4>1, <4>2 DEF OrderInv
    <3>4. CASE ~ up[c]
      BY <3>2, <3>4 DEF OrderInv
    <3> QED BY <3>3, <3>4
  <2>2. CASE ~ CallStarts(r)
    <3>1. UNCHANGED <<toAgent, sent>>
      BY <2>2 DEF CallStep, CallRefused, CallSent, CallSendFails, CallAnswered,
         CallExpires, CallTimesOut, wireVars, historyVars
    <3> QED BY <1>6, <3>1 DEF OrderInv
  <2> QED BY <2>1, <2>2
<1>8. ASSUME NEW x \in Calls PROVE CallInv(x)'
  <2> USE <1>1 DEF KeptInv, CallInv, TypeInv, TypeOK, Ends, registryVars
  <2>1. CASE CallRefused(r)
    BY <1>2, <2>1 DEF CallRefused
  <2>2. CASE CallStarts(r)
    BY <1>2, <2>2, CallsAssumption, MaxConnAssumption, NoneAssumption
       DEF CallStarts, Future, Conns
  <2>3. CASE CallSent(r)
    BY <1>2, <2>3 DEF CallSent
  <2>4. CASE CallSendFails(r)
    BY <1>2, <2>4 DEF CallSendFails
  <2>5. CASE CallAnswered(r)
    BY <1>2, <2>5 DEF CallAnswered
  <2>6. CASE CallExpires(r)
    BY <1>2, <2>6 DEF CallExpires, TimerRuns, callVars, Future
  <2>7. CASE CallTimesOut(r)
    BY <1>2, <2>7 DEF CallTimesOut
  <2> QED BY <2>1, <2>2, <2>3, <2>4, <2>5, <2>6, <2>7 DEF CallStep
<1> QED BY <1>7, <1>8 DEF KeptInv

(* PromiseInv is inductive.                                                *)
LEMMA PromiseInvInductive == PromiseInv /\ [Next]_vars => PromiseInv'
<1> SUFFICES ASSUME PromiseInv, [Next]_vars PROVE OrderInv' /\ KeptInv'
  BY TypeInvInductive, RegistryInvInductive DEF PromiseInv
<1>1. CASE UNCHANGED vars
  <2>1. /\ UNCHANGED <<registryVars, callVars, handlerVars, agentVars, wireVars>>
        /\ UNCHANGED historyVars
    BY <1>1 DEF vars
  <2>2. ASSUME NEW d \in Conns PROVE ConnInv(d)'
    <3>1. Keeps(d) /\ KeepsSent(d) /\ KeepsRuns
      BY <2>1 DEF Keeps, KeepsSent, KeepsRuns, PromiseInv, OrderInv, ConnInv, SentInv,
         registryVars, callVars, handlerVars, agentVars, wireVars, historyVars
    <3> QED BY <3>1, KeptElsewhere DEF PromiseInv, OrderInv
  <2>3. KeptInv'
    BY <2>1 DEF PromiseInv, KeptInv, CallInv, registryVars, callVars, historyVars
  <2> QED BY <2>2, <2>3 DEF OrderInv
<1> QED BY <1>1, AgentKeepsPromiseInv, HandlerKeepsPromiseInv, CallKeepsPromiseInv
           DEF Next

LEMMA PromiseInvariant == Spec => []PromiseInv
BY PromiseInit, PromiseInvInductive, PTL DEF Spec

-----------------------------------------------------------------------------
(* The order of frames and commands.                                       *)

(* The first frame after the handshake ack is the config push, and every   *)
(* one after it is a request: no request overtakes the push that           *)
(* ws_server.handler sends before it registers the connection.             *)
THEOREM ConfigFirst == Spec => []ConfigComesFirst
<1>1. PromiseInv => ConfigComesFirst
  <2> SUFFICES ASSUME PromiseInv, NEW c \in Conns, toAgent[c] # << >>
               PROVE  /\ agent[c] = "config" => Head(toAgent[c]).kind = "config"
                      /\ agent[c] = "idle" => Head(toAgent[c]).kind = "request"
    BY DEF ConfigComesFirst
  <2>1. TypeInv /\ ConfigInv(c) /\ ServingInv(c)
    BY DEF PromiseInv, OrderInv, ConnInv
  <2>2. 1 \in 1..Len(toAgent[c]) /\ Head(toAgent[c]) = toAgent[c][1]
    BY <2>1, TypesAt, Consumed
  <2>3. agent[c] = "config" => Head(toAgent[c]).kind = "config"
    BY <2>1 DEF ConfigInv
  <2>4. ASSUME agent[c] = "idle" PROVE Head(toAgent[c]).kind = "request"
    <3>1. toAgent[c][1] = Frame("request", sent[c][Taken(c) + 1])
      BY <2>1, <2>2, <2>4 DEF ServingInv, Serves
    <3> QED BY <2>2, <3>1 DEF Frame
  <2> QED BY <2>3, <2>4
<1> QED BY <1>1, PromiseInvariant, PTL

(* On one connection commands are performed in the order in which the      *)
(* broker sent them, each once: what ws_client.run has dispatched is a     *)
(* prefix of what ConnectionRegistry.call has written.                     *)
THEOREM InOrder == Spec => []PerformedInOrder
<1>1. PromiseInv => PerformedInOrder
  <2> SUFFICES ASSUME PromiseInv, NEW c \in Conns, NEW i \in DOMAIN sent[c],
                      NEW j \in DOMAIN sent[c], i < j
               PROVE  sent[c][i] # sent[c][j] /\ runs[sent[c][i]] >= runs[sent[c][j]]
    BY DEF PerformedInOrder
  <2>1. TypeInv /\ SentInv(c)
    BY DEF PromiseInv, OrderInv, ConnInv
  <2>2. DOMAIN sent[c] = 1..Len(sent[c])
    BY <2>1, TypesAt, LenProperties
  <2> QED BY <2>1, <2>2 DEF SentInv
<1> QED BY <1>1, PromiseInvariant, PTL

-----------------------------------------------------------------------------
(* The promise of module AtMostOnce.                                       *)

Replies == [r \in Calls |-> Reply(r)]
Open == {r \in Calls : stage[r] \in {"sending", "waiting"}}

(* A step that ends no call and starts none changes no reply.              *)
LEMMA SameReplies ==
  ASSUME UNCHANGED <<stage, outcome>>
  PROVE  UNCHANGED <<Replies, Open>>
BY DEF Replies, Reply, Open

(* A call that ends leaves the open ones, with its reply.                  *)
LEMMA EndingReplies ==
  ASSUME TypeInv, NEW r \in Calls, NEW how, Ends(r, how)
  PROVE  Replies' = [Replies EXCEPT ![r] = Reply(r)'] /\ Open' = Open \ {r}
<1>1. \A x \in Calls : x # r => outcome'[x] = outcome[x] /\ stage'[x] = stage[x]
  BY DEF Ends, TypeInv, TypeOK
<1>2. stage'[r] = "done"
  BY DEF Ends, TypeInv, TypeOK
<1>3. \A x \in Calls : x # r => Reply(x)' = Reply(x)
  BY <1>1 DEF Reply
<1>4. Replies' = [Replies EXCEPT ![r] = Reply(r)']
  BY <1>3 DEF Replies
<1>5. Open' = Open \ {r}
  BY <1>1, <1>2 DEF Open
<1> QED BY <1>4, <1>5

(* A command that is taken belongs to a call that is open, or that ended   *)
(* without saying whether the command was performed.                       *)
LEMMA PerformsPromised ==
  ASSUME PromiseInv, NEW c \in Conns, AgentTakesRequest(c)
  PROVE  Promise!Next
<1> DEFINE r == Head(toAgent[c]).of
<1>1. /\ r \in Calls /\ conn[r] = c /\ stage[r] # "idle" /\ runs[r] = 0
      /\ runs' = [runs EXCEPT ![r] = 1]
  BY NextRequest
<1> HIDE DEF r
<1>2. UNCHANGED <<Replies, Open>>
  BY SameReplies DEF AgentTakesRequest, callVars
<1>3. c # None
  BY MaxConnAssumption, NoneAssumption DEF Conns
<1>4. r \in Open \/ Replies[r] = "unknown"
  BY <1>1, <1>3 DEF PromiseInv, KeptInv, CallInv, TypeInv, TypeOK, Open, Replies, Reply
<1>5. Promise!Perform(r)
  BY <1>1, <1>2, <1>4 DEF Promise!Perform, Replies, Open
<1> QED BY <1>1, <1>5 DEF Promise!Next

(* What a call's step does to its promise.                                 *)
LEMMA CallsPromised ==
  ASSUME PromiseInv, NEW r \in Calls, CallStep(r)
  PROVE  [Promise!Next]_Promise!vars
<1>1. TypeInv /\ CallInv(r)
  BY DEF PromiseInv, KeptInv
<1>2. runs' = runs
  BY DEF CallStep, CallRefused, CallStarts, CallSent, CallSendFails, CallAnswered,
     CallExpires, CallTimesOut, historyVars
<1>3. CASE CallRefused(r)
  <2>1. stage[r] = "idle" /\ Ends(r, "not_connected")
    BY <1>3 DEF CallRefused
  <2>2. Reply(r) = "none" /\ Reply(r)' = "refused" /\ r \notin Open
    BY <1>1, <2>1 DEF CallInv, Ends, Reply, Open, TypeInv, TypeOK
  <2>3. Promise!Refuse(r)
    BY <1>1, <1>2, <2>1, <2>2, EndingReplies
       DEF Promise!Refuse, Promise!Fresh, Replies, Open
  <2> QED BY <2>3 DEF Promise!Next
<1>4. CASE CallStarts(r)
  <2>1. stage[r] = "idle" /\ stage' = [stage EXCEPT ![r] = "sending"] /\ outcome' = outcome
    BY <1>4 DEF CallStarts
  <2>2. Reply(r) = "none" /\ r \notin Open /\ Open' = Open \cup {r}
    BY <1>1, <2>1 DEF CallInv, Reply, Open, TypeInv, TypeOK
  <2>3. Replies' = Replies
    BY <2>1 DEF Replies, Reply
  <2>4. Promise!Accept(r)
    BY <1>2, <2>2, <2>3 DEF Promise!Accept, Promise!Fresh, Replies, Open
  <2> QED BY <2>4 DEF Promise!Next
<1>5. CASE CallSent(r)
  <2>1. Open' = Open /\ outcome' = outcome
    BY <1>1, <1>5 DEF CallSent, Open, TypeInv, TypeOK
  <2>2. Replies' = Replies
    BY <2>1 DEF Replies, Reply
  <2> QED BY <1>2, <2>1, <2>2 DEF Promise!vars, Replies, Open
<1>6. CASE CallExpires(r)
  <2>1. UNCHANGED <<Replies, Open>>
    BY <1>6, SameReplies DEF CallExpires, callVars
  <2> QED BY <1>2, <2>1 DEF Promise!vars, Replies, Open
<1>7. ASSUME Ends(r, "ok") \/ Ends(r, "machine_error"), runs[r] = 1,
             stage[r] = "waiting"
      PROVE  Promise!Answer(r)
  <2>1. Reply(r)' \in {"ok", "error"} /\ r \in Open /\ runs[r] = 1
    BY <1>1, <1>7 DEF Ends, Reply, Open, TypeInv, TypeOK
  <2>2. Replies' = [Replies EXCEPT ![r] = Reply(r)'] /\ Open' = Open \ {r}
    BY <1>1, <1>7, EndingReplies
  <2> QED BY <1>2, <2>1, <2>2 DEF Promise!Answer, Replies, Open
<1>8. ASSUME NEW how \in {"disconnected", "timeout", "internal"}, Ends(r, how),
             stage[r] \in {"sending", "waiting"}
      PROVE  Promise!GiveUp(r)
  <2>1. Reply(r)' = "unknown" /\ r \in Open
    BY <1>1, <1>8 DEF Ends, Reply, Open, TypeInv, TypeOK
  <2>2. Replies' = [Replies EXCEPT ![r] = Reply(r)'] /\ Open' = Open \ {r}
    BY <1>1, <1>8, EndingReplies
  <2> QED BY <1>2, <2>1, <2>2 DEF Promise!GiveUp, Replies, Open
<1>9. CASE CallAnswered(r) \/ CallSendFails(r) \/ CallTimesOut(r)
  <2>1. Promise!Answer(r) \/ Promise!GiveUp(r)
    BY <1>1, <1>7, <1>8, <1>9 DEF CallAnswered, CallSendFails, CallTimesOut, CallInv
  <2> QED BY <2>1 DEF Promise!Next
<1> QED BY <1>3, <1>4, <1>5, <1>6, <1>9 DEF CallStep

(* The broker keeps its promise: every command is performed at most once,  *)
(* an answer means that it was performed, a 404 before sending that it     *)
(* never will be (ConnectionRegistry.call, http_api._call).                *)
THEOREM KeepsPromise == Spec => ImplementsPromise
<1>1. Init => Promise!Init
  BY DEF Init, Promise!Init, Reply
<1>2. PromiseInv /\ [Next]_vars => [Promise!Next]_Promise!vars
  <2> SUFFICES ASSUME PromiseInv, [Next]_vars PROVE [Promise!Next]_Promise!vars
    OBVIOUS
  <2>1. CASE UNCHANGED <<stage, outcome, runs>>
    BY <2>1, SameReplies DEF Promise!vars, Replies, Open
  <2>2. ASSUME NEW c \in Conns, AgentStep(c) PROVE [Promise!Next]_Promise!vars
    BY <2>1, <2>2, PerformsPromised DEF AgentStep, AgentConnects, AgentReportsMonitors,
       AgentIsRejected, AgentTakesConfig, AgentReportsError, AgentReportsResult,
       AgentSendsImage, AgentLost, callVars, historyVars
  <2>3. ASSUME NEW c \in Conns, HandlerStep(c) \/ TransportLost(c)
        PROVE  [Promise!Next]_Promise!vars
    BY <2>1, <2>3 DEF HandlerStep, HandlerAccepts, HandlerRejects, HandlerPushesConfig,
       HandlerRegisters, HandlerQuits, HandlerTakesError, HandlerTakesResult,
       HandlerTakesImage, HandlerIgnores, HandlerExits, TransportLost, callVars,
       historyVars
  <2>4. CASE UNCHANGED vars
    BY <2>1, <2>4 DEF vars, callVars, historyVars
  <2> QED BY <2>2, <2>3, <2>4, CallsPromised DEF Next
<1> QED BY <1>1, <1>2, PromiseInvariant, PTL DEF Spec, ImplementsPromise, Promise!Spec

-----------------------------------------------------------------------------
(* One machine over its connections.                                       *)

USE KnownAssumption, MaxConnAssumption, CallsAssumption, NoneAssumption DEF Conns

(* Connections are opened in the order of their numbers, and the loop of a *)
(* machine opens one only after it has left those it opened before         *)
(* (ws_client.run): only the newest is served.                             *)
LoopInv ==
  \A c, d \in Conns : d < c /\ owner[c] # None =>
    /\ owner[d] # None
    /\ owner[d] = owner[c] => agent[d] = "gone"

(* A call was sent to a connection that its target had opened, with the    *)
(* right key.                                                              *)
AddressInv ==
  \A r \in Calls : conn[r] # None => Target[r] \in Known /\ owner[conn[r]] = Target[r]

(* LoopInv and AddressInv are inductive.                                   *)
LEMMA LoopInvInductive ==
  /\ Init => LoopInv /\ AddressInv
  /\ TypeInv /\ RegistryInv /\ LoopInv /\ AddressInv /\ [Next]_vars =>
       LoopInv' /\ AddressInv'
<1> USE DEF TypeInv, TypeOK, vars, registryVars, callVars, handlerVars, agentVars,
            wireVars, historyVars
<1>1. Init => LoopInv /\ AddressInv
  BY DEF Init, LoopInv, AddressInv
<1>2. ASSUME TypeInv, RegistryInv, LoopInv, AddressInv, [Next]_vars
      PROVE  LoopInv' /\ AddressInv'
  <2>1. CASE UNCHANGED <<owner, agent, conn>>
    BY <1>2, <2>1 DEF LoopInv, AddressInv
  <2>2. ASSUME UNCHANGED <<owner, conn>>,
               \A d \in Conns : agent[d] = "gone" => agent'[d] = "gone"
        PROVE  LoopInv' /\ AddressInv'
    BY <1>2, <2>2 DEF LoopInv, AddressInv
  <2>3. ASSUME NEW c \in Conns, AgentStep(c) PROVE LoopInv' /\ AddressInv'
    <3>1. ASSUME NEW m \in Machines, AgentConnects(m, c) PROVE LoopInv' /\ AddressInv'
      <4>1. /\ owner[c] = None /\ m # None /\ conn' = conn
            /\ owner' = [owner EXCEPT ![c] = m]
            /\ agent' = [agent EXCEPT ![c] = "hello"]
            /\ \A d \in Conns : d < c => owner[d] # None
            /\ \A d \in Conns : owner[d] = m => agent[d] = "gone"
        BY <3>1 DEF AgentConnects
      <4>2. LoopInv'
        <5> SUFFICES ASSUME NEW e \in Conns, NEW d \in Conns, d < e, owner'[e] # None
                     PROVE  owner'[d] # None /\ (owner'[d] = owner'[e] => agent'[d] = "gone")
          BY DEF LoopInv
        <5>1. CASE e = c
          <6>1. d # c /\ owner'[d] = owner[d] /\ agent'[d] = agent[d] /\ owner'[e] = m
            BY <4>1, <5>1
          <6> QED BY <4>1, <5>1, <6>1
        <5>2. CASE e # c
          <6>1. owner'[e] = owner[e] /\ owner[d] # None /\ d # c
            BY <1>2, <4>1, <5>2 DEF LoopInv
          <6>2. owner'[d] = owner[d] /\ agent'[d] = agent[d]
            BY <4>1, <6>1
          <6> QED BY <1>2, <6>1, <6>2 DEF LoopInv
        <5> QED BY <5>1, <5>2
      <4>3. AddressInv'
        <5> SUFFICES ASSUME NEW r \in Calls, conn[r] # None
                     PROVE  Target[r] \in Known /\ owner'[conn[r]] = Target[r]
          BY <4>1 DEF AddressInv
        <5>1. conn[r] \in Conns /\ owner[conn[r]] = Target[r] /\ Target[r] \in Known
          BY <1>2 DEF AddressInv
        <5>2. conn[r] # c
          BY <4>1, <5>1
        <5> QED BY <4>1, <5>1, <5>2
      <4> QED BY <4>2, <4>3
    <3>2. CASE ~ \E m \in Machines : AgentConnects(m, c)
      <4>1. /\ UNCHANGED <<owner, conn>>
            /\ \A d \in Conns : agent[d] = "gone" => agent'[d] = "gone"
        BY <1>2, <2>3, <3>2 DEF AgentStep, AgentReportsMonitors, AgentIsRejected,
           AgentTakesConfig, AgentTakesRequest, AgentReportsError,
           AgentReportsResult, AgentSendsImage, AgentLost
      <4> QED BY <2>2, <4>1
    <3> QED BY <3>1, <3>2
  <2>4. ASSUME NEW c \in Conns, HandlerStep(c) \/ TransportLost(c)
        PROVE  LoopInv' /\ AddressInv'
    BY <2>1, <2>4 DEF HandlerStep, HandlerAccepts, HandlerRejects, HandlerPushesConfig,
       HandlerRegisters, HandlerQuits, HandlerTakesError, HandlerTakesResult,
       HandlerTakesImage, HandlerIgnores, HandlerExits, TransportLost
  <2>5. ASSUME NEW r \in Calls, CallStep(r) PROVE LoopInv' /\ AddressInv'
    <3>1. CASE CallStarts(r)
      <4>1. /\ registered[Target[r]] # None /\ UNCHANGED <<owner, agent>>
            /\ conn' = [conn EXCEPT ![r] = registered[Target[r]]]
        BY <3>1 DEF CallStarts
      <4>2. /\ Target[r] \in Machines /\ registered[Target[r]] \in Conns
            /\ owner[registered[Target[r]]] = Target[r] /\ Target[r] \in Known
        BY <1>2, <4>1 DEF RegistryInv
      <4> QED BY <1>2, <4>1, <4>2 DEF LoopInv, AddressInv
    <3>2. CASE UNCHANGED <<owner, agent, conn>>
      BY <2>1, <3>2
    <3> QED BY <2>5, <3>1, <3>2 DEF CallStep, CallRefused, CallSent, CallSendFails,
               CallAnswered, CallExpires, CallTimesOut, Ends
  <2> QED BY <1>2, <2>1, <2>3, <2>4, <2>5 DEF Next
<1> QED BY <1>1, <1>2

MachineInv == PromiseInv /\ LoopInv /\ AddressInv

LEMMA MachineInvariant == Spec => []MachineInv
<1>1. Init => MachineInv
  BY PromiseInit, LoopInvInductive DEF MachineInv
<1>2. MachineInv /\ [Next]_vars => MachineInv'
  BY PromiseInvInductive, LoopInvInductive DEF MachineInv, PromiseInv
<1> QED BY <1>1, <1>2, PTL DEF Spec

(* A machine performs one command at a time, over all its connections: a   *)
(* call that was sent before a reconnect never runs beside one sent after  *)
(* it (ws_client.run opens a connection after it has left the last one).   *)
OneCommandAtATime ==
  \A c, d \in Conns :
    /\ agent[c] \in {"busy", "image"} /\ agent[d] \in {"busy", "image"}
    /\ owner[c] = owner[d]
    => c = d

THEOREM Sequential == Spec => []OneCommandAtATime
<1>1. MachineInv => OneCommandAtATime
  <2> SUFFICES ASSUME MachineInv, NEW c \in Conns, NEW d \in Conns, d < c,
                      agent[c] \in {"busy", "image"}, owner[c] = owner[d]
               PROVE  agent[d] = "gone"
    BY DEF OneCommandAtATime
  <2>1. owner[c] # None
    BY DEF MachineInv, PromiseInv, TypeInv, Unopened
  <2> QED BY <2>1 DEF MachineInv, LoopInv
<1> QED BY <1>1, MachineInvariant, PTL

(* What the step that performs r does, in terms of its machine.            *)
LEMMA PerformsAtTarget ==
  ASSUME MachineInv, Next, NEW r \in Calls, runs'[r] # runs[r]
  PROVE  /\ runs[r] = 0
         /\ conn[r] \in Conns
         /\ AgentTakesRequest(conn[r])
         /\ r = sent[conn[r]][Taken(conn[r]) + 1]
         /\ owner[conn[r]] = Target[r] /\ Target[r] \in Known
         /\ \A d \in Conns : owner[d] = Target[r] => d <= conn[r]
<1>1. PICK c \in Conns : AgentTakesRequest(c)
  BY DEF Next, AgentStep, HandlerStep, CallStep, AgentConnects, AgentReportsMonitors,
     AgentIsRejected, AgentTakesConfig, AgentReportsError, AgentReportsResult,
     AgentSendsImage, AgentLost, HandlerAccepts, HandlerRejects, HandlerPushesConfig,
     HandlerRegisters, HandlerQuits, HandlerTakesError, HandlerTakesResult,
     HandlerTakesImage, HandlerIgnores, HandlerExits, TransportLost, CallRefused,
     CallStarts, CallSent, CallSendFails, CallAnswered, CallExpires, CallTimesOut,
     historyVars
<1>2. agent[c] = "idle"
  BY <1>1 DEF AgentTakesRequest
<1>3. /\ r = sent[c][Taken(c) + 1] /\ conn[r] = c /\ runs[r] = 0
  <2> DEFINE x == Head(toAgent[c]).of
  <2>1. /\ x = sent[c][Taken(c) + 1] /\ conn[x] = c /\ runs[x] = 0 /\ x \in Calls
        /\ runs' = [runs EXCEPT ![x] = 1]
    BY <1>1, NextRequest DEF MachineInv
  <2> HIDE DEF x
  <2>2. r = x
    BY <2>1 DEF MachineInv, PromiseInv, TypeInv, TypeOK
  <2> QED BY <2>1, <2>2
<1>4. c # None
  OBVIOUS
<1>5. owner[c] = Target[r] /\ Target[r] \in Known
  BY <1>3, <1>4 DEF MachineInv, AddressInv
<1>6. ASSUME NEW d \in Conns, owner[d] = Target[r] PROVE d <= c
  <2>1. CASE c < d
    <3>1. owner[d] # None
      BY <1>5, <1>6
    <3> QED BY <1>2, <1>5, <1>6, <2>1, <3>1 DEF MachineInv, LoopInv
  <2> QED BY <2>1
<1> QED BY <1>1, <1>3, <1>5, <1>6

(* A command is performed by the machine it was sent for and by no other,  *)
(* on the newest connection of that machine, which the broker knows        *)
(* (ConnectionRegistry.call, ws_client.run).                               *)
OnlyTargetPerforms ==
  [][\A r \in Calls : runs'[r] # runs[r] =>
       /\ Target[r] \in Known
       /\ owner[conn[r]] = Target[r]
       /\ \A d \in Conns : owner[d] = Target[r] => d <= conn[r]]_vars

THEOREM PerformedByTarget == Spec => OnlyTargetPerforms
<1> DEFINE Performs == \A r \in Calls : runs'[r] # runs[r] =>
             /\ Target[r] \in Known
             /\ owner[conn[r]] = Target[r]
             /\ \A d \in Conns : owner[d] = Target[r] => d <= conn[r]
<1>1. MachineInv /\ [Next]_vars => [Performs]_vars
  BY PerformsAtTarget
<1> QED BY <1>1, MachineInvariant, PTL DEF Spec, OnlyTargetPerforms

(* s was sent to the machine of r after r: on a newer connection, or       *)
(* behind it on the same one.                                              *)
SentAfter(s, r) ==
  /\ Target[s] = Target[r] /\ conn[s] # None /\ conn[r] # None
  /\ \/ conn[r] < conn[s]
     \/ /\ conn[r] = conn[s]
        /\ \E i, j \in DOMAIN sent[conn[r]] :
             i < j /\ sent[conn[r]][i] = r /\ sent[conn[r]][j] = s

(* A command is never performed after one that was sent later to the same  *)
(* machine: what a caller gave up on, on this connection or on an earlier  *)
(* one, is performed before its successors or not at all.                  *)
NeverOvertaken ==
  [][\A r, s \in Calls : runs'[r] # runs[r] /\ SentAfter(s, r) => runs[s] = 0]_vars

THEOREM InTurn == Spec => NeverOvertaken
<1> DEFINE Turn == \A r, s \in Calls :
             runs'[r] # runs[r] /\ SentAfter(s, r) => runs[s] = 0
<1>1. MachineInv /\ [Next]_vars => [Turn]_vars
  <2> SUFFICES ASSUME MachineInv, Next, NEW r \in Calls, NEW s \in Calls,
                      runs'[r] # runs[r], SentAfter(s, r)
               PROVE  runs[s] = 0
    OBVIOUS
  <2> DEFINE c == conn[r]
  <2>1. /\ c \in Conns /\ AgentTakesRequest(c) /\ r = sent[c][Taken(c) + 1]
        /\ \A d \in Conns : owner[d] = Target[r] => d <= c
    BY PerformsAtTarget
  <2>2. conn[s] \in Conns /\ owner[conn[s]] = Target[r]
    BY DEF SentAfter, MachineInv, AddressInv, PromiseInv, TypeInv, TypeOK
  <2>3. conn[s] <= c
    BY <2>1, <2>2
  <2> HIDE DEF c
  <2>4. conn[s] = c /\ \E i, j \in DOMAIN sent[c] : i < j /\ sent[c][i] = r /\ sent[c][j] = s
    BY <2>1, <2>2, <2>3 DEF SentAfter, c
  <2>5. PICK i \in DOMAIN sent[c], j \in DOMAIN sent[c] :
               i < j /\ sent[c][i] = r /\ sent[c][j] = s
    BY <2>4
  <2>6. TypeInv /\ ConnInv(c) /\ DOMAIN sent[c] = 1..Len(sent[c]) /\ Len(sent[c]) \in Nat
    BY <2>1, TypesAt, LenProperties DEF MachineInv, PromiseInv, OrderInv
  <2>7. /\ Taken(c) \in Nat /\ Taken(c) + 1 \in 1..Len(sent[c])
        /\ \A k \in 1..Len(sent[c]) :
             /\ runs[sent[c][k]] = IF k <= Taken(c) THEN 1 ELSE 0
             /\ k # Taken(c) + 1 => sent[c][k] # r
    <3>1. agent[c] = "idle"
      BY <2>1 DEF AgentTakesRequest
    <3>2. /\ Taken(c) + 1 \in 1..Len(sent[c])
          /\ \A k \in 1..Len(sent[c]) : k # Taken(c) + 1 => sent[c][k] # Head(toAgent[c]).of
          /\ Head(toAgent[c]).of = sent[c][Taken(c) + 1]
      BY <2>1, NextRequest DEF MachineInv
    <3> QED BY <2>1, <2>6, <3>1, <3>2 DEF ConnInv, ServingInv, Serves
  <2>8. i = Taken(c) + 1
    BY <2>5, <2>6, <2>7
  <2>9. j \in 1..Len(sent[c]) /\ ~ (j <= Taken(c))
    BY <2>5, <2>6, <2>7, <2>8
  <2> QED BY <2>5, <2>7, <2>9
<1> QED BY <1>1, MachineInvariant, PTL DEF Spec, NeverOvertaken

(* How far the broker keeps a newer connection: an older one displaces it  *)
(* only if the thin client has left the older one (register asks nothing;  *)
(* ws_client.run sees to it).                                              *)
OnlyLeftDisplaces ==
  [][\A m \in Machines :
       registered[m] # None /\ registered'[m] # None /\ registered'[m] < registered[m] =>
         agent[registered'[m]] = "gone"]_vars

THEOREM DisplacedByLeft == Spec => OnlyLeftDisplaces
<1> DEFINE Left == \A m \in Machines :
             registered[m] # None /\ registered'[m] # None
               /\ registered'[m] < registered[m] => agent[registered'[m]] = "gone"
<1>1. MachineInv /\ [Next]_vars => [Left]_vars
  <2> SUFFICES ASSUME MachineInv, Next, NEW m \in Machines, registered[m] # None,
                      registered'[m] # None, registered'[m] < registered[m]
               PROVE  agent[registered'[m]] = "gone"
    OBVIOUS
  <2>1. registered \in [Machines -> Conns \cup {None}] /\ registered[m] \in Conns
    BY DEF MachineInv, PromiseInv, TypeInv, TypeOK
  <2>2. registered'[m] # registered[m]
    BY <2>1
  <2>3. PICK c \in Conns : HandlerRegisters(c)
    <3>1. ~ \E c \in Conns : HandlerExits(c)
      BY <2>1, <2>2 DEF HandlerExits, Unregister
    <3> QED BY <2>2, <3>1 DEF Next, AgentStep, HandlerStep, CallStep, AgentConnects,
               AgentReportsMonitors, AgentIsRejected, AgentTakesConfig,
               AgentTakesRequest, AgentReportsError, AgentReportsResult,
               AgentSendsImage, AgentLost, HandlerAccepts, HandlerRejects,
               HandlerPushesConfig, HandlerQuits, HandlerTakesError,
               HandlerTakesResult, HandlerTakesImage, HandlerIgnores, TransportLost,
               CallRefused, CallStarts, CallSent, CallSendFails, CallAnswered,
               CallExpires, CallTimesOut, registryVars
  <2>4. registered'[m] = c /\ owner[c] = m
    BY <2>1, <2>2, <2>3 DEF HandlerRegisters
  <2>5. owner[registered[m]] = m /\ m # None
    BY DEF MachineInv, PromiseInv, RegistryInv
  <2> QED BY <2>1, <2>4, <2>5 DEF MachineInv, LoopInv
<1> QED BY <1>1, MachineInvariant, PTL DEF Spec, OnlyLeftDisplaces

-----------------------------------------------------------------------------
(* What the promise tells a caller, from module AtMostOnce alone.          *)

(* Whatever keeps the promise performs no command twice, none that it      *)
(* refused, and each that it answered; an open call has no reply.  That a  *)
(* command is performed is that the machine has dispatched it.             *)
MeaningInv ==
  /\ runs \in [Calls -> {0, 1}]
  /\ \A r \in Open : Replies[r] = "none"
  /\ \A r \in Calls : Replies[r] \in {"ok", "error"} => runs[r] = 1
  /\ \A r \in Calls \ Open : Replies[r] \in {"none", "refused"} => runs[r] = 0

LEMMA PromiseMeaning == Promise!Spec => []MeaningInv
<1>1. Replies \in [Calls -> {"none", "refused", "ok", "error", "unknown"}]
  BY DEF Replies, Reply
<1>2. Promise!Init => MeaningInv
  BY DEF Promise!Init, MeaningInv, Replies, Open
<1>3. ASSUME MeaningInv, Promise!Next PROVE MeaningInv'
  <2>1. PICK r \in Calls : \/ Promise!Refuse(r) \/ Promise!Accept(r) \/ Promise!Perform(r)
                           \/ Promise!Answer(r) \/ Promise!GiveUp(r)
    BY <1>3 DEF Promise!Next
  <2>2. CASE Promise!Refuse(r)
    <3>1. /\ Replies[r] = "none" /\ r \notin Open
          /\ Replies' = [Replies EXCEPT ![r] = "refused"] /\ UNCHANGED <<Open, runs>>
      BY <2>2 DEF Promise!Refuse, Promise!Fresh, Replies, Open
    <3> QED BY <1>1, <1>3, <3>1 DEF MeaningInv
  <2>3. CASE Promise!Accept(r)
    <3>1. /\ Replies[r] = "none" /\ r \notin Open
          /\ Open' = Open \cup {r} /\ UNCHANGED <<Replies, runs>>
      BY <2>3 DEF Promise!Accept, Promise!Fresh, Replies, Open
    <3> QED BY <1>3, <3>1 DEF MeaningInv
  <2>4. CASE Promise!Perform(r)
    <3>1. /\ r \in Open \/ Replies[r] = "unknown"
          /\ runs' = [runs EXCEPT ![r] = 1] /\ UNCHANGED <<Replies, Open>>
      BY <2>4 DEF Promise!Perform, Replies, Open
    <3> QED BY <1>3, <3>1 DEF MeaningInv
  <2>5. CASE Promise!Answer(r)
    <3>1. PICK how \in {"ok", "error"} :
            /\ r \in Open /\ runs[r] = 1 /\ Replies' = [Replies EXCEPT ![r] = how]
            /\ Open' = Open \ {r} /\ UNCHANGED runs
      BY <2>5 DEF Promise!Answer, Replies, Open
    <3> QED BY <1>1, <1>3, <3>1 DEF MeaningInv
  <2>6. CASE Promise!GiveUp(r)
    <3>1. /\ r \in Open /\ Replies' = [Replies EXCEPT ![r] = "unknown"]
          /\ Open' = Open \ {r} /\ UNCHANGED runs
      BY <2>6 DEF Promise!GiveUp, Replies, Open
    <3> QED BY <1>1, <1>3, <3>1 DEF MeaningInv
  <2> QED BY <2>1, <2>2, <2>3, <2>4, <2>5, <2>6
<1>4. MeaningInv /\ UNCHANGED Promise!vars => MeaningInv'
  <2> SUFFICES ASSUME MeaningInv, UNCHANGED Promise!vars PROVE MeaningInv'
    OBVIOUS
  <2>1. UNCHANGED <<Replies, Open, runs>>
    BY DEF Promise!vars, Replies, Open
  <2> QED BY <2>1 DEF MeaningInv
<1> QED BY <1>2, <1>3, <1>4, PTL DEF Promise!Spec

(* What an HTTP caller may conclude: after 200, and after the 400 of an    *)
(* error that the machine reports, its machine has dispatched the command, *)
(* exactly once, though an error may have come before it had any effect;   *)
(* after the 404 of a machine that "is not connected" the command has not  *)
(* been sent and never is.  A 404 of a machine that "disconnected          *)
(* mid-request" says no more than a 504 or a 500: at most once             *)
(* (http_api._call, ConnectionRegistry.call and unregister).               *)
AnswersAreTrue ==
  \A r \in Calls :
    /\ runs[r] <= 1
    /\ outcome[r] \in {"ok", "machine_error"} => runs[r] = 1
    /\ outcome[r] = "not_connected" => runs[r] = 0

THEOREM AnswersHold == Spec => []AnswersAreTrue
<1>1. TypeInv /\ PromiseInv /\ MeaningInv => AnswersAreTrue
  <2> SUFFICES ASSUME PromiseInv, MeaningInv, NEW r \in Calls
               PROVE  /\ runs[r] <= 1
                      /\ outcome[r] \in {"ok", "machine_error"} => runs[r] = 1
                      /\ outcome[r] = "not_connected" => runs[r] = 0
    BY DEF AnswersAreTrue
  <2>1. outcome[r] # "none" => r \notin Open
    BY DEF PromiseInv, KeptInv, CallInv, Open
  <2>2. /\ outcome[r] \in {"ok", "machine_error"} => Replies[r] \in {"ok", "error"}
        /\ outcome[r] = "not_connected" => Replies[r] = "refused"
    BY DEF Replies, Reply
  <2> QED BY <2>1, <2>2 DEF MeaningInv
<1>2. Spec => []MeaningInv
  BY KeepsPromise, PromiseMeaning DEF ImplementsPromise
<1> QED BY <1>1, <1>2, PromiseInvariant, PTL DEF PromiseInv
=============================================================================
