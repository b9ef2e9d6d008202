--------------------------- MODULE RegistryProofs ---------------------------
(***************************************************************************)
(* Proofs about the broker's registry and its futures, for every set of    *)
(* machines and calls and every number of connections.                     *)
(***************************************************************************)
EXTENDS BrokerProofs

(* Who is registered is being served, and who is being served, or about to *)
(* be, opened the connection itself with the right key.                    *)
RegistryInv ==
  /\ \A m \in Machines : registered[m] # None =>
       owner[registered[m]] = m /\ handler[registered[m]] = "serving"
  /\ \A c \in Conns : handler[c] \in {"monitors", "pushing", "serving"} =>
       owner[c] \in Known

(* A call that has not started has no future yet.                          *)
IdleInv == \A r \in Calls : stage[r] = "idle" => future[r].state = "none"

(* RegistryInv is inductive.                                               *)
LEMMA RegistryInvInductive ==
  /\ Init => RegistryInv
  /\ TypeInv /\ RegistryInv /\ [Next]_vars => RegistryInv'
<1> USE DEF TypeInv, TypeOK, vars, registryVars, callVars, handlerVars, agentVars,
            wireVars, historyVars
<1>1. Init => RegistryInv
  BY DEF Init, RegistryInv
<1>2. ASSUME TypeInv, RegistryInv, [Next]_vars PROVE RegistryInv'
  <2>1. CASE UNCHANGED <<registered, owner, handler>>
    BY <1>2, <2>1 DEF RegistryInv
  <2>2. ASSUME NEW c \in Conns, AgentStep(c) PROVE RegistryInv'
    <3>1. CASE \E m \in Machines : AgentConnects(m, c)
      <4>1. handler[c] = "none"
        BY <1>2, <3>1 DEF AgentConnects, Unopened
      <4> QED BY <1>2, <3>1, <4>1 DEF AgentConnects, RegistryInv
    <3>2. CASE ~ \E m \in Machines : AgentConnects(m, c)
      <4>1. UNCHANGED <<registered, owner, handler>>
        BY <2>2, <3>2 DEF AgentStep, AgentReportsMonitors, AgentIsRejected,
           AgentTakesConfig, AgentTakesRequest, AgentReportsError,
           AgentReportsResult, AgentSendsImage, AgentLost
      <4> QED BY <2>1, <4>1
    <3> QED BY <3>1, <3>2
  <2>3. ASSUME NEW c \in Conns, HandlerStep(c) PROVE RegistryInv'
    <3>1. CASE HandlerAccepts(c)
      BY <1>2, <3>1 DEF HandlerAccepts, RegistryInv
    <3>2. CASE HandlerRejects(c)
      BY <1>2, <3>2 DEF HandlerRejects, RegistryInv
    <3>3. CASE HandlerPushesConfig(c)
      BY <1>2, <3>3 DEF HandlerPushesConfig, RegistryInv
    <3>4. CASE HandlerRegisters(c)
      BY <1>2, <3>4 DEF HandlerRegisters, MayRegister, RegistryInv
    <3>5. CASE HandlerQuits(c)
      BY <1>2, <3>5 DEF HandlerQuits, RegistryInv
    <3>6. CASE HandlerExits(c)
      <4>1. CASE Current(c)
        <5>1. /\ registered' = [registered EXCEPT ![owner[c]] = None]
              /\ handler' = [handler EXCEPT ![c] = "done"]
              /\ owner' = owner /\ registered[owner[c]] = c
          BY <3>6, <4>1 DEF HandlerExits, Unregister, Current
        <5> QED BY <1>2, <5>1 DEF RegistryInv
      <4>2. CASE ~ Current(c)
        <5>1. /\ registered' = registered /\ owner' = owner
              /\ handler' = [handler EXCEPT ![c] = "done"]
              /\ registered[owner[c]] # c
          BY <3>6, <4>2 DEF HandlerExits, Unregister, Current
        <5> QED BY <1>2, <5>1 DEF RegistryInv
      <4> QED BY <4>1, <4>2
    <3>7. CASE UNCHANGED <<registered, owner, handler>>
      BY <2>1, <3>7
    <3> QED BY <2>3, <3>1, <3>2, <3>3, <3>4, <3>5, <3>6, <3>7 DEF HandlerStep,
               HandlerTakesError, HandlerTakesResult, HandlerTakesImage, HandlerIgnores
  <2>4. ASSUME NEW c \in Conns, TransportLost(c) PROVE RegistryInv'
    BY <2>1, <2>4 DEF TransportLost
  <2>5. ASSUME NEW r \in Calls, CallStep(r) PROVE RegistryInv'
    BY <2>1, <2>5 DEF CallStep, CallRefused, CallStarts, CallSent, CallSendFails,
       CallAnswered, CallExpires, CallTimesOut
  <2> QED BY <1>2, <2>1, <2>2, <2>3, <2>4, <2>5 DEF Next
<1> QED BY <1>1, <1>2

(* A machine is registered under a connection that it opened itself, with  *)
(* the right key, and whose handler is in its serving loop.                *)
THEOREM RegistryServes == Spec => []RegisteredIsServing
<1>1. TypeInv /\ RegistryInv => RegisteredIsServing
  BY DEF TypeInv, TypeOK, RegistryInv, RegisteredIsServing
<1> QED BY <1>1, TypeInvInductive, RegistryInvInductive, PTL DEF Spec

(* A machine leaves the registry only when the handler of the connection   *)
(* it is registered under ends: no late exit of an older one evicts it.    *)
THEOREM NoForeignEviction == Spec => OnlyOwnExitEvicts
<1> DEFINE Evicts == \A m \in Machines :
             registered[m] # None /\ registered'[m] = None =>
               handler[registered[m]] = "serving" /\ handler'[registered[m]] = "done"
<1>1. TypeInv /\ RegistryInv /\ [Next]_vars => [Evicts]_vars
  <2> SUFFICES ASSUME TypeInv, Next PROVE Evicts
    OBVIOUS
  <2> USE DEF TypeInv, TypeOK, registryVars, callVars, handlerVars, agentVars,
              wireVars, historyVars
  <2>1. CASE registered' = registered
    BY <2>1
  <2>2. ASSUME NEW c \in Conns, HandlerRegisters(c) PROVE Evicts
    <3>1. c # None
      BY MaxConnAssumption, NoneAssumption DEF Conns
    <3>2. \A m \in Machines : registered'[m] \in {c, registered[m]}
      BY <2>2 DEF HandlerRegisters
    <3> QED BY <3>1, <3>2
  <2>3. ASSUME NEW c \in Conns, HandlerExits(c) PROVE Evicts
    BY <2>3 DEF HandlerExits, Unregister, Current
  <2>4. ASSUME NEW c \in Conns, AgentStep(c) \/ TransportLost(c) PROVE Evicts
    BY <2>1, <2>4 DEF AgentStep, AgentConnects, AgentReportsMonitors, AgentIsRejected,
       AgentTakesConfig, AgentTakesRequest, AgentReportsError, AgentReportsResult,
       AgentSendsImage, AgentLost, TransportLost
  <2>5. ASSUME NEW c \in Conns, HandlerStep(c) PROVE Evicts
    BY <2>1, <2>2, <2>3, <2>5 DEF HandlerStep, HandlerAccepts, HandlerRejects,
       HandlerPushesConfig, HandlerQuits, HandlerTakesError, HandlerTakesResult,
       HandlerTakesImage, HandlerIgnores
  <2>6. ASSUME NEW r \in Calls, CallStep(r) PROVE Evicts
    BY <2>1, <2>6 DEF CallStep, CallRefused, CallStarts, CallSent, CallSendFails,
       CallAnswered, CallExpires, CallTimesOut
  <2> QED BY <2>4, <2>5, <2>6 DEF Next
<1> QED BY <1>1, TypeInvInductive, RegistryInvInductive, PTL DEF Spec, OnlyOwnExitEvicts
(* A handler only puts something into the futures that are not done of the *)
(* calls waiting on its connection.                                        *)
LEMMA OnlyUndoneSettled ==
  ASSUME TypeOK, NEW c \in Conns, HandlerStep(c)
  PROVE  \A r \in Calls : r \notin Undone(c) => future'[r] = future[r]
<1> USE DEF TypeOK, registryVars
<1>1. CASE HandlerTakesError(c)
  BY <1>1 DEF HandlerTakesError
<1>2. CASE HandlerTakesResult(c)
  BY <1>2 DEF HandlerTakesResult
<1>3. CASE HandlerTakesImage(c)
  BY <1>3 DEF HandlerTakesImage
<1>4. CASE HandlerExits(c)
  BY <1>4 DEF HandlerExits, Unregister
<1>5. CASE future' = future
  BY <1>5
<1> QED BY <1>1, <1>2, <1>3, <1>4, <1>5 DEF HandlerStep, HandlerAccepts,
           HandlerRejects, HandlerPushesConfig, HandlerRegisters, HandlerQuits,
           HandlerIgnores

(* IdleInv is inductive: answers, disconnects and timeouts only reach a    *)
(* call that has started.                                                  *)
LEMMA IdleInvInductive ==
  /\ Init => IdleInv
  /\ TypeInv /\ IdleInv /\ [Next]_vars => IdleInv'
<1> USE DEF TypeInv, TypeOK, vars, registryVars, callVars, handlerVars, agentVars,
            wireVars, historyVars
<1>1. Init => IdleInv
  BY DEF Init, IdleInv, Future
<1>2. ASSUME TypeInv, IdleInv, [Next]_vars PROVE IdleInv'
  <2>1. CASE UNCHANGED <<stage, future>>
    BY <1>2, <2>1 DEF IdleInv
  <2>2. ASSUME NEW c \in Conns, AgentStep(c) \/ TransportLost(c) PROVE IdleInv'
    BY <2>1, <2>2 DEF AgentStep, AgentConnects, AgentReportsMonitors, AgentIsRejected,
       AgentTakesConfig, AgentTakesRequest, AgentReportsError, AgentReportsResult,
       AgentSendsImage, AgentLost, TransportLost
  <2>3. ASSUME NEW c \in Conns, HandlerStep(c) PROVE IdleInv'
    <3>1. stage' = stage
      BY <2>3 DEF HandlerStep, HandlerAccepts, HandlerRejects, HandlerPushesConfig,
         HandlerRegisters, HandlerQuits, HandlerTakesError, HandlerTakesResult,
         HandlerTakesImage, HandlerIgnores, HandlerExits
    <3>2. \A r \in Calls : stage[r] = "idle" => r \notin Undone(c)
      BY DEF Undone, Pending
    <3>3. \A r \in Calls : r \notin Undone(c) => future'[r] = future[r]
      BY <1>2, <2>3, OnlyUndoneSettled
    <3> QED BY <1>2, <3>1, <3>2, <3>3 DEF IdleInv
  <2>4. ASSUME NEW r \in Calls, CallStep(r) PROVE IdleInv'
    BY <1>2, <2>4 DEF IdleInv, CallStep, CallRefused, CallStarts, CallSent,
       CallSendFails, CallAnswered, CallExpires, CallTimesOut, TimerRuns, Ends
  <2> QED BY <1>2, <2>1, <2>2, <2>3, <2>4 DEF Next
<1> QED BY <1>1, <1>2

(* A future that is done keeps its value, whatever answer, disconnect or   *)
(* timeout comes after: no done() guard is missing.                        *)
THEOREM FuturesSettleOnce == Spec => SettledOnce
<1> DEFINE Settled == \A r \in Calls :
             future[r].state \notin {"none", "pending"} => future'[r] = future[r]
<1>1. TypeInv /\ IdleInv /\ [Next]_vars => [Settled]_vars
  <2> SUFFICES ASSUME TypeInv, IdleInv, Next PROVE Settled
    OBVIOUS
  <2> USE DEF TypeInv, TypeOK, registryVars, callVars, handlerVars, agentVars,
              wireVars, historyVars
  <2>1. ASSUME NEW c \in Conns, AgentStep(c) \/ TransportLost(c) PROVE Settled
    BY <2>1 DEF AgentStep, AgentConnects, AgentReportsMonitors, AgentIsRejected,
       AgentTakesConfig, AgentTakesRequest, AgentReportsError, AgentReportsResult,
       AgentSendsImage, AgentLost, TransportLost
  <2>2. ASSUME NEW c \in Conns, HandlerStep(c) PROVE Settled
    BY <2>2, OnlyUndoneSettled DEF Undone
  <2>3. ASSUME NEW r \in Calls, CallStep(r) PROVE Settled
    BY <2>3 DEF IdleInv, CallStep, CallRefused, CallStarts, CallSent, CallSendFails,
       CallAnswered, CallExpires, CallTimesOut, TimerRuns
  <2> QED BY <2>1, <2>2, <2>3 DEF Next
<1> QED BY <1>1, TypeInvInductive, IdleInvInductive, PTL DEF Spec, SettledOnce
=============================================================================
