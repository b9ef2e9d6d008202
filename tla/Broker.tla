------------------------------- MODULE Broker -------------------------------
(***************************************************************************)
(* The broker between HTTP callers and the thin clients: the connection    *)
(* registry (journeydrive_broker/registry.py), the websocket handler that  *)
(* runs once per thin client connection (ws_server.py), the HTTP calls     *)
(* that wait for an answer (http_api.py), and the loop with which a thin   *)
(* client serves one connection (journeydrive_windows_thinclient/          *)
(* ws_client.py), which the answers depend on.                             *)
(*                                                                         *)
(* The broker is one asyncio event loop: whatever runs between two awaits  *)
(* is one action here.  Connections are numbered in the order in which     *)
(* the thin clients open them, so a larger number is a newer connection.   *)
(* A call stands for the one request (uuid4 id) that ConnectionRegistry.   *)
(* call sends for it.                                                      *)
(*                                                                         *)
(* A definition named X_Y is not part of the specification: it is X with a *)
(* bug Y, which the properties must tell from X.                           *)
(***************************************************************************)
EXTENDS Integers, Sequences

CONSTANTS
  Machines,     \* the machine ids of the thin clients
  Known,        \* those the broker has in settings.machines, with their key
  MaxConn,      \* bound: connections opened in a behaviour
  Calls,        \* the HTTP calls made in a behaviour (a bound)
  Screenshots,  \* those whose method is "screenshot"
  Target,       \* Target[r]: the machine call r is for
  None

ASSUME KnownAssumption == Known \subseteq Machines
ASSUME MaxConnAssumption == MaxConn \in Nat
ASSUME CallsAssumption ==
  /\ Screenshots \subseteq Calls
  /\ Target \in [Calls -> Machines]
ASSUME NoneAssumption ==
  /\ None \notin Calls
  /\ None \notin Machines
  /\ None \notin Nat

Conns == 1..MaxConn

VARIABLES
  \* ConnectionRegistry
  registered,  \* registered[m]: the connection _connections[m] is about
  awaiting,    \* awaiting[c]: the request whose binary frame is to come next
  future,      \* future[r]: the asyncio.Future of call r, with what it holds
  \* the HTTP calls
  stage,       \* stage[r]: where ConnectionRegistry.call is
  conn,        \* conn[r]: the connection call r looked up
  outcome,     \* outcome[r]: how the HTTP call ended
  \* the websocket handlers and their transports
  owner,       \* owner[c]: the machine that opened connection c
  handler,     \* handler[c]: where the broker's handler of c is
  up,          \* up[c]: the broker's end of c is open
  \* the thin clients
  agent,       \* agent[c]: where the thin client's loop is in connection c
  job,         \* job[c]: the request it is dispatching
  exited,      \* the machines whose process ended, rejected by the broker
  \* the wires
  toBroker,    \* toBroker[c]: frames from thin client to broker, in order
  toAgent,     \* toAgent[c]: frames from broker to thin client, in order
  \* history
  sent,        \* sent[c]: the requests the broker wrote to c, in order
  runs         \* runs[r]: how often the command of call r was dispatched

registryVars == <<registered, awaiting, future>>
callVars     == <<stage, conn, outcome>>
handlerVars  == <<owner, handler, up>>
agentVars    == <<agent, job, exited>>
wireVars     == <<toBroker, toAgent>>
historyVars  == <<sent, runs>>
vars == <<registryVars, callVars, handlerVars, agentVars, wireVars, historyVars>>

-----------------------------------------------------------------------------
(* Data.  A frame carries its kind and the call it was produced for; the   *)
(* binary frame "image" carries no id on the wire: nothing in the broker   *)
(* below reads its "of" except to store it as the image it is.             *)

Frame(kind, of) == [kind |-> kind, of |-> of]

ToBrokerFrames == [kind : {"hello", "monitors", "error", "result", "image"},
                   of : Calls \cup {None}]
ToAgentFrames  == [kind : {"ack", "nack", "config", "request"},
                   of : Calls \cup {None}]

(* A future: its state, the request whose JSON result it holds and the     *)
(* request whose image it holds.                                           *)
Future(state, body, image) == [state |-> state, body |-> body, image |-> image]
Futures == [state : {"none", "pending", "result", "error", "gone", "cancelled"},
            body : Calls \cup {None}, image : Calls \cup {None}]

TypeOK ==
  /\ registered \in [Machines -> Conns \cup {None}]
  /\ awaiting \in [Conns -> Calls \cup {None}]
  /\ future \in [Calls -> Futures]
  /\ stage \in [Calls -> {"idle", "sending", "waiting", "done"}]
  /\ conn \in [Calls -> Conns \cup {None}]
  /\ outcome \in [Calls -> {"none", "ok", "machine_error", "not_connected",
                            "disconnected", "timeout", "internal"}]
  /\ owner \in [Conns -> Machines \cup {None}]
  /\ handler \in [Conns -> {"none", "handshake", "monitors", "pushing",
                            "serving", "done"}]
  /\ up \in [Conns -> BOOLEAN]
  /\ agent \in [Conns -> {"none", "hello", "config", "idle", "busy", "image",
                          "gone"}]
  /\ job \in [Conns -> Calls \cup {None}]
  /\ exited \in SUBSET Machines
  /\ toBroker \in [Conns -> Seq(ToBrokerFrames)]
  /\ toAgent \in [Conns -> Seq(ToAgentFrames)]
  /\ sent \in [Conns -> Seq(Calls)]
  /\ runs \in [Calls -> Nat]

Init ==
  /\ registered = [m \in Machines |-> None]
  /\ awaiting = [c \in Conns |-> None]
  /\ future = [r \in Calls |-> Future("none", None, None)]
  /\ stage = [r \in Calls |-> "idle"]
  /\ conn = [r \in Calls |-> None]
  /\ outcome = [r \in Calls |-> "none"]
  /\ owner = [c \in Conns |-> None]
  /\ handler = [c \in Conns |-> "none"]
  /\ up = [c \in Conns |-> FALSE]
  /\ agent = [c \in Conns |-> "none"]
  /\ job = [c \in Conns |-> None]
  /\ exited = {}
  /\ toBroker = [c \in Conns |-> << >>]
  /\ toAgent = [c \in Conns |-> << >>]
  /\ sent = [c \in Conns |-> << >>]
  /\ runs = [r \in Calls |-> 0]

-----------------------------------------------------------------------------
(* The wires.  A frame written to a transport that is down is lost.  What  *)
(* is in flight when it goes down may still be read or may never be: the   *)
(* reader may stop at any point then (HandlerExits, AgentLost).            *)

WithFrame(queue, c, frame) ==
  IF up[c] THEN [queue EXCEPT ![c] = Append(@, frame)] ELSE queue

(* _current: the connection the machine of c is registered with is c.      *)
Current(c) == registered[owner[c]] = c

(* The keys of _Connection.pending: call adds its id before it sends and   *)
(* its finally block removes it.                                           *)
Pending(c) == {r \in Calls : conn[r] = c /\ stage[r] \in {"sending", "waiting"}}

(* pending.get(id) is there and not done().                                *)
Undone_Pending(c) == Pending(c)

Undone(c) == {r \in Pending(c) : future[r].state = "pending"}

-----------------------------------------------------------------------------
(* The thin client, one connection after another (ws_client.run).          *)

(* A new connection: websockets.connect yields it and the hello frame is   *)
(* sent.  The loop only gets here once it has left its earlier ones.       *)
AgentConnects(m, c) ==
  /\ m \notin exited
  /\ owner[c] = None
  /\ \A d \in Conns : d < c => owner[d] # None
  /\ \A d \in Conns : owner[d] = m => agent[d] = "gone"
  /\ owner' = [owner EXCEPT ![c] = m]
  /\ handler' = [handler EXCEPT ![c] = "handshake"]
  /\ up' = [up EXCEPT ![c] = TRUE]
  /\ agent' = [agent EXCEPT ![c] = "hello"]
  /\ toBroker' = [toBroker EXCEPT ![c] = <<Frame("hello", None)>>]
  /\ UNCHANGED <<registryVars, callVars, job, exited, toAgent, historyVars>>

(* The ack is read and the monitor layout reported.                        *)
AgentReportsMonitors(c) ==
  /\ agent[c] = "hello"
  /\ toAgent[c] # << >>
  /\ Head(toAgent[c]).kind = "ack"
  /\ toAgent' = [toAgent EXCEPT ![c] = Tail(@)]
  /\ toBroker' = WithFrame(toBroker, c, Frame("monitors", None))
  /\ agent' = [agent EXCEPT ![c] = "config"]
  /\ UNCHANGED <<registryVars, callVars, handlerVars, job, exited, historyVars>>

(* A refusal raises RegistrationRejected, which ends the process.          *)
AgentIsRejected(c) ==
  /\ agent[c] = "hello"
  /\ toAgent[c] # << >>
  /\ Head(toAgent[c]).kind = "nack"
  /\ toAgent' = [toAgent EXCEPT ![c] = << >>]
  /\ agent' = [agent EXCEPT ![c] = "gone"]
  /\ exited' = exited \cup {owner[c]}
  /\ UNCHANGED <<registryVars, callVars, handlerVars, job, toBroker, historyVars>>

(* The next frame, whatever it is, is taken for the config push.           *)
AgentTakesConfig(c) ==
  /\ agent[c] = "config"
  /\ toAgent[c] # << >>
  /\ toAgent' = [toAgent EXCEPT ![c] = Tail(@)]
  /\ agent' = [agent EXCEPT ![c] = "idle"]
  /\ UNCHANGED <<registryVars, callVars, handlerVars, job, exited, toBroker,
                 historyVars>>

(* Each message in a task of its own: a later one may be dispatched first. *)
AgentTakesRequest_Newest(c) ==
  /\ agent[c] = "idle"
  /\ toAgent[c] # << >>
  /\ LET last == Len(toAgent[c]) IN
       /\ job' = [job EXCEPT ![c] = toAgent[c][last].of]
       /\ runs' = [runs EXCEPT ![toAgent[c][last].of] = @ + 1]
       /\ toAgent' = [toAgent EXCEPT ![c] = SubSeq(@, 1, last - 1)]
  /\ agent' = [agent EXCEPT ![c] = "busy"]
  /\ UNCHANGED <<registryVars, callVars, handlerVars, exited, toBroker, sent>>

(* The serving loop reads the next request and dispatches it.              *)
AgentTakesRequest(c) ==
  /\ agent[c] = "idle"
  /\ toAgent[c] # << >>
  /\ LET r == Head(toAgent[c]).of IN
       /\ job' = [job EXCEPT ![c] = r]
       /\ runs' = [runs EXCEPT ![r] = @ + 1]
  /\ toAgent' = [toAgent EXCEPT ![c] = Tail(@)]
  /\ agent' = [agent EXCEPT ![c] = "busy"]
  /\ UNCHANGED <<registryVars, callVars, handlerVars, exited, toBroker, sent>>

AgentReportsError_OddFrame(c) ==
  /\ agent[c] = "busy"
  /\ toBroker' = WithFrame(toBroker, c, Frame("failure", job[c]))
  /\ agent' = [agent EXCEPT ![c] = "idle"]
  /\ job' = [job EXCEPT ![c] = None]
  /\ UNCHANGED <<registryVars, callVars, handlerVars, exited, toAgent, historyVars>>

(* The command raised ValidationError, DispatchError or, for a screenshot, *)
(* ValueError: one error frame.                                            *)
AgentReportsError(c) ==
  /\ agent[c] = "busy"
  /\ toBroker' = WithFrame(toBroker, c, Frame("error", job[c]))
  /\ agent' = [agent EXCEPT ![c] = "idle"]
  /\ job' = [job EXCEPT ![c] = None]
  /\ UNCHANGED <<registryVars, callVars, handlerVars, exited, toAgent, historyVars>>

(* The command succeeded.  For a screenshot the JSON frame is its metadata *)
(* and the image is sent next.                                             *)
AgentReportsResult(c) ==
  /\ agent[c] = "busy"
  /\ toBroker' = WithFrame(toBroker, c, Frame("result", job[c]))
  /\ IF job[c] \in Screenshots
     THEN agent' = [agent EXCEPT ![c] = "image"] /\ job' = job
     ELSE agent' = [agent EXCEPT ![c] = "idle"] /\ job' = [job EXCEPT ![c] = None]
  /\ UNCHANGED <<registryVars, callVars, handlerVars, exited, toAgent, historyVars>>

AgentSendsImage(c) ==
  /\ agent[c] = "image"
  /\ toBroker' = WithFrame(toBroker, c, Frame("image", job[c]))
  /\ agent' = [agent EXCEPT ![c] = "idle"]
  /\ job' = [job EXCEPT ![c] = None]
  /\ UNCHANGED <<registryVars, callVars, handlerVars, exited, toAgent, historyVars>>

(* The thin client's side of the connection is over: its network dropped,  *)
(* a send or recv raised ConnectionClosed, or its process died and was     *)
(* started again.  A command that was running has run, but its answer is   *)
(* not sent.  The broker does not know yet.                                *)
AgentLost(c) ==
  /\ agent[c] \notin {"none", "gone"}
  /\ agent' = [agent EXCEPT ![c] = "gone"]
  /\ job' = [job EXCEPT ![c] = None]
  /\ toAgent' = [toAgent EXCEPT ![c] = << >>]
  /\ UNCHANGED <<registryVars, callVars, handlerVars, exited, toBroker, historyVars>>

-----------------------------------------------------------------------------
(* The broker's handler of one connection (ws_server._make_handler).       *)

(* The credentials are right: the ack is sent.                             *)
HandlerAccepts(c) ==
  /\ handler[c] = "handshake"
  /\ toBroker[c] # << >>
  /\ owner[c] \in Known
  /\ toBroker' = [toBroker EXCEPT ![c] = Tail(@)]
  /\ toAgent' = WithFrame(toAgent, c, Frame("ack", None))
  /\ handler' = [handler EXCEPT ![c] = "monitors"]
  /\ UNCHANGED <<registryVars, callVars, owner, up, agentVars, historyVars>>

(* The handshake is malformed, or the machine or its key is wrong: a       *)
(* refusal is sent and the connection closed.                              *)
HandlerRejects(c) ==
  /\ handler[c] = "handshake"
  /\ toBroker[c] # << >>
  /\ owner[c] \notin Known
  /\ toBroker' = [toBroker EXCEPT ![c] = << >>]
  /\ toAgent' = WithFrame(toAgent, c, Frame("nack", None))
  /\ handler' = [handler EXCEPT ![c] = "done"]
  /\ up' = [up EXCEPT ![c] = FALSE]
  /\ UNCHANGED <<registryVars, callVars, owner, agentVars, historyVars>>

(* The monitors frame is read and the config push is written.              *)
HandlerPushesConfig(c) ==
  /\ handler[c] = "monitors"
  /\ toBroker[c] # << >>
  /\ toBroker' = [toBroker EXCEPT ![c] = Tail(@)]
  /\ toAgent' = WithFrame(toAgent, c, Frame("config", None))
  /\ handler' = [handler EXCEPT ![c] = "pushing"]
  /\ UNCHANGED <<registryVars, callVars, owner, up, agentVars, historyVars>>

(* register comes after the push has been sent.                            *)
MayRegister_Early(c) == handler[c] \in {"monitors", "pushing"}

MayRegister(c) == handler[c] = "pushing"

(* The push was sent: register replaces whatever connection the machine    *)
(* had, and the serving loop starts.                                       *)
HandlerRegisters(c) ==
  /\ MayRegister(c)
  /\ up[c]
  /\ registered' = [registered EXCEPT ![owner[c]] = c]
  /\ handler' = [handler EXCEPT ![c] = "serving"]
  /\ UNCHANGED <<awaiting, future, callVars, owner, up, agentVars, wireVars,
                 historyVars>>

(* The connection closes before the handler has registered it: a recv or   *)
(* send of the handshake raises ConnectionClosed and the handler returns.  *)
HandlerQuits(c) ==
  /\ handler[c] \in {"handshake", "monitors", "pushing"}
  /\ ~ up[c]
  /\ handler' = [handler EXCEPT ![c] = "done"]
  /\ toBroker' = [toBroker EXCEPT ![c] = << >>]
  /\ UNCHANGED <<registryVars, callVars, owner, up, agentVars, toAgent,
                 historyVars>>

(* The request that the JSON frame at the head of the queue names.         *)
Addressee_Any(c) ==
  IF Undone(c) # {} THEN CHOOSE r \in Undone(c) : TRUE ELSE Head(toBroker[c]).of

Addressee(c) == Head(toBroker[c]).of

(* handle_text_frame, an error: the caller gets MachineError.              *)
HandlerTakesError(c) ==
  /\ handler[c] = "serving"
  /\ toBroker[c] # << >>
  /\ Head(toBroker[c]).kind = "error"
  /\ Current(c)
  /\ Addressee(c) \in Undone(c)
  /\ future' = [future EXCEPT ![Addressee(c)] =
                  Future("error", Head(toBroker[c]).of, None)]
  /\ toBroker' = [toBroker EXCEPT ![c] = Tail(@)]
  /\ UNCHANGED <<registered, awaiting, callVars, handlerVars, agentVars, toAgent,
                 historyVars>>

(* handle_text_frame, a result: it completes the call, unless the call is  *)
(* a screenshot; then the future stays open until the image arrives.       *)
HandlerTakesResult(c) ==
  /\ handler[c] = "serving"
  /\ toBroker[c] # << >>
  /\ Head(toBroker[c]).kind = "result"
  /\ Current(c)
  /\ Addressee(c) \in Undone(c)
  /\ IF Addressee(c) \in Screenshots
     THEN /\ awaiting' = [awaiting EXCEPT ![c] = Addressee(c)]
          /\ future' = future
     ELSE /\ future' = [future EXCEPT ![Addressee(c)] =
                          Future("result", Head(toBroker[c]).of, None)]
          /\ awaiting' = awaiting
  /\ toBroker' = [toBroker EXCEPT ![c] = Tail(@)]
  /\ UNCHANGED <<registered, callVars, handlerVars, agentVars, toAgent, historyVars>>

(* handle_binary_frame, an image that is waited for: it completes the call *)
(* that is awaiting it if that call is still there and not done.           *)
HandlerTakesImage(c) ==
  /\ handler[c] = "serving"
  /\ toBroker[c] # << >>
  /\ Head(toBroker[c]).kind = "image"
  /\ Current(c)
  /\ awaiting[c] # None
  /\ future' = IF awaiting[c] \in Undone(c)
               THEN [future EXCEPT ![awaiting[c]] =
                       Future("result", awaiting[c], Head(toBroker[c]).of)]
               ELSE future
  /\ awaiting' = [awaiting EXCEPT ![c] = None]
  /\ toBroker' = [toBroker EXCEPT ![c] = Tail(@)]
  /\ UNCHANGED <<registered, callVars, handlerVars, agentVars, toAgent, historyVars>>

(* A frame is ignored: the connection is not the registered one, or nobody *)
(* waits for the answer any more, or no screenshot awaits an image.        *)
HandlerIgnores(c) ==
  /\ handler[c] = "serving"
  /\ toBroker[c] # << >>
  /\ \/ ~ Current(c)
     \/ Head(toBroker[c]).kind # "image" /\ Addressee(c) \notin Undone(c)
     \/ Head(toBroker[c]).kind = "image" /\ awaiting[c] = None
  /\ toBroker' = [toBroker EXCEPT ![c] = Tail(@)]
  /\ UNCHANGED <<registryVars, callVars, handlerVars, agentVars, toAgent,
                 historyVars>>

(* unregister: a no-op unless c is the registered connection; else c is    *)
(* removed and the calls that wait on it fail with MachineNotConnected.    *)
Unregister_AnyConnection(c) ==
  /\ registered' = [registered EXCEPT ![owner[c]] = None]
  /\ future' = [r \in Calls |-> IF r \in Undone(c)
                                THEN Future("gone", None, None)
                                ELSE future[r]]
Unregister_KeepsEntry(c) ==
  /\ future' = [r \in Calls |-> IF Current(c) /\ r \in Undone(c)
                                THEN Future("gone", None, None)
                                ELSE future[r]]
  /\ UNCHANGED registered

Unregister(c) ==
  IF Current(c)
  THEN /\ registered' = [registered EXCEPT ![owner[c]] = None]
       /\ future' = [r \in Calls |-> IF r \in Undone(c)
                                     THEN Future("gone", None, None)
                                     ELSE future[r]]
  ELSE UNCHANGED <<registered, future>>

(* The serving loop ends with the connection; its finally block runs.      *)
HandlerExits(c) ==
  /\ handler[c] = "serving"
  /\ ~ up[c]
  /\ Unregister(c)
  /\ handler' = [handler EXCEPT ![c] = "done"]
  /\ toBroker' = [toBroker EXCEPT ![c] = << >>]
  /\ UNCHANGED <<awaiting, callVars, owner, up, agentVars, toAgent, historyVars>>

(* The broker's end of the transport goes down: the peer closed it, the    *)
(* network reset it, or the library's keepalive ping was not answered.     *)
TransportLost(c) ==
  /\ up[c]
  /\ up' = [up EXCEPT ![c] = FALSE]
  /\ UNCHANGED <<registryVars, callVars, owner, handler, agentVars, wireVars,
                 historyVars>>

-----------------------------------------------------------------------------
(* An HTTP call (http_api._call and ConnectionRegistry.call).              *)

Ends(r, how) ==
  /\ stage' = [stage EXCEPT ![r] = "done"]
  /\ outcome' = [outcome EXCEPT ![r] = how]

(* The machine has no connection: 404 at once, nothing is sent.            *)
CallRefused(r) ==
  /\ stage[r] = "idle"
  /\ registered[Target[r]] = None
  /\ Ends(r, "not_connected")
  /\ UNCHANGED <<registryVars, conn, handlerVars, agentVars, wireVars, historyVars>>

(* The future is entered under the request's id and the request written.   *)
(* A connection whose transport is down refuses the write.                 *)
CallStarts(r) ==
  /\ stage[r] = "idle"
  /\ registered[Target[r]] # None
  /\ LET c == registered[Target[r]] IN
       /\ conn' = [conn EXCEPT ![r] = c]
       /\ toAgent' = WithFrame(toAgent, c, Frame("request", r))
       /\ sent' = IF up[c] THEN [sent EXCEPT ![c] = Append(@, r)] ELSE sent
  /\ future' = [future EXCEPT ![r] = Future("pending", None, None)]
  /\ stage' = [stage EXCEPT ![r] = "sending"]
  /\ UNCHANGED <<registered, awaiting, outcome, handlerVars, agentVars, toBroker,
                 runs>>

(* send returns, once the write buffer has drained: wait_for starts.       *)
CallSent(r) ==
  /\ stage[r] = "sending"
  /\ up[conn[r]]
  /\ stage' = [stage EXCEPT ![r] = "waiting"]
  /\ UNCHANGED <<registryVars, conn, outcome, handlerVars, agentVars, wireVars,
                 historyVars>>

(* A send that fails taken for a machine that is not connected.            *)
CallSendFails_Refused(r) ==
  /\ stage[r] = "sending"
  /\ ~ up[conn[r]]
  /\ Ends(r, "not_connected")
  /\ UNCHANGED <<registryVars, conn, handlerVars, agentVars, wireVars, historyVars>>

(* send raises ConnectionClosed: _call maps no HTTP status to it, so the   *)
(* caller gets a 500.                                                      *)
CallSendFails(r) ==
  /\ stage[r] = "sending"
  /\ ~ up[conn[r]]
  /\ Ends(r, "internal")
  /\ UNCHANGED <<registryVars, conn, handlerVars, agentVars, wireVars, historyVars>>

(* The future is done and the call returns or raises what it holds.        *)
CallAnswered(r) ==
  /\ stage[r] = "waiting"
  /\ \/ future[r].state = "result" /\ Ends(r, "ok")
     \/ future[r].state = "error" /\ Ends(r, "machine_error")
     \/ future[r].state = "gone" /\ Ends(r, "disconnected")
  /\ UNCHANGED <<registryVars, conn, handlerVars, agentVars, wireVars, historyVars>>

(* wait_for's timer runs from the send to the answer, whatever becomes of  *)
(* the connection.                                                         *)
TimerRuns_Connected(r) ==
  stage[r] = "waiting" /\ future[r].state = "pending" /\ Current(conn[r])

TimerRuns(r) == stage[r] = "waiting" /\ future[r].state = "pending"

(* request_timeout elapses: wait_for cancels the future, if it is not done *)
(* by then, and raises in a later turn of the event loop.                  *)
CallExpires(r) ==
  /\ TimerRuns(r)
  /\ future' = [future EXCEPT ![r] = Future("cancelled", None, None)]
  /\ UNCHANGED <<registered, awaiting, callVars, handlerVars, agentVars, wireVars,
                 historyVars>>

CallTimesOut(r) ==
  /\ stage[r] = "waiting"
  /\ future[r].state = "cancelled"
  /\ Ends(r, "timeout")
  /\ UNCHANGED <<registryVars, conn, handlerVars, agentVars, wireVars, historyVars>>

-----------------------------------------------------------------------------
AgentStep(c) ==
  \/ \E m \in Machines : AgentConnects(m, c)
  \/ AgentReportsMonitors(c)
  \/ AgentIsRejected(c)
  \/ AgentTakesConfig(c)
  \/ AgentTakesRequest(c)
  \/ AgentReportsError(c)
  \/ AgentReportsResult(c)
  \/ AgentSendsImage(c)
  \/ AgentLost(c)

HandlerStep(c) ==
  \/ HandlerAccepts(c)
  \/ HandlerRejects(c)
  \/ HandlerPushesConfig(c)
  \/ HandlerRegisters(c)
  \/ HandlerQuits(c)
  \/ HandlerTakesError(c)
  \/ HandlerTakesResult(c)
  \/ HandlerTakesImage(c)
  \/ HandlerIgnores(c)
  \/ HandlerExits(c)

CallStep(r) ==
  \/ CallRefused(r)
  \/ CallStarts(r)
  \/ CallSent(r)
  \/ CallSendFails(r)
  \/ CallAnswered(r)
  \/ CallExpires(r)
  \/ CallTimesOut(r)

Next ==
  \/ \E c \in Conns : AgentStep(c) \/ HandlerStep(c) \/ TransportLost(c)
  \/ \E r \in Calls : CallStep(r)

Spec == Init /\ [][Next]_vars

(* What the event loop and the library give: a coroutine that can run is   *)
(* run, the write buffer drains or the connection closes, timers fire, and *)
(* the keepalive ping (on by default in websockets) notices in the end a   *)
(* peer that is gone.  Nothing is assumed of the thin clients.             *)
Fairness ==
  /\ \A c \in Conns : /\ WF_vars(HandlerStep(c))
                      /\ WF_vars(agent[c] = "gone" /\ TransportLost(c))
  /\ \A r \in Calls : /\ WF_vars(CallSent(r) \/ CallSendFails(r))
                      /\ WF_vars(CallAnswered(r))
                      /\ WF_vars(CallExpires(r))
                      /\ WF_vars(CallTimesOut(r))

FairSpec == Spec /\ Fairness
=============================================================================
