# JourneyDrive in TLA+

JourneyDrive lets an AI agent operate remote desktops: thin clients on the
machines connect out to a broker, callers reach the machines over the broker's
HTTP API (through an MCP server or the automation runner), and the automation
runner takes a model through a script of steps with an independent reviewer.
These modules specify its core logic; TLC checks them on small instances and
TLAPS proves the main results for every instance. Paths below are relative to
the repository; the Python packages are under `src/`.

## 1. The system

| Component | State | Operations | What makes it hard |
|---|---|---|---|
| Connection registry (`journeydrive_broker/registry.py`) | machine id -> connection; per connection the pending futures, their methods, and the screenshot that awaits its binary frame | `register`, `unregister`, `call`, `handle_text_frame`, `handle_binary_frame` | awaits between lookup, send and answer; timeouts racing late answers; reconnects racing disconnects; images without an id |
| Websocket server (`ws_server.py`) | where the handler of each connection is | handshake, ack, monitors, config push, register, serve, unregister | five ways out; a push that is held up; peers that vanish without a word |
| HTTP API (`http_api.py`) | the waiting calls | one route per command, `_call` | what each failure tells the caller about the command |
| Thin client process (`journeydrive_windows_thinclient`: `server.py`, `ws_client.run`, `config.py`, `tls_pinning.py`) | its settings, the certificate it trusts, whether it was ever connected, attempts | load, probe, connect, apply a pushed profile, reconnect, end | a broker that comes back as another one; connections lost in the handshake; settings of earlier pushes |
| Thin client loop (`journeydrive_windows_thinclient/ws_client.py`) | the connection it serves, the command it performs | connect, hello, monitors, config, dispatch, reconnect | commands run strictly in order; answers are lost with the connection; a restart forgets everything |
| Input control (`input_control.py`) | what is held down, a timer for each | press, release, tap, click, type, auto-release | timer threads racing the worker for one lock |
| Automation runner (`journeydrive_automation/graph.py`) | step, attempt, budget, conversation, stall records, results | ten nodes and their edges, `run_automation` | the model, reviewer and machine may answer anything; what must be reset, counted and recorded is spread over the nodes |
| Tools, model, scripts (`tools.py`, `llm.py`, `script.py`) | none | one call each | which errors become results, which end the run |
| Pointing (`journeydrive_mcp/server.py`, `geometry.py`, `tools.py`, `capture.py`) | the layout the broker caches when a machine connects; what a tool has read of it so far | pictures, crops, previews, moves and clicks, each one to three requests | a layout that changes, or a machine that reconnects, between two requests; defaults that differ; edges of the screen |
| Screenshot store (`server.py`: `_save_screenshot`, `_prune_old_screenshots`) | a folder of files | save, prune | name order standing in for time; a clock that is set back; files of others |
| Start-up (`journeydrive_mcp/__init__.py`, `client.py`, `config.py`; `journeydrive_automation/__init__.py`; `journeydrive_broker/config.py`) | settings, and what the broker pushed over them | load, validate, connect, fetch, merge, serve | a broker that is down, restarted with another configuration, or that pushes what nobody checked |
| Encoding, prompts, run log | none once read | encode, write | nothing that keeps state |
| macOS thin client | as on Windows | as on Windows | the same code but for permissions and paths |

How they interact. An HTTP call looks the machine up in the registry, enters a
future under a fresh id, sends one JSON frame on the websocket and waits for the
future with a timeout. The thin client reads one request at a time, performs it
in a worker thread and sends one frame, or for a screenshot two: its metadata
and the image, which has no id. The handler of the connection passes each frame
to the registry, which completes the future. A thin client that loses its
connection opens another; the broker may notice the loss of the old one later.
The automation runner is an HTTP caller of its own.

What must be right, per component: answers reach the call they are for; a call
always ends; the registry lists only live connections and loses none; a command
runs at most once and the reply says what is known of it; a thin client keeps
trying once it was connected, talks only to the broker it knows, and works with
that broker's profile; no button or key stays
down; a click hits what the picture showed; no copy is overwritten and the
oldest go first; a program works with its own settings and one pushed profile as
a whole over them; budgets hold, the reviewer alone passes a step, and the
results tell what happened.

## 2. Modules

| Module | What it is |
|---|---|
| `Broker` | registry, handlers, calls, thin client loops and the wires between them |
| `BrokerProperties` | what must hold of `Broker`, and its inductive invariant for images |
| `AtMostOnce` | abstract: what the broker promises a caller about a command |
| `InputControl` | the thin client's held inputs and their timers, with its properties |
| `ThinClient` | one thin client process around its connections, with its properties |
| `Automation` | the runner's graph, with its properties |
| `ScriptRun` | abstract: what a script run promises |
| `Geometry` | monitors, fractions, pixels and regions, as operators |
| `Pointing` | the tools that take pictures or point, from caller to capture, with their properties |
| `ScreenshotStore` | the folder of copies: names, collisions, pruning |
| `McpServer` | the programs on the controller's side from their start, and the broker's configuration; composes `ScreenshotStore`, with the properties of both |
| `MCBroker`, `MCInputControl`, `MCThinClient`, `MCAutomation`, `MCPointing`, `MCMcpServer` | instances for TLC |
| `BrokerProofs`, `RegistryProofs`, `PromiseProofs`, `InputControlProofs`, `ThinClientProofs`, `AutomationProofs`, `PointingProofs`, `McpServerProofs` | theorems and proofs |

`Broker` composes four components because their interleavings are what is hard.
`Broker` implements `AtMostOnce` and `Automation` implements `ScriptRun`, each
by a refinement mapping in the module that states the properties.

`ThinClient` stands beside `Broker` rather than below it: the two share
`ws_client.run`, but `Broker` asks what happens to frames and calls, `ThinClient`
what happens to the process, and together they would multiply their states.
`Pointing` and `McpServer` stand above `Broker` for the same reason: to them a
request is answered or fails, and `Broker` says when.

Definitions whose name has an underscore and a remark after a definition's name
(`Unregister_AnyConnection`) are not part of a specification: each is the
definition with a plausible bug, which the property beside it must detect. They
are listed in `PROJECT.json` under `mutants`.

### Broker

Whatever the event loop runs between two awaits is one action. Connections are
numbered in the order in which they are opened.

| State | In the code |
|---|---|
| `registered` | `ConnectionRegistry._connections`, the websocket of each entry |
| `awaiting` | `_Connection.awaiting_binary` |
| `future` | the `asyncio.Future` of a call: pending, result, error, gone (`MachineNotConnected`), cancelled (`wait_for`) |
| `stage`, `conn`, `outcome` | where `call` is, the connection it looked up, how the HTTP call ended |
| `handler` | where `ws_server`'s handler is |
| `up` | the broker's end of the transport is open |
| `agent`, `job`, `exited` | the thin client's loop, its command, whether its process has ended for good |
| `toBroker`, `toAgent` | frames in flight, in order |
| `sent`, `runs` | history: requests written, commands performed |

`_Connection.pending` is not a variable: its keys are the calls that looked the
connection up and have not left `call` (`Pending`), since `call` itself adds and
removes them. Two losses are independent: `AgentLost` is the thin client's end
(network, crash, restart), `TransportLost` the broker's. Frames to a transport
that is down are lost; frames in flight when it goes down may be read or not.
A command whose thin client is lost has run, but its answer is never sent.

### InputControl

The worker performs one command at a time and has `_lock` from its first input
to its last; each timer is a thread that waits, then wants the lock. `Elapses`
and `Fires` are apart, and that is where the races are: a timer that has elapsed
can no longer be cancelled. `Exits` is the end of the process at any point.

### ThinClient

The other end is whatever listens at the broker's address (`peer`, `listening`):
a record of its certificate, whether it accepts this machine's key, the profile
it pushes, and whether it is a broker at all. It stops and starts as another
one; the network drops connections and fails attempts (`faults`).

| State | In the code |
|---|---|
| `phase`, `exit` | where `server.main` and `ws_client.run` are, and the exception or `sys.exit` that ended them |
| `tls`, `settings` | `config.broker_tls`; `config.screenshot` and `config.log_level` |
| `trusted` | what `ssl_context` trusts |
| `reached`, `attempts` | `connected_once`, `attempts` |
| `link`, `frame` | the connection is up; the frame the broker sent that is not yet read |
| `shot` | the last screenshot of this connection, with its request |
| `greeted` | history: the peers that were sent the machine id and key |

`process_exception` asks the library first: an answer that is not a websocket
upgrade is fatal (`IsRefused`), every `OSError`, so also a certificate that is
not trusted, is retried (`ConnectFails`). One frame is in flight at a time: the
broker waits for the monitors before it pushes, and `Broker` covers queues.

### Automation

One action per node, with the edge taken from it; the answers of the model, the
reviewer and the machine are chosen freely. A tool call is its signature, a
screenshot its fingerprint; of both, the last few are kept, those `guard` reads.
`dialogue` is what the messages API would say of the conversation. `Aborts`,
`Crashes` and `RunsOutOfSteps` are the three other ways out of
`run_automation`: the exceptions it catches, a `ValueError` it does not, and
`GraphRecursionError`.

### Pointing

A tool call is a record of its arguments and of who makes it, the MCP server or
the runner; between two of its requests anything may happen to the machine.
Fractions are whole numbers of `Unit`, rounded as Python rounds, halves to even.

| State | In the code |
|---|---|
| `display` | the monitors of the machine, as `mss` lists them, all of them together first |
| `layout` | `_Connection.monitors`: those reported when the machine connected, or no connection |
| `call`, `at` | the tool call and the request it awaits |
| `monitors`, `pixel`, `image` | its local variables: the list it has read, the pixel it has resolved, which part of the screen its picture shows |
| `stable`, `seen` | history: since the call began the layout, when there is one, has been true; the last whole picture |

`docs/BROKER.md` accepts that the layout is stale after a display change until
the machine reconnects, so the properties are stated for calls during which the
display does not change and the cache is not stale (`stable`); the machine may
disconnect and connect again meanwhile. What a call does that meets a display
change is in the model, and no property is about it. That is not enough to make
them easy: the first request of a call and its last may see different
connections, and the clients' defaults differ. `Aimed` and `SeenPixel` are
computed from the display, never from what the tool has read.

PIL pads what a crop takes from outside the picture with black: `crop` leaves
the part inside, the only one that shows any screen, or nothing at all.

### McpServer and ScreenshotStore

`McpServer` has one program at a time, `phase` saying how far `main` or `_run`
has come or how it ended; `settings` are those loaded and then merged with the
push; `timeout` is that of its HTTP client, which is made before the fetch.
A configuration is a record of what its validation tells apart: whether it can
be read, lengths of keys, whether the certificate's files are there, `None` for
what is not given and `Bad` for what has a wrong type. The values of a pushed
profile are checked by nobody, so any of them may be `Bad`: a timeout that makes
every request raise a `TypeError`, which ends the runner at its health check and
fails each of the MCP server's screenshots; a folder that `Path` refuses; a
maximum that cannot be compared. A local folder in `config.json` may be `Bad`
too; a local timeout or maximum is checked. The last actions are
`take_screenshot` and the saving of its copy. The folder outlives the program.

| State | In the code |
|---|---|
| `files` | the folder: names (tick, counter, format) to the number of the copy; 0 for files of others |
| `clock`, `wentBack` | `datetime.now`, in its own resolution; history: it has been set back |
| `copies` | history: the copies saved or tried |

Names are ordered as their text is: `T.jpeg`, `T.png`, `T_1.jpeg`. A save may
stop anywhere with an `OSError`: before there is a copy, with a copy written in
part, or with only some of the excess removed.

## 3. Runs

| Run | Instance | Shows |
|---|---|---|
| `core` | one machine, two connections, two screenshots | answers and images reach their own calls; only served connections are listed and only their own exit evicts them; config push first; commands in order; futures settle once; `AtMostOnce` implemented |
| `live` | two machines, one of them unknown to the broker, two connections, one call, fairness | every accepted call ends; a machine that is gone leaves the list |
| `newer` | one machine, two connections, one call | violated: an older connection can displace a newer one |
| `input` | a key and a button, four chords, three timers, fairness | nothing stuck, no stray timer, no early release, every hold ends |
| `client` | two screenshot fields and the log level, four profiles, two certificates or none, three attempts, two restarts, two faults, fairness | only the pinned certificate is greeted; unreachability ends the process only before its first connection; pushed profiles prevail in settings and screenshots; the client rejoins |
| `push` | same | violated: a push leaves what it does not mention |
| `automation` | two steps with budgets 3 and 1, two attempts, three tools | budgets, results, reasons, stalls, conversation, recursion limit; `ScriptRun` implemented |
| `budget` | as `automation` | violated: an attempt can go on past its last chance |
| `tools` | three layouts, all calls of the eight tools with edges, halves, empty regions and arguments that do not go together | a click hits what the picture showed; a preview's marker is exactly at the click, or at the nearest pixel of the picture; a crop is what its region has on its monitor |
| `seen` | as `tools` | violated: a fraction of a picture taken without a monitor is a fraction of another monitor |
| `server` | six configurations of the broker, three of them with values of a wrong type, seven of the programs, two formats, three copies, two ticks, two files of others | a program works with its settings and one profile as a whole over them, and ends unexpectedly for two reasons only; no failing disk loses a picture; copies are kept; the oldest go first |
| `boot` | as `server` | violated: with https the server does not start while the broker is down |

The bounds, and why they are enough. Two connections give every race between an
old and a new connection of a machine; a third could only repeat it. Two
screenshots are the least for an image to reach the wrong call, and both may be
in flight on one connection or on two. The `live` instance is smaller because
liveness checking is dearer; it has the call that a second one could not help or
hinder, as calls share nothing but the wire. Three timers let one input be
pressed, pressed again while its timer waits for the lock, and another held
beside it; commands name an input twice. Two steps and two attempts show a
retry, a later step, and a failure after a step that passed; the budgets differ,
since the recursion limit is made from the largest. Two stalls take six actions:
with a budget of three, rejected claims and replies without a call make up the
rest. The screen stays as it is, the case in which most stalls are found; what
differs when it changes is in the theorems, which have any screens. `MaxConn` and `MaxTimers` bound what is opened or started in a
behaviour, `Calls` the calls; no other variable needs a bound, as the recursion
limit bounds a run.

Deadlock is not checked: when the calls, connections, timers or steps of an
instance are used up the system has nothing left to do.

Two restarts give a peer that is replaced while the client is connected and once
more while it reconnects; two faults a connection lost in the handshake and the
next one lost too; three attempts stand for the code's five, as nothing depends
on their number but the count. Two fields are the least for a profile to mention
one and not the other.

Three layouts: a single monitor; a second, smaller one to the right, so that one
past the edge of the first is a pixel of the second; and one to the left, with
negative coordinates. Four units make quarters, which round both ways on sizes
of two, three and four, and give a region too small for a pixel; calls have
fractions past 1.0, regions partly or wholly outside the picture, indices that do
not exist and the negative one that Python accepts. Two ticks and three copies give a collision, a save after the clock is
set back, and a restart between; one file of others sorts before all copies, one
after them, and caps of one and two make pruning remove the first and keep the
last in a copy's place. Each configuration
of the programs or the broker that the actions cannot do without is in an
instance; that each single defect is refused is evaluated as an assumption of
`MCMcpServer`.

Fairness. The event loop runs every coroutine that can run (`HandlerStep`,
`CallAnswered`, `CallTimesOut`), `wait_for`'s timer fires (`CallExpires`), a send
ends because the buffer drains or the connection closes (`CallSent`,
`CallSendFails`), and the websockets library's keepalive, on by default, closes
a connection whose peer is gone (`TransportLost` of such a connection). Nothing
is assumed of a thin client: it may never answer. In `InputControl` the worker
and the timers get the lock in the end (strong fairness): a lock that is
released again and again is not kept from one waiting thread forever by the
operating system's scheduler. A command need never come. In `ThinClient` the
process takes its steps, as the library's backoff only delays them, and the
broker's handler answers the hello and the monitors over a live connection.
`Pointing`, `McpServer` and `Automation` have none: what they promise is safety,
and whether a request ends is `Broker`'s matter.

## 4. What the runs found

Five statements of the repository that the code does not keep, each with its
run:

- `register` may put an older connection over a newer one (`newer`), which
  `_current`'s comment rules out;
- a rejected claim or a reply without a tool call spends past the "hard budget"
  (`budget`), against `docs/AUTOMATION.md`;
- a profile that mentions one screenshot field resets the others (`push`),
  against the repository's `README.md` and `docs/BROKER.md`;
- `take_screenshot` without a monitor shows the monitor the thin client is
  configured for, by default all of them, while fractions without a monitor are
  of the primary one (`seen`): on a machine with two monitors "a fraction of the
  image" of `docs/MCP_SERVER.md` is a fraction of something else;
- with https the MCP server fetches the certificate before the part of `main`
  that tolerates a broker that is down, and ends with a traceback (`boot`),
  against `docs/BROKER.md` and the comment in `main`.

Smaller ones, seen while modelling and kept in the modules without a run: the
calls of a connection that `register` replaces are not failed by its end but
wait for their timeout; a connection closing during a send reaches the caller as
a 500, which `docs/BROKER.md` does not list (`CallSendFails`); the summary of an
aborted run has no results (`Aborts`); within one tick of the clock the order
of names is not that of the copies (`OldestGoFirst` says why); a pushed timeout
that is no number ends the runner with an unexpected error (`ChecksHealth`).

Two more are disagreements with the documents that a passing property states as
far as the code goes. The marker of a preview is inside its picture, so for a
fraction that rounds to the pixel after the last, 1.0 always, it is one pixel
short of the click, which may even be on the next monitor;
`docs/MCP_SERVER.md` calls it "a dot exactly on it" and its position "always
consistent". `PreviewShowsTheClick` has the exact place for every preview, and
`PreviewsOffAtEdges` proves that those fractions are the only ones. And a copy
that fails with something else than an `OSError` does lose the picture, which
the comment of `_save_screenshot` is against: a folder that is no text, pushed or
local, or a pushed maximum that is no whole number. `ShownWhateverTheCopy` says
that these are the only ways.

How far each of the first four goes is proved (section 5): the older connection
that displaces a newer one has always been left by its thin client
(`DisplacedByLeft`); what an attempt overspends ends within a third of the
recursion limit (`OverspendingBounded`); a push that resets fields resets them
to its own profile and the defaults, and only a broker the client trusts can
push, so the screenshot settings are never made of two sources; the log level
has a source of its own (`TrustedConfigures`);
and the fraction is right as soon as the two defaults agree, which they do when
the thin client is configured for monitor 1 (`FractionsHold`,
`PrimaryConfigured`).

The passing properties bound the damage: calls still end (`EveryCallEnds`), a
command still runs at most once (`ImplementsPromise`), no more UI actions are
executed than the budget allows (`ActsWithinBudget`), what a profile does
mention always prevails (`ServesAsConfigured`), a click with a monitor's index
hits what its picture showed (`HitsWhatItSaw`), and what a push can end is the
runner, by its timeout, and never the MCP server (`WorksAsConfigured`).

## 5. Proofs

All theorems assume only the named assumptions of the modules on their
constants: any machines, calls, inputs, scripts and bounds. Every safety
property and action property of the passing runs is the statement of a theorem.
Others are stated in the proof modules only; TLC agreed to them on the same
instances before they were proved.

- `BrokerProofs`: `TypeCorrect`, `ImagesHold` and, from it, `AnswersMatch`. That a success is the
  caller's own answer is not inductive: an image has no id, so what matters is
  what is on the wire. `WireInv` says, for each connection, that an image
  follows directly on its metadata, in the queue or across the moment at which
  the handler has read the metadata (`awaiting`); that a thin client about to
  send an image has just sent its metadata; and that what a replaced connection
  awaits does not matter any more, since it is never current again. The proof
  goes action by action over `WireInv` and `AnswerInv`.
- `RegistryProofs`: `RegistryServes`, `NoForeignEviction`, `FuturesSettleOnce`,
  from the type invariant and a few facts about where handlers are.
- `PromiseProofs`: `ConfigFirst`, `InOrder` and `KeepsPromise`, the refinement of
  `AtMostOnce`. That a command runs at most once needs the order of the frames:
  while a thin client serves, the requests on the way to it are the last ones
  sent, those before them have run once and these not at all (`ServingInv`);
  before it has read the config push, the push is at the head and no request
  has run (`ConfigInv`). A request is sent once, on the connection its call
  looked up (`SentInv`), and what comes back, in the queue or as the image
  awaited, has run (`BackInv`, `AwaitInv`), so an answer means execution
  (`CallInv`).

  The second half is about a machine as a whole. A thin client opens a
  connection only after it has left the last one (`LoopInv`), a frame travels
  only to the machine it was sent for (`AddressInv`); with both, `MachineInv`
  makes the commands of all its connections one sequence: one at a time
  (`Sequential`), by the right machine on its newest connection
  (`PerformedByTarget`), never after a later one (`InTurn`). `DisplacedByLeft`
  is from the same facts. `AnswersHold` says what a caller may conclude: after
  200, and the 400 of an error that the machine reports, the command has been
  dispatched once, with or without effect; after the 404 of a machine that "is
  not connected" it never is. The 404 of a machine that "disconnected
  mid-request" is another one: like 504 and 500 it leaves open whether the
  command has run. All of it follows from the abstract `AtMostOnce`
  (`PromiseMeaning`) through the refinement, without a look at the broker again.
- `InputControlProofs`: `InputTypeCorrect`, `NoInputStuck`, `TimersCancelled`,
  `HoldsNotCutShort`. Within a command the inputs still to be handled, and those
  a tap has pressed but not yet released, are exempt; the invariant says which.
  `EffectsComplete` is the other side, what a command has achieved when it gives
  the lock back: `ProgressInv` has the inputs already handled, which no timer
  can undo, as a timer needs the lock too.
- `ThinClientProofs`: `ClientTypeCorrect`, `CredentialsPinned`, `KeepsTrying`,
  `ProfileApplied`, `ShotsRight`. None of the four properties is inductive:
  `IInv` adds what the process has established at each place it can be in, which
  frame it can be about to read there, and that a live connection leads to the
  peer that listens now, so that the profile in flight is that peer's.
  `TrustedConfigures` follows the settings back to their source over every
  reconnect: `AcceptedInv` and `PushedInv` say that a profile in flight is of a
  trusted peer that was greeted, `SourceInv` where the settings came from.
- `AutomationProofs`: `TypesRight`, `ResultsRight`, `DialogueRight`,
  `BudgetKept`, `JudgesAfresh`, `ReasonsRight`, `StuckOnEvidence`,
  `LimitSpares`, `OverspendingBounded`, `PassedWasReviewed` and
  `KeepsScriptPromise`, the refinement. `RunInv` says at which node what holds
  of the step, the accepted steps, the results, the pending message and the
  budget; that an accepted step leads to `step_passed` and nowhere else
  (`ReviewInv`) is what makes the counting of `route_verify` right.

  `EvidenceInv` is about what an attempt is judged by: its own calls and screens
  (`JudgedAfresh`), each of which, but for the first screen, has cost an action,
  as have three for each stall before (`StallInv`); `WhyInv` has what leads to `attempt_failed`.

  That the recursion limit spares runs within their budgets is counting:
  `VisitsInv` bounds the nodes visited by what the attempts so far, each with
  the largest budget, and the current one may take. It needs that the maximum of
  the budgets exists (`PrefixHasMax`, by well-foundedness, since the prover has
  no induction), and products of variables, taken apart in `ProductGrows` and
  `NextMultiple`. `RoundsInv` counts the other way, at least three nodes for
  each action used, which bounds what overspends; `EarlierAccepted` says that
  the steps behind the current one were accepted.
- `PointingProofs`: `TypesRight`, `ClicksHit`, `CropsRight`, `PreviewsRight`,
  `PreviewsOffAtEdges`.
  `PointInv` carries what a call has read from one request to the next: while
  the layout is true the list read is the display (`ListInv`), the pixel is the
  one aimed at (`AimInv`) and the picture is of the monitor meant (`ImageInv`,
  `SeenInv`). That the marker is the nearest pixel of the picture is
  `PreviewMarks`; which fractions from 0.0 to 1.0 are off by that, and by how
  much, needs arithmetic on `Round` (`RoundInside`), that a crop is an
  intersection arithmetic on `Cut` (`CropCuts`). That rounding goes to a nearest
  pixel and keeps points in order is `RoundsToNearest`. `FractionsHold` proves
  what the run `seen` refutes, under the one hypothesis `DefaultsAgree`;
  `PrimaryConfigured` has the configuration that fulfils it.
- `McpServerProofs`: `TypesRight`, `ConfiguredAsAWhole`, `PicturesShown`,
  `CopiesKept`, `OldestPruned`, `PrunedToTheMaximum`. `StartInv` says that a
  running broker has a valid configuration, so that what it pushes has only
  fields of `Settings`, and follows settings and timeout from the load through
  the merge; `StoreInv` that the copies' numbers follow the ticks of their
  names while the clock is not set back, and `OldestAreEarlier` that what
  pruning takes is first in the order of names. How many it takes is
  `OldestCount`: each name's place in the order is a number of its own, so the
  places are all those there are, and the oldest k names are k.

Only model-checked: liveness (`EveryCallEnds`, `GoneMachineUnlisted`,
`HoldsEnd`, `Rejoins`), as the prover does neither fairness nor `ENABLED`. The
violated statements of section 4 are counterexamples of TLC's; there is nothing
to prove of them but the bounds named there.

## 6. What is left out, and the plan

Not modelled: image encoding, quality and format; the shape of the preview's
marker; prompts, token counts, log files and the run log, packaging and the
manual test scripts, which keep no state a property could be about; request
schemas and the comparison of API keys; the arguments of tools that only pass
them on (scroll, keys, text, clipboard), where a call stands for its request;
the macOS agent, whose logic is the Windows agent's. Python's floats are exact
quotients in `Geometry`. `McpServer` has one program and one writer of its
folder at a time.

The plan. For the proofs: from `AtMostOnce` up to `Pointing`, what the outcome of
a call says of the click or picture it stood for; and, as safety theorems, the
states a waiting call can be in, on which the liveness arguments rest. For the
model: a caller that retries, over `AtMostOnce`, with input control below it,
for what a timed-out press and its retry do to the machine.
