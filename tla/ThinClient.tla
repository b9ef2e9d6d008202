----------------------------- MODULE ThinClient -----------------------------
(***************************************************************************)
(* The life of one thin client process: what server.main reads, the probe  *)
(* of the broker's certificate, the first connection and all later ones,   *)
(* the configuration the broker pushes, and the ways the process ends      *)
(* (journeydrive_windows_thinclient: server.py, ws_client.run, config.py,  *)
(* tls_pinning.py; the macOS agent has the same code).                     *)
(*                                                                         *)
(* Broker has the frames of many machines in order and leaves the process  *)
(* around a connection out; here one machine has its whole process, and    *)
(* the broker is the machine at the other end of its address: it stops,    *)
(* and what starts in its place may have another certificate, key or       *)
(* profile, or may not be a broker.  It pushes a profile only as           *)
(* broker/config.py validated it.                                          *)
(*                                                                         *)
(* A definition named X_Y is not part of the specification: it is X with a *)
(* bug Y, which the properties must tell from X.                           *)
(***************************************************************************)
EXTENDS Integers

CONSTANTS
  Fields,      \* the fields of ScreenshotConfig
  Values,      \* their values, and those of log_level
  Default,     \* Default[f]: the default of field f
  Locals,      \* the settings a config.json may give
  Peers,       \* what may listen at the broker's address
  Requests,    \* the fields a screenshot request may give
  Pin,         \* broker_cert_fingerprint
  Attempts,    \* _INITIAL_CONNECT_ATTEMPTS
  MaxStarts,   \* bound: times something starts listening in a behaviour
  MaxFaults,   \* bound: network faults in a behaviour
  None

(* A part of the fields with their values.                                 *)
Partial == UNION {[fs -> Values] : fs \in SUBSET Fields}

Settings == [screenshot : [Fields -> Values], log_level : Values]
Profiles == [screenshot : Partial \cup {None}, log_level : Values \cup {None}]

ASSUME ValuesAssumption ==
  /\ Default \in [Fields -> Values]
  /\ Locals \subseteq Settings
  /\ Requests \subseteq Partial
ASSUME PeersAssumption ==
  \A p \in Peers :
    /\ p.accepts \in BOOLEAN   \* the broker has this machine with this key
    /\ p.profile \in Profiles  \* machine_profiles[machine_id]
    /\ p.websocket \in BOOLEAN \* FALSE: some other server has the port
                               \* p.cert: its certificate, None without TLS
ASSUME BoundsAssumption ==
  Attempts \in Nat \ {0} /\ MaxStarts \in Nat /\ MaxFaults \in Nat
ASSUME NoneAssumption == None # Pin /\ None \notin Values \cup Partial

VARIABLES
  \* the broker's address
  listening,  \* something listens there
  peer,       \* what does, or did last
  starts,     \* how often something started
  faults,     \* network faults so far
  \* the connection
  link,       \* it is up
  frame,      \* what the broker sent and the client has not read, or None
  \* the process
  phase,      \* where it is
  exit,       \* why it ended, "none" if it has not
  tls,        \* config.broker_tls
  settings,   \* config.screenshot and config.log_level
  trusted,    \* the certificate ssl_context trusts, None for none
  reached,    \* connected_once
  attempts,   \* attempts
  shot,       \* the last screenshot of this connection, or None
  \* history
  greeted     \* the peers that were sent the machine id and key

addressVars == <<listening, peer, starts, faults>>
linkVars    == <<link, frame>>
processVars == <<phase, exit, tls, settings, trusted, reached, attempts, shot>>
vars == <<addressVars, linkVars, processVars, greeted>>

Frame(kind, content) == [kind |-> kind, content |-> content]
Frames == [kind : {"ack", "nack"}, content : {None}]
            \cup [kind : {"config"}, content : Profiles]
            \cup [kind : {"request"}, content : Requests]
ASSUME FramesAssumption == None \notin Frames
Shot(asked, used) == [asked |-> asked, used |-> used]

TypeOK ==
  /\ listening \in BOOLEAN
  /\ peer \in Peers
  /\ starts \in 0..MaxStarts
  /\ faults \in 0..MaxFaults
  /\ link \in BOOLEAN
  /\ frame \in Frames \cup {None}
  /\ phase \in {"load", "probe", "connect", "hello", "config", "serve", "ended"}
  /\ exit \in {"none", "config", "probe", "mismatch", "unreachable", "refused",
               "rejected", "failure"}
  /\ tls \in BOOLEAN
  /\ settings \in Settings
  /\ trusted \in {Pin, None}
  /\ reached \in BOOLEAN
  /\ attempts \in 0..Attempts
  /\ shot \in [asked : Requests, used : [Fields -> Values]] \cup {None}
  /\ greeted \subseteq Peers

Init ==
  /\ listening \in BOOLEAN
  /\ peer \in Peers
  /\ starts = 0
  /\ faults = 0
  /\ link = FALSE
  /\ frame = None
  /\ phase = "load"
  /\ exit = "none"
  /\ tls \in BOOLEAN
  /\ settings \in Locals
  /\ trusted = None
  /\ reached = FALSE
  /\ attempts = 0
  /\ shot = None
  /\ greeted = {}

-----------------------------------------------------------------------------
(* Settings.                                                               *)

Over(part, whole) ==
  [f \in Fields |-> IF f \in DOMAIN part THEN part[f] ELSE whole[f]]

(* ScreenshotConfig.model_validate: a new object, whose absent fields get  *)
(* their defaults.                                                         *)
Validated(part) == Over(part, Default)

(* Applied with a bug: one part of the push or the other (an elif).        *)
Applied_OnePart(profile) ==
  [screenshot |-> IF profile.screenshot = None THEN settings.screenshot
                  ELSE Validated(profile.screenshot),
   log_level  |-> IF profile.screenshot # None \/ profile.log_level = None
                  THEN settings.log_level
                  ELSE profile.log_level]

(* _apply_config_push.                                                     *)
Applied(profile) ==
  [screenshot |-> IF profile.screenshot = None THEN settings.screenshot
                  ELSE Validated(profile.screenshot),
   log_level  |-> IF profile.log_level = None THEN settings.log_level
                  ELSE profile.log_level]

(* Chosen with a bug: the settings win over the request.                   *)
Chosen_Settings(asked) == settings.screenshot

(* _do_screenshot: what the request gives, and the settings otherwise.     *)
Chosen(asked) == Over(asked, settings.screenshot)

-----------------------------------------------------------------------------
(* The way out: an exception that leaves ws_client.run, or sys.exit.       *)
Ends(reason) ==
  /\ phase' = "ended"
  /\ exit' = reason
  /\ link' = FALSE
  /\ frame' = None

(* load_config: no such file, no JSON, or not valid.                       *)
LoadFails ==
  /\ phase = "load"
  /\ Ends("config")
  /\ UNCHANGED <<addressVars, tls, settings, trusted, reached, attempts, shot,
                 greeted>>

Loads ==
  /\ phase = "load"
  /\ phase' = IF tls THEN "probe" ELSE "connect"
  /\ UNCHANGED <<addressVars, linkVars, exit, tls, settings, trusted, reached,
                 attempts, shot, greeted>>

-----------------------------------------------------------------------------
(* fetch_pinned_ssl_context, once before the loop.                         *)

Presents(cert) == listening /\ peer.cert = cert

(* Whether a fault of the network hits this step: it is counted.           *)
Faulty == faults < MaxFaults /\ faults' = faults + 1
Smooth == UNCHANGED faults

(* create_connection or wrap_socket raises OSError, which nobody catches.  *)
ProbeFails ==
  /\ phase = "probe"
  /\ \/ (~ listening \/ Presents(None)) /\ Smooth
     \/ Faulty
  /\ Ends("probe")
  /\ UNCHANGED <<listening, peer, starts, tls, settings, trusted, reached,
                 attempts, shot, greeted>>

ProbeMismatches ==
  /\ phase = "probe"
  /\ listening /\ peer.cert \notin {Pin, None}
  /\ Ends("mismatch")
  /\ UNCHANGED <<addressVars, tls, settings, trusted, reached, attempts, shot,
                 greeted>>

ProbeMatches ==
  /\ phase = "probe"
  /\ Presents(Pin)
  /\ trusted' = Pin
  /\ phase' = "connect"
  /\ UNCHANGED <<addressVars, linkVars, exit, tls, settings, reached, attempts,
                 shot, greeted>>

-----------------------------------------------------------------------------
(* websockets.connect: the handshakes, below ws:// or the pinned context.  *)

(* Handshakes with a bug: the context of the probe, which verifies nothing. *)
Handshakes_Unverified == listening /\ (peer.cert = None) = (trusted = None)

(* The handshake passes: only the pinned certificate, or none in ws://.    *)
Handshakes == Presents(trusted)

(* Connects with a bug: connected_once is not set before the first push.    *)
Connects_NotYetOnce ==
  /\ phase = "connect"
  /\ Handshakes /\ peer.websocket
  /\ phase' = "hello"
  /\ link' = TRUE
  /\ frame' = None
  /\ shot' = None
  /\ greeted' = greeted \cup {peer}
  /\ UNCHANGED <<addressVars, exit, tls, settings, trusted, reached, attempts>>

(* The loop body is entered, and the hello sent.                           *)
Connects ==
  /\ phase = "connect"
  /\ Handshakes /\ peer.websocket
  /\ phase' = "hello"
  /\ link' = TRUE
  /\ frame' = None
  /\ reached' = TRUE
  /\ shot' = None
  /\ greeted' = greeted \cup {peer}
  /\ UNCHANGED <<addressVars, exit, tls, settings, trusted, attempts>>

(* An exception that the library thinks fatal: the answer to the upgrade   *)
(* is not one of a websocket server.                                       *)
IsRefused ==
  /\ phase = "connect"
  /\ Handshakes /\ ~ peer.websocket
  /\ Ends("refused")
  /\ UNCHANGED <<addressVars, tls, settings, trusted, reached, attempts, shot,
                 greeted>>

(* GivesUpAt with a bug: one attempt more than it says.                    *)
GivesUpAt_Late(n) == n > Attempts

GivesUpAt(n) == n >= Attempts

(* process_exception for what the library would retry: every OSError, so a *)
(* refused connection and, from ssl, a certificate that is not trusted.    *)
ConnectFails ==
  /\ phase = "connect"
  /\ \/ ~ Handshakes /\ Smooth
     \/ Faulty
  /\ IF reached
     THEN UNCHANGED <<attempts, phase, exit, linkVars>>
     ELSE /\ attempts' = attempts + 1
          /\ IF GivesUpAt(attempts + 1) THEN Ends("unreachable")
             ELSE UNCHANGED <<phase, exit, linkVars>>
  /\ UNCHANGED <<listening, peer, starts, tls, settings, trusted, reached, shot,
                 greeted>>

-----------------------------------------------------------------------------
(* One connection.                                                         *)

IsRejected ==
  /\ phase = "hello"
  /\ frame = Frame("nack", None)
  /\ Ends("rejected")
  /\ UNCHANGED <<addressVars, tls, settings, trusted, reached, attempts, shot,
                 greeted>>

(* The ack is read and the monitors are sent.                              *)
TakesAck ==
  /\ phase = "hello"
  /\ frame = Frame("ack", None)
  /\ phase' = "config"
  /\ frame' = None
  /\ UNCHANGED <<addressVars, link, exit, tls, settings, trusted, reached,
                 attempts, shot, greeted>>

TakesPush ==
  /\ phase = "config"
  /\ frame # None
  /\ settings' = Applied(frame.content)
  /\ phase' = "serve"
  /\ frame' = None
  /\ UNCHANGED <<addressVars, link, exit, tls, trusted, reached, attempts, shot,
                 greeted>>

(* _handle_screenshot; other commands do not read the settings.            *)
TakesShot ==
  /\ phase = "serve"
  /\ frame # None
  /\ shot' = Shot(frame.content, Chosen(frame.content))
  /\ frame' = None
  /\ UNCHANGED <<addressVars, link, phase, exit, tls, settings, trusted,
                 reached, attempts, greeted>>

(* A ValueError: an error is sent and the loop goes on.                    *)
ReportsError ==
  /\ phase = "serve"
  /\ frame # None
  /\ frame' = None
  /\ UNCHANGED <<addressVars, link, processVars, greeted>>

(* Any other exception, of capture.list_monitors or of a command, leaves   *)
(* _dispatch, run and main.                                                *)
Fails ==
  /\ \/ phase = "hello" /\ frame = Frame("ack", None)
     \/ phase = "serve" /\ frame # None
  /\ Ends("failure")
  /\ UNCHANGED <<addressVars, tls, settings, trusted, reached, attempts, shot,
                 greeted>>

(* LosesLink with a bug: only the loop over the requests notices.          *)
LosesLink_Serving ==
  /\ phase = "serve"
  /\ ~ link
  /\ phase' = "connect"
  /\ frame' = None
  /\ UNCHANGED <<addressVars, link, exit, tls, settings, trusted, reached,
                 attempts, shot, greeted>>

(* ConnectionClosed: a frame not yet read may be lost with the connection. *)
LosesLink ==
  /\ phase \in {"hello", "config", "serve"}
  /\ ~ link
  /\ phase' = "connect"
  /\ frame' = None
  /\ UNCHANGED <<addressVars, link, exit, tls, settings, trusted, reached,
                 attempts, shot, greeted>>

-----------------------------------------------------------------------------
(* The other end.                                                          *)

Stops ==
  /\ listening
  /\ listening' = FALSE
  /\ link' = FALSE
  /\ UNCHANGED <<peer, starts, faults, frame, processVars, greeted>>

Starts ==
  /\ ~ listening
  /\ starts < MaxStarts
  /\ listening' = TRUE
  /\ peer' \in Peers
  /\ starts' = starts + 1
  /\ UNCHANGED <<faults, linkVars, processVars, greeted>>

Drops ==
  /\ link
  /\ Faulty
  /\ link' = FALSE
  /\ UNCHANGED <<listening, peer, starts, frame, processVars, greeted>>

Sends(f) ==
  /\ link
  /\ frame = None
  /\ frame' = f
  /\ UNCHANGED <<addressVars, link, processVars, greeted>>

(* The broker's handler answers the hello, then pushes the profile once    *)
(* it has the monitors.                                                    *)
Answers ==
  /\ phase = "hello"
  /\ Sends(Frame(IF peer.accepts THEN "ack" ELSE "nack", None))

Pushes ==
  /\ phase = "config"
  /\ Sends(Frame("config", peer.profile))

(* A call for this machine.                                                *)
Asks ==
  /\ phase = "serve"
  /\ \E asked \in Requests : Sends(Frame("request", asked))

-----------------------------------------------------------------------------
Probe == ProbeFails \/ ProbeMismatches \/ ProbeMatches
Connect == Connects \/ IsRefused \/ ConnectFails
Converse ==
  IsRejected \/ TakesAck \/ TakesPush \/ TakesShot \/ ReportsError \/ Fails
Process == LoadFails \/ Loads \/ Probe \/ Connect \/ Converse \/ LosesLink
Handler == Answers \/ Pushes

Next == Process \/ Handler \/ Stops \/ Starts \/ Drops \/ Asks

Spec == Init /\ [][Next]_vars

(* The process takes its steps, which the backoff only delays, and the     *)
(* broker's handler those that answer it.  A call need never come.         *)
FairSpec == Spec /\ WF_vars(Process) /\ WF_vars(Handler)

-----------------------------------------------------------------------------
(* Properties.                                                             *)

(* With TLS the machine id and key have only been sent to a peer with the  *)
(* pinned certificate, in the first connection and in those the library    *)
(* makes later without asking (fetch_pinned_ssl_context's promise), and    *)
(* without TLS to a peer without TLS.                                      *)
OnlyPinned == \A p \in greeted : p.cert = IF tls THEN Pin ELSE None

(* Once any connection was made, the process is never ended by a broker    *)
(* that is down or has another certificate; before, it is by exactly the   *)
(* first Attempts failures in a row (run's connected_once).                *)
GivesUpOnlyAtFirst ==
  /\ greeted # {} => exit \in {"none", "refused", "rejected", "failure"}
  /\ exit = "unreachable" => attempts = Attempts

(* A thin client that serves a connection has every setting its broker's   *)
(* profile mentions, after restarts of the broker with another profile and *)
(* losses of the connection anywhere (applied on every reconnect).         *)
HasProfile(profile) ==
  /\ profile.screenshot # None =>
       \A f \in DOMAIN profile.screenshot :
         settings.screenshot[f] = profile.screenshot[f]
  /\ profile.log_level # None => settings.log_level = profile.log_level

ServesAsConfigured == phase = "serve" /\ link => HasProfile(peer.profile)

(* A screenshot over a live connection has what its request gives, for     *)
(* every other field what the broker's profile gives, and is never taken   *)
(* before the profile of this connection has come (_do_screenshot).        *)
ShotsAsAsked ==
  shot # None /\ phase = "serve" /\ link =>
    \A f \in Fields :
      \/ f \in DOMAIN shot.asked /\ shot.used[f] = shot.asked[f]
      \/ /\ f \notin DOMAIN shot.asked
         /\ peer.profile.screenshot # None /\ f \in DOMAIN peer.profile.screenshot
              => shot.used[f] = peer.profile.screenshot[f]

(* If in the end the broker is there for good, with its certificate and    *)
(* this machine's key, the process serves it for good, or has ended.       *)
Welcomes ==
  /\ Presents(IF tls THEN Pin ELSE None)
  /\ peer.websocket /\ peer.accepts

Rejoins == <>[]Welcomes => <>[](phase \in {"serve", "ended"})

(* What the documents say of the push, which does not hold: a field it     *)
(* does not mention keeps the value it had (docs/BROKER.md,                *)
(* _apply_config_push's docstring).                                        *)
Mentions(profile, f) ==
  profile.screenshot # None /\ f \in DOMAIN profile.screenshot

KeepsUnmentioned ==
  [][\A f \in Fields :
       phase = "config" /\ phase' = "serve" /\ ~ Mentions(frame.content, f) =>
         settings'.screenshot[f] = settings.screenshot[f]]_vars
=============================================================================
