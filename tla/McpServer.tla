----------------------------- MODULE McpServer -----------------------------
(***************************************************************************)
(* The programs on the controller's side, from their start: the MCP server *)
(* (journeydrive_mcp) and the automation runner                            *)
(* (journeydrive_automation/__init__.py), which share configuration and    *)
(* client; the broker, whose configuration (journeydrive_broker/config.py) *)
(* holds what it pushes to them; and the MCP server's take_screenshot,     *)
(* which saves copies as its settings say.                                 *)
(*                                                                         *)
(* One of the programs runs at a time.  It may be started again with       *)
(* another configuration, and so may the broker; the folder of copies      *)
(* stays.  All names of folders stand for that one.                        *)
(*                                                                         *)
(* A definition named X_Y is not part of the specification: it is X with a *)
(* bug Y, which the properties must tell from X.                           *)
(***************************************************************************)
EXTENDS ScreenshotStore

CONSTANTS
  None,           \* a setting that is not given
  Bad,            \* one that is given, and a text (a folder: no text)
  BrokerConfigs,  \* the configurations of the broker
  Configs         \* those of the programs

VARIABLES
  brokerConfig, brokerUp,
  program,   \* "mcp" or "automation"
  phase,     \* how far it has come, or how it ended
  config,    \* what it was started with
  settings,  \* Settings, as loaded and then as merged with the push
  timeout,   \* that of its client
  shot       \* how the last take_screenshot ended

Fields ==
  {"timeout", "mcp_host", "save_screenshots", "screenshot_dir", "max_saved_screenshots"}

brokerVars == <<brokerConfig, brokerUp>>
programVars == <<program, phase, config, settings, timeout, shot>>
vars == <<storeVars, brokerVars, programVars>>

-----------------------------------------------------------------------------
(* The broker's configuration.  Keys are their lengths, a machine's        *)
(* profile a function from its keys to whether their values are valid.     *)

_MIN_KEY_LENGTH == 16
_VALID_MCP_PROFILE_KEYS ==
  {"save_screenshots", "screenshot_dir", "max_saved_screenshots", "timeout"}

_validate_key_lengths(c) ==
  /\ c.api_key >= _MIN_KEY_LENGTH
  /\ \A m \in DOMAIN c.machines : c.machines[m] >= _MIN_KEY_LENGTH

_validate_tls_files(c) ==
  /\ (c.tls_cert_file = None) = (c.tls_key_file = None)
  /\ {c.tls_cert_file, c.tls_key_file} \subseteq {None, "there"}

_validate_machine_profiles(c) ==
  \A m \in DOMAIN c.machine_profiles :
    /\ m \in DOMAIN c.machines
    /\ c.machine_profiles[m] # Bad
    /\ DOMAIN c.machine_profiles[m] \subseteq {"screenshot", "log_level"}
    /\ \A k \in DOMAIN c.machine_profiles[m] : c.machine_profiles[m][k]

(* The keys are checked, not their values.                                 *)
_validate_mcp_profile(c) ==
  /\ c.mcp_profile # Bad
  /\ DOMAIN c.mcp_profile \subseteq _VALID_MCP_PROFILE_KEYS

(* The same from a file and from the environment: numbers are its ports    *)
(* and its request timeout.                                                *)
load_broker_settings(c) ==
  /\ c.readable
  /\ c.api_key > 0 /\ DOMAIN c.machines # {}
  /\ _validate_key_lengths(c) /\ _validate_tls_files(c)
  /\ _validate_machine_profiles(c) /\ _validate_mcp_profile(c)
  /\ c.numbers

(* A broker without a valid configuration exits at once.                   *)
BrokerStarts ==
  /\ ~ brokerUp
  /\ load_broker_settings(brokerConfig)
  /\ brokerUp' = TRUE
  /\ UNCHANGED <<storeVars, brokerConfig, programVars>>

BrokerStops ==
  /\ brokerUp
  /\ brokerUp' = FALSE
  /\ UNCHANGED <<storeVars, brokerConfig, programVars>>

BrokerIsConfigured ==
  /\ ~ brokerUp
  /\ brokerConfig' \in BrokerConfigs
  /\ UNCHANGED <<storeVars, brokerUp, programVars>>

-----------------------------------------------------------------------------
(* The programs' configuration, from a file or from the environment.       *)

Or(value, default) == IF value = None THEN default ELSE value

_validate_broker_scheme_and_fingerprint(c) ==
  /\ c.broker_scheme \in {"http", "https"}
  /\ c.broker_scheme = "https" => c.broker_cert_fingerprint # None

(* There is no environment variable for the timeout.                       *)
load_settings(c) ==
  /\ c.readable
  /\ c.broker_host /\ c.broker_api_key # None
  /\ _validate_broker_scheme_and_fingerprint(c)
  /\ c.ports /\ c.max_saved_screenshots # Bad
  /\ IF c.source = "file" THEN c.timeout # Bad ELSE c.screenshot_dir # Bad

(* In a file any text turns saving on, "false" too; in the environment     *)
(* only 1, true and yes do, and are TRUE here.  The folder is taken from a *)
(* file as it is; the environment has texts only.                          *)
Settings(c) ==
  [timeout |-> IF c.source = "file" THEN Or(c.timeout, 10) ELSE 10,
   mcp_host |-> Or(c.mcp_host, "127.0.0.1"),
   save_screenshots |->
     c.save_screenshots = TRUE \/ (c.source = "file" /\ c.save_screenshots = Bad),
   screenshot_dir |-> Or(c.screenshot_dir, "screenshots"),
   max_saved_screenshots |-> Or(c.max_saved_screenshots, 100)]

(* The broker answers this program.                                        *)
BrokerTls == brokerConfig.tls_cert_file # None
Reaches ==
  /\ brokerUp
  /\ (config.broker_scheme = "https") = BrokerTls
  /\ config.broker_api_key = "right"

Over == {"off", "refused", "mismatch", "crashed", "unreachable"}

Starts_Unchecked(p, c) ==
  /\ phase \in Over
  /\ program' = p /\ config' = c
  /\ phase' = "connect" /\ settings' = Settings(c)
  /\ timeout' = None /\ shot' = "none"
  /\ UNCHANGED <<storeVars, brokerVars>>

(* The runner also needs its script, a machine and a credential.           *)
Starts(p, c) ==
  /\ phase \in Over
  /\ program' = p /\ config' = c
  /\ \/ load_settings(c) /\ phase' = "connect" /\ settings' = Settings(c)
     \/ /\ ~ load_settings(c) \/ p = "automation"
        /\ phase' = "refused" /\ settings' = None
  /\ timeout' = None /\ shot' = "none"
  /\ UNCHANGED <<storeVars, brokerVars>>

(* JourneyDriveClient(settings): the certificate is fetched before         *)
(* anything is sent.  Only a mismatch is expected.                         *)
Connects ==
  /\ phase = "connect"
  /\ phase' = IF config.broker_scheme = "http" THEN "fetch"
              ELSE IF \/ config.broker_cert_fingerprint = "malformed"
                      \/ ~ brokerUp \/ ~ BrokerTls
              THEN "crashed"
              ELSE IF config.broker_cert_fingerprint = "wrong" THEN "mismatch"
              ELSE "fetch"
  /\ timeout' = settings.timeout
  /\ UNCHANGED <<storeVars, brokerVars, program, config, settings, shot>>

(* get_mcp_config: what the broker pushes, or nothing when it is older or  *)
(* cannot be reached.                                                      *)
Pushes(pushed) ==
  \/ pushed = << >>
  \/ Reaches /\ pushed = brokerConfig.mcp_profile

Merged(pushed) ==
  [k \in DOMAIN settings |-> IF k \in DOMAIN pushed THEN pushed[k] ELSE settings[k]]

(* dataclasses.replace takes fields only, of any type.  The client was     *)
(* made with the timeout before the push, and is given the new one.        *)
FetchesForMcp_KeepsTimeout(pushed) ==
  IF DOMAIN pushed \subseteq DOMAIN settings
  THEN settings' = Merged(pushed) /\ phase' = "serving" /\ UNCHANGED timeout
  ELSE phase' = "crashed" /\ UNCHANGED <<settings, timeout>>

FetchesForMcp(pushed) ==
  IF DOMAIN pushed \subseteq DOMAIN settings
  THEN /\ settings' = Merged(pushed)
       /\ timeout' = IF "timeout" \in DOMAIN pushed THEN settings'.timeout ELSE timeout
       /\ phase' = "serving"
  ELSE phase' = "crashed" /\ UNCHANGED <<settings, timeout>>

FetchesForAutomation(pushed) ==
  /\ timeout' = IF "timeout" \in DOMAIN pushed THEN pushed["timeout"] ELSE timeout
  /\ phase' = "health"
  /\ UNCHANGED settings

Fetches ==
  /\ phase = "fetch"
  /\ \E pushed \in {<< >>, brokerConfig.mcp_profile} :
       /\ Pushes(pushed)
       /\ IF program = "mcp" THEN FetchesForMcp(pushed) ELSE FetchesForAutomation(pushed)
  /\ UNCHANGED <<storeVars, brokerVars, program, config, shot>>

(* The runner asks whether its machine is there.  A timeout that is a text *)
(* makes every request raise a TypeError, which is none of its errors.     *)
ChecksHealth ==
  /\ phase = "health"
  /\ phase' \in IF timeout = Bad THEN {"crashed"}
                ELSE IF Reaches THEN {"running", "unreachable"}
                ELSE {"unreachable"}
  /\ UNCHANGED <<storeVars, brokerVars, program, config, settings, timeout, shot>>

(* A run ends, a program is interrupted: what it had in memory is gone.    *)
Stops ==
  /\ phase \notin Over
  /\ phase' = "off"
  /\ config' = None /\ settings' = None /\ timeout' = None /\ shot' = "none"
  /\ UNCHANGED <<storeVars, brokerVars, program>>

-----------------------------------------------------------------------------
(* take_screenshot, and the copy of what it shows.  An OSError is only     *)
(* logged.  A folder that is no text raises a TypeError before there is a  *)
(* copy; a maximum that is no whole number one after it is written, when   *)
(* it is compared or, a fraction, when there is something to prune.        *)

Saving == settings.save_screenshots # FALSE

SavesCopy_RaisesOSError(fmt) ==
  \/ shot' = "broken" /\ CannotSave
  \/ /\ settings.screenshot_dir # Bad /\ settings.max_saved_screenshots # Bad
     /\ shot' = "shown" /\ Saves(fmt, settings.max_saved_screenshots)

SavesCopy(fmt) ==
  \/ /\ settings.screenshot_dir = Bad
     /\ shot' = "broken" /\ CannotSave
  \/ /\ settings.screenshot_dir # Bad
     /\ \/ shot' = "shown" /\ CannotSave
        \/ /\ settings.max_saved_screenshots = Bad
           /\ shot' \in {"shown", "broken"} /\ Saves(fmt, 0)
        \/ /\ settings.max_saved_screenshots # Bad
           /\ shot' = "shown" /\ Saves(fmt, settings.max_saved_screenshots)

(* A request fails, or the picture is there.                               *)
take_screenshot ==
  /\ phase = "serving"
  /\ \/ shot' = "not_taken" /\ UNCHANGED storeVars
     \/ /\ Reaches /\ timeout # Bad
        /\ \/ Saving /\ \E fmt \in Formats : SavesCopy(fmt)
           \/ ~ Saving /\ shot' = "shown" /\ UNCHANGED storeVars
  /\ UNCHANGED <<brokerVars, program, phase, config, settings, timeout>>

Clock ==
  /\ ClockTicks \/ ClockIsSetBack
  /\ UNCHANGED <<brokerVars, programVars>>

-----------------------------------------------------------------------------
Init ==
  /\ StoreInit
  /\ brokerConfig \in BrokerConfigs /\ brokerUp = FALSE
  /\ program = "mcp" /\ phase = "off"
  /\ config = None /\ settings = None /\ timeout = None /\ shot = "none"

Next ==
  \/ BrokerStarts \/ BrokerStops \/ BrokerIsConfigured
  \/ \E p \in {"mcp", "automation"}, c \in Configs : Starts(p, c)
  \/ Connects \/ Fetches \/ ChecksHealth \/ Stops
  \/ take_screenshot
  \/ Clock

Spec == Init /\ [][Next]_vars

-----------------------------------------------------------------------------
(* Properties.                                                             *)

Phases == Over \cup {"connect", "fetch", "health", "running", "serving"}

TypeOK ==
  /\ StoreTypeOK
  /\ brokerConfig \in BrokerConfigs
  /\ brokerUp \in BOOLEAN
  /\ brokerUp => load_broker_settings(brokerConfig)
  /\ program \in {"mcp", "automation"}
  /\ phase \in Phases
  /\ config \in Configs \cup {None}
  /\ phase \in Phases \ Over => load_settings(config) /\ DOMAIN settings = Fields
  /\ shot \in {"none", "not_taken", "shown", "broken"}

(* What the running broker may have pushed: nothing, or a profile that it  *)
(* accepts.                                                                *)
Pushable ==
  {<< >>} \cup {b.mcp_profile : b \in {c \in BrokerConfigs : load_broker_settings(c)}}

AppliesOneProfile ==
  phase \in {"serving", "health", "running"} =>
    \E pushed \in Pushable :
      /\ \A k \in Fields :
           settings[k] = IF program = "mcp" /\ k \in DOMAIN pushed THEN pushed[k]
                         ELSE Settings(config)[k]
      /\ timeout = IF "timeout" \in DOMAIN pushed THEN pushed["timeout"]
                   ELSE Settings(config).timeout

KeepsItsAddress == phase = "serving" => settings.mcp_host = Settings(config).mcp_host

Crashes == phase # "crashed" /\ phase' = "crashed"

EndsForAReason ==
  Crashes => \/ phase = "connect" /\ config.broker_scheme = "https"
             \/ phase = "health" /\ timeout = Bad

(* A program works with its own configuration and, on top of it, one       *)
(* profile that the broker accepts, as a whole, or none: never with the    *)
(* fields of two, and its client, made before the push, with the timeout   *)
(* of the same profile; the address it listens on is its own               *)
(* (docs/BROKER.md, "it's always the local config.json merged with         *)
(* whatever mcp_profile currently says"; set_timeout).  The values of a    *)
(* profile are nobody's to check; what they can end is the runner, by a    *)
(* timeout that is no number, and nothing else: the one other traceback is *)
(* that of a certificate that cannot be fetched.                           *)
WorksAsConfigured ==
  [](AppliesOneProfile /\ KeepsItsAddress) /\ [][EndsForAReason]_vars

(* A picture that has arrived is lost to its copy only by a setting that   *)
(* is not of its type, a folder or a maximum, never by what goes wrong     *)
(* with the disk; and a maximum of the program's own cannot be such a one, *)
(* since its configuration is refused (_save_screenshot, "don't let a      *)
(* failure here ... break the actual take_screenshot call": this is how    *)
(* far that is true).                                                      *)
ShownWhateverTheCopy ==
  shot = "broken" =>
    \/ settings.screenshot_dir = Bad
    \/ settings.max_saved_screenshots = Bad /\ config.max_saved_screenshots # Bad

(* A copy is never overwritten: two in one tick, a clock that is set back, *)
(* a restart (the counter for collisions in _save_screenshot).             *)
CopiesAreKept ==
  [][\A a \in DOMAIN files \cap DOMAIN files' : files'[a] = files[a]]_vars

(* What is removed is from an earlier tick than what stays, and older,     *)
(* while the clock is not set back ("the oldest files beyond the cap are   *)
(* pruned", _prune_old_screenshots).  Within one tick the order of names   *)
(* is not that of the copies: a counter may be used again once its file    *)
(* has been pruned, and jpeg comes before png.                             *)
OldestGoFirst ==
  [][\A a \in DOMAIN files \ DOMAIN files', b \in DOMAIN files' :
       ~ wentBack /\ files'[b] > 0 /\ a.time # b.time => files[a] < files'[b]]_vars

-----------------------------------------------------------------------------
(* "a broker being briefly down at MCP-server-startup time shouldn't take  *)
(* the whole server offline" (docs/BROKER.md): start-up is not given up    *)
(* because the broker is down.                                             *)
StartsWithoutBroker ==
  [][program = "mcp" /\ phase' = "crashed" /\ phase # "crashed"
       /\ config.broker_cert_fingerprint # "malformed" => brokerUp]_vars
=============================================================================
