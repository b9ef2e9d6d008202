---------------------------- MODULE MCMcpServer ----------------------------
(* A small instance of McpServer for TLC.                                  *)
EXTENDS McpServer, TLC

CONSTANT desk

TwoFormats == {"png", "jpeg"}
(* One file before all copies, and one after them.                         *)
SomeStrangers == {[time |-> t, n |-> 0, fmt |-> "png"] : t \in {0, MaxClock + 1}}

(* Profiles that set what is saved, some with values not of their type,    *)
(* and one that the broker refuses.                                        *)
Profile ==
  "save_screenshots" :> TRUE @@ "screenshot_dir" :> "copies"
    @@ "max_saved_screenshots" :> 1 @@ "timeout" :> 30
Texts == "save_screenshots" :> Bad @@ "max_saved_screenshots" :> Bad
NoFolder == "save_screenshots" :> TRUE @@ "screenshot_dir" :> Bad
NoTimeout == "timeout" :> Bad
Profiles == {<< >>, Profile, Texts, NoTimeout, Profile @@ "mcp_host" :> "0.0.0.0"}

Broker ==
  [readable |-> TRUE, numbers |-> TRUE, api_key |-> 16,
   machines |-> desk :> 16, tls_cert_file |-> None, tls_key_file |-> None,
   machine_profiles |-> desk :> [screenshot |-> TRUE], mcp_profile |-> << >>]

WithTls ==
  [Broker EXCEPT !.tls_cert_file = "there", !.tls_key_file = "there", !.mcp_profile = NoFolder]

SomeBrokers == {[Broker EXCEPT !.mcp_profile = p] : p \in Profiles} \cup {WithTls}

Program ==
  [source |-> "file", readable |-> TRUE, broker_host |-> TRUE,
   broker_api_key |-> "right", broker_scheme |-> "http",
   broker_cert_fingerprint |-> None, ports |-> TRUE, timeout |-> 20,
   mcp_host |-> None, save_screenshots |-> TRUE, screenshot_dir |-> None,
   max_saved_screenshots |-> 2]

Environment == [Program EXCEPT !.source = "env", !.timeout = None, !.save_screenshots = Bad,
                               !.mcp_host = "0.0.0.0"]
Pinned == [Program EXCEPT !.broker_scheme = "https", !.broker_cert_fingerprint = "right"]

SomeConfigs ==
  {Program, Environment, Pinned,
   [Pinned EXCEPT !.broker_cert_fingerprint = "wrong"],
   [Pinned EXCEPT !.broker_cert_fingerprint = "malformed"],
   [Program EXCEPT !.screenshot_dir = Bad],
   [Program EXCEPT !.timeout = Bad]}

(* Each way in which a configuration is refused.                           *)
ASSUME BrokersRefused ==
  \A c \in
    {[Broker EXCEPT !.readable = FALSE], [Broker EXCEPT !.numbers = FALSE],
     [Broker EXCEPT !.api_key = 15], [Broker EXCEPT !.machines = desk :> 15],
     [WithTls EXCEPT !.tls_key_file = None], [WithTls EXCEPT !.tls_cert_file = "gone"],
     [Broker EXCEPT !.machines = "lab" :> 16]}
    \cup {[Broker EXCEPT !.machine_profiles = desk :> p] :
            p \in {Bad, [log_level |-> FALSE], [screenshots |-> TRUE]}} :
    ~ load_broker_settings(c)

ASSUME ProgramsRefused ==
  \A c \in
    {[Program EXCEPT !.readable = FALSE], [Program EXCEPT !.broker_host = FALSE],
     [Program EXCEPT !.broker_api_key = None], [Program EXCEPT !.ports = FALSE],
     [Program EXCEPT !.broker_scheme = "ftp"], [Program EXCEPT !.max_saved_screenshots = Bad],
     [Environment EXCEPT !.screenshot_dir = Bad], [Pinned EXCEPT !.broker_cert_fingerprint = None]} :
    ~ load_settings(c)

ASSUME Accepted == load_broker_settings(WithTls) /\ load_settings(Environment)
=============================================================================
