---------------------------- MODULE MCThinClient ----------------------------
(* A small instance of ThinClient for TLC.                                 *)
EXTENDS ThinClient

CONSTANTS format, quality, default, local, broker, asked, old_cert, new_cert

TwoFields == {format, quality}
FourValues == {default, local, broker, asked}
AllDefault == [f \in TwoFields |-> default]

(* A config.json that gives nothing, and one that gives both fields.       *)
TwoLocals ==
  {[screenshot |-> [f \in TwoFields |-> v], log_level |-> v] : v \in {default, local}}

(* No profile, one that gives a field, one that gives the level, and one   *)
(* that gives another field and the level.                                 *)
OneField(f) == [g \in {f} |-> broker]
Profile(part, level) == [screenshot |-> part, log_level |-> level]
FourProfiles ==
  {Profile(None, None), Profile(OneField(quality), None), Profile(None, broker),
   Profile(OneField(format), broker)}

(* The broker with and without TLS, with the certificate the thin client   *)
(* knows and with a later one; a broker without this machine; and a server *)
(* that is no broker.                                                      *)
Peer(cert, accepts, profile, websocket) ==
  [cert |-> cert, accepts |-> accepts, profile |-> profile, websocket |-> websocket]
SomePeers ==
  {Peer(c, TRUE, p, TRUE) : c \in {None, old_cert, new_cert}, p \in FourProfiles}
    \cup {Peer(c, FALSE, Profile(None, None), w) :
            c \in {None, old_cert}, w \in BOOLEAN}

(* A screenshot as configured, and one with a quality of its own.          *)
TwoRequests == {[f \in {} |-> asked], [f \in {quality} |-> asked]}
=============================================================================
