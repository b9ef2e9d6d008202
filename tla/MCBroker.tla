------------------------------ MODULE MCBroker ------------------------------
(* Small instances of Broker for TLC.                                      *)
EXTENDS BrokerProperties

CONSTANTS m1, m2, shot1, shot2, key

OneMachine == {m1}
TwoMachines == {m1, m2}

(* Two screenshots: the answers of two frames that could be mixed up.      *)
TwoShots == {shot1, shot2}
ShotsToM1 == [r \in TwoShots |-> m1]

(* One command with a one-frame answer.                                    *)
OneKey == {key}
NoCalls == {}
KeyToM1 == [r \in OneKey |-> m1]
=============================================================================
