----------------------------- MODULE AtMostOnce -----------------------------
(***************************************************************************)
(* What the broker promises its HTTP callers about one command: it is      *)
(* performed at most once; a call that is answered by the machine was      *)
(* performed; a call that is refused, before it is sent, never is; and a   *)
(* call that fails in any other way may have been performed, or may still  *)
(* be performed after the caller has been told of the failure.  To perform *)
(* a command is to dispatch it: the machine may answer with an error.      *)
(***************************************************************************)
EXTENDS Naturals

CONSTANT Calls

VARIABLES
  reply,  \* reply[r]: "none" until the call is over, then what the caller got
  open,   \* the calls that were accepted and are not over
  runs    \* runs[r]: how often the machine has dispatched the command of r

vars == <<reply, open, runs>>

Init ==
  /\ reply = [r \in Calls |-> "none"]
  /\ open = {}
  /\ runs = [r \in Calls |-> 0]

Fresh(r) == reply[r] = "none" /\ r \notin open

Refuse(r) ==
  /\ Fresh(r)
  /\ reply' = [reply EXCEPT ![r] = "refused"]
  /\ UNCHANGED <<open, runs>>

Accept(r) ==
  /\ Fresh(r)
  /\ open' = open \cup {r}
  /\ UNCHANGED <<reply, runs>>

Perform(r) ==
  /\ r \in open \/ reply[r] = "unknown"
  /\ runs[r] = 0
  /\ runs' = [runs EXCEPT ![r] = 1]
  /\ UNCHANGED <<reply, open>>

(* The machine's own answer, success or error.                             *)
Answer(r) ==
  /\ r \in open
  /\ runs[r] = 1
  /\ \E how \in {"ok", "error"} : reply' = [reply EXCEPT ![r] = how]
  /\ open' = open \ {r}
  /\ UNCHANGED runs

(* Any other failure: it says nothing about the command.                   *)
GiveUp(r) ==
  /\ r \in open
  /\ reply' = [reply EXCEPT ![r] = "unknown"]
  /\ open' = open \ {r}
  /\ UNCHANGED runs

Next == \E r \in Calls :
  Refuse(r) \/ Accept(r) \/ Perform(r) \/ Answer(r) \/ GiveUp(r)

Spec == Init /\ [][Next]_vars
=============================================================================
