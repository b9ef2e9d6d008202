---------------------------- MODULE InputControl ----------------------------
(***************************************************************************)
(* The thin client's hold of mouse buttons and keys, with the timer that   *)
(* releases each of them when no release request comes                     *)
(* (journeydrive_windows_thinclient/input_control.py; the macOS agent's    *)
(* file has the same code).                                                *)
(*                                                                         *)
(* Threads: one worker at a time performs a command (ws_client._dispatch   *)
(* awaits it), and each threading.Timer is a thread of its own.  All of    *)
(* them move inputs only under _lock.  A command holds the lock from its   *)
(* first key to its last; type_text does so for up to 40 seconds.          *)
(*                                                                         *)
(* A definition named X_Y is not part of the specification: it is X with a *)
(* bug Y, which the properties must tell from X.                           *)
(***************************************************************************)
EXTENDS Integers, Sequences, SequencesExt

CONSTANTS
  Inputs,     \* the mouse buttons and keys: the keys of the two _held stores
  Chords,     \* the sequences of inputs a command may name
  MaxTimers,  \* bound: timers started in a behaviour
  None

ASSUME ChordsAssumption == Chords \subseteq Seq(Inputs)
ASSUME MaxTimersAssumption == MaxTimers \in Nat
ASSUME NoneAssumption == None \notin Nat /\ None \notin Inputs

Timers == 1..MaxTimers

VARIABLES
  down,     \* the inputs that are physically down
  held,     \* held[k]: the timer in _held_buttons or _held_keys, or None
  timer,    \* timer[t]: "unused", "ticking", "elapsed" (its thread is past
            \* the wait and wants _lock) or "over" (cancelled or finished)
  guards,   \* guards[t]: the input that timer t would release
  latest,   \* history: latest[k] is the timer started by the last press of k
  phase,    \* the worker: "idle", or the part of the command it is in
  locked,   \* the worker has _lock
  chord,    \* the inputs of its command
  left,     \* those this part has not handled yet
  running   \* the process is there

timerVars  == <<held, timer, guards, latest>>
workerVars == <<phase, locked, chord, left>>
vars == <<down, timerVars, workerVars, running>>

TypeOK ==
  /\ down \in SUBSET Inputs
  /\ held \in [Inputs -> Timers \cup {None}]
  /\ timer \in [Timers -> {"unused", "ticking", "elapsed", "over"}]
  /\ guards \in [Timers -> Inputs \cup {None}]
  /\ latest \in [Inputs -> Timers \cup {None}]
  /\ phase \in {"idle", "press", "release", "tap", "untap", "type"}
  /\ locked \in BOOLEAN
  /\ chord \in Seq(Inputs)
  /\ left \in Seq(Inputs)
  /\ running \in BOOLEAN

Init ==
  /\ down = {}
  /\ held = [k \in Inputs |-> None]
  /\ timer = [t \in Timers |-> "unused"]
  /\ guards = [t \in Timers |-> None]
  /\ latest = [k \in Inputs |-> None]
  /\ phase = "idle"
  /\ locked = FALSE
  /\ chord = << >>
  /\ left = << >>
  /\ running = TRUE

-----------------------------------------------------------------------------
(* Timers.                                                                 *)

(* _cancel_pending_release: Timer.cancel stops a timer that still waits;   *)
(* one that has elapsed goes on to _lock.                                  *)
Cancelled_Forgotten(k) == timer

Cancelled(k) ==
  IF held[k] # None /\ timer[held[k]] = "ticking"
  THEN [timer EXCEPT ![held[k]] = "over"]
  ELSE timer

(* The timer is made and never started.                                    *)
Schedules_NoStart(k, t) ==
  /\ timer' = [Cancelled(k) EXCEPT ![t] = "created"]
  /\ held' = [held EXCEPT ![k] = t]
  /\ guards' = [guards EXCEPT ![t] = k]
  /\ latest' = [latest EXCEPT ![k] = t]

(* _schedule_auto_release: the old timer of k gives way to the new one, t. *)
Schedules(k, t) ==
  /\ timer' = [Cancelled(k) EXCEPT ![t] = "ticking"]
  /\ held' = [held EXCEPT ![k] = t]
  /\ guards' = [guards EXCEPT ![t] = k]
  /\ latest' = [latest EXCEPT ![k] = t]

(* _AUTO_RELEASE_SECONDS have passed.                                      *)
Elapses(t) ==
  /\ running
  /\ timer[t] = "ticking"
  /\ timer' = [timer EXCEPT ![t] = "elapsed"]
  /\ UNCHANGED <<down, held, guards, latest, workerVars, running>>

(* store.get(key) is timer.                                                *)
StillHolds_Unasked(t) == TRUE

StillHolds(t) == held[guards[t]] = t

(* _fire, under _lock: it releases its input, unless a release or a newer  *)
(* press has come before it got the lock.                                  *)
Fires(t) ==
  /\ running
  /\ timer[t] = "elapsed"
  /\ ~ locked
  /\ IF StillHolds(t)
     THEN /\ held' = [held EXCEPT ![guards[t]] = None]
          /\ down' = down \ {guards[t]}
     ELSE UNCHANGED <<held, down>>
  /\ timer' = [timer EXCEPT ![t] = "over"]
  /\ UNCHANGED <<guards, latest, workerVars, running>>

-----------------------------------------------------------------------------
(* The worker: click_mouse, send_keys and type_text, one at a time.        *)

Unused == {t \in Timers : timer[t] = "unused"}

(* A command arrives.  A click is a chord of one button; _resolve_key has  *)
(* found every key of the chord, else nothing happens.  (The bound on      *)
(* timers keeps presses out, never half of one.)                           *)
Begins(part, keys) ==
  /\ running
  /\ phase = "idle"
  /\ part = "press" => Cardinality(Unused) >= Len(keys)
  /\ phase' = part
  /\ chord' = keys
  /\ left' = keys
  /\ UNCHANGED <<down, timerVars, locked, running>>

TakesLock ==
  /\ running
  /\ phase # "idle"
  /\ ~ locked
  /\ locked' = TRUE
  /\ UNCHANGED <<down, timerVars, phase, chord, left, running>>

(* action "down" or "press": press the next input and start its timer.     *)
Presses(t) ==
  /\ running
  /\ locked
  /\ phase = "press"
  /\ left # << >>
  /\ t \in Unused /\ \A u \in Unused : t <= u
  /\ down' = down \cup {Head(left)}
  /\ Schedules(Head(left), t)
  /\ left' = Tail(left)
  /\ UNCHANGED <<phase, locked, chord, running>>

(* action "up" or "release": cancel the next input's timer and release it. *)
Releases ==
  /\ running
  /\ locked
  /\ phase = "release"
  /\ left # << >>
  /\ timer' = Cancelled(Head(left))
  /\ held' = [held EXCEPT ![Head(left)] = None]
  /\ down' = down \ {Head(left)}
  /\ left' = Tail(left)
  /\ UNCHANGED <<guards, latest, phase, locked, chord, running>>

(* action "click" or "tap": press all inputs, without timers ...           *)
TapsDown ==
  /\ running
  /\ locked
  /\ phase = "tap"
  /\ left # << >>
  /\ down' = down \cup {Head(left)}
  /\ left' = Tail(left)
  /\ UNCHANGED <<timerVars, phase, locked, chord, running>>

(* ... then release them in the reverse order.                             *)
Untaps_First == Tail(Reverse(chord))

Untaps == Reverse(chord)

TurnsRound ==
  /\ running
  /\ locked
  /\ phase = "tap"
  /\ left = << >>
  /\ phase' = "untap"
  /\ left' = Untaps
  /\ UNCHANGED <<down, timerVars, locked, chord, running>>

TapsUp ==
  /\ running
  /\ locked
  /\ phase = "untap"
  /\ left # << >>
  /\ down' = down \ {Head(left)}
  /\ left' = Tail(left)
  /\ UNCHANGED <<timerVars, phase, locked, chord, running>>

(* The command is over and the lock released.                              *)
Ends ==
  /\ running
  /\ locked
  /\ phase \in {"press", "release", "untap", "type"}
  /\ phase = "type" \/ left = << >>
  /\ phase' = "idle"
  /\ locked' = FALSE
  /\ chord' = << >>
  /\ left' = << >>
  /\ UNCHANGED <<down, timerVars, running>>

(* The process ends, wherever it is: rejected by the broker, interrupted,  *)
(* or by an exception that no handler expects.  Its timers are daemon      *)
(* threads and end with it; what is down stays down.                       *)
Exits ==
  /\ running
  /\ running' = FALSE
  /\ UNCHANGED <<down, timerVars, workerVars>>

-----------------------------------------------------------------------------
Worker ==
  \/ TakesLock
  \/ \E t \in Timers : Presses(t)
  \/ Releases
  \/ TapsDown
  \/ TurnsRound
  \/ TapsUp
  \/ Ends

Next ==
  \/ \E keys \in Chords, part \in {"press", "release", "tap", "type"} :
       Begins(part, keys)
  \/ Worker
  \/ \E t \in Timers : Elapses(t) \/ Fires(t)
  \/ Exits

Spec == Init /\ [][Next]_vars

(* The worker's thread runs, time passes, and a thread that waits for the  *)
(* lock gets it in the end although commands keep coming.                  *)
FairSpec ==
  /\ Spec
  /\ SF_vars(Worker)
  /\ \A t \in Timers : WF_vars(Elapses(t)) /\ SF_vars(Fires(t))

-----------------------------------------------------------------------------
(* Properties.                                                             *)

(* Outside a command every input that is down by a command has a timer     *)
(* that has not run out or is about to release it: no press, release, tap, *)
(* renewed press or timer that lost the race leaves one stuck              *)
(* (_AUTO_RELEASE_SECONDS's promise).                                      *)
Guarded(k) ==
  /\ held[k] # None
  /\ timer[held[k]] \in {"ticking", "elapsed"}
  /\ guards[held[k]] = k

NothingStuck == running /\ ~ locked => \A k \in down : Guarded(k)

(* No timer is left ticking for an input after its release or its renewed  *)
(* press: a timer that ticks is the one in the store.                      *)
NoStrayTimer ==
  \A t \in Timers : timer[t] = "ticking" => held[guards[t]] = t

(* An input that no command releases is only released once the time of its *)
(* latest press is over: the timer of an earlier press that elapsed while  *)
(* the lock was taken does not cut a renewed hold short (_fire's check).   *)
NoEarlyRelease ==
  [][\A k \in down : ~ locked /\ k \notin down' =>
       timer[latest[k]] = "elapsed"]_vars

(* Every hold ends, by a release, by a renewed press or by its timer, even *)
(* if no further request comes and long texts are being typed.             *)
HoldsEnd ==
  \A k \in Inputs, t \in Timers : held[k] = t ~> held[k] # t \/ ~ running
=============================================================================
