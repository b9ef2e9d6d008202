------------------------- MODULE InputControlProofs -------------------------
(***************************************************************************)
(* Proofs about the held inputs and their timers, for every set of inputs  *)
(* and chords and every number of timers.                                  *)
(***************************************************************************)
EXTENDS InputControl, TLAPS

(* A stored timer is alive, guards its input and is the latest one of it;  *)
(* a ticking timer is stored.                                              *)
StoreInv ==
  /\ \A k \in Inputs : held[k] # None =>
       Guarded(k) /\ latest[k] = held[k]
  /\ \A t \in Timers : timer[t] = "ticking" =>
       guards[t] \in Inputs /\ held[guards[t]] = t

(* What is down is guarded, or is in the chord being tapped: among those   *)
(* yet to be released once the tap has turned round.                       *)
DownInv ==
  /\ phase = "tap" => Range(left) \subseteq Range(chord)
  /\ \A k \in down :
       \/ held[k] # None
       \/ locked /\ phase = "tap" /\ k \in Range(chord)
       \/ locked /\ phase = "untap" /\ k \in Range(left)

HoldInv == TypeOK /\ StoreInv /\ DownInv

-----------------------------------------------------------------------------
(* Sequences.                                                              *)

(* The elements of a sequence are its head and those of its tail.          *)
LEMMA HeadAndTail ==
  ASSUME NEW S, NEW s \in Seq(S), s # << >>
  PROVE  /\ Head(s) \in S /\ Tail(s) \in Seq(S)
         /\ Range(s) = {Head(s)} \cup Range(Tail(s))
<1>1. /\ Len(s) \in Nat /\ Len(s) >= 1
      /\ Head(s) = s[1] /\ DOMAIN s = 1..Len(s)
      /\ Tail(s) \in Seq(S) /\ Len(Tail(s)) = Len(s) - 1
      /\ \A i \in 1..Len(s) - 1 : Tail(s)[i] = s[i+1]
  OBVIOUS
<1>2. DOMAIN Tail(s) = 1..Len(s) - 1
  BY <1>1
<1>3. ASSUME NEW x \in Range(s) PROVE x = Head(s) \/ x \in Range(Tail(s))
  <2>1. PICK i \in 1..Len(s) : x = s[i]
    BY <1>1, <1>3 DEF Range
  <2>2. CASE i = 1
    BY <1>1, <2>1, <2>2
  <2>3. CASE i # 1
    <3>1. i - 1 \in 1..Len(s) - 1 /\ Tail(s)[i - 1] = s[i]
      BY <1>1, <2>3
    <3> QED BY <1>2, <2>1, <3>1 DEF Range
  <2> QED BY <2>2, <2>3
<1>4. ASSUME NEW x \in Range(Tail(s)) PROVE x \in Range(s)
  <2>1. PICK i \in 1..Len(s) - 1 : x = Tail(s)[i]
    BY <1>2, <1>4 DEF Range
  <2>2. i + 1 \in 1..Len(s) /\ x = s[i+1]
    BY <1>1, <2>1
  <2> QED BY <1>1, <2>2 DEF Range
<1>5. Head(s) \in Range(s) /\ Head(s) \in S
  BY <1>1 DEF Range
<1> QED BY <1>1, <1>3, <1>4, <1>5

(* A reversed sequence has the same elements.                              *)
LEMMA ReversedElements ==
  ASSUME NEW S, NEW s \in Seq(S)
  PROVE  Reverse(s) \in Seq(S) /\ Range(Reverse(s)) = Range(s)
<1>1. /\ Len(s) \in Nat /\ DOMAIN s = 1..Len(s)
      /\ \A i \in 1..Len(s) : s[i] \in S /\ Len(s) - i + 1 \in 1..Len(s)
  OBVIOUS
<1>2. Reverse(s) = [i \in 1..Len(s) |-> s[(Len(s) - i) + 1]]
  BY DEF Reverse
<1>3. Reverse(s) \in Seq(S)
  BY <1>1, <1>2
<1>4. ASSUME NEW x \in Range(s) PROVE x \in Range(Reverse(s))
  <2>1. PICK i \in 1..Len(s) : x = s[i]
    BY <1>1, <1>4 DEF Range
  <2>2. /\ Len(s) - i + 1 \in 1..Len(s)
        /\ Len(s) - (Len(s) - i + 1) + 1 = i
    BY <1>1
  <2> QED BY <1>2, <2>1, <2>2 DEF Range
<1>5. ASSUME NEW x \in Range(Reverse(s)) PROVE x \in Range(s)
  BY <1>1, <1>2, <1>5 DEF Range
<1> QED BY <1>3, <1>4, <1>5

-----------------------------------------------------------------------------
(* HoldInv is inductive.                                                   *)

(* It holds at first.                                                      *)
LEMMA HoldInvInit == Init => HoldInv
<1> SUFFICES ASSUME Init PROVE HoldInv
  OBVIOUS
<1>1. << >> \in Seq(Inputs)
  OBVIOUS
<1>2. TypeOK
  BY <1>1 DEF Init, TypeOK
<1>3. StoreInv /\ DownInv
  BY DEF Init, StoreInv, DownInv
<1> QED BY <1>2, <1>3 DEF HoldInv

(* Timers that run out and fire keep it.                                   *)
LEMMA TimersKeepHoldInv ==
  ASSUME HoldInv, NEW t \in Timers, Elapses(t) \/ Fires(t)
  PROVE  HoldInv'
<1> USE DEF HoldInv, TypeOK, timerVars, workerVars
<1> t \in Nat /\ t # None
  BY NoneAssumption DEF Timers
<1>1. CASE Elapses(t)
  BY <1>1 DEF Elapses, StoreInv, DownInv, Guarded
<1>2. CASE Fires(t)
  <2>1. TypeOK'
    BY <1>2 DEF Fires
  <2>2. CASE StillHolds(t)
    <3>1. CASE guards[t] \in Inputs
      BY <1>2, <2>1, <2>2, <3>1 DEF Fires, StillHolds, StoreInv, DownInv, Guarded
    <3>2. CASE guards[t] \notin Inputs
      BY <1>2, <2>1, <2>2, <3>2 DEF Fires, StillHolds, StoreInv, DownInv, Guarded
    <3> QED BY <3>1, <3>2
  <2>3. CASE ~ StillHolds(t)
    BY <1>2, <2>1, <2>3 DEF Fires, StillHolds, StoreInv, DownInv, Guarded
  <2> QED BY <2>2, <2>3
<1> QED BY <1>1, <1>2

(* The steps of a command keep it.                                         *)
LEMMA WorkerKeepsHoldInv ==
  ASSUME HoldInv, Worker
  PROVE  HoldInv'
<1> USE DEF HoldInv, TypeOK, timerVars
<1>1. CASE TakesLock
  BY <1>1 DEF TakesLock, StoreInv, DownInv, Guarded
<1>2. ASSUME NEW t \in Timers, Presses(t) PROVE HoldInv'
  <2> DEFINE k == Head(left)
  <2>1. k \in Inputs /\ Tail(left) \in Seq(Inputs)
    BY <1>2, HeadAndTail DEF Presses
  <2>2. t # None /\ timer[t] = "unused"
    BY <1>2, NoneAssumption DEF Presses, Unused, Timers
  <2>3. Cancelled(k) \in [Timers -> {"unused", "ticking", "elapsed", "over"}]
    BY <2>1 DEF Cancelled
  <2>4. \A j \in Inputs \ {k} : held[j] # None =>
          Cancelled(k)[held[j]] = timer[held[j]] /\ held[j] # t
    BY <2>1, <2>2 DEF Cancelled, StoreInv, Guarded
  <2>5. \A u \in Timers \ {t} : Cancelled(k)[u] = "ticking" =>
          timer[u] = "ticking" /\ guards[u] # k
    BY <2>1, NoneAssumption DEF Cancelled, StoreInv, Timers
  <2>6. TypeOK'
    BY <1>2, <2>1, <2>3 DEF Presses, Schedules
  <2>7. StoreInv'
    <3>1. \A j \in Inputs : held'[j] # None => Guarded(j)' /\ latest'[j] = held'[j]
      BY <1>2, <2>1, <2>2, <2>3, <2>4 DEF Presses, Schedules, StoreInv, Guarded
    <3>2. \A u \in Timers : timer'[u] = "ticking" =>
            guards'[u] \in Inputs /\ held'[guards'[u]] = u
      BY <1>2, <2>1, <2>3, <2>5 DEF Presses, Schedules, StoreInv
    <3> QED BY <3>1, <3>2 DEF StoreInv
  <2>8. DownInv'
    BY <1>2, <2>1, <2>2 DEF Presses, Schedules, DownInv
  <2> QED BY <2>6, <2>7, <2>8
<1>3. CASE Releases
  <2> DEFINE k == Head(left)
  <2>1. k \in Inputs /\ Tail(left) \in Seq(Inputs)
    BY <1>3, HeadAndTail DEF Releases
  <2>2. Cancelled(k) \in [Timers -> {"unused", "ticking", "elapsed", "over"}]
    BY <2>1 DEF Cancelled
  <2>3. \A j \in Inputs \ {k} : held[j] # None =>
          Cancelled(k)[held[j]] = timer[held[j]]
    BY <2>1 DEF Cancelled, StoreInv, Guarded
  <2>4. \A u \in Timers : Cancelled(k)[u] = "ticking" =>
          timer[u] = "ticking" /\ guards[u] # k
    BY <2>1, NoneAssumption DEF Cancelled, StoreInv, Timers
  <2>5. TypeOK'
    BY <1>3, <2>1, <2>2 DEF Releases
  <2>6. StoreInv'
    BY <1>3, <2>1, <2>2, <2>3, <2>4 DEF Releases, StoreInv, Guarded
  <2>7. DownInv'
    BY <1>3, <2>1 DEF Releases, DownInv
  <2> QED BY <2>5, <2>6, <2>7
<1>4. CASE TapsDown
  <2>1. /\ Head(left) \in Inputs /\ Tail(left) \in Seq(Inputs)
        /\ Range(left) = {Head(left)} \cup Range(Tail(left))
    BY <1>4, HeadAndTail DEF TapsDown
  <2>2. StoreInv'
    BY <1>4 DEF TapsDown, StoreInv, Guarded
  <2>3. DownInv'
    BY <1>4, <2>1 DEF TapsDown, DownInv
  <2> QED BY <1>4, <2>1, <2>2, <2>3 DEF TapsDown
<1>5. CASE TurnsRound
  <2>1. Untaps \in Seq(Inputs) /\ Range(Untaps) = Range(chord)
    BY ReversedElements DEF Untaps
  <2>2. StoreInv'
    BY <1>5 DEF TurnsRound, StoreInv, Guarded
  <2>3. DownInv'
    BY <1>5, <2>1 DEF TurnsRound, DownInv
  <2> QED BY <1>5, <2>1, <2>2, <2>3 DEF TurnsRound
<1>6. CASE TapsUp
  <2>1. /\ Tail(left) \in Seq(Inputs)
        /\ Range(left) = {Head(left)} \cup Range(Tail(left))
    BY <1>6, HeadAndTail DEF TapsUp
  <2>2. StoreInv'
    BY <1>6 DEF TapsUp, StoreInv, Guarded
  <2>3. DownInv'
    BY <1>6, <2>1 DEF TapsUp, DownInv
  <2> QED BY <1>6, <2>1, <2>2, <2>3 DEF TapsUp
<1>7. CASE Ends
  <2>1. phase = "untap" => Range(left) = {}
    BY <1>7 DEF Ends, Range
  <2>2. StoreInv'
    BY <1>7 DEF Ends, StoreInv, Guarded
  <2>3. DownInv'
    BY <1>7, <2>1 DEF Ends, DownInv
  <2>4. << >> \in Seq(Inputs)
    OBVIOUS
  <2>5. TypeOK'
    BY <1>7, <2>4 DEF Ends
  <2> QED BY <2>2, <2>3, <2>5
<1> QED BY <1>1, <1>2, <1>3, <1>4, <1>5, <1>6, <1>7 DEF Worker

(* So does every step.                                                     *)
LEMMA HoldInvStep == HoldInv /\ [Next]_vars => HoldInv'
<1> SUFFICES ASSUME HoldInv, [Next]_vars PROVE HoldInv'
  OBVIOUS
<1>1. ASSUME NEW keys \in Chords, NEW part \in {"press", "release", "tap", "type"},
             Begins(part, keys)
      PROVE  HoldInv'
  BY <1>1, ChordsAssumption DEF Begins, HoldInv, TypeOK, StoreInv, DownInv, Guarded,
     timerVars
<1>2. CASE Exits
  BY <1>2 DEF Exits, HoldInv, TypeOK, StoreInv, DownInv, Guarded, timerVars, workerVars
<1>3. CASE UNCHANGED vars
  BY <1>3 DEF vars, HoldInv, TypeOK, StoreInv, DownInv, Guarded, timerVars, workerVars
<1> QED BY <1>1, <1>2, <1>3, TimersKeepHoldInv, WorkerKeepsHoldInv DEF Next

-----------------------------------------------------------------------------
(* The held inputs and their timers have the types they are declared with. *)
THEOREM InputTypeCorrect == Spec => []TypeOK
<1>1. HoldInv => TypeOK
  BY DEF HoldInv
<1> QED BY <1>1, HoldInvInit, HoldInvStep, PTL DEF Spec

(* No input that a command left down is without a live timer: nothing gets *)
(* stuck while the process runs.                                           *)
THEOREM NoInputStuck == Spec => []NothingStuck
<1>1. HoldInv => NothingStuck
  BY DEF HoldInv, TypeOK, StoreInv, DownInv, NothingStuck
<1> QED BY <1>1, HoldInvInit, HoldInvStep, PTL DEF Spec

(* A timer whose input was released or pressed again does not go on.       *)
THEOREM TimersCancelled == Spec => []NoStrayTimer
<1>1. HoldInv => NoStrayTimer
  BY DEF HoldInv, StoreInv, NoStrayTimer
<1> QED BY <1>1, HoldInvInit, HoldInvStep, PTL DEF Spec

(* No timer releases an input before the time of its latest press is over. *)
THEOREM HoldsNotCutShort == Spec => NoEarlyRelease
<1> DEFINE InTime == \A k \in down : ~ locked /\ k \notin down' =>
             timer[latest[k]] = "elapsed"
<1>1. HoldInv /\ [Next]_vars => [InTime]_vars
  <2> SUFFICES ASSUME HoldInv, Next PROVE InTime
    OBVIOUS
  <2>1. CASE down' = down \/ locked
    BY <2>1
  <2>2. ASSUME NEW t \in Timers, Fires(t) PROVE InTime
    BY <2>2, NoneAssumption DEF Fires, StillHolds, HoldInv, TypeOK, StoreInv, Timers
  <2> QED BY <2>1, <2>2 DEF Next, Worker, Begins, TakesLock, Presses, Releases,
            TapsDown, TurnsRound, TapsUp, Ends, Elapses, Exits
<1> QED BY <1>1, HoldInvInit, HoldInvStep, PTL DEF Spec, NoEarlyRelease

-----------------------------------------------------------------------------
(* What a command has done when it is over.                                *)

(* How far the worker is: until it has the lock it has done nothing; then  *)
(* every input of its chord is still to be handled or is as the command    *)
(* wants it, whatever timers have elapsed meanwhile.                       *)
ProgressInv ==
  /\ ~ locked => phase # "untap" /\ left = chord
  /\ \A k \in Range(chord) : k \notin Range(left) =>
       /\ phase = "press" => k \in down /\ held[k] # None
       /\ phase = "release" => k \notin down /\ held[k] = None
       /\ phase = "untap" => k \notin down

(* ProgressInv is inductive: it rests on the lock, which keeps the timers  *)
(* out while a command is on its way.                                      *)
LEMMA ProgressStep ==
  ASSUME HoldInv, ProgressInv, [Next]_vars
  PROVE  ProgressInv'
<1> USE DEF HoldInv, TypeOK, timerVars
<1>1. ASSUME NEW keys \in Chords, NEW part \in {"press", "release", "tap", "type"},
             Begins(part, keys)
      PROVE  ProgressInv'
  BY <1>1 DEF Begins, ProgressInv
<1>2. CASE TakesLock
  BY <1>2 DEF TakesLock, ProgressInv
<1>3. ASSUME NEW t \in Timers, Presses(t) PROVE ProgressInv'
  <2> DEFINE k == Head(left)
  <2>1. /\ k \in Inputs /\ Range(left) = {k} \cup Range(Tail(left))
    BY <1>3, HeadAndTail DEF Presses
  <2>2. /\ locked /\ locked' = locked /\ phase = "press" /\ phase' = phase /\ chord' = chord
        /\ left' = Tail(left) /\ down' = down \cup {k} /\ held' = [held EXCEPT ![k] = t]
    BY <1>3 DEF Presses, Schedules
  <2>3. t # None
    BY NoneAssumption DEF Timers
  <2> HIDE DEF k
  <2>4. \A j \in Range(chord) : j \notin Range(Tail(left)) =>
          j \in down \cup {k} /\ held'[j] # None
    <3> SUFFICES ASSUME NEW j \in Range(chord), j \notin Range(Tail(left))
                 PROVE  j \in down \cup {k} /\ held'[j] # None
      OBVIOUS
    <3>1. CASE j = k
      BY <2>1, <2>2, <2>3, <3>1
    <3>2. CASE j # k
      <4>1. j \in down /\ held[j] # None
        BY <2>1, <2>2, <3>2 DEF ProgressInv
      <4>2. held'[j] = held[j]
        BY <2>2, <3>2, <4>1
      <4> QED BY <4>1, <4>2
    <3> QED BY <3>1, <3>2
  <2> QED BY <2>2, <2>4 DEF ProgressInv
<1>4. CASE Releases
  <2> DEFINE k == Head(left)
  <2>1. /\ k \in Inputs /\ Range(left) = {k} \cup Range(Tail(left))
    BY <1>4, HeadAndTail DEF Releases
  <2>2. /\ locked /\ locked' = locked /\ phase = "release" /\ phase' = phase /\ chord' = chord
        /\ left' = Tail(left) /\ down' = down \ {k} /\ held' = [held EXCEPT ![k] = None]
    BY <1>4 DEF Releases
  <2> HIDE DEF k
  <2>3. \A j \in Range(chord) : j \notin Range(Tail(left)) =>
          j \notin down \ {k} /\ held'[j] = None
    <3> SUFFICES ASSUME NEW j \in Range(chord), j \notin Range(Tail(left))
                 PROVE  j \notin down \ {k} /\ held'[j] = None
      OBVIOUS
    <3>1. CASE j = k
      BY <2>1, <2>2, <3>1
    <3>2. CASE j # k
      <4>1. j \notin down /\ held[j] = None
        BY <2>1, <2>2, <3>2 DEF ProgressInv
      <4>2. held'[j] = held[j]
        BY <2>2, <3>2
      <4> QED BY <4>1, <4>2
    <3> QED BY <3>1, <3>2
  <2> QED BY <2>2, <2>3 DEF ProgressInv
<1>5. CASE TapsDown
  BY <1>5 DEF TapsDown, ProgressInv
<1>6. CASE TurnsRound
  <2>1. Range(Untaps) = Range(chord)
    BY ReversedElements DEF Untaps
  <2> QED BY <1>6, <2>1 DEF TurnsRound, ProgressInv
<1>7. CASE TapsUp
  <2>1. Range(left) = {Head(left)} \cup Range(Tail(left))
    BY <1>7, HeadAndTail DEF TapsUp
  <2> QED BY <1>7, <2>1 DEF TapsUp, ProgressInv
<1>8. CASE Ends
  BY <1>8 DEF Ends, ProgressInv
<1>9. ASSUME NEW t \in Timers, Elapses(t) PROVE ProgressInv'
  BY <1>9 DEF Elapses, ProgressInv, workerVars
<1>10. ASSUME NEW t \in Timers, Fires(t) PROVE ProgressInv'
  BY <1>10 DEF Fires, ProgressInv, workerVars
<1>11. CASE Exits \/ UNCHANGED vars
  BY <1>11 DEF Exits, vars, ProgressInv, workerVars
<1> QED BY <1>1, <1>2, <1>3, <1>4, <1>5, <1>6, <1>7, <1>8, <1>9, <1>10, <1>11
           DEF Next, Worker

(* A command that ends has had its full effect, whatever timers elapsed    *)
(* while it waited or worked: a press leaves every input of its chord down *)
(* and with a live timer of its own, a release leaves none down or in the  *)
(* store, and a tap none down, were it held before (click_mouse and        *)
(* send_keys, all of it under _lock).                                      *)
CommandsTakeEffect ==
  [][\A k \in Range(chord) : locked /\ ~ locked' =>
       /\ phase = "press" => k \in down /\ Guarded(k)
       /\ phase = "release" => k \notin down /\ held[k] = None
       /\ phase \in {"tap", "untap"} => k \notin down]_vars

THEOREM EffectsComplete == Spec => CommandsTakeEffect
<1> DEFINE Effect == \A k \in Range(chord) : locked /\ ~ locked' =>
             /\ phase = "press" => k \in down /\ Guarded(k)
             /\ phase = "release" => k \notin down /\ held[k] = None
             /\ phase \in {"tap", "untap"} => k \notin down
<1>1. Init => ProgressInv
  BY DEF Init, ProgressInv, Range
<1>2. HoldInv /\ ProgressInv /\ [Next]_vars => [Effect]_vars
  <2> SUFFICES ASSUME HoldInv, ProgressInv, Next, locked, ~ locked', NEW k \in Range(chord)
               PROVE  /\ phase = "press" => k \in down /\ Guarded(k)
                      /\ phase = "release" => k \notin down /\ held[k] = None
                      /\ phase \in {"tap", "untap"} => k \notin down
    OBVIOUS
  <2>1. Ends
    BY DEF Next, Worker, Begins, TakesLock, Presses, Releases, TapsDown, TurnsRound, TapsUp,
       Elapses, Fires, Exits, workerVars
  <2>2. phase \in {"press", "release", "untap", "type"} /\ (phase # "type" => left = << >>)
    BY <2>1 DEF Ends
  <2>3. phase # "type" => k \notin Range(left)
    BY <2>2 DEF Range
  <2>4. k \in Inputs
    BY DEF HoldInv, TypeOK, Range
  <2> QED BY <2>2, <2>3, <2>4 DEF ProgressInv, HoldInv, StoreInv
<1> QED BY <1>1, <1>2, ProgressStep, HoldInvInit, HoldInvStep, PTL
        DEF Spec, CommandsTakeEffect
=============================================================================
