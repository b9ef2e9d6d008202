-------------------------- MODULE ThinClientProofs --------------------------
(***************************************************************************)
(* Theorems of ThinClient, for any fields, peers, settings and bounds.     *)
(*                                                                         *)
(* The invariant says, for each place the process can be in, what it has   *)
(* established there: which certificate its context trusts, whether it has *)
(* ever been connected, which frame it can be about to read, and that a    *)
(* live connection leads to the peer that listens now.                     *)
(***************************************************************************)
EXTENDS ThinClient, TLAPS

Connected == {"hello", "config", "serve"}

(* The frame in flight is the one the process waits for, and what is       *)
(* pushed over a live connection is the profile of its peer.               *)
FrameInv ==
  /\ phase \notin Connected => frame = None
  /\ phase = "hello" /\ frame # None =>
       frame \in {Frame("ack", None), Frame("nack", None)}
  /\ phase = "config" /\ frame # None =>
       /\ frame \in [kind : {"config"}, content : Profiles]
       /\ link => frame.content = peer.profile
  /\ phase = "serve" /\ frame # None =>
       frame \in [kind : {"request"}, content : Requests]

LinkInv ==
  /\ link => listening
  /\ link => phase \in Connected

TrustInv ==
  /\ phase = "load" => trusted = None
  /\ phase = "probe" => tls
  /\ phase \in Connected \cup {"connect"} =>
       trusted = IF tls THEN Pin ELSE None

ContactInv ==
  /\ greeted # {} \/ phase \in Connected => reached
  /\ phase \in {"load", "probe"} => ~ reached
  /\ exit # "none" <=> phase = "ended"
  /\ phase # "ended" => attempts < Attempts
  /\ exit = "unreachable" => attempts = Attempts
  /\ exit \in {"config", "probe", "mismatch", "unreachable"} => ~ reached

ShotInv == phase \in {"hello", "config"} => shot = None

IInv ==
  /\ TypeOK
  /\ FrameInv
  /\ LinkInv
  /\ TrustInv
  /\ ContactInv
  /\ ShotInv
  /\ OnlyPinned
  /\ ServesAsConfigured
  /\ ShotsAsAsked

-----------------------------------------------------------------------------
(* Settings.                                                               *)

LEMMA OverType ==
  ASSUME NEW part \in Partial, NEW whole \in [Fields -> Values]
  PROVE  Over(part, whole) \in [Fields -> Values]
  BY DEF Over, Partial

(* A profile turns settings into settings that have all it mentions.       *)
LEMMA AppliedType ==
  ASSUME TypeOK, NEW profile \in Profiles
  PROVE  /\ Applied(profile) \in Settings
         /\ profile.screenshot # None =>
              \A f \in DOMAIN profile.screenshot :
                Applied(profile).screenshot[f] = profile.screenshot[f]
         /\ profile.log_level # None =>
              Applied(profile).log_level = profile.log_level
<1>1. CASE profile.screenshot = None
  BY <1>1 DEF Applied, Profiles, Settings, TypeOK
<1>2. CASE profile.screenshot # None
  <2>1. profile.screenshot \in Partial
    BY <1>2 DEF Profiles
  <2>2. Validated(profile.screenshot) \in [Fields -> Values]
    BY <2>1, OverType, ValuesAssumption DEF Validated
  <2>3. \A f \in DOMAIN profile.screenshot :
          Validated(profile.screenshot)[f] = profile.screenshot[f]
    BY <2>1 DEF Validated, Over, Partial
  <2> QED BY <1>2, <2>2, <2>3 DEF Applied, Profiles, Settings, TypeOK
<1> QED BY <1>1, <1>2

(* A screenshot has what is asked, and the settings for the rest.          *)
LEMMA ChosenType ==
  ASSUME TypeOK, NEW asked \in Requests
  PROVE  /\ Chosen(asked) \in [Fields -> Values]
         /\ \A f \in Fields :
              Chosen(asked)[f] = IF f \in DOMAIN asked THEN asked[f]
                                 ELSE settings.screenshot[f]
<1>1. asked \in Partial /\ settings.screenshot \in [Fields -> Values]
  BY ValuesAssumption DEF TypeOK, Settings
<1> QED BY <1>1, OverType DEF Chosen, Over

-----------------------------------------------------------------------------
(* The invariant.                                                          *)

(* A fault is within the bound.                                            *)
LEMMA FaultyType ==
  ASSUME TypeOK, Faulty
  PROVE  faults' \in 0..MaxFaults
  BY BoundsAssumption DEF TypeOK, Faulty

LEMMA InitInv == Init => IInv
<1> SUFFICES ASSUME Init PROVE IInv
  OBVIOUS
<1>1. TypeOK
  <2>1. settings \in Settings
    BY ValuesAssumption DEF Init
  <2>2. /\ starts \in 0..MaxStarts /\ faults \in 0..MaxFaults
        /\ attempts \in 0..Attempts
    BY BoundsAssumption DEF Init
  <2> QED BY <2>1, <2>2 DEF Init, TypeOK
<1>2. FrameInv /\ LinkInv /\ TrustInv /\ ShotInv
  BY DEF Init, FrameInv, LinkInv, TrustInv, ShotInv, Connected
<1>3. ContactInv
  BY BoundsAssumption DEF Init, ContactInv, Connected
<1>4. OnlyPinned /\ ServesAsConfigured /\ ShotsAsAsked
  BY DEF Init, OnlyPinned, ServesAsConfigured, ShotsAsAsked
<1> QED BY <1>1, <1>2, <1>3, <1>4 DEF IInv

LEMMA StepInv == IInv /\ [Next]_vars => IInv'
<1> SUFFICES ASSUME IInv, [Next]_vars PROVE IInv'
  OBVIOUS
<1>1. ASSUME LoadFails PROVE IInv'
  <2>1. TypeOK'
    BY <1>1 DEF LoadFails, Ends, IInv, addressVars, TypeOK
  <2>2. FrameInv' /\ LinkInv'
    BY <1>1 DEF LoadFails, Ends, IInv, addressVars, TypeOK, FrameInv,
       LinkInv, Connected
  <2>3. TrustInv' /\ ContactInv' /\ ShotInv'
    BY <1>1 DEF LoadFails, Ends, IInv, addressVars, TypeOK, TrustInv,
       ContactInv, ShotInv, FrameInv, Connected
  <2>4. OnlyPinned' /\ ServesAsConfigured' /\ ShotsAsAsked'
    BY <1>1 DEF LoadFails, Ends, IInv, addressVars, TypeOK, TrustInv,
       ShotInv, FrameInv, LinkInv, Connected, OnlyPinned, ServesAsConfigured,
       ShotsAsAsked, HasProfile
  <2> QED BY <2>1, <2>2, <2>3, <2>4 DEF IInv
<1>2. ASSUME Loads PROVE IInv'
  <2>1. TypeOK'
    BY <1>2 DEF Loads, IInv, addressVars, linkVars, TypeOK
  <2>2. FrameInv' /\ LinkInv'
    BY <1>2 DEF Loads, IInv, addressVars, linkVars, TypeOK, FrameInv,
       LinkInv, Connected
  <2>3. TrustInv' /\ ContactInv' /\ ShotInv'
    BY <1>2 DEF Loads, IInv, addressVars, linkVars, TypeOK, TrustInv,
       ContactInv, ShotInv, FrameInv, Connected
  <2>4. OnlyPinned' /\ ServesAsConfigured' /\ ShotsAsAsked'
    BY <1>2 DEF Loads, IInv, addressVars, linkVars, TypeOK, TrustInv,
       ShotInv, FrameInv, LinkInv, Connected, OnlyPinned, ServesAsConfigured,
       ShotsAsAsked, HasProfile
  <2> QED BY <2>1, <2>2, <2>3, <2>4 DEF IInv
<1>3. ASSUME ProbeFails PROVE IInv'
  <2>1. TypeOK'
    <3>1. faults' \in 0..MaxFaults
      BY <1>3, FaultyType DEF ProbeFails, Smooth, IInv, TypeOK
    <3> QED BY <1>3, <3>1 DEF ProbeFails, Ends, Presents, Smooth, IInv, TypeOK
  <2>2. FrameInv' /\ LinkInv'
    BY <1>3 DEF ProbeFails, Ends, Presents, Smooth, IInv, TypeOK, FrameInv,
       LinkInv, Connected
  <2>3. TrustInv' /\ ContactInv' /\ ShotInv'
    BY <1>3 DEF ProbeFails, Ends, Presents, Smooth, IInv, TypeOK, TrustInv,
       ContactInv, ShotInv, FrameInv, Connected
  <2>4. OnlyPinned' /\ ServesAsConfigured' /\ ShotsAsAsked'
    BY <1>3 DEF ProbeFails, Ends, Presents, Smooth, IInv, TypeOK, TrustInv,
       ShotInv, FrameInv, LinkInv, Connected, OnlyPinned, ServesAsConfigured,
       ShotsAsAsked, HasProfile
  <2> QED BY <2>1, <2>2, <2>3, <2>4 DEF IInv
<1>4. ASSUME ProbeMismatches PROVE IInv'
  <2>1. TypeOK'
    BY <1>4 DEF ProbeMismatches, Ends, IInv, addressVars, TypeOK
  <2>2. FrameInv' /\ LinkInv'
    BY <1>4 DEF ProbeMismatches, Ends, IInv, addressVars, TypeOK, FrameInv,
       LinkInv, Connected
  <2>3. TrustInv' /\ ContactInv' /\ ShotInv'
    BY <1>4 DEF ProbeMismatches, Ends, IInv, addressVars, TypeOK, TrustInv,
       ContactInv, ShotInv, FrameInv, Connected
  <2>4. OnlyPinned' /\ ServesAsConfigured' /\ ShotsAsAsked'
    BY <1>4 DEF ProbeMismatches, Ends, IInv, addressVars, TypeOK, TrustInv,
       ShotInv, FrameInv, LinkInv, Connected, OnlyPinned, ServesAsConfigured,
       ShotsAsAsked, HasProfile
  <2> QED BY <2>1, <2>2, <2>3, <2>4 DEF IInv
<1>5. ASSUME ProbeMatches PROVE IInv'
  <2>1. TypeOK'
    BY <1>5 DEF ProbeMatches, Presents, IInv, addressVars, linkVars, TypeOK
  <2>2. FrameInv' /\ LinkInv'
    BY <1>5 DEF ProbeMatches, Presents, IInv, addressVars, linkVars, TypeOK,
       FrameInv, LinkInv, Connected
  <2>3. TrustInv' /\ ContactInv' /\ ShotInv'
    BY <1>5 DEF ProbeMatches, Presents, IInv, addressVars, linkVars, TypeOK,
       TrustInv, ContactInv, ShotInv, FrameInv, Connected
  <2>4. OnlyPinned' /\ ServesAsConfigured' /\ ShotsAsAsked'
    BY <1>5 DEF ProbeMatches, Presents, IInv, addressVars, linkVars, TypeOK,
       TrustInv, ShotInv, FrameInv, LinkInv, Connected, OnlyPinned,
       ServesAsConfigured, ShotsAsAsked, HasProfile
  <2> QED BY <2>1, <2>2, <2>3, <2>4 DEF IInv
<1>6. ASSUME Connects PROVE IInv'
  <2>1. TypeOK'
    BY <1>6 DEF Connects, Handshakes, Presents, IInv, addressVars, TypeOK
  <2>2. FrameInv' /\ LinkInv'
    BY <1>6 DEF Connects, Handshakes, Presents, IInv, addressVars, TypeOK,
       FrameInv, LinkInv, Connected
  <2>3. TrustInv' /\ ContactInv' /\ ShotInv'
    BY <1>6 DEF Connects, Handshakes, Presents, IInv, addressVars, TypeOK,
       TrustInv, ContactInv, ShotInv, FrameInv, Connected
  <2>4. OnlyPinned' /\ ServesAsConfigured' /\ ShotsAsAsked'
    BY <1>6 DEF Connects, Handshakes, Presents, IInv, addressVars, TypeOK,
       TrustInv, ShotInv, FrameInv, LinkInv, Connected, OnlyPinned,
       ServesAsConfigured, ShotsAsAsked, HasProfile
  <2> QED BY <2>1, <2>2, <2>3, <2>4 DEF IInv
<1>7. ASSUME IsRefused PROVE IInv'
  <2>1. TypeOK'
    BY <1>7 DEF IsRefused, Handshakes, Presents, Ends, IInv, addressVars,
       TypeOK
  <2>2. FrameInv' /\ LinkInv'
    BY <1>7 DEF IsRefused, Handshakes, Presents, Ends, IInv, addressVars,
       TypeOK, FrameInv, LinkInv, Connected
  <2>3. TrustInv' /\ ContactInv' /\ ShotInv'
    BY <1>7 DEF IsRefused, Handshakes, Presents, Ends, IInv, addressVars,
       TypeOK, TrustInv, ContactInv, ShotInv, FrameInv, Connected
  <2>4. OnlyPinned' /\ ServesAsConfigured' /\ ShotsAsAsked'
    BY <1>7 DEF IsRefused, Handshakes, Presents, Ends, IInv, addressVars,
       TypeOK, TrustInv, ShotInv, FrameInv, LinkInv, Connected, OnlyPinned,
       ServesAsConfigured, ShotsAsAsked, HasProfile
  <2> QED BY <2>1, <2>2, <2>3, <2>4 DEF IInv
<1>8. ASSUME ConnectFails PROVE IInv'
  <2>1. TypeOK'
    <3>1. attempts' \in 0..Attempts
      BY <1>8, BoundsAssumption DEF ConnectFails, IInv, TypeOK, ContactInv
    <3>2. faults' \in 0..MaxFaults
      BY <1>8, FaultyType DEF ConnectFails, Smooth, IInv, TypeOK
    <3>3. /\ phase' \in {phase, "ended"} /\ exit' \in {exit, "unreachable"}
          /\ link' \in BOOLEAN /\ frame' \in {frame, None}
      BY <1>8 DEF ConnectFails, Ends, linkVars, IInv, TypeOK
    <3> QED BY <1>8, <3>1, <3>2, <3>3 DEF ConnectFails, IInv, TypeOK
  <2>2. FrameInv' /\ LinkInv'
    BY <1>8 DEF ConnectFails, Handshakes, Presents, GivesUpAt, Ends, Smooth,
       IInv, linkVars, TypeOK, FrameInv, LinkInv, Connected
  <2>3. TrustInv' /\ ContactInv' /\ ShotInv'
    BY <1>8, BoundsAssumption DEF ConnectFails, Handshakes, Presents,
       GivesUpAt, Ends, Smooth, IInv, linkVars, TypeOK, TrustInv, ContactInv,
       ShotInv, FrameInv, Connected
  <2>4. OnlyPinned' /\ ServesAsConfigured' /\ ShotsAsAsked'
    BY <1>8 DEF ConnectFails, Handshakes, Presents, GivesUpAt, Ends, Smooth,
       IInv, linkVars, TypeOK, TrustInv, ShotInv, FrameInv, LinkInv, Connected,
       OnlyPinned, ServesAsConfigured, ShotsAsAsked, HasProfile
  <2> QED BY <2>1, <2>2, <2>3, <2>4 DEF IInv
<1>9. ASSUME IsRejected PROVE IInv'
  <2>1. TypeOK'
    BY <1>9 DEF IsRejected, Ends, IInv, addressVars, TypeOK
  <2>2. FrameInv' /\ LinkInv'
    BY <1>9 DEF IsRejected, Ends, IInv, addressVars, TypeOK, FrameInv,
       LinkInv, Connected
  <2>3. TrustInv' /\ ContactInv' /\ ShotInv'
    BY <1>9 DEF IsRejected, Ends, IInv, addressVars, TypeOK, TrustInv,
       ContactInv, ShotInv, FrameInv, Connected
  <2>4. OnlyPinned' /\ ServesAsConfigured' /\ ShotsAsAsked'
    BY <1>9 DEF IsRejected, Ends, IInv, addressVars, TypeOK, TrustInv,
       ShotInv, FrameInv, LinkInv, Connected, OnlyPinned, ServesAsConfigured,
       ShotsAsAsked, HasProfile
  <2> QED BY <2>1, <2>2, <2>3, <2>4 DEF IInv
<1>10. ASSUME TakesAck PROVE IInv'
  <2>1. TypeOK'
    BY <1>10 DEF TakesAck, IInv, addressVars, TypeOK
  <2>2. FrameInv' /\ LinkInv'
    BY <1>10 DEF TakesAck, IInv, addressVars, TypeOK, FrameInv, LinkInv,
       Connected
  <2>3. TrustInv' /\ ContactInv' /\ ShotInv'
    BY <1>10 DEF TakesAck, IInv, addressVars, TypeOK, TrustInv, ContactInv,
       ShotInv, FrameInv, Connected
  <2>4. OnlyPinned' /\ ServesAsConfigured' /\ ShotsAsAsked'
    BY <1>10 DEF TakesAck, IInv, addressVars, TypeOK, TrustInv, ShotInv,
       FrameInv, LinkInv, Connected, OnlyPinned, ServesAsConfigured,
       ShotsAsAsked, HasProfile
  <2> QED BY <2>1, <2>2, <2>3, <2>4 DEF IInv
<1>11. ASSUME TakesPush PROVE IInv'
  <2>1. TypeOK'
    BY <1>11, AppliedType DEF TakesPush, IInv, addressVars,
       TypeOK, FrameInv
  <2>2. FrameInv' /\ LinkInv'
    BY <1>11 DEF TakesPush, IInv, addressVars, TypeOK, FrameInv, LinkInv,
       Connected
  <2>3. TrustInv' /\ ContactInv' /\ ShotInv'
    BY <1>11 DEF TakesPush, IInv, addressVars, TypeOK, TrustInv, ContactInv,
       ShotInv, FrameInv, Connected
  <2>4. OnlyPinned' /\ ServesAsConfigured' /\ ShotsAsAsked'
    BY <1>11, AppliedType DEF TakesPush, IInv, addressVars,
       TypeOK, TrustInv, ShotInv, FrameInv, LinkInv, Connected, OnlyPinned,
       ServesAsConfigured, ShotsAsAsked, HasProfile
  <2> QED BY <2>1, <2>2, <2>3, <2>4 DEF IInv
<1>12. ASSUME TakesShot PROVE IInv'
  <2>1. TypeOK'
    BY <1>12, ChosenType DEF TakesShot, Shot, IInv, addressVars, TypeOK,
       FrameInv
  <2>2. FrameInv' /\ LinkInv'
    BY <1>12 DEF TakesShot, Shot, IInv, addressVars, TypeOK, FrameInv,
       LinkInv, Connected
  <2>3. TrustInv' /\ ContactInv' /\ ShotInv'
    BY <1>12 DEF TakesShot, Shot, IInv, addressVars, TypeOK, TrustInv,
       ContactInv, ShotInv, FrameInv, Connected
  <2>4. OnlyPinned' /\ ServesAsConfigured' /\ ShotsAsAsked'
    BY <1>12, ChosenType DEF TakesShot, Shot, IInv, addressVars, TypeOK,
       TrustInv, ShotInv, FrameInv, LinkInv, Connected, OnlyPinned,
       ServesAsConfigured, ShotsAsAsked, HasProfile
  <2> QED BY <2>1, <2>2, <2>3, <2>4 DEF IInv
<1>13. ASSUME ReportsError PROVE IInv'
  <2>1. TypeOK'
    BY <1>13 DEF ReportsError, IInv, addressVars, processVars, TypeOK
  <2>2. FrameInv' /\ LinkInv'
    BY <1>13 DEF ReportsError, IInv, addressVars, processVars, TypeOK,
       FrameInv, LinkInv, Connected
  <2>3. TrustInv' /\ ContactInv' /\ ShotInv'
    BY <1>13 DEF ReportsError, IInv, addressVars, processVars, TypeOK,
       TrustInv, ContactInv, ShotInv, FrameInv, Connected
  <2>4. OnlyPinned' /\ ServesAsConfigured' /\ ShotsAsAsked'
    BY <1>13 DEF ReportsError, IInv, addressVars, processVars, TypeOK,
       TrustInv, ShotInv, FrameInv, LinkInv, Connected, OnlyPinned,
       ServesAsConfigured, ShotsAsAsked, HasProfile
  <2> QED BY <2>1, <2>2, <2>3, <2>4 DEF IInv
<1>14. ASSUME Fails PROVE IInv'
  <2>1. TypeOK'
    BY <1>14 DEF Fails, Ends, IInv, addressVars, TypeOK
  <2>2. FrameInv' /\ LinkInv'
    BY <1>14 DEF Fails, Ends, IInv, addressVars, TypeOK, FrameInv, LinkInv,
       Connected
  <2>3. TrustInv' /\ ContactInv' /\ ShotInv'
    BY <1>14 DEF Fails, Ends, IInv, addressVars, TypeOK, TrustInv,
       ContactInv, ShotInv, FrameInv, Connected
  <2>4. OnlyPinned' /\ ServesAsConfigured' /\ ShotsAsAsked'
    BY <1>14 DEF Fails, Ends, IInv, addressVars, TypeOK, TrustInv, ShotInv,
       FrameInv, LinkInv, Connected, OnlyPinned, ServesAsConfigured,
       ShotsAsAsked, HasProfile
  <2> QED BY <2>1, <2>2, <2>3, <2>4 DEF IInv
<1>15. ASSUME LosesLink PROVE IInv'
  <2>1. TypeOK'
    BY <1>15 DEF LosesLink, IInv, addressVars, TypeOK
  <2>2. FrameInv' /\ LinkInv'
    BY <1>15 DEF LosesLink, IInv, addressVars, TypeOK, FrameInv, LinkInv,
       Connected
  <2>3. TrustInv' /\ ContactInv' /\ ShotInv'
    BY <1>15 DEF LosesLink, IInv, addressVars, TypeOK, TrustInv, ContactInv,
       ShotInv, FrameInv, Connected
  <2>4. OnlyPinned' /\ ServesAsConfigured' /\ ShotsAsAsked'
    BY <1>15 DEF LosesLink, IInv, addressVars, TypeOK, TrustInv, ShotInv,
       FrameInv, LinkInv, Connected, OnlyPinned, ServesAsConfigured,
       ShotsAsAsked, HasProfile
  <2> QED BY <2>1, <2>2, <2>3, <2>4 DEF IInv
<1>16. ASSUME Stops PROVE IInv'
  <2>1. TypeOK'
    BY <1>16 DEF Stops, IInv, processVars, TypeOK
  <2>2. FrameInv' /\ LinkInv'
    BY <1>16 DEF Stops, IInv, processVars, TypeOK, FrameInv, LinkInv,
       Connected
  <2>3. TrustInv' /\ ContactInv' /\ ShotInv'
    BY <1>16 DEF Stops, IInv, processVars, TypeOK, TrustInv, ContactInv,
       ShotInv, FrameInv, Connected
  <2>4. OnlyPinned' /\ ServesAsConfigured' /\ ShotsAsAsked'
    BY <1>16 DEF Stops, IInv, processVars, TypeOK, TrustInv, ShotInv,
       FrameInv, LinkInv, Connected, OnlyPinned, ServesAsConfigured,
       ShotsAsAsked, HasProfile
  <2> QED BY <2>1, <2>2, <2>3, <2>4 DEF IInv
<1>17. ASSUME Starts PROVE IInv'
  <2>1. TypeOK'
    BY <1>17, BoundsAssumption DEF Starts, IInv, linkVars, processVars,
       TypeOK
  <2>2. FrameInv' /\ LinkInv'
    BY <1>17 DEF Starts, IInv, linkVars, processVars, TypeOK, FrameInv,
       LinkInv, Connected
  <2>3. TrustInv' /\ ContactInv' /\ ShotInv'
    BY <1>17 DEF Starts, IInv, linkVars, processVars, TypeOK, TrustInv,
       ContactInv, ShotInv, FrameInv, Connected
  <2>4. OnlyPinned' /\ ServesAsConfigured' /\ ShotsAsAsked'
    BY <1>17 DEF Starts, IInv, linkVars, processVars, TypeOK, TrustInv,
       ShotInv, FrameInv, LinkInv, Connected, OnlyPinned, ServesAsConfigured,
       ShotsAsAsked, HasProfile
  <2> QED BY <2>1, <2>2, <2>3, <2>4 DEF IInv
<1>18. ASSUME Drops PROVE IInv'
  <2>1. TypeOK'
    <3>1. faults' \in 0..MaxFaults
      BY <1>18, FaultyType DEF Drops, IInv
    <3> QED BY <1>18, <3>1 DEF Drops, IInv, processVars, TypeOK
  <2>2. FrameInv' /\ LinkInv'
    BY <1>18 DEF Drops, IInv, processVars, TypeOK, FrameInv, LinkInv,
       Connected
  <2>3. TrustInv' /\ ContactInv' /\ ShotInv'
    BY <1>18 DEF Drops, IInv, processVars, TypeOK, TrustInv, ContactInv,
       ShotInv, FrameInv, Connected
  <2>4. OnlyPinned' /\ ServesAsConfigured' /\ ShotsAsAsked'
    BY <1>18 DEF Drops, IInv, processVars, TypeOK, TrustInv, ShotInv,
       FrameInv, LinkInv, Connected, OnlyPinned, ServesAsConfigured,
       ShotsAsAsked, HasProfile
  <2> QED BY <2>1, <2>2, <2>3, <2>4 DEF IInv
<1>19. ASSUME Answers PROVE IInv'
  <2>1. TypeOK'
    BY <1>19 DEF Answers, Sends, Frame, Frames, IInv, addressVars,
       processVars, TypeOK
  <2>2. FrameInv' /\ LinkInv'
    BY <1>19 DEF Answers, Sends, Frame, Frames, IInv, addressVars,
       processVars, TypeOK, FrameInv, LinkInv, Connected
  <2>3. TrustInv' /\ ContactInv' /\ ShotInv'
    BY <1>19 DEF Answers, Sends, Frame, Frames, IInv, addressVars,
       processVars, TypeOK, TrustInv, ContactInv, ShotInv, FrameInv, Connected
  <2>4. OnlyPinned' /\ ServesAsConfigured' /\ ShotsAsAsked'
    BY <1>19 DEF Answers, Sends, Frame, Frames, IInv, addressVars,
       processVars, TypeOK, TrustInv, ShotInv, FrameInv, LinkInv, Connected,
       OnlyPinned, ServesAsConfigured, ShotsAsAsked, HasProfile
  <2> QED BY <2>1, <2>2, <2>3, <2>4 DEF IInv
<1>20. ASSUME Pushes PROVE IInv'
  <2>1. TypeOK'
    BY <1>20, PeersAssumption DEF Pushes, Sends, Frame, Frames, IInv,
       addressVars, processVars, TypeOK, FrameInv
  <2>2. FrameInv' /\ LinkInv'
    BY <1>20, PeersAssumption DEF Pushes, Sends, Frame, Frames, IInv,
       addressVars, processVars, TypeOK, FrameInv, LinkInv, Connected
  <2>3. TrustInv' /\ ContactInv' /\ ShotInv'
    BY <1>20 DEF Pushes, Sends, Frame, Frames, IInv, addressVars,
       processVars, TypeOK, TrustInv, ContactInv, ShotInv, FrameInv, Connected
  <2>4. OnlyPinned' /\ ServesAsConfigured' /\ ShotsAsAsked'
    BY <1>20 DEF Pushes, Sends, Frame, Frames, IInv, addressVars,
       processVars, TypeOK, TrustInv, ShotInv, FrameInv, LinkInv, Connected,
       OnlyPinned, ServesAsConfigured, ShotsAsAsked, HasProfile
  <2> QED BY <2>1, <2>2, <2>3, <2>4 DEF IInv
<1>21. ASSUME Asks PROVE IInv'
  <2>1. TypeOK'
    BY <1>21 DEF Asks, Sends, Frame, Frames, IInv, addressVars, processVars,
       TypeOK
  <2>2. FrameInv' /\ LinkInv'
    BY <1>21 DEF Asks, Sends, Frame, Frames, IInv, addressVars, processVars,
       TypeOK, FrameInv, LinkInv, Connected
  <2>3. TrustInv' /\ ContactInv' /\ ShotInv'
    BY <1>21 DEF Asks, Sends, Frame, Frames, IInv, addressVars, processVars,
       TypeOK, TrustInv, ContactInv, ShotInv, FrameInv, Connected
  <2>4. OnlyPinned' /\ ServesAsConfigured' /\ ShotsAsAsked'
    BY <1>21 DEF Asks, Sends, Frame, Frames, IInv, addressVars, processVars,
       TypeOK, TrustInv, ShotInv, FrameInv, LinkInv, Connected, OnlyPinned,
       ServesAsConfigured, ShotsAsAsked, HasProfile
  <2> QED BY <2>1, <2>2, <2>3, <2>4 DEF IInv
<1>22. CASE UNCHANGED vars
  BY <1>22 DEF vars, addressVars, linkVars, processVars, IInv, TypeOK,
       FrameInv, LinkInv, TrustInv, ContactInv, ShotInv, OnlyPinned,
       ServesAsConfigured, ShotsAsAsked, HasProfile
<1> QED BY <1>1, <1>2, <1>3, <1>4, <1>5, <1>6, <1>7, <1>8, <1>9, <1>10,
       <1>11, <1>12, <1>13, <1>14, <1>15, <1>16, <1>17, <1>18, <1>19, <1>20,
       <1>21, <1>22 DEF Next, Process, Probe, Connect, Converse, Handler

LEMMA Inductive == Spec => []IInv
<1>1. Init => IInv
  BY InitInv
<1>2. IInv /\ [Next]_vars => IInv'
  BY StepInv
<1> QED BY <1>1, <1>2, PTL DEF Spec

-----------------------------------------------------------------------------
(* The theorems.                                                           *)

(* Every reachable state of a thin client process is well typed.           *)
THEOREM ClientTypeCorrect == Spec => []TypeOK
<1>1. IInv => TypeOK
  BY DEF IInv
<1> QED BY <1>1, Inductive, PTL

(* The machine id and key only go to a peer with the pinned certificate,   *)
(* whatever listens at the broker's address later (run's ssl_context).     *)
THEOREM CredentialsPinned == Spec => []OnlyPinned
<1>1. IInv => OnlyPinned
  BY DEF IInv
<1> QED BY <1>1, Inductive, PTL

(* A process that was ever connected is not ended by a broker that is away *)
(* or has another certificate (process_exception).                         *)
THEOREM KeepsTrying == Spec => []GivesUpOnlyAtFirst
<1>1. IInv => GivesUpOnlyAtFirst
  BY DEF IInv, TypeOK, ContactInv, GivesUpOnlyAtFirst
<1> QED BY <1>1, Inductive, PTL

(* A connection that is served has its broker's profile applied, whatever  *)
(* the earlier connections pushed (_apply_config_push).                    *)
THEOREM ProfileApplied == Spec => []ServesAsConfigured
<1>1. IInv => ServesAsConfigured
  BY DEF IInv
<1> QED BY <1>1, Inductive, PTL

(* Screenshots are taken as asked and configured (_do_screenshot).         *)
THEOREM ShotsRight == Spec => []ShotsAsAsked
<1>1. IInv => ShotsAsAsked
  BY DEF IInv
<1> QED BY <1>1, Inductive, PTL

-----------------------------------------------------------------------------
(* Where the settings come from.                                           *)

(* A live connection is to a peer that was greeted, and one that is past   *)
(* the ack to a peer that accepted this machine and its key.               *)
AcceptedInv ==
  /\ link => peer \in greeted
  /\ link /\ phase = "hello" /\ frame = Frame("ack", None) => peer.accepts
  /\ link /\ phase = "config" => peer.accepts

(* A push that has not been read, over a connection that may be lost by    *)
(* now, is the profile of such a peer, which need not be the present one.  *)
PushedInv ==
  phase = "config" /\ frame # None =>
    \E p \in greeted : p.accepts /\ frame.content = p.profile

(* The screenshot settings are as a whole those of the local file or those *)
(* that one peer pushed, with defaults in the fields it left out; the log  *)
(* level is the file's or one that was pushed.  Who pushed had accepted    *)
(* this machine and its key.                                               *)
SourceInv ==
  /\ \/ \E l \in Locals : settings.screenshot = l.screenshot
     \/ \E p \in greeted : /\ p.accepts /\ p.profile.screenshot # None
                           /\ settings.screenshot = Validated(p.profile.screenshot)
  /\ \/ \E l \in Locals : settings.log_level = l.log_level
     \/ \E p \in greeted : /\ p.accepts /\ p.profile.log_level # None
                           /\ settings.log_level = p.profile.log_level

ConfiguredInv == AcceptedInv /\ PushedInv /\ SourceInv

(* A step that changes no settings and greets at most more keeps SourceInv; *)
(* one that reads and writes no frame either keeps PushedInv.              *)
LEMMA SourceKept ==
  ASSUME SourceInv, settings' = settings, greeted \subseteq greeted'
  PROVE  SourceInv'
<1>1. \/ \E l \in Locals : settings.screenshot = l.screenshot
      \/ \E p \in greeted' : /\ p.accepts /\ p.profile.screenshot # None
                             /\ settings.screenshot = Validated(p.profile.screenshot)
  BY DEF SourceInv
<1>2. \/ \E l \in Locals : settings.log_level = l.log_level
      \/ \E p \in greeted' : /\ p.accepts /\ p.profile.log_level # None
                             /\ settings.log_level = p.profile.log_level
  BY DEF SourceInv
<1> QED BY <1>1, <1>2 DEF SourceInv, Validated, Over

(* ConfiguredInv is inductive.                                             *)
LEMMA ConfiguredStep ==
  ASSUME IInv, ConfiguredInv, [Next]_vars
  PROVE  ConfiguredInv'
<1> USE DEF Ends, Sends, addressVars, linkVars, processVars
<1>1. CASE Connects
  <2>1. AcceptedInv' /\ PushedInv'
    <3>1. None # Frame("ack", None)
      BY FramesAssumption DEF Frames, Frame
    <3> QED BY <1>1, <3>1 DEF Connects, AcceptedInv, PushedInv
  <2>2. SourceInv'
    BY <1>1, SourceKept DEF Connects, ConfiguredInv
  <2> QED BY <2>1, <2>2 DEF ConfiguredInv
<1>2. CASE TakesPush
  <2>1. /\ phase = "config" /\ frame # None /\ phase' = "serve" /\ link' = link
        /\ settings' = Applied(frame.content) /\ UNCHANGED <<peer, greeted>>
    BY <1>2 DEF TakesPush
  <2>2. PICK p \in greeted : p.accepts /\ frame.content = p.profile
    BY <2>1 DEF ConfiguredInv, PushedInv
  <2>3. /\ settings'.screenshot = IF p.profile.screenshot = None THEN settings.screenshot
                                  ELSE Validated(p.profile.screenshot)
        /\ settings'.log_level = IF p.profile.log_level = None THEN settings.log_level
                                 ELSE p.profile.log_level
    BY <2>1, <2>2 DEF Applied
  <2>4. \/ \E l \in Locals : settings'.screenshot = l.screenshot
        \/ \E q \in greeted : /\ q.accepts /\ q.profile.screenshot # None
                              /\ settings'.screenshot = Validated(q.profile.screenshot)
    BY <2>2, <2>3 DEF ConfiguredInv, SourceInv
  <2>5. \/ \E l \in Locals : settings'.log_level = l.log_level
        \/ \E q \in greeted : /\ q.accepts /\ q.profile.log_level # None
                              /\ settings'.log_level = q.profile.log_level
    BY <2>2, <2>3 DEF ConfiguredInv, SourceInv
  <2>6. SourceInv'
    BY <2>1, <2>4, <2>5 DEF SourceInv, Validated, Over
  <2>7. AcceptedInv' /\ PushedInv'
    BY <2>1 DEF ConfiguredInv, AcceptedInv, PushedInv
  <2> QED BY <2>6, <2>7 DEF ConfiguredInv
<1>3. ASSUME settings' = settings, greeted' = greeted, AcceptedInv', PushedInv'
      PROVE  ConfiguredInv'
  BY <1>3, SourceKept DEF ConfiguredInv
<1>4. CASE TakesAck
  BY <1>3, <1>4 DEF TakesAck, ConfiguredInv, AcceptedInv, PushedInv
<1>5. CASE Answers
  <2>1. /\ phase = "hello" /\ link /\ frame' = Frame(IF peer.accepts THEN "ack" ELSE "nack", None)
        /\ UNCHANGED <<peer, link, phase, settings, greeted>>
    BY <1>5 DEF Answers
  <2>2. frame' = Frame("ack", None) => peer.accepts
    BY <2>1 DEF Frame
  <2>3. AcceptedInv' /\ PushedInv'
    BY <2>1, <2>2 DEF ConfiguredInv, AcceptedInv, PushedInv, Frame
  <2> QED BY <1>3, <2>1, <2>3
<1>6. CASE Pushes
  <2>1. /\ phase = "config" /\ link /\ frame' = Frame("config", peer.profile)
        /\ UNCHANGED <<peer, link, phase, settings, greeted>>
    BY <1>6 DEF Pushes
  <2>2. peer \in greeted /\ peer.accepts /\ frame'.content = peer.profile
    BY <2>1 DEF ConfiguredInv, AcceptedInv, Frame
  <2>3. AcceptedInv' /\ PushedInv'
    BY <2>1, <2>2 DEF ConfiguredInv, AcceptedInv, PushedInv
  <2> QED BY <1>3, <2>1, <2>3
<1>7. CASE Asks
  <2>1. phase = "serve" /\ UNCHANGED <<peer, link, phase, settings, greeted>>
    BY <1>7 DEF Asks
  <2>2. AcceptedInv' /\ PushedInv'
    BY <2>1 DEF ConfiguredInv, AcceptedInv, PushedInv
  <2> QED BY <1>3, <2>1, <2>2
<1>8. CASE Stops \/ Starts \/ Drops
  <2>1. /\ ~ link' /\ UNCHANGED <<frame, phase, settings, greeted>>
    BY <1>8 DEF Stops, Starts, Drops, IInv, LinkInv, TypeOK
  <2>2. AcceptedInv' /\ PushedInv'
    BY <2>1 DEF ConfiguredInv, AcceptedInv, PushedInv
  <2> QED BY <1>3, <2>1, <2>2
<1>9. CASE TakesShot \/ ReportsError
  <2>1. phase = "serve" /\ UNCHANGED <<peer, link, phase, settings, greeted>>
    BY <1>9 DEF TakesShot, ReportsError
  <2>2. AcceptedInv' /\ PushedInv'
    BY <2>1 DEF ConfiguredInv, AcceptedInv, PushedInv
  <2> QED BY <1>3, <2>1, <2>2
<1>10. CASE LoadFails \/ Loads \/ Probe \/ IsRefused \/ ConnectFails \/ IsRejected \/ Fails
              \/ LosesLink
  <2>1. /\ ~ link' /\ phase' \notin {"hello", "config"} /\ UNCHANGED <<settings, greeted>>
    BY <1>10 DEF LoadFails, Loads, Probe, ProbeFails, ProbeMismatches, ProbeMatches,
       IsRefused, ConnectFails, IsRejected, Fails, LosesLink, IInv, LinkInv, Connected, TypeOK
  <2>2. AcceptedInv' /\ PushedInv'
    BY <2>1 DEF AcceptedInv, PushedInv
  <2> QED BY <1>3, <2>1, <2>2
<1>11. CASE UNCHANGED vars
  BY <1>3, <1>11 DEF vars, ConfiguredInv, AcceptedInv, PushedInv
<1> QED BY <1>1, <1>2, <1>4, <1>5, <1>6, <1>7, <1>8, <1>9, <1>10, <1>11
       DEF Next, Process, Connect, Converse, Handler

LEMMA ConfiguredInvariant == Spec => []ConfiguredInv
<1>1. Init => ConfiguredInv
  BY DEF Init, ConfiguredInv, AcceptedInv, PushedInv, SourceInv
<1> QED BY <1>1, ConfiguredStep, Inductive, PTL DEF Spec

(* What configures a thin client is its own file or a broker that accepted *)
(* the machine's key and, with TLS, had the pinned certificate, over every *)
(* reconnect to whatever listens at the address.  Its screenshot settings  *)
(* are those of the file, or of one profile with the defaults for what the *)
(* profile leaves out: no field of one push is ever joined with another's. *)
(* Its log level has a source of its own, which may be another one         *)
(* (_apply_config_push, run, config.py).                                   *)
Trusts(p) == p.accepts /\ p.cert = IF tls THEN Pin ELSE None

ConfiguredByTrusted ==
  /\ \/ \E l \in Locals : settings.screenshot = l.screenshot
     \/ \E p \in greeted : /\ Trusts(p) /\ p.profile.screenshot # None
                           /\ settings.screenshot = Validated(p.profile.screenshot)
  /\ \/ \E l \in Locals : settings.log_level = l.log_level
     \/ \E p \in greeted : /\ Trusts(p) /\ p.profile.log_level # None
                           /\ settings.log_level = p.profile.log_level

THEOREM TrustedConfigures == Spec => []ConfiguredByTrusted
<1>1. IInv /\ ConfiguredInv => ConfiguredByTrusted
  BY DEF IInv, OnlyPinned, ConfiguredInv, SourceInv, ConfiguredByTrusted, Trusts
<1> QED BY <1>1, Inductive, ConfiguredInvariant, PTL
=============================================================================
