-------------------------- MODULE AutomationProofs --------------------------
(***************************************************************************)
(* Proofs about the automation runner, for every script, every budget and  *)
(* every set of tools and screens.                                         *)
(***************************************************************************)
EXTENDS Automation, TLAPS, WellFoundedInduction

Nodes == {"start_step", "observe", "guard", "agent", "act", "verify",
          "step_passed", "attempt_failed", "finish", "fail", "end"}

(* The types of what the invariants below are about.                       *)
ScriptTypes ==
  /\ step \in 0..NumSteps
  /\ attempt \in 1..MaxAttempts
  /\ completed \in Nat
  /\ results \in Seq([state : {"passed", "failed"}, attempts : 1..MaxAttempts,
                      reason : Reasons \cup {None}])
  /\ status \in {"running", "passed", "failed"}
  /\ accepted \in SUBSET (0..NumSteps - 1)
  /\ node \in Nodes
  /\ outcome \in {"none", "done", "aborted", "crashed", "out_of_steps"}

AttemptTypes ==
  /\ used \in Nat
  /\ acts \in Nat
  /\ call \in Tools \cup {"step_complete", "step_failed", None}
  /\ failure \in Reasons \cup {None}
  /\ pending \in Messages \cup {None}

(* Where the run is: over exactly at "end", within the script before.      *)
ProgressInv ==
  /\ node = "end" <=> outcome # "none"
  /\ outcome # "done" <=> status = "running"
  /\ node \in {"start_step", "observe", "guard", "agent", "act", "verify",
               "step_passed", "attempt_failed", "fail"} => step < NumSteps
  /\ node = "finish" => step = NumSteps
  /\ status = "passed" => step = NumSteps
  /\ node = "fail" => attempt = MaxAttempts /\ failure # None

(* The reviewer has accepted the steps before this one, and this one only  *)
(* on the way to step_passed: what route_verify counts is what it accepted.*)
ReviewInv ==
  /\ \A i \in accepted : i <= step
  /\ step \in accepted => node \in {"step_passed", "end"}
  /\ node = "step_passed" => step \in accepted
  /\ node \notin {"step_passed", "end"} => completed = step
  /\ node = "step_passed" => completed = step + 1

(* One result per step passed, and one for the step that has failed.       *)
ResultsInv ==
  /\ \A i \in 1..step : i \in DOMAIN results /\ results[i].state = "passed"
  /\ Len(results) \in {step, step + 1}
  /\ Len(results) = step + 1 =>
       /\ node \in {"fail", "end"}
       /\ results[step + 1] = StepResult("failed", MaxAttempts, failure)
  /\ node = "fail" => Len(results) = step + 1
  /\ status = "failed" <=> outcome = "done" /\ Len(results) = step + 1

(* What is pending at each node fits how the conversation ends there.      *)
DialogueInv ==
  /\ dialogue # "broken"
  /\ node = "observe" => pending # None /\ Follows
  /\ node \in {"guard", "agent"} => dialogue = "ready"
  /\ node \in {"act", "verify"} => dialogue = "called"

(* An action is only taken with budget left for it.                        *)
BudgetInv ==
  /\ acts <= used
  /\ node = "act" => used < Budget

RunInv ==
  /\ ScriptTypes /\ AttemptTypes
  /\ ProgressInv /\ ReviewInv /\ ResultsInv /\ DialogueInv /\ BudgetInv

-----------------------------------------------------------------------------
(* RunInv is inductive.                                                    *)

(* It holds at first.                                                      *)
LEMMA RunInvInit == Init => RunInv
<1> SUFFICES ASSUME Init PROVE RunInv
  OBVIOUS
<1>1. << >> \in Seq([state : {"passed", "failed"}, attempts : 1..MaxAttempts,
                     reason : Reasons \cup {None}])
  OBVIOUS
<1>2. ScriptTypes /\ AttemptTypes
  BY <1>1, ScriptAssumption DEF Init, ScriptTypes, AttemptTypes, Nodes
<1>3. ProgressInv /\ ReviewInv /\ DialogueInv /\ BudgetInv
  BY ScriptAssumption DEF Init, ProgressInv, ReviewInv, DialogueInv, BudgetInv
<1>4. ResultsInv
  BY DEF Init, ResultsInv
<1> QED BY <1>2, <1>3, <1>4 DEF RunInv

(* The nodes that neither end an attempt nor hear the reviewer keep it.    *)
LEMMA AttemptKeepsRunInv ==
  ASSUME RunInv,
         start_step \/ observe \/ guard \/ agent_refuses \/ agent_talks
           \/ agent_calls \/ act \/ verify_refused \/ verify_rejected
  PROVE  RunInv'
<1> USE ScriptAssumption DEF RunInv, scriptVars, attemptVars, endVars, historyVars
<1>1. /\ UNCHANGED <<step, attempt, completed, results, status, outcome, accepted>>
      /\ node \in {"start_step", "observe", "guard", "agent", "act", "verify"}
      /\ node' \in {"observe", "guard", "agent", "act", "verify", "attempt_failed"}
  <2>1. CASE start_step
    BY <2>1 DEF start_step, Visits
  <2>2. CASE observe
    BY <2>2 DEF observe, Visits
  <2>3. CASE guard
    BY <2>3 DEF guard, Visits
  <2>4. CASE agent_refuses \/ agent_talks \/ act \/ verify_refused
    BY <2>4 DEF agent_refuses, agent_talks, act, verify_refused, Visits
  <2>5. CASE agent_calls
    BY <2>5, ToolsAssumption DEF agent_calls, route_agent, Visits
  <2>6. CASE verify_rejected
    <3>1. completed = step /\ step \in Nat
      BY <2>6 DEF verify_rejected, Visits, ReviewInv, ScriptTypes
    <3> QED BY <2>6, <3>1 DEF verify_rejected, Visits
  <2> QED BY <2>1, <2>2, <2>3, <2>4, <2>5, <2>6
<1>2. ScriptTypes'
  BY <1>1 DEF ScriptTypes, Nodes
<1>3. ProgressInv'
  BY <1>1 DEF ProgressInv
<1>4. ReviewInv'
  BY <1>1 DEF ReviewInv
<1>5. ResultsInv'
  BY <1>1 DEF ResultsInv, ProgressInv, ScriptTypes
<1>6. AttemptTypes' /\ DialogueInv' /\ BudgetInv'
  <2> USE NoneAssumption, ToolsAssumption DEF AttemptTypes, Reasons, Messages
  <2>1. CASE start_step
    BY <2>1 DEF start_step, Visits, DialogueInv, BudgetInv, Follows
  <2>2. CASE observe
    BY <2>2 DEF observe, Visits, DialogueInv, BudgetInv, Follows
  <2>3. CASE guard
    BY <2>3 DEF guard, Visits, DialogueInv, BudgetInv, Follows
  <2>4. CASE agent_refuses
    BY <2>4 DEF agent_refuses, Visits, DialogueInv, BudgetInv
  <2>5. CASE agent_talks
    BY <2>5 DEF agent_talks, Visits, Spend, DialogueInv, BudgetInv, Follows
  <2>6. CASE agent_calls
    <3>1. PICK t \in Tools \cup {"step_complete", "step_failed"} :
            call' = t /\ node' = route_agent(t)
      BY <2>6 DEF agent_calls
    <3>2. node' \in {"verify", "attempt_failed", "act"}
          /\ (node' = "act" => ~ (used >= Budget))
      BY <3>1, ToolsAssumption DEF route_agent
    <3>3. Budget \in Nat /\ Budget' = Budget
      BY <1>1 DEF Budget, ProgressInv, ScriptTypes
    <3> QED BY <2>6, <3>1, <3>2, <3>3 DEF agent_calls, Visits, DialogueInv, BudgetInv
  <2>7. CASE act
    BY <2>7 DEF act, Visits, Spend, DialogueInv, BudgetInv, Follows
  <2>8. CASE verify_refused
    BY <2>8 DEF verify_refused, Visits, DialogueInv, BudgetInv
  <2>9. CASE verify_rejected
    BY <1>1, <2>9 DEF verify_rejected, Visits, Spend, DialogueInv, BudgetInv, Follows
  <2> QED BY <2>1, <2>2, <2>3, <2>4, <2>5, <2>6, <2>7, <2>8, <2>9
<1> QED BY <1>2, <1>3, <1>4, <1>5, <1>6

(* A claim that is accepted and the end of a step keep it.                 *)
LEMMA PassingKeepsRunInv ==
  ASSUME RunInv, verify_met \/ step_passed
  PROVE  RunInv'
<1> USE ScriptAssumption DEF RunInv, attemptVars, endVars, historyVars
<1>1. CASE verify_met
  <2>1. completed = step /\ step \in Nat /\ step < NumSteps /\ step \notin accepted
    BY <1>1 DEF verify_met, Visits, ReviewInv, ProgressInv, ScriptTypes
  <2>2. /\ completed' = step + 1 /\ accepted' = accepted \cup {step}
        /\ node' = "step_passed" /\ node = "verify"
        /\ UNCHANGED <<step, attempt, results, status, attemptVars, outcome, acts>>
    BY <1>1, <2>1 DEF verify_met, Visits
  <2>3. ScriptTypes' /\ AttemptTypes'
    BY <2>1, <2>2 DEF ScriptTypes, AttemptTypes, Nodes
  <2>4. ProgressInv' /\ ReviewInv' /\ DialogueInv' /\ BudgetInv'
    BY <2>1, <2>2 DEF ProgressInv, ReviewInv, DialogueInv, BudgetInv
  <2>5. ResultsInv'
    BY <2>1, <2>2 DEF ResultsInv, ProgressInv, ScriptTypes
  <2> QED BY <2>3, <2>4, <2>5
<1>2. CASE step_passed
  <2> DEFINE result == StepResult("passed", attempt, None)
  <2>1. /\ step \in Nat /\ step < NumSteps /\ completed = step + 1
        /\ Len(results) = step
    BY <1>2 DEF step_passed, Visits, ReviewInv, ProgressInv, ResultsInv, ScriptTypes
  <2>2. /\ results' = Append(results, result) /\ step' = step + 1 /\ attempt' = 1
        /\ node' \in {"start_step", "finish"}
        /\ node' = "start_step" <=> step' < NumSteps
        /\ node = "step_passed"
        /\ UNCHANGED <<completed, status, attemptVars, outcome, accepted, acts>>
    BY <1>2 DEF step_passed, Visits
  <2>3. result \in [state : {"passed", "failed"}, attempts : 1..MaxAttempts,
                    reason : Reasons \cup {None}]
    BY DEF StepResult, ScriptTypes
  <2>4. ScriptTypes' /\ AttemptTypes'
    BY <2>1, <2>2, <2>3 DEF ScriptTypes, AttemptTypes, Nodes
  <2>5. ProgressInv' /\ ReviewInv' /\ DialogueInv' /\ BudgetInv'
    BY <2>1, <2>2 DEF ProgressInv, ReviewInv, DialogueInv, BudgetInv, ScriptTypes
  <2>6. Len(results') = step' /\ results'[step'].state = "passed"
        /\ \A i \in 1..step : results'[i] = results[i]
    BY <2>1, <2>2, <2>3 DEF ScriptTypes, StepResult
  <2>7. \A i \in 1..step' : i \in DOMAIN results' /\ results'[i].state = "passed"
    BY <2>1, <2>2, <2>4, <2>6 DEF ResultsInv, ScriptTypes
  <2>8. status' # "failed" /\ step' \in Nat
    BY <2>1, <2>2 DEF ProgressInv
  <2>9. ResultsInv'
    BY <2>2, <2>6, <2>7, <2>8 DEF ResultsInv, ProgressInv
  <2> QED BY <2>4, <2>5, <2>9
<1> QED BY <1>1, <1>2

(* A failed attempt keeps it.                                              *)
LEMMA FailingKeepsRunInv ==
  ASSUME RunInv, attempt_failed
  PROVE  RunInv'
<1> USE ScriptAssumption DEF RunInv, endVars, historyVars
<1>1. /\ node = "attempt_failed" /\ step \in Nat /\ step < NumSteps
      /\ Len(results) = step /\ status = "running" /\ outcome = "none"
      /\ UNCHANGED <<step, completed, status, used, pending, call, dialogue, outcome,
                     accepted, acts>>
  BY DEF attempt_failed, Visits, ProgressInv, ResultsInv, ScriptTypes
<1>2. CASE attempt < MaxAttempts
  <2>1. attempt' = attempt + 1 /\ failure' = None /\ results' = results
        /\ node' = "start_step"
    BY <1>2 DEF attempt_failed
  <2>2. ScriptTypes' /\ AttemptTypes'
    BY <1>1, <1>2, <2>1 DEF ScriptTypes, AttemptTypes, Nodes
  <2>3. ProgressInv' /\ ReviewInv' /\ DialogueInv' /\ BudgetInv'
    BY <1>1, <2>1 DEF ProgressInv, ReviewInv, DialogueInv, BudgetInv
  <2>4. ResultsInv'
    BY <1>1, <2>1 DEF ResultsInv
  <2> QED BY <2>2, <2>3, <2>4
<1>3. CASE ~ (attempt < MaxAttempts)
  <2>1. Reason \in Reasons /\ Reason # None
    BY ToolsAssumption, NoneAssumption DEF Reason, Reasons, AttemptTypes
  <2>2. /\ results' = Append(results, StepResult("failed", attempt, Reason))
        /\ failure' = Reason /\ attempt' = attempt /\ node' = "fail"
        /\ attempt = MaxAttempts
    BY <1>3, <2>1 DEF attempt_failed, ScriptTypes
  <2>3. StepResult("failed", attempt, Reason) \in
          [state : {"passed", "failed"}, attempts : 1..MaxAttempts,
           reason : Reasons \cup {None}]
    BY <2>1 DEF StepResult, ScriptTypes
  <2>4. ScriptTypes' /\ AttemptTypes'
    BY <1>1, <2>1, <2>2, <2>3 DEF ScriptTypes, AttemptTypes, Nodes
  <2>5. ProgressInv' /\ ReviewInv' /\ DialogueInv' /\ BudgetInv'
    BY <1>1, <2>1, <2>2 DEF ProgressInv, ReviewInv, DialogueInv, BudgetInv
  <2>6. /\ Len(results') = step + 1
        /\ results'[step + 1] = StepResult("failed", attempt, Reason)
        /\ \A i \in 1..step : i \in DOMAIN results' /\ results'[i] = results[i]
    BY <1>1, <2>2, <2>3 DEF ScriptTypes
  <2>7. ResultsInv'
    BY <1>1, <2>2, <2>6 DEF ResultsInv
  <2> QED BY <2>4, <2>5, <2>7
<1> QED BY <1>2, <1>3

(* The end of a run keeps it.                                              *)
LEMMA EndingKeepsRunInv ==
  ASSUME RunInv, finish \/ fail \/ Aborts \/ Crashes \/ RunsOutOfSteps
  PROVE  RunInv'
<1> USE ScriptAssumption DEF RunInv, attemptVars, scriptVars, historyVars
<1>1. /\ node' = "end" /\ node # "end" /\ outcome' # "none"
      /\ UNCHANGED <<step, attempt, completed, results, accepted, attemptVars, acts>>
      /\ \/ outcome' \notin {"none", "done"} /\ status' = status
         \/ outcome' = "done" /\ node = "finish" /\ status' = "passed"
         \/ outcome' = "done" /\ node = "fail" /\ status' = "failed"
      /\ outcome' \in {"none", "done", "aborted", "crashed", "out_of_steps"}
  BY DEF finish, fail, Ends, Visits, Aborts, Crashes, RunsOutOfSteps, TakesScreenshot
<1>2. ScriptTypes' /\ AttemptTypes'
  BY <1>1 DEF ScriptTypes, AttemptTypes, Nodes
<1>3. ProgressInv' /\ ReviewInv'
  BY <1>1 DEF ProgressInv, ReviewInv
<1>4. DialogueInv' /\ BudgetInv'
  BY <1>1 DEF DialogueInv, BudgetInv
<1>5. ResultsInv'
  BY <1>1 DEF ResultsInv, ProgressInv, ScriptTypes
<1> QED BY <1>2, <1>3, <1>4, <1>5

(* So does every step.                                                     *)
LEMMA RunInvStep == RunInv /\ [Next]_vars => RunInv'
<1> SUFFICES ASSUME RunInv, [Next]_vars PROVE RunInv'
  OBVIOUS
<1>1. CASE UNCHANGED vars
  BY <1>1 DEF vars, scriptVars, attemptVars, endVars, historyVars, RunInv,
     ScriptTypes, AttemptTypes, ProgressInv, ReviewInv, ResultsInv, DialogueInv,
     BudgetInv, Budget, Follows
<1> QED BY <1>1, AttemptKeepsRunInv, PassingKeepsRunInv, FailingKeepsRunInv,
           EndingKeepsRunInv DEF Next

(* RunInv holds throughout.                                                *)
LEMMA RunInvariant == Spec => []RunInv
<1> QED BY RunInvInit, RunInvStep, PTL DEF Spec

-----------------------------------------------------------------------------
(* The evidence for a stall, and the reason of a failed attempt.           *)

InAttempt == node \in {"observe", "guard", "agent", "act", "verify"}

EvidenceTypes ==
  /\ recent \in Seq(Tools)
  /\ screens \in Seq(Screens)
  /\ stalls \in 0..MAX_STALLS
  /\ dialogue \in {"empty", "ready", "called", "said", "broken"}
  /\ visits \in Nat
  /\ overspent \in BOOLEAN

(* Every call and every screen that guard looks at has cost an action, but *)
(* for the first screen; a stall has used up three.                        *)
StallInv ==
  InAttempt =>
    /\ failure = None
    /\ stalls < MAX_STALLS
    /\ Len(recent) + 3 * stalls <= used
    /\ node = "observe" => Len(screens) + 3 * stalls <= used
    /\ Len(screens) + 3 * stalls <= used + 1

(* Why an attempt has failed.                                              *)
WhyInv ==
  node = "attempt_failed" =>
    \/ failure \in {"stuck", "declined"}
    \/ failure = None /\ call = "step_failed" /\ dialogue = "called"
    \/ failure = None /\ call \in Tools /\ used >= Budget

EvidenceInv ==
  /\ EvidenceTypes
  /\ JudgedAfresh
  /\ StallInv /\ WhyInv
  /\ node = "act" => call \in Tools
  /\ failure = "stuck" => used >= 6

(* What Recorded returns.                                                  *)
LEMMA RecordedOne ==
  ASSUME NEW S, NEW s \in Seq(S), NEW x \in S, NEW n \in Nat \ {0}
  PROVE  Recorded(s, x, n) \in Seq(S) /\ Len(Recorded(s, x, n)) <= Len(s) + 1
<1>1. CASE Len(s) < n
  BY <1>1 DEF Recorded
<1>2. CASE ~ (Len(s) < n)
  <2>1. Len(s) \in Nat /\ s # << >>
    BY <1>2
  <2>2. Tail(s) \in Seq(S) /\ Len(Tail(s)) = Len(s) - 1
    BY <2>1
  <2> QED BY <1>2, <2>1, <2>2 DEF Recorded
<1> QED BY <1>1, <1>2

(* It holds at first.                                                      *)
LEMMA EvidenceInit == Init => EvidenceInv
<1> SUFFICES ASSUME Init PROVE EvidenceInv
  OBVIOUS
<1>1. << >> \in Seq(Tools) /\ << >> \in Seq(Screens) /\ Len(<< >>) = 0
  OBVIOUS
<1>2. None # "stuck"
  BY NoneAssumption DEF Reasons
<1>3. EvidenceTypes
  <2>1. recent \in Seq(Tools) /\ screens \in Seq(Screens)
    BY <1>1, Zenon DEF Init
  <2>2. stalls \in 0..MAX_STALLS /\ visits \in Nat
    BY DEF Init, MAX_STALLS
  <2>3. dialogue = "empty" /\ overspent \in BOOLEAN
    BY Zenon DEF Init
  <2> QED BY <2>1, <2>2, <2>3, Zenon DEF EvidenceTypes
<1>4. /\ node = "start_step" /\ failure = None
      /\ Len(recent) <= acts /\ Len(screens) <= used + 1
  BY <1>1 DEF Init
<1> QED BY <1>2, <1>3, <1>4 DEF EvidenceInv, JudgedAfresh, StallInv, WhyInv, InAttempt

(* The nodes that take part in an attempt keep it.                         *)
LEMMA AttemptKeepsEvidence ==
  ASSUME RunInv, EvidenceInv,
         start_step \/ observe \/ guard \/ agent_refuses \/ agent_talks
           \/ agent_calls \/ act \/ verify_refused \/ verify_rejected
  PROVE  EvidenceInv'
<1> USE NoneAssumption, ToolsAssumption
    DEF EvidenceInv, EvidenceTypes, JudgedAfresh, StallInv, WhyInv, InAttempt, MAX_STALLS,
        Reasons, scriptVars, historyVars
<1>1. /\ used \in Nat /\ acts \in Nat /\ Len(recent) \in Nat /\ Len(screens) \in Nat
      /\ failure \in Reasons \cup {None}
      /\ visits \in Nat /\ (overspent' \in BOOLEAN => overspent' \in BOOLEAN)
  BY DEF RunInv, AttemptTypes
<1>2. CASE start_step
  BY <1>1, <1>2 DEF start_step, Visits
<1>3. CASE observe
  <2>1. screens' \in Seq(Screens) /\ Len(screens') <= Len(screens) + 1
        /\ Len(screens') \in Nat
    BY <1>3, RecordedOne, REPEAT_LIMIT + 1 \in Nat \ {0} DEF observe, REPEAT_LIMIT
  <2> QED BY <1>1, <1>3, <2>1 DEF observe, Visits
<1>4. CASE guard
  <2>1. node = "guard" /\ failure = None /\ stalls \in {0, 1}
        /\ Len(recent) + 3 * stalls <= used /\ Len(screens) + 3 * stalls <= used + 1
    BY <1>4 DEF guard, Visits
  <2>2. UNCHANGED <<used, acts, call, dialogue, overspent>> /\ visits' \in Nat
    BY <1>1, <1>4 DEF guard, Visits
  <2>3. CASE Repeated \/ Frozen
    <3>1. used >= 3 * (stalls + 1) /\ stalls' = stalls + 1
      BY <1>1, <1>4, <2>1, <2>3 DEF guard, Repeated, Frozen, REPEAT_LIMIT
    <3>2. CASE stalls = 1
      <4>1. failure' = "stuck" /\ node' = "attempt_failed" /\ UNCHANGED <<recent, screens>>
        BY <1>4, <2>3, <3>2 DEF guard, StuckAfter
      <4> QED BY <1>1, <2>1, <2>2, <3>1, <3>2, <4>1
    <3>3. CASE stalls = 0
      <4>1. failure' = None /\ node' = "agent" /\ recent' = << >> /\ screens' = << >>
        BY <1>4, <2>1, <2>3, <3>3 DEF guard, StuckAfter, Forgets
      <4>2. << >> \in Seq(Tools) /\ << >> \in Seq(Screens) /\ Len(<< >>) = 0
        OBVIOUS
      <4> QED BY <1>1, <2>1, <2>2, <3>1, <3>3, <4>1, <4>2
    <3> QED BY <2>1, <3>2, <3>3
  <2>4. CASE ~ (Repeated \/ Frozen)
    BY <1>1, <1>4, <2>1, <2>2, <2>4 DEF guard
  <2> QED BY <2>3, <2>4
<1>5. CASE agent_refuses
  BY <1>1, <1>5 DEF agent_refuses, Visits
<1>6. CASE agent_talks
  BY <1>1, <1>6 DEF agent_talks, Visits, Spend
<1>7. CASE agent_calls
  <2>1. PICK t \in Tools \cup {"step_complete", "step_failed"} :
          call' = t /\ node' = route_agent(t)
    BY <1>7 DEF agent_calls
  <2>2. \/ node' = "verify"
        \/ node' = "act" /\ t \in Tools
        \/ node' = "attempt_failed" /\ t = "step_failed"
        \/ node' = "attempt_failed" /\ t \in Tools /\ used >= Budget
    BY <2>1 DEF route_agent
  <2>3. node = "agent" /\ Budget' = Budget /\ dialogue' = "called" /\ visits' \in Nat
        /\ UNCHANGED <<used, stalls, recent, screens, failure, acts, overspent>>
    BY <1>1, <1>7 DEF agent_calls, Visits, Budget
  <2> QED BY <1>1, <2>1, <2>2, <2>3
<1>8. CASE act
  <2>1. call \in Tools /\ node = "act"
    BY <1>8 DEF act, Visits
  <2>2. recent' \in Seq(Tools) /\ Len(recent') <= Len(recent) + 1 /\ Len(recent') \in Nat
    BY <1>8, <2>1, RecordedOne, REPEAT_LIMIT \in Nat \ {0} DEF act, REPEAT_LIMIT
  <2> QED BY <1>1, <1>8, <2>1, <2>2 DEF act, Visits, Spend
<1>9. CASE verify_refused
  BY <1>1, <1>9 DEF verify_refused, Visits
<1>10. CASE verify_rejected
  <2>1. completed = step /\ step \in Nat
    BY <1>10 DEF verify_rejected, Visits, RunInv, ReviewInv, ScriptTypes
  <2> QED BY <1>1, <1>10, <2>1 DEF verify_rejected, Visits, Spend
<1> QED BY <1>2, <1>3, <1>4, <1>5, <1>6, <1>7, <1>8, <1>9, <1>10

(* So do the others.                                                       *)
LEMMA OthersKeepEvidence ==
  ASSUME RunInv, EvidenceInv,
         verify_met \/ step_passed \/ attempt_failed \/ finish \/ fail
           \/ Aborts \/ Crashes \/ RunsOutOfSteps
  PROVE  EvidenceInv'
<1> USE NoneAssumption, ToolsAssumption
    DEF EvidenceInv, EvidenceTypes, JudgedAfresh, StallInv, WhyInv, InAttempt, attemptVars,
        historyVars
<1>1. /\ UNCHANGED <<used, stalls, call, recent, screens, dialogue, acts, overspent>>
      /\ visits' \in Nat
  BY DEF verify_met, step_passed, attempt_failed, finish, fail, Ends, Visits, Aborts,
     Crashes, RunsOutOfSteps, scriptVars
<1>2. CASE verify_met
  <2>1. node' = "step_passed"
    BY <1>2 DEF verify_met, Visits, RunInv, ReviewInv, ScriptTypes
  <2> QED BY <1>1, <1>2, <2>1 DEF verify_met
<1>3. CASE attempt_failed
  <2>1. failure' \in {None, Reason} /\ node' \in {"fail", "start_step"}
    BY <1>3 DEF attempt_failed
  <2>2. failure' = "stuck" => failure = "stuck"
    BY <2>1 DEF Reason, Reasons
  <2> QED BY <1>1, <2>1, <2>2
<1>4. CASE step_passed \/ finish \/ fail \/ Aborts \/ Crashes \/ RunsOutOfSteps
  <2>1. node' \in {"start_step", "finish", "end"} /\ failure' = failure
    BY <1>4 DEF step_passed, finish, fail, Ends, Aborts, Crashes, RunsOutOfSteps
  <2> QED BY <1>1, <2>1
<1> QED BY <1>2, <1>3, <1>4

(* Together with RunInv it is inductive.                                   *)
LEMMA EvidenceInvariant == Spec => []EvidenceInv
<1>1. RunInv /\ EvidenceInv /\ [Next]_vars => EvidenceInv'
  <2> SUFFICES ASSUME RunInv, EvidenceInv, [Next]_vars PROVE EvidenceInv'
    OBVIOUS
  <2>1. CASE UNCHANGED vars
    BY <2>1 DEF vars, scriptVars, attemptVars, endVars, historyVars, EvidenceInv,
       EvidenceTypes, JudgedAfresh, StallInv, WhyInv, InAttempt, Budget
  <2> QED BY <2>1, AttemptKeepsEvidence, OthersKeepEvidence DEF Next
<1> QED BY <1>1, EvidenceInit, RunInvariant, PTL DEF Spec

-----------------------------------------------------------------------------
(* The state of a run is of its type throughout, for every script; that    *)
(* there are at most MAX_STALLS stalls rests on what guard does with them. *)
THEOREM TypesRight == Spec => []TypeOK
<1>1. RunInv /\ EvidenceInv => TypeOK
  BY DEF RunInv, ScriptTypes, AttemptTypes, Nodes, EvidenceInv, EvidenceTypes, TypeOK
<1> QED BY <1>1, RunInvariant, EvidenceInvariant, PTL

(* What guard judges, the calls and the screens, is of this attempt: at    *)
(* its start there are none, and then at most those it has made and seen   *)
(* (graph.py, start_step, observe and guard), for every script and budget. *)
THEOREM JudgesAfresh == Spec => []JudgedAfresh
<1>1. EvidenceInv => JudgedAfresh
  BY DEF EvidenceInv
<1> QED BY <1>1, EvidenceInvariant, PTL

(* No attempt is given up as stuck before it has used as many actions as   *)
(* two whole stalls take (graph.py, guard), whatever is on the screen.     *)
THEOREM StuckOnEvidence == Spec => []StuckNeedsEvidence
<1>1. EvidenceInv => StuckNeedsEvidence
  BY DEF EvidenceInv, StuckNeedsEvidence, REPEAT_LIMIT
<1> QED BY <1>1, EvidenceInvariant, PTL

(* The reason given for a failed attempt is true (graph.py,                *)
(* attempt_failed), whatever the attempts before it did.                   *)
THEOREM ReasonsRight == Spec => []ReasonsTrue
<1>1. EvidenceInv => ReasonsTrue
  BY ToolsAssumption, NoneAssumption
     DEF EvidenceInv, WhyInv, ReasonsTrue, Reason, Reasons
<1> QED BY <1>1, EvidenceInvariant, PTL

-----------------------------------------------------------------------------
(* The results of the steps are those of the steps that passed, in order,  *)
(* and of the step that has failed, if any (graph.py, step_passed and      *)
(* attempt_failed), for every script.                                      *)
THEOREM ResultsRight == Spec => []ResultsMatchSteps
<1>1. RunInv => ResultsMatchSteps
  BY ScriptAssumption
     DEF RunInv, ScriptTypes, ProgressInv, ResultsInv, ResultsMatchSteps
<1> QED BY <1>1, RunInvariant, PTL

(* The model is never called with a conversation the API refuses           *)
(* (graph.py, observe), whatever tools it has called before.               *)
THEOREM DialogueRight == Spec => []DialogueWellFormed
<1>1. RunInv => DialogueWellFormed
  BY DEF RunInv, DialogueInv, DialogueWellFormed
<1> QED BY <1>1, RunInvariant, PTL

(* Whatever the model answers, no attempt executes more UI tool calls than *)
(* its budget allows (graph.py, route_agent).                              *)
THEOREM BudgetKept == Spec => ActsWithinBudget
<1>1. RunInv /\ [Next]_vars => [acts' > acts => acts' <= Budget]_vars
  <2> SUFFICES ASSUME RunInv, Next, acts' > acts PROVE acts' <= Budget
    OBVIOUS
  <2>1. acts \in Nat /\ used \in Nat /\ acts <= used
    BY DEF RunInv, AttemptTypes, BudgetInv
  <2>2. CASE act
    <3>1. node = "act" /\ acts' = acts + 1
      BY <2>2 DEF act, Visits
    <3>2. Budget \in Nat
      BY <3>1, ScriptAssumption DEF RunInv, ScriptTypes, ProgressInv, Budget
    <3> QED BY <2>1, <3>1, <3>2 DEF RunInv, BudgetInv
  <2>3. CASE start_step
    BY <2>1, <2>3 DEF start_step
  <2>4. CASE ~ act /\ ~ start_step
    <3>1. acts' = acts
      BY <2>4 DEF Next, historyVars, observe, guard, agent_refuses, agent_talks,
         agent_calls, verify_refused, verify_met, verify_rejected, step_passed,
         attempt_failed, finish, fail, Ends, Aborts, Crashes, RunsOutOfSteps
    <3> QED BY <2>1, <3>1
  <2> QED BY <2>2, <2>3, <2>4
<1> QED BY <1>1, RunInvariant, PTL DEF Spec, ActsWithinBudget

-----------------------------------------------------------------------------
(* The recursion limit.                                                    *)

(* A list of numbers has a largest one: of the prefixes without one there  *)
(* would be a shortest, and it is not empty nor of one number.             *)
LEMMA PrefixHasMax ==
  ASSUME NEW N \in Nat \ {0}, NEW f \in [1..N -> Nat]
  PROVE  \E i \in 1..N : \A j \in 1..N : f[j] <= f[i]
<1> DEFINE Has(n) == \E i \in 1..n : \A j \in 1..n : f[j] <= f[i]
           Without == {n \in 1..N : ~ Has(n)}
<1>1. ASSUME Without # {} PROVE FALSE
  <2>1. PICK n \in Without : \A m \in Without : ~ (<<m, n>> \in OpToRel(<, Nat))
    <3>1. Without \subseteq Nat
      OBVIOUS
    <3> HIDE DEF Without
    <3> QED BY <1>1, <3>1, NatLessThanWellFounded, WFMin
  <2>2. n \in 1..N /\ ~ Has(n)
    BY <2>1
  <2>3. \A m \in Without : ~ (m < n)
    <3> SUFFICES ASSUME NEW m \in Without, m < n PROVE FALSE
      OBVIOUS
    <3>1. m \in Nat /\ n \in Nat
      BY <2>2
    <3>2. <<m, n>> \in OpToRel(<, Nat)
      BY <3>1 DEF OpToRel
    <3> QED BY <2>1, <3>2
  <2>4. n # 1
    BY <2>2
  <2>5. n - 1 \in 1..N /\ n - 1 < n
    BY <2>2, <2>4
  <2>6. Has(n - 1)
    BY <2>3, <2>5
  <2>7. PICK i \in 1..(n - 1) : \A j \in 1..(n - 1) : f[j] <= f[i]
    BY <2>6
  <2>8. \A j \in 1..n : j = n \/ j \in 1..(n - 1)
    BY <2>2
  <2>9. f[n] \in Nat /\ f[i] \in Nat /\ \A j \in 1..n : f[j] \in Nat
    BY <2>2
  <2>10. CASE f[n] <= f[i]
    BY <2>2, <2>7, <2>8, <2>10
  <2>11. CASE ~ (f[n] <= f[i])
    <3>1. \A j \in 1..n : f[j] <= f[n]
      BY <2>7, <2>8, <2>9, <2>11
    <3> QED BY <2>2, <3>1
  <2> QED BY <2>10, <2>11
<1>2. N \in 1..N
  OBVIOUS
<1> QED BY <1>1, <1>2

MostActions == Max({MaxActions[i] : i \in 1..NumSteps})

(* MostActions is the largest of the budgets.                              *)
LEMMA MostActionsBounds ==
  /\ MostActions \in Nat
  /\ \A i \in 1..NumSteps : MaxActions[i] <= MostActions
<1> DEFINE S == {MaxActions[i] : i \in 1..NumSteps}
<1>1. MaxActions \in [1..NumSteps -> Nat]
  BY ScriptAssumption
<1>2. PICK i \in 1..NumSteps : \A j \in 1..NumSteps : MaxActions[j] <= MaxActions[i]
  BY <1>1, ScriptAssumption, PrefixHasMax
<1>3. \A x \in S : x \in Nat
  BY <1>1
<1>4. \E x \in S : \A y \in S : x >= y
  BY <1>1, <1>2
<1>5. MostActions \in S /\ \A y \in S : MostActions >= y
  BY <1>4 DEF MostActions, Max
<1> QED BY <1>3, <1>5

(* What one attempt of a step may visit, and what they may all visit.      *)
PerAttempt == MostActions * 4 + 12
AllAttempts == NumSteps * MaxAttempts

(* The attempts before this one; the other steps had MaxAttempts at most.  *)
Attempts == step * MaxAttempts + attempt - 1

(* Before this attempt at most so many nodes were visited.                 *)
Done == Attempts * PerAttempt
All == AllAttempts * PerAttempt

(* The nodes of a loop from observe back to it are four, and one round of  *)
(* it costs an action.                                                     *)
Place == CASE node = "start_step" -> 0
           [] node = "observe" -> 1
           [] node = "guard" -> 2
           [] node = "agent" -> 3
           [] node \in {"act", "verify"} -> 4
           [] OTHER -> 5

Running == {"start_step", "observe", "guard", "agent", "act", "verify",
            "step_passed", "attempt_failed"}

(* As long as the budgets are kept, an attempt has visited four nodes for  *)
(* each action it has used, and no attempt more than PerAttempt.           *)
VisitsInv ==
  /\ overspent \in BOOLEAN /\ visits \in Nat
  /\ outcome = "out_of_steps" => overspent
  /\ ~ overspent =>
       /\ used <= MostActions
       /\ node = "start_step" => visits <= Done
       /\ node \in Running \ {"start_step"} =>
            visits <= Done + 4 * used + Place
       /\ node \in {"finish", "fail"} => visits <= All

(* It is about products: what they are when a factor grows by one, and     *)
(* that they grow with it.                                                 *)
LEMMA NextMultiple ==
  ASSUME NEW m \in Nat, NEW k \in Nat
  PROVE  (m + 1) * k = m * k + k /\ m * k \in Nat
OBVIOUS

LEMMA ProductGrows ==
  ASSUME NEW m \in Nat, NEW n \in Nat, NEW k \in Nat, m <= n
  PROVE  m * k <= n * k
<1>1. n - m \in Nat /\ (n - m) * k \in Nat
  OBVIOUS
<1>2. n * k = m * k + (n - m) * k
  OBVIOUS
<1>3. m * k \in Nat /\ n * k \in Nat
  OBVIOUS
<1> QED BY <1>1, <1>2, <1>3

(* Where the counts are.                                                   *)
LEMMA AttemptsBounds ==
  ASSUME RunInv
  PROVE  /\ Attempts \in Nat /\ AllAttempts \in Nat /\ PerAttempt \in Nat
         /\ step < NumSteps => Attempts + 1 <= AllAttempts
         /\ step < NumSteps /\ attempt = MaxAttempts =>
              Attempts + 1 = (step + 1) * MaxAttempts
<1>1. /\ step \in Nat /\ NumSteps \in Nat /\ MaxAttempts \in Nat
      /\ attempt \in Nat /\ attempt >= 1 /\ attempt <= MaxAttempts
  BY ScriptAssumption DEF RunInv, ScriptTypes
<1>2. /\ step * MaxAttempts \in Nat /\ AllAttempts \in Nat
      /\ (step + 1) * MaxAttempts = step * MaxAttempts + MaxAttempts
  BY <1>1, NextMultiple DEF AllAttempts
<1>3. step < NumSteps => (step + 1) * MaxAttempts <= AllAttempts
  BY <1>1, ProductGrows, step + 1 \in Nat DEF AllAttempts
<1>4. PerAttempt \in Nat
  BY MostActionsBounds DEF PerAttempt
<1> DEFINE p == step * MaxAttempts
<1>5. p \in Nat /\ Attempts = p + attempt - 1 /\ (step + 1) * MaxAttempts = p + MaxAttempts
  BY <1>2 DEF Attempts
<1> HIDE DEF p
<1> QED BY <1>1, <1>2, <1>3, <1>4, <1>5

(* Before the end of a run the limit is not reached.                       *)
LEMMA BelowLimit ==
  ASSUME RunInv, VisitsInv, node # "end", ~ overspent
  PROVE  visits < RecursionLimit
<1>1. Attempts \in Nat /\ AllAttempts \in Nat /\ PerAttempt \in Nat
  BY AttemptsBounds
<1>2. RecursionLimit = All + 10
  BY DEF RecursionLimit, All, AllAttempts, PerAttempt, MostActions
<1>3. Done \in Nat /\ All \in Nat /\ visits \in Nat
  BY <1>1 DEF VisitsInv, Done, All
<1>4. CASE node \in Running
  <2>1. step < NumSteps
    BY <1>4 DEF RunInv, ProgressInv, Running
  <2>2. Done + PerAttempt <= All
    BY <1>1, <2>1, AttemptsBounds, ProductGrows, NextMultiple DEF Done, All
  <2>3. 4 * used + Place <= PerAttempt /\ used \in Nat /\ Place \in 0..5
    <3>1. used \in Nat /\ used <= MostActions /\ MostActions \in Nat
      BY MostActionsBounds DEF RunInv, AttemptTypes, VisitsInv
    <3>2. Place \in 0..5
      BY DEF Place
    <3> QED BY <3>1, <3>2 DEF PerAttempt
  <2>4. visits <= Done + 4 * used + Place \/ visits <= Done
    BY <1>4 DEF VisitsInv, Running
  <2> QED BY <1>1, <1>2, <1>3, <2>2, <2>3, <2>4
<1>5. CASE node \in {"finish", "fail"}
  BY <1>2, <1>3, <1>5 DEF VisitsInv
<1>6. node \in Running \cup {"finish", "fail"}
  BY DEF RunInv, ScriptTypes, Nodes, Running
<1> QED BY <1>4, <1>5, <1>6

(* The nodes of an attempt keep the invariant.                             *)
LEMMA AttemptKeepsVisits ==
  ASSUME RunInv, VisitsInv,
         start_step \/ observe \/ guard \/ agent_refuses \/ agent_talks
           \/ agent_calls \/ act \/ verify_refused \/ verify_met \/ verify_rejected
  PROVE  VisitsInv'
<1> USE DEF scriptVars, attemptVars, endVars, historyVars
<1>1. UNCHANGED <<step, attempt>>
  BY DEF start_step, observe, guard, agent_refuses, agent_talks, agent_calls, act,
     verify_refused, verify_met, verify_rejected
<1>2. Done' = Done /\ Done \in Nat /\ MostActions' = MostActions /\ MostActions \in Nat
  BY <1>1, AttemptsBounds, MostActionsBounds DEF Done, Attempts, PerAttempt, MostActions
<1>3. outcome' # "out_of_steps" /\ node \in Running /\ node' \in Running
  <2>1. (completed = step /\ step \in Nat /\ outcome = "none") \/ node \in {"step_passed", "end"}
    BY DEF RunInv, ReviewInv, ProgressInv, ScriptTypes
  <2>2. /\ outcome' = outcome /\ node \in Running \ {"step_passed", "attempt_failed"}
    BY DEF start_step, observe, guard, agent_refuses, agent_talks, agent_calls, act,
       verify_refused, verify_met, verify_rejected, Visits, Running
  <2>3. node' \in Running
    BY ToolsAssumption DEF start_step, observe, guard, agent_refuses, agent_talks,
       agent_calls, route_agent, act, verify_refused, verify_met, verify_rejected, Running
  <2> QED BY <2>1, <2>2, <2>3 DEF Running
<1>4. Budget \in Nat /\ Budget <= MostActions
  <2>1. step + 1 \in 1..NumSteps
    BY <1>3, ScriptAssumption DEF RunInv, ScriptTypes, ProgressInv, Running
  <2> QED BY <2>1, ScriptAssumption, MostActionsBounds DEF Budget
<1>5. used \in Nat /\ visits \in Nat /\ overspent \in BOOLEAN
  BY DEF RunInv, AttemptTypes, VisitsInv
<1>15. Spend => /\ used' = used + 1 /\ overspent' \in BOOLEAN
                /\ ~ overspent' => ~ overspent /\ used + 1 <= MostActions
  <2>1. Spend => overspent' \in BOOLEAN /\ (~ overspent' => ~ overspent /\ ~ (used + 1 > Budget))
    BY DEF Spend
  <2> QED BY <1>4, <1>5, <2>1, <1>2 DEF Spend
<1> USE <1>2, <1>3, <1>5 DEF VisitsInv, Place, Running, Visits
<1>6. CASE start_step
  BY <1>6 DEF start_step
<1>7. CASE observe
  BY <1>7 DEF observe
<1>8. CASE guard
  BY <1>8 DEF guard
<1>9. CASE agent_refuses \/ verify_refused
  BY <1>9 DEF agent_refuses, verify_refused
<1>10. CASE agent_talks
  BY <1>15, <1>10 DEF agent_talks
<1>11. CASE agent_calls
  <2>1. node' \in {"verify", "attempt_failed", "act"}
    BY <1>11, ToolsAssumption DEF agent_calls, route_agent
  <2> QED BY <1>11, <2>1 DEF agent_calls
<1>12. CASE act
  BY <1>15, <1>12 DEF act
<1>13. CASE verify_met
  <2>1. node' = "step_passed"
    BY <1>13 DEF verify_met, RunInv, ReviewInv, ScriptTypes
  <2> QED BY <1>13, <2>1 DEF verify_met
<1>14. CASE verify_rejected
  <2>1. node' = "observe"
    BY <1>14 DEF verify_rejected, RunInv, ReviewInv, ScriptTypes
  <2> QED BY <1>15, <1>14, <2>1 DEF verify_rejected
<1> QED BY <1>6, <1>7, <1>8, <1>9, <1>10, <1>11, <1>12, <1>13, <1>14

(* The end of an attempt keeps it: the next one begins a count of its own. *)
LEMMA AttemptsKeepVisits ==
  ASSUME RunInv, VisitsInv, step_passed \/ attempt_failed
  PROVE  VisitsInv'
<1> USE DEF attemptVars, endVars, historyVars
<1>1. /\ step < NumSteps /\ step \in Nat /\ outcome = "none"
      /\ attempt \in Nat /\ attempt >= 1 /\ attempt <= MaxAttempts /\ MaxAttempts \in Nat
  BY ScriptAssumption
     DEF RunInv, ScriptTypes, ProgressInv, step_passed, attempt_failed, Visits
<1>2. /\ visits' = visits + 1 /\ visits \in Nat
      /\ UNCHANGED <<used, overspent, outcome>> /\ overspent \in BOOLEAN
      /\ node' \in {"start_step", "finish", "fail"}
  BY DEF step_passed, attempt_failed, Visits, VisitsInv
<1>3. Done' = Done \/ Attempts' # Attempts
  BY DEF Done, PerAttempt, MostActions
<1>4. ~ overspent => visits' <= Done + PerAttempt
  <2>1. used \in Nat /\ (~ overspent => used <= MostActions) /\ MostActions \in Nat
    BY MostActionsBounds DEF RunInv, AttemptTypes, VisitsInv
  <2>2. Place = 5 /\ node \in Running \ {"start_step"}
    BY DEF step_passed, attempt_failed, Visits, Place, Running
  <2>3. Done \in Nat
    BY AttemptsBounds DEF Done
  <2> QED BY <1>2, <2>1, <2>2, <2>3 DEF VisitsInv, PerAttempt
<1>5. Attempts \in Nat /\ PerAttempt \in Nat /\ Done + PerAttempt = (Attempts + 1) * PerAttempt
  BY AttemptsBounds, NextMultiple DEF Done
<1>6. PerAttempt' = PerAttempt /\ All' = All /\ MostActions' = MostActions
  BY DEF PerAttempt, MostActions, All, AllAttempts
<1>7. node' = "start_step" => Attempts + 1 <= Attempts' /\ Attempts' \in Nat
  <2>1. CASE step_passed
    <3>1. step' = step + 1 /\ attempt' = 1
      BY <2>1 DEF step_passed
    <3>2. step' * MaxAttempts = step * MaxAttempts + MaxAttempts /\ step * MaxAttempts \in Nat
      BY <1>1, <3>1, NextMultiple
    <3> QED BY <1>1, <3>1, <3>2 DEF Attempts
  <2>2. CASE attempt_failed
    <3>1. node' = "start_step" => attempt' = attempt + 1 /\ step' = step
      BY <2>2, NoneAssumption DEF attempt_failed, Reason, Reasons
    <3>2. node' = "start_step" => Attempts' = Attempts + 1
      BY <1>1, <3>1, <1>5 DEF Attempts
    <3> QED BY <1>5, <3>2
  <2> QED BY <2>1, <2>2
<1>8. (Attempts + 1) * PerAttempt <= All
  BY <1>1, <1>5, AttemptsBounds, ProductGrows DEF All
<1>9. node' = "start_step" => Done + PerAttempt <= Done'
  BY <1>5, <1>6, <1>7, ProductGrows DEF Done
<1>10. Done \in Nat /\ All \in Nat /\ Done + PerAttempt <= All
  BY <1>5, <1>8, AttemptsBounds DEF Done, All
<1>11. node' = "start_step" => Done' \in Nat
  BY <1>5, <1>6, <1>7, NextMultiple DEF Done
<1> QED BY <1>1, <1>2, <1>4, <1>5, <1>6, <1>9, <1>10, <1>11 DEF VisitsInv, Running

(* So does the end of the run: only one that has overspent hits the limit. *)
LEMMA EndingKeepsVisits ==
  ASSUME RunInv, VisitsInv, finish \/ fail \/ Aborts \/ Crashes \/ RunsOutOfSteps
  PROVE  VisitsInv'
<1>1. /\ node' = "end" /\ node # "end" /\ UNCHANGED <<used, overspent>>
      /\ visits \in Nat /\ visits' \in {visits, visits + 1}
      /\ outcome' = "out_of_steps" => visits >= RecursionLimit
      /\ MostActions' = MostActions
  BY DEF finish, fail, Ends, Visits, Aborts, Crashes, RunsOutOfSteps, TakesScreenshot,
     scriptVars, attemptVars, historyVars, VisitsInv, MostActions
<1>2. outcome' = "out_of_steps" => overspent
  <2> SUFFICES ASSUME visits >= RecursionLimit, ~ overspent PROVE FALSE
    BY <1>1
  <2>1. visits < RecursionLimit
    BY <1>1, BelowLimit
  <2>2. RecursionLimit \in Nat
    BY AttemptsBounds DEF RecursionLimit, AllAttempts, PerAttempt, MostActions
  <2> QED BY <1>1, <2>1, <2>2
<1> QED BY <1>1, <1>2 DEF VisitsInv, Running

(* Together with RunInv it is inductive.                                   *)
LEMMA VisitsInvariant == Spec => []VisitsInv
<1>1. Init => VisitsInv
  <2> SUFFICES ASSUME Init PROVE VisitsInv
    OBVIOUS
  <2>1. RunInv /\ Attempts = 0
    BY RunInvInit, ScriptAssumption DEF Init, Attempts
  <2>2. Done = 0
    BY <2>1, AttemptsBounds DEF Done
  <2>3. MostActions \in Nat /\ 0 <= MostActions
    BY MostActionsBounds
  <2>4. /\ node = "start_step" /\ visits = 0 /\ used = 0 /\ overspent = FALSE
        /\ outcome = "none"
    BY DEF Init
  <2>5. overspent \in BOOLEAN
    BY <2>4
  <2>6. used <= MostActions /\ visits \in Nat /\ visits <= Done
    BY <2>2, <2>3, <2>4
  <2> QED BY <2>4, <2>5, <2>6 DEF VisitsInv, Running
<1>2. RunInv /\ VisitsInv /\ [Next]_vars => VisitsInv'
  <2> SUFFICES ASSUME RunInv, VisitsInv, [Next]_vars PROVE VisitsInv'
    OBVIOUS
  <2>1. CASE UNCHANGED vars
    BY <2>1 DEF vars, scriptVars, attemptVars, endVars, historyVars, VisitsInv, Place,
       Running, Done, Attempts, PerAttempt, MostActions, All, AllAttempts
  <2> QED BY <2>1, AttemptKeepsVisits, AttemptsKeepVisits, EndingKeepsVisits DEF Next
<1> QED BY <1>1, <1>2, RunInvariant, PTL DEF Spec

(* The recursion limit (graph.py, _recursion_limit) never stops a run that *)
(* keeps to its budgets, for every script, every table of budgets and      *)
(* every number of attempts.                                               *)
THEOREM LimitSpares == Spec => []LimitSparesBudgetedRuns
<1>1. VisitsInv => LimitSparesBudgetedRuns
  BY DEF VisitsInv, LimitSparesBudgetedRuns
<1> QED BY <1>1, VisitsInvariant, PTL
-----------------------------------------------------------------------------
(* What bounds a run that does overspend.                                  *)

(* Where in its round of observe, guard, agent and one more node it is.    *)
InRound == CASE node = "observe" -> 1
             [] node = "guard" -> 2
             [] node = "agent" -> 3
             [] node \in {"act", "verify"} -> 4
             [] OTHER -> 0

(* Each action of the attempt has cost three visits, and the limit is one  *)
(* on all visits.                                                          *)
RoundsInv ==
  /\ visits <= RecursionLimit
  /\ 3 * used + InRound <= visits

(* The limit is a number, the same throughout.                             *)
LEMMA LimitIsFixed ==
  ASSUME RunInv
  PROVE  RecursionLimit \in Nat /\ RecursionLimit' = RecursionLimit
BY AttemptsBounds DEF RecursionLimit, AllAttempts, PerAttempt, MostActions

(* Together with RunInv, the bound is inductive.                           *)
LEMMA RoundsInvariant == Spec => []RoundsInv
<1>1. Init => RoundsInv
  <2> SUFFICES ASSUME Init PROVE RoundsInv
    OBVIOUS
  <2>1. RecursionLimit \in Nat
    BY RunInvInit, LimitIsFixed
  <2> QED BY <2>1 DEF Init, RoundsInv, InRound
<1>2. RunInv /\ VisitsInv /\ RoundsInv /\ [Next]_vars => RoundsInv'
  <2> SUFFICES ASSUME RunInv, VisitsInv, RoundsInv, [Next]_vars PROVE RoundsInv'
    OBVIOUS
  <2>1. /\ used \in Nat /\ visits \in Nat
        /\ RecursionLimit \in Nat /\ RecursionLimit' = RecursionLimit
    BY LimitIsFixed DEF RunInv, AttemptTypes, VisitsInv
  <2> USE <2>1 DEF RoundsInv, InRound, Visits, scriptVars, attemptVars, endVars, historyVars
  <2>2. CASE UNCHANGED vars
    BY <2>2 DEF vars
  <2>3. CASE start_step
    BY <2>3 DEF start_step
  <2>4. CASE observe
    BY <2>4 DEF observe
  <2>5. CASE guard
    BY <2>5 DEF guard
  <2>6. CASE agent_refuses \/ verify_refused
    BY <2>6 DEF agent_refuses, verify_refused
  <2>7. CASE agent_talks \/ act
    BY <2>7 DEF agent_talks, act, Spend
  <2>8. CASE agent_calls
    <3>1. node' \in {"verify", "attempt_failed", "act"}
      BY <2>8, ToolsAssumption DEF agent_calls, route_agent
    <3> QED BY <2>8, <3>1 DEF agent_calls
  <2>9. CASE verify_met
    BY <2>9 DEF verify_met
  <2>10. CASE verify_rejected
    BY <2>10 DEF verify_rejected, Spend
  <2>11. CASE step_passed
    BY <2>11 DEF step_passed
  <2>12. CASE attempt_failed
    BY <2>12 DEF attempt_failed
  <2>13. CASE finish \/ fail
    BY <2>13 DEF finish, fail, Ends
  <2>14. CASE Aborts \/ Crashes \/ RunsOutOfSteps
    BY <2>14 DEF Aborts, Crashes, RunsOutOfSteps
  <2> QED BY <2>2, <2>3, <2>4, <2>5, <2>6, <2>7, <2>8, <2>9, <2>10, <2>11, <2>12,
             <2>13, <2>14 DEF Next
<1> QED BY <1>1, <1>2, RunInvariant, VisitsInvariant, PTL DEF Spec

(* Nudges and rejected claims may take an attempt beyond its budget (see   *)
(* BudgetIsHard), but not for ever: what an attempt uses is at most a      *)
(* third of the recursion limit (graph.py, _recursion_limit).              *)
OverspendingEnds == 3 * used <= RecursionLimit

THEOREM OverspendingBounded == Spec => []OverspendingEnds
<1>1. RunInv /\ VisitsInv /\ RoundsInv => OverspendingEnds
  <2> SUFFICES ASSUME RunInv, VisitsInv, RoundsInv PROVE OverspendingEnds
    OBVIOUS
  <2>1. used \in Nat /\ visits \in Nat /\ RecursionLimit \in Nat /\ InRound \in 0..4
    BY LimitIsFixed DEF RunInv, AttemptTypes, VisitsInv, InRound
  <2> QED BY <2>1 DEF RoundsInv, OverspendingEnds
<1> QED BY <1>1, RunInvariant, VisitsInvariant, RoundsInvariant, PTL

-----------------------------------------------------------------------------
(* The steps before this one were accepted by the reviewer.                *)
EarlierAccepted == \A i \in 0..step - 1 : i \in accepted

LEMMA EarlierAcceptedInvariant == Spec => []EarlierAccepted
<1>1. Init => EarlierAccepted
  BY DEF Init, EarlierAccepted
<1>2. RunInv /\ EarlierAccepted /\ [Next]_vars => EarlierAccepted'
  <2> SUFFICES ASSUME RunInv, EarlierAccepted, [Next]_vars PROVE EarlierAccepted'
    OBVIOUS
  <2>1. CASE step_passed
    <3>1. step \in accepted /\ accepted' = accepted /\ step' = step + 1 /\ step \in Nat
      BY <2>1 DEF step_passed, Visits, historyVars, RunInv, ReviewInv, ScriptTypes
    <3>2. \A i \in 0..step' - 1 : i = step \/ i \in 0..step - 1
      BY <3>1
    <3> QED BY <3>1, <3>2 DEF EarlierAccepted
  <2>2. CASE ~ step_passed
    <3>1. step' = step /\ accepted \subseteq accepted'
      BY <2>2 DEF Next, vars, scriptVars, historyVars, start_step, observe, guard,
         agent_refuses, agent_talks, agent_calls, act, verify_refused, verify_met,
         verify_rejected, attempt_failed, finish, fail, Ends, Aborts, Crashes,
         RunsOutOfSteps
    <3> QED BY <3>1 DEF EarlierAccepted
  <2> QED BY <2>1, <2>2
<1> QED BY <1>1, <1>2, RunInvariant, PTL DEF Spec

(* A run whose summary says "passed" has had a claim of every one of its   *)
(* steps accepted by the reviewer (graph.py, verify and finish).           *)
PassedMeansReviewed == status = "passed" => accepted = 0..NumSteps - 1

THEOREM PassedWasReviewed == Spec => []PassedMeansReviewed
<1>1. RunInv /\ EarlierAccepted => PassedMeansReviewed
  <2> SUFFICES ASSUME RunInv, EarlierAccepted, status = "passed"
               PROVE  accepted = 0..NumSteps - 1
    BY DEF PassedMeansReviewed
  <2>1. step = NumSteps /\ accepted \subseteq 0..NumSteps - 1
    BY DEF RunInv, ProgressInv, ScriptTypes
  <2> QED BY <2>1 DEF EarlierAccepted
<1> QED BY <1>1, RunInvariant, EarlierAcceptedInvariant, PTL

-----------------------------------------------------------------------------
(* The runner implements ScriptRun.                                        *)

Result == IF outcome \in {"aborted", "crashed", "out_of_steps"} THEN "stopped"
          ELSE IF status = "running" THEN "none" ELSE status

(* Steps inside an attempt change nothing ScriptRun sees.                  *)
LEMMA AttemptStutters ==
  ASSUME RunInv,
         start_step \/ observe \/ guard \/ agent_refuses \/ agent_talks
           \/ agent_calls \/ act \/ verify_refused \/ verify_rejected
  PROVE  UNCHANGED Promise!vars
<1>1. UNCHANGED <<step, attempt, status, outcome, accepted>>
  BY DEF scriptVars, endVars, historyVars, start_step, observe, guard, agent_refuses,
     agent_talks, agent_calls, act, verify_refused, verify_rejected
<1> QED BY <1>1 DEF Promise!vars

(* A run that is not over is not over for ScriptRun either.                *)
LEMMA NotOver ==
  ASSUME RunInv, node # "end"
  PROVE  Result = "none" /\ status = "running" /\ outcome = "none"
<1> QED BY DEF RunInv, ProgressInv, Result

(* The reviewer's verdict and the end of a step are Accept and Pass.       *)
LEMMA PassingImplements ==
  ASSUME RunInv, verify_met \/ step_passed
  PROVE  Promise!Next
<1> USE ScriptAssumption
<1>1. step \in Nat /\ step < NumSteps
  BY DEF RunInv, ScriptTypes, ProgressInv, verify_met, step_passed, Visits
<1>2. node # "end" /\ UNCHANGED <<status, outcome>>
  BY DEF verify_met, step_passed, Visits, endVars
<1>3. Result = "none" /\ Result' = "none"
  BY <1>2, NotOver DEF Result
<1>4. CASE verify_met
  <2>1. step \notin accepted /\ accepted' = accepted \cup {step}
        /\ UNCHANGED <<step, attempt>>
    BY <1>4 DEF RunInv, ReviewInv, verify_met, Visits
  <2>2. Promise!Accept
    BY <1>1, <1>3, <2>1 DEF Promise!Accept, Promise!Working, Result
  <2> QED BY <2>2 DEF Promise!Next
<1>5. CASE step_passed
  <2>1. step \in accepted /\ accepted' = accepted /\ step' = step + 1 /\ attempt' = 1
    BY <1>5 DEF RunInv, ReviewInv, step_passed, Visits, historyVars
  <2>2. step' \notin accepted'
    BY <1>1, <2>1 DEF RunInv, ReviewInv, ScriptTypes
  <2>3. Promise!Pass
    BY <1>1, <1>3, <2>1, <2>2 DEF Promise!Pass, Promise!Working, Result
  <2> QED BY <2>3 DEF Promise!Next
<1> QED BY <1>4, <1>5

(* A failed attempt is a Retry, or what it decides is not yet visible.     *)
LEMMA FailingImplements ==
  ASSUME RunInv, attempt_failed
  PROVE  [Promise!Next]_Promise!vars
<1> USE ScriptAssumption
<1>1. /\ step < NumSteps /\ step \notin accepted
      /\ UNCHANGED <<step, accepted, status, outcome>> /\ node # "end"
  BY DEF RunInv, ProgressInv, ReviewInv, attempt_failed, Visits, endVars, historyVars
<1>2. Result = "none" /\ Result' = "none"
  BY <1>1, NotOver DEF Result
<1>3. CASE attempt < MaxAttempts
  <2>1. attempt' = attempt + 1
    BY <1>3 DEF attempt_failed
  <2>2. Promise!Retry
    BY <1>1, <1>2, <1>3, <2>1 DEF Promise!Retry, Promise!Working, Result
  <2> QED BY <2>2 DEF Promise!Next
<1>4. CASE ~ (attempt < MaxAttempts)
  <2>1. attempt' = attempt
    BY <1>4 DEF attempt_failed
  <2> QED BY <1>1, <2>1 DEF Promise!vars
<1> QED BY <1>3, <1>4

(* The end of a run is Succeed, Fail or Stop.                              *)
LEMMA EndingImplements ==
  ASSUME RunInv, finish \/ fail \/ Aborts \/ Crashes \/ RunsOutOfSteps
  PROVE  Promise!Next
<1> USE ScriptAssumption
<1>1. node # "end" /\ UNCHANGED <<step, attempt, accepted>>
  BY DEF finish, fail, Ends, Visits, Aborts, Crashes, RunsOutOfSteps, TakesScreenshot,
     scriptVars, historyVars
<1>2. Result = "none" /\ status = "running"
  BY <1>1, NotOver
<1>3. CASE finish
  <2>1. step = NumSteps /\ Result' = "passed"
    BY <1>3 DEF RunInv, ProgressInv, finish, Ends, Visits, Result
  <2>2. Promise!Succeed
    BY <1>1, <1>2, <2>1 DEF Promise!Succeed, Result
  <2> QED BY <2>2 DEF Promise!Next
<1>4. CASE fail
  <2>1. /\ step < NumSteps /\ attempt = MaxAttempts /\ step \notin accepted
        /\ Result' = "failed"
    BY <1>4 DEF RunInv, ProgressInv, ReviewInv, fail, Ends, Visits, Result
  <2>2. Promise!Fail
    BY <1>1, <1>2, <2>1 DEF Promise!Fail, Promise!Working, Result
  <2> QED BY <2>2 DEF Promise!Next
<1>5. CASE Aborts \/ Crashes \/ RunsOutOfSteps
  <2>1. Result' = "stopped"
    BY <1>5 DEF Aborts, Crashes, RunsOutOfSteps, Result
  <2>2. Promise!Stop
    BY <1>1, <1>2, <2>1 DEF Promise!Stop, Result
  <2> QED BY <2>2 DEF Promise!Next
<1> QED BY <1>3, <1>4, <1>5

(* The runner keeps the promise of ScriptRun, for every script: only the   *)
(* reviewer passes a step, the steps pass in order, each has at most       *)
(* MaxAttempts attempts, and a run passes only with all of its steps       *)
(* (graph.py, the whole graph).                                            *)
THEOREM KeepsScriptPromise == Spec => ImplementsScriptRun
<1>1. Init => Promise!Init
  BY DEF Init, Promise!Init
<1>2. RunInv /\ [Next]_vars => [Promise!Next]_Promise!vars
  <2> SUFFICES ASSUME RunInv, [Next]_vars PROVE [Promise!Next]_Promise!vars
    OBVIOUS
  <2>1. CASE UNCHANGED vars
    BY <2>1 DEF vars, scriptVars, endVars, historyVars, Promise!vars
  <2> QED BY <2>1, AttemptStutters, PassingImplements, FailingImplements,
             EndingImplements DEF Next
<1> QED BY <1>1, <1>2, RunInvariant, PTL DEF Spec, ImplementsScriptRun, Promise!Spec
=============================================================================
