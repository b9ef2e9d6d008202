----------------------------- MODULE Automation -----------------------------
(***************************************************************************)
(* The automation runner: the LangGraph state machine that takes a model   *)
(* through a script of goal steps (journeydrive_automation/graph.py) and   *)
(* the summary that run_automation writes.                                 *)
(*                                                                         *)
(* One action is one visit of a node, with the edge taken from it.  The    *)
(* model, the reviewer and the machine answer as they like.  A tool call   *)
(* is its signature, a screenshot its coarse fingerprint; of the calls and *)
(* screenshots of an attempt the last few are kept, those guard looks at.  *)
(*                                                                         *)
(* A definition named X_Y is not part of the specification: it is X with a *)
(* bug Y, which the properties must tell from X.                           *)
(***************************************************************************)
EXTENDS Integers, Sequences, FiniteSets, FiniteSetsExt

CONSTANTS
  NumSteps,     \* len(script.steps)
  MaxActions,   \* MaxActions[i]: script.max_actions_for of step i
  MaxAttempts,  \* script.max_attempts_per_step
  Tools,        \* the signatures of the UI tool calls the model may make
  Scrolls,      \* those of scroll
  Previews,     \* those of preview_click, whose result shows the screen
  Screens,      \* the fingerprints of the screen
  None

ASSUME ScriptAssumption ==
  /\ NumSteps \in Nat \ {0}
  /\ MaxActions \in [1..NumSteps -> Nat \ {0}]
  /\ MaxAttempts \in Nat \ {0}
ASSUME ToolsAssumption ==
  /\ Scrolls \subseteq Tools
  /\ Previews \subseteq Tools
  /\ None \notin Tools \cup {"step_complete", "step_failed"}
  /\ {"step_complete", "step_failed"} \cap Tools = {}

Reasons == {"stuck", "declined", "gave_up", "no_actions_left"}
Messages == {"briefing", "nudge", "result", "shown"}
ASSUME NoneAssumption == None \notin Reasons \cup Messages

REPEAT_LIMIT == 3
MAX_STALLS == 2

VARIABLES
  \* RunState
  step,         \* step_index, from 0
  attempt,
  completed,    \* len(completed)
  results,      \* step_results
  status,
  used,         \* actions_used
  stalls,
  pending,      \* the next user message: a briefing, a nudge, a tool's
                \* "result", or a result whose image has been "shown" already
  call,         \* last_call
  recent,       \* recent_calls, the last REPEAT_LIMIT of them
  screens,      \* screen_sigs, the last REPEAT_LIMIT + 1 of them
  failure,
  \* the conversation: "empty", "ready" (it ends with a user message and every
  \* tool call has its result), "called", "said", or "broken"
  dialogue,
  \* the graph and run_automation
  node,         \* the node visited next
  visits,       \* node visits so far, which recursion_limit bounds
  outcome,      \* how run_automation ended
  summary,      \* the step results in summary.json, None if it was not written
  \* history
  accepted,     \* the steps whose success check the reviewer found met
  acts,         \* UI tool calls executed in this attempt
  overspent     \* some attempt has used more actions than its budget

attemptVars == <<used, stalls, pending, call, recent, screens, failure, dialogue>>
scriptVars  == <<step, attempt, completed, results, status>>
endVars     == <<outcome, summary>>
historyVars == <<accepted, acts, overspent>>
vars == <<scriptVars, attemptVars, node, visits, endVars, historyVars>>

StepResult(state, attempts, reason) ==
  [state |-> state, attempts |-> attempts, reason |-> reason]

TypeOK ==
  /\ step \in 0..NumSteps
  /\ attempt \in 1..MaxAttempts
  /\ completed \in Nat
  /\ results \in Seq([state : {"passed", "failed"}, attempts : 1..MaxAttempts,
                      reason : Reasons \cup {None}])
  /\ status \in {"running", "passed", "failed"}
  /\ used \in Nat
  /\ stalls \in 0..MAX_STALLS
  /\ pending \in Messages \cup {None}
  /\ call \in Tools \cup {"step_complete", "step_failed", None}
  /\ recent \in Seq(Tools)
  /\ screens \in Seq(Screens)
  /\ failure \in Reasons \cup {None}
  /\ dialogue \in {"empty", "ready", "called", "said", "broken"}
  /\ node \in {"start_step", "observe", "guard", "agent", "act", "verify",
               "step_passed", "attempt_failed", "finish", "fail", "end"}
  /\ visits \in Nat
  /\ outcome \in {"none", "done", "aborted", "crashed", "out_of_steps"}
  /\ accepted \in SUBSET (0..NumSteps - 1)
  /\ acts \in Nat
  /\ overspent \in BOOLEAN

Init ==
  /\ step = 0
  /\ attempt = 1
  /\ completed = 0
  /\ results = << >>
  /\ status = "running"
  /\ used = 0
  /\ stalls = 0
  /\ pending = None
  /\ call = None
  /\ recent = << >>
  /\ screens = << >>
  /\ failure = None
  /\ dialogue = "empty"
  /\ node = "start_step"
  /\ visits = 0
  /\ outcome = "none"
  /\ summary = None
  /\ accepted = {}
  /\ acts = 0
  /\ overspent = FALSE

-----------------------------------------------------------------------------
Budget == MaxActions[step + 1]

(* _recursion_limit.                                                       *)
RecursionLimit_NoGuard ==
  NumSteps * MaxAttempts * (Max({MaxActions[i] : i \in 1..NumSteps}) * 3) + 10

RecursionLimit ==
  NumSteps * MaxAttempts * (Max({MaxActions[i] : i \in 1..NumSteps}) * 4 + 12) + 10

(* The last n of s and x, s having no more than n.                         *)
Recorded(s, x, n) ==
  IF Len(s) < n THEN Append(s, x) ELSE Append(Tail(s), x)

AllSame(s) == \A i \in DOMAIN s : s[i] = s[1]

(* One more node is visited, if the recursion limit allows.                *)
Visits(n) ==
  /\ node = n
  /\ visits < RecursionLimit
  /\ visits' = visits + 1

(* A node costs an action.                                                 *)
Spend ==
  /\ used' = used + 1
  /\ overspent' = (overspent \/ used + 1 > Budget)

-----------------------------------------------------------------------------
(* The nodes.                                                              *)

start_step_KeepsScreens ==
  /\ Visits("start_step")
  /\ node' = "observe"
  /\ used' = 0 /\ stalls' = 0
  /\ pending' = "briefing"
  /\ call' = None
  /\ recent' = << >>
  /\ failure' = None
  /\ dialogue' = "empty"
  /\ acts' = 0
  /\ UNCHANGED <<scriptVars, endVars, accepted, overspent, screens>>

(* A fresh context for each attempt.                                       *)
start_step ==
  /\ Visits("start_step")
  /\ node' = "observe"
  /\ used' = 0 /\ stalls' = 0
  /\ pending' = "briefing"
  /\ call' = None
  /\ recent' = << >> /\ screens' = << >>
  /\ failure' = None
  /\ dialogue' = "empty"
  /\ acts' = 0
  /\ UNCHANGED <<scriptVars, endVars, accepted, overspent>>

(* The pending message is added: a tool result must follow the call it is  *)
(* for, a briefing starts the conversation, a nudge follows plain text.    *)
Follows == CASE pending = "briefing" -> dialogue = "empty"
             [] pending = "nudge" -> dialogue = "said"
             [] OTHER -> dialogue = "called"

(* A screenshot is taken unless the result has already shown the screen.   *)
observe ==
  /\ Visits("observe")
  /\ node' = "guard"
  /\ IF pending = "shown"
     THEN screens' = screens
     ELSE \E s \in Screens : screens' = Recorded(screens, s, REPEAT_LIMIT + 1)
  /\ dialogue' = IF Follows THEN "ready" ELSE "broken"
  /\ pending' = None
  /\ UNCHANGED <<scriptVars, used, stalls, call, recent, failure, endVars,
                 historyVars>>

Repeated == /\ Len(recent) >= REPEAT_LIMIT
            /\ AllSame(recent)
            /\ recent[Len(recent)] \notin Scrolls
Frozen == Len(screens) > REPEAT_LIMIT /\ AllSame(screens)

StuckAfter_OneMore(n) == n > MAX_STALLS

StuckAfter(n) == n >= MAX_STALLS

(* What led to a stall does not count towards the next.                    *)
Forgets_Nothing == UNCHANGED <<recent, screens>>

Forgets == recent' = << >> /\ screens' = << >>

(* The first stall is only noted, the second fails the attempt.  (The note *)
(* on the budget is text; it decides nothing.)                             *)
guard ==
  /\ Visits("guard")
  /\ IF Repeated \/ Frozen
     THEN /\ stalls' = stalls + 1
          /\ IF StuckAfter(stalls + 1)
             THEN failure' = "stuck" /\ UNCHANGED <<recent, screens>>
             ELSE Forgets /\ UNCHANGED failure
     ELSE UNCHANGED <<stalls, failure, recent, screens>>
  /\ node' = IF failure' # None THEN "attempt_failed" ELSE "agent"
  /\ UNCHANGED <<scriptVars, used, pending, call, dialogue, endVars, historyVars>>

(* LLMRefusal.                                                             *)
agent_refuses ==
  /\ Visits("agent")
  /\ failure' = "declined"
  /\ call' = None
  /\ node' = "attempt_failed"
  /\ UNCHANGED <<scriptVars, used, stalls, pending, recent, screens, dialogue,
                 endVars, historyVars>>

(* A reply without a tool call: it costs an action.                        *)
agent_talks ==
  /\ Visits("agent")
  /\ Spend
  /\ call' = None
  /\ pending' = "nudge"
  /\ dialogue' = "said"
  /\ node' = "observe"
  /\ UNCHANGED <<scriptVars, stalls, recent, screens, failure, endVars, accepted,
                 acts>>

(* route_agent, for a reply with a call of tool t.                         *)
route_agent_OneMore(t) ==
  CASE t = "step_complete" -> "verify"
    [] t = "step_failed" -> "attempt_failed"
    [] t \in Tools -> IF used > Budget THEN "attempt_failed" ELSE "act"

route_agent(t) ==
  CASE t = "step_complete" -> "verify"
    [] t = "step_failed" -> "attempt_failed"
    [] t \in Tools -> IF used >= Budget THEN "attempt_failed" ELSE "act"

agent_calls ==
  /\ Visits("agent")
  /\ \E t \in Tools \cup {"step_complete", "step_failed"} :
       /\ call' = t
       /\ node' = route_agent(t)
  /\ dialogue' = "called"
  /\ UNCHANGED <<scriptVars, used, stalls, pending, recent, screens, failure,
                 endVars, historyVars>>

(* The tool is executed; its errors are a result like any other, and only  *)
(* a preview that succeeds shows the screen.                               *)
act ==
  /\ Visits("act")
  /\ Spend
  /\ acts' = acts + 1
  /\ recent' = Recorded(recent, call, REPEAT_LIMIT)
  /\ \/ pending' = "result"
     \/ call \in Previews /\ pending' = "shown"
  /\ node' = "observe"
  /\ UNCHANGED <<scriptVars, stalls, call, screens, failure, dialogue, endVars,
                 accepted>>

(* The reviewer declines, accepts or rejects the claim.                    *)
verify_refused ==
  /\ Visits("verify")
  /\ failure' = "declined"
  /\ node' = "attempt_failed"
  /\ UNCHANGED <<scriptVars, used, stalls, pending, call, recent, screens,
                 dialogue, endVars, historyVars>>

verify_met ==
  /\ Visits("verify")
  /\ completed' = completed + 1
  /\ accepted' = accepted \cup {step}
  /\ node' = IF completed' > step THEN "step_passed" ELSE "observe"
  /\ UNCHANGED <<step, attempt, results, status, attemptVars, endVars, acts,
                 overspent>>

(* A rejection costs an action; its evidence comes with the screenshot.    *)
verify_rejected_Passes ==
  /\ Visits("verify")
  /\ Spend
  /\ pending' = "shown"
  /\ node' = IF completed >= step THEN "step_passed" ELSE "observe"
  /\ UNCHANGED <<scriptVars, stalls, call, recent, screens, failure, dialogue,
                 endVars, accepted, acts>>

verify_rejected_Nudges ==
  /\ Visits("verify")
  /\ Spend
  /\ pending' = "nudge"
  /\ node' = IF completed > step THEN "step_passed" ELSE "observe"
  /\ UNCHANGED <<scriptVars, stalls, call, recent, screens, failure, dialogue,
                 endVars, accepted, acts>>

verify_rejected ==
  /\ Visits("verify")
  /\ Spend
  /\ pending' = "shown"
  /\ node' = IF completed > step THEN "step_passed" ELSE "observe"
  /\ UNCHANGED <<scriptVars, stalls, call, recent, screens, failure, dialogue,
                 endVars, accepted, acts>>

step_passed ==
  /\ Visits("step_passed")
  /\ results' = Append(results, StepResult("passed", attempt, None))
  /\ step' = step + 1
  /\ attempt' = 1
  /\ node' = IF step' < NumSteps THEN "start_step" ELSE "finish"
  /\ UNCHANGED <<completed, status, attemptVars, endVars, historyVars>>

Reason_IgnoresCall == IF failure # None THEN failure ELSE "no_actions_left"

Reason == IF failure # None THEN failure
          ELSE IF call = "step_failed" THEN "gave_up" ELSE "no_actions_left"

(* A retry, or the result of the last attempt.                             *)
attempt_failed_NoResult ==
  /\ Visits("attempt_failed")
  /\ IF attempt < MaxAttempts
     THEN /\ attempt' = attempt + 1
          /\ failure' = None
          /\ results' = results
     ELSE /\ results' = results
          /\ failure' = Reason
          /\ attempt' = attempt
  /\ node' = IF failure' # None THEN "fail" ELSE "start_step"
  /\ UNCHANGED <<step, completed, status, used, stalls, pending, call, recent,
                 screens, dialogue, endVars, historyVars>>

attempt_failed ==
  /\ Visits("attempt_failed")
  /\ IF attempt < MaxAttempts
     THEN /\ attempt' = attempt + 1
          /\ failure' = None
          /\ results' = results
     ELSE /\ results' = Append(results, StepResult("failed", attempt, Reason))
          /\ failure' = Reason
          /\ attempt' = attempt
  /\ node' = IF failure' # None THEN "fail" ELSE "start_step"
  /\ UNCHANGED <<step, completed, status, used, stalls, pending, call, recent,
                 screens, dialogue, endVars, historyVars>>

(* finish and fail set the status; run_automation writes the summary.      *)
Ends(n, how) ==
  /\ Visits(n)
  /\ status' = how
  /\ outcome' = "done"
  /\ summary' = results
  /\ node' = "end"
  /\ UNCHANGED <<step, attempt, completed, results, attemptVars, historyVars>>

finish == Ends("finish", "passed")
fail == Ends("fail", "failed")

-----------------------------------------------------------------------------
(* How a run stops otherwise.                                              *)

TakesScreenshot == node = "observe" /\ pending # "shown"

(* The broker or the API is unreachable when a node calls it: the run is   *)
(* aborted, and the summary is made of the state the run began with.       *)
Aborts ==
  /\ node \in {"agent", "verify"} \/ TakesScreenshot
  /\ visits < RecursionLimit
  /\ visits' = visits + 1
  /\ node' = "end"
  /\ outcome' = "aborted"
  /\ summary' = << >>
  /\ UNCHANGED <<scriptVars, attemptVars, historyVars>>

(* The script's monitor is not there when a screenshot is to be taken: a   *)
(* ValueError that neither screenshot nor run_automation expects.          *)
Crashes ==
  /\ node = "verify" \/ TakesScreenshot
  /\ visits < RecursionLimit
  /\ visits' = visits + 1
  /\ node' = "end"
  /\ outcome' = "crashed"
  /\ UNCHANGED <<scriptVars, attemptVars, summary, historyVars>>

(* GraphRecursionError, which run_automation does not expect either.       *)
RunsOutOfSteps ==
  /\ node # "end"
  /\ visits >= RecursionLimit
  /\ node' = "end"
  /\ outcome' = "out_of_steps"
  /\ UNCHANGED <<scriptVars, attemptVars, visits, summary, historyVars>>

-----------------------------------------------------------------------------
Next ==
  \/ start_step \/ observe \/ guard
  \/ agent_refuses \/ agent_talks \/ agent_calls
  \/ act
  \/ verify_refused \/ verify_met \/ verify_rejected
  \/ step_passed \/ attempt_failed \/ finish \/ fail
  \/ Aborts \/ Crashes \/ RunsOutOfSteps

Spec == Init /\ [][Next]_vars

-----------------------------------------------------------------------------
(* Properties.                                                             *)

(* The model is only ever called with a conversation that ends with a user *)
(* message and in which each tool call is followed by its result: the API  *)
(* refuses any other (observe builds it from what agent, act and verify    *)
(* left pending).                                                          *)
DialogueWellFormed ==
  /\ dialogue # "broken"
  /\ node = "agent" => dialogue = "ready"
  /\ node = "act" => dialogue = "called"

(* No attempt executes more UI tool calls on the machine than its budget   *)
(* allows, whatever the model does (route_agent, "Hard budgets").          *)
ActsWithinBudget == [][acts' > acts => acts' <= Budget]_vars

(* The stall detection only judges what this attempt called and saw: an    *)
(* attempt is not failed for what an earlier one repeated, as there are    *)
(* never more calls than it has executed, nor more screens than its first  *)
(* and one for each action it has used, none before the first (start_step, *)
(* observe, guard).                                                        *)
JudgedAfresh ==
  /\ Len(recent) <= acts
  /\ Len(screens) <= used + 1
  /\ node = "observe" => Len(screens) <= used

(* An attempt is stuck only after a stall, a warning and another stall: at *)
(* least twice as many actions as one stall takes (guard).                 *)
StuckNeedsEvidence == failure = "stuck" => used >= 2 * REPEAT_LIMIT

(* A step is retried or failed for a reason that is true: the agent did    *)
(* give up, or its actions were in fact used (attempt_failed).             *)
ReasonsTrue ==
  node = "attempt_failed" =>
    /\ Reason = "gave_up" => dialogue = "called"
    /\ Reason = "no_actions_left" => used >= Budget

(* The step results are those of the steps passed, in order; one more only *)
(* for a step whose last attempt has failed, as when the run has failed.   *)
ResultsMatchSteps ==
  /\ \A i \in 1..step : i \in DOMAIN results /\ results[i].state = "passed"
  /\ Len(results) <= step + 1
  /\ Len(results) > step => results[step + 1] = StepResult("failed", MaxAttempts, failure)
  /\ status = "failed" <=> outcome = "done" /\ Len(results) > step
  /\ status = "passed" => step = NumSteps

(* The recursion limit never stops a run that keeps to its budgets.        *)
LimitSparesBudgetedRuns == outcome = "out_of_steps" => overspent

(* The run keeps the promise of module ScriptRun: the reviewer alone       *)
(* passes a step, in order, within the attempts.                           *)
Promise == INSTANCE ScriptRun WITH
  passed <- step,
  tries <- attempt,
  accepted <- step \in accepted,
  result <- IF outcome \in {"aborted", "crashed", "out_of_steps"} THEN "stopped"
            ELSE IF status = "running" THEN "none" ELSE status

ImplementsScriptRun == Promise!Spec

-----------------------------------------------------------------------------
(* Statements of the repository that the code does not keep.               *)

(* "Hard budgets": once the actions are used there is one last chance, a   *)
(* reply that may cost one more; after it the attempt has failed or the    *)
(* step is done (docs/AUTOMATION.md).                                      *)
BudgetIsHard == [][used' > used => used' <= Budget + 1]_vars
=============================================================================
