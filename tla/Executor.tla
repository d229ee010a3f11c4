------------------------------ MODULE Executor ------------------------------
(***************************************************************************)
(* core/runtime/executor.py: the interpretation of one run, from           *)
(* init_state to the last event, with the budget it consults, the broker   *)
(* it calls tools through and the four tables it writes.  It is sequential *)
(* code, but the API and the Run Inspector read those tables at any time   *)
(* and its process may die at any point, so each persistent statement is   *)
(* an action: what holds of the tables in every state is what a reader, or *)
(* whoever looks at a dead run, can rely on.                               *)
(*                                                                         *)
(* The model's answers and the tools' results are arbitrary: an answer is  *)
(* a number of tool calls, and which call comes next is chosen when the    *)
(* loop reaches it (an L0 agent's fixed_steps likewise).                   *)
(***************************************************************************)
EXTENDS Criteria, PolicyEngine, FiniteSets, Functions

CONSTANTS
  Levels,           \* autonomy levels of the definitions interpreted
  PolicySet,        \* `policies` sections (see PolicyEngine)
  Calls,            \* tool calls: [tool, spec, table, valid, set]
  DefaultState,     \* default_state(state_schema)
  StateSchema,      \* keys that state_schema declares
  Success, Failure, \* goal.success_criteria, goal.failure_criteria
  MaxIterations, FixedSteps,
  MaxCallsPerAnswer, \* bound: tool calls in one answer of the model
  Costs,            \* what an answer may cost: [tokens, money]
  MaxAnswerTokens, MaxAnswerMoney, \* no answer costs more
  MaxSteps, MaxToolCalls, MaxTokens, MaxMoney

ASSUME BudgetAssumption ==
  {MaxIterations, MaxSteps, MaxToolCalls, MaxTokens, MaxMoney} \subseteq Nat \ {0}
ASSUME InputAssumption ==
  /\ Levels \subseteq 0..4 /\ {FixedSteps, MaxCallsPerAnswer, MaxAnswerTokens, MaxAnswerMoney} \subseteq Nat
  /\ Costs \subseteq [tokens : 0..MaxAnswerTokens, money : 0..MaxAnswerMoney]
  /\ PolicySet \subseteq Policies /\ NoTable \notin Tables
  /\ \A c \in Calls : c.spec \in Tools /\ c.table \in Tables \cup {NoTable} /\ c.valid \in BOOLEAN

VARIABLES
  level, policies,  \* of the definition being interpreted
  \* BudgetManager
  usage,            \* tool calls, tokens and money consumed
  late,             \* wallclock_exceeded()
  \* runtime.db
  row,              \* the run's row in runs
  runState,         \* its run_state row: [data, version]; version 0 is no row
  toolCalls,        \* its rows in tool_calls
  events,           \* its rows in events, in seq order
  \* the interpreter's locals
  pc, step,
  left,             \* calls of the answer (or fixed steps) not yet reached
  answer,           \* the model's last answer: its calls and what it cost
  call, result, old,
  verdict           \* <<status, termination_reason>> about to be returned

budgetVars == <<usage, late>>
dbVars == <<row, runState, toolCalls, events>>
loopVars == <<step, left, answer>>
callVars == <<call, result, old>>
vars == <<level, policies, budgetVars, dbVars, pc, loopVars, callVars, verdict>>

StateUpdate == "state.update"
Unregistered == "unregistered"   \* a tool the registry does not have
NoCall == [tool |-> "none"]
NoResult == [status |-> "none"]
NoAnswer == [calls |-> 0, tokens |-> 0, money |-> 0]
Terminal == {"completed", "failed", "exhausted", "crashed"}
PC == {"init", "started", "check", "step", "stepEvent", "llm", "llmUsage", "llmEvent",
       "decision", "next", "called", "invoke", "policyEvent", "record", "metric",
       "resultEvent", "stateEvent", "evaluate", "error", "finish", "finished", "done"}

Init ==
  /\ level \in Levels /\ policies \in PolicySet
  /\ usage = [tool_calls |-> 0, tokens |-> 0, money |-> 0]
  /\ late = FALSE
  /\ row \in [status : {"queued", "running"}, reason : {"none"}, steps : {0}, tool_calls : {0},
              tokens : {0}, money : {0}]
  /\ runState = [data |-> <<>>, version |-> 0]
  /\ toolCalls = <<>> /\ events = <<>>
  /\ pc = "init" /\ step = 0 /\ left = 0 /\ answer = NoAnswer
  /\ call = NoCall /\ result = NoResult /\ old = <<>>
  /\ verdict = <<"none", "none">>

-----------------------------------------------------------------------------
(* BudgetManager *)

\* consume_step has no caller, so the steps of the usage stay at zero.
StepsConsumed == 0

Dimensions == <<"max_wallclock_s", "max_money_usd", "max_tokens", "max_tool_calls", "max_steps">>
\* A faulty variant, for the mutants of PROJECT.json: ">" for the tool calls.
SpentAfterOneMore == <<late, usage.money >= MaxMoney, usage.tokens >= MaxTokens,
                       usage.tool_calls > MaxToolCalls, StepsConsumed >= MaxSteps>>
Spent == <<late, usage.money >= MaxMoney, usage.tokens >= MaxTokens,
           usage.tool_calls >= MaxToolCalls, StepsConsumed >= MaxSteps>>

\* exhausted_dimension: the first one spent, or "none".
ExhaustedDimension ==
  LET spent == {i \in 1..5 : Spent[i]}
  IN  IF spent = {} THEN "none" ELSE Dimensions[Min(spent)]

\* The wall clock runs out; it matters where the budget is about to be read,
\* between the loop's check and authorize()'s included.
Expire == /\ pc \in {"check", "next", "invoke"}
          /\ ~late /\ late' = TRUE
          /\ UNCHANGED <<level, policies, usage, dbVars, pc, loopVars, callVars, verdict>>

-----------------------------------------------------------------------------
(* Helpers of the actions *)

Goto(from, to) == pc = from /\ pc' = to

Emit(event) == events' = Append(events, event)
Event(type) == [type |-> type]
StepEvent(type) == [type |-> type, step |-> step]

\* `return status, reason, output` out of the level's loop.
Return(status, reason) == verdict' = <<status, reason>> /\ pc' = "finish"

\* A faulty variant, for the mutants of PROJECT.json: changed keys forgotten.
ComputeDiffAddedOnly(from, to) ==
  [added |-> Restrict(to, DOMAIN to \ DOMAIN from), changed |-> <<>>,
   removed |-> DOMAIN from \ DOMAIN to]

\* compute_diff, and what a reader of state.updated does with it.
ComputeDiff(from, to) ==
  [added |-> Restrict(to, DOMAIN to \ DOMAIN from),
   changed |-> Restrict(to, {k \in DOMAIN to \cap DOMAIN from : from[k] # to[k]}),
   removed |-> DOMAIN from \ DOMAIN to]

Merge(f, g) == [k \in DOMAIN f \cup DOMAIN g |-> IF k \in DOMAIN f THEN f[k] ELSE g[k]]

\* The `for` of level 0's fixed steps, or of level 3's iterations, is over.
LoopOver == \/ level = 0 /\ left = 0
            \/ level = 3 /\ step = MaxIterations

\* Where the loop goes after a tool call.
AfterCall == IF level = 0 THEN "check" ELSE "next"

-----------------------------------------------------------------------------
(* Faulty variants of the definitions below, which the properties must       *)
(* reject: PROJECT.json names the pairs.  The specification uses none.       *)

\* consume_llm_usage adds the tokens and forgets the money.
CallModelUnpaid ==
  /\ Goto("llm", "llmUsage")
  /\ \E n \in 0..MaxCallsPerAnswer, cost \in Costs :
       /\ left' = n
       /\ answer' = [calls |-> n, tokens |-> cost.tokens, money |-> cost.money]
       /\ usage' = [usage EXCEPT !.tokens = @ + cost.tokens]
  /\ UNCHANGED <<level, policies, late, dbVars, step, callVars, verdict>>

\* A refused call counts in runs.tool_calls too.
RecordToolCallAlwaysCounted ==
  /\ Goto("record", "metric")
  /\ toolCalls' = Append(toolCalls, [call |-> call, step |-> step,
                                     status |-> result.status, decision |-> result.decision])
  /\ UNCHANGED <<level, policies, budgetVars, row, runState, events, loopVars, callVars, verdict>>

\* The except handler raises again without finish_run.
EmitErrorOnly ==
  /\ Goto("error", "done")
  /\ Emit(Event("error.raised"))
  /\ UNCHANGED <<level, policies, budgetVars, row, runState, toolCalls, loopVars, callVars, verdict>>

\* finish_run and the last emit inside the try block: the handler may then
\* overwrite the status of a run that has ended.
EmitFinishedInTry ==
  /\ pc = "finished"
  /\ \/ Emit(Event("run.finished")) /\ pc' = "done"
     \/ pc' = "error" /\ UNCHANGED events
  /\ UNCHANGED <<level, policies, budgetVars, row, runState, toolCalls, loopVars, callVars, verdict>>

-----------------------------------------------------------------------------
(* execute_run, before the level's loop *)

InitState ==
  /\ Goto("init", "started")
  /\ runState' = [data |-> DefaultState, version |-> 1]
  /\ UNCHANGED <<level, policies, budgetVars, row, toolCalls, events, loopVars, callVars, verdict>>

\* Level 4 raises UnsupportedAutonomyLevelError inside the try block.
EmitStarted ==
  /\ pc = "started"
  /\ Emit(Event("run.started"))
  /\ pc' = IF level = 4 THEN "error" ELSE "check"
  /\ left' = IF level = 0 THEN FixedSteps ELSE 0
  /\ UNCHANGED <<level, policies, budgetVars, row, runState, toolCalls, step, answer, callVars, verdict>>

-----------------------------------------------------------------------------
(* The loops: _run_l0, _run_single_shot (levels 1 and 2), _run_l3 *)

\* Top of an iteration: the for is over, or the budget is, or a step begins.
CheckStep ==
  /\ pc = "check"
  /\ \/ /\ LoopOver /\ level = 0
        /\ pc' = "evaluate" /\ UNCHANGED verdict
     \/ /\ LoopOver /\ level = 3
        /\ Return("exhausted", "max_iterations")
     \/ /\ ~LoopOver /\ ExhaustedDimension # "none"
        /\ Return("exhausted", ExhaustedDimension)
     \/ /\ ~LoopOver /\ ExhaustedDimension = "none"
        /\ pc' = "step" /\ UNCHANGED verdict
  /\ UNCHANGED <<level, policies, budgetVars, dbVars, loopVars, callVars>>

RecordStep ==
  /\ Goto("step", "stepEvent")
  /\ row' = [row EXCEPT !.steps = @ + 1]
  /\ step' = step + 1
  /\ UNCHANGED <<level, policies, budgetVars, runState, toolCalls, events, left, answer, callVars, verdict>>

\* The interpreter reaches a call; _invoke_tool keeps the state from before a
\* state.update for the diff.
Reach(c) == /\ call' = c
            /\ left' = left - 1
            /\ old' = IF c.tool = StateUpdate THEN runState.data ELSE <<>>
            /\ pc' = "called"

EmitStepStarted ==
  /\ pc = "stepEvent"
  /\ Emit(StepEvent("step.started"))
  /\ \/ level = 0 /\ \E c \in Calls : Reach(c)
     \/ level # 0 /\ pc' = "llm" /\ UNCHANGED <<call, left, old>>
  /\ UNCHANGED <<level, policies, budgetVars, row, runState, toolCalls, step, answer, result, verdict>>

\* ModelRouter.complete answers (or raises: Raise); consume_llm_usage.
CallModel ==
  /\ Goto("llm", "llmUsage")
  /\ \E n \in 0..MaxCallsPerAnswer, cost \in Costs :
       /\ left' = n
       /\ answer' = [calls |-> n, tokens |-> cost.tokens, money |-> cost.money]
       /\ usage' = [usage EXCEPT !.tokens = @ + cost.tokens, !.money = @ + cost.money]
  /\ UNCHANGED <<level, policies, late, dbVars, step, callVars, verdict>>

\* record_llm_usage adds to the row what the budget was charged.
RecordUsage ==
  /\ Goto("llmUsage", "llmEvent")
  /\ row' = [row EXCEPT !.tokens = @ + answer.tokens, !.money = @ + answer.money]
  /\ UNCHANGED <<level, policies, budgetVars, runState, toolCalls, events, loopVars, callVars, verdict>>

EmitModelCalled ==
  /\ Goto("llmEvent", "decision")
  /\ Emit(Event("llm.called"))
  /\ UNCHANGED <<level, policies, budgetVars, row, runState, toolCalls, loopVars, callVars, verdict>>

EmitDecision ==
  /\ Goto("decision", "next")
  /\ Emit(StepEvent("decision.made"))
  /\ UNCHANGED <<level, policies, budgetVars, row, runState, toolCalls, loopVars, callVars, verdict>>

\* The budget is consulted before each call of the answer.
NextCall ==
  /\ pc = "next"
  /\ \/ left = 0 /\ pc' = "evaluate" /\ UNCHANGED <<call, left, old, verdict>>
     \/ left > 0 /\ ExhaustedDimension # "none"
                 /\ Return("exhausted", ExhaustedDimension) /\ UNCHANGED <<call, left, old>>
     \/ left > 0 /\ ExhaustedDimension = "none"
                 /\ \E c \in Calls : Reach(c) /\ UNCHANGED verdict
  /\ UNCHANGED <<level, policies, budgetVars, dbVars, step, answer, result>>

-----------------------------------------------------------------------------
(* _invoke_tool and ToolBroker.invoke *)

EmitToolCalled ==
  /\ Goto("called", "invoke")
  /\ Emit(StepEvent("tool.called"))
  /\ UNCHANGED <<level, policies, budgetVars, row, runState, toolCalls, loopVars, callVars, verdict>>

Decision == Authorize(policies, call.spec, call.table, ExhaustedDimension # "none", FALSE)
Registered == call.tool # Unregistered
Returns(status) == /\ result' = [status |-> status, decision |-> Decision]
                   /\ pc' = IF Decision = "ALLOW" THEN "record" ELSE "policyEvent"
Consume == usage' = [usage EXCEPT !.tool_calls = @ + 1]

\* ToolNotFoundError leaves the broker before any decision.
NotFound == ~Registered /\ pc' = "error" /\ UNCHANGED <<result, usage, runState>>

\* authorize() refuses: nothing runs and nothing is charged.
Refuse == /\ Registered /\ Decision # "ALLOW"
          /\ Returns(IF Decision = "DENY" THEN "denied" ELSE "pending_approval")
          /\ UNCHANGED <<usage, runState>>

\* Arguments that do not match input_schema: the tool does not run, and the
\* budget is not charged although the call counts as allowed.
RejectInput == /\ Registered /\ Decision = "ALLOW" /\ ~call.valid
               /\ Returns("error") /\ UNCHANGED <<usage, runState>>

\* A tool runs: it answers, or answers out of shape, fails or times out (all
\* "error" here: status "timeout" is charged, recorded and reported the same
\* way).  What the broker does not expect it to raise is Raise, uncharged.
RunTool == /\ Registered /\ Decision = "ALLOW" /\ call.valid /\ call.tool # StateUpdate
           /\ \E s \in {"ok", "error"} : Returns(s) /\ Consume
           /\ UNCHANGED runState

\* A faulty variant, for the mutants of PROJECT.json: any key is accepted.
RunStateUpdateAnyKey ==
  /\ Registered /\ Decision = "ALLOW" /\ call.valid /\ call.tool = StateUpdate
  /\ Consume
  /\ runState' = [data |-> Merge(call.set, runState.data), version |-> runState.version + 1]
  /\ Returns("ok")

\* tools/builtin/state.py: an undeclared key is an error and writes nothing;
\* otherwise the arguments are merged over the state read just before.
RunStateUpdate ==
  /\ Registered /\ Decision = "ALLOW" /\ call.valid /\ call.tool = StateUpdate
  /\ Consume
  /\ IF DOMAIN call.set \subseteq StateSchema
       THEN /\ runState' = [data |-> Merge(call.set, runState.data), version |-> runState.version + 1]
            /\ Returns("ok")
       ELSE UNCHANGED runState /\ Returns("error")

Invoke ==
  /\ pc = "invoke"
  /\ NotFound \/ Refuse \/ RejectInput \/ RunTool \/ RunStateUpdate
  /\ UNCHANGED <<level, policies, late, row, toolCalls, events, loopVars, call, old, verdict>>

EmitPolicyEvaluated ==
  /\ Goto("policyEvent", "record")
  /\ Emit(StepEvent("policy.evaluated"))
  /\ UNCHANGED <<level, policies, budgetVars, row, runState, toolCalls, loopVars, callVars, verdict>>

RecordToolCall ==
  /\ pc = "record"
  /\ toolCalls' = Append(toolCalls, [call |-> call, step |-> step,
                                     status |-> result.status, decision |-> result.decision])
  /\ pc' = IF result.decision = "ALLOW" THEN "metric" ELSE "resultEvent"
  /\ UNCHANGED <<level, policies, budgetVars, row, runState, events, loopVars, callVars, verdict>>

RecordToolCallMetric ==
  /\ Goto("metric", "resultEvent")
  /\ row' = [row EXCEPT !.tool_calls = @ + 1]
  /\ UNCHANGED <<level, policies, budgetVars, runState, toolCalls, events, loopVars, callVars, verdict>>

EmitToolResult ==
  /\ pc = "resultEvent"
  /\ Emit([type |-> "tool.result", step |-> step, status |-> result.status])
  /\ pc' = IF call.tool = StateUpdate /\ result.status = "ok" THEN "stateEvent" ELSE AfterCall
  /\ UNCHANGED <<level, policies, budgetVars, row, runState, toolCalls, loopVars, callVars, verdict>>

EmitStateUpdated ==
  /\ Goto("stateEvent", AfterCall)
  /\ Emit([type |-> "state.updated", step |-> step, diff |-> ComputeDiff(old, runState.data)])
  /\ UNCHANGED <<level, policies, budgetVars, row, runState, toolCalls, loopVars, callVars, verdict>>

-----------------------------------------------------------------------------
(* The end of a loop, and of execute_run *)

GoalVerdict == EvaluateTermination(Success, Failure, runState.data)

DefaultReason == CASE level = 0 -> "sequence_completed" [] level = 1 -> "reacted"
                   [] level = 2 -> "plan_executed" [] level = 3 -> "model_finished"

\* _evaluate_termination decides, or the level's default does; only L3 goes on
\* when nothing is decided and its model still asked for tools.
EvaluateGoal ==
  /\ pc = "evaluate"
  /\ \E outcome \in {GoalVerdict} :
         \/ outcome = "raises" /\ pc' = "error" /\ UNCHANGED verdict
         \/ outcome \in {"failed", "completed"} /\ Return(outcome, outcome)
         \/ outcome = "none" /\ level = 3 /\ answer.calls > 0 /\ pc' = "check" /\ UNCHANGED verdict
         \/ outcome = "none" /\ ~(level = 3 /\ answer.calls > 0) /\ Return("completed", DefaultReason)
  /\ UNCHANGED <<level, policies, budgetVars, dbVars, loopVars, callVars>>

\* Any statement of the try block may raise: a provider whose answer is no
\* answer, a tool the broker does not expect to fail that way, a tool that
\* build_tool_specs does not find, SQLite busy for 30 s.  Nothing of that
\* statement has happened.
TryBlock == PC \ {"init", "started", "error", "finish", "finished", "done"}
Raise == /\ pc \in TryBlock /\ pc' = "error"
         /\ UNCHANGED <<level, policies, budgetVars, dbVars, loopVars, callVars, verdict>>

\* The except handler: error.raised, then finish_run("crashed").
EmitError ==
  /\ pc = "error"
  /\ Emit(Event("error.raised"))
  /\ Return("crashed", "unhandled_exception")
  /\ UNCHANGED <<level, policies, budgetVars, row, runState, toolCalls, loopVars, callVars>>

FinishRun ==
  /\ Goto("finish", "finished")
  /\ row' = [row EXCEPT !.status = verdict[1], !.reason = verdict[2]]
  /\ UNCHANGED <<level, policies, budgetVars, runState, toolCalls, events, loopVars, callVars, verdict>>

EmitFinished ==
  /\ Goto("finished", "done")
  /\ Emit(Event("run.finished"))
  /\ UNCHANGED <<level, policies, budgetVars, row, runState, toolCalls, loopVars, callVars, verdict>>

Done == pc = "done" /\ UNCHANGED vars

Next == \/ InitState \/ EmitStarted
        \/ CheckStep \/ RecordStep \/ EmitStepStarted
        \/ CallModel \/ RecordUsage \/ EmitModelCalled \/ EmitDecision \/ NextCall
        \/ EmitToolCalled \/ Expire \/ Invoke \/ EmitPolicyEvaluated
        \/ RecordToolCall \/ RecordToolCallMetric \/ EmitToolResult \/ EmitStateUpdated
        \/ EvaluateGoal \/ Raise \/ EmitError \/ FinishRun \/ EmitFinished \/ Done

Spec == Init /\ [][Next]_vars

\* The interpreter is a thread that runs: models and tools answer or raise (an
\* HTTP request ends after CompletionRequest.timeout_s; V1's tools are local
\* functions, the broker sets them no limit of its own).
FairSpec == Spec /\ WF_vars(Next)

-----------------------------------------------------------------------------
(* Properties *)

EventTypes == {"run.started", "step.started", "llm.called", "decision.made", "tool.called",
               "policy.evaluated", "tool.result", "state.updated", "error.raised", "run.finished"}

TypeOK ==
  /\ level \in Levels /\ policies \in PolicySet
  /\ usage \in [tool_calls : Nat, tokens : Nat, money : Nat] /\ late \in BOOLEAN
  /\ row.status \in {"queued", "running"} \cup Terminal
  /\ {row.steps, row.tool_calls, row.tokens, row.money} \subseteq Nat
  /\ DOMAIN runState.data \subseteq StateSchema \cup DOMAIN DefaultState
  /\ runState.version \in Nat
  /\ \A i \in DOMAIN toolCalls : toolCalls[i].call \in Calls
  /\ \A i \in DOMAIN events : events[i].type \in EventTypes
  /\ pc \in PC /\ step \in Nat /\ left \in Nat
  /\ call \in Calls \cup {NoCall}

Emitted(type) == Cardinality({i \in DOMAIN events : events[i].type = type})
Rows(P(_)) == {i \in DOMAIN toolCalls : P(toolCalls[i])}
Allowed(c) == c.decision = "ALLOW"
Refused(c) == c.decision # "ALLOW"
Ran(c) == c.decision = "ALLOW" /\ c.call.valid

\* The runs row, the tool_calls table and the event log count the same things:
\* whoever reads them, while the run goes on, after it crashed anywhere, or
\* after its process died, finds them at most one call or step apart, and
\* exactly equal once it ended otherwise.
TablesAgree ==
  /\ row.steps - Emitted("step.started") \in {0, 1}
  /\ Len(toolCalls) - Emitted("tool.result") \in {0, 1}
  /\ Emitted("tool.called") - Len(toolCalls) \in {0, 1}
  /\ Emitted("policy.evaluated") - Cardinality(Rows(Refused)) \in {0, 1}
  /\ Cardinality(Rows(Allowed)) - row.tool_calls \in {0, 1}
  /\ row.status \in Terminal \ {"crashed"} =>
       /\ Emitted("step.started") = row.steps
       /\ Emitted("tool.called") = Len(toolCalls)
       /\ Emitted("tool.result") = Len(toolCalls)
       /\ Emitted("policy.evaluated") = Cardinality(Rows(Refused))
       /\ row.tool_calls = Cardinality(Rows(Allowed))

\* At most max_tool_calls tools run, whatever the level and however the calls
\* are spread over answers: the check precedes every call, the charge follows
\* every call that ran.
RanWithinBudget == Cardinality(Rows(Ran)) <= MaxToolCalls

\* Tokens and money are charged after the answer, so a run may overshoot, but
\* by one answer only: no model is called once the budget is spent.
OvershootIsOneAnswer ==
  /\ row.tokens < MaxTokens + MaxAnswerTokens
  /\ row.money < MaxMoney + MaxAnswerMoney

\* Applying the state.updated diffs of the log, in order, to the schema's
\* defaults gives the run_state row: the log explains the state.  At most one
\* write is missing from it, the one whose call is being recorded or crashed
\* while it was, and the row's version tells whether it is.
ApplyDiff(state, event) ==
  IF event.type # "state.updated" THEN state
  ELSE Restrict(Merge(event.diff.changed, Merge(event.diff.added, state)),
                (DOMAIN state \cup DOMAIN event.diff.added) \ event.diff.removed)
Replayed[n \in Nat] ==
  IF n = 0 THEN DefaultState ELSE ApplyDiff(Replayed[n - 1], events[n])
StateIsReplayable ==
  LET unlogged == runState.version - 1 - Emitted("state.updated")
  IN  runState.version > 0 =>
        /\ unlogged \in {0, 1}
        /\ unlogged = 0 => Replayed[Len(events)] = runState.data
        /\ row.status \in Terminal \ {"crashed"} => unlogged = 0

\* A call that was not refused is one the agent's policy permits for those
\* arguments, read as a whole; the order in which authorize() asks makes no
\* difference to it.
PolicyRespected ==
  \A i \in DOMAIN toolCalls :
    toolCalls[i].status \notin {"denied", "pending_approval"} =>
      Permits(policies, toolCalls[i].call.spec, toolCalls[i].call.table)

Holds(criteria) == criteria # <<>> /\ EvaluateAll(criteria, runState.data) = "true"

\* The status a run ends with is the one its final state deserves: "failed"
\* whenever the failure criteria hold, even if the success criteria hold too,
\* "completed" for the goal only if they do not; "exhausted" names a dimension
\* that is spent, or L3's last iteration with the goal still undecided.
OutcomeFollowsGoal ==
  /\ row.status = "failed" => Holds(Failure)
  /\ row.status = "completed" => GoalVerdict \in {"completed", "none"}
  /\ row.reason = "completed" => Holds(Success) /\ ~Holds(Failure)
  /\ row.status = "exhausted" =>
       \/ \E i \in 1..5 : Dimensions[i] = row.reason /\ Spent[i]
       \/ level = 3 /\ row.reason = "max_iterations" /\ GoalVerdict = "none"

\* One run's execution implements the life of a run: its status changes once,
\* after its run_state row exists.
Lifecycle == INSTANCE RunLifecycle WITH
  Runs <- {"run"}, Procs <- {"interpreter"}, NoProc <- "nobody",
  status <- [r \in {"run"} |-> row.status],
  owner <- [r \in {"run"} |-> IF runState.version = 0 THEN "nobody" ELSE "interpreter"]
ImplementsLifecycle == Lifecycle!Spec

\* What readers of runs and tool_calls count on: a call is recorded before it
\* is counted, nothing is recorded of a run that has ended, and only a crash
\* ends a run between the two.
Readers == INSTANCE RunRows WITH
  Runs <- {"run"},
  rows <- [r \in {"run"} |->
             [status |-> row.status, tool_calls |-> row.tool_calls,
              calls |-> [k \in {"ok", "error", "denied", "pending_approval"} |->
                           Cardinality({i \in DOMAIN toolCalls : toolCalls[i].status = k})]]]
ImplementsRunRows == Readers!RowsSpec

\* Whatever the models and the tools answer, the run ends (ARCHITECTURE 3.1).
RunTerminates == <>[](row.status \in Terminal)

\* ARCHITECTURE 8.4 and 11.3: a run that has used up max_steps is exhausted.
StepsWithinBudget == row.steps <= MaxSteps
=============================================================================
