--------------------------- MODULE ExecutorProofs ---------------------------
(***************************************************************************)
(* The policy chain, for every policy, tool and table, and the             *)
(* interpretation of one run, whatever its definition, its budget, its     *)
(* models' answers and its tools' results.                                 *)
(***************************************************************************)
EXTENDS Executor, Induction, SequenceTheorems

-----------------------------------------------------------------------------
(* authorize(): the chain of checks gives ALLOW exactly when the policy,    *)
(* read as a whole, permits the call.                                       *)

\* A nonempty set of positions of the chain has a first one.
LEMMA FirstPosition ==
  ASSUME NEW S \in SUBSET (1..7), S # {}
  PROVE  Min(S) \in S
<1>1. \A n \in 1..7 : n \in S /\ (\A m \in 1..(n - 1) : m \notin S) => \A y \in S : n <= y
  OBVIOUS
<1>2. \E n \in 1..7 : n \in S /\ (\A m \in 1..(n - 1) : m \notin S)
  <2>1. PICK y \in S : TRUE
    OBVIOUS
  <2>2. y \in 1..7
    OBVIOUS
  <2>3. y = 1 \/ y = 2 \/ y = 3 \/ y = 4 \/ y = 5 \/ y = 6 \/ y = 7
    BY <2>2
  <2>4. 1 \in S \/ 2 \in S \/ 3 \in S \/ 4 \in S \/ 5 \in S \/ 6 \in S \/ 7 \in S
    BY <2>1, <2>3
  <2> QED BY <2>4
<1>3. \E x \in S : \A y \in S : x <= y
  BY <1>1, <1>2
<1> QED BY <1>3 DEF Min

\* No check ever answers ALLOW: that is left to the end of the chain.
LEMMA ChecksOnlyRefuse ==
  ASSUME NEW pol \in Policies, NEW tool \in Tools, NEW table \in Tables \cup {NoTable},
         NEW exhausted \in BOOLEAN, NEW dryRun \in BOOLEAN
  PROVE  \A d \in {CheckSystem(tool), CheckBudget(exhausted), CheckDryRun(tool, dryRun),
                   CheckNetwork(pol, tool), CheckDatabase(pol, tool, table),
                   CheckOutbound(pol, tool), CheckDestructive(pol, tool)} :
           d \in {"none", "DENY", "REQUIRE_APPROVAL"}
  BY DEF Policies, Tools, DenyIf, CheckSystem, CheckBudget, CheckDryRun, CheckNetwork,
         CheckDatabase, CheckOutbound, CheckDestructive

\* ALLOW means that every check passed, wherever it stands in the chain.
LEMMA AllowNeedsEveryCheck ==
  ASSUME NEW pol \in Policies, NEW tool \in Tools, NEW table \in Tables \cup {NoTable},
         NEW exhausted \in BOOLEAN, NEW dryRun \in BOOLEAN
  PROVE  Authorize(pol, tool, table, exhausted, dryRun) = "ALLOW" <=>
           /\ CheckSystem(tool) = "none" /\ CheckBudget(exhausted) = "none"
           /\ CheckDryRun(tool, dryRun) = "none" /\ CheckNetwork(pol, tool) = "none"
           /\ CheckDatabase(pol, tool, table) = "none" /\ CheckOutbound(pol, tool) = "none"
           /\ CheckDestructive(pol, tool) = "none"
<1> DEFINE chain == <<CheckSystem(tool), CheckBudget(exhausted), CheckDryRun(tool, dryRun),
                      CheckNetwork(pol, tool), CheckDatabase(pol, tool, table),
                      CheckOutbound(pol, tool), CheckDestructive(pol, tool)>>
           deciding == {i \in 1..7 : chain[i] # "none"}
<1>1. \A i \in 1..7 : chain[i] # "ALLOW"
  BY ChecksOnlyRefuse
<1>2. Authorize(pol, tool, table, exhausted, dryRun) =
        IF deciding = {} THEN "ALLOW" ELSE chain[Min(deciding)]
  BY DEF Authorize
<1>3. deciding # {} => Min(deciding) \in 1..7
  BY FirstPosition
<1>4. Authorize(pol, tool, table, exhausted, dryRun) = "ALLOW" <=> deciding = {}
  BY <1>1, <1>2, <1>3
<1>5. deciding = {} <=> \A i \in 1..7 : chain[i] = "none"
  OBVIOUS
<1>6. (\A i \in 1..7 : chain[i] = "none") <=>
           /\ CheckSystem(tool) = "none" /\ CheckBudget(exhausted) = "none"
           /\ CheckDryRun(tool, dryRun) = "none" /\ CheckNetwork(pol, tool) = "none"
           /\ CheckDatabase(pol, tool, table) = "none" /\ CheckOutbound(pol, tool) = "none"
           /\ CheckDestructive(pol, tool) = "none"
  OBVIOUS
<1> QED BY <1>4, <1>5, <1>6

\* authorize() allows a call exactly when the agent's policies section permits
\* it, budget is left and, in a dry run, the tool only reads: for every set of
\* domains and tables, and every policy and tool over them.
THEOREM AllowExactlyWhenPermitted ==
  ASSUME NEW pol \in Policies, NEW tool \in Tools, NEW table \in Tables \cup {NoTable},
         NEW exhausted \in BOOLEAN, NEW dryRun \in BOOLEAN, NoTable \notin Tables
  PROVE  Authorize(pol, tool, table, exhausted, dryRun) = "ALLOW" <=>
           /\ Permits(pol, tool, table)
           /\ ~exhausted
           /\ dryRun => tool.side_effects = "read"
<1>1. CheckSystem(tool) = "none" <=> ~tool.shell
  BY DEF CheckSystem, DenyIf, Tools
<1>2. CheckBudget(exhausted) = "none" <=> ~exhausted
  BY DEF CheckBudget, DenyIf
<1>3. CheckDryRun(tool, dryRun) = "none" <=> (dryRun => tool.side_effects = "read")
  BY DEF CheckDryRun, DenyIf
<1>4. CheckNetwork(pol, tool) = "none" <=>
        ("network.http" \in tool.permissions =>
           \/ pol.network = "open"
           \/ pol.network = "allowlist" /\ tool.domain \in UNION pol.domains)
  BY DEF CheckNetwork, DenyIf, Policies
<1>5. CheckDatabase(pol, tool, table) = "none" <=>
        /\ tool.permissions \cap {"database.read", "database.write"} # {} =>
             /\ pol.domain_db \in {"read_only", "read_write"}
             /\ table \in pol.tables \cup {NoTable} \/ pol.tables = {}
        /\ "database.write" \in tool.permissions => pol.domain_db = "read_write"
  BY DEF CheckDatabase, DenyIf, Policies
<1>6. CheckOutbound(pol, tool) = "none" <=>
        ("messaging.send" \in tool.permissions => pol.outbound = "allow")
  BY DEF CheckOutbound, Policies
<1>7. CheckDestructive(pol, tool) = "none" <=>
        (tool.side_effects = "destructive" => pol.destructive = "allow")
  BY DEF CheckDestructive, Policies
<1> QED BY <1>1, <1>2, <1>3, <1>4, <1>5, <1>6, <1>7, AllowNeedsEveryCheck DEF Permits

-----------------------------------------------------------------------------
(* Logs that grow by one entry, and the counts taken of them *)

IsLog(s) == \E S : s \in Seq(S)

LEMMA Appended ==
  ASSUME NEW s, IsLog(s), NEW e
  PROVE  /\ IsLog(Append(s, e))
         /\ DOMAIN s = 1..Len(s) /\ Len(s) \in Nat
         /\ DOMAIN Append(s, e) = DOMAIN s \cup {Len(s) + 1} /\ Len(s) + 1 \notin DOMAIN s
         /\ Len(Append(s, e)) = Len(s) + 1
         /\ \A i \in DOMAIN s : Append(s, e)[i] = s[i]
         /\ Append(s, e)[Len(s) + 1] = e
<1>1. PICK S : s \in Seq(S)
  BY DEF IsLog
<1>2. s \in Seq(S \cup {e})
  BY <1>1
<1>3. Append(s, e) \in Seq(S \cup {e})
  BY <1>2
<1> QED BY <1>2, <1>3 DEF IsLog

LEMMA OneMore ==
  ASSUME NEW s, IsLog(s), NEW I \in SUBSET DOMAIN s
  PROVE  /\ Cardinality(I) \in Nat
         /\ Cardinality(I \cup {Len(s) + 1}) = Cardinality(I) + 1
<1>0. DOMAIN s = 1..Len(s) /\ Len(s) \in Nat /\ Len(s) + 1 \notin DOMAIN s
  BY Appended
<1>1. IsFiniteSet(DOMAIN s) /\ Len(s) + 1 \notin I
  BY <1>0, FS_Interval
<1>2. IsFiniteSet(I)
  BY <1>1, FS_Subset
<1> QED BY <1>1, <1>2, FS_CardinalityType, FS_AddElement

LEMMA EmittedAfter ==
  ASSUME IsLog(events), NEW e, events' = Append(events, e), NEW t
  PROVE  Emitted(t) \in Nat /\ Emitted(t)' = IF e.type = t THEN Emitted(t) + 1 ELSE Emitted(t)
<1> DEFINE I == {i \in DOMAIN events : events[i].type = t}
<1>1. {i \in DOMAIN events' : events'[i].type = t} = IF e.type = t THEN I \cup {Len(events) + 1} ELSE I
  BY Appended
<1>2. Cardinality(I) \in Nat /\ Cardinality(I \cup {Len(events) + 1}) = Cardinality(I) + 1
  BY OneMore
<1>3. Emitted(t) = Cardinality(I) /\ Emitted(t)' = Cardinality({i \in DOMAIN events' : events'[i].type = t})
  BY DEF Emitted
<1>4. CASE e.type = t
  BY <1>1, <1>2, <1>3, <1>4
<1>5. CASE e.type # t
  BY <1>1, <1>2, <1>3, <1>5
<1> QED BY <1>4, <1>5

NAllowed == Cardinality(Rows(Allowed))
NRefused == Cardinality(Rows(Refused))
NRan == Cardinality(Rows(Ran))
NStatus(k) == Cardinality({i \in DOMAIN toolCalls : toolCalls[i].status = k})

LEMMA CallsAfter ==
  ASSUME IsLog(toolCalls), NEW c, toolCalls' = Append(toolCalls, c)
  PROVE  /\ NAllowed \in Nat /\ NRefused \in Nat /\ NRan \in Nat
         /\ NAllowed' = IF Allowed(c) THEN NAllowed + 1 ELSE NAllowed
         /\ NRefused' = IF Refused(c) THEN NRefused + 1 ELSE NRefused
         /\ NRan' = IF Ran(c) THEN NRan + 1 ELSE NRan
<1> DEFINE A == {i \in DOMAIN toolCalls : Allowed(toolCalls[i])}
           F == {i \in DOMAIN toolCalls : Refused(toolCalls[i])}
           R == {i \in DOMAIN toolCalls : Ran(toolCalls[i])}
           last == Len(toolCalls) + 1
<1>1. /\ {i \in DOMAIN toolCalls' : Allowed(toolCalls'[i])} = IF Allowed(c) THEN A \cup {last} ELSE A
      /\ {i \in DOMAIN toolCalls' : Refused(toolCalls'[i])} = IF Refused(c) THEN F \cup {last} ELSE F
      /\ {i \in DOMAIN toolCalls' : Ran(toolCalls'[i])} = IF Ran(c) THEN R \cup {last} ELSE R
  BY Appended
<1>2. /\ Cardinality(A) \in Nat /\ Cardinality(A \cup {last}) = Cardinality(A) + 1
      /\ Cardinality(F) \in Nat /\ Cardinality(F \cup {last}) = Cardinality(F) + 1
      /\ Cardinality(R) \in Nat /\ Cardinality(R \cup {last}) = Cardinality(R) + 1
  BY OneMore
<1>3. NAllowed = Cardinality(A) /\ NRefused = Cardinality(F) /\ NRan = Cardinality(R)
  BY DEF NAllowed, NRefused, NRan, Rows
<1>4. /\ NAllowed' = Cardinality({i \in DOMAIN toolCalls' : Allowed(toolCalls'[i])})
      /\ NRefused' = Cardinality({i \in DOMAIN toolCalls' : Refused(toolCalls'[i])})
      /\ NRan' = Cardinality({i \in DOMAIN toolCalls' : Ran(toolCalls'[i])})
  BY DEF NAllowed, NRefused, NRan, Rows, Allowed, Refused, Ran
<1>5. NAllowed' = IF Allowed(c) THEN NAllowed + 1 ELSE NAllowed
  <2>1. CASE Allowed(c)
    BY <1>1, <1>2, <1>3, <1>4, <2>1
  <2>2. CASE ~Allowed(c)
    BY <1>1, <1>2, <1>3, <1>4, <2>2
  <2> QED BY <2>1, <2>2
<1>6. NRefused' = IF Refused(c) THEN NRefused + 1 ELSE NRefused
  <2>1. CASE Refused(c)
    BY <1>1, <1>2, <1>3, <1>4, <2>1
  <2>2. CASE ~Refused(c)
    BY <1>1, <1>2, <1>3, <1>4, <2>2
  <2> QED BY <2>1, <2>2
<1>7. NRan' = IF Ran(c) THEN NRan + 1 ELSE NRan
  <2>1. CASE Ran(c)
    BY <1>1, <1>2, <1>3, <1>4, <2>1
  <2>2. CASE ~Ran(c)
    BY <1>1, <1>2, <1>3, <1>4, <2>2
  <2> QED BY <2>1, <2>2
<1> QED BY <1>2, <1>3, <1>5, <1>6, <1>7

-----------------------------------------------------------------------------
(* Types, and where the interpreter is *)

Reasons == {"none", "failed", "completed", "max_iterations", "unhandled_exception",
            "sequence_completed", "reacted", "plan_executed", "model_finished",
            "max_wallclock_s", "max_money_usd", "max_tokens", "max_tool_calls", "max_steps"}
Row == [status : {"queued", "running"} \cup Terminal, reason : Reasons,
        steps : Nat, tool_calls : Nat, tokens : Nat, money : Nat]
Verdict == ({"none"} \cup Terminal) \X Reasons
Ending == {"finish", "finished", "done"}
Calling == {"called", "invoke", "policyEvent", "record", "metric", "resultEvent", "stateEvent"}

TypedBudget == usage \in [tool_calls : Nat, tokens : Nat, money : Nat] /\ late \in BOOLEAN
TypedTables ==
  /\ row \in Row
  /\ DOMAIN runState = {"data", "version"} /\ runState.version \in Nat
  /\ DOMAIN runState.data \subseteq StateSchema \cup DOMAIN DefaultState
  /\ IsLog(toolCalls) /\ \A i \in DOMAIN toolCalls : toolCalls[i].call \in Calls
  /\ IsLog(events) /\ \A i \in DOMAIN events : events[i].type \in EventTypes
TypedLoop ==
  /\ level \in Levels /\ policies \in PolicySet
  /\ pc \in PC /\ step \in Nat /\ left \in Nat
  /\ answer \in [calls : Nat, tokens : 0..MaxAnswerTokens, money : 0..MaxAnswerMoney]
  /\ level = 0 /\ pc \in {"step", "stepEvent"} => left > 0
  /\ level = 4 => pc \in {"init", "started", "error"} \cup Ending
TypedCall ==
  /\ call \in Calls \cup {NoCall}
  /\ pc \in Calling => call \in Calls
  /\ verdict \in Verdict
  /\ pc \in Ending => verdict[1] \in Terminal
Typed == TypedBudget /\ TypedTables /\ TypedLoop /\ TypedCall

\* Only FinishRun touches the status and the reason.
NotEnded ==
  /\ row.status \in Terminal => pc \in {"finished", "done"} /\ row.status = verdict[1] /\ row.reason = verdict[2]
  /\ row.status \notin Terminal => row.reason = "none"
  /\ pc \in {"finished", "done"} => row.status = verdict[1]
  /\ pc = "init" <=> runState.version = 0
  /\ pc \in {"init", "started"} => step = 0

LEMMA LogsGrow ==
  ASSUME TypedTables
  PROVE  /\ \A e : e.type \in EventTypes =>
              /\ IsLog(Append(events, e))
              /\ \A i \in DOMAIN Append(events, e) : Append(events, e)[i].type \in EventTypes
         /\ \A c : c.call \in Calls =>
              /\ IsLog(Append(toolCalls, c))
              /\ \A i \in DOMAIN Append(toolCalls, c) : Append(toolCalls, c)[i].call \in Calls
BY Appended DEF TypedTables

LEMMA FirstSpent ==
  /\ ExhaustedDimension = "none" <=> \A i \in 1..5 : ~Spent[i]
  /\ ExhaustedDimension # "none" => \E i \in 1..5 : Spent[i] /\ ExhaustedDimension = Dimensions[i]
<1> DEFINE spent == {i \in 1..5 : Spent[i]}
<1>1. spent # {} => Min(spent) \in spent
  BY FirstPosition
<1>2. ExhaustedDimension = IF spent = {} THEN "none" ELSE Dimensions[Min(spent)]
  BY DEF ExhaustedDimension
<1>3. \A i \in 1..5 : Dimensions[i] # "none"
  BY DEF Dimensions
<1> QED BY <1>1, <1>2, <1>3

LEMMA DimensionIsReason ==
  /\ ExhaustedDimension \in Reasons
  /\ \A i \in 1..5 : Dimensions[i] \in Reasons \ {"none", "failed", "completed", "max_iterations"}
<1>1. \A i \in 1..5 : Dimensions[i] \in Reasons \ {"none", "failed", "completed", "max_iterations"}
  BY DEF Dimensions, Reasons
<1> QED BY <1>1, FirstSpent DEF Reasons

LEMMA InitTyped == Init => Typed /\ NotEnded
<1> SUFFICES ASSUME Init PROVE Typed /\ NotEnded
  OBVIOUS
<1>1. <<>> \in Seq({})
  OBVIOUS
<1>2. TypedTables
  BY <1>1 DEF Init, TypedTables, Row, Reasons, IsLog
<1>3. TypedLoop
  BY InputAssumption DEF Init, TypedLoop, NoAnswer, PC
<1>4. TypedCall /\ TypedBudget
  BY DEF Init, TypedCall, TypedBudget, Verdict, Reasons, Calling, Ending
<1>5. NotEnded
  BY DEF Init, NotEnded, Terminal
<1> QED BY <1>2, <1>3, <1>4, <1>5 DEF Typed

LEMMA TypedBudgetStep ==
  ASSUME Typed, [Next]_vars
  PROVE  TypedBudget'
<1> USE InputAssumption DEF Typed, TypedBudget, budgetVars, Goto
<1>1. CASE InitState
  BY <1>1 DEF InitState
<1>2. CASE EmitStarted
  BY <1>2 DEF EmitStarted
<1>3. CASE CheckStep
  BY <1>3 DEF CheckStep
<1>4. CASE RecordStep
  BY <1>4 DEF RecordStep
<1>5. CASE EmitStepStarted
  BY <1>5 DEF EmitStepStarted
<1>6. CASE CallModel
  <2>1. PICK cost \in Costs : usage' = [usage EXCEPT !.tokens = usage.tokens + cost.tokens, !.money = usage.money + cost.money]
    BY <1>6 DEF CallModel
  <2> DEFINE t == usage.tokens + cost.tokens
             m == usage.money + cost.money
  <2>2. t \in Nat /\ m \in Nat
    OBVIOUS
  <2>3. late' = late
    BY <1>6 DEF CallModel
  <2>4. usage' = [usage EXCEPT !.tokens = t, !.money = m]
    BY <2>1
  <2> HIDE DEF t, m
  <2> QED BY <2>2, <2>3, <2>4
<1>7. CASE RecordUsage
  BY <1>7 DEF RecordUsage
<1>8. CASE EmitModelCalled
  BY <1>8 DEF EmitModelCalled
<1>9. CASE EmitDecision
  BY <1>9 DEF EmitDecision
<1>10. CASE NextCall
  BY <1>10 DEF NextCall
<1>11. CASE EmitToolCalled
  BY <1>11 DEF EmitToolCalled
<1>12. CASE Expire
  BY <1>12 DEF Expire
<1>13. CASE Invoke
  BY <1>13 DEF Invoke, NotFound, Refuse, RejectInput, RunTool, RunStateUpdate, Consume
<1>14. CASE EmitPolicyEvaluated
  BY <1>14 DEF EmitPolicyEvaluated
<1>15. CASE RecordToolCall
  BY <1>15 DEF RecordToolCall
<1>16. CASE RecordToolCallMetric
  BY <1>16 DEF RecordToolCallMetric
<1>17. CASE EmitToolResult
  BY <1>17 DEF EmitToolResult
<1>18. CASE EmitStateUpdated
  BY <1>18 DEF EmitStateUpdated
<1>19. CASE EvaluateGoal
  BY <1>19 DEF EvaluateGoal
<1>20. CASE Raise
  BY <1>20 DEF Raise
<1>21. CASE EmitError
  BY <1>21 DEF EmitError
<1>22. CASE FinishRun
  BY <1>22 DEF FinishRun
<1>23. CASE EmitFinished
  BY <1>23 DEF EmitFinished
<1>24. CASE UNCHANGED vars
  BY <1>24 DEF vars, dbVars, budgetVars, loopVars, callVars
<1> QED BY <1>1, <1>2, <1>3, <1>4, <1>5, <1>6, <1>7, <1>8, <1>9, <1>10, <1>11, <1>12, <1>13, <1>14, <1>15, <1>16, <1>17, <1>18, <1>19, <1>20, <1>21, <1>22, <1>23, <1>24 DEF Next, Done

LEMMA TypedTablesStep ==
  ASSUME Typed, [Next]_vars
  PROVE  TypedTables'
<1>a. TypedTables /\ TypedCall
  BY DEF Typed
<1> USE <1>a DEF TypedTables, dbVars, Goto, Emit, Event, StepEvent
<1>1. CASE InitState
  BY <1>1 DEF InitState, EventTypes
<1>2. CASE EmitStarted
  BY <1>2, LogsGrow DEF EmitStarted, EventTypes
<1>3. CASE CheckStep
  BY <1>3 DEF CheckStep
<1>4. CASE RecordStep
  BY <1>4 DEF RecordStep, Row
<1>5. CASE EmitStepStarted
  BY <1>5, LogsGrow DEF EmitStepStarted, EventTypes
<1>6. CASE CallModel
  BY <1>6 DEF CallModel
<1>7. CASE RecordUsage
  <2>1. answer.tokens \in Nat /\ answer.money \in Nat
    BY InputAssumption DEF Typed, TypedLoop
  <2> DEFINE t == row.tokens + answer.tokens
             m == row.money + answer.money
  <2>2. t \in Nat /\ m \in Nat
    BY <2>1 DEF Row
  <2>3. row' = [row EXCEPT !.tokens = t, !.money = m] /\ UNCHANGED <<runState, toolCalls, events>>
    BY <1>7 DEF RecordUsage
  <2> HIDE DEF t, m
  <2> QED BY <2>2, <2>3 DEF Row
<1>8. CASE EmitModelCalled
  BY <1>8, LogsGrow DEF EmitModelCalled, EventTypes
<1>9. CASE EmitDecision
  BY <1>9, LogsGrow DEF EmitDecision, EventTypes
<1>10. CASE NextCall
  BY <1>10 DEF NextCall
<1>11. CASE EmitToolCalled
  BY <1>11, LogsGrow DEF EmitToolCalled, EventTypes
<1>12. CASE Expire
  BY <1>12 DEF Expire
<1>13. CASE Invoke
  BY <1>13 DEF Invoke, NotFound, Refuse, RejectInput, RunTool, RunStateUpdate, Merge
<1>14. CASE EmitPolicyEvaluated
  BY <1>14, LogsGrow DEF EmitPolicyEvaluated, EventTypes
<1>15. CASE RecordToolCall
  <2>1. call \in Calls
    BY <1>15 DEF RecordToolCall, TypedCall, Calling
  <2> DEFINE c == [call |-> call, step |-> step, status |-> result.status, decision |-> result.decision]
  <2>2. toolCalls' = Append(toolCalls, c) /\ UNCHANGED <<row, runState, events>>
    BY <1>15 DEF RecordToolCall
  <2>3. c.call \in Calls
    BY <2>1
  <2> HIDE DEF c
  <2> QED BY <2>2, <2>3, LogsGrow
<1>16. CASE RecordToolCallMetric
  BY <1>16 DEF RecordToolCallMetric, Row
<1>17. CASE EmitToolResult
  BY <1>17, LogsGrow DEF EmitToolResult, EventTypes
<1>18. CASE EmitStateUpdated
  BY <1>18, LogsGrow DEF EmitStateUpdated, EventTypes
<1>19. CASE EvaluateGoal
  BY <1>19 DEF EvaluateGoal
<1>20. CASE Raise
  BY <1>20 DEF Raise
<1>21. CASE EmitError
  BY <1>21, LogsGrow DEF EmitError, EventTypes
<1>22. CASE FinishRun
  BY <1>22 DEF FinishRun, Row, TypedCall, Verdict, Ending
<1>23. CASE EmitFinished
  BY <1>23, LogsGrow DEF EmitFinished, EventTypes
<1>24. CASE UNCHANGED vars
  BY <1>24 DEF vars, dbVars, budgetVars, loopVars, callVars
<1> QED BY <1>1, <1>2, <1>3, <1>4, <1>5, <1>6, <1>7, <1>8, <1>9, <1>10, <1>11, <1>12, <1>13, <1>14, <1>15, <1>16, <1>17, <1>18, <1>19, <1>20, <1>21, <1>22, <1>23, <1>24 DEF Next, Done

LEMMA TypedLoopStep ==
  ASSUME Typed, [Next]_vars
  PROVE  TypedLoop'
<1>a. TypedLoop
  BY DEF Typed
<1> USE <1>a, InputAssumption, BudgetAssumption DEF TypedLoop, loopVars, Goto, Return, Reach, AfterCall, LoopOver, PC, Ending
<1>1. CASE InitState
  BY <1>1 DEF InitState
<1>2. CASE EmitStarted
  BY <1>2 DEF EmitStarted
<1>3. CASE CheckStep
  BY <1>3 DEF CheckStep
<1>4. CASE RecordStep
  BY <1>4 DEF RecordStep
<1>5. CASE EmitStepStarted
  BY <1>5 DEF EmitStepStarted
<1>6. CASE CallModel
  BY <1>6 DEF CallModel
<1>7. CASE RecordUsage
  BY <1>7 DEF RecordUsage
<1>8. CASE EmitModelCalled
  BY <1>8 DEF EmitModelCalled
<1>9. CASE EmitDecision
  BY <1>9 DEF EmitDecision
<1>10. CASE NextCall
  BY <1>10 DEF NextCall
<1>11. CASE EmitToolCalled
  BY <1>11 DEF EmitToolCalled
<1>12. CASE Expire
  BY <1>12 DEF Expire
<1>13. CASE Invoke
  BY <1>13 DEF Invoke, NotFound, Refuse, RejectInput, RunTool, RunStateUpdate, Returns
<1>14. CASE EmitPolicyEvaluated
  BY <1>14 DEF EmitPolicyEvaluated
<1>15. CASE RecordToolCall
  BY <1>15 DEF RecordToolCall
<1>16. CASE RecordToolCallMetric
  BY <1>16 DEF RecordToolCallMetric
<1>17. CASE EmitToolResult
  BY <1>17 DEF EmitToolResult
<1>18. CASE EmitStateUpdated
  BY <1>18 DEF EmitStateUpdated
<1>19. CASE EvaluateGoal
  BY <1>19 DEF EvaluateGoal
<1>20. CASE Raise
  BY <1>20 DEF Raise, TryBlock
<1>21. CASE EmitError
  BY <1>21 DEF EmitError
<1>22. CASE FinishRun
  BY <1>22 DEF FinishRun
<1>23. CASE EmitFinished
  BY <1>23 DEF EmitFinished
<1>24. CASE UNCHANGED vars
  BY <1>24 DEF vars, dbVars, budgetVars, loopVars, callVars
<1> QED BY <1>1, <1>2, <1>3, <1>4, <1>5, <1>6, <1>7, <1>8, <1>9, <1>10, <1>11, <1>12, <1>13, <1>14, <1>15, <1>16, <1>17, <1>18, <1>19, <1>20, <1>21, <1>22, <1>23, <1>24 DEF Next, Done

LEMMA TypedCallStep ==
  ASSUME Typed, [Next]_vars
  PROVE  TypedCall'
<1>a. TypedCall /\ TypedLoop
  BY DEF Typed
<1> USE <1>a DEF TypedCall, TypedLoop, callVars, Goto, Return, Reach, AfterCall, Calling, Ending
<1>1. CASE InitState
  BY <1>1 DEF InitState
<1>2. CASE EmitStarted
  BY <1>2 DEF EmitStarted
<1>3. CASE CheckStep
  BY <1>3, DimensionIsReason DEF CheckStep, Verdict, Terminal, Reasons
<1>4. CASE RecordStep
  BY <1>4 DEF RecordStep
<1>5. CASE EmitStepStarted
  BY <1>5 DEF EmitStepStarted
<1>6. CASE CallModel
  BY <1>6 DEF CallModel
<1>7. CASE RecordUsage
  BY <1>7 DEF RecordUsage
<1>8. CASE EmitModelCalled
  BY <1>8 DEF EmitModelCalled
<1>9. CASE EmitDecision
  BY <1>9 DEF EmitDecision
<1>10. CASE NextCall
  BY <1>10, DimensionIsReason DEF NextCall, Verdict, Terminal
<1>11. CASE EmitToolCalled
  BY <1>11 DEF EmitToolCalled
<1>12. CASE Expire
  BY <1>12 DEF Expire
<1>13. CASE Invoke
  BY <1>13 DEF Invoke, NotFound, Refuse, RejectInput, RunTool, RunStateUpdate, Returns
<1>14. CASE EmitPolicyEvaluated
  BY <1>14 DEF EmitPolicyEvaluated
<1>15. CASE RecordToolCall
  BY <1>15 DEF RecordToolCall
<1>16. CASE RecordToolCallMetric
  BY <1>16 DEF RecordToolCallMetric
<1>17. CASE EmitToolResult
  BY <1>17 DEF EmitToolResult
<1>18. CASE EmitStateUpdated
  BY <1>18 DEF EmitStateUpdated
<1>19. CASE EvaluateGoal
  BY <1>19, InputAssumption DEF EvaluateGoal, Verdict, Terminal, Reasons, DefaultReason
<1>20. CASE Raise
  BY <1>20 DEF Raise, TryBlock, PC
<1>21. CASE EmitError
  BY <1>21 DEF EmitError, Verdict, Terminal, Reasons
<1>22. CASE FinishRun
  BY <1>22 DEF FinishRun
<1>23. CASE EmitFinished
  BY <1>23 DEF EmitFinished
<1>24. CASE UNCHANGED vars
  BY <1>24 DEF vars, dbVars, budgetVars, loopVars, callVars
<1> QED BY <1>1, <1>2, <1>3, <1>4, <1>5, <1>6, <1>7, <1>8, <1>9, <1>10, <1>11, <1>12, <1>13, <1>14, <1>15, <1>16, <1>17, <1>18, <1>19, <1>20, <1>21, <1>22, <1>23, <1>24 DEF Next, Done

LEMMA NotEndedStep ==
  ASSUME Typed, NotEnded, [Next]_vars
  PROVE  NotEnded'
<1>a. TypedTables /\ TypedCall
  BY DEF Typed
<1> USE <1>a DEF NotEnded, TypedTables, TypedCall, dbVars, loopVars, callVars, Goto, Return, Reach, AfterCall, Row, Ending, Terminal
<1>1. CASE InitState
  BY <1>1 DEF InitState
<1>2. CASE EmitStarted
  BY <1>2 DEF EmitStarted
<1>3. CASE CheckStep
  BY <1>3 DEF CheckStep
<1>4. CASE RecordStep
  BY <1>4 DEF RecordStep
<1>5. CASE EmitStepStarted
  BY <1>5 DEF EmitStepStarted
<1>6. CASE CallModel
  BY <1>6 DEF CallModel
<1>7. CASE RecordUsage
  BY <1>7 DEF RecordUsage
<1>8. CASE EmitModelCalled
  BY <1>8 DEF EmitModelCalled
<1>9. CASE EmitDecision
  BY <1>9 DEF EmitDecision
<1>10. CASE NextCall
  BY <1>10 DEF NextCall
<1>11. CASE EmitToolCalled
  BY <1>11 DEF EmitToolCalled
<1>12. CASE Expire
  BY <1>12 DEF Expire
<1>13. CASE Invoke
  BY <1>13 DEF Invoke, NotFound, Refuse, RejectInput, RunTool, RunStateUpdate, Returns
<1>14. CASE EmitPolicyEvaluated
  BY <1>14 DEF EmitPolicyEvaluated
<1>15. CASE RecordToolCall
  BY <1>15 DEF RecordToolCall
<1>16. CASE RecordToolCallMetric
  BY <1>16 DEF RecordToolCallMetric
<1>17. CASE EmitToolResult
  BY <1>17 DEF EmitToolResult
<1>18. CASE EmitStateUpdated
  BY <1>18 DEF EmitStateUpdated
<1>19. CASE EvaluateGoal
  BY <1>19 DEF EvaluateGoal
<1>20. CASE Raise
  BY <1>20 DEF Raise, TryBlock, PC
<1>21. CASE EmitError
  BY <1>21 DEF EmitError
<1>22. CASE FinishRun
  BY <1>22 DEF FinishRun, Verdict
<1>23. CASE EmitFinished
  BY <1>23 DEF EmitFinished
<1>24. CASE UNCHANGED vars
  BY <1>24 DEF vars, dbVars, budgetVars, loopVars, callVars
<1> QED BY <1>1, <1>2, <1>3, <1>4, <1>5, <1>6, <1>7, <1>8, <1>9, <1>10, <1>11, <1>12, <1>13, <1>14, <1>15, <1>16, <1>17, <1>18, <1>19, <1>20, <1>21, <1>22, <1>23, <1>24 DEF Next, Done

-----------------------------------------------------------------------------
(* The tables and the log *)

LEMMA EmittedStay == events' = events => \A t : Emitted(t)' = Emitted(t)
BY DEF Emitted

LEMMA CallsStay ==
  toolCalls' = toolCalls => NAllowed' = NAllowed /\ NRefused' = NRefused /\ NRan' = NRan
BY DEF NAllowed, NRefused, NRan, Rows, Allowed, Refused, Ran

LEMMA CountsAreNumbers ==
  ASSUME TypedTables
  PROVE  /\ \A t : Emitted(t) \in Nat
         /\ NAllowed \in Nat /\ NRefused \in Nat /\ NRan \in Nat /\ Len(toolCalls) \in Nat
<1>1. IsLog(events) /\ IsLog(toolCalls)
  BY DEF TypedTables
<1>2. \A t : {i \in DOMAIN events : events[i].type = t} \in SUBSET DOMAIN events
  OBVIOUS
<1>3. \A t : Emitted(t) \in Nat
  BY <1>1, <1>2, OneMore DEF Emitted
<1>4. Rows(Allowed) \in SUBSET DOMAIN toolCalls /\ Rows(Refused) \in SUBSET DOMAIN toolCalls
      /\ Rows(Ran) \in SUBSET DOMAIN toolCalls
  BY DEF Rows
<1> QED BY <1>1, <1>3, <1>4, OneMore, Appended DEF NAllowed, NRefused, NRan

\* How far apart two tables are: one statement while the interpreter is
\* between the two, and perhaps for good if it crashed there.
StepGap == row.steps - Emitted("step.started")
CallGap == Emitted("tool.called") - Len(toolCalls)
ResultGap == Len(toolCalls) - Emitted("tool.result")
PolicyGap == Emitted("policy.evaluated") - NRefused
AllowedGap == NAllowed - row.tool_calls

Crashing == pc = "error" \/ (pc \in Ending /\ verdict[1] = "crashed")
Gap(n, here) == n \in IF here THEN {1} ELSE IF Crashing THEN {0, 1} ELSE {0}
Counted ==
  /\ Gap(StepGap, pc = "stepEvent")
  /\ Gap(CallGap, pc \in {"invoke", "policyEvent", "record"})
  /\ Gap(ResultGap, pc \in {"metric", "resultEvent"})
  /\ Gap(PolicyGap, pc = "record" /\ result.decision # "ALLOW")
  /\ Gap(AllowedGap, pc = "metric")
  /\ pc = "policyEvent" => result.decision # "ALLOW"
  /\ pc = "metric" => result.decision = "ALLOW"

Numbers ==
  /\ row.steps \in Nat /\ row.tool_calls \in Nat
  /\ \A t : Emitted(t) \in Nat
  /\ NAllowed \in Nat /\ NRefused \in Nat /\ Len(toolCalls) \in Nat

LEMMA GapsAfterEvent ==
  ASSUME Numbers, row' = row, Len(toolCalls') = Len(toolCalls), NAllowed' = NAllowed, NRefused' = NRefused,
         NEW type, \A t : Emitted(t)' = IF t = type THEN Emitted(t) + 1 ELSE Emitted(t)
  PROVE  /\ StepGap' = IF type = "step.started" THEN StepGap - 1 ELSE StepGap
         /\ CallGap' = IF type = "tool.called" THEN CallGap + 1 ELSE CallGap
         /\ ResultGap' = IF type = "tool.result" THEN ResultGap - 1 ELSE ResultGap
         /\ PolicyGap' = IF type = "policy.evaluated" THEN PolicyGap + 1 ELSE PolicyGap
         /\ AllowedGap' = AllowedGap
<1>1. StepGap' = IF type = "step.started" THEN StepGap - 1 ELSE StepGap
  BY DEF Numbers, StepGap
<1>2. CallGap' = IF type = "tool.called" THEN CallGap + 1 ELSE CallGap
  BY DEF Numbers, CallGap
<1>3. ResultGap' = IF type = "tool.result" THEN ResultGap - 1 ELSE ResultGap
  BY DEF Numbers, ResultGap
<1>4. PolicyGap' = IF type = "policy.evaluated" THEN PolicyGap + 1 ELSE PolicyGap
  BY DEF Numbers, PolicyGap
<1> QED BY <1>1, <1>2, <1>3, <1>4 DEF AllowedGap

LEMMA GapsAfterCall ==
  ASSUME Numbers, row' = row, \A t : Emitted(t)' = Emitted(t),
         Len(toolCalls') = Len(toolCalls) + 1, NEW allowed \in BOOLEAN,
         NAllowed' = IF allowed THEN NAllowed + 1 ELSE NAllowed,
         NRefused' = IF ~allowed THEN NRefused + 1 ELSE NRefused
  PROVE  /\ StepGap' = StepGap /\ CallGap' = CallGap - 1 /\ ResultGap' = ResultGap + 1
         /\ PolicyGap' = IF ~allowed THEN PolicyGap - 1 ELSE PolicyGap
         /\ AllowedGap' = IF allowed THEN AllowedGap + 1 ELSE AllowedGap
<1>1. StepGap' = StepGap
  BY DEF StepGap
<1>2. CallGap' = CallGap - 1
  BY DEF Numbers, CallGap
<1>3. ResultGap' = ResultGap + 1
  BY DEF Numbers, ResultGap
<1>4. PolicyGap' = IF ~allowed THEN PolicyGap - 1 ELSE PolicyGap
  BY DEF Numbers, PolicyGap
<1>5. AllowedGap' = IF allowed THEN AllowedGap + 1 ELSE AllowedGap
  BY DEF Numbers, AllowedGap
<1> QED BY <1>1, <1>2, <1>3, <1>4, <1>5

LEMMA GapsAfterCount ==
  ASSUME Numbers, \A t : Emitted(t)' = Emitted(t),
         Len(toolCalls') = Len(toolCalls), NAllowed' = NAllowed, NRefused' = NRefused
  PROVE  /\ row'.steps = row.steps + 1 => StepGap' = StepGap + 1
         /\ row'.steps = row.steps => StepGap' = StepGap
         /\ row'.tool_calls = row.tool_calls + 1 => AllowedGap' = AllowedGap - 1
         /\ row'.tool_calls = row.tool_calls => AllowedGap' = AllowedGap
<1>1. row'.steps = row.steps + 1 => StepGap' = StepGap + 1
  BY DEF Numbers, StepGap
<1>2. row'.tool_calls = row.tool_calls + 1 => AllowedGap' = AllowedGap - 1
  BY DEF Numbers, AllowedGap
<1> QED BY <1>1, <1>2 DEF StepGap, AllowedGap

LEMMA CountedStep ==
  ASSUME Typed, Counted, [Next]_vars
  PROVE  Counted'
<1>a. TypedTables /\ verdict \in Verdict
  BY DEF Typed, TypedCall
<1>b. Numbers
  BY <1>a, CountsAreNumbers DEF TypedTables, Row, Numbers
<1>c. IsLog(events) /\ IsLog(toolCalls) /\ row \in Row
  BY <1>a DEF TypedTables
<1> USE <1>a, <1>c DEF Counted, Gap, Crashing, Ending, Goto, Return, Reach, AfterCall, dbVars, callVars, Verdict
<1>1. CASE InitState
  <2>2. /\ StepGap' = StepGap
        /\ CallGap' = CallGap
        /\ ResultGap' = ResultGap
        /\ PolicyGap' = PolicyGap
        /\ AllowedGap' = AllowedGap
    BY <1>1, EmittedStay, CallsStay DEF InitState, StepGap, CallGap, ResultGap, PolicyGap, AllowedGap
  <2> QED BY <1>1, <2>2 DEF InitState
<1>2. CASE EmitStarted
  <2>1. \A t : Emitted(t)' = IF t = "run.started" THEN Emitted(t) + 1 ELSE Emitted(t)
    <3>1. PICK e : Emit(e) /\ e.type = "run.started"
      BY <1>2 DEF EmitStarted, Event, StepEvent
    <3> QED BY <3>1, EmittedAfter DEF Emit, TypedTables
  <2>3. /\ row' = row /\ Len(toolCalls') = Len(toolCalls) /\ NAllowed' = NAllowed /\ NRefused' = NRefused
    BY <1>2, CallsStay DEF EmitStarted
  <2>2. /\ StepGap' = StepGap
        /\ CallGap' = CallGap
        /\ ResultGap' = ResultGap
        /\ PolicyGap' = PolicyGap
        /\ AllowedGap' = AllowedGap
    <3>1. /\ Emitted("step.started")' = Emitted("step.started") /\ Emitted("tool.called")' = Emitted("tool.called")
          /\ Emitted("tool.result")' = Emitted("tool.result") /\ Emitted("policy.evaluated")' = Emitted("policy.evaluated")
      BY <2>1
    <3> QED BY <2>3, <3>1 DEF StepGap, CallGap, ResultGap, PolicyGap, AllowedGap
  <2> QED BY <1>2, <2>2 DEF EmitStarted
<1>3. CASE CheckStep
  <2>2. /\ StepGap' = StepGap
        /\ CallGap' = CallGap
        /\ ResultGap' = ResultGap
        /\ PolicyGap' = PolicyGap
        /\ AllowedGap' = AllowedGap
    BY <1>3, EmittedStay, CallsStay DEF CheckStep, StepGap, CallGap, ResultGap, PolicyGap, AllowedGap
  <2> QED BY <1>3, <2>2 DEF CheckStep
<1>4. CASE RecordStep
  <2>1. row'.steps = row.steps + 1 /\ row'.tool_calls = row.tool_calls
    BY <1>4 DEF RecordStep, Row
  <2>3. Len(toolCalls') = Len(toolCalls) /\ NAllowed' = NAllowed /\ NRefused' = NRefused /\ \A t : Emitted(t)' = Emitted(t)
    BY <1>4, EmittedStay, CallsStay DEF RecordStep
  <2>2. /\ StepGap' = StepGap + 1
        /\ CallGap' = CallGap
        /\ ResultGap' = ResultGap
        /\ PolicyGap' = PolicyGap
        /\ AllowedGap' = AllowedGap
    BY <1>b, <2>1, <2>3, GapsAfterCount DEF CallGap, ResultGap, PolicyGap
  <2> QED BY <1>4, <2>2 DEF RecordStep
<1>5. CASE EmitStepStarted
  <2>1. \A t : Emitted(t)' = IF t = "step.started" THEN Emitted(t) + 1 ELSE Emitted(t)
    <3>1. PICK e : Emit(e) /\ e.type = "step.started"
      BY <1>5 DEF EmitStepStarted, Event, StepEvent
    <3> QED BY <3>1, EmittedAfter DEF Emit, TypedTables
  <2>3. /\ row' = row /\ Len(toolCalls') = Len(toolCalls) /\ NAllowed' = NAllowed /\ NRefused' = NRefused
    BY <1>5, CallsStay DEF EmitStepStarted
  <2>2. /\ StepGap' = StepGap - 1
        /\ CallGap' = CallGap
        /\ ResultGap' = ResultGap
        /\ PolicyGap' = PolicyGap
        /\ AllowedGap' = AllowedGap
    BY <1>b, <2>1, <2>3, GapsAfterEvent
  <2> QED BY <1>5, <2>2 DEF EmitStepStarted
<1>6. CASE CallModel
  <2>2. /\ StepGap' = StepGap
        /\ CallGap' = CallGap
        /\ ResultGap' = ResultGap
        /\ PolicyGap' = PolicyGap
        /\ AllowedGap' = AllowedGap
    BY <1>6, EmittedStay, CallsStay DEF CallModel, StepGap, CallGap, ResultGap, PolicyGap, AllowedGap
  <2> QED BY <1>6, <2>2 DEF CallModel
<1>7. CASE RecordUsage
  <2>2. /\ StepGap' = StepGap
        /\ CallGap' = CallGap
        /\ ResultGap' = ResultGap
        /\ PolicyGap' = PolicyGap
        /\ AllowedGap' = AllowedGap
    BY <1>7, EmittedStay, CallsStay DEF RecordUsage, StepGap, CallGap, ResultGap, PolicyGap, AllowedGap
  <2> QED BY <1>7, <2>2 DEF RecordUsage
<1>8. CASE EmitModelCalled
  <2>1. \A t : Emitted(t)' = IF t = "llm.called" THEN Emitted(t) + 1 ELSE Emitted(t)
    <3>1. PICK e : Emit(e) /\ e.type = "llm.called"
      BY <1>8 DEF EmitModelCalled, Event, StepEvent
    <3> QED BY <3>1, EmittedAfter DEF Emit, TypedTables
  <2>3. /\ row' = row /\ Len(toolCalls') = Len(toolCalls) /\ NAllowed' = NAllowed /\ NRefused' = NRefused
    BY <1>8, CallsStay DEF EmitModelCalled
  <2>2. /\ StepGap' = StepGap
        /\ CallGap' = CallGap
        /\ ResultGap' = ResultGap
        /\ PolicyGap' = PolicyGap
        /\ AllowedGap' = AllowedGap
    <3>1. /\ Emitted("step.started")' = Emitted("step.started") /\ Emitted("tool.called")' = Emitted("tool.called")
          /\ Emitted("tool.result")' = Emitted("tool.result") /\ Emitted("policy.evaluated")' = Emitted("policy.evaluated")
      BY <2>1
    <3> QED BY <2>3, <3>1 DEF StepGap, CallGap, ResultGap, PolicyGap, AllowedGap
  <2> QED BY <1>8, <2>2 DEF EmitModelCalled
<1>9. CASE EmitDecision
  <2>1. \A t : Emitted(t)' = IF t = "decision.made" THEN Emitted(t) + 1 ELSE Emitted(t)
    <3>1. PICK e : Emit(e) /\ e.type = "decision.made"
      BY <1>9 DEF EmitDecision, Event, StepEvent
    <3> QED BY <3>1, EmittedAfter DEF Emit, TypedTables
  <2>3. /\ row' = row /\ Len(toolCalls') = Len(toolCalls) /\ NAllowed' = NAllowed /\ NRefused' = NRefused
    BY <1>9, CallsStay DEF EmitDecision
  <2>2. /\ StepGap' = StepGap
        /\ CallGap' = CallGap
        /\ ResultGap' = ResultGap
        /\ PolicyGap' = PolicyGap
        /\ AllowedGap' = AllowedGap
    <3>1. /\ Emitted("step.started")' = Emitted("step.started") /\ Emitted("tool.called")' = Emitted("tool.called")
          /\ Emitted("tool.result")' = Emitted("tool.result") /\ Emitted("policy.evaluated")' = Emitted("policy.evaluated")
      BY <2>1
    <3> QED BY <2>3, <3>1 DEF StepGap, CallGap, ResultGap, PolicyGap, AllowedGap
  <2> QED BY <1>9, <2>2 DEF EmitDecision
<1>10. CASE NextCall
  <2>2. /\ StepGap' = StepGap
        /\ CallGap' = CallGap
        /\ ResultGap' = ResultGap
        /\ PolicyGap' = PolicyGap
        /\ AllowedGap' = AllowedGap
    BY <1>10, EmittedStay, CallsStay DEF NextCall, StepGap, CallGap, ResultGap, PolicyGap, AllowedGap
  <2> QED BY <1>10, <2>2 DEF NextCall
<1>11. CASE EmitToolCalled
  <2>1. \A t : Emitted(t)' = IF t = "tool.called" THEN Emitted(t) + 1 ELSE Emitted(t)
    <3>1. PICK e : Emit(e) /\ e.type = "tool.called"
      BY <1>11 DEF EmitToolCalled, Event, StepEvent
    <3> QED BY <3>1, EmittedAfter DEF Emit, TypedTables
  <2>3. /\ row' = row /\ Len(toolCalls') = Len(toolCalls) /\ NAllowed' = NAllowed /\ NRefused' = NRefused
    BY <1>11, CallsStay DEF EmitToolCalled
  <2>2. /\ StepGap' = StepGap
        /\ CallGap' = CallGap + 1
        /\ ResultGap' = ResultGap
        /\ PolicyGap' = PolicyGap
        /\ AllowedGap' = AllowedGap
    BY <1>b, <2>1, <2>3, GapsAfterEvent
  <2> QED BY <1>11, <2>2 DEF EmitToolCalled
<1>12. CASE Expire
  <2>2. /\ StepGap' = StepGap
        /\ CallGap' = CallGap
        /\ ResultGap' = ResultGap
        /\ PolicyGap' = PolicyGap
        /\ AllowedGap' = AllowedGap
    BY <1>12, EmittedStay, CallsStay DEF Expire, StepGap, CallGap, ResultGap, PolicyGap, AllowedGap
  <2> QED BY <1>12, <2>2 DEF Expire
<1>13. CASE Invoke
  <2>2. /\ StepGap' = StepGap
        /\ CallGap' = CallGap
        /\ ResultGap' = ResultGap
        /\ PolicyGap' = PolicyGap
        /\ AllowedGap' = AllowedGap
    BY <1>13, EmittedStay, CallsStay DEF Invoke, NotFound, Refuse, RejectInput, RunTool, RunStateUpdate, Returns, StepGap, CallGap, ResultGap, PolicyGap, AllowedGap
  <2> QED BY <1>13, <2>2 DEF Invoke, NotFound, Refuse, RejectInput, RunTool, RunStateUpdate, Returns
<1>14. CASE EmitPolicyEvaluated
  <2>1. \A t : Emitted(t)' = IF t = "policy.evaluated" THEN Emitted(t) + 1 ELSE Emitted(t)
    <3>1. PICK e : Emit(e) /\ e.type = "policy.evaluated"
      BY <1>14 DEF EmitPolicyEvaluated, Event, StepEvent
    <3> QED BY <3>1, EmittedAfter DEF Emit, TypedTables
  <2>3. /\ row' = row /\ Len(toolCalls') = Len(toolCalls) /\ NAllowed' = NAllowed /\ NRefused' = NRefused
    BY <1>14, CallsStay DEF EmitPolicyEvaluated
  <2>2. /\ StepGap' = StepGap
        /\ CallGap' = CallGap
        /\ ResultGap' = ResultGap
        /\ PolicyGap' = PolicyGap + 1
        /\ AllowedGap' = AllowedGap
    BY <1>b, <2>1, <2>3, GapsAfterEvent
  <2> QED BY <1>14, <2>2 DEF EmitPolicyEvaluated
<1>15. CASE RecordToolCall
  <2> DEFINE c == [call |-> call, step |-> step, status |-> result.status, decision |-> result.decision]
  <2>1. /\ NAllowed' = IF result.decision = "ALLOW" THEN NAllowed + 1 ELSE NAllowed
        /\ NRefused' = IF result.decision # "ALLOW" THEN NRefused + 1 ELSE NRefused
        /\ Len(toolCalls') = Len(toolCalls) + 1
    <3>1. toolCalls' = Append(toolCalls, c) /\ c.decision = result.decision
      BY <1>15 DEF RecordToolCall
    <3> HIDE DEF c
    <3> QED BY <3>1, CallsAfter, Appended DEF Allowed, Refused
  <2>2. /\ StepGap' = StepGap /\ CallGap' = CallGap - 1 /\ ResultGap' = ResultGap + 1
        /\ PolicyGap' = IF result.decision # "ALLOW" THEN PolicyGap - 1 ELSE PolicyGap
        /\ AllowedGap' = IF result.decision = "ALLOW" THEN AllowedGap + 1 ELSE AllowedGap
    <3>1. row' = row /\ \A t : Emitted(t)' = Emitted(t)
      BY <1>15, EmittedStay DEF RecordToolCall
    <3> QED BY <1>b, <2>1, <3>1, GapsAfterCall
  <2> QED BY <1>15, <2>2 DEF RecordToolCall
<1>16. CASE RecordToolCallMetric
  <2>1. row'.steps = row.steps /\ row'.tool_calls = row.tool_calls + 1
    BY <1>16 DEF RecordToolCallMetric, Row
  <2>3. Len(toolCalls') = Len(toolCalls) /\ NAllowed' = NAllowed /\ NRefused' = NRefused /\ \A t : Emitted(t)' = Emitted(t)
    BY <1>16, EmittedStay, CallsStay DEF RecordToolCallMetric
  <2>2. /\ StepGap' = StepGap
        /\ CallGap' = CallGap
        /\ ResultGap' = ResultGap
        /\ PolicyGap' = PolicyGap
        /\ AllowedGap' = AllowedGap - 1
    BY <1>b, <2>1, <2>3, GapsAfterCount DEF CallGap, ResultGap, PolicyGap
  <2> QED BY <1>16, <2>2 DEF RecordToolCallMetric
<1>17. CASE EmitToolResult
  <2>1. \A t : Emitted(t)' = IF t = "tool.result" THEN Emitted(t) + 1 ELSE Emitted(t)
    <3>1. PICK e : Emit(e) /\ e.type = "tool.result"
      BY <1>17 DEF EmitToolResult, Event, StepEvent
    <3> QED BY <3>1, EmittedAfter DEF Emit, TypedTables
  <2>3. /\ row' = row /\ Len(toolCalls') = Len(toolCalls) /\ NAllowed' = NAllowed /\ NRefused' = NRefused
    BY <1>17, CallsStay DEF EmitToolResult
  <2>2. /\ StepGap' = StepGap
        /\ CallGap' = CallGap
        /\ ResultGap' = ResultGap - 1
        /\ PolicyGap' = PolicyGap
        /\ AllowedGap' = AllowedGap
    BY <1>b, <2>1, <2>3, GapsAfterEvent
  <2> QED BY <1>17, <2>2 DEF EmitToolResult
<1>18. CASE EmitStateUpdated
  <2>1. \A t : Emitted(t)' = IF t = "state.updated" THEN Emitted(t) + 1 ELSE Emitted(t)
    <3>1. PICK e : Emit(e) /\ e.type = "state.updated"
      BY <1>18 DEF EmitStateUpdated, Event, StepEvent
    <3> QED BY <3>1, EmittedAfter DEF Emit, TypedTables
  <2>3. /\ row' = row /\ Len(toolCalls') = Len(toolCalls) /\ NAllowed' = NAllowed /\ NRefused' = NRefused
    BY <1>18, CallsStay DEF EmitStateUpdated
  <2>2. /\ StepGap' = StepGap
        /\ CallGap' = CallGap
        /\ ResultGap' = ResultGap
        /\ PolicyGap' = PolicyGap
        /\ AllowedGap' = AllowedGap
    <3>1. /\ Emitted("step.started")' = Emitted("step.started") /\ Emitted("tool.called")' = Emitted("tool.called")
          /\ Emitted("tool.result")' = Emitted("tool.result") /\ Emitted("policy.evaluated")' = Emitted("policy.evaluated")
      BY <2>1
    <3> QED BY <2>3, <3>1 DEF StepGap, CallGap, ResultGap, PolicyGap, AllowedGap
  <2> QED BY <1>18, <2>2 DEF EmitStateUpdated
<1>19. CASE EvaluateGoal
  <2>2. /\ StepGap' = StepGap
        /\ CallGap' = CallGap
        /\ ResultGap' = ResultGap
        /\ PolicyGap' = PolicyGap
        /\ AllowedGap' = AllowedGap
    BY <1>19, EmittedStay, CallsStay DEF EvaluateGoal, StepGap, CallGap, ResultGap, PolicyGap, AllowedGap
  <2> QED BY <1>19, <2>2 DEF EvaluateGoal
<1>20. CASE Raise
  <2>2. /\ StepGap' = StepGap
        /\ CallGap' = CallGap
        /\ ResultGap' = ResultGap
        /\ PolicyGap' = PolicyGap
        /\ AllowedGap' = AllowedGap
    BY <1>20, EmittedStay, CallsStay DEF Raise, TryBlock, StepGap, CallGap, ResultGap, PolicyGap, AllowedGap
  <2> QED BY <1>20, <2>2 DEF Raise, TryBlock
<1>21. CASE EmitError
  <2>1. \A t : Emitted(t)' = IF t = "error.raised" THEN Emitted(t) + 1 ELSE Emitted(t)
    <3>1. PICK e : Emit(e) /\ e.type = "error.raised"
      BY <1>21 DEF EmitError, Event, StepEvent
    <3> QED BY <3>1, EmittedAfter DEF Emit, TypedTables
  <2>3. /\ row' = row /\ Len(toolCalls') = Len(toolCalls) /\ NAllowed' = NAllowed /\ NRefused' = NRefused
    BY <1>21, CallsStay DEF EmitError
  <2>2. /\ StepGap' = StepGap
        /\ CallGap' = CallGap
        /\ ResultGap' = ResultGap
        /\ PolicyGap' = PolicyGap
        /\ AllowedGap' = AllowedGap
    <3>1. /\ Emitted("step.started")' = Emitted("step.started") /\ Emitted("tool.called")' = Emitted("tool.called")
          /\ Emitted("tool.result")' = Emitted("tool.result") /\ Emitted("policy.evaluated")' = Emitted("policy.evaluated")
      BY <2>1
    <3> QED BY <2>3, <3>1 DEF StepGap, CallGap, ResultGap, PolicyGap, AllowedGap
  <2> QED BY <1>21, <2>2 DEF EmitError
<1>22. CASE FinishRun
  <2>2. /\ StepGap' = StepGap
        /\ CallGap' = CallGap
        /\ ResultGap' = ResultGap
        /\ PolicyGap' = PolicyGap
        /\ AllowedGap' = AllowedGap
    BY <1>22, EmittedStay, CallsStay DEF FinishRun, StepGap, CallGap, ResultGap, PolicyGap, AllowedGap
  <2> QED BY <1>22, <2>2 DEF FinishRun
<1>23. CASE EmitFinished
  <2>1. \A t : Emitted(t)' = IF t = "run.finished" THEN Emitted(t) + 1 ELSE Emitted(t)
    <3>1. PICK e : Emit(e) /\ e.type = "run.finished"
      BY <1>23 DEF EmitFinished, Event, StepEvent
    <3> QED BY <3>1, EmittedAfter DEF Emit, TypedTables
  <2>3. /\ row' = row /\ Len(toolCalls') = Len(toolCalls) /\ NAllowed' = NAllowed /\ NRefused' = NRefused
    BY <1>23, CallsStay DEF EmitFinished
  <2>2. /\ StepGap' = StepGap
        /\ CallGap' = CallGap
        /\ ResultGap' = ResultGap
        /\ PolicyGap' = PolicyGap
        /\ AllowedGap' = AllowedGap
    <3>1. /\ Emitted("step.started")' = Emitted("step.started") /\ Emitted("tool.called")' = Emitted("tool.called")
          /\ Emitted("tool.result")' = Emitted("tool.result") /\ Emitted("policy.evaluated")' = Emitted("policy.evaluated")
      BY <2>1
    <3> QED BY <2>3, <3>1 DEF StepGap, CallGap, ResultGap, PolicyGap, AllowedGap
  <2> QED BY <1>23, <2>2 DEF EmitFinished
<1>24. CASE UNCHANGED vars
  <2>2. /\ StepGap' = StepGap /\ CallGap' = CallGap /\ ResultGap' = ResultGap
        /\ PolicyGap' = PolicyGap /\ AllowedGap' = AllowedGap
    BY <1>24, EmittedStay, CallsStay DEF vars, dbVars, StepGap, CallGap, ResultGap, PolicyGap, AllowedGap
  <2> QED BY <1>24, <2>2 DEF vars, dbVars, budgetVars, loopVars, callVars
<1> QED BY <1>1, <1>2, <1>3, <1>4, <1>5, <1>6, <1>7, <1>8, <1>9, <1>10, <1>11, <1>12, <1>13, <1>14, <1>15, <1>16, <1>17, <1>18, <1>19, <1>20, <1>21, <1>22, <1>23, <1>24 DEF Next, Done

-----------------------------------------------------------------------------
(* The budget *)

LEMMA HasBudget ==
  ASSUME Typed, ExhaustedDimension = "none"
  PROVE  usage.tool_calls < MaxToolCalls /\ usage.tokens < MaxTokens /\ usage.money < MaxMoney
<1>1. ~Spent[2] /\ ~Spent[3] /\ ~Spent[4]
  BY FirstSpent
<1>2. /\ Spent[2] <=> usage.money >= MaxMoney
      /\ Spent[3] <=> usage.tokens >= MaxTokens
      /\ Spent[4] <=> usage.tool_calls >= MaxToolCalls
  BY DEF Spent
<1> QED BY <1>1, <1>2, BudgetAssumption DEF Typed, TypedBudget

LEMMA AllowedMeans ==
  ASSUME Typed, call \in Calls
  PROVE  Decision = "ALLOW" <=> Permits(policies, call.spec, call.table) /\ ExhaustedDimension = "none"
<1>1. /\ policies \in Policies /\ call.spec \in Tools /\ call.table \in Tables \cup {NoTable}
      /\ NoTable \notin Tables
  BY InputAssumption DEF Typed, TypedLoop
<1>2. (ExhaustedDimension # "none") \in BOOLEAN /\ FALSE \in BOOLEAN
  OBVIOUS
<1> QED BY <1>1, <1>2, AllowExactlyWhenPermitted DEF Decision

\* A call that ran, and whose row is still to be written, has been charged.
Charged == IF pc \in {"policyEvent", "record"} /\ result.decision = "ALLOW" /\ call.valid THEN 1 ELSE 0
CallsCharged ==
  /\ usage.tool_calls <= MaxToolCalls
  /\ NRan + Charged <= usage.tool_calls

LEMMA CallsChargedStep ==
  ASSUME Typed, CallsCharged, [Next]_vars
  PROVE  CallsCharged'
<1>a. /\ usage.tool_calls \in Nat /\ NRan \in Nat /\ MaxToolCalls \in Nat
      /\ IsLog(toolCalls) /\ DOMAIN usage = {"tool_calls", "tokens", "money"}
  BY CountsAreNumbers, BudgetAssumption DEF Typed, TypedBudget, TypedTables
<1> USE <1>a DEF CallsCharged, Charged, budgetVars, dbVars, callVars, Goto, Return, Reach, AfterCall
<1>1. CASE InitState
  BY <1>1, CallsStay DEF InitState
<1>2. CASE EmitStarted
  BY <1>2, CallsStay DEF EmitStarted
<1>3. CASE CheckStep
  BY <1>3, CallsStay DEF CheckStep
<1>4. CASE RecordStep
  BY <1>4, CallsStay DEF RecordStep
<1>5. CASE EmitStepStarted
  BY <1>5, CallsStay DEF EmitStepStarted
<1>6. CASE CallModel
  BY <1>6, CallsStay DEF CallModel
<1>7. CASE RecordUsage
  BY <1>7, CallsStay DEF RecordUsage
<1>8. CASE EmitModelCalled
  BY <1>8, CallsStay DEF EmitModelCalled
<1>9. CASE EmitDecision
  BY <1>9, CallsStay DEF EmitDecision
<1>10. CASE NextCall
  BY <1>10, CallsStay DEF NextCall
<1>11. CASE EmitToolCalled
  BY <1>11, CallsStay DEF EmitToolCalled
<1>12. CASE Expire
  BY <1>12, CallsStay DEF Expire
<1>13. CASE Invoke
  <2>0. NRan' = NRan /\ pc = "invoke" /\ call \in Calls /\ call' = call /\ call.valid \in BOOLEAN
    BY <1>13, CallsStay, InputAssumption DEF Invoke, Typed, TypedCall, Calling
  <2>1. CASE NotFound \/ Refuse \/ RejectInput
    BY <1>13, <2>0, <2>1 DEF Invoke, NotFound, Refuse, RejectInput, Returns
  <2>2. CASE RunTool \/ RunStateUpdate
    <3>1. Decision = "ALLOW" /\ usage' = [usage EXCEPT !.tool_calls = usage.tool_calls + 1]
      BY <2>2 DEF RunTool, RunStateUpdate, Consume
    <3>2. usage.tool_calls < MaxToolCalls
      BY <2>0, <3>1, AllowedMeans, HasBudget
    <3>3. usage'.tool_calls = usage.tool_calls + 1
      BY <3>1
    <3>4. Charged' <= 1 /\ Charged' \in Nat
      OBVIOUS
    <3> QED BY <2>0, <3>2, <3>3, <3>4
  <2> QED BY <1>13, <2>1, <2>2 DEF Invoke
<1>14. CASE EmitPolicyEvaluated
  BY <1>14, CallsStay DEF EmitPolicyEvaluated
<1>15. CASE RecordToolCall
  <2> DEFINE c == [call |-> call, step |-> step, status |-> result.status, decision |-> result.decision]
  <2>1. toolCalls' = Append(toolCalls, c) /\ c.decision = result.decision /\ c.call = call
    BY <1>15 DEF RecordToolCall
  <2>2. NRan' = IF result.decision = "ALLOW" /\ call.valid THEN NRan + 1 ELSE NRan
    <3> HIDE DEF c
    <3> QED BY <2>1, CallsAfter DEF Ran
  <2>3. usage' = usage /\ pc = "record" /\ pc' \notin {"policyEvent", "record"}
    BY <1>15 DEF RecordToolCall
  <2> HIDE DEF c
  <2> QED BY <2>2, <2>3
<1>16. CASE RecordToolCallMetric
  BY <1>16, CallsStay DEF RecordToolCallMetric
<1>17. CASE EmitToolResult
  BY <1>17, CallsStay DEF EmitToolResult
<1>18. CASE EmitStateUpdated
  BY <1>18, CallsStay DEF EmitStateUpdated
<1>19. CASE EvaluateGoal
  BY <1>19, CallsStay DEF EvaluateGoal
<1>20. CASE Raise
  BY <1>20, CallsStay DEF Raise, TryBlock
<1>21. CASE EmitError
  BY <1>21, CallsStay DEF EmitError
<1>22. CASE FinishRun
  BY <1>22, CallsStay DEF FinishRun
<1>23. CASE EmitFinished
  BY <1>23, CallsStay DEF EmitFinished
<1>24. CASE UNCHANGED vars
  BY <1>24, CallsStay DEF vars, dbVars, budgetVars, loopVars, callVars
<1> QED BY <1>1, <1>2, <1>3, <1>4, <1>5, <1>6, <1>7, <1>8, <1>9, <1>10, <1>11, <1>12, <1>13, <1>14, <1>15, <1>16, <1>17, <1>18, <1>19, <1>20, <1>21, <1>22, <1>23, <1>24 DEF Next, Done

\* The budget is looked at before the model is called, and what its answer
\* costs is charged before the row is.
TokensCharged ==
  /\ pc \in {"step", "stepEvent", "llm"} => usage.tokens < MaxTokens /\ usage.money < MaxMoney
  /\ usage.tokens < MaxTokens + MaxAnswerTokens /\ usage.money < MaxMoney + MaxAnswerMoney
  /\ row.tokens + (IF pc = "llmUsage" THEN answer.tokens ELSE 0) <= usage.tokens
  /\ row.money + (IF pc = "llmUsage" THEN answer.money ELSE 0) <= usage.money

LEMMA TokensChargedStep ==
  ASSUME Typed, TokensCharged, [Next]_vars
  PROVE  TokensCharged'
<1>a. /\ {usage.tokens, usage.money, row.tokens, row.money, answer.tokens, answer.money} \subseteq Nat
      /\ {MaxTokens, MaxMoney, MaxAnswerTokens, MaxAnswerMoney} \subseteq Nat
      /\ DOMAIN usage = {"tool_calls", "tokens", "money"}
      /\ row \in Row
  BY BudgetAssumption, InputAssumption DEF Typed, TypedBudget, TypedTables, TypedLoop, Row
<1> USE <1>a DEF TokensCharged, budgetVars, dbVars, loopVars, Goto, Return, Reach, AfterCall
<1>1. CASE InitState
  BY <1>1 DEF InitState
<1>2. CASE EmitStarted
  BY <1>2 DEF EmitStarted
<1>3. CASE CheckStep
  BY <1>3, HasBudget DEF CheckStep
<1>4. CASE RecordStep
  <2>1. row'.tokens = row.tokens /\ row'.money = row.money /\ usage' = usage /\ pc = "step" /\ pc' = "stepEvent"
    BY <1>4 DEF RecordStep, Row
  <2> QED BY <2>1
<1>5. CASE EmitStepStarted
  BY <1>5 DEF EmitStepStarted
<1>6. CASE CallModel
  <2>1. PICK n \in 0..MaxCallsPerAnswer, cost \in Costs :
          /\ answer' = [calls |-> n, tokens |-> cost.tokens, money |-> cost.money]
          /\ usage' = [usage EXCEPT !.tokens = usage.tokens + cost.tokens, !.money = usage.money + cost.money]
    BY <1>6 DEF CallModel
  <2>2. cost.tokens \in 0..MaxAnswerTokens /\ cost.money \in 0..MaxAnswerMoney
    BY InputAssumption
  <2>3. /\ usage'.tokens = usage.tokens + cost.tokens /\ usage'.money = usage.money + cost.money
        /\ answer'.tokens = cost.tokens /\ answer'.money = cost.money
    BY <2>1
  <2>4. row' = row /\ pc = "llm" /\ pc' = "llmUsage"
    BY <1>6 DEF CallModel
  <2> QED BY <2>2, <2>3, <2>4
<1>7. CASE RecordUsage
  <2>1. /\ row'.tokens = row.tokens + answer.tokens /\ row'.money = row.money + answer.money
        /\ usage' = usage /\ pc = "llmUsage" /\ pc' = "llmEvent"
    BY <1>7 DEF RecordUsage, Row
  <2> QED BY <2>1
<1>8. CASE EmitModelCalled
  BY <1>8 DEF EmitModelCalled
<1>9. CASE EmitDecision
  BY <1>9 DEF EmitDecision
<1>10. CASE NextCall
  BY <1>10 DEF NextCall
<1>11. CASE EmitToolCalled
  BY <1>11 DEF EmitToolCalled
<1>12. CASE Expire
  BY <1>12 DEF Expire
<1>13. CASE Invoke
  <2>1. usage'.tokens = usage.tokens /\ usage'.money = usage.money /\ UNCHANGED <<row, answer>>
    BY <1>13 DEF Invoke, NotFound, Refuse, RejectInput, RunTool, RunStateUpdate, Consume
  <2>2. pc' \notin {"step", "stepEvent", "llm", "llmUsage"} /\ pc # "llmUsage"
    BY <1>13 DEF Invoke, NotFound, Refuse, RejectInput, RunTool, RunStateUpdate, Returns
  <2> QED BY <2>1, <2>2
<1>14. CASE EmitPolicyEvaluated
  BY <1>14 DEF EmitPolicyEvaluated
<1>15. CASE RecordToolCall
  BY <1>15 DEF RecordToolCall
<1>16. CASE RecordToolCallMetric
  <2>1. row'.tokens = row.tokens /\ row'.money = row.money /\ usage' = usage /\ pc = "metric" /\ pc' = "resultEvent"
    BY <1>16 DEF RecordToolCallMetric, Row
  <2> QED BY <2>1
<1>17. CASE EmitToolResult
  BY <1>17 DEF EmitToolResult
<1>18. CASE EmitStateUpdated
  BY <1>18 DEF EmitStateUpdated
<1>19. CASE EvaluateGoal
  BY <1>19 DEF EvaluateGoal
<1>20. CASE Raise
  BY <1>20 DEF Raise, TryBlock
<1>21. CASE EmitError
  BY <1>21 DEF EmitError
<1>22. CASE FinishRun
  <2>1. row'.tokens = row.tokens /\ row'.money = row.money /\ usage' = usage /\ pc = "finish" /\ pc' = "finished"
    BY <1>22 DEF FinishRun, Row
  <2> QED BY <2>1
<1>23. CASE EmitFinished
  BY <1>23 DEF EmitFinished
<1>24. CASE UNCHANGED vars
  BY <1>24 DEF vars, dbVars, budgetVars, loopVars, callVars
<1> QED BY <1>1, <1>2, <1>3, <1>4, <1>5, <1>6, <1>7, <1>8, <1>9, <1>10, <1>11, <1>12, <1>13, <1>14, <1>15, <1>16, <1>17, <1>18, <1>19, <1>20, <1>21, <1>22, <1>23, <1>24 DEF Next, Done

-----------------------------------------------------------------------------
(* The policy *)

NotRefused(c) == c.status \notin {"denied", "pending_approval"}
CallsPermitted ==
  /\ PolicyRespected
  /\ pc \in {"policyEvent", "record"} /\ NotRefused(result) => Permits(policies, call.spec, call.table)

LEMMA CallsPermittedStep ==
  ASSUME Typed, CallsPermitted, [Next]_vars
  PROVE  CallsPermitted'
<1>a. IsLog(toolCalls)
  BY DEF Typed, TypedTables
<1> USE <1>a DEF CallsPermitted, PolicyRespected, NotRefused, dbVars, callVars, Goto, Return, Reach, AfterCall
<1>1. CASE InitState
  BY <1>1 DEF InitState
<1>2. CASE EmitStarted
  BY <1>2 DEF EmitStarted
<1>3. CASE CheckStep
  BY <1>3 DEF CheckStep
<1>4. CASE RecordStep
  BY <1>4 DEF RecordStep
<1>5. CASE EmitStepStarted
  BY <1>5 DEF EmitStepStarted
<1>6. CASE CallModel
  BY <1>6 DEF CallModel
<1>7. CASE RecordUsage
  BY <1>7 DEF RecordUsage
<1>8. CASE EmitModelCalled
  BY <1>8 DEF EmitModelCalled
<1>9. CASE EmitDecision
  BY <1>9 DEF EmitDecision
<1>10. CASE NextCall
  BY <1>10 DEF NextCall
<1>11. CASE EmitToolCalled
  BY <1>11 DEF EmitToolCalled
<1>12. CASE Expire
  BY <1>12 DEF Expire
<1>13. CASE Invoke
  <2>1. pc = "invoke" /\ call \in Calls /\ UNCHANGED <<toolCalls, policies, call>>
    BY <1>13 DEF Invoke, Typed, TypedCall, Calling
  <2>2. result' # result /\ NotRefused(result') => Decision = "ALLOW"
    BY <1>13 DEF Invoke, NotFound, Refuse, RejectInput, RunTool, RunStateUpdate, Returns
  <2>3. pc' \in {"policyEvent", "record"} /\ NotRefused(result') => Decision = "ALLOW"
    BY <1>13, <2>1 DEF Invoke, NotFound, Refuse, RejectInput, RunTool, RunStateUpdate, Returns
  <2> QED BY <2>1, <2>3, AllowedMeans
<1>14. CASE EmitPolicyEvaluated
  BY <1>14 DEF EmitPolicyEvaluated
<1>15. CASE RecordToolCall
  <2> DEFINE c == [call |-> call, step |-> step, status |-> result.status, decision |-> result.decision]
  <2>1. toolCalls' = Append(toolCalls, c) /\ c.status = result.status /\ c.call = call
        /\ policies' = policies /\ pc = "record" /\ pc' \notin {"policyEvent", "record"}
    BY <1>15 DEF RecordToolCall
  <2>2. NotRefused(c) => Permits(policies, c.call.spec, c.call.table)
    BY <2>1
  <2> HIDE DEF c
  <2> QED BY <2>1, <2>2, Appended
<1>16. CASE RecordToolCallMetric
  BY <1>16 DEF RecordToolCallMetric
<1>17. CASE EmitToolResult
  BY <1>17 DEF EmitToolResult
<1>18. CASE EmitStateUpdated
  BY <1>18 DEF EmitStateUpdated
<1>19. CASE EvaluateGoal
  BY <1>19 DEF EvaluateGoal
<1>20. CASE Raise
  BY <1>20 DEF Raise, TryBlock
<1>21. CASE EmitError
  BY <1>21 DEF EmitError
<1>22. CASE FinishRun
  BY <1>22 DEF FinishRun
<1>23. CASE EmitFinished
  BY <1>23 DEF EmitFinished
<1>24. CASE UNCHANGED vars
  BY <1>24 DEF vars, dbVars, budgetVars, loopVars, callVars
<1> QED BY <1>1, <1>2, <1>3, <1>4, <1>5, <1>6, <1>7, <1>8, <1>9, <1>10, <1>11, <1>12, <1>13, <1>14, <1>15, <1>16, <1>17, <1>18, <1>19, <1>20, <1>21, <1>22, <1>23, <1>24 DEF Next, Done

-----------------------------------------------------------------------------
(* The outcome *)

\* Evaluating a criterion, or a list of them, gives one of the four verdicts.
LEMMA FourVerdicts ==
  ASSUME NEW criteria, NEW state
  PROVE  EvaluateAll(criteria, state) \in Verdicts
<1>1. \A c : Evaluate(c, state) \in Verdicts
  BY DEF Evaluate, Applied, Resolvable, AsVerdict, Verdicts
<1> QED BY <1>1 DEF EvaluateAll, Verdicts

LEMMA GoalDecides ==
  /\ GoalVerdict = "failed" => Holds(Failure)
  /\ GoalVerdict = "completed" => Holds(Success) /\ ~Holds(Failure)
<1> DEFINE verdictOf(criteria) == IF criteria = <<>> THEN "false" ELSE EvaluateAll(criteria, runState.data)
           f == verdictOf(Failure)
           u == verdictOf(Success)
<1>1. f \in Verdicts /\ u \in Verdicts
  BY FourVerdicts DEF Verdicts
<1>2. GoalVerdict = [true |-> "failed",
                     false |-> [true |-> "completed", false |-> "none", invalid |-> "none", raises |-> "raises"][u],
                     invalid |-> "none", raises |-> "raises"][f]
  BY DEF GoalVerdict, EvaluateTermination
<1>3. (Holds(Failure) <=> f = "true") /\ (Holds(Success) <=> u = "true")
  BY DEF Holds
<1> HIDE DEF f, u
<1> QED BY <1>1, <1>2, <1>3 DEF Verdicts

\* The verdict that is about to be returned, or has been, is the one that the
\* state and the budget deserve.
Deserved ==
  /\ verdict[1] = "failed" => Holds(Failure)
  /\ verdict[1] = "completed" => GoalVerdict \in {"completed", "none"}
  /\ verdict[2] = "completed" => Holds(Success) /\ ~Holds(Failure)
  /\ verdict[1] = "exhausted" =>
       \/ \E i \in 1..5 : Dimensions[i] = verdict[2] /\ Spent[i]
       \/ level = 3 /\ verdict[2] = "max_iterations" /\ GoalVerdict = "none"
Outcome ==
  /\ pc = "check" /\ level = 3 /\ step > 0 => GoalVerdict = "none"
  /\ pc \in Ending => Deserved

LEMMA OutcomeStep ==
  ASSUME Typed, NotEnded, Outcome, [Next]_vars
  PROVE  Outcome'
<1>a. TypedLoop /\ verdict \in Verdict
  BY DEF Typed, TypedCall
<1>b. UNCHANGED <<runState, level, usage, late>> /\ verdict' = verdict /\ Deserved => Deserved'
  BY DEF Deserved, GoalVerdict, Holds, Spent
<1> USE <1>a DEF Outcome, TypedLoop, Ending, budgetVars, dbVars, loopVars, callVars, Goto, Return, Reach, AfterCall
<1>1. CASE InitState
  BY <1>1 DEF InitState
<1>2. CASE EmitStarted
  BY <1>2 DEF EmitStarted, NotEnded
<1>3. CASE CheckStep
  <2>1. GoalVerdict' = GoalVerdict /\ (\A i \in 1..5 : Spent'[i] <=> Spent[i]) /\ level' = level
    BY <1>3 DEF CheckStep, GoalVerdict, Spent
  <2>2. CASE pc' = "finish"
    <3>1. CASE verdict' = <<"exhausted", "max_iterations">> /\ level = 3 /\ step = MaxIterations
      <4>1. GoalVerdict = "none"
        BY <1>3, <3>1, BudgetAssumption DEF CheckStep
      <4> QED BY <2>1, <2>2, <3>1, <4>1 DEF Deserved
    <3>2. CASE verdict' = <<"exhausted", ExhaustedDimension>> /\ ExhaustedDimension # "none"
      <4>1. ExhaustedDimension # "completed"
        BY <3>2, FirstSpent, DimensionIsReason
      <4> QED BY <2>1, <2>2, <3>2, <4>1, FirstSpent DEF Deserved
    <3> QED BY <1>3, <2>2, <3>1, <3>2 DEF CheckStep, LoopOver
  <2> QED BY <1>3, <2>2 DEF CheckStep
<1>4. CASE RecordStep
  BY <1>4 DEF RecordStep
<1>5. CASE EmitStepStarted
  BY <1>5 DEF EmitStepStarted
<1>6. CASE CallModel
  BY <1>6 DEF CallModel
<1>7. CASE RecordUsage
  BY <1>7 DEF RecordUsage
<1>8. CASE EmitModelCalled
  BY <1>8 DEF EmitModelCalled
<1>9. CASE EmitDecision
  BY <1>9 DEF EmitDecision
<1>10. CASE NextCall
  <2>1. GoalVerdict' = GoalVerdict /\ (\A i \in 1..5 : Spent'[i] <=> Spent[i]) /\ level' = level
    BY <1>10 DEF NextCall, GoalVerdict, Spent
  <2>2. CASE pc' = "finish"
    <3>1. verdict' = <<"exhausted", ExhaustedDimension>> /\ ExhaustedDimension # "none"
      BY <1>10, <2>2 DEF NextCall
    <3>2. ExhaustedDimension # "completed"
      BY <3>1, FirstSpent, DimensionIsReason
    <3> QED BY <2>1, <2>2, <3>1, <3>2, FirstSpent DEF Deserved
  <2> QED BY <1>10, <2>2 DEF NextCall
<1>11. CASE EmitToolCalled
  BY <1>11 DEF EmitToolCalled
<1>12. CASE Expire
  BY <1>12 DEF Expire, GoalVerdict
<1>13. CASE Invoke
  BY <1>13 DEF Invoke, NotFound, Refuse, RejectInput, RunTool, RunStateUpdate, Returns
<1>14. CASE EmitPolicyEvaluated
  BY <1>14 DEF EmitPolicyEvaluated
<1>15. CASE RecordToolCall
  BY <1>15 DEF RecordToolCall
<1>16. CASE RecordToolCallMetric
  BY <1>16 DEF RecordToolCallMetric
<1>17. CASE EmitToolResult
  BY <1>17 DEF EmitToolResult
<1>18. CASE EmitStateUpdated
  BY <1>18 DEF EmitStateUpdated
<1>19. CASE EvaluateGoal
  <2>1. /\ GoalVerdict' = GoalVerdict /\ level' = level /\ level \in {0, 1, 2, 3}
        /\ Holds(Failure)' = Holds(Failure) /\ Holds(Success)' = Holds(Success)
    BY <1>19, InputAssumption DEF EvaluateGoal, GoalVerdict, Holds
  <2>2. CASE pc' = "finish"
    <3>1. CASE GoalVerdict \in {"failed", "completed"} /\ verdict' = <<GoalVerdict, GoalVerdict>>
      BY <2>1, <2>2, <3>1, GoalDecides DEF Deserved
    <3>2. CASE GoalVerdict = "none" /\ verdict' = <<"completed", DefaultReason>>
      <4>1. DefaultReason # "completed"
        BY <2>1 DEF DefaultReason
      <4> QED BY <2>1, <2>2, <3>2, <4>1 DEF Deserved
    <3> QED BY <1>19, <2>2, <3>1, <3>2 DEF EvaluateGoal
  <2> QED BY <1>19, <2>1, <2>2 DEF EvaluateGoal
<1>20. CASE Raise
  BY <1>20 DEF Raise, TryBlock
<1>21. CASE EmitError
  BY <1>21 DEF EmitError, Deserved
<1>22. CASE FinishRun
  BY <1>22, <1>b DEF FinishRun
<1>23. CASE EmitFinished
  BY <1>23, <1>b DEF EmitFinished
<1>24. CASE UNCHANGED vars
  BY <1>24, <1>b DEF vars, dbVars, budgetVars, loopVars, callVars, GoalVerdict
<1> QED BY <1>1, <1>2, <1>3, <1>4, <1>5, <1>6, <1>7, <1>8, <1>9, <1>10, <1>11, <1>12, <1>13, <1>14, <1>15, <1>16, <1>17, <1>18, <1>19, <1>20, <1>21, <1>22, <1>23, <1>24 DEF Next, Done

-----------------------------------------------------------------------------
(* What readers of runs and tool_calls count *)

Kinds == {"ok", "error", "denied", "pending_approval"}

LEMMA StatusesAfter ==
  ASSUME IsLog(toolCalls), NEW c, toolCalls' = Append(toolCalls, c), NEW k
  PROVE  NStatus(k) \in Nat /\ NStatus(k)' = IF c.status = k THEN NStatus(k) + 1 ELSE NStatus(k)
<1> DEFINE I == {i \in DOMAIN toolCalls : toolCalls[i].status = k}
<1>1. {i \in DOMAIN toolCalls' : toolCalls'[i].status = k} = IF c.status = k THEN I \cup {Len(toolCalls) + 1} ELSE I
  BY Appended
<1>2. Cardinality(I) \in Nat /\ Cardinality(I \cup {Len(toolCalls) + 1}) = Cardinality(I) + 1
  BY OneMore
<1>3. NStatus(k) = Cardinality(I) /\ NStatus(k)' = Cardinality({i \in DOMAIN toolCalls' : toolCalls'[i].status = k})
  BY DEF NStatus
<1>4. CASE c.status = k
  BY <1>1, <1>2, <1>3, <1>4
<1>5. CASE c.status # k
  BY <1>1, <1>2, <1>3, <1>5
<1> QED BY <1>4, <1>5

\* An allowed call is one that ended ok or in an error.
StatusesFit ==
  /\ \A k \in Kinds : NStatus(k) \in Nat
  /\ NStatus("ok") + NStatus("error") = NAllowed
  /\ pc \in {"policyEvent", "record"} =>
       /\ result.status \in Kinds
       /\ result.decision = "ALLOW" <=> result.status \in {"ok", "error"}

LEMMA StatusesStay == toolCalls' = toolCalls => \A k : NStatus(k)' = NStatus(k)
BY DEF NStatus

LEMMA StatusesFitStep ==
  ASSUME Typed, StatusesFit, [Next]_vars
  PROVE  StatusesFit'
<1>a. IsLog(toolCalls) /\ NAllowed \in Nat
  BY CountsAreNumbers DEF Typed, TypedTables
<1> USE <1>a DEF StatusesFit, dbVars, callVars, Goto, Return, Reach, AfterCall
<1>1. CASE InitState
  BY <1>1, CallsStay, StatusesStay DEF InitState
<1>2. CASE EmitStarted
  BY <1>2, CallsStay, StatusesStay DEF EmitStarted
<1>3. CASE CheckStep
  BY <1>3, CallsStay, StatusesStay DEF CheckStep
<1>4. CASE RecordStep
  BY <1>4, CallsStay, StatusesStay DEF RecordStep
<1>5. CASE EmitStepStarted
  BY <1>5, CallsStay, StatusesStay DEF EmitStepStarted
<1>6. CASE CallModel
  BY <1>6, CallsStay, StatusesStay DEF CallModel
<1>7. CASE RecordUsage
  BY <1>7, CallsStay, StatusesStay DEF RecordUsage
<1>8. CASE EmitModelCalled
  BY <1>8, CallsStay, StatusesStay DEF EmitModelCalled
<1>9. CASE EmitDecision
  BY <1>9, CallsStay, StatusesStay DEF EmitDecision
<1>10. CASE NextCall
  BY <1>10, CallsStay, StatusesStay DEF NextCall
<1>11. CASE EmitToolCalled
  BY <1>11, CallsStay, StatusesStay DEF EmitToolCalled
<1>12. CASE Expire
  BY <1>12, CallsStay, StatusesStay DEF Expire
<1>13. CASE Invoke
  <2>1. toolCalls' = toolCalls
    BY <1>13 DEF Invoke, NotFound, Refuse, RejectInput, RunTool, RunStateUpdate, Returns
  <2>2. NAllowed' = NAllowed /\ \A k : NStatus(k)' = NStatus(k)
    BY <2>1, CallsStay, StatusesStay
  <2>3. pc' \in {"policyEvent", "record"} =>
          result'.status \in Kinds /\ (result'.decision = "ALLOW" <=> result'.status \in {"ok", "error"})
    BY <1>13 DEF Invoke, NotFound, Refuse, RejectInput, RunTool, RunStateUpdate, Returns, Kinds
  <2> QED BY <2>2, <2>3
<1>14. CASE EmitPolicyEvaluated
  BY <1>14, CallsStay, StatusesStay DEF EmitPolicyEvaluated
<1>15. CASE RecordToolCall
  <2> DEFINE c == [call |-> call, step |-> step, status |-> result.status, decision |-> result.decision]
  <2>1. toolCalls' = Append(toolCalls, c) /\ c.status = result.status /\ c.decision = result.decision
        /\ pc = "record" /\ pc' \notin {"policyEvent", "record"}
    BY <1>15 DEF RecordToolCall
  <2>2. NAllowed' = IF result.decision = "ALLOW" THEN NAllowed + 1 ELSE NAllowed
    <3> HIDE DEF c
    <3> QED BY <2>1, CallsAfter DEF Allowed
  <2>3. \A k : NStatus(k)' = IF result.status = k THEN NStatus(k) + 1 ELSE NStatus(k)
    <3> HIDE DEF c
    <3> QED BY <2>1, StatusesAfter
  <2>4. {"ok", "error"} \subseteq Kinds
    BY DEF Kinds
  <2>5. NStatus("ok")' + NStatus("error")' = NAllowed'
    <3>0. NStatus("ok") \in Nat /\ NStatus("error") \in Nat /\ NStatus("ok") + NStatus("error") = NAllowed
          /\ (result.decision = "ALLOW" <=> result.status \in {"ok", "error"})
      BY <2>1, <2>4
    <3>1. CASE result.status = "ok"
      <4>1. NStatus("ok")' = NStatus("ok") + 1 /\ NStatus("error")' = NStatus("error") /\ NAllowed' = NAllowed + 1
        BY <2>2, <2>3, <3>0, <3>1
      <4> QED BY ONLY <1>a, <3>0, <4>1
    <3>2. CASE result.status = "error"
      <4>1. NStatus("ok")' = NStatus("ok") /\ NStatus("error")' = NStatus("error") + 1 /\ NAllowed' = NAllowed + 1
        BY <2>2, <2>3, <3>0, <3>2
      <4> QED BY ONLY <1>a, <3>0, <4>1
    <3>3. CASE result.status \notin {"ok", "error"}
      BY <2>1, <2>2, <2>3, <2>4, <3>3
    <3> QED BY <3>1, <3>2, <3>3
  <2>6. \A k \in Kinds : NStatus(k)' \in Nat
    BY <2>3
  <2> QED BY <2>1, <2>5, <2>6
<1>16. CASE RecordToolCallMetric
  BY <1>16, CallsStay, StatusesStay DEF RecordToolCallMetric
<1>17. CASE EmitToolResult
  BY <1>17, CallsStay, StatusesStay DEF EmitToolResult
<1>18. CASE EmitStateUpdated
  BY <1>18, CallsStay, StatusesStay DEF EmitStateUpdated
<1>19. CASE EvaluateGoal
  BY <1>19, CallsStay, StatusesStay DEF EvaluateGoal
<1>20. CASE Raise
  BY <1>20, CallsStay, StatusesStay DEF Raise, TryBlock
<1>21. CASE EmitError
  BY <1>21, CallsStay, StatusesStay DEF EmitError
<1>22. CASE FinishRun
  BY <1>22, CallsStay, StatusesStay DEF FinishRun
<1>23. CASE EmitFinished
  BY <1>23, CallsStay, StatusesStay DEF EmitFinished
<1>24. CASE UNCHANGED vars
  BY <1>24, CallsStay, StatusesStay DEF vars, dbVars, budgetVars, loopVars, callVars
<1> QED BY <1>1, <1>2, <1>3, <1>4, <1>5, <1>6, <1>7, <1>8, <1>9, <1>10, <1>11, <1>12, <1>13, <1>14, <1>15, <1>16, <1>17, <1>18, <1>19, <1>20, <1>21, <1>22, <1>23, <1>24 DEF Next, Done

-----------------------------------------------------------------------------
(* The log replayed.  Replayed is a recursive function of the log's         *)
(* prefixes: that it is there, and that an entry appended to the log adds   *)
(* one application of ApplyDiff, is induction on the length of the prefix.  *)

Follows(f, log, n) ==
  \A m \in 0..n : f[m] = IF m = 0 THEN DefaultState ELSE ApplyDiff(f[m - 1], log[m])
IsReplay(f, log) == f = [n \in Nat |-> IF n = 0 THEN DefaultState ELSE ApplyDiff(f[n - 1], log[n])]
Replay(log) == CHOOSE f : IsReplay(f, log)

LEMMA ReplayedIsReplay == Replayed = Replay(events) /\ Replayed' = Replay(events')
BY Zenon DEF Replayed, Replay, IsReplay, ApplyDiff

LEMMA FollowersAgree ==
  ASSUME NEW N \in Nat, NEW log, NEW log2, \A i \in 1..N : log[i] = log2[i],
         NEW f, NEW g, Follows(f, log, N), Follows(g, log2, N)
  PROVE  f[N] = g[N]
<1> DEFINE P == {n \in Nat : n <= N => f[n] = g[n]}
<1>a. ASSUME NEW n \in 0..N
      PROVE  /\ f[n] = IF n = 0 THEN DefaultState ELSE ApplyDiff(f[n - 1], log[n])
             /\ g[n] = IF n = 0 THEN DefaultState ELSE ApplyDiff(g[n - 1], log2[n])
  BY DEF Follows
<1>1. 0 \in P
  BY <1>a
<1>2. ASSUME NEW n \in Nat, n \in P PROVE n + 1 \in P
  <2> SUFFICES ASSUME n + 1 <= N PROVE f[n + 1] = g[n + 1]
    OBVIOUS
  <2>1. n + 1 \in 0..N /\ n + 1 \in 1..N /\ n + 1 # 0 /\ (n + 1) - 1 = n /\ f[n] = g[n]
    BY <1>2
  <2>2. f[n + 1] = ApplyDiff(f[n], log[n + 1]) /\ g[n + 1] = ApplyDiff(g[n], log2[n + 1])
    BY <1>a, <2>1
  <2> QED BY <2>1, <2>2
<1>3. Nat \subseteq P
  <2> HIDE DEF P
  <2> QED BY <1>1, <1>2, NumberInduction
<1> QED BY <1>3

LEMMA ReplayExists == ASSUME NEW log PROVE \A N \in Nat : Follows(Replay(log), log, N)
<1> DEFINE P == {N \in Nat : \E f : Follows(f, log, N)}
           Upto(N) == CHOOSE f : Follows(f, log, N)
           F == [n \in Nat |-> Upto(n)[n]]
<1>1. 0 \in P
  <2>1. Follows([n \in 0..0 |-> DefaultState], log, 0)
    BY DEF Follows
  <2> QED BY <2>1
<1>2. ASSUME NEW N \in Nat, N \in P PROVE N + 1 \in P
  <2>1. PICK f : Follows(f, log, N)
    BY <1>2
  <2> DEFINE g == [n \in 0..(N + 1) |-> IF n = N + 1 THEN ApplyDiff(f[N], log[n]) ELSE f[n]]
  <2>2. ASSUME NEW n \in 0..(N + 1)
        PROVE  g[n] = IF n = 0 THEN DefaultState ELSE ApplyDiff(g[n - 1], log[n])
    <3>1. CASE n = N + 1
      <4>1. n - 1 = N /\ N \in 0..(N + 1) /\ N # N + 1 /\ n # 0
        BY <3>1
      <4> QED BY <3>1, <4>1
    <3>2. CASE n # N + 1
      <4>1. n \in 0..N /\ (n # 0 => n - 1 \in 0..(N + 1) /\ n - 1 # N + 1)
        BY <3>2
      <4>2. f[n] = IF n = 0 THEN DefaultState ELSE ApplyDiff(f[n - 1], log[n])
        BY <2>1, <4>1 DEF Follows
      <4> QED BY <3>2, <4>1, <4>2
    <3> QED BY <3>1, <3>2
  <2>3. Follows(g, log, N + 1)
    <3> HIDE DEF g
    <3> QED BY <2>2 DEF Follows
  <2> HIDE DEF g
  <2> QED BY <2>3
<1>3. \A N \in Nat : Follows(Upto(N), log, N)
  <2>1. Nat \subseteq P
    <3> HIDE DEF P
    <3> QED BY <1>1, <1>2, NumberInduction
  <2> QED BY <2>1
<1>4. ASSUME NEW n \in Nat
      PROVE  F[n] = IF n = 0 THEN DefaultState ELSE ApplyDiff(F[n - 1], log[n])
  <2> HIDE DEF Upto
  <2>1. Upto(n)[n] = IF n = 0 THEN DefaultState ELSE ApplyDiff(Upto(n)[n - 1], log[n])
    BY <1>3 DEF Follows
  <2>2. n # 0 => n - 1 \in Nat /\ Upto(n)[n - 1] = Upto(n - 1)[n - 1]
    <3> SUFFICES ASSUME n # 0 PROVE n - 1 \in Nat /\ Upto(n)[n - 1] = Upto(n - 1)[n - 1]
      OBVIOUS
    <3>1. n - 1 \in Nat /\ 0..(n - 1) \subseteq 0..n
      OBVIOUS
    <3>2. Follows(Upto(n), log, n - 1) /\ Follows(Upto(n - 1), log, n - 1)
      <4>1. Follows(Upto(n), log, n)
        BY <1>3
      <4> QED BY <1>3, <3>1, <4>1 DEF Follows
    <3> QED BY <3>1, <3>2, FollowersAgree
  <2> QED BY <2>1, <2>2
<1>5. IsReplay(F, log)
  <2>1. F = [n \in Nat |-> F[n]]
    OBVIOUS
  <2> HIDE DEF F
  <2>2. [n \in Nat |-> F[n]] = [n \in Nat |-> IF n = 0 THEN DefaultState ELSE ApplyDiff(F[n - 1], log[n])]
    BY <1>4
  <2>3. F = [n \in Nat |-> IF n = 0 THEN DefaultState ELSE ApplyDiff(F[n - 1], log[n])]
    BY <2>1, <2>2
  <2> QED BY <2>3 DEF IsReplay
<1> HIDE DEF F
<1>6. IsReplay(Replay(log), log)
  BY <1>5 DEF Replay
<1> QED BY <1>6 DEF IsReplay, Follows

LEMMA ReplayAppended ==
  ASSUME NEW log, IsLog(log), NEW e
  PROVE  Replay(Append(log, e))[Len(log) + 1] = ApplyDiff(Replay(log)[Len(log)], e)
<1> DEFINE N == Len(log)
           longer == Append(log, e)
           R == Replay(log)
           R2 == Replay(longer)
<1>1. N \in Nat /\ longer[N + 1] = e /\ \A i \in 1..N : log[i] = longer[i]
  BY Appended
<1>2. Follows(R, log, N) /\ Follows(R2, longer, N) /\ Follows(R2, longer, N + 1)
  BY <1>1, ReplayExists
<1> HIDE DEF N, longer, R, R2
<1>3. R[N] = R2[N]
  BY ONLY <1>1, <1>2, FollowersAgree
<1>4. R2[N + 1] = ApplyDiff(R2[N], e)
  <2>1. N + 1 \in 0..(N + 1) /\ N + 1 # 0 /\ (N + 1) - 1 = N
    BY <1>1
  <2> QED BY <1>1, <1>2, <2>1 DEF Follows
<1> QED BY <1>3, <1>4 DEF N, longer, R, R2

\* The state that the log explains.
Explained == Replayed[Len(events)]

LEMMA ExplainedAfter ==
  ASSUME IsLog(events), NEW e, events' = Append(events, e)
  PROVE  Explained' = ApplyDiff(Explained, e)
<1>1. Len(events') = Len(events) + 1
  BY Appended
<1>2. Explained = Replay(events)[Len(events)] /\ Explained' = Replay(events')[Len(events')]
  BY ReplayedIsReplay DEF Explained
<1> QED BY <1>1, <1>2, ReplayAppended

LEMMA ExplainedStays == ASSUME events' = events PROVE Explained' = Explained
BY ReplayedIsReplay DEF Explained

LEMMA NothingExplained == ASSUME events = <<>> PROVE Explained = DefaultState
<1>1. Follows(Replay(events), events, 0) /\ Len(events) = 0
  BY ReplayExists
<1>2. Replay(events)[0] = DefaultState
  BY <1>1 DEF Follows
<1> QED BY <1>1, <1>2, ReplayedIsReplay DEF Explained

\* compute_diff and its reader are inverse to each other, for what state.update
\* writes: the arguments merged over the state it read.
LEMMA DiffGivesState ==
  ASSUME NEW from, NEW set, NEW e, e.type = "state.updated", e.diff = ComputeDiff(from, Merge(set, from))
  PROVE  ApplyDiff(from, e) = Merge(set, from)
<1> DEFINE to == Merge(set, from)
           d == ComputeDiff(from, to)
<1>1. to = [k \in DOMAIN to |-> to[k]] /\ DOMAIN from \subseteq DOMAIN to
  BY DEF Merge
<1> HIDE DEF to
<1>2. /\ d.removed = {} /\ DOMAIN d.added = DOMAIN to \ DOMAIN from /\ \A k \in DOMAIN d.added : d.added[k] = to[k]
      /\ DOMAIN d.changed = {k \in DOMAIN to \cap DOMAIN from : from[k] # to[k]}
      /\ \A k \in DOMAIN d.changed : d.changed[k] = to[k]
  BY <1>1 DEF ComputeDiff, Restrict
<1> DEFINE grown == Merge(d.added, from)
           all == Merge(d.changed, grown)
<1>3. DOMAIN grown = DOMAIN to /\ \A k \in DOMAIN to : k \notin DOMAIN from => grown[k] = to[k]
  BY <1>1, <1>2 DEF Merge
<1>4. \A k \in DOMAIN from : grown[k] = from[k]
  BY <1>2, <1>1 DEF Merge
<1>5. DOMAIN all = DOMAIN to /\ \A k \in DOMAIN to : all[k] = to[k]
  <2> HIDE DEF d, grown
  <2>1. DOMAIN all = DOMAIN to
    BY <1>2, <1>3 DEF Merge
  <2>2. ASSUME NEW k \in DOMAIN to PROVE all[k] = to[k]
    <3>1. all[k] = IF k \in DOMAIN d.changed THEN d.changed[k] ELSE grown[k]
      BY <1>3 DEF Merge
    <3>2. CASE k \in DOMAIN d.changed
      BY <1>2, <3>1, <3>2
    <3>3. CASE k \notin DOMAIN d.changed
      BY <1>1, <1>2, <1>3, <1>4, <3>1, <3>3
    <3> QED BY <3>2, <3>3
  <2> QED BY <2>1, <2>2
<1>6. ApplyDiff(from, e) = Restrict(all, (DOMAIN from \cup DOMAIN d.added) \ d.removed)
  BY DEF ApplyDiff, to
<1>7. (DOMAIN from \cup DOMAIN d.added) \ d.removed = DOMAIN to
  BY <1>1, <1>2
<1> HIDE DEF d, all
<1>8. Restrict(all, DOMAIN to) = [k \in DOMAIN to |-> to[k]]
  BY <1>5 DEF Restrict
<1> QED BY <1>1, <1>6, <1>7, <1>8 DEF to

Unlogged == runState.version - 1 - Emitted("state.updated")

\* state.update has written, and its state.updated is not in the log yet.
Pending ==
  \/ pc = "stateEvent"
  \/ pc \in {"policyEvent", "record", "metric", "resultEvent"} /\ call.tool = StateUpdate /\ result.status = "ok"

Explains ==
  /\ pc = "init" => events = <<>>
  /\ pc # "init" => Unlogged \in {0, 1}
  /\ pc # "init" /\ Unlogged = 0 => Explained = runState.data
  /\ pc \in {"called", "invoke"} /\ call.tool = StateUpdate => old = runState.data
  /\ pc \notin {"init", "error"} \cup Ending => Unlogged = IF Pending THEN 1 ELSE 0
  /\ Pending => Explained = old /\ \E set : runState.data = Merge(set, old)
  /\ pc \in Ending /\ verdict[1] # "crashed" => Unlogged = 0

LEMMA UnloggedAfter ==
  ASSUME IsLog(events), NEW e, events' = Append(events, e), runState' = runState
  PROVE  /\ e.type # "state.updated" => Unlogged' = Unlogged /\ Explained' = Explained
         /\ e.type = "state.updated" => Unlogged' = runState.version - 1 - (Emitted("state.updated") + 1)
<1>1. Emitted("state.updated")' = IF e.type = "state.updated" THEN Emitted("state.updated") + 1
                                                              ELSE Emitted("state.updated")
  BY EmittedAfter
<1>2. e.type # "state.updated" => Explained' = Explained
  BY ExplainedAfter DEF ApplyDiff
<1>3. /\ Unlogged = runState.version - 1 - Emitted("state.updated")
      /\ Unlogged' = runState.version - 1 - Emitted("state.updated")'
  BY DEF Unlogged
<1> QED BY <1>1, <1>2, <1>3

LEMMA UnloggedStays ==
  ASSUME events' = events, runState' = runState
  PROVE  Unlogged' = Unlogged /\ Explained' = Explained
BY ExplainedStays DEF Unlogged, Emitted

LEMMA InitExplains == Init => Explains
BY DEF Init, Explains, Pending, Ending, NoCall, StateUpdate

LEMMA ExplainsStep ==
  ASSUME Typed, Explains, [Next]_vars
  PROVE  Explains'
<1>a. /\ IsLog(events) /\ runState.version \in Nat /\ pc \in PC
      /\ Emitted("state.updated") \in Nat /\ Unlogged \in Int
  <2>1. IsLog(events) /\ runState.version \in Nat /\ pc \in PC
    BY DEF Typed, TypedTables, TypedLoop
  <2>2. Emitted("state.updated") \in Nat
    <3>1. {i \in DOMAIN events : events[i].type = "state.updated"} \in SUBSET DOMAIN events
      OBVIOUS
    <3> QED BY <2>1, <3>1, OneMore DEF Emitted
  <2> QED BY <2>1, <2>2 DEF Unlogged
<1>b. ASSUME UNCHANGED <<events, runState>> PROVE Unlogged' = Unlogged /\ Explained' = Explained
  BY <1>b, UnloggedStays
<1>c. ASSUME UNCHANGED runState, NEW e, events' = Append(events, e), e.type # "state.updated"
      PROVE  Unlogged' = Unlogged /\ Explained' = Explained
  BY <1>a, <1>c, UnloggedAfter
<1> USE <1>a DEF Explains, Pending, Ending, dbVars, callVars, Goto, PC
<1>1. CASE InitState
  <2>1. events = <<>> /\ events' = events /\ pc' = "started" /\ runState' = [data |-> DefaultState, version |-> 1]
    BY <1>1 DEF InitState
  <2>2. Emitted("state.updated")' = 0
    <3>1. {i \in DOMAIN events' : events'[i].type = "state.updated"} = {}
      BY <2>1
    <3> QED BY <3>1, FS_EmptySet DEF Emitted
  <2>3. Unlogged' = 0
    BY <2>1, <2>2 DEF Unlogged
  <2>4. Explained' = runState'.data
    BY <2>1, NothingExplained, ExplainedStays
  <2> QED BY <2>1, <2>3, <2>4
<1>2. CASE EmitStarted
  <2> DEFINE e == Event("run.started")
  <2>1. events' = Append(events, e) /\ e.type # "state.updated" /\ runState' = runState
    BY <1>2 DEF EmitStarted, Emit, Event, StepEvent
  <2>2. Unlogged' = Unlogged /\ Explained' = Explained
    <3> HIDE DEF e
    <3> QED BY <2>1, <1>c
  <2>3. events' # <<>> \/ pc' # "init"
    BY <1>2 DEF EmitStarted
  <2> QED BY <1>2, <2>1, <2>2, <2>3 DEF EmitStarted
<1>3. CASE CheckStep
  <2>1. events' = events /\ runState' = runState
    BY <1>3 DEF CheckStep
  <2> QED BY <1>3, <2>1, <1>b DEF CheckStep, Return
<1>4. CASE RecordStep
  <2>1. events' = events /\ runState' = runState
    BY <1>4 DEF RecordStep
  <2> QED BY <1>4, <2>1, <1>b DEF RecordStep
<1>5. CASE EmitStepStarted
  <2> DEFINE e == StepEvent("step.started")
  <2>1. events' = Append(events, e) /\ e.type # "state.updated" /\ runState' = runState
    BY <1>5 DEF EmitStepStarted, Emit, Event, StepEvent
  <2>2. Unlogged' = Unlogged /\ Explained' = Explained
    <3> HIDE DEF e
    <3> QED BY <2>1, <1>c
  <2>3. events' # <<>> \/ pc' # "init"
    BY <1>5 DEF EmitStepStarted, Reach
  <2> QED BY <1>5, <2>1, <2>2, <2>3 DEF EmitStepStarted, Reach
<1>6. CASE CallModel
  <2>1. events' = events /\ runState' = runState
    BY <1>6 DEF CallModel
  <2> QED BY <1>6, <2>1, <1>b DEF CallModel
<1>7. CASE RecordUsage
  <2>1. events' = events /\ runState' = runState
    BY <1>7 DEF RecordUsage
  <2> QED BY <1>7, <2>1, <1>b DEF RecordUsage
<1>8. CASE EmitModelCalled
  <2> DEFINE e == Event("llm.called")
  <2>1. events' = Append(events, e) /\ e.type # "state.updated" /\ runState' = runState
    BY <1>8 DEF EmitModelCalled, Emit, Event, StepEvent
  <2>2. Unlogged' = Unlogged /\ Explained' = Explained
    <3> HIDE DEF e
    <3> QED BY <2>1, <1>c
  <2>3. events' # <<>> \/ pc' # "init"
    BY <1>8 DEF EmitModelCalled
  <2> QED BY <1>8, <2>1, <2>2, <2>3 DEF EmitModelCalled
<1>9. CASE EmitDecision
  <2> DEFINE e == StepEvent("decision.made")
  <2>1. events' = Append(events, e) /\ e.type # "state.updated" /\ runState' = runState
    BY <1>9 DEF EmitDecision, Emit, Event, StepEvent
  <2>2. Unlogged' = Unlogged /\ Explained' = Explained
    <3> HIDE DEF e
    <3> QED BY <2>1, <1>c
  <2>3. events' # <<>> \/ pc' # "init"
    BY <1>9 DEF EmitDecision
  <2> QED BY <1>9, <2>1, <2>2, <2>3 DEF EmitDecision
<1>10. CASE NextCall
  <2>1. events' = events /\ runState' = runState
    BY <1>10 DEF NextCall
  <2> QED BY <1>10, <2>1, <1>b DEF NextCall, Reach, Return
<1>11. CASE EmitToolCalled
  <2> DEFINE e == StepEvent("tool.called")
  <2>1. events' = Append(events, e) /\ e.type # "state.updated" /\ runState' = runState
    BY <1>11 DEF EmitToolCalled, Emit, Event, StepEvent
  <2>2. Unlogged' = Unlogged /\ Explained' = Explained
    <3> HIDE DEF e
    <3> QED BY <2>1, <1>c
  <2>3. events' # <<>> \/ pc' # "init"
    BY <1>11 DEF EmitToolCalled
  <2> QED BY <1>11, <2>1, <2>2, <2>3 DEF EmitToolCalled
<1>12. CASE Expire
  <2>1. events' = events /\ runState' = runState
    BY <1>12 DEF Expire
  <2> QED BY <1>12, <2>1, <1>b DEF Expire
<1>13. CASE Invoke
  <2>1. /\ pc = "invoke" /\ events' = events /\ old' = old /\ call' = call /\ verdict' = verdict
        /\ Unlogged = 0 /\ Explained = runState.data
    BY <1>13 DEF Invoke
  <2>2. CASE NotFound
    BY <2>1, <2>2, <1>b DEF NotFound
  <2>3. CASE Refuse \/ RejectInput \/ RunTool
    <3>1. /\ runState' = runState /\ pc' \in {"record", "policyEvent"}
          /\ call.tool = StateUpdate => result'.status # "ok"
      BY <2>3 DEF Refuse, RejectInput, RunTool, Returns
    <3> QED BY <2>1, <3>1, <1>b
  <2>4. CASE RunStateUpdate
    <3>1. call.tool = StateUpdate /\ Decision = "ALLOW" /\ pc' = "record"
      BY <2>4 DEF RunStateUpdate, Returns
    <3>2. CASE DOMAIN call.set \subseteq StateSchema
      <4>1. /\ runState' = [data |-> Merge(call.set, runState.data), version |-> runState.version + 1]
            /\ result'.status = "ok"
        BY <2>4, <3>2 DEF RunStateUpdate, Returns
      <4>2. Unlogged' = 1
        <5>1. Emitted("state.updated")' = Emitted("state.updated")
          BY <2>1 DEF Emitted
        <5> QED BY <2>1, <4>1, <5>1 DEF Unlogged
      <4>3. Explained' = old' /\ runState'.data = Merge(call.set, old')
        BY <2>1, <3>1, <4>1, ExplainedStays
      <4> QED BY <2>1, <3>1, <4>1, <4>2, <4>3
    <3>3. CASE ~(DOMAIN call.set \subseteq StateSchema)
      <4>1. runState' = runState /\ result'.status = "error"
        BY <2>4, <3>3 DEF RunStateUpdate, Returns
      <4> QED BY <2>1, <3>1, <4>1, <1>b
    <3> QED BY <3>2, <3>3
  <2> QED BY <2>2, <2>3, <2>4, <1>13 DEF Invoke
<1>14. CASE EmitPolicyEvaluated
  <2> DEFINE e == StepEvent("policy.evaluated")
  <2>1. events' = Append(events, e) /\ e.type # "state.updated" /\ runState' = runState
    BY <1>14 DEF EmitPolicyEvaluated, Emit, Event, StepEvent
  <2>2. Unlogged' = Unlogged /\ Explained' = Explained
    <3> HIDE DEF e
    <3> QED BY <2>1, <1>c
  <2>3. events' # <<>> \/ pc' # "init"
    BY <1>14 DEF EmitPolicyEvaluated
  <2> QED BY <1>14, <2>1, <2>2, <2>3 DEF EmitPolicyEvaluated
<1>15. CASE RecordToolCall
  <2>1. events' = events /\ runState' = runState
    BY <1>15 DEF RecordToolCall
  <2> QED BY <1>15, <2>1, <1>b DEF RecordToolCall
<1>16. CASE RecordToolCallMetric
  <2>1. events' = events /\ runState' = runState
    BY <1>16 DEF RecordToolCallMetric
  <2> QED BY <1>16, <2>1, <1>b DEF RecordToolCallMetric
<1>17. CASE EmitToolResult
  <2> DEFINE e == [type |-> "tool.result", step |-> step, status |-> result.status]
  <2>1. events' = Append(events, e) /\ e.type # "state.updated" /\ runState' = runState
    BY <1>17 DEF EmitToolResult, Emit, Event, StepEvent
  <2>2. Unlogged' = Unlogged /\ Explained' = Explained
    <3> HIDE DEF e
    <3> QED BY <2>1, <1>c
  <2>3. events' # <<>> \/ pc' # "init"
    BY <1>17 DEF EmitToolResult, AfterCall
  <2> QED BY <1>17, <2>1, <2>2, <2>3 DEF EmitToolResult, AfterCall
<1>18. CASE EmitStateUpdated
  <2> DEFINE e == [type |-> "state.updated", step |-> step, diff |-> ComputeDiff(old, runState.data)]
  <2>1. /\ pc = "stateEvent" /\ events' = Append(events, e) /\ runState' = runState /\ pc' \in {"check", "next"}
    BY <1>18 DEF EmitStateUpdated, Emit, AfterCall
  <2>2. e.type = "state.updated" /\ e.diff = ComputeDiff(old, runState.data)
    OBVIOUS
  <2>3. Unlogged = 1 /\ Explained = old /\ \E set : runState.data = Merge(set, old)
    BY <2>1
  <2> HIDE DEF e
  <2>4. Unlogged' = 0
    <3>1. Unlogged' = runState.version - 1 - (Emitted("state.updated") + 1)
      BY ONLY <1>a, <2>1, <2>2, UnloggedAfter
    <3>2. Unlogged = runState.version - 1 - Emitted("state.updated")
      BY DEF Unlogged
    <3> QED BY ONLY <1>a, <2>3, <3>1, <3>2
  <2>5. Explained' = runState'.data
    <3>1. PICK set : runState.data = Merge(set, old)
      BY <2>3
    <3>2. ApplyDiff(old, e) = Merge(set, old)
      BY <2>2, <3>1, DiffGivesState
    <3> QED BY <2>1, <2>3, <3>1, <3>2, ExplainedAfter
  <2> QED BY <2>1, <2>4, <2>5
<1>19. CASE EvaluateGoal
  <2>1. events' = events /\ runState' = runState
    BY <1>19 DEF EvaluateGoal
  <2> QED BY <1>19, <2>1, <1>b DEF EvaluateGoal, Return, GoalVerdict
<1>20. CASE Raise
  <2>1. events' = events /\ runState' = runState
    BY <1>20 DEF Raise
  <2> QED BY <1>20, <2>1, <1>b DEF Raise, TryBlock
<1>21. CASE EmitError
  <2> DEFINE e == Event("error.raised")
  <2>1. events' = Append(events, e) /\ e.type # "state.updated" /\ runState' = runState
    BY <1>21 DEF EmitError, Emit, Event, StepEvent
  <2>2. Unlogged' = Unlogged /\ Explained' = Explained
    <3> HIDE DEF e
    <3> QED BY <2>1, <1>c
  <2>3. events' # <<>> \/ pc' # "init"
    BY <1>21 DEF EmitError, Return
  <2> QED BY <1>21, <2>1, <2>2, <2>3 DEF EmitError, Return
<1>22. CASE FinishRun
  <2>1. events' = events /\ runState' = runState
    BY <1>22 DEF FinishRun
  <2> QED BY <1>22, <2>1, <1>b DEF FinishRun
<1>23. CASE EmitFinished
  <2> DEFINE e == Event("run.finished")
  <2>1. events' = Append(events, e) /\ e.type # "state.updated" /\ runState' = runState
    BY <1>23 DEF EmitFinished, Emit, Event, StepEvent
  <2>2. Unlogged' = Unlogged /\ Explained' = Explained
    <3> HIDE DEF e
    <3> QED BY <2>1, <1>c
  <2>3. events' # <<>> \/ pc' # "init"
    BY <1>23 DEF EmitFinished
  <2> QED BY <1>23, <2>1, <2>2, <2>3 DEF EmitFinished
<1>24. CASE UNCHANGED vars
  <2>1. events' = events /\ runState' = runState
    BY <1>24 DEF vars
  <2> QED BY <1>24, <2>1, <1>b DEF vars
<1> QED BY <1>1, <1>2, <1>3, <1>4, <1>5, <1>6, <1>7, <1>8, <1>9, <1>10, <1>11, <1>12, <1>13, <1>14, <1>15, <1>16, <1>17, <1>18, <1>19, <1>20, <1>21, <1>22, <1>23, <1>24 DEF Next, Done

-----------------------------------------------------------------------------
(* How long a run may be.  The steps of the budget are never consumed, so   *)
(* what bounds a run is its loop: the fixed steps of level 0, the iterations *)
(* of level 3, one pass at levels 1 and 2.                                   *)

LoopBound == IF level = 0 THEN FixedSteps ELSE IF level = 3 THEN MaxIterations ELSE 1

Looping ==
  /\ row.steps = step /\ step <= LoopBound
  /\ pc = "step" => step < LoopBound
  /\ level = 0 /\ pc \notin {"init", "started", "error"} \cup Ending =>
       step + left = IF pc = "stepEvent" THEN FixedSteps + 1 ELSE FixedSteps
  /\ level = 0 => pc \notin {"llm", "llmUsage", "llmEvent", "decision", "next"}
  /\ level \in {1, 2} /\ pc = "check" => step = 0
  /\ level # 0 => left <= MaxCallsPerAnswer

LEMMA InitLooping == Init => Looping
BY InputAssumption, BudgetAssumption DEF Init, Looping, LoopBound

LEMMA LoopingStep ==
  ASSUME Typed, NotEnded, Looping, [Next]_vars
  PROVE  Looping'
<1>a. /\ level \in 0..4 /\ step \in Nat /\ left \in Nat /\ row \in Row /\ pc \in PC
      /\ level = 0 /\ pc \in {"step", "stepEvent"} => left > 0
      /\ level = 4 => pc \in {"init", "started", "error"} \cup Ending
      /\ pc \in {"init", "started"} => step = 0
      /\ {MaxIterations, FixedSteps, MaxCallsPerAnswer} \subseteq Nat /\ MaxIterations > 0
  BY InputAssumption, BudgetAssumption DEF Typed, TypedTables, TypedLoop, NotEnded
<1>b. level' = level
  BY DEF Next, vars, InitState, EmitStarted, CheckStep, RecordStep, EmitStepStarted, CallModel, RecordUsage, EmitModelCalled, EmitDecision, NextCall, EmitToolCalled, Expire, Invoke, EmitPolicyEvaluated, RecordToolCall, RecordToolCallMetric, EmitToolResult, EmitStateUpdated, EvaluateGoal, Raise, EmitError, FinishRun, EmitFinished, Done
<1>c. LoopBound' = LoopBound /\ LoopBound \in Nat
  BY <1>a, <1>b DEF LoopBound
<1> USE <1>a, <1>b, <1>c DEF Looping, LoopBound, Ending, Row, dbVars, loopVars, Goto
<1>1. CASE InitState
  BY <1>1 DEF InitState
<1>2. CASE EmitStarted
  BY <1>2 DEF EmitStarted
<1>3. CASE CheckStep
  BY <1>3 DEF CheckStep, Return, LoopOver
<1>4. CASE RecordStep
  BY <1>4 DEF RecordStep
<1>5. CASE EmitStepStarted
  BY <1>5 DEF EmitStepStarted, Reach
<1>6. CASE CallModel
  BY <1>6 DEF CallModel
<1>7. CASE RecordUsage
  BY <1>7 DEF RecordUsage
<1>8. CASE EmitModelCalled
  BY <1>8 DEF EmitModelCalled
<1>9. CASE EmitDecision
  BY <1>9 DEF EmitDecision
<1>10. CASE NextCall
  BY <1>10 DEF NextCall, Reach, Return
<1>11. CASE EmitToolCalled
  BY <1>11 DEF EmitToolCalled
<1>12. CASE Expire
  BY <1>12 DEF Expire
<1>13. CASE Invoke
  BY <1>13 DEF Invoke, NotFound, Refuse, RejectInput, RunTool, RunStateUpdate, Returns
<1>14. CASE EmitPolicyEvaluated
  BY <1>14 DEF EmitPolicyEvaluated
<1>15. CASE RecordToolCall
  BY <1>15 DEF RecordToolCall
<1>16. CASE RecordToolCallMetric
  BY <1>16 DEF RecordToolCallMetric
<1>17. CASE EmitToolResult
  BY <1>17 DEF EmitToolResult, AfterCall
<1>18. CASE EmitStateUpdated
  BY <1>18 DEF EmitStateUpdated, AfterCall
<1>19. CASE EvaluateGoal
  BY <1>19 DEF EvaluateGoal, Return
<1>20. CASE Raise
  BY <1>20 DEF Raise, TryBlock
<1>21. CASE EmitError
  BY <1>21 DEF EmitError, Return
<1>22. CASE FinishRun
  BY <1>22 DEF FinishRun
<1>23. CASE EmitFinished
  BY <1>23 DEF EmitFinished
<1>24. CASE UNCHANGED vars
  BY <1>24 DEF vars
<1> QED BY <1>1, <1>2, <1>3, <1>4, <1>5, <1>6, <1>7, <1>8, <1>9, <1>10, <1>11, <1>12, <1>13, <1>14, <1>15, <1>16, <1>17, <1>18, <1>19, <1>20, <1>21, <1>22, <1>23, <1>24 DEF Next, Done

\* Where the interpreter is: a step of it goes down this list, unless it takes
\* one of the answer's calls, begins a step, or ends one.
Place == [done |-> 0, finished |-> 1, finish |-> 2, error |-> 3, evaluate |-> 4, next |-> 5,
          stateEvent |-> 6, resultEvent |-> 7, metric |-> 8, record |-> 9, policyEvent |-> 10,
          invoke |-> 11, called |-> 12, decision |-> 13, llmEvent |-> 14, llmUsage |-> 15,
          llm |-> 16, stepEvent |-> 17, step |-> 18, check |-> 19, started |-> 20, init |-> 21]
Asking == {"init", "started", "check", "step", "stepEvent", "llm"}
Answering == {"llmUsage", "llmEvent", "decision", "next"} \cup Calling
Iterating == \/ pc \in {"stepEvent", "llm"} \cup Answering
             \/ pc = "evaluate" /\ level # 0

StepsLeft == 2 * (LoopBound - step) + IF Iterating THEN 1 ELSE 0
CallsLeft == IF level = 0 THEN 0
             ELSE IF pc \in Asking THEN MaxCallsPerAnswer
             ELSE IF pc \in Answering THEN left ELSE 0
Statements == 2 * Place[pc] + IF late THEN 0 ELSE 1
Rank == (StepsLeft * (MaxCallsPerAnswer + 1) + CallsLeft) * 44 + Statements

\* Three numbers, two of them bounded, compared from left to right.
LEMMA RankOrder ==
  ASSUME NEW K \in Nat, NEW a \in Nat, NEW a2 \in Nat, NEW b \in 0..K, NEW b2 \in 0..K,
         NEW c \in 0..43, NEW c2 \in 0..43,
         a2 < a \/ (a2 = a /\ b2 < b) \/ (a2 = a /\ b2 = b /\ c2 < c)
  PROVE  (a2 * (K + 1) + b2) * 44 + c2 < (a * (K + 1) + b) * 44 + c
<1> DEFINE W == K + 1
           x == a * W
           x2 == a2 * W
<1>1. x \in Nat /\ x2 \in Nat /\ W \in Nat
  OBVIOUS
<1>2. a2 < a => x2 + W <= x
  <2> SUFFICES ASSUME a2 < a PROVE x2 + W <= x
    OBVIOUS
  <2> DEFINE n == a - a2 - 1
  <2>1. n \in Nat /\ a = a2 + 1 + n
    OBVIOUS
  <2>2. n * W \in Nat
    BY <1>1, <2>1
  <2>3. (a2 + 1 + n) * W = a2 * W + W + n * W
    BY <1>1, <2>1
  <2> QED BY <2>1, <2>2, <2>3
<1>3. x2 + b2 < x + b \/ (x2 + b2 = x + b /\ c2 < c)
  <2>1. a2 = a => x2 = x
    OBVIOUS
  <2>2. b \in Nat /\ b2 \in Nat /\ b2 < W
    OBVIOUS
  <2> HIDE DEF x, x2, W
  <2> QED BY <1>1, <1>2, <2>1, <2>2
<1> HIDE DEF x, x2, W
<1>4. (x2 + b2) * 44 + c2 < (x + b) * 44 + c
  BY <1>1, <1>3
<1> QED BY <1>4 DEF x, x2, W

LEMMA RankParts ==
  ASSUME Typed, Looping
  PROVE  /\ StepsLeft \in Nat /\ CallsLeft \in 0..MaxCallsPerAnswer /\ Statements \in 0..43
         /\ Rank \in Nat
<1>1. /\ pc \in PC /\ step \in Nat /\ left \in Nat /\ late \in BOOLEAN /\ MaxCallsPerAnswer \in Nat
      /\ LoopBound \in Nat
  BY InputAssumption, BudgetAssumption DEF Typed, TypedBudget, TypedLoop, LoopBound
<1>2. StepsLeft \in Nat
  BY <1>1 DEF Looping, StepsLeft
<1>3. CallsLeft \in 0..MaxCallsPerAnswer
  BY <1>1 DEF Looping, CallsLeft
<1>4. Statements \in 0..43
  <2>1. Place[pc] \in 0..21
    BY <1>1 DEF PC, Place
  <2> QED BY <1>1, <2>1 DEF Statements
<1>5. Rank \in Nat
  <2> DEFINE x == StepsLeft * (MaxCallsPerAnswer + 1)
  <2>1. x \in Nat
    BY <1>1, <1>2
  <2> HIDE DEF x
  <2>2. (x + CallsLeft) * 44 + Statements \in Nat
    BY <2>1, <1>1, <1>3, <1>4
  <2> QED BY <2>2 DEF Rank, x
<1> QED BY <1>2, <1>3, <1>4, <1>5

Progress ==
  \/ StepsLeft' < StepsLeft
  \/ StepsLeft' = StepsLeft /\ CallsLeft' < CallsLeft
  \/ StepsLeft' = StepsLeft /\ CallsLeft' = CallsLeft /\ Statements' < Statements

LEMMA StepIsProgress ==
  ASSUME Typed, Typed', NotEnded, Looping, Looping', Next, vars' # vars
  PROVE  Progress
<1>a. /\ level \in 0..4 /\ step \in Nat /\ left \in Nat /\ pc \in PC /\ late \in BOOLEAN
      /\ left' \in Nat /\ step' \in Nat
      /\ level = 4 => pc \in {"init", "started", "error"} \cup Ending
      /\ {MaxIterations, FixedSteps, MaxCallsPerAnswer} \subseteq Nat
      /\ level # 0 => left <= MaxCallsPerAnswer
      /\ level = 0 => pc \notin {"llm", "llmUsage", "llmEvent", "decision", "next"}
  BY InputAssumption, BudgetAssumption DEF Typed, TypedBudget, TypedLoop, Looping
<1>b. level' = level /\ MaxCallsPerAnswer' = MaxCallsPerAnswer
  BY DEF Next, InitState, EmitStarted, CheckStep, RecordStep, EmitStepStarted, CallModel, RecordUsage, EmitModelCalled, EmitDecision, NextCall, EmitToolCalled, Expire, Invoke, EmitPolicyEvaluated, RecordToolCall, RecordToolCallMetric, EmitToolResult, EmitStateUpdated, EvaluateGoal, Raise, EmitError, FinishRun, EmitFinished, Done
<1>c. LoopBound' = LoopBound /\ LoopBound \in Nat /\ (level # 0 => left' <= MaxCallsPerAnswer)
  BY <1>a, <1>b DEF LoopBound, Looping
<1>d. /\ Place["done"] = 0 /\ Place["finished"] = 1 /\ Place["finish"] = 2 /\ Place["error"] = 3
      /\ Place["evaluate"] = 4 /\ Place["next"] = 5 /\ Place["stateEvent"] = 6 /\ Place["resultEvent"] = 7
      /\ Place["metric"] = 8 /\ Place["record"] = 9 /\ Place["policyEvent"] = 10 /\ Place["invoke"] = 11
      /\ Place["called"] = 12 /\ Place["decision"] = 13 /\ Place["llmEvent"] = 14 /\ Place["llmUsage"] = 15
      /\ Place["llm"] = 16 /\ Place["stepEvent"] = 17 /\ Place["step"] = 18 /\ Place["check"] = 19
      /\ Place["started"] = 20 /\ Place["init"] = 21
  BY DEF Place
<1> USE <1>a, <1>b, <1>c, <1>d DEF Progress, StepsLeft, CallsLeft, Statements, Asking, Answering, Iterating, Calling, Ending, PC, budgetVars, loopVars, Goto
<1>1. CASE InitState
  BY <1>1 DEF InitState
<1>2. CASE EmitStarted
  BY <1>2 DEF EmitStarted
<1>3. CASE CheckStep
  BY <1>3 DEF CheckStep, Return, LoopOver
<1>4. CASE RecordStep
  BY <1>4 DEF RecordStep
<1>5. CASE EmitStepStarted
  <2>1. /\ pc = "stepEvent" /\ step' = step /\ late' = late
        /\ pc' = IF level = 0 THEN "called" ELSE "llm"
    BY <1>5 DEF EmitStepStarted, Reach
  <2> QED BY <2>1
<1>6. CASE CallModel
  <2>1. pc = "llm" /\ pc' = "llmUsage" /\ step' = step /\ late' = late
    BY <1>6 DEF CallModel
  <2>2. StepsLeft' = StepsLeft
    BY <2>1
  <2>3. level # 0 /\ CallsLeft' = left' /\ CallsLeft = MaxCallsPerAnswer
    BY <2>1
  <2>4. Place[pc'] < Place[pc] /\ Place[pc'] \in Nat /\ Place[pc] \in Nat
    BY <2>1
  <2>5. Statements' < Statements
    BY <2>1, <2>4
  <2>6. left' < MaxCallsPerAnswer \/ left' = MaxCallsPerAnswer
    BY ONLY <1>a, <1>c, <2>3
  <2>7. CallsLeft' < CallsLeft \/ CallsLeft' = CallsLeft
    BY <2>3, <2>6
  <2> QED BY <2>2, <2>5, <2>7
<1>7. CASE RecordUsage
  BY <1>7 DEF RecordUsage
<1>8. CASE EmitModelCalled
  BY <1>8 DEF EmitModelCalled
<1>9. CASE EmitDecision
  BY <1>9 DEF EmitDecision
<1>10. CASE NextCall
  <2>1. /\ pc = "next" /\ step' = step /\ late' = late
        /\ \/ pc' = "evaluate" /\ left = 0 /\ left' = left
           \/ pc' = "finish" /\ left' = left
           \/ pc' = "called" /\ left > 0 /\ left' = left - 1
    BY <1>10 DEF NextCall, Reach, Return
  <2>2. CASE pc' = "called"
    <3>1. StepsLeft' = StepsLeft
      BY <2>1, <2>2
    <3>2. CallsLeft' < CallsLeft
      BY <2>1, <2>2
    <3> QED BY <3>1, <3>2
  <2>3. CASE pc' = "evaluate"
    <3>1. StepsLeft' = StepsLeft
      BY <2>1, <2>3
    <3>2. left = 0 /\ CallsLeft' = CallsLeft
      BY <2>1, <2>3
    <3>3. Statements' < Statements
      BY <2>1, <2>3
    <3> QED BY <3>1, <3>2, <3>3
  <2>4. CASE pc' = "finish"
    BY <2>1, <2>4
  <2> QED BY <2>1, <2>2, <2>3, <2>4
<1>11. CASE EmitToolCalled
  BY <1>11 DEF EmitToolCalled
<1>12. CASE Expire
  BY <1>12 DEF Expire
<1>13. CASE Invoke
  <2>1. /\ pc = "invoke" /\ step' = step /\ left' = left /\ late' = late
        /\ pc' \in {"error", "record", "policyEvent"}
    BY <1>13 DEF Invoke, NotFound, Refuse, RejectInput, RunTool, RunStateUpdate, Returns
  <2>2. CASE pc' = "error"
    BY <2>1, <2>2
  <2>3. CASE pc' # "error"
    <3>1. StepsLeft' = StepsLeft /\ CallsLeft' = CallsLeft
      BY <2>1, <2>3
    <3>2. Place[pc'] < Place[pc] /\ Place[pc'] \in Nat /\ Place[pc] \in Nat
      BY <2>1, <2>3
    <3>3. Statements' < Statements
      BY <2>1, <3>2
    <3> QED BY <3>1, <3>3
  <2> QED BY <2>2, <2>3
<1>14. CASE EmitPolicyEvaluated
  BY <1>14 DEF EmitPolicyEvaluated
<1>15. CASE RecordToolCall
  <2>1. /\ pc = "record" /\ step' = step /\ left' = left /\ late' = late
        /\ pc' \in {"metric", "resultEvent"}
    BY <1>15 DEF RecordToolCall
  <2>2. StepsLeft' = StepsLeft
    BY <2>1
  <2>3. CallsLeft' = CallsLeft
    BY <2>1
  <2>4. Place[pc'] < Place[pc] /\ Place[pc'] \in Nat /\ Place[pc] \in Nat
    BY <2>1
  <2>5. Statements' < Statements
    BY <2>1, <2>4
  <2> QED BY <2>2, <2>3, <2>5
<1>16. CASE RecordToolCallMetric
  BY <1>16 DEF RecordToolCallMetric
<1>17. CASE EmitToolResult
  BY <1>17 DEF EmitToolResult, AfterCall
<1>18. CASE EmitStateUpdated
  BY <1>18 DEF EmitStateUpdated, AfterCall
<1>19. CASE EvaluateGoal
  BY <1>19 DEF EvaluateGoal, Return
<1>20. CASE Raise
  BY <1>20 DEF Raise, TryBlock
<1>21. CASE EmitError
  BY <1>21 DEF EmitError, Return
<1>22. CASE FinishRun
  BY <1>22 DEF FinishRun
<1>23. CASE EmitFinished
  BY <1>23 DEF EmitFinished
<1> QED BY <1>1, <1>2, <1>3, <1>4, <1>5, <1>6, <1>7, <1>8, <1>9, <1>10, <1>11, <1>12, <1>13, <1>14, <1>15, <1>16, <1>17, <1>18, <1>19, <1>20, <1>21, <1>22, <1>23 DEF Next, Done

-----------------------------------------------------------------------------
(* The theorems *)

IInv == /\ Typed /\ NotEnded /\ Counted /\ CallsCharged /\ TokensCharged
        /\ CallsPermitted /\ Outcome /\ StatusesFit /\ Explains /\ Looping

LEMMA InitInv == Init => IInv
<1> SUFFICES ASSUME Init PROVE IInv
  OBVIOUS
<1>1. Typed /\ NotEnded
  BY InitTyped
<1>2. /\ pc = "init" /\ events = <<>> /\ toolCalls = <<>> /\ verdict = <<"none", "none">>
      /\ row.steps = 0 /\ row.tool_calls = 0 /\ row.tokens = 0 /\ row.money = 0
      /\ usage.tool_calls = 0 /\ usage.tokens = 0 /\ usage.money = 0
  BY DEF Init
<1>3. DOMAIN events = {} /\ DOMAIN toolCalls = {} /\ Len(toolCalls) = 0
  BY <1>2
<1>4. /\ \A t : Emitted(t) = 0 /\ NStatus(t) = 0
      /\ NAllowed = 0 /\ NRefused = 0 /\ NRan = 0
  <2>1. /\ \A t : {i \in DOMAIN events : events[i].type = t} = {}
        /\ \A k : {i \in DOMAIN toolCalls : toolCalls[i].status = k} = {}
        /\ Rows(Allowed) = {} /\ Rows(Refused) = {} /\ Rows(Ran) = {}
    BY <1>3 DEF Rows
  <2> QED BY <2>1, FS_EmptySet DEF Emitted, NStatus, NAllowed, NRefused, NRan
<1>5. StepGap = 0 /\ CallGap = 0 /\ ResultGap = 0 /\ PolicyGap = 0 /\ AllowedGap = 0
  BY <1>2, <1>3, <1>4 DEF StepGap, CallGap, ResultGap, PolicyGap, AllowedGap
<1>6. Counted
  BY <1>2, <1>5 DEF Counted, Gap, Crashing, Ending
<1>7. CallsCharged
  BY <1>2, <1>4, BudgetAssumption DEF CallsCharged, Charged
<1>8. TokensCharged
  BY <1>2, BudgetAssumption, InputAssumption DEF TokensCharged
<1>9. CallsPermitted
  BY <1>2, <1>3 DEF CallsPermitted, PolicyRespected
<1>10. Outcome
  BY <1>2 DEF Outcome, Ending, Holds
<1>11. StatusesFit
  <2>1. NStatus("ok") = 0 /\ NStatus("error") = 0 /\ NAllowed = 0 /\ \A k \in Kinds : NStatus(k) \in Nat
    BY <1>4
  <2>2. NStatus("ok") + NStatus("error") = NAllowed
    BY <2>1
  <2> QED BY <1>2, <2>1, <2>2 DEF StatusesFit
<1>12. Explains
  BY InitExplains
<1>13. Looping
  BY InitLooping
<1> QED BY <1>1, <1>6, <1>7, <1>8, <1>9, <1>10, <1>11, <1>12, <1>13 DEF IInv

LEMMA NextInv == IInv /\ [Next]_vars => IInv'
BY TypedBudgetStep, TypedTablesStep, TypedLoopStep, TypedCallStep, NotEndedStep, CountedStep,
   CallsChargedStep, TokensChargedStep, CallsPermittedStep, OutcomeStep, StatusesFitStep,
   ExplainsStep, LoopingStep DEF IInv, Typed

LEMMA InvAlways == Spec => []IInv
BY InitInv, NextInv, PTL DEF Spec

\* Types of the budget, the tables and the interpreter's locals.
THEOREM ExecutorTyped == Spec => []TypeOK
<1>1. IInv => TypeOK
  BY DEF IInv, Typed, TypedBudget, TypedTables, TypedLoop, TypedCall, Row, Terminal, TypeOK
<1> QED BY <1>1, InvAlways, PTL

\* execute_run commits each row on its own: the counts of runs, tool_calls and
\* events are one statement apart at most, wherever the run stops, and equal
\* when it ends without a crash.
THEOREM TablesAlwaysAgree == Spec => []TablesAgree
<1>1. ASSUME IInv PROVE TablesAgree
  <2>1. /\ StepGap \in {0, 1} /\ CallGap \in {0, 1} /\ ResultGap \in {0, 1}
        /\ PolicyGap \in {0, 1} /\ AllowedGap \in {0, 1}
    BY <1>1 DEF IInv, Counted, Gap
  <2>2. row.status \in Terminal \ {"crashed"} =>
          StepGap = 0 /\ CallGap = 0 /\ ResultGap = 0 /\ PolicyGap = 0 /\ AllowedGap = 0
    BY <1>1 DEF IInv, Counted, Gap, Crashing, NotEnded
  <2>3. Numbers
    BY <1>1, CountsAreNumbers DEF IInv, Typed, TypedTables, Row, Numbers
  <2>4. StepGap = 0 => Emitted("step.started") = row.steps
    BY <2>3 DEF StepGap, Numbers
  <2>5. CallGap = 0 => Emitted("tool.called") = Len(toolCalls)
    BY <2>3 DEF CallGap, Numbers
  <2>6. ResultGap = 0 => Emitted("tool.result") = Len(toolCalls)
    BY <2>3 DEF ResultGap, Numbers
  <2>7. PolicyGap = 0 => Emitted("policy.evaluated") = NRefused
    BY <2>3 DEF PolicyGap, Numbers
  <2>8. AllowedGap = 0 => row.tool_calls = NAllowed
    BY <2>3 DEF AllowedGap, Numbers
  <2> QED BY <2>1, <2>2, <2>4, <2>5, <2>6, <2>7, <2>8
        DEF TablesAgree, StepGap, CallGap, ResultGap, PolicyGap, AllowedGap, NRefused, NAllowed
<1> QED BY <1>1, InvAlways, PTL

\* No more tools run than max_tool_calls, whatever the level, however many
\* calls an answer has and whichever of them are refused or rejected: the
\* policy chain asks the budget before each (engine.py, budget.py).
THEOREM ToolsStayWithinBudget == Spec => []RanWithinBudget
<1>1. ASSUME IInv PROVE RanWithinBudget
  <2>1. NRan \in Nat /\ usage.tool_calls \in Nat /\ Charged \in {0, 1} /\ MaxToolCalls \in Nat
    BY <1>1, CountsAreNumbers, BudgetAssumption DEF IInv, Typed, TypedBudget, Charged
  <2>2. NRan + Charged <= usage.tool_calls /\ usage.tool_calls <= MaxToolCalls
    BY <1>1 DEF IInv, CallsCharged
  <2>3. NRan <= MaxToolCalls
    BY <2>1, <2>2
  <2> QED BY <2>3 DEF RanWithinBudget, NRan
<1> QED BY <1>1, InvAlways, PTL

\* The row never shows more tokens or money than the budget and one answer.
THEOREM OneAnswerOver == Spec => []OvershootIsOneAnswer
<1>1. ASSUME IInv PROVE OvershootIsOneAnswer
  <2>1. {row.tokens, row.money, usage.tokens, usage.money, MaxTokens, MaxMoney, MaxAnswerTokens, MaxAnswerMoney,
         answer.tokens, answer.money} \subseteq Nat
    BY <1>1, BudgetAssumption, InputAssumption DEF IInv, Typed, TypedBudget, TypedTables, TypedLoop, Row
  <2>2. row.tokens <= usage.tokens /\ row.money <= usage.money
    <3>1. CASE pc = "llmUsage"
      BY <1>1, <2>1, <3>1 DEF IInv, TokensCharged
    <3>2. CASE pc # "llmUsage"
      BY <1>1, <2>1, <3>2 DEF IInv, TokensCharged
    <3> QED BY <3>1, <3>2
  <2>3. usage.tokens < MaxTokens + MaxAnswerTokens /\ usage.money < MaxMoney + MaxAnswerMoney
    BY <1>1 DEF IInv, TokensCharged
  <2> QED BY <2>1, <2>2, <2>3 DEF OvershootIsOneAnswer
<1> QED BY <1>1, InvAlways, PTL

\* Whatever the definition's policies section says and the model asks for, a
\* call of which tool_calls says that it ran is one the section permits.
THEOREM PolicyAlwaysRespected == Spec => []PolicyRespected
<1>1. IInv => PolicyRespected
  BY DEF IInv, CallsPermitted
<1> QED BY <1>1, InvAlways, PTL

\* For every pair of criteria lists, over every state the tools leave behind.
THEOREM OutcomeAlwaysFollowsGoal == Spec => []OutcomeFollowsGoal
<1>1. ASSUME IInv PROVE OutcomeFollowsGoal
  <2>1. CASE row.status \in Terminal
    <3>1. row.status = verdict[1] /\ row.reason = verdict[2] /\ Deserved
      BY <1>1, <2>1 DEF IInv, NotEnded, Outcome, Ending
    <3> QED BY <3>1 DEF Deserved, OutcomeFollowsGoal
  <2>2. CASE row.status \notin Terminal
    <3>1. row.reason = "none" /\ row.status \notin {"failed", "completed", "exhausted"}
      BY <1>1, <2>2 DEF IInv, NotEnded, Terminal
    <3> QED BY <3>1 DEF OutcomeFollowsGoal
  <2> QED BY <2>1, <2>2
<1> QED BY <1>1, InvAlways, PTL

\* The diffs of the log, applied to the schema's defaults in order, give the
\* run_state row, one write behind it at most, for every sequence of writes:
\* state.updated is emitted after the row, with the state from before the call.
THEOREM StateIsAlwaysReplayable == Spec => []StateIsReplayable
<1>1. ASSUME IInv PROVE StateIsReplayable
  <2>1. runState.version > 0 => pc # "init"
    BY <1>1 DEF IInv, NotEnded, Typed, TypedTables
  <2>2. row.status \in Terminal \ {"crashed"} => pc \in Ending /\ verdict[1] # "crashed"
    BY <1>1 DEF IInv, NotEnded, Ending
  <2> QED BY <1>1, <2>1, <2>2 DEF IInv, Explains, StateIsReplayable, Unlogged, Explained
<1> QED BY <1>1, InvAlways, PTL

\* consume_step has no caller, so max_steps never ends a run; what does bound
\* the steps of runs.steps is the loop, at level 3 its constant of ten.
THEOREM StepsStayWithinLoop == Spec => [](row.steps <= LoopBound)
<1>1. IInv => row.steps <= LoopBound
  BY DEF IInv, Looping
<1> QED BY <1>1, InvAlways, PTL

\* Every statement of the interpreter brings the end nearer, whatever models
\* and tools answer and whatever raises: no run can go on for ever, at any
\* level and under any budget.  That it does take its next statement is the
\* fairness RunTerminates adds.
THEOREM InterpretationIsFinite == Spec => [](Rank \in Nat) /\ [][Rank' < Rank]_vars
<1> DEFINE Parts == /\ StepsLeft \in Nat /\ CallsLeft \in 0..MaxCallsPerAnswer
                    /\ Statements \in 0..43 /\ Rank \in Nat
<1>1. IInv => Parts
  BY RankParts DEF IInv
<1>2. IInv' => Parts'
  BY <1>1, PTL
<1>3. ASSUME IInv, IInv', [Next]_vars PROVE [Rank' < Rank]_vars
  <2> SUFFICES ASSUME Next, vars' # vars PROVE Rank' < Rank
    BY <1>3
  <2> DEFINE K == MaxCallsPerAnswer
             a == StepsLeft
             b == CallsLeft
             c == Statements
             a2 == StepsLeft'
             b2 == CallsLeft'
             c2 == Statements'
  <2>1. a2 < a \/ (a2 = a /\ b2 < b) \/ (a2 = a /\ b2 = b /\ c2 < c)
    BY <1>3, StepIsProgress DEF IInv, Progress
  <2>2. K \in Nat /\ a \in Nat /\ b \in 0..K /\ c \in 0..43
    BY <1>1, <1>3, InputAssumption
  <2>3. a2 \in Nat /\ b2 \in 0..K /\ c2 \in 0..43
    BY <1>2, <1>3
  <2>4. Rank = (a * (K + 1) + b) * 44 + c /\ Rank' = (a2 * (K + 1) + b2) * 44 + c2
    BY DEF Rank
  <2> HIDE DEF K, a, b, c, a2, b2, c2
  <2>5. (a2 * (K + 1) + b2) * 44 + c2 < (a * (K + 1) + b) * 44 + c
    BY <2>1, <2>2, <2>3, RankOrder
  <2> QED BY <2>4, <2>5
<1> QED BY <1>1, <1>3, InvAlways, PTL DEF Spec

-----------------------------------------------------------------------------
(* The refinements *)

LEMMA LifecycleInit == Init => Lifecycle!Init
<1> SUFFICES ASSUME Init PROVE Lifecycle!Init
  OBVIOUS
<1>1. row.status \in {"queued", "running"} /\ runState.version = 0
  BY DEF Init
<1> QED BY <1>1 DEF Lifecycle!Init

\* Every step begins the run, ends it, or is invisible to RunLifecycle.
LEMMA LifecycleStep == IInv /\ [Next]_vars => [Lifecycle!Next]_(Lifecycle!lifeVars)
<1> DEFINE Quiet == row'.status = row.status /\ (runState'.version = 0 <=> runState.version = 0)
<1> SUFFICES ASSUME IInv, [Next]_vars PROVE Lifecycle!Next \/ Quiet
  <2>1. Quiet => UNCHANGED Lifecycle!lifeVars
    BY DEF Lifecycle!lifeVars
  <2> QED BY <2>1
<1>0. /\ row \in Row /\ runState.version \in Nat
      /\ row.status \in Terminal => pc \in {"finished", "done"}
      /\ pc = "init" <=> runState.version = 0
  BY DEF IInv, Typed, TypedTables, NotEnded
<1> USE DEF dbVars, Goto
<1>1. CASE InitState
  <2>1. row.status \in {"queued", "running"} /\ row' = row /\ runState.version = 0 /\ runState'.version = 1
    BY <1>0, <1>1 DEF InitState, Row
  <2>2. Lifecycle!Begin("run", "interpreter")
    BY <2>1 DEF Lifecycle!Begin
  <2> QED BY <2>2 DEF Lifecycle!Next
<1>2. CASE FinishRun
  <2>1. /\ row.status \in {"queued", "running"} /\ row'.status = verdict[1] /\ verdict[1] \in Terminal
        /\ runState' = runState /\ runState.version # 0
    BY <1>0, <1>2 DEF FinishRun, Row, IInv, Typed, TypedLoop, TypedCall, Ending
  <2>2. Lifecycle!End("run", verdict[1])
    BY <2>1 DEF Lifecycle!End
  <2>3. verdict[1] \in Lifecycle!Terminal
    BY <2>1 DEF Terminal, Lifecycle!Terminal
  <2> QED BY <2>2, <2>3 DEF Lifecycle!Next
<1>3. CASE Invoke
  <2>1. row' = row /\ (runState' = runState \/ runState'.version = runState.version + 1) /\ pc = "invoke"
    BY <1>3 DEF Invoke, NotFound, Refuse, RejectInput, RunTool, RunStateUpdate
  <2> QED BY <1>0, <2>1
<1>4. CASE RecordStep \/ RecordUsage \/ RecordToolCallMetric
  BY <1>0, <1>4 DEF RecordStep, RecordUsage, RecordToolCallMetric, Row
<1>5. CASE row' = row /\ runState' = runState
  BY <1>5
<1>6. \/ InitState \/ FinishRun \/ Invoke
      \/ RecordStep \/ RecordUsage \/ RecordToolCallMetric
      \/ row' = row /\ runState' = runState
  BY DEF Next, vars, RecordToolCall, EmitStarted, CheckStep, EmitStepStarted, CallModel, EmitModelCalled, EmitDecision, NextCall, EmitToolCalled, Expire, EmitPolicyEvaluated, EmitToolResult, EmitStateUpdated, EvaluateGoal, Raise, EmitError, EmitFinished, Done
<1> QED BY <1>1, <1>2, <1>3, <1>4, <1>5, <1>6

\* One run's execution implements the life of a run that RunLifecycle states:
\* it ends once, after its run_state row exists, and never leaves its status.
THEOREM ExecutionImplementsLifecycle == Spec => ImplementsLifecycle
  BY LifecycleInit, LifecycleStep, InvAlways, PTL DEF Spec, ImplementsLifecycle, Lifecycle!Spec

LEMMA ReadersInit == Init => Readers!RowsInit
<1> SUFFICES ASSUME Init PROVE Readers!RowsInit
  OBVIOUS
<1>1. row.status \in {"queued", "running"} /\ row.tool_calls = 0
  BY DEF Init
<1>2. \A k : {i \in DOMAIN toolCalls : toolCalls[i].status = k} = {}
  <2>1. DOMAIN toolCalls = {}
    BY DEF Init
  <2> QED BY <2>1
<1>3. \A k : Cardinality({i \in DOMAIN toolCalls : toolCalls[i].status = k}) = 0
  BY <1>2, FS_EmptySet
<1>4. [k \in {"ok", "error", "denied", "pending_approval"} |->
         Cardinality({i \in DOMAIN toolCalls : toolCalls[i].status = k})] = Readers!NoCalls
  BY <1>3 DEF Readers!NoCalls, Readers!Kinds
<1> QED BY <1>1, <1>4 DEF Readers!RowsInit

\* Every step records a call, counts one, ends the run, or is invisible to a
\* reader of the two tables.
LEMMA ReadersStep == IInv /\ [Next]_vars => [Readers!RowsNext]_([r \in {"run"} |->
             [status |-> row.status, tool_calls |-> row.tool_calls,
              calls |-> [k \in {"ok", "error", "denied", "pending_approval"} |->
                           Cardinality({i \in DOMAIN toolCalls : toolCalls[i].status = k})]]])
<1> DEFINE Quiet == row'.status = row.status /\ row'.tool_calls = row.tool_calls /\ toolCalls' = toolCalls
<1> SUFFICES ASSUME IInv, [Next]_vars PROVE Readers!RowsNext \/ Quiet
  OBVIOUS
<1>0. /\ row \in Row
      /\ row.status \in Terminal => pc \in {"finished", "done"}
      /\ NAllowed \in Nat /\ row.tool_calls \in Nat
      /\ Gap(AllowedGap, pc = "metric")
      /\ NStatus("ok") + NStatus("error") = NAllowed
      /\ pc = "record" => result.status \in Kinds
  BY CountsAreNumbers DEF IInv, Typed, TypedTables, NotEnded, Counted, StatusesFit, Row
<1>a. Readers!AllowedCalls("run") = NAllowed
  <2>1. Readers!AllowedCalls("run") = NStatus("ok") + NStatus("error")
    BY DEF Readers!AllowedCalls, NStatus
  <2> QED BY <1>0, <2>1
<1> USE DEF dbVars, Goto
<1>1. CASE RecordToolCall
  <2>1. /\ pc = "record" /\ row.status \in {"queued", "running"} /\ row' = row
        /\ result.status \in Kinds
    BY <1>0, <1>1 DEF RecordToolCall, Row
  <2>2. row.tool_calls = NAllowed
    BY <1>0, <2>1 DEF Gap, Crashing, AllowedGap, Ending
  <2>3. \A k : NStatus(k)' = IF result.status = k THEN NStatus(k) + 1 ELSE NStatus(k)
    <3> DEFINE c == [call |-> call, step |-> step, status |-> result.status, decision |-> result.decision]
    <3>1. toolCalls' = Append(toolCalls, c) /\ c.status = result.status
      BY <1>1 DEF RecordToolCall
    <3>2. IsLog(toolCalls)
      BY DEF IInv, Typed, TypedTables
    <3> HIDE DEF c
    <3> QED BY <3>1, <3>2, StatusesAfter
  <2>4. Readers!Record("run", result.status)
    <3> DEFINE Calls0 == [k \in {"ok", "error", "denied", "pending_approval"} |->
                            Cardinality({i \in DOMAIN toolCalls : toolCalls[i].status = k})]
    <3>1. Calls0 = [k \in Kinds |-> NStatus(k)] /\ Calls0' = [k \in Kinds |-> NStatus(k)']
      BY DEF NStatus, Kinds
    <3>2. Calls0' = [Calls0 EXCEPT ![result.status] = Calls0[result.status] + 1]
      BY <2>1, <2>3, <3>1
    <3> HIDE DEF Calls0
    <3> QED BY <1>a, <2>1, <2>2, <3>2 DEF Readers!Record, Readers!Underway, Calls0
  <2> QED BY <2>1, <2>4 DEF Readers!RowsNext, Readers!Kinds, Kinds
<1>2. CASE RecordToolCallMetric
  <2>1. /\ pc = "metric" /\ row.status \in {"queued", "running"}
        /\ row' = [row EXCEPT !.tool_calls = row.tool_calls + 1] /\ toolCalls' = toolCalls
    BY <1>0, <1>2 DEF RecordToolCallMetric, Row
  <2>2. row.tool_calls < NAllowed
    BY <1>0, <2>1 DEF Gap, AllowedGap
  <2>3. row'.status = row.status /\ row'.tool_calls = row.tool_calls + 1
    BY <1>0, <2>1 DEF Row
  <2>4. Readers!Count("run")
    BY <1>a, <2>1, <2>2, <2>3 DEF Readers!Count, Readers!Underway
  <2> QED BY <2>4 DEF Readers!RowsNext
<1>3. CASE FinishRun
  <2>1. /\ pc = "finish" /\ row.status \in {"queued", "running"} /\ toolCalls' = toolCalls
        /\ row'.status = verdict[1] /\ row'.tool_calls = row.tool_calls /\ verdict[1] \in Terminal
    BY <1>0, <1>3 DEF FinishRun, Row, IInv, Typed, TypedLoop, TypedCall, Ending
  <2>2. verdict[1] # "crashed" => row.tool_calls = NAllowed
    BY <1>0, <2>1 DEF Gap, Crashing, AllowedGap, Ending
  <2>3. Readers!Finish("run", verdict[1])
    BY <1>a, <2>1, <2>2 DEF Readers!Finish, Readers!Underway
  <2> QED BY <2>1, <2>3 DEF Readers!RowsNext, Readers!Terminal, Terminal
<1>4. CASE RecordStep \/ RecordUsage
  BY <1>0, <1>4 DEF RecordStep, RecordUsage, Row
<1>5. CASE row' = row /\ toolCalls' = toolCalls
  BY <1>5
<1> QED BY <1>1, <1>2, <1>3, <1>4, <1>5
        DEF Next, vars, InitState, Invoke, EmitStarted, CheckStep, EmitStepStarted, CallModel, EmitModelCalled, EmitDecision, NextCall, EmitToolCalled, Expire, EmitPolicyEvaluated, EmitToolResult, EmitStateUpdated, EvaluateGoal, Raise, EmitError, EmitFinished, Done

\* What Metrics assumes of the runs it reads, and RunRows states, the
\* interpreter keeps: recorded before counted, nothing after the end.
THEOREM ExecutionImplementsRunRows == Spec => ImplementsRunRows
  BY ReadersInit, ReadersStep, InvAlways, PTL DEF Spec, ImplementsRunRows, Readers!RowsSpec
=============================================================================
