# A formal model of the Autonomous Agent Platform (AAP)

TLA+ modules of the AAP runtime, the TLC configurations that check them, and
TLAPS proofs of the results that matter most. The reference is always the code
(`src/aap/...`, `ui/...`); the docs are quoted only where the code disagrees
with them (see *Findings*).

## 1. The system

An *agent* is a versioned JSON definition. A *run* is one execution of one
version. Four kinds of process share two SQLite files (`control.db`,
`runtime.db`) and a third one for the domain (`domain.db`):

- the **API** (FastAPI, one thread per request): writes definitions, queues runs, reads everything;
- the **worker** (`worker/main.py`, restarted by docker): claims queued runs, executes them, writes a heartbeat;
- **`aap evaluate`** (`cli/main.py`, `core/evaluation/eval_runner.py`): inserts runs and executes them itself;
- the **UI** (static pages): polls the API.

`core/db.py` opens every connection with `isolation_level=None`: each SQL
statement commits on its own (only `update_state` opens a transaction), and this
single decision makes the interleavings and crash points that the models are
about.

| Component | State | Operations | Interacts with | What is hard | What makes it correct |
|---|---|---|---|---|---|
| Run queue (`core/runtime/runs.py`, `worker/main.py`, `eval_runner.py`, `api/routers/runs.py`) | `runs`, `run_state` (as a lock), run-level `events`, the processes' memory | queue, claim (SELECT + UPDATE), start, finish, judge, record the evaluation | executor, API, evaluation | workers and evaluations compete for a run; a process dies between two statements; a handler itself fails | one interpreter per run, terminal status is final, events agree with status, an evaluation scores only its own runs, every run ends |
| Executor (`core/runtime/executor.py`, `budget.py`, `state.py`) | budget, step, the rows of `runs`, `run_state`, `tool_calls`, `events` | L0 fixed steps, L1/L2 single shot, L3 loop, tool invocation, termination | router, broker, criteria | an exception between any two commits; budgets read before and charged after; five dimensions, four exits | tables agree with each other, budgets hold, the log explains the state, the outcome is the goal's |
| Tool broker (`core/tools/broker.py`) | none of its own | `invoke`: lookup, policy, input, call | policy, budget, tools | which refusal is charged, counted or logged | only permitted calls run |
| Policy engine (`core/policy/engine.py`) | none | `authorize` | budget | first deciding check wins | ALLOW exactly when everything permits |
| Goal criteria (`core/runtime/criteria.py`) | none | `evaluate`, `evaluate_all` | executor | invalid criteria, missing names, incomparable values | failure before success |
| Definition repository (`core/definition/repository.py`, `api/routers/agents.py`) | `agents`, `agent_versions` | create, promote, archive; read the active version and queue a run of it | API, run queue, Factory | three statements per activation, overlapping requests, deaths, a pointer read long before it is used | immutable versions, one active version, pointer and statuses agree, a pointer never names a draft |
| Entity store (`domain/entities.py`, `tools/mock/`) | `entities`, fault queues | `db.upsert` | broker | two runs look for one key before either writes it; death before the answer | what a run was told stays true, every row announced once |
| Model router (`core/llm/router.py`, `providers/`) | provider instances, scripts | `complete` | executor | endpoints come and go during a request; some exceptions degrade, others escape | chain order, last resort, scripts step by step |
| Factory (`factory/clone.py`, `diff.py`) | - | duplicate an agent with overrides, diff two versions | repository | the agent is created before its version validates; two duplications want one id; the source changes meanwhile | a copy is its source and what was asked, alone in an agent of its own |
| Definition schema (`core/definition/models.py`, `validate.py`) | - | validate, coerce values, fill in defaults | repository, Factory | free-form dicts inside closed models, submodels that may be None, defaults inside lists, empty dicts in merges and diffs | only valid definitions are stored, and a stored one is read back as it is |
| Heartbeat and `/health` (`worker/main.py`, `api/routers/health.py`) | `system_heartbeat`, `last_heartbeat` | write, read with an age limit | worker | the worker does not beat during a run; two clocks; deaths and restarts | what `/health` says is true, up to named exceptions |
| Run Inspector (`ui/run.html`) | the page, its timer | poll four resources, draw, stop | API | loads overlap and finish out of order, requests fail | the page that stops shows the end, and it stops |
| Metrics (`core/evaluation/metrics.py`) | - | one SELECT over runs, one over tool calls per run | run tables | workers write between the SELECTs | a report adds up, and is never taken back |
| Memory, comparison, canonical form, export, CLI parsing | rows nobody changes, or none | single statements, pure functions | - | - | not modelled (section 8) |

## 2. Modules

    RunLifecycle            abstract: the life of a run
      ^           ^
      | refines   | refines
    RunQueue     Executor ---- EXTENDS Criteria, PolicyEngine
                   | refines
                   v
                 RunRows    abstract: a run as readers of its rows count it
                   ^
                   | EXTENDS
                 Metrics   RunInspector   Heartbeat
                        \       |        /
                            Observers                 the three who watch
    DefinitionDocs <-- DefinitionRepository           definitions and the Factory
    EntityStore    ModelRouter                        (independent components)
    MC<module>              instances for TLC
    RunQueueProofs <- RunQueueAuditProofs,
    Induction <- ExecutorProofs, ObserverProofs,
    DefinitionRepositoryProofs,
    EntityStoreProofs, ModelRouterProofs              TLAPS

**RunLifecycle** is what the runtime promises of a run: submitted once, claimed
at most once, interpreted by one process in its whole life, ended at most once.

**RunQueue** models every statement on `runs` and `run_state` by every process.
`status`, `startedAt`, `runState`, `events` are columns and rows; `pc`, `run`,
`outcome`, `report` are process memory; `clock` orders `started_at` only; `seen`
is history. Actions follow the code: `Stamp`/`Insert` are `create_run` (uuid and
time, then INSERT), `Select`/`Update` are `claim_next_queued_run`, `Prepare` is
the worker's set-up, `InitState` .. `EmitFinished` are `execute_run`, `Judge` and
`RecordEvaluation` are the evaluation. `Interrupt` is a process death (with the
restart that docker makes) or a statement that raises where no handler writes
anything. What happens between `run.started` and the return value is one step
(`Body`), which **Executor** takes apart.

**Executor** models one run from `init_state` to its last event, with every
persistent statement an action: `CheckStep`, `RecordStep`, `EmitStepStarted`,
`CallModel`, `RecordUsage`, `EmitModelCalled`, `EmitDecision`, `NextCall`, then
for each call `EmitToolCalled`, `Invoke` (the broker), `EmitPolicyEvaluated`,
`RecordToolCall`, `RecordToolCallMetric`, `EmitToolResult`, `EmitStateUpdated`,
and `EvaluateGoal`. `Raise` is an exception at any statement of the try block,
`EmitError`/`FinishRun`/`EmitFinished` what follows. All levels L0-L4 are in it.
Model answers and tool results are arbitrary.

**Criteria** is the comparison language (`_OPS`, names, constants, the three
ways to be invalid or to raise, numbers ordered with numbers and texts with
texts) and `_evaluate_termination`. **PolicyEngine** is
`authorize` check by check, beside `Permits`, the policy read as a whole.

**RunRows** is what a reader of `runs` and `tool_calls` may count on while a run
goes on: a call is recorded before it is counted, nothing is recorded after the
end, and only a crash ends a run between the two. Executor implements it, Metrics
reads it: that is how the two are composed without interpreting whole runs
under the reader.

**Metrics** is `compute_metrics` as the API runs it: `ListRuns`, then one
`ListToolCalls` per run, then `Report`, with the workers' statements (RunRows)
anywhere between. **RunInspector** is the page: `Tick` is the timer calling
`load()`, `AnswerTo` the API reading for one of its requests, `Draw` the resolved
`Promise.all`, `Fail` the rejected one; `Commit` is any statement of the run.
`crossed` is history: loads that another has overtaken. **Heartbeat** is
`run_forever` with a clock: `Top`, `Write`, a run or a sleep, and so on, with
`Pass` for time, `WorkerDies` and `WorkerRestarts`. **Observers** puts the three
beside each other; they share no state, so a behaviour follows one of them.

**DefinitionDocs** has definitions as documents (functions from paths to
values, where a path is a sequence of keys): what validation accepts (`Valid`),
what `model_validate` and `model_dump` make of what they accept (`Canonical`),
`_deep_merge`, `_flatten` and `deep_diff`. The schema is a set of `Fields`, each a
leaf of one of three sorts: `FreeForm` (a plain dict, with any keys inside),
`Optional` (None, or a submodel with fields of its own: `brain.reasoning` and
`brain.cheap`) and the typed rest. `Parse` is a field's type as a function: it
refuses a value, keeps it, or makes another of it ("10" is 10, a `ToolRef` without
`config` gets one).

**DefinitionRepository** models `create_agent`, `create_version`,
`promote_version`, `archive_version` and `duplicate_agent` statement by
statement for several sessions, and the clients that read the active version
and act on it later (`ChooseVersion`, `QueueRun`). `tainted` is history: agents
on which operations overlapped, or one was cut short, and no activation has run
alone since. `copied` and `born` are history too: which rows are copies of what,
and which agents a duplication created.

**EntityStore** models `db.upsert`: the scheduled fault, the SELECT, the INSERT
(with `UNIQUE` refusing the second), the answer, and deaths between them.

**ModelRouter** models `complete`: getting a provider (cached, built, or
impossible), asking it, and the except clause that goes on to the next. The
scripted `MockProvider` keeps its script; endpoints answer, are unavailable, or
return a body that does not parse.

### Abstractions worth knowing

- `emit` (MAX(seq), then INSERT) and `update_state` (read, then write) are one
  step each: a run has one interpreter, so nobody comes between. That is not
  assumed: it is `OneInterpreter`, proved in RunQueueProofs.
- `claim_next_queued_run` refreshes `started_at`. Of a run that is no longer
  queued only `latency_ms` reads it, so the model keeps the queued-since value.
- A tool that times out and one that fails are one outcome: budget, tables and
  control are the same, only the word in `tool_calls.status` differs.
- The API's requests cannot cancel a run: `cancelled` is a status `finish_run`
  accepts and nobody writes.
- Texts, prompts, wording, latencies and redaction are left out. Patterns of
  domains are the sets they accept. A call is valid against its schema or not.
- A list is one value, as it is to `_flatten` and `_deep_merge`: what validation does
  inside its items is in `Parse`. Values that Python calls equal (1, 1.0, True) are
  one value. Agents' ids are ones the pattern of `id` accepts.
- A goal's criteria see numbers, texts, and values that have no order (None, a
  dict); lists, which Python orders item by item, do not occur in them.
- Faulty variants, next to the definitions they vary, exist to show that a
  property can fail; no specification uses them.

## 3. Runs

| Run | Asks | Instance |
|---|---|---|
| RunQueueSafety | is each run interpreted once, ended once, audited truly, judged by its owner? Does the queue implement RunLifecycle? | 1 API thread, 2 workers, 1 evaluation of 1 scenario, 2 runs, 2 faults |
| RunQueueLiveness | without faults, does every queued run end? | the same, 0 faults, fair |
| RunQueueCrash (violation) | and with one process death? | 1 worker, 1 fault, fair |
| RunQueueSwallow (violation) | has every swallowed exception marked its run `crashed`? | 1 worker, 1 evaluation, no fault |
| ExecutorLoops | do the four tables agree in every state, do budget, policy and goal hold, does the run end, are RunLifecycle and RunRows implemented? | L0-L4, 10 kinds of call, 2 iterations, 2 calls per answer, every budget dimension reachable but steps (339,344 states) |
| ExecutorMaxSteps (violation) | does `max_steps` bound the steps? | L3, `max_steps` 1, 3 iterations |
| Repository | are versions immutable, the pointer never dangling, untouched agents consistent, copies alone and as asked? | 2 sessions, 2 agents of 2 versions, 3 rows, deaths anywhere and without limit, overrides that validate and that do not (648,768 states) |
| RepositoryOverlap (violation) | is there never more than one active version? | 2 sessions, 1 agent, 3 versions, no deaths |
| Observers | does a report add up and stay true, does the page that stops show the end, does it stop, is `/health` right? | 2 runs, 2 calls; 2 loads of 2 panels, 3 commits; the code's 10, 2 and 30 s in units of 2 s, 48 s (645,532 states) |
| EntityStore | does what a run was told stay true, is each row announced once? | 3 runs, 2 keys, 2 calls each, 2 deaths, 4 fault queues |
| EntityStoreRace (violation) | is an existing key always answered `duplicate`? | 2 runs, 1 key, no faults |
| ModelRouter | chain order, last resort, scripts, termination | every chain of up to 3 of 3 names, every kind of configuration, 3 policies, 4 requests |

### Why these bounds

*RunQueue.* The conflicts are pairwise (worker against worker, worker against
evaluation) over one run; a second run is what makes order and the loss of a
whole evaluation visible, and two faults let one hit the recovery from another.
Processes and runs of one kind are interchangeable in the code, hence symmetry
(in the safety run only). The theorems cover the other sizes.
*Executor.* Two calls per answer let a budget run out in the middle of an
answer; two iterations separate "first" from "later" and reach `max_iterations`;
budgets of 1 to 3 let every dimension that is charged be the first to run out.
The calls are one per fate: allowed, wrong table, invalid input, needs approval,
unregistered, and updates that reach the goal, meet both goals at once (with
numbers, and with texts in alphabetical order), leave two values without an order,
or name an undeclared key. One policy is enough because
`AllowExactlyWhenPermitted` covers all of them.
*DefinitionRepository.* An inconsistency takes two overlapping operations, or
one and a death; a copy needs two agents, a race for its id two sessions, and a
source that is replaced meanwhile two versions. Where agents do not share rows
three versions tell "the previous" from "the others". The schema has a field of
each sort: required, a list whose items have defaults, a submodel that is None by
default, with a required field and a default of its own, and a free-form dict whose
default is not empty. The overrides that validate meet all of them: a list that
validation rewrites, a submodel where there was None, a key beside the default of
the free-form dict.
*Observers.* A load is overtaken by one other. Of the panels one decides
whether to stop and the rest only show, so two are enough; three commits are the
claim, the end and one beside them. Runs in a report differ from each other only
by their moment, and two outcomes tell a crash from an end. The clock passes the
staleness limit (15 units) after a heartbeat and again after a restart.
The theorems cover the other sizes. *EntityStore.* Two runs race, the third
comes later.
*ModelRouter.* In a chain of three there is a first, a middle and a last.

### Fairness

RunQueue: weak fairness of each worker's and evaluation's own next step and of
an API request that has begun (`run_forever` never stops, the CLI goes to the end
of its loop); nobody is obliged to send a request. Strong fairness is not needed:
a worker that loses a claim looks again. Executor: weak fairness of the
interpreter, since a model's HTTP request carries a timeout and V1 tools are local
functions; the broker has no timeout of its own, so a tool that hangs is outside
this assumption. ModelRouter: the same, for the steps of `complete` only. The
page: the browser runs the timer while it is set, resolved promises run their
callback, and the API answers or the request fails; each of these weakly fair,
failing not. Reports and `/health` have no liveness to state.

### Deadlock

Executor and DefinitionRepository are checked for it (a finished run has `Done`).
The others can really stop: all runs used, evaluations over; all calls made, or
all processes dead; all requests made; a page that has stopped beside a run that
writes no more, or the clock at its bound. There `CHECK_DEADLOCK` is off.

## 4. What the properties say

- `OneInterpreter`, `TerminalIsFinal`, `ImplementsLifecycle`: workers and
  evaluations are kept apart by the primary key of `run_state`, not by the claim.
- `EventsAgreeWithStatus`: whoever reads events and status at any moment, crash
  or not, finds one of five trails, and the status that goes with it.
- `JudgedRunsAreItsOwn`: a run that a worker took over is never scored.
- `EachFaultStrandsAtMostOneRun`: only faults leave a run `running` with nobody on it.
- `ClaimsInOrder`: FIFO among the runs that the SELECT could see.
- `TablesAgree`, `StateIsReplayable`: four tables and the log, after a crash anywhere.
- `RanWithinBudget`, `OvershootIsOneAnswer`, `RunTerminates`: bounded work.
- `PolicyRespected`, `OutcomeFollowsGoal`: order of checks does not leak out.
- `UntaintedAgentsAreConsistent`, `PointerNeverDangles`, `VersionsAreImmutable`:
  an inconsistency has a name (overlap, or half an operation) and a cure (one
  activation alone); a version that a client read from the pointer was released
  and still says the same when the client, or the worker, gets to use it.
- `OneCopyPerFreshAgent`, `CopiesSayWhatWasAsked`: the primary key, not the
  SELECT before it, gives a duplication its agent; what the diff says of a copy
  is what the overrides name, and what validation makes of that: values as their
  types read them, and the defaults of an optional submodel that the overrides have
  put where there was none. Nothing else is validation's doing, because the source
  went through it too.
- `ImplementsRunRows`, `ReportsAddUp`, `ReportsAreNeverTakenBack`: no snapshot,
  but runs are listed before their calls and calls are recorded before they are
  counted, so a report errs to one side only, and not at all over ended runs.
- `SettledPageIsFinal`, `OnlyCrossedLoadsTakeThePageBack`, `PollingStops`: the
  only loads that mislead are those another has overtaken.
- `HealthTellsTheTruth`: the ways in which `"worker"` is wrong, and no others.
- `AnswersStayTrue`, `CreatedOnce`.
- `ChainInOrder`, `LastResortAnswers`, `EveryStepOnce`, `RequestsEnd`.

## 5. Findings

1. **RunQueueCrash**: a worker that dies while it has a run leaves it `running`
   for ever. Nothing looks at `running` runs, at start-up or later;
   ARCHITECTURE.md:147 says every agent ends.
2. **RunQueueSwallow**: `worker/main.py:63` swallows exceptions because
   `execute_run` has marked the run crashed. `init_state` and the first `emit` stand
   before its try block, and the worker's own set-up before that.
3. **ExecutorMaxSteps**: `consume_step` has no caller; `max_steps` bounds nothing.
4. **RepositoryOverlap**: two overlapping activations leave two active versions.
   An activation that runs alone afterwards heals the agent
   (`UntaintedAgentsAreConsistent`).
5. **EntityStoreRace**: the loser of a race for a natural key crashes its run
   instead of being told `duplicate`.

Also seen, without a run of its own:

- `on_unavailable` values other than `next_in_chain` (ARCHITECTURE.md:1023 lists
  `queue`) all behave as `fail`, and `max_retries` is read by nobody;
  ModelRouter has it so.
- `limits.max_concurrent_runs`, `max_runs_per_day`, `long_term.max_entries` and
  `expires_at` are declared and read by nobody; `memory.write` takes
  `source_run_id` from the model's arguments.
- `deep_diff` leaves empty dicts out, and dots in keys collide: two different
  definitions can have an empty diff, which `agent.html` shows as identical.
- `create_version` inserts a new row for a definition whose hash it has already
  (ARCHITECTURE.md:733 calls two identical definitions the same version), and
  never compares the definition's `id` with the agent's: overrides can change
  it, and `run_eval_set` then creates its runs under the other id.
- One failed request stops the Run Inspector's polling for good.
- Runs that have not ended are in the denominators of the metrics' rates.
- The first heartbeat can be 10 s late on a host that has just booted, and
  `write_heartbeat` and the claim stand outside the worker's try block.

## 6. Proofs

All theorems hold for every value of the constants that satisfies the named
assumptions; these only say that process kinds are disjoint, that the `No...`
values are none of the real ones, that bounds are naturals, that that inputs have
their types (the leaves of a document are reached by sequences of keys), that
posted definitions validate, that the schema is one of closed models as `models.py`
has it, and that the sessions, and the runs of a report, are
finitely many. Of the schema (`SchemaAssumption`, `ParseAssumption`,
`DefaultsAssumption`): no field lies inside another but those of an optional
submodel, directly; parsing what has been parsed changes nothing; no typed field
accepts `{}` (`BrainSlot` has a required field); a default is what its field would
read it as. Free-form dicts may have any default, empty or not.

**Induction** holds what the proofs about data rest on. The library states
induction for an operator, which no backend here can instantiate; here what is to
be proved of every `n` is the set of the `n` it holds of (`NumberInduction`, from the
well-foundedness of `<`), and likewise for finite sets (`FiniteSetInduction`). From
it: sums over finite sets, what they bound and how they split.

**RunQueueProofs.** `IInv` is `TypeOK` with: `Busy` (who has which program point
and run), `Fresh`/`Present` (a run that is being created is nobody else's and not
in the table; one that is handled is), `Owns` (whoever interprets a run created
its `run_state` row), `Unfinished` (a run that is being interpreted and has not
reached `finish_run` is not terminal) and `Unowned` (a run without that row is
not terminal). `OneInterpreter` alone is not inductive: it takes `Owns` to refuse
the second INSERT, and `Unfinished` to know that `finish_run`, which looks at
nothing, overwrites no terminal status. From `IInv`: `TypeCorrect`,
`OneInterpreterAlways`, `TerminalStaysFinal` and the refinement
`QueueImplementsLifecycle` (initial states, then one step per action, to a step
or a stutter).

**RunQueueAuditProofs** adds to `IInv`, in `AInv`: `Trail` (at each program point
of its interpreter a run has one known trail of events), `Agree` (the property,
over named trails), `Deserved` (an evaluation comes to judge a run only by having
interpreted it to a proper end) and `LookedAt` (between its SELECT and its UPDATE a
worker holds the oldest run it saw). It proves `EventsAlwaysAgree`, `EvaluationsJudgeTheirOwn`,
`ClaimsStayInOrder` and `FaultsStrandOneRunEach`. The last counts `Lost` runs: those
whose owner has let go of them, and those claimed by somebody who is gone. A
stranded run is lost, a lost run may still be held by a worker whom `init_state`
is about to refuse, and no step loses a run but an `Interrupt`, which loses one.

**ExecutorProofs** begins with `AllowExactlyWhenPermitted`: the chain of early
returns of `authorize` answers ALLOW exactly when the budget is not spent, a dry run
only reads, and `Permits` holds; so the order of the checks decides the reason given,
never the decision to allow. Of the interpreter, `IInv` is the types (`Typed`) with: `NotEnded` (only after
`finish_run` is the status terminal, and then it is the verdict's), `Counted` (how
far apart two tables are at each program point: 1 between the two statements, 0
elsewhere, 0 or 1 after an exception), `CallsCharged` (every call that ran, its row written or still to
be, has been charged, within the bound), `TokensCharged` (nobody is on
the way to the model with tokens or money spent; what the run's row says was spent,
and the answer that is about to be added to it, have been charged),
`CallsPermitted` (recorded calls, and the one whose result is in hand),
`Outcome` (the verdict in hand is the one the final state deserves: nothing
changes the state after it), `StatusesFit` (an allowed call ended ok or in an
error), `Explains` (the replayed log is the state, or, between a write and its
`state.updated`, the state from before, which is what the diff will be taken from)
and `Looping` (how the steps taken and the calls left relate to the level's loop). `TablesAgree` alone is not inductive, the program point and the call in
hand have to say which statement is missing. Proved: `ExecutorTyped`, `TablesAlwaysAgree`,
`ToolsStayWithinBudget`, `OneAnswerOver`, `PolicyAlwaysRespected` (from
`AllowExactlyWhenPermitted`), `OutcomeAlwaysFollowsGoal`, `StateIsAlwaysReplayable`
(by induction over the log: `Replayed` exists, and two logs with a common beginning
agree on it; then `DiffGivesState`, that applying `compute_diff` to the old state
gives the new one), and the refinements `ExecutionImplementsLifecycle` and
`ExecutionImplementsRunRows`, step by step.

Two theorems are about length. `StepsStayWithinLoop`: `runs.steps` never passes the
fixed steps of L0, one at L1 and L2, the iterations of L3. That is the bound there
is where `max_steps` should be one (finding 3). `InterpretationIsFinite`: every step of
the specification, an expiring clock and an exception included, makes `Rank` smaller,
a natural number built from the steps left, the calls left of the answer and the place
in the loop. So no behaviour takes steps for ever, under any budget and whatever is
answered; `RunTerminates` needs fairness only for the next statement to be taken.

**DefinitionRepositoryProofs.** `IInv`: `Typed`, `Numbered` (the version
numbers in use leave room for the sessions that are creating versions), `RowsFound` (a session's
version has a row), `Pointed` (the pointer, and every copy of it, is released),
`Validated` (whatever is in a row, or on its way into one, has been validated),
`CopiesApart` (a request to copy and what has been read for it come and go together),
`FreshCopies` (who is about to write a copy into an agent created that agent, and
is alone in writing one), `Faithful` (rows are settled: validating one again would
change nothing; what a duplication has in hand is the merge of its request over a row,
and the copy it writes what validation made of that) and `Sound` (at each program
point of a session that is alone, what is left to do to
make the agent consistent). Proved: `RepositoryTyped`, `PointersNeverDangle`,
`RowsAreImmutable`, `CopiesAreAlone`, `CopiesAlwaysSayWhatWasAsked` and
`AgentsAreConsistent`. The copies rest on lemmas about documents: a merge changes
leaves around the paths it puts only (`MergeLeaves`), validation returns settled
documents (`CanonicalIsSettled`; the hard part, `DueBefore`, is that it makes no
submodel where there was none) and fills nothing into a merge over a settled source but
beside what the overrides name, or into a submodel that they put there
(`DefaultsBrought`); hence `CopySaysWhatWasAsked` for every source, overrides and new id.
`DiffMissesOnlyEmptyDicts`: an empty diff means equal documents, empty dicts aside.

**ObserverProofs.** Of the page (`PageInv`): no answer is younger than the run, a
load that nobody overtook holds answers no older than anything shown, and once
polling has stopped every load still in flight has been overtaken. Of the worker
(`HealthInv`): its stamp is no later than the iteration it is in, what `/health`
reads is the stamp or the boot time, and it is about to write when, and only when,
the interval is over. Of the metrics (`MetricsInv`): a row counts at most its recorded
calls that were allowed, exactly them once it ended without a crash; what a report
listed and read is no more than what is there now, and the same if the run had ended.
Proved: `HealthAlwaysTellsTheTruth`, `SettledPagesStayFinal`, `PagesMoveForward`,
`ReportsAlwaysAddUp` and `ReportsStand` (both from sums over the runs, term by term)
and `ObserversTyped`.

**EntityStoreProofs.** `IInv` says besides the types: what was told is in the
table (`AnswersStayTrue`), a run past its INSERT owns the row of the key it is at
(`Midway`), rows not yet announced belong to a run that is about to or has died
(`Announced`), and an id names the run that drew it (`OwnIds`). Proved:
`ToldIdsStayTrue`, `RowsAreAnnouncedOnce`, and `StoreTyped`, for which what is
left of a queue of faults is the end of one that was scheduled.

**ModelRouterProofs.** `IInv`: a request in flight has refused exactly the
positions it has passed (`Midway`), nobody refused is an unscripted mock
(`RefusedCannot`), an exhausted chain is refused from end to end (`Exhausted`).
Proved: `RequestsGoInOrder`, `RequestsTyped`, `LastResortNeverFails`, `ScriptsAreFollowed`
and `RequestsAreFinite`: every statement of `complete` brings its end nearer, so
`RequestsEnd` needs fairness only for the statement to be taken.

**Model-checked only.** Liveness (`EveryRunEnds`, `RunTerminates`, `RequestsEnd`,
`PollingStops`): the provers do not reason about fairness and ENABLED. Of
`RunTerminates` and `RequestsEnd` the finite descent is proved, as said above. Every other
property of a passing run is stated by a theorem.

## 7. Plan

Order: what decides the fate of a run first, then what it leaves behind, then the
rest. Done: RunLifecycle, RunQueue; Criteria, PolicyEngine, Executor;
DefinitionRepository with the Factory and the clients of the pointer;
EntityStore; ModelRouter; RunRows and Metrics, RunInspector, Heartbeat; the
proofs of section 6. What remains worth doing:

1. `compare` over two reports taken at different moments.
2. RunQueue with DefinitionRepository in one state space: today they meet in
   `PointerNeverDangles` and `VersionsAreImmutable`, which say that a version
   read from the pointer stays what it was.
3. A descent for `EveryRunEnds` (a run that is queued is overtaken finitely
   often), as there is one for a run's interpretation.
4. A worker that recovers `running` runs at start-up, as a variant of RunQueue,
   should the code gain one (finding 1).

## 8. Not modelled

The fields of a definition one by one (they are `Fields`, `Parse` and `Defaults`), the
text its hash is taken of, migration and
export: declarative models and pure serialisation without state. Long-term
memory: one INSERT per write, one SELECT per search, on rows nobody changes.
Comparison of two versions: it subtracts two reports. API routing, CLI parsing,
process start-up: what they call is modelled. The other pages of the UI load
once and render. Scheduler, declarative tools and dashboards: empty packages. The five mock
tools other than `db.upsert` are, to the executor, a tool that answers or fails.
