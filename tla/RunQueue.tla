------------------------------ MODULE RunQueue ------------------------------
(***************************************************************************)
(* The table runtime.db:runs used as a queue, and every process that       *)
(* touches it: the API's request threads, which insert runs; the workers,  *)
(* which claim and execute them; and `aap evaluate`, which inserts runs    *)
(* and executes them itself, without claiming them.                        *)
(*                                                                         *)
(* core/db.py opens every connection with isolation_level=None, so each    *)
(* SQL statement commits on its own: an action is one statement (or one    *)
(* stretch of local code), and every process may run between two of them.  *)
(* What an interpreter does between run.started and its return value is    *)
(* one step here (Body); module Executor takes it apart.                   *)
(***************************************************************************)
EXTENDS Integers, Sequences, FiniteSets

CONSTANTS Clients,     \* request threads of the API serving POST .../runs
          Workers,     \* worker processes (the deployment starts one)
          Evals,       \* `aap evaluate` processes
          Runs,        \* the uuids create_run may draw
          NoRun, NoProc,
          Scenarios,   \* lines of the evaluation set
          MaxFaults    \* bound: process deaths and statements that raise

Procs == Clients \cup Workers \cup Evals
Executors == Workers \cup Evals

ASSUME ProcsAssumption ==
  /\ Clients \cap Executors = {} /\ Workers \cap Evals = {}
  /\ NoProc \notin Procs /\ NoRun \notin Runs
ASSUME BoundsAssumption == Scenarios \in Nat /\ MaxFaults \in Nat

VARIABLES
  \* runtime.db
  status,      \* runs.status, "absent" before the INSERT
  startedAt,   \* runs.started_at as create_run wrote it: "queued since"
  runState,    \* the run_state row: the process that inserted it, or NoProc
  events,      \* the run-level rows of the events table, in seq order
  \* process memory
  pc,          \* the statement each process executes next
  run,         \* the run it is busy with, or NoRun
  outcome,     \* status the interpreter is about to give to finish_run
  report,      \* run_eval_set's results: the runs judged so far
  recorded,    \* evaluations whose report reached record_evaluation
  \* environment
  clock,       \* time, as far as the order of started_at needs it
  faults,      \* process deaths and escaped exceptions so far
  seen         \* history: the queued runs a worker's SELECT saw

dbVars == <<status, startedAt, runState, events>>
vars == <<dbVars, pc, run, outcome, report, recorded, clock, faults, seen>>

Terminal == {"completed", "failed", "exhausted", "cancelled", "crashed"}
Status == {"absent", "queued", "running"} \cup Terminal

\* Program points.  "idle" is a client without a request, a worker at the top
\* of run_forever's loop, an evaluator at the top of its scenario loop.
Claimed == {"prepare", "init", "started", "body", "error", "finish", "finished"}
Interpreting == {"started", "body", "error", "finish", "finished"}
PC == {"idle", "insert", "update", "judge", "end"} \cup Claimed

Queued == {r \in Runs : status[r] = "queued"}

TypeOK ==
  /\ status \in [Runs -> Status]
  /\ startedAt \in [Runs -> Nat]
  /\ runState \in [Runs -> Executors \cup {NoProc}]
  /\ events \in [Runs -> Seq({"run.started", "error.raised", "run.finished"})]
  /\ pc \in [Procs -> PC]
  /\ run \in [Procs -> Runs \cup {NoRun}]
  /\ outcome \in [Executors -> Terminal]
  /\ report \in [Evals -> SUBSET Runs]
  /\ recorded \in SUBSET Evals
  /\ clock \in Nat
  /\ faults \in 0..MaxFaults
  /\ seen \in [Workers -> SUBSET Runs]

Init ==
  /\ status = [r \in Runs |-> "absent"]
  /\ startedAt = [r \in Runs |-> 0]
  /\ runState = [r \in Runs |-> NoProc]
  /\ events = [r \in Runs |-> <<>>]
  /\ pc = [p \in Procs |-> "idle"]
  /\ run = [p \in Procs |-> NoRun]
  /\ outcome = [p \in Executors |-> "crashed"]
  /\ report = [e \in Evals |-> {}]
  /\ recorded = {}
  /\ clock = 0
  /\ faults = 0
  /\ seen = [w \in Workers |-> {}]

-----------------------------------------------------------------------------
\* Process p goes from one program point to another.
Goto(p, from, to) == pc[p] = from /\ pc' = [pc EXCEPT ![p] = to]

\* p has nothing more to do with its run: a client has answered, a worker is
\* back in its loop, an evaluator is not (an exception ends run_eval_set).
Abandon(p) == /\ pc' = [pc EXCEPT ![p] = IF p \in Evals THEN "end" ELSE "idle"]
              /\ run' = [run EXCEPT ![p] = NoRun]

\* emit: seq is MAX(seq) + 1, in a statement before the INSERT; nobody comes
\* between, a run's events have one writer (OneInterpreter).
Emit(r, type) == events' = [events EXCEPT ![r] = Append(@, type)]

-----------------------------------------------------------------------------
(* Faulty variants of the definitions below, which the properties must       *)
(* reject: PROJECT.json names the pairs.  The specification uses none.       *)

\* ORDER BY started_at DESC.
Newest(S) == {r \in S : \A q \in S : startedAt[r] >= startedAt[q]}

\* The UPDATE of a claim without "AND status = 'queued'".
UpdateUnguarded(w) ==
  /\ Goto(w, "update", "prepare")
  /\ status' = [status EXCEPT ![run[w]] = "running"]
  /\ seen' = [seen EXCEPT ![w] = {}]
  /\ UNCHANGED <<startedAt, runState, events, run, outcome, report, recorded, clock, faults>>

\* init_state as INSERT OR REPLACE: the primary key no longer refuses anyone.
InitStateReplaces(p) ==
  /\ Goto(p, "init", "started")
  /\ runState' = [runState EXCEPT ![run[p]] = p]
  /\ UNCHANGED <<status, startedAt, events, run, outcome, report, recorded, clock, faults, seen>>

\* A loop that may return "blocked", handed to a finish_run without its check.
BodyMayBlock(p) ==
  /\ Goto(p, "body", "finish")
  /\ outcome' = [outcome EXCEPT ![p] = "blocked"]
  /\ UNCHANGED <<dbVars, run, report, recorded, clock, faults, seen>>

\* The except handler raises again without calling finish_run.
EmitErrorOnly(p) ==
  /\ pc[p] = "error"
  /\ Emit(run[p], "error.raised")
  /\ Abandon(p)
  /\ UNCHANGED <<status, startedAt, runState, outcome, report, recorded, clock, faults, seen>>

\* run.finished emitted where finish_run should have been called.
FinishedBeforeStatus(p) ==
  /\ Goto(p, "finish", "finished")
  /\ Emit(run[p], "run.finished")
  /\ UNCHANGED <<status, startedAt, runState, run, outcome, report, recorded, clock, faults, seen>>

\* The evaluation goes on to judge a run whose execution raised.
CrashNotRaised(p) ==
  /\ pc[p] = "finished"
  /\ Emit(run[p], "run.finished")
  /\ IF p \in Evals
       THEN pc' = [pc EXCEPT ![p] = "judge"] /\ UNCHANGED run
       ELSE Abandon(p)
  /\ UNCHANGED <<status, startedAt, runState, outcome, report, recorded, clock, faults, seen>>

-----------------------------------------------------------------------------
\* create_run, called by the API and by run_eval_set: a fresh uuid and the
\* time are taken first, the row is inserted after.
Stamp(p) ==
  /\ p \in Evals => Cardinality(report[p]) < Scenarios
  /\ Goto(p, "idle", "insert")
  /\ \E r \in Runs :
       /\ status[r] = "absent" /\ \A q \in Procs : run[q] # r
       /\ run' = [run EXCEPT ![p] = r]
       /\ startedAt' = [startedAt EXCEPT ![r] = clock]
  /\ clock' \in {clock, clock + 1}
  /\ UNCHANGED <<status, runState, events, outcome, report, recorded, faults, seen>>

Insert(p) ==
  /\ pc[p] = "insert"
  /\ status' = [status EXCEPT ![run[p]] = "queued"]
  /\ pc' = [pc EXCEPT ![p] = IF p \in Evals THEN "init" ELSE "idle"]
  /\ run' = IF p \in Evals THEN run ELSE [run EXCEPT ![p] = NoRun]
  /\ UNCHANGED <<startedAt, runState, events, outcome, report, recorded, clock, faults, seen>>

-----------------------------------------------------------------------------
\* ORDER BY started_at ASC LIMIT 1; among equals, whichever SQLite returns.
Oldest(S) == {r \in S : \A q \in S : startedAt[r] <= startedAt[q]}

\* claim_next_queued_run, first statement: with nothing queued the worker
\* sleeps and looks again.
Select(w) ==
  /\ Queued # {}
  /\ Goto(w, "idle", "update")
  /\ \E r \in Oldest(Queued) : run' = [run EXCEPT ![w] = r]
  /\ seen' = [seen EXCEPT ![w] = Queued]
  /\ UNCHANGED <<dbVars, outcome, report, recorded, clock, faults>>

\* Second statement: the run may have left the queue since the SELECT.  It
\* refreshes started_at too, which of a claimed run only latency_ms reads.
Update(w) ==
  /\ pc[w] = "update"
  /\ seen' = [seen EXCEPT ![w] = {}]
  /\ \/ /\ status[run[w]] = "queued"
        /\ status' = [status EXCEPT ![run[w]] = "running"]
        /\ pc' = [pc EXCEPT ![w] = "prepare"]
        /\ UNCHANGED run
     \/ /\ status[run[w]] # "queued"
        /\ Abandon(w)
        /\ UNCHANGED status
  /\ UNCHANGED <<startedAt, runState, events, outcome, report, recorded, clock, faults>>

\* process_one_queued_run: version, definition and registry; nothing written.
Prepare(w) ==
  /\ Goto(w, "prepare", "init")
  /\ UNCHANGED <<dbVars, run, outcome, report, recorded, clock, faults, seen>>

-----------------------------------------------------------------------------
\* execute_run.  run_state's primary key lets one INSERT per run through; the
\* IntegrityError of any other is raised before the try block.
InitState(p) ==
  /\ pc[p] = "init"
  /\ \/ /\ runState[run[p]] = NoProc
        /\ runState' = [runState EXCEPT ![run[p]] = p]
        /\ pc' = [pc EXCEPT ![p] = "started"]
        /\ UNCHANGED run
     \/ /\ runState[run[p]] # NoProc
        /\ Abandon(p)
        /\ UNCHANGED runState
  /\ UNCHANGED <<status, startedAt, events, outcome, report, recorded, clock, faults, seen>>

EmitStarted(p) ==
  /\ Goto(p, "started", "body")
  /\ Emit(run[p], "run.started")
  /\ UNCHANGED <<status, startedAt, runState, run, outcome, report, recorded, clock, faults, seen>>

\* The autonomy level's loop returns one of its three statuses, or raises.
Body(p) ==
  /\ pc[p] = "body"
  /\ \E s \in {"completed", "failed", "exhausted", "crashed"} :
       /\ outcome' = [outcome EXCEPT ![p] = s]
       /\ pc' = [pc EXCEPT ![p] = IF s = "crashed" THEN "error" ELSE "finish"]
  /\ UNCHANGED <<dbVars, run, report, recorded, clock, faults, seen>>

EmitError(p) ==
  /\ Goto(p, "error", "finish")
  /\ Emit(run[p], "error.raised")
  /\ UNCHANGED <<status, startedAt, runState, run, outcome, report, recorded, clock, faults, seen>>

\* finish_run does not look at the status it overwrites.
FinishRun(p) ==
  /\ Goto(p, "finish", "finished")
  /\ status' = [status EXCEPT ![run[p]] = outcome[p]]
  /\ UNCHANGED <<startedAt, runState, events, run, outcome, report, recorded, clock, faults, seen>>

\* The last event, and the return; a crash is raised again after it.
EmitFinished(p) ==
  /\ pc[p] = "finished"
  /\ Emit(run[p], "run.finished")
  /\ IF p \in Evals /\ outcome[p] # "crashed"
       THEN pc' = [pc EXCEPT ![p] = "judge"] /\ UNCHANGED run
       ELSE Abandon(p)
  /\ UNCHANGED <<status, startedAt, runState, outcome, report, recorded, clock, faults, seen>>

-----------------------------------------------------------------------------
\* run_eval_set reads the finished run back and compares it with what the
\* scenario expects (the comparison itself writes nothing).
Judge(e) ==
  /\ Goto(e, "judge", "idle")
  /\ report' = [report EXCEPT ![e] = @ \cup {run[e]}]
  /\ run' = [run EXCEPT ![e] = NoRun]
  /\ UNCHANGED <<dbVars, outcome, recorded, clock, faults, seen>>

\* cmd_evaluate stores the report once every scenario has been judged.
RecordEvaluation(e) ==
  /\ Cardinality(report[e]) = Scenarios
  /\ Goto(e, "idle", "end")
  /\ recorded' = recorded \cup {e}
  /\ UNCHANGED <<dbVars, run, outcome, report, clock, faults, seen>>

\* A process dies and is started again (docker: restart unless-stopped), or a
\* statement of its own raises (sqlite3.OperationalError after the 30 s busy
\* timeout) where no handler writes anything: memory is lost, the database
\* stays.  In the loop's body the except handler catches the exception (Body);
\* a death there is this action too.
Interrupt(p) ==
  /\ faults < MaxFaults
  /\ pc[p] \notin {"idle", "end"}
  /\ faults' = faults + 1
  /\ Abandon(p)
  /\ seen' = [w \in Workers |-> IF w = p THEN {} ELSE seen[w]]
  /\ UNCHANGED <<dbVars, outcome, report, recorded, clock>>

-----------------------------------------------------------------------------
ExecuteStep(p) == \/ InitState(p) \/ EmitStarted(p) \/ Body(p)
                  \/ EmitError(p) \/ FinishRun(p) \/ EmitFinished(p)
ClientStep(c) == Stamp(c) \/ Insert(c)
WorkerStep(w) == Select(w) \/ Update(w) \/ Prepare(w) \/ ExecuteStep(w)
EvalStep(e) == Stamp(e) \/ Insert(e) \/ ExecuteStep(e) \/ Judge(e) \/ RecordEvaluation(e)

Next == \/ \E c \in Clients : ClientStep(c)
        \/ \E w \in Workers : WorkerStep(w)
        \/ \E e \in Evals : EvalStep(e)
        \/ \E p \in Procs : Interrupt(p)

Spec == Init /\ [][Next]_vars

\* run_forever loops for ever, the CLI runs its loop to the end, and a request
\* that has begun is carried on; nobody is obliged to send a request.
FairSpec == /\ Spec
            /\ \A c \in Clients : WF_vars(Insert(c))
            /\ \A w \in Workers : WF_vars(WorkerStep(w))
            /\ \A e \in Evals : WF_vars(EvalStep(e))

-----------------------------------------------------------------------------
(* Properties *)

Handles(p, r) == run[p] = r /\ pc[p] \in Claimed
Interprets(p, r) == run[p] = r /\ pc[p] \in Interpreting

\* A run is interpreted by at most one process at a time, the one that created
\* its run_state row, although evaluators execute runs that workers may claim:
\* claim_next_queued_run does not keep them apart, init_state's INSERT does.
OneInterpreter ==
  \A r \in Runs : \A p, q \in Executors :
    /\ Interprets(p, r) => runState[r] = p
    /\ Interprets(p, r) /\ Interprets(q, r) => p = q

\* Nothing moves a run out of a terminal status: neither a worker whose SELECT
\* saw it queued before an evaluator finished it, nor a second finish_run.
TerminalIsFinal ==
  [][\A r \in Runs : status[r] \in Terminal => status'[r] = status[r]]_vars

\* What the audit events of a run say agrees with its status whenever both are
\* read: run.finished only follows a terminal status, error.raised only leads
\* to "crashed", and a run nobody has started interpreting has no event.
EventsAgreeWithStatus ==
  \A r \in Runs :
    /\ events[r] \in {<<>>, <<"run.started">>, <<"run.started", "error.raised">>,
                      <<"run.started", "run.finished">>,
                      <<"run.started", "error.raised", "run.finished">>}
    /\ runState[r] = NoProc => events[r] = <<>> /\ status[r] \notin Terminal
    /\ Len(events[r]) = 3 => status[r] = "crashed"
    /\ events[r] = <<"run.started", "run.finished">> => status[r] \in Terminal \ {"crashed"}
    /\ events[r] = <<"run.started", "error.raised">> => status[r] \notin Terminal \ {"crashed"}

\* An evaluation only judges runs it interpreted itself, to their end, with the
\* scripted model: a run that a worker took over (with the worker's own models)
\* is never scored.
JudgedRunsAreItsOwn ==
  \A e \in Evals : \A r \in report[e] :
    runState[r] = e /\ status[r] \in Terminal \ {"crashed"}

\* A run is left "running" with nobody working on it only by a fault, and a
\* fault leaves at most one run so, however workers and evaluators interleave.
Stranded == {r \in Runs : status[r] = "running" /\ \A p \in Executors : ~Handles(p, r)}
EachFaultStrandsAtMostOneRun == Cardinality(Stranded) <= faults

\* A claim overtakes an older queued run only if that run was not in the table
\* yet when the worker looked: started_at is taken before the INSERT.
ClaimsInOrder ==
  [][\A w \in Workers : pc[w] = "update" /\ pc'[w] = "prepare" =>
       \A r \in seen[w] : status[r] = "queued" => startedAt[run[w]] <= startedAt[r]]_vars

\* The queue implements the life of a run: status as it is, and the process
\* whose run_state row exists as the run's one interpreter.
Lifecycle == INSTANCE RunLifecycle WITH Procs <- Executors, owner <- runState
ImplementsLifecycle == Lifecycle!Spec

\* Every run that enters the queue ends (ARCHITECTURE 3.1: "todo agente
\* termina"), whichever of the worker and the evaluator gets it.
EveryRunEnds ==
  \A r \in Runs : status[r] = "queued" ~> status[r] \in Terminal

\* worker/main.py:63: a run whose exception the worker swallows has already
\* been marked crashed by execute_run.  (Stated for runs without faults: a
\* process death is no exception.)
SwallowedRunsAreCrashed ==
  [][\A w \in Workers :
       pc[w] \in Claimed \ {"finished"} /\ pc'[w] = "idle" => status'[run[w]] = "crashed"]_vars
=============================================================================
