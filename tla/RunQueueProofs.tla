--------------------------- MODULE RunQueueProofs ---------------------------
(***************************************************************************)
(* What holds of the queue for any number of clients, workers, evaluators, *)
(* runs and faults.  The strengthening says, for each program point of a   *)
(* process, what it may assume of its run although other processes moved   *)
(* in between.                                                             *)
(***************************************************************************)
EXTENDS RunQueue, TLAPS

\* A process that is past the top of its loop is busy with a run.
Busy == \A p \in Procs : pc[p] \notin {"idle", "end"} => run[p] \in Runs

\* A run about to be inserted is not in the table, and only its inserter knows it.
Fresh == \A p \in Procs : pc[p] = "insert" =>
           /\ status[run[p]] = "absent"
           /\ \A q \in Procs \ {p} : run[q] # run[p]

\* A process that holds a run of the table holds it for good: no row is deleted.
Present == \A p \in Procs :
  pc[p] \in Claimed \cup {"update", "judge"} => status[run[p]] # "absent"

\* Interpreting a run takes having inserted its run_state row.
Owns == \A p \in Procs : pc[p] \in Interpreting => runState[run[p]] = p

\* Until its interpreter calls finish_run, nobody else has ended the run.
Unfinished == \A p \in Procs :
  pc[p] \in Interpreting \ {"finished"} => status[run[p]] \notin Terminal

\* A run that nobody has started interpreting has not ended.
Unowned == \A r \in Runs : runState[r] = NoProc => status[r] \notin Terminal

IInv == TypeOK /\ Busy /\ Fresh /\ Present /\ Owns /\ Unfinished /\ Unowned

-----------------------------------------------------------------------------
\* Init establishes the strengthened invariant: the table is empty, all idle.
LEMMA InitIInv == Init => IInv
  BY ProcsAssumption, BoundsAssumption
  DEF Init, IInv, TypeOK, Busy, Fresh, Present, Owns, Unfinished, Unowned, Procs,
      Executors, PC, Claimed, Interpreting, Status, Terminal

\* Emit keeps the events of every run a sequence of event types.
LEMMA EmitTyped ==
  ASSUME NEW r \in Runs, TypeOK,
         NEW type \in {"run.started", "error.raised", "run.finished"}, Emit(r, type)
  PROVE  events' \in [Runs -> Seq({"run.started", "error.raised", "run.finished"})]
<1> DEFINE S == Seq({"run.started", "error.raised", "run.finished"})
<1>1. events \in [Runs -> S]
  BY DEF TypeOK
<1>2. Append(events[r], type) \in S
  BY <1>1
<1> HIDE DEF S
<1>3. events' \in [Runs -> S]
  BY <1>1, <1>2 DEF Emit
<1> QED BY <1>3 DEF S

\* Abandon lets go of the run and moves nobody else.
LEMMA AbandonEffect ==
  ASSUME TypeOK, NEW p \in Procs, Abandon(p)
  PROVE  /\ pc' \in [Procs -> PC] /\ run' \in [Procs -> Runs \cup {NoRun}]
         /\ pc'[p] \in {"idle", "end"} /\ run'[p] = NoRun
         /\ \A q \in Procs \ {p} : pc'[q] = pc[q] /\ run'[q] = run[q]
  BY DEF TypeOK, Abandon, PC

-----------------------------------------------------------------------------
\* Every step of every process preserves the strengthened invariant.
LEMMA StepIInv == IInv /\ [Next]_vars => IInv'
<1> SUFFICES ASSUME IInv, [Next]_vars PROVE IInv'
  OBVIOUS
<1> USE ProcsAssumption, BoundsAssumption
    DEF IInv, Procs, Executors, Busy, Fresh, Present, Owns, Unfinished, Unowned,
        Claimed, Interpreting, Terminal
<1>1. ASSUME NEW p \in Clients \cup Evals, Stamp(p) PROVE IInv'
  <2>1. TypeOK'
    BY <1>1 DEF Stamp, Goto, TypeOK, PC, Status, dbVars
  <2>2. Busy' /\ Fresh' /\ Present'
    BY <1>1 DEF Stamp, Goto, TypeOK, PC, Status, dbVars
  <2>3. Owns' /\ Unfinished' /\ Unowned'
    BY <1>1 DEF Stamp, Goto, TypeOK, PC, Status, dbVars
  <2> QED BY <2>1, <2>2, <2>3
<1>2. ASSUME NEW p \in Clients \cup Evals, Insert(p) PROVE IInv'
  <2>1. /\ run[p] \in Runs
        /\ \A q \in Procs \ {p} : pc'[q] = pc[q] /\ run'[q] = run[q]
        /\ status' = [status EXCEPT ![run[p]] = "queued"] /\ status[run[p]] = "absent"
        /\ pc'[p] \in {"init", "idle"} /\ run'[p] \in {run[p], NoRun}
        /\ pc'[p] = "init" => run'[p] = run[p]
    BY <1>2 DEF Insert, TypeOK, PC, Status, dbVars
  <2>2. TypeOK'
    BY <1>2 DEF Insert, TypeOK, PC, Status, dbVars
  <2>3. Busy'
    BY <2>1 DEF TypeOK
  <2>4. Fresh'
    <3> SUFFICES ASSUME NEW q \in Procs, pc'[q] = "insert"
                 PROVE  /\ status'[run'[q]] = "absent"
                        /\ \A x \in Procs \ {q} : run'[x] # run'[q]
      OBVIOUS
    <3>1. /\ q # p /\ pc[q] = "insert" /\ run'[q] = run[q]
          /\ run[q] \in Runs /\ status[run[q]] = "absent"
          /\ \A x \in Procs \ {q} : run[x] # run[q]
      BY <2>1
    <3>2. run[q] # run[p] /\ run[q] # NoRun
      BY <3>1
    <3> QED BY <2>1, <3>1, <3>2 DEF TypeOK
  <2>5. Present'
    <3> SUFFICES ASSUME NEW q \in Procs, pc'[q] \in Claimed \cup {"update", "judge"}
                 PROVE  status'[run'[q]] # "absent"
      OBVIOUS
    <3>1. CASE q = p
      BY <2>1, <3>1 DEF TypeOK
    <3>2. CASE q # p
      <4>1. run'[q] = run[q] /\ status[run[q]] # "absent" /\ run[q] \in Runs
        BY <2>1, <3>2
      <4> QED BY <2>1, <4>1 DEF TypeOK
    <3> QED BY <3>1, <3>2
  <2>6. Owns' /\ Unfinished' /\ Unowned'
    BY <1>2, <2>1 DEF Insert, TypeOK, PC, Status, dbVars
  <2> QED BY <2>2, <2>3, <2>4, <2>5, <2>6
<1>3. ASSUME NEW p \in Workers, Select(p) PROVE IInv'
  <2>1. TypeOK'
    BY <1>3 DEF Select, Goto, Queued, Oldest, TypeOK, PC, Status, dbVars
  <2>2. Busy' /\ Fresh' /\ Present'
    BY <1>3 DEF Select, Goto, Queued, Oldest, TypeOK, PC, Status, dbVars
  <2>3. Owns' /\ Unfinished' /\ Unowned'
    BY <1>3 DEF Select, Goto, Queued, Oldest, TypeOK, PC, Status, dbVars
  <2> QED BY <2>1, <2>2, <2>3
<1>4. ASSUME NEW p \in Workers, Update(p) PROVE IInv'
  <2>1. CASE /\ status[run[p]] = "queued" /\ pc' = [pc EXCEPT ![p] = "prepare"]
             /\ status' = [status EXCEPT ![run[p]] = "running"] /\ run' = run
    <3>1. TypeOK'
      BY <1>4, <2>1 DEF Update, TypeOK, PC, Status, dbVars
    <3>2. Busy' /\ Present'
      BY <1>4, <2>1 DEF Update, TypeOK, PC, Status, dbVars
    <3>3. Fresh'
      BY <1>4, <2>1 DEF Update, TypeOK, PC, Status, dbVars
    <3>4. Owns' /\ Unfinished' /\ Unowned'
      BY <1>4, <2>1 DEF Update, TypeOK, PC, Status, dbVars
    <3> QED BY <3>1, <3>2, <3>3, <3>4
  <2>2. CASE Abandon(p) /\ status' = status
    <3>1. /\ pc'[p] \in {"idle", "end"} /\ run'[p] = NoRun
          /\ \A q \in Procs \ {p} : pc'[q] = pc[q] /\ run'[q] = run[q]
          /\ status' = status /\ runState' = runState
      BY <1>4, <2>2, AbandonEffect DEF Update
    <3>2. TypeOK'
      BY <1>4, <2>2, AbandonEffect DEF Update, TypeOK, PC, Status, dbVars
    <3>3. Busy' /\ Fresh' /\ Present'
      BY <3>1
    <3>4. Owns' /\ Unfinished' /\ Unowned'
      BY <3>1
    <3> QED BY <3>2, <3>3, <3>4
  <2> QED BY <1>4, <2>1, <2>2 DEF Update
<1>5. ASSUME NEW p \in Workers, Prepare(p) PROVE IInv'
  <2>1. TypeOK'
    BY <1>5 DEF Prepare, Goto, TypeOK, PC, Status, dbVars
  <2>2. Busy' /\ Fresh' /\ Present'
    BY <1>5 DEF Prepare, Goto, TypeOK, PC, Status, dbVars
  <2>3. Owns' /\ Unfinished' /\ Unowned'
    BY <1>5 DEF Prepare, Goto, TypeOK, PC, Status, dbVars
  <2> QED BY <2>1, <2>2, <2>3
<1>6. ASSUME NEW p \in Executors, InitState(p) PROVE IInv'
  <2>1. CASE /\ runState[run[p]] = NoProc /\ pc' = [pc EXCEPT ![p] = "started"]
             /\ runState' = [runState EXCEPT ![run[p]] = p] /\ run' = run
    <3>1. TypeOK'
      BY <1>6, <2>1 DEF InitState, TypeOK, PC, Status, dbVars
    <3>2. Busy' /\ Fresh' /\ Present'
      BY <1>6, <2>1 DEF InitState, TypeOK, PC, Status, dbVars
    <3>3. Owns'
      <4> SUFFICES ASSUME NEW q \in Procs, pc'[q] \in Interpreting
                   PROVE  runState'[run[q]] = q
        BY <2>1
      <4>1. CASE q = p
        BY <1>6, <2>1, <4>1 DEF InitState, TypeOK
      <4>2. CASE q # p
        <5>1. runState[run[q]] = q /\ q # NoProc
          BY <2>1, <4>2 DEF TypeOK
        <5>2. run[q] # run[p]
          BY <2>1, <5>1
        <5> QED BY <2>1, <5>1, <5>2 DEF TypeOK
      <4> QED BY <4>1, <4>2
    <3>4. Unfinished'
      <4> SUFFICES ASSUME NEW q \in Procs, pc'[q] \in Interpreting \ {"finished"}
                   PROVE  status[run[q]] \notin Terminal
        BY <1>6, <2>1 DEF InitState
      <4>1. CASE q = p
        BY <1>6, <2>1, <4>1 DEF InitState
      <4>2. CASE q # p
        BY <2>1, <4>2 DEF TypeOK
      <4> QED BY <4>1, <4>2
    <3>5. Unowned'
      BY <1>6, <2>1 DEF InitState, TypeOK
    <3> QED BY <3>1, <3>2, <3>3, <3>4, <3>5
  <2>2. CASE Abandon(p) /\ runState' = runState
    <3>1. /\ pc'[p] \in {"idle", "end"} /\ run'[p] = NoRun
          /\ \A q \in Procs \ {p} : pc'[q] = pc[q] /\ run'[q] = run[q]
          /\ status' = status /\ runState' = runState
      BY <1>6, <2>2, AbandonEffect DEF InitState
    <3>2. TypeOK'
      BY <1>6, <2>2, AbandonEffect DEF InitState, TypeOK, PC, Status, dbVars
    <3>3. Busy' /\ Fresh' /\ Present'
      BY <3>1
    <3>4. Owns' /\ Unfinished' /\ Unowned'
      BY <3>1
    <3> QED BY <3>2, <3>3, <3>4
  <2> QED BY <1>6, <2>1, <2>2 DEF InitState
<1>7. ASSUME NEW p \in Executors, EmitStarted(p) PROVE IInv'
  <2>1. run[p] \in Runs /\ Emit(run[p], "run.started")
    BY <1>7 DEF EmitStarted, Goto, TypeOK, PC, Status, dbVars
  <2>2. TypeOK'
    BY <1>7, <2>1, EmitTyped DEF EmitStarted, Goto, TypeOK, PC, Status, dbVars
  <2>3. Busy' /\ Fresh' /\ Present'
    BY <1>7 DEF EmitStarted, Goto, TypeOK, PC, Status, dbVars
  <2>4. Owns' /\ Unfinished' /\ Unowned'
    BY <1>7 DEF EmitStarted, Goto, TypeOK, PC, Status, dbVars
  <2> QED BY <2>2, <2>3, <2>4
<1>8. ASSUME NEW p \in Executors, Body(p) PROVE IInv'
  <2>1. TypeOK'
    BY <1>8 DEF Body, TypeOK, PC, Status, dbVars
  <2>2. Busy' /\ Fresh' /\ Present'
    BY <1>8 DEF Body, TypeOK, PC, Status, dbVars
  <2>3. Owns' /\ Unfinished' /\ Unowned'
    BY <1>8 DEF Body, TypeOK, PC, Status, dbVars
  <2> QED BY <2>1, <2>2, <2>3
<1>9. ASSUME NEW p \in Executors, EmitError(p) PROVE IInv'
  <2>1. run[p] \in Runs /\ Emit(run[p], "error.raised")
    BY <1>9 DEF EmitError, Goto, TypeOK, PC, Status, dbVars
  <2>2. TypeOK'
    BY <1>9, <2>1, EmitTyped DEF EmitError, Goto, TypeOK, PC, Status, dbVars
  <2>3. Busy' /\ Fresh' /\ Present'
    BY <1>9 DEF EmitError, Goto, TypeOK, PC, Status, dbVars
  <2>4. Owns' /\ Unfinished' /\ Unowned'
    BY <1>9 DEF EmitError, Goto, TypeOK, PC, Status, dbVars
  <2> QED BY <2>2, <2>3, <2>4
<1>10. ASSUME NEW p \in Executors, FinishRun(p) PROVE IInv'
  <2>1. run[p] \in Runs /\ runState[run[p]] = p /\ p # NoProc
    BY <1>10 DEF FinishRun, Goto, TypeOK, PC, Status, dbVars
  <2>2. TypeOK'
    BY <1>10 DEF FinishRun, Goto, TypeOK, PC, Status, dbVars
  <2>3. Busy' /\ Fresh'
    BY <1>10 DEF FinishRun, Goto, TypeOK, PC, Status, dbVars
  <2>4. Present'
    <3>1. outcome[p] # "absent"
      BY DEF TypeOK
    <3> QED BY <1>10, <2>1, <3>1 DEF FinishRun, Goto, TypeOK
  <2>5. Owns' /\ Unfinished'
    BY <1>10, <2>1 DEF FinishRun, Goto, TypeOK, PC, Status, dbVars
  <2>6. Unowned'
    BY <1>10, <2>1 DEF FinishRun, Goto, TypeOK, PC, Status, dbVars
  <2> QED BY <2>2, <2>3, <2>4, <2>5, <2>6
<1>11. ASSUME NEW p \in Executors, EmitFinished(p) PROVE IInv'
  <2>1. run[p] \in Runs /\ Emit(run[p], "run.finished")
    BY <1>11 DEF EmitFinished, TypeOK, PC, Status, dbVars
  <2>2. events' \in [Runs -> Seq({"run.started", "error.raised", "run.finished"})]
    BY <2>1, EmitTyped
  <2>3. CASE pc' = [pc EXCEPT ![p] = "judge"] /\ run' = run
    <3>1. TypeOK'
      BY <1>11, <2>2, <2>3 DEF EmitFinished, TypeOK, PC, Status, dbVars
    <3>2. Busy' /\ Fresh'
      BY <1>11, <2>3 DEF EmitFinished, TypeOK, PC, Status, dbVars
    <3>3. Present'
      BY <1>11, <2>3 DEF EmitFinished, TypeOK, PC, Status, dbVars
    <3>4. Owns' /\ Unfinished' /\ Unowned'
      BY <1>11, <2>3 DEF EmitFinished, TypeOK, PC, Status, dbVars
    <3> QED BY <3>1, <3>2, <3>3, <3>4
  <2>4. CASE Abandon(p)
    <3>1. /\ pc'[p] \in {"idle", "end"} /\ run'[p] = NoRun
          /\ \A q \in Procs \ {p} : pc'[q] = pc[q] /\ run'[q] = run[q]
          /\ status' = status /\ runState' = runState
      BY <1>11, <2>4, AbandonEffect DEF EmitFinished
    <3>2. TypeOK'
      BY <1>11, <2>2, <2>4, AbandonEffect DEF EmitFinished, TypeOK, PC, Status, dbVars
    <3>3. Busy' /\ Fresh' /\ Present'
      BY <3>1
    <3>4. Owns' /\ Unfinished' /\ Unowned'
      BY <3>1
    <3> QED BY <3>2, <3>3, <3>4
  <2> QED BY <1>11, <2>3, <2>4 DEF EmitFinished
<1>12. ASSUME NEW p \in Evals, Judge(p) PROVE IInv'
  <2>1. /\ pc'[p] = "idle" /\ run'[p] = NoRun
        /\ \A q \in Procs \ {p} : pc'[q] = pc[q] /\ run'[q] = run[q]
    BY <1>12 DEF Judge, Goto, TypeOK, PC, Status, dbVars
  <2>2. status' = status /\ runState' = runState
    BY <1>12 DEF Judge, dbVars
  <2>3. TypeOK'
    BY <1>12, <2>1 DEF Judge, Goto, TypeOK, PC, Status, dbVars
  <2>4. Busy' /\ Fresh' /\ Present'
    BY <2>1, <2>2
  <2>5. Owns' /\ Unfinished' /\ Unowned'
    BY <2>1, <2>2
  <2> QED BY <2>3, <2>4, <2>5
<1>13. ASSUME NEW p \in Evals, RecordEvaluation(p) PROVE IInv'
  <2>1. TypeOK'
    BY <1>13 DEF RecordEvaluation, Goto, TypeOK, PC, Status, dbVars
  <2>2. Busy' /\ Fresh' /\ Present'
    BY <1>13 DEF RecordEvaluation, Goto, TypeOK, PC, Status, dbVars
  <2>3. Owns' /\ Unfinished' /\ Unowned'
    BY <1>13 DEF RecordEvaluation, Goto, TypeOK, PC, Status, dbVars
  <2> QED BY <2>1, <2>2, <2>3
<1>14. ASSUME NEW p \in Procs, Interrupt(p) PROVE IInv'
  <2>1. /\ pc'[p] \in {"idle", "end"} /\ run'[p] = NoRun
        /\ pc' \in [Procs -> PC] /\ run' \in [Procs -> Runs \cup {NoRun}]
        /\ \A q \in Procs \ {p} : pc'[q] = pc[q] /\ run'[q] = run[q]
    BY <1>14, AbandonEffect DEF Interrupt, TypeOK, PC, Status, dbVars
  <2>2. status' = status /\ runState' = runState
    BY <1>14 DEF Interrupt, dbVars
  <2>3. TypeOK'
    BY <1>14, <2>1 DEF Interrupt, TypeOK, PC, Status, dbVars
  <2>4. Busy' /\ Fresh' /\ Present'
    BY <2>1, <2>2
  <2>5. Owns' /\ Unfinished' /\ Unowned'
    BY <2>1, <2>2
  <2> QED BY <2>3, <2>4, <2>5
<1>15. CASE UNCHANGED vars
  BY <1>15 DEF vars, dbVars, TypeOK
<1> QED BY <1>1, <1>2, <1>3, <1>4, <1>5, <1>6, <1>7, <1>8, <1>9, <1>10, <1>11, <1>12, <1>13, <1>14, <1>15
       DEF Next, ClientStep, WorkerStep, EvalStep, ExecuteStep

\* The strengthened invariant holds throughout.
LEMMA IInvAlways == Spec => []IInv
  BY InitIInv, StepIInv, PTL DEF Spec

-----------------------------------------------------------------------------
\* Type correctness: whatever the processes do, the tables and the memory of
\* every process hold the values their code expects.
THEOREM TypeCorrect == Spec => []TypeOK
<1>1. IInv => TypeOK
  BY DEF IInv
<1> QED BY <1>1, IInvAlways, PTL

\* A run is interpreted by at most one process at a time, for any number of
\* workers and evaluators: the one whose INSERT of run_state went through.
THEOREM OneInterpreterAlways == Spec => []OneInterpreter
<1>1. IInv => OneInterpreter
  BY DEF IInv, Owns, OneInterpreter, Interprets, Procs, Executors
<1> QED BY <1>1, IInvAlways, PTL

\* No step moves a run out of a terminal status.
LEMMA StepKeepsTerminal ==
  IInv /\ [Next]_vars => \A r \in Runs : status[r] \in Terminal => status'[r] = status[r]
<1> SUFFICES ASSUME IInv, [Next]_vars, NEW r \in Runs, status[r] \in Terminal
             PROVE  status'[r] = status[r]
  OBVIOUS
<1> USE DEF IInv, TypeOK, Procs, Executors
<1>1. ASSUME NEW p \in Procs, Insert(p) PROVE status'[r] = status[r]
  BY <1>1 DEF Insert, Fresh, Terminal
<1>2. ASSUME NEW p \in Workers, Update(p) PROVE status'[r] = status[r]
  BY <1>2 DEF Update, Terminal
<1>3. ASSUME NEW p \in Executors, FinishRun(p) PROVE status'[r] = status[r]
  BY <1>3 DEF FinishRun, Goto, Unfinished, Interpreting
<1>4. CASE status' = status
  BY <1>4
<1> QED BY <1>1, <1>2, <1>3, <1>4
        DEF Next, ClientStep, WorkerStep, EvalStep, ExecuteStep, Stamp, Select, Prepare,
            InitState, EmitStarted, Body, EmitError, EmitFinished, Judge, RecordEvaluation,
            Interrupt, dbVars, vars

\* A run that has ended keeps its status for ever, although finish_run does not
\* look at what it overwrites: only the interpreter of the run gets to call it.
THEOREM TerminalStaysFinal == Spec => TerminalIsFinal
  BY StepKeepsTerminal, IInvAlways, PTL DEF Spec, TerminalIsFinal

-----------------------------------------------------------------------------
\* The queue implements the life of a run: every step submits, claims, begins or
\* ends one run, or is invisible to it.
THEOREM QueueImplementsLifecycle == Spec => ImplementsLifecycle
<1>1. Init => Lifecycle!Init
  BY DEF Init, Lifecycle!Init
<1>2. IInv /\ [Next]_vars => [Lifecycle!Next]_(Lifecycle!lifeVars)
  <2> SUFFICES ASSUME IInv, [Next]_vars
               PROVE  Lifecycle!Next \/ (status' = status /\ runState' = runState)
    BY DEF Lifecycle!lifeVars
  <2> USE DEF IInv, TypeOK, Procs, Executors
  <2>1. ASSUME NEW p \in Procs, Insert(p) PROVE Lifecycle!Next
    <3>1. run[p] \in Runs /\ Lifecycle!Submit(run[p])
      BY <2>1 DEF Insert, Busy, Fresh, Lifecycle!Submit
    <3> QED BY <3>1 DEF Lifecycle!Next
  <2>2. ASSUME NEW p \in Workers, Update(p), status' # status PROVE Lifecycle!Next
    <3>1. run[p] \in Runs /\ Lifecycle!Claim(run[p])
      BY <2>2 DEF Update, Busy, Lifecycle!Claim
    <3> QED BY <3>1 DEF Lifecycle!Next
  <2>3. ASSUME NEW p \in Executors, InitState(p), runState' # runState PROVE Lifecycle!Next
    <3>1. /\ run[p] \in Runs /\ runState[run[p]] = NoProc
          /\ status[run[p]] \in {"queued", "running"}
      BY <2>3 DEF InitState, Busy, Present, Unowned, Claimed, Status, Terminal
    <3>2. Lifecycle!Begin(run[p], p)
      BY <2>3, <3>1 DEF InitState, Lifecycle!Begin
    <3> QED BY <3>1, <3>2 DEF Lifecycle!Next
  <2>4. ASSUME NEW p \in Executors, FinishRun(p) PROVE Lifecycle!Next
    <3>1. run[p] \in Runs /\ runState[run[p]] # NoProc
      BY <2>4, ProcsAssumption DEF FinishRun, Goto, Busy, Owns, Interpreting
    <3>2. status[run[p]] \in {"queued", "running"}
      BY <2>4, <3>1 DEF FinishRun, Goto, Present, Unfinished, Claimed, Interpreting, Status, Terminal
    <3>3. outcome[p] \in Lifecycle!Terminal
      BY DEF Terminal, Lifecycle!Terminal
    <3>4. Lifecycle!End(run[p], outcome[p])
      BY <2>4, <3>1, <3>2 DEF FinishRun, Lifecycle!End
    <3> QED BY <3>1, <3>3, <3>4 DEF Lifecycle!Next
  <2>5. CASE status' = status /\ runState' = runState
    BY <2>5
  <2> QED BY <2>1, <2>2, <2>3, <2>4, <2>5
          DEF Next, ClientStep, WorkerStep, EvalStep, ExecuteStep, Stamp, Select, Prepare,
              Update, InitState, EmitStarted, Body, EmitError, EmitFinished, Judge,
              RecordEvaluation, Interrupt, dbVars, vars
<1> QED BY <1>1, <1>2, IInvAlways, PTL DEF Spec, ImplementsLifecycle, Lifecycle!Spec
=============================================================================
