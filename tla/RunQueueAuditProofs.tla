------------------------ MODULE RunQueueAuditProofs ------------------------
(***************************************************************************)
(* What a reader of a run's events, of an evaluation's report, of the      *)
(* order of claims and of runs that never end may conclude, for any number *)
(* of processes and runs.                                                  *)
(***************************************************************************)
EXTENDS RunQueueProofs, SequenceTheorems, FiniteSetTheorems

\* The event sequences a run can have, as names the provers need not look into.
None == <<>>
Started == <<"run.started">>
Errored == <<"run.started", "error.raised">>
Ended == <<"run.started", "run.finished">>
ErroredEnded == <<"run.started", "error.raised", "run.finished">>
Trails == {None, Started, Errored, Ended, ErroredEnded}

\* A sequence that agrees with s and ends in e is s with e appended.
LEMMA AppendIs ==
  ASSUME NEW S, NEW s \in Seq(S), NEW e \in S, NEW t \in Seq(S),
         Len(t) = Len(s) + 1, t[Len(s) + 1] = e, \A i \in 1..Len(s) : t[i] = s[i]
  PROVE  Append(s, e) = t
<1>1. /\ Append(s, e) \in Seq(S) /\ Len(Append(s, e)) = Len(s) + 1
      /\ \A i \in 1..Len(s) : Append(s, e)[i] = s[i]
      /\ Append(s, e)[Len(s) + 1] = e
  BY AppendProperties
<1>2. \A i \in 1..Len(t) : Append(s, e)[i] = t[i]
  BY <1>1
<1> QED BY <1>1, <1>2, SeqEqual

\* How each emission extends them, and that no two are the same.
LEMMA TrailFacts ==
  /\ Append(None, "run.started") = Started
  /\ Append(Started, "error.raised") = Errored
  /\ Append(Started, "run.finished") = Ended
  /\ Append(Errored, "run.finished") = ErroredEnded
  /\ \A t \in Trails : Len(t) = 3 => t = ErroredEnded
  /\ Len(ErroredEnded) = 3
  /\ Ended # ErroredEnded /\ Errored # ErroredEnded /\ Errored # Ended /\ Started # Ended
  /\ Started # Errored /\ Started # ErroredEnded
  /\ None # Started /\ None # Errored /\ None # Ended /\ None # ErroredEnded
<1> DEFINE S == {"run.started", "error.raised", "run.finished"}
<1>1. /\ None \in Seq(S) /\ Len(None) = 0
      /\ Started \in Seq(S) /\ Len(Started) = 1 /\ Started[1] = "run.started"
  BY DEF None, Started
<1>2. /\ Errored \in Seq(S) /\ Len(Errored) = 2
      /\ Errored[1] = "run.started" /\ Errored[2] = "error.raised"
  BY DEF Errored
<1>3. /\ Ended \in Seq(S) /\ Len(Ended) = 2
      /\ Ended[1] = "run.started" /\ Ended[2] = "run.finished"
  BY DEF Ended
<1>4. /\ ErroredEnded \in Seq(S) /\ Len(ErroredEnded) = 3
      /\ ErroredEnded[1] = "run.started" /\ ErroredEnded[2] = "error.raised"
      /\ ErroredEnded[3] = "run.finished"
  BY DEF ErroredEnded
<1>5. "run.started" \in S /\ "error.raised" \in S /\ "run.finished" \in S
  OBVIOUS
<1> HIDE DEF S
<1>6. Append(None, "run.started") = Started
  BY <1>1, <1>5, AppendIs
<1>7. Append(Started, "error.raised") = Errored
  <2>1. \A i \in 1..Len(Started) : Errored[i] = Started[i]
    BY <1>1, <1>2
  <2>2. Len(Errored) = Len(Started) + 1 /\ Errored[Len(Started) + 1] = "error.raised"
    BY <1>1, <1>2
  <2> QED BY <1>1, <1>2, <1>5, <2>1, <2>2, AppendIs
<1>8. Append(Started, "run.finished") = Ended
  <2>1. \A i \in 1..Len(Started) : Ended[i] = Started[i]
    BY <1>1, <1>3
  <2>2. Len(Ended) = Len(Started) + 1 /\ Ended[Len(Started) + 1] = "run.finished"
    BY <1>1, <1>3
  <2> QED BY <1>1, <1>3, <1>5, <2>1, <2>2, AppendIs
<1>9. Append(Errored, "run.finished") = ErroredEnded
  <2>1. \A i \in 1..Len(Errored) : ErroredEnded[i] = Errored[i]
    BY <1>2, <1>4
  <2>2. /\ Len(ErroredEnded) = Len(Errored) + 1
        /\ ErroredEnded[Len(Errored) + 1] = "run.finished"
    BY <1>2, <1>4
  <2> QED BY <1>2, <1>4, <1>5, <2>1, <2>2, AppendIs
<1>10. \A t \in Trails : Len(t) = 3 => t = ErroredEnded
  BY <1>1, <1>2, <1>3, <1>4 DEF Trails
<1>11. Errored # Ended
  BY <1>2, <1>3
<1>12. Started # Errored /\ Started # Ended /\ Started # ErroredEnded
  BY <1>1, <1>2, <1>3, <1>4
<1>13. Errored # ErroredEnded /\ Ended # ErroredEnded
  BY <1>2, <1>3, <1>4
<1>14. None # Started /\ None # Errored /\ None # Ended /\ None # ErroredEnded
  <2>1. None # Started
    BY <1>1
  <2>2. None # Errored
    BY <1>1, <1>2
  <2>3. None # Ended
    BY <1>1, <1>3
  <2>4. None # ErroredEnded
    BY <1>1, <1>4
  <2> QED BY <2>1, <2>2, <2>3, <2>4
<1> QED BY <1>4, <1>6, <1>7, <1>8, <1>9, <1>10, <1>11, <1>12, <1>13, <1>14

-----------------------------------------------------------------------------
(* The strengthening *)

\* What the interpreter of a run has emitted when it gets to each statement.
TrailOf(p) ==
  /\ pc[p] = "started" => events[run[p]] = None
  /\ pc[p] = "body" => events[run[p]] = Started
  /\ pc[p] = "error" => events[run[p]] = Started /\ outcome[p] = "crashed"
  /\ pc[p] \in {"finish", "finished"} =>
       events[run[p]] = IF outcome[p] = "crashed" THEN Errored ELSE Started
  /\ pc[p] = "finished" => status[run[p]] = outcome[p]
Trail == \A p \in Executors : TrailOf(p)

\* The clauses of EventsAgreeWithStatus, over the names above.
AgreeOn(r) ==
  /\ events[r] \in Trails
  /\ runState[r] = NoProc => events[r] = None
  /\ events[r] = ErroredEnded => status[r] = "crashed"
  /\ events[r] = Ended => status[r] \in Terminal \ {"crashed"}
  /\ events[r] = Errored => status[r] \notin Terminal \ {"crashed"}
Agree == \A r \in Runs : AgreeOn(r)

\* An evaluator gets to judge a run only by having interpreted it to its end.
Earned(e) ==
  /\ pc[e] = "judge" =>
       runState[run[e]] = e /\ status[run[e]] \in Terminal \ {"crashed"}
  /\ \A r \in report[e] : runState[r] = e /\ status[r] \in Terminal \ {"crashed"}
Deserved == \A e \in Evals : Earned(e)

\* A worker between its SELECT and its UPDATE: the run is the oldest it saw.
Chosen(w) == pc[w] = "update" =>
  \A r \in seen[w] : status[r] # "absent" /\ startedAt[run[w]] <= startedAt[r]
LookedAt == \A w \in Workers : Chosen(w)

AInv == IInv /\ Trail /\ Agree /\ Deserved /\ LookedAt

\* Init establishes it: no events, no reports, nobody has looked.
LEMMA InitAInv == Init => AInv
  BY InitIInv, ProcsAssumption, TrailFacts
  DEF Init, AInv, Trail, TrailOf, Agree, AgreeOn, Deserved, Earned, LookedAt, Chosen, Trails, Procs, Executors, None, Terminal

-----------------------------------------------------------------------------
\* Two processes never interpret one run, so nobody else writes to it.
LEMMA Alone ==
  ASSUME IInv, NEW p \in Procs, NEW q \in Procs, p # q,
         pc[p] \in Interpreting, pc[q] \in Interpreting
  PROVE  run[p] # run[q]
  BY DEF IInv, Owns

\* A run that has a run_state row keeps it, and its owner, for good.
LEMMA StepKeepsOwner ==
  IInv /\ [Next]_vars => \A r \in Runs : runState[r] # NoProc => runState'[r] = runState[r]
<1> SUFFICES ASSUME IInv, [Next]_vars, NEW r \in Runs, runState[r] # NoProc
             PROVE  runState'[r] = runState[r]
  OBVIOUS
<1>1. ASSUME NEW p \in Executors, InitState(p) PROVE runState'[r] = runState[r]
  BY <1>1 DEF InitState, IInv, TypeOK
<1>2. CASE runState' = runState
  BY <1>2
<1> QED BY <1>1, <1>2
        DEF Executors, Next, ClientStep, WorkerStep, EvalStep, ExecuteStep, Stamp, Insert, Select, Update,
            Prepare, EmitStarted, Body, EmitError, FinishRun, EmitFinished, Judge,
            RecordEvaluation, Interrupt, dbVars, vars

\* What the interpreter of a run is about to do is not disturbed by another
\* process, and each of its own statements leads to the next program point.
LEMMA StepTrail == AInv /\ [Next]_vars => Trail'
<1> SUFFICES ASSUME AInv, [Next]_vars, NEW q \in Executors PROVE TrailOf(q)'
  BY DEF Trail
<1> USE ProcsAssumption DEF AInv, IInv, TypeOK, Procs, Executors
<1>1. TrailOf(q) /\ q \in Procs
  BY DEF Trail
<1>2. pc[q] \in Interpreting => run[q] \in Runs /\ status[run[q]] # "absent"
  BY DEF Busy, Present, Interpreting, Claimed
<1>3. ASSUME NEW p \in Clients \cup Evals, Stamp(p) PROVE TrailOf(q)'
  <2>1. CASE q = p
    BY <1>3, <1>1, <1>2, <2>1, TrailFacts DEF Stamp, Goto, dbVars, TrailOf, Interpreting
  <2>2. CASE q # p
    BY <1>3, <1>1, <1>2, <2>2, Alone DEF Stamp, Goto, dbVars, TrailOf, Interpreting
  <2> QED BY <2>1, <2>2
<1>4. ASSUME NEW p \in Clients \cup Evals, Insert(p) PROVE TrailOf(q)'
  <2>1. CASE q = p
    BY <1>4, <1>1, <1>2, <2>1, TrailFacts DEF Insert, dbVars, TrailOf, Interpreting
  <2>2. CASE q # p
    <3>1. pc[q] \in Interpreting => run[q] # run[p]
      BY <1>2, <1>4 DEF Insert, Fresh
    <3>2. pc'[q] = pc[q] /\ (pc[q] \in Interpreting => run'[q] = run[q])
      BY <1>4, <2>2 DEF Insert
    <3>3. pc[q] \in Interpreting => status'[run[q]] = status[run[q]]
      BY <1>2, <1>4, <3>1 DEF Insert
    <3> QED BY <1>1, <1>4, <3>2, <3>3 DEF Insert, TrailOf, Interpreting
  <2> QED BY <2>1, <2>2
<1>5. ASSUME NEW p \in Workers, Select(p) PROVE TrailOf(q)'
  <2>1. CASE q = p
    BY <1>5, <1>1, <1>2, <2>1, TrailFacts DEF Select, Goto, Queued, dbVars, TrailOf, Interpreting
  <2>2. CASE q # p
    BY <1>5, <1>1, <1>2, <2>2, Alone DEF Select, Goto, Queued, dbVars, TrailOf, Interpreting
  <2> QED BY <2>1, <2>2
<1>6. ASSUME NEW p \in Workers, Update(p) PROVE TrailOf(q)'
  <2>1. CASE q = p
    BY <1>6, <1>1, <1>2, <2>1, TrailFacts DEF Update, Abandon, dbVars, TrailOf, Interpreting
  <2>2. CASE q # p
    <3>1. pc[q] = "finished" => status[run[q]] \in Terminal /\ run[q] \in Runs
      BY <1>1, <1>2 DEF TrailOf, Interpreting
    <3>2. pc[q] = "finished" => status'[run[q]] = status[run[q]]
      BY <1>6, <3>1 DEF Update, Terminal
    <3>3. pc'[q] = pc[q] /\ run'[q] = run[q]
      BY <1>6, <2>2 DEF Update, Abandon
    <3> QED BY <1>1, <1>6, <3>2, <3>3 DEF Update, TrailOf
  <2> QED BY <2>1, <2>2
<1>7. ASSUME NEW p \in Workers, Prepare(p) PROVE TrailOf(q)'
  <2>1. CASE q = p
    BY <1>7, <1>1, <1>2, <2>1, TrailFacts DEF Prepare, Goto, dbVars, TrailOf, Interpreting
  <2>2. CASE q # p
    BY <1>7, <1>1, <1>2, <2>2, Alone DEF Prepare, Goto, dbVars, TrailOf, Interpreting
  <2> QED BY <2>1, <2>2
<1>8. ASSUME NEW p \in Executors, InitState(p) PROVE TrailOf(q)'
  <2>1. CASE q = p
    <3>1. run[p] \in Runs
      BY <1>8 DEF InitState, Busy
    <3>2. runState[run[p]] = NoProc => events[run[p]] = None
      BY <3>1 DEF Agree, AgreeOn
    <3> QED BY <1>8, <2>1, <3>2 DEF InitState, Abandon, TrailOf
  <2>2. CASE q # p
    BY <1>8, <1>1, <1>2, <2>2, Alone DEF InitState, Abandon, dbVars, TrailOf, Interpreting
  <2> QED BY <2>1, <2>2
<1>9. ASSUME NEW p \in Executors, EmitStarted(p) PROVE TrailOf(q)'
  <2>1. CASE q = p
    BY <1>9, <1>1, <1>2, <2>1, TrailFacts DEF EmitStarted, Goto, Emit, dbVars, TrailOf, Interpreting
  <2>2. CASE q # p
    BY <1>9, <1>1, <1>2, <2>2, Alone DEF EmitStarted, Goto, Emit, dbVars, TrailOf, Interpreting
  <2> QED BY <2>1, <2>2
<1>10. ASSUME NEW p \in Executors, Body(p) PROVE TrailOf(q)'
  <2>1. CASE q = p
    BY <1>10, <1>1, <1>2, <2>1, TrailFacts DEF Body, dbVars, TrailOf, Interpreting
  <2>2. CASE q # p
    BY <1>10, <1>1, <1>2, <2>2, Alone DEF Body, dbVars, TrailOf, Interpreting
  <2> QED BY <2>1, <2>2
<1>11. ASSUME NEW p \in Executors, EmitError(p) PROVE TrailOf(q)'
  <2>1. CASE q = p
    BY <1>11, <1>1, <1>2, <2>1, TrailFacts DEF EmitError, Goto, Emit, dbVars, TrailOf, Interpreting
  <2>2. CASE q # p
    BY <1>11, <1>1, <1>2, <2>2, Alone DEF EmitError, Goto, Emit, dbVars, TrailOf, Interpreting
  <2> QED BY <2>1, <2>2
<1>12. ASSUME NEW p \in Executors, FinishRun(p) PROVE TrailOf(q)'
  <2>1. CASE q = p
    BY <1>12, <1>1, <1>2, <2>1, TrailFacts DEF FinishRun, Goto, dbVars, TrailOf, Interpreting
  <2>2. CASE q # p
    BY <1>12, <1>1, <1>2, <2>2, Alone DEF FinishRun, Goto, dbVars, TrailOf, Interpreting
  <2> QED BY <2>1, <2>2
<1>13. ASSUME NEW p \in Executors, EmitFinished(p) PROVE TrailOf(q)'
  <2>1. CASE q = p
    BY <1>13, <1>1, <1>2, <2>1, TrailFacts DEF EmitFinished, Emit, Abandon, dbVars, TrailOf, Interpreting
  <2>2. CASE q # p
    BY <1>13, <1>1, <1>2, <2>2, Alone DEF EmitFinished, Emit, Abandon, dbVars, TrailOf, Interpreting
  <2> QED BY <2>1, <2>2
<1>14. ASSUME NEW p \in Evals, Judge(p) PROVE TrailOf(q)'
  <2>1. CASE q = p
    BY <1>14, <1>1, <1>2, <2>1, TrailFacts DEF Judge, Goto, dbVars, TrailOf, Interpreting
  <2>2. CASE q # p
    BY <1>14, <1>1, <1>2, <2>2, Alone DEF Judge, Goto, dbVars, TrailOf, Interpreting
  <2> QED BY <2>1, <2>2
<1>15. ASSUME NEW p \in Evals, RecordEvaluation(p) PROVE TrailOf(q)'
  <2>1. CASE q = p
    BY <1>15, <1>1, <1>2, <2>1, TrailFacts DEF RecordEvaluation, Goto, dbVars, TrailOf, Interpreting
  <2>2. CASE q # p
    BY <1>15, <1>1, <1>2, <2>2, Alone DEF RecordEvaluation, Goto, dbVars, TrailOf, Interpreting
  <2> QED BY <2>1, <2>2
<1>16. ASSUME NEW p \in Procs, Interrupt(p) PROVE TrailOf(q)'
  <2>1. CASE q = p
    BY <1>16, <1>1, <1>2, <2>1, TrailFacts DEF Interrupt, Abandon, dbVars, TrailOf, Interpreting
  <2>2. CASE q # p
    BY <1>16, <1>1, <1>2, <2>2, Alone DEF Interrupt, Abandon, dbVars, TrailOf, Interpreting
  <2> QED BY <2>1, <2>2
<1>17. CASE UNCHANGED vars
  BY <1>17, <1>1 DEF vars, dbVars, TrailOf
<1> QED BY <1>3, <1>4, <1>5, <1>6, <1>7, <1>8, <1>9, <1>10, <1>11, <1>12, <1>13, <1>14, <1>15, <1>16, <1>17
       DEF Next, ClientStep, WorkerStep, EvalStep, ExecuteStep

\* The events of a run keep agreeing with its status.
LEMMA StepAgree == AInv /\ [Next]_vars => Agree'
<1> SUFFICES ASSUME AInv, [Next]_vars, NEW r \in Runs PROVE AgreeOn(r)'
  BY DEF Agree
<1> USE ProcsAssumption DEF AInv, IInv, TypeOK, Procs, Executors
<1>1. AgreeOn(r)
  BY DEF Agree
<1>2. ASSUME NEW p \in Procs, Insert(p) PROVE AgreeOn(r)'
  <2>1. run[p] = r => status[r] = "absent"
    BY <1>2 DEF Insert, Fresh
  <2> QED BY <1>1, <1>2, <2>1 DEF Insert, AgreeOn, Terminal
<1>3. ASSUME NEW p \in Workers, Update(p) PROVE AgreeOn(r)'
  BY <1>1, <1>3 DEF Update, AgreeOn, Terminal
<1>4. ASSUME NEW p \in Executors, InitState(p) PROVE AgreeOn(r)'
  BY <1>1, <1>4 DEF InitState, AgreeOn
<1>5. ASSUME NEW p \in Executors, EmitStarted(p) PROVE AgreeOn(r)'
  <2>1. /\ run[p] \in Runs /\ runState[run[p]] = p /\ p # NoProc
        /\ events' = [events EXCEPT ![run[p]] = Append(None, "run.started")]
    BY <1>5 DEF EmitStarted, Goto, Emit, Busy, Owns, Interpreting, Trail, TrailOf
  <2>2. Started \in Trails
    BY DEF Trails
  <2> QED BY <1>1, <1>5, <2>1, <2>2, TrailFacts DEF EmitStarted, AgreeOn
<1>6. ASSUME NEW p \in Executors, EmitError(p) PROVE AgreeOn(r)'
  <2>1. /\ run[p] \in Runs /\ runState[run[p]] = p /\ p # NoProc
        /\ events' = [events EXCEPT ![run[p]] = Append(Started, "error.raised")]
        /\ status[run[p]] \notin Terminal
    BY <1>6 DEF EmitError, Goto, Emit, Busy, Owns, Unfinished, Interpreting, Trail, TrailOf
  <2>2. Errored \in Trails
    BY DEF Trails
  <2> QED BY <1>1, <1>6, <2>1, <2>2, TrailFacts DEF EmitError, AgreeOn
<1>7. ASSUME NEW p \in Executors, FinishRun(p) PROVE AgreeOn(r)'
  <2>1. /\ run[p] \in Runs /\ runState[run[p]] = p /\ p # NoProc
        /\ status' = [status EXCEPT ![run[p]] = outcome[p]]
        /\ events[run[p]] = IF outcome[p] = "crashed" THEN Errored ELSE Started
    BY <1>7 DEF FinishRun, Goto, Busy, Owns, Interpreting, Trail, TrailOf
  <2> QED BY <1>1, <1>7, <2>1, TrailFacts DEF FinishRun, AgreeOn
<1>8. ASSUME NEW p \in Executors, EmitFinished(p) PROVE AgreeOn(r)'
  <2>1. /\ run[p] \in Runs /\ runState[run[p]] = p /\ p # NoProc
        /\ events' = [events EXCEPT ![run[p]] =
                        Append(IF outcome[p] = "crashed" THEN Errored ELSE Started, "run.finished")]
        /\ status[run[p]] = outcome[p] /\ outcome[p] \in Terminal
    BY <1>8 DEF EmitFinished, Emit, Busy, Owns, Interpreting, Trail, TrailOf
  <2>2. Ended \in Trails /\ ErroredEnded \in Trails
    BY DEF Trails
  <2> QED BY <1>1, <1>8, <2>1, <2>2, TrailFacts DEF EmitFinished, AgreeOn
<1>9. CASE UNCHANGED <<status, runState, events>>
  BY <1>1, <1>9 DEF AgreeOn
<1> QED BY <1>2, <1>3, <1>4, <1>5, <1>6, <1>7, <1>8, <1>9
        DEF Next, ClientStep, WorkerStep, EvalStep, ExecuteStep, Stamp, Select, Prepare, Body,
            Judge, RecordEvaluation, Interrupt, dbVars, vars

\* Once an evaluator has earned a run, nothing takes it away.
LEMMA StepDeserved == AInv /\ [Next]_vars => Deserved'
<1> SUFFICES ASSUME AInv, [Next]_vars, NEW e \in Evals PROVE Earned(e)'
  BY DEF Deserved
<1> USE ProcsAssumption DEF AInv, IInv, TypeOK, Procs, Executors
<1>1. Earned(e)
  BY DEF Deserved
<1>2. ASSUME NEW r \in Runs, runState[r] = e, status[r] \in Terminal \ {"crashed"}
      PROVE  runState'[r] = e /\ status'[r] \in Terminal \ {"crashed"}
  BY <1>2, StepKeepsOwner, StepKeepsTerminal
<1>3. \A r \in report[e] : runState'[r] = e /\ status'[r] \in Terminal \ {"crashed"}
  BY <1>1, <1>2 DEF Earned
<1>4. CASE EmitFinished(e)
  <2>1. /\ run[e] \in Runs /\ runState[run[e]] = e /\ outcome[e] \in Terminal
        /\ status[run[e]] = outcome[e]
    BY <1>4 DEF EmitFinished, Busy, Owns, Interpreting, Trail, TrailOf
  <2>2. pc'[e] = "judge" => outcome[e] # "crashed" /\ run' = run
    BY <1>4 DEF EmitFinished, Abandon
  <2> QED BY <1>2, <1>3, <1>4, <2>1, <2>2 DEF EmitFinished, Earned
<1>5. CASE Judge(e)
  <2>1. run[e] \in Runs /\ runState[run[e]] = e /\ status[run[e]] \in Terminal \ {"crashed"}
    BY <1>1, <1>5 DEF Judge, Goto, Busy, Earned
  <2>2. pc'[e] = "idle" /\ report'[e] = report[e] \cup {run[e]}
    BY <1>5 DEF Judge, Goto
  <2> QED BY <1>2, <1>3, <2>1, <2>2 DEF Earned
<1>6. CASE report'[e] = report[e] /\ (pc'[e] = "judge" => pc[e] = "judge" /\ run'[e] = run[e])
  <2>1. pc[e] = "judge" => run[e] \in Runs
    BY DEF Busy
  <2> QED BY <1>1, <1>2, <1>3, <1>6, <2>1 DEF Earned
<1>7. ASSUME NEW p \in Procs, p # e, pc'[e] = pc[e], run'[e] = run[e], report'[e] = report[e]
      PROVE  Earned(e)'
  BY <1>6, <1>7
<1>8. ASSUME NEW p \in Procs, Interrupt(p) PROVE Earned(e)'
  BY <1>6, <1>8 DEF Interrupt, Abandon
<1>9. ASSUME NEW p \in Clients, ClientStep(p) PROVE Earned(e)'
  BY <1>6, <1>9 DEF ClientStep, Stamp, Insert, Goto
<1>10. ASSUME NEW p \in Workers, Select(p) \/ Update(p) \/ Prepare(p) PROVE Earned(e)'
  BY <1>6, <1>10 DEF Select, Update, Prepare, Goto, Abandon
<1>11. ASSUME NEW p \in Executors, ExecuteStep(p), p # e \/ ~EmitFinished(e) PROVE Earned(e)'
  BY <1>6, <1>11 DEF ExecuteStep, InitState, EmitStarted, Body, EmitError, FinishRun,
                     EmitFinished, Goto, Abandon
<1>12. ASSUME NEW p \in Evals, Stamp(p) \/ Insert(p) \/ RecordEvaluation(p) \/ (Judge(p) /\ p # e)
       PROVE  Earned(e)'
  BY <1>6, <1>12 DEF Stamp, Insert, RecordEvaluation, Judge, Goto
<1>13. CASE UNCHANGED vars
  BY <1>6, <1>13 DEF vars
<1> QED BY <1>4, <1>5, <1>8, <1>9, <1>10, <1>11, <1>12, <1>13 DEF Next, WorkerStep, EvalStep

\* While a worker is between its two statements, what it saw keeps its place:
\* started_at is never written again.
LEMMA StepLookedAt == AInv /\ [Next]_vars => LookedAt'
<1> SUFFICES ASSUME AInv, [Next]_vars, NEW w \in Workers PROVE Chosen(w)'
  BY DEF LookedAt
<1> USE ProcsAssumption DEF AInv, IInv, TypeOK, Procs, Executors
<1>1. Chosen(w) /\ (pc[w] = "update" => run[w] \in Runs /\ status[run[w]] # "absent")
  BY DEF LookedAt, Busy, Present
<1>2. CASE Select(w)
  BY <1>2 DEF Select, Goto, Oldest, Queued, Chosen, dbVars
<1>3. ASSUME NEW p \in Procs, Stamp(p) PROVE Chosen(w)'
  BY <1>1, <1>3 DEF Stamp, Goto, Chosen
<1>4. ASSUME NEW p \in Procs, Insert(p) PROVE Chosen(w)'
  BY <1>1, <1>4 DEF Insert, Fresh, Chosen
<1>5. ASSUME NEW p \in Workers, Update(p) PROVE Chosen(w)'
  BY <1>1, <1>5 DEF Update, Abandon, Chosen
<1>6. ASSUME NEW p \in Executors, FinishRun(p) PROVE Chosen(w)'
  BY <1>1, <1>6 DEF FinishRun, Goto, Chosen, Terminal
<1>7. CASE /\ UNCHANGED <<status, startedAt>>
           /\ pc'[w] = "update" => pc[w] = "update" /\ run'[w] = run[w] /\ seen'[w] = seen[w]
  BY <1>1, <1>7 DEF Chosen
<1>8. ASSUME NEW p \in Workers, Select(p), p # w PROVE Chosen(w)'
  BY <1>7, <1>8 DEF Select, Goto, dbVars
<1>9. ASSUME NEW p \in Procs, Prepare(p) \/ Judge(p) \/ RecordEvaluation(p) \/ Interrupt(p)
      PROVE  Chosen(w)'
  BY <1>7, <1>9 DEF Prepare, Judge, RecordEvaluation, Interrupt, Goto, Abandon, dbVars
<1>10. ASSUME NEW p \in Executors, ExecuteStep(p), ~FinishRun(p) PROVE Chosen(w)'
  BY <1>7, <1>10 DEF ExecuteStep, InitState, EmitStarted, Body, EmitError, EmitFinished,
                     Goto, Abandon, dbVars
<1>11. CASE UNCHANGED vars
  BY <1>7, <1>11 DEF vars, dbVars
<1> QED BY <1>2, <1>3, <1>4, <1>5, <1>6, <1>8, <1>9, <1>10, <1>11
        DEF Next, ClientStep, WorkerStep, EvalStep

\* The audit's invariant holds throughout.
LEMMA AInvAlways == Spec => []AInv
<1>1. AInv /\ [Next]_vars => AInv'
  BY StepIInv, StepTrail, StepAgree, StepDeserved, StepLookedAt DEF AInv
<1> QED BY <1>1, InitAInv, PTL DEF Spec

-----------------------------------------------------------------------------
\* The events of a run agree with its status whenever both are read, whatever
\* the processes do and however many of them die.
THEOREM EventsAlwaysAgree == Spec => []EventsAgreeWithStatus
<1>1. AInv => EventsAgreeWithStatus
  <2> SUFFICES ASSUME AInv, NEW r \in Runs
               PROVE  /\ events[r] \in Trails
                      /\ runState[r] = NoProc => events[r] = None /\ status[r] \notin Terminal
                      /\ Len(events[r]) = 3 => status[r] = "crashed"
                      /\ events[r] = Ended => status[r] \in Terminal \ {"crashed"}
                      /\ events[r] = Errored => status[r] \notin Terminal \ {"crashed"}
    BY DEF EventsAgreeWithStatus, Trails, None, Started, Errored, Ended, ErroredEnded
  <2> QED BY TrailFacts DEF AInv, IInv, Unowned, Agree, AgreeOn
<1> QED BY <1>1, AInvAlways, PTL

\* An evaluation only scores runs it executed itself, with its scripted model,
\* however many workers compete for them.
THEOREM EvaluationsJudgeTheirOwn == Spec => []JudgedRunsAreItsOwn
<1>1. AInv => JudgedRunsAreItsOwn
  BY DEF AInv, Deserved, Earned, JudgedRunsAreItsOwn
<1> QED BY <1>1, AInvAlways, PTL

\* A claim overtakes only runs that were not in the table when the worker looked.
THEOREM ClaimsStayInOrder == Spec => ClaimsInOrder
<1>1. AInv /\ [Next]_vars =>
        [\A w \in Workers : pc[w] = "update" /\ pc'[w] = "prepare" =>
           \A r \in seen[w] : status[r] = "queued" => startedAt[run[w]] <= startedAt[r]]_vars
  BY DEF AInv, LookedAt, Chosen
<1> QED BY <1>1, AInvAlways, PTL DEF Spec, ClaimsInOrder

-----------------------------------------------------------------------------
(* Runs that nobody will finish *)

\* A run is lost when the process that owns its run_state row has let go of it
\* before its end, or when it was claimed by a process that is gone.  A lost run
\* may still be held by somebody whom init_state is about to refuse.
Lost == {r \in Runs : /\ status[r] \notin Terminal
                      /\ \/ runState[r] # NoProc /\ ~Interprets(runState[r], r)
                         \/ /\ runState[r] = NoProc /\ status[r] = "running"
                            /\ \A p \in Executors : ~Handles(p, r)}
LossesAreFaults == IsFiniteSet(Lost) /\ Cardinality(Lost) <= faults

\* Only a fault of the process that holds a run loses it.
LEMMA OneLossAtATime ==
  ASSUME AInv, [Next]_vars
  PROVE  \/ faults' = faults /\ Lost' \subseteq Lost
         \/ faults' = faults + 1 /\ \E r \in Runs : Lost' \subseteq Lost \cup {r}
<1> DEFINE Same == faults' = faults /\ Lost' \subseteq Lost
           Kept == \A q \in Executors : \A r \in Runs : /\ Interprets(q, r) => Interprets(q, r)'
                                                        /\ Handles(q, r) => Handles(q, r)'
<1>0. TypeOK /\ Busy /\ Fresh /\ Trail
  BY DEF AInv, IInv
<1>a. UNCHANGED <<status, runState, faults>> /\ Kept => Same
  BY <1>0 DEF TypeOK, Lost
<1> USE ProcsAssumption DEF TypeOK, Procs, Executors
<1>1. ASSUME NEW p \in Procs, Stamp(p) PROVE Same
  <2>1. Kept
    BY <1>0, <1>1 DEF Stamp, Goto, Interprets, Handles, Interpreting, Claimed
  <2> QED BY <1>a, <1>1, <2>1 DEF Stamp
<1>2. ASSUME NEW p \in Procs, Insert(p) PROVE Same
  <2>1. Kept
    BY <1>0, <1>2 DEF Insert, Interprets, Handles, Interpreting, Claimed
  <2>2. run[p] \in Runs /\ status[run[p]] = "absent" /\ faults' = faults /\ runState' = runState
        /\ status' = [status EXCEPT ![run[p]] = "queued"]
    BY <1>0, <1>2 DEF Insert, Busy, Fresh
  <2> QED BY <1>0, <2>1, <2>2 DEF Lost, Terminal
<1>3. ASSUME NEW p \in Workers, Select(p) \/ Prepare(p) PROVE Same
  <2>1. Kept
    BY <1>0, <1>3 DEF Select, Prepare, Goto, Interprets, Handles, Interpreting, Claimed
  <2> QED BY <1>a, <1>3, <2>1 DEF Select, Prepare, dbVars
<1>4. ASSUME NEW p \in Workers, Update(p) PROVE Same
  <2>1. Kept /\ runState' = runState /\ faults' = faults
    BY <1>0, <1>4 DEF Update, Abandon, Interprets, Handles, Interpreting, Claimed
  <2>2. CASE status' = status
    BY <1>a, <2>1, <2>2
  <2>3. CASE status' # status
    <3>1. /\ run[p] \in Runs /\ status[run[p]] = "queued"
          /\ status' = [status EXCEPT ![run[p]] = "running"] /\ Handles(p, run[p])' /\ run' = run
      BY <1>0, <1>4, <2>3 DEF Update, Busy, Handles, Claimed
    <3>2. run[p] \in Lost' => run[p] \in Lost
      <4>1. run[p] \in Lost' => runState[run[p]] # NoProc
        <5>1. ASSUME NEW r \in Lost', runState'[r] = NoProc, NEW q \in Executors PROVE ~(Handles(q, r)')
          BY <5>1 DEF Lost
        <5>2. p \in Executors /\ runState' = runState /\ run'[p] = run[p]
          BY <1>4, <2>1, <3>1
        <5> QED BY <3>1, <5>1, <5>2
      <4>2. run[p] \in Lost' /\ runState[run[p]] # NoProc => run[p] \in Lost
        BY <1>0, <2>1, <3>1 DEF Lost, Terminal
      <4> QED BY <4>1, <4>2
    <3>3. \A r \in Runs \ {run[p]} : status'[r] = status[r]
      BY <1>0, <3>1
    <3>4. \A r \in Runs \ {run[p]} : r \in Lost' => r \in Lost
      BY <1>0, <2>1, <3>3 DEF Lost
    <3>5. Lost' \subseteq Runs
      BY DEF Lost
    <3> QED BY <2>1, <3>2, <3>4, <3>5
  <2> QED BY <2>2, <2>3
<1>5. ASSUME NEW p \in Executors, InitState(p) PROVE Same
  <2>1. pc[p] = "init" /\ status' = status /\ faults' = faults /\ run[p] \in Runs
    BY <1>0, <1>5 DEF InitState, Busy
  <2>2. CASE runState[run[p]] = NoProc
    <3>1. /\ runState' = [runState EXCEPT ![run[p]] = p] /\ pc' = [pc EXCEPT ![p] = "started"]
          /\ run' = run
      BY <1>5, <2>2 DEF InitState
    <3>2. Kept /\ Interprets(p, run[p])'
      BY <1>0, <2>1, <3>1 DEF Interprets, Handles, Interpreting, Claimed
    <3> QED BY <1>0, <2>1, <3>1, <3>2 DEF Lost
  <2>3. CASE runState[run[p]] # NoProc
    <3>1. runState' = runState /\ Abandon(p)
      BY <1>5, <2>3 DEF InitState
    <3>2. \A q \in Executors : \A r \in Runs :
            /\ Interprets(q, r) => Interprets(q, r)'
            /\ r # run[p] => (Handles(q, r) => Handles(q, r)')
      BY <1>0, <2>1, <3>1 DEF Abandon, Interprets, Handles, Interpreting, Claimed
    <3> QED BY <1>0, <2>1, <2>3, <3>1, <3>2 DEF Lost
  <2> QED BY <2>2, <2>3
<1>6. ASSUME NEW p \in Executors, EmitStarted(p) \/ Body(p) \/ EmitError(p) PROVE Same
  <2>1. Kept
    BY <1>0, <1>6 DEF EmitStarted, Body, EmitError, Goto, Interprets, Handles, Interpreting, Claimed
  <2> QED BY <1>a, <1>6, <2>1 DEF EmitStarted, Body, EmitError, dbVars
<1>7. ASSUME NEW p \in Executors, FinishRun(p) PROVE Same
  <2>1. Kept /\ runState' = runState /\ faults' = faults /\ run[p] \in Runs
    BY <1>0, <1>7 DEF FinishRun, Goto, Busy, Interprets, Handles, Interpreting, Claimed
  <2>2. status' = [status EXCEPT ![run[p]] = outcome[p]] /\ outcome[p] \in Terminal
    BY <1>0, <1>7 DEF FinishRun
  <2> QED BY <1>0, <2>1, <2>2 DEF Lost, Terminal
<1>8. ASSUME NEW p \in Executors, EmitFinished(p) PROVE Same
  <2>1. /\ pc[p] = "finished" /\ UNCHANGED <<status, runState, faults>>
        /\ status[run[p]] \in Terminal
    BY <1>0, <1>8 DEF EmitFinished, Trail, TrailOf
  <2>2. \A q \in Executors : \A r \in Runs : r # run[p] =>
          /\ Interprets(q, r) => Interprets(q, r)'
          /\ Handles(q, r) => Handles(q, r)'
    BY <1>0, <1>8 DEF EmitFinished, Abandon, Interprets, Handles, Interpreting, Claimed
  <2> QED BY <1>0, <2>1, <2>2 DEF Lost
<1>9. ASSUME NEW p \in Evals, Judge(p) \/ RecordEvaluation(p) PROVE Same
  <2>1. Kept
    BY <1>0, <1>9 DEF Judge, RecordEvaluation, Goto, Interprets, Handles, Interpreting, Claimed
  <2> QED BY <1>a, <1>9, <2>1 DEF Judge, RecordEvaluation, dbVars
<1>10. ASSUME NEW p \in Procs, Interrupt(p)
       PROVE  faults' = faults + 1 /\ \E r \in Runs : Lost' \subseteq Lost \cup {r}
  <2>1. run[p] \in Runs /\ faults' = faults + 1 /\ UNCHANGED <<status, runState>> /\ Abandon(p)
    BY <1>0, <1>10 DEF Interrupt, Busy, dbVars
  <2>2. \A q \in Executors : \A r \in Runs \ {run[p]} : /\ Interprets(q, r) => Interprets(q, r)'
                                                        /\ Handles(q, r) => Handles(q, r)'
    BY <1>0, <2>1 DEF Abandon, Interprets, Handles
  <2>3. Lost' \subseteq Lost \cup {run[p]}
    <3> HIDE DEF Kept
    <3> QED BY <1>0, <2>1, <2>2 DEF Lost
  <2> QED BY <2>1, <2>3
<1>11. CASE UNCHANGED vars
  <2>1. Kept
    BY <1>11 DEF vars, dbVars, Interprets, Handles
  <2> QED BY <1>a, <1>11, <2>1 DEF vars, dbVars
<1> QED BY <1>1, <1>2, <1>3, <1>4, <1>5, <1>6, <1>7, <1>8, <1>9, <1>10, <1>11
        DEF Next, ClientStep, WorkerStep, EvalStep, ExecuteStep

LEMMA LossesKept == AInv /\ LossesAreFaults /\ [Next]_vars => LossesAreFaults'
<1> SUFFICES ASSUME AInv, LossesAreFaults, [Next]_vars PROVE LossesAreFaults'
  OBVIOUS
<1>1. faults \in Nat /\ IsFiniteSet(Lost) /\ Cardinality(Lost) \in Nat /\ Cardinality(Lost) <= faults
  BY BoundsAssumption, FS_CardinalityType DEF AInv, IInv, TypeOK, LossesAreFaults
<1>2. CASE faults' = faults /\ Lost' \subseteq Lost
  <2>1. IsFiniteSet(Lost') /\ Cardinality(Lost') \in Nat /\ Cardinality(Lost') <= Cardinality(Lost)
    BY <1>1, <1>2, FS_Subset, FS_CardinalityType
  <2> QED BY <1>1, <1>2, <2>1 DEF LossesAreFaults
<1>3. ASSUME faults' = faults + 1, NEW r \in Runs, Lost' \subseteq Lost \cup {r} PROVE LossesAreFaults'
  <2>1. /\ IsFiniteSet(Lost \cup {r}) /\ Cardinality(Lost \cup {r}) \in Nat
        /\ Cardinality(Lost \cup {r}) <= Cardinality(Lost) + 1
    <3>1. /\ IsFiniteSet(Lost \cup {r})
          /\ Cardinality(Lost \cup {r}) = IF r \in Lost THEN Cardinality(Lost) ELSE Cardinality(Lost) + 1
      BY ONLY <1>1, FS_AddElement
    <3> QED BY ONLY <1>1, <3>1
  <2>2. IsFiniteSet(Lost') /\ Cardinality(Lost') \in Nat /\ Cardinality(Lost') <= Cardinality(Lost \cup {r})
    BY <1>3, <2>1, FS_Subset, FS_CardinalityType
  <2> QED BY <1>1, <1>3, <2>1, <2>2 DEF LossesAreFaults
<1> QED BY <1>2, <1>3, OneLossAtATime

\* A run is left "running" with nobody at it only by a fault, at most one run a
\* fault, for any number of workers, evaluators and runs.
THEOREM FaultsStrandOneRunEach == Spec => []EachFaultStrandsAtMostOneRun
<1>1. Init => LossesAreFaults
  <2>1. Init => Lost = {} /\ faults = 0
    BY DEF Init, Lost
  <2> QED BY <2>1, FS_EmptySet DEF LossesAreFaults
<1>2. AInv /\ LossesAreFaults => EachFaultStrandsAtMostOneRun
  <2> SUFFICES ASSUME AInv, LossesAreFaults PROVE EachFaultStrandsAtMostOneRun
    OBVIOUS
  <2>1. Stranded \subseteq Lost
    BY DEF AInv, IInv, TypeOK, Stranded, Lost, Handles, Interprets, Interpreting, Claimed, Terminal
  <2>2. faults \in Nat /\ IsFiniteSet(Lost) /\ Cardinality(Lost) \in Nat /\ Cardinality(Lost) <= faults
    BY BoundsAssumption, FS_CardinalityType DEF AInv, IInv, TypeOK, LossesAreFaults
  <2>3. Cardinality(Stranded) \in Nat /\ Cardinality(Stranded) <= Cardinality(Lost)
    BY <2>1, <2>2, FS_Subset, FS_CardinalityType
  <2> QED BY <2>2, <2>3 DEF EachFaultStrandsAtMostOneRun
<1> QED BY <1>1, <1>2, LossesKept, AInvAlways, PTL DEF Spec
=============================================================================
