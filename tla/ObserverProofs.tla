--------------------------- MODULE ObserverProofs ---------------------------
(***************************************************************************)
(* What the Run Inspector's page shows, what /health says and what the     *)
(* metrics report, for any number of loads, panels, commits, runs and calls*)
(* and any intervals of the heartbeat.                                     *)
(***************************************************************************)
EXTENDS Observers, Induction

USE TimeAssumption, PanelAssumption

-----------------------------------------------------------------------------
(* Heartbeat *)

\* The stamp lags behind the iteration that wrote it, the iteration behind the
\* clock; last_heartbeat is the stamp, or the boot; and the worker is writing
\* when the heartbeat is due, and past it when it is not.
HealthInv ==
  /\ HealthTypeOK
  /\ since <= now
  /\ ts # Never => ts <= since
  /\ last = IF beaten THEN ts ELSE boot
  /\ beaten => ts # Never
  /\ worker = "write" => HeartbeatDue
  /\ worker \in {"busy", "sleep"} => ~HeartbeatDue

LEMMA BootIsInt == \A b \in -Interval .. 0 : b \in Int
OBVIOUS

LEMMA HealthInvInit == HealthInit => HealthInv
<1> SUFFICES ASSUME HealthInit PROVE HealthInv
  OBVIOUS
<1>1. HealthTypeOK BY BootIsInt DEF HealthInit, HealthTypeOK, Places
<1> QED BY <1>1 DEF HealthInit, HealthInv

LEMMA HealthInvStep == HealthInv /\ [HealthNext]_healthVars => HealthInv'
<1> SUFFICES ASSUME HealthInv, [HealthNext]_healthVars PROVE HealthInv'
  OBVIOUS
<1> USE DEF HealthInv, HealthTypeOK, HeartbeatDue, Places
<1>1. CASE Pass BY <1>1 DEF Pass
<1>2. CASE Top BY <1>2 DEF Top, ProcessOne
<1>3. CASE Write BY <1>3 DEF Write, ProcessOne
<1>4. CASE NextIteration BY <1>4 DEF NextIteration
<1>5. CASE WorkerDies BY <1>5 DEF WorkerDies
<1>6. CASE WorkerRestarts
  <2> USE <1>6 DEF WorkerRestarts
  <2>1. HealthTypeOK' BY BootIsInt
  <2>2. worker' = "top" /\ since' = now /\ last' = boot /\ beaten' = FALSE /\ ts' = ts /\ boot' = boot /\ now' = now
    OBVIOUS
  <2> QED BY <2>1, <2>2
<1>7. CASE UNCHANGED healthVars BY <1>7 DEF healthVars
<1> QED BY <1>1, <1>2, <1>3, <1>4, <1>5, <1>6, <1>7 DEF HealthNext

LEMMA HealthInvTruth == HealthInv => HealthTellsTheTruth
BY DEF HealthInv, HealthTypeOK, HealthTellsTheTruth, HeartbeatDue, WorkerAlive, Places

-----------------------------------------------------------------------------
(* RunInspector *)

\* An answer is no younger than the run; one that a load which nobody has
\* overtaken holds is no older than anything shown; once the timer has been
\* stopped, whoever is in flight has been overtaken.
PageInv ==
  /\ PageTypeOK
  /\ \A l \in Loads : \A p \in Panels : answers[l][p] # NoAnswer => answers[l][p].at <= commits
  /\ \A l \in Loads \ inFlight : answers[l] = NoAnswers
  /\ \A p \in Panels : Position(p) <= commits
  /\ \A l \in inFlight \ crossed : \A p \in Panels : \A q \in Panels :
       answers[l][p] # NoAnswer => Position(q) <= answers[l][p].at
  /\ ~polling => inFlight \subseteq crossed
  /\ SettledPageIsFinal

LEMMA PageInvInit == PageInit => PageInv
<1> SUFFICES ASSUME PageInit PROVE PageInv
  OBVIOUS
<1>1. NoAnswers \in [Panels -> Answers] BY DEF NoAnswers, Answers
<1>2. PageTypeOK BY <1>1 DEF PageInit, PageTypeOK, Statuses
<1>3. \A p \in Panels : NoAnswers[p] = NoAnswer BY DEF NoAnswers
<1> QED BY <1>2, <1>3 DEF PageInit, PageInv, Position, SettledPageIsFinal

\* A drawing: its answers replace what is shown.
LEMMA DrawKeepsPageInv ==
  ASSUME PageInv, NEW l \in Loads, Draw(l)
  PROVE  PageInv'
<1> USE DEF Draw, DrawStoppingAt, LoadOver, runVars
<1>1. PageTypeOK'
  <2>1. NoAnswers \in [Panels -> Answers] BY DEF NoAnswers, Answers
  <2>2. shown' \in [Panels -> Answers] /\ answers' \in [Loads -> [Panels -> Answers]]
    BY <2>1 DEF PageInv, PageTypeOK
  <2>3. polling' \in BOOLEAN /\ banner' \in BOOLEAN /\ shownByCrossed' \in BOOLEAN
    <3>1. \A A, B : (A /\ B) \in BOOLEAN OBVIOUS
    <3>2. (l \in crossed) \in BOOLEAN OBVIOUS
    <3> QED BY <3>1, <3>2, Zenon
  <2>4. runStatus' \in Statuses /\ commits' \in Nat /\ inFlight' \in SUBSET Loads /\ crossed' \in SUBSET inFlight'
    BY DEF PageInv, PageTypeOK
  <2> QED BY <2>2, <2>3, <2>4 DEF PageTypeOK
<1>2. \A m \in Loads : answers'[m] = IF m = l THEN NoAnswers ELSE answers[m]
  BY DEF PageInv, PageTypeOK
<1>3. \A m \in Loads : \A p \in Panels : answers'[m][p] # NoAnswer => answers'[m][p].at <= commits'
  BY <1>2 DEF PageInv, NoAnswers
<1>4. \A m \in Loads \ inFlight' : answers'[m] = NoAnswers
  BY <1>2 DEF PageInv
<1>5. \A p \in Panels : Position(p)' <= commits'
  BY DEF PageInv, PageTypeOK, Position
<1>6. \A m \in inFlight' \ crossed' : \A p \in Panels : \A q \in Panels :
        answers'[m][p] # NoAnswer => Position(q)' <= answers'[m][p].at
  OBVIOUS
<1>7. SettledPageIsFinal'
  BY DEF PageInv, SettledPageIsFinal
<1> QED BY <1>1, <1>3, <1>4, <1>5, <1>6, <1>7 DEF PageInv

LEMMA PageInvStep == PageInv /\ [PageNext]_pageVars => PageInv'
<1> SUFFICES ASSUME PageInv, [PageNext]_pageVars PROVE PageInv'
  OBVIOUS
<1>1. CASE Commit
  BY <1>1 DEF Commit, PageInv, PageTypeOK, Statuses, TERMINAL, Position, SettledPageIsFinal, NoAnswers, Answers
<1>2. ASSUME NEW l \in Loads, Tick(l) PROVE PageInv'
  <2> USE <1>2 DEF Tick, runVars
  <2>1. PageTypeOK' BY DEF PageInv, PageTypeOK
  <2>2. l \notin crossed /\ answers[l] = NoAnswers BY DEF PageInv, PageTypeOK
  <2>3. \A m \in inFlight' \ crossed' : \A p \in Panels : \A q \in Panels :
          answers'[m][p] # NoAnswer => Position(q)' <= answers'[m][p].at
    BY <2>2 DEF PageInv, Position, NoAnswers
  <2> QED BY <2>1, <2>3 DEF PageInv, Position, SettledPageIsFinal, PageTypeOK
<1>3. ASSUME NEW l \in Loads, NEW p \in Panels, AnswerTo(l, p) PROVE PageInv'
  <2> USE <1>3 DEF AnswerTo, runVars
  <2> DEFINE new == [at |-> commits, status |-> runStatus]
  <2>1. new \in Answers /\ new # NoAnswer BY DEF PageInv, PageTypeOK, Answers
  <2>2. PageTypeOK' BY <2>1 DEF PageInv, PageTypeOK
  <2>3. \A m \in Loads : \A q \in Panels :
          answers'[m][q] = IF m = l /\ q = p THEN new ELSE answers[m][q]
    BY DEF PageInv, PageTypeOK
  <2>4. \A m \in Loads : \A q \in Panels : answers'[m][q] # NoAnswer => answers'[m][q].at <= commits'
    BY <2>3 DEF PageInv, PageTypeOK
  <2>5. \A m \in inFlight' \ crossed' : \A q \in Panels : \A r \in Panels :
          answers'[m][q] # NoAnswer => Position(r)' <= answers'[m][q].at
    BY <2>3 DEF PageInv, Position, PageTypeOK
  <2>6. \A m \in Loads \ inFlight' : answers'[m] = NoAnswers
    BY DEF PageInv, PageTypeOK
  <2> QED BY <2>2, <2>4, <2>5, <2>6 DEF PageInv, Position, SettledPageIsFinal
<1>4. ASSUME NEW l \in Loads, Fail(l) PROVE PageInv'
  <2> USE <1>4 DEF Fail, LoadOver, runVars
  <2>1. PageTypeOK' BY DEF PageInv, PageTypeOK, NoAnswers, Answers
  <2>2. \A m \in Loads : answers'[m] = IF m = l THEN NoAnswers ELSE answers[m]
    BY DEF PageInv, PageTypeOK
  <2>3. \A m \in Loads : \A p \in Panels : answers'[m][p] # NoAnswer => answers'[m][p].at <= commits'
    BY <2>2 DEF PageInv, NoAnswers
  <2> QED BY <2>1, <2>2, <2>3 DEF PageInv, Position, SettledPageIsFinal
<1>5. CASE UNCHANGED pageVars
  BY <1>5 DEF pageVars, PageInv, PageTypeOK, Position, SettledPageIsFinal
<1> QED BY <1>1, <1>2, <1>3, <1>4, <1>5, DrawKeepsPageInv DEF PageNext

LEMMA PageNeverGoesBack ==
  PageInv /\ [PageNext]_pageVars =>
    (~shownByCrossed' => \A p \in Panels : shown'[p] = shown[p] \/ shown'[p].at >= Position(p))
<1> SUFFICES ASSUME PageInv, [PageNext]_pageVars, ~shownByCrossed', NEW p \in Panels
             PROVE  shown'[p] = shown[p] \/ shown'[p].at >= Position(p)
  OBVIOUS
<1>1. ASSUME NEW l \in Loads, Draw(l) PROVE shown'[p].at >= Position(p)
  BY <1>1 DEF Draw, DrawStoppingAt, LoadOver, PageInv, PageTypeOK, Position, Answers
<1> QED BY <1>1 DEF PageNext, pageVars, Commit, Tick, Fail, AnswerTo, runVars

-----------------------------------------------------------------------------
(* Metrics *)

RowStatuses == {"absent", "queued", "running"} \cup Terminal

\* What a reader may rely on in a run's rows: runs.tool_calls lags behind the
\* calls that were allowed, and has caught up when the run ends properly.
RowsInv ==
  /\ rows \in [Runs -> [status : RowStatuses, tool_calls : Nat, calls : [Kinds -> Nat]]]
  /\ \A r \in Runs : /\ rows[r].tool_calls <= AllowedCalls(r)
                     /\ rows[r].status \in Terminal \ {"crashed"} => rows[r].tool_calls = AllowedCalls(r)

RowsOnlyGrow ==
  \A r \in Runs : /\ rows[r].tool_calls <= rows'[r].tool_calls
                  /\ rows[r].status \in Terminal => rows'[r] = rows[r]

LEMMA RowsInvInit == RowsInit => RowsInv
<1> SUFFICES ASSUME RowsInit PROVE RowsInv
  OBVIOUS
<1>1. NoCalls \in [Kinds -> Nat] BY DEF NoCalls
<1>2. rows \in [Runs -> [status : RowStatuses, tool_calls : Nat, calls : [Kinds -> Nat]]]
  BY <1>1 DEF RowsInit, RowStatuses
<1>3. ASSUME NEW r \in Runs
      PROVE  rows[r].tool_calls <= AllowedCalls(r) /\ rows[r].status \notin Terminal
  <2>1. rows[r].tool_calls = 0 /\ rows[r].calls = NoCalls /\ rows[r].status \in {"absent", "queued", "running"}
    BY DEF RowsInit
  <2> QED BY <2>1 DEF AllowedCalls, NoCalls, Kinds, Terminal
<1> QED BY <1>2, <1>3 DEF RowsInv

LEMMA RowsInvStep == RowsInv /\ RowsNext => RowsInv' /\ RowsOnlyGrow
<1> SUFFICES ASSUME RowsInv, NEW r \in Runs,
                    \/ Create(r) \/ Claim(r) \/ Count(r)
                    \/ \E k \in Kinds : Record(r, k)
                    \/ \E s \in Terminal : Finish(r, s)
             PROVE  RowsInv' /\ RowsOnlyGrow
  BY DEF RowsNext
<1> USE DEF RowsInv, RowsOnlyGrow, RowStatuses, AllowedCalls, Terminal, Underway
<1>a. \A x \in Runs : rows[x].calls["ok"] \in Nat /\ rows[x].calls["error"] \in Nat /\ rows[x].tool_calls \in Nat
  BY DEF Kinds
<1>1. CASE Create(r) BY <1>1, <1>a DEF Create
<1>2. CASE Claim(r) BY <1>2, <1>a DEF Claim
<1>3. CASE Count(r) BY <1>3, <1>a DEF Count
<1>4. ASSUME NEW k \in Kinds, Record(r, k) PROVE RowsInv' /\ RowsOnlyGrow
  BY <1>4, <1>a DEF Record, Kinds
<1>5. ASSUME NEW s \in Terminal, Finish(r, s) PROVE RowsInv' /\ RowsOnlyGrow
  BY <1>5, <1>a DEF Finish
<1> QED BY <1>1, <1>2, <1>3, <1>4, <1>5

\* What has been read of a run: its row was true when it was listed, and is for
\* ever if the run had ended; its calls, read later, are at least the ones its
\* row counts.
ReadInv ==
  /\ reading \in BOOLEAN
  /\ DOMAIN listed \subseteq Runs /\ DOMAIN called \subseteq DOMAIN listed
  /\ listed \in [DOMAIN listed -> [status : RowStatuses, tool_calls : Nat]]
  /\ called \in [DOMAIN called -> [Kinds -> Nat]]
  /\ \A r \in DOMAIN listed :
       /\ listed[r].tool_calls <= rows[r].tool_calls
       /\ listed[r].status \in Terminal => listed[r] = RowOf(r)
  /\ \A r \in DOMAIN called :
       /\ listed[r].tool_calls <= called[r]["ok"] + called[r]["error"]
       /\ listed[r].status \in Terminal => called[r] = rows[r].calls
  /\ report # NoValue => DOMAIN called = DOMAIN listed /\ report = ComputeMetrics(listed, called)

MetricsInv == RowsInv /\ ReadInv

LEMMA ReadInvInit == RowsInv /\ MetricsInit => ReadInv
<1> SUFFICES ASSUME RowsInv, MetricsInit PROVE ReadInv
  OBVIOUS
<1>1. DOMAIN listed = {} /\ DOMAIN called = {} BY DEF MetricsInit
<1>2. listed \in [{} -> [status : RowStatuses, tool_calls : Nat]] /\ called \in [{} -> [Kinds -> Nat]]
  BY DEF MetricsInit
<1> QED BY <1>1, <1>2 DEF ReadInv, MetricsInit

\* The workers write: what has been read still stands.
LEMMA ReadInvWrite == MetricsInv /\ RowsNext /\ UNCHANGED metricsVars => MetricsInv'
<1> SUFFICES ASSUME MetricsInv, RowsNext, UNCHANGED metricsVars PROVE MetricsInv'
  OBVIOUS
<1>1. RowsInv' /\ RowsOnlyGrow BY RowsInvStep DEF MetricsInv
<1>2. /\ reading' = reading /\ listed' = listed /\ called' = called /\ report' = report
  BY DEF metricsVars
<1>3. \A r \in DOMAIN listed :
        /\ listed[r].tool_calls \in Nat /\ rows[r].tool_calls \in Nat /\ rows'[r].tool_calls \in Nat
        /\ listed[r].tool_calls <= rows[r].tool_calls /\ rows[r].tool_calls <= rows'[r].tool_calls
  BY <1>1 DEF MetricsInv, ReadInv, RowsInv, RowsOnlyGrow
<1>4. \A r \in DOMAIN listed :
        listed[r].status \in Terminal => rows'[r] = rows[r] /\ listed[r] = RowOf(r)'
  BY <1>1 DEF MetricsInv, ReadInv, RowsOnlyGrow, RowOf
<1>5. ReadInv'
  BY <1>2, <1>3, <1>4 DEF MetricsInv, ReadInv, RowOf
<1> QED BY <1>1, <1>5 DEF MetricsInv

LEMMA ReadInvRead == MetricsInv /\ MetricsNext /\ UNCHANGED rows => MetricsInv'
<1> SUFFICES ASSUME MetricsInv, MetricsNext, UNCHANGED rows PROVE MetricsInv'
  OBVIOUS
<1> USE DEF MetricsInv
<1>0. RowsInv' BY DEF RowsInv, AllowedCalls
<1>1. CASE ListRuns
  <2> USE <1>1 DEF ListRuns
  <2>1. /\ DOMAIN called' = {} /\ called' \in [{} -> [Kinds -> Nat]]
        /\ reading' = TRUE /\ report' = NoValue
    OBVIOUS
  <2>2. /\ DOMAIN listed' \subseteq Runs
        /\ \A r \in DOMAIN listed' : listed'[r] = RowOf(r) /\ RowOf(r) \in [status : RowStatuses, tool_calls : Nat]
    BY DEF RowsInv, RowOf
  <2>3. listed' \in [DOMAIN listed' -> [status : RowStatuses, tool_calls : Nat]]
    BY <2>2
  <2>4. \A r \in DOMAIN listed' :
          listed'[r].tool_calls = rows'[r].tool_calls /\ rows[r].tool_calls \in Nat /\ RowOf(r)' = RowOf(r)
    BY <2>2 DEF RowOf, RowsInv
  <2>5. called' \in [DOMAIN called' -> [Kinds -> Nat]]
    BY <2>1
  <2> HIDE DEF ListRuns
  <2> QED BY <1>0, <2>1, <2>2, <2>3, <2>4, <2>5 DEF ReadInv
<1>2. CASE ListToolCalls
  <2> USE <1>2 DEF ListToolCalls
  <2>1. PICK r \in DOMAIN listed \ DOMAIN called :
          called' = [x \in DOMAIN called \cup {r} |-> IF x = r THEN rows[r].calls ELSE called[x]]
    OBVIOUS
  <2>2. DOMAIN called' = DOMAIN called \cup {r} /\ DOMAIN called' \subseteq DOMAIN listed'
    BY <2>1 DEF ReadInv
  <2>3. rows[r].calls \in [Kinds -> Nat] BY DEF ReadInv, RowsInv
  <2>4. called' \in [DOMAIN called' -> [Kinds -> Nat]]
    BY <2>1, <2>3 DEF ReadInv
  <2>5. \A x \in DOMAIN called' : called'[x] = IF x = r THEN rows[r].calls ELSE called[x]
    BY <2>1
  <2>6. listed[r].tool_calls <= rows[r].calls["ok"] + rows[r].calls["error"]
    <3>1. /\ listed[r].tool_calls \in Nat /\ rows[r].tool_calls \in Nat
          /\ rows[r].calls["ok"] \in Nat /\ rows[r].calls["error"] \in Nat
      BY <2>3 DEF ReadInv, RowsInv, Kinds
    <3> QED BY <3>1 DEF ReadInv, RowsInv, AllowedCalls
  <2>7. \A x \in DOMAIN called' :
          /\ listed[x].tool_calls <= called'[x]["ok"] + called'[x]["error"]
          /\ listed[x].status \in Terminal => called'[x] = rows[x].calls
    BY <2>2, <2>5, <2>6 DEF ReadInv
  <2>8. report = NoValue
    BY DEF ReadInv
  <2> QED BY <1>0, <2>2, <2>4, <2>7, <2>8 DEF ReadInv, RowOf
<1>3. CASE Report
  <2> USE <1>3 DEF Report, Answer
  <2>1. /\ reading' = FALSE /\ listed' = listed /\ called' = called /\ rows' = rows
        /\ report' = ComputeMetrics(listed, called) /\ DOMAIN called = DOMAIN listed
    OBVIOUS
  <2>2. ComputeMetrics(listed', called') = ComputeMetrics(listed, called)
    BY <2>1
  <2> HIDE DEF Report, Answer
  <2> QED BY <1>0, <2>1, <2>2 DEF ReadInv, RowOf
<1> QED BY <1>1, <1>2, <1>3 DEF MetricsNext

LEMMA MetricsInvStep == MetricsInv /\ [Next]_vars => MetricsInv'
<1> SUFFICES ASSUME MetricsInv, [Next]_vars PROVE MetricsInv'
  OBVIOUS
<1>1. \/ RowsNext /\ UNCHANGED metricsVars
      \/ MetricsNext /\ UNCHANGED rows
      \/ UNCHANGED reportVars
  BY DEF Next, vars, WriteRows, ReadRows, reportVars
<1>2. CASE UNCHANGED reportVars
  BY <1>2 DEF reportVars, metricsVars, MetricsInv, RowsInv, ReadInv, AllowedCalls, RowOf
<1> QED BY <1>1, <1>2, ReadInvWrite, ReadInvRead

\* Sums of calls.
LEMMA TotalIsSum == \A f, S : Total(f, S) = SumOver(f, S)
BY DEF Total, SumOver

LEMMA KindsAreFinite == IsFiniteSet(Kinds)
<1>1. IsFiniteSet({"ok"}) BY FS_Singleton
<1>2. IsFiniteSet({"ok"} \cup {"error"}) BY <1>1, FS_AddElement
<1>3. IsFiniteSet(({"ok"} \cup {"error"}) \cup {"denied"}) BY <1>2, FS_AddElement
<1>4. IsFiniteSet((({"ok"} \cup {"error"}) \cup {"denied"}) \cup {"pending_approval"}) BY <1>3, FS_AddElement
<1>5. Kinds = (({"ok"} \cup {"error"}) \cup {"denied"}) \cup {"pending_approval"} BY DEF Kinds
<1> QED BY <1>4, <1>5

LEMMA TotalOfKinds ==
  ASSUME NEW c \in [Kinds -> Nat]
  PROVE  /\ Total(c, Kinds) = c["ok"] + c["error"] + c["denied"] + c["pending_approval"]
         /\ \A k \in Kinds : Total(c, {k}) = c[k]
<1>1. \A k \in Kinds : c[k] \in Nat
  OBVIOUS
<1>2. ASSUME NEW T \in SUBSET Kinds, NEW k \in T
      PROVE  Total(c, T) = c[k] + Total(c, T \ {k})
  <2>1. IsFiniteSet(T) /\ \A x \in T : c[x] \in Nat
    BY <1>1, KindsAreFinite, FS_Subset
  <2> QED BY <2>1, SumTakesAny, TotalIsSum
<1>3. Total(c, {}) = 0
  BY SumOfNone, TotalIsSum
<1>4. ASSUME NEW k \in Kinds PROVE Total(c, {k}) = c[k]
  <2>1. {k} \in SUBSET Kinds /\ {k} \ {k} = {}
    OBVIOUS
  <2>2. Total(c, {k}) = c[k] + Total(c, {k} \ {k})
    BY <2>1, <1>2
  <2> QED BY <2>1, <2>2, <1>1, <1>3
<1>5. Total(c, Kinds) = c["ok"] + Total(c, {"error", "denied", "pending_approval"})
  <2>1. Kinds \ {"ok"} = {"error", "denied", "pending_approval"} /\ "ok" \in Kinds
    BY DEF Kinds
  <2> QED BY <2>1, <1>2
<1>6. Total(c, {"error", "denied", "pending_approval"}) = c["error"] + Total(c, {"denied", "pending_approval"})
  <2>1. /\ {"error", "denied", "pending_approval"} \ {"error"} = {"denied", "pending_approval"}
        /\ {"error", "denied", "pending_approval"} \in SUBSET Kinds
    BY DEF Kinds
  <2> QED BY <2>1, <1>2
<1>7. Total(c, {"denied", "pending_approval"}) = c["denied"] + Total(c, {"pending_approval"})
  <2>1. /\ {"denied", "pending_approval"} \ {"denied"} = {"pending_approval"}
        /\ {"denied", "pending_approval"} \in SUBSET Kinds
    BY DEF Kinds
  <2> QED BY <2>1, <1>2
<1>8. {"ok", "error", "denied", "pending_approval"} \subseteq Kinds
  BY DEF Kinds
<1> QED BY <1>1, <1>4, <1>5, <1>6, <1>7, <1>8

LEMMA CallsOfIsSum ==
  ASSUME NEW D, IsFiniteSet(D), NEW calls \in [D -> [Kinds -> Nat]]
  PROVE  /\ CallsOf(calls, Kinds) = SumOver([r \in D |-> calls[r]["ok"] + calls[r]["error"]
                                                 + calls[r]["denied"] + calls[r]["pending_approval"]], D)
         /\ \A k \in Kinds : CallsOf(calls, {k}) = SumOver([r \in D |-> calls[r][k]], D)
<1>1. [r \in D |-> Total(calls[r], Kinds)]
        = [r \in D |-> calls[r]["ok"] + calls[r]["error"] + calls[r]["denied"] + calls[r]["pending_approval"]]
  BY TotalOfKinds
<1>2. ASSUME NEW k \in Kinds PROVE [r \in D |-> Total(calls[r], {k})] = [r \in D |-> calls[r][k]]
  BY TotalOfKinds
<1>3. DOMAIN calls = D
  OBVIOUS
<1> QED BY <1>1, <1>2, <1>3, TotalIsSum DEF CallsOf

LEMMA RateOf ==
  ASSUME NEW n \in Nat, NEW d \in Nat, d = 0 => n = 0
  PROVE  Num(Rate(n, d)) = n /\ Den(Rate(n, d)) = d
BY ReportAssumption DEF Num, Den, Rate

LEMMA ReportAddsUp == MetricsInv => ReportsAddUp
<1> SUFFICES ASSUME MetricsInv, report # NoValue PROVE ReportsAddUp
  BY DEF ReportsAddUp
<1> DEFINE D == DOMAIN listed
           tc == [r \in D |-> listed[r].tool_calls]
           of(k) == [r \in D |-> called[r][k]]
           all == [r \in D |-> called[r]["ok"] + called[r]["error"]
                               + called[r]["denied"] + called[r]["pending_approval"]]
           least == [r \in D |-> tc[r] + of("denied")[r]]
           most == [r \in D |-> least[r] + of("pending_approval")[r]]
<1>1. /\ IsFiniteSet(D) /\ called \in [D -> [Kinds -> Nat]]
      /\ report = ComputeMetrics(listed, called)
  BY FS_Subset, ReportAssumption DEF MetricsInv, ReadInv
<1>2. /\ tc \in [D -> Nat]
      /\ \A k \in Kinds : of(k) \in [D -> Nat]
  BY <1>1 DEF MetricsInv, ReadInv
<1>3. /\ \A r \in D : {called[r]["ok"], called[r]["error"], called[r]["denied"], called[r]["pending_approval"]} \subseteq Nat
      /\ {"ok", "error", "denied", "pending_approval"} \subseteq Kinds
  BY <1>1 DEF Kinds
<1>4. /\ least \in [D -> Nat] /\ most \in [D -> Nat] /\ all \in [D -> Nat]
      /\ \A r \in D : least[r] <= all[r] /\ of("denied")[r] <= all[r] /\ of("error")[r] <= all[r]
  BY <1>1, <1>2, <1>3 DEF MetricsInv, ReadInv
<1>5. CallsOf(called, Kinds) = SumOver(all, D) /\ \A k \in Kinds : CallsOf(called, {k}) = SumOver(of(k), D)
  BY <1>1, CallsOfIsSum
<1>6. /\ Total(tc, D) = SumOver(tc, D)
      /\ Num(report.tool_calls) = Num(Rate(Total(tc, D), Cardinality(D)))
      /\ Num(report.policy_denial_rate) = Num(Rate(CallsOf(called, {"denied"}), CallsOf(called, Kinds)))
      /\ Den(report.tool_error_rate) = Den(Rate(CallsOf(called, {"error"}), CallsOf(called, Kinds)))
  BY <1>1, TotalIsSum DEF ComputeMetrics
<1> HIDE DEF all, least, most, tc, of
<1>7. \A k \in Kinds : SumOver(of(k), D) \in Nat
  BY <1>1, <1>2, SumTakesAny
<1>8. SumOver(tc, D) \in Nat /\ SumOver(all, D) \in Nat
  BY <1>1, <1>2, <1>4, SumTakesAny
<1>9. SumOver(of("denied"), D) <= SumOver(all, D) /\ SumOver(of("error"), D) <= SumOver(all, D)
  BY <1>1, <1>2, <1>3, <1>4, SumIsMonotone
<1>10. Num(report.tool_calls) = SumOver(tc, D)
  <2>1. Cardinality(D) \in Nat /\ (Cardinality(D) = 0 => SumOver(tc, D) = 0)
    BY <1>1, FS_CardinalityType, FS_EmptySet, SumOfNone
  <2> QED BY <2>1, <1>6, <1>8, RateOf
<1>11. Num(report.policy_denial_rate) = SumOver(of("denied"), D)
  <2>1. SumOver(all, D) = 0 => SumOver(of("denied"), D) = 0
    BY <1>3, <1>7, <1>8, <1>9
  <2> QED BY <2>1, <1>3, <1>5, <1>6, <1>7, <1>8, RateOf
<1>12. Den(report.tool_error_rate) = SumOver(all, D)
  <2>1. SumOver(all, D) = 0 => SumOver(of("error"), D) = 0
    BY <1>3, <1>7, <1>8, <1>9
  <2> QED BY <2>1, <1>3, <1>5, <1>6, <1>7, <1>8, RateOf
<1>13. SumOver(least, D) = SumOver(tc, D) + SumOver(of("denied"), D)
  BY <1>1, <1>2, <1>3, SumIsAdditive DEF least
<1>14. SumOver(least, D) <= SumOver(all, D)
  BY <1>1, <1>4, SumIsMonotone
<1>15. ASSUME \A r \in D : listed[r].status \in Terminal \ {"crashed"}
       PROVE  SumOver(least, D) + CallsOf(called, {"pending_approval"}) = SumOver(all, D)
  <2>1. SumOver(most, D) = SumOver(least, D) + SumOver(of("pending_approval"), D)
    BY <1>1, <1>2, <1>3, <1>4, SumIsAdditive DEF most
  <2>2. \A r \in D : most[r] = all[r]
    <3> SUFFICES ASSUME NEW r \in D PROVE most[r] = all[r]
      OBVIOUS
    <3>1. /\ listed[r] = RowOf(r) /\ called[r] = rows[r].calls /\ r \in Runs
          /\ rows[r].status \in Terminal \ {"crashed"}
      BY <1>15, <1>1 DEF MetricsInv, ReadInv, RowOf
    <3>2. listed[r].tool_calls = called[r]["ok"] + called[r]["error"]
      BY <3>1 DEF MetricsInv, RowsInv, AllowedCalls, RowOf
    <3> QED BY <3>2, <1>3 DEF most, least, all, of, tc
  <2>3. SumOver(most, D) = SumOver(all, D)
    BY <1>1, <1>4, <2>2, SumIsExtensional
  <2> QED BY <2>1, <2>3, <1>3, <1>5
<1> QED BY <1>10, <1>11, <1>12, <1>13, <1>14, <1>15 DEF ReportsAddUp

\* Counting the runs that ended one way again, later, finds as many or more.
LEMMA ReportStands == MetricsInv => ReportsAreNeverTakenBack
<1> SUFFICES ASSUME MetricsInv, report # NoValue PROVE ReportsAreNeverTakenBack
  BY DEF ReportsAreNeverTakenBack
<1> DEFINE D == DOMAIN listed
           rowsNow == [r \in D |-> RowOf(r)]
           callsNow == [r \in D |-> rows[r].calls]
           ended(runs, s) == {r \in D : runs[r].status = s}
<1>1. /\ IsFiniteSet(D) /\ DOMAIN called = D /\ DOMAIN rowsNow = D
      /\ report = ComputeMetrics(listed, called)
  BY FS_Subset, ReportAssumption DEF MetricsInv, ReadInv
<1>2. ASSUME NEW s \in Terminal
      PROVE  Num(report.rates[s]) <= Num(ComputeMetrics(rowsNow, callsNow).rates[s])
  <2>1. ended(listed, s) \subseteq ended(rowsNow, s)
    BY <1>2 DEF MetricsInv, ReadInv, RowOf
  <2>2. /\ Cardinality(ended(listed, s)) \in Nat /\ Cardinality(ended(rowsNow, s)) \in Nat
        /\ Cardinality(ended(listed, s)) <= Cardinality(ended(rowsNow, s))
    <3>1. ended(rowsNow, s) \subseteq D /\ ended(listed, s) \subseteq D
      OBVIOUS
    <3> HIDE DEF ended
    <3> QED BY <1>1, <2>1, <3>1, FS_Subset, FS_CardinalityType
  <2>3. /\ Cardinality(D) \in Nat
        /\ Cardinality(D) = 0 => Cardinality(ended(listed, s)) = 0 /\ Cardinality(ended(rowsNow, s)) = 0
    BY <1>1, FS_CardinalityType, FS_EmptySet
  <2>4. /\ report.rates[s] = Rate(Cardinality(ended(listed, s)), Cardinality(D))
        /\ ComputeMetrics(rowsNow, callsNow).rates[s] = Rate(Cardinality(ended(rowsNow, s)), Cardinality(D))
    BY <1>1, <1>2 DEF ComputeMetrics
  <2> HIDE DEF ended
  <2> QED BY <2>2, <2>3, <2>4, RateOf
<1>3. ASSUME \A r \in D : listed[r].status \in Terminal
      PROVE  report = ComputeMetrics(rowsNow, callsNow)
  <2>1. rowsNow = listed /\ callsNow = called
    BY <1>3, <1>1 DEF MetricsInv, ReadInv
  <2> QED BY <1>1, <2>1
<1> QED BY <1>2, <1>3 DEF ReportsAreNeverTakenBack

-----------------------------------------------------------------------------
(* The observers together *)

LEMMA ObserversSteps ==
  [Next]_vars => [PageNext]_pageVars /\ [HealthNext]_healthVars
BY DEF Next, vars, WatchRun, reportVars

\* /health's "worker" is true and false when HealthTellsTheTruth says it may
\* be, for any intervals, any run lengths, deaths and restarts.
THEOREM HealthAlwaysTellsTheTruth == Spec => []HealthTellsTheTruth
<1>1. Init => HealthInv BY HealthInvInit DEF Init
<1>2. HealthInv /\ [Next]_vars => HealthInv' BY HealthInvStep, ObserversSteps
<1> QED BY <1>1, <1>2, HealthInvTruth, PTL DEF Spec

\* A page that has stopped polling shows how the run ended, unless it shows an
\* error or a load that another had overtaken: for any number of loads at once.
THEOREM SettledPagesStayFinal == Spec => []SettledPageIsFinal
<1>1. Init => PageInv BY PageInvInit DEF Init
<1>2. PageInv /\ [Next]_vars => PageInv' BY PageInvStep, ObserversSteps
<1>3. PageInv => SettledPageIsFinal BY DEF PageInv
<1> QED BY <1>1, <1>2, <1>3, PTL DEF Spec

\* Only a load that was overtaken by another takes a panel back in time.
THEOREM PagesMoveForward == Spec => OnlyCrossedLoadsTakeThePageBack
<1>1. Init => PageInv BY PageInvInit DEF Init
<1>2. PageInv /\ [Next]_vars => PageInv' BY PageInvStep, ObserversSteps
<1>3. PageInv /\ [Next]_vars =>
        [~shownByCrossed' => \A p \in Panels : shown'[p] = shown[p] \/ shown'[p].at >= Position(p)]_pageVars
  BY PageNeverGoesBack, ObserversSteps
<1> QED BY <1>1, <1>2, <1>3, PTL DEF Spec, OnlyCrossedLoadsTakeThePageBack

\* Whatever workers wrote between the SELECTs of a report, the calls its runs
\* count and those it says were denied are among the attempts it divides by,
\* and what is missing of them is explained: for any number of runs and calls.
THEOREM ReportsAlwaysAddUp == Spec => []ReportsAddUp
<1>1. Init => MetricsInv BY RowsInvInit, ReadInvInit DEF Init, MetricsInv
<1>2. MetricsInv /\ [Next]_vars => MetricsInv' BY MetricsInvStep
<1> QED BY <1>1, <1>2, ReportAddsUp, PTL DEF Spec

\* What a report says of runs that have ended stays true.
THEOREM ReportsStand == Spec => []ReportsAreNeverTakenBack
<1>1. Init => MetricsInv BY RowsInvInit, ReadInvInit DEF Init, MetricsInv
<1>2. MetricsInv /\ [Next]_vars => MetricsInv' BY MetricsInvStep
<1> QED BY <1>1, <1>2, ReportStands, PTL DEF Spec

LEMMA NothingWritten == RowsInit => Written = 0
<1> SUFFICES ASSUME RowsInit PROVE Written = 0
  OBVIOUS
<1> DEFINE calls == [r \in Runs |-> rows[r].calls]
           none == [r \in Runs |-> 0]
<1>1. IsFiniteSet(Runs) BY ReportAssumption
<1>2. NoCalls \in [Kinds -> Nat] /\ \A k \in Kinds : NoCalls[k] = 0
  BY DEF NoCalls
<1>3. calls = [r \in Runs |-> NoCalls]
  BY DEF RowsInit
<1>4. calls \in [Runs -> [Kinds -> Nat]]
  BY <1>2, <1>3
<1>5. [r \in Runs |-> calls[r]["ok"] + calls[r]["error"] + calls[r]["denied"] + calls[r]["pending_approval"]] = none
  BY <1>2, <1>3 DEF Kinds
<1>6. none \in [Runs -> Nat] /\ none = [r \in Runs |-> none[r] + none[r]]
  OBVIOUS
<1> HIDE DEF calls, none
<1>7. CallsOf(calls, Kinds) = SumOver(none, Runs)
  BY <1>1, <1>4, <1>5, CallsOfIsSum
<1>8. SumOver(none, Runs) = SumOver(none, Runs) + SumOver(none, Runs)
  BY <1>1, <1>6, SumIsAdditive
<1>9. SumOver(none, Runs) \in Nat
  BY <1>1, <1>6, SumTakesAny
<1> QED BY <1>7, <1>8, <1>9 DEF Written, calls

LEMMA WrittenCoversEach ==
  ASSUME RowsInv, Written <= MaxCalls, NEW r \in Runs
  PROVE  /\ rows[r].tool_calls \in 0..MaxCalls
         /\ rows[r].calls \in [Kinds -> 0..MaxCalls]
<1> DEFINE calls == [x \in Runs |-> rows[x].calls]
           all == [x \in Runs |-> calls[x]["ok"] + calls[x]["error"]
                                  + calls[x]["denied"] + calls[x]["pending_approval"]]
<1>1. IsFiniteSet(Runs) BY ReportAssumption
<1>2. calls \in [Runs -> [Kinds -> Nat]]
  BY DEF RowsInv
<1>3. Written = SumOver(all, Runs)
  BY <1>1, <1>2, CallsOfIsSum DEF Written
<1>4. \A x \in Runs : /\ calls[x]["ok"] \in Nat /\ calls[x]["error"] \in Nat
                      /\ calls[x]["denied"] \in Nat /\ calls[x]["pending_approval"] \in Nat
  BY <1>2 DEF Kinds
<1>5. all \in [Runs -> Nat]
  BY <1>4
<1>6. all[r] <= SumOver(all, Runs) /\ SumOver(all, Runs) \in Nat
  <2> HIDE DEF all
  <2> QED BY <1>1, <1>5, SumContainsEach, SumTakesAny
<1>7. all[r] <= MaxCalls
  <2>1. all[r] \in Nat BY <1>5
  <2> HIDE DEF all
  <2> QED BY <2>1, <1>3, <1>6, CallsAssumption
<1>8. all[r] = calls[r]["ok"] + calls[r]["error"] + calls[r]["denied"] + calls[r]["pending_approval"]
  OBVIOUS
<1>9. /\ calls[r]["ok"] + calls[r]["error"] \in 0..MaxCalls
      /\ \A k \in Kinds : calls[r][k] \in 0..MaxCalls
  <2> HIDE DEF all, calls
  <2> QED BY <1>4, <1>7, <1>8, CallsAssumption DEF Kinds
<1>10. calls[r] = rows[r].calls
  OBVIOUS
<1> HIDE DEF calls, all
<1>11. rows[r].calls \in [Kinds -> 0..MaxCalls]
  BY <1>2, <1>9, <1>10
<1>12. rows[r].tool_calls \in Nat /\ rows[r].tool_calls <= calls[r]["ok"] + calls[r]["error"]
  BY <1>10 DEF RowsInv, AllowedCalls
<1> QED BY <1>9, <1>11, <1>12, CallsAssumption

\* Every variable of every observer has its type, and what is written while
\* the metrics are watched stays within the bound.
THEOREM ObserversTyped == Spec => []TypeOK
<1> DEFINE IInv == MetricsInv /\ PageInv /\ HealthInv /\ Written <= MaxCalls
<1>1. Init => IInv
  BY RowsInvInit, ReadInvInit, PageInvInit, HealthInvInit, NothingWritten, CallsAssumption DEF Init, MetricsInv
<1>2. Written <= MaxCalls /\ [Next]_vars => (Written <= MaxCalls)'
  <2> SUFFICES ASSUME Written <= MaxCalls, [Next]_vars PROVE (Written <= MaxCalls)'
    OBVIOUS
  <2>1. CASE WriteRows
    BY <2>1 DEF WriteRows, Written
  <2>2. CASE UNCHANGED rows
    BY <2>2 DEF Written
  <2> QED BY <2>1, <2>2 DEF Next, vars, reportVars, ReadRows
<1>3. IInv /\ [Next]_vars => IInv'
  BY <1>2, MetricsInvStep, PageInvStep, HealthInvStep, ObserversSteps
<1>4. IInv => TypeOK
  <2> SUFFICES ASSUME IInv PROVE TypeOK
    OBVIOUS
  <2>1. rows \in [Runs -> [status : {"absent", "queued", "running"} \cup Terminal,
                           tool_calls : 0..MaxCalls, calls : [Kinds -> 0..MaxCalls]]]
    BY WrittenCoversEach DEF MetricsInv, RowsInv, RowStatuses
  <2>2. reading \in BOOLEAN /\ DOMAIN listed \subseteq Runs /\ DOMAIN called \subseteq DOMAIN listed
    BY DEF MetricsInv, ReadInv
  <2> QED BY <2>1, <2>2 DEF TypeOK, PageInv, HealthInv
<1> QED BY <1>1, <1>3, <1>4, PTL DEF Spec
=============================================================================
