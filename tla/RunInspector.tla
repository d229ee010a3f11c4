---------------------------- MODULE RunInspector ----------------------------
(***************************************************************************)
(* ui/run.html: the page that shows one run.  load() asks for four views   *)
(* of it at once and draws them when all have come; a timer calls load()   *)
(* again whether or not the last one has ended, until one draws a terminal *)
(* status or fails.  Answers come in any order.  The run writes its rows   *)
(* in the meantime: each commit is a new position in its history, and an   *)
(* answer is the position at which the API read.                           *)
(***************************************************************************)
EXTENDS Integers, FiniteSets

CONSTANTS Loads,       \* places for the loads in flight (bound: how many at once)
          Panels,      \* what load() asks for: "run", events, tool calls, state
          NoAnswer,    \* not answered yet
          MaxCommits   \* bound: commits of the run

ASSUME PlaceAssumption == Loads # {} /\ MaxCommits \in Nat

VARIABLES
  \* runtime.db
  runStatus, commits,
  \* the page
  polling,    \* pollHandle is set
  inFlight,   \* the loads begun and neither drawn nor failed
  answers,    \* answers[l][p]: what load l was told for panel p
  crossed,    \* history: loads that another one, begun later or earlier, has
              \* overtaken by drawing or failing while they were in flight
  shown,      \* shown[p]: the answer last drawn, NoAnswer if none
  banner,     \* the page shows an error instead
  shownByCrossed  \* history: the load last drawn was crossed

pageVars == <<runStatus, commits, polling, inFlight, answers, crossed, shown, banner, shownByCrossed>>
runVars == <<runStatus, commits>>

TERMINAL == {"completed", "failed", "exhausted", "cancelled", "crashed"}
Statuses == {"queued", "running"} \cup TERMINAL
Answers == [at : Nat, status : Statuses] \cup {NoAnswer}
ASSUME PanelAssumption == "run" \in Panels /\ NoAnswer \notin [at : Nat, status : Statuses]
NoAnswers == [p \in Panels |-> NoAnswer]

\* load(); pollHandle = setInterval(load, 1500).
PageInit ==
  /\ runStatus = "queued" /\ commits = 0
  /\ polling = TRUE
  /\ \E l \in Loads : inFlight = {l}
  /\ answers = [l \in Loads |-> NoAnswers]
  /\ crossed = {} /\ shown = NoAnswers
  /\ banner = FALSE /\ shownByCrossed = FALSE

-----------------------------------------------------------------------------
(* The run: any number of commits, one of which claims it and one ends it. *)
(* Some still follow the one that ends it (run.finished).                  *)

Commit ==
  /\ commits < MaxCommits
  /\ commits' = commits + 1
  /\ \/ runStatus = "queued" /\ runStatus' = "running"
     \/ runStatus \in {"queued", "running"} /\ runStatus' \in TERMINAL
     \/ UNCHANGED runStatus
  /\ UNCHANGED <<polling, inFlight, answers, crossed, shown, banner, shownByCrossed>>

-----------------------------------------------------------------------------
(* The page *)

Tick(l) == /\ polling /\ l \notin inFlight
           /\ inFlight' = inFlight \cup {l}
           /\ UNCHANGED <<runVars, polling, answers, crossed, shown, banner, shownByCrossed>>

\* A faulty variant, for the mutants of PROJECT.json: GET answered by a cache.
AnswerFromCache(l, p) ==
  /\ l \in inFlight /\ answers[l][p] = NoAnswer
  /\ \E n \in 0..commits : answers' = [answers EXCEPT ![l][p] = [at |-> n, status |-> runStatus]]
  /\ UNCHANGED <<runVars, polling, inFlight, crossed, shown, banner, shownByCrossed>>

\* The API reads the database for one of the load's requests.
AnswerTo(l, p) ==
  /\ l \in inFlight /\ answers[l][p] = NoAnswer
  /\ answers' = [answers EXCEPT ![l][p] = [at |-> commits, status |-> runStatus]]
  /\ UNCHANGED <<runVars, polling, inFlight, crossed, shown, banner, shownByCrossed>>

\* Load l is over; whoever is still in flight has been overtaken.
LoadOver(l) == /\ inFlight' = inFlight \ {l}
               /\ crossed' = inFlight \ {l}
               /\ answers' = [answers EXCEPT ![l] = NoAnswers]

\* Promise.all resolves: draw, and stop the timer if the run has ended.
DrawStoppingAt(l, statuses) ==
  /\ l \in inFlight /\ \A p \in Panels : answers[l][p] # NoAnswer
  /\ shown' = answers[l] /\ banner' = FALSE /\ shownByCrossed' = (l \in crossed)
  /\ polling' = (polling /\ answers[l]["run"].status \notin statuses)
  /\ LoadOver(l)
  /\ UNCHANGED runVars

\* Faulty variants, for the mutants of PROJECT.json: the page stops at the
\* first load that finds the run claimed, or forgets that a run may crash.
DrawStoppingOnceClaimed(l) == DrawStoppingAt(l, Statuses \ {"queued"})
DrawStoppingUnlessCrashed(l) == DrawStoppingAt(l, TERMINAL \ {"crashed"})

Draw(l) == DrawStoppingAt(l, TERMINAL)

\* A request fails: Promise.all rejects, and the timer is stopped for good.
Fail(l) ==
  /\ l \in inFlight
  /\ banner' = TRUE /\ polling' = FALSE
  /\ LoadOver(l)
  /\ UNCHANGED <<runVars, shown, shownByCrossed>>

PageNext == \/ Commit
            \/ \E l \in Loads : \/ Tick(l) \/ Draw(l) \/ Fail(l)
                                \/ \E p \in Panels : AnswerTo(l, p)

PageSpec == PageInit /\ [][PageNext]_pageVars

\* The browser runs the timer and the callbacks, and the API answers.
PageFairness ==
  /\ WF_pageVars(\E l \in Loads : Tick(l))
  /\ \A l \in Loads : WF_pageVars(Draw(l)) /\ \A p \in Panels : WF_pageVars(AnswerTo(l, p))

-----------------------------------------------------------------------------
(* Properties *)

PageTypeOK ==
  /\ runStatus \in Statuses /\ commits \in Nat
  /\ polling \in BOOLEAN /\ banner \in BOOLEAN /\ shownByCrossed \in BOOLEAN
  /\ inFlight \in SUBSET Loads /\ crossed \in SUBSET inFlight
  /\ answers \in [Loads -> [Panels -> Answers]]
  /\ shown \in [Panels -> Answers]

Position(p) == IF shown[p] = NoAnswer THEN 0 ELSE shown[p].at

\* README: the page polls until the run ends, and then stops, however loads
\* and answers cross (or earlier, for good, if a request fails).
PollingStops == runStatus \in TERMINAL ~> ~polling

\* A page that has stopped for good shows how the run ended, unless an error
\* is shown, or the load it shows had been overtaken by another.
SettledPageIsFinal ==
  ~polling /\ ~banner /\ ~shownByCrossed =>
    /\ shown["run"] # NoAnswer
    /\ shown["run"].status \in TERMINAL

\* Only a load that was overtaken takes a panel of the page back in time.
OnlyCrossedLoadsTakeThePageBack ==
  [][~shownByCrossed' => \A p \in Panels : shown'[p] = shown[p] \/ shown'[p].at >= Position(p)]_pageVars
=============================================================================
