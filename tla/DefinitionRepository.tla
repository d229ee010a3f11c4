------------------------ MODULE DefinitionRepository ------------------------
(***************************************************************************)
(* core/definition/repository.py: the agents and agent_versions tables of  *)
(* control.db, and the operations that several API threads and the CLI run *)
(* on them at once, with the two clients that read a version and then act  *)
(* on what they read: the Factory's duplicate_agent, and whoever queues a  *)
(* run.  Every statement commits on its own (core/db.py), so an action is  *)
(* one statement, and a session may be overtaken, or die, between any two. *)
(***************************************************************************)
EXTENDS DefinitionDocs, Integers, FiniteSets, FiniteSetsExt

CONSTANTS Sessions,     \* API request threads and CLI processes
          Agents, Nobody,
          Docs,         \* definitions posted to create_version
          OverrideSet,  \* overrides posted to duplicate_agent
          MaxVersions,  \* bound: versions of an agent
          MaxRows,      \* bound: versions of all of them
          MayDie        \* bound: FALSE if no operation is cut short

ASSUME NobodyAssumption == Nobody \notin Sessions \cup Agents
ASSUME SessionsAssumption == IsFiniteSet(Sessions)
ASSUME BoundAssumption == MaxVersions \in Nat \ {0} /\ MaxRows \in Nat /\ MayDie \in BOOLEAN
ASSUME DocsAssumption == (\A d \in Docs : Valid(d)) /\ \A o \in OverrideSet : IsDocument(o)
ASSUME AgentsAssumption == \A a \in Agents : a \in Values \ {EmptyDict, BadValue} /\ Parse[<<"id">>][a] = a

VARIABLES
  \* control.db
  exists,     \* the agents that have a row
  active,     \* agents.active_version_id, as a version number; 0 is NULL
  status,     \* status[a][n]: agent_versions.status, "none" without a row
  definition, \* definition[a][n]: agent_versions.definition_json
  \* a session's operation
  pc, agent, version,
  sawActive,  \* archive_version's copy of active_version_id
  doc,        \* the definition in hand
  source,     \* the version it found active: [agent, version]
  copying,    \* duplicate_agent's request: [target, overrides]
  \* environment and history
  copied,     \* copied[a][n]: what duplication wrote the row, if any did
  born,       \* the agents that duplications created
  alone,      \* sessions beside whose operation no other ran on the agent
  tainted     \* agents on which operations overlapped, or one was cut short,
              \* and no activation has run alone since

rowVars == <<status, definition, copied>>
agentVars == <<exists, born, active>>
clientVars == <<doc, source, copying>>
localVars == <<agent, version, sawActive, clientVars, alone>>
vars == <<rowVars, agentVars, pc, localVars, tainted>>

Numbers == 1..MaxVersions
Rows(a) == {n \in Numbers : status[a][n] # "none"}
Active(a) == {n \in Numbers : status[a][n] = "active"}
InFlight(a) == {s \in Sessions : agent[s] = a}

NoDoc == <<>>
NoSource == [agent |-> Nobody, version |-> 0]
NoCopy == [target |-> Nobody, overrides |-> NoDoc]
NotCopied == [source |-> NoSource, overrides |-> NoDoc]

PC == {"idle", "readSource", "findAgent", "queueRun", "insertAgent", "selectMax", "insertDraft", "insertActive",
       "archiveOthers", "archiveOthersNew", "setActive", "setPointer",
       "readAgent", "setArchived", "clearPointer"}

TypeOK == /\ exists \in SUBSET Agents
          /\ active \in [Agents -> 0..MaxVersions]
          /\ status \in [Agents -> [Numbers -> {"none", "draft", "active", "archived"}]]
          /\ \A a \in Agents : \A n \in Rows(a) : Valid(definition[a][n])
          /\ pc \in [Sessions -> PC]
          /\ agent \in [Sessions -> Agents \cup {Nobody}]
          /\ version \in [Sessions -> 0..MaxVersions]
          /\ sawActive \in [Sessions -> 0..MaxVersions]
          /\ alone \in SUBSET Sessions
          /\ tainted \in SUBSET Agents

Init == /\ exists = {}
        /\ active = [a \in Agents |-> 0]
        /\ status = [a \in Agents |-> [n \in Numbers |-> "none"]]
        /\ definition = [a \in Agents |-> [n \in Numbers |-> NoDoc]]
        /\ born = {}
        /\ copied = [a \in Agents |-> [n \in Numbers |-> NotCopied]]
        /\ pc = [s \in Sessions |-> "idle"]
        /\ agent = [s \in Sessions |-> Nobody]
        /\ version = [s \in Sessions |-> 0]
        /\ sawActive = [s \in Sessions |-> 0]
        /\ doc = [s \in Sessions |-> NoDoc]
        /\ source = [s \in Sessions |-> NoSource]
        /\ copying = [s \in Sessions |-> NoCopy]
        /\ alone = {}
        /\ tainted = {}

-----------------------------------------------------------------------------
(* How an operation of session s begins, goes on and ends *)

Goto(s, from, to) == pc[s] = from /\ pc' = [pc EXCEPT ![s] = to]

\* Beginning beside another operation on the same agent taints it.
Enter(s, a, from, to) ==
  /\ Goto(s, from, to)
  /\ agent' = [agent EXCEPT ![s] = a]
  /\ alone' = (alone \ InFlight(a)) \cup {x \in {s} : InFlight(a) = {}}
  /\ tainted' = tainted \cup {b \in {a} : InFlight(b) # {}}
Begin(s, a, to) == Enter(s, a, "idle", to)

End(s) == /\ pc' = [pc EXCEPT ![s] = "idle"]
          /\ agent' = [agent EXCEPT ![s] = Nobody]
          /\ version' = [version EXCEPT ![s] = 0]
          /\ sawActive' = [sawActive EXCEPT ![s] = 0]
          /\ doc' = [doc EXCEPT ![s] = NoDoc]
          /\ source' = [source EXCEPT ![s] = NoSource]
          /\ copying' = [copying EXCEPT ![s] = NoCopy]
          /\ alone' = alone \ {s}

-----------------------------------------------------------------------------
Write(s, st) ==
  /\ status' = [status EXCEPT ![agent[s]][version[s]] = st]
  /\ definition' = [definition EXCEPT ![agent[s]][version[s]] = doc[s]]
  /\ copied' = [copied EXCEPT ![agent[s]][version[s]] =
                  [source |-> source[s], overrides |-> copying[s].overrides]]

SetStatus(s, st) == /\ status' = [status EXCEPT ![agent[s]][version[s]] = st]
                    /\ UNCHANGED <<definition, copied>>

(* Faulty variants of the definitions below, which the properties must       *)
(* reject: PROJECT.json names the pairs.  The specification uses none.       *)

\* INSERT OR REPLACE: the UNIQUE constraint no longer refuses anyone.
InsertDraftReplacing(s) ==
  /\ pc[s] = "insertDraft"
  /\ Write(s, "draft")
  /\ End(s)
  /\ UNCHANGED <<agentVars, tainted>>

\* promote_version sets the pointer and leaves the status for later.
ArchiveOthersAndPoint(s) ==
  /\ \/ Goto(s, "archiveOthersNew", "setPointer") /\ UNCHANGED active
     \/ Goto(s, "archiveOthers", "setActive") /\ active' = [active EXCEPT ![agent[s]] = version[s]]
  /\ status' = [status EXCEPT ![agent[s]] =
                  [n \in Numbers |-> IF n \in Active(agent[s]) \ {version[s]} THEN "archived" ELSE @[n]]]
  /\ UNCHANGED <<definition, copied, exists, born, localVars, tainted>>

\* Archiving the version the pointer names instead of every active one.
ArchivePrevious(s) ==
  /\ Goto(s, "archiveOthersNew", "setPointer") \/ Goto(s, "archiveOthers", "setActive")
  /\ status' = [status EXCEPT ![agent[s]] =
                  [n \in Numbers |-> IF n \in {active[agent[s]]} \ {version[s]} THEN "archived" ELSE @[n]]]
  /\ UNCHANGED <<definition, copied, agentVars, localVars, tainted>>

\* duplicate_agent goes on when the agent it wants to create is there.
FindAgentOrGoOn(s) ==
  /\ pc[s] = "findAgent"
  /\ IF copying[s].target \in exists
       THEN Enter(s, copying[s].target, "findAgent", "selectMax")
       ELSE Enter(s, copying[s].target, "findAgent", "insertAgent")
  /\ UNCHANGED <<rowVars, agentVars, version, sawActive, clientVars>>

\* The overrides reach the database as they came.
InsertUnvalidated(s) ==
  /\ pc[s] = "insertAgent"
  /\ exists' = exists \cup {agent[s]}
  /\ IF copying[s] = NoCopy \/ agent[s] \in exists
       THEN End(s) /\ UNCHANGED born
       ELSE /\ Goto(s, "insertAgent", "selectMax")
            /\ born' = born \cup {agent[s]}
            /\ UNCHANGED localVars
  /\ UNCHANGED <<rowVars, active, tainted>>

-----------------------------------------------------------------------------
(* create_agent *)

\* SELECT id: an existing row is DuplicateAgentError, and nothing happens.
CreateAgent(s, a) ==
  /\ a \notin exists
  /\ Begin(s, a, "insertAgent")
  /\ UNCHANGED <<rowVars, agentVars, version, sawActive, clientVars>>

\* The primary key refuses a second INSERT (IntegrityError).  duplicate_agent
\* goes on to create_version, whose validation is the next thing to fail.
InsertAgent(s) ==
  /\ pc[s] = "insertAgent"
  /\ exists' = exists \cup {agent[s]}
  /\ born' = IF copying[s] = NoCopy THEN born ELSE born \cup ({agent[s]} \ exists)
  /\ IF copying[s] = NoCopy \/ agent[s] \in exists \/ ~Valid(doc[s])
       THEN End(s)
       ELSE /\ pc' = [pc EXCEPT ![s] = "selectMax"]
            /\ doc' = [doc EXCEPT ![s] = Canonical(@)]
            /\ UNCHANGED <<agent, version, sawActive, source, copying, alone>>
  /\ UNCHANGED <<rowVars, active, tainted>>

-----------------------------------------------------------------------------
(* create_version, with a definition that validates *)

\* Bounded: whoever is at it must find a number in Numbers, and whoever will
\* write a row, as a duplication will from its first statement, counts as one.
CreatingPC == {"selectMax", "insertDraft", "insertActive"}
Creating(a) == {x \in InFlight(a) : pc[x] \in CreatingPC}
Taken(a) == Max(Rows(a) \cup {0}) + Cardinality(Creating(a))
Writers == {x \in Sessions : \/ pc[x] \in CreatingPC
                             \/ copying[x] # NoCopy /\ pc[x] \in {"readSource", "findAgent", "insertAgent"}}
OutOfRows == Cardinality({r \in Agents \X Numbers : r[2] \in Rows(r[1])}) + Cardinality(Writers) >= MaxRows

\* Nobody compares the definition's id with the agent's; callers post it right.
CreateVersion(s, a) ==
  /\ a \in exists
  /\ Begin(s, a, "selectMax")
  /\ Taken(a) < MaxVersions /\ ~OutOfRows
  /\ \E d \in Docs : doc' = [doc EXCEPT ![s] = Canonical([d EXCEPT ![<<"id">>] = a])]
  /\ UNCHANGED <<rowVars, agentVars, version, sawActive, source, copying>>

\* SELECT MAX(version) + 1; `activate` decides the status to insert.
SelectMax(s) ==
  /\ \E to \in {"insertDraft", "insertActive"} : Goto(s, "selectMax", to)
  /\ version' = [version EXCEPT ![s] = Max(Rows(agent[s]) \cup {0}) + 1]
  /\ UNCHANGED <<rowVars, agentVars, agent, sawActive, clientVars, alone, tainted>>

\* UNIQUE(agent_id, version): the number may have been taken since.
InsertDraft(s) ==
  /\ pc[s] = "insertDraft"
  /\ IF version[s] \in Rows(agent[s]) THEN UNCHANGED rowVars ELSE Write(s, "draft")
  /\ End(s)
  /\ UNCHANGED <<agentVars, tainted>>

InsertActive(s) ==
  /\ pc[s] = "insertActive"
  /\ IF version[s] \in Rows(agent[s])
       THEN End(s) /\ UNCHANGED rowVars
       ELSE /\ Write(s, "active")
            /\ pc' = [pc EXCEPT ![s] = "archiveOthersNew"]
            /\ UNCHANGED localVars
  /\ UNCHANGED <<agentVars, tainted>>

\* UPDATE ... SET status = 'archived' WHERE id <> ? AND status = 'active'.
Others(s) == Active(agent[s]) \ {version[s]}
ArchiveOthers(s) ==
  /\ Goto(s, "archiveOthersNew", "setPointer") \/ Goto(s, "archiveOthers", "setActive")
  /\ status' = [status EXCEPT ![agent[s]] =
                  [n \in Numbers |-> IF n \in Others(s) THEN "archived" ELSE @[n]]]
  /\ UNCHANGED <<definition, copied, agentVars, localVars, tainted>>

\* The last statement of create_version and of promote_version.  A session
\* that got here alone from its first statement heals the agent.
SetPointer(s) ==
  /\ pc[s] = "setPointer"
  /\ active' = [active EXCEPT ![agent[s]] = version[s]]
  /\ tainted' = IF s \in alone THEN tainted \ {agent[s]} ELSE tainted
  /\ End(s)
  /\ UNCHANGED <<rowVars, exists, born>>

-----------------------------------------------------------------------------
(* promote_version *)

Promote(s, a) ==
  /\ Begin(s, a, "archiveOthers")
  /\ \E n \in Rows(a) : version' = [version EXCEPT ![s] = n]
  /\ UNCHANGED <<rowVars, agentVars, sawActive, clientVars>>

SetActive(s) ==
  /\ Goto(s, "setActive", "setPointer")
  /\ SetStatus(s, "active")
  /\ UNCHANGED <<agentVars, localVars, tainted>>

-----------------------------------------------------------------------------
(* archive_version *)

Archive(s, a) ==
  /\ Begin(s, a, "readAgent")
  /\ \E n \in Rows(a) : version' = [version EXCEPT ![s] = n]
  /\ UNCHANGED <<rowVars, agentVars, sawActive, clientVars>>

\* get_agent: the pointer is read before the first UPDATE ...
ReadAgent(s) ==
  /\ Goto(s, "readAgent", "setArchived")
  /\ sawActive' = [sawActive EXCEPT ![s] = active[agent[s]]]
  /\ UNCHANGED <<rowVars, agentVars, agent, version, clientVars, alone, tainted>>

SetArchived(s) ==
  /\ pc[s] = "setArchived"
  /\ SetStatus(s, "archived")
  /\ IF sawActive[s] = version[s]
       THEN pc' = [pc EXCEPT ![s] = "clearPointer"] /\ UNCHANGED localVars
       ELSE End(s)
  /\ UNCHANGED <<agentVars, tainted>>

\* ... and cleared, whatever it is by now, if it was the target then.
ClearPointer(s) ==
  /\ pc[s] = "clearPointer"
  /\ active' = [active EXCEPT ![agent[s]] = 0]
  /\ End(s)
  /\ UNCHANGED <<rowVars, exists, born, tainted>>

-----------------------------------------------------------------------------
(* get_active_version, and those who act on its answer *)

\* Its first statement reads the pointer; NULL is VersionNotFoundError.
ReadPointer(s, a, to) ==
  /\ active[a] # 0
  /\ Goto(s, "idle", to)
  /\ source' = [source EXCEPT ![s] = [agent |-> a, version |-> active[a]]]
  /\ UNCHANGED <<rowVars, agentVars, agent, version, sawActive, doc, alone, tainted>>

\* trigger_run and cmd_evaluate, when no version is asked for.
ChooseVersion(s, a) == ReadPointer(s, a, "queueRun") /\ UNCHANGED copying

\* create_run with the row's id, which the worker will look up (RunQueue).
QueueRun(s) ==
  /\ pc[s] = "queueRun"
  /\ End(s)
  /\ UNCHANGED <<rowVars, agentVars, tainted>>

\* factory/clone.py: duplicate_agent.
Duplicate(s, a) ==
  /\ ReadPointer(s, a, "readSource")
  /\ ~OutOfRows
  /\ \E b \in Agents, o \in OverrideSet : copying' = [copying EXCEPT ![s] = [target |-> b, overrides |-> o]]

ReadSource(s) ==
  /\ Goto(s, "readSource", "findAgent")
  /\ LET copy == [definition[source[s].agent][source[s].version] EXCEPT ![<<"id">>] = copying[s].target]
     IN  doc' = [doc EXCEPT ![s] = DeepMerge(copy, copying[s].overrides)]
  /\ UNCHANGED <<rowVars, agentVars, agent, version, sawActive, source, copying, alone, tainted>>

\* create_agent's SELECT.
FindAgent(s) ==
  /\ IF copying[s].target \in exists
       THEN pc[s] = "findAgent" /\ End(s) /\ UNCHANGED tainted
       ELSE /\ Enter(s, copying[s].target, "findAgent", "insertAgent")
            /\ UNCHANGED <<version, sawActive, clientVars>>
  /\ UNCHANGED <<rowVars, agentVars>>

-----------------------------------------------------------------------------
\* The session dies, or its next statement raises: what it has committed stays.
\* Past its first UPDATE or INSERT, that is half an operation.
Halfway == {"archiveOthersNew", "setActive", "setPointer", "clearPointer"}
Die(s) ==
  /\ MayDie /\ pc[s] # "idle"
  /\ tainted' = tainted \cup {a \in {agent[s]} : pc[s] \in Halfway}
  /\ End(s)
  /\ UNCHANGED <<rowVars, agentVars>>

Step(s) ==
  \/ \E a \in Agents : \/ CreateAgent(s, a) \/ CreateVersion(s, a)
                      \/ Promote(s, a) \/ Archive(s, a)
                      \/ ChooseVersion(s, a) \/ Duplicate(s, a)
  \/ InsertAgent(s)
  \/ SelectMax(s) \/ InsertDraft(s) \/ InsertActive(s)
  \/ ArchiveOthers(s) \/ SetActive(s) \/ SetPointer(s)
  \/ ReadAgent(s) \/ SetArchived(s) \/ ClearPointer(s)
  \/ QueueRun(s) \/ ReadSource(s) \/ FindAgent(s)
  \/ Die(s)

Next == \E s \in Sessions : Step(s)

Spec == Init /\ [][Next]_vars

-----------------------------------------------------------------------------
(* Properties *)

\* The pointer and the statuses say the same: one active version, or none.
Consistent(a) == Active(a) = (IF active[a] = 0 THEN {} ELSE {active[a]})

\* An agent is consistent whenever nobody is in the middle of an operation on
\* it, unless operations have overlapped or one was cut short: and then the
\* next activation that runs alone puts it right, whatever it finds.
UntaintedAgentsAreConsistent ==
  \A a \in Agents \ tainted : InFlight(a) = {} => Consistent(a)

\* Versions are immutable: whoever races for a version number, a row is never
\* overwritten by another definition, removed, or turned back into a draft.
VersionsAreImmutable ==
  [][\A a \in Agents : \A n \in Rows(a) :
       /\ definition'[a][n] = definition[a][n]
       /\ status'[a][n] # "none"
       /\ status'[a][n] = "draft" => status[a][n] = "draft"]_vars

\* get_active_version does not expect the row it looks for to be missing, and
\* the worker that of a run: at every moment the pointer is NULL or names a
\* version that somebody activated, never a draft, and so does what a client
\* has read from it, however long it waits before it queues a run or copies it.
Released(a, n) == n \in Numbers /\ status[a][n] \in {"active", "archived"}
PointerNeverDangles ==
  /\ \A a \in Agents : active[a] = 0 \/ Released(a, active[a])
  /\ \A s \in Sessions : source[s] = NoSource \/ Released(source[s].agent, source[s].version)

\* duplicate_agent writes into an agent of its own: one that it created, and
\* that no other duplication writes into, whoever wants the same id.
OneCopyPerFreshAgent ==
  \A a \in Agents :
    LET copies == {n \in Rows(a) : copied[a][n] # NotCopied}
    IN  copies # {} => a \in born /\ Cardinality(copies) = 1

\* What the Factory's diff says of a copy and the version it came from: nothing
\* has changed but the id, what the overrides name, and the defaults of an
\* optional submodel that they have put where there was none; and what they
\* name is as they say, read as the types of its fields read it, even if the
\* source has been archived or replaced since.
Touched(diff) == diff.added \cup diff.changed \cup diff.removed
Named(q, asked) == \E p \in DOMAIN asked : Inside(q, p) \/ Inside(p, q)
Brought(q, from, asked) == \E o \in Optional : Inside(q, o) /\ Mentions(asked, o) /\ ~IsDict(from, o)
SaysWhatWasAsked(copy, from, asked) ==
  LET diff == DeepDiff(from, copy)
  IN  /\ \A q \in Touched(diff) : \/ q = <<"id">> \/ Named(q, asked)
                                  \/ q \in diff.added /\ copy[q] = Defaults[q] /\ Brought(q, from, asked)
      /\ \A p \in DOMAIN asked : asked[p] # EmptyDict => copy[p] = Read(p, asked[p])
CopiesSayWhatWasAsked ==
  \A a \in Agents : \A n \in Rows(a) : copied[a][n] # NotCopied =>
    LET from == copied[a][n].source
    IN  SaysWhatWasAsked(definition[a][n], definition[from.agent][from.version], copied[a][n].overrides)

\* repository.py:124 and ARCHITECTURE 16.4: an agent never has two active
\* versions, seen when no operation on it is under way.
OneActiveVersion ==
  \A a \in Agents : InFlight(a) = {} => Cardinality(Active(a)) <= 1
=============================================================================
