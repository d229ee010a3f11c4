----------------------------- MODULE EntityStore -----------------------------
(***************************************************************************)
(* domain.db, the store that outlives agents and runs (domain/entities.py),*)
(* as the runs of several processes write to it through the tool           *)
(* db.upsert (tools/mock/tools.py).  upsert_entity is a SELECT and an      *)
(* INSERT, each committed on its own, and UNIQUE(table_name, natural_key)  *)
(* is what stands between two runs that look before either has written.    *)
(*                                                                         *)
(* A key is a pair of table and natural key; the id of a row is the run    *)
(* that drew it (source_run_id) and which of its calls that was.           *)
(***************************************************************************)
EXTENDS Integers, Sequences, FiniteSets

CONSTANTS Runs,         \* runs being executed, each by a process of its own
          Keys,
          FaultQueues,  \* what an evaluation may have scheduled for db.upsert
          MaxCalls,     \* bound: calls of db.upsert in a run
          MaxDeaths     \* bound: processes that die

ASSUME KeysAssumption == Keys # {}
ASSUME BoundAssumption == {MaxCalls, MaxDeaths} \subseteq Nat
ASSUME QueueAssumption == FaultQueues \subseteq Seq({"timeout", "error", "empty", "duplicate"})

VARIABLES
  rows,     \* domain.db: the id of each key's row, or NoId
  faults,   \* MockWorld.fault_queues["db.upsert.mock"] of each run's world
  pc, key,  \* the statement of upsert_entity a run executes next, and for what
  calls,    \* calls of db.upsert so far
  answers,  \* what the tool has answered to each run
  deaths

vars == <<rows, faults, pc, key, calls, answers, deaths>>

NoId == <<>>
Ids == Runs \X (1..MaxCalls)
Statuses == {"created", "duplicate", "error"}
Alive == {"idle", "select", "insert", "created"}

TypeOK == /\ rows \in [Keys -> Ids \cup {NoId}]
          /\ \A r \in Runs : \E q \in FaultQueues : \E n \in 0..Len(q) :
               faults[r] = SubSeq(q, n + 1, Len(q))
          /\ pc \in [Runs -> Alive \cup {"crashed", "dead"}]
          /\ key \in [Runs -> Keys]
          /\ calls \in [Runs -> 0..MaxCalls]
          /\ \A r \in Runs : answers[r] \subseteq [key : Keys, status : Statuses, id : Ids \cup {NoId}]
          /\ deaths \in 0..MaxDeaths

Init == /\ rows = [k \in Keys |-> NoId]
        /\ faults \in [Runs -> FaultQueues]
        /\ pc = [r \in Runs |-> "idle"]
        /\ key \in [Runs -> {CHOOSE k \in Keys : TRUE}]
        /\ calls = [r \in Runs |-> 0]
        /\ answers = [r \in Runs |-> {}]
        /\ deaths = 0

-----------------------------------------------------------------------------
Id(r) == <<r, calls[r]>>

\* The tool answers about key k, and the run goes on.
Answer(r, k, st, id) ==
  /\ answers' = [answers EXCEPT ![r] = @ \cup {[key |-> k, status |-> st, id |-> id]}]
  /\ pc' = [pc EXCEPT ![r] = "idle"]

\* world.next_fault: the head of the queue, which it takes off.
NextFault(r) == IF faults[r] = <<>> THEN "none" ELSE Head(faults[r])

\* db.upsert is called: a scheduled fault stands for the store, except "empty",
\* which says nothing to this tool.
Call(r) ==
  /\ pc[r] = "idle" /\ calls[r] < MaxCalls
  /\ calls' = [calls EXCEPT ![r] = @ + 1]
  /\ faults' = [faults EXCEPT ![r] = IF @ = <<>> THEN @ ELSE Tail(@)]
  /\ \E k \in Keys :
       /\ key' = [key EXCEPT ![r] = k]
       /\ \/ NextFault(r) \in {"timeout", "error"} /\ Answer(r, k, "error", NoId)
          \/ NextFault(r) = "duplicate" /\ Answer(r, k, "duplicate", NoId)
          \/ /\ NextFault(r) \in {"none", "empty"}
             /\ pc' = [pc EXCEPT ![r] = "select"]
             /\ UNCHANGED answers
  /\ UNCHANGED <<rows, deaths>>

\* A faulty variant, for the mutants of PROJECT.json: the row itself as the
\* answer, which has no status.
SelectTellsRow(r) ==
  /\ pc[r] = "select"
  /\ IF rows[key[r]] # NoId
       THEN Answer(r, key[r], "none", rows[key[r]])
       ELSE pc' = [pc EXCEPT ![r] = "insert"] /\ UNCHANGED answers
  /\ UNCHANGED <<rows, faults, key, calls, deaths>>

\* SELECT id: a row that is there is the answer.
Select(r) ==
  /\ pc[r] = "select"
  /\ IF rows[key[r]] # NoId
       THEN Answer(r, key[r], "duplicate", rows[key[r]])
       ELSE pc' = [pc EXCEPT ![r] = "insert"] /\ UNCHANGED answers
  /\ UNCHANGED <<rows, faults, key, calls, deaths>>

(* Faulty variants of Insert, which the properties must reject: PROJECT.json *)
(* names the pairs.  The specification uses none.                            *)

\* INSERT OR REPLACE.
InsertReplacing(r) ==
  /\ pc[r] = "insert"
  /\ rows' = [rows EXCEPT ![key[r]] = Id(r)]
  /\ pc' = [pc EXCEPT ![r] = "created"]
  /\ UNCHANGED <<faults, key, calls, answers, deaths>>

\* INSERT OR IGNORE, its row count not looked at.
InsertIgnoring(r) ==
  /\ pc[r] = "insert"
  /\ rows' = [rows EXCEPT ![key[r]] = IF @ = NoId THEN Id(r) ELSE @]
  /\ pc' = [pc EXCEPT ![r] = "created"]
  /\ UNCHANGED <<faults, key, calls, answers, deaths>>

\* INSERT: if the key has a row by now, sqlite3.IntegrityError; the broker only
\* expects its own two exceptions, so it is the run that ends, crashed.
Insert(r) ==
  /\ pc[r] = "insert"
  /\ \/ /\ rows[key[r]] = NoId
        /\ rows' = [rows EXCEPT ![key[r]] = Id(r)]
        /\ pc' = [pc EXCEPT ![r] = "created"]
     \/ /\ rows[key[r]] # NoId
        /\ pc' = [pc EXCEPT ![r] = "crashed"]
        /\ UNCHANGED rows
  /\ UNCHANGED <<faults, key, calls, answers, deaths>>

\* The row is committed; the answer reaches the run if its process lives.
Return(r) ==
  /\ pc[r] = "created"
  /\ Answer(r, key[r], "created", Id(r))
  /\ UNCHANGED <<rows, faults, key, calls, deaths>>

\* The process dies: what was inserted stays, whether or not it was answered.
Die(r) ==
  /\ deaths < MaxDeaths /\ pc[r] \in Alive
  /\ deaths' = deaths + 1
  /\ pc' = [pc EXCEPT ![r] = "dead"]
  /\ UNCHANGED <<rows, faults, key, calls, answers>>

Next == \E r \in Runs : Call(r) \/ Select(r) \/ Insert(r) \/ Return(r) \/ Die(r)

Spec == Init /\ [][Next]_vars

-----------------------------------------------------------------------------
(* Properties *)

\* An id that a run has been told stays the id under which that key is stored,
\* whatever other runs write, crash on or die in: an agent may keep it in its
\* state.  (A simulated duplicate has no id.)
AnswersStayTrue ==
  \A r \in Runs : \A a \in answers[r] : a.id # NoId => rows[a.key] = a.id

\* "created" is said of a row once, to the run that drew its id, and of every
\* row, unless the process died between the INSERT and the answer: counted over
\* the runs (signals per run, duplicate_rate) no row is missing or comes twice.
CreatedAnswers(k) ==
  {a \in UNION {answers[r] : r \in Runs} : a.key = k /\ a.status = "created"}
CreatedOnce ==
  \A k \in Keys :
    /\ \A r \in Runs : \A a \in answers[r] \cap CreatedAnswers(k) : a.id = rows[k] /\ a.id[1] = r
    /\ rows[k] # NoId => \/ \E a \in CreatedAnswers(k) : a.id = rows[k]
                         \/ pc[rows[k][1]] \in {"created", "dead"}

\* domain/entities.py:61: an upsert of a key that exists is answered, with
\* status=duplicate; it is not the end of the run.
ExistingKeysAreDuplicates == \A r \in Runs : pc[r] # "crashed"
==============================================================================
