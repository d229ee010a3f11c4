-------------------------- MODULE EntityStoreProofs --------------------------
(***************************************************************************)
(* What a run has been told about the entity store stays true, and every   *)
(* row was announced once, for any number of runs, keys, calls and deaths. *)
(* The inductive invariant adds to the two properties only that a row's id *)
(* names a run, that a run about to be told "created" owns the row of its  *)
(* key, and that pc and answers have their types.                          *)
(***************************************************************************)
EXTENDS EntityStore, SequenceTheorems, TLAPS

Typed ==
  /\ rows \in [Keys -> Ids \cup {NoId}]
  /\ pc \in [Runs -> Alive \cup {"crashed", "dead"}]
  /\ key \in [Runs -> Keys]
  /\ calls \in [Runs -> 0..MaxCalls]
  /\ answers \in [Runs -> SUBSET [key : Keys, status : Statuses, id : Ids \cup {NoId}]]

\* A run in the middle of upsert_entity has begun at least one call, and one
\* whose INSERT was accepted owns the row of its key.
Midway ==
  \A r \in Runs :
    /\ pc[r] \in {"select", "insert", "created"} => calls[r] \in 1..MaxCalls
    /\ pc[r] = "created" => rows[key[r]] = Id(r)

\* A row belongs to a run that was told so, is about to be, or died.
Announced ==
  \A k \in Keys : rows[k] # NoId =>
    \/ \E r \in Runs : \E a \in answers[r] : a.key = k /\ a.status = "created" /\ a.id = rows[k]
    \/ pc[rows[k][1]] = "dead"
    \/ pc[rows[k][1]] = "created" /\ key[rows[k][1]] = k

\* "created" comes with an id of one's own, the one that is stored.
OwnIds ==
  \A r \in Runs : \A a \in answers[r] : 
    a.status = "created" => a.id # NoId /\ a.id = rows[a.key] /\ a.id[1] = r

IInv == Typed /\ AnswersStayTrue /\ Midway /\ Announced /\ OwnIds

-----------------------------------------------------------------------------
LEMMA IdsAreIds == ASSUME NEW x \in Ids PROVE x # NoId /\ x[1] \in Runs
  BY DEF Ids, NoId

LEMMA InitIInv == Init => IInv
<1> SUFFICES ASSUME Init PROVE IInv OBVIOUS
<1>1. Typed
  <2>1. (CHOOSE k \in Keys : TRUE) \in Keys
    BY KeysAssumption
  <2> QED BY <2>1, BoundAssumption DEF Init, Typed, Alive
<1>2. AnswersStayTrue /\ OwnIds
  BY DEF Init, AnswersStayTrue, OwnIds
<1>3. Midway /\ Announced
  BY DEF Init, Midway, Announced
<1> QED BY <1>1, <1>2, <1>3 DEF IInv

-----------------------------------------------------------------------------
\* A step that leaves the store alone and adds to r's answers at most one that
\* is true keeps every answer true.
LEMMA TrueAnswerKeeps ==
  ASSUME IInv, NEW r \in Runs, NEW k \in Keys,
         NEW st \in Statuses, NEW id \in Ids \cup {NoId},
         rows' = rows, Answer(r, k, st, id),
         id = NoId \/ id = rows[k],
         st = "created" => id = rows[k] /\ id[1] = r /\ id # NoId
  PROVE  /\ answers' \in [Runs -> SUBSET [key : Keys, status : Statuses, id : Ids \cup {NoId}]]
         /\ AnswersStayTrue' /\ OwnIds'
         /\ \A q \in Runs : answers[q] \subseteq answers'[q]
<1> DEFINE a0 == [key |-> k, status |-> st, id |-> id]
<1>1. a0 \in [key : Keys, status : Statuses, id : Ids \cup {NoId}]
  OBVIOUS
<1>2. answers' = [answers EXCEPT ![r] = @ \cup {a0}]
  BY DEF Answer
<1>3. answers \in [Runs -> SUBSET [key : Keys, status : Statuses, id : Ids \cup {NoId}]]
  BY DEF IInv, Typed
<1>4. \A q \in Runs : \A a \in answers'[q] : a \in answers[q] \/ (q = r /\ a = a0)
  BY <1>2, <1>3
<1>5. a0.key = k /\ a0.status = st /\ a0.id = id
  OBVIOUS
<1>6. answers' \in [Runs -> SUBSET [key : Keys, status : Statuses, id : Ids \cup {NoId}]]
  BY <1>1, <1>2, <1>3
<1>7. \A q \in Runs : answers[q] \subseteq answers'[q]
  BY <1>2, <1>3
<1> HIDE DEF a0
<1>8. AnswersStayTrue'
  BY <1>4, <1>5 DEF IInv, AnswersStayTrue
<1>9. OwnIds'
  BY <1>4, <1>5 DEF IInv, OwnIds
<1> QED BY <1>6, <1>7, <1>8, <1>9

\* Rows stay announced when the store is unchanged, answers only grow, and no
\* run that a row waits for changes its place other than by dying.
LEMMA AnnouncedKeeps ==
  ASSUME IInv, NEW r \in Runs, rows' = rows,
         \A q \in Runs : answers[q] \subseteq answers'[q],
         \A q \in Runs \ {r} : pc'[q] = pc[q] /\ key'[q] = key[q],
         pc[r] \in {"created", "dead"} => pc'[r] = "dead"
  PROVE  Announced'
<1> SUFFICES ASSUME NEW k \in Keys, rows[k] # NoId
             PROVE  \/ \E q \in Runs : \E a \in answers'[q] :
                         a.key = k /\ a.status = "created" /\ a.id = rows[k]
                    \/ pc'[rows[k][1]] = "dead"
                    \/ pc'[rows[k][1]] = "created" /\ key'[rows[k][1]] = k
  BY DEF Announced
<1>1. rows[k] \in Ids
  BY DEF IInv, Typed
<1>2. rows[k][1] \in Runs
  BY <1>1, IdsAreIds
<1> QED BY <1>2 DEF IInv, Announced

LEMMA StepIInv == IInv /\ [Next]_vars => IInv'
<1> SUFFICES ASSUME IInv, [Next]_vars PROVE IInv' OBVIOUS
<1> USE DEF IInv
<1>1. ASSUME NEW r \in Runs, Call(r) PROVE IInv'
  <2> PICK k \in Keys :
        /\ key' = [key EXCEPT ![r] = k]
        /\ \/ NextFault(r) \in {"timeout", "error"} /\ Answer(r, k, "error", NoId)
           \/ NextFault(r) = "duplicate" /\ Answer(r, k, "duplicate", NoId)
           \/ /\ NextFault(r) \in {"none", "empty"}
              /\ pc' = [pc EXCEPT ![r] = "select"]
              /\ UNCHANGED answers
    BY <1>1 DEF Call
  <2>1. /\ pc[r] = "idle" /\ calls[r] < MaxCalls /\ rows' = rows
        /\ calls' = [calls EXCEPT ![r] = @ + 1]
    BY <1>1 DEF Call
  <2>2. calls' \in [Runs -> 0..MaxCalls] /\ calls'[r] \in 1..MaxCalls
    BY <2>1, BoundAssumption DEF Typed
  <2>3. \/ pc' = [pc EXCEPT ![r] = "idle"]
        \/ pc' = [pc EXCEPT ![r] = "select"]
    BY DEF Answer
  <2>4. /\ answers' \in [Runs -> SUBSET [key : Keys, status : Statuses, id : Ids \cup {NoId}]]
        /\ AnswersStayTrue' /\ OwnIds'
        /\ \A q \in Runs : answers[q] \subseteq answers'[q]
    <3>1. CASE Answer(r, k, "error", NoId)
      BY <3>1, <2>1, TrueAnswerKeeps DEF Statuses
    <3>2. CASE Answer(r, k, "duplicate", NoId)
      BY <3>2, <2>1, TrueAnswerKeeps DEF Statuses
    <3>3. CASE UNCHANGED answers
      BY <3>3, <2>1 DEF Typed, AnswersStayTrue, OwnIds
    <3> QED BY <3>1, <3>2, <3>3
  <2>5. Typed'
    BY <2>1, <2>2, <2>3, <2>4 DEF Typed, Alive
  <2>6. Midway'
    BY <2>1, <2>2, <2>3 DEF Typed, Midway, Id
  <2>7. Announced'
    BY <2>1, <2>3, <2>4, AnnouncedKeeps DEF Typed
  <2> QED BY <2>4, <2>5, <2>6, <2>7
<1>2. ASSUME NEW r \in Runs, Select(r) PROVE IInv'
  <2>1. pc[r] = "select" /\ rows' = rows /\ key' = key /\ calls' = calls
    BY <1>2 DEF Select
  <2>2. CASE rows[key[r]] # NoId
    <3>1. Answer(r, key[r], "duplicate", rows[key[r]])
      BY <1>2, <2>2 DEF Select
    <3>2. /\ answers' \in [Runs -> SUBSET [key : Keys, status : Statuses, id : Ids \cup {NoId}]]
          /\ AnswersStayTrue' /\ OwnIds'
          /\ \A q \in Runs : answers[q] \subseteq answers'[q]
      <4>1. key[r] \in Keys /\ rows[key[r]] \in Ids \cup {NoId}
        BY DEF Typed
      <4> QED BY <4>1, <3>1, <2>1, TrueAnswerKeeps DEF Statuses
    <3>3. pc' = [pc EXCEPT ![r] = "idle"]
      BY <3>1 DEF Answer
    <3>4. Typed' /\ Midway'
      BY <2>1, <3>2, <3>3 DEF Typed, Midway, Alive, Id
    <3>5. Announced'
      BY <2>1, <3>2, <3>3, AnnouncedKeeps DEF Typed
    <3> QED BY <3>2, <3>4, <3>5
  <2>3. CASE rows[key[r]] = NoId
    <3>1. pc' = [pc EXCEPT ![r] = "insert"] /\ answers' = answers
      BY <1>2, <2>3 DEF Select
    <3>2. Typed' /\ Midway' /\ AnswersStayTrue' /\ OwnIds'
      BY <2>1, <3>1 DEF Typed, Midway, Alive, Id, AnswersStayTrue, OwnIds
    <3>3. Announced'
      BY <2>1, <3>1, AnnouncedKeeps DEF Typed
    <3> QED BY <3>2, <3>3
  <2> QED BY <2>2, <2>3
<1>3. ASSUME NEW r \in Runs, Insert(r) PROVE IInv'
  <2>1. /\ pc[r] = "insert" /\ key' = key /\ calls' = calls /\ answers' = answers
        /\ key[r] \in Keys
    BY <1>3 DEF Insert, Typed
  <2>2. CASE rows[key[r]] = NoId
    <3>1. rows' = [rows EXCEPT ![key[r]] = Id(r)] /\ pc' = [pc EXCEPT ![r] = "created"]
      BY <1>3, <2>2 DEF Insert
    <3>2. Id(r) \in Ids /\ Id(r)[1] = r /\ Id(r) # NoId
      BY <2>1 DEF Midway, Typed, Id, Ids, NoId
    <3>3. /\ rows'[key[r]] = Id(r)
          /\ \A k \in Keys : rows[k] # NoId => rows'[k] = rows[k] /\ k # key[r]
          /\ \A k \in Keys \ {key[r]} : rows'[k] = rows[k]
      BY <2>1, <2>2, <3>1 DEF Typed
    <3>4. Typed'
      BY <2>1, <3>1, <3>2 DEF Typed, Alive
    <3>5. \A q \in Runs : \A a \in answers[q] : a.key \in Keys
      BY DEF Typed
    <3>6. AnswersStayTrue'
      BY <2>1, <3>3, <3>5 DEF AnswersStayTrue
    <3>7. OwnIds'
      <4> SUFFICES ASSUME NEW q \in Runs, NEW a \in answers[q], a.status = "created"
                   PROVE  a.id = rows'[a.key] /\ a.id[1] = q
        BY <2>1 DEF OwnIds
      <4>1. a.id = rows[a.key] /\ a.id[1] = q
        BY DEF OwnIds
      <4>2. a.key # key[r]
        BY <2>2, <4>1 DEF OwnIds
      <4> QED BY <4>1, <4>2, <3>3, <3>5
    <3>8. Midway'
      <4>1. \A q \in Runs : Id(q) # NoId /\ Id(q)' = Id(q)
        BY <2>1 DEF Id, NoId
      <4>2. \A q \in Runs \ {r} : pc'[q] = pc[q]
        BY <3>1 DEF Typed
      <4>3. pc[r] = "insert" => calls[r] \in 1..MaxCalls
        BY DEF Midway
      <4>4. \A q \in Runs : key[q] \in Keys
        BY DEF Typed
      <4> HIDE DEF IInv
      <4>5. Midway
        BY DEF IInv
      <4> QED BY <2>1, <3>3, <4>1, <4>2, <4>3, <4>4, <4>5 DEF Midway
    <3>9. Announced'
      <4> SUFFICES ASSUME NEW k \in Keys, rows'[k] # NoId
                   PROVE  \/ \E q \in Runs : \E a \in answers[q] :
                               a.key = k /\ a.status = "created" /\ a.id = rows'[k]
                          \/ pc'[rows'[k][1]] = "dead"
                          \/ pc'[rows'[k][1]] = "created" /\ key[rows'[k][1]] = k
        BY <2>1 DEF Announced
      <4>1. CASE k = key[r]
        BY <4>1, <3>1, <3>2, <3>3 DEF Typed
      <4>2. CASE k # key[r]
        <5>1. rows'[k] = rows[k] /\ rows[k] \in Ids
          BY <4>2, <3>3 DEF Typed
        <5>2. rows[k][1] \in Runs
          BY <5>1, IdsAreIds
        <5> QED BY <5>1, <5>2, <2>1, <3>1 DEF Announced, Typed
      <4> QED BY <4>1, <4>2
    <3> QED BY <3>4, <3>6, <3>7, <3>8, <3>9
  <2>3. CASE rows[key[r]] # NoId
    <3>1. rows' = rows /\ pc' = [pc EXCEPT ![r] = "crashed"]
      BY <1>3, <2>3 DEF Insert
    <3>2. Typed' /\ Midway' /\ AnswersStayTrue' /\ OwnIds'
      BY <2>1, <3>1 DEF Typed, Midway, Alive, Id, AnswersStayTrue, OwnIds
    <3>3. Announced'
      BY <2>1, <3>1, AnnouncedKeeps DEF Typed
    <3> QED BY <3>2, <3>3
  <2> QED BY <1>3, <2>2, <2>3 DEF Insert
<1>4. ASSUME NEW r \in Runs, Return(r) PROVE IInv'
  <2>1. /\ pc[r] = "created" /\ rows' = rows /\ key' = key /\ calls' = calls
        /\ Answer(r, key[r], "created", Id(r)) /\ key[r] \in Keys
    BY <1>4 DEF Return, Typed
  <2>2. Id(r) \in Ids /\ Id(r)[1] = r /\ Id(r) # NoId /\ rows[key[r]] = Id(r)
    BY <2>1 DEF Midway, Typed, Id, Ids, NoId
  <2>3. /\ answers' \in [Runs -> SUBSET [key : Keys, status : Statuses, id : Ids \cup {NoId}]]
        /\ AnswersStayTrue' /\ OwnIds'
        /\ \A q \in Runs : answers[q] \subseteq answers'[q]
    <3> HIDE DEF IInv
    <3> QED BY <2>1, <2>2, TrueAnswerKeeps DEF Statuses
  <2>4. pc' = [pc EXCEPT ![r] = "idle"]
    BY <2>1 DEF Answer
  <2>5. Typed' /\ Midway'
    BY <2>1, <2>3, <2>4 DEF Typed, Midway, Alive, Id
  <2>6. \E a \in answers'[r] : a.key = key[r] /\ a.status = "created" /\ a.id = rows[key[r]]
    <3>1. [key |-> key[r], status |-> "created", id |-> Id(r)] \in answers'[r]
      BY <2>1 DEF Answer, Typed
    <3> QED BY <3>1, <2>2
  <2>7. Announced'
    <3> SUFFICES ASSUME NEW k \in Keys, rows[k] # NoId
                 PROVE  \/ \E q \in Runs : \E a \in answers'[q] :
                             a.key = k /\ a.status = "created" /\ a.id = rows[k]
                        \/ pc'[rows[k][1]] = "dead"
                        \/ pc'[rows[k][1]] = "created" /\ key[rows[k][1]] = k
      BY <2>1 DEF Announced
    <3>1. rows[k] \in Ids
      BY DEF Typed
    <3>2. rows[k][1] \in Runs
      BY <3>1, IdsAreIds
    <3>3. CASE k = key[r]
      BY <3>3, <2>6
    <3>4. CASE k # key[r]
      BY <3>2, <3>4, <2>1, <2>3, <2>4 DEF Announced, Typed
    <3> QED BY <3>3, <3>4
  <2> QED BY <2>3, <2>5, <2>7
<1>5. ASSUME NEW r \in Runs, Die(r) PROVE IInv'
  <2>1. /\ pc' = [pc EXCEPT ![r] = "dead"]
        /\ rows' = rows /\ key' = key /\ calls' = calls /\ answers' = answers
    BY <1>5 DEF Die
  <2>2. Typed' /\ Midway' /\ AnswersStayTrue' /\ OwnIds'
    BY <2>1 DEF Typed, Midway, Id, AnswersStayTrue, OwnIds
  <2>3. Announced'
    BY <2>1, AnnouncedKeeps DEF Typed
  <2> QED BY <2>2, <2>3
<1>6. CASE UNCHANGED vars
  BY <1>6 DEF vars, Typed, Midway, Id, AnswersStayTrue, OwnIds, Announced
<1> QED BY <1>1, <1>2, <1>3, <1>4, <1>5, <1>6 DEF Next

\* The store and what has been said of it keep to IInv for ever.
LEMMA IInvAlways == Spec => []IInv
  BY InitIInv, StepIInv, PTL DEF Spec

-----------------------------------------------------------------------------
\* An id that a run has been told stays the id under which its key is stored,
\* for any number of processes that race, crash or die.
THEOREM ToldIdsStayTrue == Spec => []AnswersStayTrue
<1>1. IInv => AnswersStayTrue
  BY DEF IInv
<1> QED BY <1>1, IInvAlways, PTL

\* Every row is announced to the run that drew its id, and to nobody else.
THEOREM RowsAreAnnouncedOnce == Spec => []CreatedOnce
<1>1. IInv => CreatedOnce
  <2> SUFFICES ASSUME IInv, NEW k \in Keys
               PROVE  /\ \A r \in Runs : \A a \in answers[r] \cap CreatedAnswers(k) :
                           a.id = rows[k] /\ a.id[1] = r
                      /\ rows[k] # NoId => \/ \E a \in CreatedAnswers(k) : a.id = rows[k]
                                           \/ pc[rows[k][1]] \in {"created", "dead"}
    BY DEF CreatedOnce
  <2>1. \A r \in Runs : \A a \in answers[r] \cap CreatedAnswers(k) :
          a.id = rows[k] /\ a.id[1] = r
    BY DEF IInv, OwnIds, CreatedAnswers
  <2>2. ASSUME NEW r \in Runs, NEW a \in answers[r], a.key = k, a.status = "created"
        PROVE  a \in CreatedAnswers(k)
    BY <2>2 DEF CreatedAnswers
  <2>3. rows[k] # NoId => \/ \E a \in CreatedAnswers(k) : a.id = rows[k]
                         \/ pc[rows[k][1]] \in {"created", "dead"}
    BY <2>2 DEF IInv, Announced
  <2> QED BY <2>1, <2>3
<1> QED BY <1>1, IInvAlways, PTL

-----------------------------------------------------------------------------
(* The types, the worlds' fault queues and the count of deaths included *)

FaultKinds == {"timeout", "error", "empty", "duplicate"}

\* What is left of a queue is the end of one that was scheduled.
LeftOf(r) == \E q \in FaultQueues : \E n \in 0..Len(q) : faults[r] = SubSeq(q, n + 1, Len(q))
FaultsTyped == /\ deaths \in 0..MaxDeaths
               /\ faults \in [Runs -> Seq(FaultKinds)]
               /\ \A r \in Runs : LeftOf(r)

LEMMA InitFaults == Init => FaultsTyped
<1> SUFFICES ASSUME Init PROVE FaultsTyped
  OBVIOUS
<1>1. FaultQueues \subseteq Seq(FaultKinds)
  BY QueueAssumption DEF FaultKinds
<1>2. deaths \in 0..MaxDeaths /\ faults \in [Runs -> Seq(FaultKinds)]
  BY <1>1, BoundAssumption DEF Init
<1>3. ASSUME NEW r \in Runs PROVE LeftOf(r)
  <2>1. faults[r] \in FaultQueues /\ faults[r] \in Seq(FaultKinds)
    BY <1>1 DEF Init
  <2>2. faults[r] = SubSeq(faults[r], 0 + 1, Len(faults[r])) /\ 0 \in 0..Len(faults[r])
    BY <2>1, SubSeqFull
  <2> QED BY <2>1, <2>2 DEF LeftOf
<1> QED BY <1>2, <1>3 DEF FaultsTyped

\* next_fault takes the head off a queue, and puts nothing on it.
LEMMA TailIsLeft ==
  ASSUME FaultsTyped, NEW r \in Runs, faults[r] # <<>>
  PROVE  /\ Tail(faults[r]) \in Seq(FaultKinds)
         /\ \E q \in FaultQueues : \E n \in 0..Len(q) : Tail(faults[r]) = SubSeq(q, n + 1, Len(q))
<1>1. PICK q \in FaultQueues : \E n \in 0..Len(q) : faults[r] = SubSeq(q, n + 1, Len(q))
  BY DEF FaultsTyped, LeftOf
<1>2. q \in Seq(FaultKinds) /\ Len(q) \in Nat
  BY QueueAssumption DEF FaultKinds
<1>3. PICK n \in 0..Len(q) : faults[r] = SubSeq(q, n + 1, Len(q))
  BY <1>1
<1>4. n < Len(q)
  BY <1>2, <1>3, SubSeqEmpty
<1>5. Tail(faults[r]) = SubSeq(q, (n + 1) + 1, Len(q))
  BY <1>2, <1>3, <1>4, HeadTailOfSubSeq
<1>6. n + 1 \in 0..Len(q) /\ Tail(faults[r]) \in Seq(FaultKinds)
  BY <1>2, <1>4 DEF FaultsTyped
<1> QED BY <1>5, <1>6

LEMMA StepFaults == FaultsTyped /\ [Next]_vars => FaultsTyped'
<1> SUFFICES ASSUME FaultsTyped, [Next]_vars PROVE FaultsTyped'
  OBVIOUS
<1>1. ASSUME NEW r \in Runs, Call(r) PROVE FaultsTyped'
  <2>1. deaths' = deaths /\ faults' = [faults EXCEPT ![r] = IF faults[r] = <<>> THEN faults[r] ELSE Tail(faults[r])]
    BY <1>1 DEF Call
  <2>2. CASE faults[r] = <<>>
    BY <2>1, <2>2 DEF FaultsTyped, LeftOf
  <2>3. CASE faults[r] # <<>>
    BY <2>1, <2>3, TailIsLeft DEF FaultsTyped, LeftOf
  <2> QED BY <2>2, <2>3
<1>2. ASSUME NEW r \in Runs, Die(r) PROVE FaultsTyped'
  BY <1>2, BoundAssumption DEF Die, FaultsTyped, LeftOf
<1>3. CASE UNCHANGED <<faults, deaths>>
  BY <1>3 DEF FaultsTyped, LeftOf
<1> QED BY <1>1, <1>2, <1>3 DEF Next, Select, Insert, Return, vars

\* Types of the store, of the worlds and of what the runs have been told.
THEOREM StoreTyped == Spec => []TypeOK
<1>1. Typed /\ FaultsTyped => TypeOK
  BY DEF Typed, FaultsTyped, LeftOf, TypeOK
<1>2. IInv => Typed
  BY DEF IInv
<1>3. Spec => []FaultsTyped
  BY InitFaults, StepFaults, PTL DEF Spec
<1> QED BY <1>1, <1>2, <1>3, IInvAlways, PTL
=============================================================================
