------------------------- MODULE ModelRouterProofs -------------------------
(***************************************************************************)
(* What ModelRouter promises of a request, for every configuration, every  *)
(* script and any number of requests: types, ChainInOrder,                 *)
(* LastResortAnswers and EveryStepOnce; and that every request is finite.  *)
(***************************************************************************)
EXTENDS ModelRouter, TLAPS

\* While a request goes down its chain, it has refused just what it has passed.
Midway ==
  pc # "idle" =>
    /\ at \in 1..Len(chain) /\ refused = 1..(at - 1)
    /\ onUnavailable # "next_in_chain" => at = 1
    /\ ended = NotEnded

\* Nobody is found unavailable that always answers.
RefusedCannot ==
  \A i \in refused : chain[i] \in Scripted \/ kind[chain[i]] # "mock"

\* A chain that is exhausted has been refused from end to end.
Exhausted == ended.how = "exhausted" => refused = 1..Len(chain)

IInv == TypeOK /\ Midway /\ RefusedCannot /\ Exhausted /\ ChainInOrder

\* The except clause of complete(), wherever the exception comes from.
LEMMA UnavailableKeeps ==
  ASSUME IInv, Unavailable, pc # "idle",
         UNCHANGED <<config, chain>>,
         chain[at] \in Scripted \/ kind[chain[at]] # "mock",
         instances' \subseteq Names, script' \in [Scripted -> Seq(ScriptSteps)],
         handed' \in [Scripted -> Seq(ScriptSteps)], requests' \in 0..MaxRequests
  PROVE  IInv'
<1>1. at \in 1..Len(chain) /\ Len(chain) \in Nat /\ at \in Nat /\ refused = 1..(at - 1)
  BY DEF IInv, TypeOK, Midway
<1>2. refused' = 1..at /\ refused' = refused \cup {at} /\ chain' = chain
  BY <1>1 DEF Unavailable
<1>3. ended' \in [how : Endings, at : Nat] /\ at' \in Nat /\ pc' \in {"idle", "get", "ask"}
  BY <1>1 DEF Unavailable, End, GoOn, IInv, TypeOK, Endings
<1>4. TypeOK'
  BY <1>1, <1>2, <1>3 DEF IInv, TypeOK, config
<1>5. Midway'
  BY <1>1, <1>2 DEF IInv, Midway, NotEnded, Unavailable, End, GoOn, config
<1>6. RefusedCannot'
  BY <1>2 DEF IInv, RefusedCannot, config
<1>7. Exhausted'
  BY <1>1, <1>2 DEF IInv, Midway, NotEnded, Exhausted, Unavailable, End, GoOn
<1>8. ChainInOrder'
  BY <1>1, <1>2 DEF IInv, Midway, NotEnded, ChainInOrder, Unavailable, End, GoOn, config
<1> QED
  BY <1>4, <1>5, <1>6, <1>7, <1>8 DEF IInv

\* A provider's result or exception, which leaves complete().
LEMMA EndKeeps ==
  ASSUME IInv, NEW how \in {"answer", "exception"}, End(how), pc # "idle",
         UNCHANGED <<config, chain, refused>>,
         instances' \subseteq Names, script' \in [Scripted -> Seq(ScriptSteps)],
         handed' \in [Scripted -> Seq(ScriptSteps)], requests' \in 0..MaxRequests
  PROVE  IInv'
<1> USE DEF IInv, config, End
<1>1. at \in 1..Len(chain) /\ at \in Nat /\ refused = 1..(at - 1) /\ at' = at
  BY DEF Midway, TypeOK
<1>2. ended' = [how |-> how, at |-> at] /\ pc' = "idle"
  OBVIOUS
<1>3. TypeOK'
  BY <1>1, <1>2 DEF TypeOK, Endings
<1>4. Midway' /\ RefusedCannot' /\ Exhausted' /\ ChainInOrder'
  BY <1>1, <1>2 DEF Midway, RefusedCannot, Exhausted, ChainInOrder
<1> QED
  BY <1>3, <1>4

LEMMA InitEstablishes == Init => IInv
BY ConfigAssumption
DEF Init, IInv, TypeOK, Midway, RefusedCannot, Exhausted, ChainInOrder, NotEnded, Endings

LEMMA RequestKeeps ==
  ASSUME IInv, NEW c \in Capabilities, Request(c)
  PROVE  IInv'
<1> USE DEF IInv, Request, config, objects
<1>1. routing[c] \in Seq(Names) /\ Len(routing[c]) \in Nat
  BY ConfigAssumption DEF TypeOK
<1>2. routing[c] # <<>> => Len(routing[c]) >= 1
  BY <1>1
<1>3. routing[c] = <<>> => Len(routing[c]) = 0
  BY <1>1
<1>4. TypeOK'
  BY <1>1, <1>2, ConfigAssumption DEF TypeOK, NotEnded, Endings
<1>5. Midway'
  BY <1>1, <1>2 DEF Midway, NotEnded, TypeOK
<1>6. RefusedCannot' /\ Exhausted' /\ ChainInOrder'
  BY <1>1, <1>3 DEF RefusedCannot, Exhausted, ChainInOrder, NotEnded
<1> QED
  BY <1>4, <1>5, <1>6

LEMMA GetKeeps == IInv /\ Get => IInv'
<1> SUFFICES ASSUME IInv, Get PROVE IInv'
  OBVIOUS
<1>1. CASE instances' = instances \cup {chain[at]} /\ pc' = "ask"
            /\ UNCHANGED <<at, ended, refused>>
  <2>1. at \in 1..Len(chain) /\ chain[at] \in Names
    BY DEF IInv, Midway, Get, TypeOK
  <2> QED
    BY <1>1, <2>1
    DEF Get, IInv, TypeOK, Midway, RefusedCannot, Exhausted, ChainInOrder, config
<1>2. CASE Unavailable /\ UNCHANGED instances /\ kind[chain[at]] \notin {"mock", "api"}
  BY <1>2, UnavailableKeeps DEF Get, IInv, TypeOK, config
<1>3. CASE pc' = "ask" /\ UNCHANGED <<instances, at, ended, refused>>
  BY <1>3 DEF Get, IInv, TypeOK, Midway, RefusedCannot, Exhausted, ChainInOrder, config
<1> QED
  BY <1>1, <1>2, <1>3 DEF Get

LEMMA AskKeeps == IInv /\ (AskEndpoint \/ AskEcho) => IInv'
<1> SUFFICES ASSUME IInv, AskEndpoint \/ AskEcho PROVE IInv'
  OBVIOUS
<1>1. /\ pc # "idle" /\ UNCHANGED <<config, chain>>
      /\ instances' \subseteq Names /\ script' \in [Scripted -> Seq(ScriptSteps)]
      /\ handed' \in [Scripted -> Seq(ScriptSteps)] /\ requests' \in 0..MaxRequests
  BY DEF AskEndpoint, AskEcho, IInv, TypeOK, objects
<1>2. CASE Unavailable
  <2>1. kind[chain[at]] # "mock"
    BY <1>2 DEF AskEndpoint, AskEcho, Unavailable, End, GoOn, IInv, TypeOK
  <2> QED
    BY <1>1, <1>2, <2>1, UnavailableKeeps
<1>3. CASE \E how \in {"answer", "exception"} : End(how) /\ UNCHANGED refused
  <2>1. PICK how \in {"answer", "exception"} : End(how) /\ UNCHANGED refused
    BY <1>3
  <2> QED
    BY <1>1, <2>1, EndKeeps
<1> QED
  BY <1>2, <1>3 DEF AskEndpoint, AskEcho

\* A step leaves its script and joins the steps handed out.
LEMMA ScriptMoves ==
  ASSUME NEW s \in Seq(ScriptSteps), NEW h \in Seq(ScriptSteps), s # <<>>
  PROVE  /\ Head(s) \in ScriptSteps /\ Tail(s) \in Seq(ScriptSteps)
         /\ Append(h, Head(s)) \in Seq(ScriptSteps)
         /\ Append(h, Head(s)) \o Tail(s) = h \o s
<1>1. Head(s) \in ScriptSteps /\ Tail(s) \in Seq(ScriptSteps)
  OBVIOUS
<1>2. Append(h, Head(s)) \in Seq(ScriptSteps)
  BY <1>1
<1> QED
  BY <1>1, <1>2

LEMMA ScriptedKeeps == IInv /\ AskScripted => IInv'
<1> SUFFICES ASSUME IInv, AskScripted PROVE IInv'
  OBVIOUS
<1> DEFINE n == chain[at]
<1>1. /\ pc # "idle" /\ UNCHANGED <<config, chain>> /\ n \in Scripted
      /\ instances' \subseteq Names /\ requests' \in 0..MaxRequests
      /\ script[n] \in Seq(ScriptSteps) /\ handed[n] \in Seq(ScriptSteps)
  BY DEF AskScripted, IInv, TypeOK
<1>2. CASE script[n] = <<>>
  BY <1>1, <1>2, EndKeeps DEF AskScripted, IInv, TypeOK
<1>3. CASE script[n] # <<>>
  <2>1. /\ script' \in [Scripted -> Seq(ScriptSteps)]
        /\ handed' \in [Scripted -> Seq(ScriptSteps)]
        /\ Head(script[n]) \in ScriptSteps
    <3> HIDE DEF n
    <3> /\ script' = [script EXCEPT ![n] = Tail(@)]
        /\ handed' = [handed EXCEPT ![n] = Append(@, Head(script[n]))]
      BY <1>3 DEF AskScripted, ScriptRest, n
    <3> QED
      BY <1>1, <1>3, ScriptMoves DEF IInv, TypeOK
  <2>2. CASE Head(script[n]) = "unavailable"
    BY <1>1, <1>3, <2>1, <2>2, UnavailableKeeps DEF AskScripted
  <2>3. CASE Head(script[n]) # "unavailable"
    BY <1>1, <1>3, <2>1, <2>3, EndKeeps DEF AskScripted, ScriptSteps
  <2> QED
    BY <2>2, <2>3
<1> QED
  BY <1>2, <1>3

LEMMA NextKeeps == IInv /\ [Next]_vars => IInv'
<1> SUFFICES ASSUME IInv, [Next]_vars PROVE IInv'
  OBVIOUS
<1>1. ASSUME NEW c \in Capabilities, Request(c) PROVE IInv'
  BY <1>1, RequestKeeps
<1>2. CASE Get
  BY <1>2, GetKeeps
<1>3. CASE AskEndpoint \/ AskEcho
  BY <1>3, AskKeeps
<1>4. CASE AskScripted
  BY <1>4, ScriptedKeeps
<1>5. CASE UNCHANGED vars
  BY <1>5 DEF vars, config, objects, history, IInv, TypeOK, Midway, RefusedCannot,
              Exhausted, ChainInOrder
<1> QED
  BY <1>1, <1>2, <1>3, <1>4, <1>5 DEF Next

\* The variables keep their types, and every request goes down its chain in
\* order: complete() skips nobody and asks nobody below the one that answers.
THEOREM RequestsGoInOrder == Spec => [](TypeOK /\ ChainInOrder)
<1>1. IInv => TypeOK /\ ChainInOrder
  BY DEF IInv
<1> QED
  BY <1>1, InitEstablishes, NextKeeps, PTL DEF Spec

\* The types alone.
THEOREM RequestsTyped == Spec => []TypeOK
  BY RequestsGoInOrder, PTL

\* A chain that degrades and has an unscripted mock in it is never exhausted,
\* for any configuration and whatever the endpoints do.
THEOREM LastResortNeverFails == Spec => []LastResortAnswers
<1>1. IInv => LastResortAnswers
  <2> SUFFICES ASSUME IInv, LastResort, onUnavailable = "next_in_chain"
               PROVE  ended.how \notin {"exhausted", "unavailable"}
    BY DEF LastResortAnswers
  <2>1. PICK i \in 1..Len(chain) : chain[i] \notin Scripted /\ kind[chain[i]] = "mock"
    BY DEF LastResort
  <2>2. i \notin refused
    BY <2>1 DEF IInv, RefusedCannot
  <2> QED
    BY <2>1, <2>2 DEF IInv, Exhausted, ChainInOrder
<1> QED
  BY <1>1, InitEstablishes, NextKeeps, PTL DEF Spec

\* No script gives a step twice or passes one over, for every script.
THEOREM ScriptsAreFollowed == Spec => EveryStepOnce
<1> DEFINE Kept == \A n \in Scripted : handed'[n] \o script'[n] = handed[n] \o script[n]
<1>1. IInv /\ [Next]_vars => [Kept]_vars
  <2> SUFFICES ASSUME IInv, Next, NEW n \in Scripted
               PROVE  handed'[n] \o script'[n] = handed[n] \o script[n]
    OBVIOUS
  <2>1. CASE UNCHANGED <<handed, script>>
    BY <2>1
  <2>2. CASE AskScripted /\ script[chain[at]] # <<>>
    <3> DEFINE m == chain[at]
    <3>1. /\ script' = [script EXCEPT ![m] = Tail(@)]
          /\ handed' = [handed EXCEPT ![m] = Append(@, Head(script[m]))]
          /\ m \in Scripted
      BY <2>2 DEF AskScripted, ScriptRest
    <3> HIDE DEF m
    <3>2. CASE n = m
      BY <2>2, <3>1, <3>2, ScriptMoves DEF IInv, TypeOK, m
    <3>3. CASE n # m
      BY <3>1, <3>3 DEF IInv, TypeOK
    <3> QED
      BY <3>2, <3>3
  <2>3. CASE AskScripted /\ script[chain[at]] = <<>>
    BY <2>3, <2>1 DEF AskScripted
  <2> QED
    BY <2>1, <2>2, <2>3
    DEF Next, Request, Get, AskEndpoint, AskEcho, objects
<1> QED
  BY <1>1, InitEstablishes, NextKeeps, PTL DEF Spec, EveryStepOnce

\* How far a request is from its end: two statements for each position left.
Distance == CASE pc = "get" -> 2 * (Len(chain) - at) + 2
              [] pc = "ask" -> 2 * (Len(chain) - at) + 1
              [] pc = "idle" -> 0

\* Whatever the configuration names twice and whoever is unavailable, every
\* statement of complete() brings its end nearer: the loop over the chain
\* never goes back.  That it is taken is the fairness RequestsEnd adds.
THEOREM RequestsAreFinite ==
  Spec => [](Distance \in Nat) /\ [][pc # "idle" => Distance' < Distance]_vars
<1>1. IInv => Distance \in Nat
  BY DEF IInv, TypeOK, Midway, Distance
<1>2. IInv /\ [Next]_vars => [pc # "idle" => Distance' < Distance]_vars
  <2> SUFFICES ASSUME IInv, Next, pc # "idle" PROVE Distance' < Distance
    OBVIOUS
  <2>1. at \in 1..Len(chain) /\ at \in Nat /\ Len(chain) \in Nat
    BY DEF IInv, TypeOK, Midway
  <2>2. CASE Unavailable /\ chain' = chain
    BY <2>1, <2>2 DEF Unavailable, End, GoOn, Distance, IInv, TypeOK
  <2>3. CASE pc' = "idle"
    BY <2>1, <2>3 DEF Distance, IInv, TypeOK
  <2>4. CASE pc = "get" /\ pc' = "ask" /\ at' = at /\ chain' = chain
    BY <2>1, <2>4 DEF Distance
  <2> QED
    BY <2>2, <2>3, <2>4 DEF Next, Request, Get, AskEndpoint, AskEcho, AskScripted, End
<1> QED
  BY <1>1, <1>2, InitEstablishes, NextKeeps, PTL DEF Spec
=============================================================================
