------------------------------ MODULE Criteria ------------------------------
(***************************************************************************)
(* core/runtime/criteria.py: the comparison language of a goal's success   *)
(* and failure criteria, over the run state.  A criterion is the parse of  *)
(* its `expr`: [op, left, right], where an operand is a state variable, a  *)
(* number, or something the language refuses; op is "malformed" when the   *)
(* text is no single comparison.                                           *)
(***************************************************************************)
EXTENDS Integers, Sequences, Functions

\* Values of the run state that are no numbers: texts, in alphabetical order,
\* and those that Python orders with nothing (None, a dict).
CONSTANTS Texts, Others

ASSUME StateValuesAssumption == /\ \A i, j \in DOMAIN Texts : Texts[i] = Texts[j] => i = j
                                /\ Range(Texts) \cap (Others \cup Int) = {} /\ Others \cap Int = {}

Ops == {"Gt", "GtE", "Lt", "LtE", "Eq", "NotEq"}

\* What evaluating gives: a truth value, InvalidCriterionError ("invalid"), or
\* any other exception ("raises"), which _evaluate_termination does not catch.
Verdicts == {"true", "false", "invalid", "raises"}

Name(k) == [kind |-> "name", key |-> k, neg |-> FALSE]
Number(n) == [kind |-> "number", key |-> n, neg |-> FALSE]
Negated(o) == [o EXCEPT !.neg = ~@]
Unsupported == [kind |-> "other", key |-> 0, neg |-> FALSE]

\* A value as Python orders it: among those of its sort, at its place.
Sort(v) == IF v \in Range(Texts) THEN "text" ELSE IF v \in Others THEN "other" ELSE "number"
Ordinal(v) == IF Sort(v) = "text" THEN CHOOSE i \in DOMAIN Texts : Texts[i] = v ELSE v

Given(o, state) == IF o.kind = "name" THEN state[o.key] ELSE o.key

\* _resolve_operand, as the verdict it forces ("true": it has a value).
Resolvable(o, state) ==
  IF o.kind = "other" \/ (o.kind = "name" /\ o.key \notin DOMAIN state) THEN "invalid"
  ELSE IF o.neg /\ Sort(Given(o, state)) # "number" THEN "raises" ELSE "true"

ValueOf(o, state) == IF o.neg THEN -Given(o, state) ELSE Given(o, state)

Compare(op, a, b) == CASE op = "Gt" -> a > b  [] op = "GtE" -> a >= b
                       [] op = "Lt" -> a < b  [] op = "LtE" -> a <= b

AsVerdict(b) == IF b THEN "true" ELSE "false"

\* The operator applied: == and != never raise, and Python orders numbers only
\* with numbers and texts with texts.
Applied(op, a, b) ==
  IF op \in {"Eq", "NotEq"} THEN AsVerdict((a = b) = (op = "Eq"))
  ELSE IF Sort(a) # Sort(b) \/ Sort(a) = "other" THEN "raises"
  ELSE AsVerdict(Compare(op, Ordinal(a), Ordinal(b)))

\* evaluate: the operator is looked up first, then the left operand, then the
\* right one.
Evaluate(c, state) ==
  IF c.op \notin Ops THEN "invalid"
  ELSE IF Resolvable(c.left, state) # "true" THEN Resolvable(c.left, state)
  ELSE IF Resolvable(c.right, state) # "true" THEN Resolvable(c.right, state)
  ELSE Applied(c.op, ValueOf(c.left, state), ValueOf(c.right, state))

\* evaluate_all: all() stops at the first criterion that is not true.
EvaluateAll(criteria, state) ==
  LET holds(i) == Evaluate(criteria[i], state) = "true"
      first == CHOOSE i \in DOMAIN criteria : ~holds(i) /\ \A j \in 1..(i - 1) : holds(j)
  IN  IF \A i \in DOMAIN criteria : holds(i) THEN "true" ELSE Evaluate(criteria[first], state)

\* A faulty variant, for the mutants of PROJECT.json: success looked at first.
EvaluateSuccessFirst(success, failure, state) ==
  LET verdict(criteria) == IF criteria = <<>> THEN "false" ELSE EvaluateAll(criteria, state)
      unlessDone == [true |-> "failed", false |-> "none",
                     invalid |-> "none", raises |-> "raises"][verdict(failure)]
  IN  [true |-> "completed", false |-> unlessDone,
       invalid |-> "none", raises |-> "raises"][verdict(success)]

\* executor._evaluate_termination: failure before success, nothing declared
\* decides nothing, an invalid criterion leaves the whole question open.
EvaluateTermination(success, failure, state) ==
  LET verdict(criteria) == IF criteria = <<>> THEN "false" ELSE EvaluateAll(criteria, state)
      unlessFailed == [true |-> "completed", false |-> "none",
                       invalid |-> "none", raises |-> "raises"][verdict(success)]
  IN  [true |-> "failed", false |-> unlessFailed,
       invalid |-> "none", raises |-> "raises"][verdict(failure)]
=============================================================================
