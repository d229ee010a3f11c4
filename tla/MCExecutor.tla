----------------------------- MODULE MCExecutor -----------------------------
(* Executor for TLC: one policy, a handful of tool calls, small budgets. *)
EXTENDS Executor, TLC

CONSTANTS web, t1, t2, low, high, null

MCDomains == {web}
MCTables == {t1, t2}

Strict == [network |-> "allowlist", domains |-> {{}}, domain_db |-> "read_write", tables |-> {t1},
           outbound |-> "require_approval", destructive |-> "deny"]
StrictPolicy == {Strict}

Tool(permissions, effects) ==
  [shell |-> FALSE, permissions |-> permissions, side_effects |-> effects, domain |-> web]
Upsert(table, valid) ==
  [tool |-> "db.upsert", spec |-> Tool({"database.write", "database.read"}, "write"),
   table |-> table, valid |-> valid, set |-> <<>>]
Send == [tool |-> "send", spec |-> Tool({"messaging.send"}, "write"),
         table |-> NoTable, valid |-> TRUE, set |-> <<>>]
Update(f) == [tool |-> StateUpdate, spec |-> Tool({}, "write"),
              table |-> NoTable, valid |-> TRUE, set |-> f]
Missing == [Send EXCEPT !.tool = Unregistered]

Achieve == Update("found" :> 1)
Break == Update("found" :> 2 @@ "errors" :> 3)        \* both goals hold: failed
Spell == Update("found" :> low @@ "errors" :> high)   \* texts, in order: failed
Confuse == Update("found" :> low @@ "errors" :> null) \* no order: raises
Undeclared == Update("other" :> 1)

AllCalls == {Upsert(t1, TRUE), Upsert(t2, TRUE), Upsert(t1, FALSE), Send, Missing,
             Achieve, Break, Spell, Confuse, Undeclared}
LoopCalls == {Upsert(t1, TRUE), Upsert(t1, FALSE), Upsert(t2, TRUE), Achieve, Break}
Schema == {"found", "errors"}
Defaults == "found" :> 0

Goal == << [op |-> "GtE", left |-> Name("found"), right |-> Number(1)] >>
Trouble == << [op |-> "NotEq", left |-> Name("found"), right |-> Number(1)],
              [op |-> "Gt", left |-> Name("errors"), right |-> Name("found")] >>

Alphabet == <<low, high>>
Unordered == {null}

Answers == {[tokens |-> 1, money |-> 0], [tokens |-> 2, money |-> 1]}
OneCost == {[tokens |-> 1, money |-> 0]}
AllLevels == 0..4
Level3 == {3}
=============================================================================
