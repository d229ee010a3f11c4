---------------------------- MODULE PolicyEngine ----------------------------
(***************************************************************************)
(* core/policy/engine.py: authorize(), the one decision about whether a    *)
(* tool may run.  A policy is the agent's `policies` section, a tool is    *)
(* its ToolSpec, `table` is arguments["table"] (NoTable when absent).      *)
(* A domain pattern is the set of domains that fnmatch accepts for it.     *)
(***************************************************************************)
EXTENDS Integers, FiniteSetsExt, Sequences

CONSTANTS Domains, Tables, NoTable

Permissions == {"network.http", "database.read", "database.write", "messaging.send"}

Policies == [network : {"denied", "allowlist", "open"}, domains : SUBSET (SUBSET Domains),
             domain_db : {"denied", "read_only", "read_write"}, tables : SUBSET Tables,
             outbound : {"denied", "require_approval", "allow"},
             destructive : {"deny", "require_approval", "allow"}]

\* `shell`: the tool id has the prefix of _SYSTEM_DENIED_PREFIXES.
Tools == [shell : BOOLEAN, permissions : SUBSET Permissions,
          side_effects : {"read", "write", "destructive"}, domain : Domains]

Decisions == {"ALLOW", "DENY", "REQUIRE_APPROVAL"}

-----------------------------------------------------------------------------
\* Each check of the chain: "none" lets the next one decide.
DenyIf(b) == IF b THEN "DENY" ELSE "none"

CheckSystem(tool) == DenyIf(tool.shell)
CheckBudget(exhausted) == DenyIf(exhausted)
CheckDryRun(tool, dryRun) == DenyIf(dryRun /\ tool.side_effects # "read")

CheckNetwork(pol, tool) ==
  DenyIf(/\ "network.http" \in tool.permissions
         /\ \/ pol.network = "denied"
            \/ pol.network = "allowlist" /\ \A pattern \in pol.domains : tool.domain \notin pattern)

\* A faulty variant, for the mutants of PROJECT.json: the list of tables ignored.
CheckDatabaseAnyTable(pol, tool, table) ==
  DenyIf(/\ tool.permissions \cap {"database.read", "database.write"} # {}
         /\ \/ pol.domain_db = "denied"
            \/ "database.write" \in tool.permissions /\ pol.domain_db # "read_write")

\* An empty list of tables allows every table.
CheckDatabase(pol, tool, table) ==
  DenyIf(/\ tool.permissions \cap {"database.read", "database.write"} # {}
         /\ \/ pol.domain_db = "denied"
            \/ "database.write" \in tool.permissions /\ pol.domain_db # "read_write"
            \/ table # NoTable /\ pol.tables # {} /\ table \notin pol.tables)

CheckOutbound(pol, tool) ==
  IF "messaging.send" \notin tool.permissions THEN "none"
  ELSE [denied |-> "DENY", require_approval |-> "REQUIRE_APPROVAL", allow |-> "none"][pol.outbound]

CheckDestructive(pol, tool) ==
  IF tool.side_effects # "destructive" THEN "none"
  ELSE [deny |-> "DENY", require_approval |-> "REQUIRE_APPROVAL", allow |-> "none"][pol.destructive]

\* The first check that decides, in the order of the chain.
Authorize(pol, tool, table, exhausted, dryRun) ==
  LET chain == <<CheckSystem(tool), CheckBudget(exhausted), CheckDryRun(tool, dryRun),
                 CheckNetwork(pol, tool), CheckDatabase(pol, tool, table),
                 CheckOutbound(pol, tool), CheckDestructive(pol, tool)>>
      deciding == {i \in 1..7 : chain[i] # "none"}
  IN  IF deciding = {} THEN "ALLOW" ELSE chain[Min(deciding)]

-----------------------------------------------------------------------------
\* What a policy permits, said without an order: the declarative reading of
\* the agent's section that authorize() has to agree with.
Permits(pol, tool, table) ==
  /\ ~tool.shell
  /\ "network.http" \in tool.permissions =>
       \/ pol.network = "open"
       \/ pol.network = "allowlist" /\ tool.domain \in UNION pol.domains
  /\ tool.permissions \cap {"database.read", "database.write"} # {} =>
       /\ pol.domain_db \in {"read_only", "read_write"}
       /\ table \in pol.tables \cup {NoTable} \/ pol.tables = {}
  /\ "database.write" \in tool.permissions => pol.domain_db = "read_write"
  /\ "messaging.send" \in tool.permissions => pol.outbound = "allow"
  /\ tool.side_effects = "destructive" => pol.destructive = "allow"
=============================================================================
