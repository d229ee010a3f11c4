----------------------- MODULE MCDefinitionRepository -----------------------
(* DefinitionRepository for TLC: interchangeable sessions and agents, and a *)
(* schema with a field of each sort.                                        *)
EXTENDS DefinitionRepository

CONSTANTS s1, s2, a1, a2,
          null, heavy, denied, yes,
          bare, full,  \* lists of one ToolRef: {id}, and with its config, {}
          noTools      \* the empty list

TwoSessions == {s1, s2}
TwoAgents == {a1, a2}
OneAgent == {a1}

Id == <<"id">>
Tools == <<"tools">>
Reasoning == <<"brain", "reasoning">>
Capability == <<"brain", "reasoning", "capability">>
Temperature == <<"brain", "reasoning", "temperature">>
Shell == <<"policies", "shell">>
ShellMode == <<"policies", "shell", "mode">>
ShellLog == <<"policies", "shell", "log">>

MCKeys == {"id", "tools", "brain", "reasoning", "capability", "temperature", "policies", "shell", "mode", "log"}
MCFreeForm == {Shell}
MCOptional == {Reasoning}
MCTyped == {Id, Tools, Reasoning, Capability, Temperature}
MCFields == MCTyped \cup MCFreeForm

\* What each type accepts, and makes of it; temperatures in tenths.
Accepted == Id :> [a \in TwoAgents \cup {Nobody} |-> a]
         @@ Tools :> (noTools :> noTools @@ bare :> full @@ full :> full)
         @@ Reasoning :> (null :> null)
         @@ Capability :> (heavy :> heavy)
         @@ Temperature :> (2 :> 2)
MCValues == TwoAgents \cup {Nobody, EmptyDict, BadValue, null, heavy, denied, yes, bare, full, noTools, 2}
MCParse == [f \in MCTyped |-> [v \in MCValues |-> IF v \in DOMAIN Accepted[f] THEN Accepted[f][v] ELSE BadValue]]
MCDefaults == Tools :> noTools @@ Reasoning :> null @@ Temperature :> 2 @@ ShellMode :> denied

Posted == {Id :> Nobody @@ <<"policies">> :> EmptyDict}

\* A list whose item lacks its defaults, a submodel where there was none, one
\* more key in a free-form dict; and something that does not validate.
Asked == {Tools :> bare @@ Capability :> heavy @@ ShellLog :> yes, Tools :> BadValue}

Symmetry == Permutations(TwoSessions) \cup Permutations(TwoAgents)
=============================================================================
