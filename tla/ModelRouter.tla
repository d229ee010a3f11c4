---------------------------- MODULE ModelRouter ----------------------------
(***************************************************************************)
(* core/llm/router.py with the providers it routes to: one ModelRouter,    *)
(* which a worker keeps for its whole life and an evaluation for one       *)
(* scenario, answering one request after another.  A request goes down the *)
(* chain of its capability; the endpoints behind it come and go meanwhile. *)
(*                                                                         *)
(* Only that a provider cannot serve now (ProviderUnavailableError) moves  *)
(* a request down the chain.  Any other exception leaves complete() at     *)
(* once: a scripted exception, a script that has run out, a body with      *)
(* status 200 that does not parse.                                         *)
(***************************************************************************)
EXTENDS Integers, Sequences, FiniteSets

CONSTANTS
  Names,        \* provider names that the configuration may mention
  Capabilities,
  Scripted,     \* those whose instance was handed in: MockProvider(script)
  Scripts,      \* what their scripts may be
  Kinds,        \* what config/models.yaml may say of each name (see KindOf)
  Routings,     \* `routing` sections: capability |-> chain
  OnUnavailable, \* values of policies.on_unavailable
  MaxRequests   \* bound: requests made of the router

\* A declared provider is a mock, an endpoint with ("api") or without
\* ("unconfigured") base_url and model, or of a kind nobody knows.
KindOf == {"mock", "api", "unconfigured", "unknown", "undeclared"}
ScriptSteps == {"answer", "unavailable", "exception"}

ASSUME ConfigAssumption ==
  /\ Scripted \subseteq Names /\ Scripts \subseteq Seq(ScriptSteps)
  /\ Kinds \subseteq [Names -> KindOf]
  /\ Routings \subseteq [Capabilities -> Seq(Names)]
  /\ MaxRequests \in Nat

VARIABLES
  kind, routing, onUnavailable, \* the configuration, read once
  instances,    \* _provider_instances: the names that have one
  script,       \* MockProvider._script of the scripted instances
  pc,           \* of complete(): "idle", "get" a provider, "ask" it
  chain, at,    \* the chain, and the position its loop has reached
  ended,        \* how the last request ended
  requests,     \* requests so far
  \* history
  refused,      \* positions found unavailable during this request
  handed        \* steps that each script has given out

config == <<kind, routing, onUnavailable>>
objects == <<instances, script>>
history == <<refused, handed>>
vars == <<config, objects, pc, chain, at, ended, requests, history>>

NotEnded == [how |-> "pending", at |-> 0]
Endings == {"answer", "exhausted", "unavailable", "exception", "pending"}

TypeOK ==
  /\ kind \in Kinds /\ routing \in Routings /\ onUnavailable \in OnUnavailable
  /\ instances \subseteq Names
  /\ script \in [Scripted -> Seq(ScriptSteps)] /\ handed \in [Scripted -> Seq(ScriptSteps)]
  /\ pc \in {"idle", "get", "ask"}
  /\ chain \in Seq(Names) /\ at \in Nat
  /\ ended \in [how : Endings, at : Nat]
  /\ requests \in 0..MaxRequests
  /\ refused \subseteq 1..Len(chain)

Init ==
  /\ kind \in Kinds /\ routing \in Routings /\ onUnavailable \in OnUnavailable
  /\ instances = Scripted
  /\ script \in [Scripted -> Scripts]
  /\ pc = "idle" /\ chain = <<>> /\ at = 0 /\ ended = NotEnded /\ requests = 0
  /\ refused = {}
  /\ handed = [n \in Scripted |-> <<>>]

-----------------------------------------------------------------------------
(* Faulty variants of some definitions come before them, for the properties  *)
(* to reject: PROJECT.json names the pairs.  The specification uses none.    *)

\* The result is not returned: complete() is None.
EndWithoutResult(how) ==
  /\ ended' = [how |-> IF how = "answer" THEN "none" ELSE how, at |-> at] /\ pc' = "idle"
  /\ UNCHANGED at

\* complete() ends at this position: it returns, or it raises.
End(how) == /\ ended' = [how |-> how, at |-> at] /\ pc' = "idle"
            /\ UNCHANGED at

\* Its loop goes on to another position.
GoOn(position) == at' = position /\ pc' = "get" /\ UNCHANGED ended

\* A faulty variant: the loop leaves out the provider after the one that is unavailable.
UnavailableSkipping ==
  /\ refused' = refused \cup {at}
  /\ \/ onUnavailable # "next_in_chain" /\ End("unavailable")
     \/ onUnavailable = "next_in_chain" /\ at + 1 >= Len(chain) /\ End("exhausted")
     \/ onUnavailable = "next_in_chain" /\ at + 1 < Len(chain) /\ GoOn(at + 2)

\* A faulty variant: it tries the same one again, for ever.
UnavailableRetrying ==
  /\ refused' = refused \cup {at}
  /\ \/ onUnavailable # "next_in_chain" /\ End("unavailable")
     \/ onUnavailable = "next_in_chain" /\ GoOn(at)

\* A faulty variant: `continue` under every policy.
UnavailableAlwaysNext ==
  /\ refused' = refused \cup {at}
  /\ \/ at = Len(chain) /\ End("exhausted")
     \/ at # Len(chain) /\ GoOn(at + 1)

\* except ProviderUnavailableError: the next provider, if the policy says so.
Unavailable ==
  /\ refused' = refused \cup {at}
  /\ \/ onUnavailable # "next_in_chain" /\ End("unavailable")
     \/ onUnavailable = "next_in_chain" /\ at = Len(chain) /\ End("exhausted")
     \/ onUnavailable = "next_in_chain" /\ at # Len(chain) /\ GoOn(at + 1)

\* complete(capability): a capability without a chain has no provider.
Request(c) ==
  /\ pc = "idle" /\ requests < MaxRequests
  /\ requests' = requests + 1
  /\ chain' = routing[c] /\ refused' = {}
  /\ \/ /\ routing[c] = <<>>
        /\ at' = 0 /\ ended' = [how |-> "exhausted", at |-> 0]
        /\ UNCHANGED pc
     \/ /\ routing[c] # <<>>
        /\ at' = 1 /\ ended' = NotEnded
        /\ pc' = "get"
  /\ UNCHANGED <<config, objects, handed>>

\* _get_provider: the instance there is, or one built now; an undeclared name,
\* an unknown kind and an endpoint without base_url or model have none.
Get ==
  /\ pc = "get"
  /\ \/ /\ chain[at] \in instances
        /\ pc' = "ask"
        /\ UNCHANGED <<instances, at, ended, refused>>
     \/ /\ chain[at] \notin instances /\ kind[chain[at]] \in {"mock", "api"}
        /\ instances' = instances \cup {chain[at]}
        /\ pc' = "ask"
        /\ UNCHANGED <<at, ended, refused>>
     \/ /\ chain[at] \notin instances /\ kind[chain[at]] \notin {"mock", "api"}
        /\ Unavailable
        /\ UNCHANGED instances
  /\ UNCHANGED <<config, script, chain, requests, handed>>

\* OpenAICompatibleProvider.complete: a timeout, a network error and a status
\* from 400 up are unavailability; a body that does not parse raises whatever
\* the parsing raises.
AskEndpoint ==
  /\ pc = "ask" /\ chain[at] \notin Scripted /\ kind[chain[at]] = "api"
  /\ \/ \E how \in {"answer", "exception"} : End(how) /\ UNCHANGED refused
     \/ Unavailable
  /\ UNCHANGED <<config, objects, chain, requests, handed>>

\* MockProvider._echo.
AskEcho ==
  /\ pc = "ask" /\ chain[at] \notin Scripted /\ kind[chain[at]] = "mock"
  /\ End("answer")
  /\ UNCHANGED <<config, instances, script, chain, requests, refused, handed>>

\* A faulty variant: the step is looked at and left in the script.
ScriptLeft(s) == s

\* self._script.pop(0), and what it leaves.
ScriptRest(s) == Tail(s)

\* MockProvider._next_scripted: the next step, whatever asks for it.
AskScripted ==
  /\ pc = "ask" /\ chain[at] \in Scripted
  /\ \/ /\ script[chain[at]] = <<>>
        /\ End("exception")
        /\ UNCHANGED <<script, handed, refused>>
     \/ /\ script[chain[at]] # <<>>
        /\ script' = [script EXCEPT ![chain[at]] = ScriptRest(@)]
        /\ handed' = [handed EXCEPT ![chain[at]] = Append(@, Head(script[chain[at]]))]
        /\ \/ Head(script[chain[at]]) = "unavailable" /\ Unavailable
           \/ /\ Head(script[chain[at]]) # "unavailable"
              /\ End(Head(script[chain[at]]))
              /\ UNCHANGED refused
  /\ UNCHANGED <<config, instances, chain, requests>>

Next == \/ \E c \in Capabilities : Request(c)
        \/ Get \/ AskEndpoint \/ AskEcho \/ AskScripted

Spec == Init /\ [][Next]_vars

\* complete() has no wait of its own: every request has a timeout (timeout_s).
Step == Get \/ AskEndpoint \/ AskEcho \/ AskScripted
FairSpec == Spec /\ WF_vars(Step)

-----------------------------------------------------------------------------
(* Properties *)

\* Where a request stops says what it found above: a result or an exception of
\* a provider comes after every provider before it, and none other, was found
\* unavailable during this same request, whatever earlier requests found.
\* Under a policy other than next_in_chain nobody but the first is asked, and
\* only then does a provider's own ProviderUnavailableError come out.
ChainInOrder ==
  /\ ended.how \in {"answer", "exception"} => refused = 1..(ended.at - 1)
  /\ ended.how = "unavailable" => refused = {1} /\ onUnavailable # "next_in_chain"
  /\ onUnavailable # "next_in_chain" => ended.at <= 1

\* config/models.yaml keeps a mock at the end of every chain so that no missing
\* API brings a run down: while the chain degrades, a request that has such a
\* mock below it never ends without an answer because of who is unavailable.
LastResort == \E i \in 1..Len(chain) : chain[i] \notin Scripted /\ kind[chain[i]] = "mock"
LastResortAnswers ==
  LastResort /\ onUnavailable = "next_in_chain" =>
    ended.how \notin {"exhausted", "unavailable"}

\* The plan of an evaluation reaches the agent step by step: whatever chain a
\* request comes down, and however it ends, no step of a script is given twice
\* or passed over.
EveryStepOnce ==
  [][\A n \in Scripted : handed'[n] \o script'[n] = handed[n] \o script[n]]_vars

\* Every request ends, since it never asks the same position of a chain twice.
RequestsEnd == pc # "idle" ~> pc = "idle"
=============================================================================
