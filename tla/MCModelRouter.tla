--------------------------- MODULE MCModelRouter ---------------------------
(* ModelRouter for TLC: every chain of up to three of three names, for every *)
(* thing config/models.yaml may say of two of them.                          *)
EXTENDS ModelRouter, SequencesExt

ThreeNames == {"api", "local", "mock"}
TwoCapabilities == {"standard", "embedding"}

\* "local" is handed in with a script, as an evaluation's provider is.
OneScripted == {"local"}
TwoScripts == {<<"unavailable", "answer">>, <<"answer", "unavailable", "exception">>}

AnyKinds == [api : KindOf, local : {"undeclared"}, mock : {"mock", "api"}]
AnyRoutings ==
  [standard : BoundedSeq(ThreeNames, 3), embedding : {<<"mock">>, <<"local", "local">>}]
Policies == {"next_in_chain", "queue", "fail"}
=============================================================================
