\* Chains of up to three providers, one of them scripted; four requests.
CONSTANTS
  Names <- ThreeNames
  Capabilities <- TwoCapabilities
  Scripted <- OneScripted
  Scripts <- TwoScripts
  Kinds <- AnyKinds
  Routings <- AnyRoutings
  OnUnavailable <- Policies
  MaxRequests = 4
SPECIFICATION FairSpec
INVARIANTS
  TypeOK
  ChainInOrder
  LastResortAnswers
PROPERTIES
  EveryStepOnce
  RequestsEnd
CHECK_DEADLOCK FALSE
