\* Two sessions on one agent of up to three versions, nothing fails: overlapping activations.
CONSTANTS
  s1 = s1
  s2 = s2
  a1 = a1
  a2 = a2
  Nobody = Nobody
  EmptyDict = EmptyDict
  BadValue = BadValue
  null = null
  heavy = heavy
  denied = denied
  yes = yes
  bare = bare
  full = full
  noTools = noTools
  Sessions <- TwoSessions
  Agents <- OneAgent
  Keys <- MCKeys
  Fields <- MCFields
  Values <- MCValues
  FreeForm <- MCFreeForm
  Optional <- MCOptional
  Parse <- MCParse
  Defaults <- MCDefaults
  Docs <- Posted
  OverrideSet <- Asked
  MaxVersions = 3
  MaxRows = 3
  MayDie = FALSE
SPECIFICATION Spec
INVARIANTS
  OneActiveVersion
