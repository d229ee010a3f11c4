\* Two sessions on two agents of up to two versions; any operation may be cut short anywhere.
CONSTANTS
  s1 = s1
  s2 = s2
  a1 = a1
  a2 = a2
  Nobody = Nobody
  EmptyDict = EmptyDict
  BadValue = BadValue
  null = null
  heavy = heavy
  denied = denied
  yes = yes
  bare = bare
  full = full
  noTools = noTools
  Sessions <- TwoSessions
  Agents <- TwoAgents
  Keys <- MCKeys
  Fields <- MCFields
  Values <- MCValues
  FreeForm <- MCFreeForm
  Optional <- MCOptional
  Parse <- MCParse
  Defaults <- MCDefaults
  Docs <- Posted
  OverrideSet <- Asked
  MaxVersions = 2
  MaxRows = 3
  MayDie = TRUE
SPECIFICATION Spec
SYMMETRY Symmetry
INVARIANTS
  TypeOK
  UntaintedAgentsAreConsistent
  PointerNeverDangles
  OneCopyPerFreshAgent
  CopiesSayWhatWasAsked
PROPERTIES
  VersionsAreImmutable
