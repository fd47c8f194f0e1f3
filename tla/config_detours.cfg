SPECIFICATION FairSpec
CONSTANTS
  MaxId = 3
  MaxMembers = 2
  DetourIds <- OneColumn
  MaxEdits = 1
INVARIANTS
  TypeOK
  TagsUnique
  RefusesExactlyBroken
  Resolved
PROPERTIES
  GenerationEnds
CHECK_DEADLOCK FALSE
