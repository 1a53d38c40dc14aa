SPECIFICATION TableSpec
CONSTANTS
  MAX_CONNECTIONS = 4
  SIZE_MAX = 7
INVARIANTS
  PoolTypeOK
  FreeStackIsExact
  ActiveCountIsExact
  RefusesOnlyWhenAllLent
  LinksAgree
  WalkVisitsEveryMember
  MembersAreLent
PROPERTIES
  AllocatorSpec
  RecencySpec
