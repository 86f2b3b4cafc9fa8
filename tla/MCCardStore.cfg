SPECIFICATION Spec
CONSTANTS
  h1 = h1  h2 = h2  h3 = h3
  Host = {h1, h2, h3}
  Kinds = {"comment", "update", "guarded_update", "delete", "guarded_delete", "save", "create", "guarded_create", "purge"}
  CAS_ATTEMPTS = 3
  MaxCalls = 4
  NoCard = NoCard
CHECK_DEADLOCK FALSE
SYMMETRY MCHosts
INVARIANTS
  CommentsSurvive
  ReferencesGoWithTheCard
  LedgerClaimsNoMore
PROPERTIES
  ArmedReplacesWhatItSaw
  GivesUpForAReason
