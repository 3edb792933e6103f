SPECIFICATION MovementSpec
CONSTANTS
  Docs <- MCDocs
  Kind <- MCKind
  Limit <- MCLimit
  Sources <- MCSources
  Issue <- MCIssue
  NeedsApproval = {"transfer"}
  Slots <- MCSlots
  FirstPlaces <- MCFirstPlaces
  Requests = {r1, r2, r3}
  Payloads <- MCPayloads
SYMMETRY RequestSymmetry
INVARIANTS
  TypeOK
  LineWithinLimit
  InFollowsOut
  ProgressIsPosted
  RetryHeals
