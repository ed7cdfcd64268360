SPECIFICATION Spec
CONSTANTS
  u1 = u1
  u2 = u2
  u3 = u3
  u4 = u4
  u5 = u5
  u6 = u6
  u7 = u7
  u8 = u8
  u9 = u9
  x = x
  Unreachable = Unreachable
  Payloads <- SmallPayloads
  Responses <- FewResponses
  Uuids <- NineUuids
  NoRow = NoRow
  ForeignFinding = ForeignFinding
  MissingFinding = MissingFinding
INVARIANTS
  TypeOK
  FindingsAreDistinct
  RedactedFlagsAreJudged
  AssessmentIsGrounded
  ReportIsBacked
  EveryFindingIsExplained
