SPECIFICATION FairSpec
CONSTANTS
  Reqs = {r1}
  MaxBody = 2
  MaxAttempts = 2
  Inputs <- AllInputs
INVARIANTS
  TypeOK
  AccountedOnce
  RecordedBodyWhole
  RejectedNeverRecorded
  OneHeader
  DeferralResolved
  OriginalReturnedWhole
PROPERTIES
  ReplyIsFinal
  KeepsContract
  Answered
  RecorderEnds
