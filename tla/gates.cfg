SPECIFICATION FairSpec
CONSTANTS
  NoSession = NoSession
  Sessions = {s1, s2}
  Requests = {r1, r2}
  Tokens = {t1, t2}
  EntryGates = {spawn, jade}
  PlayGates = {bell}
  Spawn = spawn
CHECK_DEADLOCK FALSE
INVARIANTS
  TypeOK
  GrantIsRecorded
  LedgerMatchesAnswers
  ValueAccounted
  EntitledIsLive
PROPERTIES
  ImplementsPaidAccess
  RedeemedIsAnswered
