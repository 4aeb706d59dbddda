\* The disciplined cluster under the hostile harness: cap 2, two ids.
SPECIFICATION HSpec
CONSTANTS
  r1 = r1
  r2 = r2
  Replicas = {r1, r2}
  Names <- MCNames
  Tids <- MCTids
  Amounts = {1, 2}
  CAP = 2
  InitEscrow <- MCInitEscrow
  DebitDurableBeforeSend = TRUE
  RecvdDurable = TRUE
  MaxCrashes = 3
  MaxStorm = 3
  MaxRepeat = 3
INVARIANTS
  TypeOK
  SafetyLe
  CrashCutSafe
  SpentIsGranted
  GrantedWithinCrashes
PROPERTIES
  NonCreation
  CreditKept
  PersistedSpendKept
  HoldingGrowsByCreditOnly
  ImplementsRightsLedger
  StormCreditsOnce
  CrashesAreSimultaneous
