CONSTANTS
  Programs <- AllPrograms
  Defects <- MCDefects
  Clusters <- MCClusters
  Claims <- MCClaims
  Careless <- MCCareless
  Tolerant <- MCTolerant
  Waived <- MCWaived
  Excusing <- MCExcusing
  Outspoken <- MCOutspoken
  MaxFail = 1
  Inits = {"microblaze", "sh4"}
  SelfTests = {1, 2}
  LtpTests = {3, 4, 5}
  Listed = {1, 3}
  NotRunnable = {4}
  NameLimit = 2
  Polls = 2
  ExitCodes = {0, 9, 32, 127}
  Signals = {11}
  Base = 40
  Limit = 184
  PageSize = 16
  Sizes = {1, 16, 24, 64}
  W = 8
  MaxBlocks = 5

SPECIFICATION UserSpec

INVARIANTS
  ProgramsTypeOK
  OneVerdict
  NoFalseAlarm
  FindsDefect
  MismatchReported
  NoVacuousPass
  NothingLeaked
  OneAtATime
  TalliesAreTrue
  HeapIsSound
PROPERTIES
  AllEnd
