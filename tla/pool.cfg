SPECIFICATION FairSpec
CONSTANTS
  Backups = {b1, b2, b3, b4}
  MaxConcurrent = 2
  SettleSeconds = 2
INVARIANTS  NoBacklog
PROPERTIES Implements QuietGap EveryBackupEnds
CHECK_DEADLOCK FALSE
