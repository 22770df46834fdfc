CONSTANTS
  Pids = {p1, p2}
  Tools <- MCTools
  NoRec = NoRec
  Partial = Partial
  MaxTicks = 2
SPECIFICATION FairSpec
CHECK_DEADLOCK FALSE
INVARIANTS FileWhole SignalHitsRecorded
PROPERTY GoneIsNoticed
