SPECIFICATION Spec
CONSTANTS
  Paths = {f, g}
  NoFile = NoFile
  Managers = {m, n}
  Names = {"manual"}
  Limits = {1, 2}
  MaxMade = 3
  MaxSeconds = 1
  MaxWork = 3
  Assignments = {t1, t2}
  NoTask = NoTask
  Polls = {p, q}
  MaxLost = 1
  MaxHooks = 2
  Ackers = {1, 2}
  MaxAcks = 3
  Rates <- MCRates
  MaxInstant = 6
  LocalTasks = {a, b}
  MaxConcurrent = 1
  Keep = 2
  CleanupPeriod = 1
  MaxTime = 6
  Patches <- MCPatches
  MaxFilesModerate = 2
  MaxLinesModerate = 40
  Patience = 1
  MaxLines = 4
  Commands = {c, d}
  NoCommand = NoCommand
  MaxStarts = 2
  MaxMessages = 2
  MaxIds = 2
  Texts <- MCTexts
  Edits <- MCEdits
  MaxApplies = 2
  JEvents = {e1, e2}
  MaxJournal = 3
SYMMETRY MCSymmetry
INVARIANTS JournalTypeOK SessionVerifies KeptWhileNew StoreBounded RestoreAndCompare NoFinishedWork OneTaskArrives AckReaches RateBound OutcomeKept LevelsAgree VerdictIsDue NoAnswerLost EditsLand
PROPERTY AckedNeverLost
CHECK_DEADLOCK FALSE
