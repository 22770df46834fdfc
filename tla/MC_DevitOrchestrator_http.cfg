CONSTANTS
  Tasks = {t1}
  Callers = {c1, c2}
  Asker = c1
  NoTask = NoTask
  Reports = {"completed", "progress"}
  QueueBound = 1
SPECIFICATION FairSpec
PROPERTY SettledIsSeen
