CONSTANTS
  Tasks = {t1, t2}
  Callers = {c1}
  Asker = c1
  NoTask = NoTask
  Reports = {"completed"}
  QueueBound = 1
SYMMETRY TaskSymmetry
SPECIFICATION HistorySpec
INVARIANTS NoInventedOutcome TwoRefreshesSuffice
