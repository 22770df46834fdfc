CONSTANTS
  Me = client
  Delegators = {client}
  Pollers = {poller}
  Configured = {}
  Approver = client
  Tasks = {t1, t2}
  NoMsg = NoMsg
  NoIdent = NoIdent
  Reports = {"completed"}
  MAX_COMPLETED_TASKS = 1
  QueueBound = 1
  Stops = FALSE
SYMMETRY TaskSymmetry
SPECIFICATION Spec
INVARIANTS ActiveIsLeased CompletedBounded AuditComplete
PROPERTIES FreshResultKept ImplementsTasks
