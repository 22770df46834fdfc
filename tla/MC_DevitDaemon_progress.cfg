CONSTANTS
  Me = client
  Delegators = {client}
  Pollers = {poller}
  Configured = {}
  Approver = approver
  Tasks = {t1}
  NoMsg = NoMsg
  NoIdent = NoIdent
  Reports = {"progress"}
  MAX_COMPLETED_TASKS = 1
  QueueBound = 1
  Stops = FALSE
SPECIFICATION FairSpec
PROPERTY LeaseBoundsTask
