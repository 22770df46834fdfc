CONSTANTS
  Me = client
  Delegators = {client}
  Pollers = {poller}
  Configured = {cli}
  Approver = client
  Tasks = {t1}
  NoMsg = NoMsg
  NoIdent = NoIdent
  Reports = {"cancelled", "progress"}
  MAX_COMPLETED_TASKS = 1
  QueueBound = 1
  Stops = TRUE
SPECIFICATION FairSpec
INVARIANTS TypeOK LeasedIsActive NoUnapprovedWork DecidedOnce
PROPERTIES NoSilentEnd ImplementsTasks LeaseEnds
