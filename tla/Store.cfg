SPECIFICATION FairSpec
CONSTANTS
  manager = manager
  command = command
  create = create
  import = import
  rename = rename
  update = update
  delete = delete
  run = run
  stored = stored
  Processes = {manager, command}
  Names = {"a", "b", "c"}
  Requests = {create, import, rename, update, delete, run}
  Kind <- MCKind
  At <- MCAt
  Ref <- MCRef
  Wanted <- MCWanted
  Initial <- MCInitial
  MaxRequests = 4
INVARIANTS PromisesKept ImportComplete Intact
PROPERTIES RequestsAnswered
CHECK_DEADLOCK FALSE
