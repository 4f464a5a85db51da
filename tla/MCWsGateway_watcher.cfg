CONSTANTS
  r1 = r1
  r2 = r2
  c1 = c1
  c2 = c2
  c3 = c3
  ann = ann
  bob = bob
  NoMutationId = NoMutationId
  NoId = NoMutationId
  Replicas = {r1, r2}
  Conns = {c1, c2}
  HomeOf <- Homes
  UserOf <- Owners
  Creator = ann
  InitialRole <- AllEditors
  Msgs <- OneWatcher
  Environment = {"peers", "badRead"}
  MaxEvents = 1
SPECIFICATION FairSpec
PROPERTY UpdatesInOrder CommitsReachWatchers DeadPeersRemoved
CHECK_DEADLOCK FALSE
