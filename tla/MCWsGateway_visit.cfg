CONSTANTS
  r1 = r1
  r2 = r2
  c1 = c1
  c2 = c2
  c3 = c3
  ann = ann
  bob = bob
  NoMutationId = NoMutationId
  NoId = NoMutationId
  Replicas = {r1, r2}
  Conns = {c1, c3}
  HomeOf <- Homes
  UserOf <- Owners
  Creator = bob
  InitialRole <- AllEditors
  Msgs <- Visit
  Environment = {"roles", "redis", "marker", "ttl", "badWrite", "mq"}
  MaxEvents = 1
SPECIFICATION Spec
INVARIANT DeliveredOnce SavedBeforeReported AppliedOnce NoWriteByRemoved
CHECK_DEADLOCK FALSE
