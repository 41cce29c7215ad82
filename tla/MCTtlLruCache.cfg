SPECIFICATION Spec
CONSTANTS
  Keys = {k1, k2, k3}
  Values = {v1, v2}
  Capacity = 2
  Ttl = 1
  Miss = Miss
  MaxTime = 3
INVARIANTS
  TypeOK
  OrderEnumeratesEntries
  WithinCapacity
  KeptUntilCapacityNewer
PROPERTY ImplementsPromise
