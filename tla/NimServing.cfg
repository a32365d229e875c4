SPECIFICATION ServingSpec
CONSTANTS
  Projects = {p1}
  Gpus = {0}
  Resident = {"teacher", "embedding"}
  Requestable = {"embedding"}
  MaxIds = 7
  MaxRequests = 2
  MaxCrashes = 1
  MaxFaults = 2
  MaxEvents = 3
  Images = {k1, k2}
  Damaged = {k2}
  Width = 2
  MaxDrainEvents = 2
  MaxServingEvents = 2
CHECK_DEADLOCK FALSE
INVARIANTS OneActiveRowPerGpu ContainersAreManaged BoundToLiveNims DisplacedAreOwed SweepMissesNothing
PROPERTIES ComesToRest EmbeddingsCatchUp
