SPECIFICATION Spec
CONSTANTS
  k1 = k1
  k2 = k2
  k3 = k3
  k4 = k4
  c1 = c1
  c2 = c2
  w1 = w1
  Keys = {k1, k2, k3, k4}
  Names = {d1, d2}
  KnownPois = {k1}
  KnownDistricts = {d1, d2}
  CityBboxes <- TwoCities
  WikidataClasses <- OneClass
  Found <- Overlapping
  OverpassConcurrency = 2
  WikidataConcurrency = 1
  InsertBatchSize = 2
  Retries = 2
  MaxRuns = 2
  Touched = {k2, d2}
CHECK_DEADLOCK FALSE
INVARIANTS TypeOK NothingImportedTwice CompleteRunIsComplete
PROPERTY RunsEnd
