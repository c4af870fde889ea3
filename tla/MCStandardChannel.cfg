SPECIFICATION Spec
CONSTANTS
  Bank = {0, 1}
  SubArray = {0, 1, 2}
  Row = {0, 1}
  segment_ratio = 2
  Standards <- AllStandards
INVARIANTS TableAgreesWithTree SubArraysAsDesigned RequestsProgress
  NextIsTimed MigrationIsReady DataBusExclusive
