SPECIFICATION FdpSpec
CONSTANTS
  Ip <- MCIp
  Addr <- MCAddr
  NULL = NULL
  IT_SIZE = 1
  GHB_SIZE = 4
  PageLines = 64
  Aggressivness <- MCAggressivness
  MIDDLE_OF_THE_ROAD = 2
  pf_distance_table <- MCDistanceTable
  pf_degree_table <- MCDegreeTable
  Wrap = 16
  COUNTER_MAX_VAL = 5
INVARIANTS FdpTypeOK BackLinks ChainsPure
PROPERTIES StepsByOne PredictionsJustified
