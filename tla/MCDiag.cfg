SPECIFICATION DiagSpec
CONSTANTS
  NumChannels = 3
  Configs <- MCConfigs
  Wiring <- MCWiring
  DiagConfigs <- MCDiagConfigs
  Currents = {1}
  Voltages = {0, 1, 2, 5}
  LearnRequests <- MCLearnRequests
  Watched = 1
INVARIANTS
  EngineSound
  IndicatorArmed
  HazardsVisible
  DiagSound
  RideKeepsLights
  DarkReadsNothing
PROPERTIES
  HazardsBorrow
