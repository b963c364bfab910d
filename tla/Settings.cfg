SPECIFICATION Spec
CONSTANTS
  Modules = {0}
  Configs <- SomeConfigs
  Modulations <- SomeModulations
  HasAnt24 = TRUE
  HasFpga = TRUE
  MaxFaults = 1
INVARIANTS TypeOK AsReported
