SPECIFICATION Spec
CONSTANTS
  Modules = {0, 1}
  Configs <- FewConfigs
  Modulations <- FewModulations
  HasAnt24 = FALSE
  HasFpga = TRUE
  MaxFaults = 0
INVARIANT AcceleratedHasFpga
