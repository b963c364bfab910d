\* A refused configuration against radio.rs:37.
SPECIFICATION Spec
CONSTANTS
  first = first
  second = second
  refused = refused
  Configs = {first, second, refused}
  BandOf <- OneOfEach
  Valid = {first, second}
  Start = first
  Heard = {"09", "24"}
  Tries = 2
  Frames = 3
  MaxEdges = 2
  MaxRequests = 3
INVARIANTS AppliedMeansOn
