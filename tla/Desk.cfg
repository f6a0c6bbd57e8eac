SPECIFICATION Spec
CONSTANTS
  Calls = {p1, p2}
  ActionIds = {a1}
  NoAction = NoAction
  Tiers = {1, 2, 3}
  Humans = {alice}
  Grant = grant
  Faults = {"put", "crash"}
  MaxFaults = 1
SYMMETRY Perms
INVARIANTS GateHolds TargetIntegrity BrakeHolds AppliedWasDelivered
