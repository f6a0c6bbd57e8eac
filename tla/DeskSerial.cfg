SPECIFICATION Spec
CONSTANTS
  Calls = {p1}
  ActionIds = {a1, a2}
  NoAction = NoAction
  Tiers = {1, 2, 3}
  Humans = {alice}
  Grant = grant
  Faults = {"tenant_read"}
  MaxFaults = 1
SYMMETRY Perms
PROPERTIES ImplementsGate
