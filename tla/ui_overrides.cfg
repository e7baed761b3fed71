SPECIFICATION Spec
CONSTANTS
  v1 = v1  v2 = v2
  VMs = {v1, v2}
  None = None
  Nics = {1, 2}
  Bare = {}
  PoweredOff = {v2}
  Empty = "none"
  Discovered <- Inventory
  Typed = {"none", "a", "two", "bad"}
  Multi = {"two"}
  Malformed = {"bad"}
  Credentials = {TRUE, FALSE}
  Impatient = FALSE
  Overtaken = FALSE
  Reloads = FALSE
  MaxOpens = 2
  MaxEdits = 3
  MaxFaults = 1
INVARIANTS TypeOK AppliedAsShown AssignedWellFormed
