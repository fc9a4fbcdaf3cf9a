SPECIFICATION Spec
CONSTANTS
  k1 = k1
  k2 = k2
  k3 = k3
  r1 = r1
  r2 = r2
  d1 = d1
  d2 = d2
  NoKey = NoKey
  Keys <- MCKeys
  Reqs <- MCReqs
  Removers <- MCRemovers
  SavedKeys <- MCSavedKeys
  MaxOps = 3
  MaxFaults = 1
SYMMETRY Symmetry
CHECK_DEADLOCK FALSE
INVARIANTS TypeOK LoneRequestLandsOnCurrent RegisteredIsSaved QuietTableMatchesMemory
