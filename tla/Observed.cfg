CONSTANTS
  Pids = {2, 3, 4, 5}
  Adopter = 3
  Comms <- MCComms
  Matching = {"claude"}
  Spaced = {"npm exec"}
  Misread = {0, 5}
  Existing <- MCExisting
  Cores = 1
  MaxClock = 2
  MaxLives = 2
  MaxOps = 5
  MaxMonitored = 2
  Configs <- MCConfigs
  Word = 8
SPECIFICATION Spec
INVARIANTS TypeOK StableCounted FamilyCountedOnce SoundShares AllDrawn
CHECK_DEADLOCK FALSE
