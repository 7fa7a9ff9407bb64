CONSTANTS
  Updaters = {ota}
  Readers = {inference}
  Addresses = {a1, a2, a3, a4, a5}
  MaxStages = 4
SPECIFICATION FairSpec
INVARIANTS
  NoUseAfterUnmap
  OneOwner
  HandlesMatchRegions
PROPERTY RetiredUnmapped
CHECK_DEADLOCK FALSE
