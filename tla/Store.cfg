SPECIFICATION Spec
CONSTANTS
  Key = {k1, k2}
  Value = {v}
  Absent = absent
  Tombstone = tombstone
  FlushSize = 2
  MaxLevels = 1
  MaxResets = 2
  LevelBound = 3
  SpawnBound = 2
INVARIANTS TypeOK InputIsPrefix SnapshotIsContents
PROPERTIES RefinesMap
VIEW StoreView
SYMMETRY KeySymmetry
