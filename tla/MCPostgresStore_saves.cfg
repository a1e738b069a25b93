CONSTANTS
  None = None
  a = a
  b = b
  one = one
  i1 = i1
  i2 = i2
  Instances = {i1, i2}
  Keys = {a, b, one}
  Deletions <- SomeDeletions
  Selections <- SomeSelections
  References <- ServiceReferences
  Documents <- GrownDocument
  Bootstrap <- FirstDocument
  MaxSaves = 2
  MaxCrashes = 0
SPECIFICATION Spec
SYMMETRY Symmetry
INVARIANT SignatureIsHonest
INVARIANT NothingIsAhead
 
