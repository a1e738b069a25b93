CONSTANTS
  None = None
  a = a
  b = b
  one = one
  i1 = i1
  i2 = i2
  Instances = {i1, i2}
  Keys = {a, b, one}
  Deletions <- SomeDeletions
  Selections <- SomeSelections
  References <- ServiceReferences
  Documents <- BareDocument
  Bootstrap <- FirstDocument
  MaxSaves = 1
  MaxCrashes = 1
SPECIFICATION FairSpec
PROPERTY EveryInstanceFollows
 
