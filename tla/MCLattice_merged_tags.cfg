SPECIFICATION Spec
CONSTANTS
  a = a
  b = b
  x = x
  symTag = symTag
  discarded = discarded
  token = token
  pl = pl
  NoText = NoText
  Tag <- MCTag
  PlaneTag = {pl}
  Symbol = symTag
  Discarded = discarded
  LowestScore <- MCLowestScore
  Char = {a, b}
  Category = {x}
  Strings <- OneString
  Corrections = {}
  Annotations <- IndexAnnotations
  PartitionTags = {{token}}
  Scores = {0}
  Masks <- IndexMasks
  MaxPath = 0
  MaxText = 2
  MaxLoose = 0
  MaxEdges = 2
  MaxPartitions = 2
  MaxCount = 2
INVARIANTS
  IndexComplete
