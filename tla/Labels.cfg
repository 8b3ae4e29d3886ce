SPECIFICATION Spec
CONSTANTS
  Objects = {o1, o2}
  Alphabetic = {"a", "x", "n"}
  Numeric = {"9"}
  Foreign = {"e acute"}
  Names <- SomeNames
  Values <- SomeValues
  Lists <- SomeLists
  MaxLabels = 2
SYMMETRY Symmetry
INVARIANTS
  TypeOK
  CacheCurrent
  TextIdentifies
