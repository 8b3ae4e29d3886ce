SPECIFICATION Spec
CONSTANTS
  Names <- SomeNames
  Helps <- SomeHelps
  LabelSets <- SomeLabels
  Given <- SomeGiven
  Infinity = 1000000000
  MaxMetrics = 3
INVARIANTS
  TypeOK
  SeriesDistinct
  LabelsDistinct
