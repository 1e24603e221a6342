SPECIFICATION Spec
CONSTANTS
  Doc <- MCDoc
  Feature <- MCFeature
  FeatureSets <- MCFeatureSets
  Confs <- MCConfs
CHECK_DEADLOCK FALSE
INVARIANTS TypeOK SlicesPart RowsAreDocuments CountsAreOfDocuments
