CONSTANTS
  Table <- MCTable
  Ix <- MCIx
  MaxMishaps = 1
SPECIFICATION Spec
INVARIANTS CatalogSound CanStart CompleteSurvives
