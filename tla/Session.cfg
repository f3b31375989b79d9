SPECIFICATION Spec
CONSTANTS
  IDSs = {magnetics, summary}
  Upgrade = TRUE
  Conversion = TRUE
  MaxWrites = 5
INVARIANTS ReadsBack FilesLinked
PROPERTIES NoTablesBeside MapSpec
SYMMETRY IdsSymmetry
