SPECIFICATION Spec
CONSTANTS
  IDSs = {magnetics, summary}
  Upgrade = TRUE
  Conversion = TRUE
  MaxWrites = 2
PROPERTY ConvertedIsLabelled
