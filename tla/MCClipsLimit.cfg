CONSTANTS
  Positives = 2
  Negatives = 1
  Alike = {1, 2}
  Variants = 2
  Limit = 1
SPECIFICATION Spec
INVARIANTS
  DocumentedLimit
