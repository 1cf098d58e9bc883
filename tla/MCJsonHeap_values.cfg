SPECIFICATION GivingSpec
CONSTANTS
  Vars = {v1, v2}
  Blocks = {b1, b2, b3}
  Nil = Nil
  Keys = {k1}
  Atoms = {x, y}
  MaxDepth = 2
  MaxLen = 2
INVARIANTS TypeOK OwnedOnce ComparesLeaves
PROPERTY ImplementsValues
SYMMETRY Symmetry
CHECK_DEADLOCK FALSE
