SPECIFICATION Spec
CONSTANT WIDTH = 4
INVARIANTS
  AluMatchesManual
  ProductsMatchManual
  QuotientsMatchManual
