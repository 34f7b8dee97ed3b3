SPECIFICATION ProvidersSpec
CONSTANTS
  Endpoints = {t1, t2, t3}
  MaxId = 3
SYMMETRY Symmetric
INVARIANT DefaultIsTheLastSet
