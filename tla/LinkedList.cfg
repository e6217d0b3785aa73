SPECIFICATION Spec
CONSTANTS
  Items = {i1, i2, i3, i4}
  Payloads = {a, b}
  NULL = NULL
INVARIANTS Ring NoDangling
PROPERTIES Returns ImplementsSequence
