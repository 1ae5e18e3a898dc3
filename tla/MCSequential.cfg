CONSTANTS
  MaxLen = 4
  Keys = {1, 2}
  Values = {1, 2}
SPECIFICATION Spec
INVARIANT OutputMatchesReference
