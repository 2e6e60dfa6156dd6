SPECIFICATION ConfigSpec
CONSTANTS
  Tokens = {A}
  Unset = Unset
  MaxOptions = 1
INVARIANTS
  SchemeIsOverriddenQuietly
