CONSTANTS
  Size = 5
  PageSize = 2
  Byte = {0, 1}
  Width = {1, 2, 4, 8}
  MaxOffset = 6
SPECIFICATION Spec
INVARIANT TypeOK
PROPERTY FlatSpec
