\* at() against its documentation.
CONSTANTS
  Global = {1, 2}
  Attribute = {0}
  Local = {0}
  MaxSize = 2
  MaxSeqNo = 2
SPECIFICATION Spec
INVARIANT AtThrowsOnlyIfUnknown
CHECK_DEADLOCK FALSE
