\* Two requests of any kind with any header.
CONSTANTS
  None = None
  MaxRequests = 2
SPECIFICATION Spec
INVARIANT CaseInsensitive
CHECK_DEADLOCK FALSE
