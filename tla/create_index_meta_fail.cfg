\* CREATE INDEX on a created table, with one I/O error allowed.
CONSTANTS
  IndexNames = {i1}
  MaxFaults = 1
SPECIFICATION Spec
CHECK_DEADLOCK FALSE
INVARIANT IndexesMatchMeta
