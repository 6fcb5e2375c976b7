SPECIFICATION Spec
CONSTANTS
  writer = writer
  other_writer = other_writer
  reader = reader
  plain_writer = plain_writer
  key = key
  old = old
  new = new
  None = None
  Procs <- MCProcs
  Capable <- MCCapable
  Readers <- MCReaders
  Keys <- MCKeys
  Values <- MCValues
  MaxOpens = 4
INVARIANTS
  FileTypeOK
  SchemaAtVersion
  OpenedIsCurrent
  IndexSound
SYMMETRY MCSymmetry
CHECK_DEADLOCK FALSE
