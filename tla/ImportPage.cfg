SPECIFICATION Spec
CONSTANTS
  x = x
  y = y
  NoLabel = NoLabel
  Label = {x, y}
  Printed = {y}
  Worn <- WornParts
  Files <- SomeFiles
  Upload = {u1, u2}
  Task = {t1, t2}
  ChunkSize = 1
  Poll = {i1}
  NoUpload = NoUpload
INVARIANTS TypeOK RowsCountedOnce ProcessedExist 
PROPERTIES ImportEnds ImportingLeft
CHECK_DEADLOCK FALSE
