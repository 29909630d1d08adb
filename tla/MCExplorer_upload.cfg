SPECIFICATION ExplorerSpec
CONSTANT
  Readers = {r1}
PROPERTY
  UploadLandsInDir
CHECK_DEADLOCK FALSE
