SPECIFICATION Spec
CONSTANTS
  MAX_LEN = 8
  Messages <- MCAllMessages
INVARIANTS TypeOK BytesKept MethodRestored UploadComplete
PROPERTIES FramingRespected CompleteIsTaken
CHECK_DEADLOCK FALSE
