SPECIFICATION Spec
CONSTANTS
  MaxMessageSize = 1
  CompactAt = 2
  Bytes <- MCBytes
  MaxBytes = 6
  HttpStatuses <- MCHttpStatuses
  GrpcStatuses <- MCGrpcStatuses
  ErrorCodes <- MCErrorCodes
INVARIANTS
  CutsDoNotMatter
  OkIsOneMessage
  BufferBounded
PROPERTIES
  ResultFinal
