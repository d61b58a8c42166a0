SPECIFICATION UploadSpec
CONSTANTS
  Packets <- UploadPackets
  Size <- HeaderAndPayload
  MaxRead = 4
  Capacity = 8
  MaxPackets = 15
  Files = {"long", "short"}
  Content <- TwoContents
  Old <- OldFiles
  MaxUploads = 3
  None = None
INVARIANTS TypeOK FilesAreWholeOrEmpty
PROPERTIES ChannelSpec PipeSpec PromptUploadsAreWhole
CHECK_DEADLOCK FALSE
