\* Frames of their real sizes, 71 and 63 bytes, with one damage to each.
CONSTANTS
  CommandMessages <- SomeCommands
  EventMessages <- SomeEvents
  RecordMessages <- SomeRecords
SPECIFICATION FramesSpec
INVARIANTS DecodesWhatWasSent EncodersAgree
PROPERTIES UndamagedIsDecoded
