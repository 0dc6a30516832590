\* Reads, writes, resets and suspends under fairness.
CONSTANTS
  configsCount = 1
  interfaceCount = 1
  interfaceDescriptorCount = 1
  endpointDescriptorCount = 1
  stringCount = 1
  epBufferSize = 8
  ConfigLength <- MCConfigLength
  StringLength <- MCStringLength
  Requests <- Basic
  Abandonable = {}
  ClassAnswers <- ADriver
  Payloads <- BlankData
  PromptIRQ = TRUE
SPECIFICATION FairSpec
\* The application may leave the device detached for good.
CHECK_DEADLOCK FALSE
PROPERTIES
  TransferEnds
  ResetServed
  WakeupServed
