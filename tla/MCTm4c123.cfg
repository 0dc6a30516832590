\* Everyday requests of a host that configures the device and leaves it so.
CONSTANTS
  configsCount = 1
  interfaceCount = 1
  interfaceDescriptorCount = 1
  endpointDescriptorCount = 1
  stringCount = 1
  epBufferSize = 8
  ConfigLength <- MCConfigLength
  StringLength <- MCStringLength
  Requests <- Configured
  Abandonable <- GivenUp
  ClassAnswers <- ADriver
  Payloads <- AnyData
  PromptIRQ = TRUE
  RudeCuts = FALSE
SPECIFICATION FairSpec
\* The application may leave the device detached for good.
CHECK_DEADLOCK FALSE
INVARIANTS
  TypeOK
  AddressAgreement
  ConfigAgreement
  NoDeadTransfer
  DispatchedToHandlers
PROPERTIES
  AddressAfterStatus
  ResetServed
  OnlySetupsAreRequests
  ImplementsControlTransfer
