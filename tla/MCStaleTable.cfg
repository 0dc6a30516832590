\* A table read given up, then GET_CONFIGURATION, whose answer is one byte of
\* SRAM.  At the one distance the part seems to have 32 bytes left, at the other
\* one, which happens to be right.
CONSTANTS
  epBufferSize = 8
  Chips = {"stm32f1", "tm4c123gh6pm"}
  Tables <- MCTable
  Lengths = {255}
  Gaps = {1001, 1032}
  Sizes = {1}
SPECIFICATION StaleSpec
PROPERTIES
  WritesEnd
