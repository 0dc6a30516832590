\* Every table, cut at every length, on the three chips.
CONSTANTS
  epBufferSize = 8
  Chips = {"stm32f1", "tm4c123gh6pm", "atxmega256a3u"}
  Tables <- MCTables
  Lengths = {0, 1, 2, 3, 7, 8, 9, 10, 11, 12, 13, 14, 15, 16, 18, 21, 25, 255}
SPECIFICATION Spec
INVARIANTS
  TypeOK
  PacketsHoldTheTable
PROPERTIES
  EveryTurnSends
