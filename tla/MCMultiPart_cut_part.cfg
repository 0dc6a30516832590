\* Every table, cut at every length, on the TM4C123.
CONSTANTS
  epBufferSize = 8
  Chips = {"tm4c123gh6pm"}
  Tables <- MCTables
  Lengths = {0, 1, 2, 3, 7, 8, 9, 10, 11, 12, 13, 14, 15, 16, 18, 21, 25, 255}
SPECIFICATION Spec
INVARIANTS
  AnyCutHoldsTheTable
