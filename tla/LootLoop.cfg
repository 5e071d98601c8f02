SPECIFICATION LootSpec
CONSTANTS
  MaxCapacity = 12
  MaxAvailable = 6
INVARIANTS NeverOverdraws TakesAllItCan
CHECK_DEADLOCK FALSE
