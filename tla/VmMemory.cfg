SPECIFICATION Spec
CONSTANTS
  Stack_size = 16
  Stack_threshold = 12
  Required = 40
  Frame = 2
  MaxPush = 2
  Constants = {1, 2}
  Uses <- Mentioned
  Global_data_size = 1
  Chunk = 2
  MaxDepth = 6
  MaxSlots = 3
INVARIANTS InBounds NoStaleWord SlotsHold
PROPERTIES GrowthEnds
CHECK_DEADLOCK FALSE
