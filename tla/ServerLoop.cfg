SPECIFICATION Spec
CONSTANTS
    Slots <- MCSlots
    LongIdle = TRUE
PROPERTIES
    SlotFreed
    TableNeverStuck
    UnusedWhenIdle
