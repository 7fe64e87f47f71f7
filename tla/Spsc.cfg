CONSTANTS Capacity = 4
          Events = 6
SPECIFICATION FairSpec
INVARIANTS IndInv SlotOwnership DestructorExact
PROPERTIES SampleBounds ImplementsFifo EveryPushPopped EveryPushSucceeds
