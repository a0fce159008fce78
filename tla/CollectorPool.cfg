SPECIFICATION FairSpec
CONSTANTS
  Slots = 4
  MaxDatagrams = 10
  Receiver = {"receive", "receive1"}
INVARIANTS
  LostInLaps
PROPERTIES
  ImplementsQueue
  StoredIsProcessed
