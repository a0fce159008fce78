SPECIFICATION Spec
CONSTANT
  MaxDrops = 3
PROPERTIES
  ReadStructuresDeleted
