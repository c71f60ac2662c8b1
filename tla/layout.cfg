SPECIFICATION Spec
CONSTANTS
  Layouts <- SomeLayouts
  Values <- SomeValues
INVARIANTS InsideSlot
PROPERTIES FieldsAreIndependent
