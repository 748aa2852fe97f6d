SPECIFICATION Spec
CONSTANTS
  Threads = {t1, t2}
  Handles = {h1, h2}
  None = None
  MaxContexts = 2
  MaxGeneration = 3
SYMMETRY Symmetry
INVARIANTS TypeOK OneSlotPerHandle CacheSound OwnSlot ShadowSound
PROPERTIES ImplementsMap
