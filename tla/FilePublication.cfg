SPECIFICATION PublicationSpec
CONSTANT StoreCount = 3
INVARIANTS
  PublicationIsSound
  StoredOnce
PROPERTIES
  NeverReplaced
CHECK_DEADLOCK FALSE
