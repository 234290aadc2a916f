SPECIFICATION FairSpec
CONSTANTS
  Markets = {m1, m2}
  MaxChanges = 2
  MaxConnections = 2
INVARIANTS
  TypeOK
  BooksGenuine
  BookIsFed
  InSync
PROPERTIES
  ImplementsFeed
  Recovers
CHECK_DEADLOCK FALSE
