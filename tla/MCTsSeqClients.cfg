SPECIFICATION Spec
CONSTANTS
  Clients = {"a", "b"}
  Ids = {"id1", "id2"}
  IdsOf <- ProberIds
  Forget = 3
  MaxSeq = 4
PROPERTY PerClientNumbers
CHECK_DEADLOCK FALSE
