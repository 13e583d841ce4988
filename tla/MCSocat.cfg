SPECIFICATION Spec
CONSTANTS
  Clients = {"a"}
  Ids = {"123", "ABC"}
  IdsOf <- SocatIds
  Forget = 2
  MaxSeq = 3
PROPERTY PerClientNumbers
CHECK_DEADLOCK FALSE
