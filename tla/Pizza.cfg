SPECIFICATION FairSpec
CONSTANTS
  Customers = {c1, c2, c3}
  NumWaiters = 3
  NoParcel = NoParcel
  Garbage = Garbage
  NoCustomer = NoCustomer
  MayQuit = {c2}
  Versions = {"pause", "ace"}
CHECK_DEADLOCK FALSE
INVARIANT TypeOK
INVARIANT ParcelsRight
INVARIANT OrdersInTurn
PROPERTY EveryCustomerServed
