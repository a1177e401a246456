SPECIFICATION FairSpec
CONSTANTS
  NumOrders = 4
  OnionOrders <- MCOnionOrders
  MayFail = TRUE
INVARIANTS TypeOK DeliveredOnce AsOrdered NeverThrows AllDelivered
PROPERTY Finishes
