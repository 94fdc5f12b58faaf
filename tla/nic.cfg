CONSTANTS
  RX_DESC_COUNT = 3
  TX_DESC_COUNT = 3
  Setups <- MCSetups
  Senders = {s1}
  MaxReceived = 5
  MaxSent = 5
SPECIFICATION FairSpec
CHECK_DEADLOCK FALSE
INVARIANTS QueueSectionsExclude BuffersConserved
PROPERTIES RxImplementsFifo TxImplementsFifo ReceivedIsDelivered
