\* Two bytes each way, one of them in the buffer; the peers may stay silent and
\* stop reading.
SPECIFICATION FairSplice
CONSTANTS
  MaxData = 2
  Buffer = 1
INVARIANTS
  EndMeansAll
PROPERTIES
  AllDelivered
  EndPropagates
CHECK_DEADLOCK FALSE
