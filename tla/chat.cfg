SPECIFICATION FairSpec
CONSTANTS
  w1 = w1 w2 = w2
  Workers = {w1, w2} NoOne = NoOne NoTok = NoTok
  MaxReqs = 2 MaxSends = 3 MaxOps = 2 MaxEntries = 1
INVARIANTS AcceptedIsKept ConfirmedAsShown
PROPERTIES NotReapplied PublishedIsVisible RequestsEnd
CHECK_DEADLOCK FALSE
