CONSTANTS
  Threads = {t1, t2}
  NoThread = NoThread
  GCount = 3
  Fpg = 2
  Ipg = 1
  Rbcount = 2
  MaxLeaks = 1
  Reserved <- MCReserved
SPECIFICATION FairSpec
INVARIANTS TypeOK NoDoubleAlloc BitmapExact CountsExact TotalsExact NoPanic TriedAll
PROPERTIES ImplementsPool CallsReturn
