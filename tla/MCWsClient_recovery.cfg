SPECIFICATION FairSpec
CONSTANTS
  m = m
  r = r
  k1 = k1
  k2 = k2
  Main = Main
  Reader = Reader
  Beater = Beater
  Monitors = {m}
  Reconnectors = {r}
  Conns = {k1, k2}
  NoConn = NoConn
INVARIANTS TypeOK OneConnection
PROPERTIES Reconnects Authenticated ReaderStops
\* A stopped client need not be started again.
CHECK_DEADLOCK FALSE
