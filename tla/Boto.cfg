SPECIFICATION Spec
CONSTANTS
  Requests = {r1, r2}
  Hosts = {h1, h2}
  Free = Free
  IsSecure = TRUE
  NUM_RETRIES = 2
  CONNECTIONS_PER_HOST = 1
CHECK_DEADLOCK FALSE
INVARIANTS OnlyUnreadBodiesBlock PoolNeedsCrowdOrStrays
PROPERTY Ends
