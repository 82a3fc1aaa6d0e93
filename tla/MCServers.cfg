SPECIFICATION SceneSpec
CONSTANTS
  q1 = q1
  q2 = q2
  t1 = t1
  x1 = x1
  x2 = x2
  y1 = y1
  h1 = h1
  h2 = h2
  u1 = u1
  r1 = r1
  r2 = r2
  r3 = r3
  p1 = p1
  home = home
  None = None
  NativeConns <- TheNativeConns
  NativeKinds <- TheNativeKinds
  NativeSources <- TheNativeSources
  NativeStreams <- TheNativeStreams
  NativeOwners <- TheNativeOwners
  NativeConfigs <- TheConfigs
  DefaultMaxConnections = 1
  DefaultMaxClientConnections = 2
  DefaultMaxStreams = 2
  WebConns <- TheWebConns
  WebKinds <- TheWebKinds
  WebSources <- TheWebSources
  WebRequests <- TheWebRequests
  WebOwners <- TheWebOwners
  Attempts = 2
  MaxConnections = 2
  MaxClientConnections = 1
  MaxStreams = 1
CHECK_DEADLOCK FALSE
INVARIANTS NothingAfterClose OneLeader
PROPERTIES ImplementsSlotPool Settles
