SPECIFICATION Spec
CONSTANTS
  Scripts <- MCScripts
  BufferSize = 2
  SocketSize = 3
  Failing = {"SERVER", "CLIENT"}
INVARIANTS TypeOK NeverWaitsUnsent
PROPERTIES ImplementsChannel EveryByteArrives PeerEnds
