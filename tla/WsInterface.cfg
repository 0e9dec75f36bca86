SPECIFICATION Spec
CONSTANTS
  WsConns = {c1, c2, c3, c4}
  GpioConns = {g1}
  FsConns = {f1}
  Conns <- MCConns
  RouteOf <- MCRouteOf
  MaxClients = 3
  MaxMessages = 4
SYMMETRY ConnSymmetry
CHECK_DEADLOCK FALSE
INVARIANTS
  TypeOK
  Delivered
