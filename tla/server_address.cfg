SPECIFICATION Spec
CONSTANTS
  c1 = c1
  c2 = c2
  ip1 = ip1
  ip2 = ip2
  Clients = {c1, c2}
  Ips = {ip1, ip2}
  AddressOf <- TwoAddresses
  Garbled = Garbled
  Descriptors = {f1, f2}
  None = None
  Users = {alice}
  DisableLdap = FALSE
  BAN_TRIES = 1
  MaxRequests <- OneEach
INVARIANTS AddressIsHis
\* Clients have no more requests in the end.
CHECK_DEADLOCK FALSE
