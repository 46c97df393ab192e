SPECIFICATION Spec
CONSTANTS
  c1 = c1
  c2 = c2
  ip1 = ip1
  ip2 = ip2
  Clients = {c1, c2}
  Ips = {ip1}
  AddressOf <- OneAddress
  Garbled = Garbled
  Descriptors = {f1, f2}
  None = None
  Users = {alice, bob}
  DisableLdap = FALSE
  BAN_TRIES = 2
  MaxRequests <- ThreeEach
SYMMETRY Symmetric
INVARIANTS TypeOK OwnDescriptor MailUnderProvenName GuessesBounded ServerInv
\* Clients have no more requests in the end.
CHECK_DEADLOCK FALSE
