------------------------------ MODULE WireClaims ------------------------------
(* What comments and the client say of the exchange of messages and the    *)
(* code does not keep.                                                     *)
EXTENDS MCWire

(* client.cpp:43: the server should always at least send OK or ERR, so a   *)
(* client that waits gets a reply or finds the connection closed.  When    *)
(* the request or the reply fills its blocks both ends wait in readAll().  *)
EveryRequestIsAnswered == client.at = "read" ~> client.at # "read"

(* client.cpp:88: a mail that the client reports as sent has been stored.  *)
(* Once the network has cut a request every reply is taken for that to the *)
(* request after its own.                                                  *)
SentIsStored ==
  [][request # None /\ request.kind = "SEND" /\ request' = None
       /\ shown' # None /\ shown'.result = "done" =>
     \E i \in DOMAIN world.mails :
       /\ world.mails[i].receivers = Words(request.receivers)
       /\ world.mails[i].subject = request.subject
       /\ world.mails[i].content = Unlines(request.body)]_vars

=============================================================================
