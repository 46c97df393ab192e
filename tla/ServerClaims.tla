---------------------------- MODULE ServerClaims ----------------------------
(* What the documentation says of the addresses of connections and the     *)
(* code does not keep.                                                     *)
EXTENDS MCSocketServer

(* Documentation.md:17: the address that is recorded for a wrong password  *)
(* is that of the user who entered it.  The thread reads it from a buffer  *)
(* that the accept loop is free to use for the next connection.            *)
AddressIsHis ==
  \A c \in Clients : session[c].ip # None => session[c].ip = AddressOf[c]

=============================================================================
