-------------------------- MODULE MCMailRepository --------------------------
(* Small instances of MailRepository for TLC.                              *)
EXTENDS MailRepository, TLC

CONSTANTS t1, t2

(* Threads are only compared for equality, and so are ids.                 *)
Symmetric == Permutations(Threads) \cup Permutations(Ids)

alice     == <<"alice">>
bob       == <<"bob">>
bobsSent  == <<"bob", "sent">>
mailFiles == <<"..", "mails">>

AliceAndBob == {alice, bob}
BobTwice    == {bob, bobsSent}
BobAndFiles == {bob, mailFiles}

(* The folder of what bob has sent is also where mail to "bob/sent" goes,  *)
(* and what a session of that name deletes from.                           *)
Crossing == {<<bob, <<bob>>>>, <<bobsSent, <<bob, bobsSent>>>>}

(* From bob, to himself and to where a file stands in the way of the link. *)
Intruding == {<<bob, <<bob, mailFiles>>>>}

ToBoth == {<<alice, <<alice, bob>>>>}

=============================================================================
