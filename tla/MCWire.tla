-------------------------------- MODULE MCWire --------------------------------
(* A small instance of Wire for TLC: alice and bob, names of at most two   *)
(* characters, subjects of one, and blocks of four.                        *)
EXTENDS Wire

alice == <<"a">>
bob   == <<"b", "o">>

MCAccounts == {<<alice, <<"p">>>>, <<bob, <<"p">>>>, << <<"l", "o", "n", "g">>, <<"p">> >>}
MCIds      == <<"id1", "id2", "id3", "id4", "id5">>
MCChars    == Keywords \cup {NL, SP, ".", "OK", "ERR"} \cup Range(MCIds)
                \cup {"0", "1", "2", "3", "4", "5"}
                \cup {"a", "b", "o", "l", "n", "g", "p", "q", "s", "x"}

Login(user, keys) == [kind |-> "LOGIN", user |-> user, keys |-> keys]
Mail(to, subject, body) ==
  [kind |-> "SEND", receivers |-> to, subject |-> subject, body |-> body]
About(kind, id) == [kind |-> kind, id |-> id]

Logins ==
  {Login(alice, <<"p">>), Login(bob, <<BACKSPACE, "q", BACKSPACE, "p">>), Login(alice, <<"q">>),
   Login(<<"l", "o", "n", "g">>, <<"p">>)}

\* Within the limits: plain, with an empty line, to two with spaces in excess,
\* and one that fills its blocks.
GoodMails ==
  {Mail(alice, <<"s">>, << <<"x">> >>),
   Mail(<<SP>> \o alice \o <<SP, SP>> \o bob, <<>>, << <<>>, <<"x">> >>),
   Mail(alice, <<"s">>, << <<"x", "x">> >>)}

\* No receiver, a name or a subject that is too long, no text.
BadMails ==
  {Mail(<<SP>>, <<"s">>, << <<"x">> >>), Mail(<<"l", "o", "n">>, <<"s">>, << <<"x">> >>),
   Mail(alice, <<"s", "s">>, << <<"x">> >>), Mail(alice, <<"s">>, <<>>)}

MCTyped ==
  Logins \cup GoodMails \cup BadMails
    \cup {[kind |-> "LIST"], [kind |-> "LIST_SENT"]}
    \cup {About(k, id) : k \in {"READ", "DEL"}, id \in {<<"id1">>, <<"x">>}}

\* The inverse of split() but for the delimiter at the end.
ASSUME SplitIsInverse ==
  \A t \in BoundedSeq({NL, "x"}, 5) :
    Unlines(Lines(t)) = IF t # <<>> /\ Last(t) = NL THEN t ELSE t \o <<NL>>

=============================================================================
