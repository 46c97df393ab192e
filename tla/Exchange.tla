------------------------------- MODULE Exchange -------------------------------
(***************************************************************************)
(* What the user of a client is promised: a request that he types is taken *)
(* up once, as he typed it, and he is shown what became of it before he    *)
(* types the next.  There are no texts on the way and no blocks here.      *)
(***************************************************************************)
EXTENDS Requests

CONSTANTS
  Typed,   \* the requests that users type
  None     \* no request, no answer

VARIABLES
  client,  \* "here" or "gone"
  asked,   \* the request that the client waits for
  answer,  \* what became of it, once it has been taken up
  shown,   \* what the user was shown last
  user,    \* who is logged in
  world    \* the mails

exchange == <<client, asked, answer, shown, user, world>>

Result(result, lines) == [result |-> result, lines |-> lines]
Failed == Result("failed", <<>>)

(* The documented limits of a mail; the client has always asked for a line *)
(* of text, and a mail without one is refused.                             *)
GoodMail(r) ==
  /\ Words(r.receivers) # <<>> /\ r.body # <<>>
  /\ \A name \in ToSet(Words(r.receivers)) : Len(name) <= MaxName
  /\ Len(r.subject) <= MaxSubject

MailOf(r, sender) ==
  [sender |-> sender, receivers |-> Words(r.receivers),
   subject |-> r.subject, content |-> Unlines(r.body)]

(* What a reader sees of a mail: sender, receivers, subject, the text and  *)
(* a blank line.                                                           *)
Page(mail) ==
  <<mail.sender,
    FlattenSeq([i \in DOMAIN mail.receivers |-> mail.receivers[i] \o <<SP>>]),
    mail.subject>> \o Lines(mail.content) \o << <<>> >>

Catalogue(entries) == << <<Numeral(Len(entries))>> >> \o entries

Outcome(r) ==
  LET result(x) == [answer |-> x, user |-> user, world |-> world]
      refused == {result(Failed)}
      i == Number(r.id)
  IN IF r.kind = "LOGIN"
     THEN refused \cup
            (IF <<r.user, Password(r.keys)>> \in Accounts /\ Len(r.user) <= MaxName
             THEN {[result(Result("done", <<>>)) EXCEPT !.user = r.user]} ELSE {})
     ELSE IF user = Nobody THEN refused
     ELSE CASE r.kind = "SEND" /\ GoodMail(r) ->
                 {[result(Result("done", <<>>)) EXCEPT
                     !.world = Added(world, MailOf(r, user))]}
            [] r.kind = "LIST" ->
                 {result(Result("done", Catalogue(Entries(world, Inbox(world, user)))))}
            [] r.kind = "LIST_SENT" ->
                 {result(Result("done", Catalogue(Entries(world, Sent(world, user)))))}
            [] r.kind = "READ" /\ IsUuid(r.id) /\ i \in DOMAIN world.mails ->
                 {result(Result("done", Page(world.mails[i])))}
            [] r.kind = "DEL" /\ IsUuid(r.id) /\ i \in Inbox(world, user) ->
                 {[result(Result("done", <<>>)) EXCEPT
                     !.world.inbox = @ \ {<<user, i>>}]}
            [] OTHER -> refused

Init ==
  /\ client = "here" /\ asked = None /\ answer = None /\ shown = None
  /\ user = Nobody /\ world = NoMail

Ask ==
  /\ client = "here" /\ asked = None
  /\ \E r \in Typed : asked' = r
  /\ UNCHANGED <<client, answer, shown, user, world>>

(* Also when the client has gone: its request may be on the way.           *)
TakeUp ==
  /\ asked # None /\ answer = None
  /\ \E o \in Outcome(asked) :
       answer' = o.answer /\ user' = o.user /\ world' = o.world
  /\ UNCHANGED <<client, asked, shown>>

Show ==
  /\ client = "here" /\ answer # None
  /\ shown' = answer
  /\ asked' = None /\ answer' = None
  /\ UNCHANGED <<client, user, world>>

(* The user quits, or the connection ends with or without an answer.       *)
Leave ==
  /\ client = "here" /\ client' = "gone"
  /\ UNCHANGED <<asked, answer, shown, user, world>>

ComeBack ==
  /\ client = "gone" /\ client' = "here"
  /\ asked' = None /\ answer' = None /\ shown' = None /\ user' = Nobody
  /\ UNCHANGED world

Next == Ask \/ TakeUp \/ Show \/ Leave \/ ComeBack

Spec == Init /\ [][Next]_exchange

=============================================================================
