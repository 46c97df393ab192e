------------------------------- MODULE Requests -------------------------------
(***************************************************************************)
(* The texts that the client and the server of TWMailer exchange: how the  *)
(* client composes a request (client.cpp), how the server takes it apart,  *)
(* validates and answers it (requestProcessor.hpp, the requests,           *)
(* stringUtils.hpp), and what the client makes of the answer.              *)
(*                                                                         *)
(* A text is a sequence of tokens; a keyword, an id or a number is one     *)
(* token.  Lengths count tokens, so the limits are small in an instance.   *)
(* The mail repository is a table here: a request on it is one step.       *)
(***************************************************************************)
EXTENDS Naturals, Sequences, SequencesExt, FiniteSets, TLC

CONSTANTS
  Chars,       \* the tokens of texts
  Accounts,    \* pairs <<user, password>> that the directory accepts
  Ids,         \* the ids of mails, in the order in which they are drawn
  MaxName,     \* limit on the length of a name, 8 in the code
  MaxSubject,  \* limit on the length of a subject, 80 in the code
  Nobody       \* the user of a session that is not authenticated

NL == "\n"
SP == " "
OK  == <<"OK", NL>>
ERR == <<"ERR", NL>>
DOT == <<".">>
Keywords == {"LOGIN", "SEND", "LIST", "LIST_SENT", "READ", "DEL"}

Line == Seq(Chars \ {NL})

(* std::to_string(): a number of mails as one token.                       *)
Numeral(n) == ToString(n)

(* The numbers that are written are numbers of mails.                      *)
ASSUME RequestsConstants ==
  /\ Keywords \cup {NL, SP, ".", "OK", "ERR"} \subseteq Chars
  /\ Ids \in Line
  /\ \A n \in 0 .. Len(Ids) : Numeral(n) \in Chars \ {NL}

-----------------------------------------------------------------------------
(* string::find(): where the delimiter comes next, or the end.             *)
Find(text, delim, prev) ==
  Min({i \in prev .. Len(text) : text[i] = delim} \cup {Len(text) + 1})

(* The loop ends when the text does, so there is no empty field after a    *)
(* delimiter at the end, but there is one in an empty text.                *)
Split(text, delim, withEmpty) ==
  LET tokens[prev \in 1 .. Len(text) + 1] ==
        LET pos   == Find(text, delim, prev)
            token == SubSeq(text, prev, pos - 1)
        IN (IF token # <<>> \/ withEmpty THEN <<token>> ELSE <<>>)
             \o (IF pos < Len(text) THEN tokens[pos + 1] ELSE <<>>)
  IN tokens[1]

Lines(text) == Split(text, NL, TRUE)
Words(text) == Split(text, SP, FALSE)

Unlines(lines) == FlattenSeq([i \in DOMAIN lines |-> lines[i] \o <<NL>>])

-----------------------------------------------------------------------------
(* The requests as they are typed into the client.                         *)

(* getPass(): a backspace takes back the key before it, if there is one.   *)
BACKSPACE == "DEL key"
Password(keys) ==
  FoldLeft(LAMBDA p, k : IF k # BACKSPACE THEN Append(p, k)
                         ELSE SubSeq(p, 1, Len(p) - 1), <<>>, keys)

(* getline() and getPass() end at the end of a line.  A line of a dot      *)
(* alone ends the body; it may be in the body here, as nothing needs that  *)
(* it is not.                                                              *)
Typeable(r) ==
  /\ r.kind \in Keywords
  /\ r.kind = "LOGIN" => r.user \in Line /\ Password(r.keys) \in Line
  /\ r.kind = "SEND" =>
       r.receivers \in Line /\ r.subject \in Line /\ r.body \in Seq(Line)
  /\ r.kind \in {"READ", "DEL"} => r.id \in Line

Compose(r) ==
  CASE r.kind = "LOGIN" -> Unlines(<< <<r.kind>>, r.user, Password(r.keys) >>)
    [] r.kind = "SEND"  ->
         Unlines(<< <<r.kind>>, r.receivers, r.subject >> \o r.body \o <<DOT>>)
    [] r.kind \in {"LIST", "LIST_SENT"} -> Unlines(<< <<r.kind>> >>)
    [] r.kind \in {"READ", "DEL"} -> Unlines(<< <<r.kind>>, r.id >>)

Results == [result : {"done", "failed", "abort"}, lines : Seq(Line)]

(* What the client shows for a reply: the message of success or failure,   *)
(* and the lines of a list or a mail.  It takes the lines by number: when  *)
(* there are fewer it ends with out_of_range.                              *)
Shows(r, reply) ==
  LET lines == Tail(Lines(reply))
      least == IF r.kind = "READ" THEN 3 ELSE 1
  IN IF r.kind \in {"LIST", "LIST_SENT", "READ"}
     THEN IF ~IsPrefix(OK, reply) THEN [result |-> "failed", lines |-> <<>>]
          ELSE IF Len(lines) < least THEN [result |-> "abort", lines |-> <<>>]
          ELSE [result |-> "done", lines |-> lines]
     ELSE [result |-> IF reply = OK THEN "done" ELSE "failed", lines |-> <<>>]

-----------------------------------------------------------------------------
(* The server's view of a text.                                            *)

(* The key that process() looks up in its table.                           *)
Keyword(text) ==
  LET end == SelectInSeq(text, LAMBDA c : c = NL)
  IN IF \E k \in Keywords : SubSeq(text, 1, end) = <<k, NL>> THEN Head(text)
     ELSE "unknown"

(* is_uuid() is true for what is no UUID, and its callers reject what it   *)
(* is true for.                                                            *)
IsUuid(line) == \E i \in DOMAIN Ids : line = <<Ids[i]>>

ValidSend(lines) ==
  /\ Len(lines) >= 5
  /\ Words(lines[2]) # <<>>
  /\ \A name \in ToSet(Words(lines[2])) : Len(name) <= MaxName
  /\ Len(lines[3]) <= MaxSubject
  /\ Last(lines) = DOT

IsValid(text) ==
  LET lines == Lines(text)
  IN CASE Keyword(text) = "LOGIN" -> Len(lines) = 3 /\ Len(lines[2]) <= MaxName
       [] Keyword(text) = "SEND"  -> ValidSend(lines)
       [] Keyword(text) \in {"LIST", "LIST_SENT"} -> text = <<Keyword(text), NL>>
       [] Keyword(text) \in {"READ", "DEL"} -> Len(lines) >= 2 /\ IsUuid(lines[2])
       [] OTHER -> FALSE

-----------------------------------------------------------------------------
(* The mails in the order of their SENDs, and who has which in his inbox.  *)

(* A content is made of lines with their ends, and of one at least.        *)
Contents == {text \in Seq(Chars) : text # <<>> /\ Last(text) = NL}
Mails ==
  [sender : Line, receivers : Seq(Line), subject : Line, content : Contents]
Worlds == [mails : Seq(Mails), inbox : SUBSET (Line \X Nat)]

NoMail == [mails |-> <<>>, inbox |-> {}]

Added(world, mail) ==
  [mails |-> Append(world.mails, mail),
   inbox |-> world.inbox \cup (ToSet(mail.receivers) \X {Len(world.mails) + 1})]

Inbox(world, user) == {i \in DOMAIN world.mails : <<user, i>> \in world.inbox}
Sent(world, user)  == {i \in DOMAIN world.mails : world.mails[i].sender = user}

(* A directory is read in no particular order: any one will do.            *)
Entries(world, folder) ==
  [k \in 1 .. Cardinality(folder) |->
     LET i == SetToSeq(folder)[k]
     IN <<Ids[i], SP>> \o world.mails[i].subject]

(* Mutant: the reply does not say how many mails follow.                   *)
ListReply_NoCount(entries) ==
  OK \o Unlines(entries)

ListReply(entries) ==
  OK \o <<Numeral(Len(entries)), NL>> \o Unlines(entries)

(* Mail::toString(): a space follows every receiver.                       *)
MailText(mail) ==
  mail.sender \o <<NL>>
    \o FlattenSeq([i \in DOMAIN mail.receivers |-> mail.receivers[i] \o <<SP>>])
    \o <<NL>> \o mail.subject \o <<NL>> \o mail.content

Number(id) == CHOOSE i \in DOMAIN Ids : <<Ids[i]>> = id

(* What processing a request gives: reply, user of the session, mails.     *)
Done(reply, user, world) == [reply |-> reply, user |-> user, world |-> world]

(* Mutant: the content is taken from the line of the subject on.           *)
ProcessSend_FromSubject(lines, user, world) ==
  Done(OK, user,
       Added(world, [sender |-> user, receivers |-> Words(lines[2]),
                     subject |-> lines[3],
                     content |-> Unlines(SubSeq(lines, 3, Len(lines) - 1))]))

ProcessSend(lines, user, world) ==
  Done(OK, user,
       Added(world, [sender |-> user, receivers |-> Words(lines[2]),
                     subject |-> lines[3],
                     content |-> Unlines(SubSeq(lines, 4, Len(lines) - 1))]))

ProcessRead(lines, user, world) ==
  LET i == Number(lines[2])
  IN Done(IF i \in DOMAIN world.mails
          THEN OK \o MailText(world.mails[i]) \o <<NL>> ELSE ERR, user, world)

ProcessDel(lines, user, world) ==
  LET i == Number(lines[2])
  IN IF i \in Inbox(world, user)
     THEN Done(OK, user, [world EXCEPT !.inbox = @ \ {<<user, i>>}])
     ELSE Done(ERR, user, world)

(* process(): the keyword, the validity, then the session.  A login is     *)
(* accepted or refused; the directory may fail for a right password too.   *)
Process(text, user, world) ==
  LET lines == Lines(text)
  IN IF ~IsValid(text) THEN {Done(ERR, user, world)}
     ELSE IF Keyword(text) = "LOGIN"
     THEN {Done(ERR, user, world)}
            \cup (IF <<lines[2], lines[3]>> \in Accounts
                  THEN {Done(OK, lines[2], world)} ELSE {})
     ELSE IF user = Nobody THEN {Done(ERR, user, world)}
     ELSE {CASE Keyword(text) = "SEND" -> ProcessSend(lines, user, world)
             [] Keyword(text) = "READ" -> ProcessRead(lines, user, world)
             [] Keyword(text) = "DEL"  -> ProcessDel(lines, user, world)
             [] Keyword(text) = "LIST" ->
                  Done(ListReply(Entries(world, Inbox(world, user))), user, world)
             [] Keyword(text) = "LIST_SENT" ->
                  Done(ListReply(Entries(world, Sent(world, user))), user, world)}

=============================================================================
