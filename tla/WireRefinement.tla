---------------------------- MODULE WireRefinement ----------------------------
(***************************************************************************)
(* Wire implements Exchange: what a user sees of the connection is what he *)
(* is promised, for any requests, any length of their texts and any size   *)
(* of block that satisfy WireConstants.                                    *)
(***************************************************************************)
EXTENDS WireProofs

-----------------------------------------------------------------------------
(* Exchange and Wire extend the same module Requests, each for itself: its *)
(* operators mean the same in both.                                        *)

LEMMA SameTexts ==
  /\ \A t : User!Words(t) = Words(t) /\ User!Lines(t) = Lines(t)
  /\ \A t : User!FlattenSeq(t) = FlattenSeq(t) /\ User!Unlines(t) = Unlines(t)
  /\ \A n : User!Numeral(n) = Numeral(n)
<1>1. \A t : User!Words(t) = Words(t)
  BY DEF User!Words, Words, User!Split, Split, User!Find, Find, User!Min, Min,
         User!SP, SP
<1>2. \A t : User!Lines(t) = Lines(t)
  BY DEF User!Lines, Lines, User!Split, Split, User!Find, Find, User!Min, Min,
         User!NL, NL
<1>3. \A t : User!FlattenSeq(t) = FlattenSeq(t) BY DEF User!FlattenSeq, FlattenSeq
<1>4. \A t : User!Unlines(t) = Unlines(t)
  BY <1>3 DEF User!Unlines, Unlines, User!NL, NL
<1>5. \A n : User!Numeral(n) = Numeral(n) BY DEF User!Numeral, Numeral
<1> QED BY <1>1, <1>2, <1>3, <1>4, <1>5

LEMMA SameFields ==
  /\ \A k : User!Password(k) = Password(k)
  /\ \A id : User!Number(id) = Number(id) /\ User!IsUuid(id) = IsUuid(id)
<1>1. \A k : User!Password(k) = Password(k)
  BY Zenon DEF User!Password, Password, User!FoldLeft, FoldLeft,
               User!MapThenFoldSet, MapThenFoldSet, User!BACKSPACE, BACKSPACE,
               User!Max, Max
<1>2. \A id : User!Number(id) = Number(id) BY DEF User!Number, Number
<1>3. \A id : User!IsUuid(id) = IsUuid(id) BY DEF User!IsUuid, IsUuid
<1> QED BY <1>1, <1>2, <1>3

LEMMA SameWorlds ==
  /\ User!NoMail = NoMail
  /\ \A w, m : User!Added(w, m) = Added(w, m)
  /\ \A w, u : User!Inbox(w, u) = Inbox(w, u) /\ User!Sent(w, u) = Sent(w, u)
  /\ \A w, f : User!Entries(w, f) = Entries(w, f)
<1>1. User!NoMail = NoMail BY DEF User!NoMail, NoMail
<1>2. \A w, m : User!Added(w, m) = Added(w, m)
  BY DEF User!Added, Added, User!ToSet, ToSet
<1>3. \A w, u : User!Inbox(w, u) = Inbox(w, u) BY DEF User!Inbox, Inbox
<1>4. \A w, u : User!Sent(w, u) = Sent(w, u) BY DEF User!Sent, Sent
<1>5. \A s : User!Cardinality(s) = Cardinality(s)
  BY DEF User!Cardinality, Cardinality
<1>6. \A s : User!SetToSeq(s) = SetToSeq(s)
  BY <1>5 DEF User!SetToSeq, SetToSeq, User!IsInjective, IsInjective
<1>7. \A w, f : User!Entries(w, f) = Entries(w, f)
  BY <1>5, <1>6 DEF User!Entries, Entries, User!SP, SP
<1> QED BY <1>1, <1>2, <1>3, <1>4, <1>7

(* The promises in the words of RequestsProofs.                            *)
LEMMA SameResults ==
  /\ User!Failed = Failure
  /\ \A ls : User!Result("done", ls) = Success(ls)
  /\ \A E : User!Catalogue(E) = ListLines(E)
  /\ \A mail : User!Page(mail) = PageLines(mail)
<1>1. User!Failed = Failure BY DEF User!Failed, User!Result, Failure
<1>2. \A ls : User!Result("done", ls) = Success(ls) BY DEF User!Result, Success
<1>3. \A E : User!Catalogue(E) = ListLines(E)
  BY SameTexts DEF User!Catalogue, ListLines
<1>4. \A mail : User!Page(mail) = PageLines(mail)
  BY SameTexts DEF User!Page, PageLines, Named, User!SP, SP
<1> QED BY <1>1, <1>2, <1>3, <1>4

LEMMA SameMails ==
  /\ \A r : User!GoodMail(r) <=> WithinLimits(r)
  /\ \A r, u : User!MailOf(r, u)
                 = [sender |-> u, receivers |-> Words(r.receivers),
                    subject |-> r.subject, content |-> Unlines(r.body)]
<1>1. \A r : User!GoodMail(r) <=> WithinLimits(r)
  BY SameTexts DEF User!GoodMail, WithinLimits, User!ToSet, ToSet
<1>2. \A r, u : User!MailOf(r, u)
                  = [sender |-> u, receivers |-> Words(r.receivers),
                     subject |-> r.subject, content |-> Unlines(r.body)]
  BY SameTexts DEF User!MailOf
<1> QED BY <1>1, <1>2

-----------------------------------------------------------------------------
(* What serving a request may come to is what Exchange allows.             *)

(* The record of an outcome in Exchange.                                   *)
Comes(x, u, w) == [answer |-> x, user |-> u, world |-> w]

(* The outcomes of the kinds of requests.                                  *)
LEMMA LoginOutcome ==
  ASSUME NEW r, r.kind = "LOGIN"
  PROVE  /\ Comes(Failure, server.user, world) \in User!Outcome(r)
         /\ /\ <<r.user, Password(r.keys)>> \in Accounts
            /\ Len(r.user) <= MaxName
            => Comes(Success(<<>>), r.user, world) \in User!Outcome(r)
<1>1. User!Outcome(r)
        = {[answer |-> User!Failed, user |-> server.user, world |-> world]} \cup
            (IF <<r.user, User!Password(r.keys)>> \in Accounts /\ Len(r.user) <= MaxName
             THEN {[[answer |-> User!Result("done", <<>>), user |-> server.user,
                     world |-> world] EXCEPT !.user = r.user]} ELSE {})
  BY Zenon DEF User!Outcome
<1>2. [[answer |-> User!Result("done", <<>>), user |-> server.user,
        world |-> world] EXCEPT !.user = r.user]
        = Comes(Success(<<>>), r.user, world)
  BY SameResults DEF Comes
<1>3. [answer |-> User!Failed, user |-> server.user, world |-> world]
        = Comes(Failure, server.user, world)
  BY SameResults DEF Comes
<1>4. User!Password(r.keys) = Password(r.keys) BY SameFields
<1> QED BY <1>1, <1>2, <1>3, <1>4

LEMMA RefusedOutcome ==
  ASSUME NEW r, r.kind \in Keywords, MayBeRefused(r, server.user, world)
  PROVE  Comes(Failure, server.user, world) \in User!Outcome(r)
<1> DEFINE c == Comes(Failure, server.user, world)
<1>1. [answer |-> User!Failed, user |-> server.user, world |-> world] = c
  BY SameResults DEF Comes
<1>2. CASE r.kind = "LOGIN" BY <1>2, LoginOutcome
<1>3. CASE r.kind # "LOGIN" /\ server.user = Nobody
  <2>1. User!Outcome(r)
          = {[answer |-> User!Failed, user |-> server.user, world |-> world]}
    BY <1>3, Zenon DEF User!Outcome
  <2> QED BY <1>1, <2>1
<1>4. CASE r.kind # "LOGIN" /\ server.user # Nobody
  <2>1. /\ ~(r.kind = "SEND" /\ User!GoodMail(r))
        /\ r.kind # "LIST" /\ r.kind # "LIST_SENT"
        /\ ~(r.kind = "READ" /\ User!IsUuid(r.id)
                /\ User!Number(r.id) \in DOMAIN world.mails)
        /\ ~(r.kind = "DEL" /\ User!IsUuid(r.id)
                /\ User!Number(r.id) \in User!Inbox(world, server.user))
    BY <1>4, SameFields, SameMails, SameWorlds DEF MayBeRefused
  <2>2. User!Outcome(r)
          = {[answer |-> User!Failed, user |-> server.user, world |-> world]}
    BY <1>4, <2>1, Zenon DEF User!Outcome
  <2> QED BY <1>1, <2>2
<1> QED BY <1>2, <1>3, <1>4

LEMMA SendOutcome ==
  ASSUME NEW r, r.kind = "SEND", server.user # Nobody, WithinLimits(r)
  PROVE  Comes(Success(<<>>), server.user,
               Added(world, [sender |-> server.user, receivers |-> Words(r.receivers),
                             subject |-> r.subject, content |-> Unlines(r.body)]))
           \in User!Outcome(r)
<1> DEFINE v == User!Added(world, User!MailOf(r, server.user))
<1>1. User!GoodMail(r) BY SameMails
<1>2. User!Outcome(r)
        = {[[answer |-> User!Result("done", <<>>), user |-> server.user,
             world |-> world] EXCEPT !.world = v]}
  BY <1>1, Zenon DEF User!Outcome
<1>3. v = Added(world, [sender |-> server.user, receivers |-> Words(r.receivers),
                        subject |-> r.subject, content |-> Unlines(r.body)])
  BY SameMails, SameWorlds
<1> HIDE DEF v
<1>4. [[answer |-> User!Result("done", <<>>), user |-> server.user,
        world |-> world] EXCEPT !.world = v] = Comes(Success(<<>>), server.user, v)
  BY SameResults DEF Comes
<1> QED BY <1>2, <1>3, <1>4

LEMMA ListOutcome ==
  ASSUME NEW r, server.user # Nobody
  PROVE  /\ r.kind = "LIST" =>
              Comes(Success(ListLines(Entries(world, Inbox(world, server.user)))),
                    server.user, world) \in User!Outcome(r)
         /\ r.kind = "LIST_SENT" =>
              Comes(Success(ListLines(Entries(world, Sent(world, server.user)))),
                    server.user, world) \in User!Outcome(r)
<1> DEFINE L(E) == User!Result("done", User!Catalogue(E))
           I == User!Entries(world, User!Inbox(world, server.user))
           S == User!Entries(world, User!Sent(world, server.user))
<1>1. r.kind = "LIST" => User!Outcome(r)
                           = {[answer |-> L(I), user |-> server.user, world |-> world]}
  BY Zenon DEF User!Outcome
<1>2. r.kind = "LIST_SENT" => User!Outcome(r)
                           = {[answer |-> L(S), user |-> server.user, world |-> world]}
  BY Zenon DEF User!Outcome
<1>3. \A E : L(E) = Success(ListLines(E)) BY SameResults
<1>4. /\ I = Entries(world, Inbox(world, server.user))
      /\ S = Entries(world, Sent(world, server.user))
  BY SameWorlds
<1> HIDE DEF L, I, S
<1> QED BY <1>1, <1>2, <1>3, <1>4 DEF Comes

LEMMA ReadOutcome ==
  ASSUME NEW r, r.kind = "READ", server.user # Nobody,
         IsUuid(r.id), Number(r.id) \in DOMAIN world.mails
  PROVE  Comes(Success(PageLines(world.mails[Number(r.id)])), server.user, world)
           \in User!Outcome(r)
<1> DEFINE i == User!Number(r.id)
           x == User!Result("done", User!Page(world.mails[i]))
<1>1. i = Number(r.id) /\ User!IsUuid(r.id) BY SameFields
<1>2. x = Success(PageLines(world.mails[Number(r.id)])) BY <1>1, SameResults
<1>3. User!IsUuid(r.id) /\ i \in DOMAIN world.mails BY <1>1
<1>4. User!Outcome(r) = {[answer |-> x, user |-> server.user, world |-> world]}
  BY <1>3, Zenon DEF User!Outcome
<1> HIDE DEF x
<1> QED BY <1>2, <1>4 DEF Comes

LEMMA DelOutcome ==
  ASSUME NEW r, r.kind = "DEL", server.user # Nobody,
         IsUuid(r.id), Number(r.id) \in Inbox(world, server.user)
  PROVE  Comes(Success(<<>>), server.user,
               [world EXCEPT !.inbox = @ \ {<<server.user, Number(r.id)>>}])
           \in User!Outcome(r)
<1> DEFINE i == User!Number(r.id)
           o == [answer |-> User!Result("done", <<>>), user |-> server.user,
                 world |-> world]
           z == [o EXCEPT !.world.inbox = @ \ {<<server.user, i>>}]
<1>1. i = Number(r.id) /\ User!IsUuid(r.id) BY SameFields
<1>2. i \in User!Inbox(world, server.user) BY <1>1, SameWorlds
<1>3. User!Outcome(r) = {z} BY <1>1, <1>2, Zenon DEF User!Outcome
<1>4. z = Comes(Success(<<>>), server.user,
                [world EXCEPT !.inbox = @ \ {<<server.user, Number(r.id)>>}])
  <2>1. User!Result("done", <<>>) = Success(<<>>) BY SameResults
  <2> DEFINE a == Success(<<>>)
             e == {<<server.user, i>>}
             c == [answer |-> a, user |-> server.user, world |-> world]
  <2>2. z = [c EXCEPT !.world.inbox = @ \ e] BY <2>1
  <2>3. e = {<<server.user, Number(r.id)>>} BY <1>1
  <2> HIDE DEF a, e, z
  <2>4. [c EXCEPT !.world.inbox = @ \ e]
          = [answer |-> a, user |-> server.user, world |-> [world EXCEPT !.inbox = @ \ e]]
    OBVIOUS
  <2> QED BY <2>2, <2>3, <2>4 DEF Comes, a
<1> HIDE DEF z
<1> QED BY <1>3, <1>4

LEMMA ServedIsOutcome ==
  ASSUME NEW r, r.kind \in Keywords, NEW x, NEW u, NEW v,
         Served(r, server.user, world, x, u, v)
  PROVE  Comes(x, u, v) \in User!Outcome(r)
  BY RefusedOutcome, LoginOutcome, SendOutcome, ListOutcome, ReadOutcome, DelOutcome
  DEF Served

-----------------------------------------------------------------------------
(* Every step of Wire is a step of Exchange or none, until the network     *)
(* cuts a text.                                                            *)

(* The state of Exchange.                                                  *)
Here   == IF client.at = "gone" THEN "gone" ELSE "here"
Answer == IF reply = None THEN None ELSE Shows(request, reply)

Step == User!Next \/ UNCHANGED User!exchange

(* A step that its user does not notice.                                   *)
LEMMA Unnoticed ==
  ASSUME Here' = Here, UNCHANGED <<request, reply, shown, world>>,
         server'.user = server.user
  PROVE  Step
  BY DEF Step, User!exchange, Here

(* The end of the client.                                                  *)
LEMMA LeaveStep ==
  ASSUME TypeInv, client.at # "gone", Exit,
         UNCHANGED <<request, reply, shown, server, world>>
  PROVE  Step
<1>1. client' = [at |-> "gone", text |-> <<>>, user |-> client.user]
  BY Parts, Moved DEF Exit
<1>2. client'.at = "gone" BY <1>1
<1>3. User!Leave BY <1>2 DEF User!Leave
<1> QED BY <1>3 DEF Step, User!Next

LEMMA AskStep ==
  ASSUME TypeInv, WireInv, cuts = 0, NEW r \in Typed, Ask(r) PROVE Step
<1>1. client' = [at |-> "read", text |-> <<>>, user |-> client.user]
  BY Parts, Moved DEF Ask
<1>2. client.at = "prompt" /\ client'.at = "read" BY <1>1 DEF Ask
<1>3. request = None /\ reply = None BY <1>2 DEF WireInv, ClientReads
<1>4. request' = r /\ reply' = None /\ UNCHANGED <<shown, server, world>>
  BY DEF Ask
<1>5. User!Ask BY <1>2, <1>3, <1>4 DEF User!Ask
<1> QED BY <1>5 DEF Step, User!Next

LEMMA ShowStep == ASSUME TypeInv, WireInv, cuts = 0, Show PROVE Step
<1>1. client.at = "show" /\ UNCHANGED <<server, world>> BY DEF Show
<1>2. CASE client.text = <<>> BY <1>1, <1>2, LeaveStep DEF Show
<1>3. CASE client.text # <<>>
  <2> DEFINE z == Shows(request, client.text)
  <2>1. PICK user :
          /\ shown' = z /\ request' = None /\ reply' = None
          /\ IF z.result = "abort" THEN Exit
             ELSE client' = [client EXCEPT !.at = "prompt", !.text = <<>>, !.user = user]
    BY <1>3 DEF Show
  <2>2. ClientReads BY DEF WireInv
  <2>3. reply = client.text /\ reply # None
    <3>1. reply = client.text BY <1>1, <1>3, <2>2 DEF ClientReads
    <3> QED BY <3>1, Parts, WireConstants
  <2>4. z.result # "abort" BY <2>2, <2>3 DEF ClientReads
  <2>5. z # None
    <3>1. z \in Results BY Parts, ShowsType
    <3> QED BY <3>1, WireConstants
  <2>6. z = Shows(request, reply) BY <2>3
  <2>7. shown' = z /\ request' = None /\ reply' = None
        /\ client' = [client EXCEPT !.at = "prompt", !.text = <<>>, !.user = user]
    BY <2>1, <2>4
  <2> HIDE DEF z
  <2>8. client' = [at |-> "prompt", text |-> <<>>, user |-> user]
    BY <2>7, Parts, MovedAs
  <2>9. client'.at = "prompt" BY <2>8
  <2>10. User!Show BY <1>1, <2>3, <2>5, <2>6, <2>7, <2>9 DEF User!Show
  <2> QED BY <2>10 DEF Step, User!Next
<1> QED BY <1>2, <1>3

LEMMA HandleStep == ASSUME TypeInv, WireInv, cuts = 0, Handle PROVE Step
<1>1. PICK o \in Process(server.text, server.user, world) :
        /\ server' = [at |-> "wait", text |-> <<>>, user |-> o.user]
        /\ world' = o.world
        /\ reply' = IF server.text = <<>> THEN reply ELSE o.reply
  BY DEF Handle
<1>2. server.at = "process" /\ UNCHANGED <<client, request, shown>>
  BY DEF Handle
<1>3. server'.user = o.user BY <1>1
<1>4. CASE server.text = <<>>
  <2>1. o = Done(ERR, server.user, world) BY <1>4, ProcessNothing
  <2>2. o.user = server.user /\ o.world = world BY <2>1 DEF Done
  <2>3. reply' = reply BY <1>1, <1>4
  <2> QED BY <1>1, <1>2, <1>3, <2>2, <2>3, Unnoticed DEF Here
<1>5. CASE /\ server.text # <<>> /\ request \in Typed /\ reply = None
           /\ server.text = Compose(request)
  <2>1. /\ server.user \in Line \cup {Nobody} /\ server.text \in Seq(Chars)
        /\ WorldOK(world) /\ Len(world.mails) <= Len(Ids)
    BY Parts
  <2>2. Typeable(request) BY <1>5, WireConstants
  <2> DEFINE x == Shows(request, o.reply)
  <2>3. Served(request, server.user, world, x, o.user, o.world)
    <3>1. o \in Process(Compose(request), server.user, world) BY <1>5
    <3> QED BY <2>1, <2>2, <3>1, ServedAs
  <2> HIDE DEF x
  <2>4. Comes(x, o.user, o.world) \in User!Outcome(request)
    BY <2>2, <2>3, ServedIsOutcome DEF Typeable
  <2>5. reply' = o.reply /\ o.reply # None
    <3>1. o.reply \in Contents BY <2>1, ProcessType
    <3> QED BY <1>1, <1>5, <3>1, WireConstants DEF Contents
  <2>6. Answer' = x BY <1>2, <2>5 DEF Answer, x
  <2>7. Answer = None BY <1>5 DEF Answer
  <2>8. request # None BY <1>5, WireConstants
  <2>9. \E p \in User!Outcome(request) :
          Answer' = p.answer /\ server'.user = p.user /\ world' = p.world
    <3> DEFINE p == Comes(x, o.user, o.world)
    <3>1. p.answer = x /\ p.user = o.user /\ p.world = o.world BY DEF Comes
    <3> HIDE DEF p
    <3>2. p \in User!Outcome(request) BY <2>4 DEF p
    <3> QED BY <1>1, <1>3, <2>6, <3>1, <3>2
  <2>10. User!TakeUp BY <1>2, <2>7, <2>8, <2>9 DEF User!TakeUp, Answer
  <2> QED BY <2>10 DEF Step, User!Next
<1> QED BY <1>2, <1>4, <1>5, TakenAsComposed

LEMMA ReadReplyStep == ASSUME TypeInv, ReadReply PROVE Step
<1>1. PICK t : client' = [client EXCEPT !.at = IF t.more THEN "read" ELSE "show",
                                        !.text = t.text]
  BY DEF ReadReply
<1> DEFINE where == IF t.more THEN "read" ELSE "show"
<1>2. client' = [at |-> where, text |-> t.text, user |-> client.user]
  BY <1>1, Parts, Moved
<1>3. Here' = Here BY <1>2 DEF Here, ReadReply
<1>4. UNCHANGED <<request, reply, shown, world, server>> BY DEF ReadReply
<1> QED BY <1>3, <1>4, Unnoticed

(* The thread comes and goes unnoticed, as long as it does not process.    *)
LEMMA ServerAtStep ==
  ASSUME TypeInv, NEW where \in {"wait", "read", "gone"}, ServerAt(where),
         UNCHANGED <<client, request, reply, shown, world>>
  PROVE  Step
<1>1. server' = [at |-> where, text |-> <<>>, user |-> server.user]
  BY ServerAtMoves
<1>2. server'.user = server.user BY <1>1
<1> QED BY <1>2, Unnoticed DEF Here

LEMMA ServerSteps ==
  ASSUME TypeInv, CheckBan \/ IsOpen \/ DropBanned \/ KillServer PROVE Step
<1>1. PICK where \in {"wait", "read", "gone"} : ServerAt(where)
  BY DEF CheckBan, IsOpen, DropBanned, KillServer
<1>2. UNCHANGED <<client, request, reply, shown, world>>
  BY DEF CheckBan, IsOpen, DropBanned, KillServer
<1> QED BY <1>1, <1>2, ServerAtStep

LEMMA ReadRequestStep == ASSUME TypeInv, ReadRequest PROVE Step
<1>1. PICK t : server' = [server EXCEPT !.at = IF t.more THEN "read" ELSE "process",
                                        !.text = t.text]
  BY DEF ReadRequest
<1> DEFINE where == IF t.more THEN "read" ELSE "process"
<1>2. server' = [at |-> where, text |-> t.text, user |-> server.user]
  BY <1>1, Parts, Moved
<1>3. server'.user = server.user BY <1>2
<1>4. UNCHANGED <<client, request, reply, shown, world>> BY DEF ReadRequest
<1> QED BY <1>3, <1>4, Unnoticed DEF Here

LEMMA ReconnectStep == ASSUME Reconnect PROVE Step
<1>1. /\ client.at = "gone"
      /\ client' = [at |-> "prompt", text |-> <<>>, user |-> Nobody]
      /\ server' = [at |-> "start", text |-> <<>>, user |-> Nobody]
      /\ request' = None /\ shown' = None /\ reply' = None /\ world' = world
  BY DEF Reconnect, Fresh
<1>2. client'.at = "prompt" /\ server'.user = Nobody BY <1>1
<1>3. User!ComeBack BY <1>1, <1>2 DEF User!ComeBack
<1> QED BY <1>3 DEF Step, User!Next

LEMMA StepsMap ==
  ASSUME TypeInv, WireInv, [Next]_vars, cuts' = 0 PROVE Step
<1>1. ASSUME NEW r \in Typed, Ask(r) PROVE Step
  <2>1. cuts = 0 BY <1>1 DEF Ask
  <2> QED BY <1>1, <2>1, AskStep
<1>2. CASE ReadReply BY <1>2, ReadReplyStep
<1>3. CASE Show
  <2>1. cuts = 0 BY <1>3 DEF Show
  <2> QED BY <1>3, <2>1, ShowStep
<1>4. CASE Quit BY <1>4, LeaveStep DEF Quit
<1>5. CASE CheckBan \/ IsOpen \/ DropBanned \/ KillServer BY <1>5, ServerSteps
<1>6. CASE ReadRequest BY <1>6, ReadRequestStep
<1>7. CASE Handle
  <2>1. cuts = 0 BY <1>7 DEF Handle
  <2> QED BY <1>7, <2>1, HandleStep
<1>8. CASE BreakNetwork
  BY <1>8, Unnoticed DEF BreakNetwork, Here
<1>9. CASE Reconnect BY <1>9, ReconnectStep
<1>10. CASE UNCHANGED vars
  BY <1>10, Unnoticed DEF vars, wire, Here
<1> QED
  BY <1>1, <1>2, <1>3, <1>4, <1>5, <1>6, <1>7, <1>8, <1>9, <1>10
  DEF Next, Receive, Serve

LEMMA StartsMap == ASSUME Init PROVE User!Init
<1>1. client.at = "prompt" /\ server.user = Nobody BY DEF Init
<1>2. world = User!NoMail BY SameWorlds DEF Init
<1> QED BY <1>1, <1>2 DEF Init, User!Init

(* Whatever the blocks of the two streams, the kills and the breaks of the *)
(* network: a user's request has the effect that its fields call for, at   *)
(* most once, and he is shown what became of it before he types the next   *)
(* (client.cpp, socketUtils.hpp, handleClient(), requestProcessor.hpp).    *)
THEOREM Refinement == Spec => RefinesExchange
<1>1. Init => User!Init BY StartsMap
<1>2. TypeInv /\ WireInv /\ [Next]_vars
        => [cuts' = 0 => User!Next \/ UNCHANGED User!exchange]_vars
  BY StepsMap DEF Step
<1> QED BY <1>1, <1>2, TypesInvariant, Invariant, PTL DEF Spec, RefinesExchange

=============================================================================
