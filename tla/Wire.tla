--------------------------------- MODULE Wire ---------------------------------
(***************************************************************************)
(* A client of TWMailer, the thread that serves it and the connection      *)
(* between them: client.cpp, socketUtils.hpp and handleClient() of         *)
(* socketServer.hpp, with the texts of module Requests.                    *)
(*                                                                         *)
(* Each direction is a stream of bytes in which a text is followed by a    *)
(* NUL.  readAll() reads blocks and knows the end of a text only by a      *)
(* block that is not full.  Either process may die, the network may break, *)
(* and a user whose connection has ended may come back.                    *)
(***************************************************************************)
EXTENDS Requests

CONSTANTS
  Typed,          \* the requests that users type
  Block,          \* what one read can return: bufferSize - 1
  MaxCuts,        \* bound on the reads that return less than was sent
  MaxRequests,    \* bound on the requests typed
  MaxConnections, \* bound on the connections
  None            \* no request, no reply, nothing shown

NUL == "NUL"

(* No request is stored twice, so that there are ids enough when every     *)
(* request is a mail and every cut makes one more of a part of it.         *)
ASSUME WireConstants ==
  /\ Block \in Nat \ {0}
  /\ NUL \notin Chars
  /\ \A r \in Typed : Typeable(r)
  /\ None \notin Typed /\ None \notin Seq(Chars) /\ None \notin Results
  /\ MaxCuts \in Nat /\ MaxRequests \in Nat /\ MaxConnections \in Nat \ {0}
  /\ MaxRequests + MaxCuts <= Len(Ids)

VARIABLES
  up, down,  \* the streams from and to the client
  broken,    \* the network has broken: both ends get errors
  client,    \* where the client is, the text it reads, who it logged in
  server,    \* where the thread is, the text it reads, its session's user
  request,   \* the request the client waits for
  shown,     \* what it has shown last
  world,     \* the mails
  reply,     \* history: the reply to request, when it has been processed
  cuts, asked, connections  \* counters

wire  == <<up, down, broken>>
count == <<asked, connections>>
vars  == <<wire, client, server, request, shown, world, reply, cuts, count>>

-----------------------------------------------------------------------------
(* socketUtils.                                                            *)

(* std::string(buffer): what follows a NUL inside a block is lost.         *)
BeforeNul(block) ==
  IF \E i \in DOMAIN block : block[i] = NUL
  THEN SubSeq(block, 1, (CHOOSE i \in DOMAIN block :
                           /\ block[i] = NUL
                           /\ \A j \in 1 .. i - 1 : block[j] # NUL) - 1)
  ELSE block

(* How much of a stream one read returns: a block or, if less is there,    *)
(* all of it.  Where the network cuts a text it is less.                   *)
Full(stream) == IF Len(stream) < Block THEN Len(stream) ELSE Block

Rest(stream, k) == [i \in 1 .. Len(stream) - k |-> stream[i + k]]

(* A turn of the loop of readAll(): the stream, the text, whether another  *)
(* turn follows, whether the network cut the text.                         *)
Turn(stream, text, more, cut) ==
  [stream |-> stream, text |-> text, more |-> more, cut |-> cut]

(* Mutant: the text is made of all the bytes that were read.               *)
Turns_KeepNul(stream, text, ended) ==
  IF broken THEN {Turn(<<>>, <<>>, FALSE, 0)}
  ELSE IF stream = <<>> THEN IF ended THEN {Turn(<<>>, text, FALSE, 0)} ELSE {}
  ELSE {Turn(Rest(stream, k), text \o SubSeq(stream, 1, k), k = Block,
             IF k = Full(stream) THEN 0 ELSE 1) : k \in 1 .. Full(stream)}

(* Mutant: the text is what the last read returned.                        *)
Turns_LastBlock(stream, text, ended) ==
  IF broken THEN {Turn(<<>>, <<>>, FALSE, 0)}
  ELSE IF stream = <<>> THEN IF ended THEN {Turn(<<>>, text, FALSE, 0)} ELSE {}
  ELSE {Turn(Rest(stream, k), BeforeNul(SubSeq(stream, 1, k)), k = Block,
             IF k = Full(stream) THEN 0 ELSE 1) : k \in 1 .. Full(stream)}

(* An error gives the empty text.  Without data a read waits, unless the   *)
(* other end is closed: then it returns 0, and the text read so far counts *)
(* as whole.                                                               *)
Turns(stream, text, ended) ==
  IF broken THEN {Turn(<<>>, <<>>, FALSE, 0)}
  ELSE IF stream = <<>> THEN IF ended THEN {Turn(<<>>, text, FALSE, 0)} ELSE {}
  ELSE {Turn(Rest(stream, k), text \o BeforeNul(SubSeq(stream, 1, k)), k = Block,
             IF k = Full(stream) THEN 0 ELSE 1) : k \in 1 .. Full(stream)}

(* writeAll(): nobody looks whether it succeeds.                           *)
Written(stream, text, reader) ==
  IF broken \/ reader.at = "gone" THEN stream ELSE stream \o text \o <<NUL>>

-----------------------------------------------------------------------------
(* The client.                                                             *)

(* login() until it succeeds, then the menu.                               *)
Ask(r) ==
  /\ client.at = "prompt" /\ asked < MaxRequests
  /\ (r.kind = "LOGIN") = (client.user = Nobody)
  /\ up' = Written(up, Compose(r), server)
  /\ client' = [client EXCEPT !.at = "read", !.text = <<>>]
  /\ request' = r /\ reply' = None
  /\ asked' = asked + 1
  /\ UNCHANGED <<down, broken, server, shown, world, cuts, connections>>

ReadReply ==
  /\ client.at = "read"
  /\ \E t \in Turns(down, client.text, server.at = "gone") :
       /\ cuts + t.cut <= MaxCuts /\ cuts' = cuts + t.cut
       /\ down' = t.stream
       /\ client' = [client EXCEPT !.at = IF t.more THEN "read" ELSE "show",
                                   !.text = t.text]
  /\ UNCHANGED <<up, broken, server, request, shown, world, reply, count>>

(* The end of the client's process closes the connection.                  *)
Exit == client' = [client EXCEPT !.at = "gone", !.text = <<>>] /\ down' = <<>>

(* An empty reply ends the client, and so does one with too few lines.     *)
Show ==
  /\ client.at = "show"
  /\ IF client.text = <<>> THEN Exit /\ UNCHANGED <<request, reply, shown>>
     ELSE /\ shown' = Shows(request, client.text)
          /\ request' = None /\ reply' = None
          /\ IF shown'.result = "abort" THEN Exit
             ELSE /\ client' = [client EXCEPT
                       !.at = "prompt", !.text = <<>>,
                       !.user = IF request.kind = "LOGIN" /\ shown'.result = "done"
                                THEN request.user ELSE @]
                  /\ UNCHANGED down
  /\ UNCHANGED <<up, broken, server, world, cuts, count>>

(* The user quits, or the client is killed, whatever it is doing.          *)
Quit ==
  /\ client.at # "gone" /\ Exit
  /\ UNCHANGED <<up, broken, server, request, shown, world, reply, cuts, count>>

-----------------------------------------------------------------------------
(* The thread of the connection: handleClient().                           *)

ServerAt(where) == server' = [server EXCEPT !.at = where, !.text = <<>>]

CheckBan ==
  /\ server.at = "start"
  /\ \/ ServerAt("wait") /\ UNCHANGED up
     \/ ServerAt("gone") /\ up' = <<>>
  /\ UNCHANGED <<down, broken, client, request, shown, world, reply, cuts, count>>

(* isOpen() peeks at the stream and waits for a byte or for its end.       *)
IsOpen ==
  /\ server.at = "wait"
  /\ \/ up # <<>> /\ ServerAt("read")
     \/ up = <<>> /\ (broken \/ client.at = "gone") /\ ServerAt("gone")
  /\ UNCHANGED <<wire, client, request, shown, world, reply, cuts, count>>

ReadRequest ==
  /\ server.at = "read"
  /\ \E t \in Turns(up, server.text, client.at = "gone") :
       /\ cuts + t.cut <= MaxCuts /\ cuts' = cuts + t.cut
       /\ up' = t.stream
       /\ server' = [server EXCEPT !.at = IF t.more THEN "read" ELSE "process",
                                   !.text = t.text]
  /\ UNCHANGED <<down, broken, client, request, shown, world, reply, count>>

(* Mutant: a request that is refused gets no reply.                        *)
Handle_Silent ==
  /\ server.at = "process"
  /\ \E o \in Process(server.text, server.user, world) :
       /\ server' = [at |-> "wait", text |-> <<>>, user |-> o.user]
       /\ world' = o.world
       /\ down' = IF o.reply = ERR THEN down ELSE Written(down, o.reply, client)
       /\ reply' = IF server.text = <<>> THEN reply ELSE o.reply
  /\ UNCHANGED <<up, broken, client, request, shown, cuts, count>>

(* Mutant: a request whose client has gone is processed again.             *)
Handle_Again ==
  /\ server.at = "process"
  /\ \E o \in Process(server.text, server.user, world) :
       /\ server' = IF client.at = "gone" THEN [server EXCEPT !.user = o.user]
                    ELSE [at |-> "wait", text |-> <<>>, user |-> o.user]
       /\ world' = o.world
       /\ down' = Written(down, o.reply, client)
       /\ reply' = IF server.text = <<>> THEN reply ELSE o.reply
  /\ UNCHANGED <<up, broken, client, request, shown, cuts, count>>

(* RequestProcessor::process() and the reply.                              *)
Handle ==
  /\ server.at = "process"
  /\ \E o \in Process(server.text, server.user, world) :
       /\ server' = [at |-> "wait", text |-> <<>>, user |-> o.user]
       /\ world' = o.world
       /\ down' = Written(down, o.reply, client)
       /\ reply' = IF server.text = <<>> THEN reply ELSE o.reply
  /\ UNCHANGED <<up, broken, client, request, shown, cuts, count>>

(* A login from a banned address: the connection is closed unanswered.     *)
DropBanned ==
  /\ server.at = "process"
  /\ Keyword(server.text) = "LOGIN" /\ IsValid(server.text)
  /\ ServerAt("gone") /\ up' = <<>>
  /\ UNCHANGED <<down, broken, client, request, shown, world, reply, cuts, count>>

-----------------------------------------------------------------------------
(* Faults, and a new connection.                                           *)

KillServer ==
  /\ server.at # "gone"
  /\ ServerAt("gone") /\ up' = <<>>
  /\ UNCHANGED <<down, broken, client, request, shown, world, reply, cuts, count>>

BreakNetwork ==
  /\ ~broken /\ client.at # "gone" /\ server.at # "gone"
  /\ broken' = TRUE /\ up' = <<>> /\ down' = <<>>
  /\ UNCHANGED <<client, server, request, shown, world, reply, cuts, count>>

Fresh ==
  /\ up' = <<>> /\ down' = <<>> /\ broken' = FALSE
  /\ client' = [at |-> "prompt", text |-> <<>>, user |-> Nobody]
  /\ server' = [at |-> "start", text |-> <<>>, user |-> Nobody]
  /\ request' = None /\ shown' = None /\ reply' = None

Reconnect ==
  /\ client.at = "gone" /\ server.at = "gone" /\ connections < MaxConnections
  /\ Fresh /\ connections' = connections + 1
  /\ UNCHANGED <<world, cuts, asked>>

Init ==
  /\ up = <<>> /\ down = <<>> /\ broken = FALSE
  /\ client = [at |-> "prompt", text |-> <<>>, user |-> Nobody]
  /\ server = [at |-> "start", text |-> <<>>, user |-> Nobody]
  /\ request = None /\ shown = None /\ reply = None
  /\ world = NoMail
  /\ cuts = 0 /\ asked = 0 /\ connections = 1

Receive == ReadReply \/ Show
Serve   == CheckBan \/ IsOpen \/ ReadRequest \/ Handle \/ DropBanned

Next ==
  \/ \E r \in Typed : Ask(r)
  \/ Receive \/ Quit \/ Serve
  \/ KillServer \/ BreakNetwork \/ Reconnect

Spec == Init /\ [][Next]_vars

(* Both processes keep running while they have something to do.            *)
FairSpec == Spec /\ WF_vars(Receive) /\ WF_vars(Serve)

-----------------------------------------------------------------------------
(* Properties.                                                             *)

TypeOK ==
  /\ up \in Seq(Chars \cup {NUL}) /\ down \in Seq(Chars \cup {NUL})
  /\ broken \in BOOLEAN
  /\ client \in [at : {"prompt", "read", "show", "gone"}, text : Seq(Chars),
                  user : Line \cup {Nobody}]
  /\ server \in [at : {"start", "wait", "read", "process", "gone"},
                  text : Seq(Chars), user : Line \cup {Nobody}]
  /\ request \in Typed \cup {None}
  /\ client.at \in {"read", "show"} => request \in Typed
  /\ shown = None \/ shown \in Results
  /\ world \in Worlds
  /\ \A entry \in world.inbox : entry[2] \in DOMAIN world.mails
  /\ reply = None \/ reply \in Seq(Chars)
  /\ cuts \in 0 .. MaxCuts /\ asked \in 0 .. MaxRequests
  /\ connections \in 0 .. MaxConnections

(* Every mail was asked for: there are no more of them, together with the  *)
(* texts that may become one, than requests typed and reads cut.           *)
MailsAreAskedFor ==
  LET unread  == IF up # <<>> \/ server.at = "read" THEN 1 ELSE 0
      inHand  == IF server.at = "process" THEN 1 ELSE 0
  IN Len(world.mails) + unread + inHand <= asked + cuts

(* What the server processes is the request as the client composed it, put *)
(* together from any number of blocks, and it processes it once, also when *)
(* the client is killed or the connection breaks meanwhile.                *)
TakenUpOnceAsTyped ==
  cuts = 0 /\ server.at = "process" /\ server.text # <<>> =>
    /\ request # None /\ server.text = Compose(request)
    /\ reply = None

(* The client finds the lines it takes from a reply (client.cpp:98 and 125 *)
(* use at(), which throws).                                                *)
LinesAreThere == cuts = 0 /\ shown # None => shown.result # "abort"

(* A request is on its way: in the stream or with the thread.              *)
Pending == up # <<>> \/ server.at \in {"read", "process"}

Ends ==
  /\ client = [at |-> client.at, text |-> client.text, user |-> client.user]
  /\ server = [at |-> server.at, text |-> server.text, user |-> server.user]
  /\ client.at \in {"prompt", "read", "show", "gone"}
  /\ server.at \in {"start", "wait", "read", "process", "gone"}

(* What has been read of a text and what is still in the stream make up    *)
(* the message and its NUL.                                                *)
Whole(message, text, stream) ==
  /\ text \in Seq(Chars) /\ stream \in Seq(Chars \cup {NUL})
  /\ IF stream = <<>> THEN text = message
     ELSE text \o stream = message \o <<NUL>>

(* The same of the request that the client waits for.                      *)
MakesUp(text, stream) ==
  /\ request \in Typed /\ reply = None
  /\ Whole(Compose(request), text, stream)

ClientWaits ==
  /\ client.at \in {"prompt", "show", "gone"} => down = <<>>
  /\ Pending => /\ down = <<>> /\ client.text = <<>>
                /\ \/ client.at \in {"read", "gone"}
                   \/ client.at = "show" /\ broken

ServerReads ==
  /\ (broken \/ server.at \in {"process", "gone"}) => up = <<>>
  /\ server.at \in {"start", "wait"} =>
       server.text = <<>> /\ (up # <<>> => MakesUp(<<>>, up))
  /\ server.at = "read" => broken \/ MakesUp(server.text, up)
  /\ server.at = "process" =>
       (broken /\ server.text = <<>>) \/ MakesUp(server.text, <<>>)

(* The client holds exactly the part of the reply that is not in the       *)
(* stream any more, or nothing while there is none.                        *)
ClientReads ==
  /\ client.at = "prompt" => request = None /\ reply = None
  /\ reply # None => /\ request \in Typed
                     /\ Shows(request, reply).result # "abort"
  /\ client.at = "read" =>
       \/ broken
       \/ down = <<>> /\ client.text = <<>>
       \/ reply # None /\ Whole(reply, client.text, down)
  /\ client.at = "show" /\ client.text # <<>> => reply = client.text

(* The two ends never read at once, and at every block each holds exactly  *)
(* the part of its text that is not in the stream any more.                *)
WireInv ==
  /\ Ends /\ cuts \in Nat
  /\ cuts = 0 => ClientWaits /\ ServerReads /\ ClientReads /\ LinesAreThere

(* The bytes of a message fill its last block, so that readAll() looks for *)
(* one more.                                                               *)
FillsBlocks(text) == (Len(text) + 1) % Block = 0

(* Who waits for a reply gets it, or finds the connection closed: no text  *)
(* waits in a stream for ever, unless the request or its reply fills its   *)
(* blocks or the network has cut one.                                      *)
RequestIsAnswered ==
  client.at = "read" ~>
    \/ client.at # "read" \/ cuts > 0
    \/ FillsBlocks(Compose(request))
    \/ reply # None /\ FillsBlocks(reply)

(* Seen by its user the connection is an Exchange: every request has the   *)
(* effect and shows the result that its fields call for.                   *)
User == INSTANCE Exchange WITH
  client <- IF client.at = "gone" THEN "gone" ELSE "here",
  asked  <- request,
  answer <- IF reply = None THEN None ELSE Shows(request, reply),
  shown  <- shown,
  user   <- server.user,
  world  <- world

RefinesExchange ==
  User!Init /\ [][cuts' = 0 => User!Next \/ UNCHANGED User!exchange]_vars

=============================================================================
