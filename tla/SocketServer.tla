---------------------------- MODULE SocketServer ----------------------------
(***************************************************************************)
(* The connections of the TWMailer server: the accept loop and the threads *)
(* of socketServer.hpp, the session of each, the dispatch of a request     *)
(* (requestProcessor.hpp, authenticatedRequest.hpp) and the login          *)
(* (loginRequest.hpp, ldapUtils.hpp) with its use of the ban list.         *)
(*                                                                         *)
(* A request is a whole message here, and a request about mail touches     *)
(* nothing but its reply.  isBanned() and addFailed() are one step each,   *)
(* with the passing of time as actions: at any moment a ban may end, or    *)
(* the attempts of an address that is not banned may get too old to count. *)
(***************************************************************************)
EXTENDS Naturals, FiniteSets

CONSTANTS
  Clients,      \* the connections that are made; each is served by a thread
  Ips,          \* their addresses
  AddressOf,    \* the address of each
  Garbled,      \* an address that was read while it was being written
  Descriptors,  \* the file descriptors that accept can return
  None,         \* no descriptor, connection, user or request
  Users,
  DisableLdap,  \* the server is started with --disableLdap
  BAN_TRIES,
  MaxRequests   \* bound on the requests of each connection

ASSUME ServerConstants ==
  /\ IsFiniteSet(Clients)
  /\ AddressOf \in [Clients -> Ips]
  /\ Garbled \notin Ips
  /\ None \notin Clients \cup Descriptors \cup Users
  /\ DisableLdap \in BOOLEAN
  /\ BAN_TRIES \in Nat \ {0} /\ MaxRequests \in [Clients -> Nat]

VARIABLES
  peer,     \* per connection: what its client does, "new", "there" or "left"
  main,     \* the accept loop: where it is, with which connection and descriptor
  buffer,   \* char ip[] in the frame of open()
  files,    \* per descriptor: the connection it stands for
  session,  \* per connection: its thread and its Session
  request,  \* per connection: the request that waits to be read
  tries,    \* per address: the failed attempts that count
  guesses,  \* history, per address: wrong passwords since its last ban ended
            \* or its attempts last got stale, whichever is later
  served,   \* history, per connection: the names it handled mail under
  proven,   \* history, per connection: the users whose password was accepted
  made      \* per connection: how many requests it made

clients == <<peer, request, made>>
loop    == <<main, buffer>>
history == <<guesses, served, proven>>
vars    == <<clients, loop, files, session, tries, history>>

-----------------------------------------------------------------------------

Addresses == Ips \cup {Garbled}

Request ==
  [kind : {"login"}, user : Users, right : BOOLEAN]
    \cup [kind : {"mail", "invalid"}]

Thread == {"none", "start", "ban", "wait", "process", "ldap", "count", "done"}

Session ==
  [at : Thread, fd : Descriptors \cup {None}, ip : Addresses \cup {None},
   username : Users \cup {None}, authenticated : BOOLEAN,
   message : Request \cup {None}]

TypeOK ==
  /\ peer \in [Clients -> {"new", "there", "left"}]
  /\ main \in [at : {"accept", "copy", "spawn"}, conn : Clients \cup {None},
               fd : Descriptors \cup {None}]
  /\ buffer \in Ips \cup {None}
  /\ files \in [Descriptors -> Clients \cup {None}]
  /\ session \in [Clients -> Session]
  /\ request \in [Clients -> Request \cup {None}]
  /\ tries \in [Addresses -> Nat] /\ guesses \in [Addresses -> Nat]
  /\ served \in [Clients -> SUBSET (Users \cup {None})]
  /\ proven \in [Clients -> SUBSET Users]
  /\ made \in [Clients -> Nat]

IsBanned(ip) == tries[ip] >= BAN_TRIES

At(c, where) == session[c].at = where

Go(c, where) == session' = [session EXCEPT ![c].at = where]

Close(fd) == files' = [files EXCEPT ![fd] = None]

-----------------------------------------------------------------------------
(* The clients.                                                            *)

Connect(c) ==
  /\ peer[c] = "new"
  /\ peer' = [peer EXCEPT ![c] = "there"]
  /\ UNCHANGED <<request, made, loop, files, session, tries, history>>

(* A client waits for the reply to one request before it makes the next;   *)
(* the first it makes when it is connected, whatever the server does then. *)
SendRequest(c) ==
  /\ peer[c] = "there" /\ request[c] = None /\ made[c] < MaxRequests[c]
  /\ session[c].at \in {"none", "start", "ban", "wait"}
  /\ \E r \in Request : request' = [request EXCEPT ![c] = r]
  /\ made' = [made EXCEPT ![c] = @ + 1]
  /\ UNCHANGED <<peer, loop, files, session, tries, history>>

HangUp(c) ==
  /\ peer[c] = "there"
  /\ peer' = [peer EXCEPT ![c] = "left"]
  /\ UNCHANGED <<request, made, loop, files, session, tries, history>>

(* BAN_TIME after the attempt that brought it a ban is over; the next      *)
(* failed attempt finds the count too old and begins again.                *)
BanEnds(ip) ==
  /\ IsBanned(ip)
  /\ tries' = [tries EXCEPT ![ip] = 0]
  /\ guesses' = [guesses EXCEPT ![ip] = 0]
  /\ UNCHANGED <<clients, loop, files, session, served, proven>>

(* Mutant: the attempts of a ban are taken back from the count.            *)
CountGetsStale_Subtract(ip) ==
  /\ tries[ip] > 0 /\ ~IsBanned(ip)
  /\ tries' = [tries EXCEPT ![ip] = @ - BAN_TRIES]
  /\ guesses' = [guesses EXCEPT ![ip] = 0]
  /\ UNCHANGED <<clients, loop, files, session, served, proven>>

(* No attempt failed for TRY_TIMEOUT: those before count no longer, though *)
(* there was no ban.                                                       *)
CountGetsStale(ip) ==
  /\ tries[ip] > 0 /\ ~IsBanned(ip)
  /\ tries' = [tries EXCEPT ![ip] = 0]
  /\ guesses' = [guesses EXCEPT ![ip] = 0]
  /\ UNCHANGED <<clients, loop, files, session, served, proven>>

-----------------------------------------------------------------------------
(* open(): accept, write the address into the buffer, start a thread that  *)
(* is handed a pointer to it.  Without a free descriptor accept fails and  *)
(* the turn of the loop leaves nothing behind.                             *)

Accept(c, fd) ==
  /\ main.at = "accept"
  /\ peer[c] # "new" /\ At(c, "none")
  /\ files[fd] = None
  /\ files' = [files EXCEPT ![fd] = c]
  /\ main' = [at |-> "copy", conn |-> c, fd |-> fd]
  /\ UNCHANGED <<clients, buffer, session, tries, history>>

CopyAddress ==
  /\ main.at = "copy"
  /\ buffer' = AddressOf[main.conn]
  /\ main' = [main EXCEPT !.at = "spawn"]
  /\ UNCHANGED <<clients, files, session, tries, history>>

Spawn ==
  /\ main.at = "spawn"
  /\ session' = [session EXCEPT ![main.conn].at = "start",
                                ![main.conn].fd = main.fd]
  /\ main' = [at |-> "accept", conn |-> None, fd |-> None]
  /\ UNCHANGED <<clients, buffer, files, tries, history>>

-----------------------------------------------------------------------------
(* handleClient().                                                         *)

(* The string is made from the pointer when the thread runs: the loop may  *)
(* have gone on, and may be writing.                                       *)
TakeAddress(c) ==
  /\ At(c, "start")
  /\ \E a \in IF main.at = "copy"
              THEN {buffer, AddressOf[main.conn], Garbled} ELSE {buffer} :
       session' = [session EXCEPT ![c].at = "ban", ![c].ip = a]
  /\ UNCHANGED <<clients, loop, files, tries, history>>

CheckBan(c) ==
  /\ At(c, "ban")
  /\ IF IsBanned(session[c].ip)
     THEN Close(session[c].fd) /\ Go(c, "done")
     ELSE Go(c, "wait") /\ UNCHANGED files
  /\ UNCHANGED <<clients, loop, tries, history>>

(* isOpen() and readAll(): the thread reads from the connection that its   *)
(* descriptor stands for.                                                  *)
ReadRequest(c) ==
  /\ At(c, "wait")
  /\ \E from \in {files[session[c].fd]} \ {None} :
       /\ request[from] # None
       /\ session' = [session EXCEPT ![c].at = "process", ![c].message = request[from]]
       /\ request' = [request EXCEPT ![from] = None]
  /\ UNCHANGED <<peer, made, loop, files, tries, history>>

(* Mutant: an orderly shutdown of the peer is not seen as the end.         *)
EndOfFile_ErrorsOnly(c) ==
  /\ At(c, "wait")
  /\ files[session[c].fd] = None
  /\ Close(session[c].fd)
  /\ Go(c, "done")
  /\ UNCHANGED <<clients, loop, tries, history>>

EndOfFile(c) ==
  /\ At(c, "wait")
  /\ \/ files[session[c].fd] = None
     \/ \E from \in {files[session[c].fd]} \ {None} :
          request[from] = None /\ peer[from] = "left"
  /\ Close(session[c].fd)
  /\ Go(c, "done")
  /\ UNCHANGED <<clients, loop, tries, history>>

Reply(c) == session' = [session EXCEPT ![c].at = "wait", ![c].message = None]

(* RequestProcessor::process(): no known keyword, or not valid.            *)
HandleInvalid(c) ==
  /\ At(c, "process") /\ session[c].message.kind = "invalid"
  /\ Reply(c)
  /\ UNCHANGED <<clients, loop, files, tries, history>>

HandleMail(c) ==
  /\ At(c, "process") /\ session[c].message.kind = "mail"
  /\ served' = IF session[c].authenticated
               THEN [served EXCEPT ![c] = @ \cup {session[c].username}]
               ELSE served
  /\ Reply(c)
  /\ UNCHANGED <<clients, loop, files, tries, guesses, proven>>

-----------------------------------------------------------------------------
(* LoginRequest::handleRequest().                                          *)

(* Mutant: only the connection is refused, not the login.                  *)
HandleLogin_Unchecked(c) ==
  /\ At(c, "process") /\ session[c].message.kind = "login"
  /\ Go(c, "ldap")
  /\ UNCHANGED <<clients, loop, files, tries, history>>

(* Mutant: the socket is closed and the thread goes on.                    *)
HandleLogin_Continue(c) ==
  /\ At(c, "process") /\ session[c].message.kind = "login"
  /\ IF IsBanned(session[c].ip)
     THEN Close(session[c].fd) /\ Reply(c)
     ELSE Go(c, "ldap") /\ UNCHANGED files
  /\ UNCHANGED <<clients, loop, tries, history>>

(* Mutant: the name is set before the password is tested.                  *)
HandleLogin_NameFirst(c) ==
  /\ At(c, "process") /\ session[c].message.kind = "login"
  /\ IF IsBanned(session[c].ip)
     THEN Close(session[c].fd) /\ Go(c, "done")
     ELSE /\ session' = [session EXCEPT ![c].at = "ldap",
                                        ![c].username = session[c].message.user]
          /\ UNCHANGED files
  /\ UNCHANGED <<clients, loop, tries, history>>

HandleLogin(c) ==
  /\ At(c, "process") /\ session[c].message.kind = "login"
  /\ IF IsBanned(session[c].ip)
     THEN Close(session[c].fd) /\ Go(c, "done")
     ELSE Go(c, "ldap") /\ UNCHANGED files
  /\ UNCHANGED <<clients, loop, tries, history>>

(* setUsername() and authenticate().                                       *)
Authenticate(c) ==
  /\ At(c, "ldap")
  /\ DisableLdap \/ session[c].message.right
  /\ session' = [session EXCEPT ![c].at = "wait", ![c].message = None,
                                ![c].username = session[c].message.user,
                                ![c].authenticated = TRUE]
  /\ proven' = [proven EXCEPT ![c] = @ \cup {session[c].message.user}]
  /\ UNCHANGED <<clients, loop, files, tries, guesses, served>>

(* checkUserAndPassword() is false for a wrong password, and for a right   *)
(* one when the directory cannot be asked.                                 *)
Refuse(c) ==
  /\ At(c, "ldap") /\ ~DisableLdap
  /\ Go(c, "count")
  /\ guesses' = [guesses EXCEPT ![session[c].ip] =
                   IF session[c].message.right THEN @ ELSE @ + 1]
  /\ UNCHANGED <<clients, loop, files, tries, served, proven>>

AddFailed(c) ==
  /\ At(c, "count")
  /\ tries' = [tries EXCEPT ![session[c].ip] =
                 IF IsBanned(session[c].ip) THEN @ ELSE @ + 1]
  /\ Reply(c)
  /\ UNCHANGED <<clients, loop, files, history>>

-----------------------------------------------------------------------------

Init ==
  /\ peer = [c \in Clients |-> "new"]
  /\ main = [at |-> "accept", conn |-> None, fd |-> None]
  /\ buffer = None
  /\ files = [fd \in Descriptors |-> None]
  /\ session = [c \in Clients |->
                  [at |-> "none", fd |-> None, ip |-> None, username |-> None,
                   authenticated |-> FALSE, message |-> None]]
  /\ request = [c \in Clients |-> None]
  /\ tries = [a \in Addresses |-> 0] /\ guesses = [a \in Addresses |-> 0]
  /\ served = [c \in Clients |-> {}] /\ proven = [c \in Clients |-> {}]
  /\ made = [c \in Clients |-> 0]

AcceptLoop ==
  \/ \E c \in Clients, fd \in Descriptors : Accept(c, fd)
  \/ CopyAddress \/ Spawn

HandleClient(c) ==
  \/ TakeAddress(c) \/ CheckBan(c) \/ ReadRequest(c) \/ EndOfFile(c)
  \/ HandleInvalid(c) \/ HandleMail(c) \/ HandleLogin(c)
  \/ Authenticate(c) \/ Refuse(c) \/ AddFailed(c)

Next ==
  \/ \E c \in Clients :
       Connect(c) \/ SendRequest(c) \/ HangUp(c) \/ HandleClient(c)
  \/ AcceptLoop
  \/ \E ip \in Addresses : BanEnds(ip) \/ CountGetsStale(ip)

Spec == Init /\ [][Next]_vars

(* The threads run, and the directory answers or the call to it fails.     *)
FairSpec ==
  /\ Spec
  /\ WF_vars(AcceptLoop)
  /\ \A c \in Clients : WF_vars(HandleClient(c))

-----------------------------------------------------------------------------
(* Properties.                                                             *)

Serving(c) == session[c].at \notin {"none", "done"}

(* The descriptor of a live session stands for its own connection, though  *)
(* numbers are used again as soon as they are closed: the refused login    *)
(* closes the socket and ends the thread, and no number is closed twice.   *)
OwnDescriptor ==
  \A c \in Clients : Serving(c) => files[session[c].fd] = c

(* Mail is handled under a name only after the password of that name was   *)
(* accepted in this very connection, also when a later login with another  *)
(* name is refused.                                                        *)
MailUnderProvenName == \A c \in Clients : served[c] \subseteq proven[c]

(* What the ban list is for: in a row of wrong passwords, without a pause  *)
(* of TRY_TIMEOUT between failed attempts and without a ban that ended, an *)
(* address has no more than BAN_TRIES - 1, and one more for each           *)
(* connection that was past the test of the ban at that moment.  One who   *)
(* waits for his attempts to get stale is not bounded at all.              *)
GuessesBounded ==
  \A a \in Addresses : guesses[a] <= BAN_TRIES - 1 + Cardinality(Clients)

(* Every request is read and answered, or its connection closed, and a     *)
(* client that has left is not kept: its thread comes back to the test of  *)
(* the socket on every path through the login.                             *)
RequestIsAnswered ==
  \A c \in Clients :
    /\ request[c] # None ~> session[c].at \in {"process", "done"}
    /\ session[c].at \in {"process", "ldap", "count"} ~>
         session[c].at \in {"wait", "done"}
    /\ peer[c] = "left" /\ Serving(c) ~> At(c, "done")

-----------------------------------------------------------------------------
(* The inductive invariant behind the first three.                         *)

(* The connection that the loop has accepted and not yet handed over.      *)
LoopHolds ==
  /\ main.at # "accept" =>
       /\ main.conn \in Clients /\ At(main.conn, "none")
       /\ main.fd \in Descriptors /\ files[main.fd] = main.conn
  /\ main.at = "spawn" => buffer \in Ips

(* What a thread has in hand when it gets somewhere.                       *)
ThreadHolds(c) ==
  /\ Serving(c) => session[c].fd \in Descriptors
  /\ At(c, "start") => buffer \in Ips
  /\ Serving(c) /\ ~At(c, "start") => session[c].ip \in Addresses
  /\ session[c].at \in {"process", "ldap", "count"} => session[c].message \in Request
  /\ session[c].at \in {"ldap", "count"} => session[c].message.kind = "login"
  /\ session[c].authenticated => session[c].username \in proven[c]

Asking(a)   == {c \in Clients : At(c, "ldap") /\ session[c].ip = a}
Counting(a) == {c \in Clients : At(c, "count") /\ session[c].ip = a}

(* How many more passwords the threads past the test of the ban can try.   *)
RoomToGuess(a) ==
  /\ tries[a] <= BAN_TRIES
  /\ tries[a] < BAN_TRIES =>
       guesses[a] <= tries[a] + Cardinality(Counting(a))
  /\ tries[a] = BAN_TRIES =>
       guesses[a] + Cardinality(Asking(a)) <= BAN_TRIES - 1 + Cardinality(Clients)

(* The accept loop, the threads and the table of descriptors agree on who  *)
(* owns what, and the failed attempts on how often it was guessed.         *)
ServerInv ==
  /\ TypeOK
  /\ LoopHolds
  /\ \A c \in Clients : ThreadHolds(c)
  /\ OwnDescriptor
  /\ MailUnderProvenName
  /\ \A a \in Addresses : RoomToGuess(a)

=============================================================================
