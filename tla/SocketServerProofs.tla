------------------------ MODULE SocketServerProofs ------------------------
(***************************************************************************)
(* Proofs about SocketServer, for any connections, addresses, descriptors, *)
(* users, number of requests and limit that satisfy ServerConstants.       *)
(***************************************************************************)
EXTENDS SocketServer, FiniteSetTheorems, TLAPS

-----------------------------------------------------------------------------
(* One step of one thread.                                                 *)

(* The session of c gets the value s, the others stay.                     *)
Moves(c, s) ==
  /\ session' = [session EXCEPT ![c] = s]
  /\ s \in Session

LEMMA MovesTo ==
  ASSUME TypeOK, NEW c \in Clients, NEW s, Moves(c, s)
  PROVE  /\ session' \in [Clients -> Session]
         /\ session'[c] = s
         /\ \A x \in Clients \ {c} : session'[x] = session[x]
  BY DEF Moves, TypeOK

LEMMA SessionWith ==
  ASSUME NEW s \in Session
  PROVE  /\ \A at \in Thread : [s EXCEPT !.at = at] \in Session
         /\ \A at \in Thread, fd \in Descriptors :
              [s EXCEPT !.at = at, !.fd = fd] \in Session
         /\ \A at \in Thread, ip \in Addresses \cup {None} :
              [s EXCEPT !.at = at, !.ip = ip] \in Session
         /\ \A at \in Thread, m \in Request \cup {None} :
              [s EXCEPT !.at = at, !.message = m] \in Session
         /\ \A at \in Thread, m \in Request \cup {None}, u \in Users :
              [s EXCEPT !.at = at, !.message = m, !.username = u,
                        !.authenticated = TRUE] \in Session
  BY DEF Session

-----------------------------------------------------------------------------
(* Counting threads.                                                       *)

LEMMA FewThreads ==
  ASSUME NEW a
  PROVE  /\ IsFiniteSet(Asking(a)) /\ IsFiniteSet(Counting(a))
         /\ Cardinality(Asking(a)) \in Nat /\ Cardinality(Counting(a)) \in Nat
         /\ Cardinality(Clients) \in Nat
         /\ Cardinality(Asking(a)) + Cardinality(Counting(a)) <= Cardinality(Clients)
         /\ Cardinality(Counting(a)) <= Cardinality(Clients)
<1>1. Asking(a) \subseteq Clients /\ Counting(a) \subseteq Clients
  BY DEF Asking, Counting
<1>2. Asking(a) \cap Counting(a) = {}
  BY DEF Asking, Counting, At
<1>3. IsFiniteSet(Clients) BY ServerConstants
<1>4. /\ IsFiniteSet(Asking(a)) /\ IsFiniteSet(Counting(a))
      /\ Cardinality(Counting(a)) <= Cardinality(Clients)
  BY <1>1, <1>3, FS_Subset
<1>5. /\ Cardinality(Asking(a)) \in Nat /\ Cardinality(Counting(a)) \in Nat
      /\ Cardinality(Clients) \in Nat
  BY <1>3, <1>4, FS_CardinalityType
<1>6. Cardinality(Asking(a) \cup Counting(a)) =
        Cardinality(Asking(a)) + Cardinality(Counting(a))
  <2>1. Cardinality(Asking(a) \cap Counting(a)) = 0
    BY <1>2, FS_EmptySet
  <2>2. Cardinality(Asking(a) \cup Counting(a)) =
          Cardinality(Asking(a)) + Cardinality(Counting(a))
            - Cardinality(Asking(a) \cap Counting(a))
    BY <1>4, FS_Union
  <2> QED BY <1>5, <2>1, <2>2
<1>7. Cardinality(Asking(a) \cup Counting(a)) <= Cardinality(Clients)
  <2>1. Asking(a) \cup Counting(a) \subseteq Clients BY <1>1
  <2> QED BY <1>3, <2>1, FS_Subset
<1> QED BY <1>4, <1>5, <1>6, <1>7

(* No thread begins to ask or stops counting, and nothing is counted.      *)
LEMMA RoomKept ==
  ASSUME TypeOK, NEW a \in Addresses, RoomToGuess(a),
         tries'[a] = tries[a], guesses'[a] = guesses[a],
         Counting(a)' = Counting(a), Asking(a)' \subseteq Asking(a)
  PROVE  RoomToGuess(a)'
<1>1. Cardinality(Asking(a)') <= Cardinality(Asking(a))
  BY FewThreads, FS_Subset
<1>2. Cardinality(Asking(a)') \in Nat
  <2>1. IsFiniteSet(Asking(a)') BY FewThreads, FS_Subset
  <2> QED BY <2>1, FS_CardinalityType
<1>3. guesses[a] \in Nat BY DEF TypeOK
<1> HIDE DEF Asking, Counting
<1> QED BY <1>1, <1>2, <1>3, FewThreads, ServerConstants DEF RoomToGuess

(* A thread passes the test of the ban.                                    *)
LEMMA RoomToAsk ==
  ASSUME NEW a \in Addresses, RoomToGuess(a), tries[a] < BAN_TRIES,
         TypeOK, tries'[a] = tries[a], guesses'[a] = guesses[a],
         Counting(a)' = Counting(a)
  PROVE  RoomToGuess(a)'
  BY ServerConstants DEF RoomToGuess, TypeOK

(* A thread has its answer from the directory and goes to count it.        *)
LEMMA RoomRefused ==
  ASSUME TypeOK, NEW a \in Addresses, RoomToGuess(a), NEW c \in Asking(a),
         tries'[a] = tries[a],
         guesses'[a] = guesses[a] \/ guesses'[a] = guesses[a] + 1,
         Counting(a)' = Counting(a) \cup {c}, Asking(a)' = Asking(a) \ {c}
  PROVE  RoomToGuess(a)'
<1>1. c \notin Counting(a) BY DEF Asking, Counting, At
<1>2. Cardinality(Counting(a)') = Cardinality(Counting(a)) + 1
  BY <1>1, FewThreads, FS_AddElement
<1>3. Cardinality(Asking(a)') = Cardinality(Asking(a)) - 1
  BY FewThreads, FS_RemoveElement
<1>4. guesses[a] \in Nat /\ tries[a] \in Nat BY DEF TypeOK
<1> QED BY <1>2, <1>3, <1>4, FewThreads, ServerConstants DEF RoomToGuess

(* A thread counts the failed attempt, unless the ban has come meanwhile.  *)
LEMMA RoomCounted ==
  ASSUME TypeOK, NEW a \in Addresses, RoomToGuess(a), NEW c \in Counting(a),
         tries'[a] = IF tries[a] >= BAN_TRIES THEN tries[a] ELSE tries[a] + 1,
         guesses'[a] = guesses[a],
         Counting(a)' = Counting(a) \ {c}, Asking(a)' = Asking(a)
  PROVE  RoomToGuess(a)'
<1>1. Cardinality(Counting(a)') = Cardinality(Counting(a)) - 1
  BY FewThreads, FS_RemoveElement
<1>2. Cardinality(Asking(a)') = Cardinality(Asking(a))
  OBVIOUS
<1>3. guesses[a] \in Nat /\ tries[a] \in Nat BY DEF TypeOK
<1> QED BY <1>1, <1>2, <1>3, FewThreads, ServerConstants DEF RoomToGuess

(* How the two sets follow a step of a thread.                             *)
LEMMA SetsMove ==
  ASSUME TypeOK, NEW c \in Clients, NEW s, Moves(c, s), NEW a
  PROVE  /\ Asking(a)' = (Asking(a) \ {c}) \cup
              (IF s.at = "ldap" /\ s.ip = a THEN {c} ELSE {})
         /\ Counting(a)' = (Counting(a) \ {c}) \cup
              (IF s.at = "count" /\ s.ip = a THEN {c} ELSE {})
<1>1. /\ session'[c] = s
      /\ \A x \in Clients \ {c} : session'[x] = session[x]
  BY MovesTo
<1> QED BY <1>1 DEF Asking, Counting, At

-----------------------------------------------------------------------------
(* Who owns what.                                                          *)

(* What the other threads and the loop have is not touched by a thread     *)
(* that keeps its descriptor, or closes it and ends.                       *)
LEMMA ThreadMoves ==
  ASSUME ServerInv, NEW c \in Clients, NEW s, Moves(c, s), Serving(c),
         s.fd = session[c].fd, s.at # "none",
         UNCHANGED <<main, buffer>>,
         \/ files' = files
         \/ s.at = "done" /\ files' = [files EXCEPT ![session[c].fd] = None],
         ThreadHolds(c)',
         \A x \in Clients \ {c} : proven'[x] = proven[x]
  PROVE  /\ LoopHolds'
         /\ \A x \in Clients : ThreadHolds(x)'
         /\ OwnDescriptor'
<1>1. /\ session'[c] = s
      /\ \A x \in Clients \ {c} : session'[x] = session[x]
  BY MovesTo DEF ServerInv
<1>2. session[c].fd \in Descriptors /\ files[session[c].fd] = c
  BY DEF ServerInv, ThreadHolds, OwnDescriptor
<1>3. \A fd \in Descriptors \ {session[c].fd} : files'[fd] = files[fd]
  BY DEF ServerInv, TypeOK
<1>4. s.at # "done" => files'[session[c].fd] = c
  BY <1>2
<1>5. LoopHolds'
  <2>1. main.at # "accept" => main.conn # c /\ main.fd # session[c].fd
    BY <1>2 DEF ServerInv, LoopHolds, Serving, At
  <2> QED BY <1>1, <1>3, <2>1 DEF ServerInv, LoopHolds, At
<1>6. ASSUME NEW x \in Clients PROVE ThreadHolds(x)'
  BY <1>1, <1>6 DEF ServerInv, ThreadHolds, Serving, At
<1>7. ASSUME NEW x \in Clients, Serving(x)' PROVE files'[session'[x].fd] = x
  <2>1. CASE x = c
    BY <1>1, <1>4, <1>7, <2>1 DEF Serving
  <2>2. CASE x # c
    <3>1. Serving(x) BY <1>1, <1>7, <2>2 DEF Serving
    <3>2. session[x].fd \in Descriptors /\ files[session[x].fd] = x
      BY <3>1 DEF ServerInv, ThreadHolds, OwnDescriptor
    <3> QED BY <1>1, <1>2, <1>3, <2>2, <3>2
  <2> QED BY <2>1, <2>2
<1> QED BY <1>5, <1>6, <1>7 DEF OwnDescriptor

(* The mail that is handled and the passwords stay as they are.            *)
LEMMA HistoryKept ==
  ASSUME ServerInv, UNCHANGED <<served, proven>>
  PROVE  MailUnderProvenName'
  BY DEF ServerInv, MailUnderProvenName

LEMMA Initially == Init => ServerInv
<1> SUFFICES ASSUME Init PROVE ServerInv
  OBVIOUS
<1>1. TypeOK
  BY ServerConstants
  DEF Init, TypeOK, Session, Thread, Addresses
<1>2. /\ LoopHolds /\ OwnDescriptor /\ MailUnderProvenName
      /\ \A c \in Clients : ThreadHolds(c)
  BY DEF Init, LoopHolds, OwnDescriptor, MailUnderProvenName, ThreadHolds,
         Serving, At
<1>3. ASSUME NEW a \in Addresses PROVE RoomToGuess(a)
  <2>1. tries[a] = 0 /\ guesses[a] = 0 BY DEF Init
  <2> QED BY <2>1, FewThreads, ServerConstants DEF RoomToGuess
<1> QED BY <1>1, <1>2, <1>3 DEF ServerInv

-----------------------------------------------------------------------------
(* The steps.                                                              *)

(* A step of a thread that neither begins to ask the directory nor counts. *)
LEMMA QuietMove ==
  ASSUME ServerInv, NEW c \in Clients, NEW s, Moves(c, s), Serving(c),
         ~At(c, "count"), s.fd = session[c].fd,
         s.at \notin {"none", "ldap", "count"},
         UNCHANGED <<main, buffer, tries, guesses, made, peer>>,
         \/ files' = files
         \/ s.at = "done" /\ files' = [files EXCEPT ![session[c].fd] = None],
         ThreadHolds(c)',
         \A x \in Clients \ {c} : proven'[x] = proven[x],
         request' \in [Clients -> Request \cup {None}],
         served' \in [Clients -> SUBSET (Users \cup {None})],
         proven' \in [Clients -> SUBSET Users],
         MailUnderProvenName'
  PROVE  ServerInv'
<1>1. LoopHolds' /\ OwnDescriptor' /\ \A x \in Clients : ThreadHolds(x)'
  BY ThreadMoves
<1>2. TypeOK'
  <2>1. session' \in [Clients -> Session] BY MovesTo DEF ServerInv
  <2>2. files' \in [Descriptors -> Clients \cup {None}]
    BY DEF ServerInv, TypeOK
  <2> QED BY <2>1, <2>2 DEF ServerInv, TypeOK
<1>3. ASSUME NEW a \in Addresses PROVE RoomToGuess(a)'
  <2>1. c \notin Counting(a) BY DEF Counting
  <2>2. Counting(a)' = Counting(a) /\ Asking(a)' \subseteq Asking(a)
    BY <2>1, SetsMove DEF ServerInv
  <2> QED BY <2>2, RoomKept DEF ServerInv
<1> QED BY <1>1, <1>2, <1>3 DEF ServerInv

LEMMA StepTakeAddress ==
  ASSUME ServerInv, NEW c \in Clients, TakeAddress(c)
  PROVE  ServerInv'
<1>1. PICK a \in Addresses :
        session' = [session EXCEPT ![c].at = "ban", ![c].ip = a]
  <2>1. buffer \in Ips BY DEF TakeAddress, ServerInv, ThreadHolds
  <2>2. main.at = "copy" => AddressOf[main.conn] \in Ips
    BY ServerConstants DEF ServerInv, LoopHolds
  <2> QED BY <2>1, <2>2 DEF TakeAddress, Addresses
<1> DEFINE s == [session[c] EXCEPT !.at = "ban", !.ip = a]
<1>2. session[c] \in Session BY DEF ServerInv, TypeOK
<1>3. s \in Session BY <1>2, SessionWith DEF Thread
<1>4. Moves(c, s) BY <1>1, <1>3 DEF Moves, ServerInv, TypeOK
<1>5. /\ s.at = "ban" /\ s.ip = a /\ s.fd = session[c].fd
      /\ s.authenticated = session[c].authenticated
      /\ s.username = session[c].username
  BY <1>2 DEF Session
<1> HIDE DEF s
<1>6. session'[c] = s BY <1>4, MovesTo DEF ServerInv
<1>7. ThreadHolds(c)'
  BY <1>5, <1>6 DEF TakeAddress, history, ServerInv, ThreadHolds, Serving, At
<1>8. MailUnderProvenName' BY HistoryKept DEF TakeAddress, history
<1> QED
  BY <1>4, <1>5, <1>7, <1>8, QuietMove
  DEF TakeAddress, clients, loop, history, Serving, At, ServerInv, TypeOK

(* The thread closes its descriptor and ends.                              *)
LEMMA Ends ==
  ASSUME ServerInv, NEW c \in Clients, Serving(c), ~At(c, "count"),
         Close(session[c].fd), Go(c, "done"),
         UNCHANGED <<clients, loop, tries, history>>
  PROVE  ServerInv'
<1> DEFINE s == [session[c] EXCEPT !.at = "done"]
<1>1. session[c] \in Session BY DEF ServerInv, TypeOK
<1>2. s \in Session BY <1>1, SessionWith DEF Thread
<1>3. Moves(c, s) BY <1>2 DEF Go, Moves, ServerInv, TypeOK
<1>4. /\ s.at = "done" /\ s.ip = session[c].ip /\ s.fd = session[c].fd
      /\ s.authenticated = session[c].authenticated
      /\ s.username = session[c].username
  BY <1>1 DEF Session
<1> HIDE DEF s
<1>5. session'[c] = s BY <1>3, MovesTo DEF ServerInv
<1>6. ThreadHolds(c)'
  BY <1>4, <1>5 DEF history, ServerInv, ThreadHolds, Serving, At
<1>7. MailUnderProvenName' BY HistoryKept DEF history
<1> QED
  BY <1>3, <1>4, <1>6, <1>7, QuietMove
  DEF Close, clients, loop, history, ServerInv, TypeOK

(* The thread answers and waits for the next request.                      *)
LEMMA Answers ==
  ASSUME ServerInv, NEW c \in Clients, At(c, "process"), Reply(c),
         UNCHANGED <<clients, loop, files, tries, guesses, proven>>,
         served' \in [Clients -> SUBSET (Users \cup {None})],
         MailUnderProvenName'
  PROVE  ServerInv'
<1> DEFINE s == [session[c] EXCEPT !.at = "wait", !.message = None]
<1>1. session[c] \in Session BY DEF ServerInv, TypeOK
<1>2. s \in Session BY <1>1, SessionWith DEF Thread
<1>3. Moves(c, s) BY <1>2 DEF Reply, Moves, ServerInv, TypeOK
<1>4. /\ s.at = "wait" /\ s.ip = session[c].ip /\ s.fd = session[c].fd
      /\ s.authenticated = session[c].authenticated
      /\ s.username = session[c].username
  BY <1>1 DEF Session
<1> HIDE DEF s
<1>5. session'[c] = s BY <1>3, MovesTo DEF ServerInv
<1>6. ThreadHolds(c)'
  BY <1>4, <1>5 DEF ServerInv, ThreadHolds, Serving, At
<1> QED
  BY <1>3, <1>4, <1>6, QuietMove
  DEF clients, loop, Serving, At, ServerInv, TypeOK

(* The thread goes on from the test of the ban to its first request.       *)
LEMMA StepCheckBan ==
  ASSUME ServerInv, NEW c \in Clients, CheckBan(c)
  PROVE  ServerInv'
<1>1. CASE IsBanned(session[c].ip)
  BY <1>1, Ends DEF CheckBan, Serving, At
<1>2. CASE ~IsBanned(session[c].ip)
  <2> DEFINE s == [session[c] EXCEPT !.at = "wait"]
  <2>1. session[c] \in Session BY DEF ServerInv, TypeOK
  <2>2. s \in Session BY <2>1, SessionWith DEF Thread
  <2>3. Moves(c, s) BY <1>2, <2>2 DEF CheckBan, Go, Moves, ServerInv, TypeOK
  <2>4. /\ s.at = "wait" /\ s.ip = session[c].ip /\ s.fd = session[c].fd
        /\ s.authenticated = session[c].authenticated
        /\ s.username = session[c].username
    BY <2>1 DEF Session
  <2> HIDE DEF s
  <2>5. session'[c] = s BY <2>3, MovesTo DEF ServerInv
  <2>6. ThreadHolds(c)'
    BY <2>4, <2>5 DEF CheckBan, history, ServerInv, ThreadHolds, Serving, At
  <2>7. MailUnderProvenName' BY HistoryKept DEF CheckBan, history
  <2> QED
    BY <1>2, <2>3, <2>4, <2>6, <2>7, QuietMove
    DEF CheckBan, clients, loop, history, Serving, At, ServerInv, TypeOK
<1> QED BY <1>1, <1>2

LEMMA StepReadRequest ==
  ASSUME ServerInv, NEW c \in Clients, ReadRequest(c)
  PROVE  ServerInv'
<1>1. session[c].fd \in Descriptors
  BY DEF ReadRequest, ServerInv, ThreadHolds, Serving, At
<1>2. PICK from \in Clients :
        /\ request[from] # None
        /\ session' = [session EXCEPT ![c].at = "process",
                                      ![c].message = request[from]]
        /\ request' = [request EXCEPT ![from] = None]
  BY <1>1 DEF ReadRequest, ServerInv, TypeOK
<1> DEFINE m == request[from]
           s == [session[c] EXCEPT !.at = "process", !.message = m]
<1>3. m \in Request BY <1>2 DEF ServerInv, TypeOK
<1>4. request' \in [Clients -> Request \cup {None}]
  BY <1>2 DEF ServerInv, TypeOK
<1>5. session[c] \in Session BY DEF ServerInv, TypeOK
<1> HIDE DEF m
<1>6. s \in Session BY <1>3, <1>5, SessionWith DEF Thread
<1>7. Moves(c, s) BY <1>2, <1>6 DEF m, Moves, ServerInv, TypeOK
<1>8. /\ s.at = "process" /\ s.ip = session[c].ip /\ s.fd = session[c].fd
      /\ s.authenticated = session[c].authenticated
      /\ s.username = session[c].username /\ s.message = m
  BY <1>5 DEF Session
<1> HIDE DEF s
<1>9. session'[c] = s BY <1>7, MovesTo DEF ServerInv
<1>10. ThreadHolds(c)'
  BY <1>3, <1>8, <1>9 DEF ReadRequest, history, ServerInv, ThreadHolds, Serving, At
<1>11. MailUnderProvenName' BY HistoryKept DEF ReadRequest, history
<1> QED
  BY <1>4, <1>7, <1>8, <1>10, <1>11, QuietMove
  DEF ReadRequest, loop, history, Serving, At, ServerInv, TypeOK

LEMMA StepEndOfFile ==
  ASSUME ServerInv, NEW c \in Clients, EndOfFile(c)
  PROVE  ServerInv'
  BY Ends DEF EndOfFile, Serving, At

LEMMA StepHandleInvalid ==
  ASSUME ServerInv, NEW c \in Clients, HandleInvalid(c)
  PROVE  ServerInv'
<1>1. MailUnderProvenName' BY HistoryKept DEF HandleInvalid, history
<1> QED BY <1>1, Answers DEF HandleInvalid, history, ServerInv, TypeOK

LEMMA StepHandleMail ==
  ASSUME ServerInv, NEW c \in Clients, HandleMail(c)
  PROVE  ServerInv'
<1>1. CASE session[c].authenticated
  <2>1. session[c].username \in proven[c]
    BY <1>1 DEF ServerInv, ThreadHolds
  <2>2. session[c].username \in Users \cup {None}
    BY DEF ServerInv, TypeOK, Session
  <2>3. served' = [served EXCEPT ![c] = @ \cup {session[c].username}]
    BY <1>1 DEF HandleMail
  <2>4. served' \in [Clients -> SUBSET (Users \cup {None})]
    BY <2>2, <2>3 DEF ServerInv, TypeOK
  <2>5. MailUnderProvenName'
    BY <2>1, <2>3 DEF HandleMail, ServerInv, TypeOK, MailUnderProvenName
  <2> QED BY <2>4, <2>5, Answers DEF HandleMail
<1>2. CASE ~session[c].authenticated
  <2>1. MailUnderProvenName' BY <1>2, HistoryKept DEF HandleMail
  <2> QED BY <1>2, <2>1, Answers DEF HandleMail, ServerInv, TypeOK
<1> QED BY <1>1, <1>2

(* The test of the ban lets one more thread ask the directory.             *)
LEMMA StepHandleLogin ==
  ASSUME ServerInv, NEW c \in Clients, HandleLogin(c)
  PROVE  ServerInv'
<1>1. CASE IsBanned(session[c].ip)
  BY <1>1, Ends DEF HandleLogin, Serving, At
<1>2. CASE ~IsBanned(session[c].ip)
  <2> DEFINE s == [session[c] EXCEPT !.at = "ldap"]
  <2>1. session[c] \in Session BY DEF ServerInv, TypeOK
  <2>2. s \in Session BY <2>1, SessionWith DEF Thread
  <2>3. Moves(c, s) BY <1>2, <2>2 DEF HandleLogin, Go, Moves, ServerInv, TypeOK
  <2>4. /\ s.at = "ldap" /\ s.ip = session[c].ip /\ s.fd = session[c].fd
        /\ s.authenticated = session[c].authenticated
        /\ s.username = session[c].username /\ s.message = session[c].message
    BY <2>1 DEF Session
  <2> HIDE DEF s
  <2>5. session'[c] = s BY <2>3, MovesTo DEF ServerInv
  <2>6. ThreadHolds(c)'
    BY <2>4, <2>5 DEF HandleLogin, history, ServerInv, ThreadHolds, Serving, At
  <2>7. MailUnderProvenName' BY HistoryKept DEF HandleLogin, history
  <2>8. UNCHANGED <<peer, main, buffer, files, request, tries, guesses, served,
                    proven, made>>
    BY <1>2 DEF HandleLogin, clients, loop, history
  <2>9. LoopHolds' /\ OwnDescriptor' /\ \A x \in Clients : ThreadHolds(x)'
    BY <2>3, <2>4, <2>6, <2>8, ThreadMoves DEF HandleLogin, Serving, At
  <2>10. TypeOK'
    BY <2>3, <2>8, MovesTo DEF ServerInv, TypeOK
  <2>11. ASSUME NEW a \in Addresses PROVE RoomToGuess(a)'
    <3>1. c \notin Counting(a) BY DEF HandleLogin, Counting, At
    <3>2. Counting(a)' = Counting(a) BY <2>3, <2>4, <3>1, SetsMove DEF ServerInv
    <3>3. CASE session[c].ip = a
      <4>1. tries[a] < BAN_TRIES
        BY <1>2, <3>3, ServerConstants DEF IsBanned, ServerInv, TypeOK
      <4> QED BY <2>8, <3>2, <4>1, RoomToAsk DEF ServerInv
    <3>4. CASE session[c].ip # a
      <4>1. Asking(a)' \subseteq Asking(a)
        BY <2>3, <2>4, <3>4, SetsMove DEF ServerInv
      <4> QED BY <2>8, <3>2, <4>1, RoomKept DEF ServerInv
    <3> QED BY <3>3, <3>4
  <2> QED BY <2>7, <2>9, <2>10, <2>11 DEF ServerInv
<1> QED BY <1>1, <1>2

LEMMA StepAuthenticate ==
  ASSUME ServerInv, NEW c \in Clients, Authenticate(c)
  PROVE  ServerInv'
<1> DEFINE u == session[c].message.user
           s == [session[c] EXCEPT !.at = "wait", !.message = None,
                                   !.username = u, !.authenticated = TRUE]
<1>1. session[c].message \in Request /\ session[c].message.kind = "login"
  BY DEF Authenticate, ServerInv, ThreadHolds, At
<1>2. u \in Users BY <1>1 DEF Request
<1>3. session[c] \in Session BY DEF ServerInv, TypeOK
<1> HIDE DEF u
<1>4. s \in Session BY <1>2, <1>3, SessionWith DEF Thread
<1>5. Moves(c, s) BY <1>4 DEF u, Authenticate, Moves, ServerInv, TypeOK
<1>6. /\ s.at = "wait" /\ s.ip = session[c].ip /\ s.fd = session[c].fd
      /\ s.username = u
  BY <1>3 DEF Session
<1> HIDE DEF s
<1>7. session'[c] = s BY <1>5, MovesTo DEF ServerInv
<1>8. proven' = [proven EXCEPT ![c] = @ \cup {u}] BY DEF Authenticate, u
<1>9. /\ proven' \in [Clients -> SUBSET Users]
      /\ proven'[c] = proven[c] \cup {u}
      /\ \A x \in Clients \ {c} : proven'[x] = proven[x]
  BY <1>2, <1>8 DEF ServerInv, TypeOK
<1>10. ThreadHolds(c)'
  BY <1>6, <1>7, <1>9 DEF Authenticate, ServerInv, ThreadHolds, Serving, At
<1>11. MailUnderProvenName'
  BY <1>9 DEF Authenticate, ServerInv, MailUnderProvenName
<1> QED
  BY <1>5, <1>6, <1>9, <1>10, <1>11, QuietMove
  DEF Authenticate, clients, loop, Serving, At, ServerInv, TypeOK

(* The directory's no: one thread less asks, one more counts.              *)
LEMMA StepRefuse ==
  ASSUME ServerInv, NEW c \in Clients, Refuse(c)
  PROVE  ServerInv'
<1> DEFINE s == [session[c] EXCEPT !.at = "count"]
           i == session[c].ip
<1>1. session[c] \in Session BY DEF ServerInv, TypeOK
<1>2. s \in Session BY <1>1, SessionWith DEF Thread
<1>3. Moves(c, s) BY <1>2 DEF Refuse, Go, Moves, ServerInv, TypeOK
<1>4. /\ s.at = "count" /\ s.ip = i /\ s.fd = session[c].fd
      /\ s.authenticated = session[c].authenticated
      /\ s.username = session[c].username /\ s.message = session[c].message
  BY <1>1 DEF Session
<1>5. i \in Addresses
  BY DEF Refuse, ServerInv, ThreadHolds, Serving, At
<1>6. /\ guesses' \in [Addresses -> Nat]
      /\ guesses'[i] = guesses[i] \/ guesses'[i] = guesses[i] + 1
      /\ \A a \in Addresses \ {i} : guesses'[a] = guesses[a]
  BY <1>5 DEF Refuse, ServerInv, TypeOK
<1> HIDE DEF s
<1>7. session'[c] = s BY <1>3, MovesTo DEF ServerInv
<1>8. ThreadHolds(c)'
  BY <1>4, <1>5, <1>7 DEF Refuse, ServerInv, ThreadHolds, Serving, At
<1>9. MailUnderProvenName' BY HistoryKept DEF Refuse
<1>10. UNCHANGED <<peer, main, buffer, files, request, tries, served, proven, made>>
  BY DEF Refuse, clients, loop
<1>11. LoopHolds' /\ OwnDescriptor' /\ \A x \in Clients : ThreadHolds(x)'
  BY <1>3, <1>4, <1>8, <1>10, ThreadMoves DEF Refuse, Serving, At
<1>12. TypeOK'
  BY <1>3, <1>6, <1>10, MovesTo DEF ServerInv, TypeOK
<1>13. ASSUME NEW a \in Addresses PROVE RoomToGuess(a)'
  <2>1. /\ Asking(a)' = Asking(a) \ {c}
        /\ Counting(a)' = (Counting(a) \ {c}) \cup (IF i = a THEN {c} ELSE {})
    BY <1>3, <1>4, SetsMove DEF ServerInv
  <2>2. c \notin Counting(a) BY DEF Refuse, Counting, At
  <2>3. CASE a = i
    <3>1. c \in Asking(a) BY <2>3 DEF Refuse, Asking, At
    <3>2. Counting(a)' = Counting(a) \cup {c} BY <2>1, <2>2, <2>3
    <3>3. guesses'[a] = guesses[a] \/ guesses'[a] = guesses[a] + 1
      BY <1>6, <2>3
    <3> HIDE DEF i
    <3> QED BY <1>10, <2>1, <3>1, <3>2, <3>3, RoomRefused DEF ServerInv
  <2>4. CASE a # i
    BY <1>6, <1>10, <2>1, <2>2, <2>4, RoomKept DEF ServerInv
  <2> QED BY <2>3, <2>4
<1> QED BY <1>9, <1>11, <1>12, <1>13 DEF ServerInv

(* The failed attempt is counted, once, and the thread waits again.        *)
LEMMA StepAddFailed ==
  ASSUME ServerInv, NEW c \in Clients, AddFailed(c)
  PROVE  ServerInv'
<1> DEFINE s == [session[c] EXCEPT !.at = "wait", !.message = None]
           i == session[c].ip
<1>1. session[c] \in Session BY DEF ServerInv, TypeOK
<1>2. s \in Session BY <1>1, SessionWith DEF Thread
<1>3. Moves(c, s) BY <1>2 DEF AddFailed, Reply, Moves, ServerInv, TypeOK
<1>4. /\ s.at = "wait" /\ s.ip = i /\ s.fd = session[c].fd
      /\ s.authenticated = session[c].authenticated
      /\ s.username = session[c].username
  BY <1>1 DEF Session
<1>5. i \in Addresses
  BY DEF AddFailed, ServerInv, ThreadHolds, Serving, At
<1>6. /\ tries' \in [Addresses -> Nat]
      /\ tries'[i] = IF tries[i] >= BAN_TRIES THEN tries[i] ELSE tries[i] + 1
      /\ \A a \in Addresses \ {i} : tries'[a] = tries[a]
  BY <1>5 DEF AddFailed, IsBanned, ServerInv, TypeOK
<1> HIDE DEF s
<1>7. session'[c] = s BY <1>3, MovesTo DEF ServerInv
<1>8. UNCHANGED <<peer, main, buffer, files, request, guesses, served, proven, made>>
  BY DEF AddFailed, clients, loop, history
<1>9. ThreadHolds(c)'
  BY <1>4, <1>5, <1>7, <1>8 DEF AddFailed, ServerInv, ThreadHolds, Serving, At
<1>10. MailUnderProvenName' BY <1>8, HistoryKept
<1>11. LoopHolds' /\ OwnDescriptor' /\ \A x \in Clients : ThreadHolds(x)'
  BY <1>3, <1>4, <1>8, <1>9, ThreadMoves DEF AddFailed, Serving, At
<1>12. TypeOK'
  BY <1>3, <1>6, <1>8, MovesTo DEF ServerInv, TypeOK
<1>13. ASSUME NEW a \in Addresses PROVE RoomToGuess(a)'
  <2>1. /\ Asking(a)' = Asking(a) \ {c}
        /\ Counting(a)' = Counting(a) \ {c}
    BY <1>3, <1>4, SetsMove DEF ServerInv
  <2>2. Asking(a)' = Asking(a)
    BY <2>1 DEF AddFailed, Asking, At
  <2>3. CASE a = i
    <3>1. c \in Counting(a) BY <2>3 DEF AddFailed, Counting, At
    <3>2. /\ tries'[a] = IF tries[a] >= BAN_TRIES THEN tries[a] ELSE tries[a] + 1
          /\ guesses'[a] = guesses[a]
      BY <1>6, <1>8, <2>3
    <3> HIDE DEF i
    <3> QED BY <2>1, <2>2, <3>1, <3>2, RoomCounted DEF ServerInv
  <2>4. CASE a # i
    <3>1. c \notin Counting(a) BY <2>4 DEF Counting
    <3>2. tries'[a] = tries[a] /\ guesses'[a] = guesses[a]
      BY <1>6, <1>8, <2>4
    <3> HIDE DEF i
    <3> QED BY <2>1, <2>2, <3>1, <3>2, RoomKept DEF ServerInv
  <2> QED BY <2>3, <2>4
<1> QED BY <1>10, <1>11, <1>12, <1>13 DEF ServerInv

LEMMA StepHandleClient ==
  ASSUME ServerInv, NEW c \in Clients, HandleClient(c)
  PROVE  ServerInv'
  BY StepTakeAddress, StepCheckBan, StepReadRequest, StepEndOfFile,
     StepHandleInvalid, StepHandleMail, StepHandleLogin, StepAuthenticate,
     StepRefuse, StepAddFailed
  DEF HandleClient

(* While no thread moves, nobody begins to ask or stops counting.          *)
LEMMA RoomWaits ==
  ASSUME ServerInv, UNCHANGED <<session, tries, guesses>>
  PROVE  \A a \in Addresses : RoomToGuess(a)'
<1> SUFFICES ASSUME NEW a \in Addresses PROVE RoomToGuess(a)'
  OBVIOUS
<1>1. Asking(a)' = Asking(a) /\ Counting(a)' = Counting(a)
  BY DEF Asking, Counting, At
<1> QED BY <1>1, RoomKept DEF ServerInv

(* The clients do not reach into the server.                               *)
LEMMA StepClient ==
  ASSUME ServerInv, NEW c \in Clients, Connect(c) \/ SendRequest(c) \/ HangUp(c)
  PROVE  ServerInv'
<1>1. UNCHANGED <<main, buffer, files, session, tries, guesses, served, proven>>
  BY DEF Connect, SendRequest, HangUp, loop, history
<1>2. TypeOK'
  <2>1. CASE Connect(c)
    BY <1>1, <2>1 DEF Connect, ServerInv, TypeOK
  <2>2. CASE SendRequest(c)
    BY <1>1, <2>2 DEF SendRequest, ServerInv, TypeOK
  <2>3. CASE HangUp(c)
    BY <1>1, <2>3 DEF HangUp, ServerInv, TypeOK
  <2> QED BY <2>1, <2>2, <2>3
<1>3. /\ LoopHolds' /\ OwnDescriptor' /\ MailUnderProvenName'
      /\ \A x \in Clients : ThreadHolds(x)'
  BY <1>1 DEF ServerInv, LoopHolds, OwnDescriptor, MailUnderProvenName,
              ThreadHolds, Serving, At
<1> QED BY <1>1, <1>2, <1>3, RoomWaits DEF ServerInv

LEMMA StepTimePasses ==
  ASSUME ServerInv, NEW ip \in Addresses, BanEnds(ip) \/ CountGetsStale(ip)
  PROVE  ServerInv'
<1>1. UNCHANGED <<peer, main, buffer, files, session, request, served, proven, made>>
  BY DEF BanEnds, CountGetsStale, clients, loop
<1>2. /\ tries' \in [Addresses -> Nat] /\ guesses' \in [Addresses -> Nat]
      /\ tries'[ip] = 0 /\ guesses'[ip] = 0
      /\ \A a \in Addresses \ {ip} : tries'[a] = tries[a] /\ guesses'[a] = guesses[a]
  BY DEF BanEnds, CountGetsStale, ServerInv, TypeOK
<1>3. TypeOK' BY <1>1, <1>2 DEF ServerInv, TypeOK
<1>4. /\ LoopHolds' /\ OwnDescriptor' /\ MailUnderProvenName'
      /\ \A x \in Clients : ThreadHolds(x)'
  BY <1>1 DEF ServerInv, LoopHolds, OwnDescriptor, MailUnderProvenName,
              ThreadHolds, Serving, At
<1>5. ASSUME NEW a \in Addresses PROVE RoomToGuess(a)'
  <2>1. Asking(a)' = Asking(a) /\ Counting(a)' = Counting(a)
    BY <1>1 DEF Asking, Counting, At
  <2>2. CASE a = ip
    BY <1>2, <2>1, <2>2, FewThreads, ServerConstants DEF RoomToGuess
  <2>3. CASE a # ip
    BY <1>2, <2>1, <2>3, RoomKept DEF ServerInv
  <2> QED BY <2>2, <2>3
<1> QED BY <1>3, <1>4, <1>5 DEF ServerInv

LEMMA StepAccept ==
  ASSUME ServerInv, NEW c \in Clients, NEW fd \in Descriptors, Accept(c, fd)
  PROVE  ServerInv'
<1>1. UNCHANGED <<peer, buffer, session, request, tries, guesses, served, proven, made>>
  BY DEF Accept, clients, history
<1>2. /\ files' \in [Descriptors -> Clients \cup {None}]
      /\ files'[fd] = c /\ \A f \in Descriptors \ {fd} : files'[f] = files[f]
  BY DEF Accept, ServerInv, TypeOK
<1>3. TypeOK' BY <1>1, <1>2 DEF Accept, ServerInv, TypeOK
<1>4. LoopHolds' BY <1>1, <1>2 DEF Accept, LoopHolds, At
<1>5. ASSUME NEW x \in Clients PROVE ThreadHolds(x)'
  BY <1>1 DEF ServerInv, ThreadHolds, Serving, At
<1>6. ASSUME NEW x \in Clients, Serving(x)' PROVE files'[session'[x].fd] = x
  <2>1. Serving(x) BY <1>1, <1>6 DEF Serving
  <2>2. session[x].fd \in Descriptors /\ files[session[x].fd] = x
    BY <2>1 DEF ServerInv, ThreadHolds, OwnDescriptor
  <2>3. files[fd] = None /\ None \notin Clients
    BY ServerConstants DEF Accept
  <2> QED BY <1>1, <1>2, <2>2, <2>3
<1>7. MailUnderProvenName' BY <1>1, HistoryKept
<1> QED BY <1>1, <1>3, <1>4, <1>5, <1>6, <1>7, RoomWaits DEF ServerInv, OwnDescriptor

LEMMA StepCopyAddress ==
  ASSUME ServerInv, CopyAddress
  PROVE  ServerInv'
<1>1. UNCHANGED <<peer, files, session, request, tries, guesses, served, proven, made>>
  BY DEF CopyAddress, clients, history
<1>2. /\ buffer' \in Ips
      /\ main' = [main EXCEPT !.at = "spawn"]
  BY ServerConstants DEF CopyAddress, ServerInv, LoopHolds
<1>3. TypeOK' BY <1>1, <1>2 DEF ServerInv, TypeOK
<1>4. LoopHolds'
  BY <1>1, <1>2 DEF CopyAddress, ServerInv, TypeOK, LoopHolds, At
<1>5. ASSUME NEW x \in Clients PROVE ThreadHolds(x)'
  BY <1>1, <1>2 DEF ServerInv, ThreadHolds, Serving, At
<1>6. OwnDescriptor' BY <1>1 DEF ServerInv, OwnDescriptor, Serving
<1>7. MailUnderProvenName' BY <1>1, HistoryKept
<1> QED BY <1>1, <1>3, <1>4, <1>5, <1>6, <1>7, RoomWaits DEF ServerInv

(* A new thread starts, with the descriptor that accept returned for it.   *)
LEMMA StepSpawn ==
  ASSUME ServerInv, Spawn
  PROVE  ServerInv'
<1> DEFINE c == main.conn
           s == [session[c] EXCEPT !.at = "start", !.fd = main.fd]
<1>1. /\ c \in Clients /\ At(c, "none") /\ main.fd \in Descriptors
      /\ files[main.fd] = c /\ buffer \in Ips
  BY DEF Spawn, ServerInv, LoopHolds
<1>2. session[c] \in Session BY <1>1 DEF ServerInv, TypeOK
<1>3. s \in Session BY <1>1, <1>2, SessionWith DEF Thread
<1> HIDE DEF c
<1>4. Moves(c, s) BY <1>3 DEF c, Spawn, Moves, ServerInv, TypeOK
<1>5. /\ s.at = "start" /\ s.fd = main.fd
      /\ s.authenticated = session[c].authenticated
      /\ s.username = session[c].username
  BY <1>2 DEF Session
<1> HIDE DEF s
<1>6. /\ session' \in [Clients -> Session] /\ session'[c] = s
      /\ \A x \in Clients \ {c} : session'[x] = session[x]
  BY <1>1, <1>4, MovesTo DEF ServerInv
<1>7. /\ UNCHANGED <<peer, buffer, files, request, tries, guesses, served, proven, made>>
      /\ main' = [at |-> "accept", conn |-> None, fd |-> None]
  BY DEF Spawn, clients, history
<1>8. TypeOK' BY <1>6, <1>7 DEF ServerInv, TypeOK
<1>9. LoopHolds' BY <1>7 DEF LoopHolds
<1>10. ASSUME NEW x \in Clients PROVE ThreadHolds(x)'
  <2>1. CASE x = c
    BY <1>1, <1>5, <1>6, <1>7, <2>1 DEF ServerInv, ThreadHolds, Serving, At
  <2>2. CASE x # c
    BY <1>6, <1>7, <2>2 DEF ServerInv, ThreadHolds, Serving, At
  <2> QED BY <2>1, <2>2
<1>11. OwnDescriptor'
  BY <1>1, <1>5, <1>6, <1>7 DEF ServerInv, OwnDescriptor, Serving
<1>12. MailUnderProvenName' BY <1>7, HistoryKept
<1>13. ASSUME NEW a \in Addresses PROVE RoomToGuess(a)'
  <2>1. c \notin Counting(a) BY <1>1 DEF Counting, At
  <2>2. Counting(a)' = Counting(a) /\ Asking(a)' \subseteq Asking(a)
    BY <1>1, <1>4, <1>5, <2>1, SetsMove DEF ServerInv
  <2> QED BY <1>7, <2>2, RoomKept DEF ServerInv
<1> QED BY <1>8, <1>9, <1>10, <1>11, <1>12, <1>13 DEF ServerInv

(* Every step keeps the invariant.                                         *)
LEMMA Inductive == ServerInv /\ [Next]_vars => ServerInv'
<1> SUFFICES ASSUME ServerInv, [Next]_vars PROVE ServerInv'
  OBVIOUS
<1>1. ASSUME NEW c \in Clients,
             Connect(c) \/ SendRequest(c) \/ HangUp(c) \/ HandleClient(c)
      PROVE  ServerInv'
  BY <1>1, StepClient, StepHandleClient
<1>2. CASE AcceptLoop
  BY <1>2, StepAccept, StepCopyAddress, StepSpawn DEF AcceptLoop
<1>3. ASSUME NEW ip \in Addresses, BanEnds(ip) \/ CountGetsStale(ip)
      PROVE  ServerInv'
  BY <1>3, StepTimePasses
<1>4. CASE UNCHANGED vars
  <2>1. UNCHANGED <<peer, main, buffer, files, session, request, tries, guesses,
                    served, proven, made>>
    BY <1>4 DEF vars, clients, loop, history
  <2>2. /\ TypeOK' /\ LoopHolds' /\ OwnDescriptor' /\ MailUnderProvenName'
        /\ \A x \in Clients : ThreadHolds(x)'
    BY <2>1 DEF ServerInv, TypeOK, LoopHolds, OwnDescriptor,
                MailUnderProvenName, ThreadHolds, Serving, At
  <2> QED BY <2>1, <2>2, RoomWaits DEF ServerInv
<1> QED BY <1>1, <1>2, <1>3, <1>4 DEF Next

-----------------------------------------------------------------------------
(* The theorems.                                                           *)

(* The accept loop, the threads and the table of descriptors agree on who  *)
(* owns what, and the failed attempts on how often it was guessed, in      *)
(* every state the server can reach.                                       *)
THEOREM Invariant == Spec => []ServerInv
  BY Initially, Inductive, PTL DEF Spec

(* Every field of a session, every descriptor and every counter keeps its  *)
(* range.                                                                  *)
THEOREM TypeCorrect == Spec => []TypeOK
<1>1. ServerInv => TypeOK BY DEF ServerInv
<1> QED BY <1>1, Invariant, PTL

(* A live thread's descriptor stands for its own connection: no thread     *)
(* reads from, answers to or closes the connection of another client.      *)
THEOREM OwnsDescriptor == Spec => []OwnDescriptor
<1>1. ServerInv => OwnDescriptor BY DEF ServerInv
<1> QED BY <1>1, Invariant, PTL

(* Mail is handled only under names whose password was accepted in the     *)
(* same connection.                                                        *)
THEOREM MailByProvenName == Spec => []MailUnderProvenName
<1>1. ServerInv => MailUnderProvenName BY DEF ServerInv
<1> QED BY <1>1, Invariant, PTL

(* In a row of wrong passwords, which a ban that ended or a pause of       *)
(* TRY_TIMEOUT between failed attempts interrupts, an address has at most  *)
(* BAN_TRIES - 1, and one more for each connection.                        *)
THEOREM Guesses == Spec => []GuessesBounded
<1>1. ServerInv => GuessesBounded
  <2> SUFFICES ASSUME ServerInv, NEW a \in Addresses
               PROVE  guesses[a] <= BAN_TRIES - 1 + Cardinality(Clients)
    BY DEF GuessesBounded
  <2>1. RoomToGuess(a) /\ guesses[a] \in Nat /\ tries[a] \in Nat
    BY DEF ServerInv, TypeOK
  <2> QED BY <2>1, FewThreads, ServerConstants DEF RoomToGuess
<1> QED BY <1>1, Invariant, PTL

=============================================================================
