----------------------- MODULE MailRepositoryProofs -----------------------
(***************************************************************************)
(* Proofs about MailRepository, for any threads, names, ids, keys, SENDs,  *)
(* failing calls and restarts that satisfy MailConstants.                  *)
(***************************************************************************)
EXTENDS MailRepository, TLAPS

-----------------------------------------------------------------------------
(* Type correctness.                                                       *)

(* What a step may rely on about types, and keeps.                         *)
Typed == TypeOK /\ RequestIsSet /\ DeadThreadsAreIdle

LEMMA FolderFacts ==
  /\ \A name \in Names : Home[name] \in Folders
  /\ \A user \in Users : Home[user] \in Folders /\ SentFolder(user) \in Folders
  /\ \A user : SentFolder(user) # MailFolder
<1>1. \A user : SentFolder(user) # MailFolder
  <2> SUFFICES ASSUME NEW user, SentFolder(user) = MailFolder PROVE FALSE
    OBVIOUS
  <2>1. SentFolder(user)[2] = "sent" BY DEF SentFolder
  <2>2. MailFolder[2] = "mails" BY DEF MailFolder
  <2> QED BY <2>1, <2>2
<1> QED BY <1>1, MailConstants DEF Folders

LEMMA BlankType == Blank \in Request
  BY DEF Blank, Request

(* Setting one field of a request.                                         *)
LEMMA RequestWith ==
  ASSUME NEW r \in Request
  PROVE  /\ \A id \in Ids : [r EXCEPT !.id = id] \in Request
         /\ \A todo \in Seq(Names) : [r EXCEPT !.todo = todo] \in Request
         /\ \A dir \in SUBSET Ids : [r EXCEPT !.dir = dir] \in Request
         /\ \A id \in Ids : [r EXCEPT !.seen = @ \cup {id}] \in Request
  BY DEF Request

LEMMA KeyType == option \in Options => Key \in Keys \cup {None}
  BY DEF Options, Key

LEMMA SavedType ==
  ASSUME TypeOK, RequestIsSet, NEW t \in Threads, HasId(t),
         NEW state \in {"torn", "complete"}
  PROVE  /\ DOMAIN Saved(t, state) = DOMAIN mails \cup {req[t].id}
         /\ DOMAIN Saved(t, state) \subseteq Ids
         /\ Saved(t, state) \in [DOMAIN Saved(t, state) -> Mail]
         /\ Saved(t, state)[req[t].id] =
              [state |-> state, sender |-> Me(t),
               receivers |-> req[t].receivers, key |-> Key]
         /\ \A id \in DOMAIN mails \ {req[t].id} : Saved(t, state)[id] = mails[id]
<1>1. req[t].id \in Ids /\ Me(t) \in Users
  BY DEF RequestIsSet, HasId
<1>2. req[t].receivers \in Seq(Names)
  BY DEF TypeOK, Request
<1>3. Key \in Keys \cup {None}
  BY KeyType DEF TypeOK
<1>4. [state |-> state, sender |-> Me(t), receivers |-> req[t].receivers,
       key |-> Key] \in Mail
  BY <1>1, <1>2, <1>3 DEF Mail
<1> QED
  BY <1>1, <1>4 DEF Saved, TypeOK

LEMMA InitTyped == Init => Typed
<1> SUFFICES ASSUME Init PROVE Typed OBVIOUS
<1>1. TypeOK
  <2>1. raced \in BOOLEAN /\ intruded \in BOOLEAN BY DEF Init
  <2>2. pc \in [Threads -> Steps] /\ req \in [Threads -> Request]
    BY BlankType DEF Init, Steps
  <2>3. DOMAIN mails \subseteq Ids /\ mails \in [DOMAIN mails -> Mail] BY DEF Init
  <2> QED BY <2>1, <2>2, <2>3 DEF Init, TypeOK, Options
<1>2. RequestIsSet /\ DeadThreadsAreIdle
  BY DEF Init, RequestIsSet, DeadThreadsAreIdle, Sending, HasId
<1> QED BY <1>1, <1>2 DEF Typed

LEMMA TypeStep ==
  ASSUME Typed, [Next]_vars
  PROVE  Typed'
<1> USE DEF Typed, TypeOK, RequestIsSet, DeadThreadsAreIdle, HasId, Me,
            Steps, Sending, Goto, Begin, Return, Die, Fault, CallThrows,
            spool, life, history, vars
<1>1. ASSUME NEW t \in Threads, Send(t) PROVE Typed'
  <2>1. PICK p \in Posts :
          Begin(t, "draw", [Blank EXCEPT !.user = p[1], !.receivers = p[2], !.todo = p[2]])
    BY <1>1 DEF Send
  <2>2. p[1] \in Users /\ p[2] \in Seq(Names) BY MailConstants
  <2>3. [Blank EXCEPT !.user = p[1], !.receivers = p[2], !.todo = p[2]] \in Request
    BY <2>2 DEF Blank, Request
  <2> QED BY <1>1, <2>1, <2>2, <2>3 DEF Send, Blank
<1>2. ASSUME NEW t \in Threads, List(t) PROVE Typed'
  <2>1. PICK u \in Users : \E f \in {Home[u], SentFolder(u)} :
          /\ Begin(t, "list", [Blank EXCEPT !.user = u, !.folder = f])
          /\ intruded' = (intruded \/ f = MailFolder)
    BY <1>2 DEF List
  <2>2. PICK f \in {Home[u], SentFolder(u)} :
          /\ Begin(t, "list", [Blank EXCEPT !.user = u, !.folder = f])
          /\ intruded' = (intruded \/ f = MailFolder)
    BY <2>1
  <2>3. [Blank EXCEPT !.user = u, !.folder = f] \in Request
    BY BlankType, FolderFacts DEF Request
  <2>4. intruded' \in BOOLEAN BY <2>2
  <2> QED BY <1>2, <2>2, <2>3, <2>4 DEF List
<1>3. ASSUME NEW t \in Threads, Read(t) PROVE Typed'
  <2>1. PICK id \in Ids : Begin(t, "read", [Blank EXCEPT !.id = id])
    BY <1>3 DEF Read, Listed
  <2>2. [Blank EXCEPT !.id = id] \in Request
    BY BlankType DEF Request
  <2> QED BY <1>3, <2>1, <2>2 DEF Read
<1>4. ASSUME NEW t \in Threads, Del(t) PROVE Typed'
  <2>1. PICK u \in Users, id \in Ids :
          /\ Begin(t, "check", [Blank EXCEPT !.user = u, !.id = id])
          /\ intruded' = (intruded \/ Home[u] = MailFolder)
    BY <1>4 DEF Del, Listed
  <2>2. [Blank EXCEPT !.user = u, !.id = id] \in Request
    BY BlankType DEF Request
  <2>3. intruded' \in BOOLEAN BY <2>1
  <2> QED BY <1>4, <2>1, <2>2, <2>3 DEF Del, Blank
<1>5. ASSUME NEW t \in Threads, DrawId(t) PROVE Typed'
  <2>1. PICK id \in Ids : /\ req' = [req EXCEPT ![t] = [req[t] EXCEPT !.id = id]]
                          /\ drawn' = drawn \cup {id}
    BY <1>5 DEF DrawId, Fresh
  <2>2. [req[t] EXCEPT !.id = id] \in Request BY RequestWith
  <2> QED BY <1>5, <2>1, <2>2 DEF DrawId
<1>6. ASSUME NEW t \in Threads, NEW u \in Threads, DrawTogether(t, u)
      PROVE  Typed'
  <2>1. PICK id \in Ids :
          /\ req' = [req EXCEPT ![t] = [req[t] EXCEPT !.id = id],
                               ![u] = [req[u] EXCEPT !.id = id]]
          /\ drawn' = drawn \cup {id}
    BY <1>6 DEF DrawTogether, Fresh
  <2>2. /\ [req[t] EXCEPT !.id = id] \in Request
        /\ [req[u] EXCEPT !.id = id] \in Request
    BY RequestWith
  <2>3. req' \in [Threads -> Request] BY <2>1, <2>2
  <2>4. \A x \in Threads :
          /\ req'[x].user = req[x].user
          /\ req'[x].id = IF x \in {t, u} THEN id ELSE req[x].id
    BY <2>1 DEF Request
  <2>5. \A x \in Threads : pc'[x] = IF x \in {t, u} THEN "open" ELSE pc[x]
    BY <1>6 DEF DrawTogether
  <2>6. TypeOK' BY <1>6, <2>1, <2>3 DEF DrawTogether
  <2>7. RequestIsSet' BY <1>6, <2>4, <2>5 DEF DrawTogether
  <2> QED BY <1>6, <2>5, <2>6, <2>7 DEF DrawTogether
<1>7. ASSUME NEW t \in Threads, OpenMail(t) PROVE Typed'
  <2>1. mails' = mails \/ mails' = Saved(t, "torn")
    BY <1>7 DEF OpenMail
  <2>2. DOMAIN mails' \subseteq Ids /\ mails' \in [DOMAIN mails' -> Mail]
    BY <1>7, <2>1, SavedType DEF OpenMail
  <2> QED BY <1>7, <2>2, BlankType DEF OpenMail
<1>8. ASSUME NEW t \in Threads, WriteMail(t) PROVE Typed'
  <2>1. mails' = mails \/ mails' = Saved(t, "complete")
    BY <1>8 DEF WriteMail
  <2>2. DOMAIN mails' \subseteq Ids /\ mails' \in [DOMAIN mails' -> Mail]
    BY <1>8, <2>1, SavedType DEF WriteMail
  <2> QED BY <1>8, <2>2 DEF WriteMail
<1>9. ASSUME NEW t \in Threads, LinkSender(t) PROVE Typed'
  <2>1. links' \subseteq Folders \X Ids
    BY <1>9, FolderFacts DEF LinkSender
  <2> QED BY <1>9, <2>1, BlankType DEF LinkSender
<1>10. ASSUME NEW t \in Threads, LinkReceiver(t) PROVE Typed'
  <2>1. /\ req[t].todo \in Seq(Names) /\ req[t].todo # <<>>
        /\ req[t].id \in Ids
    BY <1>10 DEF LinkReceiver, Request
  <2>2. Head(req[t].todo) \in Names /\ Tail(req[t].todo) \in Seq(Names)
    BY <2>1
  <2>3. [req[t] EXCEPT !.todo = Tail(req[t].todo)] \in Request
    BY <2>2, RequestWith
  <2>4. links' \subseteq Folders \X Ids
    BY <1>10, <2>1, <2>2, FolderFacts DEF LinkReceiver, Linked
  <2>5. CASE CallThrows
    BY <1>10, <2>4, <2>5, BlankType DEF LinkReceiver
  <2>6. CASE ~ CallThrows
    <3>1. /\ req' = [req EXCEPT ![t] = [req[t] EXCEPT !.todo = Tail(req[t].todo)]]
          /\ UNCHANGED <<server, pc>>
          /\ faults' = faults \/ Fault
      BY <1>10, <2>6 DEF LinkReceiver
    <3> QED BY <1>10, <2>3, <2>4, <3>1 DEF LinkReceiver
  <2> QED BY <2>5, <2>6
<1>11. ASSUME NEW t \in Threads, ReplySent(t) PROVE Typed'
  BY <1>11, BlankType DEF ReplySent
<1>12. ASSUME NEW t \in Threads, OpenDirectory(t) PROVE Typed'
  <2>1. CASE CallThrows
    BY <1>12, <2>1, BlankType DEF OpenDirectory
  <2>2. CASE ~ CallThrows
    <3>1. Holds(req[t].folder) \in SUBSET Ids BY DEF Holds
    <3>2. [req[t] EXCEPT !.dir = Holds(req[t].folder)] \in Request
      BY <3>1, RequestWith
    <3>3. /\ req' = [req EXCEPT ![t] = [req[t] EXCEPT !.dir = Holds(req[t].folder)]]
          /\ pc' = [pc EXCEPT ![t] = "entry"]
          /\ UNCHANGED <<spool, life, history>> /\ pc[t] = "list"
      BY <1>12, <2>2 DEF OpenDirectory
    <3> QED BY <3>2, <3>3
  <2> QED BY <2>1, <2>2
<1>13. ASSUME NEW t \in Threads, NextEntry(t) PROVE Typed'
  <2>1. CASE Die("exited")
    BY <1>13, <2>1, BlankType DEF NextEntry
  <2>2. CASE ~ Die("exited")
    <3>1. PICK id : /\ id \in (req[t].dir \cup Holds(req[t].folder)) \ req[t].seen
                    /\ req' = [req EXCEPT ![t].seen = @ \cup {id}]
                    /\ UNCHANGED <<server, pc, faults>>
      BY <1>13, <2>2 DEF NextEntry
    <3>2. id \in Ids BY <3>1 DEF Holds, Request
    <3>3. [req[t] EXCEPT !.seen = @ \cup {id}] \in Request
      BY <3>2, RequestWith
    <3>4. req' = [req EXCEPT ![t] = [req[t] EXCEPT !.seen = @ \cup {id}]]
      BY <3>1
    <3> QED BY <1>13, <3>1, <3>3, <3>4 DEF NextEntry
  <2> QED BY <2>1, <2>2
<1>14. ASSUME NEW t \in Threads, ReplyList(t) PROVE Typed'
  BY <1>14, BlankType DEF ReplyList
<1>15. ASSUME NEW t \in Threads, ReadMail(t) PROVE Typed'
  BY <1>15, BlankType DEF ReadMail
<1>16. ASSUME NEW t \in Threads, CheckLink(t) PROVE Typed'
  BY <1>16, BlankType DEF CheckLink
<1>17. ASSUME NEW t \in Threads, RemoveLink(t) PROVE Typed'
  <2>1. trash' \subseteq Folders \X Ids
    BY <1>17, FolderFacts DEF RemoveLink
  <2> QED BY <1>17, <2>1, BlankType DEF RemoveLink
<1>18. ASSUME NEW t \in Threads, RemoveFile(t) PROVE Typed'
  <2>1. DOMAIN mails' \subseteq Ids /\ mails' \in [DOMAIN mails' -> Mail]
    BY <1>18 DEF RemoveFile, Removed
  <2>2. trash' \subseteq Folders \X Ids
    BY <1>18, FolderFacts DEF RemoveFile
  <2> QED BY <1>18, <2>1, <2>2, BlankType DEF RemoveFile
<1>19. ASSUME NEW t \in Threads, RemoveFails(t) PROVE Typed'
  BY <1>19, BlankType DEF RemoveFails
<1>20. ASSUME Kill PROVE Typed'
  BY <1>20, BlankType DEF Kill
<1>21. ASSUME Start PROVE Typed'
  BY <1>21 DEF Start
<1>22. ASSUME UNCHANGED vars PROVE Typed'
  BY <1>22
<1> QED
  BY <1>1, <1>2, <1>3, <1>4, <1>5, <1>6, <1>7, <1>8, <1>9, <1>10, <1>11,
     <1>12, <1>13, <1>14, <1>15, <1>16, <1>17, <1>18, <1>19, <1>20, <1>21, <1>22
  DEF Next, Serve

(* Every reachable state of the spool is well typed: the files hold mails  *)
(* of known senders, and each thread holds what its next access needs.     *)
THEOREM TypeCorrect == Spec => []TypeOK
<1>1. Init => Typed BY InitTyped
<1>2. Typed /\ [Next]_vars => Typed' BY TypeStep
<1>3. Typed => TypeOK BY DEF Typed
<1> QED BY <1>1, <1>2, <1>3, PTL DEF Spec

-----------------------------------------------------------------------------
(* The safety part of MailInv, one lemma for each kind of step.            *)

Safe ==
  /\ IdsAreDrawn
  /\ IdsDiffer
  /\ \A t \in Threads : SendIsOnItsWay(t) /\ OthersUseLinks(t)
  /\ ListedMailIsComplete
  /\ DeliveredAsPosted
  /\ OkMeansDelivered

LEMMA InitSafe == Init => Safe
  BY DEF Init, Safe, IdsAreDrawn, IdsDiffer, HasId, Sending, Listed,
         SendIsOnItsWay, OthersUseLinks, ListedMailIsComplete,
         DeliveredAsPosted, OkMeansDelivered, Calm

(* A failing call is counted, and the count never falls.                   *)
LEMMA FaultsGrow == TypeOK /\ (faults' = faults \/ Fault) /\ faults' = 0 => faults = 0
  BY DEF TypeOK, Fault

(* What is in no folder and has been in none is in no list.                *)
LEMMA ListedInFolders ==
  ASSUME Sound
  PROVE  Listed = {id \in Ids : \E f \in Folders : <<f, id>> \in links \cup trash}
  BY DEF Listed, Sound

(* A thread that begins, goes on or ends without touching the spool.       *)
QuietFor(x) ==
  \/ pc'[x] = pc[x] /\ req'[x] = req[x]
  \/ /\ pc'[x] \notin Sending \ {"draw"}
     /\ pc'[x] = "draw" => req'[x].todo = req'[x].receivers
     /\ OthersUseLinks(x)'

(* A thread that stands still: its mail is left alone, and links are only  *)
(* added, or kept in trash.                                                *)
LEMMA StandsStill ==
  ASSUME NEW x \in Threads, SendIsOnItsWay(x), OthersUseLinks(x),
         pc'[x] = pc[x], req'[x] = req[x],
         faults' = 0 => faults = 0,
         \A p : p \in links \cup trash => p \in (links \cup trash)',
         Listed \subseteq Listed',
         HasId(x) =>
           /\ req[x].id \in Listed' => req[x].id \in Listed
           /\ req[x].id \in DOMAIN mails' <=> req[x].id \in DOMAIN mails
           /\ req[x].id \in DOMAIN mails => mails'[req[x].id] = mails[req[x].id]
  PROVE  SendIsOnItsWay(x)' /\ OthersUseLinks(x)'
<1> USE DEF Me
<1>1. OthersUseLinks(x)'
  BY DEF OthersUseLinks
<1>2. \A f : Reached(f, req[x].id) => Reached(f, req[x].id)'
  BY DEF Reached
<1>3. pc'[x] = "link" /\ faults' = 0 =>
        /\ Reached(SentFolder(Me(x)), req[x].id)'
        /\ \A name \in ToSet(req[x].receivers) \ ToSet(req[x].todo) :
             Reached(Home[name], req[x].id)'
  BY <1>2 DEF SendIsOnItsWay
<1>4. SendIsOnItsWay(x)'
  BY <1>3 DEF SendIsOnItsWay, HasId, IsOf, Sending
<1> QED BY <1>1, <1>4

LEMMA QuietStep ==
  ASSUME Sound, Sound', Typed, Safe,
         UNCHANGED <<spool, drawn, posted, trash>>,
         faults' = faults \/ Fault,
         \A x \in Threads : QuietFor(x)
  PROVE  Safe'
<1> USE DEF spool, Me
<1>1. Listed' = Listed BY ListedInFolders DEF Listed, Sound
<1>2. \A x \in Threads : HasId(x)' => HasId(x) /\ pc'[x] = pc[x] /\ req'[x] = req[x]
  BY DEF QuietFor, HasId
<1>3. faults' = 0 => faults = 0
  BY FaultsGrow DEF Typed
<1>4. IdsAreDrawn' BY <1>1, <1>2 DEF Safe, IdsAreDrawn
<1>5. IdsDiffer' BY <1>2 DEF Safe, IdsDiffer
<1>6. ASSUME NEW x \in Threads PROVE SendIsOnItsWay(x)' /\ OthersUseLinks(x)'
  <2>1. CASE pc'[x] = pc[x] /\ req'[x] = req[x]
    BY <1>1, <1>3, <2>1, StandsStill DEF Safe
  <2>2. CASE /\ pc'[x] \notin Sending \ {"draw"}
             /\ pc'[x] = "draw" => req'[x].todo = req'[x].receivers
             /\ OthersUseLinks(x)'
    BY <2>2 DEF SendIsOnItsWay, HasId, Sending
  <2> QED BY <2>1, <2>2 DEF QuietFor
<1>7. ListedMailIsComplete' BY <1>1, <1>3 DEF Safe, ListedMailIsComplete
<1>8. DeliveredAsPosted' BY <1>3 DEF Safe, DeliveredAsPosted
<1>9. OkMeansDelivered' BY <1>3 DEF Safe, OkMeansDelivered, Calm, Reached
<1> QED BY <1>4, <1>5, <1>6, <1>7, <1>8, <1>9 DEF Safe

LEMMA DrawStep ==
  ASSUME Sound, Sound', Typed, Safe, NEW t \in Threads, DrawId(t)
  PROVE  Safe'
<1> USE DEF spool, life, Me, Goto, Fresh
<1>1. PICK id \in Ids \ drawn :
        /\ req' = [req EXCEPT ![t].id = id]
        /\ drawn' = drawn \cup {id}
  BY DEF DrawId
<1>2. /\ pc[t] = "draw" /\ pc' = [pc EXCEPT ![t] = "open"]
      /\ UNCHANGED <<mails, links, faults, posted, trash>>
  BY DEF DrawId
<1>3. Listed' = Listed BY <1>2, ListedInFolders DEF Listed, Sound
<1>4. \A x \in Threads \ {t} : pc'[x] = pc[x] /\ req'[x] = req[x]
  BY <1>1, <1>2 DEF Typed, TypeOK
<1>5. /\ pc'[t] = "open" /\ req'[t].id = id
      /\ req'[t].todo = req[t].todo /\ req'[t].receivers = req[t].receivers
  BY <1>1, <1>2 DEF Typed, TypeOK, Request
<1>6. /\ id \notin DOMAIN mails /\ id \notin posted /\ id \notin Listed
      /\ \A x \in Threads : HasId(x) => req[x].id # id
  BY DEF Safe, IdsAreDrawn
<1>7. IdsAreDrawn'
  BY <1>1, <1>2, <1>3, <1>4, <1>5, <1>6 DEF Safe, IdsAreDrawn, HasId, Sending
<1>8. IdsDiffer'
  BY <1>4, <1>5, <1>6 DEF Safe, IdsDiffer, HasId
<1>9. ASSUME NEW x \in Threads PROVE SendIsOnItsWay(x)' /\ OthersUseLinks(x)'
  <2>1. CASE x = t
    BY <1>2, <1>3, <1>5, <1>6, <2>1
    DEF Safe, SendIsOnItsWay, OthersUseLinks, HasId, Sending
  <2>2. CASE x # t
    BY <1>2, <1>3, <1>4, <2>2, StandsStill DEF Safe
  <2> QED BY <2>1, <2>2
<1>10. /\ ListedMailIsComplete' /\ DeliveredAsPosted' /\ OkMeansDelivered'
  BY <1>2, <1>3
  DEF Safe, ListedMailIsComplete, DeliveredAsPosted, OkMeansDelivered, Calm, Reached
<1> QED BY <1>7, <1>8, <1>9, <1>10 DEF Safe

(* Opening and writing touch a file that no link shows yet.                *)
LEMMA FileStep ==
  ASSUME Sound, Sound', Typed, Safe, NEW t \in Threads,
         OpenMail(t) \/ WriteMail(t), ~ Die("choked")
  PROVE  Safe'
<1> USE DEF spool, history, Me, Goto
<1> DEFINE i == req[t].id
<1>1. /\ pc[t] \in {"open", "write"}
      /\ UNCHANGED <<links, trash, posted, drawn, raced, req>>
      /\ faults' = faults \/ Fault
  BY DEF OpenMail, WriteMail
<1>2. HasId(t) /\ i \in drawn /\ i \notin posted /\ i \notin Listed
  BY <1>1 DEF HasId, Sending, Safe, IdsAreDrawn, SendIsOnItsWay
<1>3. Listed' = Listed BY <1>1, ListedInFolders DEF Listed, Sound
<1>4. /\ \A x \in Threads \ {t} : pc'[x] = pc[x]
      /\ pc'[t] \in {"write", "linkSender"}
  BY DEF OpenMail, WriteMail, Typed, TypeOK
<1>5. \A x \in Threads \ {t} : HasId(x) => req[x].id # i
  BY <1>2 DEF Safe, IdsDiffer
<1>6. faults' = 0 => faults = 0
  BY <1>1, FaultsGrow DEF Typed
<1>7. /\ DOMAIN mails' \subseteq DOMAIN mails \cup {i}
      /\ DOMAIN mails \subseteq DOMAIN mails'
      /\ \A id \in DOMAIN mails \ {i} : mails'[id] = mails[id]
      /\ i \in DOMAIN mails' =>
           mails'[i].sender = Me(t) /\ mails'[i].receivers = req[t].receivers
      /\ pc'[t] = "write" => i \in DOMAIN mails' /\ mails'[i].state = "torn"
      /\ pc'[t] = "linkSender" /\ faults' = 0 =>
           i \in DOMAIN mails' /\ mails'[i].state = "complete"
  <2>1. i \in DOMAIN mails => IsOf(t)
    BY <1>2 DEF Safe, SendIsOnItsWay
  <2>2. CASE OpenMail(t)
    <3>1. CASE mails' = Saved(t, "torn") /\ pc'[t] = "write"
      <4>1. /\ DOMAIN mails' = DOMAIN mails \cup {i}
            /\ mails'[i] = [state |-> "torn", sender |-> Me(t),
                            receivers |-> req[t].receivers, key |-> Key]
            /\ \A id \in DOMAIN mails \ {i} : mails'[id] = mails[id]
        BY <1>2, <3>1, SavedType DEF Typed
      <4> QED BY <3>1, <4>1
    <3>2. CASE Fault /\ mails' = mails /\ pc'[t] = "linkSender"
      BY <2>1, <3>2 DEF Fault, IsOf, Typed, TypeOK
    <3> QED BY <2>2, <3>1, <3>2 DEF OpenMail, Typed, TypeOK
  <2>3. CASE WriteMail(t)
    <3>1. CASE mails' = Saved(t, "complete") /\ pc'[t] = "linkSender"
      <4>1. /\ DOMAIN mails' = DOMAIN mails \cup {i}
            /\ mails'[i] = [state |-> "complete", sender |-> Me(t),
                            receivers |-> req[t].receivers, key |-> Key]
            /\ \A id \in DOMAIN mails \ {i} : mails'[id] = mails[id]
        BY <1>2, <3>1, SavedType DEF Typed
      <4> QED BY <3>1, <4>1
    <3>2. CASE Fault /\ mails' = mails /\ pc'[t] = "linkSender"
      BY <2>1, <3>2 DEF Fault, IsOf, Typed, TypeOK
    <3>3. i \in DOMAIN mails
      BY <2>3 DEF WriteMail, Safe, SendIsOnItsWay
    <3> QED BY <2>3, <3>1, <3>2, <3>3 DEF WriteMail, Typed, TypeOK
  <2> QED BY <2>2, <2>3
<1> HIDE DEF i
<1>8. IdsAreDrawn'
  <2>1. DOMAIN mails' \subseteq drawn'
    BY <1>1, <1>2, <1>7 DEF Safe, IdsAreDrawn
  <2>2. \A x \in Threads : HasId(x)' => HasId(x)
    BY <1>2, <1>4 DEF HasId
  <2> QED BY <1>1, <1>3, <2>1, <2>2 DEF Safe, IdsAreDrawn
<1>9. IdsDiffer'
  BY <1>1, <1>2, <1>4 DEF Safe, IdsDiffer, HasId
<1>10. ASSUME NEW x \in Threads PROVE SendIsOnItsWay(x)' /\ OthersUseLinks(x)'
  <2>1. CASE x = t
    <3>1. req'[t].todo = req'[t].receivers /\ req'[t].id = i
      BY <1>1 DEF i, Safe, SendIsOnItsWay, Sending
    <3> QED BY <1>1, <1>2, <1>3, <1>4, <1>7, <2>1, <3>1
        DEF SendIsOnItsWay, OthersUseLinks, HasId, Sending, IsOf
  <2>2. CASE x # t
    <3>1. SendIsOnItsWay(x) /\ OthersUseLinks(x)
      BY DEF Safe
    <3>2. pc'[x] = pc[x] /\ req'[x] = req[x] BY <1>1, <1>4, <2>2
    <3>3. HasId(x) => /\ req[x].id \in DOMAIN mails' <=> req[x].id \in DOMAIN mails
                      /\ req[x].id \in DOMAIN mails => mails'[req[x].id] = mails[req[x].id]
      BY <1>5, <1>7, <2>2
    <3> QED BY <1>1, <1>3, <1>6, <3>1, <3>2, <3>3, StandsStill
  <2> QED BY <2>1, <2>2
<1>11. \A id \in Listed \cup posted : id # i
  BY <1>2
<1>12. ListedMailIsComplete'
  BY <1>3, <1>6, <1>7, <1>11 DEF Safe, ListedMailIsComplete
<1>13. \A p \in links \cup trash : p[2] \in Listed
  BY ListedInFolders DEF Typed, TypeOK
<1>14. DeliveredAsPosted'
  <2> SUFFICES ASSUME NEW p \in links \cup trash, p[2] \in DOMAIN mails'
               PROVE  /\ p[1] \in Addressed(mails'[p[2]])
                      /\ faults' = 0 =>
                           <<SentFolder(mails'[p[2]].sender), p[2]>> \in links \cup trash
    BY <1>1 DEF DeliveredAsPosted, Addressed
  <2>1. p[2] \in DOMAIN mails /\ mails'[p[2]] = mails[p[2]]
    BY <1>7, <1>11, <1>13
  <2> QED BY <1>6, <2>1 DEF Safe, DeliveredAsPosted
<1>15. OkMeansDelivered'
  <2> SUFFICES ASSUME NEW id \in posted, faults' = 0
               PROVE  /\ id \in DOMAIN mails'
                      /\ Reached(SentFolder(mails'[id].sender), id)
                      /\ \A name \in ToSet(mails'[id].receivers) : Reached(Home[name], id)
    BY <1>1 DEF OkMeansDelivered, Calm, Reached
  <2>1. id \in DOMAIN mails
    BY <1>6 DEF Safe, OkMeansDelivered, Calm
  <2>2. id \in DOMAIN mails' /\ mails'[id] = mails[id]
    BY <1>7, <1>11, <2>1
  <2> QED BY <1>6, <2>2 DEF Safe, OkMeansDelivered, Calm
<1> QED BY <1>8, <1>9, <1>10, <1>12, <1>14, <1>15 DEF Safe

(* All threads are gone: nobody is in the middle of anything.              *)
LEMMA DeathStep ==
  ASSUME Sound, Sound', Typed, Safe, UNCHANGED <<spool, history>>,
         faults' = faults \/ Fault, NEW how, Die(how)
  PROVE  Safe'
<1>1. \A x \in Threads : QuietFor(x)
  BY DEF Die, QuietFor, OthersUseLinks, Sending
<1> QED BY <1>1, QuietStep DEF history

(* The text of a SEND that is no UTF-8: nothing is written.                *)
LEMMA ChokeStep ==
  ASSUME Sound, Sound', Typed, Safe, NEW t \in Threads, OpenMail(t), Die("choked")
  PROVE  Safe'
<1>1. pc'[t] = "idle" BY DEF Die
<1>2. ~ Goto(t, "write") /\ ~ Goto(t, "linkSender")
  BY <1>1 DEF Goto, Typed, TypeOK
<1>3. UNCHANGED <<spool, history>> /\ faults' = faults
  BY <1>2 DEF OpenMail, spool
<1> QED BY <1>3, DeathStep

(* A link of a SEND: the file is closed, or some call has failed.          *)
LEMMA LinkSenderStep ==
  ASSUME Sound, Sound', Typed, Safe, NEW t \in Threads, LinkSender(t)
  PROVE  Safe'
<1> USE DEF spool, history, Me, Goto
<1> DEFINE i == req[t].id
           f == SentFolder(Me(t))
<1>1. CASE CallThrows
  <2>1. Fault /\ Die("exited") BY <1>1 DEF CallThrows
  <2>2. pc'[t] = "idle" BY <2>1 DEF Die
  <2>3. ~ Goto(t, "link") BY <2>2 DEF Typed, TypeOK
  <2>4. UNCHANGED <<spool, history>> BY <2>3 DEF LinkSender
  <2> QED BY <2>1, <2>4, DeathStep
<1>2. CASE ~ CallThrows
  <2>1. /\ pc[t] = "linkSender" /\ pc' = [pc EXCEPT ![t] = "link"]
        /\ \/ links' = links \cup {<<f, i>>} /\ faults' = faults
           \/ links' = links /\ Fault
        /\ UNCHANGED <<mails, history, req>>
    BY <1>2 DEF LinkSender
  <2>2. /\ HasId(t) /\ i \in drawn /\ i \notin posted /\ i \notin Listed
        /\ req[t].todo = req[t].receivers
        /\ i \in DOMAIN mails => IsOf(t)
        /\ faults = 0 => i \in DOMAIN mails /\ mails[i].state = "complete"
    BY <2>1 DEF HasId, Sending, Safe, IdsAreDrawn, SendIsOnItsWay
  <2>3. /\ pc'[t] = "link"
        /\ \A x \in Threads \ {t} : pc'[x] = pc[x]
    BY <2>1 DEF Typed, TypeOK
  <2>4. Listed \subseteq Listed' /\ Listed' \subseteq Listed \cup {i}
    BY <2>1, ListedInFolders DEF Listed, Sound
  <2>5. faults' = 0 => faults = 0
    BY <2>1, FaultsGrow DEF Typed
  <2>6. \A x \in Threads \ {t} : HasId(x) => req[x].id # i
    BY <2>2 DEF Safe, IdsDiffer
  <2>7. faults' = 0 => links' = links \cup {<<f, i>>}
    BY <2>1 DEF Fault, Typed, TypeOK
  <2> HIDE DEF i, f
  <2>8. IdsAreDrawn'
    BY <2>1, <2>2, <2>3, <2>4 DEF Safe, IdsAreDrawn, HasId
  <2>9. IdsDiffer'
    BY <2>1, <2>2, <2>3 DEF Safe, IdsDiffer, HasId
  <2>10. ASSUME NEW x \in Threads PROVE SendIsOnItsWay(x)' /\ OthersUseLinks(x)'
    <3>1. CASE x = t
      <4>1. faults' = 0 => Reached(f, i)'
        BY <2>1, <2>7 DEF Reached, f, i
      <4> QED BY <2>1, <2>2, <2>3, <2>5, <3>1, <4>1
          DEF i, f, SendIsOnItsWay, OthersUseLinks, HasId, Sending, IsOf
    <3>2. CASE x # t
      <4>1. SendIsOnItsWay(x) /\ OthersUseLinks(x)
        BY DEF Safe
      <4>2. pc'[x] = pc[x] /\ req'[x] = req[x] BY <2>1, <2>3, <3>2
      <4>3. HasId(x) => (req[x].id \in Listed' => req[x].id \in Listed)
        BY <2>4, <2>6, <3>2
      <4>4. \A p : p \in links \cup trash => p \in (links \cup trash)'
        BY <2>1
      <4> QED BY <2>1, <2>4, <2>5, <4>1, <4>2, <4>3, <4>4, StandsStill
    <3> QED BY <3>1, <3>2
  <2>11. ListedMailIsComplete'
    BY <2>1, <2>2, <2>4, <2>5 DEF Safe, ListedMailIsComplete
  <2>12. DeliveredAsPosted'
    <3> SUFFICES ASSUME NEW p \in (links \cup trash)', p[2] \in DOMAIN mails
                 PROVE  /\ p[1] \in Addressed(mails[p[2]])
                        /\ faults' = 0 =>
                             <<SentFolder(mails[p[2]].sender), p[2]>> \in (links \cup trash)'
      BY <2>1 DEF DeliveredAsPosted, Addressed
    <3>1. CASE p \in links \cup trash
      BY <2>1, <2>5, <3>1 DEF Safe, DeliveredAsPosted
    <3>2. CASE p \notin links \cup trash
      <4>1. p = <<f, i>> BY <2>1, <3>2
      <4>2. p[1] = f /\ p[2] = i /\ SentFolder(mails[i].sender) = f
        BY <2>2, <4>1 DEF IsOf, f, i
      <4> QED BY <2>7, <4>2 DEF Addressed
    <3> QED BY <3>1, <3>2
  <2>13. OkMeansDelivered'
    BY <2>1, <2>5 DEF Safe, OkMeansDelivered, Calm, Reached
  <2> QED BY <2>8, <2>9, <2>10, <2>11, <2>12, <2>13 DEF Safe
<1> QED BY <1>1, <1>2

(* The receivers still to link are those of the rest of the list.          *)
LEMMA HeadTail ==
  ASSUME NEW S, NEW s \in Seq(S), s # <<>>
  PROVE  /\ ToSet(s) = {Head(s)} \cup ToSet(Tail(s))
         /\ Head(s) \in S /\ Tail(s) \in Seq(S)
<1>1. /\ Len(s) \in Nat /\ Len(s) >= 1 /\ DOMAIN s = 1 .. Len(s)
      /\ Head(s) = s[1]
      /\ Len(Tail(s)) = Len(s) - 1
      /\ DOMAIN Tail(s) = 1 .. (Len(s) - 1)
      /\ \A k \in 1 .. (Len(s) - 1) : Tail(s)[k] = s[k + 1]
  OBVIOUS
<1>2. ASSUME NEW k \in 2 .. Len(s) PROVE s[k] \in ToSet(Tail(s))
  <2>1. k - 1 \in DOMAIN Tail(s) /\ Tail(s)[k - 1] = s[k]
    BY <1>1
  <2> QED BY <2>1 DEF ToSet
<1>3. ToSet(s) \subseteq {Head(s)} \cup ToSet(Tail(s))
  <2> SUFFICES ASSUME NEW k \in DOMAIN s
               PROVE  s[k] \in {Head(s)} \cup ToSet(Tail(s))
    BY DEF ToSet
  <2>1. CASE k = 1 BY <1>1, <2>1
  <2>2. CASE k # 1 BY <1>1, <1>2, <2>2
  <2> QED BY <2>1, <2>2
<1>4. {Head(s)} \cup ToSet(Tail(s)) \subseteq ToSet(s)
  <2>1. Head(s) \in ToSet(s) BY <1>1 DEF ToSet
  <2>2. ASSUME NEW k \in DOMAIN Tail(s) PROVE Tail(s)[k] \in ToSet(s)
    <3>1. k + 1 \in DOMAIN s /\ Tail(s)[k] = s[k + 1] BY <1>1
    <3> QED BY <3>1 DEF ToSet
  <2> QED BY <2>1, <2>2 DEF ToSet
<1> QED BY <1>3, <1>4

LEMMA LinkReceiverStep ==
  ASSUME Sound, Sound', Typed, Safe, NEW t \in Threads, LinkReceiver(t)
  PROVE  Safe'
<1> USE DEF spool, history, Me
<1> DEFINE i == req[t].id
           r == Head(req[t].todo)
<1>1. CASE CallThrows
  <2>1. Fault /\ Die("exited") BY <1>1 DEF CallThrows
  <2>2. pc[t] = "link" /\ pc'[t] = "idle" BY <2>1 DEF Die, LinkReceiver
  <2>3. UNCHANGED <<spool, history>> BY <2>2 DEF LinkReceiver
  <2> QED BY <2>1, <2>3, DeathStep
<1>2. CASE ~ CallThrows
  <2>1. /\ pc[t] = "link" /\ req[t].todo # <<>>
        /\ req' = [req EXCEPT ![t].todo = Tail(@)]
        /\ \/ links' = Linked(r, i) /\ faults' = faults
           \/ links' = links /\ Fault
        /\ UNCHANGED <<mails, history, pc>>
    BY <1>2 DEF LinkReceiver
  <2>2. /\ HasId(t) /\ i \in drawn /\ i \notin posted
        /\ i \in DOMAIN mails => IsOf(t)
        /\ ToSet(req[t].todo) \subseteq ToSet(req[t].receivers)
        /\ faults = 0 => /\ i \in DOMAIN mails /\ mails[i].state = "complete"
                         /\ Reached(SentFolder(Me(t)), i)
    BY <2>1 DEF HasId, Sending, Safe, IdsAreDrawn, SendIsOnItsWay
  <2>3. ToSet(req[t].todo) = {r} \cup ToSet(Tail(req[t].todo))
    BY <2>1, HeadTail DEF Typed, TypeOK, Request
  <2>4. /\ \A x \in Threads \ {t} : req'[x] = req[x]
        /\ req'[t].todo = Tail(req[t].todo)
        /\ req'[t].user = req[t].user /\ req'[t].receivers = req[t].receivers
        /\ \A x \in Threads : req'[x].id = req[x].id
    BY <2>1 DEF Typed, TypeOK, Request
  <2>5. faults' = 0 => faults = 0
    BY <2>1, FaultsGrow DEF Typed
  <2>6. \A x \in Threads \ {t} : HasId(x) => req[x].id # i
    BY <2>2 DEF Safe, IdsDiffer
  <2>7. faults' = 0 => Home[r] = MailFolder \/ <<Home[r], i>> \in links'
    BY <2>1 DEF Fault, Typed, TypeOK, Linked
  <2>8. links \subseteq links' /\ links' \subseteq links \cup {<<Home[r], i>>}
    BY <2>1 DEF Linked
  <2>9. Listed \subseteq Listed' /\ Listed' \subseteq Listed \cup {i}
    BY <2>1, <2>8, ListedInFolders DEF Listed, Sound
  <2>10. \A x \in Threads : HasId(x)' <=> HasId(x)
    BY <2>1 DEF HasId
  <2>11. \A p : p \in links \cup trash => p \in (links \cup trash)'
    BY <2>1, <2>8
  <2> HIDE DEF i, r
  <2>12. IdsAreDrawn'
    BY <2>1, <2>2, <2>4, <2>9, <2>10 DEF Safe, IdsAreDrawn
  <2>13. IdsDiffer'
    BY <2>4, <2>10 DEF Safe, IdsDiffer
  <2>14. ASSUME NEW x \in Threads PROVE SendIsOnItsWay(x)' /\ OthersUseLinks(x)'
    <3>1. CASE x = t
      <4>1. SendIsOnItsWay(t) BY DEF Safe
      <4>2. \A name \in ToSet(req[t].receivers) \ ToSet(Tail(req[t].todo)) :
              name = r \/ name \in ToSet(req[t].receivers) \ ToSet(req[t].todo)
        BY <2>3
      <4>3. OthersUseLinks(t)'
        BY <2>1 DEF OthersUseLinks
      <4>4. \A f : Reached(f, i) => Reached(f, i)'
        BY <2>4, <2>11 DEF Reached, i
      <4>5. ASSUME NEW f, f = Home[r], faults' = 0 PROVE Reached(f, i)'
        BY <2>4, <2>7, <4>5 DEF Reached, i
      <4>6. faults' = 0 =>
              /\ Reached(SentFolder(Me(t)), i)'
              /\ \A name \in ToSet(req[t].receivers) \ ToSet(Tail(req[t].todo)) :
                   Reached(Home[name], i)'
        BY <2>1, <2>2, <2>4, <2>5, <4>1, <4>2, <4>4, <4>5 DEF i, SendIsOnItsWay
      <4>7. SendIsOnItsWay(t)'
        BY <2>1, <2>2, <2>3, <2>4, <2>5, <4>1, <4>6
        DEF i, SendIsOnItsWay, HasId, Sending, IsOf
      <4> QED BY <3>1, <4>3, <4>7
    <3>2. CASE x # t
      <4>1. SendIsOnItsWay(x) /\ OthersUseLinks(x)
        BY DEF Safe
      <4>2. pc'[x] = pc[x] /\ req'[x] = req[x] BY <2>1, <2>4, <3>2
      <4>3. HasId(x) => (req[x].id \in Listed' => req[x].id \in Listed)
        BY <2>6, <2>9, <3>2
      <4> QED BY <2>1, <2>5, <2>9, <2>11, <4>1, <4>2, <4>3, StandsStill
    <3> QED BY <3>1, <3>2
  <2>15. ListedMailIsComplete'
    BY <2>1, <2>2, <2>5, <2>9 DEF Safe, ListedMailIsComplete
  <2>16. r \in ToSet(req[t].receivers)
    BY <2>2, <2>3
  <2>17. DeliveredAsPosted'
    <3> SUFFICES ASSUME NEW p \in (links \cup trash)', p[2] \in DOMAIN mails
                 PROVE  /\ p[1] \in Addressed(mails[p[2]])
                        /\ faults' = 0 =>
                             <<SentFolder(mails[p[2]].sender), p[2]>> \in (links \cup trash)'
      BY <2>1 DEF DeliveredAsPosted, Addressed
    <3>1. CASE p \in links \cup trash
      BY <2>5, <2>11, <3>1 DEF Safe, DeliveredAsPosted
    <3>2. CASE p \notin links \cup trash
      <4>1. p = <<Home[r], i>> BY <2>1, <2>8, <3>2
      <4>2. /\ p[1] = Home[r] /\ p[2] = i
            /\ mails[i].sender = Me(t) /\ mails[i].receivers = req[t].receivers
        BY <2>2, <4>1 DEF IsOf, i
      <4>3. faults' = 0 => <<SentFolder(Me(t)), i>> \in links \cup trash
        BY <2>2, <2>5, FolderFacts DEF Reached
      <4> QED BY <2>11, <2>16, <4>2, <4>3 DEF Addressed
    <3> QED BY <3>1, <3>2
  <2>18. OkMeansDelivered'
    BY <2>1, <2>5, <2>11 DEF Safe, OkMeansDelivered, Calm, Reached
  <2> QED BY <2>12, <2>13, <2>14, <2>15, <2>17, <2>18 DEF Safe
<1> QED BY <1>1, <1>2

LEMMA ReplyStep ==
  ASSUME Sound, Sound', Typed, Safe, NEW t \in Threads, ReplySent(t)
  PROVE  Safe'
<1> USE DEF spool, life, Me, Goto, Return
<1> DEFINE i == req[t].id
<1>1. /\ pc[t] = "link" /\ req[t].todo = <<>>
      /\ posted' = posted \cup {i}
      /\ pc' = [pc EXCEPT ![t] = "idle"] /\ req' = [req EXCEPT ![t] = Blank]
      /\ UNCHANGED <<mails, links, faults, drawn, trash>>
  BY DEF ReplySent
<1>2. ToSet(req[t].todo) = {} BY <1>1 DEF ToSet
<1>3. /\ HasId(t) /\ i \in drawn
      /\ i \in DOMAIN mails => IsOf(t)
      /\ faults = 0 => /\ i \in DOMAIN mails
                       /\ Reached(SentFolder(Me(t)), i)
                       /\ \A name \in ToSet(req[t].receivers) : Reached(Home[name], i)
  BY <1>1, <1>2 DEF HasId, Sending, Safe, IdsAreDrawn, SendIsOnItsWay
<1>4. Listed' = Listed BY <1>1, ListedInFolders DEF Listed, Sound
<1>5. /\ pc'[t] = "idle"
      /\ \A x \in Threads \ {t} : pc'[x] = pc[x] /\ req'[x] = req[x]
  BY <1>1 DEF Typed, TypeOK
<1>6. \A x \in Threads \ {t} : HasId(x) => req[x].id # i
  BY <1>3 DEF Safe, IdsDiffer
<1> HIDE DEF i
<1>7. IdsAreDrawn'
  BY <1>1, <1>3, <1>4, <1>5, <1>6 DEF Safe, IdsAreDrawn, HasId, Sending
<1>8. IdsDiffer'
  BY <1>5 DEF Safe, IdsDiffer, HasId, Sending
<1>9. ASSUME NEW x \in Threads PROVE SendIsOnItsWay(x)' /\ OthersUseLinks(x)'
  <2>1. CASE x = t
    BY <1>5, <2>1 DEF SendIsOnItsWay, OthersUseLinks, HasId, Sending
  <2>2. CASE x # t
    BY <1>1, <1>4, <1>5, <2>2, StandsStill DEF Safe
  <2> QED BY <2>1, <2>2
<1>10. ListedMailIsComplete' /\ DeliveredAsPosted'
  BY <1>1, <1>4 DEF Safe, ListedMailIsComplete, DeliveredAsPosted
<1>11. OkMeansDelivered'
  <2>1. \A f, id : Reached(f, id) => f = MailFolder \/ <<f, id>> \in (links \cup trash)'
    BY <1>1 DEF Reached
  <2> SUFFICES ASSUME NEW id \in posted \cup {i}, faults = 0
               PROVE  /\ id \in DOMAIN mails
                      /\ Reached(SentFolder(mails[id].sender), id)
                      /\ \A name \in ToSet(mails[id].receivers) : Reached(Home[name], id)
    BY <1>1, <2>1 DEF OkMeansDelivered, Calm, Reached
  <2>2. CASE id = i
    BY <1>3, <2>2 DEF i, IsOf
  <2>3. CASE id # i
    BY <2>3 DEF Safe, OkMeansDelivered, Calm
  <2> QED BY <2>2, <2>3
<1> QED BY <1>7, <1>8, <1>9, <1>10, <1>11 DEF Safe

(* Removing a link loses no trace of it: it is kept in trash.              *)
LEMMA RemoveStep ==
  ASSUME Sound, Sound', Typed, Safe, NEW t \in Threads, RemoveLink(t)
  PROVE  Safe'
<1> USE DEF Me, Goto, Return
<1> DEFINE p == <<Home[Me(t)], req[t].id>>
<1>1. /\ pc[t] = "remove" /\ pc' = [pc EXCEPT ![t] = "idle"]
      /\ req' = [req EXCEPT ![t] = Blank]
      /\ links' = links \ {p} /\ trash' = trash \cup {p}
      /\ UNCHANGED <<mails, faults, drawn, posted>>
  BY DEF RemoveLink, life
<1>2. p \in links \cup trash
  BY <1>1 DEF Safe, OthersUseLinks
<1> HIDE DEF p
<1>3. (links \cup trash)' = links \cup trash
  BY <1>1, <1>2
<1>4. Listed' = Listed
  <2>1. Listed' = {id \in Ids : \E f \in Folders : <<f, id>> \in (links \cup trash)'}
    BY DEF Listed, Sound
  <2> QED BY <1>3, <2>1, ListedInFolders
<1>5. /\ pc'[t] = "idle"
      /\ \A x \in Threads \ {t} : pc'[x] = pc[x] /\ req'[x] = req[x]
  BY <1>1 DEF Typed, TypeOK
<1>6. IdsAreDrawn'
  BY <1>1, <1>4, <1>5 DEF Safe, IdsAreDrawn, HasId, Sending
<1>7. IdsDiffer'
  BY <1>5 DEF Safe, IdsDiffer, HasId, Sending
<1>8. ASSUME NEW x \in Threads PROVE SendIsOnItsWay(x)' /\ OthersUseLinks(x)'
  <2>1. CASE x = t
    BY <1>5, <2>1 DEF SendIsOnItsWay, OthersUseLinks, HasId, Sending
  <2>2. CASE x # t
    BY <1>1, <1>3, <1>4, <1>5, <2>2, StandsStill DEF Safe
  <2> QED BY <2>1, <2>2
<1>9. ListedMailIsComplete'
  BY <1>1, <1>4 DEF Safe, ListedMailIsComplete
<1>10. DeliveredAsPosted'
  BY <1>1, <1>3 DEF Safe, DeliveredAsPosted
<1>11. OkMeansDelivered'
  BY <1>1, <1>3 DEF Safe, OkMeansDelivered, Calm, Reached
<1> QED BY <1>6, <1>7, <1>8, <1>9, <1>10, <1>11 DEF Safe

-----------------------------------------------------------------------------
(* The theorems.                                                           *)

(* A thread other than t stands still.                                     *)
LEMMA QuietElsewhere ==
  ASSUME Typed, NEW t \in Threads, NEW step, NEW r,
         pc' = [pc EXCEPT ![t] = step] \/ pc' = pc,
         req' = [req EXCEPT ![t] = r] \/ req' = req
  PROVE  \A x \in Threads \ {t} : QuietFor(x)
  BY DEF QuietFor, Typed, TypeOK

LEMMA SafeStep ==
  ASSUME Sound, Sound', Typed, Safe, [Next]_vars
  PROVE  Safe'
<1> USE DEF Goto, Begin, Return, Me, life, history, vars
<1>1. ASSUME NEW t \in Threads, Send(t) PROVE Safe'
  <2>1. PICK p \in Posts :
          Begin(t, "draw", [Blank EXCEPT !.user = p[1], !.receivers = p[2], !.todo = p[2]])
    BY <1>1 DEF Send
  <2>2. QuietFor(t)
    BY <2>1 DEF QuietFor, Typed, TypeOK, Blank, OthersUseLinks, Sending
  <2>3. \A x \in Threads \ {t} : QuietFor(x)
    BY <2>1, QuietElsewhere
  <2> QED BY <1>1, <2>2, <2>3, QuietStep DEF Send
<1>2. ASSUME NEW t \in Threads, List(t) PROVE Safe'
  <2>1. PICK u \in Users : \E f \in {Home[u], SentFolder(u)} :
          /\ Begin(t, "list", [Blank EXCEPT !.user = u, !.folder = f])
          /\ intruded' = (intruded \/ f = MailFolder)
    BY <1>2 DEF List
  <2>2. PICK f \in {Home[u], SentFolder(u)} :
          /\ Begin(t, "list", [Blank EXCEPT !.user = u, !.folder = f])
          /\ intruded' = (intruded \/ f = MailFolder)
    BY <2>1
  <2>3. f # MailFolder
    BY <2>2 DEF Sound
  <2>4. QuietFor(t)
    BY <2>2, <2>3 DEF QuietFor, Typed, TypeOK, OthersUseLinks, Sending, Blank
  <2>5. \A x \in Threads \ {t} : QuietFor(x)
    BY <2>2, QuietElsewhere
  <2> QED BY <1>2, <2>4, <2>5, QuietStep DEF List
<1>3. ASSUME NEW t \in Threads, Read(t) PROVE Safe'
  <2>1. PICK id \in Listed : Begin(t, "read", [Blank EXCEPT !.id = id])
    BY <1>3 DEF Read
  <2>2. Listed' = Listed
    BY <1>3 DEF Read, Listed, spool
  <2>3. QuietFor(t)
    BY <2>1, <2>2
    DEF QuietFor, Typed, TypeOK, Blank, OthersUseLinks, Sending
  <2>4. \A x \in Threads \ {t} : QuietFor(x)
    BY <2>1, QuietElsewhere
  <2> QED BY <1>3, <2>3, <2>4, QuietStep DEF Read
<1>4. ASSUME NEW t \in Threads, Del(t) PROVE Safe'
  <2>1. PICK u \in Users, id \in Listed :
          /\ Begin(t, "check", [Blank EXCEPT !.user = u, !.id = id])
          /\ intruded' = (intruded \/ Home[u] = MailFolder)
    BY <1>4 DEF Del
  <2>2. Home[u] # MailFolder
    BY <2>1 DEF Sound
  <2>3. QuietFor(t)
    BY <2>1, <2>2 DEF QuietFor, Typed, TypeOK, OthersUseLinks, Sending, Blank
  <2>4. \A x \in Threads \ {t} : QuietFor(x)
    BY <2>1, QuietElsewhere
  <2> QED BY <1>4, <2>3, <2>4, QuietStep DEF Del
<1>5. ASSUME NEW t \in Threads, OpenDirectory(t) PROVE Safe'
  <2>1. CASE CallThrows
    BY <1>5, <2>1, DeathStep DEF OpenDirectory, CallThrows
  <2>2. CASE ~ CallThrows
    <3>1. /\ pc[t] = "list" /\ pc' = [pc EXCEPT ![t] = "entry"]
          /\ req' = [req EXCEPT ![t] = [req[t] EXCEPT !.dir = Holds(req[t].folder)]]
          /\ UNCHANGED <<spool, life, history>>
      BY <1>5, <2>2 DEF OpenDirectory
    <3>2. req[t].folder # MailFolder
      BY <3>1 DEF Safe, OthersUseLinks
    <3>3. Holds(req[t].folder) \subseteq Listed
      BY <3>2, ListedInFolders DEF Holds, Typed, TypeOK
    <3>4. Listed' = Listed
      BY <3>1 DEF Listed, spool
    <3>5. /\ pc'[t] = "entry" /\ req'[t].folder = req[t].folder
          /\ req'[t].dir = Holds(req[t].folder)
      BY <3>1 DEF Typed, TypeOK, Request
    <3>6. QuietFor(t)
      BY <3>2, <3>3, <3>4, <3>5 DEF QuietFor, OthersUseLinks, Sending
    <3>7. \A x \in Threads \ {t} : QuietFor(x)
      BY <3>1, QuietElsewhere
    <3> QED BY <3>1, <3>6, <3>7, QuietStep
  <2> QED BY <2>1, <2>2
<1>6. ASSUME NEW t \in Threads, NextEntry(t) PROVE Safe'
  <2>1. CASE Die("exited")
    <3>1. faults' = faults \/ Fault
      BY <1>6 DEF NextEntry, CallThrows
    <3> QED BY <1>6, <2>1, <3>1, DeathStep DEF NextEntry
  <2>2. CASE ~ Die("exited")
    <3>1. PICK id : /\ req' = [req EXCEPT ![t] = [req[t] EXCEPT !.seen = @ \cup {id}]]
                    /\ pc' = pc
      BY <1>6, <2>2 DEF NextEntry, CallThrows
    <3>2. /\ pc[t] = "entry" /\ UNCHANGED <<spool, faults, history>>
      BY <1>6, <2>2 DEF NextEntry, CallThrows
    <3>3. Listed' = Listed
      BY <3>2 DEF Listed, spool
    <3>4. req'[t].dir = req[t].dir /\ req'[t].folder = req[t].folder
      BY <3>1 DEF Typed, TypeOK, Request
    <3>5. QuietFor(t)
      BY <3>1, <3>2, <3>3, <3>4 DEF QuietFor, Safe, OthersUseLinks, Sending
    <3>6. \A x \in Threads \ {t} : QuietFor(x)
      BY <3>1, QuietElsewhere
    <3> QED BY <3>2, <3>5, <3>6, QuietStep
  <2> QED BY <2>1, <2>2
<1>7. ASSUME NEW t \in Threads, ReplyList(t) PROVE Safe'
  <2>1. QuietFor(t)
    BY <1>7 DEF ReplyList, QuietFor, Typed, TypeOK, OthersUseLinks, Sending
  <2>2. \A x \in Threads \ {t} : QuietFor(x)
    BY <1>7, QuietElsewhere DEF ReplyList
  <2> QED BY <1>7, <2>1, <2>2, QuietStep DEF ReplyList
<1>8. ASSUME NEW t \in Threads, ReadMail(t) PROVE Safe'
  <2>1. CASE Die("exited")
    <3>1. faults' = faults \/ Fault
      BY <1>8 DEF ReadMail, CallThrows
    <3> QED BY <1>8, <2>1, <3>1, DeathStep DEF ReadMail
  <2>2. CASE ~ Die("exited")
    <3>1. /\ pc' = [pc EXCEPT ![t] = "idle"] /\ req' = [req EXCEPT ![t] = Blank]
          /\ faults' = faults
      BY <1>8, <2>2 DEF ReadMail, CallThrows
    <3>2. QuietFor(t)
      BY <3>1 DEF QuietFor, Typed, TypeOK, OthersUseLinks, Sending
    <3>3. \A x \in Threads \ {t} : QuietFor(x)
      BY <3>1, QuietElsewhere
    <3> QED BY <1>8, <3>1, <3>2, <3>3, QuietStep DEF ReadMail
  <2> QED BY <2>1, <2>2
<1>9. ASSUME NEW t \in Threads, CheckLink(t) PROVE Safe'
  <2>1. UNCHANGED <<spool, history>> /\ pc[t] = "check"
    BY <1>9 DEF CheckLink
  <2>2. Home[Me(t)] # MailFolder
    BY <2>1 DEF Safe, OthersUseLinks
  <2>3. CASE CallThrows
    BY <2>1, <2>3, DeathStep DEF CallThrows
  <2>4. CASE /\ pc' = [pc EXCEPT ![t] = "remove"] /\ req' = req /\ faults' = faults
             /\ req[t].id \in Holds(Home[Me(t)])
    <3>1. <<Home[Me(t)], req[t].id>> \in links
      BY <2>2, <2>4 DEF Holds
    <3>2. QuietFor(t)
      BY <2>1, <2>2, <2>4, <3>1
      DEF QuietFor, Typed, TypeOK, OthersUseLinks, Sending, spool
    <3>3. \A x \in Threads \ {t} : QuietFor(x)
      BY <2>4, QuietElsewhere
    <3> QED BY <2>1, <2>4, <3>2, <3>3, QuietStep
  <2>5. CASE /\ pc' = [pc EXCEPT ![t] = "idle"] /\ req' = [req EXCEPT ![t] = Blank]
             /\ faults' = faults
    <3>1. QuietFor(t)
      BY <2>5 DEF QuietFor, Typed, TypeOK, OthersUseLinks, Sending
    <3>2. \A x \in Threads \ {t} : QuietFor(x)
      BY <2>5, QuietElsewhere
    <3> QED BY <2>1, <2>5, <3>1, <3>2, QuietStep
  <2> QED BY <1>9, <2>3, <2>4, <2>5 DEF CheckLink
<1>10. ASSUME NEW t \in Threads, RemoveFile(t) PROVE Safe'
  BY <1>10 DEF RemoveFile, Safe, OthersUseLinks
<1>11. ASSUME NEW t \in Threads, RemoveFails(t) PROVE Safe'
  <2>1. QuietFor(t)
    BY <1>11 DEF RemoveFails, QuietFor, Typed, TypeOK, OthersUseLinks, Sending
  <2>2. \A x \in Threads \ {t} : QuietFor(x)
    BY <1>11, QuietElsewhere DEF RemoveFails
  <2> QED BY <1>11, <2>1, <2>2, QuietStep DEF RemoveFails
<1>12. ASSUME Kill PROVE Safe'
  BY <1>12, DeathStep DEF Kill
<1>13. ASSUME Start PROVE Safe'
  <2>1. \A x \in Threads : QuietFor(x) BY <1>13 DEF Start, QuietFor
  <2> QED BY <1>13, <2>1, QuietStep DEF Start
<1>14. ASSUME UNCHANGED vars PROVE Safe'
  <2>1. \A x \in Threads : QuietFor(x) BY <1>14 DEF QuietFor
  <2> QED BY <1>14, <2>1, QuietStep
<1>15. ASSUME NEW t \in Threads, OpenMail(t) \/ WriteMail(t) PROVE Safe'
  <2>1. WriteMail(t) => ~ Die("choked")
    BY DEF WriteMail, Die, Typed, TypeOK
  <2> QED BY <1>15, <2>1, FileStep, ChokeStep
<1>16. ASSUME NEW t \in Threads, Serve(t) PROVE Safe'
  <2>1. ~ \E u \in Threads : DrawTogether(t, u) BY DEF DrawTogether, Sound
  <2> QED BY <1>5, <1>6, <1>7, <1>8, <1>9, <1>10, <1>11, <1>15, <1>16, <2>1,
             DrawStep, LinkSenderStep, LinkReceiverStep, ReplyStep, RemoveStep
          DEF Serve
<1> QED BY <1>1, <1>2, <1>3, <1>4, <1>12, <1>13, <1>14, <1>16 DEF Next

(* The process ends itself as "exited" only where getMail() does, and there *)
(* on a mail that has been in a folder and is complete: its key is another *)
(* one.                                                                    *)
LEMMA ExitStep ==
  ASSUME Sound, Sound', Typed, Safe, DiesOnlyOnForeignMail, [Next]_vars
  PROVE  DiesOnlyOnForeignMail'
<1> USE DEF Calm, life, vars
<1>1. SUFFICES ASSUME faults' = 0, server' = "exited"
               PROVE  \E p \in (links \cup trash)' :
                        p[2] \in DOMAIN mails' /\ mails'[p[2]].key # Key'
  BY DEF DiesOnlyOnForeignMail
<1>2. ASSUME NEW id \in Listed, GetMail(id) = "wrong", faults' = faults,
             UNCHANGED <<spool, option, history>>
      PROVE  \E p \in (links \cup trash)' :
               p[2] \in DOMAIN mails' /\ mails'[p[2]].key # Key'
  <2>1. mails[id].state = "complete"
    BY <1>1, <1>2 DEF Safe, ListedMailIsComplete
  <2>2. id \in DOMAIN mails /\ mails[id].key # Key
    BY <1>2, <2>1 DEF GetMail
  <2>3. Key' = Key BY <1>2 DEF Key
  <2>4. PICK f \in Folders : <<f, id>> \in links \cup trash
    BY ListedInFolders
  <2>5. UNCHANGED <<mails, links, trash>>
    BY <1>2 DEF spool, history
  <2> DEFINE p == <<f, id>>
  <2>6. p \in (links \cup trash)' /\ p[2] = id
    BY <2>4, <2>5
  <2> HIDE DEF p
  <2> QED BY <2>2, <2>3, <2>5, <2>6
<1>3. ~ CallThrows
  BY <1>1 DEF CallThrows, Fault, Typed, TypeOK
<1>4. ASSUME NEW t \in Threads, NextEntry(t) PROVE DiesOnlyOnForeignMail'
  <2>1. server = "up" /\ pc[t] = "entry"
    BY <1>4 DEF NextEntry, Typed, DeadThreadsAreIdle
  <2>2. PICK id : id \in (req[t].dir \cup Holds(req[t].folder)) /\ GetMail(id) = "wrong"
    BY <1>1, <1>3, <1>4, <2>1 DEF NextEntry
  <2>3. req[t].folder # MailFolder /\ req[t].dir \subseteq Listed
    BY <2>1 DEF Safe, OthersUseLinks
  <2>4. id \in Listed
    BY <2>2, <2>3, ListedInFolders DEF Holds, Typed, TypeOK
  <2> QED BY <1>2, <1>3, <1>4, <2>2, <2>4 DEF NextEntry, DiesOnlyOnForeignMail
<1>5. ASSUME NEW t \in Threads, ReadMail(t) PROVE DiesOnlyOnForeignMail'
  <2>1. server = "up" /\ pc[t] = "read"
    BY <1>5 DEF ReadMail, Typed, DeadThreadsAreIdle
  <2>2. req[t].id \in Listed /\ GetMail(req[t].id) = "wrong"
    BY <1>1, <1>3, <1>5, <2>1 DEF ReadMail, Safe, OthersUseLinks
  <2> QED BY <1>2, <1>3, <1>5, <2>2 DEF ReadMail, DiesOnlyOnForeignMail
<1>6. CASE UNCHANGED vars
  BY <1>1, <1>6 DEF DiesOnlyOnForeignMail, Key, spool, history, Sound
<1>7. ASSUME server # "exited",
             \A t \in Threads : ~ NextEntry(t) /\ ~ ReadMail(t), Next
      PROVE  FALSE
  <2>1. \A t \in Threads : ~ RemoveFile(t)
    BY DEF RemoveFile, Safe, OthersUseLinks
  <2> QED
    BY <1>1, <1>3, <1>7, <2>1
    DEF Next, Serve, Send, List, Read, Del, Begin, DrawId, DrawTogether,
        OpenMail, WriteMail, LinkSender, LinkReceiver, ReplySent,
        OpenDirectory, ReplyList, CheckLink, RemoveLink, RemoveFails,
        Kill, Die, Start
<1>8. ASSUME server = "exited", Next PROVE FALSE
  <2>1. \A t \in Threads : pc[t] = "idle"
    BY <1>8 DEF Typed, DeadThreadsAreIdle
  <2> QED
    BY <1>1, <1>8, <2>1
    DEF Next, Serve, Send, List, Read, Del, Begin, DrawId, DrawTogether,
        OpenMail, WriteMail, LinkSender, LinkReceiver, ReplySent,
        OpenDirectory, NextEntry, ReadMail, ReplyList, CheckLink, RemoveLink,
        RemoveFile, RemoveFails, Kill, Start
<1>9. DiesOnlyOnForeignMail'
  <2>1. CASE UNCHANGED vars
    BY <1>6, <2>1 DEF DiesOnlyOnForeignMail
  <2>2. CASE Next
    <3>1. server # "exited" BY <1>8, <2>2
    <3>2. \E t \in Threads : NextEntry(t) \/ ReadMail(t) BY <1>7, <2>2, <3>1
    <3> QED BY <1>4, <1>5, <3>2
  <2> QED BY <2>1, <2>2
<1> QED BY <1>1, <1>9 DEF DiesOnlyOnForeignMail

LEMMA Initially == Init => MailInv
  BY InitTyped, InitSafe
  DEF MailInv, Typed, Safe, DiesOnlyOnForeignMail, Init

(* A spool that is not sound stays so.                                     *)
LEMMA UnsoundForGood == [Next]_vars /\ Sound' => Sound
<1> SUFFICES ASSUME [Next]_vars, Sound' PROVE Sound
  OBVIOUS
<1>1. ASSUME NEW t \in Threads, NEW u \in Threads, DrawTogether(t, u)
      PROVE  FALSE
  BY <1>1 DEF DrawTogether, Sound
<1>2. ASSUME NEW t \in Threads, List(t) \/ Del(t) PROVE Sound
  <2>1. raced' = raced
    BY <1>2 DEF List, Del
  <2>2. ASSUME NEW b \in BOOLEAN, intruded' = (intruded \/ b) PROVE ~intruded
    BY <2>2 DEF Sound
  <2>3. \E b \in BOOLEAN : intruded' = (intruded \/ b)
    BY <1>2 DEF List, Del
  <2> QED BY <2>1, <2>2, <2>3 DEF Sound
<1>3. ASSUME \A t \in Threads : ~List(t) /\ ~Del(t)
      PROVE  raced' = raced /\ intruded' = intruded
  BY <1>1, <1>3
  DEF Next, Serve, Send, Read, DrawId, OpenMail,
      WriteMail, LinkSender, LinkReceiver, ReplySent, OpenDirectory, NextEntry,
      ReadMail, ReplyList, CheckLink, RemoveLink, RemoveFile, RemoveFails,
      Kill, Start, vars, history
<1> QED BY <1>2, <1>3 DEF Sound

LEMMA Preserved == MailInv /\ [Next]_vars => MailInv'
<1> SUFFICES ASSUME MailInv, [Next]_vars PROVE MailInv'
  OBVIOUS
<1>1. Typed BY DEF MailInv, Typed
<1>2. Typed' BY <1>1, TypeStep
<1>3. CASE ~ Sound'
  BY <1>2, <1>3 DEF MailInv, Typed
<1>4. CASE Sound'
  <2>1. Sound BY <1>4, UnsoundForGood
  <2>2. Safe BY <2>1 DEF MailInv, Safe
  <2>3. DiesOnlyOnForeignMail BY <2>1 DEF MailInv
  <2>4. Safe' BY <1>1, <1>4, <2>1, <2>2, SafeStep
  <2>5. DiesOnlyOnForeignMail' BY <1>1, <1>4, <2>1, <2>2, <2>3, ExitStep
  <2> QED BY <1>2, <2>4, <2>5 DEF MailInv, Typed, Safe
<1> QED BY <1>3, <1>4

(* MailInv holds at every access to the file system, for any number of     *)
(* threads, mails, crashes and failing calls.                              *)
THEOREM Invariant == Spec => []MailInv
<1> QED BY Initially, Preserved, PTL DEF Spec

(* A mail that a folder shows is there as a whole, whatever has crashed.   *)
THEOREM LinkedIsComplete == Spec => []LinkedMailIsComplete
<1>1. MailInv => LinkedMailIsComplete
  <2> SUFFICES ASSUME MailInv, Calm, NEW p \in links
               PROVE  p[2] \in DOMAIN mails /\ mails[p[2]].state = "complete"
    BY DEF LinkedMailIsComplete
  <2>1. p[2] \in Listed
    BY ListedInFolders DEF MailInv, TypeOK, Calm
  <2> QED BY <2>1 DEF MailInv, ListedMailIsComplete, Calm
<1> QED BY <1>1, Invariant, PTL

(* A mail is only in the folders that its sender's and its receivers'      *)
(* names lead to, whatever these names are and whatever fails; and what is *)
(* in a folder was in the sender's sent folder before.                     *)
THEOREM OnlyToReceivers == Spec => []DeliveredAsPosted
<1>1. MailInv => DeliveredAsPosted
  BY DEF MailInv, DeliveredAsPosted
<1> QED BY <1>1, Invariant, PTL

(* What was answered OK is in the folders of all it concerns, for good.    *)
THEOREM OkIsKept == Spec => []OkMeansDelivered
<1>1. MailInv => OkMeansDelivered
  BY DEF MailInv, OkMeansDelivered, Calm
<1> QED BY <1>1, Invariant, PTL

(* Apart from a SEND whose text is no UTF-8, the server ends itself only   *)
(* over mail stored under another key.                                     *)
THEOREM ExitsOnForeignMail == Spec => []DiesOnlyOnForeignMail
<1>1. MailInv => DiesOnlyOnForeignMail
  BY DEF MailInv, DiesOnlyOnForeignMail, Calm
<1> QED BY <1>1, Invariant, PTL

(* Only SEND writes files, and the file it writes is new or still torn.    *)
LEMMA ForeverStep ==
  ASSUME MailInv, [Next]_vars, Sound,
         NEW id \in DOMAIN mails, mails[id].state = "complete"
  PROVE  id \in DOMAIN mails' /\ mails'[id] = mails[id]
<1>1. CASE mails' = mails
  BY <1>1
<1>2. ASSUME NEW t \in Threads, OpenMail(t) \/ WriteMail(t), mails' # mails
      PROVE  id \in DOMAIN mails' /\ mails'[id] = mails[id]
  <2>1. /\ HasId(t)
        /\ mails' = Saved(t, "torn") \/ mails' = Saved(t, "complete")
    BY <1>2 DEF OpenMail, WriteMail, HasId, Sending
  <2>2. req[t].id # id
    BY <1>2 DEF MailInv, SendIsOnItsWay, OpenMail, WriteMail
  <2> QED BY <2>1, <2>2, SavedType DEF MailInv
<1>3. \A t \in Threads : ~ RemoveFile(t)
  BY DEF RemoveFile, MailInv, OthersUseLinks
<1>4. ASSUME \A t \in Threads : ~ OpenMail(t) /\ ~ WriteMail(t)
      PROVE  mails' = mails
  BY <1>3, <1>4
  DEF Next, Serve, Send, List, Read, Del, DrawId, DrawTogether, LinkSender,
      LinkReceiver, ReplySent, OpenDirectory, NextEntry, ReadMail, ReplyList,
      CheckLink, RemoveLink, RemoveFails, Kill, Start, vars, spool
<1> QED BY <1>1, <1>2, <1>4

(* No step changes or removes a mail that is complete, as long as ids are  *)
(* distinct and no session has the folder of the mails as its own.         *)
THEOREM StoredForever == Spec => MailIsForever
<1>1. MailInv /\ [Next]_vars =>
        [Sound => \A id \in DOMAIN mails :
           mails[id].state = "complete" =>
             id \in DOMAIN mails' /\ mails'[id] = mails[id]]_vars
  BY ForeverStep
<1> QED BY <1>1, Invariant, PTL DEF Spec, MailIsForever

-----------------------------------------------------------------------------
(* A folder that is named once gets its link once.                         *)

LEMMA OnceTail ==
  ASSUME NEW s \in Seq(Names), s # <<>>, NEW user, OncePerFolder(user, s)
  PROVE  /\ OncePerFolder(user, Tail(s))
         /\ \A k \in DOMAIN Tail(s) :
              /\ Home[Tail(s)[k]] # Home[Head(s)]
              /\ k + 1 \in DOMAIN s /\ Tail(s)[k] = s[k + 1]
<1>1. /\ DOMAIN Tail(s) = 1 .. Len(s) - 1 /\ DOMAIN s = 1 .. Len(s)
      /\ Len(s) \in Nat \ {0} /\ Head(s) = s[1]
      /\ \A k \in 1 .. Len(s) - 1 : Tail(s)[k] = s[k + 1]
  OBVIOUS
<1>2. \A k \in DOMAIN Tail(s) :
        k \in Nat /\ k + 1 \in DOMAIN s /\ k + 1 # 1 /\ Tail(s)[k] = s[k + 1]
  BY <1>1
<1>3. OncePerFolder(user, Tail(s))
  <2>1. ASSUME NEW j \in DOMAIN Tail(s), NEW k \in DOMAIN Tail(s),
               Home[Tail(s)[j]] = Home[Tail(s)[k]]
        PROVE  j = k
    <3>1. j + 1 = k + 1
      BY <1>2, <2>1 DEF OncePerFolder
    <3> QED BY <1>2, <3>1
  <2>2. \A k \in DOMAIN Tail(s) : Home[Tail(s)[k]] # SentFolder(user)
    BY <1>2 DEF OncePerFolder
  <2> QED BY <2>1, <2>2 DEF OncePerFolder
<1>4. ASSUME NEW k \in DOMAIN Tail(s) PROVE Home[Tail(s)[k]] # Home[Head(s)]
  <2>1. 1 \in DOMAIN s BY <1>1
  <2> QED BY <1>1, <1>2, <2>1 DEF OncePerFolder
<1> QED BY <1>2, <1>3, <1>4

LEMMA InitLinks == Init => LinksToCome
  BY DEF Init, LinksToCome, StillToLink, Sending

(* The mails that reach a folder: only a SEND makes links, of its own mail.*)
LEMMA LinkMade ==
  ASSUME MailInv, Sound, [Next]_vars,
         NEW p, p \in (links \cup trash)', p \notin links \cup trash
  PROVE  \E t \in Threads : /\ LinkSender(t) \/ LinkReceiver(t)
                            /\ links' # links /\ p[2] = req[t].id
<1>1. CASE links' = links /\ trash' = trash
  BY <1>1
<1>2. ASSUME NEW t \in Threads, RemoveLink(t) PROVE FALSE
  <2>1. /\ (links \cup trash)' \subseteq links \cup trash \cup {<<Home[Me(t)], req[t].id>>}
        /\ pc[t] = "remove"
    BY <1>2 DEF RemoveLink
  <2>2. <<Home[Me(t)], req[t].id>> \in links \cup trash
    BY <2>1 DEF MailInv, OthersUseLinks
  <2> QED BY <2>1, <2>2
<1>3. ASSUME NEW t \in Threads, LinkSender(t) \/ LinkReceiver(t)
      PROVE  links' # links /\ p[2] = req[t].id
  <2>1. /\ trash' = trash
        /\ \E f : links' \subseteq links \cup {<<f, req[t].id>>}
    BY <1>3 DEF LinkSender, LinkReceiver, Linked, history
  <2> QED BY <2>1
<1>4. \A t \in Threads : ~ RemoveFile(t)
  BY DEF RemoveFile, MailInv, OthersUseLinks
<1>5. ASSUME \A t \in Threads : ~RemoveLink(t) /\ ~LinkSender(t) /\ ~LinkReceiver(t)
      PROVE  links' = links /\ trash' = trash
  BY <1>4, <1>5
  DEF Next, Serve, Send, List, Read, Del, DrawId, DrawTogether, OpenMail,
      WriteMail, ReplySent, OpenDirectory, NextEntry, ReadMail,
      ReplyList, CheckLink, RemoveFails, Kill, Start, vars, spool, history
<1> QED BY <1>1, <1>2, <1>3, <1>5

LEMMA LinksFrame ==
  ASSUME NEW x \in Threads, StillToLink(x),
         pc'[x] = pc[x], req'[x].todo = req[x].todo, req'[x].id = req[x].id,
         req'[x].user = req[x].user,
         pc[x] = "link" =>
           \A f : <<f, req[x].id>> \in (links \cup trash)'
                    => <<f, req[x].id>> \in links \cup trash
  PROVE  StillToLink(x)'
  BY DEF StillToLink, OncePerFolder, Me

LEMMA LinksStep ==
  ASSUME MailInv, Sound, Sound', NoRepeats, [Next]_vars,
         \A t \in Threads : StillToLink(t),
         NEW x \in Threads
  PROVE  StillToLink(x)'
<1> USE DEF Goto, Begin, Return, Die, life, Me
<1>1. /\ pc \in [Threads -> Steps] /\ req \in [Threads -> Request]
      /\ StillToLink(x)
  BY DEF MailInv, TypeOK
<1>2. CASE pc'[x] \notin Sending
  BY <1>2 DEF StillToLink
<1>3. CASE Send(x)
  <2>1. PICK p \in Posts : req'[x].todo = p[2] /\ req'[x].user = p[1]
    BY <1>1, <1>3 DEF Send, Blank
  <2>2. pc'[x] = "draw"
    BY <1>1, <1>3 DEF Send
  <2> QED BY <2>1, <2>2 DEF StillToLink, NoRepeats, OncePerFolder
<1>4. CASE (DrawId(x) \/ OpenMail(x) \/ WriteMail(x)) /\ pc'[x] \in Sending
  <2>1. pc'[x] # "idle" BY <1>4 DEF Sending
  <2>2. /\ pc[x] \in Sending /\ pc'[x] \in {"open", "write", "linkSender"}
        /\ req'[x].todo = req[x].todo /\ req'[x].user = req[x].user
    BY <1>1, <1>4, <2>1 DEF DrawId, OpenMail, WriteMail, Sending, Request
  <2> QED BY <1>1, <2>2 DEF StillToLink, OncePerFolder
<1>5. CASE LinkSender(x)
  <2>1. CASE pc'[x] = "link" /\ req' = req
    <3> DEFINE id == req[x].id
               f  == SentFolder(req[x].user)
    <3>1. /\ pc[x] = "linkSender" /\ trash' = trash
          /\ links' \subseteq links \cup {<<f, id>>}
      BY <1>1, <1>5, <2>1 DEF LinkSender, history, CallThrows
    <3>2. id \notin Listed
      BY <3>1 DEF MailInv, SendIsOnItsWay, HasId, Sending
    <3>3. \A g : <<g, id>> \notin links \cup trash
      BY <3>2, ListedInFolders DEF MailInv, TypeOK
    <3>4. OncePerFolder(req[x].user, req[x].todo)
      BY <1>1, <3>1 DEF StillToLink, Sending
    <3>5. \A i \in DOMAIN req[x].todo : Home[req[x].todo[i]] # f
      BY <3>4 DEF OncePerFolder
    <3> HIDE DEF id, f
    <3>6. \A g : g # f => <<g, id>> \notin (links \cup trash)'
      BY <3>1, <3>3
    <3>7. \A i \in DOMAIN req[x].todo : <<Home[req[x].todo[i]], id>> \notin (links \cup trash)'
      BY <3>5, <3>6
    <3> QED BY <2>1, <3>4, <3>7 DEF StillToLink, OncePerFolder, id
  <2>2. CASE ~(pc'[x] = "link" /\ req' = req)
    BY <1>1, <1>2, <1>5, <2>2 DEF LinkSender, CallThrows, Sending
  <2> QED BY <2>1, <2>2
<1>6. CASE LinkReceiver(x)
  <2>1. CASE CallThrows
    BY <1>2, <2>1 DEF CallThrows, Sending
  <2>2. CASE ~CallThrows
    <3> DEFINE todo == req[x].todo
               id == req[x].id
               user == req[x].user
    <3>1. /\ pc[x] = "link" /\ todo # <<>>
          /\ req' = [req EXCEPT ![x].todo = Tail(todo)]
          /\ pc' = pc /\ links' \subseteq links \cup {<<Home[Head(todo)], id>>}
          /\ trash' = trash
      BY <1>6, <2>2 DEF LinkReceiver, Linked, history
    <3>2. /\ req'[x].todo = Tail(todo) /\ req'[x].id = id /\ req'[x].user = user
          /\ todo \in Seq(Names)
      BY <1>1, <3>1 DEF Request
    <3>3. /\ OncePerFolder(user, todo)
          /\ \A i \in DOMAIN todo : <<Home[todo[i]], id>> \notin links \cup trash
      BY <1>1, <3>1 DEF StillToLink, Sending
    <3> HIDE DEF todo, id, user
    <3>4. /\ OncePerFolder(user, Tail(todo))
          /\ \A k \in DOMAIN Tail(todo) :
               /\ Home[Tail(todo)[k]] # Home[Head(todo)]
               /\ k + 1 \in DOMAIN todo /\ Tail(todo)[k] = todo[k + 1]
      BY <3>1, <3>2, <3>3, OnceTail
    <3>5. ASSUME NEW k \in DOMAIN Tail(todo)
          PROVE  <<Home[Tail(todo)[k]], id>> \notin (links \cup trash)'
      <4>1. <<Home[Tail(todo)[k]], id>> \notin links \cup trash
        BY <3>3, <3>4
      <4>2. <<Home[Tail(todo)[k]], id>> # <<Home[Head(todo)], id>>
        BY <3>4
      <4> QED BY <3>1, <4>1, <4>2
    <3> QED BY <3>2, <3>4, <3>5 DEF StillToLink, OncePerFolder
  <2> QED BY <2>1, <2>2
<1>7. CASE /\ pc'[x] = pc[x] /\ req'[x].todo = req[x].todo
           /\ req'[x].id = req[x].id /\ req'[x].user = req[x].user
           /\ ~LinkSender(x) /\ ~LinkReceiver(x)
  <2>1. ASSUME pc[x] = "link", NEW f,
               <<f, req[x].id>> \in (links \cup trash)',
               <<f, req[x].id>> \notin links \cup trash
        PROVE  FALSE
    <3> DEFINE p == <<f, req[x].id>>
    <3>1. p[2] = req[x].id OBVIOUS
    <3> HIDE DEF p
    <3>2. PICK t \in Threads : /\ LinkSender(t) \/ LinkReceiver(t)
                               /\ p[2] = req[t].id
      BY <2>1, LinkMade DEF p
    <3>3. t # x /\ req[t].id = req[x].id
      BY <1>7, <3>1, <3>2
    <3>4. HasId(t) /\ HasId(x)
      BY <2>1, <3>2 DEF LinkSender, LinkReceiver, HasId, Sending
    <3> QED BY <3>3, <3>4 DEF MailInv, IdsDiffer
  <2> QED BY <1>1, <1>7, <2>1, LinksFrame
<1>8. CASE List(x) \/ Read(x) \/ Del(x)
  BY <1>1, <1>2, <1>8 DEF List, Read, Del, Sending
<1>9. CASE \/ ReplySent(x) \/ OpenDirectory(x) \/ NextEntry(x) \/ ReplyList(x)
           \/ ReadMail(x) \/ CheckLink(x) \/ RemoveLink(x) \/ RemoveFile(x)
           \/ RemoveFails(x)
  BY <1>1, <1>2, <1>9
  DEF ReplySent, OpenDirectory, NextEntry, ReplyList, ReadMail, CheckLink,
      RemoveLink, RemoveFile, RemoveFails, CallThrows, Sending
<1>10. ASSUME NEW t \in Threads \ {x},
              Send(t) \/ List(t) \/ Read(t) \/ Del(t) \/ Serve(t)
       PROVE  StillToLink(x)'
  <2>1. ~ \E u \in Threads : DrawTogether(t, u) BY DEF DrawTogether, Sound
  <2>2. \/ pc'[x] = "idle"
        \/ pc'[x] = pc[x] /\ req'[x] = req[x]
    BY <1>1, <1>10, <2>1
    DEF Send, List, Read, Del, Serve, DrawId, OpenMail, WriteMail, LinkSender,
        LinkReceiver, ReplySent, OpenDirectory, NextEntry, ReadMail, ReplyList,
        CheckLink, RemoveLink, RemoveFile, RemoveFails, CallThrows
  <2> QED BY <1>2, <1>5, <1>6, <1>7, <2>2 DEF Sending
<1>11. CASE Kill \/ Start \/ UNCHANGED vars
  BY <1>1, <1>2, <1>5, <1>6, <1>7, <1>11 DEF Kill, Start, vars, Sending
<1>12. ~ \E u \in Threads : DrawTogether(x, u)
  BY DEF DrawTogether, Sound
<1> QED
  BY <1>2, <1>3, <1>4, <1>5, <1>6, <1>8, <1>9, <1>10, <1>11, <1>12 DEF Next, Serve

(* A receiver whose link is still to be made has never had one, nor has    *)
(* the folder his name leads to, when the names of each SEND lead to       *)
(* different folders.                                                      *)
THEOREM LinkedOnce == Spec => []LinksToCome
<1>1. MailInv /\ LinksToCome /\ [Next]_vars => LinksToCome'
  BY LinksStep, UnsoundForGood DEF LinksToCome, NoRepeats
<1> QED BY <1>1, Invariant, InitLinks, PTL DEF Spec

-----------------------------------------------------------------------------
(* The spool implements MailStore.                                         *)

(* No session has the folder of the mails for its own.                     *)
NoIntruder == \A u \in Users : Home[u] # MailFolder

LEMMA CalmStep ==
  ASSUME MaxFaults = 0, NoIntruder, TypeOK, Calm, [Next]_vars
  PROVE  Calm' /\ ~Fault /\ faults' = faults
<1>1. ~ (Mishaps < MaxFaults)
  BY DEF Mishaps, TypeOK
<1>2. ~Fault /\ ~CallThrows /\ \A t, u \in Threads : ~DrawTogether(t, u)
  BY <1>1 DEF Fault, CallThrows, DrawTogether
<1>3. ASSUME NEW t \in Threads, List(t)
      PROVE  faults' = faults /\ raced' = raced /\ ~intruded'
  <2>1. PICK u \in Users : \E f \in {Home[u], SentFolder(u)} :
          intruded' = (intruded \/ f = MailFolder)
    BY <1>3 DEF List
  <2>2. Home[u] # MailFolder /\ SentFolder(u) # MailFolder
    BY FolderFacts DEF NoIntruder
  <2> QED BY <1>3, <2>1, <2>2 DEF List, Calm, Sound, life
<1>4. ASSUME NEW t \in Threads, Del(t)
      PROVE  faults' = faults /\ raced' = raced /\ ~intruded'
  BY <1>4 DEF Del, NoIntruder, Calm, Sound, life
<1>5. ASSUME \A t \in Threads : ~List(t) /\ ~Del(t)
      PROVE  faults' = faults /\ raced' = raced /\ intruded' = intruded
  BY <1>2, <1>5
  DEF Next, Serve, Send, Read, DrawId, OpenMail, WriteMail,
      LinkSender, LinkReceiver, ReplySent, OpenDirectory, NextEntry, ReadMail,
      ReplyList, CheckLink, RemoveLink, RemoveFile, RemoveFails, Kill, Start,
      vars, life, history
<1> QED BY <1>2, <1>3, <1>4, <1>5 DEF Calm, Sound

LEMMA VisibleIsListed == TypeOK /\ Sound => Visible \subseteq Listed
  BY ListedInFolders DEF Visible, TypeOK

(* What a user sees of the mails.                                          *)
Shown == [id \in Visible |-> Addressed(mails[id])]

Hidden == /\ Shown' = Shown
          /\ links' = links /\ (links \cup trash)' = links \cup trash

(* Opening and writing a file shows nothing: it has no link yet.           *)
LEMMA FileIsHidden ==
  ASSUME MailInv, Calm, NEW t \in Threads, OpenMail(t) \/ WriteMail(t)
  PROVE  Hidden
<1> DEFINE i == req[t].id
<1>1. /\ HasId(t) /\ i \notin Listed
      /\ UNCHANGED <<links, trash>>
      /\ mails' \in {mails, Saved(t, "torn"), Saved(t, "complete")}
  BY DEF OpenMail, WriteMail, HasId, Sending, MailInv, SendIsOnItsWay, Calm,
         history
<1>2. /\ DOMAIN mails \ {i} = DOMAIN mails' \ {i}
      /\ \A id \in DOMAIN mails \ {i} : mails'[id] = mails[id]
  BY <1>1, SavedType DEF MailInv
<1>3. \A f : <<f, i>> \notin links \cup trash
  BY <1>1, ListedInFolders DEF MailInv, TypeOK, Calm
<1> HIDE DEF i
<1>4. i \notin Visible /\ i \notin Visible'
  BY <1>1, <1>3 DEF Visible
<1>5. Visible' = Visible
  BY <1>1, <1>2, <1>4 DEF Visible
<1>6. \A id \in Visible : mails'[id] = mails[id]
  BY <1>2, <1>4 DEF Visible
<1>7. Shown' = Shown
  BY <1>5, <1>6 DEF Shown, Addressed
<1> QED BY <1>1, <1>7 DEF Hidden

(* The link of the sender makes the mail.                                  *)
LEMMA SenderStores ==
  ASSUME MailInv, Calm, ~Fault, NEW t \in Threads, LinkSender(t)
  PROVE  Promise!Store(req[t].id, SentFolder(Me(t)),
                       {Home[name] : name \in ToSet(req[t].receivers)})
<1> DEFINE i  == req[t].id
           f  == SentFolder(Me(t))
           to == {Home[name] : name \in ToSet(req[t].receivers)}
<1>1. /\ pc[t] = "linkSender"
      /\ links' = links \cup {<<f, i>>}
      /\ mails' = mails /\ trash' = trash
  BY DEF LinkSender, CallThrows, history
<1>2. /\ i \in DOMAIN mails /\ IsOf(t) /\ i \notin Listed
      /\ HasId(t)
  BY <1>1 DEF MailInv, SendIsOnItsWay, HasId, Sending, Calm
<1>3. i \notin Visible
  BY <1>2, VisibleIsListed DEF MailInv, Calm
<1>4. <<f, i>> \notin links \cup trash
  BY <1>2, ListedInFolders DEF MailInv, TypeOK, Calm
<1>5. SentFolder(mails[i].sender) = f /\ Addressed(mails[i]) = {f} \cup to
  BY <1>2 DEF IsOf, Addressed
<1> HIDE DEF i, f, to
<1>6. Visible' = Visible \cup {i}
  <2>1. \A id \in DOMAIN mails \ {i} :
          <<SentFolder(mails[id].sender), id>> \in (links \cup trash)'
            <=> <<SentFolder(mails[id].sender), id>> \in links \cup trash
    BY <1>1
  <2>2. <<SentFolder(mails[i].sender), i>> \in (links \cup trash)'
    BY <1>1, <1>5
  <2> QED BY <1>1, <1>2, <2>1, <2>2 DEF Visible, i
<1>7. Shown' = [j \in DOMAIN Shown \cup {i} |-> IF j = i THEN {f} \cup to ELSE Shown[j]]
  BY <1>1, <1>5, <1>6 DEF Shown, Addressed
<1>8. /\ i \notin DOMAIN Shown
      /\ (links \cup trash)' = (links \cup trash) \cup {<<f, i>>}
  BY <1>1, <1>3 DEF Shown
<1> QED BY <1>1, <1>4, <1>7, <1>8 DEF Promise!Store, Promise!Put, Shown, i, f, to

(* A link of a receiver is a delivery, unless his name leads to the folder *)
(* of the mails.                                                           *)
LEMMA ReceiverGets ==
  ASSUME MailInv, Calm, ~Fault, NoRepeats, LinksToCome,
         NEW t \in Threads, LinkReceiver(t)
  PROVE  Promise!Deliver(Home[Head(req[t].todo)], req[t].id) \/ Hidden
<1> DEFINE i == req[t].id
           r == Head(req[t].todo)
<1>1. /\ pc[t] = "link" /\ req[t].todo # <<>>
      /\ links' = Linked(r, i)
      /\ mails' = mails /\ trash' = trash
  BY DEF LinkReceiver, CallThrows, history
<1>2. /\ i \in DOMAIN mails /\ IsOf(t) /\ Reached(SentFolder(Me(t)), i)
      /\ ToSet(req[t].todo) \subseteq ToSet(req[t].receivers)
  BY <1>1 DEF MailInv, SendIsOnItsWay, HasId, Sending, Calm
<1>3. r \in ToSet(req[t].todo) /\ 1 \in DOMAIN req[t].todo /\ r = req[t].todo[1]
  BY <1>1, HeadTail DEF MailInv, TypeOK, Request
<1>4. <<Home[r], i>> \notin links \cup trash
  BY <1>1, <1>3 DEF LinksToCome, StillToLink, Sending, Calm
<1>5. i \in Visible
  BY <1>2, FolderFacts DEF Visible, IsOf, Reached
<1>6. CASE Home[r] = MailFolder
  BY <1>1, <1>6 DEF Linked, Hidden, Shown, Visible
<1>7. CASE Home[r] # MailFolder
  <2>1. links' = links \cup {<<Home[r], i>>}
    BY <1>1, <1>7 DEF Linked
  <2>2. (links \cup trash)' = (links \cup trash) \cup {<<Home[r], i>>}
    BY <1>1, <2>1
  <2>3. \A id \in DOMAIN mails :
          <<SentFolder(mails[id].sender), id>> \in (links \cup trash)'
            <=> <<SentFolder(mails[id].sender), id>> \in links \cup trash
    <3> SUFFICES ASSUME NEW id \in DOMAIN mails,
                        <<SentFolder(mails[id].sender), id>> = <<Home[r], i>>
                 PROVE  <<SentFolder(mails[id].sender), id>> \in links \cup trash
      BY <2>2
    <3> QED BY <1>5 DEF Visible
  <2>4. Shown' = Shown
    BY <1>1, <2>3 DEF Shown, Visible
  <2>5. Home[r] \in Shown[i]
    BY <1>2, <1>3, <1>5 DEF Shown, IsOf, Addressed
  <2> QED BY <1>4, <1>5, <2>1, <2>2, <2>4, <2>5 DEF Promise!Deliver, Promise!Put, Shown
<1> QED BY <1>6, <1>7

(* Removing a link of a folder, or one that is gone already.               *)
LEMMA RemovalRemoves ==
  ASSUME MailInv, Calm, NEW t \in Threads, RemoveLink(t)
  PROVE  Promise!Remove(Home[Me(t)], req[t].id) \/ Hidden
<1> DEFINE p == <<Home[Me(t)], req[t].id>>
<1>1. /\ pc[t] = "remove"
      /\ links' = links \ {p} /\ trash' = trash \cup {p}
      /\ mails' = mails
  BY DEF RemoveLink
<1>2. p \in links \cup trash
  BY <1>1 DEF MailInv, OthersUseLinks, Calm
<1>3. (links \cup trash)' = links \cup trash
  BY <1>1, <1>2
<1>4. Shown' = Shown
  BY <1>1, <1>3 DEF Shown, Visible
<1>5. CASE p \in links
  BY <1>1, <1>3, <1>4, <1>5 DEF Promise!Remove, Shown
<1>6. CASE p \notin links
  BY <1>1, <1>3, <1>4, <1>6 DEF Hidden
<1> QED BY <1>5, <1>6

LEMMA StepPromised ==
  ASSUME MaxFaults = 0, NoRepeats, NoIntruder, MailInv, Calm, LinksToCome, [Next]_vars
  PROVE  Promise!Next \/ Hidden
<1>1. ~Fault
  BY CalmStep DEF MailInv
<1>2. ASSUME NEW t \in Threads, OpenMail(t) \/ WriteMail(t) PROVE Hidden
  BY <1>2, FileIsHidden
<1>3. ASSUME NEW t \in Threads, LinkSender(t) PROVE Promise!Next
  <2> DEFINE to == {Home[name] : name \in ToSet(req[t].receivers)}
  <2>1. req[t].id \in Ids /\ SentFolder(Me(t)) \in Folders
    BY <1>3, FolderFacts DEF LinkSender, MailInv, RequestIsSet, HasId, Sending
  <2>2. req[t].receivers \in Seq(Names)
    BY DEF MailInv, TypeOK, Request
  <2>3. to \in SUBSET Folders
    BY <2>2, FolderFacts DEF ToSet
  <2>4. Promise!Store(req[t].id, SentFolder(Me(t)), to)
    BY <1>1, <1>3, SenderStores
  <2> HIDE DEF to
  <2>5. \E id \in Ids, f \in Folders : \E g \in SUBSET Folders : Promise!Store(id, f, g)
    BY <2>1, <2>3, <2>4
  <2> QED BY <2>5 DEF Promise!Next
<1>4. ASSUME NEW t \in Threads, LinkReceiver(t) PROVE Promise!Next \/ Hidden
  <2>1. /\ req[t].id \in Ids /\ req[t].todo \in Seq(Names)
        /\ req[t].todo # <<>>
    BY <1>4
    DEF LinkReceiver, MailInv, RequestIsSet, HasId, Sending, TypeOK, Request
  <2>2. Home[Head(req[t].todo)] \in Folders
    BY <2>1, FolderFacts
  <2>3. CASE Promise!Deliver(Home[Head(req[t].todo)], req[t].id)
    BY <2>1, <2>2, <2>3 DEF Promise!Next
  <2> QED BY <1>1, <1>4, <2>3, ReceiverGets
<1>5. ASSUME NEW t \in Threads, RemoveLink(t) PROVE Promise!Next \/ Hidden
  <2>1. req[t].id \in Ids /\ Home[Me(t)] \in Folders
    BY <1>5, FolderFacts DEF RemoveLink, MailInv, RequestIsSet, Sending
  <2>2. CASE Promise!Remove(Home[Me(t)], req[t].id)
    BY <2>1, <2>2 DEF Promise!Next
  <2> QED BY <1>5, <2>2, RemovalRemoves
<1>6. \A t \in Threads : ~ RemoveFile(t)
  BY DEF RemoveFile, MailInv, OthersUseLinks, Calm
<1>7. ASSUME \A t \in Threads :
               /\ ~OpenMail(t) /\ ~WriteMail(t) /\ ~LinkSender(t)
               /\ ~LinkReceiver(t) /\ ~RemoveLink(t)
      PROVE  Hidden
  <2>1. UNCHANGED <<mails, links, trash>>
    BY <1>6, <1>7
    DEF Next, Serve, Send, List, Read, Del, DrawId, DrawTogether, ReplySent,
        OpenDirectory, NextEntry, ReadMail, ReplyList, CheckLink, RemoveFails,
        Kill, Start, vars, spool, history
  <2> QED BY <2>1 DEF Hidden, Shown, Visible, Addressed
<1> QED BY <1>2, <1>3, <1>4, <1>5, <1>7

LEMMA InitPromised == Init => Promise!Init
<1> SUFFICES ASSUME Init PROVE Promise!Init
  OBVIOUS
<1>1. Visible = {} BY DEF Init, Visible
<1> QED BY <1>1 DEF Init, Promise!Init

(* While calls do not fail, for SENDs whose names lead to different        *)
(* folders, and when no session has the folder of the mails, the spool     *)
(* implements MailStore: mail is stored for good, reaches each folder it   *)
(* is meant for at most once and does not come back when it is removed.    *)
THEOREM Promised ==
  ASSUME MaxFaults = 0, NoRepeats, NoIntruder
  PROVE  Spec => RefinesMailStore
<1>1. Init => MailInv /\ Calm /\ LinksToCome
  BY Initially, InitLinks DEF Init, Calm, Sound
<1>2. MailInv /\ Calm /\ LinksToCome /\ [Next]_vars
        => MailInv' /\ Calm' /\ LinksToCome'
  <2> SUFFICES ASSUME MailInv, Calm, LinksToCome, [Next]_vars
               PROVE  MailInv' /\ Calm' /\ LinksToCome'
    OBVIOUS
  <2>1. MailInv' /\ Calm'
    BY Preserved, CalmStep DEF MailInv
  <2>2. Sound /\ Sound'
    BY <2>1 DEF Calm
  <2> QED BY <2>1, <2>2, LinksStep DEF LinksToCome, NoRepeats
<1>3. MailInv /\ Calm /\ LinksToCome /\ [Next]_vars
        => [Promise!Next]_<<[id \in Visible |-> Addressed(mails[id])],
                            links, links \cup trash>>
  BY StepPromised DEF Hidden, Shown
<1> QED BY <1>1, <1>2, <1>3, InitPromised, PTL
        DEF Spec, RefinesMailStore, Promise!Spec

=============================================================================
