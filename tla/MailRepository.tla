--------------------------- MODULE MailRepository ---------------------------
(***************************************************************************)
(* The mail spool of the TWMailer server: persistence/mailRepository.hpp   *)
(* and the requests that use it (requests/sendRequest, listRequest,        *)
(* listSentRequest, readRequest, deleteRequest).                           *)
(*                                                                         *)
(* A mail is one file; every receiver, and the sender, has a symbolic link *)
(* to it.  The connection threads share the file system without any lock,  *)
(* so an action below is one access to it.  The process may be killed      *)
(* between any two actions; it also ends itself, on a file that its key    *)
(* does not open, on a text that is no UTF-8, and when a call throws.  It  *)
(* is started again over the same spool, possibly with another --key.      *)
(*                                                                         *)
(* Names are pasted into paths as they come: "bob/sent" is the folder of   *)
(* what bob has sent, and "../mails" the one of the mail files.            *)
(***************************************************************************)
EXTENDS Naturals, Sequences, SequencesExt, FiniteSets

CONSTANTS
  Threads,        \* the connection threads
  Names,          \* the names mail is sent to, each cut at its slashes
  Users,          \* those of them that sessions have
  Ids,            \* the UUIDs the generator yields
  Keys,           \* keys of 16 characters
  ShortKeys,      \* other values of --key
  None,           \* no key, and the fields a request does not use
  Posts,          \* the SEND requests: a sender and the list of his receivers
  GeneratorRace,  \* TRUE: racing draws may yield the same UUID
  MaxFaults,      \* bound on the failing calls to the file system and on such draws
  MaxStarts       \* bound on the number of times the process is started

ASSUME MailConstants ==
  /\ Users \subseteq Names
  /\ Posts \subseteq Users \X Seq(Names)
  /\ None \notin Keys \cup ShortKeys \cup Names \cup Ids
  /\ Keys \cap ShortKeys = {}
  /\ GeneratorRace \in BOOLEAN
  /\ MaxFaults \in Nat /\ MaxStarts \in Nat

VARIABLES
  mails,    \* the files under mails/, a function on the ids that have one
  links,    \* the links <folder>/<id>.json, as pairs <<folder, id>>
  server,   \* "up", "killed", "exited" (ended itself on a file or a failing
            \* call) or "choked" (ended itself on the text of a SEND)
  option,   \* the --key it was started with
  pc,       \* per thread: the next access to the file system
  req,      \* per thread: the request it serves
  drawn,    \* history: the ids drawn so far
  posted,   \* history: the ids of the mails whose SEND was answered OK
  trash,    \* history: what DELs answered OK have removed, as such pairs
  raced,    \* history: the generator has yielded an id twice
  intruded, \* history: a session has used the folder of the mail files as its own
  faults,   \* how many calls have failed
  starts    \* how often the process was started

spool   == <<mails, links>>
history == <<drawn, posted, trash, raced, intruded>>
life    == <<server, option, faults, starts>>
vars    == <<spool, life, pc, req, history>>

-----------------------------------------------------------------------------

(* A folder is the folder it is in, and its name there.                    *)
UsersFolder == <<<<>>, "users">>
MailFolder  == <<<<>>, "mails">>

(* Where a part of a path leads from a folder.                             *)
Down(folder, part) ==
  CASE part \in {"", "."} -> folder
    [] part = ".." /\ folder # <<>> /\ folder[2] # ".." -> folder[1]
    [] OTHER -> <<folder, part>>

(* getUserPath(): nobody looks at what a name has between its slashes.     *)
Home == [name \in Names |-> FoldLeft(Down, UsersFolder, name)]

SentFolder(name) == <<Home[name], "sent">>

Folders == {Home[name] : name \in Names} \cup {SentFolder(name) : name \in Users}

Options == Keys \cup ShortKeys \cup {None}

(* setKey() logs an error and returns for a key that is not 16 characters  *)
(* long: the server then runs without encryption.                          *)
Key == IF option \in Keys THEN option ELSE None

Mail == [state : {"torn", "complete"}, sender : Users,
         receivers : Seq(Names), key : Keys \cup {None}]

(* The local variables of the functions that serve a request.              *)
Request == [user : Users \cup {None}, receivers : Seq(Names),
            todo : Seq(Names), id : Ids \cup {None},
            folder : Folders \cup {None},
            dir : SUBSET Ids, seen : SUBSET Ids]

Blank == [user |-> None, receivers |-> <<>>, todo |-> <<>>, id |-> None,
          folder |-> None, dir |-> {}, seen |-> {}]

Sending == {"draw", "open", "write", "linkSender", "link"}
Steps   == Sending \cup {"idle", "list", "entry", "read", "check", "remove"}

TypeOK ==
  /\ DOMAIN mails \subseteq Ids /\ mails \in [DOMAIN mails -> Mail]
  /\ links \subseteq Folders \X Ids
  /\ server \in {"up", "killed", "exited", "choked"} /\ option \in Options
  /\ pc \in [Threads -> Steps] /\ req \in [Threads -> Request]
  /\ drawn \subseteq Ids /\ posted \subseteq Ids
  /\ trash \subseteq Folders \X Ids
  /\ raced \in BOOLEAN /\ intruded \in BOOLEAN
  /\ faults \in Nat /\ starts \in Nat

Me(t) == req[t].user

(* The ids of the entries of a folder.                                     *)
Holds(folder) ==
  IF folder = MailFolder THEN DOMAIN mails
  ELSE {id \in Ids : <<folder, id>> \in links}

(* The ids that a client can have read in a list.                          *)
Listed ==
  {id \in Ids : \/ \E f \in Folders : <<f, id>> \in links \cup trash
                \/ intruded /\ id \in DOMAIN mails}

Begin(t, step, r) ==
  /\ server = "up" /\ pc[t] = "idle"
  /\ pc' = [pc EXCEPT ![t] = step]
  /\ req' = [req EXCEPT ![t] = r]

Goto(t, step) == pc' = [pc EXCEPT ![t] = step]

Return(t) == Goto(t, "idle") /\ req' = [req EXCEPT ![t] = Blank]

(* All threads end with the process.                                       *)
Die(how) ==
  /\ server' = how
  /\ pc' = [t \in Threads |-> "idle"]
  /\ req' = [t \in Threads |-> Blank]

Mishaps == IF raced THEN faults + 1 ELSE faults

Fault == Mishaps < MaxFaults /\ faults' = faults + 1

(* A call that throws where nothing catches it.                            *)
CallThrows == Fault /\ Die("exited")

-----------------------------------------------------------------------------
(* SEND: addMail() and saveMail().  The reply is OK whatever happened to   *)
(* the file and the links: neither the state of the stream nor the error   *)
(* code of create_symlink is looked at.                                    *)

(* generate_uuid_v4(): the ids it has not yielded yet.                     *)
Fresh == Ids \ drawn

(* The bound on the mails of a run: every SEND finds an id to draw.        *)
IdsLeft == Cardinality(Fresh) > Cardinality({t \in Threads : pc[t] = "draw"})

Send(t) ==
  /\ IdsLeft
  /\ \E p \in Posts :
       Begin(t, "draw", [Blank EXCEPT !.user = p[1], !.receivers = p[2], !.todo = p[2]])
  /\ UNCHANGED <<spool, life, history>>

(* Mutant: ids that are not unique, as a time stamp would be.              *)
DrawId_Reused(t) ==
  /\ pc[t] = "draw"
  /\ \E id \in Ids :
       /\ req' = [req EXCEPT ![t].id = id]
       /\ drawn' = drawn \cup {id}
  /\ Goto(t, "open")
  /\ UNCHANGED <<spool, life, posted, trash, raced, intruded>>

DrawId(t) ==
  /\ pc[t] = "draw"
  /\ \E id \in Fresh :
       /\ req' = [req EXCEPT ![t].id = id]
       /\ drawn' = drawn \cup {id}
  /\ Goto(t, "open")
  /\ UNCHANGED <<spool, life, posted, trash, raced, intruded>>

(* All threads draw from one Mersenne twister, without a lock.             *)
DrawTogether(t, u) ==
  /\ GeneratorRace /\ Mishaps < MaxFaults
  /\ t # u /\ pc[t] = "draw" /\ pc[u] = "draw"
  /\ \E id \in Fresh :
       /\ req' = [req EXCEPT ![t].id = id, ![u].id = id]
       /\ drawn' = drawn \cup {id}
  /\ pc' = [pc EXCEPT ![t] = "open", ![u] = "open"]
  /\ raced' = TRUE
  /\ UNCHANGED <<spool, life, posted, trash, intruded>>

(* Mutant: the mail is made when the sender is not known any more.         *)
Saved_Anonymous(t, state) ==
  [id \in DOMAIN mails \cup {req[t].id} |->
     IF id = req[t].id
     THEN [state |-> state, sender |-> None,
           receivers |-> req[t].receivers, key |-> Key]
     ELSE mails[id]]

(* The table of files with one more, or one overwritten.                   *)
Saved(t, state) ==
  [id \in DOMAIN mails \cup {req[t].id} |->
     IF id = req[t].id
     THEN [state |-> state, sender |-> Me(t),
           receivers |-> req[t].receivers, key |-> Key]
     ELSE mails[id]]

(* Mutant: the links are made while the text is still in the stream's      *)
(* buffer.                                                                 *)
OpenMail_Unflushed(t) ==
  /\ pc[t] = "open"
  /\ mails' = Saved(t, "torn") /\ Goto(t, "linkSender")
  /\ UNCHANGED <<links, life, req, history>>

(* Before the file is opened the mail is made a text, which throws when    *)
(* what the client sent is no UTF-8.                                       *)
OpenMail(t) ==
  /\ pc[t] = "open"
  /\ \/ /\ \/ mails' = Saved(t, "torn") /\ Goto(t, "write") /\ UNCHANGED faults
           \/ Fault /\ Goto(t, "linkSender") /\ UNCHANGED mails
        /\ UNCHANGED <<server, req>>
     \/ Die("choked") /\ UNCHANGED <<mails, faults>>
  /\ UNCHANGED <<links, option, starts, history>>

(* The text reaches the file when the stream is closed, unless the file    *)
(* has been removed in the meantime.                                       *)
WriteMail(t) ==
  /\ pc[t] = "write"
  /\ \/ /\ mails' = IF req[t].id \in DOMAIN mails THEN Saved(t, "complete") ELSE mails
        /\ UNCHANGED faults
     \/ Fault /\ UNCHANGED mails
  /\ Goto(t, "linkSender")
  /\ UNCHANGED <<links, server, option, starts, req, history>>

(* Mutant: the receivers are linked even when the sender is not.           *)
LinkSender_Forgotten(t) ==
  /\ pc[t] = "linkSender"
  /\ Goto(t, "link")
  /\ UNCHANGED <<spool, life, req, history>>

(* create_directories throws when it fails; create_symlink does not.       *)
LinkSender(t) ==
  /\ pc[t] = "linkSender"
  /\ \/ /\ \/ /\ links' = links \cup {<<SentFolder(Me(t)), req[t].id>>}
              /\ UNCHANGED faults
           \/ Fault /\ UNCHANGED links
        /\ Goto(t, "link")
        /\ UNCHANGED <<server, req>>
     \/ CallThrows /\ UNCHANGED links
  /\ UNCHANGED <<mails, option, starts, history>>

(* A link is not made where a file has its name: in the folder of the      *)
(* mails that is the mail itself.                                          *)
Linked(name, id) ==
  IF Home[name] = MailFolder THEN links ELSE links \cup {<<Home[name], id>>}

(* Mutant: the loop over the receivers misses the last one.                *)
LinkReceiver_AllButLast(t) ==
  /\ pc[t] = "link" /\ req[t].todo # <<>>
  /\ links' = IF Len(req[t].todo) = 1 THEN links
              ELSE Linked(Head(req[t].todo), req[t].id)
  /\ req' = [req EXCEPT ![t].todo = Tail(@)]
  /\ UNCHANGED <<mails, life, pc, history>>

(* Mutant: the loop over the receivers stays at the first one.             *)
LinkReceiver_Stuck(t) ==
  /\ pc[t] = "link" /\ req[t].todo # <<>>
  /\ links' = Linked(Head(req[t].todo), req[t].id)
  /\ UNCHANGED <<mails, life, pc, req, history>>

LinkReceiver(t) ==
  /\ pc[t] = "link" /\ req[t].todo # <<>>
  /\ \/ /\ \/ links' = Linked(Head(req[t].todo), req[t].id) /\ UNCHANGED faults
           \/ Fault /\ UNCHANGED links
        /\ req' = [req EXCEPT ![t].todo = Tail(@)]
        /\ UNCHANGED <<server, pc>>
     \/ CallThrows /\ UNCHANGED links
  /\ UNCHANGED <<mails, option, starts, history>>

ReplySent(t) ==
  /\ pc[t] = "link" /\ req[t].todo = <<>>
  /\ posted' = posted \cup {req[t].id}
  /\ Return(t)
  /\ UNCHANGED <<spool, life, drawn, trash, raced, intruded>>

-----------------------------------------------------------------------------
(* LIST, LIST_SENT and READ.                                               *)

(* getMail(): "absent" throws FileNotFoundException; "wrong" ends the      *)
(* process, by quick_exit or by an exception that only a handler for       *)
(* out_of_range waits for.                                                 *)
GetMail(id) ==
  IF id \notin DOMAIN mails THEN "absent"
  ELSE IF mails[id].state = "complete" /\ mails[id].key = Key THEN "ok"
  ELSE "wrong"

List(t) ==
  /\ \E u \in Users : \E f \in {Home[u], SentFolder(u)} :
       /\ Begin(t, "list", [Blank EXCEPT !.user = u, !.folder = f])
       /\ intruded' = (intruded \/ f = MailFolder)
  /\ UNCHANGED <<spool, life, drawn, posted, trash, raced>>

OpenDirectory(t) ==
  /\ pc[t] = "list"
  /\ \/ /\ req' = [req EXCEPT ![t].dir = Holds(req[t].folder)]
        /\ Goto(t, "entry")
        /\ UNCHANGED <<server, faults>>
     \/ CallThrows
  /\ UNCHANGED <<spool, option, starts, history>>

(* An entry that is made or removed while the directory is read may or may *)
(* not be returned.                                                        *)
NextEntry(t) ==
  /\ pc[t] = "entry"
  /\ \/ /\ \E id \in (req[t].dir \cup Holds(req[t].folder)) \ req[t].seen :
             IF GetMail(id) = "wrong"
             THEN Die("exited")
             ELSE /\ req' = [req EXCEPT ![t].seen = @ \cup {id}]
                  /\ UNCHANGED <<server, pc>>
        /\ UNCHANGED faults
     \/ CallThrows
  /\ UNCHANGED <<spool, option, starts, history>>

ReplyList(t) ==
  /\ pc[t] = "entry"
  /\ req[t].dir \cap Holds(req[t].folder) \subseteq req[t].seen
  /\ Return(t)
  /\ UNCHANGED <<spool, life, history>>

Read(t) ==
  /\ \E id \in Listed : Begin(t, "read", [Blank EXCEPT !.id = id])
  /\ UNCHANGED <<spool, life, history>>

(* Absent: ERR.  That a file is removed between the test that it exists    *)
(* and the reading is a case of RemoveFile; a file that cannot be opened   *)
(* reads as an empty text, on which the process ends itself.               *)
ReadMail(t) ==
  /\ pc[t] = "read"
  /\ \/ /\ IF GetMail(req[t].id) = "wrong"
           THEN Die("exited")
           ELSE Return(t) /\ UNCHANGED server
        /\ UNCHANGED faults
     \/ CallThrows
  /\ UNCHANGED <<spool, option, starts, history>>

-----------------------------------------------------------------------------
(* DEL: the link is tested, then removed; removing what is gone is no      *)
(* error, and a removal that fails is answered ERR.                        *)

Del(t) ==
  /\ \E u \in Users, id \in Listed :
       /\ Begin(t, "check", [Blank EXCEPT !.user = u, !.id = id])
       /\ intruded' = (intruded \/ Home[u] = MailFolder)
  /\ UNCHANGED <<spool, life, drawn, posted, trash, raced>>

(* The test is outside the try block.                                      *)
CheckLink(t) ==
  /\ pc[t] = "check"
  /\ \/ /\ IF req[t].id \in Holds(Home[Me(t)]) \cap DOMAIN mails
           THEN Goto(t, "remove") /\ UNCHANGED req
           ELSE Return(t)
        /\ UNCHANGED <<server, faults>>
     \/ CallThrows
  /\ UNCHANGED <<spool, option, starts, history>>

Removed(id) == [i \in DOMAIN mails \ {id} |-> mails[i]]

(* Mutant: DEL removes the mail itself along with the link.                *)
RemoveLink_AndMail(t) ==
  /\ pc[t] = "remove"
  /\ links' = links \ {<<Home[Me(t)], req[t].id>>}
  /\ trash' = trash \cup {<<Home[Me(t)], req[t].id>>}
  /\ mails' = Removed(req[t].id)
  /\ Return(t)
  /\ UNCHANGED <<life, drawn, posted, raced, intruded>>

RemoveLink(t) ==
  /\ pc[t] = "remove" /\ Home[Me(t)] # MailFolder
  /\ links' = links \ {<<Home[Me(t)], req[t].id>>}
  /\ trash' = trash \cup {<<Home[Me(t)], req[t].id>>}
  /\ Return(t)
  /\ UNCHANGED <<mails, life, drawn, posted, raced, intruded>>

(* In the folder of the mails the path is that of the mail itself.  A      *)
(* thread that has found the file to exist and not yet opened it reads an  *)
(* empty text.                                                             *)
RemoveFile(t) ==
  /\ pc[t] = "remove" /\ Home[Me(t)] = MailFolder
  /\ mails' = Removed(req[t].id)
  /\ trash' = trash \cup {<<MailFolder, req[t].id>>}
  /\ \/ Return(t) /\ UNCHANGED server
     \/ /\ \E u \in Threads :
             \/ pc[u] = "entry" /\ req[t].id \in req[u].dir \ req[u].seen
             \/ pc[u] = "read" /\ req[u].id = req[t].id
        /\ Die("exited")
  /\ UNCHANGED <<links, option, faults, starts, drawn, posted, raced, intruded>>

RemoveFails(t) ==
  /\ pc[t] = "remove" /\ Fault
  /\ Return(t)
  /\ UNCHANGED <<spool, server, option, starts, history>>

-----------------------------------------------------------------------------
(* The life of the process.                                                *)

Kill ==
  /\ server = "up" /\ Die("killed")
  /\ UNCHANGED <<spool, option, faults, starts, history>>

Start ==
  /\ server # "up" /\ starts < MaxStarts
  /\ server' = "up" /\ option' \in Options /\ starts' = starts + 1
  /\ UNCHANGED <<spool, faults, pc, req, history>>

Init ==
  /\ mails = [id \in {} |-> {}] /\ links = {}
  /\ server = "killed" /\ option = None
  /\ pc = [t \in Threads |-> "idle"]
  /\ req = [t \in Threads |-> Blank]
  /\ drawn = {} /\ posted = {} /\ trash = {}
  /\ raced = FALSE /\ intruded = FALSE
  /\ faults = 0 /\ starts = 0

(* The steps of a request that has been read from the connection.          *)
Serve(t) ==
  \/ DrawId(t) \/ (\E u \in Threads : DrawTogether(t, u))
  \/ OpenMail(t) \/ WriteMail(t) \/ LinkSender(t) \/ LinkReceiver(t)
  \/ ReplySent(t)
  \/ OpenDirectory(t) \/ NextEntry(t) \/ ReplyList(t) \/ ReadMail(t)
  \/ CheckLink(t) \/ RemoveLink(t) \/ RemoveFile(t) \/ RemoveFails(t)

Next ==
  \/ \E t \in Threads : Send(t) \/ List(t) \/ Read(t) \/ Del(t) \/ Serve(t)
  \/ Kill \/ Start

Spec == Init /\ [][Next]_vars

(* A thread that serves a request keeps running.                           *)
FairSpec == Spec /\ \A t \in Threads : WF_vars(Serve(t))

-----------------------------------------------------------------------------
(* Properties.  Some promises hold only as long as the spool is Sound: the *)
(* generator has yielded distinct ids, and no session has a name that      *)
(* makes the folder of the mails its own.  Calm: besides, the file system  *)
(* has served every call.                                                  *)

Sound == ~raced /\ ~intruded
Calm  == Sound /\ faults = 0

(* A mail that a user can see in one of his folders is there as a whole:   *)
(* addMail() makes the links when the file is closed, so no crash and no   *)
(* other thread shows half of a mail.                                      *)
LinkedMailIsComplete ==
  Calm => \A p \in links : p[2] \in DOMAIN mails /\ mails[p[2]].state = "complete"

(* The folders a mail is meant for.                                        *)
Addressed(mail) ==
  {SentFolder(mail.sender)} \cup {Home[name] : name \in ToSet(mail.receivers)}

(* A mail has never been in another folder than its sender's sent folder   *)
(* and those its receivers' names lead to, whatever fails; and what was in *)
(* any folder was in the sent folder of the one who sent it.  The name     *)
(* "bob/sent" leads to what bob has sent: getUserPath() does not mind.     *)
DeliveredAsPosted ==
  Sound =>
    \A p \in links \cup trash :
      p[2] \in DOMAIN mails =>
        /\ p[1] \in Addressed(mails[p[2]])
        /\ faults = 0 => <<SentFolder(mails[p[2]].sender), p[2]>> \in links \cup trash

(* A mail has a link in this folder, or had one; the folder of the mails   *)
(* needs none.                                                             *)
Reached(folder, id) == folder = MailFolder \/ <<folder, id>> \in links \cup trash

(* An OK to SEND means that the mail is in the sent folder of its sender   *)
(* and in the folder of every receiver, unless a DEL has taken it out of   *)
(* there, whatever crashes have happened since.                            *)
OkMeansDelivered ==
  Calm => \A id \in posted :
            /\ id \in DOMAIN mails
            /\ Reached(SentFolder(mails[id].sender), id)
            /\ \A name \in ToSet(mails[id].receivers) : Reached(Home[name], id)

(* Apart from a SEND whose text is no UTF-8, which ends it as "choked",    *)
(* the server ends itself only over a mail of a folder that was stored     *)
(* under another key; getMail() never trips over a mail of its own.        *)
DiesOnlyOnForeignMail ==
  Calm /\ server = "exited" =>
    \E p \in links \cup trash :
      p[2] \in DOMAIN mails /\ mails[p[2]].key # Key

(* A mail once stored is never changed or removed, as long as no session   *)
(* has the mails' own folder: deleting takes away a link, and a new mail   *)
(* never takes the file of an old one.                                     *)
MailIsForever ==
  [][Sound => \A id \in DOMAIN mails :
       mails[id].state = "complete" =>
         id \in DOMAIN mails' /\ mails'[id] = mails[id]]_vars

(* Every request is served to its end or dies with the process: no reply   *)
(* waits for another connection, and the loops over receivers and          *)
(* directories end although other threads change the directory.            *)
RequestIsServed == \A t \in Threads : pc[t] # "idle" ~> pc[t] = "idle"

-----------------------------------------------------------------------------
(* The inductive invariant behind these properties.                        *)

HasId(t) == pc[t] \in Sending \ {"draw"}

(* The locals that a step will use have been set.                          *)
RequestIsSet ==
  \A t \in Threads :
    /\ pc[t] \in Sending \cup {"check", "remove"} => Me(t) \in Users
    /\ HasId(t) \/ pc[t] \in {"check", "remove"} => req[t].id \in Ids

(* Nothing carries an id that has not been drawn.                          *)
IdsAreDrawn ==
  /\ DOMAIN mails \subseteq drawn
  /\ posted \subseteq drawn
  /\ Listed \subseteq drawn
  /\ \A t \in Threads : HasId(t) => req[t].id \in drawn \ posted

IdsDiffer ==
  \A t, u \in Threads :
    t # u /\ HasId(t) /\ HasId(u) => req[t].id # req[u].id

IsOf(t) ==
  /\ mails[req[t].id].sender = Me(t)
  /\ mails[req[t].id].receivers = req[t].receivers

(* How far the SEND of a thread has come: the file belongs to it, no link  *)
(* shows it before the file is closed, and who has no link yet is still to *)
(* do.                                                                     *)
SendIsOnItsWay(t) ==
  /\ pc[t] \in Sending \ {"link"} => req[t].todo = req[t].receivers
  /\ HasId(t) /\ pc[t] # "link" => req[t].id \notin Listed
  /\ pc[t] = "open" => req[t].id \notin DOMAIN mails
  /\ pc[t] = "write" =>
       req[t].id \in DOMAIN mails /\ mails[req[t].id].state = "torn"
  /\ HasId(t) /\ req[t].id \in DOMAIN mails => IsOf(t)
  /\ pc[t] = "link" => ToSet(req[t].todo) \subseteq ToSet(req[t].receivers)
  /\ pc[t] \in {"linkSender", "link"} /\ faults = 0 =>
       req[t].id \in DOMAIN mails /\ mails[req[t].id].state = "complete"
  /\ pc[t] = "link" /\ faults = 0 =>
       /\ Reached(SentFolder(Me(t)), req[t].id)
       /\ \A name \in ToSet(req[t].receivers) \ ToSet(req[t].todo) :
            Reached(Home[name], req[t].id)

(* LIST, READ and DEL work on mails that have been in a folder.            *)
OthersUseLinks(t) ==
  /\ pc[t] \in {"list", "entry"} => req[t].folder # MailFolder
  /\ pc[t] = "entry" => req[t].dir \subseteq Listed
  /\ pc[t] = "read" => req[t].id \in Listed
  /\ pc[t] \in {"check", "remove"} => Home[Me(t)] # MailFolder
  /\ pc[t] = "remove" => <<Home[Me(t)], req[t].id>> \in links \cup trash

ListedMailIsComplete ==
  faults = 0 =>
    \A id \in Listed : id \in DOMAIN mails /\ mails[id].state = "complete"

DeadThreadsAreIdle == server # "up" => \A t \in Threads : pc[t] = "idle"

(* The names lead to different folders, none of them the sender's own sent *)
(* folder.                                                                 *)
OncePerFolder(sender, names) ==
  /\ \A i, j \in DOMAIN names : Home[names[i]] = Home[names[j]] => i = j
  /\ \A i \in DOMAIN names : Home[names[i]] # SentFolder(sender)

NoRepeats == \A p \in Posts : OncePerFolder(p[1], p[2])

StillToLink(t) ==
  pc[t] \in Sending =>
    /\ OncePerFolder(Me(t), req[t].todo)
    /\ pc[t] = "link" => \A i \in DOMAIN req[t].todo :
                          <<Home[req[t].todo[i]], req[t].id>> \notin links \cup trash

(* A receiver whose link is still to be made has never had one: he gets a  *)
(* mail once, however the SENDs and DELs of all threads interleave, unless *)
(* two of its names lead to one folder or ids clash.                       *)
LinksToCome == Sound /\ NoRepeats => \A t \in Threads : StillToLink(t)

(* The spool and the threads in the middle of their requests agree at      *)
(* every access, under failing calls and crashes alike.                    *)
MailInv ==
  /\ TypeOK
  /\ RequestIsSet
  /\ DeadThreadsAreIdle
  /\ Sound =>
       /\ IdsAreDrawn
       /\ IdsDiffer
       /\ \A t \in Threads : SendIsOnItsWay(t) /\ OthersUseLinks(t)
       /\ ListedMailIsComplete
       /\ DeliveredAsPosted
       /\ OkMeansDelivered
       /\ DiesOnlyOnForeignMail

-----------------------------------------------------------------------------
(* What a spool promises to its users, refined by the files and the links: *)
(* a mail comes to exist for them with its first link, in the sent folder. *)
Visible ==
  {id \in DOMAIN mails : <<SentFolder(mails[id].sender), id>> \in links \cup trash}

Promise == INSTANCE MailStore WITH
  stored    <- [id \in Visible |-> Addressed(mails[id])],
  box       <- links,
  delivered <- links \cup trash

(* The spool implements MailStore step by step, over crashes and restarts, *)
(* as long as no two names of a SEND lead to one folder and no session has *)
(* the folder of the mails.                                                *)
RefinesMailStore == Promise!Spec

=============================================================================
