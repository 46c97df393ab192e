----------------------------- MODULE MailStore -----------------------------
(***************************************************************************)
(* What a mail spool promises to its users: a mail that has been stored    *)
(* stays, it reaches each folder it is meant for at most once, its         *)
(* sender's first, and what was removed from a folder does not come back.  *)
(***************************************************************************)
CONSTANTS Folders, Ids

VARIABLES
  stored,     \* the mails, a function from ids to the folders they are for
  box,        \* pairs <<folder, id>>: the mails in the folders
  delivered   \* pairs <<folder, id>>: those that ever reached one

Init ==
  /\ stored = [id \in {} |-> {}]
  /\ box = {}
  /\ delivered = {}

Put(folder, id) ==
  /\ <<folder, id>> \notin delivered
  /\ box' = box \cup {<<folder, id>>}
  /\ delivered' = delivered \cup {<<folder, id>>}

(* The mail appears in the folder of what its sender has sent.             *)
Store(id, from, to) ==
  /\ id \notin DOMAIN stored
  /\ stored' = [i \in DOMAIN stored \cup {id} |->
                  IF i = id THEN {from} \cup to ELSE stored[i]]
  /\ Put(from, id)

Deliver(folder, id) ==
  /\ id \in DOMAIN stored
  /\ folder \in stored[id]
  /\ Put(folder, id)
  /\ UNCHANGED stored

Remove(folder, id) ==
  /\ <<folder, id>> \in box
  /\ box' = box \ {<<folder, id>>}
  /\ UNCHANGED <<stored, delivered>>

Next ==
  \E id \in Ids, folder \in Folders :
    \/ \E to \in SUBSET Folders : Store(id, folder, to)
    \/ Deliver(folder, id)
    \/ Remove(folder, id)

Spec == Init /\ [][Next]_<<stored, box, delivered>>

=============================================================================
