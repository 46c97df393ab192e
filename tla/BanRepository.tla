--------------------------- MODULE BanRepository ---------------------------
(***************************************************************************)
(* The ban list of the TWMailer server: persistence/banRepository.hpp and  *)
(* persistence/entities/banTableEntry.hpp.                                 *)
(*                                                                         *)
(* One BanRepository object is shared by all connection threads.           *)
(* addFailed() takes fileOpsMutex around its update and save(), but not    *)
(* around the isBanned() test that comes before it; isBanned() itself      *)
(* never takes the mutex.  An action below is one access to shared state,  *)
(* so that every interleaving of these calls is explored.  The process may *)
(* be killed between any two actions and started again over what the file  *)
(* holds.  Threads call isBanned and addFailed in any order: the callers   *)
(* (handleClient and LoginRequest) use a subset of these call sequences.   *)
(***************************************************************************)
EXTENDS BanEntry, FiniteSets

CONSTANTS
  Threads,      \* the connection threads that call the repository
  BAN_TRIES,    \* failed attempts that make a ban               (3)
  BAN_TIME,     \* seconds a ban lasts                           (30 * 60)
  TRY_TIMEOUT,  \* seconds after which attempts start afresh     (5 * 60)
  MaxDelay,     \* timing assumption: seconds from addFailed's test to its end
  TornReads,    \* TRUE: a read that races with a write may return anything
  SavesFail,    \* TRUE: the file may refuse to be opened or written
  MaxTime,      \* bound on the clock
  MaxCounted,   \* bound on the tries of an entry at which calls still begin
  MaxCrashes    \* bound on the number of times the process dies

ASSUME BanConstants ==
  /\ IsFiniteSet(Threads) /\ Ips # {}
  /\ BAN_TRIES \in Nat \ {0}
  /\ BAN_TIME \in Nat /\ TRY_TIMEOUT \in Nat /\ MaxDelay \in Nat
  /\ TRY_TIMEOUT + MaxDelay < BAN_TIME
  /\ MaxDelay <= TRY_TIMEOUT
  /\ TornReads \in BOOLEAN /\ SavesFail \in BOOLEAN
  /\ MaxTime \in Nat /\ MaxCounted \in Nat /\ MaxCrashes \in Nat

VARIABLES
  now,        \* system_clock, in whole seconds
  server,     \* "up", "down" (killed) or "failed" (load() threw in main)
  bans,       \* the map, a function on the addresses that have an entry
  mutex,      \* fileOpsMutex: the set of threads that hold it
  fileState,  \* bans.json is "absent", "torn" (truncated) or "complete"
  fileBans,   \* the table a complete bans.json holds
  unsaved,    \* history: the last save() failed, which nobody noticed
  strayed,    \* history: a racing search missed an entry that it then inserts
  pc,         \* per thread: the next access to shared state
  op,         \* per thread: the call it runs
  arg,        \* per thread: the address it passed
  since,      \* per thread: when the test of its call let it go on
  crashes     \* how often the process has died

disk    == <<fileState, fileBans>>
history == <<unsaved, strayed>>
vars    == <<now, server, bans, mutex, disk, history, pc, op, arg, since,
             crashes>>

-----------------------------------------------------------------------------
(* Types.                                                                  *)

Testing  == {"find", "tries", "stray", "age"}   \* inside isBanned()
Locked   == {"insert", "reset", "count", "stamp", "open", "write", "unlock"}
Returned == {"banned", "clear"}                 \* isBanned()'s two answers
Steps    == {"idle"} \cup Testing \cup Returned \cup Locked

TypeOK ==
  /\ now \in Nat
  /\ server \in {"up", "down", "failed"}
  /\ IsTable(bans)
  /\ mutex \in SUBSET Threads
  /\ fileState \in {"absent", "torn", "complete"}
  /\ IsTable(fileBans)
  /\ unsaved \in BOOLEAN /\ strayed \in BOOLEAN
  /\ pc \in [Threads -> Steps]
  /\ op \in [Threads -> {"isBanned", "addFailed"}]
  /\ arg \in [Threads -> Ips]
  /\ since \in [Threads -> Nat]
  /\ crashes \in Nat

-----------------------------------------------------------------------------
AgeOf(entry) == AgeAt(entry, now)

(* What isBanned() computes when nothing changes while it runs.            *)
IsBanned(ip) ==
  /\ ip \in DOMAIN bans
  /\ bans[ip].tries >= BAN_TRIES
  /\ AgeOf(bans[ip]) < BAN_TIME

Goto(t, step) == pc' = [pc EXCEPT ![t] = step]

(* What op and arg hold while no call runs means nothing.                  *)
NoOp == "isBanned"
NoIp == CHOOSE ip \in Ips : TRUE

Leave(t) ==
  /\ Goto(t, "idle")
  /\ op' = [op EXCEPT ![t] = NoOp]
  /\ arg' = [arg EXCEPT ![t] = NoIp]
  /\ since' = [since EXCEPT ![t] = 0]

-----------------------------------------------------------------------------
(* isBanned(), called by a connection thread or at the head of addFailed() *)

Call(t) ==
  /\ server = "up" /\ pc[t] = "idle"
  /\ \A ip \in DOMAIN bans : bans[ip].tries <= MaxCounted
  /\ Goto(t, "find")
  /\ \E o \in {"isBanned", "addFailed"} : op' = [op EXCEPT ![t] = o]
  /\ \E ip \in Ips : arg' = [arg EXCEPT ![t] = ip]
  /\ UNCHANGED <<now, server, bans, mutex, disk, history, since, crashes>>

(* The call goes on with answer "not banned".                              *)
LetPass(t) ==
  /\ Goto(t, "clear")
  /\ since' = [since EXCEPT ![t] = now]

FreshEntry == [tries |-> 0, last |-> now]

(* A search of the std::map while another thread links a new node into it  *)
(* may miss any entry.                                                     *)
FindRaces(t) ==
  TornReads /\ \E u \in Threads \ {t} : pc[u] \in {"insert", "stray"}

FindEntry(t) ==
  /\ pc[t] = "find"
  /\ \/ /\ arg[t] \in DOMAIN bans
        /\ Goto(t, "tries")
        /\ UNCHANGED since
     \/ /\ arg[t] \notin DOMAIN bans \/ FindRaces(t)
        /\ LetPass(t)
  /\ UNCHANGED <<now, server, bans, mutex, disk, history, op, arg, crashes>>

TestTries(t) ==
  /\ pc[t] = "tries"
  /\ IF bans[arg[t]].tries >= BAN_TRIES
     THEN Goto(t, "age") /\ UNCHANGED since
     ELSE LetPass(t)
  /\ UNCHANGED <<now, server, bans, mutex, disk, history, op, arg, crashes>>

(* bans[ip] searches a second time.  If that search misses, the operator   *)
(* inserts an entry, which no mutex guards and save() does not follow; the *)
(* new entry hides the old one, and has no tries.                          *)
MissEntry(t) ==
  /\ pc[t] = "tries" /\ FindRaces(t)
  /\ Goto(t, "stray")
  /\ strayed' = TRUE
  /\ UNCHANGED <<now, server, bans, mutex, disk, unsaved, op, arg, since,
                 crashes>>

InsertStray(t) ==
  /\ pc[t] = "stray"
  /\ bans' = With(bans, arg[t], FreshEntry)
  /\ LetPass(t)
  /\ UNCHANGED <<now, server, mutex, disk, history, op, arg, crashes>>

(* Copying the stamp while updateLastInteraction replaces the string gives *)
(* a text that parses to any time.                                         *)
StampRaces(t) ==
  TornReads /\ \E u \in Threads \ {t} : pc[u] = "stamp" /\ arg[u] = arg[t]

(* Mutant: bans are tested with the shorter of the two times.              *)
TestAge_TryTimeout(t) ==
  /\ pc[t] = "age"
  /\ IF AgeOf(bans[arg[t]]) < TRY_TIMEOUT
     THEN Goto(t, "banned") /\ UNCHANGED since
     ELSE LetPass(t)
  /\ UNCHANGED <<now, server, bans, mutex, disk, history, op, arg, crashes>>

TestAge(t) ==
  /\ pc[t] = "age"
  /\ \/ /\ AgeOf(bans[arg[t]]) < BAN_TIME \/ StampRaces(t)
        /\ Goto(t, "banned")
        /\ UNCHANGED since
     \/ /\ AgeOf(bans[arg[t]]) >= BAN_TIME \/ StampRaces(t)
        /\ LetPass(t)
  /\ UNCHANGED <<now, server, bans, mutex, disk, history, op, arg, crashes>>

(* The caller of isBanned takes the answer; addFailed returns at once for  *)
(* a banned address.                                                       *)
Return(t) ==
  /\ pc[t] \in Returned
  /\ pc[t] = "banned" \/ op[t] = "isBanned"
  /\ Leave(t)
  /\ UNCHANGED <<now, server, bans, mutex, disk, history, crashes>>

-----------------------------------------------------------------------------
(* The rest of addFailed(), under fileOpsMutex.                            *)

(* Mutant: addFailed does not take the mutex.                              *)
Lock_NoMutex(t) ==
  /\ pc[t] = "clear" /\ op[t] = "addFailed"
  /\ Goto(t, IF arg[t] \in DOMAIN bans THEN "reset" ELSE "insert")
  /\ UNCHANGED <<now, server, bans, mutex, disk, history, op, arg, since, crashes>>

Lock(t) ==
  /\ pc[t] = "clear" /\ op[t] = "addFailed"
  /\ mutex = {}
  /\ mutex' = {t}
  /\ \/ arg[t] \in DOMAIN bans /\ Goto(t, "reset")
     \/ (arg[t] \notin DOMAIN bans \/ FindRaces(t)) /\ Goto(t, "insert")
  /\ UNCHANGED <<now, server, bans, disk, history, op, arg, since, crashes>>

InsertEntry(t) ==
  /\ pc[t] = "insert"
  /\ bans' = With(bans, arg[t], FreshEntry)
  /\ Goto(t, "reset")
  /\ UNCHANGED <<now, server, mutex, disk, history, op, arg, since, crashes>>

(* Mutant: a stale entry is not reset.                                     *)
ResetStale_Never(t) ==
  /\ pc[t] = "reset"
  /\ Goto(t, "count")
  /\ UNCHANGED <<now, server, bans, mutex, disk, history, op, arg, since, crashes>>

(* Mutant: tries are set to -1, as an index before the first would be.     *)
ResetStale_BelowZero(t) ==
  /\ pc[t] = "reset"
  /\ bans' = [bans EXCEPT ![arg[t]].tries = -1]
  /\ Goto(t, "count")
  /\ UNCHANGED <<now, server, mutex, disk, history, op, arg, since, crashes>>

ResetStale(t) ==
  /\ pc[t] = "reset"
  /\ \/ bans' = IF AgeOf(bans[arg[t]]) > TRY_TIMEOUT
                THEN [bans EXCEPT ![arg[t]].tries = 0]
                ELSE bans
     \/ FindRaces(t) /\ bans' = With(bans, arg[t], FreshEntry)
  /\ Goto(t, "count")
  /\ UNCHANGED <<now, server, mutex, disk, history, op, arg, since, crashes>>

CountTry(t) ==
  /\ pc[t] = "count"
  /\ bans' = [bans EXCEPT ![arg[t]].tries = @ + 1]
  /\ Goto(t, "stamp")
  /\ UNCHANGED <<now, server, mutex, disk, history, op, arg, since, crashes>>

UpdateLastInteraction(t) ==
  /\ pc[t] = "stamp"
  /\ bans' = [bans EXCEPT ![arg[t]].last = now]
  /\ Goto(t, "open")
  /\ UNCHANGED <<now, server, mutex, disk, history, op, arg, since, crashes>>

(* save() looks at no stream state.  The ofstream constructor truncates    *)
(* the file; if the file cannot be opened nothing is written ...           *)
OpenFile(t) ==
  /\ pc[t] = "open"
  /\ \/ /\ fileState' = "torn" /\ fileBans' = EmptyTable
        /\ Goto(t, "write")
        /\ UNCHANGED unsaved
     \/ /\ SavesFail
        /\ Goto(t, "unlock")
        /\ unsaved' = TRUE
        /\ UNCHANGED disk
  /\ UNCHANGED <<now, server, bans, mutex, strayed, op, arg, since, crashes>>

(* ... and the text reaches it, if at all, when std::endl flushes.         *)
WriteFile(t) ==
  /\ pc[t] = "write"
  /\ \/ /\ fileState' = "complete" /\ fileBans' = bans
        /\ unsaved' = FALSE
     \/ /\ SavesFail
        /\ unsaved' = TRUE
        /\ UNCHANGED disk
  /\ Goto(t, "unlock")
  /\ UNCHANGED <<now, server, bans, mutex, strayed, op, arg, since, crashes>>

(* Mutant: a return that leaves the mutex locked.                          *)
Unlock_Forgotten(t) ==
  /\ pc[t] = "unlock"
  /\ Leave(t)
  /\ UNCHANGED <<now, server, bans, mutex, disk, history, crashes>>

Unlock(t) ==
  /\ pc[t] = "unlock"
  /\ mutex' = {}
  /\ Leave(t)
  /\ UNCHANGED <<now, server, bans, disk, history, crashes>>

-----------------------------------------------------------------------------
(* The clock, and the life of the process.                                 *)

Updating(t) ==
  op[t] = "addFailed" /\ pc[t] \in {"clear"} \cup Locked

Tick ==
  /\ now < MaxTime
  /\ \A t \in Threads : Updating(t) => now + 1 <= since[t] + MaxDelay
  /\ now' = now + 1
  /\ UNCHANGED <<server, bans, mutex, disk, history, pc, op, arg, since, crashes>>

(* Killed, or ended by an exception no handler catches: the file stays.    *)
Crash ==
  /\ server = "up" /\ crashes < MaxCrashes
  /\ server' = "down"
  /\ crashes' = crashes + 1
  /\ bans' = EmptyTable
  /\ mutex' = {}
  /\ pc' = [t \in Threads |-> "idle"]
  /\ op' = [t \in Threads |-> NoOp]
  /\ arg' = [t \in Threads |-> NoIp]
  /\ since' = [t \in Threads |-> 0]
  /\ UNCHANGED <<now, disk, history>>

(* Mutant: the file is not read at the start.                              *)
Load_IgnoresFile ==
  /\ server = "down" /\ server' = "up"
  /\ bans' = EmptyTable
  /\ UNCHANGED <<now, mutex, disk, history, pc, op, arg, since, crashes>>

(* setStorageFolder() calls load(): a missing file leaves the map empty,   *)
(* and a truncated one makes the JSON parser throw out of main().          *)
Load ==
  /\ server = "down"
  /\ \/ /\ fileState = "absent"
        /\ server' = "up" /\ bans' = EmptyTable
     \/ /\ fileState = "complete"
        /\ server' = "up" /\ bans' = fileBans
     \/ /\ fileState = "torn"
        /\ server' = "failed" /\ bans' = EmptyTable
  /\ unsaved' = FALSE /\ strayed' = FALSE
  /\ UNCHANGED <<now, mutex, disk, pc, op, arg, since, crashes>>

-----------------------------------------------------------------------------

Init ==
  /\ now = 0 /\ server = "up" /\ crashes = 0
  /\ bans = EmptyTable
  /\ mutex = {}
  /\ fileState = "absent" /\ fileBans = EmptyTable
  /\ unsaved = FALSE /\ strayed = FALSE
  /\ pc = [t \in Threads |-> "idle"]
  /\ op = [t \in Threads |-> NoOp]
  /\ arg = [t \in Threads |-> NoIp]
  /\ since = [t \in Threads |-> 0]

Test(t) == FindEntry(t) \/ TestTries(t) \/ TestAge(t) \/ Return(t)

Stray(t) == MissEntry(t) \/ InsertStray(t)

Update(t) ==
  \/ InsertEntry(t) \/ ResetStale(t) \/ CountTry(t)
  \/ UpdateLastInteraction(t) \/ OpenFile(t) \/ WriteFile(t) \/ Unlock(t)

Next ==
  \/ \E t \in Threads : Call(t) \/ Test(t) \/ Stray(t) \/ Lock(t) \/ Update(t)
  \/ Tick \/ Crash \/ Load

Spec == Init /\ [][Next]_vars

(* A thread inside the critical section keeps running: it only computes    *)
(* and writes a local file.                                                *)
FairSpec == Spec /\ \A t \in Threads : WF_vars(Update(t))

-----------------------------------------------------------------------------
(* Properties.                                                             *)

(* No save() has failed since the last one that did its work, and no       *)
(* racing search has inserted an entry, since the process started.         *)
InOrder == ~unsaved /\ ~strayed

(* When no addFailed is in progress the file holds exactly the table in    *)
(* memory: "we only need to lock while writing to ensure that we have the  *)
(* correct state for each IP saved" (banRepository.hpp:60).  A save() that *)
(* fails leaves the file behind, but only until the next one.              *)
SavedStateIsCurrent ==
  server = "up" /\ mutex = {} /\ InOrder
    => fileState # "torn" /\ fileBans = bans

(* The threads that were let past the ban test and have not counted their  *)
(* attempt for ip yet.                                                     *)
Pending(ip) ==
  {t \in Threads : /\ op[t] = "addFailed" /\ arg[t] = ip
                   /\ pc[t] \in {"clear", "insert", "reset", "count"}}

MaxTries == BAN_TRIES - 1 + Cardinality(Threads)

(* The test and the update of addFailed are not one atomic step, so more   *)
(* than BAN_TRIES attempts may be counted; but every thread can slip past  *)
(* the test at most once, in memory and in the file alike.                 *)
TriesBounded ==
  ~TornReads =>
    /\ \A ip \in DOMAIN bans : bans[ip].tries <= MaxTries
    /\ \A ip \in DOMAIN fileBans : fileBans[ip].tries <= MaxTries

(* A ban ends when BAN_TIME has passed since the last attempt, or with the *)
(* process: no attempt that was let through before the ban and is counted  *)
(* after it resets the tries, though the reset is decided without the ban  *)
(* test.                                                                   *)
BanNotLiftedEarly ==
  [][\A ip \in Ips :
       ~TornReads /\ IsBanned(ip) /\ ~IsBanned(ip)' /\ server' = "up"
         => AgeOf(bans[ip])' >= BAN_TIME]_vars

(* The invariant that carries the proofs.                                  *)

Dirty == {"reset", "count", "stamp", "open", "write"}  \* memory ahead of file

Exclusion ==
  /\ \A t, u \in mutex : t = u
  /\ \A t \in Threads : pc[t] \in Locked <=> t \in mutex
  /\ \A t \in mutex : op[t] = "addFailed"

EntryExists == \A t \in Threads :
  /\ pc[t] \in {"tries", "stray", "age"} \cup (Locked \ {"insert"})
       => arg[t] \in DOMAIN bans
  /\ pc[t] = "insert" => arg[t] \notin DOMAIN bans \/ strayed

StraysNoted ==
  /\ strayed => TornReads
  /\ \A t \in Threads : pc[t] = "stray" => strayed

IdleWhenDown == server # "up" =>
  /\ \A t \in Threads : pc[t] = "idle"
  /\ bans = EmptyTable

FileFollows ==
  /\ fileState # "complete" => fileBans = EmptyTable
  /\ server = "up" /\ InOrder =>
       /\ fileState = "torn" <=> \E t \in Threads : pc[t] = "write"
       /\ (\A t \in Threads : pc[t] \notin Dirty) => fileBans = bans

Timely == \A t \in Threads :
  /\ since[t] <= now
  /\ Updating(t) => now <= since[t] + MaxDelay

(* A live entry has room for every attempt still to be counted, and an     *)
(* entry that is counted on without a reset was live at the test.          *)
RoomForPending == \A ip \in DOMAIN bans :
  AgeOf(bans[ip]) < BAN_TIME
    => bans[ip].tries + Cardinality(Pending(ip)) <= MaxTries

CountedWhileFresh == \A t \in Threads :
  /\ pc[t] = "count" =>
       \/ bans[arg[t]].tries = 0
       \/ AgeOf(bans[arg[t]]) <= TRY_TIMEOUT + (now - since[t])
  /\ pc[t] = "stamp" =>
       \/ bans[arg[t]].tries <= 1
       \/ AgeOf(bans[arg[t]]) <= TRY_TIMEOUT + (now - since[t])

(* A thread that is still to count an attempt for a banned address passed  *)
(* the test before the stamp that made the ban.                            *)
BannedSinceTest == \A t \in Threads :
  t \in Pending(arg[t]) /\ IsBanned(arg[t])
    => \/ bans[arg[t]].last >= since[t]
       \/ \E u \in Threads : pc[u] = "stamp" /\ arg[u] = arg[t]

(* All of it together: what one step needs to know of the state before it  *)
(* for SavedStateIsCurrent, TriesBounded and BanNotLiftedEarly to hold.    *)
BanInv ==
  /\ TypeOK
  /\ Exclusion /\ EntryExists /\ StraysNoted /\ IdleWhenDown /\ FileFollows
  /\ Timely
  /\ TriesBounded
  /\ ~TornReads => RoomForPending /\ CountedWhileFresh /\ BannedSinceTest

(* How an attempt counts, by the recorded entry: whether an attempt that   *)
(* decides at an instant starts the tries afresh or adds to them.          *)
StartsAnew(ip, at) ==
  ip \notin DOMAIN fileBans \/ AgeAt(fileBans[ip], at) > TRY_TIMEOUT
GoesOn(ip, at) ==
  ip \in DOMAIN fileBans /\ AgeAt(fileBans[ip], at) <= TRY_TIMEOUT

AheadBy(t) ==
  LET ip == arg[t] IN
  /\ pc[t] \in Dirty \ {"write"} =>
       /\ DOMAIN bans = DOMAIN fileBans \cup {ip}
       /\ \A i \in DOMAIN fileBans \ {ip} : bans[i] = fileBans[i]
  /\ pc[t] = "reset" =>
       \/ ip \in DOMAIN fileBans /\ bans[ip] = fileBans[ip]
       \/ ip \notin DOMAIN fileBans /\ bans[ip].tries = 0
  /\ pc[t] = "count" =>
       \/ GoesOn(ip, since[t]) /\ bans[ip].tries = fileBans[ip].tries
       \/ StartsAnew(ip, now) /\ bans[ip].tries = 0
  /\ pc[t] = "stamp" =>
       \/ GoesOn(ip, since[t]) /\ bans[ip].tries = fileBans[ip].tries + 1
       \/ StartsAnew(ip, now) /\ bans[ip].tries = 1
  /\ pc[t] = "open" =>
       /\ since[t] <= bans[ip].last /\ bans[ip].last <= now
       /\ \/ GoesOn(ip, since[t]) /\ bans[ip].tries = fileBans[ip].tries + 1
          \/ StartsAnew(ip, bans[ip].last) /\ bans[ip].tries = 1

(* While an update runs, memory is ahead of bans.json by its one attempt,  *)
(* stamped after its test: whatever instant the process dies at, the file  *)
(* is short of nothing but that attempt.                                   *)
OneAttemptAhead == InOrder => \A t \in Threads : AheadBy(t)

(* fileOpsMutex is always released: no call blocks all others for ever.    *)
LockIsReleased == mutex # {} ~> mutex = {}

(* The recorded attempts, as BanTable sees them: what save() is about to   *)
(* put into a truncated file counts as recorded.                           *)
Lost == fileState = "torn" /\ server # "up"
Recorded ==
  IF Lost \/ ~InOrder THEN EmptyTable
  ELSE IF fileState = "torn" THEN bans ELSE fileBans
Status == IF Lost THEN "lost" ELSE IF InOrder THEN "ok" ELSE "suspended"

(* The file evolves as BanTable promises, also when reads race and saves   *)
(* fail.                                                                   *)
Durable == INSTANCE BanTable WITH
             time <- now, table <- Recorded, status <- Status
RefinesBanTable == Durable!Spec

=============================================================================
