------------------------ MODULE BanRepositoryProofs ------------------------
(***************************************************************************)
(* Proofs about BanRepository, for any threads, addresses, limits, clock   *)
(* bound and number of crashes that satisfy BanConstants.                  *)
(***************************************************************************)
EXTENDS BanRepository, FiniteSetTheorems, TLAPS

-----------------------------------------------------------------------------
(* Tables.                                                                 *)

LEMMA EmptyTableType == IsTable(EmptyTable)
  BY DEF IsTable, EmptyTable, Entry

LEMMA WithType ==
  ASSUME NEW table, IsTable(table), NEW ip \in Ips, NEW entry \in Entry
  PROVE  /\ IsTable(With(table, ip, entry))
         /\ DOMAIN With(table, ip, entry) = DOMAIN table \cup {ip}
         /\ With(table, ip, entry)[ip] = entry
         /\ \A i \in DOMAIN table \ {ip} :
              With(table, ip, entry)[i] = table[i]
  BY DEF IsTable, With

(* Replacing one field of an entry that exists.                            *)
LEMMA ExceptType ==
  ASSUME NEW table, IsTable(table), NEW ip \in DOMAIN table, NEW n \in Nat
  PROVE  /\ IsTable([table EXCEPT ![ip].tries = n])
         /\ IsTable([table EXCEPT ![ip].last = n])
  BY DEF IsTable, Entry

LEMMA NoIpType == NoIp \in Ips
  BY BanConstants DEF NoIp

-----------------------------------------------------------------------------
(* Type correctness.                                                       *)

LEMMA InitType == Init => TypeOK
<1> SUFFICES ASSUME Init PROVE TypeOK
  OBVIOUS
<1>1. IsTable(bans) /\ IsTable(fileBans)
  BY EmptyTableType DEF Init
<1>2. arg \in [Threads -> Ips]
  BY NoIpType DEF Init
<1> QED BY <1>1, <1>2
        DEF Init, TypeOK, Steps, Testing, Returned, Locked, NoOp

LEMMA TypeStep ==
  ASSUME TypeOK, EntryExists, [Next]_vars
  PROVE  TypeOK'
<1> USE NoIpType
<1> USE DEF TypeOK, Steps, Testing, Returned, Locked, Goto, disk, history,
            Leave, NoOp
<1>1. ASSUME NEW t \in Threads, Call(t) PROVE TypeOK'
  BY <1>1 DEF Call
<1>2. ASSUME NEW t \in Threads, FindEntry(t) PROVE TypeOK'
  BY <1>2 DEF FindEntry, LetPass
<1>3. ASSUME NEW t \in Threads, TestTries(t) PROVE TypeOK'
  BY <1>3 DEF TestTries, LetPass
<1>4. ASSUME NEW t \in Threads, TestAge(t) PROVE TypeOK'
  BY <1>4 DEF TestAge, LetPass
<1>5. ASSUME NEW t \in Threads, Return(t) PROVE TypeOK'
  BY <1>5 DEF Return
<1>6. ASSUME NEW t \in Threads, Lock(t) PROVE TypeOK'
  BY <1>6 DEF Lock
<1>7. ASSUME NEW t \in Threads, InsertEntry(t) PROVE TypeOK'
  <2>1. IsTable(bans')
    BY <1>7, WithType DEF InsertEntry, FreshEntry, Entry
  <2> QED BY <1>7, <2>1 DEF InsertEntry, IsTable
<1>8. ASSUME NEW t \in Threads, ResetStale(t) PROVE TypeOK'
  <2>1. arg[t] \in DOMAIN bans BY <1>8 DEF ResetStale, EntryExists
  <2>2. IsTable(With(bans, arg[t], FreshEntry))
    BY WithType DEF FreshEntry, Entry
  <2>3. IsTable([bans EXCEPT ![arg[t]].tries = 0])
    BY <2>1, ExceptType
  <2>4. IsTable(bans') BY <1>8, <2>2, <2>3 DEF ResetStale
  <2> QED BY <1>8, <2>4 DEF ResetStale, IsTable
<1>9. ASSUME NEW t \in Threads, CountTry(t) PROVE TypeOK'
  <2>1. arg[t] \in DOMAIN bans BY <1>9 DEF CountTry, EntryExists
  <2>2. bans[arg[t]].tries + 1 \in Nat BY <2>1 DEF IsTable, Entry
  <2>3. IsTable(bans') BY <1>9, <2>1, <2>2, ExceptType DEF CountTry
  <2> QED BY <1>9, <2>3 DEF CountTry, IsTable
<1>10. ASSUME NEW t \in Threads, UpdateLastInteraction(t) PROVE TypeOK'
  <2>1. arg[t] \in DOMAIN bans
    BY <1>10 DEF UpdateLastInteraction, EntryExists
  <2>2. IsTable(bans') BY <1>10, <2>1, ExceptType DEF UpdateLastInteraction
  <2> QED BY <1>10, <2>2 DEF UpdateLastInteraction, IsTable
<1>11. ASSUME NEW t \in Threads, OpenFile(t) PROVE TypeOK'
  BY <1>11, EmptyTableType DEF OpenFile, IsTable
<1>12. ASSUME NEW t \in Threads, WriteFile(t) PROVE TypeOK'
  BY <1>12 DEF WriteFile, IsTable
<1>13. ASSUME NEW t \in Threads, Unlock(t) PROVE TypeOK'
  BY <1>13 DEF Unlock
<1>14. CASE Tick
  BY <1>14 DEF Tick
<1>15. CASE Crash
  BY <1>15, EmptyTableType DEF Crash, IsTable
<1>16. CASE Load
  BY <1>16, EmptyTableType DEF Load, IsTable
<1>17. CASE UNCHANGED vars
  BY <1>17 DEF vars
<1>18. ASSUME NEW t \in Threads, Stray(t) PROVE TypeOK'
  <2>1. IsTable(With(bans, arg[t], FreshEntry))
    BY WithType DEF FreshEntry, Entry
  <2> QED BY <1>18, <2>1 DEF Stray, MissEntry, InsertStray, LetPass, IsTable
<1> QED
  BY <1>1, <1>2, <1>3, <1>4, <1>5, <1>6, <1>7, <1>8, <1>9, <1>10, <1>11,
     <1>12, <1>13, <1>14, <1>15, <1>16, <1>17, <1>18 DEF Next, Test, Update

-----------------------------------------------------------------------------
(* The structure of a state: who holds the mutex, which entries exist, how *)
(* the file follows the table, and time.                                   *)

Structure ==
  /\ TypeOK /\ Exclusion /\ EntryExists /\ StraysNoted
  /\ IdleWhenDown /\ FileFollows /\ Timely

LEMMA InitStructure == Init => Structure
  BY InitType, BanConstants
  DEF Init, Structure, TypeOK, Exclusion, EntryExists, StraysNoted,
      IdleWhenDown, FileFollows, Timely, Locked, Updating, Dirty

LEMMA ExclusionStep ==
  ASSUME Structure, [Next]_vars
  PROVE  Exclusion'
<1> USE DEF Structure, TypeOK, Exclusion, Locked, Returned, Testing, Goto, Leave
<1>1. CASE \E t \in Threads : Call(t)
  BY <1>1 DEF Call
<1>2. CASE \E t \in Threads : Test(t)
  BY <1>2 DEF Test, FindEntry, TestTries, TestAge, Return, LetPass
<1>3. CASE \E t \in Threads : Lock(t)
  BY <1>3 DEF Lock
<1>4. CASE \E t \in Threads : Update(t)
  BY <1>4 DEF Update, InsertEntry, ResetStale, CountTry,
              UpdateLastInteraction, OpenFile, WriteFile, Unlock
<1>5. CASE Tick \/ Crash \/ Load \/ UNCHANGED vars
  BY <1>5 DEF Tick, Crash, Load, vars
<1>6. CASE \E t \in Threads : Stray(t)
  BY <1>6 DEF Stray, MissEntry, InsertStray, LetPass
<1> QED
  BY <1>1, <1>2, <1>3, <1>4, <1>5, <1>6 DEF Next

(* Every thread that is to insert a stray entry has been noted, so without *)
(* one no search misses that the mutex guards.                             *)
LEMMA StraysNotedStep ==
  ASSUME Structure, [Next]_vars
  PROVE  StraysNoted'
<1> USE DEF Structure, TypeOK, StraysNoted, Goto, LetPass, Leave, disk, history
<1>1. CASE \E t \in Threads : Call(t) \/ Test(t)
  BY <1>1 DEF Call, Test, FindEntry, TestTries, TestAge, Return
<1>2. CASE \E t \in Threads : Stray(t)
  BY <1>2 DEF Stray, MissEntry, InsertStray, FindRaces
<1>3. CASE \E t \in Threads : Lock(t) \/ Update(t)
  BY <1>3 DEF Lock, Update, InsertEntry, ResetStale, CountTry,
              UpdateLastInteraction, OpenFile, WriteFile, Unlock
<1>4. CASE Tick \/ Crash \/ Load \/ UNCHANGED vars
  BY <1>4 DEF Tick, Crash, Load, IdleWhenDown, vars
<1> QED
  BY <1>1, <1>2, <1>3, <1>4 DEF Next

LEMMA NoRace ==
  ASSUME Structure, ~strayed, NEW t \in Threads,
         pc[t] \in Locked \/ mutex = {}
  PROVE  ~FindRaces(t)
  BY DEF Structure, TypeOK, StraysNoted, Exclusion, FindRaces, Locked

LEMMA EntryExistsStep ==
  ASSUME Structure, [Next]_vars
  PROVE  EntryExists'
<1> USE DEF Structure, TypeOK, EntryExists, Locked, Returned, Testing, Goto, Leave,
            disk, history
<1>1. CASE \E t \in Threads : Call(t)
  BY <1>1 DEF Call
<1>2. CASE \E t \in Threads : Test(t)
  BY <1>2 DEF Test, FindEntry, TestTries, TestAge, Return, LetPass
<1>3. ASSUME NEW t \in Threads, Lock(t) PROVE EntryExists'
  <2>1. strayed \/ ~FindRaces(t)
    BY <1>3, NoRace DEF Lock
  <2> QED BY <1>3, <2>1 DEF Lock
<1>4. ASSUME NEW t \in Threads, InsertEntry(t) PROVE EntryExists'
  <2>1. DOMAIN bans' = DOMAIN bans \cup {arg[t]}
    BY <1>4 DEF InsertEntry, With
  <2>2. \A u \in Threads \ {t} : pc[u] # "insert"
    BY <1>4 DEF InsertEntry, Exclusion
  <2> QED BY <1>4, <2>1, <2>2 DEF InsertEntry
<1>5. ASSUME NEW t \in Threads,
             ResetStale(t) \/ CountTry(t) \/ UpdateLastInteraction(t)
      PROVE  EntryExists'
  <2>1. arg[t] \in DOMAIN bans
    BY <1>5 DEF ResetStale, CountTry, UpdateLastInteraction
  <2>2. DOMAIN bans' = DOMAIN bans
    BY <1>5, <2>1 DEF ResetStale, CountTry, UpdateLastInteraction, With
  <2> QED BY <1>5, <2>2 DEF ResetStale, CountTry, UpdateLastInteraction
<1>6. CASE \E t \in Threads : OpenFile(t) \/ WriteFile(t) \/ Unlock(t)
  BY <1>6 DEF OpenFile, WriteFile, Unlock
<1>7. CASE Crash \/ Load
  BY <1>7 DEF Crash, Load, IdleWhenDown
<1>8. CASE Tick \/ UNCHANGED vars
  BY <1>8 DEF Tick, vars
<1>9. ASSUME NEW t \in Threads, Stray(t) PROVE EntryExists'
  <2>1. pc[t] \in {"tries", "stray"}
    BY <1>9 DEF Stray, MissEntry, InsertStray
  <2>2. DOMAIN bans' = DOMAIN bans
    BY <1>9, <2>1 DEF Stray, MissEntry, InsertStray, With
  <2> QED BY <1>9, <2>2 DEF Stray, MissEntry, InsertStray, LetPass
<1> QED
  BY <1>1, <1>2, <1>3, <1>4, <1>5, <1>6, <1>7, <1>8, <1>9 DEF Next, Update

LEMMA IdleWhenDownStep ==
  ASSUME Structure, [Next]_vars
  PROVE  IdleWhenDown'
<1> USE DEF Structure, TypeOK, IdleWhenDown, Goto, Leave
<1>1. CASE \E t \in Threads : Call(t) \/ Test(t)
  BY <1>1 DEF Call, Test, FindEntry, TestTries, TestAge, Return, LetPass,
              Returned
<1>2. CASE \E t \in Threads : Lock(t) \/ Update(t)
  BY <1>2 DEF Lock, Update, InsertEntry, ResetStale, CountTry,
              UpdateLastInteraction, OpenFile, WriteFile, Unlock
<1>3. CASE Tick \/ Crash \/ Load \/ UNCHANGED vars
  BY <1>3 DEF Tick, Crash, Load, vars
<1>4. CASE \E t \in Threads : Stray(t)
  BY <1>4 DEF Stray, MissEntry, InsertStray
<1> QED
  BY <1>1, <1>2, <1>3, <1>4 DEF Next

LEMMA FileFollowsStep ==
  ASSUME Structure, [Next]_vars
  PROVE  FileFollows'
<1> USE DEF Structure, TypeOK, FileFollows, Dirty, Goto, Leave, disk, history,
            InOrder
<1>1. CASE \E t \in Threads : Call(t) \/ Test(t) \/ Lock(t)
  BY <1>1 DEF Call, Test, FindEntry, TestTries, TestAge, Return, LetPass,
              Lock, Returned, Exclusion, Locked
<1>2. ASSUME NEW t \in Threads, Update(t) PROVE FileFollows'
  <2>1. server = "up" /\ server' = "up"
    BY <1>2
    DEF IdleWhenDown, Update, InsertEntry, ResetStale, CountTry,
        UpdateLastInteraction, OpenFile, WriteFile, Unlock
  <2>2. \A u \in Threads \ {t} : pc[u] \notin Locked /\ pc'[u] = pc[u]
    BY <1>2 DEF Exclusion, Locked, Update, InsertEntry, ResetStale, CountTry,
                UpdateLastInteraction, OpenFile, WriteFile, Unlock
  <2>3. CASE InsertEntry(t) \/ ResetStale(t) \/ CountTry(t)
               \/ UpdateLastInteraction(t)
    BY <2>1, <2>2, <2>3 DEF InsertEntry, ResetStale, CountTry,
                            UpdateLastInteraction, Locked
  <2>4. CASE OpenFile(t)
    BY <2>1, <2>2, <2>4 DEF OpenFile, Locked
  <2>5. CASE WriteFile(t)
    BY <2>1, <2>2, <2>5 DEF WriteFile, Locked
  <2>6. CASE Unlock(t)
    BY <2>1, <2>2, <2>6 DEF Unlock, Locked
  <2> QED BY <1>2, <2>3, <2>4, <2>5, <2>6 DEF Update
<1>3. CASE Tick \/ Crash \/ Load \/ UNCHANGED vars
  BY <1>3 DEF Tick, Crash, Load, IdleWhenDown, vars
<1>4. CASE \E t \in Threads : Stray(t)
  <2>1. strayed' /\ fileState' = fileState /\ fileBans' = fileBans
    BY <1>4 DEF Stray, MissEntry, InsertStray, StraysNoted
  <2> QED BY <2>1
<1> QED
  BY <1>1, <1>2, <1>3, <1>4 DEF Next

LEMMA TimelyStep ==
  ASSUME Structure, [Next]_vars
  PROVE  Timely'
<1> USE BanConstants
<1> USE DEF Structure, TypeOK, Timely, Updating, Locked, Goto, Leave, NoOp
<1>1. CASE \E t \in Threads : Call(t)
  BY <1>1 DEF Call
<1>2. CASE \E t \in Threads : Test(t)
  BY <1>2 DEF Test, FindEntry, TestTries, TestAge, Return, LetPass, Returned
<1>3. CASE \E t \in Threads : Lock(t) \/ Update(t)
  BY <1>3 DEF Lock, Update, InsertEntry, ResetStale, CountTry,
              UpdateLastInteraction, OpenFile, WriteFile, Unlock
<1>4. CASE Tick \/ Crash \/ Load \/ UNCHANGED vars
  BY <1>4 DEF Tick, Crash, Load, vars
<1>5. CASE \E t \in Threads : Stray(t)
  BY <1>5 DEF Stray, MissEntry, InsertStray, LetPass
<1> QED
  BY <1>1, <1>2, <1>3, <1>4, <1>5 DEF Next

LEMMA StructureStep ==
  ASSUME Structure, [Next]_vars
  PROVE  Structure'
  BY TypeStep, ExclusionStep, EntryExistsStep, StraysNotedStep,
     IdleWhenDownStep, FileFollowsStep, TimelyStep
  DEF Structure

(* A state of the program is well typed: every table holds entries of      *)
(* non-negative tries and stamps, each thread is at one of the steps.      *)
THEOREM TypeCorrect == Spec => []TypeOK
<1>1. Init => Structure
  BY InitStructure
<1>2. Structure /\ [Next]_vars => Structure'
  BY StructureStep
<1>3. Structure => TypeOK
  BY DEF Structure
<1> QED BY <1>1, <1>2, <1>3, PTL DEF Spec

(* Between updates the file holds exactly the table in memory, wherever    *)
(* the process was killed before, unless the last save() failed or a       *)
(* racing search has inserted an entry: a failed save() is made good by    *)
(* the next that works.                                                    *)
THEOREM FileIsCurrent == Spec => []SavedStateIsCurrent
<1>1. Init => Structure
  BY InitStructure
<1>2. Structure /\ [Next]_vars => Structure'
  BY StructureStep
<1>3. Structure => SavedStateIsCurrent
  BY DEF Structure, Exclusion, FileFollows, SavedStateIsCurrent, Dirty, Locked
<1> QED BY <1>1, <1>2, <1>3, PTL DEF Spec

-----------------------------------------------------------------------------
(* The bounds on tries, when no read races.                                *)

LEMMA ReadBackLater ==
  ASSUME NEW stamp \in Nat
  PROVE  ReadBack(stamp) \in Nat /\ ReadBack(stamp) >= stamp
  BY DstShiftAssumption DEF ReadBack

LEMMA AgeType ==
  ASSUME TypeOK, NEW ip \in DOMAIN bans
  PROVE  /\ bans[ip].tries \in Nat /\ bans[ip].last \in Nat
         /\ AgeOf(bans[ip]) \in Int
         /\ AgeOf(bans[ip]) = now - ReadBack(bans[ip].last)
  BY ReadBackLater DEF TypeOK, IsTable, Entry, AgeOf, AgeAt

LEMMA SetTries ==
  ASSUME NEW table, IsTable(table), NEW ip \in DOMAIN table, NEW n \in Nat,
         NEW new, new = [table EXCEPT ![ip].tries = n]
  PROVE  /\ DOMAIN new = DOMAIN table
         /\ new[ip].tries = n /\ new[ip].last = table[ip].last
         /\ \A i \in DOMAIN table \ {ip} : new[i] = table[i]
  BY DEF IsTable, Entry

LEMMA SetLast ==
  ASSUME NEW table, IsTable(table), NEW ip \in DOMAIN table, NEW n \in Nat,
         NEW new, new = [table EXCEPT ![ip].last = n]
  PROVE  /\ DOMAIN new = DOMAIN table
         /\ new[ip].last = n /\ new[ip].tries = table[ip].tries
         /\ \A i \in DOMAIN table \ {ip} : new[i] = table[i]
  BY DEF IsTable, Entry

LEMMA MaxTriesType == MaxTries \in Nat /\ Cardinality(Threads) \in Nat
  BY BanConstants, FS_CardinalityType DEF MaxTries

LEMMA PendingSize ==
  ASSUME NEW ip
  PROVE  /\ IsFiniteSet(Pending(ip))
         /\ Cardinality(Pending(ip)) \in Nat
         /\ Cardinality(Pending(ip)) <= Cardinality(Threads)
  BY BanConstants, FS_Subset, FS_CardinalityType DEF Pending

(* The sizes of the set of pending threads before and after a step.        *)
LEMMA SubsetSize ==
  ASSUME NEW S \in SUBSET Threads, NEW T \in SUBSET Threads
  PROVE  /\ Cardinality(S) \in Nat /\ Cardinality(T) \in Nat
         /\ S \subseteq T => Cardinality(S) <= Cardinality(T)
         /\ \A t \in T : S \subseteq T \ {t}
              => Cardinality(S) <= Cardinality(T) - 1
         /\ \A t : S \subseteq T \cup {t}
              => Cardinality(S) <= Cardinality(T) + 1
<1>1. IsFiniteSet(S) /\ IsFiniteSet(T)
  BY BanConstants, FS_Subset
<1>2. Cardinality(S) \in Nat /\ Cardinality(T) \in Nat
  BY <1>1, FS_CardinalityType
<1>3. S \subseteq T => Cardinality(S) <= Cardinality(T)
  BY <1>1, FS_Subset
<1>4. ASSUME NEW t \in T, S \subseteq T \ {t}
      PROVE  Cardinality(S) <= Cardinality(T) - 1
  <2>1. IsFiniteSet(T \ {t}) /\ Cardinality(T \ {t}) = Cardinality(T) - 1
    BY <1>1, FS_RemoveElement
  <2> QED BY <1>4, <2>1, FS_Subset
<1>5. ASSUME NEW t, S \subseteq T \cup {t}
      PROVE  Cardinality(S) <= Cardinality(T) + 1
  <2>1. /\ IsFiniteSet(T \cup {t})
        /\ Cardinality(T \cup {t})
             = IF t \in T THEN Cardinality(T) ELSE Cardinality(T) + 1
    BY <1>1, FS_AddElement
  <2>2. Cardinality(T \cup {t}) \in Nat
    BY <2>1, FS_CardinalityType
  <2>3. Cardinality(S) <= Cardinality(T \cup {t})
    BY <1>5, <2>1, FS_Subset
  <2> QED BY <1>2, <2>1, <2>2, <2>3
<1> QED BY <1>2, <1>3, <1>4, <1>5

(* What the four steps that change an entry do to the table.               *)
LEMMA InsertEffect ==
  ASSUME Structure, NEW t \in Threads, InsertEntry(t)
  PROVE  /\ DOMAIN bans' = DOMAIN bans \cup {arg[t]}
         /\ bans'[arg[t]].tries = 0 /\ bans'[arg[t]].last = now
         /\ \A i \in DOMAIN bans \ {arg[t]} : bans'[i] = bans[i]
<1> DEFINE new == FreshEntry
<1>1. arg[t] \in Ips /\ new \in Entry /\ IsTable(bans)
  BY DEF Structure, TypeOK, Entry, FreshEntry
<1>2. bans' = With(bans, arg[t], new)
  BY DEF InsertEntry
<1>3. new.tries = 0 /\ new.last = now
  BY DEF FreshEntry
<1> HIDE DEF new
<1>4. /\ DOMAIN bans' = DOMAIN bans \cup {arg[t]}
      /\ bans'[arg[t]] = new
      /\ \A i \in DOMAIN bans \ {arg[t]} : bans'[i] = bans[i]
  BY <1>1, <1>2 DEF With, IsTable
<1> QED BY <1>3, <1>4

LEMMA ResetEffect ==
  ASSUME Structure, ~strayed, NEW t \in Threads, ResetStale(t)
  PROVE  /\ arg[t] \in DOMAIN bans /\ DOMAIN bans' = DOMAIN bans
         /\ bans'[arg[t]].tries = 0 \/ bans' = bans
         /\ bans' = bans => AgeOf(bans[arg[t]]) <= TRY_TIMEOUT
                            \/ bans[arg[t]].tries = 0
         /\ bans' # bans => AgeOf(bans[arg[t]]) > TRY_TIMEOUT
         /\ bans'[arg[t]].last = bans[arg[t]].last
         /\ \A i \in DOMAIN bans \ {arg[t]} : bans'[i] = bans[i]
<1>1. arg[t] \in DOMAIN bans
  BY DEF Structure, EntryExists, Locked, ResetStale
<1>2. AgeOf(bans[arg[t]]) \in Int /\ IsTable(bans)
  BY <1>1, AgeType DEF Structure, TypeOK
<1>0. bans' = IF AgeOf(bans[arg[t]]) > TRY_TIMEOUT
             THEN [bans EXCEPT ![arg[t]].tries = 0]
             ELSE bans
  BY NoRace DEF ResetStale, Locked
<1>3. CASE AgeOf(bans[arg[t]]) > TRY_TIMEOUT
  <2>1. bans' = [bans EXCEPT ![arg[t]].tries = 0]
    BY <1>0, <1>3
  <2> QED BY <1>1, <1>2, <1>3, <2>1, SetTries
<1>4. CASE ~(AgeOf(bans[arg[t]]) > TRY_TIMEOUT)
  BY <1>0, <1>1, <1>2, <1>4, BanConstants
<1> QED BY <1>3, <1>4

LEMMA CountEffect ==
  ASSUME Structure, NEW t \in Threads, CountTry(t)
  PROVE  /\ arg[t] \in DOMAIN bans /\ DOMAIN bans' = DOMAIN bans
         /\ bans'[arg[t]].tries = bans[arg[t]].tries + 1
         /\ bans'[arg[t]].last = bans[arg[t]].last
         /\ \A i \in DOMAIN bans \ {arg[t]} : bans'[i] = bans[i]
<1>1. arg[t] \in DOMAIN bans
  BY DEF Structure, EntryExists, Locked, CountTry
<1>2. bans[arg[t]].tries + 1 \in Nat /\ IsTable(bans)
  BY <1>1, AgeType DEF Structure, TypeOK
<1> DEFINE n == bans[arg[t]].tries + 1
<1>3. bans' = [bans EXCEPT ![arg[t]].tries = n]
  BY <1>1, <1>2 DEF CountTry
<1>4. n \in Nat
  BY <1>2
<1> HIDE DEF n
<1>5. /\ DOMAIN bans' = DOMAIN bans
      /\ bans'[arg[t]].tries = n
      /\ bans'[arg[t]].last = bans[arg[t]].last
      /\ \A i \in DOMAIN bans \ {arg[t]} : bans'[i] = bans[i]
  BY <1>1, <1>2, <1>3, <1>4, SetTries
<1> QED BY <1>1, <1>5 DEF n

LEMMA StampEffect ==
  ASSUME Structure, NEW t \in Threads, UpdateLastInteraction(t)
  PROVE  /\ arg[t] \in DOMAIN bans /\ DOMAIN bans' = DOMAIN bans
         /\ bans'[arg[t]].tries = bans[arg[t]].tries
         /\ bans'[arg[t]].last = now
         /\ \A i \in DOMAIN bans \ {arg[t]} : bans'[i] = bans[i]
<1>1. arg[t] \in DOMAIN bans
  BY DEF Structure, EntryExists, Locked, UpdateLastInteraction
<1>2. now \in Nat /\ IsTable(bans)
  BY DEF Structure, TypeOK
<1>3. bans' = [bans EXCEPT ![arg[t]].last = now]
  BY DEF UpdateLastInteraction
<1> QED BY <1>1, <1>2, <1>3, SetLast

(* A thread in the critical section updates, and in time.                  *)
LEMMA HolderTimely ==
  ASSUME Structure, NEW t \in Threads, pc[t] \in Locked
  PROVE  /\ op[t] = "addFailed" /\ mutex = {t}
         /\ now \in Nat /\ since[t] \in Nat
         /\ since[t] <= now /\ now - since[t] <= MaxDelay
  <1>1. op[t] = "addFailed" /\ mutex = {t}
    BY DEF Structure, Exclusion, TypeOK
  <1>2. now \in Nat /\ since[t] \in Nat
    BY DEF Structure, TypeOK
  <1>3. since[t] <= now /\ now <= since[t] + MaxDelay
    BY <1>1 DEF Structure, Timely, Updating
  <1> QED BY <1>1, <1>2, <1>3, BanConstants

(* Without racing reads no entry strays.                                   *)
LEMMA NoStray ==
  ASSUME Structure, ~TornReads
  PROVE  ~strayed /\ \A t \in Threads : ~Stray(t)
  BY DEF Structure, StraysNoted, Stray, MissEntry, InsertStray, FindRaces

Bounds ==
  TriesBounded /\ RoomForPending /\ CountedWhileFresh /\ BannedSinceTest

LEMMA InitBounds == Init => Bounds
  BY DEF Init, Bounds, TriesBounded, RoomForPending, CountedWhileFresh,
         BannedSinceTest, Pending, EmptyTable

(* A step that leaves the table alone and lets no thread past the test.    *)
LEMMA QuietRoom ==
  ASSUME Structure, RoomForPending, bans' = bans, now' \in Nat, now' >= now,
         \A ip \in DOMAIN bans : Pending(ip)' \subseteq Pending(ip)
  PROVE  RoomForPending'
<1> SUFFICES ASSUME NEW ip \in DOMAIN bans, AgeOf(bans[ip])' < BAN_TIME
             PROVE  bans[ip].tries + Cardinality(Pending(ip))' <= MaxTries
  BY DEF RoomForPending
<1>1. AgeOf(bans[ip])' = now' - ReadBack(bans[ip].last)
  BY DEF AgeOf, AgeAt
<1>2. /\ bans[ip].tries \in Nat /\ ReadBack(bans[ip].last) \in Nat
      /\ AgeOf(bans[ip]) = now - ReadBack(bans[ip].last)
  BY AgeType, ReadBackLater DEF Structure
<1>3. AgeOf(bans[ip]) < BAN_TIME
  BY <1>1, <1>2, BanConstants DEF Structure, TypeOK
<1>4. bans[ip].tries + Cardinality(Pending(ip)) <= MaxTries
  BY <1>3 DEF RoomForPending
<1>5. Pending(ip) \in SUBSET Threads /\ Pending(ip)' \in SUBSET Threads
  BY DEF Pending
<1>6. /\ Cardinality(Pending(ip))' <= Cardinality(Pending(ip))
      /\ Cardinality(Pending(ip))' \in Nat /\ Cardinality(Pending(ip)) \in Nat
  BY <1>5, SubsetSize
<1> QED BY <1>2, <1>4, <1>6, MaxTriesType

(* A thread is let past the test: room is left if the tries are below the  *)
(* limit, and an expired entry needs none.                                 *)
LEMMA LetPassRoom ==
  ASSUME Structure, RoomForPending, NEW t \in Threads, LetPass(t),
         UNCHANGED <<now, bans, op, arg>>,
         \/ arg[t] \notin DOMAIN bans
         \/ bans[arg[t]].tries < BAN_TRIES
         \/ AgeOf(bans[arg[t]]) >= BAN_TIME
  PROVE  RoomForPending'
<1> SUFFICES ASSUME NEW ip \in DOMAIN bans, AgeOf(bans[ip]) < BAN_TIME
             PROVE  bans[ip].tries + Cardinality(Pending(ip))' <= MaxTries
  BY DEF RoomForPending, AgeOf
<1>1. Pending(ip) \in SUBSET Threads /\ Pending(ip)' \in SUBSET Threads
  BY DEF Pending
<1>2. bans[ip].tries \in Nat
  BY AgeType DEF Structure
<1>3. CASE ip # arg[t]
  <2>1. Pending(ip)' \subseteq Pending(ip)
    BY <1>3 DEF Pending, LetPass, Goto, Structure, TypeOK
  <2>2. bans[ip].tries + Cardinality(Pending(ip)) <= MaxTries
    BY DEF RoomForPending
  <2> QED BY <1>1, <1>2, <2>1, <2>2, SubsetSize, MaxTriesType
<1>4. CASE ip = arg[t]
  <2>1. bans[ip].tries <= BAN_TRIES - 1
    BY <1>2, <1>4, AgeType, BanConstants DEF Structure
  <2>2. /\ Cardinality(Pending(ip))' <= Cardinality(Threads)
        /\ Cardinality(Pending(ip))' \in Nat
    BY <1>1, SubsetSize
  <2> QED BY <1>2, <2>1, <2>2, MaxTriesType, BanConstants DEF MaxTries
<1> QED BY <1>3, <1>4

LEMMA TestRoom ==
  ASSUME Structure, ~TornReads, RoomForPending, NEW t \in Threads, Test(t)
  PROVE  RoomForPending'
<1> USE DEF FindEntry, TestTries, TestAge, Return, FindRaces, StampRaces, disk, history,
            Leave
<1>1. CASE LetPass(t)
  <2>1. \/ arg[t] \notin DOMAIN bans
        \/ bans[arg[t]].tries < BAN_TRIES
        \/ AgeOf(bans[arg[t]]) >= BAN_TIME
    <3>1. pc[t] \in {"tries", "age"} => arg[t] \in DOMAIN bans
      BY DEF Structure, EntryExists
    <3>2. CASE FindEntry(t)
      BY <1>1, <3>2 DEF Structure, TypeOK, LetPass, Goto
    <3>3. CASE TestTries(t)
      <4>1. arg[t] \in DOMAIN bans /\ bans[arg[t]].tries \in Nat
        BY <3>1, <3>3, AgeType DEF Structure
      <4>2. ~(bans[arg[t]].tries >= BAN_TRIES)
        BY <1>1, <3>3 DEF Structure, TypeOK, LetPass, Goto
      <4> QED BY <4>1, <4>2, BanConstants
    <3>4. CASE TestAge(t)
      BY <1>1, <3>4 DEF Structure, TypeOK, LetPass, Goto
    <3>5. CASE Return(t)
      BY <1>1, <3>5 DEF Structure, TypeOK, LetPass, Goto
    <3> QED BY <3>2, <3>3, <3>4, <3>5 DEF Test
  <2>2. UNCHANGED <<now, bans, op, arg>>
    BY <1>1 DEF Test, LetPass, Goto, Structure, TypeOK
  <2> QED BY <1>1, <2>1, <2>2, LetPassRoom
<1>2. CASE ~LetPass(t)
  <2>1. /\ bans' = bans /\ now' = now
        /\ \A ip \in DOMAIN bans : Pending(ip)' \subseteq Pending(ip)
    BY <1>2 DEF Test, Structure, TypeOK, Goto, Pending
  <2> QED BY <2>1, QuietRoom DEF Structure, TypeOK
<1> QED BY <1>1, <1>2

LEMMA InsertRoom ==
  ASSUME Structure, RoomForPending, NEW t \in Threads, InsertEntry(t)
  PROVE  RoomForPending'
<1> SUFFICES ASSUME NEW ip \in DOMAIN bans', AgeOf(bans[ip])' < BAN_TIME
             PROVE  bans'[ip].tries + Cardinality(Pending(ip))' <= MaxTries
  BY DEF RoomForPending
<1>1. /\ DOMAIN bans' = DOMAIN bans \cup {arg[t]}
      /\ bans'[arg[t]].tries = 0
      /\ \A i \in DOMAIN bans \ {arg[t]} : bans'[i] = bans[i]
  BY InsertEffect
<1>2. Pending(ip)' \in SUBSET Threads /\ Pending(ip) \in SUBSET Threads
  BY DEF Pending
<1>3. CASE ip = arg[t]
  <2>1. /\ Cardinality(Pending(ip))' <= Cardinality(Threads)
        /\ Cardinality(Pending(ip))' \in Nat
    BY <1>2, SubsetSize
  <2> QED BY <1>1, <1>3, <2>1, MaxTriesType, BanConstants DEF MaxTries
<1>4. CASE ip # arg[t]
  <2>1. Pending(ip)' \subseteq Pending(ip)
    BY <1>4 DEF Pending, InsertEntry, Goto, Structure, TypeOK
  <2>2. ip \in DOMAIN bans /\ bans'[ip] = bans[ip]
    BY <1>1, <1>4
  <2>3. AgeOf(bans[ip]) < BAN_TIME
    BY <2>2 DEF AgeOf, AgeAt, InsertEntry
  <2>4. bans[ip].tries \in Nat
        /\ bans[ip].tries + Cardinality(Pending(ip)) <= MaxTries
    BY <2>2, <2>3, AgeType DEF RoomForPending, Structure
  <2> QED BY <1>2, <2>1, <2>2, <2>4, SubsetSize, MaxTriesType
<1> QED BY <1>3, <1>4

(* Counting an attempt takes the thread out of Pending.                    *)
LEMMA CountRoom ==
  ASSUME Structure, ~strayed, RoomForPending, NEW t \in Threads,
         ResetStale(t) \/ CountTry(t)
  PROVE  RoomForPending'
<1> SUFFICES ASSUME NEW ip \in DOMAIN bans', AgeOf(bans[ip])' < BAN_TIME
             PROVE  bans'[ip].tries + Cardinality(Pending(ip))' <= MaxTries
  BY DEF RoomForPending
<1>1. arg[t] \in DOMAIN bans /\ op[t] = "addFailed"
  BY DEF Structure, EntryExists, Exclusion, Locked, ResetStale, CountTry
<1>2. bans[arg[t]].tries \in Nat /\ bans[arg[t]].tries + 1 \in Nat
  BY <1>1, AgeType DEF Structure
<1>3. /\ DOMAIN bans' = DOMAIN bans
      /\ \A i \in DOMAIN bans : bans'[i].last = bans[i].last
      /\ \A i \in DOMAIN bans \ {arg[t]} : bans'[i] = bans[i]
      /\ ResetStale(t) => bans'[arg[t]].tries <= bans[arg[t]].tries
                          /\ bans'[arg[t]].tries \in Nat
      /\ CountTry(t) => bans'[arg[t]].tries = bans[arg[t]].tries + 1
  <2>1. CASE ResetStale(t)
    BY <1>2, <2>1, ResetEffect DEF ResetStale, CountTry
  <2>2. CASE CountTry(t)
    BY <1>2, <2>2, CountEffect DEF ResetStale, CountTry
  <2> QED BY <2>1, <2>2
<1>4. Pending(ip)' \in SUBSET Threads /\ Pending(ip) \in SUBSET Threads
  BY DEF Pending
<1>5. AgeOf(bans[ip]) < BAN_TIME
  BY <1>3 DEF AgeOf, AgeAt, ResetStale, CountTry
<1>6. bans[ip].tries \in Nat
      /\ bans[ip].tries + Cardinality(Pending(ip)) <= MaxTries
  BY <1>3, <1>5, AgeType DEF RoomForPending, Structure
<1>7. Pending(ip)' \subseteq Pending(ip)
  BY DEF Pending, ResetStale, CountTry, Goto, Structure, TypeOK
<1>8. CASE ip # arg[t] \/ ResetStale(t)
  BY <1>3, <1>4, <1>6, <1>7, <1>8, SubsetSize, MaxTriesType
<1>9. CASE ip = arg[t] /\ CountTry(t)
  <2>1. t \in Pending(ip) /\ Pending(ip)' \subseteq Pending(ip) \ {t}
    BY <1>1, <1>9 DEF Pending, CountTry, Goto, Structure, TypeOK
  <2>2. Cardinality(Pending(ip))' <= Cardinality(Pending(ip)) - 1
    BY <1>4, <2>1, SubsetSize
  <2>3. Cardinality(Pending(ip)) \in Nat /\ Cardinality(Pending(ip))' \in Nat
    BY <1>4, SubsetSize
  <2> QED BY <1>3, <1>6, <1>9, <2>2, <2>3, MaxTriesType
<1> QED BY <1>8, <1>9

(* A stamp makes an entry live again, so room has to be there: either the  *)
(* tries were set back, or the entry was live, because little time has     *)
(* passed since the staleness test.                                        *)
LEMMA StampRoom ==
  ASSUME Structure, RoomForPending, CountedWhileFresh,
         NEW t \in Threads, UpdateLastInteraction(t)
  PROVE  RoomForPending'
<1> SUFFICES ASSUME NEW ip \in DOMAIN bans', AgeOf(bans[ip])' < BAN_TIME
             PROVE  bans'[ip].tries + Cardinality(Pending(ip))' <= MaxTries
  BY DEF RoomForPending
<1>1. arg[t] \in DOMAIN bans /\ op[t] = "addFailed"
  BY DEF Structure, EntryExists, Exclusion, Locked, UpdateLastInteraction
<1>2. /\ DOMAIN bans' = DOMAIN bans
      /\ \A i \in DOMAIN bans : bans'[i].tries = bans[i].tries
      /\ \A i \in DOMAIN bans \ {arg[t]} : bans'[i] = bans[i]
  BY StampEffect
<1>3. Pending(ip)' \in SUBSET Threads /\ Pending(ip) \in SUBSET Threads
  BY DEF Pending
<1>4. Pending(ip)' \subseteq Pending(ip)
  BY DEF Pending, UpdateLastInteraction, Goto, Structure, TypeOK
<1>5. bans[ip].tries \in Nat
  BY <1>2, AgeType DEF Structure
<1>6. CASE AgeOf(bans[ip]) < BAN_TIME
  <2>1. bans[ip].tries + Cardinality(Pending(ip)) <= MaxTries
    BY <1>2, <1>6 DEF RoomForPending
  <2> QED BY <1>2, <1>3, <1>4, <1>5, <2>1, SubsetSize, MaxTriesType
<1>7. CASE ~(AgeOf(bans[ip]) < BAN_TIME)
  <2>1. ip = arg[t]
    BY <1>2, <1>7 DEF AgeOf, AgeAt, UpdateLastInteraction
  <2>2. now - since[t] <= MaxDelay /\ now \in Nat /\ since[t] \in Nat
    BY HolderTimely DEF Locked, UpdateLastInteraction
  <2>3. AgeOf(bans[ip]) \in Int
    BY <1>2, AgeType DEF Structure
  <2>4. bans[ip].tries <= 1
    BY <1>7, <2>1, <2>2, <2>3, BanConstants
    DEF CountedWhileFresh, UpdateLastInteraction
  <2>5. t \in Threads \ Pending(ip)
    BY DEF Pending, UpdateLastInteraction
  <2>6. Pending(ip)' \subseteq Threads \ {t}
    BY <1>4, <2>5, <1>3
  <2>7. /\ Cardinality(Pending(ip))' <= Cardinality(Threads) - 1
        /\ Cardinality(Pending(ip))' \in Nat
    BY <1>3, <2>6, SubsetSize
  <2> QED
    BY <1>2, <1>5, <2>4, <2>7, MaxTriesType, BanConstants DEF MaxTries
<1> QED BY <1>6, <1>7

LEMMA RoomStep ==
  ASSUME Structure, Bounds, ~TornReads, [Next]_vars
  PROVE  RoomForPending'
<1> USE DEF Bounds
<1>1. CASE \E t \in Threads : Test(t)
  BY <1>1, TestRoom
<1>2. CASE \E t \in Threads : InsertEntry(t)
  BY <1>2, InsertRoom
<1>3. CASE \E t \in Threads : ResetStale(t) \/ CountTry(t)
  BY <1>3, CountRoom, NoStray
<1>4. CASE \E t \in Threads : UpdateLastInteraction(t)
  BY <1>4, StampRoom
<1>5. ASSUME NEW t \in Threads,
             Call(t) \/ Lock(t) \/ OpenFile(t) \/ WriteFile(t) \/ Unlock(t)
      PROVE  RoomForPending'
  <2>1. /\ bans' = bans /\ now' = now
        /\ \A ip : Pending(ip)' \subseteq Pending(ip)
    BY <1>5 DEF Call, Lock, OpenFile, WriteFile, Unlock, Structure, TypeOK,
                Goto, Leave, Pending, disk, history
  <2> QED BY <2>1, QuietRoom DEF Structure, TypeOK
<1>6. CASE Tick \/ UNCHANGED vars
  <2>1. /\ bans' = bans /\ now' \in Nat /\ now' >= now
        /\ \A ip : Pending(ip)' \subseteq Pending(ip)
    BY <1>6 DEF Tick, vars, Structure, TypeOK, Pending
  <2> QED BY <2>1, QuietRoom
<1>7. CASE Crash
  BY <1>7 DEF Crash, RoomForPending, EmptyTable
<1>8. CASE Load
  <2> SUFFICES ASSUME NEW ip \in DOMAIN bans'
               PROVE  bans'[ip].tries + Cardinality(Pending(ip))' <= MaxTries
    BY DEF RoomForPending
  <2>1. bans' = fileBans
    BY <1>8 DEF Load, EmptyTable, Structure, FileFollows
  <2>2. bans'[ip].tries \in Nat /\ bans'[ip].tries <= MaxTries
    BY <2>1 DEF TriesBounded, Structure, TypeOK, IsTable, Entry
  <2>3. Pending(ip)' = {}
    BY <1>8 DEF Load, Structure, IdleWhenDown, Pending
  <2> QED BY <2>2, <2>3, FS_EmptySet, MaxTriesType
<1> QED
  BY <1>1, <1>2, <1>3, <1>4, <1>5, <1>6, <1>7, <1>8, NoStray
  DEF Next, Update

LEMMA CountedStep ==
  ASSUME Structure, CountedWhileFresh, ~TornReads, [Next]_vars
  PROVE  CountedWhileFresh'
<1>0. ~strayed
  BY NoStray
<1>1. ASSUME NEW t \in Threads, ResetStale(t) PROVE CountedWhileFresh'
  <2>1. /\ mutex = {t} /\ since[t] <= now /\ now \in Nat /\ since[t] \in Nat
    BY <1>1, HolderTimely DEF ResetStale, Locked
  <2>2. \A u \in Threads \ {t} : pc'[u] \notin Locked
    BY <1>1, <2>1 DEF ResetStale, Goto, Structure, TypeOK, Exclusion
  <2>3. pc'[t] = "count" /\ since' = since /\ now' = now /\ arg' = arg
    BY <1>1 DEF ResetStale, Goto, Structure, TypeOK
  <2>4. CASE bans'[arg[t]].tries = 0
    BY <2>2, <2>3, <2>4 DEF CountedWhileFresh, Locked
  <2>5. CASE bans' = bans /\ bans[arg[t]].tries # 0
    <3>1. /\ AgeOf(bans[arg[t]]) <= TRY_TIMEOUT
          /\ AgeOf(bans[arg[t]]) \in Int
      BY <1>0, <1>1, <2>5, ResetEffect, AgeType DEF Structure
    <3>2. AgeOf(bans[arg[t]])' = AgeOf(bans[arg[t]])
      BY <2>3, <2>5 DEF AgeOf, AgeAt
    <3>3. AgeOf(bans[arg[t]])' <= TRY_TIMEOUT + (now - since[t])
      BY <2>1, <3>1, <3>2, BanConstants
    <3> QED BY <2>2, <2>3, <3>3 DEF CountedWhileFresh, Locked
  <2> QED BY <1>0, <1>1, <2>4, <2>5, ResetEffect
<1>2. ASSUME NEW t \in Threads, CountTry(t) PROVE CountedWhileFresh'
  <2>1. mutex = {t} /\ now \in Nat /\ since[t] \in Nat
    BY <1>2, HolderTimely DEF CountTry, Locked
  <2>2. \A u \in Threads \ {t} : pc'[u] \notin Locked
    BY <1>2, <2>1 DEF CountTry, Goto, Structure, TypeOK, Exclusion
  <2>3. pc'[t] = "stamp" /\ since' = since /\ now' = now /\ arg' = arg
    BY <1>2 DEF CountTry, Goto, Structure, TypeOK
  <2>4. /\ bans'[arg[t]].tries = bans[arg[t]].tries + 1
        /\ bans'[arg[t]].last = bans[arg[t]].last
        /\ bans[arg[t]].tries \in Nat
    BY <1>2, CountEffect, AgeType DEF Structure
  <2>5. AgeOf(bans[arg[t]])' = AgeOf(bans[arg[t]])
    BY <2>3, <2>4 DEF AgeOf, AgeAt
  <2>6. \/ bans[arg[t]].tries = 0
        \/ AgeOf(bans[arg[t]]) <= TRY_TIMEOUT + (now - since[t])
    BY <1>2 DEF CountTry, CountedWhileFresh
  <2> QED BY <2>2, <2>3, <2>4, <2>5, <2>6 DEF CountedWhileFresh, Locked
<1>3. ASSUME NEW t \in Threads,
             UpdateLastInteraction(t) \/ InsertEntry(t)
      PROVE  CountedWhileFresh'
  <2>1. pc'[t] \in {"open", "reset"} /\ pc[t] \in {"stamp", "insert"}
    BY <1>3 DEF UpdateLastInteraction, InsertEntry, Goto, Structure, TypeOK
  <2>2. \A u \in Threads \ {t} : pc'[u] \notin Locked
    BY <1>3, <2>1 DEF UpdateLastInteraction, InsertEntry, Goto, Structure,
                      TypeOK, Exclusion, Locked
  <2> QED BY <2>1, <2>2 DEF CountedWhileFresh, Locked
<1>4. ASSUME bans' = bans, now' = now,
             \A t \in Threads : pc'[t] \in {"count", "stamp"}
               => /\ pc'[t] = pc[t] /\ since'[t] = since[t]
                  /\ arg'[t] = arg[t]
      PROVE  CountedWhileFresh'
  BY <1>4 DEF CountedWhileFresh, AgeOf
<1>5. ASSUME NEW t \in Threads, Test(t) PROVE CountedWhileFresh'
  <2>1. bans' = bans /\ now' = now
    BY <1>5 DEF Test, FindEntry, TestTries, TestAge, Return
  <2>2. \A u \in Threads : pc'[u] \in {"count", "stamp"}
          => pc'[u] = pc[u] /\ since'[u] = since[u] /\ arg'[u] = arg[u]
    BY <1>5 DEF Test, FindEntry, TestTries, TestAge, Return, LetPass, Goto,
                Leave, Structure, TypeOK
  <2> QED BY <2>1, <2>2, <1>4
<1>6. ASSUME NEW t \in Threads,
             Lock(t) \/ OpenFile(t) \/ WriteFile(t) \/ Unlock(t)
      PROVE  CountedWhileFresh'
  <2>1. bans' = bans /\ now' = now
    BY <1>6 DEF Lock, OpenFile, WriteFile, Unlock
  <2>2. \A u \in Threads : pc'[u] \in {"count", "stamp"}
          => pc'[u] = pc[u] /\ since'[u] = since[u] /\ arg'[u] = arg[u]
    BY <1>6 DEF Lock, OpenFile, WriteFile, Unlock, Goto, Leave, Structure,
                TypeOK
  <2> QED BY <2>1, <2>2, <1>4
<1>7. ASSUME NEW t \in Threads, Call(t) PROVE CountedWhileFresh'
  <2>1. /\ bans' = bans /\ now' = now /\ since' = since
        /\ pc'[t] = "find"
        /\ \A u \in Threads \ {t} : pc'[u] = pc[u] /\ arg'[u] = arg[u]
    BY <1>7 DEF Call, Goto, Structure, TypeOK
  <2> QED BY <2>1 DEF CountedWhileFresh, AgeOf
<1>8. CASE Tick
  <2> SUFFICES ASSUME NEW t \in Threads, pc[t] \in {"count", "stamp"},
                      AgeOf(bans[arg[t]]) <= TRY_TIMEOUT + (now - since[t])
               PROVE  AgeOf(bans[arg[t]])'
                        <= TRY_TIMEOUT + (now' - since[t])
    BY <1>8 DEF Tick, CountedWhileFresh
  <2>1. arg[t] \in DOMAIN bans /\ now \in Nat /\ since[t] \in Nat
    BY DEF Structure, TypeOK, EntryExists, Locked
  <2>2. /\ ReadBack(bans[arg[t]].last) \in Nat
        /\ AgeOf(bans[arg[t]]) = now - ReadBack(bans[arg[t]].last)
    BY <2>1, AgeType, ReadBackLater DEF Structure
  <2>3. AgeOf(bans[arg[t]])' = now' - ReadBack(bans[arg[t]].last)
    BY <1>8 DEF Tick, AgeOf, AgeAt
  <2>4. now' = now + 1
    BY <1>8 DEF Tick
  <2> QED BY <2>1, <2>2, <2>3, <2>4, BanConstants
<1>9. CASE Crash \/ Load
  <2>1. \A t \in Threads : pc'[t] = "idle"
    BY <1>9 DEF Crash, Load, Structure, IdleWhenDown
  <2> QED BY <2>1 DEF CountedWhileFresh
<1>10. CASE UNCHANGED vars
  BY <1>4, <1>10 DEF vars
<1> QED
  BY <1>1, <1>2, <1>3, <1>5, <1>6, <1>7, <1>8, <1>9, <1>10, NoStray
  DEF Next, Update

LEMMA TriesStep ==
  ASSUME Structure, Bounds, ~TornReads, [Next]_vars
  PROVE  TriesBounded'
<1> USE DEF Bounds
<1>1. ASSUME NEW t \in Threads, CountTry(t) PROVE TriesBounded'
  <2>1. /\ arg[t] \in DOMAIN bans /\ DOMAIN bans' = DOMAIN bans
        /\ bans'[arg[t]].tries = bans[arg[t]].tries + 1
        /\ \A i \in DOMAIN bans \ {arg[t]} : bans'[i] = bans[i]
    BY <1>1, CountEffect
  <2>2. op[t] = "addFailed" /\ now - since[t] <= MaxDelay
        /\ now \in Nat /\ since[t] \in Nat
    BY <1>1, HolderTimely DEF CountTry, Locked
  <2>3. /\ bans[arg[t]].tries \in Nat /\ AgeOf(bans[arg[t]]) \in Int
        /\ Pending(arg[t]) \in SUBSET Threads
    BY <2>1, AgeType DEF Structure, Pending
  <2>4. t \in Pending(arg[t])
    BY <1>1, <2>2 DEF Pending, CountTry
  <2>5. Cardinality(Pending(arg[t])) >= 1
    <3>1. {} \subseteq Pending(arg[t]) \ {t} /\ {} \in SUBSET Threads
      OBVIOUS
    <3>2. Cardinality({}) <= Cardinality(Pending(arg[t])) - 1
      BY <2>3, <2>4, <3>1, SubsetSize
    <3>3. Cardinality({}) = 0 /\ Cardinality(Pending(arg[t])) \in Nat
      BY <2>3, FS_EmptySet, SubsetSize
    <3> QED BY <3>2, <3>3
  <2>6. Cardinality(Threads) >= 1
    BY <2>5, PendingSize, MaxTriesType
  <2>7. bans[arg[t]].tries + 1 <= MaxTries
    <3>1. CASE bans[arg[t]].tries = 0
      BY <2>6, <3>1, MaxTriesType, BanConstants DEF MaxTries
    <3>2. CASE AgeOf(bans[arg[t]]) <= TRY_TIMEOUT + (now - since[t])
      <4>1. AgeOf(bans[arg[t]]) < BAN_TIME
        BY <2>2, <2>3, <3>2, BanConstants
      <4>2. bans[arg[t]].tries + Cardinality(Pending(arg[t])) <= MaxTries
        BY <2>1, <4>1 DEF RoomForPending
      <4> QED BY <2>3, <2>5, <4>2, PendingSize, MaxTriesType
    <3> QED BY <1>1, <3>1, <3>2 DEF CountedWhileFresh, CountTry
  <2>8. fileBans' = fileBans
    BY <1>1 DEF CountTry, disk
  <2> QED BY <2>1, <2>7, <2>8 DEF TriesBounded
<1>2. ASSUME NEW t \in Threads, InsertEntry(t) PROVE TriesBounded'
  <2>1. fileBans' = fileBans
    BY <1>2 DEF InsertEntry, disk
  <2>2. /\ DOMAIN bans' = DOMAIN bans \cup {arg[t]}
        /\ bans'[arg[t]].tries = 0
        /\ \A i \in DOMAIN bans \ {arg[t]} : bans'[i] = bans[i]
    BY <1>2, InsertEffect
  <2>3. 0 <= MaxTries
    BY MaxTriesType
  <2> QED BY <2>1, <2>2, <2>3 DEF TriesBounded
<1>3. ASSUME NEW t \in Threads, ResetStale(t) PROVE TriesBounded'
  <2>1. fileBans' = fileBans
    BY <1>3 DEF ResetStale, disk
  <2> QED BY <1>3, <2>1, NoStray, ResetEffect, MaxTriesType DEF TriesBounded
<1>4. ASSUME NEW t \in Threads, UpdateLastInteraction(t)
      PROVE  TriesBounded'
  <2>1. fileBans' = fileBans
    BY <1>4 DEF UpdateLastInteraction, disk
  <2> QED BY <1>4, <2>1, StampEffect DEF TriesBounded
<1>5. CASE \E t \in Threads : \/ Call(t) \/ Test(t) \/ Lock(t)
                              \/ OpenFile(t) \/ WriteFile(t) \/ Unlock(t)
  BY <1>5 DEF Call, Test, FindEntry, TestTries, TestAge, Return, Lock,
              OpenFile, WriteFile, Unlock, disk, TriesBounded, EmptyTable
<1>6. CASE Tick \/ Crash \/ Load \/ UNCHANGED vars
  BY <1>6 DEF Tick, Crash, Load, vars, disk, TriesBounded, EmptyTable
<1> QED
  BY <1>1, <1>2, <1>3, <1>4, <1>5, <1>6, NoStray DEF Next, Update

(* A thread that starts to be pending is let past by an unbanned address.  *)
LEMMA LetPassUnbanned ==
  ASSUME Structure, ~TornReads, NEW t \in Threads, Test(t)
  PROVE  /\ UNCHANGED <<now, bans>>
         /\ \A u \in Threads \ {t} : /\ pc'[u] = pc[u] /\ since'[u] = since[u]
                                     /\ op'[u] = op[u] /\ arg'[u] = arg[u]
         /\ pc'[t] = "clear" => ~IsBanned(arg[t]) /\ arg'[t] = arg[t]
         /\ pc'[t] \notin {"insert", "reset", "count", "stamp"}
         /\ pc[t] # "stamp"
<1> USE DEF FindRaces, StampRaces, disk, LetPass, Goto, Leave, Structure,
            TypeOK, Returned
<1>1. CASE FindEntry(t)
  BY <1>1 DEF FindEntry, IsBanned
<1>2. CASE TestTries(t)
  <2>1. ~(bans[arg[t]].tries >= BAN_TRIES) => ~IsBanned(arg[t])
    BY DEF IsBanned
  <2> QED BY <1>2, <2>1 DEF TestTries
<1>3. CASE TestAge(t)
  <2>1. arg[t] \in DOMAIN bans
    BY <1>3 DEF TestAge, EntryExists
  <2>2. AgeOf(bans[arg[t]]) \in Int
    BY <2>1, AgeType
  <2>3. AgeOf(bans[arg[t]]) >= BAN_TIME => ~IsBanned(arg[t])
    BY <2>2, BanConstants DEF IsBanned
  <2> QED BY <1>3, <2>3 DEF TestAge
<1>4. CASE Return(t)
  BY <1>4 DEF Return
<1> QED BY <1>1, <1>2, <1>3, <1>4 DEF Test

LEMMA BannedStep ==
  ASSUME Structure, BannedSinceTest, ~TornReads, [Next]_vars
  PROVE  BannedSinceTest'
<1> DEFINE Before == {"clear", "insert", "reset", "count"}
(* Threads that were pending before, on an entry that did not change.      *)
<1>0. ASSUME NEW u \in Threads, u \in Pending(arg[u]),
             arg'[u] = arg[u], since'[u] = since[u],
             IsBanned(arg[u]), bans'[arg[u]] = bans[arg[u]],
             \A v \in Threads : pc[v] = "stamp" /\ arg[v] = arg[u]
               => pc'[v] = "stamp" /\ arg'[v] = arg[v]
      PROVE  \/ bans'[arg'[u]].last >= since'[u]
             \/ \E v \in Threads : pc'[v] = "stamp" /\ arg'[v] = arg'[u]
  BY <1>0 DEF BannedSinceTest
<1>1. ASSUME NEW t \in Threads, Test(t) PROVE BannedSinceTest'
  <2> SUFFICES ASSUME NEW u \in Threads, u \in Pending(arg[u])',
                      IsBanned(arg[u])'
               PROVE  \/ bans'[arg'[u]].last >= since'[u]
                      \/ \E v \in Threads :
                           pc'[v] = "stamp" /\ arg'[v] = arg'[u]
    BY DEF BannedSinceTest
  <2>1. /\ UNCHANGED <<now, bans>>
        /\ \A v \in Threads \ {t} : /\ pc'[v] = pc[v] /\ since'[v] = since[v]
                                    /\ op'[v] = op[v] /\ arg'[v] = arg[v]
        /\ pc'[t] = "clear" => ~IsBanned(arg[t]) /\ arg'[t] = arg[t]
        /\ pc'[t] \notin {"insert", "reset", "count", "stamp"}
        /\ pc[t] # "stamp"
    BY <1>1, LetPassUnbanned
  <2>2. IsBanned(arg[u]) /\ arg'[u] = arg[u]
    BY <2>1 DEF IsBanned, AgeOf, Pending
  <2>3. u # t
    BY <2>1, <2>2 DEF Pending
  <2>4. u \in Pending(arg[u])
    BY <2>1, <2>3 DEF Pending
  <2> QED BY <2>1, <2>2, <2>3, <2>4, <1>0
<1>2. ASSUME NEW t \in Threads,
             InsertEntry(t) \/ (ResetStale(t) /\ bans' # bans)
      PROVE  BannedSinceTest'
  <2> SUFFICES ASSUME NEW u \in Threads, u \in Pending(arg[u])',
                      IsBanned(arg[u])'
               PROVE  \/ bans'[arg'[u]].last >= since'[u]
                      \/ \E v \in Threads :
                           pc'[v] = "stamp" /\ arg'[v] = arg'[u]
    BY DEF BannedSinceTest
  <2>1. /\ bans'[arg[t]].tries = 0
        /\ DOMAIN bans' = DOMAIN bans \cup {arg[t]}
        /\ \A i \in DOMAIN bans \ {arg[t]} : bans'[i] = bans[i]
    BY <1>2, NoStray, InsertEffect, ResetEffect
  <2>2. /\ UNCHANGED <<now, op, arg, since>>
        /\ \A v \in Threads \ {t} : pc'[v] = pc[v]
        /\ pc[t] \in {"insert", "reset"}
    BY <1>2 DEF InsertEntry, ResetStale, Goto, Structure, TypeOK
  <2>3. arg[u] # arg[t]
    BY <2>1, <2>2, BanConstants DEF IsBanned
  <2>4. u \in Pending(arg[u])
    BY <2>2, <2>3 DEF Pending
  <2>5. IsBanned(arg[u]) /\ bans'[arg[u]] = bans[arg[u]]
    BY <2>1, <2>2, <2>3 DEF IsBanned, AgeOf
  <2>6. \A v \in Threads : pc[v] = "stamp" => pc'[v] = "stamp"
    BY <2>2
  <2>7. arg' = arg /\ since' = since
    BY <2>2
  <2> QED BY <2>4, <2>5, <2>6, <2>7, <1>0
<1>3. ASSUME NEW t \in Threads, CountTry(t) \/ UpdateLastInteraction(t)
      PROVE  BannedSinceTest'
  <2> SUFFICES ASSUME NEW u \in Threads, u \in Pending(arg[u])',
                      IsBanned(arg[u])'
               PROVE  \/ bans'[arg'[u]].last >= since'[u]
                      \/ \E v \in Threads :
                           pc'[v] = "stamp" /\ arg'[v] = arg'[u]
    BY DEF BannedSinceTest
  <2>1. /\ DOMAIN bans' = DOMAIN bans
        /\ \A i \in DOMAIN bans \ {arg[t]} : bans'[i] = bans[i]
    BY <1>3, CountEffect, StampEffect
  <2>2. /\ now' = now /\ op' = op /\ arg' = arg /\ since' = since
        /\ \A v \in Threads \ {t} : pc'[v] = pc[v]
    BY <1>3 DEF CountTry, UpdateLastInteraction, Goto, Structure, TypeOK
  <2>3. CASE arg[u] = arg[t]
    <3>1. CASE CountTry(t)
      <4>1. pc'[t] = "stamp"
        BY <3>1 DEF CountTry, Goto, Structure, TypeOK
      <4> QED BY <2>2, <2>3, <4>1
    <3>2. CASE UpdateLastInteraction(t)
      <4>1. bans'[arg[t]].last = now
        BY <3>2, StampEffect
      <4>2. now >= since[u]
        BY DEF Structure, TypeOK, Timely
      <4> QED BY <2>2, <2>3, <4>1, <4>2
    <3> QED BY <1>3, <3>1, <3>2
  <2>4. CASE arg[u] # arg[t]
    <3>1. u \in Pending(arg[u])
      BY <2>2, <2>4 DEF Pending
    <3>2. IsBanned(arg[u]) /\ bans'[arg[u]] = bans[arg[u]]
      BY <2>1, <2>2, <2>4 DEF IsBanned, AgeOf
    <3>3. \A v \in Threads : pc[v] = "stamp" /\ arg[v] = arg[u]
            => pc'[v] = "stamp"
      BY <2>2, <2>4
    <3> QED BY <2>2, <3>1, <3>2, <3>3, <1>0
  <2> QED BY <2>3, <2>4
<1>4. ASSUME NEW t \in Threads,
             \/ Lock(t) \/ OpenFile(t) \/ WriteFile(t) \/ Unlock(t)
             \/ (ResetStale(t) /\ bans' = bans)
      PROVE  BannedSinceTest'
  <2>1. /\ UNCHANGED <<now, bans>>
        /\ \A u \in Threads \ {t} : /\ pc'[u] = pc[u] /\ since'[u] = since[u]
                                    /\ op'[u] = op[u] /\ arg'[u] = arg[u]
        /\ pc'[t] \in Before => /\ pc[t] \in Before /\ since'[t] = since[t]
                                /\ op'[t] = op[t] /\ arg'[t] = arg[t]
        /\ pc[t] # "stamp"
    BY <1>4 DEF Lock, ResetStale, OpenFile, WriteFile, Unlock, Goto, Leave,
                Structure, TypeOK
  <2>2. \A ip : IsBanned(ip)' => IsBanned(ip)
    BY <2>1 DEF IsBanned, AgeOf
  <2>3. \A u \in Threads : u \in Pending(arg[u])'
          => /\ u \in Pending(arg[u])
             /\ arg'[u] = arg[u] /\ since'[u] = since[u]
    BY <2>1 DEF Pending
  <2> QED BY <2>1, <2>2, <2>3, <1>0 DEF BannedSinceTest
<1>5. ASSUME NEW t \in Threads, Call(t) PROVE BannedSinceTest'
  <2>1. /\ UNCHANGED <<now, bans, since>>
        /\ \A u \in Threads \ {t} :
             pc'[u] = pc[u] /\ op'[u] = op[u] /\ arg'[u] = arg[u]
        /\ pc[t] = "idle" /\ pc'[t] = "find"
    BY <1>5 DEF Call, Goto, Structure, TypeOK
  <2>2. \A ip : IsBanned(ip)' => IsBanned(ip)
    BY <2>1 DEF IsBanned, AgeOf
  <2>3. \A u \in Threads : u \in Pending(arg[u])'
          => u # t /\ u \in Pending(arg[u])
    BY <2>1 DEF Pending
  <2> QED BY <2>1, <2>2, <2>3, <1>0 DEF BannedSinceTest
<1>6. CASE Tick \/ UNCHANGED vars
  <2>1. /\ UNCHANGED <<bans, since, pc, op, arg>>
        /\ now \in Nat /\ now' \in Nat /\ now <= now'
    BY <1>6 DEF Tick, vars, Structure, TypeOK
  <2>2. ASSUME NEW ip, IsBanned(ip)' PROVE IsBanned(ip)
    <3>1. ip \in DOMAIN bans /\ bans[ip].tries >= BAN_TRIES
      BY <2>1, <2>2 DEF IsBanned
    <3>2. /\ ReadBack(bans[ip].last) \in Nat
          /\ AgeOf(bans[ip]) = now - ReadBack(bans[ip].last)
      BY <3>1, AgeType, ReadBackLater DEF Structure
    <3>3. now' - ReadBack(bans[ip].last) < BAN_TIME
      BY <2>1, <2>2 DEF IsBanned, AgeOf, AgeAt
    <3>4. AgeOf(bans[ip]) < BAN_TIME
      BY <2>1, <3>2, <3>3, BanConstants
    <3> QED BY <3>1, <3>4 DEF IsBanned
  <2>3. \A u \in Threads : u \in Pending(arg[u])' => u \in Pending(arg[u])
    BY <2>1 DEF Pending
  <2> QED BY <2>1, <2>2, <2>3, <1>0 DEF BannedSinceTest
<1>7. CASE Crash \/ Load
  <2>1. \A t \in Threads : pc'[t] = "idle"
    BY <1>7 DEF Crash, Load, Structure, IdleWhenDown
  <2> QED BY <2>1 DEF BannedSinceTest, Pending
<1>8. ASSUME NEW t \in Threads, Update(t) PROVE BannedSinceTest'
  <2>1. CASE InsertEntry(t) BY <1>2, <2>1
  <2>2. CASE ResetStale(t) BY <1>2, <1>4, <2>2
  <2>3. CASE CountTry(t) \/ UpdateLastInteraction(t) BY <1>3, <2>3
  <2>4. CASE OpenFile(t) \/ WriteFile(t) \/ Unlock(t) BY <1>4, <2>4
  <2> QED BY <1>8, <2>1, <2>2, <2>3, <2>4 DEF Update
<1>9. ASSUME NEW t \in Threads, Lock(t) PROVE BannedSinceTest'
  BY <1>4, <1>9
<1> QED
  BY <1>1, <1>5, <1>6, <1>7, <1>8, <1>9, NoStray DEF Next

-----------------------------------------------------------------------------
(* The theorems about bounds.                                              *)

LEMMA BoundsStep ==
  ASSUME Structure, Bounds, ~TornReads, [Next]_vars
  PROVE  Bounds'
  BY RoomStep, CountedStep, TriesStep, BannedStep DEF Bounds

(* BanInv is an inductive invariant, with or without racing reads.         *)
THEOREM Invariant == Spec => []BanInv
<1>1. Init => Structure /\ (~TornReads => Bounds)
  BY InitStructure, InitBounds
<1>2. Structure /\ (~TornReads => Bounds) /\ [Next]_vars
        => Structure' /\ (~TornReads => Bounds)'
  BY StructureStep, BoundsStep
<1>3. Structure /\ (~TornReads => Bounds) => BanInv
  BY DEF Structure, Bounds, BanInv, TriesBounded
<1> QED BY <1>1, <1>2, <1>3, PTL DEF Spec

(* However the threads interleave, no more attempts are counted past the   *)
(* limit than threads that were let past the ban test together: a bound    *)
(* on what the gap between addFailed's test and its update can do.         *)
THEOREM Bounded == Spec => []TriesBounded
<1>1. BanInv => TriesBounded
  BY DEF BanInv
<1> QED BY <1>1, Invariant, PTL

LEMMA NotLiftedStep ==
  ASSUME Structure, BannedSinceTest, ~TornReads, [Next]_vars,
         NEW ip \in Ips, IsBanned(ip), ~IsBanned(ip)', server' = "up"
  PROVE  AgeOf(bans[ip])' >= BAN_TIME
<1> SUFFICES ASSUME AgeOf(bans[ip])' < BAN_TIME \/ bans' # bans
             PROVE  FALSE
  <2>1. CASE bans' = bans
    <3>1. /\ ip \in DOMAIN bans
          /\ ReadBack(bans[ip].last) \in Nat
          /\ AgeOf(bans[ip])' = now' - ReadBack(bans[ip].last)
      BY <2>1, AgeType, ReadBackLater DEF IsBanned, AgeOf, AgeAt, Structure
    <3>2. now' \in Nat
      BY StructureStep DEF Structure, TypeOK
    <3> QED BY <2>1, <3>1, <3>2, BanConstants
  <2> QED BY <2>1
<1>1. ip \in DOMAIN bans /\ bans[ip].tries \in Nat
      /\ bans[ip].tries >= BAN_TRIES /\ AgeOf(bans[ip]) < BAN_TIME
  BY AgeType DEF IsBanned, Structure
<1>2. bans' # bans
  BY <1>1 DEF IsBanned
<1>3. PICK t \in Threads : \/ InsertEntry(t) \/ ResetStale(t)
                           \/ CountTry(t) \/ UpdateLastInteraction(t)
  BY <1>1, <1>2, NoStray
  DEF Next, vars, Call, Test, FindEntry, TestTries, TestAge, Return, Lock,
      Update, OpenFile, WriteFile, Unlock, Tick, Crash, Load, Structure,
      IdleWhenDown, EmptyTable
<1>4. now' = now /\ now \in Nat
  BY <1>3 DEF InsertEntry, ResetStale, CountTry, UpdateLastInteraction,
              Structure, TypeOK
<1>5. arg[t] = ip
  <2> SUFFICES ASSUME arg[t] # ip PROVE FALSE
    OBVIOUS
  <2>1. ip \in DOMAIN bans' /\ bans'[ip] = bans[ip]
    BY <1>1, <1>3, NoStray, InsertEffect, ResetEffect, CountEffect, StampEffect
  <2> QED BY <1>4, <2>1 DEF IsBanned, AgeOf
<1>6. CASE InsertEntry(t)
  BY <1>1, <1>5, <1>6, NoStray DEF InsertEntry, Structure, EntryExists
<1>7. CASE ResetStale(t)
  <2>1. AgeOf(bans[ip]) > TRY_TIMEOUT
    BY <1>2, <1>5, <1>7, NoStray, ResetEffect
  <2>2. /\ mutex = {t} /\ op[t] = "addFailed"
        /\ now - since[t] <= MaxDelay /\ since[t] \in Nat
    BY <1>7, HolderTimely DEF ResetStale, Locked
  <2>3. \A u \in Threads : pc[u] # "stamp"
    BY <1>7, <2>2 DEF ResetStale, Structure, Exclusion, Locked
  <2>4. t \in Pending(arg[t])
    BY <1>7, <2>2 DEF ResetStale, Pending
  <2>5. bans[ip].last >= since[t]
    BY <1>5, <2>3, <2>4 DEF BannedSinceTest
  <2>6. /\ AgeOf(bans[ip]) = now - ReadBack(bans[ip].last)
        /\ bans[ip].last \in Nat
        /\ ReadBack(bans[ip].last) \in Nat
        /\ ReadBack(bans[ip].last) >= bans[ip].last
    BY <1>1, AgeType, ReadBackLater DEF Structure
  <2> QED BY <1>4, <2>1, <2>2, <2>5, <2>6, BanConstants
<1>8. CASE CountTry(t)
  <2>1. /\ ip \in DOMAIN bans' /\ bans'[ip].last = bans[ip].last
        /\ bans'[ip].tries = bans[ip].tries + 1
    BY <1>5, <1>8, CountEffect
  <2> QED BY <1>1, <1>4, <2>1, BanConstants DEF IsBanned, AgeOf, AgeAt
<1>9. CASE UpdateLastInteraction(t)
  <2>1. /\ ip \in DOMAIN bans' /\ bans'[ip].last = now
        /\ bans'[ip].tries = bans[ip].tries
    BY <1>5, <1>9, StampEffect
  <2>2. ReadBack(now) \in Nat /\ ReadBack(now) >= now
    BY <1>4, ReadBackLater
  <2>3. now' - ReadBack(bans'[ip].last) < BAN_TIME
    BY <1>4, <2>1, <2>2, BanConstants
  <2> QED BY <1>1, <2>1, <2>3 DEF IsBanned, AgeOf, AgeAt
<1> QED BY <1>3, <1>6, <1>7, <1>8, <1>9

(* No ban is lifted before BAN_TIME has passed since its last attempt      *)
(* while the process lives, in particular not by the reset that addFailed  *)
(* decides without testing the ban again.                                  *)
THEOREM NotLiftedEarly == Spec => BanNotLiftedEarly
<1>1. BanInv /\ [Next]_vars
        => [\A ip \in Ips :
              ~TornReads /\ IsBanned(ip) /\ ~IsBanned(ip)' /\ server' = "up"
                => AgeOf(bans[ip])' >= BAN_TIME]_vars
  BY NotLiftedStep DEF BanInv, Structure
<1> QED BY <1>1, Invariant, PTL DEF Spec, BanNotLiftedEarly

-----------------------------------------------------------------------------
(* Memory is ahead of the file by the attempt that is being recorded.      *)

LEMMA FileAge ==
  ASSUME TypeOK, NEW ip \in DOMAIN fileBans
  PROVE  /\ fileBans[ip].tries \in Nat
         /\ ReadBack(fileBans[ip].last) \in Nat
         /\ \A at : AgeAt(fileBans[ip], at) = at - ReadBack(fileBans[ip].last)
  BY ReadBackLater DEF TypeOK, IsTable, Entry, AgeAt

(* An entry only grows older.                                              *)
LEMMA Older ==
  ASSUME TypeOK, NEW ip, NEW x \in Nat, NEW y \in Nat, x <= y
  PROVE  /\ StartsAnew(ip, x) => StartsAnew(ip, y)
         /\ GoesOn(ip, y) => GoesOn(ip, x)
<1>1. CASE ip \in DOMAIN fileBans
  <2>1. /\ ReadBack(fileBans[ip].last) \in Nat
        /\ AgeAt(fileBans[ip], x) = x - ReadBack(fileBans[ip].last)
        /\ AgeAt(fileBans[ip], y) = y - ReadBack(fileBans[ip].last)
    BY <1>1, FileAge
  <2> QED BY <2>1, BanConstants DEF StartsAnew, GoesOn
<1>2. CASE ip \notin DOMAIN fileBans
  BY <1>2 DEF StartsAnew, GoesOn
<1> QED BY <1>1, <1>2

LEMMA InitAhead == Init => OneAttemptAhead
  BY DEF Init, OneAttemptAhead, AheadBy, Dirty

(* A thread stands still while time passes.                                *)
LEMMA AheadFrame ==
  ASSUME Structure, NEW t \in Threads, AheadBy(t),
         pc'[t] = pc[t], arg'[t] = arg[t], since'[t] = since[t],
         bans' = bans, fileBans' = fileBans, now' \in Nat, now <= now'
  PROVE  AheadBy(t)'
<1>1. now \in Nat
  BY DEF Structure, TypeOK
<1>2. StartsAnew(arg[t], now) => StartsAnew(arg[t], now')
  BY <1>1, Older DEF Structure
<1>4. pc[t] = "open" => bans[arg[t]].last \in Nat
  BY AgeType DEF Structure, EntryExists, Locked
<1> QED BY <1>1, <1>2, <1>4 DEF AheadBy, StartsAnew, GoesOn

(* A thread that holds no lock, or writes, has nothing to show.            *)
LEMMA AheadElse ==
  ASSUME NEW t, pc[t] \notin Dirty \ {"write"}
  PROVE  AheadBy(t)
  BY DEF AheadBy, Dirty

(* Before an update the file and the memory agree.                         *)
LEMMA FileBefore ==
  ASSUME Structure, NEW t \in Threads, pc[t] = "insert" \/ mutex = {},
         server = "up", InOrder
  PROVE  fileBans = bans
<1>1. \A u \in Threads : pc[u] \notin Dirty
  BY DEF Structure, Exclusion, Dirty, Locked
<1> QED BY <1>1 DEF Structure, FileFollows

(* The first steps of an update: where the tries start.                    *)
LEMMA AheadAtReset ==
  ASSUME Structure, InOrder, NEW t \in Threads, Lock(t) \/ InsertEntry(t)
  PROVE  AheadBy(t)'
<1>1. server = "up" /\ pc[t] \in {"clear", "insert"}
  BY DEF Structure, IdleWhenDown, Lock, InsertEntry
<1>2. fileBans = bans /\ fileBans' = fileBans /\ arg' = arg
  BY <1>1, FileBefore DEF Lock, InsertEntry, disk
<1>3. CASE pc'[t] = "insert"
  BY <1>3 DEF AheadBy, Dirty
<1>4. CASE Lock(t) /\ pc'[t] # "insert"
  <2>1. arg[t] \in DOMAIN bans /\ bans' = bans /\ pc'[t] = "reset"
    BY <1>4 DEF Lock, Goto, Structure, TypeOK
  <2> QED BY <1>2, <2>1 DEF AheadBy, Dirty
<1>5. CASE InsertEntry(t)
  <2>1. pc'[t] = "reset" /\ arg[t] \notin DOMAIN bans
    BY <1>5 DEF InsertEntry, Goto, Structure, TypeOK, EntryExists,
                InOrder
  <2>2. /\ DOMAIN bans' = DOMAIN bans \cup {arg[t]}
        /\ bans'[arg[t]].tries = 0
        /\ \A i \in DOMAIN bans \ {arg[t]} : bans'[i] = bans[i]
    BY <1>5, InsertEffect
  <2> QED BY <1>2, <2>1, <2>2 DEF AheadBy, Dirty
<1> QED BY <1>3, <1>4, <1>5

LEMMA AheadAtCount ==
  ASSUME Structure, InOrder, NEW t \in Threads, AheadBy(t), ResetStale(t)
  PROVE  AheadBy(t)'
<1> DEFINE ip == arg[t]
<1>1. /\ pc[t] = "reset" /\ pc'[t] = "count"
      /\ fileBans' = fileBans /\ arg' = arg /\ since' = since /\ now' = now
  BY DEF ResetStale, disk, Goto, Structure, TypeOK
<1>2. /\ ip \in DOMAIN bans /\ DOMAIN bans' = DOMAIN bans
      /\ bans'[ip].tries = 0 \/ bans' = bans
      /\ bans' = bans => AgeOf(bans[ip]) <= TRY_TIMEOUT \/ bans[ip].tries = 0
      /\ bans' # bans => AgeOf(bans[ip]) > TRY_TIMEOUT
      /\ \A i \in DOMAIN bans \ {ip} : bans'[i] = bans[i]
  BY ResetEffect DEF InOrder
<1>3. /\ now \in Nat /\ since[t] \in Nat /\ since[t] <= now
      /\ AgeOf(bans[ip]) \in Int
  BY <1>1, <1>2, HolderTimely, AgeType DEF Locked, Structure
<1>4. /\ DOMAIN bans' = DOMAIN fileBans \cup {ip}
      /\ \A i \in DOMAIN fileBans \ {ip} : bans'[i] = fileBans[i]
  BY <1>1, <1>2 DEF AheadBy, Dirty
<1>5. \/ GoesOn(ip, since[t]) /\ bans'[ip].tries = fileBans[ip].tries
      \/ StartsAnew(ip, now) /\ bans'[ip].tries = 0
  <2>1. CASE ip \notin DOMAIN fileBans /\ bans[ip].tries = 0
    BY <1>2, <2>1 DEF StartsAnew
  <2>2. CASE ip \in DOMAIN fileBans /\ bans[ip] = fileBans[ip]
    <3>1. AgeAt(fileBans[ip], now) = AgeOf(bans[ip])
      BY <2>2 DEF AgeOf
    <3>2. CASE AgeOf(bans[ip]) > TRY_TIMEOUT
      <4>1. bans'[ip].tries = 0
        BY <1>2, <1>3, <3>2, BanConstants
      <4> QED BY <3>1, <3>2, <4>1 DEF StartsAnew
    <3>3. CASE AgeOf(bans[ip]) <= TRY_TIMEOUT
      <4>1. bans' = bans
        BY <1>2, <1>3, <3>3, BanConstants
      <4>2. GoesOn(ip, since[t])
        BY <1>3, <2>2, <3>1, <3>3, Older DEF GoesOn, Structure
      <4> QED BY <2>2, <4>1, <4>2
    <3> QED BY <1>3, <3>2, <3>3, BanConstants
  <2> QED BY <1>1, <2>1, <2>2 DEF AheadBy
<1> QED BY <1>1, <1>4, <1>5 DEF AheadBy, Dirty, GoesOn, StartsAnew

LEMMA AheadAtStamp ==
  ASSUME Structure, NEW t \in Threads, AheadBy(t), CountTry(t)
  PROVE  AheadBy(t)'
<1> DEFINE ip == arg[t]
<1>1. /\ pc[t] = "count" /\ pc'[t] = "stamp"
      /\ fileBans' = fileBans /\ arg' = arg /\ since' = since /\ now' = now
  BY DEF CountTry, disk, Goto, Structure, TypeOK
<1>2. /\ ip \in DOMAIN bans /\ DOMAIN bans' = DOMAIN bans
      /\ bans'[ip].tries = bans[ip].tries + 1
      /\ \A i \in DOMAIN bans \ {ip} : bans'[i] = bans[i]
  BY CountEffect
<1>3. /\ DOMAIN bans' = DOMAIN fileBans \cup {ip}
      /\ \A i \in DOMAIN fileBans \ {ip} : bans'[i] = fileBans[i]
  BY <1>1, <1>2 DEF AheadBy, Dirty
<1>4. \/ GoesOn(ip, since[t]) /\ bans'[ip].tries = fileBans[ip].tries + 1
      \/ StartsAnew(ip, now) /\ bans'[ip].tries = 1
  BY <1>1, <1>2 DEF AheadBy
<1> QED BY <1>1, <1>3, <1>4 DEF AheadBy, Dirty, GoesOn, StartsAnew

LEMMA AheadAtOpen ==
  ASSUME Structure, NEW t \in Threads, AheadBy(t), UpdateLastInteraction(t)
  PROVE  AheadBy(t)'
<1> DEFINE ip == arg[t]
<1>1. /\ pc[t] = "stamp" /\ pc'[t] = "open"
      /\ fileBans' = fileBans /\ arg' = arg /\ since' = since /\ now' = now
  BY DEF UpdateLastInteraction, disk, Goto, Structure, TypeOK
<1>2. /\ ip \in DOMAIN bans /\ DOMAIN bans' = DOMAIN bans
      /\ bans'[ip].tries = bans[ip].tries /\ bans'[ip].last = now
      /\ \A i \in DOMAIN bans \ {ip} : bans'[i] = bans[i]
  BY StampEffect
<1>3. now \in Nat /\ since[t] \in Nat /\ since[t] <= now
  BY <1>1, HolderTimely DEF Locked
<1>4. /\ DOMAIN bans' = DOMAIN fileBans \cup {ip}
      /\ \A i \in DOMAIN fileBans \ {ip} : bans'[i] = fileBans[i]
  BY <1>1, <1>2 DEF AheadBy, Dirty
<1>5. \/ GoesOn(ip, since[t]) /\ bans'[ip].tries = fileBans[ip].tries + 1
      \/ StartsAnew(ip, now) /\ bans'[ip].tries = 1
  BY <1>1, <1>2 DEF AheadBy
<1>6. since[t] <= bans'[ip].last /\ bans'[ip].last <= now
  BY <1>2, <1>3
<1> QED BY <1>1, <1>2, <1>4, <1>5, <1>6 DEF AheadBy, Dirty, GoesOn, StartsAnew

(* When a save() works again, or at the start, no thread has anything to   *)
(* show.                                                                   *)
LEMMA AheadAgain ==
  ASSUME Structure, ~InOrder, InOrder', [Next]_vars
  PROVE  OneAttemptAhead'
<1>1. ASSUME NEW t \in Threads, WriteFile(t) PROVE OneAttemptAhead'
  <2>1. \A u \in Threads : pc'[u] \notin Dirty
    BY <1>1 DEF WriteFile, Goto, Structure, TypeOK, Exclusion, Locked, Dirty
  <2> QED BY <2>1 DEF OneAttemptAhead, AheadBy, Dirty
<1>2. CASE Load
  BY <1>2 DEF Load, Structure, IdleWhenDown, OneAttemptAhead, AheadBy, Dirty
<1>3. ASSUME NEW t \in Threads,
             \/ Call(t) \/ Test(t) \/ Stray(t) \/ Lock(t)
             \/ Update(t) /\ ~WriteFile(t)
      PROVE  FALSE
  BY <1>3
  DEF Call, Test, FindEntry, TestTries, TestAge, Return, Stray, MissEntry,
      InsertStray, Lock, Update, InsertEntry, ResetStale, CountTry,
      UpdateLastInteraction, OpenFile, Unlock, history, InOrder, Structure,
      TypeOK
<1>4. CASE Tick \/ Crash \/ UNCHANGED vars
  BY <1>4 DEF Tick, Crash, vars, history, InOrder
<1> QED BY <1>1, <1>2, <1>3, <1>4 DEF Next

LEMMA AheadStep ==
  ASSUME Structure, OneAttemptAhead, [Next]_vars
  PROVE  OneAttemptAhead'
<1> SUFFICES ASSUME InOrder, InOrder', NEW t \in Threads PROVE AheadBy(t)'
  BY AheadAgain DEF OneAttemptAhead
<1>0. AheadBy(t) /\ now \in Nat
  BY DEF OneAttemptAhead, Structure, TypeOK
<1>1. CASE pc'[t] \notin Dirty \ {"write"}
  BY <1>1 DEF AheadBy, Dirty
<1>2. ASSUME NEW u \in Threads \ {t},
             Call(u) \/ Test(u) \/ Lock(u) \/ Update(u)
      PROVE  AheadBy(t)'
  <2>1. /\ pc'[t] = pc[t] /\ arg'[t] = arg[t] /\ since'[t] = since[t]
        /\ now' = now
    BY <1>2 DEF Call, Test, FindEntry, TestTries, TestAge, Return, LetPass,
                Lock, Update, InsertEntry, ResetStale, CountTry, Goto, Leave,
                UpdateLastInteraction, OpenFile, WriteFile, Unlock,
                Structure, TypeOK
  <2>2. CASE pc[t] \notin Dirty
    BY <1>1, <2>1, <2>2
  <2>3. CASE pc[t] \in Dirty
    <3>1. ~Update(u)
      BY <2>3 DEF Update, InsertEntry, ResetStale, CountTry, Dirty, Locked,
                  UpdateLastInteraction, OpenFile, WriteFile, Unlock,
                  Structure, Exclusion
    <3>2. bans' = bans /\ fileBans' = fileBans
      BY <1>2, <3>1 DEF Call, Test, FindEntry, TestTries, TestAge, Return,
                        Lock, disk
    <3> QED BY <1>0, <2>1, <3>2, AheadFrame
  <2> QED BY <2>2, <2>3
<1>3. CASE Call(t) \/ Test(t)
  BY <1>1, <1>3 DEF Call, Test, FindEntry, TestTries, TestAge, Return,
                    LetPass, Goto, Leave, Structure, TypeOK, Dirty
<1>4. CASE OpenFile(t) \/ WriteFile(t) \/ Unlock(t)
  BY <1>1, <1>4 DEF OpenFile, WriteFile, Unlock, Goto, Leave, Structure,
                    TypeOK, Dirty
<1>5. CASE Lock(t) \/ Update(t)
  BY <1>0, <1>4, <1>5, AheadAtReset, AheadAtCount, AheadAtStamp, AheadAtOpen
  DEF Update
<1>6. CASE Tick \/ UNCHANGED vars
  <2>1. /\ pc' = pc /\ arg' = arg /\ since' = since /\ bans' = bans
        /\ fileBans' = fileBans /\ now' \in Nat /\ now <= now'
    BY <1>0, <1>6 DEF Tick, vars, disk
  <2> QED BY <1>0, <2>1, AheadFrame
<1>7. CASE Crash \/ Load
  BY <1>1, <1>7 DEF Crash, Load, Structure, IdleWhenDown, Dirty
<1>8. CASE \E u \in Threads : Stray(u)
  BY <1>8 DEF Stray, MissEntry, InsertStray, Structure, StraysNoted, InOrder
<1> QED BY <1>2, <1>3, <1>5, <1>6, <1>7, <1>8 DEF Next

(* While an update runs the memory is ahead of bans.json by one attempt,   *)
(* for any number of threads, also when reads race, as long as the saves   *)
(* work and no search has inserted an entry.                               *)
THEOREM AheadByOne == Spec => []OneAttemptAhead
<1>1. Init => Structure /\ OneAttemptAhead
  BY InitStructure, InitAhead
<1>2. Structure /\ OneAttemptAhead /\ [Next]_vars
        => Structure' /\ OneAttemptAhead'
  BY StructureStep, AheadStep
<1> QED BY <1>1, <1>2, PTL DEF Spec

-----------------------------------------------------------------------------
(* BanRepository implements BanTable.                                      *)

(* Truncating the file makes the attempt of its thread the recorded one.   *)
LEMMA OpenRecords ==
  ASSUME Structure, NEW t \in Threads, AheadBy(t), OpenFile(t)
  PROVE  \E at \in (now - MaxDelay) .. now :
           /\ at >= 0
           /\ \/ /\ \/ arg[t] \notin DOMAIN fileBans
                    \/ AgeAt(fileBans[arg[t]], at) > TRY_TIMEOUT
                 /\ bans = With(fileBans, arg[t], [tries |-> 1, last |-> at])
              \/ /\ arg[t] \in DOMAIN fileBans
                 /\ AgeAt(fileBans[arg[t]], now - MaxDelay) <= TRY_TIMEOUT
                 /\ bans = With(fileBans, arg[t],
                                [tries |-> fileBans[arg[t]].tries + 1, last |-> at])
<1> DEFINE ip == arg[t]
           at == bans[ip].last
<1>1. /\ pc[t] = "open" /\ ip \in DOMAIN bans /\ IsTable(bans)
      /\ at \in Nat /\ bans[ip] \in Entry
  BY DEF OpenFile, Structure, TypeOK, EntryExists, Locked, IsTable, Entry
<1>2. /\ now \in Nat /\ since[t] \in Nat
      /\ now - since[t] <= MaxDelay
  BY <1>1, HolderTimely DEF Locked
<1>3. since[t] <= at /\ at <= now
  BY <1>1 DEF AheadBy
<1>4. at \in (now - MaxDelay) .. now /\ at >= 0
  BY <1>1, <1>2, <1>3, BanConstants
<1>5. ASSUME NEW n, bans[ip].tries = n
      PROVE  bans = With(fileBans, ip, [tries |-> n, last |-> at])
  <2>1. /\ DOMAIN bans = DOMAIN fileBans \cup {ip}
        /\ \A i \in DOMAIN fileBans \ {ip} : bans[i] = fileBans[i]
    BY <1>1 DEF AheadBy, Dirty
  <2>2. bans[ip] = [tries |-> n, last |-> at]
    BY <1>1, <1>5 DEF Entry
  <2>3. bans = [i \in DOMAIN bans |-> bans[i]]
    BY <1>1 DEF IsTable
  <2> HIDE DEF ip, at
  <2>4. \A i \in DOMAIN bans :
          bans[i] = IF i = ip THEN [tries |-> n, last |-> at] ELSE fileBans[i]
    BY <2>1, <2>2
  <2> QED BY <2>1, <2>3, <2>4 DEF With
<1>6. CASE StartsAnew(ip, at) /\ bans[ip].tries = 1
  BY <1>4, <1>5, <1>6 DEF StartsAnew
<1>7. CASE GoesOn(ip, since[t]) /\ bans[ip].tries = fileBans[ip].tries + 1
  <2>1. /\ ip \in DOMAIN fileBans
        /\ AgeAt(fileBans[ip], since[t]) <= TRY_TIMEOUT
    BY <1>7 DEF GoesOn
  <2>2. /\ ReadBack(fileBans[ip].last) \in Nat
        /\ AgeAt(fileBans[ip], since[t]) = since[t] - ReadBack(fileBans[ip].last)
        /\ AgeAt(fileBans[ip], now - MaxDelay)
             = (now - MaxDelay) - ReadBack(fileBans[ip].last)
    BY <2>1, FileAge DEF Structure
  <2>3. AgeAt(fileBans[ip], now - MaxDelay) <= TRY_TIMEOUT
    BY <1>2, <2>1, <2>2, BanConstants
  <2> QED BY <1>4, <1>5, <1>7, <2>1, <2>3
<1> QED BY <1>1, <1>6, <1>7 DEF AheadBy

LEMMA InitRefines == Init => Durable!Init
  BY DEF Init, Durable!Init, Recorded, Status, Lost, InOrder, EmptyTable,
         Durable!EmptyTable

LEMMA SameTables ==
  /\ Durable!EmptyTable = EmptyTable
  /\ \A table : Durable!IsTable(table) <=> IsTable(table)
  BY DEF Durable!EmptyTable, EmptyTable, Durable!IsTable, IsTable,
         Durable!Entry, Entry

(* What the promise is, and that a step keeps it, by status.               *)
Stutter == now' = now /\ Recorded' = Recorded /\ Status' = Status

LEMMA Suspends ==
  ASSUME Status = "ok", Status' = "suspended", now' = now
  PROVE  Durable!Next
<1>1. Recorded' = EmptyTable
  BY DEF Status, Recorded, Lost
<1> QED BY <1>1, SameTables DEF Durable!Next, Durable!Suspend

LEMMA Loses ==
  ASSUME Status # "lost", Status' = "lost", now' = now
  PROVE  Durable!Next
<1>1. Recorded' = EmptyTable
  BY DEF Status, Recorded
<1> QED BY <1>1, SameTables DEF Durable!Next, Durable!Lose

LEMMA Resumes ==
  ASSUME TypeOK', Status = "suspended", Status' = "ok", now' = now
  PROVE  Durable!Next
<1>1. IsTable(Recorded')
  BY EmptyTableType DEF TypeOK, Recorded
<1> QED BY <1>1, SameTables DEF Durable!Next, Durable!Resume

LEMMA StaysAway ==
  ASSUME Status # "ok", Status' = Status, now' = now
  PROVE  Stutter
  BY DEF Status, Recorded, Stutter

LEMMA OpenRefines ==
  ASSUME Structure, OneAttemptAhead, NEW t \in Threads, OpenFile(t),
         InOrder, InOrder'
  PROVE  Durable!Next
<1>1. pc[t] = "open" /\ server = "up" /\ arg[t] \in Ips
  BY DEF OpenFile, Structure, IdleWhenDown, TypeOK
<1>2. fileState # "torn"
  BY <1>1 DEF Structure, FileFollows, Exclusion, Locked
<1>3. fileState' = "torn" /\ now' = now /\ bans' = bans /\ server' = "up"
  BY <1>1 DEF OpenFile, InOrder
<1>4. /\ Recorded = fileBans /\ Recorded' = bans
      /\ Status = "ok" /\ Status' = "ok"
  BY <1>1, <1>2, <1>3 DEF Recorded, Status, Lost
<1>5. AheadBy(t) BY DEF OneAttemptAhead
<1>6. /\ \A e, at : Durable!AgeAt(e, at) = AgeAt(e, at)
      /\ \A b, ip, e : Durable!With(b, ip, e) = With(b, ip, e)
  BY DEF Durable!AgeAt, Durable!ReadBack, Durable!With, AgeAt, ReadBack, With
<1>7. Durable!Record(arg[t])
  <2>1. PICK at \in (now - MaxDelay) .. now :
          /\ at >= 0
          /\ \/ /\ \/ arg[t] \notin DOMAIN fileBans
                   \/ AgeAt(fileBans[arg[t]], at) > TRY_TIMEOUT
                /\ bans = With(fileBans, arg[t], [tries |-> 1, last |-> at])
             \/ /\ arg[t] \in DOMAIN fileBans
                /\ AgeAt(fileBans[arg[t]], now - MaxDelay) <= TRY_TIMEOUT
                /\ bans = With(fileBans, arg[t],
                               [tries |-> fileBans[arg[t]].tries + 1, last |-> at])
    BY <1>1, <1>3, <1>5, OpenRecords
  <2>2. \/ /\ \/ arg[t] \notin DOMAIN Recorded
              \/ Durable!AgeAt(Recorded[arg[t]], at) > TRY_TIMEOUT
           /\ Recorded' = Durable!With(Recorded, arg[t], [tries |-> 1, last |-> at])
        \/ /\ arg[t] \in DOMAIN Recorded
           /\ Durable!AgeAt(Recorded[arg[t]], now - MaxDelay) <= TRY_TIMEOUT
           /\ Recorded' = Durable!With(Recorded, arg[t],
                              [tries |-> Recorded[arg[t]].tries + 1, last |-> at])
    BY <1>4, <1>6, <2>1
  <2> QED BY <2>1, <2>2 DEF Durable!Record
<1>8. Durable!Fail(arg[t])
  BY <1>3, <1>4, <1>7 DEF Durable!Fail
<1> QED BY <1>1, <1>8 DEF Durable!Next

LEMMA StepRefines ==
  ASSUME Structure, OneAttemptAhead, [Next]_vars
  PROVE  Durable!Next \/ Stutter
<1>1. CASE \/ \E t \in Threads : Call(t) \/ Test(t) \/ Lock(t) \/ Unlock(t)
           \/ UNCHANGED vars
  <2>1. UNCHANGED <<now, bans, fileBans, fileState, server, unsaved, strayed>>
    BY <1>1 DEF Call, Test, FindEntry, TestTries, TestAge, Return, Lock,
                Unlock, vars, disk, history
  <2> QED BY <2>1 DEF Stutter, Recorded, Status, Lost, InOrder
<1>2. ASSUME NEW t \in Threads,
             \/ InsertEntry(t) \/ ResetStale(t) \/ CountTry(t)
             \/ UpdateLastInteraction(t)
      PROVE  Stutter
  <2>1. /\ pc[t] \in Dirty \cup {"insert"} /\ pc[t] # "write"
        /\ UNCHANGED <<now, fileBans, fileState, server, unsaved, strayed>>
    BY <1>2 DEF InsertEntry, ResetStale, CountTry, UpdateLastInteraction,
                disk, history, Dirty
  <2>2. \A u \in Threads : pc[u] # "write"
    BY <2>1 DEF Structure, Exclusion, Locked, Dirty
  <2>3. server = "up" /\ InOrder => fileState # "torn"
    BY <2>2 DEF Structure, FileFollows
  <2> QED BY <2>1, <2>3 DEF Stutter, Recorded, Status, Lost, InOrder
<1>3. ASSUME NEW t \in Threads, Stray(t) PROVE Durable!Next \/ Stutter
  <2>1. /\ UNCHANGED <<now, fileState, server>> /\ strayed'
        /\ server = "up"
    BY <1>3 DEF Stray, MissEntry, InsertStray, Structure, StraysNoted, disk,
                history, IdleWhenDown
  <2>2. Status \in {"ok", "suspended"} /\ Status' = "suspended"
    BY <2>1 DEF Status, Lost, InOrder
  <2> QED BY <2>1, <2>2, Suspends, StaysAway
<1>4. ASSUME NEW t \in Threads, OpenFile(t) \/ WriteFile(t)
      PROVE  Durable!Next \/ Stutter
  <2>1. server = "up" /\ server' = "up" /\ now' = now /\ bans' = bans
    BY <1>4 DEF OpenFile, WriteFile, Structure, IdleWhenDown
  <2>2. /\ Status = (IF InOrder THEN "ok" ELSE "suspended")
        /\ Status' = (IF InOrder' THEN "ok" ELSE "suspended")
    BY <2>1 DEF Status, Lost
  <2>3. CASE ~InOrder /\ ~InOrder'
    BY <2>1, <2>2, <2>3, StaysAway
  <2>4. CASE InOrder /\ ~InOrder'
    BY <2>1, <2>2, <2>4, Suspends
  <2>5. CASE ~InOrder /\ InOrder'
    BY <2>1, <2>2, <2>5, Resumes, StructureStep DEF Structure
  <2>6. CASE InOrder /\ InOrder' /\ OpenFile(t)
    BY <2>6, OpenRefines
  <2>7. CASE InOrder /\ InOrder' /\ WriteFile(t)
    <3>1. fileState = "torn" /\ fileState' = "complete" /\ fileBans' = bans
      BY <2>1, <2>7 DEF WriteFile, Structure, FileFollows, InOrder
    <3> QED BY <2>1, <2>2, <2>7, <3>1 DEF Stutter, Recorded, Lost
  <2> QED BY <1>4, <2>3, <2>4, <2>5, <2>6, <2>7
<1>5. CASE Tick
  <2>1. /\ now' = now + 1
        /\ UNCHANGED <<bans, fileBans, fileState, server, unsaved, strayed>>
    BY <1>5 DEF Tick, disk, history
  <2>2. Recorded' = Recorded /\ Status' = Status
    BY <2>1 DEF Recorded, Status, Lost, InOrder
  <2> QED BY <2>1, <2>2 DEF Durable!Next, Durable!Tick
<1>6. CASE Crash
  <2>1. /\ server = "up" /\ server' = "down" /\ now' = now
        /\ UNCHANGED <<fileBans, fileState, unsaved, strayed>>
    BY <1>6 DEF Crash, disk, history
  <2>2. CASE fileState = "torn"
    <3>1. Status # "lost" /\ Status' = "lost"
      BY <2>1, <2>2 DEF Status, Lost
    <3> QED BY <2>1, <3>1, Loses
  <2>3. CASE fileState # "torn"
    BY <2>1, <2>3 DEF Stutter, Recorded, Status, Lost, InOrder
  <2> QED BY <2>2, <2>3
<1>7. CASE Load
  <2>1. /\ server = "down" /\ now' = now
        /\ server' = (IF fileState = "torn" THEN "failed" ELSE "up")
        /\ fileBans' = fileBans /\ fileState' = fileState /\ InOrder'
    BY <1>7 DEF Load, disk, InOrder
  <2>2. CASE fileState = "torn"
    <3>1. Status = "lost" /\ Status' = "lost"
      BY <2>1, <2>2 DEF Status, Lost
    <3> QED BY <2>1, <3>1, StaysAway
  <2>3. CASE fileState # "torn" /\ InOrder
    BY <2>1, <2>3 DEF Stutter, Recorded, Status, Lost
  <2>4. CASE fileState # "torn" /\ ~InOrder
    <3>1. Status = "suspended" /\ Status' = "ok"
      BY <2>1, <2>4 DEF Status, Lost
    <3> QED BY <2>1, <3>1, Resumes, StructureStep DEF Structure
  <2> QED BY <2>2, <2>3, <2>4
<1> QED BY <1>1, <1>2, <1>3, <1>4, <1>5, <1>6, <1>7 DEF Next, Update

(* The file, with what save() is about to put into it, evolves as BanTable *)
(* promises, whatever the threads do, wherever the process dies, whichever *)
(* search misses an entry or inserts one and whichever save() fails.       *)
THEOREM Durability == Spec => RefinesBanTable
<1>1. Init => Structure /\ OneAttemptAhead
  BY InitStructure, InitAhead
<1>2. Structure /\ OneAttemptAhead /\ [Next]_vars
        => Structure' /\ OneAttemptAhead'
  BY StructureStep, AheadStep
<1>3. Structure /\ OneAttemptAhead /\ [Next]_vars
        => [Durable!Next]_<<now, Recorded, Status>>
  BY StepRefines DEF Stutter
<1> QED BY <1>1, <1>2, <1>3, InitRefines, PTL
        DEF Spec, RefinesBanTable, Durable!Spec

=============================================================================
