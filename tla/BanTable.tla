------------------------------ MODULE BanTable ------------------------------
(***************************************************************************)
(* What the ban list promises to whoever restarts the server: a table that *)
(* changes one failed attempt at a time, whatever the threads and the      *)
(* restarts do.  The promise is suspended when a save() fails or a racing  *)
(* search inserts an entry, until a later save() or the next start, and it *)
(* is over when the process dies with the file truncated.                  *)
(***************************************************************************)
EXTENDS BanEntry

CONSTANTS
  TRY_TIMEOUT,  \* seconds after which attempts start afresh
  MaxDelay      \* seconds an attempt may take to be recorded

VARIABLES
  time,    \* the clock
  table,   \* the recorded attempts
  status   \* "ok", "suspended" or "lost"

Init ==
  /\ time = 0
  /\ table = EmptyTable
  /\ status = "ok"

Tick ==
  /\ time' = time + 1
  /\ UNCHANGED <<table, status>>

(* One failed attempt is recorded, stamped with the instant `at`.  Between *)
(* the staleness test and the stamp up to MaxDelay seconds have passed.    *)
Record(ip) ==
  \E at \in (time - MaxDelay) .. time :
    /\ at >= 0
    /\ \/ /\ \/ ip \notin DOMAIN table
             \/ AgeAt(table[ip], at) > TRY_TIMEOUT
          /\ table' = With(table, ip, [tries |-> 1, last |-> at])
       \/ /\ ip \in DOMAIN table
          /\ AgeAt(table[ip], time - MaxDelay) <= TRY_TIMEOUT
          /\ table' = With(table, ip,
                           [tries |-> table[ip].tries + 1, last |-> at])

Fail(ip) ==
  /\ status = "ok"
  /\ Record(ip)
  /\ UNCHANGED <<time, status>>

(* While the promise is suspended nothing is said of the table; what it    *)
(* resumes with may hold any attempts.                                     *)
Suspend ==
  /\ status = "ok"
  /\ table' = EmptyTable /\ status' = "suspended"
  /\ UNCHANGED time

Resume ==
  /\ status = "suspended"
  /\ status' = "ok"
  /\ IsTable(table')
  /\ UNCHANGED time

(* The process dies while the file is truncated.                           *)
Lose ==
  /\ status # "lost"
  /\ table' = EmptyTable /\ status' = "lost"
  /\ UNCHANGED time

Next == Tick \/ Suspend \/ Resume \/ Lose \/ \E ip \in Ips : Fail(ip)

Spec == Init /\ [][Next]_<<time, table, status>>

=============================================================================
