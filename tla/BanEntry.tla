------------------------------ MODULE BanEntry ------------------------------
(***************************************************************************)
(* A ban table entry, persistence/entities/banTableEntry.hpp, and the      *)
(* table of entries that BanRepository keeps and saves.                    *)
(***************************************************************************)
EXTENDS Integers

CONSTANTS
  Ips,        \* the client addresses
  Summer,     \* the instants at which daylight saving time is in effect
  DstShift    \* seconds it adds to local time (0: a zone without it)

ASSUME DstShiftAssumption == DstShift \in Nat

Entry == [tries : Nat, last : Nat]
IsTable(t) == DOMAIN t \subseteq Ips /\ t \in [DOMAIN t -> Entry]
EmptyTable == [ip \in {} |-> [tries |-> 0, last |-> 0]]

(* The table with an entry for ip, new or replaced.                        *)
With(table, ip, entry) ==
  [i \in DOMAIN table \cup {ip} |-> IF i = ip THEN entry ELSE table[i]]

(* lastInteraction is text in local time.  get_time does not recover the   *)
(* zone, tm_isdst stays 0 and mktime takes the text for standard time: a   *)
(* stamp written in summer comes back DstShift seconds late.               *)
ReadBack(stamp) == stamp + (IF stamp \in Summer THEN DstShift ELSE 0)

AgeAt(entry, time) == time - ReadBack(entry.last)

=============================================================================
