----------------------------- MODULE SeatLedger -----------------------------
(***************************************************************************)
(* What the registration pipeline promises about a run, stated per account *)
(* attempt and without workers, queues or counters: an attempt is opened   *)
(* once, it is counted towards the target or closed, and no more than      *)
(* Target attempts are ever counted.  Nothing is undone.                   *)
(***************************************************************************)
EXTENDS Naturals, FiniteSets

CONSTANTS
  Attempts,   \* the account attempts a run may start
  Target      \* the -t of the run: how many successes are wanted

VARIABLE ledger   \* [Attempts -> {"unused", "open", "counted", "closed"}]

In(status) == {a \in Attempts : ledger[a] = status}

Init == ledger = [a \in Attempts |-> "unused"]

(* A seat is taken for a new account. *)
Open(a) ==
  /\ ledger[a] = "unused"
  /\ ledger' = [ledger EXCEPT ![a] = "open"]

(* The account is a success: it counts towards the target. *)
Count(a) ==
  /\ ledger[a] = "open"
  /\ Cardinality(In("counted")) < Target
  /\ ledger' = [ledger EXCEPT ![a] = "counted"]

(* Some attempts end without counting: refused, cancelled, surplus, expired. *)
Close(S) ==
  /\ S # {}
  /\ S \subseteq In("open")
  /\ ledger' = [a \in Attempts |-> IF a \in S THEN "closed" ELSE ledger[a]]

Next ==
  \/ \E a \in Attempts : Open(a) \/ Count(a)
  \/ \E S \in SUBSET In("open") : Close(S)

Spec == Init /\ [][Next]_ledger
=============================================================================
