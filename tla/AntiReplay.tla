----------------------------- MODULE AntiReplay -----------------------------
(***************************************************************************)
(* What the receive side of a tunnel promises about sequence numbers,      *)
(* whatever data structure keeps the promise: a number is delivered at     *)
(* most once, a number that trails the newest one by Size or more is never *)
(* delivered, and everything else is delivered the first time it arrives.  *)
(* ReplayWindow.tla is the circular bitmap that implements it.             *)
(***************************************************************************)
EXTENDS Integers

CONSTANTS
  Seqs,   \* the sequence numbers that may arrive
  Size    \* how far behind the newest number a late packet is still welcome

VARIABLES
  delivered,  \* delivered[s]: how many times s has been handed on
  newest,     \* the largest number handed on; 0 before the first
  verdict     \* the last question asked and its answer

vars == <<delivered, newest, verdict>>

Verdict == [op : {"check", "fresh"}, seq : Seqs, ok : BOOLEAN]

Init ==
  /\ delivered = [s \in Seqs |-> 0]
  /\ newest = 0
  /\ verdict \in Verdict

Deliverable(s) ==
  /\ s # 0
  /\ delivered[s] = 0
  /\ newest - s < Size

Answer(op, s) == verdict' = [op |-> op, seq |-> s, ok |-> Deliverable(s)]

Check(s) ==
  /\ Answer("check", s)
  /\ IF Deliverable(s)
     THEN /\ delivered' = [delivered EXCEPT ![s] = @ + 1]
          /\ newest' = IF s > newest THEN s ELSE newest
     ELSE UNCHANGED <<delivered, newest>>

Query(s) ==
  /\ Answer("fresh", s)
  /\ UNCHANGED <<delivered, newest>>

Next == \E s \in Seqs : Check(s) \/ Query(s)

Spec == Init /\ [][Next]_vars
=============================================================================
