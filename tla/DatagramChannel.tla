-------------------------- MODULE DatagramChannel ---------------------------
(***************************************************************************)
(* What sealing and opening promise the two TUN devices, in one direction: *)
(* datagrams may be lost and reordered, but what comes out was put in, and *)
(* nothing comes out twice during one life of the receiving process.       *)
(***************************************************************************)
CONSTANT Datagrams

Undelivered == [d \in Datagrams |-> 0]

VARIABLES
  sent,  \* datagrams sealed
  got    \* how often each was delivered since the receiving process started

Init == sent = {} /\ got = Undelivered

Send(d) ==
  /\ d \in Datagrams \ sent
  /\ sent' = sent \cup {d}
  /\ UNCHANGED got

Deliver(d) ==
  /\ d \in sent /\ got[d] = 0
  /\ got' = [got EXCEPT ![d] = 1]
  /\ UNCHANGED sent

\* The receiving process starts again and remembers nothing.
Forget == got' = Undelivered /\ UNCHANGED sent

Next == (\E d \in Datagrams : Send(d) \/ Deliver(d)) \/ Forget

Spec == Init /\ [][Next]_<<sent, got>>
=============================================================================
