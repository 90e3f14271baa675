-------------------------- MODULE MCSecureChannel ---------------------------
(***************************************************************************)
(* Instance for TLC: the sealed channel, and the nonces of the disguised   *)
(* tunnels, which share no variable: the channel takes it that a packet    *)
(* opens under its key, and no nonce depends on what is sealed.  The part  *)
(* that moves is chosen in the initial state; the other stands still.      *)
(*                                                                         *)
(* Goroutines of one kind are alike and no property is about liveness, so  *)
(* they may be permuted.                                                   *)
(***************************************************************************)
EXTENDS SecureChannel, NonceSpace, TLC

VARIABLE part   \* the part that moves in this behaviour

sealingVars == <<part, vars, nonceVars>>

Alike == Permutations(Sealers) \cup Permutations(Openers) \cup Permutations(Senders)

\* One initial state of a part that stands still is enough.
SealingInit ==
  /\ part \in {"channel", "nonce"}
  /\ IF part # "channel"
     THEN rekey = 0 /\ ahead = [e \in {"sender", "receiver"} |-> 0] ELSE TRUE
  /\ IF part # "nonce" THEN quic = TRUE /\ pn = 0 ELSE TRUE
  /\ Init /\ NonceInit

SealingNext ==
  \/ part = "channel" /\ Next /\ UNCHANGED <<part, nonceVars>>
  \/ part = "nonce" /\ NonceNext /\ UNCHANGED <<part, vars>>

SealingSpec == SealingInit /\ [][SealingNext]_sealingVars
=============================================================================
