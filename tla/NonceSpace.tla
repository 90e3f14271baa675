----------------------------- MODULE NonceSpace -----------------------------
(***************************************************************************)
(* Where the AEAD nonces of a disguised tunnel end come from: nextHeader   *)
(* (obfs.go) and nextRecordHeader (dtlsobfs.go), run by all the goroutines *)
(* that seal packets, without a common lock.                               *)
(*                                                                         *)
(* A nonce is a pair: the space in use (the QUIC connection ID, or the     *)
(* DTLS epoch) and a number counted modulo Modulus within it (2^32, 2^48). *)
(* When the count wraps, the space is replaced.  Connection IDs are        *)
(* numbered in the order they are first seen: eight random bytes are taken *)
(* never to repeat by themselves, but a hello may name one that was used   *)
(* before.  DTLS epochs are sixteen bits, and do repeat by themselves.     *)
(***************************************************************************)
EXTENDS Integers, FiniteSets

CONSTANTS
  Senders,      \* the goroutines that seal: TUN pumps, keepalives, probes
  Modulus,      \* how many numbers a space has
  Starts,       \* where the count may start
  Formats,      \* the disguises: TRUE is QUIC headers, FALSE DTLS records
  DtlsEpochs,   \* how many DTLS epochs there are: 2^16
  Replayed,     \* whether a hello may name a connection ID used before
  Rekeying,     \* whether rekey_interval is set
  Courtesy,     \* how the scheduler treats a sender at the wrap: "none", as it
                \* likes; "brisk", nobody begins a packet meanwhile; "alone",
                \* nobody counts one or holds one (both kinder than the code)
  MaxPackets,   \* bound: numbers drawn
  MaxRestarted, \* bound: restarts of the process
  MaxEpochs     \* bound: key changes

ASSUME NonceAssumption ==
  /\ Modulus \in Nat \ {0}
  /\ Starts \subseteq 0 .. Modulus - 1
  /\ Formats \subseteq BOOLEAN
  /\ DtlsEpochs \in Nat \ {0}
  /\ Replayed \in BOOLEAN /\ Rekeying \in BOOLEAN
  /\ Courtesy \in {"none", "brisk", "alone"}
  /\ MaxPackets \in Nat /\ MaxRestarted \in Nat /\ MaxEpochs \in Nat

Nobody == "nobody"

ASSUME NobodyAssumption == Nobody \notin Senders

VARIABLES
  quic,      \* obfuscator.wire: QUIC headers or DTLS records
  space,     \* obfuscator.cid, or dtlsState.epoch
  spaces,    \* how many connection IDs have been used
  pn,        \* obfuscator.pn, or dtlsState.seq
  adopted,   \* obfuscator.adopted
  mu,        \* who holds cidMu, or dtlsState.mu
  pc,        \* where each sender is
  mine,      \* the number it has counted
  key,       \* the key epoch it seals under
  epochNow,  \* what Tunnel.epochNow gives
  issued,    \* history: the nonces used, each with its key
  reused,    \* history: the nonces used twice
  old,       \* history: the keys and spaces used when the count last began anew
  again,     \* history: the old spaces taken up again
  packets,   \* numbers drawn so far
  restarted  \* restarts so far

history == <<issued, reused, old, again>>
bounds == <<packets, restarted>>

nonceVars ==
  <<quic, space, spaces, pn, adopted, mu, pc, mine, key, epochNow, history, bounds>>

NonceInit ==
  /\ quic \in Formats
  /\ spaces = 1
  /\ IF quic THEN space = 1 ELSE space \in 0 .. DtlsEpochs - 1
  /\ pn \in Starts
  /\ adopted = FALSE
  /\ mu = Nobody
  /\ pc = [s \in Senders |-> "idle"]
  /\ mine = [s \in Senders |-> 0]
  /\ key = [s \in Senders |-> 0]
  /\ epochNow = 0
  /\ issued = {} /\ reused = {} /\ old = {} /\ again = {}
  /\ packets = 0 /\ restarted = 0

Goto(s, place) == pc' = [pc EXCEPT ![s] = place]

\* rotateCID: outgoing packets move to a connection ID never used before.
FreshID == spaces' = spaces + 1 /\ space' = spaces'

\* The count begins anew: what was used so far is old.
CountAnew == old' = {<<x[1], x[2]>> : x \in issued}

\* Whether the space now taken up is one of those.
NoteReturn(past) == again' = again \cup {p[2] : p \in {q \in past : q[2] = space'}}

AtWrap == {"lock", "look", "rotate", "unlock"}

\* s may draw its number now.
MayCount(s) ==
  /\ packets < MaxPackets
  /\ Courtesy = "alone" =>
       \A r \in Senders \ {s} :
         pc[r] \notin AtWrap /\ (pn + 1 = Modulus => pc[r] # "load")

\* sealInto picks the key first.
PickKey(s) ==
  /\ pc[s] = "idle"
  /\ Courtesy = "brisk" => \A r \in Senders : pc[r] \notin AtWrap
  /\ key' = [key EXCEPT ![s] = epochNow]
  /\ Goto(s, "count")
  /\ UNCHANGED <<quic, space, spaces, pn, adopted, mu, mine, epochNow, history, bounds>>

\* One atomic addition.
Count(s) ==
  /\ pc[s] = "count"
  /\ MayCount(s)
  /\ packets' = packets + 1
  /\ pn' = (pn + 1) % Modulus
  /\ mine' = [mine EXCEPT ![s] = pn']
  /\ Goto(s, IF pn' = 0 THEN "lock" ELSE "load")
  /\ UNCHANGED <<quic, space, spaces, adopted, mu, key, epochNow, history, restarted>>

Lock(s) ==
  /\ pc[s] = "lock"
  /\ mu = Nobody
  /\ mu' = s
  /\ Goto(s, "look")
  /\ UNCHANGED <<quic, space, spaces, pn, adopted, mine, key, epochNow, history, bounds>>

\* "Still zero: we are the goroutine that wrapped it."
Look(s) ==
  /\ pc[s] = "look"
  /\ Goto(s, IF pn = 0 THEN "rotate" ELSE "unlock")
  /\ UNCHANGED <<quic, space, spaces, pn, adopted, mu, mine, key, epochNow, history, bounds>>

\* The space stays what it was.
MutantRotate(s) ==
  /\ pc[s] = "rotate"
  /\ CountAnew
  /\ Goto(s, "unlock")
  /\ UNCHANGED <<quic, space, spaces, pn, adopted, mu, mine, key, epochNow, issued, reused,
                 again, bounds>>

\* A fresh connection ID, or the next DTLS epoch.
Rotate(s) ==
  /\ pc[s] = "rotate"
  /\ \/ quic /\ FreshID
     \/ ~quic /\ space' = (space + 1) % DtlsEpochs /\ UNCHANGED spaces
  /\ CountAnew /\ NoteReturn(old')
  /\ Goto(s, "unlock")
  /\ UNCHANGED <<quic, pn, adopted, mu, mine, key, epochNow, issued, reused, bounds>>

Unlock(s) ==
  /\ pc[s] = "unlock"
  /\ mu' = Nobody
  /\ Goto(s, "load")
  /\ UNCHANGED <<quic, space, spaces, pn, adopted, mine, key, epochNow, history, bounds>>

Nonce(s) == <<key[s], space, mine[s]>>

\* The space is read last, and the packet sealed.
Load(s) ==
  /\ pc[s] = "load"
  /\ issued' = issued \cup {Nonce(s)}
  /\ reused' = reused \cup ({Nonce(s)} \cap issued)
  /\ Goto(s, "idle")
  /\ UNCHANGED <<quic, space, spaces, pn, adopted, mu, mine, key, epochNow, old, again, bounds>>

\* adoptPeerCID: once per process, the connection ID a hello names, whatever
\* it is: the peer's own, or one this end has used before.
Adopt ==
  /\ quic /\ ~adopted
  /\ adopted' = TRUE
  /\ \/ FreshID
     \/ Replayed /\ space' \in 1 .. spaces /\ UNCHANGED spaces
  /\ NoteReturn(old)
  /\ UNCHANGED <<quic, pn, mu, pc, mine, key, epochNow, issued, reused, old, bounds>>

\* The process ends and another starts: newObfuscator, newDTLSState.
Restart ==
  /\ restarted < MaxRestarted
  /\ restarted' = restarted + 1
  /\ \/ quic /\ FreshID
     \/ ~quic /\ space' \in 0 .. DtlsEpochs - 1 /\ UNCHANGED spaces
  /\ pn' \in Starts
  /\ CountAnew /\ NoteReturn(old')
  /\ adopted' = FALSE
  /\ mu' = Nobody
  /\ pc' = [s \in Senders |-> "idle"]
  /\ UNCHANGED <<quic, mine, key, epochNow, issued, reused, packets>>

\* rekey_interval goes by.
Rekey ==
  /\ Rekeying
  /\ epochNow < MaxEpochs
  /\ epochNow' = epochNow + 1
  /\ UNCHANGED <<quic, space, spaces, pn, adopted, mu, pc, mine, key, history, bounds>>

NextHeader(s) == Count(s) \/ Lock(s) \/ Look(s) \/ Rotate(s) \/ Unlock(s) \/ Load(s)

NonceNext == (\E s \in Senders : PickKey(s) \/ NextHeader(s)) \/ Adopt \/ Restart \/ Rekey

NonceSpec == NonceInit /\ [][NonceNext]_nonceVars

-----------------------------------------------------------------------------
(* A nonce comes twice under one key only where the count began anew and   *)
(* the end then came back to a space it had used under that key before: a  *)
(* hello named the old connection ID, a new process drew the old DTLS      *)
(* epoch, or the epochs went round.  No order of counting, rotating,       *)
(* adopting and sealing repeats one otherwise (nextHeader, obfs.go, and    *)
(* nextRecordHeader, dtlsobfs.go).                                         *)
RepeatsOnlyOnReturn == \A x \in reused : <<x[1], x[2]>> \in old /\ x[2] \in again

(* No two packets are sealed under one key with one nonce at all, "unique  *)
(* per packet because the packet number strictly increases, and unique     *)
(* across restarts because the connection ID is freshly random per         *)
(* process" (nextHeader, obfs.go), and "a restart inside one rekey         *)
(* interval cannot reissue a (key, nonce) pair" (dtlsState), and with "the *)
(* packet number keeps climbing" when an ID is adopted (adoptPeerCID).     *)
NonceUnique == reused = {}
=============================================================================
