------------------------------ MODULE HopCount ------------------------------
(***************************************************************************)
(* How the observer learns the peer's hop count and when it lets it move   *)
(* (dpilog.go, checkPeerTTL and peerRoamed).  Several receive goroutines   *)
(* run both at once; every atomic load, store, add and compare-and-swap is *)
(* a step of its own, and nothing orders one goroutine's steps between     *)
(* another's.                                                              *)
(***************************************************************************)
EXTENDS Integers, Sequences, FiniteSets

CONSTANTS Workers,     \* the receive goroutines
          TTLs,        \* hop counts packets arrive with, none of them 0
          LearnAfter,  \* packets before a baseline is adopted (4)
          RelearnAfter,\* packets that must agree before it moves (2000)
          MaxChecks,   \* bound: authenticated packets
          MaxRoams     \* bound: times the peer's address changes

ASSUME HopCountAssumption ==
  /\ IsFiniteSet(Workers) /\ 0 \notin TTLs
  /\ LearnAfter \in Nat \ {0} /\ RelearnAfter \in Nat \ {0}

VARIABLES peerTTL, peerTTLSeen, ttlAlt, ttlAltRun,   \* the atomics; 0 = not learned
          check,     \* worker |-> its packet's hop count, the baseline it loaded, its place
          checks, roams,
          crew,      \* the receive goroutines this process was configured with
          judged     \* the packets last measured against a baseline, newest last

hopCountVars == <<peerTTL, peerTTLSeen, ttlAlt, ttlAltRun, check, checks, roams,
                  crew, judged>>

NoCheck == [at |-> "idle", ttl |-> 0, known |-> 0, backing |-> <<>>]

HopCountInit ==
  /\ peerTTL = 0 /\ peerTTLSeen = 0 /\ ttlAlt = 0 /\ ttlAltRun = 0
  /\ check = [w \in Workers |-> NoCheck]
  /\ checks = 0 /\ roams = 0
  /\ judged = <<>> /\ crew \in {{w} : w \in Workers} \union {Workers}

At(w, place) == check[w].at = place
Goto(w, place) == check' = [check EXCEPT ![w].at = place]
Done(w) == check' = [check EXCEPT ![w] = NoCheck]

\* For the property: what the last RelearnAfter packets said of the baseline.
Judge(w, agrees) ==
  LET all == Append(judged, [ttl |-> check[w].ttl, agrees |-> agrees])
  IN judged' = IF Len(all) > RelearnAfter THEN Tail(all) ELSE all

-----------------------------------------------------------------------------

\* A packet authenticates.  If it came from a new address, maybeRoam calls
\* peerRoamed before the packet is observed.
Authenticate(w, t) ==
  /\ At(w, "idle") /\ checks < MaxChecks
  /\ checks' = checks + 1
  /\ \/ /\ check' = [check EXCEPT ![w].at = "known", ![w].ttl = t]
        /\ UNCHANGED roams
     \/ /\ roams < MaxRoams /\ roams' = roams + 1
        /\ check' = [check EXCEPT ![w].at = "forget", ![w].ttl = t]
  /\ UNCHANGED <<peerTTL, peerTTLSeen, ttlAlt, ttlAltRun, crew, judged>>

\* peerRoamed: the baseline, the learning and the run are forgotten one by one.
Forget(w) ==
  \/ /\ At(w, "forget") /\ peerTTL' = 0 /\ Goto(w, "forgetSeen")
     /\ UNCHANGED <<peerTTLSeen, ttlAltRun>>
  \/ /\ At(w, "forgetSeen") /\ peerTTLSeen' = 0 /\ Goto(w, "forgetRun")
     /\ UNCHANGED <<peerTTL, ttlAltRun>>
  \/ /\ At(w, "forgetRun") /\ ttlAltRun' = 0 /\ Goto(w, "known")
     /\ UNCHANGED <<peerTTL, peerTTLSeen>>

\* checkPeerTTL: learning, agreeing with the baseline, or disagreeing.
LoadKnown(w) ==
  /\ At(w, "known")
  /\ check' = [check EXCEPT ![w].known = peerTTL,
                            ![w].at = IF peerTTL = 0 THEN "seen"
                                      ELSE IF peerTTL = check[w].ttl THEN "agree"
                                      ELSE "alt"]
  /\ UNCHANGED <<peerTTL, peerTTLSeen, ttlAlt, ttlAltRun>>

Learn(w) ==
  \/ /\ At(w, "seen")
     /\ peerTTLSeen' = peerTTLSeen + 1
     /\ IF peerTTLSeen' >= LearnAfter THEN Goto(w, "adopt") ELSE Done(w)
     /\ UNCHANGED <<peerTTL, ttlAlt, ttlAltRun>>
  \/ /\ At(w, "adopt")
     /\ peerTTL' = IF peerTTL = 0 THEN check[w].ttl ELSE peerTTL
     /\ Done(w)
     /\ UNCHANGED <<peerTTLSeen, ttlAlt, ttlAltRun>>

\* Mutant: a packet that agrees leaves the run of disagreeing ones standing.
MutantAgree(w) ==
  /\ At(w, "agree") /\ Judge(w, TRUE) /\ Done(w)
  /\ UNCHANGED <<peerTTL, peerTTLSeen, ttlAlt, ttlAltRun>>

Agree(w) ==
  /\ At(w, "agree") /\ ttlAltRun' = 0 /\ Judge(w, TRUE) /\ Done(w)
  /\ UNCHANGED <<peerTTL, peerTTLSeen, ttlAlt>>

\* The candidate is loaded; another one is stored, and its run restarted.
LoadAlt(w) ==
  /\ At(w, "alt")
  /\ Goto(w, IF ttlAlt = check[w].ttl THEN "count" ELSE "setAlt")
  /\ UNCHANGED <<peerTTL, peerTTLSeen, ttlAlt, ttlAltRun>>
SetAlt(w) ==
  /\ At(w, "setAlt") /\ ttlAlt' = check[w].ttl /\ Goto(w, "zero")
  /\ UNCHANGED <<peerTTL, peerTTLSeen, ttlAltRun>>
ZeroRun(w) ==
  /\ At(w, "zero") /\ ttlAltRun' = 0 /\ Goto(w, "count")
  /\ UNCHANGED <<peerTTL, peerTTLSeen, ttlAlt>>
Count(w) ==
  /\ At(w, "count")
  /\ ttlAltRun' = ttlAltRun + 1 /\ Judge(w, FALSE)
  /\ IF ttlAltRun' >= RelearnAfter
     THEN check' = [check EXCEPT ![w].at = "move", ![w].backing = judged']
     ELSE Done(w)
  /\ UNCHANGED <<peerTTL, peerTTLSeen, ttlAlt>>

\* The baseline moves, if nobody moved it since it was loaded; the move is then
\* reported, once.
Move(w) ==
  /\ At(w, "move")
  /\ IF peerTTL = check[w].known
     THEN peerTTL' = check[w].ttl /\ Goto(w, "moved")
     ELSE Done(w) /\ UNCHANGED peerTTL
  /\ UNCHANGED <<peerTTLSeen, ttlAlt, ttlAltRun>>
ReportMove(w) ==
  /\ At(w, "moved") /\ ttlAltRun' = 0 /\ Done(w)
  /\ UNCHANGED <<peerTTL, peerTTLSeen, ttlAlt>>

CheckPeerTTL(w) ==
  /\ \/ Agree(w) \/ Count(w)
     \/ /\ \/ LoadKnown(w) \/ Learn(w) \/ LoadAlt(w) \/ SetAlt(w) \/ ZeroRun(w)
           \/ Move(w) \/ ReportMove(w)
        /\ UNCHANGED judged
  /\ UNCHANGED <<checks, roams, crew>>

HopCountNext ==
  \E w \in crew :
    \/ \E t \in TTLs : Authenticate(w, t)
    \/ Forget(w) /\ UNCHANGED <<ttlAlt, checks, roams, crew, judged>>
    \/ CheckPeerTTL(w)

-----------------------------------------------------------------------------

\* Type correctness.
HopCountTypeOK ==
  /\ peerTTL \in TTLs \union {0} /\ ttlAlt \in TTLs \union {0}
  /\ peerTTLSeen \in 0..MaxChecks /\ ttlAltRun \in 0..MaxChecks
  /\ \A w \in Workers : check[w].ttl \in TTLs \union {0} /\ check[w].known \in TTLs \union {0}

\* A learned baseline moves only on a run: none of the last RelearnAfter packets
\* measured when the run was full agreed with the old baseline, so a flapping path or
\* a stray packet never adds up to a move; and where one goroutine receives, all of
\* them carried the hop count it moves to.  (Several goroutines can join the runs of
\* two foreign hop counts: README, "Seen while modelling".)
BaselineMovesOnARun ==
  [][\A w \in Workers : At(w, "move") /\ ~(At(w, "move"))' /\ peerTTL' # peerTTL =>
       /\ Len(check[w].backing) = RelearnAfter
       /\ \A i \in 1..RelearnAfter :
            /\ ~check[w].backing[i].agrees
            /\ Cardinality(crew) = 1 => check[w].backing[i].ttl = peerTTL']_hopCountVars
=============================================================================
