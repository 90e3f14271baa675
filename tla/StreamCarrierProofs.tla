------------------------- MODULE StreamCarrierProofs -------------------------
(***************************************************************************)
(* The stream carrier's connections for any number of dials, rotations,    *)
(* faults and handshake slots, over TCP and over WebSocket.                *)
(*                                                                         *)
(* The argument is about ownership.  At each end a connection passes       *)
(* through the hands of one owner at a time: of whoever opened or accepted *)
(* it and has not installed it yet, of the carrier while it is the active  *)
(* one, and of the goroutine whose call of set replaced it (Paired).  So   *)
(* its done channel is closed once; its socket is open exactly as long as  *)
(* it has an owner (Sockets); and the dial loop's connection is active, or *)
(* in the hands of someone about to say so, or known to be over (Watched). *)
(***************************************************************************)
EXTENDS StreamCarrier, TLAPS

\* What each goroutine's call of set has replaced and not yet closed.
Leaving == [p \in Procs |-> retire[p].conn]

\* The connections not yet installed at each end: those still to be dialed and the one
\* just dialed; those the listener has not got round to.
Fresh ==
  [e \in Ends |->
     IF e = "dialer" THEN {c \in Conns : c > dialed \/ (c = dconn /\ dpc = "connected")}
                     ELSE {c \in Conns : stage[c] # "installed"}]

\* Nobody calls set while an earlier call of its own is unfinished.
Serial ==
  /\ dpc \in {"connected", "clear"} => Leaving[DialProc] = None
  /\ \A e \in Ends : rpc[e] # "top" => Leaving[ReadProc(e)] = None
  /\ \A c \in Conns : stage[c] # "installed" => Leaving[c] = None

\* Only what has been dialed is used.
Dialed ==
  /\ dconn = dialed /\ (dpc # "dial" => dialed # 0)
  /\ \A e \in Ends : conn[e] <= dialed
  /\ \A c \in Conns : stage[c] # "none" => c <= dialed

\* conn and done change together; a connection is installed once, replaced once, and
\* its done channel closed by whoever replaced it.
Paired ==
  /\ done = conn
  /\ \A p \in Procs : retire[p].done = Leaving[p]
  /\ \A e \in Ends : \A c \in Conns :
       /\ closes[e][c] <= 1
       /\ c \in Fresh[e] \/ c = conn[e] =>
            closes[e][c] = 0 /\ \A p \in Procs : EndOf(p) = e => Leaving[p] # c
       /\ c \in Fresh[e] => conn[e] # c
  /\ \A p \in Procs :
       Leaving[p] # None =>
         /\ closes[EndOf(p)][Leaving[p]] = 0
         /\ \A q \in Procs \ {p} : EndOf(q) = EndOf(p) => Leaving[q] # Leaving[p]

\* The sockets at each end that are somebody's to close: the carrier's or its callers',
\* and the dial loop's or the accept loop's.
Held ==
  [e \in Ends |->
     {c \in Conns : c = conn[e] \/ \E p \in Procs : EndOf(p) = e /\ Leaving[p] = c}]
Pending ==
  [e \in Ends |->
     IF e = "dialer" THEN {c \in Conns : dpc = "connected" /\ c = dconn}
                     ELSE {c \in Conns : stage[c] \in {"queued", "admitting", "accepted"}}]
Sockets ==
  \A e \in Ends, c \in Conns :
    sock[e][c] \in {"open", "dead"} <=> c \in Held[e] \cup Pending[e]

\* The dial loop's connection is the active one, or it is or will be told.
Watched ==
  dpc \in {"announce", "hold", "clear"} =>
    \/ conn["dialer"] = dconn
    \/ closes["dialer"][dconn] > 0
    \/ \E p \in Procs : EndOf(p) = "dialer" /\ Leaving[p] = dconn

StreamInv == TypeOK /\ Serial /\ Dialed /\ Paired /\ Sockets /\ Watched

-----------------------------------------------------------------------------

(* The goroutines that call set, and the end each belongs to. *)
LEMMA ProcFacts ==
  /\ DialProc \in Procs /\ EndOf(DialProc) = "dialer" /\ DialProc \notin Conns
  /\ \A e \in Ends : /\ ReadProc(e) \in Procs /\ EndOf(ReadProc(e)) = e
                     /\ ReadProc(e) \notin Conns /\ ReadProc(e) # DialProc
  /\ \A d, e \in Ends : ReadProc(d) = ReadProc(e) => d = e
  /\ \A c \in Conns : c \in Procs /\ EndOf(c) = "listener" /\ c # None
  /\ \A p \in Procs : EndOf(p) \in Ends
  /\ None \notin Conns /\ Conns \subseteq Nat
BY StreamAssumption DEF Procs, DialProc, ReadProc, EndOf, Ends, Conns, None

(* What is being replaced is well typed. *)
LEMMA LeavingType ==
  ASSUME TypeOK
  PROVE  Leaving \in [Procs -> Conns \cup {None}]
BY DEF TypeOK, Leaving

LEMMA IdleFree ==
  ASSUME TypeOK, Paired, NEW p \in Procs
  PROVE  Idle(p) <=> Leaving[p] = None
<1>1. retire[p] \in [done : Conns \cup {None}, conn : Conns \cup {None}]
  BY DEF TypeOK
<1>2. retire[p].done = Leaving[p] /\ retire[p].conn = Leaving[p]
  BY DEF Paired, Leaving
<1>3. QED
  BY <1>1, <1>2 DEF Idle, NoRetire

(* set(new), called with something fresh or to clear the carrier: the old connection *)
(* and its done channel leave together.                                              *)
LEMMA SetEffect ==
  ASSUME TypeOK, Paired, NEW p \in Procs, NEW new \in Conns \cup {None},
         new # None => new \in Fresh[EndOf(p)],
         Set(p, new)
  PROVE  /\ conn' = [conn EXCEPT ![EndOf(p)] = new]
         /\ done' = conn'
         /\ Leaving' = [Leaving EXCEPT ![p] = conn[EndOf(p)]]
         /\ \A q \in Procs : retire'[q].done = Leaving'[q]
<1> DEFINE e == EndOf(p)
<1>1. e \in Ends /\ None \notin Conns
  BY ProcFacts
<1>2. conn[e] \in Conns \cup {None} /\ done = conn
  BY <1>1 DEF TypeOK, Paired
<1>3. (IF conn[e] = new THEN None ELSE conn[e]) = conn[e]
  BY <1>1, <1>2 DEF Paired
<1>4. /\ conn' = [conn EXCEPT ![e] = new] /\ done' = conn'
      /\ retire' = [retire EXCEPT ![p] = [done |-> conn[e], conn |-> conn[e]]]
  BY <1>2, <1>3 DEF Set
<1>5. retire = [q \in Procs |-> retire[q]]
  BY DEF TypeOK
<1>6. \A q \in Procs : Leaving[q] = retire[q].conn /\ retire[q].done = Leaving[q]
  BY DEF Leaving, Paired
<1>7. \A q \in Procs : retire'[q].done = retire'[q].conn
  BY <1>4, <1>5, <1>6
<1>8. \A q \in Procs : retire'[q].conn = IF q = p THEN conn[e] ELSE Leaving[q]
  BY <1>4, <1>5, <1>6
<1>9. Leaving = [q \in Procs |-> Leaving[q]] /\ Leaving' = [q \in Procs |-> retire'[q].conn]
  BY DEF Leaving
<1>10. Leaving' = [Leaving EXCEPT ![p] = conn[e]]
  BY <1>8, <1>9
<1>11. QED
  BY <1>4, <1>7, <1>9, <1>10

(* The end of set closes what has left, the channel and the connection. *)
LEMMA RetireEffect ==
  ASSUME TypeOK, Paired, NEW p \in Procs, Retire(p)
  PROVE  /\ Leaving[p] \in Conns
         /\ closes' = [closes EXCEPT ![EndOf(p)][Leaving[p]] = @ + 1]
         /\ sock' = [sock EXCEPT ![EndOf(p)][Leaving[p]] = "closed"]
         /\ Leaving' = [Leaving EXCEPT ![p] = None]
         /\ \A q \in Procs : retire'[q].done = Leaving'[q]
<1>1. Leaving[p] \in Conns /\ Leaving[p] # None
  BY IdleFree, LeavingType DEF Retire
<1>2. \A q \in Procs : Leaving[q] = retire[q].conn /\ retire[q].done = Leaving[q]
  BY DEF Leaving, Paired
<1>3. retire = [q \in Procs |-> retire[q]]
  BY DEF TypeOK
<1>4. retire' = [retire EXCEPT ![p] = [done |-> None, conn |-> None]]
  BY DEF Retire, NoRetire
<1>5. \A q \in Procs : retire'[q].done = retire'[q].conn
  BY <1>2, <1>3, <1>4
<1>6. \A q \in Procs : retire'[q].conn = IF q = p THEN None ELSE Leaving[q]
  BY <1>2, <1>3, <1>4
<1>7. Leaving = [q \in Procs |-> Leaving[q]] /\ Leaving' = [q \in Procs |-> retire'[q].conn]
  BY DEF Leaving
<1>8. Leaving' = [Leaving EXCEPT ![p] = None]
  BY <1>6, <1>7
<1>9. QED
  BY <1>1, <1>2, <1>5, <1>7, <1>8 DEF Retire

-----------------------------------------------------------------------------
(* Paired, whoever steps. *)

LEMMA PairedKept ==
  ASSUME TypeOK, Paired, UNCHANGED carrierVars \/ UNCHANGED <<conn, done, closes, retire>>,
         \A e \in Ends : Fresh'[e] \subseteq Fresh[e]
  PROVE  Paired'
<1>1. UNCHANGED <<conn, done, closes, retire, Leaving>>
  BY DEF carrierVars, Leaving
<1>2. \A p \in Procs : EndOf(p) \in Ends
  BY ProcFacts
<1>3. QED
  BY <1>1, <1>2 DEF Paired

LEMMA PairedSet ==
  ASSUME TypeOK, Paired, NEW p \in Procs, Leaving[p] = None, NEW new \in Conns \cup {None},
         new # None => new \in Fresh[EndOf(p)] /\ new \notin Fresh'[EndOf(p)],
         Set(p, new), UNCHANGED closes,
         \A e \in Ends : Fresh'[e] \subseteq Fresh[e]
  PROVE  Paired'
<1> DEFINE e == EndOf(p)
<1>1. /\ conn' = [conn EXCEPT ![e] = new] /\ done' = conn'
      /\ Leaving' = [Leaving EXCEPT ![p] = conn[e]]
      /\ \A q \in Procs : retire'[q].done = Leaving'[q]
  BY SetEffect
<1>2. /\ None \notin Conns /\ e \in Ends /\ \A q \in Procs : EndOf(q) \in Ends
      /\ conn \in [Ends -> Conns \cup {None}] /\ Leaving \in [Procs -> Conns \cup {None}]
  BY ProcFacts, LeavingType DEF TypeOK
<1>3. ASSUME NEW d \in Ends, NEW c \in Conns
      PROVE  /\ closes'[d][c] <= 1
             /\ c \in Fresh'[d] \/ c = conn'[d] =>
                  closes'[d][c] = 0 /\ \A q \in Procs : EndOf(q) = d => Leaving'[q] # c
             /\ c \in Fresh'[d] => conn'[d] # c
  <2>1. closes'[d][c] <= 1 /\ (c \in Fresh'[d] => c \in Fresh[d])
    BY DEF Paired
  <2>2. c \in Fresh[d] \/ c = conn[d] =>
          closes'[d][c] = 0 /\ \A q \in Procs : EndOf(q) = d => Leaving[q] # c
    BY DEF Paired
  <2>3. c \in Fresh[d] => conn[d] # c
    BY DEF Paired
  <2>4. CASE d # e
    BY <1>1, <1>2, <2>1, <2>2, <2>3, <2>4
  <2>5. CASE d = e
    BY <1>1, <1>2, <2>1, <2>2, <2>3, <2>5
  <2>6. QED
    BY <2>4, <2>5
<1>4. ASSUME NEW q \in Procs, Leaving'[q] # None
      PROVE  /\ closes'[EndOf(q)][Leaving'[q]] = 0
             /\ \A r \in Procs \ {q} : EndOf(r) = EndOf(q) => Leaving'[r] # Leaving'[q]
  <2>1. conn[e] # None => /\ closes[e][conn[e]] = 0
                          /\ \A r \in Procs : EndOf(r) = e => Leaving[r] # conn[e]
    BY <1>2 DEF Paired
  <2>2. CASE q = p
    BY <1>1, <1>2, <1>4, <2>1, <2>2
  <2>3. CASE q # p
    <3>1. /\ Leaving'[q] = Leaving[q] /\ closes[EndOf(q)][Leaving[q]] = 0
          /\ \A r \in Procs \ {q} : EndOf(r) = EndOf(q) => Leaving[r] # Leaving[q]
      BY <1>1, <1>2, <1>4, <2>3 DEF Paired
    <3>2. EndOf(q) = e => conn[e] # Leaving[q]
      BY <1>4, <2>1, <3>1
    <3>3. QED
      BY <1>1, <1>2, <3>1, <3>2
  <2>4. QED
    BY <2>2, <2>3
<1>5. QED
  BY <1>1, <1>3, <1>4 DEF Paired

LEMMA PairedRetire ==
  ASSUME TypeOK, Paired, NEW p \in Procs, Retire(p), Fresh' = Fresh
  PROVE  Paired'
<1> DEFINE e == EndOf(p)
           g == Leaving[p]
<1>1. /\ g \in Conns /\ closes' = [closes EXCEPT ![e][g] = @ + 1]
      /\ Leaving' = [Leaving EXCEPT ![p] = None]
      /\ \A q \in Procs : retire'[q].done = Leaving'[q]
      /\ conn' = conn /\ done' = done
  BY RetireEffect DEF Retire
<1>2. /\ None \notin Conns /\ e \in Ends /\ \A q \in Procs : EndOf(q) \in Ends
      /\ closes \in [Ends -> [Conns -> Nat]] /\ Leaving \in [Procs -> Conns \cup {None}]
  BY ProcFacts, LeavingType DEF TypeOK
<1>3. /\ closes[e][g] = 0
      /\ \A q \in Procs \ {p} : EndOf(q) = e => Leaving[q] # g
      /\ g \notin Fresh[e] /\ g # conn[e]
  BY <1>1, <1>2 DEF Paired
<1>4. ASSUME NEW d \in Ends, NEW c \in Conns
      PROVE  closes'[d][c] = IF d = e /\ c = g THEN 1 ELSE closes[d][c]
  BY <1>1, <1>2, <1>3
<1>5. ASSUME NEW d \in Ends, NEW c \in Conns
      PROVE  /\ closes'[d][c] <= 1
             /\ c \in Fresh'[d] \/ c = conn'[d] =>
                  closes'[d][c] = 0 /\ \A q \in Procs : EndOf(q) = d => Leaving'[q] # c
             /\ c \in Fresh'[d] => conn'[d] # c
  <2>1. closes'[d][c] <= 1
    BY <1>4 DEF Paired
  <2>2. c \in Fresh[d] \/ c = conn[d] =>
          closes[d][c] = 0 /\ \A q \in Procs : EndOf(q) = d => Leaving[q] # c
    BY DEF Paired
  <2>3. c \in Fresh[d] \/ c = conn[d] => closes'[d][c] = 0
    BY <1>3, <1>4, <2>2
  <2>4. c \in Fresh[d] => conn[d] # c
    BY DEF Paired
  <2>5. QED
    BY <1>1, <1>2, <2>1, <2>2, <2>3, <2>4
<1>6. ASSUME NEW q \in Procs, Leaving'[q] # None
      PROVE  /\ closes'[EndOf(q)][Leaving'[q]] = 0
             /\ \A r \in Procs \ {q} : EndOf(r) = EndOf(q) => Leaving'[r] # Leaving'[q]
  <2>1. q # p /\ Leaving'[q] = Leaving[q] /\ Leaving[q] \in Conns
    BY <1>1, <1>2, <1>6
  <2>2. /\ closes[EndOf(q)][Leaving[q]] = 0
        /\ \A r \in Procs \ {q} : EndOf(r) = EndOf(q) => Leaving[r] # Leaving[q]
    BY <1>6, <2>1 DEF Paired
  <2>3. closes'[EndOf(q)][Leaving[q]] = 0
    BY <1>2, <1>3, <1>4, <2>1, <2>2
  <2>4. QED
    BY <1>1, <1>2, <2>1, <2>2, <2>3
<1>7. done' = conn'
  BY <1>1 DEF Paired
<1>8. QED
  BY <1>1, <1>5, <1>6, <1>7 DEF Paired

-----------------------------------------------------------------------------
(* Types. *)
LEMMA TypeStep ==
  ASSUME TypeOK, Dialed, Paired, [Next]_vars
  PROVE  TypeOK'
<1> USE StreamAssumption
    DEF TypeOK, carrierVars, dialVars, readVars, envVars, Ends, None, NoRetire
<1>c. MaxConns \in Nat /\ Conns = 1 .. MaxConns /\ dialed \in Nat
  BY DEF Conns
<1>s. ASSUME NEW p \in Procs, NEW new \in Conns \cup {None}, Set(p, new)
      PROVE  /\ conn' \in [Ends -> Conns \cup {None}] /\ done' \in [Ends -> Conns \cup {None}]
             /\ retire' \in [Procs -> [done : Conns \cup {None}, conn : Conns \cup {None}]]
  <2>1. EndOf(p) \in Ends
    BY ProcFacts
  <2>2. QED
    BY <1>s, <2>1 DEF Set
<1>w. Writable("dialer") \subseteq 1 .. dialed
  BY <1>c DEF Writable, Dialed
<1>1. CASE Dial
  <2>1. dialed' = dialed + 1 /\ dialed' \in 1 .. MaxConns /\ dialed' \in Conns
    BY <1>1, <1>c DEF Dial
  <2>2. /\ sock' \in [Ends -> [Conns -> {"none", "open", "dead", "closed"}]]
        /\ stage' \in [Conns -> {"none", "queued", "admitting", "accepted", "installed", "refused"}]
    BY <1>1, <2>1 DEF Dial
  <2>3. rconn' = rconn /\ rpc' = rpc /\ sent' = sent /\ dconn' = dialed'
    BY <1>1 DEF Dial
  <2>4. rconn' \in [Ends -> 0 .. dialed'] /\ sent' \subseteq 1 .. dialed'
    BY <1>c, <2>1, <2>3
  <2>5. QED
    BY <1>1, <2>1, <2>2, <2>3, <2>4 DEF Dial
<1>2. CASE DialAborted
  <2>1. dconn \in Conns
    BY <1>2, <1>c DEF DialAborted, Dialed
  <2>2. sock' \in [Ends -> [Conns -> {"none", "open", "dead", "closed"}]]
    BY <1>2, <2>1 DEF DialAborted
  <2>3. QED
    BY <1>2, <2>2 DEF DialAborted
<1>3. CASE Install
  <2>1. dconn \in Conns \cup {None}
    BY <1>c
  <2>2. QED
    BY <1>3, <1>s, <2>1, ProcFacts DEF Install
<1>4. CASE Announce
  BY <1>4, <1>w DEF Announce
<1>5. CASE HoldDone
  BY <1>5 DEF HoldDone
<1>6. CASE HoldDue
  BY <1>6 DEF HoldDue
<1>7. CASE HoldIdle
  BY <1>7 DEF HoldIdle
<1>8. CASE ClearIdle
  BY <1>8, <1>s, ProcFacts DEF ClearIdle
<1>9. CASE Breath
  BY <1>9 DEF Breath
<1>10. CASE SendData
  BY <1>10, <1>w DEF SendData
<1>11. ASSUME NEW c \in Conns, Accept(c) PROVE TypeOK'
  BY <1>11 DEF Accept
<1>12. ASSUME NEW c \in Conns, Admit(c) PROVE TypeOK'
  BY <1>12 DEF Admit
<1>13. ASSUME NEW c \in Conns, TurnAway(c) PROVE TypeOK'
  BY <1>13 DEF TurnAway
<1>14. ASSUME NEW c \in Conns, InstallAccepted(c) PROVE TypeOK'
  <2>1. stage' \in [Conns -> {"none", "queued", "admitting", "accepted", "installed", "refused"}]
    BY <1>14 DEF InstallAccepted
  <2>2. QED
    BY <1>14, <1>s, <2>1, ProcFacts DEF InstallAccepted
<1>15. ASSUME NEW e \in Ends, TakeConn(e) PROVE TypeOK'
  <2>1. conn[e] \in 1 .. dialed
    BY <1>15, <1>c DEF TakeConn, Dialed
  <2>2. QED
    BY <1>15, <2>1 DEF TakeConn
<1>16. ASSUME NEW e \in Ends, Receive(e) PROVE TypeOK'
  BY <1>16 DEF Receive
<1>17. ASSUME NEW e \in Ends, ReadFails(e) PROVE TypeOK'
  BY <1>17 DEF ReadFails
<1>18. ASSUME NEW e \in Ends, Desync(e) PROVE TypeOK'
  BY <1>18 DEF Desync
<1>19. ASSUME NEW e \in Ends, AfterFailure(e) PROVE TypeOK'
  BY <1>19 DEF AfterFailure
<1>20. ASSUME NEW e \in Ends, Drop(e) PROVE TypeOK'
  BY <1>20, <1>s, ProcFacts DEF Drop
<1>21. ASSUME NEW p \in Procs, Retire(p) PROVE TypeOK'
  <2>1. /\ closes' = [closes EXCEPT ![EndOf(p)][Leaving[p]] = @ + 1]
        /\ sock' = [sock EXCEPT ![EndOf(p)][Leaving[p]] = "closed"]
        /\ Leaving[p] \in Conns /\ EndOf(p) \in Ends
    BY <1>21, RetireEffect, ProcFacts
  <2>2. /\ closes' \in [Ends -> [Conns -> Nat]]
        /\ sock' \in [Ends -> [Conns -> {"none", "open", "dead", "closed"}]]
    BY <2>1
  <2>3. retire' \in [Procs -> [done : Conns \cup {None}, conn : Conns \cup {None}]]
    BY <1>21 DEF Retire
  <2>4. QED
    BY <1>21, <2>2, <2>3 DEF Retire
<1>22. ASSUME NEW e \in Ends, NEW c \in Conns, Break(e, c) PROVE TypeOK'
  BY <1>22 DEF Break
<1>23. ASSUME NEW e \in Ends, NEW c \in Conns, NoticeGone(e, c) PROVE TypeOK'
  BY <1>23 DEF NoticeGone
<1>24. CASE UNCHANGED vars
  BY <1>24 DEF vars
<1>25. QED
  BY <1>1, <1>2, <1>3, <1>4, <1>5, <1>6, <1>7, <1>8, <1>9, <1>10, <1>11, <1>12, <1>13, <1>14,
     <1>15, <1>16, <1>17, <1>18, <1>19, <1>20, <1>21, <1>22, <1>23, <1>24
  DEF Next, Dialer, Listener, Reader

-----------------------------------------------------------------------------
(* What is fresh, who is serial, what is dialed. *)

\* What Fresh is made of, as facts.
LEMMA FreshFacts ==
  \A c \in Conns :
    /\ c \in Fresh["dialer"] <=> c > dialed \/ (c = dconn /\ dpc = "connected")
    /\ c \in Fresh["listener"] <=> stage[c] # "installed"
BY DEF Fresh, Ends

LEMMA FreshKept ==
  ASSUME UNCHANGED <<dialed, dconn, stage>>, dpc' = "connected" => dpc = "connected"
  PROVE  \A e \in Ends : Fresh'[e] \subseteq Fresh[e]
BY DEF Fresh, Ends

(* Whoever steps, no two calls of set by one goroutine overlap and what is used has *)
(* been dialed.                                                                     *)
LEMMA SerialStep ==
  ASSUME TypeOK, Serial, Dialed, Paired, [Next]_vars
  PROVE  Serial'
<1> USE DEF carrierVars, dialVars, readVars, envVars
<1>t. /\ stage = [c \in Conns |-> stage[c]] /\ rpc = [e \in Ends |-> rpc[e]]
      /\ Leaving \in [Procs -> Conns \cup {None}]
  BY LeavingType DEF TypeOK
<1>k. ASSUME UNCHANGED retire,
             dpc' \in {"connected", "clear"} => dpc = dpc' \/ Idle(DialProc),
             \A e \in Ends : rpc'[e] # "top" => rpc[e] # "top" \/ Idle(ReadProc(e)),
             \A c \in Conns : stage'[c] # "installed" => stage[c] # "installed"
      PROVE  Serial'
  <2>1. Leaving' = Leaving
    BY <1>k DEF Leaving
  <2>2. QED
    BY <1>k, <2>1, IdleFree, ProcFacts DEF Serial
<1>s. ASSUME NEW p \in Procs, NEW new \in Conns \cup {None},
             new # None => new \in Fresh[EndOf(p)],
             Set(p, new),
             p = DialProc => dpc' \notin {"connected", "clear"},
             p # DialProc => dpc' = dpc,
             \A e \in Ends : /\ p = ReadProc(e) => rpc'[e] = "top"
                             /\ p # ReadProc(e) => rpc'[e] = rpc[e],
             \A c \in Conns : /\ p = c => stage'[c] = "installed"
                              /\ p # c => stage'[c] = stage[c]
      PROVE  Serial'
  <2>1. Leaving' = [Leaving EXCEPT ![p] = conn[EndOf(p)]]
    BY <1>s, SetEffect
  <2>2. \A q \in Procs \ {p} : Leaving'[q] = Leaving[q]
    BY <1>t, <2>1
  <2>3. QED
    BY <1>s, <2>2, ProcFacts DEF Serial
<1>1. CASE Dial
  <2>1. \A c \in Conns : stage'[c] # "installed" => stage[c] # "installed"
    <3>1. \A c \in Conns : c = dialed + 1 => stage[c] = "none"
      BY StreamAssumption DEF Dialed, TypeOK, Conns
    <3>2. QED
      BY <1>1, <1>t, <3>1 DEF Dial
  <2>2. QED
    BY <1>1, <1>k, <2>1 DEF Dial
<1>2. CASE DialAborted
  BY <1>2, <1>k DEF DialAborted
<1>3. CASE Install
  <2>1. dconn \in Conns /\ dconn \in Fresh["dialer"]
    BY <1>3, StreamAssumption, FreshFacts DEF Install, TypeOK, Dialed, Conns
  <2>2. QED
    BY <1>3, <1>s, <2>1, ProcFacts DEF Install
<1>4. CASE Announce
  BY <1>4, <1>k DEF Announce
<1>5. CASE HoldDone
  BY <1>5, <1>k DEF HoldDone
<1>6. CASE HoldDue
  BY <1>6, <1>k DEF HoldDue
<1>7. CASE HoldIdle
  BY <1>7, <1>k DEF HoldIdle
<1>8. CASE ClearIdle
  BY <1>8, <1>s, ProcFacts DEF ClearIdle
<1>9. CASE Breath
  BY <1>9, <1>k DEF Breath
<1>10. CASE SendData
  BY <1>10, <1>k DEF SendData
<1>11. ASSUME NEW c \in Conns, Accept(c) PROVE Serial'
  BY <1>11, <1>k, <1>t DEF Accept
<1>12. ASSUME NEW c \in Conns, Admit(c) PROVE Serial'
  BY <1>12, <1>k, <1>t DEF Admit
<1>13. ASSUME NEW c \in Conns, TurnAway(c) PROVE Serial'
  BY <1>13, <1>k, <1>t DEF TurnAway
<1>14. ASSUME NEW c \in Conns, InstallAccepted(c) PROVE Serial'
  <2>1. c \in Fresh["listener"]
    BY <1>14, FreshFacts DEF InstallAccepted
  <2>2. QED
    BY <1>14, <1>s, <1>t, <2>1, ProcFacts DEF InstallAccepted
<1>15. ASSUME NEW e \in Ends, TakeConn(e) PROVE Serial'
  BY <1>15, <1>k, <1>t DEF TakeConn, ReadIdle
<1>16. ASSUME NEW e \in Ends, Receive(e) PROVE Serial'
  BY <1>16, <1>k, <1>t DEF Receive
<1>17. ASSUME NEW e \in Ends, ReadFails(e) PROVE Serial'
  BY <1>17, <1>k, <1>t DEF ReadFails
<1>18. ASSUME NEW e \in Ends, Desync(e) PROVE Serial'
  BY <1>18, <1>k, <1>t DEF Desync
<1>19. ASSUME NEW e \in Ends, AfterFailure(e) PROVE Serial'
  BY <1>19, <1>k, <1>t DEF AfterFailure
<1>20. ASSUME NEW e \in Ends, Drop(e) PROVE Serial'
  BY <1>20, <1>s, <1>t, ProcFacts DEF Drop
<1>21. ASSUME NEW p \in Procs, Retire(p) PROVE Serial'
  <2>1. Leaving' = [Leaving EXCEPT ![p] = None]
    BY <1>21, RetireEffect
  <2>2. \A q \in Procs : Leaving[q] = None => Leaving'[q] = None
    BY <1>t, <2>1
  <2>3. QED
    BY <1>21, <2>2, ProcFacts DEF Retire, Serial
<1>22. ASSUME NEW e \in Ends, NEW c \in Conns, Break(e, c) PROVE Serial'
  BY <1>22, <1>k DEF Break
<1>23. ASSUME NEW e \in Ends, NEW c \in Conns, NoticeGone(e, c) PROVE Serial'
  BY <1>23, <1>k DEF NoticeGone
<1>24. CASE UNCHANGED vars
  BY <1>24, <1>k DEF vars
<1>25. QED
  BY <1>1, <1>2, <1>3, <1>4, <1>5, <1>6, <1>7, <1>8, <1>9, <1>10, <1>11, <1>12, <1>13, <1>14,
     <1>15, <1>16, <1>17, <1>18, <1>19, <1>20, <1>21, <1>22, <1>23, <1>24
  DEF Next, Dialer, Listener, Reader

LEMMA DialedStep ==
  ASSUME TypeOK, Dialed, Paired, [Next]_vars
  PROVE  Dialed'
<1> USE DEF carrierVars, dialVars, readVars, envVars, Dialed
<1>t. /\ stage = [c \in Conns |-> stage[c]] /\ dialed \in Nat
      /\ conn \in [Ends -> Nat] /\ None = 0 /\ Conns \subseteq Nat
  BY StreamAssumption DEF TypeOK, Conns, None
<1>s. ASSUME NEW p \in Procs, NEW new \in Conns \cup {None}, Set(p, new), new <= dialed
      PROVE  \A e \in Ends : conn'[e] <= dialed
  BY <1>s, <1>t DEF Set
<1>1. CASE Dial
  BY <1>1, <1>t DEF Dial
<1>2. CASE DialAborted
  BY <1>2 DEF DialAborted
<1>3. CASE Install
  <2>1. dconn \in Conns \cup {None} /\ dconn <= dialed
    BY StreamAssumption DEF TypeOK, Conns, None
  <2>2. QED
    BY <1>3, <1>s, <2>1, ProcFacts DEF Install
<1>4. CASE Announce
  BY <1>4 DEF Announce
<1>5. CASE HoldDone
  BY <1>5 DEF HoldDone
<1>6. CASE HoldDue
  BY <1>6 DEF HoldDue
<1>7. CASE HoldIdle
  BY <1>7 DEF HoldIdle
<1>8. CASE ClearIdle
  BY <1>8, <1>s, <1>t, ProcFacts DEF ClearIdle
<1>9. CASE Breath
  BY <1>9 DEF Breath
<1>10. CASE SendData
  BY <1>10 DEF SendData
<1>11. ASSUME NEW c \in Conns, Accept(c) PROVE Dialed'
  BY <1>11, <1>t DEF Accept
<1>12. ASSUME NEW c \in Conns, Admit(c) PROVE Dialed'
  BY <1>12, <1>t DEF Admit
<1>13. ASSUME NEW c \in Conns, TurnAway(c) PROVE Dialed'
  BY <1>13, <1>t DEF TurnAway
<1>14. ASSUME NEW c \in Conns, InstallAccepted(c) PROVE Dialed'
  <2>1. c <= dialed
    BY <1>14 DEF InstallAccepted
  <2>2. \A e \in Ends : conn'[e] <= dialed
    BY <1>14, <1>s, <2>1, ProcFacts DEF InstallAccepted
  <2>3. QED
    BY <1>14, <1>t, <2>1, <2>2 DEF InstallAccepted
<1>15. ASSUME NEW e \in Ends, TakeConn(e) PROVE Dialed'
  BY <1>15 DEF TakeConn
<1>16. ASSUME NEW e \in Ends, Receive(e) PROVE Dialed'
  BY <1>16 DEF Receive
<1>17. ASSUME NEW e \in Ends, ReadFails(e) PROVE Dialed'
  BY <1>17 DEF ReadFails
<1>18. ASSUME NEW e \in Ends, Desync(e) PROVE Dialed'
  BY <1>18 DEF Desync
<1>19. ASSUME NEW e \in Ends, AfterFailure(e) PROVE Dialed'
  BY <1>19 DEF AfterFailure
<1>20. ASSUME NEW e \in Ends, Drop(e) PROVE Dialed'
  BY <1>20, <1>s, <1>t, ProcFacts DEF Drop
<1>21. ASSUME NEW p \in Procs, Retire(p) PROVE Dialed'
  BY <1>21 DEF Retire
<1>22. ASSUME NEW e \in Ends, NEW c \in Conns, Break(e, c) PROVE Dialed'
  BY <1>22 DEF Break
<1>23. ASSUME NEW e \in Ends, NEW c \in Conns, NoticeGone(e, c) PROVE Dialed'
  BY <1>23 DEF NoticeGone
<1>24. CASE UNCHANGED vars
  BY <1>24 DEF vars
<1>25. QED
  BY <1>1, <1>2, <1>3, <1>4, <1>5, <1>6, <1>7, <1>8, <1>9, <1>10, <1>11, <1>12, <1>13, <1>14,
     <1>15, <1>16, <1>17, <1>18, <1>19, <1>20, <1>21, <1>22, <1>23, <1>24
  DEF Next, Dialer, Listener, Reader

-----------------------------------------------------------------------------
(* A connection has one owner at a time. *)

\* What the callers of set hand it is fresh before the call and not after it.
LEMMA InstallFresh ==
  ASSUME TypeOK, Serial, Dialed, Paired, Install
  PROVE  /\ dconn \in Conns /\ dconn \in Fresh["dialer"] /\ dconn \notin Fresh'["dialer"]
         /\ Leaving[DialProc] = None
         /\ \A e \in Ends : Fresh'[e] \subseteq Fresh[e]
<1>1. dconn \in Conns /\ dconn \in Fresh["dialer"] /\ dconn = dialed /\ dialed \in Nat
  BY StreamAssumption, FreshFacts DEF Install, TypeOK, Dialed, Conns
<1>2. Leaving[DialProc] = None /\ UNCHANGED <<dialed, dconn, stage>> /\ dpc' # "connected"
  BY DEF Install, Serial, dialVars
<1>3. dconn \notin Fresh'["dialer"]
  BY <1>1, <1>2 DEF Fresh, Ends
<1>4. QED
  BY <1>1, <1>2, <1>3, FreshKept

LEMMA AcceptFresh ==
  ASSUME TypeOK, Serial, NEW c \in Conns, InstallAccepted(c)
  PROVE  /\ c \in Fresh["listener"] /\ c \notin Fresh'["listener"]
         /\ Leaving[c] = None
         /\ \A e \in Ends : Fresh'[e] \subseteq Fresh[e]
<1>1. stage[c] = "accepted" /\ stage' = [stage EXCEPT ![c] = "installed"]
      /\ UNCHANGED <<dialed, dconn, dpc>>
  BY DEF InstallAccepted, dialVars
<1>2. stage = [b \in Conns |-> stage[b]]
  BY DEF TypeOK
<1>3. stage'[c] = "installed" /\ \A b \in Conns : stage[b] = "installed" => stage'[b] = "installed"
  BY <1>1, <1>2
<1>4. QED
  BY <1>1, <1>3 DEF Fresh, Ends, Serial

LEMMA PairedStep ==
  ASSUME TypeOK, Serial, Dialed, Paired, [Next]_vars
  PROVE  Paired'
<1> USE DEF carrierVars, dialVars, readVars, envVars
<1>t. /\ stage = [c \in Conns |-> stage[c]] /\ dialed \in Nat /\ Conns \subseteq Nat
  BY StreamAssumption DEF TypeOK, Conns
<1>1. CASE Dial
  <2>1. dialed' = dialed + 1 /\ dconn' = dialed' /\ dpc' = "connected"
        /\ \A c \in Conns : c = dialed + 1 \/ stage'[c] = stage[c]
    BY <1>1, <1>t DEF Dial
  <2>2. \A c \in Conns : stage'[c] # "installed" => stage[c] # "installed"
    BY <2>1, <1>t DEF Dialed
  <2>3. \A e \in Ends : Fresh'[e] \subseteq Fresh[e]
    BY <2>1, <2>2, <1>t DEF Fresh, Ends
  <2>4. QED
    BY <1>1, <2>3, PairedKept DEF Dial
<1>2. CASE DialAborted
  BY <1>2, FreshKept, PairedKept DEF DialAborted
<1>3. CASE Install
  BY <1>3, InstallFresh, PairedSet, ProcFacts DEF Install
<1>4. CASE Announce
  BY <1>4, FreshKept, PairedKept DEF Announce
<1>5. CASE HoldDone
  BY <1>5, FreshKept, PairedKept DEF HoldDone
<1>6. CASE HoldDue
  BY <1>6, FreshKept, PairedKept DEF HoldDue
<1>7. CASE HoldIdle
  BY <1>7, FreshKept, PairedKept DEF HoldIdle
<1>8. CASE ClearIdle
  BY <1>8, FreshKept, PairedSet, ProcFacts DEF ClearIdle, Serial
<1>9. CASE Breath
  BY <1>9, FreshKept, PairedKept DEF Breath
<1>10. CASE SendData
  BY <1>10, FreshKept, PairedKept DEF SendData
<1>11. ASSUME NEW c \in Conns, Accept(c) PROVE Paired'
  <2>1. \A e \in Ends : Fresh'[e] \subseteq Fresh[e]
    BY <1>11, <1>t DEF Accept, Fresh, Ends
  <2>2. QED
    BY <1>11, <2>1, PairedKept DEF Accept
<1>12. ASSUME NEW c \in Conns, Admit(c) PROVE Paired'
  <2>1. \A e \in Ends : Fresh'[e] \subseteq Fresh[e]
    BY <1>12, <1>t DEF Admit, Fresh, Ends
  <2>2. QED
    BY <1>12, <2>1, PairedKept DEF Admit
<1>13. ASSUME NEW c \in Conns, TurnAway(c) PROVE Paired'
  <2>1. \A e \in Ends : Fresh'[e] \subseteq Fresh[e]
    BY <1>13, <1>t DEF TurnAway, Fresh, Ends
  <2>2. QED
    BY <1>13, <2>1, PairedKept DEF TurnAway
<1>14. ASSUME NEW c \in Conns, InstallAccepted(c) PROVE Paired'
  BY <1>14, AcceptFresh, PairedSet, ProcFacts DEF InstallAccepted
<1>15. ASSUME NEW e \in Ends, TakeConn(e) PROVE Paired'
  BY <1>15, FreshKept, PairedKept DEF TakeConn
<1>16. ASSUME NEW e \in Ends, Receive(e) PROVE Paired'
  BY <1>16, FreshKept, PairedKept DEF Receive
<1>17. ASSUME NEW e \in Ends, ReadFails(e) PROVE Paired'
  BY <1>17, FreshKept, PairedKept DEF ReadFails
<1>18. ASSUME NEW e \in Ends, Desync(e) PROVE Paired'
  BY <1>18, FreshKept, PairedKept DEF Desync
<1>19. ASSUME NEW e \in Ends, AfterFailure(e) PROVE Paired'
  BY <1>19, FreshKept, PairedKept DEF AfterFailure
<1>20. ASSUME NEW e \in Ends, Drop(e) PROVE Paired'
  BY <1>20, FreshKept, PairedSet, ProcFacts DEF Drop, Serial
<1>21. ASSUME NEW p \in Procs, Retire(p) PROVE Paired'
  <2>1. Fresh' = Fresh
    BY <1>21 DEF Retire, Fresh
  <2>2. QED
    BY <1>21, <2>1, PairedRetire
<1>22. ASSUME NEW e \in Ends, NEW c \in Conns, Break(e, c) PROVE Paired'
  BY <1>22, FreshKept, PairedKept DEF Break
<1>23. ASSUME NEW e \in Ends, NEW c \in Conns, NoticeGone(e, c) PROVE Paired'
  BY <1>23, FreshKept, PairedKept DEF NoticeGone
<1>24. CASE UNCHANGED vars
  BY <1>24, FreshKept, PairedKept DEF vars
<1>25. QED
  BY <1>1, <1>2, <1>3, <1>4, <1>5, <1>6, <1>7, <1>8, <1>9, <1>10, <1>11, <1>12, <1>13, <1>14,
     <1>15, <1>16, <1>17, <1>18, <1>19, <1>20, <1>21, <1>22, <1>23, <1>24
  DEF Next, Dialer, Listener, Reader

-----------------------------------------------------------------------------
(* The dial loop is told. *)
LEMMA WatchedStep ==
  ASSUME TypeOK, Serial, Dialed, Paired, Watched, [Next]_vars
  PROVE  Watched'
<1> USE DEF carrierVars, dialVars, readVars, envVars
<1>t. /\ conn \in [Ends -> Conns \cup {None}] /\ Leaving \in [Procs -> Conns \cup {None}]
      /\ "dialer" \in Ends /\ None = 0
      /\ dpc \in {"announce", "hold", "clear"} => dconn \in Conns
  <2>1. dpc \in {"announce", "hold", "clear"} => dconn \in Conns
    BY StreamAssumption DEF TypeOK, Dialed, Conns
  <2>2. QED
    BY <2>1, LeavingType DEF TypeOK, Ends, None
<1>k. ASSUME UNCHANGED <<conn, closes, retire, dconn>>,
             dpc' \in {"announce", "hold", "clear"} => dpc \in {"announce", "hold", "clear"}
      PROVE  Watched'
  BY <1>k DEF Watched, Leaving
<1>s. ASSUME NEW p \in Procs, NEW new \in Conns \cup {None},
             new # None => new \in Fresh[EndOf(p)],
             Set(p, new), Leaving[p] = None, UNCHANGED <<closes, dconn, dpc>>
      PROVE  Watched'
  <2>1. /\ conn' = [conn EXCEPT ![EndOf(p)] = new]
        /\ Leaving' = [Leaving EXCEPT ![p] = conn[EndOf(p)]]
    BY <1>s, SetEffect
  <2>2. EndOf(p) \in Ends
    BY ProcFacts
  <2>3. ASSUME dpc \in {"announce", "hold", "clear"}, conn["dialer"] = dconn
        PROVE  conn'["dialer"] = dconn \/ (EndOf(p) = "dialer" /\ Leaving'[p] = dconn)
    BY <1>t, <2>1, <2>2, <2>3
  <2>4. \A q \in Procs : Leaving[q] \in Conns => Leaving'[q] = Leaving[q]
    BY <1>s, <1>t, <2>1, ProcFacts
  <2>5. QED
    BY <1>s, <1>t, <2>3, <2>4 DEF Watched
<1>1. CASE Dial
  BY <1>1 DEF Dial, Watched
<1>2. CASE DialAborted
  BY <1>2, <1>k DEF DialAborted
<1>3. CASE Install
  <2>1. conn' = [conn EXCEPT !["dialer"] = dconn]
    BY <1>3, ProcFacts DEF Install, Set
  <2>2. QED
    BY <1>3, <1>t, <2>1 DEF Install, Watched
<1>4. CASE Announce
  BY <1>4, <1>k DEF Announce
<1>5. CASE HoldDone
  BY <1>5, <1>k DEF HoldDone
<1>6. CASE HoldDue
  BY <1>6, <1>k DEF HoldDue
<1>7. CASE HoldIdle
  BY <1>7, <1>k DEF HoldIdle
<1>8. CASE ClearIdle
  BY <1>8 DEF ClearIdle, Watched
<1>9. CASE Breath
  BY <1>9, <1>k DEF Breath
<1>10. CASE SendData
  BY <1>10, <1>k DEF SendData
<1>11. ASSUME NEW c \in Conns, Accept(c) PROVE Watched'
  BY <1>11, <1>k DEF Accept
<1>12. ASSUME NEW c \in Conns, Admit(c) PROVE Watched'
  BY <1>12, <1>k DEF Admit
<1>13. ASSUME NEW c \in Conns, TurnAway(c) PROVE Watched'
  BY <1>13, <1>k DEF TurnAway
<1>14. ASSUME NEW c \in Conns, InstallAccepted(c) PROVE Watched'
  BY <1>14, <1>s, AcceptFresh, ProcFacts DEF InstallAccepted
<1>15. ASSUME NEW e \in Ends, TakeConn(e) PROVE Watched'
  BY <1>15, <1>k DEF TakeConn
<1>16. ASSUME NEW e \in Ends, Receive(e) PROVE Watched'
  BY <1>16, <1>k DEF Receive
<1>17. ASSUME NEW e \in Ends, ReadFails(e) PROVE Watched'
  BY <1>17, <1>k DEF ReadFails
<1>18. ASSUME NEW e \in Ends, Desync(e) PROVE Watched'
  BY <1>18, <1>k DEF Desync
<1>19. ASSUME NEW e \in Ends, AfterFailure(e) PROVE Watched'
  BY <1>19, <1>k DEF AfterFailure
<1>20. ASSUME NEW e \in Ends, Drop(e) PROVE Watched'
  BY <1>20, <1>s, ProcFacts DEF Drop, Serial
<1>21. ASSUME NEW p \in Procs, Retire(p) PROVE Watched'
  <2>1. /\ Leaving[p] \in Conns /\ closes' = [closes EXCEPT ![EndOf(p)][Leaving[p]] = @ + 1]
        /\ Leaving' = [Leaving EXCEPT ![p] = None]
        /\ UNCHANGED <<conn, dpc, dconn>> /\ EndOf(p) \in Ends
    BY <1>21, RetireEffect, ProcFacts DEF Retire
  <2>2. closes \in [Ends -> [Conns -> Nat]]
    BY DEF TypeOK
  <2>3. \A c \in Conns : /\ closes["dialer"][c] > 0 => closes'["dialer"][c] > 0
                         /\ EndOf(p) = "dialer" /\ Leaving[p] = c => closes'["dialer"][c] > 0
    BY <1>t, <2>1, <2>2
  <2>4. \A q \in Procs : q # p => Leaving'[q] = Leaving[q]
    BY <1>t, <2>1
  <2>5. QED
    BY <1>t, <2>1, <2>3, <2>4 DEF Watched
<1>22. ASSUME NEW e \in Ends, NEW c \in Conns, Break(e, c) PROVE Watched'
  BY <1>22, <1>k DEF Break
<1>23. ASSUME NEW e \in Ends, NEW c \in Conns, NoticeGone(e, c) PROVE Watched'
  BY <1>23, <1>k DEF NoticeGone
<1>24. CASE UNCHANGED vars
  BY <1>24, <1>k DEF vars
<1>25. QED
  BY <1>1, <1>2, <1>3, <1>4, <1>5, <1>6, <1>7, <1>8, <1>9, <1>10, <1>11, <1>12, <1>13, <1>14,
     <1>15, <1>16, <1>17, <1>18, <1>19, <1>20, <1>21, <1>22, <1>23, <1>24
  DEF Next, Dialer, Listener, Reader

-----------------------------------------------------------------------------
(* A socket is open as long as it is somebody's. *)

\* set adds the new connection and lets nothing go.
LEMMA HeldSet ==
  ASSUME TypeOK, Paired, NEW p \in Procs, Leaving[p] = None, NEW new \in Conns \cup {None},
         new # None => new \in Fresh[EndOf(p)],
         Set(p, new)
  PROVE  \A e \in Ends, c \in Conns :
           c \in Held'[e] <=> c \in Held[e] \/ (e = EndOf(p) /\ c = new)
<1>1. /\ conn' = [conn EXCEPT ![EndOf(p)] = new]
      /\ Leaving' = [Leaving EXCEPT ![p] = conn[EndOf(p)]]
  BY SetEffect
<1>2. /\ conn \in [Ends -> Conns \cup {None}] /\ Leaving \in [Procs -> Conns \cup {None}]
      /\ EndOf(p) \in Ends /\ None \notin Conns
  BY LeavingType, ProcFacts DEF TypeOK
<1>3. ASSUME NEW e \in Ends, NEW c \in Conns
      PROVE  c \in Held'[e] <=> c \in Held[e] \/ (e = EndOf(p) /\ c = new)
  <2>1. CASE e # EndOf(p)
    BY <1>1, <1>2, <2>1 DEF Held
  <2>2. CASE e = EndOf(p)
    <3>1. c = conn'[e] <=> c = new
      BY <1>1, <1>2, <2>2
    <3>2. (\E q \in Procs : EndOf(q) = e /\ Leaving'[q] = c) <=>
             c = conn[e] \/ \E q \in Procs : EndOf(q) = e /\ Leaving[q] = c
      BY <1>1, <1>2, <2>2
    <3>3. QED
      BY <2>2, <3>1, <3>2 DEF Held
  <2>3. QED
    BY <2>1, <2>2
<1>4. QED
  BY <1>3

LEMMA HeldRetire ==
  ASSUME TypeOK, Paired, NEW p \in Procs, Retire(p)
  PROVE  \A e \in Ends, c \in Conns :
           c \in Held'[e] <=> c \in Held[e] /\ ~(e = EndOf(p) /\ c = Leaving[p])
<1>1. /\ Leaving[p] \in Conns /\ Leaving' = [Leaving EXCEPT ![p] = None] /\ conn' = conn
  BY RetireEffect DEF Retire
<1>2. /\ Leaving \in [Procs -> Conns \cup {None}] /\ EndOf(p) \in Ends /\ None \notin Conns
  BY LeavingType, ProcFacts
<1>3. /\ Leaving[p] # conn[EndOf(p)]
      /\ \A q \in Procs \ {p} : EndOf(q) = EndOf(p) => Leaving[q] # Leaving[p]
  BY <1>1, <1>2 DEF Paired
<1>4. ASSUME NEW e \in Ends, NEW c \in Conns
      PROVE  c \in Held'[e] <=> c \in Held[e] /\ ~(e = EndOf(p) /\ c = Leaving[p])
  BY <1>1, <1>2, <1>3 DEF Held
<1>5. QED
  BY <1>4

\* A step that moves nobody's connection from hand to hand.
LEMMA SocketsKept ==
  ASSUME Sockets, UNCHANGED <<conn, retire>>, UNCHANGED Pending,
         \A e \in Ends, c \in Conns :
           sock'[e][c] \in {"open", "dead"} <=> sock[e][c] \in {"open", "dead"}
  PROVE  Sockets'
<1>1. Held' = Held
  BY DEF Held, Leaving
<1>2. QED
  BY <1>1 DEF Sockets

\* What is pending has not been installed, so set has never seen it.
LEMMA PendingUnheld ==
  ASSUME TypeOK, Paired
  PROVE  \A e \in Ends, c \in Conns :
           /\ c \in Pending[e] => c \in Fresh[e]
           /\ c \in Fresh[e] => c \notin Held[e]
<1>1. ASSUME NEW e \in Ends, NEW c \in Conns
      PROVE  c \in Pending[e] => c \in Fresh[e]
  BY DEF Pending, Fresh
<1>2. ASSUME NEW e \in Ends, NEW c \in Conns, c \in Fresh[e]
      PROVE  c \notin Held[e]
  BY <1>2 DEF Held, Paired
<1>3. QED
  BY <1>1, <1>2

LEMMA SocketsStep ==
  ASSUME TypeOK, Serial, Dialed, Paired, Sockets, [Next]_vars
  PROVE  Sockets'
<1> USE DEF carrierVars, dialVars, readVars, envVars
<1>t. /\ stage = [c \in Conns |-> stage[c]] /\ sock = [e \in Ends |-> [c \in Conns |-> sock[e][c]]]
      /\ dialed \in Nat /\ Conns \subseteq Nat /\ "dialer" \in Ends /\ "listener" \in Ends
      /\ \A e \in Ends : e = "dialer" \/ e = "listener"
  BY StreamAssumption DEF TypeOK, Conns, Ends
<1>p. \A e \in Ends, c \in Conns :
        c \in Pending[e] <=> \/ e = "dialer" /\ dpc = "connected" /\ c = dconn
                             \/ e = "listener" /\ stage[c] \in {"queued", "admitting", "accepted"}
  BY <1>t DEF Pending
<1>q. \A e \in Ends, c \in Conns :
        c \in Pending'[e] <=> \/ e = "dialer" /\ dpc' = "connected" /\ c = dconn'
                              \/ e = "listener" /\ stage'[c] \in {"queued", "admitting", "accepted"}
  BY <1>t DEF Pending
<1>k. ASSUME UNCHANGED <<conn, retire, sock, dconn, stage>>,
             dpc = "connected" <=> dpc' = "connected"
      PROVE  Sockets'
  <2>1. UNCHANGED Pending
    BY <1>k DEF Pending
  <2>2. QED
    BY <1>k, <2>1, SocketsKept
<1>1. CASE Dial
  <2>1. PICK c \in Conns :
          /\ c = dialed + 1 /\ dconn' = c /\ dpc' = "connected" /\ dpc = "dial"
          /\ sock' = [e \in Ends |-> [sock[e] EXCEPT ![c] = "open"]]
          /\ stage' = [stage EXCEPT ![c] = IF ws THEN "admitting" ELSE "queued"]
          /\ UNCHANGED <<conn, retire>>
    <3>1. dialed + 1 \in Conns
      BY <1>1, StreamAssumption DEF Dial, TypeOK, Conns
    <3>2. QED
      BY <1>1, <3>1 DEF Dial
  <2>2. Held' = Held
    BY <2>1 DEF Held, Leaving
  <2>3. \A e \in Ends, b \in Conns : sock'[e][b] = IF b = c THEN "open" ELSE sock[e][b]
    BY <2>1, <1>t
  <2>4. \A e \in Ends, b \in Conns : b \in Pending'[e] <=> b = c \/ b \in Pending[e]
    BY <2>1, <1>t, <1>p, <1>q
  <2>5. QED
    BY <2>2, <2>3, <2>4 DEF Sockets
<1>2. CASE DialAborted
  <2>1. /\ sock' = [sock EXCEPT !["dialer"][dconn] = "closed"]
        /\ dpc = "connected" /\ dpc' = "dial" /\ UNCHANGED <<conn, retire, stage, dconn>>
    BY <1>2 DEF DialAborted
  <2>2. Held' = Held
    BY <2>1 DEF Held, Leaving
  <2>3. \A e \in Ends, b \in Conns :
          sock'[e][b] = IF e = "dialer" /\ b = dconn THEN "closed" ELSE sock[e][b]
    BY <2>1, <1>t
  <2>4. \A e \in Ends, b \in Conns :
          b \in Pending'[e] <=> b \in Pending[e] /\ ~(e = "dialer" /\ b = dconn)
    BY <2>1, <1>t, <1>p, <1>q
  <2>5. dconn \in Conns => dconn \in Pending["dialer"] /\ dconn \notin Held["dialer"]
    BY <2>1, <1>t, <1>p, PendingUnheld
  <2>6. QED
    BY <2>2, <2>3, <2>4, <2>5 DEF Sockets
<1>3. CASE Install
  <2>1. /\ \A e \in Ends, c \in Conns : c \in Held'[e] <=> c \in Held[e] \/ (e = "dialer" /\ c = dconn)
        /\ dconn \in Conns
    BY <1>3, InstallFresh, HeldSet, ProcFacts DEF Install
  <2>2. dpc = "connected" /\ dpc' # "connected" /\ UNCHANGED <<sock, dconn, stage>>
    BY <1>3 DEF Install
  <2>3. \A e \in Ends, c \in Conns :
          /\ c \in Pending'[e] <=> c \in Pending[e] /\ ~(e = "dialer" /\ c = dconn)
          /\ e = "dialer" /\ c = dconn => c \in Pending[e]
    BY <2>2, <1>t, <1>p, <1>q
  <2>4. QED
    BY <2>1, <2>2, <2>3 DEF Sockets
<1>4. CASE Announce
  BY <1>4, <1>k DEF Announce
<1>5. CASE HoldDone
  BY <1>5, <1>k DEF HoldDone
<1>6. CASE HoldDue
  BY <1>6, <1>k DEF HoldDue
<1>7. CASE HoldIdle
  BY <1>7, <1>k DEF HoldIdle
<1>s. ASSUME NEW p \in Procs, Set(p, None), Leaving[p] = None, UNCHANGED <<sock, dconn, stage>>,
             dpc = "connected" <=> dpc' = "connected"
      PROVE  Sockets'
  <2>1. \A e \in Ends, c \in Conns : c \in Held'[e] <=> c \in Held[e]
    <3>1. None \in Conns \cup {None} /\ \A c \in Conns : c # None
      BY ProcFacts
    <3>2. \A e \in Ends, c \in Conns :
            c \in Held'[e] <=> c \in Held[e] \/ (e = EndOf(p) /\ c = None)
      BY <1>s, <3>1, HeldSet
    <3>3. QED
      BY <3>1, <3>2
  <2>2. Pending' = Pending
    BY <1>s DEF Pending
  <2>3. QED
    BY <1>s, <2>1, <2>2 DEF Sockets
<1>8. CASE ClearIdle
  BY <1>8, <1>s, ProcFacts DEF ClearIdle, Serial
<1>9. CASE Breath
  BY <1>9, <1>k DEF Breath
<1>10. CASE SendData
  BY <1>10, <1>k DEF SendData
<1>11. ASSUME NEW c \in Conns, Accept(c) \/ Admit(c) PROVE Sockets'
  <2>1. /\ stage' = [stage EXCEPT ![c] = "accepted"] /\ stage[c] \in {"queued", "admitting"}
        /\ UNCHANGED <<conn, retire, sock, dconn, dpc>>
    BY <1>11 DEF Accept, Admit
  <2>2. Held' = Held
    BY <2>1 DEF Held, Leaving
  <2>3. \A e \in Ends, b \in Conns : b \in Pending'[e] <=> b \in Pending[e]
    BY <2>1, <1>t, <1>p, <1>q
  <2>4. QED
    BY <2>1, <2>2, <2>3 DEF Sockets
<1>12. ASSUME NEW c \in Conns, TurnAway(c) PROVE Sockets'
  <2>1. /\ stage' = [stage EXCEPT ![c] = "refused"] /\ stage[c] \in {"accepted", "admitting"}
        /\ sock' = [sock EXCEPT !["listener"][c] = "closed"]
        /\ UNCHANGED <<conn, retire, dconn, dpc>>
    BY <1>12 DEF TurnAway
  <2>2. Held' = Held
    BY <2>1 DEF Held, Leaving
  <2>3. \A e \in Ends, b \in Conns :
          sock'[e][b] = IF e = "listener" /\ b = c THEN "closed" ELSE sock[e][b]
    BY <2>1, <1>t
  <2>4. \A e \in Ends, b \in Conns :
          b \in Pending'[e] <=> b \in Pending[e] /\ ~(e = "listener" /\ b = c)
    BY <2>1, <1>t, <1>p, <1>q
  <2>5. c \notin Held["listener"]
    BY <2>1, <1>t, <1>p, PendingUnheld
  <2>6. QED
    BY <2>2, <2>3, <2>4, <2>5 DEF Sockets
<1>13. ASSUME NEW c \in Conns, InstallAccepted(c) PROVE Sockets'
  <2>1. \A e \in Ends, b \in Conns : b \in Held'[e] <=> b \in Held[e] \/ (e = "listener" /\ b = c)
    <3>1. Leaving[c] = None /\ c \in Fresh["listener"]
      BY <1>13, AcceptFresh
    <3>2. c \in Procs /\ EndOf(c) = "listener" /\ Set(c, c)
      BY <1>13, ProcFacts DEF InstallAccepted
    <3>3. QED
      BY <3>1, <3>2, HeldSet
  <2>2. /\ stage[c] = "accepted" /\ stage' = [stage EXCEPT ![c] = "installed"]
        /\ UNCHANGED <<sock, dconn, dpc>>
    BY <1>13 DEF InstallAccepted
  <2>3. \A e \in Ends, b \in Conns :
          /\ b \in Pending'[e] <=> b \in Pending[e] /\ ~(e = "listener" /\ b = c)
          /\ e = "listener" /\ b = c => b \in Pending[e]
    BY <2>2, <1>t, <1>p, <1>q
  <2>4. QED
    BY <2>1, <2>2, <2>3 DEF Sockets
<1>14. ASSUME NEW e \in Ends, TakeConn(e) PROVE Sockets'
  BY <1>14, <1>k DEF TakeConn
<1>15. ASSUME NEW e \in Ends, Receive(e) PROVE Sockets'
  BY <1>15, <1>k DEF Receive
<1>16. ASSUME NEW e \in Ends, ReadFails(e) PROVE Sockets'
  BY <1>16, <1>k DEF ReadFails
<1>17. ASSUME NEW e \in Ends, Desync(e) PROVE Sockets'
  BY <1>17, <1>k DEF Desync
<1>18. ASSUME NEW e \in Ends, AfterFailure(e) PROVE Sockets'
  BY <1>18, <1>k DEF AfterFailure
<1>19. ASSUME NEW e \in Ends, Drop(e) PROVE Sockets'
  BY <1>19, <1>s, ProcFacts DEF Drop, Serial
<1>20. ASSUME NEW p \in Procs, Retire(p) PROVE Sockets'
  <2>1. \A e \in Ends, c \in Conns :
          c \in Held'[e] <=> c \in Held[e] /\ ~(e = EndOf(p) /\ c = Leaving[p])
    BY <1>20, HeldRetire
  <2>2. /\ Leaving[p] \in Conns /\ EndOf(p) \in Ends
        /\ sock' = [sock EXCEPT ![EndOf(p)][Leaving[p]] = "closed"]
    BY <1>20, RetireEffect, ProcFacts
  <2>3. \A e \in Ends, c \in Conns :
          sock'[e][c] = IF e = EndOf(p) /\ c = Leaving[p] THEN "closed" ELSE sock[e][c]
    BY <2>2, <1>t
  <2>4. Pending' = Pending
    BY <1>20 DEF Retire, Pending
  <2>5. Leaving[p] \in Held[EndOf(p)]
    BY <2>2 DEF Held
  <2>6. Leaving[p] \notin Pending[EndOf(p)]
    BY <2>2, <2>5, PendingUnheld
  <2>7. QED
    BY <2>1, <2>3, <2>4, <2>6 DEF Sockets
<1>21. ASSUME NEW e \in Ends, NEW c \in Conns, Break(e, c) \/ NoticeGone(e, c) PROVE Sockets'
  <2>1. /\ sock[e][c] = "open" /\ sock' = [sock EXCEPT ![e][c] = "dead"]
        /\ UNCHANGED <<conn, retire, dpc, dconn, stage>>
    BY <1>21 DEF Break, NoticeGone
  <2>2. \A d \in Ends, b \in Conns :
          sock'[d][b] = IF d = e /\ b = c THEN "dead" ELSE sock[d][b]
    BY <2>1, <1>t
  <2>3. Pending' = Pending
    BY <2>1 DEF Pending
  <2>4. QED
    BY <2>1, <2>2, <2>3, SocketsKept
<1>22. CASE UNCHANGED vars
  BY <1>22, <1>k DEF vars
<1>23. QED
  BY <1>1, <1>2, <1>3, <1>4, <1>5, <1>6, <1>7, <1>8, <1>9, <1>10, <1>11, <1>12, <1>13, <1>14,
     <1>15, <1>16, <1>17, <1>18, <1>19, <1>20, <1>21, <1>22
  DEF Next, Dialer, Listener, Reader

-----------------------------------------------------------------------------
LEMMA StreamInit == Init => StreamInv
<1> SUFFICES ASSUME Init PROVE StreamInv
  OBVIOUS
<1>1. TypeOK
  BY StreamAssumption DEF Init, TypeOK, Conns, None, NoRetire, Ends
<1>2. Leaving = [p \in Procs |-> None] /\ \A p \in Procs : retire[p].done = None
  BY DEF Init, Leaving, NoRetire
<1>3. Serial /\ Watched
  BY <1>2, ProcFacts DEF Init, Serial, Watched
<1>4. Dialed
  BY StreamAssumption DEF Init, Dialed, None, Ends, Conns
<1>5. Paired
  BY <1>2, ProcFacts DEF Init, Paired
<1>6. Sockets
  <2>1. \A e \in Ends, c \in Conns : c \notin Held[e] /\ c \notin Pending[e]
    BY <1>2, ProcFacts DEF Init, Held, Pending, Ends
  <2>2. QED
    BY <2>1 DEF Init, Sockets
<1>7. QED
  BY <1>1, <1>3, <1>4, <1>5, <1>6 DEF StreamInv

(* The stream carrier's invariant, whatever is dialed, rotated, accepted,  *)
(* broken or torn down, in whatever order the goroutines of both ends run  *)
(* (tcpCarrier, its dial loops, its accept loops and its receive loops).   *)
THEOREM StreamInvariant == Spec => []StreamInv
<1>1. StreamInv /\ [Next]_vars => StreamInv'
  BY TypeStep, SerialStep, DialedStep, PairedStep, WatchedStep, SocketsStep DEF StreamInv
<1>2. QED
  BY StreamInit, <1>1, PTL DEF Spec

(* A done channel is closed at most once, however many connections and     *)
(* rotations: tcpCarrier.set never panics on a closed channel.             *)
THEOREM CloseOnce == Spec => []DoneClosedOnce
<1>1. StreamInv => DoneClosedOnce
  BY DEF StreamInv, Paired, DoneClosedOnce
<1>2. QED
  BY StreamInvariant, <1>1, PTL

(* The dial loop is never left waiting on a connection that has been       *)
(* replaced or cleared (tcpDialLoop's and wsHold's wait on done).          *)
THEOREM WakeupNotLost == Spec => []NoLostWakeup
<1>1. StreamInv => NoLostWakeup
  <2> SUFFICES ASSUME StreamInv, dpc = "hold", conn["dialer"] # dconn,
                      ~(closes["dialer"][dconn] > 0)
               PROVE  \E p \in Retiring("dialer") : retire[p].done = dconn
    BY DEF NoLostWakeup
  <2>1. PICK p \in Procs : EndOf(p) = "dialer" /\ Leaving[p] = dconn
    BY DEF StreamInv, Watched
  <2>2. dconn # None
    BY DEF StreamInv, Dialed, None
  <2>3. ~Idle(p) /\ retire[p].done = dconn
    BY <2>1, <2>2, IdleFree DEF StreamInv, Paired
  <2>4. QED
    BY <2>1, <2>3 DEF Retiring
<1>2. QED
  BY StreamInvariant, <1>1, PTL

(* A socket that has not been closed is the active one or somebody is      *)
(* about to deal with it (tcpCarrier.set, wsAdmit, tcpDialLoop).           *)
THEOREM SocketsNotLeaked == Spec => []NoLeakedSocket
<1>1. StreamInv => NoLeakedSocket
  <2> SUFFICES ASSUME StreamInv, NEW e \in Ends, NEW c \in Conns, sock[e][c] \in {"open", "dead"}
               PROVE  \/ conn[e] = c
                      \/ \E p \in Retiring(e) : retire[p].conn = c
                      \/ e = "dialer" /\ dpc = "connected" /\ dconn = c
                      \/ e = "listener" /\ stage[c] \in {"queued", "admitting", "accepted"}
    BY DEF NoLeakedSocket, StreamInv
  <2>1. c \in Held[e] \/ c \in Pending[e]
    BY DEF StreamInv, Sockets
  <2>2. CASE c \in Held[e]
    <3>1. c = conn[e] \/ \E p \in Procs : EndOf(p) = e /\ Leaving[p] = c
      BY <2>2 DEF Held
    <3>2. \A p \in Procs : Leaving[p] = c => ~Idle(p) /\ retire[p].conn = c
      BY IdleFree, ProcFacts DEF StreamInv, Leaving
    <3>3. QED
      BY <3>1, <3>2 DEF Retiring
  <2>3. CASE c \in Pending[e]
    BY <2>3 DEF Pending, Ends
  <2>4. QED
    BY <2>1, <2>2, <2>3
<1>2. QED
  BY StreamInvariant, <1>1, PTL

\* An end never has for its active connection one it has closed itself.
ActiveNotClosed ==
  \A e \in Ends, c \in Conns : conn[e] = c => sock[e][c] \in {"open", "dead"}

(* What Send and the receive loop find in tcpCarrier.conn has not been     *)
(* closed at this end: set closes a connection only after it has stopped   *)
(* being the active one, and nothing reinstalls it.                        *)
THEOREM ActiveIsOpen == Spec => []ActiveNotClosed
<1>1. StreamInv => ActiveNotClosed
  BY DEF StreamInv, Sockets, Held, ActiveNotClosed
<1>2. QED
  BY StreamInvariant, <1>1, PTL

=============================================================================
