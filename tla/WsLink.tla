------------------------------- MODULE WsLink -------------------------------
(***************************************************************************)
(* Back-pressure on the WebSocket carrier (main.go Send, sendControl,      *)
(* writeTo, recvWS; wscarrier.go).  Each end has one write lock; its       *)
(* holder may block in a write for as long as the far end does not read,   *)
(* and the receive loop itself needs the lock to answer a ping.  What      *)
(* happens to the connections otherwise is StreamCarrier's subject: here   *)
(* set and the closing of what it replaces are one step.                   *)
(*                                                                         *)
(* A connection crosses a CDN, which buffers, sends pings of its own and   *)
(* may keep one leg open when the other has gone.                          *)
(***************************************************************************)
EXTENDS Naturals, Sequences

CONSTANTS
  Window,    \* frames the two kernels and the CDN buffer in each direction
  MaxConns,  \* bound: connections dialled
  MaxPings   \* bound: pings the CDN sends to either end

ASSUME LinkAssumption ==
  Window \in Nat \ {0} /\ MaxConns \in Nat /\ MaxPings \in Nat

VARIABLES
  conn,      \* conn[e]: the active connection, None if there is none
  open,      \* open[e][c]: whether e's leg of c is open
  pipe,      \* pipe[e][c]: the frames from e that the far end has yet to read
  wmu,       \* wmu[e]: the task that holds the write lock, or Free
  pc,        \* where each task is
  with,      \* the connection it means to write to
  dialed,    \* connections dialled so far; the last is the dial loop's own
  admitted,  \* connections the listener has admitted
  pings      \* pings[e]: pings to e so far

vars == <<conn, open, pipe, wmu, pc, with, dialed, admitted, pings>>

None  == 0
Conns == 1 .. MaxConns
Ends  == {"dialer", "listener"}
Far(e) == IF e = "dialer" THEN "listener" ELSE "dialer"

\* A TUN pump (or keepalive) and a receive loop at each end, and the dial
\* loop, which announces itself.
Tasks == (Ends \X {"pump", "recv"}) \cup {<<"dialer", "dial">>}
Dialer == <<"dialer", "dial">>
Receiver(e) == <<e, "recv">>
Free == <<"", "">>

Room(e, c) == Len(pipe[e][c]) < Window

Init ==
  /\ conn = [e \in Ends |-> None]
  /\ open = [e \in Ends |-> [c \in Conns |-> FALSE]]
  /\ pipe = [e \in Ends |-> [c \in Conns |-> <<>>]]
  /\ wmu = [e \in Ends |-> Free]
  /\ pc = [g \in Tasks |-> "idle"]
  /\ with = [g \in Tasks |-> None]
  /\ dialed = 0 /\ admitted = {} /\ pings = [e \in Ends |-> 0]

\* What was on its way to a closed leg is discarded.
Unread(p, legs) ==
  [e \in Ends |-> [c \in Conns |-> IF legs[Far(e)][c] THEN p[e][c] ELSE <<>>]]

Close(e, c) ==
  /\ open' = [open EXCEPT ![e][c] = FALSE]
  /\ pipe' = Unread(pipe, open')

\* tcpCarrier.set: the replaced connection is closed at this end; legs are
\* those that are new, p the frames under way.
Installed(e, c, legs, p) ==
  /\ conn' = [conn EXCEPT ![e] = c]
  /\ open' = IF conn[e] = None THEN legs ELSE [legs EXCEPT ![e][conn[e]] = FALSE]
  /\ pipe' = Unread(p, open')

-----------------------------------------------------------------------------
(* Sending                                                                 *)

\* Send takes the active connection; without one it drops the packet.
Begin(g, from) ==
  LET e == g[1]
  IN  /\ pc[g] = from /\ conn[e] # None
      /\ pc' = [pc EXCEPT ![g] = "want"]
      /\ with' = [with EXCEPT ![g] = conn[e]]
      /\ UNCHANGED <<conn, open, pipe, wmu, dialed, admitted, pings>>

SkipAnnounce ==
  /\ pc[Dialer] = "announce" /\ conn["dialer"] = None
  /\ pc' = [pc EXCEPT ![Dialer] = "hold"]
  /\ UNCHANGED <<conn, open, pipe, wmu, with, dialed, admitted, pings>>

\* The control frames are written without the lock.
MutantLock(g) ==
  LET e == g[1]
  IN  /\ pc[g] = "want"
      /\ g = Receiver(e) \/ wmu[e] = Free
      /\ wmu' = IF g = Receiver(e) THEN wmu ELSE [wmu EXCEPT ![e] = g]
      /\ pc' = [pc EXCEPT ![g] = "write"]
      /\ UNCHANGED <<conn, open, pipe, with, dialed, admitted, pings>>

Lock(g) ==
  /\ pc[g] = "want" /\ wmu[g[1]] = Free
  /\ wmu' = [wmu EXCEPT ![g[1]] = g]
  /\ pc' = [pc EXCEPT ![g] = "write"]
  /\ UNCHANGED <<conn, open, pipe, with, dialed, admitted, pings>>

\* The connection was replaced or closed under the writer.
Replaced(g) == conn[g[1]] # with[g] \/ ~open[g[1]][with[g]]

\* writeTo drops the frame if the connection is gone, and blocks while there
\* is no room.
WriteTo(g) ==
  LET e == g[1]  c == with[g]  frame == IF g[2] = "recv" THEN "pong" ELSE "data"
  IN  /\ pc[g] = "write"
      /\ \/ Replaced(g) /\ UNCHANGED pipe
         \/ ~Replaced(g) /\ Room(e, c) /\ pipe' = [pipe EXCEPT ![e][c] = Append(@, frame)]
      /\ wmu' = [wmu EXCEPT ![e] = Free]
      /\ pc' = [pc EXCEPT ![g] = IF g = Dialer THEN "hold" ELSE "idle"]
      /\ with' = [with EXCEPT ![g] = None]
      /\ UNCHANGED <<conn, open, dialed, admitted, pings>>

\* The option is not set: a writer blocks for as long as the far end likes.
MutantUserTimeout(e) == FALSE /\ UNCHANGED vars

\* The kernel gives up a connection whose data has not moved for
\* wsUserTimeout (wsTuneConn).
UserTimeout(e) ==
  /\ \E g \in Tasks :
       /\ g[1] = e /\ pc[g] = "write" /\ ~Replaced(g) /\ ~Room(e, with[g])
       /\ Close(e, with[g])
  /\ UNCHANGED <<conn, wmu, pc, with, dialed, admitted, pings>>

-----------------------------------------------------------------------------
(* Receiving (recvWS)                                                      *)

\* A ping is answered before anything more is read.
Read(e) ==
  LET c == conn[e]  g == Receiver(e)
  IN  /\ pc[g] = "idle" /\ c # None
      /\ open[e][c] /\ pipe[Far(e)][c] # <<>>
      /\ pipe' = [pipe EXCEPT ![Far(e)][c] = Tail(@)]
      /\ IF Head(pipe[Far(e)][c]) = "ping"
         THEN /\ pc' = [pc EXCEPT ![g] = "want"]
              /\ with' = [with EXCEPT ![g] = c]
         ELSE UNCHANGED <<pc, with>>
      /\ UNCHANGED <<conn, open, wmu, dialed, admitted, pings>>

\* The read fails, and the connection is dropped (runStream).
ReadFails(e) ==
  /\ pc[Receiver(e)] = "idle"
  /\ conn[e] # None /\ ~open[e][conn[e]]
  /\ Installed(e, None, open, pipe)
  /\ UNCHANGED <<wmu, pc, with, dialed, admitted, pings>>

-----------------------------------------------------------------------------
(* Connections (wsDialLoop, wsHold, wsAcceptLoop, admit)                   *)

\* A dial that goes through; the announcement follows.
Dial ==
  LET c == dialed + 1
  IN  /\ pc[Dialer] = "idle" /\ dialed < MaxConns
      /\ dialed' = c
      /\ Installed("dialer", c, [e \in Ends |-> [open[e] EXCEPT ![c] = TRUE]], pipe)
      /\ pc' = [pc EXCEPT ![Dialer] = "announce"]
      /\ UNCHANGED <<wmu, with, admitted, pings>>

\* The connection is gone, or due for rotation.
Redial ==
  /\ pc[Dialer] = "hold"
  /\ pc' = [pc EXCEPT ![Dialer] = "idle"]
  /\ UNCHANGED <<conn, open, pipe, wmu, with, dialed, admitted, pings>>

\* Nothing authenticated arrives: the receive loop is held up, or there is
\* nothing for it.
Silent ==
  \/ pc[Receiver("dialer")] # "idle"
  \/ \A i \in DOMAIN pipe["listener"][dialed] : pipe["listener"][dialed][i] # "data"

Watch ==
  /\ pc[Dialer] = "hold" /\ conn["dialer"] = dialed /\ Silent
  /\ Installed("dialer", None, open, pipe)
  /\ pc' = [pc EXCEPT ![Dialer] = "idle"]
  /\ UNCHANGED <<wmu, with, dialed, admitted, pings>>

\* The first message admits a connection; control frames before it are
\* skipped, and not answered.
Admit(c) ==
  /\ c \in (1 .. dialed) \ admitted
  /\ open["listener"][c] /\ pipe["dialer"][c] # <<>>
  /\ LET rest == [pipe EXCEPT !["dialer"][c] = Tail(@)]
     IN  IF Head(pipe["dialer"][c]) = "data"
         THEN admitted' = admitted \cup {c} /\ Installed("listener", c, open, rest)
         ELSE pipe' = rest /\ UNCHANGED <<admitted, conn, open>>
  /\ UNCHANGED <<wmu, pc, with, dialed, pings>>

\* The deadline for the first message.
AdmitTimeout(c) ==
  /\ c \in (1 .. dialed) \ admitted /\ open["listener"][c]
  /\ Close("listener", c)
  /\ UNCHANGED <<conn, wmu, pc, with, dialed, admitted, pings>>

-----------------------------------------------------------------------------
(* The CDN                                                                 *)

Ping(e, c) ==
  /\ pings[e] < MaxPings
  /\ conn[e] = c /\ open[e][c] /\ Room(Far(e), c)
  /\ pings' = [pings EXCEPT ![e] = @ + 1]
  /\ pipe' = [pipe EXCEPT ![Far(e)][c] = Append(@, "ping")]
  /\ UNCHANGED <<conn, open, wmu, pc, with, dialed, admitted>>

\* It may pass on that the far leg has gone.
PassOn(e, c) ==
  /\ open[e][c] /\ ~open[Far(e)][c]
  /\ Close(e, c)
  /\ UNCHANGED <<conn, wmu, pc, with, dialed, admitted, pings>>

-----------------------------------------------------------------------------
Lost == conn["dialer"] # dialed /\ Redial

Next ==
  \/ \E e \in Ends : \/ Begin(<<e, "pump">>, "idle")
                     \/ Read(e) \/ ReadFails(e) \/ UserTimeout(e)
                     \/ \E c \in Conns : Ping(e, c) \/ PassOn(e, c)
  \/ Begin(Dialer, "announce") \/ SkipAnnounce
  \/ \E g \in Tasks : Lock(g) \/ WriteTo(g)
  \/ Dial \/ Redial \/ Watch
  \/ \E c \in Conns : Admit(c) \/ AdmitTimeout(c)

\* Goroutines run, and the lock is handed to those who wait for it; a write
\* goes through or the kernel gives up; timers and the watchdog fire, and
\* dials succeed.  Nothing makes the CDN pass anything on.
Fairness ==
  /\ \A g \in Tasks : IF g[2] = "pump" THEN WF_vars(Lock(g)) ELSE SF_vars(Lock(g))
  /\ \A e \in Ends : /\ WF_vars(UserTimeout(e) \/ \E g \in Tasks : g[1] = e /\ WriteTo(g))
                     /\ WF_vars(Read(e) \/ ReadFails(e))
  /\ WF_vars(Begin(Dialer, "announce") \/ SkipAnnounce \/ Dial \/ Lost \/ Watch)
  /\ WF_vars(\E c \in Conns : Admit(c))

Spec == Init /\ [][Next]_vars /\ Fairness

-----------------------------------------------------------------------------
Frames == {"data", "ping", "pong"}

(* Types; among them, that whoever is writing holds the lock of its end:   *)
(* no frame is written into the middle of another (sendControl, Send).     *)
TypeOK ==
  /\ conn \in [Ends -> Conns \cup {None}]
  /\ open \in [Ends -> [Conns -> BOOLEAN]]
  /\ pipe \in [Ends -> [Conns -> Seq(Frames)]]
  /\ \A e \in Ends, c \in Conns : Len(pipe[e][c]) <= Window
  /\ pc \in [Tasks -> {"idle", "announce", "want", "write", "hold"}]
  /\ with \in [Tasks -> Conns \cup {None}]
  /\ wmu \in [Ends -> Tasks \cup {Free}]
  /\ \A g \in Tasks : pc[g] = "write" <=> wmu[g[1]] = g
  /\ dialed \in 0 .. MaxConns /\ admitted \subseteq 1 .. dialed
  /\ pings \in [Ends -> 0 .. MaxPings]

(* The receive loops and the dial loop are never held up for good by what  *)
(* they have to write: also when both ends are pinged with both directions *)
(* full, so that each waits for the other to read and neither does, and    *)
(* when the dial loop, which is not watching while it announces itself, is *)
(* kept waiting.  (A pump that waits is back-pressure.)                    *)
Unwedged ==
  \A g \in {Receiver("dialer"), Receiver("listener"), Dialer} :
    pc[g] \in {"want", "write"} ~> pc[g] \notin {"want", "write"}
=============================================================================
