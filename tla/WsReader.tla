------------------------------ MODULE WsReader ------------------------------
(***************************************************************************)
(* Reading WebSocket messages off one connection (ws.go wsReader.next),    *)
(* for the listener's admission (admit) and then for the receive loop      *)
(* (main.go recvWS).                                                       *)
(*                                                                         *)
(* The far side, or a CDN on the way, frames messages as it likes: whole   *)
(* or in fragments, with control frames anywhere, and not always rightly.  *)
(* A payload is the pairs <<frame, position>> it consists of, so that one  *)
(* put together wrongly is a different payload.  Masking undoes itself and *)
(* is left out: the reader takes masked and bare frames alike, from either *)
(* side.  A reader that has returned an error is not asked again.          *)
(***************************************************************************)
EXTENDS Integers, Sequences, FiniteSets

CONSTANTS
  Sizes,       \* payload sizes that occur
  MaxMessage,  \* wsMaxMessage
  MaxControl,  \* longest control payload (125)
  MaxFrames    \* bound: frames read

ASSUME ReaderAssumption ==
  Sizes \subseteq Nat /\ {MaxMessage, MaxControl, MaxFrames} \subseteq Nat

VARIABLES
  msg,    \* wsReader.msg: the message under assembly, or the last one
  msgOp,  \* wsReader.msgOp: its opcode while under assembly, else Nothing
  phase,  \* who is reading
  first,  \* wsConn.first: whether the admission message, still in msg, waits
  got,    \* what has been handed to the tunnel
  answered,  \* control frames answered
  read    \* history: the frames read, the illegal one that ends them included

readerVars == <<msg, msgOp, phase, first, got, answered, read>>

Nothing == "none"
Openings == {"text", "binary"}
Control  == {"close", "ping", "pong"}
\* "rsv" is any frame with a reserved bit set, the other two are opcodes
\* that have no meaning.
Opcodes  == {"cont"} \cup Openings \cup Control \cup {"rsv", "reserved", "reservedControl"}
AnyFrame == [op : Opcodes, fin : BOOLEAN, size : Sizes]

\* The payload of the frame about to be read, or of the k-th one.
FrameBytes(k, size) == [i \in 1 .. size |-> <<k, i>>]
Payload(f) == FrameBytes(Len(read) + 1, f.size)

ReaderInit ==
  /\ msg = <<>> /\ msgOp = Nothing
  /\ phase = "admit" /\ first = FALSE
  /\ got = <<>> /\ answered = <<>> /\ read = <<>>

-----------------------------------------------------------------------------
(* wsReader.next, a frame at a time                                        *)

\* Control frames are judged by themselves.
ControlError(f) ==
  IF ~f.fin \/ f.size > MaxControl \/ f.op \notin Control THEN "protocol" ELSE Nothing

\* Mutant: the size of a message is not added up over its fragments.
MutantError(f) ==
  IF f.op = "rsv" THEN "protocol"
  ELSE IF f.op \in Control \cup {"reservedControl"} THEN ControlError(f)
  ELSE IF (f.op = "cont" <=> msgOp = Nothing) \/ f.op = "reserved" THEN "protocol"
  ELSE IF f.size > MaxMessage THEN "too big" ELSE Nothing

\* The error a frame is answered with, or Nothing.  Control frames are judged
\* first, then the order of fragments, then the size.
Error(f) ==
  LET had == IF f.op = "cont" THEN Len(msg) ELSE 0
  IN  IF f.op = "rsv" THEN "protocol"
      ELSE IF f.op \in Control \cup {"reservedControl"} THEN ControlError(f)
      ELSE IF (f.op = "cont" <=> msgOp = Nothing) \/ f.op = "reserved" THEN "protocol"
      ELSE IF f.size > MaxMessage - had THEN "too big" ELSE Nothing

\* Mutant: the message before it is not cleared away.
MutantAssemble(f) ==
  /\ msg' = msg \o Payload(f)
  /\ msgOp' = IF f.fin THEN Nothing ELSE IF f.op = "cont" THEN msgOp ELSE f.op

\* A data frame goes to the message it opens or continues.
Assemble(f) ==
  /\ msg' = (IF f.op = "cont" THEN msg ELSE <<>>) \o Payload(f)
  /\ msgOp' = IF f.fin THEN Nothing ELSE IF f.op = "cont" THEN msgOp ELSE f.op

\* The opcode of the message that f completes, or Nothing.
Completes(f) == IF ~f.fin THEN Nothing ELSE IF f.op = "cont" THEN msgOp ELSE f.op

TakeFrame(f) ==
  /\ Len(read) < MaxFrames
  /\ read' = Append(read, f)

Data(f) == f.op \in Openings \cup {"cont"}

-----------------------------------------------------------------------------
(* admit                                                                   *)

\* Errors end it; so does a close.
AdmitEnds(f) ==
  /\ phase = "admit" /\ TakeFrame(f)
  /\ Error(f) # Nothing \/ f.op = "close"
  /\ phase' = IF Error(f) # Nothing THEN "failed" ELSE "closed"
  /\ UNCHANGED <<msg, msgOp, first, got, answered>>

\* Other control frames, text, and what is not yet a message: it reads on.
AdmitSkips(f) ==
  /\ phase = "admit" /\ TakeFrame(f)
  /\ Error(f) = Nothing /\ f.op # "close"
  /\ ~(Data(f) /\ Completes(f) = "binary")
  /\ IF Data(f) THEN Assemble(f) ELSE UNCHANGED <<msg, msgOp>>
  /\ UNCHANGED <<phase, first, got, answered>>

\* The first message decides: it authenticates or not (an empty one cannot).
\* If so it is kept, in the reader's own buffer.
AdmitDecides(f, authentic) ==
  /\ phase = "admit" /\ TakeFrame(f)
  /\ Error(f) = Nothing /\ Data(f) /\ Completes(f) = "binary"
  /\ Assemble(f)
  /\ authentic => msg' # <<>>
  /\ first' = authentic
  /\ phase' = IF authentic THEN "carrier" ELSE "stranger"
  /\ UNCHANGED <<got, answered>>

-----------------------------------------------------------------------------
(* recvWS                                                                  *)

\* The admission message comes out before anything more is read.
TakeFirst ==
  /\ phase = "carrier" /\ first
  /\ got' = Append(got, msg)
  /\ first' = FALSE
  /\ UNCHANGED <<msg, msgOp, phase, answered, read>>

\* The status code a close begins with, two bytes of it.
Status(data) == SubSeq(data, 1, IF Len(data) < 2 THEN Len(data) ELSE 2)

\* An error ends it, and a close after its status code has been sent back.
RecvEnds(f) ==
  /\ phase = "carrier" /\ ~first /\ TakeFrame(f)
  /\ Error(f) # Nothing \/ f.op = "close"
  /\ phase' = IF Error(f) # Nothing THEN "failed" ELSE "closed"
  /\ answered' = IF Error(f) # Nothing THEN answered
              ELSE Append(answered, [op |-> "close", data |-> Status(Payload(f))])
  /\ UNCHANGED <<msg, msgOp, first, got>>

\* Mutant: a ping is answered with what the message buffer holds.
MutantRecvControl(f) ==
  /\ phase = "carrier" /\ ~first /\ TakeFrame(f)
  /\ Error(f) = Nothing /\ f.op \in {"ping", "pong"}
  /\ answered' = IF f.op = "ping" THEN Append(answered, [op |-> "pong", data |-> msg])
                                 ELSE answered
  /\ UNCHANGED <<msg, msgOp, phase, first, got>>

\* A ping is answered with its own payload.  A control frame in the middle
\* of a message leaves the assembly alone.
RecvControl(f) ==
  /\ phase = "carrier" /\ ~first /\ TakeFrame(f)
  /\ Error(f) = Nothing /\ f.op \in {"ping", "pong"}
  /\ answered' = IF f.op = "ping" THEN Append(answered, [op |-> "pong", data |-> Payload(f)])
              ELSE answered
  /\ UNCHANGED <<msg, msgOp, phase, first, got>>

\* A binary message goes to the tunnel, unless it is empty.
RecvData(f) ==
  /\ phase = "carrier" /\ ~first /\ TakeFrame(f)
  /\ Error(f) = Nothing /\ Data(f)
  /\ Assemble(f)
  /\ got' = IF Completes(f) = "binary" /\ msg' # <<>> THEN Append(got, msg') ELSE got
  /\ UNCHANGED <<phase, first, answered>>

-----------------------------------------------------------------------------
ReaderNext ==
  \/ \E f \in AnyFrame :
       \/ AdmitEnds(f) \/ AdmitSkips(f) \/ \E a \in BOOLEAN : AdmitDecides(f, a)
       \/ RecvEnds(f) \/ RecvControl(f) \/ RecvData(f)
  \/ TakeFirst

ReaderSpec == ReaderInit /\ [][ReaderNext]_readerVars

-----------------------------------------------------------------------------
(* What a sequence of frames means, stated over the whole of it            *)

\* Before the j-th frame a message has been opened of which none was the last.
OpenAt(j) ==
  \E o \in 1 .. j - 1 :
    /\ read[o].op \in Openings
    /\ \A k \in o .. j - 1 : Data(read[k]) => ~read[k].fin

\* The frames of the message the j-th frame belongs to, up to that one; what they
\* carry; and that m is a set of bytes in their order.
Parts(j) ==
  {k \in 1 .. j : Data(read[k]) /\ \A i \in k + 1 .. j : read[i].op \notin Openings}
Carried(j) == UNION {{k} \X (1 .. read[k].size) : k \in Parts(j)}
Precedes(b, c) == b[1] < c[1] \/ (b[1] = c[1] /\ b[2] < c[2])
Lists(m, bytes) ==
  /\ {m[x] : x \in DOMAIN m} = bytes
  /\ \A x, y \in DOMAIN m : x < y => Precedes(m[x], m[y])

\* The rules of RFC 6455 that the reader enforces, and its own limit: no
\* reserved bit or opcode, control frames whole and short, fragments in their
\* order, no message too large.  Which side has to mask, and that the body of
\* a close has no byte or at least two, are rules it leaves alone.
WellFramed(j) ==
  /\ read[j].op \in Openings \cup Control \cup {"cont"}
  /\ read[j].op \in Control => read[j].fin /\ read[j].size <= MaxControl
  /\ read[j].op = "cont" => OpenAt(j)
  /\ read[j].op \in Openings => ~OpenAt(j)
  /\ Data(read[j]) => Cardinality(Carried(j)) <= MaxMessage

\* The frames that complete a binary message with something in it.
Binary(j) ==
  /\ WellFramed(j) /\ Data(read[j]) /\ read[j].fin
  /\ \E o \in Parts(j) : read[o].op = "binary"
  /\ Carried(j) # {}
Binaries == {j \in DOMAIN read : Binary(j)}

\* Whether the first of them was authentic, and the answers due since.
Admitted == Binaries # {} /\ phase # "stranger"
Due(j) ==
  /\ WellFramed(j) /\ read[j].op \in {"ping", "close"}
  /\ \E b \in Binaries : b < j
Dues == {j \in DOMAIN read : Due(j)}
Answer(j) ==
  IF read[j].op = "ping" THEN [op |-> "pong", data |-> FrameBytes(j, read[j].size)]
  ELSE [op |-> "close", data |-> Status(FrameBytes(j, read[j].size))]

\* How many of S there are up to j.
Rank(j, S) == Cardinality({k \in S : k <= j})

-----------------------------------------------------------------------------
(* Types; among them, that what is under assembly stays within bounds.     *)
ReaderTypeOK ==
  /\ msg \in Seq((1 .. MaxFrames) \X Nat) /\ Len(msg) <= MaxMessage
  /\ msgOp \in Openings \cup {Nothing}
  /\ phase \in {"admit", "carrier", "stranger", "closed", "failed"}
  /\ first \in BOOLEAN /\ (first => phase = "carrier")
  /\ Len(read) <= MaxFrames

\* The first message waits in the reader's buffer.
TunnelGets == IF first THEN Append(got, msg) ELSE got

(* However the messages are cut up and whatever is put between the pieces, *)
(* the tunnel gets those that were sent, from the one that admitted the    *)
(* connection on: each once, whole, in order, and nothing else             *)
(* (wsReader.next, admit, takeFirst, recvWS).                              *)
MessagesIntact ==
  Admitted =>
    /\ Len(TunnelGets) = Cardinality(Binaries)
    /\ \A j \in Binaries : Lists(TunnelGets[Rank(j, Binaries)], Carried(j))

(* A connection is given up for its framing exactly at the first frame     *)
(* with a reserved bit or opcode, that is a control frame in pieces or too *)
(* long, that is out of the order of fragments or makes a message too      *)
(* large; however else a message is cut up, and whatever control frames    *)
(* stand in it, the connection is kept (wsReader.next).                    *)
FaultsFound ==
  \A j \in DOMAIN read : ~WellFramed(j) <=> j = Len(read) /\ phase = "failed"

(* From the admission on every ping is answered, once, in order and with   *)
(* what it carried, and a close with its status code, in the middle of a   *)
(* message too; before it, nothing is answered (recvWS, admit).            *)
AnswersEcho ==
  IF ~Admitted THEN answered = <<>>
  ELSE /\ Len(answered) = Cardinality(Dues)
       /\ \A j \in Dues : answered[Rank(j, Dues)] = Answer(j)
=============================================================================
