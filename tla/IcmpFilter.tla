----------------------------- MODULE IcmpFilter -----------------------------
(***************************************************************************)
(* The kernel filter of the ICMP carrier and the parser behind it          *)
(* (icmp.go).  attachICMPFilter assembles a classic BPF program with one   *)
(* comparison per identifier and jumps counted by hand; the kernel's       *)
(* interpreter runs it over every packet, and what it lets through parse   *)
(* looks at again.  Without the filter parse alone must do.  A packet is   *)
(* what either of them reads of it.                                        *)
(***************************************************************************)
EXTENDS Integers, Sequences

CONSTANTS Known,      \* lists of identifiers a tunnel may have
          SeenIds,       \* identifiers found in packets
          HeaderWords,\* values of the header length field
          PacketLens  \* lengths of packets

\* Of identifiers there are at most as many as a jump of one byte can pass
\* (icmpMaxIDPool is 8).
ASSUME FilterAssumption ==
  /\ \A list \in Known : list \in Seq(Nat) /\ Len(list) <= 254
  /\ PacketLens \subseteq Nat /\ HeaderWords \subseteq Nat /\ SeenIds \subseteq Nat

VARIABLES ids,        \* the tunnel's identifiers
          mimic,      \* a ping timestamp precedes the payload
          packet,     \* len, words: IP header length field, type, id
          cpu         \* pc, X and A of the interpreter; verdict once it has returned

filterVars == <<ids, mimic, packet, cpu>>

EchoRequest == 8
EchoReply == 0
IpMin == 20
IcmpHeader == 8
MimicLen == 16

FilterInit ==
  /\ ids \in Known /\ mimic \in BOOLEAN
  /\ packet \in [len : PacketLens, words : HeaderWords, type : {EchoRequest, EchoReply}, id : SeenIds]
  /\ cpu = [pc |-> 0, X |-> 0, A |-> 0, verdict |-> "running"]

-----------------------------------------------------------------------------

Ldx(k) == [op |-> "ldx", k |-> k, jt |-> 0, jf |-> 0]
LdB(k) == [op |-> "ldb", k |-> k, jt |-> 0, jf |-> 0]
LdH(k) == [op |-> "ldh", k |-> k, jt |-> 0, jf |-> 0]
Jeq(k, jt, jf) == [op |-> "jeq", k |-> k, jt |-> jt % 256, jf |-> jf % 256]
MaxAccepted == 256 * 1024   \* "accept, up to 256 KiB"
Ret(k) == [op |-> "ret", k |-> k, jt |-> 0, jf |-> 0]

\* Mutant: the jumps of the comparisons are one short.
MutantProgram(n) ==
  <<Ldx(0), LdB(0), Jeq(EchoRequest, 0, n + 1), LdH(4)>>
  \o [i \in 1..n |-> Jeq(ids[i], n - i, 0)]
  \o <<Ret(0), Ret(MaxAccepted)>>

\* The program for n identifiers: type, then identifier after identifier, then reject
\* and accept.  (The code counts them from zero.)
Program(n) ==
  <<Ldx(0), LdB(0), Jeq(EchoRequest, 0, n + 1), LdH(4)>>
  \o [i \in 1..n |-> Jeq(ids[i], n - (i - 1), 0)]
  \o <<Ret(0), Ret(MaxAccepted)>>

Return(k) == cpu' = [cpu EXCEPT !.verdict = IF k = 0 THEN "reject" ELSE "accept"]
\* A load past the end of the packet rejects it.
Load(at, width, value) ==
  IF at + width <= packet.len THEN cpu' = [cpu EXCEPT !.A = value, !.pc = @ + 1] ELSE Return(0)

RunInstruction ==
  /\ cpu.verdict = "running"
  /\ LET i == Program(Len(ids))[cpu.pc + 1] IN
     \/ /\ i.op = "ldx"
        /\ IF i.k < packet.len
           THEN cpu' = [cpu EXCEPT !.X = 4 * packet.words, !.pc = @ + 1] ELSE Return(0)
     \/ i.op = "ldb" /\ Load(cpu.X + i.k, 1, packet.type)
     \/ i.op = "ldh" /\ Load(cpu.X + i.k, 2, packet.id)
     \/ /\ i.op = "jeq"
        /\ cpu' = [cpu EXCEPT !.pc = @ + 1 + (IF cpu.A = i.k THEN i.jt ELSE i.jf)]
     \/ i.op = "ret" /\ Return(i.k)
  /\ UNCHANGED <<ids, mimic, packet>>

FilterNext == RunInstruction

-----------------------------------------------------------------------------

\* knownID and parse, in user space.
KnownID(id) == \E i \in DOMAIN ids : ids[i] = id
Parsed ==
  /\ packet.len >= IpMin
  /\ 4 * packet.words >= IpMin /\ packet.len >= 4 * packet.words + IcmpHeader
  /\ packet.type = EchoRequest
  /\ KnownID(packet.id)
  /\ mimic => packet.len - (4 * packet.words + IcmpHeader) >= MimicLen

\* The filter and the parser agree on whose packet it is: the kernel never withholds
\* one that parse would take, and of those it lets through parse refuses only the
\* malformed; the interpreter always returns, and only from one of the two returns.
FilterAgrees ==
  /\ cpu.pc + 1 \in DOMAIN Program(Len(ids))
  /\ cpu.verdict = "reject" => ~Parsed
  /\ cpu.verdict = "accept" =>
       /\ packet.type = EchoRequest /\ KnownID(packet.id)
       /\ Parsed \/ 4 * packet.words < IpMin
          \/ packet.len < 4 * packet.words + IcmpHeader + (IF mimic THEN MimicLen ELSE 0)
=============================================================================
