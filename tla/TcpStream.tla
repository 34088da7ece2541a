----------------------------- MODULE TcpStream -----------------------------
(***************************************************************************)
(* How amjCom::TCP::Common makes packets of a stream: the composed reads   *)
(* of a header and of a body, each of which takes as many reads of the      *)
(* socket as it needs, the packet p the body is read into, and the         *)
(* application's use of p inside its callback.                             *)
(*                                                                         *)
(* The stream is a sequence of units of some bytes each; a frame is         *)
(* HeaderUnits units and those of its body.  A new connection comes after  *)
(* an error of the old one: of a client that connects again, or as another *)
(* session, whose packet is another one too.  Connections that are         *)
(* replaced under a read are the subject of module TcpClient.              *)
(***************************************************************************)
EXTENDS Packet, FiniteSets

CONSTANTS
  HeaderUnits,  \* units of a header
  MaxLen,       \* bound: units of a body
  MaxFrames,    \* bound: frames the peer writes
  MaxConns,     \* bound: connections
  MaxOps        \* bound: operations of the application on p in a callback

\* A size_t holds every length a header can announce.
ASSUME StreamAssumption ==
  /\ HeaderUnits \in Nat \ {0} /\ MaxLen \in Nat /\ MaxFrames \in Nat
  /\ MaxConns \in Nat \ {0} /\ MaxOps \in Nat /\ MaxLen <= SizeMax

VARIABLES
  conn,       \* number of the connection
  ended,      \* the peer has ended it
  frames,     \* the frames the peer has written, on all connections
  wire,       \* units under way on this connection
  part,       \* what is being read, see Parts
  header,     \* header[8]: the units in it
  body,       \* units of the body read into p
  p,          \* Common::p
  ops,        \* operations of the application in this callback
  ptr,        \* the bytes the last write() or read() of the application gave it
  delivered   \* the packets handed to the application

netVars == <<conn, ended, frames, wire>>
vars == <<conn, ended, frames, wire, part, header, body, p, ops, ptr, delivered>>

\* "callback": the application has the packet; "error": error_handler has run.
Parts == {"header", "body", "callback", "error"}

\* Unit i of frame f; frame f has a body of len units and was written on
\* connection c, with PACKET_MARKER or without.
Units  == [f : 1..MaxFrames, i : 1..(HeaderUnits + MaxLen)]
Frames == [c : 1..MaxConns, len : 0..MaxLen, marker : BOOLEAN]
UnitsOf(f, len) == [i \in 1..(HeaderUnits + len) |-> [f |-> f, i |-> i]]

Nothing == [at |-> 0, n |-> 0]

Init ==
  /\ conn = 1 /\ ended = FALSE /\ frames = <<>> /\ wire = <<>>
  /\ part = "header" /\ header = <<>> /\ body = 0
  /\ p = Clear /\ ops = 0 /\ ptr = Nothing /\ delivered = <<>>

-----------------------------------------------------------------------------
(* The peer.                                                               *)

\* A frame, of amjCom (send1) or of a program that is not.
PeerWrites(len, marker) ==
  /\ ~ended /\ Len(frames) < MaxFrames
  /\ frames' = Append(frames, [c |-> conn, len |-> len, marker |-> marker])
  /\ wire' = wire \o UnitsOf(Len(frames'), len)
  /\ UNCHANGED <<conn, ended, part, header, body, p, ops, ptr, delivered>>

\* The connection ends; n units arrive before.
PeerEnds(n) ==
  /\ ~ended
  /\ ended' = TRUE /\ wire' = SubSeq(wire, 1, n)
  /\ UNCHANGED <<conn, frames, part, header, body, p, ops, ptr, delivered>>

-----------------------------------------------------------------------------
(* Receiving.                                                              *)

\* The frame the header in the buffer announces, whatever it was written as.
Announced == frames[header[1].f]

\* Units the composed read is still waiting for.
Missing == IF part = "header" THEN HeaderUnits - Len(header)
                              ELSE Announced.len - body

\* Where the bytes of the body go: p.write(nb) gave the start of p.
Fill(d, from, us) ==
  [i \in DOMAIN d |-> IF i \in (from + 1)..(from + Len(us)) THEN us[i - from] ELSE d[i]]

\* Mutated: a read may go beyond what is missing.
ReadableUnits == 1..Len(wire)

\* A read of the socket gets what is there, as far as there is room in the
\* buffer.
Available == {n \in 1..Len(wire) : n <= Missing}

ReadSome(n) ==
  /\ part \in {"header", "body"} /\ n \in Available
  /\ LET us == SubSeq(wire, 1, n)
     IN IF part = "header"
        THEN header' = header \o us /\ UNCHANGED <<p, body>>
        ELSE /\ p' = [p EXCEPT !.d = Fill(@, body, us)] /\ body' = body + n
             /\ UNCHANGED header
  /\ wire' = SubSeq(wire, n + 1, Len(wire))
  /\ UNCHANGED <<conn, ended, frames, part, ops, ptr, delivered>>

\* A read finds the end of the connection: the composed read fails, whatever it
\* has got already, and the error handler runs.
ReadFails ==
  /\ part \in {"header", "body"} /\ Missing > 0 /\ ended /\ wire = <<>>
  /\ part' = "error"
  /\ UNCHANGED <<netVars, header, body, p, ops, ptr, delivered>>

\* Mutated: p is not cleared.
BodyBufferKept(k, len) == Write(k, len)

\* p.clear(), p.write(nb).
BodyBuffer(k, len) == Write(Clear, len)

\* receive2: the marker, and room for the body.
Receive2 ==
  /\ part = "header" /\ Missing = 0
  /\ IF Announced.marker
     THEN part' = "body" /\ body' = 0 /\ p' = BodyBuffer(p, Announced.len)
     ELSE part' = "error" /\ UNCHANGED <<body, p>>
  /\ UNCHANGED <<netVars, header, ops, ptr, delivered>>

\* receive3: p.begin(), and the packet to the application.
Receive3 ==
  /\ part = "body" /\ Missing = 0
  /\ p' = Begin(p)
  /\ delivered' = Append(delivered, [c |-> conn, d |-> p'.d])
  /\ part' = "callback" /\ ops' = 0 /\ ptr' = Nothing
  /\ UNCHANGED <<netVars, header, body>>

\* Mutated: the buffer of the header is not filled from its start.
HeaderKept == SubSeq(header, 2, Len(header))

\* receive1 reads into header[8] from its start.
HeaderBuffer == <<>>

\* The callback returns: receive1.
Receive1 ==
  /\ part = "callback"
  /\ part' = "header" /\ header' = HeaderBuffer
  /\ UNCHANGED <<netVars, body, p, ops, ptr, delivered>>

\* After an error a new connection, and receive1.
Reconnect ==
  /\ part = "error" /\ conn < MaxConns
  /\ conn' = conn + 1 /\ ended' = FALSE /\ wire' = <<>>
  /\ part' = "header" /\ header' = HeaderBuffer
  /\ UNCHANGED <<frames, body, p, ops, ptr, delivered>>

-----------------------------------------------------------------------------
(* The application, inside its callback, with a reference to p.            *)

Operates(k, span) ==
  /\ part = "callback" /\ ops < MaxOps
  /\ ops' = ops + 1 /\ p' = k /\ ptr' = span
  /\ UNCHANGED <<netVars, part, header, body, delivered>>

AppClears     == Operates(Clear, Nothing)
AppResizes(n) == Operates(Resize(p, n), Nothing)
AppSeeks(n)   == Operates(Pos(p, n), Nothing)
AppWrites(n)  == Operates(Write(p, n), [at |-> p.p, n |-> n])
AppReads(n)   == Operates(Read(p, n), IF Readable(p, n) THEN [at |-> p.p, n |-> n]
                                                       ELSE Nothing)

-----------------------------------------------------------------------------
Application ==
  \/ AppClears
  \/ \E n \in 0..MaxLen : AppResizes(n) \/ AppSeeks(n) \/ AppWrites(n) \/ AppReads(n)

Peer == \/ \E len \in 0..MaxLen, marker \in BOOLEAN : PeerWrites(len, marker)
        \/ \E n \in 0..Len(wire) : PeerEnds(n)

Receiver == \/ \E n \in 1..(HeaderUnits + MaxLen) : ReadSome(n)
            \/ ReadFails \/ Receive2 \/ Receive3 \/ Receive1

Next == Peer \/ Receiver \/ Reconnect \/ Application

Spec == Init /\ [][Next]_vars

\* The io thread reads what has arrived and the application's callback returns.
FairSpec == Spec /\ WF_vars(Receiver)

-----------------------------------------------------------------------------
(* Properties.                                                             *)

\* Types of the variables.
TypeOK ==
  /\ conn \in 1..MaxConns /\ ended \in BOOLEAN
  /\ frames \in Seq(Frames) /\ wire \in Seq(Units)
  /\ part \in Parts /\ header \in Seq(Units) /\ body \in 0..MaxLen
  /\ p \in Packets(Units \cup {Zero}) /\ (p.p <= Size(p) \/ p.p = SizeMax) /\ ops \in 0..MaxOps
  /\ ptr \in [at : 0..SizeMax, n : 0..MaxLen]
  /\ delivered \in Seq([c : 1..MaxConns, d : Seq(Units \cup {Zero})])

\* Element i of s is the n-th of its connection.
Place(s, i) == Cardinality({j \in 1..i : s[j].c = s[i].c})

\* The packet a frame becomes: its body, byte for byte, except that an empty
\* body becomes a packet of one zero byte (begin() of an empty packet).
Body(f) == IF frames[f].len = 0 THEN <<Zero>>
           ELSE SubSeq(UnitsOf(f, frames[f].len), HeaderUnits + 1, HeaderUnits + frames[f].len)

\* However the stream is cut into reads, wherever a connection ends and
\* whatever the application does to p: the n-th packet of a connection is its
\* n-th frame, complete and with the marker (receive1 to receive3).
FramesIntact ==
  \A i \in DOMAIN delivered : \E f \in DOMAIN frames :
    /\ frames[f].c = delivered[i].c /\ Place(frames, f) = Place(delivered, i)
    /\ frames[f].marker /\ delivered[i].d = Body(f)

\* What write() and read() give the application lies inside the packet, unless
\* it emptied the packet with resize(0) and did not move the cursor since.
PointersInside ==
  [][ops' = ops + 1 => ptr'.at + ptr'.n <= Size(p') \/ p.p = SizeMax]_vars

\* A frame the peer has written whole becomes a packet, unless the connection
\* ends or a frame before it lacks the marker.
FramesArrive ==
  \A f \in 1..MaxFrames :
    (f \in DOMAIN frames /\ frames[f].c = conn) ~>
      /\ f \in DOMAIN frames
      /\ \/ \E i \in DOMAIN delivered :
              delivered[i].c = frames[f].c /\ Place(delivered, i) = Place(frames, f)
         \/ ended
         \/ \E g \in 1..f : frames[g].c = frames[f].c /\ ~frames[g].marker
=============================================================================
