--------------------------- MODULE TcpStreamProofs ---------------------------
(***************************************************************************)
(* Proofs about TcpStream, for headers and bodies of any length, any       *)
(* number of frames and connections and any use of the packet: types, that *)
(* packets are the frames of the peer, and that what write() and read()    *)
(* give lies inside the packet.                                            *)
(***************************************************************************)
EXTENDS TcpStream, SequenceLemmas, FiniteSetTheorems, TLAPS

-----------------------------------------------------------------------------
(* The packet.                                                             *)

Bytes == Units \cup {Zero}

\* The cursor is inside, or was set to SizeMax by resize(0).
Sound(k) == k \in Packets(Bytes) /\ (k.p <= Size(k) \/ k.p = SizeMax)

LEMMA WrapIs ==
  ASSUME NEW n \in Nat
  PROVE  /\ Wrap(n) \in 0..SizeMax
         /\ n <= SizeMax => Wrap(n) = n
         /\ n > SizeMax /\ n <= SizeMax + SizeMax + 1 => Wrap(n) = n - SizeMax - 1
<1>1. SizeMax \in Nat \ {0}
  BY PacketAssumption
<1> DEFINE m == SizeMax + 1
<1>2. m \in Nat \ {0} /\ Wrap(n) = n % m
  BY <1>1 DEF Wrap
<1>3. n % m \in 0..(m - 1)
  BY <1>2
<1>4. n < m => n % m = n
  BY <1>2
<1>5. n >= m /\ n < m + m => n % m = n - m
  BY <1>2
<1> QED BY <1>1, <1>2, <1>3, <1>4, <1>5

LEMMA ResizedIs ==
  ASSUME NEW d \in Seq(Bytes), NEW n \in Nat
  PROVE  /\ Resized(d, n) \in Seq(Bytes) /\ Len(Resized(d, n)) = n
         /\ \A i \in 1..n : Resized(d, n)[i] = IF i <= Len(d) THEN d[i] ELSE Zero
<1> DEFINE r == Resized(d, n)
<1>1. r = [i \in 1..n |-> IF i <= Len(d) THEN d[i] ELSE Zero] /\ Len(d) \in Nat
  BY DEF Resized
<1>2. ASSUME NEW i \in 1..n
      PROVE  (IF i <= Len(d) THEN d[i] ELSE Zero) \in Bytes
  <2>1. Zero \in Bytes
    BY DEF Bytes
  <2>2. i <= Len(d) => d[i] \in Bytes
    BY <1>1
  <2> QED BY <2>1, <2>2
<1>3. r \in [1..n -> Bytes]
  BY <1>1, <1>2
<1> HIDE DEF r
<1>4. r \in Seq(Bytes) /\ Len(r) = n
  BY <1>3, FunctionIsSeq
<1> QED BY <1>1, <1>4 DEF r

LEMMA ClearIs == Sound(Clear) /\ Clear.p = 0 /\ Clear.d = <<>>
BY PacketAssumption DEF Sound, Clear, Packets, Size

LEMMA ResizeIs ==
  ASSUME NEW k, Sound(k), NEW n \in 0..SizeMax
  PROVE  /\ Sound(Resize(k, n))
         /\ Resize(k, n).p = SizeMax \/ Resize(k, n).p <= n
<1>1. k.d \in Seq(Bytes) /\ k.p \in 0..SizeMax /\ n \in Nat /\ SizeMax \in Nat \ {0}
  BY PacketAssumption DEF Sound, Packets
<1>2. Resized(k.d, n) \in Seq(Bytes) /\ Len(Resized(k.d, n)) = n
  BY <1>1, ResizedIs
<1>3. Wrap(n + SizeMax) = IF n = 0 THEN SizeMax ELSE n - 1
  BY <1>1, WrapIs
<1> DEFINE r == Resize(k, n)
<1>4. r.d = Resized(k.d, n) /\ r.p = IF k.p >= n THEN Wrap(n + SizeMax) ELSE k.p
  BY DEF Resize
<1>5. r = [d |-> r.d, p |-> r.p]
  BY DEF Resize
<1> HIDE DEF r
<1>6. r.p \in 0..SizeMax /\ (r.p = SizeMax \/ r.p <= n)
  BY <1>1, <1>3, <1>4
<1>7. r \in Packets(Bytes)
  BY <1>2, <1>4, <1>5, <1>6 DEF Packets
<1> QED BY <1>2, <1>4, <1>6, <1>7 DEF Sound, Size, r

LEMMA PosIs ==
  ASSUME NEW k, Sound(k), NEW n \in 0..SizeMax
  PROVE  /\ Sound(Pos(k, n)) /\ Pos(k, n).p = n
         /\ Pos(k, n).d = IF n >= Len(k.d) THEN Resized(k.d, n + 1) ELSE k.d
<1>1. k.d \in Seq(Bytes) /\ Len(k.d) \in Nat /\ n \in Nat /\ n + 1 \in Nat
  BY PacketAssumption DEF Sound, Packets
<1>2. Resized(k.d, n + 1) \in Seq(Bytes) /\ Len(Resized(k.d, n + 1)) = n + 1
  BY <1>1, ResizedIs
<1> DEFINE r == Pos(k, n)
<1>3. /\ r.d = IF n >= Len(k.d) THEN Resized(k.d, n + 1) ELSE k.d
      /\ r.p = n /\ r = [d |-> r.d, p |-> r.p]
  BY DEF Pos, Size
<1> HIDE DEF r
<1>4. r.d \in Seq(Bytes) /\ n <= Len(r.d)
  BY <1>1, <1>2, <1>3
<1>5. r \in Packets(Bytes)
  BY <1>3, <1>4 DEF Packets
<1> QED BY <1>3, <1>4, <1>5 DEF Sound, Size, r

LEMMA WriteIs ==
  ASSUME NEW k, Sound(k), NEW n \in 0..SizeMax
  PROVE  /\ Sound(Write(k, n)) /\ Write(k, n).p = Wrap(k.p + n)
         /\ Write(k, n).d = IF Wrap(k.p + n) > Len(k.d) THEN Resized(k.d, Wrap(k.p + n)) ELSE k.d
         /\ Wrap(k.p + n) <= Len(Write(k, n).d)
<1>1. k.d \in Seq(Bytes) /\ Len(k.d) \in Nat /\ k.p + n \in Nat /\ SizeMax \in Nat
  BY PacketAssumption DEF Sound, Packets
<1> DEFINE end == Wrap(k.p + n)
<1>2. end \in 0..SizeMax /\ end \in Nat
  BY <1>1, WrapIs
<1> DEFINE r == Write(k, n)
<1>3. /\ r.d = IF end > Len(k.d) THEN Resized(k.d, end) ELSE k.d
      /\ r.p = end /\ r = [d |-> r.d, p |-> r.p]
  BY DEF Write, Size
<1> HIDE DEF r, end
<1>4. Resized(k.d, end) \in Seq(Bytes) /\ Len(Resized(k.d, end)) = end
  BY <1>1, <1>2, ResizedIs
<1>5. r.d \in Seq(Bytes) /\ end <= Len(r.d)
  BY <1>1, <1>2, <1>3, <1>4
<1>6. r \in Packets(Bytes)
  BY <1>2, <1>3, <1>5 DEF Packets
<1> QED BY <1>3, <1>5, <1>6 DEF Sound, Size, r, end

LEMMA ReadIs ==
  ASSUME NEW k, Sound(k), NEW n \in 0..SizeMax
  PROVE  /\ Sound(Read(k, n)) /\ Read(k, n).d = k.d
         /\ Readable(k, n) => Wrap(k.p + n) <= Len(k.d) /\ Read(k, n).p = Wrap(k.p + n)
         /\ ~Readable(k, n) => Read(k, n) = k
<1>1. /\ k.d \in Seq(Bytes) /\ k.p + n \in Nat /\ k \in [d : Seq(Bytes), p : 0..SizeMax]
  BY PacketAssumption DEF Sound, Packets
<1>2. Wrap(k.p + n) \in 0..SizeMax
  BY <1>1, WrapIs
<1> DEFINE e == Wrap(k.p + n)
           r == [k EXCEPT !.p = e]
<1>3. Read(k, n) = IF Readable(k, n) THEN r ELSE k
  BY DEF Read
<1> HIDE DEF e
<1>4. r.d = k.d /\ r.p = e /\ r \in [d : Seq(Bytes), p : 0..SizeMax]
  BY <1>1, <1>2 DEF e
<1> HIDE DEF r
<1>5. Readable(k, n) => e <= Len(k.d)
  BY DEF Readable, Size, e
<1>6. Readable(k, n) => Sound(r)
  BY <1>4, <1>5 DEF Sound, Packets, Size
<1> QED BY <1>3, <1>4, <1>5, <1>6 DEF e

-----------------------------------------------------------------------------
(* Where the receiver is in the stream.                                    *)

\* Units of the frame of u that follow u, when the frames are fs.
Rest(u, fs) == (HeaderUnits + fs[u.f].len) - u.i

\* The unit u is the one after the first k units of frame g.
Follows(u, g, k) == IF k = 0 \/ k < HeaderUnits + frames[g].len THEN u.f = g /\ u.i = k + 1
                                                               ELSE u.f = g + 1 /\ u.i = 1

\* Units on the wire: each is followed by the rest of its frame and that by the
\* next frame.
InFrames(w, fs) == \A a \in DOMAIN w : /\ w[a].f \in DOMAIN fs
                                       /\ w[a].i \in 1..(HeaderUnits + fs[w[a].f].len)
Chained(w, fs)  == \A a, b \in DOMAIN w : a <= b =>
  /\ b - a <= Rest(w[a], fs) => w[b].f = w[a].f /\ w[b].i = w[a].i + (b - a)
  /\ b - a = Rest(w[a], fs) + 1 => w[b].f = w[a].f + 1 /\ w[b].i = 1

\* They reach to the end of the last frame.
Complete(w, fs) == \A a \in DOMAIN w :
  /\ a + Rest(w[a], fs) <= Len(w)
  /\ a + Rest(w[a], fs) = Len(w) => w[a].f = Len(fs)

WireInv == /\ InFrames(wire, frames) /\ Chained(wire, frames)
           /\ ~ended => Complete(wire, frames)

\* The frames of this connection are those from base on, its packets those from db
\* on.
SortedInv(base, db) ==
  /\ base \in 0..Len(frames) /\ db \in 0..Len(delivered)
  /\ \A f \in DOMAIN frames : frames[f].c <= conn /\ (frames[f].c = conn <=> f > base)
  /\ \A i \in DOMAIN delivered : delivered[i].c <= conn /\ (delivered[i].c = conn <=> i > db)
  /\ base + (Len(delivered) - db) <= Len(frames)

\* Units of the frame that is being received which were read.
Taken == IF part = "header" THEN Len(header)
                            ELSE IF part = "body" THEN HeaderUnits + body ELSE 0

\* Frame g is being received, or the next to be.
PlaceInv(g) ==
  part # "error" =>
    /\ wire # <<>> => Follows(wire[1], g, Taken)
    /\ wire = <<>> /\ ~ended => Follows([f |-> Len(frames) + 1, i |-> 1], g, Taken)

\* What has been read of it.
PartInv(g) ==
  /\ part = "header" =>
       /\ Len(header) <= HeaderUnits
       /\ header # <<>> => g \in DOMAIN frames
       /\ \A j \in DOMAIN header : header[j] = [f |-> g, i |-> j]
  /\ part = "body" =>
       /\ g \in DOMAIN frames /\ frames[g].marker
       /\ header # <<>> /\ header[1] = [f |-> g, i |-> 1]
       /\ body <= frames[g].len /\ Len(p.d) = frames[g].len
       /\ \A j \in 1..body : p.d[j] = [f |-> g, i |-> HeaderUnits + j]

Current(base, db) == base + (Len(delivered) - db) + 1

At(base, db) == SortedInv(base, db) /\ PlaceInv(Current(base, db)) /\ PartInv(Current(base, db))

Inv == TypeOK /\ WireInv /\ FramesIntact /\ \E base, db \in Nat : At(base, db)

\* The numbers behind this.
LEMMA Numbers ==
  ASSUME TypeOK
  PROVE  /\ Len(wire) \in Nat /\ DOMAIN wire = 1..Len(wire) /\ Len(frames) \in Nat
         /\ DOMAIN frames = 1..Len(frames)
         /\ Len(header) \in Nat /\ DOMAIN header = 1..Len(header) /\ Len(delivered) \in Nat
         /\ DOMAIN delivered = 1..Len(delivered) /\ conn \in Nat
         /\ HeaderUnits \in Nat /\ HeaderUnits > 0 /\ body \in Nat
         /\ \A a \in DOMAIN wire : /\ wire[a] \in Units /\ wire[a].f \in Nat /\ wire[a].i \in Nat
         /\ \A f \in DOMAIN frames : /\ frames[f] \in Frames /\ frames[f].len \in 0..MaxLen
                                     /\ frames[f].len \in Nat
                                     /\ frames[f].c \in Nat /\ frames[f].marker \in BOOLEAN
<1>1. /\ wire \in Seq(Units) /\ frames \in Seq(Frames) /\ header \in Seq(Units)
      /\ \E S : delivered \in Seq(S)
      /\ conn \in 1..MaxConns /\ body \in 0..MaxLen
      /\ HeaderUnits \in Nat \ {0} /\ MaxLen \in Nat /\ MaxConns \in Nat
  BY StreamAssumption DEF TypeOK
<1>2. /\ Len(wire) \in Nat /\ DOMAIN wire = 1..Len(wire) /\ Len(frames) \in Nat
      /\ DOMAIN frames = 1..Len(frames)
      /\ Len(header) \in Nat /\ DOMAIN header = 1..Len(header) /\ Len(delivered) \in Nat
      /\ DOMAIN delivered = 1..Len(delivered)
  BY <1>1
<1>3. \A a \in DOMAIN wire : /\ wire[a] \in Units /\ wire[a].f \in Nat /\ wire[a].i \in Nat
  <2>1. \A a \in DOMAIN wire : wire[a] \in Units
    BY <1>1, <1>2
  <2>2. \A x \in Units : x.f \in Nat /\ x.i \in Nat
    BY StreamAssumption DEF Units
  <2> QED BY <2>1, <2>2
<1>4. \A f \in DOMAIN frames : frames[f] \in Frames
  BY <1>1, <1>2
<1>5. \A f \in DOMAIN frames : /\ frames[f].len \in 0..MaxLen /\ frames[f].len \in Nat
                               /\ frames[f].c \in Nat /\ frames[f].marker \in BOOLEAN
  BY <1>1, <1>4 DEF Frames
<1> QED BY <1>1, <1>2, <1>3, <1>4, <1>5

LEMMA InitHolds ==
  ASSUME Init
  PROVE  Inv
<1>1. TypeOK
  <2>1. 1 \in 1..MaxConns /\ 0 \in 0..MaxLen /\ 0 \in 0..MaxOps
    BY StreamAssumption
  <2>2. Nothing \in [at : 0..SizeMax, n : 0..MaxLen]
    BY <2>1, PacketAssumption DEF Nothing
  <2>3. p \in Packets(Units \cup {Zero}) /\ (p.p <= Size(p) \/ p.p = SizeMax)
    BY ClearIs DEF Init, Sound, Bytes
  <2>4. /\ frames \in Seq(Frames) /\ wire \in Seq(Units) /\ header \in Seq(Units)
        /\ delivered \in Seq([c : 1..MaxConns, d : Seq(Units \cup {Zero})])
    BY DEF Init
  <2>5. /\ conn \in 1..MaxConns /\ ended \in BOOLEAN /\ part \in Parts /\ body \in 0..MaxLen
        /\ ops \in 0..MaxOps /\ ptr \in [at : 0..SizeMax, n : 0..MaxLen]
    BY <2>1, <2>2 DEF Init, Parts
  <2> QED BY <2>3, <2>4, <2>5 DEF TypeOK
<1>2. WireInv /\ FramesIntact
  BY DEF Init, WireInv, InFrames, Chained, Complete, FramesIntact
<1>3. SortedInv(0, 0) /\ Current(0, 0) = 1
  BY DEF Init, SortedInv, Current
<1>4. PlaceInv(1) /\ PartInv(1)
  BY StreamAssumption DEF Init, PlaceInv, PartInv, Follows, Taken
<1> QED BY <1>1, <1>2, <1>3, <1>4 DEF Inv, At

\* A frame that is appended leaves the places of the others.
LEMMA PlaceAppend ==
  ASSUME NEW S, NEW s \in Seq(S), NEW e \in S, NEW i \in 1..Len(s)
  PROVE  Place(Append(s, e), i) = Place(s, i)
<1>1. \A j \in 1..i : Append(s, e)[j] = s[j]
  OBVIOUS
<1>2. {j \in 1..i : Append(s, e)[j].c = Append(s, e)[i].c} = {j \in 1..i : s[j].c = s[i].c}
  BY <1>1
<1> QED BY <1>2 DEF Place

-----------------------------------------------------------------------------
(* The peer.                                                               *)

LEMMA UnitsOfIs ==
  ASSUME NEW g \in 1..MaxFrames, NEW len \in 0..MaxLen
  PROVE  /\ UnitsOf(g, len) \in Seq(Units) /\ Len(UnitsOf(g, len)) = HeaderUnits + len
         /\ \A i \in 1..(HeaderUnits + len) :
              UnitsOf(g, len)[i].f = g /\ UnitsOf(g, len)[i].i = i
<1> DEFINE u == UnitsOf(g, len)
<1>1. u = [i \in 1..(HeaderUnits + len) |-> [f |-> g, i |-> i]] /\ HeaderUnits + len \in Nat
  BY StreamAssumption DEF UnitsOf
<1>2. \A i \in 1..(HeaderUnits + len) : [f |-> g, i |-> i] \in Units
  BY StreamAssumption DEF Units
<1>3. u \in [1..(HeaderUnits + len) -> Units]
  BY <1>1, <1>2
<1>4. u \in Seq(Units) /\ Len(u) = HeaderUnits + len
  BY <1>1, <1>3, FunctionIsSeq
<1>5. \A i \in 1..(HeaderUnits + len) : u[i].f = g /\ u[i].i = i
  BY <1>1
<1> QED BY <1>4, <1>5

\* A frame goes to the end of the wire.
LEMMA WireGrows ==
  ASSUME NEW w \in Seq(Units), NEW fs \in Seq(Frames), NEW fr \in Frames, Len(fs) < MaxFrames,
         InFrames(w, fs), Chained(w, fs), Complete(w, fs)
  PROVE  LET v == w \o UnitsOf(Len(fs) + 1, fr.len)
             gs == Append(fs, fr)
         IN  /\ v \in Seq(Units) /\ v # <<>> /\ (w # <<>> => v[1] = w[1])
             /\ w = <<>> => v[1].f = Len(fs) + 1 /\ v[1].i = 1
             /\ InFrames(v, gs) /\ Chained(v, gs) /\ Complete(v, gs)
<1> DEFINE n == Len(fs) + 1
           len == fr.len
           u == UnitsOf(n, len)
           T == HeaderUnits + len
           W == Len(w)
           v == w \o u
           gs == Append(fs, fr)
<1>1. /\ n \in 1..MaxFrames /\ len \in 0..MaxLen /\ HeaderUnits \in Nat /\ HeaderUnits > 0
      /\ T \in Nat /\ T > 0 /\ W \in Nat /\ n \in Nat
  BY StreamAssumption DEF Frames
<1>2. /\ u \in Seq(Units) /\ Len(u) = T
      /\ \A i \in 1..T : u[i].f = n /\ u[i].i = i
  BY <1>1, UnitsOfIs
<1>3. /\ DOMAIN gs = 1..n /\ Len(gs) = n /\ gs[n].len = len
      /\ \A f \in DOMAIN fs : gs[f] = fs[f] /\ f \in DOMAIN gs /\ f < n /\ fs[f].len \in Nat
  <2>1. \A f \in DOMAIN fs : fs[f].len \in Nat
    <3>1. \A f \in DOMAIN fs : fs[f] \in Frames
      OBVIOUS
    <3>2. \A x \in Frames : x.len \in Nat
      BY StreamAssumption DEF Frames
    <3> QED BY <3>1, <3>2
  <2> QED BY <2>1
<1> HIDE DEF u, T, W, n, len, gs
<1>4. /\ v \in Seq(Units) /\ Len(v) = W + T /\ DOMAIN v = 1..(W + T) /\ DOMAIN w = 1..W
      /\ \A a \in 1..W : v[a] = w[a]
      /\ \A a \in 1..T : v[W + a] = u[a]
  <2>1. Len(w) = W /\ DOMAIN w = 1..W
    BY DEF W
  <2>2. /\ v \in Seq(Units) /\ Len(v) = Len(w) + Len(u)
        /\ \A a \in 1..Len(w) : v[a] = w[a]
        /\ \A a \in 1..Len(u) : v[Len(w) + a] = u[a]
    <3>1. v = w \o u
      OBVIOUS
    <3> HIDE DEF v
    <3>2. w \in Seq(Units) /\ u \in Seq(Units)
      BY <1>2
    <3> QED BY <3>1, <3>2, ConcatAt
  <2> QED BY <1>2, <2>1, <2>2
<1> HIDE DEF v
\* The old units, and the new ones.
<1>5. ASSUME NEW a \in DOMAIN w
      PROVE  /\ a \in 1..W /\ v[a] = w[a] /\ w[a].f \in DOMAIN fs /\ w[a].f \in DOMAIN gs
             /\ w[a].f \in Nat /\ w[a].i \in Nat
             /\ Rest(v[a], gs) = Rest(w[a], fs) /\ Rest(w[a], fs) \in Nat
             /\ a + Rest(w[a], fs) <= W /\ (a + Rest(w[a], fs) = W => w[a].f + 1 = n)
             /\ v[a].i \in 1..(HeaderUnits + gs[v[a].f].len)
  <2>1. a \in 1..W /\ v[a] = w[a]
    BY <1>4
  <2>2. w[a].f \in DOMAIN fs /\ w[a].i \in 1..(HeaderUnits + fs[w[a].f].len)
    BY DEF InFrames
  <2>3. gs[w[a].f] = fs[w[a].f] /\ w[a].f \in DOMAIN gs /\ fs[w[a].f].len \in Nat /\ w[a].f \in Nat
    BY <1>3, <2>2
  <2>4. Rest(v[a], gs) = Rest(w[a], fs) /\ Rest(w[a], fs) \in Nat
    <3>1. Rest(v[a], gs) = Rest(w[a], fs)
      BY <2>1, <2>3 DEF Rest
    <3> DEFINE l == fs[w[a].f].len
               i == w[a].i
    <3>2. l \in Nat /\ i \in 1..(HeaderUnits + l) /\ HeaderUnits \in Nat
      BY <1>1, <2>2, <2>3
    <3>3. Rest(w[a], fs) = (HeaderUnits + l) - i
      BY DEF Rest
    <3> HIDE DEF l, i
    <3>4. (HeaderUnits + l) - i \in Nat
      BY <3>2
    <3> QED BY <3>1, <3>3, <3>4
  <2>5. a + Rest(w[a], fs) <= W /\ (a + Rest(w[a], fs) = W => w[a].f + 1 = n)
    BY DEF Complete, W, n
  <2> QED BY <2>1, <2>2, <2>3, <2>4, <2>5
<1>6. ASSUME NEW a \in DOMAIN v, ~(a \in DOMAIN w)
      PROVE  /\ a - W \in 1..T /\ v[a].f = n /\ v[a].i = a - W /\ Rest(v[a], gs) = W + T - a
  <2>1. a - W \in 1..T /\ W + (a - W) = a
    BY <1>1, <1>4, <1>6
  <2>2. v[a].f = n /\ v[a].i = a - W
    BY <1>2, <1>4, <2>1
  <2>3. T = HeaderUnits + len /\ len \in Nat
    BY <1>1, StreamAssumption DEF T
  <2> QED BY <1>1, <1>3, <1>4, <2>1, <2>2, <2>3 DEF Rest
<1>7. InFrames(v, gs)
  <2> SUFFICES ASSUME NEW a \in DOMAIN v
               PROVE  v[a].f \in DOMAIN gs /\ v[a].i \in 1..(HeaderUnits + gs[v[a].f].len)
    BY DEF InFrames
  <2>1. CASE a \in DOMAIN w
    BY <1>5, <2>1
  <2>2. CASE ~(a \in DOMAIN w)
    BY <1>1, <1>3, <1>6, <2>2 DEF T
  <2> QED BY <2>1, <2>2
<1>8. Chained(v, gs)
  <2> SUFFICES ASSUME NEW a \in DOMAIN v, NEW b \in DOMAIN v, a <= b
               PROVE  /\ b - a <= Rest(v[a], gs) => v[b].f = v[a].f /\ v[b].i = v[a].i + (b - a)
                      /\ b - a = Rest(v[a], gs) + 1 => v[b].f = v[a].f + 1 /\ v[b].i = 1
    BY DEF Chained
  <2>1. CASE a \in DOMAIN w /\ b \in DOMAIN w
    <3>1. /\ b - a <= Rest(w[a], fs) => w[b].f = w[a].f /\ w[b].i = w[a].i + (b - a)
          /\ b - a = Rest(w[a], fs) + 1 => w[b].f = w[a].f + 1 /\ w[b].i = 1
      BY <2>1 DEF Chained
    <3>2. v[a] = w[a] /\ v[b] = w[b] /\ Rest(v[a], gs) = Rest(w[a], fs)
      BY <1>5, <2>1
    <3> QED BY <3>1, <3>2
  <2>2. CASE a \in DOMAIN w /\ ~(b \in DOMAIN w)
    <3>1. a \in 1..W /\ b \in 1..(W + T) /\ b > W
      BY <1>1, <1>4, <2>2
    <3>2. /\ v[a] = w[a] /\ Rest(v[a], gs) \in Nat /\ a + Rest(v[a], gs) <= W
          /\ (a + Rest(v[a], gs) = W => v[a].f + 1 = n)
      BY <1>5, <2>2
    <3>3. v[b].f = n /\ v[b].i = b - W
      BY <1>6, <2>2
    <3> DEFINE k == Rest(v[a], gs)
    <3>4. k \in Nat /\ a + k <= W /\ (a + k = W => v[a].f + 1 = n)
      BY <3>2
    <3> HIDE DEF k
    <3>5. ~(b - a <= k) /\ (b - a = k + 1 => b = W + 1 /\ a + k = W)
      <4>1. a \in Nat /\ b \in Nat /\ W \in Nat /\ k \in Nat /\ a + k <= W /\ b > W
        BY <1>1, <3>1, <3>4
      <4> HIDE DEF v, gs
      <4> QED BY <4>1
    <3>6. b = W + 1 => b - W = 1
      BY <1>1
    <3> QED BY <3>3, <3>4, <3>5, <3>6 DEF k
  <2>3. CASE ~(a \in DOMAIN w) /\ b \in DOMAIN w
    BY <1>1, <1>4, <2>3
  <2>4. CASE ~(a \in DOMAIN w) /\ ~(b \in DOMAIN w)
    <3>1. a \in 1..(W + T) /\ b \in 1..(W + T)
      BY <1>4
    <3>2. v[a].f = n /\ v[a].i = a - W /\ Rest(v[a], gs) = W + T - a /\ v[b].f = n /\ v[b].i = b - W
      BY <1>6, <2>4
    <3> QED BY <1>1, <3>1, <3>2
  <2> QED BY <2>1, <2>2, <2>3, <2>4
<1>9. Complete(v, gs)
  <2> SUFFICES ASSUME NEW a \in DOMAIN v
               PROVE  /\ a + Rest(v[a], gs) <= Len(v)
                      /\ a + Rest(v[a], gs) = Len(v) => v[a].f = Len(gs)
    BY DEF Complete
  <2>1. CASE a \in DOMAIN w
    <3>1. a \in 1..W /\ Rest(v[a], gs) \in Nat /\ a + Rest(v[a], gs) <= W
      BY <1>5, <2>1
    <3> QED BY <1>1, <1>4, <3>1
  <2>2. CASE ~(a \in DOMAIN w)
    <3>1. v[a].f = n /\ Rest(v[a], gs) = W + T - a /\ a \in 1..(W + T)
      BY <1>4, <1>6, <2>2
    <3> QED BY <1>1, <1>3, <1>4, <3>1
  <2> QED BY <2>1, <2>2
<1>10. v # <<>> /\ (w # <<>> => v[1] = w[1])
  <2>1. w # <<>> => 1 \in 1..W
    BY DEF W
  <2>2. Len(v) > 0
    BY <1>1, <1>4
  <2> QED BY <1>4, <2>1, <2>2
<1>11. w = <<>> => v[1].f = n /\ v[1].i = 1
  <2>1. w = <<>> => W = 0
    BY DEF W
  <2> QED BY <1>1, <1>2, <1>4, <2>1
<1> QED BY <1>4, <1>7, <1>8, <1>9, <1>10, <1>11 DEF v, gs, u, n, len

\* Part of the wire is like the wire.
LEMMA WireSlice ==
  ASSUME NEW w \in Seq(Units), NEW fs, InFrames(w, fs), Chained(w, fs),
         NEW m \in 1..(Len(w) + 1), NEW n \in 0..Len(w)
  PROVE  LET v == SubSeq(w, m, n)
         IN  /\ v \in Seq(Units) /\ Len(v) = (IF m <= n THEN n - m + 1 ELSE 0)
             /\ \A a \in DOMAIN v : v[a] = w[a + m - 1] /\ a + m - 1 \in DOMAIN w
             /\ InFrames(v, fs) /\ Chained(v, fs)
<1> DEFINE v == SubSeq(w, m, n)
<1>1. Len(w) \in Nat /\ DOMAIN w = 1..Len(w) /\ m \in Nat /\ n \in Nat
  OBVIOUS
<1>2. /\ v \in Seq(Units) /\ Len(v) = (IF m <= n THEN n - m + 1 ELSE 0)
      /\ \A i \in 1..(n - m + 1) : v[i] = w[m + i - 1]
  BY SubSeqAt
<1> HIDE DEF v
<1>3. ASSUME NEW a \in DOMAIN v
      PROVE  a \in Nat /\ v[a] = w[a + m - 1] /\ a + m - 1 \in DOMAIN w
  <2>1. DOMAIN v = 1..Len(v)
    BY <1>2
  <2>2. a \in 1..(n - m + 1) /\ a + m - 1 = m + a - 1 /\ a + m - 1 \in 1..Len(w)
    BY <1>1, <1>2, <2>1
  <2> QED BY <1>1, <1>2, <2>2
<1>4. InFrames(v, fs)
  BY <1>3 DEF InFrames
<1>5. Chained(v, fs)
  <2> SUFFICES ASSUME NEW a \in DOMAIN v, NEW b \in DOMAIN v, a <= b
               PROVE  /\ b - a <= Rest(v[a], fs) => v[b].f = v[a].f /\ v[b].i = v[a].i + (b - a)
                      /\ b - a = Rest(v[a], fs) + 1 => v[b].f = v[a].f + 1 /\ v[b].i = 1
    BY DEF Chained
  <2> DEFINE x == a + m - 1
             y == b + m - 1
  <2>1. v[a] = w[x] /\ v[b] = w[y] /\ x \in DOMAIN w /\ y \in DOMAIN w
    BY <1>3
  <2>2. x <= y /\ y - x = b - a
    BY <1>1, <1>3
  <2> HIDE DEF x, y
  <2> QED BY <2>1, <2>2 DEF Chained
<1> QED BY <1>2, <1>3, <1>4, <1>5 DEF v

\* What is left of it when its first n units are read still reaches to the end.
LEMMA WireRead ==
  ASSUME NEW w \in Seq(Units), NEW fs \in Seq(Frames), InFrames(w, fs), Chained(w, fs),
         Complete(w, fs), NEW n \in 0..Len(w)
  PROVE  Complete(SubSeq(w, n + 1, Len(w)), fs)
<1> DEFINE v == SubSeq(w, n + 1, Len(w))
           L == Len(w)
<1>1. L \in Nat /\ n \in Nat /\ n + 1 \in 1..(Len(w) + 1) /\ Len(w) \in 0..Len(w)
  OBVIOUS
<1>2. /\ v \in Seq(Units) /\ Len(v) = (IF n + 1 <= L THEN L - (n + 1) + 1 ELSE 0)
      /\ \A a \in DOMAIN v : v[a] = w[a + (n + 1) - 1] /\ a + (n + 1) - 1 \in DOMAIN w
  <2> DEFINE m == n + 1
  <2>1. m \in 1..(Len(w) + 1)
    BY <1>1
  <2> HIDE DEF m
  <2>2. LET o == SubSeq(w, m, Len(w))
        IN  /\ o \in Seq(Units) /\ Len(o) = (IF m <= Len(w) THEN Len(w) - m + 1 ELSE 0)
            /\ \A a \in DOMAIN o : o[a] = w[a + m - 1] /\ a + m - 1 \in DOMAIN w
    BY <1>1, <2>1, WireSlice
  <2> QED BY <2>2 DEF m
<1> HIDE DEF v, L
<1>3. Len(v) = L - n /\ DOMAIN v = 1..Len(v)
  <2>1. L = Len(w)
    BY DEF L
  <2> QED BY <1>1, <1>2, <2>1
<1>4. ASSUME NEW a \in DOMAIN v
      PROVE  a + Rest(v[a], fs) <= Len(v) /\ (a + Rest(v[a], fs) = Len(v) => v[a].f = Len(fs))
  <2>1. a \in Nat /\ a + (n + 1) - 1 = a + n
    BY <1>1, <1>3
  <2>2. v[a] = w[a + n] /\ a + n \in DOMAIN w
    BY <1>2, <2>1
  <2> DEFINE r == Rest(w[a + n], fs)
  <2>3. (a + n) + r <= L /\ ((a + n) + r = L => w[a + n].f = Len(fs))
    BY <2>2 DEF Complete, L
  <2>4. r \in Int
    <3>1. w[a + n].f \in DOMAIN fs /\ w[a + n].i \in 1..(HeaderUnits + fs[w[a + n].f].len)
      BY <2>2 DEF InFrames
    <3>2. \A x \in Frames : x.len \in Nat
      BY StreamAssumption DEF Frames
    <3>3. fs[w[a + n].f].len \in Nat
      BY <3>1, <3>2
    <3> QED BY <3>1, <3>3, StreamAssumption DEF Rest
  <2> HIDE DEF r
  <2>5. a + r <= Len(v) /\ (a + r = Len(v) => (a + n) + r = L)
    BY <1>1, <1>3, <2>1, <2>3, <2>4
  <2> QED BY <2>2, <2>3, <2>5 DEF r
<1> QED BY <1>4 DEF Complete, v

\* The first unit on the wire is the one after the first k units of frame g.
Starts(w, g, k) == w[1].f = g /\ w[1].i = k + 1

\* The units that are read are of one frame, as far as it goes.
LEMMA UnitsRead ==
  ASSUME NEW w \in Seq(Units), NEW fs \in Seq(Frames), InFrames(w, fs), Chained(w, fs),
         NEW g, NEW k \in Nat, NEW n \in 1..Len(w), Starts(w, g, k),
         n <= (HeaderUnits + fs[g].len) - k
  PROVE  /\ g \in DOMAIN fs /\ fs[g].len \in Nat
         /\ \A j \in 1..n : w[j] = [f |-> g, i |-> k + j]
         /\ n < Len(w) => IF k + n < HeaderUnits + fs[g].len
                          THEN w[n + 1].f = g /\ w[n + 1].i = k + n + 1
                          ELSE w[n + 1].f = g + 1 /\ w[n + 1].i = 1
         /\ n = Len(w) /\ Complete(w, fs) => k + n = HeaderUnits + fs[g].len /\ g = Len(fs)
<1>1. Len(w) \in Nat /\ DOMAIN w = 1..Len(w) /\ 1 \in DOMAIN w /\ n \in Nat /\ n >= 1
  OBVIOUS
<1>2. g \in DOMAIN fs /\ g \in Nat
  BY <1>1 DEF InFrames, Starts
<1> DEFINE T == HeaderUnits + fs[g].len
           r == Rest(w[1], fs)
<1>3. fs[g].len \in Nat /\ T \in Nat /\ r = T - (k + 1) /\ r \in Int
  <2>1. \A x \in Frames : x.len \in Nat
    BY StreamAssumption DEF Frames
  <2>2. fs[g].len \in Nat
    BY <1>2, <2>1
  <2>3. T \in Nat
    BY <2>2, StreamAssumption
  <2>4. r = T - (k + 1)
    <3>1. w[1].f = g /\ w[1].i = k + 1
      BY DEF Starts
    <3> QED BY <3>1 DEF Rest
  <2> HIDE DEF T, r
  <2>5. r \in Int
    BY <2>3, <2>4
  <2> QED BY <2>2, <2>3, <2>4, <2>5
<1> HIDE DEF T
<1>4. n <= T - k
  BY DEF T
<1>5. \A b \in DOMAIN w : /\ b - 1 <= r => w[b].f = g /\ w[b].i = (k + 1) + (b - 1)
                          /\ b - 1 = r + 1 => w[b].f = g + 1 /\ w[b].i = 1
  <2> SUFFICES ASSUME NEW b \in DOMAIN w
               PROVE  /\ b - 1 <= r => w[b].f = g /\ w[b].i = (k + 1) + (b - 1)
                      /\ b - 1 = r + 1 => w[b].f = g + 1 /\ w[b].i = 1
    OBVIOUS
  <2>1. 1 <= b
    BY <1>1
  <2> QED BY <1>1, <2>1 DEF Chained, Starts
<1> HIDE DEF r
<1>6. ASSUME NEW j \in 1..n
      PROVE  w[j] = [f |-> g, i |-> k + j]
  <2>1. j \in DOMAIN w /\ j - 1 <= r /\ (k + 1) + (j - 1) = k + j
    <3>1. j \in Nat /\ j >= 1 /\ j <= n
      BY <1>1
    <3>2. j - 1 <= r
      BY <1>1, <1>3, <1>4, <3>1
    <3>3. j \in DOMAIN w
      BY <1>1, <3>1
    <3> QED BY <3>1, <3>2, <3>3
  <2>2. w[j].f = g /\ w[j].i = (k + 1) + (j - 1) /\ w[j] \in Units
    BY <1>1, <1>5, <2>1
  <2> QED BY <2>2 DEF Units
<1>7. ASSUME n < Len(w)
      PROVE  IF k + n < T THEN w[n + 1].f = g /\ w[n + 1].i = k + n + 1
                          ELSE w[n + 1].f = g + 1 /\ w[n + 1].i = 1
  <2>1. n + 1 \in DOMAIN w
    BY <1>1, <1>7
  <2>2. CASE k + n < T
    <3>1. (n + 1) - 1 <= r /\ (k + 1) + ((n + 1) - 1) = k + n + 1
      BY <1>1, <1>3, <2>2
    <3> QED BY <1>5, <2>1, <2>2, <3>1
  <2>3. CASE ~(k + n < T)
    <3>1. (n + 1) - 1 = r + 1
      BY <1>1, <1>3, <1>4, <2>3
    <3> QED BY <1>5, <2>1, <2>3, <3>1
  <2> QED BY <2>2, <2>3
<1>8. ASSUME n = Len(w), Complete(w, fs)
      PROVE  k + n = T /\ g = Len(fs)
  <2>1. 1 + r <= n /\ (1 + r = n => g = Len(fs))
    <3>1. w[1].f = g
      BY DEF Starts
    <3>2. 1 + Rest(w[1], fs) <= Len(w) /\ (1 + Rest(w[1], fs) = Len(w) => w[1].f = Len(fs))
      BY <1>1, <1>8 DEF Complete
    <3> QED BY <1>8, <3>1, <3>2 DEF r
  <2>2. 1 + r = n
    BY <1>1, <1>3, <1>4, <2>1
  <2> QED BY <1>1, <1>3, <2>1, <2>2
<1> QED BY <1>2, <1>3, <1>6, <1>7, <1>8 DEF T

-----------------------------------------------------------------------------
(* The steps that leave the wire and the frames.                           *)

\* The types but those of the network and of what was delivered.
PartTypes ==
  /\ part \in Parts /\ header \in Seq(Units) /\ body \in 0..MaxLen /\ Sound(p) /\ ops \in 0..MaxOps
  /\ ptr \in [at : 0..SizeMax, n : 0..MaxLen]

NetTypes ==
  /\ conn \in 1..MaxConns /\ ended \in BOOLEAN
  /\ frames \in Seq(Frames) /\ wire \in Seq(Units)

Deliveries == [c : 1..MaxConns, d : Seq(Units \cup {Zero})]

LEMMA Types ==
  TypeOK <=> PartTypes /\ NetTypes /\ delivered \in Seq(Deliveries)
BY DEF TypeOK, PartTypes, NetTypes, Deliveries, Sound, Bytes

LEMMA TypesNext ==
  TypeOK' <=> PartTypes' /\ NetTypes' /\ (delivered \in Seq(Deliveries))'
BY DEF TypeOK, PartTypes, NetTypes, Deliveries, Sound, Bytes

LEMMA SameDelivered ==
  ASSUME FramesIntact, UNCHANGED <<frames, delivered>>
  PROVE  FramesIntact'
BY DEF FramesIntact, Place, Body

LEMMA SameWire ==
  ASSUME WireInv, UNCHANGED netVars
  PROVE  WireInv'
BY DEF WireInv, InFrames, Chained, Complete, Rest, netVars

LEMMA OperatesKeeps ==
  ASSUME Inv, NEW k, Sound(k), NEW span \in [at : 0..SizeMax, n : 0..MaxLen], Operates(k, span)
  PROVE  Inv'
<1>1. TypeOK'
  <2>1. ops' \in 0..MaxOps
    BY StreamAssumption DEF Inv, TypeOK, Operates
  <2> QED BY <2>1, Types, TypesNext DEF Inv, Operates, PartTypes, NetTypes, netVars
<1>2. WireInv' /\ FramesIntact'
  BY SameDelivered, SameWire DEF Inv, Operates, netVars
<1>3. PICK base \in Nat, db \in Nat : At(base, db)
  BY DEF Inv
<1>4. SortedInv(base, db)' /\ Current(base, db)' = Current(base, db)
  BY <1>3 DEF At, SortedInv, Current, Operates, netVars
<1>5. ASSUME NEW g, PlaceInv(g)
      PROVE  PlaceInv(g)' /\ PartInv(g)'
  <2>1. Taken' = 0 /\ Taken = 0 /\ part' = "callback" /\ part = "callback"
    BY DEF Operates, Taken
  <2> QED BY <1>5, <2>1 DEF PlaceInv, PartInv, Operates, netVars, Follows
<1> QED BY <1>1, <1>2, <1>3, <1>4, <1>5 DEF Inv, At

LEMMA ApplicationKeeps ==
  ASSUME Inv, Application
  PROVE  Inv'
<1>1. /\ Sound(p) /\ p.p \in 0..SizeMax /\ SizeMax \in Nat
      /\ \A n \in 0..MaxLen : n \in 0..SizeMax /\ [at |-> p.p, n |-> n] \in [at : 0..SizeMax, n : 0..MaxLen]
      /\ Nothing \in [at : 0..SizeMax, n : 0..MaxLen]
  <2>1. Sound(p) /\ p.p \in 0..SizeMax
    BY Types DEF Inv, PartTypes, Sound, Packets
  <2>2. SizeMax \in Nat /\ MaxLen \in Nat /\ MaxLen <= SizeMax
    BY StreamAssumption, PacketAssumption
  <2> QED BY <2>1, <2>2 DEF Nothing
<1>2. CASE AppClears
  BY <1>1, <1>2, ClearIs, OperatesKeeps DEF AppClears
<1>3. ASSUME NEW n \in 0..MaxLen, AppResizes(n)
      PROVE  Inv'
  <2>1. Sound(Resize(p, n))
    BY <1>1, ResizeIs
  <2> QED BY <1>1, <1>3, <2>1, OperatesKeeps DEF AppResizes
<1>4. ASSUME NEW n \in 0..MaxLen, AppSeeks(n)
      PROVE  Inv'
  <2>1. Sound(Pos(p, n))
    BY <1>1, PosIs
  <2> QED BY <1>1, <1>4, <2>1, OperatesKeeps DEF AppSeeks
<1>5. ASSUME NEW n \in 0..MaxLen, AppWrites(n)
      PROVE  Inv'
  <2>1. Sound(Write(p, n))
    BY <1>1, WriteIs
  <2> QED BY <1>1, <1>5, <2>1, OperatesKeeps DEF AppWrites
<1>6. ASSUME NEW n \in 0..MaxLen, AppReads(n)
      PROVE  Inv'
  <2>1. Sound(Read(p, n))
    BY <1>1, ReadIs
  <2> QED BY <1>1, <1>6, <2>1, OperatesKeeps DEF AppReads
<1> QED BY <1>2, <1>3, <1>4, <1>5, <1>6 DEF Application

LEMMA Receive1Keeps ==
  ASSUME Inv, Receive1
  PROVE  Inv'
<1>1. TypeOK'
  BY Types, TypesNext DEF Inv, Receive1, HeaderBuffer, PartTypes, NetTypes, netVars, Parts
<1>2. WireInv' /\ FramesIntact'
  BY SameDelivered, SameWire DEF Inv, Receive1, netVars
<1>3. PICK base \in Nat, db \in Nat : At(base, db)
  BY DEF Inv
<1>4. SortedInv(base, db)' /\ Current(base, db)' = Current(base, db)
  BY <1>3 DEF At, SortedInv, Current, Receive1, netVars
<1>5. ASSUME NEW g, PlaceInv(g)
      PROVE  PlaceInv(g)' /\ PartInv(g)'
  <2>1. Taken' = 0 /\ Taken = 0 /\ part' = "header" /\ header' = <<>> /\ part = "callback"
    BY DEF Receive1, Taken, HeaderBuffer
  <2> QED BY <1>5, <2>1, StreamAssumption DEF PlaceInv, PartInv, Receive1, netVars, Follows
<1> QED BY <1>1, <1>2, <1>3, <1>4, <1>5 DEF Inv, At

LEMMA ReadFailsKeeps ==
  ASSUME Inv, ReadFails
  PROVE  Inv'
<1>1. TypeOK'
  BY Types, TypesNext DEF Inv, ReadFails, PartTypes, NetTypes, netVars, Parts
<1>2. WireInv' /\ FramesIntact'
  BY SameDelivered, SameWire DEF Inv, ReadFails, netVars
<1>3. PICK base \in Nat, db \in Nat : At(base, db)
  BY DEF Inv
<1>4. SortedInv(base, db)'
  BY <1>3 DEF At, SortedInv, ReadFails, netVars
<1>5. At(base, db)'
  BY <1>4 DEF At, PlaceInv, PartInv, ReadFails
<1> QED BY <1>1, <1>2, <1>5 DEF Inv

\* A connection ends with an error; the frames and the packets of the next one
\* come behind those there are.
LEMMA ReconnectKeeps ==
  ASSUME Inv, Reconnect
  PROVE  Inv'
<1>1. TypeOK'
  <2>1. conn' \in 1..MaxConns
    BY Types, StreamAssumption DEF Inv, NetTypes, Reconnect
  <2>2. wire' \in Seq(Units) /\ header' \in Seq(Units) /\ ended' \in BOOLEAN /\ part' \in Parts
    <3>1. wire' = <<>> /\ header' = <<>> /\ ended' = FALSE /\ part' = "header"
      BY DEF Reconnect, HeaderBuffer
    <3>2. <<>> \in Seq(Units)
      OBVIOUS
    <3> QED BY <3>1, <3>2 DEF Parts
  <2> QED BY <2>1, <2>2, Types, TypesNext DEF Inv, Reconnect, PartTypes, NetTypes
<1>2. WireInv' /\ FramesIntact'
  <2>1. FramesIntact'
    BY SameDelivered DEF Inv, Reconnect
  <2>2. wire' = <<>>
    BY DEF Reconnect
  <2> QED BY <2>1, <2>2 DEF WireInv, InFrames, Chained, Complete
<1>3. PICK base \in Nat, db \in Nat : At(base, db)
  BY DEF Inv
<1>3a. PICK nf \in Nat, nd \in Nat : nf = Len(frames) /\ nd = Len(delivered)
  BY Numbers DEF Inv
<1>4. /\ nf \in Nat /\ nd \in Nat /\ DOMAIN frames = 1..nf /\ DOMAIN delivered = 1..nd
      /\ conn \in Nat /\ \A f \in DOMAIN frames : frames[f].c \in Nat
  BY <1>3a, Numbers DEF Inv
<1>5. \A i \in DOMAIN delivered : delivered[i].c \in Nat
  <2>1. \A i \in DOMAIN delivered : delivered[i] \in Deliveries
    BY Types DEF Inv
  <2> QED BY <2>1, StreamAssumption DEF Deliveries
<1>6. conn' = conn + 1 /\ frames' = frames /\ delivered' = delivered
  BY DEF Reconnect
<1>7. SortedInv(nf, nd)'
  <2>1. /\ \A f \in DOMAIN frames : frames[f].c <= conn
        /\ \A i \in DOMAIN delivered : delivered[i].c <= conn
    BY <1>3 DEF At, SortedInv
  <2>2. \A f \in DOMAIN frames : frames[f].c <= conn + 1 /\ frames[f].c # conn + 1 /\ ~(f > nf)
    BY <1>4, <2>1
  <2>3. \A i \in DOMAIN delivered :
          delivered[i].c <= conn + 1 /\ delivered[i].c # conn + 1 /\ ~(i > nd)
    BY <1>4, <1>5, <2>1
  <2>4. nf \in 0..nf /\ nd \in 0..nd /\ nf + (nd - nd) <= nf
    BY <1>4
  <2> QED BY <1>3a, <1>6, <2>2, <2>3, <2>4 DEF SortedInv
<1>8. Current(nf, nd)' = nf + 1
  BY <1>3a, <1>4, <1>6 DEF Current
<1>9. /\ Follows([f |-> nf + 1, i |-> 1], nf + 1, 0) /\ Taken' = 0 /\ header' = <<>>
      /\ part' = "header" /\ wire' = <<>>
  BY DEF Follows, Reconnect, HeaderBuffer, Taken
<1>10. PlaceInv(nf + 1)' /\ PartInv(nf + 1)'
  BY <1>3a, <1>6, <1>9, StreamAssumption DEF PlaceInv, PartInv, Follows
<1>11. At(nf, nd)'
  <2>1. Current(nf, nd)' = nf + 1 /\ SortedInv(nf, nd)'
    BY <1>7, <1>8
  <2> QED BY <1>10, <2>1 DEF At, PlaceInv, PartInv, Follows
<1> QED BY <1>1, <1>2, <1>4, <1>6, <1>11 DEF Inv

-----------------------------------------------------------------------------
(* The steps that change the wire.                                         *)

\* Of a frame that is not there yet nothing was read.
LEMMA TakenOf ==
  ASSUME TypeOK, NEW g, PartInv(g)
  PROVE  /\ Taken \in Nat
         /\ Taken = 0 \/ g \in DOMAIN frames
         /\ part = "header" => Taken <= HeaderUnits
         /\ part = "body" => g \in DOMAIN frames /\ Taken <= HeaderUnits + frames[g].len
<1>1. CASE part = "header"
  <2>1. header = <<>> => Len(header) = 0
    OBVIOUS
  <2> QED BY <1>1, <2>1, Numbers DEF Taken, PartInv
<1>2. CASE part = "body"
  <2>1. g \in DOMAIN frames /\ body <= frames[g].len /\ body \in Nat /\ HeaderUnits \in Nat
    BY <1>2, Numbers DEF PartInv
  <2>2. frames[g].len \in Nat
    BY <2>1, Numbers
  <2> QED BY <1>2, <2>1, <2>2 DEF Taken
<1> QED BY <1>1, <1>2 DEF Taken

LEMMA PeerWritesKeeps ==
  ASSUME Inv, NEW len \in 0..MaxLen, NEW marker \in BOOLEAN, PeerWrites(len, marker)
  PROVE  Inv'
<1>1. PICK nf \in Nat, fr \in Frames :
        /\ nf = Len(frames) /\ fr = [c |-> conn, len |-> len, marker |-> marker]
        /\ fr.c = conn /\ fr.len = len /\ conn \in Nat
  <2>1. [c |-> conn, len |-> len, marker |-> marker] \in Frames
    BY Types DEF Inv, NetTypes, Frames
  <2> QED BY <2>1, Numbers DEF Inv
<1>2. /\ frames' = Append(frames, fr) /\ wire' = wire \o UnitsOf(Len(frames'), len)
      /\ ~ended /\ nf < MaxFrames /\ ended' = ended /\ conn' = conn /\ delivered' = delivered
      /\ part' = part /\ header' = header /\ body' = body /\ p' = p
  BY <1>1 DEF PeerWrites
<1>3. frames \in Seq(Frames) /\ wire \in Seq(Units) /\ DOMAIN frames = 1..nf
  BY <1>1, Types, Numbers DEF Inv, NetTypes
<1>4. /\ frames' \in Seq(Frames) /\ Len(frames') = nf + 1 /\ DOMAIN frames' = 1..(nf + 1)
      /\ frames'[nf + 1] = fr
      /\ \A f \in 1..nf : frames'[f] = frames[f]
  <2>1. /\ frames' \in Seq(Frames) /\ Len(frames') = nf + 1 /\ frames'[nf + 1] = fr
        /\ \A f \in 1..nf : frames'[f] = frames[f]
    BY <1>1, <1>2, <1>3, AppendAt
  <2> QED BY <2>1
<1>5. /\ wire' \in Seq(Units) /\ wire' # <<>> /\ (wire # <<>> => wire'[1] = wire[1])
      /\ wire = <<>> => wire'[1].f = nf + 1 /\ wire'[1].i = 1
      /\ InFrames(wire', frames') /\ Chained(wire', frames') /\ Complete(wire', frames')
  <2>1. InFrames(wire, frames) /\ Chained(wire, frames) /\ Complete(wire, frames)
    BY <1>2 DEF Inv, WireInv
  <2>2. wire' = wire \o UnitsOf(nf + 1, len)
    BY <1>2, <1>4
  <2> QED BY <1>1, <1>2, <1>3, <2>1, <2>2, WireGrows
<1>6. TypeOK'
  BY <1>4, <1>5, Types, TypesNext DEF Inv, PeerWrites, PartTypes, NetTypes
<1>7. WireInv'
  BY <1>5 DEF WireInv, InFrames, Chained, Complete, Rest
<1>8. FramesIntact'
  <2> SUFFICES ASSUME NEW i \in DOMAIN delivered
               PROVE  \E f \in DOMAIN frames' :
                        /\ frames'[f].c = delivered'[i].c /\ Place(frames', f) = Place(delivered', i)
                        /\ frames'[f].marker /\ delivered'[i].d = Body(f)'
    BY <1>2 DEF FramesIntact, Place
  <2>1. PICK f \in DOMAIN frames :
          /\ frames[f].c = delivered[i].c /\ Place(frames, f) = Place(delivered, i)
          /\ frames[f].marker /\ delivered[i].d = Body(f)
    BY DEF Inv, FramesIntact
  <2>2. f \in DOMAIN frames' /\ frames'[f] = frames[f]
    BY <1>3, <1>4
  <2>3. Place(frames', f) = Place(frames, f)
    BY <1>1, <1>2, <1>3, PlaceAppend
  <2>4. Body(f)' = Body(f)
    BY <2>2 DEF Body
  <2> QED BY <1>2, <2>1, <2>2, <2>3, <2>4
<1>9. PICK base \in Nat, db \in Nat : At(base, db)
  BY DEF Inv
<1>10. SortedInv(base, db)'
  <2>1. /\ base \in 0..nf /\ db \in 0..Len(delivered) /\ base + (Len(delivered) - db) <= nf
        /\ \A f \in 1..nf : frames[f].c <= conn /\ (frames[f].c = conn <=> f > base)
        /\ \A i \in DOMAIN delivered : delivered[i].c <= conn /\ (delivered[i].c = conn <=> i > db)
    BY <1>1, <1>3, <1>9 DEF At, SortedInv
  <2>2. Len(delivered) \in Nat
    BY Numbers DEF Inv
  <2>3. base \in 0..(nf + 1) /\ base + (Len(delivered) - db) <= nf + 1
    BY <2>1, <2>2
  <2>4. \A f \in 1..(nf + 1) : frames'[f].c <= conn /\ (frames'[f].c = conn <=> f > base)
    <3> SUFFICES ASSUME NEW f \in 1..(nf + 1)
                 PROVE  frames'[f].c <= conn /\ (frames'[f].c = conn <=> f > base)
      OBVIOUS
    <3>1. CASE f = nf + 1
      <4>1. frames'[f].c = conn
        BY <1>1, <1>4, <3>1
      <4>2. f > base
        BY <2>1, <3>1
      <4> QED BY <1>1, <4>1, <4>2
    <3>2. CASE f # nf + 1
      <4>1. f \in 1..nf
        BY <3>2
      <4> QED BY <1>4, <2>1, <4>1
    <3> QED BY <3>1, <3>2
  <2> QED BY <1>2, <1>4, <2>1, <2>3, <2>4 DEF SortedInv
<1>11. PICK g \in Nat : g = Current(base, db)
  <2>1. Len(delivered) \in Nat /\ db \in 0..Len(delivered)
    BY <1>9, Numbers DEF Inv, At, SortedInv
  <2>2. (base + (Len(delivered) - db)) + 1 \in Nat
    BY <2>1
  <2> QED BY <2>2 DEF Current
<1>12. Current(base, db)' = g
  BY <1>2, <1>11 DEF Current
<1>13. PlaceInv(g) /\ PartInv(g)
  BY <1>9, <1>11 DEF At
<1>14. PICK k \in Nat : k = Taken /\ k = Taken' /\ (k = 0 \/ g \in DOMAIN frames)
  <2>1. Taken' = Taken
    BY <1>2 DEF Taken
  <2> QED BY <1>13, <2>1, TakenOf DEF Inv
<1>15. PlaceInv(g)'
  <2>1. HeaderUnits \in Nat
    BY StreamAssumption
  <2>2. k # 0 => frames'[g] = frames[g]
    BY <1>3, <1>4, <1>14
  <2>3. ASSUME part # "error"
        PROVE  Follows(wire[1], g, k)'
    <3>1. CASE wire # <<>>
      <4>1. Follows(wire[1], g, k) /\ wire'[1] = wire[1]
        BY <1>5, <1>13, <1>14, <2>3, <3>1 DEF PlaceInv
      <4> QED BY <2>2, <4>1 DEF Follows
    <3>2. CASE wire = <<>>
      <4>1. Follows([f |-> nf + 1, i |-> 1], g, k)
        BY <1>1, <1>2, <1>13, <1>14, <2>3, <3>2 DEF PlaceInv
      <4>2. wire'[1].f = nf + 1 /\ wire'[1].i = 1
        BY <1>5, <3>2
      <4> QED BY <2>2, <4>1, <4>2 DEF Follows
    <3> QED BY <3>1, <3>2
  <2> QED BY <1>2, <1>5, <1>14, <2>3 DEF PlaceInv, Follows
<1>16. PartInv(g)'
  <2>1. g \in DOMAIN frames => g \in DOMAIN frames' /\ frames'[g] = frames[g]
    BY <1>3, <1>4
  <2> QED BY <1>2, <1>13, <2>1 DEF PartInv
<1>17. At(base, db)'
  BY <1>10, <1>12, <1>15, <1>16 DEF At, PlaceInv, PartInv, Follows
<1> QED BY <1>6, <1>7, <1>8, <1>9, <1>17 DEF Inv

LEMMA PeerEndsKeeps ==
  ASSUME Inv, NEW n \in 0..Len(wire), PeerEnds(n)
  PROVE  Inv'
<1>1. /\ wire \in Seq(Units) /\ InFrames(wire, frames) /\ Chained(wire, frames)
      /\ 1 \in 1..(Len(wire) + 1)
  BY Types, Numbers DEF Inv, NetTypes, WireInv
<1>2. /\ wire' = SubSeq(wire, 1, n) /\ ended' = TRUE
      /\ UNCHANGED <<conn, frames, part, header, body, p, ops, ptr, delivered>>
  BY DEF PeerEnds
<1>3. /\ wire' \in Seq(Units) /\ InFrames(wire', frames) /\ Chained(wire', frames)
      /\ \A a \in DOMAIN wire' : wire'[a] = wire[a + 1 - 1] /\ a + 1 - 1 \in DOMAIN wire
  BY <1>1, <1>2, WireSlice
<1>4. TypeOK'
  BY <1>2, <1>3, Types, TypesNext DEF Inv, PartTypes, NetTypes
<1>5. WireInv'
  BY <1>2, <1>3 DEF WireInv, InFrames, Chained, Rest
<1>6. FramesIntact'
  BY <1>2, SameDelivered DEF Inv
<1>7. PICK base \in Nat, db \in Nat : At(base, db)
  BY DEF Inv
<1>8. wire' # <<>> => wire # <<>> /\ wire'[1] = wire[1]
  <2>1. wire' # <<>> => 1 \in DOMAIN wire'
    BY <1>3
  <2> QED BY <1>3, <2>1
<1>9. SortedInv(base, db)' /\ Current(base, db)' = Current(base, db)
  BY <1>2, <1>7 DEF At, SortedInv, Current
<1>10. ASSUME NEW g, PlaceInv(g), PartInv(g)
       PROVE  PlaceInv(g)' /\ PartInv(g)'
  <2>1. Taken' = Taken
    BY <1>2 DEF Taken
  <2> QED BY <1>2, <1>8, <1>10, <2>1 DEF PlaceInv, PartInv, Follows
<1> QED BY <1>4, <1>5, <1>6, <1>7, <1>9, <1>10 DEF Inv, At

-----------------------------------------------------------------------------
(* A read of the socket.                                                   *)

\* The units that a read takes are the next ones of frame g, of which k were
\* read.
Takes(n, g, k) ==
  /\ g \in DOMAIN frames /\ n \in 1..Len(wire) /\ k \in Nat /\ k + n <= HeaderUnits + frames[g].len
  /\ \A j \in 1..n : wire[j] = [f |-> g, i |-> k + j]
  /\ n < Len(wire) => Follows(wire[n + 1], g, k + n)
  /\ n = Len(wire) /\ ~ended => /\ k + n = HeaderUnits + frames[g].len
                                /\ g = Len(frames)

LEMMA ReadTakes ==
  ASSUME TypeOK, WireInv, NEW g, PlaceInv(g), PartInv(g), NEW n, ReadSome(n)
  PROVE  /\ Takes(n, g, Taken)
         /\ part = "header" => Taken + n <= HeaderUnits
<1>1. part \in {"header", "body"} /\ n \in 1..Len(wire) /\ n <= Missing
  BY DEF ReadSome, Available
<1>2. /\ wire \in Seq(Units) /\ frames \in Seq(Frames) /\ Len(wire) \in Nat /\ 1 \in DOMAIN wire
      /\ wire # <<>> /\ n \in Nat /\ n >= 1 /\ HeaderUnits \in Nat
  BY <1>1, Types, Numbers DEF NetTypes
<1>3. InFrames(wire, frames) /\ Chained(wire, frames) /\ (~ended => Complete(wire, frames))
  BY DEF WireInv
<1> DEFINE k == Taken
<1>4. /\ k \in Nat /\ (k = 0 \/ g \in DOMAIN frames)
      /\ part = "body" => g \in DOMAIN frames
  BY TakenOf
<1>5. Follows(wire[1], g, k)
  BY <1>1, <1>2 DEF PlaceInv
<1>6. wire[1].f \in DOMAIN frames
  BY <1>2, <1>3 DEF InFrames
<1>7. part = "header" => k + n <= HeaderUnits
  BY <1>1, <1>2, Numbers DEF Missing, Taken
<1>8. part = "body" => k + n <= HeaderUnits + frames[g].len
  <2> SUFFICES ASSUME part = "body" PROVE k + n <= HeaderUnits + frames[g].len
    OBVIOUS
  <2>1. Announced = frames[g] /\ frames[g].len \in Nat /\ body \in Nat
    BY <1>4, Numbers DEF Announced, PartInv
  <2>2. n <= frames[g].len - body
    BY <1>1, <2>1 DEF Missing
  <2> QED BY <1>2, <2>1, <2>2 DEF Taken
<1> HIDE DEF k
<1>9. k = 0 \/ k < HeaderUnits + frames[g].len
  <2>1. CASE part = "body"
    BY <1>2, <1>4, <1>8, <2>1, Numbers
  <2>2. CASE part = "header" /\ k # 0
    <3>1. frames[g].len \in Nat
      BY <1>4, <2>2, Numbers
    <3> QED BY <1>2, <1>4, <1>7, <2>2, <3>1
  <2> QED BY <1>1, <2>1, <2>2
<1>10. Starts(wire, g, k) /\ g \in DOMAIN frames
  BY <1>5, <1>6, <1>9 DEF Follows, Starts
<1>11. frames[g].len \in Nat
  BY <1>10, Numbers
<1>12. k + n <= HeaderUnits + frames[g].len
  BY <1>1, <1>2, <1>4, <1>7, <1>8, <1>11
<1>13. n <= (HeaderUnits + frames[g].len) - k
  BY <1>2, <1>4, <1>11, <1>12
<1>14. /\ \A j \in 1..n : wire[j] = [f |-> g, i |-> k + j]
       /\ n < Len(wire) => IF k + n < HeaderUnits + frames[g].len
                           THEN wire[n + 1].f = g /\ wire[n + 1].i = k + n + 1
                           ELSE wire[n + 1].f = g + 1 /\ wire[n + 1].i = 1
       /\ n = Len(wire) /\ Complete(wire, frames) =>
            k + n = HeaderUnits + frames[g].len /\ g = Len(frames)
  BY <1>1, <1>2, <1>3, <1>4, <1>10, <1>13, UnitsRead
<1>15. n < Len(wire) => Follows(wire[n + 1], g, k + n)
  <2>1. k + n # 0
    BY <1>2, <1>4
  <2> QED BY <1>14, <2>1 DEF Follows
<1> QED BY <1>1, <1>3, <1>4, <1>7, <1>10, <1>12, <1>14, <1>15 DEF Takes, k

\* What a read leaves on the wire.
LEMMA ReadLeaves ==
  ASSUME TypeOK, WireInv, NEW n \in 1..Len(wire), wire' = SubSeq(wire, n + 1, Len(wire)),
         UNCHANGED <<ended, frames>>
  PROVE  /\ wire' \in Seq(Units) /\ WireInv'
         /\ wire' # <<>> => n < Len(wire) /\ wire'[1] = wire[n + 1]
         /\ wire' = <<>> => n = Len(wire)
<1>1. /\ wire \in Seq(Units) /\ frames \in Seq(Frames) /\ Len(wire) \in Nat
      /\ InFrames(wire, frames) /\ Chained(wire, frames) /\ (~ended => Complete(wire, frames))
  BY Types, Numbers DEF NetTypes, WireInv
<1> DEFINE m == n + 1
<1>2. m \in 1..(Len(wire) + 1) /\ Len(wire) \in 0..Len(wire) /\ n \in 0..Len(wire)
  BY <1>1
<1> HIDE DEF m
<1>3. wire' = SubSeq(wire, m, Len(wire))
  BY DEF m
<1>4. /\ wire' \in Seq(Units) /\ Len(wire') = (IF m <= Len(wire) THEN Len(wire) - m + 1 ELSE 0)
      /\ \A a \in DOMAIN wire' : wire'[a] = wire[a + m - 1]
      /\ InFrames(wire', frames) /\ Chained(wire', frames)
  BY <1>1, <1>2, <1>3, WireSlice
<1>5. ~ended => Complete(wire', frames)
  BY <1>1, <1>2, WireRead
<1>6. WireInv'
  BY <1>4, <1>5 DEF WireInv, InFrames, Chained, Complete, Rest
<1>7. ASSUME wire' # <<>>
      PROVE  n < Len(wire) /\ wire'[1] = wire[n + 1]
  <2>1. Len(wire') # 0 /\ 1 \in DOMAIN wire'
    BY <1>4, <1>7
  <2>2. m <= Len(wire)
    BY <1>4, <2>1
  <2>3. 1 + m - 1 = n + 1 /\ n < Len(wire)
    BY <1>1, <2>2 DEF m
  <2> QED BY <1>4, <2>1, <2>3
<1>8. ASSUME wire' = <<>>
      PROVE  n = Len(wire)
  <2>1. Len(<<>>) = 0
    OBVIOUS
  <2>2. Len(wire') = 0
    BY <1>8, <2>1
  <2> QED BY <1>1, <1>4, <2>2 DEF m
<1> QED BY <1>4, <1>6, <1>7, <1>8

LEMMA FillIs ==
  ASSUME NEW d \in Seq(Bytes), NEW from \in Nat, NEW us \in Seq(Bytes)
  PROVE  /\ Fill(d, from, us) \in Seq(Bytes) /\ Len(Fill(d, from, us)) = Len(d)
         /\ \A i \in 1..Len(d) :
              Fill(d, from, us)[i] = IF from < i /\ i <= from + Len(us) THEN us[i - from] ELSE d[i]
<1> DEFINE e == Fill(d, from, us)
<1>1. /\ Len(d) \in Nat /\ DOMAIN d = 1..Len(d) /\ Len(us) \in Nat
      /\ e = [i \in DOMAIN d |-> IF i \in (from + 1)..(from + Len(us)) THEN us[i - from] ELSE d[i]]
  BY DEF Fill
<1>2. ASSUME NEW i \in 1..Len(d)
      PROVE  /\ e[i] = IF from < i /\ i <= from + Len(us) THEN us[i - from] ELSE d[i]
             /\ e[i] \in Bytes
  <2>1. e[i] = IF i \in (from + 1)..(from + Len(us)) THEN us[i - from] ELSE d[i]
    BY <1>1
  <2>2. i \in (from + 1)..(from + Len(us)) <=> (from < i /\ i <= from + Len(us))
    BY <1>1
  <2>3. from < i /\ i <= from + Len(us) => us[i - from] \in Bytes
    <3>1. from < i /\ i <= from + Len(us) => i - from \in 1..Len(us)
      BY <1>1
    <3> QED BY <3>1
  <2> QED BY <2>1, <2>2, <2>3
<1>3. e \in [1..Len(d) -> Bytes]
  BY <1>1, <1>2
<1> HIDE DEF e
<1>4. e \in Seq(Bytes) /\ Len(e) = Len(d)
  BY <1>1, <1>3, FunctionIsSeq
<1> QED BY <1>2, <1>4 DEF e

LEMMA ReadSomeKeeps ==
  ASSUME Inv, NEW n, ReadSome(n)
  PROVE  Inv'
<1>1. PICK base \in Nat, db \in Nat : At(base, db)
  BY DEF Inv
<1>2. PICK g, k : g = Current(base, db) /\ k = Taken
  OBVIOUS
<1>3. TypeOK /\ WireInv /\ PlaceInv(g) /\ PartInv(g)
  BY <1>1, <1>2 DEF Inv, At
<1>4. Takes(n, g, k) /\ (part = "header" => k + n <= HeaderUnits)
  BY <1>2, <1>3, ReadTakes
<1>5. /\ part \in {"header", "body"} /\ wire' = SubSeq(wire, n + 1, Len(wire))
      /\ conn' = conn /\ ended' = ended /\ frames' = frames /\ part' = part /\ delivered' = delivered
      /\ ops' = ops /\ ptr' = ptr
  BY DEF ReadSome
<1>6. n \in 1..Len(wire) /\ Len(wire) \in Nat /\ wire \in Seq(Units) /\ k \in Nat /\ n \in Nat
  <2>1. n \in 1..Len(wire) /\ k \in Nat
    BY <1>4 DEF Takes
  <2>2. Len(wire) \in Nat /\ wire \in Seq(Units)
    BY <1>3, Numbers, Types DEF NetTypes
  <2> QED BY <2>1, <2>2
<1>7. /\ wire' \in Seq(Units) /\ WireInv'
      /\ wire' # <<>> => n < Len(wire) /\ wire'[1] = wire[n + 1]
      /\ wire' = <<>> => n = Len(wire)
  BY <1>3, <1>5, <1>6, ReadLeaves
<1>8. PICK us \in Seq(Units) :
        us = SubSeq(wire, 1, n) /\ Len(us) = n /\ \A j \in 1..n : us[j] = [f |-> g, i |-> k + j]
  <2> DEFINE us == SubSeq(wire, 1, n)
  <2>1. 1 \in 1..(Len(wire) + 1) /\ n \in 0..Len(wire)
    BY <1>6
  <2>2. /\ us \in Seq(Units) /\ Len(us) = (IF 1 <= n THEN n - 1 + 1 ELSE 0)
        /\ \A j \in 1..(n - 1 + 1) : us[j] = wire[1 + j - 1]
    BY <1>6, <2>1, SubSeqAt
  <2> HIDE DEF us
  <2>3. Len(us) = n /\ \A j \in 1..n : us[j] = wire[j]
    BY <1>6, <2>2
  <2>4. \A j \in 1..n : us[j] = [f |-> g, i |-> k + j]
    BY <1>4, <2>3 DEF Takes
  <2> QED BY <2>2, <2>3, <2>4 DEF us
<1>9. PlaceInv(g)' /\ PartInv(g)' /\ header' \in Seq(Units) /\ Sound(p') /\ body' \in 0..MaxLen
  <2>1. /\ header \in Seq(Units) /\ Sound(p) /\ body \in 0..MaxLen /\ Len(header) \in Nat
        /\ HeaderUnits \in Nat /\ MaxLen \in Nat /\ g \in DOMAIN frames /\ frames[g].len \in 0..MaxLen
        /\ k + n <= HeaderUnits + frames[g].len
    BY <1>3, <1>4, Types, Numbers, StreamAssumption DEF PartTypes, Takes
  <2>2. ASSUME Taken' = k + n
        PROVE  PlaceInv(g)'
    <3>1. wire' # <<>> => Follows(wire'[1], g, k + n)
      BY <1>4, <1>7 DEF Takes
    <3>2. ASSUME wire' = <<>>, ~ended
          PROVE  k + n = HeaderUnits + frames[g].len /\ g = Len(frames)
      BY <1>4, <1>7, <3>2 DEF Takes
    <3>3. k + n # 0
      BY <1>6
    <3>4. wire' = <<>> /\ ~ended => Follows([f |-> Len(frames) + 1, i |-> 1], g, k + n)
      <4>1. ~(HeaderUnits + frames[g].len < HeaderUnits + frames[g].len)
        BY <2>1
      <4> QED BY <3>2, <3>3, <4>1 DEF Follows
    <3> QED BY <1>5, <2>2, <3>1, <3>4 DEF PlaceInv, Follows
  <2>3. CASE part = "header"
    <3>1. header' = header \o us /\ p' = p /\ body' = body /\ part' = "header"
      BY <1>5, <1>8, <2>3 DEF ReadSome
    <3>2. Len(header) = k
      BY <1>2, <2>3 DEF Taken
    <3>3. /\ header' \in Seq(Units) /\ Len(header') = k + n
          /\ \A j \in 1..k : header'[j] = header[j]
          /\ \A j \in 1..n : header'[k + j] = us[j]
      <4>1. /\ header \o us \in Seq(Units) /\ Len(header \o us) = Len(header) + Len(us)
            /\ \A j \in 1..Len(header) : (header \o us)[j] = header[j]
            /\ \A j \in 1..Len(us) : (header \o us)[Len(header) + j] = us[j]
        BY <2>1, ConcatAt
      <4>2. Len(us) = n
        BY <1>8
      <4> QED BY <3>1, <3>2, <4>1, <4>2
    <3>4. \A j \in 1..k : header'[j] = [f |-> g, i |-> j]
      BY <1>3, <2>1, <2>3, <3>2, <3>3 DEF PartInv
    <3>5. ASSUME NEW j \in 1..(k + n), j > k
          PROVE  header'[j] = [f |-> g, i |-> j]
      <4>1. j - k \in 1..n /\ k + (j - k) = j
        BY <1>6, <3>5
      <4>2. header'[k + (j - k)] = us[j - k] /\ us[j - k] = [f |-> g, i |-> k + (j - k)]
        BY <1>8, <3>3, <4>1
      <4> QED BY <4>1, <4>2
    <3>6. \A j \in 1..(k + n) : header'[j] = [f |-> g, i |-> j]
      <4>1. \A j \in 1..(k + n) : j > k \/ j \in 1..k
        BY <1>6
      <4> QED BY <3>4, <3>5, <4>1
    <3>7. PartInv(g)'
      <4>1. DOMAIN header' = 1..(k + n)
        BY <3>3
      <4> QED BY <1>4, <1>5, <2>1, <2>3, <3>1, <3>3, <3>6, <4>1 DEF PartInv
    <3>8. Taken' = k + n
      BY <3>1, <3>3 DEF Taken
    <3> QED BY <2>1, <2>2, <3>1, <3>3, <3>7, <3>8
  <2>4. CASE part = "body"
    <3>1. p' = [p EXCEPT !.d = Fill(@, body, us)] /\ body' = body + n /\ header' = header
      BY <1>5, <1>8, <2>4 DEF ReadSome
    <3>2. k = HeaderUnits + body
      BY <1>2, <2>4 DEF Taken
    <3>3. /\ frames[g].marker /\ header # <<>> /\ header[1] = [f |-> g, i |-> 1]
          /\ Len(p.d) = frames[g].len /\ \A j \in 1..body : p.d[j] = [f |-> g, i |-> HeaderUnits + j]
      BY <1>3, <2>4 DEF PartInv
    <3>4. p \in [d : Seq(Bytes), p : 0..SizeMax] /\ p.d \in Seq(Bytes) /\ body \in Nat
      BY <2>1 DEF Sound, Packets
    <3>5. us \in Seq(Bytes)
      <4>1. Units \subseteq Bytes
        BY DEF Bytes
      <4> QED BY <1>8, <4>1
    <3> DEFINE e == Fill(p.d, body, us)
    <3>6. /\ e \in Seq(Bytes) /\ Len(e) = Len(p.d)
          /\ \A i \in 1..Len(p.d) : e[i] = IF body < i /\ i <= body + n THEN us[i - body] ELSE p.d[i]
      <4>1. /\ Fill(p.d, body, us) \in Seq(Bytes) /\ Len(Fill(p.d, body, us)) = Len(p.d)
            /\ \A i \in 1..Len(p.d) : Fill(p.d, body, us)[i] =
                 IF body < i /\ i <= body + Len(us) THEN us[i - body] ELSE p.d[i]
        BY <3>4, <3>5, FillIs
      <4>2. Len(us) = n
        BY <1>8
      <4> QED BY <4>1, <4>2
    <3>7. p' = [p EXCEPT !.d = e]
      BY <3>1
    <3> HIDE DEF e
    <3>8. p'.d = e /\ p'.p = p.p /\ p' \in [d : Seq(Bytes), p : 0..SizeMax]
      BY <3>4, <3>6, <3>7
    <3>9. Sound(p')
      <4>1. p.p <= Len(p.d) \/ p.p = SizeMax
        BY <2>1 DEF Sound, Size
      <4> QED BY <3>6, <3>8, <4>1 DEF Sound, Packets, Size
    <3>10. body + n <= frames[g].len /\ body + n \in 0..MaxLen
      <4>1. PICK len \in Nat : len = frames[g].len /\ len <= MaxLen
        BY <2>1
      <4>2. (HeaderUnits + body) + n <= HeaderUnits + len
        BY <2>1, <3>2, <4>1
      <4>3. body \in Nat /\ n \in Nat /\ HeaderUnits \in Nat /\ MaxLen \in Nat
        BY <1>6, <2>1, <3>4
      <4>4. body + n <= len
        BY <4>1, <4>2, <4>3
      <4>5. body + n <= MaxLen
        BY <4>1, <4>3, <4>4
      <4> QED BY <4>1, <4>3, <4>4, <4>5
    <3>11. ASSUME NEW j \in 1..(body + n)
           PROVE  p'.d[j] = [f |-> g, i |-> HeaderUnits + j]
      <4>1. j \in 1..Len(p.d) /\ j \in Nat
        BY <1>6, <2>1, <3>3, <3>4, <3>10
      <4>2. CASE j > body
        <5>1. j - body \in 1..n /\ k + (j - body) = HeaderUnits + j
          <6>1. j - body \in 1..n
            BY <1>6, <3>4, <4>1, <4>2
          <6>2. (HeaderUnits + body) + (j - body) = HeaderUnits + j
            BY <2>1, <3>4, <4>1
          <6> QED BY <3>2, <6>1, <6>2
        <5>2. us[j - body] = [f |-> g, i |-> k + (j - body)]
          BY <1>8, <5>1
        <5>3. p'.d[j] = us[j - body]
          BY <3>4, <3>6, <3>8, <4>1, <4>2, <1>6
        <5> QED BY <5>1, <5>2, <5>3
      <4>3. CASE ~(j > body)
        <5>1. j \in 1..body
          BY <3>4, <4>1, <4>3
        <5>2. p'.d[j] = p.d[j]
          BY <3>4, <3>6, <3>8, <4>1, <4>3
        <5> QED BY <3>3, <5>1, <5>2
      <4> QED BY <4>2, <4>3
    <3>12. PartInv(g)'
      BY <1>5, <2>1, <2>4, <3>1, <3>3, <3>6, <3>8, <3>10, <3>11 DEF PartInv
    <3>13. Taken' = k + n
      <4>1. HeaderUnits + (body + n) = k + n
        BY <1>6, <2>1, <3>2, <3>4
      <4>2. part' = "body"
        BY <1>5, <2>4
      <4> QED BY <3>1, <4>1, <4>2 DEF Taken
    <3> QED BY <2>1, <2>2, <3>1, <3>9, <3>10, <3>12, <3>13
  <2> QED BY <1>5, <2>3, <2>4
<1>10. TypeOK'
  BY <1>3, <1>5, <1>7, <1>9, Types, TypesNext DEF PartTypes, NetTypes
<1>11. FramesIntact'
  BY <1>5, SameDelivered DEF Inv
<1>12. SortedInv(base, db)' /\ Current(base, db)' = Current(base, db)
  BY <1>1, <1>5 DEF At, SortedInv, Current
<1>13. At(base, db)'
  BY <1>2, <1>9, <1>12 DEF At, PlaceInv, PartInv, Follows
<1> QED BY <1>1, <1>7, <1>10, <1>11, <1>13 DEF Inv

-----------------------------------------------------------------------------
(* The header and the body are complete.                                   *)

LEMMA Receive2Keeps ==
  ASSUME Inv, Receive2
  PROVE  Inv'
<1>1. PICK base \in Nat, db \in Nat : At(base, db)
  BY DEF Inv
<1>2. PICK g : g = Current(base, db)
  OBVIOUS
<1>3. TypeOK /\ PlaceInv(g) /\ PartInv(g)
  BY <1>1, <1>2 DEF Inv, At
<1>4. /\ part = "header" /\ Missing = 0 /\ UNCHANGED netVars /\ header' = header /\ ops' = ops
      /\ ptr' = ptr /\ delivered' = delivered
  BY DEF Receive2
<1>5. /\ Len(header) = HeaderUnits /\ HeaderUnits \in Nat /\ HeaderUnits > 0 /\ header # <<>>
      /\ header[1] = [f |-> g, i |-> 1] /\ g \in DOMAIN frames /\ Announced = frames[g]
  <2>1. Len(header) \in Nat /\ HeaderUnits \in Nat /\ HeaderUnits > 0 /\ DOMAIN header = 1..Len(header)
    BY <1>3, Numbers
  <2>2. Len(header) = HeaderUnits
    BY <1>4, <2>1 DEF Missing
  <2>3. Len(<<>>) = 0
    OBVIOUS
  <2>4. header # <<>> /\ 1 \in DOMAIN header
    BY <2>1, <2>2, <2>3
  <2>5. g \in DOMAIN frames /\ header[1] = [f |-> g, i |-> 1]
    BY <1>3, <1>4, <2>4 DEF PartInv
  <2> QED BY <2>1, <2>2, <2>4, <2>5 DEF Announced
<1>6. PICK len \in Nat : len = frames[g].len /\ len <= MaxLen /\ len \in 0..SizeMax /\ MaxLen \in Nat
  <2>1. frames[g].len \in 0..MaxLen /\ MaxLen \in Nat /\ MaxLen <= SizeMax /\ SizeMax \in Nat
    BY <1>3, <1>5, Numbers, StreamAssumption, PacketAssumption
  <2> QED BY <2>1
<1>7. \/ frames[g].marker /\ part' = "body" /\ body' = 0 /\ p' = Write(Clear, len)
      \/ part' = "error" /\ body' = body /\ p' = p
  BY <1>5, <1>6 DEF Receive2, BodyBuffer
<1>8. Sound(Write(Clear, len)) /\ Len(Write(Clear, len).d) = len
  <2>1. Clear.p + len = len /\ Wrap(len) = len /\ Len(Clear.d) = 0 /\ Clear.d \in Seq(Bytes)
    BY <1>6, ClearIs, WrapIs
  <2>2. /\ Sound(Write(Clear, len))
        /\ Write(Clear, len).d = IF Wrap(Clear.p + len) > Len(Clear.d)
                                 THEN Resized(Clear.d, Wrap(Clear.p + len)) ELSE Clear.d
    BY <1>6, ClearIs, WriteIs
  <2>3. Len(Resized(Clear.d, len)) = len
    BY <2>1, ResizedIs
  <2>4. CASE len > 0
    BY <2>1, <2>2, <2>3, <2>4
  <2>5. CASE len = 0
    <3>1. Write(Clear, len).d = Clear.d
      BY <2>1, <2>2, <2>5
    <3> QED BY <2>1, <2>2, <2>5, <3>1
  <2> QED BY <1>6, <2>4, <2>5
<1>9. TypeOK'
  <2>1. Sound(p') /\ part' \in Parts /\ body' \in 0..MaxLen
    BY <1>3, <1>6, <1>7, <1>8, Types DEF PartTypes, Parts
  <2> QED BY <1>3, <1>4, <2>1, Types, TypesNext DEF PartTypes, NetTypes, netVars
<1>10. WireInv' /\ FramesIntact'
  BY <1>4, SameWire, SameDelivered DEF Inv, netVars
<1>11. SortedInv(base, db)' /\ Current(base, db)' = Current(base, db)
  BY <1>1, <1>4 DEF At, SortedInv, Current, netVars
<1>12. PlaceInv(g)' /\ PartInv(g)'
  <2>1. CASE frames[g].marker /\ part' = "body" /\ body' = 0 /\ p' = Write(Clear, len)
    <3>1. Taken' = Taken
      BY <1>4, <1>5, <2>1 DEF Taken
    <3>2. PlaceInv(g)'
      BY <1>3, <1>4, <3>1 DEF PlaceInv, Follows, netVars
    <3>3. PartInv(g)'
      BY <1>4, <1>5, <1>6, <1>8, <2>1 DEF PartInv, netVars
    <3> QED BY <3>2, <3>3
  <2>2. CASE part' = "error"
    BY <2>2 DEF PlaceInv, PartInv
  <2> QED BY <1>7, <2>1, <2>2
<1>13. At(base, db)'
  BY <1>2, <1>11, <1>12 DEF At, PlaceInv, PartInv, Follows
<1> QED BY <1>1, <1>9, <1>10, <1>13 DEF Inv

\* The place of an element, when those of its connection are the ones behind
\* base.
LEMMA PlaceIs ==
  ASSUME NEW s, NEW i \in Nat, NEW base \in 0..i,
         \A j \in 1..i : s[j].c = s[i].c <=> j > base
  PROVE  Place(s, i) = i - base
<1>1. {j \in 1..i : s[j].c = s[i].c} = (base + 1)..i
  OBVIOUS
<1>2. Cardinality((base + 1)..i) = i - base
  <2>1. base + 1 \in Int /\ i \in Int
    OBVIOUS
  <2>2. Cardinality((base + 1)..i) = IF base + 1 > i THEN 0 ELSE i - (base + 1) + 1
    BY <2>1, FS_Interval
  <2> QED BY <2>2
<1> QED BY <1>1, <1>2 DEF Place

\* What begin() leaves of the body is what FramesIntact says.
LEMMA BodyIs ==
  ASSUME TypeOK, NEW g, PartInv(g), part = "body", Missing = 0
  PROVE  Begin(p).d = Body(g) /\ Sound(Begin(p))
<1>1. /\ g \in DOMAIN frames /\ Len(p.d) = frames[g].len /\ header # <<>>
      /\ header[1] = [f |-> g, i |-> 1]
      /\ \A j \in 1..body : p.d[j] = [f |-> g, i |-> HeaderUnits + j]
  BY DEF PartInv
<1>2. PICK len \in Nat : /\ len = frames[g].len /\ len \in 0..MaxLen /\ Len(p.d) = len
                         /\ HeaderUnits \in Nat /\ body \in Nat
  BY <1>1, Numbers
<1>3. body = len
  <2>1. Announced = frames[g]
    BY <1>1 DEF Announced
  <2>2. len - body = 0
    BY <1>2, <2>1 DEF Missing
  <2> QED BY <1>2, <2>2
<1>4. g \in 1..MaxFrames
  <2>1. header \in Seq(Units) /\ header # <<>>
    BY <1>1, Types DEF PartTypes
  <2>2. header[1] \in Units
    BY <2>1
  <2> QED BY <1>1, <2>2 DEF Units
<1>5. /\ Sound(p) /\ p.d \in Seq(Bytes) /\ 0 \in 0..SizeMax /\ Begin(p) = Pos(p, 0)
  BY Types, PacketAssumption DEF PartTypes, Sound, Packets, Begin
<1>6. Sound(Begin(p)) /\ Begin(p).d = IF 0 >= Len(p.d) THEN Resized(p.d, 0 + 1) ELSE p.d
  BY <1>5, PosIs
<1>7. CASE len = 0
  <2>1. Begin(p).d = Resized(p.d, 1)
    BY <1>2, <1>6, <1>7
  <2>2. Resized(p.d, 1) = [i \in 1..1 |-> Zero]
    BY <1>2, <1>7 DEF Resized
  <2>3. [i \in 1..1 |-> Zero] = <<Zero>>
    OBVIOUS
  <2>4. Body(g) = <<Zero>>
    BY <1>2, <1>7 DEF Body
  <2> QED BY <1>6, <2>1, <2>2, <2>3, <2>4
<1>8. CASE len # 0
  <2> DEFINE u == UnitsOf(g, len)
             b == SubSeq(u, HeaderUnits + 1, HeaderUnits + len)
  <2>1. Begin(p).d = p.d /\ Body(g) = b
    BY <1>2, <1>6, <1>8 DEF Body
  <2>2. /\ u \in Seq(Units) /\ Len(u) = HeaderUnits + len
        /\ \A i \in 1..(HeaderUnits + len) : u[i].f = g /\ u[i].i = i
    BY <1>2, <1>4, UnitsOfIs
  <2> HIDE DEF u
  <2>3. /\ b \in Seq(Units) /\ Len(b) = len
        /\ \A j \in 1..len : b[j] = u[HeaderUnits + j]
    <3>1. HeaderUnits + 1 \in 1..(Len(u) + 1) /\ HeaderUnits + len \in 0..Len(u)
      BY <1>2, <2>2
    <3> DEFINE m == HeaderUnits + 1
               n == HeaderUnits + len
    <3>2. m \in 1..(Len(u) + 1) /\ n \in 0..Len(u)
      BY <3>1
    <3>3. m <= n /\ n - m + 1 = len /\ (\A j \in 1..len : m + j - 1 = HeaderUnits + j)
      BY <1>2, <1>8
    <3> HIDE DEF m, n
    <3>4. /\ SubSeq(u, m, n) \in Seq(Units)
          /\ Len(SubSeq(u, m, n)) = IF m <= n THEN n - m + 1 ELSE 0
          /\ \A i \in 1..(n - m + 1) : SubSeq(u, m, n)[i] = u[m + i - 1]
      BY <2>2, <3>2, SubSeqAt
    <3>5. b = SubSeq(u, m, n)
      BY DEF m, n
    <3> HIDE DEF b
    <3> QED BY <3>3, <3>4, <3>5
  <2> HIDE DEF b
  <2>4. ASSUME NEW j \in 1..len
        PROVE  p.d[j] = b[j]
    <3>1. HeaderUnits + j \in 1..(HeaderUnits + len) /\ HeaderUnits + j \in 1..Len(u)
      BY <1>2, <2>2
    <3>2. u[HeaderUnits + j].f = g /\ u[HeaderUnits + j].i = HeaderUnits + j /\ u[HeaderUnits + j] \in Units
      BY <2>2, <3>1
    <3>3. u[HeaderUnits + j] = [f |-> g, i |-> HeaderUnits + j]
      BY <3>2 DEF Units
    <3>4. p.d[j] = [f |-> g, i |-> HeaderUnits + j]
      BY <1>1, <1>3
    <3> QED BY <2>3, <3>3, <3>4
  <2>5. p.d = b
    <3>1. b \in Seq(Bytes)
      <4>1. Units \subseteq Bytes
        BY DEF Bytes
      <4> QED BY <2>3, <4>1
    <3> QED BY <1>2, <1>5, <2>3, <2>4, <3>1, SameElements
  <2> QED BY <1>6, <2>1, <2>5
<1> QED BY <1>7, <1>8

LEMMA Receive3Keeps ==
  ASSUME Inv, Receive3
  PROVE  Inv'
<1>1. PICK base \in Nat, db \in Nat : At(base, db)
  BY DEF Inv
<1>2. PICK g : g = Current(base, db)
  OBVIOUS
<1>3. TypeOK /\ PlaceInv(g) /\ PartInv(g) /\ SortedInv(base, db)
  BY <1>1, <1>2 DEF Inv, At
<1>4. PICK e : e = [c |-> conn, d |-> Begin(p).d]
  OBVIOUS
<1>5. /\ part = "body" /\ Missing = 0 /\ UNCHANGED netVars /\ p' = Begin(p) /\ part' = "callback"
      /\ delivered' = Append(delivered, e) /\ header' = header /\ body' = body
      /\ ops' = 0 /\ ptr' = Nothing
  BY <1>4 DEF Receive3
<1>6. Begin(p).d = Body(g) /\ Sound(Begin(p))
  BY <1>3, <1>5, BodyIs
<1>7. PICK nf \in Nat, nd \in Nat :
        /\ nf = Len(frames) /\ nd = Len(delivered) /\ DOMAIN frames = 1..nf /\ DOMAIN delivered = 1..nd
        /\ base \in 0..nf /\ db \in 0..nd /\ delivered \in Seq(Deliveries)
  BY <1>3, Numbers, Types DEF SortedInv
<1>8. e \in Deliveries /\ e.c = conn /\ e.d = Body(g)
  <2>1. Begin(p).d \in Seq(Units \cup {Zero}) /\ conn \in 1..MaxConns
    BY <1>3, <1>6, Types DEF NetTypes, Sound, Packets, Bytes
  <2> QED BY <1>4, <1>6, <2>1 DEF Deliveries
<1>9. /\ delivered' \in Seq(Deliveries) /\ Len(delivered') = nd + 1 /\ DOMAIN delivered' = 1..(nd + 1)
      /\ delivered'[nd + 1] = e
      /\ \A i \in 1..nd : delivered'[i] = delivered[i]
  <2>1. /\ delivered' \in Seq(Deliveries) /\ Len(delivered') = nd + 1 /\ delivered'[nd + 1] = e
        /\ \A i \in 1..nd : delivered'[i] = delivered[i]
    BY <1>5, <1>7, <1>8, AppendAt
  <2> QED BY <2>1
<1>10. TypeOK'
  <2>1. 0 \in 0..MaxOps /\ Nothing \in [at : 0..SizeMax, n : 0..MaxLen]
    BY StreamAssumption, PacketAssumption DEF Nothing
  <2> QED BY <1>3, <1>5, <1>6, <1>9, <2>1, Types, TypesNext DEF PartTypes, NetTypes, netVars, Parts
<1>11. WireInv'
  BY <1>5, SameWire DEF Inv
<1>12. g \in 1..nf /\ frames[g].marker /\ g = (base + (nd - db)) + 1
  BY <1>2, <1>3, <1>5, <1>7 DEF PartInv, Current
<1>13. /\ \A f \in 1..nf : frames[f].c <= conn /\ (frames[f].c = conn <=> f > base)
       /\ \A i \in 1..nd : delivered[i].c <= conn /\ (delivered[i].c = conn <=> i > db)
  BY <1>3, <1>7 DEF SortedInv
<1>14. \A i \in 1..(nd + 1) : delivered'[i].c <= conn /\ (delivered'[i].c = conn <=> i > db)
  <2> SUFFICES ASSUME NEW i \in 1..(nd + 1)
               PROVE  delivered'[i].c <= conn /\ (delivered'[i].c = conn <=> i > db)
    OBVIOUS
  <2>1. CASE i = nd + 1
    <3>1. delivered'[i].c = conn /\ i > db /\ conn \in Nat
      BY <1>3, <1>7, <1>8, <1>9, <2>1, Numbers
    <3> QED BY <3>1
  <2>2. CASE i # nd + 1
    <3>1. i \in 1..nd
      BY <2>2
    <3> QED BY <1>9, <1>13, <3>1
  <2> QED BY <2>1, <2>2
<1>15. FramesIntact'
  <2> SUFFICES ASSUME NEW i \in 1..(nd + 1)
               PROVE  \E f \in DOMAIN frames :
                        /\ frames[f].c = delivered'[i].c /\ Place(frames, f) = Place(delivered', i)
                        /\ frames[f].marker /\ delivered'[i].d = Body(f)
    <3>1. frames' = frames /\ DOMAIN delivered' = 1..(nd + 1)
      BY <1>5, <1>9 DEF netVars
    <3> QED BY <3>1 DEF FramesIntact, Place, Body
  <2>1. CASE i # nd + 1
    <3>1. i \in 1..nd /\ delivered'[i] = delivered[i]
      BY <1>9, <2>1
    <3>2. Place(delivered', i) = Place(delivered, i)
      BY <1>5, <1>7, <1>8, <3>1, PlaceAppend
    <3>3. \E f \in DOMAIN frames :
            /\ frames[f].c = delivered[i].c /\ Place(frames, f) = Place(delivered, i)
            /\ frames[f].marker /\ delivered[i].d = Body(f)
      BY <1>7, <3>1 DEF Inv, FramesIntact
    <3> QED BY <3>1, <3>2, <3>3
  <2>2. CASE i = nd + 1
    <3>1. g \in Nat /\ g > base /\ frames[g].c = conn
      BY <1>7, <1>12, <1>13
    <3>2. Place(frames, g) = g - base
      <4>1. base \in 0..g
        BY <1>7, <3>1
      <4>2. \A j \in 1..g : frames[j].c = frames[g].c <=> j > base
        BY <1>7, <1>12, <1>13, <3>1
      <4> QED BY <3>1, <4>1, <4>2, PlaceIs
    <3>3. Place(delivered', nd + 1) = (nd + 1) - db
      <4>1. nd + 1 \in Nat /\ db \in 0..(nd + 1)
        BY <1>7
      <4>2. delivered'[nd + 1].c = conn
        BY <1>8, <1>9
      <4>3. \A j \in 1..(nd + 1) : delivered'[j].c = delivered'[nd + 1].c <=> j > db
        BY <1>14, <4>2
      <4> DEFINE n == nd + 1
      <4>4. n \in Nat /\ db \in 0..n /\ \A j \in 1..n : delivered'[j].c = delivered'[n].c <=> j > db
        BY <4>1, <4>3
      <4> HIDE DEF n
      <4>5. Place(delivered', n) = n - db
        BY <4>4, PlaceIs
      <4> QED BY <4>5 DEF n
    <3>4. g - base = (nd + 1) - db
      BY <1>7, <1>12
    <3> QED BY <1>7, <1>8, <1>9, <1>12, <2>2, <3>1, <3>2, <3>3, <3>4
  <2> QED BY <2>1, <2>2
<1>16. SortedInv(base, db)'
  <2>1. db \in 0..(nd + 1) /\ base + ((nd + 1) - db) <= nf
    BY <1>7, <1>12
  <2>2. conn' = conn /\ frames' = frames
    BY <1>5 DEF netVars
  <2> QED BY <1>7, <1>9, <1>13, <1>14, <2>1, <2>2 DEF SortedInv
<1>17. Current(base, db)' = g + 1
  <2>1. (base + ((nd + 1) - db)) + 1 = g + 1
    BY <1>7, <1>12
  <2> QED BY <1>9, <2>1 DEF Current
<1>18. PlaceInv(g + 1)'
  <2>1. PICK k : k = Taken
    OBVIOUS
  <2>2. k \in Nat /\ k # 0 /\ ~(k < HeaderUnits + frames[g].len)
    <3>1. Announced = frames[g] /\ frames[g].len \in Nat /\ body \in Nat /\ HeaderUnits \in Nat
          /\ HeaderUnits > 0
      BY <1>3, <1>5, <1>7, <1>12, Numbers DEF Announced, PartInv
    <3>2. frames[g].len - body = 0
      BY <1>5, <3>1 DEF Missing
    <3>3. k = HeaderUnits + body
      BY <1>5, <2>1 DEF Taken
    <3> QED BY <3>1, <3>2, <3>3
  <2>3. \A u : Follows(u, g, k) => Follows(u, g + 1, 0)
    BY <2>2 DEF Follows
  <2>4. Taken' = 0
    BY <1>5 DEF Taken
  <2>5. /\ wire # <<>> => Follows(wire[1], g + 1, 0)
        /\ wire = <<>> /\ ~ended => Follows([f |-> Len(frames) + 1, i |-> 1], g + 1, 0)
    BY <1>3, <1>5, <2>1, <2>3 DEF PlaceInv
  <2> QED BY <1>5, <2>4, <2>5 DEF PlaceInv, Follows, netVars
<1>19. PartInv(g + 1)'
  BY <1>5 DEF PartInv
<1>20. At(base, db)'
  BY <1>16, <1>17, <1>18, <1>19 DEF At, PlaceInv, PartInv, Follows
<1> QED BY <1>1, <1>10, <1>11, <1>15, <1>20 DEF Inv

-----------------------------------------------------------------------------
(* The theorems.                                                           *)

LEMMA StutterHolds ==
  ASSUME Inv, UNCHANGED vars
  PROVE  Inv'
<1>1. UNCHANGED netVars
  BY DEF vars, netVars
<1>2. TypeOK'
  BY Types, TypesNext DEF Inv, vars, PartTypes, NetTypes
<1>3. WireInv' /\ FramesIntact'
  BY <1>1, SameWire, SameDelivered DEF Inv, vars
<1>4. PICK base \in Nat, db \in Nat : At(base, db)
  BY DEF Inv
<1>5. At(base, db)'
  BY <1>4 DEF At, SortedInv, PlaceInv, PartInv, Current, Follows, Taken, vars
<1> QED BY <1>2, <1>3, <1>4, <1>5 DEF Inv

LEMMA NextHolds ==
  ASSUME Inv, [Next]_vars
  PROVE  Inv'
<1>1. CASE Peer
  BY <1>1, PeerWritesKeeps, PeerEndsKeeps DEF Peer
<1>2. CASE Receiver
  BY <1>2, ReadSomeKeeps, ReadFailsKeeps, Receive1Keeps, Receive2Keeps, Receive3Keeps DEF Receiver
<1>3. CASE Reconnect
  BY <1>3, ReconnectKeeps
<1>4. CASE Application
  BY <1>4, ApplicationKeeps
<1>5. CASE UNCHANGED vars
  BY <1>5, StutterHolds
<1> QED BY <1>1, <1>2, <1>3, <1>4, <1>5 DEF Next

\* Every variable keeps its type: the cursor of p is inside p or at the end of
\* size_t (receive1 to receive3, amjCom::Packet).
THEOREM TypeCorrect == Spec => []TypeOK
<1>1. Inv => TypeOK
  BY DEF Inv
<1> QED BY InitHolds, NextHolds, <1>1, PTL DEF Spec

\* The n-th packet of a connection is its n-th frame, complete and with the
\* marker, whatever the lengths, the reads, the ends of connections and the use of
\* p are (receive1 to receive3).
THEOREM PacketsAreFrames == Spec => []FramesIntact
<1>1. Inv => FramesIntact
  BY DEF Inv
<1> QED BY InitHolds, NextHolds, <1>1, PTL DEF Spec

-----------------------------------------------------------------------------
(* What write() and read() give.                                           *)

\* The cursor is where that many operations can have moved it, each by at most
\* MaxLen bytes; resize(0) puts it at SizeMax.
CursorInv == part = "callback" => p.p = SizeMax \/ p.p <= MaxLen * ops

LEMMA Products ==
  /\ MaxLen \in Nat /\ MaxOps \in Nat
  /\ \A a \in Nat : /\ MaxLen * a \in Nat /\ MaxLen * (a + 1) = MaxLen * a + MaxLen
                    /\ a <= MaxOps => MaxLen * a <= MaxLen * MaxOps
<1>1. MaxLen \in Nat /\ MaxOps \in Nat
  BY StreamAssumption
<1>2. \A a \in Nat : MaxLen * a \in Nat /\ MaxLen * (a + 1) = MaxLen * a + MaxLen
  BY <1>1
<1>3. ASSUME NEW a \in Nat, a <= MaxOps
      PROVE  MaxLen * a <= MaxLen * MaxOps
  BY <1>1, <1>3
<1> QED BY <1>1, <1>2, <1>3

\* One operation of the application: where the cursor is afterwards, and what
\* write() and read() gave.
LEMMA OperationIs ==
  ASSUME TypeOK, CursorInv, Application, MaxLen * MaxOps <= SizeMax
  PROVE  /\ p'.p = SizeMax \/ p'.p <= MaxLen * (ops + 1)
         /\ p.p = SizeMax \/ ptr'.at + ptr'.n <= Size(p')
<1> DEFINE m == MaxLen * (ops + 1)
<1>1. /\ Sound(p) /\ p.p \in Nat /\ Size(p) \in Nat /\ p.p <= SizeMax /\ SizeMax \in Nat
      /\ SizeMax > 0 /\ Len(p.d) \in Nat
  BY Types, PacketAssumption DEF PartTypes, Sound, Packets, Size
<1>2. ops \in Nat /\ ops + 1 <= MaxOps /\ part = "callback"
  <2>1. ops \in 0..MaxOps /\ MaxOps \in Nat
    BY Types, StreamAssumption DEF PartTypes
  <2>2. ops < MaxOps /\ part = "callback"
    BY DEF Application, AppClears, AppResizes, AppSeeks, AppWrites, AppReads, Operates
  <2> QED BY <2>1, <2>2
<1>3. m \in Nat /\ m = MaxLen * ops + MaxLen /\ m <= SizeMax /\ MaxLen <= m /\ MaxLen \in Nat
  <2>1. MaxLen * ops \in Nat /\ ops + 1 \in Nat
    BY <1>2, Products
  <2>2. m = MaxLen * ops + MaxLen /\ m <= MaxLen * MaxOps /\ MaxLen * MaxOps \in Nat /\ MaxLen \in Nat
    BY <1>2, <2>1, Products
  <2> HIDE DEF m
  <2> QED BY <1>1, <2>1, <2>2
<1>4. p.p = SizeMax \/ p.p <= MaxLen * ops
  BY <1>2 DEF CursorInv
<1> HIDE DEF m
<1>5. ASSUME NEW n \in 0..MaxLen
      PROVE  /\ n \in 0..SizeMax /\ n <= m
             /\ Wrap(p.p + n) = SizeMax \/ Wrap(p.p + n) <= m
             /\ p.p = SizeMax \/ Wrap(p.p + n) = p.p + n
  <2>1. n \in Nat /\ n <= MaxLen /\ n <= SizeMax /\ p.p + n \in Nat
    BY <1>1, <1>3
  <2>2. CASE p.p = SizeMax
    <3>1. n > 0 => Wrap(p.p + n) = p.p + n - SizeMax - 1
      BY <1>1, <2>1, <2>2, WrapIs
    <3>2. n = 0 => Wrap(p.p + n) = SizeMax
      BY <1>1, <2>1, <2>2, WrapIs
    <3>3. n > 0 => p.p + n - SizeMax - 1 <= m
      BY <1>1, <1>3, <2>1, <2>2
    <3> QED BY <1>3, <2>1, <2>2, <3>1, <3>2, <3>3
  <2>3. CASE p.p # SizeMax
    <3>1. p.p + n <= m
      <4>1. PICK x \in Int : x = MaxLen * ops
        BY <1>2, Products
      <4> QED BY <1>1, <1>3, <1>4, <2>1, <2>3, <4>1
    <3>2. p.p + n <= SizeMax
      BY <1>1, <1>3, <2>1, <3>1
    <3> QED BY <1>1, <1>3, <2>1, <3>1, <3>2, WrapIs
  <2> QED BY <2>2, <2>3
<1>6. Nothing.at + Nothing.n = 0
  BY DEF Nothing
<1>7. ASSUME NEW k, Sound(k), NEW span, Operates(k, span), k.p = SizeMax \/ k.p <= m,
             p.p = SizeMax \/ span.at + span.n <= Size(k)
      PROVE  /\ p'.p = SizeMax \/ p'.p <= m
             /\ p.p = SizeMax \/ ptr'.at + ptr'.n <= Size(p')
  BY <1>7 DEF Operates
<1>8. \A k : Sound(k) => Size(k) \in Nat /\ Nothing.at + Nothing.n <= Size(k)
  BY <1>6 DEF Sound, Packets, Size
<1>9. CASE AppClears
  <2> DEFINE k == Clear
  <2>1. Sound(k) /\ k.p <= m
    BY <1>3, ClearIs
  <2>2. Operates(k, Nothing) /\ Nothing.at + Nothing.n <= Size(k)
    BY <1>8, <1>9, <2>1 DEF AppClears
  <2> HIDE DEF k
  <2> QED BY <1>7, <2>1, <2>2 DEF m
<1>10. ASSUME NEW n \in 0..MaxLen, AppResizes(n)
       PROVE  /\ p'.p = SizeMax \/ p'.p <= m
              /\ p.p = SizeMax \/ ptr'.at + ptr'.n <= Size(p')
  <2>1. Sound(Resize(p, n)) /\ (Resize(p, n).p = SizeMax \/ Resize(p, n).p <= n)
    BY <1>1, <1>5, ResizeIs
  <2>2. Resize(p, n).p \in Nat
    BY <2>1, PacketAssumption DEF Sound, Packets
  <2>3. Resize(p, n).p = SizeMax \/ Resize(p, n).p <= m
    BY <1>3, <1>5, <2>1, <2>2
  <2> QED BY <1>7, <1>8, <1>10, <2>1, <2>3 DEF AppResizes
<1>11. ASSUME NEW n \in 0..MaxLen, AppSeeks(n)
       PROVE  /\ p'.p = SizeMax \/ p'.p <= m
              /\ p.p = SizeMax \/ ptr'.at + ptr'.n <= Size(p')
  <2>1. Sound(Pos(p, n)) /\ Pos(p, n).p = n
    BY <1>1, <1>5, PosIs
  <2> QED BY <1>5, <1>7, <1>8, <1>11, <2>1 DEF AppSeeks
<1>12. ASSUME NEW n \in 0..MaxLen, AppWrites(n)
       PROVE  /\ p'.p = SizeMax \/ p'.p <= m
              /\ p.p = SizeMax \/ ptr'.at + ptr'.n <= Size(p')
  <2>1. /\ Sound(Write(p, n)) /\ Write(p, n).p = Wrap(p.p + n)
        /\ Wrap(p.p + n) <= Size(Write(p, n))
    BY <1>1, <1>5, WriteIs DEF Size
  <2> DEFINE span == [at |-> p.p, n |-> n]
  <2>2. span.at = p.p /\ span.n = n /\ Operates(Write(p, n), span)
    BY <1>12 DEF AppWrites
  <2>3. p.p = SizeMax \/ span.at + span.n <= Size(Write(p, n))
    BY <1>5, <2>1, <2>2
  <2> HIDE DEF span
  <2> QED BY <1>5, <1>7, <2>1, <2>2, <2>3
<1>13. ASSUME NEW n \in 0..MaxLen, AppReads(n)
       PROVE  /\ p'.p = SizeMax \/ p'.p <= m
              /\ p.p = SizeMax \/ ptr'.at + ptr'.n <= Size(p')
  <2>1. /\ Sound(Read(p, n)) /\ Read(p, n).d = p.d
        /\ Readable(p, n) => Wrap(p.p + n) <= Len(p.d) /\ Read(p, n).p = Wrap(p.p + n)
        /\ ~Readable(p, n) => Read(p, n) = p
    BY <1>1, <1>5, ReadIs
  <2>2. Read(p, n).p = SizeMax \/ Read(p, n).p <= m
    <3>1. p.p = SizeMax \/ p.p <= m
      <4>1. PICK x \in Nat : x = MaxLen * ops
        BY <1>2, Products
      <4> QED BY <1>1, <1>3, <1>4, <4>1
    <3> QED BY <1>5, <2>1, <3>1
  <2>3. CASE Readable(p, n)
    <3> DEFINE span == [at |-> p.p, n |-> n]
    <3>1. span.at = p.p /\ span.n = n /\ Operates(Read(p, n), span)
      BY <1>13, <2>3 DEF AppReads
    <3>2. p.p = SizeMax \/ span.at + span.n <= Size(Read(p, n))
      BY <1>5, <2>1, <2>3, <3>1 DEF Size
    <3> HIDE DEF span
    <3> QED BY <1>7, <2>1, <2>2, <3>1, <3>2
  <2>4. CASE ~Readable(p, n)
    <3>1. Operates(Read(p, n), Nothing)
      BY <1>13, <2>4 DEF AppReads
    <3> QED BY <1>7, <1>8, <2>1, <2>2, <3>1
  <2> QED BY <2>3, <2>4
<1> QED BY <1>9, <1>10, <1>11, <1>12, <1>13 DEF Application, m

LEMMA CursorNext ==
  ASSUME TypeOK, CursorInv, [Next]_vars, MaxLen * MaxOps <= SizeMax
  PROVE  /\ CursorInv'
         /\ ops' = ops + 1 => ptr'.at + ptr'.n <= Size(p') \/ p.p = SizeMax
<1>1. ops \in Nat /\ ops # ops + 1 /\ 0 # ops + 1
  <2>1. ops \in Nat
    BY Types, StreamAssumption DEF PartTypes
  <2> QED BY <2>1
<1>2. CASE Application
  <2>1. ops' = ops + 1
    BY <1>2 DEF Application, AppClears, AppResizes, AppSeeks, AppWrites, AppReads, Operates
  <2> QED BY <1>2, <2>1, OperationIs DEF CursorInv
<1>3. CASE Receive3
  <2>1. ops' = 0 /\ p' = Pos(p, 0) /\ 0 \in 0..SizeMax /\ Sound(p)
    BY <1>3, Types, PacketAssumption DEF Receive3, Begin, PartTypes
  <2>2. p'.p = 0
    BY <2>1, PosIs
  <2>3. MaxLen * 0 = 0
    BY StreamAssumption
  <2> QED BY <1>1, <2>1, <2>2, <2>3 DEF CursorInv
<1>4. CASE Peer \/ ReadFails \/ Receive1 \/ Receive2 \/ Reconnect \/ (\E n \in 1..(HeaderUnits + MaxLen) : ReadSome(n))
           \/ UNCHANGED vars
  <2>1. ops' = ops
    BY <1>4 DEF Peer, PeerWrites, PeerEnds, ReadFails, Receive1, Receive2, Reconnect, ReadSome, vars
  <2>2. part' = "callback" => part = "callback" /\ p' = p
    BY <1>4 DEF Peer, PeerWrites, PeerEnds, ReadFails, Receive1, Receive2, Reconnect, ReadSome, vars
  <2> QED BY <1>1, <2>1, <2>2 DEF CursorInv
<1> QED BY <1>2, <1>3, <1>4 DEF Next, Receiver

\* What write() and read() of the application give lies inside the packet unless
\* the cursor is at the end of size_t, where resize(0) puts it, as long as the
\* operations of one callback cannot bring it there (amjCom::Packet).
THEOREM PointersStayInside ==
  ASSUME MaxLen * MaxOps <= SizeMax
  PROVE  Spec => PointersInside
<1>1. Init => CursorInv
  BY DEF Init, CursorInv
<1>2. Inv /\ CursorInv /\ [Next]_vars => CursorInv'
  BY CursorNext DEF Inv
<1>3. Inv /\ CursorInv /\ [Next]_vars =>
        [ops' = ops + 1 => ptr'.at + ptr'.n <= Size(p') \/ p.p = SizeMax]_vars
  BY CursorNext DEF Inv
<1> QED BY InitHolds, NextHolds, <1>1, <1>2, <1>3, PTL DEF Spec, PointersInside
=============================================================================
