------------------------------- MODULE Packet -------------------------------
(***************************************************************************)
(* amjCom::Packet: bytes with a cursor of type size_t.  Operators only; a   *)
(* module that keeps a packet EXTENDS this one.                            *)
(***************************************************************************)
EXTENDS Naturals, Sequences

CONSTANTS
  Zero,     \* the byte resize() fills with
  SizeMax   \* bound: the greatest size_t

ASSUME PacketAssumption == SizeMax \in Nat \ {0}

\* Sums and differences of a size_t wrap around.
Wrap(n) == n % (SizeMax + 1)

Packets(bytes) == [d : Seq(bytes), p : 0..SizeMax]
Size(k)        == Len(k.d)

\* The vector: cut off, or filled up.
Resized(d, n) == [i \in 1..n |-> IF i <= Len(d) THEN d[i] ELSE Zero]

Clear == [d |-> <<>>, p |-> 0]

\* A cursor behind the new end moves to the last byte; if there is none,
\* to SizeMax.
Resize(k, n) ==
  [d |-> Resized(k.d, n),
   p |-> IF k.p >= n THEN Wrap(n + SizeMax) ELSE k.p]

\* pos(n) makes room for a byte at n.
Pos(k, n) ==
  [d |-> IF n >= Size(k) THEN Resized(k.d, n + 1) ELSE k.d, p |-> n]

Begin(k) == Pos(k, 0)

\* Mutated: room is made only when the cursor is at the end.
WriteAtEndOnly(k, n) ==
  [d |-> IF k.p >= Size(k) THEN Resized(k.d, k.p + n) ELSE k.d, p |-> Wrap(k.p + n)]

\* write(n) makes room for n bytes at the cursor and moves it behind them.
Write(k, n) ==
  LET end == Wrap(k.p + n)
  IN [d |-> IF end > Size(k) THEN Resized(k.d, end) ELSE k.d, p |-> end]

\* read(n) moves the cursor n bytes, unless that is beyond the end.
Readable(k, n) == Wrap(k.p + n) <= Size(k)
Read(k, n) == IF Readable(k, n) THEN [k EXCEPT !.p = Wrap(@ + n)] ELSE k
=============================================================================
