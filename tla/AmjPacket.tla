------------------------------ MODULE AmjPacket ------------------------------
(***************************************************************************)
(* amjPacket: bytes _d and a cursor offset, and the insertion and          *)
(* extraction of an int and of a string.  Operators only.  The unit is an  *)
(* int or a character: nothing in the code looks into either.              *)
(***************************************************************************)
EXTENDS Naturals, Sequences

CONSTANT Garbage   \* values of an int nobody has written to

ASSUME GarbageAssumption == Garbage \subseteq Nat /\ Garbage # {}

AmjPackets == [d : Seq(Nat), offset : Nat]

\* vector::resize fills up with zeros.
Fitted(d, n) == SubSeq(d \o [i \in 1..n |-> 0], 1, n)

\* Units put over those behind the first at, and behind the end if need be.
Over(d, at, us) == SubSeq(d, 1, at) \o us \o SubSeq(d, at + Len(us) + 1, Len(d))

Bound(k) == [k EXCEPT !.offset = IF @ < Len(k.d) THEN @ ELSE Len(k.d)]

Cleared      == [d |-> <<>>, offset |-> 0]
Resize(k, n) == Bound([k EXCEPT !.d = Fitted(@, n)])
Seek(k, o)   == Bound([k EXCEPT !.offset = o])

\* push() of units.
Push(k, us) == [d |-> Over(k.d, k.offset, us), offset |-> k.offset + Len(us)]

\* write(Len(us)), and memcpy to what it returns: the packet ends there.
\* Mutated: the packet keeps what is behind.
WriteKeepsRest(k, us) == Push(k, us)
Write(k, us) == [d |-> SubSeq(k.d, 1, k.offset) \o us, offset |-> k.offset + Len(us)]

\* pop(n) beyond the end leaves the cursor and the destination alone.
Pops(k, n)   == k.offset + n <= Len(k.d)
Popped(k, n) == SubSeq(k.d, k.offset + 1, k.offset + n)
After(k, n)  == IF Pops(k, n) THEN [k EXCEPT !.offset = @ + n] ELSE k

PopInt(k) == IF Pops(k, 1) THEN {k.d[k.offset + 1]} ELSE Garbage

\* operator<< of an int and a string.
Insert(k, number, text) == Push(Push(Push(k, <<number>>), <<Len(text)>>), text)

\* What pop(n) leaves in a destination of n zeros.
PopText(k, n) == IF Pops(k, n) THEN Popped(k, n) ELSE [j \in 1..n |-> 0]
=============================================================================
