----------------------------- MODULE TailBuffer -----------------------------
(***************************************************************************)
(* tailBuffer (process.go): what CombinedOutput keeps of the output of a   *)
(* command.  A byte is the position at which it was written, from 1.       *)
(***************************************************************************)
EXTENDS Sequences, Integers

CONSTANT Limit   \* the number of bytes kept

ASSUME TailBufferAssumption == Limit \in Nat \ {0}

Empty == [data |-> <<>>, truncated |-> FALSE]

\* Mutation: full is taken for truncated.
TailWriteAtLimit(b, p) ==
  LET n == Len(p)
      old == Len(b.data)
  IN CASE old + n < Limit -> [b EXCEPT !.data = @ \o p]
       [] old + n >= Limit /\ n >= Limit ->
            [data |-> SubSeq(p, n - Limit + 1, n), truncated |-> TRUE]
       [] OTHER -> [data |-> SubSeq(b.data, old + n - Limit + 1, old) \o p,
                    truncated |-> TRUE]

\* tailBuffer.Write: it accepts every byte.
TailWrite(b, p) ==
  LET n == Len(p)
      old == Len(b.data)
  IN CASE old + n <= Limit -> [b EXCEPT !.data = @ \o p]
       [] old + n > Limit /\ n >= Limit ->
            [data |-> SubSeq(p, n - Limit + 1, n), truncated |-> TRUE]
       [] OTHER -> [data |-> SubSeq(b.data, old + n - Limit + 1, old) \o p,
                    truncated |-> TRUE]

\* "...(truncated)..."
Marker == 0

\* What CombinedOutput returns.
Captured(b) == IF b.truncated THEN <<Marker>> \o b.data ELSE b.data
=============================================================================
