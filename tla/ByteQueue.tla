----------------------------- MODULE ByteQueue -----------------------------
(***************************************************************************)
(* What a receive buffer promises its reader: bytes come out in the order  *)
(* they went in, none twice, and when more arrive than fit the oldest are  *)
(* dropped.  RingBuf and CanRxRing (with messages for bytes) implement it. *)
(***************************************************************************)
EXTENDS Naturals, Sequences

CONSTANT Capacity \* how many bytes it keeps

VARIABLES
  q,     \* the bytes kept, oldest first
  got,   \* what the reader's call has returned so far
  count  \* bytes received since the start; byte number i has value i

QueueInit == q = <<>> /\ got = <<>> /\ count = 0

\* A byte arrives.
Arrive ==
  /\ count' = count + 1
  /\ q' = Append(IF Len(q) = Capacity THEN Tail(q) ELSE q, count')
  /\ UNCHANGED got

\* A call of the reader starts, looks at the next byte, or takes it.
Begin == got' = <<>> /\ UNCHANGED <<q, count>>
Look  == /\ Len(got) < Len(q)
         /\ got' = Append(got, q[Len(got) + 1])
         /\ UNCHANGED <<q, count>>
Take  == /\ q # <<>>
         /\ got' = Append(got, Head(q)) /\ q' = Tail(q)
         /\ UNCHANGED count

\* The reader throws away a number of bytes it has looked at, or all of them.
Delete == /\ \E n \in 0 .. Len(q) : q' = SubSeq(q, n + 1, Len(q))
          /\ UNCHANGED <<got, count>>

QueueNext == Arrive \/ Begin \/ Look \/ Take \/ Delete

QueueSpec == QueueInit /\ [][QueueNext]_<<q, got, count>>
=============================================================================
