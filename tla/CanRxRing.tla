----------------------------- MODULE CanRxRing -----------------------------
(***************************************************************************)
(* The ring of received CAN messages between the interrupt handler, which  *)
(* stores them, and the can thread, which receives or clears them          *)
(* (drv_can.c).                                                            *)
(*                                                                         *)
(* The handler turns interrupts off; the thread does not, and the handler  *)
(* too moves the read index: when the ring is full.  So the thread's calls *)
(* are modelled load by load and store by store.  The structure is not     *)
(* volatile: the increment may use the index that was tested or load it    *)
(* again.  A message is its number; it is copied in two parts.             *)
(***************************************************************************)
EXTENDS Integers, Sequences

CONSTANTS
  SIZE,    \* CAN_RX_BUFFER_SIZE
  MaxMsgs  \* bound: how many messages arrive

ASSUME CanAssumption == SIZE \in Nat \ {0, 1} /\ MaxMsgs \in Nat

VARIABLES
  cells,   \* CANRxBuf
  read,    \* CanRx_Read: SIZE itself is possible between two statements
  write,   \* CanRx_Write
  count,   \* messages received so far
  pc,      \* where the thread is
  r,       \* the index it has loaded
  m,       \* the index it is going to store
  copy,    \* the two parts of what rt_memcpy has copied
  due,     \* history: <<the message the call is to return>>, or empty
  lapped   \* history: the handler has written the cell the call reads, by an
           \*   overrun or by a message on a ring that was empty at its load

thread == <<pc, r, m, copy, due>>
vars   == <<cells, read, write, count, thread, lapped>>

Index == 0 .. SIZE - 1
Messages == 0 .. MaxMsgs

\* The steps of stm32_CAN_recv, and of stm32_CAN_clear.
Receiving == {"test", "load", "store", "copy1", "copy2", "wrapLoad", "wrapStore"}
Clearing  == {"clear", "clearStore"}

TypeOK ==
  /\ cells \in [Index -> Messages] /\ count \in Messages
  /\ write \in Index /\ read \in 0 .. SIZE
  /\ pc \in Receiving \cup Clearing \cup {"idle", "done"}
  /\ pc \notin {"copy1", "copy2", "wrapLoad", "wrapStore"} => read \in Index
  /\ r \in Index /\ m \in 0 .. SIZE /\ (pc = "clearStore" => m \in Index)
  /\ copy \in [1 .. 2 -> Messages]
  /\ due \in Seq(Messages) /\ Len(due) <= 1
  /\ lapped \in BOOLEAN

\* bxcan_init: both indices are reset.
Init ==
  /\ cells = [i \in Index |-> 0] /\ read = 0 /\ write = 0 /\ count = 0
  /\ pc = "idle" /\ r = 0 /\ m = 0 /\ copy = [i \in 1 .. 2 |-> 0] /\ due = <<>>
  /\ lapped = FALSE
----------------------------------------------------------------------------
(* The interrupt handler *)

\* Mutant: the message is stored in the cell after the write index.
StoresAhead ==
  /\ count < MaxMsgs
  /\ count' = count + 1
  /\ cells' = [cells EXCEPT ![(write + 1) % SIZE] = count']
  /\ write' = (write + 1) % SIZE
  /\ read' = IF write' = read THEN (read + 1) % SIZE ELSE read
  /\ lapped' = (lapped \/ (pc \in Receiving /\ (write' = read \/ write = r)))
  /\ UNCHANGED thread

\* Mutant: the oldest message is not given up when the ring is full.
KeepsRead ==
  /\ count < MaxMsgs
  /\ count' = count + 1
  /\ cells' = [cells EXCEPT ![write] = count']
  /\ write' = (write + 1) % SIZE
  /\ lapped' = (lapped \/ (pc \in Receiving /\ (write' = read \/ write = r)))
  /\ UNCHANGED <<read, thread>>

\* One message of the loop of stm32_CAN_recv_isr.  A write index that meets the
\* read index pushes it on.
RecvIsr ==
  /\ count < MaxMsgs
  /\ count' = count + 1
  /\ cells' = [cells EXCEPT ![write] = count']
  /\ write' = (write + 1) % SIZE
  /\ read' = IF write' = read THEN (read + 1) % SIZE ELSE read
  /\ lapped' = (lapped \/ (pc \in Receiving /\ (write' = read \/ write = r)))
  /\ UNCHANGED thread
----------------------------------------------------------------------------
(* The thread: stm32_CAN_recv *)

\* Loads the read index for the test.
Recv ==
  /\ pc = "idle" /\ pc' = "test"
  /\ r' = read /\ due' = <<>>
  /\ UNCHANGED <<cells, read, write, count, m, copy, lapped>>

Test ==
  /\ pc = "test" /\ pc' = IF r = write THEN "done" ELSE "load"
  /\ UNCHANGED <<cells, read, write, count, r, m, copy, due, lapped>>

\* CanRx_Read++: a load, and a store of what was loaded plus one.
Load ==
  /\ pc = "load" /\ pc' = "store"
  /\ r' \in {r, read}
  /\ due' = <<cells[r']>>
  /\ UNCHANGED <<cells, read, write, count, m, copy, lapped>>

Store ==
  /\ pc = "store" /\ pc' = "copy1"
  /\ read' = r + 1
  /\ UNCHANGED <<cells, write, count, r, m, copy, due, lapped>>

\* Mutant: the second part is read through the index, which has moved on.
CopyThroughIndex(i) ==
  /\ pc = (IF i = 1 THEN "copy1" ELSE "copy2")
  /\ pc' = IF i = 1 THEN "copy2" ELSE "wrapLoad"
  /\ copy' = [copy EXCEPT ![i] = cells[IF i = 1 THEN r ELSE read % SIZE]]
  /\ UNCHANGED <<cells, read, write, count, r, m, due, lapped>>

\* rt_memcpy.
Copy(i) ==
  /\ pc = (IF i = 1 THEN "copy1" ELSE "copy2")
  /\ pc' = IF i = 1 THEN "copy2" ELSE "wrapLoad"
  /\ copy' = [copy EXCEPT ![i] = cells[r]]
  /\ UNCHANGED <<cells, read, write, count, r, m, due, lapped>>

\* CanRx_Read %= CAN_RX_BUFFER_SIZE: again a load and a store.
WrapLoad ==
  /\ pc = "wrapLoad" /\ pc' = "wrapStore"
  /\ m' = read
  /\ UNCHANGED <<cells, read, write, count, r, copy, due, lapped>>

\* Mutant: the read index wraps one cell late.
WrapStoreLate ==
  /\ pc = "wrapStore" /\ pc' = "done"
  /\ read' = m % (SIZE + 1)
  /\ UNCHANGED <<cells, write, count, r, m, copy, due, lapped>>

WrapStore ==
  /\ pc = "wrapStore" /\ pc' = "done"
  /\ read' = m % SIZE
  /\ UNCHANGED <<cells, write, count, r, m, copy, due, lapped>>

Return ==
  /\ pc = "done" /\ pc' = "idle" /\ lapped' = FALSE
  /\ UNCHANGED <<cells, read, write, count, r, m, copy, due>>
----------------------------------------------------------------------------
(* The thread: stm32_CAN_clear *)

Clear ==
  \/ pc = "idle" /\ pc' = "clear" /\ UNCHANGED <<cells, read, write, count, r, m, copy, due, lapped>>
  \/ pc = "clear" /\ pc' = "clearStore" /\ m' = write
     /\ UNCHANGED <<cells, read, write, count, r, copy, due, lapped>>
  \/ pc = "clearStore" /\ pc' = "idle" /\ read' = m
     /\ UNCHANGED <<cells, write, count, r, m, copy, due, lapped>>
----------------------------------------------------------------------------
ThreadNext == Recv \/ Test \/ Load \/ Store \/ (\E i \in 1 .. 2 : Copy(i))
              \/ WrapLoad \/ WrapStore \/ Return \/ Clear

Next == RecvIsr \/ ThreadNext

Spec == Init /\ [][Next]_vars
----------------------------------------------------------------------------
(* What must hold *)

\* Every cell holds the newest message that can be in it; until the handler
\* wraps for the first time, count = write.
Filled ==
  /\ count = write \/ count - write >= SIZE
  /\ \A i \in Index :
       IF i < write THEN cells[i] = count - write + i + 1
       ELSE count # write => cells[i] = count - write + i + 1 - SIZE

\* And until then no index the thread holds is ahead of the handler.
Behind == count = write =>
  /\ read <= write
  /\ pc \in {"test", "load", "store"} => r = read
  /\ pc \in {"load", "store"} => r < write
  /\ pc \in {"wrapStore", "clearStore"} => m <= write

\* A call under which the ring is not overrun keeps the message it is to return.
Kept == ~lapped =>
  /\ pc = "test" => due = <<>>
  /\ pc \in {"store", "copy1", "copy2"} => due = <<cells[r]>>
  /\ pc \in {"copy2", "wrapLoad", "wrapStore", "done"} /\ due # <<>> => copy[1] = due[1]
  /\ pc \in {"wrapLoad", "wrapStore", "done"} /\ due # <<>> => copy[2] = due[1]

\* How many messages there are from the index f up to the index t.
Length(f, t) == (SIZE + t - f) % SIZE

\* The indices of a call under which the ring is not overrun are those of the
\* ring, and clearing never moves the read index back.
Held ==
  /\ ~lapped =>
       /\ pc \in {"test", "load", "store"} => r = read
       /\ pc \in {"load", "store"} => r # write
       /\ pc = "load" => due = <<>>
       /\ pc \in {"copy1", "copy2", "wrapLoad", "wrapStore"} => read = r + 1
       /\ pc = "wrapStore" => m = read
  /\ pc = "clearStore" => Length(m, write) <= Length(read, write)

\* Why the ring is in order after every call, and why a call that is not overrun
\* gets its oldest message.
OrderInv == TypeOK /\ Filled /\ Behind /\ Kept
CanInv   == OrderInv /\ Held

\* The messages from the read index up to the write index, oldest first.  The
\* one a call is about to step over is the call's.
From == IF pc = "store" THEN (r + 1) % SIZE ELSE read % SIZE
Contents == [i \in 1 .. Length(From, write) |-> cells[(From + i - 1) % SIZE]]

\* drv_can.c:309-325 against 413-497: between calls the ring holds the newest
\* messages, each once and in the order they came, even if the handler overran
\* it in the middle of a call, when updates of the index get lost.  How many
\* there are is another matter: after such a call it may look empty.
RestsInOrder ==
  pc = "idle" => \A i \in DOMAIN Contents : Contents[i] = count - Len(Contents) + i

\* drv_can.c:321: what a call returns is the message that was the oldest, not
\* parts of two, unless the handler overran the ring under that very call.
ReturnsWhole ==
  pc = "done" /\ due # <<>> /\ ~lapped => \A i \in 1 .. 2 : copy[i] = due[1]

Queue == INSTANCE ByteQueue WITH q <- Contents, got <- due, Capacity <- SIZE - 1

\* The ring is a queue that gives up its oldest message when it is full.  Only
\* a call under which it was overrun may do anything else, and none after it.
IsQueue == Queue!QueueInit
           /\ [][~lapped' => Queue!QueueNext]_<<Contents, due, count>>
=============================================================================
