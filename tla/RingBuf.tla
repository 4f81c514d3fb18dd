------------------------------ MODULE RingBuf ------------------------------
(***************************************************************************)
(* The ring buffer between an interrupt handler, which adds bytes, and a   *)
(* thread, which reads, deletes or clears them (usdl_buf.c).               *)
(*                                                                         *)
(* There is no lock.  The handler (stm32_uart_isr) runs AddByteToBuf to    *)
(* its end between any two statements of the thread, and moves Head too    *)
(* when the buffer is full.  So the thread's calls are modelled load by    *)
(* load and store by store; the structure is not volatile, and a statement *)
(* may use a Head loaded by an earlier one.  A byte is its number.         *)
(***************************************************************************)
EXTENDS Integers, Sequences

CONSTANTS
  SIZE,      \* RxBufSize
  MaxBytes   \* bound: how many bytes arrive

ASSUME RingAssumption == SIZE \in Nat \ {0, 1} /\ MaxBytes \in Nat

VARIABLES
  cells,   \* RxBuf
  head,    \* Head: out of range between two statements
  tail,    \* Tail
  count,   \* bytes added so far
  pc, op,  \* the thread: where it is, and in which call
  asked,   \* argument len, then the corrected len
  t,       \* Tail as GetLenFromBuf read it
  h,       \* Head as the thread has loaded it
  m,       \* Head as it is going to store it
  saved,   \* head, in ReadDataFromBuf
  got,     \* the bytes read so far
  lapped   \* history: the handler has overrun the buffer under the call

thread == <<pc, op, asked, t, h, m, saved, got>>
vars   == <<cells, head, tail, count, thread, lapped>>

Index == 0 .. SIZE - 1

Least(a, b) == IF a < b THEN a ELSE b

\* GetLenFromBuf.
Length(hd, tl) == (SIZE + tl - hd) % SIZE

\* Where the thread is: not yet using Head, in the loop of ReadDataFromBuf, in the
\* last lines of DelDataFromBuf.
Outside  == {"idle", "len"}
Reading  == {"loop", "test", "load", "store", "wrapLoad", "wrapStore"}
Deleting == {"move", "moveStore", "delLoad", "delStore"}

\* Where the bytes the buffer still owes its reader begin: a look moves the
\* head over them only for its own duration.
From == IF op = "look" /\ pc \in Reading \cup {"restore"} THEN saved ELSE head % SIZE

TypeOK ==
  /\ cells \in [Index -> 0 .. MaxBytes]
  /\ head \in 0 .. 2 * SIZE /\ tail \in Index
  /\ pc \in Outside => head \in Index
  /\ count \in 0 .. MaxBytes
  /\ pc \in Outside \cup Reading \cup Deleting \cup {"min", "save", "restore", "clear"}
  /\ op \in {"look", "take", "delete"}
  /\ asked \in 0 .. SIZE /\ t \in Index /\ h \in Index /\ m \in 0 .. 2 * SIZE
  /\ saved \in Index
  /\ got \in Seq(0 .. MaxBytes) /\ Len(got) <= SIZE
  /\ lapped \in BOOLEAN

\* RxBufInit.
Init ==
  /\ cells = [i \in Index |-> 0]
  /\ head = 0 /\ tail = 0 /\ count = 0
  /\ pc = "idle" /\ op = "look" /\ asked = 0 /\ t = 0 /\ h = 0 /\ m = 0 /\ saved = 0
  /\ got = <<>> /\ lapped = FALSE
----------------------------------------------------------------------------
(* The interrupt handler *)

\* There is no room for a byte without giving up one the call may be reading.
Overruns == pc \notin Outside /\ Length(From, tail) = SIZE - 1

\* Mutant: the oldest byte is not given up when the buffer is full.
AddByteKeepsHead ==
  /\ count < MaxBytes
  /\ count' = count + 1
  /\ cells' = [cells EXCEPT ![tail] = count']
  /\ tail' = (tail + 1) % SIZE
  /\ lapped' = (lapped \/ Overruns)
  /\ UNCHANGED <<head, thread>>

\* Mutant: the tail wraps one cell late.
AddByteWrapsLate ==
  /\ count < MaxBytes
  /\ count' = count + 1
  /\ cells' = [cells EXCEPT ![tail] = count']
  /\ tail' = (tail + 1) % (SIZE + 1)
  /\ lapped' = (lapped \/ Overruns)
  /\ UNCHANGED <<head, thread>>

\* A byte is stored at the tail; a tail that meets the head pushes it on.
AddByteToBuf ==
  /\ count < MaxBytes
  /\ count' = count + 1
  /\ cells' = [cells EXCEPT ![tail] = count']
  /\ tail' = (tail + 1) % SIZE
  /\ head' = IF tail' = head THEN (head + 1) % SIZE ELSE head
  /\ lapped' = (lapped \/ Overruns)
  /\ UNCHANGED thread
----------------------------------------------------------------------------
(* The thread *)

\* ReadDataFromBuf without and with clear, DelDataFromBuf.
Call(o, n) ==
  /\ pc = "idle" /\ pc' = "len"
  /\ op' = o /\ asked' = n /\ got' = <<>>
  /\ UNCHANGED <<cells, head, tail, count, t, h, m, saved, lapped>>

\* Mutant: the tail goes back to the first cell.
ClearResetsTail ==
  \/ /\ pc = "idle" /\ pc' = "clear"
     /\ h' = head
     /\ UNCHANGED <<cells, head, tail, count, op, asked, t, m, saved, got, lapped>>
  \/ /\ pc = "clear" /\ pc' = "idle" /\ lapped' = FALSE
     /\ tail' = 0
     /\ UNCHANGED <<cells, head, count, op, asked, t, h, m, saved, got>>

\* ClearDateFromBuf: Head is loaded and stored into Tail.
ClearDateFromBuf ==
  \/ /\ pc = "idle" /\ pc' = "clear"
     /\ h' = head
     /\ UNCHANGED <<cells, head, tail, count, op, asked, t, m, saved, got, lapped>>
  \/ /\ pc = "clear" /\ pc' = "idle" /\ lapped' = FALSE
     /\ tail' = h
     /\ UNCHANGED <<cells, head, count, op, asked, t, h, m, saved, got>>

\* GetLenFromBuf reads Tail, then Head; the length asked for is corrected.
ReadTail ==
  /\ pc = "len" /\ pc' = "min"
  /\ t' = tail
  /\ UNCHANGED <<cells, head, tail, count, op, asked, h, m, saved, got, lapped>>

First == IF op = "look" THEN "save" ELSE IF op = "take" THEN "loop" ELSE "move"

\* Mutant: the length is not corrected.
KeepLength ==
  /\ pc = "min" /\ pc' = First
  /\ h' = head
  /\ UNCHANGED <<cells, head, tail, count, op, asked, t, m, saved, got, lapped>>

CorrectLength ==
  /\ pc = "min" /\ pc' = First
  /\ h' = head /\ asked' = Least(asked, Length(head, t))
  /\ UNCHANGED <<cells, head, tail, count, op, t, m, saved, got, lapped>>

SaveHead ==
  /\ pc = "save" /\ pc' = "loop"
  /\ saved' \in {h, head}
  /\ UNCHANGED <<cells, head, tail, count, op, asked, t, h, m, got, lapped>>

\* GetByteFromBuf loads the head and, next, compares it with the tail.
GetByte ==
  /\ pc = "loop" /\ Len(got) < asked /\ pc' = "test"
  /\ h' = head
  /\ UNCHANGED <<cells, head, tail, count, op, asked, t, m, saved, got, lapped>>

\* No byte is there: the caller's is left as it was, and nobody looks.
TestByte ==
  /\ pc = "test"
  /\ IF h = tail THEN pc' = "loop" /\ got' = Append(got, 0)
                 ELSE pc' = "load" /\ UNCHANGED got
  /\ UNCHANGED <<cells, head, tail, count, op, asked, t, h, m, saved, lapped>>

\* buf->Head++: a load, and a store of what was loaded plus one.
LoadHead ==
  /\ pc = "load" /\ pc' = "store"
  /\ h' \in {h, head}
  /\ UNCHANGED <<cells, head, tail, count, op, asked, t, m, saved, got, lapped>>

StoreHead ==
  /\ pc = "store" /\ pc' = "wrapLoad"
  /\ got' = Append(got, cells[h]) /\ head' = h + 1
  /\ UNCHANGED <<cells, tail, count, op, asked, t, h, m, saved, lapped>>

\* Mutant: the head wraps one cell late.
WrapHeadLate ==
  /\ \/ pc = "wrapStore" /\ pc' = "loop" /\ UNCHANGED lapped
     \/ pc = "delStore" /\ pc' = "idle" /\ lapped' = FALSE
  /\ head' = m % (SIZE + 1)
  /\ UNCHANGED <<cells, tail, count, op, asked, t, h, m, saved, got>>

\* buf->Head %= buf->RxBufSize, of GetByteFromBuf and of DelDataFromBuf.
LoadWrap ==
  /\ \/ pc = "wrapLoad" /\ pc' = "wrapStore"
     \/ pc = "delLoad" /\ pc' = "delStore"
  /\ m' = head
  /\ UNCHANGED <<cells, head, tail, count, op, asked, t, h, saved, got, lapped>>

WrapHead ==
  /\ \/ pc = "wrapStore" /\ pc' = "loop" /\ UNCHANGED lapped
     \/ pc = "delStore" /\ pc' = "idle" /\ lapped' = FALSE
  /\ head' = m % SIZE
  /\ UNCHANGED <<cells, tail, count, op, asked, t, h, m, saved, got>>

LoopEnd ==
  /\ pc = "loop" /\ Len(got) >= asked
  /\ IF op = "look" THEN pc' = "restore" /\ UNCHANGED lapped
                    ELSE pc' = "idle" /\ lapped' = FALSE
  /\ UNCHANGED <<cells, head, tail, count, op, asked, t, h, m, saved, got>>

RestoreHead ==
  /\ pc = "restore" /\ pc' = "idle" /\ lapped' = FALSE
  /\ head' = saved
  /\ UNCHANGED <<cells, tail, count, op, asked, t, h, m, saved, got>>

\* buf->Head += len.
MoveHead ==
  /\ \/ /\ pc = "move" /\ pc' = "moveStore"
        /\ m' \in {h + asked, head + asked} /\ UNCHANGED head
     \/ /\ pc = "moveStore" /\ pc' = "delLoad"
        /\ head' = m /\ UNCHANGED m
  /\ UNCHANGED <<cells, tail, count, op, asked, t, h, saved, got, lapped>>
----------------------------------------------------------------------------
ThreadNext ==
  \/ \E o \in {"look", "take", "delete"}, n \in 1 .. SIZE : Call(o, n)
  \/ ClearDateFromBuf \/ ReadTail \/ CorrectLength
  \/ SaveHead \/ GetByte \/ TestByte \/ LoadHead \/ StoreHead
  \/ LoadWrap \/ WrapHead \/ LoopEnd \/ RestoreHead \/ MoveHead

Next == AddByteToBuf \/ ThreadNext

Spec == Init /\ [][Next]_vars
----------------------------------------------------------------------------
(* What must hold *)

\* Unless the buffer is overrun under it, a call never gets to a cell that holds
\* no byte, the test of GetByteFromBuf never fails (usdl_buf.c:109): the length
\* was corrected by a tail that is old when it is used, and bytes arrive between
\* any two of the statements.
NeverUnderruns == pc = "test" /\ ~lapped => h # tail

\* The head leaves the cells only between two statements, by one byte or by
\* what a delete skips, and no access follows it there, however often the
\* handler overruns the buffer; a call never asks for more than it can hold.
IndexInv ==
  /\ TypeOK
  /\ pc \notin {"wrapLoad", "wrapStore", "delLoad", "delStore"} => head \in Index
  /\ pc \in {"wrapLoad", "wrapStore"} => head \in 0 .. SIZE
  /\ pc \in Reading \cup Deleting \cup {"save", "restore"} => asked \in Index
  /\ pc \in {"save", "restore"} => op = "look"
  /\ pc \in {"len", "min", "save"} => got = <<>>
  /\ pc \in Reading \cup {"restore"} => Len(got) <= asked
  /\ pc \in {"test", "load", "store"} => Len(got) < asked
  /\ pc \in Outside => ~lapped

\* The head, once it is wrapped.
WrappedHead == IF head = SIZE THEN 0 ELSE head

\* Why calls that are not overrun do not underrun: what the thread has loaded
\* is the head, the bytes a call still wants are there from the moment its
\* length is corrected, and a look has passed what it has read.
CallInv == ~lapped =>
  /\ pc \in {"save", "test", "load", "store", "move", "clear"} => h = head
  /\ pc \in {"wrapStore", "delStore"} => m = head
  /\ pc = "moveStore" => m = head + asked
  /\ pc = "min" => Length(head, t) <= Length(head, tail)
  /\ pc \in {"save", "move", "moveStore"} => asked <= Length(head, tail)
  /\ pc \in Reading => asked - Len(got) <= Length(WrappedHead, tail)
  /\ pc \in Reading /\ op = "look" =>
       Length(saved, tail) = Length(WrappedHead, tail) + Len(got)

\* The cell that was written j bytes ago.
Ago(j) == cells[(SIZE + tail - j) % SIZE]

\* How many of the cells before the tail are sure to be in order.
Newest == IF lapped THEN SIZE ELSE Length(From, tail)

\* After an overrun all of the cells are of the latest lap, so that from any head
\* that a call then leaves behind the bytes are in order.
FreshInv ==
  /\ \A j \in 1 .. Newest : Ago(j) <= count /\ \A i \in 1 .. j - 1 : Ago(j) < Ago(i)
  /\ pc = "clear" /\ lapped => Length(head, tail) = SIZE - 1

RingInv == IndexInv /\ CallInv /\ FreshInv

\* The cells from the head up to the tail, oldest first.
Contents == [i \in 1 .. Length(From, tail) |-> cells[(From + i - 1) % SIZE]]

\* usdl_buf.c:53-58, 171-177, 193: between calls the bytes in the buffer are in
\* the order they came, each once, even if the buffer was overrun in the middle of
\* a call, when updates of the head get lost.  How many there are is another
\* matter: a look that restores the head onto the tail loses all of them.
RestsInOrder ==
  pc = "idle" => \A j \in DOMAIN Contents : \A i \in 1 .. j - 1 : Contents[i] < Contents[j]

Queue == INSTANCE ByteQueue WITH q <- Contents, Capacity <- SIZE - 1

\* The buffer is a queue: bytes come out in the order they arrived, none is lost
\* but the oldest of a full buffer, and a byte that arrives in the middle of a
\* call, at whatever statement, disturbs neither (usdl_buf.c, every function).
\* Only a call under which the buffer is overrun may do anything else.
IsQueue == Queue!QueueInit
           /\ [][lapped \/ lapped' \/ Queue!QueueNext]_<<Contents, got, count>>
=============================================================================
