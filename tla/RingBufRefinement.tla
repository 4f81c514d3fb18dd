------------------------- MODULE RingBufRefinement -------------------------
(***************************************************************************)
(* RingBuf implements ByteQueue, except for what the calls do under which  *)
(* the buffer is overrun: for every size and any number of bytes.          *)
(***************************************************************************)
EXTENDS RingBufProofs, Laps

LEMMA SizeIs == SIZE \in Sizes /\ Index = Cells(SIZE)
BY RingAssumption DEF Sizes, Index, Cells

LEMMA SameLength == \A hd, tl : Length(hd, tl) = Apart(SIZE, hd, tl)
BY DEF Length, Apart

LEMMA ContentsIs ==
  ASSUME IndexInv
  PROVE  /\ Contents = Lap(SIZE, cells, From, Length(From, tail))
         /\ cells \in [Index -> Nat] /\ From \in Index /\ tail \in Index
         /\ Length(From, tail) \in 0 .. SIZE - 1
         /\ Contents \in Seq(Nat) /\ Len(Contents) = Length(From, tail)
<1>1. cells \in [Index -> Nat] /\ From \in Index /\ tail \in Index
  BY FromIs DEF IndexInv, TypeOK
<1>2. Length(From, tail) \in 0 .. SIZE - 1
  BY FromIs DEF Index
<1>3. Contents = Lap(SIZE, cells, From, Length(From, tail))
  BY DEF Contents, Lap
<1>4. Length(From, tail) \in 0 .. SIZE
  BY <1>2, RingAssumption
<1>5. QED
  BY <1>1, <1>2, <1>3, <1>4, SizeIs, LapIs

\* The handler: the byte comes behind the others.
LEMMA Arrives ==
  ASSUME IndexInv, AddByteToBuf, ~lapped'
  PROVE  Queue!Arrive
<1>1. /\ Contents = Lap(SIZE, cells, From, Apart(SIZE, From, tail))
      /\ cells \in [Index -> Nat] /\ From \in Index /\ tail \in Index
  BY ContentsIs, SameLength
<1>2. /\ count' = count + 1 /\ UNCHANGED got /\ tail' = (tail + 1) % SIZE
      /\ Writes(SIZE, cells, cells', tail, count')
  BY <1>1, SizeIs DEF AddByteToBuf, thread, IndexInv, TypeOK, Writes
<1>3. From' = IF Apart(SIZE, From, tail) = SIZE - 1 THEN (From + 1) % SIZE ELSE From
  BY FromArrival, SameLength
<1>4. Lap(SIZE, cells', From', Apart(SIZE, From', (tail + 1) % SIZE))
        = Append(IF Len(Contents) = SIZE - 1 THEN Tail(Contents) ELSE Contents, count')
  BY <1>1, <1>2, <1>3, SizeIs, LapArrives
<1>5. Contents' = Lap(SIZE, cells', From', Apart(SIZE, From', tail'))
  BY DEF Contents, Lap, Apart, Length
<1>6. QED
  BY <1>2, <1>4, <1>5 DEF Queue!Arrive

\* The reader: the first k bytes go.
LEMMA Drops ==
  ASSUME IndexInv, UNCHANGED <<cells, tail>>,
         NEW k \in Nat, k <= Length(From, tail), From' = (From + k) % SIZE
  PROVE  Contents' = SubSeq(Contents, k + 1, Len(Contents)) /\ k \in 0 .. Len(Contents)
<1> DEFINE L == Length(From, tail)
<1>1. /\ Contents = Lap(SIZE, cells, From, L) /\ Len(Contents) = L
      /\ cells \in [Index -> Nat] /\ From \in Index /\ tail \in Index /\ L \in 0 .. SIZE - 1
  BY ContentsIs
<1>2. Length((From + k) % SIZE, tail) = L - k
  BY <1>1, Fewer
<1>3. Contents' = Lap(SIZE, cells, From', Length(From', tail))
  BY DEF Contents, Lap, Length
<1>4. k \in 0 .. L /\ k <= L
  BY <1>1
<1> HIDE DEF L
<1>5. Lap(SIZE, cells, (From + k) % SIZE, L - k) = SubSeq(Lap(SIZE, cells, From, L), k + 1, L)
  BY <1>1, <1>4, SizeIs, LapDrop
<1>6. QED
  BY <1>1, <1>2, <1>3, <1>4, <1>5

\* A call that takes a byte takes the first, and a look the next one.
LEMMA Reads ==
  ASSUME IndexInv, CallInv, StoreHead, ~lapped
  PROVE  Queue!Look \/ Queue!Take
<1> USE RingAssumption
<1>1. /\ pc = "store" /\ got' = Append(got, cells[h])
      /\ UNCHANGED <<cells, tail, count, op, saved>>
  BY DEF StoreHead
<1>2. /\ h = head /\ head \in Index /\ tail \in Index /\ WrappedHead = head
      /\ Len(got) \in Nat /\ Length(head, tail) \in Nat /\ 1 <= Length(head, tail)
  BY <1>1, ByteIsThere
<1>3. /\ Contents = Lap(SIZE, cells, From, Length(From, tail)) /\ Contents \in Seq(Nat)
      /\ Len(Contents) = Length(From, tail) /\ Length(From, tail) \in 0 .. SIZE
      /\ cells \in [Index -> Nat] /\ From \in Index
  BY ContentsIs
<1>4. ThreadNext
  BY DEF ThreadNext
<1>5. CASE op = "look"
  <2>1. From' = From /\ From = saved
    BY <1>1, <1>4, <1>5, FromMoves, FromIs DEF Reading
  <2>2. Length(From, tail) = Length(head, tail) + Len(got)
    BY <1>1, <1>2, <1>5, <2>1 DEF CallInv, Reading
  <2>3. Len(got) + 1 \in 1 .. Length(From, tail)
    BY <1>2, <1>3, <2>2
  <2>4. Contents[Len(got) + 1] = cells[head]
    <3>1. /\ Length(From, tail) = (IF tail >= From THEN tail - From ELSE SIZE + tail - From)
          /\ Length(head, tail) = (IF tail >= head THEN tail - head ELSE SIZE + tail - head)
      BY <1>2, <1>3, LengthIs
    <3>2. PICK n \in 1 .. Length(From, tail) : n = Len(got) + 1
      BY <2>3
    <3>3. Contents[n] = cells[IF From + n - 1 < SIZE THEN From + n - 1 ELSE From + n - 1 - SIZE]
      BY <1>3, SizeIs, LapIs, ZenonT(30)
    <3>4. (IF From + n - 1 < SIZE THEN From + n - 1 ELSE From + n - 1 - SIZE) = head
      <4>1. /\ From \in Nat /\ From < SIZE /\ head \in Nat /\ head < SIZE /\ Len(got) \in Nat
            /\ tail \in Nat /\ tail < SIZE /\ 1 <= Length(head, tail) /\ SIZE \in Nat
        BY <1>2, <1>3 DEF Index
      <4>2. QED
        BY <2>2, <3>1, <3>2, <4>1
    <3>5. QED
      BY <3>2, <3>3, <3>4
  <2>5. Contents' = Contents
    BY <1>1, <2>1 DEF Contents, Length
  <2>6. Len(got) < Len(Contents)
    BY <1>2, <1>3, <2>2
  <2>7. QED
    BY <1>1, <1>2, <2>4, <2>5, <2>6 DEF Queue!Look
<1>6. CASE op # "look"
  <2>1. From = head /\ From' = (From + 1) % SIZE
    BY <1>1, <1>4, <1>6, FromMoves
  <2>2. Contents' = SubSeq(Contents, 2, Len(Contents))
    <3>1. Contents' = SubSeq(Contents, 1 + 1, Len(Contents))
      BY <1>1, <1>2, <2>1, Drops
    <3>2. QED BY <3>1
  <2>3. Contents # <<>>
    BY <1>2, <1>3, <2>1
  <2>4. Contents' = Tail(Contents)
    BY <1>3, <2>2, <2>3, TailIsSubSeq
  <2>5. Contents[1] = cells[head]
    <3>1. 1 \in 1 .. Length(From, tail)
      BY <1>2, <1>3, <2>1
    <3>2. Contents[1] = cells[IF From + 1 - 1 < SIZE THEN From + 1 - 1 ELSE From + 1 - 1 - SIZE]
      BY <1>3, <3>1, SizeIs, LapIs, ZenonT(30)
    <3>3. (IF From + 1 - 1 < SIZE THEN From + 1 - 1 ELSE From + 1 - 1 - SIZE) = head
      BY <1>2, <2>1 DEF Index
    <3>4. QED BY <3>2, <3>3
  <2>6. Head(Contents) = Contents[1]
    BY <1>3, <2>3
  <2>7. QED
    BY <1>1, <1>2, <2>3, <2>4, <2>5, <2>6 DEF Queue!Take
<1>7. QED
  BY <1>5, <1>6

LEMMA Deletes ==
  ASSUME IndexInv, CallInv, ThreadNext, ~lapped, pc \in {"clear", "moveStore"}
  PROVE  Queue!Delete
<1> USE RingAssumption
<1>1. UNCHANGED <<got, count>>
  BY DEF ThreadNext, Call, ClearDateFromBuf, ReadTail, CorrectLength, SaveHead, GetByte,
         TestByte, LoadHead, StoreHead, LoadWrap, WrapHead, LoopEnd, RestoreHead, MoveHead
<1>2. /\ Contents \in Seq(Nat) /\ Len(Contents) = Length(From, tail)
      /\ Length(From, tail) \in Nat
  BY ContentsIs
<1>3. CASE pc = "clear"
  <2>1. tail' = h /\ h = head /\ head' = head /\ pc' = "idle" /\ head \in Index
    BY <1>3 DEF ThreadNext, Call, ClearDateFromBuf, ReadTail, CorrectLength, SaveHead,
                GetByte, TestByte, LoadHead, StoreHead, LoadWrap, WrapHead, LoopEnd,
                RestoreHead, MoveHead, CallInv, IndexInv
  <2>2. Length(From', tail') = 0
    <3>1. From' = head % SIZE /\ head % SIZE = head
      BY <2>1, FromIs DEF From, Reading
    <3>2. QED
      BY <2>1, <3>1, LengthIs DEF Index
  <2>3. Contents' = <<>>
    <3>1. Contents' = [i \in 1 .. 0 |-> cells'[(From' + i - 1) % SIZE]]
      BY <2>2 DEF Contents, Length
    <3>2. QED BY <3>1
  <2>4. SubSeq(Contents, Len(Contents) + 1, Len(Contents)) = <<>>
    BY <1>2, SubSeqEmpty
  <2>5. Len(Contents) \in 0 .. Len(Contents)
    BY <1>2
  <2>6. QED
    BY <1>1, <2>3, <2>4, <2>5 DEF Queue!Delete
<1>4. CASE pc = "moveStore"
  <2>1. From' = (From + asked) % SIZE /\ asked \in Nat /\ asked <= Length(From, tail)
    BY <1>4, FromMoves
  <2>2. UNCHANGED <<cells, tail>>
    BY <1>4 DEF ThreadNext, Call, ClearDateFromBuf, ReadTail, CorrectLength, SaveHead,
                GetByte, TestByte, LoadHead, StoreHead, LoadWrap, WrapHead, LoopEnd,
                RestoreHead, MoveHead
  <2>3. QED
    BY <1>1, <2>1, <2>2, Drops DEF Queue!Delete
<1>5. QED
  BY <1>3, <1>4

\* Every other statement of the thread leaves the queue as it is.
LEMMA Stutters ==
  ASSUME IndexInv, CallInv, ThreadNext, ~lapped, pc \notin {"store", "clear", "moveStore"}
  PROVE  Queue!Begin \/ UNCHANGED <<Contents, got, count>>
<1>1. UNCHANGED <<cells, tail, count>>
  BY DEF ThreadNext, Call, ClearDateFromBuf, ReadTail, CorrectLength, SaveHead, GetByte,
         TestByte, LoadHead, StoreHead, LoadWrap, WrapHead, LoopEnd, RestoreHead, MoveHead
<1>2. From' = From
  BY FromMoves
<1>3. Contents' = Contents
  BY <1>1, <1>2 DEF Contents, Length
<1>4. got' = <<>> \/ got' = got
  <2>1. CASE TestByte
    <3>1. h # tail
      BY <2>1, ByteIsThere DEF TestByte
    <3>2. QED
      BY <2>1, <3>1 DEF TestByte
  <2>2. CASE ~TestByte
    BY <2>2 DEF ThreadNext, Call, ClearDateFromBuf, ReadTail, CorrectLength, SaveHead,
                GetByte, LoadHead, StoreHead, LoadWrap, WrapHead, LoopEnd, RestoreHead,
                MoveHead
  <2>3. QED BY <2>1, <2>2
<1>5. QED
  BY <1>1, <1>3, <1>4 DEF Queue!Begin

LEMMA QueueStep ==
  RingInv /\ [Next]_vars => [lapped \/ lapped' \/ Queue!QueueNext]_<<Contents, got, count>>
<1> SUFFICES ASSUME RingInv, [Next]_vars, ~lapped, ~lapped'
             PROVE  Queue!QueueNext \/ UNCHANGED <<Contents, got, count>>
  OBVIOUS
<1> USE DEF RingInv, Queue!QueueNext
<1>1. CASE AddByteToBuf
  BY <1>1, Arrives
<1>2. CASE ThreadNext
  <2>1. CASE pc = "store"
    <3>1. StoreHead
      BY <1>2, <2>1 DEF ThreadNext, Call, ClearDateFromBuf, ReadTail, CorrectLength, SaveHead,
                        GetByte, TestByte, LoadHead, LoadWrap, WrapHead, LoopEnd,
                        RestoreHead, MoveHead
    <3>2. QED
      BY <3>1, Reads
  <2>2. CASE pc \in {"clear", "moveStore"}
    BY <1>2, <2>2, Deletes
  <2>3. CASE pc \notin {"store", "clear", "moveStore"}
    BY <1>2, <2>3, Stutters
  <2>4. QED
    BY <2>1, <2>2, <2>3
<1>3. CASE UNCHANGED vars
  BY <1>3 DEF vars, thread, Contents, From, Length
<1>4. QED
  BY <1>1, <1>2, <1>3 DEF Next

\* usdl_buf.c keeps the promise of a queue that drops its oldest byte when it is
\* full: every load and store of the calls and every byte that arrives between
\* them is a step of ByteQueue or changes nothing a reader can see, as long as the
\* buffer is not overrun under the call.
THEOREM RingIsQueue == Spec => IsQueue
<1>1. Init => Queue!QueueInit
  <2> SUFFICES ASSUME Init PROVE Queue!QueueInit
    OBVIOUS
  <2>1. IndexInv /\ head \in Index /\ head = 0 /\ tail = 0
    BY IndexInit DEF Init, IndexInv, TypeOK, Outside
  <2>2. From = head
    BY <2>1, FromIs DEF Init, Reading
  <2>3. Length(From, tail) = 0
    BY <2>1, <2>2, LengthIs
  <2>4. Contents = [i \in 1 .. 0 |-> cells[(From + i - 1) % SIZE]]
    BY <2>3 DEF Contents
  <2>5. Contents = <<>>
    BY <2>4
  <2>6. QED
    BY <2>5 DEF Init, Queue!QueueInit
<1>2. QED
  BY <1>1, QueueStep, RingInvariant, PTL DEF Spec, IsQueue
=============================================================================
