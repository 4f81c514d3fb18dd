--------------------------- MODULE RingBufProofs ---------------------------
(***************************************************************************)
(* Proofs about RingBuf, for every size of the buffer and any number of    *)
(* bytes.                                                                  *)
(***************************************************************************)
EXTENDS RingBuf, TLAPS

\* The remainder by the size of the buffer is a cell.
LEMMA Wraps == \A x \in Nat : x % SIZE \in Index
BY RingAssumption, SMT DEF Index

LEMMA Remainder ==
  \A x \in 0 .. 2 * SIZE - 1 : x % SIZE = IF x < SIZE THEN x ELSE x - SIZE
BY RingAssumption, SMT

\* GetLenFromBuf, the next cell, and the cell j before one, without remainders.
LEMMA LengthIs ==
  \A hd, tl \in Index : /\ Length(hd, tl) = IF tl >= hd THEN tl - hd ELSE SIZE + tl - hd
                        /\ Length(hd, tl) \in Index
<1> SUFFICES ASSUME NEW hd \in Index, NEW tl \in Index
             PROVE  /\ Length(hd, tl) = IF tl >= hd THEN tl - hd ELSE SIZE + tl - hd
                    /\ Length(hd, tl) \in Index
  OBVIOUS
<1>1. SIZE + tl - hd \in 0 .. 2 * SIZE - 1
  BY RingAssumption DEF Index
<1>2. QED
  BY <1>1, Remainder, RingAssumption DEF Length, Index

LEMMA NextCell == \A x \in Index : /\ (x + 1) % SIZE = IF x + 1 = SIZE THEN 0 ELSE x + 1
                                   /\ (x + 1) % SIZE \in Index
BY RingAssumption, Remainder DEF Index

LEMMA CellBefore ==
  \A x \in Index, j \in 1 .. SIZE :
    /\ (SIZE + x - j) % SIZE = IF j <= x THEN x - j ELSE SIZE + x - j
    /\ (SIZE + x - j) % SIZE \in Index
<1> SUFFICES ASSUME NEW x \in Index, NEW j \in 1 .. SIZE
             PROVE  /\ (SIZE + x - j) % SIZE = IF j <= x THEN x - j ELSE SIZE + x - j
                    /\ (SIZE + x - j) % SIZE \in Index
  OBVIOUS
<1>1. SIZE + x - j \in 0 .. 2 * SIZE - 1
  BY RingAssumption DEF Index
<1>2. QED
  BY <1>1, Remainder, RingAssumption DEF Index

\* A byte more, while the buffer is not full, one more when it is, and n less.
LEMMA OneMore ==
  ASSUME NEW hd \in Index, NEW tl \in Index, Length(hd, tl) # SIZE - 1
  PROVE  /\ (tl + 1) % SIZE # hd
         /\ Length(hd, (tl + 1) % SIZE) = Length(hd, tl) + 1
         /\ Length(hd, tl) + 1 < SIZE
<1> hd \in Nat /\ tl \in Nat /\ hd < SIZE /\ tl < SIZE /\ SIZE \in Nat
  BY RingAssumption DEF Index
<1> DEFINE next == (tl + 1) % SIZE
<1>1. next = (IF tl + 1 = SIZE THEN 0 ELSE tl + 1) /\ next \in Index
  BY NextCell
<1> HIDE DEF next
<1>2. /\ Length(hd, tl) = IF tl >= hd THEN tl - hd ELSE SIZE + tl - hd
      /\ Length(hd, next) = IF next >= hd THEN next - hd ELSE SIZE + next - hd
  BY <1>1, LengthIs
<1>3. next # hd /\ Length(hd, next) = Length(hd, tl) + 1 /\ Length(hd, tl) + 1 < SIZE
  BY <1>1, <1>2
<1>4. QED
  BY <1>3 DEF next

LEMMA FullMeets ==
  ASSUME NEW hd \in Index, NEW tl \in Index
  PROVE  /\ Length(hd, tl) = SIZE - 1 <=> (tl + 1) % SIZE = hd
         /\ Length((hd + 1) % SIZE, hd) = SIZE - 1
<1> hd \in Nat /\ tl \in Nat /\ hd < SIZE /\ tl < SIZE /\ SIZE \in Nat
  BY RingAssumption DEF Index
<1> DEFINE next == (tl + 1) % SIZE
<1> DEFINE after == (hd + 1) % SIZE
<1>1. /\ next = (IF tl + 1 = SIZE THEN 0 ELSE tl + 1) /\ next \in Index
      /\ after = (IF hd + 1 = SIZE THEN 0 ELSE hd + 1) /\ after \in Index
  BY NextCell
<1> HIDE DEF next, after
<1>2. /\ Length(hd, tl) = IF tl >= hd THEN tl - hd ELSE SIZE + tl - hd
      /\ Length(after, hd) = IF hd >= after THEN hd - after ELSE SIZE + hd - after
  BY <1>1, LengthIs
<1>3. (Length(hd, tl) = SIZE - 1 <=> next = hd) /\ Length(after, hd) = SIZE - 1
  BY <1>1, <1>2, RingAssumption
<1>4. QED
  BY <1>3 DEF next, after

LEMMA Fewer ==
  ASSUME NEW hd \in Index, NEW tl \in Index, NEW n \in Nat, n <= Length(hd, tl)
  PROVE  Length((hd + n) % SIZE, tl) = Length(hd, tl) - n
<1> hd \in Nat /\ tl \in Nat /\ hd < SIZE /\ tl < SIZE /\ SIZE \in Nat
  BY RingAssumption DEF Index
<1> DEFINE next == (hd + n) % SIZE
<1>1. Length(hd, tl) = (IF tl >= hd THEN tl - hd ELSE SIZE + tl - hd) /\ Length(hd, tl) \in Index
  BY LengthIs
<1>2. hd + n \in 0 .. 2 * SIZE - 1 /\ hd + n \in Nat
  BY <1>1
<1>3. next = (IF hd + n < SIZE THEN hd + n ELSE hd + n - SIZE) /\ next \in Index
  BY <1>2, Remainder, Wraps
<1> HIDE DEF next
<1>4. Length(next, tl) = IF tl >= next THEN tl - next ELSE SIZE + tl - next
  BY <1>3, LengthIs
<1>5. Length(next, tl) = Length(hd, tl) - n
  BY <1>1, <1>3, <1>4
<1>6. QED
  BY <1>5 DEF next

LEMMA WrappedIs ==
  ASSUME IndexInv, head \in 0 .. SIZE
  PROVE  head % SIZE = WrappedHead /\ WrappedHead \in Index
BY Remainder, RingAssumption DEF WrappedHead, Index
----------------------------------------------------------------------------
LEMMA IndexInit == Init => IndexInv
<1> SUFFICES ASSUME Init PROVE IndexInv
  OBVIOUS
<1>1. 0 \in Index /\ 0 \in 0 .. MaxBytes /\ 0 \in 0 .. 2 * SIZE /\ 0 \in 0 .. SIZE
  BY RingAssumption DEF Index
<1>2. <<>> \in Seq(0 .. MaxBytes) /\ Len(<<>>) <= SIZE
  BY RingAssumption
<1>3. cells \in [Index -> 0 .. MaxBytes]
  BY <1>1 DEF Init
<1>4. TypeOK
  BY <1>1, <1>2, <1>3 DEF Init, TypeOK, Outside
<1>5. QED
  BY <1>1, <1>4 DEF Init, IndexInv, Outside, Reading, Deleting

LEMMA IndexArrival ==
  ASSUME IndexInv, AddByteToBuf
  PROVE  IndexInv'
<1> USE RingAssumption
<1>1. count' \in 0 .. MaxBytes /\ tail' \in Index
  BY NextCell DEF AddByteToBuf, IndexInv, TypeOK
<1>2. cells' \in [Index -> 0 .. MaxBytes]
  BY <1>1 DEF AddByteToBuf, IndexInv, TypeOK
<1>3. head' = head \/ (head' \in Index /\ head \in Index)
  <2>1. CASE tail' = head
    BY <1>1, <2>1, NextCell DEF AddByteToBuf
  <2>2. CASE tail' # head
    BY <2>2 DEF AddByteToBuf
  <2>3. QED BY <2>1, <2>2
<1>4. lapped' \in BOOLEAN /\ (pc \in Outside => lapped' = lapped)
  BY DEF AddByteToBuf, Overruns, IndexInv, TypeOK
<1>5. UNCHANGED <<pc, op, asked, t, h, m, saved, got>>
  BY DEF AddByteToBuf, thread
<1>6. TypeOK'
  <2>1. head' \in 0 .. 2 * SIZE
    <3>1. head \in 0 .. 2 * SIZE
      BY DEF IndexInv, TypeOK
    <3>2. \A i \in Index : i \in 0 .. 2 * SIZE
      BY DEF Index
    <3>3. QED BY <1>3, <3>1, <3>2
  <2>2. pc \in Outside => head' \in Index
    BY <1>3 DEF IndexInv, TypeOK
  <2>3. QED
    BY <1>1, <1>2, <1>4, <1>5, <2>1, <2>2 DEF IndexInv, TypeOK
<1>7. QED
  BY <1>3, <1>4, <1>5, <1>6 DEF IndexInv, Index

LEMMA IndexBegins ==
  ASSUME IndexInv,
         (\E o \in {"look", "take", "delete"}, n \in 1 .. SIZE : Call(o, n))
           \/ ClearDateFromBuf \/ ReadTail \/ CorrectLength \/ SaveHead
  PROVE  IndexInv'
<1> USE RingAssumption DEF Outside, Reading, Deleting
<1>1. ASSUME NEW o \in {"look", "take", "delete"}, NEW n \in 1 .. SIZE, Call(o, n)
      PROVE  IndexInv'
  BY <1>1 DEF Call, IndexInv, TypeOK, Index
<1>2. CASE ClearDateFromBuf
  BY <1>2 DEF ClearDateFromBuf, IndexInv, TypeOK, Index
<1>3. CASE ReadTail
  BY <1>3 DEF ReadTail, IndexInv, TypeOK, Index
<1>4. CASE CorrectLength
  <2>1. Length(head, t) \in Index /\ head \in Index
    BY <1>4, LengthIs DEF CorrectLength, IndexInv, TypeOK
  <2>2. asked' \in Index
    BY <1>4, <2>1 DEF CorrectLength, IndexInv, TypeOK, Least, Index
  <2>3. QED
    BY <1>4, <2>1, <2>2 DEF CorrectLength, First, IndexInv, TypeOK, Index
<1>5. CASE SaveHead
  <2>1. saved' \in Index
    BY <1>5 DEF SaveHead, IndexInv, TypeOK
  <2>2. QED
    BY <1>5, <2>1 DEF SaveHead, IndexInv, TypeOK, Index
<1>6. QED
  BY <1>1, <1>2, <1>3, <1>4, <1>5

LEMMA IndexReads ==
  ASSUME IndexInv, GetByte \/ TestByte \/ LoadHead \/ StoreHead
  PROVE  IndexInv'
<1> USE RingAssumption DEF Outside, Reading, Deleting
<1>0. Len(got) \in Nat /\ got \in Seq(0 .. MaxBytes) /\ 0 \in 0 .. MaxBytes
      /\ cells[h] \in 0 .. MaxBytes
  BY DEF IndexInv, TypeOK
<1>1. CASE GetByte
  BY <1>1 DEF GetByte, IndexInv, TypeOK, Index
<1>2. CASE TestByte
  <2>1. CASE h = tail
    <3>1. got' = Append(got, 0)
      BY <1>2, <2>1 DEF TestByte
    <3>2. got' \in Seq(0 .. MaxBytes) /\ Len(got') = Len(got) + 1
      BY <1>0, <3>1
    <3>3. Len(got') <= asked /\ asked \in Index
      BY <1>0, <1>2, <3>2 DEF TestByte, IndexInv, TypeOK, Index
    <3>4. TypeOK'
      BY <1>2, <2>1, <3>2, <3>3 DEF TestByte, IndexInv, TypeOK, Index
    <3>5. QED
      BY <1>2, <2>1, <3>2, <3>3, <3>4 DEF TestByte, IndexInv
  <2>2. CASE h # tail
    BY <1>2, <2>2 DEF TestByte, IndexInv, TypeOK, Index
  <2>3. QED BY <2>1, <2>2
<1>3. CASE LoadHead
  <2>1. h' \in Index
    BY <1>3 DEF LoadHead, IndexInv, TypeOK
  <2>2. QED
    BY <1>3, <2>1 DEF LoadHead, IndexInv, TypeOK, Index
<1>4. CASE StoreHead
  <2>1. got' \in Seq(0 .. MaxBytes) /\ Len(got') = Len(got) + 1
    BY <1>0, <1>4 DEF StoreHead
  <2>2. Len(got') <= asked /\ asked \in Index /\ head' \in 0 .. SIZE
    BY <1>0, <1>4, <2>1 DEF StoreHead, IndexInv, TypeOK, Index
  <2>3. TypeOK'
    BY <1>4, <2>1, <2>2 DEF StoreHead, IndexInv, TypeOK, Index
  <2>4. QED
    BY <1>4, <2>1, <2>2, <2>3 DEF StoreHead, IndexInv
<1>5. QED
  BY <1>1, <1>2, <1>3, <1>4

LEMMA IndexEnds ==
  ASSUME IndexInv, LoadWrap \/ WrapHead \/ LoopEnd \/ RestoreHead \/ MoveHead
  PROVE  IndexInv'
<1> USE RingAssumption DEF Outside, Reading, Deleting
<1>1. CASE LoadWrap
  BY <1>1 DEF LoadWrap, IndexInv, TypeOK, Index
<1>2. CASE WrapHead
  <2>1. head' \in Index /\ head' \in 0 .. SIZE /\ head' \in 0 .. 2 * SIZE
    <3>1. m \in Nat
      BY DEF IndexInv, TypeOK
    <3>2. head' \in Index
      BY <1>2, <3>1, Wraps DEF WrapHead
    <3>3. QED BY <3>2 DEF Index
  <2>2. lapped' \in BOOLEAN /\ (pc' = "loop" \/ ~lapped')
    BY <1>2, Zenon DEF WrapHead, IndexInv, TypeOK
  <2>3. TypeOK'
    BY <1>2, <2>1, <2>2 DEF WrapHead, IndexInv, TypeOK
  <2>4. QED
    BY <1>2, <2>1, <2>2, <2>3 DEF WrapHead, IndexInv
<1>3. CASE LoopEnd
  <2>1. lapped' \in BOOLEAN /\ (pc' = "restore" \/ ~lapped')
    BY <1>3, Zenon DEF LoopEnd, IndexInv, TypeOK
  <2>2. TypeOK'
    BY <1>3, <2>1 DEF LoopEnd, IndexInv, TypeOK
  <2>3. QED
    BY <1>3, <2>1, <2>2 DEF LoopEnd, IndexInv
<1>4. CASE RestoreHead
  <2>1. head' \in Index /\ head' \in 0 .. 2 * SIZE
    BY <1>4 DEF RestoreHead, IndexInv, TypeOK, Index
  <2>2. TypeOK'
    BY <1>4, <2>1 DEF RestoreHead, IndexInv, TypeOK
  <2>3. QED
    BY <1>4, <2>1, <2>2 DEF RestoreHead, IndexInv
<1>5. CASE MoveHead
  <2>1. asked \in Index /\ m' \in 0 .. 2 * SIZE /\ head' \in 0 .. 2 * SIZE
    BY <1>5, SMTT(30) DEF MoveHead, IndexInv, TypeOK, Index
  <2>2. QED
    BY <1>5, <2>1 DEF MoveHead, IndexInv, TypeOK, Index
<1>6. QED
  BY <1>1, <1>2, <1>3, <1>4, <1>5

LEMMA IndexStep == IndexInv /\ [Next]_vars => IndexInv'
<1> SUFFICES ASSUME IndexInv, [Next]_vars PROVE IndexInv'
  OBVIOUS
<1>1. CASE Next
  BY <1>1, IndexArrival, IndexBegins, IndexReads, IndexEnds DEF Next, ThreadNext
<1>2. CASE UNCHANGED vars
  BY <1>2 DEF vars, thread, IndexInv, TypeOK, Index, Outside, Reading, Deleting
<1>3. QED BY <1>1, <1>2

\* Whatever the handler does in the middle of a call, at whatever statement and
\* however often it overruns the buffer there, no access leaves the buffer and no
\* call returns more than the buffer holds (usdl_buf.c, every function).
THEOREM RingTypes == Spec => []TypeOK
<1>1. IndexInv => TypeOK
  BY DEF IndexInv
<1>2. QED
  BY IndexInit, IndexStep, <1>1, PTL DEF Spec
----------------------------------------------------------------------------
LEMMA FromIs ==
  ASSUME IndexInv
  PROVE  /\ From \in Index /\ Length(From, tail) \in Index
         /\ ~(op = "look" /\ pc \in Reading \cup {"restore"}) => From = head % SIZE
         /\ op = "look" /\ pc \in Reading \cup {"restore"} => From = saved
         /\ head \in Index => head % SIZE = head /\ WrappedHead = head
<1>0. head \in Nat /\ saved \in Index /\ tail \in Index
  BY DEF IndexInv, TypeOK
<1>1. head % SIZE \in Index /\ saved \in Index /\ tail \in Index
  BY <1>0, Wraps
<1>2. From \in Index
  BY <1>1 DEF From
<1>3. head \in Index => head % SIZE = head /\ WrappedHead = head
  BY Remainder, RingAssumption DEF Index, WrappedHead
<1>4. QED
  BY <1>1, <1>2, <1>3, LengthIs DEF From

\* A byte that arrives in the middle of a call, and does not overrun the buffer,
\* leaves the head alone and is one more behind it.
LEMMA ArrivalAdds ==
  ASSUME IndexInv, CallInv, AddByteToBuf, ~lapped', pc \notin Outside \cup {"restore"}
  PROVE  /\ ~lapped /\ head' = head /\ tail' \in Index
         /\ pc \notin {"delLoad", "delStore"} =>
              Length(WrappedHead, tail') = Length(WrappedHead, tail) + 1
         /\ pc \in Reading /\ op = "look" => Length(saved, tail') = Length(saved, tail) + 1
<1> USE RingAssumption
<1>1. ~lapped /\ Length(From, tail) # SIZE - 1
  BY DEF AddByteToBuf, Overruns
<1>2. tail \in Index /\ tail' = (tail + 1) % SIZE /\ tail' \in Index
  BY NextCell DEF AddByteToBuf, IndexInv, TypeOK
<1>3. CASE pc \in Reading /\ op = "look"
  <2>1. From = saved /\ saved \in Index
    BY <1>3, FromIs
  <2>2. Length(saved, tail') = Length(saved, tail) + 1 /\ Length(saved, tail) + 1 < SIZE
    BY <1>1, <1>2, <2>1, OneMore
  <2>3. WrappedHead \in Index /\ Len(got) \in Nat
    BY <1>3, WrappedIs DEF IndexInv, TypeOK, Reading, Index
  <2>4. Length(saved, tail) = Length(WrappedHead, tail) + Len(got)
        /\ Length(WrappedHead, tail) \in Nat
    BY <1>1, <1>2, <1>3, <2>3, LengthIs DEF CallInv, Index
  <2>5. tail' # WrappedHead /\ Length(WrappedHead, tail') = Length(WrappedHead, tail) + 1
    BY <1>2, <2>2, <2>3, <2>4, OneMore
  <2>6. tail' # head
    BY <1>2, <2>5 DEF WrappedHead, Index
  <2>7. QED
    BY <1>1, <1>2, <2>2, <2>5, <2>6 DEF AddByteToBuf
<1>4. CASE ~(pc \in Reading /\ op = "look")
  <2>1. From = head % SIZE /\ From \in Index
    BY <1>4, FromIs
  <2>2. tail' # From /\ Length(From, tail') = Length(From, tail) + 1
    BY <1>1, <1>2, <2>1, OneMore
  <2>3. tail' # head
    BY <1>2, <2>1, <2>2, FromIs
  <2>4. pc \notin {"delLoad", "delStore"} => From = WrappedHead
    BY <2>1, WrappedIs DEF IndexInv, Index
  <2>5. QED
    BY <1>1, <1>2, <1>4, <2>2, <2>3, <2>4 DEF AddByteToBuf
<1>5. QED
  BY <1>3, <1>4

LEMMA CallArrival ==
  ASSUME IndexInv, CallInv, AddByteToBuf
  PROVE  CallInv'
<1> SUFFICES ASSUME ~lapped' PROVE CallInv'
  BY DEF CallInv
<1> USE RingAssumption
<1>1. UNCHANGED <<pc, op, asked, t, h, m, saved, got>>
  BY DEF AddByteToBuf, thread
<1>2. CASE pc \in Outside \cup {"restore"}
  BY <1>1, <1>2 DEF CallInv, Outside, Reading
<1>3. CASE pc \notin Outside \cup {"restore"}
  <2>1. /\ ~lapped /\ head' = head /\ tail' \in Index
        /\ pc \notin {"delLoad", "delStore"} =>
             Length(WrappedHead, tail') = Length(WrappedHead, tail) + 1
        /\ pc \in Reading /\ op = "look" => Length(saved, tail') = Length(saved, tail) + 1
    BY <1>3, ArrivalAdds
  <2>2. /\ Length(head, t)' = Length(head, t)
        /\ Length(head, tail)' = Length(head, tail')
        /\ Length(WrappedHead, tail)' = Length(WrappedHead, tail')
        /\ Length(saved, tail)' = Length(saved, tail')
    BY <1>1, <2>1 DEF Length, WrappedHead
  <2>3. tail \in Index /\ t \in Index /\ Len(got) \in Nat /\ asked \in Nat
    BY DEF IndexInv, TypeOK
  <2> \A hd, tl \in Index : Length(hd, tl) \in Nat
    BY LengthIs DEF Index
  <2>4. pc \notin {"delLoad", "delStore"} =>
          WrappedHead \in Index /\ Length(WrappedHead, tail) \in Nat
    <3>1. pc \notin {"delLoad", "delStore"} => head \in 0 .. SIZE
      BY DEF IndexInv, Index
    <3>2. QED BY <2>3, <3>1, WrappedIs
  <2>5. pc \in {"min", "save", "move", "moveStore"} =>
          WrappedHead = head /\ head \in Index /\ Length(head, t) \in Nat
    <3>1. pc \in {"min", "save", "move", "moveStore"} => head \in Index
      BY DEF IndexInv
    <3>2. QED BY <2>3, <3>1, FromIs
  <2>6. pc = "min" => Length(head, t) <= Length(head, tail')
    BY <2>1, <2>4, <2>5 DEF CallInv
  <2>7. pc \in {"save", "move", "moveStore"} => asked <= Length(head, tail')
    BY <2>1, <2>3, <2>4, <2>5, SMTT(30) DEF CallInv
  <2>8. pc \in Reading => asked - Len(got) <= Length(WrappedHead, tail')
    BY <2>1, <2>3, <2>4 DEF CallInv, Reading
  <2>9. pc \in Reading /\ op = "look" =>
          Length(saved, tail') = Length(WrappedHead, tail') + Len(got)
    BY <2>1, <2>3, <2>4, SMTT(30) DEF CallInv, Reading
  <2>10. QED
    BY <1>1, <2>1, <2>2, <2>6, <2>7, <2>8, <2>9 DEF CallInv
<1>4. QED
  BY <1>2, <1>3

LEMMA CallBegins ==
  ASSUME IndexInv, CallInv,
         (\E o \in {"look", "take", "delete"}, n \in 1 .. SIZE : Call(o, n))
           \/ ClearDateFromBuf \/ ReadTail \/ CorrectLength \/ SaveHead
  PROVE  CallInv'
<1> USE RingAssumption DEF Reading
<1>1. ASSUME NEW o \in {"look", "take", "delete"}, NEW n \in 1 .. SIZE, Call(o, n)
      PROVE  CallInv'
  BY <1>1 DEF Call, CallInv
<1>2. CASE ClearDateFromBuf
  BY <1>2 DEF ClearDateFromBuf, CallInv
<1>3. CASE ReadTail
  <2>1. Length(head, tail) \in Index
    BY <1>3, LengthIs DEF ReadTail, IndexInv, TypeOK
  <2>2. QED
    BY <1>3, <2>1 DEF ReadTail, CallInv, Length, Index
<1>4. CASE CorrectLength
  <2>1. head \in Index /\ Length(head, t) \in Index /\ Length(head, tail) \in Index
        /\ asked \in Nat /\ WrappedHead = head /\ got = <<>>
    BY <1>4, LengthIs, FromIs DEF CorrectLength, IndexInv, TypeOK
  <2>2. ~lapped => asked' <= Length(head, tail) /\ asked' \in Nat
    BY <1>4, <2>1 DEF CorrectLength, CallInv, Least, Index
  <2>3. /\ UNCHANGED <<head, tail, got, lapped>> /\ h' = head
        /\ pc' \in {"save", "loop", "move"} /\ (pc' = "loop" => op' # "look")
    BY <1>4 DEF CorrectLength, First
  <2>4. Length(head, tail)' = Length(head, tail)
        /\ Length(WrappedHead, tail)' = Length(head, tail)
    BY <2>1, <2>3 DEF Length, WrappedHead
  <2>5. ~lapped => asked' - Len(got') = asked'
    <3>1. Len(got') = 0
      BY <2>1, <2>3
    <3>2. \A n \in Nat : n - 0 = n
      OBVIOUS
    <3>3. QED
      BY <2>2, <3>1, <3>2, Zenon
  <2>6. QED
    BY <2>2, <2>3, <2>4, <2>5 DEF CallInv
<1>5. CASE SaveHead
  <2>1. WrappedHead = head /\ Len(got) = 0 /\ Length(head, tail) \in Index /\ asked \in Nat
    <3>1. pc = "save" /\ head \in Index /\ tail \in Index /\ asked \in Index /\ got = <<>>
      BY <1>5 DEF SaveHead, IndexInv, TypeOK
    <3>2. QED
      BY <3>1, FromIs, LengthIs DEF Index
  <2>2. ~lapped => asked - Len(got) <= Length(head, tail)
                   /\ Length(head, tail) = Length(head, tail) + Len(got) /\ saved' = head
    BY <1>5, <2>1 DEF SaveHead, CallInv, Index
  <2>3. QED
    BY <1>5, <2>1, <2>2 DEF SaveHead, CallInv, WrappedHead, Length
<1>6. QED
  BY <1>1, <1>2, <1>3, <1>4, <1>5

\* GetByteFromBuf, from its test of the head to its increment.
LEMMA ByteIsThere ==
  ASSUME IndexInv, CallInv, ~lapped, pc \in {"test", "load", "store"}
  PROVE  /\ h = head /\ head \in Index /\ tail \in Index /\ WrappedHead = head
         /\ Len(got) \in Nat /\ asked \in Nat
         /\ Length(head, tail) \in Nat /\ 1 <= Length(head, tail) /\ head # tail
<1>1. h = head /\ head \in Index /\ tail \in Index /\ Len(got) \in Nat
      /\ asked \in Nat /\ Len(got) < asked
  BY DEF CallInv, IndexInv, TypeOK
<1>2. WrappedHead = head /\ Length(head, tail) \in Nat
  BY <1>1, FromIs, LengthIs DEF Index
<1>3. asked - Len(got) <= Length(head, tail)
  BY <1>2 DEF CallInv, Reading
<1>4. Length(head, head) = 0
  BY <1>1, LengthIs DEF Index
<1>5. QED
  BY <1>1, <1>2, <1>3, <1>4

LEMMA CallReads ==
  ASSUME IndexInv, CallInv, GetByte \/ TestByte \/ LoadHead \/ StoreHead
  PROVE  CallInv'
<1> SUFFICES ASSUME ~lapped' PROVE CallInv'
  BY DEF CallInv
<1> USE RingAssumption DEF Reading
<1>1. CASE GetByte
  BY <1>1 DEF GetByte, CallInv, WrappedHead, Length
<1>2. CASE TestByte
  <2>1. h # tail
    BY <1>2, ByteIsThere DEF TestByte
  <2>2. QED
    BY <1>2, <2>1 DEF TestByte, CallInv, WrappedHead, Length
<1>3. CASE LoadHead
  BY <1>3 DEF LoadHead, CallInv, WrappedHead, Length
<1>4. CASE StoreHead
  <2>1. ~lapped /\ pc = "store" /\ pc' = "wrapLoad" /\ head' = h + 1
        /\ UNCHANGED <<tail, op, asked, saved>>
    BY <1>4 DEF StoreHead
  <2>2. /\ h = head /\ head \in Index /\ tail \in Index /\ WrappedHead = head
        /\ Len(got) \in Nat /\ asked \in Nat
        /\ Length(head, tail) \in Nat /\ 1 <= Length(head, tail)
    BY <2>1, ByteIsThere
  <2>3. WrappedHead' = (head + 1) % SIZE
    BY <2>1, <2>2, NextCell DEF WrappedHead, Index
  <2>4. Length(WrappedHead', tail) = Length(head, tail) - 1
    BY <2>2, <2>3, Fewer
  <2>5. Len(got') = Len(got) + 1
    BY <1>4 DEF StoreHead, IndexInv, TypeOK
  <2>6. Length(WrappedHead, tail)' = Length(WrappedHead', tail)
        /\ Length(saved, tail)' = Length(saved, tail)
    BY <2>1 DEF Length
  <2>7. asked' - Len(got') <= Length(WrappedHead, tail)'
    BY <2>1, <2>2, <2>4, <2>5, <2>6 DEF CallInv
  <2>8. op = "look" => Length(saved, tail)' = Length(WrappedHead, tail)' + Len(got')
    BY <2>1, <2>2, <2>4, <2>5, <2>6 DEF CallInv
  <2>9. QED
    BY <2>1, <2>7, <2>8 DEF CallInv
<1>5. QED
  BY <1>1, <1>2, <1>3, <1>4

LEMMA CallEnds ==
  ASSUME IndexInv, CallInv, LoadWrap \/ WrapHead \/ LoopEnd \/ RestoreHead \/ MoveHead
  PROVE  CallInv'
<1> SUFFICES ASSUME ~lapped' PROVE CallInv'
  BY DEF CallInv
<1> USE RingAssumption DEF Reading
<1>1. CASE LoadWrap
  BY <1>1 DEF LoadWrap, CallInv, WrappedHead, Length
<1>2. CASE WrapHead
  <2>1. CASE pc = "wrapStore"
    <3>1. m = head /\ head' = m % SIZE /\ head % SIZE = WrappedHead /\ head \in 0 .. SIZE
      BY <1>2, <2>1, WrappedIs DEF WrapHead, CallInv, IndexInv
    <3>2. WrappedHead' = WrappedHead
      BY <3>1 DEF WrappedHead
    <3>3. QED
      BY <1>2, <2>1, <3>2 DEF WrapHead, CallInv, Length
  <2>2. CASE pc # "wrapStore"
    BY <1>2, <2>2 DEF WrapHead, CallInv
  <2>3. QED
    BY <2>1, <2>2
<1>3. CASE LoopEnd
  BY <1>3 DEF LoopEnd, CallInv
<1>4. CASE RestoreHead
  BY <1>4 DEF RestoreHead, CallInv
<1>5. CASE MoveHead
  BY <1>5 DEF MoveHead, CallInv, Length
<1>6. QED
  BY <1>1, <1>2, <1>3, <1>4, <1>5

LEMMA CallStep == IndexInv /\ CallInv /\ [Next]_vars => CallInv'
<1> SUFFICES ASSUME IndexInv, CallInv, [Next]_vars PROVE CallInv'
  OBVIOUS
<1>1. CASE Next
  BY <1>1, CallArrival, CallBegins, CallReads, CallEnds DEF Next, ThreadNext
<1>2. CASE UNCHANGED vars
  BY <1>2 DEF vars, thread, CallInv, WrappedHead, Length, Reading
<1>3. QED BY <1>1, <1>2
----------------------------------------------------------------------------
LEMMA AgoIs ==
  ASSUME IndexInv, NEW j \in 1 .. SIZE
  PROVE  Ago(j) \in Nat /\ Ago(j) <= MaxBytes
         /\ Ago(j) = cells[IF j <= tail THEN tail - j ELSE SIZE + tail - j]
<1>1. tail \in Index /\ cells \in [Index -> 0 .. MaxBytes]
  BY DEF IndexInv, TypeOK
<1>2. QED
  BY <1>1, CellBefore, RingAssumption DEF Ago

LEMMA NewestIs ==
  ASSUME IndexInv
  PROVE  Newest \in 0 .. SIZE /\ (~lapped => Newest = Length(From, tail) /\ Newest < SIZE)
BY FromIs, RingAssumption DEF Newest, Index

\* A byte is added behind the others, in place of the first if the buffer is full.
LEMMA FromArrival ==
  ASSUME IndexInv, AddByteToBuf, ~lapped'
  PROVE  \/ /\ Length(From, tail) # SIZE - 1
            /\ From' = From /\ Length(From', tail') = Length(From, tail) + 1
         \/ /\ Length(From, tail) = SIZE - 1
            /\ From' = (From + 1) % SIZE /\ Length(From', tail') = SIZE - 1
<1> USE RingAssumption
<1>1. tail \in Index /\ tail' = (tail + 1) % SIZE /\ tail' \in Index
      /\ head' = (IF tail' = head THEN (head + 1) % SIZE ELSE head)
      /\ UNCHANGED <<pc, op, saved>>
  BY NextCell DEF AddByteToBuf, IndexInv, TypeOK, thread
<1>2. From \in Index /\ Length(From, tail) \in Index
  BY FromIs
<1>3. pc \in Outside \/ Length(From, tail) # SIZE - 1
  BY DEF AddByteToBuf, Overruns
<1>4. CASE Length(From, tail) # SIZE - 1
  <2>1. tail' # From /\ Length(From, tail') = Length(From, tail) + 1
        /\ Length(From, tail) + 1 < SIZE
    BY <1>1, <1>2, <1>4, OneMore
  <2>2. From' = From
    <3>1. CASE op = "look" /\ pc \in Reading \cup {"restore"}
      BY <1>1, <3>1 DEF From, Reading
    <3>2. CASE ~(op = "look" /\ pc \in Reading \cup {"restore"})
      <4>1. From = head % SIZE /\ (head \in Index => head % SIZE = head)
        BY <3>2, FromIs
      <4>2. head' = head
        BY <1>1, <2>1, <4>1
      <4>3. QED
        BY <1>1, <3>2, <4>2 DEF From, Reading
    <3>3. QED
      BY <3>1, <3>2
  <2>3. QED
    BY <1>4, <2>1, <2>2
<1>5. CASE Length(From, tail) = SIZE - 1
  <2>1. pc \in Outside /\ head \in Index /\ From = head
    BY <1>3, <1>5, FromIs DEF IndexInv, TypeOK, Outside, Reading
  <2>2. tail' = head
    BY <1>1, <1>5, <2>1, FullMeets
  <2>3. head' = (head + 1) % SIZE /\ head' \in Index
    BY <1>1, <2>1, <2>2, NextCell
  <2>4. From' = head'
    <3>1. From' = head' % SIZE
      BY <1>1, <2>1 DEF From, Outside, Reading
    <3>2. head' % SIZE = head'
      BY <2>3, Remainder DEF Index
    <3>3. QED BY <3>1, <3>2
  <2>5. Length(From', tail') = SIZE - 1
    BY <2>1, <2>2, <2>3, <2>4, FullMeets
  <2>6. QED
    BY <1>5, <2>1, <2>3, <2>4, <2>5
<1>6. QED
  BY <1>4, <1>5

\* So the bytes that were sure to be in order are one byte older: never more of
\* them than the buffer has cells.
LEMMA NewestArrival ==
  ASSUME IndexInv, AddByteToBuf
  PROVE  Newest' \in 0 .. SIZE /\ Newest' <= Newest + 1
<1> USE RingAssumption
<1>1. Newest \in 0 .. SIZE /\ (~lapped => Newest = Length(From, tail))
  BY NewestIs
<1>2. lapped' = (lapped \/ Overruns)
  BY DEF AddByteToBuf
<1>3. From \in Index /\ Length(From, tail) \in Index
  BY FromIs
<1>4. CASE lapped'
  <2>1. Newest' = SIZE /\ SIZE \in 0 .. SIZE
    BY <1>4 DEF Newest
  <2>2. CASE lapped
    BY <2>1, <2>2 DEF Newest
  <2>3. CASE ~lapped
    <3>1. Overruns
      BY <1>4, <2>3 DEF AddByteToBuf
    <3>2. Newest = SIZE - 1 /\ SIZE <= (SIZE - 1) + 1
      BY <1>1, <2>3, <3>1 DEF Overruns
    <3>3. QED BY <2>1, <3>2
  <2>4. QED BY <2>2, <2>3
<1>5. CASE ~lapped'
  <2>1. Newest' = Length(From', tail') /\ Newest = Length(From, tail)
    BY <1>1, <1>2, <1>5 DEF Newest, Length
  <2>2. Length(From', tail') \in 0 .. SIZE /\ Length(From', tail') <= Length(From, tail) + 1
    <3>1. CASE Length(From, tail) # SIZE - 1
      BY <1>3, <1>5, <3>1, FromArrival DEF Index
    <3>2. CASE Length(From, tail) = SIZE - 1
      BY <1>5, <3>2, FromArrival
    <3>3. QED BY <3>1, <3>2
  <2>3. QED
    BY <2>1, <2>2
<1>6. QED
  BY <1>4, <1>5

LEMMA FreshArrival ==
  ASSUME IndexInv, IndexInv', FreshInv, AddByteToBuf
  PROVE  FreshInv'
<1> USE RingAssumption
<1>1. Newest \in 0 .. SIZE /\ Newest' \in 0 .. SIZE /\ Newest' <= Newest + 1
  BY NewestArrival, NewestIs
<1>2. tail \in Index /\ tail' = (tail + 1) % SIZE /\ tail' \in Index
      /\ tail' = (IF tail + 1 = SIZE THEN 0 ELSE tail + 1)
      /\ count \in Nat /\ count' = count + 1 /\ cells \in [Index -> 0 .. MaxBytes]
      /\ cells' = [cells EXCEPT ![tail] = count'] /\ UNCHANGED pc
  BY NextCell DEF AddByteToBuf, IndexInv, TypeOK, thread
<1>3. ASSUME NEW j \in 1 .. SIZE
      PROVE  /\ j = 1 => Ago(j)' = count'
             /\ j > 1 => j - 1 \in 1 .. SIZE /\ Ago(j)' = Ago(j - 1) /\ Ago(j - 1) \in Nat
  <2>1. Ago(j)' = cells'[IF j <= tail' THEN tail' - j ELSE SIZE + tail' - j]
    BY <1>2, CellBefore DEF Ago
  <2>2. CASE j = 1
    <3>1. (IF j <= tail' THEN tail' - j ELSE SIZE + tail' - j) = tail
      BY <1>2, <2>2 DEF Index
    <3>2. QED
      BY <1>2, <2>1, <2>2, <3>1
  <2>3. CASE j > 1
    <3>1. j - 1 \in 1 .. SIZE /\ j - 1 < SIZE
      BY <2>3
    <3>2. Ago(j - 1) \in Nat
          /\ Ago(j - 1) = cells[IF j - 1 <= tail THEN tail - (j - 1) ELSE SIZE + tail - (j - 1)]
      BY <3>1, AgoIs
    <3>3. (IF j <= tail' THEN tail' - j ELSE SIZE + tail' - j)
            = (IF j - 1 <= tail THEN tail - (j - 1) ELSE SIZE + tail - (j - 1))
      <4>1. tail \in Nat /\ j \in Nat /\ SIZE \in Nat /\ j <= SIZE
        BY <1>2 DEF Index
      <4>2. CASE tail + 1 = SIZE
        BY <1>2, <2>3, <4>1, <4>2
      <4>3. CASE tail + 1 # SIZE
        BY <1>2, <2>3, <4>1, <4>3
      <4>4. QED BY <4>2, <4>3
    <3>4. (IF j - 1 <= tail THEN tail - (j - 1) ELSE SIZE + tail - (j - 1)) # tail
      BY <1>2, <3>1 DEF Index
    <3>5. (IF j - 1 <= tail THEN tail - (j - 1) ELSE SIZE + tail - (j - 1)) \in Index
      BY <1>2, <3>1 DEF Index
    <3>6. QED
      BY <1>2, <2>1, <2>3, <3>1, <3>2, <3>3, <3>4, <3>5
  <2>4. QED
    BY <2>2, <2>3
<1>4. ASSUME NEW j \in 1 .. Newest'
      PROVE  Ago(j)' <= count' /\ \A i \in 1 .. j - 1 : Ago(j)' < Ago(i)'
  <2>1. j \in 1 .. SIZE
    BY <1>1
  <2>2. CASE j = 1
    BY <1>2, <1>3, <2>1, <2>2
  <2>3. CASE j > 1
    <3>1. Ago(j)' = Ago(j - 1) /\ Ago(j - 1) \in Nat /\ j - 1 \in 1 .. Newest
      BY <1>1, <1>3, <2>1, <2>3
    <3>2. Ago(j - 1) <= count /\ \A i \in 1 .. (j - 1) - 1 : Ago(j - 1) < Ago(i)
      BY <3>1 DEF FreshInv
    <3>3. ASSUME NEW i \in 1 .. j - 1
          PROVE  Ago(j)' < Ago(i)'
      <4>1. i \in 1 .. SIZE
        BY <2>1
      <4>2. CASE i = 1
        BY <1>2, <1>3, <3>1, <3>2, <4>1, <4>2
      <4>3. CASE i > 1
        <5>1. i - 1 \in 1 .. (j - 1) - 1 /\ Ago(i)' = Ago(i - 1)
          BY <1>3, <2>1, <4>1, <4>3
        <5>2. QED
          BY <3>1, <3>2, <5>1
      <4>4. QED
        BY <4>1, <4>2, <4>3
    <3>4. QED
      BY <1>2, <3>1, <3>2, <3>3
  <2>4. QED
    BY <2>1, <2>2, <2>3
<1>5. ASSUME pc = "clear", lapped'
      PROVE  Length(head, tail)' = SIZE - 1
  <2>1. head \in Index /\ From = head
    BY <1>5, FromIs DEF IndexInv, Reading
  <2>2. Length(head, tail) = SIZE - 1
    BY <1>5, <2>1 DEF AddByteToBuf, Overruns, FreshInv
  <2>3. tail' = head /\ head' = (head + 1) % SIZE
    BY <1>2, <2>1, <2>2, FullMeets DEF AddByteToBuf
  <2>4. Length(head', tail') = SIZE - 1
    BY <2>1, <2>3, FullMeets
  <2>5. QED
    BY <2>4 DEF Length
<1>6. QED
  BY <1>2, <1>4, <1>5 DEF FreshInv

\* The thread moves the beginning of what the buffer owes by the byte it takes
\* and by the bytes it deletes, and by nothing else.
LEMMA FromMoves ==
  ASSUME IndexInv, CallInv, ThreadNext, ~lapped
  PROVE  \/ From' = From /\ (pc = "store" => op = "look") /\ pc # "moveStore"
         \/ pc = "store" /\ op # "look" /\ From = head /\ From' = (From + 1) % SIZE
         \/ /\ pc = "moveStore" /\ From = head /\ From' = (From + asked) % SIZE
            /\ asked \in Nat /\ asked <= Length(From, tail)
<1> USE RingAssumption DEF Reading
<1>0. head \in Nat /\ saved \in Index
  BY DEF IndexInv, TypeOK
<1>1. ASSUME NEW o \in {"look", "take", "delete"}, NEW n \in 1 .. SIZE, Call(o, n)
      PROVE  From' = From /\ pc = "idle"
  BY <1>1 DEF Call, From
<1>2. CASE ClearDateFromBuf \/ ReadTail \/ CorrectLength
  BY <1>2 DEF ClearDateFromBuf, ReadTail, CorrectLength, First, From
<1>3. CASE SaveHead
  <2>1. saved' = head /\ head \in Index /\ pc = "save"
    BY <1>3 DEF SaveHead, CallInv, IndexInv
  <2>2. From' = saved' /\ From = head % SIZE
    BY <1>3 DEF SaveHead, IndexInv, From
  <2>3. QED
    BY <2>1, <2>2, FromIs
<1>4. CASE GetByte \/ TestByte \/ LoadHead \/ LoadWrap
  BY <1>4 DEF GetByte, TestByte, LoadHead, LoadWrap, From
<1>5. CASE StoreHead
  <2>1. CASE op = "look"
    BY <1>5, <2>1 DEF StoreHead, From
  <2>2. CASE op # "look"
    <3>1. head' = head + 1 /\ head \in Index
      BY <1>5, ByteIsThere DEF StoreHead
    <3>2. From = head /\ From' = (head + 1) % SIZE
      BY <1>5, <2>2, <3>1, FromIs DEF StoreHead, From
    <3>3. QED
      BY <1>5, <2>2, <3>2 DEF StoreHead
  <2>3. QED
    BY <2>1, <2>2
<1>6. CASE WrapHead
  <2>1. CASE op = "look" /\ pc # "delStore"
    BY <1>6, <2>1 DEF WrapHead, From
  <2>2. CASE op # "look" \/ pc = "delStore"
    <3>1. m = head /\ head' = head % SIZE
      BY <1>6 DEF WrapHead, CallInv
    <3>2. From = head % SIZE /\ From' = head' % SIZE
      BY <1>6, <2>2 DEF WrapHead, From
    <3>3. (head % SIZE) % SIZE = head % SIZE
      <4> DEFINE w == head % SIZE
      <4>1. w \in Index
        BY <1>0, Wraps
      <4> HIDE DEF w
      <4>2. w % SIZE = w
        BY <4>1, Remainder DEF Index
      <4>3. QED BY <4>2 DEF w
    <3>4. QED
      BY <1>6, <3>1, <3>2, <3>3 DEF WrapHead
  <2>3. QED
    BY <2>1, <2>2
<1>7. CASE LoopEnd
  BY <1>7 DEF LoopEnd, From
<1>8. CASE RestoreHead
  <2>1. From = saved /\ From' = saved % SIZE
    BY <1>8 DEF RestoreHead, IndexInv, From
  <2>2. saved % SIZE = saved
    BY <1>0, Remainder DEF Index
  <2>3. QED
    BY <1>8, <2>1, <2>2 DEF RestoreHead
<1>9. CASE MoveHead
  <2>1. CASE pc = "move"
    BY <1>9, <2>1 DEF MoveHead, From
  <2>2. CASE pc # "move"
    <3>1. pc = "moveStore" /\ head' = m
      BY <1>9, <2>2 DEF MoveHead
    <3>2. /\ m = head + asked /\ head \in Index /\ asked \in Nat
          /\ asked <= Length(head, tail) /\ From = head
      <4>1. m = head + asked /\ asked <= Length(head, tail)
        BY <3>1 DEF CallInv
      <4>2. head \in Index /\ asked \in Nat
        BY <3>1 DEF IndexInv, TypeOK
      <4>3. From = head
        BY <3>1, <4>2, FromIs
      <4>4. QED BY <4>1, <4>2, <4>3
    <3>3. From' = (head + asked) % SIZE
      BY <1>9, <3>1, <3>2 DEF MoveHead, From
    <3>4. QED
      BY <3>1, <3>2, <3>3
  <2>3. QED
    BY <2>1, <2>2
<1>10. QED
  BY <1>1, <1>2, <1>3, <1>4, <1>5, <1>6, <1>7, <1>8, <1>9 DEF ThreadNext

LEMMA FromShrinks ==
  ASSUME IndexInv, CallInv, ThreadNext, ~lapped
  PROVE  Length(From', tail) <= Length(From, tail)
<1>1. From \in Index /\ tail \in Index /\ Length(From, tail) \in Nat
  BY FromIs DEF IndexInv, TypeOK, Index
<1>2. CASE From' = From
  BY <1>1, <1>2
<1>3. CASE From' # From
  <2>1. PICK n \in Nat : n <= Length(From, tail) /\ From' = (From + n) % SIZE
    <3>1. CASE pc = "store"
      <4>1. From = head /\ From' = (From + 1) % SIZE
        BY <1>3, <3>1, FromMoves
      <4>2. 1 <= Length(From, tail)
        BY <3>1, <4>1, ByteIsThere
      <4>3. QED
        BY <4>1, <4>2
    <3>2. CASE pc # "store"
      BY <1>3, <3>2, FromMoves
    <3>3. QED BY <3>1, <3>2
  <2>2. Length((From + n) % SIZE, tail) = Length(From, tail) - n
    BY <1>1, <2>1, Fewer
  <2>3. QED
    BY <1>1, <2>1, <2>2
<1>4. QED
  BY <1>2, <1>3

LEMMA FreshKept ==
  ASSUME IndexInv, IndexInv', CallInv, FreshInv, ThreadNext,
         UNCHANGED <<cells, tail, count>>
  PROVE  FreshInv'
<1>1. lapped' => lapped /\ pc' # "clear"
  BY DEF ThreadNext, Call, ClearDateFromBuf, ReadTail, CorrectLength, First, SaveHead,
         GetByte, TestByte, LoadHead, StoreHead, LoadWrap, WrapHead, LoopEnd,
         RestoreHead, MoveHead, IndexInv, Outside
<1>2. Newest \in 0 .. SIZE /\ Newest' \in 0 .. SIZE
      /\ (~lapped => Newest = Length(From, tail)) /\ (~lapped' => Newest' = Length(From', tail'))
  <2>1. (~lapped' => Newest' = Length(From', tail'))
    BY DEF Newest, Length
  <2>2. Newest' \in 0 .. SIZE
    <3>1. lapped' => Newest' = SIZE
      BY DEF Newest
    <3>2. From' \in Index /\ tail' \in Index
      <4>1. head' \in Nat /\ saved' \in Index /\ tail' \in Index
        BY DEF IndexInv, TypeOK
      <4>2. head' % SIZE \in Index
        BY <4>1, Wraps
      <4>3. QED BY <4>1, <4>2 DEF From
    <3>3. Length(From', tail') \in Index
      BY <3>2, LengthIs
    <3>4. QED
      BY <2>1, <3>1, <3>3, RingAssumption DEF Index
  <2>3. QED BY <2>1, <2>2, NewestIs
<1>3. Newest' <= Newest
  <2>1. CASE lapped
    BY <1>2, <2>1 DEF Newest
  <2>2. CASE ~lapped
    BY <1>1, <1>2, <2>2, FromShrinks
  <2>3. QED BY <2>1, <2>2
<1>4. \A j \in 1 .. SIZE : Ago(j)' = Ago(j)
  BY DEF Ago
<1>5. ASSUME NEW j \in 1 .. Newest'
      PROVE  Ago(j)' <= count' /\ \A i \in 1 .. j - 1 : Ago(j)' < Ago(i)'
  <2> SIZE \in Nat /\ Newest \in Int /\ Newest' \in Int /\ Newest <= SIZE
    BY <1>2, RingAssumption
  <2>1. j \in 1 .. Newest /\ j \in 1 .. SIZE /\ \A i \in 1 .. j - 1 : i \in 1 .. SIZE
    BY <1>3
  <2>2. Ago(j) <= count /\ \A i \in 1 .. j - 1 : Ago(j) < Ago(i)
    BY <2>1 DEF FreshInv
  <2>3. QED
    BY <1>4, <2>1, <2>2
<1>6. QED
  BY <1>1, <1>5 DEF FreshInv

\* The tail comes back onto the head that was loaded: onto the head itself, or,
\* when the buffer was overrun in between, onto a cell that many bytes before it.
LEMMA FreshClear ==
  ASSUME IndexInv, IndexInv', CallInv, FreshInv, ClearDateFromBuf, pc = "clear"
  PROVE  FreshInv'
<1> USE RingAssumption
<1>1. /\ pc' = "idle" /\ ~lapped' /\ tail' = h /\ UNCHANGED <<cells, head, count, op>>
      /\ head \in Index /\ h \in Index /\ tail \in Index
  BY DEF ClearDateFromBuf, IndexInv, TypeOK
<1>2. From' = head /\ Newest' = Length(head, h)
  <2>1. From' = head
    BY <1>1, FromIs DEF From, Reading
  <2>2. QED
    BY <1>1, <2>1 DEF Newest, Length
<1>3. Length(head, h) = (IF h >= head THEN h - head ELSE SIZE + h - head)
      /\ Length(head, h) \in Index
  BY <1>1, LengthIs
<1>4. CASE ~lapped
  <2>1. Length(head, h) = 0
    BY <1>1, <1>3, <1>4 DEF CallInv, Index
  <2>2. QED
    BY <1>1, <1>2, <2>1 DEF FreshInv
<1>5. CASE lapped
  <2> DEFINE e == SIZE - 1 - Length(head, h)
  <2>1. Length(head, tail) = SIZE - 1 /\ Newest = SIZE
    BY <1>5 DEF FreshInv, Newest, ClearDateFromBuf
  <2>2. Length(head, tail) = (IF tail >= head THEN tail - head ELSE SIZE + tail - head)
    BY <1>1, LengthIs
  <2>3. e \in Nat
    BY <1>3 DEF Index
  <2>4. ASSUME NEW j \in 1 .. Length(head, h)
        PROVE  j + e \in 1 .. SIZE /\ Ago(j)' = Ago(j + e)
    <3>1. j \in 1 .. SIZE /\ j + e \in 1 .. SIZE
      BY <1>3, <2>3 DEF Index
    <3>2. Ago(j)' = cells[IF j <= h THEN h - j ELSE SIZE + h - j]
      BY <1>1, <3>1, CellBefore DEF Ago
    <3>3. Ago(j + e) = cells[IF j + e <= tail THEN tail - (j + e) ELSE SIZE + tail - (j + e)]
      BY <3>1, AgoIs
    <3>4. (IF j <= h THEN h - j ELSE SIZE + h - j)
            = (IF j + e <= tail THEN tail - (j + e) ELSE SIZE + tail - (j + e))
      BY <1>1, <1>3, <2>1, <2>2, <2>3, <3>1 DEF Index
    <3>5. QED
      BY <3>1, <3>2, <3>3, <3>4
  <2> HIDE DEF e
  <2>5. ASSUME NEW j \in 1 .. Length(head, h)
        PROVE  Ago(j)' <= count /\ \A i \in 1 .. j - 1 : Ago(j)' < Ago(i)'
    <3>1. j + e \in 1 .. Newest /\ Ago(j)' = Ago(j + e)
      BY <2>1, <2>4
    <3>2. Ago(j + e) <= count /\ \A i \in 1 .. (j + e) - 1 : Ago(j + e) < Ago(i)
      BY <3>1 DEF FreshInv
    <3>3. ASSUME NEW i \in 1 .. j - 1
          PROVE  Ago(j)' < Ago(i)'
      <4>1. i \in 1 .. Length(head, h) /\ i + e \in 1 .. (j + e) - 1
        BY <1>3, <2>3 DEF Index
      <4>2. Ago(i)' = Ago(i + e)
        BY <2>4, <4>1
      <4>3. QED
        BY <3>1, <3>2, <4>1, <4>2
    <3>4. QED
      BY <3>1, <3>2, <3>3
  <2>6. QED
    BY <1>1, <1>2, <2>5 DEF FreshInv
<1>6. QED
  BY <1>4, <1>5

LEMMA FreshStep ==
  IndexInv /\ IndexInv' /\ CallInv /\ FreshInv /\ [Next]_vars => FreshInv'
<1> SUFFICES ASSUME IndexInv, IndexInv', CallInv, FreshInv, [Next]_vars PROVE FreshInv'
  OBVIOUS
<1>1. CASE AddByteToBuf
  BY <1>1, FreshArrival
<1>2. CASE ClearDateFromBuf /\ pc = "clear"
  BY <1>2, FreshClear
<1>3. CASE ThreadNext /\ ~(ClearDateFromBuf /\ pc = "clear")
  <2>1. UNCHANGED <<cells, tail, count>>
    BY <1>3 DEF ThreadNext, Call, ClearDateFromBuf, ReadTail, CorrectLength, SaveHead,
                GetByte, TestByte, LoadHead, StoreHead, LoadWrap, WrapHead, LoopEnd,
                RestoreHead, MoveHead
  <2>2. QED
    BY <1>3, <2>1, FreshKept
<1>4. CASE UNCHANGED vars
  BY <1>4 DEF vars, thread, FreshInv, Newest, Ago, From, Length
<1>5. QED
  BY <1>1, <1>2, <1>3, <1>4 DEF Next

LEMMA RingStep == RingInv /\ [Next]_vars => RingInv'
BY IndexStep, CallStep, FreshStep DEF RingInv

\* The invariant of the ring: at whatever statement of a call bytes arrive, the
\* bytes the call was promised stay where it will read them, unless the buffer is
\* overrun; and if it is, the whole ring holds the latest bytes in order
\* (usdl_buf.c:53-76, 91-207).
THEOREM RingInvariant == Spec => []RingInv
<1>1. Init => RingInv
  <2> SUFFICES ASSUME Init PROVE RingInv
    OBVIOUS
  <2>1. IndexInv /\ Length(head, tail) = 0
    BY IndexInit, LengthIs, RingAssumption DEF Init, IndexInv, TypeOK, Index
  <2>2. CallInv
    BY DEF Init, CallInv, Reading
  <2>3. Newest = 0 /\ pc # "clear"
    <3>1. From = head
      BY <2>1, FromIs DEF Init, From, Reading, IndexInv
    <3>2. QED
      BY <2>1, <3>1 DEF Init, Newest
  <2>4. FreshInv
    BY <2>3 DEF FreshInv
  <2>5. QED
    BY <2>1, <2>2, <2>4 DEF RingInv
<1>2. QED BY <1>1, RingStep, PTL DEF Spec

\* No call that is not overrun reads a cell that holds no byte (GetByteFromBuf,
\* usdl_buf.c:109): what a call was promised by GetLenFromBuf stays there until it
\* is read.
THEOREM NoUnderrun == Spec => []NeverUnderruns
<1>1. RingInv => NeverUnderruns
  BY ByteIsThere DEF RingInv, NeverUnderruns
<1>2. QED
  BY <1>1, RingInvariant, PTL

\* Between calls the bytes in the buffer are in the order they came, each once,
\* however often and at whatever statement of the calls before it was overrun: a
\* lost update of the head, or a head restored onto an older one, can only lose or
\* bring back a run of bytes at the old end (usdl_buf.c:53-58, 171-177, 193).
THEOREM BytesInOrder == Spec => []RestsInOrder
<1>1. RingInv => RestsInOrder
  <2> SUFFICES ASSUME RingInv, pc = "idle"
               PROVE  \A j \in DOMAIN Contents : \A i \in 1 .. j - 1 : Contents[i] < Contents[j]
    BY DEF RestsInOrder
  <2> USE RingAssumption DEF RingInv
  <2> DEFINE L == Length(head, tail)
  <2>1. head \in Index /\ tail \in Index /\ From = head /\ Newest = L
    BY FromIs, NewestIs DEF IndexInv, TypeOK, Outside, Reading
  <2>2. L = (IF tail >= head THEN tail - head ELSE SIZE + tail - head) /\ L \in Index
    BY <2>1, LengthIs
  <2>3. ASSUME NEW j \in 1 .. L
        PROVE  L - j + 1 \in 1 .. L /\ Contents[j] = Ago(L - j + 1)
    <3>1. L - j + 1 \in 1 .. L /\ L - j + 1 \in 1 .. SIZE
      BY <2>2 DEF Index
    <3>2. Ago(L - j + 1)
            = cells[IF L - j + 1 <= tail THEN tail - (L - j + 1) ELSE SIZE + tail - (L - j + 1)]
      BY <3>1, AgoIs
    <3>3. PICK x \in 0 .. 2 * SIZE - 1 : x = head + j - 1
      BY <2>1, <2>2 DEF Index
    <3>4. x % SIZE = IF x < SIZE THEN x ELSE x - SIZE
      BY Remainder
    <3>5. x % SIZE
            = IF L - j + 1 <= tail THEN tail - (L - j + 1) ELSE SIZE + tail - (L - j + 1)
      BY <2>1, <2>2, <3>1, <3>3, <3>4 DEF Index
    <3>6. Contents[j] = cells[x % SIZE]
      BY <2>1, <3>3 DEF Contents
    <3>7. QED
      BY <3>1, <3>2, <3>5, <3>6
  <2>4. DOMAIN Contents = 1 .. L
    BY <2>1 DEF Contents
  <2> HIDE DEF L
  <2>5. ASSUME NEW j \in 1 .. L, NEW i \in 1 .. j - 1
        PROVE  Contents[i] < Contents[j]
    <3>1. i \in 1 .. L /\ L - j + 1 \in 1 .. (L - i + 1) - 1 /\ L - i + 1 \in 1 .. Newest
      BY <2>1, <2>2 DEF Index, L
    <3>2. Ago(L - i + 1) < Ago(L - j + 1)
      BY <3>1 DEF FreshInv
    <3>3. QED
      BY <2>3, <3>1, <3>2
  <2>6. QED
    BY <2>4, <2>5
<1>2. QED
  BY <1>1, RingInvariant, PTL
=============================================================================
