-------------------------- MODULE CanRxRingProofs --------------------------
(* Theorems about CanRxRing, for every size and any number of messages. *)
EXTENDS CanRxRing, Laps

LEMMA NextCell == \A x \in Index : (x + 1) % SIZE = IF x + 1 = SIZE THEN 0 ELSE x + 1
BY CanAssumption, SMT DEF Index

LEMMA Wraps == \A x \in 0 .. SIZE : x % SIZE = IF x = SIZE THEN 0 ELSE x
BY CanAssumption, SMT

LEMMA OneLap == \A x \in Index : x % SIZE = x /\ (x + SIZE) % SIZE = x
BY CanAssumption, SMT DEF Index

LEMMA OrderInit == Init => OrderInv
<1> SUFFICES ASSUME Init PROVE OrderInv
  OBVIOUS
<1>1. 0 \in Index /\ 0 \in Messages
  BY CanAssumption DEF Index, Messages
<1>2. TypeOK
  BY <1>1, CanAssumption DEF Init, TypeOK, Receiving, Clearing
<1>3. Filled /\ Behind /\ Kept
  BY <1>1 DEF Init, Filled, Behind, Kept, Index
<1>4. QED BY <1>2, <1>3 DEF OrderInv

\* What the handler does to the indices.
LEMMA IsrIndices ==
  ASSUME TypeOK, RecvIsr
  PROVE  /\ write' \in Index /\ write' = (IF write + 1 = SIZE THEN 0 ELSE write + 1)
         /\ read' \in 0 .. SIZE /\ (read \in Index => read' \in Index)
         /\ read' = read \/ write' = read
         /\ count' \in Messages /\ count' = count + 1
<1>1. write' = (IF write + 1 = SIZE THEN 0 ELSE write + 1) /\ write' \in Index
  BY NextCell, CanAssumption DEF TypeOK, RecvIsr, Index
<1>2. CASE write' = read
  <2>1. read \in Index /\ read' = (read + 1) % SIZE
    BY <1>1, <1>2 DEF RecvIsr
  <2>2. read' \in Index
    BY <2>1, NextCell, CanAssumption DEF Index
  <2>3. QED BY <1>1, <1>2, <2>1, <2>2, CanAssumption, SMTT(30) DEF TypeOK, RecvIsr, Messages, Index
<1>3. CASE write' # read
  BY <1>1, <1>3, CanAssumption DEF TypeOK, RecvIsr, Messages
<1>4. QED BY <1>2, <1>3

LEMMA IsrStep ==
  ASSUME OrderInv, RecvIsr
  PROVE  OrderInv'
<1> USE CanAssumption DEF OrderInv
<1>1. /\ write' \in Index /\ write' = (IF write + 1 = SIZE THEN 0 ELSE write + 1)
      /\ read' \in 0 .. SIZE /\ (read \in Index => read' \in Index)
      /\ read' = read \/ write' = read
      /\ count' \in Messages /\ count' = count + 1
  BY IsrIndices
<1>2. cells' = [cells EXCEPT ![write] = count'] /\ UNCHANGED thread
  BY DEF RecvIsr
<1>3. lapped' = (lapped \/ (pc \in Receiving /\ (write' = read \/ write = r)))
  BY DEF RecvIsr
<1>4. cells' \in [Index -> Messages]
  BY <1>1, <1>2 DEF TypeOK
<1>5. lapped' \in BOOLEAN
  BY <1>3 DEF TypeOK
<1>6. UNCHANGED <<pc, r, m, copy, due>>
  BY <1>2 DEF thread
<1>7. TypeOK'
  BY <1>1, <1>4, <1>5, <1>6 DEF TypeOK
<1>8. write \in 0 .. SIZE - 1 /\ count \in Nat /\ count + 1 \in Nat
  BY DEF TypeOK, Index, Messages
<1>9. Filled'
  <2>1. count' = write' \/ count' - write' >= SIZE
    BY <1>1, <1>8 DEF Filled
  <2>2. ASSUME NEW i \in Index
        PROVE  IF i < write' THEN cells'[i] = count' - write' + i + 1
               ELSE count' # write' => cells'[i] = count' - write' + i + 1 - SIZE
    <3>1. i \in 0 .. SIZE - 1
      BY DEF Index
    <3>2. CASE i = write
      <4>1. cells'[i] = count + 1
        BY <1>1, <1>2, <3>2 DEF TypeOK
      <4>2. QED BY <1>1, <1>8, <3>1, <3>2, <4>1
    <3>3. CASE i # write
      <4>1. cells'[i] = cells[i] /\ cells[i] \in Nat
        BY <1>2, <3>3 DEF TypeOK, Messages
      <4>2. QED BY <1>1, <1>8, <3>1, <3>3, <4>1 DEF Filled
    <3>4. QED BY <3>2, <3>3
  <2>3. QED BY <2>1, <2>2 DEF Filled
<1>10. Behind'
  <2> SUFFICES ASSUME count' = write' PROVE Behind'
    BY DEF Behind
  <2>1. count = write /\ write' = write + 1
    BY <1>1, <1>8 DEF Filled
  <2>2. read' = read
    BY <1>1, <1>8, <2>1 DEF Behind, TypeOK
  <2>3. QED BY <1>6, <1>8, <2>1, <2>2 DEF Behind, TypeOK, Index
<1>11. Kept'
  <2> SUFFICES ASSUME ~lapped' PROVE Kept'
    BY DEF Kept
  <2>1. ~lapped /\ (pc \in Receiving => write # r)
    BY <1>3
  <2>2. pc \in Receiving => cells'[r] = cells[r]
    BY <1>2, <2>1 DEF TypeOK
  <2>3. QED BY <1>6, <2>1, <2>2 DEF Kept, Receiving
<1>12. QED BY <1>7, <1>9, <1>10, <1>11

LEMMA RecvStep ==
  ASSUME OrderInv, Recv \/ Test \/ Load \/ Store
  PROVE  OrderInv'
<1> USE CanAssumption DEF OrderInv
<1>1. CASE Recv
  <2>1. TypeOK'
    BY <1>1 DEF Recv, TypeOK, Receiving, Clearing
  <2>2. QED BY <1>1, <2>1 DEF Recv, TypeOK, Filled, Behind, Kept
<1>2. CASE Test
  <2>1. TypeOK'
    BY <1>2 DEF Test, TypeOK, Receiving, Clearing
  <2>2. Behind' /\ Filled'
    BY <1>2 DEF Test, TypeOK, Filled, Behind, Index
  <2>3. QED BY <1>2, <2>1, <2>2 DEF Test, Kept
<1>3. CASE Load
  <2>1. r' \in Index /\ cells[r'] \in Messages
    BY <1>3 DEF Load, TypeOK
  <2>2. due' \in Seq(Messages) /\ Len(due') = 1
    BY <1>3, <2>1 DEF Load
  <2>3. TypeOK'
    BY <1>3, <2>1, <2>2 DEF Load, TypeOK, Receiving, Clearing
  <2>4. QED BY <1>3, <2>3 DEF Load, Filled, Behind, Kept
<1>4. CASE Store
  <2>1. r \in 0 .. SIZE - 1 /\ write \in 0 .. SIZE - 1 /\ r + 1 \in 0 .. SIZE
    BY DEF TypeOK, Index
  <2>2. TypeOK'
    BY <1>4, <2>1 DEF Store, TypeOK, Receiving, Clearing
  <2>3. QED BY <1>4, <2>1, <2>2 DEF Store, Filled, Behind, Kept
<1>5. QED BY <1>1, <1>2, <1>3, <1>4

LEMMA CopyStep ==
  ASSUME OrderInv, NEW i \in 1 .. 2, Copy(i)
  PROVE  OrderInv'
<1> USE CanAssumption DEF OrderInv
<1>1. cells[r] \in Messages /\ copy' = [copy EXCEPT ![i] = cells[r]]
  BY DEF Copy, TypeOK
<1>2. copy' \in [1 .. 2 -> Messages] /\ copy'[i] = cells[r] /\ (i = 2 => copy'[1] = copy[1])
  BY <1>1 DEF TypeOK
<1>3. UNCHANGED <<cells, read, write, count, r, m, due, lapped>>
  BY DEF Copy
<1>4. (i = 1 /\ pc = "copy1" /\ pc' = "copy2") \/ (i = 2 /\ pc = "copy2" /\ pc' = "wrapLoad")
  BY DEF Copy
<1>5. TypeOK'
  BY <1>2, <1>3, <1>4 DEF TypeOK, Receiving, Clearing
<1>6. Filled' /\ Behind'
  BY <1>3, <1>4 DEF Filled, Behind
<1>7. Kept'
  <2> SUFFICES ASSUME ~lapped PROVE Kept'
    BY <1>3 DEF Kept
  <2>1. due = <<cells[r]>> /\ due[1] = cells[r]
    BY <1>4 DEF Kept
  <2>2. QED BY <1>2, <1>3, <1>4, <2>1 DEF Kept
<1>8. QED BY <1>5, <1>6, <1>7

LEMMA ReturnStep ==
  ASSUME OrderInv, WrapLoad \/ WrapStore \/ Return \/ Clear
  PROVE  OrderInv'
<1> USE CanAssumption DEF OrderInv
<1>1. CASE WrapLoad
  <2>1. TypeOK'
    BY <1>1 DEF WrapLoad, TypeOK, Receiving, Clearing
  <2>2. QED BY <1>1, <2>1 DEF WrapLoad, Filled, Behind, Kept
<1>2. CASE WrapStore
  <2>1. read' = (IF m = SIZE THEN 0 ELSE m) /\ m \in 0 .. SIZE
    BY <1>2, Wraps DEF WrapStore, TypeOK
  <2>2. read' \in Index /\ read' \in 0 .. SIZE
    BY <2>1 DEF Index
  <2>3. TypeOK'
    BY <1>2, <2>2 DEF WrapStore, TypeOK, Receiving, Clearing
  <2>4. QED BY <1>2, <2>1, <2>3 DEF WrapStore, TypeOK, Index, Filled, Behind, Kept
<1>3. CASE Return
  <2>1. TypeOK'
    <3>1. lapped' \in BOOLEAN
      BY <1>3, Zenon DEF Return
    <3>2. QED BY <1>3, <3>1 DEF Return, TypeOK, Receiving, Clearing
  <2>2. QED BY <1>3, <2>1 DEF Return, Filled, Behind, Kept
<1>4. CASE Clear
  <2>1. write \in 0 .. SIZE
    BY DEF TypeOK, Index
  <2>2. TypeOK'
    BY <1>4, <2>1 DEF Clear, TypeOK, Receiving, Clearing, Index
  <2>3. QED BY <1>4, <2>1, <2>2 DEF Clear, Filled, Behind, Kept
<1>5. QED BY <1>1, <1>2, <1>3, <1>4

LEMMA OrderStep == OrderInv /\ [Next]_vars => OrderInv'
<1> SUFFICES ASSUME OrderInv, [Next]_vars PROVE OrderInv'
  OBVIOUS
<1>1. CASE Next
  BY <1>1, IsrStep, RecvStep, CopyStep, ReturnStep DEF Next, ThreadNext
<1>2. CASE UNCHANGED vars
  BY <1>2 DEF vars, thread, OrderInv, TypeOK, Filled, Behind, Kept
<1>3. QED BY <1>1, <1>2
-----------------------------------------------------------------------------
LEMMA SizeIs == SIZE \in Sizes /\ Index = Cells(SIZE)
BY CanAssumption DEF Sizes, Index, Cells

LEMMA LengthIs ==
  ASSUME NEW f \in Index, NEW t \in Index
  PROVE  /\ Length(f, t) = IF t >= f THEN t - f ELSE SIZE + t - f
         /\ Length(f, t) \in Index /\ Length(f, t) = Apart(SIZE, f, t)
<1>1. Length(f, t) = Apart(SIZE, f, t)
  BY DEF Length, Apart
<1>2. /\ Apart(SIZE, f, t) = IF t >= f THEN t - f ELSE SIZE + t - f
      /\ Apart(SIZE, f, t) \in Cells(SIZE)
  BY SizeIs, ApartIs
<1>3. QED
  BY <1>1, <1>2, SizeIs

\* The ring is full when the write index is about to meet the other.
LEMMA Full ==
  ASSUME NEW f \in Index, NEW t \in Index
  PROVE  Length(f, t) = SIZE - 1 <=> (t + 1) % SIZE = f
<1> DEFINE next == (t + 1) % SIZE
<1>1. Length(f, t) = IF t >= f THEN t - f ELSE SIZE + t - f
  BY LengthIs
<1>2. next = IF t + 1 = SIZE THEN 0 ELSE t + 1
  BY NextCell
<1>3. f \in 0 .. SIZE - 1 /\ t \in 0 .. SIZE - 1 /\ SIZE \in Nat
  BY CanAssumption DEF Index
<1> HIDE DEF next
<1>4. Length(f, t) = SIZE - 1 <=> next = f
  BY <1>1, <1>2, <1>3
<1>5. QED
  BY <1>4 DEF next

LEMMA HeldByIsr ==
  ASSUME CanInv, RecvIsr
  PROVE  Held'
<1>1. /\ write' \in Index /\ write' = (IF write + 1 = SIZE THEN 0 ELSE write + 1)
      /\ (read \in Index => read' \in Index)
  BY IsrIndices DEF CanInv, OrderInv
<1>2. /\ UNCHANGED <<pc, r, m, due>>
      /\ lapped' = (lapped \/ (pc \in Receiving /\ (write' = read \/ write = r)))
      /\ read' = IF write' = read THEN (read + 1) % SIZE ELSE read
  BY DEF RecvIsr, thread
<1>3. ASSUME ~lapped'
      PROVE  /\ pc \in {"test", "load", "store"} => r = read'
             /\ pc \in {"load", "store"} => r # write'
             /\ pc = "load" => due = <<>>
             /\ pc \in {"copy1", "copy2", "wrapLoad", "wrapStore"} => read' = r + 1
             /\ pc = "wrapStore" => m = read'
  <2>1. ~lapped /\ (pc \in Receiving => write' # read /\ read' = read)
    BY <1>2, <1>3
  <2>2. QED
    BY <2>1 DEF CanInv, Held, Receiving
<1>4. ASSUME pc = "clearStore"
      PROVE  Length(m, write') <= Length(read', write')
  <2>1. read \in Index /\ m \in Index /\ write \in Index /\ read' \in Index
    BY <1>1, <1>4 DEF CanInv, OrderInv, TypeOK
  <2>2. Length(m, write) <= Length(read, write)
    BY <1>4 DEF CanInv, Held
  <2>3. read' = IF write' = read THEN (IF read + 1 = SIZE THEN 0 ELSE read + 1) ELSE read
    <3>1. (read + 1) % SIZE = IF read + 1 = SIZE THEN 0 ELSE read + 1
      BY <2>1, NextCell
    <3>2. QED BY <1>2, <3>1
  <2>4. /\ Length(m, write) = IF write >= m THEN write - m ELSE SIZE + write - m
        /\ Length(read, write) = IF write >= read THEN write - read ELSE SIZE + write - read
        /\ Length(m, write') = IF write' >= m THEN write' - m ELSE SIZE + write' - m
        /\ Length(read', write') = IF write' >= read' THEN write' - read'
                                   ELSE SIZE + write' - read'
    BY <1>1, <2>1, LengthIs
  <2>5. /\ m \in 0 .. SIZE - 1 /\ read \in 0 .. SIZE - 1 /\ write \in 0 .. SIZE - 1
        /\ SIZE \in Nat /\ SIZE > 1
    BY <2>1, CanAssumption DEF Index
  <2>6. QED
    BY <1>1, <2>2, <2>3, <2>4, <2>5
<1>5. QED
  BY <1>2, <1>3, <1>4 DEF Held, Length

LEMMA HeldByThread ==
  ASSUME CanInv, ThreadNext
  PROVE  Held'
<1> USE DEF CanInv, OrderInv, Held
<1>1. CASE Recv \/ Test
  BY <1>1 DEF Recv, Test, Kept
<1>2. CASE Load \/ Store
  BY <1>2 DEF Load, Store
<1>3. ASSUME NEW i \in 1 .. 2, Copy(i)
      PROVE  Held'
  BY <1>3 DEF Copy
<1>4. CASE WrapLoad \/ WrapStore \/ Return
  BY <1>4 DEF WrapLoad, WrapStore, Return
<1>5. CASE Clear
  <2>1. CASE pc = "clear"
    <3>1. /\ pc' = "clearStore" /\ UNCHANGED <<read, write, lapped>> /\ m' = write
          /\ read \in Index /\ write \in Index
      BY <1>5, <2>1 DEF Clear, TypeOK
    <3>2. Length(write, write) = 0 /\ Length(read, write) \in Nat
      BY <3>1, LengthIs DEF Index
    <3>3. Length(m', write') = Length(write, write) /\ Length(read', write') = Length(read, write)
      BY <3>1
    <3>4. Length(m', write') <= Length(read', write')
      BY <3>2, <3>3
    <3>5. QED BY <3>1, <3>4 DEF Length
  <2>2. CASE pc # "clear"
    BY <1>5, <2>2 DEF Clear
  <2>3. QED BY <2>1, <2>2
<1>6. QED
  BY <1>1, <1>2, <1>3, <1>4, <1>5 DEF ThreadNext

LEMMA CanInit == Init => CanInv
BY OrderInit DEF Init, CanInv, Held

LEMMA CanStep == CanInv /\ [Next]_vars => CanInv'
<1> SUFFICES ASSUME CanInv, [Next]_vars PROVE CanInv'
  OBVIOUS
<1>1. OrderInv'
  BY OrderStep DEF CanInv
<1>2. CASE Next
  BY <1>1, <1>2, HeldByIsr, HeldByThread DEF Next, CanInv
<1>3. CASE UNCHANGED vars
  BY <1>1, <1>3 DEF vars, thread, CanInv, Held, Length
<1>4. QED BY <1>2, <1>3
-----------------------------------------------------------------------------
\* Between any two loads and stores, whatever the handler adds there, every
\* cell holds the newest message that can be in it, no index is ahead of the
\* handler, and a call that is not overrun has the ring's indices (drv_can.c:309-345, 413-497).
THEOREM CanInvariant == Spec => []CanInv
BY CanInit, CanStep, PTL DEF Spec

\* Lost updates of CanRx_Read never take it out of the ring: no call copies from
\* beyond CANRxBuf (drv_can.c:321).
THEOREM CanTypes == Spec => []TypeOK
<1>1. CanInv => TypeOK
  BY DEF CanInv, OrderInv
<1>2. QED BY <1>1, CanInvariant, PTL

\* A call returns the oldest message, whole, unless the ring is overrun under it
\* (drv_can.c:321).
THEOREM WholeMessages == Spec => []ReturnsWhole
<1>1. CanInv => ReturnsWhole
  <2> SUFFICES ASSUME CanInv, pc = "done", due # <<>>, ~lapped, NEW i \in 1 .. 2
               PROVE  copy[i] = due[1]
    BY DEF ReturnsWhole
  <2>1. i = 1 \/ i = 2
    OBVIOUS
  <2>2. QED BY <2>1 DEF CanInv, OrderInv, Kept
<1>2. QED BY <1>1, CanInvariant, PTL

\* Between calls the ring holds the newest messages, each once and in the order
\* they came, whatever overruns there were (drv_can.c:309-325, 413-497).
THEOREM RingRests == Spec => []RestsInOrder
<1>1. CanInv => RestsInOrder
  <2> SUFFICES ASSUME CanInv, pc = "idle", NEW i \in DOMAIN Contents
               PROVE  Contents[i] = count - Len(Contents) + i
    BY DEF RestsInOrder
  <2> DEFINE n == (SIZE + write - From) % SIZE
  <2>1. read \in 0 .. SIZE - 1 /\ write \in 0 .. SIZE - 1 /\ count \in Nat /\ SIZE \in Nat \ {0, 1}
    BY CanAssumption DEF CanInv, OrderInv, TypeOK, Index, Messages
  <2>2. From = read
    BY <2>1, Wraps DEF From
  <2>3. n = IF write >= read THEN write - read ELSE SIZE + write - read
    BY <2>1, <2>2, SMT
  <2>4. Len(Contents) = n /\ i \in 1 .. n /\ Contents[i] = cells[(read + i - 1) % SIZE]
    BY <2>1, <2>2, <2>3 DEF Contents, Length
  <2>5. count = write => read <= write
    BY DEF CanInv, OrderInv, Behind
  <2>6. i \in Nat /\ 1 <= i /\ i <= n /\ n \in Nat
    BY <2>1, <2>3, <2>4
  <2>7. CASE read + i - 1 < SIZE
    <3> DEFINE x == read + i - 1
    <3>1. x \in Index /\ x \in Nat /\ x >= read
      BY <2>1, <2>6, <2>7 DEF Index
    <3>2. x % SIZE = x
      BY <3>1, OneLap
    <3>3. IF write >= read THEN x < write ELSE x >= write /\ count # write
      BY <2>1, <2>3, <2>5, <2>6, <3>1
    <3>4. cells[x] = IF x < write THEN count - write + x + 1 ELSE count - write + x + 1 - SIZE
      BY <3>1, <3>3, <2>1 DEF CanInv, OrderInv, Filled
    <3>5. Contents[i] = cells[x]
      BY <2>4, <3>2
    <3>6. cells[x] = count - n + i
      BY <2>1, <2>3, <2>6, <3>1, <3>3, <3>4
    <3>7. QED BY <2>4, <3>5, <3>6
  <2>8. CASE read + i - 1 >= SIZE
    <3> DEFINE x == read + i - 1 - SIZE
    <3>1. x \in Index /\ x < write
      BY <2>1, <2>3, <2>6, <2>8 DEF Index
    <3>2. read + i - 1 = x + SIZE /\ (x + SIZE) % SIZE = x
      BY <2>1, <2>6, <3>1, OneLap
    <3>3. cells[x] = count - write + x + 1
      BY <3>1 DEF CanInv, OrderInv, Filled
    <3>4. Contents[i] = cells[x]
      BY <2>4, <3>2
    <3>5. cells[x] = count - n + i
      BY <2>1, <2>3, <2>6, <2>8, <3>1, <3>3
    <3>6. QED BY <2>4, <3>4, <3>5
  <2>9. QED BY <2>1, <2>6, <2>7, <2>8
<1>2. QED BY <1>1, CanInvariant, PTL
-----------------------------------------------------------------------------
\* The queue, as a lap of the ring.
LEMMA ContentsIs ==
  ASSUME CanInv
  PROVE  /\ From \in Index /\ write \in Index /\ cells \in [Index -> Nat]
         /\ (pc \notin {"store", "copy1", "copy2", "wrapLoad", "wrapStore"} =>
               From = read /\ read \in Index)
         /\ Contents = Lap(SIZE, cells, From, Apart(SIZE, From, write))
         /\ Contents \in Seq(Nat) /\ Len(Contents) = Apart(SIZE, From, write)
         /\ Apart(SIZE, From, write) \in 0 .. SIZE - 1
<1> USE DEF CanInv, OrderInv
<1>1. write \in Index /\ cells \in [Index -> Nat]
  BY DEF TypeOK, Messages
<1>2. r \in Index /\ (r + 1) % SIZE \in Index
  <2>1. r \in Index
    BY DEF TypeOK
  <2>2. QED BY <2>1, SizeIs, CellNext
<1>3. read % SIZE \in Index /\ (read # SIZE => read % SIZE = read)
  <2>1. read \in 0 .. SIZE /\ SIZE \in Nat /\ 0 \in Index
    BY CanAssumption DEF TypeOK, Index
  <2>2. read % SIZE = IF read = SIZE THEN 0 ELSE read
    BY <2>1, Wraps
  <2>3. QED BY <2>1, <2>2 DEF Index
<1>4. From \in Index
  BY <1>2, <1>3 DEF From
<1>5. pc \notin {"store", "copy1", "copy2", "wrapLoad", "wrapStore"} =>
        From = read /\ read \in Index
  <2>1. pc \notin {"copy1", "copy2", "wrapLoad", "wrapStore"} => read \in Index /\ read # SIZE
    BY CanAssumption DEF TypeOK, Index
  <2>2. QED BY <1>3, <2>1 DEF From
<1>6. Length(From, write) = Apart(SIZE, From, write) /\ Length(From, write) \in Index
  BY <1>1, <1>4, LengthIs
<1>7. Contents = Lap(SIZE, cells, From, Apart(SIZE, From, write))
  BY <1>6 DEF Contents, Lap
<1>8. Apart(SIZE, From, write) \in 0 .. SIZE - 1 /\ Apart(SIZE, From, write) \in 0 .. SIZE
  BY <1>6, CanAssumption DEF Index
<1>9. Contents \in Seq(Nat) /\ Len(Contents) = Apart(SIZE, From, write)
  BY <1>1, <1>4, <1>7, <1>8, SizeIs, LapIs
<1>10. QED
  BY <1>1, <1>4, <1>5, <1>7, <1>8, <1>9

\* The handler pushes the read index on exactly when the queue is full.
LEMMA FromByIsr ==
  ASSUME CanInv, RecvIsr, ~lapped'
  PROVE  From' = IF Length(From, write) = SIZE - 1 THEN (From + 1) % SIZE ELSE From
<1>1. /\ UNCHANGED <<pc, r>> /\ write' = (write + 1) % SIZE
      /\ lapped' = (lapped \/ (pc \in Receiving /\ (write' = read \/ write = r)))
      /\ read' = IF write' = read THEN (read + 1) % SIZE ELSE read
  BY DEF RecvIsr, thread
<1>2. From \in Index /\ write \in Index /\ r \in Index
  BY ContentsIs DEF CanInv, OrderInv, TypeOK
<1>3. Length(From, write) = SIZE - 1 <=> write' = From
  BY <1>1, <1>2, Full
<1>4. ~lapped /\ (pc \in Receiving => write' # read /\ write # r /\ read' = read)
  BY <1>1
<1>5. CASE pc \in {"store", "copy1", "copy2", "wrapLoad", "wrapStore"}
  <2>1. write # r /\ read' = read
    BY <1>4, <1>5 DEF Receiving
  <2>2. From = (r + 1) % SIZE
    <3>1. CASE pc = "store"
      BY <3>1 DEF From
    <3>2. CASE pc # "store"
      <4>1. read = r + 1
        BY <1>4, <1>5, <3>2 DEF CanInv, Held
      <4>2. QED BY <3>2, <4>1 DEF From
    <3>3. QED BY <3>1, <3>2
  <2>3. write' # From
    <3>1. /\ write' = IF write + 1 = SIZE THEN 0 ELSE write + 1
          /\ From = IF r + 1 = SIZE THEN 0 ELSE r + 1
      BY <1>1, <1>2, <2>2, NextCell
    <3>2. write \in 0 .. SIZE - 1 /\ r \in 0 .. SIZE - 1 /\ SIZE \in Nat
      BY <1>2, CanAssumption DEF Index
    <3>3. QED BY <2>1, <3>1, <3>2
  <2>4. From' = From
    BY <1>1, <2>1 DEF From
  <2>5. QED BY <1>3, <2>3, <2>4
<1>6. CASE pc \notin {"store", "copy1", "copy2", "wrapLoad", "wrapStore"}
  <2>1. From = read /\ read \in Index
    BY <1>6, ContentsIs
  <2>2. read' \in Index
    <3>1. (read + 1) % SIZE \in Index
      BY <2>1, SizeIs, CellNext
    <3>2. QED BY <1>1, <2>1, <3>1
  <2>3. From' = read' % SIZE /\ read' % SIZE = read'
    BY <1>1, <1>6, <2>2, OneLap DEF From
  <2>4. QED BY <1>1, <1>3, <2>1, <2>3
<1>7. QED
  BY <1>5, <1>6

LEMMA Arrives ==
  ASSUME CanInv, RecvIsr, ~lapped'
  PROVE  Queue!Arrive
<1>1. /\ Contents = Lap(SIZE, cells, From, Apart(SIZE, From, write))
      /\ From \in Index /\ write \in Index /\ cells \in [Index -> Nat]
  BY ContentsIs
<1>2. /\ count' = count + 1 /\ UNCHANGED due /\ write' = (write + 1) % SIZE
      /\ cells' = [cells EXCEPT ![write] = count']
  BY DEF RecvIsr, thread
<1>3. count' \in Nat
  BY IsrIndices DEF CanInv, OrderInv, Messages
<1>4. Writes(SIZE, cells, cells', write, count')
  BY <1>1, <1>2, <1>3, SizeIs DEF Writes
<1>5. From' = IF Apart(SIZE, From, write) = SIZE - 1 THEN (From + 1) % SIZE ELSE From
  BY <1>1, FromByIsr, LengthIs
<1>6. Lap(SIZE, cells', From', Apart(SIZE, From', (write + 1) % SIZE))
        = Append(IF Len(Contents) = SIZE - 1 THEN Tail(Contents) ELSE Contents, count')
  BY <1>1, <1>4, <1>5, SizeIs, LapArrives
<1>7. Contents' = Lap(SIZE, cells', From', Apart(SIZE, From', write'))
  BY DEF Contents, Lap, Apart, Length
<1>8. QED
  BY <1>2, <1>6, <1>7 DEF Queue!Arrive

\* The thread: what is left when the read index moves up to another one.
LEMMA Drops ==
  ASSUME CanInv, UNCHANGED <<cells, write>>,
         From' \in Index, Length(From', write) <= Length(From, write)
  PROVE  \E k \in 0 .. Len(Contents) :
           /\ k = Length(From, write) - Length(From', write)
           /\ Contents' = SubSeq(Contents, k + 1, Len(Contents))
<1>1. /\ Contents = Lap(SIZE, cells, From, Apart(SIZE, From, write))
      /\ From \in Index /\ write \in Index /\ cells \in [Index -> Nat]
  BY ContentsIs
<1>2. /\ Length(From, write) = Apart(SIZE, From, write)
      /\ Length(From', write) = Apart(SIZE, From', write)
  BY <1>1, LengthIs
<1>3. PICK g \in Index : g = From'
  OBVIOUS
<1>4. Apart(SIZE, g, write) <= Apart(SIZE, From, write)
  BY <1>2, <1>3
<1>5. \E k \in 0 .. Len(Contents) :
        /\ k = Apart(SIZE, From, write) - Apart(SIZE, g, write)
        /\ Lap(SIZE, cells, g, Apart(SIZE, g, write)) = SubSeq(Contents, k + 1, Len(Contents))
  BY <1>1, <1>4, SizeIs, LapKeeps
<1>6. Contents' = Lap(SIZE, cells, g, Apart(SIZE, g, write))
  BY <1>3 DEF Contents, Lap, Apart, Length
<1>7. QED
  BY <1>2, <1>3, <1>5, <1>6

\* The increment takes the oldest message.
LEMMA Takes ==
  ASSUME CanInv, Load, ~lapped
  PROVE  Queue!Take
<1>1. /\ pc = "load" /\ pc' = "store" /\ r' = read /\ r = read /\ r # write /\ due = <<>>
      /\ due' = <<cells[read]>> /\ UNCHANGED <<cells, read, write, count>>
  BY DEF Load, CanInv, Held
<1>2. /\ From = read /\ read \in Index /\ write \in Index /\ cells \in [Index -> Nat]
      /\ Contents = Lap(SIZE, cells, read, Length(read, write))
      /\ Contents \in Seq(Nat) /\ Len(Contents) = Length(read, write)
  BY <1>1, ContentsIs, LengthIs
<1>3. From' = (read + 1) % SIZE /\ From' = (IF read + 1 = SIZE THEN 0 ELSE read + 1)
      /\ From' \in Index
  BY <1>1, <1>2, SizeIs, CellNext DEF From
<1>4. /\ read \in 0 .. SIZE - 1 /\ write \in 0 .. SIZE - 1 /\ SIZE \in Nat /\ SIZE > 1
  BY <1>2, CanAssumption DEF Index
<1>5. PICK g \in Index : g = From'
  BY <1>3
<1>6. /\ Length(read, write) = IF write >= read THEN write - read ELSE SIZE + write - read
      /\ Length(g, write) = IF write >= g THEN write - g ELSE SIZE + write - g
  BY <1>2, LengthIs
<1>7. Length(g, write) = Length(read, write) - 1 /\ Length(read, write) \in 1 .. SIZE
  BY <1>1, <1>3, <1>4, <1>5, <1>6
<1>8. Contents' = SubSeq(Contents, 2, Len(Contents))
  <2>1. Length(From', write) <= Length(From, write)
        /\ Length(From, write) - Length(From', write) = 1
    BY <1>2, <1>5, <1>7
  <2>2. QED BY <1>1, <1>3, <2>1, Drops
<1>9. Contents # <<>>
  BY <1>2, <1>7
<1>10. Contents' = Tail(Contents)
  BY <1>2, <1>8, <1>9, TailIsSubSeq
<1>11. Head(Contents) = cells[read]
  <2>1. Contents[1] = cells[IF read + 1 - 1 < SIZE THEN read + 1 - 1 ELSE read + 1 - 1 - SIZE]
    <3>1. Length(read, write) \in 0 .. SIZE /\ 1 \in 1 .. Length(read, write)
      BY <1>4, <1>7
    <3>2. QED BY <1>2, <3>1, SizeIs, LapIs
  <2>2. (IF read + 1 - 1 < SIZE THEN read + 1 - 1 ELSE read + 1 - 1 - SIZE) = read
    BY <1>4
  <2>3. QED BY <1>2, <1>9, <2>1, <2>2
<1>12. due' = Append(due, Head(Contents))
  BY <1>1, <1>11
<1>13. QED
  BY <1>1, <1>9, <1>10, <1>12 DEF Queue!Take

\* Clearing gives up the oldest ones.
LEMMA Clears ==
  ASSUME CanInv, Clear, pc = "clearStore"
  PROVE  Queue!Delete
<1>1. /\ pc' = "idle" /\ read' = m /\ m \in Index
      /\ UNCHANGED <<cells, write, count, due>>
      /\ Length(m, write) <= Length(read, write)
  BY DEF Clear, CanInv, OrderInv, TypeOK, Held
<1>2. From = read
  BY ContentsIs
<1>3. From' = m
  BY <1>1, OneLap DEF From
<1>4. From' \in Index /\ Length(From', write) <= Length(From, write)
  BY <1>1, <1>2, <1>3
<1>5. QED
  BY <1>1, <1>4, Drops DEF Queue!Delete

\* No other statement of the thread changes the queue.
LEMMA Stutters ==
  ASSUME CanInv, ThreadNext, ~lapped', pc \notin {"load", "clearStore"}
  PROVE  Queue!Begin \/ UNCHANGED <<Contents, due, count>>
<1> USE DEF ThreadNext, Recv, Test, Load, Store, Copy, WrapLoad, WrapStore, Return, Clear
<1>1. UNCHANGED <<cells, write, count>> /\ (due' = <<>> \/ due' = due)
  OBVIOUS
<1>2. From' = From
  <2>1. CASE pc = "store"
    BY <2>1 DEF From
  <2>2. CASE pc = "wrapStore"
    <3>1. read' = m % SIZE /\ m = read /\ pc' = "done" /\ read \in 0 .. SIZE
      BY <2>2 DEF CanInv, OrderInv, TypeOK, Held
    <3>2. read % SIZE \in Index
      BY <2>2, ContentsIs DEF From
    <3>3. (read % SIZE) % SIZE = read % SIZE
      BY <3>2, OneLap
    <3>4. QED BY <2>2, <3>1, <3>3 DEF From
  <2>3. CASE pc \notin {"store", "wrapStore"}
    <3>1. read' = read /\ pc' # "store"
      BY <2>3
    <3>2. QED BY <2>3, <3>1 DEF From
  <2>4. QED BY <2>1, <2>2, <2>3
<1>3. Contents' = Contents
  BY <1>1, <1>2 DEF Contents, Length
<1>4. QED
  BY <1>1, <1>3 DEF Queue!Begin

LEMMA QueueStep ==
  CanInv /\ [Next]_vars => [~lapped' => Queue!QueueNext]_<<Contents, due, count>>
<1> SUFFICES ASSUME CanInv, [Next]_vars, ~lapped'
             PROVE  Queue!QueueNext \/ UNCHANGED <<Contents, due, count>>
  OBVIOUS
<1> USE DEF Queue!QueueNext
<1>1. CASE RecvIsr
  BY <1>1, Arrives
<1>2. CASE ThreadNext
  <2>1. CASE pc = "load"
    <3>1. Load /\ ~lapped
      BY <1>2, <2>1 DEF ThreadNext, Recv, Test, Load, Store, Copy, WrapLoad, WrapStore,
                        Return, Clear
    <3>2. QED BY <3>1, Takes
  <2>2. CASE pc = "clearStore"
    <3>1. Clear
      BY <1>2, <2>2 DEF ThreadNext, Recv, Test, Load, Store, Copy, WrapLoad, WrapStore, Return
    <3>2. QED BY <2>2, <3>1, Clears
  <2>3. CASE pc \notin {"load", "clearStore"}
    BY <1>2, <2>3, Stutters
  <2>4. QED BY <2>1, <2>2, <2>3
<1>3. CASE UNCHANGED vars
  BY <1>3 DEF vars, thread, Contents, From, Length
<1>4. QED
  BY <1>1, <1>2, <1>3 DEF Next

\* The ring keeps the promise of a queue that gives up its oldest message when it
\* is full (drv_can.c:309-345, 413-497): every load and store of the thread and
\* every message that arrives between them is a step of ByteQueue or changes nothing
\* a reader can see, except under a call the ring is overrun under.
THEOREM CanRingIsQueue == Spec => IsQueue
<1>1. Init => Queue!QueueInit
  <2> SUFFICES ASSUME Init PROVE Queue!QueueInit
    OBVIOUS
  <2>1. CanInv /\ 0 \in Index /\ read = 0 /\ write = 0 /\ due = <<>> /\ count = 0 /\ pc = "idle"
    BY CanInit, CanAssumption DEF Init, Index
  <2>2. From = 0
    BY <2>1, ContentsIs
  <2>3. Length(From, write) = 0
    BY <2>1, <2>2, LengthIs
  <2>4. Contents = [i \in 1 .. 0 |-> cells[(From + i - 1) % SIZE]]
    BY <2>3 DEF Contents
  <2>5. Contents = <<>>
    BY <2>4
  <2>6. QED
    BY <2>1, <2>5 DEF Queue!QueueInit
<1>2. QED
  BY <1>1, QueueStep, CanInvariant, PTL DEF Spec, IsQueue
=============================================================================
