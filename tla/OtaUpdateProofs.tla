------------------------- MODULE OtaUpdateProofs -------------------------
(***************************************************************************)
(* Proofs about OtaUpdate, for every number of images, every image size,   *)
(* every flash size, any number of frames, faults and power failures.      *)
(***************************************************************************)
EXTENDS OtaUpdate, SequenceTheorems, TLAPS

\* What the invariant reads is unchanged by steps that only move pc and RAM.
LEMMA FlashUnchanged ==
  ASSUME UNCHANGED flash
  PROVE  /\ Verified' = Verified
         /\ \A i \in Images : Whole(i)' = Whole(i)
         /\ RunGood' = RunGood
BY DEF flash, Verified, CrcAccepts, Holds, UpdatesTotalSize, UpdatesCRC32,
       Whole, RunGood

LEMMA RunUnchanged ==
  ASSUME run' = run
  PROVE  /\ \A i \in Images : Whole(i)' = Whole(i)
         /\ RunGood' = RunGood
BY DEF Whole, RunGood

LEMMA VerifiedUnchanged ==
  ASSUME info' = info, copy' = copy
  PROVE  Verified' = Verified
BY DEF Verified, CrcAccepts, Holds, UpdatesTotalSize, UpdatesCRC32

\* An image read back correctly is a whole program (main.c:201 and 249), unless
\* a packed one was copied as it was sent.
LEMMA ReadBackWhole ==
  ASSUME flag = "update", PackedReadAsPacked, Verified, ReadBackOK
  PROVE  \E i \in Images : Whole(i)
<1>1. /\ Source \in Images
      /\ CrcAccepts(Source)
      /\ UpdatesTotalSize <= MAXSIZE
  BY DEF Verified, Source
<1>2. CASE CompressFlag = 1
  BY <1>1, <1>2 DEF ReadBackOK
<1>3. CASE CompressFlag # 1
  <2>1. Holds(run, Source, PageNo(UpdatesTotalSize))
    BY <1>3 DEF ReadBackOK, CopyPages
  <2>2. Source \notin Compressed /\ RunSize[Source] = UpdatesTotalSize
    BY <1>1, <1>3, SizeAssumption DEF CrcAccepts, PackedReadAsPacked
  <2>3. \A p \in 1 .. PageNo(RunSize[Source]) : run[p] = ProgramPage(Source, p)
    BY <2>1, <2>2 DEF Holds, ProgramPage
  <2>4. QED BY <1>1, <2>3 DEF Whole
<1>4. QED BY <1>2, <1>3

\* The last page of a program that fits is a page of the run area.
LEMMA DivMonotonic ==
  ASSUME NEW a \in Nat, NEW b \in Nat, a <= b
  PROVE  /\ a \div PAGE \in Nat
         /\ a \div PAGE <= b \div PAGE
BY SizeAssumption, SMTT(30)

LEMMA PageNoMonotonic ==
  ASSUME NEW a \in Nat, NEW b \in Nat, a <= b
  PROVE  PageNo(a) \in Nat /\ PageNo(a) <= PageNo(b)
<1>1. a + PAGE - 1 \in Nat /\ b + PAGE - 1 \in Nat /\ a + PAGE - 1 <= b + PAGE - 1
  BY SizeAssumption
<1>2. QED BY <1>1, DivMonotonic DEF PageNo

LEMMA FirstPage == 1 \in Pages
<1>1. PageNo(1) = 1
  <2>1. PAGE \div PAGE = 1
    BY SizeAssumption, SMT
  <2>2. 1 + PAGE - 1 = PAGE
    BY SizeAssumption
  <2>3. QED BY <2>1, <2>2 DEF PageNo
<1>2. PageNo(1) <= PageNo(MAXSIZE) /\ PageNo(MAXSIZE) \in Nat
  BY SizeAssumption, PageNoMonotonic
<1>3. QED BY <1>1, <1>2 DEF Pages

LEMMA OtaInit == Init => OtaInv
<1> SUFFICES ASSUME Init PROVE OtaInv
  OBVIOUS
<1>1. RunGood
  <2>1. CASE run = [p \in Pages |-> Blank]
    BY <2>1, FirstPage DEF RunGood
  <2>2. ASSUME NEW i \in Images,
               run = [p \in Pages |->
                        IF p <= PageNo(RunSize[i]) THEN ProgramPage(i, p) ELSE Blank]
        PROVE  RunGood
    <3>1. RunSize[i] \in Nat /\ RunSize[i] <= MAXSIZE
      BY SizeAssumption
    <3>2. 1 .. PageNo(RunSize[i]) \subseteq Pages
      BY <3>1, PageNoMonotonic, SizeAssumption DEF Pages
    <3>3. \A p \in 1 .. PageNo(RunSize[i]) : run[p] = ProgramPage(i, p)
      BY <2>2, <3>1, <3>2, PageNoMonotonic, SizeAssumption
    <3>4. QED BY <3>3 DEF RunGood, Whole
  <2>3. QED BY <2>1, <2>2 DEF Init
<1>2. QED BY <1>1 DEF Init, OtaInv, ControlInv, RunInv, JumpSafe

\* No step of main() leaves the invariant.
LEMMA BootStepInv ==
  ASSUME PackedReadAsPacked, OtaInv, BootStep
  PROVE  OtaInv'
<1> USE DEF OtaInv, ControlInv, RunInv, JumpSafe, Goto
<1>1. CASE ReadFlag
  <2>1. UNCHANGED flash
    BY <1>1 DEF ReadFlag
  <2>2. QED BY <1>1, <2>1, FlashUnchanged DEF ReadFlag, flash
<1>2. CASE JumpToApp
  <2>1. UNCHANGED flash
    BY <1>2 DEF JumpToApp
  <2>2. gaveUp \/ \E i \in Images : Whole(i)
    BY <1>2 DEF JumpToApp, RunGood
  <2>3. QED BY <1>2, <2>1, <2>2, FlashUnchanged DEF JumpToApp, flash
<1>3. CASE NoValidStack
  <2>1. UNCHANGED flash
    BY <1>3 DEF NoValidStack
  <2>2. QED BY <1>3, <2>1, FlashUnchanged DEF NoValidStack, flash
<1>4. CASE Verify
  <2>1. UNCHANGED flash
    BY <1>4 DEF Verify
  <2>2. QED BY <1>4, <2>1, FlashUnchanged DEF Verify, flash
<1>5. CASE Drop
  <2>1. run' = run /\ info' = info /\ copy' = copy
    BY <1>5 DEF Drop
  <2>2. QED BY <1>5, <2>1, RunUnchanged, VerifiedUnchanged DEF Drop
<1>6. CASE Attempt
  <2>1. UNCHANGED flash
    BY <1>6 DEF Attempt
  <2>2. QED BY <1>6, <2>1, FlashUnchanged DEF Attempt, flash
<1>7. CASE GiveUp
  <2>1. UNCHANGED flash
    BY <1>7 DEF GiveUp
  <2>2. QED BY <1>7, <2>1, FlashUnchanged DEF GiveUp, flash
<1>8. CASE EraseRun
  <2>1. /\ info' = info /\ copy' = copy /\ flag' = flag
        /\ who' = who /\ gaveUp' = gaveUp
        /\ pc = "erase" /\ pc' \in {"erase", "copy"}
    BY <1>8 DEF EraseRun
  <2>2. Verified' = Verified
    BY <2>1, VerifiedUnchanged
  <2>3. flag' = "update" /\ Verified' /\ who' # "app"
    BY <2>1, <2>2
  <2>4. ControlInv'
    BY <2>1, <2>3
  <2>5. RunInv'
    BY <2>1, <2>3
  <2>6. QED BY <2>4, <2>5
<1>9. CASE CopyPage
  <2>1. info' = info /\ copy' = copy
    BY <1>9 DEF CopyPage
  <2>2. QED BY <1>9, <2>1, VerifiedUnchanged DEF CopyPage
<1>10. CASE ReadBack
  <2>1. UNCHANGED flash
    BY <1>10 DEF ReadBack
  <2>2. ReadBackOK => \E i \in Images : Whole(i)
    BY <1>10, ReadBackWhole DEF ReadBack
  <2>3. QED BY <1>10, <2>1, <2>2, FlashUnchanged DEF ReadBack, flash
<1>11. CASE Commit
  <2>1. run' = run
    BY <1>11 DEF Commit
  <2>2. RunGood'
    BY <1>11, <2>1, RunUnchanged DEF Commit, RunGood
  <2>3. QED BY <1>11, <2>2 DEF Commit, Restart
<1>12. CASE ForceUpdate
  <2>1. run' = run /\ info' = info /\ copy' = copy
    BY <1>12 DEF ForceUpdate
  <2>2. /\ pc \in {"force1", "force2", "force3"}
        /\ pc' \in {"force2", "force3", "idle"}
        /\ who' = who /\ gaveUp' = gaveUp /\ flag' # "update"
    BY <1>12 DEF ForceUpdate
  <2>3. RunGood' \/ gaveUp'
    BY <2>1, <2>2, RunUnchanged
  <2>4. who' # "app"
    BY <2>2
  <2>5. QED BY <2>2, <2>3, <2>4
<1>13. QED
  BY <1>1, <1>2, <1>3, <1>4, <1>5, <1>6, <1>7, <1>8, <1>9, <1>10, <1>11, <1>12
  DEF BootStep

\* No step of a handler, no frame and no power failure does.  They change the
\* info page and the copy area only where the flag page does not say "update".
LEMMA HandlerInv ==
  ASSUME OtaInv, HandlerStep \/ HostStep
  PROVE  OtaInv'
<1> USE DEF OtaInv, ControlInv, RunInv, JumpSafe, Goto
<1>1. run' = run /\ gaveUp' = gaveUp
  BY DEF HandlerStep, HostStep, StoreHeader, WipeCopy, UpdateFlag, UpdateFlagDone,
         RecvStart, RecvUpdate, RecvEnd, flash
<1>2. flag # "update"
  BY DEF HandlerStep, HostStep, StoreHeader, WipeCopy, UpdateFlag, UpdateFlagDone,
         RecvStart, RecvUpdate, RecvEnd
<1>3. RunGood' \/ gaveUp'
  BY <1>1, <1>2, RunUnchanged
<1>4. who' = "app" => who = "app"
  BY DEF HandlerStep, HostStep, StoreHeader, WipeCopy, UpdateFlag, UpdateFlagDone,
         RecvStart, RecvUpdate, RecvEnd, Restart, ram
<1>5. JumpSafe'
  BY <1>1, <1>4, RunUnchanged
<1>6. /\ pc' \in {"idle", "header", "wipe", "flag1", "flag2", "flag3", "reset"}
      /\ pc' = "reset" => who' = "boot"
      /\ pc' # "reset" => flag' # "update"
  BY <1>2 DEF HandlerStep, HostStep, StoreHeader, WipeCopy, UpdateFlag, UpdateFlagDone,
         RecvStart, RecvUpdate, RecvEnd, Restart, ram, flash
<1>7. QED BY <1>3, <1>5, <1>6

LEMMA CrashInv ==
  ASSUME OtaInv, Crash
  PROVE  OtaInv'
<1> USE DEF OtaInv, ControlInv, RunInv, JumpSafe
<1>1. pc' = "reset" /\ who' = "boot" /\ flag' = flag /\ gaveUp' = gaveUp
  BY DEF Crash, Restart
<1>2. CASE pc = "copy"
  <2>1. info' = info /\ copy' = copy
    BY <1>2 DEF Crash, TornHeader, TornWipe, TornUpdate, TornCopy
  <2>2. Verified' = Verified
    BY <2>1, VerifiedUnchanged
  <2>3. QED BY <1>1, <1>2, <2>2
<1>3. CASE pc # "copy"
  <2>1. run' = run
    BY <1>3 DEF Crash, TornHeader, TornWipe, TornUpdate, TornCopy
  <2>2. CASE flag = "update"
    <3>1. info' = info /\ copy' = copy
      BY <2>2 DEF Crash, TornHeader, TornWipe, TornUpdate, TornCopy
    <3>2. QED BY <1>1, <2>1, <3>1, RunUnchanged, VerifiedUnchanged
  <2>3. CASE flag # "update"
    BY <1>1, <2>1, <2>3, RunUnchanged
  <2>4. QED BY <2>2, <2>3
<1>4. QED BY <1>2, <1>3

LEMMA OtaStep ==
  ASSUME PackedReadAsPacked, OtaInv, [Next]_vars
  PROVE  OtaInv'
<1>1. CASE BootStep
  BY <1>1, BootStepInv
<1>2. CASE HandlerStep \/ HostStep
  BY <1>2, HandlerInv
<1>3. CASE Crash
  BY <1>3, CrashInv
<1>4. CASE UNCHANGED vars
  BY <1>4, FlashUnchanged
  DEF vars, flash, ram, OtaInv, ControlInv, RunInv, JumpSafe
<1>5. QED BY <1>1, <1>2, <1>3, <1>4 DEF Next

----------------------------------------------------------------------------
(* Type correctness, for every kind of image *)

\* The control part of the invariant needs nothing of the run area.
LEMMA ControlStep ==
  ASSUME ControlInv, [Next]_vars
  PROVE  ControlInv'
<1> USE DEF ControlInv, Goto
<1>1. CASE BootStep
  <2>1. info' = info /\ copy' = copy
    BY <1>1 DEF BootStep, ReadFlag, JumpToApp, NoValidStack, Verify, Drop, Attempt, GiveUp,
           EraseRun, CopyPage, ReadBack, Commit, ForceUpdate, flash
  <2>2. Verified' = Verified
    BY <2>1, VerifiedUnchanged
  <2>3. QED
    BY <1>1, <2>2 DEF BootStep, ReadFlag, JumpToApp, NoValidStack, Verify, Drop, Attempt,
       GiveUp, EraseRun, CopyPage, ReadBack, Commit, ForceUpdate, Restart, flash
<1>2. CASE HandlerStep \/ HostStep
  BY <1>2 DEF HandlerStep, HostStep, StoreHeader, WipeCopy, UpdateFlag, UpdateFlagDone,
     RecvStart, RecvUpdate, RecvEnd, Restart, ram, flash
<1>3. CASE Crash
  BY <1>3 DEF Crash, Restart
<1>4. CASE UNCHANGED vars
  BY <1>4, FlashUnchanged DEF vars, ram, flash
<1>5. QED BY <1>1, <1>2, <1>3, <1>4 DEF Next

\* A handler knows its image and a loop of main() its page.
Counters ==
  /\ pc \in {"header", "wipe"} => img \in Images
  /\ pc \in {"erase", "copy"} => k >= 1

LEMMA FieldTypes ==
  ASSUME NEW i \in Images
  PROVE  /\ Header(i) \in Seq(Nat)
<1>1. /\ Size[i] % HW \in Nat /\ Size[i] \div HW \in Nat
      /\ Crc[i] % HW \in Nat /\ Crc[i] \div HW \in Nat
  BY SizeAssumption, HeaderAssumption
<1>2. Fields(i) \in Seq(Nat)
  BY <1>1, SizeAssumption, HeaderAssumption DEF Fields
<1>3. QED BY <1>2, HeaderAssumption DEF Header

LEMMA ProgramType ==
  ASSUME NEW old \in [1 .. 8 -> Nat], NEW h \in Seq(Nat), NEW m \in Nat
  PROVE  Program(old, h, m) \in [1 .. 8 -> Nat]
<1>1. ASSUME NEW c \in 1 .. 8, c <= Len(h)
      PROVE  h[c] \in Nat
  <2>1. c \in 1 .. Len(h)
    BY <1>1
  <2>2. QED BY <2>1, ElementOfSeq
<1>2. QED BY <1>1 DEF Program

LEMMA AreaTypes ==
  ASSUME NEW area \in [Pages -> Content]
  PROVE  /\ \A n \in Nat : EraseFirst(area, n) \in [Pages -> Content]
         /\ \A p, c : c \in Content => WritePage(area, p, c) \in [Pages -> Content]
BY DEF EraseFirst, WritePage, Content

LEMMA TypeInit == Init => TypeOK /\ ControlInv /\ Counters
<1> SUFFICES ASSUME Init PROVE TypeOK /\ ControlInv /\ Counters
  OBVIOUS
<1>1. ErasedInfo \in [1 .. 8 -> Nat]
  BY SizeAssumption DEF ErasedInfo, ErasedCell
<1>2. run \in [Pages -> Content]
  BY SizeAssumption DEF Init, Content, ProgramPage, Pages
<1>3. copy \in [Pages -> Content]
  BY DEF Init, Content
<1>4. gaveUp \in BOOLEAN
  BY Zenon DEF Init
<1>5. TypeOK
  BY <1>1, <1>2, <1>3, <1>4, SizeAssumption DEF Init, TypeOK
<1>6. QED BY <1>5 DEF Init, ControlInv, Counters

LEMMA TypeStep ==
  ASSUME TypeOK, ControlInv, Counters, [Next]_vars
  PROVE  TypeOK' /\ Counters'
<1> USE DEF TypeOK, Counters, Goto
<1>1. CASE BootStep
  <2>1. CASE EraseRun
    BY <2>1, AreaTypes, SMTT(30) DEF EraseRun, Content
  <2>2. CASE CopyPage
    <3>1. Unpacked(k) \in Content
      <4>1. Source \in Images /\ UpdatesTotalSize <= MAXSIZE
        BY <2>2 DEF CopyPage, ControlInv, Verified, Source
      <4>2. CASE CompressFlag = 1
        BY <4>1, <4>2 DEF Unpacked, ProgramPage, Content
      <4>3. CASE CompressFlag # 1
        <5>1. UpdatesTotalSize \in Nat
          BY SizeAssumption DEF UpdatesTotalSize
        <5>2. PageNo(UpdatesTotalSize) \in Nat /\ PageNo(UpdatesTotalSize) <= PageNo(MAXSIZE)
              /\ PageNo(MAXSIZE) \in Nat
          BY <5>1, <4>1, SizeAssumption, PageNoMonotonic
        <5>3. k \in Pages
          BY <2>2, <4>3, <5>2, SMTT(30) DEF CopyPage, CopyPages, Pages
        <5>4. QED BY <4>3, <5>3 DEF Unpacked
      <4>4. QED BY <4>2, <4>3
    <3>2. Junk \in Content
      BY DEF Content
    <3>3. run' \in [Pages -> Content]
      BY <2>2, <3>1, <3>2, AreaTypes DEF CopyPage
    <3>4. faults' \in 0 .. MaxFaults
      BY <2>2, SizeAssumption DEF CopyPage
    <3>5. QED BY <2>2, <3>3, <3>4 DEF CopyPage
  <2>3. CASE Commit
    <3>1. gaveUp' \in BOOLEAN
      BY <2>3, Zenon DEF Commit
    <3>2. QED BY <2>3, <3>1 DEF Commit, Restart
  <2>4. CASE GiveUp
    <3>1. gaveUp' \in BOOLEAN
      BY <2>4, Zenon DEF GiveUp
    <3>2. QED BY <2>4, <3>1 DEF GiveUp, flash
  <2>5. CASE ReadFlag \/ JumpToApp \/ NoValidStack \/ Drop \/ ReadBack \/ ForceUpdate
    BY <2>5 DEF ReadFlag, JumpToApp, NoValidStack, Drop, ReadBack, ForceUpdate, flash
  <2>6. CASE Verify \/ Attempt
    BY <2>6 DEF Verify, Attempt, flash
  <2>7. QED BY <1>1, <2>1, <2>2, <2>3, <2>4, <2>5, <2>6 DEF BootStep
<1>2. CASE HandlerStep
  <2>1. CASE StoreHeader
    BY <2>1, FieldTypes, ProgramType DEF StoreHeader
  <2>2. CASE WipeCopy
    <3>1. ErasedPages(Size[img]) \in Nat
      BY <2>2, SizeAssumption, PageNoMonotonic DEF WipeCopy, ErasedPages
    <3>2. QED BY <2>2, <3>1, AreaTypes DEF WipeCopy
  <2>3. CASE UpdateFlag
    BY <2>3 DEF UpdateFlag
  <2>4. CASE UpdateFlagDone
    BY <2>4 DEF UpdateFlagDone, Restart
  <2>5. QED BY <1>2, <2>1, <2>2, <2>3, <2>4 DEF HandlerStep
<1>3. CASE HostStep
  <2>1. ASSUME NEW i \in Images, RecvStart(i) PROVE TypeOK' /\ Counters'
    <3>1. ErasedInfo \in [1 .. 8 -> Nat]
      BY SizeAssumption DEF ErasedInfo, ErasedCell
    <3>2. QED BY <2>1, <3>1 DEF RecvStart
  <2>2. ASSUME NEW i \in Images, NEW n \in 0 .. PageNo(Size[i]) - 1, RecvUpdate(i, n)
        PROVE TypeOK' /\ Counters'
    <3>1. <<i, n + 1>> \in Content
      <4>1. n \in Nat
        OBVIOUS
      <4>2. QED BY <4>1 DEF Content
    <3>2. copy' \in [Pages -> Content]
      BY <2>2, <3>1, AreaTypes DEF RecvUpdate
    <3>3. QED BY <2>2, <3>2 DEF RecvUpdate, ram
  <2>3. CASE RecvEnd
    BY <2>3 DEF RecvEnd, flash
  <2>4. QED BY <1>3, <2>1, <2>2, <2>3 DEF HostStep
<1>4. CASE Crash
  <2>1. Junk \in Content
    BY DEF Content
  <2>2. info' \in [1 .. 8 -> Nat]
    <3>1. CASE TornHeader
      <4>1. Header(img) \in Seq(Nat)
        BY <3>1, FieldTypes DEF TornHeader
      <4>2. PICK m \in 0 .. 8 : info' = Program(info, Header(img), m)
        BY <3>1 DEF TornHeader
      <4>3. m \in Nat
        OBVIOUS
      <4>4. QED BY <4>1, <4>2, <4>3, ProgramType
    <3>2. CASE info' = info
      BY <3>2
    <3>3. QED BY <1>4, <3>1, <3>2 DEF Crash, TornWipe, TornUpdate, TornCopy
  <2>3. copy' \in [Pages -> Content]
    BY <1>4, <2>1, AreaTypes DEF Crash, TornHeader, TornWipe, TornUpdate, TornCopy
  <2>4. run' \in [Pages -> Content]
    BY <1>4, <2>1, AreaTypes DEF Crash, TornHeader, TornWipe, TornUpdate, TornCopy
  <2>5. QED BY <1>4, <2>2, <2>3, <2>4 DEF Crash, Restart
<1>5. CASE UNCHANGED vars
  BY <1>5 DEF vars, flash, ram
<1>6. QED BY <1>1, <1>2, <1>3, <1>4, <1>5 DEF Next

\* Every variable keeps its type, for every kind of image: in particular the
\* loops of main() that index the areas by page never leave them (main.c:160-258).
THEOREM TypeCorrect == Spec => []TypeOK
<1>1. Init => TypeOK /\ ControlInv /\ Counters
  BY TypeInit
<1>2. TypeOK /\ ControlInv /\ Counters /\ [Next]_vars => (TypeOK /\ ControlInv /\ Counters)'
  BY TypeStep, ControlStep
<1>3. QED BY <1>1, <1>2, PTL DEF Spec
----------------------------------------------------------------------------
(* The headers in the info page *)

\* The info page is erased, or holds the beginning of one header.
HeaderInv ==
  /\ info = ErasedInfo \/ \E j \in Images, m \in 0 .. 8 :
       \E h \in {Fields(j), <<Ver[j]>> \o Fields(j)} : info = Program(ErasedInfo, h, m)
  /\ pc = "header" => img \in Images /\ (who = "boot" => info = ErasedInfo)

LEMMA FieldsAre ==
  ASSUME NEW i \in Images
  PROVE  /\ Len(Fields(i)) = 7 /\ Len(<<Ver[i]>> \o Fields(i)) = 8
         /\ (<<Ver[i]>> \o Fields(i))[1] = Ver[i]
         /\ Fields(i)[1] = IF i \in Compressed THEN 1 ELSE 0
         /\ Fields(i) \in Seq(Nat) /\ <<Ver[i]>> \o Fields(i) \in Seq(Nat)
<1>1. /\ Size[i] % HW \in Nat /\ Size[i] \div HW \in Nat
      /\ Crc[i] % HW \in Nat /\ Crc[i] \div HW \in Nat
      /\ Tag[i] \in Nat /\ PAGE \in Nat /\ Ver[i] \in Nat
  BY SizeAssumption, HeaderAssumption
<1>2. /\ Fields(i) \in Seq(Nat) /\ Len(Fields(i)) = 7
      /\ Fields(i)[1] = IF i \in Compressed THEN 1 ELSE 0
  BY <1>1 DEF Fields
<1>3. <<Ver[i]>> \in Seq(Nat) /\ Len(<<Ver[i]>>) = 1 /\ <<Ver[i]>>[1] = Ver[i]
  BY <1>1
<1>4. /\ <<Ver[i]>> \o Fields(i) \in Seq(Nat)
      /\ Len(<<Ver[i]>> \o Fields(i)) = 8
      /\ (<<Ver[i]>> \o Fields(i))[1] = Ver[i]
  <2> DEFINE v == <<Ver[i]>>
             f == Fields(i)
  <2>1. v \in Seq(Nat) /\ f \in Seq(Nat) /\ Len(v) = 1 /\ v[1] = Ver[i] /\ Len(f) = 7
    BY <1>2, <1>3
  <2> HIDE DEF v, f
  <2>2. /\ v \o f \in Seq(Nat) /\ Len(v \o f) = Len(v) + Len(f)
        /\ \A c \in 1 .. Len(v) + Len(f) :
             (v \o f)[c] = IF c <= Len(v) THEN v[c] ELSE f[c - Len(v)]
    BY <2>1, ConcatProperties
  <2>3. v \o f \in Seq(Nat) /\ Len(v \o f) = 8 /\ (v \o f)[1] = Ver[i]
    <3>1. Len(v) + Len(f) = 8 /\ 1 \in 1 .. Len(v) + Len(f) /\ 1 <= Len(v)
      BY <2>1
    <3>2. (v \o f)[1] = v[1]
      BY <2>2, <3>1, Zenon
    <3>3. QED BY <2>1, <2>2, <3>1, <3>2, Zenon
  <2>4. QED BY <2>3 DEF v, f
<1>5. QED BY <1>2, <1>4

\* When the first half-word cannot be programmed nothing is.
LEMMA FirstCellStops ==
  ASSUME NEW old \in [1 .. 8 -> Nat], NEW h, NEW m, ~Writable(old[1], h[1])
  PROVE  Program(old, h, m) = old
<1>1. \A c \in 1 .. 8 : 1 \in 1 .. c
  OBVIOUS
<1>2. \A c \in 1 .. 8 : ~\A d \in 1 .. c : Writable(old[d], h[d])
  BY <1>1
<1>3. Program(old, h, m) = [c \in 1 .. 8 |-> old[c]]
  BY <1>2 DEF Program
<1>4. QED BY <1>3

\* A header that was begun over an erased page says so in its first half-word.
LEMMA BegunHeader ==
  ASSUME NEW h \in Seq(Nat), Len(h) >= 1, NEW m \in 0 .. 8
  PROVE  /\ m = 0 => Program(ErasedInfo, h, m) = ErasedInfo
         /\ m # 0 => Program(ErasedInfo, h, m)[1] = h[1]
<1>1. \A c \in 1 .. 8 : ErasedInfo[c] = ErasedCell
  BY DEF ErasedInfo
<1>2. \A c \in 1 .. 8 : Writable(ErasedInfo[c], h[c])
  BY <1>1 DEF Writable
<1>3. CASE m = 0
  <2>1. \A c \in 1 .. 8 : ~(c <= m)
    BY <1>3
  <2>2. Program(ErasedInfo, h, m) = [c \in 1 .. 8 |-> ErasedInfo[c]]
    BY <2>1 DEF Program
  <2>3. QED BY <1>3, <2>2 DEF ErasedInfo
<1>4. CASE m # 0
  <2>1. /\ 1 \in 1 .. 8 /\ 1 <= m /\ 1 <= Len(h)
        /\ \A d \in 1 .. 1 : Writable(ErasedInfo[d], h[d])
    BY <1>2, <1>4
  <2>2. QED BY <1>4, <2>1 DEF Program
<1>5. QED BY <1>3, <1>4

\* Whatever of a header is written, the info page is the beginning of one: the
\* bootloader has erased it, and over another header the application's stops at
\* its version.
LEMMA HeaderWritten ==
  ASSUME TypeOK, VersionsTell, Compressed # {}, HeaderInv, pc = "header", NEW m \in 0 .. 8
  PROVE  \E j \in Images, n \in 0 .. 8 :
           \E h \in {Fields(j), <<Ver[j]>> \o Fields(j)} :
             Program(info, Header(img), m) = Program(ErasedInfo, h, n)
<1>1. img \in Images /\ Header(img) \in {Fields(img), <<Ver[img]>> \o Fields(img)}
  BY DEF HeaderInv, Header
<1>2. CASE info = ErasedInfo
  BY <1>1, <1>2
<1>3. CASE info # ErasedInfo
  <2>1. who = "app" /\ Header(img) = <<Ver[img]>> \o Fields(img)
    BY <1>3 DEF HeaderInv, Header, TypeOK
  <2>2. PICK j \in Images, n \in 0 .. 8 :
          \E h \in {Fields(j), <<Ver[j]>> \o Fields(j)} : info = Program(ErasedInfo, h, n)
    BY <1>3 DEF HeaderInv
  <2>3. PICK h \in {Fields(j), <<Ver[j]>> \o Fields(j)} : info = Program(ErasedInfo, h, n)
    BY <2>2
  <2>4. h \in Seq(Nat) /\ Len(h) >= 1 /\ h[1] \in {0, 1, Ver[j]}
    <3>1. CASE h = Fields(j)
      BY <3>1, FieldsAre
    <3>2. CASE h = <<Ver[j]>> \o Fields(j)
      BY <3>2, FieldsAre
    <3>3. QED BY <3>1, <3>2
  <2>5. info[1] = h[1]
    BY <1>3, <2>3, <2>4, BegunHeader
  <2>6. /\ Ver[img] \notin {0, ErasedCell} /\ Ver[j] # ErasedCell
        /\ 0 # ErasedCell /\ 1 # ErasedCell
    <3>1. Ver[img] \notin {0, ErasedCell} /\ Ver[j] \notin {0, ErasedCell}
      BY <1>1 DEF VersionsTell
    <3>2. Ver[img] \in 0 .. HW - 1 /\ HW \in Nat
      BY <1>1, HeaderAssumption, SizeAssumption
    <3>3. QED BY <3>1, <3>2 DEF ErasedCell
  <2>7. ~Writable(info[1], Header(img)[1])
    BY <1>1, <2>1, <2>4, <2>5, <2>6, FieldsAre DEF Writable
  <2>8. Program(info, Header(img), m) = info
    BY <2>7, FirstCellStops DEF TypeOK
  <2>9. QED BY <2>2, <2>3, <2>8
<1>4. QED BY <1>2, <1>3

LEMMA HeaderStep ==
  ASSUME TypeOK, VersionsTell, Compressed # {}, HeaderInv, [Next]_vars
  PROVE  HeaderInv'
<1> DEFINE Begun(p) == p = ErasedInfo \/ \E j \in Images, m \in 0 .. 8 :
             \E h \in {Fields(j), <<Ver[j]>> \o Fields(j)} : p = Program(ErasedInfo, h, m)
<1>1. CASE \E i \in Images : RecvStart(i)
  BY <1>1 DEF RecvStart, Goto, HeaderInv, TypeOK
<1>2. CASE StoreHeader
  <2>1. pc = "header" /\ pc' = "wipe" /\ info' = Program(info, Header(img), 8) /\ 8 \in 0 .. 8
    BY <1>2 DEF StoreHeader, Goto
  <2>2. Begun(info')
    BY <2>1, HeaderWritten
  <2>3. QED BY <2>1, <2>2 DEF HeaderInv
<1>3. CASE Crash
  <2>1. pc' = "reset"
    BY <1>3 DEF Crash, Restart
  <2>2. CASE TornHeader
    <3>1. PICK m \in 0 .. 8 : info' = Program(info, Header(img), m)
      BY <2>2 DEF TornHeader
    <3>2. pc = "header"
      BY <2>2 DEF TornHeader
    <3>3. Begun(info')
      BY <3>1, <3>2, HeaderWritten
    <3>4. QED BY <2>1, <3>3 DEF HeaderInv
  <2>3. CASE info' = info
    BY <2>1, <2>3 DEF HeaderInv
  <2>4. QED BY <1>3, <2>2, <2>3 DEF Crash, TornWipe, TornUpdate, TornCopy
<1>4. CASE BootStep \/ WipeCopy \/ UpdateFlag \/ UpdateFlagDone \/ RecvEnd
           \/ (\E i \in Images : \E n \in 0 .. PageNo(Size[i]) - 1 : RecvUpdate(i, n))
           \/ UNCHANGED vars
  <2>1. info' = info
    BY <1>4 DEF BootStep, WipeCopy, UpdateFlag, UpdateFlagDone, RecvEnd, RecvUpdate, vars,
       flash, ReadFlag, JumpToApp, NoValidStack, Verify, Drop, Attempt, GiveUp, EraseRun,
       CopyPage, ReadBack, Commit, ForceUpdate
  <2>2. pc' = "header" => pc = "header" /\ img' = img /\ who' = who
    BY <1>4 DEF BootStep, WipeCopy, UpdateFlag, UpdateFlagDone, RecvEnd, RecvUpdate, vars,
       flash, ram, ReadFlag, JumpToApp, NoValidStack, Verify, Drop, Attempt, GiveUp,
       EraseRun, CopyPage, ReadBack, Commit, ForceUpdate, Goto, Restart
  <2>3. QED BY <2>1, <2>2 DEF HeaderInv
<1>5. QED BY <1>1, <1>2, <1>3, <1>4 DEF Next, HandlerStep, HostStep

\* A header whose size and CRC are those of a packed image has its flag.
LEMMA HeaderTells ==
  ASSUME HeadersTell, HeaderInv
  PROVE  PackedReadAsPacked
<1> SUFFICES ASSUME Verified, Source \in Compressed PROVE CompressFlag = 1
  BY DEF PackedReadAsPacked
<1>1. Source \in Images /\ CrcAccepts(Source)
  BY DEF Verified, Source
<1>2. Size[Source] = info[2] + HW * info[3] /\ Crc[Source] = info[5] + HW * info[6]
  BY <1>1 DEF CrcAccepts, UpdatesTotalSize, UpdatesCRC32
<1>3. PICK j \in Images, m \in 0 .. 8 :
        \E h \in {Fields(j), <<Ver[j]>> \o Fields(j)} : info = Program(ErasedInfo, h, m)
  <2>1. CASE info = ErasedInfo
    <3>1. Program(ErasedInfo, Fields(Source), 0) = ErasedInfo
      BY <1>1, FieldsAre, BegunHeader
    <3>2. QED BY <1>1, <2>1, <3>1
  <2>2. QED BY <2>1 DEF HeaderInv
<1>4. PICK h \in {Fields(j), <<Ver[j]>> \o Fields(j)} : info = Program(ErasedInfo, h, m)
  BY <1>3
<1>5. info[1] = 1
  BY <1>2, <1>4 DEF HeadersTell
<1>6. QED BY <1>5 DEF CompressFlag

\* As long as hosts send no version of 0 or 0xFFFF, and no header is read as
\* that of another image by chance, a packed image is not copied as if it were a
\* plain one.  (The programs check neither; with version 0 it is.)  Start frames
\* in both programs write their headers over each other, and power fails in
\* writing them (flash_if.c:190-209 of the application, Flash_Storage_Header of
\* the bootloader).
LEMMA PackedStaysPacked ==
  ASSUME VersionsTell, HeadersTell
  PROVE  Spec => []PackedReadAsPacked
<1>1. CASE Compressed = {}
  <2>1. PackedReadAsPacked
    BY <1>1 DEF PackedReadAsPacked
  <2>2. QED BY <2>1, PTL
<1>2. CASE Compressed # {}
  <2>1. Init => HeaderInv
    BY DEF Init, HeaderInv
  <2>2. TypeOK /\ HeaderInv /\ [Next]_vars => HeaderInv'
    BY <1>2, HeaderStep
  <2>3. HeaderInv => PackedReadAsPacked
    BY HeaderTells
  <2>4. QED BY <2>1, <2>2, <2>3, TypeCorrect, PTL DEF Spec
<1>3. QED BY <1>1, <1>2

\* The flag page, the info page, the copy area and main()'s place in its work
\* agree, and a run area that is not a whole program can be copied again: for
\* every such set of images and sizes, plain and packed, whatever frames for them
\* arrive, in whatever order and number, and however often power fails, also
\* inside a step (main.c:66-278, can_ota_protocol.c:256-331, canbus_middle.c:636-710).
THEOREM OtaInvariant ==
  ASSUME VersionsTell, HeadersTell
  PROVE  Spec => []OtaInv
<1>1. Init => OtaInv
  BY OtaInit
<1>2. PackedReadAsPacked /\ OtaInv /\ [Next]_vars => OtaInv'
  BY OtaStep
<1>3. QED BY <1>1, <1>2, PackedStaysPacked, PTL DEF Spec

\* So the application is entered only with a complete program in the run area,
\* unless three copies of a verified image failed (main.c:219-277).
THEOREM JumpSafety ==
  ASSUME VersionsTell, HeadersTell
  PROVE  Spec => []JumpSafe
<1>1. OtaInv => JumpSafe
  BY DEF OtaInv, RunInv
<1>2. QED BY <1>1, OtaInvariant, PTL
----------------------------------------------------------------------------
(* Three attempts *)

\* An attempt ends in the next one only after a page write of its own has gone
\* wrong: as long as none has, the pages before k are those of the copy area and
\* the others are erased.
RetryInv ==
  CompressFlag # 1 =>
    /\ pc = "attempt" => faults >= cnt
    /\ pc \in {"erase", "copy"} => faults + 1 >= cnt
    /\ pc = "erase" => \A p \in 1 .. CopyPages : p < k => run[p] = Blank
    /\ pc = "copy" /\ faults < cnt =>
         \A p \in 1 .. CopyPages : run[p] = IF p < k THEN copy[p] ELSE Blank

LEMMA HeaderUnchanged ==
  ASSUME info' = info, copy' = copy
  PROVE  /\ CompressFlag' = CompressFlag
         /\ UpdatesTotalSize' = UpdatesTotalSize
         /\ Source' = Source
         /\ Honest' = Honest
         /\ CopyPages' = CopyPages
<1>1. /\ CompressFlag' = CompressFlag /\ UpdatesTotalSize' = UpdatesTotalSize
      /\ UpdatesCRC32' = UpdatesCRC32 /\ OriginalTag' = OriginalTag
  BY DEF CompressFlag, UpdatesTotalSize, UpdatesCRC32, OriginalTag
<1>2. Source' = Source
  BY <1>1 DEF Source, CrcAccepts, Holds
<1>3. QED BY <1>1, <1>2 DEF Honest, Unpacks, CopyPages

\* The loops of a plain copy stay inside the run area.
LEMMA PlainPages ==
  ASSUME TypeOK, Verified, CompressFlag # 1
  PROVE  CopyPages \in Nat /\ 1 .. CopyPages \subseteq Pages
<1>1. UpdatesTotalSize \in Nat /\ UpdatesTotalSize <= MAXSIZE
  BY SizeAssumption DEF UpdatesTotalSize, TypeOK, Verified
<1>2. PageNo(UpdatesTotalSize) \in Nat /\ PageNo(UpdatesTotalSize) <= PageNo(MAXSIZE)
      /\ PageNo(MAXSIZE) \in Nat
  BY <1>1, SizeAssumption, PageNoMonotonic
<1>3. QED BY <1>2 DEF CopyPages, Pages

\* When every page is that of the copy area, the copy is read back correctly.
LEMMA CopyReadsBack ==
  ASSUME Verified, CompressFlag # 1, \A p \in 1 .. CopyPages : run[p] = copy[p]
  PROVE  ReadBackOK
<1>1. CrcAccepts(Source)
  BY DEF Verified, Source
<1>2. CopyPages = PageNo(Size[Source])
  BY <1>1 DEF CopyPages, CrcAccepts
<1>3. QED BY <1>1, <1>2 DEF CrcAccepts, Holds, ReadBackOK

LEMMA RetryStep ==
  ASSUME TypeOK, ControlInv, Counters, RetryInv, [Next]_vars
  PROVE  RetryInv'
<1> USE DEF Goto
<1>1. CASE BootStep
  <2>1. info' = info /\ copy' = copy
    BY <1>1 DEF BootStep, ReadFlag, JumpToApp, NoValidStack, Verify, Drop, Attempt, GiveUp,
           EraseRun, CopyPage, ReadBack, Commit, ForceUpdate, flash
  <2> SUFFICES ASSUME CompressFlag # 1
               PROVE  RetryInv'
    BY <2>1, HeaderUnchanged DEF RetryInv
  <2>2. CopyPages' = CopyPages
    BY <2>1, HeaderUnchanged
  <2>3. cnt \in 0 .. 3 /\ k \in Nat /\ faults \in Nat /\ run \in [Pages -> Content]
    BY SizeAssumption DEF TypeOK
  <2>4. CASE ReadFlag \/ JumpToApp \/ NoValidStack \/ Drop \/ GiveUp \/ Commit \/ ForceUpdate
    BY <2>4 DEF ReadFlag, JumpToApp, NoValidStack, Drop, GiveUp, Commit, Restart, ForceUpdate,
       RetryInv
  <2>5. CASE Verify
    BY <2>3, <2>5 DEF Verify, RetryInv
  <2>6. CASE Attempt
    BY <2>2, <2>3, <2>6 DEF Attempt, RetryInv
  <2>7. CASE EraseRun
    <3>1. Verified
      BY <2>7 DEF EraseRun, ControlInv
    <3>2. CopyPages \in Nat /\ 1 .. CopyPages \subseteq Pages
      BY <3>1, PlainPages
    <3>3. faults' = faults /\ cnt' = cnt /\ faults + 1 >= cnt
      BY <2>7 DEF EraseRun, RetryInv
    <3>4. \A p \in 1 .. CopyPages : p < k => run[p] = Blank
      BY <2>7 DEF EraseRun, RetryInv
    <3>5. CASE k <= CopyPages /\ run' = [run EXCEPT ![k] = Blank] /\ k' = k + 1 /\ pc' = "erase"
      <4>1. \A p \in 1 .. CopyPages : p < k' => run'[p] = Blank
        BY <2>3, <3>2, <3>4, <3>5
      <4>2. QED BY <2>2, <3>3, <3>5, <4>1 DEF RetryInv
    <3>6. CASE k > CopyPages /\ pc' = "copy" /\ k' = 1 /\ run' = run
      <4>1. \A p \in 1 .. CopyPages : ~(p < k') /\ run'[p] = Blank
        BY <2>3, <3>2, <3>4, <3>6
      <4>2. QED BY <2>2, <3>3, <3>6, <4>1 DEF RetryInv
    <3>7. QED BY <2>7, <3>5, <3>6 DEF EraseRun
  <2>8. CASE CopyPage
    <3>1. Verified
      BY <2>8 DEF CopyPage, ControlInv
    <3>2. CopyPages \in Nat /\ 1 .. CopyPages \subseteq Pages /\ k \in 1 .. CopyPages
      BY <2>3, <2>8, <3>1, PlainPages DEF CopyPage, Counters
    <3>3. cnt' = cnt /\ pc' = "copy" /\ k' = k + 1 /\ faults' \in Nat /\ faults' >= faults
          /\ faults + 1 >= cnt
      BY <2>3, <2>8 DEF CopyPage, RetryInv
    <3>4. CASE faults' = faults + 1
      BY <2>3, <3>3, <3>4 DEF RetryInv
    <3>5. CASE faults' = faults /\ run' = WritePage(run, k, Unpacked(k))
      <4> SUFFICES ASSUME faults < cnt, NEW p \in 1 .. CopyPages
                   PROVE  run'[p] = IF p < k + 1 THEN copy[p] ELSE Blank
        BY <2>1, <2>2, <2>3, <3>3, <3>5 DEF RetryInv
      <4>1. \A q \in 1 .. CopyPages : run[q] = IF q < k THEN copy[q] ELSE Blank
        BY <2>8 DEF CopyPage, RetryInv
      <4>2. run[k] = Blank
        BY <2>3, <3>2, <4>1
      <4>3. run' = [run EXCEPT ![k] = copy[k]]
        BY <3>5, <4>2 DEF WritePage, Unpacked
      <4>4. QED BY <2>3, <3>2, <4>1, <4>3
    <3>6. QED BY <2>8, <3>4, <3>5 DEF CopyPage
  <2>9. CASE ReadBack
    <3>1. CASE pc' = "commit"
      BY <3>1 DEF RetryInv
    <3>2. CASE ~ReadBackOK /\ pc' = "attempt"
      <4>1. Verified /\ pc = "copy" /\ k > CopyPages /\ cnt' = cnt /\ faults' = faults
        BY <2>9 DEF ReadBack, ControlInv
      <4>2. ASSUME faults < cnt PROVE FALSE
        <5>1. \A p \in 1 .. CopyPages : run[p] = IF p < k THEN copy[p] ELSE Blank
          BY <4>1, <4>2 DEF RetryInv
        <5>2. CopyPages \in Nat
          BY <4>1, PlainPages
        <5>3. \A p \in 1 .. CopyPages : run[p] = copy[p]
          BY <2>3, <4>1, <5>1, <5>2
        <5>4. QED BY <3>2, <4>1, <5>3, CopyReadsBack
      <4>3. QED BY <2>3, <3>2, <4>1, <4>2 DEF RetryInv
    <3>3. QED BY <2>9, <3>1, <3>2 DEF ReadBack
  <2>10. QED
    BY <1>1, <2>4, <2>5, <2>6, <2>7, <2>8, <2>9 DEF BootStep
<1>2. CASE HandlerStep \/ HostStep \/ Crash
  <2>1. pc' \notin {"attempt", "erase", "copy"}
    BY <1>2 DEF HandlerStep, HostStep, StoreHeader, WipeCopy, UpdateFlag, UpdateFlagDone,
       RecvStart, RecvUpdate, RecvEnd, Crash, Restart, ram
  <2>2. QED BY <2>1 DEF RetryInv
<1>3. CASE UNCHANGED vars
  <2>1. info' = info /\ copy' = copy /\ run' = run /\ pc' = pc /\ cnt' = cnt /\ k' = k
        /\ faults' = faults
    BY <1>3 DEF vars, flash, ram
  <2>2. QED BY <2>1, HeaderUnchanged DEF RetryInv
<1>4. QED BY <1>1, <1>2, <1>3 DEF Next

\* A plain image is given up only after three page writes have gone wrong, one in
\* each attempt, whatever other images there are, and also when power fails
\* between and inside the attempts (main.c:216-257).
THEOREM RetriesPlain == Spec => []PlainRetries
<1>1. Init => TypeOK /\ ControlInv /\ Counters /\ RetryInv
  BY TypeInit DEF Init, RetryInv
<1>2. TypeOK /\ ControlInv /\ Counters /\ RetryInv /\ [Next]_vars
        => (TypeOK /\ ControlInv /\ Counters /\ RetryInv)'
  BY TypeStep, ControlStep, RetryStep
<1>3. RetryInv => PlainRetries
  BY DEF RetryInv, PlainRetries, GivingUp
<1>4. QED BY <1>1, <1>2, <1>3, PTL DEF Spec
----------------------------------------------------------------------------
(* OtaUpdate implements FirmwareStore *)

\* What the copy leaves in the run area: as long as it is not committed, no
\* program but the verified one can be whole there, and that is whole only when
\* it is read back.  An update is given up with no whole program.
InstallInv ==
  /\ Verified /\ Honest =>
       /\ pc = "erase" /\ k > 1 => run[1] = Blank
       /\ pc = "copy" => run[1] \in {Blank, Junk, ProgramPage(Source, 1)}
       /\ pc = "attempt" /\ cnt > 0 => \A i \in Images : ~Whole(i)
       /\ pc = "force1" /\ flag = "update" => \A i \in Images : ~Whole(i)
       /\ pc = "commit" => Whole(Source)
  /\ pc = "force1" /\ flag = "update" => gaveUp

StoreInv == TypeOK /\ ControlInv /\ Counters /\ InstallInv
----------------------------------------------------------------------------
(* Programs have a first page, and it says which program they are *)

LEMMA FirstPageOf ==
  ASSUME NEW n \in Nat, n >= 1
  PROVE  PageNo(n) \in Nat /\ PageNo(n) >= 1
<1>1. PageNo(1) = 1
  <2>1. PAGE \div PAGE = 1
    BY SizeAssumption, SMT
  <2>2. 1 + PAGE - 1 = PAGE
    BY SizeAssumption
  <2>3. QED BY <2>1, <2>2 DEF PageNo
<1>2. QED BY <1>1, PageNoMonotonic

LEMMA ImageSizes ==
  ASSUME NEW i \in Images
  PROVE  /\ 1 \in 1 .. PageNo(RunSize[i])
         /\ 1 \in 1 .. PageNo(Size[i])
         /\ 1 \in PageNums
<1>1. /\ RunSize[i] \in Nat /\ RunSize[i] >= 1
      /\ Size[i] \in Nat /\ Size[i] >= 1
      /\ HW * HW \in Nat /\ HW * HW >= 1
  BY SizeAssumption
<1>2. QED BY <1>1, FirstPageOf DEF PageNums

LEMMA FirstPages ==
  ASSUME NEW i \in Images, NEW j \in Images
  PROVE  /\ ProgramPage(i, 1) = ProgramPage(j, 1) => i = j
         /\ ProgramPage(i, 1) \notin {Blank, Junk}
<1>1. ProgramPage(i, 1) = ProgramPage(j, 1) => i = j
  BY DEF ProgramPage
<1>2. ProgramPage(i, 1) \notin {Blank, Junk}
  BY ImageSizes, ContentAssumption DEF ProgramPage
<1>3. QED BY <1>1, <1>2

\* At most one program is whole, and it begins with its first page.
LEMMA WholeFirst ==
  ASSUME NEW i \in Images, Whole(i)
  PROVE  run[1] = ProgramPage(i, 1)
BY ImageSizes DEF Whole

LEMMA WholeUnique ==
  ASSUME NEW i \in Images, NEW j \in Images, Whole(i), Whole(j)
  PROVE  i = j
BY WholeFirst, FirstPages

LEMMA VerifiedSource ==
  ASSUME Verified
  PROVE  /\ Source \in Images /\ CrcAccepts(Source)
         /\ UpdatesTotalSize = Size[Source] /\ Size[Source] <= MAXSIZE
BY DEF Verified, Source, CrcAccepts

\* What is read back from an honest package is the program.
LEMMA HonestReadBack ==
  ASSUME Verified, Honest
  PROVE  ReadBackOK <=> Whole(Source)
<1>1. CASE CompressFlag = 1
  BY <1>1 DEF ReadBackOK
<1>2. CASE CompressFlag # 1
  <2>1. Source \in Images \ Compressed /\ RunSize[Source] = UpdatesTotalSize
    BY <1>2, VerifiedSource, SizeAssumption DEF Honest
  <2>2. \A p \in 1 .. PageNo(UpdatesTotalSize) : p \in Pages
    BY VerifiedSource DEF CrcAccepts, Holds
  <2>3. QED BY <1>2, <2>1, <2>2 DEF ReadBackOK, CopyPages, Holds, Whole, ProgramPage
<1>3. QED BY <1>1, <1>2

\* The first page an attempt writes.
LEMMA HonestFirstPage ==
  ASSUME Verified, Honest
  PROVE  /\ Unpacked(1) \in {Junk, ProgramPage(Source, 1)}
         /\ 1 <= CopyPages
<1>1. Source \in Images /\ CrcAccepts(Source) /\ UpdatesTotalSize = Size[Source]
  BY VerifiedSource
<1>2. CASE CompressFlag = 1
  BY <1>1, <1>2, ImageSizes DEF Unpacked, CopyPages
<1>3. CASE CompressFlag # 1
  <2>1. copy[1] = <<Source, 1>> /\ 1 <= CopyPages
    BY <1>1, <1>3, ImageSizes DEF CrcAccepts, Holds, CopyPages
  <2>2. QED BY <1>3, <2>1 DEF Honest, Unpacked, ProgramPage
<1>4. QED BY <1>2, <1>3
----------------------------------------------------------------------------
(* The invariant of an installation *)

LEMMA InstallStep ==
  ASSUME TypeOK, ControlInv, Counters, InstallInv, [Next]_vars
  PROVE  InstallInv'
<1> USE DEF Goto
<1>1. CASE BootStep
  <2>1. info' = info /\ copy' = copy
    BY <1>1 DEF BootStep, ReadFlag, JumpToApp, NoValidStack, Verify, Drop, Attempt, GiveUp,
           EraseRun, CopyPage, ReadBack, Commit, ForceUpdate, flash
  <2>2. /\ Verified' = Verified /\ Honest' = Honest /\ Source' = Source
        /\ CopyPages' = CopyPages /\ CompressFlag' = CompressFlag
    BY <2>1, VerifiedUnchanged, HeaderUnchanged
  <2>3. ProgramPage(Source, 1)' = ProgramPage(Source, 1)
    BY <2>2 DEF ProgramPage
  <2>4. run \in [Pages -> Content] /\ 1 \in Pages /\ k \in Nat /\ cnt \in Nat
    BY FirstPage DEF TypeOK
  <2>5. CASE ReadFlag \/ JumpToApp \/ Drop \/ Commit
    BY <2>5 DEF ReadFlag, JumpToApp, Drop, Commit, Restart, InstallInv
  <2>6. CASE NoValidStack
    BY <2>6 DEF NoValidStack, flash, ControlInv, InstallInv
  <2>7. CASE Verify
    BY <2>7 DEF Verify, InstallInv
  <2>8. CASE Attempt
    BY <2>8 DEF Attempt, InstallInv
  <2>9. CASE GiveUp
    <3>1. pc = "attempt" /\ cnt > 0 /\ pc' = "force1" /\ gaveUp' /\ UNCHANGED flash
      BY <2>9 DEF GiveUp
    <3>2. QED BY <2>2, <3>1, FlashUnchanged DEF InstallInv
  <2>10. CASE EraseRun
    <3> SUFFICES ASSUME Verified, Honest
                 PROVE  /\ pc' = "erase" /\ k' > 1 => run'[1] = Blank
                        /\ pc' = "copy" => run'[1] = Blank
      BY <2>2, <2>10 DEF EraseRun, InstallInv
    <3>1. pc = "erase" /\ k >= 1 /\ (k > 1 => run[1] = Blank)
      BY <2>10 DEF EraseRun, Counters, InstallInv
    <3>2. CASE k <= CopyPages /\ run' = [run EXCEPT ![k] = Blank] /\ k' = k + 1 /\ pc' = pc
      BY <2>4, <3>1, <3>2
    <3>3. CASE k > CopyPages /\ run' = run /\ pc' = "copy"
      <4>1. CopyPages \in Nat
        BY VerifiedSource, SizeAssumption, PageNoMonotonic DEF CopyPages
      <4>2. k > 1
        BY <2>4, <3>3, <4>1, HonestFirstPage
      <4>3. QED BY <3>1, <3>3, <4>2
    <3>4. QED BY <2>10, <3>2, <3>3 DEF EraseRun
  <2>11. CASE CopyPage
    <3> SUFFICES ASSUME Verified, Honest
                 PROVE  run'[1] \in {Blank, Junk, ProgramPage(Source, 1)}
      BY <2>2, <2>3, <2>11 DEF CopyPage, InstallInv
    <3>1. run[1] \in {Blank, Junk, ProgramPage(Source, 1)}
      BY <2>11 DEF CopyPage, InstallInv
    <3>2. PICK c : /\ run' = WritePage(run, k, c)
                   /\ c \in {Junk, Unpacked(k)}
      BY <2>11 DEF CopyPage
    <3>3. CASE k = 1
      BY <2>4, <3>1, <3>2, <3>3, HonestFirstPage DEF WritePage
    <3>4. CASE k # 1
      BY <2>4, <3>1, <3>2, <3>4 DEF WritePage
    <3>5. QED BY <3>3, <3>4
  <2>12. CASE ReadBack
    <3>1. UNCHANGED flash /\ pc = "copy"
      BY <2>12 DEF ReadBack
    <3>2. \A i \in Images : Whole(i)' = Whole(i)
      BY <3>1, FlashUnchanged
    <3> SUFFICES ASSUME Verified, Honest
                 PROVE  /\ pc' = "attempt" => \A i \in Images : ~Whole(i)
                        /\ pc' = "commit" => Whole(Source)
      BY <2>2, <2>12, <3>2, VerifiedSource DEF ReadBack, InstallInv
    <3>3. run[1] \in {Blank, Junk, ProgramPage(Source, 1)}
      BY <3>1 DEF InstallInv
    <3>4. ASSUME NEW i \in Images, Whole(i) PROVE i = Source
      BY <3>3, <3>4, WholeFirst, FirstPages, VerifiedSource
    <3>5. pc' = "attempt" => ~Whole(Source)
      BY <2>12, HonestReadBack DEF ReadBack
    <3>6. pc' = "commit" => Whole(Source)
      BY <2>12, HonestReadBack DEF ReadBack
    <3>7. QED BY <3>4, <3>5, <3>6
  <2>13. CASE ForceUpdate
    BY <2>13 DEF ForceUpdate, InstallInv
  <2>14. QED
    BY <1>1, <2>5, <2>6, <2>7, <2>8, <2>9, <2>10, <2>11, <2>12, <2>13 DEF BootStep
<1>2. CASE HandlerStep \/ HostStep \/ Crash
  <2>1. pc' \notin {"attempt", "erase", "copy", "commit", "force1"}
    BY <1>2 DEF HandlerStep, HostStep, StoreHeader, WipeCopy, UpdateFlag, UpdateFlagDone,
       RecvStart, RecvUpdate, RecvEnd, Crash, Restart, ram
  <2>2. QED BY <2>1 DEF InstallInv
<1>3. CASE UNCHANGED vars
  <2>1. /\ info' = info /\ copy' = copy /\ run' = run /\ pc' = pc /\ cnt' = cnt /\ k' = k
        /\ flag' = flag /\ gaveUp' = gaveUp /\ UNCHANGED flash
    BY <1>3 DEF vars, flash, ram
  <2>2. /\ Verified' = Verified /\ Honest' = Honest /\ Source' = Source
        /\ \A i \in Images : Whole(i)' = Whole(i)
    BY <2>1, FlashUnchanged, HeaderUnchanged
  <2>3. ProgramPage(Source, 1)' = ProgramPage(Source, 1)
    BY <2>2 DEF ProgramPage
  <2>4. QED BY <2>1, <2>2, <2>3, VerifiedSource DEF InstallInv
<1>4. QED BY <1>1, <1>2, <1>3 DEF Next

THEOREM InstallInvariant == Spec => []StoreInv
<1>1. Init => StoreInv
  BY TypeInit DEF Init, StoreInv, InstallInv
<1>2. StoreInv /\ [Next]_vars => StoreInv'
  BY TypeStep, ControlStep, InstallStep DEF StoreInv
<1>3. QED BY <1>1, <1>2, PTL DEF Spec
----------------------------------------------------------------------------
(* The steps, as steps of the store *)

\* The first whole program, or None: what runs when no update is pending.
Installed == IF \E i \in Images : Whole(i) THEN CHOOSE i \in Images : Whole(i) ELSE None

LEMMA StoreTypes ==
  /\ Installed \in Images \cup {None}
  /\ Staged \in Images \cup {None}
  /\ Bootable \in Images \cup {None}
  /\ Doomed \in BOOLEAN
<1>1. Installed \in Images \cup {None}
  BY DEF Installed
<1>2. Staged \in Images \cup {None}
  BY VerifiedSource DEF Staged
<1>3. Bootable = IF flag = "update" /\ Staged # None THEN Staged ELSE Installed
  BY DEF Bootable, Installed
<1>4. QED BY <1>1, <1>2, <1>3 DEF Doomed

LEMMA BootableIs ==
  Bootable = IF flag = "update" /\ Staged # None THEN Staged ELSE Installed
BY DEF Bootable, Installed

LEMMA BootableNext ==
  /\ Bootable' = IF flag' = "update" /\ Staged' # None THEN Staged' ELSE Installed'
  /\ Bootable' \in Images \cup {None}
  /\ Staged' \in Images \cup {None}
  /\ Doomed' \in BOOLEAN
<1>1. (Bootable = IF flag = "update" /\ Staged # None THEN Staged ELSE Installed)'
  BY BootableIs, PTL
<1>2. (/\ Installed \in Images \cup {None}
       /\ Staged \in Images \cup {None}
       /\ Bootable \in Images \cup {None}
       /\ Doomed \in BOOLEAN)'
  BY StoreTypes, PTL
<1>3. QED BY <1>1, <1>2

LEMMA StagedIs ==
  /\ Staged # None <=> Verified /\ Honest
  /\ Staged # None => Staged = Source /\ Source \in Images
BY VerifiedSource, ContentAssumption DEF Staged

LEMMA InstalledIs ==
  ASSUME NEW i \in Images, Whole(i)
  PROVE  Installed = i
BY WholeUnique DEF Installed

LEMMA InstalledUnchanged ==
  ASSUME run' = run
  PROVE  Installed' = Installed
BY RunUnchanged DEF Installed

LEMMA StagedUnchanged ==
  ASSUME info' = info, copy' = copy
  PROVE  Staged' = Staged
BY VerifiedUnchanged, HeaderUnchanged DEF Staged

LEMMA StoreInitial == Init => Store!StoreInit
<1> SUFFICES ASSUME Init PROVE Store!StoreInit
  OBVIOUS
<1>1. Bootable \in Images \cup {None}
  BY StoreTypes
<1>2. Staged = None
  <2>1. ASSUME NEW i \in Images, CrcAccepts(i) PROVE FALSE
    <3>1. 1 \in Pages /\ copy[1] = <<i, 1>>
      BY <2>1, ImageSizes DEF CrcAccepts, Holds
    <3>2. copy[1] = Blank
      BY <3>1 DEF Init
    <3>3. QED BY <3>1, <3>2, ImageSizes, ContentAssumption
  <2>2. QED BY <2>1 DEF Verified, Staged
<1>3. gaveUp = FALSE /\ Doomed = FALSE
  BY DEF Init, Doomed
<1>4. QED BY <1>1, <1>2, <1>3 DEF Store!StoreInit

\* main() of the bootloader.
LEMMA BootStepStore ==
  ASSUME StoreInv, StoreInv', BootStep
  PROVE  [Store!StoreNext]_(Store!storeVars)
<1> USE DEF Goto, StoreInv
<1>1. info' = info /\ copy' = copy
  BY DEF BootStep, ReadFlag, JumpToApp, NoValidStack, Verify, Drop, Attempt, GiveUp,
         EraseRun, CopyPage, ReadBack, Commit, ForceUpdate, flash
<1>2. Staged' = Staged /\ Verified' = Verified /\ Honest' = Honest /\ Source' = Source
  BY <1>1, StagedUnchanged, VerifiedUnchanged, HeaderUnchanged
<1>3. gaveUp \in BOOLEAN /\ gaveUp' \in BOOLEAN
  BY DEF TypeOK
<1>4. CASE Doomed
  <2>1. Store!Scramble
    BY <1>2, <1>3, <1>4, BootableNext DEF Store!Scramble
  <2>2. QED BY <2>1 DEF Store!StoreNext
<1>5. CASE ~Doomed /\ flag' = flag /\ run' = run /\ gaveUp' = gaveUp
  <2>1. Installed' = Installed /\ Doomed' = Doomed
    BY <1>2, <1>5, InstalledUnchanged DEF Doomed
  <2>2. Bootable' = Bootable
    BY <1>2, <1>5, <2>1, BootableIs, BootableNext
  <2>3. QED BY <1>2, <1>5, <2>1, <2>2 DEF Store!storeVars
<1>6. CASE ~Doomed /\ (EraseRun \/ CopyPage)
  <2>1. flag = "update" /\ flag' = "update" /\ Verified /\ gaveUp' = gaveUp
    BY <1>6 DEF EraseRun, CopyPage, ControlInv
  <2>2. Staged # None /\ Doomed' = Doomed
    BY <1>2, <1>6, <2>1, StagedIs DEF Doomed
  <2>3. Bootable' = Bootable
    BY <1>2, <2>1, <2>2, BootableIs, BootableNext
  <2>4. QED BY <1>2, <2>1, <2>2, <2>3 DEF Store!storeVars
<1>7. CASE ~Doomed /\ GiveUp
  <2>1. flag = "update" /\ flag' = flag /\ run' = run /\ Verified /\ gaveUp' = TRUE
    BY <1>7 DEF GiveUp, ControlInv, flash
  <2>2. Staged # None /\ Doomed' = Doomed
    BY <1>2, <1>7, <2>1, StagedIs DEF Doomed
  <2>3. Bootable' = Bootable /\ Bootable # None
    BY <1>2, <2>1, <2>2, BootableIs, BootableNext
  <2>4. Store!Fail
    BY <1>2, <2>1, <2>2, <2>3 DEF Store!Fail
  <2>5. QED BY <2>4 DEF Store!StoreNext
<1>8. CASE ~Doomed /\ Drop
  <2>1. flag' = "run" /\ ~Verified /\ run' = run /\ gaveUp' = gaveUp
    BY <1>8 DEF Drop, ControlInv
  <2>2. Staged = None /\ Doomed' = Doomed
    BY <1>2, <1>8, <2>1, StagedIs DEF Doomed
  <2>3. Bootable' = Bootable
    BY <1>2, <2>1, <2>2, BootableIs, BootableNext, InstalledUnchanged
  <2>4. QED BY <1>2, <2>1, <2>2, <2>3 DEF Store!storeVars
<1>9. CASE ~Doomed /\ Commit
  <2>1. pc = "commit" /\ flag = "update" /\ Verified /\ flag' = "run" /\ run' = run
        /\ gaveUp' = FALSE
    BY <1>9 DEF Commit, ControlInv
  <2>2. Honest /\ Staged = Source /\ Source \in Images /\ Source # None /\ Staged # None
    BY <1>9, <2>1, VerifiedSource, ContentAssumption, StagedIs DEF Doomed
  <2>3. Whole(Source)
    BY <2>1, <2>2 DEF InstallInv
  <2>4. Bootable = Source /\ Bootable' = Source
    BY <1>2, <2>1, <2>2, <2>3, BootableIs, BootableNext, InstalledIs, InstalledUnchanged
  <2>5. Doomed' = Doomed
    BY <1>9, <2>1 DEF Doomed
  <2>6. Store!Restore
    BY <1>2, <2>1, <2>2, <2>4, <2>5 DEF Store!Restore
  <2>7. QED BY <2>6 DEF Store!StoreNext
<1>10. CASE ~Doomed /\ ForceUpdate
  <2>1. flag' # "update" /\ run' = run /\ gaveUp' = gaveUp /\ ~Doomed'
    BY <1>10 DEF ForceUpdate, Doomed
  <2>2. Bootable' = Installed
    BY <2>1, BootableIs, BootableNext, InstalledUnchanged
  <2>3. CASE flag = "update" /\ Staged # None
    <3>1. pc = "force1"
      BY <1>10, <2>3 DEF ForceUpdate, ControlInv
    <3>2. gaveUp /\ \A i \in Images : ~Whole(i)
      BY <2>3, <3>1, StagedIs DEF InstallInv
    <3>3. Bootable' = None
      BY <2>2, <3>2 DEF Installed
    <3>4. Store!Forget
      BY <1>2, <1>10, <2>1, <3>2, <3>3 DEF Store!Forget, Doomed
    <3>5. QED BY <3>4 DEF Store!StoreNext
  <2>4. CASE ~(flag = "update" /\ Staged # None)
    <3>1. Bootable' = Bootable
      BY <2>2, <2>4, BootableIs, BootableNext
    <3>2. QED BY <1>2, <1>10, <2>1, <3>1 DEF Store!storeVars, Doomed
  <2>5. QED BY <2>3, <2>4
<1>11. ASSUME ReadFlag \/ JumpToApp \/ NoValidStack \/ Verify \/ Attempt \/ ReadBack
       PROVE  flag' = flag /\ run' = run /\ gaveUp' = gaveUp
  BY <1>11 DEF ReadFlag, JumpToApp, NoValidStack, Verify, Attempt, ReadBack, flash
<1>12. QED
  BY <1>4, <1>5, <1>6, <1>7, <1>8, <1>9, <1>10, <1>11 DEF BootStep

\* Frames and their handlers change the info page and the copy area only while no
\* update is pending, and never the run area.
LEMMA HandlerStore ==
  ASSUME StoreInv, HandlerStep \/ HostStep
  PROVE  [Store!StoreNext]_(Store!storeVars)
<1> USE DEF Goto, StoreInv
<1>1. run' = run /\ gaveUp' = gaveUp /\ flag # "update"
  BY DEF HandlerStep, HostStep, StoreHeader, WipeCopy, UpdateFlag, UpdateFlagDone,
         RecvStart, RecvUpdate, RecvEnd, flash, ControlInv
<1>2. Bootable = Installed /\ ~Doomed /\ Installed' = Installed
  BY <1>1, BootableIs, InstalledUnchanged DEF Doomed
<1>3. CASE UpdateFlagDone
  <2>1. flag' = "update" /\ info' = info /\ copy' = copy
    BY <1>3 DEF UpdateFlagDone
  <2>2. Staged' = Staged /\ Verified' = Verified /\ Honest' = Honest
    BY <2>1, StagedUnchanged, VerifiedUnchanged, HeaderUnchanged
  <2>3. CASE Staged # None
    <3>1. Bootable' = Staged /\ ~Doomed'
      BY <2>1, <2>2, <2>3, BootableNext, StagedIs DEF Doomed
    <3>2. Store!Replace
      BY <1>1, <1>2, <2>2, <2>3, <3>1 DEF Store!Replace, Doomed
    <3>3. QED BY <3>2 DEF Store!StoreNext
  <2>4. CASE Staged = None
    <3>1. Bootable' = Bootable
      BY <1>2, <2>2, <2>4, BootableNext
    <3>2. CASE Verified
      <4>1. Doomed' = TRUE
        BY <2>1, <2>2, <2>4, <3>2, StagedIs DEF Doomed
      <4>2. Store!Mislead
        BY <1>1, <2>2, <2>4, <3>1, <4>1 DEF Store!Mislead
      <4>3. QED BY <4>2 DEF Store!StoreNext
    <3>3. CASE ~Verified
      <4>1. Doomed' = Doomed
        BY <1>2, <2>2, <3>3 DEF Doomed
      <4>2. QED BY <1>1, <2>2, <3>1, <4>1 DEF Store!storeVars
    <3>4. QED BY <3>2, <3>3
  <2>5. QED BY <2>3, <2>4
<1>4. CASE ~UpdateFlagDone
  <2>1. flag' # "update"
    BY <1>1, <1>4 DEF HandlerStep, HostStep, StoreHeader, WipeCopy, UpdateFlag,
       RecvStart, RecvUpdate, RecvEnd, flash
  <2>2. Bootable' = Bootable /\ Doomed' = Doomed
    BY <1>2, <2>1, BootableNext DEF Doomed
  <2>3. Store!Stage
    BY <1>1, <2>2, BootableNext DEF Store!Stage
  <2>4. QED BY <2>3 DEF Store!StoreNext
<1>5. QED BY <1>3, <1>4

\* A power failure inside a step changes what the store promises no more than the
\* step does.
LEMMA CrashStore ==
  ASSUME StoreInv, Crash
  PROVE  [Store!StoreNext]_(Store!storeVars)
<1> USE DEF StoreInv
<1>1. flag' = flag /\ gaveUp' = gaveUp
  BY DEF Crash
<1>2. CASE flag = "update"
  <2>1. info' = info /\ copy' = copy
    BY <1>2 DEF Crash, TornHeader, TornWipe, TornUpdate, TornCopy, ControlInv
  <2>2. Staged' = Staged /\ Verified' = Verified /\ Honest' = Honest /\ Doomed' = Doomed
    BY <1>1, <2>1, StagedUnchanged, VerifiedUnchanged, HeaderUnchanged DEF Doomed
  <2>3. CASE run' = run
    <3>1. Bootable' = Bootable
      BY <1>1, <2>2, <2>3, BootableIs, BootableNext, InstalledUnchanged
    <3>2. QED BY <1>1, <2>2, <3>1 DEF Store!storeVars
  <2>4. CASE run' # run
    <3>1. Verified
      BY <2>4 DEF Crash, TornHeader, TornWipe, TornUpdate, TornCopy, ControlInv
    <3>2. CASE Honest
      <4>1. Bootable' = Bootable
        BY <1>1, <1>2, <2>2, <3>1, <3>2, StagedIs, BootableIs, BootableNext
      <4>2. QED BY <1>1, <2>2, <4>1 DEF Store!storeVars
    <3>3. CASE ~Honest
      <4>1. Doomed /\ gaveUp' \in BOOLEAN
        BY <1>1, <1>2, <3>1, <3>3 DEF Doomed, TypeOK
      <4>2. Store!Scramble
        BY <2>2, <4>1, BootableNext DEF Store!Scramble
      <4>3. QED BY <4>2 DEF Store!StoreNext
    <3>4. QED BY <3>2, <3>3
  <2>5. QED BY <2>3, <2>4
<1>3. CASE flag # "update"
  <2>1. run' = run
    BY <1>3 DEF Crash, TornHeader, TornWipe, TornUpdate, TornCopy, ControlInv
  <2>2. Bootable' = Bootable /\ Doomed' = Doomed
    BY <1>1, <1>3, <2>1, BootableIs, BootableNext, InstalledUnchanged DEF Doomed
  <2>3. Store!Stage
    BY <1>1, <2>2, BootableNext DEF Store!Stage
  <2>4. QED BY <2>3 DEF Store!StoreNext
<1>4. QED BY <1>2, <1>3

LEMMA StoreStep ==
  ASSUME StoreInv, StoreInv', [Next]_vars
  PROVE  [Store!StoreNext]_(Store!storeVars)
<1>1. CASE BootStep
  BY <1>1, BootStepStore
<1>2. CASE HandlerStep \/ HostStep
  BY <1>2, HandlerStore
<1>3. CASE Crash
  BY <1>3, CrashStore
<1>4. CASE UNCHANGED vars
  <2>1. UNCHANGED flash /\ flag' = flag /\ run' = run /\ info' = info /\ copy' = copy
        /\ gaveUp' = gaveUp
    BY <1>4 DEF vars, flash
  <2>2. Staged' = Staged /\ Installed' = Installed /\ Verified' = Verified /\ Honest' = Honest
    BY <2>1, StagedUnchanged, InstalledUnchanged, VerifiedUnchanged, HeaderUnchanged
  <2>3. Bootable' = Bootable /\ Doomed' = Doomed
    BY <2>1, <2>2, BootableIs, BootableNext DEF Doomed
  <2>4. QED BY <2>1, <2>2, <2>3 DEF Store!storeVars
<1>5. QED BY <1>1, <1>2, <1>3, <1>4 DEF Next

\* The update machinery of a node is a store: whatever frames arrive in whatever
\* order, however many page writes go wrong and however often power fails, also
\* inside a step, the program the node starts changes in one step and only to a
\* completely received one; it is lost only after three failed copies, or to a
\* package that describes itself wrongly (main.c:66-278,
\* can_ota_protocol.c:256-331, canbus_middle.c:636-710).
THEOREM OtaImplementsStore == Spec => StoreSpec
<1>1. Init => Store!StoreInit
  BY StoreInitial
<1>2. StoreInv /\ StoreInv' /\ [Next]_vars => [Store!StoreNext]_(Store!storeVars)
  BY StoreStep
<1>3. Spec => []StoreInv
  BY InstallInvariant
<1>4. QED BY <1>1, <1>2, <1>3, PTL DEF Spec, StoreSpec, Store!StoreSpec
=============================================================================
