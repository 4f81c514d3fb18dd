----------------------------- MODULE OtaUpdate -----------------------------
(***************************************************************************)
(* The firmware update of one node, from the frame that announces it to    *)
(* the first instruction of the new program.                               *)
(*                                                                         *)
(* Two programs share the flash: the application (APP project) and the     *)
(* bootloader (IAP project).  Both accept the same Start / Update / End    *)
(* frames from a host, which fill the info page and the copy area and then *)
(* set the flag page.  The bootloader's main() reads the flag after every  *)
(* reset, verifies the copy area against the info page, copies it over the *)
(* run area and jumps.  Power may fail before any step, and in the middle  *)
(* of a header write, of an erase of several pages and of a page write.    *)
(*                                                                         *)
(* Abstractions.  Contents of a page are <<i, p>> (page p of image i),     *)
(* Blank (erased) or Junk (partly or wrongly written).  CRC32 is ideal: it *)
(* accepts exactly the contents it was computed from.  A frame carries one *)
(* page.  Half-words of the info page are numbers below HW; the last of    *)
(* them, HW - 1, is the erased value 0xFFFF.  The fields that describe a   *)
(* compressed image's original (size, CRC, packet size) are one half-word, *)
(* Tag; 0 stands for those whose packet size is 0.                         *)
(***************************************************************************)
EXTENDS Naturals, Sequences

CONSTANTS
  Images,     \* what a host may send
  Size,       \* Size[i]: bytes sent for image i (UpdatesTotalSize)
  RunSize,    \* RunSize[i]: bytes of i once unpacked; Size[i] if not compressed
  Crc,        \* Crc[i]: UpdatesCRC32
  Compressed, \* the images sent as zlib blocks (CompressFlag = 1)
  Ver,        \* Ver[i]: the version half-word of the Start frame
  Tag,        \* Tag[i]: the description of the unpacked image
  PAGE,       \* FLASH_PAGE_SIZE, and UpdatesSubSize
  MAXSIZE,    \* OTA_BIN_MAX_SIZE
  HW,         \* 2^16: the values of a half-word
  Blank, Junk, None,
  MaxFaults   \* how many page writes of the bootloader may go wrong

PageNo(bytes) == (bytes + PAGE - 1) \div PAGE

\* Every page a size of 32 bits can name.
PageNums == 1 .. PageNo(HW * HW)

ASSUME SizeAssumption ==
  /\ PAGE \in Nat \ {0} /\ MAXSIZE \in Nat \ {0} /\ HW \in Nat \ {0, 1} /\ MaxFaults \in Nat
  /\ PAGE < HW
  /\ Size \in [Images -> Nat \ {0}]
  /\ RunSize \in [Images -> 1 .. MAXSIZE]
  /\ \A i \in Images \ Compressed : Size[i] <= MAXSIZE => RunSize[i] = Size[i]
ASSUME HeaderAssumption ==
  /\ Crc \in [Images -> 0 .. HW * HW - 1]
  /\ Ver \in [Images -> 0 .. HW - 1]
  /\ Tag \in [Images -> 0 .. HW - 1]
  /\ \A i \in Images : Size[i] < HW * HW
ASSUME ContentAssumption ==
  /\ \A i \in Images, p \in PageNums :
       /\ Blank # <<i, p>> /\ Blank # <<i, p, "unpacked">>
       /\ Junk # <<i, p>> /\ Junk # <<i, p, "unpacked">>
  /\ Blank # Junk
  /\ None \notin Images

VARIABLES
  flag,    \* flag page: "run" (erased), "update", "force" or "torn" (anything else)
  info,    \* info page: eight half-words
  copy,    \* copy area, by page
  run,     \* run area, by page
  who,     \* the program executing: "boot" or "app"
  pc,      \* where it is
  sub,     \* OTA_SubSize, in RAM: 0 until a Start frame arrives
  img,     \* the image named by the Start frame being handled, or None
  cnt,     \* Count in main()
  k,       \* page counter of the loops in main()
  faults,  \* page writes gone wrong so far
  gaveUp   \* history: three copies failed and nothing was installed since

flash == <<flag, info, copy, run>>
ram   == <<who, pc, sub, img, cnt, k>>
vars  == <<flash, ram, faults, gaveUp>>
----------------------------------------------------------------------------
(* Flash contents *)

Pages   == 1 .. PageNo(MAXSIZE)

\* Page p of image i as it is sent, and as it runs: a compressed image is
\* unpacked on its way to the run area.
ProgramPage(i, p) == IF i \in Compressed THEN <<i, p, "unpacked">> ELSE <<i, p>>

Content == (Images \X Nat) \cup (Images \X Nat \X {"unpacked"}) \cup {Blank, Junk}

ErasedCell == HW - 1
ErasedInfo == [c \in 1 .. 8 |-> ErasedCell]

\* A half-word can be programmed when it is erased, or to zero.
Writable(old, new) == old = ErasedCell \/ new = 0

\* The info page after the first m half-words of h were programmed over old,
\* one by one, giving up at the first that cannot be.
Program(old, h, m) ==
  [c \in 1 .. 8 |->
     IF c <= m /\ c <= Len(h) /\ \A d \in 1 .. c : Writable(old[d], h[d])
       THEN h[c] ELSE old[c]]

\* An area after the first n pages were erased.
EraseFirst(area, n) == [p \in Pages |-> IF p <= n THEN Blank ELSE area[p]]

\* Flash_Erase_Page refuses a size of zero or above the limit.
ErasedPages(bytes) == IF bytes = 0 \/ bytes > MAXSIZE THEN 0 ELSE PageNo(bytes)

\* Flash_Write stops at the first cell it cannot program, so a page that is
\* not blank keeps its contents.
WritePage(area, p, content) ==
  [area EXCEPT ![p] = IF @ = Blank THEN content ELSE @]

\* The first n pages of an area are those of image i.
Holds(area, i, n) == \A p \in 1 .. n : p \in Pages /\ area[p] = <<i, p>>

\* The run area holds all of program i.
Whole(i) == \A p \in 1 .. PageNo(RunSize[i]) : run[p] = ProgramPage(i, p)
----------------------------------------------------------------------------
(* The info page, as written and as read *)

Fields(i) == <<IF i \in Compressed THEN 1 ELSE 0, Size[i] % HW, Size[i] \div HW,
               PAGE, Crc[i] % HW, Crc[i] \div HW, Tag[i]>>

\* The application's structure starts with a Version the bootloader's lacks.
Header(i) == IF who = "app" THEN <<Ver[i]>> \o Fields(i) ELSE Fields(i)

\* The bootloader's reading of it.
CompressFlag     == info[1]
UpdatesTotalSize == info[2] + HW * info[3]
UpdatesCRC32     == info[5] + HW * info[6]
OriginalTag      == info[7]

\* The copy area holds image i and its size and CRC are those of the info page.
CrcAccepts(i) ==
  /\ Size[i] = UpdatesTotalSize
  /\ Crc[i] = UpdatesCRC32
  /\ Holds(copy, i, PageNo(Size[i]))

Verified == UpdatesTotalSize <= MAXSIZE /\ \E i \in Images : CrcAccepts(i)

\* The image main() is copying.
Source == CHOOSE i \in Images : CrcAccepts(i)

\* Each call of uncompress consumes something; given a packet size of 0 it
\* consumes nothing and returns nothing.
Unpacks == CompressFlag = 1 => OriginalTag # 0

\* The header describes the image it was verified with.
Honest == /\ CompressFlag = 1 <=> Source \in Compressed
          /\ CompressFlag = 1 => OriginalTag = Tag[Source]
          /\ Unpacks

\* Pages erased and written by one attempt.
CopyPages == PageNo(IF CompressFlag = 1 THEN RunSize[Source] ELSE UpdatesTotalSize)

\* What attempt number cnt writes to page p.  The compressed branch leaves its
\* source pointer in the erased run area after the first attempt.
Unpacked(p) ==
  IF CompressFlag = 1
    THEN IF cnt > 1 \/ Source \notin Compressed THEN Junk ELSE ProgramPage(Source, p)
    ELSE copy[p]

\* Mutant: the copy is not read back.
ReadBackSkipped == TRUE

\* The CRC of what is now in the run area is the expected one.
ReadBackOK ==
  IF CompressFlag = 1
    THEN Honest /\ Whole(Source)
    ELSE Holds(run, Source, CopyPages)
----------------------------------------------------------------------------
TypeOK ==
  /\ flag \in {"run", "update", "force", "torn"}
  /\ info \in [1 .. 8 -> Nat]
  /\ copy \in [Pages -> Content]
  /\ run \in [Pages -> Content]
  /\ who \in {"boot", "app"}
  /\ pc \in {"reset", "jump", "verify", "drop", "attempt", "erase", "copy", "commit",
             "force1", "force2", "force3", "idle", "header", "wipe",
             "flag1", "flag2", "flag3"}
  /\ sub \in {0, PAGE}
  /\ img \in Images \cup {None}
  /\ cnt \in 0 .. 3
  /\ k \in Nat
  /\ faults \in 0 .. MaxFaults
  /\ gaveUp \in BOOLEAN

\* A node leaves the factory blank or with a program loaded by the programmer.
Init ==
  /\ flag = "run" /\ info = ErasedInfo
  /\ copy = [p \in Pages |-> Blank]
  /\ \/ run = [p \in Pages |-> Blank]
     \/ \E i \in Images : run = [p \in Pages |->
          IF p <= PageNo(RunSize[i]) THEN ProgramPage(i, p) ELSE Blank]
  /\ who = "boot" /\ pc = "reset"
  /\ sub = 0 /\ img = None /\ cnt = 0 /\ k = 0
  /\ faults = 0 /\ gaveUp = FALSE

Goto(from, to) == pc = from /\ pc' = to

\* RAM after a reset.
Restart == /\ pc' = "reset" /\ who' = "boot"
           /\ sub' = 0 /\ img' = None /\ cnt' = 0 /\ k' = 0
----------------------------------------------------------------------------
(* main() of the bootloader *)

\* Mutant: a pending update waits for a host instead of being installed.
ReadFlagWaits ==
  /\ \/ flag = "run" /\ Goto("reset", "jump")
     \/ flag # "run" /\ Goto("reset", "idle")
  /\ UNCHANGED <<flash, who, sub, img, cnt, k, faults, gaveUp>>

ReadFlag ==
  /\ \/ flag = "run" /\ Goto("reset", "jump")
     \/ flag = "update" /\ Goto("reset", "verify")
     \/ flag \in {"force", "torn"} /\ Goto("reset", "idle")
  /\ UNCHANGED <<flash, who, sub, img, cnt, k, faults, gaveUp>>

\* RunAPP: jump if the first word of the run area looks like a stack pointer.
\* That of a program does, that of an erased page does not, any other may.
JumpToApp ==
  /\ Goto("jump", "idle")
  /\ run[1] # Blank
  /\ who' = "app"
  /\ UNCHANGED <<flash, sub, img, cnt, k, faults, gaveUp>>

NoValidStack ==
  /\ Goto("jump", "force1")
  /\ \A i \in Images : run[1] # ProgramPage(i, 1)
  /\ UNCHANGED <<flash, who, sub, img, cnt, k, faults, gaveUp>>

\* Mutant: the flag is cleared before the copy instead of after it.
VerifyClearsFlag ==
  /\ \/ Verified /\ Goto("verify", "attempt") /\ cnt' = 0 /\ flag' = "run"
     \/ ~Verified /\ Goto("verify", "drop") /\ UNCHANGED <<cnt, flag>>
  /\ UNCHANGED <<info, copy, run, who, sub, img, k, faults, gaveUp>>

Verify ==
  /\ \/ Verified /\ Goto("verify", "attempt") /\ cnt' = 0
     \/ ~Verified /\ Goto("verify", "drop") /\ UNCHANGED cnt
  /\ UNCHANGED <<flash, who, sub, img, k, faults, gaveUp>>

\* Mutant: a package that fails the check is checked again instead of dropped.
DropRetries ==
  /\ Goto("drop", "verify")
  /\ UNCHANGED <<flash, who, sub, img, cnt, k, faults, gaveUp>>

\* RunAppMode and goto RunAPP.
Drop ==
  /\ Goto("drop", "jump")
  /\ flag' = "run"
  /\ UNCHANGED <<info, copy, run, who, sub, img, cnt, k, faults, gaveUp>>

\* Mutant: the attempts are not limited.
AttemptUnlimited ==
  /\ Goto("attempt", "erase")
  /\ cnt' = cnt + 1 /\ k' = 1
  /\ UNCHANGED <<flash, who, sub, img, faults, gaveUp>>

Attempt ==
  /\ cnt < 3
  /\ Goto("attempt", "erase")
  /\ cnt' = cnt + 1 /\ k' = 1
  /\ UNCHANGED <<flash, who, sub, img, faults, gaveUp>>

GiveUp ==
  /\ cnt = 3
  /\ Goto("attempt", "force1")
  /\ gaveUp' = TRUE
  /\ UNCHANGED <<flash, who, sub, img, cnt, k, faults>>

\* Mutant: the last page is not erased.
EraseRunShort ==
  /\ pc = "erase"
  /\ \/ /\ k < CopyPages
        /\ run' = [run EXCEPT ![k] = Blank] /\ k' = k + 1 /\ UNCHANGED pc
     \/ /\ k >= CopyPages
        /\ pc' = "copy" /\ k' = 1 /\ UNCHANGED run
  /\ UNCHANGED <<flag, info, copy, who, sub, img, cnt, faults, gaveUp>>

\* Flash_Erase_Page of the run area, a page at a time.  It may refuse the size
\* that a wrong description of the original gives.
EraseRun ==
  /\ pc = "erase"
  /\ \/ /\ k <= CopyPages
        /\ run' = [run EXCEPT ![k] = Blank] /\ k' = k + 1 /\ UNCHANGED pc
     \/ /\ k > CopyPages \/ (k = 1 /\ CompressFlag = 1 /\ ~Honest)
        /\ pc' = "copy" /\ k' = 1 /\ UNCHANGED run
  /\ UNCHANGED <<flag, info, copy, who, sub, img, cnt, faults, gaveUp>>

\* The loop writes a page at a time; if it does not unpack, it never ends.
CopyPage ==
  /\ pc = "copy" /\ k <= CopyPages /\ Unpacks
  /\ \/ /\ run' = WritePage(run, k, Unpacked(k))
        /\ UNCHANGED faults
     \/ /\ faults < MaxFaults
        /\ faults' = faults + 1
        /\ run' = WritePage(run, k, Junk)
  /\ k' = k + 1
  /\ UNCHANGED <<flag, info, copy, who, pc, sub, img, cnt, gaveUp>>

ReadBack ==
  /\ pc = "copy" /\ k > CopyPages
  /\ \/ ReadBackOK /\ Goto("copy", "commit")
     \/ ~ReadBackOK /\ Goto("copy", "attempt")
  /\ UNCHANGED <<flash, who, sub, img, cnt, k, faults, gaveUp>>

\* RunAppMode and system_reset.
Commit ==
  /\ pc = "commit"
  /\ flag' = "run" /\ gaveUp' = FALSE
  /\ Restart
  /\ UNCHANGED <<info, copy, run, faults>>

\* ForceUpdateAppMode: erase, then program the flag in half-words.
ForceUpdate ==
  /\ \/ Goto("force1", "force2") /\ flag' = "run"
     \/ Goto("force2", "force3") /\ flag' = "torn"
     \/ Goto("force3", "idle") /\ flag' = "force"
  /\ UNCHANGED <<info, copy, run, who, sub, img, cnt, k, faults, gaveUp>>
----------------------------------------------------------------------------
(* The Start / Update / End frames, in the application and in the bootloader *)

\* Start: remember the sub-packet size and store the header.  The bootloader's
\* Flash_Storage_Header erases the info page first, the application's does not.
RecvStart(i) ==
  /\ Goto("idle", "header")
  /\ sub' = PAGE /\ img' = i
  /\ info' = IF who = "boot" THEN ErasedInfo ELSE info
  /\ UNCHANGED <<flag, copy, run, who, cnt, k, faults, gaveUp>>

StoreHeader ==
  /\ Goto("header", "wipe")
  /\ info' = Program(info, Header(img), 8)
  /\ UNCHANGED <<flag, copy, run, who, sub, img, cnt, k, faults, gaveUp>>

WipeCopy ==
  /\ Goto("wipe", "idle")
  /\ copy' = EraseFirst(copy, ErasedPages(Size[img]))
  /\ img' = None
  /\ UNCHANGED <<flag, info, run, who, sub, cnt, k, faults, gaveUp>>

\* The page frame number n addresses: n * OTA_SubSize, if inside the limit.
FramePage(n) == (n * sub) \div PAGE + 1
Addressed(n) == n * sub < MAXSIZE

\* Update: frame n of image i, in any order, any number of times.
RecvUpdate(i, n) ==
  /\ pc = "idle"
  /\ Addressed(n)
  /\ copy' = WritePage(copy, FramePage(n), <<i, n + 1>>)
  /\ UNCHANGED <<flag, info, run, ram, faults, gaveUp>>

\* End: UpdateAppMode erases the flag page unless it already reads "run".
RecvEnd ==
  /\ \/ flag = "run" /\ Goto("idle", "flag2")
     \/ flag # "run" /\ Goto("idle", "flag1")
  /\ UNCHANGED <<flash, who, sub, img, cnt, k, faults, gaveUp>>

UpdateFlag ==
  /\ \/ Goto("flag1", "flag2") /\ flag' = "run"
     \/ Goto("flag2", "flag3") /\ flag' = "torn"
  /\ UNCHANGED <<info, copy, run, who, sub, img, cnt, k, faults, gaveUp>>

\* Mutant: End does not reset the processor.
UpdateFlagStays ==
  /\ Goto("flag3", "idle")
  /\ flag' = "update"
  /\ UNCHANGED <<info, copy, run, who, sub, img, cnt, k, faults, gaveUp>>

UpdateFlagDone ==
  /\ pc = "flag3"
  /\ flag' = "update"
  /\ Restart
  /\ UNCHANGED <<info, copy, run, faults, gaveUp>>
----------------------------------------------------------------------------
(* Power failure or watchdog reset, before or inside a step *)

TornHeader == /\ pc = "header"
              /\ \E m \in 0 .. 8 : info' = Program(info, Header(img), m)
              /\ UNCHANGED <<copy, run>>

TornWipe == /\ pc = "wipe"
            /\ \E m \in 0 .. ErasedPages(Size[img]) : copy' = EraseFirst(copy, m)
            /\ UNCHANGED <<info, run>>

TornUpdate == /\ pc = "idle"
              /\ \E n \in 0 .. PageNo(MAXSIZE) - 1 :
                   Addressed(n) /\ copy' = WritePage(copy, FramePage(n), Junk)
              /\ UNCHANGED <<info, run>>

TornCopy == /\ pc = "copy" /\ k <= CopyPages /\ Unpacks
            /\ run' = WritePage(run, k, Junk)
            /\ UNCHANGED <<info, copy>>

Crash ==
  /\ UNCHANGED <<info, copy, run>> \/ TornHeader \/ TornWipe \/ TornUpdate \/ TornCopy
  /\ Restart
  /\ UNCHANGED <<flag, faults, gaveUp>>
----------------------------------------------------------------------------
BootStep ==
  \/ ReadFlag \/ JumpToApp \/ NoValidStack \/ Verify \/ Drop \/ Attempt \/ GiveUp
  \/ EraseRun \/ CopyPage \/ ReadBack \/ Commit \/ ForceUpdate

HandlerStep == StoreHeader \/ WipeCopy \/ UpdateFlag \/ UpdateFlagDone

HostStep ==
  \/ \E i \in Images : RecvStart(i)
  \/ \E i \in Images : \E n \in 0 .. PageNo(Size[i]) - 1 : RecvUpdate(i, n)
  \/ RecvEnd

Next == BootStep \/ HandlerStep \/ HostStep \/ Crash

Spec == Init /\ [][Next]_vars

\* The processor keeps executing and the power fails finitely often.
FairSpec == Spec /\ WF_vars(BootStep) /\ WF_vars(HandlerStep) /\ <>[][~Crash]_vars
----------------------------------------------------------------------------
(* What must hold *)

\* The application is entered only when the run area holds a complete program,
\* in whatever order frames arrived and wherever power failed; the exception is
\* a node whose copies failed three times (main.c:66-278, the run area is erased
\* and rewritten in place).  It rests on PackedReadAsPacked.
JumpSafe == who = "app" /\ ~gaveUp => \E i \in Images : Whole(i)

\* Why it does.  The bootloader's control points and the flag page agree, and
\* whenever the run area is not a whole program (nor visibly erased) the flag
\* still says "update" and the copy area still passes the check that led here.
RunGood == (\E i \in Images : Whole(i)) \/ run[1] = Blank

ControlInv ==
  /\ who = "app" => pc \in {"idle", "header", "wipe", "flag1", "flag2", "flag3"}
  /\ pc \in {"idle", "header", "wipe", "flag1", "flag2", "flag3", "jump"} => flag # "update"
  /\ pc \in {"verify", "drop", "attempt", "erase", "copy", "commit"} => flag = "update"
  /\ pc \in {"attempt", "erase", "copy", "commit"} => Verified
  /\ pc = "drop" => ~Verified
  /\ pc \in {"force2", "force3"} => flag # "update"

RunInv ==
  /\ RunGood \/ gaveUp \/ (flag = "update" /\ Verified)
  /\ pc = "commit" => \E i \in Images : Whole(i)
  /\ pc \in {"force1", "force2", "force3"} => RunGood \/ gaveUp
  /\ JumpSafe

OtaInv == ControlInv /\ RunInv

\* main.c:160: a packed image is unpacked while it is written.  So its size and
\* CRC must be in the info page only together with the compression flag.
PackedReadAsPacked ==
  flag = "update" /\ Verified /\ Source \in Compressed => CompressFlag = 1

\* When this is so.  The application's header starts with the version, and a
\* zero can be programmed over anything: version 0 clears the compression flag
\* that the bootloader wrote there, and 0xFFFF leaves the cell erased.  Nothing
\* in the code keeps a host from sending either.
VersionsTell == Compressed # {} => \A i \in Images : Ver[i] \notin {0, ErasedCell}

\* And the size and CRC of a packed image are not read, by chance, out of the
\* header of another, or out of a torn or displaced one.
HeadersTell ==
  \A i \in Compressed, j \in Images, m \in 0 .. 8 :
    \A h \in {Fields(j), <<Ver[j]>> \o Fields(j)} :
      LET r == Program(ErasedInfo, h, m)
      IN  Size[i] = r[2] + HW * r[3] /\ Crc[i] = r[5] + HW * r[6] => r[1] = 1

\* The image received completely and described by the info page.
Staged == IF Verified /\ Honest THEN Source ELSE None

\* The image the node starts, or will start once its bootloader has finished.
Bootable == IF flag = "update" /\ Staged # None THEN Staged
            ELSE IF \E i \in Images : Whole(i) THEN CHOOSE i \in Images : Whole(i)
            ELSE None

\* A package that passes the check but describes the unpacked image wrongly is
\* committed (main.c:124-157 does not look at the description).
Doomed == flag = "update" /\ Verified /\ ~Honest

\* The whole machinery implements a store whose image changes in one step, only
\* to the staged image, and is lost only after three failed copies or to a
\* package that describes itself wrongly.
Store == INSTANCE FirmwareStore
           WITH image <- Bootable, staged <- Staged, lost <- gaveUp, misguided <- Doomed
StoreSpec == Store!StoreSpec

\* A plain image is given up only after three page writes went wrong, one in
\* each attempt (the loop of main.c:216-257).
GivingUp == pc = "attempt" /\ cnt = 3
PlainRetries == GivingUp /\ CompressFlag # 1 => faults >= 3

\* main.c:171 and 174: an update that does not succeed ends, so the node always
\* comes back to where it answers a host, in its application or in the
\* bootloader (what the processor does in a run area that is not a program is
\* not modelled).  The exception is a package that announces packets of size 0,
\* which main.c:183-196 unpacks for ever: no other state is a dead end.
ServesUnlessEndless == []<>(pc = "idle" \/ (pc = "copy" /\ ~Unpacks))

\* A committed image ends up running, unless its copies failed.  It is still the
\* staged one then: no frame is received in between.
CommittedRuns ==
  (flag = "update" /\ Staged # None)
    ~> (gaveUp \/ (who = "app" /\ Staged # None /\ Whole(Staged)))

\* main.c:166 and 171: a compressed image, too, is unpacked again until it is
\* written correctly, and is given up after three failures.
CompressedRetries == GivingUp /\ CompressFlag = 1 /\ Honest => faults >= 3

\* main.c:117: after ForceUpdateAppMode the next start enters the bootloader's
\* update mode, so a run area that three copies could not fill is not started.
GivenUpStaysInBootloader == gaveUp => who = "boot"
=============================================================================
