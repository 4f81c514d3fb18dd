----------------------------- MODULE NodeParams -----------------------------
(***************************************************************************)
(* The two parameter pages of one node: who it is (iap_param: the chip's   *)
(* unique ID and the ID its frames are addressed to) and how it is set up  *)
(* (dev_param: master or slave, simulated dial switch).                    *)
(*                                                                         *)
(* A page is erased and then programmed half-word by half-word.  In the    *)
(* application two parser threads do so, without a lock of their own: the  *)
(* CAN parser (priority 15) runs between any two operations of the UART    *)
(* parser (priority 21), never the other way round.  The processor's flash *)
(* lock and its error flag are what they share.  The bootloader has one    *)
(* loop.  Power may fail anywhere; RESTART and End frames and the watchdog *)
(* reset as it does.                                                       *)
(*                                                                         *)
(* Abstractions.  A page is read by what its words say: flag, whether the  *)
(* first half-word is DEV_FIRST_POWER_FLAG; uuid, whether all six words of *)
(* ChipUniqueID are the chip's; id.  An erased ID reads All (0xFFFF).  A   *)
(* frame for this node is one its filter accepts.  remoteID, the versions  *)
(* and the debug switch are left out.                                      *)
(***************************************************************************)
EXTENDS Naturals

CONSTANTS
  Ids,       \* the device IDs a host may assign
  All,       \* 0xFFFF: accepts every frame, and an erased half-word
  Settings,  \* values of dev_param (mswork_mode, analog_dial_switch)
  Default,   \* those of stm32_param_default
  IdOf,      \* IdOf[s]: the ID device_id_set computes from s
  None

ASSUME ParamAssumption ==
  /\ All \notin Ids /\ None \notin Ids \cup {All} /\ None \notin Settings
  /\ Default \in Settings
  /\ IdOf \in [Settings -> Ids]

VARIABLES
  page,     \* the identity page, at FLASH_IAP_PARAM_ADDR
  apage,    \* the settings page, at FLASH_APP_PARAM_ADDR
  ctrl,     \* the flash: "locked", "open", or "error": open with FLASH_SR.PGERR set
  ram,      \* iap_param
  set,      \* dev_param
  who,      \* the program executing: "boot" or "app"
  at,       \* at[t]: what thread t does next
  job,      \* why the CAN parser writes: "load", "save" or "default"
  cut,      \* history: a save was cut short between the flag and the UUID
  fresh,    \* history: no frame has assigned an ID or settings since the start
  promised, \* history: the ID of the last acknowledged SAVE, or None
  stored,   \* history: the settings of the application's last acknowledged SAVE
  exposed   \* history: a Start frame that left the flash open let that ID be erased

flash   == <<page, apage, ctrl>>
history == <<fresh, promised, stored, exposed>>
vars    == <<flash, ram, set, who, at, job, cut, history>>

Thread == {"can", "uart"}
Cells  == {"flag", "uuid", "id"}
Erased == [flag |-> FALSE, uuid |-> FALSE, id |-> All]

\* Mutant: iap_param_default leaves the UUID cleared.
DefaultsNoUuid == [flag |-> TRUE, uuid |-> FALSE, id |-> All]

\* iap_param_default: memset, Get_ChipID, the flag, ID 0xFFFF.
Defaults == [flag |-> TRUE, uuid |-> TRUE, id |-> All]

UartAt == {"idle", "unlock", "erase", "open", "flag", "uuid", "id", "lock"}
CanAt  == UartAt \cup {"reset", "loadApp", "aErase", "aMark", "aSet", "readApp", "loadIap",
                       "readIap"}

Running == at["can"] = "idle"

TypeOK ==
  /\ page \in [flag : BOOLEAN, uuid : BOOLEAN, id : Ids \cup {All}]
  /\ ram \in [flag : BOOLEAN, uuid : BOOLEAN, id : Ids \cup {All}]
  /\ apage \in [mark : {"erased", "ip"}, set : Settings \cup {None}]
  /\ set \in Settings
  /\ ctrl \in {"locked", "open", "error"}
  /\ cut \in BOOLEAN /\ fresh \in BOOLEAN /\ exposed \in BOOLEAN
  /\ who \in {"boot", "app"}
  /\ job \in {"load", "save", "default"}
  /\ at \in [Thread -> CanAt] /\ at["uart"] \in UartAt
  /\ promised \in Ids \cup {All, None} /\ stored \in Settings \cup {None}

\* From the factory both pages are erased.
Init ==
  /\ page = Erased /\ apage = [mark |-> "erased", set |-> None] /\ ctrl = "locked"
  /\ ram = Erased /\ set = Default
  /\ who = "boot" /\ at = [t \in Thread |-> IF t = "can" THEN "reset" ELSE "idle"]
  /\ job = "load"
  /\ cut = FALSE /\ fresh = TRUE /\ promised = None /\ stored = None /\ exposed = FALSE

Goto(t, from, to) == at[t] = from /\ at' = [at EXCEPT ![t] = to]

\* The UART parser runs only while the CAN parser waits.
Scheduled(t) == t = "can" \/ (Running /\ who = "app")
----------------------------------------------------------------------------
(* Flash operations on the identity page: iap_param_save and Flash_Write *)

\* Flash_Unlock clears the error flag too.
Unlock(t) ==
  /\ Scheduled(t) /\ Goto(t, "unlock", "erase")
  /\ ctrl' = "open"
  /\ UNCHANGED <<page, apage, ram, set, who, job, cut, history>>

\* Mutant: the identity page is not erased before it is written.
EraseSkipped(t) ==
  /\ Scheduled(t) /\ Goto(t, "erase", "open")
  /\ UNCHANGED <<flash, ram, set, who, job, cut, history>>

\* Mutant: an erase the lock does not prevent.
EraseAlways(t) ==
  /\ Scheduled(t) /\ Goto(t, "erase", "open")
  /\ page' = Erased
  /\ UNCHANGED <<apage, ctrl, ram, set, who, job, cut, history>>

\* FLASH_ErasePage does nothing to a locked flash, nor if it finds an error
\* pending; one that came after it looked does not stop it.  A failed erase is
\* printed, no more.
Erase(t) ==
  /\ Scheduled(t) /\ Goto(t, "erase", "open")
  /\ \/ /\ ctrl # "locked"
        /\ page' = Erased
        /\ exposed' = (exposed \/ (ctrl = "error" /\ promised # None))
     \/ ctrl # "open" /\ UNCHANGED <<page, exposed>>
  /\ UNCHANGED <<apage, ctrl, ram, set, who, job, cut, fresh, promised, stored>>

\* Flash_Write unlocks again.
Open(t) ==
  /\ Scheduled(t) /\ Goto(t, "open", "flag")
  /\ ctrl' = "open"
  /\ UNCHANGED <<page, apage, ram, set, who, job, cut, history>>

After(c) == IF c = "flag" THEN "uuid" ELSE IF c = "uuid" THEN "id" ELSE "lock"

\* Flash_Write programs a cell that is erased, and stops at the first that it
\* cannot program.  With an error pending it stops, at the latest, after the
\* first half-word; in the first word that is the flag.
Program(t, c) ==
  /\ Scheduled(t) /\ at[t] = c
  /\ \/ /\ ctrl = "open" /\ page[c] = Erased[c]
        /\ page' = [page EXCEPT ![c] = ram[c]]
        /\ at' = [at EXCEPT ![t] = After(c)]
        /\ cut' = (cut /\ ~(c = "uuid" /\ ram.uuid))
        /\ UNCHANGED ctrl
     \/ /\ ctrl # "open" \/ page[c] # Erased[c]
        /\ at' = [at EXCEPT ![t] = "lock"]
        /\ ctrl' = IF ctrl = "locked" THEN "locked" ELSE "error"
        /\ UNCHANGED <<page, cut>>
     \/ /\ ctrl = "error" /\ c = "flag" /\ ~page.flag
        /\ page' = [page EXCEPT !.flag = ram.flag]
        /\ at' = [at EXCEPT ![t] = "lock"]
        /\ cut' = TRUE
        /\ UNCHANGED ctrl
  /\ UNCHANGED <<apage, ram, set, who, job, history>>

\* A SAVE frame of the CAN parser is acknowledged when iap_param_save returns.
\* What it stored may be erased again if the UART parser has a SAVE frame it has
\* not begun with.
Acknowledge(t) ==
  /\ promised' = IF t = "can" /\ job = "save" /\ at["uart"] # "unlock" THEN page.id ELSE promised
  /\ stored' = IF t = "can" /\ job = "save" /\ who = "app" THEN apage.set ELSE stored

\* Mutant: every save ends as that of a start does.
LockUpReturns(t) ==
  /\ Scheduled(t)
  /\ Goto(t, "lock", IF job = "load" THEN "readIap" ELSE "idle")
  /\ ctrl' = "locked"
  /\ Acknowledge(t)
  /\ UNCHANGED <<page, apage, ram, set, who, job, cut, fresh, exposed>>

\* The end of iap_param_save.
LockUp(t) ==
  /\ Scheduled(t)
  /\ Goto(t, "lock", IF t = "can" /\ job = "load" THEN "readIap" ELSE "idle")
  /\ ctrl' = "locked"
  /\ Acknowledge(t)
  /\ UNCHANGED <<page, apage, ram, set, who, job, cut, fresh, exposed>>

SaveIap(t) == Unlock(t) \/ Erase(t) \/ Open(t) \/ (\E c \in Cells : Program(t, c)) \/ LockUp(t)
----------------------------------------------------------------------------
(* Flash operations on the settings page: stm32_param_save, CAN parser only *)

\* The first half-words hold the IP address, dev_param follows.
SaveApp ==
  /\ \/ /\ Goto("can", "aErase", "aMark")
        /\ apage' = [mark |-> "erased", set |-> None] /\ ctrl' = "open"
     \/ /\ Goto("can", "aMark", "aSet")
        /\ apage' = [apage EXCEPT !.mark = "ip"] /\ UNCHANGED ctrl
     \/ /\ Goto("can", "aSet", IF job = "load" THEN "readApp"
                               ELSE IF job = "save" THEN "unlock" ELSE "idle")
        /\ apage' = [apage EXCEPT !.set = set] /\ ctrl' = "locked"
  /\ UNCHANGED <<page, ram, set, who, job, cut, history>>
----------------------------------------------------------------------------
(* Start of a program *)

\* main() of the bootloader starts the application or stays in its update mode;
\* which of the two is OtaUpdate's subject.
Boot ==
  /\ \/ Goto("can", "reset", "loadApp") /\ who' = "app"
     \/ Goto("can", "reset", "loadIap") /\ who' = "boot"
  /\ job' = "load" /\ fresh' = TRUE
  /\ UNCHANGED <<flash, ram, set, cut, promised, stored, exposed>>

\* stm32_param_load compares the first half-word of the page, which is an octet
\* of the IP address, with DEV_APP_FIRST_POWER_FLAG.
LoadApp ==
  /\ Goto("can", "loadApp", IF apage.mark = "flag" THEN "readApp" ELSE "aErase")
  /\ set' = IF apage.mark = "flag" THEN set ELSE Default
  /\ UNCHANGED <<flash, ram, who, job, cut, history>>

ReadApp ==
  /\ Goto("can", "readApp", "loadIap")
  /\ set' = apage.set
  /\ UNCHANGED <<flash, ram, who, job, cut, history>>

\* iap_param_load: defaults if the page does not begin with the flag.
LoadIap ==
  /\ Goto("can", "loadIap", IF page.flag THEN "readIap" ELSE "unlock")
  /\ ram' = IF page.flag THEN ram ELSE Defaults
  /\ promised' = IF page.flag THEN promised ELSE None
  /\ UNCHANGED <<flash, set, who, job, cut, fresh, stored, exposed>>

\* Flash_Read; then the application's device_id_set, or the bootloader's
\* show_version, which reads the UUID from the chip again.
ReadIap ==
  /\ Goto("can", "readIap", "idle")
  /\ ram' = IF who = "app" THEN [page EXCEPT !.id = IdOf[set]] ELSE [page EXCEPT !.uuid = TRUE]
  /\ UNCHANGED <<flash, set, who, job, cut, history>>
----------------------------------------------------------------------------
(* Frames *)

\* PARAMSET_WRITE and DEVICE_PARAMSET_SEARCH; the bootloader's WRITE does
\* nothing.  The UUID of the latter is the one a search reply gave.
RecvWrite(i, s) ==
  /\ Running /\ who = "app"
  /\ ram' = [ram EXCEPT !.id = i] /\ set' = s /\ fresh' = FALSE
  /\ UNCHANGED <<flash, who, at, job, cut, promised, stored, exposed>>

RecvSetID(i) ==
  /\ Running
  /\ ram' = [ram EXCEPT !.id = i] /\ fresh' = FALSE
  /\ UNCHANGED <<flash, set, who, at, job, cut, promised, stored, exposed>>

\* The CAN parser begins to write flash: a save of the UART parser that is
\* between its flag and its UUID may be cut short.
Takes == cut' = (cut \/ at["uart"] = "uuid")

\* PARAMSET_SAVE: both pages; the bootloader has only the identity page.
RecvSave ==
  /\ Goto("can", "idle", IF who = "app" THEN "aErase" ELSE "unlock")
  /\ job' = "save" /\ promised' = None /\ exposed' = FALSE /\ Takes
  /\ stored' = IF who = "app" THEN None ELSE stored
  /\ UNCHANGED <<flash, ram, set, who, fresh>>

\* PARAMSET_DEFAULT: of the settings in the application, of the identity in the
\* bootloader.
RecvDefault ==
  /\ \/ /\ who = "app" /\ Goto("can", "idle", "aErase")
        /\ set' = Default /\ stored' = None /\ UNCHANGED <<ram, promised>>
     \/ /\ who = "boot" /\ Goto("can", "idle", "unlock")
        /\ ram' = Defaults /\ promised' = None /\ UNCHANGED <<set, stored>>
  /\ job' = "default" /\ Takes
  /\ UNCHANGED <<flash, who, fresh, exposed>>

\* Start writes other pages.  The application's Flash_Storage_Header returns
\* over a written info page without locking the flash, the error flag set, and
\* Flash_Erase_Page does not touch the lock if it refuses the size.
RecvStart ==
  /\ Running
  /\ \/ ctrl' = "locked"
     \/ who = "app" /\ ctrl' = "error"
  /\ Takes
  /\ UNCHANGED <<page, apage, ram, set, who, at, job, history>>

\* Update writes other pages and locks the flash; one with an address that is
\* refused changes nothing.
RecvUpdate ==
  /\ Running
  /\ ctrl' = "locked" /\ Takes
  /\ UNCHANGED <<page, apage, ram, set, who, at, job, history>>

\* The UART parser's WRITE (iap_param_analysis) and SAVE.  Its WRITE reads the
\* ID from the start of what was received, even if the frame begins later.
UartWrite(i) ==
  /\ Running /\ at["uart"] = "idle"
  /\ ram' = [ram EXCEPT !.id = i] /\ fresh' = FALSE
  /\ UNCHANGED <<flash, set, who, at, job, cut, promised, stored, exposed>>

UartSave ==
  /\ Running /\ who = "app"
  /\ Goto("uart", "idle", "unlock")
  /\ promised' = None
  /\ UNCHANGED <<flash, ram, set, who, job, cut, fresh, stored, exposed>>

\* The UART parser's Start and Update; its Start stores the header last.
UartStorage ==
  /\ Running /\ who = "app" /\ at["uart"] = "idle"
  /\ ctrl' \in {"locked", "error"}
  /\ UNCHANGED <<page, apage, ram, set, who, at, job, cut, history>>

\* Power failure or reset: FLASH_CR.LOCK is set, RAM is lost.
Crash ==
  /\ at["can"] # "reset"
  /\ at' = [at EXCEPT !["can"] = "reset", !["uart"] = "idle"]
  /\ ctrl' = "locked" /\ ram' = Erased /\ set' = Default
  /\ who' = "boot" /\ job' = "load" /\ fresh' = TRUE
  /\ cut' = (cut \/ \E t \in Thread : at[t] = "uuid")
  /\ UNCHANGED <<page, apage, promised, stored, exposed>>
----------------------------------------------------------------------------
StartStep == Boot \/ LoadApp \/ ReadApp \/ LoadIap \/ ReadIap

FrameStep ==
  \/ \E i \in Ids \cup {All} : (\E s \in Settings : RecvWrite(i, s)) \/ RecvSetID(i) \/ UartWrite(i)
  \/ RecvSave \/ RecvDefault \/ RecvStart \/ RecvUpdate \/ UartSave \/ UartStorage

Next == StartStep \/ SaveApp \/ (\E t \in Thread : SaveIap(t)) \/ FrameStep \/ Crash

Spec == Init /\ [][Next]_vars
----------------------------------------------------------------------------
(* What must hold *)

\* The CAN parser is starting the program it runs in.
Loading == ~Running /\ job = "load"

\* iap_param holds nothing yet.
Unread == Loading /\ at["can"] \in {"reset", "loadApp", "aErase", "aMark", "aSet",
                                    "readApp", "loadIap", "readIap"}

\* The CAN parser's own save is never disturbed: what it has written so far is
\* what iap_param says, and the flash is open and without an error.
CanSaveInv ==
  /\ at["can"] \in {"erase", "flag", "uuid", "id"} => ctrl = "open"
  /\ at["can"] \in {"open", "flag"} => page = Erased
  /\ at["can"] = "uuid" => page = [Erased EXCEPT !.flag = TRUE]
  /\ at["can"] = "id" => page = [flag |-> TRUE, uuid |-> ram.uuid, id |-> All]
  /\ at["can"] = "lock" => page = ram
  /\ at["can"] = "readIap" => page.flag
  /\ ~Unread => ram.flag

\* A page that has the flag but not the UUID is one that is being written, or
\* was cut short; and only such a page makes a node forget its UUID.
UuidInv ==
  /\ page.flag /\ ~page.uuid =>
       cut \/ at["can"] = "uuid" \/ (at["uart"] = "uuid" /\ ctrl = "open" /\ Running)
  /\ Unread \/ ram.uuid \/ (cut /\ who = "app")
  /\ at["uart"] # "idle" => who = "app" /\ ~Loading

\* Which program is at which point, and what the application's start reads back.
StartInv ==
  /\ at["can"] \in {"reset", "loadApp", "readApp", "loadIap", "readIap"} => job = "load"
  /\ at["can"] \in {"loadApp", "aErase", "aMark", "aSet", "readApp"} => who = "app"
  /\ at["can"] = "readApp" => apage.set # None

\* What an acknowledged SAVE stored is there, and the UART parser, wherever it
\* was interrupted, will not get past the lock, the error or the flag.
KeptInv == promised # None /\ ~exposed =>
  /\ page.flag /\ page.id = promised
  /\ at["can"] \notin {"unlock", "erase", "open", "flag", "uuid", "id", "lock"}
  /\ Running \/ job # "save"
  /\ at["uart"] # "unlock"
  /\ at["uart"] \in {"erase", "uuid", "id"} => ctrl # "open" \/ at["can"] \in {"aMark", "aSet"}
  /\ Running /\ who = "boot" /\ fresh => ram.id = promised

ParamInv == CanSaveInv /\ UuidInv /\ StartInv /\ KeptInv

\* can_search_protocol.c:392: a node is found, and given its ID, by its chip's
\* unique ID.  The node names its own, unless a save was cut short by a power
\* failure, or by a CAN frame that locks the flash under a save of the UART
\* parser or leaves an error to it, between the flag and the UUID; the
\* bootloader always does.
UuidTruthful == Running /\ (who = "boot" \/ ~cut) => ram.uuid

\* can_ota_protocol.c:349: the ID a SAVE frame has "written to flash" is the one
\* the bootloader has after any number of resets, even if a save of the UART
\* parser was under way, whose steps then meet a locked or a written page; unless
\* that save was about to erase the page and the application left the flash open
\* for it after a Start frame (flash_if.c:203).
IdLostOnlyByStart ==
  Running /\ who = "boot" /\ fresh /\ promised # None /\ ~exposed => ram.id = promised

\* can_ota_protocol.c:349 and param.c:226: settings a SAVE frame has "written to
\* flash" are those the application starts with; the defaults are for the first
\* power-up.
SettingsKept ==
  Running /\ who = "app" /\ fresh /\ stored # None => set = stored
=============================================================================
