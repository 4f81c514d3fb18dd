-------------------------- MODULE NodeParamsProofs --------------------------
(* Theorems about NodeParams, for every set of IDs and of settings. *)
EXTENDS NodeParams, TLAPS

LEMMA InitTypes == Init => TypeOK
<1> SUFFICES ASSUME Init PROVE TypeOK
  OBVIOUS
<1>1. at \in [Thread -> CanAt] /\ at["uart"] \in UartAt
  <2>1. "reset" \in CanAt /\ "idle" \in CanAt /\ "idle" \in UartAt /\ "uart" \in Thread
    BY DEF CanAt, UartAt, Thread
  <2>2. QED BY <2>1 DEF Init
<1>2. page \in [flag : BOOLEAN, uuid : BOOLEAN, id : Ids \cup {All}] /\ ram = page
  BY DEF Init, Erased
<1>3. QED BY <1>1, <1>2, ParamAssumption DEF Init, TypeOK

LEMMA ParamInit == Init => ParamInv
<1> SUFFICES ASSUME Init PROVE ParamInv
  OBVIOUS
<1>1. at["can"] = "reset" /\ at["uart"] = "idle"
  BY DEF Init, Thread
<1>2. QED
  BY <1>1 DEF Init, ParamInv, CanSaveInv, UuidInv, StartInv, KeptInv, Unread, Loading, Running, Erased

\* Where a parser goes next.
LEMMA GotoTypes ==
  ASSUME at \in [Thread -> CanAt], at["uart"] \in UartAt, NEW t \in Thread,
         NEW x, x \in UartAt \/ (t = "can" /\ x \in CanAt)
  PROVE  /\ [at EXCEPT ![t] = x] \in [Thread -> CanAt]
         /\ [at EXCEPT ![t] = x]["uart"] \in UartAt
BY DEF Thread, CanAt

LEMMA GotoAt ==
  ASSUME TypeOK, NEW t \in Thread, NEW from, NEW to, Goto(t, from, to)
  PROVE  /\ at[t] = from
         /\ at'["can"] = (IF t = "can" THEN to ELSE at["can"])
         /\ at'["uart"] = (IF t = "uart" THEN to ELSE at["uart"])
BY DEF TypeOK, Goto, Thread

LEMMA Programmed ==
  ASSUME page \in [flag : BOOLEAN, uuid : BOOLEAN, id : Ids \cup {All}],
         ram \in [flag : BOOLEAN, uuid : BOOLEAN, id : Ids \cup {All}],
         NEW c \in Cells
  PROVE  [page EXCEPT ![c] = ram[c]] \in [flag : BOOLEAN, uuid : BOOLEAN, id : Ids \cup {All}]
BY DEF Cells

Page == [flag : BOOLEAN, uuid : BOOLEAN, id : Ids \cup {All}]

LEMMA PageValues == Erased \in Page /\ Defaults \in Page
BY DEF Page, Erased, Defaults

\* One operation of iap_param_save, by either parser.
LEMMA TypesSave ==
  ASSUME TypeOK, NEW t \in Thread, SaveIap(t)
  PROVE  TypeOK'
<1>1. ASSUME Unlock(t) \/ Open(t) PROVE TypeOK'
  <2>1. PICK x \in UartAt : at' = [at EXCEPT ![t] = x]
    BY <1>1 DEF Unlock, Open, Goto, UartAt
  <2>2. at' \in [Thread -> CanAt] /\ at'["uart"] \in UartAt
    BY <2>1, GotoTypes DEF TypeOK
  <2>3. QED BY <1>1, <2>2, Zenon DEF TypeOK, Unlock, Open, history
<1>2. CASE Erase(t)
  <2>1. page' \in Page
    BY <1>2, PageValues DEF TypeOK, Erase, Page
  <2>2. exposed' \in BOOLEAN
    BY <1>2 DEF TypeOK, Erase
  <2>3. QED BY <1>2, <2>1, <2>2, GotoTypes DEF TypeOK, Erase, Goto, UartAt, Page
<1>3. ASSUME NEW c \in Cells, Program(t, c)
      PROVE  TypeOK'
  <2>1. After(c) \in UartAt /\ "lock" \in UartAt
    BY DEF After, UartAt
  <2>2. PICK x \in UartAt : at' = [at EXCEPT ![t] = x]
    BY <1>3, <2>1 DEF Program
  <2>3. at' \in [Thread -> CanAt] /\ at'["uart"] \in UartAt
    BY <2>2, GotoTypes DEF TypeOK
  <2>4. page' \in [flag : BOOLEAN, uuid : BOOLEAN, id : Ids \cup {All}]
    BY <1>3, Programmed DEF TypeOK, Program
  <2>5. cut' \in BOOLEAN /\ ctrl' \in {"locked", "open", "error"}
    BY <1>3 DEF TypeOK, Program
  <2>6. QED BY <1>3, <2>3, <2>4, <2>5 DEF TypeOK, Program, history
<1>4. CASE LockUp(t)
  <2>1. page.id \in Ids \cup {All}
    BY DEF TypeOK
  <2>2. "idle" \in UartAt /\ "readIap" \in CanAt
    BY DEF UartAt, CanAt
  <2>3. promised' \in Ids \cup {All, None} /\ stored' \in Settings \cup {None}
    BY <1>4, <2>1 DEF TypeOK, LockUp, Acknowledge
  <2>4. QED BY <1>4, <2>2, <2>3, GotoTypes DEF TypeOK, LockUp, Goto
<1>5. QED BY <1>1, <1>2, <1>3, <1>4 DEF SaveIap

\* The other steps; what a start reads back is a setting.
LEMMA TypesOther ==
  ASSUME TypeOK, StartInv, SaveApp \/ StartStep \/ FrameStep \/ Crash
  PROVE  TypeOK'
<1>1. CASE SaveApp
  <2>1. PICK x \in CanAt : at' = [at EXCEPT !["can"] = x]
    BY <1>1 DEF SaveApp, Goto, CanAt, UartAt
  <2>2. at' \in [Thread -> CanAt] /\ at'["uart"] \in UartAt
    BY <2>1, GotoTypes DEF TypeOK, Thread
  <2>3. apage' \in [mark : {"erased", "ip"}, set : Settings \cup {None}]
    BY <1>1 DEF SaveApp, TypeOK
  <2>4. QED BY <1>1, <2>2, <2>3 DEF TypeOK, SaveApp, history
<1>2. CASE StartStep
  <2>1. PICK x \in CanAt : at' = [at EXCEPT !["can"] = x]
    BY <1>2 DEF StartStep, Boot, LoadApp, ReadApp, LoadIap, ReadIap, Goto, CanAt, UartAt
  <2>2. at' \in [Thread -> CanAt] /\ at'["uart"] \in UartAt
    BY <2>1, GotoTypes DEF TypeOK, Thread
  <2>3. ASSUME LoadApp \/ ReadApp PROVE TypeOK'
    <3>1. set' \in Settings
      BY <2>3, ParamAssumption DEF TypeOK, StartInv, LoadApp, ReadApp, Goto
    <3>2. QED BY <2>3, <2>2, <3>1 DEF TypeOK, LoadApp, ReadApp, flash, history
  <2>4. CASE Boot
    <3>1. fresh' \in BOOLEAN
      BY <2>4, Zenon DEF Boot
    <3>2. QED BY <2>4, <2>2, <3>1 DEF TypeOK, Boot, flash
  <2>5. CASE LoadIap
    BY <2>5, <2>2, PageValues DEF TypeOK, LoadIap, Page, flash
  <2>6. CASE ReadIap
    <3>1. IdOf[set] \in Ids
      BY ParamAssumption DEF TypeOK
    <3>2. ram' \in Page
      BY <2>6, <3>1 DEF TypeOK, ReadIap, Page
    <3>3. QED BY <2>6, <2>2, <3>2 DEF TypeOK, ReadIap, Page, flash, history
  <2>7. QED BY <1>2, <2>3, <2>4, <2>5, <2>6 DEF StartStep
<1>3. CASE FrameStep
  <2>1. \/ UNCHANGED at
        \/ \E x \in UartAt, t \in Thread : at' = [at EXCEPT ![t] = x]
        \/ \E x \in CanAt : at' = [at EXCEPT !["can"] = x]
    BY <1>3 DEF FrameStep, RecvWrite, RecvSetID, UartWrite, RecvSave, RecvDefault, RecvStart,
                RecvUpdate, UartSave, UartStorage, Goto, CanAt, UartAt, Thread
  <2>2. at' \in [Thread -> CanAt] /\ at'["uart"] \in UartAt
    BY <2>1, GotoTypes DEF TypeOK, Thread
  <2>3. ram' \in Page
    BY <1>3, PageValues
    DEF TypeOK, FrameStep, RecvWrite, RecvSetID, UartWrite, RecvSave, RecvDefault, RecvStart,
        RecvUpdate, UartSave, UartStorage, Page
  <2>4. ctrl' \in {"locked", "open", "error"} /\ cut' \in BOOLEAN
    BY <1>3
    DEF TypeOK, FrameStep, RecvWrite, RecvSetID, UartWrite, RecvSave, RecvDefault, RecvStart,
        RecvUpdate, UartSave, UartStorage, Takes, flash
  <2>5. stored' \in Settings \cup {None} /\ promised' \in Ids \cup {All, None} /\ set' \in Settings
    BY <1>3, ParamAssumption
    DEF TypeOK, FrameStep, RecvWrite, RecvSetID, UartWrite, RecvSave, RecvDefault, RecvStart,
        RecvUpdate, UartSave, UartStorage, history
  <2>6. QED
    BY <1>3, <2>2, <2>3, <2>4, <2>5, ZenonT(30)
    DEF TypeOK, FrameStep, RecvWrite, RecvSetID, UartWrite, RecvSave, RecvDefault, RecvStart,
        RecvUpdate, UartSave, UartStorage, Page, flash, history
<1>4. CASE Crash
  <2>1. at' \in [Thread -> CanAt] /\ at'["uart"] \in UartAt
    BY <1>4 DEF TypeOK, Crash, Thread, CanAt, UartAt
  <2>2. ram' \in Page
    BY <1>4, PageValues DEF Crash
  <2>3. cut' \in BOOLEAN /\ fresh' \in BOOLEAN
    BY <1>4, Zenon DEF Crash, TypeOK
  <2>4. QED BY <1>4, <2>1, <2>2, <2>3, ParamAssumption DEF TypeOK, Crash, Page
<1>5. QED BY <1>1, <1>2, <1>3, <1>4
-----------------------------------------------------------------------------
LEMMA InvSave ==
  ASSUME TypeOK, ParamInv, NEW t \in Thread, SaveIap(t)
  PROVE  ParamInv'
<1> USE DEF Running, Loading, Unread, history
<1>1. CASE Unlock(t)
  <2>1. Goto(t, "unlock", "erase")
    BY <1>1 DEF Unlock
  <2>2. QED BY <1>1, <2>1, GotoAt
            DEF Unlock, Scheduled, Thread, ParamInv, CanSaveInv, UuidInv, StartInv, KeptInv
<1>2. CASE Erase(t)
  <2>1. Goto(t, "erase", "open")
    BY <1>2 DEF Erase
  <2>2. /\ at'["can"] = (IF t = "can" THEN "open" ELSE at["can"])
        /\ at'["uart"] = (IF t = "uart" THEN "open" ELSE at["uart"])
        /\ at[t] = "erase" /\ (t = "can" \/ t = "uart")
    BY <2>1, GotoAt DEF Thread
  <2>3. UNCHANGED <<apage, ctrl, ram, set, who, job, cut, fresh, promised, stored>>
    BY <1>2 DEF Erase
  <2>4. t = "uart" => at["can"] = "idle" /\ who = "app"
    BY <1>2 DEF Erase, Scheduled
  <2>5. /\ page' = page \/ (page' = Erased /\ (ctrl = "open" \/ (promised # None => exposed')))
        /\ ctrl = "open" => page' = Erased
        /\ exposed => exposed'
    <3>1. CASE ctrl # "locked" /\ page' = Erased /\ exposed' = (exposed \/ (ctrl = "error" /\ promised # None))
      BY <3>1, Zenon DEF TypeOK
    <3>2. CASE ctrl # "open" /\ UNCHANGED <<page, exposed>>
      BY <3>2, Zenon
    <3>3. QED BY <1>2, <3>1, <3>2, Zenon DEF Erase
  <2>6. CanSaveInv'
    BY <2>2, <2>3, <2>4, <2>5 DEF ParamInv, CanSaveInv
  <2>7. UuidInv'
    BY <2>2, <2>3, <2>4, <2>5 DEF Erased, ParamInv, UuidInv
  <2>8. StartInv'
    BY <2>2, <2>3, <2>4 DEF ParamInv, StartInv
  <2>9. KeptInv'
    BY <2>2, <2>3, <2>4, <2>5 DEF TypeOK, ParamInv, KeptInv
  <2>10. QED BY <2>6, <2>7, <2>8, <2>9 DEF ParamInv
<1>3. CASE Open(t)
  <2>1. Goto(t, "open", "flag")
    BY <1>3 DEF Open
  <2>2. QED BY <1>3, <2>1, GotoAt
            DEF Open, Scheduled, Thread, ParamInv, CanSaveInv, UuidInv, StartInv, KeptInv
<1>4. ASSUME NEW c \in Cells, Program(t, c)
      PROVE  ParamInv'
  <2>1. PICK x \in {After(c), "lock"} : Goto(t, c, x)
    BY <1>4 DEF Program, Goto
  <2>2. page \in Page /\ ram \in Page /\ cut \in BOOLEAN
    BY DEF TypeOK, Page
  <2>3. CASE t = "can"
    <3>1. at["can"] = c /\ at'["can"] = x /\ at'["uart"] = at["uart"]
      BY <2>1, <2>3, GotoAt
    <3>2. ctrl = "open" /\ page[c] = Erased[c]
      <4>1. CASE c = "flag"
        BY <3>1, <4>1 DEF ParamInv, CanSaveInv
      <4>2. CASE c = "uuid"
        BY <3>1, <4>2 DEF ParamInv, CanSaveInv, Erased
      <4>3. CASE c = "id"
        BY <3>1, <4>3, <2>2 DEF ParamInv, CanSaveInv, Erased, Page
      <4>4. QED BY <4>1, <4>2, <4>3 DEF Cells
    <3>3. /\ page' = [page EXCEPT ![c] = ram[c]]
          /\ at'["can"] = After(c)
          /\ cut' = (cut /\ ~(c = "uuid" /\ ram.uuid))
          /\ ctrl' = ctrl
      BY <1>4, <2>3, <3>2 DEF Program, TypeOK, Thread, CanAt
    <3>4. UNCHANGED <<apage, ram, set, who, job, fresh, promised, exposed>>
      BY <1>4 DEF Program
    <3>5. c \in Cells /\ ram.flag
      BY <3>1 DEF Cells, ParamInv, CanSaveInv
    <3>6. CanSaveInv'
      <4>1. CASE c = "flag"
        <5>1. page = Erased /\ at'["can"] = "uuid"
          BY <3>1, <3>3, <4>1 DEF After, ParamInv, CanSaveInv
        <5>2. page' = [Erased EXCEPT !.flag = TRUE]
          BY <3>3, <3>5, <4>1, <5>1, <2>2 DEF Page, Erased
        <5>3. QED BY <3>1, <3>2, <3>3, <3>4, <3>5, <5>1, <5>2 DEF CanSaveInv
      <4>2. CASE c = "uuid"
        <5>1. page = [Erased EXCEPT !.flag = TRUE] /\ at'["can"] = "id"
          BY <3>1, <3>3, <4>2 DEF After, ParamInv, CanSaveInv
        <5>2. page = [flag |-> TRUE, uuid |-> FALSE, id |-> All]
          BY <5>1 DEF Erased
        <5>3. page' = [flag |-> TRUE, uuid |-> ram.uuid, id |-> All]
          BY <3>3, <4>2, <5>2
        <5>4. QED BY <3>1, <3>2, <3>3, <3>4, <3>5, <5>1, <5>3 DEF CanSaveInv
      <4>3. CASE c = "id"
        <5>1. page = [flag |-> TRUE, uuid |-> ram.uuid, id |-> All] /\ at'["can"] = "lock"
          BY <3>1, <3>3, <4>3 DEF After, ParamInv, CanSaveInv
        <5>2. PICK u \in BOOLEAN, i \in Ids \cup {All} : ram = [flag |-> TRUE, uuid |-> u, id |-> i]
          BY <2>2, <3>5 DEF Page
        <5>3. page' = ram
          <6>1. ram.uuid = u /\ ram["id"] = i
            BY <5>2
          <6>2. page = [flag |-> TRUE, uuid |-> u, id |-> All]
            BY <5>1, <6>1, Zenon
          <6>3. page' = [flag |-> TRUE, uuid |-> u, id |-> i]
            BY <3>3, <4>3, <6>1, <6>2
          <6>4. QED BY <5>2, <6>3, Zenon
        <5>4. QED BY <3>1, <3>2, <3>4, <3>5, <5>1, <5>3 DEF CanSaveInv
      <4>4. QED BY <3>5, <4>1, <4>2, <4>3 DEF Cells
    <3>7. UuidInv'
      BY <2>2, <3>1, <3>2, <3>3, <3>4, <3>5 DEF After, Cells, Erased, Page, ParamInv, CanSaveInv, UuidInv
    <3>8. StartInv' /\ KeptInv'
      BY <3>1, <3>3, <3>4, <3>5 DEF After, Cells, ParamInv, StartInv, KeptInv
    <3>9. QED BY <3>6, <3>7, <3>8 DEF ParamInv
  <2>4. CASE t = "uart"
    <3>1. at["uart"] = c /\ at'["uart"] = x /\ at'["can"] = at["can"]
      BY <2>1, <2>4, GotoAt
    <3>2. at["can"] = "idle" /\ who = "app"
      BY <1>4, <2>4 DEF Program, Scheduled
    <3>3. UNCHANGED <<apage, ram, set, who, job, fresh, promised, exposed>>
      BY <1>4 DEF Program
    <3>4. CanSaveInv' /\ StartInv'
      BY <3>1, <3>2, <3>3 DEF ParamInv, CanSaveInv, StartInv
    <3>5. CASE ctrl = "open" /\ page[c] = Erased[c] /\ x = After(c) /\ UNCHANGED ctrl
      <4>1. /\ page' = [page EXCEPT ![c] = ram[c]]
            /\ cut' = (cut /\ ~(c = "uuid" /\ ram.uuid))
        BY <1>4, <3>5 DEF Program
      <4>2. UuidInv'
        BY <2>2, <3>1, <3>2, <3>3, <3>5, <4>1 DEF After, Cells, Erased, Page, ParamInv, UuidInv
      <4>3. KeptInv'
        BY <2>2, <3>1, <3>2, <3>3, <3>5, <4>1 DEF After, Cells, Erased, Page, ParamInv, KeptInv
      <4>4. QED BY <3>4, <4>2, <4>3 DEF ParamInv
    <3>6. CASE x = "lock" /\ UNCHANGED <<page, cut>> /\ (ctrl # "open" \/ page[c] # Erased[c])
      <4>1. ASSUME c = "uuid", ctrl = "open" PROVE page.uuid
        <5>1. page["uuid"] # Erased["uuid"]
          BY <3>6, <4>1
        <5>2. QED BY <2>2, <5>1 DEF Erased, Page
      <4>2. UuidInv' /\ KeptInv'
        BY <3>1, <3>2, <3>3, <3>6, <4>1 DEF ParamInv, UuidInv, KeptInv
      <4>3. QED BY <3>4, <4>2 DEF ParamInv
    <3>7. CASE /\ x = "lock" /\ ~page.flag /\ cut'
               /\ page' = [page EXCEPT !.flag = ram.flag]
      <4>1. UuidInv'
        BY <2>2, <3>1, <3>2, <3>3, <3>7 DEF Page, ParamInv, UuidInv
      <4>2. KeptInv'
        BY <2>2, <3>1, <3>2, <3>3, <3>7 DEF Page, ParamInv, KeptInv
      <4>3. QED BY <3>4, <4>1, <4>2 DEF ParamInv
    <3>8. QED
      <4>1. at' = [at EXCEPT !["uart"] = After(c)] => x = After(c)
        BY <2>4, <3>1 DEF TypeOK, Thread
      <4>2. at' = [at EXCEPT !["uart"] = "lock"] => x = "lock"
        BY <2>4, <3>1 DEF TypeOK, Thread
      <4>3. QED BY <1>4, <2>4, <3>5, <3>6, <3>7, <4>1, <4>2 DEF Program
  <2>5. QED BY <2>3, <2>4 DEF Thread
<1>5. CASE LockUp(t)
  <2>1. PICK x \in {"idle", "readIap"} :
          Goto(t, "lock", x) /\ (x = "readIap" <=> t = "can" /\ job = "load")
    BY <1>5 DEF LockUp
  <2>2. QED BY <1>5, <2>1, GotoAt
            DEF LockUp, Acknowledge, Scheduled, Thread, ParamInv, CanSaveInv, UuidInv, StartInv, KeptInv
<1>6. QED BY <1>1, <1>2, <1>3, <1>4, <1>5 DEF SaveIap

LEMMA InvStart ==
  ASSUME TypeOK, ParamInv, SaveApp \/ StartStep
  PROVE  ParamInv'
<1> USE DEF Running, Loading, Unread, Thread, history
<1>1. ASSUME NEW from, NEW to, Goto("can", from, to)
      PROVE  at["can"] = from /\ at'["can"] = to /\ at'["uart"] = at["uart"]
  BY <1>1, GotoAt
<1>2. CASE SaveApp
  <2>1. UNCHANGED <<page, ram, set, who, job, cut, fresh, promised, stored, exposed>>
    BY <1>2 DEF SaveApp
  <2>2. \/ /\ at["can"] = "aErase" /\ at'["can"] = "aMark"
        \/ /\ at["can"] = "aMark" /\ at'["can"] = "aSet"
        \/ /\ at["can"] = "aSet" /\ ctrl' = "locked" /\ apage'.set = set
           /\ at'["can"] = IF job = "load" THEN "readApp" ELSE IF job = "save" THEN "unlock" ELSE "idle"
    BY <1>2, <1>1 DEF SaveApp, TypeOK
  <2>3. at'["uart"] = at["uart"]
    BY <1>2, <1>1 DEF SaveApp
  <2>4. CanSaveInv'
    BY <2>1, <2>2 DEF ParamInv, CanSaveInv
  <2>5. UuidInv'
    BY <2>1, <2>2, <2>3 DEF ParamInv, UuidInv
  <2>6. StartInv'
    BY <2>1, <2>2, ParamAssumption DEF TypeOK, ParamInv, StartInv
  <2>7. KeptInv'
    BY <2>1, <2>2, <2>3 DEF ParamInv, StartInv, KeptInv
  <2>8. QED BY <2>4, <2>5, <2>6, <2>7 DEF ParamInv
<1>3. CASE Boot
  BY <1>3, <1>1 DEF Boot, flash, ParamInv, CanSaveInv, UuidInv, StartInv, KeptInv
<1>4. CASE LoadApp
  BY <1>4, <1>1 DEF LoadApp, flash, TypeOK, ParamInv, CanSaveInv, UuidInv, StartInv, KeptInv
<1>5. CASE ReadApp
  BY <1>5, <1>1 DEF ReadApp, flash, ParamInv, CanSaveInv, UuidInv, StartInv, KeptInv
<1>6. CASE LoadIap
  <2>1. /\ at["can"] = "loadIap" /\ at'["uart"] = at["uart"]
        /\ at'["can"] = (IF page.flag THEN "readIap" ELSE "unlock")
    BY <1>6, <1>1 DEF LoadIap
  <2>2. Defaults.flag /\ Defaults.uuid
    BY DEF Defaults
  <2>3. job = "load" /\ at["uart"] = "idle"
    BY <2>1 DEF TypeOK, ParamInv, StartInv, UuidInv
  <2>4. UNCHANGED <<page, apage, ctrl, set, who, job, cut, fresh, exposed>>
    BY <1>6 DEF LoadIap, flash
  <2>5. CanSaveInv'
    BY <1>6, <2>1, <2>2, <2>3, <2>4 DEF LoadIap, CanSaveInv
  <2>6. UuidInv'
    BY <1>6, <2>1, <2>2, <2>3, <2>4 DEF LoadIap, ParamInv, UuidInv
  <2>7. StartInv' /\ KeptInv'
    BY <1>6, <2>1, <2>3, <2>4 DEF LoadIap, ParamInv, StartInv, KeptInv
  <2>8. QED BY <2>5, <2>6, <2>7 DEF ParamInv
<1>7. CASE ReadIap
  <2>1. at["can"] = "readIap" /\ at'["uart"] = at["uart"] /\ at'["can"] = "idle"
    BY <1>7, <1>1 DEF ReadIap
  <2>2. job = "load" /\ at["uart"] = "idle" /\ page.flag
    BY <2>1 DEF TypeOK, ParamInv, CanSaveInv, StartInv, UuidInv
  <2>3. UNCHANGED <<page, apage, ctrl, set, who, job, cut, fresh, promised, exposed>>
    BY <1>7 DEF ReadIap, flash
  <2>4. /\ ram'.flag = page.flag
        /\ who = "app" => ram'.uuid = page.uuid /\ ram'.id = IdOf[set]
        /\ who = "boot" => ram'.uuid /\ ram'.id = page.id
    BY <1>7 DEF ReadIap, TypeOK
  <2>5. CanSaveInv'
    BY <2>1, <2>2, <2>3, <2>4 DEF CanSaveInv
  <2>6. UuidInv'
    BY <2>1, <2>2, <2>3, <2>4 DEF TypeOK, ParamInv, UuidInv
  <2>7. StartInv' /\ KeptInv'
    BY <2>1, <2>2, <2>3, <2>4 DEF ParamInv, StartInv, KeptInv
  <2>8. QED BY <2>5, <2>6, <2>7 DEF ParamInv
<1>8. QED BY <1>2, <1>3, <1>4, <1>5, <1>6, <1>7 DEF StartStep

LEMMA InvFrame ==
  ASSUME TypeOK, ParamInv, FrameStep \/ Crash
  PROVE  ParamInv'
<1> USE DEF Running, Loading, Unread, Thread, history
<1>1. ASSUME NEW i \in Ids \cup {All},
             (\E s \in Settings : RecvWrite(i, s)) \/ RecvSetID(i) \/ UartWrite(i)
      PROVE  ParamInv'
  BY <1>1 DEF RecvWrite, RecvSetID, UartWrite, flash, TypeOK, ParamInv, CanSaveInv, UuidInv, StartInv, KeptInv
<1>2. CASE RecvSave
  <2>1. PICK x \in {"aErase", "unlock"} : Goto("can", "idle", x) /\ (x = "aErase" <=> who = "app")
    BY <1>2 DEF RecvSave
  <2>2. QED BY <1>2, <2>1, GotoAt
            DEF RecvSave, Takes, flash, TypeOK, ParamInv, CanSaveInv, UuidInv, StartInv, KeptInv
<1>3. CASE RecvDefault
  <2>1. PICK x \in {"aErase", "unlock"} : Goto("can", "idle", x) /\ (x = "aErase" <=> who = "app")
    BY <1>3 DEF RecvDefault
  <2>2. QED BY <1>3, <2>1, GotoAt
            DEF RecvDefault, Takes, Defaults, flash, TypeOK, ParamInv, CanSaveInv, UuidInv, StartInv, KeptInv
<1>4. CASE RecvStart \/ RecvUpdate \/ UartStorage
  BY <1>4 DEF RecvStart, RecvUpdate, UartStorage, Takes, flash, TypeOK, ParamInv, CanSaveInv, UuidInv, StartInv, KeptInv
<1>5. CASE UartSave
  <2>1. Goto("uart", "idle", "unlock")
    BY <1>5 DEF UartSave
  <2>2. QED BY <1>5, <2>1, GotoAt
            DEF UartSave, flash, TypeOK, ParamInv, CanSaveInv, UuidInv, StartInv, KeptInv
<1>6. CASE Crash
  <2>1. at'["can"] = "reset" /\ at'["uart"] = "idle"
    BY <1>6 DEF Crash, TypeOK
  <2>2. QED BY <1>6, <2>1
            DEF Crash, TypeOK, ParamInv, CanSaveInv, UuidInv, StartInv, KeptInv
<1>7. QED BY <1>1, <1>2, <1>3, <1>4, <1>5, <1>6 DEF FrameStep

LEMMA ParamStep == TypeOK /\ ParamInv /\ [Next]_vars => (TypeOK /\ ParamInv)'
<1> SUFFICES ASSUME TypeOK, ParamInv, [Next]_vars PROVE TypeOK' /\ ParamInv'
  OBVIOUS
<1>1. CASE Next
  BY <1>1, TypesSave, TypesOther, InvSave, InvStart, InvFrame DEF Next, ParamInv
<1>2. CASE UNCHANGED vars
  BY <1>2 DEF vars, flash, history, TypeOK, ParamInv, CanSaveInv, UuidInv, StartInv, KeptInv, Unread, Loading, Running
<1>3. QED BY <1>1, <1>2
-----------------------------------------------------------------------------
\* Every variable keeps its type, however saves, frames and resets interleave.
THEOREM ParamTypes == Spec => []TypeOK
<1>1. TypeOK /\ ParamInv /\ [Next]_vars => (TypeOK /\ ParamInv)'
  BY ParamStep
<1>2. QED BY <1>1, InitTypes, ParamInit, PTL DEF Spec

\* Each point of iap_param_save finds in the page what it has written, a page
\* without its UUID is being written or was cut short, and nothing but an erase
\* that a Start frame let through touches what an acknowledged SAVE stored.
THEOREM ParamInvariant == Spec => []ParamInv
<1>1. TypeOK /\ ParamInv /\ [Next]_vars => (TypeOK /\ ParamInv)'
  BY ParamStep
<1>2. QED BY <1>1, InitTypes, ParamInit, PTL DEF Spec

\* A node found on the bus names its own chip, unless a save was cut short
\* between the flag and the UUID; the bootloader always does.
THEOREM UuidIsTruthful == Spec => []UuidTruthful
<1>1. ParamInv => UuidTruthful
  BY DEF ParamInv, UuidInv, UuidTruthful, Unread, Loading
<1>2. QED BY <1>1, ParamInvariant, PTL

\* The bootloader has the ID of the last acknowledged SAVE after any number of
\* resets, whatever the UART parser was saving meanwhile, unless a Start frame
\* the application gave up left the flash open to an erase of that save.
THEOREM IdKept == Spec => []IdLostOnlyByStart
<1>1. ParamInv => IdLostOnlyByStart
  BY DEF ParamInv, KeptInv, IdLostOnlyByStart
<1>2. QED BY <1>1, ParamInvariant, PTL
=============================================================================
