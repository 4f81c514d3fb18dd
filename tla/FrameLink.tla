----------------------------- MODULE FrameLink -----------------------------
(***************************************************************************)
(* The way of a frame from the bus to its handler.                         *)
(*                                                                         *)
(* A frame is cut into CAN messages of CHUNK bytes.  The can thread        *)
(* appends the bytes of each message to CAN_BUF500; every 20 ms the parser *)
(* thread looks at all of them, scans for a frame, and lets the handler    *)
(* have it (protocol_anylise_process, can500_protocol_anylise).  Messages  *)
(* may be lost, those of another node may come in between, and the can     *)
(* thread goes on while the parser scans and the handler works.            *)
(*                                                                         *)
(* The bootloader has the same scan in a loop without threads: a round     *)
(* takes at most one message from the driver and then looks.               *)
(*                                                                         *)
(* A frame is head, length, payload, sum, tail; command and IDs are part   *)
(* of the payload, and the length is one byte.  Bytes are 0 .. BYTE - 1.   *)
(* CAN_BUF500 is the queue that ByteQueue describes.  Time is counted in   *)
(* polls of the parser, or rounds of the bootloader.                       *)
(***************************************************************************)
EXTENDS Naturals, Sequences, SequencesExt

CONSTANTS
  BYTE,       \* 2^8
  HEAD, TAIL, \* CAN_COMM_PROTOCOL_HEAD and _TAIL
  MIN, MAX,   \* CAN_COMM_PROTOCOL_MIN_LEN and _MAX_LEN
  CHUNK,      \* 8
  CAPACITY,   \* 1023, one less than the size of CAN_BUF500
  OUT,        \* ticks_out, in polls
  Payloads,   \* what hosts send
  Noise,      \* parts of frames of other nodes, on the same StdId
  MaxDue      \* bound: frames on their way at a time

ASSUME LinkAssumption ==
  /\ BYTE \in Nat /\ {HEAD, TAIL} \subseteq 0 .. BYTE - 1
  /\ MIN \in Nat /\ MIN >= 4 /\ MAX \in MIN .. BYTE - 1
  /\ CHUNK \in Nat \ {0} /\ CAPACITY \in Nat \ {0} /\ OUT \in Nat /\ MaxDue \in Nat
  /\ Payloads \subseteq Seq(0 .. BYTE - 1) /\ Noise \subseteq Seq(0 .. BYTE - 1)
  /\ \A p \in Payloads : Len(p) + 4 \in MIN .. MAX

VARIABLES
  boot,    \* it is the bootloader that receives
  ring,    \* the bytes in CAN_BUF500, oldest first
  buf,     \* comm->buf: the parser's copy of them, empty when not in use
  pc,      \* the parser: "look", "scan", "delete" or "fault"
  skip,    \* where the accepted frame starts in buf
  waited,  \* polls since wait_ticks was set
  pending, \* bytes of the frame being sent that are not yet in CAN_BUF500
  due,     \* history: frames sent and not yet delivered, while
  intact,  \*   history: nothing but them has been sent and nothing of them lost
  age      \*   history: how many polls the oldest of them has been in the buffer

parser  == <<buf, pc, skip, waited>>
history == <<due, intact, age>>
vars    == <<boot, ring, parser, pending, history>>

Bytes == Seq(0 .. BYTE - 1)

\* Get_Sum8.
Sum(b) ==
  LET sum[n \in 0 .. Len(b)] == IF n = 0 THEN 0 ELSE (sum[n - 1] + b[n]) % BYTE
  IN  sum[Len(b)]

Frame(p) == LET body == <<Len(p) + 4>> \o p IN <<HEAD>> \o body \o <<Sum(body), TAIL>>

TypeOK ==
  /\ boot \in BOOLEAN
  /\ ring \in Bytes /\ Len(ring) <= CAPACITY
  /\ buf \in Bytes /\ Len(buf) <= CAPACITY
  /\ pc \in {"look", "scan", "delete", "fault"}
  /\ skip \in 0 .. CAPACITY
  /\ waited \in 0 .. OUT + 1 /\ age \in 0 .. OUT + 1
  /\ pending \in Bytes
  /\ due \in Seq(Payloads) /\ Len(due) <= MaxDue
  /\ intact \in BOOLEAN

Init ==
  /\ boot \in BOOLEAN
  /\ ring = <<>> /\ buf = <<>> /\ pc = "look" /\ skip = 0 /\ waited = 0
  /\ pending = <<>> /\ due = <<>> /\ intact = TRUE /\ age = 0
----------------------------------------------------------------------------
(* The scan of can500_protocol_anylise, which skips i bytes of b *)

HeadAt(b, i) == i < Len(b) /\ b[i + 1] = HEAD

Length(b, i) == b[i + 2]

Plausible(b, i) == i + 2 <= Len(b) /\ HeadAt(b, i) /\ Length(b, i) \in MIN .. MAX

Complete(b, i) == Len(b) - i >= Length(b, i)

Valid(b, i) ==
  LET n == Length(b, i)
  IN  /\ Plausible(b, i) /\ Complete(b, i)
      /\ b[i + n] = TAIL
      /\ b[i + n - 1] = Sum(SubSeq(b, i + 2, i + n - 2))

\* The inner loop has skipped to the next head, or to the end.
Found(b, i) == i > 0 /\ b[i] # HEAD /\ (HeadAt(b, i) \/ i = Len(b))

\* A head has been given up and the next byte, not received, is taken for one
\* or for a length.
Strays(b, i) == i > 0 /\ b[i] = HEAD /\ i + 2 > Len(b) /\ (HeadAt(b, i) \/ i = Len(b))

\* Mutant: an incomplete frame does not end the scan.
StopsNotToWait(b, i) ==
  \/ Found(b, i) /\ Len(b) - i < MIN
  \/ Strays(b, i)
  \/ Plausible(b, i) /\ Valid(b, i)

Stops(b, i) ==
  \/ Found(b, i) /\ Len(b) - i < MIN
  \/ Strays(b, i)
  \/ Plausible(b, i) /\ (~Complete(b, i) \/ Valid(b, i))

\* How many bytes the scan skips before it ends.
Skipped(b) == CHOOSE i \in 0 .. Len(b) :
                 Stops(b, i) /\ \A j \in 0 .. i - 1 : ~Stops(b, j)

Outcome(b) ==
  IF Len(b) < MIN THEN "wait"
  ELSE LET i == Skipped(b)
       IN  IF Valid(b, i) THEN "accept"
           ELSE IF Strays(b, i) THEN "astray"
           ELSE IF Plausible(b, i) /\ i = 0 THEN "wait"
           ELSE "reject"
----------------------------------------------------------------------------
(* The bus, the can thread, and the look at what it has received *)

Lesser(a, b) == IF a < b THEN a ELSE b

\* What is left of q when the oldest n bytes are deleted.
Drop(q, n) == SubSeq(q, n + 1, Len(q))

\* Mutant: nothing is dropped.
KeptAll(q) == q

\* Mutant: a full buffer drops the new bytes.
KeptFirst(q) == SubSeq(q, 1, Lesser(CAPACITY, Len(q)))

\* AddDataToBuf drops the oldest bytes of a full buffer.
Kept(q) == IF Len(q) > CAPACITY THEN Drop(q, Len(q) - CAPACITY) ELSE q

\* Nothing is on its way, so a frame sent now finds an empty buffer.
Quiet == ring = <<>> /\ pending = <<>> /\ pc = "look"

Send(p) ==
  /\ pending = <<>> /\ Len(due) < MaxDue
  /\ pending' = Frame(p)
  /\ due' = IF Quiet THEN <<p>> ELSE IF intact THEN Append(due, p) ELSE <<>>
  /\ intact' = (intact \/ Quiet)
  /\ UNCHANGED <<boot, ring, parser, age>>

Part == Lesser(CHUNK, Len(pending))

\* The bytes of a message are appended.
TakeMessage ==
  /\ pending # <<>>
  /\ ring' = Kept(ring \o SubSeq(pending, 1, Part))
  /\ pending' = Drop(pending, Part)
  /\ IF Len(ring) + Part > CAPACITY THEN due' = <<>> /\ intact' = FALSE
                                    ELSE UNCHANGED <<due, intact>>

\* A message arrives at the can thread.
Arrive ==
  /\ ~boot /\ TakeMessage
  /\ age' = IF intact' THEN age ELSE 0
  /\ UNCHANGED <<boot, parser>>

Later(n) == Lesser(n + 1, OUT + 1)

\* What is in the buffer is copied, without clearing it.
ReadBuf ==
  /\ pc = "look"
  /\ buf' = ring'
  /\ IF ring' = <<>> THEN pc' = "look" /\ waited' = 0
                     ELSE pc' = "scan" /\ waited' = Later(waited)
  /\ age' = IF intact' /\ ring' # <<>> THEN Later(age) ELSE 0
  /\ UNCHANGED <<boot, skip>>

\* A message is lost, or one of another node is received; the bootloader looks at
\* once.
Disturb ==
  /\ due' = <<>> /\ intact' = FALSE /\ age' = 0
  /\ UNCHANGED boot
  /\ \/ /\ pending # <<>>
        /\ pending' = Drop(pending, Part)
        /\ UNCHANGED <<ring, parser>>
     \/ /\ \E c \in Noise : ring' = Kept(ring \o c)
        /\ UNCHANGED pending
        /\ IF boot THEN ReadBuf ELSE UNCHANGED parser
----------------------------------------------------------------------------
(* The parser thread, or the rounds of the bootloader *)

\* rt_thread_delay, then comm->recv without clear.
Look ==
  /\ ~boot /\ UNCHANGED <<ring, pending, due, intact>>
  /\ ReadBuf

\* A round of the bootloader takes a message, if there is one, and looks.
PeriodicHandle ==
  /\ boot /\ (TakeMessage \/ UNCHANGED <<ring, pending, due, intact>>)
  /\ ReadBuf

\* Mutant: an accepted frame does not restart the time-out.
AcceptKeepsTime ==
  /\ pc = "delete" /\ pc' = "look"
  /\ ring' = Drop(ring, Lesser(Len(ring), skip + Length(buf, skip)))
  /\ due' = IF intact THEN Tail(due) ELSE due
  /\ age' = 0
  /\ buf' = <<>> /\ skip' = 0
  /\ UNCHANGED <<boot, waited, pending, intact>>

\* Mutant: the tail of the frame is left in the buffer.
DeleteKeepsTail ==
  /\ pc = "delete" /\ pc' = "look"
  /\ ring' = Drop(ring, Lesser(Len(ring), skip + Length(buf, skip) - 1))
  /\ waited' = 0
  /\ due' = IF intact THEN Tail(due) ELSE due
  /\ age' = 0
  /\ buf' = <<>> /\ skip' = 0
  /\ UNCHANGED <<boot, pending, intact>>

\* The handler gets the frame; then it is deleted, with what was before it.
Accept ==
  /\ pc = "scan" /\ Outcome(buf) = "accept"
  /\ pc' = "delete" /\ skip' = Skipped(buf)
  /\ UNCHANGED <<boot, ring, buf, waited, pending, history>>

Delete ==
  /\ pc = "delete" /\ pc' = "look"
  /\ ring' = Drop(ring, Lesser(Len(ring), skip + Length(buf, skip)))
  /\ waited' = 0
  /\ due' = IF intact THEN Tail(due) ELSE due
  /\ age' = 0
  /\ buf' = <<>> /\ skip' = 0
  /\ UNCHANGED <<boot, pending, intact>>

Reject ==
  /\ pc = "scan" /\ Outcome(buf) = "reject"
  /\ pc' = "look"
  /\ ring' = Drop(ring, Lesser(Len(ring), Skipped(buf)))
  /\ waited' = 0 /\ age' = 0
  /\ due' = <<>> /\ intact' = FALSE
  /\ buf' = <<>> /\ UNCHANGED <<boot, skip, pending>>

\* Mutant: every poll that waits restarts the time-out.
WaitRestarts ==
  /\ pc = "scan" /\ Outcome(buf) = "wait" /\ waited <= OUT
  /\ pc' = "look" /\ waited' = 0
  /\ buf' = <<>> /\ UNCHANGED <<boot, ring, skip, pending, history>>

Wait ==
  /\ pc = "scan" /\ Outcome(buf) = "wait" /\ waited <= OUT
  /\ pc' = "look"
  /\ buf' = <<>> /\ UNCHANGED <<boot, ring, skip, waited, pending, history>>

\* ticks_out is over: everything received is cleared.
TimeOut ==
  /\ ~boot
  /\ pc = "scan" /\ Outcome(buf) = "wait" /\ waited > OUT
  /\ pc' = "look"
  /\ ring' = <<>>
  /\ waited' = 0 /\ age' = 0
  /\ due' = <<>> /\ intact' = FALSE
  /\ buf' = <<>> /\ UNCHANGED <<boot, skip, pending>>

\* The bootloader clears the messages the driver still has, and not the bytes of
\* the incomplete frame.
BootTimeOut ==
  /\ boot
  /\ pc = "scan" /\ Outcome(buf) = "wait" /\ waited > OUT
  /\ pc' = "look"
  /\ \E n \in 0 .. Len(pending) : pending' = Drop(pending, Lesser(n * CHUNK, Len(pending)))
  /\ IF pending' = pending THEN UNCHANGED history
                           ELSE due' = <<>> /\ intact' = FALSE /\ age' = 0
  /\ waited' = 0
  /\ buf' = <<>> /\ UNCHANGED <<boot, ring, skip>>

\* The scan goes on in what earlier looks left behind the received bytes.  It
\* takes the length of the last head from there and waits for the rest, so that
\* this head stays; it finds a head, or a frame that it delivers, and deletes all
\* it has looked at; or it leaves the buffer.
GoAstray ==
  /\ pc = "scan" /\ Outcome(buf) = "astray"
  /\ \/ /\ pc' = "look" /\ waited' = 0 /\ age' = 0
        /\ \E n \in Skipped(buf) .. CAPACITY : ring' = Drop(ring, Lesser(Len(ring), n))
        /\ due' = <<>> /\ intact' = FALSE
     \/ /\ pc' = "fault"
        /\ UNCHANGED <<ring, waited, history>>
  /\ buf' = <<>> /\ UNCHANGED <<boot, skip, pending>>

ParserStep == Look \/ PeriodicHandle \/ Accept \/ Delete \/ Reject \/ Wait
              \/ TimeOut \/ BootTimeOut \/ GoAstray

HostStep == Disturb \/ \E p \in Payloads : Send(p)

Next == ParserStep \/ Arrive \/ HostStep

Spec == Init /\ [][Next]_vars

\* The parser thread keeps polling.
FairSpec == Spec /\ WF_vars(ParserStep)
----------------------------------------------------------------------------
(* What must hold *)

\* As long as nothing disturbs them, the bytes in the buffer and on their way
\* are exactly the frames not yet delivered, however messages, polls and the
\* handler interleave: no byte of a frame is skipped, deleted twice or left.
Aligned == intact => ring \o pending = FlattenSeq([n \in DOMAIN due |-> Frame(due[n])])

\* What the handler then gets is the oldest of these frames, and whole.
DeliversOldest ==
  pc = "delete" /\ intact =>
    SubSeq(buf, skip + 1, skip + Length(buf, skip)) = Frame(Head(due))

\* Undisturbed frames are never taken for garbage; they are cleared only when
\* the oldest has stayed incomplete for the whole time-out, by itself
\* (protocol_anylise_frame.c:215: each accepted frame restarts the time).
ClearsOnlySlow ==
  [][intact /\ ~intact' /\ (Reject \/ TimeOut \/ BootTimeOut) => ~Reject /\ age > OUT]_vars

\* Why these hold.  The parser scans what it has received, and a frame it has
\* accepted is there; an empty buffer has no time-out running.
ScanInv ==
  /\ pc \in {"scan", "delete"} => buf # <<>> /\ ring # <<>>
  /\ pc = "delete" => Valid(buf, skip)
  /\ pc = "look" /\ ring = <<>> => waited = 0

\* Of undisturbed frames the parser has the first bytes of the buffer, it skips
\* none to accept one, and the time-out has run no longer than the oldest is there.
IntactInv ==
  intact => /\ pc \in {"scan", "delete"} => IsPrefix(buf, ring)
            /\ pc = "delete" => skip = 0
            /\ waited <= age

LinkInv == Aligned /\ ScanInv /\ IntactInv

\* Every undisturbed frame that begins to arrive is delivered, or is too slow.
FramesArrive == (~boot /\ intact /\ ring # <<>>) ~> (~intact \/ pc = "delete")

\* Whatever was received, once the bus is silent the buffer empties, so that
\* the next frame is received well: no garbage blocks the link for ever, unless
\* the scan has left the buffer.
Drains == (<>[][~(Arrive \/ HostStep)]_vars) =>
            []<>(ring = <<>> \/ pc = "fault" \/ (boot /\ Outcome(ring) = "wait"))

\* A message of the host is lost on the bus, or in the driver by a time-out that
\* clears it there, or one of another node comes in between.
Loses == Disturb \/ (BootTimeOut /\ pending' # pending)

\* canbus_middle.c:940-944: the bootloader never clears the start of a frame it
\* waits for, even of one that can never be complete.  All the same it is not deaf
\* for ever: as soon as no message is lost and a host keeps sending, frames are
\* delivered again.
BootRecovers ==
  (<>[][~Loses]_vars) /\ []<><<PeriodicHandle /\ ring' # ring>>_vars
    => []<>(pc \in {"delete", "fault"})
=============================================================================
