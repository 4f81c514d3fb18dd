--------------------------- MODULE FirmwareStore ---------------------------
(***************************************************************************)
(* What the update machinery of a node promises, without flash pages,      *)
(* flags, headers, retries or power failures: the node owns one bootable   *)
(* program; an update is staged while it is received and replaces the      *)
(* program in one step, completely or not at all.                          *)
(* OtaUpdate implements this module.                                       *)
(***************************************************************************)
CONSTANTS Images, \* the programs a host may send
          None    \* no program

VARIABLES
  image,     \* the program the node starts, or will start, by itself
  staged,    \* the program completely received, or None
  lost,      \* writing a committed program has failed for good
  misguided  \* committed is a package that says of itself what is not so

storeVars == <<image, staged, lost, misguided>>

StoreInit == /\ image \in Images \cup {None} /\ staged = None
             /\ lost = FALSE /\ misguided = FALSE

\* A host sends a program, or spoils the one it has sent.
Stage == /\ staged' \in Images \cup {None}
         /\ UNCHANGED <<image, lost, misguided>>

\* The host ends the update of a completely received program.
Replace == /\ staged # None
           /\ image' = staged
           /\ UNCHANGED <<staged, lost, misguided>>

\* The program cannot be written: the node gives up, then forgets it.
Fail == /\ image # None /\ lost' = TRUE
        /\ UNCHANGED <<image, staged, misguided>>
Forget == /\ lost /\ image' = None
          /\ UNCHANGED <<staged, lost, misguided>>

\* A program is in place again.
Restore == /\ image # None /\ lost' = FALSE
           /\ UNCHANGED <<image, staged, misguided>>

\* The host ends the update of a package that describes itself wrongly: until
\* the node has given it up, nothing is promised of its program.
Mislead == /\ staged = None /\ misguided' = TRUE
           /\ UNCHANGED <<image, staged, lost>>
Scramble == /\ misguided
            /\ image' \in Images \cup {None} /\ lost' \in BOOLEAN
            /\ misguided' \in BOOLEAN
            /\ UNCHANGED staged

StoreNext == Stage \/ Replace \/ Fail \/ Forget \/ Restore \/ Mislead \/ Scramble

StoreSpec == StoreInit /\ [][StoreNext]_storeVars
=============================================================================
