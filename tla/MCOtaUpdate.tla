---------------------------- MODULE MCOtaUpdate ----------------------------
(* Small images for OtaUpdate: a page is 6 bytes, a half-word has 8 values,  *)
(* the limit is 1.5 * HW bytes as OTA_BIN_MAX_SIZE is 1.6 * 2^16.            *)
EXTENDS OtaUpdate

\* "a" fills two pages; "z" is sent packed in one page and runs in two, and so is
\* "y", whose header announces packets of size 0.
MCSize    == [i \in Images |-> IF i = "a" THEN 9 ELSE 5]
MCRunSize == [i \in Images |-> 9]
MCCrc     == [i \in Images |-> IF i = "a" THEN 11 ELSE IF i = "y" THEN 29 ELSE 37]
MCVer     == [i \in Images |-> IF i = "a" THEN 1 ELSE 2]
MCTag     == [i \in Images |-> IF i = "z" THEN 3 ELSE 0]

\* A host that does not number its versions.
MCVerZero == [i \in Images |-> 0]
=============================================================================
