--------------------------- MODULE MCOtaPackages ---------------------------
(* The images of MCOtaUpdate whose headers cannot be taken for another's.    *)
EXTENDS MCOtaUpdate

\* The versions are not 0 or 0xFFFF, and no header is read as another's.
ASSUME PackagesTell == VersionsTell /\ HeadersTell
=============================================================================
