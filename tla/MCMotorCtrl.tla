---------------------------- MODULE MCMotorCtrl ----------------------------
(* Small instances of MotorCtrl: the bounds are in the .cfg files. *)
EXTENDS MotorCtrl
=============================================================================
