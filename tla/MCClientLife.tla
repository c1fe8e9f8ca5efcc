---------------------------- MODULE MCClientLife ----------------------------
(* An instance of ClientLife for TLC.                                      *)
EXTENDS ClientLife

AllEnvironments == [reports : BOOLEAN, prompt : BOOLEAN]
=============================================================================
