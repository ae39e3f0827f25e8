----------------------------- MODULE MCFileStore -----------------------------
(* FileStore for TLC: one person with two requests at a time, the nightly   *)
(* job and an operator.                                                     *)
EXTENDS FileStore, TLC

CONSTANTS m1, u1, nightly
=============================================================================
