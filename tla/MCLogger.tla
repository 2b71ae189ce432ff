------------------------------ MODULE MCLogger ------------------------------
(* Model-checking instance of Logger: three followed entries and any number  *)
(* of others meet in a queue of two places, before, during and after Close,  *)
(* and batches end in the middle of a drain.                                 *)
EXTENDS Logger, TLC

=============================================================================
