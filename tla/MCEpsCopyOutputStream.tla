----------------------- MODULE MCEpsCopyOutputStream -----------------------
(* Outputs for EpsCopyOutputStream whose buffers are shorter and longer than
   the slop of two bytes. *)
EXTENDS EpsCopyOutputStream
MCOutputs == {Array(7, 1), Array(6, 4), String(0), Cord(4), Copying(2), Copying(4)}
===============================================================================
