-------------------------- MODULE MCCodedInputStream --------------------------
(* Inputs of CodedInputStream: varints of one to four bytes in seven bytes, of
   which INT_MAX hides the last. *)
EXTENDS CodedInputStream
MCInput == {<<"end", "more", "end", "end", "more", "more", "end">>,
            <<"more", "more", "more", "more", "end", "end">>, <<"more", "more", "end">>, <<>>}
MCSizes == {-1, 0, 1, 2, 4}
===============================================================================
