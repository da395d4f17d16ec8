------------------------------ MODULE MCFramer ------------------------------
(***************************************************************************)
(* Framer for TLC: client A writes at most MaxIn bytes from {LF, CR, 'a'}, *)
(* enough for a name, one message, and a CR that is not part of a pair.   *)
(***************************************************************************)
EXTENDS FramerRef

MCByte == {LF, CR, 97}

=============================================================================
