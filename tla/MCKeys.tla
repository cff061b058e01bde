------------------------------- MODULE MCKeys --------------------------------
(* Instance of Keys for TLC: "a", "ab", ESC a (which a byte with the 8th   *)
(* bit can be, too), ^SPC, Enter (typed as ^J or ^M), and a sequence of    *)
(* the greatest length.  Byte 7 interrupts.                                *)
EXTENDS Keys

const_KeySeq == {<<97>>, <<97, 98>>, <<98, 97>>, <<27, 97>>, <<255>>, <<10>>, <<98, 98, 97>>,
                 <<98, 98, 98, 98>>}
=============================================================================
