-------------------------------- MODULE MCSlab --------------------------------
(* The objects callers of the slab allocator register.                        *)
EXTENDS Slab

(* With pages of 1 KiB: small objects whose alignment leaves a few to a slab, *)
(* large ones of which a block holds a few, and ones of which it holds one.   *)
MCUsers == {<<60, 64>>, <<128, 8>>, <<300, 8>>, <<1000, 8>>}
===============================================================================
