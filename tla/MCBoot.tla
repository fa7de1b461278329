-------------------------------- MODULE MCBoot --------------------------------
(* Small instances of the kernel's start for TLC.                               *)
EXTENDS Boot

CONSTANTS Bases, Sizes, Types, MaxEntries

Reported == {Entry(b, s, t) : b \in Bases, s \in Sizes, t \in Types}

(* Maps of up to MaxEntries entries, in the order of e820_sort except that      *)
(* shorter maps come in any order.                                              *)
MCFirmwareMaps ==
    {fw \in UNION {[1 .. k -> Reported] : k \in 0 .. MaxEntries} :
        Len(fw) > 2 => \A k \in 1 .. Len(fw) - 1 : ~ Before(fw[k + 1], fw[k])}
===============================================================================
