----------------------------- MODULE MCPageTables -----------------------------
(* Small memories for PageTables: page 0, low memory that may end inside a page *)
(* with a reserved region behind it or nothing, the kernel with the first page  *)
(* of its stack in front, usable memory behind it, and a reserved region at the *)
(* top that may begin or end inside a page.                                     *)
EXTENDS PageTables

CONSTANTS LowMemory, KernelSizes, Offsets, Ends, TopMemory

MCFrames == 0 .. 63

R(b, s, t) == [base |-> b, size |-> s, type |-> t]
Optional(b, s, t) == IF s = 0 THEN << >> ELSE <<R(b, s, t)>>
Bytes(n) == n * PageBytes

(* In bytes: how long low memory and the region behind it are; how far above    *)
(* usable memory the region at the top begins and how long it is.               *)
MCLowMemory == {<<48, 0>>, <<24, 8>>, <<24, 0>>}
MCTopMemory == {<<0, 0>>, <<72, 96>>, <<80, 100>>}

MCLayouts ==
    {[map |-> <<R(0, PageBytes, 5), R(PageBytes, low[1], 1)>>
                \o Optional(PageBytes + low[1], low[2], 2)
                \o <<R(Bytes(4), Bytes(ks + 1 + off), 5),
                     R(Bytes(5 + ks + off), Bytes(end - 5 - ks - off), 1)>>
                \o Optional(Bytes(end) + top[1], top[2], 2),
      boot |-> 4, kbase |-> 5, ksize |-> ks, first |-> 5 + ks + off, limit |-> end] :
        low \in LowMemory, ks \in KernelSizes, off \in Offsets, end \in Ends, top \in TopMemory}
===============================================================================
