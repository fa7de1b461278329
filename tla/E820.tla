-------------------------------- MODULE E820 --------------------------------
(***************************************************************************)
(* Clean-up of the BIOS memory map, kernel/e820.c.                         *)
(*                                                                         *)
(* e820_init adds the kernel image and the first page to the map, sorts    *)
(* it, removes overlaps (where two entries cover an address the higher     *)
(* type wins) and merges neighbours of the same type.  The loops of        *)
(* e820_overlap and e820_coalesce work in place on a small array, so the   *)
(* module has one action per branch of a loop body.                        *)
(*                                                                         *)
(* m is the used part of the array, counted from 1: the code's *pc is      *)
(* Len(m), and the slots behind it are zero.  i is the index of c.         *)
(***************************************************************************)
EXTENDS Integers, Sequences, SequencesExt, FiniteSets

CONSTANTS
    E820_ENTRIES,   (* The size of the array.                              *)
    FirmwareMaps,   (* The maps that the BIOS may report.                  *)
    KernelBase,     (* Where the kernel is loaded, 0x100000.               *)
    KernelSizes,    (* The possible sizes of the kernel's entry.           *)
    FirstPage       (* The size of the first page.                         *)

ReservedType == 5

ASSUME MapAssumption ==
    /\ E820_ENTRIES \in Nat
    /\ FirmwareMaps \subseteq Seq([base : Nat, size : Nat \ {0}, type : Nat])
    /\ KernelBase \in Nat /\ KernelSizes \subseteq Nat /\ FirstPage \in Nat

(* The BIOS numbers types from 1 (e820_overlap takes 0 for an entry that   *)
(* is not used), the kernel is not empty, and the first page lies in front *)
(* of it.                                                                  *)
ASSUME UsedAssumption ==
    /\ \A fw \in FirmwareMaps : \A k \in DOMAIN fw : fw[k].type # 0
    /\ 0 \notin KernelSizes
    /\ FirstPage \in 1 .. KernelBase

VARIABLES m, i, pc,
    input           (* The map as e820_init completes it, before sorting.  *)

vars == <<m, i, pc, input>>

Entry(b, s, t) == [base |-> b, size |-> s, type |-> t]
Fin(e) == e.base + e.size

(* The order of e820_sort: by address, then by size.                       *)
Before(e, f) == e.base < f.base \/ (e.base = f.base /\ e.size < f.size)

(* Where the insertion sort puts entry k: an entry moves left past every   *)
(* larger one, so equal entries keep their order.                          *)
Rank(s, k) == Cardinality({j \in DOMAIN s :
                              Before(s[j], s[k]) \/ (j <= k /\ ~ Before(s[k], s[j]))})
Sorted(s) == [r \in DOMAIN s |-> s[CHOOSE k \in DOMAIN s : Rank(s, k) = r]]

(* e820_sort(&m[k], *pc - k): the entries from k on.                       *)
SortedFrom(s, k) == SubSeq(s, 1, k - 1) \o Sorted(SubSeq(s, k, Len(s)))

(* Mutant: nothing is removed.                                             *)
DiscardNot(s, k) == s
Discard(s, k) == RemoveAt(s, k)

Init ==
    /\ \E fw \in FirmwareMaps, ks \in KernelSizes :
          /\ Len(fw) < E820_ENTRIES - 3
          /\ input = fw \o <<Entry(KernelBase, ks, ReservedType),
                             Entry(0, FirstPage, ReservedType)>>
    /\ m = <<>>
    /\ i = 1
    /\ pc = "sort"

Sort ==
    /\ pc = "sort"
    /\ m' = Sorted(input)
    /\ pc' = "overlap"
    /\ UNCHANGED <<i, input>>

----------------------------------------------------------------------------
(* The body of e820_overlap's loop, for c = m[i] and n = m[i+1].           *)

InLoop(phase) == pc = phase /\ i < Len(m)

c == m[i]
n == m[i + 1]

Again   == i' = i
Advance == i' = i + 1

Clash == InLoop("overlap") /\ c.type # 0 /\ Fin(c) > n.base

SameBlock == c.base = n.base /\ Fin(c) = Fin(n)
SameBase  == c.base = n.base /\ Fin(c) # Fin(n)
SameEnd   == c.base # n.base /\ Fin(c) = Fin(n)
NextInside == c.base # n.base /\ Fin(n) < Fin(c)
NextBeyond == c.base # n.base /\ Fin(n) > Fin(c)

(* Mutant: the end of an entry is taken for its last address.              *)
SkipEntryInclusive ==
    /\ InLoop("overlap")
    /\ c.type = 0 \/ Fin(c) - 1 <= n.base
    /\ Advance
    /\ UNCHANGED m
SkipEntry ==
    /\ InLoop("overlap")
    /\ c.type = 0 \/ Fin(c) <= n.base
    /\ Advance
    /\ UNCHANGED m

(* Two entries for the same block: keep the one of higher type.            *)
DropDuplicate ==
    /\ Clash /\ SameBlock
    /\ m' = Discard(m, IF n.type >= c.type THEN i ELSE i + 1)
    /\ Again

DropShorter ==
    /\ Clash /\ SameBase /\ c.type <= n.type
    /\ m' = Discard(m, i)
    /\ Again

(* The longer entry starts after the shorter one of higher type.           *)
TrimLonger ==
    /\ Clash /\ SameBase /\ c.type > n.type
    /\ m' = SortedFrom([m EXCEPT ![i + 1] =
                           Entry(Fin(c), n.size - c.size, n.type)], i)
    /\ Again

DropTail ==
    /\ Clash /\ SameEnd /\ c.type >= n.type
    /\ m' = Discard(m, i + 1)
    /\ Again

CutBefore(s) == [s EXCEPT ![i].size = n.base - c.base]

TrimToTail ==
    /\ Clash /\ SameEnd /\ c.type < n.type
    /\ m' = CutBefore(m)
    /\ Advance

(* n is of higher type and inside c: what follows n becomes a new entry.   *)
(* Mutant: the room left in the array is not looked at.                    *)
SplitAlways ==
    /\ Clash /\ NextInside /\ n.type > c.type
    /\ m' = SortedFrom(Append(CutBefore(m),
                              Entry(Fin(n), Fin(c) - Fin(n), c.type)), i + 1)
    /\ Advance
Split ==
    /\ Clash /\ NextInside /\ n.type > c.type /\ Len(m) < E820_ENTRIES
    /\ m' = SortedFrom(Append(CutBefore(m),
                              Entry(Fin(n), Fin(c) - Fin(n), c.type)), i + 1)
    /\ Advance

(* There is no room for it: n takes it over.                               *)
(* Mutant: what follows n keeps c's type and n its own size.               *)
SplitNoRoomDropped ==
    /\ Clash /\ NextInside /\ n.type > c.type /\ Len(m) >= E820_ENTRIES
    /\ m' = CutBefore(m)
    /\ Advance
SplitNoRoom ==
    /\ Clash /\ NextInside /\ n.type > c.type /\ Len(m) >= E820_ENTRIES
    /\ m' = [CutBefore(m) EXCEPT ![i + 1].size = Fin(c) - n.base]
    /\ Advance

DropInside ==
    /\ Clash /\ NextInside /\ n.type <= c.type
    /\ m' = Discard(m, i + 1)
    /\ Again

(* n goes beyond c and c is of higher type: n starts after c.  The loop    *)
(* goes on to the next entry, whatever the sort brought to i + 1.          *)
TrimNext ==
    /\ Clash /\ NextBeyond /\ c.type > n.type
    /\ m' = SortedFrom([m EXCEPT ![i + 1] =
                           Entry(Fin(c), Fin(n) - Fin(c), n.type)], i + 1)
    /\ Advance

TrimCurrent ==
    /\ Clash /\ NextBeyond /\ c.type <= n.type
    /\ m' = CutBefore(m)
    /\ Advance

OverlapStep ==
    /\ \/ SkipEntry
       \/ DropDuplicate
       \/ DropShorter \/ TrimLonger
       \/ DropTail \/ TrimToTail
       \/ Split \/ SplitNoRoom \/ DropInside
       \/ TrimNext \/ TrimCurrent
    /\ UNCHANGED <<pc, input>>

OverlapDone ==
    /\ pc = "overlap" /\ i >= Len(m)
    /\ pc' = "coalesce"
    /\ i' = 1
    /\ UNCHANGED <<m, input>>

----------------------------------------------------------------------------
(* e820_coalesce.                                                          *)

Mergeable == Fin(c) = n.base /\ c.type = n.type

Merge ==
    /\ InLoop("coalesce") /\ Mergeable
    /\ m' = Discard([m EXCEPT ![i].size = c.size + n.size], i + 1)
    /\ Again
    /\ UNCHANGED <<pc, input>>

KeepApart ==
    /\ InLoop("coalesce") /\ ~ Mergeable
    /\ Advance
    /\ UNCHANGED <<m, pc, input>>

CoalesceDone ==
    /\ pc = "coalesce" /\ i >= Len(m)
    /\ pc' = "done"
    /\ UNCHANGED <<m, i, input>>

Next == Sort \/ OverlapStep \/ OverlapDone \/ Merge \/ KeepApart \/ CoalesceDone

(* e820_init is straight-line code: it goes on until it returns.           *)
Spec == Init /\ [][Next]_vars /\ WF_vars(Next)

----------------------------------------------------------------------------
(* Properties.                                                             *)

(* The map stays a sequence of regions that are not empty, and the walk    *)
(* over it stays inside the array.                                         *)
TypeOK ==
    /\ m \in Seq([base : Nat, size : Nat \ {0}, type : Nat])
    /\ i \in 1 .. E820_ENTRIES
    /\ pc \in {"sort", "overlap", "coalesce", "done"}

(* The types that a map gives to address a.                                *)
TypesAt(s, a) == {s[k].type : k \in {k \in DOMAIN s :
                                        s[k].base <= a /\ a < Fin(s[k])}}

(* "Entries should have been sorted so next entries is bigger"             *)
(* (e820.c:125): the entry at hand comes before the next one, and where    *)
(* they begin together it is not the longer one.                           *)
InOrder ==
    pc = "overlap" /\ i < Len(m) =>
        c.base < n.base \/ (c.base = n.base /\ c.size <= n.size)

(* The map has the addresses that it had in the beginning, each with a     *)
(* type at least as high, until the last loop ends and leaves it as it is. *)
Spans(e, a) == e.base <= a /\ a < Fin(e)
Covers ==
    pc \in {"overlap", "coalesce"} =>
        /\ \A j \in DOMAIN m : \A a \in m[j].base .. Fin(m[j]) - 1 :
              \E k \in DOMAIN input : Spans(input[k], a)
        /\ \A k \in DOMAIN input : \A a \in input[k].base .. Fin(input[k]) - 1 :
              \E j \in DOMAIN m : Spans(m[j], a) /\ m[j].type >= input[k].type

(* e820_overlap never loses an address of the map, never invents one, and  *)
(* never leaves an address with a lower type than the highest it was given *)
(* (the kernel image and the first page stay reserved): trimming,          *)
(* splitting and discarding only ever give way to a type at least as high, *)
(* also when the array is full and a split is given up.  It is so as long  *)
(* as entries come in the order that the code counts on.  Only a split     *)
(* given up breaks it: the entry that takes over the rest may become       *)
(* longer than one behind it that begins at the same address, and is       *)
(* discarded next.                                                         *)
NeverDowngraded == []InOrder => []Covers

(* Splitting entries never writes behind the array.                        *)
WithinArray == Len(m) <= E820_ENTRIES

Disjoint(s) == \A j, k \in DOMAIN s : j < k => Fin(s[j]) <= s[k].base \/ Fin(s[k]) <= s[j].base

(* If the entries of the BIOS do not overlap each other, only the kernel   *)
(* and the first page do, then the finished map has no overlap at all.     *)
DisjointFirmware ==
    pc = "done" /\ Disjoint(SubSeq(input, 1, Len(input) - 2)) => Disjoint(m)

=============================================================================
