--------------------------- MODULE MCPallocBitmap ---------------------------
(* Small instances of the bitmap allocator for TLC.                        *)
EXTENDS PallocBitmap

CONSTANTS z1Base, z1Size, z2Base, z2Size

MCBlockPages == [j \in Orders |-> 2^j]
MCZoneBase == <<z1Base, z2Base>>
MCZoneSize == <<z1Size, z2Size>>
=============================================================================
