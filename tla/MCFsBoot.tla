------------------------------ MODULE MCFsBoot ------------------------------
(***************************************************************************)
(* A table of two entries, every disk a user may bring, three boots, and   *)
(* up to two failing sector accesses.                                      *)
(***************************************************************************)
EXTENDS FsBoot

Layout == INSTANCE VolumeLayout

(* The disk the project ships, and every size from the least that is       *)
(* formatted past the third FAT sector.                                    *)
ShippedDisk == <<20480, 2048>>
SmallDisks == {<<2048 + n, 2048>> : n \in 129 .. 450}

ASSUME FormatMounts ==
  \A d \in {ShippedDisk, <<129 + 128, 128>>, <<70000, 2048>>, <<2000000, 2048>>} :
    Layout!MountReadsFormat(d[1], d[2])

(* One size in the range is an exception: a partition of 161 sectors has   *)
(* 127 clusters, numbered to 128, and one FAT sector of 128 entries.       *)
ASSUME FormatIsSound ==
  \A d \in SmallDisks :
    Layout!Sound(Layout!Made(d[1], d[2]), d[1]) <=> d[1] - d[2] # 161
=============================================================================
