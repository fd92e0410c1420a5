---------------------------- MODULE VolumeLayout ----------------------------
(***************************************************************************)
(* Where fs/fat32.c puts things: the numbers fat32_format writes into the  *)
(* partition table and the boot sector, how fat32_mount reads them back,   *)
(* and the sectors the driver computes from them.  Sizes are of disks on   *)
(* which no product of the code leaves 32 bits.                            *)
(***************************************************************************)
EXTENDS Integers

(* put16, put32, and single bytes: a field of a sector, lowest byte first. *)
Field(at, width, value) == [at |-> at, width |-> width, value |-> value]
Bytes(fields) ==
  [i \in 0 .. 511 |->
     IF \E f \in fields : f.at <= i /\ i < f.at + f.width
     THEN LET f == CHOOSE f \in fields : f.at <= i /\ i < f.at + f.width
          IN  (f.value \div 256 ^ (i - f.at)) % 256
     ELSE 0]

(* get16, get32 *)
Get(sector, at, width) ==
  LET sum[n \in 0 .. width] ==
        IF n = 0 THEN 0 ELSE 256 * sum[n - 1] + sector[at + width - n]
  IN  sum[width]

----------------------------------------------------------------------------
(* fat32_format, of a disk with a system area in front. *)
Reserved == 32
Formats(disk, system) == disk > system + 128

(* "Sizing rule from the FAT specification." *)
FatSectors(part) == (part - Reserved + 128) \div 129

Table(disk, system) ==
  Bytes({Field(446, 1, 128), Field(447, 1, 1), Field(448, 1, 1), Field(450, 1, 12),
         Field(451, 1, 254), Field(452, 1, 255), Field(453, 1, 255),
         Field(454, 4, system), Field(458, 4, disk - system),
         Field(510, 1, 85), Field(511, 1, 170)})

(* The names and the volume id are left out. *)
BootSector(disk, system) ==
  Bytes({Field(11, 2, 512), Field(13, 1, 1), Field(14, 2, Reserved), Field(16, 1, 2),
         Field(17, 2, 0), Field(19, 2, 0), Field(21, 1, 248), Field(22, 2, 0),
         Field(24, 2, 63), Field(26, 2, 255),
         Field(28, 4, system), Field(32, 4, disk - system),
         Field(36, 4, FatSectors(disk - system)), Field(40, 2, 0), Field(42, 2, 0),
         Field(44, 4, 2), Field(48, 2, 1), Field(50, 2, 6),
         Field(64, 1, 128), Field(66, 1, 41),
         Field(510, 1, 85), Field(511, 1, 170)})

(* The volume such a format makes: fat32_fs. *)
Volume(partLba, part, reserved, spc, fats, fatSectors, root) ==
  [partLba |-> partLba, spc |-> spc, fats |-> fats, fatSectors |-> fatSectors, root |-> root,
   fatLba |-> partLba + reserved,
   dataLba |-> partLba + reserved + fats * fatSectors,
   clusters |-> (part - reserved - fats * fatSectors) \div spc]
Made(disk, system) ==
  Volume(system, disk - system, Reserved, 1, 2, FatSectors(disk - system), 2)

(* fat32_mount, of the two sectors it reads: what keeps it from mounting,  *)
(* and the volume it mounts.                                               *)
Signed(s) == s[510] = 85 /\ s[511] = 170
TableOK(t) == Signed(t) /\ Get(t, 454, 4) # 0 /\ Get(t, 458, 4) # 0
BootOK(b) ==
  /\ Signed(b) /\ Get(b, 11, 2) = 512 /\ Get(b, 22, 2) = 0
  /\ b[13] # 0 /\ Get(b, 36, 4) # 0 /\ b[16] # 0 /\ Get(b, 44, 4) >= 2
Mounted(t, b) ==
  Volume(Get(t, 454, 4), Get(t, 458, 4), Get(b, 14, 2), b[13], b[16],
         Get(b, 36, 4), Get(b, 44, 4))

----------------------------------------------------------------------------
(* fat_entry_get and fat_entry_set: the sector of a cluster's entry in a   *)
(* copy of the FAT; cluster_lba: a cluster's first sector.                 *)
FatLba(v, copy, c) == v.fatLba + copy * v.fatSectors + (4 * c) \div 512
ClusterLba(v, c) == v.dataLba + (c - 2) * v.spc

(* alloc_cluster's range. *)
Allocatable(v) == 2 .. v.clusters + 1

----------------------------------------------------------------------------
(* fat32_mount takes what fat32_format wrote, and for what it was. *)
MountReadsFormat(disk, system) ==
  LET t == Table(disk, system)
      b == BootSector(disk, system)
  IN  TableOK(t) /\ BootOK(b) /\ Mounted(t, b) = Made(disk, system)

(* No cluster and no FAT sector lies in the system area or past the disk,  *)
(* the parts of the volume do not overlap, and each copy of the FAT has an *)
(* entry of its own for every cluster that may be allocated.               *)
Sound(v, disk) ==
  /\ v.fatLba > v.partLba
  /\ v.dataLba = v.fatLba + v.fats * v.fatSectors
  /\ v.root \in Allocatable(v)
  /\ \A c \in Allocatable(v) :
       /\ v.dataLba <= ClusterLba(v, c) /\ ClusterLba(v, c) + v.spc <= disk
       /\ \A copy \in 0 .. v.fats - 1 :
            /\ v.fatLba + copy * v.fatSectors <= FatLba(v, copy, c)
            /\ FatLba(v, copy, c) < v.fatLba + (copy + 1) * v.fatSectors
=============================================================================
