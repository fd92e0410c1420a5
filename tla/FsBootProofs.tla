----------------------------- MODULE FsBootProofs ---------------------------
(***************************************************************************)
(* What fs_init never overwrites, for a partition table of any length and  *)
(* any number of failing sector accesses and boots.                        *)
(***************************************************************************)
EXTENDS FsBoot, Integers, TLAPS

(* Until the first format write the disk is the one the boot found; past   *)
(* each of fs_init's three questions the answer that let it past holds.    *)
Asking == {"off", "probe", "table", "vbr", "foreign", "last"}
Formatting == {"mbr", "bootsector", "backup", "fsinfo", "zero1", "zero2", "fat1",
               "fat2", "root"}
PastMount == pc \in {"foreign", "last"} \cup Formatting \/ back = "format" \/ disk # found
PastForeign == pc \in {"last"} \cup Formatting \/ back = "format" \/ disk # found
PastLength == pc \in Formatting \/ back = "format" \/ disk # found

AnswersInv ==
  /\ pc \in {"table", "vbr"} => back \in {"boot", "format"}
  /\ pc \in {"probe", "foreign", "last"} \cup Formatting => back = "none"
  /\ back = "boot" => pc \in {"table", "vbr"}
  /\ pc \in Asking /\ back # "format" => disk = found
  /\ pc = "vbr" => sig /\ table[1] # Unused
  /\ PastMount => (Mountable(found) => misread)
  /\ PastForeign => (Foreign(found) => blind)
  /\ PastLength => long

LEMMA AnswersInit == Init => AnswersInv
  BY DEF Init, AnswersInv, Asking, Formatting, PastMount, PastForeign, PastLength, disk

LEMMA AnswersStep == AnswersInv /\ [Next]_vars => AnswersInv'
<1> SUFFICES ASSUME AnswersInv, [Next]_vars PROVE AnswersInv'
  OBVIOUS
<1> USE DEF AnswersInv, Asking, Formatting, PastMount, PastForeign, PastLength, disk
<1>1. CASE PowerOn
  BY <1>1 DEF PowerOn
<1>2. CASE Probe
  BY <1>2 DEF Probe, Read, Done, Fail
<1>3. CASE MountTable
  BY <1>3 DEF MountTable, Read, NotMounted, Fail, Mountable, Mounts
<1>4. CASE MountVolume
  <2>1. pc = "vbr" /\ back \in {"boot", "format"} /\ UNCHANGED <<sig, table, vol, long, found, blind>>
    BY <1>4 DEF MountVolume, Read
  <2>2. CASE misread' = TRUE /\ NotMounted
    BY <1>4, <2>1, <2>2 DEF NotMounted
  <2>3. CASE UNCHANGED misread /\ vol[table[1].start].vbr = "fat32" /\ Mounted
    BY <2>1, <2>3 DEF Mounted
  <2>4. CASE UNCHANGED misread /\ vol[table[1].start].vbr # "fat32" /\ NotMounted
    <3>1. ~Mountable(<<sig, table, vol>>)
      BY <2>4 DEF Mountable, Mounts
    <3>2. back = "boot" => ~Mountable(found)
      BY <3>1, <2>1
    <3> QED
      BY <2>1, <2>4, <3>2 DEF NotMounted
  <2> QED
    BY <1>4, <2>2, <2>3, <2>4 DEF MountVolume, Read
<1>5. CASE ForeignVolume
  BY <1>5 DEF ForeignVolume, ForeignHere, Read, Done, Goto, Fail
<1>6. CASE LastSector
  BY <1>6 DEF LastSector, Read, Done, Goto, Fail
<1>7. CASE FormatTable \/ FormatVbr \/ FormatSpare \/ FormatFails
  BY <1>7 DEF FormatTable, FormatVbr, FormatSpare, FormatFails, Written, Goto, Done, Fail
<1>8. CASE \E i \in 1 .. 2 : FormatZero(i) \/ FormatFat(i)
  BY <1>8 DEF FormatZero, FormatFat, Written, Goto
<1>9. CASE FormatRoot
  BY <1>9 DEF FormatRoot
<1>10. CASE Ship
  BY <1>10 DEF Ship, Goto, Fail
<1>11. CASE UNCHANGED vars
  BY <1>11 DEF vars, Mountable, Mounts, Foreign
<1> QED
  BY <1>1, <1>2, <1>3, <1>4, <1>5, <1>6, <1>7, <1>8, <1>9, <1>10, <1>11 DEF Next

(* The answers fs_init acts on hold at every step of every boot. *)
THEOREM AnswersAlways == Spec => []AnswersInv
  BY AnswersInit, AnswersStep, PTL DEF Spec

(* A disk with a partition of another type, in any of its entries, is      *)
(* never written to unless foreign_volume's own read fails.                *)
THEOREM ForeignAlways == Spec => []ForeignKept
<1>1. AnswersInv => ForeignKept
  BY DEF AnswersInv, PastForeign, ForeignKept
<1> QED
  BY <1>1, AnswersAlways, PTL

(* A volume fat32_mount would accept is never reformatted unless one of    *)
(* the boot's reads fails.                                                 *)
THEOREM VolumeAlways == Spec => []VolumeKept
<1>1. AnswersInv => VolumeKept
  BY DEF AnswersInv, PastMount, VolumeKept
<1> QED
  BY <1>1, AnswersAlways, PTL

(* A disk shorter than the build assumes is never written to. *)
THEOREM ShortDiskAlways == Spec => []ShortDiskKept
<1>1. AnswersInv => ShortDiskKept
  BY DEF AnswersInv, PastLength, ShortDiskKept
<1> QED
  BY <1>1, AnswersAlways, PTL

----------------------------------------------------------------------------
(* The types, for every length of table. *)
DiskTypes ==
  /\ sig \in BOOLEAN
  /\ table \in [TableEntries -> EntriesOfTable]
  /\ vol \in [Places -> Volumes]
CountTypes == faults \in 0 .. MaxFaults /\ boots \in 0 .. MaxBoots
FlagTypes ==
  /\ long \in BOOLEAN /\ mounted \in BOOLEAN
  /\ misread \in BOOLEAN /\ blind \in BOOLEAN /\ cut \in BOOLEAN
ControlTypes ==
  /\ shipped \subseteq Programs
  /\ pc \in {"off", "probe", "table", "vbr", "foreign", "last", "mbr", "bootsector",
             "backup", "fsinfo", "zero1", "zero2", "fat1", "fat2", "root",
             "readme", "sokoban", "up"}
  /\ back \in {"none", "boot", "format"}
  /\ status \in {"ABSENT", "MOUNTED", "FOREIGN", "FORMATTED"}

LEMMA TypeParts == TypeOK <=> DiskTypes /\ CountTypes /\ FlagTypes /\ ControlTypes
  BY DEF TypeOK, DiskTypes, CountTypes, FlagTypes, ControlTypes

LEMMA TypeInit == Init => TypeOK
<1> SUFFICES ASSUME Init PROVE DiskTypes /\ CountTypes /\ FlagTypes /\ ControlTypes
  BY TypeParts
<1>1. Whole \in Volumes /\ Alien \in Volumes
  BY DEF Whole, Alien, Volumes
<1>2. DiskTypes
  BY <1>1 DEF Init, DiskTypes
<1>3. CountTypes
  BY BootAssumption DEF Init, CountTypes
<1>4. FlagTypes /\ ControlTypes
  BY DEF Init, FlagTypes, ControlTypes
<1> QED BY <1>2, <1>3, <1>4

LEMMA DiskStep == DiskTypes /\ [Next]_vars => DiskTypes'
<1> SUFFICES ASSUME DiskTypes, [Next]_vars PROVE DiskTypes'
  OBVIOUS
<1> USE DEF DiskTypes
<1>1. CASE UNCHANGED disk
  BY <1>1 DEF disk
<1>2. CASE FormatTable
  BY <1>2 DEF FormatTable, EntriesOfTable, Places
<1>3. CASE FormatVbr
  BY <1>3 DEF FormatVbr, Volumes, Places
<1>4. CASE \E i \in 1 .. 2 : FormatZero(i) \/ FormatFat(i)
  BY <1>4 DEF FormatZero, FormatFat, Volumes, Places
<1>5. CASE FormatRoot
  BY <1>5 DEF FormatRoot, Volumes, Places
<1>6. PowerOn \/ Probe \/ MountTable \/ MountVolume \/ ForeignVolume \/ LastSector
        \/ FormatSpare \/ FormatFails \/ Ship \/ UNCHANGED vars
        => UNCHANGED disk
  BY DEF PowerOn, Probe, MountTable, MountVolume, ForeignVolume, LastSector, FormatSpare,
         FormatFails, Ship, Read, vars
<1> QED BY <1>1, <1>2, <1>3, <1>4, <1>5, <1>6 DEF Next

LEMMA CountStep == CountTypes /\ [Next]_vars => CountTypes'
<1> SUFFICES ASSUME CountTypes, [Next]_vars PROVE CountTypes'
  OBVIOUS
<1>1. CASE PowerOn
  BY <1>1, BootAssumption DEF PowerOn, CountTypes
<1>2. CASE Fail /\ UNCHANGED boots
  BY <1>2, BootAssumption DEF Fail, CountTypes
<1>3. CASE UNCHANGED <<faults, boots>>
  BY <1>3 DEF CountTypes
<1>4. Probe \/ MountTable \/ MountVolume \/ ForeignVolume \/ LastSector
        => (Fail /\ UNCHANGED boots) \/ UNCHANGED <<faults, boots>>
  BY DEF Probe, MountTable, MountVolume, ForeignVolume, LastSector, Read
<1>5. FormatFails \/ Ship => (Fail /\ UNCHANGED boots) \/ UNCHANGED <<faults, boots>>
  BY DEF FormatFails, Ship
<1>6. FormatTable \/ FormatVbr \/ FormatSpare \/ FormatRoot \/ UNCHANGED vars
        \/ (\E i \in 1 .. 2 : FormatZero(i) \/ FormatFat(i))
        => UNCHANGED <<faults, boots>>
  BY DEF FormatTable, FormatVbr, FormatSpare, FormatRoot, FormatZero, FormatFat, Written, vars
<1> QED BY <1>1, <1>2, <1>3, <1>4, <1>5, <1>6 DEF Next

LEMMA FlagStep == FlagTypes /\ [Next]_vars => FlagTypes'
<1> SUFFICES ASSUME FlagTypes, [Next]_vars PROVE FlagTypes'
  OBVIOUS
<1> USE DEF FlagTypes
<1>1. CASE PowerOn
  BY <1>1, Zenon DEF PowerOn
<1>2. CASE Probe \/ MountTable \/ MountVolume \/ LastSector
  BY <1>2, Zenon DEF Probe, MountTable, MountVolume, LastSector, Read, Mounted, NotMounted,
                     Done, Goto
<1>3. CASE ForeignVolume
  BY <1>3, Zenon DEF ForeignVolume, Read, Done, Goto
<1>4. CASE FormatTable \/ FormatVbr \/ FormatSpare \/ FormatFails
  BY <1>4, Zenon DEF FormatTable, FormatVbr, FormatSpare, FormatFails, Written, Goto, Done
<1>5. CASE \E i \in 1 .. 2 : FormatZero(i) \/ FormatFat(i)
  BY <1>5, Zenon DEF FormatZero, FormatFat, Written, Goto
<1>6. CASE FormatRoot
  BY <1>6, Zenon DEF FormatRoot
<1>7. CASE Ship \/ UNCHANGED vars
  BY <1>7, Zenon DEF Ship, Goto, vars
<1> QED BY <1>1, <1>2, <1>3, <1>4, <1>5, <1>6, <1>7 DEF Next

LEMMA ControlStep == ControlTypes /\ [Next]_vars => ControlTypes'
<1> SUFFICES ASSUME ControlTypes, [Next]_vars PROVE ControlTypes'
  OBVIOUS
<1> USE DEF ControlTypes
<1>1. CASE PowerOn
  BY <1>1 DEF PowerOn
<1>2. CASE Probe \/ MountTable \/ MountVolume
  BY <1>2 DEF Probe, MountTable, MountVolume, Read, Mounted, NotMounted, Done
<1>3. CASE ForeignVolume \/ LastSector
  BY <1>3 DEF ForeignVolume, LastSector, Read, Done, Goto
<1>4. CASE FormatTable \/ FormatVbr \/ FormatSpare \/ FormatFails
  BY <1>4 DEF FormatTable, FormatVbr, FormatSpare, FormatFails, Written, Goto, Done
<1>5. CASE \E i \in 1 .. 2 : FormatZero(i) \/ FormatFat(i)
  BY <1>5 DEF FormatZero, FormatFat, Written, Goto
<1>6. CASE FormatRoot
  BY <1>6 DEF FormatRoot, Programs
<1>7. CASE Ship
  BY <1>7 DEF Ship, Goto, Programs
<1>8. CASE UNCHANGED vars
  BY <1>8 DEF vars
<1> QED BY <1>1, <1>2, <1>3, <1>4, <1>5, <1>6, <1>7, <1>8 DEF Next

LEMMA TypeStep == TypeOK /\ [Next]_vars => TypeOK'
<1>1. TypeOK' <=> DiskTypes' /\ CountTypes' /\ FlagTypes' /\ ControlTypes'
  BY DEF TypeOK, DiskTypes, CountTypes, FlagTypes, ControlTypes
<1> QED BY <1>1, TypeParts, DiskStep, CountStep, FlagStep, ControlStep

(* The state of fs_init keeps its types through every boot. *)
THEOREM TypeCorrect == Spec => []TypeOK
  BY TypeInit, TypeStep, PTL DEF Spec

(* What is mounted was accepted by fat32_mount and not written to since,   *)
(* and the status is set where the flag is.  A volume of which fat32_mount *)
(* would accept the boot sector is whole unless a format was cut short;    *)
(* while it runs, it puts the volume together in the order fat32_format    *)
(* writes it.                                                              *)
AtWork == {"bootsector", "backup", "fsinfo", "zero1", "zero2", "fat1", "fat2", "root"}
MountInv ==
  /\ mounted => /\ pc \in {"readme", "sokoban", "up"}
                /\ Mounts(sig, table, vol)
  /\ pc \in {"readme", "sokoban"} => mounted /\ status = "FORMATTED"
  /\ pc = "up" => (mounted <=> status \in {"MOUNTED", "FORMATTED"})
  /\ back = "boot" => pc \in {"table", "vbr"}
  /\ pc \in {"table", "vbr"} => back \in {"boot", "format"}
  /\ pc = "vbr" => sig /\ table[1] # Unused
VolumeInv ==
  /\ vol["other"].vbr = "fat32" => Usable(vol["other"])
  /\ ~cut => (vol["sys"].vbr = "fat32" => Usable(vol["sys"]))
  /\ pc \in AtWork => cut
  /\ pc \in AtWork \ {"bootsector"} => vol["sys"].vbr = "fat32"
  /\ pc \in {"fat2", "root"} => vol["sys"].fat[1] = "root"

LEMMA MountInit == Init => MountInv /\ VolumeInv
  BY DEF Init, MountInv, VolumeInv, AtWork, Whole, Alien, Usable, Places

LEMMA MountStep == TypeOK /\ MountInv /\ [Next]_vars => MountInv'
<1> SUFFICES ASSUME TypeOK, MountInv, [Next]_vars PROVE MountInv'
  OBVIOUS
<1> USE DEF MountInv, disk, Mounts
<1>1. CASE PowerOn
  BY <1>1 DEF PowerOn
<1>2. CASE Probe
  BY <1>2 DEF Probe, Read, Done, Fail
<1>3. CASE MountTable
  BY <1>3 DEF MountTable, Read, NotMounted, Fail
<1>4. CASE MountVolume
  BY <1>4 DEF MountVolume, Read, Mounted, NotMounted, Fail
<1>5. CASE ForeignVolume
  BY <1>5 DEF ForeignVolume, Read, Done, Goto, Fail
<1>6. CASE LastSector
  BY <1>6 DEF LastSector, Read, Done, Goto, Fail
<1>7. CASE FormatTable \/ FormatVbr \/ FormatSpare \/ FormatFails
  BY <1>7 DEF FormatTable, FormatVbr, FormatSpare, FormatFails, Written, Goto, Done, Fail
<1>8. CASE \E i \in 1 .. 2 : FormatZero(i) \/ FormatFat(i)
  BY <1>8 DEF FormatZero, FormatFat, Written, Goto
<1>9. CASE FormatRoot
  BY <1>9 DEF FormatRoot
<1>10. CASE Ship
  BY <1>10 DEF Ship, Goto, Fail
<1>11. CASE UNCHANGED vars
  BY <1>11 DEF vars
<1> QED
  BY <1>1, <1>2, <1>3, <1>4, <1>5, <1>6, <1>7, <1>8, <1>9, <1>10, <1>11 DEF Next

LEMMA VolumeStep == TypeOK /\ VolumeInv /\ [Next]_vars => VolumeInv'
<1> SUFFICES ASSUME TypeOK, VolumeInv, [Next]_vars PROVE VolumeInv'
  OBVIOUS
<1> USE DEF VolumeInv, disk, AtWork
<1>1. CASE PowerOn
  BY <1>1 DEF PowerOn
<1>2. CASE Probe \/ MountTable \/ MountVolume \/ LastSector
  BY <1>2 DEF Probe, MountTable, MountVolume, LastSector, Read, Mounted, NotMounted,
              Done, Goto, Fail
<1>3. CASE ForeignVolume
  BY <1>3 DEF ForeignVolume, Read, Done, Goto, Fail
<1>4. CASE FormatTable \/ FormatSpare \/ FormatFails
  BY <1>4 DEF FormatTable, FormatSpare, FormatFails, Written, Goto, Done, Fail
<1>5. CASE FormatVbr
  BY <1>5 DEF FormatVbr, Written, Goto, TypeOK, Places, Volumes
<1>6. CASE \E i \in 1 .. 2 : FormatZero(i) \/ FormatFat(i)
  <2>1. PICK i \in 1 .. 2 : FormatZero(i) \/ FormatFat(i)
    BY <1>6
  <2>2. /\ vol'["other"] = vol["other"]
        /\ vol'["sys"].vbr = vol["sys"].vbr
    BY <2>1 DEF FormatZero, FormatFat, TypeOK, Places, Volumes
  <2>3. pc' \in {"fat2", "root"} => vol'["sys"].fat[1] = "root"
    BY <2>1 DEF FormatZero, FormatFat, Written, Goto, TypeOK, Places, Volumes
  <2> QED BY <2>1, <2>2, <2>3 DEF FormatZero, FormatFat, Written, Goto, Usable
<1>7. CASE FormatRoot
  <2>1. /\ vol'["other"] = vol["other"]
        /\ vol'["sys"].fat[1] = "root" /\ vol'["sys"].root = "empty"
        /\ vol'["sys"].vbr = "fat32"
    BY <1>7 DEF FormatRoot, TypeOK, Places, Volumes
  <2> QED BY <1>7, <2>1 DEF FormatRoot, Usable
<1>8. CASE Ship
  BY <1>8 DEF Ship, Goto, Fail
<1>9. CASE UNCHANGED vars
  BY <1>9 DEF vars
<1> QED
  BY <1>1, <1>2, <1>3, <1>4, <1>5, <1>6, <1>7, <1>8, <1>9 DEF Next

THEOREM MountAlways == Spec => [](TypeOK /\ MountInv /\ VolumeInv)
  BY TypeInit, TypeStep, MountInit, MountStep, VolumeStep, PTL DEF Spec

(* The status the desktop shows says "mounted" exactly when file calls are *)
(* let through, on every path through mount and format.                    *)
THEOREM StatusAlways == Spec => []StatusAgrees
<1>1. MountInv => StatusAgrees
  BY DEF MountInv, StatusAgrees
<1> QED
  BY <1>1, MountAlways, PTL

(* What is mounted has a FAT and a root directory that belong together,    *)
(* unless a format was begun and not finished.                             *)
THEOREM UsableAlways == Spec => []MountedUsableUnlessCut
<1>1. TypeOK /\ MountInv /\ VolumeInv => MountedUsableUnlessCut
  <2> SUFFICES ASSUME TypeOK, MountInv, VolumeInv, mounted, ~cut
               PROVE  Usable(vol[table[1].start])
    BY DEF MountedUsableUnlessCut
  <2>1. table[1] # Unused /\ vol[table[1].start].vbr = "fat32"
    BY DEF MountInv, Mounts
  <2>2. table[1] \in EntriesOfTable
    BY BootAssumption DEF TypeOK, TableEntries
  <2>3. table[1].start = "sys" \/ table[1].start = "other"
    BY <2>1, <2>2 DEF EntriesOfTable, Places
  <2> QED BY <2>1, <2>3 DEF VolumeInv
<1> QED
  BY <1>1, MountAlways, PTL

----------------------------------------------------------------------------
Layout == INSTANCE VolumeLayout

(* The numbers fat32_format chooses, of a partition of n sectors. *)
LEMMA Sizes ==
  ASSUME NEW n \in Nat, n > 128, n # 161
  PROVE  /\ Layout!FatSectors(n) \in Nat \ {0}
         /\ n - 32 - 2 * Layout!FatSectors(n) >= 1
         /\ n - 32 - 2 * Layout!FatSectors(n) + 2 <= 128 * Layout!FatSectors(n)
BY DEF Layout!FatSectors, Layout!Reserved

(* On a disk of any size that is formatted at all -- but for the one on    *)
(* which the partition has 161 sectors -- the volume's parts do not        *)
(* overlap, no sector the driver computes for a cluster or its FAT entry   *)
(* lies in the system area or past the disk, and each copy of the FAT has  *)
(* an entry of its own for every cluster (fat32_format's sizing,           *)
(* alloc_cluster's range, cluster_lba and fat_entry_set).                  *)
THEOREM FormatIsSound ==
  ASSUME NEW disk1 \in Nat, NEW system \in Nat,
         Layout!Formats(disk1, system), disk1 - system # 161
  PROVE  Layout!Sound(Layout!Made(disk1, system), disk1)
<1> DEFINE n == disk1 - system
           fs == Layout!FatSectors(n)
           v == Layout!Made(disk1, system)
<1>1. n \in Nat /\ n > 128 /\ n # 161
  BY DEF Layout!Formats
<1>2. fs \in Nat \ {0} /\ n - 32 - 2 * fs >= 1 /\ n - 32 - 2 * fs + 2 <= 128 * fs
  BY <1>1, Sizes
<1>3. /\ v.partLba = system /\ v.spc = 1 /\ v.fats = 2 /\ v.fatSectors = fs /\ v.root = 2
      /\ v.fatLba = system + 32 /\ v.dataLba = system + 32 + 2 * fs
      /\ v.clusters = n - 32 - 2 * fs
  <2> HIDE DEF fs
  <2>1. v = Layout!Volume(system, n, 32, 1, 2, fs, 2)
    BY DEF Layout!Made, Layout!Reserved, fs
  <2> HIDE DEF v
  <2> QED BY <1>1, <1>2, <2>1 DEF Layout!Volume
<1> HIDE DEF v, fs, n
<1>4. ASSUME NEW c \in Layout!Allocatable(v)
      PROVE  /\ v.dataLba <= Layout!ClusterLba(v, c) /\ Layout!ClusterLba(v, c) + v.spc <= disk1
             /\ \A copy \in 0 .. v.fats - 1 :
                  /\ v.fatLba + copy * v.fatSectors <= Layout!FatLba(v, copy, c)
                  /\ Layout!FatLba(v, copy, c) < v.fatLba + (copy + 1) * v.fatSectors
  <2>1. c \in Int /\ 2 <= c /\ c <= n - 32 - 2 * fs + 1 /\ c < 128 * fs
    BY <1>1, <1>2, <1>3, <1>4 DEF Layout!Allocatable
  <2>2. (4 * c) \div 512 \in Int /\ 0 <= (4 * c) \div 512 /\ (4 * c) \div 512 < fs
    BY <1>2, <2>1
  <2>3. Layout!ClusterLba(v, c) = system + 32 + 2 * fs + (c - 2)
    BY <1>2, <1>3, <2>1 DEF Layout!ClusterLba
  <2>4. disk1 = system + n
    BY DEF n
  <2>5. \A copy \in 0 .. v.fats - 1 : copy = 0 \/ copy = 1
    BY <1>3
  <2>6. \A copy \in {0, 1} :
          /\ v.fatLba + copy * v.fatSectors <= Layout!FatLba(v, copy, c)
          /\ Layout!FatLba(v, copy, c) < v.fatLba + (copy + 1) * v.fatSectors
    BY <1>2, <1>3, <2>2 DEF Layout!FatLba
  <2> QED BY <1>1, <1>2, <1>3, <2>1, <2>3, <2>4, <2>5, <2>6
<1>5. v.fatLba > v.partLba /\ v.dataLba = v.fatLba + v.fats * v.fatSectors
  BY <1>2, <1>3
<1>6. v.root \in Layout!Allocatable(v)
  BY <1>1, <1>2, <1>3 DEF Layout!Allocatable
<1> QED BY <1>4, <1>5, <1>6 DEF Layout!Sound, v
=============================================================================
