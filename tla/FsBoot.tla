------------------------------- MODULE FsBoot -------------------------------
(***************************************************************************)
(* The boot's decision about the disk: fs_init of fs/fat32_disk.c with     *)
(* fat32_mount and fat32_format of fs/fat32.c, one step per sector access, *)
(* any of which may fail, and the power allowed to go between two of them. *)
(*                                                                         *)
(* A disk is its partition table and what begins at each of two places:    *)
(* Sys, where format() puts its partition, and Other.  Of a volume the     *)
(* boot sector, the two FATs and the root directory are told apart; the    *)
(* backup boot sector and FSInfo are written and never read.               *)
(***************************************************************************)
EXTENDS Naturals, FiniteSets

CONSTANTS
  LastEntry,    \* partition table entries (4 in a master boot record)
  MaxFaults,    \* bound: sector accesses that fail
  MaxBoots      \* bound: times the power comes on

ASSUME BootAssumption ==
  /\ LastEntry \in Nat \ {0}
  /\ MaxFaults \in Nat /\ MaxBoots \in Nat

TableEntries == 1 .. LastEntry
Places == {"sys", "other"}
Programs == {"README.TXT", "SOKOBAN.WSM"}

VARIABLES
  sig,       \* sector 0 carries 0x55 0xAA
  table,     \* the partition table
  vol,       \* what begins at each place
  long,      \* sector FS_DISK_SECTORS - 1 exists
  shipped,   \* the files fs_init wrote to the volume it made
  pc, back,  \* where fs_init is; where fat32_mount returns to
  mounted,   \* g_fs.mounted
  status,    \* g_status
  found,     \* history: the disk as this boot found it
  misread,   \* history: a sector read of this boot failed
  blind,     \* history: ... the one foreign_volume makes
  cut,       \* history: a format was begun and not finished
  faults, boots

disk == <<sig, table, vol>>
vars == <<disk, long, shipped, pc, back, mounted, status, found, misread,
          blind, cut, faults, boots>>

Unused == [type |-> "none", start |-> "none"]
EntriesOfTable == {Unused} \cup [type : {"fat32", "foreign"}, start : Places]

Whole == [vbr |-> "fat32", fat |-> <<"files", "files">>, root |-> "files"]
Alien == [vbr |-> "alien", fat |-> <<"junk", "junk">>, root |-> "junk"]
Volumes ==
  [vbr : {"fat32", "alien"}, root : {"files", "junk", "empty"},
   fat : {"files", "junk", "zero", "root"} \X {"files", "junk", "zero", "root"}]

(* A volume the driver can use: its FAT and its root directory belong      *)
(* together.                                                               *)
Usable(v) ==
  v.vbr = "fat32" /\ \/ v.fat[1] = "files" /\ v.root = "files"
                     \/ v.fat[1] = "root" /\ v.root = "empty"

(* What fat32_mount looks at: the first table entry, its type apart, and   *)
(* the boot sector it points to.                                           *)
Mounts(sg, tb, vl) ==
  sg /\ tb[1] # Unused /\ vl[tb[1].start].vbr = "fat32"
Mountable(d) == Mounts(d[1], d[2], d[3])
Foreign(d) == d[1] /\ \E e \in TableEntries : d[2][e].type = "foreign"

(* Every table and every volume a user may have put on the disk: two       *)
(* entries never name one place, and a FAT32 boot sector has a whole       *)
(* volume behind it.                                                       *)
Init ==
  /\ sig \in BOOLEAN
  /\ table \in [TableEntries -> EntriesOfTable]
  /\ \A d, e \in TableEntries :
       table[d].start = table[e].start /\ table[d] # Unused => d = e
  /\ vol \in [Places -> {Whole, Alien}]
  /\ long \in BOOLEAN
  /\ shipped = {}
  /\ pc = "off" /\ back = "none"
  /\ mounted = FALSE /\ status = "ABSENT"
  /\ found = disk
  /\ misread = FALSE /\ blind = FALSE /\ cut = FALSE
  /\ faults = 0 /\ boots = 0

----------------------------------------------------------------------------
Fail == faults < MaxFaults /\ faults' = faults + 1

Goto(p) == pc' = p /\ UNCHANGED <<back, mounted, status>>
Done(s) == pc' = "up" /\ status' = s /\ UNCHANGED <<back, mounted>>

(* A sector read: what the code does with the sector, and without it. *)
Read(WhenRead, WhenNot) ==
  /\ \/ WhenRead /\ UNCHANGED <<misread, faults>>
     \/ WhenNot /\ misread' = TRUE /\ Fail
  /\ UNCHANGED <<disk, long, shipped, found, cut, boots>>

(* The power comes on: memory is zero, the disk as it was left. *)
PowerOn ==
  /\ boots < MaxBoots
  /\ boots' = boots + 1
  /\ pc' = "probe" /\ back' = "none"
  /\ mounted' = FALSE /\ status' = "ABSENT"
  /\ found' = disk
  /\ misread' = FALSE /\ blind' = FALSE
  /\ UNCHANGED <<disk, long, shipped, cut, faults>>

(* fs_init's first read tells whether there is a disk. *)
Probe ==
  /\ pc = "probe"
  /\ Read(pc' = "table" /\ back' = "boot" /\ UNCHANGED <<mounted, status>>, Done("ABSENT"))
  /\ UNCHANGED blind

(* fat32_mount returns: 1 with the volume mounted, 0 with it not.  Its two *)
(* callers are fs_init, which then asks whose disk it is, and fat32_format.*)
Mounted ==
  /\ mounted' = TRUE /\ back' = "none"
  /\ IF back = "boot" THEN pc' = "up" /\ status' = "MOUNTED"
                      ELSE pc' = "readme" /\ status' = "FORMATTED"

(* Mutant of NotMounted: fat32_format does not look at the final mount. *)
FormatIgnoresMount ==
  /\ mounted' = FALSE /\ back' = "none"
  /\ IF back = "boot" THEN pc' = "foreign" /\ UNCHANGED status
                      ELSE pc' = "readme" /\ status' = "FORMATTED"

NotMounted ==
  /\ mounted' = FALSE /\ back' = "none"
  /\ IF back = "boot" THEN pc' = "foreign" /\ UNCHANGED status
                      ELSE pc' = "up" /\ status' = "ABSENT"

(* Mutant of MountTable: a table with a second partition is refused. *)
MountSingleOnly ==
  /\ pc = "table"
  /\ Read(IF sig /\ table[1] # Unused /\ Cardinality({e \in TableEntries : table[e] # Unused}) = 1
            THEN pc' = "vbr" /\ mounted' = FALSE /\ UNCHANGED <<back, status>>
            ELSE NotMounted,
          NotMounted)
  /\ UNCHANGED blind

MountTable ==
  /\ pc = "table"
  /\ Read(IF sig /\ table[1] # Unused
            THEN pc' = "vbr" /\ mounted' = FALSE /\ UNCHANGED <<back, status>>
            ELSE NotMounted,
          NotMounted)
  /\ UNCHANGED blind

MountVolume ==
  /\ pc = "vbr"
  /\ Read(IF vol[table[1].start].vbr = "fat32" THEN Mounted ELSE NotMounted,
          NotMounted)
  /\ UNCHANGED blind

(* Mutant of ForeignHere: only the first entry is looked at. *)
ForeignFirst == sig /\ table[1].type = "foreign"

(* foreign_volume: a partition of some other type, in any entry.  A read   *)
(* that fails answers "not foreign".                                       *)
ForeignHere == Foreign(disk)

ForeignVolume ==
  /\ pc = "foreign"
  /\ Read(blind' = FALSE /\ IF ForeignHere THEN Done("FOREIGN") ELSE Goto("last"),
          blind' = TRUE /\ Goto("last"))

(* Mutant of LastSector: a read that fails is not taken for an answer. *)
LastSectorTaken ==
  /\ pc = "last"
  /\ Read(Goto("mbr"), Goto("mbr"))
  /\ UNCHANGED blind

(* The last sector has to be there: the size is a constant of the build. *)
LastSector ==
  /\ pc = "last"
  /\ Read(IF long THEN Goto("mbr") ELSE Done("ABSENT"), Done("ABSENT"))
  /\ UNCHANGED blind

----------------------------------------------------------------------------
(* fat32_format, one step per sector; the zeroing of a FAT is one step,    *)
(* its first sector being the one that matters.                            *)

Written(next) ==
  /\ Goto(next)
  /\ UNCHANGED <<long, shipped, found, misread, blind, faults, boots>>

FormatTable ==
  /\ pc = "mbr"
  /\ sig' = TRUE
  /\ table' = [e \in TableEntries |->
                 IF e = 1 THEN [type |-> "fat32", start |-> "sys"] ELSE Unused]
  /\ cut' = TRUE
  /\ Written("bootsector")
  /\ UNCHANGED vol

(* The new boot sector; FATs and a root directory that lay where it says   *)
(* (an earlier format of this build put them there) are still what they    *)
(* were.                                                                   *)
FormatVbr ==
  /\ pc = "bootsector"
  /\ vol' = [vol EXCEPT !["sys"].vbr = "fat32"]
  /\ Written("backup")
  /\ UNCHANGED <<sig, table, cut>>

(* The backup boot sector, then FSInfo. *)
FormatSpare ==
  /\ pc \in {"backup", "fsinfo"}
  /\ Written(IF pc = "backup" THEN "fsinfo" ELSE "zero1")
  /\ UNCHANGED <<disk, cut>>

FormatZero(i) ==
  /\ pc = IF i = 1 THEN "zero1" ELSE "zero2"
  /\ vol' = [vol EXCEPT !["sys"].fat[i] = "zero"]
  /\ Written(IF i = 1 THEN "zero2" ELSE "fat1")
  /\ UNCHANGED <<sig, table, cut>>

(* Mutant of FormatFat: the FATs' first sectors are left zeroed. *)
FormatFatZero(i) ==
  /\ pc = IF i = 1 THEN "fat1" ELSE "fat2"
  /\ Written(IF i = 1 THEN "fat2" ELSE "root")
  /\ UNCHANGED <<disk, cut>>

FormatFat(i) ==
  /\ pc = IF i = 1 THEN "fat1" ELSE "fat2"
  /\ vol' = [vol EXCEPT !["sys"].fat[i] = "root"]
  /\ Written(IF i = 1 THEN "fat2" ELSE "root")
  /\ UNCHANGED <<sig, table, cut>>

(* The root directory, and fat32_format ends in fat32_mount. *)
FormatRoot ==
  /\ pc = "root"
  /\ vol' = [vol EXCEPT !["sys"].root = "empty"]
  /\ cut' = FALSE
  /\ shipped' = {}
  /\ pc' = "table" /\ back' = "format"
  /\ UNCHANGED <<sig, table, long, mounted, status, found, misread, blind, faults, boots>>

FormatFails ==
  /\ pc \in {"mbr", "bootsector", "backup", "fsinfo", "zero1", "zero2", "fat1", "fat2", "root"}
  /\ Fail
  /\ Done("ABSENT")
  /\ UNCHANGED <<disk, long, shipped, found, misread, blind, cut, boots>>

(* The two files of a first boot; fs_init ignores whether they could be    *)
(* written (each write is a call of the driver specified in Fat32).        *)
Ship ==
  /\ pc \in {"readme", "sokoban"}
  /\ \/ shipped' = shipped \cup {IF pc = "readme" THEN "README.TXT" ELSE "SOKOBAN.WSM"}
        /\ UNCHANGED faults
     \/ Fail /\ UNCHANGED shipped
  /\ Goto(IF pc = "readme" THEN "sokoban" ELSE "up")
  /\ UNCHANGED <<disk, long, found, misread, blind, cut, boots>>

Next ==
  \/ PowerOn
  \/ Probe \/ MountTable \/ MountVolume \/ ForeignVolume \/ LastSector
  \/ FormatTable \/ FormatVbr \/ FormatSpare
  \/ \E i \in 1 .. 2 : FormatZero(i) \/ FormatFat(i)
  \/ FormatRoot \/ FormatFails
  \/ Ship

Spec == Init /\ [][Next]_vars

----------------------------------------------------------------------------
TypeOK ==
  /\ sig \in BOOLEAN
  /\ table \in [TableEntries -> EntriesOfTable]
  /\ vol \in [Places -> Volumes]
  /\ long \in BOOLEAN
  /\ shipped \subseteq Programs
  /\ pc \in {"off", "probe", "table", "vbr", "foreign", "last", "mbr", "bootsector",
             "backup", "fsinfo", "zero1", "zero2", "fat1", "fat2", "root",
             "readme", "sokoban", "up"}
  /\ back \in {"none", "boot", "format"}
  /\ mounted \in BOOLEAN
  /\ status \in {"ABSENT", "MOUNTED", "FOREIGN", "FORMATTED"}
  /\ misread \in BOOLEAN /\ blind \in BOOLEAN /\ cut \in BOOLEAN
  /\ faults \in 0 .. MaxFaults /\ boots \in 0 .. MaxBoots

(* A disk with a partition of another type in any entry is not written to, *)
(* whatever reads fail -- unless the failing read is foreign_volume's own, *)
(* which then answers "not foreign".                                       *)
ForeignKept == Foreign(found) /\ ~blind => disk = found

(* A volume the boot could have mounted is not reformatted unless one of   *)
(* this boot's reads failed: fat32_mount's 0 means "could not read" and    *)
(* "not a volume" alike.                                                   *)
VolumeKept == Mountable(found) /\ ~misread => disk = found

(* A disk shorter than the size the build assumes is never written to. *)
ShortDiskKept == ~long => disk = found

(* The status the desktop shows and the flag every file operation tests    *)
(* agree once the boot is over, on every path through mount and format.    *)
StatusAgrees ==
  pc = "up" => (mounted <=> status \in {"MOUNTED", "FORMATTED"})

(* "1 if a usable volume was found" (fat32.h): what is mounted has a FAT   *)
(* and a root directory that belong together -- unless a format was begun  *)
(* and not finished, which leaves a boot sector the next boot accepts.     *)
MountedUsableUnlessCut ==
  mounted /\ ~cut => Usable(vol[table[1].start])

(* "formats it only if there is plainly nothing to lose" (fat32_disk.c):   *)
(* a disk that is written to had no whole FAT32 volume in its table.       *)
NothingToLose ==
  disk # found =>
    ~(found[1] /\ \E e \in TableEntries :
         found[2][e] # Unused /\ found[3][found[2][e].start] = Whole)
=============================================================================
