-------------------------------- MODULE Fat32 -------------------------------
(***************************************************************************)
(* The FAT32 driver of fs/fat32.c on a mounted volume: write (create and   *)
(* replace) and delete, one step per sector written, with any sector read  *)
(* or write allowed to fail and the power allowed to go between two steps. *)
(*                                                                         *)
(* Sectors are abstracted to what the driver tells apart: the FAT copies   *)
(* are functions from clusters to entries, the root directory is its one   *)
(* cluster of slots, a data cluster holds one block (format() makes one    *)
(* sector per cluster).  A sector write happens whole or not at all.       *)
(***************************************************************************)
EXTENDS Integers, Sequences, FiniteSets

CONSTANTS
  Names,        \* packed 8.3 names (fat32_pack_name's results)
  NoName,       \* the name field of a slot that names nothing
  Blocks,       \* what one data cluster may hold
  Blank,        \* a cluster nothing was ever written to
  Contents,     \* the file bodies a program may save, sequences of blocks
  LastCluster,  \* cluster_count + 1, the highest cluster number
  RootCluster,  \* fs->root_cluster
  LastSlot,     \* the root directory's last slot: it is never extended
  FatCount,     \* fs->fat_count
  Nobody,       \* history: the owner of a cluster no file uses
  Writer,       \* history: the owner of a chain under construction
  MaxFaults,    \* bound: sector reads and writes that fail
  MaxCrashes    \* bound: power losses

Clusters == 2 .. LastCluster
Slots == 0 .. LastSlot
Copies == 1 .. FatCount

Free == 0
Eoc == 268435455        \* 0x0FFFFFFF, the end of chain alloc_cluster writes
EocMin == 268435448     \* 0x0FFFFFF8, where the end of chain marks begin
Bad == 268435447        \* 0x0FFFFFF7, what fat_entry_get makes of a failed read

ASSUME VolumeAssumption ==
  /\ LastCluster \in Nat /\ LastCluster < Bad
  /\ RootCluster \in Clusters
  /\ LastSlot \in Nat
  /\ FatCount \in Nat \ {0}
ASSUME DataAssumption ==
  /\ Blank \notin Blocks
  /\ NoName \notin Names
  /\ Contents \subseteq Seq(Blocks)
ASSUME OwnerAssumption ==
  /\ Nobody \notin Slots /\ Writer \notin Slots /\ Nobody # Writer
ASSUME BoundAssumption == MaxFaults \in Nat /\ MaxCrashes \in Nat

VARIABLES
  fat,       \* the FAT copies
  dir,       \* the root directory's slots
  data,      \* the data clusters
  pc,        \* where the running call is; "idle" between calls
  op, name, body,    \* the call: fat32_write_file or fat32_delete_file
  slot,      \* its directory slot
  cl, nxt,   \* the cluster being freed or allocated, and its successor
  copy,      \* fat_entry_set's loop over the FAT copies
  first, prev, written,   \* fat32_write_file's locals
  reply,     \* what the last call returned
  released,  \* history: the slot's listed file has had a cluster freed
  owner,     \* history: the slot, or the running write, a cluster belongs to
  hurt,      \* history: what went wrong so far
  faults, crashes

disk == <<fat, dir, data>>
call == <<op, name, body>>
regs == <<slot, cl, nxt, copy, first, prev, written>>
history == <<released, owner, hurt>>
vars == <<disk, pc, call, regs, reply, history, faults, crashes>>

EndSlot == [state |-> "end", name |-> NoName, first |-> 0, size |-> 0]
DeletedSlot == [state |-> "deleted", name |-> NoName, first |-> 0, size |-> 0]
FileSlot(n, f, k) == [state |-> "file", name |-> n, first |-> f, size |-> k]
Entries == [state : {"end", "deleted", "file"}, name : Names \cup {NoName},
            first : {0} \cup Clusters, size : Nat]

(* Mutant of Init: the root directory's cluster is not marked as in use. *)
InitRootUnmarked ==
  /\ fat = [i \in Copies |-> [c \in Clusters |-> Free]]
  /\ dir = [s \in Slots |-> EndSlot]
  /\ data = [c \in Clusters |-> Blank]
  /\ pc = "idle" /\ op = "none" /\ name = NoName /\ body = << >>
  /\ slot = 0 /\ cl = 0 /\ nxt = 0 /\ copy = 1
  /\ first = 0 /\ prev = 0 /\ written = 0
  /\ reply = "none" /\ released = FALSE /\ hurt = {}
  /\ owner = [c \in Clusters |-> Nobody]
  /\ faults = 0 /\ crashes = 0

(* A volume fat32_format has just made: the root cluster is the only one   *)
(* in use, and its directory is empty.                                     *)
Init ==
  /\ fat = [i \in Copies |-> [c \in Clusters |-> IF c = RootCluster THEN Eoc ELSE Free]]
  /\ dir = [s \in Slots |-> EndSlot]
  /\ data = [c \in Clusters |-> Blank]
  /\ pc = "idle" /\ op = "none" /\ name = NoName /\ body = << >>
  /\ slot = 0 /\ cl = 0 /\ nxt = 0 /\ copy = 1
  /\ first = 0 /\ prev = 0 /\ written = 0
  /\ reply = "none"
  /\ released = FALSE
  /\ owner = [c \in Clusters |-> Nobody]
  /\ hurt = {}
  /\ faults = 0 /\ crashes = 0

----------------------------------------------------------------------------
(* An I/O in a step either works or fails; failures are counted. *)
Io(failed) ==
  IF failed THEN faults < MaxFaults /\ faults' = faults + 1
            ELSE UNCHANGED faults

(* root_slot_read stops at the first slot that was never used. *)
Visible(s) == \A t \in 0 .. s : dir[t].state # "end"
Hit(s, n) == dir[s].state = "file" /\ dir[s].name = n /\ Visible(s)
FirstHit(s, n) == Hit(s, n) /\ \A t \in Slots : Hit(t, n) => s <= t
Listed(n) == \E s \in Slots : Hit(s, n)

Reusable(s) == dir[s].state \in {"end", "deleted"}
FirstReusable(s) == Reusable(s) /\ \A t \in Slots : Reusable(t) => s <= t

(* The loop test of free_chain and fat32_read_file.  Bad passes it, but    *)
(* its FAT entry is off a disk this small, so free_chain changes nothing   *)
(* more and spins to its guard.  (A file read over such a failure is       *)
(* Files.OpenFails; ReadBack is a read in which nothing fails.)            *)
InChain(c) == c \in Clusters

Reset ==
  /\ pc' = "idle" /\ op' = "none" /\ name' = NoName /\ body' = << >>
  /\ slot' = 0 /\ cl' = 0 /\ nxt' = 0 /\ copy' = 1
  /\ first' = 0 /\ prev' = 0 /\ written' = 0
  /\ released' = FALSE

Return(r) == reply' = r /\ Reset

(* What a call that stops before its directory write leaves behind. *)
Unmirrored == pc \in {"clear", "claim", "link"} /\ copy > 1
AbortWounds ==
     (IF released THEN {"cutRelease"} ELSE {})
  \cup (IF first # 0 \/ (pc = "claim" /\ copy > 1) THEN {"leak"} ELSE {})
  \cup (IF Unmirrored THEN {"mirror"} ELSE {})

Abort(r) ==
  /\ hurt' = hurt \cup AbortWounds
  /\ owner' = [c \in Clusters |-> IF owner[c] = Writer THEN Nobody ELSE owner[c]]
  /\ Return(r)
  /\ UNCHANGED disk

----------------------------------------------------------------------------
(* Calls.  A call is only made between calls: the kernel has one thread    *)
(* and no interrupt handler touches the disk.                              *)

CallWrite(n, b) ==
  /\ pc = "idle"
  /\ pc' = "lookup" /\ op' = "write" /\ name' = n /\ body' = b
  /\ reply' = "none"
  /\ UNCHANGED <<disk, regs, history, faults, crashes>>

CallDelete(n) ==
  /\ pc = "idle"
  /\ pc' = "lookup" /\ op' = "delete" /\ name' = n /\ body' = << >>
  /\ reply' = "none"
  /\ UNCHANGED <<disk, regs, history, faults, crashes>>

(* Where a call goes once nothing is left to free. *)
AfterRelease ==
  IF op = "delete" THEN "mark" ELSE IF body = << >> THEN "entry" ELSE "alloc"

(* find_entry hits: the file's chain, if it has one, is released first. *)
LookupHit(s) ==
  /\ pc = "lookup" /\ FirstHit(s, name)
  /\ slot' = s
  /\ IF dir[s].first >= 2
       THEN pc' = "next" /\ cl' = dir[s].first
       ELSE pc' = AfterRelease /\ cl' = 0
  /\ UNCHANGED <<disk, call, nxt, copy, first, prev, written, reply, history, faults, crashes>>

(* find_entry misses, or a sector read fails and it takes that for a miss. *)
Missed(blind) == (blind \/ ~Listed(name)) /\ Io(blind)
MissWound(blind) == IF blind /\ Listed(name) THEN {"blindLookup"} ELSE {}

(* Mutant of LookupNewSlot: a write does not look for an existing entry. *)
AppendAlways(s) ==
  /\ pc = "lookup" /\ op = "write" /\ FirstReusable(s)
  /\ slot' = s
  /\ pc' = AfterRelease
  /\ UNCHANGED <<disk, call, cl, nxt, copy, first, prev, written, reply,
                 history, faults, crashes>>

LookupNewSlot(s) ==
  /\ pc = "lookup" /\ op = "write" /\ FirstReusable(s)
  /\ \E blind \in BOOLEAN :
       Missed(blind) /\ hurt' = hurt \cup MissWound(blind)
  /\ slot' = s
  /\ pc' = AfterRelease
  /\ UNCHANGED <<disk, call, cl, nxt, copy, first, prev, written, reply,
                 released, owner, crashes>>

(* The directory is full, one of its reads fails, or a delete finds nothing. *)
LookupRefused ==
  /\ pc = "lookup"
  /\ \E blind \in BOOLEAN :
       /\ Missed(blind)
       /\ op = "write" /\ ~blind => \A s \in Slots : ~Reusable(s)
  /\ Abort("fail")
  /\ UNCHANGED crashes

----------------------------------------------------------------------------
(* free_chain: read the next link, then clear the entry in every copy. *)

FreeNext ==
  /\ pc = "next"
  /\ \E failed \in BOOLEAN :
       /\ Io(failed)
       /\ nxt' = IF failed THEN Bad ELSE fat[1][cl]
       /\ hurt' = hurt \cup IF failed /\ InChain(fat[1][cl]) THEN {"leak"} ELSE {}
  /\ pc' = "clear" /\ copy' = 1
  /\ UNCHANGED <<disk, call, slot, cl, first, prev, written, reply, released, owner, crashes>>

(* Mutant of FreeAdvance: only the first cluster of a chain is freed. *)
FreeFirstOnly ==
  copy' = 1 /\ pc' = AfterRelease /\ cl' = 0 /\ nxt' = 0

FreeAdvance ==
  /\ copy' = 1
  /\ IF InChain(nxt) THEN pc' = "next" /\ cl' = nxt
                     ELSE pc' = AfterRelease /\ cl' = 0
  /\ nxt' = 0

FreeClear ==
  /\ pc = "clear"
  /\ Io(FALSE)
  /\ fat' = [fat EXCEPT ![copy][cl] = Free]
  /\ released' = TRUE
  /\ IF copy < FatCount
       THEN copy' = copy + 1 /\ UNCHANGED <<pc, cl, nxt>>
       ELSE FreeAdvance
  /\ UNCHANGED <<dir, data, call, slot, first, prev, written, reply, owner, hurt, crashes>>

(* fat_entry_set fails; free_chain does not look at its result. *)
FreeClearFails ==
  /\ pc = "clear"
  /\ Io(TRUE)
  /\ hurt' = hurt \cup (IF copy = 1 THEN {"leak"} ELSE {"mirror"})
  /\ FreeAdvance
  /\ UNCHANGED <<disk, call, slot, first, prev, written, reply, released, owner, crashes>>

----------------------------------------------------------------------------
(* fat32_write_file's loop: alloc_cluster, the link from the cluster       *)
(* before, the data.                                                       *)

(* Mutant of FreeClusters: the scan runs one entry too far. *)
FreeClustersOnePast ==
  {c \in Clusters : fat[1][c] = Free} \cup {LastCluster + 1}

(* alloc_cluster scans up from cluster 2; an entry whose read fails looks   *)
(* taken, so the scan passes over it.                                       *)
FreeClusters == {c \in Clusters : fat[1][c] = Free}
Skips(skip) ==
  \E k \in 0 .. MaxFaults - faults : Cardinality(skip) = k /\ faults' = faults + k

AllocScan ==
  /\ pc = "alloc"
  /\ \E skip \in SUBSET FreeClusters :
       /\ Skips(skip)
       /\ \E c \in FreeClusters \ skip :
            /\ \A d \in FreeClusters : IF d \in skip THEN d < c ELSE c <= d
            /\ cl' = c
  /\ pc' = "claim" /\ copy' = 1
  /\ UNCHANGED <<disk, call, slot, nxt, first, prev, written, reply, history, crashes>>

AllocNone ==
  /\ pc = "alloc"
  /\ Skips(FreeClusters)
  /\ Abort("fail")
  /\ UNCHANGED crashes

(* Mutant of AllocClaim: the entry is left free until something links it. *)
ClaimUnmarked ==
  /\ pc = "claim"
  /\ Io(FALSE)
  /\ owner' = [owner EXCEPT ![cl] = Writer]
  /\ copy' = 1
  /\ first' = IF first = 0 THEN cl ELSE first
  /\ IF prev # 0 THEN pc' = "link" /\ UNCHANGED prev
                 ELSE pc' = "block" /\ prev' = cl
  /\ UNCHANGED <<disk, call, slot, cl, nxt, written, reply, released, hurt, crashes>>

AllocClaim ==
  /\ pc = "claim"
  /\ Io(FALSE)
  /\ fat' = [fat EXCEPT ![copy][cl] = Eoc]
  /\ owner' = [owner EXCEPT ![cl] = Writer]
  /\ IF copy < FatCount
       THEN copy' = copy + 1 /\ UNCHANGED <<pc, first, prev>>
       ELSE /\ copy' = 1
            /\ first' = IF first = 0 THEN cl ELSE first
            /\ IF prev # 0 THEN pc' = "link" /\ UNCHANGED prev
                           ELSE pc' = "block" /\ prev' = cl
  /\ UNCHANGED <<dir, data, call, slot, cl, nxt, written, reply, released, hurt, crashes>>

(* Mutant of Link: only the first FAT copy is written. *)
LinkOneCopy ==
  /\ pc = "link"
  /\ Io(FALSE)
  /\ fat' = [fat EXCEPT ![1][prev] = cl]
  /\ copy' = 1 /\ pc' = "block" /\ prev' = cl
  /\ UNCHANGED <<dir, data, call, slot, cl, nxt, first, written, reply, history, crashes>>

(* The old tail points at the new cluster.  The result is not looked at. *)
Link ==
  /\ pc = "link"
  /\ Io(FALSE)
  /\ fat' = [fat EXCEPT ![copy][prev] = cl]
  /\ IF copy < FatCount
       THEN copy' = copy + 1 /\ UNCHANGED <<pc, prev>>
       ELSE copy' = 1 /\ pc' = "block" /\ prev' = cl
  /\ UNCHANGED <<dir, data, call, slot, cl, nxt, first, written, reply, history, crashes>>

LinkFails ==
  /\ pc = "link"
  /\ Io(TRUE)
  /\ hurt' = hurt \cup (IF copy = 1 THEN {"lostLink", "leak"} ELSE {"mirror"})
  /\ copy' = 1 /\ pc' = "block" /\ prev' = cl
  /\ UNCHANGED <<disk, call, slot, cl, nxt, first, written, reply, released, owner, crashes>>

WriteBlock ==
  /\ pc = "block"
  /\ Io(FALSE)
  /\ data' = [data EXCEPT ![cl] = body[written + 1]]
  /\ written' = written + 1
  /\ pc' = IF written + 1 < Len(body) THEN "alloc" ELSE "entry"
  /\ UNCHANGED <<fat, dir, call, slot, cl, nxt, copy, first, prev, reply, history, crashes>>

----------------------------------------------------------------------------
(* The directory sector, last: it makes the call's effect visible. *)

(* Mutant of WriteEntry: the entry holds the chain's last cluster. *)
WriteEntryLast ==
  /\ pc = "entry"
  /\ Io(FALSE)
  /\ dir' = [dir EXCEPT ![slot] = FileSlot(name, prev, Len(body))]
  /\ owner' = [c \in Clusters |-> CASE owner[c] = slot -> Nobody
                                    [] owner[c] = Writer -> slot
                                    [] OTHER -> owner[c]]
  /\ Return("ok")
  /\ UNCHANGED <<fat, data, hurt, crashes>>

WriteEntry ==
  /\ pc = "entry"
  /\ Io(FALSE)
  /\ dir' = [dir EXCEPT ![slot] = FileSlot(name, first, Len(body))]
  /\ owner' = [c \in Clusters |-> CASE owner[c] = slot -> Nobody
                                    [] owner[c] = Writer -> slot
                                    [] OTHER -> owner[c]]
  /\ Return("ok")
  /\ UNCHANGED <<fat, data, hurt, crashes>>

(* Mutant of MarkDeleted: the slot is zeroed, which also ends the directory. *)
MarkZeroed ==
  /\ pc = "mark"
  /\ Io(FALSE)
  /\ dir' = [dir EXCEPT ![slot] = EndSlot]
  /\ owner' = [c \in Clusters |-> IF owner[c] = slot THEN Nobody ELSE owner[c]]
  /\ Return("ok")
  /\ UNCHANGED <<fat, data, hurt, crashes>>

MarkDeleted ==
  /\ pc = "mark"
  /\ Io(FALSE)
  /\ dir' = [dir EXCEPT ![slot] = DeletedSlot]
  /\ owner' = [c \in Clusters |-> IF owner[c] = slot THEN Nobody ELSE owner[c]]
  /\ Return("ok")
  /\ UNCHANGED <<fat, data, hurt, crashes>>

(* The four writes whose failure makes the call return 0 where it stands. *)
StepFails ==
  /\ pc \in {"claim", "block", "entry", "mark"}
  /\ Io(TRUE)
  /\ Abort("fail")
  /\ UNCHANGED crashes

(* Power goes between two sector writes; the next boot mounts the volume   *)
(* as it is, with no call running.                                         *)
PowerLoss ==
  /\ pc # "idle"
  /\ crashes < MaxCrashes
  /\ crashes' = crashes + 1
  /\ Abort("none")
  /\ UNCHANGED faults

----------------------------------------------------------------------------
Step ==
  \/ \E s \in Slots : LookupHit(s) \/ LookupNewSlot(s)
  \/ LookupRefused
  \/ FreeNext \/ FreeClear \/ FreeClearFails
  \/ AllocScan \/ AllocNone \/ AllocClaim
  \/ Link \/ LinkFails
  \/ WriteBlock \/ WriteEntry \/ MarkDeleted
  \/ StepFails

Next ==
  \/ \E n \in Names, b \in Contents : CallWrite(n, b)
  \/ \E n \in Names : CallDelete(n)
  \/ Step
  \/ PowerLoss

Spec == Init /\ [][Next]_vars

----------------------------------------------------------------------------
(* Reading.  No read changes the volume.                                   *)

Listing == {s \in Slots : dir[s].state = "file" /\ Visible(s)}

(* fat32_read_file: the blocks of the chain, up to the size in the entry.  *)
(* A chain that ends early makes a short read, not an error.  Reads gives, *)
(* for k up to n, what the loop returns that starts at c with k blocks to  *)
(* go.                                                                     *)
Reads(f, d, n) ==
  LET from[k \in 0 .. n] ==
        [c \in Clusters \cup {Free, Eoc} |->
           IF k = 0 \/ ~InChain(c) THEN << >> ELSE <<d[c]>> \o from[k - 1][f[c]]]
  IN  from

ReadBack(s) == Reads(fat[1], data, dir[s].size)[dir[s].size][dir[s].first]

(* The clusters a chain reaches from c: those no set closed under the FAT  *)
(* that holds c can leave out.                                             *)
Closed(set) == \A c \in set : InChain(fat[1][c]) => fat[1][c] \in set
Reach(c) ==
  IF ~InChain(c) THEN {}
  ELSE {d \in Clusters : \A set \in SUBSET Clusters : c \in set /\ Closed(set) => d \in set}
ChainOf(s) == Reach(dir[s].first)

(* The file whose chain the running call is releasing is not whole. *)
Whole(s) == s \in Listing /\ ~(released /\ s = slot)

----------------------------------------------------------------------------
(* Properties.                                                             *)

TypeOK ==
  /\ fat \in [Copies -> [Clusters -> {Free, Eoc} \cup Clusters]]
  /\ dir \in [Slots -> Entries]
  /\ data \in [Clusters -> Blocks \cup {Blank}]
  /\ pc \in {"idle", "lookup", "next", "clear", "alloc", "claim", "link",
             "block", "entry", "mark"}
  /\ op \in {"none", "write", "delete"}
  /\ name \in Names \cup {NoName}
  /\ body \in Seq(Blocks)
  /\ slot \in Slots
  /\ cl \in {0} \cup Clusters
  /\ nxt \in {Free, Bad, Eoc} \cup Clusters
  /\ copy \in Copies
  /\ first \in {0} \cup Clusters
  /\ prev \in {0} \cup Clusters
  /\ written \in 0 .. Len(body)
  /\ reply \in {"none", "ok", "fail"}
  /\ released \in BOOLEAN
  /\ owner \in [Clusters -> Slots \cup {Nobody, Writer}]
  /\ hurt \subseteq {"cutRelease", "lostLink", "blindLookup", "leak", "mirror"}
  /\ faults \in 0 .. MaxFaults
  /\ crashes \in 0 .. MaxCrashes

(* No cluster serves two files, none that serves a file counts as free and *)
(* none is the root directory, whatever sector reads and writes failed and *)
(* wherever the power went -- unless a call was cut after it began to free *)
(* the chain of a file that was still listed (fat32.c frees before it      *)
(* rewrites the entry).                                                    *)
ChainsDisjoint ==
  "cutRelease" \notin hurt =>
    \A s \in Slots : Whole(s) =>
      /\ \A t \in Slots : Whole(t) /\ s # t => ChainOf(s) \cap ChainOf(t) = {}
      /\ \A c \in ChainOf(s) : fat[1][c] # Free /\ c # RootCluster

(* Even on a volume with dangling entries, no call frees, extends or       *)
(* allocates the root directory's cluster.                                 *)
RootKept ==
  /\ \A i \in Copies : fat[i][RootCluster] = Eoc
  /\ data[RootCluster] = Blank
  /\ \A s \in Slots : RootCluster \notin ChainOf(s)

(* A name is listed once, unless a failed read hid the old entry from the  *)
(* write that replaced it: find_entry has no way to say "could not look".  *)
UniqueNames ==
  "blindLookup" \notin hurt =>
    \A s, t \in Listing : dir[s].name = dir[t].name => s = t

(* Deleting never cuts the directory short: every file's slot comes before *)
(* the end marker at which fat32_list and find_entry stop.                 *)
NothingHidden == \A s \in Slots : dir[s].state = "file" => s \in Listing

(* Between calls every cluster in use belongs to a listed file or is the   *)
(* root directory's, so what fat32_free_clusters counts is what a write    *)
(* can use -- unless a fault or a power loss, or a write that ran out of   *)
(* space half way, left clusters behind.                                   *)
NoLeak ==
  pc = "idle" /\ hurt \subseteq {"mirror", "blindLookup"} =>
    Clusters \ FreeClusters = {RootCluster} \cup UNION {ChainOf(s) : s \in Listing}

(* The FAT copies agree between calls unless fat_entry_set was cut between *)
(* them.                                                                   *)
FatMirrored ==
  pc = "idle" /\ "mirror" \notin hurt => \A i \in Copies : fat[i] = fat[1]

(* What a listed file reads back as is a body some call saved: "a half     *)
(* written file is never listed" (fat32.c, above the directory write).     *)
HalfWrittenNeverListed ==
  pc = "idle" => \A s \in Listing : ReadBack(s) \in Contents
=============================================================================
