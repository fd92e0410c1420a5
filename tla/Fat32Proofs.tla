----------------------------- MODULE Fat32Proofs ----------------------------
(***************************************************************************)
(* Theorems about Fat32, for every size of volume, every number of FAT     *)
(* copies, and any number of failed sectors and power losses.              *)
(*                                                                         *)
(* ChainsDisjoint is not inductive: it speaks of whole chains.  What is    *)
(* inductive is local.  Give every cluster an owner; then a file's first   *)
(* cluster is its own, and the successor of a cluster has the same owner,  *)
(* so a whole chain never leaves its owner's clusters.                     *)
(*                                                                         *)
(* That no cluster is lost takes the converse: following the links from    *)
(* its first cluster reaches all an owner has (Covers).  That the driver   *)
(* is a FileStore takes the order as well: a path through the clusters of  *)
(* an owner spells the body that was saved (Spells), and reading along it  *)
(* gives that body back (ReadsChain).                                      *)
(***************************************************************************)
EXTENDS Fat32Store, TLAPS, FiniteSetTheorems, WellFoundedInduction, SequenceTheorems

(* Which locals the code has set where: a chain is only freed before the   *)
(* first cluster is allocated, and there is a cluster to free or to link.  *)
LocalsInv ==
  /\ pc \in {"next", "clear", "claim", "link", "block"} => cl \in Clusters
  /\ pc = "link" => prev \in Clusters
  /\ pc \in {"idle", "lookup", "next", "clear", "mark"} =>
       first = 0 /\ prev = 0 /\ written = 0
  /\ pc \in {"alloc", "claim", "link", "block"} => written < Len(body)
  /\ pc \in {"idle", "lookup"} => ~released

(* Nothing ever points at the root directory's cluster. *)
RootInv ==
  /\ \A i \in Copies : fat[i][RootCluster] = Eoc
  /\ \A i \in Copies : \A c \in Clusters : fat[i][c] # RootCluster
  /\ \A s \in Slots : dir[s].first # RootCluster
  /\ data[RootCluster] = Blank
  /\ cl # RootCluster /\ nxt # RootCluster
  /\ first # RootCluster /\ prev # RootCluster
  /\ owner[RootCluster] = Nobody

(* The clusters of w are in use, and a chain that starts in w stays in w. *)
Kept(w) ==
  \A c \in Clusters : owner[c] = w =>
    /\ fat[1][c] # Free
    /\ fat[1][c] \in Clusters => owner[fat[1][c]] = w

Exempt(s) == released /\ s = slot

(* The locals point where the running call may write. *)
CallInv ==
  /\ pc \in {"next", "clear"} =>
       /\ owner[cl] = slot
       /\ \A c \in Clusters : owner[c] = slot /\ fat[1][c] \in Clusters =>
            owner[fat[1][c]] = slot
  /\ pc = "clear" /\ nxt \in Clusters => owner[nxt] = slot
  /\ pc = "claim" /\ copy = 1 => fat[1][cl] = Free
  /\ pc = "claim" /\ copy # 1 => owner[cl] = Writer
  /\ pc \in {"link", "block"} => owner[cl] = Writer
  /\ first # 0 => owner[first] = Writer
  /\ prev # 0 => owner[prev] = Writer
  /\ pc \in {"idle", "lookup", "next", "clear", "mark"} =>
       \A c \in Clusters : owner[c] # Writer

OwnInv ==
  /\ \A s \in Slots : dir[s].state = "file" /\ ~Exempt(s) /\ dir[s].first # 0 =>
       owner[dir[s].first] = s
  /\ \A s \in Slots : ~Exempt(s) => Kept(s)
  /\ Kept(Writer)
  /\ CallInv

IInv ==
  /\ TypeOK
  /\ LocalsInv
  /\ RootInv
  /\ "cutRelease" \notin hurt => OwnInv

----------------------------------------------------------------------------
(* A call that returns, however it went, leaves its locals as at boot. *)
LEMMA ReturnType ==
  ASSUME TypeOK, NEW r \in {"none", "ok", "fail"}, Return(r),
         fat' \in [Copies -> [Clusters -> {Free, Eoc} \cup Clusters]],
         dir' \in [Slots -> Entries],
         data' \in [Clusters -> Blocks \cup {Blank}],
         owner' \in [Clusters -> Slots \cup {Nobody, Writer}],
         hurt' \subseteq {"cutRelease", "lostLink", "blindLookup", "leak", "mirror"},
         faults' \in 0 .. MaxFaults, crashes' \in 0 .. MaxCrashes
  PROVE  TypeOK' /\ LocalsInv'
<1>1. /\ pc' = "idle" /\ op' = "none" /\ name' = NoName /\ body' = << >>
      /\ slot' = 0 /\ cl' = 0 /\ nxt' = 0 /\ copy' = 1
      /\ first' = 0 /\ prev' = 0 /\ written' = 0 /\ released' = FALSE /\ reply' = r
  BY DEF Return, Reset
<1>2. 0 \in Slots /\ 1 \in Copies /\ << >> \in Seq(Blocks) /\ Len(<< >>) = 0
  BY VolumeAssumption DEF Slots, Copies
<1>3. slot' \in Slots /\ copy' \in Copies /\ body' \in Seq(Blocks) /\ written' \in 0 .. Len(body')
  BY <1>1, <1>2
<1>4. TypeOK'
  BY <1>1, <1>3 DEF TypeOK, Free
<1>5. LocalsInv'
  BY <1>1 DEF LocalsInv
<1>6. QED
  BY <1>4, <1>5

(* Every call that stops early does the same: the disk stays as it is.     *)
LEMMA AbortType ==
  ASSUME TypeOK, NEW r \in {"none", "fail"}, Abort(r),
         faults' \in 0 .. MaxFaults, crashes' \in 0 .. MaxCrashes
  PROVE  TypeOK' /\ LocalsInv'
<1>1. fat' \in [Copies -> [Clusters -> {Free, Eoc} \cup Clusters]] /\ dir' \in [Slots -> Entries]
      /\ data' \in [Clusters -> Blocks \cup {Blank}]
  BY DEF TypeOK, Abort, disk
<1>2. owner' \in [Clusters -> Slots \cup {Nobody, Writer}]
  BY DEF TypeOK, Abort
<1>3. hurt' \subseteq {"cutRelease", "lostLink", "blindLookup", "leak", "mirror"}
  BY DEF TypeOK, Abort, AbortWounds
<1>4. QED
  BY <1>1, <1>2, <1>3, ReturnType DEF Abort

LEMMA AbortRoot ==
  ASSUME RootInv, NEW r, Abort(r)
  PROVE  RootInv'
<1>1. cl' = 0 /\ nxt' = 0 /\ first' = 0 /\ prev' = 0 /\ fat' = fat /\ dir' = dir /\ data' = data
  BY DEF Abort, Return, Reset, disk
<1>2. RootCluster # 0 /\ RootCluster \in Clusters
  BY VolumeAssumption DEF Clusters
<1>3. owner'[RootCluster] = Nobody
  BY <1>2 DEF Abort, RootInv
<1>4. QED
  BY <1>1, <1>2, <1>3 DEF RootInv

(* A call that had freed nothing leaves every file its chain; one that had *)
(* is recorded in hurt, and nothing is claimed any more.                   *)
LEMMA AbortOwn ==
  ASSUME TypeOK, OwnInv, NEW r, Abort(r), "cutRelease" \notin hurt'
  PROVE  OwnInv'
<1>1. ~released
  BY DEF Abort, AbortWounds
<1>2. /\ pc' = "idle" /\ first' = 0 /\ prev' = 0 /\ released' = FALSE
      /\ fat' = fat /\ dir' = dir
  BY DEF Abort, Return, Reset, disk
<1>3. owner' = [c \in Clusters |-> IF owner[c] = Writer THEN Nobody ELSE owner[c]]
  BY DEF Abort
<1>4. \A s \in Slots : dir[s].state = "file" /\ dir[s].first # 0 => owner[dir[s].first] = s
  BY <1>1 DEF OwnInv, Exempt
<1>5. \A s \in Slots : Kept(s)
  BY <1>1 DEF OwnInv, Exempt
<1>6. \A s \in Slots : dir[s].first \in {0} \cup Clusters
  BY DEF TypeOK, Entries
<1>7. \A s \in Slots : dir'[s].state = "file" /\ dir'[s].first # 0 => owner'[dir'[s].first] = s
  BY <1>2, <1>3, <1>4, <1>6, OwnerAssumption
<1>8. \A s \in Slots : Kept(s)'
  BY <1>2, <1>3, <1>5, OwnerAssumption DEF Kept
<1>9. \A c \in Clusters : owner'[c] # Writer
  BY <1>3, OwnerAssumption
<1>10. Kept(Writer)'
  BY <1>9 DEF Kept
<1>11. CallInv'
  BY <1>2, <1>9 DEF CallInv
<1>12. QED
  BY <1>2, <1>7, <1>8, <1>10, <1>11 DEF OwnInv

----------------------------------------------------------------------------
LEMMA InitIInv == Init => IInv
<1> SUFFICES ASSUME Init PROVE IInv
  OBVIOUS
<1>1. 0 \in Slots /\ 1 \in Copies /\ << >> \in Seq(Blocks) /\ Len(<< >>) = 0 /\ RootCluster \in Clusters
  BY VolumeAssumption DEF Slots, Copies
<1>2. Eoc \notin Clusters /\ Free \notin Clusters /\ Eoc # Free
  BY VolumeAssumption DEF Clusters, Eoc, Free, Bad
<1>3. TypeOK
  <2>1. fat \in [Copies -> [Clusters -> {Free, Eoc} \cup Clusters]]
    BY DEF Init
  <2>2. EndSlot \in Entries
    BY DEF EndSlot, Entries
  <2>3. dir \in [Slots -> Entries]
    BY <2>2 DEF Init
  <2>4. data \in [Clusters -> Blocks \cup {Blank}]
        /\ owner \in [Clusters -> Slots \cup {Nobody, Writer}]
    BY DEF Init
  <2>5. written \in 0 .. Len(body) /\ body \in Seq(Blocks)
    BY <1>1 DEF Init
  <2>6. faults \in 0 .. MaxFaults /\ crashes \in 0 .. MaxCrashes
    BY BoundAssumption DEF Init
  <2>7. QED
    BY <1>1, <2>1, <2>3, <2>4, <2>5, <2>6 DEF Init, TypeOK, Free
<1>4. LocalsInv
  BY DEF Init, LocalsInv
<1>5. RootInv
  BY <1>1, <1>2, OwnerAssumption DEF Init, RootInv, EndSlot, Free, Clusters
<1>6. OwnInv
  BY OwnerAssumption DEF Init, OwnInv, CallInv, Kept, EndSlot, Exempt
<1>7. QED
  BY <1>3, <1>4, <1>5, <1>6 DEF IInv

----------------------------------------------------------------------------
(* Types.  A step that does not end the call changes few of the locals;    *)
(* each case shows the ones it changes.                                    *)
LEMMA IoType ==
  ASSUME TypeOK, NEW failed \in BOOLEAN, Io(failed)
  PROVE  faults' \in 0 .. MaxFaults
BY BoundAssumption DEF TypeOK, Io

LEMMA SkipsType ==
  ASSUME TypeOK, NEW skip, Skips(skip)
  PROVE  faults' \in 0 .. MaxFaults
BY BoundAssumption DEF TypeOK, Skips

LEMMA AfterReleaseType ==
  ASSUME TypeOK
  PROVE  AfterRelease \in {"mark", "entry", "alloc"} /\ (AfterRelease = "alloc" => 0 < Len(body))
<1>1. body # << >> => 0 < Len(body)
  BY DEF TypeOK
<1>2. QED
  BY <1>1 DEF AfterRelease

LEMMA FreeAdvanceType ==
  ASSUME TypeOK, LocalsInv, pc = "clear", FreeAdvance
  PROVE  /\ pc' \in {"next", "mark", "entry", "alloc"}
         /\ pc' = "next" => cl' \in Clusters
         /\ pc' = "alloc" => 0 < Len(body)
         /\ cl' \in {0} \cup Clusters /\ nxt' = 0 /\ copy' = 1
         /\ first = 0 /\ prev = 0 /\ written = 0
BY AfterReleaseType DEF FreeAdvance, InChain, LocalsInv

LEMMA StepTypeOK ==
  ASSUME TypeOK, LocalsInv, Next
  PROVE  TypeOK' /\ LocalsInv'
<1>0. 0 \in Slots /\ 1 \in Copies /\ 0 \in 0 .. Len(body)
  BY VolumeAssumption DEF Slots, Copies, TypeOK
<1> USE DEF regs, call, disk, history, Free
<1>1. ASSUME NEW n \in Names, NEW b \in Contents, CallWrite(n, b) PROVE TypeOK' /\ LocalsInv'
  <2>1. b \in Seq(Blocks) /\ 0 \in 0 .. Len(b)
    BY DataAssumption
  <2>2. written' \in 0 .. Len(body')
    BY <1>1, <2>1 DEF CallWrite, LocalsInv
  <2>3. QED
    BY <1>1, <2>1, <2>2 DEF CallWrite, TypeOK, LocalsInv
<1>2. ASSUME NEW n \in Names, CallDelete(n) PROVE TypeOK' /\ LocalsInv'
  <2>1. << >> \in Seq(Blocks) /\ 0 \in 0 .. Len(<< >>)
    OBVIOUS
  <2>2. written' \in 0 .. Len(body') /\ body' \in Seq(Blocks)
    BY <1>2, <2>1 DEF CallDelete, LocalsInv
  <2>3. QED
    BY <1>2, <2>2 DEF CallDelete, TypeOK, LocalsInv
<1>3. ASSUME NEW s \in Slots, LookupHit(s) PROVE TypeOK' /\ LocalsInv'
  <2>1. dir[s].first \in {0} \cup Clusters
    BY DEF TypeOK, Entries
  <2>2. cl' \in {0} \cup Clusters /\ (pc' = "next" => cl' \in Clusters)
        /\ pc' \in {"next", "mark", "entry", "alloc"} /\ (pc' = "alloc" => 0 < Len(body))
    BY <1>3, <2>1, AfterReleaseType DEF LookupHit
  <2>3. QED
    BY <1>3, <2>2 DEF LookupHit, TypeOK, LocalsInv
<1>4. ASSUME NEW s \in Slots, LookupNewSlot(s) PROVE TypeOK' /\ LocalsInv'
  <2>1. faults' \in 0 .. MaxFaults
    BY <1>4, IoType DEF LookupNewSlot, Missed
  <2>2. hurt' \subseteq {"cutRelease", "lostLink", "blindLookup", "leak", "mirror"}
    BY <1>4 DEF LookupNewSlot, MissWound, TypeOK
  <2>3. QED
    BY <1>4, <2>1, <2>2, AfterReleaseType DEF LookupNewSlot, TypeOK, LocalsInv
<1>5. CASE LookupRefused
  BY <1>5, IoType, AbortType DEF LookupRefused, Missed, TypeOK
<1>6. CASE FreeNext
  <2>1. faults' \in 0 .. MaxFaults
    BY <1>6, IoType DEF FreeNext
  <2>2. fat[1][cl] \in {Free, Eoc} \cup Clusters /\ cl \in Clusters
    BY <1>0, <1>6 DEF FreeNext, TypeOK, LocalsInv
  <2>3. nxt' \in {Free, Bad, Eoc} \cup Clusters
        /\ hurt' \subseteq {"cutRelease", "lostLink", "blindLookup", "leak", "mirror"}
    BY <1>6, <2>2 DEF FreeNext, TypeOK
  <2>4. QED
    BY <1>0, <1>6, <2>1, <2>2, <2>3 DEF FreeNext, TypeOK, LocalsInv
<1>7. CASE FreeClear
  <2>1. faults' \in 0 .. MaxFaults
    BY <1>7, IoType DEF FreeClear
  <2>2. fat' \in [Copies -> [Clusters -> {Free, Eoc} \cup Clusters]]
    BY <1>7 DEF FreeClear, TypeOK, LocalsInv
  <2>3. CASE copy < FatCount
    <3>1. copy' \in Copies /\ UNCHANGED <<pc, cl, nxt>>
      BY <1>7, <2>3, VolumeAssumption DEF FreeClear, Copies, TypeOK
    <3>2. QED
      BY <1>7, <2>1, <2>2, <3>1 DEF FreeClear, TypeOK, LocalsInv
  <2>4. CASE ~(copy < FatCount)
    <3>1. FreeAdvance /\ pc = "clear"
      BY <1>7, <2>4 DEF FreeClear
    <3>2. QED
      BY <1>0, <1>7, <2>1, <2>2, <3>1, FreeAdvanceType DEF FreeClear, TypeOK, LocalsInv
  <2>5. QED
    BY <2>3, <2>4
<1>8. CASE FreeClearFails
  <2>1. faults' \in 0 .. MaxFaults
    BY <1>8, IoType DEF FreeClearFails
  <2>2. FreeAdvance /\ pc = "clear"
    BY <1>8 DEF FreeClearFails
  <2>3. hurt' \subseteq {"cutRelease", "lostLink", "blindLookup", "leak", "mirror"}
    BY <1>8 DEF FreeClearFails, TypeOK
  <2>4. QED
    BY <1>0, <1>8, <2>1, <2>2, <2>3, FreeAdvanceType DEF FreeClearFails, TypeOK, LocalsInv
<1>9. CASE AllocScan
  <2>1. faults' \in 0 .. MaxFaults
    BY <1>9, SkipsType DEF AllocScan
  <2>2. cl' \in Clusters
    BY <1>9 DEF AllocScan, FreeClusters
  <2>3. QED
    BY <1>0, <1>9, <2>1, <2>2 DEF AllocScan, TypeOK, LocalsInv
<1>10. CASE AllocNone
  <2>1. faults' \in 0 .. MaxFaults /\ crashes' \in 0 .. MaxCrashes
    BY <1>10, SkipsType DEF AllocNone, TypeOK
  <2>2. QED
    BY <1>10, <2>1, AbortType DEF AllocNone
<1>11. CASE AllocClaim
  <2>1. faults' \in 0 .. MaxFaults
    BY <1>11, IoType DEF AllocClaim
  <2>2. fat' \in [Copies -> [Clusters -> {Free, Eoc} \cup Clusters]]
        /\ owner' \in [Clusters -> Slots \cup {Nobody, Writer}]
    BY <1>11 DEF AllocClaim, TypeOK, LocalsInv
  <2>3. CASE copy < FatCount
    <3>1. copy' \in Copies /\ UNCHANGED <<pc, first, prev>>
      BY <1>11, <2>3, VolumeAssumption DEF AllocClaim, Copies, TypeOK
    <3>2. QED
      BY <1>11, <2>1, <2>2, <3>1 DEF AllocClaim, TypeOK, LocalsInv
  <2>4. CASE ~(copy < FatCount)
    <3>1. /\ copy' = 1 /\ cl \in Clusters
          /\ first' \in {0} \cup Clusters /\ prev' \in {0} \cup Clusters
          /\ pc' \in {"link", "block"} /\ (pc' = "link" => prev' \in Clusters)
      BY <1>11, <2>4 DEF AllocClaim, TypeOK, LocalsInv
    <3>2. QED
      BY <1>0, <1>11, <2>1, <2>2, <3>1 DEF AllocClaim, TypeOK, LocalsInv
  <2>5. QED
    BY <2>3, <2>4
<1>12. CASE Link
  <2>1. faults' \in 0 .. MaxFaults
    BY <1>12, IoType DEF Link
  <2>2. fat' \in [Copies -> [Clusters -> {Free, Eoc} \cup Clusters]]
    BY <1>12 DEF Link, TypeOK, LocalsInv
  <2>3. CASE copy < FatCount
    <3>1. copy' \in Copies /\ UNCHANGED <<pc, prev>>
      BY <1>12, <2>3, VolumeAssumption DEF Link, Copies, TypeOK
    <3>2. QED
      BY <1>12, <2>1, <2>2, <3>1 DEF Link, TypeOK, LocalsInv
  <2>4. CASE ~(copy < FatCount)
    BY <1>0, <1>12, <2>1, <2>2, <2>4 DEF Link, TypeOK, LocalsInv
  <2>5. QED
    BY <2>3, <2>4
<1>13. CASE LinkFails
  <2>1. faults' \in 0 .. MaxFaults
    BY <1>13, IoType DEF LinkFails
  <2>2. hurt' \subseteq {"cutRelease", "lostLink", "blindLookup", "leak", "mirror"}
    BY <1>13 DEF LinkFails, TypeOK
  <2>3. QED
    BY <1>0, <1>13, <2>1, <2>2 DEF LinkFails, TypeOK, LocalsInv
<1>14. CASE WriteBlock
  <2>1. faults' \in 0 .. MaxFaults
    BY <1>14, IoType DEF WriteBlock
  <2>2. written \in Nat /\ Len(body) \in Nat /\ written < Len(body)
    BY <1>14 DEF WriteBlock, TypeOK, LocalsInv
  <2>3. body[written + 1] \in Blocks
    BY <2>2 DEF TypeOK
  <2>4. data' \in [Clusters -> Blocks \cup {Blank}]
    BY <1>14, <2>3 DEF WriteBlock, TypeOK
  <2>5. written' \in 0 .. Len(body') /\ pc' \in {"alloc", "entry"}
        /\ (pc' = "alloc" => written' < Len(body'))
    BY <1>14, <2>2 DEF WriteBlock
  <2>6. QED
    BY <1>14, <2>1, <2>4, <2>5 DEF WriteBlock, TypeOK, LocalsInv
<1>15. CASE WriteEntry
  <2>1. Len(body) \in Nat
    BY DEF TypeOK
  <2>2. FileSlot(name, first, Len(body)) \in Entries
    BY <2>1 DEF FileSlot, Entries, TypeOK
  <2>3. dir' \in [Slots -> Entries]
    BY <1>15, <2>2 DEF WriteEntry, TypeOK
  <2>4. owner' \in [Clusters -> Slots \cup {Nobody, Writer}]
    BY <1>15 DEF WriteEntry, TypeOK
  <2>5. faults' \in 0 .. MaxFaults
    BY <1>15, IoType DEF WriteEntry
  <2>6. /\ fat' \in [Copies -> [Clusters -> {Free, Eoc} \cup Clusters]]
        /\ data' \in [Clusters -> Blocks \cup {Blank}]
        /\ hurt' \subseteq {"cutRelease", "lostLink", "blindLookup", "leak", "mirror"}
        /\ crashes' \in 0 .. MaxCrashes /\ Return("ok")
    BY <1>15 DEF WriteEntry, TypeOK
  <2>7. QED
    BY <2>3, <2>4, <2>5, <2>6, ReturnType
<1>16. CASE MarkDeleted
  <2>1. DeletedSlot \in Entries
    BY DEF DeletedSlot, Entries
  <2>2. dir' \in [Slots -> Entries]
    BY <1>16, <2>1 DEF MarkDeleted, TypeOK
  <2>3. owner' \in [Clusters -> Slots \cup {Nobody, Writer}]
    BY <1>16 DEF MarkDeleted, TypeOK
  <2>4. faults' \in 0 .. MaxFaults
    BY <1>16, IoType DEF MarkDeleted
  <2>5. /\ fat' \in [Copies -> [Clusters -> {Free, Eoc} \cup Clusters]]
        /\ data' \in [Clusters -> Blocks \cup {Blank}]
        /\ hurt' \subseteq {"cutRelease", "lostLink", "blindLookup", "leak", "mirror"}
        /\ crashes' \in 0 .. MaxCrashes /\ Return("ok")
    BY <1>16 DEF MarkDeleted, TypeOK
  <2>6. QED
    BY <2>2, <2>3, <2>4, <2>5, ReturnType
<1>17. CASE StepFails
  BY <1>17, IoType, AbortType DEF StepFails, TypeOK
<1>18. CASE PowerLoss
  <2>1. crashes' \in 0 .. MaxCrashes /\ faults' \in 0 .. MaxFaults
    BY <1>18, BoundAssumption DEF PowerLoss, TypeOK
  <2>2. QED
    BY <1>18, <2>1, AbortType DEF PowerLoss
<1>19. QED
  BY <1>1, <1>2, <1>3, <1>4, <1>5, <1>6, <1>7, <1>8, <1>9, <1>10, <1>11, <1>12, <1>13,
     <1>14, <1>15, <1>16, <1>17, <1>18 DEF Next, Step

----------------------------------------------------------------------------
(* The root directory's cluster.                                           *)
LEMMA RootFacts ==
  ASSUME RootInv, TypeOK
  PROVE  /\ RootCluster \in Clusters /\ RootCluster # 0 /\ 1 \in Copies
         /\ Eoc # Free /\ Eoc # RootCluster /\ Bad # RootCluster /\ Free # RootCluster
         /\ RootCluster \notin FreeClusters
<1>1. RootCluster \in Clusters /\ RootCluster # 0 /\ 1 \in Copies
      /\ Eoc # Free /\ Eoc # RootCluster /\ Bad # RootCluster /\ Free # RootCluster
  BY VolumeAssumption DEF Clusters, Copies, Eoc, Free, Bad
<1>2. fat[1][RootCluster] = Eoc
  BY <1>1 DEF RootInv
<1>3. QED
  BY <1>1, <1>2 DEF FreeClusters

LEMMA StepRoot ==
  ASSUME TypeOK, LocalsInv, RootInv, Next
  PROVE  RootInv'
<1>0. /\ RootCluster \in Clusters /\ RootCluster # 0 /\ 1 \in Copies
      /\ Eoc # Free /\ Eoc # RootCluster /\ Bad # RootCluster /\ Free # RootCluster
      /\ RootCluster \notin FreeClusters
  BY RootFacts
<1> USE DEF regs, call, disk, history
<1>1. ASSUME NEW n \in Names, NEW b \in Contents, CallWrite(n, b) PROVE RootInv'
  BY <1>1 DEF CallWrite, RootInv
<1>2. ASSUME NEW n \in Names, CallDelete(n) PROVE RootInv'
  BY <1>2 DEF CallDelete, RootInv
<1>3. ASSUME NEW s \in Slots, LookupHit(s) PROVE RootInv'
  BY <1>0, <1>3 DEF LookupHit, RootInv
<1>4. ASSUME NEW s \in Slots, LookupNewSlot(s) PROVE RootInv'
  BY <1>4 DEF LookupNewSlot, RootInv
<1>5. CASE LookupRefused
  BY <1>5, AbortRoot DEF LookupRefused
<1>6. CASE FreeNext
  BY <1>0, <1>6 DEF FreeNext, RootInv, LocalsInv
<1>7. CASE FreeClear
  <2>1. cl \in Clusters /\ cl # RootCluster /\ copy \in Copies
    BY <1>7 DEF FreeClear, RootInv, LocalsInv, TypeOK
  <2>2. /\ \A i \in Copies : fat'[i][RootCluster] = Eoc
        /\ \A i \in Copies : \A c \in Clusters : fat'[i][c] # RootCluster
    BY <1>0, <1>7, <2>1 DEF FreeClear, RootInv, TypeOK
  <2>3. cl' # RootCluster /\ nxt' # RootCluster
    BY <1>0, <1>7 DEF FreeClear, FreeAdvance, RootInv
  <2>4. QED
    BY <1>7, <2>2, <2>3 DEF FreeClear, RootInv
<1>8. CASE FreeClearFails
  BY <1>0, <1>8 DEF FreeClearFails, FreeAdvance, RootInv
<1>9. CASE AllocScan
  <2>1. cl' # RootCluster
    BY <1>0, <1>9 DEF AllocScan
  <2>2. QED
    BY <1>9, <2>1 DEF AllocScan, RootInv
<1>10. CASE AllocNone
  BY <1>10, AbortRoot DEF AllocNone
<1>11. CASE AllocClaim
  <2>1. cl \in Clusters /\ cl # RootCluster /\ copy \in Copies
    BY <1>11 DEF AllocClaim, RootInv, LocalsInv, TypeOK
  <2>2. /\ \A i \in Copies : fat'[i][RootCluster] = Eoc
        /\ \A i \in Copies : \A c \in Clusters : fat'[i][c] # RootCluster
    BY <1>0, <1>11, <2>1 DEF AllocClaim, RootInv, TypeOK
  <2>3. owner'[RootCluster] = Nobody
    BY <1>0, <1>11, <2>1 DEF AllocClaim, RootInv, TypeOK
  <2>4. first' # RootCluster /\ prev' # RootCluster
    BY <1>11, <2>1 DEF AllocClaim, RootInv
  <2>5. QED
    BY <1>11, <2>2, <2>3, <2>4 DEF AllocClaim, RootInv
<1>12. CASE Link
  <2>1. prev \in Clusters /\ prev # RootCluster /\ cl # RootCluster /\ copy \in Copies
    BY <1>12 DEF Link, RootInv, LocalsInv, TypeOK
  <2>2. /\ \A i \in Copies : fat'[i][RootCluster] = Eoc
        /\ \A i \in Copies : \A c \in Clusters : fat'[i][c] # RootCluster
    BY <1>0, <1>12, <2>1 DEF Link, RootInv, TypeOK
  <2>3. QED
    BY <1>12, <2>1, <2>2 DEF Link, RootInv
<1>13. CASE LinkFails
  BY <1>13 DEF LinkFails, RootInv
<1>14. CASE WriteBlock
  <2>1. data'[RootCluster] = Blank
    BY <1>0, <1>14 DEF WriteBlock, RootInv, TypeOK
  <2>2. QED
    BY <1>14, <2>1 DEF WriteBlock, RootInv
<1>15. CASE WriteEntry
  <2>1. \A s \in Slots : dir'[s].first # RootCluster
    BY <1>15 DEF WriteEntry, FileSlot, RootInv, TypeOK
  <2>2. owner'[RootCluster] = Nobody
    BY <1>0, <1>15, OwnerAssumption DEF WriteEntry, RootInv, TypeOK
  <2>3. QED
    BY <1>0, <1>15, <2>1, <2>2 DEF WriteEntry, Return, Reset, RootInv
<1>16. CASE MarkDeleted
  <2>1. \A s \in Slots : dir'[s].first # RootCluster
    BY <1>0, <1>16 DEF MarkDeleted, DeletedSlot, RootInv, TypeOK
  <2>2. owner'[RootCluster] = Nobody
    BY <1>0, <1>16, OwnerAssumption DEF MarkDeleted, RootInv, TypeOK
  <2>3. QED
    BY <1>0, <1>16, <2>1, <2>2 DEF MarkDeleted, Return, Reset, RootInv
<1>17. CASE StepFails
  BY <1>17, AbortRoot DEF StepFails
<1>18. CASE PowerLoss
  BY <1>18, AbortRoot DEF PowerLoss
<1>19. QED
  BY <1>1, <1>2, <1>3, <1>4, <1>5, <1>6, <1>7, <1>8, <1>9, <1>10, <1>11, <1>12, <1>13,
     <1>14, <1>15, <1>16, <1>17, <1>18 DEF Next, Step

----------------------------------------------------------------------------
(* Ownership, while no call has been cut in the middle of a release.       *)
(* Most steps leave the FAT, the directory and the owners as they are.     *)
LEMMA SameVolume ==
  ASSUME OwnInv, UNCHANGED <<fat, dir, owner>>,
         released' = released, slot' = slot \/ ~released, CallInv'
  PROVE  OwnInv'
<1>1. \A s \in Slots : Exempt(s)' <=> Exempt(s)
  BY DEF Exempt
<1>2. \A w : Kept(w)' <=> Kept(w)
  BY DEF Kept
<1>3. QED
  BY <1>1, <1>2 DEF OwnInv

LEMMA FatFacts ==
  ASSUME TypeOK
  PROVE  /\ 1 \in Copies /\ 0 \notin Clusters /\ Free \notin Clusters /\ Eoc \notin Clusters
         /\ Bad \notin Clusters /\ Eoc # Free
         /\ slot \in Slots /\ slot # Writer /\ slot # Nobody
         /\ \A s \in Slots : dir[s].first \in {0} \cup Clusters
BY VolumeAssumption, OwnerAssumption
DEF Copies, Clusters, Free, Eoc, Bad, TypeOK, Entries

LEMMA StepOwn ==
  ASSUME TypeOK, LocalsInv, OwnInv, Next, "cutRelease" \notin hurt'
  PROVE  OwnInv'
<1>0. /\ 1 \in Copies /\ 0 \notin Clusters /\ Free \notin Clusters /\ Eoc \notin Clusters
      /\ Bad \notin Clusters /\ Eoc # Free
      /\ slot \in Slots /\ slot # Writer /\ slot # Nobody
      /\ \A s \in Slots : dir[s].first \in {0} \cup Clusters
  BY FatFacts
<1> USE DEF regs, call, disk, history
<1>1. ASSUME NEW n \in Names, NEW b \in Contents, CallWrite(n, b) PROVE OwnInv'
  <2>1. CallInv'
    BY <1>1 DEF CallWrite, OwnInv, CallInv
  <2>2. QED
    BY <1>1, <2>1, SameVolume DEF CallWrite
<1>2. ASSUME NEW n \in Names, CallDelete(n) PROVE OwnInv'
  <2>1. CallInv'
    BY <1>2 DEF CallDelete, OwnInv, CallInv
  <2>2. QED
    BY <1>2, <2>1, SameVolume DEF CallDelete
<1>3. ASSUME NEW s \in Slots, LookupHit(s) PROVE OwnInv'
  <2>1. ~released /\ first = 0 /\ prev = 0
    BY <1>3 DEF LookupHit, LocalsInv
  <2>2. dir[s].first # 0 => owner[dir[s].first] = s
    BY <1>3, <2>1 DEF LookupHit, FirstHit, Hit, OwnInv, Exempt
  <2>3. Kept(s)
    BY <2>1 DEF OwnInv, Exempt
  <2>4. pc' = "next" => owner[cl'] = s
    BY <1>3, <2>2, AfterReleaseType DEF LookupHit
  <2>5. pc' \in {"next", "mark", "entry", "alloc"}
    BY <1>3, AfterReleaseType DEF LookupHit
  <2>6. \A c \in Clusters : owner[c] # Writer
    BY <1>3 DEF LookupHit, OwnInv, CallInv
  <2>7. CallInv'
    BY <1>3, <2>1, <2>3, <2>4, <2>5, <2>6 DEF LookupHit, CallInv, Kept
  <2>8. QED
    BY <1>3, <2>1, <2>7, SameVolume DEF LookupHit
<1>4. ASSUME NEW s \in Slots, LookupNewSlot(s) PROVE OwnInv'
  <2>1. ~released /\ first = 0 /\ prev = 0
    BY <1>4 DEF LookupNewSlot, LocalsInv
  <2>2. pc' \in {"mark", "entry", "alloc"}
    BY <1>4, AfterReleaseType DEF LookupNewSlot
  <2>3. CallInv'
    BY <1>4, <2>1, <2>2 DEF LookupNewSlot, OwnInv, CallInv
  <2>4. QED
    BY <1>4, <2>1, <2>3, SameVolume DEF LookupNewSlot
<1>5. CASE LookupRefused
  BY <1>5, AbortOwn DEF LookupRefused
<1>6. CASE FreeNext
  <2>1. cl \in Clusters /\ owner[cl] = slot
        /\ (fat[1][cl] \in Clusters => owner[fat[1][cl]] = slot)
    BY <1>6 DEF FreeNext, LocalsInv, OwnInv, CallInv
  <2>2. nxt' \in Clusters => owner[nxt'] = slot
    BY <1>0, <1>6, <2>1 DEF FreeNext
  <2>3. CallInv'
    BY <1>6, <2>1, <2>2 DEF FreeNext, OwnInv, CallInv
  <2>4. QED
    BY <1>6, <2>3, SameVolume DEF FreeNext
<1>7. CASE FreeClear
  <2>1. cl \in Clusters /\ owner[cl] = slot /\ copy \in Copies
    BY <1>7 DEF FreeClear, LocalsInv, OwnInv, CallInv, TypeOK
  <2>2. fat'[1] = IF copy = 1 THEN [fat[1] EXCEPT ![cl] = Free] ELSE fat[1]
    BY <1>0, <1>7, <2>1 DEF FreeClear, TypeOK
  <2>3. \A c \in Clusters : fat'[1][c] = fat[1][c] \/ (c = cl /\ fat'[1][c] = Free)
    BY <1>0, <2>1, <2>2 DEF TypeOK
  <2>4. released' /\ slot' = slot /\ dir' = dir /\ owner' = owner /\ first' = first /\ prev' = prev
    BY <1>7 DEF FreeClear
  <2>5. \A s \in Slots : dir'[s].state = "file" /\ ~Exempt(s)' /\ dir'[s].first # 0 =>
          owner'[dir'[s].first] = s
    BY <2>4 DEF OwnInv, Exempt
  <2>6. ASSUME NEW w, Kept(w), w # slot PROVE Kept(w)'
    BY <2>1, <2>3, <2>4, <2>6 DEF Kept
  <2>7. \A s \in Slots : ~Exempt(s)' => Kept(s)'
    BY <2>4, <2>6 DEF OwnInv, Exempt
  <2>8. Kept(Writer)'
    BY <1>0, <2>6 DEF OwnInv
  <2>9. first = 0 /\ prev = 0 /\ (nxt \in Clusters => owner[nxt] = slot)
        /\ (\A c \in Clusters : owner[c] # Writer)
    BY <1>7 DEF FreeClear, LocalsInv, OwnInv, CallInv
  <2>10. \A c \in Clusters : owner'[c] = slot' /\ fat'[1][c] \in Clusters => owner'[fat'[1][c]] = slot'
    BY <1>0, <1>7, <2>3, <2>4 DEF FreeClear, OwnInv, CallInv
  <2>11. pc' \in {"clear", "next", "mark", "entry", "alloc"}
         /\ (pc' \in {"clear", "next"} => owner[cl'] = slot)
         /\ (pc' = "clear" => nxt' = nxt)
    BY <1>7, <2>1, <2>9, AfterReleaseType DEF FreeClear, FreeAdvance, InChain
  <2>12. CallInv'
    BY <2>4, <2>9, <2>10, <2>11 DEF CallInv
  <2>13. QED
    BY <2>5, <2>7, <2>8, <2>12 DEF OwnInv
<1>8. CASE FreeClearFails
  <2>1. first = 0 /\ prev = 0 /\ (nxt \in Clusters => owner[nxt] = slot)
        /\ (\A c \in Clusters : owner[c] # Writer)
        /\ \A c \in Clusters : owner[c] = slot /\ fat[1][c] \in Clusters => owner[fat[1][c]] = slot
    BY <1>8 DEF FreeClearFails, LocalsInv, OwnInv, CallInv
  <2>2. pc' \in {"next", "mark", "entry", "alloc"} /\ (pc' = "next" => owner[cl'] = slot)
    BY <1>8, <2>1, AfterReleaseType DEF FreeClearFails, FreeAdvance, InChain
  <2>3. CallInv'
    BY <1>8, <2>1, <2>2 DEF FreeClearFails, CallInv
  <2>4. QED
    BY <1>8, <2>3, SameVolume DEF FreeClearFails
<1>9. CASE AllocScan
  <2>1. fat[1][cl'] = Free
    BY <1>9 DEF AllocScan, FreeClusters
  <2>2. CallInv'
    BY <1>9, <2>1 DEF AllocScan, OwnInv, CallInv
  <2>3. QED
    BY <1>9, <2>2, SameVolume DEF AllocScan
<1>10. CASE AllocNone
  BY <1>10, AbortOwn DEF AllocNone
<1>11. CASE AllocClaim
  <2>1. cl \in Clusters /\ copy \in Copies /\ pc = "claim"
    BY <1>11 DEF AllocClaim, LocalsInv, TypeOK
  <2>2. \A c \in Clusters : fat'[1][c] = IF copy = 1 /\ c = cl THEN Eoc ELSE fat[1][c]
    BY <1>0, <1>11, <2>1 DEF AllocClaim, TypeOK
  <2>3. \A c \in Clusters : owner'[c] = IF c = cl THEN Writer ELSE owner[c]
    BY <1>11, <2>1 DEF AllocClaim, TypeOK
  <2>4. released' = released /\ slot' = slot /\ dir' = dir /\ cl' = cl
    BY <1>11 DEF AllocClaim
  <2>5. (copy = 1 /\ fat[1][cl] = Free) \/ (copy # 1 /\ owner[cl] = Writer)
    BY <2>1 DEF OwnInv, CallInv
  <2>6. ASSUME NEW w \in Slots, Kept(w) PROVE owner[cl] # w
    BY <2>1, <2>5, <2>6, OwnerAssumption DEF Kept
  <2>7. ASSUME NEW w \in Slots, Kept(w) PROVE Kept(w)'
    <3>1. owner[cl] # w /\ w # Writer
      BY <2>6, <2>7, OwnerAssumption
    <3>2. SUFFICES ASSUME NEW c \in Clusters, owner'[c] = w
                   PROVE  fat'[1][c] # Free /\ (fat'[1][c] \in Clusters => owner'[fat'[1][c]] = w)
      BY DEF Kept
    <3>3. c # cl /\ owner[c] = w
      BY <2>3, <3>1, <3>2
    <3>4. fat'[1][c] = fat[1][c] /\ fat[1][c] # Free
          /\ (fat[1][c] \in Clusters => owner[fat[1][c]] = w)
      BY <2>2, <2>7, <3>3 DEF Kept
    <3>5. QED
      BY <2>3, <3>1, <3>4
  <2>8. \A s \in Slots : ~Exempt(s)' => Kept(s)'
    BY <2>4, <2>7 DEF OwnInv, Exempt
  <2>9. \A s \in Slots : dir'[s].state = "file" /\ ~Exempt(s)' /\ dir'[s].first # 0 =>
          owner'[dir'[s].first] = s
    <3>1. SUFFICES ASSUME NEW s \in Slots, dir[s].state = "file", ~Exempt(s), dir[s].first # 0
                   PROVE  owner'[dir[s].first] = s
      BY <2>4 DEF Exempt
    <3>2. owner[dir[s].first] = s /\ Kept(s) /\ dir[s].first \in Clusters
      BY <1>0, <3>1 DEF OwnInv
    <3>3. QED
      BY <2>3, <2>6, <3>2
  <2>10. Kept(Writer)'
    <3>1. SUFFICES ASSUME NEW c \in Clusters, owner'[c] = Writer
                   PROVE  fat'[1][c] # Free
                          /\ (fat'[1][c] \in Clusters => owner'[fat'[1][c]] = Writer)
      BY DEF Kept
    <3>2. CASE c = cl /\ copy = 1
      BY <1>0, <2>2, <3>2
    <3>3. CASE ~(c = cl /\ copy = 1)
      <4>1. owner[c] = Writer /\ fat'[1][c] = fat[1][c]
        BY <2>2, <2>3, <2>5, <3>1, <3>3
      <4>2. fat[1][c] # Free /\ (fat[1][c] \in Clusters => owner[fat[1][c]] = Writer)
        BY <4>1 DEF OwnInv, Kept
      <4>3. QED
        BY <2>3, <4>1, <4>2
    <3>4. QED
      BY <3>2, <3>3
  <2>11. CallInv'
    <3>1. owner'[cl] = Writer
      BY <2>1, <2>3
    <3>2. (first # 0 => owner'[first] = Writer) /\ (prev # 0 => owner'[prev] = Writer)
      BY <2>3 DEF OwnInv, CallInv, TypeOK
    <3>3. pc' \in {"claim", "link", "block"} /\ (first' = first \/ first' = cl)
          /\ (prev' = prev \/ prev' = cl)
      BY <1>11, <2>1 DEF AllocClaim
    <3>4. pc' = "claim" => copy' # 1
      BY <1>11, <2>1, VolumeAssumption DEF AllocClaim, Copies
    <3>5. QED
      BY <2>4, <3>1, <3>2, <3>3, <3>4 DEF CallInv
  <2>12. QED
    BY <2>8, <2>9, <2>10, <2>11 DEF OwnInv
<1>12. CASE Link
  <2>1. /\ prev \in Clusters /\ cl \in Clusters /\ copy \in Copies /\ pc = "link"
        /\ owner[cl] = Writer
    BY <1>12 DEF Link, LocalsInv, TypeOK, OwnInv, CallInv
  <2>2. owner[prev] = Writer
    BY <1>0, <2>1 DEF OwnInv, CallInv
  <2>3. \A c \in Clusters : fat'[1][c] = fat[1][c] \/ (c = prev /\ fat'[1][c] = cl)
    BY <1>0, <1>12, <2>1 DEF Link, TypeOK
  <2>4. released' = released /\ slot' = slot /\ dir' = dir /\ owner' = owner /\ cl' = cl
        /\ first' = first /\ (prev' = prev \/ prev' = cl) /\ pc' \in {"link", "block"}
    BY <1>12 DEF Link
  <2>5. cl # Free
    BY <1>0, <2>1
  <2>6. ASSUME NEW w, Kept(w) PROVE Kept(w)'
    BY <2>1, <2>2, <2>3, <2>4, <2>5, <2>6 DEF Kept
  <2>7. CallInv'
    BY <2>1, <2>2, <2>4 DEF OwnInv, CallInv
  <2>8. QED
    BY <2>4, <2>6, <2>7 DEF OwnInv, Exempt
<1>13. CASE LinkFails
  <2>1. CallInv'
    BY <1>13 DEF LinkFails, OwnInv, CallInv
  <2>2. QED
    BY <1>13, <2>1, SameVolume DEF LinkFails
<1>14. CASE WriteBlock
  <2>1. pc' \in {"alloc", "entry"}
    BY <1>14 DEF WriteBlock
  <2>2. CallInv'
    BY <1>14, <2>1 DEF WriteBlock, OwnInv, CallInv
  <2>3. QED
    BY <1>14, <2>2, SameVolume DEF WriteBlock
<1>15. CASE WriteEntry
  <2>1. /\ fat' = fat /\ ~released' /\ pc' = "idle" /\ first' = 0 /\ prev' = 0
        /\ dir' = [dir EXCEPT ![slot] = FileSlot(name, first, Len(body))]
    BY <1>15 DEF WriteEntry, Return, Reset
  <2>2. \A c \in Clusters : owner'[c] = IF owner[c] = slot THEN Nobody
                                        ELSE IF owner[c] = Writer THEN slot ELSE owner[c]
    BY <1>0, <1>15 DEF WriteEntry
  <2>3. \A c \in Clusters : owner'[c] # Writer
    BY <1>0, <2>2, OwnerAssumption
  <2>4. \A s \in Slots \ {slot} : Kept(s)
    BY DEF OwnInv, Exempt
  <2>5. Kept(Writer)
    BY DEF OwnInv
  <2>6. ASSUME NEW s \in Slots \ {slot} PROVE Kept(s)'
    <3>1. s # Nobody /\ s # Writer
      BY OwnerAssumption
    <3>2. \A c \in Clusters : owner'[c] = s <=> owner[c] = s
      BY <1>0, <2>2, <2>6, <3>1
    <3>3. QED
      BY <2>1, <2>4, <3>2 DEF Kept
  <2>7. ASSUME NEW s \in Slots, s = slot PROVE Kept(s)'
    <3>1. \A c \in Clusters : owner'[c] = s <=> owner[c] = Writer
      BY <1>0, <2>2, <2>7
    <3>2. QED
      BY <2>1, <2>5, <3>1 DEF Kept
  <2>8. \A s \in Slots : dir'[s].state = "file" /\ ~Exempt(s)' /\ dir'[s].first # 0 =>
          owner'[dir'[s].first] = s
    <3>1. SUFFICES ASSUME NEW s \in Slots, dir'[s].state = "file", dir'[s].first # 0
                   PROVE  owner'[dir'[s].first] = s
      OBVIOUS
    <3>2. CASE s = slot
      <4>1. dir'[s].first = first
        BY <2>1, <3>2 DEF TypeOK, FileSlot
      <4>2. owner[first] = Writer /\ first \in Clusters
        BY <3>1, <4>1 DEF OwnInv, CallInv, TypeOK
      <4>3. QED
        BY <1>0, <2>2, <3>2, <4>1, <4>2
    <3>3. CASE s # slot
      <4>1. dir'[s] = dir[s] /\ owner[dir[s].first] = s /\ dir[s].first \in Clusters
        BY <1>0, <2>1, <3>1, <3>3 DEF OwnInv, Exempt, TypeOK
      <4>2. s # Writer
        BY OwnerAssumption
      <4>3. QED
        BY <2>2, <3>3, <4>1, <4>2
    <3>4. QED
      BY <3>2, <3>3
  <2>9. Kept(Writer)'
    BY <2>3 DEF Kept
  <2>10. CallInv'
    BY <2>1, <2>3 DEF CallInv
  <2>11. QED
    BY <2>6, <2>7, <2>8, <2>9, <2>10 DEF OwnInv
<1>16. CASE MarkDeleted
  <2>1. /\ fat' = fat /\ ~released' /\ pc' = "idle" /\ first' = 0 /\ prev' = 0
        /\ dir' = [dir EXCEPT ![slot] = DeletedSlot]
    BY <1>16 DEF MarkDeleted, Return, Reset
  <2>2. \A c \in Clusters : owner'[c] = IF owner[c] = slot THEN Nobody ELSE owner[c]
    BY <1>16 DEF MarkDeleted
  <2>3. \A c \in Clusters : owner[c] # Writer
    BY <1>16 DEF MarkDeleted, OwnInv, CallInv
  <2>4. \A c \in Clusters : owner'[c] # Writer /\ owner'[c] # slot
    BY <1>0, <2>2, <2>3, OwnerAssumption
  <2>5. \A s \in Slots \ {slot} : Kept(s)
    BY DEF OwnInv, Exempt
  <2>6. ASSUME NEW s \in Slots \ {slot} PROVE Kept(s)'
    <3>1. s # Nobody
      BY OwnerAssumption
    <3>2. \A c \in Clusters : owner'[c] = s <=> owner[c] = s
      BY <1>0, <2>2, <2>6, <3>1
    <3>3. QED
      BY <2>1, <2>5, <3>2 DEF Kept
  <2>7. ASSUME NEW s \in Slots, s = slot PROVE Kept(s)'
    <3>1. \A c \in Clusters : owner'[c] # s
      BY <2>4, <2>7
    <3>2. QED
      BY <3>1 DEF Kept
  <2>8. \A s \in Slots : dir'[s].state = "file" /\ ~Exempt(s)' /\ dir'[s].first # 0 =>
          owner'[dir'[s].first] = s
    <3>1. SUFFICES ASSUME NEW s \in Slots, dir'[s].state = "file", dir'[s].first # 0
                   PROVE  owner'[dir'[s].first] = s
      OBVIOUS
    <3>2. s # slot
      BY <2>1, <3>1 DEF TypeOK, DeletedSlot
    <3>3. dir'[s] = dir[s] /\ owner[dir[s].first] = s /\ dir[s].first \in Clusters
      BY <1>0, <2>1, <3>1, <3>2 DEF OwnInv, Exempt, TypeOK
    <3>4. QED
      BY <2>2, <3>2, <3>3
  <2>9. Kept(Writer)'
    BY <2>4 DEF Kept
  <2>10. CallInv'
    BY <2>1, <2>4 DEF CallInv
  <2>11. QED
    BY <2>6, <2>7, <2>8, <2>9, <2>10 DEF OwnInv
<1>17. CASE StepFails
  BY <1>17, AbortOwn DEF StepFails
<1>18. CASE PowerLoss
  BY <1>18, AbortOwn DEF PowerLoss
<1>19. QED
  BY <1>1, <1>2, <1>3, <1>4, <1>5, <1>6, <1>7, <1>8, <1>9, <1>10, <1>11, <1>12, <1>13,
     <1>14, <1>15, <1>16, <1>17, <1>18 DEF Next, Step

----------------------------------------------------------------------------
(* The invariant holds, and what it says of whole chains.                  *)
LEMMA StutterIInv == IInv /\ UNCHANGED vars => IInv'
<1> SUFFICES ASSUME IInv, UNCHANGED vars PROVE IInv'
  OBVIOUS
<1> USE DEF vars, disk, call, regs, history
<1>1. TypeOK' /\ LocalsInv'
  BY DEF IInv, TypeOK, LocalsInv
<1>2. RootInv'
  BY DEF IInv, RootInv
<1>3. "cutRelease" \notin hurt' => OwnInv'
  BY DEF IInv, OwnInv, CallInv, Kept, Exempt
<1>4. QED
  BY <1>1, <1>2, <1>3 DEF IInv

(* What a volume has lost it does not get back. *)
LEMMA HurtGrows == Next => hurt \subseteq hurt'
BY DEF Next, Step, CallWrite, CallDelete, LookupHit, LookupNewSlot, LookupRefused, FreeNext,
       FreeClear, FreeClearFails, AllocScan, AllocNone, AllocClaim, Link, LinkFails, WriteBlock,
       WriteEntry, MarkDeleted, StepFails, PowerLoss, Abort, history

LEMMA StepIInv == IInv /\ [Next]_vars => IInv'
<1> SUFFICES ASSUME IInv, [Next]_vars PROVE IInv'
  OBVIOUS
<1>1. CASE Next
  <2>1. TypeOK' /\ LocalsInv' /\ RootInv'
    BY <1>1, StepTypeOK, StepRoot DEF IInv
  <2>2. "cutRelease" \notin hurt' => OwnInv'
    BY <1>1, HurtGrows, StepOwn DEF IInv
  <2>3. QED
    BY <2>1, <2>2 DEF IInv
<1>2. CASE UNCHANGED vars
  BY <1>2, StutterIInv
<1>3. QED
  BY <1>1, <1>2

THEOREM IInvAlways == Spec => []IInv
<1>1. QED
  BY InitIInv, StepIInv, PTL DEF Spec

(* A set that holds a chain's first cluster and is closed under the FAT    *)
(* holds the chain.                                                        *)
LEMMA ReachWithin ==
  ASSUME NEW c, NEW set \in SUBSET Clusters, c \in Clusters => c \in set, Closed(set)
  PROVE  Reach(c) \subseteq set
BY DEF Reach, InChain

LEMMA KeptClosed ==
  ASSUME NEW w, Kept(w)
  PROVE  Closed({c \in Clusters : owner[c] = w})
BY DEF Kept, Closed, InChain

LEMMA ChainOwned ==
  ASSUME TypeOK, OwnInv, NEW s \in Slots, Whole(s)
  PROVE  \A c \in ChainOf(s) : c \in Clusters /\ owner[c] = s /\ fat[1][c] # Free
<1>1. dir[s].state = "file" /\ ~Exempt(s)
  BY DEF Whole, Listing, Exempt
<1>2. Kept(s) /\ (dir[s].first # 0 => owner[dir[s].first] = s)
  BY <1>1 DEF OwnInv
<1>3. dir[s].first \in Clusters => owner[dir[s].first] = s
  BY <1>2, FatFacts
<1>4. ChainOf(s) \subseteq {c \in Clusters : owner[c] = s}
  BY <1>2, <1>3, KeptClosed, ReachWithin DEF ChainOf
<1>5. QED
  BY <1>2, <1>4 DEF Kept

(* Types, for a volume of any size. *)
THEOREM TypeCorrect == Spec => []TypeOK
<1>1. IInv => TypeOK
  BY DEF IInv
<1>2. QED
  BY <1>1, IInvAlways, PTL

(* Two files never share a cluster, no cluster of a file counts as free,   *)
(* and none is the root directory's, unless a release was cut.             *)
THEOREM DisjointAlways == Spec => []ChainsDisjoint
<1>1. IInv => ChainsDisjoint
  <2>1. SUFFICES ASSUME IInv, "cutRelease" \notin hurt PROVE ChainsDisjoint
    BY DEF ChainsDisjoint
  <2>2. TypeOK /\ OwnInv /\ RootInv
    BY <2>1 DEF IInv
  <2>3. \A s \in Slots : Whole(s) =>
          \A c \in ChainOf(s) : c \in Clusters /\ owner[c] = s /\ fat[1][c] # Free
    BY <2>2, ChainOwned
  <2>4. Nobody \notin Slots /\ owner[RootCluster] = Nobody
    BY <2>2, OwnerAssumption DEF RootInv
  <2>5. QED
    BY <2>3, <2>4 DEF ChainsDisjoint
<1>2. QED
  BY <1>1, IInvAlways, PTL

(* The root directory's cluster stays in use, is never written as data and *)
(* is on no file's chain, on any volume these calls can produce.           *)
THEOREM RootAlways == Spec => []RootKept
<1>1. IInv => RootKept
  <2>1. SUFFICES ASSUME IInv PROVE RootKept
    OBVIOUS
  <2>2. RootInv /\ 1 \in Copies
    BY <2>1, RootFacts DEF IInv
  <2>3. Closed(Clusters \ {RootCluster})
    BY <2>2 DEF RootInv, Closed, InChain
  <2>4. ASSUME NEW s \in Slots PROVE RootCluster \notin ChainOf(s)
    <3>1. dir[s].first # RootCluster
      BY <2>2 DEF RootInv
    <3>2. ChainOf(s) \subseteq Clusters \ {RootCluster}
      BY <2>3, <3>1, ReachWithin DEF ChainOf
    <3>3. QED
      BY <3>2
  <2>5. QED
    BY <2>2, <2>4 DEF RootKept, RootInv
<1>2. QED
  BY <1>1, IInvAlways, PTL

----------------------------------------------------------------------------
(* The directory. *)

Running == pc \notin {"idle", "lookup"}

(* Once a slot was never used, none after it was; a call that has chosen   *)
(* its slot has only used ones before it.                                  *)
EndsLast ==
  /\ \A s, t \in Slots : s < t /\ dir[s].state = "end" => dir[t].state = "end"
  /\ Running => \A t \in Slots : t < slot => dir[t].state # "end"

(* No two entries name the same file, and the running call's slot is the   *)
(* only one that has, or will have, its name.                              *)
NamesInv ==
  "blindLookup" \notin hurt =>
    /\ \A s, t \in Slots :
         dir[s].state = "file" /\ dir[t].state = "file" /\ dir[s].name = dir[t].name => s = t
    /\ Running =>
         \A t \in Slots : dir[t].state = "file" /\ dir[t].name = name => t = slot

DirInv == EndsLast /\ NamesInv

LEMMA EndsShow ==
  ASSUME EndsLast, NEW s \in Slots, dir[s].state = "file" PROVE Visible(s)
<1> SUFFICES ASSUME NEW t \in 0 .. s, dir[t].state = "end" PROVE FALSE
  BY DEF Visible
<1>1. t \in Slots /\ (t = s \/ t < s)
  BY VolumeAssumption DEF Slots
<1> QED
  BY <1>1 DEF EndsLast

(* A call that returns or stops leaves the directory alone. *)
LEMMA KeepsDir ==
  ASSUME DirInv, UNCHANGED dir, hurt \subseteq hurt',
         Running' => Running /\ UNCHANGED <<slot, name>>
  PROVE  DirInv'
<1>1. EndsLast'
  BY DEF DirInv, EndsLast
<1>2. NamesInv'
  BY DEF DirInv, NamesInv
<1> QED
  BY <1>1, <1>2 DEF DirInv

LEMMA AbortDir == ASSUME DirInv, NEW r, Abort(r) PROVE DirInv'
<1>1. pc' = "idle" /\ dir' = dir /\ hurt \subseteq hurt'
  BY DEF Abort, Return, Reset, disk
<1> QED
  BY <1>1, KeepsDir DEF Running

LEMMA HitDir == ASSUME TypeOK, DirInv, NEW s \in Slots, LookupHit(s) PROVE DirInv'
<1>1. /\ slot' = s /\ UNCHANGED <<dir, hurt, name>>
      /\ dir[s].state = "file" /\ dir[s].name = name
  BY DEF LookupHit, FirstHit, Hit, disk, call, history
<1>2. EndsLast'
  BY <1>1 DEF DirInv, EndsLast
<1>3. NamesInv'
  BY <1>1 DEF DirInv, NamesInv
<1> QED
  BY <1>2, <1>3 DEF DirInv

LEMMA NewSlotDir == ASSUME TypeOK, DirInv, NEW s \in Slots, LookupNewSlot(s) PROVE DirInv'
<1>1. /\ slot' = s /\ UNCHANGED <<dir, name>> /\ FirstReusable(s)
  BY DEF LookupNewSlot, disk, call
<1>2. PICK blind \in BOOLEAN : Missed(blind) /\ hurt' = hurt \cup MissWound(blind)
  BY DEF LookupNewSlot
<1>3. \A t \in Slots : t < s => dir[t].state # "end"
  BY <1>1, VolumeAssumption DEF FirstReusable, Reusable, Slots
<1>4. EndsLast'
  BY <1>1, <1>3 DEF DirInv, EndsLast
<1>5. ASSUME "blindLookup" \notin hurt' PROVE "blindLookup" \notin hurt /\ ~Listed(name)
  BY <1>2, <1>5 DEF Missed, MissWound
<1>6. ~Listed(name) => \A t \in Slots : ~(dir[t].state = "file" /\ dir[t].name = name)
  BY EndsShow DEF DirInv, Listed, Hit
<1>7. NamesInv'
  BY <1>1, <1>5, <1>6 DEF DirInv, NamesInv
<1> QED
  BY <1>4, <1>7 DEF DirInv

LEMMA EntryDir == ASSUME TypeOK, DirInv, WriteEntry PROVE DirInv'
<1>1. /\ Running /\ pc' = "idle" /\ hurt' = hurt
      /\ dir' = [dir EXCEPT ![slot] = FileSlot(name, first, Len(body))]
  BY DEF WriteEntry, Return, Reset, Running
<1>2. slot \in Slots /\ dir \in [Slots -> Entries]
  BY DEF TypeOK
<1>3. dir'[slot].state = "file" /\ dir'[slot].name = name
      /\ \A t \in Slots : t # slot => dir'[t] = dir[t]
  BY <1>1, <1>2 DEF FileSlot
<1>4. EndsLast'
  BY <1>1, <1>2, <1>3, VolumeAssumption DEF DirInv, EndsLast, Running, Slots
<1>5. NamesInv'
  BY <1>1, <1>2, <1>3 DEF DirInv, NamesInv, Running
<1> QED
  BY <1>4, <1>5 DEF DirInv

LEMMA MarkDir == ASSUME TypeOK, DirInv, MarkDeleted PROVE DirInv'
<1>1. /\ Running /\ pc' = "idle" /\ hurt' = hurt
      /\ dir' = [dir EXCEPT ![slot] = DeletedSlot]
  BY DEF MarkDeleted, Return, Reset, Running
<1>2. slot \in Slots /\ dir \in [Slots -> Entries]
  BY DEF TypeOK
<1>3. dir'[slot].state = "deleted" /\ \A t \in Slots : t # slot => dir'[t] = dir[t]
  BY <1>1, <1>2 DEF DeletedSlot
<1>4. EndsLast'
  BY <1>1, <1>2, <1>3, VolumeAssumption DEF DirInv, EndsLast, Running, Slots
<1>5. NamesInv'
  BY <1>1, <1>2, <1>3 DEF DirInv, NamesInv, Running
<1> QED
  BY <1>4, <1>5 DEF DirInv

(* The steps that free and allocate. *)
LEMMA MiddleDir ==
  ASSUME TypeOK, DirInv,
         \/ FreeNext \/ FreeClear \/ FreeClearFails \/ AllocScan \/ AllocClaim
         \/ Link \/ LinkFails \/ WriteBlock
  PROVE  DirInv'
<1>1. Running /\ UNCHANGED <<dir, slot, name>> /\ hurt \subseteq hurt'
  <2>1. CASE FreeNext
    BY <2>1 DEF FreeNext, Running, disk, call
  <2>2. CASE FreeClear
    BY <2>2 DEF FreeClear, Running, call
  <2>3. CASE FreeClearFails
    BY <2>3 DEF FreeClearFails, Running, disk, call
  <2>4. CASE AllocScan
    BY <2>4 DEF AllocScan, Running, disk, call, history
  <2>5. CASE AllocClaim
    BY <2>5 DEF AllocClaim, Running, call
  <2>6. CASE Link
    BY <2>6 DEF Link, Running, call, history
  <2>7. CASE LinkFails
    BY <2>7 DEF LinkFails, Running, disk, call
  <2>8. CASE WriteBlock
    BY <2>8 DEF WriteBlock, Running, call, history
  <2> QED
    BY <2>1, <2>2, <2>3, <2>4, <2>5, <2>6, <2>7, <2>8
<1> QED
  BY <1>1, KeepsDir

LEMMA NextDir == TypeOK /\ DirInv /\ [Next]_vars => DirInv'
<1> SUFFICES ASSUME TypeOK, DirInv, [Next]_vars PROVE DirInv'
  OBVIOUS
<1>1. ASSUME NEW n \in Names, NEW b \in Contents, CallWrite(n, b) PROVE DirInv'
  BY <1>1, KeepsDir DEF CallWrite, Running, disk, history
<1>2. ASSUME NEW n \in Names, CallDelete(n) PROVE DirInv'
  BY <1>2, KeepsDir DEF CallDelete, Running, disk, history
<1>3. CASE Step
  <2>1. ASSUME NEW s \in Slots, LookupHit(s) PROVE DirInv'
    BY <2>1, HitDir
  <2>2. ASSUME NEW s \in Slots, LookupNewSlot(s) PROVE DirInv'
    BY <2>2, NewSlotDir
  <2>3. CASE LookupRefused
    BY <2>3, AbortDir DEF LookupRefused
  <2>4. CASE AllocNone
    BY <2>4, AbortDir DEF AllocNone
  <2>5. CASE StepFails
    BY <2>5, AbortDir DEF StepFails
  <2>6. CASE WriteEntry
    BY <2>6, EntryDir
  <2>7. CASE MarkDeleted
    BY <2>7, MarkDir
  <2>8. CASE \/ FreeNext \/ FreeClear \/ FreeClearFails \/ AllocScan \/ AllocClaim
             \/ Link \/ LinkFails \/ WriteBlock
    BY <2>8, MiddleDir
  <2> QED
    BY <1>3, <2>1, <2>2, <2>3, <2>4, <2>5, <2>6, <2>7, <2>8 DEF Step
<1>4. CASE PowerLoss
  BY <1>4, AbortDir DEF PowerLoss
<1>5. CASE UNCHANGED vars
  BY <1>5, KeepsDir DEF vars, disk, call, regs, history, Running
<1> QED
  BY <1>1, <1>2, <1>3, <1>4, <1>5 DEF Next

LEMMA InitDir == Init => DirInv
  BY DEF Init, DirInv, EndsLast, NamesInv, EndSlot, Running

LEMMA DirAlways == Spec => []DirInv
<1>1. TypeOK /\ DirInv /\ [Next]_vars => DirInv'
  BY NextDir
<1> QED
  BY <1>1, InitDir, TypeCorrect, PTL DEF Spec

(* Whatever is created, replaced and deleted, and wherever it stops, the   *)
(* scans of the directory, which end at the first slot never used, see     *)
(* every file there is.                                                    *)
THEOREM HiddenNever == Spec => []NothingHidden
<1>1. DirInv => NothingHidden
  BY EndsShow DEF DirInv, NothingHidden, Listing
<1> QED
  BY <1>1, DirAlways, PTL

(* A name is listed once in a directory of any size, unless a failed read  *)
(* hid the old entry from the write that replaced it.                      *)
THEOREM NamesAlways == Spec => []UniqueNames
<1>1. DirInv => UniqueNames
  BY DEF DirInv, NamesInv, UniqueNames, Listing
<1> QED
  BY <1>1, DirAlways, PTL

----------------------------------------------------------------------------
(* The copies of the FAT. *)

(* The entry fat_entry_set is going through the copies with. *)
Setting(c) == \/ pc \in {"clear", "claim"} /\ c = cl
              \/ pc = "link" /\ c = prev

(* Only that entry may differ, in the copies not yet written. *)
MirrorInv ==
  "mirror" \notin hurt =>
    /\ \A c \in Clusters, i \in Copies :
         fat[i][c] = fat[1][c] \/ (Setting(c) /\ copy > 1 /\ i >= copy)
    /\ copy > 1 /\ pc = "clear" => fat[1][cl] = Free
    /\ copy > 1 /\ pc = "claim" => fat[1][cl] = Eoc
    /\ copy > 1 /\ pc = "link" => fat[1][prev] = cl

LEMMA CopiesFacts == Copies \subseteq Nat /\ 1 \in Copies /\ FatCount \in Copies
  BY VolumeAssumption DEF Copies

(* The FAT agrees in all copies, and the step leaves it and starts none.   *)
LEMMA KeepsMirror ==
  ASSUME TypeOK, MirrorInv, UNCHANGED fat, hurt \subseteq hurt',
         "mirror" \notin hurt' => pc \notin {"clear", "claim", "link"} \/ copy = 1,
         copy' = 1 \/ pc' \notin {"clear", "claim", "link"}
  PROVE  MirrorInv'
<1> SUFFICES ASSUME "mirror" \notin hurt' PROVE MirrorInv'
  BY DEF MirrorInv
<1>1. \A c \in Clusters, i \in Copies : fat[i][c] = fat[1][c]
  BY DEF MirrorInv, Setting
<1> QED
  BY <1>1 DEF MirrorInv

LEMMA AbortMirror == ASSUME TypeOK, MirrorInv, NEW r, Abort(r) PROVE MirrorInv'
<1>1. pc' = "idle" /\ UNCHANGED fat /\ hurt' = hurt \cup AbortWounds
  BY DEF Abort, Return, Reset, disk
<1>2. copy \in Nat /\ copy >= 1
  BY VolumeAssumption DEF TypeOK, Copies
<1>3. "mirror" \notin hurt' => pc \notin {"clear", "claim", "link"} \/ copy = 1
  BY <1>1, <1>2 DEF AbortWounds, Unmirrored
<1> QED
  BY <1>1, <1>3, KeepsMirror

(* fat_entry_set writes v for cluster c into one copy more, and goes on or *)
(* is done.                                                                *)
LEMMA SetsMirror ==
  ASSUME TypeOK, MirrorInv, NEW c \in Clusters, NEW v,
         \A d \in Clusters : Setting(d) => d = c,
         copy > 1 => fat[1][c] = v,
         fat' = [fat EXCEPT ![copy][c] = v], hurt' = hurt,
         \/ copy < FatCount /\ copy' = copy + 1 /\ UNCHANGED <<pc, cl, prev>>
         \/ copy = FatCount /\ copy' = 1,
         pc' = pc => Setting(c),
         copy' > 1 => /\ pc = "clear" => c = cl /\ v = Free
                      /\ pc = "claim" => c = cl /\ v = Eoc
                      /\ pc = "link" => c = prev /\ v = cl
  PROVE  MirrorInv'
<1> SUFFICES ASSUME "mirror" \notin hurt PROVE MirrorInv'
  BY DEF MirrorInv
<1>1. copy \in Nat /\ copy >= 1 /\ copy <= FatCount /\ FatCount \in Nat /\ copy \in Copies
  BY VolumeAssumption DEF TypeOK, Copies
<1>2. \A i \in Copies : i \in Nat /\ i >= 1 /\ i <= FatCount
  BY VolumeAssumption DEF Copies
<1>3. \A i \in Copies, d \in Clusters :
        fat'[i][d] = IF i = copy /\ d = c THEN v ELSE fat[i][d]
  BY <1>1 DEF TypeOK
<1>4. fat'[1][c] = v
  BY <1>1, <1>3, CopiesFacts
<1>5. \A d \in Clusters, i \in Copies : d # c => fat'[i][d] = fat'[1][d]
  BY <1>3, CopiesFacts DEF MirrorInv
<1>6. \A i \in Copies : i <= copy => fat'[i][c] = v
  BY <1>1, <1>2, <1>3, CopiesFacts DEF MirrorInv
<1>7. CASE copy < FatCount /\ copy' = copy + 1 /\ UNCHANGED <<pc, cl, prev>>
  <2>1. \A i \in Copies : i <= copy \/ i >= copy'
    BY <1>1, <1>2, <1>7
  <2>2. Setting(c)' /\ copy' > 1
    BY <1>1, <1>7 DEF Setting
  <2>3. \A d \in Clusters, i \in Copies :
          fat'[i][d] = fat'[1][d] \/ (Setting(d)' /\ copy' > 1 /\ i >= copy')
    BY <1>4, <1>5, <1>6, <2>1, <2>2
  <2> QED
    BY <1>4, <1>7, <2>2, <2>3 DEF MirrorInv
<1>8. CASE copy = FatCount /\ copy' = 1
  <2>1. \A d \in Clusters, i \in Copies : fat'[i][d] = fat'[1][d]
    BY <1>2, <1>4, <1>5, <1>6, <1>8
  <2> QED
    BY <1>8, <2>1 DEF MirrorInv
<1> QED
  BY <1>7, <1>8

LEMMA NextMirror == IInv /\ MirrorInv /\ [Next]_vars => MirrorInv'
<1> SUFFICES ASSUME IInv, MirrorInv, [Next]_vars PROVE MirrorInv'
  OBVIOUS
<1>1. TypeOK /\ LocalsInv
  BY DEF IInv
<1>2. copy \in Nat /\ copy >= 1 /\ copy <= FatCount /\ FatCount \in Nat
  BY <1>1, VolumeAssumption DEF TypeOK, Copies
<1>3. ASSUME NEW n \in Names, NEW b \in Contents, CallWrite(n, b) PROVE MirrorInv'
  BY <1>1, <1>3, KeepsMirror DEF CallWrite, disk, history
<1>4. ASSUME NEW n \in Names, CallDelete(n) PROVE MirrorInv'
  BY <1>1, <1>4, KeepsMirror DEF CallDelete, disk, history
<1>5. CASE Step
  <2>1. ASSUME NEW s \in Slots, LookupHit(s) PROVE MirrorInv'
    BY <1>1, <2>1, KeepsMirror DEF LookupHit, AfterRelease, disk, history
  <2>2. ASSUME NEW s \in Slots, LookupNewSlot(s) PROVE MirrorInv'
    BY <1>1, <2>2, KeepsMirror DEF LookupNewSlot, AfterRelease, disk
  <2>3. CASE LookupRefused
    BY <1>1, <2>3, AbortMirror DEF LookupRefused
  <2>4. CASE FreeNext
    BY <1>1, <2>4, KeepsMirror DEF FreeNext, disk
  <2>5. CASE FreeClear
    <3>1. /\ pc = "clear" /\ cl \in Clusters /\ hurt' = hurt /\ prev' = prev
          /\ fat' = [fat EXCEPT ![copy][cl] = Free]
          /\ \/ copy < FatCount /\ copy' = copy + 1 /\ UNCHANGED <<pc, cl, prev>>
             \/ copy = FatCount /\ copy' = 1 /\ pc' # "clear"
      BY <1>1, <1>2, <2>5 DEF FreeClear, FreeAdvance, AfterRelease, LocalsInv
    <3>2. CASE "mirror" \in hurt
      BY <3>1, <3>2 DEF MirrorInv
    <3>3. CASE "mirror" \notin hurt
      BY <1>1, <1>2, <3>1, <3>3, SetsMirror DEF Setting, MirrorInv
    <3> QED
      BY <3>2, <3>3
  <2>6. CASE FreeClearFails
    <3>1. "mirror" \notin hurt' => copy = 1
      BY <2>6 DEF FreeClearFails
    <3> QED
      BY <1>1, <2>6, <3>1, KeepsMirror DEF FreeClearFails, FreeAdvance, disk
  <2>7. CASE AllocScan
    BY <1>1, <2>7, KeepsMirror DEF AllocScan, disk, history
  <2>8. CASE AllocNone
    BY <1>1, <2>8, AbortMirror DEF AllocNone
  <2>9. CASE AllocClaim
    <3>1. /\ pc = "claim" /\ cl \in Clusters /\ hurt' = hurt
          /\ fat' = [fat EXCEPT ![copy][cl] = Eoc]
          /\ \/ copy < FatCount /\ copy' = copy + 1 /\ UNCHANGED <<pc, cl, prev>>
             \/ copy = FatCount /\ copy' = 1 /\ pc' # "claim"
      BY <1>1, <1>2, <2>9 DEF AllocClaim, LocalsInv
    <3>2. CASE "mirror" \in hurt
      BY <3>1, <3>2 DEF MirrorInv
    <3>3. CASE "mirror" \notin hurt
      BY <1>1, <1>2, <3>1, <3>3, SetsMirror DEF Setting, MirrorInv
    <3> QED
      BY <3>2, <3>3
  <2>10. CASE Link
    <3>1. /\ pc = "link" /\ prev \in Clusters /\ hurt' = hurt
          /\ fat' = [fat EXCEPT ![copy][prev] = cl]
          /\ \/ copy < FatCount /\ copy' = copy + 1 /\ UNCHANGED <<pc, cl, prev>>
             \/ copy = FatCount /\ copy' = 1 /\ pc' # "link"
      BY <1>1, <1>2, <2>10 DEF Link, LocalsInv, history
    <3>2. CASE "mirror" \in hurt
      BY <3>1, <3>2 DEF MirrorInv
    <3>3. CASE "mirror" \notin hurt
      BY <1>1, <1>2, <3>1, <3>3, SetsMirror DEF Setting, MirrorInv
    <3> QED
      BY <3>2, <3>3
  <2>11. CASE LinkFails
    <3>1. "mirror" \notin hurt' => copy = 1
      BY <2>11 DEF LinkFails
    <3> QED
      BY <1>1, <2>11, <3>1, KeepsMirror DEF LinkFails, disk
  <2>12. CASE WriteBlock
    BY <1>1, <2>12, KeepsMirror DEF WriteBlock, history
  <2>13. CASE WriteEntry
    BY <1>1, <2>13, KeepsMirror DEF WriteEntry, Return, Reset
  <2>14. CASE MarkDeleted
    BY <1>1, <2>14, KeepsMirror DEF MarkDeleted, Return, Reset
  <2>15. CASE StepFails
    BY <1>1, <2>15, AbortMirror DEF StepFails
  <2> QED
    BY <1>5, <2>1, <2>2, <2>3, <2>4, <2>5, <2>6, <2>7, <2>8, <2>9, <2>10, <2>11,
       <2>12, <2>13, <2>14, <2>15 DEF Step
<1>6. CASE PowerLoss
  BY <1>1, <1>6, AbortMirror DEF PowerLoss
<1>7. CASE UNCHANGED vars
  BY <1>7 DEF vars, disk, call, regs, history, MirrorInv, Setting
<1> QED
  BY <1>3, <1>4, <1>5, <1>6, <1>7 DEF Next

(* For any number of FAT copies: between calls they agree, unless a sector *)
(* failed or the power went while an entry was being set in all of them.   *)
THEOREM MirrorAlways == Spec => []FatMirrored
<1>1. Init => MirrorInv
  BY CopiesFacts DEF Init, MirrorInv
<1>2. IInv /\ MirrorInv => FatMirrored
  <2> SUFFICES ASSUME IInv, MirrorInv, pc = "idle", "mirror" \notin hurt, NEW i \in Copies
               PROVE  fat[i] = fat[1]
    BY DEF FatMirrored
  <2>1. fat[i] \in [Clusters -> {Free, Eoc} \cup Clusters]
        /\ fat[1] \in [Clusters -> {Free, Eoc} \cup Clusters]
    BY CopiesFacts DEF IInv, TypeOK
  <2>2. \A c \in Clusters : fat[i][c] = fat[1][c]
    BY DEF MirrorInv, Setting
  <2> QED
    BY <2>1, <2>2
<1> QED
  BY <1>1, <1>2, NextMirror, IInvAlways, PTL DEF Spec

----------------------------------------------------------------------------
(* No cluster is lost.  Reach is a statement about chains of any length;   *)
(* what a step keeps is local again: every cluster in use has an owner,    *)
(* and a set that holds an owner's first cluster and follows its links     *)
(* holds all its clusters.  While a chain is released the first cluster is *)
(* the next one to be freed; while one is written, the cluster just        *)
(* claimed is not linked yet.                                              *)

Lossless == hurt \subseteq {"mirror", "blindLookup"}

OwnedBy(o, w) == {c \in Clusters : o[c] = w}
UsedBy(f, o, w) == {c \in OwnedBy(o, w) : f[c] # Free}

(* Following w's links from head, in the FAT f, reaches all of part. *)
Covers(f, o, w, head, part) ==
  \A set \in SUBSET Clusters :
    head \in set /\ (\A c \in set : o[c] = w /\ InChain(f[c]) => f[c] \in set) =>
      part \subseteq set

UsedInv ==
  \A c \in Clusters : fat[1][c] # Free /\ c # RootCluster => owner[c] # Nobody

SlotWhole(s) ==
  IF dir[s].state = "file" /\ dir[s].first # 0
    THEN Covers(fat[1], owner, s, dir[s].first, OwnedBy(owner, s))
    ELSE OwnedBy(owner, s) = {}

FilesInv == \A s \in Slots : ~Exempt(s) => SlotWhole(s)

(* What is left of the chain being released. *)
LeftFrom(c) ==
  IF InChain(c) THEN Covers(fat[1], owner, slot, c, UsedBy(fat[1], owner, slot))
                ELSE UsedBy(fat[1], owner, slot) = {}

ReleaseInv ==
  /\ pc = "next" \/ (pc = "clear" /\ copy = 1) => LeftFrom(cl)
  /\ pc = "clear" /\ copy = 1 /\ (InChain(nxt) \/ InChain(fat[1][cl])) => nxt = fat[1][cl]
  /\ pc = "clear" /\ copy # 1 => LeftFrom(nxt)
  /\ pc \in {"alloc", "claim", "link", "block", "entry", "mark"} =>
       UsedBy(fat[1], owner, slot) = {}

(* Claimed, but the tail of the chain does not point at it yet. *)
Unlinked == (pc = "claim" /\ copy # 1) \/ (pc = "link" /\ copy = 1)
Linked == {c \in OwnedBy(owner, Writer) : Unlinked => c # cl}

WriterInv ==
  /\ first = 0 <=> prev = 0
  /\ prev # 0 /\ ~(pc = "link" /\ copy # 1) => fat[1][prev] = Eoc
  /\ Unlinked \/ pc = "link" => fat[1][cl] = Eoc
  /\ Unlinked => prev # cl
  /\ first = 0 => Linked = {}
  /\ first # 0 => Covers(fat[1], owner, Writer, first, Linked)

NoLossInv == UsedInv /\ FilesInv /\ ReleaseInv /\ WriterInv

(* More links cover as much. *)
LEMMA CoversMore ==
  ASSUME NEW f, NEW g, NEW o, NEW q, NEW w, NEW v, NEW head, NEW part, NEW less,
         Covers(f, o, w, head, part), less \subseteq part,
         \A c \in Clusters : o[c] = w /\ InChain(f[c]) => q[c] = v /\ g[c] = f[c]
  PROVE  Covers(g, q, v, head, less)
<1> SUFFICES ASSUME NEW set \in SUBSET Clusters, head \in set,
                    \A c \in set : q[c] = v /\ InChain(g[c]) => g[c] \in set
             PROVE  less \subseteq set
  BY DEF Covers
<1>1. \A c \in set : o[c] = w /\ InChain(f[c]) => f[c] \in set
  OBVIOUS
<1> QED
  BY <1>1 DEF Covers

(* A chain is its first cluster and what follows. *)
LEMMA CoversHead ==
  ASSUME NEW f, NEW o, NEW w, NEW head
  PROVE  Covers(f, o, w, head, {head})
BY DEF Covers

(* Linking a cluster to a covered one covers it. *)
LEMMA CoversGrows ==
  ASSUME NEW f, NEW o, NEW w, NEW head, NEW part, NEW c \in part, NEW more,
         Covers(f, o, w, head, part), o[c] = w, InChain(f[c]),
         more \subseteq part \cup {f[c]}
  PROVE  Covers(f, o, w, head, more)
BY DEF Covers

(* Freeing the first cluster leaves what follows it, all of it and nothing *)
(* if nothing does.                                                        *)
LEMMA CoversFreed ==
  ASSUME NEW f, NEW g, NEW o, NEW w, NEW c \in Clusters, NEW part, NEW less,
         Covers(f, o, w, c, part), o[c] = w, less \subseteq part \ {c},
         \A d \in Clusters \ {c} : g[d] = f[d]
  PROVE  /\ InChain(f[c]) => Covers(g, o, w, f[c], less)
         /\ ~InChain(f[c]) => less = {}
<1>1. ASSUME InChain(f[c]), NEW set \in SUBSET Clusters, f[c] \in set,
             \A d \in set : o[d] = w /\ InChain(g[d]) => g[d] \in set
      PROVE  less \subseteq set
  <2> DEFINE all == set \cup {c}
  <2>1. all \in SUBSET Clusters /\ c \in all
    BY <1>1
  <2>2. \A d \in all : o[d] = w /\ InChain(f[d]) => f[d] \in all
    BY <1>1
  <2>3. part \subseteq all
    <3> HIDE DEF all
    <3> QED
      BY <2>1, <2>2 DEF Covers
  <2> QED
    BY <2>3
<1>2. ASSUME ~InChain(f[c]) PROVE less = {}
  <2>1. {c} \in SUBSET Clusters /\ \A d \in {c} : o[d] = w /\ InChain(f[d]) => f[d] \in {c}
    BY <1>2
  <2>2. part \subseteq {c}
    BY <2>1 DEF Covers
  <2> QED
    BY <2>2
<1> QED
  BY <1>1, <1>2 DEF Covers

(* While no chain is being written, nothing is claimed. *)
LEMMA NoWriter ==
  ASSUME TypeOK', LocalsInv', OwnInv', pc' \in {"idle", "lookup", "next", "clear", "mark"}
  PROVE  WriterInv'
<1>1. first' = 0 /\ prev' = 0 /\ ~Unlinked' /\ pc' # "link" /\ \A c \in Clusters : owner'[c] # Writer
  BY DEF LocalsInv, OwnInv, CallInv, Unlinked
<1>2. Linked' = {}
  BY <1>1 DEF Linked, OwnedBy
<1> QED
  BY <1>1, <1>2 DEF WriterInv

(* Files keep their chains when no link and no owner of theirs changes. *)
LEMMA SameFiles ==
  ASSUME TypeOK, FilesInv,
         \A s \in Slots : ~Exempt(s)' => ~Exempt(s) /\ dir'[s] = dir[s],
         \A s \in Slots : ~Exempt(s)' => \A c \in Clusters :
           /\ owner'[c] = s <=> owner[c] = s
           /\ owner[c] = s => fat'[1][c] = fat[1][c]
  PROVE  FilesInv'
<1> SUFFICES ASSUME NEW s \in Slots, ~Exempt(s)' PROVE SlotWhole(s)'
  BY DEF FilesInv
<1>1. ~Exempt(s) /\ SlotWhole(s) /\ dir'[s] = dir[s]
  BY DEF FilesInv
<1>2. \A c \in Clusters : owner[c] = s => owner'[c] = s /\ fat'[1][c] = fat[1][c]
  OBVIOUS
<1>3. OwnedBy(owner', s) = OwnedBy(owner, s)
  BY DEF OwnedBy
<1>4. CASE dir[s].state = "file" /\ dir[s].first # 0
  <2>1. Covers(fat[1], owner, s, dir[s].first, OwnedBy(owner, s))
    BY <1>1, <1>4 DEF SlotWhole
  <2>2. Covers(fat'[1], owner', s, dir[s].first, OwnedBy(owner, s))
    BY <1>2, <2>1, CoversMore
  <2> QED
    BY <1>1, <1>3, <1>4, <2>2 DEF SlotWhole
<1>5. CASE ~(dir[s].state = "file" /\ dir[s].first # 0)
  BY <1>1, <1>3, <1>5 DEF SlotWhole
<1> QED
  BY <1>4, <1>5

(* A step that only moves the call along: the locals are what changes. *)
LEMMA SameDisk ==
  ASSUME TypeOK, UsedInv, FilesInv, UNCHANGED <<fat, dir, owner>>,
         released' = released, slot' = slot \/ ~released
  PROVE  UsedInv' /\ FilesInv'
<1>1. \A s \in Slots : ~Exempt(s)' => ~Exempt(s)
  BY DEF Exempt
<1>2. FilesInv'
  BY <1>1, SameFiles
<1> QED
  BY <1>2 DEF UsedInv

LEMMA AbortLoss ==
  ASSUME IInv, IInv', NoLossInv, NEW r, Abort(r), Lossless'
  PROVE  NoLossInv'
<1>1. /\ pc' = "idle" /\ released' = FALSE /\ hurt' = hurt \cup AbortWounds
      /\ UNCHANGED <<fat, dir>>
      /\ owner' = [c \in Clusters |-> IF owner[c] = Writer THEN Nobody ELSE owner[c]]
  BY DEF Abort, Return, Reset, disk
<1>2. ~released /\ first = 0 /\ ~(pc = "claim" /\ copy > 1)
  BY <1>1 DEF Lossless, AbortWounds
<1>3. TypeOK /\ LocalsInv /\ TypeOK' /\ LocalsInv' /\ OwnInv'
  BY DEF IInv, Lossless
<1>4. copy # 1 => copy > 1
  BY <1>3, VolumeAssumption DEF TypeOK, Copies
<1>5. pc # "link"
  BY <1>2, <1>3, FatFacts DEF LocalsInv, NoLossInv, WriterInv
<1>6. \A c \in Clusters : owner[c] # Writer
  <2>1. ~Unlinked
    BY <1>2, <1>4, <1>5 DEF Unlinked
  <2> QED
    BY <1>2, <2>1 DEF NoLossInv, WriterInv, Linked, OwnedBy
<1>7. \A c \in Clusters : owner'[c] = owner[c]
  BY <1>1, <1>6
<1>8. UsedInv'
  BY <1>1, <1>7 DEF NoLossInv, UsedInv
<1>9. FilesInv'
  <2>1. \A s \in Slots : ~Exempt(s)
    BY <1>2 DEF Exempt
  <2> QED
    BY <1>1, <1>3, <1>7, <2>1, SameFiles DEF NoLossInv
<1>10. ReleaseInv'
  BY <1>1 DEF ReleaseInv
<1>11. WriterInv'
  BY <1>1, <1>3, NoWriter
<1> QED
  BY <1>8, <1>9, <1>10, <1>11 DEF NoLossInv

(* Once the copies of an entry are cleared, free_chain goes on to the next *)
(* cluster, or the call to what it does when nothing is left.              *)
LEMMA AdvanceLoss ==
  ASSUME TypeOK, LocalsInv, OwnInv, pc = "clear", FreeAdvance,
         UNCHANGED <<slot, first, prev, owner>>,
         InChain(nxt) => Covers(fat'[1], owner', slot, nxt, UsedBy(fat'[1], owner', slot)),
         ~InChain(nxt) => UsedBy(fat'[1], owner', slot) = {}
  PROVE  ReleaseInv' /\ WriterInv'
<1>1. /\ pc' \in {"next", "mark", "entry", "alloc"} /\ copy' = 1
      /\ pc' = "next" => InChain(nxt) /\ cl' = nxt
      /\ pc' # "next" => ~InChain(nxt)
  BY AfterReleaseType DEF FreeAdvance
<1>2. ReleaseInv'
  <2>1. CASE pc' = "next"
    BY <1>1, <2>1 DEF ReleaseInv, LeftFrom
  <2>2. CASE pc' # "next"
    BY <1>1, <2>2 DEF ReleaseInv
  <2> QED
    BY <2>1, <2>2
<1>3. first' = 0 /\ prev' = 0 /\ \A c \in Clusters : owner'[c] # Writer
  BY DEF LocalsInv, OwnInv, CallInv
<1>4. ~Unlinked' /\ pc' # "link"
  BY <1>1 DEF Unlinked
<1>5. Linked' = {}
  BY <1>3 DEF Linked, OwnedBy
<1> QED
  BY <1>2, <1>3, <1>4, <1>5 DEF WriterInv

LEMMA ClearLoss ==
  ASSUME IInv, IInv', NoLossInv, FreeClear, Lossless, Lossless'
  PROVE  NoLossInv'
<1>1. /\ pc = "clear" /\ released' = TRUE /\ fat' = [fat EXCEPT ![copy][cl] = Free]
      /\ UNCHANGED <<dir, slot, first, prev, owner>>
  BY DEF FreeClear, call
<1>2. TypeOK /\ LocalsInv /\ OwnInv /\ TypeOK' /\ LocalsInv' /\ OwnInv'
  BY DEF IInv, Lossless
<1>3. /\ cl \in Clusters /\ owner[cl] = slot /\ 1 \in Copies /\ copy \in Copies
      /\ slot \in Slots
  BY <1>1, <1>2, FatFacts DEF LocalsInv, OwnInv, CallInv, TypeOK
<1>4. \A c \in Clusters : fat'[1][c] = IF copy = 1 /\ c = cl THEN Free ELSE fat[1][c]
  BY <1>1, <1>2, <1>3 DEF TypeOK
<1>5. UsedInv'
  BY <1>1, <1>4 DEF NoLossInv, UsedInv
<1>6. FilesInv'
  <2>1. \A s \in Slots : ~Exempt(s)' => ~Exempt(s) /\ s # slot
    BY <1>1 DEF Exempt
  <2> QED
    BY <1>1, <1>2, <1>3, <1>4, <2>1, SameFiles DEF NoLossInv
<1> DEFINE before == UsedBy(fat[1], owner, slot)
           after == UsedBy(fat'[1], owner', slot)
<1>7. /\ InChain(nxt) => Covers(fat'[1], owner', slot, nxt, after)
      /\ ~InChain(nxt) => after = {}
  <2>1. CASE copy = 1
    <3>1. Covers(fat[1], owner, slot, cl, before)
      BY <1>1, <1>3, <2>1 DEF NoLossInv, ReleaseInv, LeftFrom, InChain
    <3>2. after \subseteq before \ {cl}
      BY <1>1, <1>3, <1>4, <2>1 DEF UsedBy, OwnedBy
    <3>3. \A c \in Clusters \ {cl} : fat'[1][c] = fat[1][c]
      BY <1>4
    <3>4. InChain(nxt) \/ InChain(fat[1][cl]) => nxt = fat[1][cl]
      BY <1>1, <2>1 DEF NoLossInv, ReleaseInv
    <3> HIDE DEF before, after
    <3>5. /\ InChain(fat[1][cl]) => Covers(fat'[1], owner, slot, fat[1][cl], after)
          /\ ~InChain(fat[1][cl]) => after = {}
      BY <1>3, <3>1, <3>2, <3>3, CoversFreed
    <3> QED
      BY <1>1, <3>4, <3>5
  <2>2. CASE copy # 1
    <3>1. LeftFrom(nxt)
      BY <1>1, <2>2 DEF NoLossInv, ReleaseInv
    <3>2. \A c \in Clusters : fat'[1][c] = fat[1][c]
      BY <1>4, <2>2
    <3>3. after = before
      BY <1>1, <3>2 DEF UsedBy, OwnedBy
    <3> HIDE DEF before, after
    <3>4. CASE InChain(nxt)
      <4>1. Covers(fat[1], owner, slot, nxt, before)
        BY <3>1, <3>4 DEF LeftFrom, before
      <4>2. Covers(fat'[1], owner, slot, nxt, before)
        BY <3>2, <4>1, CoversMore
      <4> QED
        BY <1>1, <3>3, <3>4, <4>2
    <3>5. CASE ~InChain(nxt)
      <4>1. before = {}
        BY <3>1, <3>5 DEF LeftFrom, before
      <4> QED
        BY <3>3, <3>5, <4>1
    <3> QED
      BY <3>4, <3>5
  <2> QED
    BY <2>1, <2>2
<1> HIDE DEF before, after
<1>8. ReleaseInv' /\ WriterInv'
  <2>1. CASE copy < FatCount
    <3>1. copy' = copy + 1 /\ UNCHANGED <<pc, cl, nxt>>
      BY <2>1 DEF FreeClear
    <3>2. copy' # 1 /\ pc' = "clear"
      BY <1>1, <1>2, <3>1, VolumeAssumption DEF TypeOK, Copies
    <3>3. LeftFrom(nxt)'
      BY <1>1, <1>7, <3>1 DEF LeftFrom, after
    <3>4. ReleaseInv'
      BY <3>2, <3>3 DEF ReleaseInv
    <3> QED
      BY <1>2, <3>2, <3>4, NoWriter
  <2>2. CASE ~(copy < FatCount)
    <3>1. FreeAdvance
      BY <2>2 DEF FreeClear
    <3> QED
      BY <1>1, <1>2, <1>7, <3>1, AdvanceLoss DEF after
  <2> QED
    BY <2>1, <2>2
<1> QED
  BY <1>5, <1>6, <1>8 DEF NoLossInv

(* A cluster freed in the first copy is freed; the call goes on. *)
LEMMA ClearFailsLoss ==
  ASSUME IInv, IInv', NoLossInv, FreeClearFails, Lossless, Lossless'
  PROVE  NoLossInv'
<1>1. /\ pc = "clear" /\ FreeAdvance
      /\ UNCHANGED <<fat, dir, slot, first, prev, owner, released>>
      /\ hurt' = hurt \cup (IF copy = 1 THEN {"leak"} ELSE {"mirror"})
  BY DEF FreeClearFails, disk, call
<1>2. TypeOK /\ LocalsInv /\ OwnInv
  BY DEF IInv, Lossless
<1>3. copy # 1
  BY <1>1 DEF Lossless
<1>4. LeftFrom(nxt)
  BY <1>1, <1>3 DEF NoLossInv, ReleaseInv
<1>5. /\ InChain(nxt) => Covers(fat'[1], owner', slot, nxt, UsedBy(fat'[1], owner', slot))
      /\ ~InChain(nxt) => UsedBy(fat'[1], owner', slot) = {}
  BY <1>1, <1>4 DEF LeftFrom
<1>6. ReleaseInv' /\ WriterInv'
  BY <1>1, <1>2, <1>5, AdvanceLoss
<1>7. UsedInv' /\ FilesInv'
  BY <1>1, <1>2, SameDisk DEF NoLossInv
<1> QED
  BY <1>6, <1>7 DEF NoLossInv

(* Looking up and calling. *)
LEMMA LookupLoss ==
  ASSUME IInv, IInv', NoLossInv, Lossless, Lossless', NEW s \in Slots,
         LookupHit(s) \/ LookupNewSlot(s)
  PROVE  NoLossInv'
<1>1. /\ pc = "lookup" /\ slot' = s /\ UNCHANGED <<fat, dir, owner, released, first, prev>>
  BY DEF LookupHit, LookupNewSlot, disk, history
<1>2. TypeOK /\ LocalsInv /\ OwnInv /\ TypeOK' /\ LocalsInv' /\ OwnInv'
  BY DEF IInv, Lossless
<1>3. ~released /\ first = 0 /\ prev = 0 /\ \A c \in Clusters : owner[c] # Writer
  BY <1>1, <1>2 DEF LocalsInv, OwnInv, CallInv
<1>4. UsedInv' /\ FilesInv'
  BY <1>1, <1>2, <1>3, SameDisk DEF NoLossInv
<1>5. SlotWhole(s)
  BY <1>3 DEF NoLossInv, FilesInv, Exempt
<1>6. pc' = "next" \/ pc' = AfterRelease
  BY DEF LookupHit, LookupNewSlot
<1>7. pc' \in {"next", "mark", "entry", "alloc"}
  BY <1>2, <1>6, AfterReleaseType
<1>8. WriterInv'
  <2>1. first' = 0 /\ prev' = 0 /\ ~Unlinked' /\ pc' # "link"
    BY <1>1, <1>3, <1>7 DEF Unlinked
  <2>2. Linked' = {}
    BY <1>1, <1>3 DEF Linked, OwnedBy
  <2> QED
    BY <2>1, <2>2 DEF WriterInv
<1>9. ReleaseInv'
  <2>1. CASE dir[s].state = "file" /\ dir[s].first # 0 /\ LookupHit(s)
    <3>1. dir[s].first \in Clusters
      BY <1>2, <2>1, FatFacts
    <3>2. pc' = "next" /\ cl' = dir[s].first
      BY <2>1, <3>1 DEF LookupHit, Clusters
    <3>3. Covers(fat[1], owner, s, dir[s].first, OwnedBy(owner, s))
      BY <1>5, <2>1 DEF SlotWhole
    <3>4. UsedBy(fat[1], owner, s) \subseteq OwnedBy(owner, s)
      BY DEF UsedBy
    <3>5. Covers(fat[1], owner, s, dir[s].first, UsedBy(fat[1], owner, s))
      BY <3>3, <3>4, CoversMore
    <3>6. LeftFrom(cl)'
      BY <1>1, <3>1, <3>2, <3>5 DEF LeftFrom, InChain
    <3> QED
      BY <3>2, <3>6 DEF ReleaseInv
  <2>2. CASE ~(dir[s].state = "file" /\ dir[s].first # 0 /\ LookupHit(s))
    <3>1. CASE LookupHit(s)
      <4>1. dir[s].state = "file" /\ dir[s].first = 0
        BY <2>2, <3>1 DEF LookupHit, FirstHit, Hit
      <4>2. pc' # "next"
        BY <1>7, <3>1, <4>1, <1>2, AfterReleaseType DEF LookupHit
      <4>3. OwnedBy(owner, s) = {}
        BY <1>5, <4>1 DEF SlotWhole
      <4>4. UsedBy(fat[1], owner, slot)' = {}
        BY <1>1, <4>3 DEF UsedBy
      <4> QED
        BY <1>7, <4>2, <4>4 DEF ReleaseInv
    <3>2. CASE LookupNewSlot(s)
      <4>1. dir[s].state # "file"
        BY <3>2 DEF LookupNewSlot, FirstReusable, Reusable
      <4>2. pc' # "next"
        BY <3>2, <1>2, AfterReleaseType DEF LookupNewSlot
      <4>3. OwnedBy(owner, s) = {}
        BY <1>5, <4>1 DEF SlotWhole
      <4>4. UsedBy(fat[1], owner, slot)' = {}
        BY <1>1, <4>3 DEF UsedBy
      <4> QED
        BY <1>7, <4>2, <4>4 DEF ReleaseInv
    <3> QED
      BY <3>1, <3>2
  <2> QED
    BY <2>1, <2>2
<1> QED
  BY <1>4, <1>8, <1>9 DEF NoLossInv

(* Steps that read the FAT or write a block. *)
LEMMA QuietLoss ==
  ASSUME IInv, IInv', NoLossInv, Lossless, Lossless',
         \/ \E n \in Names, b \in Contents : CallWrite(n, b)
         \/ \E n \in Names : CallDelete(n)
         \/ FreeNext \/ AllocScan \/ WriteBlock \/ LinkFails
  PROVE  NoLossInv'
<1>1. /\ UNCHANGED <<fat, dir, owner, released, first>>
      /\ UNCHANGED slot \/ ~released
  BY DEF CallWrite, CallDelete, FreeNext, AllocScan, WriteBlock, LinkFails, disk, history, regs, call
<1>2. TypeOK /\ LocalsInv /\ OwnInv /\ TypeOK' /\ LocalsInv' /\ OwnInv'
  BY DEF IInv, Lossless
<1>3. UsedInv' /\ FilesInv'
  BY <1>1, <1>2, SameDisk DEF NoLossInv
<1>4. CASE (\E n \in Names, b \in Contents : CallWrite(n, b)) \/ \E n \in Names : CallDelete(n)
  <2>1. pc' = "lookup"
    BY <1>4 DEF CallWrite, CallDelete
  <2>2. ReleaseInv'
    BY <2>1 DEF ReleaseInv
  <2> QED
    BY <1>2, <1>3, <2>1, <2>2, NoWriter DEF NoLossInv
<1>5. CASE FreeNext
  <2>1. /\ pc = "next" /\ pc' = "clear" /\ copy' = 1 /\ UNCHANGED <<cl, slot>>
    BY <1>5 DEF FreeNext
  <2>2. InChain(nxt') \/ InChain(fat[1][cl]) => nxt' = fat[1][cl]
    <3>1. PICK failed \in BOOLEAN :
            /\ nxt' = IF failed THEN Bad ELSE fat[1][cl]
            /\ hurt' = hurt \cup IF failed /\ InChain(fat[1][cl]) THEN {"leak"} ELSE {}
      BY <1>5 DEF FreeNext
    <3>2. failed => ~InChain(fat[1][cl])
      BY <3>1 DEF Lossless
    <3>3. ~InChain(Bad)
      BY <1>2, FatFacts DEF InChain
    <3> QED
      BY <3>1, <3>2, <3>3
  <2>3. LeftFrom(cl)
    BY <2>1 DEF NoLossInv, ReleaseInv
  <2>4. LeftFrom(cl)'
    BY <1>1, <2>1, <2>3 DEF LeftFrom
  <2>5. ReleaseInv'
    BY <1>1, <2>1, <2>2, <2>4 DEF ReleaseInv
  <2> QED
    BY <1>2, <1>3, <2>1, <2>5, NoWriter DEF NoLossInv
<1>6. CASE AllocScan \/ WriteBlock \/ LinkFails
  <2>1. /\ pc \in {"alloc", "block", "link"} /\ pc' \in {"claim", "alloc", "entry", "block"}
        /\ UNCHANGED slot
    BY <1>6 DEF AllocScan, WriteBlock, LinkFails, call
  <2>2. ReleaseInv'
    BY <1>1, <2>1 DEF NoLossInv, ReleaseInv
  <2>3. ~Unlinked'
    <3>1. CASE AllocScan
      BY <3>1 DEF AllocScan, Unlinked
    <3>2. CASE WriteBlock
      BY <2>1, <3>2 DEF WriteBlock, Unlinked
    <3>3. CASE LinkFails
      BY <3>3 DEF LinkFails, Unlinked
    <3> QED
      BY <1>6, <3>1, <3>2, <3>3
  <2>4. ~Unlinked
    <3>1. CASE AllocScan
      BY <3>1 DEF AllocScan, Unlinked
    <3>2. CASE WriteBlock
      BY <3>2 DEF WriteBlock, Unlinked
    <3>3. CASE LinkFails
      BY <3>3 DEF LinkFails, Unlinked, Lossless
    <3> QED
      BY <1>6, <3>1, <3>2, <3>3
  <2>5. Linked' = Linked
    BY <1>1, <2>3, <2>4 DEF Linked
  <2>6. (first' = 0 <=> prev' = 0) /\ (prev' # 0 => fat'[1][prev'] = Eoc)
    <3>1. CASE AllocScan
      BY <1>1, <3>1 DEF AllocScan, NoLossInv, WriterInv
    <3>2. CASE WriteBlock
      BY <1>1, <3>2 DEF WriteBlock, NoLossInv, WriterInv
    <3>3. CASE LinkFails
      <4>1. pc = "link" /\ prev' = cl /\ prev \in Clusters /\ cl \in Clusters
        BY <1>2, <3>3 DEF LinkFails, LocalsInv
      <4>2. fat[1][cl] = Eoc /\ first # 0
        BY <1>2, <4>1, FatFacts DEF NoLossInv, WriterInv
      <4> QED
        BY <1>1, <1>2, <4>1, <4>2, FatFacts
    <3> QED
      BY <1>6, <3>1, <3>2, <3>3
  <2>7. pc' # "link"
    BY <2>1
  <2>8. WriterInv'
    BY <1>1, <2>3, <2>5, <2>6, <2>7 DEF NoLossInv, WriterInv
  <2> QED
    BY <1>3, <2>2, <2>8 DEF NoLossInv
<1> QED
  BY <1>4, <1>5, <1>6

LEMMA ClaimLoss ==
  ASSUME IInv, IInv', NoLossInv, Lossless, Lossless', AllocClaim
  PROVE  NoLossInv'
<1>1. /\ pc = "claim" /\ UNCHANGED <<dir, slot, released, cl>>
      /\ fat' = [fat EXCEPT ![copy][cl] = Eoc] /\ owner' = [owner EXCEPT ![cl] = Writer]
  BY DEF AllocClaim
<1>2. TypeOK /\ LocalsInv /\ OwnInv /\ TypeOK' /\ LocalsInv' /\ OwnInv'
  BY DEF IInv, Lossless
<1>3. /\ cl \in Clusters /\ 1 \in Copies /\ copy \in Copies /\ slot \in Slots
      /\ Writer # Nobody /\ Writer \notin Slots /\ Eoc # Free /\ 0 \notin Clusters
  BY <1>1, <1>2, FatFacts, OwnerAssumption DEF LocalsInv, TypeOK
<1>4. \A c \in Clusters : fat'[1][c] = IF copy = 1 /\ c = cl THEN Eoc ELSE fat[1][c]
  BY <1>1, <1>2, <1>3 DEF TypeOK
<1>5. \A c \in Clusters : owner'[c] = IF c = cl THEN Writer ELSE owner[c]
  BY <1>1, <1>2 DEF TypeOK
<1>6. /\ copy = 1 => fat[1][cl] = Free
      /\ copy # 1 => owner[cl] = Writer /\ fat[1][cl] = Eoc /\ prev # cl
  BY <1>1, <1>2 DEF OwnInv, CallInv, NoLossInv, WriterInv, Unlinked
<1>7. UsedInv'
  BY <1>3, <1>4, <1>5 DEF NoLossInv, UsedInv
<1>8. \A s \in Slots : ~Exempt(s) => owner[cl] # s
  BY <1>2, <1>3, <1>6 DEF OwnInv, Kept
<1>9. FilesInv'
  <2>1. \A s \in Slots : ~Exempt(s)' => ~Exempt(s)
    BY <1>1 DEF Exempt
  <2>2. \A s \in Slots : ~Exempt(s)' => \A c \in Clusters :
           /\ owner'[c] = s <=> owner[c] = s
           /\ owner[c] = s => fat'[1][c] = fat[1][c]
    BY <1>3, <1>4, <1>5, <1>8, <2>1
  <2> QED
    BY <1>1, <1>2, <2>1, <2>2, SameFiles DEF NoLossInv
<1>10. UsedBy(fat[1], owner, slot)' = {}
  <2>1. UsedBy(fat[1], owner, slot) = {}
    BY <1>1 DEF NoLossInv, ReleaseInv
  <2> SUFFICES ASSUME NEW c \in Clusters, owner'[c] = slot, fat'[1][c] # Free PROVE FALSE
    BY <1>1 DEF UsedBy, OwnedBy
  <2>2. c # cl /\ owner[c] = slot /\ fat[1][c] # Free
    BY <1>3, <1>4, <1>5
  <2> QED
    BY <2>1, <2>2 DEF UsedBy, OwnedBy
<1>11. pc' \in {"claim", "link", "block"}
  BY <1>1 DEF AllocClaim
<1>12. ReleaseInv'
  BY <1>10, <1>11 DEF ReleaseInv
<1> DEFINE part == {c \in OwnedBy(owner', Writer) : c # cl}
<1>13. part = Linked
  <2>1. Unlinked <=> copy # 1
    BY <1>1 DEF Unlinked
  <2>2. copy = 1 => owner[cl] # Writer
    BY <1>2, <1>3, <1>6 DEF OwnInv, Kept
  <2>3. \A c \in Clusters : owner'[c] = Writer /\ c # cl <=> owner[c] = Writer /\ c # cl
    BY <1>5
  <2>4. \A c \in Clusters : c \in part <=> owner'[c] = Writer /\ c # cl
    BY DEF OwnedBy
  <2>5. \A c \in Clusters : c \in Linked <=> owner[c] = Writer /\ (copy # 1 => c # cl)
    BY <2>1 DEF Linked, OwnedBy
  <2>6. part \subseteq Clusters /\ Linked \subseteq Clusters
    BY DEF OwnedBy, Linked
  <2> HIDE DEF part
  <2> QED
    BY <2>2, <2>3, <2>4, <2>5, <2>6
<1>14. /\ first = 0 => part = {}
       /\ first # 0 => Covers(fat'[1], owner', Writer, first, part)
  <2>1. first = 0 => part = {}
    BY <1>13 DEF NoLossInv, WriterInv
  <2>2. ASSUME first # 0 PROVE Covers(fat'[1], owner', Writer, first, part)
    <3>1. Covers(fat[1], owner, Writer, first, Linked)
      BY <2>2 DEF NoLossInv, WriterInv
    <3>2. \A c \in Clusters : owner[c] = Writer /\ InChain(fat[1][c]) =>
                              owner'[c] = Writer /\ fat'[1][c] = fat[1][c]
      BY <1>2, <1>4, <1>5, <1>6, FatFacts DEF InChain
    <3> HIDE DEF part
    <3> QED
      BY <1>13, <3>1, <3>2, CoversMore
  <2> QED
    BY <2>1, <2>2
<1>15. /\ fat'[1][cl] = Eoc /\ prev # cl /\ (first = 0 <=> prev = 0)
       /\ prev # 0 => fat'[1][prev] = Eoc /\ prev \in Clusters
  <2>1. fat'[1][cl] = Eoc
    BY <1>3, <1>4, <1>6
  <2>2. (first = 0 <=> prev = 0) /\ (prev # 0 => fat[1][prev] = Eoc /\ prev \in Clusters)
    BY <1>1, <1>2 DEF NoLossInv, WriterInv, TypeOK
  <2>3. prev # cl
    BY <1>3, <1>6, <2>2
  <2> QED
    BY <1>4, <2>1, <2>2, <2>3
<1>16. WriterInv'
  <2>1. CASE copy < FatCount
    <3>1. copy' = copy + 1 /\ UNCHANGED <<pc, first, prev>>
      BY <2>1 DEF AllocClaim
    <3>2. copy' # 1 /\ pc' = "claim" /\ Unlinked'
      BY <1>1, <1>2, <3>1, VolumeAssumption DEF TypeOK, Copies, Unlinked
    <3>3. Linked' = part
      BY <1>1, <3>2 DEF Linked
    <3> HIDE DEF part
    <3> QED
      BY <1>1, <1>14, <1>15, <3>1, <3>2, <3>3 DEF WriterInv
  <2>2. CASE ~(copy < FatCount) /\ prev # 0
    <3>1. first # 0 /\ pc' = "link" /\ copy' = 1 /\ first' = first /\ prev' = prev
      BY <1>15, <2>2 DEF AllocClaim
    <3>2. Unlinked'
      BY <3>1 DEF Unlinked
    <3>3. Linked' = part
      BY <1>1, <3>2 DEF Linked
    <3> HIDE DEF part
    <3> QED
      BY <1>1, <1>14, <1>15, <3>1, <3>2, <3>3 DEF WriterInv
  <2>3. CASE ~(copy < FatCount) /\ prev = 0
    <3>1. first = 0 /\ pc' = "block" /\ first' = cl /\ prev' = cl
      BY <1>15, <2>3 DEF AllocClaim
    <3>2. ~Unlinked'
      BY <3>1 DEF Unlinked
    <3>3. part = {}
      BY <1>14, <3>1
    <3>4. Linked' \subseteq {cl}
      <4>1. Linked' = OwnedBy(owner', Writer)
        BY <3>2 DEF Linked, OwnedBy
      <4> QED
        BY <3>3, <4>1
    <3>5. Covers(fat'[1], owner', Writer, cl, Linked')
      <4>1. Covers(fat'[1], owner', Writer, cl, {cl})
        BY CoversHead
      <4> QED
        BY <3>4, <4>1, CoversMore
    <3> HIDE DEF part
    <3> QED
      BY <1>1, <1>3, <1>15, <3>1, <3>2, <3>5 DEF WriterInv
  <2> QED
    BY <2>1, <2>2, <2>3
<1> QED
  BY <1>7, <1>9, <1>12, <1>16 DEF NoLossInv

LEMMA LinkLoss ==
  ASSUME IInv, IInv', NoLossInv, Lossless, Lossless', Link
  PROVE  NoLossInv'
<1>1. /\ pc = "link" /\ UNCHANGED <<dir, slot, released, cl, owner, first>>
      /\ fat' = [fat EXCEPT ![copy][prev] = cl]
  BY DEF Link, history
<1>2. TypeOK /\ LocalsInv /\ OwnInv /\ TypeOK' /\ LocalsInv' /\ OwnInv'
  BY DEF IInv, Lossless
<1>3. /\ cl \in Clusters /\ prev \in Clusters /\ 1 \in Copies /\ copy \in Copies /\ slot \in Slots
      /\ Writer # Nobody /\ Writer \notin Slots /\ Eoc # Free /\ 0 \notin Clusters
      /\ ~InChain(Eoc)
  BY <1>1, <1>2, FatFacts, OwnerAssumption DEF LocalsInv, TypeOK, InChain
<1>4. \A c \in Clusters : fat'[1][c] = IF copy = 1 /\ c = prev THEN cl ELSE fat[1][c]
  BY <1>1, <1>2, <1>3 DEF TypeOK
<1>5. owner[prev] = Writer /\ owner[cl] = Writer
  BY <1>1, <1>2, <1>3 DEF OwnInv, CallInv
<1>6. UsedInv'
  BY <1>1, <1>3, <1>4, <1>5 DEF NoLossInv, UsedInv
<1>7. FilesInv'
  <2>1. \A s \in Slots : ~Exempt(s)' => ~Exempt(s)
    BY <1>1 DEF Exempt
  <2>2. \A s \in Slots : ~Exempt(s)' => \A c \in Clusters :
           /\ owner'[c] = s <=> owner[c] = s
           /\ owner[c] = s => fat'[1][c] = fat[1][c]
    BY <1>1, <1>3, <1>4, <1>5
  <2> QED
    BY <1>1, <1>2, <2>1, <2>2, SameFiles DEF NoLossInv
<1>8. UsedBy(fat[1], owner, slot)' = {}
  <2>1. UsedBy(fat[1], owner, slot) = {}
    BY <1>1 DEF NoLossInv, ReleaseInv
  <2> QED
    BY <1>1, <1>3, <1>4, <1>5, <2>1 DEF UsedBy, OwnedBy
<1>9. pc' \in {"link", "block"}
  BY <1>1 DEF Link
<1>10. ReleaseInv'
  BY <1>8, <1>9 DEF ReleaseInv
<1>11. fat'[1][cl] = Eoc /\ first # 0
  <2>1. fat[1][cl] = Eoc /\ first # 0 /\ (copy = 1 => prev # cl)
    BY <1>1, <1>3 DEF NoLossInv, WriterInv, Unlinked
  <2> QED
    BY <1>3, <1>4, <2>1
<1> DEFINE part == OwnedBy(owner, Writer)
<1>12. Covers(fat'[1], owner', Writer, first, part)
  <2>1. Covers(fat[1], owner, Writer, first, Linked)
    BY <1>11 DEF NoLossInv, WriterInv
  <2>2. CASE copy = 1
    <3>1. fat[1][prev] = Eoc /\ prev # cl /\ \A c \in Clusters : c \in Linked <=> c \in part /\ c # cl
      BY <1>1, <1>3, <2>2 DEF NoLossInv, WriterInv, Unlinked, Linked, OwnedBy
    <3>2. \A c \in Clusters : owner[c] = Writer /\ InChain(fat[1][c]) => fat'[1][c] = fat[1][c]
      BY <1>3, <1>4, <3>1
    <3>3. Covers(fat'[1], owner, Writer, first, Linked)
      BY <2>1, <3>2, CoversMore
    <3>4. prev \in Linked /\ fat'[1][prev] = cl /\ InChain(cl)
      BY <1>3, <1>4, <1>5, <2>2, <3>1 DEF OwnedBy, InChain
    <3>5. part \subseteq Linked \cup {cl}
      BY <3>1 DEF OwnedBy
    <3> HIDE DEF part
    <3>6. prev \in Linked /\ InChain(fat'[1][prev]) /\ part \subseteq Linked \cup {fat'[1][prev]}
      BY <3>4, <3>5
    <3>7. Covers(fat'[1], owner, Writer, first, part)
      BY <1>5, <3>3, <3>6, CoversGrows
    <3> QED
      BY <1>1, <3>7
  <2>3. CASE copy # 1
    <3>1. Linked = part
      BY <1>1, <2>3 DEF Linked, Unlinked, OwnedBy
    <3>2. \A c \in Clusters : fat'[1][c] = fat[1][c]
      BY <1>4, <2>3
    <3> HIDE DEF part
    <3>3. Covers(fat[1], owner, Writer, first, part)
      BY <2>1, <3>1
    <3>4. Covers(fat'[1], owner, Writer, first, part)
      BY <3>2, <3>3, CoversMore
    <3> QED
      BY <1>1, <3>4
  <2> QED
    BY <2>2, <2>3
<1>13. ~Unlinked'
  BY <1>2, VolumeAssumption DEF Link, Unlinked, TypeOK, Copies
<1>14. Linked' = part
  BY <1>1, <1>13 DEF Linked, OwnedBy
<1>15. /\ prev' # 0 /\ (~(pc' = "link" /\ copy' # 1) => fat'[1][prev'] = Eoc)
  <2>1. CASE copy < FatCount
    <3>1. copy' # 1 /\ pc' = "link" /\ prev' = prev
      BY <1>1, <1>2, <2>1, VolumeAssumption DEF Link, TypeOK, Copies
    <3> QED
      BY <1>3, <3>1
  <2>2. CASE ~(copy < FatCount)
    BY <1>3, <1>11, <2>2 DEF Link
  <2> QED
    BY <2>1, <2>2
<1> HIDE DEF part
<1>16. WriterInv'
  BY <1>1, <1>11, <1>12, <1>13, <1>14, <1>15 DEF WriterInv
<1> QED
  BY <1>6, <1>7, <1>10, <1>16 DEF NoLossInv

LEMMA EntryLoss ==
  ASSUME IInv, IInv', NoLossInv, Lossless, Lossless', WriteEntry
  PROVE  NoLossInv'
<1>1. /\ fat' = fat /\ ~released' /\ pc' = "idle" /\ pc = "entry"
      /\ dir' = [dir EXCEPT ![slot] = FileSlot(name, first, Len(body))]
  BY DEF WriteEntry, Return, Reset
<1>2. TypeOK /\ LocalsInv /\ OwnInv /\ TypeOK' /\ LocalsInv' /\ OwnInv'
  BY DEF IInv, Lossless
<1>3. slot \in Slots /\ slot # Writer /\ slot # Nobody /\ Writer # Nobody
  BY <1>2, FatFacts, OwnerAssumption
<1>4. \A c \in Clusters : owner'[c] = IF owner[c] = slot THEN Nobody
                                      ELSE IF owner[c] = Writer THEN slot ELSE owner[c]
  BY <1>3 DEF WriteEntry
<1>5. UsedBy(fat[1], owner, slot) = {} /\ ~Unlinked
  BY <1>1 DEF NoLossInv, ReleaseInv, Unlinked
<1>6. UsedInv'
  BY <1>1, <1>3, <1>4, <1>5 DEF NoLossInv, UsedInv, UsedBy, OwnedBy
<1>7. ASSUME NEW s \in Slots, s # slot PROVE SlotWhole(s)'
  <2>1. SlotWhole(s) /\ dir'[s] = dir[s] /\ s # Nobody /\ s # Writer
    BY <1>1, <1>2, <1>7, OwnerAssumption DEF NoLossInv, FilesInv, Exempt, TypeOK
  <2>2. \A c \in Clusters : owner'[c] = s <=> owner[c] = s
    BY <1>3, <1>4, <1>7, <2>1
  <2>3. OwnedBy(owner', s) = OwnedBy(owner, s)
    BY <2>2 DEF OwnedBy
  <2>4. CASE dir[s].state = "file" /\ dir[s].first # 0
    <3>1. Covers(fat[1], owner, s, dir[s].first, OwnedBy(owner, s))
      BY <2>1, <2>4 DEF SlotWhole
    <3>2. Covers(fat[1], owner', s, dir[s].first, OwnedBy(owner, s))
      BY <2>2, <3>1, CoversMore
    <3> QED
      BY <1>1, <2>1, <2>3, <2>4, <3>2 DEF SlotWhole
  <2>5. CASE ~(dir[s].state = "file" /\ dir[s].first # 0)
    BY <2>1, <2>3, <2>5 DEF SlotWhole
  <2> QED
    BY <2>4, <2>5
<1>8. ASSUME NEW s \in Slots, s = slot PROVE SlotWhole(s)'
  <2>1. dir'[s].state = "file" /\ dir'[s].first = first
    BY <1>1, <1>2, <1>8 DEF TypeOK, FileSlot
  <2>2. \A c \in Clusters : owner'[c] = s <=> owner[c] = Writer
    BY <1>3, <1>4, <1>8
  <2>3. OwnedBy(owner', s) = Linked
    BY <1>5, <2>2 DEF OwnedBy, Linked
  <2>4. CASE first = 0
    BY <2>1, <2>3, <2>4 DEF SlotWhole, NoLossInv, WriterInv
  <2>5. CASE first # 0
    <3>1. Covers(fat[1], owner, Writer, first, Linked)
      BY <2>5 DEF NoLossInv, WriterInv
    <3>2. Covers(fat[1], owner', s, first, Linked)
      BY <2>2, <3>1, CoversMore
    <3> QED
      BY <1>1, <2>1, <2>3, <2>5, <3>2 DEF SlotWhole
  <2> QED
    BY <2>4, <2>5
<1>9. FilesInv'
  BY <1>7, <1>8 DEF FilesInv
<1>10. ReleaseInv'
  BY <1>1 DEF ReleaseInv
<1>11. WriterInv'
  BY <1>1, <1>2, NoWriter
<1> QED
  BY <1>6, <1>9, <1>10, <1>11 DEF NoLossInv

LEMMA MarkLoss ==
  ASSUME IInv, IInv', NoLossInv, Lossless, Lossless', MarkDeleted
  PROVE  NoLossInv'
<1>1. /\ fat' = fat /\ ~released' /\ pc' = "idle" /\ pc = "mark"
      /\ dir' = [dir EXCEPT ![slot] = DeletedSlot]
  BY DEF MarkDeleted, Return, Reset
<1>2. TypeOK /\ LocalsInv /\ OwnInv /\ TypeOK' /\ LocalsInv' /\ OwnInv'
  BY DEF IInv, Lossless
<1>3. slot \in Slots /\ slot # Nobody
  BY <1>2, FatFacts
<1>4. \A c \in Clusters : owner'[c] = IF owner[c] = slot THEN Nobody ELSE owner[c]
  BY DEF MarkDeleted
<1>5. UsedBy(fat[1], owner, slot) = {}
  BY <1>1 DEF NoLossInv, ReleaseInv
<1>6. UsedInv'
  BY <1>1, <1>4, <1>5 DEF NoLossInv, UsedInv, UsedBy, OwnedBy
<1>7. ASSUME NEW s \in Slots, s # slot PROVE SlotWhole(s)'
  <2>1. SlotWhole(s) /\ dir'[s] = dir[s] /\ s # Nobody
    BY <1>1, <1>2, <1>7, OwnerAssumption DEF NoLossInv, FilesInv, Exempt, TypeOK
  <2>2. \A c \in Clusters : owner'[c] = s <=> owner[c] = s
    BY <1>3, <1>4, <1>7, <2>1
  <2>3. OwnedBy(owner', s) = OwnedBy(owner, s)
    BY <2>2 DEF OwnedBy
  <2>4. CASE dir[s].state = "file" /\ dir[s].first # 0
    <3>1. Covers(fat[1], owner, s, dir[s].first, OwnedBy(owner, s))
      BY <2>1, <2>4 DEF SlotWhole
    <3>2. Covers(fat[1], owner', s, dir[s].first, OwnedBy(owner, s))
      BY <2>2, <3>1, CoversMore
    <3> QED
      BY <1>1, <2>1, <2>3, <2>4, <3>2 DEF SlotWhole
  <2>5. CASE ~(dir[s].state = "file" /\ dir[s].first # 0)
    BY <2>1, <2>3, <2>5 DEF SlotWhole
  <2> QED
    BY <2>4, <2>5
<1>8. ASSUME NEW s \in Slots, s = slot PROVE SlotWhole(s)'
  <2>1. dir'[s].state = "deleted"
    BY <1>1, <1>2, <1>8 DEF TypeOK, DeletedSlot
  <2>2. OwnedBy(owner', s) = {}
    BY <1>3, <1>4, <1>8 DEF OwnedBy
  <2> QED
    BY <2>1, <2>2 DEF SlotWhole
<1>9. FilesInv'
  BY <1>7, <1>8 DEF FilesInv
<1>10. ReleaseInv'
  BY <1>1 DEF ReleaseInv
<1>11. WriterInv'
  BY <1>1, <1>2, NoWriter
<1> QED
  BY <1>6, <1>9, <1>10, <1>11 DEF NoLossInv

LEMMA NextLoss ==
  ASSUME IInv, IInv', NoLossInv, Lossless, Lossless', Next
  PROVE  NoLossInv'
<1>1. ASSUME NEW r, Abort(r) PROVE NoLossInv'
  BY <1>1, AbortLoss
<1>2. CASE LookupRefused \/ AllocNone \/ StepFails \/ PowerLoss
  BY <1>1, <1>2 DEF LookupRefused, AllocNone, StepFails, PowerLoss
<1> QED
  BY <1>2, LookupLoss, QuietLoss, ClearLoss, ClearFailsLoss, ClaimLoss, LinkLoss, EntryLoss,
     MarkLoss DEF Next, Step

LEMMA LossAlways == Spec => [](Lossless => NoLossInv)
<1>1. Init => NoLossInv
  <2> SUFFICES ASSUME Init PROVE NoLossInv
    OBVIOUS
  <2>1. /\ 1 \in Copies /\ \A c \in Clusters : fat[1][c] = IF c = RootCluster THEN Eoc ELSE Free
        /\ \A c \in Clusters : owner[c] = Nobody
        /\ \A s \in Slots : dir[s].state = "end"
        /\ pc = "idle" /\ first = 0 /\ prev = 0
    BY CopiesFacts DEF Init, EndSlot
  <2>2. Linked = {} /\ ~Unlinked /\ \A s \in Slots : OwnedBy(owner, s) = {}
    BY <2>1, OwnerAssumption DEF Linked, Unlinked, OwnedBy
  <2> QED
    BY <2>1, <2>2 DEF NoLossInv, UsedInv, FilesInv, SlotWhole, ReleaseInv, WriterInv
<1>2. IInv /\ IInv' /\ (Lossless => NoLossInv) /\ [Next]_vars => (Lossless => NoLossInv)'
  <2> SUFFICES ASSUME IInv, IInv', Lossless => NoLossInv, [Next]_vars, Lossless'
               PROVE  NoLossInv'
    OBVIOUS
  <2>1. CASE Next
    BY <2>1, HurtGrows, NextLoss DEF Lossless
  <2>2. CASE UNCHANGED vars
    BY <2>2 DEF vars, disk, call, regs, history, Lossless, NoLossInv, UsedInv, FilesInv, SlotWhole,
                Exempt, ReleaseInv, LeftFrom, WriterInv, Linked, Unlinked
  <2> QED
    BY <2>1, <2>2
<1> QED
  BY <1>1, <1>2, IInvAlways, PTL DEF Spec

(* Between calls every cluster in use is the root directory's or on the    *)
(* chain of a listed file, on a volume of any size: whatever was created,  *)
(* replaced and deleted, no space is lost, unless a failed sector or the   *)
(* power took it (fat32.c's free_chain and fat32_write_file).              *)
THEOREM LeakNever == Spec => []NoLeak
<1>1. IInv /\ NothingHidden /\ (Lossless => NoLossInv) => NoLeak
  <2> SUFFICES ASSUME IInv, NothingHidden, NoLossInv, pc = "idle", Lossless
               PROVE  Clusters \ FreeClusters = {RootCluster} \cup UNION {ChainOf(s) : s \in Listing}
    BY DEF NoLeak, Lossless
  <2>1. TypeOK /\ LocalsInv /\ RootInv /\ OwnInv
    BY DEF IInv, Lossless
  <2>2. ~released
    BY <2>1 DEF LocalsInv
  <2>3. ASSUME NEW c \in Clusters, fat[1][c] # Free, c # RootCluster
        PROVE  \E s \in Listing : c \in ChainOf(s)
    <3>1. owner[c] \in Slots
      BY <2>1, <2>3 DEF NoLossInv, UsedInv, OwnInv, CallInv, TypeOK
    <3> DEFINE s == owner[c]
    <3>2. SlotWhole(s) /\ c \in OwnedBy(owner, s)
      BY <2>2, <3>1 DEF NoLossInv, FilesInv, Exempt, OwnedBy
    <3> HIDE DEF s
    <3>3. /\ dir[s].state = "file" /\ dir[s].first # 0
          /\ Covers(fat[1], owner, s, dir[s].first, OwnedBy(owner, s))
      BY <3>2 DEF SlotWhole
    <3>4. s \in Listing /\ InChain(dir[s].first)
      BY <2>1, <3>1, <3>3, FatFacts DEF NothingHidden, s, InChain
    <3>5. \A set \in SUBSET Clusters : dir[s].first \in set /\ Closed(set) => c \in set
      BY <3>2, <3>3 DEF Covers, Closed
    <3> QED
      BY <3>4, <3>5 DEF ChainOf, Reach
  <2>4. ASSUME NEW s \in Listing PROVE ChainOf(s) \subseteq Clusters \ FreeClusters
    <3>1. s \in Slots /\ Whole(s)
      BY <2>2 DEF Whole, Listing
    <3> QED
      BY <2>1, <3>1, ChainOwned DEF FreeClusters
  <2>5. RootCluster \in Clusters \ FreeClusters
    BY <2>1, RootFacts
  <2>6. \A c : c \in Clusters \ FreeClusters <=> c \in Clusters /\ fat[1][c] # Free
    BY DEF FreeClusters
  <2> QED
    BY <2>3, <2>4, <2>5, <2>6
<1> QED
  BY <1>1, IInvAlways, HiddenNever, LossAlways, PTL

----------------------------------------------------------------------------
(* The driver is a FileStore.  First what fat32_read_file's loop returns:  *)
(* the recursive function exists, and along a chain it reads the blocks.   *)

(* What replaces induction: a set of numbers that is not empty has a least *)
(* one.                                                                    *)
LEMMA LeastOf ==
  ASSUME NEW T \in SUBSET Nat, T # {}
  PROVE  \E x \in T : \A y \in T : x <= y
<1> DEFINE below(n) == 0 .. n
           D == {below(n) : n \in T}
           R == StrictSubsetOrdering(Nat)
           F == FiniteSubsetsOf(Nat)
<1>1. \A n \in Nat : below(n) \in F
  BY FS_Interval DEF FiniteSubsetsOf
<1>2. D \subseteq F /\ D # {}
  BY <1>1
<1>3. IsWellFoundedOn(R, F)
  BY FS_StrictSubsetOrderingWellFounded
<1>4. PICK d \in D : \A e \in D : <<e, d>> \notin R
  <2> HIDE DEF D, R, F
  <2> QED
    BY <1>2, <1>3, WFMin
<1>5. PICK x \in T : d = below(x)
  BY <1>4
<1>6. ASSUME NEW y \in T, y < x PROVE FALSE
  <2>1. below(y) \subseteq below(x) /\ x \in below(x) /\ x \notin below(y)
    BY <1>6
  <2>2. below(y) \in SUBSET Nat /\ below(x) \in SUBSET Nat
    OBVIOUS
  <2> HIDE DEF below
  <2>3. <<below(y), below(x)>> \in R
    BY <2>1, <2>2 DEF StrictSubsetOrdering
  <2>4. below(y) \in D
    OBVIOUS
  <2> QED
    BY <1>4, <1>5, <2>3, <2>4
<1> QED
  BY <1>6

(* One turn of the loop, with r what the later turns read. *)
Turn(f, d, r, k, c) == IF k = 0 \/ ~InChain(c) THEN << >> ELSE <<d[c]>> \o r[k - 1][f[c]]

LEMMA ReadsIs ==
  ASSUME NEW f, NEW d, NEW n \in Nat
  PROVE  \A k \in 0 .. n, c \in Clusters \cup {Free, Eoc} :
           Reads(f, d, n)[k][c] = Turn(f, d, Reads(f, d, n), k, c)
<1> DEFINE N == Clusters \cup {Free, Eoc}
           Row(k, below) == [c \in N |-> IF k = 0 \/ ~InChain(c) THEN << >>
                                         ELSE <<d[c]>> \o below[f[c]]]
           Is(g, m) == g = [k \in 0 .. m |-> Row(k, g[k - 1])]
           T == {m \in Nat : ~\E g : Is(g, m)}
<1>1. \E g : Is(g, 0)
  <2> DEFINE g == [k \in 0 .. 0 |-> [c \in N |-> << >>]]
  <2>1. Is(g, 0)
    <3>1. \A x : Row(0, x) = [c \in N |-> << >>]
      OBVIOUS
    <3> HIDE DEF Row
    <3>2. \A k \in 0 .. 0 : k = 0
      OBVIOUS
    <3> QED
      BY <3>1, <3>2
  <2> HIDE DEF g
  <2> QED
    BY <2>1
<1>2. ASSUME NEW m \in Nat, \E g : Is(g, m) PROVE \E g : Is(g, m + 1)
  <2> HIDE DEF Row
  <2>1. PICK g : Is(g, m)
    BY <1>2
  <2> DEFINE h == [k \in 0 .. m + 1 |-> IF k = m + 1 THEN Row(m + 1, g[m]) ELSE g[k]]
  <2>2. \A k \in 0 .. m : h[k] = g[k] /\ g[k] = Row(k, g[k - 1])
    BY <2>1
  <2>3. h[m + 1] = Row(m + 1, g[m])
    OBVIOUS
  <2>4. \A k \in 0 .. m + 1 : h[k] = Row(k, h[k - 1])
    <3> TAKE k \in 0 .. m + 1
    <3>1. CASE k = m + 1
      <4>1. h[k - 1] = g[m]
        BY <2>2, <3>1
      <4> HIDE DEF h
      <4> QED
        BY <2>3, <3>1, <4>1
    <3>2. CASE k # m + 1 /\ k # 0
      <4>1. k \in 0 .. m /\ k - 1 \in 0 .. m
        BY <3>2
      <4> HIDE DEF h
      <4> QED
        BY <2>2, <4>1
    <3>3. CASE k = 0
      <4>1. \A x, y : Row(0, x) = Row(0, y)
        BY DEF Row
      <4>2. 0 \in 0 .. m
        OBVIOUS
      <4> HIDE DEF h
      <4> QED
        BY <2>2, <3>3, <4>1, <4>2
    <3> QED
      BY <3>1, <3>2, <3>3
  <2>5. h = [k \in 0 .. m + 1 |-> h[k]]
    OBVIOUS
  <2> HIDE DEF h
  <2>6. Is(h, m + 1)
    BY <2>4, <2>5
  <2> QED
    BY <2>6
<1>3. \E g : Is(g, n)
  <2> DEFINE Some(m) == \E g : Is(g, m)
  <2>1. Some(0) /\ \A m \in Nat : Some(m) => Some(m + 1)
    BY <1>1, <1>2
  <2>2. \A m \in Nat : m \in T <=> ~Some(m)
    OBVIOUS
  <2> HIDE DEF Some
  <2>3. ASSUME T # {} PROVE FALSE
    <3>1. T \in SUBSET Nat
      OBVIOUS
    <3> HIDE DEF T
    <3>2. PICK m \in T : \A l \in T : m <= l
      BY <2>3, <3>1, LeastOf
    <3>3. m \in Nat /\ m # 0
      BY <2>1, <2>2, <3>1, <3>2
    <3>4. m - 1 \in Nat /\ m - 1 \notin T
      BY <3>2, <3>3
    <3>5. Some(m - 1 + 1) /\ m - 1 + 1 = m
      BY <2>1, <2>2, <3>3, <3>4
    <3> QED
      BY <2>2, <3>2, <3>3, <3>5
  <2>4. n \notin T
    BY <2>3
  <2> QED
    BY <2>2, <2>4 DEF Some
<1>4. Reads(f, d, n) = CHOOSE g : Is(g, n)
  BY DEF Reads
<1> HIDE DEF Row
<1>5. Is(Reads(f, d, n), n)
  BY <1>3, <1>4
<1> DEFINE R == Reads(f, d, n)
<1> HIDE DEF N, R
<1>6. \A k \in 0 .. n : R[k] = Row(k, R[k - 1])
  BY <1>5 DEF R
<1>7. \A k \in 0 .. n : \A c \in N : Row(k, R[k - 1])[c] = Turn(f, d, R, k, c)
  BY DEF Row, Turn
<1> HIDE DEF Row
<1>8. \A k \in 0 .. n, c \in N : R[k][c] = Turn(f, d, R, k, c)
  BY <1>6, <1>7
<1> QED
  BY <1>8 DEF N, R

(* The clusters of p, linked one to the next, hold the blocks of b. *)
Along(f, d, p, b) ==
  /\ \A i \in 1 .. Len(b) : d[p[i]] = b[i]
  /\ \A i \in 1 .. Len(b) - 1 : f[p[i]] = p[i + 1]

LEMMA ReadsChain ==
  ASSUME NEW S, NEW f \in [Clusters -> {Free, Eoc} \cup Clusters], NEW d \in [Clusters -> S],
         NEW b \in Seq(S), NEW p \in [1 .. Len(b) -> Clusters],
         NEW head \in Clusters \cup {Free, Eoc}, b # << >> => p[1] = head,
         Along(f, d, p, b)
  PROVE  Reads(f, d, Len(b))[Len(b)][head] = b
<1> DEFINE n == Len(b)
           N == Clusters \cup {Free, Eoc}
           R == Reads(f, d, n)
           Right(k) == /\ R[k][p[n + 1 - k]] \in Seq(S) /\ Len(R[k][p[n + 1 - k]]) = k
                       /\ \A i \in 1 .. k : R[k][p[n + 1 - k]][i] = b[n - k + i]
           T == {k \in 1 .. n : ~Right(k)}
<1>1. n \in Nat /\ \A i \in 1 .. n : d[p[i]] = b[i] /\ p[i] \in Clusters /\ b[i] \in S
  BY LenProperties, ElementOfSeq DEF Along
<1>2. /\ \A i \in 1 .. n - 1 : f[p[i]] = p[i + 1]
      /\ n > 0 => p[1] = head
      /\ \A i \in 1 .. n : f[p[i]] \in N
  BY <1>1 DEF Along
<1>3. \A k \in 0 .. n, c \in N : R[k][c] = Turn(f, d, R, k, c)
  <2>1. Len(b) \in Nat
    BY <1>1
  <2> QED
    BY <2>1, ReadsIs
<1> HIDE DEF R, n, N
<1>4. ASSUME NEW k \in 1 .. n, NEW i \in 1 .. n
      PROVE  R[k][p[i]] = <<b[i]>> \o R[k - 1][f[p[i]]]
  <2>1. k \in 0 .. n /\ k # 0
    BY <1>1
  <2>2. p[i] \in N /\ InChain(p[i]) /\ d[p[i]] = b[i]
    BY <1>1 DEF N, InChain
  <2>3. R[k][p[i]] = Turn(f, d, R, k, p[i])
    BY <1>3, <2>1, <2>2
  <2> QED
    BY <2>1, <2>2, <2>3 DEF Turn
<1>5. n > 0 => Right(1)
  <2> SUFFICES ASSUME n > 0 PROVE Right(1)
    OBVIOUS
  <2>0. n \in 1 .. n /\ 1 \in 1 .. n /\ 1 - 1 = 0 /\ 0 \in 0 .. n
    BY <1>1
  <2>1. R[1][p[n]] = <<b[n]>> \o R[0][f[p[n]]] /\ f[p[n]] \in N
    BY <1>2, <1>4, <2>0, ZenonT(60)
  <2>2. R[0][f[p[n]]] = << >>
    BY <1>3, <2>0, <2>1 DEF Turn
  <2>3. b[n] \in S /\ n + 1 - 1 = n /\ n - 1 + 1 = n
    BY <1>1
  <2>4. <<b[n]>> \in Seq(S) /\ Len(<<b[n]>>) = 1 /\ <<b[n]>>[1] = b[n] /\ <<b[n]>> \o << >> = <<b[n]>>
    BY <2>3
  <2>5. R[1][p[n + 1 - 1]] = <<b[n]>>
    BY <2>1, <2>2, <2>3, <2>4
  <2>6. \A i \in 1 .. 1 : i = 1
    OBVIOUS
  <2> QED
    BY <2>3, <2>4, <2>5, <2>6
<1>6. ASSUME NEW k \in Nat, k >= 1, k < n, Right(k) PROVE Right(k + 1)
  <2> DEFINE r == R[k][p[n + 1 - k]]
             x == b[n - k]
  <2>1. r \in Seq(S) /\ Len(r) = k /\ \A i \in 1 .. k : r[i] = b[n - k + i]
    BY <1>6
  <2>2. /\ n - k \in 1 .. n /\ k + 1 \in 1 .. n /\ n - k \in 1 .. n - 1 /\ n - k + 1 = n + 1 - k
        /\ n + 1 - (k + 1) = n - k /\ k + 1 - 1 = k
    BY <1>1, <1>6
  <2>3. f[p[n - k]] = p[n + 1 - k]
    BY <1>2, <2>2
  <2>4. R[k + 1][p[n - k]] = <<x>> \o r
    <3> DEFINE i == n - k
               m == k + 1
    <3>1. R[m][p[i]] = <<b[i]>> \o R[m - 1][f[p[i]]]
      <4>1. m \in 1 .. n /\ i \in 1 .. n
        BY <2>2
      <4> HIDE DEF m, i
      <4> QED
        BY <1>4, <4>1
    <3> QED
      BY <2>2, <2>3, <3>1, SMTT(30)
  <2>5. x \in S
    BY <1>1, <2>2
  <2> HIDE DEF r, x
  <2>6. /\ <<x>> \o r \in Seq(S) /\ Len(<<x>> \o r) = k + 1
        /\ \A i \in 1 .. k + 1 : (<<x>> \o r)[i] = IF i = 1 THEN x ELSE r[i - 1]
    BY <1>6, <2>1, <2>5
  <2>7. \A i \in 1 .. k + 1 : (IF i = 1 THEN x ELSE r[i - 1]) = b[n - (k + 1) + i]
    <3> TAKE i \in 1 .. k + 1
    <3>1. CASE i = 1
      <4>1. n - (k + 1) + i = n - k
        BY <1>1, <1>6, <3>1
      <4> QED
        BY <3>1, <4>1 DEF x
    <3>2. CASE i # 1
      <4>1. i - 1 \in 1 .. k /\ n - (k + 1) + i = n - k + (i - 1)
        BY <1>1, <1>6, <3>2
      <4> QED
        BY <2>1, <3>2, <4>1
    <3> QED
      BY <3>1, <3>2
  <2>8. R[k + 1][p[n + 1 - (k + 1)]] = <<x>> \o r
    BY <2>2, <2>4
  <2> QED
    BY <2>6, <2>7, <2>8
<1>7. n > 0 => Right(n)
  <2>1. T \in SUBSET Nat /\ \A k \in Nat : k \in T <=> k \in 1 .. n /\ ~Right(k)
    OBVIOUS
  <2> HIDE DEF Right, T
  <2>2. ASSUME T # {} PROVE FALSE
    <3>1. PICK k \in T : \A l \in T : k <= l
      BY <2>1, <2>2, LeastOf
    <3>2. k \in 1 .. n /\ ~Right(k) /\ k # 1
      BY <1>1, <1>5, <2>1, <3>1
    <3>3. k - 1 \in Nat /\ k - 1 >= 1 /\ k - 1 < n /\ k - 1 + 1 = k /\ ~(k <= k - 1) /\ k - 1 \in 1 .. n
      BY <1>1, <3>2
    <3>4. Right(k - 1)
      BY <2>1, <3>1, <3>3
    <3> QED
      BY <1>6, <3>2, <3>3, <3>4
  <2> QED
    BY <1>1, <2>1, <2>2
<1>8. CASE n = 0
  <2>1. b = << >> /\ R[n][head] = << >>
    <3>1. b = << >>
      BY <1>8, EmptySeq DEF n
    <3>2. 0 \in 0 .. n /\ head \in N
      BY <1>1 DEF N
    <3>3. R[0][head] = << >>
      BY <1>3, <3>2 DEF Turn
    <3> QED
      BY <1>8, <3>1, <3>3
  <2> QED
    BY <2>1 DEF R, n
<1>9. CASE n > 0
  <2>1. n + 1 - n = 1 /\ n - n = 0
    BY <1>1
  <2>2. p[1] = head
    BY <1>2, <1>9
  <2> DEFINE r == R[n][head]
  <2>3. r \in Seq(S) /\ Len(r) = n /\ \A i \in 1 .. n : r[i] = b[i]
    <3>1. \A i \in 1 .. n : n - n + i = i
      BY <1>1
    <3> QED
      BY <1>7, <1>9, <2>1, <2>2, <3>1
  <2> HIDE DEF r
  <2>4. r = b
    BY <2>3, SeqEqual DEF n
  <2> QED
    BY <2>4 DEF r, R, n
<1> QED
  BY <1>1, <1>8, <1>9

----------------------------------------------------------------------------
(* Second, what a call has been asked to do, and what the chains spell.    *)

RequestInv ==
  /\ pc = "idle" => op = "none" /\ name = NoName /\ body = << >>
  /\ pc # "idle" => name \in Names /\ op \in {"write", "delete"}
  /\ op = "write" => body \in Contents
  /\ op = "delete" => body = << >>
  /\ pc = "mark" => op = "delete"
  /\ pc \in {"alloc", "claim", "link", "block", "entry"} => op = "write"
  /\ pc \in {"next", "clear", "mark"} \/ released => FirstHit(slot, name)
  /\ Running /\ dir[slot].state = "file" => dir[slot].name = name

LEMMA AfterReleaseIs ==
  ASSUME TypeOK, RequestInv, pc # "idle"
  PROVE  /\ AfterRelease = "mark" => op = "delete"
         /\ AfterRelease \in {"alloc", "entry"} => op = "write"
         /\ AfterRelease \in {"mark", "alloc", "entry"}
BY DEF AfterRelease, RequestInv

LEMMA NextRequest == TypeOK /\ LocalsInv /\ RequestInv /\ [Next]_vars => RequestInv'
<1> SUFFICES ASSUME TypeOK, LocalsInv, RequestInv, [Next]_vars PROVE RequestInv'
  OBVIOUS
<1> USE DEF disk, call, regs, history, Running
<1>1. ASSUME NEW r, Return(r) PROVE RequestInv'
  BY <1>1 DEF Return, Reset, RequestInv
<1>2. CASE (\E n \in Names, b \in Contents : CallWrite(n, b)) \/ \E n \in Names : CallDelete(n)
  BY <1>2 DEF CallWrite, CallDelete, LocalsInv, RequestInv
<1>3. ASSUME NEW s \in Slots, LookupHit(s) PROVE RequestInv'
  <2>1. pc' \in {"next", AfterRelease} /\ pc = "lookup" /\ slot' = s /\ FirstHit(s, name)
        /\ UNCHANGED <<dir, op, name, body>>
    BY <1>3 DEF LookupHit
  <2>2. FirstHit(slot, name)'
    BY <2>1 DEF FirstHit, Hit, Visible
  <2>3. dir'[slot'].name = name'
    BY <2>1 DEF FirstHit, Hit
  <2> QED
    BY <2>1, <2>2, <2>3, AfterReleaseIs DEF RequestInv
<1>4. ASSUME NEW s \in Slots, LookupNewSlot(s) PROVE RequestInv'
  <2>1. pc' = AfterRelease /\ pc = "lookup" /\ UNCHANGED <<op, name, body, released>> /\ op = "write"
        /\ dir'[slot'].state # "file"
    BY <1>4 DEF LookupNewSlot, FirstReusable, Reusable
  <2>2. ~released'
    BY <2>1 DEF LocalsInv
  <2> QED
    BY <2>1, <2>2, AfterReleaseIs DEF RequestInv
<1>5. CASE FreeNext \/ FreeClear \/ FreeClearFails
  <2>1. /\ pc \in {"next", "clear"} /\ pc' \in {"clear", "next", AfterRelease}
        /\ UNCHANGED <<dir, slot, op, name, body>>
    BY <1>5 DEF FreeNext, FreeClear, FreeClearFails, FreeAdvance
  <2>2. FirstHit(slot, name)'
    BY <2>1 DEF RequestInv, FirstHit, Hit, Visible
  <2> QED
    BY <2>1, <2>2, AfterReleaseIs DEF RequestInv
<1>6. CASE AllocScan \/ AllocClaim \/ Link \/ LinkFails \/ WriteBlock
  <2>1. /\ pc \in {"alloc", "claim", "link", "block"}
        /\ pc' \in {"alloc", "claim", "link", "block", "entry"}
        /\ UNCHANGED <<dir, slot, op, name, body, released>>
    BY <1>6 DEF AllocScan, AllocClaim, Link, LinkFails, WriteBlock
  <2>2. released' => FirstHit(slot, name)'
    BY <2>1 DEF RequestInv, FirstHit, Hit, Visible
  <2> QED
    BY <2>1, <2>2 DEF RequestInv
<1>7. CASE LookupRefused \/ AllocNone \/ WriteEntry \/ MarkDeleted \/ StepFails \/ PowerLoss
  BY <1>1, <1>7 DEF LookupRefused, AllocNone, WriteEntry, MarkDeleted, StepFails, PowerLoss, Abort
<1>8. CASE UNCHANGED vars
  BY <1>8 DEF vars, RequestInv, FirstHit, Hit, Visible
<1> QED
  BY <1>2, <1>3, <1>4, <1>5, <1>6, <1>7, <1>8 DEF Next, Step

LEMMA RequestAlways == Spec => []RequestInv
<1>1. Init => RequestInv
  BY DEF Init, RequestInv, Running
<1>2. IInv /\ RequestInv /\ [Next]_vars => RequestInv'
  BY NextRequest DEF IInv
<1> QED
  BY <1>1, <1>2, IInvAlways, PTL DEF Spec

(* The clusters of w spell b, one block each, along the links from head. *)
Spells(f, d, o, w, head, b) ==
  \E p \in [1 .. Len(b) -> Clusters] :
    /\ b # << >> => p[1] = head
    /\ \A i \in 1 .. Len(b) : o[p[i]] = w /\ d[p[i]] = b[i]
    /\ \A i \in 1 .. Len(b) - 1 : f[p[i]] = p[i + 1]

(* A listed file that is not being released is some body a call saved.     *)
Stored(s) ==
  \E b \in Contents : Len(b) = dir[s].size /\ Spells(fat[1], data, owner, s, dir[s].first, b)
StoredInv == \A s \in Slots : dir[s].state = "file" /\ ~Exempt(s) => Stored(s)

(* The cluster the call works on is claimed; the chain before it has been  *)
(* joined to it.                                                           *)
Taken == pc \in {"link", "block"} \/ (pc = "claim" /\ copy # 1)
Joined == pc = "block" \/ (pc = "link" /\ copy # 1)

SpeltTo(p) ==
  /\ written > 0 => p[1] = first
  /\ \A i \in 1 .. written :
       owner[p[i]] = Writer /\ data[p[i]] = body[i] /\ (Taken => p[i] # cl)
  /\ \A i \in 1 .. written - 1 : fat[1][p[i]] = p[i + 1]
  /\ written > 0 /\ Joined => fat[1][p[written]] = cl
  /\ written > 0 /\ pc \in {"alloc", "claim", "link"} => p[written] = prev

WrittenInv ==
  pc \in {"alloc", "claim", "link", "block", "entry"} =>
    /\ first = 0 <=> prev = 0
    /\ pc \in {"alloc", "claim", "link"} => (prev = 0 <=> written = 0)
    /\ prev # 0 /\ pc \in {"alloc", "claim", "link"} /\ ~Joined => fat[1][prev] = Eoc
    /\ Taken => fat[1][cl] = Eoc
    /\ pc = "block" => prev = cl
    /\ pc = "block" /\ written = 0 => first = cl
    /\ pc = "entry" => written = Len(body)
    /\ \E p \in [1 .. written -> Clusters] : SpeltTo(p)

LEMMA SpellsSame ==
  ASSUME NEW f, NEW d, NEW o, NEW w, NEW head, NEW b, NEW g, NEW e, NEW q, NEW v,
         Spells(f, d, o, w, head, b),
         \A c \in Clusters : o[c] = w => q[c] = v /\ g[c] = f[c] /\ e[c] = d[c],
         Len(b) \in Nat
  PROVE  Spells(g, e, q, v, head, b)
<1>1. PICK p \in [1 .. Len(b) -> Clusters] :
         /\ b # << >> => p[1] = head
         /\ \A i \in 1 .. Len(b) : o[p[i]] = w /\ d[p[i]] = b[i]
         /\ \A i \in 1 .. Len(b) - 1 : f[p[i]] = p[i + 1]
  BY DEF Spells
<1>2. \A i \in 1 .. Len(b) : q[p[i]] = v /\ g[p[i]] = f[p[i]] /\ e[p[i]] = b[i]
  BY <1>1
<1>3. \A i \in 1 .. Len(b) - 1 : g[p[i]] = p[i + 1]
  <2>1. \A i \in 1 .. Len(b) - 1 : i \in 1 .. Len(b)
    OBVIOUS
  <2> QED
    BY <1>1, <1>2, <2>1
<1> QED
  BY <1>1, <1>2, <1>3 DEF Spells

(* A file keeps what it spells when nothing of it changes. *)
LEMMA StoredKeeps ==
  ASSUME NEW s, Stored(s), dir'[s] = dir[s],
         \A c \in Clusters :
           owner[c] = s => owner'[c] = s /\ fat'[1][c] = fat[1][c] /\ data'[c] = data[c]
  PROVE  Stored(s)'
<1>1. PICK b \in Contents : Len(b) = dir[s].size /\ Spells(fat[1], data, owner, s, dir[s].first, b)
  BY DEF Stored
<1>2. Len(b) \in Nat
  BY DataAssumption
<1>3. Spells(fat'[1], data', owner', s, dir[s].first, b)
  BY <1>1, <1>2, SpellsSame
<1> QED
  BY <1>1, <1>3 DEF Stored

LEMMA SameStored ==
  ASSUME StoredInv,
         \A s \in Slots : ~Exempt(s)' => ~Exempt(s) /\ dir'[s] = dir[s],
         \A s \in Slots : ~Exempt(s)' => \A c \in Clusters :
           owner[c] = s => owner'[c] = s /\ fat'[1][c] = fat[1][c] /\ data'[c] = data[c]
  PROVE  StoredInv'
<1> SUFFICES ASSUME NEW s \in Slots, dir'[s].state = "file", ~Exempt(s)' PROVE Stored(s)'
  BY DEF StoredInv
<1>1. Stored(s) /\ dir'[s] = dir[s]
  BY DEF StoredInv
<1>2. \A c \in Clusters :
        owner[c] = s => owner'[c] = s /\ fat'[1][c] = fat[1][c] /\ data'[c] = data[c]
  OBVIOUS
<1> QED
  BY <1>1, <1>2, StoredKeeps

(* A call that is not to tear the store only stops before it frees. *)
LEMMA AbortWhole ==
  ASSUME NEW r, Abort(r), ~Torn'
  PROVE  /\ ~released /\ ~released' /\ pc' = "idle" /\ reply' = r
         /\ op' = "none" /\ name' = NoName /\ body' = << >>
         /\ UNCHANGED <<fat, dir, data>>
         /\ owner' = [c \in Clusters |-> IF owner[c] = Writer THEN Nobody ELSE owner[c]]
BY DEF Abort, Return, Reset, disk, Torn, AbortWounds

(* What the running call is about to tear is not whole any more. *)
LEMMA ChainSteps ==
  ASSUME IInv, ~Torn, FreeClear \/ AllocClaim \/ Link \/ WriteBlock
  PROVE  /\ UNCHANGED <<dir, slot>>
         /\ \A s \in Slots : ~Exempt(s)' => ~Exempt(s)
         /\ \A s \in Slots : ~Exempt(s)' => \A c \in Clusters :
              owner[c] = s => owner'[c] = s /\ fat'[1][c] = fat[1][c] /\ data'[c] = data[c]
<1>1. TypeOK /\ LocalsInv /\ OwnInv
  BY DEF IInv, Torn
<1>2. 1 \in Copies /\ copy \in Copies /\ Writer \notin Slots /\ Eoc # Free
  BY <1>1, FatFacts, OwnerAssumption DEF TypeOK
<1>3. CASE FreeClear
  <2>1. /\ released' = TRUE /\ fat' = [fat EXCEPT ![copy][cl] = Free] /\ pc = "clear"
        /\ UNCHANGED <<dir, data, slot, owner>>
    BY <1>3 DEF FreeClear
  <2>2. owner[cl] = slot /\ cl \in Clusters
    BY <1>1, <2>1 DEF LocalsInv, OwnInv, CallInv
  <2>3. \A c \in Clusters : c # cl => fat'[1][c] = fat[1][c]
    BY <1>1, <1>2, <2>1, <2>2 DEF TypeOK
  <2> QED
    BY <2>1, <2>2, <2>3 DEF Exempt
<1>4. CASE AllocClaim
  <2>1. /\ pc = "claim" /\ UNCHANGED <<dir, data, slot, released>>
        /\ fat' = [fat EXCEPT ![copy][cl] = Eoc] /\ owner' = [owner EXCEPT ![cl] = Writer]
    BY <1>4 DEF AllocClaim
  <2>2. cl \in Clusters /\ (fat[1][cl] = Free \/ owner[cl] = Writer)
    BY <1>1, <2>1 DEF LocalsInv, OwnInv, CallInv
  <2>3. \A c \in Clusters : c # cl => fat'[1][c] = fat[1][c] /\ owner'[c] = owner[c]
    BY <1>1, <1>2, <2>1, <2>2 DEF TypeOK
  <2>4. \A s \in Slots : ~Exempt(s) => owner[cl] # s
    BY <1>1, <1>2, <2>2 DEF OwnInv, Kept
  <2>5. \A s \in Slots : Exempt(s)' <=> Exempt(s)
    BY <2>1 DEF Exempt
  <2> QED
    BY <2>1, <2>3, <2>4, <2>5
<1>5. CASE Link
  <2>1. /\ pc = "link" /\ UNCHANGED <<dir, data, slot, released, owner>>
        /\ fat' = [fat EXCEPT ![copy][prev] = cl]
    BY <1>5 DEF Link, history
  <2>2. prev \in Clusters /\ owner[prev] = Writer
    BY <1>1, <2>1, FatFacts DEF LocalsInv, OwnInv, CallInv
  <2>3. \A c \in Clusters : c # prev => fat'[1][c] = fat[1][c]
    BY <1>1, <1>2, <2>1, <2>2 DEF TypeOK
  <2>5. \A s \in Slots : Exempt(s)' <=> Exempt(s)
    BY <2>1 DEF Exempt
  <2> QED
    BY <1>2, <2>1, <2>2, <2>3, <2>5
<1>6. CASE WriteBlock
  <2>1. /\ pc = "block" /\ UNCHANGED <<dir, fat, slot, released, owner>>
        /\ data' = [data EXCEPT ![cl] = body[written + 1]]
    BY <1>6 DEF WriteBlock, history
  <2>2. cl \in Clusters /\ owner[cl] = Writer
    BY <1>1, <2>1 DEF LocalsInv, OwnInv, CallInv
  <2>3. \A c \in Clusters : c # cl => data'[c] = data[c]
    BY <1>1, <2>1, <2>2 DEF TypeOK
  <2>5. \A s \in Slots : Exempt(s)' <=> Exempt(s)
    BY <2>1 DEF Exempt
  <2> QED
    BY <1>2, <2>1, <2>2, <2>3, <2>5
<1> QED
  BY <1>3, <1>4, <1>5, <1>6

(* The directory write shows the chain that was written. *)
LEMMA EntrySpells ==
  ASSUME IInv, RequestInv, ~Torn, WrittenInv, WriteEntry
  PROVE  /\ dir' = [dir EXCEPT ![slot] = FileSlot(name, first, Len(body))]
         /\ UNCHANGED <<fat, data>> /\ ~released' /\ body \in Contents
         /\ Spells(fat'[1], data', owner', slot, first, body)
         /\ \A s \in Slots \ {slot}, c \in Clusters : owner[c] = s => owner'[c] = s
<1>1. TypeOK /\ OwnInv
  BY DEF IInv, Torn
<1>2. /\ dir' = [dir EXCEPT ![slot] = FileSlot(name, first, Len(body))]
      /\ UNCHANGED <<fat, data>> /\ ~released' /\ pc = "entry"
      /\ owner' = [c \in Clusters |-> CASE owner[c] = slot -> Nobody
                                        [] owner[c] = Writer -> slot
                                        [] OTHER -> owner[c]]
  BY DEF WriteEntry, Return, Reset
<1>3. slot \in Slots /\ slot # Writer /\ Writer \notin Slots /\ Nobody \notin Slots
  BY <1>1, FatFacts, OwnerAssumption
<1>4. \A c \in Clusters : owner[c] = Writer => owner'[c] = slot
  BY <1>2, <1>3
<1>5. \A s \in Slots \ {slot}, c \in Clusters : owner[c] = s => owner'[c] = s
  BY <1>2, <1>3
<1>6. body \in Contents /\ written = Len(body) /\ Len(body) \in Nat /\ body \in Seq(Blocks)
  BY <1>1, <1>2 DEF RequestInv, WrittenInv, TypeOK
<1>7. PICK p \in [1 .. written -> Clusters] : SpeltTo(p)
  BY <1>2 DEF WrittenInv
<1>8. Spells(fat[1], data, owner, Writer, first, body)
  <2>1. body # << >> => written > 0
    BY <1>6, EmptySeq
  <2>2. /\ p \in [1 .. Len(body) -> Clusters]
        /\ body # << >> => p[1] = first
        /\ \A i \in 1 .. Len(body) : owner[p[i]] = Writer /\ data[p[i]] = body[i]
        /\ \A i \in 1 .. Len(body) - 1 : fat[1][p[i]] = p[i + 1]
    BY <1>6, <1>7, <2>1 DEF SpeltTo
  <2> QED
    BY <2>2 DEF Spells
<1>9. Spells(fat[1], data, owner', slot, first, body)
  BY <1>4, <1>6, <1>8, SpellsSame
<1> QED
  BY <1>2, <1>5, <1>6, <1>9

LEMMA NextStored ==
  ASSUME IInv, RequestInv, ~Torn, ~Torn', StoredInv, WrittenInv, Next
  PROVE  StoredInv'
<1>1. TypeOK /\ LocalsInv /\ OwnInv
  BY DEF IInv, Torn
<1>2. slot \in Slots /\ Writer \notin Slots /\ Nobody \notin Slots
  BY <1>1, FatFacts, OwnerAssumption
<1>3. ASSUME UNCHANGED <<fat, dir, data, owner, released>>, slot' = slot \/ ~released
      PROVE  StoredInv'
  <2>1. \A s \in Slots : ~Exempt(s)' => ~Exempt(s)
    BY <1>3 DEF Exempt
  <2> QED
    BY <1>3, <2>1, SameStored
<1>4. ASSUME NEW r, Abort(r) PROVE StoredInv'
  <2>1. /\ ~released /\ UNCHANGED <<fat, dir, data>>
        /\ owner' = [c \in Clusters |-> IF owner[c] = Writer THEN Nobody ELSE owner[c]]
    BY <1>4, AbortWhole
  <2>2. \A s \in Slots : ~Exempt(s)
    BY <2>1 DEF Exempt
  <2>3. \A s \in Slots : \A c \in Clusters : owner[c] = s => owner'[c] = s
    BY <1>2, <2>1
  <2> QED
    BY <2>1, <2>2, <2>3, SameStored
<1>5. CASE (\E n \in Names, b \in Contents : CallWrite(n, b)) \/ \E n \in Names : CallDelete(n)
  BY <1>3, <1>5 DEF CallWrite, CallDelete, disk, regs, history
<1>6. CASE \E s \in Slots : LookupHit(s) \/ LookupNewSlot(s)
  <2>1. UNCHANGED <<fat, dir, data, owner, released>> /\ pc = "lookup"
    BY <1>6 DEF LookupHit, LookupNewSlot, disk, history
  <2> QED
    BY <1>1, <1>3, <2>1 DEF LocalsInv
<1>7. CASE FreeNext \/ FreeClearFails \/ AllocScan \/ LinkFails
  BY <1>3, <1>7 DEF FreeNext, FreeClearFails, AllocScan, LinkFails, disk, call, history
<1>8. CASE FreeClear \/ AllocClaim \/ Link \/ WriteBlock
  <2>1. /\ UNCHANGED <<dir, slot>>
        /\ \A s \in Slots : ~Exempt(s)' => ~Exempt(s)
        /\ \A s \in Slots : ~Exempt(s)' => \A c \in Clusters :
              owner[c] = s => owner'[c] = s /\ fat'[1][c] = fat[1][c] /\ data'[c] = data[c]
    BY <1>8, ChainSteps
  <2> QED
    BY <2>1, SameStored
<1>9. CASE LookupRefused \/ AllocNone \/ StepFails \/ PowerLoss
  BY <1>4, <1>9 DEF LookupRefused, AllocNone, StepFails, PowerLoss
<1>10. CASE WriteEntry
  <2>1. /\ dir' = [dir EXCEPT ![slot] = FileSlot(name, first, Len(body))]
        /\ UNCHANGED <<fat, data>> /\ ~released' /\ body \in Contents
        /\ Spells(fat'[1], data', owner', slot, first, body)
        /\ \A s \in Slots \ {slot}, c \in Clusters : owner[c] = s => owner'[c] = s
    BY <1>10, EntrySpells
  <2> SUFFICES ASSUME NEW s \in Slots, dir'[s].state = "file" PROVE Stored(s)'
    BY DEF StoredInv
  <2>2. CASE s = slot
    <3>1. dir'[s].size = Len(body) /\ dir'[s].first = first
      BY <1>1, <2>1, <2>2 DEF TypeOK, FileSlot
    <3> QED
      BY <2>1, <2>2, <3>1 DEF Stored
  <2>3. CASE s # slot
    <3>1. dir'[s] = dir[s]
      BY <1>1, <2>1, <2>3 DEF TypeOK
    <3>2. Stored(s)
      BY <2>3, <3>1 DEF StoredInv, Exempt
    <3> QED
      BY <2>1, <2>3, <3>1, <3>2, StoredKeeps
  <2> QED
    BY <2>2, <2>3
<1>11. CASE MarkDeleted
  <2>1. /\ fat' = fat /\ data' = data /\ ~released' /\ dir' = [dir EXCEPT ![slot] = DeletedSlot]
        /\ owner' = [c \in Clusters |-> IF owner[c] = slot THEN Nobody ELSE owner[c]]
    BY <1>11 DEF MarkDeleted, Return, Reset
  <2> SUFFICES ASSUME NEW s \in Slots, dir'[s].state = "file" PROVE Stored(s)'
    BY DEF StoredInv
  <2>2. s # slot
    BY <1>1, <2>1 DEF TypeOK, DeletedSlot
  <2>3. dir'[s] = dir[s] /\ \A c \in Clusters : owner[c] = s => owner'[c] = s
    BY <1>1, <2>1, <2>2 DEF TypeOK
  <2>4. Stored(s)
    BY <2>2, <2>3 DEF StoredInv, Exempt
  <2> QED
    BY <2>1, <2>3, <2>4, StoredKeeps
<1> QED
  BY <1>5, <1>6, <1>7, <1>8, <1>9, <1>10, <1>11 DEF Next, Step

(* What a write begins with: nothing written, nothing claimed. *)
LEMMA StartsWritten ==
  ASSUME first' = 0, prev' = 0, written' = 0, pc' \in {"alloc", "entry", "mark", "next"},
         pc' = "entry" => body' = << >>
  PROVE  WrittenInv'
<1>1. ~Taken' /\ ~Joined'
  BY DEF Taken, Joined
<1> DEFINE p == [i \in 1 .. 0 |-> 0]
<1>2. p \in [1 .. 0 -> Clusters]
  OBVIOUS
<1>3. \A i \in 1 .. 0 : FALSE
  OBVIOUS
<1>4. \A i \in 1 .. 0 - 1 : FALSE
  OBVIOUS
<1> HIDE DEF p
<1>5. SpeltTo(p)'
  BY <1>1, <1>3, <1>4 DEF SpeltTo
<1>6. \E x \in [1 .. written' -> Clusters] : SpeltTo(x)'
  BY <1>2, <1>5
<1>7. Len(<< >>) = 0
  OBVIOUS
<1> QED
  BY <1>1, <1>6, <1>7 DEF WrittenInv

LEMMA ClaimWritten ==
  ASSUME IInv, ~Torn, WrittenInv, AllocClaim
  PROVE  WrittenInv'
<1>1. TypeOK /\ LocalsInv /\ OwnInv
  BY DEF IInv, Torn
<1>2. /\ pc = "claim" /\ UNCHANGED <<data, cl, body, written>>
      /\ fat' = [fat EXCEPT ![copy][cl] = Eoc] /\ owner' = [owner EXCEPT ![cl] = Writer]
  BY DEF AllocClaim, call
<1>3. /\ 1 \in Copies /\ copy \in Copies /\ cl \in Clusters /\ Eoc # Free /\ cl # 0
      /\ Eoc \notin Clusters
  BY <1>1, <1>2, FatFacts DEF LocalsInv, TypeOK
<1>4. /\ \A c \in Clusters : fat'[1][c] = IF copy = 1 /\ c = cl THEN Eoc ELSE fat[1][c]
      /\ \A c \in Clusters : owner'[c] = IF c = cl THEN Writer ELSE owner[c]
  BY <1>1, <1>2, <1>3 DEF TypeOK
<1>5. /\ copy = 1 => fat[1][cl] = Free
      /\ copy # 1 => fat[1][cl] = Eoc /\ Taken
  BY <1>1, <1>2 DEF OwnInv, CallInv, WrittenInv, Taken
<1>6. /\ first = 0 <=> prev = 0
      /\ prev = 0 <=> written = 0
      /\ prev # 0 => fat[1][prev] = Eoc
      /\ ~Joined
  BY <1>2 DEF WrittenInv, Joined
<1>7. PICK p \in [1 .. written -> Clusters] : SpeltTo(p)
  BY <1>2 DEF WrittenInv
<1>8. written \in Nat
  BY <1>1, <1>2 DEF TypeOK
<1>9. /\ written > 0 => p[1] = first /\ p[written] = prev
      /\ \A i \in 1 .. written : owner[p[i]] = Writer /\ data[p[i]] = body[i] /\ p[i] \in Clusters
      /\ \A i \in 1 .. written - 1 : fat[1][p[i]] = p[i + 1]
  BY <1>2, <1>7 DEF SpeltTo
<1>10. \A i \in 1 .. written : p[i] # cl
  <2>1. CASE copy = 1
    <3>1. \A c \in Clusters : owner[c] = Writer => fat[1][c] # Free
      BY <1>1 DEF OwnInv, Kept
    <3> QED
      BY <1>5, <1>9, <2>1, <3>1
  <2>2. CASE copy # 1
    BY <1>5, <1>7, <2>2 DEF SpeltTo
  <2> QED
    BY <2>1, <2>2
<1>11. /\ \A i \in 1 .. written : owner'[p[i]] = Writer /\ data'[p[i]] = body'[i] /\ p[i] # cl'
       /\ \A i \in 1 .. written - 1 : fat'[1][p[i]] = p[i + 1]
  <2>1. \A i \in 1 .. written - 1 : i \in 1 .. written
    BY <1>8
  <2> QED
    BY <1>2, <1>4, <1>9, <1>10, <2>1
<1>12. fat'[1][cl'] = Eoc
  BY <1>2, <1>3, <1>4, <1>5
<1>13. prev # 0 => written > 0 /\ prev \in Clusters /\ fat'[1][prev] = Eoc
  <2>1. prev # 0 => written > 0 /\ prev \in Clusters
    BY <1>1, <1>6, <1>8 DEF TypeOK
  <2> QED
    BY <1>4, <1>6, <2>1
<1>14. CASE copy < FatCount \/ prev # 0
  <2>1. /\ first' = first /\ prev' = prev /\ pc' \in {"claim", "link"} /\ (pc' = "link" => copy' = 1)
    BY <1>2, <1>6, <1>14 DEF AllocClaim
  <2>2. SpeltTo(p)'
    BY <1>2, <1>9, <1>11, <2>1 DEF SpeltTo, Joined
  <2>3. \E x \in [1 .. written' -> Clusters] : SpeltTo(x)'
    BY <1>2, <2>2
  <2> QED
    BY <1>2, <1>6, <1>12, <1>13, <2>1, <2>3 DEF WrittenInv
<1>15. CASE ~(copy < FatCount) /\ prev = 0
  <2>1. written = 0 /\ first' = cl /\ prev' = cl /\ pc' = "block"
    BY <1>6, <1>15 DEF AllocClaim
  <2>2. SpeltTo(p)'
    BY <1>2, <1>11, <2>1 DEF SpeltTo
  <2>3. \E x \in [1 .. written' -> Clusters] : SpeltTo(x)'
    BY <1>2, <2>2
  <2> QED
    BY <1>2, <1>3, <1>12, <2>1, <2>3 DEF WrittenInv
<1> QED
  BY <1>14, <1>15

LEMMA LinkWritten ==
  ASSUME IInv, ~Torn, ~Torn', WrittenInv, Link \/ LinkFails
  PROVE  WrittenInv'
<1>1. TypeOK /\ LocalsInv /\ OwnInv
  BY DEF IInv, Torn
<1>2. /\ pc = "link" /\ UNCHANGED <<data, cl, body, written, owner, first>>
      /\ fat' = [fat EXCEPT ![copy][prev] = cl] \/ (fat' = fat /\ copy # 1)
  BY DEF Link, LinkFails, call, disk, history, Torn
<1>3. /\ 1 \in Copies /\ copy \in Copies /\ cl \in Clusters /\ prev \in Clusters /\ prev # 0
      /\ cl # 0 /\ Eoc \notin Clusters
  BY <1>1, <1>2, FatFacts DEF LocalsInv, TypeOK
<1>4. \A c \in Clusters : fat'[1][c] = IF copy = 1 /\ c = prev THEN cl ELSE fat[1][c]
  BY <1>1, <1>2, <1>3 DEF TypeOK
<1>5. /\ first # 0 /\ written # 0 /\ fat[1][cl] = Eoc /\ Taken
      /\ copy = 1 => fat[1][prev] = Eoc
      /\ copy # 1 => Joined
  BY <1>2, <1>3 DEF WrittenInv, Joined, Taken
<1>6. written \in Nat /\ written > 0
  BY <1>1, <1>5 DEF TypeOK
<1>7. PICK p \in [1 .. written -> Clusters] : SpeltTo(p)
  BY <1>2 DEF WrittenInv
<1>8. /\ p[1] = first /\ p[written] = prev
      /\ \A i \in 1 .. written : owner[p[i]] = Writer /\ data[p[i]] = body[i] /\ p[i] # cl
                                 /\ p[i] \in Clusters
      /\ \A i \in 1 .. written - 1 : fat[1][p[i]] = p[i + 1]
  BY <1>2, <1>5, <1>6, <1>7 DEF SpeltTo
<1>9. prev # cl
  <2>1. written \in 1 .. written
    BY <1>6
  <2> QED
    BY <1>8, <2>1
<1>10. fat'[1][cl] = Eoc
  BY <1>3, <1>4, <1>5, <1>9
<1>11. fat'[1][prev] = cl
  BY <1>3, <1>4, <1>5, <1>6, <1>7, <1>8 DEF SpeltTo
<1>12. \A i \in 1 .. written - 1 : fat'[1][p[i]] = p[i + 1]
  <2> TAKE i \in 1 .. written - 1
  <2>1. i \in 1 .. written /\ i + 1 \in 1 .. written
    BY <1>6
  <2>2. fat[1][p[i]] \in Clusters /\ p[i] \in Clusters
    BY <1>8, <2>1
  <2>3. ~(copy = 1 /\ p[i] = prev)
    BY <1>3, <1>5, <2>2
  <2> QED
    BY <1>4, <1>8, <2>2, <2>3
<1>13. pc' \in {"link", "block"} /\ (pc' = "link" => prev' = prev /\ copy' # 1)
       /\ (pc' = "block" => prev' = cl)
  <2>1. CASE Link /\ copy < FatCount
    BY <1>1, <2>1, VolumeAssumption DEF Link, TypeOK, Copies
  <2>2. CASE Link /\ ~(copy < FatCount)
    BY <2>2 DEF Link
  <2>3. CASE LinkFails
    BY <2>3 DEF LinkFails
  <2> QED
    BY <2>1, <2>2, <2>3
<1>14. SpeltTo(p)'
  BY <1>2, <1>8, <1>11, <1>12, <1>13 DEF SpeltTo
<1>15. \E x \in [1 .. written' -> Clusters] : SpeltTo(x)'
  BY <1>2, <1>14
<1>16. prev' # 0 /\ Joined'
  BY <1>3, <1>13 DEF Joined
<1> QED
  BY <1>2, <1>5, <1>10, <1>13, <1>15, <1>16 DEF WrittenInv

LEMMA BlockWritten ==
  ASSUME IInv, ~Torn, WrittenInv, WriteBlock
  PROVE  WrittenInv'
<1>1. TypeOK /\ LocalsInv /\ OwnInv
  BY DEF IInv, Torn
<1>2. /\ pc = "block" /\ UNCHANGED <<fat, cl, body, owner, first, prev>> /\ written' = written + 1
      /\ data' = [data EXCEPT ![cl] = body[written + 1]]
      /\ pc' = IF written + 1 < Len(body) THEN "alloc" ELSE "entry"
  BY DEF WriteBlock, call, history
<1>3. /\ cl \in Clusters /\ cl # 0 /\ owner[cl] = Writer /\ written \in Nat
      /\ written < Len(body) /\ Len(body) \in Nat
  BY <1>1, <1>2, FatFacts DEF LocalsInv, OwnInv, CallInv, TypeOK
<1>4. \A c \in Clusters : data'[c] = IF c = cl THEN body[written + 1] ELSE data[c]
  BY <1>1, <1>2, <1>3 DEF TypeOK
<1>5. /\ (first = 0 <=> prev = 0) /\ prev = cl /\ (written = 0 => first = cl)
      /\ fat[1][cl] = Eoc /\ Taken /\ Joined
  BY <1>2 DEF WrittenInv, Taken, Joined
<1>6. PICK p \in [1 .. written -> Clusters] : SpeltTo(p)
  BY <1>2 DEF WrittenInv
<1>7. /\ written > 0 => p[1] = first /\ fat[1][p[written]] = cl
      /\ \A i \in 1 .. written : owner[p[i]] = Writer /\ data[p[i]] = body[i] /\ p[i] # cl
                                 /\ p[i] \in Clusters
      /\ \A i \in 1 .. written - 1 : fat[1][p[i]] = p[i + 1]
  BY <1>5, <1>6 DEF SpeltTo
<1> DEFINE n == written
           c == cl
<1>8. PICK x : x = [i \in 1 .. n + 1 |-> IF i <= n THEN p[i] ELSE c]
  OBVIOUS
<1>9. /\ x \in [1 .. n + 1 -> Clusters] /\ x[n + 1] = c
      /\ \A i \in 1 .. n : x[i] = p[i]
  BY <1>3, <1>7, <1>8
<1>10. x[1] = first
  <2>1. CASE n = 0
    BY <1>5, <1>9, <2>1
  <2>2. CASE n # 0
    <3>1. 1 \in 1 .. n /\ n > 0
      BY <1>3, <2>2
    <3> QED
      BY <1>7, <1>9, <3>1
  <2> QED
    BY <2>1, <2>2
<1>11. \A i \in 1 .. n + 1 : owner[x[i]] = Writer /\ data'[x[i]] = body[i]
  <2> TAKE i \in 1 .. n + 1
  <2>1. CASE i = n + 1
    BY <1>3, <1>4, <1>9, <2>1
  <2>2. CASE i # n + 1
    <3>1. i \in 1 .. n
      BY <1>3, <2>2
    <3> QED
      BY <1>4, <1>7, <1>9, <3>1
  <2> QED
    BY <2>1, <2>2
<1>12. \A i \in 1 .. n : fat[1][x[i]] = x[i + 1]
  <2> TAKE i \in 1 .. n
  <2>1. CASE i = n
    <3>1. n > 0
      BY <1>3, <2>1
    <3> QED
      BY <1>7, <1>9, <2>1, <3>1
  <2>2. CASE i # n
    <3>1. i \in 1 .. n - 1 /\ i + 1 \in 1 .. n
      BY <1>3, <2>2
    <3> QED
      BY <1>7, <1>9, <3>1
  <2> QED
    BY <2>1, <2>2
<1> HIDE DEF n, c
<1>13. n' = n + 1
  BY <1>2 DEF n
<1>14. pc' \in {"alloc", "entry"} /\ ~Taken' /\ ~Joined'
       /\ (pc' = "entry" => n + 1 = Len(body))
  BY <1>2, <1>3 DEF Taken, Joined, n
<1>15. SpeltTo(x)'
  <2>1. written' = n + 1 /\ n + 1 - 1 = n /\ n \in Nat
    BY <1>2, <1>3 DEF n
  <2>2. x[n + 1] = prev
    BY <1>5, <1>9 DEF c
  <2> QED
    BY <1>2, <1>10, <1>11, <1>12, <1>14, <2>1, <2>2 DEF SpeltTo
<1>16. \E y \in [1 .. written' -> Clusters] : SpeltTo(y)'
  BY <1>2, <1>9, <1>15 DEF n
<1>17. prev' = cl' /\ prev' # 0 /\ first' # 0 /\ written' # 0 /\ fat'[1][prev'] = Eoc
  BY <1>2, <1>3, <1>5
<1> QED
  BY <1>2, <1>14, <1>16, <1>17 DEF WrittenInv, n

LEMMA NextWritten ==
  ASSUME IInv, RequestInv, ~Torn, ~Torn', WrittenInv, Next
  PROVE  WrittenInv'
<1>1. TypeOK /\ LocalsInv
  BY DEF IInv
<1>2. ASSUME pc' \notin {"alloc", "claim", "link", "block", "entry"} PROVE WrittenInv'
  BY <1>2 DEF WrittenInv
<1>3. ASSUME NEW r, Abort(r) PROVE WrittenInv'
  BY <1>2, <1>3, AbortWhole
<1>4. AfterRelease = "entry" => body = << >>
  BY DEF AfterRelease
<1>5. AfterRelease \in {"mark", "entry", "alloc"}
  BY DEF AfterRelease
<1>6. ASSUME first = 0, prev = 0, written = 0, UNCHANGED <<first, prev, written, body>>,
             pc' \in {"next", "clear", AfterRelease}
      PROVE  WrittenInv'
  <2>1. CASE pc' = "clear"
    BY <1>2, <2>1
  <2>2. CASE pc' # "clear"
    BY <1>4, <1>5, <1>6, <2>2, StartsWritten
  <2> QED
    BY <2>1, <2>2
<1>7. CASE (\E n \in Names, b \in Contents : CallWrite(n, b)) \/ \E n \in Names : CallDelete(n)
  BY <1>2, <1>7 DEF CallWrite, CallDelete
<1>8. CASE \E s \in Slots : LookupHit(s) \/ LookupNewSlot(s)
  <2>1. pc = "lookup" /\ pc' \in {"next", AfterRelease} /\ UNCHANGED <<first, prev, written, body>>
    BY <1>8 DEF LookupHit, LookupNewSlot, call
  <2> QED
    BY <1>1, <1>6, <2>1 DEF LocalsInv
<1>9. CASE FreeNext \/ FreeClear \/ FreeClearFails
  <2>1. /\ pc \in {"next", "clear"} /\ pc' \in {"clear", "next", AfterRelease}
        /\ UNCHANGED <<first, prev, written, body>>
    BY <1>9 DEF FreeNext, FreeClear, FreeClearFails, FreeAdvance, call
  <2> QED
    BY <1>1, <1>6, <2>1 DEF LocalsInv
<1>10. CASE AllocScan
  <2>1. /\ pc = "alloc" /\ pc' = "claim" /\ copy' = 1
        /\ UNCHANGED <<fat, data, body, first, prev, written, owner>>
    BY <1>10 DEF AllocScan, disk, call, history
  <2>2. PICK p \in [1 .. written -> Clusters] : SpeltTo(p)
    BY <2>1 DEF WrittenInv
  <2>3. ~Taken' /\ ~Joined' /\ ~Taken /\ ~Joined
    BY <2>1 DEF Taken, Joined
  <2>4. SpeltTo(p)'
    BY <2>1, <2>2, <2>3 DEF SpeltTo
  <2>5. \E x \in [1 .. written' -> Clusters] : SpeltTo(x)'
    BY <2>1, <2>4
  <2> QED
    BY <2>1, <2>3, <2>5 DEF WrittenInv
<1>11. CASE AllocClaim \/ Link \/ LinkFails \/ WriteBlock
  BY <1>11, ClaimWritten, LinkWritten, BlockWritten
<1>12. CASE LookupRefused \/ AllocNone \/ StepFails \/ PowerLoss
  BY <1>3, <1>12 DEF LookupRefused, AllocNone, StepFails, PowerLoss
<1>13. CASE WriteEntry \/ MarkDeleted
  BY <1>2, <1>13 DEF WriteEntry, MarkDeleted, Return, Reset
<1> QED
  BY <1>7, <1>8, <1>9, <1>10, <1>11, <1>12, <1>13 DEF Next, Step

(* While the store is not torn, every file is whole and so is what the     *)
(* running write has made.                                                 *)
StoreInv == ~Torn => StoredInv /\ WrittenInv

LEMMA TornStays == Next /\ ~Torn' => ~Torn
BY HurtGrows DEF Torn

LEMMA StoreInvAlways == Spec => []StoreInv
<1>1. Init => StoreInv
  <2> SUFFICES ASSUME Init PROVE StoredInv /\ WrittenInv
    BY DEF StoreInv
  <2>1. \A s \in Slots : dir[s].state = "end"
    BY DEF Init, EndSlot
  <2>2. pc = "idle"
    BY DEF Init
  <2> QED
    BY <2>1, <2>2 DEF StoredInv, WrittenInv
<1>2. IInv /\ RequestInv /\ StoreInv /\ [Next]_vars => StoreInv'
  <2>1. CASE IInv /\ RequestInv /\ StoreInv /\ Next
    BY <2>1, TornStays, NextStored, NextWritten DEF StoreInv
  <2>2. ASSUME StoreInv, UNCHANGED vars PROVE StoreInv'
    <3> USE <2>2 DEF vars, disk, call, regs, history
    <3>1. Torn' <=> Torn
      BY DEF Torn
    <3>2. ASSUME StoredInv PROVE StoredInv'
      BY <3>2 DEF StoredInv, Exempt, Stored
    <3>3. ASSUME WrittenInv PROVE WrittenInv'
      BY <3>3 DEF WrittenInv, SpeltTo, Taken, Joined
    <3> QED
      BY <3>1, <3>2, <3>3 DEF StoreInv
  <2> QED
    BY <2>1, <2>2
<1> QED
  BY <1>1, <1>2, IInvAlways, RequestAlways, PTL DEF Spec

----------------------------------------------------------------------------
(* Third, what the names hold.                                             *)
Files == [n \in Names |-> Held(n)]
Request == [op |-> op, name |-> name, body |-> body]

IsFor(s, n) == dir[s].state = "file" /\ dir[s].name = n

(* Held, without its CHOOSE. *)
HeldInv ==
  ~Torn => \A n \in Names :
    /\ (\A s \in Slots : ~IsFor(s, n)) => Held(n) = Absent
    /\ \A s \in Slots : IsFor(s, n) =>
         /\ Exempt(s) => Held(n) = Unknown
         /\ ~Exempt(s) => Held(n) = ReadBack(s) /\ ReadBack(s) \in Contents

(* A chain that spells b is read back as b. *)
LEMMA SpelledReads ==
  ASSUME NEW f \in [Clusters -> {Free, Eoc} \cup Clusters],
         NEW d \in [Clusters -> Blocks \cup {Blank}], NEW o, NEW w,
         NEW head \in {0} \cup Clusters, NEW b \in Contents, Spells(f, d, o, w, head, b)
  PROVE  Reads(f, d, Len(b))[Len(b)][head] = b
<1>1. b \in Seq(Blocks \cup {Blank})
  BY DataAssumption, SeqMonotonic
<1>2. PICK p \in [1 .. Len(b) -> Clusters] :
        /\ b # << >> => p[1] = head
        /\ \A i \in 1 .. Len(b) : d[p[i]] = b[i]
        /\ \A i \in 1 .. Len(b) - 1 : f[p[i]] = p[i + 1]
  BY DEF Spells
<1>3. head \in Clusters \cup {Free, Eoc}
  BY DEF Free
<1> DEFINE S == Blocks \cup {Blank}
<1> HIDE DEF S
<1>4. b \in Seq(S) /\ d \in [Clusters -> S]
  BY <1>1 DEF S
<1>5. /\ p \in [1 .. Len(b) -> Clusters] /\ (b # << >> => p[1] = head)
      /\ Along(f, d, p, b)
  BY <1>2 DEF Along
<1> QED
  BY ONLY <1>3, <1>4, <1>5, f \in [Clusters -> {Free, Eoc} \cup Clusters], ReadsChain

LEMMA StoredReads ==
  ASSUME TypeOK, NEW s \in Slots, Stored(s)
  PROVE  ReadBack(s) \in Contents
<1>1. PICK b \in Contents : Len(b) = dir[s].size /\ Spells(fat[1], data, owner, s, dir[s].first, b)
  BY DEF Stored
<1>2. /\ fat[1] \in [Clusters -> {Free, Eoc} \cup Clusters]
      /\ data \in [Clusters -> Blocks \cup {Blank}] /\ dir[s].first \in {0} \cup Clusters
  BY FatFacts DEF TypeOK, Entries
<1>3. Reads(fat[1], data, Len(b))[Len(b)][dir[s].first] = b
  BY <1>1, <1>2, SpelledReads
<1> QED
  BY <1>1, <1>3 DEF ReadBack

(* A file reads back the same when none of its clusters changes. *)
LEMMA KeptReads ==
  ASSUME TypeOK, TypeOK', NEW s \in Slots, Stored(s), dir'[s] = dir[s],
         \A c \in Clusters : owner[c] = s => fat'[1][c] = fat[1][c] /\ data'[c] = data[c]
  PROVE  ReadBack(s)' = ReadBack(s)
<1>1. PICK b \in Contents : Len(b) = dir[s].size /\ Spells(fat[1], data, owner, s, dir[s].first, b)
  BY DEF Stored
<1>2. /\ fat[1] \in [Clusters -> {Free, Eoc} \cup Clusters]
      /\ fat'[1] \in [Clusters -> {Free, Eoc} \cup Clusters]
      /\ data \in [Clusters -> Blocks \cup {Blank}] /\ data' \in [Clusters -> Blocks \cup {Blank}]
      /\ dir[s].first \in {0} \cup Clusters
  BY FatFacts DEF TypeOK, Entries
<1>3. Len(b) \in Nat
  BY DataAssumption
<1>4. Spells(fat'[1], data', owner, s, dir[s].first, b)
  BY <1>1, <1>3, SpellsSame
<1>5. Reads(fat[1], data, Len(b))[Len(b)][dir[s].first] = b
  BY <1>1, <1>2, SpelledReads
<1>6. Reads(fat'[1], data', Len(b))[Len(b)][dir[s].first] = b
  BY <1>2, <1>4, SpelledReads
<1> QED
  BY <1>1, <1>5, <1>6 DEF ReadBack

LEMMA HeldIs == IInv /\ DirInv /\ StoreInv => HeldInv
<1> SUFFICES ASSUME IInv, DirInv, StoreInv, ~Torn, NEW n \in Names
             PROVE  /\ (\A s \in Slots : ~IsFor(s, n)) => Held(n) = Absent
                    /\ \A s \in Slots : IsFor(s, n) =>
                         /\ Exempt(s) => Held(n) = Unknown
                         /\ ~Exempt(s) => Held(n) = ReadBack(s) /\ ReadBack(s) \in Contents
  BY DEF HeldInv
<1>1. TypeOK /\ EndsLast /\ NamesInv /\ "blindLookup" \notin hurt
  BY DEF IInv, DirInv, Torn
<1>2. ASSUME \A s \in Slots : ~IsFor(s, n) PROVE Held(n) = Absent
  <2>1. ~Listed(n)
    BY <1>2 DEF Listed, Hit, IsFor
  <2> QED
    BY <2>1 DEF Held
<1>3. ASSUME NEW s \in Slots, IsFor(s, n)
      PROVE  /\ Exempt(s) => Held(n) = Unknown
             /\ ~Exempt(s) => Held(n) = ReadBack(s) /\ ReadBack(s) \in Contents
  <2>1. Visible(s)
    BY <1>1, <1>3, EndsShow DEF IsFor
  <2>2. Hit(s, n) /\ s \in Listing
    BY <1>3, <2>1 DEF Hit, IsFor, Listing
  <2>3. \A t \in Slots : Hit(t, n) => t = s
    BY <1>1, <1>3 DEF NamesInv, Hit, IsFor
  <2>4. \A t \in Slots : FirstHit(t, n) <=> t = s
    <3>1. FirstHit(s, n)
      BY <2>2, <2>3, VolumeAssumption DEF FirstHit, Slots
    <3> QED
      BY <2>3, <3>1 DEF FirstHit
  <2>5. (CHOOSE t \in Slots : FirstHit(t, n)) = s
    BY <2>4
  <2>6. Listed(n)
    BY <2>2 DEF Listed
  <2>7. Held(n) = IF Whole(s) THEN ReadBack(s) ELSE Unknown
    <3>1. Held(n) = LET t == CHOOSE t \in Slots : FirstHit(t, n)
                    IN  IF Whole(t) THEN ReadBack(t) ELSE Unknown
      BY <2>6 DEF Held
    <3> QED
      BY <2>5, <3>1
  <2>8. Whole(s) <=> ~Exempt(s)
    BY <2>2 DEF Whole, Exempt
  <2>9. ~Exempt(s) => ReadBack(s) \in Contents
    BY <1>1, <1>3, StoredReads DEF StoreInv, StoredInv, IsFor
  <2> QED
    BY <2>7, <2>8, <2>9
<1> QED
  BY <1>2, <1>3

LEMMA HeldAlways == Spec => []HeldInv
BY HeldIs, IInvAlways, DirAlways, StoreInvAlways, PTL

----------------------------------------------------------------------------
(* Last, each step of the driver is a step of the store, or none.          *)

(* A name holds the same when its entries and what they read do not change. *)
LEMMA SameHeld ==
  ASSUME HeldInv, HeldInv', ~Torn, ~Torn', NEW n \in Names,
         \A s \in Slots : IsFor(s, n)' <=> IsFor(s, n),
         \A s \in Slots : IsFor(s, n) =>
           /\ Exempt(s)' <=> Exempt(s)
           /\ ~Exempt(s) => ReadBack(s)' = ReadBack(s)
  PROVE  Held(n)' = Held(n)
<1>1. CASE \A s \in Slots : ~IsFor(s, n)
  BY <1>1 DEF HeldInv
<1>2. ASSUME NEW s \in Slots, IsFor(s, n) PROVE Held(n)' = Held(n)
  <2>1. CASE Exempt(s)
    BY <1>2, <2>1 DEF HeldInv
  <2>2. CASE ~Exempt(s)
    BY <1>2, <2>2 DEF HeldInv
  <2> QED
    BY <2>1, <2>2
<1> QED
  BY <1>1, <1>2

LEMMA SameFilesHeld ==
  ASSUME HeldInv, HeldInv', ~Torn, ~Torn', dir' = dir,
         \A s \in Slots : dir[s].state = "file" =>
           /\ Exempt(s)' <=> Exempt(s)
           /\ ~Exempt(s) => ReadBack(s)' = ReadBack(s)
  PROVE  Files' = Files
<1>1. ASSUME NEW n \in Names PROVE Held(n)' = Held(n)
  <2>1. \A s \in Slots : IsFor(s, n)' <=> IsFor(s, n)
    BY DEF IsFor
  <2>2. \A s \in Slots : IsFor(s, n) => dir[s].state = "file"
    BY DEF IsFor
  <2> QED
    BY <2>1, <2>2, SameHeld
<1> QED
  BY <1>1 DEF Files

(* What the requested name holds in each phase of the call. *)
LEMMA NameHeld ==
  ASSUME HeldInv, RequestInv, ~Torn, pc # "idle", TypeOK
  PROVE  /\ name \in Names /\ Files[name] = Held(name)
         /\ ~released => Files[name] # Unknown
         /\ pc \in {"next", "clear", "mark"} => Files[name] # Absent
<1>1. name \in Names
  BY DEF RequestInv
<1>2. Files[name] = Held(name)
  BY <1>1 DEF Files
<1>3. ASSUME ~released PROVE Held(name) # Unknown
  <2>1. \A s \in Slots : ~Exempt(s)
    BY <1>3 DEF Exempt
  <2>2. Held(name) = Absent \/ Held(name) \in Contents
    BY <1>1, <2>1 DEF HeldInv
  <2> QED
    BY <2>2, StoreAssumption
<1>4. ASSUME pc \in {"next", "clear", "mark"} PROVE Held(name) # Absent
  <2>1. IsFor(slot, name) /\ slot \in Slots
    BY <1>4 DEF RequestInv, FirstHit, Hit, IsFor, TypeOK
  <2>2. Held(name) = Unknown \/ Held(name) \in Contents
    BY <1>1, <2>1 DEF HeldInv
  <2> QED
    BY <2>2, StoreAssumption
<1> QED
  BY <1>1, <1>2, <1>3, <1>4

LEMMA AsQuiet ==
  ASSUME Files' = Files, UNCHANGED <<op, name, body, reply>>, ~Torn, ~Torn'
  PROVE  UNCHANGED Store!storeVars
<1>1. Torn' = Torn
  BY DEF Torn
<1> QED
  BY <1>1 DEF Store!storeVars, Files

(* A call is the store's request. *)
LEMMA AsAsk ==
  ASSUME RequestInv, ~Torn, ~Torn', Files' = Files,
         (\E n \in Names, b \in Contents : CallWrite(n, b)) \/ \E n \in Names : CallDelete(n)
  PROVE  Store!Ask
<1>1. Request = Store!Idle /\ reply' = "none" /\ Torn' = Torn
  BY DEF CallWrite, CallDelete, RequestInv, Request, Store!Idle, Torn
<1>2. \/ \E n \in Names, b \in Contents : Request' = [op |-> "write", name |-> n, body |-> b]
      \/ \E n \in Names : Request' = [op |-> "delete", name |-> n, body |-> << >>]
  BY DEF CallWrite, CallDelete, Request
<1> QED
  BY <1>1, <1>2 DEF Store!Ask, Files, Request

(* A call that stops before it frees anything gives the request up. *)
LEMMA AsGiveUp ==
  ASSUME TypeOK, HeldInv, HeldInv', RequestInv, ~Torn, ~Torn', pc # "idle",
         NEW r \in {"fail", "none"}, Abort(r)
  PROVE  Store!GiveUp
<1>1. /\ ~released /\ ~released' /\ reply' = r
      /\ op' = "none" /\ name' = NoName /\ body' = << >>
      /\ UNCHANGED <<fat, dir, data>>
  BY AbortWhole
<1>2. \A s \in Slots : ~Exempt(s)' /\ ~Exempt(s) /\ ReadBack(s)' = ReadBack(s)
  BY <1>1 DEF Exempt, ReadBack
<1>3. Files' = Files
  BY <1>1, <1>2, SameFilesHeld
<1>4. name \in Names /\ Files[name] # Unknown
  BY <1>1, NameHeld
<1>5. Request # Store!Idle /\ Request' = Store!Idle /\ Torn' = Torn /\ Request.name = name
  BY <1>1 DEF RequestInv, Request, Store!Idle, Torn
<1> QED
  BY <1>1, <1>3, <1>4, <1>5 DEF Store!GiveUp, Files, Request

(* A file is withdrawn when the first entry of its chain is cleared. *)
LEMMA AsWithdraw ==
  ASSUME TypeOK, TypeOK', IInv, HeldInv, HeldInv', RequestInv, StoredInv, NamesInv,
         ~Torn, ~Torn', ~released, FreeClear
  PROVE  Store!Withdraw
<1>1. /\ pc = "clear" /\ released' /\ UNCHANGED <<dir, slot, op, name, body, reply>>
      /\ "blindLookup" \notin hurt
  BY DEF FreeClear, call, Torn
<1>2. IsFor(slot, name) /\ slot \in Slots /\ name \in Names
  BY <1>1 DEF RequestInv, FirstHit, Hit, IsFor, TypeOK
<1>3. ASSUME NEW n \in Names, n = name PROVE Held(n)' = Unknown
  BY <1>1, <1>2, <1>3 DEF HeldInv, IsFor, Exempt
<1>4. ASSUME NEW n \in Names, n # name PROVE Held(n)' = Held(n)
  <2>1. \A s \in Slots : IsFor(s, n)' <=> IsFor(s, n)
    BY <1>1 DEF IsFor
  <2>2. ASSUME NEW s \in Slots, IsFor(s, n)
        PROVE  ~Exempt(s) /\ ~Exempt(s)' /\ ReadBack(s)' = ReadBack(s)
    <3>1. ~Exempt(s) /\ ~Exempt(s)'
      BY <1>1, <1>2, <1>4, <2>2 DEF Exempt, IsFor
    <3>2. \A c \in Clusters : owner[c] = s => fat'[1][c] = fat[1][c] /\ data'[c] = data[c]
      BY <3>1, ChainSteps
    <3>3. Stored(s) /\ dir'[s] = dir[s]
      BY <1>1, <2>2, <3>1 DEF StoredInv, IsFor
    <3> QED
      BY <3>1, <3>2, <3>3, KeptReads
  <2> QED
    BY <2>1, <2>2, SameHeld
<1>5. Files' = [Files EXCEPT ![name] = Unknown]
  BY <1>2, <1>3, <1>4 DEF Files
<1>6. Files[name] # Absent
  BY <1>1, NameHeld
<1>7. Request # Store!Idle /\ Request' = Request /\ Torn' = Torn /\ Request.name = name
  BY <1>1 DEF RequestInv, Request, Store!Idle, Torn
<1> QED
  BY <1>1, <1>5, <1>6, <1>7 DEF Store!Withdraw, Files, Request

(* Writing the call's entry changes what no other name holds. *)
LEMMA OthersHeld ==
  ASSUME TypeOK, HeldInv, HeldInv', RequestInv, ~Torn, ~Torn', Running,
         NEW e, dir' = [dir EXCEPT ![slot] = e], e.state = "file" => e.name = name,
         UNCHANGED <<fat, data>>, ~released', NEW n \in Names, n # name
  PROVE  Held(n)' = Held(n)
<1>1. /\ slot \in Slots /\ dir'[slot] = e
      /\ \A s \in Slots : s # slot => dir'[s] = dir[s]
      /\ dir[slot].state = "file" => dir[slot].name = name
  BY DEF TypeOK, RequestInv
<1>2. ~IsFor(slot, n) /\ ~(dir'[slot].state = "file" /\ dir'[slot].name = n)
  BY <1>1 DEF IsFor
<1>3. \A s \in Slots : IsFor(s, n)' <=> IsFor(s, n)
  BY <1>1, <1>2 DEF IsFor
<1>4. \A s \in Slots : IsFor(s, n) => ~Exempt(s) /\ ~Exempt(s)' /\ ReadBack(s)' = ReadBack(s)
  <2> SUFFICES ASSUME NEW s \in Slots, IsFor(s, n)
               PROVE  ~Exempt(s) /\ ~Exempt(s)' /\ ReadBack(s)' = ReadBack(s)
    OBVIOUS
  <2>1. s # slot /\ dir'[s] = dir[s]
    BY <1>1, <1>2
  <2> QED
    BY <2>1 DEF Exempt, ReadBack
<1> QED
  BY <1>3, <1>4, SameHeld

(* The directory write of a delete removes the name. *)
LEMMA AsRemove ==
  ASSUME TypeOK, HeldInv, HeldInv', RequestInv, NamesInv, ~Torn, ~Torn', MarkDeleted
  PROVE  Store!Remove
<1>1. /\ pc = "mark" /\ ~released' /\ dir' = [dir EXCEPT ![slot] = DeletedSlot]
      /\ UNCHANGED <<fat, data>> /\ reply' = "ok" /\ "blindLookup" \notin hurt
      /\ op' = "none" /\ name' = NoName /\ body' = << >>
  BY DEF MarkDeleted, Return, Reset, Torn
<1>2. IsFor(slot, name) /\ slot \in Slots /\ name \in Names /\ op = "delete"
  BY <1>1 DEF RequestInv, FirstHit, Hit, IsFor, TypeOK
<1>3. ASSUME NEW n \in Names, n = name PROVE Held(n)' = Absent
  <2>1. \A s \in Slots : IsFor(s, n) => s = slot
    BY <1>1, <1>2, <1>3 DEF NamesInv, IsFor
  <2>2. \A s \in Slots : ~IsFor(s, n)'
    BY <1>1, <2>1 DEF IsFor, DeletedSlot, TypeOK
  <2> QED
    BY <2>2 DEF HeldInv
<1>4. ASSUME NEW n \in Names, n # name PROVE Held(n)' = Held(n)
  <2>1. Running /\ (DeletedSlot.state = "file" => DeletedSlot.name = name)
    BY <1>1 DEF Running, DeletedSlot
  <2> QED
    BY <1>1, <1>4, <2>1, OthersHeld
<1>5. Files' = [Files EXCEPT ![name] = Absent]
  BY <1>2, <1>3, <1>4 DEF Files
<1>6. Files[name] # Absent
  BY <1>1, NameHeld
<1>7. Request.op = "delete" /\ Request' = Store!Idle /\ Torn' = Torn /\ Request.name = name
  BY <1>1, <1>2 DEF Request, Store!Idle, Torn
<1> QED
  BY <1>1, <1>5, <1>6, <1>7 DEF Store!Remove, Files, Request

(* The directory write of a write publishes the whole body. *)
LEMMA AsPublish ==
  ASSUME IInv, TypeOK', HeldInv, HeldInv', RequestInv, WrittenInv, ~Torn, ~Torn', WriteEntry
  PROVE  Store!Publish
<1>1. /\ pc = "entry" /\ reply' = "ok" /\ TypeOK
      /\ op' = "none" /\ name' = NoName /\ body' = << >>
  BY DEF WriteEntry, Return, Reset, IInv
<1>2. /\ dir' = [dir EXCEPT ![slot] = FileSlot(name, first, Len(body))]
      /\ UNCHANGED <<fat, data>> /\ ~released' /\ body \in Contents
      /\ Spells(fat'[1], data', owner', slot, first, body)
  BY EntrySpells
<1>3. name \in Names /\ op = "write" /\ slot \in Slots
  BY <1>1 DEF RequestInv, TypeOK
<1>4. dir'[slot] = FileSlot(name, first, Len(body))
  BY <1>1, <1>2, <1>3 DEF TypeOK
<1>5. ASSUME NEW n \in Names, n = name PROVE Held(n)' = body
  <2>1. PICK s \in Slots : s = slot
    BY <1>3
  <2>2. IsFor(s, n)' /\ ~Exempt(s)'
    BY <1>2, <1>4, <1>5, <2>1 DEF IsFor, FileSlot, Exempt
  <2>3. Held(n)' = ReadBack(s)'
    BY <2>2 DEF HeldInv
  <2>4. dir'[s].size = Len(body) /\ dir'[s].first = first
    BY <1>4, <2>1 DEF FileSlot
  <2>5. /\ fat'[1] \in [Clusters -> {Free, Eoc} \cup Clusters]
        /\ data' \in [Clusters -> Blocks \cup {Blank}] /\ first \in {0} \cup Clusters
    BY <1>1, FatFacts DEF TypeOK
  <2>6. Reads(fat'[1], data', Len(body))[Len(body)][first] = body
    BY <1>2, <2>5, SpelledReads
  <2> QED
    BY <2>3, <2>4, <2>6 DEF ReadBack
<1>6. ASSUME NEW n \in Names, n # name PROVE Held(n)' = Held(n)
  <2>1. Running /\ (FileSlot(name, first, Len(body)).state = "file"
                      => FileSlot(name, first, Len(body)).name = name)
    BY <1>1 DEF Running, FileSlot
  <2> QED
    BY <1>1, <1>2, <1>6, <2>1, OthersHeld
<1>7. Files' = [Files EXCEPT ![name] = body]
  BY <1>3, <1>5, <1>6 DEF Files
<1>8. Request.op = "write" /\ Request' = Store!Idle /\ Torn' = Torn /\ Request.name = name
      /\ Request.body = body
  BY <1>1, <1>3 DEF Request, Store!Idle, Torn
<1> QED
  BY <1>1, <1>7, <1>8 DEF Store!Publish, Files, Request

(* Looking up, reading links, claiming, linking and writing data change    *)
(* nothing that a name holds.                                              *)
LEMMA QuietStep ==
  ASSUME IInv, TypeOK', HeldInv, HeldInv', StoredInv, ~Torn, ~Torn',
         \/ \E s \in Slots : LookupHit(s) \/ LookupNewSlot(s)
         \/ FreeNext \/ FreeClearFails \/ AllocScan \/ LinkFails
         \/ FreeClear /\ released
         \/ AllocClaim \/ Link \/ WriteBlock
  PROVE  Files' = Files /\ UNCHANGED <<op, name, body, reply>>
<1>1. TypeOK /\ LocalsInv
  BY DEF IInv
<1>2. dir' = dir /\ UNCHANGED <<op, name, body, reply>>
  BY DEF LookupHit, LookupNewSlot, FreeNext, FreeClearFails, AllocScan, LinkFails, FreeClear,
         AllocClaim, Link, WriteBlock, disk, call
<1>3. CASE \/ \E s \in Slots : LookupHit(s) \/ LookupNewSlot(s)
           \/ FreeNext \/ FreeClearFails \/ AllocScan \/ LinkFails
  <2>1. /\ UNCHANGED <<fat, data, released>>
        /\ slot' = slot \/ pc = "lookup"
    BY <1>3 DEF LookupHit, LookupNewSlot, FreeNext, FreeClearFails, AllocScan, LinkFails, disk,
                history
  <2>2. \A s \in Slots : Exempt(s)' <=> Exempt(s)
    BY <1>1, <2>1 DEF Exempt, LocalsInv
  <2>3. \A s \in Slots : ReadBack(s)' = ReadBack(s)
    BY <1>2, <2>1 DEF ReadBack
  <2> QED
    BY <1>2, <2>2, <2>3, SameFilesHeld
<1>4. CASE (FreeClear /\ released) \/ AllocClaim \/ Link \/ WriteBlock
  <2>1. UNCHANGED <<slot, released>>
    BY <1>4 DEF FreeClear, AllocClaim, Link, WriteBlock, history
  <2>2. \A s \in Slots : Exempt(s)' <=> Exempt(s)
    BY <2>1 DEF Exempt
  <2>3. \A s \in Slots : ~Exempt(s)' => \A c \in Clusters :
          owner[c] = s => fat'[1][c] = fat[1][c] /\ data'[c] = data[c]
    BY <1>4, ChainSteps
  <2>4. ASSUME NEW s \in Slots, dir[s].state = "file", ~Exempt(s)
        PROVE  ReadBack(s)' = ReadBack(s)
    <3>1. Stored(s)
      BY <2>4 DEF StoredInv
    <3>2. \A c \in Clusters : owner[c] = s => fat'[1][c] = fat[1][c] /\ data'[c] = data[c]
      BY <2>2, <2>3, <2>4
    <3> QED
      BY <1>1, <1>2, <3>1, <3>2, KeptReads
  <2> QED
    BY <1>2, <2>2, <2>4, SameFilesHeld
<1> QED
  BY <1>3, <1>4

AllInv == IInv /\ DirInv /\ RequestInv /\ StoreInv /\ HeldInv

(* No step of the driver does what the store does not allow. *)
LEMMA StoreStep == AllInv /\ AllInv' /\ [Next]_vars => [Store!StoreNext]_(Store!storeVars)
<1> SUFFICES ASSUME AllInv, AllInv', [Next]_vars, ~UNCHANGED Store!storeVars
             PROVE  Store!StoreNext
  OBVIOUS
<1>1. /\ IInv /\ TypeOK /\ TypeOK' /\ HeldInv /\ HeldInv' /\ RequestInv /\ NamesInv
      /\ ~Torn => StoredInv /\ WrittenInv
  BY DEF AllInv, IInv, DirInv, StoreInv
<1>2. CASE Torn /\ Torn'
  <2>1. Torn' = TRUE
    BY <1>2 DEF Torn
  <2> QED
    BY <1>2, <2>1 DEF Store!StoreNext
<1>3. CASE ~Torn /\ Torn'
  <2>1. Torn' = TRUE
    BY <1>3 DEF Torn
  <2>2. \A n \in Names : Held(n)' = Unknown
    BY <1>3 DEF Held
  <2>3. reply' \in {"ok", "fail", "none"}
    BY <1>1 DEF TypeOK
  <2>4. Store!Tear
    BY <2>1, <2>2, <2>3 DEF Store!Tear
  <2> QED
    BY <1>3, <2>4 DEF Store!StoreNext
<1>4. CASE ~Torn'
  <2>1. CASE UNCHANGED vars
    <3>1. UNCHANGED <<fat, dir, data, slot, released, op, name, body, reply, hurt>>
      BY <2>1 DEF vars, disk, call, regs, history
    <3>2. ~Torn
      BY <1>4, <3>1 DEF Torn
    <3>3. \A s \in Slots : (Exempt(s)' <=> Exempt(s)) /\ ReadBack(s)' = ReadBack(s)
      BY <3>1 DEF Exempt, ReadBack
    <3>4. Files' = Files
      BY <1>1, <1>4, <3>1, <3>2, <3>3, SameFilesHeld
    <3> QED
      BY <1>4, <3>1, <3>2, <3>4, AsQuiet
  <2> SUFFICES ASSUME Next PROVE Store!StoreNext
    BY <2>1
  <2>2. ~Torn /\ StoredInv /\ WrittenInv
    BY <1>1, <1>4, TornStays
  <2>3. ASSUME Store!Ask \/ Store!Withdraw \/ Store!Publish \/ Store!Remove \/ Store!GiveUp
        PROVE  Store!StoreNext
    BY <2>2, <2>3 DEF Store!StoreNext
  <2>4. CASE (\E n \in Names, b \in Contents : CallWrite(n, b)) \/ \E n \in Names : CallDelete(n)
    <3>1. UNCHANGED <<fat, dir, data, slot, released>>
      BY <2>4 DEF CallWrite, CallDelete, disk, regs, history
    <3>2. \A s \in Slots : (Exempt(s)' <=> Exempt(s)) /\ ReadBack(s)' = ReadBack(s)
      BY <3>1 DEF Exempt, ReadBack
    <3>3. Files' = Files
      BY <1>1, <1>4, <2>2, <3>1, <3>2, SameFilesHeld
    <3> QED
      BY <1>1, <1>4, <2>2, <2>3, <2>4, <3>3, AsAsk
  <2>5. CASE \/ \E s \in Slots : LookupHit(s) \/ LookupNewSlot(s)
             \/ FreeNext \/ FreeClearFails \/ AllocScan \/ LinkFails
             \/ FreeClear /\ released
             \/ AllocClaim \/ Link \/ WriteBlock
    <3>1. Files' = Files /\ UNCHANGED <<op, name, body, reply>>
      BY <1>1, <1>4, <2>2, <2>5, QuietStep
    <3> QED
      BY <1>4, <2>2, <3>1, AsQuiet
  <2>6. CASE FreeClear /\ ~released
    BY <1>1, <1>4, <2>2, <2>3, <2>6, AsWithdraw
  <2>7. CASE WriteEntry
    BY <1>1, <1>4, <2>2, <2>3, <2>7, AsPublish
  <2>8. CASE MarkDeleted
    BY <1>1, <1>4, <2>2, <2>3, <2>8, AsRemove
  <2>9. CASE LookupRefused \/ AllocNone \/ StepFails \/ PowerLoss
    <3>1. pc # "idle" /\ \E r \in {"fail", "none"} : Abort(r)
      BY <2>9 DEF LookupRefused, AllocNone, StepFails, PowerLoss
    <3> QED
      BY <1>1, <1>4, <2>2, <2>3, <3>1, AsGiveUp
  <2> QED
    BY <2>4, <2>5, <2>6, <2>7, <2>8, <2>9 DEF Next, Step
<1> QED
  BY <1>2, <1>3, <1>4

LEMMA StoreStart == Init => Store!StoreInit
<1> SUFFICES ASSUME Init PROVE Store!StoreInit
  OBVIOUS
<1>1. ~Torn /\ op = "none" /\ name = NoName /\ body = << >> /\ reply = "none"
      /\ \A s \in Slots : dir[s].state = "end"
  BY DEF Init, Torn, EndSlot
<1>2. \A n \in Names : Held(n) = Absent
  BY <1>1 DEF Held, Listed, Hit
<1>3. Torn = FALSE
  BY <1>1 DEF Torn
<1> QED
  BY <1>1, <1>2, <1>3 DEF Store!StoreInit, Store!Idle

(* fat32.c is the store its callers take it for: on any volume and with    *)
(* any number of faults and power losses, a name holds the whole body last *)
(* saved under it or nothing at all, until one of the three events that    *)
(* Torn names.                                                             *)
THEOREM StoreImplemented == Spec => ImplementsStore
<1>1. Spec => []AllInv
  BY IInvAlways, DirAlways, RequestAlways, StoreInvAlways, HeldAlways, PTL DEF AllInv
<1> QED
  BY <1>1, StoreStart, StoreStep, PTL DEF Spec, ImplementsStore, Store!StoreSpec
=============================================================================
