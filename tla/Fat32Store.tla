----------------------------- MODULE Fat32Store -----------------------------
(***************************************************************************)
(* The driver of Fat32 as an implementation of FileStore.  What a name     *)
(* holds is what fat32_read_file would return for it.                      *)
(*                                                                         *)
(* Three events tear the store, and no other does: a call cut while the    *)
(* file it releases is still listed, a link of the new chain that was not  *)
(* written although the write went on, and a lookup that took a failed     *)
(* read for a missing file.                                                *)
(***************************************************************************)
EXTENDS Fat32

CONSTANTS Absent, Unknown

ASSUME StoreAssumption ==
  Absent # Unknown /\ Absent \notin Contents /\ Unknown \notin Contents

Torn == hurt \cap {"cutRelease", "lostLink", "blindLookup"} # {}

Held(n) ==
  CASE Torn -> Unknown
    [] ~Torn /\ ~Listed(n) -> Absent
    [] OTHER -> LET s == CHOOSE s \in Slots : FirstHit(s, n)
                IN  IF Whole(s) THEN ReadBack(s) ELSE Unknown

Store == INSTANCE FileStore WITH
  files <- [n \in Names |-> Held(n)],
  request <- [op |-> op, name |-> name, body |-> body],
  torn <- Torn

(* The driver is a FileStore: a successful write shows its whole body at   *)
(* the step that answers, a file no call names keeps its contents, and a   *)
(* call that gives up leaves the old file or none.                         *)
ImplementsStore == Store!StoreSpec
=============================================================================
