----------------------------- MODULE FileStore ------------------------------
(***************************************************************************)
(* What a program above the FAT32 driver relies on: a map from names to    *)
(* whole file contents, served one request at a time.                      *)
(*                                                                         *)
(* A new file appears with all of its bytes or does not appear.  Replacing *)
(* or deleting an existing file first withdraws it, so its old contents    *)
(* are Unknown until the request ends.  No request changes a file it does  *)
(* not name.  A store may be torn once, and promises nothing afterwards:   *)
(* the detailed specification says exactly which events tear it.           *)
(***************************************************************************)
EXTENDS Naturals, Sequences

CONSTANTS
  Names,      \* the 8.3 names a program may use
  Contents,   \* the file bodies a program may save
  Absent,     \* what the store holds under a name nobody created
  Unknown,    \* what it holds under a name that is being released
  NoName      \* the name of no request

VARIABLES
  files,      \* [Names -> Contents, or Absent, or Unknown]
  request,    \* the request being served
  reply,      \* the answer to the last one
  torn        \* the store no longer promises anything

storeVars == <<files, request, reply, torn>>

Idle == [op |-> "none", name |-> NoName, body |-> << >>]

StoreInit ==
  /\ files = [n \in Names |-> Absent]
  /\ request = Idle
  /\ reply = "none"
  /\ torn = FALSE

(* A program asks for a write or a delete. *)
Ask ==
  /\ request = Idle
  /\ \/ \E n \in Names, b \in Contents :
          request' = [op |-> "write", name |-> n, body |-> b]
     \/ \E n \in Names : request' = [op |-> "delete", name |-> n, body |-> << >>]
  /\ reply' = "none"
  /\ UNCHANGED <<files, torn>>

(* The old contents of the file the request names stop being readable. *)
Withdraw ==
  /\ request # Idle
  /\ files[request.name] # Absent
  /\ files' = [files EXCEPT ![request.name] = Unknown]
  /\ UNCHANGED <<request, reply, torn>>

(* A write succeeds: the requested body, whole, and nothing else changes. *)
Publish ==
  /\ request.op = "write"
  /\ files' = [files EXCEPT ![request.name] = request.body]
  /\ request' = Idle
  /\ reply' = "ok"
  /\ UNCHANGED torn

Remove ==
  /\ request.op = "delete"
  /\ files[request.name] # Absent
  /\ files' = [files EXCEPT ![request.name] = Absent]
  /\ request' = Idle
  /\ reply' = "ok"
  /\ UNCHANGED torn

(* A request ends without an effect, refused or forgotten by a power loss;  *)
(* it may do so only while the file it names is still whole or absent.      *)
GiveUp ==
  /\ request # Idle
  /\ files[request.name] # Unknown
  /\ request' = Idle
  /\ reply' \in {"fail", "none"}
  /\ UNCHANGED <<files, torn>>

Tear ==
  /\ torn' = TRUE
  /\ files' = [n \in Names |-> Unknown]
  /\ reply' \in {"ok", "fail", "none"}

StoreNext ==
  \/ ~torn /\ (Ask \/ Withdraw \/ Publish \/ Remove \/ GiveUp \/ Tear)
  \/ torn /\ torn' = TRUE

StoreSpec == StoreInit /\ [][StoreNext]_storeVars
=============================================================================
