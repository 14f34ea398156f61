------------------------------- MODULE Uploads -------------------------------
(***************************************************************************)
(* Files that are stored beside rows: the statements of apps/imports       *)
(* (SourceFile) and the PDFs of apps/ledger/attachments.py (Attachment).   *)
(*                                                                         *)
(* A handler looks for the SHA-256, writes the file, inserts the row under *)
(* a unique constraint and commits.  Storage is no part of the             *)
(* transaction: whoever loses the constraint, fails, or fails to commit    *)
(* has to remove the file it wrote, and only that one.                     *)
(***************************************************************************)
EXTENDS Integers, FiniteSets, RowLocks

CONSTANTS
  Shas,        \* the contents of files, by their SHA-256
  None,
  MaxUploads,  \* bound on the files that are written
  MaxCrashes   \* bound on web workers that die

ASSUME UploadBoundsAssumption == MaxUploads \in Nat /\ MaxCrashes \in Nat

VARIABLES
  files,     \* the storage: names of the files that exist
  uploads,   \* the files written so far; a name is never used twice
  stored,    \* SourceFile and Attachment: the file of a content, or None
  disabled,  \* the attachments with disabled_at
  crashed    \* history: the files web workers that died had written

storage == <<files, uploads, stored, disabled, crashed>>

ShaRow(x) == <<"sha", x>>

UploadsInit ==
  /\ files = {} /\ uploads = 0 /\ crashed = {}
  /\ stored = [x \in Shas |-> None] /\ disabled = {}

(* save() writes the file, under the id of its batch or a suffix of its    *)
(* own, before the INSERT.                                                 *)
WriteFile(x) ==
  /\ uploads < MaxUploads /\ uploads' = uploads + 1
  /\ files' = files \cup {uploads + 1}
  /\ UNCHANGED <<stored, disabled, crashed>>

(* Mutant: the file to remove is looked up by its content. *)
DeleteStoredFile(x, file) ==
  /\ files' = files \ {IF stored[x] # None THEN stored[x] ELSE file}
  /\ UNCHANGED <<uploads, stored, disabled, crashed>>

(* _delete_uncommitted_source_file, _delete_uncommitted_attachment_file    *)
DeleteUncommitted(x, file) ==
  /\ files' = files \ {file}
  /\ UNCHANGED <<uploads, stored, disabled, crashed>>

Publish(x, file) ==
  /\ stored' = [stored EXCEPT ![x] = file]
  /\ UNCHANGED <<files, uploads, disabled, crashed>>

(* disable_attachment: once, and for good.                                 *)
Disable(x) ==
  /\ stored[x] # None /\ x \notin disabled
  /\ disabled' = disabled \cup {x}
  /\ UNCHANGED <<files, uploads, stored, crashed>>

(* A worker that dies leaves the file it wrote.                            *)
Crash(file) ==
  /\ Cardinality(crashed) < MaxCrashes /\ crashed' = crashed \cup {file}
  /\ UNCHANGED <<files, uploads, stored, disabled>>
=============================================================================
