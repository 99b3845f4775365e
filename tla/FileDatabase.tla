---------------------------- MODULE FileDatabase ----------------------------
(***************************************************************************)
(* The "file" database driver: one JSON file per change form, replaced     *)
(* through a temporary file and a rename.  The content of a change form is *)
(* abstracted to a version, the number of edits that produced it.          *)
(***************************************************************************)
EXTENDS Integers

CONSTANT NumForms                \* how many form ids the model has

ASSUME NumFormsAssumption == NumForms \in Nat

FormId == 1..NumForms
Absent == 0                      \* no file for the form
Corrupt == -1                    \* a file that does not parse
Stored == Nat \cup {Corrupt}     \* what the final path of a form can hold

VARIABLE db                      \* form id -> what its file holds

DbTypeOK == db \in [FormId -> Stored]

\* The temporary file is written, closed and renamed over the final path.
StoreRecord(form, version) == db' = [db EXCEPT ![form] = version]

\* close() fails to flush the buffered text (disk full): the rename comes
\* before the stream state is checked, so the truncated temporary file replaces
\* the good one, and only then the driver throws.
TruncateRecord(form) == db' = [db EXCEPT ![form] = Corrupt]

\* Opening, writing or renaming the temporary file fails: the driver throws and
\* the final path keeps what it had.
RejectRecord == UNCHANGED db

\* What Iterate reports: files that parse; "*.tmp" leftovers have another
\* extension.
Readable == {form \in FormId : db[form] > Absent}
=============================================================================
