-------------------------- MODULE EmployeeDocuments ---------------------------
(***************************************************************************)
(* One document record of an employee: its versions in the database and      *)
(* their files on disk (employee_profiles/service.py).                       *)
(*                                                                           *)
(* Concurrency.  Changes lock the active version, write the new file, clone  *)
(* the row and commit.  A purge selects all versions FOR UPDATE: it waits    *)
(* for the rows its snapshot saw, and does not see the clone of the one it   *)
(* waited for.  Files are unlinked after the commit, if the process lives.   *)
(***************************************************************************)
EXTENDS Naturals, FiniteSets

CONSTANTS
  Files,           \* generated storage keys
  Editors,         \* concurrent requests
  MaxDocVersion,
  NoFile

ASSUME DocumentsAssumption == NoFile \notin Files /\ MaxDocVersion \in Nat

VARIABLES
  doc,         \* doc[v]: the row of version v
  disk,        \* the files that exist
  edit,        \* edit[r]: what a request has read and not yet committed
  purgedFiles  \* the files purges have removed

documentVars == <<doc, disk, edit, purgedFiles>>

DocVersions == 1 .. MaxDocVersion
NoDoc == [state |-> "none", key |-> NoFile]
NoEdit == [op |-> "none"]

DocumentsTypeOK ==
  /\ doc \in [DocVersions -> [state: {"none", "active", "inactive"}, key: Files \cup {NoFile}]]
  /\ disk \subseteq Files /\ purgedFiles \subseteq Files
  /\ \A r \in Editors : edit[r].op \in {"none", "clone", "create", "purge", "unlink"}

DocumentsInit ==
  /\ doc = [v \in DocVersions |-> NoDoc] /\ disk = {} /\ purgedFiles = {}
  /\ edit = [r \in Editors |-> NoEdit]

-----------------------------------------------------------------------------
Existing == {v \in DocVersions : doc[v].state # "none"}
ActiveDocs == {v \in DocVersions : doc[v].state = "active"}
Newest == IF Existing = {} THEN 0 ELSE CHOOSE v \in Existing : \A w \in Existing : w <= v
LockedDoc(v) == \E r \in Editors : edit[r].op = "clone" /\ edit[r].of = v
UnusedFiles == {f \in Files : f \notin disk \cup purgedFiles /\ \A v \in DocVersions : doc[v].key # f}
Take(r, e) == edit[r] = NoEdit /\ edit' = [edit EXCEPT ![r] = e]
EndEdit(r) == edit' = [edit EXCEPT ![r] = NoEdit]

\* create_document: no version is active, the next number is taken.
BeginDocument(r) ==
  /\ ActiveDocs = {} /\ Newest < MaxDocVersion
  /\ Take(r, [op |-> "create", version |-> Newest + 1])
  /\ UNCHANGED <<doc, disk, purgedFiles>>

\* Both unique indexes.
CommitDocument(r) ==
  /\ edit[r].op = "create" /\ ActiveDocs = {} /\ edit[r].version \notin Existing
  /\ doc' = [doc EXCEPT ![edit[r].version] = [state |-> "active", key |-> NoFile]]
  /\ EndEdit(r)
  /\ UNCHANGED <<disk, purgedFiles>>

\* update_document_metadata: the clone keeps the file.
BeginMetadata(r, v) ==
  /\ v \in ActiveDocs /\ ~LockedDoc(v) /\ v < MaxDocVersion
  /\ Take(r, [op |-> "clone", of |-> v, key |-> doc[v].key, new |-> FALSE])
  /\ UNCHANGED <<doc, disk, purgedFiles>>

\* upload_document_file, first or replacing: the file is there before the row.
BeginUpload(r, v, f) ==
  /\ v \in ActiveDocs /\ ~LockedDoc(v) /\ v < MaxDocVersion /\ f \in UnusedFiles
  /\ disk' = disk \cup {f}
  /\ Take(r, [op |-> "clone", of |-> v, key |-> f, new |-> TRUE])
  /\ UNCHANGED <<doc, purgedFiles>>

\* Mutant: the file that is replaced is removed.
CommitCloneRemoving(r) ==
  LET v == edit[r].of IN
  /\ edit[r].op = "clone" /\ v + 1 \notin Existing
  /\ doc' = [doc EXCEPT ![v].state = "inactive", ![v + 1] = [state |-> "active", key |-> edit[r].key]]
  /\ disk' = IF edit[r].new THEN disk \ {doc[v].key} ELSE disk
  /\ EndEdit(r)
  /\ UNCHANGED purgedFiles

\* _clone_document: the current version becomes inactive, its clone active.
CommitClone(r) ==
  LET v == edit[r].of IN
  /\ edit[r].op = "clone" /\ v + 1 \notin Existing
  /\ doc' = [doc EXCEPT ![v].state = "inactive", ![v + 1] = [state |-> "active", key |-> edit[r].key]]
  /\ EndEdit(r)
  /\ UNCHANGED <<disk, purgedFiles>>

\* inactivate_document
InactivateDocument(v) ==
  /\ v \in ActiveDocs /\ ~LockedDoc(v)
  /\ doc' = [doc EXCEPT ![v].state = "inactive"]
  /\ UNCHANGED <<disk, edit, purgedFiles>>

\* purge_document: the snapshot of the versions ...
BeginPurge(r) ==
  /\ Existing # {}
  /\ Take(r, [op |-> "purge", of |-> Existing])
  /\ UNCHANGED <<doc, disk, purgedFiles>>

\* ... then, when all of them are free, those that are still there are deleted ...
CommitPurge(r) ==
  LET gone == edit[r].of \cap Existing IN
  /\ edit[r].op = "purge" /\ \A v \in gone : ~LockedDoc(v)
  /\ doc' = [v \in DocVersions |-> IF v \in gone THEN NoDoc ELSE doc[v]]
  /\ edit' = [edit EXCEPT ![r] =
       [op |-> "unlink", files |-> {doc[v].key : v \in gone} \ {NoFile}]]
  /\ UNCHANGED <<disk, purgedFiles>>

\* ... and after the commit their files.
Unlink(r) ==
  /\ edit[r].op = "unlink"
  /\ disk' = disk \ edit[r].files /\ purgedFiles' = purgedFiles \cup edit[r].files
  /\ EndEdit(r)
  /\ UNCHANGED doc

\* The request fails and removes the file it wrote, or the process stops: rows
\* are rolled back, files stay.
FailEdit(r) ==
  /\ edit[r] # NoEdit
  /\ \/ UNCHANGED disk
     \/ edit[r].op = "clone" /\ edit[r].new /\ disk' = disk \ {edit[r].key}
  /\ EndEdit(r)
  /\ UNCHANGED <<doc, purgedFiles>>

DocumentsNext ==
  \/ \E r \in Editors :
       \/ BeginDocument(r) \/ CommitDocument(r) \/ CommitClone(r)
       \/ BeginPurge(r) \/ CommitPurge(r) \/ Unlink(r) \/ FailEdit(r)
       \/ \E v \in DocVersions : BeginMetadata(r, v) \/ \E f \in Files : BeginUpload(r, v, f)
  \/ \E v \in DocVersions : InactivateDocument(v)

DocumentsSpec == DocumentsInit /\ [][DocumentsNext]_documentVars

-----------------------------------------------------------------------------
\* At most one version of a record is active; the file of a version, also of one
\* that is shared by several or was replaced, is on disk unless a purge removed
\* it, whatever requests overlap, fail or are cut off (_active_document FOR
\* UPDATE, _clone_document, the unique indexes, the file written before the
\* commit and unlinked after it).
DocumentsSound ==
  /\ \A v, w \in ActiveDocs : v = w
  /\ \A v \in DocVersions : doc[v].key \in disk \cup purgedFiles \cup {NoFile}

\* Not so: what a purge removed is nobody's any more (a metadata update that
\* commits while the purge waits for its row keeps the file it shares).
PurgedFilesUnused == \A v \in DocVersions : doc[v].key \notin purgedFiles
=============================================================================
