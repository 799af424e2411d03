---- MODULE AccountFilesProofs ----
(***************************************************************************)
(* Import and export of account files, for any number of files,            *)
(* credentials, owners and tokens: the report adds up, a row keeps the key *)
(* of its owner whatever replaces its tokens, and what an archive holds    *)
(* can be imported again.                                                  *)
(***************************************************************************)
EXTENDS AccountFiles, FiniteSetTheorems, TLAPS

USE AccountFilesAssumption DEF AccountFilesAssumption

Owners == Users \cup Emails \cup RefreshTokens
Imports == [pc : {"idle", "file", "reading"}, left : Nat, read : 0..MaxPerFile]

----------------------------------------------------------------------------
\* What a credential is stored under.

\* A key names the client, and the owner by the first of user id and address that is known.
Names(k, c) ==
    /\ k[1] = c.client
    /\ c.user # Missing => k[2] = c.user
    /\ c.user = Missing /\ c.email # Missing => k[2] = c.email

LEMMA NormalizeTypes ==
  ASSUME NEW c \in Credential
  PROVE  Normalize(c) \in Credential /\ Normalize(c).client \in Clients
  BY DEF Normalize, Credential, Maybe

LEMMA SourceKeyNames ==
  ASSUME NEW c \in Credential, c.client \in Clients
  PROVE  SourceKey(c) \in Clients \X Owners /\ Names(SourceKey(c), c)
  BY DEF SourceKey, Names, Credential, Maybe, Owners

LEMMA RotatedTypes ==
  ASSUME NEW c \in Credential, NEW t \in RefreshTokens
  PROVE  [c EXCEPT !.refresh = t] \in Credential
  BY DEF Credential, Maybe

\* A document of a known owner comes back under the key it left, if the client is the usual one.
LEMMA DocumentComesBack ==
  ASSUME NEW c \in Credential, NEW k \in Clients \X Owners, Names(k, c),
         k[1] = BuildClient, {c.user, c.email} # {Missing}
  PROVE  SourceKey(Normalize(Document(c))) = k
  BY DEF SourceKey, Normalize, Document, Credential, Names

----------------------------------------------------------------------------
\* The rows.

RowsTyped ==
    /\ lastRow \in 0..MaxRow /\ DOMAIN rows \subseteq 1..lastRow
    /\ \A i \in DOMAIN rows : rows[i] \in Row
RowsKeyed == \A i \in DOMAIN rows : Names(rows[i].key, rows[i].cred)
RowsDistinct == \A i, j \in DOMAIN rows : rows[i].key = rows[j].key => i = j
RowsInv == RowsTyped /\ RowsKeyed /\ RowsDistinct

\* An upsert leaves the rows typed, under the keys of their owners, and one to a key.
LEMMA UpsertRows ==
  ASSUME RowsInv, NEW c \in Credential, Upsert(Normalize(c))
  PROVE  RowsInv' /\ lastRow' >= lastRow
<1> DEFINE n == Normalize(c)
           row == [key |-> SourceKey(n), cred |-> n]
           same == {i \in DOMAIN rows : rows[i].key = SourceKey(n)}
<1> USE DEF RowsInv, RowsTyped, RowsKeyed, RowsDistinct
<1>1. row \in Row /\ Names(row.key, row.cred)
  <2>1. n \in Credential /\ n.client \in Clients
    BY NormalizeTypes
  <2>2. SourceKey(n) \in Clients \X Owners /\ Names(SourceKey(n), n)
    BY <2>1, SourceKeyNames
  <2> QED BY <2>1, <2>2 DEF Row, Owners
<1> HIDE DEF n
<1>2. CASE \E i \in same : rows' = [rows EXCEPT ![i] = row] /\ UNCHANGED lastRow
  <2>1. PICK i \in same : rows' = [rows EXCEPT ![i] = row] /\ UNCHANGED lastRow
    BY <1>2
  <2>2. row.key = rows[i].key /\ i \in DOMAIN rows /\ DOMAIN rows' = DOMAIN rows
    BY <2>1
  <2>3. \A j \in DOMAIN rows : rows'[j] = IF j = i THEN row ELSE rows[j]
    BY <2>1
  <2> HIDE DEF row, same
  <2>4. RowsTyped' /\ RowsKeyed'
    BY <1>1, <2>1, <2>2, <2>3
  <2>5. RowsDistinct'
    BY <2>2, <2>3
  <2> QED BY <2>1, <2>4, <2>5
<1>3. CASE /\ same = {} /\ lastRow < MaxRow /\ lastRow' = lastRow + 1
           /\ rows' = [i \in DOMAIN rows \cup {lastRow + 1} |-> IF i \in DOMAIN rows THEN rows[i] ELSE row]
  <2>1. DOMAIN rows' = DOMAIN rows \cup {lastRow + 1} /\ lastRow + 1 \notin DOMAIN rows
    BY <1>3
  <2>2. rows'[lastRow + 1] = row /\ \A j \in DOMAIN rows : rows'[j] = rows[j]
    BY <1>3, <2>1
  <2>3. \A j \in DOMAIN rows : rows[j].key # row.key
    BY <1>3
  <2> HIDE DEF row, same
  <2>4. RowsTyped'
    <3>1. lastRow' \in 0..MaxRow /\ DOMAIN rows' \subseteq 1..lastRow'
      BY <1>3, <2>1
    <3> QED BY <1>1, <2>1, <2>2, <3>1
  <2>5. RowsKeyed'
    BY <1>1, <2>1, <2>2
  <2>6. RowsDistinct'
    BY <2>1, <2>2, <2>3
  <2>7. lastRow' >= lastRow
    BY <1>3
  <2> QED BY <2>4, <2>5, <2>6, <2>7
<1>4. Upsert(n)
  BY DEF n
<1> QED
  BY <1>2, <1>3, <1>4 DEF Upsert

\* A refresh and a deletion leave every key where it is.
LEMMA RotateRows ==
  ASSUME RowsInv, NEW i \in 1..lastRow, NEW t \in RefreshTokens, Rotate(i, t)
  PROVE  RowsInv'
<1> USE DEF RowsInv, RowsTyped, RowsKeyed, RowsDistinct
<1>1. i \in DOMAIN rows /\ lastRow' = lastRow /\ DOMAIN rows' = DOMAIN rows
  BY DEF Rotate
<1>2. rows'[i] = [rows[i] EXCEPT !.cred = [@ EXCEPT !.refresh = t]]
      /\ \A j \in DOMAIN rows : j # i => rows'[j] = rows[j]
  BY DEF Rotate
<1>3. rows'[i] = [key |-> rows[i].key, cred |-> [rows[i].cred EXCEPT !.refresh = t]]
  BY <1>1, <1>2 DEF Row
<1>4. rows[i].cred \in Credential /\ rows[i].key \in Clients \X Owners
  BY <1>1 DEF Row, Owners
<1>5. rows'[i] \in Row /\ Names(rows'[i].key, rows'[i].cred)
  <2>1. [rows[i].cred EXCEPT !.refresh = t] \in Credential
    BY <1>4, RotatedTypes
  <2>2. /\ [rows[i].cred EXCEPT !.refresh = t].client = rows[i].cred.client
        /\ [rows[i].cred EXCEPT !.refresh = t].user = rows[i].cred.user
        /\ [rows[i].cred EXCEPT !.refresh = t].email = rows[i].cred.email
    BY <1>4 DEF Credential
  <2>3. Names(rows[i].key, rows[i].cred)
    BY <1>1
  <2>4. rows'[i].key = rows[i].key /\ rows'[i].cred = [rows[i].cred EXCEPT !.refresh = t]
    BY <1>3
  <2>5. Names(rows'[i].key, rows'[i].cred)
    BY <2>2, <2>3, <2>4 DEF Names
  <2> QED BY <1>3, <1>4, <2>1, <2>5 DEF Row, Owners
<1>6. \A j \in DOMAIN rows : rows'[j].key = rows[j].key
  BY <1>2, <1>3
<1> QED BY <1>1, <1>2, <1>5, <1>6

LEMMA DeleteRows ==
  ASSUME RowsInv, NEW i \in 1..lastRow, Delete(i)
  PROVE  RowsInv'
  BY DEF Delete, RowsInv, RowsTyped, RowsKeyed, RowsDistinct

----------------------------------------------------------------------------
\* The import.

\* Files are left while one is being read, and nothing has been read of the one to come.
ImportStaged ==
    /\ import \in Imports /\ report \in Report /\ written \in Nat
    /\ import.pc = "reading" => import.left > 0
    /\ import.pc # "reading" => import.read = 0

ImportInv == ImportStaged /\ ImportReportAddsUp
LEMMA ImportInitHolds == FilesInit => ImportInv
  BY DEF FilesInit, ImportInv, ImportStaged, ImportReportAddsUp, Imports, Report, NoReport

\* A file that fails is one failure and one note, and what was read of it is told of no more.
LEMMA FailureAddsUp ==
  ASSUME ImportInv, import.pc \in {"file", "reading"}, import.left > 0, Fails, UNCHANGED written
  PROVE  ImportInv'
<1> USE DEF ImportInv, ImportStaged, Imports
<1>1. import' = [pc |-> "file", left |-> import.left - 1, read |-> 0]
      /\ report' = [report EXCEPT !.failed = @ + 1, !.notes = @ + 1] /\ written' = written
  BY DEF Fails, NextFile
<1>2. ImportStaged'
  <2>1. report' = [selected |-> report.selected, ok |-> report.ok, failed |-> report.failed + 1,
                   imported |-> report.imported, notes |-> report.notes + 1]
    BY <1>1 DEF Report
  <2>2. import' \in Imports
    BY <1>1
  <2>3. report' \in Report
    BY <2>1 DEF Report
  <2> QED BY <1>1, <2>2, <2>3
<1>3. /\ report'.ok = report.ok /\ report'.failed = report.failed + 1
      /\ report'.selected = report.selected /\ report'.notes = report.notes + 1
      /\ report'.imported = report.imported
      /\ import'.left = import.left - 1 /\ import'.read = 0
  BY <1>1 DEF Report
<1>4. /\ import.left \in Nat /\ import.read \in Nat /\ written \in Nat
      /\ report.ok \in Nat /\ report.failed \in Nat /\ report.selected \in Nat
      /\ report.imported \in Nat /\ report.notes \in Nat
  BY DEF Report
<1>5. ImportReportAddsUp'
  <2> DEFINE beyond == IF report.selected > MaxFiles THEN report.selected - MaxFiles ELSE 0
  <2>1. beyond \in Nat
    BY <1>4
  <2>2. report.notes = report.failed - beyond + (IF beyond > 0 THEN 1 ELSE 0)
    BY DEF ImportReportAddsUp
  <2>3. report'.notes = report'.failed - beyond + (IF beyond > 0 THEN 1 ELSE 0)
    BY <1>3, <1>4, <2>1, <2>2
  <2> QED BY <1>1, <1>3, <1>4, <2>3 DEF ImportReportAddsUp
<1> QED BY <1>2, <1>5

LEMMA ImportStep == ImportInv /\ [FilesNext]_fVars => ImportInv'
<1> SUFFICES ASSUME ImportInv, [FilesNext]_fVars PROVE ImportInv'
  OBVIOUS
<1> USE DEF ImportInv, ImportStaged, Imports
<1>0. /\ import.left \in Nat /\ import.read \in Nat /\ written \in Nat
      /\ report.ok \in Nat /\ report.failed \in Nat /\ report.selected \in Nat
      /\ report.imported \in Nat /\ report.notes \in Nat
  BY DEF Report
<1>1. ASSUME NEW n \in 1..MaxSelected, ImportBegin(n) PROVE ImportInv'
  <2> DEFINE kept == IF n > MaxFiles THEN MaxFiles ELSE n
  <2>1. kept \in Nat /\ n - kept \in Nat /\ n \in Nat
    OBVIOUS
  <2>2. import' = [pc |-> "file", left |-> kept, read |-> 0] /\ written' = 0
        /\ report' = [selected |-> n, ok |-> 0, failed |-> n - kept, imported |-> 0,
                      notes |-> IF n > kept THEN 1 ELSE 0]
    BY <1>1 DEF ImportBegin
  <2>3. ImportStaged'
    BY <2>1, <2>2 DEF Report
  <2>4. ImportReportAddsUp'
    BY <2>1, <2>2 DEF ImportReportAddsUp
  <2> QED BY <2>3, <2>4
<1>2. CASE ImportReject \/ ImportFileFails
  BY <1>2, FailureAddsUp DEF ImportReject, ImportFileFails
<1>3. CASE ImportOpen
  BY <1>0, <1>3 DEF ImportOpen, ImportReportAddsUp
<1>4. CASE ImportFileEnds
  <2>1. import' = [pc |-> "file", left |-> import.left - 1, read |-> 0] /\ written' = written
        /\ report' = [report EXCEPT !.ok = @ + 1, !.imported = @ + import.read]
    BY <1>4 DEF ImportFileEnds, NextFile
  <2>2. import.left > 0
    BY <1>4 DEF ImportFileEnds
  <2>3. /\ report'.ok = report.ok + 1 /\ report'.failed = report.failed
        /\ report'.selected = report.selected /\ report'.notes = report.notes
        /\ report'.imported = report.imported + import.read
        /\ import'.left = import.left - 1 /\ import'.read = 0
    BY <2>1 DEF Report
  <2>4. ImportStaged'
    <3>0. report' = [selected |-> report.selected, ok |-> report.ok + 1, failed |-> report.failed,
                     imported |-> report.imported + import.read, notes |-> report.notes]
      BY <2>1 DEF Report
    <3>1. report' \in Report
      BY <1>0, <3>0 DEF Report
    <3>2. import' \in Imports
      BY <2>1, <2>2
    <3> QED BY <2>1, <3>1, <3>2
  <2>5. ImportReportAddsUp'
    BY <1>0, <2>1, <2>3 DEF ImportReportAddsUp
  <2> QED BY <2>4, <2>5
<1>5. CASE ImportEnd
  BY <1>0, <1>5 DEF ImportEnd, ImportReportAddsUp, NoReport, Report
<1>6. ASSUME NEW c \in Credential, ImportCredential(c) PROVE ImportInv'
  BY <1>0, <1>6 DEF ImportCredential, ImportReportAddsUp
<1>7. CASE UNCHANGED <<import, report, written>>
  BY <1>7 DEF ImportReportAddsUp
<1> QED
  BY <1>1, <1>2, <1>3, <1>4, <1>5, <1>6, <1>7
     DEF FilesNext, fVars, SinkImport, Rotate, Delete, ExportBegin, ExportAccount, ExportFails, ExportEnd

\* The import's report adds up at every step, however many files and credentials there are.
THEOREM ReportAddsUpAlways == FilesSpec => []ImportReportAddsUp
<1>1. ImportInv => ImportReportAddsUp
  BY DEF ImportInv
<1> QED BY <1>1, ImportInitHolds, ImportStep, PTL DEF FilesSpec

----------------------------------------------------------------------------
\* The export.

ArchiveEntry == [name : (Owners \cup {Missing}) \X Nat, key : Clients \X Owners, doc : Credential]
SameSubject(s) == {e \in export.entries : Subject(e.doc) = s}

EntriesTyped ==
    /\ export.pc \in {"idle", "next"} /\ export.todo \subseteq 1..lastRow
    /\ export.entries \subseteq ArchiveEntry /\ IsFiniteSet(export.entries)
\* An entry comes from a row whose key it can be given again.
EntriesKeyed ==
    \A e \in export.entries : \E c \in Credential : e.doc = Document(c) /\ Names(e.key, c)
\* Entries of one owner are numbered from 1, each with a number of its own.
EntriesNumbered ==
    /\ \A e \in export.entries : /\ e.name[1] = Subject(e.doc)
                                 /\ e.name[2] <= Cardinality(SameSubject(Subject(e.doc)))
    /\ \A a, b \in export.entries : a.name = b.name => a = b
ExportInv == EntriesTyped /\ EntriesKeyed /\ EntriesNumbered
FilesIInv == RowsInv /\ ImportInv /\ ExportInv

LEMMA DocumentTypes ==
  ASSUME NEW c \in Credential
  PROVE  Document(c) \in Credential /\ Subject(Document(c)) = Subject(c)
         /\ Subject(c) \in Owners \cup {Missing}
  BY DEF Document, Subject, Credential, Maybe, Owners

\* The entry an account adds has a name no other has.
LEMMA ExportAccountEntries ==
  ASSUME RowsInv, ExportInv, NEW i \in 1..lastRow, ExportAccount(i)
  PROVE  ExportInv'
<1> DEFINE c == rows[i].cred
           old == SameSubject(Subject(c))
           new == [name |-> <<Subject(c), 1 + Cardinality(old)>>, key |-> rows[i].key, doc |-> Document(c)]
<1>1. rows[i] \in Row /\ Names(rows[i].key, c)
  BY DEF ExportAccount, RowsInv, RowsTyped, RowsKeyed
<1>2. c \in Credential /\ rows[i].key \in Clients \X Owners
  BY <1>1 DEF Row, Owners
<1>3. Document(c) \in Credential /\ Subject(Document(c)) = Subject(c) /\ Subject(c) \in Owners \cup {Missing}
  BY <1>2, DocumentTypes
<1>4. /\ export'.pc = export.pc /\ export'.todo = export.todo \ {i} /\ lastRow' = lastRow
      /\ export'.entries = export.entries \cup {new}
  BY DEF ExportAccount, EntryName, SameSubject
<1> HIDE DEF c, new
<1>5. IsFiniteSet(old) /\ Cardinality(old) \in Nat
  <2>1. old \subseteq export.entries /\ IsFiniteSet(export.entries)
    BY DEF SameSubject, ExportInv, EntriesTyped
  <2> QED BY <2>1, FS_Subset, FS_CardinalityType
<1>6. new \in ArchiveEntry /\ Subject(new.doc) = Subject(c) /\ new.name[1] = Subject(c)
      /\ new.name[2] = 1 + Cardinality(old) /\ new.doc = Document(c) /\ new.key = rows[i].key
  BY <1>2, <1>3, <1>5 DEF new, ArchiveEntry
<1>7. EntriesTyped'
  <2>1. IsFiniteSet(export.entries \cup {new})
    BY FS_AddElement DEF ExportInv, EntriesTyped
  <2> QED BY <1>4, <1>6, <2>1 DEF ExportInv, EntriesTyped
<1>8. EntriesKeyed'
  <2>1. \E d \in Credential : new.doc = Document(d) /\ Names(new.key, d)
    BY <1>1, <1>2, <1>6 DEF c
  <2> QED BY <1>4, <2>1 DEF ExportInv, EntriesKeyed
<1>9. EntriesNumbered'
  <2>1. \A s : SameSubject(s)' = IF s = Subject(c) THEN SameSubject(s) \cup {new} ELSE SameSubject(s)
    BY <1>4, <1>6 DEF SameSubject
  <2>2. \A e \in export.entries : Subject(e.doc) = Subject(c) => e.name[2] <= Cardinality(old)
    BY DEF ExportInv, EntriesNumbered
  <2>3. \A e \in export.entries : e.name # new.name
    <3> SUFFICES ASSUME NEW e \in export.entries, e.name = new.name PROVE FALSE
      OBVIOUS
    <3>1. Subject(e.doc) = Subject(c)
      BY <1>6 DEF ExportInv, EntriesNumbered
    <3>2. e.name[2] <= Cardinality(old)
      BY <2>2, <3>1
    <3>3. e.name[2] = 1 + Cardinality(old)
      BY <1>6
    <3> QED BY <1>5, <3>2, <3>3
  <2>4. new \notin old
    BY <2>3 DEF SameSubject
  <2>5. Cardinality(old \cup {new}) = Cardinality(old) + 1
    BY <1>5, <2>4, FS_AddElement
  <2>6. \A e \in export.entries' : e.name[1] = Subject(e.doc)
    BY <1>4, <1>6 DEF ExportInv, EntriesNumbered
  <2>7. ASSUME NEW e \in export.entries'
        PROVE  e.name[2] <= Cardinality(SameSubject(Subject(e.doc))')
    <3>1. CASE e = new
      <4>1. SameSubject(Subject(e.doc))' = old \cup {new} /\ e.name[2] = 1 + Cardinality(old)
        BY <1>6, <2>1, <3>1
      <4> QED BY <1>5, <2>5, <4>1
    <3>2. CASE e \in export.entries /\ Subject(e.doc) = Subject(c)
      <4>1. e.name[2] <= Cardinality(old) /\ e.name[2] \in Nat
        BY <2>2, <3>2 DEF ExportInv, EntriesTyped, ArchiveEntry
      <4>2. SameSubject(Subject(e.doc))' = old \cup {new}
        BY <2>1, <3>2
      <4> QED BY <1>5, <2>5, <4>1, <4>2
    <3>3. CASE e \in export.entries /\ Subject(e.doc) # Subject(c)
      BY <2>1, <3>3 DEF ExportInv, EntriesNumbered
    <3> QED BY <1>4, <3>1, <3>2, <3>3
  <2>8. \A a, b \in export.entries' : a.name = b.name => a = b
    BY <1>4, <2>3 DEF ExportInv, EntriesNumbered
  <2> QED BY <2>6, <2>7, <2>8 DEF EntriesNumbered
<1> QED BY <1>7, <1>8, <1>9 DEF ExportInv

LEMMA EntriesKept ==
  ASSUME ExportInv, export'.entries = export.entries \/ export'.entries = {},
         export'.pc \in {"idle", "next"}, export'.todo \subseteq 1..lastRow'
  PROVE  ExportInv'
<1> USE DEF ExportInv, EntriesTyped, EntriesKeyed, EntriesNumbered
<1>1. CASE export'.entries = export.entries
  <2>1. \A s : SameSubject(s)' = SameSubject(s)
    BY <1>1 DEF SameSubject
  <2> QED BY <1>1, <2>1
<1>2. CASE export'.entries = {}
  BY <1>2, FS_EmptySet
<1> QED BY <1>1, <1>2

LEMMA FilesInitHolds == FilesInit => FilesIInv
<1> SUFFICES ASSUME FilesInit PROVE FilesIInv
  OBVIOUS
<1>1. RowsInv
  BY DEF FilesInit, RowsInv, RowsTyped, RowsKeyed, RowsDistinct
<1>2. ExportInv
  BY FS_EmptySet DEF FilesInit, NoExport, ExportInv, EntriesTyped, EntriesKeyed, EntriesNumbered
<1> QED BY <1>1, <1>2, ImportInitHolds DEF FilesIInv

LEMMA FilesStep == FilesIInv /\ [FilesNext]_fVars => FilesIInv'
<1> SUFFICES ASSUME FilesIInv, [FilesNext]_fVars PROVE FilesIInv'
  OBVIOUS
<1>0. RowsInv /\ ImportInv /\ ExportInv /\ ImportInv'
  BY ImportStep DEF FilesIInv
<1>1. ASSUME NEW c \in Credential, ImportCredential(c) \/ SinkImport(c) PROVE RowsInv' /\ ExportInv'
  <2>1. Upsert(Normalize(c)) /\ export' = export
    BY <1>1 DEF ImportCredential, SinkImport
  <2>2. RowsInv' /\ lastRow' >= lastRow
    BY <1>0, <2>1, UpsertRows
  <2>3. export.todo \subseteq 1..lastRow'
    BY <1>0, <2>2 DEF RowsInv, RowsTyped, ExportInv, EntriesTyped
  <2> QED BY <1>0, <2>1, <2>2, <2>3, EntriesKept DEF ExportInv, EntriesTyped
<1>2. ASSUME NEW i \in 1..lastRow, Delete(i) \/ \E t \in RefreshTokens : Rotate(i, t)
      PROVE  RowsInv' /\ ExportInv'
  <2>1. RowsInv'
    BY <1>0, <1>2, DeleteRows, RotateRows
  <2>2. export' = export /\ lastRow' = lastRow
    BY <1>2 DEF Delete, Rotate
  <2> QED BY <1>0, <2>1, <2>2, EntriesKept DEF ExportInv, EntriesTyped
<1>3. ASSUME UNCHANGED <<rows, lastRow>> PROVE RowsInv' /\ ExportInv'
  <2>1. RowsInv'
    BY <1>0, <1>3 DEF RowsInv, RowsTyped, RowsKeyed, RowsDistinct
  <2>2. ASSUME ExportBegin PROVE ExportInv'
    BY <1>0, <1>3, <2>2, EntriesKept DEF ExportBegin, RowsInv, RowsTyped
  <2>3. ASSUME ExportEnd PROVE ExportInv'
    BY <1>0, <1>3, <2>3, EntriesKept DEF ExportEnd, NoExport
  <2>4. ASSUME NEW i \in 1..lastRow, ExportAccount(i) PROVE ExportInv'
    BY <1>0, <2>4, ExportAccountEntries
  <2>5. ASSUME NEW i \in 1..lastRow, ExportFails(i) PROVE ExportInv'
    BY <1>0, <1>3, <2>5, EntriesKept DEF ExportFails, ExportInv, EntriesTyped
  <2>6. ASSUME UNCHANGED export PROVE ExportInv'
    BY <1>0, <1>3, <2>6, EntriesKept DEF ExportInv, EntriesTyped
  <2>7. ExportInv'
    BY <1>3, <2>2, <2>3, <2>4, <2>5, <2>6
       DEF FilesNext, fVars, ImportBegin, ImportReject, ImportOpen, ImportFileFails, ImportFileEnds,
           ImportEnd, ImportCredential, SinkImport, Delete, Rotate
  <2> QED BY <2>1, <2>7
<1>4. RowsInv' /\ ExportInv'
  BY <1>1, <1>2, <1>3
     DEF FilesNext, fVars, ImportBegin, ImportReject, ImportOpen, ImportFileFails, ImportFileEnds,
         ImportEnd, ExportBegin, ExportAccount, ExportFails, ExportEnd
<1> QED BY <1>0, <1>4 DEF FilesIInv

LEMMA FilesIInvHolds == FilesSpec => []FilesIInv
  BY FilesInitHolds, FilesStep, PTL DEF FilesSpec

\* Rows, import, report and export keep their types, however many rows and files there are.
THEOREM FilesTypeCorrect == FilesSpec => []FilesTypeOK
<1>1. FilesIInv => FilesTypeOK
  BY DEF FilesIInv, FilesTypeOK, RowsInv, RowsTyped, ImportInv, ImportStaged, Imports, ExportInv, EntriesTyped
<1> QED BY <1>1, FilesIInvHolds, PTL

\* An owner has one row, under the key the first credential gave: no import, rotation or deletion
\* makes two rows of one key (the unique source_key of gateway_accounts), which is why an upsert
\* always knows the row it means.
THEOREM OneRowPerKey == FilesSpec => []RowsDistinct
<1>1. FilesIInv => RowsDistinct
  BY DEF FilesIInv, RowsInv
<1> QED BY <1>1, FilesIInvHolds, PTL

\* A row keeps its key for life, and the id of a deleted one is never given again: an export that
\* has listed an id reads that account or none (AUTOINCREMENT of gateway_accounts).
IdsNameOneAccount ==
    [][\A i \in DOMAIN rows' : IF i \in DOMAIN rows THEN rows'[i].key = rows[i].key
                                                    ELSE i > lastRow]_fVars

LEMMA IdsNameStep ==
  ASSUME FilesIInv, [FilesNext]_fVars, NEW i \in DOMAIN rows'
  PROVE  IF i \in DOMAIN rows THEN rows'[i].key = rows[i].key ELSE i > lastRow
<1>0. RowsTyped
  BY DEF FilesIInv, RowsInv
<1>1. ASSUME NEW c, Upsert(c)
      PROVE  IF i \in DOMAIN rows THEN rows'[i].key = rows[i].key ELSE i > lastRow
  BY <1>0, <1>1 DEF Upsert, RowsTyped
<1>2. ASSUME NEW j \in 1..lastRow, NEW t \in RefreshTokens, Rotate(j, t)
      PROVE  i \in DOMAIN rows /\ rows'[i].key = rows[i].key
  <2>1. i \in DOMAIN rows /\ rows[i] \in Row
    BY <1>0, <1>2 DEF Rotate, RowsTyped
  <2> QED BY <1>2, <2>1 DEF Rotate, Row
<1>3. ASSUME NEW j \in 1..lastRow, Delete(j) PROVE i \in DOMAIN rows /\ rows'[i].key = rows[i].key
  BY <1>3 DEF Delete
<1>4. ASSUME UNCHANGED rows PROVE i \in DOMAIN rows /\ rows'[i].key = rows[i].key
  BY <1>4
<1> QED
  BY <1>1, <1>2, <1>3, <1>4
     DEF FilesNext, fVars, ImportBegin, ImportReject, ImportOpen, ImportFileFails, ImportFileEnds,
         ImportEnd, ImportCredential, SinkImport, ExportBegin, ExportAccount, ExportFails, ExportEnd

\* What an id names never changes, however imports, rotations and deletions fall between an
\* export's listing and its reading.
THEOREM IdsNameOneAccountAlways == FilesSpec => IdsNameOneAccount
<1>1. FilesIInv /\ [FilesNext]_fVars =>
         [\A i \in DOMAIN rows' : IF i \in DOMAIN rows THEN rows'[i].key = rows[i].key
                                                       ELSE i > lastRow]_fVars
  BY IdsNameStep
<1> QED BY <1>1, FilesIInvHolds, PTL DEF FilesSpec, IdsNameOneAccount

\* An archive can be imported again: no entry hides another, and an account of the usual client whose
\* owner is known comes back to its own row.
THEOREM ArchiveReimportableAlways == FilesSpec => []ArchiveIsReimportable
<1>1. ASSUME FilesIInv PROVE ArchiveIsReimportable
  <2>1. ASSUME NEW e \in export.entries, e.key[1] = BuildClient, {e.doc.user, e.doc.email} # {Missing}
        PROVE  SourceKey(Normalize(e.doc)) = e.key
    <3>1. PICK c \in Credential : e.doc = Document(c) /\ Names(e.key, c)
      BY <1>1 DEF FilesIInv, ExportInv, EntriesKeyed
    <3>2. e.key \in Clients \X Owners
      BY <1>1 DEF FilesIInv, ExportInv, EntriesTyped, ArchiveEntry
    <3>3. e.doc.user = c.user /\ e.doc.email = c.email
      BY <3>1 DEF Document, Credential
    <3> QED BY <2>1, <3>1, <3>2, <3>3, DocumentComesBack
  <2> QED BY <1>1, <2>1 DEF FilesIInv, ExportInv, EntriesNumbered, ArchiveIsReimportable
<1> QED BY <1>1, FilesIInvHolds, PTL

====
