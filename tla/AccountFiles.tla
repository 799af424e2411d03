---- MODULE AccountFiles ----
(***************************************************************************)
(* Credentials that come into the account pool and leave it as files: the  *)
(* desktop imports up to MaxFiles selected files, each with any number of  *)
(* credentials (desktop/app/app.go, internal/gateway/import.go), and       *)
(* exports every account into one archive (internal/cpa/cpa.go), while the *)
(* worker's sink imports what it registers, the gateway rotates tokens and *)
(* the operator deletes accounts. A row is found again by its source key,  *)
(* a hash of who the credential says it belongs to.                        *)
(*                                                                         *)
(* Spellings of an address that differ in case, or in blanks around it,    *)
(* are one value. A credential that names nobody has a refresh token here: *)
(* the last resort, its access token, is left out.                         *)
(***************************************************************************)
EXTENDS Naturals, FiniteSets

CONSTANTS Users, Emails,          \* what a credential may say of its owner
          RefreshTokens,          \* and the token it brings
          Clients, BuildClient,   \* OAuth clients, and the one taken when a file names none
          Missing,                   \* a field that is missing
          MaxFiles,               \* files one import reads
          MaxSelected,            \* bound: files the operator selects
          MaxPerFile,             \* bound: credentials in a file
          MaxRow                  \* bound: rows ever inserted

ASSUME AccountFilesAssumption ==
    /\ Missing \notin Users \cup Emails \cup RefreshTokens \cup Clients /\ BuildClient \in Clients
    /\ MaxFiles \in Nat /\ MaxSelected \in Nat /\ MaxPerFile \in Nat /\ MaxRow \in Nat

VARIABLES rows,     \* gateway_accounts: the source key and the credential of each row, by id
          lastRow,  \* the id given last
          import,   \* the import under way: files it has still to read, credentials of this one
          report,   \* what that import will tell the window
          written,  \* history: credentials that import has stored
          export    \* the export under way: the accounts still to read, the archive so far

fVars == <<rows, lastRow, import, report, written, export>>

Maybe(S) == S \cup {Missing}

Credential ==
    {c \in [client : Maybe(Clients), user : Maybe(Users), email : Maybe(Emails),
            refresh : Maybe(RefreshTokens)] : {c.user, c.email, c.refresh} # {Missing}}

Row == [key : Clients \X (Users \cup Emails \cup RefreshTokens), cred : Credential]
Report == [selected : Nat, ok : Nat, failed : Nat, imported : Nat, notes : Nat]

NoReport == [selected |-> 0, ok |-> 0, failed |-> 0, imported |-> 0, notes |-> 0]
NoExport == [pc |-> "idle", todo |-> {}, entries |-> {}]

FilesTypeOK ==
    /\ DOMAIN rows \subseteq 1..lastRow /\ lastRow \in 0..MaxRow
    /\ \A i \in DOMAIN rows : rows[i] \in Row
    /\ import \in [pc : {"idle", "file", "reading"}, left : Nat, read : 0..MaxPerFile]
    /\ report \in Report /\ written \in Nat
    /\ export.pc \in {"idle", "next"} /\ export.todo \subseteq 1..lastRow

FilesInit ==
    /\ rows = <<>> /\ lastRow = 0
    /\ import = [pc |-> "idle", left |-> 0, read |-> 0]
    /\ report = NoReport /\ written = 0
    /\ export = NoExport

----------------------------------------------------------------------------
\* normalizeCredentialEntry.
Normalize(c) == [c EXCEPT !.client = IF @ = Missing THEN BuildClient ELSE @]

\* Mutant: the refresh token comes before the address.
SourceKeyTokenFirst(c) ==
    <<c.client, IF c.user # Missing THEN c.user ELSE IF c.refresh # Missing THEN c.refresh ELSE c.email>>

\* accountSourceKey: the user id, or else the address, or else the token.
SourceKey(c) ==
    <<c.client, IF c.user # Missing THEN c.user ELSE IF c.email # Missing THEN c.email ELSE c.refresh>>

\* UpsertAccount, one transaction: the row of that key takes the credential, or a new row does.
Upsert(c) ==
    LET key == SourceKey(c)
        row == [key |-> key, cred |-> c]
        same == {i \in DOMAIN rows : rows[i].key = key} IN
      \/ \E i \in same : rows' = [rows EXCEPT ![i] = row] /\ UNCHANGED lastRow
      \/ /\ same = {} /\ lastRow < MaxRow
         /\ rows' = [i \in DOMAIN rows \cup {lastRow + 1} |->
                        IF i \in DOMAIN rows THEN rows[i] ELSE row]
         /\ lastRow' = lastRow + 1

----------------------------------------------------------------------------
\* importGatewayAccountFiles: what is selected beyond MaxFiles is one failure for all of it.
ImportBegin(n) ==
    /\ import.pc = "idle"
    /\ LET kept == IF n > MaxFiles THEN MaxFiles ELSE n IN
         /\ import' = [pc |-> "file", left |-> kept, read |-> 0]
         /\ report' = [selected |-> n, ok |-> 0, failed |-> n - kept, imported |-> 0,
                       notes |-> IF n > kept THEN 1 ELSE 0]
    /\ written' = 0
    /\ UNCHANGED <<rows, lastRow, export>>

\* A file that fails is noted and the next one read.
NextFile == import' = [pc |-> "file", left |-> import.left - 1, read |-> 0]
Fails == report' = [report EXCEPT !.failed = @ + 1, !.notes = @ + 1] /\ NextFile

\* Not a JSON file, no regular one, too large, unreadable, not to be parsed, or empty.
ImportReject ==
    /\ import.pc = "file" /\ import.left > 0
    /\ Fails
    /\ UNCHANGED <<rows, lastRow, written, export>>

ImportOpen ==
    /\ import.pc = "file" /\ import.left > 0
    /\ import' = [import EXCEPT !.pc = "reading"]
    /\ UNCHANGED <<rows, lastRow, report, written, export>>

ImportCredential(c) ==
    /\ import.pc = "reading" /\ import.read < MaxPerFile
    /\ Upsert(Normalize(c))
    /\ import' = [import EXCEPT !.read = @ + 1]
    /\ written' = written + 1
    /\ UNCHANGED <<report, export>>

\* Mutant: a file counts as good as soon as one of its credentials is.
ImportFileFailsEmpty ==
    /\ import.pc = "reading"
    /\ IF import.read = 0 THEN Fails
          ELSE report' = [report EXCEPT !.ok = @ + 1, !.imported = @ + 1] /\ NextFile
    /\ UNCHANGED <<rows, lastRow, written, export>>

\* A provider, a token type or an expiry that is not supported, no token at all, or a failing
\* transaction: the credentials before it stay where they are, and are not told of.
ImportFileFails ==
    /\ import.pc = "reading"
    /\ Fails
    /\ UNCHANGED <<rows, lastRow, written, export>>

ImportFileEnds ==
    /\ import.pc = "reading" /\ import.read > 0
    /\ report' = [report EXCEPT !.ok = @ + 1, !.imported = @ + import.read]
    /\ NextFile
    /\ UNCHANGED <<rows, lastRow, written, export>>

\* The report goes to the window.
ImportEnd ==
    /\ import.pc = "file" /\ import.left = 0
    /\ import' = [import EXCEPT !.pc = "idle"]
    /\ report' = NoReport /\ written' = 0
    /\ UNCHANGED <<rows, lastRow, export>>

----------------------------------------------------------------------------
\* Sink.Import: a registered account's document, which names no client.
SinkImport(c) ==
    /\ c.client = Missing /\ Upsert(Normalize(c))
    /\ UNCHANGED <<import, report, written, export>>

\* A refresh: the provider's new token replaces the one stored, the key stays.
Rotate(i, t) ==
    /\ i \in DOMAIN rows /\ rows[i].cred.refresh # Missing
    /\ rows' = [rows EXCEPT ![i].cred.refresh = t]
    /\ UNCHANGED <<lastRow, import, report, written, export>>

Delete(i) ==
    /\ i \in DOMAIN rows
    /\ rows' = [j \in DOMAIN rows \ {i} |-> rows[j]]
    /\ UNCHANGED <<lastRow, import, report, written, export>>

----------------------------------------------------------------------------
\* exportGatewayAccountFiles: the accounts are listed once and read one by one.
ExportBegin ==
    /\ export.pc = "idle"
    /\ export' = [pc |-> "next", todo |-> DOMAIN rows, entries |-> {}]
    /\ UNCHANGED <<rows, lastRow, import, report, written>>

\* FromCredential: the document says nothing of the client.
Document(c) == [c EXCEPT !.client = Missing]

\* Filename and usedNames: a hash of the owner, numbered from the second of the same name on.
Subject(c) == IF c.user # Missing THEN c.user ELSE c.refresh
EntryName(c) ==
    <<Subject(c), 1 + Cardinality({e \in export.entries : Subject(e.doc) = Subject(c)})>>

ExportAccount(i) ==
    /\ i \in export.todo /\ i \in DOMAIN rows
    /\ export' = [export EXCEPT !.todo = @ \ {i},
                    !.entries = @ \cup {[name |-> EntryName(rows[i].cred), key |-> rows[i].key,
                                         doc |-> Document(rows[i].cred)]}]
    /\ UNCHANGED <<rows, lastRow, import, report, written>>

\* Deleted since it was listed, or the database fails: noted in the window's report.
ExportFails(i) ==
    /\ i \in export.todo
    /\ export' = [export EXCEPT !.todo = @ \ {i}]
    /\ UNCHANGED <<rows, lastRow, import, report, written>>

\* The archive is written, unless it has no entry.
ExportEnd ==
    /\ export.pc = "next" /\ export.todo = {}
    /\ export' = NoExport
    /\ UNCHANGED <<rows, lastRow, import, report, written>>

FilesNext ==
    \/ \E n \in 1..MaxSelected : ImportBegin(n)
    \/ ImportReject \/ ImportOpen \/ ImportFileFails \/ ImportFileEnds \/ ImportEnd
    \/ \E c \in Credential : ImportCredential(c) \/ SinkImport(c)
    \/ ExportBegin \/ ExportEnd
    \/ \E i \in 1..lastRow : Delete(i) \/ ExportAccount(i) \/ ExportFails(i)
                             \/ \E t \in RefreshTokens : Rotate(i, t)

FilesSpec == FilesInit /\ [][FilesNext]_fVars

----------------------------------------------------------------------------
\* The import's report adds up at every step (account_import_test.go): a selected file is good, failed
\* or still to come; every failure is noted, the files beyond the limit in one note; and the
\* credentials it tells of are stored ones, all of them unless a file failed.
ImportReportAddsUp ==
    /\ report.ok + report.failed + import.left = report.selected
    /\ LET beyond == IF report.selected > MaxFiles THEN report.selected - MaxFiles ELSE 0 IN
         report.notes = report.failed - beyond + (IF beyond > 0 THEN 1 ELSE 0)
    /\ report.imported + import.read <= written
    /\ report.failed = 0 => report.imported + import.read = written

\* An archive can be imported again (app.go:509): no entry hides another, and an account of the usual
\* client whose owner is known comes back to its own row, whatever tokens were rotated and whatever
\* was imported over it since it came.
ArchiveIsReimportable ==
    /\ \A a, b \in export.entries : a.name = b.name => a = b
    /\ \A e \in export.entries :
          e.key[1] = BuildClient /\ {e.doc.user, e.doc.email} # {Missing} =>
              SourceKey(Normalize(e.doc)) = e.key

====
