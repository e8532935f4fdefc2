------------------------------ MODULE Logbook -------------------------------
(***************************************************************************)
(* The operator's log (apps/cw/logbook.py and the log views of api.py) and *)
(* the two services it is sent to.  A contact is a call in a UTC minute,   *)
(* which is what an import recognises; a QSO row is known by its id and    *)
(* has one mark for each service.  The other columns, the ADIF text and    *)
(* the filters of the page are left out: a filtered upload is an upload of *)
(* any of the rows.                                                        *)
(***************************************************************************)
EXTENDS Naturals, FiniteSets

CONSTANTS
    Contacts,
    Visits,      \* web requests in flight
    MaxRows,
    MaxMishaps   \* failing exchanges, partial answers and requests that die

ASSUME LogbookAssumption == 0 \notin Contacts /\ MaxRows \in Nat /\ MaxMishaps \in Nat

VARIABLES
    qsos,        \* QSO rows by id; Gone where there is none
    lastId,      \* ids are not used twice
    visits,      \* what each request has loaded
    taken,       \* per service: rows in an upload it has answered with a result
    mishaps,
    uploads,     \* history: how often eQSL was given a row, 2 for twice or more
    excused      \* history: rows with a reason to be given to eQSL again

logbookVars == <<qsos, lastId, visits, taken, mishaps, uploads, excused>>

RowIds == 1 .. MaxRows
Gone == [contact |-> 0, eqsl |-> FALSE, qrz |-> FALSE]
NoVisit == [at |-> "idle", rows |-> {}, id |-> 0, seen |-> Gone, records |-> {}]

QSO == [contact : Contacts \cup {0}, eqsl : BOOLEAN, qrz : BOOLEAN]

\* at: the next statement; rows or records still to go through, and the row held.
Visit == [at : {"idle", "edit", "again", "import", "create", "upload", "mark", "insert", "sent"},
          rows : SUBSET RowIds, id : RowIds \cup {0}, seen : QSO, records : SUBSET Contacts]

Logged == {i \in RowIds : qsos[i] # Gone}

LogbookTypeOK ==
    /\ qsos \in [RowIds -> QSO]
    /\ lastId \in 0 .. MaxRows
    /\ visits \in [Visits -> Visit]
    /\ taken \in [{"eqsl", "qrz"} -> SUBSET RowIds]
    /\ mishaps \in 0 .. MaxMishaps
    /\ uploads \in [RowIds -> 0 .. 2] /\ excused \subseteq RowIds

LogbookInit ==
    /\ qsos = [i \in RowIds |-> Gone] /\ lastId = 0
    /\ visits = [v \in Visits |-> NoVisit]
    /\ taken = [s \in {"eqsl", "qrz"} |-> {}]
    /\ mishaps = 0
    /\ uploads = [i \in RowIds |-> 0] /\ excused = {}

Begin(v, visit) == visits[v] = NoVisit /\ visits' = [visits EXCEPT ![v] = visit]
Leave(v) == visits' = [visits EXCEPT ![v] = NoVisit]
Advance(v, at) == visits' = [visits EXCEPT ![v].at = at]
Mishap == mishaps < MaxMishaps /\ mishaps' = mishaps + 1

Insert(c) ==
    /\ lastId < MaxRows
    /\ lastId' = lastId + 1
    /\ qsos' = [qsos EXCEPT ![lastId + 1] = [Gone EXCEPT !.contact = c]]

-----------------------------------------------------------------------------
(* Logging, editing and deleting.                                          *)

\* quick_log.
QuickLog(c) ==
    /\ Insert(c)
    /\ UNCHANGED <<visits, taken, mishaps, uploads, excused>>

\* The form that creates a row: form_valid inserts it, on_form_valid saves the
\* instance once more (SaveAgain).
SubmitNew(v, c) ==
    /\ Insert(c)
    /\ Begin(v, [NoVisit EXCEPT !.at = "again", !.id = lastId + 1,
                                !.seen = [Gone EXCEPT !.contact = c]])
    /\ UNCHANGED <<taken, mishaps, uploads, excused>>

\* get_object of the edit form.
OpenForm(v, i) ==
    /\ i \in Logged
    /\ Begin(v, [NoVisit EXCEPT !.at = "edit", !.id = i, !.seen = qsos[i]])
    /\ UNCHANGED <<qsos, lastId, taken, mishaps, uploads, excused>>

\* save(): every column is written back, the marks as they were read; a row
\* deleted meanwhile is inserted again.
WriteBack(i, row) ==
    /\ qsos' = [qsos EXCEPT ![i] = row]
    /\ excused' = excused \cup (IF (qsos[i].eqsl /\ ~row.eqsl) \/ qsos[i] = Gone
                                THEN {i} ELSE {})

\* form_valid saves the form's instance, on_form_valid saves it once more.
SaveEdit(v, c) ==
    LET row == [visits[v].seen EXCEPT !.contact = c] IN
    /\ visits[v].at = "edit"
    /\ WriteBack(visits[v].id, row)
    /\ visits' = [visits EXCEPT ![v].at = "again", ![v].seen = row]
    /\ UNCHANGED <<lastId, taken, mishaps, uploads>>

SaveAgain(v) ==
    /\ visits[v].at = "again"
    /\ WriteBack(visits[v].id, visits[v].seen)
    /\ Leave(v)
    /\ UNCHANGED <<lastId, taken, mishaps, uploads>>

Delete(i) ==
    /\ i \in Logged
    /\ qsos' = [qsos EXCEPT ![i] = Gone]
    /\ UNCHANGED <<lastId, visits, taken, mishaps, uploads, excused>>

-----------------------------------------------------------------------------
(* import_adif, of a file or of what the QRZ logbook holds.                *)

BeginImport(v, records) ==
    /\ records # {}
    /\ Begin(v, [NoVisit EXCEPT !.at = "import", !.records = records])
    /\ UNCHANGED <<qsos, lastId, taken, mishaps, uploads, excused>>

\* Same call, same UTC minute.
Known(c) == \E i \in Logged : qsos[i].contact = c

\* One record: skipped, or about to be created.
CheckRecord(v, c) ==
    /\ visits[v].at = "import" /\ c \in visits[v].records
    /\ visits' = [visits EXCEPT ![v] =
                    IF Known(c)
                    THEN IF @.records = {c} THEN NoVisit
                         ELSE [@ EXCEPT !.records = visits[v].records \ {c}]
                    ELSE [@ EXCEPT !.at = "create", !.seen.contact = c]]
    /\ UNCHANGED <<qsos, lastId, taken, mishaps, uploads, excused>>

CreateRecord(v) ==
    LET c == visits[v].seen.contact
        left == visits[v].records \ {c} IN
    /\ visits[v].at = "create"
    /\ Insert(c)
    /\ visits' = [visits EXCEPT ![v] =
                    IF left = {} THEN NoVisit
                    ELSE [NoVisit EXCEPT !.at = "import", !.records = left]]
    /\ UNCHANGED <<taken, mishaps, uploads, excused>>

-----------------------------------------------------------------------------
(* log_eqsl_upload: the rows are listed, uploaded and marked.              *)

\* Mutant: rows already sent are not left out.
AllRows == Logged

Unsent == {i \in Logged : ~qsos[i].eqsl}

\* What the page is filtered to; {resend: true} takes marked rows too.
BeginUpload(v, rows, resend) ==
    /\ rows # {}
    /\ rows \subseteq (IF resend THEN Logged ELSE Unsent)
    /\ Begin(v, [NoVisit EXCEPT !.at = "upload", !.rows = rows])
    /\ excused' = excused \cup (IF resend THEN rows ELSE {})
                          \cup {i \in rows : \E w \in Visits :
                                    visits[w].at \in {"upload", "mark"} /\ i \in visits[w].rows}
    /\ UNCHANGED <<qsos, lastId, taken, mishaps, uploads>>

Given(rows) == uploads' = [i \in RowIds |-> IF i \in rows /\ uploads[i] < 2
                                            THEN uploads[i] + 1 ELSE uploads[i]]

\* upload_adif: eQSL answers with a result.
UploadAnswered(v) ==
    /\ visits[v].at = "upload"
    /\ Given(visits[v].rows)
    /\ taken' = [taken EXCEPT !.eqsl = @ \cup visits[v].rows]
    /\ Advance(v, "mark")
    /\ UNCHANGED <<qsos, lastId, mishaps, excused>>

\* EQSLError: the view answers 502.
UploadGivenUp(v) == Leave(v)

\* eQSL is unreachable or refuses; or it has the upload and its answer is lost.
UploadFails(v) ==
    /\ visits[v].at = "upload"
    /\ Mishap
    /\ \/ UNCHANGED <<uploads, excused>>
       \/ Given(visits[v].rows) /\ excused' = excused \cup visits[v].rows
    /\ UploadGivenUp(v)
    /\ UNCHANGED <<qsos, lastId, taken>>

\* The update touches the rows that are still there.
MarkUploaded(v) ==
    /\ visits[v].at = "mark"
    /\ qsos' = [i \in RowIds |-> IF i \in visits[v].rows \cap Logged
                                 THEN [qsos[i] EXCEPT !.eqsl = TRUE] ELSE qsos[i]]
    /\ Leave(v)
    /\ UNCHANGED <<lastId, taken, mishaps, uploads, excused>>

-----------------------------------------------------------------------------
(* qrz_logbook_sync, export: row by row, each marked once QRZ has it.      *)

BeginExport(v) ==
    LET rows == {i \in Logged : ~qsos[i].qrz} IN
    /\ rows # {}
    /\ Begin(v, [NoVisit EXCEPT !.at = "insert", !.rows = rows])
    /\ UNCHANGED <<qsos, lastId, taken, mishaps, uploads, excused>>

\* insert_record returns "ok" or "duplicate".
InsertRecord(v, i) ==
    /\ visits[v].at = "insert" /\ i \in visits[v].rows
    /\ taken' = [taken EXCEPT !.qrz = @ \cup {i}]
    /\ visits' = [visits EXCEPT ![v].at = "sent", ![v].id = i]
    /\ UNCHANGED <<qsos, lastId, mishaps, uploads, excused>>

\* QRZLogbookError: the rest of the list is given up.
InsertFails(v) ==
    /\ visits[v].at = "insert"
    /\ Mishap
    /\ Leave(v)
    /\ UNCHANGED <<qsos, lastId, taken, uploads, excused>>

\* save(update_fields): it raises for a row deleted meanwhile.
MarkExported(v) ==
    LET i == visits[v].id
        left == visits[v].rows \ {i} IN
    /\ visits[v].at = "sent"
    /\ IF i \in Logged
       THEN /\ qsos' = [qsos EXCEPT ![i].qrz = TRUE]
            /\ visits' = [visits EXCEPT ![v] =
                            IF left = {} THEN NoVisit
                            ELSE [NoVisit EXCEPT !.at = "insert", !.rows = left]]
       ELSE Leave(v) /\ UNCHANGED qsos
    /\ UNCHANGED <<lastId, taken, mishaps, uploads, excused>>

\* A request dies with its process.
VisitDies(v) ==
    /\ visits[v] # NoVisit
    /\ Mishap
    /\ Leave(v)
    /\ excused' = excused \cup (IF visits[v].at = "mark" THEN visits[v].rows ELSE {})
    /\ UNCHANGED <<qsos, lastId, taken, uploads>>

LogbookNext ==
    \/ \E c \in Contacts : QuickLog(c)
    \/ \E i \in RowIds : Delete(i)
    \/ \E v \in Visits :
        \/ \E i \in RowIds : OpenForm(v, i) \/ InsertRecord(v, i)
        \/ \E c \in Contacts : SubmitNew(v, c) \/ SaveEdit(v, c) \/ CheckRecord(v, c)
        \/ SaveAgain(v) \/ CreateRecord(v)
        \/ \E records \in SUBSET Contacts : BeginImport(v, records)
        \/ \E rows \in SUBSET RowIds, resend \in BOOLEAN : BeginUpload(v, rows, resend)
        \/ UploadAnswered(v) \/ UploadFails(v) \/ MarkUploaded(v)
        \/ BeginExport(v) \/ InsertFails(v) \/ MarkExported(v)
        \/ VisitDies(v)

LogbookSpec == LogbookInit /\ [][LogbookNext]_logbookVars

-----------------------------------------------------------------------------
(* Properties.                                                             *)

\* The marks are true, whatever fails, dies or writes an old row back: a row
\* marked as sent was in an upload that the service has answered, and eQSL
\* gets a row twice only for a reason: the operator resends it, an answer is
\* lost, a request dies before the mark, two uploads overlap, or a form writes
\* an old mark back.
MarksAreTrue ==
    \A i \in RowIds :
        /\ qsos[i].eqsl => i \in taken["eqsl"]
        /\ qsos[i].qrz => i \in taken["qrz"]
        /\ uploads[i] > 1 => i \in excused
=============================================================================
