------------------------------ MODULE Runbook ------------------------------
(***************************************************************************)
(* One document of apps/runbook: its version rows, the head pointer and    *)
(* what the document row copies of the head.  It is written by keyed       *)
(* operations (REST, MCP, CLI, bundle import), each one transaction; by    *)
(* pages of the web UI, which create it statement by statement, or load it *)
(* and write the loaded instance back later; and by the retention janitor, *)
(* which decides on a loaded instance too.  Bodies are left out but for    *)
(* whether there is one, so a write in place only touches the document.    *)
(* Ownership and lock checks are left out: the callers are the ones let    *)
(* through.  (A page gives its document no key, a seed command does; keyed *)
(* writes may reach either here.)                                          *)
(***************************************************************************)
EXTENDS Integers, FiniteSets

CONSTANTS
    Editors,      \* web requests (and restores by key), at most one write each at a time
    Janitors,     \* prune tasks and retention sweeps
    Keep,         \* the effective max_versions
    OnExpire,     \* "archive" or "delete"
    MaxVersions   \* bound: how many ids documents and versions ever get

ASSUME RunbookAssumption ==
    /\ Keep \in Nat \ {0} /\ MaxVersions \in Nat
    /\ OnExpire \in {"archive", "delete"}

VARIABLES
    document,   \* the Document row: pk 0 when there is none; typed: file_type is set
    rows,       \* its DocumentVersion rows
    cut,        \* the last id given to a document or a version
    aged,       \* row ids past max_version_age_days
    editors,    \* the instance each web request has loaded
    janitors,   \* what each janitor has read and is about to delete
    pruned,     \* history: some version was pruned
    overtaken   \* history: a stale instance took the head somewhere else

runbookVars == <<document, rows, cut, aged, editors, janitors, pruned, overtaken>>

Ids == 1 .. MaxVersions
Null == 0

NoDocument == [pk |-> Null, head |-> Null, number |-> Null, typed |-> FALSE,
               archived |-> FALSE, idle |-> FALSE]

\* at: the step; doc: the loaded instance; cached: the number of its
\* current_version, once that row was read.
NoEditor == [at |-> "idle", doc |-> NoDocument, cached |-> Null]
NoJanitor == [at |-> "idle", doc |-> NoDocument, doomed |-> {}, sweep |-> FALSE]

Documents == [pk : 0 .. MaxVersions, head : 0 .. MaxVersions, number : 0 .. MaxVersions,
              typed : BOOLEAN, archived : BOOLEAN, idle : BOOLEAN]

DocumentVersion == [id : Ids, number : Ids]
Editor == [at : {"idle", "loaded", "creating", "syncing"}, doc : Documents, cached : 0 .. MaxVersions]
Janitor == [at : {"idle", "list", "delete", "expire"}, doc : Documents,
            doomed : SUBSET Ids, sweep : BOOLEAN]

RunbookTypeOK ==
    /\ document \in Documents
    /\ rows \subseteq DocumentVersion
    /\ cut \in 0 .. MaxVersions /\ aged \subseteq Ids
    /\ editors \in [Editors -> Editor]
    /\ janitors \in [Janitors -> Janitor]
    /\ pruned \in BOOLEAN /\ overtaken \in BOOLEAN

RunbookInit ==
    /\ document = NoDocument /\ rows = {} /\ cut = 0 /\ aged = {}
    /\ editors = [e \in Editors |-> NoEditor]
    /\ janitors = [j \in Janitors |-> NoJanitor]
    /\ pruned = FALSE /\ overtaken = FALSE

Row(id) == CHOOSE r \in rows : r.id = id
Present(id) == \E r \in rows : r.id = id
Fresh == cut + 1

\* Document.objects.create: no head yet, and version is 1 by default.
NewDocument == [NoDocument EXCEPT !.pk = Fresh, !.number = 1]

-----------------------------------------------------------------------------
(* The writes of models.py and service.py, on a loaded instance `doc'.     *)

\* create_new_version after `number', and _sync_head; the unique constraint
\* on (document, version) is the caller's guard.
AddVersion(doc, number) ==
    /\ rows' = rows \cup {[id |-> Fresh, number |-> number + 1]}
    /\ document' = [document EXCEPT !.pk = doc.pk, !.head = Fresh, !.number = number + 1,
                                    !.typed = TRUE, !.idle = FALSE]

Unused(number) == \A r \in rows : r.number # number

\* _overwrite_head: the document is touched, whichever version gets the body.
Touch == document' = [document EXCEPT !.idle = FALSE] /\ UNCHANGED rows

-----------------------------------------------------------------------------
(* Keyed operations: select_for_update in a transaction.                   *)

\* put_document creates, at first and after a deletion: create_document in its
\* transaction.
CreateDocument ==
    /\ document.pk = Null /\ cut < MaxVersions
    /\ rows' = {[id |-> Fresh, number |-> 1]}
    /\ document' = [NewDocument EXCEPT !.head = Fresh, !.typed = TRUE]
    /\ cut' = Fresh
    /\ overtaken' = FALSE
    /\ UNCHANGED <<aged, editors, janitors, pruned>>

\* A bundle import creates a document and then a version, both in its
\* transaction (CreateDocument), but for a body that is empty as the head of a
\* new document reads: no version is cut.
ImportEmpty ==
    /\ document.pk = Null /\ cut < MaxVersions
    /\ document' = NewDocument /\ rows' = {}
    /\ cut' = Fresh
    /\ overtaken' = FALSE
    /\ UNCHANGED <<aged, editors, janitors, pruned>>

\* The number of the version that `doc' calls its head.
HeadNumber(doc) == IF doc.head = Null THEN 0 ELSE Row(doc.head).number

\* put_document on an existing document in a mode that snapshots (new_version,
\* append_version), and the same write of a bundle import ...
PutVersion ==
    /\ document.pk # Null /\ cut < MaxVersions
    /\ Unused(HeadNumber(document) + 1)
    /\ AddVersion(document, HeadNumber(document))
    /\ cut' = Fresh
    /\ UNCHANGED <<aged, editors, janitors, pruned, overtaken>>

\* ... and in a mode that writes in place (overwrite, append), which there must
\* be a head for, or a bundle import of other metadata, which needs none.
PutInPlace ==
    /\ document.pk # Null
    /\ Touch
    /\ UNCHANGED <<cut, aged, editors, janitors, pruned, overtaken>>

\* archive_document, unarchive_document (both save updated_at), and the
\* archiving of what a bundle no longer holds (which does not).
SetArchived(value, touch) ==
    /\ document.pk # Null /\ document.archived # value
    /\ document' = [document EXCEPT !.archived = value, !.idle = @ /\ ~touch]
    /\ UNCHANGED <<rows, cut, aged, editors, janitors, pruned, overtaken>>

ArchiveDocument == \E touch \in BOOLEAN : SetArchived(TRUE, touch)
UnarchiveDocument == SetArchived(FALSE, TRUE)

\* delete_document(force=True), and the web UI's delete.
DeleteDocument ==
    /\ document.pk # Null
    /\ document' = NoDocument /\ rows' = {}
    /\ UNCHANGED <<cut, aged, editors, janitors, pruned, overtaken>>

-----------------------------------------------------------------------------
(* Web requests: the instance is loaded first and written later.           *)

Done(e) == editors' = [editors EXCEPT ![e] = NoEditor]

LoadDocument(e) ==
    /\ editors[e].at = "idle" /\ document.pk # Null
    /\ editors' = [editors EXCEPT ![e] = [at |-> "loaded", doc |-> document,
                                          cached |-> Null]]
    /\ UNCHANGED <<document, rows, cut, aged, janitors, pruned, overtaken>>

\* create_document as a page calls it, outside a transaction: the document row,
InsertDocument(e) ==
    /\ editors[e].at = "idle"
    /\ document.pk = Null /\ cut < MaxVersions
    /\ document' = NewDocument
    /\ editors' = [editors EXCEPT ![e] = [at |-> "creating", doc |-> NewDocument,
                                          cached |-> Null]]
    /\ cut' = Fresh
    /\ overtaken' = FALSE
    /\ UNCHANGED <<rows, aged, janitors, pruned>>

\* its version 1, unless another request has written that meanwhile,
InsertFirst(e) ==
    /\ editors[e].at = "creating" /\ cut < MaxVersions
    /\ document.pk = editors[e].doc.pk
    /\ Unused(1)
    /\ rows' = rows \cup {[id |-> Fresh, number |-> 1]}
    /\ editors' = [editors EXCEPT ![e].at = "syncing", ![e].doc.head = Fresh]
    /\ cut' = Fresh
    /\ overtaken' = (overtaken \/ document.head # Null)
    /\ UNCHANGED <<document, aged, janitors, pruned>>

\* and _sync_head, which saves the instance's head.
SyncHead(e) ==
    /\ editors[e].at = "syncing"
    /\ document.pk = editors[e].doc.pk /\ Present(editors[e].doc.head)
    /\ document' = [document EXCEPT !.head = editors[e].doc.head, !.number = 1,
                                    !.typed = TRUE, !.idle = FALSE]
    /\ overtaken' = (overtaken \/ document.head # Null)
    /\ Done(e)
    /\ UNCHANGED <<rows, cut, aged, janitors, pruned>>

\* "Save as version" compares with read_head first, which caches the row.
ReadHead(e) ==
    /\ editors[e].at = "loaded" /\ editors[e].cached = Null
    /\ Present(editors[e].doc.head)
    /\ editors' = [editors EXCEPT ![e].cached = Row(editors[e].doc.head).number]
    /\ UNCHANGED <<document, rows, cut, aged, janitors, pruned, overtaken>>

\* The number the instance's current_version has, read now if not before.
KnownNumber(e) ==
    IF editors[e].cached # Null THEN editors[e].cached ELSE HeadNumber(editors[e].doc)

Readable(e) == editors[e].cached # Null \/ editors[e].doc.head = Null
               \/ Present(editors[e].doc.head)

Stale(e) == editors[e].doc.head # document.head

\* write_version in mode "new_version": an upload, a saved edit, a restore.
SaveVersion(e) ==
    /\ editors[e].at = "loaded" /\ cut < MaxVersions
    /\ document.pk = editors[e].doc.pk /\ Readable(e)
    /\ Unused(KnownNumber(e) + 1)
    /\ AddVersion(editors[e].doc, KnownNumber(e))
    /\ cut' = Fresh
    /\ overtaken' = (overtaken \/ (Stale(e) /\ pruned))
    /\ Done(e)
    /\ UNCHANGED <<aged, janitors, pruned>>

\* write_version in mode "overwrite": the editor's default save, into the
\* version that was the head when the page's request loaded the document.
SaveInPlace(e) ==
    /\ editors[e].at = "loaded"
    /\ document.pk = editors[e].doc.pk /\ Present(editors[e].doc.head)
    /\ Touch
    /\ Done(e)
    /\ UNCHANGED <<cut, aged, janitors, pruned, overtaken>>

\* DocumentUpdateView: form.save() writes every field of the instance back;
\* a file that came with the form makes a version next.
SaveForm(e) ==
    /\ editors[e].at = "loaded"
    /\ document.pk = editors[e].doc.pk
    /\ editors[e].doc.head = Null \/ Present(editors[e].doc.head)
    /\ document' = [editors[e].doc EXCEPT !.idle = FALSE]
    /\ overtaken' = (overtaken \/ Stale(e))
    /\ \/ Done(e)
       \/ editors' = [editors EXCEPT ![e].doc.idle = FALSE]
    /\ UNCHANGED <<rows, cut, aged, janitors, pruned>>

\* The write is refused (number taken, row or document gone) or never comes,
\* and the request dies with it.
GiveUp(e) ==
    /\ editors[e].at # "idle"
    /\ Done(e)
    /\ UNCHANGED <<document, rows, cut, aged, janitors, pruned, overtaken>>

-----------------------------------------------------------------------------
(* Retention: prune_versions_task after a write, or run_sweep.             *)

JanitorLoads(j, sweep) ==
    /\ janitors[j].at = "idle" /\ document.pk # Null
    /\ sweep => ~document.archived
    /\ janitors' = [janitors EXCEPT ![j] = [at |-> "list", doc |-> document,
                                            doomed |-> {}, sweep |-> sweep]]
    /\ UNCHANGED <<document, rows, cut, aged, editors, pruned, overtaken>>

\* Mutant: versions are listed oldest first.
SupersededReversed == {r.id : r \in {q \in rows :
    Cardinality({p \in rows : p.number < q.number}) >= Keep}}

\* versions[max_versions:], newest first.
Superseded == {r.id : r \in {q \in rows :
    Cardinality({p \in rows : p.number > q.number}) >= Keep}}

\* Mutant: the head is not spared.
DoomedHeadToo(doc) == Superseded \cup {r.id : r \in {q \in rows : q.id \in aged}}

\* What prune_versions deletes: too many or too old, never the head it loaded.
Doomed(doc) == (Superseded \cup {r.id : r \in {q \in rows : q.id \in aged}}) \ {doc.head}

JanitorLists(j) ==
    /\ janitors[j].at = "list"
    /\ janitors' = [janitors EXCEPT ![j].at = "delete",
           ![j].doomed = IF document.pk = janitors[j].doc.pk THEN Doomed(janitors[j].doc)
                         ELSE {}]
    /\ UNCHANGED <<document, rows, cut, aged, editors, pruned, overtaken>>

\* The rows go; a head among them becomes NULL (on_delete=SET_NULL).  A sweep
\* then looks at the expiry of the document it loaded.
JanitorDeletes(j) ==
    /\ janitors[j].at = "delete"
    /\ rows' = {r \in rows : r.id \notin janitors[j].doomed}
    /\ document' = IF document.head \in janitors[j].doomed
                   THEN [document EXCEPT !.head = Null] ELSE document
    /\ pruned' = (pruned \/ rows' # rows)
    /\ janitors' = [janitors EXCEPT ![j] = IF janitors[j].sweep
                                           THEN [janitors[j] EXCEPT !.at = "expire", !.doomed = {}]
                                           ELSE NoJanitor]
    /\ UNCHANGED <<cut, aged, editors, overtaken>>

\* is_expired and expire_document, on the loaded instance.
JanitorExpires(j) ==
    /\ janitors[j].at = "expire"
    /\ janitors' = [janitors EXCEPT ![j] = NoJanitor]
    /\ IF janitors[j].doc.idle /\ document.pk = janitors[j].doc.pk
       THEN IF OnExpire = "delete" THEN document' = NoDocument /\ rows' = {}
            ELSE /\ document' = [document EXCEPT !.archived = TRUE, !.idle = FALSE]
                 /\ UNCHANGED rows
       ELSE UNCHANGED <<document, rows>>
    /\ UNCHANGED <<cut, aged, editors, pruned, overtaken>>

\* Days pass: what exists has aged, the document is idle.  No janitor and no
\* request takes that long.
DaysPass ==
    /\ \A j \in Janitors : janitors[j].at = "idle"
    /\ \A e \in Editors : editors[e].at = "idle"
    /\ document.pk # Null
    /\ aged' = {r.id : r \in rows}
    /\ document' = [document EXCEPT !.idle = TRUE]
    /\ UNCHANGED <<rows, cut, editors, janitors, pruned, overtaken>>

-----------------------------------------------------------------------------
EditorStep(e) ==
    \/ InsertDocument(e) \/ InsertFirst(e) \/ SyncHead(e)
    \/ LoadDocument(e) \/ ReadHead(e) \/ SaveVersion(e) \/ SaveInPlace(e)
    \/ SaveForm(e) \/ GiveUp(e)

JanitorStep(j) ==
    \/ \E sweep \in BOOLEAN : JanitorLoads(j, sweep)
    \/ JanitorLists(j) \/ JanitorDeletes(j) \/ JanitorExpires(j)

RunbookNext ==
    \/ CreateDocument \/ ImportEmpty
    \/ PutVersion \/ PutInPlace
    \/ ArchiveDocument \/ UnarchiveDocument \/ DeleteDocument
    \/ \E e \in Editors : EditorStep(e)
    \/ \E j \in Janitors : JanitorStep(j)
    \/ DaysPass

RunbookSpec == RunbookInit /\ [][RunbookNext]_runbookVars

-----------------------------------------------------------------------------
(* Properties.                                                             *)

\* Safety: the document points at its newest version and carries its number,
\* through keyed writes, prunes on stale instances, sweeps and web requests
\* whose instance was overtaken (the unique number refuses those), but for
\* two cases: a stale form wrote the head back, or a prune made room for a
\* stale version's number.  A document without a head is one that never had
\* one: its body was empty, or its creation is at the first version or died
\* there.
HeadIsNewest ==
    document.pk # Null /\ ~overtaken =>
        \/ \E r \in rows : /\ r.id = document.head /\ r.number = document.number
                           /\ \A q \in rows : q.number <= r.number
        \/ /\ document.head = Null /\ ~document.typed /\ document.number = 1
           /\ \A r \in rows : r.number = 1

\* What a step may never do: however stale the instance it decided on, and
\* whatever another janitor deleted meanwhile, a prune deletes none of the
\* newest max_versions versions that is young.  Not so once a stale write has
\* taken the head back: a young version then has a lower number than an aged
\* one, which one janitor counts and another deletes.
RecentSurvive ==
    [][\A j \in Janitors :
           janitors[j].at = "delete" /\ janitors'[j].at # "delete" /\ ~overtaken =>
           \A r \in rows \ rows' :
               r.id \in aged \/ Cardinality({q \in rows : q.number > r.number}) >= Keep]_runbookVars

\* retention.py: "the whole doc self-cleans (ttl_days after last update": a
\* sweep expires a document only when it has been idle.
ExpiresOnlyIdle ==
    [][\A j \in Janitors : janitors[j].at = "expire" /\ janitors'[j].at = "idle" =>
           document.idle \/ (document'.archived = document.archived /\ document'.pk = document.pk)]_runbookVars
=============================================================================
