--------------------------- MODULE RunbookProofs ----------------------------
(***************************************************************************)
(* The version history of a runbook document, proved for any number of     *)
(* requests, janitors and versions.                                        *)
(*                                                                         *)
(* HeadIsNewest needs unique version numbers, and these that a request that*)
(* holds a stale instance is told from one that does not (overtaken).      *)
(* RecentSurvive needs more: that a janitor's decision, made on what it had*)
(* listed, is still right when it deletes.  Every other prune deletes older*)
(* versions first, so the newest ones are still there to be counted        *)
(* (NewestSurvive).  A document without a head is told from one that lost  *)
(* it by what its creator, and whoever loaded it then, holds               *)
(* (HeadlessIsNew, CreationsComeFirst).                                    *)
(***************************************************************************)
EXTENDS Runbook, FiniteSetTheorems, WellFoundedInduction, NaturalsInduction, TLAPS

\* Version rows: ids are not used twice, numbers are unique in a document, and
\* what has aged is older than what has not.
VersionsAreDistinct ==
    /\ IsFiniteSet(rows)
    /\ \A r \in rows : r.id <= cut /\ r.number <= cut
    /\ \A r, q \in rows : r.id = q.id \/ r.number = q.number => r = q
    /\ \A a \in aged : a <= cut /\ \A r \in rows : r.id <= a => r.id \in aged

\* Whoever remembers a document, a head or a version remembers one that was
\* there: ids still to come are unknown to all of them.
MemoriesAreOld ==
    /\ document.pk <= cut /\ document.head <= cut /\ document.number <= cut
    /\ \A e \in Editors :
          /\ editors[e].doc.pk <= cut /\ editors[e].doc.head <= cut
          /\ editors[e].doc.number <= cut
    /\ \A j \in Janitors : /\ janitors[j].doc.pk <= cut
                           /\ \A i \in janitors[j].doomed : i <= cut

\* A head and the number beside it belong to one version, in the document row
\* and in the instance a web request holds.
HeadsAreNumbered ==
    /\ document.pk = Null => rows = {}
    /\ document.head # Null =>
          \E r \in rows : r.id = document.head /\ r.number = document.number
    /\ \A e \in Editors : editors[e].at # "idle" =>
          /\ editors[e].doc.pk # Null
          /\ \A r \in rows : r.id = editors[e].doc.head => r.number = editors[e].doc.number
          /\ editors[e].cached # Null =>
                editors[e].doc.head # Null /\ editors[e].cached = editors[e].doc.number
          /\ editors[e].at # "loaded" => editors[e].doc.number = 1

\* Until something is pruned the numbers have no gap, and the version that a
\* request took for the head is still there.
NumbersHaveNoGap ==
    ~pruned =>
        /\ \A r \in rows : \A k \in 1 .. r.number : \E q \in rows : q.number = k
        /\ \A e \in Editors :
              editors[e].at = "loaded" /\ editors[e].doc.pk = document.pk
                 /\ editors[e].doc.head # Null =>
                  \E r \in rows : r.id = editors[e].doc.head

\* As long as the document has no head, whoever loaded it saw it without one.
HeadlessIsNew ==
    ~overtaken /\ document.pk # Null /\ document.head = Null =>
        \A e \in Editors :
            editors[e].at = "loaded" /\ editors[e].doc.pk = document.pk =>
                editors[e].doc.head = Null /\ editors[e].doc.number = 1 /\ ~editors[e].doc.typed

\* The version whose creator has yet to make it the head is the only one, and
\* no janitor will delete it.
AwaitsHead(e) ==
    /\ document.head = Null
    /\ rows = {[id |-> editors[e].doc.head, number |-> 1]}
    /\ editors[e].doc.head \notin aged
    /\ \A j \in Janitors : editors[e].doc.head \notin janitors[j].doomed

\* A document has one creator.
CreationsComeFirst ==
    /\ \A d, e \in Editors :
          editors[d].at \in {"creating", "syncing"} /\ editors[e].at \in {"creating", "syncing"}
             /\ editors[d].doc.pk = editors[e].doc.pk => d = e
    /\ ~overtaken =>
          \A e \in Editors : editors[e].at = "syncing" /\ editors[e].doc.pk = document.pk =>
              AwaitsHead(e)

\* The order in which versions were cut is that of their numbers.
CutInOrder ==
    ~overtaken => \A r, q \in rows : r.id < q.id => r.number < q.number

Newer(r) == {q \in rows : q.number > r.number}

\* No janitor is about to delete the head or a young version that is among
\* the newest, nor will it list the head it has not loaded for its age.
PrunesAreSafe ==
    ~overtaken /\ document.pk # Null =>
        \A j \in Janitors :
            /\ janitors[j].at = "list" /\ janitors[j].doc.pk = document.pk
                  /\ document.head \in aged => document.head = janitors[j].doc.head
            /\ janitors[j].at = "delete" =>
                  /\ document.head \notin janitors[j].doomed
                  /\ \A r \in rows :
                        r.id \in janitors[j].doomed \ aged => Cardinality(Newer(r)) >= Keep

RunbookInv ==
    /\ RunbookTypeOK
    /\ VersionsAreDistinct
    /\ MemoriesAreOld
    /\ HeadsAreNumbered
    /\ NumbersHaveNoGap
    /\ HeadlessIsNew /\ CreationsComeFirst
    /\ CutInOrder
    /\ HeadIsNewest
    /\ PrunesAreSafe

-----------------------------------------------------------------------------
\* Facts about the document that is not there, idle requests and janitors.
LEMMA RunbookConstants ==
  /\ Null = 0 /\ Ids \subseteq Nat /\ 0 \notin Ids
  /\ NoDocument \in Documents
  /\ NoDocument.pk = 0 /\ NoDocument.head = 0 /\ NoDocument.number = 0 /\ ~NoDocument.typed
  /\ NoEditor \in Editor /\ NoEditor.at = "idle" /\ NoEditor.doc = NoDocument
  /\ NoJanitor \in Janitor /\ NoJanitor.at = "idle" /\ NoJanitor.doc = NoDocument
  /\ NoJanitor.doomed = {}
  BY RunbookAssumption
     DEF Null, Ids, NoDocument, Documents, NoEditor, Editor, NoJanitor, Janitor

\* Everything the invariant counts is a number.
LEMMA RunbookNumbers ==
  ASSUME RunbookTypeOK
  PROVE  /\ cut \in Nat /\ MaxVersions \in Nat /\ Keep \in Nat \ {0}
         /\ document.pk \in Nat /\ document.head \in Nat /\ document.number \in Nat
         /\ \A r \in rows : r.id \in Ids /\ r.number \in Ids /\ r.id \in Nat /\ r.number \in Nat
         /\ aged \subseteq Nat
         /\ \A e \in Editors : /\ editors[e] \in Editor /\ editors[e].doc \in Documents
                               /\ editors[e].doc.pk \in Nat /\ editors[e].doc.head \in Nat
                               /\ editors[e].doc.number \in Nat /\ editors[e].cached \in Nat
         /\ \A j \in Janitors : /\ janitors[j] \in Janitor /\ janitors[j].doc \in Documents
                                /\ janitors[j].doc.pk \in Nat /\ janitors[j].doc.head \in Nat
                                /\ janitors[j].doomed \subseteq Nat
  BY RunbookAssumption
     DEF RunbookTypeOK, Documents, DocumentVersion, Editor, Janitor, Ids

\* An id names one row.
LEMMA RowIsFound ==
  ASSUME VersionsAreDistinct, NEW r \in rows
  PROVE  Row(r.id) = r
  BY DEF Row, VersionsAreDistinct

\* A step of one request leaves the others alone.
LEMMA EditorMoves ==
  ASSUME RunbookInv, NEW e \in Editors, NEW new \in Editor,
         editors' = [editors EXCEPT ![e] = new]
  PROVE  /\ editors' \in [Editors -> Editor] /\ editors'[e] = new
         /\ \A d \in Editors \ {e} : editors'[d] = editors[d]
  BY DEF RunbookInv, RunbookTypeOK

\* No version has id 0, so that a head that is one is not Null, and no janitor
\* has that on its list.
LEMMA HeadsAreIds ==
  ASSUME RunbookTypeOK
  PROVE  /\ \A r \in rows : r.id # Null
         /\ Null \notin aged /\ \A j \in Janitors : Null \notin janitors[j].doomed
  BY RunbookConstants, RunbookNumbers DEF RunbookTypeOK, Janitor

\* The initial states satisfy the invariant.
LEMMA RunbookInitially == RunbookInit => RunbookInv
  <1> SUFFICES ASSUME RunbookInit PROVE RunbookInv
    OBVIOUS
  <1> USE RunbookConstants, RunbookAssumption DEF RunbookInit
  <1>1. RunbookTypeOK
    <2>1. 0 \in 0 .. MaxVersions /\ editors \in [Editors -> Editor] /\ janitors \in [Janitors -> Janitor]
      OBVIOUS
    <2> QED
      BY <2>1 DEF RunbookTypeOK
  <1>2. VersionsAreDistinct
    BY FS_EmptySet DEF VersionsAreDistinct
  <1>3. MemoriesAreOld
    BY DEF MemoriesAreOld
  <1>4. HeadsAreNumbered /\ NumbersHaveNoGap /\ CutInOrder
    BY DEF HeadsAreNumbered, NumbersHaveNoGap, CutInOrder
  <1>5. HeadIsNewest /\ PrunesAreSafe /\ HeadlessIsNew
    BY DEF HeadIsNewest, PrunesAreSafe, HeadlessIsNew
  <1>6. CreationsComeFirst
    BY DEF CreationsComeFirst
  <1> QED
    BY <1>1, <1>2, <1>3, <1>4, <1>5, <1>6 DEF RunbookInv

-----------------------------------------------------------------------------
\* A write that leaves the versions and the head where they are, as a request
\* or a janitor leaves or goes on.
LEMMA QuietWriteKeeps ==
  ASSUME RunbookInv, document' \in Documents, document'.pk = document.pk,
         document'.head = document.head,
         document'.number <= cut, document.head # Null => document'.number = document.number,
         document.head = Null /\ ~overtaken =>
            document'.number = document.number /\ document'.typed = document.typed,
         editors' \in [Editors -> Editor], janitors' \in [Janitors -> Janitor],
         \A e \in Editors :
            \/ editors'[e] = NoEditor
            \/ /\ editors'[e].at = editors[e].at /\ editors'[e].cached = editors[e].cached
               /\ editors'[e].doc.pk = editors[e].doc.pk
               /\ editors'[e].doc.head = editors[e].doc.head
               /\ editors'[e].doc.number = editors[e].doc.number
               /\ editors'[e].doc.typed = editors[e].doc.typed,
         \A j \in Janitors : janitors'[j] = NoJanitor \/ janitors'[j] = janitors[j],
         UNCHANGED <<rows, cut, aged, pruned, overtaken>>
  PROVE  RunbookInv'
  <1>0. cut \in Nat /\ RunbookTypeOK
    BY RunbookNumbers DEF RunbookInv
  <1>1. RunbookTypeOK'
    BY <1>0 DEF RunbookTypeOK
  <1>2. VersionsAreDistinct'
    BY DEF RunbookInv, VersionsAreDistinct
  <1>3. MemoriesAreOld'
    <2>1. \A e \in Editors : (/\ editors[e].doc.pk <= cut /\ editors[e].doc.head <= cut
                              /\ editors[e].doc.number <= cut)'
      BY <1>0, RunbookConstants DEF RunbookInv, MemoriesAreOld
    <2>2. \A j \in Janitors : (/\ janitors[j].doc.pk <= cut
                               /\ \A i \in janitors[j].doomed : i <= cut)'
      BY <1>0, RunbookConstants DEF RunbookInv, MemoriesAreOld
    <2> QED
      BY <2>1, <2>2 DEF RunbookInv, MemoriesAreOld
  <1>4. HeadsAreNumbered'
    BY RunbookConstants DEF RunbookInv, HeadsAreNumbered
  <1>5. NumbersHaveNoGap'
    BY RunbookConstants DEF RunbookInv, NumbersHaveNoGap
  <1>6. CutInOrder' /\ HeadIsNewest'
    BY <1>0, RunbookNumbers, RunbookConstants DEF RunbookInv, CutInOrder, HeadIsNewest
  <1>7. PrunesAreSafe'
    BY RunbookConstants DEF RunbookInv, PrunesAreSafe, Newer
  <1>8. HeadlessIsNew'
    BY RunbookConstants DEF RunbookInv, HeadlessIsNew
  <1>9. CreationsComeFirst'
    <2>1. \A e \in Editors : editors'[e].at # "idle" =>
             /\ editors'[e].at = editors[e].at /\ editors'[e].doc.pk = editors[e].doc.pk
             /\ editors'[e].doc.head = editors[e].doc.head
      BY RunbookConstants
    <2>2. \A j \in Janitors : janitors'[j].doomed \subseteq janitors[j].doomed
      BY RunbookConstants
    <2>3. \A e \in Editors : editors'[e].at = "syncing" /\ AwaitsHead(e) => AwaitsHead(e)'
      BY <2>1, <2>2 DEF AwaitsHead
    <2> QED
      BY <2>1, <2>3 DEF RunbookInv, CreationsComeFirst
  <1> QED
    BY <1>1, <1>2, <1>3, <1>4, <1>5, <1>6, <1>7, <1>8, <1>9 DEF RunbookInv

\* The document and its versions go.
LEMMA DeletionKeeps ==
  ASSUME RunbookInv, document' = NoDocument, rows' = {},
         janitors' \in [Janitors -> Janitor],
         \A j \in Janitors : janitors'[j] = NoJanitor \/ janitors'[j] = janitors[j],
         UNCHANGED <<cut, aged, editors, pruned, overtaken>>
  PROVE  RunbookInv'
  <1>0. cut \in Nat /\ RunbookTypeOK /\ document' \in Documents
    BY RunbookNumbers, RunbookConstants DEF RunbookInv
  <1>1. RunbookTypeOK'
    BY <1>0 DEF RunbookTypeOK
  <1>2. VersionsAreDistinct'
    BY FS_EmptySet DEF RunbookInv, VersionsAreDistinct
  <1>3. MemoriesAreOld'
    BY <1>0, RunbookConstants DEF RunbookInv, MemoriesAreOld
  <1>4. HeadsAreNumbered' /\ CutInOrder'
    BY RunbookConstants DEF RunbookInv, HeadsAreNumbered, CutInOrder
  <1>5. NumbersHaveNoGap'
    BY RunbookConstants DEF RunbookInv, NumbersHaveNoGap, HeadsAreNumbered
  <1>6. HeadIsNewest' /\ PrunesAreSafe' /\ HeadlessIsNew'
    BY RunbookConstants DEF HeadIsNewest, PrunesAreSafe, HeadlessIsNew
  <1>7. CreationsComeFirst'
    BY RunbookConstants DEF RunbookInv, HeadsAreNumbered, CreationsComeFirst
  <1> QED
    BY <1>1, <1>2, <1>3, <1>4, <1>5, <1>6, <1>7 DEF RunbookInv

-----------------------------------------------------------------------------
\* create_new_version and _sync_head: a version above an unused number becomes
\* the head; unless the head had been overtaken it is the newest.
LEMMA AddVersionKeeps ==
  ASSUME RunbookInv, NEW doc, NEW number \in Nat, AddVersion(doc, number),
         Unused(number + 1), number <= cut, cut < MaxVersions, cut' = Fresh,
         doc.pk = document.pk, document.pk # Null,
         ~pruned => number = 0 \/ \E r \in rows : r.number = number,
         ~overtaken' => /\ ~overtaken /\ \A r \in rows : r.number <= number
                        /\ document.head = Null => number = 0,
         overtaken' \in BOOLEAN,
         editors' \in [Editors -> Editor],
         \A e \in Editors : editors'[e] = NoEditor \/ editors'[e] = editors[e],
         UNCHANGED <<aged, janitors, pruned>>
  PROVE  RunbookInv'
  <1> DEFINE new == [id |-> cut + 1, number |-> number + 1]
  <1>0. RunbookTypeOK /\ cut \in Nat /\ cut' = cut + 1 /\ MaxVersions \in Nat
    BY RunbookNumbers DEF RunbookInv, Fresh
  <1>1. rows' = rows \cup {new} /\ new.id = cut + 1 /\ new.number = number + 1
    BY DEF AddVersion, Fresh
  <1>2. new \in DocumentVersion
    BY <1>0 DEF DocumentVersion, Ids
  <1>3. /\ document'.pk = document.pk /\ document'.head = cut + 1
        /\ document'.number = number + 1 /\ document' \in Documents
    <2>1. document' = [document EXCEPT !.pk = doc.pk, !.head = cut + 1, !.number = number + 1,
                                       !.typed = TRUE, !.idle = FALSE]
      BY DEF AddVersion, Fresh
    <2>2. document \in Documents /\ cut + 1 \in 0 .. MaxVersions /\ number + 1 \in 0 .. MaxVersions
      BY <1>0 DEF RunbookTypeOK
    <2> QED
      BY <2>1, <2>2 DEF Documents
  <1> HIDE DEF new
  <1>4. /\ \A r \in rows : /\ r.id \in Nat /\ r.number \in Nat
                           /\ r.id <= cut /\ r.number <= cut /\ r.number # number + 1
        /\ IsFiniteSet(rows)
    BY <1>0, RunbookNumbers DEF RunbookInv, VersionsAreDistinct, Unused
  <1>5. RunbookTypeOK'
    BY <1>0, <1>1, <1>2, <1>3 DEF RunbookTypeOK
  <1>6. VersionsAreDistinct'
    <2>1. IsFiniteSet(rows')
      BY <1>1, <1>4, FS_AddElement
    <2>2. \A r \in rows' : r.id <= cut + 1 /\ r.number <= cut + 1
      BY <1>0, <1>1, <1>4
    <2>3. \A r, q \in rows' : r.id = q.id \/ r.number = q.number => r = q
      BY <1>0, <1>1, <1>4 DEF RunbookInv, VersionsAreDistinct
    <2>4. \A a \in aged : a <= cut + 1 /\ \A r \in rows' : r.id <= a => r.id \in aged
      BY <1>0, <1>1, <1>4, RunbookNumbers DEF RunbookInv, VersionsAreDistinct
    <2> QED
      BY <1>0, <2>1, <2>2, <2>3, <2>4 DEF VersionsAreDistinct
  <1>7. MemoriesAreOld'
    <2>1. \A e \in Editors : /\ editors'[e].doc.pk <= cut + 1 /\ editors'[e].doc.head <= cut + 1
                             /\ editors'[e].doc.number <= cut + 1
      BY <1>0, RunbookNumbers, RunbookConstants DEF RunbookInv, MemoriesAreOld
    <2>2. \A j \in Janitors : /\ janitors[j].doc.pk <= cut + 1
                              /\ \A i \in janitors[j].doomed : i <= cut + 1
      BY <1>0, RunbookNumbers DEF RunbookInv, MemoriesAreOld
    <2>3. document.pk <= cut + 1
      BY <1>0, RunbookNumbers DEF RunbookInv, MemoriesAreOld
    <2> QED
      BY <1>0, <1>3, <2>1, <2>2, <2>3 DEF MemoriesAreOld
  <1>8. HeadsAreNumbered'
    <2>1. \A e \in Editors : editors[e].doc.head # cut + 1
      BY <1>0, RunbookNumbers DEF RunbookInv, MemoriesAreOld
    <2>2. \A e \in Editors : editors'[e].at # "idle" => editors'[e] = editors[e]
      BY RunbookConstants
    <2>3. \A e \in Editors : editors'[e].at # "idle" =>
            /\ editors'[e].doc.pk # Null
            /\ \A r \in rows' : r.id = editors'[e].doc.head => r.number = editors'[e].doc.number
            /\ editors'[e].cached # Null =>
                  editors'[e].doc.head # Null /\ editors'[e].cached = editors'[e].doc.number
            /\ editors'[e].at # "loaded" => editors'[e].doc.number = 1
      BY <1>1, <2>1, <2>2 DEF RunbookInv, HeadsAreNumbered
    <2> QED
      BY <1>1, <1>3, <2>3 DEF HeadsAreNumbered
  <1>9. NumbersHaveNoGap'
    <2> SUFFICES ASSUME ~pruned PROVE NumbersHaveNoGap'
      BY DEF NumbersHaveNoGap
    <2>1. \A r \in rows : \A k \in 1 .. r.number : \E q \in rows : q.number = k
      BY DEF RunbookInv, NumbersHaveNoGap
    <2>2. \A k \in 1 .. number : \E q \in rows : q.number = k
      BY <2>1
    <2>3. \A k \in 1 .. (number + 1) : k \in 1 .. number \/ k = number + 1
      OBVIOUS
    <2>4. \A r \in rows' : \A k \in 1 .. r.number : \E q \in rows' : q.number = k
      BY <1>1, <2>1, <2>2, <2>3
    <2>5. \A e \in Editors : editors'[e].at = "loaded" => editors'[e] = editors[e]
      BY RunbookConstants
    <2>6. \A e \in Editors :
             editors'[e].at = "loaded" /\ editors'[e].doc.pk = document.pk
                /\ editors'[e].doc.head # Null =>
                 \E r \in rows' : r.id = editors'[e].doc.head
      BY <1>1, <2>5 DEF RunbookInv, NumbersHaveNoGap
    <2> QED
      BY <1>0, <1>3, <2>4, <2>6, RunbookConstants DEF NumbersHaveNoGap
  <1>10. CutInOrder'
    <2> SUFFICES ASSUME ~overtaken' PROVE \A r, q \in rows' : r.id < q.id => r.number < q.number
      BY DEF CutInOrder
    <2> QED
      BY <1>0, <1>1, <1>4 DEF RunbookInv, CutInOrder
  <1>11. HeadIsNewest'
    <2> SUFFICES ASSUME ~overtaken' PROVE HeadIsNewest'
      BY DEF HeadIsNewest
    <2>1. \A q \in rows' : q.number <= new.number
      BY <1>1, <1>4
    <2> QED
      BY <1>1, <1>3, <2>1 DEF HeadIsNewest
  <1>12. PrunesAreSafe'
    <2> SUFFICES ASSUME ~overtaken', NEW j \in Janitors
                 PROVE  /\ cut + 1 \notin aged /\ cut + 1 \notin janitors[j].doomed
                        /\ janitors[j].at = "delete" =>
                              \A r \in rows' : r.id \in janitors[j].doomed \ aged =>
                                  Cardinality(Newer(r)') >= Keep
      BY <1>3 DEF PrunesAreSafe
    <2>1. cut + 1 \notin aged /\ cut + 1 \notin janitors[j].doomed
      BY <1>0, RunbookNumbers DEF RunbookInv, MemoriesAreOld, VersionsAreDistinct
    <2>2. ASSUME janitors[j].at = "delete", NEW r \in rows', r.id \in janitors[j].doomed \ aged
          PROVE  Cardinality(Newer(r)') >= Keep
      <3>1. r \in rows
        BY <1>1, <2>1, <2>2
      <3>2. Cardinality(Newer(r)) >= Keep
        BY <2>2, <3>1 DEF RunbookInv, PrunesAreSafe
      <3>3. IsFiniteSet(Newer(r)')
        BY <1>6, FS_Subset DEF VersionsAreDistinct, Newer
      <3>4. Newer(r) \subseteq Newer(r)'
        BY <1>1 DEF Newer
      <3>5. /\ Cardinality(Newer(r)) <= Cardinality(Newer(r)')
            /\ IsFiniteSet(Newer(r))
        BY <3>3, <3>4, FS_Subset
      <3> QED
        BY <1>0, <3>2, <3>3, <3>5, FS_CardinalityType, RunbookNumbers
    <2> QED
      BY <2>1, <2>2
  <1>13. HeadlessIsNew'
    BY <1>0, <1>3, RunbookConstants DEF HeadlessIsNew
  <1>14. CreationsComeFirst'
    <2>1. \A e \in Editors : editors'[e].at # "idle" => editors'[e] = editors[e]
      BY RunbookConstants
    <2>2. ASSUME NEW e \in Editors, ~overtaken', AwaitsHead(e) PROVE FALSE
      <3>1. number = 0 /\ \A r \in rows : r.number <= number
        BY <2>2 DEF AwaitsHead
      <3>2. \E r \in rows : r.number = 1
        BY <2>2 DEF AwaitsHead
      <3> QED
        BY <3>1, <3>2
    <2>3. ASSUME NEW e \in Editors, ~overtaken', editors'[e].at = "syncing",
                 editors'[e].doc.pk = document'.pk
          PROVE  AwaitsHead(e)'
      <3>1. AwaitsHead(e)
        BY <1>3, <2>1, <2>3 DEF RunbookInv, CreationsComeFirst
      <3> QED
        BY <2>2, <2>3, <3>1
    <2> QED
      BY <2>1, <2>3 DEF RunbookInv, CreationsComeFirst
  <1> QED
    BY <1>5, <1>6, <1>7, <1>8, <1>9, <1>10, <1>11, <1>12, <1>13, <1>14 DEF RunbookInv

\* A new document, with its first version or without: nothing that anyone
\* remembers is about it.
LEMMA NewDocumentKeeps ==
  ASSUME RunbookInv, document.pk = Null, cut < MaxVersions, cut' = Fresh, overtaken' = FALSE,
         document' \in Documents, document'.pk = Fresh, document'.number = 1,
         \/ rows' = {[id |-> Fresh, number |-> 1]} /\ document'.head = Fresh
         \/ rows' = {} /\ document'.head = Null /\ ~document'.typed,
         editors' \in [Editors -> Editor],
         \/ UNCHANGED editors
         \/ \E e \in Editors :
               /\ editors'[e].at = "creating" /\ editors'[e].cached = Null
               /\ editors'[e].doc.pk = Fresh /\ editors'[e].doc.head = Null
               /\ editors'[e].doc.number = 1
               /\ \A d \in Editors \ {e} : editors'[d] = editors[d],
         UNCHANGED <<aged, janitors, pruned>>
  PROVE  RunbookInv'
  <1>0. RunbookTypeOK /\ cut \in Nat /\ cut' = cut + 1 /\ Fresh = cut + 1 /\ MaxVersions \in Nat
    BY RunbookNumbers DEF RunbookInv, Fresh
  <1>1. /\ \A r \in rows' : r.id = cut + 1 /\ r.number = 1 /\ document'.head = cut + 1
        /\ \A r, q \in rows' : r = q
        /\ IsFiniteSet(rows') /\ rows' \subseteq DocumentVersion
    <2>1. cut + 1 \in Ids /\ 1 \in Ids
      BY <1>0 DEF Ids
    <2>2. IsFiniteSet(rows')
      <3>1. IsFiniteSet({[id |-> Fresh, number |-> 1]})
        BY FS_Singleton
      <3>2. IsFiniteSet({})
        BY FS_EmptySet
      <3> QED
        BY <3>1, <3>2
    <2> QED
      BY <1>0, <2>1, <2>2 DEF DocumentVersion
  <1>2. /\ document'.head = Null => rows' = {} /\ ~document'.typed
        /\ document'.head # Null => \E r \in rows' : r.id = document'.head /\ r.number = 1
        /\ document'.head \in {0, cut + 1}
    <2>1. CASE rows' = {[id |-> Fresh, number |-> 1]} /\ document'.head = Fresh
      BY <1>0, <2>1, RunbookConstants
    <2>2. CASE rows' = {} /\ document'.head = Null /\ ~document'.typed
      BY <2>2, RunbookConstants
    <2> QED
      BY <2>1, <2>2
  <1>3. /\ \A e \in Editors : /\ editors[e].doc.pk <= cut /\ editors[e].doc.head <= cut
                              /\ editors[e].doc.number <= cut
        /\ \A j \in Janitors : janitors[j].doc.pk <= cut /\ \A i \in janitors[j].doomed : i <= cut
        /\ \A a \in aged : a <= cut
    BY DEF RunbookInv, MemoriesAreOld, VersionsAreDistinct
  <1>4. \A e \in Editors :
           \/ editors'[e] = editors[e]
           \/ /\ editors'[e].at = "creating" /\ editors'[e].cached = Null
              /\ editors'[e].doc.pk = cut + 1 /\ editors'[e].doc.head = Null
              /\ editors'[e].doc.number = 1
    BY <1>0
  <1>5. RunbookTypeOK'
    <2>1. cut' \in 0 .. MaxVersions
      BY <1>0
    <2>2. overtaken' \in BOOLEAN
      OBVIOUS
    <2> QED
      BY <1>0, <1>1, <2>1, <2>2 DEF RunbookTypeOK
  <1>6. VersionsAreDistinct'
    <2>1. \A a \in aged : a <= cut + 1 /\ ~(cut + 1 <= a)
      BY <1>0, <1>3, RunbookNumbers
    <2>2. \A r \in rows' : r.id <= cut + 1 /\ r.number <= cut + 1
      BY <1>0, <1>1
    <2>3. \A a \in aged : \A r \in rows' : r.id <= a => r.id \in aged
      BY <1>1, <2>1
    <2> QED
      BY <1>0, <1>1, <2>1, <2>2, <2>3 DEF VersionsAreDistinct
  <1>7. MemoriesAreOld'
    <2>1. \A e \in Editors : /\ editors'[e].doc.pk <= cut + 1 /\ editors'[e].doc.head <= cut + 1
                             /\ editors'[e].doc.number <= cut + 1
      BY <1>0, <1>3, <1>4, RunbookNumbers, RunbookConstants
    <2>2. \A j \in Janitors : /\ janitors[j].doc.pk <= cut + 1
                              /\ \A i \in janitors[j].doomed : i <= cut + 1
      BY <1>0, <1>3, RunbookNumbers
    <2>3. document'.pk <= cut + 1 /\ document'.head <= cut + 1 /\ document'.number <= cut + 1
      BY <1>0, <1>2
    <2> QED
      BY <1>0, <2>1, <2>2, <2>3 DEF MemoriesAreOld
  <1>8. HeadsAreNumbered'
    <2>1. \A e \in Editors : \A r \in rows' : r.id # editors'[e].doc.head
      BY <1>0, <1>1, <1>3, <1>4, RunbookNumbers, RunbookConstants
    <2>2. document'.pk # Null
      BY <1>0, RunbookConstants
    <2>3. \A e \in Editors : editors'[e].at # "idle" =>
            /\ editors'[e].doc.pk # Null
            /\ editors'[e].cached # Null =>
                  editors'[e].doc.head # Null /\ editors'[e].cached = editors'[e].doc.number
            /\ editors'[e].at # "loaded" => editors'[e].doc.number = 1
      BY <1>0, <1>4, RunbookConstants DEF RunbookInv, HeadsAreNumbered
    <2> QED
      BY <1>2, <2>1, <2>2, <2>3 DEF HeadsAreNumbered
  <1>9. \A e \in Editors : editors'[e].at = "loaded" \/ editors'[e].at = "syncing" =>
           editors'[e].doc.pk # document'.pk
    BY <1>0, <1>3, <1>4, RunbookNumbers
  <1>10. NumbersHaveNoGap' /\ HeadlessIsNew'
    <2>1. \A k \in 1 .. 1 : k = 1
      OBVIOUS
    <2> QED
      BY <1>1, <1>9, <2>1 DEF NumbersHaveNoGap, HeadlessIsNew
  <1>11. CreationsComeFirst'
    <2>1. ASSUME NEW d \in Editors, NEW e \in Editors, editors'[d].at \in {"creating", "syncing"},
                 editors'[e].at \in {"creating", "syncing"},
                 editors'[d].doc.pk = editors'[e].doc.pk
          PROVE  d = e
      <3>1. CASE editors'[d] = editors[d] /\ editors'[e] = editors[e]
        BY <2>1, <3>1 DEF RunbookInv, CreationsComeFirst
      <3>2. CASE ~(editors'[d] = editors[d] /\ editors'[e] = editors[e])
        <4>1. editors'[d].doc.pk = cut + 1 /\ editors'[e].doc.pk = cut + 1
          BY <1>4, <2>1, <3>2
        <4>2. editors'[d] # editors[d] /\ editors'[e] # editors[e]
          BY <1>0, <1>3, <4>1, RunbookNumbers
        <4> QED
          BY <4>2
      <3> QED
        BY <3>1, <3>2
    <2> QED
      BY <1>9, <2>1 DEF CreationsComeFirst
  <1>12. CutInOrder' /\ HeadIsNewest'
    <2>1. \A r \in rows' : r.number = 1
      BY <1>1
    <2> QED
      BY <1>0, <1>1, <1>2, <2>1 DEF CutInOrder, HeadIsNewest
  <1>13. PrunesAreSafe'
    <2>1. /\ cut + 1 \notin aged /\ 0 \notin aged
          /\ \A j \in Janitors : cut + 1 \notin janitors[j].doomed /\ 0 \notin janitors[j].doomed
      BY <1>0, <1>3, RunbookNumbers, RunbookConstants, HeadsAreIds
    <2> QED
      BY <1>0, <1>1, <1>2, <2>1 DEF PrunesAreSafe
  <1> QED
    BY <1>5, <1>6, <1>7, <1>8, <1>10, <1>11, <1>12, <1>13 DEF RunbookInv

\* The row as Document.objects.create inserts it.
LEMMA NewDocumentIs ==
  ASSUME RunbookTypeOK, cut < MaxVersions
  PROVE  /\ Fresh \in 0 .. MaxVersions /\ NewDocument \in Documents
         /\ NewDocument.pk = Fresh /\ NewDocument.head = Null /\ NewDocument.number = 1
         /\ ~NewDocument.typed
  <1>1. cut + 1 \in 0 .. MaxVersions /\ 1 \in 0 .. MaxVersions /\ 0 \in 0 .. MaxVersions
    BY RunbookNumbers
  <1> QED
    BY <1>1 DEF NewDocument, NoDocument, Documents, Fresh, Null

\* put_document and import_bundle create in one transaction; a page's first
\* statement does with a document alone.
LEMMA CreationsKeep ==
  ASSUME RunbookInv, CreateDocument \/ ImportEmpty \/ \E e \in Editors : InsertDocument(e)
  PROVE  RunbookInv'
  <1>0. /\ RunbookTypeOK /\ cut < MaxVersions /\ document.pk = Null /\ cut' = Fresh
        /\ overtaken' = FALSE /\ UNCHANGED <<aged, janitors, pruned>>
        /\ editors \in [Editors -> Editor]
    BY DEF RunbookInv, RunbookTypeOK, CreateDocument, ImportEmpty, InsertDocument
  <1>1. CASE CreateDocument
    <2>1. /\ document' \in Documents /\ document'.pk = Fresh /\ document'.head = Fresh
          /\ document'.number = 1
      <3>1. document' = [NewDocument EXCEPT !.head = Fresh, !.typed = TRUE]
        BY <1>1 DEF CreateDocument
      <3> QED
        BY <1>0, <3>1, NewDocumentIs DEF Documents
    <2>2. rows' = {[id |-> Fresh, number |-> 1]} /\ UNCHANGED editors
      BY <1>1 DEF CreateDocument
    <2> QED
      BY <1>0, <2>1, <2>2, NewDocumentKeeps
  <1>2. CASE ImportEmpty
    <2>1. document' = NewDocument /\ rows' = {} /\ UNCHANGED editors
      BY <1>2 DEF ImportEmpty
    <2> QED
      BY <1>0, <2>1, NewDocumentIs, NewDocumentKeeps
  <1>3. ASSUME NEW e \in Editors, InsertDocument(e) PROVE RunbookInv'
    <2> DEFINE new == [at |-> "creating", doc |-> NewDocument, cached |-> Null]
    <2>1. /\ new \in Editor /\ new.at = "creating" /\ new.doc = NewDocument /\ new.cached = Null
      BY <1>0, NewDocumentIs, RunbookAssumption DEF Editor, Null
    <2>2. /\ document' = NewDocument /\ rows' = rows /\ editors' = [editors EXCEPT ![e] = new]
      BY <1>3 DEF InsertDocument
    <2>3. rows' = {}
      BY <1>0, <2>2 DEF RunbookInv, HeadsAreNumbered
    <2> HIDE DEF new
    <2>4. /\ editors' \in [Editors -> Editor] /\ editors'[e] = new
          /\ \A d \in Editors \ {e} : editors'[d] = editors[d]
      BY <2>1, <2>2, EditorMoves
    <2>5. /\ editors'[e].at = "creating" /\ editors'[e].cached = Null
          /\ editors'[e].doc.pk = Fresh /\ editors'[e].doc.head = Null
          /\ editors'[e].doc.number = 1
      BY <1>0, <2>1, <2>4, NewDocumentIs
    <2>6. /\ document' \in Documents /\ document'.pk = Fresh /\ document'.number = 1
          /\ document'.head = Null /\ ~document'.typed
      BY <1>0, <2>2, NewDocumentIs
    <2> QED
      BY <1>0, <2>3, <2>4, <2>5, <2>6, NewDocumentKeeps
  <1> QED
    BY <1>1, <1>2, <1>3

\* The number of the version a head names.
LEMMA HeadNumberIs ==
  ASSUME VersionsAreDistinct, NEW doc, NEW r \in rows, r.id = doc.head, doc.head # Null
  PROVE  HeadNumber(doc) = r.number
  BY RowIsFound DEF HeadNumber

\* A keyed write reads and writes in one transaction: it numbers on from the
\* head.
LEMMA PutVersionKeeps ==
  ASSUME RunbookInv, PutVersion
  PROVE  RunbookInv'
  <1>0. RunbookTypeOK /\ VersionsAreDistinct
    BY DEF RunbookInv
  <1>1. CASE document.head = Null
    <2>1. HeadNumber(document) = 0
      BY <1>1 DEF HeadNumber
    <2>2. ~overtaken => \A r \in rows : r.number = 1
      BY <1>0, <1>1, HeadsAreIds DEF RunbookInv, HeadIsNewest, PutVersion
    <2>3. ~overtaken => rows = {}
      BY <2>1, <2>2 DEF PutVersion, Unused
    <2> QED
      BY <1>0, <2>1, <2>3, RunbookNumbers, AddVersionKeeps
         DEF PutVersion, RunbookTypeOK
  <1>2. CASE document.head # Null
    <2>1. PICK r \in rows : r.id = document.head /\ r.number = document.number
      BY <1>2 DEF RunbookInv, HeadsAreNumbered
    <2>2. HeadNumber(document) = r.number
      BY <1>0, <1>2, <2>1, HeadNumberIs
    <2>3. ~overtaken => \A q \in rows : q.number <= r.number
      BY <1>2, <2>1 DEF RunbookInv, HeadIsNewest, PutVersion, VersionsAreDistinct
    <2>4. r.number \in Nat /\ r.number <= cut
      BY <1>0, RunbookNumbers DEF VersionsAreDistinct
    <2> QED
      BY <1>0, <1>2, <2>2, <2>3, <2>4, AddVersionKeeps DEF PutVersion, RunbookTypeOK
  <1> QED
    BY <1>1, <1>2

\* A saved version of a web request is refused its number if the head it has
\* loaded was overtaken, as long as nothing was pruned.
LEMMA SaveVersionKeeps ==
  ASSUME RunbookInv, NEW e \in Editors, SaveVersion(e)
  PROVE  RunbookInv'
  <1> DEFINE doc == editors[e].doc
             number == KnownNumber(e)
  <1>0. /\ RunbookTypeOK /\ VersionsAreDistinct /\ doc.pk = document.pk /\ document.pk # Null
        /\ Unused(number + 1) /\ AddVersion(doc, number) /\ cut' = Fresh
        /\ cut < MaxVersions /\ UNCHANGED <<aged, janitors, pruned>> /\ editors[e].at = "loaded"
        /\ overtaken' = (overtaken \/ (doc.head # document.head /\ pruned))
    BY DEF RunbookInv, SaveVersion, HeadsAreNumbered, Stale
  <1>1. /\ editors' \in [Editors -> Editor]
        /\ \A d \in Editors : editors'[d] = NoEditor \/ editors'[d] = editors[d]
    BY <1>0, RunbookConstants DEF SaveVersion, Done, RunbookTypeOK
  <1>2. \/ doc.head = Null /\ number = 0
        \/ number = doc.number
    <2>1. CASE editors[e].cached # Null
      BY <1>0, <2>1 DEF KnownNumber, RunbookInv, HeadsAreNumbered
    <2>2. CASE editors[e].cached = Null /\ doc.head = Null
      BY <2>2 DEF KnownNumber, HeadNumber
    <2>3. CASE editors[e].cached = Null /\ doc.head # Null
      <3>1. PICK r \in rows : r.id = doc.head
        BY <2>3 DEF SaveVersion, Readable, Present
      <3>2. r.number = doc.number
        BY <1>0, <3>1 DEF RunbookInv, HeadsAreNumbered
      <3> QED
        BY <1>0, <2>3, <3>1, <3>2, HeadNumberIs DEF KnownNumber
    <2> QED
      BY <2>1, <2>2, <2>3
  <1>3. number \in Nat /\ number <= cut
    BY <1>0, <1>2, RunbookNumbers DEF RunbookInv, MemoriesAreOld
  <1>4. ~pruned => number = 0 \/ \E r \in rows : r.id = doc.head /\ r.number = number
    <2> SUFFICES ASSUME ~pruned, ~(doc.head = Null /\ number = 0)
                 PROVE \E r \in rows : r.id = doc.head /\ r.number = number
      OBVIOUS
    <2>0. doc.head # Null
      <3> SUFFICES ASSUME doc.head = Null PROVE FALSE
        OBVIOUS
      <3> QED
        BY <1>0 DEF KnownNumber, HeadNumber, RunbookInv, HeadsAreNumbered
    <2>1. PICK r \in rows : r.id = doc.head
      BY <1>0, <2>0 DEF RunbookInv, NumbersHaveNoGap
    <2>2. r.number = doc.number /\ doc.head # Null
      BY <1>0, <2>1, RunbookNumbers, RunbookConstants DEF RunbookInv, HeadsAreNumbered
    <2> QED
      BY <1>2, <2>1, <2>2
  <1>5. ASSUME ~overtaken', document.head # Null PROVE \A r \in rows : r.number <= number
    <2>1. PICK r \in rows : /\ r.id = document.head /\ r.number = document.number
                            /\ \A q \in rows : q.number <= r.number
      BY <1>0, <1>5 DEF RunbookInv, HeadIsNewest
    <2>2. CASE doc.head = document.head
      <3>1. number = doc.number
        BY <1>2, <1>5, <2>2
      <3> QED
        BY <1>0, <2>1, <2>2, <3>1 DEF RunbookInv, HeadsAreNumbered
    <2>3. CASE doc.head # document.head
      <3>1. ~overtaken /\ ~pruned
        BY <1>0, <1>5, <2>3
      <3>2. number + 1 \in 1 .. r.number
        <4>1. CASE number = 0
          BY <1>0, <2>1, <4>1, RunbookNumbers DEF Ids
        <4>2. CASE number # 0
          <5>1. PICK h \in rows : h.id = doc.head /\ h.number = number
            BY <1>4, <3>1, <4>2
          <5>2. h.number < r.number
            BY <1>0, <2>1, <2>3, <5>1, RunbookNumbers DEF VersionsAreDistinct
          <5> QED
            BY <1>0, <1>3, <5>1, <5>2, RunbookNumbers
        <4> QED
          BY <4>1, <4>2
      <3> QED
        BY <1>0, <3>1, <3>2 DEF RunbookInv, NumbersHaveNoGap, Unused
    <2> QED
      BY <2>2, <2>3
  <1>6. ASSUME ~overtaken', document.head = Null
        PROVE  number = 0 /\ \A r \in rows : r.number <= number
    <2>1. doc.head = Null
      BY <1>0, <1>6 DEF RunbookInv, HeadlessIsNew
    <2>2. editors[e].cached = Null
      BY <1>0, <2>1 DEF RunbookInv, HeadsAreNumbered
    <2>3. number = 0
      BY <2>1, <2>2 DEF KnownNumber, HeadNumber
    <2>4. \A r \in rows : r.number = 1
      BY <1>0, <1>6, HeadsAreIds DEF RunbookInv, HeadIsNewest
    <2> QED
      BY <1>0, <2>3, <2>4 DEF Unused
  <1>7. overtaken' \in BOOLEAN /\ (~overtaken' => ~overtaken)
    BY <1>0
  <1> HIDE DEF doc, number
  <1> QED
    BY <1>0, <1>1, <1>3, <1>4, <1>5, <1>6, <1>7, AddVersionKeeps

\* A request holds the document as it is, or learns its head's number.
LEMMA LoadedInstanceKeeps ==
  ASSUME RunbookInv, NEW e \in Editors, NEW new \in Editor, new.at = "loaded",
         \/ new.doc = document /\ new.cached = Null /\ document.pk # Null
         \/ /\ editors[e].at = "loaded" /\ new.doc = editors[e].doc
            /\ new.doc.head # Null /\ new.cached = new.doc.number,
         editors' = [editors EXCEPT ![e] = new],
         UNCHANGED <<document, rows, cut, aged, janitors, pruned, overtaken>>
  PROVE  RunbookInv'
  <1>0. cut \in Nat /\ RunbookTypeOK
    BY RunbookNumbers DEF RunbookInv
  <1>1. /\ editors' \in [Editors -> Editor] /\ editors'[e] = new
        /\ \A d \in Editors \ {e} : editors'[d] = editors[d]
    BY <1>0 DEF RunbookTypeOK
  <1>2. RunbookTypeOK'
    BY <1>0, <1>1 DEF RunbookTypeOK
  <1>3. VersionsAreDistinct' /\ CutInOrder' /\ HeadIsNewest'
    BY DEF RunbookInv, VersionsAreDistinct, CutInOrder, HeadIsNewest
  <1>4. MemoriesAreOld'
    BY <1>1 DEF RunbookInv, MemoriesAreOld
  <1>5. HeadsAreNumbered'
    <2>1. \A r \in rows : r.id = document.head => r.number = document.number
      BY <1>0, RunbookNumbers, RunbookConstants DEF RunbookInv, HeadsAreNumbered, VersionsAreDistinct
    <2>2. /\ new.doc.pk # Null
          /\ \A r \in rows : r.id = new.doc.head => r.number = new.doc.number
          /\ new.cached # Null => new.doc.head # Null /\ new.cached = new.doc.number
      BY <2>1 DEF RunbookInv, HeadsAreNumbered
    <2> QED
      BY <1>1, <2>2 DEF RunbookInv, HeadsAreNumbered
  <1>6. NumbersHaveNoGap'
    <2>1. document.head # Null => \E r \in rows : r.id = document.head
      BY DEF RunbookInv, HeadsAreNumbered
    <2>2. ~pruned /\ new.doc.pk = document.pk /\ new.doc.head # Null =>
             \E r \in rows : r.id = new.doc.head
      BY <2>1 DEF RunbookInv, NumbersHaveNoGap
    <2> QED
      BY <1>1, <2>2 DEF RunbookInv, NumbersHaveNoGap
  <1>7. PrunesAreSafe'
    BY DEF RunbookInv, PrunesAreSafe, Newer
  <1>8. HeadlessIsNew'
    <2> SUFFICES ASSUME ~overtaken, document.pk # Null, document.head = Null, NEW d \in Editors,
                        editors'[d].at = "loaded", editors'[d].doc.pk = document.pk
                 PROVE  /\ editors'[d].doc.head = Null /\ editors'[d].doc.number = 1
                        /\ ~editors'[d].doc.typed
      BY DEF HeadlessIsNew
    <2>1. document.number = 1 /\ ~document.typed
      BY <1>0, HeadsAreIds DEF RunbookInv, HeadIsNewest
    <2> QED
      BY <1>1, <2>1 DEF RunbookInv, HeadlessIsNew
  <1>9. CreationsComeFirst'
    <2>1. \A d \in Editors : editors'[d].at # "loaded" => editors'[d] = editors[d]
      BY <1>1
    <2>2. \A d \in Editors : editors'[d].at = "syncing" /\ AwaitsHead(d) => AwaitsHead(d)'
      BY <2>1 DEF AwaitsHead
    <2> QED
      BY <2>1, <2>2 DEF RunbookInv, CreationsComeFirst
  <1> QED
    BY <1>2, <1>3, <1>4, <1>5, <1>6, <1>7, <1>8, <1>9 DEF RunbookInv

\* A request that has just loaded the document holds its head and number.
LEMMA LoadDocumentKeeps ==
  ASSUME RunbookInv, NEW e \in Editors, LoadDocument(e)
  PROVE  RunbookInv'
  <1> DEFINE new == [at |-> "loaded", doc |-> document, cached |-> Null]
  <1>1. /\ new \in Editor /\ new.at = "loaded" /\ new.doc = document /\ new.cached = Null
    BY RunbookAssumption DEF RunbookInv, RunbookTypeOK, Editor, Null
  <1>2. /\ document.pk # Null /\ editors' = [editors EXCEPT ![e] = new]
        /\ UNCHANGED <<document, rows, cut, aged, janitors, pruned, overtaken>>
    BY DEF LoadDocument
  <1> HIDE DEF new
  <1> QED
    BY <1>1, <1>2, LoadedInstanceKeeps

\* The cached head is the one of the instance.
LEMMA ReadHeadKeeps ==
  ASSUME RunbookInv, NEW e \in Editors, ReadHead(e)
  PROVE  RunbookInv'
  <1> DEFINE new == [editors[e] EXCEPT !.cached = editors[e].doc.number]
  <1>0. /\ editors[e] \in Editor /\ editors[e].at = "loaded" /\ VersionsAreDistinct
        /\ editors[e].doc.number \in 0 .. MaxVersions
    BY DEF RunbookInv, RunbookTypeOK, ReadHead, Editor, Documents
  <1>1. PICK r \in rows : r.id = editors[e].doc.head
    BY DEF ReadHead, Present
  <1>2. Row(editors[e].doc.head).number = editors[e].doc.number /\ editors[e].doc.head # Null
    BY <1>0, <1>1, HeadsAreIds, RowIsFound DEF RunbookInv, HeadsAreNumbered
  <1>3. /\ editors' = [editors EXCEPT ![e] = new]
        /\ UNCHANGED <<document, rows, cut, aged, janitors, pruned, overtaken>>
    BY <1>0, <1>2 DEF ReadHead, RunbookInv, RunbookTypeOK
  <1>4. /\ new \in Editor /\ new.at = "loaded" /\ new.doc = editors[e].doc
        /\ new.cached = new.doc.number
    BY <1>0 DEF Editor
  <1> HIDE DEF new
  <1> QED
    BY <1>0, <1>2, <1>3, <1>4, LoadedInstanceKeeps

\* form.save() writes a loaded instance back, its head and number with it.
LEMMA SaveFormKeeps ==
  ASSUME RunbookInv, NEW e \in Editors, SaveForm(e)
  PROVE  RunbookInv'
  <1> DEFINE doc == editors[e].doc
             after == [editors[e] EXCEPT !.doc.idle = FALSE]
  <1>0. /\ RunbookTypeOK /\ editors[e] \in Editor /\ doc \in Documents /\ cut \in Nat
        /\ editors[e].at = "loaded" /\ doc.pk = document.pk
        /\ UNCHANGED <<rows, cut, aged, janitors, pruned>>
        /\ overtaken' = (overtaken \/ doc.head # document.head)
    BY RunbookNumbers DEF RunbookInv, SaveForm, Stale
  <1>1. /\ document' \in Documents /\ document'.pk = document.pk
        /\ document'.head = doc.head /\ document'.number = doc.number
        /\ document'.typed = doc.typed
    BY <1>0 DEF SaveForm, Documents
  <1>2. /\ after \in Editor /\ after.at = editors[e].at /\ after.cached = editors[e].cached
        /\ after.doc.pk = doc.pk /\ after.doc.head = doc.head /\ after.doc.number = doc.number
        /\ after.doc.typed = doc.typed
    BY <1>0 DEF Editor, Documents
  <1>3. editors' = [editors EXCEPT ![e] = NoEditor] \/ editors' = [editors EXCEPT ![e] = after]
    BY <1>0 DEF SaveForm, Done, RunbookTypeOK
  <1>4. doc.head # Null => \E r \in rows : r.id = doc.head /\ r.number = doc.number
    BY <1>0 DEF SaveForm, Present, RunbookInv, HeadsAreNumbered
  <1> HIDE DEF after, doc
  <1>5. /\ editors' \in [Editors -> Editor]
        /\ \A d \in Editors :
              \/ editors'[d] = NoEditor
              \/ /\ editors'[d].at = editors[d].at /\ editors'[d].cached = editors[d].cached
                 /\ editors'[d].doc.pk = editors[d].doc.pk
                 /\ editors'[d].doc.head = editors[d].doc.head
                 /\ editors'[d].doc.number = editors[d].doc.number
                 /\ editors'[d].doc.typed = editors[d].doc.typed
    BY <1>0, <1>2, <1>3, RunbookConstants DEF RunbookTypeOK, doc
  <1>6. CASE doc.head = document.head
    <2>0. document'.number <= cut
      BY <1>1 DEF RunbookInv, MemoriesAreOld, doc
    <2>1. CASE document.head # Null
      <3>1. document'.number = document.number
        BY <1>1, <1>4, <1>6, <2>1 DEF RunbookInv, HeadsAreNumbered, VersionsAreDistinct
      <3> QED
        BY <1>0, <1>1, <1>5, <1>6, <2>0, <2>1, <3>1, QuietWriteKeeps DEF RunbookTypeOK
    <2>2. CASE document.head = Null
      <3>1. document.pk # Null
        BY <1>0 DEF RunbookInv, HeadsAreNumbered, doc
      <3>2. ~overtaken => document.number = 1 /\ ~document.typed
        BY <1>0, <2>2, <3>1, HeadsAreIds DEF RunbookInv, HeadIsNewest
      <3>3. ~overtaken => doc.number = 1 /\ ~doc.typed
        BY <1>0, <2>2, <3>1 DEF RunbookInv, HeadlessIsNew, doc
      <3>4. document.typed \in BOOLEAN /\ doc.typed \in BOOLEAN
        BY <1>0 DEF RunbookTypeOK, Documents
      <3>5. ~overtaken => document'.number = document.number /\ document'.typed = document.typed
        BY <1>1, <3>2, <3>3, <3>4
      <3> QED
        BY <1>0, <1>1, <1>5, <1>6, <2>0, <2>2, <3>5, QuietWriteKeeps DEF RunbookTypeOK
    <2> QED
      BY <2>1, <2>2
  <1>7. CASE doc.head # document.head
    <2>1. RunbookTypeOK'
      BY <1>0, <1>1, <1>5 DEF RunbookTypeOK
    <2>2. VersionsAreDistinct'
      BY <1>0 DEF RunbookInv, VersionsAreDistinct
    <2>3. MemoriesAreOld'
      <3>1. \A d \in Editors : (/\ editors[d].doc.pk <= cut /\ editors[d].doc.head <= cut
                                /\ editors[d].doc.number <= cut)'
        BY <1>0, <1>5, RunbookConstants DEF RunbookInv, MemoriesAreOld
      <3>2. /\ document'.pk <= cut /\ document'.head <= cut /\ document'.number <= cut
        BY <1>1 DEF RunbookInv, MemoriesAreOld, doc
      <3> QED
        BY <1>0, <3>1, <3>2 DEF RunbookInv, MemoriesAreOld
    <2>4. HeadsAreNumbered'
      BY <1>0, <1>1, <1>4, <1>5, RunbookConstants DEF RunbookInv, HeadsAreNumbered
    <2>5. NumbersHaveNoGap'
      BY <1>0, <1>1, <1>5, RunbookConstants DEF RunbookInv, NumbersHaveNoGap
    <2>6. overtaken' = TRUE
      BY <1>0, <1>7
    <2>7. CutInOrder' /\ HeadIsNewest' /\ PrunesAreSafe' /\ HeadlessIsNew'
      BY <2>6 DEF CutInOrder, HeadIsNewest, PrunesAreSafe, HeadlessIsNew
    <2>8. CreationsComeFirst'
      BY <1>5, <2>6, RunbookConstants DEF RunbookInv, CreationsComeFirst
    <2> QED
      BY <2>1, <2>2, <2>3, <2>4, <2>5, <2>7, <2>8 DEF RunbookInv
  <1> QED
    BY <1>6, <1>7

\* A creator's version 1 is its document's first, unless another request's was
\* pruned meanwhile (overtaken).
LEMMA InsertFirstKeeps ==
  ASSUME RunbookInv, NEW e \in Editors, InsertFirst(e)
  PROVE  RunbookInv'
  <1> DEFINE first == [id |-> cut + 1, number |-> 1]
             new == [editors[e] EXCEPT !.at = "syncing", !.doc.head = cut + 1]
  <1>0. /\ RunbookTypeOK /\ cut \in Nat /\ cut' = cut + 1 /\ MaxVersions \in Nat
        /\ cut < MaxVersions /\ editors[e].at = "creating" /\ editors[e] \in Editor
        /\ document.pk = editors[e].doc.pk /\ document.pk # Null /\ Unused(1)
        /\ UNCHANGED <<document, aged, janitors, pruned>>
        /\ overtaken' = (overtaken \/ document.head # Null)
    BY RunbookNumbers DEF RunbookInv, InsertFirst, Fresh, HeadsAreNumbered
  <1>1. /\ rows' = rows \cup {first} /\ first.id = cut + 1 /\ first.number = 1
        /\ first \in DocumentVersion
    BY <1>0 DEF InsertFirst, Fresh, DocumentVersion, Ids
  <1>2. /\ new \in Editor /\ new.at = "syncing" /\ new.cached = editors[e].cached
        /\ new.doc.pk = document.pk /\ new.doc.head = cut + 1
        /\ new.doc.number = editors[e].doc.number
    <2>1. cut + 1 \in 0 .. MaxVersions
      BY <1>0
    <2> QED
      BY <1>0, <2>1 DEF Editor, Documents
  <1>3. editors' = [editors EXCEPT ![e] = new]
    BY <1>0 DEF InsertFirst, Fresh, RunbookTypeOK
  <1> HIDE DEF first, new
  <1>4. /\ editors' \in [Editors -> Editor] /\ editors'[e] = new
        /\ \A d \in Editors \ {e} : editors'[d] = editors[d]
    BY <1>2, <1>3, EditorMoves
  <1>5. /\ \A r \in rows : /\ r.id \in Nat /\ r.number \in Nat
                           /\ r.id <= cut /\ r.number <= cut /\ r.number # 1
        /\ IsFiniteSet(rows)
    BY <1>0, RunbookNumbers DEF RunbookInv, VersionsAreDistinct, Unused
  <1>6. ASSUME ~overtaken' PROVE ~overtaken /\ document.head = Null /\ rows = {}
    <2>1. ~overtaken /\ document.head = Null
      BY <1>0, <1>6
    <2>2. \A r \in rows : r.number = 1
      BY <1>0, <2>1, HeadsAreIds DEF RunbookInv, HeadIsNewest
    <2> QED
      BY <1>5, <2>1, <2>2
  <1>7. RunbookTypeOK'
    <2>1. overtaken' \in BOOLEAN
      BY <1>0
    <2>2. cut' \in 0 .. MaxVersions
      BY <1>0
    <2> QED
      BY <1>0, <1>1, <1>4, <2>1, <2>2 DEF RunbookTypeOK
  <1>8. VersionsAreDistinct'
    <2>1. IsFiniteSet(rows')
      BY <1>1, <1>5, FS_AddElement
    <2>2. \A r \in rows' : r.id <= cut + 1 /\ r.number <= cut + 1
      BY <1>0, <1>1, <1>5
    <2>3. \A r, q \in rows' : r.id = q.id \/ r.number = q.number => r = q
      BY <1>0, <1>1, <1>5 DEF RunbookInv, VersionsAreDistinct
    <2>4. \A a \in aged : a <= cut + 1 /\ \A r \in rows' : r.id <= a => r.id \in aged
      BY <1>0, <1>1, <1>5, RunbookNumbers DEF RunbookInv, VersionsAreDistinct
    <2> QED
      BY <1>0, <2>1, <2>2, <2>3, <2>4 DEF VersionsAreDistinct
  <1>9. MemoriesAreOld'
    <2>1. \A d \in Editors : /\ editors'[d].doc.pk <= cut + 1 /\ editors'[d].doc.head <= cut + 1
                             /\ editors'[d].doc.number <= cut + 1
      BY <1>0, <1>2, <1>4, RunbookNumbers DEF RunbookInv, MemoriesAreOld
    <2>2. \A j \in Janitors : /\ janitors[j].doc.pk <= cut + 1
                              /\ \A i \in janitors[j].doomed : i <= cut + 1
      BY <1>0, RunbookNumbers DEF RunbookInv, MemoriesAreOld
    <2>3. document.pk <= cut + 1 /\ document.head <= cut + 1 /\ document.number <= cut + 1
      BY <1>0, RunbookNumbers DEF RunbookInv, MemoriesAreOld
    <2> QED
      BY <1>0, <2>1, <2>2, <2>3 DEF MemoriesAreOld
  <1>10. \A d \in Editors \ {e} : \A r \in rows' : r.id = editors[d].doc.head => r \in rows
    BY <1>0, <1>1, RunbookNumbers DEF RunbookInv, MemoriesAreOld
  <1>11. HeadsAreNumbered'
    <2>1. \A d \in Editors : editors'[d].at # "idle" =>
            /\ editors'[d].doc.pk # Null
            /\ \A r \in rows' : r.id = editors'[d].doc.head => r.number = editors'[d].doc.number
            /\ editors'[d].cached # Null =>
                  editors'[d].doc.head # Null /\ editors'[d].cached = editors'[d].doc.number
            /\ editors'[d].at # "loaded" => editors'[d].doc.number = 1
      <3>1. /\ new.doc.pk # Null /\ new.doc.number = 1
            /\ new.cached # Null => new.doc.head # Null /\ new.cached = new.doc.number
        BY <1>0, <1>2, RunbookConstants DEF RunbookInv, HeadsAreNumbered
      <3>2. \A r \in rows' : r.id = cut + 1 => r.number = 1
        BY <1>0, <1>1, <1>5
      <3> QED
        BY <1>2, <1>4, <1>10, <3>1, <3>2 DEF RunbookInv, HeadsAreNumbered
    <2> QED
      BY <1>0, <1>1, <2>1 DEF RunbookInv, HeadsAreNumbered
  <1>12. NumbersHaveNoGap'
    <2> SUFFICES ASSUME ~pruned PROVE NumbersHaveNoGap'
      BY <1>0 DEF NumbersHaveNoGap
    <2>1. \A k \in 1 .. 1 : k = 1
      OBVIOUS
    <2>2. \A r \in rows' : \A k \in 1 .. r.number : \E q \in rows' : q.number = k
      BY <1>1, <2>1 DEF RunbookInv, NumbersHaveNoGap
    <2>3. \A d \in Editors :
             editors'[d].at = "loaded" /\ editors'[d].doc.pk = document.pk
                /\ editors'[d].doc.head # Null =>
                 \E r \in rows' : r.id = editors'[d].doc.head
      BY <1>1, <1>2, <1>4 DEF RunbookInv, NumbersHaveNoGap
    <2> QED
      BY <1>0, <2>2, <2>3 DEF NumbersHaveNoGap
  <1>13. HeadlessIsNew'
    BY <1>0, <1>2, <1>4, <1>6 DEF RunbookInv, HeadlessIsNew
  <1>14. CreationsComeFirst'
    <2>1. \A d \in Editors : editors'[d].at \in {"creating", "syncing"} =>
             /\ editors[d].at \in {"creating", "syncing"}
             /\ editors'[d].doc.pk = editors[d].doc.pk
      BY <1>0, <1>2, <1>4
    <2>2. ASSUME ~overtaken', NEW d \in Editors, editors'[d].at = "syncing",
                 editors'[d].doc.pk = document.pk
          PROVE  AwaitsHead(d)'
      <3>1. d = e
        BY <1>0, <2>1, <2>2 DEF RunbookInv, CreationsComeFirst
      <3>2. editors'[d].doc.head = cut + 1
        BY <1>2, <1>4, <3>1
      <3>3. rows' = {[id |-> cut + 1, number |-> 1]}
        BY <1>1, <1>6, <2>2 DEF first
      <3>4. cut + 1 \notin aged /\ \A j \in Janitors : cut + 1 \notin janitors[j].doomed
        BY <1>0, RunbookNumbers DEF RunbookInv, MemoriesAreOld, VersionsAreDistinct
      <3> QED
        BY <1>0, <1>6, <2>2, <3>2, <3>3, <3>4 DEF AwaitsHead
    <2> QED
      BY <1>0, <2>1, <2>2 DEF RunbookInv, CreationsComeFirst
  <1>15. CutInOrder' /\ HeadIsNewest'
    <2> SUFFICES ASSUME ~overtaken' PROVE CutInOrder' /\ HeadIsNewest'
      BY DEF CutInOrder, HeadIsNewest
    <2>1. rows' = {first} /\ ~overtaken /\ document.head = Null
      BY <1>1, <1>6
    <2>2. document.number = 1 /\ ~document.typed
      BY <1>0, <2>1, HeadsAreIds DEF RunbookInv, HeadIsNewest
    <2> QED
      BY <1>0, <1>1, <2>1, <2>2 DEF CutInOrder, HeadIsNewest
  <1>16. PrunesAreSafe'
    <2> SUFFICES ASSUME ~overtaken' PROVE PrunesAreSafe'
      BY DEF PrunesAreSafe
    <2>1. rows' = {first} /\ document.head = Null
      BY <1>1, <1>6
    <2>2. \A j \in Janitors : cut + 1 \notin janitors[j].doomed
      BY <1>0, RunbookNumbers DEF RunbookInv, MemoriesAreOld
    <2>3. Null \notin aged /\ \A j \in Janitors : Null \notin janitors[j].doomed
      BY <1>0, HeadsAreIds
    <2> QED
      BY <1>0, <1>1, <2>1, <2>2, <2>3 DEF PrunesAreSafe
  <1> QED
    BY <1>7, <1>8, <1>9, <1>11, <1>12, <1>13, <1>14, <1>15, <1>16 DEF RunbookInv

\* _sync_head makes the only version the head, or takes the head back from a
\* newer one (overtaken).
LEMMA SyncHeadKeeps ==
  ASSUME RunbookInv, NEW e \in Editors, SyncHead(e)
  PROVE  RunbookInv'
  <1> DEFINE head == editors[e].doc.head
  <1>0. /\ RunbookTypeOK /\ cut \in Nat /\ editors[e].at = "syncing" /\ document.pk = editors[e].doc.pk
        /\ document.pk # Null /\ UNCHANGED <<rows, cut, aged, janitors, pruned>>
        /\ overtaken' = (overtaken \/ document.head # Null)
        /\ editors' = [editors EXCEPT ![e] = NoEditor]
        /\ head \in 0 .. MaxVersions /\ head <= cut /\ editors[e].doc.number = 1
    BY RunbookNumbers
       DEF RunbookInv, SyncHead, Done, HeadsAreNumbered, MemoriesAreOld, RunbookTypeOK, Editor,
           Documents
  <1>1. PICK r \in rows : r.id = head
    BY DEF SyncHead, Present
  <1>2. r.number = 1 /\ head # Null /\ 1 <= cut
    BY <1>0, <1>1, HeadsAreIds DEF RunbookInv, HeadsAreNumbered, VersionsAreDistinct
  <1>3. /\ document' \in Documents /\ document'.pk = document.pk /\ document'.head = head
        /\ document'.number = 1
    <2>1. document' = [document EXCEPT !.head = head, !.number = 1, !.typed = TRUE, !.idle = FALSE]
      BY DEF SyncHead
    <2>2. document \in Documents /\ 1 \in 0 .. MaxVersions
      BY <1>0, <1>2, RunbookAssumption DEF RunbookTypeOK
    <2> QED
      BY <1>0, <2>1, <2>2 DEF Documents
  <1>4. /\ editors' \in [Editors -> Editor]
        /\ \A d \in Editors : editors'[d].at # "idle" => d # e /\ editors'[d] = editors[d]
        /\ \A d \in Editors : editors'[d] = NoEditor \/ editors'[d] = editors[d]
    BY <1>0, EditorMoves, RunbookConstants
  <1>5. ~overtaken' => ~overtaken /\ AwaitsHead(e)
    BY <1>0 DEF RunbookInv, CreationsComeFirst
  <1> HIDE DEF head
  <1>6. RunbookTypeOK'
    <2>1. overtaken' \in BOOLEAN
      BY <1>0
    <2> QED
      BY <1>0, <1>3, <1>4, <2>1 DEF RunbookTypeOK
  <1>7. VersionsAreDistinct'
    BY <1>0 DEF RunbookInv, VersionsAreDistinct
  <1>8. MemoriesAreOld'
    <2>1. \A d \in Editors : /\ editors'[d].doc.pk <= cut /\ editors'[d].doc.head <= cut
                             /\ editors'[d].doc.number <= cut
      BY <1>0, <1>4, RunbookConstants DEF RunbookInv, MemoriesAreOld
    <2> QED
      BY <1>0, <1>2, <1>3, <2>1 DEF RunbookInv, MemoriesAreOld
  <1>9. HeadsAreNumbered'
    BY <1>0, <1>1, <1>2, <1>3, <1>4 DEF RunbookInv, HeadsAreNumbered
  <1>10. NumbersHaveNoGap' /\ HeadlessIsNew'
    BY <1>0, <1>2, <1>3, <1>4 DEF RunbookInv, NumbersHaveNoGap, HeadlessIsNew
  <1>11. CreationsComeFirst'
    <2>1. \A d \in Editors : editors'[d].at = "syncing" => editors'[d].doc.pk # document'.pk
      BY <1>0, <1>3, <1>4 DEF RunbookInv, CreationsComeFirst
    <2> QED
      BY <1>4, <2>1 DEF RunbookInv, CreationsComeFirst
  <1>12. CutInOrder'
    BY <1>0 DEF RunbookInv, CutInOrder
  <1>13. HeadIsNewest' /\ PrunesAreSafe'
    <2> SUFFICES ASSUME ~overtaken' PROVE HeadIsNewest' /\ PrunesAreSafe'
      BY DEF HeadIsNewest, PrunesAreSafe
    <2>1. /\ ~overtaken /\ rows = {[id |-> head, number |-> 1]} /\ head \notin aged
          /\ \A j \in Janitors : head \notin janitors[j].doomed
      BY <1>5 DEF AwaitsHead, head
    <2>2. HeadIsNewest'
      BY <1>0, <1>1, <1>2, <1>3, <2>1 DEF HeadIsNewest
    <2>3. PrunesAreSafe'
      BY <1>0, <1>3, <2>1 DEF PrunesAreSafe
    <2> QED
      BY <2>2, <2>3
  <1> QED
    BY <1>6, <1>7, <1>8, <1>9, <1>10, <1>11, <1>12, <1>13 DEF RunbookInv

-----------------------------------------------------------------------------
\* Among versions there is one with the highest number.
LEMMA HighestExists ==
  ASSUME NEW S \in SUBSET DocumentVersion, S # {}
  PROVE  \E d \in S : \A q \in S : q.number <= d.number
  <1> DEFINE T == {MaxVersions - q.number : q \in S}
             R == OpToRel(<, Nat)
  <1>1. \A q \in S : q.number \in Nat /\ MaxVersions - q.number \in Nat
    BY RunbookAssumption DEF DocumentVersion, Ids
  <1>2. T \subseteq Nat /\ T # {}
    BY <1>1
  <1>3. IsWellFoundedOn(R, Nat)
    BY NatLessThanWellFounded
  <1>4. PICK x \in T : \A y \in T : ~(<<y, x>> \in R)
    <2> HIDE DEF T, R
    <2> QED
      BY <1>2, <1>3, WFMin
  <1>5. \A y \in T : ~(y < x)
    BY <1>2, <1>4 DEF OpToRel
  <1>6. PICK d \in S : x = MaxVersions - d.number
    BY <1>4
  <1>7. \A q \in S : ~(MaxVersions - q.number < MaxVersions - d.number)
    BY <1>5, <1>6
  <1> QED
    BY <1>1, <1>7, RunbookAssumption

\* A prune that deletes only what enough newer versions stand above leaves as
\* many above any version: those above the highest one deleted.
LEMMA NewestSurvive ==
  ASSUME IsFiniteSet(rows), rows \subseteq DocumentVersion, NEW r \in rows, NEW gone,
         Cardinality(Newer(r)) >= Keep,
         \A q \in Newer(r) : q.id \in gone => Cardinality(Newer(q)) >= Keep
  PROVE  Cardinality({q \in Newer(r) : q.id \notin gone}) >= Keep
  <1> DEFINE kept == {q \in Newer(r) : q.id \notin gone}
             lost == {q \in Newer(r) : q.id \in gone}
  <1>1. CASE lost = {}
    <2>1. kept = Newer(r)
      BY <1>1
    <2> QED
      BY <2>1
  <1>2. CASE lost # {}
    <2>1. PICK d \in lost : \A q \in lost : q.number <= d.number
      <3>1. lost \in SUBSET DocumentVersion
        BY DEF Newer
      <3> HIDE DEF lost
      <3> QED
        BY <1>2, <3>1, HighestExists
    <2>2. \A q \in rows : q.number \in Nat
      BY RunbookAssumption DEF DocumentVersion, Ids
    <2>3. Newer(d) \subseteq kept
      BY <2>1, <2>2 DEF Newer
    <2>4. IsFiniteSet(kept)
      BY FS_Subset DEF Newer
    <2>5. /\ Cardinality(Newer(d)) <= Cardinality(kept)
          /\ IsFiniteSet(Newer(d))
      BY <2>3, <2>4, FS_Subset
    <2>6. Cardinality(Newer(d)) >= Keep
      BY <2>1
    <2>7. Cardinality(kept) \in Nat /\ Cardinality(Newer(d)) \in Nat
      BY <2>4, <2>5, FS_CardinalityType
    <2>8. Cardinality(kept) >= Keep
      <3> HIDE DEF kept
      <3> QED
        BY <2>5, <2>6, <2>7, RunbookAssumption
    <2> QED
      BY <2>8
  <1> QED
    BY <1>1, <1>2

\* A step of one janitor leaves the others alone.
LEMMA JanitorMoves ==
  ASSUME RunbookInv, NEW j \in Janitors, NEW new \in Janitor,
         janitors' = [janitors EXCEPT ![j] = new]
  PROVE  /\ janitors' \in [Janitors -> Janitor] /\ janitors'[j] = new
         /\ \A k \in Janitors \ {j} : janitors'[k] = janitors[k]
  BY DEF RunbookInv, RunbookTypeOK

\* A janitor goes on with nothing written: what it has now must be safe.
LEMMA JanitorReadKeeps ==
  ASSUME RunbookInv, NEW j \in Janitors, NEW new \in Janitor,
         janitors' = [janitors EXCEPT ![j] = new],
         UNCHANGED <<document, rows, cut, aged, editors, pruned, overtaken>>,
         new.doc.pk <= cut, \A i \in new.doomed : i <= cut,
         ~overtaken /\ document.pk # Null =>
            /\ new.at = "list" => new.doc.head = document.head
            /\ new.at = "delete" =>
                  /\ document.head \notin new.doomed
                  /\ \A r \in rows : r.id \in new.doomed \ aged => Cardinality(Newer(r)) >= Keep,
         \A e \in Editors : AwaitsHead(e) => editors[e].doc.head \notin new.doomed
  PROVE  RunbookInv'
  <1>1. /\ janitors' \in [Janitors -> Janitor] /\ janitors'[j] = new
        /\ \A k \in Janitors \ {j} : janitors'[k] = janitors[k]
    BY JanitorMoves
  <1>2. RunbookTypeOK'
    BY <1>1 DEF RunbookInv, RunbookTypeOK
  <1>3. /\ VersionsAreDistinct' /\ HeadsAreNumbered' /\ NumbersHaveNoGap' /\ HeadlessIsNew'
        /\ CutInOrder' /\ HeadIsNewest'
    BY DEF RunbookInv, VersionsAreDistinct, HeadsAreNumbered, NumbersHaveNoGap, HeadlessIsNew,
           CutInOrder, HeadIsNewest
  <1>4. MemoriesAreOld'
    BY <1>1 DEF RunbookInv, MemoriesAreOld
  <1>5. PrunesAreSafe'
    BY <1>1 DEF RunbookInv, PrunesAreSafe, Newer
  <1>6. CreationsComeFirst'
    <2>1. \A e \in Editors : AwaitsHead(e) => AwaitsHead(e)'
      BY <1>1 DEF AwaitsHead
    <2> QED
      BY <2>1 DEF RunbookInv, CreationsComeFirst
  <1> QED
    BY <1>2, <1>3, <1>4, <1>5, <1>6 DEF RunbookInv

\* A janitor that has just loaded the document has doomed nothing.
LEMMA JanitorLoadsKeeps ==
  ASSUME RunbookInv, NEW j \in Janitors, NEW sweep \in BOOLEAN, JanitorLoads(j, sweep)
  PROVE  RunbookInv'
  <1> DEFINE new == [at |-> "list", doc |-> document, doomed |-> {}, sweep |-> sweep]
  <1>1. new \in Janitor /\ new.at = "list" /\ new.doc = document /\ new.doomed = {}
    BY DEF RunbookInv, RunbookTypeOK, Janitor
  <1>2. /\ janitors' = [janitors EXCEPT ![j] = new]
        /\ UNCHANGED <<document, rows, cut, aged, editors, pruned, overtaken>>
    BY DEF JanitorLoads
  <1>3. document.pk <= cut
    BY DEF RunbookInv, MemoriesAreOld
  <1> HIDE DEF new
  <1> QED
    BY <1>1, <1>2, <1>3, JanitorReadKeeps

\* What a janitor lists for deletion has aged, or enough newer versions.
LEMMA JanitorListsKeeps ==
  ASSUME RunbookInv, NEW j \in Janitors, JanitorLists(j)
  PROVE  RunbookInv'
  <1> DEFINE doomed == IF document.pk = janitors[j].doc.pk THEN Doomed(janitors[j].doc) ELSE {}
             new == [janitors[j] EXCEPT !.at = "delete", !.doomed = doomed]
  <1>0. /\ RunbookTypeOK /\ janitors[j] \in Janitor /\ cut \in Nat /\ janitors[j].at = "list"
        /\ UNCHANGED <<document, rows, cut, aged, editors, pruned, overtaken>>
    BY RunbookNumbers DEF RunbookInv, JanitorLists
  <1>1. \A i \in doomed : \E r \in rows :
            /\ r.id = i /\ i # janitors[j].doc.head /\ document.pk = janitors[j].doc.pk
            /\ i \in aged \/ Cardinality(Newer(r)) >= Keep
    BY DEF Doomed, Superseded, Newer
  <1> HIDE DEF doomed
  <1>2. doomed \subseteq Ids /\ \A i \in doomed : i <= cut
    BY <1>0, <1>1, RunbookNumbers DEF RunbookInv, VersionsAreDistinct
  <1>3. /\ new \in Janitor /\ new.at = "delete" /\ new.doomed = doomed
        /\ new.doc = janitors[j].doc
    BY <1>0, <1>2 DEF Janitor
  <1>4. janitors' = [janitors EXCEPT ![j] = new]
    BY <1>0 DEF JanitorLists, RunbookTypeOK, doomed
  <1>5. janitors[j].doc.pk <= cut
    BY DEF RunbookInv, MemoriesAreOld
  <1>6. \A r \in rows : r.id \in doomed \ aged => Cardinality(Newer(r)) >= Keep
    BY <1>1 DEF RunbookInv, VersionsAreDistinct
  <1>7. ASSUME NEW e \in Editors, AwaitsHead(e), editors[e].doc.head \in doomed PROVE FALSE
    <2>1. PICK r \in rows : r.id = editors[e].doc.head /\ Cardinality(Newer(r)) >= Keep
      BY <1>1, <1>7 DEF AwaitsHead
    <2>2. Newer(r) = {}
      BY <1>7 DEF Newer, AwaitsHead
    <2> QED
      BY <2>1, <2>2, FS_EmptySet, RunbookAssumption
  <1>8. ASSUME ~overtaken, document.pk # Null PROVE document.head \notin doomed
    <2>0. CASE document.head = Null
      BY <1>2, <2>0, RunbookConstants
    <2> SUFFICES ASSUME document.head # Null PROVE document.head \notin doomed
      BY <2>0
    <2>1. PICK h \in rows : h.id = document.head /\ \A q \in rows : q.number <= h.number
      BY <1>8 DEF RunbookInv, HeadIsNewest
    <2>2. Newer(h) = {}
      BY <1>0, <2>1, RunbookNumbers DEF Newer
    <2>3. ~(Cardinality(Newer(h)) >= Keep)
      BY <2>2, FS_EmptySet, RunbookAssumption
    <2> SUFFICES ASSUME document.head \in doomed PROVE FALSE
      OBVIOUS
    <2>4. /\ document.head # janitors[j].doc.head /\ document.pk = janitors[j].doc.pk
          /\ document.head \in aged \/ Cardinality(Newer(h)) >= Keep
      BY <1>1, <2>1 DEF RunbookInv, VersionsAreDistinct
    <2> QED
      BY <1>0, <1>8, <2>3, <2>4 DEF RunbookInv, PrunesAreSafe
  <1> HIDE DEF new
  <1> QED
    BY <1>0, <1>2, <1>3, <1>4, <1>5, <1>6, <1>7, <1>8, JanitorReadKeeps

\* prune_versions deletes its list: neither the head nor a young version that
\* is still among the newest is on it, and what other janitors have listed
\* stays as safe as it was.
LEMMA JanitorDeletesKeeps ==
  ASSUME RunbookInv, NEW j \in Janitors, JanitorDeletes(j)
  PROVE  RunbookInv'
  <1> DEFINE gone == janitors[j].doomed
             new == IF janitors[j].sweep THEN [janitors[j] EXCEPT !.at = "expire", !.doomed = {}]
                    ELSE NoJanitor
  <1>0. /\ RunbookTypeOK /\ VersionsAreDistinct /\ janitors[j] \in Janitor /\ cut \in Nat
        /\ janitors[j].at = "delete" /\ UNCHANGED <<cut, aged, editors, overtaken>>
        /\ rows' = {r \in rows : r.id \notin gone}
        /\ pruned' = (pruned \/ rows' # rows)
        /\ gone \subseteq Ids
    BY RunbookNumbers DEF RunbookInv, JanitorDeletes, Janitor
  <1>1. /\ new \in Janitor /\ new.at \in {"idle", "expire"} /\ new.doomed = {}
        /\ new.doc.pk <= cut
    <2>1. janitors[j].doc.pk <= cut /\ 0 <= cut
      BY <1>0 DEF RunbookInv, MemoriesAreOld
    <2> QED
      BY <1>0, <2>1, RunbookConstants DEF Janitor
  <1>2. janitors' = [janitors EXCEPT ![j] = new]
    BY DEF JanitorDeletes
  <1>3. /\ document' \in Documents /\ document'.pk = document.pk /\ document'.number = document.number
        /\ document'.typed = document.typed
        /\ document'.head = IF document.head \in gone THEN Null ELSE document.head
    BY <1>0, RunbookAssumption DEF JanitorDeletes, RunbookTypeOK, Documents, Null
  <1> HIDE DEF new
  <1>4. /\ janitors' \in [Janitors -> Janitor] /\ janitors'[j] = new
        /\ \A k \in Janitors \ {j} : janitors'[k] = janitors[k]
    BY <1>1, <1>2, JanitorMoves
  <1>5. rows' \subseteq rows /\ IsFiniteSet(rows) /\ rows \subseteq DocumentVersion
    BY <1>0 DEF VersionsAreDistinct, RunbookTypeOK
  <1>6. RunbookTypeOK'
    <2>1. pruned' \in BOOLEAN
      BY <1>0
    <2> QED
      BY <1>0, <1>3, <1>4, <1>5, <2>1 DEF RunbookTypeOK
  <1>7. VersionsAreDistinct'
    BY <1>0, <1>5, FS_Subset DEF VersionsAreDistinct
  <1>8. MemoriesAreOld'
    BY <1>0, <1>1, <1>3, <1>4, RunbookConstants DEF RunbookInv, MemoriesAreOld
  <1>9. HeadsAreNumbered'
    BY <1>0, <1>3, <1>5 DEF RunbookInv, HeadsAreNumbered
  <1>10. NumbersHaveNoGap'
    <2> SUFFICES ASSUME ~pruned' PROVE NumbersHaveNoGap'
      BY DEF NumbersHaveNoGap
    <2>1. ~pruned /\ rows' = rows
      BY <1>0
    <2> QED
      BY <1>0, <1>3, <2>1 DEF RunbookInv, NumbersHaveNoGap
  <1>11. CutInOrder'
    BY <1>0, <1>5 DEF RunbookInv, CutInOrder
  <1>12. ~overtaken /\ document.pk # Null => document'.head = document.head
    BY <1>0, <1>3 DEF RunbookInv, PrunesAreSafe
  <1>13. HeadIsNewest'
    <2> SUFFICES ASSUME ~overtaken, document.pk # Null PROVE HeadIsNewest'
      BY <1>0, <1>3 DEF HeadIsNewest
    <2>1. document.head \notin gone
      BY <1>0 DEF RunbookInv, PrunesAreSafe
    <2> QED
      BY <1>0, <1>3, <1>12, <2>1 DEF RunbookInv, HeadIsNewest
  <1>14. PrunesAreSafe'
    <2> SUFFICES ASSUME ~overtaken, document.pk # Null, NEW k \in Janitors
                 PROVE  /\ janitors'[k].at = "list" /\ janitors'[k].doc.pk = document.pk
                              /\ document.head \in aged => document.head = janitors'[k].doc.head
                        /\ janitors'[k].at = "delete" =>
                              /\ document.head \notin janitors'[k].doomed
                              /\ \A r \in rows' : r.id \in janitors'[k].doomed \ aged =>
                                    Cardinality(Newer(r)') >= Keep
      BY <1>0, <1>3, <1>12 DEF PrunesAreSafe
    <2>1. CASE k = j
      BY <1>1, <1>4, <2>1
    <2>2. CASE k # j
      <3>1. janitors'[k] = janitors[k]
        BY <1>4, <2>2
      <3>2. ASSUME janitors[k].at = "delete", NEW r \in rows', r.id \in janitors[k].doomed \ aged
            PROVE  Cardinality(Newer(r)') >= Keep
        <4>1. r \in rows /\ Cardinality(Newer(r)) >= Keep
          BY <1>5, <3>2 DEF RunbookInv, PrunesAreSafe
        <4>2. \A q \in Newer(r) : q \in rows /\ q.number > r.number
          BY DEF Newer
        <4>3. \A q \in Newer(r) : q.id \notin aged
          <5> TAKE q \in Newer(r)
          <5>1. ~(q.id < r.id)
            BY <1>0, <4>1, <4>2, RunbookNumbers DEF RunbookInv, CutInOrder
          <5>2. q.id \in aged => r.id \in aged
            BY <1>0, <4>1, <4>2, <5>1, RunbookNumbers DEF VersionsAreDistinct
          <5> QED
            BY <3>2, <5>2
        <4>4. \A q \in Newer(r) : q.id \in gone => Cardinality(Newer(q)) >= Keep
          BY <1>0, <4>2, <4>3 DEF RunbookInv, PrunesAreSafe
        <4>5. Newer(r)' = {q \in Newer(r) : q.id \notin gone}
          BY <1>0 DEF Newer
        <4> HIDE DEF gone
        <4> QED
          BY <1>5, <4>1, <4>4, <4>5, NewestSurvive
      <3> QED
        BY <3>1, <3>2 DEF RunbookInv, PrunesAreSafe
    <2> QED
      BY <2>1, <2>2
  <1>15. HeadlessIsNew'
    BY <1>0, <1>3, <1>12 DEF RunbookInv, HeadlessIsNew
  <1>16. CreationsComeFirst'
    <2>1. ASSUME NEW e \in Editors, ~overtaken, editors[e].doc.pk = document.pk, document.pk # Null,
                 AwaitsHead(e)
          PROVE  AwaitsHead(e)'
      <3>1. rows' = rows
        BY <1>0, <2>1 DEF AwaitsHead
      <3>2. \A k \in Janitors : janitors'[k].doomed \subseteq janitors[k].doomed
        BY <1>1, <1>4
      <3> QED
        BY <1>0, <1>12, <2>1, <3>1, <3>2 DEF AwaitsHead
    <2>2. \A e \in Editors : editors[e].at = "syncing" => editors[e].doc.pk # Null
      BY DEF RunbookInv, HeadsAreNumbered
    <2> QED
      BY <1>0, <1>3, <2>1, <2>2 DEF RunbookInv, CreationsComeFirst
  <1> QED
    BY <1>6, <1>7, <1>8, <1>9, <1>10, <1>11, <1>13, <1>14, <1>15, <1>16 DEF RunbookInv

\* No instance is held that long, and nothing that exists stays young.
LEMMA DaysPassKeeps ==
  ASSUME RunbookInv, DaysPass
  PROVE  RunbookInv'
  <1>0. /\ RunbookTypeOK /\ cut \in Nat /\ UNCHANGED <<rows, cut, editors, janitors, pruned, overtaken>>
        /\ \A j \in Janitors : janitors[j].at = "idle"
        /\ \A e \in Editors : editors[e].at = "idle"
        /\ aged' = {r.id : r \in rows}
    BY RunbookNumbers DEF RunbookInv, DaysPass
  <1>1. /\ document' \in Documents /\ document'.pk = document.pk
        /\ document'.head = document.head /\ document'.number = document.number
        /\ document'.typed = document.typed
    BY <1>0 DEF DaysPass, RunbookTypeOK, Documents
  <1>2. RunbookTypeOK'
    BY <1>0, <1>1, RunbookNumbers DEF RunbookTypeOK
  <1>3. VersionsAreDistinct'
    BY <1>0 DEF RunbookInv, VersionsAreDistinct
  <1>4. MemoriesAreOld' /\ HeadsAreNumbered' /\ NumbersHaveNoGap' /\ CutInOrder' /\ HeadIsNewest'
    BY <1>0, <1>1 DEF RunbookInv, MemoriesAreOld, HeadsAreNumbered, NumbersHaveNoGap, CutInOrder,
                      HeadIsNewest
  <1>5. PrunesAreSafe' /\ HeadlessIsNew' /\ CreationsComeFirst'
    BY <1>0, <1>1 DEF PrunesAreSafe, HeadlessIsNew, CreationsComeFirst
  <1> QED
    BY <1>2, <1>3, <1>4, <1>5 DEF RunbookInv

\* The steps that move no head.
LEMMA QuietStepsKeep ==
  ASSUME RunbookInv,
         \/ PutInPlace \/ ArchiveDocument \/ UnarchiveDocument
         \/ \E e \in Editors : SaveInPlace(e) \/ GiveUp(e)
         \/ UNCHANGED runbookVars
  PROVE  RunbookInv'
  <1>0. /\ document \in Documents /\ editors \in [Editors -> Editor]
        /\ janitors \in [Janitors -> Janitor]
    BY DEF RunbookInv, RunbookTypeOK
  <1>1. /\ document' \in Documents /\ document'.pk = document.pk
        /\ document'.head = document.head /\ document'.number = document.number
        /\ document'.typed = document.typed /\ document.number <= cut
        /\ UNCHANGED <<rows, cut, aged, janitors, pruned, overtaken>>
    BY <1>0 DEF PutInPlace, ArchiveDocument, UnarchiveDocument, SetArchived, SaveInPlace, GiveUp,
                Touch, Documents, runbookVars, RunbookInv, MemoriesAreOld
  <1>2. UNCHANGED editors \/ \E e \in Editors : editors' = [editors EXCEPT ![e] = NoEditor]
    BY DEF PutInPlace, ArchiveDocument, UnarchiveDocument, SetArchived, SaveInPlace, GiveUp,
           Done, runbookVars
  <1>3. /\ editors' \in [Editors -> Editor]
        /\ \A e \in Editors : editors'[e] = NoEditor \/ editors'[e] = editors[e]
    BY <1>0, <1>2, RunbookConstants
  <1> QED
    BY <1>0, <1>1, <1>3, QuietWriteKeeps

\* A document that expires takes its versions along, or stays as it is.
LEMMA JanitorExpiresKeeps ==
  ASSUME RunbookInv, NEW j \in Janitors, JanitorExpires(j)
  PROVE  RunbookInv'
  <1>0. document \in Documents /\ editors \in [Editors -> Editor]
    BY DEF RunbookInv, RunbookTypeOK
  <1>1. /\ janitors' \in [Janitors -> Janitor]
        /\ \A k \in Janitors : janitors'[k] = NoJanitor \/ janitors'[k] = janitors[k]
        /\ UNCHANGED <<cut, aged, editors, pruned, overtaken>>
    BY RunbookConstants, JanitorMoves DEF JanitorExpires
  <1>2. CASE document' = NoDocument /\ rows' = {}
    BY <1>1, <1>2, DeletionKeeps
  <1>3. CASE ~(document' = NoDocument /\ rows' = {})
    <2>1. /\ document' \in Documents /\ document'.pk = document.pk
          /\ document'.head = document.head /\ document'.number = document.number
          /\ document'.typed = document.typed /\ document.number <= cut
          /\ rows' = rows
      BY <1>0, <1>3 DEF JanitorExpires, Documents, RunbookInv, MemoriesAreOld
    <2> QED
      BY <1>0, <1>1, <2>1, QuietWriteKeeps
  <1> QED
    BY <1>2, <1>3

\* Every step keeps the invariant.
LEMMA RunbookPreserved == RunbookInv /\ [RunbookNext]_runbookVars => RunbookInv'
  <1> SUFFICES ASSUME RunbookInv, [RunbookNext]_runbookVars PROVE RunbookInv'
    OBVIOUS
  <1>1. CASE DeleteDocument
    <2>1. janitors \in [Janitors -> Janitor]
      BY DEF RunbookInv, RunbookTypeOK
    <2> QED
      BY <1>1, <2>1, DeletionKeeps DEF DeleteDocument
  <1>2. ASSUME NEW e \in Editors, EditorStep(e) PROVE RunbookInv'
    BY <1>2, CreationsKeep, InsertFirstKeeps, SyncHeadKeeps, LoadDocumentKeeps, ReadHeadKeeps,
       SaveVersionKeeps, SaveFormKeeps, QuietStepsKeep DEF EditorStep
  <1>3. ASSUME NEW j \in Janitors, JanitorStep(j) PROVE RunbookInv'
    BY <1>3, JanitorLoadsKeeps, JanitorListsKeeps, JanitorDeletesKeeps, JanitorExpiresKeeps
       DEF JanitorStep
  <1> QED
    BY <1>1, <1>2, <1>3, CreationsKeep, PutVersionKeeps, DaysPassKeeps, QuietStepsKeep
       DEF RunbookNext

\* The invariant of the runbook's versions (service.py, retention.py,
\* bundle.py, views.py): numbers and ids are unique, heads are the newest, a
\* document without one never had one, and what a prune has listed may go.
THEOREM RunbookInvariant == RunbookSpec => []RunbookInv
  BY RunbookInitially, RunbookPreserved, PTL DEF RunbookSpec

\* HeadIsNewest for any number of requests and janitors: `write_version', the
\* keyed writes of service.py, the statements of create_document, bundle
\* imports and the prunes of retention.py leave the document pointing at its
\* newest version, or without a head that it never had.
THEOREM HeadStaysNewest == RunbookSpec => []HeadIsNewest
  <1>1. RunbookInv => HeadIsNewest
    BY DEF RunbookInv
  <1> QED
    BY <1>1, RunbookInvariant, PTL

\* RecentSurvive for any number of janitors: prune_versions, deciding on a
\* stale instance beside other prunes, deletes no young version that is among
\* the newest max_versions.
THEOREM PrunesSpareRecent == RunbookSpec => RecentSurvive
  <1>1. ASSUME RunbookInv, RunbookNext, NEW j \in Janitors,
               janitors[j].at = "delete", janitors'[j].at # "delete", ~overtaken,
               NEW r \in rows \ rows'
        PROVE  r.id \in aged \/ Cardinality({q \in rows : q.number > r.number}) >= Keep
    <2>1. JanitorDeletes(j)
      <3>1. ASSUME NEW k \in Janitors, JanitorStep(k) PROVE k = j
        <4>1. janitors \in [Janitors -> Janitor]
          BY <1>1 DEF RunbookInv, RunbookTypeOK
        <4>2. \A i \in Janitors \ {k} : janitors'[i] = janitors[i]
          BY <3>1, <4>1
             DEF JanitorStep, JanitorLoads, JanitorLists, JanitorDeletes, JanitorExpires
        <4> QED
          BY <1>1, <4>2
      <3>2. ~UNCHANGED janitors
        BY <1>1
      <3>3. \E k \in Janitors : JanitorStep(k)
        BY <1>1, <3>2
           DEF RunbookNext, CreateDocument, ImportEmpty, InsertDocument, InsertFirst, SyncHead, PutVersion, PutInPlace, ArchiveDocument,
               UnarchiveDocument, SetArchived, DeleteDocument, EditorStep, LoadDocument, ReadHead,
               SaveVersion, SaveInPlace, SaveForm, GiveUp, DaysPass
      <3>4. JanitorStep(j)
        BY <3>1, <3>3
      <3> QED
        BY <1>1, <3>4 DEF JanitorStep, JanitorLoads, JanitorLists, JanitorExpires
    <2>2. r.id \in janitors[j].doomed /\ document.pk # Null
      BY <1>1, <2>1 DEF JanitorDeletes, RunbookInv, HeadsAreNumbered
    <2> QED
      BY <1>1, <2>2 DEF RunbookInv, PrunesAreSafe, Newer
  <1>2. RunbookInv /\ [RunbookNext]_runbookVars =>
            [\A j \in Janitors :
               janitors[j].at = "delete" /\ janitors'[j].at # "delete" /\ ~overtaken =>
                  \A r \in rows \ rows' :
                     r.id \in aged \/ Cardinality({q \in rows : q.number > r.number}) >= Keep]_runbookVars
    BY <1>1
  <1> QED
    BY <1>2, RunbookInvariant, PTL DEF RunbookSpec, RecentSurvive
=============================================================================
