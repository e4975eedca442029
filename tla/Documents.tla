----------------------------- MODULE Documents -----------------------------
(***************************************************************************)
(* modules/projects/service.py, the documents of one project: what is      *)
(* uploaded, created, revised, and attached to the document gates of a     *)
(* stage as the evidence that satisfies them.                              *)
(***************************************************************************)
EXTENDS Integers, Sequences

CONSTANTS
  Writer,     \* requests that may be under way at once
  File,       \* files that may be uploaded
  DocGate,    \* the document gates of the stage
  MaxDocs,    \* bound on the documents
  MaxWrites,  \* bound on the requests
  MaxBreaks   \* bound on the crashes

ASSUME SourceAssumption == "url" \notin File /\ "none" \notin DocGate
ASSUME DocumentBounds == {MaxDocs, MaxWrites, MaxBreaks} \subseteq Nat

VARIABLES
  archived,  \* the project is frozen
  stored,    \* the files in GridFS
  docs2,     \* the documents: [versions, current], a version is [v, source]
  stage,     \* the stage: documents_supplied, and the evidence of each gate
  job,       \* per request: what it does, its next call, what it has read
  revised,   \* history: the revisions of each document that were answered
  answered,  \* history: the gates whose evidence was accepted
  crossed,   \* history: the documents that two revisions overlapped on
  raced,     \* history: two requests supplied documents to the stage at once
  writes, breaks   \* history: how many requests and crashes there were

documentVars == <<archived, stored, docs2, stage, job, revised, answered, crossed, raced, writes, breaks>>

Places == 1 .. MaxDocs
NoStage == [supplied |-> {}, refs |-> [g \in DocGate |-> 0]]
Resting == [op |-> "idle", doc |-> 0, gate |-> "none", source |-> "url", v |-> 0, read |-> NoStage]
Working == {w \in Writer : job[w].op # "idle"}

Continue(w, j) == job' = [job EXCEPT ![w] = j] /\ UNCHANGED writes
Finish(w)      == Continue(w, Resting)
(* _project refuses to change an archived project.                          *)
Start2(w, j) ==
  /\ ~ archived /\ job[w].op = "idle"
  /\ writes < MaxWrites /\ writes' = writes + 1
  /\ job' = [job EXCEPT ![w] = j]

(* _make_version: an upload refers to a stored file.                        *)
Sourced(source) == source = "url" \/ source \in stored
Version(v, source) == [v |-> v, source |-> source]
-----------------------------------------------------------------------------
DocumentsInit ==
  /\ archived = FALSE /\ stored = {} /\ docs2 = <<>> /\ stage = NoStage
  /\ job = [w \in Writer |-> Resting]
  /\ revised = [d \in Places |-> 0] /\ answered = {} /\ crossed = {} /\ raced = FALSE
  /\ writes = 0 /\ breaks = 0

SetArchived(frozen) ==
  /\ archived # frozen /\ archived' = frozen
  /\ UNCHANGED <<stored, docs2, stage, job, revised, answered, crossed, raced, writes, breaks>>

(* save_upload: a file is stored whole or not at all.                       *)
StoreFile(file) ==
  /\ ~ archived /\ file \notin stored
  /\ stored' = stored \cup {file}
  /\ UNCHANGED <<archived, docs2, stage, job, revised, answered, crossed, raced, writes, breaks>>

(* create_deliverable, and attach_gate_document, which goes on to supply    *)
(* the document to its gate.                                                *)
CreateDeliverable(w, source) ==
  /\ Sourced(source)
  /\ Start2(w, [Resting EXCEPT !.op = "create", !.source = source])
  /\ UNCHANGED <<archived, stored, docs2, stage, revised, answered, crossed, raced, breaks>>

AttachGateDocument(w, gate, source) ==
  /\ Sourced(source)
  /\ Start2(w, [Resting EXCEPT !.op = "create", !.gate = gate, !.source = source])
  /\ UNCHANGED <<archived, stored, docs2, stage, revised, answered, crossed, raced, breaks>>

InsertDeliverable(w) ==
  LET j == job[w]
  IN  /\ j.op = "create" /\ Len(docs2) < MaxDocs
      /\ docs2' = Append(docs2, [versions |-> <<Version(1, j.source)>>, current |-> 1])
      /\ IF j.gate = "none" THEN Finish(w)
         ELSE Continue(w, [j EXCEPT !.op = "look", !.doc = Len(docs2) + 1])
      /\ UNCHANGED <<archived, stored, stage, revised, answered, crossed, raced, breaks>>

(* supply_document loads the project and the stage instance, then writes    *)
(* both lists from what it read.                                            *)
SupplyDocument(w, gate, d) ==
  /\ Start2(w, [Resting EXCEPT !.op = "look", !.gate = gate, !.doc = d])
  /\ UNCHANGED <<archived, stored, docs2, stage, revised, answered, crossed, raced, breaks>>

ReadInstance(w) ==
  /\ job[w].op = "look"
  /\ IF archived THEN Finish(w) /\ UNCHANGED raced
     ELSE /\ Continue(w, [job[w] EXCEPT !.op = "supply", !.read = stage])
          /\ raced' = (raced \/ \E x \in Writer : job[x].op = "supply")
  /\ UNCHANGED <<archived, stored, docs2, stage, revised, answered, crossed, breaks>>

SetDocuments(w) ==
  LET j == job[w]
  IN  /\ j.op = "supply"
      /\ stage' = [supplied |-> j.read.supplied \cup {j.gate},
                   refs |-> [j.read.refs EXCEPT ![j.gate] = j.doc]]
      /\ answered' = answered \cup {j.gate}
      /\ Finish(w)
      /\ UNCHANGED <<archived, stored, docs2, revised, crossed, raced, breaks>>

(* add_revision numbers the version after the one it read, and pushes it.   *)
Revising(d) == {w \in Writer : job[w].op = "revise" /\ job[w].doc = d}

AddRevision(w, d, source) ==
  /\ Sourced(source)
  /\ Start2(w, [Resting EXCEPT !.op = "revise", !.doc = d, !.source = source, !.v = docs2[d].current + 1])
  /\ crossed' = IF Revising(d) # {} THEN crossed \cup {d} ELSE crossed
  /\ UNCHANGED <<archived, stored, docs2, stage, revised, answered, raced, breaks>>

(* Mutant of Pushed: the versions are set from the number that was read.    *)
Overwritten(doc, v, source) ==
  [versions |-> SubSeq(doc.versions, 1, v - 1) \o <<Version(v, source)>>, current |-> v]
Pushed(doc, v, source) == [versions |-> Append(doc.versions, Version(v, source)), current |-> v]

PushRevision(w) ==
  LET j == job[w]
  IN  /\ j.op = "revise"
      /\ docs2' = [docs2 EXCEPT ![j.doc] = Pushed(@, j.v, j.source)]
      /\ revised' = [revised EXCEPT ![j.doc] = @ + 1]
      /\ Finish(w)
      /\ UNCHANGED <<archived, stored, stage, answered, crossed, raced, breaks>>

(* open_deliverable_file: the last version, or the first of that number.    *)
Opened(doc, v) ==
  LET of == {i \in DOMAIN doc.versions : doc.versions[i].v = v}
  IN  IF of = {} THEN 0 ELSE CHOOSE i \in of : \A k \in of : i <= k

Break(w) ==
  /\ w \in Working /\ breaks < MaxBreaks /\ breaks' = breaks + 1
  /\ Finish(w)
  /\ UNCHANGED <<archived, stored, docs2, stage, revised, answered, crossed, raced>>

DocumentsNext ==
  \/ \E frozen \in BOOLEAN : SetArchived(frozen)
  \/ \E file \in File : StoreFile(file)
  \/ \E w \in Writer :
       \/ InsertDeliverable(w) \/ ReadInstance(w) \/ SetDocuments(w) \/ PushRevision(w) \/ Break(w)
       \/ \E source \in File \cup {"url"} :
            \/ CreateDeliverable(w, source)
            \/ \E gate \in DocGate : AttachGateDocument(w, gate, source)
            \/ \E d \in DOMAIN docs2 : AddRevision(w, d, source)
       \/ \E gate \in DocGate, d \in DOMAIN docs2 : SupplyDocument(w, gate, d)

DocumentsSpec == DocumentsInit /\ [][DocumentsNext]_documentVars
-----------------------------------------------------------------------------
(* "Every revision is kept; no version is overwritten" (add_revision), and  *)
(* a gate is satisfied by evidence: whatever requests overlap, crash or     *)
(* find the project archived, a revision that was answered is in the        *)
(* document, with a file that is stored; a version is found by its number,  *)
(* unless two revisions overlapped; a gate that is satisfied names a        *)
(* document that exists; and one that was satisfied stays so, unless two    *)
(* requests supplied documents at once.                                     *)
EvidenceKept ==
  /\ \A d \in DOMAIN docs2 :
       LET doc == docs2[d]
       IN  /\ Len(doc.versions) = 1 + revised[d]
           /\ \A i \in DOMAIN doc.versions :
                /\ Sourced(doc.versions[i].source)
                /\ d \notin crossed => Opened(doc, i) = i
           /\ d \notin crossed => doc.current = Len(doc.versions)
  /\ \A gate \in stage.supplied : stage.refs[gate] \in DOMAIN docs2
  /\ ~ raced => answered \subseteq stage.supplied
=============================================================================
