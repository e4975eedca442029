---------------------------- MODULE CrmImports ----------------------------
(***************************************************************************)
(* shared/csv_service.py over the deals of Crm: a file is read, matched    *)
(* against the records there are, planned and written row by row; a file   *)
(* of someone who may not approve waits in GridFS for a decision.          *)
(*                                                                         *)
(* A row is [acc, stage, sound].  The deals have one title, so the natural *)
(* key of a row is its account; sound is whether its cells can be read.    *)
(***************************************************************************)
EXTENDS Crm, CsvAccess

CONSTANTS
  Ticket,  \* import requests there may be
  Files,   \* the files that are uploaded
  Sellers  \* the roles of those who import deals

ASSUME TicketAssumption == "none" \notin Ticket
ASSUME FilesAssumption  == \A file \in Files : DOMAIN file \subseteq Nat   \* its lines

VARIABLES
  inbox,      \* of each import request: status, whether its file is stored, its rows
  applied,    \* history: the import requests some row of which was written
  contended,  \* history: the import requests that two decisions overlapped on
  crowded     \* history: two imports overlapped

importVars == <<inbox, applied, contended, crowded>>
allVars == <<crmVars, req, faults, begun, importVars>>

ImportsInit ==
  /\ CrmInit
  /\ inbox = [t \in Ticket |-> [status |-> "none", stored |-> FALSE, file |-> <<>>]]
  /\ applied = {} /\ contended = {} /\ crowded = FALSE
-----------------------------------------------------------------------------
(* The live deal of an account, the first there is (_build_index keeps the  *)
(* first; an index on nothing: several are possible).                       *)
Existing(a) == {d \in Posted : LiveDeal(d) /\ deal[d].acc = a}

(* import_csv plans the sound rows whose account is known and that the row  *)
(* guard lets pass, by their line, each with the record it updates or none. *)
(* The guard reads the record as it was found, not as an earlier row        *)
(* leaves it.                                                               *)
Guarded(row, d) == d # "none" /\ deal[d].closed /\ row.stage = "open"

Keyed(file) == {file[i].acc : i \in DOMAIN file}

Planned(file, refs, found) ==
  LET Lands(row) == row.sound /\ row.acc \in refs /\ ~ Guarded(row, found[row.acc])
  IN  [i \in {n \in DOMAIN file : Lands(file[n])} |->
         [acc |-> file[i].acc, stage |-> file[i].stage, target |-> found[file[i].acc]]]

(* What a request of an import does, next, about which ticket and file, and *)
(* what it has read and planned.                                            *)
Task(op, step, t, file, refs, plan) ==
  [op |-> op, step |-> step, lead |-> "none", deal |-> "none", acc |-> "none", closed |-> FALSE,
   job |-> [ticket |-> t, file |-> file, refs |-> refs, plan |-> plan]]
Job(op, step, t, file)      == Task(op, step, t, file, {}, <<>>)
Onward(q, step, refs, plan) == Task("import", step, q.job.ticket, q.job.file, refs, plan)

Importing == {r \in Handler : req[r].op = "import"}
Deciding(t) == {r \in Busy : req[r].job.ticket = t /\ req[r].op # "submit"}
Meets(t) == contended' = IF Deciding(t) # {} THEN contended \cup {t} ELSE contended

(* submit_import: the file of an approver is imported at once; another is   *)
(* read for the preview and staged: the file, then the request.             *)
SubmitImport(r, file, role, t) ==
  /\ CanImport(role, "deals")
  /\ IF CanApprove(role, "deals")
     THEN /\ t = "none"
          /\ Receive(r, Job("import", "refs", "none", file))
          /\ crowded' = (crowded \/ Importing # {})
     ELSE /\ t # "none" /\ inbox[t].status = "none" /\ \A x \in Handler : req[x].job.ticket # t
          /\ Receive(r, Job("submit", "save", t, file))
          /\ UNCHANGED crowded
  /\ UNCHANGED <<crmVars, faults, inbox, applied, contended>>

SaveFile(r) ==
  LET t == req[r].job.ticket
  IN  /\ At(r, "submit", "save")
      /\ inbox' = [inbox EXCEPT ![t] = [status |-> @.status, stored |-> TRUE, file |-> req[r].job.file]]
      /\ Go(r, "ask")
      /\ UNCHANGED <<crmVars, faults, applied, contended, crowded>>

AskApproval(r) ==
  /\ At(r, "submit", "ask")
  /\ inbox' = [inbox EXCEPT ![req[r].job.ticket].status = "pending"]
  /\ Answer(r)
  /\ UNCHANGED <<crmVars, faults, applied, contended, crowded>>

Pending(t) == inbox[t].status = "pending"

(* approve_import_request loads a pending request and opens its file.       *)
ApproveImport(r, t) ==
  /\ Pending(t)
  /\ Receive(r, Job("approve", "none", t, <<>>))
  /\ Meets(t)
  /\ UNCHANGED <<crmVars, faults, inbox, applied, crowded>>

OpenFile(r) ==
  LET t == req[r].job.ticket
  IN  /\ req[r].op = "approve"
      /\ IF inbox[t].stored
         THEN Become(r, Job("import", "refs", t, inbox[t].file))
         ELSE Answer(r)                                            \* "File not found."
      /\ crowded' = (crowded \/ Importing # {})
      /\ UNCHANGED <<crmVars, faults, inbox, applied, contended>>

(* import_csv: the accounts, then the deals, are read once.                 *)
ReadRefs(r) ==
  /\ At(r, "import", "refs")
  /\ Become(r, Onward(req[r], "match", {a \in Account : LiveAccount(a)}, <<>>))
  /\ UNCHANGED <<crmVars, faults, importVars>>

Match(r) ==
  LET q == req[r]
  IN  /\ At(r, "import", "match")
      /\ \E found \in [Keyed(q.job.file) -> Posted \cup {"none"}] :
           /\ \A a \in Keyed(q.job.file) :
                IF Existing(a) = {} THEN found[a] = "none" ELSE found[a] \in Existing(a)
           /\ Become(r, Onward(q, "apply", {}, Planned(q.job.file, q.job.refs, found)))
      /\ UNCHANGED <<crmVars, faults, importVars>>

(* _apply writes the rows in order.  A row with nothing to update inserts a *)
(* deal, which the later rows of its key update.                            *)
Cell(stage, closed) == IF stage = "blank" THEN closed ELSE stage = "closed"

(* Mutant of Bound: the later rows insert one of their own.                 *)
Unbound(plan, a, d) == plan
Bound(plan, a, d) ==
  [i \in DOMAIN plan |-> IF plan[i].acc = a THEN [plan[i] EXCEPT !.target = d] ELSE plan[i]]

NextLine(plan) == CHOOSE i \in DOMAIN plan : \A j \in DOMAIN plan : i <= j

ApplyRow(r) ==
  LET q    == req[r]
      line == NextLine(q.job.plan)
      row  == q.job.plan[line]
      rest == [i \in DOMAIN q.job.plan \ {line} |-> q.job.plan[i]]
  IN  /\ At(r, "import", "apply") /\ q.job.plan # <<>>
      /\ IF row.target = "none"
         THEN \E d \in Posted :
                /\ Fresh(d)
                /\ deal' = [deal EXCEPT ![d] = [state |-> "live", acc |-> row.acc,
                                                closed |-> Cell(row.stage, FALSE), made |-> TRUE]]
                /\ Become(r, Onward(q, "apply", {}, Bound(rest, row.acc, d)))
         ELSE /\ deal' = [deal EXCEPT ![row.target] =
                   [state |-> @.state, acc |-> row.acc, closed |-> Cell(row.stage, @.closed), made |-> @.made]]
              /\ Become(r, Onward(q, "apply", {}, rest))
      /\ applied' = applied \cup ({q.job.ticket} \ {"none"})
      /\ UNCHANGED <<account, contact, lead, marks, faults, inbox, contended, crowded>>

(* The decision is written over whatever the request has become, and then   *)
(* the file is deleted.                                                     *)
Imported(r) ==
  LET t == req[r].job.ticket
  IN  /\ At(r, "import", "apply") /\ req[r].job.plan = <<>>
      /\ IF t = "none" THEN Answer(r) /\ UNCHANGED inbox
         ELSE /\ inbox' = [inbox EXCEPT ![t].status = "approved"]
              /\ Become(r, Job("unstage", "none", t, <<>>))
      /\ UNCHANGED <<crmVars, faults, applied, contended, crowded>>

RejectImport(r, t) ==
  /\ Pending(t)
  /\ Receive(r, Job("reject", "none", t, <<>>))
  /\ Meets(t)
  /\ UNCHANGED <<crmVars, faults, inbox, applied, crowded>>

(* Mutant of RejectWrite: the file goes before the decision is written.     *)
RejectFile(r) ==
  LET t == req[r].job.ticket
  IN  /\ req[r].op = "reject"
      /\ IF inbox[t].stored
         THEN inbox' = [inbox EXCEPT ![t].stored = FALSE, ![t].file = <<>>] /\ UNCHANGED <<req, begun>>
         ELSE inbox' = [inbox EXCEPT ![t].status = "rejected"] /\ Answer(r)
      /\ UNCHANGED <<crmVars, faults, applied, contended, crowded>>

RejectWrite(r) ==
  LET t == req[r].job.ticket
  IN  /\ req[r].op = "reject"
      /\ inbox' = [inbox EXCEPT ![t].status = "rejected"]
      /\ Become(r, Job("unstage", "none", t, <<>>))
      /\ UNCHANGED <<crmVars, faults, applied, contended, crowded>>

DeleteFile(r) ==
  /\ req[r].op = "unstage"
  /\ inbox' = [inbox EXCEPT ![req[r].job.ticket] = [status |-> @.status, stored |-> FALSE, file |-> <<>>]]
  /\ Answer(r)
  /\ UNCHANGED <<crmVars, faults, applied, contended, crowded>>
-----------------------------------------------------------------------------
(* An approval that crashes leaves its request pending, with rows written.  *)
CrmStops(r) ==
  /\ CrmStep(r)
  /\ contended' = IF req'[r] = Idle /\ req[r].op = "import" THEN contended \cup ({req[r].job.ticket} \ {"none"})
                  ELSE contended
  /\ UNCHANGED <<inbox, applied, crowded>>

ImportStep(r) ==
  \/ SaveFile(r) \/ AskApproval(r) \/ OpenFile(r) \/ ReadRefs(r) \/ Match(r) \/ ApplyRow(r)
  \/ Imported(r) \/ RejectWrite(r) \/ DeleteFile(r)

ImportRequest(r) ==
  \/ \E t \in Ticket : ApproveImport(r, t) \/ RejectImport(r, t)
  \/ \E file \in Files, role \in Sellers, t \in Ticket \cup {"none"} :
       SubmitImport(r, file, role, t)

ImportsNext ==
  \/ \E r \in Handler : \/ CrmStops(r) \/ ImportStep(r) \/ ImportRequest(r)
                        \/ CrmRequest(r) /\ UNCHANGED importVars
  \/ CrmCall /\ UNCHANGED importVars

ImportsSpec == ImportsInit /\ [][ImportsNext]_allVars
-----------------------------------------------------------------------------
(* "A second import of the same file updates the same records instead of    *)
(* doubling them": whatever crashes in the middle of an import and is       *)
(* imported or approved again, and whatever edits and deletions come        *)
(* between, an account has one deal at most that imports made for it;       *)
(* unless imports overlapped.                                               *)
ImportedOnce ==
  ~ crowded => \A a \in Account : Cardinality({d \in Posted : LiveDeal(d) /\ deal[d].made /\ deal[d].acc = a}) <= 1

(* A request in the inbox can always be opened and decided: its file is     *)
(* stored for as long as it is pending, whatever decisions overlap and      *)
(* crash.  And a request that one decision rejected wrote nothing.          *)
InboxWhole ==
  \A t \in Ticket :
    /\ inbox[t].status = "pending" => inbox[t].stored
    /\ inbox[t].status = "rejected" /\ t \notin contended => t \notin applied
=============================================================================
