-------------------------------- MODULE Crm --------------------------------
(***************************************************************************)
(* modules/crm/service.py: leads and their conversion, accounts, and deals *)
(* with their pipeline stage.  A standalone mongod has no transaction: a   *)
(* conversion inserts an account, a contact and a deal, stamps the lead,   *)
(* and deletes what it inserted if a call raises.                          *)
(***************************************************************************)
EXTENDS Integers, FiniteSets

CONSTANTS
  Handler,     \* requests that may be under way at once
  Lead,        \* leads there may be
  House,       \* accounts there may be that no conversion makes
  Conv,        \* conversions: each names the account, contact and deal it makes
  Posted,      \* deals there may be that no conversion makes
  MaxFaults,   \* bound on the calls that raise and the crashes
  MaxRequests  \* bound on the requests of more than one call

ASSUME NameAssumption   == /\ "none" \notin Lead \cup House \cup Conv \cup Posted
                           /\ House \cap Conv = {} /\ Posted \cap Conv = {}
ASSUME CrmBounds == {MaxFaults, MaxRequests} \subseteq Nat

Account == House \cup Conv
Deal    == Posted \cup Conv
States  == {"none", "live", "deleted", "gone"}   \* soft-deleted, hard-deleted

VARIABLES
  account,          \* the state of each account
  contact,          \* the state of the contact of each conversion
  deal,             \* of each deal: state, account, closed (won or lost), and
                    \* whether an import made it for the account it is on
  lead,             \* of each lead: state, converted, and converted_to
  req,              \* per request: what it does, its next call, what it has read
  broken,           \* history: the conversions that crashed
  torn,             \* history: those that raised after they had stamped their lead
  early,            \* history: accounts linked while the conversion that makes them
                    \* was still under way
  faults, begun     \* history: how many faults and requests there were

marks   == <<broken, torn, early>>
crmVars == <<account, contact, deal, lead, marks>>

NoJob == [ticket |-> "none", file |-> <<>>, refs |-> {}, plan |-> <<>>]
Idle  == [op |-> "idle", step |-> "none", lead |-> "none", deal |-> "none", acc |-> "none",
          closed |-> FALSE, job |-> NoJob]
(* A request about a lead, a deal, an account, and whether to close.        *)
Ask(op, l, d, a, closed) ==
  [op |-> op, step |-> "none", lead |-> l, deal |-> d, acc |-> a, closed |-> closed, job |-> NoJob]
NoDeal == [state |-> "none", acc |-> "none", closed |-> FALSE, made |-> FALSE]

Busy == {r \in Handler : req[r].op # "idle"}
At(r, op, step) == req[r].op = op /\ req[r].step = step

Become(r, q) == req' = [req EXCEPT ![r] = q] /\ UNCHANGED begun
Go(r, step)  == Become(r, [req[r] EXCEPT !.step = step])
Answer(r)      == Become(r, Idle)
Receive(r, q)  ==
  /\ req[r].op = "idle"
  /\ begun < MaxRequests /\ begun' = begun + 1
  /\ req' = [req EXCEPT ![r] = q]
Fault == faults < MaxFaults /\ faults' = faults + 1

CrmInit ==
  /\ account = [a \in Account |-> "none"] /\ contact = [k \in Conv |-> "none"]
  /\ deal = [d \in Deal |-> NoDeal]
  /\ lead = [l \in Lead |-> [state |-> "none", converted |-> FALSE, to |-> "none", acc |-> "none"]]
  /\ req = [r \in Handler |-> Idle]
  /\ broken = {} /\ torn = {} /\ early = {} /\ faults = 0 /\ begun = 0

LiveAccount(a) == account[a] = "live"
LiveLead(l)    == lead[l].state = "live"
LiveDeal(d)    == deal[d].state = "live"
-----------------------------------------------------------------------------
(* Leads.  patch_lead refuses a converted lead and the status "converted",  *)
(* and its write sets another status.                                       *)
CreateLead(l) ==
  /\ lead[l].state = "none"
  /\ lead' = [lead EXCEPT ![l].state = "live"]
  /\ UNCHANGED <<account, contact, deal, req, marks, faults, begun>>

PatchLead(r, l) ==
  /\ LiveLead(l) /\ ~ lead[l].converted
  /\ Receive(r, Ask("patch_lead", l, "none", "none", FALSE))
  /\ UNCHANGED <<crmVars, faults>>

PatchLeadWrite(r) ==
  /\ req[r].op = "patch_lead"
  /\ lead' = [lead EXCEPT ![req[r].lead].converted = FALSE]
  /\ Answer(r)
  /\ UNCHANGED <<account, contact, deal, marks, faults>>

DeleteLead(l) ==
  /\ LiveLead(l)
  /\ lead' = [lead EXCEPT ![l].state = "deleted"]
  /\ UNCHANGED <<account, contact, deal, req, marks, faults, begun>>

(* convert_lead: links account a, or inserts one of its own if a is k.  The  *)
(* account it links may be any that is live, one that another conversion    *)
(* has just inserted too.                                                   *)
Fresh(k) == deal[k].state = "none" /\ \A r \in Handler : req[r].deal # k

ConvertLead(r, l, k, a) ==
  /\ LiveLead(l) /\ ~ lead[l].converted /\ Fresh(k) /\ k \notin broken /\ contact[k] = "none"
  /\ Receive(r, [Ask("convert", l, k, a, FALSE) EXCEPT !.step = "account"])
  /\ UNCHANGED <<crmVars, faults>>

Converts(r, k) == req[r].op = "convert" /\ req[r].deal = k

ConvertAccount(r) ==
  LET k == req[r].deal
      a == req[r].acc
  IN  /\ At(r, "convert", "account")
      /\ IF a = k
         THEN account' = [account EXCEPT ![k] = "live"] /\ Go(r, "contact")
         ELSE /\ IF LiveAccount(a) THEN Go(r, "contact") ELSE Answer(r)   \* "Account not found."
              /\ UNCHANGED account
      /\ early' = IF a # k /\ \E x \in Handler : Converts(x, a) THEN early \cup {a} ELSE early
      /\ UNCHANGED <<contact, deal, lead, broken, torn, faults>>

ConvertContact(r) ==
  /\ At(r, "convert", "contact")
  /\ contact' = [contact EXCEPT ![req[r].deal] = "live"]
  /\ Go(r, "deal")
  /\ UNCHANGED <<account, deal, lead, marks, faults>>

ConvertDeal(r) ==
  /\ At(r, "convert", "deal")
  /\ deal' = [deal EXCEPT ![req[r].deal] = 
       [state |-> "live", acc |-> req[r].acc, closed |-> FALSE, made |-> FALSE]]
  /\ Go(r, "stamp")
  /\ UNCHANGED <<account, contact, lead, marks, faults>>

(* repo.update: the stamp is written whatever became of the lead; then the  *)
(* lead is read back, and one that is deleted meanwhile fails the assertion.*)
ConvertStamp(r) ==
  /\ At(r, "convert", "stamp")
  /\ lead' = [lead EXCEPT ![req[r].lead] =
       [state |-> @.state, converted |-> TRUE, to |-> req[r].deal, acc |-> req[r].acc]]
  /\ Go(r, "read")
  /\ UNCHANGED <<account, contact, deal, marks, faults>>

ConvertRead(r) ==
  /\ At(r, "convert", "read")
  /\ IF LiveLead(req[r].lead) THEN Answer(r) ELSE Go(r, "undo")
  /\ UNCHANGED <<crmVars, faults>>

(* A call raises; after the stamp, the lead keeps it.                       *)
ConvertRaises(r) ==
  /\ req[r].op = "convert" /\ req[r].step # "undo"
  /\ Fault /\ Go(r, "undo")
  /\ torn' = IF req[r].step = "read" THEN torn \cup {req[r].deal} ELSE torn
  /\ UNCHANGED <<account, contact, deal, lead, broken, early>>

(* What it created, last first, is hard-deleted.                            *)
Left(k, own) ==
  IF deal[k].state \in {"live", "deleted"} THEN "deal"
  ELSE IF contact[k] = "live" THEN "contact"
  ELSE IF own /\ account[k] \in {"live", "deleted"} THEN "account" ELSE "nothing"

(* Mutant of Undo: the deal is kept.                                        *)
UndoButDeal(r) ==
  LET k == req[r].deal
  IN  /\ At(r, "convert", "undo")
      /\ contact' = [contact EXCEPT ![k] = "gone"]
      /\ account' = IF req[r].acc = k THEN [account EXCEPT ![k] = "gone"] ELSE account
      /\ Answer(r)
      /\ UNCHANGED <<deal, lead, marks, faults>>

Undo(r) ==
  LET k == req[r].deal
      x == Left(k, req[r].acc = k)
  IN  /\ At(r, "convert", "undo")
      /\ deal' = IF x = "deal" THEN [deal EXCEPT ![k].state = "gone"] ELSE deal
      /\ contact' = IF x = "contact" THEN [contact EXCEPT ![k] = "gone"] ELSE contact
      /\ account' = IF x = "account" THEN [account EXCEPT ![k] = "gone"] ELSE account
      /\ IF x = "nothing" THEN Answer(r) ELSE Go(r, "undo")
      /\ UNCHANGED <<lead, marks, faults>>
-----------------------------------------------------------------------------
(* Accounts.  delete_account counts the open deals, then writes.            *)
CreateAccount(a) ==
  /\ a \in House /\ account[a] = "none"
  /\ account' = [account EXCEPT ![a] = "live"]
  /\ UNCHANGED <<contact, deal, lead, req, marks, faults, begun>>

OpenDeals(a) == {d \in Deal : LiveDeal(d) /\ ~ deal[d].closed /\ deal[d].acc = a}

DeleteAccount(r, a) ==
  /\ LiveAccount(a) /\ OpenDeals(a) = {}
  /\ Receive(r, Ask("delete_account", "none", "none", a, FALSE))
  /\ UNCHANGED <<crmVars, faults>>

DeleteAccountWrite(r) ==
  /\ req[r].op = "delete_account"
  /\ account' = [account EXCEPT ![req[r].acc] = IF @ = "gone" THEN @ ELSE "deleted"]
  /\ Answer(r)
  /\ UNCHANGED <<contact, deal, lead, marks, faults>>

(* Deals.  create_deal and patch_deal look the account up first; the stage  *)
(* is changed by change_deal_stage alone, and never from won or lost.       *)
CreateDeal(r, d, a, closed) ==
  /\ d \in Posted /\ Fresh(d) /\ LiveAccount(a)
  /\ Receive(r, Ask("create_deal", "none", d, a, closed))
  /\ UNCHANGED <<crmVars, faults>>

CreateDealWrite(r) ==
  /\ req[r].op = "create_deal"
  /\ deal' = [deal EXCEPT ![req[r].deal] =
       [state |-> "live", acc |-> req[r].acc, closed |-> req[r].closed, made |-> FALSE]]
  /\ Answer(r)
  /\ UNCHANGED <<account, contact, lead, marks, faults>>

PatchDeal(r, d, a) ==
  /\ LiveDeal(d) /\ LiveAccount(a)
  /\ Receive(r, Ask("patch_deal", "none", d, a, FALSE))
  /\ UNCHANGED <<crmVars, faults>>

PatchDealWrite(r) ==
  LET d == req[r].deal
  IN  /\ req[r].op = "patch_deal"
      /\ deal' = IF deal[d].state = "gone" THEN deal
                 ELSE [deal EXCEPT ![d] =
                   [state |-> @.state, acc |-> req[r].acc, closed |-> @.closed, made |-> FALSE]]
      /\ Answer(r)
      /\ UNCHANGED <<account, contact, lead, marks, faults>>

ChangeDealStage(r, d, closed) ==
  /\ LiveDeal(d) /\ ~ deal[d].closed
  /\ Receive(r, Ask("stage", "none", d, "none", closed))
  /\ UNCHANGED <<crmVars, faults>>

ChangeDealStageWrite(r) ==
  LET d == req[r].deal
  IN  /\ req[r].op = "stage"
      /\ deal' = IF deal[d].state = "gone" THEN deal
                 ELSE [deal EXCEPT ![d].closed = req[r].closed]
      /\ Answer(r)
      /\ UNCHANGED <<account, contact, lead, marks, faults>>

DeleteDeal(d) ==
  /\ LiveDeal(d)
  /\ deal' = [deal EXCEPT ![d].state = "deleted"]
  /\ UNCHANGED <<account, contact, lead, req, marks, faults, begun>>
-----------------------------------------------------------------------------
Crash(r) ==
  /\ r \in Busy /\ Fault /\ Answer(r)
  /\ broken' = IF req[r].op = "convert" THEN broken \cup {req[r].deal} ELSE broken
  /\ UNCHANGED <<account, contact, deal, lead, torn, early>>

CrmStep(r) ==
  \/ PatchLeadWrite(r) \/ DeleteAccountWrite(r)
  \/ ConvertAccount(r) \/ ConvertContact(r) \/ ConvertDeal(r) \/ ConvertStamp(r)
  \/ ConvertRead(r) \/ ConvertRaises(r) \/ Undo(r)
  \/ CreateDealWrite(r) \/ PatchDealWrite(r) \/ ChangeDealStageWrite(r)
  \/ Crash(r)

CrmRequest(r) ==
  \/ \E l \in Lead : \/ PatchLead(r, l)
                     \/ \E k \in Conv : \E a \in Account : ConvertLead(r, l, k, a)
  \/ \E a \in Account : \/ DeleteAccount(r, a)
                        \/ \E d \in Deal : \/ PatchDeal(r, d, a)
                                           \/ \E c \in BOOLEAN : CreateDeal(r, d, a, c)
  \/ \E d \in Deal, c \in BOOLEAN : ChangeDealStage(r, d, c)

CrmCall ==
  \/ \E l \in Lead : CreateLead(l) \/ DeleteLead(l)
  \/ \E a \in House : CreateAccount(a)
  \/ \E d \in Deal : DeleteDeal(d)
-----------------------------------------------------------------------------

(* "Creates/links account + contact + deal and stamps converted_to", and a  *)
(* conversion that fails deletes what it had created: with conversions,     *)
(* edits and deletions of one lead and of the records it made that overlap, *)
(* and calls that raise, a live lead points at records that exist - unless  *)
(* its conversion raised after the stamp was written, or the account is one *)
(* that was linked before the conversion that made it was over - and a      *)
(* conversion that is over and did not crash left all of its records or     *)
(* none.                                                                    *)
There(state) == state \in {"live", "deleted"}
Points(l) ==
  /\ There(contact[lead[l].to]) /\ There(deal[lead[l].to].state)
  /\ lead[l].acc \notin early => There(account[lead[l].acc])
ConversionWhole ==
  /\ \A l \in Lead : LiveLead(l) /\ lead[l].to \notin torn \cup {"none"} => Points(l)
  /\ \A k \in Conv \ broken :
       (\A r \in Handler : ~ Converts(r, k))
         => /\ There(contact[k]) <=> There(deal[k].state)
            /\ There(account[k]) => There(contact[k])
=============================================================================
