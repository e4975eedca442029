----------------------------- MODULE Inventory -----------------------------
(***************************************************************************)
(* The stock ledger of modules/inventory: an append-only collection of     *)
(* movement rows and, per (product, warehouse), a cached `on_hand`.  There *)
(* is no multi-document transaction (standalone mongod), so a handler      *)
(* moves stock in steps - claim the cache, insert the row, write the audit *)
(* entry - and every `await` between them lets another handler, on any     *)
(* worker, run.  Three kinds of documents move stock:                      *)
(*   movement  create_movement: one leg                                    *)
(*   transfer  create_transfer: an issue leg, then a receipt leg           *)
(*   batch     a caller that issues stock line by line and undoes it when  *)
(*             a line, or its own work afterwards, fails: finance's        *)
(*             send_invoice with _issue_stock_for                          *)
(* Each request handles one document; its legs are known from its payload. *)
(***************************************************************************)
EXTENDS SignedSum, Sequences

CONSTANTS
  Req,         \* concurrent requests, one handler each
  Products, Warehouses,
  Plans,       \* the documents a request may carry
  Opening,     \* on_hand per key before any modelled request
  Deletions,   \* products and warehouses some user tries to delete
  Faults,      \* what may go wrong, a subset of FaultKinds
  MaxToggles   \* how often the negative-stock setting is changed

FaultKinds == {"insert",   \* the insert of a row raises, nothing written
               "reply",    \* the row is written, the reply lost: it raises
               "audit",    \* the activity entry after the row raises
               "caller",   \* the batch's caller fails after all the legs
               "crash"}    \* the handler's worker dies between two awaits

Keys  == Products \X Warehouses
Legs  == [key : Keys, delta : Int]
Kinds == {"movement", "transfer", "batch"}

(* Payload validation: a zero quantity is refused, a transfer's two        *)
(* warehouses differ, an invoice line is always an issue.                  *)
WellFormed(p) ==
  /\ p \in [kind : Kinds, legs : Seq(Legs)]
  /\ Len(p.legs) >= 1
  /\ \A i \in 1 .. Len(p.legs) : p.legs[i].delta # 0
  /\ p.kind = "movement" => Len(p.legs) = 1
  /\ p.kind = "transfer" =>
       /\ Len(p.legs) = 2
       /\ p.legs[1].key # p.legs[2].key
       /\ p.legs[1].delta < 0
       /\ p.legs[2].delta = -p.legs[1].delta
  /\ p.kind = "batch" => \A i \in 1 .. Len(p.legs) : p.legs[i].delta < 0

ASSUME PlansAssumption   == \A p \in Plans : WellFormed(p)
ASSUME OpeningAssumption == Opening \in [Keys -> Nat]
ASSUME FaultsAssumption  == Faults \subseteq FaultKinds
ASSUME DeletionsAssumption == Deletions \subseteq Products \cup Warehouses

VARIABLES
  plan,           \* the document of each request
  pc,             \* the await a handler is about to issue
  at,             \* the leg it is working on
  returned,       \* movement ids create_movement has returned to a batch
  negOK,          \* its copy of the negative-stock setting
  dead,           \* requests whose worker died; pc stays where it was
  onHand,         \* stock_levels.on_hand
  applied,        \* legs whose $inc is in the cache (history)
  posted,         \* rows of the movements collection
  live,           \* products and warehouses not soft-deleted
  deleting,       \* progress of each delete handler
  allowNegative,  \* company_profile's negative-stock setting
  toggles         \* how often it was changed

handlerVars == <<plan, pc, at, returned, negOK, dead>>
stockVars   == <<onHand, applied, posted>>
catalogVars == <<live, deleting, allowNegative, toggles>>
vars        == <<handlerVars, stockVars, catalogVars>>

PcStates == {"check", "setting", "claim", "insert", "release", "audit", "caller",
             "undoRow", "undoStock", "giveBack", "dropRow", "ended"}

(* A leg of a request, and so the row it posts, is the pair <<r, i>>.      *)
Rows      == UNION {{r} \X (1 .. Len(plan[r].legs)) : r \in Req}
KeyOf(l)  == plan[l[1]].legs[l[2]].key
Delta     == [l \in Rows |-> plan[l[1]].legs[l[2]].delta]
Current(r) == <<r, at[r]>>
LastLeg(r) == Len(plan[r].legs)

OnKey(S, k)  == {l \in S : KeyOf(l) = k}
LedgerSum(k) == Opening[k] + Net(OnKey(posted, k), Delta)

(* What a handler reads before it moves stock: the product and warehouse of *)
(* the leg; at the start of a transfer or a batch those of every leg.       *)
Needed(r) ==
  UNION {{KeyOf(<<r, i>>)[1], KeyOf(<<r, i>>)[2]} :
           i \in IF at[r] = 1 THEN 1 .. LastLeg(r) ELSE {at[r]}}

Init ==
  /\ plan \in [Req -> Plans]
  /\ pc = [r \in Req |-> "check"]
  /\ at = [r \in Req |-> 1]
  /\ returned = [r \in Req |-> 0]
  /\ negOK = [r \in Req |-> FALSE]
  /\ dead = {}
  /\ onHand = Opening
  /\ applied = {}
  /\ posted = {}
  /\ live = Products \cup Warehouses
  /\ deleting = [t \in Deletions |-> "idle"]
  /\ allowNegative \in BOOLEAN
  /\ toggles = 0
-----------------------------------------------------------------------------
Ready(r, s) == pc[r] = s /\ r \notin dead
Goto(r, s)  == pc' = [pc EXCEPT ![r] = s]

(* Mutant of Abort: a batch leaves what it already shipped. *)
AbortWithoutUndo(r) ==
  \/ /\ plan[r].kind = "transfer" /\ at[r] = 2
     /\ at' = [at EXCEPT ![r] = 1]
     /\ Goto(r, "undoRow")
  \/ /\ ~ (plan[r].kind = "transfer" /\ at[r] = 2)
     /\ Goto(r, "ended")
     /\ UNCHANGED at

(* Where an exception takes the handler of r: a batch gives back what its   *)
(* earlier legs shipped, a transfer undoes its issue leg, a movement ends.  *)
Abort(r) ==
  \/ /\ plan[r].kind = "batch" /\ returned[r] > 0
     /\ at' = [at EXCEPT ![r] = 1]
     /\ Goto(r, "giveBack")
  \/ /\ plan[r].kind = "transfer" /\ at[r] = 2
     /\ at' = [at EXCEPT ![r] = 1]
     /\ Goto(r, "undoRow")
  \/ /\ ~ (plan[r].kind = "batch" /\ returned[r] > 0)
     /\ ~ (plan[r].kind = "transfer" /\ at[r] = 2)
     /\ Goto(r, "ended")
     /\ UNCHANGED at

(* The product and warehouse reads.  Deletion is for good, so reading them  *)
(* one after the other or at once lets the same requests through.           *)
Check(r) ==
  /\ Ready(r, "check")
  /\ \/ Needed(r) \subseteq live /\ Goto(r, "setting") /\ UNCHANGED at
     \/ ~ (Needed(r) \subseteq live) /\ Abort(r)
  /\ UNCHANGED <<plan, returned, negOK, dead, stockVars, catalogVars>>

(* _allow_negative: read once per movement, once per transfer. *)
ReadSetting(r) ==
  /\ Ready(r, "setting")
  /\ negOK' = [negOK EXCEPT ![r] = allowNegative]
  /\ Goto(r, "claim")
  /\ UNCHANGED <<plan, at, returned, dead, stockVars, catalogVars>>

(* Mutant of Claim: the $inc without its filter on on_hand. *)
ClaimUnguarded(r) ==
  /\ Ready(r, "claim")
  /\ onHand' = [onHand EXCEPT ![KeyOf(Current(r))] = @ + Delta[Current(r)]]
  /\ applied' = applied \cup {Current(r)}
  /\ Goto(r, "insert")
  /\ UNCHANGED <<plan, at, returned, negOK, dead, posted, catalogVars>>

(* claim_stock: one conditional $inc. *)
Claim(r) ==
  LET l == Current(r)
      k == KeyOf(l)
  IN  /\ Ready(r, "claim")
      /\ Delta[l] >= 0 \/ negOK[r] \/ onHand[k] >= -Delta[l]
      /\ onHand' = [onHand EXCEPT ![k] = @ + Delta[l]]
      /\ applied' = applied \cup {l}
      /\ Goto(r, "insert")
      /\ UNCHANGED <<plan, at, returned, negOK, dead, posted, catalogVars>>

(* The guard of the decrement matched no document: INSUFFICIENT_STOCK. *)
Refuse(r) ==
  LET l == Current(r)
  IN  /\ Ready(r, "claim")
      /\ ~ (Delta[l] >= 0 \/ negOK[r] \/ onHand[KeyOf(l)] >= -Delta[l])
      /\ Abort(r)
      /\ UNCHANGED <<plan, returned, negOK, dead, stockVars, catalogVars>>

(* The ledger row.  A transfer goes on to its receipt leg; else the audit.  *)
Insert(r) ==
  /\ Ready(r, "insert")
  /\ posted' = posted \cup {Current(r)}
  /\ \/ /\ plan[r].kind = "transfer" /\ at[r] = 1
        /\ at' = [at EXCEPT ![r] = 2]
        /\ Goto(r, "claim")
     \/ /\ ~ (plan[r].kind = "transfer" /\ at[r] = 1)
        /\ Goto(r, "audit")
        /\ UNCHANGED at
  /\ UNCHANGED <<plan, returned, negOK, dead, onHand, applied, catalogVars>>

InsertRaises(r) ==
  /\ Ready(r, "insert")
  /\ \/ "insert" \in Faults /\ UNCHANGED posted
     \/ "reply" \in Faults /\ posted' = posted \cup {Current(r)}
  /\ Goto(r, "release")
  /\ UNCHANGED <<plan, at, returned, negOK, dead, onHand, applied, catalogVars>>

(* Mutant of GiveBackStock: $inc by the signed quantity, not its negation. *)
GiveBackWrongSign(l) ==
  /\ onHand' = [onHand EXCEPT ![KeyOf(l)] = @ + Delta[l]]
  /\ applied' = applied \ {l}

(* release_stock takes leg l out of the cache again, with no guard. *)
GiveBackStock(l) ==
  /\ onHand' = [onHand EXCEPT ![KeyOf(l)] = @ - Delta[l]]
  /\ applied' = applied \ {l}

(* Mutant of Release: the except branch re-raises without undoing the claim. *)
ReleaseForgotten(r) ==
  /\ Ready(r, "release")
  /\ Abort(r)
  /\ UNCHANGED <<plan, returned, negOK, dead, stockVars, catalogVars>>

Release(r) ==
  /\ Ready(r, "release")
  /\ GiveBackStock(Current(r))
  /\ Abort(r)
  /\ UNCHANGED <<plan, returned, negOK, dead, posted, catalogVars>>
-----------------------------------------------------------------------------
(* The activity entry; only after it does create_movement return the id.    *)
(* The caller's next line starts over with the reads.                       *)
Audit(r) ==
  /\ Ready(r, "audit")
  /\ \/ /\ plan[r].kind # "batch"
        /\ Goto(r, "ended")
        /\ UNCHANGED <<at, returned>>
     \/ /\ plan[r].kind = "batch"
        /\ returned' = [returned EXCEPT ![r] = at[r]]
        /\ \/ /\ at[r] < LastLeg(r)
              /\ at' = [at EXCEPT ![r] = @ + 1]
              /\ Goto(r, "check")
           \/ /\ at[r] = LastLeg(r)
              /\ Goto(r, "caller")
              /\ UNCHANGED at
  /\ UNCHANGED <<plan, negOK, dead, stockVars, catalogVars>>

(* The audit write raises: the row stays, and a batch never learns its id.  *)
AuditRaises(r) ==
  /\ Ready(r, "audit") /\ "audit" \in Faults
  /\ \/ plan[r].kind # "batch" /\ Goto(r, "ended") /\ UNCHANGED at
     \/ plan[r].kind = "batch" /\ Abort(r)
  /\ UNCHANGED <<plan, returned, negOK, dead, stockVars, catalogVars>>

(* The caller's own work after the stock: it completes the document, or     *)
(* raises and undoes every movement it was handed.                          *)
CallerCompletes(r) ==
  /\ Ready(r, "caller")
  /\ Goto(r, "ended")
  /\ UNCHANGED <<plan, at, returned, negOK, dead, stockVars, catalogVars>>

CallerRaises(r) ==
  /\ Ready(r, "caller") /\ "caller" \in Faults
  /\ Abort(r)
  /\ UNCHANGED <<plan, returned, negOK, dead, stockVars, catalogVars>>

(* A transfer drops the issue leg's row, then gives the stock back ...      *)
UndoRow(r) ==
  /\ Ready(r, "undoRow")
  /\ posted' = posted \ {Current(r)}
  /\ Goto(r, "undoStock")
  /\ UNCHANGED <<plan, at, returned, negOK, dead, onHand, applied, catalogVars>>

(* Mutant of UndoStock: the issue row goes, its stock is not returned. *)
UndoStockForgotten(r) ==
  /\ Ready(r, "undoStock")
  /\ Goto(r, "ended")
  /\ UNCHANGED <<plan, at, returned, negOK, dead, stockVars, catalogVars>>

UndoStock(r) ==
  /\ Ready(r, "undoStock")
  /\ GiveBackStock(Current(r))
  /\ Goto(r, "ended")
  /\ UNCHANGED <<plan, at, returned, negOK, dead, posted, catalogVars>>

(* ... while _reverse_issue gives the stock back first, movement after      *)
(* movement, and then drops the row.                                        *)
GiveBack(r) ==
  /\ Ready(r, "giveBack")
  /\ GiveBackStock(Current(r))
  /\ Goto(r, "dropRow")
  /\ UNCHANGED <<plan, at, returned, negOK, dead, posted, catalogVars>>

DropRow(r) ==
  /\ Ready(r, "dropRow")
  /\ posted' = posted \ {Current(r)}
  /\ \/ /\ at[r] < returned[r]
        /\ at' = [at EXCEPT ![r] = @ + 1]
        /\ Goto(r, "giveBack")
     \/ /\ at[r] = returned[r]
        /\ Goto(r, "ended")
        /\ UNCHANGED at
  /\ UNCHANGED <<plan, returned, negOK, dead, onHand, applied, catalogVars>>

(* The worker of r dies, or an exception leaves its undo loop: whatever it  *)
(* had written stays.                                                       *)
Crash(r) ==
  /\ "crash" \in Faults
  /\ r \notin dead /\ pc[r] # "ended"
  /\ dead' = dead \cup {r}
  /\ UNCHANGED <<plan, pc, at, returned, negOK, stockVars, catalogVars>>
-----------------------------------------------------------------------------
(* delete_product, delete_warehouse: refused while stock is on hand, then   *)
(* the soft delete.  A refused delete writes nothing.                       *)
DeleteCheck(t) ==
  /\ deleting[t] = "idle"
  /\ \A k \in Keys : t \in {k[1], k[2]} => onHand[k] = 0
  /\ deleting' = [deleting EXCEPT ![t] = "checked"]
  /\ UNCHANGED <<handlerVars, stockVars, live, allowNegative, toggles>>

SoftDelete(t) ==
  /\ deleting[t] = "checked"
  /\ deleting' = [deleting EXCEPT ![t] = "done"]
  /\ live' = live \ {t}
  /\ UNCHANGED <<handlerVars, stockVars, allowNegative, toggles>>

(* A manager edits the company profile. *)
SetAllowNegative ==
  /\ toggles < MaxToggles
  /\ allowNegative' = ~ allowNegative
  /\ toggles' = toggles + 1
  /\ UNCHANGED <<handlerVars, stockVars, live, deleting>>

Handler(r) ==
  \/ Check(r) \/ ReadSetting(r) \/ Claim(r) \/ Refuse(r)
  \/ Insert(r) \/ InsertRaises(r) \/ Release(r)
  \/ Audit(r) \/ AuditRaises(r) \/ CallerCompletes(r) \/ CallerRaises(r)
  \/ UndoRow(r) \/ UndoStock(r) \/ GiveBack(r) \/ DropRow(r)

(* Every request was answered or is lost: nothing more has to happen. *)
Finished ==
  /\ \A r \in Req : pc[r] = "ended" \/ r \in dead
  /\ UNCHANGED vars

Next ==
  \/ \E r \in Req : Handler(r) \/ Crash(r)
  \/ \E t \in Deletions : DeleteCheck(t) \/ SoftDelete(t)
  \/ SetAllowNegative
  \/ Finished

Spec == Init /\ [][Next]_vars

(* An awaited database call returns or raises, and the event loop resumes   *)
(* the handler: no handler that can move waits forever.                     *)
FairSpec == Spec /\ \A r \in Req : WF_vars(Handler(r))
-----------------------------------------------------------------------------
TypeOK ==
  /\ plan \in [Req -> Plans]
  /\ pc \in [Req -> PcStates]
  /\ at \in [Req -> Nat]
  /\ returned \in [Req -> Nat]
  /\ \A r \in Req : at[r] \in 1 .. LastLeg(r) /\ returned[r] \in 0 .. LastLeg(r)
  /\ negOK \in [Req -> BOOLEAN]
  /\ dead \subseteq Req
  /\ onHand \in [Keys -> Int]
  /\ applied \subseteq Rows
  /\ posted \subseteq Rows
  /\ live \subseteq Products \cup Warehouses
  /\ deleting \in [Deletions -> {"idle", "checked", "done"}]
  /\ allowNegative \in BOOLEAN
  /\ toggles \in Nat

(* Between these two writes a handler's leg is in one of the collections   *)
(* and not in the other.                                                   *)
HalfWritten(r) == pc[r] \in {"insert", "release", "undoStock", "dropRow"}

(* "The cache can never drift from the ledger" (_post_movement): on_hand   *)
(* of a key is the opening stock plus the signed sum of the key's rows     *)
(* whenever no handler is, or died, between its two writes for that key.   *)
(* Whatever the interleaving of claims, inserts and compensations.         *)
CacheMatchesLedger ==
  \A k \in Keys :
    (\A r \in Req : HalfWritten(r) => KeyOf(Current(r)) # k)
      => onHand[k] = LedgerSum(k)

(* Why: the cache is the sum of the claims in it, and a handler's leg is in  *)
(* both collections or in neither, but for the one it is working on.        *)
Accounted ==
  /\ IsFiniteSet(applied)
  /\ \A k \in Keys : onHand[k] = Opening[k] + Net(OnKey(applied, k), Delta)

Matched(r) ==
  \A i \in 1 .. LastLeg(r) :
    (<<r, i>> \in applied <=> <<r, i>> \in posted) \/ (HalfWritten(r) /\ i = at[r])

Progress(r) ==
  /\ pc[r] \in {"check", "setting", "claim"} =>
       \A i \in 1 .. LastLeg(r) : <<r, i>> \in applied <=> i < at[r]
  /\ pc[r] \in {"insert", "release", "audit", "caller"} =>
       \A i \in 1 .. LastLeg(r) : <<r, i>> \in applied <=> i <= at[r]
  /\ pc[r] \in {"insert", "release"} => Current(r) \notin posted
  /\ pc[r] = "undoRow" => Current(r) \in applied
  /\ pc[r] = "undoStock" => Current(r) \in applied \ posted
  /\ pc[r] = "dropRow" => Current(r) \in posted \ applied
  /\ pc[r] \in {"giveBack", "dropRow"} => returned[r] \in at[r] .. LastLeg(r)
  /\ pc[r] = "giveBack" => Current(r) \in applied
  /\ pc[r] \in {"giveBack", "dropRow"} =>
       \A i \in at[r] + 1 .. returned[r] : <<r, i>> \in applied

(* The ids a batch was handed are those of the legs before the current one. *)
Handed(r) ==
  /\ plan[r].kind = "batch" =>
       /\ pc[r] \in {"check", "setting", "claim", "insert", "release", "audit"} =>
            returned[r] = at[r] - 1
       /\ pc[r] = "caller" => returned[r] = at[r]

IInv == Accounted /\ \A r \in Req : Matched(r) /\ Progress(r) /\ Handed(r)

(* The guard of claim_stock: as long as the negative-stock setting was     *)
(* never on, no interleaving of issues, transfers and undone batches       *)
(* drives a level below zero.  (An insert that raises would: its claimed    *)
(* receipt may have been issued before release_stock, which has no guard,   *)
(* takes it back.)                                                          *)
NoOversell ==
  toggles = 0 /\ ~ allowNegative => \A k \in Keys : onHand[k] >= 0

(* A document that ran to its end posted all its rows or none: a transfer  *)
(* "never leaves stock in limbo" and a failed send "never half-issues      *)
(* stock".  (Unless an activity entry raises in the middle of a send: the   *)
(* row it is about is written and not in the list to reverse.)              *)
RowsOf(r) == {l \in posted : l[1] = r}
AllOrNothing ==
  \A r \in Req : pc[r] = "ended" => RowsOf(r) \in {{}, {r} \X (1 .. LastLeg(r))}

(* Nobody stays half way: in the end the books agree for good on every key *)
(* but those a handler died on, which is what reconcile is then to report. *)
EventuallyReconciled ==
  <>[](\A k \in Keys :
         (\A r \in dead : HalfWritten(r) => KeyOf(Current(r)) # k)
           => onHand[k] = LedgerSum(k))
-----------------------------------------------------------------------------
(* The promise this module implements.  A request is open until its handler *)
(* ends; the levels it sees are the cache without the claims of handlers    *)
(* still at work, and its ledger the rows of the ended ones.                *)
Ended == {r \in Req : pc[r] = "ended"}
Answer ==
  [r \in Req |-> IF r \notin Ended THEN "open"
                 ELSE IF RowsOf(r) = {} THEN "dropped" ELSE "kept"]
Book ==
  [k \in Keys |->
     onHand[k] - Net({l \in OnKey(applied, k) : l[1] \notin Ended}, Delta)]
EndedRows == {l \in posted : l[1] \in Ended}

Promise == INSTANCE StockPromise
             WITH answer <- Answer, book <- Book, ledger <- EndedRows

(* Inventory implements StockPromise: with inserts and callers that fail,   *)
(* every step is, seen from outside, a document kept whole, one dropped     *)
(* without a trace, or nothing.                                             *)
ImplementsPromise == Promise!Spec
=============================================================================
