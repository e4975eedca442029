------------------------------- MODULE Ledger -------------------------------
(***************************************************************************)
(* The chart of accounts, the journal and its reports: modules/finance,    *)
(* sections 1, 2 and 6 of service.py and trial_balance of repository.py.   *)
(* Amounts are in cents.                                                   *)
(***************************************************************************)
EXTENDS Integers, Sequences, FiniteSets, SignedSum

CONSTANTS
  Clerk,      \* requests that may be under way at once
  Acct,       \* accounts of the chart there may be
  Code,       \* codes they may have
  Type,       \* types they may have
  Starter,    \* the seeded chart: [Acct -> NoAccount or a live account]
  Shape,      \* entries that may be asked for: sequences of [debit, credit]
  MaxDay,     \* bound on the dates of entries
  MaxPosted,  \* bound on the entries
  MaxFilings  \* bound on the requests

ASSUME TypeAssumption == Type \subseteq {"asset", "liability", "equity", "income", "expense"}
ASSUME CodeAssumption == "none" \notin Code
ASSUME LedgerBounds   == {MaxDay, MaxPosted, MaxFilings} \subseteq Nat
(* A line's debit and credit are not negative (JournalLine).                *)
ASSUME ShapeAssumption == \A shape \in Shape : shape \in Seq([debit : Nat, credit : Nat])

VARIABLES
  chart,    \* of each account: state, code, type
  entries,  \* journal_entries: [day, lines], a line is [acc, debit, credit]
  filing,   \* of each clerk: the request that has read and not written
  astray,   \* history: accounts with an entry posted, or about to be, since the
            \* deletion of them counted their entries
  filings   \* history: how many requests there were

ledgerVars == <<chart, entries, filing, astray, filings>>

Days       == 1 .. MaxDay
NoAccount  == [state |-> "none", code |-> "none", type |-> "none"]
NoEntry    == [day |-> 1, lines |-> <<>>]
NoFiling   == [op |-> "idle", acc |-> "none", to |-> NoAccount, entry |-> NoEntry, seen |-> 0]
LiveAccts  == {a \in Acct : chart[a].state = "live"}
LiveAccount == [state : {"live"}, code : Code, type : Type]
(* The seed upserts its accounts by code.                                   *)
ASSUME StarterAssumption ==
  /\ Starter \in [Acct -> {NoAccount} \cup LiveAccount]
  /\ \A a, b \in Acct : a # b /\ Starter[a] # NoAccount => Starter[a].code # Starter[b].code
(* What the unique index over the code compares: deleted accounts too.      *)
CodeTaken(a, code) == \E b \in Acct \ {a} : chart[b].state # "none" /\ chart[b].code = code

File(k, f) ==
  /\ filing[k].op = "idle" /\ filings < MaxFilings /\ filings' = filings + 1
  /\ filing' = [filing EXCEPT ![k] = f]
  /\ UNCHANGED <<chart, entries, astray>>
Filed(k)  == filing' = [filing EXCEPT ![k] = NoFiling] /\ UNCHANGED filings
Files(op) == {k \in Clerk : filing[k].op = op}
-----------------------------------------------------------------------------
(* create_account and patch_account look for the code, then write under the *)
(* unique index, which refuses a code that was taken meanwhile.             *)
NewAccount(k, a, code, type) ==
  /\ chart[a].state = "none" /\ \A x \in Clerk : filing[x].acc # a
  /\ ~ CodeTaken(a, code)
  /\ File(k, [NoFiling EXCEPT !.op = "account", !.acc = a,
                              !.to = [state |-> "live", code |-> code, type |-> type]])

PatchAccount(k, a, code, type) ==
  /\ a \in LiveAccts
  /\ code # chart[a].code => ~ CodeTaken(a, code)
  /\ File(k, [NoFiling EXCEPT !.op = "account", !.acc = a,
                              !.to = [state |-> "live", code |-> code, type |-> type]])

WriteAccount(k) ==
  LET f == filing[k]
      written == [f.to EXCEPT !.state = IF chart[f.acc].state = "deleted" THEN "deleted" ELSE "live"]
  IN  /\ f.op = "account"
      /\ chart' = IF CodeTaken(f.acc, f.to.code) THEN chart ELSE [chart EXCEPT ![f.acc] = written]
      /\ Filed(k)
      /\ UNCHANGED <<entries, astray>>

(* delete_account counts the entries that name the account, then deletes.   *)
Names(e, a) == \E i \in DOMAIN e.lines : e.lines[i].acc = a

Deletion(a) == [NoFiling EXCEPT !.op = "delete", !.acc = a, !.seen = Len(entries)]

(* Mutant of DeleteAcct: the entries are not counted.                       *)
DeleteUncounted(k, a) == a \in LiveAccts /\ File(k, Deletion(a))

DeleteAcct(k, a) ==
  /\ a \in LiveAccts /\ \A i \in DOMAIN entries : ~ Names(entries[i], a)
  /\ File(k, Deletion(a))

WriteDeletion(k) ==
  LET a == filing[k].acc
  IN  /\ filing[k].op = "delete"
      /\ chart' = [chart EXCEPT ![a].state = "deleted"]
      /\ astray' = IF \/ \E x \in Files("post") : Names(filing[x].entry, a)
                      \/ \E i \in filing[k].seen + 1 .. Len(entries) : Names(entries[i], a)
                   THEN astray \cup {a} ELSE astray
      /\ Filed(k)
      /\ UNCHANGED entries

(* create_entry, and every posting, first loads its accounts; _post_entry   *)
(* weighs the lines and inserts them.                                       *)
Side(e, side) == Net(DOMAIN e.lines, [i \in DOMAIN e.lines |-> e.lines[i][side]])

Postable(e) ==
  /\ Side(e, "debit") = Side(e, "credit") /\ Side(e, "debit") # 0
  /\ \A i \in DOMAIN e.lines : e.lines[i].debit = 0 \/ e.lines[i].credit = 0

CreateEntry(k, day, shape, on) ==
  LET e == [day |-> day, lines |-> [i \in DOMAIN shape |->
              [acc |-> on[i], debit |-> shape[i].debit, credit |-> shape[i].credit]]]
  IN  /\ \A i \in DOMAIN shape : on[i] \in LiveAccts
      /\ Len(entries) + Cardinality(Files("post")) < MaxPosted
      /\ Postable(e) /\ File(k, [NoFiling EXCEPT !.op = "post", !.entry = e])

InsertEntry(k) ==
  /\ filing[k].op = "post"
  /\ entries' = Append(entries, filing[k].entry)
  /\ Filed(k)
  /\ UNCHANGED <<chart, astray>>

(* A worker dies between the read and the write.                            *)
Abandon(k) == filing[k].op # "idle" /\ Filed(k) /\ UNCHANGED <<chart, entries, astray>>
-----------------------------------------------------------------------------
LedgerInit ==
  /\ chart = Starter /\ entries = <<>> /\ filing = [k \in Clerk |-> NoFiling]
  /\ astray = {} /\ filings = 0

LedgerNext ==
  \E k \in Clerk :
    \/ WriteAccount(k) \/ WriteDeletion(k) \/ InsertEntry(k) \/ Abandon(k)
    \/ \E a \in Acct :
         \/ DeleteAcct(k, a)
         \/ \E code \in Code, type \in Type : NewAccount(k, a, code, type) \/ PatchAccount(k, a, code, type)
    \/ \E day \in Days, shape \in Shape :
         \E on \in [DOMAIN shape -> Acct] : CreateEntry(k, day, shape, on)

LedgerSpec == LedgerInit /\ [][LedgerNext]_ledgerVars
-----------------------------------------------------------------------------
(* trial_balance: the lines of the entries from one day to another, summed  *)
(* per account and joined with the account; then the reports.               *)
Lines(from, to) ==
  UNION {{i} \X DOMAIN entries[i].lines : i \in {x \in DOMAIN entries : entries[x].day \in from .. to}}
LineAt(l)   == entries[l[1]].lines[l[2]]
Sum(S, g)   == Net(S, g)

(* Mutant of Joined: the join finds live accounts only.                     *)
JoinedLive == {a \in Acct : chart[a].state = "live"}
Joined == {a \in Acct : chart[a].state # "none"}

TrialBalance(from, to) ==
  LET all == Lines(from, to)
      of(a, side) == LET mine == {l \in all : LineAt(l).acc = a} IN Sum(mine, [l \in mine |-> LineAt(l)[side]])
  IN  [a \in {b \in Joined : \E l \in all : LineAt(l).acc = b} |->
         [debit |-> of(a, "debit"), credit |-> of(a, "credit")]]

Balance(tb, S) == Sum(S, [a \in S |-> tb[a].debit - tb[a].credit])
OfTypes(tb, types) == {a \in DOMAIN tb : chart[a].type \in types}
Pnl(from, to) == LET tb == TrialBalance(from, to)
                 IN  - Balance(tb, OfTypes(tb, {"income"})) - Balance(tb, OfTypes(tb, {"expense"}))
BalanceSheet(end) ==
  LET tb == TrialBalance(1, end)
  IN  [assets |-> Balance(tb, OfTypes(tb, {"asset"})),
       liabilities |-> - Balance(tb, OfTypes(tb, {"liability"})),
       equity |-> - Balance(tb, OfTypes(tb, {"equity"})),
       retained |-> - Balance(tb, OfTypes(tb, {"income"})) - Balance(tb, OfTypes(tb, {"expense"}))]

(* "The trial balance nets to zero", "assets = liabilities + equity" and    *)
(* "an account carrying ledger history can never be removed": whatever      *)
(* accounts are created, given another type or code and deleted while       *)
(* entries are on their way, the reports of every period balance, the       *)
(* profits of two periods that meet add up to the retained earnings, an     *)
(* account with history is live unless its deletion overlapped the posting, *)
(* and no two accounts share a code.                                        *)
ReportsReconcile ==
  /\ \A from, to \in Days :
       LET tb == TrialBalance(from, to)
       IN  /\ Sum(DOMAIN tb, [a \in DOMAIN tb |-> tb[a].debit]) = Sum(DOMAIN tb, [a \in DOMAIN tb |-> tb[a].credit])
           /\ from <= to => Pnl(1, from - 1) + Pnl(from, to) = BalanceSheet(to).retained
  /\ \A end \in Days :
       LET b == BalanceSheet(end) IN b.assets = b.liabilities + b.equity + b.retained
  /\ \A i \in DOMAIN entries : \A a \in Acct \ astray : Names(entries[i], a) => a \in LiveAccts
  /\ \A a, b \in Acct : a # b /\ chart[a].state # "none" => chart[a].code # chart[b].code
=============================================================================
