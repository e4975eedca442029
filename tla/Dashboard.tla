----------------------------- MODULE Dashboard -----------------------------
(***************************************************************************)
(* modules/dashboard for one person: the activity feed read page by page   *)
(* while entries are written, the suggestions with what was dismissed, and *)
(* the quick actions with the pins, the hides and the ranking.  What the   *)
(* person may see or do changes meanwhile.                                 *)
(***************************************************************************)
EXTENDS Integers, Sequences, SequencesExt, FiniteSets, FiniteSetsExt

CONSTANTS
  Modules,     \* KNOWN_MODULES
  Elsewhere,   \* what the entries of no module carry ("auth")
  RULES,       \* the suggestions, by falling priority: [key, module]
  QUICK_ACTIONS, \* in their order: [key, module]
  Tab,         \* requests that may be under way at once
  Limit,       \* entries of a page of the feed
  StripLimit,  \* suggestion_limit
  DismissDays,         \* days a dismissal lasts
  RankDays,    \* days of activity the ranking looks at, in half-lives
  Wishes,      \* the pins and hides that may be asked for: [pinned, hidden]
  MaxEntries,  \* bound on the entries
  MaxSignal,   \* bound on the count behind a suggestion
  MaxDay,      \* bound on the days
  MaxChanges   \* bound on the changes of levels, and on the requests

Keys     == {RULES[i].key : i \in DOMAIN RULES}
Shortcut == {QUICK_ACTIONS[i].key : i \in DOMAIN QUICK_ACTIONS}

ASSUME LimitsAssumption == {Limit, StripLimit, DismissDays, RankDays} \subseteq Nat \ {0} /\ Elsewhere \notin Modules
ASSUME DayBounds        == {MaxEntries, MaxSignal, MaxDay, MaxChanges} \subseteq Nat
ASSUME CatalogAssumption ==
  /\ RULES \in Seq([key : Keys, module : Modules]) /\ QUICK_ACTIONS \in Seq([key : Shortcut, module : Modules])
  /\ \A i, j \in DOMAIN RULES : RULES[i].key = RULES[j].key => i = j
  /\ \A i, j \in DOMAIN QUICK_ACTIONS : QUICK_ACTIONS[i].key = QUICK_ACTIONS[j].key => i = j
(* What is asked for goes through dict.fromkeys: no pin comes twice.        *)
ASSUME WishesAssumption == \A x \in Wishes : x.pinned \in Seq(Shortcut) /\ IsInjective(x.pinned)

VARIABLES
  level,      \* of each module: 0 when off or NONE, 1 READ, 2 WRITE
  day,
  log,        \* activity_log: [id, module, action, day]
  feed,       \* a walk through the feed: its cursor, what it got
  signal,     \* of each suggestion, how much is due
  dismissed,  \* suggestion_dismissals: entries [key, signal, at]
  prefs,      \* quick_action_prefs: pinned, hidden
  pending,    \* per request: what it does and what it has read
  waved,      \* history: the dismissals that were answered, in order
  clashed,    \* history: two dismissals overlapped
  changes     \* history: how many changes of levels and requests there were

dashboardVars == <<level, day, log, feed, signal, dismissed, prefs, pending, waved, clashed, changes>>

NoWalk   == [state |-> "none", module |-> Elsewhere, cursor |-> 0, got |-> <<>>, since |-> {}, may |-> {}]
NoRequest   == [op |-> "none", key |-> "none", signal |-> 0, entries |-> {}, prefs |-> [pinned |-> <<>>, hidden |-> {}]]
NoPrefs  == [pinned |-> <<>>, hidden |-> {}]
Counted  == changes < MaxChanges /\ changes' = changes + 1

DashboardInit ==
  /\ level = [m \in Modules |-> 2] /\ day = 0 /\ log = {} /\ feed = NoWalk
  /\ signal = [k \in Keys |-> 0] /\ dismissed = {} /\ prefs = NoPrefs
  /\ pending = [c \in Tab |-> NoRequest] /\ waved = <<>> /\ clashed = FALSE /\ changes = 0

(* What ahead is defined for, in its order: ahead[x] comes before x.        *)
InOrder(ahead) ==
  [n \in 1 .. Cardinality(DOMAIN ahead) |-> CHOOSE x \in DOMAIN ahead : Cardinality(ahead[x]) = n - 1]
Rising(S)  == InOrder([x \in S |-> {y \in S : y < x}])
Falling(S) == InOrder([x \in S |-> {y \in S : y > x}])
Top(n, s)  == SubSeq(s, 1, Min({n, Len(s)}))

(* A role is edited, or a module switched. *)
SetLevel(m, l) ==
  /\ l # level[m] /\ Counted
  /\ level' = [level EXCEPT ![m] = l]
  /\ UNCHANGED <<day, log, feed, signal, dismissed, prefs, pending, waved, clashed>>

NextDay ==
  /\ day < MaxDay /\ day' = day + 1
  /\ UNCHANGED <<level, log, feed, signal, dismissed, prefs, pending, waved, clashed, changes>>

(* write_activity: an identifier is drawn before its insert arrives, by     *)
(* several workers, so that entries do not arrive in their order.           *)
WriteActivity(id, m, action) ==
  /\ \A e \in log : e.id # id
  /\ log' = log \cup {[id |-> id, module |-> m, action |-> action, day |-> day]}
  /\ UNCHANGED <<level, day, feed, signal, dismissed, prefs, pending, waved, clashed, changes>>
-----------------------------------------------------------------------------
(* activity, activity_page: the module asked for, or all but the modules    *)
(* below READ; the entries before the cursor, the newest first.             *)
Readable == {m \in Modules : level[m] >= 1}
Filtered(m) == IF m \in Modules THEN {m} \cap Readable ELSE Readable \cup {Elsewhere}

(* Mutant of Before: the cursor's own entry comes again.                    *)
BeforeOrAt(cursor) == {e \in log : cursor # 0 => e.id <= cursor}
Before(cursor) == {e \in log : cursor # 0 => e.id < cursor}

Page(m, cursor) == Top(Limit, Falling({e.id : e \in {x \in Before(cursor) : x.module \in Filtered(m)}}))

OpenFeed(m) ==
  /\ feed.state = "none"
  /\ feed' = [state |-> "open", module |-> m, cursor |-> 0, got |-> <<>>, since |-> log, may |-> Filtered(m)]
  /\ UNCHANGED <<level, day, log, signal, dismissed, prefs, pending, waved, clashed, changes>>

ReadPage ==
  LET page == Page(feed.module, feed.cursor)
  IN  /\ feed.state = "open"
      /\ feed' = [state |-> IF Len(page) = Limit THEN "open" ELSE "done", module |-> feed.module,
                  cursor |-> IF page = <<>> THEN feed.cursor ELSE Last(page), got |-> feed.got \o page,
                  since |-> feed.since, may |-> feed.may \cap Filtered(feed.module)]
      /\ UNCHANGED <<level, day, log, signal, dismissed, prefs, pending, waved, clashed, changes>>
-----------------------------------------------------------------------------
(* _live_suggestions: the rules that fire and that the person may act on.   *)
LiveRules == {i \in DOMAIN RULES : level[RULES[i].module] = 2 /\ signal[RULES[i].key] > 0}

(* _suppressed *)
Suppressed(k) == \E d \in dismissed : d.key = k /\ day - d.at < DismissDays /\ signal[k] <= d.signal

(* suggestions *)
Strip ==
  LET shown == Top(StripLimit, Rising({i \in LiveRules : ~ Suppressed(RULES[i].key)}))
  IN  {RULES[shown[n]].key : n \in DOMAIN shown}

Accrue(k, n) ==
  /\ n # signal[k]
  /\ signal' = [signal EXCEPT ![k] = n]
  /\ UNCHANGED <<level, day, log, feed, dismissed, prefs, pending, waved, clashed, changes>>

(* dismiss_suggestion: the signal is read (0 for what is not live), then    *)
(* the entries, then these are written back with the new one.               *)
AskDismissal(c, k) ==
  /\ pending[c].op = "none" /\ Counted
  /\ LET n == IF \E i \in LiveRules : RULES[i].key = k THEN signal[k] ELSE 0
     IN  pending' = [pending EXCEPT ![c] = [NoRequest EXCEPT !.op = "read", !.key = k, !.signal = n]]
  /\ clashed' = (clashed \/ \E x \in Tab : pending[x].op \in {"read", "write"})
  /\ UNCHANGED <<level, day, log, feed, signal, dismissed, prefs, waved>>

ReadDismissals(c) ==
  /\ pending[c].op = "read"
  /\ pending' = [pending EXCEPT ![c].op = "write", ![c].entries = dismissed]
  /\ UNCHANGED <<level, day, log, feed, signal, dismissed, prefs, waved, clashed, changes>>

WriteDismissals(c) ==
  LET new == [key |-> pending[c].key, signal |-> pending[c].signal, at |-> day]
  IN  /\ pending[c].op = "write"
      /\ dismissed' = {d \in pending[c].entries : d.key # new.key} \cup {new}
      /\ waved' = Append(waved, new)
      /\ pending' = [pending EXCEPT ![c] = NoRequest]
      /\ UNCHANGED <<level, day, log, feed, signal, prefs, clashed, changes>>
-----------------------------------------------------------------------------
(* _candidates: every action needs WRITE. *)
Candidates == {i \in DOMAIN QUICK_ACTIONS : level[QUICK_ACTIONS[i].module] = 2}
Permitted  == {QUICK_ACTIONS[i].key : i \in Candidates}

(* _decay, _score: a day is a half-life; an exact event counts three times  *)
(* as much as one of the module.                                            *)
Decay(e)      == 2 ^ (RankDays - (day - e.day))
Worth(events) == Cardinality({x \in events \X (1 .. 2 ^ RankDays) : x[2] <= Decay(x[1])})
Score(i) ==
  LET recent == {e \in log : day - e.day < RankDays}
  IN  3 * Worth({e \in recent : e.action = QUICK_ACTIONS[i].key})
        + Worth({e \in recent : e.module = QUICK_ACTIONS[i].module})

(* quick_actions: the pinned ones in the order of the pins, then the rest   *)
(* by score and declaration, without the hidden ones.                       *)
Unhidden == {i \in Candidates : QUICK_ACTIONS[i].key \notin prefs.hidden}
Pinned   == {n \in DOMAIN prefs.pinned : \E i \in Unhidden : QUICK_ACTIONS[i].key = prefs.pinned[n]}
Unpinned == {<<Score(i), i>> : i \in {n \in Unhidden : QUICK_ACTIONS[n].key \notin ToSet(prefs.pinned)}}
Ahead(x, y) == x[1] > y[1] \/ (x[1] = y[1] /\ x[2] < y[2])
Offered ==
  LET first == Rising(Pinned)
      rest  == LET S == Unpinned IN InOrder([x \in S |-> {y \in S : Ahead(y, x)}])
  IN  [n \in DOMAIN first |-> prefs.pinned[first[n]]] \o [n \in DOMAIN rest |-> QUICK_ACTIONS[rest[n][2]].key]

(* set_quick_action_prefs: only what the person may do now, and not both.   *)
AskPrefs(c, pinned, hidden) ==
  /\ pending[c].op = "none" /\ Counted
  /\ ToSet(pinned) \cup hidden \subseteq Permitted /\ ToSet(pinned) \cap hidden = {}
  /\ pending' = [pending EXCEPT ![c] = [NoRequest EXCEPT !.op = "prefs", !.prefs = [pinned |-> pinned, hidden |-> hidden]]]
  /\ UNCHANGED <<level, day, log, feed, signal, dismissed, prefs, waved, clashed>>

WritePrefs(c) ==
  /\ pending[c].op = "prefs"
  /\ prefs' = pending[c].prefs
  /\ pending' = [pending EXCEPT ![c] = NoRequest]
  /\ UNCHANGED <<level, day, log, feed, signal, dismissed, waved, clashed, changes>>
-----------------------------------------------------------------------------
LevelChanges == \E m \in Modules, l \in 0 .. 2 : SetLevel(m, l)
FeedNext ==
  \/ \E id \in 1 .. MaxEntries, m \in Modules \cup {Elsewhere} : WriteActivity(id, m, "none")
  \/ \E m \in Modules \cup {Elsewhere} : OpenFeed(m)
  \/ ReadPage
StripNext ==
  \/ \E k \in Keys, n \in 0 .. MaxSignal : Accrue(k, n)
  \/ \E c \in Tab : ReadDismissals(c) \/ WriteDismissals(c) \/ \E k \in Keys : AskDismissal(c, k)
(* The person acts himself: the ranking does not look at identifiers.       *)
ActionNext ==
  \/ \E i \in DOMAIN QUICK_ACTIONS :
       Cardinality(log) < MaxEntries /\ WriteActivity(Cardinality(log) + 1, QUICK_ACTIONS[i].module, QUICK_ACTIONS[i].key)
  \/ \E c \in Tab : WritePrefs(c) \/ \E x \in Wishes : AskPrefs(c, x.pinned, x.hidden)

DashboardNext == LevelChanges \/ NextDay \/ FeedNext \/ StripNext \/ ActionNext
DashboardSpec == DashboardInit /\ [][DashboardNext]_dashboardVars
-----------------------------------------------------------------------------
(* A walk through the feed gets nothing twice and misses no entry that was  *)
(* there when it began and that the person could read all along, although   *)
(* entries arrive out of order and levels change between the pages.         *)
FeedWhole ==
  /\ \A i, j \in DOMAIN feed.got : i < j => feed.got[i] > feed.got[j]
  /\ feed.state = "done" => {e.id : e \in {x \in feed.since : x.module \in feed.may}} \subseteq ToSet(feed.got)

(* What is due and may be done is suggested, unless there are StripLimit    *)
(* suggestions before it or the person dismissed it, less than DismissDays days ago *)
(* and when no less was due; what was dismissed last stays away that long,  *)
(* unless two dismissals overlapped (each writes all the entries).          *)
Hushed(d)  == day - d.at < DismissDays /\ signal[d.key] <= d.signal
Latest(k)  == {waved[i] : i \in {n \in DOMAIN waved : waved[n].key = k /\ \A x \in n + 1 .. Len(waved) : waved[x].key # k}}
StripHonest ==
  LET strip == Strip
  IN  /\ \A i \in LiveRules :
           RULES[i].key \in strip \/ Cardinality(strip) = StripLimit
             \/ \E d \in ToSet(waved) : d.key = RULES[i].key /\ Hushed(d)
      /\ ~ clashed => \A k \in strip : \A d \in Latest(k) : ~ Hushed(d)

(* Every action the person may take is offered once or was hidden, none he  *)
(* may not; and somebody who did nothing yet gets the order of declaration. *)
ActionsOffered ==
  LET offered  == Offered
      declared == Rising(Candidates)
  IN  /\ IsInjective(offered) /\ ToSet(offered) = Permitted \ prefs.hidden
      /\ log = {} /\ prefs = NoPrefs => offered = [n \in DOMAIN declared |-> QUICK_ACTIONS[declared[n]].key]

(* A person misses nothing and is bothered by nothing he dismissed, however *)
(* requests overlap and levels change: the feed, the strip of suggestions   *)
(* and the quick actions.                                                   *)
NothingMissed == FeedWhole /\ StripHonest /\ ActionsOffered
=============================================================================
