------------------------------- MODULE Gateway -------------------------------
(***************************************************************************)
(* What an HTTP request meets before any handler does: the address it is   *)
(* judged by (core/client_ip.py), the IP filter with its rules and each    *)
(* worker's copy of them (control_plane/ip_access), and the rate limiter   *)
(* with its counters in Mongo, which the workers share, and the index that *)
(* keeps them single (core/rate_limit.py, the lifespan of main.py).        *)
(***************************************************************************)
EXTENDS Integers, Sequences, SequencesExt, FiniteSets

CONSTANTS
  Call,        \* calls that may be under way at once
  Worker,      \* uvicorn workers
  Client,      \* addresses that send requests
  Address,     \* every address a header may name
  Proxy,       \* ip_trusted_proxies
  Country,     \* [Address -> country code]
  Identity,    \* [kind, type, covers] of the rules there may be
  RuleDoc,     \* rule documents there may be
  Seeds,       \* the identities ip_seed_* configure
  Ttl,         \* ip_rule_cache_ttl_sec
  WindowSec,   \* rate_limit_window_sec
  MaxInWindow, \* rate_limit_max_requests
  MaxTime,     \* bound on the clock
  MaxCalls     \* bound on the calls

ASSUME AddressAssumption == Client \subseteq Address /\ Proxy \subseteq Address /\ Client \cap Proxy = {}
ASSUME TimeAssumption == /\ Ttl \in Nat \ {0} /\ WindowSec \in Nat \ {0} /\ MaxInWindow \in Nat
                         /\ MaxTime \in Nat /\ MaxCalls \in Nat

VARIABLES
  ruleDoc,  \* ip_access_rules: none, on, off or deleted, and the identity
  cache,    \* of each worker: its RuleCache
  counters, \* rate_limit_windows: of each (key, window), its documents' counts
  unique,   \* the unique index over (key, window) stands
  clock,
  inForce,  \* history: for each second, the enabled rules there were
  admitted, \* history: the requests of (client, window) the limiter let through
  guarded,  \* history: the windows whose counters the index saw from the first
  call, asked

gateVars == <<ruleDoc, cache, counters, unique, clock, inForce, admitted, guarded, call, asked>>

Window(t) == t \div WindowSec
Slots     == Address \X (0 .. Window(MaxTime))
NoRule    == [state |-> "none", is |-> CHOOSE i \in Identity : TRUE]
NoCache   == [filled |-> FALSE, rules |-> {}, expires |-> 0]
NoCall    == [op |-> "idle", step |-> "none", worker |-> CHOOSE w \in Worker : TRUE,
              from |-> CHOOSE c \in Client : TRUE, ip |-> CHOOSE c \in Client : TRUE, since |-> 0,
              rules |-> {}, judged |-> FALSE, window |-> 0, rule |-> "none", to |-> "none",
              groups |-> {}]

GateInit ==
  /\ ruleDoc = [d \in RuleDoc |-> NoRule]
  /\ cache = [w \in Worker |-> NoCache]
  /\ counters = [s \in Slots |-> <<>>] /\ unique \in BOOLEAN
  /\ clock = 0 /\ inForce = [t \in 0 .. MaxTime |-> IF t = 0 THEN {{}} ELSE {}]
  /\ admitted = [s \in Slots |-> 0]
  /\ guarded = IF unique THEN 0 .. Window(MaxTime) ELSE {}
  /\ call = [k \in Call |-> NoCall] /\ asked = 0

Calling(k, ops, step) == call[k].op \in ops /\ call[k].step = step
Goto(k, step) == call' = [call EXCEPT ![k].step = step] /\ UNCHANGED asked
Hangup(k)     == call' = [call EXCEPT ![k] = NoCall] /\ UNCHANGED asked
Place(k, q)   ==
  /\ call[k].op = "idle" /\ asked < MaxCalls
  /\ call' = [call EXCEPT ![k] = q] /\ asked' = asked + 1
-----------------------------------------------------------------------------
(* resolve_client_ip.  A chain ends with the hops the proxies appended;     *)
(* "junk" is an entry that is no address.                                   *)
Junk == "junk"
ASSUME JunkAssumption == Junk \notin Address
Usual(hop) == hop # Junk /\ hop \notin Proxy

(* Mutant of ResolveClientIp: the chain is read from the left.              *)
ResolveFromLeft(socket, chain) ==
  IF socket \notin Proxy \/ chain = <<>> THEN socket
  ELSE IF \E i \in DOMAIN chain : Usual(chain[i])
  THEN chain[CHOOSE i \in DOMAIN chain : Usual(chain[i]) /\ \A j \in 1 .. i - 1 : ~ Usual(chain[j])]
  ELSE socket

ResolveClientIp(socket, chain) ==
  LET usual == {i \in DOMAIN chain : Usual(chain[i])}
      valid == {i \in DOMAIN chain : chain[i] # Junk}
  IN  IF socket \notin Proxy THEN socket
      ELSE IF usual # {} THEN chain[CHOOSE i \in usual : \A j \in usual : j <= i]
      ELSE IF valid # {} THEN chain[CHOOSE i \in valid : \A j \in valid : i <= j]
      ELSE socket

(* A client reaches a worker directly or through a proxy; the header it     *)
(* wrote comes first, and each proxy appends the peer it saw.               *)
Forged == BoundedSeq(Address \cup {Junk}, 1)
Routes(c, forged) ==
  {<<c, forged>>} \cup (Proxy \X {Append(forged, c)})
                  \cup (Proxy \X {forged \o <<c, q>> : q \in Proxy})

(* compile_rules keeps the enabled rules; decide: an allow rule, then a     *)
(* deny rule of addresses, then one of the country when it is known.        *)
Enabled == {ruleDoc[d].is : d \in {x \in RuleDoc : ruleDoc[x].state = "on"}}

Hits(i, ip, country) == IF i.type = "country" THEN country \in i.covers ELSE ip \in i.covers
Decide(rules, ip, country) ==
  \/ \E i \in rules : i.kind = "allow" /\ Hits(i, ip, country)
  \/ ~ \E i \in rules : i.kind = "deny" /\ Hits(i, ip, country)
-----------------------------------------------------------------------------
(* The middlewares.  The geo dataset may be missing, unreadable or silent   *)
(* about an address: its country is then unknown, and no country rule hits. *)
Located(ip) == {Country[ip], "unknown"}

(* A request that the filter lets pass is counted next, in the window of    *)
(* that moment.                                                             *)
Judge(k, q) ==
  \E country \in Located(q.ip) :
    call' = [call EXCEPT ![k] =
      IF Decide(q.rules, q.ip, country)
      THEN [q EXCEPT !.step = "count", !.judged = TRUE, !.window = Window(clock)]
      ELSE [q EXCEPT !.step = "refused", !.judged = TRUE]]

Fresh(w) == cache[w].filled /\ clock < cache[w].expires

Arrive(k, w, c) ==
  \E forged \in Forged : \E route \in Routes(c, forged) :
    LET q == [NoCall EXCEPT !.op = "http", !.step = "load", !.worker = w, !.from = c,
                            !.since = clock, !.ip = ResolveClientIp(route[1], route[2])]
    IN  /\ call[k].op = "idle" /\ asked < MaxCalls /\ asked' = asked + 1
        /\ IF Fresh(w) THEN Judge(k, [q EXCEPT !.rules = cache[w].rules])
           ELSE call' = [call EXCEPT ![k] = q]
        /\ UNCHANGED <<ruleDoc, cache, counters, unique, clock, inForce, admitted, guarded>>

(* RuleCache.get on a miss: the rules are read, and kept for a TTL from     *)
(* before the read.                                                         *)
LoadRules(k) ==
  /\ Calling(k, {"http"}, "load")
  /\ call' = [call EXCEPT ![k].rules = Enabled, ![k].step = "keep"] /\ UNCHANGED asked
  /\ UNCHANGED <<ruleDoc, cache, counters, unique, clock, inForce, admitted, guarded>>

(* Mutant of KeepRules: the TTL starts when the rules have come.            *)
KeepFromNow(k) ==
  /\ Calling(k, {"http"}, "keep")
  /\ cache' = [cache EXCEPT ![call[k].worker] =
                 [filled |-> TRUE, rules |-> call[k].rules, expires |-> clock + Ttl]]
  /\ Judge(k, call[k]) /\ UNCHANGED asked
  /\ UNCHANGED <<ruleDoc, counters, unique, clock, inForce, admitted, guarded>>

KeepRules(k) ==
  /\ Calling(k, {"http"}, "keep")
  /\ cache' = [cache EXCEPT ![call[k].worker] =
                 [filled |-> TRUE, rules |-> call[k].rules, expires |-> call[k].since + Ttl]]
  /\ Judge(k, call[k]) /\ UNCHANGED asked
  /\ UNCHANGED <<ruleDoc, counters, unique, clock, inForce, admitted, guarded>>

(* Any exception of the filter lets the request pass.                       *)
FailOpen(k) ==
  /\ Calling(k, {"http"}, "load")
  /\ call' = [call EXCEPT ![k].step = "count", ![k].window = Window(clock)] /\ UNCHANGED asked
  /\ UNCHANGED <<ruleDoc, cache, counters, unique, clock, inForce, admitted, guarded>>

Refuse(k) ==
  /\ Calling(k, {"http"}, "refused") /\ Hangup(k)
  /\ UNCHANGED <<ruleDoc, cache, counters, unique, clock, inForce, admitted, guarded>>

Slot(k) == <<call[k].ip, call[k].window>>
Admit(k, count) ==
  admitted' = [admitted EXCEPT ![<<call[k].from, call[k].window>>] = IF count > MaxInWindow THEN @ ELSE @ + 1]

(* Mutant of Count: the counter is read, and its successor written.         *)
CountByReading(k) ==
  LET s == Slot(k)
      n == IF counters[s] = <<>> THEN 0 ELSE counters[s][1]
  IN  /\ Calling(k, {"http"}, "count")
      /\ IF call[k].groups = {}
         THEN /\ call' = [call EXCEPT ![k].groups = {n}] /\ UNCHANGED <<counters, admitted, asked>>
         ELSE \E seen \in call[k].groups :
                /\ counters' = [counters EXCEPT ![s] = <<seen + 1>>]
                /\ Admit(k, seen + 1) /\ Hangup(k)
      /\ UNCHANGED <<ruleDoc, cache, unique, clock, inForce, guarded>>

(* find_one_and_update with upsert: one document is incremented; when there *)
(* is none and nothing keeps them single, the insert is a moment of its own.*)
Count(k) ==
  LET s == Slot(k)
  IN  /\ Calling(k, {"http"}, "count")
      /\ \/ \E i \in DOMAIN counters[s] :
              /\ counters' = [counters EXCEPT ![s][i] = @ + 1]
              /\ Admit(k, counters[s][i] + 1) /\ Hangup(k)
         \/ /\ counters[s] = <<>> /\ unique
            /\ counters' = [counters EXCEPT ![s] = <<1>>]
            /\ Admit(k, 1) /\ Hangup(k)
         \/ /\ counters[s] = <<>> /\ ~ unique
            /\ Goto(k, "insert") /\ UNCHANGED <<counters, admitted>>
      /\ UNCHANGED <<ruleDoc, cache, unique, clock, inForce, guarded>>

(* The documents of a window have ids of their own, the first of them 1; an *)
(* id a merge has read is nobody else's.                                    *)
NewId(s) ==
  CHOOSE i \in 2 .. MaxCalls + 1 :
    /\ i \notin DOMAIN counters[s]
    /\ \A k \in Call : \A g \in call[k].groups : g.slot = s => i \notin g.ids

Beside(docs, id) == [i \in DOMAIN docs \cup {id} |-> IF i = id THEN 1 ELSE docs[i]]

(* With the index there by now, the server refuses the second document and  *)
(* increments the first.                                                    *)
InsertCounter(k) ==
  LET s == Slot(k)
      n == IF unique /\ counters[s] # <<>> THEN counters[s][1] + 1 ELSE 1
  IN  /\ Calling(k, {"http"}, "insert")
      /\ counters' = [counters EXCEPT ![s] = IF n > 1 THEN [@ EXCEPT ![1] = n]
                                             ELSE IF @ = <<>> THEN <<1>> ELSE Beside(@, NewId(s))]
      /\ Admit(k, n) /\ Hangup(k)
      /\ UNCHANGED <<ruleDoc, cache, unique, clock, inForce, guarded>>
-----------------------------------------------------------------------------
(* The rules.  A write is checked, made, audited and then tells the worker  *)
(* that made it; when the audit raises, nobody is told.                     *)
Known(d) == ruleDoc[d].state \in {"on", "off"}
SetRule(d, rec) ==
  LET after == [ruleDoc EXCEPT ![d] = rec]
  IN  /\ ruleDoc' = after
      /\ inForce' = [inForce EXCEPT ![clock] =
           @ \cup {{after[x].is : x \in {x \in RuleDoc : after[x].state = "on"}}}]

CreateRule(k, w, d, i) ==
  /\ ruleDoc[d].state = "none" /\ \A x \in Call : call[x].rule # d
  /\ ~ \E x \in RuleDoc : Known(x) /\ ruleDoc[x].is = i             \* IP_RULE_EXISTS
  /\ Place(k, [NoCall EXCEPT !.op = "create", !.step = "write", !.worker = w, !.rule = d, !.rules = {i}])
  /\ UNCHANGED <<ruleDoc, cache, counters, unique, clock, inForce, admitted, guarded>>

InsertRule(k) ==
  LET d == call[k].rule
  IN  /\ Calling(k, {"create"}, "write")
      /\ SetRule(d, [state |-> "on", is |-> CHOOSE i \in call[k].rules : TRUE])
      /\ Goto(k, "tell")
      /\ UNCHANGED <<cache, counters, unique, clock, admitted, guarded>>

PatchRule(k, w, d, to) ==
  /\ Known(d)
  /\ Place(k, [NoCall EXCEPT !.op = "patch", !.step = "write", !.worker = w, !.rule = d, !.to = to])
  /\ UNCHANGED <<ruleDoc, cache, counters, unique, clock, inForce, admitted, guarded>>

DeleteRule(k, w, d) ==
  /\ Known(d)
  /\ Place(k, [NoCall EXCEPT !.op = "patch", !.step = "write", !.worker = w, !.rule = d, !.to = "deleted"])
  /\ UNCHANGED <<ruleDoc, cache, counters, unique, clock, inForce, admitted, guarded>>

(* A rule that was deleted since stays deleted.                             *)
UpdateRule(k) ==
  LET d == call[k].rule
  IN  /\ Calling(k, {"patch"}, "write")
      /\ SetRule(d, [ruleDoc[d] EXCEPT !.state = IF @ = "deleted" THEN @ ELSE call[k].to])
      /\ Goto(k, "tell")
      /\ UNCHANGED <<cache, counters, unique, clock, admitted, guarded>>

InvalidateRuleCache(k) ==
  /\ Calling(k, {"create", "patch"}, "tell")
  /\ cache' = [cache EXCEPT ![call[k].worker] = NoCache]
  /\ Hangup(k)
  /\ UNCHANGED <<ruleDoc, counters, unique, clock, inForce, admitted, guarded>>

AuditRaises(k) ==
  /\ Calling(k, {"create", "patch"}, "tell")
  /\ Hangup(k)
  /\ UNCHANGED <<ruleDoc, cache, counters, unique, clock, inForce, admitted, guarded>>

(* seed_ip_access_rules: an upsert that leaves a rule of this identity      *)
(* alone, a deleted one too.                                                *)
SeedRule(d, i) ==
  /\ i \in Seeds /\ ruleDoc[d].state = "none" /\ \A x \in Call : call[x].rule # d
  /\ \A x \in RuleDoc : ruleDoc[x].state # "none" => ruleDoc[x].is # i
  /\ asked < MaxCalls /\ asked' = asked + 1
  /\ SetRule(d, [state |-> "on", is |-> i])
  /\ UNCHANGED <<cache, counters, unique, clock, admitted, guarded, call>>
-----------------------------------------------------------------------------
(* A worker starts: its calls and its copy of the rules are gone, and it    *)
(* builds the index.                                                        *)
StartWorker(k, w) ==
  /\ call[k].op = "idle" \/ call[k].worker = w
  /\ asked < MaxCalls /\ asked' = asked + 1
  /\ call' = [x \in Call |-> IF x = k THEN [NoCall EXCEPT !.op = "start", !.step = "index", !.worker = w]
                             ELSE IF call[x].op # "idle" /\ call[x].worker = w THEN NoCall ELSE call[x]]
  /\ cache' = [cache EXCEPT ![w] = NoCache]
  /\ UNCHANGED <<ruleDoc, counters, unique, clock, inForce, admitted, guarded>>

Double == {s \in Slots : Cardinality(DOMAIN counters[s]) > 1}
Total(s) == FoldFunction(+, 0, counters[s])

(* _create_unique_index: built, or, when documents are double, after they   *)
(* are merged; a second failure is swallowed by the lifespan.               *)
CreateIndex(k) ==
  /\ Calling(k, {"start"}, "index") \/ Calling(k, {"start"}, "again")
  /\ IF Double = {}
     THEN /\ unique' = TRUE
          /\ guarded' = guarded \cup {n \in 0 .. Window(MaxTime) :
               /\ n >= Window(clock) /\ \A a \in Address : counters[<<a, n>>] = <<>>
               /\ \A x \in Call : ~ (Calling(x, {"http"}, "insert") /\ call[x].window = n)}
          /\ Hangup(k)
     ELSE /\ IF call[k].step = "index" THEN Goto(k, "find") ELSE Hangup(k)
          /\ UNCHANGED <<unique, guarded>>
  /\ UNCHANGED <<ruleDoc, cache, counters, clock, inForce, admitted>>

(* _merge_duplicate_docs reads the groups, then sets the first document of  *)
(* each to the sum it read, and deletes the others it read.                 *)
FindDuplicates(k) ==
  /\ Calling(k, {"start"}, "find")
  /\ call' = [call EXCEPT ![k].step = "merge",
    ![k].groups = {[slot |-> s, ids |-> DOMAIN counters[s], sum |-> Total(s)] : s \in Double}]
  /\ UNCHANGED <<ruleDoc, cache, counters, unique, clock, inForce, admitted, guarded, asked>>

SumUp(k) ==
  /\ Calling(k, {"start"}, "merge")
  /\ IF call[k].groups = {} THEN Goto(k, "again") /\ UNCHANGED counters
     ELSE \E g \in call[k].groups :
            /\ counters' = [counters EXCEPT ![g.slot] = IF @ = <<>> THEN @ ELSE [@ EXCEPT ![1] = g.sum]]
            /\ call' = [call EXCEPT ![k].step = "drop", ![k].groups = {g} \cup (@ \ {g}),
                                    ![k].window = g.slot[2], ![k].ip = g.slot[1]]
            /\ UNCHANGED asked
  /\ UNCHANGED <<ruleDoc, cache, unique, clock, inForce, admitted, guarded>>

Others(k) == UNION {g.ids \ {1} : g \in {g \in call[k].groups : g.slot = Slot(k)}}
DropOthers(k) ==
  /\ Calling(k, {"start"}, "drop")
  /\ counters' = [counters EXCEPT ![Slot(k)] = Restrict(@, DOMAIN @ \ Others(k))]
  /\ call' = [call EXCEPT ![k].step = "merge", ![k].groups = {g \in @ : g.slot # Slot(k)}]
  /\ UNCHANGED <<ruleDoc, cache, unique, clock, inForce, admitted, guarded, asked>>

(* Nothing depends on the time before the first call.                       *)
Tick ==
  /\ clock < MaxTime /\ asked > 0
  /\ clock' = clock + 1
  /\ inForce' = [inForce EXCEPT ![clock + 1] = {Enabled}]
  /\ UNCHANGED <<ruleDoc, cache, counters, unique, admitted, guarded, call, asked>>
-----------------------------------------------------------------------------
Serve(k) ==
  \/ LoadRules(k) \/ KeepRules(k) \/ FailOpen(k) \/ Refuse(k) \/ Count(k) \/ InsertCounter(k)
  \/ InsertRule(k) \/ UpdateRule(k) \/ InvalidateRuleCache(k) \/ AuditRaises(k)
  \/ CreateIndex(k) \/ FindDuplicates(k) \/ SumUp(k) \/ DropOthers(k)

Ask(k) ==
  \E w \in Worker :
    \/ \E c \in Client : Arrive(k, w, c)
    \/ \E d \in RuleDoc, i \in Identity : CreateRule(k, w, d, i)
    \/ \E d \in RuleDoc, to \in {"on", "off"} : PatchRule(k, w, d, to)
    \/ \E d \in RuleDoc : DeleteRule(k, w, d)
    \/ StartWorker(k, w)

GateNext ==
  \/ \E k \in Call : Serve(k) \/ Ask(k)
  \/ \E d \in RuleDoc, i \in Identity : SeedRule(d, i)
  \/ Tick

GateSpec == GateInit /\ [][GateNext]_gateVars
-----------------------------------------------------------------------------
(* A request is judged, counted and recorded under the address it came      *)
(* from, whatever it wrote into X-Forwarded-For and however many trusted    *)
(* proxies it passed (client_ip.py: "prevents client-IP spoofing while      *)
(* still resolving the real client").                                       *)
NoSpoofing == \A k \in Call : call[k].op = "http" => call[k].ip = call[k].from

(* The rules a request is judged by were in force less than a TTL before it *)
(* came, or since: however loads, edits, invalidations, restarts and other  *)
(* workers overlap, and when the audit of an edit raised ("every other      *)
(* worker refreshes within the TTL").                                       *)
RulesFresh ==
  \A k \in Call : call[k].op = "http" /\ call[k].judged =>
    \E t \in 0 .. clock : t > call[k].since - Ttl /\ call[k].rules \in inForce[t]

(* "A single limit holds across multiple uvicorn workers": in a window      *)
(* whose counters the unique index saw from the first, an address has no    *)
(* more requests admitted than the limit, whatever merges, restarts and     *)
(* late requests there are.                                                 *)
WindowHolds ==
  \A s \in Slots : s[2] \in guarded => admitted[s] <= MaxInWindow /\ Cardinality(DOMAIN counters[s]) <= 1
=============================================================================
