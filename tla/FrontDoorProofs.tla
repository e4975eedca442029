--------------------------- MODULE FrontDoorProofs ---------------------------
(***************************************************************************)
(* Proofs about what a request meets before a handler: the address it is    *)
(* judged by, the rules and the limit (Gateway); who may sign in, stays     *)
(* signed in and manages a realm (Accounts); and what a person is shown     *)
(* then (Dashboard).  The three are specifications of their own; they share *)
(* no variable.                                                             *)
(***************************************************************************)
EXTENDS Accounts, Gateway, Dashboard, FiniteSetTheorems, SequenceTheorems, TLAPS

-----------------------------------------------------------------------------
(***************************************************************************)
(* The gateway.                                                             *)
(***************************************************************************)
(* What a call is made of, but for the groups a merge has read.             *)
GateOps   == {"idle", "http", "create", "patch", "start"}
GateSteps == {"none", "load", "keep", "count", "insert", "refused", "write", "tell",
              "index", "again", "find", "merge", "drop"}
AnyRule   == Identity \cup {NoRule.is}
CallOf(G) == [op : GateOps, step : GateSteps, worker : Worker \cup {NoCall.worker},
              from : Client \cup {NoCall.from}, ip : Address \cup {NoCall.ip}, since : Int,
              rules : SUBSET AnyRule, judged : BOOLEAN, window : Int, rule : RuleDoc \cup {"none"},
              to : {"none", "on", "off", "deleted"}, groups : G]

(* A request carries the address it came from; it is judged from "keep" on. *)
Wellformed(q) ==
  /\ q \in CallOf({q.groups})
  /\ q.op = "http" => /\ q.ip = q.from /\ q.from \in Client
                      /\ q.step \in {"load", "keep", "count", "insert", "refused"}
                      /\ q.step \in {"load", "keep"} => ~ q.judged
  /\ q.op # "http" => q.step \notin {"load", "keep", "count", "insert", "refused"}
  /\ q.op = "create" => q.rules # {}
  /\ q.op \in {"create", "patch"} => q.rule \in RuleDoc
CallShape == call = [k \in Call |-> call[k]] /\ \A k \in Call : Wellformed(call[k])

GateShape ==
  /\ CallShape
  /\ clock \in 0 .. MaxTime
  /\ ruleDoc \in [RuleDoc -> [state : {"none", "on", "off", "deleted"}, is : AnyRule]]
  /\ cache \in [Worker -> [filled : BOOLEAN, rules : SUBSET AnyRule, expires : Int]]
  /\ inForce \in [0 .. MaxTime -> SUBSET (SUBSET AnyRule)]
  /\ admitted \in [Slots -> Nat] /\ counters = [s \in Slots |-> counters[s]] /\ unique \in BOOLEAN

(* What a merge has read of a window is there to be merged, and no window   *)
(* the index saw from the first.                                            *)
Merging(s) == s \in Slots /\ counters[s] # <<>> /\ s[2] \notin guarded
GroupsKnown ==
  \A k \in Call : call[k].op = "start" =>
    /\ call[k].step \in {"merge", "drop"} => \A g \in call[k].groups : Merging(g.slot)
    /\ call[k].step = "drop" => Merging(Slot(k))
-----------------------------------------------------------------------------
(* However many trusted proxies a request passed and whatever it wrote      *)
(* itself, the address it came from is the last that is no proxy's.         *)
LEMMA RouteResolves ==
  ASSUME NEW c \in Client, NEW forged \in Forged, NEW route \in Routes(c, forged)
  PROVE  ResolveClientIp(route[1], route[2]) = c
<1> DEFINE S == Address \cup {Junk}
           m == Len(forged)
<1>1. forged \in Seq(S) /\ m \in Nat /\ DOMAIN forged = 1 .. m
  <2>1. PICK n \in 0 .. 1 : forged \in [1 .. n -> S]
    BY DEF Forged, BoundedSeq, SeqOf
  <2>2. forged \in Seq(S)
    BY <2>1
  <2>3. QED BY <2>2, LenProperties
<1>2. c \in S /\ c # Junk /\ c \notin Proxy /\ Proxy \subseteq S
  BY AddressAssumption, JunkAssumption
<1>3. ASSUME NEW chain, NEW n \in Nat, DOMAIN chain = 1 .. n, m + 1 <= n, chain[m + 1] = c,
             \A i \in m + 2 .. n : chain[i] \in Proxy, NEW p \in Proxy
      PROVE  ResolveClientIp(p, chain) = c
  <2> DEFINE usual == {i \in DOMAIN chain : Usual(chain[i])}
  <2>1. m + 1 \in usual /\ \A j \in usual : j <= m + 1
    BY <1>1, <1>2, <1>3 DEF Usual
  <2>2. usual \subseteq Int
    BY <1>3
  <2> HIDE DEF usual
  <2>3. (CHOOSE i \in usual : \A j \in usual : j <= i) = m + 1
    <3>1. \A i \in usual : (\A j \in usual : j <= i) => i = m + 1
      BY <2>1, <2>2, <1>1
    <3>2. PICK i \in usual : i = (CHOOSE k \in usual : \A j \in usual : j <= k)
                             /\ \A j \in usual : j <= i
      BY <2>1
    <3>3. QED BY <3>1, <3>2
  <2>4. QED BY <1>3, <2>1, <2>3 DEF ResolveClientIp, usual
<1>4. CASE route = <<c, forged>>
  BY <1>2, <1>4 DEF ResolveClientIp
<1>5. CASE route \in Proxy \X {Append(forged, c)}
  <2> DEFINE chain == Append(forged, c)
  <2>1. /\ Append(forged, c) \in Seq(S) /\ Len(Append(forged, c)) = m + 1
        /\ Append(forged, c)[m + 1] = c
    BY <1>1, <1>2, AppendProperties
  <2>2. DOMAIN Append(forged, c) = 1 .. m + 1
    BY <2>1, LenProperties
  <2>3. chain[m + 1] = c /\ DOMAIN chain = 1 .. m + 1
    BY <2>1, <2>2
  <2>4. route[1] \in Proxy /\ route[2] = chain
    BY <1>5
  <2> HIDE DEF chain
  <2>5. \A i \in m + 2 .. m + 1 : chain[i] \in Proxy
    BY <1>1
  <2>6. ResolveClientIp(route[1], chain) = c
    BY <1>1, <1>3, <2>3, <2>4, <2>5
  <2>7. QED BY <2>4, <2>6
<1>6. CASE route \in Proxy \X {forged \o <<c, q>> : q \in Proxy}
  <2>1. PICK q \in Proxy : route[1] \in Proxy /\ route[2] = forged \o <<c, q>>
    BY <1>6
  <2>2. <<c, q>> \in Seq(S) /\ Len(<<c, q>>) = 2 /\ <<c, q>>[1] = c /\ <<c, q>>[2] = q
    BY <1>2
  <2> DEFINE chain == forged \o <<c, q>>
  <2>3. /\ chain \in Seq(S) /\ Len(chain) = m + 2
        /\ \A i \in 1 .. m + 2 : chain[i] = IF i <= m THEN forged[i] ELSE <<c, q>>[i - m]
    BY <1>1, <2>2, ConcatProperties
  <2>4. DOMAIN chain = 1 .. m + 2
    BY <2>3, LenProperties
  <2>5. route[2] = chain
    BY <2>1
  <2> HIDE DEF chain
  <2>6. chain[m + 1] = c /\ \A i \in m + 2 .. m + 2 : chain[i] \in Proxy
    BY <1>1, <2>2, <2>3
  <2>7. ResolveClientIp(route[1], chain) = c
    BY <1>1, <1>3, <2>1, <2>4, <2>6
  <2>8. QED BY <2>5, <2>7
<1>7. QED BY <1>4, <1>5, <1>6 DEF Routes

-----------------------------------------------------------------------------
LEMMA OneCall ==
  ASSUME CallShape, NEW k \in Call, NEW q, Wellformed(q), call' = [call EXCEPT ![k] = q]
  PROVE  CallShape'
BY DEF CallShape

LEMMA NoCallWellformed == Wellformed(NoCall)
BY DEF Wellformed, CallOf, NoCall, GateOps, GateSteps

(* A step of a call that stays at its operation.                            *)
LEMMA StepWellformed ==
  ASSUME NEW q, Wellformed(q), NEW step \in GateSteps,
         q.op = "http" => /\ step \in {"load", "keep", "count", "insert", "refused"}
                          /\ step \in {"load", "keep"} => ~ q.judged,
         q.op # "http" => step \notin {"load", "keep", "count", "insert", "refused"}
  PROVE  Wellformed([q EXCEPT !.step = step])
BY DEF Wellformed, CallOf

LEMMA GotoShape ==
  ASSUME CallShape, NEW k \in Call, NEW step \in GateSteps, Goto(k, step),
         call[k].op = "http" => /\ step \in {"load", "keep", "count", "insert", "refused"}
                                /\ step \in {"load", "keep"} => ~ call[k].judged,
         call[k].op # "http" => step \notin {"load", "keep", "count", "insert", "refused"}
  PROVE  CallShape'
<1>1. Wellformed(call[k])
  BY DEF CallShape
<1> DEFINE q == [call[k] EXCEPT !.step = step]
<1>2. Wellformed(q)
  BY <1>1, StepWellformed
<1>3. call' = [call EXCEPT ![k] = q]
  BY DEF Goto
<1> HIDE DEF q
<1>4. QED BY <1>2, <1>3, OneCall

LEMMA HangupShape ==
  ASSUME CallShape, NEW k \in Call, Hangup(k)
  PROVE  CallShape'
BY OneCall, NoCallWellformed DEF Hangup

LEMMA JudgeShape ==
  ASSUME CallShape, NEW k \in Call, NEW q, Wellformed(q), q.op = "http", Judge(k, q),
         clock \in Nat
  PROVE  CallShape'
<1>1. PICK country \in Located(q.ip) : call' = [call EXCEPT ![k] =
      IF Decide(q.rules, q.ip, country)
      THEN [q EXCEPT !.step = "count", !.judged = TRUE, !.window = Window(clock)]
      ELSE [q EXCEPT !.step = "refused", !.judged = TRUE]]
  BY DEF Judge
<1>2. Wellformed([q EXCEPT !.step = "refused", !.judged = TRUE])
  BY ZenonT(40) DEF Wellformed, CallOf, GateSteps
<1>3. Window(clock) \in Int
  BY TimeAssumption DEF Window
<1>4. Wellformed([q EXCEPT !.step = "count", !.judged = TRUE, !.window = Window(clock)])
  BY <1>3 DEF Wellformed, CallOf, GateSteps
<1>5. QED BY <1>1, <1>2, <1>4, OneCall

LEMMA ArriveShape ==
  ASSUME CallShape, clock \in Nat, NEW k \in Call, NEW w \in Worker, NEW c \in Client, Arrive(k, w, c),
         \A v \in Worker : cache[v].filled => cache[v].rules \subseteq AnyRule
  PROVE  CallShape'
<1> DEFINE q == [NoCall EXCEPT !.op = "http", !.step = "load", !.worker = w, !.from = c,
                               !.since = clock, !.ip = c]
<1>1. IF Fresh(w) THEN Judge(k, [q EXCEPT !.rules = cache[w].rules]) ELSE call' = [call EXCEPT ![k] = q]
  BY RouteResolves DEF Arrive
<1>2. Wellformed(q) /\ q.op = "http"
  <2>1. NoCall \in CallOf({NoCall.groups}) /\ NoCall.judged = FALSE
    BY NoCallWellformed DEF Wellformed, NoCall
  <2>2. c \in Address /\ clock \in Int
    BY AddressAssumption
  <2>3. q \in CallOf({q.groups}) /\ q.op = "http" /\ q.step = "load" /\ q.from = c /\ q.ip = c /\ ~ q.judged
    BY <2>1, <2>2 DEF CallOf, GateOps, GateSteps
  <2>4. QED BY <2>3 DEF Wellformed
<1> HIDE DEF q
<1>3. CASE Fresh(w)
  <2>1. cache[w].rules \subseteq AnyRule
    BY <1>3 DEF Fresh
  <2> DEFINE p == [q EXCEPT !.rules = cache[w].rules]
  <2>2. Wellformed(p) /\ p.op = "http"
    BY <1>2, <2>1 DEF Wellformed, CallOf
  <2>3. Judge(k, p)
    BY <1>1, <1>3
  <2> HIDE DEF p
  <2>4. QED BY <2>2, <2>3, JudgeShape
<1>4. CASE ~ Fresh(w)
  BY <1>1, <1>2, <1>4, OneCall
<1>5. QED BY <1>3, <1>4

LEMMA StartShape ==
  ASSUME CallShape, NEW k \in Call, NEW w \in Worker, StartWorker(k, w)
  PROVE  CallShape'
<1> DEFINE q == [NoCall EXCEPT !.op = "start", !.step = "index", !.worker = w]
<1>1. NoCall \in CallOf({NoCall.groups})
  BY NoCallWellformed DEF Wellformed
<1>2. Wellformed(q)
  BY <1>1 DEF Wellformed, CallOf, GateOps, GateSteps
<1>3. \E M \in SUBSET Call : call' = [x \in Call |-> IF x = k THEN q ELSE IF x \in M THEN NoCall ELSE call[x]]
  <2> DEFINE M == {x \in Call : call[x].op # "idle" /\ call[x].worker = w}
  <2>1. call' = [x \in Call |-> IF x = k THEN q ELSE IF x \in M THEN NoCall ELSE call[x]]
    BY DEF StartWorker
  <2>2. M \in SUBSET Call
    OBVIOUS
  <2> HIDE DEF M, q
  <2>3. QED BY <2>1, <2>2
<1> HIDE DEF q
<1>4. QED BY <1>2, <1>3, NoCallWellformed DEF CallShape

LEMMA MergeShape ==
  ASSUME CallShape, NEW k \in Call, FindDuplicates(k) \/ SumUp(k) \/ DropOthers(k),
         SumUp(k) => \A g \in call[k].groups : g.slot \in Slots
  PROVE  CallShape'
<1>1. Wellformed(call[k])
  BY DEF CallShape
<1>2. CASE FindDuplicates(k)
  <2> DEFINE q == [call[k] EXCEPT !.step = "merge", !.groups = {[slot |-> s, ids |-> DOMAIN counters[s], sum |-> Total(s)] : s \in Double}]
  <2>1. call[k].op = "start" /\ call' = [call EXCEPT ![k] = q]
    BY <1>2 DEF FindDuplicates, Calling
  <2>2. Wellformed(q)
    BY <1>1, <2>1, ZenonT(40) DEF Wellformed, CallOf, GateSteps
  <2> HIDE DEF q
  <2>3. QED BY <2>1, <2>2, OneCall
<1>3. CASE SumUp(k) /\ call[k].groups = {}
  BY <1>3, GotoShape DEF SumUp, Calling, GateSteps
<1>4. CASE SumUp(k) /\ call[k].groups # {}
  <2>1. PICK g \in call[k].groups :
          call' = [call EXCEPT ![k].step = "drop", ![k].groups = {g} \cup (@ \ {g}),
                               ![k].window = g.slot[2], ![k].ip = g.slot[1]]
    BY <1>4 DEF SumUp
  <2>2. g.slot[1] \in Address /\ g.slot[2] \in Int
    <3>1. g.slot \in Slots
      BY <1>4
    <3>2. QED BY <3>1 DEF Slots
  <2> DEFINE q == [call[k] EXCEPT !.step = "drop", !.groups = {g} \cup (@ \ {g}),
                                  !.window = g.slot[2], !.ip = g.slot[1]]
  <2>3. call[k].op = "start" /\ call' = [call EXCEPT ![k] = q]
    BY <1>4, <2>1 DEF SumUp, Calling
  <2>4. Wellformed(q)
    <3> DEFINE G == {g} \cup (call[k].groups \ {g})
               p == [call[k] EXCEPT !.step = "drop", !.groups = G, !.window = g.slot[2], !.ip = g.slot[1]]
    <3>1. q = p
      OBVIOUS
    <3> HIDE DEF G
    <3>2. p \in CallOf({p.groups})
      BY <1>1, <2>2 DEF Wellformed, CallOf, GateSteps
    <3>3. p.op = "start" /\ p.step = "drop"
      BY <1>1, <2>3 DEF Wellformed, CallOf
    <3>4. QED BY <3>1, <3>2, <3>3 DEF Wellformed
  <2> HIDE DEF q
  <2>5. QED BY <2>3, <2>4, OneCall
<1>5. CASE DropOthers(k)
  <2> DEFINE q == [call[k] EXCEPT !.step = "merge", !.groups = {g \in @ : g.slot # Slot(k)}]
  <2>1. call[k].op = "start" /\ call' = [call EXCEPT ![k] = q]
    BY <1>5 DEF DropOthers, Calling
  <2>2. Wellformed(q)
    BY <1>1, <2>1, ZenonT(40) DEF Wellformed, CallOf, GateSteps
  <2> HIDE DEF q
  <2>3. QED BY <2>1, <2>2, OneCall
<1>6. QED BY <1>2, <1>3, <1>4, <1>5

LEMMA SetRuleShape ==
  ASSUME GateShape, NEW d, NEW rec \in [state : {"none", "on", "off", "deleted"}, is : AnyRule], SetRule(d, rec)
  PROVE  /\ ruleDoc' \in [RuleDoc -> [state : {"none", "on", "off", "deleted"}, is : AnyRule]]
         /\ inForce' \in [0 .. MaxTime -> SUBSET (SUBSET AnyRule)]
<1> DEFINE after == [ruleDoc EXCEPT ![d] = rec]
           on == {after[x].is : x \in {x \in RuleDoc : after[x].state = "on"}}
<1>1. after \in [RuleDoc -> [state : {"none", "on", "off", "deleted"}, is : AnyRule]]
  BY DEF GateShape
<1>2. on \in SUBSET AnyRule
  BY <1>1
<1>3. ruleDoc' = after /\ inForce' = [inForce EXCEPT ![clock] = @ \cup {on}]
  BY DEF SetRule
<1> HIDE DEF after, on
<1>4. QED BY <1>1, <1>2, <1>3 DEF GateShape

LEMMA KeepShape ==
  ASSUME GateShape, NEW k \in Call, KeepRules(k)
  PROVE  GateShape'
<1>1. Wellformed(call[k]) /\ call[k].op = "http" /\ clock \in Nat
  BY DEF KeepRules, Calling, GateShape, CallShape
<1>2. CallShape'
  BY <1>1, JudgeShape DEF KeepRules, GateShape
<1>3. [filled |-> TRUE, rules |-> call[k].rules, expires |-> call[k].since + Ttl]
         \in [filled : BOOLEAN, rules : SUBSET AnyRule, expires : Int]
  BY <1>1, TimeAssumption DEF Wellformed, CallOf
<1>4. QED BY <1>2, <1>3 DEF KeepRules, GateShape

LEMMA AdmitShape ==
  ASSUME GateShape, NEW k \in Call, NEW count, Admit(k, count)
  PROVE  admitted' \in [Slots -> Nat]
<1> DEFINE s == <<call[k].from, call[k].window>>
<1>1. admitted' = [admitted EXCEPT ![s] = IF count > MaxInWindow THEN @ ELSE @ + 1]
  BY DEF Admit
<1> HIDE DEF s
<1>2. \A n \in Nat : n + 1 \in Nat
  OBVIOUS
<1>3. CASE count > MaxInWindow
  BY <1>1, <1>3 DEF GateShape
<1>4. CASE ~ (count > MaxInWindow)
  <2>1. admitted' = [admitted EXCEPT ![s] = @ + 1]
    BY <1>1, <1>4
  <2>2. QED BY <1>2, <2>1 DEF GateShape
<1>5. QED BY <1>3, <1>4

LEMMA CountShape ==
  ASSUME GateShape, NEW k \in Call, Count(k) \/ InsertCounter(k)
  PROVE  GateShape'
<1>1. CallShape'
  BY HangupShape, GotoShape DEF Count, InsertCounter, Calling, GateShape, GateSteps
<1>2. admitted' \in [Slots -> Nat]
  BY AdmitShape DEF Count, InsertCounter, GateShape
<1>3. counters' = [s \in Slots |-> counters'[s]]
  BY DEF Count, InsertCounter, GateShape
<1>4. UNCHANGED <<ruleDoc, cache, unique, clock, inForce>>
  BY DEF Count, InsertCounter
<1>5. QED BY <1>1, <1>2, <1>3, <1>4 DEF GateShape

(* Calls that are placed with a rule to write.                              *)
LEMMA PlaceShape ==
  ASSUME CallShape, NEW k \in Call, NEW w \in Worker,
         \/ \E d \in RuleDoc, i \in Identity : CreateRule(k, w, d, i)
         \/ \E d \in RuleDoc, to \in {"on", "off"} : PatchRule(k, w, d, to)
         \/ \E d \in RuleDoc : DeleteRule(k, w, d)
  PROVE  CallShape'
<1>1. NoCall \in CallOf({NoCall.groups})
  BY NoCallWellformed DEF Wellformed
<1>2. ASSUME NEW d \in RuleDoc, NEW i \in Identity, CreateRule(k, w, d, i) PROVE CallShape'
  <2> DEFINE q == [NoCall EXCEPT !.op = "create", !.step = "write", !.worker = w, !.rule = d, !.rules = {i}]
  <2>1. Wellformed(q)
    BY <1>1, ZenonT(40) DEF Wellformed, CallOf, GateOps, GateSteps, AnyRule
  <2>2. call' = [call EXCEPT ![k] = q]
    BY <1>2 DEF CreateRule, Place
  <2> HIDE DEF q
  <2>3. QED BY <2>1, <2>2, OneCall
<1>3. ASSUME NEW d \in RuleDoc, NEW to \in {"on", "off", "deleted"},
             PatchRule(k, w, d, to) \/ (DeleteRule(k, w, d) /\ to = "deleted")
      PROVE  CallShape'
  <2> DEFINE q == [NoCall EXCEPT !.op = "patch", !.step = "write", !.worker = w, !.rule = d, !.to = to]
  <2>1. Wellformed(q)
    BY <1>1 DEF Wellformed, CallOf, GateOps, GateSteps
  <2>2. call' = [call EXCEPT ![k] = q]
    BY <1>3 DEF PatchRule, DeleteRule, Place
  <2> HIDE DEF q
  <2>3. QED BY <2>1, <2>2, OneCall
<1>4. QED BY <1>2, <1>3

LEMMA NoCacheShape == NoCache \in [filled : BOOLEAN, rules : SUBSET AnyRule, expires : Int]
BY DEF NoCache

(* What a step of a call leaves of the shape of the rest.                   *)
LEMMA ShapeKept ==
  ASSUME GateShape, NEW k \in Call, GroupsKnown, Serve(k) \/ Ask(k)
  PROVE  GateShape'
<1>1. clock \in Nat /\ Wellformed(call[k])
  BY DEF GateShape, CallShape
<1>2. CASE LoadRules(k) \/ FailOpen(k) \/ Refuse(k)
  <2>1. Enabled \subseteq AnyRule /\ Window(clock) \in Int
    BY <1>1, TimeAssumption DEF Enabled, GateShape, Window
  <2>2. CASE LoadRules(k)
    <3> DEFINE q == [call[k] EXCEPT !.rules = Enabled, !.step = "keep"]
    <3>1. Wellformed(q)
      BY <1>1, <2>1, <2>2 DEF LoadRules, Calling, Wellformed, CallOf, GateSteps
    <3>2. call' = [call EXCEPT ![k] = q]
      BY <2>2 DEF LoadRules
    <3> HIDE DEF q
    <3>3. QED BY <2>2, <3>1, <3>2, OneCall DEF LoadRules, GateShape
  <2>3. CASE FailOpen(k)
    <3> DEFINE q == [call[k] EXCEPT !.step = "count", !.window = Window(clock)]
    <3>1. Wellformed(q)
      BY <1>1, <2>1, <2>3 DEF FailOpen, Calling, Wellformed, CallOf, GateSteps
    <3>2. call' = [call EXCEPT ![k] = q]
      BY <2>3 DEF FailOpen
    <3> HIDE DEF q
    <3>3. QED BY <2>3, <3>1, <3>2, OneCall DEF FailOpen, GateShape
  <2>4. QED BY <1>2, <2>2, <2>3, HangupShape DEF Refuse, GateShape
<1>3. CASE KeepRules(k) \/ Count(k) \/ InsertCounter(k)
  BY <1>3, KeepShape, CountShape
<1>4. CASE InsertRule(k) \/ UpdateRule(k)
  <2>1. CallShape'
    BY <1>4, GotoShape DEF InsertRule, UpdateRule, Calling, GateShape, GateSteps
  <2>2. PICK d : \E rec \in [state : {"none", "on", "off", "deleted"}, is : AnyRule] : SetRule(d, rec)
    <3>1. CASE InsertRule(k)
      <4>1. (CHOOSE i \in call[k].rules : TRUE) \in AnyRule
        BY <1>1, <3>1 DEF InsertRule, Calling, Wellformed, CallOf
      <4>2. QED BY <3>1, <4>1 DEF InsertRule
    <3>2. CASE UpdateRule(k)
      <4>1. call[k].to \in {"none", "on", "off", "deleted"}
        BY <1>1 DEF Wellformed, CallOf
      <4>2. call[k].rule \in RuleDoc
        BY <1>1, <3>2 DEF UpdateRule, Calling, Wellformed
      <4> DEFINE d == call[k].rule
                 rec == [ruleDoc[d] EXCEPT !.state = IF @ = "deleted" THEN @ ELSE call[k].to]
      <4>3. rec \in [state : {"none", "on", "off", "deleted"}, is : AnyRule]
        <5>1. ruleDoc[d] \in [state : {"none", "on", "off", "deleted"}, is : AnyRule]
          BY <4>2 DEF GateShape
        <5> HIDE DEF d
        <5>2. QED BY <4>1, <5>1
      <4>4. SetRule(d, rec)
        BY <3>2 DEF UpdateRule
      <4> HIDE DEF d, rec
      <4>5. QED BY <4>3, <4>4
    <3>3. QED BY <1>4, <3>1, <3>2
  <2>3. QED BY <1>4, <2>1, <2>2, SetRuleShape DEF InsertRule, UpdateRule, GateShape
<1>5. CASE InvalidateRuleCache(k) \/ AuditRaises(k)
  <2>1. CallShape'
    BY <1>5, HangupShape DEF InvalidateRuleCache, AuditRaises, GateShape
  <2>2. cache' = cache \/ \E w : cache' = [cache EXCEPT ![w] = NoCache]
    BY <1>5 DEF InvalidateRuleCache, AuditRaises
  <2>3. cache' \in [Worker -> [filled : BOOLEAN, rules : SUBSET AnyRule, expires : Int]]
    BY <2>2, NoCacheShape DEF GateShape
  <2>4. QED BY <1>5, <2>1, <2>3 DEF InvalidateRuleCache, AuditRaises, GateShape
<1>6. CASE CreateIndex(k)
  <2>1. CallShape'
    BY <1>6, HangupShape, GotoShape DEF CreateIndex, Calling, GateShape, GateSteps
  <2>2. QED BY <1>6, <2>1 DEF CreateIndex, GateShape
<1>7. CASE FindDuplicates(k) \/ SumUp(k) \/ DropOthers(k)
  <2>1. CallShape'
    BY <1>7, MergeShape DEF GateShape, GroupsKnown, Merging, SumUp, Calling
  <2>2. QED BY <1>7, <2>1 DEF FindDuplicates, SumUp, DropOthers, GateShape, Goto
<1>8. CASE \E w \in Worker, c \in Client : Arrive(k, w, c)
  <2>1. \A w \in Worker : cache[w].rules \subseteq AnyRule
    BY DEF GateShape
  <2>2. CallShape'
    BY <1>1, <1>8, <2>1, ArriveShape DEF GateShape
  <2>3. QED BY <1>8, <2>2 DEF Arrive, GateShape
<1>9. CASE \E w \in Worker :
              \/ \E d \in RuleDoc, i \in Identity : CreateRule(k, w, d, i)
              \/ \E d \in RuleDoc, to \in {"on", "off"} : PatchRule(k, w, d, to)
              \/ \E d \in RuleDoc : DeleteRule(k, w, d)
  BY <1>9, PlaceShape DEF CreateRule, PatchRule, DeleteRule, GateShape
<1>10. CASE \E w \in Worker : StartWorker(k, w)
  <2>1. CallShape'
    BY <1>10, StartShape DEF GateShape
  <2>2. \E w : cache' = [cache EXCEPT ![w] = NoCache]
    BY <1>10 DEF StartWorker
  <2>3. cache' \in [Worker -> [filled : BOOLEAN, rules : SUBSET AnyRule, expires : Int]]
    BY <2>2, NoCacheShape DEF GateShape
  <2>4. QED BY <1>10, <2>1, <2>3 DEF StartWorker, GateShape
<1>11. QED BY <1>2, <1>3, <1>4, <1>5, <1>6, <1>7, <1>8, <1>9, <1>10 DEF Serve, Ask

(* Rules are seeded, and time passes.                                       *)
LEMMA ShapeQuiet ==
  ASSUME GateShape, (\E d \in RuleDoc, i \in Identity : SeedRule(d, i)) \/ Tick \/ UNCHANGED gateVars
  PROVE  GateShape'
<1>1. CASE \E d \in RuleDoc, i \in Identity : SeedRule(d, i)
  <2>1. PICK d \in RuleDoc, i \in Identity : SeedRule(d, i)
    BY <1>1
  <2>2. [state |-> "on", is |-> i] \in [state : {"none", "on", "off", "deleted"}, is : AnyRule]
    BY DEF AnyRule
  <2>3. QED BY <2>1, <2>2, SetRuleShape DEF SeedRule, GateShape, CallShape
<1>2. CASE Tick
  <2>1. {Enabled} \in SUBSET (SUBSET AnyRule)
    BY DEF Enabled, GateShape
  <2>2. QED BY <1>2, <2>1, TimeAssumption DEF Tick, GateShape, CallShape
<1>3. CASE UNCHANGED gateVars
  BY <1>3 DEF gateVars, GateShape, CallShape
<1>4. QED BY <1>1, <1>2, <1>3
-----------------------------------------------------------------------------
(* The rules.  A copy of them, and what a call is about to keep, were in    *)
(* force no longer ago than its time says.                                  *)
Since(t, rules) == \E s \in 0 .. clock : s >= t /\ rules \in inForce[s]
Dated(q) ==
  q.op = "http" =>
    /\ q.since <= clock
    /\ q.step = "keep" => Since(q.since, q.rules)
    /\ q.judged => Since(q.since - Ttl + 1, q.rules)
CopiesSeen ==
  /\ Enabled \in inForce[clock]
  /\ \A w \in Worker : cache[w].filled => Since(cache[w].expires - Ttl, cache[w].rules)
  /\ \A k \in Call : Dated(call[k])

(* What was in force stays so.                                              *)
Later == clock' \in Nat /\ clock <= clock' /\ \A t \in 0 .. clock : inForce[t] \subseteq inForce'[t]

LEMMA SinceStays ==
  ASSUME clock \in Nat, Later, NEW t, NEW rules, Since(t, rules)
  PROVE  \E s \in 0 .. clock' : s >= t /\ rules \in inForce'[s]
BY DEF Since, Later

LEMMA LaterSteps ==
  ASSUME GateShape, NEW k \in Call, Serve(k) \/ Ask(k)
  PROVE  Later /\ clock' = clock
<1>1. CASE InsertRule(k) \/ UpdateRule(k)
  <2>1. PICK more : inForce' = [inForce EXCEPT ![clock] = @ \cup more] /\ clock' = clock
    BY <1>1 DEF InsertRule, UpdateRule, SetRule
  <2>2. QED BY <2>1 DEF Later, GateShape
<1>2. CASE UNCHANGED <<clock, inForce>>
  BY <1>2 DEF Later, GateShape
<1>3. Serve(k) => InsertRule(k) \/ UpdateRule(k) \/ UNCHANGED <<clock, inForce>>
  BY DEF Serve, LoadRules, KeepRules, FailOpen, Refuse, Count, InsertCounter, InvalidateRuleCache,
         AuditRaises, CreateIndex, FindDuplicates, SumUp, DropOthers
<1>4. Ask(k) => UNCHANGED <<clock, inForce>>
  BY DEF Ask, Arrive, CreateRule, PatchRule, DeleteRule, StartWorker
<1>5. QED BY <1>1, <1>2, <1>3, <1>4

LEMMA LaterQuiet ==
  ASSUME GateShape, (\E d \in RuleDoc, i \in Identity : SeedRule(d, i)) \/ Tick \/ UNCHANGED gateVars
  PROVE  Later
<1>1. CASE \E d \in RuleDoc, i \in Identity : SeedRule(d, i)
  <2>1. PICK more : inForce' = [inForce EXCEPT ![clock] = @ \cup more] /\ clock' = clock
    BY <1>1 DEF SeedRule, SetRule
  <2>2. QED BY <2>1 DEF Later, GateShape
<1>2. CASE Tick
  BY <1>2 DEF Tick, Later, GateShape
<1>3. CASE UNCHANGED gateVars
  BY <1>3 DEF gateVars, Later, GateShape
<1>4. QED BY <1>1, <1>2, <1>3

(* The rules there are now are among those in force now.                    *)
LEMMA EnabledInForce ==
  ASSUME GateShape, Enabled \in inForce[clock], [GateNext]_gateVars
  PROVE  (Enabled \in inForce[clock])'
<1>1. ASSUME NEW d, NEW rec, SetRule(d, rec), UNCHANGED clock PROVE (Enabled \in inForce[clock])'
  <2>1. inForce'[clock] = inForce[clock] \cup {Enabled'}
    BY <1>1 DEF SetRule, Enabled, GateShape
  <2>2. QED BY <1>1, <2>1
<1>2. CASE UNCHANGED <<ruleDoc, inForce, clock>>
  BY <1>2 DEF Enabled
<1>3. CASE Tick
  <2>1. UNCHANGED Enabled /\ clock' = clock + 1 /\ clock + 1 \in 0 .. MaxTime
    BY <1>3, TimeAssumption DEF Tick, Enabled, GateShape
  <2>2. QED BY <1>3, <2>1 DEF Tick, GateShape
<1>4. ASSUME NEW k \in Call, Serve(k) \/ Ask(k) PROVE (Enabled \in inForce[clock])'
  <2>1. CASE InsertRule(k) \/ UpdateRule(k)
    BY <1>1, <2>1 DEF InsertRule, UpdateRule
  <2>2. Serve(k) => InsertRule(k) \/ UpdateRule(k) \/ UNCHANGED <<ruleDoc, clock, inForce>>
    BY DEF Serve, LoadRules, KeepRules, FailOpen, Refuse, Count, InsertCounter, InvalidateRuleCache,
           AuditRaises, CreateIndex, FindDuplicates, SumUp, DropOthers
  <2>3. Ask(k) => UNCHANGED <<ruleDoc, clock, inForce>>
    BY DEF Ask, Arrive, CreateRule, PatchRule, DeleteRule, StartWorker
  <2>4. QED BY <1>2, <1>4, <2>1, <2>2, <2>3
<1>5. CASE \E d \in RuleDoc, i \in Identity : SeedRule(d, i)
  BY <1>1, <1>5 DEF SeedRule
<1>6. QED BY <1>2, <1>3, <1>4, <1>5 DEF GateNext, gateVars

LEMMA DatedStays ==
  ASSUME GateShape, Later, NEW q, Dated(q), q.since \in Int
  PROVE  Dated(q)'
<1>1. \A t, rules : Since(t, rules) => \E s \in 0 .. clock' : s >= t /\ rules \in inForce'[s]
  BY SinceStays DEF GateShape
<1>2. q.since <= clock => q.since <= clock'
  BY DEF Later, GateShape
<1>3. QED BY <1>1, <1>2 DEF Dated, Since

LEMMA OneDated ==
  ASSUME GateShape, CopiesSeen, Later, NEW k \in Call, NEW q, Dated(q)', call' = [call EXCEPT ![k] = q]
  PROVE  \A x \in Call : Dated(call[x])'
<1>1. SUFFICES ASSUME NEW x \in Call PROVE Dated(call[x])'
  OBVIOUS
<1>2. CASE x = k
  <2>1. call'[x] = q
    BY <1>2 DEF GateShape, CallShape
  <2>2. QED BY <2>1 DEF Dated
<1>3. CASE x # k
  <2>1. call'[x] = call[x] /\ Dated(call[x]) /\ call[x].since \in Int
    BY <1>3 DEF GateShape, CallShape, CopiesSeen, Wellformed, CallOf
  <2>2. PICK p : p = call[x]
    OBVIOUS
  <2>3. Dated(p)'
    BY <2>1, <2>2, DatedStays
  <2>4. QED BY <2>1, <2>2, <2>3 DEF Dated
<1>4. QED BY <1>2, <1>3
LEMMA NoHttpDated ==
  ASSUME GateShape, CopiesSeen, Later, NEW k \in Call, NEW q, q.op # "http", call' = [call EXCEPT ![k] = q]
  PROVE  \A x \in Call : Dated(call[x])'
<1>1. Dated(q)'
  BY DEF Dated
<1>2. QED BY <1>1, OneDated

LEMMA HangupDated ==
  ASSUME GateShape, CopiesSeen, Later, NEW k \in Call, Hangup(k)
  PROVE  \A x \in Call : Dated(call[x])'
<1>1. NoCall.op # "http"
  BY DEF NoCall
<1>2. QED BY <1>1, NoHttpDated DEF Hangup

(* A call that goes on and keeps nothing is dated as before.                *)
LEMMA GoesOnDated ==
  ASSUME GateShape, CopiesSeen, Later, NEW k \in Call, NEW q,
         call[k].op = "http" => /\ q.op = "http" /\ q.since = call[k].since /\ q.rules = call[k].rules
                                /\ q.judged = call[k].judged /\ q.step # "keep",
         call[k].op # "http" => q.op # "http",
         call' = [call EXCEPT ![k] = q]
  PROVE  \A x \in Call : Dated(call[x])'
<1>1. CASE call[k].op # "http"
  BY <1>1, NoHttpDated
<1>2. CASE call[k].op = "http"
  <2>1. Dated(call[k]) /\ q.since \in Int
    BY <1>2 DEF GateShape, CallShape, CopiesSeen, Wellformed, CallOf
  <2>2. Dated(q)
    BY <1>2, <2>1 DEF Dated
  <2>3. Dated(q)'
    BY <2>1, <2>2, DatedStays
  <2>4. QED BY <2>3, OneDated
<1>3. QED BY <1>1, <1>2

LEMMA JudgeDated ==
  ASSUME GateShape, CopiesSeen, Later, NEW k \in Call, NEW q, Wellformed(q), q.op = "http",
         q.since <= clock, Since(q.since - Ttl + 1, q.rules), Judge(k, q)
  PROVE  \A x \in Call : Dated(call[x])'
<1>1. PICK p : /\ call' = [call EXCEPT ![k] = p]
               /\ p.op = "http" /\ p.since = q.since /\ p.rules = q.rules /\ p.step # "keep"
  <2>1. PICK country \in Located(q.ip) : call' = [call EXCEPT ![k] =
          IF Decide(q.rules, q.ip, country)
          THEN [q EXCEPT !.step = "count", !.judged = TRUE, !.window = Window(clock)]
          ELSE [q EXCEPT !.step = "refused", !.judged = TRUE]]
    BY DEF Judge
  <2> DEFINE p == IF Decide(q.rules, q.ip, country)
                  THEN [q EXCEPT !.step = "count", !.judged = TRUE, !.window = Window(clock)]
                  ELSE [q EXCEPT !.step = "refused", !.judged = TRUE]
  <2>2. p.op = "http" /\ p.since = q.since /\ p.rules = q.rules /\ p.step # "keep"
    BY DEF Wellformed, CallOf
  <2>3. call' = [call EXCEPT ![k] = p]
    BY <2>1
  <2> HIDE DEF p
  <2>4. QED BY <2>2, <2>3
<1>2. Dated(p) /\ p.since \in Int
  BY <1>1 DEF Dated, Wellformed, CallOf
<1>3. Dated(p)'
  BY <1>2, DatedStays
<1>4. QED BY <1>1, <1>3, OneDated

LEMMA ArriveDated ==
  ASSUME GateShape, CopiesSeen, Later, NEW k \in Call, NEW w \in Worker, NEW c \in Client, Arrive(k, w, c)
  PROVE  \A x \in Call : Dated(call[x])'
<1> DEFINE q == [NoCall EXCEPT !.op = "http", !.step = "load", !.worker = w, !.from = c,
                               !.since = clock, !.ip = c]
           p == [q EXCEPT !.rules = cache[w].rules]
<1>1. IF Fresh(w) THEN Judge(k, p) ELSE call' = [call EXCEPT ![k] = q]
  BY RouteResolves DEF Arrive
<1>2. clock \in Int /\ c \in Address /\ NoCall \in CallOf({NoCall.groups}) /\ NoCall.judged = FALSE
  <2>1. Wellformed(NoCall) /\ NoCall.judged = FALSE
    BY NoCallWellformed DEF NoCall
  <2>2. QED BY <2>1, AddressAssumption DEF GateShape, Wellformed
<1>3. /\ q \in CallOf({q.groups}) /\ q.op = "http" /\ q.step = "load" /\ q.from = c /\ q.ip = c
      /\ ~ q.judged /\ q.since = clock
  BY <1>2 DEF CallOf, GateOps, GateSteps
<1> HIDE DEF q
<1>4. CASE Fresh(w)
  <2>1. /\ cache[w] \in [filled : BOOLEAN, rules : SUBSET AnyRule, expires : Int]
        /\ cache[w].filled /\ clock < cache[w].expires
    BY <1>4 DEF Fresh, GateShape
  <2>2. /\ p \in CallOf({p.groups}) /\ p.op = "http" /\ p.step = "load" /\ p.from = c /\ p.ip = c
        /\ ~ p.judged /\ p.since = clock /\ p.rules = cache[w].rules
    BY <1>3, <2>1 DEF CallOf
  <2> HIDE DEF p
  <2>3. Wellformed(p)
    BY <2>2 DEF Wellformed
  <2>4. Since(p.since - Ttl + 1, p.rules)
    <3>1. Since(cache[w].expires - Ttl, cache[w].rules)
      BY <2>1 DEF CopiesSeen
    <3>2. PICK s \in 0 .. clock : s >= cache[w].expires - Ttl /\ cache[w].rules \in inForce[s]
      BY <3>1 DEF Since
    <3>3. s >= clock - Ttl + 1
      BY <1>2, <2>1, <3>2, TimeAssumption
    <3>4. QED BY <2>2, <3>2, <3>3 DEF Since
  <2>5. Judge(k, p) /\ p.since <= clock
    BY <1>1, <1>2, <1>4, <2>2
  <2>6. QED BY <2>2, <2>3, <2>4, <2>5, JudgeDated
<1>5. CASE ~ Fresh(w)
  <2>1. Dated(q)
    BY <1>2, <1>3 DEF Dated
  <2>2. PICK r : r = q
    OBVIOUS
  <2>3. Dated(r)'
    BY <1>2, <1>3, <2>1, <2>2, DatedStays
  <2>4. QED BY <1>1, <1>5, <2>2, <2>3, OneDated
<1>6. QED BY <1>4, <1>5
(* A copy is dropped, or becomes what a call kept.                          *)
LEMMA CachesSeen ==
  ASSUME GateShape, CopiesSeen, Later, NEW w, NEW new, ~ new.filled \/ Since(new.expires - Ttl, new.rules),
         cache' = cache \/ cache' = [cache EXCEPT ![w] = new]
  PROVE  \A v \in Worker : (cache[v].filled => Since(cache[v].expires - Ttl, cache[v].rules))'
<1>1. SUFFICES ASSUME NEW v \in Worker, cache'[v].filled
               PROVE  Since(cache[v].expires - Ttl, cache[v].rules)'
  OBVIOUS
<1>2. cache'[v] = cache[v] \/ cache'[v] = new
  BY DEF GateShape
<1>3. PICK t, rules : t = cache'[v].expires - Ttl /\ rules = cache'[v].rules
  OBVIOUS
<1>4. Since(t, rules)
  BY <1>1, <1>2, <1>3 DEF CopiesSeen
<1>5. \E s \in 0 .. clock' : s >= t /\ rules \in inForce'[s]
  BY <1>4, SinceStays DEF GateShape
<1>6. QED BY <1>3, <1>5 DEF Since

LEMMA LoadDated ==
  ASSUME GateShape, CopiesSeen, Later, NEW k \in Call, LoadRules(k)
  PROVE  \A x \in Call : Dated(call[x])'
<1>1. /\ Wellformed(call[k]) /\ call[k].op = "http" /\ call[k].step = "load"
      /\ Dated(call[k]) /\ clock \in Nat
  BY DEF LoadRules, Calling, GateShape, CallShape, CopiesSeen
<1> DEFINE q == [call[k] EXCEPT !.rules = Enabled, !.step = "keep"]
<1>2. /\ call' = [call EXCEPT ![k] = q]
      /\ q.op = "http" /\ ~ q.judged /\ q.rules = Enabled /\ q.since = call[k].since /\ q.since \in Int
  BY <1>1 DEF LoadRules, Wellformed, CallOf
<1> HIDE DEF q
<1>3. Since(q.since, q.rules)
  BY <1>1, <1>2 DEF Since, CopiesSeen, Dated
<1>4. PICK r : r = q
  OBVIOUS
<1>5. Dated(q)
  BY <1>1, <1>2, <1>3 DEF Dated
<1>6. Dated(r)'
  BY <1>2, <1>4, <1>5, DatedStays
<1>7. QED BY <1>2, <1>4, <1>6, OneDated

LEMMA KeepSeen ==
  ASSUME GateShape, CopiesSeen, Later, NEW k \in Call, KeepRules(k)
  PROVE  /\ \A x \in Call : Dated(call[x])'
         /\ \A v \in Worker : (cache[v].filled => Since(cache[v].expires - Ttl, cache[v].rules))'
<1>1. Wellformed(call[k]) /\ call[k].op = "http" /\ call[k].step = "keep" /\ Dated(call[k])
  BY DEF KeepRules, Calling, GateShape, CallShape, CopiesSeen
<1>2. call[k].since \in Int /\ call[k].since <= clock /\ Since(call[k].since, call[k].rules)
  BY <1>1 DEF Dated, Wellformed, CallOf
<1>3. Since(call[k].since - Ttl + 1, call[k].rules)
  BY <1>2, TimeAssumption DEF Since
<1>4. Judge(k, call[k])
  BY DEF KeepRules
<1>5. \A x \in Call : Dated(call[x])'
  BY <1>1, <1>2, <1>3, <1>4, JudgeDated
<1> DEFINE new == [filled |-> TRUE, rules |-> call[k].rules, expires |-> call[k].since + Ttl]
<1>6. Since(new.expires - Ttl, new.rules) /\ cache' = [cache EXCEPT ![call[k].worker] = new]
  <2>1. new.expires - Ttl = call[k].since /\ new.rules = call[k].rules
    BY <1>2, TimeAssumption
  <2>2. cache' = [cache EXCEPT ![call[k].worker] = new]
    BY DEF KeepRules
  <2> HIDE DEF new
  <2>3. Since(new.expires - Ttl, new.rules)
    BY <1>2, <2>1
  <2>4. QED BY <2>2, <2>3
<1> HIDE DEF new
<1>7. QED BY <1>5, <1>6, CachesSeen

LEMMA PlacedCall ==
  ASSUME NEW k \in Call,
         \E w \in Worker :
           \/ \E d \in RuleDoc, i \in Identity : CreateRule(k, w, d, i)
           \/ \E d \in RuleDoc, to \in {"on", "off"} : PatchRule(k, w, d, to)
           \/ \E d \in RuleDoc : DeleteRule(k, w, d)
  PROVE  \E q : call' = [call EXCEPT ![k] = q] /\ q.op \in {"create", "patch"}
<1>1. CASE \E w \in Worker, d \in RuleDoc, i \in Identity : CreateRule(k, w, d, i)
  <2>1. PICK w \in Worker, d \in RuleDoc, i \in Identity : CreateRule(k, w, d, i)
    BY <1>1
  <2> DEFINE q == [NoCall EXCEPT !.op = "create", !.step = "write", !.worker = w, !.rule = d, !.rules = {i}]
  <2>2. call' = [call EXCEPT ![k] = q]
    BY <2>1 DEF CreateRule, Place
  <2>3. q.op = "create"
    BY DEF NoCall
  <2> HIDE DEF q
  <2>4. QED BY <2>2, <2>3
<1>2. CASE \E w \in Worker, d \in RuleDoc, to \in {"on", "off", "deleted"} :
              PatchRule(k, w, d, to) \/ (DeleteRule(k, w, d) /\ to = "deleted")
  <2>1. PICK w \in Worker, d \in RuleDoc, to \in {"on", "off", "deleted"} :
          PatchRule(k, w, d, to) \/ (DeleteRule(k, w, d) /\ to = "deleted")
    BY <1>2
  <2> DEFINE q == [NoCall EXCEPT !.op = "patch", !.step = "write", !.worker = w, !.rule = d, !.to = to]
  <2>2. call' = [call EXCEPT ![k] = q]
    BY <2>1 DEF PatchRule, DeleteRule, Place
  <2>3. q.op = "patch"
    BY DEF NoCall
  <2> HIDE DEF q
  <2>4. QED BY <2>2, <2>3
<1>3. QED BY <1>1, <1>2

LEMMA ServeSeen ==
  ASSUME GateShape, CopiesSeen, Later, NEW k \in Call, Serve(k) \/ Ask(k)
  PROVE  /\ \A x \in Call : Dated(call[x])'
         /\ \A v \in Worker : (cache[v].filled => Since(cache[v].expires - Ttl, cache[v].rules))'
<1>1. Wellformed(call[k])
  BY DEF GateShape, CallShape
<1>2. ~ NoCache.filled
  BY DEF NoCache
<1>3. UNCHANGED cache =>
        \A v \in Worker : (cache[v].filled => Since(cache[v].expires - Ttl, cache[v].rules))'
  BY <1>2, CachesSeen
<1>4. CASE LoadRules(k)
  BY <1>3, <1>4, LoadDated DEF LoadRules
<1>5. CASE KeepRules(k)
  BY <1>5, KeepSeen
<1>6. CASE FailOpen(k)
  <2> DEFINE q == [call[k] EXCEPT !.step = "count", !.window = Window(clock)]
  <2>1. call' = [call EXCEPT ![k] = q] /\ call[k].op = "http" /\ q.op = "http" /\ q.since = call[k].since
        /\ q.rules = call[k].rules /\ q.judged = call[k].judged /\ q.step # "keep"
    BY <1>1, <1>6 DEF FailOpen, Calling, Wellformed, CallOf
  <2> HIDE DEF q
  <2>2. QED BY <1>3, <1>6, <2>1, GoesOnDated DEF FailOpen
<1>7. CASE Count(k) /\ Goto(k, "insert")
  <2> DEFINE q == [call[k] EXCEPT !.step = "insert"]
  <2>1. call' = [call EXCEPT ![k] = q] /\ q.op = call[k].op /\ q.since = call[k].since
        /\ q.rules = call[k].rules /\ q.judged = call[k].judged /\ q.step # "keep"
    BY <1>1, <1>7 DEF Goto, Wellformed, CallOf
  <2> HIDE DEF q
  <2>2. QED BY <1>3, <1>7, <2>1, GoesOnDated DEF Count
<1>8. CASE Refuse(k) \/ (Count(k) /\ Hangup(k)) \/ InsertCounter(k) \/ AuditRaises(k)
  BY <1>3, <1>8, HangupDated DEF Refuse, Count, InsertCounter, AuditRaises
<1>9. CASE InvalidateRuleCache(k)
  <2>1. Hangup(k) /\ \E w : cache' = [cache EXCEPT ![w] = NoCache]
    BY <1>9 DEF InvalidateRuleCache
  <2>2. QED BY <1>2, <2>1, CachesSeen, HangupDated
<1>10. CASE InsertRule(k) \/ UpdateRule(k) \/ CreateIndex(k) \/ FindDuplicates(k) \/ SumUp(k) \/ DropOthers(k)
  <2>1. PICK q : call' = [call EXCEPT ![k] = q] /\ q.op # "http"
    <3>1. call[k].op # "http" /\ NoCall.op # "http"
      BY <1>10 DEF InsertRule, UpdateRule, CreateIndex, FindDuplicates, SumUp, DropOthers, Calling, NoCall
    <3>2. CASE Hangup(k)
      BY <3>1, <3>2 DEF Hangup
    <3>3. CASE \E step : Goto(k, step)
      <4>1. PICK step : call' = [call EXCEPT ![k] = [call[k] EXCEPT !.step = step]]
        BY <3>3 DEF Goto
      <4>2. [call[k] EXCEPT !.step = step].op = call[k].op
        BY <1>1 DEF Wellformed, CallOf
      <4>3. QED BY <3>1, <4>1, <4>2
    <3>4. CASE FindDuplicates(k)
      <4> DEFINE q == [call[k] EXCEPT !.step = "merge", !.groups = {[slot |-> s, ids |-> DOMAIN counters[s], sum |-> Total(s)] : s \in Double}]
      <4>1. call' = [call EXCEPT ![k] = q] /\ q.op # "http"
        BY <1>1, <3>1, <3>4 DEF FindDuplicates, Wellformed, CallOf
      <4> HIDE DEF q
      <4>2. QED BY <4>1
    <3>5. CASE SumUp(k) /\ ~ Goto(k, "again")
      <4>1. PICK g : call' = [call EXCEPT ![k].step = "drop", ![k].groups = {g} \cup (@ \ {g}),
                                          ![k].window = g.slot[2], ![k].ip = g.slot[1]]
        BY <3>5 DEF SumUp
      <4> DEFINE q == [call[k] EXCEPT !.step = "drop", !.groups = {g} \cup (@ \ {g}),
                                      !.window = g.slot[2], !.ip = g.slot[1]]
      <4>2. call' = [call EXCEPT ![k] = q] /\ q.op # "http"
        BY <1>1, <3>1, <4>1 DEF Wellformed, CallOf
      <4> HIDE DEF q
      <4>3. QED BY <4>2
    <3>6. CASE DropOthers(k)
      <4> DEFINE q == [call[k] EXCEPT !.step = "merge", !.groups = {g \in @ : g.slot # Slot(k)}]
      <4>1. call' = [call EXCEPT ![k] = q] /\ q.op # "http"
        BY <1>1, <3>1, <3>6 DEF DropOthers, Wellformed, CallOf
      <4> HIDE DEF q
      <4>2. QED BY <4>1
    <3>7. QED BY <1>10, <3>2, <3>3, <3>4, <3>5, <3>6 DEF InsertRule, UpdateRule, CreateIndex
  <2>2. UNCHANGED cache
    BY <1>10 DEF InsertRule, UpdateRule, CreateIndex, FindDuplicates, SumUp, DropOthers
  <2>3. QED BY <1>3, <2>1, <2>2, NoHttpDated
<1>11. CASE \E w \in Worker, c \in Client : Arrive(k, w, c)
  <2>1. UNCHANGED cache
    BY <1>11 DEF Arrive
  <2>2. QED BY <1>3, <1>11, <2>1, ArriveDated
<1>12. CASE \E w \in Worker :
              \/ \E d \in RuleDoc, i \in Identity : CreateRule(k, w, d, i)
              \/ \E d \in RuleDoc, to \in {"on", "off"} : PatchRule(k, w, d, to)
              \/ \E d \in RuleDoc : DeleteRule(k, w, d)
  <2>1. PICK q : call' = [call EXCEPT ![k] = q] /\ q.op \in {"create", "patch"}
    BY <1>12, PlacedCall
  <2>2. UNCHANGED cache
    BY <1>12 DEF CreateRule, PatchRule, DeleteRule
  <2>3. QED BY <1>3, <2>1, <2>2, NoHttpDated
<1>13. CASE \E w \in Worker : StartWorker(k, w)
  <2>1. PICK w \in Worker : StartWorker(k, w)
    BY <1>13
  <2>2. ASSUME NEW x \in Call PROVE Dated(call[x])'
    <3>1. call'[x] = call[x] \/ call'[x].op # "http"
      BY <2>1 DEF StartWorker, NoCall
    <3>2. CASE call'[x] = call[x]
      <4>1. PICK q : q = call[x]
        OBVIOUS
      <4>2. Dated(q) /\ q.since \in Int
        BY <4>1 DEF GateShape, CallShape, CopiesSeen, Wellformed, CallOf
      <4>3. Dated(q)'
        BY <4>2, DatedStays
      <4>4. QED BY <3>2, <4>1, <4>3 DEF Dated
    <3>3. QED BY <3>1, <3>2 DEF Dated
  <2>3. cache' = [cache EXCEPT ![w] = NoCache]
    BY <2>1 DEF StartWorker
  <2>4. QED BY <1>2, <2>2, <2>3, CachesSeen
<1>14. QED BY <1>4, <1>5, <1>6, <1>7, <1>8, <1>9, <1>10, <1>11, <1>12, <1>13 DEF Serve, Ask, Count-----------------------------------------------------------------------------
(* The counters.  Of a window with documents, the first is among them,      *)
(* whatever a merge sums up; only in a guarded one is it known alone.       *)
Counts(q) == q # <<>> => q = [i \in DOMAIN q |-> q[i]] /\ 1 \in DOMAIN q

(* A window counts from its first request on; a guarded one has one count,  *)
(* and no more requests were admitted than it says, nor than the limit.     *)
Limited(s) == \E n \in Nat \ {0} :
  counters[s] = <<n>> /\ admitted[s] <= n /\ admitted[s] <= MaxInWindow
SlotRight(s) ==
  /\ Counts(counters[s])
  /\ counters[s] = <<>> => admitted[s] = 0
  /\ s[2] \in guarded /\ counters[s] # <<>> => Limited(s)

(* No insert is on its way to a guarded window, and a merge is not about    *)
(* one.                                                                     *)
Inserting(q) == q.op = "http" /\ q.step = "insert"
Merges(q)    == q.op = "start" /\ q.step \in {"merge", "drop"}
Settled(q) ==
  /\ Inserting(q) => q.window \notin guarded
  /\ Merges(q) => /\ \A g \in q.groups : Merging(g.slot)
                  /\ q.step = "drop" => Merging(<<q.ip, q.window>>)

WindowInv ==
  /\ guarded # {} => unique
  /\ \A s \in Slots : SlotRight(s)
  /\ \A k \in Call : Settled(call[k])

LEMMA SettledKnown == WindowInv => GroupsKnown
BY DEF WindowInv, Settled, GroupsKnown, Merges, Slot

LEMMA CountsExcept ==
  ASSUME NEW q, Counts(q), NEW i \in DOMAIN q, NEW e
  PROVE  Counts([q EXCEPT ![i] = e]) /\ [q EXCEPT ![i] = e] # <<>>
<1>1. q # <<>>
  BY EmptySeq
<1>2. /\ 1 \in DOMAIN q /\ DOMAIN [q EXCEPT ![i] = e] = DOMAIN q
      /\ [q EXCEPT ![i] = e] = [j \in DOMAIN q |-> IF j = i THEN e ELSE q[j]]
  BY <1>1 DEF Counts
<1>3. [q EXCEPT ![i] = e] # <<>>
  BY <1>2, EmptySeq
<1>4. QED BY <1>2, <1>3 DEF Counts

LEMMA CountsNotEmpty ==
  ASSUME NEW q, Counts(q), q # <<>>
  PROVE  1 \in DOMAIN q
BY DEF Counts

LEMMA CountsPut ==
  ASSUME NEW q, Counts(q), q # <<>>, NEW i
  PROVE  Counts(Beside(q, i)) /\ Beside(q, i) # <<>>
<1>1. /\ 1 \in DOMAIN Beside(q, i)
      /\ Beside(q, i) = [j \in DOMAIN Beside(q, i) |-> Beside(q, i)[j]]
  BY CountsNotEmpty DEF Beside
<1> DEFINE new == Beside(q, i)
<1> HIDE DEF new
<1>2. 1 \in DOMAIN new /\ new = [j \in DOMAIN new |-> new[j]]
  BY <1>1 DEF new
<1>3. Counts(new) /\ new # <<>>
  BY <1>2 DEF Counts
<1>4. QED BY <1>3 DEF new

LEMMA CountsKeep ==
  ASSUME NEW q, Counts(q), q # <<>>, NEW O, 1 \notin O
  PROVE  Counts(Restrict(q, DOMAIN q \ O)) /\ Restrict(q, DOMAIN q \ O) # <<>>
<1> DEFINE new == [j \in DOMAIN q \ O |-> q[j]]
<1>1. Restrict(q, DOMAIN q \ O) = new
  BY DEF Restrict
<1>2. 1 \in DOMAIN new /\ new = [j \in DOMAIN new |-> new[j]]
  BY CountsNotEmpty
<1> HIDE DEF new
<1>3. Counts(new) /\ new # <<>>
  BY <1>2 DEF Counts
<1>4. QED BY <1>1, <1>3

LEMMA CountsOne ==
  ASSUME NEW e
  PROVE  Counts(<<e>>) /\ <<e>> # <<>>
BY DEF Counts
Harmless(q) == ~ Inserting(q) /\ ~ Merges(q)

LEMMA QuietWindows ==
  ASSUME GateShape, WindowInv, UNCHANGED <<counters, admitted, guarded, unique>>,
         \A x \in Call : call'[x] = call[x] \/ Harmless(call'[x])
  PROVE  WindowInv'
<1>1. \A s \in Slots : SlotRight(s)'
  BY DEF WindowInv, SlotRight, Limited
<1>2. ASSUME NEW x \in Call PROVE Settled(call[x])'
  <2>1. CASE call'[x] = call[x]
    BY <2>1 DEF WindowInv, Settled, Merging, Inserting, Merges
  <2>2. CASE Harmless(call'[x])
    BY <2>2 DEF Harmless, Settled, Inserting, Merges
  <2>3. QED BY <2>1, <2>2
<1>3. (guarded # {} => unique)'
  BY DEF WindowInv
<1>4. QED BY <1>1, <1>2, <1>3 DEF WindowInv

(* One list of counts changes, and not to none.                             *)
LEMMA CounterChanges ==
  ASSUME GateShape, WindowInv, UNCHANGED <<guarded, unique>>,
         NEW s, NEW new, counters' = [counters EXCEPT ![s] = new],
         s \in Slots => Counts(new) /\ (new # <<>> \/ counters[s] = new),
         \A t \in Slots : t # s => admitted'[t] = admitted[t],
         s \in Slots => IF new = <<>> THEN admitted'[s] = admitted[s] ELSE s[2] \in guarded => Limited(s)',
         \A x \in Call : call'[x] = call[x] \/ Settled(call'[x])
  PROVE  WindowInv'
<1>1. ASSUME NEW t \in Slots PROVE SlotRight(t)' /\ (Merging(t) => Merging(t)')
  <2>1. SlotRight(t)
    BY DEF WindowInv
  <2>2. CASE t = s
    <3>1. counters'[t] = new
      BY <2>2 DEF GateShape
    <3>2. QED BY <2>1, <2>2, <3>1 DEF SlotRight, Merging
  <2>3. CASE t # s
    <3>1. counters'[t] = counters[t] /\ admitted'[t] = admitted[t]
      BY <2>3 DEF GateShape
    <3>2. QED BY <2>1, <3>1 DEF SlotRight, Limited, Merging
  <2>4. QED BY <2>2, <2>3
<1>2. \A t : Merging(t) => Merging(t)'
  BY <1>1 DEF Merging
<1>3. ASSUME NEW x \in Call PROVE Settled(call[x])'
  <2>1. Settled(call'[x])
    BY DEF WindowInv
  <2>2. QED BY <1>2, <2>1 DEF Settled, Inserting, Merges
<1>4. QED BY <1>1, <1>3 DEF WindowInv
LEMMA AdmitSlot ==
  ASSUME GateShape, NEW k \in Call, call[k].op = "http", NEW count, Admit(k, count)
  PROVE  /\ \A t \in Slots : t # Slot(k) => admitted'[t] = admitted[t]
         /\ Slot(k) \in Slots => admitted'[Slot(k)] = IF count > MaxInWindow THEN admitted[Slot(k)]
                                                      ELSE admitted[Slot(k)] + 1
<1>1. Slot(k) = <<call[k].from, call[k].window>>
  BY DEF Slot, GateShape, CallShape, Wellformed
<1>2. admitted' = [admitted EXCEPT ![Slot(k)] = IF count > MaxInWindow THEN @ ELSE @ + 1]
  BY <1>1 DEF Admit
<1> DEFINE s == Slot(k)
<1> HIDE DEF s
<1>3. admitted' = [admitted EXCEPT ![s] = IF count > MaxInWindow THEN @ ELSE @ + 1]
  BY <1>2 DEF s
<1>4. /\ \A t \in Slots : t # s => admitted'[t] = admitted[t]
      /\ s \in Slots => admitted'[s] = IF count > MaxInWindow THEN admitted[s] ELSE admitted[s] + 1
  BY <1>3 DEF GateShape
<1>5. QED BY <1>4 DEF s

LEMMA HangupSettled ==
  ASSUME NEW k \in Call, Hangup(k), GateShape
  PROVE  \A x \in Call : call'[x] = call[x] \/ (Settled(call'[x]) /\ Harmless(call'[x]))
BY DEF Hangup, GateShape, CallShape, NoCall, Settled, Harmless, Inserting, Merges

LEMMA CountWindows ==
  ASSUME GateShape, WindowInv, NEW k \in Call, Count(k)
  PROVE  WindowInv'
<1>0. PICK s : s = Slot(k)
  OBVIOUS
<1>1. call[k].op = "http" /\ UNCHANGED <<guarded, unique>> /\ Wellformed(call[k])
  BY DEF Count, Calling, GateShape, CallShape
<1>2. s \in Slots => SlotRight(s) /\ admitted[s] \in Nat
  BY DEF WindowInv, GateShape
<1>3. CASE \E i \in DOMAIN counters[s] :
             /\ counters' = [counters EXCEPT ![s][i] = @ + 1]
             /\ Admit(k, counters[s][i] + 1) /\ Hangup(k)
  <2>1. PICK i \in DOMAIN counters[s] :
             /\ counters' = [counters EXCEPT ![s][i] = @ + 1]
             /\ Admit(k, counters[s][i] + 1) /\ Hangup(k)
    BY <1>3
  <2> DEFINE old == counters[s]
             new == [old EXCEPT ![i] = @ + 1]
  <2>2. counters' = [counters EXCEPT ![s] = new]
    BY <2>1
  <2>3. s \in Slots => Counts(new) /\ new # <<>>
    BY <1>2, CountsExcept DEF SlotRight
  <2>4. ASSUME s \in Slots, s[2] \in guarded PROVE Limited(s)'
    <3>1. old # <<>>
      OBVIOUS
    <3>2. PICK n \in Nat \ {0} : old = <<n>> /\ admitted[s] <= n /\ admitted[s] <= MaxInWindow
      BY <1>2, <2>4, <3>1 DEF SlotRight, Limited
    <3>3. i = 1 /\ new = <<n + 1>> /\ old[i] = n
      BY <3>2
    <3>4. admitted'[s] = IF n + 1 > MaxInWindow THEN admitted[s] ELSE admitted[s] + 1
      BY <1>1, <2>1, <2>4, <3>3, <1>0, AdmitSlot
    <3>5. counters'[s] = <<n + 1>>
      BY <2>2, <2>4, <3>3 DEF GateShape
    <3>6. admitted'[s] <= n + 1 /\ admitted'[s] <= MaxInWindow /\ n + 1 \in Nat \ {0}
      BY <1>2, <2>4, <3>2, <3>4, TimeAssumption
    <3>7. QED BY <3>5, <3>6 DEF Limited
  <2>5. \A t \in Slots : t # s => admitted'[t] = admitted[t]
    BY <1>1, <2>1, <1>0, AdmitSlot
  <2> HIDE DEF new, old
  <2>6. QED BY <1>1, <2>1, <2>2, <2>3, <2>4, <2>5, CounterChanges, HangupSettled
<1>4. CASE /\ counters[s] = <<>>
           /\ counters' = [counters EXCEPT ![s] = <<1>>]
           /\ Admit(k, 1) /\ Hangup(k)
  <2>1. s \in Slots => Counts(<<1>>) /\ <<1>> # <<>>
    BY CountsOne
  <2>2. ASSUME s \in Slots, s[2] \in guarded PROVE Limited(s)'
    <3>1. admitted[s] = 0
      BY <1>2, <1>4, <2>2 DEF SlotRight
    <3>2. admitted'[s] = IF 1 > MaxInWindow THEN 0 ELSE 1
      BY <1>1, <1>4, <2>2, <3>1, <1>0, AdmitSlot
    <3>3. counters'[s] = <<1>>
      BY <1>4, <2>2 DEF GateShape
    <3>4. admitted'[s] <= 1 /\ admitted'[s] <= MaxInWindow
      BY <3>2, TimeAssumption
    <3>5. QED BY <3>3, <3>4 DEF Limited
  <2>3. \A t \in Slots : t # s => admitted'[t] = admitted[t]
    BY <1>1, <1>4, <1>0, AdmitSlot
  <2> DEFINE new == <<1>>
  <2> HIDE DEF new
  <2>4. /\ counters' = [counters EXCEPT ![s] = new]
        /\ s \in Slots => Counts(new) /\ new # <<>>
    BY <1>4, <2>1 DEF new
  <2>5. QED BY <1>1, <1>4, <2>2, <2>3, <2>4, CounterChanges, HangupSettled
<1>5. CASE ~ unique /\ Goto(k, "insert") /\ UNCHANGED <<counters, admitted>>
  <2>1. guarded = {} /\ \A t \in Slots : SlotRight(t)'
    BY <1>1, <1>5 DEF WindowInv, SlotRight, Limited
  <2> DEFINE q == [call[k] EXCEPT !.step = "insert"]
  <2>2. call' = [call EXCEPT ![k] = q] /\ q.op = "http"
    BY <1>1, <1>5 DEF Goto, Wellformed, CallOf
  <2> HIDE DEF q
  <2>3. ASSUME NEW x \in Call PROVE Settled(call[x])'
    <3>1. call'[x] = call[x] \/ call'[x].op = "http"
      BY <2>2 DEF GateShape, CallShape
    <3>2. QED BY <1>1, <1>5, <2>1, <3>1 DEF WindowInv, Settled, Merges, Inserting, Merging
  <2>4. QED BY <1>1, <2>1, <2>3 DEF WindowInv
<1>6. QED BY <1>0, <1>3, <1>4, <1>5 DEF Count
LEMMA InsertWindows ==
  ASSUME GateShape, WindowInv, NEW k \in Call, InsertCounter(k)
  PROVE  WindowInv'
<1>0. PICK s : s = Slot(k)
  OBVIOUS
<1>1. /\ call[k].op = "http" /\ call[k].step = "insert" /\ UNCHANGED <<guarded, unique>>
      /\ Hangup(k) /\ s[2] \notin guarded
  BY <1>0 DEF InsertCounter, Calling, WindowInv, Settled, Inserting, Slot
<1>2. s \in Slots => SlotRight(s)
  BY DEF WindowInv
<1>3. PICK n : /\ n > 1 => counters[s] # <<>>
               /\ counters' = [counters EXCEPT ![s] = IF n > 1 THEN [@ EXCEPT ![1] = n]
                                 ELSE IF @ = <<>> THEN <<1>> ELSE Beside(@, NewId(s))]
               /\ Admit(k, n)
  <2>1. PICK n : /\ n = IF unique /\ counters[s] # <<>> THEN counters[s][1] + 1 ELSE 1
                 /\ counters' = [counters EXCEPT ![s] = IF n > 1 THEN [@ EXCEPT ![1] = n]
                                   ELSE IF @ = <<>> THEN <<1>> ELSE Beside(@, NewId(s))]
                 /\ Admit(k, n)
    BY <1>0 DEF InsertCounter
  <2>2. n > 1 => counters[s] # <<>>
    BY <2>1
  <2>3. QED BY <2>1, <2>2
<1>4. PICK new : new = IF n > 1 THEN [counters[s] EXCEPT ![1] = n]
                       ELSE IF counters[s] = <<>> THEN <<1>> ELSE Beside(counters[s], NewId(s))
  OBVIOUS
<1>5. counters' = [counters EXCEPT ![s] = new]
  BY <1>3, <1>4
<1>6. s \in Slots => Counts(new) /\ new # <<>>
  BY <1>2, <1>3, <1>4, CountsNotEmpty, CountsExcept, CountsPut, CountsOne DEF SlotRight
<1>7. \A t \in Slots : t # s => admitted'[t] = admitted[t]
  BY <1>0, <1>1, <1>3, AdmitSlot
<1>8. QED BY <1>1, <1>5, <1>6, <1>7, CounterChanges, HangupSettled

LEMMA IndexWindows ==
  ASSUME GateShape, WindowInv, NEW k \in Call, CreateIndex(k)
  PROVE  WindowInv'
<1>1. UNCHANGED <<counters, admitted>> /\ call[k].op = "start"
  BY DEF CreateIndex, Calling
<1>2. \A x \in Call : call'[x] = call[x] \/ Harmless(call'[x])
  <2>1. CASE Hangup(k)
    BY <2>1, HangupSettled
  <2>2. CASE Goto(k, "find")
    <3> DEFINE q == [call[k] EXCEPT !.step = "find"]
    <3>1. call' = [call EXCEPT ![k] = q] /\ q.op = "start" /\ q.step = "find"
      BY <1>1, <2>2 DEF Goto, GateShape, CallShape, Wellformed, CallOf
    <3> HIDE DEF q
    <3>2. QED BY <3>1 DEF Harmless, Inserting, Merges, GateShape, CallShape
  <2>3. QED BY <2>1, <2>2 DEF CreateIndex
<1>3. CASE UNCHANGED <<unique, guarded>>
  BY <1>1, <1>2, <1>3, QuietWindows
<1>4. CASE /\ unique' = TRUE
           /\ guarded' = guarded \cup {n \in 0 .. Window(MaxTime) :
                /\ n >= Window(clock) /\ \A a \in Address : counters[<<a, n>>] = <<>>
                /\ \A x \in Call : ~ (Calling(x, {"http"}, "insert") /\ call[x].window = n)}
  <2>1. ASSUME NEW t \in Slots, t[2] \in guarded', t[2] \notin guarded PROVE counters[t] = <<>>
    <3>1. t = <<t[1], t[2]>> /\ t[1] \in Address
      BY DEF Slots
    <3>2. \A a \in Address : counters[<<a, t[2]>>] = <<>>
      BY <1>4, <2>1
    <3>3. QED BY <3>1, <3>2
  <2>2. ASSUME NEW t \in Slots PROVE SlotRight(t)' /\ (Merging(t) => Merging(t)')
    BY <1>1, <2>1, <2>2 DEF WindowInv, SlotRight, Limited, Merging
  <2>3. \A t : Merging(t) => Merging(t)'
    BY <2>2 DEF Merging
  <2>4. ASSUME NEW x \in Call PROVE Settled(call[x])'
    <3>1. CASE call'[x] = call[x]
      <4>1. Settled(call[x])
        BY DEF WindowInv
      <4>2. Inserting(call[x]) => call[x].window \notin guarded'
        BY <1>4, <4>1 DEF Settled, Inserting, Calling
      <4>3. QED BY <2>3, <3>1, <4>1, <4>2 DEF Settled, Inserting, Merges
    <3>2. CASE Harmless(call'[x])
      BY <3>2 DEF Harmless, Settled, Inserting, Merges
    <3>3. QED BY <1>2, <3>1, <3>2
  <2>5. QED BY <1>4, <2>2, <2>4 DEF WindowInv
<1>5. QED BY <1>3, <1>4 DEF CreateIndex

LEMMA FindWindows ==
  ASSUME GateShape, WindowInv, NEW k \in Call, FindDuplicates(k)
  PROVE  WindowInv'
<1> DEFINE G == {[slot |-> s, ids |-> DOMAIN counters[s], sum |-> Total(s)] : s \in Double}
           q == [call[k] EXCEPT !.step = "merge", !.groups = G]
<1>1. /\ call' = [call EXCEPT ![k] = q] /\ UNCHANGED <<counters, unique, admitted, guarded>>
      /\ q.op = "start" /\ q.step = "merge" /\ q.groups = G
  BY ZenonT(40) DEF FindDuplicates, Calling, GateShape, CallShape, Wellformed, CallOf
<1>2. ASSUME NEW s \in Double PROVE Merging(s)
  <2>1. s \in Slots /\ Cardinality(DOMAIN counters[s]) > 1 /\ SlotRight(s)
    BY DEF Double, WindowInv
  <2>2. counters[s] # <<>>
    <3>1. DOMAIN <<>> = {} /\ Cardinality({}) = 0
      BY FS_EmptySet
    <3>2. QED BY <2>1, <3>1
  <2>3. ~ Limited(s)
    <3>1. SUFFICES ASSUME NEW n \in Nat, counters[s] = <<n>> PROVE FALSE
      BY DEF Limited
    <3>2. DOMAIN <<n>> = {1} /\ Cardinality({1}) = 1
      BY FS_Singleton
    <3>3. QED BY <2>1, <3>1, <3>2
  <2>4. QED BY <2>1, <2>2, <2>3 DEF SlotRight, Merging
<1>3. \A g \in G : Merging(g.slot)
  BY <1>2
<1> HIDE DEF q, G
<1>4. ASSUME NEW x \in Call PROVE Settled(call[x])'
  <2>1. CASE x = k
    <3>1. call'[x] = q
      BY <1>1, <2>1 DEF GateShape, CallShape
    <3>2. QED BY <1>1, <1>3, <3>1 DEF Settled, Inserting, Merges, Merging
  <2>2. CASE x # k
    <3>1. call'[x] = call[x]
      BY <1>1, <2>2 DEF GateShape, CallShape
    <3>2. QED BY <1>1, <3>1 DEF WindowInv, Settled, Inserting, Merges, Merging
  <2>3. QED BY <2>1, <2>2
<1>5. QED BY <1>1, <1>4 DEF WindowInv, SlotRight, Limited
LEMMA SumWindows ==
  ASSUME GateShape, WindowInv, NEW k \in Call, SumUp(k)
  PROVE  WindowInv'
<1>1. /\ call[k].op = "start" /\ call[k].step = "merge" /\ UNCHANGED <<unique, admitted, guarded>>
      /\ Settled(call[k]) /\ Wellformed(call[k])
  BY DEF SumUp, Calling, WindowInv, GateShape, CallShape
<1>2. CASE call[k].groups = {}
  <2> DEFINE q == [call[k] EXCEPT !.step = "again"]
  <2>1. call' = [call EXCEPT ![k] = q] /\ UNCHANGED counters /\ q.op = "start" /\ q.step = "again"
    BY <1>1, <1>2 DEF SumUp, Goto, Wellformed, CallOf
  <2> HIDE DEF q
  <2>2. Harmless(q)
    BY <2>1 DEF Harmless, Inserting, Merges
  <2>3. \A x \in Call : call'[x] = call[x] \/ Harmless(call'[x])
    BY <2>1, <2>2 DEF GateShape, CallShape
  <2>4. QED BY <1>1, <2>1, <2>3, QuietWindows
<1>3. CASE call[k].groups # {}
  <2>1. PICK g \in call[k].groups :
          /\ counters' = [counters EXCEPT ![g.slot] = IF @ = <<>> THEN @ ELSE [@ EXCEPT ![1] = g.sum]]
          /\ call' = [call EXCEPT ![k].step = "drop", ![k].groups = {g} \cup (@ \ {g}),
                                  ![k].window = g.slot[2], ![k].ip = g.slot[1]]
    BY <1>3 DEF SumUp
  <2>2. PICK s, new : s = g.slot /\ new = IF counters[s] = <<>> THEN counters[s] ELSE [counters[s] EXCEPT ![1] = g.sum]
    OBVIOUS
  <2>3. s \in Slots /\ s[2] \notin guarded /\ counters[s] # <<>> /\ SlotRight(s) /\ s = <<s[1], s[2]>>
    <3>1. Merging(s)
      BY <1>1, <2>2 DEF Settled, Merges
    <3>2. s \in Slots => s = <<s[1], s[2]>>
      BY DEF Slots
    <3>3. QED BY <3>1, <3>2 DEF Merging, WindowInv
  <2>4. Counts(new) /\ new # <<>>
    BY <2>2, <2>3, CountsNotEmpty, CountsExcept DEF SlotRight
  <2>5. counters' = [counters EXCEPT ![s] = new]
    BY <2>1, <2>2
  <2> DEFINE q == [call[k] EXCEPT !.step = "drop", !.groups = {g} \cup (@ \ {g}),
                                  !.window = g.slot[2], !.ip = g.slot[1]]
  <2>6. /\ call' = [call EXCEPT ![k] = q] /\ q.op = "start" /\ q.step = "drop"
        /\ q.groups \subseteq call[k].groups /\ q.window = s[2] /\ q.ip = s[1]
    BY <1>1, <2>1, <2>2 DEF Wellformed, CallOf
  <2> HIDE DEF q
  <2>7. Settled(q)
    BY <1>1, <2>3, <2>6 DEF Settled, Merges, Inserting, Merging
  <2>8. \A x \in Call : call'[x] = call[x] \/ Settled(call'[x])
    BY <2>6, <2>7 DEF GateShape, CallShape
  <2>9. QED BY <1>1, <2>3, <2>4, <2>5, <2>8, CounterChanges
<1>4. QED BY <1>2, <1>3

LEMMA DropWindows ==
  ASSUME GateShape, WindowInv, NEW k \in Call, DropOthers(k)
  PROVE  WindowInv'
<1>1. /\ call[k].op = "start" /\ call[k].step = "drop" /\ UNCHANGED <<unique, admitted, guarded>>
      /\ Settled(call[k]) /\ Wellformed(call[k])
  BY DEF DropOthers, Calling, WindowInv, GateShape, CallShape
<1>2. PICK s, new : s = Slot(k) /\ new = Restrict(counters[s], DOMAIN counters[s] \ Others(k))
  OBVIOUS
<1>3. s \in Slots /\ s[2] \notin guarded /\ counters[s] # <<>>
  BY <1>1, <1>2 DEF Settled, Merges, Merging, Slot
<1>4. Counts(new) /\ new # <<>>
  <2>1. 1 \notin Others(k)
    BY DEF Others
  <2>2. Counts(counters[s])
    BY <1>3 DEF WindowInv, SlotRight
  <2>3. QED BY <1>2, <1>3, <2>1, <2>2, CountsKeep
<1>5. counters' = [counters EXCEPT ![s] = new]
  BY <1>2 DEF DropOthers
<1> DEFINE q == [call[k] EXCEPT !.step = "merge", !.groups = {g \in @ : g.slot # Slot(k)}]
<1>6. /\ call' = [call EXCEPT ![k] = q] /\ q.op = "start" /\ q.step = "merge"
      /\ q.groups \subseteq call[k].groups
  BY <1>1 DEF DropOthers, Wellformed, CallOf
<1> HIDE DEF q
<1>7. Settled(q)
  BY <1>1, <1>6 DEF Settled, Merges, Inserting
<1>8. \A x \in Call : call'[x] = call[x] \/ Settled(call'[x])
  BY <1>6, <1>7 DEF GateShape, CallShape
<1>9. QED BY <1>1, <1>3, <1>4, <1>5, <1>8, CounterChanges
LEMMA OneHarmless ==
  ASSUME GateShape, NEW k \in Call, NEW q, Harmless(q), call' = [call EXCEPT ![k] = q]
  PROVE  \A x \in Call : call'[x] = call[x] \/ Harmless(call'[x])
BY DEF GateShape, CallShape

LEMMA JudgeHarmless ==
  ASSUME GateShape, NEW k \in Call, NEW q, Wellformed(q), q.op = "http", Judge(k, q)
  PROVE  \A x \in Call : call'[x] = call[x] \/ Harmless(call'[x])
<1>1. PICK country \in Located(q.ip) : call' = [call EXCEPT ![k] =
        IF Decide(q.rules, q.ip, country)
        THEN [q EXCEPT !.step = "count", !.judged = TRUE, !.window = Window(clock)]
        ELSE [q EXCEPT !.step = "refused", !.judged = TRUE]]
  BY DEF Judge
<1>2. /\ Harmless([q EXCEPT !.step = "count", !.judged = TRUE, !.window = Window(clock)])
      /\ Harmless([q EXCEPT !.step = "refused", !.judged = TRUE])
  BY DEF Wellformed, CallOf, Harmless, Inserting, Merges
<1>3. QED BY <1>1, <1>2, OneHarmless

LEMMA OtherWindows ==
  ASSUME GateShape, GateShape', WindowInv, NEW k \in Call,
         \/ LoadRules(k) \/ KeepRules(k) \/ FailOpen(k) \/ Refuse(k) \/ InsertRule(k) \/ UpdateRule(k)
         \/ InvalidateRuleCache(k) \/ AuditRaises(k) \/ Ask(k)
  PROVE  WindowInv'
<1>1. Wellformed(call[k]) /\ clock \in Nat
  BY DEF GateShape, CallShape
<1>2. UNCHANGED <<counters, admitted, guarded, unique>>
  BY DEF LoadRules, KeepRules, FailOpen, Refuse, InsertRule, UpdateRule, InvalidateRuleCache, AuditRaises,
         Ask, Arrive, CreateRule, PatchRule, DeleteRule, StartWorker
<1>3. CASE LoadRules(k) \/ FailOpen(k)
  <2> DEFINE q == IF LoadRules(k) THEN [call[k] EXCEPT !.rules = Enabled, !.step = "keep"]
                  ELSE [call[k] EXCEPT !.step = "count", !.window = Window(clock)]
  <2>1. Harmless(q)
    BY <1>1 DEF Harmless, Inserting, Merges, Wellformed, CallOf
  <2>2. call' = [call EXCEPT ![k] = q]
    BY <1>3 DEF LoadRules, FailOpen
  <2> HIDE DEF q
  <2>3. QED BY <1>2, <2>1, <2>2, OneHarmless, QuietWindows
<1>4. CASE KeepRules(k)
  BY <1>1, <1>2, <1>4, JudgeHarmless, QuietWindows DEF KeepRules, Calling
<1>5. CASE Refuse(k) \/ InvalidateRuleCache(k) \/ AuditRaises(k)
  BY <1>2, <1>5, HangupSettled, QuietWindows DEF Refuse, InvalidateRuleCache, AuditRaises
<1>6. CASE InsertRule(k) \/ UpdateRule(k)
  <2>1. Harmless([call[k] EXCEPT !.step = "tell"])
    BY <1>1 DEF Harmless, Inserting, Merges, Wellformed, CallOf
  <2>2. QED BY <1>2, <1>6, <2>1, OneHarmless, QuietWindows DEF InsertRule, UpdateRule, Goto
<1>7. CASE \E w \in Worker, c \in Client : Arrive(k, w, c)
  <2>1. PICK w \in Worker, c \in Client : Arrive(k, w, c)
    BY <1>7
  <2> DEFINE q == [NoCall EXCEPT !.op = "http", !.step = "load", !.worker = w, !.from = c,
                                 !.since = clock, !.ip = c]
  <2>2. IF Fresh(w) THEN Judge(k, [q EXCEPT !.rules = cache[w].rules]) ELSE call' = [call EXCEPT ![k] = q]
    BY <2>1, RouteResolves DEF Arrive
  <2>3. q \in CallOf({q.groups}) /\ q.op = "http" /\ q.step = "load" /\ q.from = c /\ q.ip = c /\ ~ q.judged
    <3>1. NoCall \in CallOf({NoCall.groups}) /\ NoCall.judged = FALSE
      BY NoCallWellformed DEF Wellformed, NoCall
    <3>2. c \in Address /\ clock \in Int
      BY <1>1, AddressAssumption
    <3>3. QED BY <3>1, <3>2 DEF CallOf, GateOps, GateSteps
  <2> HIDE DEF q
  <2>4. CASE Fresh(w)
    <3> DEFINE p == [q EXCEPT !.rules = cache[w].rules]
    <3>1. p \in CallOf({p.groups}) /\ p.op = "http" /\ p.step = "load" /\ p.from = c /\ p.ip = c /\ ~ p.judged
      BY <2>3 DEF CallOf, GateShape
    <3> HIDE DEF p
    <3>2. Wellformed(p)
      BY <3>1 DEF Wellformed
    <3>3. Judge(k, p)
      BY <2>2, <2>4 DEF p
    <3>4. QED BY <1>2, <3>1, <3>2, <3>3, JudgeHarmless, QuietWindows
  <2>5. CASE ~ Fresh(w)
    <3>1. Harmless(q)
      BY <2>3 DEF Harmless, Inserting, Merges
    <3>2. QED BY <1>2, <2>2, <2>5, <3>1, OneHarmless, QuietWindows
  <2>6. QED BY <2>4, <2>5
<1>8. CASE \E w \in Worker :
              \/ \E d \in RuleDoc, i \in Identity : CreateRule(k, w, d, i)
              \/ \E d \in RuleDoc, to \in {"on", "off"} : PatchRule(k, w, d, to)
              \/ \E d \in RuleDoc : DeleteRule(k, w, d)
  <2>1. PICK q : call' = [call EXCEPT ![k] = q] /\ q.op \in {"create", "patch"}
    BY <1>8, PlacedCall
  <2>2. Harmless(q)
    BY <2>1 DEF Harmless, Inserting, Merges
  <2>3. QED BY <1>2, <2>1, <2>2, OneHarmless, QuietWindows
<1>9. CASE \E w \in Worker : StartWorker(k, w)
  <2>1. \A x \in Call : call'[x] = call[x] \/ Harmless(call'[x])
    <3>1. PICK w \in Worker : StartWorker(k, w)
      BY <1>9
    <3> DEFINE q == [NoCall EXCEPT !.op = "start", !.step = "index", !.worker = w]
    <3>2. Harmless(q) /\ Harmless(NoCall)
      BY DEF NoCall, Harmless, Inserting, Merges
    <3>3. \A x \in Call : call'[x] \in {q, NoCall, call[x]}
      BY <3>1 DEF StartWorker
    <3> HIDE DEF q
    <3>4. QED BY <3>2, <3>3
  <2>2. QED BY <1>2, <2>1, QuietWindows
<1>10. QED BY <1>3, <1>4, <1>5, <1>6, <1>7, <1>8, <1>9 DEF Ask-----------------------------------------------------------------------------
GateInv == GateShape /\ CopiesSeen /\ WindowInv

LEMMA GateInitRight == GateInit => GateInv
<1> SUFFICES ASSUME GateInit PROVE GateInv
  OBVIOUS
<1>1. CallShape
  BY NoCallWellformed DEF GateInit, CallShape
<1>2. GateShape
  <2>1. NoRule \in [state : {"none", "on", "off", "deleted"}, is : AnyRule]
    BY DEF NoRule, AnyRule
  <2>2. inForce \in [0 .. MaxTime -> SUBSET (SUBSET AnyRule)]
    BY DEF GateInit
  <2>3. QED BY <1>1, <2>1, <2>2, NoCacheShape, TimeAssumption DEF GateInit, GateShape
<1>3. CopiesSeen
  <2>1. Enabled = {}
    BY DEF GateInit, Enabled, NoRule
  <2>2. Enabled \in inForce[clock]
    BY <2>1, TimeAssumption DEF GateInit
  <2>3. QED BY <2>2 DEF GateInit, CopiesSeen, NoCache, NoCall, Dated
<1>4. WindowInv
  <2>1. Counts(<<>>)
    BY DEF Counts
  <2>2. QED BY <2>1 DEF GateInit, WindowInv, SlotRight, Settled, NoCall, Inserting, Merges
<1>5. QED BY <1>2, <1>3, <1>4 DEF GateInv

LEMMA GateInvStep == GateInv /\ [GateNext]_gateVars => GateInv'
<1> SUFFICES ASSUME GateInv, [GateNext]_gateVars PROVE GateInv'
  OBVIOUS
<1> USE DEF GateInv
<1>1. GroupsKnown
  BY SettledKnown
<1>2. ASSUME NEW k \in Call, Serve(k) \/ Ask(k) PROVE GateInv'
  <2>1. GateShape'
    BY <1>1, <1>2, ShapeKept
  <2>2. CopiesSeen'
    <3>1. Later
      BY <1>2, LaterSteps
    <3>2. Enabled' \in inForce'[clock']
      BY EnabledInForce DEF CopiesSeen
    <3>3. QED BY <1>2, <3>1, <3>2, ServeSeen DEF CopiesSeen
  <2>3. WindowInv'
    BY <1>2, <2>1, CountWindows, InsertWindows, IndexWindows, FindWindows, SumWindows, DropWindows, OtherWindows
       DEF Serve
  <2>4. QED BY <2>1, <2>2, <2>3
<1>3. CASE (\E d \in RuleDoc, i \in Identity : SeedRule(d, i)) \/ Tick \/ UNCHANGED gateVars
  <2>1. GateShape'
    BY <1>3, ShapeQuiet
  <2>2. UNCHANGED <<cache, counters, unique, admitted, guarded, call>>
    BY <1>3 DEF SeedRule, Tick, gateVars
  <2>3. CopiesSeen'
    <3>1. Later
      BY <1>3, LaterQuiet
    <3>2. Enabled' \in inForce'[clock']
      BY EnabledInForce DEF CopiesSeen
    <3>3. ~ NoCache.filled
      BY DEF NoCache
    <3>4. \A v \in Worker : (cache[v].filled => Since(cache[v].expires - Ttl, cache[v].rules))'
      BY <2>2, <3>1, <3>3, CachesSeen
    <3>5. ASSUME NEW x \in Call PROVE Dated(call[x])'
      <4>1. PICK q : q = call[x]
        OBVIOUS
      <4>2. Dated(q) /\ q.since \in Int
        BY <4>1 DEF GateShape, CallShape, CopiesSeen, Wellformed, CallOf
      <4>3. Dated(q)'
        BY <3>1, <4>2, DatedStays
      <4>4. QED BY <2>2, <4>1, <4>3 DEF Dated
    <3>6. QED BY <3>2, <3>4, <3>5 DEF CopiesSeen
  <2>4. WindowInv'
    BY <2>2, QuietWindows
  <2>5. QED BY <2>1, <2>3, <2>4
<1>4. QED BY <1>2, <1>3 DEF GateNext

LEMMA GateAlways == GateSpec => []GateInv
BY GateInitRight, GateInvStep, PTL DEF GateSpec

(* For any routes through any trusted proxies and whatever is written into  *)
(* X-Forwarded-For, every request is judged and counted under the address   *)
(* it came from (resolve_client_ip).                                        *)
THEOREM AddressTrue == GateSpec => []NoSpoofing
<1>1. GateInv => NoSpoofing
  BY DEF GateInv, GateShape, CallShape, Wellformed, NoSpoofing
<1>2. QED BY <1>1, GateAlways, PTL

(* However loads, edits, failed audits, invalidations, restarts and other   *)
(* workers overlap, no request is judged by rules that were out of force    *)
(* for a TTL when it came (RuleCache, IpAccessMiddleware).                  *)
THEOREM RulesWithinTtl == GateSpec => []RulesFresh
<1>1. GateInv => RulesFresh
  <2> SUFFICES ASSUME GateInv, NEW k \in Call, call[k].op = "http", call[k].judged
               PROVE  \E t \in 0 .. clock : t > call[k].since - Ttl /\ call[k].rules \in inForce[t]
    BY DEF RulesFresh
  <2>1. Since(call[k].since - Ttl + 1, call[k].rules) /\ call[k].since \in Int
    BY DEF GateInv, CopiesSeen, Dated, GateShape, CallShape, Wellformed, CallOf
  <2>2. PICK t \in 0 .. clock : t >= call[k].since - Ttl + 1 /\ call[k].rules \in inForce[t]
    BY <2>1 DEF Since
  <2>3. t > call[k].since - Ttl
    BY <2>1, <2>2, TimeAssumption
  <2>4. QED BY <2>2, <2>3
<1>2. QED BY <1>1, GateAlways, PTL

(* For any number of workers, clients and windows: once the unique index    *)
(* saw a window from its start, one document counts it and no more requests *)
(* are admitted in it than the limit, whatever merges, restarts and late    *)
(* requests overlap (rate_limit.py, ensure_indexes).                        *)
THEOREM OneLimit == GateSpec => []WindowHolds
<1>1. GateInv => WindowHolds
  <2> SUFFICES ASSUME GateInv, NEW s \in Slots, s[2] \in guarded
               PROVE  admitted[s] <= MaxInWindow /\ Cardinality(DOMAIN counters[s]) <= 1
    BY DEF WindowHolds
  <2>1. SlotRight(s)
    BY DEF GateInv, WindowInv
  <2>2. CASE counters[s] = <<>>
    <3>1. DOMAIN <<>> = {} /\ Cardinality({}) = 0
      BY FS_EmptySet
    <3>2. Cardinality(DOMAIN counters[s]) = 0
      BY <2>2, <3>1
    <3>3. QED BY <2>1, <2>2, <3>2, TimeAssumption DEF SlotRight
  <2>3. CASE counters[s] # <<>>
    <3>1. PICK n \in Nat : counters[s] = <<n>> /\ admitted[s] <= MaxInWindow
      BY <2>1, <2>3 DEF SlotRight, Limited
    <3>2. DOMAIN <<n>> = {1} /\ Cardinality({1}) = 1
      BY FS_Singleton
    <3>3. Cardinality(DOMAIN counters[s]) = 1
      BY <3>1, <3>2
    <3>4. QED BY <3>1, <3>3
  <2>4. QED BY <2>2, <2>3
<1>2. QED BY <1>1, GateAlways, PTL

-----------------------------------------------------------------------------
(***************************************************************************)
(* The accounts.  What each property needs is named for what the requests   *)
(* under way have read: a token in the one list of its account, the one     *)
(* login of an account and its copy of the failures, the one edit of a      *)
(* realm and what it asked.                                                 *)
(***************************************************************************)
Asked == [op : {"idle", "login", "refresh", "logout", "reset", "create"} \cup Edits,
          step : {"none", "password", "issue", "pull", "revoke", "write"},
          user : User \cup {"none"}, role : Role \cup {"none"}, token : Token \cup {"none"},
          seen : Nat, to : {"same", "block", "unblock", "manager", "member"}]
Placed(q) ==
  /\ q.op \in {"login", "refresh", "logout", "reset", "create", "edit", "block", "delete"} => q.user \in User
  /\ q.op \in {"idle", "edit_role", "delete_role"} => q.user = "none"
  /\ q.op \in {"edit_role", "delete_role"} => q.role \in Role
  /\ q.op = "refresh" => q.token \in Token
  /\ q.op = "create" => q.role \in RolesOf(q.user)
  /\ q.op = "edit" => q.role \in RolesOf(q.user) \cup {"none"}
  /\ q.op \in {"block", "delete"} => q.role = "none"

AccountShape ==
  /\ user \in [User -> [state : {"none", "live", "deleted"}, role : Role \cup {"none"},
                        blocked : BOOLEAN, failed : Nat, locked : BOOLEAN]]
  /\ \A u \in User : Live(u) => user[u].role \in RolesOf(u)
  /\ sessions \in [User -> Seq(Token)]
  /\ role \in [Role -> [live : BOOLEAN, manages : BOOLEAN]]
  /\ holder \in [Token -> User \cup {"none"}] /\ spent \in [Token -> Nat] /\ dead \subseteq Token
  /\ guesses \in [User -> Nat]
  /\ req \in [Req -> Asked] /\ \A r \in Req : Placed(req[r])

(* What a request is when it begins.                                        *)
Begun(r, q) ==
  /\ req[r].op = "idle" /\ req' = [req EXCEPT ![r] = q] /\ UNCHANGED book
  /\ q \in Asked /\ Placed(q)

LoginBegun(r, q) ==
  /\ Begun(r, q) /\ q.op = "login" /\ q.step = "password"
  /\ Live(q.user) /\ q.seen = user[q.user].failed
  /\ raced' = raced \cup {q.user : s \in {s \in Req : At(s, {"login"}, "password") /\ req[s].user = q.user}}
  /\ UNCHANGED contested

QuietBegun(r, q) ==
  /\ Begun(r, q) /\ q.op \in {"refresh", "logout", "reset"} /\ q.step # "password"
  /\ Live(q.user) /\ UNCHANGED <<raced, contested>>

CreateBegun(r, q) ==
  /\ Begun(r, q) /\ q.op = "create" /\ q.step = "write"
  /\ user[q.user].state = "none" /\ \A s \in Req : req[s].user # q.user
  /\ UNCHANGED <<raced, contested>>

RealmRoles(realm) == IF realm = Staff THEN StaffRole ELSE OperatorRole
InRealm(q, realm) == q.user \in realm \/ q.role \in RealmRoles(realm)
Editing(r, realm) == req[r].op \in Edits /\ InRealm(req[r], realm)

(* What an edit has asked of the realm it is about.                         *)
Asks(q, realm) ==
  /\ q.op = "edit" =>
       /\ q.role # "none" => role[q.role].live /\ (role[q.role].manages \/ OthersManage(q.user))
       /\ q.to = "block" => OthersManage(q.user)
  /\ q.op \in {"block", "delete"} => OthersManage(q.user)
  /\ q.op = "edit_role" => q.to = "manager" \/ (role[q.role].manages => Demotable(q.role, realm))
  /\ q.op = "delete_role" => Holders(q.role) = {}

EditBegun(r, q, realm) ==
  /\ Begun(r, q) /\ q.op \in Edits /\ q.step = "write"
  /\ q.op \in {"edit", "block", "delete"} => Live(q.user)
  /\ q.user \in realm \cup {"none"} /\ q.role \in RealmRoles(realm) \cup {"none"}
  /\ UNCHANGED raced
  /\ \/ contested' = contested \cup {realm}
     \/ /\ contested' = contested \cup {realm : s \in {s \in Req : Editing(s, realm)}}
        /\ Asks(q, realm)

-----------------------------------------------------------------------------
(* Lists of tokens, each of which stands in one place of one list.          *)
Distinct(list) == \A i, j \in DOMAIN list : list[i] = list[j] => i = j

LEMMA AppendDistinct ==
  ASSUME NEW S, NEW list \in Seq(S), NEW t \in S, Distinct(list), t \notin ToSet(list)
  PROVE  /\ Append(list, t) \in Seq(S) /\ Append(list, t) # <<>> /\ Distinct(Append(list, t))
         /\ ToSet(Append(list, t)) = ToSet(list) \cup {t}
<1> DEFINE all == Append(list, t)
           n == Len(list)
<1>1. n \in Nat /\ DOMAIN list = 1 .. n
  BY LenProperties
<1>2. /\ all \in Seq(S) /\ all # <<>> /\ Len(all) = n + 1
      /\ \A i \in 1 .. n : all[i] = list[i] /\ all[n + 1] = t
  BY AppendProperties
<1>3. all[n + 1] = t
  BY AppendProperties
<1>4. DOMAIN all = 1 .. n + 1
  BY <1>2, LenProperties
<1> HIDE DEF all, n
<1>5. \A i \in 1 .. n : list[i] # t
  BY <1>1 DEF ToSet
<1>6. Distinct(all)
  BY <1>1, <1>2, <1>3, <1>4, <1>5 DEF Distinct
<1>7. ToSet(all) = ToSet(list) \cup {t}
  <2>1. ASSUME NEW x \in ToSet(all) PROVE x \in ToSet(list) \cup {t}
    <3>1. PICK i \in 1 .. n + 1 : x = all[i]
      BY <1>4 DEF ToSet
    <3>2. QED BY <1>1, <1>2, <1>3, <3>1 DEF ToSet
  <2>2. ASSUME NEW x \in ToSet(list) PROVE x \in ToSet(all)
    <3>1. PICK i \in 1 .. n : x = list[i]
      BY <1>1 DEF ToSet
    <3>2. i \in 1 .. n + 1 /\ x = all[i]
      BY <1>1, <1>2, <3>1
    <3>3. QED BY <1>4, <3>2 DEF ToSet
  <2>3. t \in ToSet(all)
    BY <1>1, <1>3, <1>4 DEF ToSet
  <2>4. QED BY <2>1, <2>2, <2>3
<1>8. QED BY <1>2, <1>6, <1>7 DEF all

LEMMA TailDistinct ==
  ASSUME NEW S, NEW list \in Seq(S), list # <<>>, Distinct(list)
  PROVE  /\ Tail(list) \in Seq(S) /\ Distinct(Tail(list)) /\ Head(list) \in ToSet(list)
         /\ ToSet(Tail(list)) = ToSet(list) \ {Head(list)}
<1> DEFINE rest == Tail(list)
           n == Len(list)
<1>1. n \in Nat \ {0} /\ DOMAIN list = 1 .. n
  BY LenProperties, EmptySeq
<1>2. rest \in Seq(S) /\ Len(rest) = n - 1 /\ \A i \in 1 .. n - 1 : rest[i] = list[i + 1]
  BY HeadTailProperties
<1>3. DOMAIN rest = 1 .. n - 1
  BY <1>2, LenProperties
<1>4. Head(list) = list[1]
  OBVIOUS
<1> HIDE DEF rest, n
<1>5. Distinct(rest)
  <2>1. ASSUME NEW i \in 1 .. n - 1, NEW j \in 1 .. n - 1, rest[i] = rest[j] PROVE i = j
    <3>1. i + 1 \in DOMAIN list /\ j + 1 \in DOMAIN list /\ list[i + 1] = list[j + 1]
      BY <1>1, <1>2, <2>1
    <3>2. i + 1 = j + 1
      BY <3>1 DEF Distinct
    <3>3. QED BY <1>1, <3>2
  <2>2. QED BY <1>3, <2>1 DEF Distinct
<1>6. ASSUME NEW x PROVE x \in ToSet(rest) <=> x \in ToSet(list) \ {list[1]}
  <2>1. ASSUME x \in ToSet(rest) PROVE x \in ToSet(list) \ {list[1]}
    <3>1. PICK i \in 1 .. n - 1 : x = list[i + 1]
      BY <1>2, <1>3, <2>1 DEF ToSet
    <3>2. i + 1 \in DOMAIN list /\ 1 \in DOMAIN list /\ i + 1 # 1
      BY <1>1, <3>1
    <3>3. QED BY <3>1, <3>2 DEF ToSet, Distinct
  <2>2. ASSUME x \in ToSet(list), x # list[1] PROVE x \in ToSet(rest)
    <3>1. PICK i \in 1 .. n : x = list[i] /\ i # 1
      BY <1>1, <2>2 DEF ToSet
    <3>2. i - 1 \in 1 .. n - 1 /\ x = rest[i - 1]
      BY <1>1, <1>2, <3>1
    <3>3. QED BY <1>3, <3>2 DEF ToSet
  <2>3. QED BY <2>1, <2>2
<1>7. Head(list) \in ToSet(list)
  BY <1>1, <1>4 DEF ToSet
<1>8. ToSet(rest) = ToSet(list) \ {Head(list)}
  BY <1>4, <1>6
<1>9. QED BY <1>2, <1>5, <1>7, <1>8 DEF rest

LEMMA TokensOf ==
  ASSUME NEW S, NEW list \in Seq(S)
  PROVE  ToSet(list) \subseteq S
<1>1. DOMAIN list = 1 .. Len(list)
  BY LenProperties
<1>2. \A i \in 1 .. Len(list) : list[i] \in S
  BY ElementOfSeq
<1>3. QED BY <1>1, <1>2 DEF ToSet

LEMMA PulledTyped ==
  ASSUME NEW S, NEW list \in Seq(S), NEW t \in ToSet(list)
  PROVE  Pulled(list, t) \in Seq(S)
<1> DEFINE n == Len(list)
<1>1. n \in Nat /\ DOMAIN list = 1 .. n /\ \A i \in 1 .. n : list[i] \in S
  BY LenProperties, ElementOfSeq
<1>2. PICK p \in 1 .. n : p = (CHOOSE i \in DOMAIN list : list[i] = t)
  BY <1>1 DEF ToSet
<1>3. SubSeq(list, 1, p - 1) \in Seq(S)
  <2>1. \A i \in 1 .. p - 1 : list[i] \in S
    BY <1>1
  <2>2. QED BY <2>1, SubSeqProperties
<1>4. SubSeq(list, p + 1, n) \in Seq(S)
  <2>1. \A i \in p + 1 .. n : list[i] \in S
    BY <1>1
  <2>2. QED BY <1>1, <2>1, SubSeqProperties
<1>5. SubSeq(list, 1, p - 1) \o SubSeq(list, p + 1, n) \in Seq(S)
  BY <1>3, <1>4, ConcatProperties
<1>6. QED BY <1>2, <1>5 DEF Pulled, RemoveAt

LEMMA PulledDistinct ==
  ASSUME NEW S, NEW list \in Seq(S), NEW t \in ToSet(list), Distinct(list)
  PROVE  /\ Pulled(list, t) \in Seq(S) /\ Distinct(Pulled(list, t))
         /\ ToSet(Pulled(list, t)) = ToSet(list) \ {t}
<1> DEFINE n == Len(list)
<1>1. n \in Nat /\ DOMAIN list = 1 .. n /\ \A i \in 1 .. n : list[i] \in S
  BY LenProperties, ElementOfSeq
<1>2. PICK p \in 1 .. n : p = (CHOOSE i \in DOMAIN list : list[i] = t) /\ list[p] = t
  BY <1>1 DEF ToSet
<1> DEFINE a == SubSeq(list, 1, p - 1)
           b == SubSeq(list, p + 1, n)
           rest == a \o b
<1>3. a \in Seq(S) /\ Len(a) = p - 1 /\ \A i \in 1 .. p - 1 : a[i] = list[i]
  <2>1. \A i \in 1 .. p - 1 : list[i] \in S
    BY <1>1
  <2>2. Len(a) = (IF 1 <= p - 1 THEN p - 1 - 1 + 1 ELSE 0) /\ a \in Seq(S)
        /\ \A i \in 1 .. p - 1 - 1 + 1 : a[i] = list[1 + i - 1]
    BY <2>1, SubSeqProperties
  <2> HIDE DEF a
  <2>3. QED BY <1>1, <2>2
<1>4. b \in Seq(S) /\ Len(b) = n - p /\ \A i \in 1 .. n - p : b[i] = list[p + i]
  <2>1. \A i \in p + 1 .. n : list[i] \in S
    BY <1>1
  <2>2. Len(b) = (IF p + 1 <= n THEN n - (p + 1) + 1 ELSE 0) /\ b \in Seq(S)
        /\ \A i \in 1 .. n - (p + 1) + 1 : b[i] = list[p + 1 + i - 1]
    BY <1>1, <2>1, SubSeqProperties
  <2> HIDE DEF b, n
  <2>3. QED BY <1>1, <2>2
<1>5. /\ rest \in Seq(S) /\ Len(rest) = Len(a) + Len(b)
      /\ \A i \in 1 .. Len(a) + Len(b) : rest[i] = IF i <= Len(a) THEN a[i] ELSE b[i - Len(a)]
  BY <1>3, <1>4, ConcatProperties
<1>6. Pulled(list, t) = rest
  BY <1>2 DEF Pulled, RemoveAt
<1>7. DOMAIN rest = 1 .. n - 1
  <2> HIDE DEF rest
  <2>1. Len(rest) = n - 1
    <3> HIDE DEF a, b
    <3>1. Len(rest) = (p - 1) + (n - p)
      BY <1>3, <1>4, <1>5
    <3>2. p \in Int /\ n \in Int
      BY <1>1
    <3> HIDE DEF n
    <3>3. QED BY <3>1, <3>2
  <2>2. QED BY <1>5, <2>1, LenProperties
<1> HIDE DEF a, b, rest, n
<1>8. \A i \in 1 .. n - 1 : rest[i] = IF i < p THEN list[i] ELSE list[i + 1]
  <2> SUFFICES ASSUME NEW i \in 1 .. n - 1 PROVE rest[i] = IF i < p THEN list[i] ELSE list[i + 1]
    OBVIOUS
  <2>1. rest[i] = IF i <= p - 1 THEN a[i] ELSE b[i - (p - 1)]
    BY <1>1, <1>3, <1>4, <1>5
  <2>2. CASE i < p
    BY <1>1, <1>3, <2>1, <2>2
  <2>3. CASE i >= p
    <3>1. i - (p - 1) \in 1 .. n - p /\ p + (i - (p - 1)) = i + 1
      BY <1>1, <2>3
    <3>2. rest[i] = b[i - (p - 1)]
      BY <1>1, <2>1, <2>3
    <3>3. QED BY <1>1, <1>4, <2>3, <3>1, <3>2
  <2>4. QED BY <1>1, <2>2, <2>3
<1>9. Distinct(rest)
  <2>1. ASSUME NEW i \in 1 .. n - 1, NEW j \in 1 .. n - 1, rest[i] = rest[j] PROVE i = j
    <3> DEFINE at(x) == IF x < p THEN x ELSE x + 1
    <3>1. at(i) \in DOMAIN list /\ at(j) \in DOMAIN list
      BY <1>1
    <3>2. list[at(i)] = list[at(j)]
      BY <1>8, <2>1
    <3>3. at(i) = at(j)
      BY <3>1, <3>2 DEF Distinct
    <3>4. QED BY <1>1, <3>3
  <2>2. QED BY <1>7, <2>1 DEF Distinct
<1>10. ASSUME NEW x PROVE x \in ToSet(rest) <=> x \in ToSet(list) \ {t}
  <2>1. ASSUME x \in ToSet(rest) PROVE x \in ToSet(list) \ {t}
    <3>1. PICK i \in 1 .. n - 1 : x = IF i < p THEN list[i] ELSE list[i + 1]
      BY <1>7, <1>8, <2>1 DEF ToSet
    <3>2. PICK j \in 1 .. n : x = list[j] /\ j # p
      BY <1>1, <3>1
    <3>3. QED BY <1>1, <1>2, <3>2 DEF ToSet, Distinct
  <2>2. ASSUME x \in ToSet(list), x # t PROVE x \in ToSet(rest)
    <3>1. PICK j \in 1 .. n : x = list[j] /\ j # p
      BY <1>1, <1>2, <2>2 DEF ToSet
    <3>2. CASE j < p
      <4>1. j \in 1 .. n - 1 /\ rest[j] = x
        BY <1>1, <1>8, <3>1, <3>2
      <4>2. QED BY <1>7, <4>1 DEF ToSet
    <3>3. CASE j > p
      <4>1. j - 1 \in 1 .. n - 1 /\ rest[j - 1] = x
        BY <1>1, <1>8, <3>1, <3>3
      <4>2. QED BY <1>7, <4>1 DEF ToSet
    <3>4. QED BY <1>1, <3>1, <3>2, <3>3
  <2>3. QED BY <2>1, <2>2
<1>11. ToSet(rest) = ToSet(list) \ {t}
  BY <1>10
<1>12. QED BY <1>5, <1>6, <1>9, <1>11
-----------------------------------------------------------------------------
LEMMA IdleAsked == Idle \in Asked /\ Placed(Idle)
BY RealmAssumption DEF Idle, Asked, Placed, Edits, User

LEMMA SignInBegins ==
  ASSUME AccountShape, NEW r \in Req, SignIn(r)
  PROVE  \E q : LoginBegun(r, q) \/ QuietBegun(r, q)
<1>1. ASSUME NEW u \in User, Login(r, u) PROVE \E q : LoginBegun(r, q)
  <2> DEFINE q == [Idle EXCEPT !.op = "login", !.step = "password", !.user = u, !.seen = user[u].failed]
  <2>1. q \in Asked /\ Placed(q)
    BY DEF AccountShape, Idle, Asked, Placed
  <2>2. q.op = "login" /\ q.step = "password" /\ q.user = u /\ q.seen = user[u].failed
    BY DEF Idle
  <2>3. req[r].op = "idle" /\ req' = [req EXCEPT ![r] = q] /\ UNCHANGED <<book, contested>> /\ Live(u)
        /\ raced' = raced \cup {u : s \in {s \in Req : At(s, {"login"}, "password") /\ req[s].user = u}}
    BY <1>1 DEF Login, Begin, Usable
  <2> HIDE DEF q
  <2>4. QED BY <2>1, <2>2, <2>3 DEF LoginBegun, Begun
<1>2. ASSUME NEW t \in Token, ClientRefresh(r, t) \/ AdminRefresh(r, t) PROVE \E q : QuietBegun(r, q)
  <2> DEFINE q == [Idle EXCEPT !.op = "refresh", !.step = "pull", !.user = holder[t], !.token = t]
  <2>1. holder[t] \in User /\ Refresh(r, t)
    BY <1>2 DEF ClientRefresh, AdminRefresh, Decodes, User
  <2>2. q \in Asked /\ Placed(q)
    BY <2>1 DEF AccountShape, Idle, Asked, Placed
  <2>3. q.op = "refresh" /\ q.step = "pull" /\ q.user = holder[t]
    BY DEF Idle
  <2>4. req[r].op = "idle" /\ req' = [req EXCEPT ![r] = q] /\ UNCHANGED <<book, raced, contested>> /\ Live(holder[t])
    BY <2>1 DEF Refresh, Begin, Usable
  <2> HIDE DEF q
  <2>5. QED BY <2>2, <2>3, <2>4 DEF QuietBegun, Begun
<1>3. ASSUME NEW u \in User, ClientLogout(r, u) \/ ChangePassword(r, u) \/ AdminLogout(r, u)
      PROVE  \E q : QuietBegun(r, q)
  <2> DEFINE q == [Idle EXCEPT !.op = "logout", !.step = "revoke", !.user = u]
  <2>1. q \in Asked /\ Placed(q)
    BY DEF AccountShape, Idle, Asked, Placed
  <2>2. q.op = "logout" /\ q.step = "revoke" /\ q.user = u
    BY DEF Idle
  <2>3. req[r].op = "idle" /\ req' = [req EXCEPT ![r] = q] /\ UNCHANGED <<book, raced, contested>> /\ Live(u)
    BY <1>3 DEF ClientLogout, ChangePassword, AdminLogout, Begin, CurrentClient, CurrentAdmin, Usable
  <2> HIDE DEF q
  <2>4. QED BY <2>1, <2>2, <2>3 DEF QuietBegun, Begun
<1>4. QED BY <1>1, <1>2, <1>3 DEF SignIn, ClientLogin, AdminLogin

LEMMA ResetBegins ==
  ASSUME AccountShape, NEW r \in Req, NEW u \in Staff, ResetEmployeePassword(r, u)
  PROVE  \E q : QuietBegun(r, q)
<1> DEFINE q == [Idle EXCEPT !.op = "reset", !.step = "write", !.user = u]
<1>1. q \in Asked /\ Placed(q)
  BY DEF AccountShape, Idle, Asked, Placed, User
<1>2. q.op = "reset" /\ q.step = "write" /\ q.user = u
  BY DEF Idle
<1>3. req[r].op = "idle" /\ req' = [req EXCEPT ![r] = q] /\ UNCHANGED <<book, raced, contested>> /\ Live(u)
  BY DEF ResetEmployeePassword, Begin
<1> HIDE DEF q
<1>4. QED BY <1>1, <1>2, <1>3 DEF QuietBegun, Begun

LEMMA CreateBegins ==
  ASSUME AccountShape, NEW r \in Req, NEW u \in User, NEW x \in Role,
         CreateEmployee(r, u, x) \/ CreateAdminUser(r, u, x)
  PROVE  \E q : CreateBegun(r, q)
<1> DEFINE q == [Idle EXCEPT !.op = "create", !.step = "write", !.user = u, !.role = x]
<1>1. x \in RolesOf(u)
  BY RealmAssumption DEF CreateEmployee, CreateAdminUser, RolesOf
<1>2. q \in Asked /\ Placed(q)
  BY <1>1 DEF AccountShape, Idle, Asked, Placed
<1>3. q.op = "create" /\ q.step = "write" /\ q.user = u
  BY DEF Idle
<1>4. /\ req[r].op = "idle" /\ req' = [req EXCEPT ![r] = q] /\ UNCHANGED <<book, raced, contested>>
      /\ user[u].state = "none" /\ \A s \in Req : req[s].user # u
  BY DEF CreateEmployee, CreateAdminUser, Add, Begin
<1> HIDE DEF q
<1>5. QED BY <1>2, <1>3, <1>4 DEF CreateBegun, Begun

LEMMA EditBegin ==
  ASSUME AccountShape, NEW r \in Req, NEW realm \in {Staff, Operator}, NEW q \in Asked, Placed(q),
         q.op \in Edits, q.step = "write", Asks(q, realm),
         q.op \in {"edit", "block", "delete"} => Live(q.user),
         q.user \in realm \cup {"none"}, q.role \in RealmRoles(realm) \cup {"none"}, Edit(r, realm, q)
  PROVE  EditBegun(r, q, realm)
<1>1. req[r].op = "idle" /\ req' = [req EXCEPT ![r] = q] /\ UNCHANGED book /\ UNCHANGED raced
  BY DEF Edit, Begin
<1>2. contested' = contested \cup {realm : s \in {s \in Req : Editing(s, realm)}}
  BY DEF Edit, Editing, InRealm, RealmRoles
<1>3. QED BY <1>1, <1>2 DEF EditBegun, Begun

LEMMA EmployeeEdits ==
  ASSUME AccountShape, NEW r \in Req, NEW u \in Staff,
         (\E x \in StaffRole : PatchEmployee(r, u, x)) \/ BlockEmployee(r, u) \/ SetEmployeeBlocked(r, u)
  PROVE  \E q : EditBegun(r, q, Staff)
<1>1. ASSUME NEW x \in StaffRole, PatchEmployee(r, u, x) PROVE \E q : EditBegun(r, q, Staff)
  <2> DEFINE q == [Idle EXCEPT !.op = "edit", !.step = "write", !.user = u, !.role = x]
  <2>1. q \in Asked /\ Placed(q)
    BY DEF Idle, Asked, Placed, Edits, User, Role, RolesOf
  <2>2. q.op = "edit" /\ q.step = "write" /\ q.user = u /\ q.role = x /\ q.to = "same"
    BY DEF Idle
  <2>3. Live(u) /\ role[x].live /\ (role[x].manages \/ OthersManage(u)) /\ Edit(r, Staff, q)
    BY <1>1 DEF PatchEmployee
  <2> HIDE DEF q
  <2>4. Asks(q, Staff)
    BY <2>2, <2>3 DEF Asks
  <2>5. EditBegun(r, q, Staff)
    BY <2>1, <2>2, <2>3, <2>4, EditBegin DEF Edits, RealmRoles
  <2>6. QED BY <2>5
<1>2. ASSUME BlockEmployee(r, u) PROVE \E q : EditBegun(r, q, Staff)
  <2> DEFINE q == [Idle EXCEPT !.op = "block", !.step = "write", !.user = u]
  <2>1. q \in Asked /\ Placed(q)
    BY DEF Idle, Asked, Placed, Edits, User
  <2>2. q.op = "block" /\ q.step = "write" /\ q.user = u /\ q.role = "none"
    BY DEF Idle
  <2>3. Live(u) /\ OthersManage(u) /\ Edit(r, Staff, q)
    BY <1>2 DEF BlockEmployee
  <2> HIDE DEF q
  <2>4. Asks(q, Staff)
    BY <2>2, <2>3 DEF Asks
  <2>5. EditBegun(r, q, Staff)
    BY <2>1, <2>2, <2>3, <2>4, EditBegin DEF Edits
  <2>6. QED BY <2>5
<1>3. ASSUME SetEmployeeBlocked(r, u) PROVE \E q : EditBegun(r, q, Staff)
  <2> DEFINE q == [Idle EXCEPT !.op = "block", !.step = "write", !.user = u]
  <2>1. q \in Asked /\ Placed(q)
    BY DEF Idle, Asked, Placed, Edits, User
  <2>2. q.op = "block" /\ q.step = "write" /\ q.user = u /\ q.role = "none"
    BY DEF Idle
  <2>3. Live(u) /\ req[r].op = "idle" /\ req' = [req EXCEPT ![r] = q] /\ UNCHANGED book
        /\ UNCHANGED raced /\ contested' = contested \cup {Staff}
    BY <1>3 DEF SetEmployeeBlocked, Begin
  <2> HIDE DEF q
  <2>4. EditBegun(r, q, Staff)
    BY <2>1, <2>2, <2>3 DEF EditBegun, Begun, Edits
  <2>5. QED BY <2>4
<1>4. QED BY <1>1, <1>2, <1>3

LEMMA AdminEdits ==
  ASSUME AccountShape, NEW r \in Req, NEW u \in Operator,
         \/ DeleteAdminUser(r, u)
         \/ \E x \in OperatorRole \cup {"none"}, to \in {"same", "block", "unblock"} : UpdateAdminUser(r, u, x, to)
  PROVE  \E q : EditBegun(r, q, Operator)
<1>0. u \notin Staff /\ Operator # Staff /\ RealmRoles(Operator) = OperatorRole /\ RolesOf(u) = OperatorRole
  BY RealmAssumption DEF RealmRoles, RolesOf
<1>1. ASSUME NEW x \in OperatorRole \cup {"none"}, NEW to \in {"same", "block", "unblock"}, UpdateAdminUser(r, u, x, to)
      PROVE  \E q : EditBegun(r, q, Operator)
  <2> DEFINE q == [Idle EXCEPT !.op = "edit", !.step = "write", !.user = u, !.role = x, !.to = to]
  <2>1. q \in Asked /\ Placed(q)
    BY <1>0 DEF Idle, Asked, Placed, Edits, User, Role
  <2>2. q.op = "edit" /\ q.step = "write" /\ q.user = u /\ q.role = x /\ q.to = to
    BY DEF Idle
  <2>3. /\ Live(u) /\ x # "none" => role[x].live /\ (role[x].manages \/ OthersManage(u))
        /\ to = "block" => OthersManage(u)
        /\ Edit(r, Operator, q)
    BY <1>1 DEF UpdateAdminUser
  <2>3a. Live(u)
    BY <1>1 DEF UpdateAdminUser
  <2> HIDE DEF q
  <2>4. Asks(q, Operator)
    BY <2>2, <2>3, <2>3a DEF Asks
  <2>5. EditBegun(r, q, Operator)
    BY <1>0, <2>1, <2>2, <2>3, <2>3a, <2>4, EditBegin DEF Edits
  <2>6. QED BY <2>5
<1>2. ASSUME DeleteAdminUser(r, u) PROVE \E q : EditBegun(r, q, Operator)
  <2> DEFINE q == [Idle EXCEPT !.op = "delete", !.step = "write", !.user = u]
  <2>1. q \in Asked /\ Placed(q)
    BY DEF Idle, Asked, Placed, Edits, User
  <2>2. q.op = "delete" /\ q.step = "write" /\ q.user = u /\ q.role = "none"
    BY DEF Idle
  <2>3. Live(u) /\ OthersManage(u) /\ Edit(r, Operator, q)
    BY <1>2 DEF DeleteAdminUser
  <2> HIDE DEF q
  <2>4. Asks(q, Operator)
    BY <2>2, <2>3 DEF Asks
  <2>5. EditBegun(r, q, Operator)
    BY <2>1, <2>2, <2>3, <2>4, EditBegin DEF Edits
  <2>6. QED BY <2>5
<1>3. QED BY <1>1, <1>2

LEMMA RoleEdits ==
  ASSUME AccountShape, NEW r \in Req, NEW x \in Role, NEW m \in BOOLEAN,
         PatchRole(r, x, m) \/ UpdateAdminRole(r, x, m) \/ DeleteRole(r, x) \/ DeleteAdminRole(r, x)
  PROVE  \E q, realm : realm \in {Staff, Operator} /\ EditBegun(r, q, realm)
<1>1. PICK realm \in {Staff, Operator} : x \in RealmRoles(realm)
        /\ \/ /\ role[x].manages /\ ~ m => Demotable(x, realm)
              /\ Edit(r, realm, [Idle EXCEPT !.op = "edit_role", !.step = "write", !.role = x,
                                            !.to = IF m THEN "manager" ELSE "member"])
           \/ /\ Holders(x) = {}
              /\ Edit(r, realm, [Idle EXCEPT !.op = "delete_role", !.step = "write", !.role = x])
  <2>1. RealmRoles(Staff) = StaffRole /\ RealmRoles(Operator) = OperatorRole
    BY RealmAssumption DEF RealmRoles
  <2>2. CASE PatchRole(r, x, m)
    BY <2>1, <2>2 DEF PatchRole
  <2>3. CASE UpdateAdminRole(r, x, m)
    BY <2>1, <2>3 DEF UpdateAdminRole
  <2>4. CASE DeleteRole(r, x)
    BY <2>1, <2>4 DEF DeleteRole
  <2>5. CASE DeleteAdminRole(r, x)
    BY <2>1, <2>5 DEF DeleteAdminRole
  <2>6. QED BY <2>2, <2>3, <2>4, <2>5
<1>2. CASE /\ role[x].manages /\ ~ m => Demotable(x, realm)
           /\ Edit(r, realm, [Idle EXCEPT !.op = "edit_role", !.step = "write", !.role = x,
                                         !.to = IF m THEN "manager" ELSE "member"])
  <2> DEFINE to == IF m THEN "manager" ELSE "member"
             q == [Idle EXCEPT !.op = "edit_role", !.step = "write", !.role = x, !.to = to]
  <2>1. to \in {"manager", "member"} /\ (m \/ to # "manager") /\ (to = "manager" \/ ~ m)
    OBVIOUS
  <2>2. Edit(r, realm, q) /\ (to = "manager" \/ (role[x].manages => Demotable(x, realm)))
    BY <1>2, <2>1
  <2> HIDE DEF to
  <2>3. q \in Asked /\ Placed(q)
    BY <2>1 DEF Idle, Asked, Placed, Edits
  <2>4. q.op = "edit_role" /\ q.step = "write" /\ q.user = "none" /\ q.role = x /\ q.to = to
    BY DEF Idle
  <2> HIDE DEF q
  <2>5. Asks(q, realm)
    BY <2>2, <2>4 DEF Asks
  <2>6. EditBegun(r, q, realm)
    BY <1>1, <2>2, <2>3, <2>4, <2>5, EditBegin DEF Edits
  <2>7. QED BY <2>6
<1>3. CASE /\ Holders(x) = {}
           /\ Edit(r, realm, [Idle EXCEPT !.op = "delete_role", !.step = "write", !.role = x])
  <2> DEFINE q == [Idle EXCEPT !.op = "delete_role", !.step = "write", !.role = x]
  <2>1. q \in Asked /\ Placed(q)
    BY DEF Idle, Asked, Placed, Edits
  <2>2. q.op = "delete_role" /\ q.step = "write" /\ q.user = "none" /\ q.role = x
    BY DEF Idle
  <2>3. Edit(r, realm, q)
    BY <1>3
  <2> HIDE DEF q
  <2>4. Asks(q, realm)
    BY <1>3, <2>2 DEF Asks
  <2>5. EditBegun(r, q, realm)
    BY <1>1, <2>1, <2>2, <2>3, <2>4, EditBegin DEF Edits
  <2>6. QED BY <2>5
<1>4. QED BY <1>1, <1>2, <1>3

(* Every step begins a request, continues one or is done at once.           *)
LEMMA StepsOfAccounts ==
  ASSUME AccountShape, [Next]_vars
  PROVE  \/ \E r \in Req : \E q : LoginBegun(r, q) \/ QuietBegun(r, q) \/ CreateBegun(r, q)
         \/ \E r \in Req : \E q, realm : realm \in {Staff, Operator} /\ EditBegun(r, q, realm)
         \/ \E r \in Req : Continue(r)
         \/ Once
         \/ UNCHANGED vars
<1>1. ASSUME NEW r \in Req, ManageStaff(r)
      PROVE  \/ \E q : CreateBegun(r, q)
             \/ \E q, realm : realm \in {Staff, Operator} /\ EditBegun(r, q, realm)
  BY <1>1, EmployeeEdits, RoleEdits, CreateBegins DEF ManageStaff, User, Role
<1>2. ASSUME NEW r \in Req, ManageOperators(r)
      PROVE  \/ \E q : CreateBegun(r, q)
             \/ \E q, realm : realm \in {Staff, Operator} /\ EditBegun(r, q, realm)
  BY <1>2, AdminEdits, CreateBegins DEF ManageOperators, User, Role
<1>3. ASSUME NEW r \in Req, Platform(r)
      PROVE  \E q, realm : realm \in {Staff, Operator} /\ EditBegun(r, q, realm)
  BY <1>3, EmployeeEdits, RoleEdits DEF Platform, Role
<1>4. ASSUME NEW r \in Req, \E u \in Staff : ResetEmployeePassword(r, u)
      PROVE  \E q : QuietBegun(r, q)
  BY <1>4, ResetBegins
<1>5. QED BY <1>1, <1>2, <1>3, <1>4, SignInBegins DEF Next, Manage
-----------------------------------------------------------------------------
Account == [state : {"none", "live", "deleted"}, role : Role \cup {"none"},
            blocked : BOOLEAN, failed : Nat, locked : BOOLEAN]
Requests == req \in [Req -> Asked] /\ \A r \in Req : Placed(req[r])

LEMMA GoOn ==
  ASSUME Requests, NEW r \in Req, NEW s \in {"issue", "revoke"}, Go(r, s)
  PROVE  /\ Requests'
         /\ \E q : req' = [req EXCEPT ![r] = q] /\ q = [req[r] EXCEPT !.step = s] /\ q \in Asked
                  /\ q.op = req[r].op /\ q.user = req[r].user /\ q.role = req[r].role /\ q.to = req[r].to
                  /\ q.step = s /\ q.token = req[r].token
<1> DEFINE q == [req[r] EXCEPT !.step = s]
<1>1. req[r] \in Asked /\ Placed(req[r])
  BY DEF Requests
<1>2. /\ q \in Asked /\ q.op = req[r].op /\ q.user = req[r].user /\ q.role = req[r].role
      /\ q.to = req[r].to /\ q.step = s /\ q.token = req[r].token
  BY <1>1 DEF Asked
<1>3. req' = [req EXCEPT ![r] = q]
  BY DEF Requests, Go
<1> HIDE DEF q
<1>4. Placed(q)
  BY <1>1, <1>2 DEF Placed
<1>5. Requests'
  BY <1>2, <1>3, <1>4 DEF Requests
<1>6. q = [req[r] EXCEPT !.step = s]
  BY DEF q
<1>7. QED BY <1>2, <1>3, <1>5, <1>6

LEMMA DoneWith ==
  ASSUME Requests, NEW r \in Req, Done(r)
  PROVE  Requests' /\ req' = [req EXCEPT ![r] = Idle]
BY IdleAsked DEF Requests, Done

LEMMA SetShape ==
  ASSUME AccountShape, NEW u \in User, NEW rec \in Account,
         Live(u) => rec.state = "live" /\ rec.role \in RolesOf(u), SetUser(u, rec)
  PROVE  user' \in [User -> Account] /\ \A v \in User : Live(v)' => user'[v].role \in RolesOf(v)
<1>1. user \in [User -> Account]
  BY DEF AccountShape, Account
<1>2. user' = [user EXCEPT ![u] = IF Live(u) THEN rec ELSE user[u]]
  BY DEF SetUser
<1>3. CASE Live(u)
  BY <1>1, <1>2, <1>3 DEF AccountShape, Live
<1>4. CASE ~ Live(u)
  <2>1. user' = user
    BY <1>1, <1>2, <1>4
  <2>2. QED BY <1>1, <2>1 DEF AccountShape, Live
<1>5. QED BY <1>3, <1>4

LEMMA AccountKept ==
  ASSUME AccountShape, [Next]_vars
  PROVE  AccountShape'
<1>0. /\ user \in [User -> Account] /\ \A u \in User : Live(u) => user[u].role \in RolesOf(u)
      /\ sessions \in [User -> Seq(Token)] /\ role \in [Role -> [live : BOOLEAN, manages : BOOLEAN]]
      /\ holder \in [Token -> User \cup {"none"}] /\ spent \in [Token -> Nat] /\ dead \subseteq Token
      /\ guesses \in [User -> Nat] /\ Requests
  BY DEF AccountShape, Account, Requests
<1>1. ASSUME NEW r \in Req, NEW q, Begun(r, q)
      PROVE  AccountShape'
  <2>1. Requests'
    BY <1>0, <1>1 DEF Requests, Begun
  <2>2. UNCHANGED book
    BY <1>1 DEF Begun
  <2>3. QED BY <1>0, <2>1, <2>2 DEF AccountShape, Account, Requests, book, Live
<1>2. ASSUME NEW r \in Req, Continue(r)
      PROVE  AccountShape'
  <2>0. req[r] \in Asked /\ Placed(req[r])
    BY <1>0 DEF Requests
  <2> DEFINE u == req[r].user
  <2>a. ASSUME NEW ops, NEW s, At(r, ops, s), ops \subseteq {"login", "refresh", "logout", "reset", "create", "edit", "block", "delete"}
        PROVE  u \in User /\ user[u] \in Account
    BY <1>0, <2>0, <2>a DEF At, Placed
  <2>1. CASE WrongPassword(r)
    <3>1. u \in User /\ user[u] \in Account
      BY <2>1, <2>a DEF WrongPassword
    <3>2. req[r].seen \in Nat
      BY <2>0 DEF Asked
    <3> DEFINE rec == IF req[r].seen + 1 >= Threshold THEN [user[u] EXCEPT !.failed = 0, !.locked = TRUE]
                                                      ELSE [user[u] EXCEPT !.failed = req[r].seen + 1]
    <3>3. rec \in Account /\ rec.state = user[u].state /\ rec.role = user[u].role
      <4> DEFINE n == req[r].seen + 1
      <4>1. n \in Nat
        BY <3>2
      <4> HIDE DEF n
      <4>2. [user[u] EXCEPT !.failed = 0, !.locked = TRUE] \in Account /\ [user[u] EXCEPT !.failed = n] \in Account
        BY <3>1, <4>1 DEF Account
      <4>3. CASE n >= Threshold
        <5>1. rec = [user[u] EXCEPT !.failed = 0, !.locked = TRUE]
          BY <4>3 DEF n
        <5>2. QED BY <3>1, <4>2, <5>1 DEF Account
      <4>4. CASE ~ (n >= Threshold)
        <5>1. rec = [user[u] EXCEPT !.failed = n]
          BY <4>4 DEF n
        <5>2. QED BY <3>1, <4>2, <5>1 DEF Account
      <4>5. QED BY <4>3, <4>4
    <3>4. SetUser(u, rec)
      BY <2>1 DEF WrongPassword
    <3> HIDE DEF rec
    <3>5. user' \in [User -> Account] /\ \A v \in User : Live(v)' => user'[v].role \in RolesOf(v)
      BY <1>0, <3>1, <3>3, <3>4, SetShape DEF Live
    <3>6. guesses' \in [User -> Nat]
      BY <1>0, <2>1, <3>1 DEF WrongPassword
    <3>7. Requests' /\ UNCHANGED <<sessions, role, active, holder, spent, dead>>
      BY <1>0, <2>1, DoneWith DEF WrongPassword
    <3>8. QED BY <1>0, <3>5, <3>6, <3>7 DEF AccountShape, Account, Requests
  <2>2. CASE RightPassword(r)
    <3>1. u \in User /\ user[u] \in Account
      BY <2>2, <2>a DEF RightPassword
    <3> DEFINE rec == [user[u] EXCEPT !.failed = 0, !.locked = FALSE]
    <3>3. rec \in Account /\ rec.state = user[u].state /\ rec.role = user[u].role
      BY <3>1 DEF Account
    <3>4. SetUser(u, rec)
      BY <2>2 DEF RightPassword
    <3> HIDE DEF rec
    <3>5. user' \in [User -> Account] /\ \A v \in User : Live(v)' => user'[v].role \in RolesOf(v)
      BY <1>0, <3>1, <3>3, <3>4, SetShape DEF Live
    <3>6. guesses' \in [User -> Nat]
      BY <1>0, <2>2, <3>1 DEF RightPassword
    <3>7. Requests' /\ UNCHANGED <<sessions, role, active, holder, spent, dead>>
      BY <1>0, <2>2, GoOn DEF RightPassword
    <3>8. QED BY <1>0, <3>5, <3>6, <3>7 DEF AccountShape, Account, Requests
  <2>3. CASE IssueTokenPair(r)
    <3>1. u \in User
      BY <2>3, <2>a DEF IssueTokenPair
    <3>2. PICK t \in Token :
            /\ holder[t] = "none" /\ holder' = [holder EXCEPT ![t] = u]
            /\ LET all == Append(sessions[u], t)
               IN  IF ~ Live(u) THEN dead' = dead \cup {t} /\ UNCHANGED sessions
                   ELSE IF Len(all) > MaxSessions
                   THEN /\ sessions' = [sessions EXCEPT ![u] = Tail(all)]
                        /\ dead' = dead \cup {Head(all)}
                   ELSE sessions' = [sessions EXCEPT ![u] = all] /\ UNCHANGED dead
      BY <2>3 DEF IssueTokenPair
    <3>3. holder' \in [Token -> User \cup {"none"}]
      BY <1>0, <3>1, <3>2
    <3> DEFINE all == Append(sessions[u], t)
    <3>4. sessions[u] \in Seq(Token)
      BY <1>0, <3>1
    <3>5. all \in Seq(Token) /\ all # <<>>
      BY <3>4, AppendProperties
    <3>6. Tail(all) \in Seq(Token) /\ Head(all) \in Token
      BY <3>5, HeadTailProperties
    <3>7. sessions' \in [User -> Seq(Token)] /\ dead' \subseteq Token
      <4> HIDE DEF all
      <4>1. CASE ~ Live(u)
        BY <1>0, <3>2, <4>1
      <4>2. CASE Live(u) /\ Len(all) > MaxSessions
        BY <1>0, <3>1, <3>2, <3>6, <4>2 DEF all
      <4>3. CASE Live(u) /\ ~ (Len(all) > MaxSessions)
        BY <1>0, <3>1, <3>2, <3>5, <4>3 DEF all
      <4>4. QED BY <4>1, <4>2, <4>3
    <3>8. Requests' /\ UNCHANGED <<user, role, active, spent, guesses>>
      BY <1>0, <2>3, DoneWith DEF IssueTokenPair
    <3>9. QED BY <1>0, <3>3, <3>7, <3>8 DEF AccountShape, Account, Requests, Live
  <2>4. CASE RotateRefresh(r)
    <3>1. u \in User /\ req[r].token \in Token
      BY <2>0, <2>4, <2>a DEF RotateRefresh, At, Placed
    <3>2. UNCHANGED <<user, role, active, holder, guesses>>
      BY <2>4 DEF RotateRefresh
    <3>3. CASE Contains(sessions[u], req[r].token)
      <4>1. /\ sessions' = [sessions EXCEPT ![u] = Pulled(sessions[u], req[r].token)]
            /\ spent' = [spent EXCEPT ![req[r].token] = @ + 1] /\ dead' = dead \cup {req[r].token}
            /\ Go(r, "issue")
        BY <1>0, <2>4, <3>1, <3>3 DEF RotateRefresh
      <4>2. Pulled(sessions[u], req[r].token) \in Seq(Token)
        <5>1. sessions[u] \in Seq(Token)
          BY <1>0, <3>1
        <5>2. req[r].token \in ToSet(sessions[u])
          BY <3>3, <5>1, LenProperties DEF Contains, ToSet
        <5>3. QED BY <5>1, <5>2, PulledTyped
      <4>3. Requests'
        BY <1>0, <4>1, GoOn
      <4>4. /\ sessions' \in [User -> Seq(Token)] /\ spent' \in [Token -> Nat] /\ dead' \subseteq Token
        BY <1>0, <3>1, <4>1, <4>2
      <4>5. QED BY <1>0, <3>2, <4>3, <4>4 DEF AccountShape, Account, Requests, Live
    <3>4. CASE ~ Contains(sessions[u], req[r].token)
      <4>1. Done(r) /\ UNCHANGED <<sessions, spent, dead>>
        BY <2>4, <3>4 DEF RotateRefresh
      <4>2. Requests'
        BY <1>0, <4>1, DoneWith
      <4>3. QED BY <1>0, <3>2, <4>1, <4>2 DEF AccountShape, Account, Requests, Live
    <3>5. QED BY <3>3, <3>4
  <2>5. CASE RevokeAllRefresh(r)
    <3>1. u \in User
      BY <2>5, <2>a DEF RevokeAllRefresh
    <3>2. UNCHANGED <<user, role, active, holder, spent, guesses>> /\ Requests'
      BY <1>0, <2>5, DoneWith DEF RevokeAllRefresh
    <3>3. sessions' = [sessions EXCEPT ![u] = <<>>] /\ dead' = dead \cup ToSet(sessions[u])
      BY <2>5 DEF RevokeAllRefresh
    <3>4. <<>> \in Seq(Token) /\ ToSet(sessions[u]) \subseteq Token
      BY <1>0, <3>1, TokensOf, EmptySeq
    <3>5. sessions' \in [User -> Seq(Token)] /\ dead' \subseteq Token
      BY <1>0, <3>1, <3>3, <3>4
    <3>6. QED BY <1>0, <3>2, <3>5 DEF AccountShape, Account, Requests, Live
  <2>6. CASE EditWrite(r)
    <3>1. u \in User /\ user[u] \in Account
      BY <2>6, <2>a DEF EditWrite
    <3> DEFINE rec == [user[u] EXCEPT !.role = IF req[r].role = "none" THEN @ ELSE req[r].role,
                                      !.blocked = IF req[r].to = "same" THEN @ ELSE req[r].to = "block"]
               newrole == IF req[r].role = "none" THEN user[u].role ELSE req[r].role
               blocked == IF req[r].to = "same" THEN user[u].blocked ELSE req[r].to = "block"
    <3>2. newrole \in Role \cup {"none"} /\ (Live(u) => newrole \in RolesOf(u)) /\ blocked \in BOOLEAN
      <4>1. req[r].role \in RolesOf(u) \cup {"none"} /\ req[r].role \in Role \cup {"none"}
        BY <2>0, <2>6 DEF EditWrite, At, Placed, Asked
      <4>2. newrole \in Role \cup {"none"} /\ (Live(u) => newrole \in RolesOf(u))
        BY <1>0, <3>1, <4>1 DEF Account
      <4>3. CASE req[r].to = "same"
        BY <3>1, <4>2, <4>3 DEF Account
      <4>4. CASE req[r].to # "same"
        BY <4>2, <4>4
      <4>5. QED BY <4>3, <4>4
    <3>3. rec = [user[u] EXCEPT !.role = newrole, !.blocked = blocked]
      BY <3>1 DEF Account
    <3> HIDE DEF newrole, blocked
    <3>4. rec \in Account /\ rec.state = user[u].state /\ rec.role = newrole
      <4> HIDE DEF rec
      <4>1. QED BY <3>1, <3>2, <3>3 DEF Account
    <3>5. SetUser(u, rec)
      BY <2>6 DEF EditWrite
    <3> HIDE DEF rec
    <3>6. user' \in [User -> Account] /\ \A v \in User : Live(v)' => user'[v].role \in RolesOf(v)
      BY <1>0, <3>1, <3>2, <3>4, <3>5, SetShape DEF Live
    <3>7. Requests' /\ UNCHANGED <<sessions, role, active, holder, spent, dead, guesses>>
      BY <1>0, <2>6, DoneWith DEF EditWrite
    <3>8. QED BY <1>0, <3>6, <3>7 DEF AccountShape, Account, Requests
  <2>7. CASE BlockWrite(r)
    <3>1. u \in User /\ user[u] \in Account
      BY <2>7, <2>a DEF BlockWrite
    <3> DEFINE rec == [user[u] EXCEPT !.blocked = TRUE]
    <3>3. rec \in Account /\ rec.state = user[u].state /\ rec.role = user[u].role
      BY <3>1 DEF Account
    <3>4. SetUser(u, rec)
      BY <2>7 DEF BlockWrite
    <3> HIDE DEF rec
    <3>5. user' \in [User -> Account] /\ \A v \in User : Live(v)' => user'[v].role \in RolesOf(v)
      BY <1>0, <3>1, <3>3, <3>4, SetShape DEF Live
    <3>7. Requests' /\ UNCHANGED <<sessions, role, active, holder, spent, dead, guesses>>
      BY <1>0, <2>7, GoOn DEF BlockWrite
    <3>8. QED BY <1>0, <3>5, <3>7 DEF AccountShape, Account, Requests
  <2>8. CASE ResetWrite(r)
    <3>1. u \in User /\ user[u] \in Account
      BY <2>8, <2>a DEF ResetWrite
    <3> DEFINE rec == [user[u] EXCEPT !.failed = 0, !.locked = FALSE]
    <3>3. rec \in Account /\ rec.state = user[u].state /\ rec.role = user[u].role
      BY <3>1 DEF Account
    <3>4. SetUser(u, rec)
      BY <2>8 DEF ResetWrite
    <3> HIDE DEF rec
    <3>5. user' \in [User -> Account] /\ \A v \in User : Live(v)' => user'[v].role \in RolesOf(v)
      BY <1>0, <3>1, <3>3, <3>4, SetShape DEF Live
    <3>6. guesses' \in [User -> Nat]
      BY <1>0, <2>8, <3>1 DEF ResetWrite
    <3>7. Requests' /\ UNCHANGED <<sessions, role, active, holder, spent, dead>>
      BY <1>0, <2>8, GoOn DEF ResetWrite
    <3>8. QED BY <1>0, <3>5, <3>6, <3>7 DEF AccountShape, Account, Requests
  <2>9. CASE InsertUser(r)
    <3>1. u \in User /\ req[r].role \in RolesOf(u) /\ req[r].role \in Role \cup {"none"}
      BY <2>0, <2>9 DEF InsertUser, At, Placed, Asked
    <3> DEFINE rec == [NoUser EXCEPT !.state = "live", !.role = req[r].role]
    <3>2. rec \in Account /\ rec.role = req[r].role
      BY <3>1 DEF Account, NoUser
    <3>3. user' = [user EXCEPT ![u] = rec]
      BY <2>9 DEF InsertUser
    <3> HIDE DEF rec
    <3>4. user' \in [User -> Account] /\ \A v \in User : Live(v)' => user'[v].role \in RolesOf(v)
      BY <1>0, <3>1, <3>2, <3>3 DEF Live
    <3>5. Requests' /\ UNCHANGED <<sessions, role, active, holder, spent, dead, guesses>>
      BY <1>0, <2>9, DoneWith DEF InsertUser
    <3>6. QED BY <1>0, <3>4, <3>5 DEF AccountShape, Account, Requests
  <2>10. CASE DeleteUserWrite(r)
    <3>1. u \in User
      BY <2>10, <2>a DEF DeleteUserWrite
    <3> DEFINE rec == [NoUser EXCEPT !.state = "deleted"]
    <3>2. rec \in Account /\ rec.state = "deleted"
      BY DEF Account, NoUser
    <3>3. /\ user' = [user EXCEPT ![u] = rec]
          /\ sessions' = [sessions EXCEPT ![u] = <<>>] /\ dead' = dead \cup ToSet(sessions[u])
      BY <2>10 DEF DeleteUserWrite
    <3> HIDE DEF rec
    <3>4. user' \in [User -> Account] /\ \A v \in User : Live(v)' => user'[v].role \in RolesOf(v)
      BY <1>0, <3>1, <3>2, <3>3 DEF Live
    <3>5. <<>> \in Seq(Token) /\ ToSet(sessions[u]) \subseteq Token
      BY <1>0, <3>1, TokensOf, EmptySeq
    <3>6. sessions' \in [User -> Seq(Token)] /\ dead' \subseteq Token
      BY <1>0, <3>1, <3>3, <3>5
    <3>7. Requests' /\ UNCHANGED <<role, active, holder, spent, guesses>>
      BY <1>0, <2>10, DoneWith DEF DeleteUserWrite
    <3>8. QED BY <1>0, <3>4, <3>6, <3>7 DEF AccountShape, Account, Requests
  <2>11. CASE PatchRoleWrite(r)
    <3>1. req[r].role \in Role
      BY <2>0, <2>11 DEF PatchRoleWrite, At, Placed
    <3> DEFINE x == req[r].role
               m == IF role[x].live THEN req[r].to = "manager" ELSE role[x].manages
    <3>2. role' = [role EXCEPT ![x].manages = m]
      BY <1>0, <2>11, <3>1 DEF PatchRoleWrite
    <3>3. m \in BOOLEAN
      BY <1>0, <3>1
    <3>4. role' \in [Role -> [live : BOOLEAN, manages : BOOLEAN]]
      <4> HIDE DEF m
      <4>1. QED BY <1>0, <3>1, <3>2, <3>3
    <3>5. Requests' /\ UNCHANGED <<user, sessions, active, holder, spent, dead, guesses>>
      BY <1>0, <2>11, DoneWith DEF PatchRoleWrite
    <3>6. QED BY <1>0, <3>4, <3>5 DEF AccountShape, Account, Requests, Live
  <2>12. CASE DeleteRoleWrite(r)
    <3>1. req[r].role \in Role
      BY <2>0, <2>12 DEF DeleteRoleWrite, At, Placed
    <3>2. role' \in [Role -> [live : BOOLEAN, manages : BOOLEAN]]
      BY <1>0, <2>12, <3>1 DEF DeleteRoleWrite
    <3>3. Requests' /\ UNCHANGED <<user, sessions, active, holder, spent, dead, guesses>>
      BY <1>0, <2>12, DoneWith DEF DeleteRoleWrite
    <3>4. QED BY <1>0, <3>2, <3>3 DEF AccountShape, Account, Requests, Live
  <2>13. QED BY <1>2, <2>1, <2>2, <2>3, <2>4, <2>5, <2>6, <2>7, <2>8, <2>9, <2>10, <2>11, <2>12 DEF Continue
<1>3. CASE Once
  <2>1. ASSUME NEW u \in User, LockExpires(u) \/ UnblockEmployee(u) \/ UnlockEmployee(u)
        PROVE  AccountShape'
    <3>1. user[u] \in Account
      BY <1>0
    <3>2. user' \in [User -> Account] /\ \A v \in User : user'[v].state = user[v].state /\ user'[v].role = user[v].role
      <4>1. CASE LockExpires(u)
        BY <1>0, <3>1, <4>1 DEF LockExpires, Account
      <4>2. CASE UnblockEmployee(u)
        BY <1>0, <3>1, <4>2 DEF UnblockEmployee, Account
      <4>3. CASE UnlockEmployee(u)
        BY <1>0, <3>1, <4>3 DEF UnlockEmployee, Account
      <4>4. QED BY <2>1, <4>1, <4>2, <4>3
    <3>3. guesses' \in [User -> Nat]
      BY <1>0, <2>1 DEF LockExpires, UnblockEmployee, UnlockEmployee
    <3>4. UNCHANGED <<sessions, role, active, holder, spent, dead, req>>
      BY <2>1 DEF LockExpires, UnblockEmployee, UnlockEmployee
    <3>5. QED BY <1>0, <3>2, <3>3, <3>4 DEF AccountShape, Account, Requests, Live
  <2>2. ASSUME NEW x \in Role, NEW m \in BOOLEAN, CreateRole(x, m) \/ CreateAdminRole(x, m)
        PROVE  AccountShape'
    <3>1. role' \in [Role -> [live : BOOLEAN, manages : BOOLEAN]]
      <4>1. role' = [role EXCEPT ![x] = [live |-> TRUE, manages |-> m]]
        BY <2>2 DEF CreateRole, CreateAdminRole
      <4>2. QED BY <1>0, <4>1
    <3>2. UNCHANGED <<user, sessions, active, holder, spent, dead, guesses, req>>
      BY <2>2 DEF CreateRole, CreateAdminRole
    <3>3. QED BY <1>0, <3>1, <3>2 DEF AccountShape, Account, Requests, Live
  <2>3. ASSUME NEW up \in BOOLEAN, SetCompanyStatus(up)
        PROVE  AccountShape'
    BY <1>0, <2>3 DEF AccountShape, Account, Requests, Live, SetCompanyStatus
  <2>4. QED BY <1>3, <2>1, <2>2, <2>3 DEF Once, User, Role
<1>4. CASE UNCHANGED vars
  BY <1>0, <1>4 DEF AccountShape, Account, Requests, Live, vars
<1>5. QED BY <1>1, <1>2, <1>3, <1>4, StepsOfAccounts DEF LoginBegun, QuietBegun, CreateBegun, EditBegun
-----------------------------------------------------------------------------
(* A token stands in one place of the list of the account it was issued to, *)
(* and in no list once it is dead; a token that was spent is dead.          *)
TokenInv ==
  /\ \A u \in User : /\ Distinct(sessions[u])
                      /\ \A t \in ToSet(sessions[u]) : holder[t] = u /\ t \notin dead
  /\ \A t \in dead : holder[t] # "none"
  /\ \A t \in Token : spent[t] <= 1 /\ (spent[t] > 0 => t \in dead)

LEMMA TokensMoved ==
  ASSUME AccountShape, TokenInv, NEW u \in User, NEW rest \in Seq(Token), NEW D \in SUBSET Token,
         Distinct(rest), sessions' = [sessions EXCEPT ![u] = rest], dead' = dead \cup D,
         \A t \in ToSet(rest) : holder'[t] = u /\ t \notin dead \cup D,
         \A t \in D : holder'[t] = u,
         \A t \in Token : holder'[t] = holder[t] \/ holder[t] = "none",
         \A t \in Token : spent'[t] <= 1 /\ (spent'[t] > 0 => t \in dead \cup D)
  PROVE  TokenInv'
<1>0. "none" \notin User
  BY RealmAssumption DEF User
<1>1. sessions \in [User -> Seq(Token)] /\ dead \subseteq Token /\ sessions' \in [User -> Seq(Token)]
      /\ sessions'[u] = rest /\ \A v \in User \ {u} : sessions'[v] = sessions[v]
  BY DEF AccountShape
<1>2. ASSUME NEW v \in User
      PROVE  Distinct(sessions'[v]) /\ \A t \in ToSet(sessions'[v]) : holder'[t] = v /\ t \notin dead'
  <2>1. CASE v = u
    BY <1>1, <2>1
  <2>2. CASE v # u
    <3>1. sessions'[v] = sessions[v] /\ Distinct(sessions[v]) /\ ToSet(sessions[v]) \subseteq Token
      BY <1>1, <2>2, TokensOf DEF TokenInv
    <3>2. \A t \in ToSet(sessions[v]) : holder[t] = v /\ t \notin dead
      BY DEF TokenInv
    <3>3. \A t \in ToSet(sessions[v]) : holder'[t] = v /\ t \notin dead'
      BY <1>0, <2>2, <3>1, <3>2
    <3>4. QED BY <3>1, <3>3
  <2>3. QED BY <2>1, <2>2
<1>3. \A t \in dead' : holder'[t] # "none"
  BY <1>0, <1>1 DEF TokenInv
<1>4. QED BY <1>2, <1>3 DEF TokenInv

LEMMA TokensSame ==
  ASSUME AccountShape, TokenInv, UNCHANGED <<sessions, holder, spent, dead>>
  PROVE  TokenInv'
BY DEF TokenInv

LEMMA TokensKept ==
  ASSUME AccountShape, TokenInv, [Next]_vars
  PROVE  TokenInv'
<1>1. ASSUME NEW r \in Req, Continue(r)
      PROVE  TokenInv'
  <2>0. req[r] \in Asked /\ Placed(req[r]) /\ sessions \in [User -> Seq(Token)] /\ dead \subseteq Token
        /\ holder \in [Token -> User \cup {"none"}] /\ spent \in [Token -> Nat]
    BY DEF AccountShape
  <2> DEFINE u == req[r].user
  <2>1. CASE IssueTokenPair(r)
    <3>1. u \in User
      BY <2>0, <2>1 DEF IssueTokenPair, At, Placed
    <3>2. PICK t \in Token :
            /\ holder[t] = "none" /\ holder' = [holder EXCEPT ![t] = u]
            /\ LET all == Append(sessions[u], t)
               IN  IF ~ Live(u) THEN dead' = dead \cup {t} /\ UNCHANGED sessions
                   ELSE IF Len(all) > MaxSessions
                   THEN /\ sessions' = [sessions EXCEPT ![u] = Tail(all)]
                        /\ dead' = dead \cup {Head(all)}
                   ELSE sessions' = [sessions EXCEPT ![u] = all] /\ UNCHANGED dead
      BY <2>1 DEF IssueTokenPair
    <3>3. holder'[t] = u /\ (\A x \in Token : holder'[x] = holder[x] \/ holder[x] = "none") /\ UNCHANGED spent
      BY <2>0, <2>1, <3>1, <3>2 DEF IssueTokenPair
    <3> DEFINE list == sessions[u]
               all == Append(list, t)
    <3>4. /\ list \in Seq(Token) /\ Distinct(list) /\ ToSet(list) \subseteq Token
          /\ \A x \in ToSet(list) : holder[x] = u /\ x \notin dead
      BY <2>0, <3>1, TokensOf DEF TokenInv
    <3>5. t \notin dead /\ t \notin ToSet(list)
      BY <3>1, <3>2, <3>4, RealmAssumption DEF TokenInv, User
    <3>6. /\ all \in Seq(Token) /\ all # <<>> /\ Distinct(all) /\ ToSet(all) = ToSet(list) \cup {t}
      BY <3>4, <3>5, AppendDistinct
    <3>7. /\ Tail(all) \in Seq(Token) /\ Distinct(Tail(all)) /\ Head(all) \in ToSet(all)
          /\ ToSet(Tail(all)) = ToSet(all) \ {Head(all)}
      BY <3>6, TailDistinct
    <3>8. \A x \in ToSet(all) : holder'[x] = u /\ x \notin dead /\ x \in Token
      BY <2>0, <3>1, <3>3, <3>4, <3>5, <3>6, RealmAssumption DEF User
    <3>9. \A x \in Token : spent'[x] <= 1 /\ (spent'[x] > 0 => x \in dead)
      BY <3>3 DEF TokenInv
    <3>10. CASE ~ Live(u)
      <4>1. dead' = dead \cup {t} /\ sessions' = [sessions EXCEPT ![u] = list]
        BY <2>0, <3>1, <3>2, <3>10
      <4>2. \A x \in ToSet(list) : holder'[x] = u /\ x \notin dead \cup {t}
        BY <3>5, <3>6, <3>8
      <4> HIDE DEF all, list, u
      <4>3. PICK D \in SUBSET Token : D = {t}
        OBVIOUS
      <4>4. \A x \in D : holder'[x] = u
        BY <3>3, <4>3
      <4>5. \A x \in ToSet(list) : holder'[x] = u /\ x \notin dead \cup D
        BY <4>2, <4>3
      <4>6. \A x \in Token : spent'[x] <= 1 /\ (spent'[x] > 0 => x \in dead \cup D)
        BY <3>9
      <4>7. dead' = dead \cup D
        BY <4>1, <4>3
      <4>8. QED BY <3>1, <3>3, <3>4, <4>1, <4>4, <4>5, <4>6, <4>7, TokensMoved
    <3>11. CASE Live(u) /\ Len(all) > MaxSessions
      <4>1. sessions' = [sessions EXCEPT ![u] = Tail(all)] /\ dead' = dead \cup {Head(all)}
        BY <3>2, <3>11
      <4>2. \A x \in ToSet(Tail(all)) : holder'[x] = u /\ x \notin dead \cup {Head(all)}
        BY <3>7, <3>8
      <4>3. holder'[Head(all)] = u /\ Head(all) \in Token
        BY <3>7, <3>8
      <4> HIDE DEF all, list, u
      <4>4. PICK D \in SUBSET Token : D = {Head(all)}
        BY <4>3
      <4>5. \A x \in D : holder'[x] = u
        BY <4>3, <4>4
      <4>6. \A x \in ToSet(Tail(all)) : holder'[x] = u /\ x \notin dead \cup D
        BY <4>2, <4>4
      <4>7. \A x \in Token : spent'[x] <= 1 /\ (spent'[x] > 0 => x \in dead \cup D)
        BY <3>9
      <4>8. dead' = dead \cup D
        BY <4>1, <4>4
      <4>9. Tail(all) \in Seq(Token) /\ Distinct(Tail(all))
        BY <3>7
      <4>10. QED BY <3>1, <3>3, <4>1, <4>5, <4>6, <4>7, <4>8, <4>9, TokensMoved
    <3>12. CASE Live(u) /\ ~ (Len(all) > MaxSessions)
      <4>1. sessions' = [sessions EXCEPT ![u] = all] /\ dead' = dead \cup {}
        BY <3>2, <3>12
      <4> HIDE DEF all, list, u
      <4>2. \A x \in ToSet(all) : holder'[x] = u /\ x \notin dead \cup {}
        BY <3>8
      <4>3. PICK D \in SUBSET Token : D = {}
        OBVIOUS
      <4>4. \A x \in D : holder'[x] = u
        BY <4>3
      <4>5. \A x \in ToSet(all) : holder'[x] = u /\ x \notin dead \cup D
        BY <4>2, <4>3
      <4>6. \A x \in Token : spent'[x] <= 1 /\ (spent'[x] > 0 => x \in dead \cup D)
        BY <3>9
      <4>7. dead' = dead \cup D
        BY <4>1, <4>3
      <4>8. QED BY <3>1, <3>3, <3>6, <4>1, <4>4, <4>5, <4>6, <4>7, TokensMoved
    <3>13. QED BY <3>10, <3>11, <3>12
  <2>2. CASE RotateRefresh(r)
    <3>1. u \in User /\ req[r].token \in Token
      BY <2>0, <2>2 DEF RotateRefresh, At, Placed
    <3>2. CASE Contains(sessions[u], req[r].token)
      <4> DEFINE t == req[r].token
                 list == sessions[u]
      <4>1. /\ sessions' = [sessions EXCEPT ![u] = Pulled(list, t)]
            /\ spent' = [spent EXCEPT ![t] = @ + 1] /\ dead' = dead \cup {t} /\ UNCHANGED holder
        BY <2>0, <2>2, <3>1, <3>2 DEF RotateRefresh
      <4>2. list \in Seq(Token) /\ Distinct(list) /\ \A x \in ToSet(list) : holder[x] = u /\ x \notin dead
        BY <2>0, <3>1 DEF TokenInv
      <4>3. t \in ToSet(list)
        BY <3>2, <4>2, LenProperties DEF Contains, ToSet
      <4> DEFINE rest == Pulled(list, t)
      <4>4. rest \in Seq(Token) /\ Distinct(rest) /\ ToSet(rest) = ToSet(list) \ {t}
        BY <4>2, <4>3, PulledDistinct
      <4>5. sessions' = [sessions EXCEPT ![u] = rest]
        BY <4>1
      <4> HIDE DEF rest
      <4>6. \A x \in ToSet(rest) : holder'[x] = u /\ x \notin dead \cup {t}
        BY <4>1, <4>2, <4>4
      <4>7. \A x \in {t} : holder'[x] = u
        BY <4>1, <4>2, <4>3
      <4>8. \A x \in Token : spent'[x] <= 1 /\ (spent'[x] > 0 => x \in dead \cup {t})
        <5> SUFFICES ASSUME NEW x \in Token PROVE spent'[x] <= 1 /\ (spent'[x] > 0 => x \in dead \cup {t})
          OBVIOUS
        <5>1. spent[x] \in Nat /\ spent[x] <= 1 /\ (spent[x] > 0 => x \in dead)
          BY <2>0 DEF TokenInv
        <5>2. CASE x = t
          <6>1. spent'[x] = spent[x] + 1
            BY <2>0, <4>1, <5>2
          <6>2. ~ (spent[x] > 0)
            BY <4>2, <4>3, <5>1, <5>2
          <6>3. QED BY <5>1, <5>2, <6>1, <6>2
        <5>3. CASE x # t
          <6>1. spent'[x] = spent[x]
            BY <2>0, <3>1, <4>1, <5>3
          <6>2. QED BY <5>1, <6>1
        <5>4. QED BY <5>2, <5>3
      <4>9. t \in Token /\ \A x \in Token : holder'[x] = holder[x] \/ holder[x] = "none"
        BY <3>1, <4>1
      <4> HIDE DEF t, list, u
      <4>10. PICK D \in SUBSET Token : D = {t}
        BY <4>9
      <4>11. \A x \in D : holder'[x] = u
        BY <4>7, <4>10
      <4>12. \A x \in ToSet(rest) : holder'[x] = u /\ x \notin dead \cup D
        BY <4>6, <4>10
      <4>13. \A x \in Token : spent'[x] <= 1 /\ (spent'[x] > 0 => x \in dead \cup D)
        BY <4>8, <4>10
      <4>14. dead' = dead \cup D
        BY <4>1, <4>10
      <4>15. QED BY <3>1, <4>4, <4>5, <4>9, <4>11, <4>12, <4>13, <4>14, TokensMoved
    <3>3. CASE ~ Contains(sessions[u], req[r].token)
      BY <2>2, <3>3, TokensSame DEF RotateRefresh
    <3>4. QED BY <3>2, <3>3
  <2>3. CASE RevokeAllRefresh(r) \/ DeleteUserWrite(r)
    <3>1. u \in User
      BY <2>0, <2>3 DEF RevokeAllRefresh, DeleteUserWrite, At, Placed
    <3>2. /\ sessions' = [sessions EXCEPT ![u] = <<>>] /\ dead' = dead \cup ToSet(sessions[u])
          /\ UNCHANGED <<holder, spent>>
      BY <2>3 DEF RevokeAllRefresh, DeleteUserWrite
    <3> DEFINE D == ToSet(sessions[u])
    <3>3. D \subseteq Token /\ \A x \in D : holder'[x] = u
      BY <2>0, <3>1, <3>2, TokensOf DEF TokenInv
    <3>4. <<>> \in Seq(Token) /\ Distinct(<<>>) /\ ToSet(<<>>) = {}
      BY DEF Distinct, ToSet
    <3>5. \A x \in Token : spent'[x] <= 1 /\ (spent'[x] > 0 => x \in dead \cup D)
      BY <3>2 DEF TokenInv
    <3>6. \A x \in Token : holder'[x] = holder[x] \/ holder[x] = "none"
      BY <3>2
    <3>7. D \in SUBSET Token /\ dead' = dead \cup D
      BY <3>2, <3>3
    <3> HIDE DEF D, u
    <3>8. PICK rest \in Seq(Token) : rest = <<>> /\ Distinct(rest) /\ ToSet(rest) = {}
      BY <3>4
    <3>9. QED BY <3>1, <3>2, <3>3, <3>5, <3>6, <3>7, <3>8, TokensMoved
  <2>4. CASE \/ WrongPassword(r) \/ RightPassword(r) \/ EditWrite(r) \/ BlockWrite(r) \/ ResetWrite(r)
             \/ InsertUser(r) \/ PatchRoleWrite(r) \/ DeleteRoleWrite(r)
    <3>1. UNCHANGED <<sessions, holder, spent, dead>>
      BY <2>4 DEF WrongPassword, RightPassword, EditWrite, BlockWrite, ResetWrite, InsertUser, PatchRoleWrite, DeleteRoleWrite
    <3>2. QED BY <3>1, TokensSame
  <2>5. QED BY <1>1, <2>1, <2>2, <2>3, <2>4 DEF Continue
<1>2. CASE Once
  <2>1. UNCHANGED <<sessions, holder, spent, dead>>
    BY <1>2 DEF Once, LockExpires, UnblockEmployee, UnlockEmployee, CreateRole, CreateAdminRole, SetCompanyStatus
  <2>2. QED BY <2>1, TokensSame
<1>3. ASSUME NEW r \in Req, NEW q, Begun(r, q)
      PROVE  TokenInv'
  <2>1. UNCHANGED <<sessions, holder, spent, dead>>
    BY <1>3 DEF Begun, book
  <2>2. QED BY <2>1, TokensSame
<1>4. CASE UNCHANGED vars
  BY <1>4, TokensSame DEF vars
<1>5. QED BY <1>1, <1>2, <1>3, <1>4, StepsOfAccounts DEF LoginBegun, QuietBegun, CreateBegun, EditBegun

LEMMA AccountsInit == Init => AccountShape /\ TokenInv
<1> SUFFICES ASSUME Init PROVE AccountShape /\ TokenInv
  OBVIOUS
<1>1. Owner \in Staff /\ Root \in Operator /\ Root \notin Staff /\ OwnerRole \in StaffRole /\ RootRole \in OperatorRole
  BY RealmAssumption
<1>2. user \in [User -> Account] /\ \A u \in User : Live(u) => user[u].role \in RolesOf(u)
  <2>1. \A u \in User : /\ user[u] \in Account /\ (u \notin {Owner, Root} => user[u].state = "none")
                        /\ (u = Owner => user[u].role = OwnerRole) /\ (u = Root => user[u].role = RootRole)
    BY <1>1 DEF Init, Account, NoUser, Role
  <2>2. user \in [User -> Account]
    BY <2>1 DEF Init
  <2>3. QED BY <1>1, <2>1, <2>2 DEF Live, RolesOf
<1>3. sessions \in [User -> Seq(Token)] /\ \A u \in User : sessions[u] = <<>>
  BY DEF Init
<1>4. role \in [Role -> [live : BOOLEAN, manages : BOOLEAN]]
  <2>1. \A x \in Role : (x \in {OwnerRole, RootRole}) \in BOOLEAN
    OBVIOUS
  <2>2. QED BY <2>1 DEF Init
<1>5. Requests
  BY IdleAsked DEF Init, Requests
<1>6. AccountShape
  BY <1>2, <1>3, <1>4, <1>5 DEF Init, AccountShape, Account, Requests
<1>7. \A u \in User : Distinct(sessions[u]) /\ ToSet(sessions[u]) = {}
  BY <1>3 DEF Distinct, ToSet
<1>8. TokenInv
  BY <1>7 DEF TokenInv, Init
<1>9. QED BY <1>6, <1>8

(* A refresh token is exchanged at most once, and none comes back once it   *)
(* was exchanged, revoked or pushed out of its list.                        *)
THEOREM SessionsStayEnded == Spec => []SessionsEnd
<1>1. AccountShape /\ TokenInv /\ [Next]_vars => (AccountShape /\ TokenInv)'
  BY AccountKept, TokensKept
<1>2. TokenInv => SessionsEnd
  BY DEF TokenInv, SessionsEnd
<1>3. QED BY AccountsInit, <1>1, <1>2, PTL DEF Spec
-----------------------------------------------------------------------------
(* An account is created by one request that alone names it; every other    *)
(* request names an account that was there.                                 *)
Naming(q) == q.op \notin {"idle", "create", "edit_role", "delete_role"}
NamesInv ==
  \A r \in Req :
    /\ req[r].op = "create" => /\ user[req[r].user].state = "none"
                               /\ \A s \in Req \ {r} : req[s].user # req[r].user
    /\ Naming(req[r]) => user[req[r].user].state # "none"

(* What a continued request leaves of itself.                               *)
Onward(r) == /\ \A s \in Req \ {r} : req'[s] = req[s]
             /\ \/ req'[r] = Idle
                \/ /\ req'[r].op = req[r].op /\ req'[r].user = req[r].user /\ req'[r].role = req[r].role
                   /\ req'[r].to = req[r].to /\ req'[r].step \in {"issue", "revoke"} /\ req[r].op # "create"
SameStates == \A v \in User : user'[v].state = user[v].state

LEMMA SetSameStates ==
  ASSUME AccountShape, NEW u \in User, NEW rec, rec.state = user[u].state, SetUser(u, rec)
  PROVE  SameStates
BY DEF AccountShape, SetUser, SameStates

LEMMA ContinueMoves ==
  ASSUME AccountShape, NEW r \in Req, Continue(r)
  PROVE  Onward(r) /\ (InsertUser(r) \/ DeleteUserWrite(r) \/ SameStates)
<1>0. Requests /\ req \in [Req -> Asked] /\ req[r] \in Asked /\ Placed(req[r]) /\ user \in [User -> Account]
  BY DEF AccountShape, Requests, Account
<1>1. ASSUME Done(r) PROVE Onward(r)
  BY <1>0, <1>1, DoneWith DEF Onward
<1>2. ASSUME NEW s \in {"issue", "revoke"}, Go(r, s), req[r].op # "create" PROVE Onward(r)
  BY <1>0, <1>2, GoOn DEF Onward
<1>3. CASE WrongPassword(r)
  <2>1. req[r].user \in User /\ user[req[r].user] \in Account
    BY <1>0, <1>3 DEF WrongPassword, At, Placed
  <2>2. SameStates
    <3> DEFINE u == req[r].user
               rec == IF req[r].seen + 1 >= Threshold THEN [user[u] EXCEPT !.failed = 0, !.locked = TRUE]
                                                      ELSE [user[u] EXCEPT !.failed = req[r].seen + 1]
    <3>1. SetUser(u, rec)
      BY <1>3 DEF WrongPassword
    <3>2. rec.state = user[u].state
      <4> DEFINE n == req[r].seen + 1
      <4>1. [user[u] EXCEPT !.failed = 0, !.locked = TRUE].state = user[u].state
            /\ [user[u] EXCEPT !.failed = n].state = user[u].state
        <5> HIDE DEF n
        <5>1. QED BY <2>1 DEF Account
      <4>2. QED BY <4>1
    <3> HIDE DEF rec
    <3>3. QED BY <2>1, <3>1, <3>2, SetSameStates
  <2>3. QED BY <1>1, <1>3, <2>2 DEF WrongPassword
<1>4. CASE RightPassword(r) \/ ResetWrite(r)
  <2>1. req[r].user \in User /\ user[req[r].user] \in Account /\ req[r].op # "create"
    BY <1>0, <1>4 DEF RightPassword, ResetWrite, At, Placed
  <2>2. SetUser(req[r].user, [user[req[r].user] EXCEPT !.failed = 0, !.locked = FALSE])
        /\ (Go(r, "issue") \/ Go(r, "revoke"))
    BY <1>4 DEF RightPassword, ResetWrite
  <2>3. [user[req[r].user] EXCEPT !.failed = 0, !.locked = FALSE].state = user[req[r].user].state
    BY <2>1 DEF Account
  <2>4. SameStates
    BY <2>1, <2>2, <2>3, SetSameStates
  <2>5. QED BY <1>2, <2>1, <2>2, <2>4
<1>5. CASE IssueTokenPair(r) \/ RevokeAllRefresh(r) \/ PatchRoleWrite(r) \/ DeleteRoleWrite(r)
  <2>1. UNCHANGED user /\ Done(r)
    BY <1>5 DEF IssueTokenPair, RevokeAllRefresh, PatchRoleWrite, DeleteRoleWrite
  <2>2. QED BY <1>1, <2>1 DEF SameStates
<1>6. CASE RotateRefresh(r)
  <2>1. UNCHANGED user /\ (Done(r) \/ Go(r, "issue")) /\ req[r].op # "create"
    BY <1>6 DEF RotateRefresh, At
  <2>2. QED BY <1>1, <1>2, <2>1 DEF SameStates
<1>7. CASE EditWrite(r)
  <2>1. req[r].user \in User /\ user[req[r].user] \in Account
    BY <1>0, <1>7 DEF EditWrite, At, Placed
  <2> DEFINE u == req[r].user
             a == IF req[r].role = "none" THEN user[u].role ELSE req[r].role
             b == IF req[r].to = "same" THEN user[u].blocked ELSE req[r].to = "block"
             rec == [user[u] EXCEPT !.role = a, !.blocked = b]
  <2>2. SetUser(u, rec)
    BY <1>7, <2>1 DEF EditWrite, Account
  <2>3. rec.state = user[u].state
    <3> HIDE DEF a, b
    <3>1. QED BY <2>1 DEF Account
  <2> HIDE DEF rec
  <2>4. SameStates
    BY <2>1, <2>2, <2>3, SetSameStates
  <2>5. QED BY <1>1, <1>7, <2>4 DEF EditWrite
<1>8. CASE BlockWrite(r)
  <2>1. req[r].user \in User /\ user[req[r].user] \in Account /\ req[r].op # "create"
    BY <1>0, <1>8 DEF BlockWrite, At, Placed
  <2>2. SetUser(req[r].user, [user[req[r].user] EXCEPT !.blocked = TRUE]) /\ Go(r, "revoke")
    BY <1>8 DEF BlockWrite
  <2>3. [user[req[r].user] EXCEPT !.blocked = TRUE].state = user[req[r].user].state
    BY <2>1 DEF Account
  <2>4. SameStates
    BY <2>1, <2>2, <2>3, SetSameStates
  <2>5. QED BY <1>2, <2>1, <2>2, <2>4
<1>9. CASE InsertUser(r) \/ DeleteUserWrite(r)
  BY <1>1, <1>9 DEF InsertUser, DeleteUserWrite
<1>10. QED BY <1>3, <1>4, <1>5, <1>6, <1>7, <1>8, <1>9 DEF Continue

LEMMA OnceMoves ==
  ASSUME AccountShape, Once
  PROVE  UNCHANGED <<req, raced, contested>> /\ SameStates
<1>0. user \in [User -> Account]
  BY DEF AccountShape, Account
<1>1. UNCHANGED <<req, raced, contested>>
  BY DEF Once, LockExpires, UnblockEmployee, UnlockEmployee, CreateRole, CreateAdminRole, SetCompanyStatus
<1>2. ASSUME NEW u \in User, LockExpires(u) \/ UnblockEmployee(u) \/ UnlockEmployee(u) PROVE SameStates
  <2>1. CASE LockExpires(u)
    BY <1>0, <2>1 DEF LockExpires, SameStates, Account
  <2>2. CASE UnblockEmployee(u)
    BY <1>0, <2>2 DEF UnblockEmployee, SameStates, Account
  <2>3. CASE UnlockEmployee(u)
    BY <1>0, <2>3 DEF UnlockEmployee, SameStates, Account
  <2>4. QED BY <1>2, <2>1, <2>2, <2>3
<1>3. ASSUME UNCHANGED user PROVE SameStates
  BY <1>3 DEF SameStates
<1>4. SameStates
  BY <1>2, <1>3 DEF Once, User, CreateRole, CreateAdminRole, SetCompanyStatus
<1>5. QED BY <1>1, <1>4

LEMMA NamesKept ==
  ASSUME AccountShape, NamesInv, [Next]_vars
  PROVE  NamesInv'
<1>0. req \in [Req -> Asked] /\ user \in [User -> Account] /\ \A r \in Req : Placed(req[r])
  BY DEF AccountShape, Account
<1>a. \A r \in Req : /\ req[r].op = "create" => req[r].user \in User
                     /\ Naming(req[r]) => req[r].user \in User
  BY <1>0 DEF Placed, Naming, Asked, Edits
<1>b. Idle.op = "idle" /\ Idle.user = "none" /\ "none" \notin User
  BY RealmAssumption DEF Idle, User
<1>1. ASSUME NEW r \in Req, NEW q, Begun(r, q),
             q.op = "create" => user[q.user].state = "none" /\ \A s \in Req : req[s].user # q.user,
             Naming(q) => Live(q.user)
      PROVE  NamesInv'
  <2>1. UNCHANGED user /\ req'[r] = q /\ \A s \in Req \ {r} : req'[s] = req[s]
    BY <1>0, <1>1 DEF Begun, book
  <2>2. Placed(q) /\ q \in Asked
    BY <1>1 DEF Begun
  <2> SUFFICES ASSUME NEW x \in Req
               PROVE  /\ req'[x].op = "create" => /\ user'[req'[x].user].state = "none"
                                                  /\ \A s \in Req \ {x} : req'[s].user # req'[x].user
                      /\ Naming(req'[x]) => user'[req'[x].user].state # "none"
    BY DEF NamesInv
  <2>3. CASE x = r
    BY <1>1, <2>1, <2>3 DEF Live
  <2>4. CASE x # r
    <3>1. req'[x] = req[x]
      BY <2>1, <2>4
    <3>2. ASSUME req[x].op = "create" PROVE q.user # req[x].user
      <4>1. user[req[x].user].state = "none" /\ req[x].user \in User
        BY <1>a, <3>2 DEF NamesInv
      <4>2. CASE q.op = "create"
        BY <1>1, <4>2
      <4>3. CASE Naming(q)
        BY <1>1, <4>1, <4>3 DEF Live
      <4>4. CASE q.op \in {"idle", "edit_role", "delete_role"}
        BY <1>b, <2>2, <4>1, <4>4 DEF Placed
      <4>5. QED BY <4>2, <4>3, <4>4 DEF Naming
    <3>3. QED BY <2>1, <3>1, <3>2 DEF NamesInv
  <2>5. QED BY <2>3, <2>4
<1>2. ASSUME NEW r \in Req, Continue(r)
      PROVE  NamesInv'
  <2>1. Onward(r)
    BY <1>2, ContinueMoves
  <2>2. \A s \in Req : (req'[s].user = req[s].user \/ req'[s].user = "none")
                      /\ (req'[s].op # "idle" => req'[s].op = req[s].op /\ req'[s].user = req[s].user)
    BY <1>b, <2>1 DEF Onward
  <2>3. req[r].op = "create" => req'[r].op = "idle"
    BY <1>b, <2>1 DEF Onward
  <2> SUFFICES ASSUME NEW x \in Req
               PROVE  /\ req'[x].op = "create" => /\ user'[req'[x].user].state = "none"
                                                  /\ \A s \in Req \ {x} : req'[s].user # req'[x].user
                      /\ Naming(req'[x]) => user'[req'[x].user].state # "none"
    BY DEF NamesInv
  <2>4. ASSUME req'[x].op = "create" PROVE \A s \in Req \ {x} : req'[s].user # req'[x].user
    BY <1>a, <1>b, <2>2, <2>4 DEF NamesInv
  <2>5. ASSUME NEW v \in User, req'[x].op = "create" \/ Naming(req'[x]), req'[x].user = v
        PROVE  user'[v].state = "none" <=> req'[x].op = "create"
    <3>1. /\ req[x].op = req'[x].op /\ req[x].user = v /\ (Naming(req'[x]) <=> req[x].op # "create")
          /\ (user[v].state = "none" <=> req[x].op = "create")
      BY <1>0, <2>2, <2>5 DEF NamesInv, Naming, Asked, Edits
    <3>2. CASE SameStates
      BY <3>1, <3>2 DEF SameStates
    <3>3. CASE InsertUser(r)
      <4>1. req[r].op = "create" /\ user' = [user EXCEPT ![req[r].user] = [NoUser EXCEPT !.state = "live", !.role = req[r].role]]
        BY <3>3 DEF InsertUser, At
      <4>2. x # r
        BY <2>3, <2>5, <4>1 DEF Naming
      <4>3. req[r].user # v
        BY <3>1, <4>1, <4>2 DEF NamesInv
      <4>4. user'[v] = user[v]
        BY <1>0, <4>1, <4>3
      <4>5. QED BY <3>1, <4>4
    <3>4. CASE DeleteUserWrite(r)
      <4>1. Naming(req[r]) /\ user' = [user EXCEPT ![req[r].user] = [NoUser EXCEPT !.state = "deleted"]]
        BY <3>4 DEF DeleteUserWrite, At, Naming
      <4>2. user[req[r].user].state # "none"
        BY <4>1 DEF NamesInv
      <4>3. CASE req[r].user = v
        <5>1. user'[v].state = "deleted"
          BY <1>0, <4>1, <4>3 DEF NoUser
        <5>2. QED BY <3>1, <4>2, <4>3, <5>1
      <4>4. CASE req[r].user # v
        BY <1>0, <3>1, <4>1, <4>4
      <4>5. QED BY <4>3, <4>4
    <3>5. QED BY <1>2, <3>2, <3>3, <3>4, ContinueMoves
  <2>6. req'[x].op = "create" \/ Naming(req'[x]) => req'[x].user \in User
    BY <1>a, <2>2 DEF Naming
  <2>7. Naming(req'[x]) => req'[x].op # "create"
    BY DEF Naming
  <2>8. QED BY <2>4, <2>5, <2>6, <2>7
<1>3. CASE Once
  <2>1. UNCHANGED req /\ SameStates
    BY <1>3, OnceMoves
  <2>2. QED BY <1>a, <2>1 DEF NamesInv, SameStates
<1>4. CASE UNCHANGED vars
  BY <1>4 DEF NamesInv, vars
<1>5. ASSUME NEW r \in Req, NEW q, LoginBegun(r, q) \/ QuietBegun(r, q) PROVE NamesInv'
  BY <1>1, <1>5 DEF LoginBegun, QuietBegun
<1>6. ASSUME NEW r \in Req, NEW q, CreateBegun(r, q) PROVE NamesInv'
  BY <1>1, <1>6 DEF CreateBegun, Naming
<1>7. ASSUME NEW r \in Req, NEW q, NEW realm, EditBegun(r, q, realm) PROVE NamesInv'
  BY <1>1, <1>7 DEF EditBegun, Naming, Edits
<1>8. QED BY <1>2, <1>3, <1>4, <1>5, <1>6, <1>7, StepsOfAccounts
-----------------------------------------------------------------------------
(* Of an account whose logins never overlapped one login at most is at the  *)
(* password, and its copy counts every wrong one since.                     *)
SigningIn(r, u) == At(r, {"login"}, "password") /\ req[r].user = u
CountInv ==
  /\ \A u \in User : user[u].state = "none" => guesses[u] = 0
  /\ GuessesBounded
  /\ \A u \in User \ raced : \A r \in Req : SigningIn(r, u) => /\ guesses[u] <= req[r].seen
                                                             /\ \A s \in Req : SigningIn(s, u) => s = r

LEMMA CountStep ==
  ASSUME AccountShape, AccountShape', CountInv, raced' = raced,
         \A s \in Req, u \in User : SigningIn(s, u)' => SigningIn(s, u) /\ req'[s].seen = req[s].seen,
         \A u \in User :
           /\ user'[u].state = "none" => guesses'[u] = 0
           /\ u \notin raced => guesses'[u] <= guesses[u] \/ \A s \in Req : ~ SigningIn(s, u)'
           /\ u \notin raced /\ Live(u)' => guesses'[u] < Threshold /\ guesses'[u] <= user'[u].failed
  PROVE  CountInv'
<1>1. GuessesBounded'
  BY DEF GuessesBounded
<1>2. ASSUME NEW u \in User \ raced, NEW r \in Req, SigningIn(r, u)'
      PROVE  guesses'[u] <= req'[r].seen /\ \A s \in Req : SigningIn(s, u)' => s = r
  <2>1. guesses[u] <= req[r].seen /\ req'[r].seen = req[r].seen /\ guesses'[u] <= guesses[u]
    BY <1>2 DEF CountInv
  <2>2. guesses[u] \in Nat /\ guesses'[u] \in Nat /\ req[r].seen \in Nat
    BY DEF AccountShape, Asked
  <2>3. guesses'[u] <= req'[r].seen
    BY <2>1, <2>2
  <2>4. QED BY <1>2, <2>3 DEF CountInv
<1>3. QED BY <1>1, <1>2 DEF CountInv

(* A request that goes on adds nobody to raced and no realm to contested.  *)
LEMMA ContinueRecords ==
  ASSUME NEW r \in Req, Continue(r)
  PROVE  raced' = raced /\ contested' = contested
<1>1. CASE WrongPassword(r)
  BY <1>1 DEF WrongPassword
<1>2. CASE RightPassword(r)
  BY <1>2 DEF RightPassword
<1>3. CASE IssueTokenPair(r)
  BY <1>3 DEF IssueTokenPair
<1>4. CASE RotateRefresh(r)
  BY <1>4 DEF RotateRefresh
<1>5. CASE RevokeAllRefresh(r)
  BY <1>5 DEF RevokeAllRefresh
<1>6. CASE EditWrite(r)
  BY <1>6 DEF EditWrite
<1>7. CASE BlockWrite(r)
  BY <1>7 DEF BlockWrite
<1>8. CASE ResetWrite(r)
  BY <1>8 DEF ResetWrite
<1>9. CASE InsertUser(r)
  BY <1>9 DEF InsertUser
<1>10. CASE DeleteUserWrite(r)
  BY <1>10 DEF DeleteUserWrite
<1>11. CASE PatchRoleWrite(r)
  BY <1>11 DEF PatchRoleWrite
<1>12. CASE DeleteRoleWrite(r)
  BY <1>12 DEF DeleteRoleWrite
<1>13. QED BY <1>1, <1>2, <1>3, <1>4, <1>5, <1>6,
          <1>7, <1>8, <1>9, <1>10, <1>11, <1>12 DEF Continue

LEMMA CountContinues ==
  ASSUME AccountShape, AccountShape', NamesInv, CountInv, NEW r \in Req, Continue(r)
  PROVE  CountInv'
<1>0. /\ req \in [Req -> Asked] /\ req[r] \in Asked /\ Placed(req[r]) /\ user \in [User -> Account]
      /\ guesses \in [User -> Nat] /\ user' \in [User -> Account] /\ guesses' \in [User -> Nat]
      /\ Threshold \in Nat \ {0}
  BY BoundAssumption DEF AccountShape, Account
<1>1. Onward(r) /\ (InsertUser(r) \/ DeleteUserWrite(r) \/ SameStates)
  BY ContinueMoves
<1>2. \A s \in Req : At(s, {"login"}, "password")' => s # r /\ req'[s] = req[s] /\ At(s, {"login"}, "password")
  BY <1>1 DEF Onward, At, Idle
<1>3. \A s \in Req, v \in User : SigningIn(s, v)' => s # r /\ SigningIn(s, v) /\ req'[s].seen = req[s].seen
  BY <1>2 DEF SigningIn
<1>4. raced' = raced
  BY ContinueRecords
<1>5. \A v \in User : /\ user[v].state = "none" => guesses[v] = 0
                      /\ v \notin raced /\ Live(v) => guesses[v] < Threshold /\ guesses[v] <= user[v].failed
  BY DEF CountInv, GuessesBounded
<1>u. PICK u : u = req[r].user
  OBVIOUS
<1> USE <1>u
<1> DEFINE Kept(v) == /\ user'[v].state = "none" => guesses'[v] = 0
                      /\ v \notin raced => guesses'[v] <= guesses[v] \/ \A s \in Req : ~ SigningIn(s, v)'
                      /\ v \notin raced /\ Live(v)' => guesses'[v] < Threshold /\ guesses'[v] <= user'[v].failed
<1>6. ASSUME NEW v \in User, user'[v].state = user[v].state, user'[v].failed = user[v].failed, guesses'[v] = guesses[v]
      PROVE  Kept(v)
  BY <1>0, <1>5, <1>6 DEF Live
<1>7. CASE WrongPassword(r)
  <2>1. u \in User /\ user[u] \in Account /\ u = req[r].user /\ SigningIn(r, u) /\ req[r].seen \in Nat
    BY <1>0, <1>7 DEF WrongPassword, At, Placed, SigningIn, Asked
  <2> DEFINE n == req[r].seen + 1
             rec == IF n >= Threshold THEN [user[u] EXCEPT !.failed = 0, !.locked = TRUE]
                                      ELSE [user[u] EXCEPT !.failed = n]
  <2>2. /\ user' = [user EXCEPT ![u] = IF Live(u) THEN rec ELSE user[u]]
        /\ guesses' = [guesses EXCEPT ![u] = IF n >= Threshold THEN 0 ELSE guesses[u] + 1]
    <3>1. SetUser(u, rec) /\ guesses' = [guesses EXCEPT ![u] = IF n >= Threshold THEN 0 ELSE guesses[u] + 1]
      BY <1>0, <1>7, <2>1 DEF WrongPassword
    <3> HIDE DEF rec
    <3>2. QED BY <3>1 DEF SetUser
  <2>3. n \in Nat
    BY <2>1
  <2>4. [user[u] EXCEPT !.failed = 0, !.locked = TRUE].failed = 0 /\ [user[u] EXCEPT !.failed = n].failed = n
    <3> HIDE DEF n
    <3>1. QED BY <2>1 DEF Account
  <2>5. Live(u) => user'[u].failed = IF n >= Threshold THEN 0 ELSE n
    <3>1. Live(u) => user'[u] = rec
      BY <1>0, <2>1, <2>2
    <3>2. rec.failed = IF n >= Threshold THEN 0 ELSE n
      BY <2>4
    <3> HIDE DEF rec
    <3>3. QED BY <3>1, <3>2
  <2>6. guesses'[u] = IF n >= Threshold THEN 0 ELSE guesses[u] + 1
    BY <1>0, <2>1, <2>2
  <2>7. \A v \in User \ {u} : user'[v] = user[v] /\ guesses'[v] = guesses[v]
    <3> HIDE DEF rec
    <3>1. QED BY <1>0, <2>1, <2>2
  <2>8. user[u].state # "none" /\ user'[u].state = user[u].state
    <3>1. Naming(req[r])
      BY <1>7 DEF WrongPassword, At, Naming
    <3>2. user[u].state # "none"
      BY <2>1, <3>1 DEF NamesInv
    <3>3. SameStates
      BY <1>1, <1>7 DEF WrongPassword, InsertUser, DeleteUserWrite, At
    <3>4. QED BY <2>1, <3>2, <3>3 DEF SameStates
  <2>9. ASSUME u \notin raced
        PROVE  guesses[u] <= req[r].seen /\ \A s \in Req : ~ SigningIn(s, u)'
    <3>1. guesses[u] <= req[r].seen /\ \A s \in Req : SigningIn(s, u) => s = r
      BY <2>1, <2>9 DEF CountInv
    <3>2. QED BY <1>3, <2>1, <3>1
  <2>10. Kept(u)
    <3> HIDE DEF n
    <3>1. ASSUME u \notin raced, Live(u)' PROVE guesses'[u] < Threshold /\ guesses'[u] <= user'[u].failed
      <4>1. Live(u) /\ guesses[u] <= req[r].seen /\ guesses[u] \in Nat
        BY <1>0, <2>1, <2>8, <2>9, <3>1 DEF Live
      <4>2. CASE n >= Threshold
        BY <1>0, <2>5, <2>6, <4>1, <4>2
      <4>3. CASE ~ (n >= Threshold)
        BY <1>0, <2>1, <2>3, <2>5, <2>6, <4>1, <4>3 DEF n
      <4>4. QED BY <4>2, <4>3
    <3>2. QED BY <2>8, <2>9, <3>1
  <2>11. \A v \in User : Kept(v)
    <3> HIDE DEF Kept
    <3>1. QED BY <1>6, <2>7, <2>10
  <2>12. QED BY <1>3, <1>4, <2>11, CountStep
<1>8. CASE RightPassword(r) \/ ResetWrite(r)
  <2>1. u \in User /\ user[u] \in Account
    BY <1>0, <1>8 DEF RightPassword, ResetWrite, At, Placed
  <2>2. guesses' = [guesses EXCEPT ![u] = 0] /\ SetUser(u, [user[u] EXCEPT !.failed = 0, !.locked = FALSE])
    BY <1>8 DEF RightPassword, ResetWrite
  <2>3. \A v \in User \ {u} : user'[v] = user[v] /\ guesses'[v] = guesses[v]
    BY <1>0, <2>1, <2>2 DEF SetUser
  <2>4. guesses'[u] = 0
    BY <1>0, <2>1, <2>2
  <2>5. Kept(u)
    <3>1. user'[u].failed \in Nat /\ guesses[u] \in Nat
      BY <1>0, <2>1 DEF Account
    <3>2. QED BY <1>0, <2>4, <3>1
  <2>6. \A v \in User : Kept(v)
    <3> HIDE DEF Kept
    <3>1. QED BY <1>6, <2>3, <2>5
  <2>7. QED BY <1>3, <1>4, <2>6, CountStep
<1>9. CASE InsertUser(r)
  <2>1. u \in User /\ req[r].op = "create" /\ u = req[r].user
    BY <1>0, <1>9 DEF InsertUser, At, Placed
  <2>2. user' = [user EXCEPT ![u] = [NoUser EXCEPT !.state = "live", !.role = req[r].role]] /\ UNCHANGED guesses
    BY <1>9 DEF InsertUser
  <2>3. user[u].state = "none" /\ guesses[u] = 0
    BY <1>5, <2>1 DEF NamesInv
  <2>4. \A v \in User \ {u} : user'[v] = user[v] /\ guesses'[v] = guesses[v]
    BY <1>0, <2>1, <2>2
  <2>5. Kept(u)
    <3>1. user'[u].failed \in Nat /\ guesses'[u] = 0
      BY <1>0, <2>1, <2>2, <2>3 DEF Account
    <3>2. QED BY <1>0, <2>3, <3>1
  <2>6. \A v \in User : Kept(v)
    <3> HIDE DEF Kept
    <3>1. QED BY <1>6, <2>4, <2>5
  <2>7. QED BY <1>3, <1>4, <2>6, CountStep
<1>10. CASE DeleteUserWrite(r)
  <2>1. u \in User
    BY <1>0, <1>10 DEF DeleteUserWrite, At, Placed
  <2>2. user' = [user EXCEPT ![u] = [NoUser EXCEPT !.state = "deleted"]] /\ UNCHANGED guesses
    BY <1>10 DEF DeleteUserWrite
  <2>3. \A v \in User \ {u} : user'[v] = user[v] /\ guesses'[v] = guesses[v]
    BY <1>0, <2>1, <2>2
  <2>4. user'[u].state = "deleted"
    BY <1>0, <2>1, <2>2 DEF NoUser
  <2>5. Kept(u)
    <3>1. guesses'[u] = guesses[u] /\ guesses[u] \in Nat
      BY <1>0, <2>1, <2>2
    <3>2. QED BY <2>4, <3>1 DEF Live
  <2>6. \A v \in User : Kept(v)
    <3> HIDE DEF Kept
    <3>1. QED BY <1>6, <2>3, <2>5
  <2>7. QED BY <1>3, <1>4, <2>6, CountStep
<1>11. CASE EditWrite(r) \/ BlockWrite(r)
  <2>1. u \in User /\ user[u] \in Account
    BY <1>0, <1>11 DEF EditWrite, BlockWrite, At, Placed
  <2>2. UNCHANGED guesses
    BY <1>11 DEF EditWrite, BlockWrite
  <2>3. SameStates
    BY <1>1, <1>11 DEF EditWrite, BlockWrite, InsertUser, DeleteUserWrite, At
  <2>4. PICK rec : SetUser(u, rec) /\ rec.failed = user[u].failed
    <3>1. CASE BlockWrite(r)
      <4>1. SetUser(u, [user[u] EXCEPT !.blocked = TRUE])
        BY <3>1 DEF BlockWrite
      <4>2. [user[u] EXCEPT !.blocked = TRUE].failed = user[u].failed
        BY <2>1 DEF Account
      <4>3. QED BY <4>1, <4>2
    <3>2. CASE EditWrite(r)
      <4> DEFINE a == IF req[r].role = "none" THEN user[u].role ELSE req[r].role
                 b == IF req[r].to = "same" THEN user[u].blocked ELSE req[r].to = "block"
      <4>1. SetUser(u, [user[u] EXCEPT !.role = a, !.blocked = b])
        BY <2>1, <3>2 DEF EditWrite, Account
      <4>2. [user[u] EXCEPT !.role = a, !.blocked = b].failed = user[u].failed
        <5> HIDE DEF a, b
        <5>1. QED BY <2>1 DEF Account
      <4> HIDE DEF a, b
      <4>3. QED BY <4>1, <4>2
    <3>3. QED BY <1>11, <3>1, <3>2
  <2>5. \A v \in User : user'[v].state = user[v].state /\ user'[v].failed = user[v].failed /\ guesses'[v] = guesses[v]
    BY <1>0, <2>1, <2>2, <2>3, <2>4 DEF SetUser, SameStates
  <2>6. \A v \in User : Kept(v)
    <3> HIDE DEF Kept
    <3>1. QED BY <1>6, <2>5
  <2>7. QED BY <1>3, <1>4, <2>6, CountStep
<1>12. CASE IssueTokenPair(r) \/ RotateRefresh(r) \/ RevokeAllRefresh(r) \/ PatchRoleWrite(r) \/ DeleteRoleWrite(r)
  <2>1. UNCHANGED <<user, guesses>>
    BY <1>12 DEF IssueTokenPair, RotateRefresh, RevokeAllRefresh, PatchRoleWrite, DeleteRoleWrite
  <2>2. \A v \in User : Kept(v)
    <3> HIDE DEF Kept
    <3>1. QED BY <1>6, <2>1
  <2>3. QED BY <1>3, <1>4, <2>2, CountStep
<1>13. QED BY <1>7, <1>8, <1>9, <1>10, <1>11, <1>12 DEF Continue

LEMMA CountKept ==
  ASSUME AccountShape, AccountShape', NamesInv, CountInv, [Next]_vars
  PROVE  CountInv'
<1>0. /\ req \in [Req -> Asked] /\ user \in [User -> Account] /\ guesses \in [User -> Nat]
      /\ user' \in [User -> Account] /\ guesses' \in [User -> Nat] /\ Threshold \in Nat \ {0}
  BY BoundAssumption DEF AccountShape, Account
<1>1. ASSUME NEW r \in Req, NEW q, Begun(r, q), q.step # "password", UNCHANGED raced
      PROVE  CountInv'
  <2>1. UNCHANGED <<user, guesses>> /\ req'[r] = q /\ \A s \in Req \ {r} : req'[s] = req[s]
    BY <1>0, <1>1 DEF Begun, book
  <2>2. \A s \in Req, v \in User : SigningIn(s, v)' => SigningIn(s, v) /\ req'[s].seen = req[s].seen
    BY <1>1, <2>1 DEF SigningIn, At
  <2>3. \A v \in User : /\ user'[v].state = "none" => guesses'[v] = 0
                        /\ guesses'[v] <= guesses[v]
                        /\ v \notin raced /\ Live(v)' => guesses'[v] < Threshold /\ guesses'[v] <= user'[v].failed
    BY <1>0, <2>1 DEF CountInv, GuessesBounded, Live
  <2>4. QED BY <1>1, <2>2, <2>3, CountStep
<1>2. ASSUME NEW r \in Req, NEW q, LoginBegun(r, q)
      PROVE  CountInv'
  <2>1. /\ UNCHANGED <<user, guesses>> /\ req'[r] = q /\ \A s \in Req \ {r} : req'[s] = req[s]
        /\ q.user \in User /\ Live(q.user) /\ q.seen = user[q.user].failed /\ req[r].op = "idle"
    BY <1>0, <1>2 DEF LoginBegun, Begun, book, Placed
  <2>2. raced \subseteq raced' /\ \A s \in Req : SigningIn(s, q.user) => q.user \in raced'
    BY <1>2 DEF LoginBegun, SigningIn
  <2>3. ASSUME NEW v \in User \ raced', NEW s \in Req, SigningIn(s, v)'
        PROVE  guesses'[v] <= req'[s].seen /\ \A x \in Req : SigningIn(x, v)' => x = s
    <3>1. v \notin raced
      BY <2>2
    <3>2. CASE v = q.user
      <4>1. \A x \in Req : ~ SigningIn(x, v)
        BY <2>2, <3>2
      <4>2. \A x \in Req : SigningIn(x, v)' => x = r
        BY <2>1, <4>1 DEF SigningIn, At
      <4>3. guesses[v] <= user[v].failed
        BY <2>1, <3>1, <3>2 DEF CountInv, GuessesBounded
      <4>4. QED BY <2>1, <2>3, <3>2, <4>2, <4>3
    <3>3. CASE v # q.user
      <4>1. \A x \in Req : SigningIn(x, v)' => x # r /\ req'[x] = req[x] /\ SigningIn(x, v)
        BY <2>1, <3>3 DEF SigningIn, At
      <4>2. QED BY <2>1, <2>3, <3>1, <4>1 DEF CountInv
    <3>4. QED BY <3>2, <3>3
  <2>4. (\A v \in User : user'[v].state = "none" => guesses'[v] = 0) /\ GuessesBounded'
    BY <2>1, <2>2 DEF CountInv, GuessesBounded, Live
  <2>5. QED BY <2>3, <2>4 DEF CountInv
<1>3. CASE Once
  <2>1. UNCHANGED <<req, raced>> /\ SameStates
    BY <1>3, OnceMoves
  <2>2. ASSUME NEW v \in User
        PROVE  guesses'[v] = 0 \/ (guesses'[v] = guesses[v] /\ user'[v].failed = user[v].failed)
    <3>1. ASSUME NEW u \in User, LockExpires(u) \/ UnblockEmployee(u)
          PROVE  guesses'[v] = guesses[v] /\ user'[v].failed = user[v].failed
      <4>1. user[u] \in Account
        BY <1>0
      <4>2. CASE LockExpires(u)
        BY <1>0, <4>1, <4>2 DEF LockExpires, Account
      <4>3. CASE UnblockEmployee(u)
        BY <1>0, <4>1, <4>3 DEF UnblockEmployee, Account
      <4>4. QED BY <3>1, <4>2, <4>3
    <3>2. ASSUME NEW u \in User, UnlockEmployee(u)
          PROVE  guesses'[v] = 0 \/ (guesses'[v] = guesses[v] /\ user'[v].failed = user[v].failed)
      <4>1. CASE u = v
        BY <1>0, <3>2, <4>1 DEF UnlockEmployee
      <4>2. CASE u # v
        BY <1>0, <3>2, <4>2 DEF UnlockEmployee
      <4>3. QED BY <4>1, <4>2
    <3>3. ASSUME UNCHANGED <<user, guesses>>
          PROVE  guesses'[v] = guesses[v] /\ user'[v].failed = user[v].failed
      BY <3>3
    <3>4. QED BY <1>3, <3>1, <3>2, <3>3 DEF Once, User, CreateRole, CreateAdminRole, SetCompanyStatus
  <2>3. \A s \in Req, v \in User : SigningIn(s, v)' => SigningIn(s, v) /\ req'[s].seen = req[s].seen
    BY <2>1 DEF SigningIn, At
  <2>4. ASSUME NEW v \in User
        PROVE  /\ user'[v].state = "none" => guesses'[v] = 0
               /\ guesses'[v] <= guesses[v]
               /\ v \notin raced /\ Live(v)' => guesses'[v] < Threshold /\ guesses'[v] <= user'[v].failed
    <3>1. user'[v].state = user[v].state /\ user'[v].failed \in Nat /\ guesses[v] \in Nat
      BY <1>0, <2>1 DEF SameStates, Account
    <3>2. CASE guesses'[v] = 0
      BY <1>0, <3>1, <3>2
    <3>3. CASE guesses'[v] = guesses[v] /\ user'[v].failed = user[v].failed
      BY <1>0, <3>1, <3>3 DEF CountInv, GuessesBounded, Live
    <3>4. QED BY <2>2, <3>2, <3>3
  <2>5. QED BY <2>1, <2>3, <2>4, CountStep
<1>4. CASE UNCHANGED vars
  BY <1>4 DEF CountInv, GuessesBounded, SigningIn, At, Live, vars
<1>5. ASSUME NEW r \in Req, NEW q, QuietBegun(r, q) PROVE CountInv'
  BY <1>1, <1>5 DEF QuietBegun
<1>6. ASSUME NEW r \in Req, NEW q, CreateBegun(r, q) PROVE CountInv'
  BY <1>1, <1>6 DEF CreateBegun
<1>7. ASSUME NEW r \in Req, NEW q, NEW realm, EditBegun(r, q, realm) PROVE CountInv'
  BY <1>1, <1>7 DEF EditBegun
<1>8. QED BY <1>2, <1>3, <1>4, <1>5, <1>6, <1>7, CountContinues, StepsOfAccounts

LEMMA CountInit == Init => NamesInv /\ CountInv
<1> SUFFICES ASSUME Init PROVE NamesInv /\ CountInv
  OBVIOUS
<1>1. \A r \in Req : req[r] = Idle
  BY DEF Init
<1>2. \A u \in User : guesses[u] = 0 /\ user[u].failed = 0
  BY DEF Init, NoUser
<1>3. NamesInv
  BY <1>1 DEF NamesInv, Naming, Idle
<1>4. GuessesBounded
  BY <1>2, BoundAssumption DEF GuessesBounded
<1>5. CountInv
  BY <1>1, <1>2, <1>4 DEF CountInv, SigningIn, At, Idle
<1>6. QED BY <1>3, <1>5

(* As long as no two logins of an account overlapped, fewer wrong passwords *)
(* than the threshold were tried since it was last locked or let in.        *)
THEOREM FewGuesses == Spec => []GuessesBounded
<1>1. AccountShape /\ NamesInv /\ CountInv /\ [Next]_vars => (AccountShape /\ NamesInv /\ CountInv)'
  <2>1. ASSUME AccountShape, NamesInv, CountInv, [Next]_vars PROVE (AccountShape /\ NamesInv /\ CountInv)'
    <3>1. AccountShape'
      BY <2>1, AccountKept
    <3>2. NamesInv'
      BY <2>1, NamesKept
    <3>3. QED BY <2>1, <3>1, <3>2, CountKept
  <2>2. QED BY <2>1
<1>2. CountInv => GuessesBounded
  BY DEF CountInv
<1>3. QED BY AccountsInit, CountInit, <1>1, <1>2, PTL DEF Spec
-----------------------------------------------------------------------------
(* What the edit under way in a realm that is not contested has asked still *)
(* holds when it is written.                                                *)
Pending(q, realm) ==
  /\ q.op = "edit" =>
       /\ q.role = "none" \/ (role[q.role].live /\ role[q.role].manages) \/ OthersManage(q.user)
       /\ q.to = "block" => OthersManage(q.user)
  /\ q.op \in {"block", "delete"} => OthersManage(q.user)
  /\ q.op \in {"edit_role", "delete_role"} =>
       \/ q.op = "edit_role" /\ q.to = "manager"
       \/ \E v \in realm : Manages(v) /\ user[v].role # q.role

RealmInv(realm) ==
  /\ \E v \in realm : Manages(v)
  /\ \A r \in Req : Editing(r, realm) => /\ req[r].step = "write" => Pending(req[r], realm)
                                        /\ \A s \in Req : Editing(s, realm) => s = r
ManagerInv == \A realm \in {Staff, Operator} \ contested : RealmInv(realm)

(* A realm keeps its managers: nobody in it who manages it stops to, and no *)
(* role that manages it stops to.                                           *)
Keeps(realm) ==
  /\ \A v \in realm : Manages(v) => Manages(v)' /\ user'[v].role = user[v].role
  /\ \A x \in RealmRoles(realm) : role[x].live /\ role[x].manages => role'[x].live /\ role'[x].manages

LEMMA Realms ==
  /\ Staff # Operator /\ Staff \cap Operator = {} /\ StaffRole \cap OperatorRole = {}
  /\ "none" \notin Staff \cup Operator \cup StaffRole \cup OperatorRole
  /\ RealmRoles(Staff) = StaffRole /\ RealmRoles(Operator) = OperatorRole
  /\ \A realm \in {Staff, Operator} : \A v \in realm : v \in User /\ Realm(v) = realm /\ RolesOf(v) = RealmRoles(realm)
BY RealmAssumption DEF RealmRoles, Realm, RolesOf, User

LEMMA WhoseEdit ==
  ASSUME NEW q \in Asked, Placed(q), q.op \in Edits, NEW realm \in {Staff, Operator}, InRealm(q, realm)
  PROVE  /\ q.op \in {"edit", "block", "delete"} => q.user \in realm
         /\ q.op \in {"edit_role", "delete_role"} => q.role \in RealmRoles(realm)
<1>1. CASE q.op \in {"edit", "block", "delete"}
  <2>1. q.user \in User /\ q.role \in RolesOf(q.user) \cup {"none"}
    BY <1>1 DEF Placed
  <2>2. q.user \in realm
    BY <2>1, Realms DEF InRealm, User
  <2>3. QED BY <1>1, <2>2
<1>2. CASE q.op \in {"edit_role", "delete_role"}
  BY <1>2, Realms DEF InRealm, Placed
<1>3. QED BY <1>1, <1>2 DEF Edits

LEMMA AsksEnough ==
  ASSUME AccountShape, NEW realm \in {Staff, Operator}, NEW w \in realm, Manages(w),
         NEW q \in Asked, Placed(q), q.op \in Edits, Asks(q, realm)
  PROVE  Pending(q, realm)
<1>1. CASE q.op = "edit_role"
  <2>1. CASE q.to = "manager" \/ user[w].role # q.role
    BY <1>1, <2>1 DEF Pending
  <2>2. CASE q.to # "manager" /\ user[w].role = q.role
    <3>1. role[q.role].manages /\ ~ user[w].blocked /\ w \in Holders(q.role)
      BY <2>2, Realms DEF Manages, Holders
    <3>2. Demotable(q.role, realm)
      BY <1>1, <2>2, <3>1 DEF Asks
    <3>3. PICK v \in realm \ Holders(q.role) : Manages(v)
      BY <3>1, <3>2 DEF Demotable
    <3>4. user[v].role # q.role
      BY <3>3, Realms DEF Holders, Manages
    <3>5. QED BY <1>1, <3>3, <3>4 DEF Pending
  <2>3. QED BY <2>1, <2>2
<1>2. CASE q.op = "delete_role"
  <2>1. user[w].role # q.role
    BY <1>2, Realms DEF Asks, Holders, Manages
  <2>2. QED BY <1>2, <2>1 DEF Pending
<1>3. CASE q.op \in {"edit", "block", "delete"}
  BY <1>3 DEF Asks, Pending
<1>4. QED BY <1>1, <1>2, <1>3 DEF Edits

LEMMA PendingKept ==
  ASSUME AccountShape, NEW realm \in {Staff, Operator}, Keeps(realm),
         NEW q \in Asked, Placed(q), q.op \in Edits, InRealm(q, realm), Pending(q, realm)
  PROVE  Pending(q, realm)'
<1>1. CASE q.op \in {"edit", "block", "delete"}
  <2>1. q.user \in realm /\ Realm(q.user) = realm /\ q.user \in User
    BY <1>1, WhoseEdit, Realms
  <2>2. OthersManage(q.user) => OthersManage(q.user)'
    BY <2>1 DEF OthersManage, Keeps
  <2>3. q.op = "edit" => q.role \in RealmRoles(realm) \cup {"none"}
    BY <2>1, Realms DEF Placed
  <2>4. q.op = "edit" /\ q.role # "none" /\ role[q.role].live /\ role[q.role].manages
          => role'[q.role].live /\ role'[q.role].manages
    BY <2>3 DEF Keeps
  <2>5. QED BY <1>1, <2>2, <2>4 DEF Pending
<1>2. CASE q.op \in {"edit_role", "delete_role"}
  BY <1>2 DEF Pending, Keeps
<1>3. QED BY <1>1, <1>2 DEF Edits

(* Nothing but the writes of edits in a realm disturbs its managers.        *)
LEMMA SameStandingKeeps ==
  ASSUME AccountShape, NEW realm \in {Staff, Operator}, UNCHANGED role,
         \A v \in realm : user[v].state = "live" =>
           user'[v].state = "live" /\ user'[v].role = user[v].role /\ (~ user[v].blocked => ~ user'[v].blocked)
  PROVE  Keeps(realm)
BY DEF Keeps, Manages, Live

LEMMA ContinueKeeps ==
  ASSUME AccountShape, NamesInv, NEW r \in Req, Continue(r), NEW realm \in {Staff, Operator},
         ~ Editing(r, realm) \/ req[r].step # "write"
  PROVE  Keeps(realm)
<1>0. req[r] \in Asked /\ Placed(req[r]) /\ user \in [User -> Account] /\ role \in [Role -> [live : BOOLEAN, manages : BOOLEAN]]
  BY DEF AccountShape, Account
<1>u. PICK u : u = req[r].user
  OBVIOUS
<1> USE <1>u
<1>1. realm \subseteq User
  BY Realms
<1>2. ASSUME u \in User, NEW rec, SetUser(u, rec), UNCHANGED role,
             rec.state = user[u].state, rec.role = user[u].role, rec.blocked = user[u].blocked
      PROVE  Keeps(realm)
  <2>1. \A v \in realm : user'[v].state = user[v].state /\ user'[v].role = user[v].role /\ user'[v].blocked = user[v].blocked
    BY <1>0, <1>1, <1>2 DEF SetUser
  <2>2. QED BY <1>2, <2>1, SameStandingKeeps
<1>3. CASE WrongPassword(r)
  <2>1. u \in User /\ user[u] \in Account
    BY <1>0, <1>3 DEF WrongPassword, At, Placed
  <2> DEFINE n == req[r].seen + 1
             rec == IF n >= Threshold THEN [user[u] EXCEPT !.failed = 0, !.locked = TRUE]
                                      ELSE [user[u] EXCEPT !.failed = n]
  <2>2. SetUser(u, rec) /\ UNCHANGED role
    BY <1>3 DEF WrongPassword
  <2>3. rec.state = user[u].state /\ rec.role = user[u].role /\ rec.blocked = user[u].blocked
    <3> HIDE DEF n
    <3>1. CASE n >= Threshold
      <4>1. rec = [user[u] EXCEPT !.failed = 0, !.locked = TRUE]
        BY <3>1
      <4>2. QED BY <2>1, <4>1 DEF Account
    <3>2. CASE ~ (n >= Threshold)
      <4>1. rec = [user[u] EXCEPT !.failed = n]
        BY <3>2
      <4>2. QED BY <2>1, <4>1 DEF Account
    <3>3. QED BY <3>1, <3>2
  <2> HIDE DEF rec
  <2>4. QED BY <1>2, <2>1, <2>2, <2>3
<1>4. CASE RightPassword(r) \/ ResetWrite(r)
  <2>1. u \in User /\ user[u] \in Account
    BY <1>0, <1>4 DEF RightPassword, ResetWrite, At, Placed
  <2> DEFINE rec == [user[u] EXCEPT !.failed = 0, !.locked = FALSE]
  <2>2. SetUser(u, rec) /\ UNCHANGED role
    BY <1>4 DEF RightPassword, ResetWrite
  <2>3. rec.state = user[u].state /\ rec.role = user[u].role /\ rec.blocked = user[u].blocked
    BY <2>1 DEF Account
  <2> HIDE DEF rec
  <2>4. QED BY <1>2, <2>1, <2>2, <2>3
<1>5. CASE IssueTokenPair(r) \/ RotateRefresh(r) \/ RevokeAllRefresh(r)
  BY <1>5, SameStandingKeeps DEF IssueTokenPair, RotateRefresh, RevokeAllRefresh
<1>6. CASE InsertUser(r)
  <2>1. u \in User /\ user[u].state = "none"
    BY <1>0, <1>6 DEF InsertUser, At, Placed, NamesInv
  <2>2. \A v \in realm : user[v].state = "live" => user'[v] = user[v]
    BY <1>0, <1>1, <1>6, <2>1 DEF InsertUser
  <2>3. QED BY <1>6, <2>2, SameStandingKeeps DEF InsertUser
<1>7. CASE EditWrite(r) \/ BlockWrite(r) \/ DeleteUserWrite(r)
  <2>1. u \in User /\ u \notin realm
    BY <1>0, <1>7 DEF EditWrite, BlockWrite, DeleteUserWrite, At, Placed, Editing, InRealm, Edits
  <2>2. UNCHANGED role /\ \A v \in realm : user'[v] = user[v]
    BY <1>0, <1>1, <1>7, <2>1 DEF EditWrite, BlockWrite, DeleteUserWrite, SetUser
  <2>3. QED BY <2>2, SameStandingKeeps
<1>8. CASE PatchRoleWrite(r) \/ DeleteRoleWrite(r)
  <2>1. req[r].role \in Role /\ req[r].role \notin RealmRoles(realm)
    BY <1>0, <1>8 DEF PatchRoleWrite, DeleteRoleWrite, At, Placed, Editing, InRealm, Edits
  <2>2. RealmRoles(realm) \subseteq Role
    BY Realms DEF Role
  <2>3. UNCHANGED user /\ \A x \in RealmRoles(realm) : role'[x] = role[x]
    BY <1>0, <1>8, <2>1, <2>2 DEF PatchRoleWrite, DeleteRoleWrite
  <2>4. \A v \in realm : Live(v) => user[v].role \in RealmRoles(realm)
    BY Realms DEF AccountShape
  <2>5. QED BY <2>3, <2>4 DEF Keeps, Manages, Live
<1>9. QED BY <1>3, <1>4, <1>5, <1>6, <1>7, <1>8 DEF Continue

LEMMA OnceKeeps ==
  ASSUME AccountShape, Once, NEW realm \in {Staff, Operator}
  PROVE  Keeps(realm)
<1>0. user \in [User -> Account] /\ role \in [Role -> [live : BOOLEAN, manages : BOOLEAN]] /\ realm \subseteq User
  BY Realms DEF AccountShape, Account
<1>1. ASSUME NEW u \in User, LockExpires(u) \/ UnblockEmployee(u) \/ UnlockEmployee(u) PROVE Keeps(realm)
  <2>1. user[u] \in Account
    BY <1>0
  <2>2. UNCHANGED role
    BY <1>1 DEF LockExpires, UnblockEmployee, UnlockEmployee
  <2>3. \A v \in realm : user'[v].state = user[v].state /\ user'[v].role = user[v].role
                         /\ (~ user[v].blocked => ~ user'[v].blocked)
    <3>1. CASE LockExpires(u)
      BY <1>0, <2>1, <3>1 DEF LockExpires, Account
    <3>2. CASE UnblockEmployee(u)
      BY <1>0, <2>1, <3>2 DEF UnblockEmployee, Account
    <3>3. CASE UnlockEmployee(u)
      BY <1>0, <2>1, <3>3 DEF UnlockEmployee, Account
    <3>4. QED BY <1>1, <3>1, <3>2, <3>3
  <2>4. QED BY <2>2, <2>3, SameStandingKeeps
<1>2. ASSUME NEW x \in Role, NEW m \in BOOLEAN, CreateRole(x, m) \/ CreateAdminRole(x, m) PROVE Keeps(realm)
  <2>1. UNCHANGED user /\ ~ role[x].live /\ \A y \in Role \ {x} : role'[y] = role[y]
    BY <1>0, <1>2 DEF CreateRole, CreateAdminRole
  <2>2. RealmRoles(realm) \subseteq Role /\ \A v \in realm : Live(v) => user[v].role \in Role
    BY Realms DEF AccountShape, Role
  <2>3. \A y \in Role : role[y].live => role'[y] = role[y]
    BY <2>1
  <2>4. QED BY <2>1, <2>2, <2>3 DEF Keeps, Manages, Live
<1>3. ASSUME NEW up \in BOOLEAN, SetCompanyStatus(up) PROVE Keeps(realm)
  BY <1>3, SameStandingKeeps DEF SetCompanyStatus
<1>4. QED BY <1>1, <1>2, <1>3 DEF Once, User, Role

(* The write of an edit whose guard still holds leaves somebody.            *)
LEMMA WriteLeavesOne ==
  ASSUME AccountShape, NEW r \in Req, Continue(r), NEW realm \in {Staff, Operator}, NEW w \in realm, Manages(w),
         Editing(r, realm), req[r].step = "write", Pending(req[r], realm)
  PROVE  \E v \in realm : Manages(v)'
<1>0. req[r] \in Asked /\ Placed(req[r]) /\ user \in [User -> Account] /\ role \in [Role -> [live : BOOLEAN, manages : BOOLEAN]]
      /\ realm \subseteq User
  BY Realms DEF AccountShape, Account
<1>1. PICK q : q = req[r] /\ q \in Asked /\ Placed(q) /\ q.op \in Edits /\ q.step = "write" /\ InRealm(q, realm) /\ Pending(q, realm)
  BY <1>0 DEF Editing
<1>2. \/ EditWrite(r) /\ q.op = "edit"
      \/ BlockWrite(r) /\ q.op = "block"
      \/ DeleteUserWrite(r) /\ q.op = "delete"
      \/ PatchRoleWrite(r) /\ q.op = "edit_role"
      \/ DeleteRoleWrite(r) /\ q.op = "delete_role"
  <2>1. ~ WrongPassword(r) /\ ~ RightPassword(r) /\ ~ IssueTokenPair(r) /\ ~ RotateRefresh(r)
    BY <1>1 DEF WrongPassword, RightPassword, IssueTokenPair, RotateRefresh, At, Edits
  <2>2. ~ RevokeAllRefresh(r) /\ ~ ResetWrite(r) /\ ~ InsertUser(r)
    BY <1>1 DEF RevokeAllRefresh, ResetWrite, InsertUser, At, Edits
  <2>3. /\ EditWrite(r) => q.op = "edit"
        /\ BlockWrite(r) => q.op = "block"
        /\ DeleteUserWrite(r) => q.op = "delete"
        /\ PatchRoleWrite(r) => q.op = "edit_role"
        /\ DeleteRoleWrite(r) => q.op = "delete_role"
    BY <1>1 DEF EditWrite, BlockWrite, DeleteUserWrite, PatchRoleWrite, DeleteRoleWrite, At
  <2>4. QED BY <2>1, <2>2, <2>3 DEF Continue
<1>3. CASE q.op \in {"edit", "block", "delete"}
  <2>1. q.user \in realm /\ q.user \in User /\ Realm(q.user) = realm /\ UNCHANGED role
    BY <1>1, <1>2, <1>3, WhoseEdit, Realms DEF EditWrite, BlockWrite, DeleteUserWrite
  <2>2. \A v \in realm \ {q.user} : user'[v] = user[v]
    BY <1>0, <1>1, <1>2, <1>3, <2>1 DEF EditWrite, BlockWrite, DeleteUserWrite, SetUser
  <2>3. \A v \in realm \ {q.user} : Manages(v) => Manages(v)'
    BY <2>1, <2>2 DEF Manages, Live
  <2>4. CASE OthersManage(q.user)
    BY <2>1, <2>3, <2>4 DEF OthersManage
  <2>5. CASE ~ OthersManage(q.user)
    <3>1. /\ q.op = "edit" /\ EditWrite(r) /\ q.to # "block"
          /\ q.role = "none" \/ (role[q.role].live /\ role[q.role].manages)
      BY <1>1, <1>2, <1>3, <2>5 DEF Pending
    <3>2. w = q.user
      BY <2>1, <2>5 DEF OthersManage
    <3> DEFINE a == IF q.role = "none" THEN user[w].role ELSE q.role
               b == IF q.to = "same" THEN user[w].blocked ELSE q.to = "block"
    <3>3. SetUser(w, [user[w] EXCEPT !.role = a, !.blocked = b])
      BY <1>0, <1>1, <3>1, <3>2 DEF EditWrite, Account
    <3>4. ~ b /\ role[a].live /\ role[a].manages
      BY <3>1 DEF Manages
    <3> HIDE DEF a, b
    <3>5. user[w] \in Account /\ Live(w) /\ w \in User
      BY <1>0 DEF Manages
    <3>6. user'[w] = [user[w] EXCEPT !.role = a, !.blocked = b]
      BY <1>0, <3>3, <3>5 DEF SetUser
    <3>7. user'[w].state = "live" /\ user'[w].role = a /\ user'[w].blocked = b
      BY <3>5, <3>6 DEF Live, Account
    <3>8. Manages(w)'
      BY <2>1, <3>4, <3>7 DEF Manages, Live
    <3>9. QED BY <3>8
  <2>6. QED BY <2>4, <2>5
<1>4. CASE q.op \in {"edit_role", "delete_role"}
  <2>1. q.role \in RealmRoles(realm) /\ q.role \in Role /\ UNCHANGED user
    BY <1>1, <1>2, <1>4, WhoseEdit, Realms DEF PatchRoleWrite, DeleteRoleWrite, Role
  <2>2. \A x \in Role \ {q.role} : role'[x] = role[x]
    BY <1>0, <1>1, <1>2, <1>4, <2>1 DEF PatchRoleWrite, DeleteRoleWrite
  <2>3. \A v \in realm : Live(v) => user[v].role \in Role
    BY <1>0 DEF AccountShape, RolesOf, Role
  <2>4. CASE \E v \in realm : Manages(v) /\ user[v].role # q.role
    <3>1. PICK v \in realm : Manages(v) /\ user[v].role # q.role
      BY <2>4
    <3>2. role'[user[v].role] = role[user[v].role]
      BY <2>2, <2>3, <3>1 DEF Manages
    <3>3. Manages(v)'
      BY <2>1, <3>1, <3>2 DEF Manages, Live
    <3>4. QED BY <3>3
  <2>5. CASE q.op = "edit_role" /\ q.to = "manager"
    <3>1. role' = [role EXCEPT ![q.role].manages = IF role[q.role].live THEN TRUE ELSE role[q.role].manages]
      BY <1>0, <1>1, <1>2, <2>1, <2>5 DEF PatchRoleWrite
    <3>2. role[user[w].role].live /\ role[user[w].role].manages /\ user[w].role \in Role
      BY <2>3 DEF Manages
    <3>3. role'[user[w].role].live /\ role'[user[w].role].manages
      <4>1. CASE user[w].role # q.role
        BY <2>2, <3>2, <4>1
      <4>2. CASE user[w].role = q.role
        <5>1. role' = [role EXCEPT ![q.role].manages = TRUE]
          BY <3>1, <3>2, <4>2
        <5>2. QED BY <1>0, <3>2, <4>2, <5>1
      <4>3. QED BY <4>1, <4>2
    <3>4. Manages(w)'
      BY <2>1, <3>3 DEF Manages, Live
    <3>5. QED BY <3>4
  <2>6. QED BY <1>1, <1>4, <2>4, <2>5 DEF Pending
<1>5. QED BY <1>1, <1>3, <1>4 DEF Edits

(* A step that keeps a realm and starts no edit in it.                      *)
LEMMA RealmUndisturbed ==
  ASSUME AccountShape, NEW realm \in {Staff, Operator}, RealmInv(realm), Keeps(realm),
         \A s \in Req : Editing(s, realm)' => Editing(s, realm) /\ (req'[s].step = "write" => req'[s] = req[s])
  PROVE  RealmInv(realm)'
<1>1. \E v \in realm : Manages(v)'
  BY DEF RealmInv, Keeps
<1>2. ASSUME NEW r \in Req, Editing(r, realm)'
      PROVE  \A s \in Req : Editing(s, realm)' => s = r
  BY <1>2 DEF RealmInv
<1>3. ASSUME NEW r \in Req, Editing(r, realm)', req'[r].step = "write"
      PROVE  Pending(req[r], realm)'
  <2>1. PICK q : q = req[r] /\ q \in Asked /\ Placed(q)
    BY DEF AccountShape
  <2>2. req'[r] = q /\ Editing(r, realm) /\ q.step = "write"
    BY <1>3, <2>1
  <2>3. q.op \in Edits /\ InRealm(q, realm) /\ Pending(q, realm)
    BY <2>1, <2>2 DEF Editing, RealmInv
  <2>4. Pending(q, realm)'
    BY <2>1, <2>3, PendingKept
  <2>5. QED BY <2>2, <2>4
<1>4. QED BY <1>1, <1>2, <1>3 DEF RealmInv

LEMMA KeepsUnchanged ==
  ASSUME UNCHANGED <<user, role>>, NEW realm
  PROVE  Keeps(realm)
BY DEF Keeps, Manages, Live

LEMMA ManagerKept ==
  ASSUME AccountShape, NamesInv, ManagerInv, [Next]_vars
  PROVE  ManagerInv'
<1> SUFFICES ASSUME NEW realm \in {Staff, Operator}, realm \notin contested'
             PROVE  RealmInv(realm)'
  BY DEF ManagerInv
<1>0. req \in [Req -> Asked]
  BY DEF AccountShape
<1>1. ASSUME contested \subseteq contested' PROVE RealmInv(realm)
  BY <1>1 DEF ManagerInv
<1>2. ASSUME NEW r \in Req, NEW q, Begun(r, q), q.op \notin Edits, UNCHANGED contested
      PROVE  RealmInv(realm)'
  <2>1. UNCHANGED <<user, role>> /\ req'[r] = q /\ \A s \in Req \ {r} : req'[s] = req[s]
    BY <1>0, <1>2 DEF Begun, book
  <2>2. \A s \in Req : Editing(s, realm)' => Editing(s, realm) /\ req'[s] = req[s]
    BY <1>2, <2>1 DEF Editing
  <2>3. Keeps(realm)
    BY <2>1, KeepsUnchanged
  <2>4. QED BY <1>1, <1>2, <2>2, <2>3, RealmUndisturbed
<1>3. ASSUME NEW r \in Req, NEW q, NEW other \in {Staff, Operator}, EditBegun(r, q, other)
      PROVE  RealmInv(realm)'
  <2>1. /\ UNCHANGED <<user, role>> /\ req'[r] = q /\ \A s \in Req \ {r} : req'[s] = req[s]
        /\ q \in Asked /\ Placed(q) /\ q.op \in Edits /\ req[r].op = "idle"
        /\ q.user \in other \cup {"none"} /\ q.role \in RealmRoles(other) \cup {"none"}
    BY <1>0, <1>3 DEF EditBegun, Begun, book
  <2>2. Keeps(realm) /\ contested \subseteq contested'
    BY <1>3, <2>1, KeepsUnchanged DEF EditBegun
  <2>3. CASE realm # other
    <3>1. ~ InRealm(q, realm)
      BY <2>1, <2>3, Realms DEF InRealm
    <3>2. \A s \in Req : Editing(s, realm)' => Editing(s, realm) /\ req'[s] = req[s]
      BY <2>1, <3>1 DEF Editing
    <3>3. QED BY <1>1, <2>2, <3>2, RealmUndisturbed
  <2>4. CASE realm = other
    <3>1. Asks(q, realm) /\ \A s \in Req : ~ Editing(s, realm)
      BY <1>3, <2>4 DEF EditBegun
    <3>2. PICK w \in realm : Manages(w)
      BY <1>1, <2>2 DEF RealmInv
    <3>3. \A s \in Req : Editing(s, realm)' => s = r
      BY <2>1, <3>1 DEF Editing
    <3>4. Pending(q, realm)
      BY <2>1, <3>1, <3>2, AsksEnough
    <3>5. Pending(q, realm)'
      BY <2>1, <3>4 DEF Pending, OthersManage, Manages, Live
    <3>6. Pending(req[r], realm)'
      BY <2>1, <3>5
    <3>7. \E v \in realm : Manages(v)'
      BY <2>2, <3>2 DEF Keeps
    <3>8. QED BY <3>3, <3>6, <3>7 DEF RealmInv
  <2>5. QED BY <2>3, <2>4
<1>4. ASSUME NEW r \in Req, Continue(r)
      PROVE  RealmInv(realm)'
  <2>1. UNCHANGED contested
    BY <1>4, ContinueRecords
  <2>2. RealmInv(realm) /\ Onward(r)
    BY <1>1, <1>4, <2>1, ContinueMoves
  <2>3. \A s \in Req : Editing(s, realm)' => Editing(s, realm) /\ (req'[s].step = "write" => s # r /\ req'[s] = req[s])
    BY <2>2 DEF Onward, Editing, InRealm, Idle, Edits
  <2>4. CASE ~ Editing(r, realm) \/ req[r].step # "write"
    <3>1. Keeps(realm)
      BY <1>4, <2>4, ContinueKeeps
    <3>2. QED BY <2>2, <2>3, <3>1, RealmUndisturbed
  <2>5. CASE Editing(r, realm) /\ req[r].step = "write"
    <3>1. Pending(req[r], realm) /\ (\A s \in Req : Editing(s, realm) => s = r) /\ \E w \in realm : Manages(w)
      BY <2>2, <2>5 DEF RealmInv
    <3>2. \E v \in realm : Manages(v)'
      BY <1>4, <2>5, <3>1, WriteLeavesOne
    <3>3. \A s \in Req : Editing(s, realm)' => s = r /\ req'[s].step # "write"
      BY <2>3, <3>1
    <3>4. QED BY <3>2, <3>3 DEF RealmInv
  <2>6. QED BY <2>4, <2>5
<1>5. CASE Once
  <2>1. UNCHANGED <<req, contested>> /\ Keeps(realm)
    BY <1>5, OnceMoves, OnceKeeps
  <2>2. \A s \in Req : Editing(s, realm)' => Editing(s, realm) /\ req'[s] = req[s]
    BY <2>1 DEF Editing
  <2>3. QED BY <1>1, <2>1, <2>2, RealmUndisturbed
<1>6. CASE UNCHANGED vars
  <2>1. UNCHANGED <<user, role, req, contested>>
    BY <1>6 DEF vars
  <2>2. Keeps(realm) /\ \A s \in Req : Editing(s, realm)' => Editing(s, realm) /\ req'[s] = req[s]
    BY <2>1, KeepsUnchanged DEF Editing
  <2>3. QED BY <1>1, <2>1, <2>2, RealmUndisturbed
<1>7. ASSUME NEW r \in Req, NEW q, LoginBegun(r, q) \/ QuietBegun(r, q) \/ CreateBegun(r, q)
      PROVE  RealmInv(realm)'
  BY <1>2, <1>7 DEF LoginBegun, QuietBegun, CreateBegun, Edits
<1>8. QED BY <1>3, <1>4, <1>5, <1>6, <1>7, StepsOfAccounts

LEMMA ManagerInit == Init => ManagerInv
<1> SUFFICES ASSUME Init, NEW realm \in {Staff, Operator} PROVE RealmInv(realm)
  BY DEF ManagerInv
<1>1. \A r \in Req : ~ Editing(r, realm)
  BY DEF Init, Editing, Idle, Edits
<1>2. Owner \in User /\ Root \in User /\ OwnerRole \in Role /\ RootRole \in Role /\ Owner # Root
  BY RealmAssumption DEF User, Role
<1>3. \A x \in {OwnerRole, RootRole} : role[x].live /\ role[x].manages
  BY <1>2 DEF Init
<1>4. user[Owner].state = "live" /\ user[Owner].role = OwnerRole /\ ~ user[Owner].blocked
  BY <1>2 DEF Init, NoUser
<1>5. user[Root].state = "live" /\ user[Root].role = RootRole /\ ~ user[Root].blocked
  BY <1>2 DEF Init, NoUser
<1>6. Manages(Owner) /\ Manages(Root)
  BY <1>3, <1>4, <1>5 DEF Manages, Live
<1>7. \E v \in realm : Manages(v)
  BY <1>6, RealmAssumption
<1>8. QED BY <1>1, <1>7 DEF RealmInv

(* Each realm keeps somebody who manages it, whatever is asked for, unless  *)
(* two edits of it overlapped or the platform blocked one of its employees. *)
THEOREM SomebodyManages == Spec => []ManagerRemains
<1>1. AccountShape /\ NamesInv /\ ManagerInv /\ [Next]_vars => (AccountShape /\ NamesInv /\ ManagerInv)'
  BY AccountKept, NamesKept, ManagerKept
<1>2. ManagerInv => ManagerRemains
  BY DEF ManagerInv, RealmInv, ManagerRemains
<1>3. QED BY AccountsInit, CountInit, ManagerInit, <1>1, <1>2, PTL DEF Spec
-----------------------------------------------------------------------------
(***************************************************************************)
(* The dashboard: what InOrder makes of a strict total order.               *)
(***************************************************************************)
(* ahead[x]: the elements of S that come before x.                          *)
Ranking(S, ahead) ==
  /\ IsFiniteSet(S) /\ ahead \in [S -> SUBSET S]
  /\ \A x \in S : x \notin ahead[x]
  /\ \A x, y \in S : x # y => x \in ahead[y] \/ y \in ahead[x]
  /\ \A x, y \in S : x \in ahead[y] => ahead[x] \subseteq ahead[y]

(* o lists S, each element once, none before one that is ahead of it.       *)
Lists(o, S, ahead) ==
  /\ o \in Seq(S) /\ Len(o) = Cardinality(S)
  /\ \A i \in DOMAIN o : Cardinality(ahead[o[i]]) = i - 1
  /\ \A i, j \in DOMAIN o : i < j => o[i] \in ahead[o[j]]
  /\ \A x \in S : \E i \in DOMAIN o : o[i] = x

(* An element has the place that the number of elements ahead of it gives.  *)
LEMMA PlaceIsRank ==
  ASSUME NEW S, NEW ahead, Ranking(S, ahead)
  PROVE  /\ Cardinality(S) \in Nat
         /\ \A x \in S : Cardinality(ahead[x]) \in 0 .. Cardinality(S) - 1
         /\ \A x, y \in S : x \in ahead[y] => Cardinality(ahead[x]) < Cardinality(ahead[y])
         /\ \A n \in 1 .. Cardinality(S) : \E x \in S : Cardinality(ahead[x]) = n - 1
<1>1. Cardinality(S) \in Nat
  BY FS_CardinalityType DEF Ranking
<1>2. ASSUME NEW x \in S
      PROVE  IsFiniteSet(ahead[x]) /\ Cardinality(ahead[x]) \in Nat /\ Cardinality(ahead[x]) <= Cardinality(S) - 1
  <2>1. IsFiniteSet(S \ {x}) /\ Cardinality(S \ {x}) = Cardinality(S) - 1
    BY <1>1, FS_RemoveElement DEF Ranking
  <2>2. ahead[x] \in SUBSET (S \ {x})
    BY DEF Ranking
  <2>3. IsFiniteSet(ahead[x]) /\ Cardinality(ahead[x]) <= Cardinality(S \ {x})
    BY <2>1, <2>2, FS_Subset
  <2>4. Cardinality(ahead[x]) \in Nat
    BY <2>3, FS_CardinalityType
  <2>5. QED BY <2>1, <2>3, <2>4
<1>3. ASSUME NEW x \in S, NEW y \in S, x \in ahead[y]
      PROVE  Cardinality(ahead[x]) < Cardinality(ahead[y])
  <2>1. ahead[x] \in SUBSET ahead[y] /\ ahead[x] # ahead[y]
    BY <1>3 DEF Ranking
  <2>2. Cardinality(ahead[x]) <= Cardinality(ahead[y]) /\ Cardinality(ahead[x]) # Cardinality(ahead[y])
    BY <1>2, <2>1, FS_Subset
  <2>3. QED BY <1>2, <2>2
<1> DEFINE places == 0 .. Cardinality(S) - 1
           rank   == [x \in S |-> Cardinality(ahead[x])]
<1>4. IsFiniteSet(places) /\ Cardinality(places) = Cardinality(S)
  BY <1>1, FS_Interval
<1>5. rank \in [S -> places]
  BY <1>1, <1>2
<1>6. \A x, y \in S : rank[x] = rank[y] => x = y
  <2> SUFFICES ASSUME NEW x \in S, NEW y \in S, rank[x] = rank[y], x # y PROVE FALSE
    OBVIOUS
  <2>1. x \in ahead[y] \/ y \in ahead[x]
    BY DEF Ranking
  <2>2. rank[x] = Cardinality(ahead[x]) /\ rank[y] = Cardinality(ahead[y])
    OBVIOUS
  <2>3. QED BY <1>2, <1>3, <2>1, <2>2
<1>7. rank \in Injection(S, places)
  BY <1>5, <1>6 DEF Injection, IsInjective
<1>8. rank \in Surjection(S, places)
  BY <1>4, <1>7, FS_Injection
<1>9. \A p \in places : \E x \in S : rank[x] = p
  BY <1>8 DEF Surjection
<1>10. ASSUME NEW n \in 1 .. Cardinality(S)
       PROVE  \E x \in S : Cardinality(ahead[x]) = n - 1
  <2>1. n - 1 \in places
    BY <1>1
  <2>2. PICK x \in S : rank[x] = n - 1
    BY <1>9, <2>1
  <2>3. QED BY <2>2
<1>11. \A x \in S : Cardinality(ahead[x]) \in 0 .. Cardinality(S) - 1
  BY <1>1, <1>2
<1>12. QED BY <1>1, <1>3, <1>10, <1>11

LEMMA InOrderLists ==
  ASSUME NEW S, NEW ahead, Ranking(S, ahead)
  PROVE  Lists(InOrder(ahead), S, ahead)
<1> DEFINE n == Cardinality(S)
           o == InOrder(ahead)
<1>1. /\ n \in Nat
      /\ \A x \in S : Cardinality(ahead[x]) \in 0 .. n - 1
      /\ \A x, y \in S : x \in ahead[y] => Cardinality(ahead[x]) < Cardinality(ahead[y])
      /\ \A i \in 1 .. n : \E x \in S : Cardinality(ahead[x]) = i - 1
  BY PlaceIsRank
<1>2. o = [i \in 1 .. n |-> CHOOSE x \in S : Cardinality(ahead[x]) = i - 1]
  <2>1. DOMAIN ahead = S
    BY DEF Ranking
  <2>2. QED BY <2>1 DEF InOrder
<1>3. ASSUME NEW i \in 1 .. n
      PROVE  o[i] \in S /\ Cardinality(ahead[o[i]]) = i - 1
  <2>1. o[i] = CHOOSE x \in S : Cardinality(ahead[x]) = i - 1
    BY <1>2
  <2>2. QED BY <1>1, <2>1
<1>4. o \in [1 .. n -> S] /\ DOMAIN o = 1 .. n
  <2> HIDE DEF o
  <2>1. QED BY <1>2, <1>3
<1>5. o \in Seq(S) /\ Len(o) = n
  <2> HIDE DEF o, n
  <2>1. o \in Seq(S)
    BY <1>1, <1>4, SeqDef
  <2>2. QED BY <1>1, <1>4, <2>1, LenProperties
<1>6. ASSUME NEW i \in 1 .. n, NEW j \in 1 .. n, i < j
      PROVE  o[i] \in ahead[o[j]]
  <2>1. o[i] \in S /\ o[j] \in S /\ Cardinality(ahead[o[i]]) = i - 1 /\ Cardinality(ahead[o[j]]) = j - 1
    BY <1>3
  <2>2. o[i] # o[j]
    BY <1>1, <1>6, <2>1
  <2>3. o[i] \in ahead[o[j]] \/ o[j] \in ahead[o[i]]
    BY <2>1, <2>2 DEF Ranking
  <2>4. o[j] \notin ahead[o[i]]
    <3>1. SUFFICES ASSUME o[j] \in ahead[o[i]] PROVE FALSE
      OBVIOUS
    <3>2. Cardinality(ahead[o[j]]) < Cardinality(ahead[o[i]])
      BY <1>1, <2>1, <3>1
    <3>3. QED BY <1>1, <1>6, <2>1, <3>2
  <2>5. QED BY <2>3, <2>4
<1>7. ASSUME NEW x \in S
      PROVE  \E i \in 1 .. n : o[i] = x
  <2>1. PICK r \in 0 .. n - 1 : r = Cardinality(ahead[x])
    BY <1>1
  <2>2. r + 1 \in 1 .. n /\ (r + 1) - 1 = r
    BY <1>1
  <2>3. o[r + 1] \in S /\ Cardinality(ahead[o[r + 1]]) = r
    BY <1>3, <2>2
  <2>4. o[r + 1] = x
    <3>1. SUFFICES ASSUME o[r + 1] # x PROVE FALSE
      OBVIOUS
    <3>2. o[r + 1] \in ahead[x] \/ x \in ahead[o[r + 1]]
      BY <2>3, <3>1 DEF Ranking
    <3>3. r < r
      BY <1>1, <2>1, <2>3, <3>2
    <3>4. QED BY <3>3
  <2>5. QED BY <2>2, <2>4
<1>8. QED
  <2> HIDE DEF o, n
  <2>1. (\A i, j \in DOMAIN o : i < j => o[i] \in ahead[o[j]]) /\ \A x \in S : \E i \in DOMAIN o : o[i] = x
    BY <1>4, <1>6, <1>7
  <2>2. o \in Seq(S) /\ Len(o) = Cardinality(S) /\ \A i \in DOMAIN o : Cardinality(ahead[o[i]]) = i - 1
    BY <1>3, <1>4, <1>5 DEF n
  <2>3. Lists(o, S, ahead)
    BY <2>1, <2>2 DEF Lists
  <2>4. QED BY <2>3 DEF o

(* What is listed is listed once.                                           *)
LEMMA ListedOnce ==
  ASSUME NEW S, NEW ahead, Ranking(S, ahead), NEW o, Lists(o, S, ahead)
  PROVE  /\ DOMAIN o = 1 .. Cardinality(S) /\ Cardinality(S) \in Nat
         /\ \A i \in DOMAIN o : o[i] \in S
         /\ \A i, j \in DOMAIN o : o[i] = o[j] => i = j
<1>1. o \in Seq(S) /\ Len(o) = Cardinality(S) /\ Cardinality(S) \in Nat
  BY FS_CardinalityType DEF Lists, Ranking
<1>2. DOMAIN o = 1 .. Cardinality(S) /\ \A i \in DOMAIN o : o[i] \in S
  BY <1>1
<1>3. ASSUME NEW i \in DOMAIN o, NEW j \in DOMAIN o, i < j, o[i] = o[j] PROVE FALSE
  <2>1. o[i] \in ahead[o[j]]
    BY <1>3 DEF Lists
  <2>2. QED BY <1>2, <1>3, <2>1 DEF Ranking
<1>4. ASSUME NEW i \in DOMAIN o, NEW j \in DOMAIN o, o[i] = o[j] PROVE i = j
  <2>1. i \in Int /\ j \in Int
    BY <1>1, <1>2
  <2>2. i < j \/ j < i \/ i = j
    BY <2>1
  <2>3. QED BY <1>3, <1>4, <2>2
<1>5. QED BY <1>1, <1>2, <1>4

LEMMA RisingLists ==
  ASSUME NEW S, IsFiniteSet(S), S \subseteq Int
  PROVE  /\ Lists(Rising(S), S, [x \in S |-> {y \in S : y < x}])
         /\ Ranking(S, [x \in S |-> {y \in S : y < x}])
<1> DEFINE ahead == [x \in S |-> {y \in S : y < x}]
<1>1. ahead \in [S -> SUBSET S] /\ \A x \in S : x \in Int
  OBVIOUS
<1>2. \A x, y \in S : x \in ahead[y] <=> x < y
  OBVIOUS
<1> HIDE DEF ahead
<1>3. \A x, y \in S : x \in ahead[y] => ahead[x] \subseteq ahead[y]
  <2> SUFFICES ASSUME NEW x \in S, NEW y \in S, x \in ahead[y], NEW z \in ahead[x] PROVE z \in ahead[y]
    OBVIOUS
  <2>1. z \in S /\ x \in Int /\ y \in Int /\ z \in Int
    BY <1>1
  <2>2. QED BY <1>2, <2>1
<1>4. (\A x \in S : x \notin ahead[x]) /\ \A x, y \in S : x # y => x \in ahead[y] \/ y \in ahead[x]
  BY <1>1, <1>2
<1>5. Ranking(S, ahead)
  BY <1>1, <1>3, <1>4 DEF Ranking
<1>6. Lists(InOrder(ahead), S, ahead)
  BY <1>5, InOrderLists
<1>7. QED BY <1>5, <1>6 DEF ahead, Rising

LEMMA FallingLists ==
  ASSUME NEW S, IsFiniteSet(S), S \subseteq Int
  PROVE  /\ Lists(Falling(S), S, [x \in S |-> {y \in S : y > x}])
         /\ Ranking(S, [x \in S |-> {y \in S : y > x}])
<1> DEFINE ahead == [x \in S |-> {y \in S : y > x}]
<1>1. ahead \in [S -> SUBSET S] /\ \A x \in S : x \in Int
  OBVIOUS
<1>2. \A x, y \in S : x \in ahead[y] <=> x > y
  OBVIOUS
<1> HIDE DEF ahead
<1>3. \A x, y \in S : x \in ahead[y] => ahead[x] \subseteq ahead[y]
  <2> SUFFICES ASSUME NEW x \in S, NEW y \in S, x \in ahead[y], NEW z \in ahead[x] PROVE z \in ahead[y]
    OBVIOUS
  <2>1. z \in S /\ x \in Int /\ y \in Int /\ z \in Int
    BY <1>1
  <2>2. QED BY <1>2, <2>1
<1>4. (\A x \in S : x \notin ahead[x]) /\ \A x, y \in S : x # y => x \in ahead[y] \/ y \in ahead[x]
  BY <1>1, <1>2
<1>5. Ranking(S, ahead)
  BY <1>1, <1>3, <1>4 DEF Ranking
<1>6. Lists(InOrder(ahead), S, ahead)
  BY <1>5, InOrderLists
<1>7. QED BY <1>5, <1>6 DEF ahead, Falling

(* The first n of a sequence, or all of it.                                 *)
LEMMA TopOf ==
  ASSUME NEW A, NEW s \in Seq(A), NEW n \in Nat
  PROVE  /\ Top(n, s) \in Seq(A)
         /\ \/ Top(n, s) = s /\ Len(s) <= n
            \/ Len(Top(n, s)) = n /\ n < Len(s)
         /\ Len(Top(n, s)) <= Len(s)
         /\ \A i \in 1 .. Len(Top(n, s)) : Top(n, s)[i] = s[i]
<1> DEFINE m == Min({n, Len(s)})
<1>1. m = IF n <= Len(s) THEN n ELSE Len(s)
  <2>1. \E x \in {n, Len(s)} : \A y \in {n, Len(s)} : x <= y
    OBVIOUS
  <2>2. m \in {n, Len(s)} /\ \A y \in {n, Len(s)} : m <= y
    BY <2>1 DEF Min
  <2>3. QED BY <2>2
<1>2. m \in 0 .. Len(s)
  BY <1>1
<1> HIDE DEF m
<1>3. Top(n, s) = SubSeq(s, 1, m)
  BY DEF Top, m
<1>4. /\ SubSeq(s, 1, m) \in Seq(A) /\ Len(SubSeq(s, 1, m)) = m
      /\ \A i \in 1 .. m : SubSeq(s, 1, m)[i] = s[i]
  BY <1>2
<1>5. CASE n < Len(s)
  BY <1>1, <1>3, <1>4, <1>5
<1>6. CASE ~ n < Len(s)
  <2>1. m = Len(s)
    BY <1>1, <1>6
  <2>2. SubSeq(s, 1, m) = s
    BY <1>4, <2>1, SeqEqual
  <2>3. QED BY <1>3, <1>4, <1>6, <2>1, <2>2
<1>7. QED BY <1>5, <1>6

-----------------------------------------------------------------------------
(***************************************************************************)
(* The feed.                                                                *)
(***************************************************************************)
Ident  == Nat \ {0}

LogInv == IsFiniteSet(log) /\ \A e \in log : e.id \in Ident

(* What a walk got goes down to its cursor; what it may still get is below. *)
Walked(w, entries) ==
  /\ w.got \in Seq(Ident) /\ w.since \subseteq entries
  /\ w.cursor = IF w.got = <<>> THEN 0 ELSE w.got[Len(w.got)]
  /\ \A i, j \in DOMAIN w.got : i < j => w.got[i] > w.got[j]
  /\ \A e \in w.since : e.module \in w.may =>
       (\E i \in DOMAIN w.got : w.got[i] = e.id) \/ (w.state # "done" /\ (w.cursor # 0 => e.id < w.cursor))
FeedInv == LogInv /\ Walked(feed, log)

(* A page: what may be read below the cursor, or the newest Limit of it.    *)
LEMMA PageOf ==
  ASSUME LogInv, NEW m, NEW cursor \in Nat
  PROVE  LET page == Page(m, cursor)
         IN  /\ page \in Seq(Ident)
             /\ \A i \in DOMAIN page : cursor # 0 => page[i] < cursor
             /\ \A i, j \in DOMAIN page : i < j => page[i] > page[j]
             /\ \A e \in Before(cursor) : e.module \in Filtered(m) =>
                  \/ \E i \in DOMAIN page : page[i] = e.id
                  \/ Len(page) = Limit /\ page # <<>> /\ e.id < page[Len(page)]
<1> DEFINE entries == {x \in Before(cursor) : x.module \in Filtered(m)}
           ids  == {e.id : e \in entries}
           all  == Falling(ids)
           page == Page(m, cursor)
<1>1. IsFiniteSet(entries)
  <2>1. entries \in SUBSET log
    BY DEF Before
  <2>2. QED BY <2>1, FS_Subset DEF LogInv
<1>2. ids \subseteq Ident /\ \A i \in ids : cursor # 0 => i < cursor
  BY DEF LogInv, Before
<1>3. IsFiniteSet(ids)
  <2> DEFINE g == [e \in entries |-> e.id]
  <2>1. g \in Surjection(entries, ids)
    BY DEF Surjection
  <2>2. QED BY <1>1, <2>1, FS_Surjection
<1>4. Limit \in Nat \ {0}
  BY LimitsAssumption
<1>5. page = Top(Limit, all)
  BY DEF Page
<1>6. \A e \in Before(cursor) : e.module \in Filtered(m) => e.id \in ids
  OBVIOUS
<1> HIDE DEF ids, entries, all, page
<1>7. PICK ahead : ahead = [x \in ids |-> {y \in ids : y > x}]
  OBVIOUS
<1>8. Lists(all, ids, ahead) /\ Ranking(ids, ahead)
  <2>1. ids \subseteq Int
    BY <1>2 DEF Ident
  <2>2. /\ Lists(Falling(ids), ids, [x \in ids |-> {y \in ids : y > x}])
        /\ Ranking(ids, [x \in ids |-> {y \in ids : y > x}])
    BY <1>3, <2>1, FallingLists
  <2>3. QED BY <1>7, <2>2 DEF all
<1>9. /\ all \in Seq(Ident) /\ Len(all) \in Nat /\ DOMAIN all = 1 .. Len(all)
      /\ \A i \in DOMAIN all : all[i] \in ids
      /\ \A i, j \in DOMAIN all : i < j => all[i] > all[j]
      /\ \A x \in ids : \E i \in DOMAIN all : all[i] = x
  <2>1. all \in Seq(ids)
    BY <1>8 DEF Lists
  <2>2. Len(all) \in Nat /\ DOMAIN all = 1 .. Len(all) /\ \A i \in DOMAIN all : all[i] \in ids
    BY <2>1
  <2>3. all \in Seq(Ident)
    BY <1>2, <2>1
  <2>4. \A i, j \in DOMAIN all : i < j => all[i] > all[j]
    BY <1>7, <1>8, <2>2 DEF Lists
  <2>5. QED BY <1>8, <2>2, <2>3, <2>4 DEF Lists
<1>10. /\ page \in Seq(Ident)
       /\ \/ page = all /\ Len(all) <= Limit
          \/ Len(page) = Limit /\ Limit < Len(all)
       /\ Len(page) <= Len(all)
       /\ \A i \in 1 .. Len(page) : page[i] = all[i]
  BY <1>4, <1>5, <1>9, TopOf
<1>11. DOMAIN page = 1 .. Len(page) /\ Len(page) \in Nat /\ \A i \in DOMAIN page : i \in DOMAIN all /\ page[i] = all[i]
  BY <1>9, <1>10
<1>12. \A i \in DOMAIN page : cursor # 0 => page[i] < cursor
  BY <1>2, <1>9, <1>11
<1>13. \A i, j \in DOMAIN page : i < j => page[i] > page[j]
  BY <1>9, <1>11
<1>14. ASSUME NEW e \in Before(cursor), e.module \in Filtered(m), ~ \E i \in DOMAIN page : page[i] = e.id
       PROVE  Len(page) = Limit /\ page # <<>> /\ e.id < page[Len(page)]
  <2>1. PICK i \in DOMAIN all : all[i] = e.id
    BY <1>6, <1>9, <1>14
  <2>2. i \notin DOMAIN page
    BY <1>11, <1>14, <2>1
  <2>3. i > Len(page) /\ i \in Nat
    BY <1>9, <1>11, <2>2
  <2>4. Len(page) = Limit /\ Limit < Len(all)
    BY <1>9, <1>10, <2>2
  <2>5. Len(page) \in DOMAIN page /\ page # <<>>
    BY <1>4, <1>11, <2>4
  <2>6. all[Len(page)] > all[i]
    BY <1>9, <1>11, <2>3, <2>5
  <2>7. all[Len(page)] \in Nat /\ all[i] \in Nat /\ page[Len(page)] = all[Len(page)]
    BY <1>2, <1>9, <1>11, <2>1, <2>5 DEF Ident
  <2>8. QED BY <2>1, <2>4, <2>5, <2>6, <2>7
<1>15. QED
  BY <1>10, <1>12, <1>13, <1>14 DEF page

(* The walk w goes on with the page p of what it may read.                  *)
WalksOn(w, v, p, may) ==
  /\ v.got = w.got \o p /\ v.since = w.since /\ v.may = w.may \cap may
  /\ v.cursor = IF p = <<>> THEN w.cursor ELSE p[Len(p)]
  /\ v.state = IF Len(p) = Limit THEN "open" ELSE "done"
  /\ p \in Seq(Ident)
  /\ \A i \in DOMAIN p : w.cursor # 0 => p[i] < w.cursor
  /\ \A i, j \in DOMAIN p : i < j => p[i] > p[j]
  /\ \A e \in w.since : (w.cursor # 0 => e.id < w.cursor) /\ e.module \in may =>
       \/ \E i \in DOMAIN p : p[i] = e.id
       \/ Len(p) = Limit /\ p # <<>> /\ e.id < p[Len(p)]

LEMMA WalkGoesOn ==
  ASSUME NEW w, NEW v, NEW p, NEW may, NEW entries, Walked(w, entries), WalksOn(w, v, p, may)
  PROVE  Walked(v, entries)
<1>1. /\ w.got \in Seq(Ident) /\ p \in Seq(Ident)
      /\ DOMAIN w.got = 1 .. Len(w.got) /\ DOMAIN p = 1 .. Len(p) /\ Len(w.got) \in Nat /\ Len(p) \in Nat
  BY DEF Walked, WalksOn
<1> DEFINE n == Len(w.got)
           got == w.got \o p
<1>2. /\ got \in Seq(Ident) /\ Len(got) = n + Len(p) /\ DOMAIN got = 1 .. n + Len(p)
      /\ \A i \in 1 .. n + Len(p) : got[i] = IF i <= n THEN w.got[i] ELSE p[i - n]
  BY <1>1
<1>3. v.got = got
  BY DEF WalksOn
<1> HIDE DEF got
<1>4. \A i \in DOMAIN w.got : w.got[i] \in Ident
  BY <1>1
<1>5. \A j \in DOMAIN p : p[j] \in Ident
  BY <1>1
<1>6. \A i \in DOMAIN w.got, j \in DOMAIN p : w.got[i] > p[j]
  <2> SUFFICES ASSUME NEW i \in DOMAIN w.got, NEW j \in DOMAIN p PROVE w.got[i] > p[j]
    OBVIOUS
  <2>1. w.got # <<>> /\ n \in DOMAIN w.got
    BY <1>1
  <2>2. w.cursor = w.got[n] /\ w.cursor # 0
    BY <1>4, <2>1 DEF Walked, Ident
  <2>3. p[j] < w.cursor
    BY <2>2 DEF WalksOn
  <2>4. i = n \/ w.got[i] > w.got[n]
    BY <1>1, <2>1 DEF Walked
  <2>5. w.got[i] \in Nat /\ w.got[n] \in Nat /\ p[j] \in Nat
    BY <1>4, <1>5, <2>1 DEF Ident
  <2>6. QED BY <2>2, <2>3, <2>4, <2>5
<1>7. ASSUME NEW i \in DOMAIN got, NEW j \in DOMAIN got, i < j
      PROVE  got[i] > got[j]
  <2>1. i \in 1 .. n + Len(p) /\ j \in 1 .. n + Len(p)
    BY <1>2
  <2>2. CASE j <= n
    <3>1. i \in DOMAIN w.got /\ j \in DOMAIN w.got /\ got[i] = w.got[i] /\ got[j] = w.got[j]
      BY <1>1, <1>2, <1>7, <2>1, <2>2
    <3>2. w.got[i] > w.got[j]
      BY <1>7, <3>1 DEF Walked
    <3>3. QED BY <3>1, <3>2
  <2>3. CASE i <= n /\ ~ j <= n
    <3>1. i \in DOMAIN w.got /\ j - n \in DOMAIN p /\ got[i] = w.got[i] /\ got[j] = p[j - n]
      BY <1>1, <1>2, <2>1, <2>3
    <3>2. QED BY <1>6, <3>1
  <2>4. CASE ~ i <= n
    <3>0. ~ j <= n
      BY <1>1, <1>7, <2>1, <2>4
    <3>1. i - n \in DOMAIN p /\ j - n \in DOMAIN p /\ i - n < j - n
      BY <1>1, <1>7, <2>1, <2>4, <3>0
    <3>2. got[i] = p[i - n] /\ got[j] = p[j - n]
      BY <1>2, <2>1, <2>4, <3>0
    <3>3. p[i - n] > p[j - n]
      BY <3>1 DEF WalksOn
    <3>4. QED BY <3>2, <3>3
  <2>5. QED BY <2>2, <2>3, <2>4
<1>8. v.cursor = IF v.got = <<>> THEN 0 ELSE v.got[Len(v.got)]
  <2>1. CASE p = <<>>
    <3>1. got = w.got
      BY <1>1, <2>1 DEF got
    <3>2. QED BY <1>3, <2>1, <3>1 DEF Walked, WalksOn
  <2>2. CASE p # <<>>
    <3>1. Len(p) \in 1 .. Len(p)
      BY <1>1, <2>2
    <3>2. n + Len(p) \in 1 .. n + Len(p) /\ ~ n + Len(p) <= n /\ (n + Len(p)) - n = Len(p)
      BY <1>1, <3>1
    <3>3. got[Len(got)] = p[Len(p)] /\ got # <<>>
      BY <1>2, <3>2
    <3>4. QED BY <1>3, <2>2, <3>3 DEF WalksOn
  <2>3. QED BY <2>1, <2>2
<1>9. ASSUME NEW e \in v.since, e.module \in v.may
      PROVE  (\E i \in DOMAIN got : got[i] = e.id) \/ (v.state # "done" /\ (v.cursor # 0 => e.id < v.cursor))
  <2>1. e \in w.since /\ e.module \in w.may /\ e.module \in may
    BY <1>9 DEF WalksOn
  <2>2. CASE \E i \in DOMAIN w.got : w.got[i] = e.id
    <3>1. PICK i \in DOMAIN w.got : w.got[i] = e.id
      BY <2>2
    <3>2. i \in DOMAIN got /\ got[i] = e.id
      BY <1>1, <1>2, <3>1
    <3>3. QED BY <3>2
  <2>3. CASE w.cursor # 0 => e.id < w.cursor
    <3>1. CASE \E i \in DOMAIN p : p[i] = e.id
      <4>1. PICK i \in DOMAIN p : p[i] = e.id
        BY <3>1
      <4>2. n + i \in 1 .. n + Len(p) /\ ~ n + i <= n /\ (n + i) - n = i
        BY <1>1
      <4>3. n + i \in DOMAIN got /\ got[n + i] = e.id
        BY <1>2, <4>1, <4>2
      <4>4. QED BY <4>3
    <3>2. CASE Len(p) = Limit /\ p # <<>> /\ e.id < p[Len(p)]
      BY <3>2 DEF WalksOn
    <3>3. QED BY <2>1, <2>3, <3>1, <3>2 DEF WalksOn
  <2>4. QED BY <2>1, <2>2, <2>3 DEF Walked
<1>10. v.since \subseteq entries
  BY DEF Walked, WalksOn
<1>11. QED BY <1>2, <1>3, <1>7, <1>8, <1>9, <1>10 DEF Walked

LEMMA ReadPageWalks ==
  ASSUME FeedInv, ReadPage
  PROVE  WalksOn(feed, feed', Page(feed.module, feed.cursor), Filtered(feed.module))
<1> DEFINE p == Page(feed.module, feed.cursor)
           may == Filtered(feed.module)
<1>1. PICK w : w = feed
  OBVIOUS
<1>2. LogInv /\ Walked(w, log)
  BY <1>1 DEF FeedInv
<1>3. w.cursor \in Nat
  <2>1. w.got \in Seq(Ident)
    BY <1>2 DEF Walked
  <2>2. w.got # <<>> => w.got[Len(w.got)] \in Nat
    BY <2>1 DEF Ident
  <2>3. QED BY <1>2, <2>2 DEF Walked
<1>4. /\ p \in Seq(Ident)
      /\ \A i \in DOMAIN p : w.cursor # 0 => p[i] < w.cursor
      /\ \A i, j \in DOMAIN p : i < j => p[i] > p[j]
      /\ \A e \in Before(w.cursor) : e.module \in may =>
           \/ \E i \in DOMAIN p : p[i] = e.id
           \/ Len(p) = Limit /\ p # <<>> /\ e.id < p[Len(p)]
  BY <1>1, <1>2, <1>3, PageOf
<1>5. feed' = [state |-> IF Len(p) = Limit THEN "open" ELSE "done", module |-> w.module,
               cursor |-> IF p = <<>> THEN w.cursor ELSE Last(p), got |-> w.got \o p,
               since |-> w.since, may |-> w.may \cap may]
  BY <1>1 DEF ReadPage
<1>6. \A e \in w.since : (w.cursor # 0 => e.id < w.cursor) => e \in Before(w.cursor)
  BY <1>2 DEF Walked, Before
<1> HIDE DEF p, may
<1>7. WalksOn(w, feed', p, may)
  BY <1>4, <1>5, <1>6 DEF WalksOn, Last
<1>8. QED BY <1>1, <1>7 DEF p, may

LEMMA FeedKept == FeedInv /\ [DashboardNext]_dashboardVars => FeedInv'
<1> SUFFICES ASSUME FeedInv, [DashboardNext]_dashboardVars PROVE FeedInv'
  OBVIOUS
<1>1. CASE UNCHANGED <<log, feed>>
  BY <1>1 DEF FeedInv, LogInv, Walked
<1>2. ASSUME NEW id \in Ident, NEW m, NEW action, WriteActivity(id, m, action)
      PROVE  FeedInv'
  <2>1. log' = log \cup {[id |-> id, module |-> m, action |-> action, day |-> day]} /\ feed' = feed
    BY <1>2 DEF WriteActivity
  <2>2. IsFiniteSet(log')
    BY <2>1, FS_AddElement DEF FeedInv, LogInv
  <2>3. \A e \in log' : e.id \in Ident
    BY <2>1 DEF FeedInv, LogInv
  <2>4. Walked(feed, log)
    BY DEF FeedInv
  <2>5. Walked(feed, log')
    BY <2>1, <2>4 DEF Walked
  <2>6. QED BY <2>1, <2>2, <2>3, <2>5 DEF FeedInv, LogInv
<1>3. ASSUME NEW m, OpenFeed(m) PROVE FeedInv'
  <2>1. /\ feed' = [state |-> "open", module |-> m, cursor |-> 0, got |-> <<>>, since |-> log, may |-> Filtered(m)]
        /\ log' = log
    BY <1>3 DEF OpenFeed
  <2>2. Walked(feed', log)
    BY <2>1 DEF Walked
  <2>3. QED BY <2>1, <2>2 DEF FeedInv, LogInv
<1>4. CASE ReadPage
  <2>1. log' = log
    BY <1>4 DEF ReadPage
  <2>2. Walked(feed', log)
    BY <1>4, ReadPageWalks, WalkGoesOn DEF FeedInv
  <2>3. QED BY <2>1, <2>2 DEF FeedInv, LogInv
<1>5. CASE FeedNext
  BY <1>2, <1>3, <1>4, <1>5, DayBounds DEF FeedNext, Ident
<1>6. CASE ActionNext
  <2>1. CASE UNCHANGED <<log, feed>>
    BY <1>1, <2>1
  <2>2. ASSUME NEW i \in DOMAIN QUICK_ACTIONS,
               WriteActivity(Cardinality(log) + 1, QUICK_ACTIONS[i].module, QUICK_ACTIONS[i].key)
        PROVE  FeedInv'
    <3>1. Cardinality(log) \in Nat
      BY FS_CardinalityType DEF FeedInv, LogInv
    <3>2. Cardinality(log) + 1 \in Ident
      BY <3>1 DEF Ident
    <3>3. QED BY <1>2, <2>2, <3>2
  <2>3. QED BY <1>6, <2>1, <2>2 DEF ActionNext, WritePrefs, AskPrefs
<1>7. CASE LevelChanges \/ NextDay \/ StripNext \/ UNCHANGED dashboardVars
  BY <1>1, <1>7 DEF LevelChanges, SetLevel, NextDay, StripNext, Accrue, ReadDismissals, WriteDismissals, AskDismissal, dashboardVars
<1>8. QED BY <1>5, <1>6, <1>7 DEF DashboardNext
-----------------------------------------------------------------------------
(***************************************************************************)
(* The strip of suggestions.                                                *)
(***************************************************************************)
Dismissal == [key : Keys, signal : Nat, at : Nat]
PrefsAsked   == {x \in [pinned : Seq(Shortcut), hidden : SUBSET Shortcut] : IsInjective(x.pinned)}
Request   == [op : {"none", "read", "write", "prefs"}, key : Keys \cup {"none"}, signal : Nat,
              entries : SUBSET Dismissal, prefs : PrefsAsked]
Dismissing(c) == pending[c].op \in {"read", "write"}
LastOf(n) == \A x \in n + 1 .. Len(waved) : waved[x].key # waved[n].key

(* Only what was dismissed is kept or will be written; and unless two       *)
(* dismissals overlapped, what was dismissed last of each suggestion is     *)
(* kept, and the one under way has read exactly what is kept.               *)
StripInv ==
  /\ day \in Nat /\ signal \in [Keys -> Nat] /\ waved \in Seq(Dismissal)
  /\ dismissed \subseteq ToSet(waved)
  /\ pending \in [Tab -> Request] /\ prefs \in PrefsAsked
  /\ \A c \in Tab : pending[c].op = "write" => pending[c].entries \subseteq ToSet(waved)
  /\ \A c \in Tab : Dismissing(c) => pending[c].key \in Keys
  /\ ~ clashed =>
       /\ \A n \in DOMAIN waved : LastOf(n) => waved[n] \in dismissed
       /\ \A c \in Tab : pending[c].op = "write" => pending[c].entries = dismissed
       /\ \A c, x \in Tab : Dismissing(c) /\ Dismissing(x) => c = x

LEMMA NoPrefsChosen == NoPrefs \in PrefsAsked /\ NoRequest \in Request
<1>1. IsInjective(<<>>) /\ <<>> \in Seq(Shortcut)
  BY DEF IsInjective
<1>2. NoPrefs \in PrefsAsked
  BY <1>1 DEF NoPrefs, PrefsAsked
<1>3. QED BY <1>2 DEF NoPrefs, NoRequest, Request

LEMMA DismissalsRange ==
  ASSUME NEW s \in Seq(Dismissal)
  PROVE  ToSet(s) \subseteq Dismissal /\ \A d : d \in ToSet(s) <=> \E i \in DOMAIN s : s[i] = d
BY DEF ToSet

LEMMA SignalStrip == ASSUME StripInv, NEW k \in Keys, NEW n \in 0 .. MaxSignal, Accrue(k, n) PROVE StripInv'
<1>1. signal' = [signal EXCEPT ![k] = n] /\ UNCHANGED <<day, dismissed, prefs, pending, waved, clashed>>
  BY DEF Accrue
<1>2. signal' \in [Keys -> Nat]
  BY <1>1, DayBounds DEF StripInv
<1>3. QED BY <1>1, <1>2 DEF StripInv, Dismissing, LastOf

LEMMA AskStrip == ASSUME StripInv, NEW c \in Tab, NEW k \in Keys, AskDismissal(c, k) PROVE StripInv'
<1> DEFINE n == IF \E i \in LiveRules : RULES[i].key = k THEN signal[k] ELSE 0
<1>1. /\ pending' = [pending EXCEPT ![c] = [NoRequest EXCEPT !.op = "read", !.key = k, !.signal = n]]
      /\ clashed' = (clashed \/ \E x \in Tab : Dismissing(x))
      /\ UNCHANGED <<day, signal, dismissed, prefs, waved>>
  BY DEF AskDismissal, Dismissing
<1>2. n \in Nat
  BY DEF StripInv
<1> HIDE DEF n
<1>3. PICK q : q = [NoRequest EXCEPT !.op = "read", !.key = k, !.signal = n]
  OBVIOUS
<1>4. q \in Request /\ q.op = "read" /\ q.key = k
  BY <1>2, <1>3, NoPrefsChosen DEF NoRequest, Request
<1>5. pending' = [pending EXCEPT ![c] = q]
  BY <1>1, <1>3
<1>6. pending' \in [Tab -> Request] /\ pending'[c] = q /\ \A x \in Tab : x # c => pending'[x] = pending[x]
  BY <1>4, <1>5 DEF StripInv
<1>7. \A x \in Tab : pending'[x].op = "write" => x # c /\ pending'[x] = pending[x]
  BY <1>4, <1>6
<1>8. \A x \in Tab : Dismissing(x)' => x = c \/ Dismissing(x)
  BY <1>6 DEF Dismissing
<1>9. ~ clashed' => ~ clashed /\ \A x \in Tab : ~ Dismissing(x)
  BY <1>1
<1>10. \A x \in Tab : Dismissing(x)' => pending'[x].key \in Keys
  <2>1. ASSUME NEW x \in Tab, Dismissing(x)', x # c PROVE pending'[x].key \in Keys
    <3>1. Dismissing(x)
      BY <1>8, <2>1
    <3>2. QED BY <1>6, <2>1, <3>1 DEF StripInv
  <2>2. QED BY <1>4, <1>6, <2>1
<1>11. ASSUME ~ clashed'
       PROVE  /\ \A m \in DOMAIN waved : LastOf(m) => waved[m] \in dismissed
              /\ \A x \in Tab : pending'[x].op = "write" => pending'[x].entries = dismissed
              /\ \A x, y \in Tab : Dismissing(x)' /\ Dismissing(y)' => x = y
  <2>1. ~ clashed /\ \A x \in Tab : ~ Dismissing(x)
    BY <1>9, <1>11
  <2>2. QED BY <1>7, <1>8, <2>1 DEF StripInv
<1>12. \A m : LastOf(m)' = LastOf(m)
  BY <1>1 DEF LastOf
<1>13. \A x \in Tab : pending'[x].op = "write" => pending'[x].entries \subseteq ToSet(waved)
  BY <1>7 DEF StripInv
<1>14. QED BY <1>1, <1>6, <1>10, <1>11, <1>12, <1>13 DEF StripInv

LEMMA ReadStrip == ASSUME StripInv, NEW c \in Tab, ReadDismissals(c) PROVE StripInv'
<1>1. /\ pending[c].op = "read"
      /\ pending' = [pending EXCEPT ![c].op = "write", ![c].entries = dismissed]
      /\ UNCHANGED <<day, signal, dismissed, prefs, waved, clashed>>
  BY DEF ReadDismissals
<1>2. pending \in [Tab -> Request] /\ dismissed \subseteq ToSet(waved) /\ waved \in Seq(Dismissal)
  BY DEF StripInv
<1>3. dismissed \subseteq Dismissal
  BY <1>2, DismissalsRange
<1>4. PICK q : q = [pending[c] EXCEPT !.op = "write", !.entries = dismissed]
  OBVIOUS
<1>5. pending[c] \in Request
  BY <1>2
<1>6. q \in Request /\ q.op = "write" /\ q.key = pending[c].key /\ q.entries = dismissed
  BY <1>3, <1>4, <1>5 DEF Request
<1>7. pending' = [pending EXCEPT ![c] = q]
  BY <1>1, <1>2, <1>4
<1>8. pending' \in [Tab -> Request] /\ pending'[c] = q /\ \A x \in Tab : x # c => pending'[x] = pending[x]
  BY <1>2, <1>6, <1>7
<1>9. Dismissing(c)
  BY <1>1 DEF Dismissing
<1>10. \A x \in Tab : Dismissing(x)' => Dismissing(x) /\ pending'[x].key = pending[x].key
  BY <1>6, <1>8, <1>9 DEF Dismissing
<1>11. \A x \in Tab : pending'[x].op = "write" => pending'[x].entries \subseteq ToSet(waved)
  BY <1>2, <1>6, <1>8 DEF StripInv
<1>12. ~ clashed => \A x \in Tab : pending'[x].op = "write" => pending'[x].entries = dismissed
  BY <1>6, <1>8 DEF StripInv
<1>13. \A m : LastOf(m)' = LastOf(m)
  BY <1>1 DEF LastOf
<1>14. QED BY <1>1, <1>8, <1>10, <1>11, <1>12, <1>13 DEF StripInv

(* The request of c is over.                                                *)
Finishes(c) == pending' = [pending EXCEPT ![c] = NoRequest]
LEMMA FinishedStrip ==
  ASSUME StripInv, NEW c \in Tab, Finishes(c)
  PROVE  /\ pending' \in [Tab -> Request]
         /\ \A x \in Tab : x # c => pending'[x] = pending[x]
         /\ ~ Dismissing(c)' /\ pending'[c].op # "write"
         /\ \A x \in Tab : Dismissing(x)' => x # c /\ Dismissing(x)
<1>1. pending \in [Tab -> Request]
  BY DEF StripInv
<1>2. /\ pending' \in [Tab -> Request] /\ pending'[c] = NoRequest
      /\ \A x \in Tab : x # c => pending'[x] = pending[x]
  BY <1>1, NoPrefsChosen DEF Finishes
<1>3. NoRequest.op = "none"
  BY DEF NoRequest
<1>4. ~ Dismissing(c)' /\ pending'[c].op # "write"
  BY <1>2, <1>3 DEF Dismissing
<1>5. \A x \in Tab : Dismissing(x)' => x # c /\ Dismissing(x)
  BY <1>2, <1>4 DEF Dismissing
<1>6. QED BY <1>2, <1>4, <1>5

LEMMA WriteStrip == ASSUME StripInv, NEW c \in Tab, WriteDismissals(c) PROVE StripInv'
<1>1. PICK new : new = [key |-> pending[c].key, signal |-> pending[c].signal, at |-> day]
  OBVIOUS
<1>2. /\ pending[c].op = "write"
      /\ dismissed' = {d \in pending[c].entries : d.key # new.key} \cup {new}
      /\ waved' = Append(waved, new) /\ Finishes(c)
      /\ UNCHANGED <<day, signal, prefs, clashed>>
  BY <1>1 DEF WriteDismissals, Finishes
<1>3. waved \in Seq(Dismissal) /\ pending[c] \in Request /\ day \in Nat /\ Dismissing(c)
  BY <1>2 DEF StripInv, Dismissing
<1>4. pending[c].key \in Keys
  BY <1>3 DEF StripInv
<1>5. new \in Dismissal
  BY <1>1, <1>3, <1>4 DEF Dismissal, Request
<1>6. /\ waved' \in Seq(Dismissal) /\ Len(waved') = Len(waved) + 1 /\ Len(waved) \in Nat
      /\ DOMAIN waved = 1 .. Len(waved) /\ DOMAIN waved' = 1 .. Len(waved) + 1
      /\ waved'[Len(waved) + 1] = new /\ \A i \in 1 .. Len(waved) : waved'[i] = waved[i]
  BY <1>2, <1>3, <1>5
<1>7. ToSet(waved) \cup {new} \subseteq ToSet(waved')
  <2>1. new \in ToSet(waved')
    BY <1>6, DismissalsRange
  <2>2. ASSUME NEW d \in ToSet(waved) PROVE d \in ToSet(waved')
    <3>1. PICK i \in DOMAIN waved : waved[i] = d
      BY <1>3, DismissalsRange
    <3>2. i \in DOMAIN waved' /\ waved'[i] = d
      BY <1>6, <3>1
    <3>3. QED BY <1>6, <3>2, DismissalsRange
  <2>3. QED BY <2>1, <2>2
<1>8. pending[c].entries \subseteq ToSet(waved)
  BY <1>2 DEF StripInv
<1>9. dismissed' \subseteq ToSet(waved')
  BY <1>2, <1>7, <1>8
<1>10. /\ pending' \in [Tab -> Request]
       /\ \A x \in Tab : x # c => pending'[x] = pending[x]
       /\ ~ Dismissing(c)' /\ pending'[c].op # "write"
       /\ \A x \in Tab : Dismissing(x)' => x # c /\ Dismissing(x)
  BY <1>2, FinishedStrip
<1>11. \A x \in Tab : pending'[x].op = "write" => pending'[x].entries \subseteq ToSet(waved')
  BY <1>7, <1>10 DEF StripInv
<1>12. \A x \in Tab : Dismissing(x)' => pending'[x].key \in Keys
  BY <1>10 DEF StripInv
<1>13. ASSUME ~ clashed
       PROVE  /\ \A n \in DOMAIN waved' : LastOf(n)' => waved'[n] \in dismissed'
              /\ \A x \in Tab : pending'[x].op = "write" => pending'[x].entries = dismissed'
              /\ \A x, y \in Tab : Dismissing(x)' /\ Dismissing(y)' => x = y
  <2>1. /\ \A n \in DOMAIN waved : LastOf(n) => waved[n] \in dismissed
        /\ pending[c].entries = dismissed
        /\ \A x \in Tab : Dismissing(x) => x = c
    BY <1>2, <1>3, <1>13 DEF StripInv
  <2>2. \A x \in Tab : ~ Dismissing(x)'
    BY <1>10, <2>1
  <2>3. ASSUME NEW n \in DOMAIN waved', LastOf(n)' PROVE waved'[n] \in dismissed'
    <3>1. CASE n = Len(waved) + 1
      BY <1>2, <1>6, <3>1
    <3>2. CASE n # Len(waved) + 1
      <4>1. n \in DOMAIN waved /\ n \in Nat /\ n <= Len(waved)
        BY <1>6, <3>2
      <4>2. \A x \in n + 1 .. Len(waved) + 1 : waved'[x].key # waved'[n].key
        BY <1>6, <2>3 DEF LastOf
      <4>3. waved'[n] = waved[n] /\ \A x \in n + 1 .. Len(waved) : waved'[x] = waved[x]
        BY <1>6, <4>1
      <4>4. LastOf(n)
        BY <1>6, <4>1, <4>2, <4>3 DEF LastOf
      <4>5. Len(waved) + 1 \in n + 1 .. Len(waved) + 1
        BY <1>6, <4>1
      <4>6. waved[n].key # new.key
        BY <1>6, <4>2, <4>3, <4>5
      <4>7. waved[n] \in dismissed
        BY <2>1, <4>1, <4>4
      <4>8. QED BY <1>2, <2>1, <4>3, <4>6, <4>7
    <3>3. QED BY <3>1, <3>2
  <2>4. QED BY <2>2, <2>3 DEF Dismissing
<1>14. QED BY <1>2, <1>3, <1>6, <1>9, <1>10, <1>11, <1>12, <1>13 DEF StripInv

LEMMA AskPrefsStrip ==
  ASSUME StripInv, NEW c \in Tab, NEW w \in Wishes, AskPrefs(c, w.pinned, w.hidden)
  PROVE  StripInv'
<1>1. PICK x : x = [pinned |-> w.pinned, hidden |-> w.hidden]
  OBVIOUS
<1>2. PICK q : q = [NoRequest EXCEPT !.op = "prefs", !.prefs = x]
  OBVIOUS
<1>3. /\ pending' = [pending EXCEPT ![c] = q]
      /\ w.hidden \subseteq Permitted
      /\ UNCHANGED <<day, signal, dismissed, prefs, waved, clashed>>
  BY <1>1, <1>2 DEF AskPrefs
<1>4. Permitted \subseteq Shortcut
  BY DEF Permitted, Candidates, Shortcut
<1>5. x \in PrefsAsked
  BY <1>1, <1>3, <1>4, WishesAssumption DEF PrefsAsked
<1>6. q \in Request /\ q.op = "prefs"
  BY <1>2, <1>5, NoPrefsChosen DEF NoRequest, Request
<1>7. pending' \in [Tab -> Request] /\ pending'[c] = q /\ \A y \in Tab : y # c => pending'[y] = pending[y]
  BY <1>3, <1>6 DEF StripInv
<1>8. \A y \in Tab : Dismissing(y)' \/ pending'[y].op = "write" => pending'[y] = pending[y] /\ Dismissing(y)
  BY <1>6, <1>7 DEF Dismissing
<1>9. \A m : LastOf(m)' = LastOf(m)
  BY <1>3 DEF LastOf
<1>10. /\ \A y \in Tab : pending'[y].op = "write" => pending'[y].entries \subseteq ToSet(waved)
       /\ \A y \in Tab : Dismissing(y)' => pending'[y].key \in Keys
       /\ ~ clashed =>
            /\ \A y \in Tab : pending'[y].op = "write" => pending'[y].entries = dismissed
            /\ \A y, z \in Tab : Dismissing(y)' /\ Dismissing(z)' => y = z
  BY <1>8 DEF StripInv
<1>11. QED BY <1>3, <1>7, <1>9, <1>10 DEF StripInv

LEMMA WritePrefsStrip == ASSUME StripInv, NEW c \in Tab, WritePrefs(c) PROVE StripInv'
<1>1. Finishes(c) /\ prefs' = pending[c].prefs /\ UNCHANGED <<day, signal, dismissed, waved, clashed>>
  BY DEF WritePrefs, Finishes
<1>2. pending[c] \in Request
  BY DEF StripInv
<1>3. prefs' \in PrefsAsked
  BY <1>1, <1>2 DEF Request
<1>4. /\ pending' \in [Tab -> Request]
      /\ \A x \in Tab : x # c => pending'[x] = pending[x]
      /\ ~ Dismissing(c)' /\ pending'[c].op # "write"
      /\ \A x \in Tab : Dismissing(x)' => x # c /\ Dismissing(x)
  BY <1>1, FinishedStrip
<1>5. \A m : LastOf(m)' = LastOf(m)
  BY <1>1 DEF LastOf
<1>6. /\ \A y \in Tab : pending'[y].op = "write" => pending'[y].entries \subseteq ToSet(waved)
      /\ \A y \in Tab : Dismissing(y)' => pending'[y].key \in Keys
      /\ ~ clashed =>
           /\ \A y \in Tab : pending'[y].op = "write" => pending'[y].entries = dismissed
           /\ \A y, z \in Tab : Dismissing(y)' /\ Dismissing(z)' => y = z
  BY <1>4 DEF StripInv
<1>7. QED BY <1>1, <1>3, <1>4, <1>5, <1>6 DEF StripInv

LEMMA StripKept == StripInv /\ [DashboardNext]_dashboardVars => StripInv'
<1> SUFFICES ASSUME StripInv, [DashboardNext]_dashboardVars PROVE StripInv'
  OBVIOUS
<1>1. CASE day' = day /\ UNCHANGED <<signal, waved, dismissed, pending, prefs, clashed>>
  BY <1>1 DEF StripInv, Dismissing, LastOf
<1>2. CASE NextDay
  BY <1>2 DEF NextDay, StripInv, Dismissing, LastOf
<1>3. CASE LevelChanges \/ FeedNext \/ UNCHANGED dashboardVars
  BY <1>1, <1>3 DEF LevelChanges, SetLevel, FeedNext, WriteActivity, OpenFeed, ReadPage, dashboardVars
<1>4. CASE StripNext
  BY <1>4, SignalStrip, AskStrip, ReadStrip, WriteStrip DEF StripNext
<1>5. CASE ActionNext
  <2>1. ASSUME NEW i, NEW m, NEW a, WriteActivity(i, m, a) PROVE StripInv'
    BY <1>1, <2>1 DEF WriteActivity
  <2>2. QED BY <1>5, <2>1, AskPrefsStrip, WritePrefsStrip DEF ActionNext
<1>6. QED BY <1>2, <1>3, <1>4, <1>5 DEF DashboardNext

(* Every rule that is live is shown, kept back by a dismissal or by         *)
(* StripLimit others.                                                       *)
LEMMA StripRight ==
  /\ \A i \in LiveRules : RULES[i].key \in Strip \/ Cardinality(Strip) = StripLimit \/ Suppressed(RULES[i].key)
  /\ \A k \in Strip : ~ Suppressed(k)
<1> DEFINE visible == {i \in LiveRules : ~ Suppressed(RULES[i].key)}
           all   == Rising(visible)
           shown == Top(StripLimit, all)
<1>1. RULES \in Seq([key : Keys, module : Modules]) /\ StripLimit \in Nat
      /\ \A i, j \in DOMAIN RULES : RULES[i].key = RULES[j].key => i = j
  BY LimitsAssumption, CatalogAssumption
<1>2. visible \subseteq DOMAIN RULES /\ DOMAIN RULES = 1 .. Len(RULES) /\ Len(RULES) \in Nat
  BY <1>1 DEF LiveRules
<1>3. IsFiniteSet(visible) /\ visible \subseteq Int
  <2> HIDE DEF visible
  <2>1. IsFiniteSet(1 .. Len(RULES))
    BY <1>2, FS_Interval
  <2>2. visible \in SUBSET (1 .. Len(RULES))
    BY <1>2
  <2>3. IsFiniteSet(visible)
    BY <2>1, <2>2, FS_Subset
  <2>4. QED BY <2>2, <2>3
<1>4. Strip = {RULES[shown[n]].key : n \in DOMAIN shown}
  BY DEF Strip
<1>5. \A i \in LiveRules : ~ Suppressed(RULES[i].key) => i \in visible
  OBVIOUS
<1>6. \A i \in visible : ~ Suppressed(RULES[i].key)
  OBVIOUS
<1> HIDE DEF visible, all, shown
<1>7. PICK ahead : Lists(all, visible, ahead) /\ Ranking(visible, ahead)
  BY <1>3, RisingLists DEF all
<1>8. /\ DOMAIN all = 1 .. Len(all) /\ Len(all) \in Nat /\ all \in Seq(visible)
      /\ \A i \in DOMAIN all : all[i] \in visible
      /\ \A i, j \in DOMAIN all : all[i] = all[j] => i = j
      /\ \A x \in visible : \E i \in DOMAIN all : all[i] = x
  <2>1. all \in Seq(visible) /\ \A x \in visible : \E i \in DOMAIN all : all[i] = x
    BY <1>7 DEF Lists
  <2>2. \A i, j \in DOMAIN all : all[i] = all[j] => i = j
    BY <1>7, ListedOnce
  <2>3. DOMAIN all = 1 .. Len(all) /\ Len(all) \in Nat /\ \A i \in DOMAIN all : all[i] \in visible
    BY <2>1
  <2>4. QED BY <2>1, <2>2, <2>3
<1>9. /\ shown \in Seq(visible) /\ Len(shown) <= Len(all)
      /\ (shown = all /\ Len(all) <= StripLimit) \/ (Len(shown) = StripLimit /\ StripLimit < Len(all))
      /\ \A i \in 1 .. Len(shown) : shown[i] = all[i]
  <2>1. all \in Seq(visible) /\ StripLimit \in Nat
    BY <1>1, <1>8
  <2>2. /\ Top(StripLimit, all) \in Seq(visible)
        /\ \/ Top(StripLimit, all) = all /\ Len(all) <= StripLimit
           \/ Len(Top(StripLimit, all)) = StripLimit /\ StripLimit < Len(all)
        /\ Len(Top(StripLimit, all)) <= Len(all)
        /\ \A i \in 1 .. Len(Top(StripLimit, all)) : Top(StripLimit, all)[i] = all[i]
    BY <2>1, TopOf
  <2>3. QED BY <2>2 DEF shown
<1>10. /\ DOMAIN shown = 1 .. Len(shown) /\ Len(shown) \in Nat
       /\ \A i \in DOMAIN shown : shown[i] \in visible
       /\ \A i, j \in DOMAIN shown : shown[i] = shown[j] => i = j
  <2>1. DOMAIN shown = 1 .. Len(shown) /\ Len(shown) \in Nat
    BY <1>9
  <2>2. \A i \in DOMAIN shown : i \in DOMAIN all /\ shown[i] = all[i]
    BY <1>8, <1>9, <2>1
  <2>3. QED BY <1>8, <2>1, <2>2
<1>11. \A k \in Strip : ~ Suppressed(k)
  BY <1>4, <1>6, <1>10
<1>12. Cardinality(Strip) = Len(shown)
  <2> DEFINE g == [n \in 1 .. Len(shown) |-> RULES[shown[n]].key]
  <2>1. g \in Surjection(1 .. Len(shown), Strip)
    BY <1>4, <1>10 DEF Surjection
  <2>2. \A i, j \in 1 .. Len(shown) : g[i] = g[j] => i = j
    BY <1>1, <1>2, <1>10
  <2>3. g \in Injection(1 .. Len(shown), Strip)
    BY <2>1, <2>2 DEF Surjection, Injection, IsInjective
  <2>4. IsFiniteSet(1 .. Len(shown)) /\ Cardinality(1 .. Len(shown)) = Len(shown)
    BY <1>10, FS_Interval
  <2>5. QED BY <2>1, <2>3, <2>4, FS_Surjection
<1>13. ASSUME NEW i \in LiveRules, ~ Suppressed(RULES[i].key), Cardinality(Strip) # StripLimit
       PROVE  RULES[i].key \in Strip
  <2>1. shown = all
    BY <1>9, <1>12, <1>13
  <2>2. PICK n \in DOMAIN all : all[n] = i
    BY <1>5, <1>8, <1>13
  <2>3. QED BY <1>4, <2>1, <2>2
<1>14. QED BY <1>11, <1>13

LEMMA StripInvHonest == StripInv => StripHonest
<1> SUFFICES ASSUME StripInv PROVE StripHonest
  OBVIOUS
<1>1. \A k : Suppressed(k) => \E d \in ToSet(waved) : d.key = k /\ Hushed(d)
  BY DEF StripInv, Suppressed, Hushed
<1>2. \A i \in LiveRules : RULES[i].key \in Strip \/ Cardinality(Strip) = StripLimit
             \/ \E d \in ToSet(waved) : d.key = RULES[i].key /\ Hushed(d)
  BY <1>1, StripRight
<1>3. ASSUME ~ clashed, NEW k \in Strip, NEW d \in Latest(k) PROVE ~ Hushed(d)
  <2>1. PICK n \in DOMAIN waved : d = waved[n] /\ waved[n].key = k /\ \A x \in n + 1 .. Len(waved) : waved[x].key # k
    BY <1>3 DEF Latest
  <2>2. d \in dismissed
    BY <1>3, <2>1 DEF StripInv, LastOf
  <2>3. ~ Suppressed(k)
    BY StripRight
  <2>4. QED BY <2>1, <2>2, <2>3 DEF Suppressed, Hushed
<1>4. QED BY <1>2, <1>3 DEF StripHonest
-----------------------------------------------------------------------------
(***************************************************************************)
(* The quick actions.                                                       *)
(***************************************************************************)
LEMMA ConcatOnce ==
  ASSUME NEW A, NEW a \in Seq(A), NEW b \in Seq(A), IsInjective(a), IsInjective(b),
         \A i \in DOMAIN a, j \in DOMAIN b : a[i] # b[j]
  PROVE  IsInjective(a \o b) /\ ToSet(a \o b) = ToSet(a) \cup ToSet(b)
<1> DEFINE n == Len(a)
           ab == a \o b
<1>1. n \in Nat /\ Len(b) \in Nat /\ DOMAIN a = 1 .. n /\ DOMAIN b = 1 .. Len(b)
  OBVIOUS
<1>2. DOMAIN ab = 1 .. n + Len(b) /\ \A i \in 1 .. n + Len(b) : ab[i] = IF i <= n THEN a[i] ELSE b[i - n]
  OBVIOUS
<1> HIDE DEF n, ab
<1>3. \A i \in DOMAIN a : i \in DOMAIN ab /\ ab[i] = a[i]
  BY <1>1, <1>2
<1>4. \A j \in DOMAIN b : n + j \in DOMAIN ab /\ ab[n + j] = b[j]
  <2> SUFFICES ASSUME NEW j \in DOMAIN b PROVE n + j \in DOMAIN ab /\ ab[n + j] = b[j]
    OBVIOUS
  <2>1. n + j \in 1 .. n + Len(b) /\ ~ n + j <= n /\ (n + j) - n = j
    BY <1>1
  <2>2. QED BY <1>2, <2>1
<1>5. \A i \in DOMAIN ab : \/ i \in DOMAIN a /\ ab[i] = a[i]
                           \/ i - n \in DOMAIN b /\ ab[i] = b[i - n]
  <2> SUFFICES ASSUME NEW i \in DOMAIN ab
               PROVE  (i \in DOMAIN a /\ ab[i] = a[i]) \/ (i - n \in DOMAIN b /\ ab[i] = b[i - n])
    OBVIOUS
  <2>1. i <= n \/ (~ i <= n /\ i - n \in DOMAIN b)
    BY <1>1, <1>2
  <2>2. i <= n => i \in DOMAIN a
    BY <1>1, <1>2
  <2>3. QED BY <1>2, <2>1, <2>2
<1>6. ToSet(ab) = ToSet(a) \cup ToSet(b)
  BY <1>3, <1>4, <1>5 DEF ToSet
<1>7. ASSUME NEW i \in DOMAIN ab, NEW j \in DOMAIN ab, ab[i] = ab[j] PROVE i = j
  <2>1. i \in Int /\ j \in Int
    BY <1>1, <1>2
  <2>2. \/ i \in DOMAIN a /\ j \in DOMAIN a /\ a[i] = a[j]
        \/ i - n \in DOMAIN b /\ j - n \in DOMAIN b /\ b[i - n] = b[j - n]
    BY <1>5, <1>7
  <2>3. i = j \/ i - n = j - n
    BY <2>2 DEF IsInjective
  <2>4. QED BY <1>1, <2>1, <2>3
<1>8. QED BY <1>6, <1>7 DEF IsInjective, ab

LEMMA ScoreNumber == ASSUME LogInv, NEW i PROVE Score(i) \in Nat
<1>1. ASSUME NEW events \in SUBSET log PROVE Worth(events) \in Nat
  <2>1. 2 ^ RankDays \in Int
    BY LimitsAssumption
  <2>2. IsFiniteSet(1 .. 2 ^ RankDays)
    BY <2>1, FS_Interval
  <2>3. IsFiniteSet(events)
    BY FS_Subset DEF LogInv
  <2>4. IsFiniteSet(events \X (1 .. 2 ^ RankDays))
    BY <2>2, <2>3, FS_Product
  <2> DEFINE counted == {x \in events \X (1 .. 2 ^ RankDays) : x[2] <= Decay(x[1])}
  <2>5. counted \in SUBSET (events \X (1 .. 2 ^ RankDays))
    OBVIOUS
  <2> HIDE DEF counted
  <2>6. IsFiniteSet(counted)
    BY <2>4, <2>5, FS_Subset
  <2>7. Cardinality(counted) \in Nat
    BY <2>6, FS_CardinalityType
  <2>8. QED BY <2>7 DEF counted, Worth
<1> DEFINE recent == {e \in log : day - e.day < RankDays}
           exact  == {e \in recent : e.action = QUICK_ACTIONS[i].key}
           near   == {e \in recent : e.module = QUICK_ACTIONS[i].module}
<1>2. exact \in SUBSET log /\ near \in SUBSET log
  OBVIOUS
<1>3. Score(i) = 3 * Worth(exact) + Worth(near)
  BY DEF Score
<1> HIDE DEF exact, near
<1>4. Worth(exact) \in Nat /\ Worth(near) \in Nat
  BY <1>1, <1>2
<1>5. QED BY <1>3, <1>4

LEMMA CandidatesFinite ==
  /\ IsFiniteSet(Candidates) /\ Candidates \subseteq Nat /\ Candidates \subseteq DOMAIN QUICK_ACTIONS
  /\ \A i, j \in Candidates : QUICK_ACTIONS[i].key = QUICK_ACTIONS[j].key => i = j
  /\ \A i \in Candidates : QUICK_ACTIONS[i].key \in Shortcut
<1>1. Candidates \subseteq DOMAIN QUICK_ACTIONS
  BY DEF Candidates
<1>2. DOMAIN QUICK_ACTIONS = 1 .. Len(QUICK_ACTIONS) /\ Len(QUICK_ACTIONS) \in Nat
  BY CatalogAssumption
<1>3. IsFiniteSet(1 .. Len(QUICK_ACTIONS))
  BY <1>2, FS_Interval
<1>4. Candidates \in SUBSET (1 .. Len(QUICK_ACTIONS))
  BY <1>1, <1>2
<1>5. IsFiniteSet(Candidates)
  BY <1>3, <1>4, FS_Subset
<1>6. QED BY <1>1, <1>4, <1>5, CatalogAssumption DEF Shortcut

Rated == [x \in Unpinned |-> {y \in Unpinned : Ahead(y, x)}]
LEMMA UnpinnedRated ==
  ASSUME LogInv
  PROVE  /\ Ranking(Unpinned, Rated)
         /\ Unpinned = {<<Score(i), i>> : i \in {n \in Unhidden : QUICK_ACTIONS[n].key \notin ToSet(prefs.pinned)}}
<1> DEFINE free == {n \in Unhidden : QUICK_ACTIONS[n].key \notin ToSet(prefs.pinned)}
<1>1. Unpinned = {<<Score(i), i>> : i \in free}
  BY DEF Unpinned
<1>2. free \in SUBSET Candidates
  BY DEF Unhidden
<1> HIDE DEF free
<1>3. IsFiniteSet(free) /\ free \subseteq Nat
  BY <1>2, CandidatesFinite, FS_Subset
<1>4. IsFiniteSet(Unpinned)
  <2> DEFINE g == [i \in free |-> <<Score(i), i>>]
  <2>1. g \in Surjection(free, Unpinned)
    BY <1>1 DEF Surjection
  <2>2. QED BY <1>3, <2>1, FS_Surjection
<1>5. \A x \in Unpinned : x = <<x[1], x[2]>> /\ x[1] \in Nat /\ x[2] \in Nat
  BY <1>1, <1>3, ScoreNumber
<1>6. Rated \in [Unpinned -> SUBSET Unpinned] /\ \A x, y \in Unpinned : y \in Rated[x] <=> Ahead(y, x)
  BY DEF Rated
<1>7. \A x \in Unpinned : ~ Ahead(x, x)
  BY <1>5 DEF Ahead
<1>8. ASSUME NEW x \in Unpinned, NEW y \in Unpinned, x # y PROVE Ahead(x, y) \/ Ahead(y, x)
  <2>1. x[1] # y[1] \/ x[2] # y[2]
    BY <1>5, <1>8
  <2>2. x[1] \in Nat /\ x[2] \in Nat /\ y[1] \in Nat /\ y[2] \in Nat
    BY <1>5
  <2>3. QED BY <2>1, <2>2 DEF Ahead
<1>9. ASSUME NEW x \in Unpinned, NEW y \in Unpinned, NEW z \in Unpinned, Ahead(z, x), Ahead(x, y) PROVE Ahead(z, y)
  <2>1. x[1] \in Nat /\ x[2] \in Nat /\ y[1] \in Nat /\ y[2] \in Nat /\ z[1] \in Nat /\ z[2] \in Nat
    BY <1>5
  <2>2. QED BY <1>9, <2>1 DEF Ahead
<1>10. \A x, y \in Unpinned : x \in Rated[y] => Rated[x] \subseteq Rated[y]
  BY <1>6, <1>9
<1>11. (\A x \in Unpinned : x \notin Rated[x]) /\ \A x, y \in Unpinned : x # y => x \in Rated[y] \/ y \in Rated[x]
  BY <1>6, <1>7, <1>8
<1>12. Ranking(Unpinned, Rated)
  BY <1>4, <1>6, <1>10, <1>11 DEF Ranking
<1>13. QED BY <1>1, <1>12 DEF free

(* The two halves of what is offered.                                       *)
OfferedPins == [n \in DOMAIN Rising(Pinned) |-> prefs.pinned[Rising(Pinned)[n]]]
OfferedRest == [n \in DOMAIN InOrder(Rated) |-> QUICK_ACTIONS[InOrder(Rated)[n][2]].key]

LEMMA PinsRight ==
  ASSUME prefs \in PrefsAsked
  PROVE  /\ OfferedPins \in Seq(Shortcut) /\ IsInjective(OfferedPins)
         /\ \A k : k \in ToSet(OfferedPins) <=> k \in ToSet(prefs.pinned) /\ \E i \in Unhidden : QUICK_ACTIONS[i].key = k
<1> DEFINE o == Rising(Pinned)
           pins == prefs.pinned
<1>1. pins \in Seq(Shortcut) /\ IsInjective(pins)
  BY DEF PrefsAsked
<1>2. Pinned = {n \in DOMAIN pins : \E i \in Unhidden : QUICK_ACTIONS[i].key = pins[n]}
  BY DEF Pinned
<1> HIDE DEF pins
<1>3. DOMAIN pins = 1 .. Len(pins) /\ Len(pins) \in Nat
  BY <1>1
<1>4. IsFiniteSet(1 .. Len(pins)) /\ Pinned \in SUBSET (1 .. Len(pins))
  BY <1>2, <1>3, FS_Interval
<1>5. IsFiniteSet(Pinned) /\ Pinned \subseteq Int
  <2>1. IsFiniteSet(Pinned)
    BY <1>4, FS_Subset
  <2>2. QED BY <1>4, <2>1
<1>6. PICK ahead : Lists(o, Pinned, ahead) /\ Ranking(Pinned, ahead)
  BY <1>5, RisingLists
<1>7. /\ DOMAIN o = 1 .. Cardinality(Pinned) /\ Cardinality(Pinned) \in Nat
      /\ \A i \in DOMAIN o : o[i] \in Pinned
      /\ \A i, j \in DOMAIN o : o[i] = o[j] => i = j
      /\ \A x \in Pinned : \E i \in DOMAIN o : o[i] = x
  BY <1>6, ListedOnce DEF Lists
<1>8. OfferedPins = [n \in DOMAIN o |-> pins[o[n]]]
  BY DEF OfferedPins, pins
<1> HIDE DEF o
<1>9. \A n \in DOMAIN o : pins[o[n]] \in Shortcut
  BY <1>1, <1>2, <1>7
<1>10. OfferedPins \in Seq(Shortcut)
  BY <1>7, <1>8, <1>9, SeqDef
<1>11. IsInjective(OfferedPins)
  BY <1>1, <1>2, <1>7, <1>8 DEF IsInjective
<1>12. ASSUME NEW k
       PROVE  k \in ToSet(OfferedPins) <=> k \in ToSet(pins) /\ \E i \in Unhidden : QUICK_ACTIONS[i].key = k
  <2>1. ASSUME k \in ToSet(OfferedPins) PROVE k \in ToSet(pins) /\ \E i \in Unhidden : QUICK_ACTIONS[i].key = k
    <3>1. PICK n \in DOMAIN o : k = pins[o[n]]
      BY <1>8, <2>1 DEF ToSet
    <3>2. QED BY <1>2, <1>7, <3>1 DEF ToSet
  <2>2. ASSUME k \in ToSet(pins), \E i \in Unhidden : QUICK_ACTIONS[i].key = k PROVE k \in ToSet(OfferedPins)
    <3>1. PICK m \in DOMAIN pins : pins[m] = k
      BY <2>2 DEF ToSet
    <3>2. m \in Pinned
      BY <1>2, <2>2, <3>1
    <3>3. PICK n \in DOMAIN o : o[n] = m
      BY <1>7, <3>2
    <3>4. QED BY <1>8, <3>1, <3>3 DEF ToSet
  <2>3. QED BY <2>1, <2>2
<1>13. QED BY <1>10, <1>11, <1>12 DEF pins

LEMMA RestRight ==
  ASSUME LogInv
  PROVE  /\ OfferedRest \in Seq(Shortcut) /\ IsInjective(OfferedRest)
         /\ \A k : k \in ToSet(OfferedRest) <=> k \notin ToSet(prefs.pinned) /\ \E i \in Unhidden : QUICK_ACTIONS[i].key = k
<1> DEFINE o == InOrder(Rated)
           Key(x) == QUICK_ACTIONS[x[2]].key
<1>1. Ranking(Unpinned, Rated)
  BY UnpinnedRated
<1>2. /\ DOMAIN o = 1 .. Cardinality(Unpinned) /\ Cardinality(Unpinned) \in Nat
      /\ \A i \in DOMAIN o : o[i] \in Unpinned
      /\ \A i, j \in DOMAIN o : o[i] = o[j] => i = j
      /\ \A x \in Unpinned : \E i \in DOMAIN o : o[i] = x
  BY <1>1, InOrderLists, ListedOnce DEF Lists
<1>3. OfferedRest = [n \in DOMAIN o |-> Key(o[n])]
  BY DEF OfferedRest
<1> HIDE DEF o
<1>4. \A x \in Unpinned : \E i \in Unhidden : x = <<Score(i), i>> /\ QUICK_ACTIONS[i].key \notin ToSet(prefs.pinned)
  BY UnpinnedRated
<1>5. \A i \in Unhidden : QUICK_ACTIONS[i].key \notin ToSet(prefs.pinned) => <<Score(i), i>> \in Unpinned
  BY UnpinnedRated
<1>6. Unhidden \subseteq Candidates
  BY DEF Unhidden
<1>7. \A x \in Unpinned : /\ x[2] \in Unhidden /\ x = <<Score(x[2]), x[2]>>
                          /\ Key(x) \in Shortcut /\ Key(x) \notin ToSet(prefs.pinned)
  BY <1>4, <1>6, CandidatesFinite
<1>8. \A x, y \in Unpinned : Key(x) = Key(y) => x = y
  <2> SUFFICES ASSUME NEW x \in Unpinned, NEW y \in Unpinned, Key(x) = Key(y) PROVE x = y
    OBVIOUS
  <2>1. x[2] \in Candidates /\ y[2] \in Candidates
    BY <1>6, <1>7
  <2>2. x[2] = y[2]
    BY <2>1, CandidatesFinite
  <2>3. x = <<Score(x[2]), x[2]>> /\ y = <<Score(y[2]), y[2]>>
    BY <1>7
  <2>4. QED BY <2>2, <2>3
<1>9. \A i \in Unhidden : QUICK_ACTIONS[i].key \notin ToSet(prefs.pinned) =>
        \E x \in Unpinned : Key(x) = QUICK_ACTIONS[i].key
  BY <1>5
<1> HIDE DEF Key
<1>10. OfferedRest \in Seq(Shortcut)
  <2>1. \A n \in DOMAIN o : Key(o[n]) \in Shortcut
    BY <1>2, <1>7
  <2>2. QED BY <1>2, <1>3, <2>1, SeqDef
<1>11. IsInjective(OfferedRest)
  BY <1>2, <1>3, <1>8 DEF IsInjective
<1>12. ASSUME NEW k
       PROVE  k \in ToSet(OfferedRest) <=> k \notin ToSet(prefs.pinned) /\ \E i \in Unhidden : QUICK_ACTIONS[i].key = k
  <2>1. ASSUME k \in ToSet(OfferedRest) PROVE k \notin ToSet(prefs.pinned) /\ \E i \in Unhidden : QUICK_ACTIONS[i].key = k
    <3>1. PICK n \in DOMAIN o : k = Key(o[n])
      BY <1>3, <2>1 DEF ToSet
    <3>2. QED BY <1>2, <1>7, <3>1 DEF Key
  <2>2. ASSUME k \notin ToSet(prefs.pinned), NEW i \in Unhidden, QUICK_ACTIONS[i].key = k PROVE k \in ToSet(OfferedRest)
    <3>1. PICK x \in Unpinned : Key(x) = k
      BY <1>9, <2>2
    <3>2. PICK n \in DOMAIN o : o[n] = x
      BY <1>2
    <3>3. QED BY <1>3, <3>1, <3>2 DEF ToSet
  <2>3. QED BY <2>1, <2>2
<1>13. QED BY <1>10, <1>11, <1>12

LEMMA OfferedIs == Offered = OfferedPins \o OfferedRest
BY DEF Offered, OfferedPins, OfferedRest, Rated

LEMMA OfferedOnce ==
  ASSUME LogInv, prefs \in PrefsAsked
  PROVE  IsInjective(Offered) /\ ToSet(Offered) = Permitted \ prefs.hidden
<1>1. /\ OfferedPins \in Seq(Shortcut) /\ IsInjective(OfferedPins)
      /\ \A k : k \in ToSet(OfferedPins) <=> k \in ToSet(prefs.pinned) /\ \E i \in Unhidden : QUICK_ACTIONS[i].key = k
  BY PinsRight
<1>2. /\ OfferedRest \in Seq(Shortcut) /\ IsInjective(OfferedRest)
      /\ \A k : k \in ToSet(OfferedRest) <=> k \notin ToSet(prefs.pinned) /\ \E i \in Unhidden : QUICK_ACTIONS[i].key = k
  BY RestRight
<1>3. \A i \in DOMAIN OfferedPins, j \in DOMAIN OfferedRest : OfferedPins[i] # OfferedRest[j]
  <2> SUFFICES ASSUME NEW i \in DOMAIN OfferedPins, NEW j \in DOMAIN OfferedRest, OfferedPins[i] = OfferedRest[j]
               PROVE  FALSE
    OBVIOUS
  <2>1. OfferedPins[i] \in ToSet(OfferedPins) /\ OfferedRest[j] \in ToSet(OfferedRest)
    BY DEF ToSet
  <2>2. QED BY <1>1, <1>2, <2>1
<1>4. IsInjective(Offered) /\ ToSet(Offered) = ToSet(OfferedPins) \cup ToSet(OfferedRest)
  BY <1>1, <1>2, <1>3, ConcatOnce, OfferedIs
<1>5. \A k : (\E i \in Unhidden : QUICK_ACTIONS[i].key = k) <=> k \in Permitted \ prefs.hidden
  BY DEF Unhidden, Permitted
<1>6. \A k : k \in ToSet(OfferedPins) \cup ToSet(OfferedRest) <=> k \in Permitted \ prefs.hidden
  BY <1>1, <1>2, <1>5
<1>7. QED BY <1>4, <1>6

LEMMA PairsCount ==
  ASSUME NEW S, IsFiniteSet(S), NEW s
  PROVE  Cardinality({<<s, j>> : j \in S}) = Cardinality(S)
<1> DEFINE g == [j \in S |-> <<s, j>>]
           T == {<<s, j>> : j \in S}
<1>1. g \in Surjection(S, T)
  BY DEF Surjection
<1>2. g \in Injection(S, T)
  BY <1>1 DEF Surjection, Injection, IsInjective
<1>3. QED BY <1>1, <1>2, FS_Surjection

(* Without activity all have one score: the order is that of declaration.   *)
LEMMA ColdStart ==
  ASSUME LogInv, log = {}, prefs = NoPrefs
  PROVE  Offered = [n \in DOMAIN Rising(Candidates) |-> QUICK_ACTIONS[Rising(Candidates)[n]].key]
<1> DEFINE d == Rising(Candidates)
           o == InOrder(Rated)
           s == Score(0)
           before == [i \in Candidates |-> {j \in Candidates : j < i}]
<1>1. prefs.pinned = <<>> /\ prefs.hidden = {}
  BY DEF NoPrefs
<1>2. Unhidden = Candidates /\ Pinned = {} /\ ToSet(prefs.pinned) = {}
  BY <1>1 DEF Unhidden, Pinned, ToSet
<1>3. \A i : Score(i) = s
  <2>1. \A i : Score(i) = 3 * Worth({}) + Worth({})
    <3> SUFFICES ASSUME NEW i PROVE Score(i) = 3 * Worth({}) + Worth({})
      OBVIOUS
    <3> DEFINE recent == {e \in log : day - e.day < RankDays}
    <3>1. {e \in recent : e.action = QUICK_ACTIONS[i].key} = {} /\ {e \in recent : e.module = QUICK_ACTIONS[i].module} = {}
      OBVIOUS
    <3>2. QED BY <3>1 DEF Score
  <2>2. QED BY <2>1
<1> HIDE DEF s
<1>4. Unpinned = {<<s, i>> : i \in Candidates}
  BY <1>2, <1>3 DEF Unpinned
<1>5. IsFiniteSet(Candidates) /\ Candidates \subseteq Int /\ Candidates \subseteq Nat
  BY CandidatesFinite
<1>6. Lists(d, Candidates, before) /\ Ranking(Candidates, before)
  BY <1>5, RisingLists
<1>7. Ranking(Unpinned, Rated) /\ Lists(o, Unpinned, Rated)
  BY UnpinnedRated, InOrderLists
<1>8. s \in Nat
  BY ScoreNumber DEF s
<1>9. ASSUME NEW i \in Candidates
      PROVE  <<s, i>> \in Unpinned /\ Cardinality(Rated[<<s, i>>]) = Cardinality(before[i])
  <2>1. <<s, i>> \in Unpinned
    BY <1>4
  <2>2. Rated[<<s, i>>] = {y \in Unpinned : Ahead(y, <<s, i>>)}
    BY <2>1 DEF Rated
  <2>3. \A j \in Candidates : Ahead(<<s, j>>, <<s, i>>) <=> j < i
    BY <1>8 DEF Ahead
  <2>4. Rated[<<s, i>>] = {<<s, j>> : j \in before[i]}
    BY <1>4, <2>2, <2>3
  <2>5. IsFiniteSet(before[i])
    <3>1. before[i] \in SUBSET Candidates
      OBVIOUS
    <3>2. QED BY <1>5, <3>1, FS_Subset
  <2> HIDE DEF before
  <2>6. Cardinality({<<s, j>> : j \in before[i]}) = Cardinality(before[i])
    BY <2>5, PairsCount
  <2>7. QED BY <2>1, <2>4, <2>6
<1>10. Cardinality(Unpinned) = Cardinality(Candidates)
  BY <1>4, <1>5, PairsCount
<1>11. /\ DOMAIN d = 1 .. Cardinality(Candidates) /\ (\A n \in DOMAIN d : d[n] \in Candidates)
       /\ DOMAIN o = DOMAIN d /\ (\A n \in DOMAIN o : o[n] \in Unpinned)
  BY <1>6, <1>7, <1>10, ListedOnce
<1>12. /\ \A n \in DOMAIN d : Cardinality(before[d[n]]) = n - 1
       /\ \A n \in DOMAIN o : Cardinality(Rated[o[n]]) = n - 1
  BY <1>6, <1>7 DEF Lists
<1>13. \A i, j \in Candidates : Cardinality(before[i]) = Cardinality(before[j]) => i = j
  <2> SUFFICES ASSUME NEW i \in Candidates, NEW j \in Candidates, Cardinality(before[i]) = Cardinality(before[j]), i # j
               PROVE  FALSE
    OBVIOUS
  <2>1. i \in before[j] \/ j \in before[i]
    BY <1>6 DEF Ranking
  <2>2. /\ Cardinality(Candidates) \in Nat
        /\ \A x \in Candidates : Cardinality(before[x]) \in 0 .. Cardinality(Candidates) - 1
        /\ \A x, y \in Candidates : x \in before[y] => Cardinality(before[x]) < Cardinality(before[y])
    BY <1>6, PlaceIsRank
  <2> HIDE DEF before
  <2>3. Cardinality(before[i]) \in Int /\ Cardinality(before[j]) \in Int
    BY <2>2
  <2>4. QED BY <2>1, <2>2, <2>3
<1> HIDE DEF before, o, d
<1>14. \A n \in DOMAIN o : o[n][2] = d[n]
  <2> SUFFICES ASSUME NEW n \in DOMAIN o PROVE o[n][2] = d[n]
    OBVIOUS
  <2>1. PICK i \in Candidates : o[n] = <<s, i>>
    BY <1>4, <1>11
  <2>2. Cardinality(before[i]) = n - 1
    BY <1>9, <1>12, <2>1
  <2>3. d[n] \in Candidates /\ Cardinality(before[d[n]]) = n - 1
    BY <1>11, <1>12
  <2>4. i = d[n]
    BY <1>13, <2>2, <2>3
  <2>5. QED BY <2>1, <2>4
<1>15. OfferedRest = [n \in DOMAIN d |-> QUICK_ACTIONS[d[n]].key]
  <2>1. OfferedRest = [n \in DOMAIN o |-> QUICK_ACTIONS[o[n][2]].key]
    BY DEF OfferedRest, o
  <2>2. QED BY <1>11, <1>14, <2>1
<1>16. OfferedPins = <<>>
  <2>1. prefs \in PrefsAsked
    BY NoPrefsChosen
  <2>2. OfferedPins \in Seq(Shortcut) /\ \A k : k \notin ToSet(OfferedPins)
    BY <1>2, <2>1, PinsRight
  <2>3. \A i \in DOMAIN OfferedPins : FALSE
    BY <2>2 DEF ToSet
  <2>4. Len(OfferedPins) = 0
    BY <2>2, <2>3
  <2>5. QED BY <2>2, <2>4
<1>17. OfferedRest \in Seq(Shortcut)
  BY RestRight
<1>18. Offered = OfferedRest
  BY <1>16, <1>17, OfferedIs
<1>19. QED BY <1>15, <1>18 DEF d

LEMMA ActionsRight == ASSUME LogInv, prefs \in PrefsAsked PROVE ActionsOffered
BY OfferedOnce, ColdStart DEF ActionsOffered

DashboardInv == FeedInv /\ StripInv

LEMMA DashboardBegins == DashboardInit => DashboardInv
<1> SUFFICES ASSUME DashboardInit PROVE DashboardInv
  OBVIOUS
<1>1. /\ day = 0 /\ log = {} /\ feed = NoWalk /\ signal = [k \in Keys |-> 0] /\ dismissed = {} /\ prefs = NoPrefs
      /\ pending = [c \in Tab |-> NoRequest] /\ waved = <<>>
  BY DEF DashboardInit
<1>2. FeedInv
  BY <1>1, FS_EmptySet DEF FeedInv, LogInv, Walked, NoWalk
<1>3. \A c \in Tab : pending[c] = NoRequest /\ ~ Dismissing(c) /\ pending[c].op # "write"
  BY <1>1 DEF Dismissing, NoRequest
<1>4. pending \in [Tab -> Request] /\ prefs \in PrefsAsked
  BY <1>1, NoPrefsChosen
<1>5. waved \in Seq(Dismissal) /\ DOMAIN waved = {}
  BY <1>1
<1>6. StripInv
  BY <1>1, <1>3, <1>4, <1>5 DEF StripInv
<1>7. QED BY <1>2, <1>6 DEF DashboardInv

(* A walk through the feed gets every entry that it could, once; what is    *)
(* due is suggested or was dismissed, and what was dismissed stays away;    *)
(* every action that may be taken is offered once or was hidden: the        *)
(* dashboard of one person, whatever else happens meanwhile.                *)
THEOREM NobodyMisses == DashboardSpec => []NothingMissed
<1>1. DashboardInv /\ [DashboardNext]_dashboardVars => DashboardInv'
  BY FeedKept, StripKept DEF DashboardInv
<1>2. DashboardInv => NothingMissed
  <2> SUFFICES ASSUME DashboardInv PROVE NothingMissed
    OBVIOUS
  <2>1. FeedInv /\ StripInv /\ LogInv /\ prefs \in PrefsAsked
    BY DEF DashboardInv, FeedInv, StripInv
  <2>2. FeedWhole
    <3>1. Walked(feed, log)
      BY <2>1 DEF FeedInv
    <3>2. QED BY <3>1 DEF Walked, FeedWhole, ToSet
  <2>3. StripHonest /\ ActionsOffered
    BY <2>1, StripInvHonest, ActionsRight
  <2>4. QED BY <2>2, <2>3 DEF NothingMissed
<1>3. QED BY DashboardBegins, <1>1, <1>2, PTL DEF DashboardSpec
=============================================================================
