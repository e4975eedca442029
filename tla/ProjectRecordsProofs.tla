------------------------ MODULE ProjectRecordsProofs ------------------------
(***************************************************************************)
(* Proofs about what a project keeps and goes by: the configuration it is   *)
(* pinned to (Configurations), its documents and the gates they satisfy     *)
(* (Documents), who may decide for a position (Approvers), and the          *)
(* definitions its stages come from (ProjectSeed).  The four are            *)
(* specifications of their own; they share no variable.                     *)
(***************************************************************************)
EXTENDS Configurations, Documents, Approvers, ProjectSeed, SequenceTheorems, FiniteSetTheorems, TLAPS

-----------------------------------------------------------------------------
(***************************************************************************)
(* Proofs about the versions and the flags of project configurations.  Each *)
(* property needs what the requests under way have read: a publish, the     *)
(* parts it still has to write; a project, the version it will pin; a       *)
(* change of flags, the configuration it was allowed to change.             *)
(***************************************************************************)
Writers == {"create", "publish"}
Request0 == [op : {"idle", "publish", "create", "project", "promote"} \cup Flags,
             at : Config \cup {"none"}, version : 0 .. MaxVersion, left : SUBSET Parts,
             mine : BOOLEAN, raced : BOOLEAN]

TypeStored ==
  /\ state \in [Config -> {"absent", "live", "deleted"}]
  /\ default \subseteq Config /\ active \subseteq Config
  /\ current \in [Config -> Versions]
  /\ docs \in [Config -> [Versions -> SUBSET Parts]]
  /\ pins \subseteq Config \X Versions
  /\ partial \subseteq Config
  /\ mixed \in BOOLEAN /\ blocked \in BOOLEAN /\ contended \in BOOLEAN
TypeOK == TypeStored /\ req \in [Req -> Request0]

Placed ==
  \A r \in Req :
    /\ req[r].op # "idle" => req[r].at \in Config
    /\ req[r].op \in Writers \cup {"project"} => req[r].version \in Versions
    /\ req[r].op = "create" => req[r].version = 1
    /\ req[r].op = "publish" => req[r].version > 1

Shape == TypeOK /\ Placed

Written(r) == docs[req[r].at][req[r].version]

(* A version begins with its first stage; whoever wrote that is alone on    *)
(* the version, and writes what is not there.                               *)
OneWriter ==
  /\ \A c \in Config, v \in Versions : docs[c][v] # {} => "first" \in docs[c][v]
  /\ \A r \in Req : req[r].op \in Writers =>
       /\ ~ req[r].mine => req[r].left = {} \/ "first" \in req[r].left
       /\ req[r].mine => "first" \in Written(r) /\ req[r].left \cap Written(r) = {}
  /\ \A r, s \in Req : req[r].op \in Writers /\ req[s].op \in Writers /\ req[r].mine /\ req[s].mine
                          /\ req[r].at = req[s].at /\ req[r].version = req[s].version => r = s

(* A publish that met no other finds its number free.                       *)
AloneIsFree ==
  \A r \in Req : req[r].op = "publish" =>
    /\ ~ req[r].mine => "first" \in req[r].left
    /\ ~ req[r].raced =>
         /\ \A s \in Req : req[s].op = "publish" /\ req[s].at = req[r].at => s = r
         /\ ~ req[r].mine => "first" \notin Written(r)

PublishInv == OneWriter /\ AloneIsFree /\ VersionOfOnePublish

(* What is adopted and what is pinned is whole, or in a clone that is not.  *)
StandardStays == state[Standard] = "live" /\ \A r \in Req : req[r].op = "delete" => req[r].at # Standard
CurrentWhole  == \A c \in Live \ partial : Whole(c, current[c])
PublishesWhole ==
  \A r \in Req : req[r].op = "publish" /\ req[r].at \notin partial =>
    /\ req[r].mine => req[r].left \cup Written(r) = Parts
    /\ ~ req[r].mine => req[r].left = Parts
Pins(c, v)   == (c \in partial \/ Whole(c, v)) /\ (current[c] = 1 => v = 1)
ProjectsWhole == \A r \in Req : req[r].op = "project" => Pins(req[r].at, req[r].version)
PinsWhole     == \A x \in pins : Pins(x[1], x[2])

PinInv == StandardStays /\ CurrentWhole /\ PublishesWhole /\ ProjectsWhole /\ PinsWhole

(* One change of flags at a time: between its steps there is at most one    *)
(* default, and what it switches off or deletes is not the default.         *)
FlagInv ==
  /\ \A c \in default : state[c] # "absent"
  /\ \A r \in Req : req[r].op \in {"default", "promote"} => state[req[r].at] # "absent"
  /\ ~ contended =>
       /\ \A r, s \in Managing : r = s
       /\ \A r \in Req : req[r].op \in {"default", "promote"} => req[r].at \in Live
       /\ \A r \in Req : req[r].op \in {"off", "delete"} => req[r].at \notin default
       /\ \A r \in Req : req[r].op = "promote" => default \cap Live \subseteq {req[r].at}
       /\ \/ \E r \in Req : req[r].op = "promote"
          \/ \E d \in Live \cap active : default \cap Live = {d}

IInv == Shape /\ PublishInv /\ PinInv /\ FlagInv
-----------------------------------------------------------------------------
LEMMA IdleType == Idle \in Request0 /\ Idle.op = "idle" /\ Idle.mine = FALSE
BY BoundsAssumption DEF Idle, Request0, Flags, Parts

LEMMA InitRight == Init => IInv
<1> SUFFICES ASSUME Init PROVE IInv
  OBVIOUS
<1>1. \A r \in Req : req[r] = Idle /\ req[r].op = "idle"
  BY IdleType DEF Init
<1>2. 1 \in Versions /\ Standard \in Config
  BY BoundsAssumption, ConfigAssumption DEF Versions
<1>3. TypeOK
  BY <1>1, <1>2, IdleType DEF Init, TypeOK, TypeStored, Versions
<1>4. Placed
  BY <1>1 DEF Placed, Writers
<1>5. PublishInv
  BY <1>1 DEF PublishInv, OneWriter, AloneIsFree, VersionOfOnePublish, Init, Parts, Writers
<1>6. PinInv
  BY <1>1, <1>2 DEF PinInv, StandardStays, CurrentWhole, PublishesWhole, ProjectsWhole, PinsWhole,
                    Init, Live, Whole
<1>7. FlagInv
  BY <1>1, <1>2 DEF FlagInv, Init, Live, Managing, Flags
<1>8. QED BY <1>3, <1>4, <1>5, <1>6, <1>7 DEF IInv, Shape

LEMMA Answers == IInv => VersionOfOnePublish /\ PinnedWhole /\ OneDefault
<1> SUFFICES ASSUME IInv PROVE VersionOfOnePublish /\ PinnedWhole /\ OneDefault
  OBVIOUS
<1>1. VersionOfOnePublish
  BY DEF IInv, PublishInv
<1>2. PinnedWhole
  <2>1. \A c \in Live \ partial : Whole(c, current[c])
    BY DEF IInv, PinInv, CurrentWhole
  <2>2. \A x \in pins : x[1] \in partial \/ Whole(x[1], x[2])
    BY DEF IInv, PinInv, PinsWhole, Pins
  <2>3. QED BY <2>1, <2>2 DEF PinnedWhole
<1>3. OneDefault
  BY DEF IInv, FlagInv, OneDefault, Managing, Flags
<1>4. QED BY <1>1, <1>2, <1>3
-----------------------------------------------------------------------------
(* How a step moves the requests: r becomes q, and the others stay, but for *)
(* the publishes that q joins.                                              *)
Stays(x) == /\ req'[x].op = req[x].op /\ req'[x].at = req[x].at /\ req'[x].version = req[x].version
            /\ req'[x].left = req[x].left /\ req'[x].mine = req[x].mine

LEMMA BecomeFacts ==
  ASSUME TypeOK, NEW r \in Req, NEW q \in Request0, Become(r, q)
  PROVE  /\ req' \in [Req -> Request0] /\ req'[r] = q
         /\ \A x \in Req \ {r} : req'[x] = req[x]
BY DEF Become, TypeOK

LEMMA BeginFacts ==
  ASSUME TypeOK, NEW r \in Req, NEW q \in Request0, Begin(r, q)
  PROVE  /\ req' \in [Req -> Request0] /\ req[r].op = "idle"
         /\ req'[r].op = q.op /\ req'[r].at = q.at /\ req'[r].version = q.version
         /\ req'[r].left = q.left /\ req'[r].mine = q.mine
         /\ \A x \in Req \ {r} : Stays(x)
         /\ q.op # "publish" => \A x \in Req \ {r} : req'[x] = req[x]
         /\ q.op = "publish" =>
              /\ req'[r].raced = (Publishing(q.at) # {})
              /\ \A x \in Req \ {r} : IF x \in Publishing(q.at) THEN req'[x].raced ELSE req'[x] = req[x]
<1> DEFINE met == IF q.op = "publish" THEN Publishing(q.at) ELSE {}
<1>1. /\ req[r].op = "idle"
      /\ req' = [x \in Req |-> IF x = r THEN [q EXCEPT !.raced = (met # {})]
                               ELSE IF x \in met THEN [req[x] EXCEPT !.raced = TRUE] ELSE req[x]]
  BY DEF Begin, Does
<1>2. \A x \in Req : req[x] \in Request0
  BY DEF TypeOK, TypeStored
<1> HIDE DEF met
<1>3. [q EXCEPT !.raced = (met # {})] \in Request0
  BY DEF Request0
<1>4. \A x \in Req : [req[x] EXCEPT !.raced = TRUE] \in Request0
  BY <1>2 DEF Request0
<1>5. req' \in [Req -> Request0]
  BY <1>1, <1>2, <1>3, <1>4
<1>6. /\ req'[r].op = q.op /\ req'[r].at = q.at /\ req'[r].version = q.version
      /\ req'[r].left = q.left /\ req'[r].mine = q.mine /\ req'[r].raced = (met # {})
  BY <1>1 DEF Request0
<1>7. \A x \in Req \ {r} : Stays(x) /\ IF x \in met THEN req'[x].raced ELSE req'[x] = req[x]
  BY <1>1, <1>2 DEF Request0, Stays
<1>8. QED BY <1>1, <1>5, <1>6, <1>7 DEF met
(* The parts of the invariant under a step that does not concern them.      *)
LEMMA PublishQuiet ==
  ASSUME IInv, UNCHANGED <<docs, mixed, blocked>>,
         \A x \in Req : req'[x] = req[x] \/ req'[x].op \notin Writers
  PROVE  PublishInv'
<1> USE DEF IInv, PublishInv, Writers
<1>1. OneWriter'
  BY DEF OneWriter, Written
<1>2. AloneIsFree'
  BY DEF AloneIsFree, Written
<1>3. QED BY <1>1, <1>2 DEF VersionOfOnePublish

LEMMA PinQuiet ==
  ASSUME IInv, UNCHANGED <<docs, current, pins>>, Live' \ partial' \subseteq Live \ partial,
         partial \subseteq partial', state'[Standard] = "live",
         \A x \in Req : Stays(x) \/ req'[x].op \notin {"publish", "project", "delete"}
  PROVE  PinInv'
<1> USE DEF IInv, PinInv, Stays
<1>1. StandardStays'
  BY DEF StandardStays
<1>2. CurrentWhole'
  BY DEF CurrentWhole, Whole
<1>3. PublishesWhole'
  BY DEF PublishesWhole, Written
<1>4. ProjectsWhole' /\ PinsWhole'
  BY DEF ProjectsWhole, PinsWhole, Pins, Whole
<1>5. QED BY <1>1, <1>2, <1>3, <1>4

LEMMA FlagQuiet ==
  ASSUME IInv, UNCHANGED <<state, default, active, contended>>,
         \A x \in Req : \/ Stays(x)
                        \/ /\ req'[x].op \notin Flags \cup {"promote"}
                           /\ req[x].op \notin Flags \cup {"promote"}
  PROVE  FlagInv'
<1>1. Live' = Live
  BY DEF Live
<1>2. \A x \in Req : req'[x].op \in Flags \cup {"promote"} => Stays(x)
  OBVIOUS
<1>3. \A x \in Req : req[x].op \in Flags \cup {"promote"} => Stays(x)
  OBVIOUS
<1>4. Managing' = Managing
  BY <1>2, <1>3 DEF Managing, Stays
<1>5. \A x \in Req : req'[x].op \in Flags \cup {"promote"} =>
                       req'[x].op = req[x].op /\ req'[x].at = req[x].at
  BY <1>2 DEF Stays
<1>6. \A x \in Req : req[x].op \in Flags \cup {"promote"} => req'[x].op = req[x].op /\ req'[x].at = req[x].at
  BY <1>3 DEF Stays
<1>7. QED BY <1>1, <1>4, <1>5, <1>6 DEF IInv, FlagInv, Flags
-----------------------------------------------------------------------------
(* The shape of a request that begins, goes on or ends.                     *)
LEMMA ShapeKept ==
  ASSUME Shape, NEW r \in Req, NEW q \in Request0, Begin(r, q) \/ Become(r, q),
         TypeStored',
         q.op # "idle" => q.at \in Config,
         q.op \in Writers \cup {"project"} => q.version \in Versions,
         q.op = "create" => q.version = 1,
         q.op = "publish" => q.version > 1
  PROVE  Shape'
<1>1. TypeOK
  BY DEF Shape
<1>2. /\ req' \in [Req -> Request0]
      /\ req'[r].op = q.op /\ req'[r].at = q.at /\ req'[r].version = q.version
      /\ \A x \in Req \ {r} : Stays(x)
  BY <1>1, BeginFacts, BecomeFacts DEF Stays
<1>3. TypeOK'
  BY <1>2 DEF TypeOK, TypeStored
<1>4. Placed'
  BY <1>2 DEF Shape, Placed, Stays
<1>5. QED BY <1>3, <1>4 DEF Shape
LEMMA CreateStep ==
  ASSUME IInv, NEW r \in Req, NEW c \in Config, NEW base \in Config, CreateConfiguration(r, c, base)
  PROVE  IInv'
<1> DEFINE q == [Idle EXCEPT !.op = "create", !.at = c, !.version = 1, !.left = Scope(base)]
<1>1. /\ state[c] = "absent" /\ base \in Live /\ Begin(r, q)
      /\ state' = [state EXCEPT ![c] = "live"] /\ active' = active \cup {c} /\ partial' = partial \cup {c}
      /\ UNCHANGED <<default, current, docs, pins, mixed, blocked, contended>>
  BY DEF CreateConfiguration
<1>2. /\ TypeOK /\ current[base] \in Versions /\ Scope(base) \in SUBSET Parts
      /\ 1 \in 0 .. MaxVersion /\ 1 \in Versions
  BY BoundsAssumption DEF IInv, Shape, TypeOK, TypeStored, Scope, Versions
<1>3. /\ q \in Request0 /\ q.op = "create" /\ q.at = c /\ q.version = 1 /\ q.left = Scope(base)
      /\ q.mine = FALSE
  BY <1>2, IdleType DEF Request0
<1> HIDE DEF q
<1>4. /\ req'[r].op = "create" /\ req'[r].at = c /\ req'[r].version = 1 /\ req'[r].left = Scope(base)
      /\ req'[r].mine = FALSE /\ req[r].op = "idle" /\ \A x \in Req \ {r} : req'[x] = req[x]
  BY <1>1, <1>2, <1>3, BeginFacts
<1>5. Shape'
  <2>1. TypeStored'
    BY <1>1, <1>2 DEF TypeOK, TypeStored
  <2>2. QED BY <1>1, <1>2, <1>3, <2>1, ShapeKept DEF IInv
<1>6. PublishInv'
  <2>1. OneWriter'
    <3>1. Scope(base) = {} \/ "first" \in Scope(base)
      BY <1>2 DEF IInv, PublishInv, OneWriter, Scope
    <3>2. QED BY <1>1, <1>4, <3>1 DEF IInv, PublishInv, OneWriter, Written
  <2>2. AloneIsFree'
    BY <1>1, <1>4 DEF IInv, PublishInv, AloneIsFree, Written
  <2>3. QED BY <1>1, <2>1, <2>2 DEF IInv, PublishInv, VersionOfOnePublish
<1>7. PinInv'
  <2>1. Live' = Live \cup {c} /\ state'[Standard] = "live"
    BY <1>1, <1>2, ConfigAssumption DEF Live, IInv, PinInv, StandardStays, TypeOK, TypeStored
  <2>2. QED BY <1>1, <1>4, <2>1, PinQuiet DEF Stays
<1>8. FlagInv'
  <2>1. /\ Live' = Live \cup {c} /\ c \notin default /\ c \notin Live
        /\ \A x \in Config : state[x] # "absent" => state'[x] # "absent"
    BY <1>1, <1>2 DEF Live, IInv, FlagInv, TypeOK, TypeStored
  <2>2. \A x \in Req : req'[x].op \in Flags \cup {"promote"} => req'[x] = req[x]
    BY <1>4 DEF Flags
  <2>3. Managing' = Managing
    BY <1>4 DEF Managing, Flags
  <2>4. default \cap Live' = default \cap Live
    BY <2>1
  <2>5. \A x \in Req : req[x].op # "idle" => req[x].at \in Config
    BY DEF IInv, Shape, Placed
  <2>6. /\ \A x \in default' : state'[x] # "absent"
        /\ \A x \in Req : req'[x].op \in {"default", "promote"} => state'[req'[x].at] # "absent"
    BY <1>1, <1>2, <2>1, <2>2, <2>5 DEF IInv, FlagInv, Flags, TypeOK, TypeStored
  <2>7. ASSUME ~ contended
        PROVE  /\ \A x, s \in Managing : x = s
               /\ \A x \in Req : req'[x].op \in {"default", "promote"} => req'[x].at \in Live'
               /\ \A x \in Req : req'[x].op \in {"off", "delete"} => req'[x].at \notin default
               /\ \A x \in Req : req'[x].op = "promote" => default \cap Live' \subseteq {req'[x].at}
    BY <2>1, <2>2, <2>4, <2>7 DEF IInv, FlagInv, Flags
  <2>8. ASSUME ~ contended, \A x \in Req : req'[x].op # "promote"
        PROVE  \E d \in Live' \cap active' : default \cap Live' = {d}
    <3>1. \A x \in Req : req[x].op # "promote"
      BY <1>4, <2>8
    <3>2. PICK d \in Live \cap active : default \cap Live = {d}
      BY <2>8, <3>1 DEF IInv, FlagInv
    <3>3. QED BY <1>1, <2>1, <2>4, <3>2
  <2>9. QED BY <1>1, <2>3, <2>6, <2>7, <2>8 DEF FlagInv
<1>9. QED BY <1>5, <1>6, <1>7, <1>8 DEF IInv

LEMMA PublishStep ==
  ASSUME IInv, NEW r \in Req, NEW c \in Config, PublishVersion(r, c)
  PROVE  IInv'
<1>1. PICK v \in Versions :
        IsNext(c, v) /\ Begin(r, [Idle EXCEPT !.op = "publish", !.at = c, !.version = v,
                                             !.left = Scope(c) \cup {"gates"}])
  BY DEF PublishVersion
<1> DEFINE q == [Idle EXCEPT !.op = "publish", !.at = c, !.version = v, !.left = Scope(c) \cup {"gates"}]
<1>2. /\ c \in Live /\ "first" \in Scope(c)
      /\ UNCHANGED <<configVars, docs, pins, historyVars>>
  BY DEF PublishVersion
<1>3. /\ TypeOK /\ current[c] \in Versions /\ Scope(c) \in SUBSET Parts /\ v \in 0 .. MaxVersion
  BY BoundsAssumption DEF IInv, Shape, TypeOK, TypeStored, Scope, Versions
<1>4. v > 1 /\ "first" \notin docs[c][v]
  BY <1>1, <1>3, BoundsAssumption DEF IsNext, Taken, Versions
<1>5. /\ q \in Request0 /\ q.op = "publish" /\ q.at = c /\ q.version = v /\ q.left = Scope(c) \cup {"gates"}
      /\ q.mine = FALSE
  <2>1. Scope(c) \cup {"gates"} \in SUBSET Parts
    BY <1>3 DEF Parts
  <2>2. QED BY <1>3, <2>1, IdleType DEF Request0
<1>6. Begin(r, q)
  BY <1>1
<1> HIDE DEF q
<1>7. /\ req'[r].op = "publish" /\ req'[r].at = c /\ req'[r].version = v
      /\ req'[r].left = Scope(c) \cup {"gates"} /\ req'[r].mine = FALSE /\ req[r].op = "idle"
      /\ req'[r].raced = (Publishing(c) # {})
      /\ \A x \in Req \ {r} : Stays(x) /\ IF x \in Publishing(c) THEN req'[x].raced ELSE req'[x] = req[x]
  BY <1>3, <1>5, <1>6, BeginFacts
<1>8. Shape'
  <2>1. TypeStored'
    BY <1>2, <1>3 DEF TypeOK, TypeStored, configVars, historyVars
  <2>2. QED BY <1>3, <1>4, <1>5, <1>6, <2>1, ShapeKept DEF IInv, Writers
<1>9. OneWriter'
  <2>1. \A x \in Req : req'[x].op \in Writers =>
          /\ ~ req'[x].mine => req'[x].left = {} \/ "first" \in req'[x].left
          /\ req'[x].mine => "first" \in docs[req'[x].at][req'[x].version]
                             /\ req'[x].left \cap docs[req'[x].at][req'[x].version] = {}
    BY <1>2, <1>7 DEF IInv, PublishInv, OneWriter, Written, Stays
  <2>2. \A x, s \in Req : req'[x].op \in Writers /\ req'[s].op \in Writers /\ req'[x].mine /\ req'[s].mine
                          /\ req'[x].at = req'[s].at /\ req'[x].version = req'[s].version => x = s
    BY <1>7 DEF IInv, PublishInv, OneWriter, Stays
  <2>3. QED BY <1>2, <2>1, <2>2 DEF IInv, PublishInv, OneWriter, Written
<1>10. AloneIsFree'
  <2> SUFFICES ASSUME NEW x \in Req, req'[x].op = "publish"
               PROVE  /\ ~ req'[x].mine => "first" \in req'[x].left
                      /\ ~ req'[x].raced =>
                           /\ \A s \in Req : req'[s].op = "publish" /\ req'[s].at = req'[x].at => s = x
                           /\ ~ req'[x].mine => "first" \notin docs'[req'[x].at][req'[x].version]
    BY DEF AloneIsFree, Written
  <2>1. CASE x = r
    <3>1. ~ req'[r].raced => \A s \in Req \ {r} : req'[s].op = "publish" => req'[s].at # c
      BY <1>7 DEF Publishing, Does, Stays
    <3>2. "first" \in req'[r].left /\ "first" \notin docs'[req'[r].at][req'[r].version]
      BY <1>2, <1>4, <1>7
    <3>3. QED BY <1>7, <2>1, <3>1, <3>2
  <2>2. CASE x # r
    <3>1. req[x].op = "publish" /\ req'[x].mine = req[x].mine /\ req'[x].left = req[x].left
          /\ req'[x].at = req[x].at /\ req'[x].version = req[x].version
      BY <1>7, <2>2 DEF Stays
    <3>2. ~ req'[x].raced => req[x].at # c /\ ~ req[x].raced
      BY <1>7, <2>2, <3>1 DEF Publishing, Does
    <3>3. ~ req'[x].raced => \A s \in Req : req'[s].op = "publish" /\ req'[s].at = req'[x].at => s = x
      BY <1>7, <3>1, <3>2 DEF IInv, PublishInv, AloneIsFree, Stays
    <3>4. QED BY <1>2, <3>1, <3>2, <3>3 DEF IInv, PublishInv, AloneIsFree, Written
  <2>3. QED BY <2>1, <2>2
<1>11. PublishInv'
  BY <1>2, <1>9, <1>10 DEF IInv, PublishInv, VersionOfOnePublish, historyVars
<1>12. PinInv'
  <2>1. c \notin partial => Scope(c) \cup {"gates"} = Parts
    BY <1>2 DEF IInv, PinInv, CurrentWhole, Whole, Scope, Parts
  <2>2. \A x \in Req : req'[x].op = "publish" /\ req'[x].at \notin partial =>
          /\ req'[x].mine => req'[x].left \cup docs[req'[x].at][req'[x].version] = Parts
          /\ ~ req'[x].mine => req'[x].left = Parts
    BY <1>7, <2>1 DEF IInv, PinInv, PublishesWhole, Written, Stays
  <2>3. PublishesWhole'
    BY <1>2, <2>2 DEF PublishesWhole, Written, historyVars
  <2>4. StandardStays' /\ ProjectsWhole'
    BY <1>2, <1>7 DEF IInv, PinInv, StandardStays, ProjectsWhole, Pins, Whole, Stays, configVars, historyVars
  <2>5. CurrentWhole' /\ PinsWhole'
    BY <1>2 DEF IInv, PinInv, CurrentWhole, PinsWhole, Pins, Whole, Live, configVars, historyVars
  <2>6. QED BY <2>3, <2>4, <2>5 DEF PinInv
<1>13. FlagInv'
  <2>1. \A x \in Req : \/ Stays(x)
                       \/ /\ req'[x].op \notin Flags \cup {"promote"}
                          /\ req[x].op \notin Flags \cup {"promote"}
    BY <1>7 DEF Flags
  <2>2. UNCHANGED <<state, default, active, contended>>
    BY <1>2 DEF configVars, historyVars
  <2>3. QED BY <2>1, <2>2, FlagQuiet
<1>14. QED BY <1>8, <1>11, <1>12, <1>13 DEF IInv
LEMMA WriteStep == ASSUME IInv, NEW r \in Req, WritePart(r) PROVE IInv'
<1> DEFINE c == req[r].at
           v == req[r].version
           p == Following(req[r].left)
           q == [req[r] EXCEPT !.left = @ \ {p}, !.mine = TRUE]
<1>1. /\ req[r].op \in Writers /\ req[r].left # {} /\ p \notin docs[c][v]
      /\ docs' = [docs EXCEPT ![c][v] = @ \cup {p}]
      /\ mixed' = (mixed \/ (docs[c][v] # {} /\ ~ req[r].mine))
      /\ Become(r, q) /\ UNCHANGED <<configVars, pins, partial, blocked, contended>>
  BY DEF WritePart, Free, Writers
<1>2. /\ TypeOK /\ req[r] \in Request0 /\ c \in Config /\ v \in Versions
      /\ docs \in [Config -> [Versions -> SUBSET Parts]] /\ p \in req[r].left /\ p \in Parts
  <2>1. TypeOK /\ req[r] \in Request0 /\ c \in Config /\ v \in Versions
        /\ docs \in [Config -> [Versions -> SUBSET Parts]]
    BY <1>1 DEF IInv, Shape, Placed, TypeOK, TypeStored, Writers
  <2>2. req[r].left \subseteq Parts
    BY <2>1 DEF Request0
  <2>3. QED BY <1>1, <2>1, <2>2 DEF Following, Parts
<1>3. /\ q \in Request0 /\ q.op = req[r].op /\ q.at = c /\ q.version = v
      /\ q.left = req[r].left \ {p} /\ q.mine = TRUE /\ q.raced = req[r].raced
  BY <1>2 DEF Request0
<1> HIDE DEF q
<1>4. /\ req'[r] = q /\ \A x \in Req \ {r} : req'[x] = req[x]
  BY <1>1, <1>2, <1>3, BecomeFacts
<1>5. \A x \in Config, w \in Versions :
        docs'[x][w] = IF x = c /\ w = v THEN docs[x][w] \cup {p} ELSE docs[x][w]
  BY <1>1, <1>2
<1>6. docs' \in [Config -> [Versions -> SUBSET Parts]]
  BY <1>1, <1>2
<1>7. ~ req[r].mine => p = "first" /\ docs[c][v] = {}
  BY <1>1, <1>2 DEF IInv, PublishInv, OneWriter, Following
<1>8. req[r].mine => "first" \in docs[c][v] /\ req[r].left \cap docs[c][v] = {}
  BY <1>1 DEF IInv, PublishInv, OneWriter, Written
<1>9. ~ mixed' /\ ~ blocked'
  BY <1>1, <1>7 DEF IInv, PublishInv, VersionOfOnePublish
<1>10. \A x \in Req : req[x].op \in Writers \cup {"project"} => req[x].at \in Config /\ req[x].version \in Versions
  BY DEF IInv, Shape, Placed, Writers
<1> HIDE DEF c, v, p
<1>11. Shape'
  <2>1. TypeStored'
    BY <1>1, <1>2, <1>6, <1>9 DEF TypeOK, TypeStored, configVars
  <2>2. /\ q.op # "idle" => q.at \in Config
        /\ q.op \in Writers \cup {"project"} => q.version \in Versions
        /\ q.op = "create" => q.version = 1
        /\ q.op = "publish" => q.version > 1
    BY <1>1, <1>2, <1>3 DEF IInv, Shape, Placed, c, v
  <2>3. QED BY <1>1, <1>3, <2>1, <2>2, ShapeKept DEF IInv
<1>12. "first" \in docs'[c][v] /\ q.left \cap docs'[c][v] = {}
  <2>1. docs'[c][v] = docs[c][v] \cup {p}
    BY <1>2, <1>5
  <2>2. CASE req[r].mine
    BY <1>3, <1>8, <2>1, <2>2
  <2>3. CASE ~ req[r].mine
    BY <1>3, <1>7, <2>1, <2>3
  <2>4. QED BY <2>2, <2>3
<1>13. \A x \in Req \ {r} : req[x].op \in Writers /\ req[x].mine => ~ (req[x].at = c /\ req[x].version = v)
  <2> SUFFICES ASSUME NEW x \in Req \ {r}, req[x].op \in Writers, req[x].mine,
                      req[x].at = c, req[x].version = v
               PROVE  FALSE
    OBVIOUS
  <2>1. "first" \in docs[c][v]
    BY DEF IInv, PublishInv, OneWriter, Written
  <2>2. req[r].mine
    BY <1>2, <1>7, <2>1 DEF Request0
  <2>3. QED BY <1>1, <2>2 DEF IInv, PublishInv, OneWriter, c, v
<1>14. OneWriter'
  <2>1. \A x \in Config, w \in Versions : docs'[x][w] # {} => "first" \in docs'[x][w]
    BY <1>5, <1>12 DEF IInv, PublishInv, OneWriter
  <2>2. \A x \in Req : req'[x].op \in Writers =>
          /\ ~ req'[x].mine => req'[x].left = {} \/ "first" \in req'[x].left
          /\ req'[x].mine => "first" \in docs'[req'[x].at][req'[x].version]
                             /\ req'[x].left \cap docs'[req'[x].at][req'[x].version] = {}
    <3> SUFFICES ASSUME NEW x \in Req, req'[x].op \in Writers
                 PROVE  /\ ~ req'[x].mine => req'[x].left = {} \/ "first" \in req'[x].left
                        /\ req'[x].mine => "first" \in docs'[req'[x].at][req'[x].version]
                                           /\ req'[x].left \cap docs'[req'[x].at][req'[x].version] = {}
      OBVIOUS
    <3>1. CASE x = r
      BY <1>3, <1>4, <1>12, <3>1
    <3>2. CASE x # r
      <4>1. /\ ~ req[x].mine => req[x].left = {} \/ "first" \in req[x].left
            /\ req[x].mine => "first" \in docs[req[x].at][req[x].version]
                             /\ req[x].left \cap docs[req[x].at][req[x].version] = {}
        BY <1>4, <3>2 DEF IInv, PublishInv, OneWriter, Written
      <4>2. req[x].mine => docs'[req[x].at][req[x].version] = docs[req[x].at][req[x].version]
        <5>1. req'[x] = req[x] /\ req[x].op \in Writers
          BY <1>4, <3>2
        <5>2. req[x].at \in Config /\ req[x].version \in Versions
          BY <1>10, <5>1
        <5>3. req[x].mine => ~ (req[x].at = c /\ req[x].version = v)
          BY <1>13, <3>2, <5>1
        <5>4. QED BY <1>5, <5>2, <5>3
      <4>3. QED BY <1>4, <3>2, <4>1, <4>2
    <3>3. QED BY <3>1, <3>2
  <2>3. \A x, s \in Req : req'[x].op \in Writers /\ req'[s].op \in Writers /\ req'[x].mine /\ req'[s].mine
                          /\ req'[x].at = req'[s].at /\ req'[x].version = req'[s].version => x = s
    BY <1>3, <1>4, <1>13 DEF IInv, PublishInv, OneWriter
  <2>4. QED BY <2>1, <2>2, <2>3 DEF OneWriter, Written
<1>15. AloneIsFree'
  <2> SUFFICES ASSUME NEW x \in Req, req'[x].op = "publish"
               PROVE  /\ ~ req'[x].mine => "first" \in req'[x].left
                      /\ ~ req'[x].raced =>
                           /\ \A s \in Req : req'[s].op = "publish" /\ req'[s].at = req'[x].at => s = x
                           /\ ~ req'[x].mine => "first" \notin docs'[req'[x].at][req'[x].version]
    BY DEF AloneIsFree, Written
  <2>1. \A s \in Req : req'[s].op = req[s].op /\ req'[s].at = req[s].at /\ req'[s].version = req[s].version
                      /\ req'[s].raced = req[s].raced
    BY <1>3, <1>4 DEF c, v
  <2>2. ~ req'[x].raced => \A s \in Req : req'[s].op = "publish" /\ req'[s].at = req'[x].at => s = x
    BY <2>1 DEF IInv, PublishInv, AloneIsFree
  <2>3. CASE x = r
    BY <1>3, <1>4, <2>2, <2>3
  <2>4. CASE x # r
    <3>1. ~ req'[x].raced => ~ (req[x].at = c /\ req[x].version = v)
      BY <1>1, <2>1, <2>2, <2>4 DEF IInv, Shape, Placed, Writers, c, v
    <3>2. req'[x] = req[x] /\ req[x].op = "publish"
      BY <1>4, <2>4
    <3>3. /\ ~ req[x].mine => "first" \in req[x].left
          /\ ~ req[x].raced /\ ~ req[x].mine => "first" \notin docs[req[x].at][req[x].version]
      BY <3>2 DEF IInv, PublishInv, AloneIsFree, Written
    <3>4. ~ req'[x].raced => docs'[req[x].at][req[x].version] = docs[req[x].at][req[x].version]
      BY <1>5, <1>10, <3>1, <3>2 DEF Writers
    <3>5. QED BY <2>2, <3>2, <3>3, <3>4
  <2>5. QED BY <2>3, <2>4
<1>16. PinInv'
  <2>1. \A x \in Config, w \in Versions : docs[x][w] = Parts => docs'[x][w] = Parts
    <3> TAKE x \in Config, w \in Versions
    <3> HAVE docs[x][w] = Parts
    <3>1. docs'[x][w] = IF x = c /\ w = v THEN Parts \cup {p} ELSE Parts
      BY <1>5
    <3>2. QED BY <1>2, <3>1
  <2>2. /\ Live' = Live /\ UNCHANGED <<state, current, pins, partial>> /\ Live \subseteq Config
        /\ current \in [Config -> Versions] /\ pins \subseteq Config \X Versions
    BY <1>1, <1>2 DEF configVars, Live, TypeOK, TypeStored
  <2>3. \A s \in Req : req'[s].op = req[s].op /\ req'[s].at = req[s].at /\ req'[s].version = req[s].version
    BY <1>3, <1>4 DEF c, v
  <2>4. StandardStays'
    BY <2>2, <2>3 DEF IInv, PinInv, StandardStays
  <2>5. CurrentWhole'
    BY <2>1, <2>2 DEF IInv, PinInv, CurrentWhole, Whole
  <2>6. PublishesWhole'
    <3> SUFFICES ASSUME NEW x \in Req, req'[x].op = "publish", req'[x].at \notin partial
                 PROVE  /\ req'[x].mine => req'[x].left \cup docs'[req'[x].at][req'[x].version] = Parts
                        /\ ~ req'[x].mine => req'[x].left = Parts
      BY <2>2 DEF PublishesWhole, Written
    <3>1. /\ req[x].mine => req[x].left \cup docs[req[x].at][req[x].version] = Parts
          /\ ~ req[x].mine => req[x].left = Parts
      BY <2>3 DEF IInv, PinInv, PublishesWhole, Written
    <3>2. CASE x = r
      <4>1. req[r].mine \in BOOLEAN /\ docs[c][v] \subseteq Parts /\ req[r].left \subseteq Parts
        BY <1>2 DEF Request0
      <4>2. req[r].left \cup docs[c][v] = Parts
        BY <3>1, <3>2, <4>1 DEF c, v
      <4>3. docs'[c][v] = docs[c][v] \cup {p}
        BY <1>2, <1>5
      <4>4. (req[r].left \ {p}) \cup (docs[c][v] \cup {p}) = Parts
        BY <1>2, <4>2
      <4>5. QED BY <1>3, <1>4, <3>2, <4>3, <4>4
    <3>3. CASE x # r
      <4>1. req'[x] = req[x] /\ req[x].op = "publish" /\ req[x].at \in Config /\ req[x].version \in Versions
        BY <1>4, <1>10, <3>3 DEF Writers
      <4>2. req[x].left \cup docs[req[x].at][req[x].version] = Parts =>
              req[x].left \cup docs'[req[x].at][req[x].version] = Parts
        <5>1. docs'[req[x].at][req[x].version] \in
                {docs[req[x].at][req[x].version], docs[req[x].at][req[x].version] \cup {p}}
          BY <1>5, <4>1
        <5>2. QED BY <1>2, <5>1
      <4>3. QED BY <3>1, <4>1, <4>2
    <3>4. QED BY <3>2, <3>3
  <2>7. ProjectsWhole' /\ PinsWhole'
    BY <1>10, <2>1, <2>2, <2>3 DEF IInv, PinInv, ProjectsWhole, PinsWhole, Pins, Whole
  <2>8. QED BY <2>4, <2>5, <2>6, <2>7 DEF PinInv
<1>17. FlagInv'
  <2>1. \A x \in Req : \/ Stays(x)
                       \/ /\ req'[x].op \notin Flags \cup {"promote"}
                          /\ req[x].op \notin Flags \cup {"promote"}
    BY <1>1, <1>3, <1>4 DEF Flags, Stays, Writers
  <2>2. UNCHANGED <<state, default, active, contended>>
    BY <1>1 DEF configVars
  <2>3. QED BY <2>1, <2>2, FlagQuiet
<1>18. QED BY <1>9, <1>11, <1>14, <1>15, <1>16, <1>17 DEF IInv, PublishInv, VersionOfOnePublish
(* A step that ends the request of r.                                       *)
LEMMA DoneFacts ==
  ASSUME IInv, NEW r \in Req, Done(r)
  PROVE  /\ Become(r, Idle) /\ TypeOK /\ req'[r].op = "idle"
         /\ \A x \in Req \ {r} : req'[x] = req[x] /\ Stays(x)
         /\ TypeStored' => Shape'
<1>1. Become(r, Idle) /\ TypeOK
  BY DEF Done, IInv, Shape
<1>2. req'[r] = Idle /\ \A x \in Req \ {r} : req'[x] = req[x]
  BY <1>1, IdleType, BecomeFacts
<1>3. TypeStored' => Shape'
  BY <1>1, IdleType, ShapeKept DEF IInv, Writers
<1>4. QED BY <1>1, <1>2, <1>3, IdleType DEF Stays

(* A publish is refused only if it met another.                             *)
LEMMA RefuseStep == ASSUME IInv, NEW r \in Req, Refuse(r) PROVE IInv'
<1>1. /\ req[r].op = "publish" /\ req[r].left # {} /\ Following(req[r].left) \in Written(r)
      /\ blocked' = (blocked \/ ~ req[r].raced) /\ Done(r)
      /\ UNCHANGED <<configVars, docs, pins, partial, mixed, contended>>
  BY DEF Refuse, Does, Free, Written
<1>2. /\ TypeOK /\ req'[r].op = "idle" /\ \A x \in Req \ {r} : req'[x] = req[x] /\ Stays(x)
      /\ TypeStored' => Shape'
  BY <1>1, DoneFacts
<1>3. req[r].raced
  <2>1. req[r].mine => Following(req[r].left) \notin Written(r)
    <3>1. req[r].left \subseteq Parts
      BY <1>2 DEF TypeOK, Request0
    <3>2. Following(req[r].left) \in req[r].left
      BY <1>1, <3>1 DEF Following, Parts
    <3>3. QED BY <1>1, <3>2 DEF IInv, PublishInv, OneWriter, Writers
  <2>2. ~ req[r].mine => Following(req[r].left) = "first"
    BY <1>1 DEF IInv, PublishInv, AloneIsFree, Following
  <2>3. QED BY <1>1, <2>1, <2>2 DEF IInv, PublishInv, AloneIsFree
<1>4. UNCHANGED <<state, default, active, current, docs, pins, partial, mixed, blocked, contended>>
  BY <1>1, <1>2, <1>3 DEF configVars, TypeOK, TypeStored
<1>5. Shape'
  BY <1>2, <1>4 DEF TypeOK, TypeStored
<1>6. PublishInv'
  BY <1>2, <1>4, PublishQuiet DEF Writers
<1>7. PinInv'
  <2>1. Live' \ partial' \subseteq Live \ partial /\ state'[Standard] = "live"
    BY <1>4 DEF Live, IInv, PinInv, StandardStays
  <2>2. QED BY <1>2, <1>4, <2>1, PinQuiet
<1>8. FlagInv'
  BY <1>1, <1>2, <1>4, FlagQuiet DEF Flags
<1>9. QED BY <1>5, <1>6, <1>7, <1>8 DEF IInv

(* A version is adopted: it is written whole, and it is not version 1.      *)
LEMMA AdoptStep == ASSUME IInv, NEW r \in Req, Adopt(r) PROVE IInv'
<1> DEFINE c == req[r].at
           v == req[r].version
<1>1. /\ req[r].op = "publish" /\ req[r].left = {} /\ Done(r)
      /\ current' = [current EXCEPT ![c] = v]
      /\ UNCHANGED <<state, default, active, docs, pins, historyVars>>
  BY DEF Adopt, Does
<1>2. /\ TypeOK /\ req'[r].op = "idle" /\ \A x \in Req \ {r} : req'[x] = req[x] /\ Stays(x)
      /\ TypeStored' => Shape'
  BY <1>1, DoneFacts
<1>3. c \in Config /\ v \in Versions /\ v > 1
  BY <1>1 DEF IInv, Shape, Placed, Writers
<1>4. c \notin partial => docs[c][v] = Parts
  <2>1. req[r].mine
    BY <1>1, <1>2 DEF IInv, PublishInv, AloneIsFree, TypeOK, Request0
  <2>2. docs[c][v] \subseteq Parts
    BY <1>2, <1>3 DEF TypeOK, TypeStored
  <2>3. QED BY <1>1, <2>1, <2>2 DEF IInv, PinInv, PublishesWhole, Written
<1> HIDE DEF c, v
<1>5. current' \in [Config -> Versions] /\ \A x \in Config : current'[x] = IF x = c THEN v ELSE current[x]
  BY <1>1, <1>2, <1>3 DEF TypeOK, TypeStored
<1>6. Shape'
  BY <1>1, <1>2, <1>5 DEF TypeOK, TypeStored, historyVars
<1>7. PublishInv'
  BY <1>1, <1>2, PublishQuiet DEF Writers, historyVars
<1>8. FlagInv'
  BY <1>1, <1>2, FlagQuiet DEF Flags, historyVars
<1>9. PinInv'
  <2>1. StandardStays' /\ PublishesWhole'
    BY <1>1, <1>2 DEF IInv, PinInv, StandardStays, PublishesWhole, Written, historyVars
  <2>2. CurrentWhole'
    BY <1>1, <1>2, <1>4, <1>5 DEF IInv, PinInv, CurrentWhole, Whole, Live, historyVars, TypeOK, TypeStored
  <2>3. ProjectsWhole'
    <3>1. \A x \in Req : req'[x].op = "project" => x # r /\ req'[x] = req[x] /\ req[x].at \in Config
      BY <1>2 DEF IInv, Shape, Placed
    <3>2. QED BY <1>1, <1>3, <1>5, <3>1 DEF IInv, PinInv, ProjectsWhole, Pins, Whole, historyVars
  <2>4. PinsWhole'
    <3>1. \A x \in pins : x[1] \in Config
      BY <1>2 DEF TypeOK, TypeStored
    <3>2. QED BY <1>1, <1>3, <1>5, <3>1 DEF IInv, PinInv, PinsWhole, Pins, Whole, historyVars
  <2>5. QED BY <2>1, <2>2, <2>3, <2>4 DEF PinInv
<1>10. QED BY <1>6, <1>7, <1>8, <1>9 DEF IInv

(* A clone is finished: it leaves partial when it is whole, still at        *)
(* version 1, and nobody publishes from it.                                 *)
LEMMA CreatedStep == ASSUME IInv, NEW r \in Req, Created(r) PROVE IInv'
<1> DEFINE c == req[r].at
<1>1. /\ req[r].op = "create" /\ Done(r)
      /\ partial' = IF Whole(c, 1) /\ current[c] = 1 /\ Publishing(c) = {} THEN partial \ {c} ELSE partial
      /\ UNCHANGED <<configVars, docs, pins, mixed, blocked, contended>>
  BY DEF Created, Does
<1>2. /\ TypeOK /\ req'[r].op = "idle" /\ \A x \in Req \ {r} : req'[x] = req[x] /\ Stays(x)
      /\ TypeStored' => Shape'
  BY <1>1, DoneFacts
<1> HIDE DEF c
<1>3. UNCHANGED <<state, default, active, current>> /\ Live' = Live
  BY <1>1 DEF configVars, Live
<1>4. Shape'
  BY <1>1, <1>2, <1>3 DEF TypeOK, TypeStored
<1>5. PublishInv'
  BY <1>1, <1>2, PublishQuiet DEF Writers
<1>6. FlagInv'
  BY <1>1, <1>2, <1>3, FlagQuiet DEF Flags
<1>7. PinInv'
  <2>1. StandardStays'
    BY <1>2, <1>3 DEF IInv, PinInv, StandardStays
  <2>2. CurrentWhole'
    BY <1>1, <1>3 DEF IInv, PinInv, CurrentWhole, Whole
  <2>3. PublishesWhole'
    BY <1>1, <1>2 DEF IInv, PinInv, PublishesWhole, Written, Publishing, Does
  <2>4. ProjectsWhole' /\ PinsWhole'
    BY <1>1, <1>2, <1>3 DEF IInv, PinInv, ProjectsWhole, PinsWhole, Pins, Whole
  <2>5. QED BY <2>1, <2>2, <2>3, <2>4 DEF PinInv
<1>8. QED BY <1>4, <1>5, <1>6, <1>7 DEF IInv
-----------------------------------------------------------------------------
(* A change of flags begins, its guard asked (patch_configuration,          *)
(* delete_configuration).                                                   *)
FlagBegins(r, c, op) ==
  /\ c \in Live /\ Begin(r, [Idle EXCEPT !.op = op, !.at = c])
  /\ contended' = (contended \/ Managing # {})
  /\ UNCHANGED <<configVars, docs, pins, partial, mixed, blocked>>

LEMMA FlagBegin ==
  ASSUME IInv, NEW r \in Req, NEW c \in Config, NEW op \in Flags, FlagBegins(r, c, op),
         op \in {"off", "delete"} => c \notin default,
         op = "delete" => c # Standard
  PROVE  IInv'
<1> DEFINE q == [Idle EXCEPT !.op = op, !.at = c]
<1>1. Begin(r, q) /\ c \in Live /\ contended' = (contended \/ Managing # {})
      /\ UNCHANGED <<state, default, active, current, docs, pins, partial, mixed, blocked>>
  BY DEF FlagBegins, configVars
<1>2. TypeOK /\ q \in Request0 /\ q.op = op /\ q.at = c
  BY IdleType DEF IInv, Shape, Request0
<1> HIDE DEF q
<1>3. /\ req'[r].op = op /\ req'[r].at = c /\ req[r].op = "idle"
      /\ \A x \in Req \ {r} : req'[x] = req[x] /\ Stays(x)
  BY <1>1, <1>2, BeginFacts DEF Flags
<1>4. Shape'
  <2>1. TypeStored'
    BY <1>1, <1>2 DEF TypeOK, TypeStored
  <2>2. QED BY <1>1, <1>2, <2>1, ShapeKept DEF IInv, Writers, Flags
<1>5. PublishInv'
  BY <1>1, <1>3, PublishQuiet DEF Writers, Flags
<1>6. PinInv'
  <2>1. StandardStays'
    BY <1>1, <1>3 DEF IInv, PinInv, StandardStays
  <2>2. PublishesWhole' /\ ProjectsWhole'
    BY <1>1, <1>3 DEF IInv, PinInv, PublishesWhole, ProjectsWhole, Pins, Whole, Written, Flags
  <2>3. CurrentWhole' /\ PinsWhole'
    BY <1>1 DEF IInv, PinInv, CurrentWhole, PinsWhole, Pins, Whole, Live
  <2>4. QED BY <2>1, <2>2, <2>3 DEF PinInv
<1>7. FlagInv'
  <2>1. Live' = Live /\ state[c] # "absent"
    BY <1>1 DEF Live
  <2>2. Managing' = Managing \cup {r}
    BY <1>3 DEF Managing
  <2>3. ~ contended' => ~ contended /\ Managing = {}
    BY <1>1, <1>2 DEF TypeOK, TypeStored
  <2>4. ~ contended' => \A x \in Req \ {r} : req[x].op \notin Flags \cup {"promote"}
    BY <2>3 DEF Managing
  <2>5. \A x \in Req : req'[x].op \in {"default", "promote"} => state[req'[x].at] # "absent"
    BY <1>3, <2>1 DEF IInv, FlagInv
  <2>6. ~ contended' => \E d \in Live \cap active : default \cap Live = {d}
    BY <1>3, <2>3, <2>4 DEF IInv, FlagInv, Flags
  <2>7. ~ contended' =>
          /\ \A x, s \in Managing' : x = s
          /\ \A x \in Req : req'[x].op \in {"default", "promote"} => req'[x].at \in Live
          /\ \A x \in Req : req'[x].op \in {"off", "delete"} => req'[x].at \notin default
          /\ \A x \in Req : req'[x].op # "promote"
    BY <1>1, <1>3, <2>2, <2>3, <2>4 DEF Flags
  <2>8. QED BY <1>1, <2>1, <2>5, <2>6, <2>7 DEF IInv, FlagInv
<1>8. QED BY <1>4, <1>5, <1>6, <1>7 DEF IInv

(* What a change of flags writes leaves versions and pins alone.            *)
LEMMA FlagWrites ==
  ASSUME IInv, NEW r \in Req, NEW q \in Request0, Become(r, q), req[r].op \in Flags \cup {"promote"},
         q.op \in {"idle", "promote"}, q.op # "idle" => q.at \in Config,
         TypeStored', UNCHANGED <<current, docs, pins, historyVars>>,
         Live' \subseteq Live, state'[Standard] = "live"
  PROVE  /\ Shape' /\ PublishInv' /\ PinInv' /\ req'[r] = q
         /\ \A x \in Req \ {r} : req'[x] = req[x]
<1>1. TypeOK
  BY DEF IInv, Shape
<1>2. req'[r] = q /\ \A x \in Req \ {r} : req'[x] = req[x]
  BY <1>1, BecomeFacts
<1>3. Shape'
  BY ShapeKept DEF IInv, Writers
<1>4. PublishInv'
  BY <1>2, PublishQuiet DEF Writers, historyVars
<1>5. PinInv'
  BY <1>2, PinQuiet DEF Stays, historyVars
<1>6. QED BY <1>2, <1>3, <1>4, <1>5

LEMMA DemoteStep == ASSUME IInv, NEW r \in Req, DemoteOthers(r) PROVE IInv'
<1> DEFINE c == req[r].at
           q == [req[r] EXCEPT !.op = "promote"]
<1>1. /\ req[r].op = "default" /\ default' = default \cap {c} /\ Become(r, q)
      /\ UNCHANGED <<state, active, current, docs, pins, historyVars>>
  BY DEF DemoteOthers, Does
<1>2. /\ TypeOK /\ q \in Request0 /\ q.op = "promote" /\ q.at = c /\ c \in Config
  BY <1>1 DEF IInv, Shape, Placed, TypeOK, Request0
<1> HIDE DEF q
<1>3. Live' = Live /\ state'[Standard] = "live" /\ TypeStored'
  BY <1>1, <1>2 DEF Live, IInv, PinInv, StandardStays, TypeOK, TypeStored, historyVars
<1>4. /\ Shape' /\ PublishInv' /\ PinInv' /\ req'[r] = q /\ \A x \in Req \ {r} : req'[x] = req[x]
  BY <1>1, <1>2, <1>3, FlagWrites DEF Flags
<1>5. Managing' = Managing /\ r \in Managing
  BY <1>1, <1>2, <1>4 DEF Managing, Flags
<1>6. FlagInv'
  BY <1>1, <1>2, <1>3, <1>4, <1>5 DEF IInv, FlagInv, Managing, Flags, historyVars
<1>7. QED BY <1>4, <1>6 DEF IInv

LEMMA PromoteStep == ASSUME IInv, NEW r \in Req, Promote(r) PROVE IInv'
<1> DEFINE c == req[r].at
<1>1. /\ req[r].op = "promote" /\ default' = default \cup {c} /\ active' = active \cup {c} /\ Become(r, Idle)
      /\ UNCHANGED <<state, current, docs, pins, historyVars>>
  BY DEF Promote, Done, Does
<1>2. TypeOK /\ c \in Config
  BY <1>1 DEF IInv, Shape, Placed
<1>3. Live' = Live /\ state'[Standard] = "live" /\ TypeStored'
  BY <1>1, <1>2 DEF Live, IInv, PinInv, StandardStays, TypeOK, TypeStored, historyVars
<1>4. /\ Shape' /\ PublishInv' /\ PinInv' /\ req'[r].op = "idle" /\ \A x \in Req \ {r} : req'[x] = req[x]
  BY <1>1, <1>2, <1>3, FlagWrites, IdleType DEF Flags
<1>5. Managing' = Managing \ {r} /\ r \in Managing
  BY <1>1, <1>4 DEF Managing, Flags
<1>6. ~ contended => Managing = {r} /\ c \in Live /\ default' \cap Live = {c}
  BY <1>1, <1>2, <1>5 DEF IInv, FlagInv, Managing, Flags
<1>7. ~ contended => \A x \in Req \ {r} : req[x].op \notin Flags \cup {"promote"}
  BY <1>6 DEF Managing
<1>8. \A x \in Req : req'[x].op \in {"default", "promote"} => state[req'[x].at] # "absent"
  BY <1>4 DEF IInv, FlagInv
<1>9. \A x \in default' : state'[x] # "absent"
  BY <1>1 DEF IInv, FlagInv
<1>10. ~ contended => /\ Managing' = {}
                      /\ \A x \in Req : req'[x].op \notin Flags \cup {"promote"}
  BY <1>4, <1>5, <1>6, <1>7 DEF Flags
<1>11. FlagInv'
  BY <1>1, <1>3, <1>6, <1>8, <1>9, <1>10 DEF FlagInv, Flags, historyVars
<1>12. QED BY <1>4, <1>11 DEF IInv

LEMMA SwitchStep == ASSUME IInv, NEW r \in Req, SwitchWrite(r) PROVE IInv'
<1> DEFINE c == req[r].at
<1>1. /\ req[r].op \in {"on", "off"} /\ Become(r, Idle)
      /\ active' = IF req[r].op = "on" THEN active \cup {c} ELSE active \ {c}
      /\ UNCHANGED <<state, default, current, docs, pins, historyVars>>
  BY DEF SwitchWrite, Done, Does
<1>2. TypeOK /\ c \in Config
  BY <1>1 DEF IInv, Shape, Placed
<1>3. Live' = Live /\ state'[Standard] = "live" /\ TypeStored'
  BY <1>1, <1>2 DEF Live, IInv, PinInv, StandardStays, TypeOK, TypeStored, historyVars
<1>4. /\ Shape' /\ PublishInv' /\ PinInv' /\ req'[r].op = "idle" /\ \A x \in Req \ {r} : req'[x] = req[x]
  BY <1>1, <1>2, <1>3, FlagWrites, IdleType DEF Flags
<1>5. Managing' = Managing \ {r} /\ r \in Managing
  BY <1>1, <1>4 DEF Managing, Flags
<1>6. ~ contended => \A x \in Req \ {r} : req[x].op \notin Flags \cup {"promote"}
  BY <1>5 DEF IInv, FlagInv, Managing
<1>7. ~ contended => \E d \in Live \cap active' : default \cap Live = {d}
  <2> SUFFICES ASSUME ~ contended PROVE \E d \in Live \cap active' : default \cap Live = {d}
    OBVIOUS
  <2>1. \A x \in Req : req[x].op # "promote"
    BY <1>1, <1>6 DEF Flags
  <2>2. PICK d \in Live \cap active : default \cap Live = {d}
    BY <2>1 DEF IInv, FlagInv
  <2>3. req[r].op = "off" => c # d
    BY <2>2 DEF IInv, FlagInv
  <2>4. QED BY <1>1, <2>2, <2>3
<1>8. \A x \in Req : req'[x].op \in {"default", "promote"} => state[req'[x].at] # "absent"
  BY <1>4 DEF IInv, FlagInv
<1>9. ~ contended => /\ Managing' = {}
                     /\ \A x \in Req : req'[x].op \notin Flags \cup {"promote"}
  BY <1>4, <1>5, <1>6 DEF Managing, Flags
<1>10. FlagInv'
  BY <1>1, <1>3, <1>7, <1>8, <1>9 DEF IInv, FlagInv, Flags, historyVars
<1>11. QED BY <1>4, <1>10 DEF IInv

LEMMA DeleteStep == ASSUME IInv, NEW r \in Req, DeleteWrite(r) PROVE IInv'
<1> DEFINE c == req[r].at
<1>1. /\ req[r].op = "delete" /\ Become(r, Idle) /\ state' = [state EXCEPT ![c] = "deleted"]
      /\ UNCHANGED <<default, active, current, docs, pins, historyVars>>
  BY DEF DeleteWrite, Done, Does
<1>2. TypeOK /\ c \in Config /\ c # Standard
  BY <1>1 DEF IInv, Shape, Placed, PinInv, StandardStays
<1>3. /\ Live' = Live \ {c} /\ state'[Standard] = "live" /\ TypeStored'
      /\ \A x \in Config : state[x] # "absent" => state'[x] # "absent"
  BY <1>1, <1>2, ConfigAssumption DEF Live, IInv, PinInv, StandardStays, TypeOK, TypeStored, historyVars
<1>4. /\ Shape' /\ PublishInv' /\ PinInv' /\ req'[r].op = "idle" /\ \A x \in Req \ {r} : req'[x] = req[x]
  BY <1>1, <1>2, <1>3, FlagWrites, IdleType DEF Flags
<1>5. Managing' = Managing \ {r} /\ r \in Managing
  BY <1>1, <1>4 DEF Managing, Flags
<1>6. ~ contended => \A x \in Req \ {r} : req[x].op \notin Flags \cup {"promote"}
  BY <1>5 DEF IInv, FlagInv, Managing
<1>7. ~ contended => \E d \in Live' \cap active : default \cap Live' = {d}
  <2> SUFFICES ASSUME ~ contended PROVE \E d \in Live' \cap active : default \cap Live' = {d}
    OBVIOUS
  <2>1. \A x \in Req : req[x].op # "promote"
    BY <1>1, <1>6 DEF Flags
  <2>2. PICK d \in Live \cap active : default \cap Live = {d}
    BY <2>1 DEF IInv, FlagInv
  <2>3. c \notin default
    BY <1>1 DEF IInv, FlagInv
  <2>4. QED BY <1>3, <2>2, <2>3
<1>8. \A x \in Req : req'[x].op \in {"default", "promote"} => state'[req'[x].at] # "absent"
  <2>1. \A x \in Req : req[x].op # "idle" => req[x].at \in Config
    BY DEF IInv, Shape, Placed
  <2>2. QED BY <1>3, <1>4, <2>1 DEF IInv, FlagInv
<1>9. ~ contended => /\ Managing' = {}
                     /\ \A x \in Req : req'[x].op \notin Flags \cup {"promote"}
  BY <1>4, <1>5, <1>6 DEF Managing, Flags
<1>10. \A x \in default : state'[x] # "absent"
  BY <1>2, <1>3 DEF IInv, FlagInv, TypeOK, TypeStored
<1>11. FlagInv'
  BY <1>1, <1>7, <1>8, <1>9, <1>10 DEF FlagInv, Flags, historyVars
<1>12. QED BY <1>4, <1>11 DEF IInv
-----------------------------------------------------------------------------
(* A project reads the configuration it will pin: an active one, or the     *)
(* default, or the standard one.                                            *)
LEMMA ProjectStep == ASSUME IInv, NEW r \in Req, NEW c \in Config, CreateProject(r, c) PROVE IInv'
<1> DEFINE q == [Idle EXCEPT !.op = "project", !.at = c, !.version = current[c]]
<1>1. Begin(r, q) /\ c \in Selectable
      /\ UNCHANGED <<state, default, active, current, docs, pins, partial, mixed, blocked, contended>>
  BY DEF CreateProject, configVars, historyVars
<1>2. TypeOK /\ current[c] \in Versions /\ current[c] \in 0 .. MaxVersion
  BY BoundsAssumption DEF IInv, Shape, TypeOK, TypeStored, Versions
<1>3. q \in Request0 /\ q.op = "project" /\ q.at = c /\ q.version = current[c]
  BY <1>2, IdleType DEF Request0
<1> HIDE DEF q
<1>4. /\ req'[r].op = "project" /\ req'[r].at = c /\ req'[r].version = current[c] /\ req[r].op = "idle"
      /\ \A x \in Req \ {r} : req'[x] = req[x] /\ Stays(x)
  BY <1>1, <1>2, <1>3, BeginFacts
<1>5. Shape'
  <2>1. TypeStored'
    BY <1>1, <1>2 DEF TypeOK, TypeStored
  <2>2. QED BY <1>1, <1>2, <1>3, <2>1, ShapeKept DEF IInv, Writers
<1>6. PublishInv'
  BY <1>1, <1>4, PublishQuiet DEF Writers
<1>7. FlagInv'
  BY <1>1, <1>4, FlagQuiet DEF Flags
<1>8. PinInv'
  <2>1. c \in Live
    BY <1>1, ConfigAssumption DEF Selectable, DefaultConfigs, Live, IInv, PinInv, StandardStays
  <2>2. Pins(c, current[c])
    BY <2>1 DEF IInv, PinInv, CurrentWhole, Pins
  <2>3. ProjectsWhole'
    BY <1>1, <1>4, <2>2 DEF IInv, PinInv, ProjectsWhole, Pins, Whole
  <2>4. StandardStays' /\ PublishesWhole'
    BY <1>1, <1>4 DEF IInv, PinInv, StandardStays, PublishesWhole, Written
  <2>5. CurrentWhole' /\ PinsWhole'
    BY <1>1 DEF IInv, PinInv, CurrentWhole, PinsWhole, Pins, Whole, Live
  <2>6. QED BY <2>3, <2>4, <2>5 DEF PinInv
<1>9. QED BY <1>5, <1>6, <1>7, <1>8 DEF IInv

LEMMA PinStep == ASSUME IInv, NEW r \in Req, PinVersion(r) PROVE IInv'
<1> DEFINE x0 == <<req[r].at, req[r].version>>
<1>1. /\ req[r].op = "project" /\ Done(r) /\ pins' = pins \cup {x0}
      /\ UNCHANGED <<state, default, active, current, docs, partial, mixed, blocked, contended>>
  BY DEF PinVersion, Does, configVars, historyVars
<1>2. /\ TypeOK /\ req'[r].op = "idle" /\ \A x \in Req \ {r} : req'[x] = req[x] /\ Stays(x)
      /\ TypeStored' => Shape'
  BY <1>1, DoneFacts
<1>3. req[r].at \in Config /\ req[r].version \in Versions /\ Pins(req[r].at, req[r].version)
  BY <1>1 DEF IInv, Shape, Placed, PinInv, ProjectsWhole
<1>4. Shape'
  BY <1>1, <1>2, <1>3 DEF TypeOK, TypeStored
<1>5. PublishInv' /\ FlagInv'
  BY <1>1, <1>2, PublishQuiet, FlagQuiet DEF Writers, Flags
<1>6. PinInv'
  <2>1. Pins(x0[1], x0[2])
    BY <1>3
  <2> HIDE DEF x0
  <2>2. PinsWhole'
    BY <1>1, <2>1 DEF IInv, PinInv, PinsWhole, Pins, Whole
  <2>3. StandardStays' /\ PublishesWhole' /\ ProjectsWhole'
    BY <1>1, <1>2 DEF IInv, PinInv, StandardStays, PublishesWhole, ProjectsWhole, Pins, Whole, Written
  <2>4. CurrentWhole'
    BY <1>1 DEF IInv, PinInv, CurrentWhole, Whole, Live
  <2>5. QED BY <2>2, <2>3, <2>4 DEF PinInv
<1>7. QED BY <1>4, <1>5, <1>6 DEF IInv

LEMMA CrashStep == ASSUME IInv, NEW r \in Req, Crash(r) PROVE IInv'
<1>1. /\ Done(r) /\ contended' = (contended \/ r \in Managing)
      /\ UNCHANGED <<state, default, active, current, docs, pins, partial, mixed, blocked>>
  BY DEF Crash, configVars
<1>2. /\ TypeOK /\ req'[r].op = "idle" /\ \A x \in Req \ {r} : req'[x] = req[x] /\ Stays(x)
      /\ TypeStored' => Shape'
  BY <1>1, DoneFacts
<1>3. Shape'
  BY <1>1, <1>2 DEF TypeOK, TypeStored
<1>4. PublishInv'
  BY <1>1, <1>2, PublishQuiet DEF Writers
<1>5. PinInv'
  <2>1. Live' \ partial' \subseteq Live \ partial /\ state'[Standard] = "live"
    BY <1>1 DEF Live, IInv, PinInv, StandardStays
  <2>2. QED BY <1>1, <1>2, <2>1, PinQuiet
<1>6. FlagInv'
  <2>1. CASE contended'
    <3>1. \A x \in Req : req'[x].op \in {"default", "promote"} => state[req'[x].at] # "absent"
      BY <1>2 DEF IInv, FlagInv
    <3>2. QED BY <1>1, <2>1, <3>1 DEF IInv, FlagInv
  <2>2. CASE ~ contended'
    <3>1. ~ contended /\ r \notin Managing /\ contended' = contended
      BY <1>1, <1>2, <2>2 DEF TypeOK, TypeStored
    <3>2. req[r].op \notin Flags \cup {"promote"}
      BY <3>1 DEF Managing
    <3>3. QED BY <1>1, <1>2, <3>1, <3>2, FlagQuiet DEF Flags
  <2>3. QED BY <2>1, <2>2
<1>7. QED BY <1>3, <1>4, <1>5, <1>6 DEF IInv
-----------------------------------------------------------------------------
LEMMA Stutter == ASSUME IInv, UNCHANGED vars PROVE IInv'
<1>1. UNCHANGED <<state, default, active, current, docs, pins, req, partial, mixed, blocked, contended>>
  BY DEF vars, configVars, historyVars
<1>2. Live' = Live /\ state'[Standard] = "live" /\ \A x \in Req : req'[x] = req[x] /\ Stays(x)
  BY <1>1 DEF Live, Stays, IInv, PinInv, StandardStays
<1>3. Shape'
  BY <1>1 DEF IInv, Shape, TypeOK, TypeStored, Placed
<1>4. PublishInv' /\ PinInv' /\ FlagInv'
  BY <1>1, <1>2, PublishQuiet, PinQuiet, FlagQuiet
<1>5. QED BY <1>3, <1>4 DEF IInv

LEMMA StepInv == ASSUME IInv, NEW r \in Req, Step(r) PROVE IInv'
BY WriteStep, RefuseStep, AdoptStep, CreatedStep, DemoteStep, PromoteStep, SwitchStep,
   DeleteStep, PinStep, CrashStep DEF Step

LEMMA RequestInv == ASSUME IInv, NEW r \in Req, Request(r) PROVE IInv'
<1>1. PICK c \in Config :
        \/ \E base \in Config : CreateConfiguration(r, c, base)
        \/ PublishVersion(r, c) \/ SetDefault(r, c) \/ DeleteConfiguration(r, c)
        \/ \E on \in {"on", "off"} : Switch(r, c, on)
        \/ CreateProject(r, c)
  BY DEF Request
<1>2. CASE \E base \in Config : CreateConfiguration(r, c, base)
  BY <1>2, CreateStep
<1>3. CASE PublishVersion(r, c)
  BY <1>3, PublishStep
<1>4. CASE SetDefault(r, c)
  <2>1. FlagBegins(r, c, "default")
    BY <1>4 DEF SetDefault, FlagBegins
  <2>2. QED BY <2>1, FlagBegin DEF Flags
<1>5. CASE DeleteConfiguration(r, c)
  <2>1. FlagBegins(r, c, "delete") /\ c \notin default /\ c # Standard
    BY <1>5 DEF DeleteConfiguration, FlagBegins
  <2>2. QED BY <2>1, FlagBegin DEF Flags
<1>6. CASE \E on \in {"on", "off"} : Switch(r, c, on)
  <2>1. PICK on \in {"on", "off"} : Switch(r, c, on)
    BY <1>6
  <2>2. FlagBegins(r, c, on) /\ (on = "off" => c \notin default)
    BY <2>1 DEF Switch, FlagBegins
  <2>3. QED BY <2>2, FlagBegin DEF Flags
<1>7. CASE CreateProject(r, c)
  BY <1>7, ProjectStep
<1>8. QED BY <1>1, <1>2, <1>3, <1>4, <1>5, <1>6, <1>7

LEMMA Inductive == Spec => []IInv
<1>1. IInv /\ [Next]_vars => IInv'
  BY StepInv, RequestInv, Stutter DEF Next
<1>2. QED BY <1>1, InitRight, PTL DEF Spec

(* publish_version, for any number of publishes, clones and crashes: the    *)
(* documents of a version are those of one request, and a publish that      *)
(* overlapped no other of its configuration is never refused.               *)
THEOREM OnePublish == Spec => []VersionOfOnePublish
BY Inductive, Answers, PTL

(* create_project: what a project pins, and what the next one would, has    *)
(* every stage and gate, except in a clone that was never finished.         *)
THEOREM WholePins == Spec => []PinnedWhole
BY Inductive, Answers, PTL

(* patch_configuration and delete_configuration: after any sequence of      *)
(* changes that do not overlap, one live configuration is the default and   *)
(* it is active.                                                            *)
THEOREM DefaultStays == Spec => []OneDefault
BY Inductive, Answers, PTL

-----------------------------------------------------------------------------
(***************************************************************************)
(* Proof that the evidence of a project is kept.  EvidenceKept speaks of    *)
(* the documents and the stage; what makes it inductive is what the         *)
(* requests under way carry: the number a revision was given, and the       *)
(* stage a request has read and will write back whole.                      *)
(***************************************************************************)
Source    == File \cup {"url"}
VersionOf == [v : Nat, source : Source]
DocType   == [versions : Seq(VersionOf), current : Nat]
StageType == [supplied : SUBSET DocGate, refs : [DocGate -> Nat]]
JobType   == [op : {"idle", "create", "look", "supply", "revise"}, doc : Nat, gate : DocGate \cup {"none"},
              source : Source, v : Nat, read : StageType]

DocTypeOK ==
  /\ archived \in BOOLEAN /\ stored \subseteq File /\ raced \in BOOLEAN
  /\ docs2 \in Seq(DocType) /\ Len(docs2) <= MaxDocs
  /\ stage \in StageType
  /\ job \in [Writer -> JobType]
  /\ revised \in [Places -> Nat]
  /\ answered \subseteq DocGate

(* Every revision is there, and unless two overlapped in its place.         *)
InOrder(doc) == doc.current = Len(doc.versions) /\ \A i \in DOMAIN doc.versions : doc.versions[i].v = i
DocumentsWhole ==
  /\ \A d \in DOMAIN docs2 :
       /\ Len(docs2[d].versions) = 1 + revised[d]
       /\ \A i \in DOMAIN docs2[d].versions : Sourced(docs2[d].versions[i].source)
       /\ d \notin crossed => InOrder(docs2[d])
  /\ \A d \in Places \ DOMAIN docs2 : revised[d] = 0

(* A stage, stored or read, names only documents that exist.                *)
Backed(s) == \A gate \in s.supplied : s.refs[gate] \in DOMAIN docs2
StageBacked == Backed(stage) /\ (~ raced => answered \subseteq stage.supplied)

JobsSourced ==
  \A w \in Writer : job[w].op \in {"create", "revise"} => Sourced(job[w].source)

RevisionsNumbered ==
  \A w \in Writer : job[w].op = "revise" =>
    /\ job[w].doc \in DOMAIN docs2
    /\ job[w].doc \notin crossed =>
         /\ job[w].v = docs2[job[w].doc].current + 1
         /\ \A x \in Writer : job[x].op = "revise" /\ job[x].doc = job[w].doc => x = w

SuppliesBacked ==
  \A w \in Writer :
    /\ job[w].op \in {"look", "supply"} => job[w].gate \in DocGate /\ job[w].doc \in DOMAIN docs2
    /\ job[w].op = "supply" =>
         /\ Backed(job[w].read)
         /\ ~ raced => /\ answered \subseteq job[w].read.supplied
                       /\ \A x \in Writer : job[x].op = "supply" => x = w

DocIInv == DocTypeOK /\ DocumentsWhole /\ StageBacked /\ JobsSourced /\ RevisionsNumbered /\ SuppliesBacked
-----------------------------------------------------------------------------
LEMMA InitKept == DocumentsInit => DocIInv
<1> SUFFICES ASSUME DocumentsInit PROVE DocIInv
  OBVIOUS
<1> USE DEF DocumentsInit
<1>1. NoStage \in StageType
  BY DEF NoStage, StageType
<1>2. Resting \in JobType /\ Resting.op = "idle"
  BY <1>1 DEF Resting, JobType, Source
<1>3. DocTypeOK
  <2>1. docs2 \in Seq(DocType) /\ Len(docs2) <= MaxDocs
    BY DocumentBounds
  <2>2. job \in [Writer -> JobType] /\ revised \in [Places -> Nat]
    BY <1>2
  <2>3. QED BY <1>1, <2>1, <2>2 DEF DocTypeOK
<1>4. DocumentsWhole
  BY DEF DocumentsWhole, Places
<1>5. StageBacked
  BY DEF StageBacked, Backed, NoStage
<1>6. JobsSourced /\ RevisionsNumbered /\ SuppliesBacked
  BY <1>2 DEF JobsSourced, RevisionsNumbered, SuppliesBacked
<1>7. QED BY <1>3, <1>4, <1>5, <1>6 DEF DocIInv

(* A version is opened by its number in a document that is in order.        *)
LEMMA InOrderOpens ==
  ASSUME NEW doc, InOrder(doc), NEW i \in DOMAIN doc.versions
  PROVE  Opened(doc, i) = i
<1>1. {k \in DOMAIN doc.versions : doc.versions[k].v = i} = {i}
  BY DEF InOrder
<1>2. (CHOOSE k \in {i} : \A x \in {i} : k <= x) \in {i}
  OBVIOUS
<1>3. QED BY <1>1, <1>2 DEF Opened
LEMMA DocAnswers ==
  DocIInv => EvidenceKept
<1> SUFFICES ASSUME DocIInv PROVE EvidenceKept
  OBVIOUS
<1>1. ASSUME NEW d \in DOMAIN docs2, NEW i \in DOMAIN docs2[d].versions, d \notin crossed
      PROVE  Opened(docs2[d], i) = i
  <2>1. InOrder(docs2[d])
    BY <1>1 DEF DocIInv, DocumentsWhole
  <2>2. PICK doc : doc = docs2[d]
    OBVIOUS
  <2>3. QED BY <1>1, <2>1, <2>2, InOrderOpens
<1>2. QED BY <1>1 DEF DocIInv, DocumentsWhole, StageBacked, Backed, InOrder, EvidenceKept
-----------------------------------------------------------------------------
(* What every step leaves: documents are only added, files only stored, and *)
(* no overlap is forgotten.                                                 *)
LEMMA BackedKept ==
  ASSUME NEW s, Backed(s), DOMAIN docs2 \subseteq DOMAIN docs2'
  PROVE  Backed(s)'
BY DEF Backed

LEMMA SourcedKept == ASSUME NEW source, Sourced(source), stored \subseteq stored' PROVE Sourced(source)'
BY DEF Sourced

(* A request that begins, goes on or ends with j: what the others carry is  *)
(* theirs still, if the documents they revise have not moved.               *)
LEMMA JobStep ==
  ASSUME DocIInv, NEW w \in Writer, NEW j \in JobType, job' = [job EXCEPT ![w] = j],
         stored \subseteq stored', DOMAIN docs2 \subseteq DOMAIN docs2',
         crossed \subseteq crossed', raced => raced',
         \A x \in Writer \ {w} : job[x].op = "revise" /\ job[x].doc \notin crossed' =>
           docs2'[job[x].doc].current = docs2[job[x].doc].current,
         answered' = answered \/ (~ raced' => \A x \in Writer \ {w} : job[x].op # "supply"),
         j.op \in {"create", "revise"} => Sourced(j.source),
         j.op = "revise" =>
           /\ j.doc \in DOMAIN docs2
           /\ j.doc \notin crossed' => j.v = docs2'[j.doc].current + 1 /\ Revising(j.doc) \ {w} = {},
         j.op \in {"look", "supply"} => j.gate \in DocGate /\ j.doc \in DOMAIN docs2',
         j.op = "supply" =>
           /\ Backed(j.read)
           /\ ~ raced' => answered' \subseteq j.read.supplied
                           /\ \A x \in Writer \ {w} : job[x].op # "supply"
  PROVE  job' \in [Writer -> JobType] /\ JobsSourced' /\ RevisionsNumbered' /\ SuppliesBacked'
<1>1. job \in [Writer -> JobType]
  BY DEF DocIInv, DocTypeOK
<1>2. job'[w] = j /\ \A x \in Writer \ {w} : job'[x] = job[x]
  BY <1>1
<1>3. job' \in [Writer -> JobType]
  BY <1>1
<1>4. JobsSourced'
  <2> SUFFICES ASSUME NEW x \in Writer, job'[x].op \in {"create", "revise"}
               PROVE  job'[x].source = "url" \/ job'[x].source \in stored'
    BY DEF JobsSourced, Sourced
  <2>1. QED BY <1>2 DEF DocIInv, JobsSourced, Sourced
<1>5. RevisionsNumbered'
  <2> SUFFICES ASSUME NEW x \in Writer, job'[x].op = "revise"
               PROVE  /\ job'[x].doc \in DOMAIN docs2'
                      /\ job'[x].doc \notin crossed' =>
                           /\ job'[x].v = docs2'[job'[x].doc].current + 1
                           /\ \A y \in Writer : job'[y].op = "revise" /\ job'[y].doc = job'[x].doc => y = x
    BY DEF RevisionsNumbered
  <2>1. CASE x = w
    BY <1>2, <2>1 DEF Revising
  <2>2. CASE x # w
    BY <1>2, <2>2 DEF DocIInv, RevisionsNumbered, Revising
  <2>3. QED BY <2>1, <2>2
<1>6. SuppliesBacked'
  <2>1. \A x \in Writer : job'[x].op \in {"look", "supply"} =>
                             job'[x].gate \in DocGate /\ job'[x].doc \in DOMAIN docs2'
    BY <1>2 DEF DocIInv, SuppliesBacked
  <2>2. \A x \in Writer : job'[x].op = "supply" => Backed(job'[x].read)
    BY <1>2 DEF DocIInv, SuppliesBacked
  <2>3. \A x \in Writer : job'[x].op = "supply" /\ ~ raced' =>
           /\ answered' \subseteq job'[x].read.supplied
           /\ \A y \in Writer : job'[y].op = "supply" => y = x
    BY <1>2 DEF DocIInv, SuppliesBacked
  <2>4. \A s : Backed(s) => (\A gate \in s.supplied : s.refs[gate] \in DOMAIN docs2')
    BY DEF Backed
  <2>5. QED BY <2>1, <2>2, <2>3, <2>4 DEF SuppliesBacked, Backed
<1>7. QED BY <1>3, <1>4, <1>5, <1>6

(* A step that writes no document and nothing of the stage.                 *)
LEMMA NoDocument ==
  ASSUME DocIInv, UNCHANGED <<docs2, stage, revised, answered>>, stored \subseteq stored',
         crossed \subseteq crossed', raced => raced'
  PROVE  DocumentsWhole' /\ StageBacked'
<1>1. DocumentsWhole'
  BY DEF DocIInv, DocumentsWhole, InOrder, Sourced
<1>2. StageBacked'
  BY DEF DocIInv, StageBacked, Backed
<1>3. QED BY <1>1, <1>2
-----------------------------------------------------------------------------
(* One lemma per kind of step.                                              *)
NoRequest ==
  \/ \E frozen \in BOOLEAN : SetArchived(frozen)
  \/ \E file \in File : StoreFile(file)
  \/ UNCHANGED documentVars

LEMMA DocQuietStep ==
  ASSUME DocIInv, NoRequest
  PROVE  DocIInv'
<1> USE DEF NoRequest, SetArchived, StoreFile, documentVars
<1>1. DocTypeOK'
  BY DEF DocIInv, DocTypeOK
<1>2. DocumentsWhole' /\ StageBacked'
  BY NoDocument
<1>3. JobsSourced' /\ RevisionsNumbered' /\ SuppliesBacked'
  BY DEF DocIInv, JobsSourced, RevisionsNumbered, SuppliesBacked, Sourced, Backed
<1>4. QED BY <1>1, <1>2, <1>3 DEF DocIInv

LEMMA RestingType == Resting \in JobType /\ Resting.op = "idle"
BY DEF Resting, JobType, Source, NoStage, StageType

LEMMA DocumentPlace == ASSUME DocIInv, NEW d \in DOMAIN docs2 PROVE d \in Nat /\ docs2[d] \in DocType
<1>1. docs2 \in Seq(DocType)
  BY DEF DocIInv, DocTypeOK
<1>2. QED BY <1>1

LEMMA DocCreateStep ==
  ASSUME DocIInv, NEW w \in Writer, NEW source \in Source,
         CreateDeliverable(w, source) \/ \E gate \in DocGate : AttachGateDocument(w, gate, source)
  PROVE  DocIInv'
<1>1. PICK j \in JobType : job' = [job EXCEPT ![w] = j] /\ j.op = "create" /\ j.source = source
  <2>1. [Resting EXCEPT !.op = "create", !.source = source] \in JobType
    BY RestingType DEF JobType
  <2>2. \A gate \in DocGate : [Resting EXCEPT !.op = "create", !.gate = gate, !.source = source] \in JobType
    BY RestingType DEF JobType
  <2>3. [Resting EXCEPT !.op = "create", !.source = source].op = "create"
        /\ [Resting EXCEPT !.op = "create", !.source = source].source = source
    BY RestingType DEF JobType
  <2>4. \A gate \in DocGate :
          /\ [Resting EXCEPT !.op = "create", !.gate = gate, !.source = source].op = "create"
          /\ [Resting EXCEPT !.op = "create", !.gate = gate, !.source = source].source = source
    BY RestingType DEF JobType
  <2>5. CASE CreateDeliverable(w, source)
    BY <2>1, <2>3, <2>5 DEF CreateDeliverable, Start2
  <2>6. CASE \E gate \in DocGate : AttachGateDocument(w, gate, source)
    BY <2>2, <2>4, <2>6 DEF AttachGateDocument, Start2
  <2>7. QED BY <2>5, <2>6
<1>2. Sourced(source) /\ UNCHANGED <<archived, stored, docs2, stage, revised, answered, crossed, raced>>
  BY DEF CreateDeliverable, AttachGateDocument
<1>3. job' \in [Writer -> JobType] /\ JobsSourced' /\ RevisionsNumbered' /\ SuppliesBacked'
  BY <1>1, <1>2, JobStep
<1>4. DocTypeOK'
  BY <1>2, <1>3 DEF DocIInv, DocTypeOK
<1>5. QED BY <1>2, <1>3, <1>4, NoDocument DEF DocIInv

LEMMA SupplyBegins ==
  ASSUME DocIInv, NEW w \in Writer, NEW gate \in DocGate, NEW d \in DOMAIN docs2, SupplyDocument(w, gate, d)
  PROVE  DocIInv'
<1> DEFINE j == [Resting EXCEPT !.op = "look", !.gate = gate, !.doc = d]
<1>1. j \in JobType /\ j.op = "look" /\ j.gate = gate /\ j.doc = d
  BY DocumentPlace, RestingType DEF JobType
<1>2. job' = [job EXCEPT ![w] = j]
      /\ UNCHANGED <<archived, stored, docs2, stage, revised, answered, crossed, raced>>
  BY DEF SupplyDocument, Start2
<1> HIDE DEF j
<1>3. job' \in [Writer -> JobType] /\ JobsSourced' /\ RevisionsNumbered' /\ SuppliesBacked'
  BY <1>1, <1>2, JobStep
<1>4. DocTypeOK'
  BY <1>2, <1>3 DEF DocIInv, DocTypeOK
<1>5. QED BY <1>2, <1>3, <1>4, NoDocument DEF DocIInv

LEMMA ReviseBegins ==
  ASSUME DocIInv, NEW w \in Writer, NEW source \in Source, NEW d \in DOMAIN docs2, AddRevision(w, d, source)
  PROVE  DocIInv'
<1> DEFINE j == [Resting EXCEPT !.op = "revise", !.doc = d, !.source = source, !.v = docs2[d].current + 1]
<1>1. docs2[d].current + 1 \in Nat /\ d \in Nat
  BY DocumentPlace DEF DocType
<1>2. j \in JobType /\ j.op = "revise" /\ j.doc = d /\ j.source = source /\ j.v = docs2[d].current + 1
  BY <1>1, RestingType DEF JobType
<1>3. /\ job' = [job EXCEPT ![w] = j] /\ Sourced(source)
      /\ crossed' = IF Revising(d) # {} THEN crossed \cup {d} ELSE crossed
      /\ UNCHANGED <<archived, stored, docs2, stage, revised, answered, raced>>
  BY DEF AddRevision, Start2
<1> HIDE DEF j
<1>4. job' \in [Writer -> JobType] /\ JobsSourced' /\ RevisionsNumbered' /\ SuppliesBacked'
  BY <1>2, <1>3, JobStep
<1>5. DocTypeOK'
  BY <1>3, <1>4 DEF DocIInv, DocTypeOK
<1>6. QED BY <1>3, <1>4, <1>5, NoDocument DEF DocIInv

LEMMA BreakStep == ASSUME DocIInv, NEW w \in Writer, Break(w) PROVE DocIInv'
<1>1. job' = [job EXCEPT ![w] = Resting]
      /\ UNCHANGED <<archived, stored, docs2, stage, revised, answered, crossed, raced>>
  BY DEF Break, Finish, Continue
<1>2. job' \in [Writer -> JobType] /\ JobsSourced' /\ RevisionsNumbered' /\ SuppliesBacked'
  BY <1>1, JobStep, RestingType
<1>3. DocTypeOK'
  BY <1>1, <1>2 DEF DocIInv, DocTypeOK
<1>4. QED BY <1>1, <1>2, <1>3, NoDocument DEF DocIInv

LEMMA ReadStep == ASSUME DocIInv, NEW w \in Writer, ReadInstance(w) PROVE DocIInv'
<1>1. CASE archived
  <2>1. job' = [job EXCEPT ![w] = Resting]
        /\ UNCHANGED <<archived, stored, docs2, stage, revised, answered, crossed, raced>>
    BY <1>1 DEF ReadInstance, Finish, Continue
  <2>2. job' \in [Writer -> JobType] /\ JobsSourced' /\ RevisionsNumbered' /\ SuppliesBacked'
    BY <2>1, JobStep, RestingType
  <2>3. DocTypeOK'
    BY <2>1, <2>2 DEF DocIInv, DocTypeOK
  <2>4. QED BY <2>1, <2>2, <2>3, NoDocument DEF DocIInv
<1>2. CASE ~ archived
  <2> DEFINE j == [job[w] EXCEPT !.op = "supply", !.read = stage]
  <2>1. /\ j \in JobType /\ j.op = "supply" /\ j.gate = job[w].gate /\ j.doc = job[w].doc
        /\ j.read = stage
    BY DEF DocIInv, DocTypeOK, JobType
  <2>2. /\ job' = [job EXCEPT ![w] = j] /\ job[w].op = "look"
        /\ raced' = (raced \/ \E x \in Writer : job[x].op = "supply")
        /\ UNCHANGED <<archived, stored, docs2, stage, revised, answered, crossed>>
    BY <1>2 DEF ReadInstance, Continue
  <2>3. j.gate \in DocGate /\ j.doc \in DOMAIN docs2
    BY <2>1, <2>2 DEF DocIInv, SuppliesBacked
  <2>4. Backed(j.read) /\ (~ raced' => answered \subseteq j.read.supplied)
    BY <2>1, <2>2 DEF DocIInv, StageBacked
  <2> HIDE DEF j
  <2>5. job' \in [Writer -> JobType] /\ JobsSourced' /\ RevisionsNumbered' /\ SuppliesBacked'
    BY <2>1, <2>2, <2>3, <2>4, JobStep
  <2>6. DocTypeOK'
    BY <2>2, <2>5 DEF DocIInv, DocTypeOK
  <2>7. QED BY <2>2, <2>5, <2>6, NoDocument DEF DocIInv
<1>3. QED BY <1>1, <1>2 DEF DocIInv, DocTypeOK
(* A document is added, whole.                                              *)
LEMMA DocInsertStep == ASSUME DocIInv, NEW w \in Writer, InsertDeliverable(w) PROVE DocIInv'
<1> DEFINE source == job[w].source
           doc    == [versions |-> <<Version(1, source)>>, current |-> 1]
           n      == Len(docs2) + 1
<1>1. /\ job[w].op = "create" /\ docs2' = Append(docs2, doc) /\ Len(docs2) < MaxDocs
      /\ UNCHANGED <<archived, stored, stage, revised, answered, crossed, raced>>
  BY DEF InsertDeliverable
<1>2. docs2 \in Seq(DocType) /\ job \in [Writer -> JobType] /\ Sourced(source) /\ source \in Source
  BY <1>1 DEF DocIInv, DocTypeOK, JobsSourced, JobType
<1>3. Version(1, source) \in VersionOf /\ Version(1, source).v = 1 /\ Version(1, source).source = source
  BY <1>2 DEF Version, VersionOf
<1>4. /\ doc \in DocType /\ doc.current = 1 /\ Len(doc.versions) = 1 /\ DOMAIN doc.versions = {1}
      /\ doc.versions[1].v = 1 /\ doc.versions[1].source = source
  BY <1>3 DEF DocType
<1>5. PICK j \in JobType : /\ job' = [job EXCEPT ![w] = j]
                           /\ j.op \in {"idle", "look"}
                           /\ j.op = "look" => j.gate \in DocGate /\ j.doc = n
  <2>1. CASE job[w].gate = "none"
    BY <2>1, RestingType DEF InsertDeliverable, Finish, Continue
  <2>2. CASE job[w].gate # "none"
    <3>1. job' = [job EXCEPT ![w] = [job[w] EXCEPT !.op = "look", !.doc = n]]
      BY <2>2 DEF InsertDeliverable, Continue
    <3>2. n \in Nat
      BY <1>2
    <3> HIDE DEF n
    <3>3. [job[w] EXCEPT !.op = "look", !.doc = n] \in JobType
      BY <1>2, <3>2 DEF JobType
    <3>4. /\ [job[w] EXCEPT !.op = "look", !.doc = n].op = "look"
          /\ [job[w] EXCEPT !.op = "look", !.doc = n].gate = job[w].gate
          /\ [job[w] EXCEPT !.op = "look", !.doc = n].doc = n
      BY <1>2 DEF JobType
    <3>5. job[w].gate \in DocGate
      BY <1>2, <2>2 DEF JobType
    <3>6. QED BY <3>1, <3>3, <3>4, <3>5
  <2>3. QED BY <2>1, <2>2
<1> HIDE DEF doc, source
<1>6. /\ docs2' \in Seq(DocType) /\ Len(docs2') = n /\ n \in DOMAIN docs2' /\ docs2'[n] = doc
      /\ DOMAIN docs2' = DOMAIN docs2 \cup {n} /\ n \notin DOMAIN docs2
      /\ \A d \in DOMAIN docs2 : docs2'[d] = docs2[d]
  BY <1>1, <1>2, <1>4
<1>7. n \in Places /\ Len(docs2') <= MaxDocs
  BY <1>1, <1>2, <1>6, DocumentBounds DEF Places
<1> HIDE DEF n
<1>8. DocumentsWhole'
  <2>1. revised[n] = 0
    BY <1>6, <1>7 DEF DocIInv, DocumentsWhole
  <2>2. \A i \in DOMAIN doc.versions : Sourced(doc.versions[i].source)
    BY <1>2, <1>4
  <2>3. InOrder(doc)
    BY <1>4 DEF InOrder
  <2>4. \A d \in DOMAIN docs2' : /\ Len(docs2'[d].versions) = 1 + revised[d]
                                 /\ \A i \in DOMAIN docs2'[d].versions : Sourced(docs2'[d].versions[i].source)
                                 /\ d \notin crossed => InOrder(docs2'[d])
    <3> SUFFICES ASSUME NEW d \in DOMAIN docs2'
                 PROVE  /\ Len(docs2'[d].versions) = 1 + revised[d]
                        /\ \A i \in DOMAIN docs2'[d].versions : Sourced(docs2'[d].versions[i].source)
                        /\ d \notin crossed => InOrder(docs2'[d])
      OBVIOUS
    <3>1. CASE d = n
      <4>1. docs2'[d] = doc
        BY <1>6, <3>1
      <4>2. Len(doc.versions) = 1 + revised[d]
        BY <1>4, <2>1, <3>1
      <4>3. QED BY <2>2, <2>3, <4>1, <4>2
    <3>2. CASE d # n
      <4>1. d \in DOMAIN docs2 /\ docs2'[d] = docs2[d]
        BY <1>6, <3>2
      <4>2. QED BY <4>1 DEF DocIInv, DocumentsWhole
    <3>3. QED BY <3>1, <3>2
  <2>5. \A d \in Places \ DOMAIN docs2' : revised[d] = 0
    BY <1>6 DEF DocIInv, DocumentsWhole
  <2>6. QED BY <1>1, <2>4, <2>5 DEF DocumentsWhole, Sourced, InOrder
<1>9. StageBacked'
  BY <1>1, <1>6 DEF DocIInv, StageBacked, Backed
<1>10. job' \in [Writer -> JobType] /\ JobsSourced' /\ RevisionsNumbered' /\ SuppliesBacked'
  <2>1. \A x \in Writer \ {w} : job[x].op = "revise" => docs2'[job[x].doc].current = docs2[job[x].doc].current
    BY <1>6 DEF DocIInv, RevisionsNumbered
  <2>2. QED BY <1>1, <1>5, <1>6, <2>1, JobStep
<1>11. DocTypeOK'
  BY <1>1, <1>6, <1>7, <1>10 DEF DocIInv, DocTypeOK
<1>12. QED BY <1>8, <1>9, <1>10, <1>11 DEF DocIInv

(* A stage is written back whole, from what the request read.               *)
LEMMA SupplyStep == ASSUME DocIInv, NEW w \in Writer, SetDocuments(w) PROVE DocIInv'
<1> DEFINE read == job[w].read
           gate == job[w].gate
           doc  == job[w].doc
<1>1. /\ job[w].op = "supply"
      /\ stage' = [supplied |-> read.supplied \cup {gate}, refs |-> [read.refs EXCEPT ![gate] = doc]]
      /\ answered' = answered \cup {gate} /\ job' = [job EXCEPT ![w] = Resting]
      /\ UNCHANGED <<archived, stored, docs2, revised, crossed, raced>>
  BY DEF SetDocuments, Finish, Continue
<1>2. /\ read \in StageType /\ gate \in DocGate /\ doc \in DOMAIN docs2 /\ Backed(read)
      /\ ~ raced => answered \subseteq read.supplied /\ \A x \in Writer \ {w} : job[x].op # "supply"
  BY <1>1 DEF DocIInv, DocTypeOK, JobType, SuppliesBacked
<1>3. doc \in Nat
  <2>1. docs2 \in Seq(DocType)
    BY DEF DocIInv, DocTypeOK
  <2>2. QED BY <1>2, <2>1
<1> HIDE DEF read, gate, doc
<1>4. stage' \in StageType /\ answered' \subseteq DocGate
  BY <1>1, <1>2, <1>3 DEF DocIInv, DocTypeOK, StageType
<1>5. StageBacked'
  <2>1. \A g \in DocGate : stage'.refs[g] = IF g = gate THEN doc ELSE read.refs[g]
    BY <1>1, <1>2 DEF StageType
  <2>2. stage'.supplied = read.supplied \cup {gate} /\ read.supplied \subseteq DocGate
    BY <1>1, <1>2 DEF StageType
  <2>3. \A g \in stage'.supplied : stage'.refs[g] \in DOMAIN docs2'
    BY <1>1, <1>2, <2>1, <2>2 DEF Backed
  <2>4. ~ raced' => answered' \subseteq stage'.supplied
    BY <1>1, <1>2, <2>2
  <2>5. QED BY <2>3, <2>4 DEF StageBacked, Backed
<1>6. DocumentsWhole'
  BY <1>1 DEF DocIInv, DocumentsWhole, Sourced, InOrder
<1>7. job' \in [Writer -> JobType] /\ JobsSourced' /\ RevisionsNumbered' /\ SuppliesBacked'
  BY <1>1, <1>2, JobStep, RestingType
<1>8. DocTypeOK'
  BY <1>1, <1>4, <1>7 DEF DocIInv, DocTypeOK
<1>9. QED BY <1>5, <1>6, <1>7, <1>8 DEF DocIInv

(* A revision is pushed: the next number, unless another was numbered too.  *)
LEMMA PushStep == ASSUME DocIInv, NEW w \in Writer, PushRevision(w) PROVE DocIInv'
<1> DEFINE d == job[w].doc
           v == job[w].v
           source == job[w].source
           new == Pushed(docs2[d], v, source)
<1>1. /\ job[w].op = "revise" /\ docs2' = [docs2 EXCEPT ![d] = new]
      /\ revised' = [revised EXCEPT ![d] = @ + 1] /\ job' = [job EXCEPT ![w] = Resting]
      /\ UNCHANGED <<archived, stored, stage, answered, crossed, raced>>
  BY DEF PushRevision, Finish, Continue
<1>2. /\ docs2 \in Seq(DocType) /\ Len(docs2) <= MaxDocs /\ revised \in [Places -> Nat]
      /\ v \in Nat /\ source \in Source
  BY DEF DocIInv, DocTypeOK, JobType
<1>3. /\ d \in DOMAIN docs2 /\ Sourced(source)
      /\ d \notin crossed => /\ v = docs2[d].current + 1
                            /\ \A x \in Writer \ {w} : job[x].op = "revise" => job[x].doc # d
  BY <1>1 DEF DocIInv, RevisionsNumbered, JobsSourced
<1>4. /\ docs2[d] \in DocType /\ d \in 1 .. Len(docs2) /\ d \in Places
      /\ Len(docs2[d].versions) = 1 + revised[d] /\ docs2[d].versions \in Seq(VersionOf)
  <2>1. docs2[d] \in DocType /\ d \in 1 .. Len(docs2) /\ d \in Places
    BY <1>2, <1>3, DocumentBounds DEF Places
  <2>2. QED BY <1>3, <2>1 DEF DocIInv, DocumentsWhole, DocType
<1>5. /\ Version(v, source) \in VersionOf
      /\ Version(v, source).v = v /\ Version(v, source).source = source
  BY <1>2 DEF Version, VersionOf
<1>6. /\ new.versions = Append(docs2[d].versions, Version(v, source)) /\ new.current = v
      /\ new \in DocType
  BY <1>2, <1>4, <1>5, SMTT(30) DEF Pushed, DocType
<1> HIDE DEF d, v, source, new
<1>7. /\ Len(new.versions) = Len(docs2[d].versions) + 1
      /\ \A i \in DOMAIN docs2[d].versions : i \in DOMAIN new.versions /\ new.versions[i] = docs2[d].versions[i]
      /\ \A i \in DOMAIN new.versions \ DOMAIN docs2[d].versions :
           i = Len(new.versions) /\ new.versions[i] = Version(v, source)
  BY <1>4, <1>5, <1>6
<1>8. /\ docs2' \in Seq(DocType) /\ Len(docs2') = Len(docs2) /\ DOMAIN docs2' = DOMAIN docs2
      /\ docs2'[d] = new /\ \A x \in DOMAIN docs2 \ {d} : docs2'[x] = docs2[x]
  <2>1. docs2' \in Seq(DocType) /\ Len(docs2') = Len(docs2)
    BY <1>1, <1>2, <1>4, <1>6, ExceptSeq
  <2>2. QED BY <1>1, <1>2, <1>3, <2>1
<1>9. /\ revised' \in [Places -> Nat] /\ revised'[d] = revised[d] + 1
      /\ \A x \in Places \ {d} : revised'[x] = revised[x]
  BY <1>1, <1>2, <1>4
<1>10. DocumentsWhole'
  <2>1. \A i \in DOMAIN new.versions : Sourced(new.versions[i].source)
    BY <1>3, <1>5, <1>7 DEF DocIInv, DocumentsWhole
  <2>2. Len(new.versions) = 1 + revised'[d]
    BY <1>2, <1>4, <1>7, <1>9
  <2>3. d \notin crossed => InOrder(new)
    <3> SUFFICES ASSUME d \notin crossed PROVE InOrder(new)
      OBVIOUS
    <3>1. docs2[d].current = Len(docs2[d].versions)
          /\ \A i \in DOMAIN docs2[d].versions : docs2[d].versions[i].v = i
      BY <1>3 DEF DocIInv, DocumentsWhole, InOrder
    <3>2. v = Len(new.versions)
      BY <1>3, <1>7, <3>1
    <3>3. QED BY <1>5, <1>6, <1>7, <3>1, <3>2 DEF InOrder
  <2>4. \A x \in Places \ DOMAIN docs2' : revised'[x] = 0
    BY <1>3, <1>8, <1>9 DEF DocIInv, DocumentsWhole
  <2>5. \A x \in DOMAIN docs2 \ {d} : x \in Places /\ revised'[x] = revised[x]
    BY <1>2, <1>9, DocumentBounds DEF Places
  <2>6. \A x \in DOMAIN docs2' : /\ Len(docs2'[x].versions) = 1 + revised'[x]
                                 /\ \A i \in DOMAIN docs2'[x].versions : Sourced(docs2'[x].versions[i].source)
                                 /\ x \notin crossed => InOrder(docs2'[x])
    BY <1>8, <2>1, <2>2, <2>3, <2>5 DEF DocIInv, DocumentsWhole
  <2>7. QED BY <1>1, <2>4, <2>6 DEF DocumentsWhole, Sourced, InOrder
<1>11. StageBacked'
  BY <1>1, <1>8 DEF DocIInv, StageBacked, Backed
<1>12. job' \in [Writer -> JobType] /\ JobsSourced' /\ RevisionsNumbered' /\ SuppliesBacked'
  <2>1. \A x \in Writer \ {w} : job[x].op = "revise" /\ job[x].doc \notin crossed =>
                                   docs2'[job[x].doc].current = docs2[job[x].doc].current
    BY <1>3, <1>8 DEF DocIInv, RevisionsNumbered
  <2>2. QED BY <1>1, <1>8, <2>1, JobStep, RestingType
<1>13. DocTypeOK'
  BY <1>1, <1>2, <1>8, <1>9, <1>12 DEF DocIInv, DocTypeOK
<1>14. QED BY <1>10, <1>11, <1>12, <1>13 DEF DocIInv
-----------------------------------------------------------------------------
(* Whatever requests overlap, crash or find the project archived, for any   *)
(* number of requests, files, gates and documents: no revision that was     *)
(* answered is lost, a version is found by its number unless two revisions  *)
(* overlapped, and a gate that is satisfied names a document that exists    *)
(* (add_revision, supply_document, attach_gate_document).                   *)
THEOREM KeepsEvidence == DocumentsSpec => []EvidenceKept
<1>1. DocIInv /\ [DocumentsNext]_documentVars => DocIInv'
  <2> SUFFICES ASSUME DocIInv, [DocumentsNext]_documentVars PROVE DocIInv'
    OBVIOUS
  <2>1. CASE NoRequest
    BY <2>1, DocQuietStep
  <2>2. CASE \E w \in Writer : InsertDeliverable(w) \/ ReadInstance(w) \/ SetDocuments(w)
                              \/ PushRevision(w) \/ Break(w)
    BY <2>2, DocInsertStep, ReadStep, SupplyStep, PushStep, BreakStep
  <2>3. CASE \E w \in Writer, source \in Source :
               CreateDeliverable(w, source) \/ \E gate \in DocGate : AttachGateDocument(w, gate, source)
    BY <2>3, DocCreateStep
  <2>4. CASE \E w \in Writer, source \in Source, d \in DOMAIN docs2 : AddRevision(w, d, source)
    BY <2>4, ReviseBegins
  <2>5. CASE \E w \in Writer, gate \in DocGate, d \in DOMAIN docs2 : SupplyDocument(w, gate, d)
    BY <2>5, SupplyBegins
  <2>6. QED BY <2>1, <2>2, <2>3, <2>4, <2>5 DEF DocumentsNext, NoRequest, Source
<1>2. QED BY <1>1, InitKept, DocAnswers, PTL DEF DocumentsSpec

-----------------------------------------------------------------------------
(***************************************************************************)
(* Proof that every decision goes back to somebody who held the position.  *)
(* AuthorityTraceable is not inductive: a request that was checked is       *)
(* written later, so what is carried is that every request under way is     *)
(* already rightful, and that what made it so is never taken back.          *)
(***************************************************************************)
Delegation == [position : Position, deputy : User, by : User, starts : Time, ends : Time, revoked : BOOLEAN]
Blank      == [position : Position \cup {"none"}, deputy : User \cup {"none"}, by : User \cup {"none"},
               starts : Time, ends : Time, revoked : BOOLEAN]
Asked      == [op : {"idle", "delegate", "revoke", "decide"}, id : Nat, at : Time, what : Blank]

DecTypeOK ==
  /\ clock \in Time
  /\ map \in [Position -> [users : SUBSET User, roles : SUBSET ClientRole]]
  /\ roleOf \in [User -> ClientRole]
  /\ delegations \in Seq(Delegation)
  /\ ended \in Seq(0 .. MaxTime + 1) /\ Len(ended) = Len(delegations)
  /\ asking \in [User -> Asked]
  /\ held \subseteq User \X Position

(* Whoever holds a position now is among those who ever did.                *)
HeldNow == Holders \subseteq held

(* Who wrote a delegation held its position, or the director's, and did not *)
(* name himself.                                                            *)
Granted(g) == g.by # g.deputy /\ {<<g.by, g.position>>, <<g.by, Director>>} \cap held # {}

DelegationsGranted ==
  \A x \in DOMAIN delegations :
    Granted(delegations[x]) /\ (~ delegations[x].revoked => ended[x] = MaxTime + 1)

Claim(u) == [by |-> u, position |-> asking[u].what.position, at |-> asking[u].at]
AskedRightly ==
  \A u \in User :
    /\ asking[u].at <= clock
    /\ asking[u].op = "delegate" =>
         /\ asking[u].what \in Delegation /\ Granted(asking[u].what)
    /\ asking[u].op = "revoke" => asking[u].id \in DOMAIN delegations
    /\ asking[u].op = "decide" => asking[u].what.position \in Position /\ Rightful(Claim(u))

DecidedRightly == decided # Undecided => decided.at \in 0 .. clock /\ Rightful(decided)

DecIInv == DecTypeOK /\ HeldNow /\ DelegationsGranted /\ AskedRightly /\ DecidedRightly
-----------------------------------------------------------------------------
(* What is never taken back: those who held a position stay among those who *)
(* did, a delegation stays where it is, and it ends no earlier than now.    *)
Grows ==
  /\ clock <= clock' /\ held \subseteq held'
  /\ \A x \in DOMAIN delegations :
       /\ x \in DOMAIN delegations'
       /\ delegations'[x].position = delegations[x].position
       /\ delegations'[x].deputy = delegations[x].deputy
       /\ delegations'[x].by = delegations[x].by
       /\ delegations'[x].starts = delegations[x].starts
       /\ delegations'[x].ends = delegations[x].ends
       /\ ended'[x] = ended[x] \/ ended'[x] >= clock

(* A claim that was rightful stays so.                                      *)
LEMMA RightfulKept ==
  ASSUME DecTypeOK, DecTypeOK', Grows, NEW d, d.at \in 0 .. clock, Rightful(d)
  PROVE  Rightful(d)'
<1>1. CASE <<d.by, d.position>> \in held
  BY <1>1 DEF Grows, Rightful
<1>2. CASE <<d.by, d.position>> \notin held
  <2>1. PICK x \in DOMAIN delegations :
          /\ delegations[x].position = d.position /\ delegations[x].deputy = d.by
          /\ delegations[x].starts <= d.at /\ d.at <= delegations[x].ends /\ d.at <= ended[x]
          /\ delegations[x].by # d.by
          /\ {<<delegations[x].by, delegations[x].position>>, <<delegations[x].by, Director>>} \cap held # {}
    BY <1>2 DEF Rightful
  <2>2. x \in DOMAIN delegations' /\ ended[x] \in Int /\ ended'[x] \in Int /\ clock \in Int
    <3>1. x \in DOMAIN delegations'
      BY <2>1 DEF Grows
    <3>2. clock \in Int /\ \A t \in 0 .. MaxTime + 1 : t \in Int
      BY TimeAssumption DEF DecTypeOK, Time
    <3>3. /\ DOMAIN delegations = 1 .. Len(delegations) /\ Len(ended) = Len(delegations)
          /\ DOMAIN delegations' = 1 .. Len(delegations') /\ Len(ended') = Len(delegations')
      BY DEF DecTypeOK
    <3>4. ended \in Seq(0 .. MaxTime + 1) /\ ended' \in Seq(0 .. MaxTime + 1)
      BY TimeAssumption DEF DecTypeOK
    <3>5. ended[x] \in 0 .. MaxTime + 1 /\ ended'[x] \in 0 .. MaxTime + 1
      BY <2>1, <3>1, <3>3, <3>4, ElementOfSeq
    <3>6. QED BY <3>1, <3>2, <3>5
  <2>3. d.at <= ended'[x]
    BY <2>1, <2>2 DEF Grows
  <2>4. /\ delegations'[x].position = d.position /\ delegations'[x].deputy = d.by
        /\ delegations'[x].starts <= d.at /\ d.at <= delegations'[x].ends
        /\ delegations'[x].by # d.by
        /\ {<<delegations'[x].by, delegations'[x].position>>, <<delegations'[x].by, Director>>} \cap held' # {}
    BY <2>1 DEF Grows
  <2>5. QED BY <2>2, <2>3, <2>4 DEF Rightful
<1>3. QED BY <1>1, <1>2

(* Whoever may approve now is rightful now.                                 *)
LEMMA MayApproveRightful ==
  ASSUME DecIInv, NEW u \in User, NEW p \in Position, MayApprove(u, p)
  PROVE  Rightful([by |-> u, position |-> p, at |-> clock])
<1>1. CASE HoldsPosition(u, p)
  BY <1>1 DEF DecIInv, HeldNow, Holders, HoldsPosition, Rightful
<1>2. CASE HasActiveDelegation(u, p)
  <2>1. PICK x \in DOMAIN delegations :
          /\ delegations[x].position = p /\ delegations[x].deputy = u /\ ~ delegations[x].revoked
          /\ delegations[x].starts <= clock /\ clock <= delegations[x].ends
    BY <1>2 DEF HasActiveDelegation
  <2>2. Granted(delegations[x]) /\ ended[x] = MaxTime + 1
    BY <2>1 DEF DecIInv, DelegationsGranted
  <2>3. clock <= ended[x]
    BY <2>2, TimeAssumption DEF DecIInv, DecTypeOK, Time
  <2>4. QED BY <2>1, <2>2, <2>3 DEF Rightful, Granted
<1>3. QED BY <1>1, <1>2 DEF MayApprove

(* Whoever may delegate a position now grants rightly.                      *)
LEMMA MayDelegateGrants ==
  ASSUME DecIInv, NEW u \in User, NEW p \in Position, MayDelegate(u, p)
  PROVE  {<<u, p>>, <<u, Director>>} \cap held # {}
BY DirectorAssumption DEF DecIInv, HeldNow, Holders, MayDelegate, HoldsPosition
-----------------------------------------------------------------------------
LEMMA DecInitRight == ApproversInit => DecIInv
<1> SUFFICES ASSUME ApproversInit PROVE DecIInv
  OBVIOUS
<1> USE DEF ApproversInit
<1>1. DecTypeOK
  BY SeedAssumption, TimeAssumption DEF DecTypeOK, Still, NoDelegation, Asked, Blank, Time, Holders
<1>2. HeldNow /\ DelegationsGranted /\ DecidedRightly
  BY DEF HeldNow, DelegationsGranted, DecidedRightly
<1>3. AskedRightly
  BY TimeAssumption DEF AskedRightly, Still
<1>4. QED BY <1>1, <1>2, <1>3 DEF DecIInv

(* The parts of the invariant that a step leaves alone when it neither      *)
(* writes a delegation nor asks or answers.                                 *)
LEMMA DecQuietStep ==
  ASSUME DecIInv, DecTypeOK', HeldNow', Grows, UNCHANGED <<delegations, asking, decided, ended>>
  PROVE  DecIInv'
<1>1. \A u \in User : asking[u].op = "decide" => Rightful(Claim(u))'
  <2> SUFFICES ASSUME NEW u \in User, asking[u].op = "decide" PROVE Rightful(Claim(u))'
    OBVIOUS
  <2>1. Rightful(Claim(u)) /\ Claim(u).at \in 0 .. clock
    BY DEF DecIInv, AskedRightly, Claim, DecTypeOK, Asked, Time
  <2>2. Rightful([by |-> u, position |-> asking[u].what.position, at |-> asking[u].at])'
    BY <2>1, RightfulKept DEF DecIInv, Claim
  <2>3. QED BY <2>2 DEF Claim
<1>2. \A g : Granted(g) => Granted(g)'
  BY DEF Granted, Grows
<1>3. DelegationsGranted'
  BY <1>2 DEF DecIInv, DelegationsGranted, Granted
<1>4. AskedRightly'
  BY <1>1, <1>2 DEF DecIInv, AskedRightly, Grows, DecTypeOK, Asked, Time, Granted
<1>5. DecidedRightly'
  BY RightfulKept DEF DecIInv, DecidedRightly, Grows, DecTypeOK, Time, Rightful
<1>6. QED BY <1>3, <1>4, <1>5 DEF DecIInv
(* The request records that are built from NoDelegation.                    *)
LEMMA BlankAsked ==
  /\ \A p \in Position :
       LET d == [NoDelegation EXCEPT !.position = p]
       IN  d.position = p /\ d \in Blank
  /\ \A p \in Position, v, u \in User, s, e \in Time :
       LET d == [NoDelegation EXCEPT !.position = p, !.deputy = v, !.by = u, !.starts = s, !.ends = e]
       IN  /\ d.position = p /\ d.deputy = v /\ d.by = u
           /\ d \in Delegation
<1>1. /\ 0 \in Time /\ NoDelegation \in Blank
      /\ NoDelegation.revoked \in BOOLEAN
  BY TimeAssumption DEF Time, NoDelegation, Blank
<1>2. ASSUME NEW n \in Blank, NEW p \in Position
      PROVE  [n EXCEPT !.position = p].position = p /\ [n EXCEPT !.position = p] \in Blank
  BY <1>2 DEF Blank
<1>3. ASSUME NEW n \in Blank, NEW p \in Position, NEW v \in User, NEW u \in User,
             NEW s \in Time, NEW e \in Time
      PROVE  LET d == [n EXCEPT !.position = p, !.deputy = v, !.by = u, !.starts = s, !.ends = e]
             IN  d.position = p /\ d.deputy = v /\ d.by = u /\ d \in Delegation
  BY <1>3 DEF Blank, Delegation
<1>4. QED BY <1>1, <1>2, <1>3

(* Parts of a step that only asks: nothing but the request is written.      *)
LEMMA AskStep ==
  ASSUME DecIInv, NEW u \in User, NEW op \in {"delegate", "revoke", "decide"}, NEW x \in Nat, NEW what \in Blank,
         Ask(u, op, x, what),
         op = "delegate" => what \in Delegation /\ Granted(what),
         op = "revoke" => x \in DOMAIN delegations,
         op = "decide" => what.position \in Position
                           /\ Rightful([by |-> u, position |-> what.position, at |-> clock])
  PROVE  DecIInv'
<1> USE DEF Ask
<1>1. DecTypeOK'
  BY DEF DecIInv, DecTypeOK, Asked, Time
<1>2. HeldNow' /\ DelegationsGranted' /\ DecidedRightly'
  BY DEF DecIInv, HeldNow, Holders, DelegationsGranted, Granted, DecidedRightly, Rightful
<1>3. asking' = [asking EXCEPT ![u] = [op |-> op, id |-> x, what |-> what, at |-> clock]]
      /\ asking \in [User -> Asked]
  BY DEF DecIInv, DecTypeOK
<1>4. \A v \in User : asking'[v].op = "decide" =>
                         asking'[v].what.position \in Position /\ Rightful(Claim(v))'
  <2> SUFFICES ASSUME NEW v \in User, asking'[v].op = "decide"
               PROVE  asking'[v].what.position \in Position /\ Rightful(Claim(v))'
    OBVIOUS
  <2>1. CASE v = u
    BY <1>3, <2>1 DEF Claim, Rightful
  <2>2. CASE v # u
    BY <1>3, <2>2 DEF DecIInv, AskedRightly, Claim, Rightful
  <2>3. QED BY <2>1, <2>2
<1>5. \A v \in User : /\ asking'[v].at <= clock'
                      /\ asking'[v].op = "delegate" => asking'[v].what \in Delegation /\ Granted(asking[v].what)'
                      /\ asking'[v].op = "revoke" => asking'[v].id \in DOMAIN delegations'
  <2> SUFFICES ASSUME NEW v \in User
               PROVE  /\ asking'[v].at <= clock'
                      /\ asking'[v].op = "delegate" => asking'[v].what \in Delegation /\ Granted(asking[v].what)'
                      /\ asking'[v].op = "revoke" => asking'[v].id \in DOMAIN delegations'
    OBVIOUS
  <2>1. CASE v = u
    BY <1>3, <2>1, TimeAssumption DEF Granted, DecIInv, DecTypeOK, Time
  <2>2. CASE v # u
    BY <1>3, <2>2 DEF DecIInv, AskedRightly, Granted
  <2>3. QED BY <2>1, <2>2
<1>6. AskedRightly'
  BY <1>4, <1>5 DEF AskedRightly
<1>7. QED BY <1>1, <1>2, <1>6 DEF DecIInv

(* A step that answers u and leaves the others asking.                      *)
LEMMA AnswerStep ==
  ASSUME DecIInv, DecTypeOK', NEW u \in User, asking' = [asking EXCEPT ![u] = Still],
         Grows, UNCHANGED held
  PROVE  AskedRightly'
<1>1. asking' \in [User -> Asked] /\ asking \in [User -> Asked] /\ clock' \in Time /\ clock \in Time
  BY DEF DecIInv, DecTypeOK
<1>2. asking'[u].op = "idle" /\ asking'[u].at = 0
  BY <1>1 DEF Still
<1>3. \A v \in User \ {u} : asking'[v] = asking[v]
  BY <1>1
<1>4. \A v \in User : asking'[v].op = "decide" => Rightful(Claim(v))'
  <2> SUFFICES ASSUME NEW v \in User, asking'[v].op = "decide" PROVE Rightful(Claim(v))'
    OBVIOUS
  <2>1. v # u /\ asking'[v] = asking[v]
    BY <1>2, <1>3
  <2>2. Rightful(Claim(v)) /\ Claim(v).at \in 0 .. clock
    BY <1>1, <2>1 DEF DecIInv, AskedRightly, Claim, Asked, Time
  <2>3. PICK c : c = Claim(v)
    OBVIOUS
  <2>4. Rightful(c)'
    BY <2>2, <2>3, RightfulKept DEF DecIInv
  <2>5. c = Claim(v)'
    BY <2>1, <2>3 DEF Claim
  <2>6. QED BY <2>4, <2>5
<1>5. \A v \in User : asking'[v].at <= clock'
  BY <1>1, <1>2, <1>3, TimeAssumption DEF DecIInv, AskedRightly, Grows, Time, Asked
<1>6. \A v \in User : asking'[v].op # "idle" => v # u
  BY <1>2
<1>7. \A v \in User : asking'[v].op = "revoke" => asking'[v].id \in DOMAIN delegations'
  BY <1>3, <1>6 DEF DecIInv, AskedRightly, Grows
<1>8. QED BY <1>3, <1>4, <1>5, <1>6, <1>7 DEF DecIInv, AskedRightly, Granted
-----------------------------------------------------------------------------
LEMMA StutterStep == ASSUME DecIInv, UNCHANGED approverVars PROVE DecIInv'
<1> USE DEF approverVars
<1>1. DecTypeOK' /\ HeldNow'
  BY DEF DecIInv, DecTypeOK, HeldNow, Holders
<1>2. Grows
  BY TimeAssumption DEF Grows, DecIInv, DecTypeOK, Time
<1>3. QED BY <1>1, <1>2, DecQuietStep

LEMMA TickStep == ASSUME DecIInv, Tick PROVE DecIInv'
<1>1. DecTypeOK' /\ HeldNow'
  BY TimeAssumption DEF DecIInv, DecTypeOK, Tick, Time, HeldNow, Holders
<1>2. Grows
  BY TimeAssumption DEF Tick, Grows, DecIInv, DecTypeOK, Time
<1>3. QED BY <1>1, <1>2, DecQuietStep DEF Tick

LEMMA AskingStep ==
  ASSUME DecIInv, NEW u \in User,
         \/ \E p \in Position : Decide(u, p)
         \/ \E x \in DOMAIN delegations : RevokeDelegation(u, x)
         \/ \E p \in Position, v \in User, s, e \in Time : CreateDelegation(u, p, v, s, e)
  PROVE  DecIInv'
<1>1. CASE \E p \in Position : Decide(u, p)
  <2>1. PICK p \in Position : Decide(u, p)
    BY <1>1
  <2>2. Rightful([by |-> u, position |-> p, at |-> clock])
    BY <2>1, MayApproveRightful DEF Decide
  <2> DEFINE d == [NoDelegation EXCEPT !.position = p]
  <2>3. d.position = p /\ d \in Blank
    BY BlankAsked
  <2>4. Ask(u, "decide", 0, d)
    BY <2>1 DEF Decide
  <2> HIDE DEF d
  <2>5. QED BY <2>2, <2>3, <2>4, AskStep
<1>2. CASE \E x \in DOMAIN delegations : RevokeDelegation(u, x)
  <2>1. PICK x \in DOMAIN delegations : Ask(u, "revoke", x, NoDelegation)
    BY <1>2 DEF RevokeDelegation
  <2>2. x \in Nat
    BY DEF DecIInv, DecTypeOK
  <2>3. NoDelegation \in Blank
    BY TimeAssumption DEF Time, Blank, NoDelegation
  <2>4. QED BY <2>1, <2>2, <2>3, AskStep
<1>3. CASE \E p \in Position, v \in User, s, e \in Time : CreateDelegation(u, p, v, s, e)
  <2>1. PICK p \in Position, v \in User, s \in Time, e \in Time : CreateDelegation(u, p, v, s, e)
    BY <1>3
  <2> DEFINE d == [NoDelegation EXCEPT !.position = p, !.deputy = v, !.by = u, !.starts = s, !.ends = e]
  <2>2. d.position = p /\ d.deputy = v /\ d.by = u /\ d \in Delegation
    BY BlankAsked
  <2>3. Granted(d)
    BY <2>1, <2>2, MayDelegateGrants DEF CreateDelegation, Granted
  <2>4. d \in Blank
    BY <2>2 DEF Delegation, Blank
  <2>5. Ask(u, "delegate", 0, d)
    BY <2>1 DEF CreateDelegation
  <2> HIDE DEF d
  <2>6. QED BY <2>2, <2>3, <2>4, <2>5, AskStep
<1>4. QED BY <1>1, <1>2, <1>3

LEMMA DecInsertStep == ASSUME DecIInv, NEW u \in User, InsertDelegation(u) PROVE DecIInv'
<1> DEFINE d == asking[u].what
<1>1. d \in Delegation /\ Granted(d)
  BY DEF InsertDelegation, DecIInv, AskedRightly
<1>2. /\ delegations' = Append(delegations, d) /\ ended' = Append(ended, MaxTime + 1)
      /\ asking' = [asking EXCEPT ![u] = Still]
      /\ UNCHANGED <<clock, map, roleOf, held, decided>>
  BY DEF InsertDelegation, Answered
<1>3. /\ delegations \in Seq(Delegation) /\ ended \in Seq(0 .. MaxTime + 1)
      /\ Len(ended) = Len(delegations) /\ MaxTime \in Nat
  BY TimeAssumption DEF DecIInv, DecTypeOK
<1> HIDE DEF d
<1>4. /\ delegations' \in Seq(Delegation) /\ ended' \in Seq(0 .. MaxTime + 1)
      /\ Len(ended') = Len(delegations')
  BY <1>1, <1>2, <1>3
<1>5. /\ \A x \in DOMAIN delegations : /\ x \in DOMAIN delegations'
                                       /\ delegations'[x] = delegations[x] /\ ended'[x] = ended[x]
      /\ \A x \in DOMAIN delegations' \ DOMAIN delegations :
           delegations'[x] = d /\ ended'[x] = MaxTime + 1
  BY <1>1, <1>2, <1>3
<1>6. DecTypeOK'
  BY <1>2, <1>4, TimeAssumption DEF DecIInv, DecTypeOK, Asked, Blank, Still, NoDelegation, Time
<1>7. Grows
  BY <1>2, <1>5 DEF Grows, DecIInv, DecTypeOK, Time
<1>8. HeldNow'
  BY <1>2 DEF DecIInv, HeldNow, Holders
<1>9. DelegationsGranted'
  BY <1>1, <1>2, <1>5 DEF DecIInv, DelegationsGranted, Granted
<1>10. AskedRightly'
  BY <1>2, <1>6, <1>7, AnswerStep
<1>11. DecidedRightly'
  <2>1. /\ clock' = clock /\ decided' = decided /\ DecTypeOK
        /\ decided # Undecided => decided.at \in 0 .. clock /\ Rightful(decided)
    BY <1>2 DEF DecIInv, DecidedRightly
  <2>2. decided # Undecided => Rightful(decided)'
    BY <1>6, <1>7, <2>1, RightfulKept
  <2>3. QED BY <2>1, <2>2 DEF DecidedRightly, Rightful
<1>12. QED BY <1>6, <1>8, <1>9, <1>10, <1>11 DEF DecIInv

LEMMA RevokeStep == ASSUME DecIInv, NEW u \in User, WriteRevoked(u) PROVE DecIInv'
<1> DEFINE x == asking[u].id
<1>1. x \in DOMAIN delegations
  BY DEF WriteRevoked, DecIInv, AskedRightly
<1>2. /\ delegations' = [delegations EXCEPT ![x].revoked = TRUE]
      /\ ended' = [ended EXCEPT ![x] = IF clock < ended[x] THEN clock ELSE ended[x]]
      /\ asking' = [asking EXCEPT ![u] = Still]
      /\ UNCHANGED <<clock, map, roleOf, held, decided>>
  BY DEF WriteRevoked, Answered
<1>3. /\ delegations \in Seq(Delegation) /\ ended \in Seq(0 .. MaxTime + 1)
      /\ Len(ended) = Len(delegations) /\ MaxTime \in Nat /\ clock \in 0 .. MaxTime
  BY TimeAssumption DEF DecIInv, DecTypeOK, Time
<1> HIDE DEF x
<1>4. DOMAIN ended = DOMAIN delegations /\ delegations[x] \in Delegation /\ ended[x] \in 0 .. MaxTime + 1
  BY <1>1, <1>3
<1>5. /\ DOMAIN delegations' = DOMAIN delegations
      /\ \A y \in DOMAIN delegations :
           /\ delegations'[y] \in Delegation
           /\ delegations'[y].position = delegations[y].position
           /\ delegations'[y].deputy = delegations[y].deputy /\ delegations'[y].by = delegations[y].by
           /\ delegations'[y].starts = delegations[y].starts /\ delegations'[y].ends = delegations[y].ends
           /\ ~ delegations'[y].revoked => ~ delegations[y].revoked /\ y # x
      /\ \A y \in DOMAIN delegations : y # x => ended'[y] = ended[y]
      /\ ended'[x] = ended[x] \/ ended'[x] = clock
  <2>1. DOMAIN delegations' = DOMAIN delegations
    BY <1>2
  <2>2. \A y \in DOMAIN delegations :
          delegations'[y] = IF y = x THEN [delegations[x] EXCEPT !.revoked = TRUE] ELSE delegations[y]
    BY <1>1, <1>2
  <2>3. [delegations[x] EXCEPT !.revoked = TRUE] \in Delegation
    BY <1>4 DEF Delegation
  <2>4. \A y \in DOMAIN delegations : delegations[y] \in Delegation
    BY <1>3
  <2>5. \A y \in DOMAIN delegations : y # x => ended'[y] = ended[y]
    BY <1>2, <1>4
  <2>6. ended'[x] = ended[x] \/ ended'[x] = clock
    BY <1>1, <1>2, <1>4
  <2>7. \A y \in DOMAIN delegations :
           /\ delegations'[y] \in Delegation
           /\ delegations'[y].position = delegations[y].position
           /\ delegations'[y].deputy = delegations[y].deputy /\ delegations'[y].by = delegations[y].by
           /\ delegations'[y].starts = delegations[y].starts /\ delegations'[y].ends = delegations[y].ends
           /\ ~ delegations'[y].revoked => ~ delegations[y].revoked /\ y # x
    BY <1>1, <2>2, <2>3, <2>4 DEF Delegation
  <2>8. QED BY <2>1, <2>5, <2>6, <2>7
<1>6. /\ delegations' \in Seq(Delegation) /\ ended' \in Seq(0 .. MaxTime + 1)
      /\ Len(ended') = Len(delegations')
  <2>1. x \in 1 .. Len(delegations) /\ x \in 1 .. Len(ended)
    BY <1>1, <1>3
  <2>2. (IF clock < ended[x] THEN clock ELSE ended[x]) \in 0 .. MaxTime + 1
    BY <1>3, <1>4
  <2>3. [delegations[x] EXCEPT !.revoked = TRUE] \in Delegation
    BY <1>4 DEF Delegation
  <2>4. /\ delegations' = [delegations EXCEPT ![x] = [delegations[x] EXCEPT !.revoked = TRUE]]
    BY <1>2
  <2>5. delegations' \in Seq(Delegation) /\ Len(delegations') = Len(delegations)
    BY <1>3, <2>1, <2>3, <2>4, ExceptSeq
  <2>6. ended' \in Seq(0 .. MaxTime + 1) /\ Len(ended') = Len(ended)
    BY <1>2, <1>3, <2>1, <2>2, ExceptSeq
  <2>7. QED BY <1>3, <2>5, <2>6
<1>7. DecTypeOK'
  BY <1>2, <1>6, TimeAssumption DEF DecIInv, DecTypeOK, Asked, Blank, Still, NoDelegation, Time
<1>8. Grows
  BY <1>1, <1>2, <1>3, <1>5 DEF Grows
<1>9. HeldNow'
  BY <1>2 DEF DecIInv, HeldNow, Holders
<1>10. DelegationsGranted'
  BY <1>2, <1>5 DEF DecIInv, DelegationsGranted, Granted
<1>11. AskedRightly'
  BY <1>2, <1>7, <1>8, AnswerStep
<1>12. DecidedRightly'
  BY <1>2, <1>7, <1>8, RightfulKept DEF DecIInv, DecidedRightly, Rightful
<1>13. QED BY <1>7, <1>9, <1>10, <1>11, <1>12 DEF DecIInv

LEMMA DecisionStep == ASSUME DecIInv, NEW u \in User, WriteDecision(u) PROVE DecIInv'
<1> USE DEF WriteDecision, Answered
<1>1. DecTypeOK'
  BY TimeAssumption, SMTT(30) DEF DecIInv, DecTypeOK, Asked, Blank, Still, NoDelegation, Time
<1>2. Grows
  BY DEF Grows, DecIInv, DecTypeOK, Time
<1>3. HeldNow' /\ DelegationsGranted'
  BY DEF DecIInv, HeldNow, Holders, DelegationsGranted, Granted
<1>4. AskedRightly'
  BY <1>1, <1>2, AnswerStep
<1>5. decided' = Claim(u) /\ Rightful(Claim(u)) /\ Claim(u).at \in 0 .. clock
  BY DEF DecIInv, AskedRightly, Claim, DecTypeOK, Asked, Time
<1>6. DecidedRightly'
  BY <1>1, <1>2, <1>5, RightfulKept DEF DecIInv, DecidedRightly, Rightful
<1>7. QED BY <1>1, <1>3, <1>4, <1>6 DEF DecIInv
-----------------------------------------------------------------------------
(* Whatever changes of the map and of roles, delegations, revocations and   *)
(* expiries there are between the check of a request (_assert_may_approve)  *)
(* and its write, a decision goes back to somebody who held the position,   *)
(* for any users, positions, roles and bounds.                              *)
THEOREM Traceable == ApproversSpec => []AuthorityTraceable
<1>1. DecIInv /\ [ApproversNext]_approverVars => DecIInv'
  <2> SUFFICES ASSUME DecIInv, [ApproversNext]_approverVars PROVE DecIInv'
    OBVIOUS
  <2>1. CASE Tick
    BY <2>1, TickStep
  <2>2. CASE \E p \in Position, users \in SUBSET User, clients \in SUBSET ClientRole :
               PatchApproverMap(p, users, clients)
    <3>1. PICK p \in Position, users \in SUBSET User, clients \in SUBSET ClientRole :
            PatchApproverMap(p, users, clients)
      BY <2>2
    <3>2. DecTypeOK'
      BY <3>1 DEF DecIInv, DecTypeOK, PatchApproverMap, Edit2, Remember
    <3>3. HeldNow'
      BY <3>1 DEF PatchApproverMap, Remember, HeldNow, Holders
    <3>4. Grows
      BY <3>1, TimeAssumption DEF PatchApproverMap, Edit2, Remember, Grows, DecIInv, DecTypeOK, Time
    <3>5. QED BY <3>1, <3>2, <3>3, <3>4, DecQuietStep DEF PatchApproverMap, Edit2
  <2>3. CASE \E u \in User, role \in ClientRole : ChangeRole(u, role)
    <3>1. PICK u \in User, role \in ClientRole : ChangeRole(u, role)
      BY <2>3
    <3>2. DecTypeOK'
      BY <3>1 DEF DecIInv, DecTypeOK, ChangeRole, Edit2, Remember
    <3>3. HeldNow'
      BY <3>1 DEF ChangeRole, Remember, HeldNow, Holders
    <3>4. Grows
      BY <3>1, TimeAssumption DEF ChangeRole, Edit2, Remember, Grows, DecIInv, DecTypeOK, Time
    <3>5. QED BY <3>1, <3>2, <3>3, <3>4, DecQuietStep DEF ChangeRole, Edit2
  <2>4. CASE \E u \in User : InsertDelegation(u) \/ WriteRevoked(u) \/ WriteDecision(u)
    BY <2>4, DecInsertStep, RevokeStep, DecisionStep
  <2>5. CASE \E u \in User :
               \/ \E p \in Position : Decide(u, p)
               \/ \E x \in DOMAIN delegations : RevokeDelegation(u, x)
               \/ \E p \in Position, v \in User, s, e \in Time : CreateDelegation(u, p, v, s, e)
    BY <2>5, AskingStep
  <2>6. CASE UNCHANGED approverVars
    BY <2>6, StutterStep DEF approverVars
  <2>7. QED BY <2>1, <2>2, <2>3, <2>4, <2>5, <2>6 DEF ApproversNext
<1>2. DecIInv => AuthorityTraceable
  BY DEF DecIInv, DecidedRightly, AuthorityTraceable
<1>3. QED BY <1>1, <1>2, DecInitRight, PTL DEF ApproversSpec


-----------------------------------------------------------------------------
(***************************************************************************)
(* Proofs about the seed of the definitions.  A run knows what its earlier  *)
(* calls left behind (RunKnows), and what others do meanwhile takes nothing *)
(* of that away (Keeps), as long as no reset runs against another run.      *)
(***************************************************************************)
SeedPcs == {"idle", "decide", "wipe_stages", "wipe_gates", "wipe_roles", "roles", "configs", "type",
            "adopt_sequential", "adopt_concurrent", "adopt_gates", "upsert", "insert", "index", "stamp", "pin"}
Wiping    == {"wipe_stages", "wipe_gates", "wipe_roles"}
Upserting == {"upsert", "insert"}
Upserted  == {"index", "stamp", "pin"}
(* Past a call of seed, in the order of the calls.                          *)
PastGates      == Upserting \cup Upserted
PastConcurrent == {"adopt_gates"} \cup PastGates
PastSequential == {"adopt_concurrent"} \cup PastConcurrent
PastConfigs    == {"type", "adopt_sequential"} \cup PastSequential
PastRoles      == {"configs"} \cup PastConfigs

StageDefs == [key : StageKey \cup OldKey, type : Types \cup {"none"}, owner : Owners \cup {"none"},
              edited : BOOLEAN, n : Nat \ {0}]
GateRules == [key : GateKey, owner : Owners \cup {"none"}, edited : BOOLEAN, n : Nat \ {0}]
SeedRows  == StageRows \cup GateRows

RunTyped(r) ==
  /\ r.pc \in SeedPcs
  /\ r = [pc |-> r.pc, rows |-> r.rows, script |-> r.script]
  /\ r.pc \in Upserting => r.rows \in Seq(SeedRows) /\ r.rows # <<>>

SeedTypes ==
  /\ from \in 0 .. Target
  /\ stages \subseteq StageDefs /\ IsFiniteSet(stages)
  /\ gates \subseteq GateRules /\ IsFiniteSet(gates)
  /\ roles \subseteq [key : RoleKey, edited : BOOLEAN]
  /\ configs \in {{}, {"standard"}, Owners}
  /\ meta \in {IF from = 1 THEN 0 ELSE from, Target}
  /\ DOMAIN run = Seeder
  /\ \A s \in Seeder : RunTyped(run[s])

(* A stage of the current machine, and one of versions 1 and 2.             *)
Fresh(d) == /\ d.key \in StageKey /\ d.type \in Types
            /\ d.owner \in {"none", Owner[d.type]}
Stale(d) == d.key \in OldKey /\ d.type = "none" /\ d.owner = "none"

(* Stages of the two never stand together, and the old ones are only there  *)
(* as long as no run has passed the reset.                                  *)
OneMachine ==
  \/ \A d \in stages : Fresh(d)
  \/ /\ \A d \in stages : Stale(d)
     /\ from \in {1, 2} /\ meta # Target
     /\ \A s \in Seeder : run[s].pc \in {"idle", "decide", "wipe_stages"}

OnceEach ==
  /\ \A d, e \in stages : d.key = e.key /\ d.type = e.type /\ d.n = 1 /\ e.n = 1 => d = e
  /\ \A g, h \in gates : g.key = h.key /\ g.owner = h.owner /\ g.n = 1 /\ h.n = 1 => g = h
  /\ indexed => /\ \A d \in stages : d.n = 1
                /\ \A g \in gates : g.n = 1
  /\ \A g, h \in gates : g.owner = "none" => h.owner = "none"

(* On a tenant that had the current skeleton nothing is reset, and no stage *)
(* is inserted.                                                             *)
SinceSkeleton ==
  from >= _SKELETON_VERSION =>
    /\ \A t \in Types : \A k \in StageKey : \E d \in stages : d.key = k /\ d.type = t
    /\ \A d \in stages : d.n = 1
    /\ \A s \in Seeder : run[s].pc \notin Wiping
    /\ \A s \in Seeder : run[s].pc = "insert" => Head(run[s].rows).kind = "gate"

There(row) ==
  IF row.kind = "stage" THEN \E d \in stages : d.key = row.key /\ d.owner = Owner[row.type]
  ELSE \E g \in gates : g.key = row.key /\ g.owner = Owner[row.type]
ToDo(rows, row) == \E i \in DOMAIN rows : rows[i] = row

RolesThere        == \A k \in RoleKey : \E d \in roles : d.key = k
SequentialAdopted == \A d \in stages : d.type = "sequential" => d.owner # "none"
StagesAdopted     == \A d \in stages : d.owner # "none"
GatesAdopted      == \A g \in gates : g.owner # "none"

(* What a run knows of the definitions from the calls it has made.          *)
RunKnows(r) ==
  /\ r.pc \in PastRoles => RolesThere
  /\ r.pc \in PastConfigs => configs = Owners
  /\ r.pc \in PastSequential => SequentialAdopted
  /\ r.pc \in PastConcurrent => StagesAdopted
  /\ r.pc \in PastGates => GatesAdopted
  /\ r.pc \in Upserting => \A row \in SeedRows : There(row) \/ ToDo(r.rows, row)
  /\ r.pc \in Upserted => \A row \in SeedRows : There(row)
  /\ r.pc = "stamp" => indexed

Unscoped == configs = {} => /\ \A d \in stages : d.owner = "none"
                            /\ \A g \in gates : g.owner = "none"

(* The current machine, as a run that stamps it knows it.                   *)
MachineSeeded == /\ RolesThere /\ configs = Owners /\ StagesAdopted /\ GatesAdopted /\ indexed
          /\ \A row \in SeedRows : There(row)

EditKept(e) ==
  \/ e[1] = "stage" /\ \E d \in stages : d.key = e[2] /\ d.edited /\ d.type = "sequential"
  \/ e[1] = "gate" /\ \E d \in gates : d.key = e[2] /\ d.edited /\ d.owner \in {"none", "standard"}
  \/ e[1] = "role" /\ [key |-> e[2], edited |-> TRUE] \in roles

Sound ==
  /\ OneMachine /\ OnceEach /\ SinceSkeleton /\ Unscoped
  /\ \A s \in Seeder : RunKnows(run[s])
  /\ meta = Target => MachineSeeded
  /\ edited # {} => from >= _SKELETON_VERSION \/ meta = Target
  /\ \A e \in edited : EditKept(e)

SeedInv == /\ SeedTypes
           /\ from >= _SKELETON_VERSION => ~ torn
           /\ ~ torn => Sound

LEMMA OwnerOf ==
  /\ Owner["sequential"] = "standard" /\ Owner["concurrent"] = "concurrent"
  /\ \A t \in Types : Owner[t] \in Owners /\ Owner[t] # "none"
  /\ \A t, u \in Types : Owner[t] = Owner[u] => t = u
BY DEF Owner, Types, Owners

(* What a step that takes nothing away leaves true.                         *)
Keeps ==
  /\ RolesThere => RolesThere'
  /\ configs = Owners => configs' = Owners
  /\ SequentialAdopted => SequentialAdopted'
  /\ StagesAdopted => StagesAdopted'
  /\ GatesAdopted => GatesAdopted'
  /\ \A row \in SeedRows : There(row) => There(row)'
  /\ indexed => indexed'

LEMMA KnowsKept ==
  ASSUME NEW r, RunKnows(r), Keeps
  PROVE  RunKnows(r)'
BY DEF RunKnows, Keeps

LEMMA MachineKept ==
  ASSUME MachineSeeded, Keeps
  PROVE  MachineSeeded'
BY DEF MachineSeeded, Keeps

(* A step of run s that takes nothing away.                                 *)
LEMMA SoundStep ==
  ASSUME Sound, Keeps, SeedTypes, NEW s \in Seeder, NEW r, run' = [run EXCEPT ![s] = r],
         OneMachine', OnceEach', SinceSkeleton', Unscoped', RunKnows(r)',
         UNCHANGED <<from, meta, edited>>,
         \A e \in edited : EditKept(e) => EditKept(e)'
  PROVE  Sound'
<1>1. \A x \in Seeder : run'[x] = run[x] \/ run'[x] = r
  BY DEF SeedTypes
<1>2. ASSUME NEW x \in Seeder PROVE RunKnows(run[x])'
  <2>1. \A q : q = run[x] => RunKnows(q)'
    BY KnowsKept DEF Sound
  <2>2. \A q : q = run'[x] => RunKnows(q)'
    BY <1>1, <2>1
  <2>3. QED BY <2>2
<1>3. meta' = Target => MachineSeeded'
  BY MachineKept DEF Sound
<1>4. \A e \in edited' : EditKept(e)'
  BY DEF Sound
<1>5. QED BY <1>2, <1>3, <1>4 DEF Sound

(* A run that moves on to a call keeps its rows.                            *)
LEMMA MovesOn ==
  ASSUME NEW r, RunTyped(r), NEW pc \in SeedPcs, pc \in Upserting => r.pc \in Upserting
  PROVE  LET q == [r EXCEPT !.pc = pc] IN q.pc = pc /\ q.rows = r.rows /\ RunTyped(q)
<1> DEFINE q == [r EXCEPT !.pc = pc]
<1>1. r = [pc |-> r.pc, rows |-> r.rows, script |-> r.script]
  BY DEF RunTyped
<1>2. q = [pc |-> pc, rows |-> r.rows, script |-> r.script]
  BY <1>1
<1> HIDE DEF q
<1>3. q.pc = pc /\ q.rows = r.rows /\ q.script = r.script
  BY <1>2
<1>4. RunTyped(q)
  BY <1>2, <1>3 DEF RunTyped
<1>5. QED BY <1>3, <1>4 DEF q

LEMMA NotRunningTyped == RunTyped(NotRunning) /\ NotRunning.pc = "idle"
BY DEF RunTyped, NotRunning, SeedPcs, Upserting

(* Past the decision there are only stages of the current machine.          *)
LEMMA PastReset ==
  ASSUME Sound, NEW s \in Seeder, run[s].pc \notin {"idle", "decide", "wipe_stages"}
  PROVE  \A d \in stages : Fresh(d)
BY DEF Sound, OneMachine

LEMMA SkeletonKept ==
  ASSUME SinceSkeleton, SeedTypes, from' = from, NEW s \in Seeder, NEW r, run' = [run EXCEPT ![s] = r],
         from >= _SKELETON_VERSION => /\ r.pc \notin Wiping
                                      /\ r.pc = "insert" => Head(r.rows).kind = "gate",
         \A k, t : (\E d \in stages : d.key = k /\ d.type = t) => (\E d \in stages' : d.key = k /\ d.type = t),
         (\A d \in stages : d.n = 1) => (from >= _SKELETON_VERSION => \A d \in stages' : d.n = 1)
  PROVE  SinceSkeleton'
<1>1. \A x \in Seeder : run'[x] = run[x] \/ run'[x] = r
  BY DEF SeedTypes
<1>2. QED BY <1>1 DEF SinceSkeleton

LEMMA TypesStep ==
  ASSUME SeedTypes, NEW s \in Seeder, NEW r, run' = [run EXCEPT ![s] = r], RunTyped(r)
  PROVE  DOMAIN run' = Seeder /\ \A x \in Seeder : RunTyped(run'[x])
BY DEF SeedTypes

(* A step of a run that reads only.                                         *)
LEMMA ReadOnly ==
  ASSUME SeedInv, NEW s \in Seeder, NEW r, run' = [run EXCEPT ![s] = r], RunTyped(r),
         UNCHANGED <<from, definitions, configs, indexed, meta, edited, torn>>,
         Sound => /\ RunKnows(r)
                  /\ r.pc \in {"idle", "decide", "wipe_stages"} \/ \A d \in stages : Fresh(d)
                  /\ from >= _SKELETON_VERSION => /\ r.pc \notin Wiping
                                                  /\ r.pc = "insert" => Head(r.rows).kind = "gate"
  PROVE  SeedInv'
<1>1. UNCHANGED <<from, stages, gates, roles, configs, indexed, meta, edited, torn>>
  BY DEF definitions
<1>2. SeedTypes'
  BY <1>1, TypesStep DEF SeedInv, SeedTypes
<1>3. ASSUME ~ torn PROVE Sound'
  <2>1. Sound /\ SeedTypes
    BY <1>3 DEF SeedInv
  <2>2. Keeps
    BY <1>1 DEF Keeps, RolesThere, SequentialAdopted, StagesAdopted, GatesAdopted, There
  <2>3. OneMachine'
    <3>1. \A x \in Seeder : run'[x] = run[x] \/ run'[x] = r
      BY <2>1 DEF SeedTypes
    <3>2. QED BY <1>1, <2>1, <3>1 DEF Sound, OneMachine
  <2>4. OnceEach' /\ Unscoped'
    BY <1>1, <2>1 DEF Sound, OnceEach, Unscoped
  <2>5. SinceSkeleton'
    BY <1>1, <2>1, SkeletonKept DEF Sound
  <2>6. RunKnows(r)'
    BY <2>1, <2>2, KnowsKept
  <2>7. \A e : EditKept(e) => EditKept(e)'
    BY <1>1 DEF EditKept
  <2>8. QED BY <1>1, <2>1, <2>2, <2>3, <2>4, <2>5, <2>6, <2>7, SoundStep
<1>4. QED BY <1>1, <1>2, <1>3 DEF SeedInv

(* Calls whose place in the order a run's knowledge does not depend on.     *)
LEMMA Ignorant ==
  ASSUME NEW r, r.pc \in {"idle", "decide", "roles"} \cup Wiping
  PROVE  RunKnows(r)
BY DEF RunKnows, PastRoles, PastConfigs, PastSequential, PastConcurrent, PastGates, Upserting, Upserted, Wiping

LEMMA BeginSeedInv ==
  ASSUME SeedInv, NEW s \in Seeder, NEW script \in BOOLEAN, BeginSeed(s, script) \/ CrashSeed(s)
  PROVE  SeedInv'
<1>1. CASE BeginSeed(s, script)
  <2> DEFINE r == [pc |-> "decide", rows |-> <<>>, script |-> script]
  <2>1. /\ run' = [run EXCEPT ![s] = r]
        /\ UNCHANGED <<from, definitions, configs, indexed, meta, edited, torn>>
    BY <1>1 DEF BeginSeed, Proceed
  <2>2. r = [pc |-> "decide", rows |-> <<>>, script |-> script]
    OBVIOUS
  <2> HIDE DEF r
  <2>5. r.pc = "decide" /\ r.rows = <<>> /\ r.script = script
    BY <2>2
  <2>6. RunTyped(r)
    BY <2>2, <2>5 DEF RunTyped, SeedPcs, Upserting
  <2>3. r.pc \notin Wiping /\ r.pc # "insert" /\ RunKnows(r)
    BY <2>5, Ignorant DEF Wiping
  <2>4. QED BY <2>1, <2>3, <2>5, <2>6, ReadOnly
<1>2. CASE CrashSeed(s)
  <2>1. /\ run' = [run EXCEPT ![s] = NotRunning]
        /\ UNCHANGED <<from, definitions, configs, indexed, meta, edited, torn>>
    BY <1>2 DEF CrashSeed, Proceed
  <2>2. NotRunning.pc \notin Wiping /\ NotRunning.pc # "insert" /\ RunKnows(NotRunning)
    BY NotRunningTyped, Ignorant DEF Wiping
  <2>3. QED BY <2>1, <2>2, NotRunningTyped, ReadOnly
<1>3. QED BY <1>1, <1>2

LEMMA DecideInv ==
  ASSUME SeedInv, NEW s \in Seeder, DecideReset(s)
  PROVE  SeedInv'
<1> DEFINE pc == IF Resets(Applied) THEN "wipe_stages" ELSE "roles"
           r == [run[s] EXCEPT !.pc = pc]
<1>1. /\ run' = [run EXCEPT ![s] = r]
      /\ UNCHANGED <<from, definitions, configs, indexed, meta, edited, torn>>
  BY DEF DecideReset, Proceed, GoOn
<1>2. pc \in {"wipe_stages", "roles"} /\ (pc = "wipe_stages" <=> Resets(Applied))
  OBVIOUS
<1>3. SeedTypes /\ RunTyped(run[s])
  BY DEF SeedInv, SeedTypes
<1> HIDE DEF pc
<1>10. pc \in SeedPcs /\ (pc \in Upserting => run[s].pc \in Upserting)
  BY <1>2 DEF SeedPcs, Upserting
<1>4. RunTyped(r) /\ r.pc = pc
  BY <1>3, <1>10, MovesOn
<1> HIDE DEF r
<1>5. RunKnows(r)
  BY <1>2, <1>4, Ignorant DEF Wiping
<1>6. from >= _SKELETON_VERSION => r.pc \notin Wiping
  <2>1. from >= _SKELETON_VERSION => ~ Resets(Applied)
    BY <1>3 DEF SeedTypes, Target, _SKELETON_VERSION, Applied, Resets
  <2>2. QED BY <1>2, <1>4, <2>1 DEF Wiping
<1>7. Sound => r.pc \in {"idle", "decide", "wipe_stages"} \/ \A d \in stages : Fresh(d)
  <2>1. from \in {1, 2} /\ meta # Target /\ stages # {} => Resets(Applied)
    BY <1>3 DEF SeedTypes, Target, Resets, _SKELETON_VERSION, Applied
  <2>2. QED BY <1>2, <1>4, <2>1 DEF Sound, OneMachine
<1>8. r.pc # "insert"
  BY <1>2, <1>4
<1>9. QED BY <1>1, <1>4, <1>5, <1>6, <1>7, <1>8, ReadOnly

(* A set with at most one member of a key is finite.                        *)
LEMMA KeysFinite ==
  ASSUME NEW S, NEW K, IsFiniteSet(K), \A d \in S : d.key \in K, \A d, e \in S : d.key = e.key => d = e
  PROVE  IsFiniteSet(S)
<1> DEFINE f == [d \in S |-> d.key]
<1>1. f \in Injection(S, K)
  BY DEF Injection, IsInjective
<1>2. QED BY <1>1, FS_Injection

(* So is a set with at most one member of a key and a workflow type.        *)
LEMMA TypedKeysFinite ==
  ASSUME NEW S, NEW K, IsFiniteSet(K), \A d \in S : d.key \in K /\ d.type \in Types \cup {"none"},
         \A d, e \in S : d.key = e.key /\ d.type = e.type => d = e
  PROVE  IsFiniteSet(S)
<1> DEFINE part(t) == {d \in S : d.type = t}
<1>1. \A t : IsFiniteSet(part(t))
  <2>1. SUFFICES ASSUME NEW t PROVE IsFiniteSet(part(t))
    OBVIOUS
  <2>2. \A d \in part(t) : d.key \in K
    OBVIOUS
  <2>3. \A d, e \in part(t) : d.key = e.key => d = e
    OBVIOUS
  <2> HIDE DEF part
  <2>4. QED BY <2>2, <2>3, KeysFinite
<1>2. S = (part("none") \cup part("sequential")) \cup part("concurrent")
  BY DEF Types
<1> HIDE DEF part
<1>3. QED BY <1>1, <1>2, FS_Union

LEMMA StageIs ==
  ASSUME NEW k \in StageKey \cup OldKey, NEW t \in Types \cup {"none"}, NEW o \in Owners \cup {"none"}
  PROVE  LET d == Stage(k, t, o) IN
           d \in StageDefs /\ d.key = k /\ d.type = t /\ d.owner = o /\ ~ d.edited /\ d.n = 1
BY DEF Stage, StageDefs

LEMMA GateIs ==
  ASSUME NEW k \in GateKey, NEW o \in Owners \cup {"none"}
  PROVE  LET g == Gate(k, o) IN g \in GateRules /\ g.key = k /\ g.owner = o /\ ~ g.edited /\ g.n = 1
BY DEF Gate, GateRules

LEMMA RoleIs ==
  ASSUME NEW k \in RoleKey
  PROVE  Role(k) \in [key : RoleKey, edited : BOOLEAN] /\ Role(k).key = k /\ ~ Role(k).edited
BY DEF Role

LEMMA SeedInitInv == SeedInit => SeedInv
<1> SUFFICES ASSUME SeedInit PROVE SeedInv
  OBVIOUS
<1>1. from \in {0, 1, 2, 3, 4} /\ meta = (IF from = 1 THEN 0 ELSE from)
  BY DEF SeedInit, Target
<1>2. /\ stages \subseteq StageDefs
      /\ from \in {1, 2} => \A d \in stages : Stale(d)
      /\ from \notin {1, 2} => \A d \in stages : Fresh(d)
      /\ from \in {0, 4} => \A d \in stages : d.owner # "none"
      /\ \A d \in stages : d.n = 1
      /\ from # 4 => \A d \in stages : d.owner = "none"
      /\ \A d, e \in stages : d.key = e.key /\ d.type = e.type => d = e
      /\ from \in {3, 4} => \A t \in Types : \A k \in StageKey : \E d \in stages : d.key = k /\ d.type = t
      /\ from = 4 => \A t \in Types : \A k \in StageKey : \E d \in stages : d.key = k /\ d.owner = Owner[t]
  <2>1. CASE from = 0
    <3>1. stages = {}
      BY <2>1 DEF SeedInit
    <3>2. QED BY <2>1, <3>1
  <2>2. CASE from \in {1, 2}
    <3>1. stages = {Stage(k, "none", "none") : k \in OldKey}
      BY <2>2 DEF SeedInit
    <3>2. \A d \in stages : \E k \in OldKey : d = Stage(k, "none", "none")
      BY <3>1
    <3>3. \A d \in stages : d \in StageDefs
      BY <3>2, StageIs
    <3>4. \A d \in stages : /\ d.key \in OldKey /\ d.type = "none" /\ d.owner = "none" /\ d.n = 1
                            /\ d = Stage(d.key, "none", "none")
      BY <3>2, StageIs
    <3>5. QED BY <2>2, <3>3, <3>4 DEF Stale
  <2>3. CASE from = 3
    <3>1. stages = {Stage(k, t, "none") : k \in StageKey, t \in Types}
      BY <2>3 DEF SeedInit
    <3>2. \A d \in stages : \E k \in StageKey, t \in Types : d = Stage(k, t, "none")
      BY <3>1
    <3>3. \A d \in stages : d \in StageDefs
      BY <3>2, StageIs
    <3>4. \A k \in StageKey, t \in Types : Stage(k, t, "none") \in stages
      BY <3>1
    <3>5. \A t \in Types : \A k \in StageKey : \E d \in stages : d.key = k /\ d.type = t
      BY <3>4, StageIs
    <3>6. \A d \in stages : /\ d.key \in StageKey /\ d.type \in Types /\ d.owner = "none" /\ d.n = 1
                            /\ d = Stage(d.key, d.type, "none")
      BY <3>2, StageIs
    <3>7. \A d, e \in stages : d.key = e.key /\ d.type = e.type => d = e
      BY <3>6
    <3>8. \A d \in stages : Fresh(d) /\ d.n = 1 /\ d.owner = "none"
      BY <3>6 DEF Fresh
    <3>9. QED BY <2>3, <3>3, <3>5, <3>7, <3>8
  <2>4. CASE from = 4
    <3>1. stages = {Stage(k, t, Owner[t]) : k \in StageKey, t \in Types}
      BY <2>4 DEF SeedInit, Target
    <3>2. \A d \in stages : \E k \in StageKey, t \in Types : d = Stage(k, t, Owner[t])
      BY <3>1
    <3>3. \A d \in stages : d \in StageDefs
      BY <3>2, OwnerOf, StageIs
    <3>4. \A k \in StageKey, t \in Types : Stage(k, t, Owner[t]) \in stages
      BY <3>1
    <3>5. \A t \in Types : \A k \in StageKey : \E d \in stages : d.key = k /\ d.type = t /\ d.owner = Owner[t]
      BY <3>4, OwnerOf, StageIs
    <3>6. \A d \in stages : /\ d.key \in StageKey /\ d.type \in Types /\ d.owner = Owner[d.type] /\ d.n = 1
                            /\ d = Stage(d.key, d.type, Owner[d.type])
      BY <3>2, OwnerOf, StageIs
    <3>7. \A d, e \in stages : d.key = e.key /\ d.type = e.type => d = e
      BY <3>6
    <3>8. \A d \in stages : Fresh(d) /\ d.n = 1 /\ d.owner # "none"
      BY <3>6, OwnerOf DEF Fresh
    <3>9. QED BY <2>4, <3>3, <3>5, <3>7, <3>8
  <2>5. QED BY <1>1, <2>1, <2>2, <2>3, <2>4
<1>3. IsFiniteSet(stages)
  <2>1. IsFiniteSet(StageKey \cup OldKey)
    BY SeedKeys, FS_Union
  <2>2. \A d \in stages : d.key \in StageKey \cup OldKey /\ d.type \in Types \cup {"none"}
    BY <1>2 DEF StageDefs
  <2>3. \A d, e \in stages : d.key = e.key /\ d.type = e.type => d = e
    BY <1>2
  <2>4. QED BY <2>1, <2>2, <2>3, TypedKeysFinite
<1>4. /\ gates \subseteq GateRules
      /\ from = 4 => \A g \in gates : g.owner \in Owners
      /\ from # 4 => \A g \in gates : g.owner = "none"
      /\ \A g \in gates : g.n = 1
      /\ \A g, h \in gates : g.key = h.key /\ g.owner = h.owner => g = h
      /\ from = 4 => \A o \in Owners : \A k \in GateKey : \E g \in gates : g.key = k /\ g.owner = o
  <2>1. CASE from = 0
    <3>1. gates = {}
      BY <2>1 DEF SeedInit
    <3>2. QED BY <2>1, <3>1
  <2>2. CASE from \in {1, 2, 3}
    <3>1. gates = {Gate(k, "none") : k \in GateKey}
      BY <2>2 DEF SeedInit
    <3>2. \A g \in gates : \E k \in GateKey : g = Gate(k, "none")
      BY <3>1
    <3>3. \A g \in gates : g \in GateRules
      BY <3>2, GateIs
    <3>4. QED BY <2>2, <3>2, GateIs, <3>3
  <2>3. CASE from = 4
    <3>1. gates = {Gate(k, o) : k \in GateKey, o \in Owners}
      BY <2>3 DEF SeedInit, Target
    <3>2. \A g \in gates : \E k \in GateKey, o \in Owners : g = Gate(k, o)
      BY <3>1
    <3>3. \A g \in gates : g \in GateRules
      BY <3>2, GateIs
    <3>4. \A k \in GateKey, o \in Owners : Gate(k, o) \in gates
      BY <3>1
    <3>5. \A o \in Owners : \A k \in GateKey : \E g \in gates : g.key = k /\ g.owner = o
      BY <3>4, GateIs
    <3>6. \A g \in gates : g.key \in GateKey /\ g.owner \in Owners /\ g.n = 1 /\ g = Gate(g.key, g.owner)
      BY <3>2, GateIs
    <3>7. \A g, h \in gates : g.key = h.key /\ g.owner = h.owner => g = h
      BY <3>6
    <3>8. QED BY <2>3, <3>3, <3>5, <3>6, <3>7
  <2>4. QED BY <1>1, <2>1, <2>2, <2>3
<1>5. IsFiniteSet(gates)
  <2> DEFINE part(o) == {g \in gates : g.owner = o}
  <2>1. \A o : IsFiniteSet(part(o))
    <3>1. SUFFICES ASSUME NEW o PROVE IsFiniteSet(part(o))
      OBVIOUS
    <3>2. \A g \in part(o) : g.key \in GateKey
      BY <1>4 DEF GateRules
    <3>3. \A g, h \in part(o) : g.key = h.key => g = h
      BY <1>4
    <3> HIDE DEF part
    <3>4. QED BY <3>2, <3>3, KeysFinite, SeedKeys
  <2>2. gates = (part("none") \cup part("standard")) \cup part("concurrent")
    BY <1>4 DEF Owners
  <2> HIDE DEF part
  <2>3. QED BY <2>1, <2>2, FS_Union
<1>6. /\ roles \subseteq [key : RoleKey, edited : BOOLEAN]
      /\ from # 0 => RolesThere
  <2>1. roles = IF from = 0 THEN {} ELSE {Role(k) : k \in RoleKey}
    BY DEF SeedInit
  <2>2. \A d \in roles : d \in [key : RoleKey, edited : BOOLEAN]
    BY <2>1, RoleIs
  <2>3. from # 0 => \A k \in RoleKey : Role(k) \in roles
    BY <2>1, RoleIs
  <2>4. QED BY <2>2, <2>3, RoleIs DEF RolesThere
<1>10. configs = (IF from = 4 THEN Owners ELSE {}) /\ (from = 4 => indexed) /\ edited = {} /\ ~ torn
  <2>1. configs = (IF from = 4 THEN Owners ELSE {}) /\ edited = {}
    BY DEF SeedInit, Target
  <2>2. indexed = (from = Target) /\ torn = FALSE
    BY DEF SeedInit
  <2>3. from = 4 => indexed
    BY <2>2 DEF Target
  <2>4. QED BY <2>1, <2>2, <2>3
<1>11. DOMAIN run = Seeder /\ \A s \in Seeder : run[s] = NotRunning
  BY DEF SeedInit
<1>7. SeedTypes
  BY <1>1, <1>2, <1>3, <1>4, <1>5, <1>6, <1>10, <1>11, NotRunningTyped DEF SeedTypes, Target
<1>8. Sound
  <2>1. OneMachine
    BY <1>1, <1>2, <1>11, NotRunningTyped DEF OneMachine, Target
  <2>2. OnceEach
    BY <1>2, <1>4, <1>10 DEF OnceEach, Owners
  <2>3. SinceSkeleton
    BY <1>1, <1>2, <1>11, NotRunningTyped DEF SinceSkeleton, _SKELETON_VERSION, Wiping
  <2>4. Unscoped
    BY <1>1, <1>2, <1>4, <1>10 DEF Unscoped, Owners
  <2>5. \A s \in Seeder : RunKnows(run[s])
    BY <1>11, NotRunningTyped, Ignorant
  <2>6. from = 4 => \A row \in SeedRows : There(row)
    BY <1>2, <1>4, OwnerOf DEF There, SeedRows, StageRows, GateRows
  <2>7. meta = Target => MachineSeeded
    <3>1. meta = Target => from = 4
      BY <1>1 DEF Target
    <3>2. from = 4 => StagesAdopted /\ GatesAdopted
      BY <1>2, <1>4 DEF StagesAdopted, GatesAdopted, Owners
    <3>3. QED BY <1>6, <1>10, <2>6, <3>1, <3>2 DEF MachineSeeded
  <2>8. QED BY <1>10, <2>1, <2>2, <2>3, <2>4, <2>5, <2>7 DEF Sound
<1>9. QED BY <1>7, <1>8, <1>10 DEF SeedInv

LEMMA WipeInv ==
  ASSUME SeedInv, NEW s \in Seeder, Wipe(s)
  PROVE  SeedInv'
<1> DEFINE pc == CASE run[s].pc = "wipe_stages" -> "wipe_gates"
                   [] run[s].pc = "wipe_gates" -> "wipe_roles"
                   [] OTHER -> "roles"
           r == [run[s] EXCEPT !.pc = pc]
<1>1. /\ run[s].pc \in Wiping /\ run' = [run EXCEPT ![s] = r]
      /\ stages' \subseteq stages /\ gates' \subseteq gates /\ roles' \subseteq roles
      /\ run[s].pc = "wipe_stages" => stages' = {}
      /\ UNCHANGED <<from, configs, indexed, meta, edited>>
  BY DEF Wipe, GoOn, Proceed, Wiping
<1>2. torn' = (torn \/ meta = Target \/ Seeding # {s})
  BY DEF Wipe
<1>3. pc \in {"wipe_gates", "wipe_roles", "roles"}
  OBVIOUS
<1>4. SeedTypes /\ RunTyped(run[s])
  BY DEF SeedInv, SeedTypes
<1> HIDE DEF pc
<1>5. pc \in SeedPcs /\ (pc \in Upserting => run[s].pc \in Upserting)
  BY <1>3 DEF SeedPcs, Upserting
<1>6. RunTyped(r) /\ r.pc = pc
  BY <1>4, <1>5, MovesOn
<1> HIDE DEF r
<1>7. SeedTypes'
  <2>1. DOMAIN run' = Seeder /\ \A x \in Seeder : RunTyped(run'[x])
    BY <1>1, <1>4, <1>6, TypesStep
  <2>2. IsFiniteSet(stages') /\ IsFiniteSet(gates')
    BY <1>1, <1>4, FS_Subset DEF SeedTypes
  <2>3. QED BY <1>1, <1>4, <2>1, <2>2 DEF SeedTypes
<1>8. ~ (from >= _SKELETON_VERSION)
  BY <1>1 DEF SeedInv, Sound, SinceSkeleton
<1>9. ASSUME ~ torn' PROVE Sound'
  <2>1. Sound /\ meta # Target /\ Seeding = {s}
    BY <1>2, <1>9 DEF SeedInv
  <2>2. edited = {}
    BY <1>8, <2>1 DEF Sound
  <2>3. \A d \in stages' : Fresh(d)
    BY <1>1, <2>1, PastReset DEF Wiping
  <2>4. OneMachine'
    BY <2>3 DEF OneMachine
  <2>5. OnceEach' /\ Unscoped'
    BY <1>1, <2>1 DEF Sound, OnceEach, Unscoped
  <2>6. SinceSkeleton'
    BY <1>1, <1>8 DEF SinceSkeleton
  <2>7. \A x \in Seeder : run'[x].pc \in {"idle", "roles"} \cup Wiping
    <3>1. \A x \in Seeder : run'[x] = IF x = s THEN r ELSE run[x]
      BY <1>1, <1>4 DEF SeedTypes
    <3>2. \A x \in Seeder : x # s => run[x].pc = "idle"
      BY <2>1 DEF Seeding
    <3>3. QED BY <1>3, <1>6, <3>1, <3>2 DEF Wiping
  <2>8. \A q : q.pc \in {"idle", "roles"} \cup Wiping => RunKnows(q)'
    BY DEF RunKnows, PastRoles, PastConfigs, PastSequential, PastConcurrent, PastGates, Upserting, Upserted, Wiping
  <2>9. \A x \in Seeder : RunKnows(run[x])'
    BY <2>7, <2>8
  <2>10. QED BY <1>1, <2>1, <2>2, <2>4, <2>5, <2>6, <2>9 DEF Sound
<1>10. QED BY <1>1, <1>7, <1>8, <1>9 DEF SeedInv

(* A step of a run that adds roles, configurations, the indexes or the      *)
(* version.                                                                 *)
LEMMA Advance ==
  ASSUME SeedInv, NEW s \in Seeder, NEW r, run' = [run EXCEPT ![s] = r], RunTyped(r),
         UNCHANGED <<from, stages, gates, edited, torn>>,
         roles \subseteq roles', roles' \subseteq [key : RoleKey, edited : BOOLEAN],
         configs' \in {{}, {"standard"}, Owners}, configs = Owners => configs' = Owners,
         configs' = {} => configs = {}, meta' \in {meta, Target},
         indexed => indexed',
         indexed' => indexed \/ \A d \in stages \cup gates : ~ (d.n > 1),
         Sound => /\ r.pc \in {"idle", "decide", "wipe_stages"} \/ \A d \in stages : Fresh(d)
                  /\ from >= _SKELETON_VERSION => r.pc \notin Wiping /\ r.pc # "insert"
                  /\ meta' = Target => meta = Target \/ MachineSeeded'
                  /\ RunKnows(r)'
                  /\ meta' # meta => \A d \in stages : Fresh(d)
  PROVE  SeedInv'
<1>1. SeedTypes'
  <2>1. DOMAIN run' = Seeder /\ \A x \in Seeder : RunTyped(run'[x])
    BY TypesStep DEF SeedInv
  <2>2. QED BY <2>1 DEF SeedInv, SeedTypes
<1>2. ASSUME ~ torn PROVE Sound'
  <2>1. Sound /\ SeedTypes
    BY <1>2 DEF SeedInv
  <2>2. \A x \in Seeder : run'[x] = run[x] \/ run'[x] = r
    BY <2>1 DEF SeedTypes
  <2>3. Keeps
    BY DEF Keeps, RolesThere, SequentialAdopted, StagesAdopted, GatesAdopted, There
  <2>4. OneMachine'
    BY <2>1, <2>2 DEF Sound, OneMachine
  <2>5. OnceEach'
    <3>1. \A d \in stages : ~ (d.n > 1) => d.n = 1
      BY <2>1 DEF SeedTypes, StageDefs
    <3>2. \A g \in gates : ~ (g.n > 1) => g.n = 1
      BY <2>1 DEF SeedTypes, GateRules
    <3>3. QED BY <2>1, <3>1, <3>2 DEF Sound, OnceEach
  <2>6. SinceSkeleton'
    BY <2>1, SkeletonKept DEF Sound
  <2>7. Unscoped'
    BY <2>1 DEF Sound, Unscoped
  <2>8. \A x \in Seeder : RunKnows(run[x])'
    <3>1. ASSUME NEW x \in Seeder PROVE RunKnows(run[x])'
      <4>1. \A q : q = run[x] => RunKnows(q)'
        BY <2>1, <2>3, KnowsKept DEF Sound
      <4>2. \A q : q = run'[x] => RunKnows(q)'
        BY <2>1, <2>2, <4>1
      <4>3. QED BY <4>2
    <3>2. QED BY <3>1
  <2>9. meta' = Target => MachineSeeded'
    BY <2>1, <2>3, MachineKept DEF Sound
  <2>10. \A e \in edited' : EditKept(e)'
    BY <2>1 DEF Sound, EditKept
  <2>11. edited' # {} => from' >= _SKELETON_VERSION \/ meta' = Target
    BY <2>1 DEF Sound
  <2>12. QED BY <2>4, <2>5, <2>6, <2>7, <2>8, <2>9, <2>10, <2>11 DEF Sound
<1>3. QED BY <1>1, <1>2 DEF SeedInv

LEMMA UpsertRolesInv ==
  ASSUME SeedInv, NEW s \in Seeder, UpsertRoles(s)
  PROVE  SeedInv'
<1>12. PICK r : r = [run[s] EXCEPT !.pc = "configs"]
  OBVIOUS
<1>1. /\ run[s].pc = "roles" /\ run' = [run EXCEPT ![s] = r]
      /\ roles' = roles \cup {Role(k) : k \in RoleKey \ {d.key : d \in roles}}
      /\ UNCHANGED <<from, stages, gates, configs, indexed, meta, edited, torn>>
  BY <1>12 DEF UpsertRoles, GoOn, Proceed
<1>2. SeedTypes /\ RunTyped(run[s])
  BY DEF SeedInv, SeedTypes
<1>3. RunTyped(r) /\ r.pc = "configs"
  <2>1. "configs" \in SeedPcs /\ ("configs" \in Upserting => run[s].pc \in Upserting)
    BY DEF SeedPcs, Upserting
  <2>2. QED BY <1>2, <1>12, <2>1, MovesOn
<1>4. roles \subseteq roles' /\ roles' \subseteq [key : RoleKey, edited : BOOLEAN]
  BY <1>1, <1>2, RoleIs DEF SeedTypes
<1>5. RolesThere'
  <2>1. ASSUME NEW k \in RoleKey PROVE \E d \in roles' : d.key = k
    <3>1. CASE k \in {d.key : d \in roles}
      BY <3>1, <1>4
    <3>2. CASE k \notin {d.key : d \in roles}
      BY <3>2, <1>1, RoleIs
    <3>3. QED BY <3>1, <3>2
  <2>2. QED BY <2>1 DEF RolesThere
<1>6. RunKnows(r)'
  <2>1. \A q : q.pc = "configs" => RunKnows(q)'
    BY <1>5 DEF RunKnows, PastConfigs, PastSequential, PastConcurrent, PastGates, Upserting, Upserted, RolesThere
  <2>2. QED BY <1>3, <2>1
<1>7. Sound => \A d \in stages : Fresh(d)
  BY <1>1, PastReset
<1>8. r.pc \notin Wiping /\ r.pc # "insert"
  BY <1>3 DEF Wiping
<1>9. configs' \in {{}, {"standard"}, Owners} /\ (configs = Owners => configs' = Owners)
      /\ (configs' = {} => configs = {}) /\ meta' \in {meta, Target}
  BY <1>1, <1>2 DEF SeedTypes
<1>10. /\ UNCHANGED <<from, stages, gates, edited, torn>>
       /\ indexed' = indexed /\ meta' = meta /\ run' = [run EXCEPT ![s] = r]
  BY <1>1
<1>11. QED BY <1>3, <1>4, <1>6, <1>7, <1>8, <1>9, <1>10, Advance

LEMMA EnsureConfigsInv ==
  ASSUME SeedInv, NEW s \in Seeder, EnsureSystemConfigs(s)
  PROVE  SeedInv'
<1>1. /\ run[s].pc = "configs"
      /\ UNCHANGED <<from, stages, gates, roles, indexed, meta, edited, torn>>
  BY DEF EnsureSystemConfigs, definitions
<1>2. SeedTypes /\ RunTyped(run[s])
  BY DEF SeedInv, SeedTypes
<1>3. roles \subseteq roles' /\ roles' \subseteq [key : RoleKey, edited : BOOLEAN] /\ meta' \in {meta, Target}
  BY <1>1, <1>2 DEF SeedTypes
<1>4. Sound => RolesThere /\ \A d \in stages : Fresh(d)
  BY <1>1, PastReset DEF Sound, RunKnows, PastRoles
<1>5. CASE "standard" \notin configs
  <2>1. /\ run' = [run EXCEPT ![s] = run[s]]
        /\ configs' = configs \cup {"standard"}
    BY <1>5 DEF EnsureSystemConfigs, Proceed
  <2>2. configs' \in {{}, {"standard"}, Owners} /\ configs # Owners /\ configs' # {}
    BY <1>2, <1>5, <2>1 DEF SeedTypes, Owners
  <2>4. run[s].pc \notin Wiping /\ run[s].pc # "insert"
    BY <1>1 DEF Wiping
  <2>6. PICK q : q = run[s]
    OBVIOUS
  <2>7. Sound => RunKnows(q)'
    BY <1>1, <1>4, <2>6 DEF RunKnows, PastConfigs, PastSequential, PastConcurrent, PastGates, Upserting, Upserted, RolesThere
  <2>8. RunTyped(q) /\ run' = [run EXCEPT ![s] = q] /\ q.pc \notin Wiping /\ q.pc # "insert"
    BY <1>2, <2>1, <2>4, <2>6
  <2>9. QED BY <1>1, <1>3, <1>4, <2>2, <2>7, <2>8, Advance
<1>6. CASE "standard" \in configs
  <2>9. PICK r : r = [run[s] EXCEPT !.pc = "type"]
    OBVIOUS
  <2>1. /\ run' = [run EXCEPT ![s] = r]
        /\ configs' = Owners
    BY <1>6, <2>9 DEF EnsureSystemConfigs, Proceed, GoOn
  <2>2. "type" \in SeedPcs /\ ("type" \in Upserting => run[s].pc \in Upserting)
    BY DEF SeedPcs, Upserting
  <2>3. RunTyped(r) /\ r.pc = "type"
    BY <1>2, <2>2, <2>9, MovesOn
  <2>4. r.pc \notin Wiping /\ r.pc # "insert"
    BY <2>3 DEF Wiping
  <2>5. Sound => RunKnows(r)'
    <3>1. Sound => \A q : q.pc = "type" => RunKnows(q)'
      BY <1>1, <1>4, <2>1 DEF RunKnows, PastSequential, PastConcurrent, PastGates, Upserting, Upserted, RolesThere
    <3>2. QED BY <2>3, <3>1
  <2>6. configs' \in {{}, {"standard"}, Owners} /\ configs' # {}
    BY <2>1 DEF Owners
  <2>7. /\ UNCHANGED <<from, stages, gates, edited, torn>>
        /\ indexed' = indexed /\ meta' = meta /\ run' = [run EXCEPT ![s] = r]
        /\ configs = Owners => configs' = Owners
    BY <1>1, <2>1
  <2>8. QED BY <1>3, <1>4, <2>3, <2>4, <2>5, <2>6, <2>7, Advance
<1>7. QED BY <1>5, <1>6

LEMMA PinProjectsInv ==
  ASSUME SeedInv, NEW s \in Seeder, PinProjects(s)
  PROVE  SeedInv'
<1>1. /\ run[s].pc = "pin"
      /\ UNCHANGED <<from, definitions, configs, indexed, meta, edited, torn>>
  BY DEF PinProjects
<1>2. SeedTypes /\ RunTyped(run[s])
  BY DEF SeedInv, SeedTypes
<1>3. CASE run' = [run EXCEPT ![s] = NotRunning]
  <2>1. NotRunning.pc \notin Wiping /\ NotRunning.pc # "insert" /\ RunKnows(NotRunning)
    BY NotRunningTyped, Ignorant DEF Wiping
  <2>2. QED BY <1>1, <1>3, <2>1, NotRunningTyped, ReadOnly
<1>4. CASE run' = [run EXCEPT ![s] = run[s]]
  <2>1. run[s].pc \notin Wiping /\ run[s].pc # "insert" /\ (Sound => RunKnows(run[s]))
    BY <1>1 DEF Wiping, Sound
  <2>2. Sound => \A d \in stages : Fresh(d)
    BY <1>1, PastReset
  <2>3. PICK q : q = run[s]
    OBVIOUS
  <2>4. /\ RunTyped(q) /\ run' = [run EXCEPT ![s] = q] /\ q.pc \notin Wiping /\ q.pc # "insert"
        /\ Sound => RunKnows(q)
    BY <1>2, <1>4, <2>1, <2>3
  <2>5. QED BY <1>1, <2>2, <2>4, ReadOnly
<1>5. QED BY <1>3, <1>4 DEF PinProjects, Proceed

(* _build_definition_indexes.                                               *)
LEMMA BuildIndexesInv ==
  ASSUME SeedInv, NEW s \in Seeder, BuildIndexes(s)
  PROVE  SeedInv'
<1>1. /\ run[s].pc = "index"
      /\ UNCHANGED <<from, definitions, configs, meta, edited, torn>>
  BY DEF BuildIndexes
<1>2. SeedTypes /\ RunTyped(run[s])
  BY DEF SeedInv, SeedTypes
<1>3. CASE \E d \in stages \cup gates : d.n > 1
  <2>1. run' = [run EXCEPT ![s] = NotRunning] /\ indexed' = indexed
    BY <1>3 DEF BuildIndexes, Proceed
  <2>2. NotRunning.pc \notin Wiping /\ NotRunning.pc # "insert" /\ RunKnows(NotRunning)
    BY NotRunningTyped, Ignorant DEF Wiping
  <2>3. QED BY <1>1, <2>1, <2>2, NotRunningTyped, ReadOnly
<1>4. CASE \A d \in stages \cup gates : ~ (d.n > 1)
  <2>1. PICK r : r = [run[s] EXCEPT !.pc = "stamp"]
    OBVIOUS
  <2>2. run' = [run EXCEPT ![s] = r] /\ indexed'
    BY <1>4, <2>1 DEF BuildIndexes, Proceed, GoOn
  <2>3. "stamp" \in SeedPcs /\ ("stamp" \in Upserting => run[s].pc \in Upserting)
    BY DEF SeedPcs, Upserting
  <2>4. RunTyped(r) /\ r.pc = "stamp"
    BY <1>2, <2>1, <2>3, MovesOn
  <2>5. Sound => \A d \in stages : Fresh(d)
    BY <1>1, PastReset
  <2>6. r.pc \notin Wiping /\ r.pc # "insert"
    BY <2>4 DEF Wiping
  <2>7. /\ UNCHANGED <<from, stages, gates, edited, torn>>
        /\ roles' = roles /\ configs' = configs /\ meta' = meta
    BY <1>1 DEF definitions
  <2>8. roles \subseteq roles' /\ roles' \subseteq [key : RoleKey, edited : BOOLEAN] /\ meta' \in {meta, Target}
        /\ configs' \in {{}, {"standard"}, Owners}
    BY <1>2, <2>7 DEF SeedTypes
  <2>9. Sound => RunKnows(r)'
    <3>1. Sound => /\ RolesThere /\ configs = Owners /\ SequentialAdopted /\ StagesAdopted /\ GatesAdopted
                   /\ \A row \in SeedRows : There(row)
      BY <1>1 DEF Sound, RunKnows, PastRoles, PastConfigs, PastSequential, PastConcurrent, PastGates, Upserted
    <3>2. Sound => /\ RolesThere' /\ configs' = Owners /\ SequentialAdopted' /\ StagesAdopted' /\ GatesAdopted'
                   /\ \A row \in SeedRows : There(row)'
      BY <2>7, <3>1 DEF RolesThere, SequentialAdopted, StagesAdopted, GatesAdopted, There
    <3>3. QED BY <2>2, <2>4, <3>2 DEF RunKnows, Upserting
  <2>10. QED BY <1>4, <2>2, <2>4, <2>5, <2>6, <2>7, <2>8, <2>9, Advance
<1>5. QED BY <1>3, <1>4

LEMMA StampInv ==
  ASSUME SeedInv, NEW s \in Seeder, Stamp(s)
  PROVE  SeedInv'
<1>1. /\ run[s].pc = "stamp" /\ meta' = Target
      /\ UNCHANGED <<from, stages, gates, roles, configs, indexed, edited, torn>>
  BY DEF Stamp, definitions
<1>2. SeedTypes /\ RunTyped(run[s])
  BY DEF SeedInv, SeedTypes
<1>3. PICK r : r = IF run[s].script THEN [run[s] EXCEPT !.pc = "pin"] ELSE NotRunning
  OBVIOUS
<1>4. run' = [run EXCEPT ![s] = r]
  BY <1>3 DEF Stamp, Proceed, GoOn
<1>5. RunTyped(r) /\ r.pc \in {"pin", "idle"}
  <2>1. "pin" \in SeedPcs /\ ("pin" \in Upserting => run[s].pc \in Upserting)
    BY DEF SeedPcs, Upserting
  <2>2. LET q == [run[s] EXCEPT !.pc = "pin"] IN RunTyped(q) /\ q.pc = "pin"
    BY <1>2, <2>1, MovesOn
  <2>3. QED BY <1>3, <2>2, NotRunningTyped
<1>6. Sound => \A d \in stages : Fresh(d)
  BY <1>1, PastReset
<1>7. r.pc \notin Wiping /\ r.pc # "insert"
  BY <1>5 DEF Wiping
<1>8. Sound => MachineSeeded
  BY <1>1 DEF Sound, RunKnows, PastRoles, PastConfigs, PastSequential, PastConcurrent, PastGates, Upserted, MachineSeeded
<1>9. Sound => MachineSeeded'
  BY <1>1, <1>8 DEF MachineSeeded, RolesThere, StagesAdopted, GatesAdopted, There
<1>10. Sound => RunKnows(r)'
  <2>1. MachineSeeded' => SequentialAdopted'
    BY DEF MachineSeeded, StagesAdopted, SequentialAdopted
  <2>2. QED BY <1>5, <1>9, <2>1 DEF MachineSeeded, RunKnows, Upserting
<1>11. roles \subseteq roles' /\ roles' \subseteq [key : RoleKey, edited : BOOLEAN] /\ meta' \in {meta, Target}
       /\ configs' \in {{}, {"standard"}, Owners}
  BY <1>1, <1>2 DEF SeedTypes
<1>12. QED BY <1>1, <1>4, <1>5, <1>6, <1>7, <1>9, <1>10, <1>11, Advance

LEMMA RowKinds ==
  ASSUME NEW row \in SeedRows
  PROVE  /\ row.kind \in {"stage", "gate"} /\ row.type \in Types
         /\ row.kind = "stage" => row.key \in StageKey
         /\ row.kind = "gate" => row.key \in GateKey
<1>1. CASE row \in StageRows
  <2>1. PICK k \in StageKey, t \in Types : row = [kind |-> "stage", key |-> k, type |-> t]
    BY <1>1 DEF StageRows
  <2>2. row.kind = "stage" /\ row.key = k /\ row.type = t
    BY <2>1
  <2>3. QED BY <2>2
<1>2. CASE row \in GateRows
  <2>1. PICK k \in GateKey, t \in Types : row = [kind |-> "gate", key |-> k, type |-> t]
    BY <1>2 DEF GateRows
  <2>2. row.kind = "gate" /\ row.key = k /\ row.type = t
    BY <2>1
  <2>3. QED BY <2>2
<1>3. QED BY <1>1, <1>2 DEF SeedRows

LEMMA NextRowIs ==
  ASSUME NEW q, RunTyped(q), q.pc \in Upserting, NEW r,
         r = [pc |-> IF Len(q.rows) = 1 THEN "index" ELSE "upsert", rows |-> Tail(q.rows), script |-> q.script]
  PROVE  /\ RunTyped(r) /\ r.pc \in {"index", "upsert"} /\ Head(q.rows) \in SeedRows
         /\ \A row : ToDo(q.rows, row) => row = Head(q.rows) \/ (r.pc = "upsert" /\ ToDo(r.rows, row))
<1>1. q.rows \in Seq(SeedRows) /\ q.rows # <<>>
  BY DEF RunTyped
<1>2. /\ Len(q.rows) \in Nat /\ Len(q.rows) >= 1 /\ Head(q.rows) \in SeedRows /\ Head(q.rows) = q.rows[1]
      /\ Tail(q.rows) \in Seq(SeedRows) /\ Len(Tail(q.rows)) = Len(q.rows) - 1
      /\ \A i \in 1 .. Len(Tail(q.rows)) : Tail(q.rows)[i] = q.rows[i + 1]
      /\ DOMAIN q.rows = 1 .. Len(q.rows) /\ DOMAIN Tail(q.rows) = 1 .. Len(Tail(q.rows))
  BY <1>1
<1>3. r.pc = (IF Len(q.rows) = 1 THEN "index" ELSE "upsert") /\ r.rows = Tail(q.rows) /\ r.script = q.script
  OBVIOUS
<1>4. r.pc = "upsert" => r.rows # <<>>
  <2>1. Len(q.rows) - 1 = Len(r.rows) /\ Len(q.rows) \in Nat
    BY <1>2, <1>3
  <2>2. r.rows = <<>> => Len(q.rows) = 1
    <3>1. SUFFICES ASSUME r.rows = <<>> PROVE Len(q.rows) = 1
      OBVIOUS
    <3>2. Len(r.rows) = 0
      BY <3>1
    <3>3. QED BY <2>1, <3>2
  <2>3. QED BY <1>3, <2>2
<1>5. RunTyped(r)
  <2>1. r = [pc |-> r.pc, rows |-> r.rows, script |-> r.script]
    BY <1>3
  <2>2. r.pc \in SeedPcs /\ (r.pc \in Upserting => r.pc = "upsert")
    BY <1>3 DEF SeedPcs, Upserting
  <2>3. QED BY <1>2, <1>3, <1>4, <2>1, <2>2 DEF RunTyped
<1>6. ASSUME NEW row, ToDo(q.rows, row), row # Head(q.rows)
      PROVE  r.pc = "upsert" /\ ToDo(r.rows, row)
  <2>1. PICK i \in 1 .. Len(q.rows) : q.rows[i] = row
    BY <1>2, <1>6 DEF ToDo
  <2>2. i # 1
    BY <1>2, <1>6, <2>1
  <2>3. i - 1 \in 1 .. Len(Tail(q.rows)) /\ (i - 1) + 1 = i
    BY <1>2, <2>1, <2>2
  <2>4. Tail(q.rows)[i - 1] = row
    BY <1>2, <2>1, <2>3
  <2>5. Len(q.rows) # 1
    BY <1>2, <2>1, <2>2
  <2>6. QED BY <1>2, <1>3, <2>3, <2>4, <2>5 DEF ToDo
<1>7. QED BY <1>2, <1>3, <1>5, <1>6

(* What a run knows when it is at its rows.                                 *)
LEMMA AtRows ==
  ASSUME Sound, NEW s \in Seeder, run[s].pc \in Upserting
  PROVE  /\ RolesThere /\ configs = Owners /\ SequentialAdopted /\ StagesAdopted /\ GatesAdopted
         /\ \A row \in SeedRows : There(row) \/ ToDo(run[s].rows, row)
         /\ \A d \in stages : Fresh(d)
<1>1. RunKnows(run[s]) /\ run[s].pc \notin {"idle", "decide", "wipe_stages"}
  BY DEF Sound, Upserting
<1>2. \A d \in stages : Fresh(d)
  BY <1>1, PastReset
<1>3. QED BY <1>1, <1>2 DEF RunKnows, PastRoles, PastConfigs, PastSequential, PastConcurrent, PastGates

LEMMA FindRowInv ==
  ASSUME SeedInv, NEW s \in Seeder, FindRow(s)
  PROVE  SeedInv'
<1>1. /\ run[s].pc = "upsert" /\ run[s].pc \in Upserting
      /\ UNCHANGED <<from, definitions, configs, indexed, meta, edited, torn>>
  BY DEF FindRow, Upserting
<1>2. SeedTypes /\ RunTyped(run[s])
  BY DEF SeedInv, SeedTypes
<1> DEFINE row == Head(run[s].rows)
<1>3. row \in SeedRows
  <2>1. run[s].rows \in Seq(SeedRows) /\ run[s].rows # <<>>
    BY <1>1, <1>2 DEF RunTyped
  <2>2. QED BY <2>1
<1>4. There(row) <=> Held(row) # {}
  BY DEF There, Held, InStages, InGates
<1>5. CASE Held(row) # {}
  <2>1. PICK r : r = [pc |-> IF Len(run[s].rows) = 1 THEN "index" ELSE "upsert",
                      rows |-> Tail(run[s].rows), script |-> run[s].script]
    OBVIOUS
  <2>2. run' = [run EXCEPT ![s] = r]
    BY <1>5, <2>1 DEF FindRow, NextRow, Proceed
  <2>3. /\ RunTyped(r) /\ r.pc \in {"index", "upsert"}
        /\ \A x : ToDo(run[s].rows, x) => x = row \/ (r.pc = "upsert" /\ ToDo(r.rows, x))
    BY <1>1, <1>2, <2>1, NextRowIs
  <2>4. Sound => RunKnows(r)
    <3>1. Sound => \A x \in SeedRows : There(x) \/ (r.pc = "upsert" /\ ToDo(r.rows, x))
      BY <1>1, <1>4, <1>5, <2>3, AtRows
    <3>2. Sound => RolesThere /\ configs = Owners /\ SequentialAdopted /\ StagesAdopted /\ GatesAdopted
      BY <1>1, AtRows
    <3>3. r.pc = "upsert" \/ (r.pc = "index" /\ r.pc \notin Upserting)
      BY <2>3 DEF Upserting
    <3>4. r.pc # "stamp" /\ (r.pc = "upsert" => r.pc \notin Upserted)
      BY <2>3 DEF Upserted
    <3>5. QED BY <3>1, <3>2, <3>3, <3>4 DEF RunKnows
  <2>5. r.pc \notin Wiping /\ r.pc # "insert"
    BY <2>3 DEF Wiping
  <2>6. Sound => \A d \in stages : Fresh(d)
    BY <1>1, AtRows
  <2>7. QED BY <1>1, <2>2, <2>3, <2>4, <2>5, <2>6, ReadOnly
<1>6. CASE Held(row) = {}
  <2>1. PICK r : r = [run[s] EXCEPT !.pc = "insert"]
    OBVIOUS
  <2>2. run' = [run EXCEPT ![s] = r]
    BY <1>6, <2>1 DEF FindRow, GoOn, Proceed
  <2>3. "insert" \in SeedPcs
    BY DEF SeedPcs
  <2>4. RunTyped(r) /\ r.pc = "insert" /\ r.rows = run[s].rows
    BY <1>1, <1>2, <2>1, <2>3, MovesOn
  <2>5. Sound => RunKnows(r)
    BY <1>1, <2>4, AtRows DEF RunKnows, Upserted
  <2>6. Sound => (from >= _SKELETON_VERSION => row.kind = "gate")
    <3>1. SUFFICES ASSUME Sound, from >= _SKELETON_VERSION, row.kind = "stage" PROVE There(row)
      BY <1>3, <1>4, <1>6, RowKinds
    <3>2. PICK d \in stages : d.key = row.key /\ d.type = row.type
      BY <1>3, <3>1, RowKinds DEF Sound, SinceSkeleton
    <3>3. d.owner = Owner[row.type]
      BY <1>1, <3>1, <3>2, AtRows DEF Fresh, StagesAdopted
    <3>4. QED BY <3>1, <3>2, <3>3 DEF There
  <2>7. r.pc \notin Wiping
    BY <2>4 DEF Wiping
  <2>8. Sound => \A d \in stages : Fresh(d)
    BY <1>1, AtRows
  <2>9. QED BY <1>1, <2>2, <2>4, <2>5, <2>6, <2>7, <2>8, ReadOnly
<1>7. QED BY <1>5, <1>6

LEMMA InsertRowInv ==
  ASSUME SeedInv, NEW s \in Seeder, InsertRow(s)
  PROVE  SeedInv'
<1> DEFINE row == Head(run[s].rows)
           n   == 1 + Cardinality(Held(row))
<1>1. /\ run[s].pc = "insert" /\ run[s].pc \in Upserting
      /\ UNCHANGED <<from, roles, configs, indexed, meta, edited, torn>>
  BY DEF InsertRow, Upserting
<1>2. SeedTypes /\ RunTyped(run[s])
  BY DEF SeedInv, SeedTypes
<1>3. PICK r : r = [pc |-> IF Len(run[s].rows) = 1 THEN "index" ELSE "upsert",
                    rows |-> Tail(run[s].rows), script |-> run[s].script]
  OBVIOUS
<1>4. run' = [run EXCEPT ![s] = r]
  BY <1>3 DEF InsertRow, NextRow, Proceed
<1>5. /\ RunTyped(r) /\ r.pc \in {"index", "upsert"} /\ row \in SeedRows
      /\ \A x : ToDo(run[s].rows, x) => x = row \/ (r.pc = "upsert" /\ ToDo(r.rows, x))
  BY <1>1, <1>2, <1>3, NextRowIs
<1>6. PICK q \in SeedRows : q = row
  BY <1>5
<1>7. PICK m : m = n
  OBVIOUS
<1>8. /\ stages' = IF q.kind = "stage" /\ ~ (indexed /\ m > 1)
                   THEN stages \cup {[Stage(q.key, q.type, Owner[q.type]) EXCEPT !.n = m]} ELSE stages
      /\ gates' = IF q.kind = "gate" /\ ~ (indexed /\ m > 1)
                  THEN gates \cup {[Gate(q.key, Owner[q.type]) EXCEPT !.n = m]} ELSE gates
  BY <1>6, <1>7 DEF InsertRow
<1>9. m \in Nat \ {0} /\ (m = 1 <=> Held(q) = {})
  <2>1. IsFiniteSet(Held(q))
    <3>1. InStages(q) \subseteq stages /\ InGates(q) \subseteq gates
      BY DEF InStages, InGates
    <3>2. IsFiniteSet(InStages(q)) /\ IsFiniteSet(InGates(q))
      BY <1>2, <3>1, FS_Subset DEF SeedTypes
    <3>3. QED BY <3>2 DEF Held
  <2>2. Cardinality(Held(q)) \in Nat /\ (Cardinality(Held(q)) = 0 <=> Held(q) = {})
    BY <2>1, FS_CardinalityType, FS_EmptySet
  <2>3. m = 1 + Cardinality(Held(q))
    BY <1>6, <1>7
  <2>4. QED BY <2>2, <2>3
<1> HIDE DEF row, n
<1>10. q.kind \in {"stage", "gate"} /\ q.type \in Types
       /\ (q.kind = "stage" => q.key \in StageKey) /\ (q.kind = "gate" => q.key \in GateKey)
  BY RowKinds
<1>11. PICK d : d = [Stage(q.key, q.type, Owner[q.type]) EXCEPT !.n = m]
  OBVIOUS
<1>12. PICK g : g = [Gate(q.key, Owner[q.type]) EXCEPT !.n = m]
  OBVIOUS
<1>13. q.kind = "stage" => /\ d \in StageDefs /\ d.key = q.key /\ d.type = q.type
                           /\ d.owner = Owner[q.type] /\ d.n = m
  BY <1>9, <1>10, <1>11, OwnerOf DEF Stage, StageDefs
<1>14. q.kind = "gate" => g \in GateRules /\ g.key = q.key /\ g.owner = Owner[q.type] /\ g.n = m
  BY <1>9, <1>10, <1>12, OwnerOf DEF Gate, GateRules
<1>15. /\ stages \subseteq stages' /\ stages' \subseteq stages \cup {d}
       /\ gates \subseteq gates' /\ gates' \subseteq gates \cup {g}
       /\ q.kind = "gate" => stages' = stages
       /\ q.kind = "stage" => gates' = gates
       /\ indexed => m = 1 \/ (stages' = stages /\ gates' = gates)
  BY <1>8, <1>9, <1>11, <1>12
<1>16. SeedTypes'
  <2>1. DOMAIN run' = Seeder /\ \A x \in Seeder : RunTyped(run'[x])
    BY <1>2, <1>4, <1>5, TypesStep
  <2>2. IsFiniteSet(stages \cup {d}) /\ IsFiniteSet(gates \cup {g})
    BY <1>2, FS_AddElement DEF SeedTypes
  <2>3. IsFiniteSet(stages') /\ IsFiniteSet(gates')
    BY <1>15, <2>2, FS_Subset
  <2>4. stages' \subseteq StageDefs /\ gates' \subseteq GateRules
    BY <1>2, <1>10, <1>13, <1>14, <1>15 DEF SeedTypes
  <2>5. QED BY <1>1, <1>2, <2>1, <2>3, <2>4 DEF SeedTypes
<1>17. There(q)'
  <2>1. CASE indexed /\ m > 1
    <3>1. Held(q) # {}
      BY <1>9, <2>1
    <3>2. QED BY <1>15, <3>1 DEF There, Held, InStages, InGates
  <2>2. CASE ~ (indexed /\ m > 1)
    <3>1. (q.kind = "stage" => d \in stages') /\ (q.kind = "gate" => g \in gates')
      BY <1>8, <1>11, <1>12, <2>2
    <3>2. QED BY <1>10, <1>13, <1>14, <3>1 DEF There
  <2>3. QED BY <2>1, <2>2
<1>18. ASSUME ~ torn PROVE Sound'
  <2>1. Sound
    BY <1>18 DEF SeedInv
  <2>2. /\ RolesThere /\ configs = Owners /\ SequentialAdopted /\ StagesAdopted /\ GatesAdopted
        /\ \A x \in SeedRows : There(x) \/ ToDo(run[s].rows, x)
        /\ \A e \in stages : Fresh(e)
    BY <1>1, <2>1, AtRows
  <2>3. StagesAdopted' /\ SequentialAdopted' /\ GatesAdopted'
    BY <1>10, <1>13, <1>14, <1>15, <2>2, OwnerOf DEF StagesAdopted, SequentialAdopted, GatesAdopted
  <2>4. RolesThere' /\ configs' = Owners
    BY <1>1, <2>2 DEF RolesThere
  <2>5. \A x : There(x) => There(x)'
    BY <1>15 DEF There
  <2>6. Keeps
    BY <1>1, <2>3, <2>4, <2>5 DEF Keeps
  <2>7. OneMachine'
    <3>1. \A e \in stages' : Fresh(e)
      BY <1>10, <1>13, <1>15, <2>2 DEF Fresh
    <3>2. QED BY <3>1 DEF OneMachine
  <2>8. \A e \in stages : e.key = d.key /\ e.type = d.type => q.kind = "gate" \/ m # 1
    <3>1. SUFFICES ASSUME NEW e \in stages, e.key = d.key, e.type = d.type, q.kind = "stage" PROVE Held(q) # {}
      BY <1>9, <1>10
    <3>2. e.key = q.key /\ e.owner = Owner[q.type]
      BY <1>13, <2>2, <3>1 DEF Fresh, StagesAdopted
    <3>3. QED BY <3>1, <3>2 DEF Held, InStages
  <2>9. \A h \in gates : h.key = g.key /\ h.owner = g.owner => q.kind = "stage" \/ m # 1
    <3>1. SUFFICES ASSUME NEW h \in gates, h.key = g.key, h.owner = g.owner, q.kind = "gate" PROVE Held(q) # {}
      BY <1>9, <1>10
    <3>2. QED BY <1>14, <3>1 DEF Held, InGates
  <2>10. OnceEach'
    <3>1. \A a, b \in stages' : a.key = b.key /\ a.type = b.type /\ a.n = 1 /\ b.n = 1 => a = b
      BY <1>10, <1>13, <1>15, <2>1, <2>8 DEF Sound, OnceEach
    <3>2. \A a, b \in gates' : a.key = b.key /\ a.owner = b.owner /\ a.n = 1 /\ b.n = 1 => a = b
      BY <1>10, <1>14, <1>15, <2>1, <2>9 DEF Sound, OnceEach
    <3>3. indexed' => (\A a \in stages' : a.n = 1) /\ (\A b \in gates' : b.n = 1)
      BY <1>1, <1>10, <1>13, <1>14, <1>15, <2>1 DEF Sound, OnceEach
    <3>4. \A b \in gates' : b.owner # "none"
      BY <2>3 DEF GatesAdopted
    <3>5. QED BY <3>1, <3>2, <3>3, <3>4 DEF OnceEach
  <2>11. SinceSkeleton'
    <3>1. from >= _SKELETON_VERSION => q.kind = "gate"
      BY <1>1, <1>6, <2>1 DEF Sound, SinceSkeleton, row
    <3>2. r.pc \notin Wiping /\ r.pc # "insert"
      BY <1>5 DEF Wiping
    <3>3. \A k, t : (\E e \in stages : e.key = k /\ e.type = t) => (\E e \in stages' : e.key = k /\ e.type = t)
      BY <1>15
    <3>4. from >= _SKELETON_VERSION => stages' = stages
      BY <1>15, <3>1
    <3>5. SinceSkeleton
      BY <2>1 DEF Sound
    <3>6. QED BY <1>1, <1>2, <1>4, <3>2, <3>3, <3>4, <3>5, SkeletonKept
  <2>12. Unscoped'
    BY <2>4 DEF Unscoped, Owners
  <2>13. RunKnows(r)'
    <3>1. \A x \in SeedRows : There(x)' \/ (r.pc = "upsert" /\ ToDo(r.rows, x))
      BY <1>5, <1>6, <1>17, <2>2, <2>5
    <3>2. r.pc = "upsert" \/ (r.pc = "index" /\ r.pc \notin Upserting)
      BY <1>5 DEF Upserting
    <3>3. r.pc # "stamp" /\ (r.pc = "upsert" => r.pc \notin Upserted)
      BY <1>5 DEF Upserted
    <3>4. QED BY <2>3, <2>4, <3>1, <3>2, <3>3 DEF RunKnows, ToDo
  <2>14. \A e \in edited : EditKept(e) => EditKept(e)'
    BY <1>1, <1>15 DEF EditKept
  <2>15. UNCHANGED <<from, meta, edited>>
    BY <1>1
  <2>16. QED BY <1>2, <1>4, <2>1, <2>6, <2>7, <2>10, <2>11, <2>12, <2>13, <2>14, <2>15, SoundStep
<1>19. QED BY <1>1, <1>16, <1>18 DEF SeedInv

LEMMA SetToSeqIs ==
  ASSUME NEW S, IsFiniteSet(S)
  PROVE  /\ SetToSeq(S) \in Seq(S) /\ Len(SetToSeq(S)) = Cardinality(S)
         /\ \A x \in S : \E i \in 1 .. Cardinality(S) : SetToSeq(S)[i] = x
<1> DEFINE n == Cardinality(S)
           P(f) == f \in [1 .. n -> S] /\ IsInjective(f)
<1>1. n \in Nat /\ ExistsBijection(1 .. n, S)
  BY FS_CardinalityType
<1>2. \E f \in [1 .. n -> S] : IsInjective(f)
  BY <1>1 DEF ExistsBijection, Bijection, Injection
<1>3. SetToSeq(S) \in [1 .. n -> S] /\ IsInjective(SetToSeq(S))
  BY <1>2 DEF SetToSeq
<1>4. SetToSeq(S) \in Injection(1 .. n, S)
  BY <1>3 DEF Injection
<1>5. Cardinality(1 .. n) = n
  BY <1>1, FS_Interval
<1>6. SetToSeq(S) \in Surjection(1 .. n, S)
  BY <1>4, <1>5, FS_Injection
<1>7. \A x \in S : \E i \in 1 .. n : SetToSeq(S)[i] = x
  BY <1>6 DEF Surjection
<1>8. SetToSeq(S) \in Seq(S) /\ Len(SetToSeq(S)) = n
  BY <1>1, <1>3
<1>9. QED BY <1>7, <1>8

LEMMA RowsAre == Rows \in Seq(SeedRows) /\ Rows # <<>> /\ \A row \in SeedRows : ToDo(Rows, row)
<1>1. \A row \in StageRows : row = [kind |-> "stage", key |-> row.key, type |-> row.type] /\ row.key \in StageKey /\ row.type \in Types
  <2>1. SUFFICES ASSUME NEW row \in StageRows
                 PROVE  row = [kind |-> "stage", key |-> row.key, type |-> row.type] /\ row.key \in StageKey /\ row.type \in Types
    OBVIOUS
  <2>2. PICK k \in StageKey, t \in Types : row = [kind |-> "stage", key |-> k, type |-> t]
    BY DEF StageRows
  <2>3. QED BY <2>2
<1>2. \A row \in GateRows : row = [kind |-> "gate", key |-> row.key, type |-> row.type] /\ row.key \in GateKey /\ row.type \in Types
  <2>1. SUFFICES ASSUME NEW row \in GateRows
                 PROVE  row = [kind |-> "gate", key |-> row.key, type |-> row.type] /\ row.key \in GateKey /\ row.type \in Types
    OBVIOUS
  <2>2. PICK k \in GateKey, t \in Types : row = [kind |-> "gate", key |-> k, type |-> t]
    BY DEF GateRows
  <2>3. QED BY <2>2
<1>3. IsFiniteSet(StageRows)
  <2>1. \A d \in StageRows : d.key \in StageKey /\ d.type \in Types \cup {"none"}
    BY <1>1
  <2>2. \A d, e \in StageRows : d.key = e.key /\ d.type = e.type => d = e
    BY <1>1
  <2>3. QED BY <2>1, <2>2, SeedKeys, TypedKeysFinite
<1>4. IsFiniteSet(GateRows)
  <2>1. \A d \in GateRows : d.key \in GateKey /\ d.type \in Types \cup {"none"}
    BY <1>2
  <2>2. \A d, e \in GateRows : d.key = e.key /\ d.type = e.type => d = e
    BY <1>2
  <2>3. QED BY <2>1, <2>2, SeedKeys, TypedKeysFinite
<1>5. StageRows # {}
  <2>1. PICK k \in StageKey : TRUE
    BY SeedKeys
  <2>2. [kind |-> "stage", key |-> k, type |-> "sequential"] \in StageRows
    BY DEF StageRows, Types
  <2>3. QED BY <2>2
<1> DEFINE f == SetToSeq(StageRows)
           g == SetToSeq(GateRows)
<1>6. /\ f \in Seq(StageRows) /\ Len(f) \in Nat
      /\ \A x \in StageRows : \E i \in 1 .. Len(f) : f[i] = x
  BY <1>3, SetToSeqIs
<1>7. /\ g \in Seq(GateRows) /\ Len(g) \in Nat
      /\ \A x \in GateRows : \E i \in 1 .. Len(g) : g[i] = x
  BY <1>4, SetToSeqIs
<1> HIDE DEF f, g
<1>8. f \in Seq(SeedRows) /\ g \in Seq(SeedRows)
  BY <1>6, <1>7 DEF SeedRows
<1>9. /\ f \o g \in Seq(SeedRows) /\ Len(f \o g) = Len(f) + Len(g) /\ DOMAIN (f \o g) = 1 .. Len(f) + Len(g)
      /\ \A i \in 1 .. Len(f) : (f \o g)[i] = f[i]
      /\ \A i \in 1 .. Len(g) : (f \o g)[Len(f) + i] = g[i]
  BY <1>8
<1>10. Rows = f \o g
  BY DEF Rows, f, g
<1>11. Rows # <<>>
  <2>1. PICK x \in StageRows : TRUE
    BY <1>5
  <2>2. Len(f) >= 1
    BY <1>6, <2>1
  <2>3. Len(f \o g) # 0
    BY <1>6, <1>7, <1>9, <2>2
  <2>4. QED BY <1>10, <2>3
<1>12. ASSUME NEW row \in SeedRows PROVE ToDo(Rows, row)
  <2>1. CASE row \in StageRows
    <3>1. PICK i \in 1 .. Len(f) : f[i] = row
      BY <1>6, <2>1
    <3>2. i \in 1 .. Len(f) + Len(g) /\ (f \o g)[i] = row
      BY <1>6, <1>7, <1>9, <3>1
    <3>3. QED BY <1>9, <1>10, <3>2 DEF ToDo
  <2>2. CASE row \in GateRows
    <3>1. PICK i \in 1 .. Len(g) : g[i] = row
      BY <1>7, <2>2
    <3>2. Len(f) + i \in 1 .. Len(f) + Len(g) /\ (f \o g)[Len(f) + i] = row
      BY <1>6, <1>7, <1>9, <3>1
    <3>3. QED BY <1>9, <1>10, <3>2 DEF ToDo
  <2>3. QED BY <2>1, <2>2 DEF SeedRows
<1>13. QED BY <1>9, <1>10, <1>11, <1>12

(* One update_many over the stages: it writes the type or the owner that is *)
(* missing.                                                                 *)
LEMMA AdoptStagesStep ==
  ASSUME SeedInv, NEW s \in Seeder, NEW r, run' = [run EXCEPT ![s] = r], RunTyped(r),
         run[s].pc \in {"type", "adopt_sequential", "adopt_concurrent"},
         r.pc \in {"adopt_sequential", "adopt_concurrent", "adopt_gates"},
         NEW f, f = [d \in stages |-> f[d]], stages' = {f[d] : d \in stages},
         \A d \in stages : /\ f[d] \in StageDefs /\ f[d].key = d.key /\ f[d].edited = d.edited /\ f[d].n = d.n
                           /\ d.owner # "none" => f[d].owner = d.owner
                           /\ Fresh(d) => f[d].type = d.type /\ f[d].owner \in {d.owner, Owner[d.type]},
         UNCHANGED <<from, gates, roles, configs, indexed, meta, edited, torn>>,
         Sound => /\ r.pc # "adopt_sequential" => SequentialAdopted'
                  /\ r.pc = "adopt_gates" => StagesAdopted'
  PROVE  SeedInv'
<1>1. SeedTypes
  BY DEF SeedInv
<1>2. \A d \in stages : f[d] \in stages'
  OBVIOUS
<1>3. \A e \in stages' : \E d \in stages : e = f[d]
  OBVIOUS
<1>4. SeedTypes'
  <2>1. DOMAIN run' = Seeder /\ \A x \in Seeder : RunTyped(run'[x])
    BY <1>1, TypesStep
  <2>2. IsFiniteSet(stages')
    <3>1. f \in Surjection(stages, stages')
      <4>1. f \in [stages -> stages']
        BY <1>2
      <4>2. QED BY <4>1, <1>3 DEF Surjection
    <3>2. QED BY <1>1, <3>1, FS_Surjection DEF SeedTypes
  <2>3. stages' \subseteq StageDefs
    BY <1>3
  <2>4. QED BY <1>1, <2>1, <2>2, <2>3 DEF SeedTypes
<1>5. ASSUME ~ torn PROVE Sound'
  <2>1. Sound /\ (r.pc # "adopt_sequential" => SequentialAdopted') /\ (r.pc = "adopt_gates" => StagesAdopted')
    BY <1>5 DEF SeedInv
  <2>2. \A d \in stages : Fresh(d)
    BY <2>1, PastReset
  <2>3. RolesThere /\ configs = Owners
    BY <2>1 DEF Sound, RunKnows, PastRoles, PastConfigs, PastSequential, PastConcurrent
  <2>4. \A d \in stages : /\ f[d].key = d.key /\ f[d].edited = d.edited /\ f[d].n = d.n /\ f[d].type = d.type
                          /\ d.owner # "none" => f[d].owner = d.owner
                          /\ Fresh(f[d])
    BY <2>2 DEF Fresh
  <2>5. OneMachine'
    BY <1>3, <2>4 DEF OneMachine
  <2>6. OnceEach'
    <3>1. \A a, b \in stages' : a.key = b.key /\ a.type = b.type /\ a.n = 1 /\ b.n = 1 => a = b
      <4>1. SUFFICES ASSUME NEW d \in stages, NEW e \in stages, f[d].key = f[e].key, f[d].type = f[e].type,
                            f[d].n = 1, f[e].n = 1
                     PROVE  d = e
        BY <1>3
      <4>2. QED BY <2>1, <2>4, <4>1 DEF Sound, OnceEach
    <3>2. indexed => \A a \in stages' : a.n = 1
      BY <1>3, <2>1, <2>4 DEF Sound, OnceEach
    <3>3. QED BY <2>1, <3>1, <3>2 DEF Sound, OnceEach
  <2>7. SinceSkeleton'
    <3>1. r.pc \notin Wiping /\ r.pc # "insert"
      BY DEF Wiping
    <3>2. \A k, t : (\E d \in stages : d.key = k /\ d.type = t) => (\E d \in stages' : d.key = k /\ d.type = t)
      BY <1>2, <2>4
    <3>3. (\A d \in stages : d.n = 1) => (\A d \in stages' : d.n = 1)
      BY <1>3, <2>4
    <3>4. SinceSkeleton
      BY <2>1 DEF Sound
    <3>5. QED BY <1>1, <3>1, <3>2, <3>3, <3>4, SkeletonKept
  <2>8. Unscoped'
    BY <2>3 DEF Unscoped, Owners
  <2>9. Keeps
    <3>1. RolesThere' /\ configs' = Owners
      BY <2>3 DEF RolesThere
    <3>2. StagesAdopted => StagesAdopted'
      BY <1>3, <2>4 DEF StagesAdopted
    <3>3. GatesAdopted => GatesAdopted'
      BY DEF GatesAdopted
    <3>6. SequentialAdopted => SequentialAdopted'
      BY <1>3, <2>4 DEF SequentialAdopted
    <3>4. ASSUME NEW row \in SeedRows, There(row) PROVE There(row)'
      <4>1. CASE row.kind = "stage"
        <5>1. PICK d \in stages : d.key = row.key /\ d.owner = Owner[row.type]
          BY <3>4, <4>1 DEF There
        <5>2. f[d] \in stages' /\ f[d].key = row.key /\ f[d].owner = Owner[row.type]
          BY <1>2, <2>4, <5>1, RowKinds, OwnerOf
        <5>3. QED BY <4>1, <5>2 DEF There
      <4>2. CASE row.kind # "stage"
        BY <3>4, <4>2 DEF There
      <4>3. QED BY <4>1, <4>2
    <3>5. QED BY <3>1, <3>2, <3>3, <3>4, <3>6 DEF Keeps
  <2>10. RunKnows(r)'
    BY <2>1, <2>9, <2>3 DEF RunKnows, Keeps, PastSequential, PastConcurrent, PastGates, Upserting, Upserted
  <2>11. ASSUME NEW e \in edited, EditKept(e) PROVE EditKept(e)'
    <3>1. CASE e[1] = "stage" /\ \E d \in stages : d.key = e[2] /\ d.edited /\ d.type = "sequential"
      <4>1. PICK d \in stages : d.key = e[2] /\ d.edited /\ d.type = "sequential"
        BY <3>1
      <4>2. f[d] \in stages' /\ f[d].key = e[2] /\ f[d].edited /\ f[d].type = "sequential"
        BY <1>2, <2>4, <4>1
      <4>3. QED BY <3>1, <4>2 DEF EditKept
    <3>2. QED BY <2>11, <3>1 DEF EditKept
  <2>12. QED BY <1>1, <2>1, <2>5, <2>6, <2>7, <2>8, <2>9, <2>10, <2>11, SoundStep
<1>6. QED BY <1>4, <1>5 DEF SeedInv

LEMMA AdoptStagesInv ==
  ASSUME SeedInv, NEW s \in Seeder, AdoptLegacy(s), run[s].pc # "adopt_gates"
  PROVE  SeedInv'
<1>1. /\ run[s].pc \in {"type", "adopt_sequential", "adopt_concurrent"}
      /\ UNCHANGED <<from, gates, roles, configs, indexed, meta, edited, torn>>
  BY DEF AdoptLegacy
<1>2. SeedTypes /\ RunTyped(run[s])
  BY DEF SeedInv, SeedTypes
<1>3. \A d \in stages : d = [key |-> d.key, type |-> d.type, owner |-> d.owner, edited |-> d.edited, n |-> d.n]
                        /\ d \in StageDefs
  BY <1>2 DEF SeedTypes, StageDefs
<1>4. \A pc \in {"adopt_sequential", "adopt_concurrent", "adopt_gates"} :
        LET q == [run[s] EXCEPT !.pc = pc] IN RunTyped(q) /\ q.pc = pc
  <2>1. {"adopt_sequential", "adopt_concurrent", "adopt_gates"} \subseteq SeedPcs
    BY DEF SeedPcs
  <2>2. \A pc \in {"adopt_sequential", "adopt_concurrent", "adopt_gates"} : pc \notin Upserting
    BY DEF Upserting
  <2>3. QED BY <1>2, <2>1, <2>2, MovesOn
<1>5. CASE run[s].pc = "type"
  <2>1. PICK r : r = [run[s] EXCEPT !.pc = "adopt_sequential"]
    OBVIOUS
  <2>2. PICK f : f = [d \in stages |-> IF d.type = "none" THEN [d EXCEPT !.type = "sequential"] ELSE d]
    OBVIOUS
  <2>3. /\ run' = [run EXCEPT ![s] = r]
        /\ stages' = {IF d.type = "none" THEN [d EXCEPT !.type = "sequential"] ELSE d : d \in stages}
    BY <1>5, <2>1 DEF AdoptLegacy, GoOn, Proceed
  <2>4. stages' = {f[d] : d \in stages} /\ f = [d \in stages |-> f[d]]
    BY <2>2, <2>3
  <2>5. \A d \in stages : /\ f[d] \in StageDefs /\ f[d].key = d.key /\ f[d].edited = d.edited /\ f[d].n = d.n
                          /\ d.owner # "none" => f[d].owner = d.owner
                          /\ Fresh(d) => f[d].type = d.type /\ f[d].owner \in {d.owner, Owner[d.type]}
    BY <1>3, <2>2 DEF StageDefs, Fresh, Types
  <2>6. RunTyped(r) /\ r.pc = "adopt_sequential"
    BY <1>4, <2>1
  <2>7. QED BY <1>1, <2>3, <2>4, <2>5, <2>6, AdoptStagesStep
<1>6. ASSUME NEW t \in Types,
             run[s].pc = (IF t = "sequential" THEN "adopt_sequential" ELSE "adopt_concurrent")
      PROVE  SeedInv'
  <2> DEFINE pc == IF t = "sequential" THEN "adopt_concurrent" ELSE "adopt_gates"
  <2>1. PICK r : r = [run[s] EXCEPT !.pc = pc]
    OBVIOUS
  <2>2. PICK f : f = [d \in stages |-> IF d.type = t /\ d.owner = "none" THEN [d EXCEPT !.owner = Owner[t]] ELSE d]
    OBVIOUS
  <2>3. /\ run' = [run EXCEPT ![s] = r]
        /\ stages' = {IF d.type = t /\ d.owner = "none" THEN [d EXCEPT !.owner = Owner[t]] ELSE d : d \in stages}
    BY <1>6, <2>1 DEF AdoptLegacy, GoOn, Proceed, AdoptStages, Types
  <2>4. stages' = {f[d] : d \in stages} /\ f = [d \in stages |-> f[d]]
    BY <2>2, <2>3
  <2>5. \A d \in stages : /\ f[d] \in StageDefs /\ f[d].key = d.key /\ f[d].edited = d.edited /\ f[d].n = d.n
                          /\ d.owner # "none" => f[d].owner = d.owner
                          /\ f[d].type = d.type /\ f[d].owner \in {d.owner, Owner[t]}
                          /\ f[d].owner \in {d.owner, Owner[d.type]}
                          /\ d.type = t => f[d].owner # "none"
    BY <1>3, <2>2, OwnerOf DEF StageDefs
  <2>6. RunTyped(r) /\ r.pc = pc /\ r.pc \in {"adopt_concurrent", "adopt_gates"}
    BY <1>4, <2>1
  <2>7. Sound => SequentialAdopted' /\ (r.pc = "adopt_gates" => StagesAdopted')
    <3>1. SUFFICES ASSUME Sound PROVE SequentialAdopted' /\ (r.pc = "adopt_gates" => StagesAdopted')
      OBVIOUS
    <3>2. \A d \in stages : Fresh(d)
      BY <1>1, <3>1, PastReset
    <3>3. t = "concurrent" => SequentialAdopted
      BY <1>6, <3>1 DEF Sound, RunKnows, PastSequential, Types
    <3>4. t \in {"sequential", "concurrent"} /\ (r.pc = "adopt_gates" => t = "concurrent")
      BY <2>6 DEF Types
    <3>5. \A d \in stages : f[d].type = "sequential" => f[d].owner # "none"
      BY <2>5, <3>3, <3>4 DEF SequentialAdopted
    <3>6. t = "concurrent" => \A d \in stages : f[d].owner # "none"
      BY <2>5, <3>2, <3>5 DEF Fresh, Types
    <3>7. QED BY <2>4, <3>4, <3>5, <3>6 DEF SequentialAdopted, StagesAdopted
  <2> HIDE DEF pc
  <2>8. QED BY <1>1, <2>3, <2>4, <2>5, <2>6, <2>7, AdoptStagesStep
<1>7. QED
  <2>1. "sequential" \in Types /\ "concurrent" \in Types
    BY DEF Types
  <2>2. QED BY <1>1, <1>5, <1>6, <2>1

LEMMA AdoptGatesInv ==
  ASSUME SeedInv, NEW s \in Seeder, AdoptLegacy(s), run[s].pc = "adopt_gates"
  PROVE  SeedInv'
<1>1. PICK r : r = [pc |-> "upsert", rows |-> Rows, script |-> run[s].script]
  OBVIOUS
<1>2. PICK f : f = [g \in gates |-> IF g.owner = "none" THEN [g EXCEPT !.owner = "standard"] ELSE g]
  OBVIOUS
<1>3. /\ run' = [run EXCEPT ![s] = r]
      /\ gates' = {IF g.owner = "none" THEN [g EXCEPT !.owner = "standard"] ELSE g : g \in gates}
      /\ UNCHANGED <<from, stages, roles, configs, indexed, meta, edited, torn>>
  BY <1>1 DEF AdoptLegacy, GoOn, Proceed
<1>4. SeedTypes /\ RunTyped(run[s])
  BY DEF SeedInv, SeedTypes
<1>5. gates' = {f[g] : g \in gates} /\ f = [g \in gates |-> f[g]]
  BY <1>2, <1>3
<1>6. \A g \in gates : g = [key |-> g.key, owner |-> g.owner, edited |-> g.edited, n |-> g.n] /\ g \in GateRules
  BY <1>4 DEF SeedTypes, GateRules
<1>7. \A g \in gates : /\ f[g] \in GateRules /\ f[g].key = g.key /\ f[g].edited = g.edited /\ f[g].n = g.n
                       /\ f[g].owner = (IF g.owner = "none" THEN "standard" ELSE g.owner)
  BY <1>2, <1>6 DEF GateRules, Owners
<1>8. (\A g \in gates : f[g] \in gates') /\ (\A h \in gates' : \E g \in gates : h = f[g])
  BY <1>5
<1>9. r.pc = "upsert" /\ r.rows = Rows /\ RunTyped(r)
  <2>1. r.pc = "upsert" /\ r.rows = Rows /\ r.script = run[s].script
    BY <1>1
  <2>2. QED BY <1>1, <2>1, RowsAre DEF RunTyped, SeedPcs
<1>10. SeedTypes'
  <2>1. DOMAIN run' = Seeder /\ \A x \in Seeder : RunTyped(run'[x])
    BY <1>3, <1>4, <1>9, TypesStep
  <2>2. IsFiniteSet(gates')
    <3>1. f \in Surjection(gates, gates')
      <4>1. f \in [gates -> gates']
        BY <1>5, <1>8
      <4>2. QED BY <1>8, <4>1 DEF Surjection
    <3>2. QED BY <1>4, <3>1, FS_Surjection DEF SeedTypes
  <2>3. gates' \subseteq GateRules
    BY <1>7, <1>8
  <2>4. QED BY <1>3, <1>4, <2>1, <2>2, <2>3 DEF SeedTypes
<1>11. ASSUME ~ torn PROVE Sound'
  <2>1. Sound
    BY <1>11 DEF SeedInv
  <2>2. \A d \in stages : Fresh(d)
    BY <2>1, PastReset
  <2>3. RolesThere /\ configs = Owners /\ SequentialAdopted /\ StagesAdopted
    BY <2>1 DEF Sound, RunKnows, PastRoles, PastConfigs, PastSequential, PastConcurrent
  <2>4. RolesThere' /\ configs' = Owners /\ SequentialAdopted' /\ StagesAdopted'
    BY <1>3, <2>3 DEF RolesThere, SequentialAdopted, StagesAdopted
  <2>5. GatesAdopted'
    BY <1>7, <1>8 DEF GatesAdopted
  <2>6. OneMachine'
    BY <1>3, <2>2 DEF OneMachine
  <2>7. OnceEach'
    <3>1. \A a, b \in gates' : a.key = b.key /\ a.owner = b.owner /\ a.n = 1 /\ b.n = 1 => a = b
      <4>1. SUFFICES ASSUME NEW g \in gates, NEW h \in gates, f[g].key = f[h].key, f[g].owner = f[h].owner,
                            f[g].n = 1, f[h].n = 1
                     PROVE  g = h
        BY <1>8
      <4>2. g.key = h.key /\ g.n = 1 /\ h.n = 1
        BY <1>7, <4>1
      <4>3. g.owner = "none" <=> h.owner = "none"
        BY <2>1 DEF Sound, OnceEach
      <4>4. g.owner = h.owner
        BY <1>7, <4>1, <4>3
      <4>5. QED BY <2>1, <4>2, <4>4 DEF Sound, OnceEach
    <3>2. indexed => \A a \in gates' : a.n = 1
      BY <1>7, <1>8, <2>1 DEF Sound, OnceEach
    <3>3. QED BY <1>3, <2>1, <2>5, <3>1, <3>2 DEF Sound, OnceEach, GatesAdopted
  <2>8. SinceSkeleton'
    <3>1. r.pc \notin Wiping /\ r.pc # "insert"
      BY <1>9 DEF Wiping
    <3>2. \A k, t : (\E d \in stages : d.key = k /\ d.type = t) => (\E d \in stages' : d.key = k /\ d.type = t)
      BY <1>3
    <3>3. (\A d \in stages : d.n = 1) => (\A d \in stages' : d.n = 1)
      BY <1>3
    <3>4. SinceSkeleton
      BY <2>1 DEF Sound
    <3>5. QED BY <1>3, <1>4, <3>1, <3>2, <3>3, <3>4, SkeletonKept
  <2>9. Unscoped'
    BY <2>4 DEF Unscoped, Owners
  <2>10. Keeps
    <3>1. ASSUME NEW row \in SeedRows, There(row) PROVE There(row)'
      <4>1. CASE row.kind = "stage"
        BY <1>3, <3>1, <4>1 DEF There
      <4>2. CASE row.kind # "stage"
        <5>1. PICK g \in gates : g.key = row.key /\ g.owner = Owner[row.type]
          BY <3>1, <4>2 DEF There
        <5>2. f[g] \in gates' /\ f[g].key = row.key /\ f[g].owner = Owner[row.type]
          BY <1>7, <1>8, <5>1, RowKinds, OwnerOf
        <5>3. QED BY <4>2, <5>2 DEF There
      <4>3. QED BY <4>1, <4>2
    <3>2. QED BY <1>3, <2>4, <2>5, <3>1 DEF Keeps
  <2>11. RunKnows(r)'
    <3>1. \A row \in SeedRows : ToDo(r.rows, row)
      BY <1>9, RowsAre
    <3>2. r.pc \notin Upserted /\ r.pc # "stamp"
      BY <1>9 DEF Upserted
    <3>3. QED BY <2>4, <2>5, <3>1, <3>2 DEF RunKnows, ToDo
  <2>12. ASSUME NEW e \in edited, EditKept(e) PROVE EditKept(e)'
    <3>1. CASE e[1] = "gate" /\ \E g \in gates : g.key = e[2] /\ g.edited /\ g.owner \in {"none", "standard"}
      <4>1. PICK g \in gates : g.key = e[2] /\ g.edited /\ g.owner \in {"none", "standard"}
        BY <3>1
      <4>2. f[g] \in gates' /\ f[g].key = e[2] /\ f[g].edited /\ f[g].owner \in {"none", "standard"}
        BY <1>7, <1>8, <4>1
      <4>3. QED BY <3>1, <4>2 DEF EditKept
    <3>2. QED BY <1>3, <2>12, <3>1 DEF EditKept
  <2>13. UNCHANGED <<from, meta, edited>>
    BY <1>3
  <2>14. QED BY <1>3, <1>4, <2>1, <2>6, <2>7, <2>8, <2>9, <2>10, <2>11, <2>12, <2>13, SoundStep
<1>12. QED BY <1>3, <1>10, <1>11 DEF SeedInv

(* An edit of one document: nobody's run is disturbed.                      *)
LEMMA PatchStep ==
  ASSUME SeedInv, UNCHANGED <<from, configs, indexed, meta, run, torn>>, NEW what,
         edited' = IF Lasting THEN edited \cup {what} ELSE edited,
         SeedTypes',
         Sound => /\ Keeps /\ OneMachine' /\ OnceEach' /\ SinceSkeleton' /\ Unscoped'
                  /\ \A e \in edited : EditKept(e) => EditKept(e)'
                  /\ Lasting => EditKept(what)'
  PROVE  SeedInv'
<1>1. ASSUME ~ torn PROVE Sound'
  <2>1. /\ Sound /\ Keeps /\ OneMachine' /\ OnceEach' /\ SinceSkeleton' /\ Unscoped'
        /\ \A e \in edited : EditKept(e) => EditKept(e)'
        /\ Lasting => EditKept(what)'
    BY <1>1 DEF SeedInv
  <2>2. \A x \in Seeder : RunKnows(run[x])'
    <3>1. ASSUME NEW x \in Seeder PROVE RunKnows(run[x])'
      <4>1. \A q : q = run[x] => RunKnows(q)'
        BY <2>1, KnowsKept DEF Sound
      <4>2. \A q : q = run'[x] => RunKnows(q)'
        BY <4>1
      <4>3. QED BY <4>2
    <3>2. QED BY <3>1
  <2>3. meta' = Target => MachineSeeded'
    BY <2>1, MachineKept DEF Sound
  <2>4. \A e \in edited' : EditKept(e)'
    BY <2>1 DEF Sound
  <2>5. edited' # {} => from' >= _SKELETON_VERSION \/ meta' = Target
    BY <2>1 DEF Sound, Lasting
  <2>6. QED BY <2>1, <2>2, <2>3, <2>4, <2>5 DEF Sound
<1>2. QED BY <1>1 DEF SeedInv

LEMMA PatchStageInv ==
  ASSUME SeedInv, NEW d \in stages, PatchStageConfig(d)
  PROVE  SeedInv'
<1>1. /\ d \in Reads("sequential") /\ stages' = (stages \ {d}) \cup {[d EXCEPT !.edited = TRUE]}
      /\ edited' = IF Lasting THEN edited \cup {<<"stage", d.key>>} ELSE edited
      /\ UNCHANGED <<from, gates, roles, configs, indexed, meta, run, torn>>
  BY DEF PatchStageConfig, Edit
<1>2. SeedTypes
  BY DEF SeedInv
<1>3. PICK e : e = [d EXCEPT !.edited = TRUE]
  OBVIOUS
<1>4. /\ e \in StageDefs /\ e.key = d.key /\ e.type = d.type /\ e.owner = d.owner /\ e.n = d.n /\ e.edited
  BY <1>2, <1>3 DEF SeedTypes, StageDefs
<1>5. stages' = (stages \ {d}) \cup {e}
  BY <1>1, <1>3
<1>6. SeedTypes'
  <2>1. IsFiniteSet(stages')
    BY <1>2, <1>5, FS_AddElement, FS_RemoveElement DEF SeedTypes
  <2>2. stages' \subseteq StageDefs
    BY <1>2, <1>4, <1>5 DEF SeedTypes
  <2>3. QED BY <1>1, <1>2, <2>1, <2>2 DEF SeedTypes
<1>7. ASSUME Sound
      PROVE  /\ Keeps /\ OneMachine' /\ OnceEach' /\ SinceSkeleton' /\ Unscoped'
             /\ \A x \in edited : EditKept(x) => EditKept(x)'
             /\ Lasting => EditKept(<<"stage", d.key>>)'
  <2>1. e \in stages' /\ \A x \in stages : x = d \/ x \in stages'
    BY <1>5
  <2>2. \A x \in stages' : x = e \/ x \in stages
    BY <1>5
  <2>3. Keeps
    <3>1. ASSUME NEW row, There(row) PROVE There(row)'
      <4>1. CASE row.kind = "stage"
        <5>1. PICK x \in stages : x.key = row.key /\ x.owner = Owner[row.type]
          BY <3>1, <4>1 DEF There
        <5>2. \E y \in stages' : y.key = row.key /\ y.owner = Owner[row.type]
          BY <1>4, <2>1, <5>1
        <5>3. QED BY <4>1, <5>2 DEF There
      <4>2. CASE row.kind # "stage"
        BY <1>1, <3>1, <4>2 DEF There
      <4>3. QED BY <4>1, <4>2
    <3>2. SequentialAdopted => SequentialAdopted'
      BY <1>4, <2>2 DEF SequentialAdopted
    <3>3. StagesAdopted => StagesAdopted'
      BY <1>4, <2>2 DEF StagesAdopted
    <3>4. QED BY <1>1, <3>1, <3>2, <3>3 DEF Keeps, RolesThere, GatesAdopted
  <2>4. OneMachine'
    <3>1. CASE \A x \in stages : Fresh(x)
      <4>1. \A x \in stages' : Fresh(x)
        BY <1>4, <2>2, <3>1 DEF Fresh
      <4>2. QED BY <4>1 DEF OneMachine
    <3>2. CASE ~ \A x \in stages : Fresh(x)
      <4>1. /\ \A x \in stages : Stale(x)
            /\ from \in {1, 2} /\ meta # Target
            /\ \A s \in Seeder : run[s].pc \in {"idle", "decide", "wipe_stages"}
        BY <1>7, <3>2 DEF Sound, OneMachine
      <4>2. \A x \in stages' : Stale(x)
        BY <1>4, <2>2, <4>1 DEF Stale
      <4>3. QED BY <1>1, <4>1, <4>2 DEF OneMachine
    <3>3. QED BY <3>1, <3>2
  <2>5. OnceEach'
    <3>1. \A a, b \in stages' : a.key = b.key /\ a.type = b.type /\ a.n = 1 /\ b.n = 1 => a = b
      <4>1. \A x \in stages : x.key = e.key /\ x.type = e.type /\ x.n = 1 /\ e.n = 1 => x \notin stages' \/ x = e
        BY <1>4, <1>5, <1>7 DEF Sound, OnceEach
      <4>2. QED BY <1>7, <2>2, <4>1 DEF Sound, OnceEach
    <3>2. indexed => \A a \in stages' : a.n = 1
      BY <1>4, <1>7, <2>2 DEF Sound, OnceEach
    <3>3. QED BY <1>1, <1>7, <3>1, <3>2 DEF Sound, OnceEach
  <2>6. SinceSkeleton'
    <3>1. \A k, t : (\E x \in stages : x.key = k /\ x.type = t) => (\E x \in stages' : x.key = k /\ x.type = t)
      BY <1>4, <2>1
    <3>2. (\A x \in stages : x.n = 1) => (\A x \in stages' : x.n = 1)
      BY <1>4, <2>2
    <3>3. QED BY <1>1, <1>7, <3>1, <3>2 DEF Sound, SinceSkeleton
  <2>7. Unscoped'
    BY <1>1, <1>4, <1>7, <2>2 DEF Sound, Unscoped
  <2>8. ASSUME NEW x \in edited, EditKept(x) PROVE EditKept(x)'
    <3>1. CASE x[1] = "stage" /\ \E y \in stages : y.key = x[2] /\ y.edited /\ y.type = "sequential"
      <4>1. \E y \in stages' : y.key = x[2] /\ y.edited /\ y.type = "sequential"
        BY <1>4, <2>1, <3>1
      <4>2. QED BY <3>1, <4>1 DEF EditKept
    <3>2. QED BY <1>1, <2>8, <3>1 DEF EditKept
  <2>9. ASSUME Lasting PROVE EditKept(<<"stage", d.key>>)'
    <3>1. Fresh(d)
      BY <1>7, <2>9 DEF Sound, OneMachine, Lasting, _SKELETON_VERSION
    <3>2. d.type = "sequential"
      BY <1>1, <3>1, OwnerOf DEF Reads, Fresh, Types
    <3>3. \E y \in stages' : y.key = d.key /\ y.edited /\ y.type = "sequential"
      BY <1>4, <2>1, <3>2
    <3>4. QED BY <3>3 DEF EditKept
  <2>10. QED BY <2>3, <2>4, <2>5, <2>6, <2>7, <2>8, <2>9
<1>8. QED BY <1>1, <1>6, <1>7, PatchStep

LEMMA PatchGateInv ==
  ASSUME SeedInv, NEW g \in gates, PatchGateConfig(g)
  PROVE  SeedInv'
<1>1. /\ g \in ReadsGates /\ gates' = (gates \ {g}) \cup {[g EXCEPT !.edited = TRUE]}
      /\ edited' = IF Lasting THEN edited \cup {<<"gate", g.key>>} ELSE edited
      /\ UNCHANGED <<from, stages, roles, configs, indexed, meta, run, torn>>
  BY DEF PatchGateConfig, Edit
<1>2. SeedTypes
  BY DEF SeedInv
<1>3. PICK e : e = [g EXCEPT !.edited = TRUE]
  OBVIOUS
<1>4. /\ e \in GateRules /\ e.key = g.key /\ e.owner = g.owner /\ e.n = g.n /\ e.edited
  BY <1>2, <1>3 DEF SeedTypes, GateRules
<1>5. gates' = (gates \ {g}) \cup {e}
  BY <1>1, <1>3
<1>6. SeedTypes'
  <2>1. IsFiniteSet(gates')
    BY <1>2, <1>5, FS_AddElement, FS_RemoveElement DEF SeedTypes
  <2>2. gates' \subseteq GateRules
    BY <1>2, <1>4, <1>5 DEF SeedTypes
  <2>3. QED BY <1>1, <1>2, <2>1, <2>2 DEF SeedTypes
<1>7. ASSUME Sound
      PROVE  /\ Keeps /\ OneMachine' /\ OnceEach' /\ SinceSkeleton' /\ Unscoped'
             /\ \A x \in edited : EditKept(x) => EditKept(x)'
             /\ Lasting => EditKept(<<"gate", g.key>>)'
  <2>1. e \in gates' /\ \A x \in gates : x = g \/ x \in gates'
    BY <1>5
  <2>2. \A x \in gates' : x = e \/ x \in gates
    BY <1>5
  <2>3. Keeps
    <3>1. ASSUME NEW row, There(row) PROVE There(row)'
      <4>1. CASE row.kind # "stage"
        <5>1. PICK x \in gates : x.key = row.key /\ x.owner = Owner[row.type]
          BY <3>1, <4>1 DEF There
        <5>2. \E y \in gates' : y.key = row.key /\ y.owner = Owner[row.type]
          BY <1>4, <2>1, <5>1
        <5>3. QED BY <4>1, <5>2 DEF There
      <4>2. CASE row.kind = "stage"
        BY <1>1, <3>1, <4>2 DEF There
      <4>3. QED BY <4>1, <4>2
    <3>2. GatesAdopted => GatesAdopted'
      BY <1>4, <2>2 DEF GatesAdopted
    <3>3. QED BY <1>1, <3>1, <3>2 DEF Keeps, RolesThere, SequentialAdopted, StagesAdopted
  <2>4. OneMachine' /\ SinceSkeleton'
    BY <1>1, <1>7 DEF Sound, OneMachine, SinceSkeleton
  <2>5. OnceEach'
    <3>1. \A a, b \in gates' : a.key = b.key /\ a.owner = b.owner /\ a.n = 1 /\ b.n = 1 => a = b
      <4>1. \A x \in gates : x.key = e.key /\ x.owner = e.owner /\ x.n = 1 /\ e.n = 1 => x \notin gates' \/ x = e
        BY <1>4, <1>5, <1>7 DEF Sound, OnceEach
      <4>2. QED BY <1>7, <2>2, <4>1 DEF Sound, OnceEach
    <3>2. indexed => \A a \in gates' : a.n = 1
      BY <1>4, <1>7, <2>2 DEF Sound, OnceEach
    <3>3. \A a, b \in gates' : a.owner = "none" => b.owner = "none"
      BY <1>4, <1>7, <2>2 DEF Sound, OnceEach
    <3>4. QED BY <1>1, <1>7, <3>1, <3>2, <3>3 DEF Sound, OnceEach
  <2>6. Unscoped'
    BY <1>1, <1>4, <1>7, <2>2 DEF Sound, Unscoped
  <2>7. ASSUME NEW x \in edited, EditKept(x) PROVE EditKept(x)'
    <3>1. CASE x[1] = "gate" /\ \E y \in gates : y.key = x[2] /\ y.edited /\ y.owner \in {"none", "standard"}
      <4>1. \E y \in gates' : y.key = x[2] /\ y.edited /\ y.owner \in {"none", "standard"}
        BY <1>4, <2>1, <3>1
      <4>2. QED BY <3>1, <4>1 DEF EditKept
    <3>2. QED BY <1>1, <2>7, <3>1 DEF EditKept
  <2>8. EditKept(<<"gate", g.key>>)'
    <3>1. g.owner \in {"none", "standard"}
      <4>1. CASE "standard" \in configs
        BY <1>1, <4>1 DEF ReadsGates
      <4>2. CASE "standard" \notin configs
        <5>1. configs = {}
          BY <1>2, <4>2 DEF SeedTypes, Owners
        <5>2. QED BY <1>7, <5>1 DEF Sound, Unscoped
      <4>3. QED BY <4>1, <4>2
    <3>2. \E y \in gates' : y.key = g.key /\ y.edited /\ y.owner \in {"none", "standard"}
      BY <1>4, <2>1, <3>1
    <3>3. QED BY <3>2 DEF EditKept
  <2>9. QED BY <2>3, <2>4, <2>5, <2>6, <2>7, <2>8
<1>8. QED BY <1>1, <1>6, <1>7, PatchStep

LEMMA PatchRoleInv ==
  ASSUME SeedInv, NEW d \in roles, PatchApproverRole(d)
  PROVE  SeedInv'
<1>1. /\ roles' = (roles \ {d}) \cup {[d EXCEPT !.edited = TRUE]}
      /\ edited' = IF Lasting THEN edited \cup {<<"role", d.key>>} ELSE edited
      /\ UNCHANGED <<from, stages, gates, configs, indexed, meta, run, torn>>
  BY DEF PatchApproverRole, Edit
<1>2. SeedTypes
  BY DEF SeedInv
<1>3. PICK e : e = [d EXCEPT !.edited = TRUE]
  OBVIOUS
<1>4. e = [key |-> d.key, edited |-> TRUE] /\ e.key = d.key /\ d.key \in RoleKey
      /\ \A x \in roles : x = [key |-> x.key, edited |-> x.edited]
  <2>1. \A x \in roles : x \in [key : RoleKey, edited : BOOLEAN]
    BY <1>2 DEF SeedTypes
  <2>2. \A x \in roles : x = [key |-> x.key, edited |-> x.edited] /\ x.key \in RoleKey
    BY <2>1
  <2>3. d = [key |-> d.key, edited |-> d.edited] /\ d.key \in RoleKey
    BY <2>2
  <2>4. e = [key |-> d.key, edited |-> TRUE]
    BY <1>3, <2>3
  <2>5. QED BY <2>2, <2>3, <2>4
<1>5. /\ e \in roles' /\ \A x \in roles : x = d \/ x \in roles'
      /\ \A x \in roles' : x = e \/ x \in roles
  BY <1>1, <1>3
<1>6. SeedTypes'
  <2>1. e \in [key : RoleKey, edited : BOOLEAN]
    BY <1>4
  <2>2. roles' \subseteq [key : RoleKey, edited : BOOLEAN]
    BY <1>2, <1>5, <2>1 DEF SeedTypes
  <2>3. QED BY <1>1, <1>2, <2>2 DEF SeedTypes
<1>7. ASSUME Sound
      PROVE  /\ Keeps /\ OneMachine' /\ OnceEach' /\ SinceSkeleton' /\ Unscoped'
             /\ \A x \in edited : EditKept(x) => EditKept(x)'
             /\ Lasting => EditKept(<<"role", d.key>>)'
  <2>1. RolesThere => RolesThere'
    BY <1>4, <1>5 DEF RolesThere
  <2>2. Keeps
    BY <1>1, <2>1 DEF Keeps, SequentialAdopted, StagesAdopted, GatesAdopted, There
  <2>3. OneMachine' /\ OnceEach' /\ SinceSkeleton' /\ Unscoped'
    BY <1>1, <1>7 DEF Sound, OneMachine, OnceEach, SinceSkeleton, Unscoped
  <2>4. \A k : [key |-> k, edited |-> TRUE] \in roles => [key |-> k, edited |-> TRUE] \in roles'
    <3>1. ASSUME NEW k, [key |-> k, edited |-> TRUE] = d PROVE d = e
      BY <1>4, <3>1
    <3>2. QED BY <1>5, <3>1
  <2>5. ASSUME NEW x \in edited, EditKept(x) PROVE EditKept(x)'
    BY <1>1, <2>4, <2>5 DEF EditKept
  <2>6. EditKept(<<"role", d.key>>)'
    BY <1>4, <1>5 DEF EditKept
  <2>7. QED BY <2>2, <2>3, <2>5, <2>6
<1>8. QED BY <1>1, <1>6, <1>7, PatchStep

LEMMA SeedStutter ==
  ASSUME SeedInv, UNCHANGED seedVars
  PROVE  SeedInv'
<1>1. UNCHANGED <<from, stages, gates, roles, configs, indexed, meta, run, edited, torn>>
  BY DEF seedVars
<1>2. SeedTypes'
  BY <1>1 DEF SeedInv, SeedTypes, RunTyped
<1>3. ASSUME ~ torn PROVE Sound'
  <2>1. Sound
    BY <1>3 DEF SeedInv
  <2>2. OneMachine' /\ OnceEach' /\ SinceSkeleton' /\ Unscoped'
    BY <1>1, <2>1 DEF Sound, OneMachine, OnceEach, SinceSkeleton, Unscoped
  <2>3. Keeps
    BY <1>1 DEF Keeps, RolesThere, SequentialAdopted, StagesAdopted, GatesAdopted, There
  <2>4. \A x \in Seeder : RunKnows(run[x])'
    <3>1. ASSUME NEW x \in Seeder PROVE RunKnows(run[x])'
      <4>1. \A q : q = run[x] => RunKnows(q)'
        BY <2>1, <2>3, KnowsKept DEF Sound
      <4>2. \A q : q = run'[x] => RunKnows(q)'
        BY <1>1, <4>1
      <4>3. QED BY <4>2
    <3>2. QED BY <3>1
  <2>5. meta' = Target => MachineSeeded'
    BY <1>1, <2>1, <2>3, MachineKept DEF Sound
  <2>6. \A x \in edited' : EditKept(x)'
    BY <1>1, <2>1 DEF Sound, EditKept
  <2>7. QED BY <1>1, <2>1, <2>2, <2>4, <2>5, <2>6 DEF Sound
<1>4. QED BY <1>1, <1>2, <1>3 DEF SeedInv

LEMMA SeedInductive == SeedSpec => []SeedInv
<1>1. SeedInit => SeedInv
  BY SeedInitInv
<1>2. SeedInv /\ [SeedNext]_seedVars => SeedInv'
  <2>1. SUFFICES ASSUME SeedInv, [SeedNext]_seedVars PROVE SeedInv'
    OBVIOUS
  <2>2. ASSUME NEW s \in Seeder, SeedStep(s) PROVE SeedInv'
    <3>1. CASE AdoptLegacy(s)
      BY <2>1, <3>1, AdoptStagesInv, AdoptGatesInv
    <3>2. QED
      BY <2>1, <2>2, <3>1, DecideInv, WipeInv, UpsertRolesInv, EnsureConfigsInv, FindRowInv, InsertRowInv,
         BuildIndexesInv, StampInv, PinProjectsInv DEF SeedStep
  <2>3. ASSUME NEW s \in Seeder, CrashSeed(s) \/ \E script \in BOOLEAN : BeginSeed(s, script) PROVE SeedInv'
    BY <2>1, <2>3, BeginSeedInv
  <2>4. ASSUME NEW d \in stages, PatchStageConfig(d) PROVE SeedInv'
    BY <2>1, <2>4, PatchStageInv
  <2>5. ASSUME NEW g \in gates, PatchGateConfig(g) PROVE SeedInv'
    BY <2>1, <2>5, PatchGateInv
  <2>6. ASSUME NEW d \in roles, PatchApproverRole(d) PROVE SeedInv'
    BY <2>1, <2>6, PatchRoleInv
  <2>7. CASE UNCHANGED seedVars
    BY <2>1, <2>7, SeedStutter
  <2>8. QED BY <2>1, <2>2, <2>3, <2>4, <2>5, <2>6, <2>7 DEF SeedNext
<1>3. QED BY <1>1, <1>2, PTL DEF SeedSpec

LEMMA SeedAnswers == SeedInv => DefinitionsKept
<1> SUFFICES ASSUME SeedInv PROVE DefinitionsKept
  OBVIOUS
<1>1. SeedTypes
  BY DEF SeedInv
<1>2. ASSUME meta = Target, ~ torn PROVE WholeMachine
  <2>1. Sound /\ MachineSeeded
    BY <1>2 DEF SeedInv, Sound
  <2>2. \A d \in stages : Fresh(d) /\ d.n = 1 /\ d.owner = Owner[d.type]
    BY <1>2, <2>1 DEF Sound, OneMachine, OnceEach, MachineSeeded, StagesAdopted, Fresh
  <2>3. ASSUME NEW t \in Types, NEW k \in StageKey
        PROVE  Cardinality({d \in stages : d.key = k /\ d.owner = Owner[t] /\ d.type = t}) = 1
    <3> DEFINE S == {d \in stages : d.key = k /\ d.owner = Owner[t] /\ d.type = t}
    <3>1. PICK row : row = [kind |-> "stage", key |-> k, type |-> t]
      OBVIOUS
    <3>2. row \in SeedRows /\ row.kind = "stage" /\ row.key = k /\ row.type = t
      BY <3>1 DEF SeedRows, StageRows
    <3>3. PICK d \in stages : d.key = k /\ d.owner = Owner[t]
      BY <2>1, <3>2 DEF MachineSeeded, There
    <3>4. d.type = t
      BY <2>2, <3>3, OwnerOf DEF Fresh
    <3>5. S = {d}
      BY <2>1, <2>2, <3>3, <3>4 DEF Sound, OnceEach
    <3>6. QED BY <3>5, FS_Singleton
  <2>4. ASSUME NEW o \in Owners, NEW k \in GateKey
        PROVE  Cardinality({g \in gates : g.key = k /\ g.owner = o}) = 1
    <3> DEFINE S == {g \in gates : g.key = k /\ g.owner = o}
    <3>1. PICK t \in Types : Owner[t] = o
      BY OwnerOf DEF Owners, Types
    <3>2. PICK row : row = [kind |-> "gate", key |-> k, type |-> t]
      OBVIOUS
    <3>3. row \in SeedRows /\ row.kind = "gate" /\ row.key = k /\ row.type = t
      BY <3>2 DEF SeedRows, GateRows
    <3>4. PICK g \in gates : g.key = k /\ g.owner = o
      BY <2>1, <3>1, <3>3 DEF MachineSeeded, There
    <3>5. \A h \in gates : h.n = 1
      BY <2>1 DEF Sound, OnceEach, MachineSeeded
    <3>6. S = {g}
      BY <2>1, <3>4, <3>5 DEF Sound, OnceEach
    <3>7. QED BY <3>6, FS_Singleton
  <2>5. \A d \in stages : d.key \in StageKey /\ d.owner \in Owners
    BY <2>2, OwnerOf DEF Fresh
  <2>6. {d.key : d \in roles} = RoleKey
    <3>1. \A d \in roles : d.key \in RoleKey
      BY <1>1 DEF SeedTypes
    <3>2. QED BY <2>1, <3>1 DEF MachineSeeded, RolesThere
  <2>7. configs = Owners
    BY <2>1 DEF MachineSeeded
  <2>8. QED BY <2>3, <2>4, <2>5, <2>6, <2>7 DEF WholeMachine
<1>3. ~ torn => \A e \in edited : EditKept(e)
  BY DEF SeedInv, Sound
<1>4. ASSUME from >= _SKELETON_VERSION, NEW t \in Types, NEW d \in Reads(t), NEW other \in Reads(t)
      PROVE  d.type = t /\ (d.key = other.key => d = other)
  <2>1. Sound
    BY <1>4 DEF SeedInv
  <2>2. \A x \in stages : Fresh(x) /\ x.n = 1
    BY <1>1, <1>4, <2>1 DEF Sound, OneMachine, SinceSkeleton, _SKELETON_VERSION
  <2>3. \A x \in Reads(t) : x \in stages /\ x.type = t
    BY <2>2, OwnerOf DEF Reads, Fresh, Types
  <2>4. QED BY <2>1, <2>2, <2>3 DEF Sound, OnceEach
<1>5. QED BY <1>2, <1>3, <1>4 DEF DefinitionsKept, EditKept

(* "MUST be idempotent and safe to re-run ... never clobbers a tenant's     *)
(* later customizations": however many runs of seed there are, and however  *)
(* they crash and overlap, a tenant on the current version has its machine  *)
(* whole, edits are kept, and no project reads another workflow's stages.   *)
THEOREM DefinitionsSafe == SeedSpec => []DefinitionsKept
BY SeedInductive, SeedAnswers, PTL
=============================================================================
