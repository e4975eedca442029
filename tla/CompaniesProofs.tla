--------------------------- MODULE CompaniesProofs ---------------------------
(***************************************************************************)
(* Proofs about companies: that an active one is whole, and that its seats  *)
(* are accounted for.  The first needs what a provisioning run still has to *)
(* do, and what an update under way may write; the second, which requests   *)
(* hold a seat nobody sits on or owe one.                                   *)
(***************************************************************************)
EXTENDS Companies, SignedSumProofs, SequenceTheorems

-----------------------------------------------------------------------------
(* What comes first in the order of a list.                                 *)
LEMMA LeastOf ==
  ASSUME NEW n \in Nat, NEW T \in SUBSET (1 .. n), T # {}
  PROVE  \E m \in T : \A k \in 1 .. m - 1 : k \notin T
<1> DEFINE U == {j \in 1 .. n : \A k \in 1 .. j : k \notin T}
           c == Cardinality(U)
<1>1. \A a \in Nat : IsFiniteSet(1 .. a) /\ Cardinality(1 .. a) = a
  <2> TAKE a \in Nat
  <2>1. IsFiniteSet(1 .. a) /\ Cardinality(1 .. a) = IF 1 > a THEN 0 ELSE a - 1 + 1
    BY FS_Interval
  <2>2. QED BY <2>1
<1>2. \A S : IsFiniteSet(S) => \A R \in SUBSET S : IsFiniteSet(R) /\ Cardinality(R) <= Cardinality(S)
  BY FS_Subset
<1>3. IsFiniteSet(U) /\ c \in Nat /\ c <= n
  BY <1>1, <1>2, FS_CardinalityType
<1>4. \A j \in U : j \in 1 .. n /\ \A k \in 1 .. j : k \notin T /\ k \in U
  OBVIOUS
<1>5. \A j \in 1 .. n : (\A k \in 1 .. j : k \notin T) => j \in U
  OBVIOUS
<1> HIDE DEF U
<1>6. c + 1 \notin U
  <2> SUFFICES ASSUME c + 1 \in U PROVE FALSE
    OBVIOUS
  <2>1. 1 .. c + 1 \subseteq U
    BY <1>3, <1>4
  <2>2. Cardinality(1 .. c + 1) = c + 1 /\ Cardinality(1 .. c + 1) <= c
    <3>1. Cardinality(1 .. c + 1) = c + 1
      BY <1>1, <1>3
    <3>2. Cardinality(1 .. c + 1) <= c
      <4> DEFINE V == 1 .. c + 1
      <4>1. V \in SUBSET U
        BY <2>1
      <4> HIDE DEF V
      <4>2. Cardinality(V) <= Cardinality(U)
        BY <1>2, <1>3, <4>1
      <4>3. QED BY <4>2 DEF V
    <3>3. QED BY <3>1, <3>2
  <2>3. QED BY <1>3, <2>2
<1>7. c = 0 \/ c \in U
  <2> SUFFICES ASSUME c # 0, c \notin U PROVE FALSE
    OBVIOUS
  <2>1. U \subseteq 1 .. c - 1
    BY <1>3, <1>4
  <2>2. c - 1 \in Nat
    BY <1>3
  <2>3. Cardinality(1 .. c - 1) = c - 1 /\ c <= Cardinality(1 .. c - 1)
    BY <1>1, <1>2, <2>1, <2>2
  <2>4. QED BY <1>3, <2>3
<1> HIDE DEF c
<1>8. \A k \in 1 .. c : k \notin T
  BY <1>3, <1>4, <1>7
<1>9. \E m \in T : m = c + 1
  <2>1. CASE c = n
    <3>1. T = {}
      BY <1>8, <2>1
    <3>2. QED BY <3>1
  <2>2. CASE c < n
    <3>1. c + 1 \in 1 .. n
      BY <1>3, <2>2
    <3>2. PICK k \in 1 .. c + 1 : k \in T
      BY <1>5, <1>6, <3>1
    <3>3. k = c + 1
      BY <1>3, <1>8, <3>2
    <3>4. QED BY <3>2, <3>3
  <2>3. QED BY <1>3, <2>1, <2>2
<1>10. PICK m \in T : m = c + 1
  BY <1>9
<1>11. 1 .. m - 1 = 1 .. c
  BY <1>3, <1>10
<1>12. QED BY <1>8, <1>10, <1>11

LEMMA FirstIs ==
  ASSUME NEW order, NEW n \in Nat, DOMAIN order = 1 .. n, NEW left, left \cap ToSet(order) # {}
  PROVE  /\ First(order, left) \in left /\ First(order, left) \in ToSet(order)
         /\ \E i \in DOMAIN order : First(order, left) = order[i] /\ \A j \in 1 .. i - 1 : order[j] \notin left
<1> DEFINE T == {i \in 1 .. n : order[i] \in left}
<1>2. T \in SUBSET (1 .. n) /\ T # {}
  BY DEF ToSet
<1>3. PICK m \in T : \A k \in 1 .. m - 1 : k \notin T
  <2> HIDE DEF T
  <2>1. QED BY <1>2, LeastOf
<1>4. m \in DOMAIN order /\ order[m] \in left /\ \A j \in 1 .. m - 1 : order[j] \notin left
  BY <1>3
<1>5. QED BY <1>4 DEF First, ToSet
-----------------------------------------------------------------------------
(* What is kept of a company, and what a request under way is made of.      *)
Entry    == [status : Statuses, limit : Nat, used : Int, enabled : SUBSET Modules]
Database == [meta : BOOLEAN, seeded : SUBSET Modules, roles : BOOLEAN, owner : BOOLEAN, indexed : BOOLEAN,
             profile : BOOLEAN, staff : [Email -> Nat]]
Jobs     == [state : {"none", "running", "seeded", "done", "failed"},
             steps : [StepName -> {"pending", "running", "done", "failed"}]]
Ops      == {"idle", "run", "update", "limit", "employee", "teardown"}
Steps    == {"none", "reserve", "create_job", "start", "create_db", "seed_modules", "seed_rbac",
             "create_owner_user", "index_old", "index_new", "owner_seat", "seed_settings", "finalize",
             "close_job", "finish", "fail_step", "fail_job", "fail_company", "seed", "roles", "write",
             "claim", "insert", "release", "drop_db"}
Request  == [op : Ops, step : Steps, company : Company \cup {"none"}, todo : SUBSET (StepName \cup Modules),
             mods : SUBSET Modules, limit : Nat, email : Email \cup {"none"}, hard : BOOLEAN]

Next1(q) == First(PROVISION_STEPS, q.todo)
Early(q) == q.op = "run" /\ q.step \in {"reserve", "create_job"}
InRun(q) == q.op = "run" /\ q.step \notin {"reserve", "create_job"}
Placed(q) ==
  /\ q.op = "idle" => q = Idle
  /\ q.op # "idle" => q.company \in Company
  /\ InRun(q) => /\ q.todo \subseteq StepName /\ q.todo # {}
                 /\ q.step \in StepName => Next1(q) = q.step
                 /\ q.step \in {"index_old", "index_new", "owner_seat"} => Next1(q) = "create_owner_user"
                 /\ q.step = "close_job" => Next1(q) = "finalize"
  /\ q.op = "update" => /\ q.todo \subseteq Modules
                        /\ q.step = "seed" => q.todo # {}
                        /\ q.step # "seed" => q.todo = {}
  /\ q.op = "employee" => q.email \in Email
Requests == req \in [Req -> Request] /\ \A r \in Req : Placed(req[r])
CompanyShape ==
  /\ company \in [Company -> Entry] /\ tenant \in [Company -> Database] /\ job \in [Company -> Jobs]
  /\ drift \in [Company -> Int]
  /\ Requests

LEMMA StepNames ==
  /\ StepName = {"create_db", "seed_modules", "seed_rbac", "create_owner_user", "seed_settings", "finalize"}
  /\ DOMAIN PROVISION_STEPS = 1 .. 6 /\ ToSet(PROVISION_STEPS) = StepName
<1>1. DOMAIN PROVISION_STEPS = 1 .. 6
  BY DEF PROVISION_STEPS
<1>2. 1 .. 6 = {1, 2, 3, 4, 5, 6}
  OBVIOUS
<1>3. ToSet(PROVISION_STEPS) = {PROVISION_STEPS[i] : i \in {1, 2, 3, 4, 5, 6}}
  BY <1>1, <1>2 DEF ToSet
<1>4. /\ PROVISION_STEPS[1] = "create_db" /\ PROVISION_STEPS[2] = "seed_modules" /\ PROVISION_STEPS[3] = "seed_rbac"
      /\ PROVISION_STEPS[4] = "create_owner_user" /\ PROVISION_STEPS[5] = "seed_settings"
      /\ PROVISION_STEPS[6] = "finalize"
  BY DEF PROVISION_STEPS
<1> HIDE DEF PROVISION_STEPS
<1>5. QED BY <1>1, <1>3, <1>4 DEF StepName

LEMMA StepsInOrder ==
  ASSUME NEW todo \in SUBSET StepName, todo # {}
  PROVE  /\ First(PROVISION_STEPS, todo) \in todo
         /\ First(PROVISION_STEPS, todo) = "finalize" => todo = {"finalize"}
<1>1. todo \cap ToSet(PROVISION_STEPS) # {}
  BY StepNames
<1>2. First(PROVISION_STEPS, todo) \in todo
  BY <1>1, StepNames, FirstIs
<1>3. PICK i \in DOMAIN PROVISION_STEPS :
        First(PROVISION_STEPS, todo) = PROVISION_STEPS[i] /\ \A j \in 1 .. i - 1 : PROVISION_STEPS[j] \notin todo
  BY <1>1, StepNames, FirstIs
<1>4. ASSUME First(PROVISION_STEPS, todo) = "finalize" PROVE todo = {"finalize"}
  <2>1. i \in {1, 2, 3, 4, 5, 6}
    BY <1>3 DEF PROVISION_STEPS
  <2>2. i = 6
    <3>1. \A k \in {1, 2, 3, 4, 5} : PROVISION_STEPS[k] # "finalize"
      BY DEF PROVISION_STEPS
    <3>2. QED BY <1>3, <1>4, <2>1, <3>1
  <2>3. \A j \in {1, 2, 3, 4, 5} : PROVISION_STEPS[j] \notin todo
    BY <1>3, <2>2
  <2>4. /\ "create_db" \notin todo /\ "seed_modules" \notin todo /\ "seed_rbac" \notin todo
        /\ "create_owner_user" \notin todo /\ "seed_settings" \notin todo
    BY <2>3 DEF PROVISION_STEPS
  <2>5. QED BY <1>2, <1>4, <2>4, StepNames
<1>5. QED BY <1>2, <1>4

LEMMA ModulesInOrder ==
  ASSUME NEW mods \in SUBSET Modules, mods # {}
  PROVE  NextSeed(mods) \in mods /\ NextSeed(mods) \in Modules
<1>1. Module \in Seq(STRING) /\ mods \cap ToSet(Module) # {}
  BY BoundAssumption DEF Modules
<1>2. Len(Module) \in Nat /\ DOMAIN Module = 1 .. Len(Module)
  BY <1>1, LenProperties
<1>3. QED BY <1>1, <1>2, FirstIs DEF NextSeed
-----------------------------------------------------------------------------
(* What one step of a request does: it changes its own request, and of the  *)
(* companies at most the one it is about.                                   *)
Turned(r) ==
  /\ Requests' /\ \A s \in Req \ {r} : req'[s] = req[s]
  /\ req'[r].op \in {"idle", req[r].op}
  /\ req'[r].op # "idle" => req'[r].company = req[r].company
Held(c) ==
  /\ company' \in [Company -> Entry] /\ tenant' \in [Company -> Database] /\ job' \in [Company -> Jobs]
  /\ drift' \in [Company -> Int]
  /\ \A x \in Company \ {c} : /\ company'[x] = company[x] /\ tenant'[x] = tenant[x]
                              /\ job'[x] = job[x] /\ drift'[x] = drift[x]
  /\ touched \subseteq touched' /\ touched' \subseteq touched \cup {c}
  /\ lowered \subseteq lowered' /\ lowered' \subseteq lowered \cup {c}
  /\ mixed \subseteq mixed' /\ mixed' \subseteq mixed \cup {c}
Moved(r) == Turned(r) /\ Held(req[r].company)

(* The request goes on to another step of its own.                         *)
Went(r, step) ==
  /\ req'[r].op = req[r].op /\ req'[r].step = step /\ req'[r].company = req[r].company
  /\ req'[r].todo = req[r].todo /\ req'[r].mods = req[r].mods /\ req'[r].email = req[r].email

LEMMA TurnShape ==
  ASSUME Requests, NEW r \in Req, NEW q \in Request, Placed(q), req' = [req EXCEPT ![r] = q],
         q.op \in {"idle", req[r].op}, q.op # "idle" => q.company = req[r].company
  PROVE  Turned(r)
<1>1. req' \in [Req -> Request] /\ req'[r] = q /\ \A s \in Req \ {r} : req'[s] = req[s]
  BY DEF Requests
<1>2. \A s \in Req : Placed(req'[s])
  BY <1>1 DEF Requests
<1>3. QED BY <1>1, <1>2 DEF Turned, Requests

LEMMA DoneShape ==
  ASSUME Requests, NEW r \in Req, Done(r)
  PROVE  Turned(r) /\ req'[r] = Idle
<1>0. Idle.op = "idle" /\ Idle \in Request
  BY DEF Idle, Request, Ops, Steps
<1>1. Idle \in Request /\ Placed(Idle) /\ Idle.op = "idle"
  BY <1>0 DEF Placed, InRun
<1>2. req' = [req EXCEPT ![r] = Idle]
  BY DEF Done, Become
<1>3. req'[r] = Idle
  BY <1>2 DEF Requests
<1>4. QED BY <1>1, <1>2, <1>3, TurnShape

LEMMA GoShape ==
  ASSUME Requests, NEW r \in Req, NEW step \in Steps, Go(r, step), req[r].op # "idle",
         req[r].op = "run" =>
           /\ step # "reserve" /\ (req[r].step = "reserve" => step = "create_job")
           /\ step = "create_job" => req[r].step = "reserve"
           /\ step \in StepName => Next1(req[r]) = step
           /\ step \in {"index_old", "index_new", "owner_seat"} => Next1(req[r]) = "create_owner_user"
           /\ step = "close_job" => Next1(req[r]) = "finalize",
         req[r].op = "run" /\ req[r].step = "create_job" => FALSE,
         req[r].op = "update" => step # "seed" /\ req[r].todo = {}
  PROVE  Turned(r) /\ Went(r, step)
<1> DEFINE q == [req[r] EXCEPT !.step = step]
<1>1. req[r] \in Request /\ Placed(req[r])
  BY DEF Requests
<1>2. q \in Request
  BY <1>1 DEF Request
<1>3. /\ q.op = req[r].op /\ q.step = step /\ q.company = req[r].company /\ q.todo = req[r].todo
      /\ q.mods = req[r].mods /\ q.email = req[r].email
  BY <1>1 DEF Request
<1>4. req' = [req EXCEPT ![r] = q]
  BY DEF Go, Become
<1> HIDE DEF q
<1>5. Next1(q) = Next1(req[r])
  BY <1>3 DEF Next1
<1>6. Placed(q)
  BY <1>1, <1>3, <1>5 DEF Placed, InRun
<1>7. req'[r] = q
  BY <1>4 DEF Requests
<1>8. Turned(r)
  BY <1>2, <1>3, <1>4, <1>6, TurnShape
<1>9. QED BY <1>3, <1>7, <1>8 DEF Went

-----------------------------------------------------------------------------
(* The steps of a run.                                                      *)
LEMMA HeldStill ==
  ASSUME CompanyShape, NEW c, UNCHANGED <<company, tenant, job, past>>
  PROVE  Held(c)
BY DEF CompanyShape, Held, past

LEMMA SetJobStep ==
  ASSUME CompanyShape, NEW r \in Req, NEW c \in Company, c = req[r].company, NEW n \in StepName, n = Current(r),
         NEW v \in {"running", "done", "failed"}, SetStep(r, v), UNCHANGED <<company, tenant, past>>
  PROVE  /\ Held(c) /\ job'[c].state = job[c].state
         /\ \A s \in StepName : job'[c].steps[s] = IF s = n THEN v ELSE job[c].steps[s]
<1>1. job[c] \in Jobs
  BY DEF CompanyShape
<1> DEFINE j == [job[c] EXCEPT !.steps = [@ EXCEPT ![n] = v]]
<1>2. job' = [job EXCEPT ![c] = j]
  BY DEF SetStep
<1>3. j \in Jobs /\ j.state = job[c].state /\ \A s \in StepName : j.steps[s] = IF s = n THEN v ELSE job[c].steps[s]
  BY <1>1 DEF Jobs
<1> HIDE DEF j
<1>4. job'[c] = j /\ job' \in [Company -> Jobs]
  BY <1>2, <1>3 DEF CompanyShape
<1>5. QED BY <1>2, <1>3, <1>4 DEF CompanyShape, Held, past

LEMMA SetJobState ==
  ASSUME CompanyShape, NEW c \in Company, NEW v \in {"running", "seeded", "done", "failed"},
         job' = [job EXCEPT ![c].state = v], UNCHANGED <<company, tenant, past>>
  PROVE  Held(c) /\ job'[c].steps = job[c].steps
<1>1. job[c] \in Jobs
  BY DEF CompanyShape
<1> DEFINE j == [job[c] EXCEPT !.state = v]
<1>2. job' = [job EXCEPT ![c] = j]
  OBVIOUS
<1>3. j \in Jobs /\ j.steps = job[c].steps
  BY <1>1 DEF Jobs
<1> HIDE DEF j
<1>4. job'[c] = j /\ job' \in [Company -> Jobs]
  BY <1>2, <1>3 DEF CompanyShape
<1>5. QED BY <1>2, <1>3, <1>4 DEF CompanyShape, Held, past

LEMMA SetDatabase ==
  ASSUME CompanyShape, NEW c \in Company, NEW d \in Database,
         tenant' = [tenant EXCEPT ![c] = d], UNCHANGED <<company, job, past>>
  PROVE  Held(c) /\ tenant'[c] = d
<1>1. tenant'[c] = d /\ tenant' \in [Company -> Database]
  BY DEF CompanyShape
<1>2. QED BY <1>1 DEF CompanyShape, Held, past

LEMMA SetEntry ==
  ASSUME CompanyShape, NEW c \in Company, NEW d \in Entry,
         company' = [company EXCEPT ![c] = d], UNCHANGED <<tenant, job, past>>
  PROVE  Held(c) /\ company'[c] = d
<1>1. company'[c] = d /\ company' \in [Company -> Entry]
  BY DEF CompanyShape
<1>2. QED BY <1>1 DEF CompanyShape, Held, past

(* What a run under way is made of.                                         *)
LEMMA RequestShape ==
  ASSUME Requests, NEW r \in Req, req[r].op # "idle"
  PROVE  req[r] \in Request /\ Placed(req[r]) /\ req[r].company \in Company
BY DEF Requests, Placed

LEMMA RunShape ==
  ASSUME Requests, NEW r \in Req, InRun(req[r])
  PROVE  /\ req[r].todo \subseteq StepName /\ Current(r) \in req[r].todo
         /\ Current(r) = Next1(req[r]) /\ Current(r) \in StepName
         /\ Current(r) = "finalize" => req[r].todo = {"finalize"}
<1>1. Placed(req[r])
  BY DEF Requests
<1>2. req[r].todo \subseteq StepName /\ req[r].todo # {}
  BY <1>1 DEF Placed
<1>3. QED BY <1>2, StepsInOrder DEF Current, Next1

LEMMA CreateJobMoves ==
  ASSUME CompanyShape, NEW r \in Req, CreateJob(r)
  PROVE  /\ Moved(r)
         /\ req'[r] = Idle \/ /\ InRun(req'[r]) /\ req'[r].step = "start" /\ req'[r].todo = StepName
                              /\ req'[r].mods = company[req[r].company].enabled
         /\ \A s \in StepName : job'[req[r].company].steps[s] = "pending"
         /\ UNCHANGED <<company, tenant, past>>
<1>0. Requests /\ At(r, "run", "create_job") /\ req[r].op = "run" /\ UNCHANGED <<company, tenant, past>>
  BY DEF CompanyShape, CreateJob, At
<1>c. PICK c : c = req[r].company
  OBVIOUS
<1>1. c \in Company /\ req[r] \in Request /\ company[c] \in Entry
  BY <1>0, <1>c, RequestShape DEF CompanyShape
<1>2. PICK j : j = [state |-> "running", steps |-> [s \in StepName |-> "pending"]]
  OBVIOUS
<1>3. j \in Jobs /\ \A s \in StepName : j.steps[s] = "pending"
  BY <1>2 DEF Jobs
<1>4. job' = [job EXCEPT ![c] = j]
  <2>1. [NoJob EXCEPT !.state = "running"] = j
    BY <1>2 DEF NoJob
  <2>2. QED BY <1>c, <2>1 DEF CreateJob
<1>5. job' \in [Company -> Jobs] /\ job'[c] = j /\ \A x \in Company \ {c} : job'[x] = job[x]
  BY <1>1, <1>3, <1>4 DEF CompanyShape
<1>6. Held(c)
  BY <1>0, <1>5 DEF CompanyShape, Held, past
<1>7. CASE Exists(c)
  <2> DEFINE q == [req[r] EXCEPT !.todo = StepName, !.step = "start", !.mods = company[c].enabled]
  <2>1. q \in Request
    BY <1>1 DEF Request, Entry, Steps
  <2>2. q.op = "run" /\ q.step = "start" /\ q.company = c /\ q.todo = StepName /\ q.mods = company[c].enabled
    BY <1>0, <1>1, <1>c DEF Request
  <2>3. req' = [req EXCEPT ![r] = q]
    BY <1>7, <1>c DEF CreateJob, Become
  <2> HIDE DEF q
  <2>4. StepName # {} /\ "start" \notin StepName
    BY StepNames
  <2>5. Placed(q)
    BY <1>1, <2>2, <2>4 DEF Placed, InRun
  <2>6. Turned(r) /\ req'[r] = q
    BY <1>0, <1>c, <2>1, <2>2, <2>3, <2>5, TurnShape DEF Requests
  <2>7. QED BY <1>0, <1>3, <1>5, <1>6, <1>c, <2>2, <2>6 DEF Moved, InRun
<1>8. CASE ~ Exists(c)
  <2>1. Turned(r) /\ req'[r] = Idle
    BY <1>0, <1>8, <1>c, DoneShape DEF CreateJob
  <2>2. QED BY <1>0, <1>3, <1>5, <1>6, <1>c, <2>1 DEF Moved
<1>9. QED BY <1>7, <1>8

LEMMA StartStepMoves ==
  ASSUME CompanyShape, NEW r \in Req, StartStep(r)
  PROVE  /\ Moved(r) /\ InRun(req[r]) /\ req[r].step = "start" /\ Went(r, Current(r)) /\ Current(r) \in StepName
         /\ \A s \in StepName : job'[req[r].company].steps[s] = "done" => job[req[r].company].steps[s] = "done"
         /\ UNCHANGED <<company, tenant, past>>
<1>0. Requests /\ At(r, "run", "start") /\ req[r].op = "run" /\ req[r].step = "start" /\ InRun(req[r])
  BY DEF CompanyShape, StartStep, At, InRun, Running
<1>c. PICK c : c = req[r].company
  OBVIOUS
<1>1. c \in Company /\ Placed(req[r]) /\ tenant[c] \in Database /\ company[c] \in Entry /\ "start" # "reserve"
  BY <1>0, <1>c, RequestShape DEF CompanyShape
<1>s. Current(r) \in StepName /\ Current(r) = Next1(req[r])
  BY <1>0, RunShape
<1>2. /\ Current(r) \in StepName /\ Current(r) = Next1(req[r]) /\ Current(r) \in Steps
      /\ UNCHANGED <<company, tenant, past>> /\ Go(r, Current(r)) /\ SetStep(r, "running")
  <2>1. Current(r) \in Steps
    BY <1>s, StepNames DEF Steps
  <2>2. UNCHANGED <<company, tenant, past>> /\ Go(r, Current(r)) /\ SetStep(r, "running")
    BY DEF StartStep
  <2>3. QED BY <1>s, <2>1, <2>2
<1>n. PICK n : n = Current(r)
  OBVIOUS
<1>3. Turned(r) /\ Went(r, n)
  BY <1>0, <1>2, <1>n, GoShape, StepNames
<1>4. Held(c) /\ \A s \in StepName : job'[c].steps[s] = IF s = n THEN "running" ELSE job[c].steps[s]
  BY <1>1, <1>2, <1>c, <1>n, SetJobStep
<1>5. QED BY <1>0, <1>2, <1>3, <1>4, <1>c, <1>n DEF Moved

LEMMA FinishStepMoves ==
  ASSUME CompanyShape, NEW r \in Req, FinishStep(r)
  PROVE  /\ Moved(r) /\ InRun(req[r]) /\ req[r].step = "finish" /\ Current(r) \in StepName
         /\ Current(r) = Next1(req[r])
         /\ req'[r] = Idle \/ /\ req'[r].op = "run" /\ req'[r].step = "start" /\ req'[r].company = req[r].company
                              /\ req'[r].todo = req[r].todo \ {Current(r)} /\ req'[r].mods = req[r].mods
         /\ \A s \in StepName :
              job'[req[r].company].steps[s] = "done" => job[req[r].company].steps[s] = "done" \/ s = Current(r)
         /\ UNCHANGED <<company, tenant, past>>
<1>0. Requests /\ At(r, "run", "finish") /\ req[r].op = "run" /\ req[r].step = "finish" /\ InRun(req[r])
  BY DEF CompanyShape, FinishStep, At, InRun, Running
<1>c. PICK c : c = req[r].company
  OBVIOUS
<1>1. c \in Company /\ Placed(req[r]) /\ tenant[c] \in Database /\ company[c] \in Entry /\ "finish" # "reserve"
  BY <1>0, <1>c, RequestShape DEF CompanyShape
<1>n. PICK n : n = Current(r)
  OBVIOUS
<1>2. /\ n \in StepName /\ n = Next1(req[r]) /\ n \in req[r].todo /\ req[r] \in Request
      /\ req[r].todo \subseteq StepName
      /\ UNCHANGED <<company, tenant, past>>
      /\ SetStep(r, "done")
  <2>1. /\ n \in StepName /\ n = Next1(req[r]) /\ n \in req[r].todo /\ req[r] \in Request
        /\ req[r].todo \subseteq StepName
    BY <1>0, <1>n, RequestShape, RunShape
  <2>2. UNCHANGED <<company, tenant, past>> /\ SetStep(r, "done")
    BY DEF FinishStep
  <2>3. QED BY <2>1, <2>2
<1>3. Held(c) /\ \A s \in StepName : job'[c].steps[s] = IF s = n THEN "done" ELSE job[c].steps[s]
  BY <1>1, <1>2, <1>c, <1>n, SetJobStep
<1>4. CASE req[r].todo = {n}
  <2>1. Turned(r) /\ req'[r] = Idle
    BY <1>0, <1>4, <1>n, DoneShape DEF FinishStep
  <2>2. QED BY <1>0, <1>2, <1>3, <1>c, <1>n, <2>1 DEF Moved
<1>5. CASE req[r].todo # {n}
  <2> DEFINE q == [req[r] EXCEPT !.todo = @ \ {n}, !.step = "start"]
  <2>1. q \in Request
    BY <1>2 DEF Request, Steps
  <2>2. /\ q.op = "run" /\ q.step = "start" /\ q.company = c /\ q.todo = req[r].todo \ {n}
        /\ q.mods = req[r].mods
    BY <1>0, <1>2, <1>c DEF Request
  <2>3. req' = [req EXCEPT ![r] = q]
    BY <1>5, <1>n DEF FinishStep, Become
  <2> HIDE DEF q
  <2>4. "start" \notin StepName
    BY StepNames
  <2>5. Placed(q)
    BY <1>1, <1>2, <1>5, <2>2, <2>4 DEF Placed, InRun
  <2>6. Turned(r) /\ req'[r] = q
    BY <1>0, <1>c, <2>1, <2>2, <2>3, <2>5, TurnShape DEF Requests
  <2>7. QED BY <1>0, <1>2, <1>3, <1>c, <1>n, <2>2, <2>6 DEF Moved
<1>6. QED BY <1>4, <1>5

LEMMA CreateDbMoves ==
  ASSUME CompanyShape, NEW r \in Req, CreateDb(r)
  PROVE  /\ Moved(r) /\ InRun(req[r]) /\ req[r].step = "create_db" /\ Went(r, "finish")
         /\ tenant'[req[r].company] = [tenant[req[r].company] EXCEPT !.meta = TRUE]
         /\ UNCHANGED <<company, job, past>>
<1>0. Requests /\ At(r, "run", "create_db") /\ req[r].op = "run" /\ req[r].step = "create_db" /\ InRun(req[r])
  BY DEF CompanyShape, CreateDb, At, InRun, Running
<1>c. PICK c : c = req[r].company
  OBVIOUS
<1>1. c \in Company /\ Placed(req[r]) /\ tenant[c] \in Database /\ company[c] \in Entry /\ "create_db" # "reserve"
  BY <1>0, <1>c, RequestShape DEF CompanyShape
<1>2. Go(r, "finish") /\ UNCHANGED <<company, job, past>>
  BY DEF CreateDb
<1>3. Turned(r) /\ Went(r, "finish")
  BY <1>0, <1>2, GoShape, StepNames DEF Steps
<1>4. PICK d : d = [tenant[c] EXCEPT !.meta = TRUE]
  OBVIOUS
<1>5. d \in Database
  BY <1>1, <1>4 DEF Database
<1>6. tenant' = [tenant EXCEPT ![c] = d]
  BY <1>4, <1>c DEF CreateDb
<1>7. Held(c) /\ tenant'[c] = d
  BY <1>1, <1>2, <1>5, <1>6, SetDatabase
<1>8. QED BY <1>0, <1>2, <1>3, <1>4, <1>7, <1>c DEF Moved

LEMMA SeedRbacMoves ==
  ASSUME CompanyShape, NEW r \in Req, SeedRbac(r)
  PROVE  /\ Moved(r) /\ InRun(req[r]) /\ req[r].step = "seed_rbac" /\ Went(r, "finish")
         /\ tenant'[req[r].company] = [tenant[req[r].company] EXCEPT !.roles = TRUE]
         /\ UNCHANGED <<company, job, past>>
<1>0. Requests /\ At(r, "run", "seed_rbac") /\ req[r].op = "run" /\ req[r].step = "seed_rbac" /\ InRun(req[r])
  BY DEF CompanyShape, SeedRbac, At, InRun, Running
<1>c. PICK c : c = req[r].company
  OBVIOUS
<1>1. c \in Company /\ Placed(req[r]) /\ tenant[c] \in Database /\ company[c] \in Entry /\ "seed_rbac" # "reserve"
  BY <1>0, <1>c, RequestShape DEF CompanyShape
<1>2. Go(r, "finish") /\ UNCHANGED <<company, job, past>>
  BY DEF SeedRbac
<1>3. Turned(r) /\ Went(r, "finish")
  BY <1>0, <1>2, GoShape, StepNames DEF Steps
<1>4. PICK d : d = [tenant[c] EXCEPT !.roles = TRUE]
  OBVIOUS
<1>5. d \in Database
  BY <1>1, <1>4 DEF Database
<1>6. tenant' = [tenant EXCEPT ![c] = d]
  BY <1>4, <1>c DEF SeedRbac
<1>7. Held(c) /\ tenant'[c] = d
  BY <1>1, <1>2, <1>5, <1>6, SetDatabase
<1>8. QED BY <1>0, <1>2, <1>3, <1>4, <1>7, <1>c DEF Moved

LEMMA SeedSettingsMoves ==
  ASSUME CompanyShape, NEW r \in Req, SeedSettings(r)
  PROVE  /\ Moved(r) /\ InRun(req[r]) /\ req[r].step = "seed_settings" /\ Went(r, "finish")
         /\ tenant'[req[r].company] = [tenant[req[r].company] EXCEPT !.profile = TRUE]
         /\ UNCHANGED <<company, job, past>>
<1>0. Requests /\ At(r, "run", "seed_settings") /\ req[r].op = "run" /\ req[r].step = "seed_settings" /\ InRun(req[r])
  BY DEF CompanyShape, SeedSettings, At, InRun, Running
<1>c. PICK c : c = req[r].company
  OBVIOUS
<1>1. c \in Company /\ Placed(req[r]) /\ tenant[c] \in Database /\ company[c] \in Entry /\ "seed_settings" # "reserve"
  BY <1>0, <1>c, RequestShape DEF CompanyShape
<1>2. Go(r, "finish") /\ UNCHANGED <<company, job, past>>
  BY DEF SeedSettings
<1>3. Turned(r) /\ Went(r, "finish")
  BY <1>0, <1>2, GoShape, StepNames DEF Steps
<1>4. PICK d : d = [tenant[c] EXCEPT !.profile = TRUE]
  OBVIOUS
<1>5. d \in Database
  BY <1>1, <1>4 DEF Database
<1>6. tenant' = [tenant EXCEPT ![c] = d]
  BY <1>4, <1>c DEF SeedSettings
<1>7. Held(c) /\ tenant'[c] = d
  BY <1>1, <1>2, <1>5, <1>6, SetDatabase
<1>8. QED BY <1>0, <1>2, <1>3, <1>4, <1>7, <1>c DEF Moved

LEMMA SeedModulesMoves ==
  ASSUME CompanyShape, NEW r \in Req, SeedModules(r)
  PROVE  /\ Moved(r) /\ InRun(req[r]) /\ req[r].step = "seed_modules" /\ UNCHANGED <<company, past>>
         /\ job'[req[r].company].steps = job[req[r].company].steps
         /\ \/ req[r].mods = {} /\ Went(r, "finish") /\ UNCHANGED tenant
            \/ \E m \in req[r].mods :
                 /\ req'[r].op = "run" /\ req'[r].step = "seed_modules" /\ req'[r].company = req[r].company
                 /\ req'[r].todo = req[r].todo /\ req'[r].mods = req[r].mods \ {m}
                 /\ tenant'[req[r].company] = [tenant[req[r].company] EXCEPT !.seeded = @ \cup {m},
                                                                           !.roles = @ \/ m = "settings"]
<1>0. Requests /\ At(r, "run", "seed_modules") /\ req[r].op = "run" /\ req[r].step = "seed_modules" /\ InRun(req[r])
  BY DEF CompanyShape, SeedModules, At, InRun, Running
<1>c. PICK c : c = req[r].company
  OBVIOUS
<1>1. c \in Company /\ Placed(req[r]) /\ tenant[c] \in Database /\ company[c] \in Entry /\ "seed_modules" # "reserve"
      /\ req[r] \in Request
  BY <1>0, <1>c, RequestShape DEF CompanyShape
<1>2. CASE req[r].mods = {}
  <2>1. Go(r, "finish") /\ job' = [job EXCEPT ![c].state = "seeded"] /\ UNCHANGED <<company, tenant, past>>
    BY <1>2, <1>c DEF SeedModules
  <2>2. Turned(r) /\ Went(r, "finish")
    BY <1>0, <2>1, GoShape, StepNames DEF Steps
  <2>3. Held(c) /\ job'[c].steps = job[c].steps
    BY <1>1, <2>1, SetJobState
  <2>4. QED BY <1>0, <1>2, <1>c, <2>1, <2>2, <2>3 DEF Moved
<1>3. CASE req[r].mods # {}
  <2>m. PICK m : m = NextSeed(req[r].mods)
    OBVIOUS
  <2>1. m \in req[r].mods /\ m \in Modules
    BY <1>1, <1>3, <2>m, ModulesInOrder DEF Request
  <2> DEFINE q == [req[r] EXCEPT !.mods = @ \ {m}]
  <2>2. q \in Request
    BY <1>1 DEF Request
  <2>3. /\ q.op = "run" /\ q.step = "seed_modules" /\ q.company = c /\ q.todo = req[r].todo
        /\ q.mods = req[r].mods \ {m}
    BY <1>0, <1>1, <1>c DEF Request
  <2>4. req' = [req EXCEPT ![r] = q]
    BY <1>3, <2>m DEF SeedModules, Become
  <2> HIDE DEF q
  <2>5. Placed(q)
    BY <1>0, <1>1, <2>3 DEF Placed, InRun, Next1
  <2>6. Turned(r) /\ req'[r] = q
    BY <1>0, <1>c, <2>2, <2>3, <2>4, <2>5, TurnShape DEF Requests
  <2>7. PICK d : d = [tenant[c] EXCEPT !.seeded = @ \cup {m}, !.roles = @ \/ m = "settings"]
    OBVIOUS
  <2>8. d \in Database
    BY <1>1, <2>1, <2>7 DEF Database
  <2>9. tenant' = [tenant EXCEPT ![c] = d] /\ UNCHANGED <<company, job, past>>
    BY <1>3, <1>c, <2>7, <2>m DEF SeedModules, Seed
  <2>10. Held(c) /\ tenant'[c] = d
    BY <1>1, <2>8, <2>9, SetDatabase
  <2>11. QED BY <1>0, <1>c, <2>1, <2>3, <2>6, <2>7, <2>9, <2>10 DEF Moved
<1>4. QED BY <1>2, <1>3

LEMMA CreateOwnerUserMoves ==
  ASSUME CompanyShape, NEW r \in Req, CreateOwnerUser(r)
  PROVE  /\ Moved(r) /\ InRun(req[r]) /\ req[r].step = "create_owner_user"
         /\ Went(r, IF tenant[req[r].company].owner THEN "index_old" ELSE "index_new")
         /\ tenant'[req[r].company] = [tenant[req[r].company] EXCEPT !.roles = TRUE, !.owner = TRUE]
         /\ UNCHANGED <<company, job, past>>
<1>0. Requests /\ At(r, "run", "create_owner_user") /\ req[r].op = "run" /\ req[r].step = "create_owner_user" /\ InRun(req[r])
  BY DEF CompanyShape, CreateOwnerUser, At, InRun, Running
<1>c. PICK c : c = req[r].company
  OBVIOUS
<1>1. c \in Company /\ Placed(req[r]) /\ tenant[c] \in Database /\ company[c] \in Entry /\ "create_owner_user" # "reserve"
      /\ req[r] \in Request
  BY <1>0, <1>c, RequestShape DEF CompanyShape
<1>n. PICK n : n = IF tenant[c].owner THEN "index_old" ELSE "index_new"
  OBVIOUS
<1>2. n \in {"index_old", "index_new"} /\ n \in Steps /\ Next1(req[r]) = "create_owner_user"
  BY <1>0, <1>1, <1>n, StepNames DEF Steps, Placed
<1>3. Go(r, n) /\ UNCHANGED <<company, job, past>>
  BY <1>c, <1>n DEF CreateOwnerUser
<1>4. Turned(r) /\ Went(r, n)
  BY <1>0, <1>2, <1>3, GoShape, StepNames
<1>5. PICK d : d = [tenant[c] EXCEPT !.roles = TRUE, !.owner = TRUE]
  OBVIOUS
<1>6. d \in Database
  BY <1>1, <1>5 DEF Database
<1>7. tenant' = [tenant EXCEPT ![c] = d]
  BY <1>5, <1>c DEF CreateOwnerUser
<1>8. Held(c) /\ tenant'[c] = d
  BY <1>1, <1>3, <1>6, <1>7, SetDatabase
<1>9. QED BY <1>0, <1>3, <1>4, <1>5, <1>8, <1>c, <1>n DEF Moved

LEMMA IndexEmailsMoves ==
  ASSUME CompanyShape, NEW r \in Req, IndexEmails(r)
  PROVE  /\ Moved(r) /\ InRun(req[r]) /\ req[r].step \in {"index_old", "index_new"}
         /\ UNCHANGED <<company, job, touched, lowered, mixed>>
         /\ \/ /\ Went(r, "fail_step") /\ UNCHANGED tenant
               /\ drift'[req[r].company] =
                    drift[req[r].company] + IF req[r].step = "index_new" THEN -1 ELSE 0
            \/ /\ Went(r, IF req[r].step = "index_new" THEN "owner_seat" ELSE "finish") /\ UNCHANGED drift
               /\ tenant'[req[r].company] = [tenant[req[r].company] EXCEPT !.indexed = TRUE]
<1>0. Requests /\ req[r].op = "run" /\ req[r].step \in {"index_old", "index_new"} /\ InRun(req[r])
  BY DEF CompanyShape, IndexEmails, InRun
<1>c. PICK c : c = req[r].company
  OBVIOUS
<1>1. c \in Company /\ Placed(req[r]) /\ tenant[c] \in Database /\ drift[c] \in Int
      /\ UNCHANGED <<company, job, touched, lowered, mixed>>
  BY <1>0, <1>c, RequestShape DEF CompanyShape, IndexEmails
<1>2. CASE \E e \in Email : tenant[c].staff[e] > 1
  <2>1. Go(r, "fail_step") /\ UNCHANGED tenant
        /\ drift' = [drift EXCEPT ![c] = IF req[r].step = "index_new" THEN @ - 1 ELSE @]
    BY <1>2, <1>c DEF IndexEmails
  <2>2. Turned(r) /\ Went(r, "fail_step")
    BY <1>0, <2>1, GoShape, StepNames DEF Steps
  <2>3. drift' \in [Company -> Int] /\ drift'[c] = drift[c] + (IF req[r].step = "index_new" THEN -1 ELSE 0)
        /\ \A x \in Company \ {c} : drift'[x] = drift[x]
    BY <1>1, <2>1 DEF CompanyShape
  <2>4. Held(c)
    BY <1>1, <2>1, <2>3 DEF Held, CompanyShape
  <2>5. QED BY <1>0, <1>1, <1>c, <2>1, <2>2, <2>3, <2>4 DEF Moved
<1>3. CASE ~ \E e \in Email : tenant[c].staff[e] > 1
  <2>n. PICK n : n = IF req[r].step = "index_new" THEN "owner_seat" ELSE "finish"
    OBVIOUS
  <2>1. n \in {"owner_seat", "finish"} /\ n \in Steps /\ Next1(req[r]) = "create_owner_user"
    BY <1>0, <1>1, <2>n DEF Steps, Placed
  <2>2. Go(r, n) /\ UNCHANGED drift
    BY <1>3, <1>c, <2>n DEF IndexEmails
  <2>3. Turned(r) /\ Went(r, n)
    BY <1>0, <2>1, <2>2, GoShape, StepNames
  <2>4. PICK d : d = [tenant[c] EXCEPT !.indexed = TRUE]
    OBVIOUS
  <2>5. d \in Database
    BY <1>1, <2>4 DEF Database
  <2>6. tenant' = [tenant EXCEPT ![c] = d]
    BY <1>3, <1>c, <2>4 DEF IndexEmails
  <2>7. tenant'[c] = d /\ tenant' \in [Company -> Database]
    BY <1>1, <2>5, <2>6 DEF CompanyShape
  <2>8. Held(c)
    BY <1>1, <2>2, <2>6, <2>7 DEF Held, CompanyShape
  <2>9. QED BY <1>0, <1>1, <1>c, <2>2, <2>3, <2>4, <2>7, <2>8, <2>n DEF Moved
<1>4. QED BY <1>2, <1>3

LEMMA SetCompanyHeld ==
  ASSUME CompanyShape, NEW c \in Company, NEW d \in Entry, SetCompany(c, d), UNCHANGED <<tenant, job, past>>
  PROVE  Held(c) /\ company'[c] = IF Exists(c) THEN d ELSE company[c]
<1>1. PICK e : e = IF Exists(c) THEN d ELSE company[c]
  OBVIOUS
<1>2. e \in Entry
  BY <1>1 DEF CompanyShape
<1>3. company' = [company EXCEPT ![c] = e]
  BY <1>1 DEF SetCompany
<1>4. QED BY <1>1, <1>2, <1>3, SetEntry

LEMMA CountOwnerMoves ==
  ASSUME CompanyShape, NEW r \in Req, CountOwner(r)
  PROVE  /\ Moved(r) /\ req[r].op = "run" /\ req[r].step = "owner_seat" /\ InRun(req[r])
         /\ company'[req[r].company] = IF Exists(req[r].company)
                                       THEN [company[req[r].company] EXCEPT !.used = @ + 1]
                                       ELSE company[req[r].company]
         /\ Went(r, "finish") /\ UNCHANGED <<tenant, job, past>>
<1>0. Requests /\ At(r, "run", "owner_seat") /\ req[r].op = "run" /\ req[r].step = "owner_seat" /\ InRun(req[r])
  BY DEF CompanyShape, CountOwner, At, InRun, Running
<1>c. PICK c : c = req[r].company
  OBVIOUS
<1>1. c \in Company /\ Placed(req[r]) /\ tenant[c] \in Database /\ company[c] \in Entry /\ req[r] \in Request
  BY <1>0, <1>c, RequestShape DEF CompanyShape
<1>2. PICK d : d = [company[c] EXCEPT !.used = @ + 1]
  OBVIOUS
<1>3. d \in Entry
  BY <1>1, <1>2 DEF Entry, Request, Statuses
<1>4. SetCompany(c, d) /\ UNCHANGED <<tenant, job, past>> /\ Go(r, "finish")
  BY <1>2, <1>c DEF CountOwner
<1>5. Held(c) /\ company'[c] = IF Exists(c) THEN d ELSE company[c]
  BY <1>1, <1>3, <1>4, SetCompanyHeld
<1>6. Turned(r) /\ Went(r, "finish")
  BY <1>0, <1>4, GoShape, StepNames DEF Steps
<1>7. QED BY <1>0, <1>2, <1>4, <1>5, <1>6, <1>c DEF Moved

LEMMA FinalizeMoves ==
  ASSUME CompanyShape, NEW r \in Req, Finalize(r)
  PROVE  /\ Moved(r) /\ req[r].op = "run" /\ req[r].step = "finalize" /\ InRun(req[r])
         /\ company'[req[r].company] = IF Exists(req[r].company)
                                       THEN [company[req[r].company] EXCEPT !.status = "active"]
                                       ELSE company[req[r].company]
         /\ Went(r, "close_job") /\ UNCHANGED <<tenant, job, past>>
<1>0. Requests /\ At(r, "run", "finalize") /\ req[r].op = "run" /\ req[r].step = "finalize" /\ InRun(req[r])
  BY DEF CompanyShape, Finalize, At, InRun, Running
<1>c. PICK c : c = req[r].company
  OBVIOUS
<1>1. c \in Company /\ Placed(req[r]) /\ tenant[c] \in Database /\ company[c] \in Entry /\ req[r] \in Request
  BY <1>0, <1>c, RequestShape DEF CompanyShape
<1>2. PICK d : d = [company[c] EXCEPT !.status = "active"]
  OBVIOUS
<1>3. d \in Entry
  BY <1>1, <1>2 DEF Entry, Request, Statuses
<1>4. SetCompany(c, d) /\ UNCHANGED <<tenant, job, past>> /\ Go(r, "close_job")
  BY <1>2, <1>c DEF Finalize
<1>5. Held(c) /\ company'[c] = IF Exists(c) THEN d ELSE company[c]
  BY <1>1, <1>3, <1>4, SetCompanyHeld
<1>6. Turned(r) /\ Went(r, "close_job")
  <2>1. Next1(req[r]) = "finalize"
    BY <1>0, <1>1, StepNames DEF Placed
  <2>2. QED BY <1>0, <1>4, <2>1, GoShape, StepNames DEF Steps
<1>7. QED BY <1>0, <1>2, <1>4, <1>5, <1>6, <1>c DEF Moved

LEMMA FailCompanyMoves ==
  ASSUME CompanyShape, NEW r \in Req, FailCompany(r)
  PROVE  /\ Moved(r) /\ req[r].op = "run" /\ req[r].step = "fail_company" /\ InRun(req[r])
         /\ company'[req[r].company] = IF Exists(req[r].company)
                                       THEN [company[req[r].company] EXCEPT !.status = "failed"]
                                       ELSE company[req[r].company]
         /\ req'[r] = Idle /\ UNCHANGED <<tenant, job, past>>
<1>0. Requests /\ At(r, "run", "fail_company") /\ req[r].op = "run" /\ req[r].step = "fail_company" /\ InRun(req[r])
  BY DEF CompanyShape, FailCompany, At, InRun, Running
<1>c. PICK c : c = req[r].company
  OBVIOUS
<1>1. c \in Company /\ Placed(req[r]) /\ tenant[c] \in Database /\ company[c] \in Entry /\ req[r] \in Request
  BY <1>0, <1>c, RequestShape DEF CompanyShape
<1>2. PICK d : d = [company[c] EXCEPT !.status = "failed"]
  OBVIOUS
<1>3. d \in Entry
  BY <1>1, <1>2 DEF Entry, Request, Statuses
<1>4. SetCompany(c, d) /\ UNCHANGED <<tenant, job, past>> /\ Done(r)
  BY <1>2, <1>c DEF FailCompany
<1>5. Held(c) /\ company'[c] = IF Exists(c) THEN d ELSE company[c]
  BY <1>1, <1>3, <1>4, SetCompanyHeld
<1>6. Turned(r) /\ req'[r] = Idle
  BY <1>0, <1>4, DoneShape
<1>7. QED BY <1>0, <1>2, <1>4, <1>5, <1>6, <1>c DEF Moved

LEMMA UpdateWriteMoves ==
  ASSUME CompanyShape, NEW r \in Req, UpdateWrite(r)
  PROVE  /\ Moved(r) /\ req[r].op = "update" /\ req[r].step = "write"
         /\ company'[req[r].company] = IF Exists(req[r].company)
                                       THEN [company[req[r].company] EXCEPT !.enabled = req[r].mods]
                                       ELSE company[req[r].company]
         /\ req'[r] = Idle /\ UNCHANGED <<tenant, job, past>>
<1>0. Requests /\ At(r, "update", "write") /\ req[r].op = "update" /\ req[r].step = "write"
  BY DEF CompanyShape, UpdateWrite, At, InRun, Running
<1>c. PICK c : c = req[r].company
  OBVIOUS
<1>1. c \in Company /\ Placed(req[r]) /\ tenant[c] \in Database /\ company[c] \in Entry /\ req[r] \in Request
  BY <1>0, <1>c, RequestShape DEF CompanyShape
<1>2. PICK d : d = [company[c] EXCEPT !.enabled = req[r].mods]
  OBVIOUS
<1>3. d \in Entry
  BY <1>1, <1>2 DEF Entry, Request, Statuses
<1>4. SetCompany(c, d) /\ UNCHANGED <<tenant, job, past>> /\ Done(r)
  BY <1>2, <1>c DEF UpdateWrite
<1>5. Held(c) /\ company'[c] = IF Exists(c) THEN d ELSE company[c]
  BY <1>1, <1>3, <1>4, SetCompanyHeld
<1>6. Turned(r) /\ req'[r] = Idle
  BY <1>0, <1>4, DoneShape
<1>7. QED BY <1>0, <1>2, <1>4, <1>5, <1>6, <1>c DEF Moved

LEMMA ReleaseSeatMoves ==
  ASSUME CompanyShape, NEW r \in Req, ReleaseSeat(r)
  PROVE  /\ Moved(r) /\ req[r].op = "employee" /\ req[r].step = "release"
         /\ company'[req[r].company] = IF Exists(req[r].company)
                                       THEN [company[req[r].company] EXCEPT !.used = @ - 1]
                                       ELSE company[req[r].company]
         /\ req'[r] = Idle /\ UNCHANGED <<tenant, job, past>>
<1>0. Requests /\ At(r, "employee", "release") /\ req[r].op = "employee" /\ req[r].step = "release"
  BY DEF CompanyShape, ReleaseSeat, At, InRun, Running
<1>c. PICK c : c = req[r].company
  OBVIOUS
<1>1. c \in Company /\ Placed(req[r]) /\ tenant[c] \in Database /\ company[c] \in Entry /\ req[r] \in Request
  BY <1>0, <1>c, RequestShape DEF CompanyShape
<1>2. PICK d : d = [company[c] EXCEPT !.used = @ - 1]
  OBVIOUS
<1>3. d \in Entry
  BY <1>1, <1>2 DEF Entry, Request, Statuses
<1>4. SetCompany(c, d) /\ UNCHANGED <<tenant, job, past>> /\ Done(r)
  BY <1>2, <1>c DEF ReleaseSeat
<1>5. Held(c) /\ company'[c] = IF Exists(c) THEN d ELSE company[c]
  BY <1>1, <1>3, <1>4, SetCompanyHeld
<1>6. Turned(r) /\ req'[r] = Idle
  BY <1>0, <1>4, DoneShape
<1>7. QED BY <1>0, <1>2, <1>4, <1>5, <1>6, <1>c DEF Moved

LEMMA FinalizeTeardownMoves ==
  ASSUME CompanyShape, NEW r \in Req, FinalizeTeardown(r)
  PROVE  /\ Moved(r) /\ req[r].op = "teardown" /\ req[r].step = "finalize"
         /\ company'[req[r].company] = IF Exists(req[r].company)
                                       THEN [company[req[r].company] EXCEPT !.status = IF req[r].hard THEN "removed" ELSE "suspended"]
                                       ELSE company[req[r].company]
         /\ req'[r] = Idle /\ UNCHANGED <<tenant, job, past>>
<1>0. Requests /\ At(r, "teardown", "finalize") /\ req[r].op = "teardown" /\ req[r].step = "finalize"
  BY DEF CompanyShape, FinalizeTeardown, At, InRun, Running
<1>c. PICK c : c = req[r].company
  OBVIOUS
<1>1. c \in Company /\ Placed(req[r]) /\ tenant[c] \in Database /\ company[c] \in Entry /\ req[r] \in Request
  BY <1>0, <1>c, RequestShape DEF CompanyShape
<1>2. PICK d : d = [company[c] EXCEPT !.status = IF req[r].hard THEN "removed" ELSE "suspended"]
  OBVIOUS
<1>3. d \in Entry
  BY <1>1, <1>2 DEF Entry, Request, Statuses
<1>4. SetCompany(c, d) /\ UNCHANGED <<tenant, job, past>> /\ Done(r)
  BY <1>2, <1>c DEF FinalizeTeardown
<1>5. Held(c) /\ company'[c] = IF Exists(c) THEN d ELSE company[c]
  BY <1>1, <1>3, <1>4, SetCompanyHeld
<1>6. Turned(r) /\ req'[r] = Idle
  BY <1>0, <1>4, DoneShape
<1>7. QED BY <1>0, <1>2, <1>4, <1>5, <1>6, <1>c DEF Moved

LEMMA CloseJobMoves ==
  ASSUME CompanyShape, NEW r \in Req, CloseJob(r)
  PROVE  /\ Moved(r) /\ req[r].op = "run" /\ req[r].step = "close_job" /\ InRun(req[r])
         /\ job'[req[r].company].steps = job[req[r].company].steps
         /\ Went(r, "finish") /\ UNCHANGED <<company, tenant, past>>
<1>0. Requests /\ At(r, "run", "close_job") /\ req[r].op = "run" /\ req[r].step = "close_job" /\ InRun(req[r])
  BY DEF CompanyShape, CloseJob, At, InRun, Running
<1>c. PICK c : c = req[r].company
  OBVIOUS
<1>1. c \in Company /\ Placed(req[r]) /\ tenant[c] \in Database /\ company[c] \in Entry /\ req[r] \in Request
  BY <1>0, <1>c, RequestShape DEF CompanyShape
<1>2. job' = [job EXCEPT ![c].state = "done"] /\ Go(r, "finish") /\ UNCHANGED <<company, tenant, past>>
  BY <1>c DEF CloseJob
<1>3. Held(c) /\ job'[c].steps = job[c].steps
  BY <1>1, <1>2, SetJobState
<1>4. Turned(r) /\ Went(r, "finish")
  BY <1>0, <1>2, GoShape, StepNames DEF Steps
<1>5. QED BY <1>0, <1>2, <1>3, <1>4, <1>c DEF Moved

LEMMA FailJobMoves ==
  ASSUME CompanyShape, NEW r \in Req, FailJob(r)
  PROVE  /\ Moved(r) /\ req[r].op = "run" /\ req[r].step = "fail_job" /\ InRun(req[r])
         /\ job'[req[r].company].steps = job[req[r].company].steps
         /\ Went(r, "fail_company") /\ UNCHANGED <<company, tenant, past>>
<1>0. Requests /\ At(r, "run", "fail_job") /\ req[r].op = "run" /\ req[r].step = "fail_job" /\ InRun(req[r])
  BY DEF CompanyShape, FailJob, At, InRun, Running
<1>c. PICK c : c = req[r].company
  OBVIOUS
<1>1. c \in Company /\ Placed(req[r]) /\ tenant[c] \in Database /\ company[c] \in Entry /\ req[r] \in Request
  BY <1>0, <1>c, RequestShape DEF CompanyShape
<1>2. job' = [job EXCEPT ![c].state = "failed"] /\ Go(r, "fail_company") /\ UNCHANGED <<company, tenant, past>>
  BY <1>c DEF FailJob
<1>3. Held(c) /\ job'[c].steps = job[c].steps
  BY <1>1, <1>2, SetJobState
<1>4. Turned(r) /\ Went(r, "fail_company")
  BY <1>0, <1>2, GoShape, StepNames DEF Steps
<1>5. QED BY <1>0, <1>2, <1>3, <1>4, <1>c DEF Moved

LEMMA FailStepMoves ==
  ASSUME CompanyShape, NEW r \in Req, FailStep(r)
  PROVE  /\ Moved(r) /\ req[r].op = "run" /\ req[r].step = "fail_step" /\ InRun(req[r])
         /\ Went(r, "fail_job") /\ UNCHANGED <<company, tenant, past>>
         /\ \A s \in StepName : job'[req[r].company].steps[s] = "done" => job[req[r].company].steps[s] = "done"
<1>0. Requests /\ At(r, "run", "fail_step") /\ req[r].op = "run" /\ req[r].step = "fail_step" /\ InRun(req[r])
  BY DEF CompanyShape, FailStep, At, InRun, Running
<1>c. PICK c : c = req[r].company
  OBVIOUS
<1>1. c \in Company /\ Placed(req[r]) /\ tenant[c] \in Database /\ company[c] \in Entry /\ req[r] \in Request
  BY <1>0, <1>c, RequestShape DEF CompanyShape
<1>n. PICK n : n = Current(r)
  OBVIOUS
<1>2. n \in StepName
  BY <1>0, <1>n, RunShape
<1>3. SetStep(r, "failed") /\ Go(r, "fail_job") /\ UNCHANGED <<company, tenant, past>>
  BY DEF FailStep
<1>4. Held(c) /\ \A s \in StepName : job'[c].steps[s] = IF s = n THEN "failed" ELSE job[c].steps[s]
  BY <1>1, <1>2, <1>3, <1>c, <1>n, SetJobStep
<1>5. Turned(r) /\ Went(r, "fail_job")
  BY <1>0, <1>3, GoShape, StepNames DEF Steps
<1>6. QED BY <1>0, <1>3, <1>4, <1>5, <1>c DEF Moved

LEMMA LeakInt == ASSUME NEW r PROVE Leak(r) \in Int
BY DEF Leak

LEMMA StepRaisesMoves ==
  ASSUME CompanyShape, NEW r \in Req, StepRaises(r)
  PROVE  /\ Moved(r) /\ InRun(req[r]) /\ req[r].op = "run" /\ Went(r, "fail_step")
         /\ UNCHANGED <<company, tenant, job, touched, lowered, mixed>>
         /\ drift'[req[r].company] = drift[req[r].company] + Leak(r)
<1>0. Requests /\ req[r].op = "run" /\ req[r].step \notin {"reserve", "create_job"} /\ InRun(req[r])
  BY StepNames DEF CompanyShape, StepRaises, InStep, InRun
<1>c. PICK c : c = req[r].company
  OBVIOUS
<1>1. c \in Company /\ drift[c] \in Int
  BY <1>0, <1>c, RequestShape DEF CompanyShape
<1>2. /\ drift' = [drift EXCEPT ![c] = @ + Leak(r)] /\ Go(r, "fail_step")
      /\ UNCHANGED <<company, tenant, job, touched, lowered, mixed>>
  BY <1>c DEF StepRaises
<1>l. PICK l : l = Leak(r)
  OBVIOUS
<1>3. drift' \in [Company -> Int] /\ drift'[c] = drift[c] + l /\ \A x \in Company \ {c} : drift'[x] = drift[x]
  BY <1>1, <1>2, <1>l, LeakInt DEF CompanyShape
<1>4. Held(c)
  BY <1>2, <1>3 DEF Held, CompanyShape
<1>5. Turned(r) /\ Went(r, "fail_step")
  BY <1>0, <1>2, GoShape, StepNames DEF Steps
<1>6. QED BY <1>0, <1>2, <1>3, <1>4, <1>5, <1>c, <1>l DEF Moved

LEMMA CrashMoves ==
  ASSUME CompanyShape, NEW r \in Req, Crash(r)
  PROVE  /\ Moved(r) /\ req[r].op # "idle" /\ req'[r] = Idle
         /\ UNCHANGED <<company, tenant, job, touched, lowered, mixed>>
         /\ drift'[req[r].company] = drift[req[r].company] + Leak(r)
<1>0. Requests /\ req[r].op # "idle"
  BY DEF CompanyShape, Crash
<1>c. PICK c : c = req[r].company
  OBVIOUS
<1>1. c \in Company /\ drift[c] \in Int
  BY <1>0, <1>c, RequestShape DEF CompanyShape
<1>2. /\ drift' = [drift EXCEPT ![c] = @ + Leak(r)] /\ Done(r)
      /\ UNCHANGED <<company, tenant, job, touched, lowered, mixed>>
  BY <1>c DEF Crash
<1>l. PICK l : l = Leak(r)
  OBVIOUS
<1>3. drift' \in [Company -> Int] /\ drift'[c] = drift[c] + l /\ \A x \in Company \ {c} : drift'[x] = drift[x]
  BY <1>1, <1>2, <1>l, LeakInt DEF CompanyShape
<1>4. Held(c)
  BY <1>2, <1>3 DEF Held, CompanyShape
<1>5. Turned(r) /\ req'[r] = Idle
  BY <1>0, <1>2, DoneShape
<1>6. QED BY <1>0, <1>2, <1>3, <1>4, <1>5, <1>c, <1>l DEF Moved

LEMMA ReserveMoves ==
  ASSUME CompanyShape, NEW r \in Req, Reserve(r)
  PROVE  /\ Moved(r) /\ req[r].op = "run" /\ req[r].step = "reserve" /\ UNCHANGED <<tenant, past>>
         /\ \/ /\ Free(req[r].company) /\ Went(r, "create_job") /\ job'[req[r].company] = NoJob
               /\ company'[req[r].company] = [status |-> "provisioning", limit |-> req[r].limit,
                                             used |-> 0, enabled |-> req[r].mods]
            \/ req'[r] = Idle /\ UNCHANGED <<company, job>>
<1>0. Requests /\ At(r, "run", "reserve") /\ req[r].op = "run" /\ req[r].step = "reserve"
  BY DEF CompanyShape, Reserve, At, InRun, Running
<1>c. PICK c : c = req[r].company
  OBVIOUS
<1>1. c \in Company /\ Placed(req[r]) /\ tenant[c] \in Database /\ company[c] \in Entry /\ req[r] \in Request
  BY <1>0, <1>c, RequestShape DEF CompanyShape
<1>2. CASE Free(c)
  <2>1. PICK d : d = [status |-> "provisioning", limit |-> req[r].limit, used |-> 0, enabled |-> req[r].mods]
    OBVIOUS
  <2>2. d \in Entry
    BY <1>1, <2>1 DEF Entry, Request, Statuses
  <2>3. /\ company' = [company EXCEPT ![c] = d] /\ job' = [job EXCEPT ![c] = NoJob]
        /\ Go(r, "create_job") /\ UNCHANGED <<tenant, past>>
    BY <1>2, <1>c, <2>1 DEF Reserve
  <2>7. /\ company' \in [Company -> Entry] /\ company'[c] = d
        /\ \A x \in Company \ {c} : company'[x] = company[x]
    BY <1>1, <2>2, <2>3 DEF CompanyShape
  <2>8. job' \in [Company -> Jobs] /\ job'[c] = NoJob /\ \A x \in Company \ {c} : job'[x] = job[x]
    <3>1. NoJob \in Jobs
      BY DEF NoJob, Jobs
    <3>2. QED BY <1>1, <2>3, <3>1 DEF CompanyShape
  <2>4. Held(c) /\ company'[c] = d
    BY <1>1, <2>3, <2>7, <2>8 DEF Held, CompanyShape, past
  <2>5. Turned(r) /\ Went(r, "create_job")
    BY <1>0, <2>3, GoShape, StepNames DEF Steps
  <2>6. QED BY <1>0, <1>2, <1>c, <2>1, <2>3, <2>4, <2>5, <2>8 DEF Moved
<1>3. CASE ~ Free(c)
  <2>1. Done(r) /\ UNCHANGED <<company, tenant, job, past>>
    BY <1>3, <1>c DEF Reserve
  <2>2. Turned(r) /\ req'[r] = Idle /\ Held(c)
    BY <1>0, <2>1, DoneShape, HeldStill
  <2>3. QED BY <1>0, <1>c, <2>1, <2>2 DEF Moved
<1>4. QED BY <1>2, <1>3

LEMMA UpdateSeedMoves ==
  ASSUME CompanyShape, NEW r \in Req, UpdateSeed(r)
  PROVE  /\ Moved(r) /\ req[r].op = "update" /\ req[r].step = "seed" /\ UNCHANGED <<company, job, past>>
         /\ \E m \in req[r].todo :
              /\ req'[r].op = "update" /\ req'[r].company = req[r].company /\ req'[r].mods = req[r].mods
              /\ req'[r].todo = req[r].todo \ {m}
              /\ tenant'[req[r].company] = [tenant[req[r].company] EXCEPT !.seeded = @ \cup {m},
                                                                        !.roles = @ \/ m = "settings"]
<1>0. Requests /\ At(r, "update", "seed") /\ req[r].op = "update" /\ req[r].step = "seed"
  BY DEF CompanyShape, UpdateSeed, At, InRun, Running
<1>c. PICK c : c = req[r].company
  OBVIOUS
<1>1. c \in Company /\ Placed(req[r]) /\ tenant[c] \in Database /\ company[c] \in Entry /\ req[r] \in Request
  BY <1>0, <1>c, RequestShape DEF CompanyShape
<1>m. PICK m : m = NextSeed(req[r].todo)
  OBVIOUS
<1>2. req[r].todo \in SUBSET Modules /\ req[r].todo # {}
  BY <1>0, <1>1 DEF Placed
<1>3. m \in req[r].todo /\ m \in Modules
  BY <1>2, <1>m, ModulesInOrder
<1>n. PICK n : n = IF req[r].todo \ {m} = {} THEN "roles" ELSE "seed"
  OBVIOUS
<1> DEFINE q == [req[r] EXCEPT !.todo = req[r].todo \ {m}, !.step = n]
<1>4. q \in Request
  BY <1>1, <1>n DEF Request, Steps
<1>5. /\ q.op = "update" /\ q.step = n /\ q.company = c /\ q.todo = req[r].todo \ {m}
      /\ q.mods = req[r].mods
  BY <1>0, <1>1, <1>c DEF Request
<1>6. req' = [req EXCEPT ![r] = q]
  BY <1>m, <1>n DEF UpdateSeed, Become
<1> HIDE DEF q
<1>7. Placed(q)
  BY <1>1, <1>2, <1>5, <1>n DEF Placed, InRun
<1>8. Turned(r) /\ req'[r] = q
  BY <1>0, <1>c, <1>4, <1>5, <1>6, <1>7, TurnShape DEF Requests
<1>9. PICK d : d = [tenant[c] EXCEPT !.seeded = @ \cup {m}, !.roles = @ \/ m = "settings"]
  OBVIOUS
<1>10. d \in Database
  BY <1>1, <1>3, <1>9 DEF Database
<1>11. tenant' = [tenant EXCEPT ![c] = d] /\ UNCHANGED <<company, job, past>>
  BY <1>c, <1>9, <1>m DEF UpdateSeed, Seed
<1>12. Held(c) /\ tenant'[c] = d
  BY <1>1, <1>10, <1>11, SetDatabase
<1>13. Moved(r)
  BY <1>c, <1>8, <1>12 DEF Moved
<1>14. /\ req'[r].op = "update" /\ req'[r].company = req[r].company /\ req'[r].mods = req[r].mods
       /\ req'[r].todo = req[r].todo \ {m}
  BY <1>0, <1>c, <1>5, <1>8
<1>15. tenant'[req[r].company] = [tenant[req[r].company] EXCEPT !.seeded = @ \cup {m},
                                                                  !.roles = @ \/ m = "settings"]
  BY <1>c, <1>9, <1>12
<1>16. QED BY <1>0, <1>3, <1>11, <1>13, <1>14, <1>15

LEMMA UpdateRolesMoves ==
  ASSUME CompanyShape, NEW r \in Req, UpdateRoles(r)
  PROVE  /\ Moved(r) /\ req[r].op = "update" /\ req[r].step = "roles" /\ Went(r, "write")
         /\ tenant'[req[r].company] = [tenant[req[r].company] EXCEPT !.roles = TRUE] /\ UNCHANGED <<company, job, past>>
<1>0. Requests /\ At(r, "update", "roles") /\ req[r].op = "update" /\ req[r].step = "roles"
  BY DEF CompanyShape, UpdateRoles, At, InRun, Running
<1>c. PICK c : c = req[r].company
  OBVIOUS
<1>1. c \in Company /\ Placed(req[r]) /\ tenant[c] \in Database /\ company[c] \in Entry /\ req[r] \in Request
  BY <1>0, <1>c, RequestShape DEF CompanyShape
<1>2. PICK d : d = [tenant[c] EXCEPT !.roles = TRUE]
  OBVIOUS
<1>3. d \in Database
  BY <1>1, <1>2 DEF Database, Empty
<1>4. tenant' = [tenant EXCEPT ![c] = d] /\ UNCHANGED <<company, job, past>> /\ Go(r, "write")
  BY <1>2, <1>c DEF UpdateRoles
<1>5. Held(c) /\ tenant'[c] = d
  BY <1>1, <1>3, <1>4, SetDatabase
<1>6. Turned(r) /\ Went(r, "write")
  BY <1>0, <1>1, <1>4, GoShape, StepNames DEF Steps, Placed
<1>7. QED BY <1>0, <1>2, <1>4, <1>5, <1>6, <1>c DEF Moved

LEMMA DropDbMoves ==
  ASSUME CompanyShape, NEW r \in Req, DropDb(r)
  PROVE  /\ Moved(r) /\ req[r].op = "teardown" /\ req[r].step = "drop_db" /\ Went(r, "finalize")
         /\ tenant'[req[r].company] = Empty /\ UNCHANGED <<company, job, past>>
<1>0. Requests /\ At(r, "teardown", "drop_db") /\ req[r].op = "teardown" /\ req[r].step = "drop_db"
  BY DEF CompanyShape, DropDb, At, InRun, Running
<1>c. PICK c : c = req[r].company
  OBVIOUS
<1>1. c \in Company /\ Placed(req[r]) /\ tenant[c] \in Database /\ company[c] \in Entry /\ req[r] \in Request
  BY <1>0, <1>c, RequestShape DEF CompanyShape
<1>2. PICK d : d = Empty
  OBVIOUS
<1>3. d \in Database
  BY <1>1, <1>2 DEF Database, Empty
<1>4. tenant' = [tenant EXCEPT ![c] = d] /\ UNCHANGED <<company, job, past>> /\ Go(r, "finalize")
  BY <1>2, <1>c DEF DropDb
<1>5. Held(c) /\ tenant'[c] = d
  BY <1>1, <1>3, <1>4, SetDatabase
<1>6. Turned(r) /\ Went(r, "finalize")
  BY <1>0, <1>1, <1>4, GoShape, StepNames DEF Steps, Placed
<1>7. QED BY <1>0, <1>2, <1>4, <1>5, <1>6, <1>c DEF Moved

LEMMA SetSeatLimitWriteMoves ==
  ASSUME CompanyShape, NEW r \in Req, SetSeatLimitWrite(r)
  PROVE  /\ Moved(r) /\ req[r].op = "limit" /\ req[r].step = "write" /\ req'[r] = Idle
         /\ UNCHANGED <<tenant, job, touched, drift, mixed>>
         /\ company'[req[r].company] = IF Exists(req[r].company)
                                       THEN [company[req[r].company] EXCEPT !.limit = req[r].limit]
                                       ELSE company[req[r].company]
         /\ req[r].limit < company[req[r].company].used => req[r].company \in lowered'
<1>0. Requests /\ At(r, "limit", "write") /\ req[r].op = "limit" /\ req[r].step = "write"
  BY DEF CompanyShape, SetSeatLimitWrite, At, InRun, Running
<1>c. PICK c : c = req[r].company
  OBVIOUS
<1>1. c \in Company /\ Placed(req[r]) /\ tenant[c] \in Database /\ company[c] \in Entry /\ req[r] \in Request
  BY <1>0, <1>c, RequestShape DEF CompanyShape
<1>2. PICK d : d = IF Exists(c) THEN [company[c] EXCEPT !.limit = req[r].limit] ELSE company[c]
  OBVIOUS
<1>3. d \in Entry
  BY <1>1, <1>2 DEF Entry, Request
<1>4. company' = [company EXCEPT ![c] = d] /\ UNCHANGED <<tenant, job, touched, drift, mixed>> /\ Done(r)
  BY <1>2, <1>c DEF SetSeatLimitWrite, SetCompany
<1>5. lowered \subseteq lowered' /\ lowered' \subseteq lowered \cup {c}
      /\ (req[r].limit < company[c].used => c \in lowered')
  BY <1>c DEF SetSeatLimitWrite
<1>6. company'[c] = d /\ company' \in [Company -> Entry] /\ \A x \in Company \ {c} : company'[x] = company[x]
  BY <1>1, <1>3, <1>4 DEF CompanyShape
<1>7. Held(c)
  BY <1>4, <1>5, <1>6 DEF CompanyShape, Held
<1>8. Turned(r) /\ req'[r] = Idle
  BY <1>0, <1>4, DoneShape
<1>9. QED BY <1>0, <1>2, <1>4, <1>5, <1>6, <1>7, <1>8, <1>c DEF Moved

LEMMA ClaimSeatMoves ==
  ASSUME CompanyShape, NEW r \in Req, ClaimSeat(r)
  PROVE  /\ Moved(r) /\ req[r].op = "employee" /\ req[r].step = "claim" /\ UNCHANGED <<tenant, job, past>>
         /\ \/ /\ company[req[r].company].used < company[req[r].company].limit /\ Went(r, "insert")
               /\ company'[req[r].company] = [company[req[r].company] EXCEPT !.used = @ + 1]
            \/ req'[r] = Idle /\ UNCHANGED company
<1>0. Requests /\ At(r, "employee", "claim") /\ req[r].op = "employee" /\ req[r].step = "claim"
  BY DEF CompanyShape, ClaimSeat, At, InRun, Running
<1>c. PICK c : c = req[r].company
  OBVIOUS
<1>1. c \in Company /\ Placed(req[r]) /\ tenant[c] \in Database /\ company[c] \in Entry /\ req[r] \in Request
  BY <1>0, <1>c, RequestShape DEF CompanyShape
<1>2. CASE Exists(c) /\ company[c].used < company[c].limit
  <2>1. PICK d : d = [company[c] EXCEPT !.used = @ + 1]
    OBVIOUS
  <2>2. d \in Entry
    BY <1>1, <2>1 DEF Entry
  <2>3. Go(r, "insert") /\ UNCHANGED <<tenant, job, past>>
    BY <1>2, <1>c DEF ClaimSeat
  <2>u. company' = [company EXCEPT ![c] = d]
    BY <1>2, <1>c, <2>1 DEF ClaimSeat
  <2>4. Held(c) /\ company'[c] = d
    BY <1>1, <2>2, <2>3, <2>u, SetEntry
  <2>5. Turned(r) /\ Went(r, "insert")
    BY <1>0, <2>3, GoShape, StepNames DEF Steps
  <2>6. QED BY <1>0, <1>2, <1>c, <2>1, <2>3, <2>4, <2>5 DEF Moved
<1>3. CASE ~ (Exists(c) /\ company[c].used < company[c].limit)
  <2>1. Done(r) /\ UNCHANGED <<company, tenant, job, past>>
    BY <1>3, <1>c DEF ClaimSeat
  <2>2. Turned(r) /\ req'[r] = Idle /\ Held(c)
    BY <1>0, <2>1, DoneShape, HeldStill
  <2>3. QED BY <1>0, <1>c, <2>1, <2>2 DEF Moved
<1>4. QED BY <1>2, <1>3

LEMMA InsertEmployeeMoves ==
  ASSUME CompanyShape, NEW r \in Req, InsertEmployee(r)
  PROVE  /\ Moved(r) /\ req[r].op = "employee" /\ req[r].step = "insert" /\ UNCHANGED <<company, job, past>>
         /\ \/ Went(r, "release") /\ UNCHANGED tenant
            \/ /\ req'[r] = Idle /\ req[r].email \in Email
               /\ tenant'[req[r].company].staff = [tenant[req[r].company].staff EXCEPT ![req[r].email] = @ + 1]
               /\ tenant'[req[r].company] = [tenant[req[r].company] EXCEPT !.staff = tenant'[req[r].company].staff]
<1>0. Requests /\ At(r, "employee", "insert") /\ req[r].op = "employee" /\ req[r].step = "insert"
  BY DEF CompanyShape, InsertEmployee, At, InRun, Running
<1>c. PICK c : c = req[r].company
  OBVIOUS
<1>1. c \in Company /\ Placed(req[r]) /\ tenant[c] \in Database /\ company[c] \in Entry /\ req[r] \in Request
  BY <1>0, <1>c, RequestShape DEF CompanyShape
<1>e. PICK e : e = req[r].email
  OBVIOUS
<1>2. CASE tenant[c].indexed /\ tenant[c].staff[e] > 0
  <2>1. Go(r, "release") /\ UNCHANGED <<company, tenant, job, past>>
    BY <1>2, <1>c, <1>e DEF InsertEmployee
  <2>2. Turned(r) /\ Went(r, "release") /\ Held(c)
    BY <1>0, <2>1, GoShape, HeldStill DEF Steps
  <2>3. QED BY <1>0, <1>c, <2>1, <2>2 DEF Moved
<1>3. CASE ~ (tenant[c].indexed /\ tenant[c].staff[e] > 0)
  <2>0. e \in Email
    BY <1>0, <1>1, <1>e DEF Placed
  <2> DEFINE w == [tenant[c].staff EXCEPT ![e] = @ + 1]
             d == [tenant[c] EXCEPT !.staff = w]
  <2>1. w \in [Email -> Nat]
    BY <1>1, <2>0 DEF Database
  <2>2. d \in Database
    <3> HIDE DEF w
    <3>1. QED BY <1>1, <2>1 DEF Database
  <2>3. Done(r) /\ UNCHANGED <<company, job, past>>
    BY <1>3, <1>c, <1>e DEF InsertEmployee
  <2>i. tenant' = [tenant EXCEPT ![req[r].company].staff[req[r].email] = @ + 1]
    BY <1>3, <1>c, <1>e DEF InsertEmployee
  <2>4. tenant' = [tenant EXCEPT ![c] = d]
    BY <2>i, <1>c, <1>e
  <2>p. PICK D : D = d
    OBVIOUS
  <2> HIDE DEF d
  <2>5. Held(c) /\ tenant'[c] = d
    BY <1>1, <2>2, <2>3, <2>4, <2>p, SetDatabase
  <2>6. Turned(r) /\ req'[r] = Idle
    BY <1>0, <2>3, DoneShape
  <2>7. Moved(r)
    BY <1>c, <2>5, <2>6 DEF Moved
  <2>8. tenant'[c].staff = [tenant[c].staff EXCEPT ![e] = @ + 1] /\ tenant'[c] = [tenant[c] EXCEPT !.staff = tenant'[c].staff]
    <3>1. d = [tenant[c] EXCEPT !.staff = w]
      BY DEF d
    <3>2. w = [tenant[c].staff EXCEPT ![e] = @ + 1]
      OBVIOUS
    <3> HIDE DEF w
    <3>3. tenant'[c].staff = w /\ tenant'[c] = [tenant[c] EXCEPT !.staff = w]
      BY <1>1, <2>5, <3>1 DEF Database
    <3>4. QED BY <3>2, <3>3
  <2>9. QED BY <1>0, <1>c, <1>e, <2>0, <2>3, <2>6, <2>7, <2>8
<1>4. QED BY <1>2, <1>3

LEMMA InsertRaisesMoves ==
  ASSUME CompanyShape, NEW r \in Req, InsertRaises(r)
  PROVE  /\ Moved(r) /\ req[r].op = "employee" /\ req[r].step = "insert" /\ UNCHANGED <<company, tenant, job, past>>
         /\ Went(r, "release")
<1>0. Requests /\ At(r, "employee", "insert") /\ req[r].op = "employee" /\ req[r].step = "insert"
  BY DEF CompanyShape, InsertRaises, At, InRun, Running
<1>c. PICK c : c = req[r].company
  OBVIOUS
<1>1. c \in Company /\ Placed(req[r]) /\ tenant[c] \in Database /\ company[c] \in Entry /\ req[r] \in Request
  BY <1>0, <1>c, RequestShape DEF CompanyShape
<1>2. Go(r, "release") /\ UNCHANGED <<company, tenant, job, past>>
  BY DEF InsertRaises
<1>3. Turned(r) /\ Went(r, "release") /\ Held(c)
  BY <1>0, <1>2, GoShape, HeldStill DEF Steps
<1>4. QED BY <1>0, <1>c, <1>2, <1>3 DEF Moved

-----------------------------------------------------------------------------
(* The request that is placed is about one company, which exists unless it  *)
(* is being onboarded.                                                      *)
Fresh(r, c) ==
  /\ Requests' /\ \A s \in Req \ {r} : req'[s] = req[s]
  /\ req[r].op = "idle" /\ req'[r].op # "idle" /\ req'[r].company = c
  /\ Held(c)

LEMMA BeginShape ==
  ASSUME Requests, NEW r \in Req, NEW q \in Request, Placed(q), req[r].op = "idle", req' = [req EXCEPT ![r] = q]
  PROVE  Requests' /\ req'[r] = q /\ \A s \in Req \ {r} : req'[s] = req[s]
<1>1. req' \in [Req -> Request] /\ req'[r] = q /\ \A s \in Req \ {r} : req'[s] = req[s]
  BY DEF Requests
<1>2. \A s \in Req : Placed(req'[s])
  BY <1>1 DEF Requests
<1>3. QED BY <1>1, <1>2 DEF Requests

LEMMA OnboardCompanyMoves ==
  ASSUME CompanyShape, NEW r \in Req, NEW c \in Company, NEW n \in Limits, NEW mods \in Plans, OnboardCompany(r, c, n, mods)
  PROVE  /\ Fresh(r, c) /\ UNCHANGED <<company, tenant, job, drift, lowered>>
         /\ req'[r].op = "run" /\ req'[r].step = "reserve" /\ req'[r].limit = n /\ req'[r].mods = mods
         /\ UNCHANGED <<touched, mixed>>
<1> DEFINE q == [Idle EXCEPT !.op = "run", !.step = "reserve", !.company = c, !.limit = n, !.mods = mods]
<1>0. Requests
  BY DEF CompanyShape
<1>1. q \in Request
  BY BoundAssumption DEF Idle, Request, Ops, Steps, Modules
<1>2. q.op = "run" /\ q.step = "reserve" /\ q.company = c /\ q.limit = n /\ q.mods = mods
  BY DEF Idle
<1>3. /\ req[r].op = "idle" /\ req' = [req EXCEPT ![r] = q]
      /\ UNCHANGED <<company, tenant, job, drift, lowered>> /\ UNCHANGED <<touched, mixed>>
  BY DEF OnboardCompany, Begin
<1> HIDE DEF q
<1>4. Placed(q)
  BY <1>2 DEF Placed, InRun
<1>5. Requests' /\ req'[r] = q /\ \A s \in Req \ {r} : req'[s] = req[s]
  BY <1>0, <1>1, <1>3, <1>4, BeginShape
<1>6. Held(c)
  BY <1>3 DEF Held, CompanyShape
<1>7. QED BY <1>2, <1>3, <1>5, <1>6 DEF Fresh

LEMMA SetSeatLimitMoves ==
  ASSUME CompanyShape, NEW r \in Req, NEW c \in Company, NEW n \in Limits, NEW force \in BOOLEAN, SetSeatLimit(r, c, n, force)
  PROVE  /\ Fresh(r, c) /\ UNCHANGED <<company, tenant, job, drift, lowered>>
         /\ req'[r].op = "limit" /\ req'[r].step = "write" /\ req'[r].limit = n
         /\ UNCHANGED <<touched, mixed>> /\ Exists(c)
<1> DEFINE q == [Idle EXCEPT !.op = "limit", !.step = "write", !.company = c, !.limit = n]
<1>0. Requests
  BY DEF CompanyShape
<1>1. q \in Request
  BY BoundAssumption DEF Idle, Request, Ops, Steps, Modules
<1>2. q.op = "limit" /\ q.step = "write" /\ q.company = c /\ q.limit = n
  BY DEF Idle
<1>3. /\ req[r].op = "idle" /\ req' = [req EXCEPT ![r] = q]
      /\ UNCHANGED <<company, tenant, job, drift, lowered>> /\ UNCHANGED <<touched, mixed>> /\ Exists(c)
  BY DEF SetSeatLimit, Begin
<1> HIDE DEF q
<1>4. Placed(q)
  BY <1>2 DEF Placed, InRun
<1>5. Requests' /\ req'[r] = q /\ \A s \in Req \ {r} : req'[s] = req[s]
  BY <1>0, <1>1, <1>3, <1>4, BeginShape
<1>6. Held(c)
  BY <1>3 DEF Held, CompanyShape
<1>7. QED BY <1>2, <1>3, <1>5, <1>6 DEF Fresh

LEMMA CreateEmployeeMoves ==
  ASSUME CompanyShape, NEW r \in Req, NEW c \in Company, NEW e \in Email, CreateEmployee(r, c, e)
  PROVE  /\ Fresh(r, c) /\ UNCHANGED <<company, tenant, job, drift, lowered>>
         /\ req'[r].op = "employee" /\ req'[r].step = "claim" /\ req'[r].email = e
         /\ UNCHANGED <<touched, mixed>> /\ Exists(c)
<1> DEFINE q == [Idle EXCEPT !.op = "employee", !.step = "claim", !.company = c, !.email = e]
<1>0. Requests
  BY DEF CompanyShape
<1>1. q \in Request
  BY BoundAssumption DEF Idle, Request, Ops, Steps, Modules
<1>2. q.op = "employee" /\ q.step = "claim" /\ q.company = c /\ q.email = e
  BY DEF Idle
<1>3. /\ req[r].op = "idle" /\ req' = [req EXCEPT ![r] = q]
      /\ UNCHANGED <<company, tenant, job, drift, lowered>> /\ UNCHANGED <<touched, mixed>> /\ Exists(c)
  BY DEF CreateEmployee, Begin
<1> HIDE DEF q
<1>4. Placed(q)
  BY <1>2 DEF Placed, InRun
<1>5. Requests' /\ req'[r] = q /\ \A s \in Req \ {r} : req'[s] = req[s]
  BY <1>0, <1>1, <1>3, <1>4, BeginShape
<1>6. Held(c)
  BY <1>3 DEF Held, CompanyShape
<1>7. QED BY <1>2, <1>3, <1>5, <1>6 DEF Fresh

LEMMA TeardownCompanyMoves ==
  ASSUME CompanyShape, NEW r \in Req, NEW c \in Company, NEW hard \in BOOLEAN, TeardownCompany(r, c, hard)
  PROVE  /\ Fresh(r, c) /\ UNCHANGED <<company, tenant, job, drift, lowered>>
         /\ req'[r].op = "teardown" /\ req'[r].step = "drop_db" /\ req'[r].hard = hard
         /\ touched' = touched \cup {c} /\ UNCHANGED mixed /\ Exists(c)
<1> DEFINE q == [Idle EXCEPT !.op = "teardown", !.step = "drop_db", !.company = c, !.hard = hard]
<1>0. Requests
  BY DEF CompanyShape
<1>1. q \in Request
  BY BoundAssumption DEF Idle, Request, Ops, Steps, Modules
<1>2. q.op = "teardown" /\ q.step = "drop_db" /\ q.company = c /\ q.hard = hard
  BY DEF Idle
<1>3. /\ req[r].op = "idle" /\ req' = [req EXCEPT ![r] = q]
      /\ UNCHANGED <<company, tenant, job, drift, lowered>> /\ touched' = touched \cup {c} /\ UNCHANGED mixed /\ Exists(c)
  BY DEF TeardownCompany, Begin
<1> HIDE DEF q
<1>4. Placed(q)
  BY <1>2 DEF Placed, InRun
<1>5. Requests' /\ req'[r] = q /\ \A s \in Req \ {r} : req'[s] = req[s]
  BY <1>0, <1>1, <1>3, <1>4, BeginShape
<1>6. Held(c)
  BY <1>3 DEF Held, CompanyShape
<1>7. QED BY <1>2, <1>3, <1>5, <1>6 DEF Fresh

LEMMA UpdateCompanyMoves ==
  ASSUME CompanyShape, NEW r \in Req, NEW c \in Company, NEW mods \in Plans, UpdateCompany(r, c, mods)
  PROVE  /\ Fresh(r, c) /\ UNCHANGED <<company, tenant, job, drift, lowered, touched>> /\ Exists(c)
         /\ req'[r].op = "update" /\ req'[r].mods = mods /\ req'[r].todo = mods \ company[c].enabled
         /\ mixed \subseteq mixed'
         /\ \A s \in Req : req[s].op = "update" /\ req[s].company = c => c \in mixed'
<1>0. Requests /\ company[c] \in Entry
  BY DEF CompanyShape
<1>n. PICK n : n = IF mods \ company[c].enabled = {} THEN "write" ELSE "seed"
  OBVIOUS
<1> DEFINE new == mods \ company[c].enabled
           q == [Idle EXCEPT !.op = "update", !.step = n, !.company = c, !.mods = mods, !.todo = new]
<1>1. mods \subseteq Modules /\ new \subseteq Modules
  BY BoundAssumption DEF Modules
<1>2. q \in Request
  BY <1>1, <1>n DEF Idle, Request, Ops, Steps
<1>3. q.op = "update" /\ q.step = n /\ q.company = c /\ q.mods = mods /\ q.todo = new
  BY DEF Idle
<1>4. /\ req[r].op = "idle" /\ req' = [req EXCEPT ![r] = q]
      /\ UNCHANGED <<company, tenant, job, drift, lowered, touched>> /\ Exists(c)
  BY <1>n DEF UpdateCompany, Begin
<1>5. mixed' = mixed \cup {c : s \in {s \in Req : req[s].op = "update" /\ req[s].company = c}}
  BY DEF UpdateCompany
<1> HIDE DEF q
<1>6. Placed(q)
  BY <1>1, <1>3, <1>n DEF Placed, InRun
<1>7. Requests' /\ req'[r] = q /\ \A s \in Req \ {r} : req'[s] = req[s]
  BY <1>0, <1>2, <1>4, <1>6, BeginShape
<1>8. mixed \subseteq mixed' /\ mixed' \subseteq mixed \cup {c}
  BY <1>5
<1>9. \A s \in Req : req[s].op = "update" /\ req[s].company = c => c \in mixed'
  BY <1>5
<1>10. Held(c)
  BY <1>4, <1>8 DEF Held, CompanyShape
<1>11. QED BY <1>3, <1>4, <1>7, <1>8, <1>9, <1>10 DEF Fresh

LEMMA ResumeMoves ==
  ASSUME CompanyShape, NEW r \in Req, NEW c \in Company, Resume(r, c)
  PROVE  /\ Fresh(r, c) /\ UNCHANGED <<company, tenant, past>> /\ Exists(c)
         /\ req'[r].op = "run" /\ req'[r].step = "start" /\ req'[r].mods = company[c].enabled
         /\ req'[r].todo = {s \in StepName : job[c].steps[s] # "done"}
         /\ job'[c].steps = job[c].steps
<1>0. Requests /\ company[c] \in Entry
  BY DEF CompanyShape
<1> DEFINE todo == {s \in StepName : job[c].steps[s] # "done"}
           q == [Idle EXCEPT !.op = "run", !.step = "start", !.company = c, !.todo = todo, !.mods = company[c].enabled]
<1>1. q \in Request
  BY <1>0 DEF Idle, Request, Ops, Steps, Entry
<1>2. q.op = "run" /\ q.step = "start" /\ q.company = c /\ q.mods = company[c].enabled /\ q.todo = todo
  BY DEF Idle
<1>3. /\ req[r].op = "idle" /\ req' = [req EXCEPT ![r] = q] /\ todo # {}
      /\ job' = [job EXCEPT ![c].state = "running"] /\ UNCHANGED <<company, tenant, past>> /\ Exists(c)
  BY DEF Resume, ResumeFrom
<1> HIDE DEF q
<1>4. "start" \notin StepName
  BY StepNames
<1>5. Placed(q)
  BY <1>2, <1>3, <1>4 DEF Placed, InRun
<1>6. Requests' /\ req'[r] = q /\ \A s \in Req \ {r} : req'[s] = req[s]
  BY <1>0, <1>1, <1>3, <1>5, BeginShape
<1>7. Held(c) /\ job'[c].steps = job[c].steps
  BY <1>3, SetJobState
<1>8. QED BY <1>2, <1>3, <1>6, <1>7 DEF Fresh

LEMMA SetCompanyStatusMoves ==
  ASSUME CompanyShape, NEW c \in Company, NEW status \in Statuses, SetCompanyStatus(c, status)
  PROVE  Held(c) /\ UNCHANGED req /\ c \in touched'
<1> DEFINE d == [company[c] EXCEPT !.status = status]
<1>1. d \in Entry
  BY DEF CompanyShape, Entry
<1>2. company' = [company EXCEPT ![c] = d]
  BY DEF SetCompanyStatus
<1> HIDE DEF d
<1>3. company' \in [Company -> Entry] /\ \A x \in Company \ {c} : company'[x] = company[x]
  BY <1>1, <1>2 DEF CompanyShape
<1>4. touched' = touched \cup {c} /\ UNCHANGED <<tenant, job, drift, lowered, mixed, req>>
  BY DEF SetCompanyStatus
<1>5. QED BY <1>3, <1>4 DEF Held, CompanyShape

-----------------------------------------------------------------------------
(* What a step of provisioning leaves in a company's database.              *)
Marks(c, s) ==
  /\ s = "create_db" => tenant[c].meta
  /\ s = "seed_modules" => (c \notin mixed => company[c].enabled \subseteq tenant[c].seeded)
  /\ s = "seed_rbac" => tenant[c].roles
  /\ s = "create_owner_user" => tenant[c].owner /\ tenant[c].roles /\ tenant[c].indexed
  /\ s = "seed_settings" => tenant[c].profile

(* What a request under way on a company may count on: a run, that what it  *)
(* passed is there and that what is enabled is seeded or still to be; an    *)
(* update, that its list holds what is enabled, seeded or still to be.      *)
On(r, c)       == req[r].op # "idle" /\ req[r].company = c
Updating(r, c) == req[r].op = "update" /\ req[r].company = c
ReqOK(r, c) ==
  /\ ~ (req[r].op = "run" /\ req[r].step = "reserve") => company[c].status # "none"
  /\ req[r].op # "teardown"
  /\ InRun(req[r]) =>
       /\ \A s \in StepName : s \notin req[r].todo => Marks(c, s)
       /\ req[r].step = "finish" => Marks(c, Next1(req[r]))
       /\ req[r].step \in {"index_old", "index_new", "owner_seat"} => tenant[c].owner /\ tenant[c].roles
       /\ req[r].step = "owner_seat" => tenant[c].indexed
       /\ "seed_modules" \in req[r].todo /\ c \notin mixed =>
            company[c].enabled \subseteq tenant[c].seeded \cup req[r].mods
  /\ req[r].op = "update" /\ c \notin mixed =>
       req[r].mods \subseteq company[c].enabled \cup tenant[c].seeded \cup req[r].todo

WholeAt(c) ==
  /\ company[c].status # "removed"
  /\ company[c].status = "none" => \A s \in StepName : job[c].steps[s] # "done"
  /\ company[c].status = "active" => \A s \in StepName : Marks(c, s)
  /\ \A s \in StepName : job[c].steps[s] = "done" => Marks(c, s)
  /\ \A r \in Req : On(r, c) => ReqOK(r, c)
  /\ c \notin mixed => \A r, s \in Req : Updating(r, c) /\ Updating(s, c) => r = s
WholeInv == \A c \in Company \ touched : WholeAt(c)

(* Steps that add to the database of a company and leave its modules.       *)
Grows(c) ==
  /\ tenant[c].meta => tenant'[c].meta
  /\ tenant[c].roles => tenant'[c].roles
  /\ tenant[c].owner => tenant'[c].owner
  /\ tenant[c].indexed => tenant'[c].indexed
  /\ tenant[c].profile => tenant'[c].profile
  /\ tenant[c].seeded \subseteq tenant'[c].seeded
  /\ company'[c].enabled = company[c].enabled
  /\ c \in mixed => c \in mixed'
SameNone(c) == company'[c].status = "none" <=> company[c].status = "none"

LEMMA MarksGrow ==
  ASSUME NEW c \in Company, Grows(c), NEW s \in StepName, Marks(c, s)
  PROVE  Marks(c, s)'
BY DEF Marks, Grows

LEMMA ReqGrows ==
  ASSUME NEW c \in Company, Grows(c), SameNone(c), NEW r \in Req, ReqOK(r, c), req'[r] = req[r], Requests
  PROVE  ReqOK(r, c)'
<1>1. PICK q : q = req[r]
  OBVIOUS
<1>2. \A s \in StepName : Marks(c, s) => Marks(c, s)'
  BY MarksGrow
<1>3. InRun(q) => Next1(q) \in StepName
  BY <1>1, RunShape
<1>4. /\ ~ (q.op = "run" /\ q.step = "reserve") => company'[c].status # "none"
      /\ q.op # "teardown"
  BY <1>1 DEF ReqOK, SameNone
<1>5. ASSUME InRun(q)
      PROVE  /\ \A s \in StepName : s \notin q.todo => Marks(c, s)'
             /\ q.step = "finish" => Marks(c, Next1(q))'
             /\ q.step \in {"index_old", "index_new", "owner_seat"} => tenant'[c].owner /\ tenant'[c].roles
             /\ q.step = "owner_seat" => tenant'[c].indexed
             /\ "seed_modules" \in q.todo /\ c \notin mixed' =>
                  company'[c].enabled \subseteq tenant'[c].seeded \cup q.mods
  <2>1. /\ \A s \in StepName : s \notin q.todo => Marks(c, s)
        /\ q.step = "finish" => Marks(c, Next1(q))
        /\ q.step \in {"index_old", "index_new", "owner_seat"} => tenant[c].owner /\ tenant[c].roles
        /\ q.step = "owner_seat" => tenant[c].indexed
        /\ "seed_modules" \in q.todo /\ c \notin mixed =>
             company[c].enabled \subseteq tenant[c].seeded \cup q.mods
    BY <1>1, <1>5 DEF ReqOK
  <2>2. q.step = "finish" => Marks(c, Next1(q))'
    <3>1. PICK n : n = Next1(q)
      OBVIOUS
    <3>2. q.step = "finish" => Marks(c, n)'
      BY <1>2, <1>3, <1>5, <2>1, <3>1
    <3>3. QED BY <3>1, <3>2
  <2>3. QED BY <1>2, <2>1, <2>2 DEF Grows
<1>6. q.op = "update" /\ c \notin mixed' => q.mods \subseteq company'[c].enabled \cup tenant'[c].seeded \cup q.todo
  BY <1>1 DEF ReqOK, Grows
<1>7. req'[r] = q
  BY <1>1
<1>8. QED BY <1>4, <1>5, <1>6, <1>7 DEF ReqOK

LEMMA WholeKept ==
  ASSUME Requests, NEW c \in Company, NEW r \in Req, WholeAt(c), Grows(c), SameNone(c),
         \A s \in Req \ {r} : req'[s] = req[s],
         company'[c].status # "removed",
         company'[c].status = "active" => company[c].status = "active" \/ \A s \in StepName : Marks(c, s)',
         company'[c].status = "none" => job'[c].steps = job[c].steps,
         \A s \in StepName : job'[c].steps[s] = "done" => job[c].steps[s] = "done" \/ Marks(c, s)',
         On(r, c)' => ReqOK(r, c)',
         Updating(r, c)' => Updating(r, c) \/ c \in mixed' \/ \A s \in Req : ~ Updating(s, c)
  PROVE  WholeAt(c)'
<1>1. \A s \in StepName : Marks(c, s) => Marks(c, s)'
  BY MarksGrow
<1>2. company'[c].status = "none" => \A s \in StepName : job'[c].steps[s] # "done"
  BY DEF WholeAt, SameNone
<1>3. company'[c].status = "active" => \A s \in StepName : Marks(c, s)'
  BY <1>1 DEF WholeAt
<1>4. \A s \in StepName : job'[c].steps[s] = "done" => Marks(c, s)'
  BY <1>1 DEF WholeAt
<1>5. ASSUME NEW s \in Req, On(s, c)' PROVE ReqOK(s, c)'
  <2>1. CASE s = r
    BY <1>5, <2>1
  <2>2. CASE s # r
    <3>1. req'[s] = req[s]
      BY <2>2
    <3>2. ReqOK(s, c)
      BY <1>5, <3>1 DEF WholeAt, On
    <3>3. QED BY <3>1, <3>2, ReqGrows
  <2>3. QED BY <2>1, <2>2
<1>6. ASSUME c \notin mixed', NEW u \in Req, NEW v \in Req, Updating(u, c)', Updating(v, c)' PROVE u = v
  <2>1. c \notin mixed
    BY <1>6 DEF Grows
  <2>2. \A s \in Req \ {r} : Updating(s, c)' => Updating(s, c)
    BY DEF Updating
  <2>3. \A s, x \in Req : Updating(s, c) /\ Updating(x, c) => s = x
    BY <2>1 DEF WholeAt
  <2>4. QED BY <1>6, <2>2, <2>3
<1>7. QED BY <1>2, <1>3, <1>4, <1>5, <1>6 DEF WholeAt

LEMMA WholeElsewhere ==
  ASSUME Requests, NEW c \in Company, Held(c), NEW r \in Req, \A s \in Req \ {r} : req'[s] = req[s],
         req'[r].op # "idle" => req'[r].company = c,
         NEW x \in Company, x # c, WholeAt(x)
  PROVE  WholeAt(x)'
<1>1. company'[x] = company[x] /\ tenant'[x] = tenant[x] /\ job'[x] = job[x] /\ (x \in mixed => x \in mixed')
  BY DEF Held
<1>2. Grows(x) /\ SameNone(x)
  BY <1>1 DEF Grows, SameNone
<1>3. ~ On(r, x)' /\ ~ Updating(r, x)'
  BY DEF On, Updating
<1>4. company'[x].status # "removed"
  BY <1>1 DEF WholeAt
<1>5. QED BY <1>1, <1>2, <1>3, <1>4, WholeKept

(* The step a run is at left its mark.                                      *)
Marked(r, c) == \A n \in StepName : n = Next1(req[r]) => Marks(c, n)

LEMMA WentKeeps ==
  ASSUME Requests, NEW r \in Req, NEW c \in Company, c = req[r].company, NEW step \in Steps, Went(r, step),
         req[r].op # "idle", req[r].op = "run" => InRun(req[r]), WholeAt(c), Grows(c), SameNone(c),
         step \notin {"reserve", "create_job"},
         InRun(req[r]) /\ step = "finish" => Marked(r, c)',
         step \in {"index_old", "index_new", "owner_seat"} => tenant'[c].owner /\ tenant'[c].roles,
         step = "owner_seat" => tenant'[c].indexed
  PROVE  On(r, c) /\ ReqOK(r, c)' /\ (Updating(r, c)' => Updating(r, c))
<1>0. On(r, c) /\ ReqOK(r, c) /\ (Updating(r, c)' => Updating(r, c))
  BY DEF WholeAt, On, Updating, Went
<1>1. PICK q : q = req[r]
  OBVIOUS
<1>2. PICK p : p = req'[r]
  OBVIOUS
<1>3. p.op = q.op /\ p.step = step /\ p.todo = q.todo /\ p.mods = q.mods
  BY <1>1, <1>2 DEF Went
<1>4. q.op = "run" => q.step \notin {"reserve", "create_job"}
  BY <1>1 DEF InRun
<1>5. InRun(p) => InRun(q)
  BY <1>1, <1>3 DEF InRun
<1>6. Next1(p) = Next1(q)
  BY <1>3 DEF Next1
<1>7. \A s \in StepName : Marks(c, s) => Marks(c, s)'
  BY MarksGrow
<1>8. /\ company'[c].status # "none"
      /\ p.op # "teardown"
  BY <1>0, <1>1, <1>3, <1>4 DEF ReqOK, SameNone
<1>9. ASSUME InRun(p)
      PROVE  /\ \A s \in StepName : s \notin p.todo => Marks(c, s)'
             /\ p.step = "finish" => Marks(c, Next1(p))'
             /\ p.step \in {"index_old", "index_new", "owner_seat"} => tenant'[c].owner /\ tenant'[c].roles
             /\ p.step = "owner_seat" => tenant'[c].indexed
             /\ "seed_modules" \in p.todo /\ c \notin mixed' =>
                  company'[c].enabled \subseteq tenant'[c].seeded \cup p.mods
  <2>1. /\ \A s \in StepName : s \notin q.todo => Marks(c, s)
        /\ "seed_modules" \in q.todo /\ c \notin mixed =>
             company[c].enabled \subseteq tenant[c].seeded \cup q.mods
    BY <1>0, <1>1, <1>5, <1>9 DEF ReqOK
  <2>2. p.step = "finish" => Marks(c, Next1(p))'
    <3>1. PICK n : n = Next1(q)
      OBVIOUS
    <3>2. p.step = "finish" => Marks(c, n)'
      <4>1. n \in StepName /\ n = Next1(p) /\ InRun(req[r])
        BY <1>1, <1>5, <1>6, <1>9, <3>1, RunShape
      <4>2. step = "finish" => Marked(r, c)'
        BY <4>1
      <4>3. QED BY <1>2, <1>3, <4>1, <4>2 DEF Marked
    <3>3. QED BY <1>6, <3>1, <3>2
  <2>3. QED BY <1>3, <1>7, <2>1, <2>2 DEF Grows
<1>10. p.op = "update" /\ c \notin mixed' => p.mods \subseteq company'[c].enabled \cup tenant'[c].seeded \cup p.todo
  BY <1>0, <1>1, <1>3 DEF ReqOK, Grows
<1>11. ReqOK(r, c)'
  BY <1>2, <1>8, <1>9, <1>10 DEF ReqOK
<1>12. QED BY <1>0, <1>11

LEMMA WentWhole ==
  ASSUME Requests, NEW r \in Req, NEW c \in Company, c = req[r].company, NEW step \in Steps, Went(r, step), Turned(r),
         req[r].op # "idle", req[r].op = "run" => InRun(req[r]), WholeAt(c), Grows(c),
         step \notin {"reserve", "create_job"},
         InRun(req[r]) /\ step = "finish" => Marked(r, c)',
         step \in {"index_old", "index_new", "owner_seat"} => tenant'[c].owner /\ tenant'[c].roles,
         step = "owner_seat" => tenant'[c].indexed,
         company'[c].status # company[c].status =>
           company'[c].status = "active" /\ company[c].status # "none" /\ \A s \in StepName : Marks(c, s)',
         \A s \in StepName : job'[c].steps[s] = "done" => job[c].steps[s] = "done" \/ Marks(c, s)'
  PROVE  WholeAt(c)'
<1>1. SameNone(c) /\ company'[c].status # "removed"
  BY DEF SameNone, WholeAt
<1>2. On(r, c) /\ ReqOK(r, c)' /\ (Updating(r, c)' => Updating(r, c))
  BY <1>1, WentKeeps
<1>3. company'[c].status # "none"
  BY <1>1, <1>2 DEF WholeAt, ReqOK, InRun, SameNone
<1>4. \A s \in Req \ {r} : req'[s] = req[s]
  BY DEF Turned
<1>5. company'[c].status = "active" => company[c].status = "active" \/ \A s \in StepName : Marks(c, s)'
  OBVIOUS
<1>6. QED BY <1>1, <1>2, <1>3, <1>4, <1>5, WholeKept

LEMMA FinishWhole ==
  ASSUME Requests, NEW r \in Req, NEW c \in Company, c = req[r].company, Went(r, "finish"), Turned(r),
         InRun(req[r]), WholeAt(c), Grows(c), Marked(r, c)', company'[c].status = company[c].status,
         \A s \in StepName : job'[c].steps[s] = "done" => job[c].steps[s] = "done"
  PROVE  WholeAt(c)'
<1>1. PICK step \in Steps : step = "finish"
  BY DEF Steps
<1>2. /\ step # "reserve" /\ step # "create_job" /\ step # "index_old" /\ step # "index_new" /\ step # "owner_seat"
  BY <1>1
<1>3. Went(r, step)
  BY <1>1
<1>4. req[r].op # "idle"
  BY DEF InRun
<1>5. /\ step \notin {"reserve", "create_job"}
      /\ step \in {"index_old", "index_new", "owner_seat"} => tenant'[c].owner /\ tenant'[c].roles
      /\ step = "owner_seat" => tenant'[c].indexed
  BY <1>2
<1>6. QED BY <1>3, <1>4, <1>5, WentWhole, Zenon

LEMMA GoneWhole ==
  ASSUME Requests, NEW r \in Req, NEW c \in Company, c = req[r].company, NEW step \in Steps, Went(r, step), Turned(r),
         req[r].op # "idle", req[r].op = "run" => InRun(req[r]), WholeAt(c), Grows(c),
         step \notin {"reserve", "create_job", "finish"},
         step \in {"index_old", "index_new", "owner_seat"} => tenant'[c].owner /\ tenant'[c].roles,
         step = "owner_seat" => tenant'[c].indexed,
         company'[c].status = company[c].status,
         \A s \in StepName : job'[c].steps[s] = "done" => job[c].steps[s] = "done"
  PROVE  WholeAt(c)'
<1>1. step \notin {"reserve", "create_job"} /\ step # "finish"
  OBVIOUS
<1>2. QED BY <1>1, WentWhole, Zenon

LEMMA DoneWhole ==
  ASSUME Requests, NEW r \in Req, NEW c \in Company, Turned(r), req'[r] = Idle, WholeAt(c), Grows(c),
         SameNone(c), company'[c].status # "removed",
         company'[c].status = "active" => company[c].status = "active",
         company'[c].status = "none" => job'[c].steps = job[c].steps,
         \A s \in StepName : job'[c].steps[s] = "done" => job[c].steps[s] = "done" \/ Marks(c, s)'
  PROVE  WholeAt(c)'
<1>1. ~ On(r, c)' /\ ~ Updating(r, c)'
  BY DEF On, Updating, Idle
<1>2. \A s \in Req \ {r} : req'[s] = req[s]
  BY DEF Turned
<1>3. QED BY <1>1, <1>2, WholeKept

(* A company that was neither torn down nor touched stays whole, or on the  *)
(* way to it, whichever of its requests goes on.                            *)
LEMMA StillThere ==
  ASSUME Requests, NEW r \in Req, req[r].op # "idle", NEW c \in Company, c = req[r].company, WholeAt(c),
         req[r].op = "run" => InRun(req[r])
  PROVE  Exists(c) /\ ReqOK(r, c) /\ company[c].status # "none" /\ req[r].op # "teardown"
BY DEF WholeAt, ReqOK, On, Exists, InRun

LEMMA ReserveWhole ==
  ASSUME CompanyShape, NEW r \in Req, Reserve(r), NEW c \in Company, c = req[r].company, WholeAt(c)
  PROVE  WholeAt(c)'
<1>0. Requests /\ company[c] \in Entry /\ company' \in [Company -> Entry]
  BY ReserveMoves DEF CompanyShape, Moved, Held
<1>1. CASE req'[r] = Idle /\ UNCHANGED <<company, job>>
  <2>1. Turned(r) /\ UNCHANGED <<tenant, past>>
    BY ReserveMoves DEF Moved
  <2>2. Grows(c) /\ SameNone(c) /\ company'[c].status # "removed"
    BY <1>1, <2>1 DEF Grows, SameNone, WholeAt, past
  <2>3. QED BY <1>0, <1>1, <2>1, <2>2, DoneWhole
<1>2. CASE Free(c) /\ Went(r, "create_job") /\ job'[c] = NoJob
           /\ company'[c] = [status |-> "provisioning", limit |-> req[r].limit, used |-> 0, enabled |-> req[r].mods]
  <2>0. company[c].status = "none"
    BY <1>2 DEF Free, WholeAt
  <2>1. Turned(r) /\ UNCHANGED <<tenant, past>> /\ req[r].op = "run"
    BY ReserveMoves DEF Moved
  <2>2. company'[c].status = "provisioning"
    BY <1>2
  <2>3. \A s \in StepName : job'[c].steps[s] # "done"
    BY <1>2 DEF NoJob
  <2>4. \A s \in Req : On(s, c) => req[s].op = "run" /\ req[s].step = "reserve"
    BY <2>0 DEF WholeAt, ReqOK
  <2>5. \A s \in Req \ {r} : req'[s] = req[s]
    BY <2>1 DEF Turned
  <2>6. ASSUME NEW s \in Req, On(s, c)' PROVE ReqOK(s, c)'
    <3>1. req'[s].op = "run" /\ req'[s].step \in {"reserve", "create_job"}
      BY <1>2, <2>1, <2>4, <2>5, <2>6 DEF On, Went
    <3>2. QED BY <2>2, <3>1 DEF ReqOK, InRun
  <2>7. ASSUME NEW s \in Req PROVE ~ Updating(s, c)'
    BY <1>2, <2>1, <2>4, <2>5 DEF Updating, Went, On
  <2>8. QED BY <2>2, <2>3, <2>6, <2>7 DEF WholeAt
<1>3. QED BY <1>1, <1>2, ReserveMoves

LEMMA CreateJobWhole ==
  ASSUME CompanyShape, NEW r \in Req, CreateJob(r), NEW c \in Company, c = req[r].company, WholeAt(c)
  PROVE  WholeAt(c)'
<1>0. Requests /\ Turned(r) /\ UNCHANGED <<company, tenant, past>> /\ req[r].op = "run" /\ req[r].step = "create_job"
  BY CreateJobMoves DEF CompanyShape, Moved, CreateJob, At
<1>1. Grows(c) /\ SameNone(c) /\ company'[c].status # "removed" /\ company'[c].status = company[c].status
      /\ UNCHANGED mixed
  BY <1>0 DEF Grows, SameNone, WholeAt, past
<1>2. company[c].status # "none"
  BY <1>0 DEF WholeAt, ReqOK, On
<1>3. \A s \in StepName : job'[c].steps[s] # "done"
  BY CreateJobMoves
<1>4. CASE req'[r] = Idle
  BY <1>0, <1>1, <1>2, <1>3, <1>4, DoneWhole
<1>5. CASE InRun(req'[r]) /\ req'[r].step = "start" /\ req'[r].todo = StepName /\ req'[r].mods = company[c].enabled
  <2>0. req'[r].op = "run" /\ req'[r].step = "start"
    BY <1>5 DEF InRun
  <2>1. ReqOK(r, c)' /\ ~ Updating(r, c)'
    <3>1. \A s \in StepName : s \in req'[r].todo
      BY <1>5
    <3>2. company'[c].enabled \subseteq req'[r].mods
      BY <1>1, <1>5, <1>0
    <3>3. QED BY <1>1, <1>2, <2>0, <3>1, <3>2 DEF ReqOK, Updating
  <2>2. \A s \in Req \ {r} : req'[s] = req[s]
    BY <1>0 DEF Turned
  <2>3. QED BY <1>0, <1>1, <1>2, <1>3, <2>1, <2>2, WholeKept
<1>6. QED BY <1>4, <1>5, CreateJobMoves

LEMMA FinishStepWhole ==
  ASSUME CompanyShape, NEW r \in Req, FinishStep(r), NEW c \in Company, c = req[r].company, WholeAt(c)
  PROVE  WholeAt(c)'
<1>n. PICK n : n = Current(r)
  OBVIOUS
<1>0. /\ Requests /\ Turned(r) /\ UNCHANGED <<company, tenant, past>> /\ InRun(req[r]) /\ req[r].step = "finish"
      /\ n \in StepName /\ n = Next1(req[r]) /\ req[r].op # "idle"
  BY <1>n, FinishStepMoves DEF CompanyShape, Moved, InRun
<1>1. Exists(c) /\ ReqOK(r, c) /\ company[c].status # "none"
  BY <1>0, StillThere
<1>2. Grows(c) /\ SameNone(c) /\ company'[c].status # "removed" /\ company'[c].status = company[c].status
      /\ UNCHANGED <<company, tenant, mixed>>
  BY <1>0 DEF Grows, SameNone, WholeAt, past
<1>3. Marks(c, n)
  BY <1>0, <1>1 DEF ReqOK
<1>4. \A s \in StepName : Marks(c, s) => Marks(c, s)'
  BY <1>2, MarksGrow
<1>5. \A s \in StepName : job'[c].steps[s] = "done" => job[c].steps[s] = "done" \/ Marks(c, s)'
  BY <1>n, <1>0, <1>3, <1>4, FinishStepMoves
<1>6. CASE req'[r] = Idle
  BY <1>0, <1>1, <1>2, <1>5, <1>6, DoneWhole
<1>7. CASE /\ req'[r].op = "run" /\ req'[r].step = "start" /\ req'[r].company = c
           /\ req'[r].todo = req[r].todo \ {n} /\ req'[r].mods = req[r].mods
  <2>1. \A s \in StepName : s \notin req'[r].todo => Marks(c, s)'
    BY <1>0, <1>1, <1>3, <1>4, <1>7 DEF ReqOK
  <2>2. "seed_modules" \in req'[r].todo /\ c \notin mixed =>
          company[c].enabled \subseteq tenant[c].seeded \cup req'[r].mods
    BY <1>0, <1>1, <1>7 DEF ReqOK
  <2>3. ReqOK(r, c)' /\ ~ Updating(r, c)'
    BY <1>1, <1>2, <1>7, <2>1, <2>2 DEF ReqOK, Updating
  <2>4. \A s \in Req \ {r} : req'[s] = req[s]
    BY <1>0 DEF Turned
  <2>5. QED BY <1>0, <1>1, <1>2, <1>5, <2>3, <2>4, WholeKept
<1>8. QED BY <1>6, <1>7, <1>n, FinishStepMoves

LEMMA SeedModulesWhole ==
  ASSUME CompanyShape, NEW r \in Req, SeedModules(r), NEW c \in Company, c = req[r].company, WholeAt(c)
  PROVE  WholeAt(c)'
<1>0. /\ Requests /\ Turned(r) /\ UNCHANGED <<company, past>> /\ InRun(req[r]) /\ req[r].step = "seed_modules"
      /\ req[r].op # "idle" /\ job'[c].steps = job[c].steps /\ tenant[c] \in Database /\ Placed(req[r])
  BY SeedModulesMoves, RequestShape DEF CompanyShape, Moved, InRun
<1>1. Exists(c) /\ ReqOK(r, c) /\ company[c].status # "none"
  BY <1>0, StillThere
<1>2. company'[c] = company[c] /\ UNCHANGED mixed
  BY <1>0 DEF past
<1>3. Next1(req[r]) = "seed_modules" /\ "seed_modules" \in req[r].todo
  BY <1>0, RunShape, StepNames DEF Placed
<1>4. c \notin mixed => company[c].enabled \subseteq tenant[c].seeded \cup req[r].mods
  BY <1>0, <1>1, <1>3 DEF ReqOK
<1>5. CASE req[r].mods = {} /\ Went(r, "finish") /\ UNCHANGED tenant
  <2>1. Grows(c)
    BY <1>2, <1>5 DEF Grows
  <2>2. Marks(c, "seed_modules")'
    BY <1>2, <1>4, <1>5 DEF Marks
  <2>3. Marked(r, c)'
    <3>1. Next1(req'[r]) = "seed_modules"
      BY <1>3, <1>5 DEF Next1, Went
    <3>2. QED BY <2>2, <3>1 DEF Marked
  <2>4. QED BY <1>0, <1>2, <1>5, <2>1, <2>3, FinishWhole
<1>6. ASSUME NEW m \in req[r].mods,
             /\ req'[r].op = "run" /\ req'[r].step = "seed_modules" /\ req'[r].company = c
             /\ req'[r].todo = req[r].todo /\ req'[r].mods = req[r].mods \ {m}
             /\ tenant'[c] = [tenant[c] EXCEPT !.seeded = @ \cup {m}, !.roles = @ \/ m = "settings"]
      PROVE  WholeAt(c)'
  <2>1. Grows(c) /\ tenant'[c].seeded = tenant[c].seeded \cup {m}
    BY <1>0, <1>2, <1>6 DEF Grows, Database
  <2>2. \A s \in StepName : s \notin req'[r].todo => Marks(c, s)'
    BY <1>0, <1>1, <1>6, <2>1, MarksGrow DEF ReqOK
  <2>3. c \notin mixed => company'[c].enabled \subseteq tenant'[c].seeded \cup req'[r].mods
    BY <1>2, <1>4, <1>6, <2>1
  <2>4. ReqOK(r, c)' /\ ~ Updating(r, c)'
    BY <1>1, <1>2, <1>6, <2>2, <2>3 DEF ReqOK, Updating
  <2>5. \A s \in Req \ {r} : req'[s] = req[s]
    BY <1>0 DEF Turned
  <2>6. SameNone(c) /\ company'[c].status # "removed"
    BY <1>2 DEF SameNone, WholeAt
  <2>7. QED BY <1>0, <1>2, <2>1, <2>4, <2>5, <2>6, WholeKept
<1>7. QED BY <1>5, <1>6, SeedModulesMoves

LEMMA StartStepWhole ==
  ASSUME CompanyShape, NEW r \in Req, StartStep(r), NEW c \in Company, c = req[r].company, WholeAt(c)
  PROVE  WholeAt(c)'
<1>n. PICK n : n = Current(r)
  OBVIOUS
<1>0. /\ Requests /\ Turned(r) /\ UNCHANGED <<company, tenant, past>> /\ InRun(req[r]) /\ Went(r, n)
      /\ n \in StepName /\ req[r].op # "idle"
      /\ \A s \in StepName : job'[c].steps[s] = "done" => job[c].steps[s] = "done"
  BY <1>n, StartStepMoves DEF CompanyShape, Moved, InRun
<1>1. Grows(c) /\ company'[c].status = company[c].status
  BY <1>0 DEF Grows, past
<1>2. n \in Steps /\ n \notin {"reserve", "create_job", "finish", "index_old", "index_new", "owner_seat"}
  BY <1>0, StepNames DEF Steps
<1>3. QED BY <1>0, <1>1, <1>2, GoneWhole

LEMMA CreateDbWhole ==
  ASSUME CompanyShape, NEW r \in Req, CreateDb(r), NEW c \in Company, c = req[r].company, WholeAt(c)
  PROVE  WholeAt(c)'
<1>0. /\ Requests /\ Turned(r) /\ UNCHANGED <<company, job, past>> /\ InRun(req[r]) /\ req[r].step = "create_db"
      /\ Went(r, "finish") /\ tenant'[c] = [tenant[c] EXCEPT !.meta = TRUE] /\ tenant[c] \in Database
      /\ Placed(req[r])
  BY CreateDbMoves DEF CompanyShape, Moved, Requests
<1>1. Next1(req[r]) = "create_db"
  BY <1>0, StepNames DEF Placed
<1>2. Grows(c) /\ tenant'[c].meta /\ UNCHANGED <<company, job, mixed>>
  BY <1>0 DEF Grows, Database, past
<1>3. Marked(r, c)'
  <2>1. Next1(req'[r]) = "create_db"
    BY <1>0, <1>1 DEF Next1, Went
  <2>2. Marks(c, "create_db")'
    BY <1>2 DEF Marks
  <2>3. QED BY <2>1, <2>2 DEF Marked
<1>4. QED BY <1>0, <1>2, <1>3, FinishWhole

LEMMA SeedRbacWhole ==
  ASSUME CompanyShape, NEW r \in Req, SeedRbac(r), NEW c \in Company, c = req[r].company, WholeAt(c)
  PROVE  WholeAt(c)'
<1>0. /\ Requests /\ Turned(r) /\ UNCHANGED <<company, job, past>> /\ InRun(req[r]) /\ req[r].step = "seed_rbac"
      /\ Went(r, "finish") /\ tenant'[c] = [tenant[c] EXCEPT !.roles = TRUE] /\ tenant[c] \in Database
      /\ Placed(req[r])
  BY SeedRbacMoves DEF CompanyShape, Moved, Requests
<1>1. Next1(req[r]) = "seed_rbac"
  BY <1>0, StepNames DEF Placed
<1>2. Grows(c) /\ tenant'[c].roles /\ UNCHANGED <<company, job, mixed>>
  BY <1>0 DEF Grows, Database, past
<1>3. Marked(r, c)'
  <2>1. Next1(req'[r]) = "seed_rbac"
    BY <1>0, <1>1 DEF Next1, Went
  <2>2. Marks(c, "seed_rbac")'
    BY <1>2 DEF Marks
  <2>3. QED BY <2>1, <2>2 DEF Marked
<1>4. QED BY <1>0, <1>2, <1>3, FinishWhole

LEMMA SeedSettingsWhole ==
  ASSUME CompanyShape, NEW r \in Req, SeedSettings(r), NEW c \in Company, c = req[r].company, WholeAt(c)
  PROVE  WholeAt(c)'
<1>0. /\ Requests /\ Turned(r) /\ UNCHANGED <<company, job, past>> /\ InRun(req[r]) /\ req[r].step = "seed_settings"
      /\ Went(r, "finish") /\ tenant'[c] = [tenant[c] EXCEPT !.profile = TRUE] /\ tenant[c] \in Database
      /\ Placed(req[r])
  BY SeedSettingsMoves DEF CompanyShape, Moved, Requests
<1>1. Next1(req[r]) = "seed_settings"
  BY <1>0, StepNames DEF Placed
<1>2. Grows(c) /\ tenant'[c].profile /\ UNCHANGED <<company, job, mixed>>
  BY <1>0 DEF Grows, Database, past
<1>3. Marked(r, c)'
  <2>1. Next1(req'[r]) = "seed_settings"
    BY <1>0, <1>1 DEF Next1, Went
  <2>2. Marks(c, "seed_settings")'
    BY <1>2 DEF Marks
  <2>3. QED BY <2>1, <2>2 DEF Marked
<1>4. QED BY <1>0, <1>2, <1>3, FinishWhole

LEMMA CreateOwnerUserWhole ==
  ASSUME CompanyShape, NEW r \in Req, CreateOwnerUser(r), NEW c \in Company, c = req[r].company, WholeAt(c)
  PROVE  WholeAt(c)'
<1>n. PICK n : n = IF tenant[c].owner THEN "index_old" ELSE "index_new"
  OBVIOUS
<1>0. /\ Requests /\ Turned(r) /\ UNCHANGED <<company, job, past>> /\ InRun(req[r]) /\ req[r].op # "idle"
      /\ Went(r, n) /\ tenant[c] \in Database
      /\ tenant'[c] = [tenant[c] EXCEPT !.roles = TRUE, !.owner = TRUE]
  BY <1>n, CreateOwnerUserMoves DEF CompanyShape, Moved, InRun
<1>1. Grows(c) /\ tenant'[c].owner /\ tenant'[c].roles /\ UNCHANGED <<company, job>>
  BY <1>0 DEF Grows, Database, past
<1>2. n \in Steps /\ n \notin {"reserve", "create_job", "finish"} /\ n # "owner_seat"
  BY <1>n DEF Steps
<1>3. QED BY <1>0, <1>1, <1>2, GoneWhole

LEMMA IndexEmailsWhole ==
  ASSUME CompanyShape, NEW r \in Req, IndexEmails(r), NEW c \in Company, c = req[r].company, WholeAt(c)
  PROVE  WholeAt(c)'
<1>0. /\ Requests /\ Turned(r) /\ UNCHANGED <<company, job, mixed>> /\ InRun(req[r]) /\ req[r].op # "idle"
      /\ req[r].step \in {"index_old", "index_new"} /\ tenant[c] \in Database /\ Placed(req[r])
  BY IndexEmailsMoves DEF CompanyShape, Moved, InRun, Requests
<1>1. Next1(req[r]) = "create_owner_user" /\ tenant[c].owner /\ tenant[c].roles
  BY <1>0, StillThere DEF Placed, ReqOK
<1>2. CASE Went(r, "fail_step") /\ UNCHANGED tenant
  <2>1. Grows(c)
    BY <1>0, <1>2 DEF Grows
  <2>2. PICK n \in Steps : n = "fail_step"
    BY DEF Steps
  <2>3. n \notin {"reserve", "create_job", "finish", "index_old", "index_new", "owner_seat"} /\ Went(r, n)
    BY <1>2, <2>2
  <2>4. QED BY <1>0, <2>1, <2>3, GoneWhole
<1>3. CASE /\ Went(r, IF req[r].step = "index_new" THEN "owner_seat" ELSE "finish")
           /\ tenant'[c] = [tenant[c] EXCEPT !.indexed = TRUE]
  <2>1. Grows(c) /\ tenant'[c].owner /\ tenant'[c].roles /\ tenant'[c].indexed
    BY <1>0, <1>1, <1>3 DEF Grows, Database
  <2>2. CASE req[r].step = "index_new"
    <3>1. PICK n \in Steps : n = "owner_seat"
      BY DEF Steps
    <3>2. n \notin {"reserve", "create_job", "finish"} /\ Went(r, n)
      BY <1>3, <2>2, <3>1
    <3>3. QED BY <1>0, <2>1, <3>2, GoneWhole
  <2>3. CASE req[r].step # "index_new"
    <3>1. Went(r, "finish")
      BY <1>3, <2>3
    <3>2. Marked(r, c)'
      <4>1. Next1(req'[r]) = "create_owner_user"
        BY <1>1, <3>1 DEF Next1, Went
      <4>2. Marks(c, "create_owner_user")'
        BY <2>1 DEF Marks
      <4>3. QED BY <4>1, <4>2 DEF Marked
    <3>3. QED BY <1>0, <2>1, <3>1, <3>2, FinishWhole
  <2>4. QED BY <2>2, <2>3
<1>4. QED BY <1>2, <1>3, IndexEmailsMoves

LEMMA CountOwnerWhole ==
  ASSUME CompanyShape, NEW r \in Req, CountOwner(r), NEW c \in Company, c = req[r].company, WholeAt(c)
  PROVE  WholeAt(c)'
<1>0. /\ Requests /\ Turned(r) /\ UNCHANGED <<tenant, job, past>> /\ InRun(req[r]) /\ req[r].step = "owner_seat"
      /\ Went(r, "finish") /\ company[c] \in Entry /\ Placed(req[r]) /\ req[r].op # "idle"
      /\ company'[c] = IF Exists(c) THEN [company[c] EXCEPT !.used = @ + 1] ELSE company[c]
  BY CountOwnerMoves DEF CompanyShape, Moved, Requests, InRun
<1>1. Next1(req[r]) = "create_owner_user" /\ tenant[c].owner /\ tenant[c].roles /\ tenant[c].indexed
  BY <1>0, StillThere DEF Placed, ReqOK
<1>2. Grows(c) /\ company'[c].status = company[c].status /\ UNCHANGED <<tenant, job>>
  BY <1>0 DEF Grows, Entry, past
<1>3. Marked(r, c)'
  <2>1. Next1(req'[r]) = "create_owner_user"
    BY <1>0, <1>1 DEF Next1, Went
  <2>2. Marks(c, "create_owner_user")'
    BY <1>1, <1>2 DEF Marks
  <2>3. QED BY <2>1, <2>2 DEF Marked
<1>4. QED BY <1>0, <1>2, <1>3, FinishWhole

LEMMA FinalizeWhole ==
  ASSUME CompanyShape, NEW r \in Req, Finalize(r), NEW c \in Company, c = req[r].company, WholeAt(c)
  PROVE  WholeAt(c)'
<1>0. /\ Requests /\ Turned(r) /\ UNCHANGED <<tenant, job, past>> /\ InRun(req[r]) /\ req[r].step = "finalize"
      /\ Went(r, "close_job") /\ company[c] \in Entry /\ Placed(req[r]) /\ req[r].op # "idle"
      /\ company'[c] = IF Exists(c) THEN [company[c] EXCEPT !.status = "active"] ELSE company[c]
  BY FinalizeMoves DEF CompanyShape, Moved, Requests, InRun
<1>1. Exists(c) /\ ReqOK(r, c) /\ company[c].status # "none"
  BY <1>0, StillThere
<1>2. req[r].todo = {"finalize"}
  <2>1. Next1(req[r]) = "finalize"
    BY <1>0, StepNames DEF Placed
  <2>2. QED BY <1>0, <2>1, RunShape
<1>3. company'[c].status = "active" /\ Grows(c)
  BY <1>0, <1>1 DEF Grows, Entry, past
<1>4. ASSUME NEW s \in StepName PROVE Marks(c, s)'
  <2>1. CASE s = "finalize"
    BY <2>1 DEF Marks
  <2>2. CASE s # "finalize"
    <3>1. Marks(c, s)
      BY <1>0, <1>1, <1>2, <2>2 DEF ReqOK
    <3>2. QED BY <1>3, <3>1, MarksGrow
  <2>3. QED BY <2>1, <2>2
<1>5. PICK n \in Steps : n = "close_job"
  BY DEF Steps
<1>6. n \notin {"reserve", "create_job"} /\ n # "finish" /\ n \notin {"index_old", "index_new", "owner_seat"}
      /\ n # "owner_seat" /\ Went(r, n)
  BY <1>0, <1>5
<1>7. \A s \in StepName : job'[c].steps[s] = "done" => job[c].steps[s] = "done" \/ Marks(c, s)'
  BY <1>4
<1>8. QED BY <1>0, <1>1, <1>3, <1>4, <1>6, <1>7, WentWhole, Zenon

LEMMA CloseJobWhole ==
  ASSUME CompanyShape, NEW r \in Req, CloseJob(r), NEW c \in Company, c = req[r].company, WholeAt(c)
  PROVE  WholeAt(c)'
<1>0. /\ Requests /\ Turned(r) /\ UNCHANGED <<company, tenant, past>> /\ InRun(req[r]) /\ req[r].step = "close_job"
      /\ Went(r, "finish") /\ Placed(req[r]) /\ job'[c].steps = job[c].steps
  BY CloseJobMoves DEF CompanyShape, Moved, Requests
<1>1. Next1(req[r]) = "finalize"
  BY <1>0 DEF Placed
<1>2. Grows(c) /\ company'[c].status = company[c].status
  BY <1>0 DEF Grows, past
<1>3. Marked(r, c)'
  <2>1. Next1(req'[r]) = "finalize"
    BY <1>0, <1>1 DEF Next1, Went
  <2>2. Marks(c, "finalize")'
    BY DEF Marks
  <2>3. QED BY <2>1, <2>2 DEF Marked
<1>4. QED BY <1>0, <1>2, <1>3, FinishWhole

LEMMA FailStepWhole ==
  ASSUME CompanyShape, NEW r \in Req, FailStep(r), NEW c \in Company, c = req[r].company, WholeAt(c)
  PROVE  WholeAt(c)'
<1>0. /\ Requests /\ Turned(r) /\ UNCHANGED <<company, tenant, past>> /\ InRun(req[r]) /\ req[r].op # "idle"
      /\ Went(r, "fail_job") /\ \A s \in StepName : job'[c].steps[s] = "done" => job[c].steps[s] = "done"
  BY FailStepMoves DEF CompanyShape, Moved, InRun
<1>1. Grows(c) /\ company'[c].status = company[c].status
  BY <1>0 DEF Grows, past
<1>2. PICK n \in Steps : n = "fail_job"
  BY DEF Steps
<1>3. n \notin {"reserve", "create_job", "finish", "index_old", "index_new", "owner_seat"} /\ Went(r, n)
  BY <1>0, <1>2
<1>4. QED BY <1>0, <1>1, <1>3, GoneWhole

LEMMA FailJobWhole ==
  ASSUME CompanyShape, NEW r \in Req, FailJob(r), NEW c \in Company, c = req[r].company, WholeAt(c)
  PROVE  WholeAt(c)'
<1>0. /\ Requests /\ Turned(r) /\ UNCHANGED <<company, tenant, past>> /\ InRun(req[r]) /\ req[r].op # "idle"
      /\ Went(r, "fail_company") /\ \A s \in StepName : job'[c].steps[s] = "done" => job[c].steps[s] = "done"
  BY FailJobMoves DEF CompanyShape, Moved, InRun
<1>1. Grows(c) /\ company'[c].status = company[c].status
  BY <1>0 DEF Grows, past
<1>2. PICK n \in Steps : n = "fail_company"
  BY DEF Steps
<1>3. n \notin {"reserve", "create_job", "finish", "index_old", "index_new", "owner_seat"} /\ Went(r, n)
  BY <1>0, <1>2
<1>4. QED BY <1>0, <1>1, <1>3, GoneWhole

LEMMA StepRaisesWhole ==
  ASSUME CompanyShape, NEW r \in Req, StepRaises(r), NEW c \in Company, c = req[r].company, WholeAt(c)
  PROVE  WholeAt(c)'
<1>0. /\ Requests /\ Turned(r) /\ UNCHANGED <<company, tenant, job, mixed>> /\ InRun(req[r]) /\ req[r].op # "idle"
      /\ Went(r, "fail_step") /\ \A s \in StepName : job'[c].steps[s] = "done" => job[c].steps[s] = "done"
  BY StepRaisesMoves DEF CompanyShape, Moved, InRun
<1>1. Grows(c) /\ company'[c].status = company[c].status
  BY <1>0 DEF Grows
<1>2. PICK n \in Steps : n = "fail_step"
  BY DEF Steps
<1>3. n \notin {"reserve", "create_job", "finish", "index_old", "index_new", "owner_seat"} /\ Went(r, n)
  BY <1>0, <1>2
<1>4. QED BY <1>0, <1>1, <1>3, GoneWhole

LEMMA FailCompanyWhole ==
  ASSUME CompanyShape, NEW r \in Req, FailCompany(r), NEW c \in Company, c = req[r].company, WholeAt(c)
  PROVE  WholeAt(c)'
<1>0. /\ Requests /\ Turned(r) /\ UNCHANGED <<tenant, job, past>> /\ InRun(req[r])
      /\ req'[r] = Idle /\ company[c] \in Entry /\ req[r].op # "idle"
      /\ company'[c] = IF Exists(c) THEN [company[c] EXCEPT !.status = "failed"] ELSE company[c]
  BY FailCompanyMoves DEF CompanyShape, Moved, InRun
<1>1. Exists(c) /\ company[c].status # "none"
  BY <1>0, StillThere
<1>2. company'[c].status = "failed" /\ Grows(c) /\ UNCHANGED job
  BY <1>0, <1>1 DEF Grows, Entry, past
<1>3. SameNone(c)
  BY <1>1, <1>2 DEF SameNone
<1>4. QED BY <1>0, <1>2, <1>3, DoneWhole

LEMMA CrashWhole ==
  ASSUME CompanyShape, NEW r \in Req, Crash(r), NEW c \in Company, c = req[r].company, WholeAt(c)
  PROVE  WholeAt(c)'
<1>0. /\ Requests /\ Turned(r) /\ UNCHANGED <<company, tenant, job, mixed>> /\ req'[r] = Idle
  BY CrashMoves DEF CompanyShape, Moved
<1>1. Grows(c) /\ SameNone(c) /\ company'[c].status # "removed"
  BY <1>0 DEF Grows, SameNone, WholeAt
<1>2. QED BY <1>0, <1>1, DoneWhole

LEMMA UpdateSeedWhole ==
  ASSUME CompanyShape, NEW r \in Req, UpdateSeed(r), NEW c \in Company, c = req[r].company, WholeAt(c)
  PROVE  WholeAt(c)'
<1>0. /\ Requests /\ Turned(r) /\ UNCHANGED <<company, job, past>> /\ req[r].op = "update"
      /\ tenant[c] \in Database
  BY UpdateSeedMoves DEF CompanyShape, Moved
<1>1. Exists(c) /\ ReqOK(r, c) /\ company[c].status # "none"
  BY <1>0, StillThere
<1>2. PICK m \in req[r].todo :
        /\ req'[r].op = "update" /\ req'[r].company = req[r].company /\ req'[r].mods = req[r].mods
        /\ req'[r].todo = req[r].todo \ {m}
        /\ tenant'[req[r].company] = [tenant[req[r].company] EXCEPT !.seeded = @ \cup {m},
                                                                  !.roles = @ \/ m = "settings"]
  BY UpdateSeedMoves
<1>3. Grows(c) /\ tenant'[c].seeded = tenant[c].seeded \cup {m} /\ UNCHANGED <<company, job, mixed>>
  BY <1>0, <1>2 DEF Grows, Database, past
<1>4. c \notin mixed => req'[r].mods \subseteq company[c].enabled \cup tenant'[c].seeded \cup req'[r].todo
  BY <1>0, <1>1, <1>2, <1>3 DEF ReqOK
<1>5. ReqOK(r, c)' /\ (Updating(r, c)' => Updating(r, c))
  BY <1>0, <1>1, <1>2, <1>3, <1>4 DEF ReqOK, Updating, InRun
<1>6. \A s \in Req \ {r} : req'[s] = req[s]
  BY <1>0 DEF Turned
<1>7. SameNone(c) /\ company'[c].status # "removed"
  BY <1>3 DEF SameNone, WholeAt
<1>8. QED BY <1>0, <1>3, <1>5, <1>6, <1>7, WholeKept

LEMMA UpdateRolesWhole ==
  ASSUME CompanyShape, NEW r \in Req, UpdateRoles(r), NEW c \in Company, c = req[r].company, WholeAt(c)
  PROVE  WholeAt(c)'
<1>0. /\ Requests /\ Turned(r) /\ UNCHANGED <<company, job, past>> /\ req[r].op = "update" /\ company[c] \in Entry /\ tenant[c] \in Database
      /\ Went(r, "write") /\ tenant'[c] = [tenant[c] EXCEPT !.roles = TRUE]
  BY UpdateRolesMoves DEF CompanyShape, Moved
<1>1. Grows(c) /\ company'[c].status = company[c].status /\ UNCHANGED job
  BY <1>0 DEF Grows, Database, past
<1>2. PICK n \in Steps : n = "write"
  BY DEF Steps
<1>3. n \notin {"reserve", "create_job", "finish", "index_old", "index_new", "owner_seat"} /\ Went(r, n)
  BY <1>0, <1>2
<1>4. QED BY <1>0, <1>1, <1>3, GoneWhole

LEMMA UpdateWriteWhole ==
  ASSUME CompanyShape, NEW r \in Req, UpdateWrite(r), NEW c \in Company, c = req[r].company, WholeAt(c)
  PROVE  WholeAt(c)'
<1>0. /\ Requests /\ Turned(r) /\ UNCHANGED <<tenant, job, past>> /\ req[r].op = "update" /\ req[r].step = "write"
      /\ req'[r] = Idle /\ company[c] \in Entry /\ Placed(req[r])
      /\ company'[c] = IF Exists(c) THEN [company[c] EXCEPT !.enabled = req[r].mods] ELSE company[c]
  BY UpdateWriteMoves DEF CompanyShape, Moved, Requests
<1>1. Exists(c) /\ ReqOK(r, c) /\ req[r].todo = {}
  BY <1>0, StillThere DEF Placed
<1>2. company'[c].status = company[c].status /\ company'[c].enabled = req[r].mods /\ UNCHANGED <<tenant, job, mixed>>
  BY <1>0, <1>1 DEF Entry, past
<1>3. c \notin mixed => req[r].mods \subseteq company[c].enabled \cup tenant[c].seeded
  BY <1>0, <1>1 DEF ReqOK
<1>4. \A s \in StepName : Marks(c, s) => Marks(c, s)'
  BY <1>2, <1>3 DEF Marks
<1>5. \A s \in Req \ {r} : req'[s] = req[s]
  BY <1>0 DEF Turned
<1>6. \A s \in Req : On(s, c)' => s # r /\ req'[s] = req[s] /\ On(s, c) /\ ReqOK(s, c)
  BY <1>0, <1>5 DEF On, Idle, WholeAt
<1>7. ASSUME c \notin mixed, NEW s \in Req, s # r PROVE ~ Updating(s, c)
  BY <1>0, <1>7 DEF WholeAt, Updating
<1>8. ASSUME NEW s \in Req, On(s, c)' PROVE ReqOK(s, c)'
  <2>1. PICK q : q = req[s]
    OBVIOUS
  <2>2. s # r /\ req'[s] = q /\ ReqOK(s, c)
    BY <1>6, <1>8, <2>1
  <2>3. On(s, c) /\ (c \notin mixed => q.op # "update")
    BY <1>6, <1>7, <1>8, <2>1, <2>2 DEF Updating, On
  <2>4. /\ ~ (q.op = "run" /\ q.step = "reserve") => company'[c].status # "none"
        /\ q.op # "teardown"
    BY <1>2, <2>1, <2>2 DEF ReqOK
  <2>5. ASSUME InRun(q)
        PROVE  /\ \A x \in StepName : x \notin q.todo => Marks(c, x)'
               /\ q.step = "finish" => Marks(c, Next1(q))'
               /\ q.step \in {"index_old", "index_new", "owner_seat"} => tenant'[c].owner /\ tenant'[c].roles
               /\ q.step = "owner_seat" => tenant'[c].indexed
               /\ "seed_modules" \in q.todo /\ c \notin mixed' =>
                    company'[c].enabled \subseteq tenant'[c].seeded \cup q.mods
    <3>1. /\ \A x \in StepName : x \notin q.todo => Marks(c, x)
          /\ q.step = "finish" => Marks(c, Next1(q))
          /\ q.step \in {"index_old", "index_new", "owner_seat"} => tenant[c].owner /\ tenant[c].roles
          /\ q.step = "owner_seat" => tenant[c].indexed
          /\ "seed_modules" \in q.todo /\ c \notin mixed =>
               company[c].enabled \subseteq tenant[c].seeded \cup q.mods
      BY <2>1, <2>2, <2>5 DEF ReqOK
    <3>2. q.step = "finish" => Marks(c, Next1(q))'
      <4>1. PICK n : n = Next1(q)
        OBVIOUS
      <4>2. n \in StepName
        BY <1>0, <2>1, <2>5, <4>1, RunShape
      <4>3. q.step = "finish" => Marks(c, n)'
        BY <1>4, <3>1, <4>1, <4>2
      <4>4. QED BY <4>1, <4>3
    <3>3. "seed_modules" \in q.todo /\ c \notin mixed =>
            company'[c].enabled \subseteq tenant'[c].seeded \cup q.mods
      BY <1>2, <1>3, <3>1
    <3>4. QED BY <1>2, <1>4, <3>1, <3>2, <3>3
  <2>6. q.op = "update" => c \in mixed'
    BY <1>2, <2>3
  <2>7. QED BY <2>2, <2>4, <2>5, <2>6 DEF ReqOK
<1>9. \A u, v \in Req : Updating(u, c)' /\ Updating(v, c)' /\ c \notin mixed => u = v
  BY <1>0, <1>5 DEF Updating, WholeAt, Idle
<1>10. QED BY <1>2, <1>4, <1>8, <1>9 DEF WholeAt

LEMMA SetSeatLimitWriteWhole ==
  ASSUME CompanyShape, NEW r \in Req, SetSeatLimitWrite(r), NEW c \in Company, c = req[r].company, WholeAt(c)
  PROVE  WholeAt(c)'
<1>0. /\ Requests /\ Turned(r) /\ UNCHANGED <<job, mixed>> /\ req[r].op = "limit" /\ company[c] \in Entry
      /\ tenant[c] \in Database /\ req'[r] = Idle /\ UNCHANGED tenant /\ company'[c] = IF Exists(c) THEN [company[c] EXCEPT !.limit = req[r].limit] ELSE company[c]
  BY SetSeatLimitWriteMoves DEF CompanyShape, Moved, past
<1>1. Grows(c) /\ company'[c].status = company[c].status
  BY <1>0 DEF Grows, Entry, Database
<1>2. SameNone(c) /\ company'[c].status # "removed"
  BY <1>1 DEF SameNone, WholeAt
<1>3. QED BY <1>0, <1>1, <1>2, DoneWhole

LEMMA ReleaseSeatWhole ==
  ASSUME CompanyShape, NEW r \in Req, ReleaseSeat(r), NEW c \in Company, c = req[r].company, WholeAt(c)
  PROVE  WholeAt(c)'
<1>0. /\ Requests /\ Turned(r) /\ UNCHANGED <<job, mixed>> /\ req[r].op = "employee" /\ company[c] \in Entry
      /\ tenant[c] \in Database /\ req'[r] = Idle /\ UNCHANGED tenant /\ company'[c] = IF Exists(c) THEN [company[c] EXCEPT !.used = @ - 1] ELSE company[c]
  BY ReleaseSeatMoves DEF CompanyShape, Moved, past
<1>1. Grows(c) /\ company'[c].status = company[c].status
  BY <1>0 DEF Grows, Entry, Database
<1>2. SameNone(c) /\ company'[c].status # "removed"
  BY <1>1 DEF SameNone, WholeAt
<1>3. QED BY <1>0, <1>1, <1>2, DoneWhole

LEMMA ClaimSeatWhole ==
  ASSUME CompanyShape, NEW r \in Req, ClaimSeat(r), NEW c \in Company, c = req[r].company, WholeAt(c)
  PROVE  WholeAt(c)'
<1>0. /\ Requests /\ Turned(r) /\ UNCHANGED <<tenant, job, past>> /\ req[r].op = "employee" /\ company[c] \in Entry
  BY ClaimSeatMoves DEF CompanyShape, Moved
<1>1. CASE req'[r] = Idle /\ UNCHANGED company
  <2>1. Grows(c) /\ SameNone(c) /\ company'[c].status # "removed"
    BY <1>0, <1>1 DEF Grows, SameNone, WholeAt, past
  <2>2. QED BY <1>0, <1>1, <2>1, DoneWhole
<1>2. CASE Went(r, "insert") /\ company'[c] = [company[c] EXCEPT !.used = @ + 1]
  <2>1. Grows(c) /\ company'[c].status = company[c].status /\ UNCHANGED job
    BY <1>0, <1>2 DEF Grows, Entry, past
  <2>2. PICK n \in Steps : n = "insert"
    BY DEF Steps
  <2>3. n \notin {"reserve", "create_job", "finish", "index_old", "index_new", "owner_seat"} /\ Went(r, n)
    BY <1>2, <2>2
  <2>4. QED BY <1>0, <2>1, <2>3, GoneWhole
<1>3. QED BY <1>1, <1>2, ClaimSeatMoves

LEMMA InsertEmployeeWhole ==
  ASSUME CompanyShape, NEW r \in Req, InsertEmployee(r), NEW c \in Company, c = req[r].company, WholeAt(c)
  PROVE  WholeAt(c)'
<1>0. /\ Requests /\ Turned(r) /\ UNCHANGED <<company, job, past>> /\ req[r].op = "employee" /\ tenant[c] \in Database
  BY InsertEmployeeMoves DEF CompanyShape, Moved
<1>1. CASE req'[r] = Idle /\ tenant'[c] = [tenant[c] EXCEPT !.staff = tenant'[c].staff]
  <2>1. Grows(c) /\ SameNone(c) /\ company'[c].status # "removed" /\ UNCHANGED <<company, job>>
    <3>1. PICK w : w = tenant'[c].staff
      OBVIOUS
    <3>2. tenant'[c] = [tenant[c] EXCEPT !.staff = w]
      BY <1>1, <3>1
    <3>3. QED BY <1>0, <3>2 DEF Grows, SameNone, WholeAt, Database, past
  <2>2. QED BY <1>0, <1>1, <2>1, DoneWhole
<1>2. CASE Went(r, "release") /\ UNCHANGED tenant
  <2>1. Grows(c) /\ company'[c].status = company[c].status /\ UNCHANGED job
    BY <1>0, <1>2 DEF Grows, past
  <2>2. PICK n \in Steps : n = "release"
    BY DEF Steps
  <2>3. n \notin {"reserve", "create_job", "finish", "index_old", "index_new", "owner_seat"} /\ Went(r, n)
    BY <1>2, <2>2
  <2>4. QED BY <1>0, <2>1, <2>3, GoneWhole
<1>3. QED BY <1>1, <1>2, InsertEmployeeMoves

LEMMA InsertRaisesWhole ==
  ASSUME CompanyShape, NEW r \in Req, InsertRaises(r), NEW c \in Company, c = req[r].company, WholeAt(c)
  PROVE  WholeAt(c)'
<1>0. /\ Requests /\ Turned(r) /\ UNCHANGED <<company, tenant, job, past>> /\ req[r].op = "employee" /\ company[c] \in Entry /\ tenant[c] \in Database
      /\ Went(r, "release")
  BY InsertRaisesMoves DEF CompanyShape, Moved
<1>1. Grows(c) /\ company'[c].status = company[c].status /\ UNCHANGED job
  BY <1>0 DEF Grows, past
<1>2. PICK n \in Steps : n = "release"
  BY DEF Steps
<1>3. n \notin {"reserve", "create_job", "finish", "index_old", "index_new", "owner_seat"} /\ Went(r, n)
  BY <1>0, <1>2
<1>4. QED BY <1>0, <1>1, <1>3, GoneWhole

LEMMA FreshWhole ==
  ASSUME CompanyShape, NEW r \in Req, NEW c \in Company, Fresh(r, c), WholeAt(c), UNCHANGED <<company, tenant>>,
         job'[c].steps = job[c].steps, mixed \subseteq mixed', ReqOK(r, c)',
         Updating(r, c)' => c \in mixed' \/ \A s \in Req : ~ Updating(s, c)
  PROVE  WholeAt(c)'
<1>1. Grows(c) /\ SameNone(c) /\ company'[c].status # "removed" /\ Requests
  BY DEF Grows, SameNone, WholeAt, CompanyShape
<1>2. \A s \in Req \ {r} : req'[s] = req[s]
  BY DEF Fresh
<1>3. QED BY <1>1, <1>2, WholeKept

LEMMA StartWhole ==
  ASSUME CompanyShape, NEW r \in Req, NEW c \in Company, WholeAt(c), c \notin touched',
         \/ \E n \in Limits, mods \in Plans : OnboardCompany(r, c, n, mods)
         \/ \E mods \in Plans : UpdateCompany(r, c, mods)
         \/ \E n \in Limits, force \in BOOLEAN : SetSeatLimit(r, c, n, force)
         \/ \E e \in Email : CreateEmployee(r, c, e) \/ CreateOwnEmployee(r, c, e)
         \/ \E hard \in BOOLEAN : TeardownCompany(r, c, hard)
         \/ Resume(r, c)
  PROVE  WholeAt(c)'
<1>1. ASSUME NEW n \in Limits, NEW mods \in Plans, OnboardCompany(r, c, n, mods) PROVE WholeAt(c)'
  <2>1. Fresh(r, c) /\ UNCHANGED <<company, tenant, job, mixed>> /\ req'[r].op = "run" /\ req'[r].step = "reserve"
    BY <1>1, OnboardCompanyMoves
  <2>2. ReqOK(r, c)' /\ ~ Updating(r, c)'
    BY <2>1 DEF ReqOK, InRun, Updating
  <2>3. QED BY <2>1, <2>2, FreshWhole
<1>2. ASSUME NEW mods \in Plans, UpdateCompany(r, c, mods) PROVE WholeAt(c)'
  <2>1. /\ Fresh(r, c) /\ UNCHANGED <<company, tenant, job>> /\ Exists(c)
        /\ req'[r].op = "update" /\ req'[r].mods = mods /\ req'[r].todo = mods \ company[c].enabled
        /\ mixed \subseteq mixed'
        /\ \A s \in Req : req[s].op = "update" /\ req[s].company = c => c \in mixed'
    BY <1>2, UpdateCompanyMoves
  <2>2. ReqOK(r, c)'
    BY <2>1 DEF ReqOK, InRun, Exists
  <2>3. c \in mixed' \/ \A s \in Req : ~ Updating(s, c)
    BY <2>1 DEF Updating
  <2>4. QED BY <2>1, <2>2, <2>3, FreshWhole
<1>3. ASSUME NEW n \in Limits, NEW force \in BOOLEAN, SetSeatLimit(r, c, n, force) PROVE WholeAt(c)'
  <2>1. Fresh(r, c) /\ UNCHANGED <<company, tenant, job, mixed>> /\ req'[r].op = "limit" /\ Exists(c)
    BY <1>3, SetSeatLimitMoves
  <2>2. ReqOK(r, c)' /\ ~ Updating(r, c)'
    BY <2>1 DEF ReqOK, InRun, Updating, Exists
  <2>3. QED BY <2>1, <2>2, FreshWhole
<1>4. ASSUME NEW e \in Email, CreateEmployee(r, c, e) PROVE WholeAt(c)'
  <2>1. Fresh(r, c) /\ UNCHANGED <<company, tenant, job, mixed>> /\ req'[r].op = "employee" /\ Exists(c)
    BY <1>4, CreateEmployeeMoves
  <2>2. ReqOK(r, c)' /\ ~ Updating(r, c)'
    BY <2>1 DEF ReqOK, InRun, Updating, Exists
  <2>3. QED BY <2>1, <2>2, FreshWhole
<1>5. ASSUME NEW hard \in BOOLEAN, TeardownCompany(r, c, hard) PROVE FALSE
  BY <1>5 DEF TeardownCompany
<1>6. ASSUME Resume(r, c) PROVE WholeAt(c)'
  <2>1. /\ Fresh(r, c) /\ UNCHANGED <<company, tenant, past>> /\ Exists(c)
        /\ req'[r].op = "run" /\ req'[r].step = "start" /\ req'[r].mods = company[c].enabled
        /\ req'[r].todo = {s \in StepName : job[c].steps[s] # "done"}
        /\ job'[c].steps = job[c].steps
    BY <1>6, ResumeMoves
  <2>2. Grows(c) /\ UNCHANGED mixed
    BY <2>1 DEF Grows, past
  <2>3. \A s \in StepName : s \notin req'[r].todo => Marks(c, s)'
    BY <2>1, <2>2, MarksGrow DEF WholeAt
  <2>4. ReqOK(r, c)' /\ ~ Updating(r, c)'
    BY <2>1, <2>3 DEF ReqOK, Updating, Exists
  <2>5. QED BY <2>1, <2>2, <2>4, FreshWhole
<1>7. QED BY <1>1, <1>2, <1>3, <1>4, <1>5, <1>6 DEF CreateOwnEmployee

LEMMA StartMoves ==
  ASSUME CompanyShape, NEW r \in Req, NEW c \in Company,
         \/ \E n \in Limits, mods \in Plans : OnboardCompany(r, c, n, mods)
         \/ \E mods \in Plans : UpdateCompany(r, c, mods)
         \/ \E n \in Limits, force \in BOOLEAN : SetSeatLimit(r, c, n, force)
         \/ \E e \in Email : CreateEmployee(r, c, e) \/ CreateOwnEmployee(r, c, e)
         \/ \E hard \in BOOLEAN : TeardownCompany(r, c, hard)
         \/ Resume(r, c)
  PROVE  Fresh(r, c)
<1>1. \A n \in Limits, mods \in Plans : OnboardCompany(r, c, n, mods) => Fresh(r, c)
  BY OnboardCompanyMoves
<1>2. \A mods \in Plans : UpdateCompany(r, c, mods) => Fresh(r, c)
  BY UpdateCompanyMoves
<1>3. \A n \in Limits, force \in BOOLEAN : SetSeatLimit(r, c, n, force) => Fresh(r, c)
  BY SetSeatLimitMoves
<1>4. \A e \in Email : CreateEmployee(r, c, e) => Fresh(r, c)
  BY CreateEmployeeMoves
<1>5. \A hard \in BOOLEAN : TeardownCompany(r, c, hard) => Fresh(r, c)
  BY TeardownCompanyMoves
<1>6. Resume(r, c) => Fresh(r, c)
  BY ResumeMoves
<1>7. QED BY <1>1, <1>2, <1>3, <1>4, <1>5, <1>6 DEF CreateOwnEmployee

LEMMA ContinueMoves ==
  ASSUME CompanyShape, NEW r \in Req, Continue(r) \/ Fail(r)
  PROVE  Moved(r) /\ req[r].op # "idle"
<1>1. CASE Reserve(r)
  BY <1>1, ReserveMoves DEF InRun
<1>2. CASE CreateJob(r)
  BY <1>2, CreateJobMoves DEF CreateJob, At
<1>3. CASE StartStep(r)
  BY <1>3, StartStepMoves DEF InRun
<1>4. CASE FinishStep(r)
  BY <1>4, FinishStepMoves DEF InRun
<1>5. CASE CreateDb(r)
  BY <1>5, CreateDbMoves DEF InRun
<1>6. CASE SeedModules(r)
  BY <1>6, SeedModulesMoves DEF InRun
<1>7. CASE SeedRbac(r)
  BY <1>7, SeedRbacMoves DEF InRun
<1>8. CASE CreateOwnerUser(r)
  BY <1>8, CreateOwnerUserMoves DEF InRun
<1>9. CASE IndexEmails(r)
  BY <1>9, IndexEmailsMoves DEF InRun
<1>10. CASE CountOwner(r)
  BY <1>10, CountOwnerMoves DEF InRun
<1>11. CASE SeedSettings(r)
  BY <1>11, SeedSettingsMoves DEF InRun
<1>12. CASE Finalize(r)
  BY <1>12, FinalizeMoves DEF InRun
<1>13. CASE CloseJob(r)
  BY <1>13, CloseJobMoves DEF InRun
<1>14. CASE FailStep(r)
  BY <1>14, FailStepMoves DEF InRun
<1>15. CASE FailJob(r)
  BY <1>15, FailJobMoves DEF InRun
<1>16. CASE FailCompany(r)
  BY <1>16, FailCompanyMoves DEF InRun
<1>17. CASE UpdateSeed(r)
  BY <1>17, UpdateSeedMoves DEF InRun
<1>18. CASE UpdateRoles(r)
  BY <1>18, UpdateRolesMoves DEF InRun
<1>19. CASE UpdateWrite(r)
  BY <1>19, UpdateWriteMoves DEF InRun
<1>20. CASE SetSeatLimitWrite(r)
  BY <1>20, SetSeatLimitWriteMoves DEF InRun
<1>21. CASE ClaimSeat(r)
  BY <1>21, ClaimSeatMoves DEF InRun
<1>22. CASE InsertEmployee(r)
  BY <1>22, InsertEmployeeMoves DEF InRun
<1>23. CASE ReleaseSeat(r)
  BY <1>23, ReleaseSeatMoves DEF InRun
<1>24. CASE DropDb(r)
  BY <1>24, DropDbMoves DEF InRun
<1>25. CASE FinalizeTeardown(r)
  BY <1>25, FinalizeTeardownMoves DEF InRun
<1>26. CASE StepRaises(r)
  BY <1>26, StepRaisesMoves DEF InRun
<1>27. CASE InsertRaises(r)
  BY <1>27, InsertRaisesMoves DEF InRun
<1>28. CASE Crash(r)
  BY <1>28, CrashMoves DEF InRun
<1>29. QED BY <1>1, <1>2, <1>3, <1>4, <1>5, <1>6, <1>7, <1>8, <1>9, <1>10, <1>11, <1>12, <1>13, <1>14,
          <1>15, <1>16, <1>17, <1>18, <1>19, <1>20, <1>21, <1>22, <1>23, <1>24, <1>25, <1>26, <1>27, <1>28 DEF Continue, Fail

LEMMA NoTeardown ==
  ASSUME CompanyShape, NEW r \in Req, DropDb(r) \/ FinalizeTeardown(r), NEW c \in Company, c = req[r].company, WholeAt(c)
  PROVE  FALSE
<1>1. req[r].op = "teardown" /\ Requests
  BY DEF DropDb, FinalizeTeardown, At, CompanyShape
<1>2. QED BY <1>1, StillThere

LEMMA ContinueWhole ==
  ASSUME CompanyShape, NEW r \in Req, Continue(r) \/ Fail(r), NEW c \in Company, c = req[r].company, WholeAt(c)
  PROVE  WholeAt(c)'
<1>1. CASE Reserve(r)
  BY <1>1, ReserveWhole
<1>2. CASE CreateJob(r)
  BY <1>2, CreateJobWhole
<1>3. CASE StartStep(r)
  BY <1>3, StartStepWhole
<1>4. CASE FinishStep(r)
  BY <1>4, FinishStepWhole
<1>5. CASE CreateDb(r)
  BY <1>5, CreateDbWhole
<1>6. CASE SeedModules(r)
  BY <1>6, SeedModulesWhole
<1>7. CASE SeedRbac(r)
  BY <1>7, SeedRbacWhole
<1>8. CASE CreateOwnerUser(r)
  BY <1>8, CreateOwnerUserWhole
<1>9. CASE IndexEmails(r)
  BY <1>9, IndexEmailsWhole
<1>10. CASE CountOwner(r)
  BY <1>10, CountOwnerWhole
<1>11. CASE SeedSettings(r)
  BY <1>11, SeedSettingsWhole
<1>12. CASE Finalize(r)
  BY <1>12, FinalizeWhole
<1>13. CASE CloseJob(r)
  BY <1>13, CloseJobWhole
<1>14. CASE FailStep(r)
  BY <1>14, FailStepWhole
<1>15. CASE FailJob(r)
  BY <1>15, FailJobWhole
<1>16. CASE FailCompany(r)
  BY <1>16, FailCompanyWhole
<1>17. CASE UpdateSeed(r)
  BY <1>17, UpdateSeedWhole
<1>18. CASE UpdateRoles(r)
  BY <1>18, UpdateRolesWhole
<1>19. CASE UpdateWrite(r)
  BY <1>19, UpdateWriteWhole
<1>20. CASE SetSeatLimitWrite(r)
  BY <1>20, SetSeatLimitWriteWhole
<1>21. CASE ClaimSeat(r)
  BY <1>21, ClaimSeatWhole
<1>22. CASE InsertEmployee(r)
  BY <1>22, InsertEmployeeWhole
<1>23. CASE ReleaseSeat(r)
  BY <1>23, ReleaseSeatWhole
<1>24. CASE DropDb(r)
  BY <1>24, NoTeardown
<1>25. CASE FinalizeTeardown(r)
  BY <1>25, NoTeardown
<1>26. CASE StepRaises(r)
  BY <1>26, StepRaisesWhole
<1>27. CASE InsertRaises(r)
  BY <1>27, InsertRaisesWhole
<1>28. CASE Crash(r)
  BY <1>28, CrashWhole
<1>29. QED BY <1>1, <1>2, <1>3, <1>4, <1>5, <1>6, <1>7, <1>8, <1>9, <1>10, <1>11, <1>12, <1>13, <1>14,
          <1>15, <1>16, <1>17, <1>18, <1>19, <1>20, <1>21, <1>22, <1>23, <1>24, <1>25, <1>26, <1>27, <1>28 DEF Continue, Fail

LEMMA ShapeKept ==
  ASSUME CompanyShape, [Next]_vars
  PROVE  CompanyShape'
<1>1. ASSUME NEW r \in Req, Continue(r) \/ Fail(r) PROVE CompanyShape'
  BY <1>1, ContinueMoves DEF Moved, Turned, Held, CompanyShape
<1>2. ASSUME NEW r \in Req, Start(r) PROVE CompanyShape'
  BY <1>2, StartMoves DEF Start, Fresh, Held, CompanyShape
<1>3. ASSUME NEW c \in Company, NEW status \in Statuses, SetCompanyStatus(c, status) PROVE CompanyShape'
  BY <1>3, SetCompanyStatusMoves DEF Held, CompanyShape, Requests
<1>4. CASE UNCHANGED vars
  BY <1>4 DEF vars, CompanyShape, Requests
<1>5. QED BY <1>1, <1>2, <1>3, <1>4 DEF Next

LEMMA Untouched ==
  ASSUME Requests, NEW x \in Company, WholeAt(x), company'[x] = company[x], tenant'[x] = tenant[x], job'[x] = job[x],
         x \in mixed => x \in mixed', UNCHANGED req
  PROVE  WholeAt(x)'
<1>1. \A s \in StepName : Marks(x, s) => Marks(x, s)'
  BY DEF Marks
<1>2. ASSUME NEW s \in Req, On(s, x) PROVE ReqOK(s, x)'
  <2>1. Grows(x) /\ SameNone(x)
    BY DEF Grows, SameNone
  <2>2. ReqOK(s, x) /\ req'[s] = req[s]
    BY <1>2 DEF WholeAt
  <2>3. QED BY <2>1, <2>2, ReqGrows
<1>3. QED BY <1>1, <1>2 DEF WholeAt, On, Updating

LEMMA WholeStep ==
  ASSUME CompanyShape, WholeInv, [Next]_vars
  PROVE  WholeInv'
<1>0. Requests
  BY DEF CompanyShape
<1>1. ASSUME NEW r \in Req, Continue(r) \/ Fail(r), NEW x \in Company \ touched' PROVE WholeAt(x)'
  <2>1. Moved(r) /\ req[r].op # "idle"
    BY <1>1, ContinueMoves
  <2>2. PICK c \in Company : c = req[r].company
    BY <1>0, <2>1, RequestShape
  <2>3. /\ Held(c) /\ \A s \in Req \ {r} : req'[s] = req[s]
        /\ req'[r].op # "idle" => req'[r].company = c
    BY <2>1, <2>2 DEF Moved, Turned
  <2>4. WholeAt(x)
    BY <1>1, <2>3 DEF WholeInv, Held
  <2>5. CASE x = c
    BY <1>1, <2>2, <2>4, <2>5, ContinueWhole
  <2>6. CASE x # c
    BY <1>0, <1>1, <2>3, <2>4, <2>6, WholeElsewhere
  <2>7. QED BY <2>5, <2>6
<1>2. ASSUME NEW r \in Req, Start(r), NEW x \in Company \ touched' PROVE WholeAt(x)'
  <2>1. PICK c \in Company :
          \/ \E n \in Limits, mods \in Plans : OnboardCompany(r, c, n, mods)
          \/ \E mods \in Plans : UpdateCompany(r, c, mods)
          \/ \E n \in Limits, force \in BOOLEAN : SetSeatLimit(r, c, n, force)
          \/ \E e \in Email : CreateEmployee(r, c, e) \/ CreateOwnEmployee(r, c, e)
          \/ \E hard \in BOOLEAN : TeardownCompany(r, c, hard)
          \/ Resume(r, c)
    BY <1>2 DEF Start
  <2>2. Fresh(r, c)
    BY <2>1, StartMoves
  <2>3. Held(c) /\ (\A s \in Req \ {r} : req'[s] = req[s]) /\ (req'[r].op # "idle" => req'[r].company = c)
    BY <2>2 DEF Fresh
  <2>4. WholeAt(x)
    BY <1>2, <2>3 DEF WholeInv, Held
  <2>5. CASE x = c
    BY <1>2, <2>1, <2>4, <2>5, StartWhole
  <2>6. CASE x # c
    BY <1>0, <1>2, <2>3, <2>4, <2>6, WholeElsewhere
  <2>7. QED BY <2>5, <2>6
<1>3. ASSUME NEW c \in Company, NEW status \in Statuses, SetCompanyStatus(c, status), NEW x \in Company \ touched'
      PROVE  WholeAt(x)'
  <2>1. Held(c) /\ UNCHANGED req /\ c \in touched'
    BY <1>3, SetCompanyStatusMoves
  <2>2. x # c /\ WholeAt(x)
    BY <1>3, <2>1 DEF WholeInv, Held
  <2>3. company'[x] = company[x] /\ tenant'[x] = tenant[x] /\ job'[x] = job[x] /\ (x \in mixed => x \in mixed')
    BY <1>3, <2>1, <2>2 DEF Held
  <2>4. QED BY <1>0, <1>3, <2>1, <2>2, <2>3, Untouched
<1>4. ASSUME UNCHANGED vars, NEW x \in Company \ touched' PROVE WholeAt(x)'
  BY <1>0, <1>4, Untouched DEF vars, WholeInv
<1>5. QED BY <1>1, <1>2, <1>3, <1>4 DEF Next, WholeInv

LEMMA ShapeInit == Init => CompanyShape
<1> SUFFICES ASSUME Init PROVE CompanyShape
  OBVIOUS
<1>1. company \in [Company -> Entry]
  BY DEF Init, Entry, Statuses
<1>2. Empty \in Database /\ NoJob \in Jobs
  BY DEF Empty, Database, NoJob, Jobs
<1>3. tenant \in [Company -> Database] /\ job \in [Company -> Jobs] /\ drift \in [Company -> Int]
  BY <1>2 DEF Init
<1>4. Idle.op = "idle" /\ Idle \in Request
  BY DEF Idle, Request, Ops, Steps
<1>5. Placed(Idle)
  BY <1>4 DEF Placed, InRun
<1>6. Requests
  BY <1>4, <1>5 DEF Init, Requests
<1>7. QED BY <1>1, <1>3, <1>6 DEF CompanyShape

LEMMA WholeInit == Init => WholeInv
<1> SUFFICES ASSUME Init, NEW c \in Company PROVE WholeAt(c)
  BY DEF WholeInv
<1>1. company[c].status = "none" /\ \A s \in StepName : job[c].steps[s] = "pending"
  BY DEF Init, NoJob
<1>2. \A r \in Req : req[r].op = "idle"
  BY DEF Init, Idle
<1>3. QED BY <1>1, <1>2 DEF WholeAt, On, Updating

(* Companies are of the shape their invariants speak about.                 *)
LEMMA Shapes == Spec => []CompanyShape
<1>1. Init => CompanyShape
  BY ShapeInit
<1>2. CompanyShape /\ [Next]_vars => CompanyShape'
  BY ShapeKept
<1>3. QED BY <1>1, <1>2, PTL DEF Spec

(* An active company that no person's hand changed is a whole one, whatever *)
(* failed, crashed and was resumed on the way (engine.py run_provision_job, *)
(* companies/service.py update_company): every step of provisioning left    *)
(* its mark, and unless two updates overlapped all its modules are seeded.  *)
THEOREM ActiveWhole == Spec => []ActiveIsWhole
<1>1. CompanyShape /\ WholeInv /\ [Next]_vars => WholeInv'
  BY WholeStep
<1>2. WholeInv => ActiveIsWhole
  <2> SUFFICES ASSUME WholeInv, NEW c \in Company \ touched, company[c].status = "active"
               PROVE  /\ tenant[c].meta /\ tenant[c].roles /\ tenant[c].owner /\ tenant[c].indexed /\ tenant[c].profile
                      /\ c \notin mixed => company[c].enabled \subseteq tenant[c].seeded
    BY DEF ActiveIsWhole
  <2>1. \A s \in StepName : Marks(c, s)
    BY DEF WholeInv, WholeAt
  <2>2. /\ Marks(c, "create_db") /\ Marks(c, "seed_modules") /\ Marks(c, "seed_rbac")
        /\ Marks(c, "create_owner_user") /\ Marks(c, "seed_settings")
    BY <2>1, StepNames
  <2>3. QED BY <2>2 DEF Marks
<1>3. QED BY <1>1, <1>2, Shapes, WholeInit, PTL DEF Spec

-----------------------------------------------------------------------------
(* Seats.  A request may hold one for an employee not inserted yet, or owe  *)
(* one for an owner not counted yet.                                        *)
Holding(c) == {r \in Req : req[r].company = c /\ Claimed(r)}
Owing(c)   == {r \in Req : req[r].company = c /\ Uncounted(r)}
Claim(r, c) == IF req[r].company = c /\ Claimed(r) THEN 1 ELSE 0
Debt(r, c)  == IF req[r].company = c /\ Uncounted(r) THEN 1 ELSE 0
Slack(r, c) == company[c].used - People(c) - drift[c] - Claim(r, c) + Debt(r, c)

Within(c) ==
  c \notin lowered => /\ company[c].used <= company[c].limit + (IF tenant[c].owner THEN 1 ELSE 0)
                      /\ Owing(c) # {} => company[c].used <= company[c].limit
SeatsAt(c) ==
  /\ company[c].used = People(c) + drift[c] + Cardinality(Holding(c)) - Cardinality(Owing(c))
  /\ Owing(c) # {} => tenant[c].owner
  /\ \A r, s \in Owing(c) : r = s
  /\ company[c].status = "none" => company[c].used = 0
  /\ Within(c)
SeatsInv == \A c \in Company \ touched : SeatsAt(c)

LEMMA HoldingCounts ==
  ASSUME NEW c \in Company, NEW r \in Req, \A s \in Req \ {r} : req'[s] = req[s]
  PROVE  /\ Cardinality(Holding(c)) \in Nat /\ Cardinality(Holding(c))' \in Nat
         /\ Cardinality(Holding(c))' - Claim(r, c)' = Cardinality(Holding(c)) - Claim(r, c)
<1> DEFINE R == {s \in Req \ {r} : req[s].company = c /\ Claimed(s)}
<1>1. IsFiniteSet(R) /\ IsFiniteSet(Req)
  BY FiniteAssumption, FS_Subset
<1>2. r \notin R /\ Cardinality(R) \in Nat /\ IsFiniteSet(R \cup {r}) /\ Cardinality(R \cup {r}) = Cardinality(R) + 1
  BY <1>1, FS_AddElement, FS_CardinalityType
<1>3. \A s \in Req \ {r} : Claimed(s)' <=> Claimed(s)
  BY DEF Claimed
<1>4. Holding(c) = IF req[r].company = c /\ Claimed(r) THEN R \cup {r} ELSE R
  BY DEF Holding
<1>5. Holding(c)' = IF req'[r].company = c /\ Claimed(r)' THEN R \cup {r} ELSE R
  BY <1>3 DEF Holding
<1>p. PICK S : S = R
  OBVIOUS
<1> HIDE DEF R
<1>6. Cardinality(Holding(c)) = Cardinality(S) + Claim(r, c)
  BY <1>2, <1>4, <1>p DEF Claim
<1>7. Cardinality(Holding(c))' = Cardinality(S) + Claim(r, c)'
  BY <1>2, <1>5, <1>p DEF Claim
<1>8. Cardinality(S) \in Nat /\ Claim(r, c) \in Nat /\ Claim(r, c)' \in Nat
  BY <1>2, <1>p DEF Claim
<1>9. QED BY <1>6, <1>7, <1>8

LEMMA OwingCounts ==
  ASSUME NEW c \in Company, NEW r \in Req, \A s \in Req \ {r} : req'[s] = req[s]
  PROVE  /\ Cardinality(Owing(c)) \in Nat /\ Cardinality(Owing(c))' \in Nat
         /\ Cardinality(Owing(c))' - Debt(r, c)' = Cardinality(Owing(c)) - Debt(r, c)
<1> DEFINE R == {s \in Req \ {r} : req[s].company = c /\ Uncounted(s)}
<1>1. IsFiniteSet(R) /\ IsFiniteSet(Req)
  BY FiniteAssumption, FS_Subset
<1>2. r \notin R /\ Cardinality(R) \in Nat /\ IsFiniteSet(R \cup {r}) /\ Cardinality(R \cup {r}) = Cardinality(R) + 1
  BY <1>1, FS_AddElement, FS_CardinalityType
<1>3. \A s \in Req \ {r} : Uncounted(s)' <=> Uncounted(s)
  BY DEF Uncounted
<1>4. Owing(c) = IF req[r].company = c /\ Uncounted(r) THEN R \cup {r} ELSE R
  BY DEF Owing
<1>5. Owing(c)' = IF req'[r].company = c /\ Uncounted(r)' THEN R \cup {r} ELSE R
  BY <1>3 DEF Owing
<1>p. PICK S : S = R
  OBVIOUS
<1> HIDE DEF R
<1>6. Cardinality(Owing(c)) = Cardinality(S) + Debt(r, c)
  BY <1>2, <1>4, <1>p DEF Debt
<1>7. Cardinality(Owing(c))' = Cardinality(S) + Debt(r, c)'
  BY <1>2, <1>5, <1>p DEF Debt
<1>8. Cardinality(S) \in Nat /\ Debt(r, c) \in Nat /\ Debt(r, c)' \in Nat
  BY <1>2, <1>p DEF Debt
<1>9. QED BY <1>6, <1>7, <1>8

LEMMA PeopleInt ==
  ASSUME CompanyShape, NEW c \in Company
  PROVE  People(c) \in Int /\ Net(Email, tenant[c].staff) \in Int /\ tenant[c].staff \in [Email -> Int]
<1>1. tenant[c].staff \in [Email -> Nat]
  BY DEF CompanyShape, Database
<1>2. tenant[c].staff \in [Email -> Int]
  BY <1>1
<1>3. Net(Email, tenant[c].staff) \in Int
  BY <1>2, FiniteAssumption, NetInt
<1>4. QED BY <1>2, <1>3 DEF People

(* One request goes on, and what it held, owed or left behind accounts for  *)
(* the change of the seats.                                                 *)
LEMMA SeatStep ==
  ASSUME CompanyShape, CompanyShape', NEW c \in Company, NEW r \in Req, \A s \in Req \ {r} : req'[s] = req[s],
         SeatsAt(c), Slack(r, c)' = Slack(r, c),
         tenant[c].owner => tenant'[c].owner,
         Debt(r, c)' = 1 => tenant'[c].owner /\ (Debt(r, c) = 1 \/ ~ tenant[c].owner),
         company'[c].status = "none" => company'[c].used = 0,
         Within(c)'
  PROVE  SeatsAt(c)'
<1>1. /\ company[c].used \in Int /\ company'[c].used \in Int /\ drift[c] \in Int /\ drift'[c] \in Int
      /\ People(c) \in Int
  BY PeopleInt DEF CompanyShape, Entry
<1>2. People(c)' \in Int
  <2>1. tenant'[c].staff \in [Email -> Nat]
    BY DEF CompanyShape, Database
  <2>2. tenant'[c].staff \in [Email -> Int]
    BY <2>1
  <2>3. Net(Email, tenant'[c].staff) \in Int
    BY <2>2, FiniteAssumption, NetInt
  <2>4. QED BY <2>3 DEF People
<1>3. /\ Cardinality(Holding(c)) \in Nat /\ Cardinality(Holding(c))' \in Nat
      /\ Cardinality(Holding(c))' - Claim(r, c)' = Cardinality(Holding(c)) - Claim(r, c)
  BY HoldingCounts
<1>4. /\ Cardinality(Owing(c)) \in Nat /\ Cardinality(Owing(c))' \in Nat
      /\ Cardinality(Owing(c))' - Debt(r, c)' = Cardinality(Owing(c)) - Debt(r, c)
  BY OwingCounts
<1>5. /\ Claim(r, c) \in Int /\ Claim(r, c)' \in Int /\ Debt(r, c) \in Int /\ Debt(r, c)' \in Int
  BY DEF Claim, Debt
<1>6. company[c].used = People(c) + drift[c] + Cardinality(Holding(c)) - Cardinality(Owing(c))
  BY DEF SeatsAt
<1>7. company'[c].used - People(c)' - drift'[c] - Claim(r, c)' + Debt(r, c)'
      = company[c].used - People(c) - drift[c] - Claim(r, c) + Debt(r, c)
  BY DEF Slack
<1>8. company'[c].used = People(c)' + drift'[c] + Cardinality(Holding(c))' - Cardinality(Owing(c))'
  <2>1. \A a, b, d, h, o, m, n \in Int : a = b + d + h - o => a - b - d - m + n = (h - m) - (o - n)
    OBVIOUS
  <2>2. \A a, b, d, h, o, m, n \in Int : a - b - d - m + n = (h - m) - (o - n) => a = b + d + h - o
    OBVIOUS
  <2>3. /\ Cardinality(Holding(c)) \in Int /\ Cardinality(Holding(c))' \in Int
        /\ Cardinality(Owing(c)) \in Int /\ Cardinality(Owing(c))' \in Int
    BY <1>3, <1>4
  <2>4. company[c].used - People(c) - drift[c] - Claim(r, c) + Debt(r, c)
        = (Cardinality(Holding(c)) - Claim(r, c)) - (Cardinality(Owing(c)) - Debt(r, c))
    BY <1>1, <1>5, <1>6, <2>1, <2>3
  <2>5. company'[c].used - People(c)' - drift'[c] - Claim(r, c)' + Debt(r, c)'
        = (Cardinality(Holding(c))' - Claim(r, c)') - (Cardinality(Owing(c))' - Debt(r, c)')
    BY <1>3, <1>4, <1>7, <2>4, Zenon
  <2>6. QED BY <1>1, <1>2, <1>5, <2>2, <2>3, <2>5
<1>9. \A s \in Req : s \in Owing(c)' => s \in Owing(c) \/ (s = r /\ Debt(r, c)' = 1)
  BY DEF Owing, Uncounted, Debt
<1>10. Debt(r, c) = 1 => r \in Owing(c)
  BY DEF Debt, Owing
<1>11. Owing(c) \subseteq Req /\ Owing(c)' \subseteq Req
  BY DEF Owing
<1>12. Owing(c)' # {} => tenant'[c].owner
  BY <1>9, <1>11 DEF SeatsAt
<1>13. \A x, y \in Owing(c)' : x = y
  BY <1>9, <1>10, <1>11 DEF SeatsAt
<1>14. QED BY <1>8, <1>12, <1>13 DEF SeatsAt

LEMMA WithinKept ==
  ASSUME CompanyShape, CompanyShape', NEW c \in Company, NEW r \in Req, \A s \in Req \ {r} : req'[s] = req[s],
         Within(c), lowered \subseteq lowered',
         company'[c].used <= company[c].used, company'[c].limit = company[c].limit,
         tenant[c].owner => tenant'[c].owner, Debt(r, c)' <= Debt(r, c)
  PROVE  Within(c)'
<1>1. /\ company[c].used \in Int /\ company'[c].used \in Int /\ company[c].limit \in Int
  BY DEF CompanyShape, Entry
<1>2. \A s \in Req : s \in Owing(c)' => s \in Owing(c)
  BY DEF Owing, Uncounted, Debt
<1>3. Owing(c)' # {} => Owing(c) # {}
  BY <1>2 DEF Owing
<1>4. PICK k : k = IF tenant[c].owner THEN 1 ELSE 0
  OBVIOUS
<1>5. PICK l : l = IF tenant'[c].owner THEN 1 ELSE 0
  OBVIOUS
<1>6. k \in Int /\ l \in Int /\ k <= l
  BY <1>4, <1>5
<1>7. ASSUME c \notin lowered' PROVE company'[c].used <= company'[c].limit + l /\ (Owing(c)' # {} => company'[c].used <= company'[c].limit)
  <2>1. c \notin lowered
    BY <1>7
  <2>2. /\ company[c].used <= company[c].limit + IF tenant[c].owner THEN 1 ELSE 0
        /\ Owing(c) # {} => company[c].used <= company[c].limit
    BY <2>1 DEF Within
  <2>3. company[c].used <= company[c].limit + k
    BY <1>4, <2>2
  <2>4. QED BY <1>1, <1>3, <1>6, <2>2, <2>3
<1>8. QED BY <1>5, <1>7 DEF Within

(* A step that is about something else.                                     *)
LEMMA SeatsSame ==
  ASSUME CompanyShape, CompanyShape', NEW c \in Company, NEW r \in Req, \A s \in Req \ {r} : req'[s] = req[s],
         SeatsAt(c), lowered \subseteq lowered',
         company'[c].used = company[c].used, company'[c].limit = company[c].limit,
         company'[c].status = "none" => company[c].status = "none",
         tenant'[c].owner = tenant[c].owner, tenant'[c].staff = tenant[c].staff, drift'[c] = drift[c],
         Claim(r, c)' = Claim(r, c), Debt(r, c)' = Debt(r, c)
  PROVE  SeatsAt(c)'
<1>1. People(c)' = People(c)
  BY DEF People
<1>2. Slack(r, c)' = Slack(r, c)
  BY <1>1 DEF Slack
<1>3. company'[c].used \in Int /\ Debt(r, c) \in Int
  BY DEF CompanyShape, Entry, Debt
<1>4. Within(c)'
  BY <1>3, WithinKept DEF SeatsAt
<1>5. Debt(r, c)' = 1 => tenant'[c].owner /\ (Debt(r, c) = 1 \/ ~ tenant[c].owner)
  BY DEF SeatsAt, Debt, Owing
<1>6. company'[c].status = "none" => company'[c].used = 0
  BY DEF SeatsAt
<1>7. QED BY <1>2, <1>4, <1>5, <1>6, SeatStep

(* One more account at an address is one more person.                       *)
LEMMA UnitsAlike ==
  ASSUME NEW S, NEW w, NEW v, \A s \in S : w[s] = v[s]
  PROVE  Units(S, w) = Units(S, v)
<1>1. \A s \in S : {s} \X (1 .. w[s]) = {s} \X (1 .. v[s])
  OBVIOUS
<1>2. QED BY <1>1 DEF Units

LEMMA OneMore ==
  ASSUME NEW d \in [Email -> Int], NEW e \in Email, NEW f \in [Email -> Int], f = [d EXCEPT ![e] = @ + 1]
  PROVE  Net(Email, f) = Net(Email, d) + 1
<1> DEFINE R == Email \ {e}
<1>1. IsFiniteSet(Email) /\ R \subseteq Email
  BY FiniteAssumption
<1>2. Net(R, f) = Net(Email, f) - f[e] /\ Net(R, d) = Net(Email, d) - d[e]
  <2>1. ASSUME NEW g \in [Email -> Int] PROVE \A S \in SUBSET Email : IsFiniteSet(S) => \A y \in S : Net(S \ {y}, g) = Net(S, g) - g[y]
    BY NetRemove
  <2>2. Email \in SUBSET Email
    OBVIOUS
  <2>3. Net(Email \ {e}, f) = Net(Email, f) - f[e]
    BY <1>1, <2>1, <2>2
  <2>4. Net(Email \ {e}, d) = Net(Email, d) - d[e]
    BY <1>1, <2>1, <2>2
  <2>5. QED BY <2>3, <2>4
<1>3. Net(R, f) = Net(R, d)
  <2>1. \A s \in R : Gains(f)[s] = Gains(d)[s] /\ Losses(f)[s] = Losses(d)[s]
    BY DEF Gains, Losses
  <2>2. Units(R, Gains(f)) = Units(R, Gains(d)) /\ Units(R, Losses(f)) = Units(R, Losses(d))
    <3> HIDE DEF R
    <3>1. QED BY <2>1, UnitsAlike
  <2>3. QED BY <2>2 DEF Net
<1>4. Net(Email, f) \in Int /\ Net(Email, d) \in Int /\ f[e] = d[e] + 1 /\ d[e] \in Int
  BY <1>1, NetInt
<1> HIDE DEF R
<1>5. Net(Email, f) - f[e] = Net(Email, d) - d[e]
  BY <1>2, <1>3
<1>6. QED BY <1>4, <1>5

(* What a request holds and owes, by the step it is at.                     *)
LEMMA WentClaims ==
  ASSUME NEW r \in Req, NEW c \in Company, c = req[r].company, NEW n, Went(r, n)
  PROVE  /\ Claim(r, c)' = IF req[r].op = "employee" /\ n \in {"insert", "release"} THEN 1 ELSE 0
         /\ Debt(r, c)' = IF req[r].op = "run" /\ n \in {"index_new", "owner_seat"} THEN 1 ELSE 0
BY DEF Went, Claim, Debt, Claimed, Uncounted

LEMMA IdleClaims ==
  ASSUME NEW r \in Req, NEW c \in Company, req'[r] = Idle
  PROVE  Claim(r, c)' = 0 /\ Debt(r, c)' = 0
BY DEF Idle, Claim, Debt, Claimed, Uncounted

LEMMA NowClaims ==
  ASSUME NEW r \in Req, NEW c \in Company, c = req[r].company
  PROVE  /\ Claim(r, c) = IF req[r].op = "employee" /\ req[r].step \in {"insert", "release"} THEN 1 ELSE 0
         /\ Debt(r, c) = IF req[r].op = "run" /\ req[r].step \in {"index_new", "owner_seat"} THEN 1 ELSE 0
         /\ Leak(r) = Claim(r, c) - Debt(r, c)
<1>1. CASE Uncounted(r)
  BY <1>1 DEF Claim, Debt, Claimed, Uncounted, Leak
<1>2. CASE ~ Uncounted(r) /\ Claimed(r)
  BY <1>2 DEF Claim, Debt, Claimed, Uncounted, Leak
<1>3. CASE ~ Uncounted(r) /\ ~ Claimed(r)
  BY <1>3 DEF Claim, Debt, Claimed, Uncounted, Leak
<1>4. QED BY <1>1, <1>2, <1>3

LEMMA MovedShape ==
  ASSUME NEW r \in Req, NEW c \in Company, c = req[r].company, Moved(r)
  PROVE  CompanyShape' /\ (\A s \in Req \ {r} : req'[s] = req[s]) /\ lowered \subseteq lowered'
BY DEF Moved, Turned, Held, CompanyShape

(* A step that leaves seats, people and what is held and owed as they were. *)
LEMMA QuietSeats ==
  ASSUME CompanyShape, NEW r \in Req, NEW c \in Company, c = req[r].company, SeatsAt(c), Moved(r),
         company'[c].used = company[c].used, company'[c].limit = company[c].limit,
         company'[c].status = "none" => company[c].status = "none",
         tenant'[c].owner = tenant[c].owner, tenant'[c].staff = tenant[c].staff, drift'[c] = drift[c],
         Claim(r, c)' = Claim(r, c), Debt(r, c)' = Debt(r, c)
  PROVE  SeatsAt(c)'
<1>1. CompanyShape' /\ (\A s \in Req \ {r} : req'[s] = req[s]) /\ lowered \subseteq lowered'
  BY MovedShape
<1>2. QED BY <1>1, SeatsSame

(* A step of a run or of an update that has nothing to do with seats.       *)
LEMMA QuietStep ==
  ASSUME CompanyShape, NEW r \in Req, NEW c \in Company, c = req[r].company, SeatsAt(c), Moved(r),
         req[r].op \in {"run", "update"}, req[r].step \notin {"index_new", "owner_seat"},
         req'[r].step \notin {"index_new", "owner_seat"},
         company'[c].used = company[c].used, company'[c].limit = company[c].limit,
         company'[c].status = "none" => company[c].status = "none",
         tenant'[c].owner = tenant[c].owner, tenant'[c].staff = tenant[c].staff, drift'[c] = drift[c]
  PROVE  SeatsAt(c)'
<1>1. Claim(r, c) = 0 /\ Debt(r, c) = 0
  BY NowClaims
<1>2. req'[r].op \in {"idle", "run", "update"}
  BY DEF Moved, Turned
<1>3. Claim(r, c)' = 0 /\ Debt(r, c)' = 0
  BY <1>2 DEF Claim, Debt, Claimed, Uncounted
<1>4. QED BY <1>1, <1>3, QuietSeats

LEMMA IdleStep == Idle.step \notin {"index_new", "owner_seat"}
BY DEF Idle

LEMMA RunsSeats ==
  ASSUME CompanyShape, NEW r \in Req, NEW c \in Company, c = req[r].company, SeatsAt(c),
         \/ CreateJob(r) \/ StartStep(r) \/ FinishStep(r) \/ CreateDb(r) \/ SeedModules(r) \/ SeedRbac(r)
         \/ SeedSettings(r) \/ Finalize(r) \/ CloseJob(r) \/ FailStep(r) \/ FailJob(r) \/ FailCompany(r)
         \/ UpdateSeed(r) \/ UpdateRoles(r) \/ UpdateWrite(r)
  PROVE  SeatsAt(c)'
<1>0. company[c] \in Entry /\ tenant[c] \in Database
  BY DEF CompanyShape
<1>1. CASE CreateJob(r)
  <2>1. /\ Moved(r) /\ req[r].op \in {"run", "update"} /\ req[r].step \notin {"index_new", "owner_seat"}
        /\ req'[r].step \notin {"index_new", "owner_seat"}
    BY <1>1, CreateJobMoves, IdleStep DEF Went, InRun, CreateJob, At
  <2>2. UNCHANGED <<company, tenant, drift>>
    BY <1>0, <1>1, CreateJobMoves DEF past, Entry, Database
  <2>3. QED BY <2>1, <2>2, QuietStep
<1>2. CASE StartStep(r)
  <2>1. /\ Moved(r) /\ req[r].op \in {"run", "update"} /\ req[r].step \notin {"index_new", "owner_seat"}
        /\ req'[r].step \notin {"index_new", "owner_seat"}
    BY <1>2, StartStepMoves, IdleStep, StepNames DEF Went, InRun
  <2>2. UNCHANGED <<company, tenant, drift>>
    BY <1>0, <1>2, StartStepMoves DEF past, Entry, Database
  <2>3. QED BY <2>1, <2>2, QuietStep
<1>3. CASE FinishStep(r)
  <2>1. /\ Moved(r) /\ req[r].op \in {"run", "update"} /\ req[r].step \notin {"index_new", "owner_seat"}
        /\ req'[r].step \notin {"index_new", "owner_seat"}
    BY <1>3, FinishStepMoves, IdleStep DEF Went, InRun
  <2>2. UNCHANGED <<company, tenant, drift>>
    BY <1>0, <1>3, FinishStepMoves DEF past, Entry, Database
  <2>3. QED BY <2>1, <2>2, QuietStep
<1>4. CASE CreateDb(r)
  <2>1. /\ Moved(r) /\ req[r].op \in {"run", "update"} /\ req[r].step \notin {"index_new", "owner_seat"}
        /\ req'[r].step \notin {"index_new", "owner_seat"}
    BY <1>4, CreateDbMoves, IdleStep DEF Went, InRun
  <2>2. UNCHANGED <<company, drift>> /\ tenant'[c].owner = tenant[c].owner /\ tenant'[c].staff = tenant[c].staff
    BY <1>0, <1>4, CreateDbMoves DEF past, Entry, Database
  <2>3. QED BY <2>1, <2>2, QuietStep
<1>5. CASE SeedModules(r)
  <2>1. /\ Moved(r) /\ req[r].op \in {"run", "update"} /\ req[r].step \notin {"index_new", "owner_seat"}
        /\ req'[r].step \notin {"index_new", "owner_seat"}
    BY <1>5, SeedModulesMoves, IdleStep DEF Went, InRun
  <2>2. UNCHANGED <<company, drift>>
    BY <1>5, SeedModulesMoves DEF past
  <2>4. tenant'[c].owner = tenant[c].owner /\ tenant'[c].staff = tenant[c].staff
    <3>1. CASE UNCHANGED tenant
      BY <3>1
    <3>2. CASE ~ UNCHANGED tenant
      <4>1. \E m \in req[r].mods :
              tenant'[req[r].company] = [tenant[req[r].company] EXCEPT !.seeded = @ \cup {m},
                                                                        !.roles = @ \/ m = "settings"]
        BY <1>5, <3>2, SeedModulesMoves
      <4>2. QED BY <1>0, <4>1 DEF Database
    <3>3. QED BY <3>1, <3>2
  <2>3. QED BY <2>1, <2>2, <2>4, QuietStep
<1>6. CASE SeedRbac(r)
  <2>1. /\ Moved(r) /\ req[r].op \in {"run", "update"} /\ req[r].step \notin {"index_new", "owner_seat"}
        /\ req'[r].step \notin {"index_new", "owner_seat"}
    BY <1>6, SeedRbacMoves, IdleStep DEF Went, InRun
  <2>2. UNCHANGED <<company, drift>> /\ tenant'[c].owner = tenant[c].owner /\ tenant'[c].staff = tenant[c].staff
    BY <1>0, <1>6, SeedRbacMoves DEF past, Entry, Database
  <2>3. QED BY <2>1, <2>2, QuietStep
<1>7. CASE SeedSettings(r)
  <2>1. /\ Moved(r) /\ req[r].op \in {"run", "update"} /\ req[r].step \notin {"index_new", "owner_seat"}
        /\ req'[r].step \notin {"index_new", "owner_seat"}
    BY <1>7, SeedSettingsMoves, IdleStep DEF Went, InRun
  <2>2. UNCHANGED <<company, drift>> /\ tenant'[c].owner = tenant[c].owner /\ tenant'[c].staff = tenant[c].staff
    BY <1>0, <1>7, SeedSettingsMoves DEF past, Entry, Database
  <2>3. QED BY <2>1, <2>2, QuietStep
<1>8. CASE Finalize(r)
  <2>1. /\ Moved(r) /\ req[r].op \in {"run", "update"} /\ req[r].step \notin {"index_new", "owner_seat"}
        /\ req'[r].step \notin {"index_new", "owner_seat"}
    BY <1>8, FinalizeMoves, IdleStep DEF Went, InRun
  <2>2. /\ UNCHANGED <<tenant, drift>> /\ company'[c].used = company[c].used /\ company'[c].limit = company[c].limit
        /\ company'[c].status = "none" => company[c].status = "none"
    BY <1>0, <1>8, FinalizeMoves DEF past, Entry, Database
  <2>3. QED BY <2>1, <2>2, QuietStep
<1>9. CASE CloseJob(r)
  <2>1. /\ Moved(r) /\ req[r].op \in {"run", "update"} /\ req[r].step \notin {"index_new", "owner_seat"}
        /\ req'[r].step \notin {"index_new", "owner_seat"}
    BY <1>9, CloseJobMoves, IdleStep DEF Went, InRun
  <2>2. UNCHANGED <<company, tenant, drift>>
    BY <1>0, <1>9, CloseJobMoves DEF past, Entry, Database
  <2>3. QED BY <2>1, <2>2, QuietStep
<1>10. CASE FailStep(r)
  <2>1. /\ Moved(r) /\ req[r].op \in {"run", "update"} /\ req[r].step \notin {"index_new", "owner_seat"}
        /\ req'[r].step \notin {"index_new", "owner_seat"}
    BY <1>10, FailStepMoves, IdleStep DEF Went, InRun
  <2>2. UNCHANGED <<company, tenant, drift>>
    BY <1>0, <1>10, FailStepMoves DEF past, Entry, Database
  <2>3. QED BY <2>1, <2>2, QuietStep
<1>11. CASE FailJob(r)
  <2>1. /\ Moved(r) /\ req[r].op \in {"run", "update"} /\ req[r].step \notin {"index_new", "owner_seat"}
        /\ req'[r].step \notin {"index_new", "owner_seat"}
    BY <1>11, FailJobMoves, IdleStep DEF Went, InRun
  <2>2. UNCHANGED <<company, tenant, drift>>
    BY <1>0, <1>11, FailJobMoves DEF past, Entry, Database
  <2>3. QED BY <2>1, <2>2, QuietStep
<1>12. CASE FailCompany(r)
  <2>1. /\ Moved(r) /\ req[r].op \in {"run", "update"} /\ req[r].step \notin {"index_new", "owner_seat"}
        /\ req'[r].step \notin {"index_new", "owner_seat"}
    BY <1>12, FailCompanyMoves, IdleStep DEF Went, InRun
  <2>2. /\ UNCHANGED <<tenant, drift>> /\ company'[c].used = company[c].used /\ company'[c].limit = company[c].limit
        /\ company'[c].status = "none" => company[c].status = "none"
    BY <1>0, <1>12, FailCompanyMoves DEF past, Entry, Database
  <2>3. QED BY <2>1, <2>2, QuietStep
<1>13. CASE UpdateSeed(r)
  <2>1. Moved(r) /\ req[r].op = "update" /\ req[r].step = "seed" /\ UNCHANGED <<company, drift>>
    BY <1>13, UpdateSeedMoves DEF past
  <2>2. PICK m : tenant'[c] = [tenant[c] EXCEPT !.seeded = @ \cup {m}, !.roles = @ \/ m = "settings"]
    <3>1. \E m \in req[r].todo : tenant'[req[r].company] =
            [tenant[req[r].company] EXCEPT !.seeded = @ \cup {m}, !.roles = @ \/ m = "settings"]
      BY <1>13, UpdateSeedMoves
    <3>2. QED BY <3>1
  <2>3. tenant'[c].owner = tenant[c].owner /\ tenant'[c].staff = tenant[c].staff
    BY <1>0, <2>2 DEF Database
  <2>4. req'[r].step \in {"roles", "seed"}
    <3>1. req[r] \in Request /\ req \in [Req -> Request]
      BY DEF CompanyShape, Requests
    <3> DEFINE left == req[r].todo \ {NextSeed(req[r].todo)}
    <3>2. PICK n : n = IF left = {} THEN "roles" ELSE "seed"
      OBVIOUS
    <3>3. req' = [req EXCEPT ![r] = [req[r] EXCEPT !.todo = left, !.step = n]]
      BY <1>13, <3>2 DEF UpdateSeed, Become
    <3>4. QED BY <3>1, <3>2, <3>3 DEF Request
  <2>5. QED BY <2>1, <2>3, <2>4, QuietStep
<1>14. CASE UpdateRoles(r)
  <2>1. Moved(r) /\ req[r].op = "update" /\ req[r].step = "roles" /\ UNCHANGED <<company, drift>> /\ req'[r].step = "write"
    BY <1>14, UpdateRolesMoves DEF past, Went
  <2>2. tenant'[c] = [tenant[c] EXCEPT !.roles = TRUE]
    BY <1>14, UpdateRolesMoves
  <2>3. tenant'[c].owner = tenant[c].owner /\ tenant'[c].staff = tenant[c].staff
    BY <1>0, <2>2 DEF Database
  <2>4. QED BY <2>1, <2>3, QuietStep
<1>15. CASE UpdateWrite(r)
  <2>1. /\ Moved(r) /\ req[r].op \in {"run", "update"} /\ req[r].step \notin {"index_new", "owner_seat"}
        /\ req'[r].step \notin {"index_new", "owner_seat"}
    BY <1>15, UpdateWriteMoves, IdleStep DEF Went, InRun
  <2>2. /\ UNCHANGED <<tenant, drift>> /\ company'[c].used = company[c].used /\ company'[c].limit = company[c].limit
        /\ company'[c].status = "none" => company[c].status = "none"
    BY <1>0, <1>15, UpdateWriteMoves DEF past, Entry, Database
  <2>3. QED BY <2>1, <2>2, QuietStep
<1>16. QED BY <1>1, <1>2, <1>3, <1>4, <1>5, <1>6, <1>7, <1>8, <1>9, <1>10, <1>11, <1>12, <1>13, <1>14, <1>15

(* A step that moves seats, people or what is held and owed: what changed   *)
(* makes up for what changed.                                               *)
LEMMA MovedSeats ==
  ASSUME CompanyShape, NEW r \in Req, NEW c \in Company, c = req[r].company, SeatsAt(c), Moved(r),
         Slack(r, c)' = Slack(r, c),
         tenant[c].owner => tenant'[c].owner,
         Debt(r, c)' = 1 => tenant'[c].owner /\ (Debt(r, c) = 1 \/ ~ tenant[c].owner),
         company'[c].status = "none" => company'[c].used = 0,
         \/ Within(c)'
         \/ /\ company'[c].used <= company[c].used /\ company'[c].limit = company[c].limit
            /\ Debt(r, c)' <= Debt(r, c)
  PROVE  SeatsAt(c)'
<1>1. CompanyShape' /\ (\A s \in Req \ {r} : req'[s] = req[s]) /\ lowered \subseteq lowered'
  BY MovedShape
<1>2. Within(c)
  BY DEF SeatsAt
<1>3. Within(c)'
  BY <1>1, <1>2, WithinKept
<1>4. QED BY <1>1, <1>3, SeatStep

LEMMA ReserveSeats ==
  ASSUME CompanyShape, NEW r \in Req, Reserve(r), NEW c \in Company, c = req[r].company, WholeAt(c), SeatsAt(c)
  PROVE  SeatsAt(c)'
<1>0. company[c] \in Entry /\ tenant[c] \in Database /\ Requests /\ req[r] \in Request /\ drift[c] \in Int
  BY DEF CompanyShape, Requests
<1>1. Moved(r) /\ req[r].op = "run" /\ req[r].step = "reserve" /\ UNCHANGED <<tenant, drift>>
  BY ReserveMoves DEF past
<1>2. CASE req'[r] = Idle /\ UNCHANGED <<company, job>>
  BY <1>1, <1>2, IdleStep, QuietStep
<1>3. CASE /\ Free(c) /\ Went(r, "create_job")
           /\ company'[c] = [status |-> "provisioning", limit |-> req[r].limit, used |-> 0, enabled |-> req[r].mods]
  <2>1. company[c].used = 0 /\ company'[c].used = 0
    BY <1>3 DEF SeatsAt, WholeAt, Free
  <2>2. Claim(r, c) = 0 /\ Debt(r, c) = 0 /\ Claim(r, c)' = 0 /\ Debt(r, c)' = 0
    BY <1>1, <1>3, WentClaims, NowClaims
  <2>3. People(c)' = People(c) /\ drift'[c] = drift[c]
    BY <1>1 DEF People
  <2>4. Slack(r, c)' = Slack(r, c)
    BY <2>1, <2>2, <2>3 DEF Slack
  <2>5. company'[c].limit \in Nat
    BY <1>0, <1>3 DEF Request
  <2>6. Within(c)'
    BY <2>1, <2>5 DEF Within
  <2>7. QED BY <1>1, <2>1, <2>2, <2>4, <2>6, MovedSeats
<1>4. QED BY <1>2, <1>3, ReserveMoves

LEMMA CreateOwnerUserSeats ==
  ASSUME CompanyShape, NEW r \in Req, CreateOwnerUser(r), NEW c \in Company, c = req[r].company, WholeAt(c), SeatsAt(c)
  PROVE  SeatsAt(c)'
<1>0. company[c] \in Entry /\ tenant[c] \in Database /\ Requests /\ req[r] \in Request /\ drift[c] \in Int
  BY DEF CompanyShape, Requests
<1>1. /\ Moved(r) /\ req[r].op = "run" /\ req[r].step = "create_owner_user" /\ UNCHANGED <<company, drift>>
      /\ Went(r, IF tenant[c].owner THEN "index_old" ELSE "index_new")
      /\ tenant'[c] = [tenant[c] EXCEPT !.roles = TRUE, !.owner = TRUE]
  BY CreateOwnerUserMoves DEF past, InRun
<1>2. tenant'[c].owner = TRUE /\ tenant'[c].staff = tenant[c].staff /\ tenant[c].owner \in BOOLEAN
  BY <1>0, <1>1 DEF Database
<1>3. CASE tenant[c].owner
  <2>1. Went(r, "index_old")
    BY <1>1, <1>3
  <2>2. tenant'[c].owner = tenant[c].owner
    BY <1>2, <1>3
  <2>3. req'[r].step \notin {"index_new", "owner_seat"}
    BY <2>1 DEF Went
  <2>4. QED BY <1>1, <1>2, <2>2, <2>3, QuietStep
<1>4. CASE ~ tenant[c].owner
  <2>1. Went(r, "index_new")
    BY <1>1, <1>4
  <2>2. Claim(r, c) = 0 /\ Debt(r, c) = 0 /\ Claim(r, c)' = 0 /\ Debt(r, c)' = 1
    BY <1>1, <2>1, WentClaims, NowClaims
  <2>3. PICK n \in Int : n = Net(Email, tenant[c].staff)
    BY PeopleInt
  <2>4. People(c) = n + 0 /\ People(c)' = n + 1
    BY <1>2, <1>4, <2>3 DEF People
  <2>5. company'[c].used = company[c].used /\ company[c].used \in Int /\ drift'[c] = drift[c] /\ drift[c] \in Int
    BY <1>0, <1>1 DEF Entry
  <2>6. Slack(r, c)' = Slack(r, c)
    BY <2>2, <2>3, <2>4, <2>5 DEF Slack
  <2>7. Within(c)'
    <3>1. ASSUME c \notin lowered PROVE company[c].used <= company[c].limit + 0
      BY <1>4, <3>1 DEF SeatsAt, Within
    <3>2. company[c].limit \in Int /\ UNCHANGED company
      BY <1>0, <1>1 DEF Entry
    <3>3. lowered \subseteq lowered'
      BY <1>1, MovedShape
    <3>4. ASSUME c \notin lowered' PROVE company'[c].used <= company'[c].limit
      BY <2>5, <3>1, <3>2, <3>3, <3>4
    <3>5. ASSUME c \notin lowered' PROVE company'[c].used <= company'[c].limit + 1
      BY <2>5, <3>2, <3>4, <3>5
    <3>6. QED BY <1>2, <3>4, <3>5 DEF Within
  <2>8. company'[c].status = "none" => company'[c].used = 0
    BY <1>1 DEF SeatsAt
  <2>9. QED BY <1>1, <1>2, <1>4, <2>6, <2>7, <2>8, MovedSeats
<1>5. QED BY <1>3, <1>4

LEMMA IndexEmailsSeats ==
  ASSUME CompanyShape, NEW r \in Req, IndexEmails(r), NEW c \in Company, c = req[r].company, WholeAt(c), SeatsAt(c)
  PROVE  SeatsAt(c)'
<1>0. company[c] \in Entry /\ tenant[c] \in Database /\ Requests /\ req[r] \in Request /\ drift[c] \in Int
  BY DEF CompanyShape, Requests
<1>1. Moved(r) /\ req[r].op = "run" /\ req[r].step \in {"index_old", "index_new"} /\ UNCHANGED company
  BY IndexEmailsMoves DEF InRun
<1>2. company'[c].status = "none" => company'[c].used = 0
  BY <1>1 DEF SeatsAt
<1>3. Claim(r, c) = 0 /\ Debt(r, c) = IF req[r].step = "index_new" THEN 1 ELSE 0
  BY <1>1, NowClaims
<1>4. CASE /\ Went(r, "fail_step") /\ UNCHANGED tenant
           /\ drift'[c] = drift[c] + IF req[r].step = "index_new" THEN -1 ELSE 0
  <2>1. Claim(r, c)' = 0 /\ Debt(r, c)' = 0
    BY <1>4, WentClaims
  <2>2. People(c)' = People(c) /\ People(c) \in Int
    BY <1>4, PeopleInt DEF People
  <2>3. company'[c].used = company[c].used /\ company[c].used \in Int
    BY <1>0, <1>1 DEF Entry
  <2>4. CASE req[r].step = "index_new"
    <3>1. drift'[c] = drift[c] - 1 /\ Debt(r, c) = 1
      BY <1>0, <1>3, <1>4, <2>4
    <3>2. Slack(r, c)' = Slack(r, c)
      BY <1>0, <1>3, <2>1, <2>2, <2>3, <3>1 DEF Slack
    <3>3. company'[c].used <= company[c].used /\ company'[c].limit = company[c].limit /\ Debt(r, c)' <= Debt(r, c)
      BY <1>1, <2>1, <2>3, <3>1
    <3>4. QED BY <1>1, <1>2, <1>4, <2>1, <3>2, <3>3, MovedSeats
  <2>5. CASE req[r].step # "index_new"
    <3>1. drift'[c] = drift[c] /\ Debt(r, c) = 0
      BY <1>0, <1>3, <1>4, <2>5
    <3>2. QED BY <1>1, <1>3, <1>4, <2>1, <3>1, QuietSeats
  <2>6. QED BY <2>4, <2>5
<1>5. CASE /\ Went(r, IF req[r].step = "index_new" THEN "owner_seat" ELSE "finish") /\ UNCHANGED drift
           /\ tenant'[c] = [tenant[c] EXCEPT !.indexed = TRUE]
  <2>1. tenant'[c].owner = tenant[c].owner /\ tenant'[c].staff = tenant[c].staff
    BY <1>0, <1>5 DEF Database
  <2>2. Claim(r, c)' = Claim(r, c) /\ Debt(r, c)' = Debt(r, c)
    BY <1>1, <1>3, <1>5, WentClaims
  <2>3. QED BY <1>1, <1>5, <2>1, <2>2, QuietSeats
<1>6. QED BY <1>4, <1>5, IndexEmailsMoves

LEMMA CountOwnerSeats ==
  ASSUME CompanyShape, NEW r \in Req, CountOwner(r), NEW c \in Company, c = req[r].company, WholeAt(c), SeatsAt(c)
  PROVE  SeatsAt(c)'
<1>0. company[c] \in Entry /\ tenant[c] \in Database /\ Requests /\ req[r] \in Request /\ drift[c] \in Int
  BY DEF CompanyShape, Requests
<1>1. /\ Moved(r) /\ req[r].op = "run" /\ req[r].step = "owner_seat" /\ InRun(req[r]) /\ UNCHANGED <<tenant, drift>>
      /\ Went(r, "finish")
      /\ company'[c] = IF Exists(c) THEN [company[c] EXCEPT !.used = @ + 1] ELSE company[c]
  BY CountOwnerMoves DEF past
<1>2. Exists(c) /\ company[c].status # "none"
  BY <1>0, <1>1, StillThere
<1>3. /\ company'[c].used = company[c].used + 1 /\ company'[c].limit = company[c].limit
      /\ company'[c].status = company[c].status /\ company[c].used \in Int /\ company[c].limit \in Int
  BY <1>0, <1>1, <1>2 DEF Entry
<1>4. Claim(r, c) = 0 /\ Debt(r, c) = 1 /\ Claim(r, c)' = 0 /\ Debt(r, c)' = 0
  BY <1>1, WentClaims, NowClaims
<1>5. People(c)' = People(c) /\ People(c) \in Int
  BY <1>1, PeopleInt DEF People
<1>6. Slack(r, c)' = Slack(r, c)
  BY <1>0, <1>1, <1>3, <1>4, <1>5 DEF Slack
<1>7. r \in Owing(c) /\ tenant[c].owner
  BY <1>1 DEF Owing, Uncounted, SeatsAt
<1>8. Owing(c)' = {}
  <2>1. \A s \in Req : s \in Owing(c)' => s \in Owing(c) \/ (s = r /\ Debt(r, c)' = 1)
    BY <1>1, MovedShape DEF Owing, Uncounted, Debt
  <2>2. \A s \in Req : s \in Owing(c)' => s = r /\ Debt(r, c)' = 1
    <3>1. \A s \in Req : s = r => (s \in Owing(c)' => Debt(r, c)' = 1)
      BY DEF Owing, Debt
    <3>2. \A s \in Owing(c) : s = r
      BY <1>7 DEF SeatsAt
    <3>3. QED BY <2>1, <3>1, <3>2
  <2>3. \A s \in Owing(c)' : s \in Req
    BY DEF Owing
  <2>4. QED BY <1>4, <2>2, <2>3
<1>9. Within(c)'
  <2>1. ASSUME c \notin lowered PROVE company[c].used <= company[c].limit
    BY <1>7, <2>1 DEF SeatsAt, Within
  <2>2. lowered \subseteq lowered'
    BY <1>1, MovedShape
  <2>3. ASSUME c \notin lowered' PROVE company'[c].used <= company'[c].limit + 1
    BY <1>3, <2>1, <2>2, <2>3
  <2>4. tenant'[c].owner
    BY <1>1, <1>7
  <2>5. QED BY <1>8, <2>3, <2>4 DEF Within
<1>10. QED BY <1>1, <1>2, <1>3, <1>4, <1>6, <1>7, <1>9, MovedSeats

(* What a raised call or a crash leaves behind is what was held or owed.    *)
LEMMA LeakSeats ==
  ASSUME CompanyShape, NEW r \in Req, NEW c \in Company, c = req[r].company, SeatsAt(c), Moved(r),
         UNCHANGED <<company, tenant>>, drift'[c] = drift[c] + Leak(r), Claim(r, c)' = 0, Debt(r, c)' = 0
  PROVE  SeatsAt(c)'
<1>1. Leak(r) = Claim(r, c) - Debt(r, c) /\ Claim(r, c) \in {0, 1} /\ Debt(r, c) \in {0, 1}
  BY NowClaims
<1>2. company[c].used \in Int /\ drift[c] \in Int /\ People(c) \in Int /\ People(c)' = People(c)
  BY PeopleInt DEF CompanyShape, Entry, People
<1>3. Slack(r, c)' = Slack(r, c)
  BY <1>1, <1>2 DEF Slack
<1>4. company'[c].used <= company[c].used /\ company'[c].limit = company[c].limit /\ Debt(r, c)' <= Debt(r, c)
  BY <1>1, <1>2
<1>5. company'[c].status = "none" => company'[c].used = 0
  BY DEF SeatsAt
<1>6. QED BY <1>3, <1>4, <1>5, MovedSeats

LEMMA StepRaisesSeats ==
  ASSUME CompanyShape, NEW r \in Req, StepRaises(r), NEW c \in Company, c = req[r].company, WholeAt(c), SeatsAt(c)
  PROVE  SeatsAt(c)'
<1>0. company[c] \in Entry /\ tenant[c] \in Database /\ Requests /\ req[r] \in Request /\ drift[c] \in Int
  BY DEF CompanyShape, Requests
<1>1. Moved(r) /\ req[r].op = "run" /\ Went(r, "fail_step") /\ UNCHANGED <<company, tenant>> /\ drift'[c] = drift[c] + Leak(r)
  BY StepRaisesMoves
<1>2. Claim(r, c)' = 0 /\ Debt(r, c)' = 0
  BY <1>1, WentClaims
<1>3. QED BY <1>1, <1>2, LeakSeats

LEMMA CrashSeats ==
  ASSUME CompanyShape, NEW r \in Req, Crash(r), NEW c \in Company, c = req[r].company, WholeAt(c), SeatsAt(c)
  PROVE  SeatsAt(c)'
<1>0. company[c] \in Entry /\ tenant[c] \in Database /\ Requests /\ req[r] \in Request /\ drift[c] \in Int
  BY DEF CompanyShape, Requests
<1>1. Moved(r) /\ req'[r] = Idle /\ UNCHANGED <<company, tenant>> /\ drift'[c] = drift[c] + Leak(r)
  BY CrashMoves
<1>2. Claim(r, c)' = 0 /\ Debt(r, c)' = 0
  BY <1>1, IdleClaims
<1>3. QED BY <1>1, <1>2, LeakSeats

LEMMA SetSeatLimitWriteSeats ==
  ASSUME CompanyShape, NEW r \in Req, SetSeatLimitWrite(r), NEW c \in Company, c = req[r].company, WholeAt(c), SeatsAt(c)
  PROVE  SeatsAt(c)'
<1>0. company[c] \in Entry /\ tenant[c] \in Database /\ Requests /\ req[r] \in Request /\ drift[c] \in Int
  BY DEF CompanyShape, Requests
<1>1. /\ Moved(r) /\ req[r].op = "limit" /\ req[r].step = "write" /\ req'[r] = Idle /\ UNCHANGED <<tenant, drift>>
      /\ company'[c] = IF Exists(c) THEN [company[c] EXCEPT !.limit = req[r].limit] ELSE company[c]
      /\ req[r].limit < company[c].used => c \in lowered'
  BY SetSeatLimitWriteMoves
<1>2. Exists(c) /\ company[c].status # "none"
  BY <1>0, <1>1, StillThere
<1>3. /\ company'[c].used = company[c].used /\ company'[c].limit = req[r].limit /\ company'[c].status = company[c].status
      /\ company[c].used \in Int /\ req[r].limit \in Int
  BY <1>0, <1>1, <1>2 DEF Entry, Request
<1>4. Claim(r, c) = 0 /\ Debt(r, c) = 0 /\ Claim(r, c)' = 0 /\ Debt(r, c)' = 0
  BY <1>1, IdleClaims, NowClaims
<1>5. People(c)' = People(c)
  BY <1>1 DEF People
<1>6. Slack(r, c)' = Slack(r, c)
  BY <1>1, <1>3, <1>4, <1>5 DEF Slack
<1>7. Within(c)'
  <2>1. ASSUME c \notin lowered' PROVE company'[c].used <= company'[c].limit
    BY <1>1, <1>3, <2>1
  <2>2. ASSUME c \notin lowered' PROVE company'[c].used <= company'[c].limit + IF tenant'[c].owner THEN 1 ELSE 0
    BY <1>3, <2>1, <2>2
  <2>3. QED BY <2>1, <2>2 DEF Within
<1>8. /\ tenant[c].owner => tenant'[c].owner
      /\ Debt(r, c)' = 1 => tenant'[c].owner /\ (Debt(r, c) = 1 \/ ~ tenant[c].owner)
      /\ company'[c].status = "none" => company'[c].used = 0
  BY <1>1, <1>2, <1>3, <1>4
<1>9. Moved(r)
  BY <1>1
<1>10. QED BY <1>6, <1>7, <1>8, <1>9, MovedSeats

LEMMA ClaimSeatSeats ==
  ASSUME CompanyShape, NEW r \in Req, ClaimSeat(r), NEW c \in Company, c = req[r].company, WholeAt(c), SeatsAt(c)
  PROVE  SeatsAt(c)'
<1>0. company[c] \in Entry /\ tenant[c] \in Database /\ Requests /\ req[r] \in Request /\ drift[c] \in Int
  BY DEF CompanyShape, Requests
<1>1. Moved(r) /\ req[r].op = "employee" /\ req[r].step = "claim" /\ UNCHANGED <<tenant, drift>>
  BY ClaimSeatMoves DEF past
<1>2. Claim(r, c) = 0 /\ Debt(r, c) = 0
  BY <1>1, NowClaims
<1>3. CASE req'[r] = Idle /\ UNCHANGED company
  BY <1>1, <1>2, <1>3, IdleClaims, QuietSeats
<1>4. CASE /\ company[c].used < company[c].limit /\ Went(r, "insert")
           /\ company'[c] = [company[c] EXCEPT !.used = @ + 1]
  <2>1. /\ company'[c].used = company[c].used + 1 /\ company'[c].limit = company[c].limit
        /\ company'[c].status = company[c].status /\ company[c].used \in Int /\ company[c].limit \in Int
    BY <1>0, <1>4 DEF Entry
  <2>2. Claim(r, c)' = 1 /\ Debt(r, c)' = 0
    BY <1>1, <1>4, WentClaims
  <2>3. People(c)' = People(c) /\ People(c) \in Int
    BY <1>1, PeopleInt DEF People
  <2>4. Slack(r, c)' = Slack(r, c)
    BY <1>0, <1>1, <1>2, <2>1, <2>2, <2>3 DEF Slack
  <2>5. company'[c].used <= company'[c].limit
    BY <1>4, <2>1
  <2>6. \A k \in {0, 1} : company'[c].used <= company'[c].limit + k
    BY <2>1, <2>5
  <2>7. Within(c)'
    BY <2>5, <2>6 DEF Within
  <2>8. company[c].status # "none"
    BY <1>0, <1>1, StillThere
  <2>9. QED BY <1>1, <1>2, <2>1, <2>2, <2>4, <2>7, <2>8, MovedSeats
<1>5. QED BY <1>3, <1>4, ClaimSeatMoves

LEMMA InsertEmployeeSeats ==
  ASSUME CompanyShape, NEW r \in Req, InsertEmployee(r), NEW c \in Company, c = req[r].company, WholeAt(c), SeatsAt(c)
  PROVE  SeatsAt(c)'
<1>0. company[c] \in Entry /\ tenant[c] \in Database /\ Requests /\ req[r] \in Request /\ drift[c] \in Int
  BY DEF CompanyShape, Requests
<1>1. Moved(r) /\ req[r].op = "employee" /\ req[r].step = "insert" /\ UNCHANGED <<company, drift>>
  BY InsertEmployeeMoves DEF past
<1>2. Claim(r, c) = 1 /\ Debt(r, c) = 0
  BY <1>1, NowClaims
<1>3. CASE Went(r, "release") /\ UNCHANGED tenant
  BY <1>1, <1>2, <1>3, WentClaims, QuietSeats
<1>4. CASE /\ req'[r] = Idle /\ req[r].email \in Email
           /\ tenant'[c].staff = [tenant[c].staff EXCEPT ![req[r].email] = @ + 1]
           /\ tenant'[c] = [tenant[c] EXCEPT !.staff = tenant'[c].staff]
  <2>1. Claim(r, c)' = 0 /\ Debt(r, c)' = 0
    BY <1>4, IdleClaims
  <2>2. tenant[c].staff \in [Email -> Int] /\ tenant'[c].staff \in [Email -> Int]
    <3>1. tenant' \in [Company -> Database]
      BY <1>1 DEF Moved, Held
    <3>2. tenant[c].staff \in [Email -> Nat] /\ tenant'[c].staff \in [Email -> Nat]
      BY <1>0, <3>1 DEF Database
    <3>3. QED BY <3>2
  <2>3. PICK m, n : m = Net(Email, tenant[c].staff) /\ n = Net(Email, tenant'[c].staff)
    OBVIOUS
  <2>4. n = m + 1
    <3> DEFINE before == tenant[c].staff
               after  == tenant'[c].staff
               e == req[r].email
    <3>1. e \in Email /\ after = [before EXCEPT ![e] = @ + 1]
      BY <1>4
    <3>2. before \in [Email -> Int] /\ after \in [Email -> Int]
      BY <2>2
    <3> HIDE DEF before, after, e
    <3>3. Net(Email, after) = Net(Email, before) + 1
      BY <3>1, <3>2, OneMore
    <3>4. QED BY <2>3, <3>3 DEF before, after
  <2>5. m \in Int
    BY <2>3, PeopleInt
  <2>6. PICK k \in {0, 1} : k = IF tenant[c].owner THEN 1 ELSE 0
    OBVIOUS
  <2>7. tenant'[c].owner = tenant[c].owner
    BY <1>0, <1>4 DEF Database
  <2>8. People(c) = m + k /\ People(c)' = n + k
    BY <2>3, <2>6, <2>7 DEF People
  <2>9. company'[c].used = company[c].used /\ company[c].used \in Int /\ company'[c].limit = company[c].limit
    BY <1>0, <1>1 DEF Entry
  <2>10. Slack(r, c)' = Slack(r, c)
    BY <1>0, <1>1, <1>2, <2>1, <2>4, <2>5, <2>6, <2>8, <2>9 DEF Slack
  <2>11. company'[c].used <= company[c].used /\ Debt(r, c)' <= Debt(r, c)
    BY <1>2, <2>1, <2>9
  <2>12. company'[c].status = "none" => company'[c].used = 0
    BY <1>1 DEF SeatsAt
  <2>13. QED BY <1>1, <2>1, <2>7, <2>9, <2>10, <2>11, <2>12, MovedSeats
<1>5. QED BY <1>3, <1>4, InsertEmployeeMoves

LEMMA InsertRaisesSeats ==
  ASSUME CompanyShape, NEW r \in Req, InsertRaises(r), NEW c \in Company, c = req[r].company, WholeAt(c), SeatsAt(c)
  PROVE  SeatsAt(c)'
<1>0. company[c] \in Entry /\ tenant[c] \in Database /\ Requests /\ req[r] \in Request /\ drift[c] \in Int
  BY DEF CompanyShape, Requests
<1>1. Moved(r) /\ req[r].op = "employee" /\ req[r].step = "insert" /\ UNCHANGED <<company, tenant, drift>> /\ Went(r, "release")
  BY InsertRaisesMoves DEF past
<1>2. QED BY <1>1, WentClaims, NowClaims, QuietSeats

LEMMA ReleaseSeatSeats ==
  ASSUME CompanyShape, NEW r \in Req, ReleaseSeat(r), NEW c \in Company, c = req[r].company, WholeAt(c), SeatsAt(c)
  PROVE  SeatsAt(c)'
<1>0. company[c] \in Entry /\ tenant[c] \in Database /\ Requests /\ req[r] \in Request /\ drift[c] \in Int
  BY DEF CompanyShape, Requests
<1>1. /\ Moved(r) /\ req[r].op = "employee" /\ req[r].step = "release" /\ req'[r] = Idle /\ UNCHANGED <<tenant, drift>>
      /\ company'[c] = IF Exists(c) THEN [company[c] EXCEPT !.used = @ - 1] ELSE company[c]
  BY ReleaseSeatMoves DEF past
<1>2. Exists(c) /\ company[c].status # "none"
  BY <1>0, <1>1, StillThere
<1>3. /\ company'[c].used = company[c].used - 1 /\ company'[c].limit = company[c].limit
      /\ company'[c].status = company[c].status /\ company[c].used \in Int
  BY <1>0, <1>1, <1>2 DEF Entry
<1>4. Claim(r, c) = 1 /\ Debt(r, c) = 0 /\ Claim(r, c)' = 0 /\ Debt(r, c)' = 0
  BY <1>1, IdleClaims, NowClaims
<1>5. People(c)' = People(c) /\ People(c) \in Int
  BY <1>1, PeopleInt DEF People
<1>6. Slack(r, c)' = Slack(r, c)
  BY <1>0, <1>1, <1>3, <1>4, <1>5 DEF Slack
<1>7. company'[c].used <= company[c].used
  BY <1>3
<1>8. Debt(r, c)' <= Debt(r, c)
  BY <1>4
<1>9. /\ tenant[c].owner => tenant'[c].owner
      /\ Debt(r, c)' = 1 => tenant'[c].owner /\ (Debt(r, c) = 1 \/ ~ tenant[c].owner)
      /\ company'[c].status = "none" => company'[c].used = 0
  BY <1>1, <1>2, <1>3, <1>4
<1>10. Moved(r)
  BY <1>1
<1>11. QED BY <1>3, <1>6, <1>7, <1>8, <1>9, <1>10, MovedSeats

LEMMA ContinueSeats ==
  ASSUME CompanyShape, NEW r \in Req, Continue(r) \/ Fail(r), NEW c \in Company, c = req[r].company,
         WholeAt(c), SeatsAt(c)
  PROVE  SeatsAt(c)'
<1>1. CASE \/ CreateJob(r) \/ StartStep(r) \/ FinishStep(r) \/ CreateDb(r) \/ SeedModules(r) \/ SeedRbac(r)
           \/ SeedSettings(r) \/ Finalize(r) \/ CloseJob(r) \/ FailStep(r) \/ FailJob(r) \/ FailCompany(r)
           \/ UpdateSeed(r) \/ UpdateRoles(r) \/ UpdateWrite(r)
  BY <1>1, RunsSeats
<1>2. CASE DropDb(r) \/ FinalizeTeardown(r)
  BY <1>2, NoTeardown
<1>3. CASE Reserve(r)
  BY <1>3, ReserveSeats
<1>4. CASE CreateOwnerUser(r)
  BY <1>4, CreateOwnerUserSeats
<1>5. CASE IndexEmails(r)
  BY <1>5, IndexEmailsSeats
<1>6. CASE CountOwner(r)
  BY <1>6, CountOwnerSeats
<1>7. CASE SetSeatLimitWrite(r)
  BY <1>7, SetSeatLimitWriteSeats
<1>8. CASE ClaimSeat(r)
  BY <1>8, ClaimSeatSeats
<1>9. CASE InsertEmployee(r)
  BY <1>9, InsertEmployeeSeats
<1>10. CASE ReleaseSeat(r)
  BY <1>10, ReleaseSeatSeats
<1>11. CASE StepRaises(r)
  BY <1>11, StepRaisesSeats
<1>12. CASE InsertRaises(r)
  BY <1>12, InsertRaisesSeats
<1>13. CASE Crash(r)
  BY <1>13, CrashSeats
<1>14. QED BY <1>1, <1>2, <1>3, <1>4, <1>5, <1>6, <1>7, <1>8, <1>9, <1>10, <1>11, <1>12, <1>13 DEF Continue, Fail

LEMMA FreshSeats ==
  ASSUME CompanyShape, NEW r \in Req, NEW c \in Company, Fresh(r, c), SeatsAt(c),
         UNCHANGED <<company, tenant, drift>>, ~ Claimed(r)', ~ Uncounted(r)'
  PROVE  SeatsAt(c)'
<1>1. CompanyShape' /\ (\A s \in Req \ {r} : req'[s] = req[s]) /\ lowered \subseteq lowered'
  BY DEF Fresh, Held, CompanyShape
<1>2. ~ Claimed(r) /\ ~ Uncounted(r)
  BY DEF Fresh, Claimed, Uncounted
<1>3. Claim(r, c)' = Claim(r, c) /\ Debt(r, c)' = Debt(r, c)
  BY <1>2 DEF Claim, Debt
<1>4. QED BY <1>1, <1>3, SeatsSame

LEMMA StartSeats ==
  ASSUME CompanyShape, NEW r \in Req, NEW c \in Company, SeatsAt(c),
         \/ \E n \in Limits, mods \in Plans : OnboardCompany(r, c, n, mods)
         \/ \E mods \in Plans : UpdateCompany(r, c, mods)
         \/ \E n \in Limits, force \in BOOLEAN : SetSeatLimit(r, c, n, force)
         \/ \E e \in Email : CreateEmployee(r, c, e) \/ CreateOwnEmployee(r, c, e)
         \/ \E hard \in BOOLEAN : TeardownCompany(r, c, hard)
         \/ Resume(r, c)
  PROVE  SeatsAt(c)'
<1>1. ASSUME NEW n \in Limits, NEW mods \in Plans, OnboardCompany(r, c, n, mods) PROVE SeatsAt(c)'
  BY <1>1, OnboardCompanyMoves, FreshSeats DEF Claimed, Uncounted
<1>2. ASSUME NEW mods \in Plans, UpdateCompany(r, c, mods) PROVE SeatsAt(c)'
  BY <1>2, UpdateCompanyMoves, FreshSeats DEF Claimed, Uncounted
<1>3. ASSUME NEW n \in Limits, NEW force \in BOOLEAN, SetSeatLimit(r, c, n, force) PROVE SeatsAt(c)'
  BY <1>3, SetSeatLimitMoves, FreshSeats DEF Claimed, Uncounted
<1>4. ASSUME NEW e \in Email, CreateEmployee(r, c, e) PROVE SeatsAt(c)'
  BY <1>4, CreateEmployeeMoves, FreshSeats DEF Claimed, Uncounted
<1>5. ASSUME NEW hard \in BOOLEAN, TeardownCompany(r, c, hard) PROVE SeatsAt(c)'
  BY <1>5, TeardownCompanyMoves, FreshSeats DEF Claimed, Uncounted
<1>6. ASSUME Resume(r, c) PROVE SeatsAt(c)'
  BY <1>6, ResumeMoves, FreshSeats DEF Claimed, Uncounted, past
<1>7. QED BY <1>1, <1>2, <1>3, <1>4, <1>5, <1>6 DEF CreateOwnEmployee

LEMMA SeatsElsewhere ==
  ASSUME CompanyShape, CompanyShape', NEW c \in Company, Held(c), NEW r \in Req, \A s \in Req \ {r} : req'[s] = req[s],
         req[r].op # "idle" => req[r].company = c, req'[r].op # "idle" => req'[r].company = c,
         NEW x \in Company, x # c, SeatsAt(x)
  PROVE  SeatsAt(x)'
<1>1. Claim(r, x) = 0 /\ Debt(r, x) = 0
  BY DEF Claim, Debt, Claimed, Uncounted
<1>2. Claim(r, x)' = 0 /\ Debt(r, x)' = 0
  BY DEF Claim, Debt, Claimed, Uncounted
<1>3. company'[x] = company[x] /\ tenant'[x] = tenant[x] /\ drift'[x] = drift[x] /\ lowered \subseteq lowered'
  BY DEF Held
<1>4. QED BY <1>1, <1>2, <1>3, SeatsSame

LEMMA SeatsStep ==
  ASSUME CompanyShape, WholeInv, SeatsInv, [Next]_vars
  PROVE  SeatsInv'
<1>0. Requests /\ CompanyShape'
  BY ShapeKept DEF CompanyShape
<1>1. ASSUME NEW r \in Req, Continue(r) \/ Fail(r), NEW x \in Company \ touched' PROVE SeatsAt(x)'
  <2>1. Moved(r) /\ req[r].op # "idle"
    BY <1>1, ContinueMoves
  <2>2. PICK c \in Company : c = req[r].company
    BY <1>0, <2>1, RequestShape
  <2>3. /\ Held(c) /\ \A s \in Req \ {r} : req'[s] = req[s]
        /\ req'[r].op # "idle" => req'[r].company = c
    BY <2>1, <2>2 DEF Moved, Turned
  <2>4. WholeAt(x) /\ SeatsAt(x)
    BY <1>1, <2>3 DEF WholeInv, SeatsInv, Held
  <2>5. CASE x = c
    BY <1>1, <2>2, <2>4, <2>5, ContinueSeats
  <2>6. CASE x # c
    BY <1>0, <1>1, <2>2, <2>3, <2>4, <2>6, SeatsElsewhere
  <2>7. QED BY <2>5, <2>6
<1>2. ASSUME NEW r \in Req, Start(r), NEW x \in Company \ touched' PROVE SeatsAt(x)'
  <2>1. PICK c \in Company :
         \/ \E n \in Limits, mods \in Plans : OnboardCompany(r, c, n, mods)
         \/ \E mods \in Plans : UpdateCompany(r, c, mods)
         \/ \E n \in Limits, force \in BOOLEAN : SetSeatLimit(r, c, n, force)
         \/ \E e \in Email : CreateEmployee(r, c, e) \/ CreateOwnEmployee(r, c, e)
         \/ \E hard \in BOOLEAN : TeardownCompany(r, c, hard)
         \/ Resume(r, c)
    BY <1>2 DEF Start
  <2>2. Fresh(r, c)
    BY <2>1, StartMoves
  <2>3. Held(c) /\ (\A s \in Req \ {r} : req'[s] = req[s]) /\ req[r].op = "idle" /\ req'[r].company = c
    BY <2>2 DEF Fresh
  <2>4. SeatsAt(x)
    BY <1>2, <2>3 DEF SeatsInv, Held
  <2>5. CASE x = c
    BY <1>2, <2>1, <2>4, <2>5, StartSeats
  <2>6. CASE x # c
    BY <1>0, <1>2, <2>3, <2>4, <2>6, SeatsElsewhere
  <2>7. QED BY <2>5, <2>6
<1>3. ASSUME NEW x \in Company, SeatsAt(x), UNCHANGED req, company'[x] = company[x], tenant'[x] = tenant[x],
             drift'[x] = drift[x], UNCHANGED lowered
      PROVE  SeatsAt(x)'
  <2>1. Holding(x)' = Holding(x) /\ Owing(x)' = Owing(x)
    BY <1>3 DEF Holding, Owing, Claimed, Uncounted
  <2>2. People(x)' = People(x)
    BY <1>3 DEF People
  <2>3. Within(x)' <=> Within(x)
    BY <1>3, <2>1 DEF Within
  <2>4. QED BY <1>3, <2>1, <2>2, <2>3 DEF SeatsAt
<1>4. ASSUME NEW c \in Company, NEW status \in Statuses, SetCompanyStatus(c, status), NEW x \in Company \ touched'
      PROVE  SeatsAt(x)'
  <2>1. Held(c) /\ UNCHANGED req /\ c \in touched' /\ UNCHANGED lowered
    BY <1>4, SetCompanyStatusMoves DEF SetCompanyStatus
  <2>2. x # c /\ SeatsAt(x)
    BY <1>4, <2>1 DEF SeatsInv, Held
  <2>3. QED BY <1>3, <1>4, <2>1, <2>2 DEF Held
<1>5. ASSUME UNCHANGED vars, NEW x \in Company \ touched' PROVE SeatsAt(x)'
  BY <1>3, <1>5 DEF vars, SeatsInv
<1>6. QED BY <1>1, <1>2, <1>4, <1>5 DEF Next, SeatsInv

LEMMA SeatsInit == Init => SeatsInv
<1> SUFFICES ASSUME Init, NEW c \in Company PROVE SeatsAt(c)
  BY DEF SeatsInv
<1>1. /\ company[c].used = 0 /\ company[c].limit = 1 /\ drift[c] = 0 /\ company[c].status = "none"
      /\ tenant[c].staff = [e \in Email |-> 0] /\ tenant[c].owner = FALSE
  BY DEF Init, Empty
<1>2. Holding(c) = {} /\ Owing(c) = {}
  BY DEF Init, Idle, Holding, Owing, Claimed, Uncounted
<1>3. People(c) = 0
  <2> DEFINE d == [e \in Email |-> 0]
  <2>1. \A e \in Email : Gains(d)[e] = 0 /\ Losses(d)[e] = 0
    BY DEF Gains, Losses
  <2>2. \A w : (\A e \in Email : w[e] = 0) => Units(Email, w) = {}
    <3> SUFFICES ASSUME NEW w, \A e \in Email : w[e] = 0 PROVE Units(Email, w) = {}
      OBVIOUS
    <3>1. \A e \in Email : {e} \X (1 .. w[e]) = {}
      OBVIOUS
    <3>2. QED BY <3>1 DEF Units
  <2> HIDE DEF d
  <2>3. Units(Email, Gains(d)) = {} /\ Units(Email, Losses(d)) = {}
    BY <2>1, <2>2
  <2>4. Net(Email, d) = 0
    BY <2>3, FS_EmptySet DEF Net
  <2>5. QED BY <1>1, <2>4 DEF People, d
<1>4. Cardinality(Holding(c)) = 0 /\ Cardinality(Owing(c)) = 0
  BY <1>2, FS_EmptySet
<1>5. Within(c)
  BY <1>1, <1>2 DEF Within
<1>6. QED BY <1>1, <1>2, <1>3, <1>4, <1>5 DEF SeatsAt

(* The seats in use are the people there are, the claims under way and what *)
(* crashes left behind, and claims never pass the limit however they        *)
(* overlap (control_plane/companies/repository.py try_claim_seat,            *)
(* provisioning/engine.py create_owner_user).                               *)
THEOREM SeatsInBooks == Spec => []SeatsAccounted
<1>1. CompanyShape /\ WholeInv /\ [Next]_vars => WholeInv'
  BY WholeStep
<1>2. CompanyShape /\ WholeInv /\ SeatsInv /\ [Next]_vars => SeatsInv'
  BY SeatsStep
<1>3. SeatsInv => SeatsAccounted
  <2> SUFFICES ASSUME SeatsInv, NEW c \in Company \ touched
               PROVE  /\ company[c].used = People(c) + drift[c]
                           + Cardinality({r \in Req : req[r].company = c /\ Claimed(r)})
                           - Cardinality({r \in Req : req[r].company = c /\ Uncounted(r)})
                      /\ c \notin lowered => company[c].used <= company[c].limit + (IF tenant[c].owner THEN 1 ELSE 0)
    BY DEF SeatsAccounted
  <2>1. SeatsAt(c)
    BY DEF SeatsInv
  <2>2. company[c].used = People(c) + drift[c] + Cardinality({r \in Req : req[r].company = c /\ Claimed(r)})
                          - Cardinality({r \in Req : req[r].company = c /\ Uncounted(r)})
    BY <2>1 DEF SeatsAt, Holding, Owing
  <2>3. c \notin lowered => company[c].used <= company[c].limit + (IF tenant[c].owner THEN 1 ELSE 0)
    BY <2>1 DEF SeatsAt, Within
  <2>4. QED BY <2>2, <2>3
<1>4. QED BY <1>1, <1>2, <1>3, Shapes, WholeInit, SeatsInit, PTL DEF Spec

=============================================================================
