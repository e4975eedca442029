----------------------------- MODULE Companies -----------------------------
(***************************************************************************)
(* control_plane/provisioning/engine.py and control_plane/companies/       *)
(* service.py: a company is reserved, provisioned by a job of steps that   *)
(* can be resumed, edited, given seats and employees (the same seat claim  *)
(* is in modules/settings/service.py), and torn down.  A handler is one    *)
(* step per call that changes something; it works on the copies it read.   *)
(***************************************************************************)
EXTENDS Integers, Sequences, SequencesExt, FiniteSets, SignedSum

CONSTANTS
  Req,          \* requests that may be under way at once
  Company,      \* slugs there may be
  Module,       \* client modules, in SEED_ORDER
  Plans,        \* sets of modules a company may be given
  Limits,       \* seat limits that may be asked for
  Email,        \* addresses employees may be given (the owner has his own)
  MaxFaults,    \* bound on the calls that raise and the crashes
  MaxRequests   \* bound on the requests

ASSUME BoundAssumption == /\ Limits \subseteq Nat \ {0} /\ {MaxFaults, MaxRequests} \subseteq Nat
                          /\ Module \in Seq(STRING) /\ Plans \subseteq SUBSET ToSet(Module)
ASSUME FiniteAssumption == IsFiniteSet(Req) /\ IsFiniteSet(Email)

Modules == ToSet(Module)
PROVISION_STEPS ==
  <<"create_db", "seed_modules", "seed_rbac", "create_owner_user", "seed_settings", "finalize">>
StepName == ToSet(PROVISION_STEPS)
Statuses == {"none", "provisioning", "active", "failed", "suspended", "blocked", "removed"}

VARIABLES
  company,   \* of each slug: status, seat_limit, seats_used, enabled_modules
  tenant,    \* of each slug, what its database holds
  job,       \* of each slug, its provisioning job: state and steps
  touched,   \* history: companies a person set the status of, or tore down
  drift,     \* history: seats counted for nobody, less people never counted
  lowered,   \* history: companies whose limit was set below the seats in use
  mixed,     \* history: companies two updates of which overlapped
  broken,    \* history: companies a run of which crashed, or lost its job
  req, faults, begun

vars == <<company, tenant, job, touched, drift, lowered, mixed, broken, req, faults, begun>>
past == <<touched, drift, lowered, mixed, broken>>

Empty == [meta |-> FALSE, seeded |-> {}, roles |-> FALSE, owner |-> FALSE, indexed |-> FALSE,
          profile |-> FALSE, staff |-> [e \in Email |-> 0]]
NoJob == [state |-> "none", steps |-> [s \in StepName |-> "pending"]]
Idle  == [op |-> "idle", step |-> "none", company |-> "none", todo |-> {}, mods |-> {},
          limit |-> 0, email |-> "none", hard |-> FALSE]

Init ==
  /\ company = [c \in Company |-> [status |-> "none", limit |-> 1, used |-> 0, enabled |-> {}]]
  /\ tenant = [c \in Company |-> Empty] /\ job = [c \in Company |-> NoJob]
  /\ touched = {} /\ drift = [c \in Company |-> 0] /\ lowered = {} /\ mixed = {} /\ broken = {}
  /\ req = [r \in Req |-> Idle] /\ faults = 0 /\ begun = 0

At(r, op, step) == req[r].op = op /\ req[r].step = step
Become(r, q) == req' = [req EXCEPT ![r] = q] /\ UNCHANGED begun
Go(r, step)  == Become(r, [req[r] EXCEPT !.step = step])
Done(r)      == Become(r, Idle)
Begin(r, q)  == /\ req[r].op = "idle" /\ begun < MaxRequests
                /\ req' = [req EXCEPT ![r] = q] /\ begun' = begun + 1
                /\ UNCHANGED <<company, tenant, job, drift, lowered, broken, faults>>
Fault == faults < MaxFaults /\ faults' = faults + 1

Exists(c) == company[c].status \notin {"none", "removed"}
(* update_fields and $inc match nothing once the company is removed.        *)
SetCompany(c, rec) == company' = [company EXCEPT ![c] = IF Exists(c) THEN rec ELSE @]
People(c) == Net(Email, tenant[c].staff) + IF tenant[c].owner THEN 1 ELSE 0

(* What is left to be done is done in the order of the list.                *)
First(order, left) ==
  order[CHOOSE i \in DOMAIN order : order[i] \in left /\ \A j \in 1 .. i - 1 : order[j] \notin left]
-----------------------------------------------------------------------------
(* onboard_company: look the slug up, reserve it, make the job, run it.     *)
Free(c) == company[c].status \in {"none", "removed"}
OnboardCompany(r, c, n, mods) ==
  /\ Free(c)
  /\ Begin(r, [Idle EXCEPT !.op = "run", !.step = "reserve", !.company = c, !.limit = n, !.mods = mods])
  /\ UNCHANGED <<touched, mixed>>

(* The unique index refuses a slug another request reserved meanwhile.  A   *)
(* bound: a removed slug is given to a new company once no request holds a  *)
(* copy of the old one; the jobs of that are not found any more.            *)
Reserve(r) ==
  LET c == req[r].company
  IN  /\ At(r, "run", "reserve")
      /\ company[c].status = "removed" => \A s \in Req : req[s].company = c => At(s, "run", "reserve")
      /\ IF Free(c)
         THEN /\ company' = [company EXCEPT ![c] = [status |-> "provisioning", limit |-> req[r].limit,
                                                    used |-> 0, enabled |-> req[r].mods]]
              /\ job' = [job EXCEPT ![c] = NoJob] /\ Go(r, "create_job")
         ELSE Done(r) /\ UNCHANGED <<company, job>>
      /\ UNCHANGED <<tenant, past, faults>>

(* A job is made, and the company read again: its modules are as of now.    *)
CreateJob(r) ==
  LET c == req[r].company
  IN  /\ At(r, "run", "create_job")
      /\ job' = [job EXCEPT ![c] = [NoJob EXCEPT !.state = "running"]]
      /\ IF Exists(c)
         THEN Become(r, [req[r] EXCEPT !.todo = StepName, !.step = "start", !.mods = company[c].enabled])
         ELSE Done(r)
      /\ UNCHANGED <<company, tenant, past, faults>>

(* run_provision_job on a job whose run has ended: from its first step that *)
(* is not done, on the company as it is now.                                *)
ResumeFrom(r, c, todo) ==
  /\ Exists(c) /\ job[c].state # "none" /\ \A s \in Req : req[s].op = "run" => req[s].company # c
  /\ todo # {}
  /\ req[r].op = "idle" /\ begun < MaxRequests /\ begun' = begun + 1
  /\ req' = [req EXCEPT ![r] = [Idle EXCEPT !.op = "run", !.step = "start", !.company = c,
                                           !.todo = todo, !.mods = company[c].enabled]]
  /\ job' = [job EXCEPT ![c].state = "running"]
  /\ UNCHANGED <<company, tenant, past, faults>>

(* Mutant of Resume: a step that failed or was left running counts as run.  *)
ResumeSkipping(r, c) == ResumeFrom(r, c, {s \in StepName : job[c].steps[s] = "pending"})
Resume(r, c)         == ResumeFrom(r, c, {s \in StepName : job[c].steps[s] # "done"})

Current(r)       == First(PROVISION_STEPS, req[r].todo)
Running(r, name) == At(r, "run", name)
SetStep(r, status) == job' = [job EXCEPT ![req[r].company].steps[Current(r)] = status]

StartStep(r) ==
  /\ At(r, "run", "start")
  /\ SetStep(r, "running") /\ Go(r, Current(r))
  /\ UNCHANGED <<company, tenant, past, faults>>

FinishStep(r) ==
  /\ At(r, "run", "finish")
  /\ SetStep(r, "done")
  /\ IF req[r].todo = {Current(r)} THEN Done(r)
     ELSE Become(r, [req[r] EXCEPT !.todo = @ \ {Current(r)}, !.step = "start"])
  /\ UNCHANGED <<company, tenant, past, faults>>

CreateDb(r) ==
  /\ Running(r, "create_db")
  /\ tenant' = [tenant EXCEPT ![req[r].company].meta = TRUE] /\ Go(r, "finish")
  /\ UNCHANGED <<company, job, past, faults>>

(* seed_enabled_modules runs the seeds one by one, in order; each can be    *)
(* run again.  The seed of settings makes the roles.                        *)
Seed(c, m) == tenant' = [tenant EXCEPT ![c].seeded = @ \cup {m},
                                       ![c].roles = @ \/ m = "settings"]
NextSeed(mods) == First(Module, mods)
SeedModules(r) ==
  LET left == req[r].mods
  IN  /\ Running(r, "seed_modules")
      /\ IF left = {}
         THEN /\ job' = [job EXCEPT ![req[r].company].state = "seeded"]
              /\ Go(r, "finish") /\ UNCHANGED tenant
         ELSE /\ Seed(req[r].company, NextSeed(left))
              /\ Become(r, [req[r] EXCEPT !.mods = @ \ {NextSeed(left)}]) /\ UNCHANGED job
      /\ UNCHANGED <<company, past, faults>>

SeedRbac(r) ==
  /\ Running(r, "seed_rbac")
  /\ tenant' = [tenant EXCEPT ![req[r].company].roles = TRUE] /\ Go(r, "finish")
  /\ UNCHANGED <<company, job, past, faults>>

(* The owner is upserted, the unique index made (which fails when an        *)
(* address was given twice), and his seat counted if he is new.             *)
CreateOwnerUser(r) ==
  LET c == req[r].company
  IN  /\ Running(r, "create_owner_user")
      /\ tenant' = [tenant EXCEPT ![c].roles = TRUE, ![c].owner = TRUE]
      /\ Go(r, IF tenant[c].owner THEN "index_old" ELSE "index_new")
      /\ UNCHANGED <<company, job, past, faults>>

IndexEmails(r) ==
  LET c == req[r].company
  IN  /\ req[r].op = "run" /\ req[r].step \in {"index_old", "index_new"}
      /\ IF \E e \in Email : tenant[c].staff[e] > 1
         THEN /\ Go(r, "fail_step") /\ UNCHANGED tenant
              /\ drift' = [drift EXCEPT ![c] = IF req[r].step = "index_new" THEN @ - 1 ELSE @]
         ELSE /\ tenant' = [tenant EXCEPT ![c].indexed = TRUE]
              /\ Go(r, IF req[r].step = "index_new" THEN "owner_seat" ELSE "finish")
              /\ UNCHANGED drift
      /\ UNCHANGED <<company, job, touched, lowered, mixed, broken, faults>>

CountOwner(r) ==
  LET c == req[r].company
  IN  /\ At(r, "run", "owner_seat")
      /\ SetCompany(c, [company[c] EXCEPT !.used = @ + 1]) /\ Go(r, "finish")
      /\ UNCHANGED <<tenant, job, past, faults>>

SeedSettings(r) ==
  /\ Running(r, "seed_settings")
  /\ tenant' = [tenant EXCEPT ![req[r].company].profile = TRUE] /\ Go(r, "finish")
  /\ UNCHANGED <<company, job, past, faults>>

Finalize(r) ==
  LET c == req[r].company
  IN  /\ Running(r, "finalize")
      /\ SetCompany(c, [company[c] EXCEPT !.status = "active"])
      /\ Go(r, "close_job")
      /\ UNCHANGED <<tenant, job, past, faults>>

CloseJob(r) ==
  /\ At(r, "run", "close_job")
  /\ job' = [job EXCEPT ![req[r].company].state = "done"] /\ Go(r, "finish")
  /\ UNCHANGED <<company, tenant, past, faults>>

(* Whatever raises in a step marks the step, the job and the company.       *)
InStep(r) == req[r].op = "run" /\ req[r].step \in
               StepName \cup {"index_old", "index_new", "owner_seat", "close_job", "finish"}
Uncounted(r) == req[r].op = "run" /\ req[r].step \in {"index_new", "owner_seat"}
Claimed(r)   == req[r].op = "employee" /\ req[r].step \in {"insert", "release"}
Leak(r) == IF Uncounted(r) THEN -1 ELSE IF Claimed(r) THEN 1 ELSE 0

StepRaises(r) ==
  /\ InStep(r) /\ Fault /\ Go(r, "fail_step")
  /\ drift' = [drift EXCEPT ![req[r].company] = @ + Leak(r)]
  /\ UNCHANGED <<company, tenant, job, touched, lowered, mixed, broken>>

FailStep(r) ==
  /\ At(r, "run", "fail_step")
  /\ SetStep(r, "failed") /\ Go(r, "fail_job")
  /\ UNCHANGED <<company, tenant, past, faults>>

(* Mutant of FailJob: the company is left as it was.                        *)
FailJobOnly(r) ==
  /\ At(r, "run", "fail_job")
  /\ job' = [job EXCEPT ![req[r].company].state = "failed"] /\ Done(r)
  /\ UNCHANGED <<company, tenant, past, faults>>

FailJob(r) ==
  /\ At(r, "run", "fail_job")
  /\ job' = [job EXCEPT ![req[r].company].state = "failed"] /\ Go(r, "fail_company")
  /\ UNCHANGED <<company, tenant, past, faults>>

FailCompany(r) ==
  LET c == req[r].company
  IN  /\ At(r, "run", "fail_company")
      /\ SetCompany(c, [company[c] EXCEPT !.status = "failed"]) /\ Done(r)
      /\ UNCHANGED <<tenant, job, past, faults>>

(* A worker dies, or a call outside the steps' try raises.                  *)
Crash(r) ==
  LET c == req[r].company
  IN  /\ req[r].op # "idle" /\ Fault /\ Done(r)
      /\ drift' = [drift EXCEPT ![c] = @ + Leak(r)]
      /\ broken' = IF req[r].op = "run" THEN broken \cup {c} ELSE broken
      /\ UNCHANGED <<company, tenant, job, touched, lowered, mixed>>
-----------------------------------------------------------------------------
(* update_company: the modules that were not enabled are seeded, then the   *)
(* roles brought up to date, before the list is written.                    *)
UpdateCompany(r, c, mods) ==
  LET new == mods \ company[c].enabled
  IN  /\ Exists(c)
      /\ Begin(r, [Idle EXCEPT !.op = "update", !.step = IF new = {} THEN "write" ELSE "seed",
                               !.company = c, !.mods = mods, !.todo = new])
      /\ mixed' = mixed \cup {c : s \in {s \in Req : req[s].op = "update" /\ req[s].company = c}}
      /\ UNCHANGED touched

UpdateSeed(r) ==
  LET m    == NextSeed(req[r].todo)
      left == req[r].todo \ {m}
  IN  /\ At(r, "update", "seed")
      /\ Seed(req[r].company, m)
      /\ Become(r, [req[r] EXCEPT !.todo = left, !.step = IF left = {} THEN "roles" ELSE "seed"])
      /\ UNCHANGED <<company, job, past, faults>>

UpdateRoles(r) ==
  /\ At(r, "update", "roles")
  /\ tenant' = [tenant EXCEPT ![req[r].company].roles = TRUE] /\ Go(r, "write")
  /\ UNCHANGED <<company, job, past, faults>>

UpdateWrite(r) ==
  LET c == req[r].company
  IN  /\ At(r, "update", "write")
      /\ SetCompany(c, [company[c] EXCEPT !.enabled = req[r].mods]) /\ Done(r)
      /\ UNCHANGED <<tenant, job, past, faults>>

(* set_seat_limit compares with the seats it read, then writes.             *)
SetSeatLimit(r, c, n, force) ==
  /\ Exists(c) /\ (n >= company[c].used \/ force)
  /\ Begin(r, [Idle EXCEPT !.op = "limit", !.step = "write", !.company = c, !.limit = n])
  /\ UNCHANGED <<touched, mixed>>

SetSeatLimitWrite(r) ==
  LET c == req[r].company
  IN  /\ At(r, "limit", "write")
      /\ SetCompany(c, [company[c] EXCEPT !.limit = req[r].limit]) /\ Done(r)
      /\ lowered' = IF req[r].limit < company[c].used THEN lowered \cup {c} ELSE lowered
      /\ UNCHANGED <<tenant, job, touched, drift, mixed, broken, faults>>

(* create_employee, of the admin portal on any company and of the company's *)
(* own settings on an active one: role and address are looked up, a seat    *)
(* is claimed, and given back if the insert raises.                         *)
CreateEmployee(r, c, e) ==
  /\ Exists(c) /\ tenant[c].roles /\ tenant[c].staff[e] = 0
  /\ Begin(r, [Idle EXCEPT !.op = "employee", !.step = "claim", !.company = c, !.email = e])
  /\ UNCHANGED <<touched, mixed>>

CreateOwnEmployee(r, c, e) == company[c].status = "active" /\ CreateEmployee(r, c, e)

(* Mutant of ClaimSeat: the seats are compared with a limit one too high.   *)
ClaimSeatOffByOne(r) ==
  LET c == req[r].company
  IN  /\ At(r, "employee", "claim")
      /\ IF Exists(c) /\ company[c].used <= company[c].limit
         THEN company' = [company EXCEPT ![c].used = @ + 1] /\ Go(r, "insert")
         ELSE Done(r) /\ UNCHANGED company
      /\ UNCHANGED <<tenant, job, past, faults>>

ClaimSeat(r) ==
  LET c == req[r].company
  IN  /\ At(r, "employee", "claim")
      /\ IF Exists(c) /\ company[c].used < company[c].limit
         THEN company' = [company EXCEPT ![c].used = @ + 1] /\ Go(r, "insert")
         ELSE Done(r) /\ UNCHANGED company
      /\ UNCHANGED <<tenant, job, past, faults>>

(* The unique index, where there is one already, refuses a second account.  *)
InsertEmployee(r) ==
  LET c == req[r].company
      e == req[r].email
  IN  /\ At(r, "employee", "insert")
      /\ IF tenant[c].indexed /\ tenant[c].staff[e] > 0
         THEN Go(r, "release") /\ UNCHANGED tenant
         ELSE Done(r) /\ tenant' = [tenant EXCEPT ![c].staff[e] = @ + 1]
      /\ UNCHANGED <<company, job, past, faults>>

InsertRaises(r) ==
  /\ At(r, "employee", "insert") /\ Fault /\ Go(r, "release")
  /\ UNCHANGED <<company, tenant, job, past>>

ReleaseSeat(r) ==
  LET c == req[r].company
  IN  /\ At(r, "employee", "release")
      /\ SetCompany(c, [company[c] EXCEPT !.used = @ - 1]) /\ Done(r)
      /\ UNCHANGED <<tenant, job, past, faults>>

(* set_company_status asks nothing of the status there was.                 *)
SetCompanyStatus(c, status) ==
  /\ Exists(c) /\ status \in {"active", "blocked", "suspended"}
  /\ begun < MaxRequests /\ begun' = begun + 1
  /\ company' = [company EXCEPT ![c].status = status]
  /\ touched' = touched \cup {c}
  /\ UNCHANGED <<tenant, job, drift, lowered, mixed, broken, req, faults>>

(* teardown_company drops the database, then suspends or removes the entry. *)
TeardownCompany(r, c, hard) ==
  /\ Exists(c)
  /\ Begin(r, [Idle EXCEPT !.op = "teardown", !.step = "drop_db", !.company = c, !.hard = hard])
  /\ touched' = touched \cup {c} /\ UNCHANGED mixed

DropDb(r) ==
  /\ At(r, "teardown", "drop_db")
  /\ tenant' = [tenant EXCEPT ![req[r].company] = Empty] /\ Go(r, "finalize")
  /\ UNCHANGED <<company, job, past, faults>>

FinalizeTeardown(r) ==
  LET c == req[r].company
  IN  /\ At(r, "teardown", "finalize")
      /\ SetCompany(c, [company[c] EXCEPT !.status = IF req[r].hard THEN "removed" ELSE "suspended"])
      /\ Done(r)
      /\ UNCHANGED <<tenant, job, past, faults>>
-----------------------------------------------------------------------------
Continue(r) ==
  \/ Reserve(r) \/ CreateJob(r) \/ StartStep(r) \/ FinishStep(r) \/ CreateDb(r) \/ SeedModules(r)
  \/ SeedRbac(r) \/ CreateOwnerUser(r) \/ IndexEmails(r) \/ CountOwner(r) \/ SeedSettings(r)
  \/ Finalize(r) \/ CloseJob(r) \/ FailStep(r) \/ FailJob(r) \/ FailCompany(r) \/ UpdateSeed(r)
  \/ UpdateRoles(r) \/ UpdateWrite(r) \/ SetSeatLimitWrite(r) \/ ClaimSeat(r) \/ InsertEmployee(r) \/ ReleaseSeat(r)
  \/ DropDb(r) \/ FinalizeTeardown(r)

Start(r) == \E c \in Company :
  \/ \E n \in Limits, mods \in Plans : OnboardCompany(r, c, n, mods)
  \/ \E mods \in Plans : UpdateCompany(r, c, mods)
  \/ \E n \in Limits, force \in BOOLEAN : SetSeatLimit(r, c, n, force)
  \/ \E e \in Email : CreateEmployee(r, c, e) \/ CreateOwnEmployee(r, c, e)
  \/ \E hard \in BOOLEAN : TeardownCompany(r, c, hard)
  \/ Resume(r, c)

Fail(r) == StepRaises(r) \/ InsertRaises(r) \/ Crash(r)

Next ==
  \/ \E r \in Req : Continue(r) \/ Start(r) \/ Fail(r)
  \/ \E c \in Company, status \in Statuses : SetCompanyStatus(c, status)

Spec     == Init /\ [][Next]_vars
FairSpec == Spec /\ \A r \in Req : WF_vars(Continue(r))
-----------------------------------------------------------------------------

(* Seats in use are the people there are, the claims under way, and what    *)
(* crashes and raised calls left behind: a claim nobody gave back, or an    *)
(* owner who was inserted and never counted, which a resumed run does not   *)
(* repair.  And claims never pass the limit, however they overlap, unless   *)
(* it was lowered below the seats in use; only the owner is not asked.      *)
SeatsAccounted ==
  \A c \in Company \ touched :
    /\ company[c].used = People(c) + drift[c]
         + Cardinality({r \in Req : req[r].company = c /\ Claimed(r)})
         - Cardinality({r \in Req : req[r].company = c /\ Uncounted(r)})
    /\ c \notin lowered => company[c].used <= company[c].limit + (IF tenant[c].owner THEN 1 ELSE 0)

(* An active company is a whole one: every step left its mark, whatever     *)
(* failed, crashed and was resumed before, and every module it has enabled  *)
(* was seeded, unless two updates of it overlapped, of which one can write  *)
(* a list whose modules the other took off and a resumed run passed over.   *)
(* (Not so one whose status a person set, or that a teardown took the       *)
(* database from.)                                                          *)
ActiveIsWhole ==
  \A c \in Company \ touched :
    company[c].status = "active" =>
      LET t == tenant[c]
      IN  /\ t.meta /\ t.roles /\ t.owner /\ t.indexed /\ t.profile
          /\ c \notin mixed => company[c].enabled \subseteq t.seeded

(* No company stays "provisioning": unless its worker dies, the run makes   *)
(* it active or failed, so that it can be resumed.                          *)
ProvisioningSettles ==
  \A c \in Company : company[c].status = "provisioning"
                       ~> company[c].status # "provisioning" \/ c \in broken
=============================================================================
