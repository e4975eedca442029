------------------------------ MODULE Accounts ------------------------------
(***************************************************************************)
(* The people who sign in, in both realms: the staff of a company          *)
(* (auth/client_auth.py, modules/settings/service.py and, from the         *)
(* platform's side, control_plane/companies/service.py) and the operators  *)
(* of the platform (auth/admin_auth.py, control_plane/admin_users).  Their *)
(* lockout, their refresh tokens and their roles.  A handler is one step   *)
(* per database call that matters to another; each works on the copy of    *)
(* the account it read first.                                              *)
(***************************************************************************)
EXTENDS Integers, Sequences, SequencesExt, FiniteSets

CONSTANTS
  Req,          \* requests that may be under way at once
  Staff,        \* employees there may be
  Operator,     \* admin users there may be
  StaffRole,    \* client roles there may be
  OperatorRole, \* admin roles there may be
  Owner, Root,  \* the first employee and the first operator
  OwnerRole, RootRole,  \* the seeded roles that manage settings and admin users
  Token,        \* refresh tokens that may be issued
  Threshold,    \* failed_login_threshold
  MaxSessions,  \* MAX_ACTIVE_REFRESH_JTIS
  MaxRequests   \* bound on the requests of more than one call

ASSUME RealmAssumption == /\ Staff \cap Operator = {} /\ Owner \in Staff /\ Root \in Operator
                          /\ StaffRole \cap OperatorRole = {}
                          /\ OwnerRole \in StaffRole /\ RootRole \in OperatorRole
                          /\ "none" \notin Staff \cup Operator \cup StaffRole \cup OperatorRole \cup Token
ASSUME BoundAssumption == /\ Threshold \in Nat \ {0} /\ MaxSessions \in Nat \ {0}
                          /\ MaxRequests \in Nat

User == Staff \cup Operator
Role == StaffRole \cup OperatorRole

VARIABLES
  user,      \* of each account: state, role, blocked, failed_attempts, locked
  sessions,  \* of each account: its refresh_jtis, oldest first
  role,      \* of each role: live, and whether it manages its realm (WRITE)
  active,    \* the company is active
  holder,    \* the account each refresh token was issued to
  spent,     \* history: how often each token was exchanged
  dead,      \* history: the tokens exchanged, revoked or pushed out
  guesses,   \* history: wrong passwords since the last success, lock or unlock
  raced,     \* history: the accounts two logins of which overlapped
  contested, \* history: the realms of which two edits overlapped, or in which
             \* the platform blocked an employee over the company's head
  req, begun

vars == <<user, sessions, role, active, holder, spent, dead, guesses, raced, contested, req, begun>>
book == <<user, sessions, role, active, holder, spent, dead, guesses>>

NoUser == [state |-> "none", role |-> "none", blocked |-> FALSE, failed |-> 0, locked |-> FALSE]
Idle   == [op |-> "idle", step |-> "none", user |-> "none", role |-> "none", token |-> "none",
           seen |-> 0, to |-> "same"]

Init ==
  /\ user = [u \in User |-> IF u = Owner THEN [NoUser EXCEPT !.state = "live", !.role = OwnerRole]
                            ELSE IF u = Root THEN [NoUser EXCEPT !.state = "live", !.role = RootRole]
                            ELSE NoUser]
  /\ sessions = [u \in User |-> <<>>]
  /\ role = [x \in Role |-> [live |-> x \in {OwnerRole, RootRole},
                             manages |-> x \in {OwnerRole, RootRole}]]
  /\ active = TRUE
  /\ holder = [t \in Token |-> "none"] /\ spent = [t \in Token |-> 0] /\ dead = {}
  /\ guesses = [u \in User |-> 0] /\ raced = {} /\ contested = {}
  /\ req = [r \in Req |-> Idle] /\ begun = 0

Realm(u)   == IF u \in Staff THEN Staff ELSE Operator
RolesOf(u) == IF u \in Staff THEN StaffRole ELSE OperatorRole
UnderWay   == {r \in Req : req[r].op # "idle"}
At(r, ops, step) == req[r].op \in ops /\ req[r].step = step
Go(r, step) == req' = [req EXCEPT ![r].step = step] /\ UNCHANGED begun
Done(r)     == req' = [req EXCEPT ![r] = Idle] /\ UNCHANGED begun
Begin(r, q) ==
  /\ req[r].op = "idle" /\ begun < MaxRequests
  /\ req' = [req EXCEPT ![r] = q] /\ begun' = begun + 1

Live(u)   == user[u].state = "live"
CompanyUp(u) == u \in Staff => active
Usable(u) == Live(u) /\ CompanyUp(u) /\ ~ user[u].blocked /\ ~ user[u].locked
-----------------------------------------------------------------------------
(* Sessions.  A login reads the account, refuses one that is blocked or     *)
(* locked, and checks the password against what it read.                    *)
Login(r, u) ==
  /\ Usable(u)
  /\ Begin(r, [Idle EXCEPT !.op = "login", !.step = "password", !.user = u, !.seen = user[u].failed])
  /\ raced' = raced \cup {u : s \in {s \in Req : At(s, {"login"}, "password") /\ req[s].user = u}}
  /\ UNCHANGED <<book, contested>>

ClientLogin(r, u) == u \in Staff /\ Login(r, u)
AdminLogin(r, u)  == u \in Operator /\ Login(r, u)

SetUser(u, rec) == user' = [user EXCEPT ![u] = IF Live(u) THEN rec ELSE @]

(* Mutant of WrongPassword: the lock comes one failure late.                *)
WrongPasswordLate(r) ==
  LET u == req[r].user
      n == req[r].seen + 1
  IN  /\ At(r, {"login"}, "password")
      /\ IF n > Threshold
         THEN SetUser(u, [user[u] EXCEPT !.failed = 0, !.locked = TRUE])
         ELSE SetUser(u, [user[u] EXCEPT !.failed = n])
      /\ guesses' = [guesses EXCEPT ![u] = IF n > Threshold THEN 0 ELSE @ + 1]
      /\ Done(r)
      /\ UNCHANGED <<sessions, role, active, holder, spent, dead, raced, contested>>

(* A wrong password: one more than the copy said, or the lock and zero.     *)
WrongPassword(r) ==
  LET u == req[r].user
      n == req[r].seen + 1
  IN  /\ At(r, {"login"}, "password")
      /\ IF n >= Threshold
         THEN SetUser(u, [user[u] EXCEPT !.failed = 0, !.locked = TRUE])
         ELSE SetUser(u, [user[u] EXCEPT !.failed = n])
      /\ guesses' = [guesses EXCEPT ![u] = IF n >= Threshold THEN 0 ELSE @ + 1]
      /\ Done(r)
      /\ UNCHANGED <<sessions, role, active, holder, spent, dead, raced, contested>>

RightPassword(r) ==
  LET u == req[r].user
  IN  /\ At(r, {"login"}, "password")
      /\ SetUser(u, [user[u] EXCEPT !.failed = 0, !.locked = FALSE])
      /\ guesses' = [guesses EXCEPT ![u] = 0]
      /\ Go(r, "issue")
      /\ UNCHANGED <<sessions, role, active, holder, spent, dead, raced, contested>>

LockExpires(u) ==
  /\ Live(u) /\ user[u].locked
  /\ user' = [user EXCEPT ![u].locked = FALSE]
  /\ UNCHANGED <<sessions, role, active, holder, spent, dead, guesses, raced, contested, req, begun>>

(* issue_token_pair: $push with $slice, whatever became of the account      *)
(* since it was read; a deleted account matches nothing.                    *)
IssueTokenPair(r) ==
  LET u    == req[r].user
      free == {t \in Token : holder[t] = "none"}
      t    == CHOOSE x \in free : TRUE
      all  == Append(sessions[u], t)
  IN  /\ At(r, {"login", "refresh"}, "issue") /\ free # {}
      /\ holder' = [holder EXCEPT ![t] = u]
      /\ IF ~ Live(u) THEN dead' = dead \cup {t} /\ UNCHANGED sessions
         ELSE IF Len(all) > MaxSessions
         THEN /\ sessions' = [sessions EXCEPT ![u] = Tail(all)]
              /\ dead' = dead \cup {Head(all)}
         ELSE sessions' = [sessions EXCEPT ![u] = all] /\ UNCHANGED dead
      /\ Done(r)
      /\ UNCHANGED <<user, role, active, spent, guesses, raced, contested>>

(* A token is accepted by the realm it was issued in (aud), and as what it  *)
(* was issued for: what is presented here is a refresh token.  One that has *)
(* expired is refused, which changes nothing.                               *)
Decodes(t, realm) == holder[t] \in realm

(* client_refresh / admin_refresh: the account is read and checked, then    *)
(* the token is pulled from its list.                                       *)
Refresh(r, t) ==
  /\ Usable(holder[t])
  /\ Begin(r, [Idle EXCEPT !.op = "refresh", !.step = "pull", !.user = holder[t], !.token = t])
  /\ UNCHANGED <<book, raced, contested>>

ClientRefresh(r, t) == Decodes(t, Staff) /\ Refresh(r, t)
AdminRefresh(r, t)  == Decodes(t, Operator) /\ Refresh(r, t)

(* Mutant of RotateRefresh: the token is looked for and not taken.          *)
RotateByLooking(r) ==
  LET u == req[r].user
      t == req[r].token
  IN  /\ At(r, {"refresh"}, "pull")
      /\ IF Contains(sessions[u], t)
         THEN /\ spent' = [spent EXCEPT ![t] = @ + 1] /\ dead' = dead \cup {t}
              /\ Go(r, "issue")
         ELSE Done(r) /\ UNCHANGED <<spent, dead>>
      /\ UNCHANGED <<user, sessions, role, active, holder, guesses, raced, contested>>

(* $pull; a token stands in its list once.                                  *)
Pulled(list, t) == RemoveAt(list, CHOOSE i \in DOMAIN list : list[i] = t)
RotateRefresh(r) ==
  LET u == req[r].user
      t == req[r].token
  IN  /\ At(r, {"refresh"}, "pull")
      /\ IF Contains(sessions[u], t)
         THEN /\ sessions' = [sessions EXCEPT ![u] = Pulled(@, t)]
              /\ spent' = [spent EXCEPT ![t] = @ + 1] /\ dead' = dead \cup {t}
              /\ Go(r, "issue")
         ELSE Done(r) /\ UNCHANGED <<sessions, spent, dead>>
      /\ UNCHANGED <<user, role, active, holder, guesses, raced, contested>>

RevokeAllRefresh(r) ==
  LET u == req[r].user
  IN  /\ At(r, {"logout", "block", "reset"}, "revoke")
      /\ sessions' = [sessions EXCEPT ![u] = <<>>]
      /\ dead' = dead \cup ToSet(sessions[u])
      /\ Done(r)
      /\ UNCHANGED <<user, role, active, holder, spent, guesses, raced, contested>>
-----------------------------------------------------------------------------
(* Accounts and roles.  An edit reads, asks its guard, and then writes.     *)
(* Creating an account takes nothing from anybody.                          *)
Manages(v)      == Live(v) /\ ~ user[v].blocked /\ role[user[v].role].live /\ role[user[v].role].manages
OthersManage(u) == \E v \in Realm(u) \ {u} : Manages(v)
Edits == {"edit", "block", "delete", "edit_role", "delete_role"}
Edit(r, realm, q) ==
  /\ Begin(r, q)
  /\ contested' = contested \cup {realm : s \in {s \in Req : req[s].op \in Edits
                                                           /\ (req[s].user \in realm \/ req[s].role \in
                                                                  (IF realm = Staff THEN StaffRole ELSE OperatorRole))}}
  /\ UNCHANGED <<book, raced>>

Add(r, q) == Begin(r, q) /\ UNCHANGED <<book, raced, contested>>

(* Mutant of PatchEmployee: a demotion does not ask who else manages.       *)
PatchEmployeeAnyway(r, u, x) ==
  /\ u \in Staff /\ Live(u) /\ x \in StaffRole /\ role[x].live
  /\ Edit(r, Staff, [Idle EXCEPT !.op = "edit", !.step = "write", !.user = u, !.role = x])

PatchEmployee(r, u, x) ==
  /\ u \in Staff /\ Live(u) /\ x \in StaffRole /\ role[x].live
  /\ role[x].manages \/ OthersManage(u)
  /\ Edit(r, Staff, [Idle EXCEPT !.op = "edit", !.step = "write", !.user = u, !.role = x])

(* update_admin_user may set a role, is_active or both in one write.        *)
UpdateAdminUser(r, u, x, to) ==
  /\ u \in Operator /\ Live(u) /\ x \in OperatorRole \cup {"none"} /\ <<x, to>> # <<"none", "same">>
  /\ x # "none" => role[x].live /\ (role[x].manages \/ OthersManage(u))
  /\ to = "block" => OthersManage(u)
  /\ Edit(r, Operator, [Idle EXCEPT !.op = "edit", !.step = "write", !.user = u, !.role = x, !.to = to])

EditWrite(r) ==
  LET u == req[r].user
      q == req[r]
  IN  /\ At(r, {"edit"}, "write")
      /\ SetUser(u, [user[u] EXCEPT !.role = IF q.role = "none" THEN @ ELSE q.role,
                                    !.blocked = IF q.to = "same" THEN @ ELSE q.to = "block"])
      /\ Done(r)
      /\ UNCHANGED <<sessions, role, active, holder, spent, dead, guesses, raced, contested>>

BlockEmployee(r, u) ==
  /\ u \in Staff /\ Live(u) /\ OthersManage(u)
  /\ Edit(r, Staff, [Idle EXCEPT !.op = "block", !.step = "write", !.user = u])

(* The platform blocks an employee without asking who else manages.         *)
SetEmployeeBlocked(r, u) ==
  /\ u \in Staff /\ Live(u)
  /\ Begin(r, [Idle EXCEPT !.op = "block", !.step = "write", !.user = u])
  /\ contested' = contested \cup {Staff}
  /\ UNCHANGED <<book, raced>>

BlockWrite(r) ==
  /\ At(r, {"block"}, "write")
  /\ SetUser(req[r].user, [user[req[r].user] EXCEPT !.blocked = TRUE])
  /\ Go(r, "revoke")
  /\ UNCHANGED <<sessions, role, active, holder, spent, dead, guesses, raced, contested>>

UnblockEmployee(u) ==
  /\ u \in Staff /\ Live(u) /\ user[u].blocked
  /\ user' = [user EXCEPT ![u].blocked = FALSE]
  /\ UNCHANGED <<sessions, role, active, holder, spent, dead, guesses, raced, contested, req, begun>>

UnlockEmployee(u) ==
  /\ u \in Staff /\ Live(u)
  /\ user' = [user EXCEPT ![u].failed = 0, ![u].locked = FALSE]
  /\ guesses' = [guesses EXCEPT ![u] = 0]
  /\ UNCHANGED <<sessions, role, active, holder, spent, dead, raced, contested, req, begun>>

ResetEmployeePassword(r, u) ==
  /\ u \in Staff /\ Live(u)
  /\ Begin(r, [Idle EXCEPT !.op = "reset", !.step = "write", !.user = u])
  /\ UNCHANGED <<book, raced, contested>>

ResetWrite(r) ==
  LET u == req[r].user
  IN  /\ At(r, {"reset"}, "write")
      /\ SetUser(u, [user[u] EXCEPT !.failed = 0, !.locked = FALSE])
      /\ guesses' = [guesses EXCEPT ![u] = 0]
      /\ Go(r, "revoke")
      /\ UNCHANGED <<sessions, role, active, holder, spent, dead, raced, contested>>

(* Signed in: the account, its role and the company are read again on every *)
(* request.  A logout revokes; a changed password is written and revokes.   *)
CurrentClient == {u \in Staff : Usable(u) /\ role[user[u].role].live}
CurrentAdmin  == {u \in Operator : Usable(u) /\ role[user[u].role].live}

(* What somebody is asked for who manages: WRITE on settings, or on the     *)
(* admin users.  Other resources of the platform are those of any operator: *)
(* the roles of this model do not tell them apart.                          *)
Require      == \E a \in CurrentClient : role[user[a].role].manages
RequireAdmin == \E a \in CurrentAdmin : role[user[a].role].manages

ClientLogout(r, u) ==
  /\ u \in CurrentClient
  /\ Begin(r, [Idle EXCEPT !.op = "logout", !.step = "revoke", !.user = u])
  /\ UNCHANGED <<book, raced, contested>>

ChangePassword(r, u) ==
  /\ u \in CurrentClient
  /\ Begin(r, [Idle EXCEPT !.op = "logout", !.step = "revoke", !.user = u])
  /\ UNCHANGED <<book, raced, contested>>

AdminLogout(r, u) ==
  /\ u \in CurrentAdmin
  /\ Begin(r, [Idle EXCEPT !.op = "logout", !.step = "revoke", !.user = u])
  /\ UNCHANGED <<book, raced, contested>>

CreateEmployee(r, u, x) ==
  /\ u \in Staff /\ user[u].state = "none" /\ x \in StaffRole /\ role[x].live
  /\ \A s \in Req : req[s].user # u
  /\ Add(r, [Idle EXCEPT !.op = "create", !.step = "write", !.user = u, !.role = x])

CreateAdminUser(r, u, x) ==
  /\ u \in Operator /\ user[u].state = "none" /\ x \in OperatorRole /\ role[x].live
  /\ \A s \in Req : req[s].user # u
  /\ Add(r, [Idle EXCEPT !.op = "create", !.step = "write", !.user = u, !.role = x])

InsertUser(r) ==
  /\ At(r, {"create"}, "write")
  /\ user' = [user EXCEPT ![req[r].user] = [NoUser EXCEPT !.state = "live", !.role = req[r].role]]
  /\ Done(r)
  /\ UNCHANGED <<sessions, role, active, holder, spent, dead, guesses, raced, contested>>

DeleteAdminUser(r, u) ==
  /\ u \in Operator /\ Live(u) /\ OthersManage(u)
  /\ Edit(r, Operator, [Idle EXCEPT !.op = "delete", !.step = "write", !.user = u])

DeleteUserWrite(r) ==
  LET u == req[r].user
  IN  /\ At(r, {"delete"}, "write")
      /\ user' = [user EXCEPT ![u] = [NoUser EXCEPT !.state = "deleted"]]
      /\ sessions' = [sessions EXCEPT ![u] = <<>>]
      /\ dead' = dead \cup ToSet(sessions[u])
      /\ Done(r)
      /\ UNCHANGED <<role, active, holder, spent, guesses, raced, contested>>

(* Roles.  A role that is demoted while it is held leaves another manager;  *)
(* a role is deleted when nobody holds it.                                  *)
CreateRole(x, m) ==
  /\ x \in StaffRole /\ ~ role[x].live /\ \A s \in Req : req[s].role # x
  /\ role' = [role EXCEPT ![x] = [live |-> TRUE, manages |-> m]]
  /\ UNCHANGED <<user, sessions, active, holder, spent, dead, guesses, raced, contested, req, begun>>

CreateAdminRole(x, m) ==
  /\ x \in OperatorRole /\ ~ role[x].live /\ \A s \in Req : req[s].role # x
  /\ role' = [role EXCEPT ![x] = [live |-> TRUE, manages |-> m]]
  /\ UNCHANGED <<user, sessions, active, holder, spent, dead, guesses, raced, contested, req, begun>>

Holders(x) == {v \in User : Live(v) /\ user[v].role = x}
Demotable(x, realm) ==
  (\E v \in Holders(x) : ~ user[v].blocked) => \E v \in realm \ Holders(x) : Manages(v)

(* Mutant of PatchRole: only a role nobody else could replace is kept.      *)
PatchRoleAnyway(r, x, m) ==
  /\ x \in StaffRole /\ role[x].live
  /\ role[x].manages /\ ~ m => \E y \in StaffRole \ {x} : role[y].live /\ role[y].manages
  /\ Edit(r, Staff, [Idle EXCEPT !.op = "edit_role", !.step = "write", !.role = x,
                                 !.to = IF m THEN "manager" ELSE "member"])

PatchRole(r, x, m) ==
  /\ x \in StaffRole /\ role[x].live
  /\ role[x].manages /\ ~ m => Demotable(x, Staff)
  /\ Edit(r, Staff, [Idle EXCEPT !.op = "edit_role", !.step = "write", !.role = x,
                                 !.to = IF m THEN "manager" ELSE "member"])

UpdateAdminRole(r, x, m) ==
  /\ x \in OperatorRole /\ role[x].live
  /\ role[x].manages /\ ~ m => Demotable(x, Operator)
  /\ Edit(r, Operator, [Idle EXCEPT !.op = "edit_role", !.step = "write", !.role = x,
                                    !.to = IF m THEN "manager" ELSE "member"])

PatchRoleWrite(r) ==
  LET x == req[r].role
  IN  /\ At(r, {"edit_role"}, "write")
      /\ role' = [role EXCEPT ![x].manages = IF role[x].live THEN req[r].to = "manager" ELSE @]
      /\ Done(r)
      /\ UNCHANGED <<user, sessions, active, holder, spent, dead, guesses, raced, contested>>

DeleteRole(r, x) ==
  /\ x \in StaffRole /\ role[x].live /\ Holders(x) = {}
  /\ role[x].manages => \E y \in StaffRole \ {x} : role[y].live /\ role[y].manages
  /\ Edit(r, Staff, [Idle EXCEPT !.op = "delete_role", !.step = "write", !.role = x])

DeleteAdminRole(r, x) ==
  /\ x \in OperatorRole /\ role[x].live /\ Holders(x) = {}
  /\ Edit(r, Operator, [Idle EXCEPT !.op = "delete_role", !.step = "write", !.role = x])

DeleteRoleWrite(r) ==
  /\ At(r, {"delete_role"}, "write")
  /\ role' = [role EXCEPT ![req[r].role] = [live |-> FALSE, manages |-> FALSE]]
  /\ Done(r)
  /\ UNCHANGED <<user, sessions, active, holder, spent, dead, guesses, raced, contested>>

SetCompanyStatus(up) ==
  /\ active' = up /\ active # up
  /\ UNCHANGED <<user, sessions, role, holder, spent, dead, guesses, raced, contested, req, begun>>
-----------------------------------------------------------------------------
Continue(r) ==
  \/ WrongPassword(r) \/ RightPassword(r) \/ IssueTokenPair(r) \/ RotateRefresh(r)
  \/ RevokeAllRefresh(r) \/ EditWrite(r) \/ BlockWrite(r) \/ ResetWrite(r) \/ InsertUser(r)
  \/ DeleteUserWrite(r) \/ PatchRoleWrite(r) \/ DeleteRoleWrite(r)

SignIn(r) ==
  \/ \E t \in Token : ClientRefresh(r, t) \/ AdminRefresh(r, t)
  \/ \E u \in User : ClientLogin(r, u) \/ AdminLogin(r, u) \/ ClientLogout(r, u)
                     \/ ChangePassword(r, u) \/ AdminLogout(r, u)

ManageStaff(r) ==
  /\ Require
  /\ \/ \E u \in Staff, x \in StaffRole : PatchEmployee(r, u, x) \/ CreateEmployee(r, u, x)
     \/ \E u \in Staff : BlockEmployee(r, u)
     \/ \E x \in StaffRole : DeleteRole(r, x) \/ \E m \in BOOLEAN : PatchRole(r, x, m)

ManageOperators(r) ==
  /\ RequireAdmin
  /\ \/ \E u \in Operator, x \in OperatorRole : CreateAdminUser(r, u, x)
     \/ \E u \in Operator, x \in OperatorRole \cup {"none"}, to \in {"same", "block", "unblock"} :
          UpdateAdminUser(r, u, x, to)
     \/ \E u \in Operator : DeleteAdminUser(r, u)

Platform(r) ==
  /\ CurrentAdmin # {}
  /\ \/ \E u \in Staff : SetEmployeeBlocked(r, u)
     \/ \E x \in OperatorRole : DeleteAdminRole(r, x) \/ \E m \in BOOLEAN : UpdateAdminRole(r, x, m)

(* Both the company and the platform unblock, unlock and reset.             *)
Once ==
  \/ \E u \in User : LockExpires(u)
  \/ (Require \/ CurrentAdmin # {}) /\ \E u \in Staff : UnblockEmployee(u) \/ UnlockEmployee(u)
  \/ Require /\ \E x \in StaffRole, m \in BOOLEAN : CreateRole(x, m)
  \/ CurrentAdmin # {} /\ (\/ \E x \in OperatorRole, m \in BOOLEAN : CreateAdminRole(x, m)
                            \/ \E up \in BOOLEAN : SetCompanyStatus(up))

Manage(r) ==
  \/ ManageStaff(r) \/ ManageOperators(r) \/ Platform(r)
  \/ (Require \/ CurrentAdmin # {}) /\ \E u \in Staff : ResetEmployeePassword(r, u)

Next == (\E r \in Req : Continue(r) \/ SignIn(r) \/ Manage(r)) \/ Once
Spec == Init /\ [][Next]_vars
-----------------------------------------------------------------------------
(* A refresh token is exchanged at most once however many requests present  *)
(* it, and one that was exchanged, revoked (logout, block, reset) or pushed *)
(* out never comes back to a list, whatever overlaps: the $pull, $push and  *)
(* $set never write a list that was read before.                            *)
SessionsEnd ==
  /\ \A t \in Token : spent[t] <= 1
  /\ \A u \in User : ToSet(sessions[u]) \cap dead = {}

(* As long as no two logins of one account overlapped, fewer wrong          *)
(* passwords than the threshold were tried since it was last locked, signed *)
(* in or unlocked.  (Overlapping ones count from one copy.)                 *)
GuessesBounded ==
  \A u \in User \ raced : Live(u) => guesses[u] < Threshold /\ guesses[u] <= user[u].failed

(* Each realm keeps somebody unblocked whose role manages it, whatever      *)
(* sequence of demotions, blocks, deletions and role edits is asked for:    *)
(* the guards of both services.  (Two edits at once see each other's        *)
(* manager; the platform's own block asks no guard.)                        *)
ManagerRemains ==
  \A realm \in {Staff, Operator} \ contested : \E v \in realm : Manages(v)
=============================================================================
