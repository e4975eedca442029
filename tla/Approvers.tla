----------------------------- MODULE Approvers -----------------------------
(***************************************************************************)
(* Who may approve a stage: the approver map of settings/service.py, the   *)
(* positions of projects/engines.py, and the delegations of                *)
(* projects/service.py.  A position is held by users it is assigned to and *)
(* by those with a client role it maps to; a holder may name a deputy for  *)
(* a while.                                                                *)
(***************************************************************************)
EXTENDS Integers, Sequences, FiniteSets

CONSTANTS
  User, ClientRole, Position,
  Director,       \* the position project_director
  MaxTime,        \* bound on the days
  Seeded,         \* the client roles each position is seeded with
  Hired,          \* the client role each user has at first
  MaxEdits,       \* bound on the changes of the map and of roles
  MaxAsks,        \* bound on the requests
  MaxDelegations  \* bound on the delegations

ASSUME DirectorAssumption == Director \in Position /\ "none" \notin User \cup Position
ASSUME SeedAssumption == Seeded \in [Position -> SUBSET ClientRole] /\ Hired \in [User -> ClientRole]
ASSUME TimeAssumption == {MaxTime, MaxEdits, MaxAsks, MaxDelegations} \subseteq Nat

VARIABLES
  clock,       \* in days: a delegation may start and end within one
  map,         \* approver_role_map: of each position, its users and client roles
  roleOf,      \* the client role of each user
  delegations,  \* approver_delegations, as they were inserted
  asking,      \* the request of each user that is under way, checked but not written
  held,        \* history: who ever held which position
  decided,     \* history: the latest decision: who, on which position, begun when
  ended,       \* history: of each delegation, when it was revoked, or MaxTime + 1
  edits, asks  \* history: how many changes and requests there were

approverVars == <<clock, map, roleOf, delegations, asking, held, decided, ended, edits, asks>>

NoDelegation == [position |-> "none", deputy |-> "none", by |-> "none", starts |-> 0, ends |-> 0, revoked |-> FALSE]
Still  == [op |-> "idle", id |-> 0, what |-> NoDelegation, at |-> 0]
Time   == 0 .. MaxTime
Undecided == [by |-> "none", position |-> "none", at |-> 0]
-----------------------------------------------------------------------------
(* engines.py: holds_position, may_approve; repository.py:                  *)
(* has_active_delegation.                                                   *)
HoldsPosition(u, p) == u \in map[p].users \/ roleOf[u] \in map[p].roles

HasActiveDelegation(u, p) ==
  \E x \in DOMAIN delegations :
    LET d == delegations[x]
    IN  d.position = p /\ d.deputy = u /\ ~ d.revoked /\ d.starts <= clock /\ clock <= d.ends

MayApprove(u, p) == HoldsPosition(u, p) \/ HasActiveDelegation(u, p)

(* Mutant of MayDelegate: a deputy may delegate too.                        *)
DeputyMayDelegate(u, p) == MayApprove(u, p) \/ MayApprove(u, Director)
MayDelegate(u, p) == HoldsPosition(u, p) \/ HoldsPosition(u, Director)

Holders == {up \in User \X Position : up[1] \in map[up[2]].users \/ roleOf[up[1]] \in map[up[2]].roles}

(* patch_approver_map, and patch_employee as it changes a role.             *)
Edit2 == edits < MaxEdits /\ edits' = edits + 1 /\ UNCHANGED asks
Remember == held' = held \cup {up \in User \X Position : up[1] \in map'[up[2]].users \/ roleOf'[up[1]] \in map'[up[2]].roles}

PatchApproverMap(p, users, roles) ==
  /\ Edit2
  /\ map' = [map EXCEPT ![p] = [users |-> users, roles |-> roles]]
  /\ UNCHANGED roleOf /\ Remember
  /\ UNCHANGED <<clock, delegations, asking, decided, ended>>

ChangeRole(u, role) ==
  /\ Edit2
  /\ roleOf' = [roleOf EXCEPT ![u] = role]
  /\ UNCHANGED map /\ Remember
  /\ UNCHANGED <<clock, delegations, asking, decided, ended>>

Tick ==
  /\ clock < MaxTime /\ clock' = clock + 1
  /\ UNCHANGED <<map, roleOf, delegations, asking, held, decided, ended, edits, asks>>

Ask(u, op, x, what) ==
  /\ asking[u] = Still
  /\ asks < MaxAsks /\ asks' = asks + 1
  /\ asking' = [asking EXCEPT ![u] = [op |-> op, id |-> x, what |-> what, at |-> clock]]
  /\ UNCHANGED <<clock, map, roleOf, delegations, held, decided, ended, edits>>
Answered(u) == asking' = [asking EXCEPT ![u] = Still] /\ UNCHANGED <<edits, asks>>

(* create_delegation checks, then inserts.                                  *)
CreateDelegation(u, p, deputy, starts, ends) ==
  /\ MayDelegate(u, p)
  /\ deputy # u /\ starts <= ends
  /\ Len(delegations) + Cardinality({v \in User : asking[v].op = "delegate"}) < MaxDelegations
  /\ Ask(u, "delegate", 0, [NoDelegation EXCEPT !.position = p, !.deputy = deputy, !.by = u,
                                                !.starts = starts, !.ends = ends])

InsertDelegation(u) ==
  /\ asking[u].op = "delegate"
  /\ delegations' = Append(delegations, asking[u].what)
  /\ ended' = Append(ended, MaxTime + 1)
  /\ Answered(u)
  /\ UNCHANGED <<clock, map, roleOf, held, decided>>

(* revoke_delegation, under the same guard.                                 *)
RevokeDelegation(u, x) ==
  /\ MayDelegate(u, delegations[x].position)
  /\ Ask(u, "revoke", x, NoDelegation)

WriteRevoked(u) ==
  /\ asking[u].op = "revoke"
  /\ delegations' = [delegations EXCEPT ![asking[u].id].revoked = TRUE]
  /\ ended' = [ended EXCEPT ![asking[u].id] = IF clock < @ THEN clock ELSE @]
  /\ Answered(u)
  /\ UNCHANGED <<clock, map, roleOf, held, decided>>

(* _assert_may_approve, then the decision is written.                       *)
Decide(u, p) ==
  MayApprove(u, p) /\ Ask(u, "decide", 0, [NoDelegation EXCEPT !.position = p])

WriteDecision(u) ==
  /\ asking[u].op = "decide"
  /\ decided' = [by |-> u, position |-> asking[u].what.position, at |-> asking[u].at]
  /\ Answered(u)
  /\ UNCHANGED <<clock, map, roleOf, delegations, held, ended>>
-----------------------------------------------------------------------------
ApproversInit ==
  /\ clock = 0
  /\ map = [p \in Position |-> [users |-> {}, roles |-> Seeded[p]]] /\ roleOf = Hired
  /\ delegations = <<>> /\ asking = [u \in User |-> Still]
  /\ held = Holders /\ decided = Undecided /\ ended = <<>> /\ edits = 0 /\ asks = 0

ApproversNext ==
  \/ Tick
  \/ \E p \in Position, users \in SUBSET User, roles \in SUBSET ClientRole :
       /\ Cardinality(users) <= 1 /\ (users = map[p].users) # (roles = map[p].roles)
       /\ PatchApproverMap(p, users, roles)
  \/ \E u \in User :
       \/ InsertDelegation(u) \/ WriteRevoked(u) \/ WriteDecision(u)
       \/ \E role \in ClientRole : ChangeRole(u, role)
       \/ \E p \in Position : Decide(u, p)
       \/ \E x \in DOMAIN delegations : RevokeDelegation(u, x)
       \/ \E p \in Position, v \in User, s, e \in Time : CreateDelegation(u, p, v, s, e)

ApproversSpec == ApproversInit /\ [][ApproversNext]_approverVars
-----------------------------------------------------------------------------
(* "`projects` WRITE alone never suffices", "a deputy cannot re-delegate":  *)
(* whatever changes of the map and of roles, delegations, revocations and   *)
(* expiries come between, a decision is by someone who held the position *)
(* or was deputy, when the request began, under a delegation that had       *)
(* started and neither ended nor been revoked, of someone who held the      *)
(* position or the director's.                                              *)
Rightful(d) ==
  \/ <<d.by, d.position>> \in held
  \/ \E x \in DOMAIN delegations :
       LET g == delegations[x]
       IN  /\ g.position = d.position /\ g.deputy = d.by
           /\ g.starts <= d.at /\ d.at <= g.ends /\ d.at <= ended[x]
           /\ g.by # d.by /\ {<<g.by, g.position>>, <<g.by, Director>>} \cap held # {}

AuthorityTraceable == decided = Undecided \/ Rightful(decided)
=============================================================================
