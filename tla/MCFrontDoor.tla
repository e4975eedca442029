---------------------------- MODULE MCFrontDoor ----------------------------
(* A small instance of what a request meets before a handler (Gateway), of *)
(* signing in (Accounts), and of what a person is shown then (Dashboard).   *)
(* They share no variable, so that every interleaving of them projects to   *)
(* the same behaviours of each: the bound of this instance is that a        *)
(* behaviour takes steps of one of them, and of one part of the dashboard.  *)
EXTENDS Accounts, Gateway, Dashboard, TLC

CONSTANTS inside, outside, ours  \* addresses: two clients', the proxy's

Country2 == [a \in Address |-> IF a = inside THEN "AA" ELSE "BB"]
Sanctioned == [kind |-> "deny", type |-> "country", covers |-> {"AA"}]
Office == [kind |-> "allow", type |-> "net", covers |-> {inside}]
Identities == {Sanctioned, Office}
Seeded == {Sanctioned}

Suggestions == <<[key |-> "overdue", module |-> "projects"], [key |-> "leads", module |-> "crm"]>>
Shortcuts   == <<[key |-> "project.new", module |-> "projects"], [key |-> "lead.new", module |-> "crm"],
                 [key |-> "deal.new", module |-> "crm"]>>

Choice(pins, hides) == [pinned |-> pins, hidden |-> hides]
PinsAndHides == {Choice(<<>>, {}), Choice(<<"deal.new", "project.new">>, {}),
                 Choice(<<"lead.new">>, {"project.new"}), Choice(<<>>, {"lead.new", "deal.new"})}

NoFeed    == feed = NoWalk
NoStrip   == dismissed = {} /\ waved = <<>> /\ \A k \in Keys : signal[k] = 0
NoActions == prefs = NoPrefs /\ \A e \in log : e.action = "none"
Only(ops) == \A t \in Tab : pending[t].op \in {"none"} \cup ops
OnePart ==
  \/ NoStrip /\ NoActions /\ Only({}) /\ day = 0 /\ (LevelChanges \/ FeedNext)
  \/ /\ NoFeed /\ log = {} /\ NoActions /\ Only({"read", "write"})
     /\ (LevelChanges \/ NextDay \/ StripNext)
  \/ /\ NoFeed /\ NoStrip /\ (\A e \in log : e.action # "none") /\ Only({"prefs"})
     /\ (LevelChanges \/ NextDay \/ ActionNext)

FrontInit == Init /\ GateInit /\ DashboardInit
FrontNext ==
  \/ asked = 0 /\ unique /\ DashboardInit /\ Next /\ UNCHANGED <<gateVars, dashboardVars>>
  \/ Init /\ DashboardInit /\ GateNext /\ UNCHANGED <<vars, dashboardVars>>
  \/ Init /\ GateInit /\ OnePart /\ UNCHANGED <<vars, gateVars>>
FrontSpec == FrontInit /\ [][FrontNext]_<<vars, gateVars, dashboardVars>>

Symmetries == Permutations(Req) \cup Permutations(Worker)
=============================================================================
