----------------------------- MODULE CsvAccess -----------------------------
(***************************************************************************)
(* shared/csv_access.py: which CSV tabs a role may export, import and      *)
(* approve imports of.  A role is [level, owner, stored]: its level on the *)
(* module of the tab, whether it has WRITE on every resource, and its      *)
(* csv_access or None.                                                     *)
(***************************************************************************)
EXTENDS CsvSchemas

CONSTANTS Roles  \* roles that ask for something

READ == 2
Capabilities   == {"export", "import", "approve_import"}
ExportableKeys == {e.name : e \in Entities}
ImportableKeys == {e.name : e \in {f \in Entities : f.importable}}

(* validate, of the role editor.                                            *)
ValidAccess(access) ==
  /\ DOMAIN access = Capabilities
  /\ access["export"] \subseteq ExportableKeys
  /\ access["import"] \cup access["approve_import"] \subseteq ImportableKeys

ASSUME RolesAssumption == \A role \in Roles : role.stored # None => ValidAccess(role.stored)

Full  == [c \in Capabilities |-> IF c = "export" THEN ExportableKeys ELSE ImportableKeys]
Empty == [c \in Capabilities |-> {}]

Effective(role) == IF role.stored # None THEN role.stored ELSE IF role.owner THEN Full ELSE Empty

CanExport(role, tab)  == role.level >= READ /\ tab \in Effective(role)["export"]
CanApprove(role, tab) == role.level >= READ /\ tab \in Effective(role)["approve_import"]
CanImport(role, tab)  ==
  role.level >= READ /\ tab \in Effective(role)["import"] \cup Effective(role)["approve_import"]
NeedsApproval(role, tab) == CanImport(role, tab) /\ ~ CanApprove(role, tab)
=============================================================================
