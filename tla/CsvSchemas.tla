---------------------------- MODULE CsvSchemas -----------------------------
(***************************************************************************)
(* shared/csv_spec.py and the csv_schema.py of the modules: what a CSV     *)
(* data set is made of, and the rules its rows must keep.  Columns that    *)
(* are treated alike are represented by one of them.                       *)
(***************************************************************************)
EXTENDS Sequences, Integers, FiniteSets, TLC

CONSTANTS None  \* the null of a document

Column(key, kind) ==
  [key |-> key, kind |-> kind, required |-> FALSE, accepted |-> {}, importable |-> TRUE]
Required(column)   == [column EXCEPT !.required = TRUE]
ExportOnly(column) == [column EXCEPT !.importable = FALSE]
Enum(key, accepted) == [Column(key, "enum") EXCEPT !.accepted = accepted]

(* A ref column holds the name of a record of another collection, and the  *)
(* document its id.                                                        *)
RecordFields == <<ExportOnly(Column("id", "id"))>>

(* An entity matches names in any case if it folds its key; unique is the   *)
(* module's index on the key, which covers deleted records too; its ref     *)
(* column may name a record of its own collection (self).                   *)
Entity(name, columns, key) ==
  [name |-> name, columns |-> columns \o RecordFields, key |-> key, fold |-> TRUE, foldRef |-> TRUE,
   self |-> FALSE, unique |-> FALSE, importable |-> TRUE, appendOnly |-> FALSE, defaults |-> <<>>]

CrmAccounts == [Entity("accounts",
  <<Required(Column("name", "str")), Column("tags", "list"), Column("address.city", "str")>>, {"name"})
  EXCEPT !.defaults = "tags" :> <<>>]

Contacts == [Entity("contacts",
  <<Required(Column("first_name", "str")), Column("email", "email"), Column("account_name", "ref"),
    Column("tags", "list")>>, {"email"})
  EXCEPT !.defaults = "tags" :> <<>>]

(* "converted" may be exported, never imported.                             *)
Leads == [Entity("leads",
  <<Required(Column("name", "str")), Column("email", "email"), Enum("status", {"new", "lost"})>>, {"email"})
  EXCEPT !.defaults = "status" :> "new"]

Deals == [Entity("deals",
  <<Required(Column("title", "str")), Column("account_name", "ref"), Enum("stage", {"new", "won", "lost"}),
    Column("amount", "float"), Column("lost_reason", "str")>>, {"title", "account_name"})
  EXCEPT !.defaults = ("stage" :> "new" @@ "amount" :> 0)]

Products == [Entity("products",
  <<Required(Column("sku", "str")), Required(Column("name", "str")), Column("is_active", "bool")>>, {"sku"})
  EXCEPT !.fold = FALSE, !.unique = TRUE, !.defaults = "is_active" :> TRUE]

(* No index keeps the codes of warehouses apart.                            *)
Warehouses == [Entity("warehouses",
  <<Required(Column("code", "str")), Required(Column("name", "str")), Column("address.city", "str"),
    Column("is_active", "bool")>>, {"code"})
  EXCEPT !.fold = FALSE, !.defaults = "is_active" :> TRUE]

Movements == [Entity("movements",
  <<Required(Column("sku_ref", "ref")), Required(Enum("type", {"receipt", "issue", "adjustment"})),
    Required(Column("qty", "float")), Column("note", "str")>>, {})
  EXCEPT !.foldRef = FALSE, !.appendOnly = TRUE]

StockLevels == [Entity("stock-levels", <<ExportOnly(Column("on_hand", "float"))>>, {})
  EXCEPT !.importable = FALSE]

(* A parent account is named by its code.                                   *)
ChartAccounts == [Entity("chart",
  <<Required(Column("code", "str")), Required(Column("name", "str")),
    Required(Enum("type", {"asset", "income"})), Column("parent_code", "ref"),
    Column("is_active", "bool")>>, {"code"})
  EXCEPT !.fold = FALSE, !.foldRef = FALSE, !.self = TRUE, !.unique = TRUE, !.defaults = "is_active" :> TRUE]

(* The registers of posted documents can only be exported.                  *)
Register(name, party) == [Entity(name,
  <<ExportOnly(Column("number", "str")), ExportOnly(Column(party, "str")),
    ExportOnly(Column("total", "float")), ExportOnly(Column("status", "str"))>>, {})
  EXCEPT !.importable = FALSE]
InvoiceRegister == Register("invoices", "customer_ref.name")
BillRegister    == Register("bills", "vendor_ref.name")

Entities == {CrmAccounts, Contacts, Leads, Deals, Products, Warehouses, Movements, StockLevels,
             ChartAccounts, InvoiceRegister, BillRegister}
-----------------------------------------------------------------------------
Columns(e)     == {e.columns[i] : i \in DOMAIN e.columns}
Importable(e)  == {c \in Columns(e) : c.importable}
Field(e, key)  == CHOOSE c \in Columns(e) : c.key = key
IsRef(e, key)  == Field(e, key).kind = "ref"
Has(doc, key)  == key \in DOMAIN doc /\ doc[key] # None
Get(doc, key, default) == IF Has(doc, key) THEN doc[key] ELSE default

(* The row guards: fields are what the row writes, old is the record it was *)
(* found to update, or an empty function.                                   *)
GuardLead(fields, old) == Get(old, "status", "new") # "converted"

GuardDeal(fields, old) ==
  LET stage == Get(fields, "stage", Get(old, "stage", "new"))
  IN  /\ Get(old, "stage", "new") \in {"won", "lost"} => stage = old.stage
      /\ stage = "lost" => Has(fields, "lost_reason") \/ Has(old, "lost_reason")

GuardMovement(fields, old) ==
  /\ fields.type = "adjustment" => Has(fields, "note")
  /\ fields.qty # 0
  /\ fields.type \in {"receipt", "issue"} => fields.qty > 0

Passes(e, fields, old) ==
  CASE e.name = "leads" -> GuardLead(fields, old)
    [] e.name = "deals" -> GuardDeal(fields, old)
    [] e.name = "movements" -> GuardMovement(fields, old)
    [] OTHER -> TRUE
=============================================================================
