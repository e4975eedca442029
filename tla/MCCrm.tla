------------------------------- MODULE MCCrm -------------------------------
(* Small instances of the requests of CRM that overlap (CrmImports) and of  *)
(* the files of the data sets (CsvFiles).  They share no variable, so that  *)
(* every interleaving of the two projects to the same behaviours of each:   *)
(* the bound of this instance is that a behaviour takes steps of one.       *)
EXTENDS CrmImports, CsvFiles

CONSTANTS a0

(* One account besides those of conversions.  The file: two rows of one     *)
(* key, the first closing the deal, after one that cannot be read.          *)
Row(stage, sound) == [acc |-> a0, stage |-> stage, sound |-> sound]
MCFiles == {<<Row("open", FALSE), Row("closed", TRUE), Row("open", TRUE)>>}
MCHouse == {a0}

(* One file of one and of two rows of each data set, among them rows of one *)
(* key in two cases, bad and unknown cells, and too few or twice a column.  *)
Cap(export, import, approve) ==
  [c \in Capabilities |-> IF c = "export" THEN export ELSE IF c = "import" THEN import ELSE approve]
Clerk   == [level |-> 2, owner |-> FALSE, stored |-> Cap({"leads"}, {"leads"}, {})]
Owner   == [level |-> 3, owner |-> TRUE, stored |-> None]
Visitor == [level |-> 1, owner |-> FALSE, stored |-> Full]
Seller  == [level |-> 2, owner |-> FALSE, stored |-> Cap({}, {"deals"}, {})]
CsvRoles == {Clerk, Owner, Visitor}
MCSellers == {Seller, Owner, Visitor}

CsvLower == "A" :> "a" @@ "X" :> "x"
CsvStripped == [text \in {"a ", " f", "X ", " "} |->
                  CASE text = "a " -> "a" [] text = " f" -> "f" [] text = "X " -> "X" [] OTHER -> ""]
CsvTags == {"t", "u", "t, u"}
CsvParts == "t, u" :> <<"t", "u">>
CsvNumber == -1 .. 2

CsvStart == <<"x">>
Base(e) == {c.key : c \in Importable(e)}
Doc(e, fields) == fields @@ Empties(e)

Documents(e) ==
  CASE e.name = "accounts" -> {Doc(e, "name" :> n @@ "tags" :> t) : n \in {"a ", "A"}, t \in {<<>>, <<"t, u">>}}
    [] e.name = "contacts" -> {Doc(e, "first_name" :> " f" @@ "email" :> m @@ "account_name" :> 1) : m \in {"a", None}}
    [] e.name = "leads"    -> {Doc(e, "name" :> "n" @@ "email" :> "a" @@ "status" :> s) : s \in {"new", "converted"}}
    [] e.name = "deals"    -> {Doc(e, "title" :> "a " @@ "account_name" :> a @@ "stage" :> s @@ "amount" :> 1
                                       @@ "lost_reason" :> "r") :
                                 <<a, s>> \in {<<1, "new">>, <<1, "lost">>, <<None, "new">>}}
    [] e.name = "products" -> {Doc(e, "sku" :> k @@ "name" :> "n" @@ "is_active" :> b) : k \in {"a", "a "}, b \in BOOLEAN}
    [] e.name = "warehouses" -> {Doc(e, "code" :> k @@ "name" :> "n" @@ "address.city" :> c) :
                                   k \in {"a", "A"}, c \in {"c", None}}
    [] e.name = "chart"    -> {Doc(e, "code" :> k @@ "name" :> "n" @@ "type" :> "asset" @@ "parent_code" :> p) :
                                 k \in {"a", "b"}, p \in {1, None}}
    [] e.name \in {"invoices", "bills"} -> {Doc(e, "number" :> "a" @@ "total" :> n @@ "status" :> "s") : n \in {1, 2}}
    [] e.name = "movements" -> {Doc(e, "sku_ref" :> 1 @@ "type" :> "issue" @@ "qty" :> 1)}
    [] OTHER -> {Doc(e, "on_hand" :> 1)}
CsvWritten == [n \in ExportableKeys |-> UNION {Documents(e) : e \in {f \in Entities : f.name = n}}]

File(head, rows) == [head |-> head, rows |-> rows]
Rows2(rows) == {<<a>> : a \in rows} \cup {<<a, b>> : a, b \in rows}
Sheets(e) ==
  CASE e.name = "accounts" -> {File(<<"name", "tags", "address.city">>, r) : r \in
                                 Rows2({<<"A">>, <<"a ", "u", "">>, <<"b", "", "c">>, <<" ", "t">>})}
    [] e.name = "contacts" -> {File(<<"email", "first_name", "account_name">>, r) : r \in
                                 Rows2({<<"A", "g", "X ">>, <<"a", "f">>, <<"", "g">>, <<"a", "g", "z">>})}
    [] e.name = "leads"    -> {File(<<"name", "status", "email">>, r) : r \in
                                 Rows2({<<"m", "lost", "a">>, <<"n", "converted", "a">>, <<"m", "", "b">>})}
    [] e.name = "deals"    -> {File(<<"title", "account_name", "stage", "notes", "lost_reason">>, r) : r \in
                                 Rows2({<<"A", "X", "new">>, <<"a", "x", "lost">>, <<"a", "", "lost", "", "r">>})}
    [] e.name = "products" -> {File(<<"sku", "name", "is_active">>, r) : r \in
                                 Rows2({<<"A", "m", "no">>, <<"a", "n", "maybe">>, <<"b", "n">>})}
                              \cup {File(<<"sku", "sku", "name">>, <<<<"a", "b", "n">>>>), File(<<"sku">>, <<>>)}
    [] e.name = "warehouses" -> {File(<<"code", "name", "is_active">>, r) : r \in
                                 Rows2({<<"A", "m", "no">>, <<"a", "n", "">>, <<"b", "">>})}
    [] e.name = "chart"    -> {File(<<"code", "name", "type", "parent_code">>, r) : r \in
                                 Rows2({<<"a", "m", "income">>, <<"b", "n", "asset", "a">>, <<"A", "n", "asset", "z">>})}
    [] e.name = "movements" -> {File(<<"sku_ref", "type", "qty", "note">>, r) : r \in
                                 Rows2({<<"x", "receipt", "2">>, <<"x", "adjustment", "-1">>, <<"X", "issue", "1">>})}
    [] OTHER -> {}
CsvUploads == [n \in ExportableKeys |-> UNION {Sheets(e) : e \in {f \in Entities : f.name = n}}]


BothInit == ImportsInit /\ CsvInit
BothNext == \/ dataset = "stock-levels" /\ table = <<>> /\ ImportsNext /\ UNCHANGED csvVars
            \/ ImportsInit /\ CsvNext /\ UNCHANGED allVars
BothSpec == BothInit /\ [][BothNext]_<<allVars, csvVars>>

Interchangeable == Permutations(Handler) \cup Permutations(Conv) \cup Permutations(Posted)
=============================================================================
