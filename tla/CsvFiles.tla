----------------------------- MODULE CsvFiles ------------------------------
(***************************************************************************)
(* shared/csv_io.py and shared/csv_service.py: one data set, what exporting *)
(* it writes and what importing a file does to it.  Requests are taken one *)
(* at a time here; CrmImports lets those of the deals overlap.             *)
(*                                                                         *)
(* A table is the sequence of the records ever inserted, [live, doc]; an id *)
(* is a place in it.  A file is [head, rows]: its headings, normalised, and *)
(* its rows of cells; "" is a blank cell.  The bytes of a file (encoding,   *)
(* delimiter, quotes), dates, and the noise in numbers are left out.        *)
(***************************************************************************)
EXTENDS CsvAccess, SequencesExt

CONSTANTS
  Bad,         \* what is read of a cell that cannot be
  Lower,       \* of the texts that are not in lower case, the text that is
  Stripped,    \* of the padded texts, the text without its padding
  Tags,        \* tags there may be
  Parts,       \* of the tags with a separator, the tags they are read as
  Number,      \* numbers there may be in a cell
  MaxRows,     \* settings.max_import_rows
  Written,      \* per data set, the documents that the module's API writes
  Uploads,     \* per data set, the files that are uploaded
  Start,       \* the names of the records of the other collection, in order
  Names,       \* names they may be given
  MaxRecords   \* bound on the records that requests insert

VARIABLES
  dataset,  \* the name of the data set
  table,    \* its collection
  targets,  \* the collection its ref column names: a sequence of [name, live]
  staged    \* the file that waits for an approval, or None

csvVars == <<dataset, table, targets, staged>>

entity == CHOOSE e \in Entities : e.name = dataset
-----------------------------------------------------------------------------
(* csv_io: cells.                                                           *)
Trim(text)   == IF text \in DOMAIN Stripped THEN Stripped[text] ELSE text
Folded(text) == IF Trim(text) \in DOMAIN Lower THEN Lower[Trim(text)] ELSE Trim(text)
Joined(tags) == FoldLeft(LAMBDA text, tag : IF text = "" THEN tag ELSE text \o "; " \o tag, "", tags)
Lists == {<<>>} \cup {<<a>> : a \in Tags} \cup {<<a, b>> : a, b \in Tags}
Yes == {"true", "yes", "y", "1"}
No  == {"false", "no", "n", "0"}

(* A cell of tags is cut at every separator, those within a tag too.        *)
Pieces(tag) ==
  IF tag \in DOMAIN Parts THEN Parts[tag] ELSE IF Trim(tag) = "" THEN <<>> ELSE <<Trim(tag)>>
Cut(cell) == LET tags == CHOOSE tags \in Lists : Joined(tags) = cell
             IN  FlattenSeq([i \in DOMAIN tags |-> Pieces(tags[i])])

Coerce(c, cell) ==
  CASE Trim(cell) = ""   -> IF c.required THEN Bad ELSE None
    [] c.kind = "email"  -> Folded(cell)
    [] c.kind = "enum"   -> IF Folded(cell) \in c.accepted THEN Folded(cell) ELSE Bad
    [] c.kind = "bool"   -> IF Folded(cell) \in Yes \cup No THEN Folded(cell) \in Yes ELSE Bad
    [] c.kind = "float"  -> LET read == {n \in Number : ToString(n) = Trim(cell)}
                            IN  IF read = {} THEN Bad ELSE CHOOSE n \in read : TRUE
    [] c.kind = "list"   -> Cut(cell)
    [] OTHER             -> Trim(cell)

FormatCell(c, value) ==
  CASE value = None -> ""
    [] c.kind = "bool" -> IF value THEN "true" ELSE "false"
    [] c.kind \in {"float", "id"} -> ToString(value)
    [] c.kind = "list" -> Joined(value)
    [] OTHER -> value

(* csv_io.parse: columns are found by their heading, others are ignored;    *)
(* blank rows are skipped; a row with a bad cell is held back whole.        *)
CellAt(file, i, key) ==
  LET j == CHOOSE k \in DOMAIN file.head : file.head[k] = key
  IN  IF j <= Len(file.rows[i]) THEN file.rows[i][j] ELSE ""

Present(e, file) == {c \in Importable(e) : \E i \in DOMAIN file.head : file.head[i] = c.key}
Seen(file) == {i \in DOMAIN file.rows : \E j \in DOMAIN file.rows[i] : Trim(file.rows[i][j]) # ""}

Readable(e, file) ==
  /\ \A c \in Present(e, file) : Cardinality({i \in DOMAIN file.head : file.head[i] = c.key}) = 1
  /\ {c \in Importable(e) : c.required} \subseteq Present(e, file)
  /\ Present(e, file) # {}
  /\ Cardinality(Seen(file)) <= MaxRows

Values(e, file, i) ==
  [key \in {c.key : c \in Present(e, file)} |-> Coerce(Field(e, key), CellAt(file, i, key))]
Sound(values) == \A key \in DOMAIN values : values[key] # Bad
-----------------------------------------------------------------------------
(* Natural keys.  A row or record whose key has a blank column has none;    *)
(* a blank ref column is a part of the key all the same.                    *)
Text(e, text)  == IF e.fold THEN Folded(text) ELSE text
KeyOf(e, doc) ==
  IF e.appendOnly \/ e.key = {} \/ \E key \in e.key : ~ IsRef(e, key) /\ ~ Has(doc, key) THEN None
  ELSE [key \in e.key |-> IF IsRef(e, key) THEN Get(doc, key, None) ELSE Text(e, doc[key])]

(* The records that the ref column names, [name, live].                     *)
Named(e) ==
  IF e.self THEN [i \in DOMAIN table |-> [name |-> table[i].doc.code, live |-> table[i].live]] ELSE targets

First(places) == IF places = {} THEN 0 ELSE CHOOSE i \in places : \A j \in places : i <= j

RefText(e, name) == IF e.foldRef THEN Folded(name) ELSE name
Matching(e, name) ==
  First({t \in DOMAIN Named(e) : Named(e)[t].live /\ RefText(e, Named(e)[t].name) = RefText(e, name)})

Refs(e, values)  == {key \in DOMAIN values : IsRef(e, key) /\ values[key] # None}
Known(e, values) == \A key \in Refs(e, values) : Matching(e, values[key]) # 0

(* Mutant of DocFields: a blank cell is written as a null.                  *)
FieldsWithBlanks(e, values, creating) ==
  [key \in DOMAIN values |-> IF key \in Refs(e, values) THEN Matching(e, values[key]) ELSE values[key]]
    @@ (IF creating THEN e.defaults ELSE <<>>)

(* _doc_fields: what the row carries a value for, over the defaults of a    *)
(* record it creates.                                                       *)
DocFields(e, values, creating) ==
  [key \in {k \in DOMAIN values : values[k] # None} |->
     IF IsRef(e, key) THEN Matching(e, values[key]) ELSE values[key]]
    @@ (IF creating THEN e.defaults ELSE <<>>)

Indexed(e, key) == First({i \in DOMAIN table : table[i].live /\ KeyOf(e, table[i].doc) = key})

RowKey(e, values) == KeyOf(e, DocFields(e, values, FALSE))

(* import_csv: the rows in order; the planned ones with their key, the      *)
(* record they update or 0, and whether they create one.  A key planned     *)
(* earlier in the file is a repeat.                                         *)
OnRecord(e, key) == IF key = None THEN 0 ELSE Indexed(e, key)

RowPlan(e, plan, i, values, key, existing) ==
  LET creating == existing = 0 /\ (key = None \/ \A j \in DOMAIN plan : plan[j].key # key)
  IN  [row |-> i, key |-> key, existing |-> existing, creating |-> creating,
       fields |-> DocFields(e, values, creating)]

Passed(e, plan, p) ==
  IF Passes(e, p.fields, IF p.existing = 0 THEN <<>> ELSE table[p.existing].doc)
  THEN Append(plan, p) ELSE plan

PlanKey(e, plan, i, values, key) == Passed(e, plan, RowPlan(e, plan, i, values, key, OnRecord(e, key)))

PlanRow(e, plan, i, values) ==
  IF Sound(values) /\ Known(e, values) THEN PlanKey(e, plan, i, values, RowKey(e, values)) ELSE plan

Plan(e, file) ==
  LET rows == SelectSeq([i \in DOMAIN file.rows |-> i], LAMBDA i : i \in Seen(file))
  IN  FoldLeft(LAMBDA plan, i : PlanRow(e, plan, i, Values(e, file, i)), <<>>, rows)

Empties(e) == [key \in {c.key : c \in {d \in Columns(e) : d.kind # "id"}} |-> None]
Holding(e, tab, doc) == {i \in DOMAIN tab : \A key \in e.key : tab[i].doc[key] = doc[key]}
Taken(e, tab, doc) == e.unique /\ Holding(e, tab, doc) # {}

(* _apply: what the rows update or insert.  A row inserts unless it updates *)
(* the record found for it or the one an earlier row of its key inserted; a *)
(* row that the module's writer refuses, or whose key a deleted record      *)
(* holds, fails.                                                            *)
WriteRow(e, refused, done, p) ==
  LET target == IF p.existing # 0 THEN p.existing
                ELSE First({i \in done.fresh : KeyOf(e, done.table[i].doc) = p.key})
      new    == p.fields @@ Empties(e)
  IN  IF target # 0
      THEN [done EXCEPT !.table[target].doc = p.fields @@ @, !.updated = @ + 1]
      ELSE IF p.row \in refused \/ Taken(e, done.table, new)
      THEN [done EXCEPT !.failed = @ + 1]
      ELSE [done EXCEPT !.table = Append(@, [live |-> TRUE, doc |-> new]), !.created = @ + 1,
                        !.fresh = IF p.key = None THEN @ ELSE @ \cup {Len(done.table) + 1}]

Count(plan, creating) == Cardinality({i \in DOMAIN plan : plan[i].creating = creating})

Counted(file, plan) ==
  [created |-> Count(plan, TRUE), updated |-> Count(plan, FALSE),
   failed |-> Cardinality(Seen(file)) - Len(plan)]

Preview(e, file) ==
  IF Readable(e, file) THEN Counted(file, Plan(e, file)) ELSE [created |-> 0, updated |-> 0, failed |-> 0]

Apply(e, file, refused, plan) ==
  FoldLeft(LAMBDA done, p : WriteRow(e, refused, done, p),
           [table |-> table, fresh |-> {}, created |-> 0, updated |-> 0,
            failed |-> Counted(file, plan).failed], plan)

Import(e, file, refused) ==
  IF Readable(e, file) THEN Apply(e, file, refused, Plan(e, file))
  ELSE [table |-> table, fresh |-> {}, created |-> 0, updated |-> 0, failed |-> 0]

(* Rows that the writer of a ledger may refuse: it alone has effects beyond *)
(* the record.                                                              *)
Refusals(e, file) == IF e.appendOnly THEN SUBSET DOMAIN file.rows ELSE {{}}
-----------------------------------------------------------------------------
(* Export: the columns that were asked for, in the order of the data set,   *)
(* or all; of the live records that the filters leave (owner, status, text, *)
(* account, dates), whichever they are.                                     *)
SelectFields(e, wanted) == SelectSeq(e.columns, LAMBDA c : wanted = {} \/ c.key \in wanted)
Filtered == SUBSET {i \in DOMAIN table : table[i].live}

(* The name of a referenced record is shown although it is deleted.         *)
NameOf(e, id) == IF id = None THEN "" ELSE Named(e)[id].name

Shown(e, c, i) ==
  CASE c.kind = "id"  -> FormatCell(c, i)
    [] c.kind = "ref" -> NameOf(e, table[i].doc[c.key])
    [] OTHER          -> FormatCell(c, table[i].doc[c.key])

ExportFile(e, wanted, chosen) ==
  LET columns == SelectFields(e, wanted)
      shown   == SelectSeq([i \in DOMAIN table |-> i], LAMBDA i : i \in chosen)
  IN  [head |-> [j \in DOMAIN columns |-> columns[j].key],
       rows |-> [n \in DOMAIN shown |-> [j \in DOMAIN columns |-> Shown(e, columns[j], shown[n])]]]
-----------------------------------------------------------------------------
(* The writes of the module's API, which keeps the rules its guards repeat. *)
(* A key that is an exact identifier is refused if a record holds it, a     *)
(* deleted one too.  A parent account is only looked for when an account is *)
(* created.                                                                 *)
Links(e, doc)  == {doc[key] : key \in {k \in DOMAIN doc : IsRef(e, k) /\ doc[k] # None}}
Linked(e, doc) == \A t \in Links(e, doc) : t \in DOMAIN Named(e) /\ Named(e)[t].live
Refused(e, doc, own) == ~ e.fold /\ Holding(e, table, doc) \ own # {}

Create(doc) ==
  /\ Len(table) < MaxRecords
  /\ Linked(entity, doc) /\ Passes(entity, doc, <<>>) /\ ~ Refused(entity, doc, {})
  /\ Get(doc, "status", "new") # "converted"
  /\ table' = Append(table, [live |-> TRUE, doc |-> doc])
  /\ UNCHANGED <<dataset, targets, staged>>

Edit(i, doc) ==
  /\ table[i].live /\ ~ entity.appendOnly
  /\ IF entity.self THEN Links(entity, doc) \subseteq DOMAIN table ELSE Linked(entity, doc)
  /\ Passes(entity, doc, table[i].doc) /\ ~ Refused(entity, doc, {i})
  /\ table' = [table EXCEPT ![i].doc = [key \in DOMAIN @ |-> Get(doc, key, @[key])]]
  /\ UNCHANGED <<dataset, targets, staged>>

Delete(i) ==
  /\ table[i].live /\ ~ entity.appendOnly
  /\ table' = [table EXCEPT ![i].live = FALSE]
  /\ UNCHANGED <<dataset, targets, staged>>

Rename(t, name) ==
  /\ targets[t].live
  /\ targets' = [targets EXCEPT ![t].name = name]
  /\ UNCHANGED <<dataset, table, staged>>

DeleteTarget(t) ==
  /\ targets[t].live
  /\ targets' = [targets EXCEPT ![t].live = FALSE]
  /\ UNCHANGED <<dataset, table, staged>>

(* The routes (csv_router.py).  A file may be one that was exported.        *)
Becomes(tab) == Len(tab) <= MaxRecords /\ table' = tab
Commit(file) == \E refused \in Refusals(entity, file) : Becomes(Import(entity, file, refused).table)

Upload(role, file) ==
  /\ entity.importable /\ CanImport(role, dataset)
  /\ IF NeedsApproval(role, dataset)
     THEN staged = None /\ Readable(entity, file) /\ staged' = file /\ UNCHANGED table
     ELSE Commit(file) /\ UNCHANGED staged
  /\ UNCHANGED <<dataset, targets>>

Keys(e) == {c.key : c \in Columns(e)}
Download(role, file) ==
  CanExport(role, dataset) /\ \E chosen \in Filtered : file = ExportFile(entity, {}, chosen)

Decides(role) == staged # None /\ CanApprove(role, dataset)

ApproveStaged(role) ==
  /\ Decides(role)
  /\ Commit(staged) /\ staged' = None
  /\ UNCHANGED <<dataset, targets>>

RejectStaged(role) ==
  /\ Decides(role)
  /\ staged' = None
  /\ UNCHANGED <<dataset, table, targets>>
-----------------------------------------------------------------------------
CsvInit ==
  /\ dataset \in ExportableKeys
  /\ table = <<>> /\ staged = None
  /\ targets = IF \E c \in Columns(entity) : c.kind = "ref"
                  /\ ~ entity.self
               THEN [t \in DOMAIN Start |-> [name |-> Start[t], live |-> TRUE]] ELSE <<>>

CsvNext ==
  \/ \E doc \in Written[dataset] : Create(doc) \/ \E i \in DOMAIN table : Edit(i, doc)
  \/ \E i \in DOMAIN table : Delete(i)
  \/ \E t \in DOMAIN targets : DeleteTarget(t) \/ \E name \in Names : Rename(t, name)
  \/ \E role \in Roles :
       \/ \E file \in Uploads[dataset] : Upload(role, file)
       \/ \E file \in {ExportFile(entity, {}, chosen) : chosen \in Filtered} :
            Download(role, file) /\ Upload(role, file)
       \/ ApproveStaged(role) \/ RejectStaged(role)

CsvSpec == CsvInit /\ [][CsvNext]_csvVars
-----------------------------------------------------------------------------
Live(tab) == {i \in DOMAIN tab : tab[i].live}
Distinct(e, tab) ==
  \A i, j \in Live(tab) : i # j /\ KeyOf(e, tab[i].doc) # None => KeyOf(e, tab[i].doc) # KeyOf(e, tab[j].doc)
Unambiguous(e) ==
  \A t, u \in DOMAIN Named(e) : t # u => RefText(e, Named(e)[t].name) # RefText(e, Named(e)[u].name)

Locked(e, doc) ==
  \/ Get(doc, "status", "new") = "converted"
  \/ ~ Linked(e, doc)

Needed(e) == {c.key : c \in {d \in Columns(e) : d.required}} \cup e.key

(* What an import reads as it was stored: a text that is not padded, tags    *)
(* without separators.  A record whose texts are not all padding can be read *)
(* back, and can be found if its key is not padded or folded.               *)
Whole(c, value) ==
  CASE value = None \/ c.kind \in {"bool", "float", "id", "ref"} -> TRUE
    [] c.kind = "list" -> \A i \in DOMAIN value : Pieces(value[i]) = <<value[i]>>
    [] OTHER -> Trim(value) = value

Legible(e, doc) ==
  \A c \in Columns(e) : c.kind = "str" /\ Has(doc, c.key) =>
    /\ Trim(doc[c.key]) # ""
    /\ c.key \in e.key /\ ~ e.fold => Whole(c, doc[c.key])

Spares(done, chosen) ==
  /\ Len(done.table) = Len(table)
  /\ \A i \in DOMAIN table, key \in Keys(entity) \ {"id"} :
       done.table[i].doc[key] # table[i].doc[key]
         => i \in chosen /\ ~ Whole(Field(entity, key), table[i].doc[key])
  /\ done.failed <= Cardinality({i \in chosen : Locked(entity, table[i].doc)})


SaysOf(values, fields, i, key, value) ==
  /\ Sound(values) /\ Known(entity, values)
  /\ table[i].live /\ RowKey(entity, values) = KeyOf(entity, table[i].doc)
  /\ key \in DOMAIN fields /\ value = fields[key] /\ value # None

SaysWith(values, i, key, value) == SaysOf(values, DocFields(entity, values, FALSE), i, key, value)

Says(file, i, key, value) ==
  \E n \in Seen(file) : SaysWith(Values(entity, file, n), i, key, value)

AccountsFor(file, refused, done, shown) ==
  /\ Len(done.table) = Len(table) + done.created
  /\ Readable(entity, file) => done.created + done.updated + done.failed = Cardinality(Seen(file))
  /\ \A i \in DOMAIN table : \A key \in DOMAIN table[i].doc :
       done.table[i].doc[key] # table[i].doc[key] => Says(file, i, key, done.table[i].doc[key])
  /\ Distinct(entity, table) => Distinct(entity, done.table)
  /\ refused = {} /\ Live(table) = DOMAIN table
       => done.created = shown.created /\ done.updated = shown.updated

(* "An absent column must not overwrite stored data", a blank cell neither, *)
(* and a second row of a key "updates the record that row created, rather   *)
(* than inserting a near-duplicate": whatever the file and the table,       *)
(* importing changes a field of a record only to what a sound row of its    *)
(* key says, makes no two records of one key, accounts for each row once,   *)
(* and does what the preview showed unless the writer or an index objects.  *)
OnlyWhatTheFileSays ==
  \A file \in Uploads[dataset] : \A refused \in Refusals(entity, file) :
    AccountsFor(file, refused, Import(entity, file, refused), Preview(entity, file))
=============================================================================
