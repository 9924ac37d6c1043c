---------------------------- MODULE MerchantShelf ----------------------------
(***************************************************************************)
(* What an approved merchant keeps in store: categories and the products   *)
(* saved in them, printers Hudhud lent, and batches of labels, pre-printed *)
(* or printed on such a printer, that are drawn from as parcels are sent.  *)
(* Every row is written under the version that was read; a request that    *)
(* looks at one row and writes another is settled by nothing.              *)
(*                                                                         *)
(* Abstractions.  One merchant, active.  Of a product its category is      *)
(* kept, and of a batch where it came from.  A seal is a pre-printed       *)
(* batch.  What a product or a printer is called is left out.              *)
(***************************************************************************)
EXTENDS Naturals, FiniteSets

CONSTANTS
    Categories, \* numbered in the order they are made, like the next three
    Products,
    Printers,
    Batches,
    Names,      \* of categories
    Size,       \* labels of a batch
    Requests,   \* requests in flight
    None,
    MaxVersion  \* bound on the versions of a row

VARIABLES
    category, \* the row of each category, or None
    product,  \* the row of each product, or None
    printer,  \* the row of each printer authorization, or None
    batch,    \* the row of each allocation, or None
    request,  \* of each request: what it read, or None
    drawn     \* labels of each batch that requests were told they have

catalogue == <<category, product>>
stock     == <<printer, batch, drawn>>
vars      == <<catalogue, stock, request>>

-----------------------------------------------------------------------------
CategoryRow == [name: Names, archived: BOOLEAN, version: 1 .. MaxVersion]

ProductRow == [category: Categories \cup {None}, archived: BOOLEAN, version: 1 .. MaxVersion]

PrinterRow == [active: BOOLEAN, version: 1 .. MaxVersion]

\* ck_merchant_label_consumed_within_allocation
BatchRow == [printer: Printers \cup {None}, used: 0 .. Size, version: 1 .. MaxVersion]

IsNext(table, i) == table[i] = None /\ \A j \in DOMAIN table : j < i => table[j] # None

Open(row) == row # None /\ ~row.archived

Init ==
    /\ category = [c \in Categories |-> None]
    /\ product = [p \in Products |-> None]
    /\ printer = [p \in Printers |-> None]
    /\ batch = [b \in Batches |-> None]
    /\ request = [r \in Requests |-> None]
    /\ drawn = [b \in Batches |-> 0]

\* The row it read, and what it means to write in its place.
Reads(r, kind, row, i) ==
    /\ request[r] = None
    /\ request' = [request EXCEPT ![r] = [kind |-> kind, row |-> row, of |-> i]]
    /\ UNCHANGED <<catalogue, stock>>

Is(r, kind, i) == request[r] # None /\ request[r].kind = kind /\ request[r].of = i

Over(r) == request' = [request EXCEPT ![r] = None]

\* Refused, or it found its row changed, or its process died.
GiveUp(r) == request[r] # None /\ Over(r) /\ UNCHANGED <<catalogue, stock>>

(* Mutated form of IsStillAt: updates do not name the version they read. *)
MutIsStillAt(row, read) == row.version < MaxVersion

IsStillAt(row, read) == row.version = read.version /\ row.version < MaxVersion

-----------------------------------------------------------------------------
(* The catalogue *)

\* uq_merchant_category_name
Taken(name) == {c \in Categories : Open(category[c]) /\ category[c].name = name}

CreateCategory(c, name) ==
    /\ IsNext(category, c) /\ Taken(name) = {}
    /\ category' = [category EXCEPT ![c] = [name |-> name, archived |-> FALSE, version |-> 1]]
    /\ UNCHANGED <<product, stock, request>>

RenameCategory(c, name) ==
    /\ Open(category[c]) /\ category[c].version < MaxVersion
    /\ Taken(name) \subseteq {c}
    /\ category' = [category EXCEPT ![c].name = name, ![c].version = @ + 1]
    /\ UNCHANGED <<product, stock, request>>

ProductsIn(c) == {p \in Products : Open(product[p]) /\ product[p].category = c}

Counted(c) == [row |-> category[c], products |-> ProductsIn(c)]

(* Mutated form of BeginDelete: products do not stand in the way. *)
MutBeginDelete(r, c) == Open(category[c]) /\ Reads(r, "delete", Counted(c), c)

BeginDelete(r, c) ==
    /\ Open(category[c]) /\ ProductsIn(c) = {}
    /\ Reads(r, "delete", Counted(c), c)

DeleteCategory(r, c) ==
    /\ Is(r, "delete", c) /\ IsStillAt(category[c], request[r].row.row)
    /\ category' = [category EXCEPT ![c].archived = TRUE, ![c].version = @ + 1]
    /\ Over(r)
    /\ UNCHANGED <<product, stock>>

\* The category a product is put in is looked at when the request reads.
BeginCreate(r, c) ==
    /\ c # None => Open(category[c])
    /\ Reads(r, "create", [category |-> c, seen |-> IF c = None THEN None ELSE category[c]], None)

CreateProduct(r, p) ==
    /\ Is(r, "create", None) /\ IsNext(product, p)
    /\ product' = [product EXCEPT ![p] =
          [category |-> request[r].row.category, archived |-> FALSE, version |-> 1]]
    /\ Over(r)
    /\ UNCHANGED <<category, stock>>

BeginUpdate(r, p, c) ==
    /\ product[p] # None /\ Open(category[c])
    /\ Reads(r, "update", [category |-> c, seen |-> category[c],
                            version |-> product[p].version], p)

\* Also of an archived product.
UpdateProduct(r, p) ==
    /\ Is(r, "update", p) /\ IsStillAt(product[p], request[r].row)
    /\ product' = [product EXCEPT ![p].category = request[r].row.category,
                                  ![p].version = @ + 1]
    /\ Over(r)
    /\ UNCHANGED <<category, stock>>

ArchiveProduct(p) ==
    /\ product[p] # None /\ product[p].version < MaxVersion
    /\ product' = [product EXCEPT ![p].archived = TRUE, ![p].version = @ + 1]
    /\ UNCHANGED <<category, stock, request>>

-----------------------------------------------------------------------------
(* Label stock *)

AuthorizePrinter(p) ==
    /\ IsNext(printer, p)
    /\ printer' = [printer EXCEPT ![p] = [active |-> TRUE, version |-> 1]]
    /\ UNCHANGED <<catalogue, batch, drawn, request>>

RevokePrinter(p) ==
    /\ printer[p] # None /\ printer[p].version < MaxVersion
    /\ printer' = [printer EXCEPT ![p] = [active |-> FALSE, version |-> @.version + 1]]
    /\ UNCHANGED <<catalogue, batch, drawn, request>>

Issue(b, p) ==
    /\ IsNext(batch, b)
    /\ batch' = [batch EXCEPT ![b] = [printer |-> p, used |-> 0, version |-> 1]]
    /\ UNCHANGED <<catalogue, printer, drawn>>

IssuePreprinted(b) == Issue(b, None) /\ UNCHANGED request

\* _require_live_printer_authorization
BeginSelfPrinted(r, p) ==
    /\ printer[p] # None /\ printer[p].active
    /\ Reads(r, "print", printer[p], p)

IssueSelfPrinted(r, b, p) == Is(r, "print", p) /\ Issue(b, p) /\ Over(r)

BeginConsume(r, b) == batch[b] # None /\ Reads(r, "consume", batch[b], b)

ConsumeLabels(r, b, count) ==
    /\ Is(r, "consume", b) /\ request[r].row.used + count <= Size
    /\ IsStillAt(batch[b], request[r].row)
    /\ batch' = [batch EXCEPT ![b].used = request[r].row.used + count,
                              ![b].version = request[r].row.version + 1]
    /\ drawn' = [drawn EXCEPT ![b] = @ + count]
    /\ Over(r)
    /\ UNCHANGED <<catalogue, printer>>

-----------------------------------------------------------------------------
Next ==
    \/ \E c \in Categories, name \in Names : CreateCategory(c, name) \/ RenameCategory(c, name)
    \/ \E p \in Products : ArchiveProduct(p)
    \/ \E p \in Printers : AuthorizePrinter(p) \/ RevokePrinter(p)
    \/ \E b \in Batches : IssuePreprinted(b)
    \/ \E r \in Requests :
          \/ GiveUp(r)
          \/ \E c \in Categories : BeginDelete(r, c) \/ DeleteCategory(r, c)
          \/ \E c \in Categories \cup {None} : BeginCreate(r, c)
          \/ \E p \in Products :
                \/ CreateProduct(r, p) \/ UpdateProduct(r, p)
                \/ \E c \in Categories : BeginUpdate(r, p, c)
          \/ \E p \in Printers :
                BeginSelfPrinted(r, p) \/ \E b \in Batches : IssueSelfPrinted(r, b, p)
          \/ \E b \in Batches :
                BeginConsume(r, b) \/ \E count \in 1 .. Size : ConsumeLabels(r, b, count)

Spec == Init /\ [][Next]_vars

-----------------------------------------------------------------------------
(* Properties *)

\* Every variable keeps the shape of its table.
TypeOK ==
    /\ category \in [Categories -> CategoryRow \cup {None}]
    /\ product \in [Products -> ProductRow \cup {None}]
    /\ printer \in [Printers -> PrinterRow \cup {None}]
    /\ batch \in [Batches -> BatchRow \cup {None}]
    /\ \A r \in Requests : request[r] # None =>
          request[r].kind \in {"create", "update", "delete", "print", "consume"}

\* Every label a request was told it has is counted, however many draw from a
\* batch at once, and no batch gives more than it holds.  A name is that of one
\* open category.
ShelfIsCounted ==
    /\ \A b \in Batches : drawn[b] = (IF batch[b] = None THEN 0 ELSE batch[b].used)
    /\ \A b \in Batches : drawn[b] <= Size
    /\ \A name \in Names : Cardinality(Taken(name)) <= 1

Orphans == {p \in Products :
    Open(product[p]) /\ product[p].category # None /\ category[product[p].category].archived}

Unlicensed == {b \in Batches : batch[b] # None /\ batch[b].printer # None
                                  /\ ~printer[batch[b].printer].active}

\* What the request looked at is not what it was.
WasOvertaken(r) ==
    LET read == request[r].row
    IN  \/ request[r].kind = "delete" /\ ProductsIn(request[r].of) # read.products
        \/ /\ request[r].kind \in {"create", "update"} /\ read.category # None
           /\ category[read.category] # read.seen
        \/ request[r].kind = "print" /\ printer[request[r].of] # read

\* Only a request that another overtook leaves a product in a category that is
\* gone, or issues labels of a printer that was taken back: no order of requests
\* that each see what the others did.
OnlyRacesOrphan ==
    \/ /\ Orphans' \subseteq Orphans
       /\ Unlicensed' \subseteq Unlicensed \cup {b \in Batches : batch[b] # None}
    \/ \E r \in Requests : request[r] # None /\ request'[r] = None /\ WasOvertaken(r)
=============================================================================
