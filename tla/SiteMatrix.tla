----------------------------- MODULE SiteMatrix -----------------------------
(***************************************************************************)
(* The table of the sites on FATE Manager's page of the cooperation        *)
(* (toGetSite in cooperationdata.vue): the manager answers, for every site *)
(* of the institution, the sites of others it has worked with; the page    *)
(* makes of it a row per site of another institution and a column per own  *)
(* site, sorted, with the cells of an institution spanning its rows.       *)
(***************************************************************************)
EXTENDS Naturals, FiniteSets, Sequences, SequencesExt

CONSTANTS
    OwnSites,  \* the sites of the institution, by number
    Partners   \* the sites of others: [institution, name], a name being a
               \* letter's number and whether it is a capital

\* What is answered for each own site, and which own sites have a number for
\* a name: a row keeps its cells under these names.
Answers == [sites: [OwnSites -> SUBSET Partners], numbers: SUBSET OwnSites]
Key(row, field) == IF field = "institution" THEN row.institution ELSE row.name[1]

-----------------------------------------------------------------------------
\* As they come: by own site, then by institution.
Entry(own, p) == [institution |-> p.institution, name |-> p.name,
                  cells |-> {<<own, p.institution>>}]
EntriesOf(answer, own) ==
    LET listed == SetToSortSeq(answer.sites[own], LAMBDA p, q :
                    \/ p.institution < q.institution
                    \/ p.institution = q.institution /\ p.name[1] > q.name[1])
    IN [k \in DOMAIN listed |-> Entry(own, listed[k])]
Entries(answer) ==
    FoldLeft(LAMBDA list, own : list \o EntriesOf(answer, own), <<>>,
             SetToSortSeq(OwnSites, LAMBDA a, b : a < b))

\* Array.sort is stable; names are compared without their case.
sortBySame(rows, field) ==
    LET order == SortSeq([k \in DOMAIN rows |-> k], LAMBDA i, j :
                    \/ Key(rows[i], field) < Key(rows[j], field)
                    \/ Key(rows[i], field) = Key(rows[j], field) /\ i < j)
    IN [k \in DOMAIN rows |-> rows[order[k]]]

\* One row after the other is taken off: it starts a row of the table, or it
\* is taken to be the one that was found to have the same name, whose cell
\* has been added to the row by then.  The cell is looked for in the third
\* field of that row, behind the institution and the name; but a field that is
\* called by a number comes before all others, and the third is the name then.
ThirdField(row, numbers) == {c \in row.cells : c[1] \notin numbers}
Put(cells, new) == {c \in cells : c[1] \notin {n[1] : n \in new}} \cup new
findSame(rows, numbers) ==
    LET Step(done, k) ==
          LET table == IF done.hasSame THEN done.table ELSE Append(done.table, rows[k])
              last == Len(table)
              same == {j \in (k + 1) .. Len(rows) : rows[j].name = table[last].name}
              first == CHOOSE j \in same : \A i \in same : j <= i
          IN IF same = {} THEN [table |-> table, hasSame |-> FALSE]
             ELSE [table |-> [table EXCEPT ![last].cells = Put(@, ThirdField(rows[first], numbers))],
                   hasSame |-> TRUE]
    IN FoldLeft(Step, [table |-> <<>>, hasSame |-> FALSE], [k \in DOMAIN rows |-> k]).table

toGetSite(answer) ==
    sortBySame(findSame(sortBySame(Entries(answer), "name"), answer.numbers), "institution")

\* How many rows a cell of the first column spans: all of its institution at
\* the first of them, none at the others.
getLength(rows, institution) == Cardinality({k \in DOMAIN rows : rows[k].institution = institution})
lengthList(rows) ==
    LET names == FoldLeft(LAMBDA list, row : IF row.institution \in ToSet(list) THEN list
                                            ELSE Append(list, row.institution), <<>>, rows)
        Spans(institution) == [k \in 1 .. getLength(rows, institution) |->
                                 IF k = 1 THEN getLength(rows, institution) ELSE 0]
    IN FoldLeft(LAMBDA list, name : list \o Spans(name), <<>>, names)

-----------------------------------------------------------------------------
(* The reference: a row per partner of the answer, with its cells.         *)

PartnersOf(answer) == UNION {answer.sites[own] : own \in OwnSites}
CellsOf(answer, p) == {<<own, p.institution>> : own \in {o \in OwnSites : p \in answer.sites[o]}}

\* No two sites have the same name, the case aside.
Unambiguous(answer) ==
    \A p, q \in PartnersOf(answer) : p # q => p.name[1] # q.name[1]

\* A row has no cell but those answered, and of these it has the first and
\* all of own sites with letters in their names.
IsRowOf(row, answer) ==
    LET cells == CellsOf(answer, [institution |-> row.institution, name |-> row.name])
    IN /\ ThirdField([row EXCEPT !.cells = cells], answer.numbers) \subseteq row.cells
       /\ row.cells \subseteq cells
       /\ \E c \in row.cells : \A d \in cells : c[1] <= d[1]

IsTableOf(rows, answer) ==
    /\ {[institution |-> row.institution, name |-> row.name] : row \in ToSet(rows)} = PartnersOf(answer)
    /\ Len(rows) = Cardinality(PartnersOf(answer))
    /\ \A row \in ToSet(rows) : IsRowOf(row, answer)

\* The spans cover runs of rows of one institution each.
SpansOK(rows, spans) ==
    /\ Len(spans) = Len(rows)
    /\ \A k \in DOMAIN spans : spans[k] > 0 =>
          {j \in DOMAIN rows : rows[j].institution = rows[k].institution} = k .. (k + spans[k] - 1)
=============================================================================
