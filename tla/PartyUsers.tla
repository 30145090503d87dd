----------------------------- MODULE PartyUsers -----------------------------
(***************************************************************************)
(* The users of a group of party ids (partyuser.vue): the sites that hold  *)
(* one of its ids, or held one, and the institutions to search them by.    *)
(* The radio button asks for both at once, so that one of the answers      *)
(* opens the page to the next click while the other is under way.          *)
(***************************************************************************)
EXTENDS Page, SequencesExt

CONSTANT Institutions

Requests == {"list", "institutions"}

PageSize == 1
Radios == {"In Use", "Historic Uses"}
StatusList(radio) == IF radio = "In Use" THEN {1, 2} ELSE {3}
Orders == {"asc", "desc"}

-----------------------------------------------------------------------------
(* The manager: the sites of the group, with status and institution.       *)

Site(id, status, institution) ==
    [partyId |-> id, status |-> status, institutions |-> institution]

Matching(query) ==
    {s \in server : s.status \in query.statusList /\ query.institutions \in {"", s.institutions}}
ListOf(query) ==
    LET rows == SetToSortSeq(Matching(query), LAMBDA a, b :
                  IF query.orderRule = "asc" THEN a.partyId < b.partyId ELSE a.partyId > b.partyId)
    IN [list |-> Chunk(rows, PageSize, query.pageNum), totalRecord |-> Len(rows)]
InstitutionsOf(statusList) ==
    {s.institutions : s \in {t \in server : t.status \in statusList}}

-----------------------------------------------------------------------------
initList(v) == <<Ask("list", v.data)>>
Asked(v) == [v EXCEPT !.asked = v.data]

\* togetinstitution empties the choices and fills them when the answer comes.
togetinstitution(v) == <<Ask("institutions", v.data.statusList)>>

Query == [pageNum |-> 1, statusList |-> {1, 2}, institutions |-> "", orderRule |-> "asc"]

\* The watcher of the radio button runs as the page is created.
Init ==
    /\ server \in {{Site(1, 2, i), Site(2, s, j)} : i, j \in Institutions, s \in {2, 3}}
    /\ view = [radio |-> "In Use", data |-> Query, asked |-> Query,
               tableData |-> <<>>, total |-> 0, groupSetStatusSelect |-> <<>>]
    /\ Created(initList(view) \o togetinstitution(view))

\* watch radio: the page number stays as it is.
Radio(radio) ==
    /\ radio # view.radio
    /\ view' = Asked([view EXCEPT !.radio = radio, !.data.statusList = StatusList(radio),
                                  !.groupSetStatusSelect = <<>>])
    /\ Click(initList(view') \o togetinstitution(view'))

\* A choice of the select searches at once.
toSearch(institution) ==
    /\ institution \in ToSet(view.groupSetStatusSelect) \cup {"", view.data.institutions}
    /\ view' = Asked([view EXCEPT !.data.institutions = institution, !.data.pageNum = 1])
    /\ Click(initList(view'))

handleCurrentChange(page) ==
    /\ page # view.data.pageNum
    /\ view' = Asked([view EXCEPT !.data.pageNum = page])
    /\ Click(initList(view'))

sortChange(order) ==
    /\ view' = Asked([view EXCEPT !.data.orderRule = order])
    /\ Click(initList(view'))

-----------------------------------------------------------------------------
Serve(i) ==
    /\ \/ calls[i].op = "list" /\ Reply(i, Ok(ListOf(calls[i].arg)))
       \/ calls[i].op = "institutions"
            /\ Reply(i, Ok(SetToSeq(InstitutionsOf(calls[i].arg))))
    /\ UNCHANGED server

ListThen(i) ==
    /\ Got(i, "list")
    /\ view' = [view EXCEPT !.tableData = Data(i).list, !.total = Data(i).totalRecord]
    /\ Handled(i, <<>>)

\* The choices are appended to those that are there.
InstitutionsThen(i) ==
    /\ Got(i, "institutions")
    /\ view' = [view EXCEPT !.groupSetStatusSelect = @ \o Data(i)]
    /\ Handled(i, <<>>)

Acts ==
    \/ \E radio \in Radios : Radio(radio)
    \/ \E institution \in Institutions \cup {""} : toSearch(institution)
    \/ \E page \in PagesOf(view.total, PageSize) : handleCurrentChange(page)
    \/ \E order \in Orders : sortChange(order)

Next ==
    \/ Acts
    \/ \E i \in DOMAIN calls :
          Serve(i) \/ Fail(i) \/ ListThen(i) \/ InstitutionsThen(i) \/ Ignores(i)

Spec == Init /\ [][Next]_pageVars

-----------------------------------------------------------------------------
\* The rows are those of the search asked last, whatever was answered when,
\* unless two lists crossed.
RowsOfLastSearch ==
    (calls = <<>> /\ mishaps \subseteq {"overlapped"}) =>
        view.tableData = ListOf(view.asked).list

\* The institutions offered are those of the sites under the radio button,
\* each once: the choices of the other button are gone, late answers apart.
ChoicesOfRadio ==
    Settled => /\ ToSet(view.groupSetStatusSelect) = InstitutionsOf(StatusList(view.radio))
               /\ Len(view.groupSetStatusSelect) = Cardinality(ToSet(view.groupSetStatusSelect))
=============================================================================
