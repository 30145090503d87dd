----------------------------- MODULE Exchanges ------------------------------
(***************************************************************************)
(* The exchanges (ipexchange.vue) and, under each of them, the table of    *)
(* its roll sites (ipexchangetable.vue).  The tables are made by the place *)
(* of their exchange in the list: a table stays, with its page and its     *)
(* rows, when another exchange takes the place.  500 ms after a list has   *)
(* arrived all its tables ask for their rows.                              *)
(***************************************************************************)
EXTENDS Page

Requests == {"list", "rollsites", "deleteExchange", "deleteRollsite", "publish", "update"}

ListSize == 2
TableSize == 1
Published == 1
Unpublished == 2
Deleted == 3

-----------------------------------------------------------------------------
(* The manager: the exchanges in their order, each with its roll sites, and *)
(* the status of every route of a roll site.                               *)

RollSite(id, parties) == [rollSiteId |-> id, parties |-> parties]
status(site) ==
    IF Range(site.parties) \subseteq {Published} THEN "published" ELSE "unpublished"
RollSitesOf(id) ==
    LET found == {k \in DOMAIN server : server[k].exchangeId = id}
    IN IF found = {} THEN <<>> ELSE server[CHOOSE k \in found : TRUE].rollSites

ExchangesOf(page) ==
    [list |-> [k \in DOMAIN Chunk(server, ListSize, page) |->
                  Chunk(server, ListSize, page)[k].exchangeId],
     totalRecord |-> Len(server)]
TableOf(query) ==
    [list |-> Chunk(RollSitesOf(query.exchangeId), TableSize, query.pageNum),
     totalRecord |-> Len(RollSitesOf(query.exchangeId))]

-----------------------------------------------------------------------------
(* The page.                                                               *)

NewTable == [tableData |-> <<>>, total |-> 0, pageNum |-> 1]
NoDialog == [name |-> "none", place |-> 0, id |-> 0]

initList(v) == <<Ask("list", v.pageNum)>>

togetRollsiteList(v, k) ==
    AskFrom(k, "rollsites", [exchangeId |-> v.exchangeList[k], pageNum |-> v.table[k].pageNum])

Entered(page) ==
    [page |-> page, pageNum |-> 1, exchangeList |-> <<>>, total |-> 0, activeName |-> <<>>,
     isAllFold |-> FALSE, timers |-> 0, table |-> <<>>, dialog |-> NoDialog]

Init ==
    /\ server = << [exchangeId |-> 1, rollSites |-> <<RollSite(11, <<Published, Published>>),
                                                      RollSite(12, <<Unpublished, Deleted>>)>>],
                   [exchangeId |-> 2, rollSites |-> <<RollSite(21, <<Published>>)>>],
                   [exchangeId |-> 3, rollSites |-> <<RollSite(31, <<Unpublished>>)>>] >>
    /\ view = Entered("ipexchange")
    /\ Created(initList(view))

\* What can be clicked: a dialog covers the list and the tables, and the
\* table of an exchange that is folded shows nothing.
ListControls(v) ==
    IF v.page # "ipexchange" \/ v.dialog.name # "none" THEN {}
    ELSE {"add", "page"} \cup (IF v.exchangeList = <<>> THEN {} ELSE {"fold", "delete"})
Unfolded(v) ==
    IF ListControls(v) = {} THEN {}
    ELSE {k \in DOMAIN v.exchangeList : \E j \in DOMAIN v.activeName : v.activeName[j] = v.exchangeList[k]}
RowControls(site) ==
    {"edit", "delete", "show"} \cup (IF status(site) = "unpublished" THEN {"publish"} ELSE {})
RowsWith(v, control) ==
    {r \in [place : Unfolded(v), id : {11, 12, 21, 31}] :
        \E j \in DOMAIN v.table[r.place].tableData :
            /\ v.table[r.place].tableData[j].rollSiteId = r.id
            /\ control \in RowControls(v.table[r.place].tableData[j])}

toDeleteExchangeId(id) ==
    /\ "delete" \in ListControls(view) /\ id \in Range(view.exchangeList)
    /\ Click(<<>>)
    /\ view' = [view EXCEPT !.dialog = [NoDialog EXCEPT !.name = "deleteExchange", !.id = id]]

handleCurrentChange(page) ==
    /\ "page" \in ListControls(view) /\ page # view.pageNum
    /\ view' = [view EXCEPT !.pageNum = page]
    /\ Click(initList(view'))

\* A click on the name of an exchange.
Collapse(id) ==
    LET place == {j \in DOMAIN view.activeName : view.activeName[j] = id}
    IN /\ ListControls(view) # {} /\ id \in Range(view.exchangeList)
       /\ Click(<<>>)
       /\ view' = [view EXCEPT !.activeName =
                     IF place = {} THEN Append(@, id)
                     ELSE Without(@, CHOOSE j \in place : \A i \in place : j <= i)]

toFold ==
    /\ "fold" \in ListControls(view)
    /\ Click(<<>>)
    /\ view' = [view EXCEPT !.activeName = IF @ # <<>> THEN <<>> ELSE view.exchangeList,
                            !.isAllFold = ~@]

\* To the page that adds an exchange (ExchangeForm), and back.
toAddExchange ==
    /\ "add" \in ListControls(view) /\ UserActs /\ ~busy
    /\ view' = Entered("ipaddexchange")
    /\ calls' = <<>> /\ busy' = FALSE
    /\ UNCHANGED <<server, mishaps>>

Back ==
    /\ view.page # "ipexchange"
    /\ view' = Entered("ipexchange")
    /\ Click(initList(view'))

\* The tables.
TablePage(k, page) ==
    /\ k \in Unfolded(view) /\ page # view.table[k].pageNum
    /\ view' = [view EXCEPT !.table[k].pageNum = page]
    /\ Click(<<togetRollsiteList(view', k)>>)

\* toDeleteRollsite, clickPublish and toShowSiteNet open the dialogs of a
\* table, rollsiteEdit the one of a roll site (RollSiteForm).
OpenDialog(row, control) ==
    /\ row \in RowsWith(view, control)
    /\ Click(<<>>)
    /\ view' = [view EXCEPT !.dialog = [name |-> control, place |-> row.place, id |-> row.id]]

\* What the dialog in front is confirmed with: toDelet, of the list and of a
\* table, toClickPublish, and the update of a roll site.
Confirm ==
    LET d == view.dialog
    IN /\ d.name \notin {"none", "show"}
       /\ Click(<<Ask(CASE d.name = "delete" -> "deleteRollsite" [] d.name = "edit" -> "update"
                        [] OTHER -> d.name, d.id)>>)
       /\ UNCHANGED view

CloseDialog ==
    /\ view.dialog.name # "none"
    /\ Click(<<>>)
    /\ view' = [view EXCEPT !.dialog = NoDialog]

\* The tables of the list that is there when the 500 ms are over.
TablesTimer ==
    /\ view.timers > 0
    /\ view' = [view EXCEPT !.timers = @ - 1]
    /\ Sends([k \in DOMAIN view.exchangeList |-> togetRollsiteList(view, k)])
    /\ UNCHANGED steps

-----------------------------------------------------------------------------
(* What the manager does.                                                  *)

\* What a change makes of the roll sites of an exchange.
Change(Rows(_)) ==
    server' = [k \in DOMAIN server |-> [server[k] EXCEPT !.rollSites = Rows(@)]]

Rewritten(rows, id, F(_)) ==
    [j \in DOMAIN rows |-> IF rows[j].rollSiteId = id THEN F(rows[j]) ELSE rows[j]]

\* A publication drops the routes that were deleted.
PublishedSite(site) ==
    [site EXCEPT !.parties = [k \in DOMAIN SelectSeq(@, LAMBDA p : p # Deleted) |-> Published]]
UpdatedSite(site) == [site EXCEPT !.parties[1] = Unpublished]

ServeChange(i) ==
    LET id == calls[i].arg
    IN /\ \/ calls[i].op = "deleteExchange" /\ server' = Picked(server, {k \in DOMAIN server : server[k].exchangeId # id})
          \/ calls[i].op = "deleteRollsite" /\ Change(LAMBDA rows : Picked(rows, {j \in DOMAIN rows : rows[j].rollSiteId # id}))
          \/ calls[i].op = "publish" /\ Change(LAMBDA rows : Rewritten(rows, id, PublishedSite))
          \/ calls[i].op = "update" /\ Change(LAMBDA rows : Rewritten(rows, id, UpdatedSite))
       /\ Reply(i, Ok(0))

ServeQuestion(i) ==
    /\ \/ calls[i].op = "list" /\ Reply(i, Ok(ExchangesOf(calls[i].arg)))
       \/ calls[i].op = "rollsites" /\ Reply(i, Ok(TableOf(calls[i].arg)))
    /\ UNCHANGED server

-----------------------------------------------------------------------------
(* Answers.                                                                *)

ListThen(i) ==
    /\ Got(i, "list")
    /\ view' = [view EXCEPT !.exchangeList = Data(i).list, !.total = Data(i).totalRecord,
                  !.activeName = IF view.isAllFold THEN @ \o Data(i).list ELSE @,
                  !.table = [k \in DOMAIN Data(i).list |-> IF k \in DOMAIN @ THEN @[k] ELSE NewTable],
                  !.timers = @ + 1]
    /\ Handled(i, <<>>)

\* The table the answer is for can be gone.
RollsitesThen(i) ==
    LET k == calls[i].part
    IN /\ Got(i, "rollsites")
       /\ view' = IF k \notin DOMAIN view.table THEN view
                  ELSE [view EXCEPT !.table[k].tableData = Data(i).list,
                                    !.table[k].total = Data(i).totalRecord]
       /\ Handled(i, <<>>)

Changed(i) == \E op \in {"deleteExchange", "deleteRollsite", "publish", "update"} : Got(i, op)

\* Mutated form: a table asks for its own rows only.
ChangedThenOfTable(i) ==
    /\ Changed(i)
    /\ view' = [view EXCEPT !.dialog = NoDialog]
    /\ Handled(i, IF view.dialog.place \in DOMAIN view.table
                  THEN <<togetRollsiteList(view, view.dialog.place)>> ELSE <<>>)

ChangedThen(i) ==
    /\ Changed(i)
    /\ view' = [view EXCEPT !.dialog = NoDialog]
    /\ Handled(i, initList(view))

Acts ==
    \/ \E id \in {1, 2, 3} : toDeleteExchangeId(id) \/ Collapse(id)
    \/ \E p \in PagesOf(view.total, ListSize) : handleCurrentChange(p)
    \/ \E k \in Unfolded(view) : \E p \in PagesOf(view.table[k].total, TableSize) : TablePage(k, p)
    \/ \E control \in {"edit", "delete", "show", "publish"} :
          \E row \in RowsWith(view, control) : OpenDialog(row, control)
    \/ toFold \/ toAddExchange \/ Back \/ Confirm \/ CloseDialog \/ TablesTimer

Next ==
    \/ Acts
    \/ \E i \in DOMAIN calls :
          \/ ServeChange(i) \/ ServeQuestion(i) \/ Fail(i)
          \/ ListThen(i) \/ RollsitesThen(i) \/ ChangedThen(i) \/ Ignores(i)

Spec == Init /\ [][Next]_pageVars

-----------------------------------------------------------------------------
\* When nothing is on its way every table shows the roll sites of its own
\* exchange, as they are stored, whatever was deleted, published and paged
\* and whichever exchanges have changed their places.
TablesAreCurrent ==
    Settled /\ view.timers = 0 => \A k \in DOMAIN view.table :
        /\ view.exchangeList[k] \in {server[j].exchangeId : j \in DOMAIN server}
        /\ view.table[k].tableData = TableOf([exchangeId |-> view.exchangeList[k],
                                              pageNum |-> view.table[k].pageNum]).list
=============================================================================
