---------------------------- MODULE RollSiteForm ----------------------------
(***************************************************************************)
(* The dialog of a roll site (ipaddrollsite.vue): it adds a roll site to   *)
(* an exchange, or changes the routes of one.  The list has one of these   *)
(* dialogs to add with, and each of its tables one to edit with; a         *)
(* behaviour is that of one of them, kind.  A dialog keeps what it held    *)
(* when it is opened again: the rows of a roll site are asked for 300 ms   *)
(* after it was opened, and until then, or for good when the request       *)
(* fails, it shows what its last use has left there.                       *)
(*                                                                         *)
(* History: the field of of a row is the network it was loaded from, and 0 *)
(* for a row entered by hand; loaded is what was loaded last, handmade     *)
(* whether rows were added since; crowded, whether the 300 ms were over    *)
(* while another request was under way, whose answer then takes the        *)
(* overlay down before the rows are there.                                 *)
(***************************************************************************)
EXTENDS Page

Requests == {"query", "search", "checkParty", "addRollsite", "update", "list"}

RollSites == {1, 2}        \* those the tables show; their networks are 1 and 2
Networks == 1 .. 4
NoNetwork == 0
Accesses == {"x", "y"}     \* the addresses of a party
Published == 1
Unpublished == 2
Deleted == 3

Row(partyId, access, status, of) ==
    [partyId |-> partyId, networkAccess |-> access, status |-> status, of |-> of]

-----------------------------------------------------------------------------
(* The manager and the exchange behind it: the routes of a network.        *)

RoutesOf(network) == server.routes[network]
Searched(query) ==
    LET rows == RoutesOf(query.rollSiteId)
    IN Picked(rows, {k \in DOMAIN rows : query.partyId \in {"", rows[k].partyId}})
PartyTaken(query) ==
    query.partyId = "used" \/ (query.rollSiteId \in RollSites /\ Searched(query) # <<>>)

-----------------------------------------------------------------------------
(* The dialog.                                                             *)

NoForm == [networkAccess |-> NoNetwork, partyAddBeanList |-> <<>>]
NoSite == [type |-> "none", partyId |-> "", networkAccess |-> "", status |-> 0, of |-> 0]

Init ==
    /\ server = [routes |-> [n \in Networks |->
            CASE n = 1 -> <<Row("default", "x", Published, n), Row("p1", "x", Published, n),
                            Row("p2", "y", Unpublished, n)>>
              [] n = 2 -> <<Row("p3", "x", Published, n)>>
              [] OTHER -> <<Row("default", "x", Unpublished, n)>>],
          added |-> {}]
    /\ \E kind \in {"add", "edit"} :
        view = [kind |-> kind, editdialog |-> FALSE, exchangeData |-> NoForm, timers |-> 0,
                rollSiteId |-> 0, searched |-> "", siteNetIndex |-> 1, tempPartyId |-> "",
                tempExchangeDataList |-> <<>>, addSiteNet |-> NoSite, checkResult |-> FALSE,
                loaded |-> <<>>, handmade |-> FALSE, crowded |-> FALSE]
    /\ Created(<<>>)

Rows(v) == v.exchangeData.partyAddBeanList

\* The controls of the dialog, and of a row: a row of the exchange itself is
\* not deleted, and one that is deleted can only be recovered.  The dialog
\* of a party covers both.
Controls(v) ==
    IF ~v.editdialog \/ v.addSiteNet.type # "none" THEN {}
    ELSE {"cancel", "ok"}
           \cup (IF v.exchangeData.networkAccess # NoNetwork THEN {"acquire", "addSiteNet"} ELSE {})
           \cup (IF v.kind = "add" THEN {"network"} ELSE {"search"})
RowControls(v, k) ==
    IF Controls(v) = {} THEN {}
    ELSE IF Rows(v)[k].partyId = "default" THEN {"edit"}
    ELSE IF Rows(v)[k].status = Deleted THEN {"recover"} ELSE {"edit", "delete"}
SiteControls(v) ==
    IF v.addSiteNet.type = "none" THEN {}
    ELSE {"networkAccess", "submit", "cancel"}
           \cup (IF v.addSiteNet.type = "add" THEN {"partyId"} ELSE {})

toAddRollsite ==
    /\ view.kind = "add" /\ ~view.editdialog
    /\ Click(<<>>)
    /\ view' = [view EXCEPT !.editdialog = TRUE]

rollsiteEdit(id) ==
    /\ view.kind = "edit" /\ ~view.editdialog
    /\ Click(<<>>)
    /\ view' = [view EXCEPT !.editdialog = TRUE, !.rollSiteId = id, !.timers = @ + 1,
                            !.exchangeData.networkAccess = id]

toAcquire(v) == <<Ask("query", v.exchangeData.networkAccess)>>

\* The 300 ms are over, whatever the dialog shows by then.
AcquireTimer ==
    /\ view.timers > 0
    /\ view' = [view EXCEPT !.timers = @ - 1, !.crowded = @ \/ calls # <<>>]
    /\ Sends(toAcquire(view)) /\ UNCHANGED steps

ClickAcquire ==
    /\ "acquire" \in Controls(view)
    /\ Click(toAcquire(view))
    /\ UNCHANGED view

EnterNetwork(network) ==
    /\ "network" \in Controls(view) /\ network # view.exchangeData.networkAccess
    /\ Click(<<>>)
    /\ view' = [view EXCEPT !.exchangeData = [networkAccess |-> network, partyAddBeanList |-> <<>>]]

toSearch(partyId) ==
    /\ "search" \in Controls(view)
    /\ view' = [view EXCEPT !.searched = partyId]
    /\ Click(<<Ask("search", [rollSiteId |-> view.rollSiteId, partyId |-> partyId])>>)

\* Mutated form: the rows stay in the dialog.
tocancelKept(v) == [v EXCEPT !.editdialog = FALSE]

tocancel(v) == [v EXCEPT !.exchangeData = NoForm, !.editdialog = FALSE]

Cancel ==
    /\ "cancel" \in Controls(view)
    /\ Click(<<>>)
    /\ view' = tocancel(view)

\* toaction and toSureEexchange.
toaction ==
    LET form == view.exchangeData
    IN /\ "ok" \in Controls(view)
       /\ Click(IF Rows(view) = <<>> \/ form.networkAccess = NoNetwork THEN <<>>
                ELSE IF view.kind = "add" THEN <<Ask("addRollsite", form)>>
                ELSE <<Ask("update", [rollSiteId |-> view.rollSiteId, rows |-> Rows(view)])>>)
       /\ UNCHANGED view

\* A search that is still there is undone, as far as it was kept.
showAddSiteNet ==
    /\ "addSiteNet" \in Controls(view)
    /\ Click(<<>>)
    /\ view' = [IF view.searched # "" /\ Rows(view) # <<>>
                THEN [view EXCEPT !.searched = "", !.exchangeData.partyAddBeanList = view.tempExchangeDataList]
                ELSE view
                EXCEPT !.addSiteNet = [NoSite EXCEPT !.type = "add", !.status = Unpublished]]

toEditSiteNet(k) ==
    LET row == Rows(view)[k]
    IN /\ "edit" \in RowControls(view, k)
       /\ Click(<<>>)
       /\ view' = [view EXCEPT !.siteNetIndex = k, !.tempPartyId = row.partyId,
                     !.addSiteNet = [type |-> "edit", partyId |-> row.partyId, status |-> row.status,
                                     networkAccess |-> row.networkAccess, of |-> row.of]]

DeleteSiteNet(k) ==
    /\ "delete" \in RowControls(view, k)
    /\ Click(<<>>)
    /\ view' = [view EXCEPT !.siteNetIndex = k, !.exchangeData.partyAddBeanList[k].status = Deleted]

\* The status of a row against the row it is compared with.
StatusAgainst(temp, access) ==
    IF temp.networkAccess # access THEN Unpublished ELSE temp.status

\* There is a row to compare with, or nothing happens.
Comparable(v) == v.siteNetIndex \in DOMAIN v.tempExchangeDataList

\* The row compared with is that of siteNetIndex, which a recovery leaves as
\* the last deletion or the last opening has set it.
toRecover(k) ==
    /\ "recover" \in RowControls(view, k) /\ Comparable(view)
    /\ Click(<<>>)
    /\ view' = [view EXCEPT !.exchangeData.partyAddBeanList[k].status =
                  StatusAgainst(view.tempExchangeDataList[view.siteNetIndex], Rows(view)[k].networkAccess)]

\* checkParty, as the field of the party id is left.
EnterPartyId(partyId) ==
    LET twice == /\ partyId # view.tempPartyId
                 /\ \E k \in DOMAIN Rows(view) : Rows(view)[k].partyId = partyId
    IN /\ "partyId" \in SiteControls(view) /\ partyId # view.addSiteNet.partyId
       /\ view' = [view EXCEPT !.addSiteNet.partyId = partyId,
                               !.checkResult = (twice \/ @)]
       /\ Click(IF twice THEN <<>>
                ELSE <<Ask("checkParty", [partyId |-> partyId, rollSiteId |-> view.rollSiteId])>>)

\* The dialog of the addresses, as far as this one sees it (AddressList).
EnterAccess(access) ==
    /\ "networkAccess" \in SiteControls(view) /\ access # view.addSiteNet.networkAccess
    /\ Click(<<>>)
    /\ view' = [view EXCEPT !.addSiteNet.networkAccess = access]

cancelAddSiteNet ==
    /\ "cancel" \in SiteControls(view)
    /\ Click(<<>>)
    /\ view' = [view EXCEPT !.addSiteNet = NoSite]

validate(v) ==
    v.addSiteNet.partyId # "" /\ ~v.checkResult /\ v.addSiteNet.networkAccess # ""

\* A row that is no longer there is put at the end (the dialog of a party
\* can outlive the one it belongs to).
Put(rows, k, row) ==
    IF k \in DOMAIN rows THEN [rows EXCEPT ![k] = row] ELSE Append(rows, row)

toAddSiteNet ==
    LET s == view.addSiteNet
        temp == view.tempExchangeDataList[view.siteNetIndex]
        edited == Row(s.partyId, s.networkAccess, StatusAgainst(temp, s.networkAccess), s.of)
        added == Append(Rows(view), Row(s.partyId, s.networkAccess, s.status, s.of))
    IN /\ "submit" \in SiteControls(view) /\ validate(view)
       /\ s.type = "edit" => Comparable(view)
       /\ Click(<<>>)
       /\ view' = [IF s.type = "edit"
                   THEN [view EXCEPT !.exchangeData.partyAddBeanList = Put(@, view.siteNetIndex, edited)]
                   ELSE [view EXCEPT !.exchangeData.partyAddBeanList = added,
                                     !.tempExchangeDataList = added, !.handmade = TRUE]
                   EXCEPT !.addSiteNet = NoSite]

-----------------------------------------------------------------------------
(* What the manager does.                                                  *)

Ids(rows) == {rows[k].partyId : k \in DOMAIN rows}

\* updateRollSite: rows of the roll site are replaced, others are appended.
Updated(rows, sent) ==
    LET of(id) == sent[CHOOSE j \in DOMAIN sent : sent[j].partyId = id]
    IN [k \in DOMAIN rows |-> IF rows[k].partyId \in Ids(sent) THEN of(rows[k].partyId) ELSE rows[k]]
         \o Picked(sent, {k \in DOMAIN sent : sent[k].partyId \notin Ids(rows)})

Distinct(rows) == Cardinality(Ids(rows)) = Len(rows)

ServeSave(i) ==
    LET data == calls[i].arg
    IN \/ /\ calls[i].op = "addRollsite"
          /\ IF Distinct(data.partyAddBeanList) /\ data.networkAccess \notin RollSites \cup server.added
             THEN Reply(i, Ok(0)) /\ server' = [server EXCEPT !.added = @ \cup {data.networkAccess},
                                                  !.routes[data.networkAccess] = data.partyAddBeanList]
             ELSE Reply(i, Refused) /\ UNCHANGED server
       \/ /\ calls[i].op = "update"
          /\ IF Distinct(data.rows)
             THEN Reply(i, Ok(0)) /\ server' = [server EXCEPT !.routes[data.rollSiteId] = Updated(@, data.rows)]
             ELSE Reply(i, Refused) /\ UNCHANGED server

\* No network, no exchange to ask.
ServeNothing(i) ==
    /\ calls[i].op = "query" /\ calls[i].arg = NoNetwork
    /\ Reply(i, Refused) /\ UNCHANGED server

-----------------------------------------------------------------------------
(* Answers.                                                                *)

Loaded(v, rows) ==
    [v EXCEPT !.exchangeData.partyAddBeanList = rows, !.tempExchangeDataList = rows,
              !.loaded = rows, !.handmade = FALSE]

QueryThen(i) ==
    /\ Arrives(i, "query") /\ calls[i].arg # NoNetwork
    /\ view' = Loaded(view, RoutesOf(calls[i].arg))
    /\ Handled(i, <<>>)

SearchThen(i) ==
    /\ Arrives(i, "search")
    /\ view' = Loaded(view, Searched(calls[i].arg))
    /\ Handled(i, <<>>)

CheckPartyThen(i) ==
    /\ Arrives(i, "checkParty")
    /\ view' = [view EXCEPT !.checkResult = PartyTaken(calls[i].arg)]
    /\ Handled(i, <<>>)

\* Only the failure of this one is caught, and taken for a free party id.
CheckPartyCatch(i) ==
    /\ GotFailure(i, "checkParty")
    /\ view' = [view EXCEPT !.checkResult = FALSE]
    /\ Handled(i, <<>>)

\* The dialog that adds is closed as it is, the one that edits is emptied.
SaveThen(i) ==
    /\ Got(i, "addRollsite") \/ Got(i, "update")
    /\ view' = IF calls[i].op = "update" THEN tocancel(view) ELSE [view EXCEPT !.editdialog = FALSE]
    /\ Handled(i, <<Ask("list", 0)>>)

\* The list is the page's (Exchanges).
ListThen(i) ==
    /\ Arrives(i, "list")
    /\ Handled(i, <<>>)
    /\ UNCHANGED view

NoCatch(i) == ~GotFailure(i, "checkParty") /\ Ignores(i)

Acts ==
    \/ \E id \in RollSites : rollsiteEdit(id)
    \/ \E n \in {3, 4} : EnterNetwork(n)
    \/ \E p \in {"p1", "used"} : toSearch(p)
    \/ \E k \in DOMAIN Rows(view) : toEditSiteNet(k) \/ DeleteSiteNet(k) \/ toRecover(k)
    \/ \E p \in {"p1", "p9", "used"} : EnterPartyId(p)
    \/ \E a \in Accesses : EnterAccess(a)
    \/ toAddRollsite \/ AcquireTimer \/ ClickAcquire \/ Cancel \/ toaction
    \/ showAddSiteNet \/ cancelAddSiteNet \/ toAddSiteNet

Next ==
    \/ Acts
    \/ \E i \in DOMAIN calls :
          \/ ServeSave(i) \/ ServeNothing(i) \/ Fail(i)
          \/ QueryThen(i) \/ SearchThen(i) \/ CheckPartyThen(i) \/ CheckPartyCatch(i)
          \/ SaveThen(i) \/ ListThen(i) \/ NoCatch(i)

Spec == Init /\ [][Next]_pageVars

-----------------------------------------------------------------------------
\* What is sent for a roll site are rows of this roll site, and rows entered
\* by hand; never those the dialog has shown of another one, however fast it
\* is closed, opened and confirmed again.  (When the rows were asked for next
\* to another request they can come after the dialog was opened for another
\* roll site, and are sent for that one.)
UpdateIsOfRollSite ==
    ~view.crowded => \A i \in DOMAIN calls : calls[i].op = "update" =>
        \A k \in DOMAIN calls[i].arg.rows : calls[i].arg.rows[k].of \in {0, calls[i].arg.rollSiteId}

\* What is added with a network are rows asked of that network, or entered
\* by hand, also when the network was changed after they had been asked for.
AddedIsOfNetwork ==
    \A i \in DOMAIN calls : calls[i].op = "addRollsite" =>
        \A k \in DOMAIN calls[i].arg.partyAddBeanList :
            calls[i].arg.partyAddBeanList[k].of \in {0, calls[i].arg.networkAccess}
=============================================================================
