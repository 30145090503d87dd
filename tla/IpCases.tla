------------------------------ MODULE IpCases -------------------------------
(***************************************************************************)
(* The addresses of the sites (ip.vue): the table, the history behind each *)
(* of its rows, the dialog in which a case, a change a FATE Manager has    *)
(* applied for, is agreed to or rejected, and the one in which the         *)
(* addresses of a site are changed without a case (ipedit.vue).  A list    *)
(* that arrives asks for the history of each of its rows.                  *)
(*                                                                         *)
(* The dialog that edits shows whether a connection is secure as a switch, *)
(* on or off, and sends it as 1 or 2.  asked is history: the query of the  *)
(* list asked for last.                                                    *)
(***************************************************************************)
EXTENDS Page

Requests == {"list", "choices", "history", "deal", "edit", "telnet"}

PageSize == 2
Parties == {1, 2, 3}
Agreed == 1
Rejected == 2
AnyRole == 0

-----------------------------------------------------------------------------
(* The manager: by party id, what is stored of a site, and what was        *)
(* decided.  wanted is what an open case asks for, "" when none is open.   *)

ipList(query) ==
    LET found == Ascending({p \in Parties : query.role \in {AnyRole, server[p].role}})
        row(p) == [partyId |-> p, network |-> server[p].network, secureStatus |-> server[p].secureStatus,
                   wanted |-> server[p].wanted, history |-> server[p].history # <<>>]
    IN [list |-> Chunk([k \in DOMAIN found |-> row(found[k])], PageSize, query.pageNum),
        totalRecord |-> Len(found)]

Site(role, secure, wanted, history) ==
    [role |-> role, network |-> "x", secureStatus |-> secure, wanted |-> wanted, history |-> history]

-----------------------------------------------------------------------------
(* The page.                                                               *)

\* getStuts: a switch becomes a code, and a code a switch.
getStuts(status) ==
    CASE status = "on" -> "1" [] status = "off" -> "2" [] status = "1" -> "on" [] status = "2" -> "off"

NoForm == [partyId |-> 0, network |-> "", secureStatus |-> "on"]
Entered ==
    [radio |-> "IP manage", role |-> AnyRole, pageNum |-> 1, tableData |-> <<>>, total |-> 0,
     historylist |-> [p \in {} |-> <<>>], opened |-> 0, dialogData |-> [partyId |-> 0],
     dialog |-> "none", tempSiteNet |-> NoForm, cacheTempSiteNet |-> NoForm, choices |-> FALSE,
     asked |-> [role |-> AnyRole, pageNum |-> 1]]

Query(v) == [role |-> v.role, pageNum |-> v.pageNum]
initList(v) == <<Ask("list", Query(v))>>
Asking(v) == [v EXCEPT !.asked = Query(v)]

\* The choices of the institutions and of the exchanges are one question here.
Init ==
    /\ server = << Site(1, "1", "y", << <<Rejected, "x", "y">> >>),
                   Site(2, "2", "", << <<Agreed, "y", "x">> >>), Site(1, "1", "", <<>>) >>
    /\ view = Entered
    /\ Created(initList(view) \o <<AskQuietly("choices", 0)>>)

\* What can be clicked; a dialog covers the page.
Controls(v) ==
    IF v.dialog # "none" THEN {}
    ELSE {"radio"} \cup (IF v.radio = "IP manage" THEN {"role", "go", "page", "telnet"} ELSE {})
Row(v, p) == LET k == CHOOSE k \in DOMAIN v.tableData : v.tableData[k].partyId = p IN v.tableData[k]
Shown(v) == {p \in Parties : \E k \in DOMAIN v.tableData : v.tableData[k].partyId = p}
RowControls(v, p) ==
    IF "page" \notin Controls(v) \/ p \notin Shown(v) THEN {}
    ELSE (IF Row(v, p).wanted # "" THEN {"upDate"} ELSE {"editData"})
           \cup (IF Row(v, p).history THEN {"history"} ELSE {})

\* The other tab is that of the exchanges (Exchanges); this one comes back
\* as it was left.
ChooseRadio ==
    /\ "radio" \in Controls(view)
    /\ Click(<<>>)
    /\ view' = [view EXCEPT !.radio = IF @ = "IP manage" THEN "Exchange info" ELSE "IP manage", !.opened = 0]

ChooseRole(role) ==
    /\ "role" \in Controls(view) /\ role # view.role
    /\ Click(<<>>)
    /\ view' = [view EXCEPT !.role = role]

toSearch ==
    /\ "go" \in Controls(view)
    /\ view' = Asking([view EXCEPT !.pageNum = 1])
    /\ Click(initList(view'))

handleCurrentChange(page) ==
    /\ "page" \in Controls(view) /\ page # view.pageNum
    /\ view' = Asking([view EXCEPT !.pageNum = page])
    /\ Click(initList(view'))

testTelnet(p) ==
    /\ "telnet" \in Controls(view) /\ p \in Shown(view)
    /\ Click(<<Ask("telnet", Row(view, p).network)>>)
    /\ UNCHANGED view

\* The history is shown as far as it has arrived.
ShowHistory(p) ==
    /\ "history" \in RowControls(view, p)
    /\ Click(<<>>)
    /\ view' = [view EXCEPT !.opened = p]

upDate(p) ==
    /\ "upDate" \in RowControls(view, p)
    /\ Click(<<>>)
    /\ view' = [view EXCEPT !.dialog = "case", !.dialogData = [partyId |-> p]]

\* sureAction and rejectAction.
deal(status) ==
    /\ view.dialog = "case"
    /\ Click(<<Ask("deal", [partyId |-> view.dialogData.partyId, status |-> status])>>)
    /\ UNCHANGED view

\* The row becomes the form, its code a switch.
editData(p) ==
    LET row == Row(view, p)
        form == [partyId |-> p, network |-> row.network, secureStatus |-> getStuts(row.secureStatus)]
    IN /\ "editData" \in RowControls(view, p)
       /\ Click(<<>>)
       /\ view' = [view EXCEPT !.dialog = "edit", !.tempSiteNet = form, !.cacheTempSiteNet = form]

\* The dialog of the addresses, as far as this one sees it (AddressList).
updateIp(network) ==
    /\ view.dialog = "edit" /\ network # view.tempSiteNet.network
    /\ Click(<<>>)
    /\ view' = [view EXCEPT !.tempSiteNet.network = network]

\* A switch that holds a code is off.
Switch ==
    /\ view.dialog = "edit"
    /\ Click(<<>>)
    /\ view' = [view EXCEPT !.tempSiteNet.secureStatus = IF @ = "on" THEN "off" ELSE "on"]

toaction ==
    /\ view.dialog = "edit"
    /\ Click(<<>>)
    /\ view' = [view EXCEPT !.dialog = IF view.tempSiteNet # view.cacheTempSiteNet THEN "sure" ELSE "none"]

\* The dialog in front closes when it is sure; the form keeps the code.
toSureEdit ==
    /\ view.dialog = "sure"
    /\ view' = [view EXCEPT !.dialog = "edit", !.tempSiteNet.secureStatus = getStuts(@)]
    /\ Click(<<Ask("edit", view'.tempSiteNet)>>)

\* cancelAction, tocancel, and the one who is not sure.
Cancel ==
    /\ view.dialog # "none"
    /\ Click(<<>>)
    /\ view' = CASE view.dialog = "case" -> [view EXCEPT !.dialog = "none"]
                 [] view.dialog = "edit" -> [view EXCEPT !.dialog = "none", !.tempSiteNet = view.cacheTempSiteNet]
                 [] view.dialog = "sure" -> [view EXCEPT !.dialog = "edit"]

-----------------------------------------------------------------------------
(* What the manager does.  A status is a code; a switch cannot be read.    *)

Changed(site, network, entry) ==
    [site EXCEPT !.network = network, !.wanted = "", !.history = <<entry>> \o @]

ServeChange(i) ==
    LET data == calls[i].arg
        site == server[data.partyId]
        coded == data.secureStatus \in {"1", "2"}
    IN \/ /\ calls[i].op = "deal" /\ Reply(i, Ok(0))
          /\ server' = [server EXCEPT ![data.partyId] =
                Changed(@, IF data.status = Agreed THEN site.wanted ELSE site.network,
                        <<data.status, site.network, site.wanted>>)]
       \/ /\ calls[i].op = "edit" /\ Reply(i, IF coded THEN Ok(0) ELSE Refused)
          /\ server' = IF ~coded THEN server
                       ELSE [server EXCEPT ![data.partyId].network = data.network,
                                           ![data.partyId].secureStatus = data.secureStatus]

ServeList(i) ==
    /\ calls[i].op = "list" /\ Reply(i, Ok(ipList(calls[i].arg)))
    /\ UNCHANGED server

-----------------------------------------------------------------------------
(* Answers.                                                                *)

\* A new list has no histories yet.
ListThen(i) ==
    LET noted == Picked(Data(i).list, {k \in DOMAIN Data(i).list : Data(i).list[k].history})
    IN /\ Got(i, "list")
       /\ view' = [view EXCEPT !.tableData = Data(i).list, !.total = Data(i).totalRecord, !.opened = 0,
                               !.historylist = [p \in {} |-> <<>>]]
       /\ Handled(i, [k \in DOMAIN noted |-> AskFrom(noted[k].partyId, "history", noted[k].partyId)])

\* The history goes to the row that asked for it.
HistoryThen(i) ==
    LET p == calls[i].arg
    IN /\ Arrives(i, "history")
       /\ view' = [view EXCEPT !.historylist = [q \in DOMAIN @ \cup {p} |->
                                                  IF q = p THEN server[p].history ELSE @[q]]]
       /\ Handled(i, <<>>)

ChoicesThen(i) ==
    /\ Arrives(i, "choices")
    /\ view' = [view EXCEPT !.choices = TRUE]
    /\ Handled(i, <<>>)

ChangedThen(i) ==
    /\ Got(i, "deal") \/ Got(i, "edit")
    /\ view' = Asking([view EXCEPT !.dialog = "none"])
    /\ Handled(i, initList(view))

TelnetThen(i) ==
    /\ Arrives(i, "telnet")
    /\ Handled(i, <<>>)
    /\ UNCHANGED view

Acts ==
    \/ \E role \in {AnyRole, 2} : ChooseRole(role)
    \/ \E p \in PagesOf(view.total, PageSize) : handleCurrentChange(p)
    \/ \E p \in Parties : testTelnet(p) \/ ShowHistory(p) \/ upDate(p) \/ editData(p)
    \/ \E status \in {Agreed, Rejected} : deal(status)
    \/ \E network \in {"y"} : updateIp(network)
    \/ ChooseRadio \/ toSearch \/ Switch \/ toaction \/ toSureEdit \/ Cancel

Next ==
    \/ Acts
    \/ \E i \in DOMAIN calls :
          \/ ServeChange(i) \/ ServeList(i) \/ Fail(i)
          \/ ListThen(i) \/ HistoryThen(i) \/ ChoicesThen(i) \/ ChangedThen(i) \/ TelnetThen(i) \/ Ignores(i)

Spec == Init /\ [][Next]_pageVars

-----------------------------------------------------------------------------
\* When nothing is on its way the table shows what is stored, and behind each
\* row stands the history of its own site up to the decision made last.
HistoriesAreCurrent ==
    Settled =>
        /\ view.tableData = ipList(view.asked).list
        /\ \A p \in Shown(view) : Row(view, p).history =>
              p \in DOMAIN view.historylist /\ view.historylist[p] = server[p].history

\* What is sent of a switch is its code, however often the user was not sure.
\* (The form keeps the code it has sent: an update after one that failed, or
\* on top of one that is not answered yet, sends a switch.)
CodeIsSent ==
    mishaps \cap {"failed", "overlapped"} = {} => \A i \in DOMAIN calls :
        calls[i].op = "edit" => calls[i].arg.secureStatus \in {"1", "2"}
=============================================================================
