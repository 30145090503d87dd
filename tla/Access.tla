------------------------------- MODULE Access -------------------------------
(***************************************************************************)
(* The page of the users (access.vue): those of Cloud Manager, and the     *)
(* FATE Managers with the links that invite them.  One form holds the      *)
(* manager to add and the manager on show; the answers write to it, the    *)
(* one about the default network whenever it comes.  Two fields of view    *)
(* are history: asked, the search of the last list, and late, the form was *)
(* taken for another manager before the one added or updated came into it. *)
(***************************************************************************)
EXTENDS Page, SequencesExt

CONSTANTS
    Institutions,  \* the institutions of the FATE Managers
    OwnName,       \* the user signed in
    Names          \* the other users of Cloud Manager

PageSize == 1
Radios == {"Cloud Manager", "FATE Manager"}
Networks == {"default", "own"}
NoManager == [institutions |-> "", fateManagerId |-> 0, network |-> "", status |-> 0]

Requests == {"accessCloudList", "accessManagerList", "addCloud", "deleteCloud",
             "addManager", "updataManager", "reactivateUser", "resetNetwork"}

-----------------------------------------------------------------------------
(* The manager: the names of its users; a row per FATE Manager.            *)

Users == Names \cup {OwnName}
ById(rows) == SetToSortSeq(rows, LAMBDA a, b : a.fateManagerId < b.fateManagerId)

\* The list of a radio: users in a fixed order, managers by id.
RowsOf(radio, filter) ==
    IF radio = "Cloud Manager"
    THEN SetToSeq({name \in server.users : filter \in {"", name}})
    ELSE ById({m \in server.managers : filter \in {"", m.institutions}})
ListOf(query) ==
    [list |-> Chunk(RowsOf(query.radio, query.filter), PageSize, query.pageNum),
     total |-> Len(RowsOf(query.radio, query.filter))]

-----------------------------------------------------------------------------
NewData == [pageNum |-> 1, filter |-> ""]
ListOp(radio) == IF radio = "Cloud Manager" THEN "accessCloudList" ELSE "accessManagerList"
Query(v) == [radio |-> v.radio, filter |-> v.data.filter, pageNum |-> v.data.pageNum]
initList(v) == <<Ask(ListOp(v.radio), Query(v))>>
Asked(v) == [v EXCEPT !.asked = Query(v)]
toResetNetwork == <<Ask("resetNetwork", "")>>

\* The watcher of the radio starts a new search.
Switched(v, radio) == Asked([v EXCEPT !.radio = radio, !.data = NewData])

\* An update is on its way; its answer brings the details back.
Updating == \E i \in DOMAIN calls : calls[i].op = "updataManager"

\* The page is entered as it is, or by a link to the FATE Managers.
Init ==
    /\ server \in [users : {Users},
                   managers : {{}} \cup {{[institutions |-> n, fateManagerId |-> 1, network |-> "own",
                                           status |-> s]} : n \in Institutions, s \in {1, 2}}]
    /\ LET fresh == [radio |-> "Cloud Manager", data |-> NewData,
                     asked |-> [radio |-> "Cloud Manager", filter |-> "", pageNum |-> 1],
                     cloudtableData |-> <<>>, managertableData |-> <<>>, total |-> 0,
                     dialogs |-> {}, deleteRow |-> "", managerForm |-> NoManager,
                     fateManagerId |-> 0, timer |-> FALSE, late |-> FALSE]
           linked == Switched(fresh, "FATE Manager")
       IN \/ view = fresh /\ Created(initList(fresh) \o toResetNetwork)
          \/ view = linked /\ Created(initList(fresh) \o toResetNetwork \o initList(linked))

\* What a click reaches: a dialog covers the page, the modification covers
\* the details.
Free(v) == v.dialogs = {}
Top(v, dialog) ==
    dialog \in v.dialogs /\ (dialog = "addSuccess" => "modify" \notin v.dialogs)

\* The button of the user's own name is not active, and only a manager
\* without sites can be asked to activate again.
UserControls(name) == IF name = OwnName THEN {} ELSE {"delete"}
ManagerControls(row) == {"detail"} \cup (IF row.status = 2 THEN {"reactivate"} ELSE {})

\* The dialogs to add one, to see the link, to modify it.
AddControls(v) ==
    {"name", "ok"} \cup (IF v.radio = "FATE Manager" THEN {"network", "reset"} ELSE {})
LinkControls(v) == IF v.managerForm.status = 1 THEN {"modify"} ELSE {}
ModifyControls == {"network", "reset", "submit"}

SelectRadio(radio) ==
    /\ Free(view) /\ radio # view.radio
    /\ view' = Switched(view, radio)
    /\ Click(initList(view'))

SetFilter(text) ==
    /\ Free(view) /\ view.data.filter # text
    /\ Click(<<>>)
    /\ view' = [view EXCEPT !.data.filter = text]

\* The search goes on at the page it was at.
toSearch ==
    /\ Free(view)
    /\ view' = Asked(view)
    /\ Click(initList(view))

handleCurrentChange(page) ==
    /\ Free(view) /\ page # view.data.pageNum
    /\ view' = Asked([view EXCEPT !.data.pageNum = page])
    /\ Click(initList(view'))

todDelete(name) ==
    /\ Free(view) /\ view.radio = "Cloud Manager" /\ "delete" \in UserControls(name)
    /\ Click(<<>>)
    /\ view' = [view EXCEPT !.dialogs = {"delete"}, !.deleteRow = name]

toSure ==
    /\ Top(view, "delete")
    /\ Click(<<Ask("deleteCloud", view.deleteRow)>>)
    /\ UNCHANGED view

toAdd ==
    /\ Free(view)
    /\ Click(toResetNetwork)
    /\ view' = [view EXCEPT !.dialogs = {"add"}, !.managerForm.institutions = "",
                            !.late = @ \/ view.timer \/ Updating]

EnterName(name) ==
    /\ Top(view, "add") /\ name # view.managerForm.institutions
    /\ Uncounted
    /\ view' = [view EXCEPT !.managerForm.institutions = name]

EnterNetwork ==
    /\ \/ Top(view, "add") /\ "network" \in AddControls(view)
       \/ Top(view, "modify") /\ "network" \in ModifyControls
    /\ view.managerForm.network # "own"
    /\ Click(<<>>)
    /\ view' = [view EXCEPT !.managerForm.network = "own"]

ClickReset ==
    /\ \/ Top(view, "add") /\ "reset" \in AddControls(view)
       \/ Top(view, "modify") /\ "reset" \in ModifyControls
    /\ Click(toResetNetwork)
    /\ UNCHANGED view

toOK ==
    /\ Top(view, "add") /\ view.managerForm.institutions # ""
    /\ (view.radio = "FATE Manager" => view.managerForm.network # "")
    /\ Click(<<IF view.radio = "Cloud Manager"
               THEN Ask("addCloud", view.managerForm.institutions)
               ELSE Ask("addManager", view.managerForm)>>)
    /\ UNCHANGED view

\* The details of a row.
toactivat(row) ==
    /\ Free(view)
    /\ Click(<<>>)
    /\ view' = [view EXCEPT !.dialogs = {"addSuccess"}, !.managerForm = row]

Modify ==
    /\ Top(view, "addSuccess") /\ "modify" \in LinkControls(view)
    /\ Click(<<>>)
    /\ view' = [view EXCEPT !.dialogs = @ \cup {"modify"}]

toUpdata ==
    /\ Top(view, "modify") /\ "submit" \in ModifyControls
    /\ Click(<<Ask("updataManager", view.managerForm)>>)
    /\ UNCHANGED view

toReactivate(row) ==
    /\ Free(view) /\ "reactivate" \in ManagerControls(row)
    /\ Click(<<>>)
    /\ view' = [view EXCEPT !.dialogs = {"reactivate"}, !.fateManagerId = row.fateManagerId]

reactivateUser ==
    /\ Top(view, "reactivate")
    /\ Click(<<Ask("reactivateUser", view.fateManagerId)>>)
    /\ UNCHANGED view

Close(dialog) ==
    /\ Top(view, dialog)
    /\ Click(<<>>)
    /\ view' = [view EXCEPT !.dialogs = @ \ {dialog}]

\* The details come back 300 ms after an update.
ShowUpdated ==
    /\ view.timer
    /\ view' = [view EXCEPT !.timer = FALSE, !.dialogs = @ \cup {"addSuccess"}]
    /\ UNCHANGED <<server, calls, busy, steps, mishaps>>

-----------------------------------------------------------------------------
(* The manager.                                                            *)

ServeList(i) ==
    /\ calls[i].op \in {"accessCloudList", "accessManagerList"}
    /\ Reply(i, Ok(ListOf(calls[i].arg)))
    /\ UNCHANGED server

addCloud(i) ==
    /\ calls[i].op = "addCloud"
    /\ IF calls[i].arg \in server.users
       THEN Reply(i, Refused) /\ UNCHANGED server
       ELSE Reply(i, Ok(TRUE)) /\ server' = [server EXCEPT !.users = @ \cup {calls[i].arg}]

deleteCloud(i) ==
    /\ calls[i].op = "deleteCloud"
    /\ Reply(i, Ok(TRUE))
    /\ server' = [server EXCEPT !.users = @ \ {calls[i].arg}]

NewId == Cardinality(server.managers) + 1
addManager(i) ==
    LET row == [calls[i].arg EXCEPT !.fateManagerId = NewId, !.status = 1]
    IN /\ calls[i].op = "addManager"
       /\ IF \E m \in server.managers : m.institutions = row.institutions
          THEN Reply(i, Refused) /\ UNCHANGED server
          ELSE Reply(i, Ok(row)) /\ server' = [server EXCEPT !.managers = @ \cup {row}]

\* The link is made of the institution sent, the row keeps its own.
updataManager(i) ==
    LET form == calls[i].arg
        bad == \/ \A m \in server.managers : m.fateManagerId # form.fateManagerId \/ m.status # 1
               \/ \E m \in server.managers :
                     m.institutions = form.institutions /\ m.fateManagerId # form.fateManagerId
        old == CHOOSE m \in server.managers : m.fateManagerId = form.fateManagerId
        new == [old EXCEPT !.network = form.network]
    IN /\ calls[i].op = "updataManager"
       /\ Reply(i, IF bad THEN Refused ELSE Ok(new))
       /\ server' = IF bad THEN server
                    ELSE [server EXCEPT !.managers = (@ \ {old}) \cup {new}]

reactivate(i) ==
    /\ calls[i].op = "reactivateUser"
    /\ Reply(i, Ok(TRUE))
    /\ server' = [server EXCEPT !.managers =
         {IF m.fateManagerId = calls[i].arg THEN [m EXCEPT !.status = 1] ELSE m : m \in @}]

-----------------------------------------------------------------------------
(* Answers.  The total is that of the list answered last.                  *)

CloudListThen(i) ==
    /\ Got(i, "accessCloudList")
    /\ view' = [view EXCEPT !.cloudtableData = Data(i).list, !.total = Data(i).total]
    /\ Handled(i, <<>>)

ManagerListThen(i) ==
    /\ Got(i, "accessManagerList")
    /\ view' = [view EXCEPT !.managertableData = Data(i).list, !.total = Data(i).total]
    /\ Handled(i, <<>>)

ResetThen(i) ==
    /\ Arrives(i, "resetNetwork")
    /\ view' = [view EXCEPT !.managerForm.network = "default"]
    /\ Handled(i, <<>>)

\* What is asked for after a change is the list of the radio.
Listed(i, v) == view' = Asked(v) /\ Handled(i, initList(v))

ChangedThen(i) ==
    \/ Got(i, "addCloud") /\ Listed(i, [view EXCEPT !.dialogs = @ \ {"add"}])
    \/ Got(i, "deleteCloud") /\ Listed(i, [view EXCEPT !.dialogs = @ \ {"delete"}])
    \/ Got(i, "reactivateUser") /\ Listed(i, [view EXCEPT !.dialogs = @ \ {"reactivate"}])

\* The form takes the id and the link of the manager added.
AddManagerThen(i) ==
    /\ Got(i, "addManager")
    /\ Listed(i, [view EXCEPT !.managerForm.fateManagerId = Data(i).fateManagerId,
                              !.managerForm.status = Data(i).status,
                              !.dialogs = (@ \ {"add"}) \cup {"addSuccess"},
                              !.late = @ \/ view.managerForm.institutions # Data(i).institutions])

UpdataThen(i) ==
    /\ Got(i, "updataManager")
    /\ Listed(i, [view EXCEPT !.managerForm.network = Data(i).network,
                              !.dialogs = @ \ {"modify", "addSuccess"}, !.timer = TRUE])

-----------------------------------------------------------------------------
Acts ==
    \/ \E radio \in Radios : SelectRadio(radio)
    \/ \E text \in Institutions \cup {""} : SetFilter(text)
    \/ \E page \in PagesOf(view.total, PageSize) : handleCurrentChange(page)
    \/ \E name \in ToSet(view.cloudtableData) : todDelete(name)
    \/ \E name \in Institutions : EnterName(name)
    \/ \E row \in ToSet(view.managertableData) :
          view.radio = "FATE Manager" /\ (toactivat(row) \/ toReactivate(row))
    \/ toSearch \/ toSure \/ toAdd \/ EnterNetwork \/ ClickReset \/ toOK \/ Modify \/ toUpdata
    \/ reactivateUser
    \/ \E dialog \in {"add", "delete", "addSuccess", "modify", "reactivate"} : Close(dialog)
    \/ ShowUpdated

Next ==
    \/ Acts
    \/ \E i \in DOMAIN calls :
          \/ ServeList(i) \/ addCloud(i) \/ deleteCloud(i) \/ addManager(i) \/ updataManager(i)
          \/ reactivate(i) \/ Fail(i)
          \/ CloudListThen(i) \/ ManagerListThen(i) \/ ResetThen(i) \/ ChangedThen(i)
          \/ AddManagerThen(i) \/ UpdataThen(i) \/ Ignores(i)

Spec == Init /\ [][Next]_pageVars

-----------------------------------------------------------------------------
\* After every change the table of the radio shows what the manager keeps,
\* for the search asked last.
ListIsOfRadio ==
    Settled =>
        (IF view.radio = "Cloud Manager" THEN view.cloudtableData ELSE view.managertableData)
            = ListOf(view.asked).list

\* The link sent to a manager is made of its own name and id: whatever was
\* added, shown and modified before, an update carries the two of one
\* manager.  A manager whose addition or update is answered when the form is
\* already used for another is mixed with that one.
UpdateIsOfManager ==
    \A i \in DOMAIN calls : calls[i].op = "updataManager" /\ ~view.late =>
        \E m \in server.managers : /\ m.institutions = calls[i].arg.institutions
                                   /\ m.fateManagerId = calls[i].arg.fateManagerId
=============================================================================
