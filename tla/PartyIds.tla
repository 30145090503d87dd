------------------------------ MODULE PartyIds ------------------------------
(***************************************************************************)
(* The pages of the party ids: the groups (partyid.vue) and the form that  *)
(* adds or edits one (partyidadd.vue).  The form asks the manager about    *)
(* the name when its field is left, and about the ranges when it is        *)
(* submitted; what it was told last decides what can be submitted.  Two    *)
(* fields of view are history: asked, the search the last list was asked   *)
(* for, and checked, the name checked last and whether it was free.        *)
(***************************************************************************)
EXTENDS Page, IdRanges

CONSTANTS
    GroupIds,    \* the ids the manager can give a group
    GroupNames   \* the names the user enters

PageSize == 1
NoForm == [groupId |-> 0, groupName |-> "", rangeInfo |-> <<>>]

\* The requests of the two components.
Requests == {"list", "delete", "checkGroupName", "checkRange", "add",
             "checkUpdateRange", "update"}

\* The texts the user enters: a pair, a number in it, one beside it, a pair
\* that touches, and a pair the wrong way round.
Texts == {<<<<1, 2>>>>, <<<<2>>>>, <<<<3>>, <<1, 2>>>>, <<<<2, 3>>, <<1, 2>>>>, <<<<3, 1>>>>}

-----------------------------------------------------------------------------
(* The manager: a row per group that is not deleted.                       *)

\* The rows of a search, in the order of their ids.
Found(groups, name) ==
    SetToSortSeq({g \in groups : name \in {"", g.groupName}},
                 LAMBDA a, b : a.groupId < b.groupId)
ListOf(groups, query) ==
    LET rows == Found(groups, query.groupName)
    IN [list |-> Chunk(rows, PageSize, query.pageNum), totalRecord |-> Len(rows)]

NameFree(data) ==
    \A g \in server : g.groupName = data.groupName => g.groupId = data.groupId

Shared(r, s) == \E n \in r.leftRegion .. r.rightRegion : InRegion(n, s)
Taken(data) ==
    \E g \in server, k \in DOMAIN data.regions :
        /\ g.groupId # data.groupId
        /\ \E j \in DOMAIN g.regions : Shared(data.regions[k], g.regions[j])

\* A range with sites in it is neither dropped nor changed.
Keeps(data) ==
    \A g \in server : g.groupId = data.groupId /\ g.used =>
        ToSet(g.regions) \subseteq ToSet(data.regions)

-----------------------------------------------------------------------------
(* partyid.vue                                                             *)

\* initList: a filter that is empty is not sent.
initList(query) == <<Ask("list", query)>>
Asked(v) == [v EXCEPT !.asked = v.data]

Group(id, name, text, used) ==
    [groupId |-> id, groupName |-> name, regions |-> requestRange(text), used |-> used]

Init ==
    /\ \E m, n \in GroupNames, used \in BOOLEAN :
        server \in {{Group(1, m, <<<<1, 2>>>>, used)},
                    {Group(1, m, <<<<1, 2>>>>, used), Group(2, n, <<<<3>>>>, ~used)}}
    /\ view = [data |-> [pageNum |-> 1, groupName |-> ""],
               asked |-> [pageNum |-> 1, groupName |-> ""],
               tableData |-> <<>>, total |-> 0,
               dialog |-> "none", delTtempGroup |-> 0,
               partidform |-> NoForm, groupNamewarn |-> FALSE,
               cannotEdit |-> FALSE, beenUsed |-> FALSE,
               checked |-> [groupName |-> "", free |-> TRUE]]
    /\ Created(initList(view.data))

\* The controls of the page: a group whose ids are in use has no active
\* delete button; a dialog covers the page behind it.
PageControls(v) ==
    IF v.dialog # "none" THEN {}
    ELSE {"filter", "search", "page", "add"}
           \cup (IF v.tableData # <<>> THEN {"edit"} ELSE {})
           \cup (IF \E k \in DOMAIN v.tableData : ~v.tableData[k].used THEN {"delete"} ELSE {})
DeleteControls(v) == IF v.dialog = "delete" THEN {"ok", "close"} ELSE {}

\* submitbtn: the button waits for a name and a range.
FormControls(v) ==
    IF v.dialog \notin {"add", "edit"} THEN {}
    ELSE {"name", "range", "cancel"}
           \cup (IF v.partidform.groupName # "" /\ v.partidform.rangeInfo # <<>>
                 THEN {"submit"} ELSE {})

\* The input of the search changes what the next list asks for.
SetFilter(name) ==
    /\ "filter" \in PageControls(view) /\ view.data.groupName # name
    /\ Click(<<>>)
    /\ view' = [view EXCEPT !.data.groupName = name]

toSearch ==
    /\ "search" \in PageControls(view)
    /\ view' = Asked([view EXCEPT !.data.pageNum = 1])
    /\ Click(initList(view'.data))

handleCurrentChange(page) ==
    /\ "page" \in PageControls(view) /\ page # view.data.pageNum
    /\ view' = Asked([view EXCEPT !.data.pageNum = page])
    /\ Click(initList(view'.data))

handleDelete(row) ==
    /\ "delete" \in PageControls(view) /\ ~row.used
    /\ Click(<<>>)
    /\ view' = [view EXCEPT !.delTtempGroup = row.groupId, !.dialog = "delete"]

okAction ==
    /\ "ok" \in DeleteControls(view)
    /\ Click(<<Ask("delete", view.delTtempGroup)>>)
    /\ UNCHANGED view

CloseDelete ==
    /\ "close" \in DeleteControls(view)
    /\ Click(<<>>)
    /\ view' = [view EXCEPT !.dialog = "none"]

\* Both openings of the form forget what its last use was told.
Opened(v, dialog, form) ==
    [v EXCEPT !.dialog = dialog, !.partidform = form, !.groupNamewarn = FALSE,
              !.cannotEdit = FALSE, !.beenUsed = FALSE]

addPartyid ==
    /\ "add" \in PageControls(view)
    /\ Click(<<>>)
    /\ view' = Opened(view, "add", NoForm)

handleEdit(row) ==
    /\ "edit" \in PageControls(view)
    /\ Click(<<>>)
    /\ view' = Opened(view, "edit", [groupId |-> row.groupId, groupName |-> row.groupName,
                                     rangeInfo |-> responseRange(row.regions)])

-----------------------------------------------------------------------------
(* partyidadd.vue                                                          *)

\* The field of the name is entered, changed and left.
EnterName(name) ==
    LET form == [view.partidform EXCEPT !.groupName = name]
    IN /\ "name" \in FormControls(view)
       /\ Click(<<Ask("checkGroupName", [groupId |-> form.groupId, groupName |-> name])>>)
       /\ view' = [view EXCEPT !.partidform = form, !.groupNamewarn = FALSE]

\* toReset, as the field of the ranges is left: it forgets that the range is
\* taken by another group, not that sites are in it.
EnterRange(text) ==
    /\ "range" \in FormControls(view)
    /\ Click(<<>>)
    /\ view' = [view EXCEPT !.partidform.rangeInfo = text, !.beenUsed = FALSE]

validate(v) ==
    /\ v.partidform.groupName # "" /\ ~v.groupNamewarn
    /\ Valid(v.partidform.rangeInfo)
    /\ ~v.cannotEdit /\ ~v.beenUsed

FormData(form) ==
    [groupId |-> form.groupId, groupName |-> form.groupName,
     regions |-> requestRange(form.rangeInfo)]

submitAction ==
    /\ "submit" \in FormControls(view) /\ validate(view)
    /\ Click(<<Ask(IF view.dialog = "edit" THEN "checkUpdateRange" ELSE "checkRange",
                   FormData(view.partidform))>>)
    /\ UNCHANGED view

cancelAction ==
    /\ "cancel" \in FormControls(view)
    /\ Click(<<>>)
    /\ view' = [view EXCEPT !.dialog = "none"]

-----------------------------------------------------------------------------
(* Requests at the manager.                                                *)

Judged(i, good) == Reply(i, IF good THEN Ok(TRUE) ELSE Refused)

Saved(data) ==
    [groupId |-> data.groupId, groupName |-> data.groupName, regions |-> data.regions,
     used |-> \E g \in server : g.groupId = data.groupId /\ g.used]

ServeQuery(i) ==
    /\ \/ calls[i].op = "list" /\ Reply(i, Ok(ListOf(server, calls[i].arg)))
       \/ calls[i].op = "checkGroupName" /\ Judged(i, NameFree(calls[i].arg))
       \/ calls[i].op = "checkRange" /\ Judged(i, ~Taken(calls[i].arg))
       \/ calls[i].op = "checkUpdateRange" /\ Judged(i, Keeps(calls[i].arg))
    /\ UNCHANGED server

ServeDelete(i) ==
    /\ calls[i].op = "delete"
    /\ Reply(i, Ok(TRUE))
    /\ server' = {g \in server : g.groupId # calls[i].arg}

ServeSave(i) ==
    LET data == calls[i].arg
        free == {n \in GroupIds : \A g \in server : g.groupId # n}
    IN /\ calls[i].op \in {"add", "update"}
       /\ IF Taken(data) \/ ~NameFree(data) \/ (calls[i].op = "add" /\ free = {})
          THEN Reply(i, Refused) /\ UNCHANGED server
          ELSE /\ Reply(i, Ok(TRUE))
               /\ \E n \in IF calls[i].op = "update" THEN {data.groupId} ELSE free :
                    server' = {g \in server : g.groupId # data.groupId}
                                \cup {[Saved(data) EXCEPT !.groupId = n]}

-----------------------------------------------------------------------------
(* Answers at the page.                                                    *)

\* A failure with an answer of the manager, or without any.
Rejected(i, op) == calls[i].op = op /\ calls[i].answer.code \in {"refused", "failed"}

\* The rows are replaced; the total only when there are any.
ListThen(i) ==
    /\ Got(i, "list")
    /\ view' = [view EXCEPT !.tableData = Data(i).list,
                            !.total = IF Data(i).list # <<>> THEN Data(i).totalRecord ELSE @]
    /\ Handled(i, <<>>)

DeleteThen(i) ==
    /\ Got(i, "delete")
    /\ view' = Asked([view EXCEPT !.dialog = "none"])
    /\ Handled(i, initList(view.data))

CheckNameThen(i) ==
    /\ Got(i, "checkGroupName") \/ Rejected(i, "checkGroupName")
    /\ view' = [view EXCEPT !.groupNamewarn = Rejected(i, "checkGroupName"),
                            !.checked = [groupName |-> calls[i].arg.groupName,
                                         free |-> Got(i, "checkGroupName")]]
    /\ Handled(i, <<>>)

\* The range is checked first, then the group is saved as it was submitted.
CheckRangeThen(i) ==
    /\ \/ Got(i, "checkRange") /\ Handled(i, <<Ask("add", calls[i].arg)>>)
       \/ Got(i, "checkUpdateRange") /\ Handled(i, <<Ask("update", calls[i].arg)>>)
    /\ UNCHANGED view

\* catch: what the manager said stays with the form.
CheckRangeCatch(i) ==
    /\ \/ /\ Rejected(i, "checkRange") \/ Rejected(i, "update")
          /\ view' = [view EXCEPT !.beenUsed = calls[i].answer # Failed]
       \/ /\ Rejected(i, "checkUpdateRange")
          /\ view' = [view EXCEPT !.cannotEdit = IF calls[i].answer # Failed THEN TRUE ELSE @]
    /\ Handled(i, <<>>)

SaveThen(i) ==
    /\ Got(i, "add") \/ Got(i, "update")
    /\ view' = Asked([view EXCEPT !.dialog = "none"])
    /\ Handled(i, initList(view.data))

NoCatch(i) ==
    /\ Rejected(i, "list") \/ Rejected(i, "delete") \/ Rejected(i, "add")
    /\ Handled(i, <<>>)
    /\ UNCHANGED view

-----------------------------------------------------------------------------
Acts ==
    \/ \E name \in GroupNames \cup {""} : SetFilter(name)
    \/ \E name \in GroupNames : EnterName(name)
    \/ toSearch \/ okAction \/ CloseDelete \/ addPartyid \/ submitAction \/ cancelAction
    \/ \E page \in PagesOf(view.total, PageSize) : handleCurrentChange(page)
    \/ \E k \in DOMAIN view.tableData :
          handleDelete(view.tableData[k]) \/ handleEdit(view.tableData[k])
    \/ \E text \in Texts : EnterRange(text)

Answers(i) ==
    \/ ListThen(i) \/ DeleteThen(i) \/ CheckNameThen(i) \/ CheckRangeThen(i)
    \/ CheckRangeCatch(i) \/ SaveThen(i) \/ NoCatch(i)

Next ==
    \/ Acts
    \/ \E i \in DOMAIN calls :
          \/ ServeQuery(i) \/ ServeDelete(i) \/ ServeSave(i)
          \/ Fail(i) \/ Answers(i)

Spec == Init /\ [][Next]_pageVars

-----------------------------------------------------------------------------
\* Whatever the user has saved or deleted, the table shows what the manager
\* keeps once every request has come back, for the search asked last.
TableIsCurrent ==
    Settled => view.tableData = ListOf(server, view.asked).list

\* A group is saved only under a name the manager called free when it was
\* asked last about that name: no warning is lost between the check, the
\* next visit of the field and the submission.
SavedNameWasFree ==
    \A i \in DOMAIN calls : calls[i].op \in {"checkRange", "add"} =>
        view.checked = [groupName |-> calls[i].arg.groupName, free |-> TRUE]

\* The regions of a submitted text are its numbers: none is lost by the
\* parsing, and two regions share at most the number at which they touch.
SubmittedRangeIsTyped ==
    \A text \in Texts : Valid(text) =>
        LET regions == requestRange(text)
            typed == UNION {part[1] .. LastOf(part) : part \in ToSet(text)}
        IN /\ UNION {r.leftRegion .. r.rightRegion : r \in ToSet(regions)} = typed
           /\ \A r, s \in ToSet(regions) : r # s =>
                Cardinality((r.leftRegion .. r.rightRegion) \cap (s.leftRegion .. s.rightRegion)) <= 1

\* A group opened for editing and submitted as it is sends its own regions.
EditRoundTrip ==
    \A g \in server : requestRange(responseRange(g.regions)) = g.regions
=============================================================================
