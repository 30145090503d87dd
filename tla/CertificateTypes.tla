-------------------------- MODULE CertificateTypes --------------------------
(***************************************************************************)
(* The dialog of the certificate types (certiAddType.vue) on the page of   *)
(* the certificates.  Its rows are the objects of the page's own list, not *)
(* copies: a name entered in the dialog is entered in the page.  What is   *)
(* to be sent, params, is gathered from the rows at each attempt to save,  *)
(* and is not emptied when the attempt fails.  Two fields of view are      *)
(* history: crossed, the dialog was left by its cross, which forgets       *)
(* nothing, and slips, what happened that the dialog does not see: a name  *)
(* was entered with a blank around it, a row was deleted while another was *)
(* in edit, a name was emptied, of which the manager is not told, or the   *)
(* dialog was opened on a list that is not the manager's.                  *)
(***************************************************************************)
EXTENDS Page, SequencesExt

CONSTANT Limit   \* how many types there may be; 20 in the code

\* "list" stands for what the page asks together with the types.
Requests == {"certiType", "updateCertifiType", "list"}

\* What is typed: names, one with a blank, one of more than 20 characters.
Texts == {"", "x", "FATE ", "long"}
trim(text) == IF text = "FATE " THEN "FATE" ELSE text

\* A type: its key tells the object, its id is 0 as long as it is new.
Type(key, id, name, canDelete) ==
    [key |-> key, id |-> id, typeName |-> name, canDelete |-> canDelete, show |-> FALSE]
Fixed == 1   \* canDelete of a type the manager creates itself
Used == 2    \* that of a type certificates have

-----------------------------------------------------------------------------
\* The types of the manager, in the order of their ids.
queryAll(types) == SetToSortSeq(types, LAMBDA a, b : a.id < b.id)
TypeNames(types) == [k \in DOMAIN types |-> types[k].typeName]

\* The page asks for its lists again: the drop-down is emptied.
init(v) == [v EXCEPT !.certiTypeSelect = <<>>]
Listing == <<Ask("list", ""), Ask("certiType", "")>>

Init ==
    /\ server \in {{Type(1, 1, "FATE", Fixed)},
                   {Type(1, 1, "FATE", Fixed), Type(2, 2, "x", 3), Type(3, 3, "y", Used)}}
    /\ view = [addCertiTypeList |-> <<>>, certiTypeSelect |-> <<>>,
               addTypeDialog |-> FALSE, shared |-> FALSE, entrancesSelect |-> <<>>,
               entrancesInput |-> "", tempInputClose |-> "", entrancesindex |-> 0,
               canEdit |-> TRUE, saveDisabled |-> FALSE, addDisabled |-> FALSE,
               params |-> <<>>, fresh |-> 10,
               crossed |-> FALSE, slips |-> {}]
    /\ Created(Listing)

Rows(v) == v.entrancesSelect
InEdit(v) == {k \in DOMAIN Rows(v) : Rows(v)[k].show}
Open(v) == v.addTypeDialog

\* What can be clicked in a row: one in edit can only be left.
RowControls(row) ==
    CASE row.show -> {"leave", "cross"}
      [] ~row.show /\ row.canDelete = Fixed -> {}
      [] ~row.show /\ row.canDelete = Used -> {"edit"}
      [] OTHER -> {"edit", "delete"}

\* The watcher of the rows.
Watched(v) ==
    [v EXCEPT !.addDisabled = IF Len(Rows(v)) >= Limit THEN TRUE
                              ELSE IF ~v.saveDisabled THEN FALSE ELSE @]

Slip(slips, happens, slip) == IF happens THEN slips \cup {slip} ELSE slips

\* The rows are the objects of the page.
toAddType ==
    /\ ~Open(view)
    /\ Click(<<>>)
    /\ view' = Watched([view EXCEPT !.params = <<>>, !.addTypeDialog = TRUE, !.shared = TRUE,
                                    !.entrancesSelect = view.addCertiTypeList,
                                    !.slips = Slip(@, view.addCertiTypeList # queryAll(server), "stale")])

\* A name written to a row is written to every list that holds the object.
Named(types, key, name) ==
    [k \in DOMAIN types |-> IF types[k].key = key THEN [types[k] EXCEPT !.typeName = name]
                            ELSE types[k]]
Written(v, key, name) ==
    [v EXCEPT !.entrancesSelect = Named(@, key, name),
              !.params = Named(@, key, name),
              !.addCertiTypeList = IF v.shared THEN Named(@, key, name) ELSE @]

getEdit(v, k) ==
    IF ~v.canEdit THEN v
    ELSE [v EXCEPT !.entrancesSelect[k].show = TRUE,
                   !.tempInputClose = Rows(v)[k].typeName, !.entrancesInput = Rows(v)[k].typeName,
                   !.entrancesindex = k, !.canEdit = FALSE,
                   !.addDisabled = TRUE, !.saveDisabled = TRUE]

addentrancesSelect ==
    /\ Open(view) /\ ~view.addDisabled
    /\ Click(<<>>)
    /\ view' = Watched(getEdit([view EXCEPT !.entrancesSelect = Append(@, Type(view.fresh, 0, "", 0)),
                                            !.fresh = @ + 1, !.canEdit = TRUE],
                               Len(Rows(view)) + 1))

ClickEdit(k) ==
    /\ Open(view) /\ "edit" \in RowControls(Rows(view)[k])
    /\ Click(<<>>)
    /\ view' = Watched(getEdit(view, k))

\* The row goes; one the manager knows is noted to be deleted.
Deleted(v, k, id) ==
    [v EXCEPT !.entrancesInput = "", !.entrancesSelect = RemoveAt(@, k),
              !.saveDisabled = FALSE, !.addDisabled = FALSE, !.canEdit = TRUE,
              !.params = IF id = 0 THEN @ ELSE Append(@, Type(0, id, "", 0))]

Enter(text) ==
    /\ Open(view) /\ InEdit(view) # {} /\ text # view.entrancesInput
    /\ Uncounted
    /\ view' = [view EXCEPT !.entrancesInput = text]

\* A row whose name is empty goes: only from the dialog, for closeEntrances
\* passes no id.  The Enter key passes no row either, k is 0, and the first
\* row of the list goes.
Emptied(v, k) ==
    LET row == IF k = 0 THEN 1 ELSE k
    IN [Deleted(v, row, 0) EXCEPT !.slips = Slip(@, Rows(v)[row].id # 0, "emptied")]

\* What is entered is written to the row that was put in edit, without its
\* blanks; too long a name stays in edit.
Entered(v, k) ==
    LET i == v.entrancesindex
    IN CASE v.entrancesInput = "" -> Emptied(v, k)
         [] v.entrancesInput \notin {"", "long"} /\ i \in DOMAIN Rows(v) ->
              [Written(v, Rows(v)[i].key, trim(v.entrancesInput)) EXCEPT
                 !.entrancesSelect[i].show = FALSE, !.saveDisabled = FALSE, !.addDisabled = FALSE,
                 !.canEdit = TRUE,
                 !.slips = Slip(@, trim(v.entrancesInput) # v.entrancesInput, "padded")]
         [] OTHER -> v

\* closeEntrances of the row k: a name that another row has stays in edit; it
\* is compared as it is typed.
Closed(v, k) ==
    IF \E j \in DOMAIN Rows(v) : j # k /\ Rows(v)[j].typeName = v.entrancesInput
    THEN v ELSE Entered(v, k)

\* Leaving the input of another row comes before the click; that row stays
\* in edit when its name is refused.
deleteEntrances(k) ==
    /\ Open(view) /\ "delete" \in RowControls(Rows(view)[k])
    /\ \A j \in InEdit(view) : Closed(view, j) = view
    /\ Click(<<>>)
    /\ view' = Watched([Deleted(view, k, Rows(view)[k].id) EXCEPT
                          !.slips = Slip(@, InEdit(view) # {}, "shifted")])

\* Leaving the input, or its check; the cross of the row puts back the name
\* it had; the Enter key.
Leave(k) ==
    /\ Open(view) /\ "leave" \in RowControls(Rows(view)[k])
    /\ Click(<<>>)
    /\ view' = Watched(Closed(view, k))
closeInput(k) ==
    /\ Open(view) /\ "cross" \in RowControls(Rows(view)[k])
    /\ Click(<<>>)
    /\ view' = Watched(Closed([view EXCEPT !.entrancesInput = view.tempInputClose], k))
PressEnter ==
    /\ Open(view) /\ InEdit(view) # {}
    /\ Click(<<>>)
    /\ view' = Watched(Closed(view, 0))

saveAction ==
    /\ Open(view) /\ ~view.saveDisabled
    /\ view' = [view EXCEPT !.params = @ \o Rows(view)]
    /\ Click(<<Ask("updateCertifiType", view'.params)>>)

cancelAction ==
    /\ Open(view)
    /\ Click(Listing)
    /\ view' = Watched(init([view EXCEPT !.saveDisabled = FALSE, !.addDisabled = FALSE,
                                         !.addTypeDialog = FALSE, !.crossed = FALSE]))

\* The cross of the dialog.
CloseDialog ==
    /\ Open(view)
    /\ Uncounted
    /\ view' = [view EXCEPT !.addTypeDialog = FALSE, !.crossed = TRUE]

-----------------------------------------------------------------------------
(* The manager.                                                            *)

ServeTypes(i) ==
    /\ calls[i].op = "certiType"
    /\ Reply(i, Ok(queryAll(server)))
    /\ UNCHANGED server

\* One entry of an update: a new name is inserted unless it is there; an id
\* without a name is deleted unless it is used; any other is renamed.
NewType(w, name) ==
    LET id == Max({0} \cup {t.id : t \in w.types}) + 1 IN Type(id, id, name, 3)
Apply(w, entry) ==
    LET old == {t \in w.types : t.id = entry.id}
    IN CASE ~w.ok -> w
         [] w.ok /\ entry.id = 0 ->
              IF Cardinality(w.types) < Limit /\ entry.typeName \notin {t.typeName : t \in w.types}
              THEN [w EXCEPT !.types = @ \cup {NewType(w, entry.typeName)}]
              ELSE [w EXCEPT !.ok = FALSE]
         [] w.ok /\ entry.id # 0 /\ old = {} -> [w EXCEPT !.ok = FALSE]
         [] w.ok /\ entry.id # 0 /\ old # {} /\ entry.typeName = "" ->
              [w EXCEPT !.types = {t \in @ : t.id # entry.id \/ t.canDelete = Used}]
         [] w.ok /\ entry.id # 0 /\ old # {} /\ entry.typeName # "" ->
              [w EXCEPT !.types = (@ \ old) \cup {[t EXCEPT !.typeName = entry.typeName] : t \in old}]

\* All entries or none.
ServeUpdate(i) ==
    /\ calls[i].op = "updateCertifiType"
    /\ \E w \in {FoldLeft(Apply, [ok |-> TRUE, types |-> server], calls[i].arg)} :
          /\ Reply(i, IF w.ok THEN Ok(TRUE) ELSE Refused)
          /\ server' = IF w.ok THEN w.types ELSE server

-----------------------------------------------------------------------------
\* The list is replaced, the drop-down is added to.
TypesThen(i) ==
    /\ Got(i, "certiType")
    /\ view' = [view EXCEPT !.addCertiTypeList = Data(i), !.certiTypeSelect = @ \o TypeNames(Data(i)),
                            !.shared = FALSE]
    /\ Handled(i, <<>>)

UpdateThen(i) ==
    /\ Got(i, "updateCertifiType")
    /\ view' = init([view EXCEPT !.addTypeDialog = FALSE, !.crossed = FALSE])
    /\ Handled(i, Listing)

ListThen(i) == Arrives(i, "list") /\ Handled(i, <<>>) /\ UNCHANGED view

Acts ==
    \/ \E k \in DOMAIN Rows(view) : ClickEdit(k) \/ deleteEntrances(k) \/ Leave(k) \/ closeInput(k)
    \/ \E text \in Texts : Enter(text)
    \/ toAddType \/ addentrancesSelect \/ PressEnter \/ saveAction \/ cancelAction \/ CloseDialog

Next ==
    \/ Acts
    \/ \E i \in DOMAIN calls :
          \/ ServeTypes(i) \/ ServeUpdate(i) \/ Fail(i)
          \/ TypesThen(i) \/ UpdateThen(i) \/ ListThen(i) \/ Ignores(i)

Spec == Init /\ [][Next]_pageVars

-----------------------------------------------------------------------------
\* What was entered and cancelled is forgotten: the page's list is the
\* manager's again, and its drop-down has each type once.
CancelledIsForgotten ==
    Settled /\ ~Open(view) /\ ~view.crossed =>
        /\ view.addCertiTypeList = queryAll(server)
        /\ view.certiTypeSelect = TypeNames(queryAll(server))

\* The stored names differ and none is empty, for which the dialog alone
\* looks when a type is renamed.  It misses a name typed with a blank, a row
\* left in edit when another is deleted, a type that is no row any more
\* because its name was emptied, and what differs between the page's list and
\* the manager's when it is opened: after its cross, or before the list came.
TypeNamesDiffer ==
    view.slips = {} =>
        \A t, u \in server : t.typeName # "" /\ (t # u => t.typeName # u.typeName)
=============================================================================
