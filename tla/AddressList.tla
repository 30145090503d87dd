---------------------------- MODULE AddressList -----------------------------
(***************************************************************************)
(* The dialog in which the addresses of a field are edited                 *)
(* (ipeditadd.vue).  It is opened from a field of a form, field, which it  *)
(* writes when it is saved.  One row at a time is meant to be in edit, in  *)
(* one input for all rows, entrancesInput, whose row is entrancesindex;    *)
(* an input that is left is closed by the event of leaving it, before the  *)
(* click that leaves it.  focused is the row whose input has the focus.    *)
(***************************************************************************)
EXTENDS Page

CONSTANT Limit   \* rows of a dialog; 20 in the code

Requests == {"telnet"}

Addresses == {"a", "b"}        \* what checkip accepts
Inputs == Addresses \cup {"bad", ""}
checkip(ip) == ip \in Addresses

Row(ip) == [ip |-> ip, show |-> FALSE, checked |-> FALSE]

\* The watcher of the rows.
Watched(v) ==
    [v EXCEPT !.addDisabled = IF Len(v.entrancesSelect) >= Limit THEN TRUE
                              ELSE IF ~v.saveDisabled THEN FALSE ELSE @]

Init ==
    /\ server = 0
    /\ \E field \in {<<>>, <<"a">>, <<"a", "b">>} :
        view = [field |-> field, adddialog |-> FALSE, type |-> "exit", entrancesSelect |-> <<>>,
                entrancesInput |-> "", entrancesindex |-> 0, focused |-> 0, canEdit |-> TRUE,
                saveDisabled |-> FALSE, addDisabled |-> FALSE, tips |-> "none"]
    /\ Created(<<>>)

Rows(v) == v.entrancesSelect
Shown(v, show) == {k \in DOMAIN Rows(v) : v.adddialog /\ Rows(v)[k].show = show}

\* A click outside of the input that has the focus leaves it first.
Free(v) == v.adddialog /\ v.focused = 0

\* addShow of the form.
addShow(type) ==
    LET entered == Picked(view.field, {k \in DOMAIN view.field : view.field[k] # ""})
    IN /\ ~view.adddialog
       /\ Click(<<>>)
       /\ view' = Watched([view EXCEPT !.adddialog = TRUE, !.type = type,
                             !.entrancesSelect = [k \in DOMAIN entered |-> Row(entered[k])]])

\* The first input that is shown gets the focus.
Focus(v) ==
    [v EXCEPT !.focused = CHOOSE k \in Shown(v, TRUE) : \A j \in Shown(v, TRUE) : k <= j]

getEdit(v, k) ==
    IF ~v.canEdit THEN v
    ELSE Focus([v EXCEPT !.entrancesSelect[k].show = TRUE, !.entrancesInput = Rows(v)[k].ip,
                         !.entrancesindex = k, !.canEdit = FALSE,
                         !.addDisabled = TRUE, !.saveDisabled = TRUE])

addentrancesSelect ==
    /\ Free(view) /\ ~view.addDisabled
    /\ Click(<<>>)
    /\ view' = Watched(getEdit([view EXCEPT !.entrancesSelect = Append(@, Row("")), !.canEdit = TRUE],
                               Len(Rows(view)) + 1))

DoubleClick(k) ==
    /\ Free(view) /\ k \in Shown(view, FALSE)
    /\ Click(<<>>)
    /\ view' = Watched(getEdit(view, k))

\* The row goes, and with it the input of all rows.
Deleted(v, k) ==
    [v EXCEPT !.entrancesInput = "", !.entrancesSelect = Without(@, k), !.focused = 0,
              !.saveDisabled = FALSE, !.addDisabled = FALSE, !.canEdit = TRUE]

\* The cross of a row in edit does not leave the input.
deleteEntrances(k) ==
    /\ \/ k \in Shown(view, FALSE) /\ Free(view)
       \/ k \in Shown(view, TRUE) /\ view.focused \in {0, k}
    /\ Click(<<>>)
    /\ view' = Watched(Deleted(view, k))

Check(k) ==
    /\ Free(view) /\ k \in Shown(view, FALSE)
    /\ Click(<<>>)
    /\ view' = [view EXCEPT !.entrancesSelect[k].checked = ~@]

deleteAll ==
    /\ Free(view)
    /\ Click(<<>>)
    /\ view' = Watched([view EXCEPT !.entrancesSelect = Picked(@, {k \in DOMAIN @ : ~@[k].checked})])

Enter(k, text) ==
    /\ k \in Shown(view, TRUE) /\ view.focused \in {0, k} /\ text # view.entrancesInput
    /\ Click(<<>>)
    /\ view' = [view EXCEPT !.focused = k, !.entrancesInput = text]

\* closeEntrances: an empty row goes, an address that is accepted is written
\* to the row of entrancesindex (when it is gone that is a type error), and
\* any other stays in edit.
Closed(v, k) ==
    LET i == v.entrancesindex
    IN CASE v.entrancesInput = "" -> Deleted(v, k)
         [] v.entrancesInput # "" /\ checkip(v.entrancesInput) /\ i \in DOMAIN Rows(v) ->
              [v EXCEPT !.entrancesSelect[i].show = FALSE, !.entrancesSelect[i].ip = v.entrancesInput,
                        !.saveDisabled = FALSE, !.addDisabled = FALSE, !.canEdit = TRUE]
         [] v.entrancesInput # "" /\ checkip(v.entrancesInput) /\ i \notin DOMAIN Rows(v) -> v
         [] OTHER -> [v EXCEPT !.saveDisabled = TRUE, !.addDisabled = TRUE]

closeEntrances ==
    /\ view.adddialog /\ view.focused # 0
    /\ Click(<<>>)
    /\ view' = Watched([Closed(view, view.focused) EXCEPT !.focused = 0])

\* The addresses of the rows, each at its first place.
Once(rows) ==
    LET ips == [k \in DOMAIN rows |-> rows[k].ip]
    IN Picked(ips, {k \in DOMAIN ips : \A j \in 1 .. (k - 1) : ips[j] # ips[k]})

saveAction ==
    /\ Free(view) /\ ~view.saveDisabled
    /\ Click(<<>>)
    /\ view' = Watched([view EXCEPT !.adddialog = FALSE, !.entrancesSelect = <<>>,
                                    !.field = Once(Rows(view))])

\* Whether a row can be put into edit stays as it is.
cancelAction ==
    /\ Free(view)
    /\ Click(<<>>)
    /\ view' = Watched([view EXCEPT !.adddialog = FALSE, !.entrancesSelect = <<>>,
                                    !.saveDisabled = FALSE, !.addDisabled = FALSE])

\* The cross of the dialog; the rows and the flags stay.
CloseDialog ==
    /\ Free(view)
    /\ Click(<<>>)
    /\ view' = [view EXCEPT !.adddialog = FALSE]

testTelnet(k) ==
    /\ Free(view) /\ k \in Shown(view, FALSE) /\ view.type = "entrances"
    /\ Click(<<Ask("telnet", Rows(view)[k].ip)>>)
    /\ view' = [view EXCEPT !.tips = "none"]

\* Whether the address can be reached is outside of the model.
ServeTelnet(i) ==
    /\ calls[i].op = "telnet"
    /\ Reply(i, Ok(0)) \/ Reply(i, Refused)
    /\ UNCHANGED server

TelnetThen(i) ==
    /\ calls[i].op = "telnet" /\ ~IsWaiting(i)
    /\ view' = [view EXCEPT !.tips = CASE Got(i, "telnet") -> "success"
                                       [] calls[i].answer = Refused -> "fail" [] OTHER -> @]
    /\ Handled(i, <<>>)

Acts ==
    \/ \E type \in {"entrances", "exit"} : addShow(type)
    \/ \E k \in DOMAIN Rows(view) :
          \/ DoubleClick(k) \/ deleteEntrances(k) \/ Check(k) \/ testTelnet(k)
          \/ \E text \in Inputs : Enter(k, text)
    \/ addentrancesSelect \/ deleteAll \/ closeEntrances \/ saveAction \/ cancelAction \/ CloseDialog

Next ==
    \/ Acts
    \/ \E i \in DOMAIN calls : ServeTelnet(i) \/ Fail(i) \/ TelnetThen(i)

Spec == Init /\ [][Next]_pageVars

-----------------------------------------------------------------------------
\* A dialog never holds more rows than the limit, whichever of the handlers
\* that disable and enable the button have run.
LimitKept == Len(view.entrancesSelect) <= Limit

\* The field holds nothing but addresses that were accepted and, from a row
\* that was left in edit while another was deleted, an empty one; each once.
SavedAreAccepted ==
    /\ Range(view.field) \subseteq Addresses \cup {""}
    /\ Cardinality(Range(view.field)) = Len(view.field)
=============================================================================
