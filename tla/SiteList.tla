------------------------------ MODULE SiteList ------------------------------
(***************************************************************************)
(* The list of the institutions with their sites (site.vue).  A list that  *)
(* arrives is shown only when the last of its institutions has its         *)
(* authorities; the page raises the overlay for that long by itself.  The  *)
(* answers write into the rows of the list they belong to, which another   *)
(* list may have replaced meanwhile: view keeps the lists that arrived,    *)
(* and shown tells which of them is on the page.                           *)
(* The tables of sites in the list are SiteTable's.                        *)
(*                                                                         *)
(* History of view: crowded, whether the state of the function came, when  *)
(* the page was created, next to requests of the user's: the list it asks  *)
(* for then is a second one, whose end takes down the overlay of others.   *)
(***************************************************************************)
EXTENDS Page

CONSTANTS
    Institutions,  \* the institutions with sites, in use or deleted
    Scenarios      \* what the manager may say of the authorities: "1", "2", "3"

Requests == {"info", "choices", "list", "authority", "status", "details",
            "review", "cancelList", "cancel", "delete"}

PageSize == 2
Radios == {"In Use", "Historic Uses"}

-----------------------------------------------------------------------------
(* The manager.                                                            *)

Named(radio) == IF radio = "In Use" THEN server.inUse ELSE server.deleted
Order == Enumerated(Institutions)
ListOf(query) ==
    LET rows == Picked(Order, {k \in DOMAIN Order : /\ Order[k] \in Named(query.status)
                                                   /\ query.institutions \in {"", Order[k]}})
    IN [list |-> Chunk(rows, PageSize, query.pageNum), totalRecord |-> Len(rows)]

\* The institutions offered for cancelling: under scenario "1" all alike, "2"
\* those with guests, "3" with guests or hosts, a host here being the last.
Kinds == {"all", "guest", "host"}
Offered(institution) ==
    LET granted == server.granted[institution]
        hosts == {n \in granted : n = Order[Len(Order)]}
    IN [k \in Kinds |-> CASE k = "all" -> IF server.scenario = "1" THEN granted ELSE {}
                          [] k = "host" -> IF server.scenario = "3" THEN hosts ELSE {}
                          [] k = "guest" -> IF server.scenario = "1" THEN {} ELSE granted \ hosts]

-----------------------------------------------------------------------------
(* The page.                                                               *)

\* info and getinsSelectList; neither raises the overlay.
info(list) == <<AskQuietly("info", list)>>
getinsSelectList(radio) == <<AskQuietly("choices", radio)>>

\* getinitinstitutions: the request is quiet, the page raises the overlay.
getinitinstitutions(v) == <<AskQuietly("list", v.data)>>

Items(v) == IF v.shown = 0 THEN <<>> ELSE v.lists[v.shown]
Places(v) == DOMAIN Items(v)

NoDialog == [kind |-> "none", institutions |-> "", box |-> [k \in Kinds |-> {}],
             list |-> [k \in Kinds |-> {}]]

Init ==
    /\ \E state \in BOOLEAN, scenario \in Scenarios, a \in {Order[1]}, b \in {Order[2]} :
         /\ ~state => scenario = "1"
         /\ server = [inUse |-> Institutions, deleted |-> {b}, siteState |-> state,
                      scenario |-> scenario,
                      granted |-> [n \in Institutions |-> IF n = a THEN Institutions \ {a} ELSE {}],
                      applied |-> [n \in Institutions |-> IF n = b THEN Institutions \ {b} ELSE {}]]
    /\ view = [radio |-> "In Use", siteState |-> FALSE, total |-> 0,
               data |-> [status |-> "In Use", institutions |-> "", pageNum |-> 1],
               lists |-> <<>>, shown |-> 0, choices |-> {}, dialog |-> NoDialog,
               crowded |-> FALSE]
    /\ Created(info(TRUE) \o getinsSelectList("In Use"))

Item(v, n) == Items(v)[n]

\* What can be clicked on the page; a dialog covers it.
Controls(v) ==
    IF v.dialog.kind # "none" THEN {}
    ELSE {"radio", "institutions", "search", "page"}
           \cup (IF v.radio = "In Use" THEN {"delete"} ELSE {})
           \cup (IF v.siteState THEN {"details", "cancel"} ELSE {})

\* The dialogs: what an application is answered with, what is cancelled, and
\* the deletion.  A cancellation waits for a checked box.
TipsControls(v) == IF v.dialog.kind = "tips" THEN {"check", "agree", "close"} ELSE {}
CancelControls(v) ==
    IF v.dialog.kind # "cancel" THEN {}
    ELSE {"check", "close"} \cup
           (IF \E k \in Kinds : v.dialog.list[k] # {} THEN {"sure"} ELSE {})
DeleteControls(v) == IF v.dialog.kind = "delete" THEN {"ok", "close"} ELSE {}
DialogControls(v) == TipsControls(v) \cup CancelControls(v) \cup DeleteControls(v)

\* A click that asks for the list raises the overlay.
ClickList(asked) ==
    UserActs /\ ~busy /\ Len(calls) < MaxCalls /\ Raised(asked)

changeRadio(radio) ==
    /\ "radio" \in Controls(view) /\ radio # view.radio
    /\ view' = [view EXCEPT !.radio = radio, !.choices = {},
                            !.data = [status |-> radio, institutions |-> "", pageNum |-> 1]]
    /\ ClickList(getinitinstitutions(view') \o getinsSelectList(radio))

ChooseInstitutions(name) ==
    /\ "institutions" \in Controls(view)
    /\ name \in view.choices \cup {""} /\ name # view.data.institutions
    /\ Click(<<>>)
    /\ view' = [view EXCEPT !.data.institutions = name]

toSearch ==
    /\ "search" \in Controls(view)
    /\ view' = [view EXCEPT !.data.pageNum = 1]
    /\ ClickList(getinitinstitutions(view'))

handleCurrentChange(page) ==
    /\ "page" \in Controls(view) /\ page # view.data.pageNum
    /\ view' = [view EXCEPT !.data.pageNum = page, !.data.institutions = ""]
    /\ ClickList(getinitinstitutions(view'))

\* toshowins: the yellow mark opens the applications of an institution.
toshowins(n) ==
    /\ "details" \in Controls(view) /\ Item(view, n).tooltip
    /\ view' = [view EXCEPT !.dialog = [NoDialog EXCEPT !.institutions = Item(view, n).institutions]]
    /\ Click(<<Ask("details", view'.dialog.institutions)>>)

toshowcancelAuthor(n) ==
    /\ "cancel" \in Controls(view) /\ Item(view, n).authority # {}
    /\ view' = [view EXCEPT !.dialog = [NoDialog EXCEPT !.institutions = Item(view, n).institutions]]
    /\ Click(<<Ask("cancelList", view'.dialog.institutions)>>)

\* A box is checked or unchecked, or all of them at once.
CheckAll(kind) ==
    /\ "check" \in DialogControls(view) /\ view.dialog.box[kind] # {}
    /\ view' = [view EXCEPT !.dialog.list[kind] =
                  IF @ = view.dialog.box[kind] THEN {} ELSE view.dialog.box[kind]]
    /\ Click(<<>>)
Check(kind, name) ==
    /\ "check" \in DialogControls(view) /\ name \in view.dialog.box[kind]
    /\ view' = [view EXCEPT !.dialog.list[kind] = IF name \in @ THEN @ \ {name} ELSE @ \cup {name}]
    /\ Click(<<>>)

totipsAction ==
    /\ "agree" \in TipsControls(view)
    /\ Click(<<Ask("review", [institutions |-> view.dialog.institutions,
                              approved |-> view.dialog.list["all"]])>>)
    /\ UNCHANGED view

tocancelAuthor ==
    /\ "sure" \in CancelControls(view)
    /\ Click(<<Ask("cancel", [institutions |-> view.dialog.institutions,
                              cancelled |-> UNION Range(view.dialog.list)])>>)
    /\ UNCHANGED view

deleteSite(n) ==
    /\ "delete" \in Controls(view)
    /\ Click(<<>>)
    /\ view' = [view EXCEPT !.dialog = [NoDialog EXCEPT !.kind = "delete",
                                          !.institutions = Item(view, n).institutions]]

deleteInstitutions ==
    /\ "ok" \in DeleteControls(view)
    /\ Click(<<Ask("delete", view.dialog.institutions)>>)
    /\ UNCHANGED view

CloseDialog ==
    /\ "close" \in DialogControls(view)
    /\ Click(<<>>)
    /\ view' = [view EXCEPT !.dialog = NoDialog]

-----------------------------------------------------------------------------
(* What the manager changes.                                               *)

Served(i, after) ==
    /\ IsWaiting(i)
    /\ calls' = [calls EXCEPT ![i].answer = Ok(TRUE)]
    /\ server' = after
    /\ UNCHANGED <<view, busy, steps, mishaps>>

\* Every application is decided: those not approved are rejected.
ServeReview(i) ==
    LET c == calls[i].arg
    IN calls[i].op = "review"
       /\ Served(i, [server EXCEPT !.applied[c.institutions] = {},
                                   !.granted[c.institutions] = @ \cup c.approved])
ServeCancel(i) ==
    LET c == calls[i].arg
    IN calls[i].op = "cancel"
       /\ Served(i, [server EXCEPT !.granted[c.institutions] = @ \ c.cancelled])
ServeDelete(i) ==
    LET c == calls[i].arg
    IN calls[i].op = "delete"
       /\ Served(i, [server EXCEPT !.inUse = @ \ {c}, !.deleted = @ \cup {c}])

-----------------------------------------------------------------------------
(* Answers at the page.                                                    *)

\* The list arrives with the function's state: the list is asked for next
\* when the page was created, and only then.
Crowds(i) ==
    calls[i].arg /\ \E k \in DOMAIN calls : calls[k].op \notin {"info", "choices"}
InfoThen(i) ==
    /\ Arrives(i, "info")
    /\ view' = [view EXCEPT !.siteState = server.siteState, !.crowded = @ \/ Crowds(i)]
    /\ IF calls[i].arg THEN HandledUnder(i, getinitinstitutions(view), TRUE)
       ELSE Handled(i, <<>>)

ChoicesThen(i) ==
    /\ Arrives(i, "choices")
    /\ view' = [view EXCEPT !.choices = @ \cup Named(calls[i].arg)]
    /\ Handled(i, <<>>)

Row(name) == [institutions |-> name, authority |-> {}, tooltip |-> FALSE]

\* setMsg asks for the mark of each institution on the page.
setMsg(v) ==
    [n \in Places(v) |-> AskQuietly("status", [place |-> n, institutions |-> Item(v, n).institutions])]

\* The lists before, without those nothing will be written into.
Awaited(lists) ==
    [k \in DOMAIN lists |->
       IF \E j \in DOMAIN calls : calls[j].op = "authority" /\ calls[j].arg.list = k
       THEN lists[k] ELSE <<>>]

\* Without the function the list is on the page at once.
ListThen(i) ==
    LET answer == ListOf(calls[i].arg)
        rows == [n \in DOMAIN answer.list |-> Row(answer.list[n])]
        last == Len(view.lists) + 1
        come == [view EXCEPT !.total = answer.totalRecord, !.shown = 0,
                              !.lists = Append(Awaited(@), rows)]
        waits == view.siteState /\ rows # <<>>
    IN /\ Arrives(i, "list")
       /\ view' = IF waits THEN come ELSE [come EXCEPT !.shown = last]
       /\ HandledUnder(i, [n \in IF waits THEN DOMAIN rows ELSE {} |->
                             AskQuietly("authority", [list |-> last, place |-> n])],
                       busy /\ waits)

\* The authorities and the history of an institution, one after the other.
\* Those of the last institution put the list on the page.
AuthorityThen(i) ==
    LET c == calls[i].arg
        name == view.lists[c.list][c.place].institutions
        filled == [view EXCEPT !.lists[c.list][c.place].authority = server.granted[name]]
        shown == [filled EXCEPT !.shown = c.list]
    IN /\ Arrives(i, "authority")
       /\ IF c.place = Len(view.lists[c.list])
          THEN view' = shown /\ HandledUnder(i, setMsg(shown), FALSE)
          ELSE view' = filled /\ Handled(i, <<>>)

\* The mark is set at the place, whoever is there now.
StatusThen(i) ==
    LET c == calls[i].arg
    IN /\ Arrives(i, "status")
       /\ view' = IF c.place \in Places(view)
                  THEN [view EXCEPT !.lists[view.shown][c.place].tooltip =
                          server.applied[c.institutions] # {}]
                  ELSE view
       /\ Handled(i, <<>>)

\* The boxes are appended to those that are there, the dialog opens.
DetailsThen(i) ==
    /\ Arrives(i, "details")
    /\ view' = [view EXCEPT !.dialog.kind = "tips",
                            !.dialog.box["all"] = @ \cup server.applied[calls[i].arg]]
    /\ Handled(i, <<>>)

CancelListThen(i) ==
    /\ Arrives(i, "cancelList")
    /\ view' = [view EXCEPT !.dialog.kind = "cancel",
                  !.dialog.box = [k \in Kinds |-> @[k] \cup Offered(calls[i].arg)[k]]]
    /\ Handled(i, <<>>)

\* The list and the state of the function are asked for side by side.
Decided(i) ==
    /\ Got(i, "review") \/ Got(i, "cancel")
    /\ view' = [view EXCEPT !.dialog = NoDialog]
    /\ HandledUnder(i, getinitinstitutions(view) \o info(FALSE), TRUE)

DeleteThen(i) ==
    /\ Got(i, "delete")
    /\ view' = [view EXCEPT !.dialog = NoDialog]
    /\ HandledUnder(i, getinitinstitutions(view), TRUE)

\* The failure of the list lowers the overlay whatever it was; no other
\* failure is caught, and one the manager answered leaves the overlay of a
\* quiet request as it is.
ListCatch(i) ==
    /\ calls[i].op = "list" /\ calls[i].answer \in {Failed, Refused}
    /\ HandledUnder(i, <<>>, FALSE)
    /\ UNCHANGED view

NoCatch(i) == calls[i].op # "list" /\ Ignores(i)

-----------------------------------------------------------------------------
Acts ==
    \/ \E radio \in Radios : changeRadio(radio)
    \/ \E name \in Institutions \cup {""} : ChooseInstitutions(name)
    \/ toSearch \/ totipsAction \/ tocancelAuthor \/ deleteInstitutions \/ CloseDialog
    \/ \E page \in PagesOf(view.total, PageSize) : handleCurrentChange(page)
    \/ \E n \in Places(view) :
          toshowins(n) \/ toshowcancelAuthor(n) \/ deleteSite(n)
    \/ \E kind \in Kinds : CheckAll(kind) \/ \E name \in Institutions : Check(kind, name)

Answers(i) ==
    \/ InfoThen(i) \/ ChoicesThen(i) \/ ListThen(i) \/ AuthorityThen(i)
    \/ StatusThen(i) \/ DetailsThen(i) \/ CancelListThen(i) \/ Decided(i)
    \/ DeleteThen(i) \/ ListCatch(i) \/ NoCatch(i)

Next ==
    \/ Acts
    \/ \E i \in DOMAIN calls :
          ServeReview(i) \/ ServeCancel(i) \/ ServeDelete(i)
          \/ Fail(i) \/ Refuse(i)
          \/ Answers(i)

Spec == Init /\ [][Next]_pageVars

-----------------------------------------------------------------------------
\* Once everything has come back, the page shows of each institution what the
\* manager keeps: its authorities and whether an application waits, however
\* the answers of this list and of the lists before it were mixed.
AuthoritiesAreCurrent ==
    (Settled /\ view.siteState) => \A n \in Places(view) :
        /\ Item(view, n).authority = server.granted[Item(view, n).institutions]
        /\ Item(view, n).tooltip = (server.applied[Item(view, n).institutions] # {})

\* What is approved or cancelled was applied for by, or granted to, the
\* institution the request names, not one whose dialog was open before.  (A
\* user who is faster than the state of the function has two lists on their
\* way, and the end of one opens the page to clicks while a dialog is asked
\* for: its boxes can come into the dialog of another institution.)
DecisionIsOfInstitution ==
    mishaps = {} /\ ~view.crowded => \A i \in DOMAIN calls : calls[i].answer = Waiting =>
        /\ calls[i].op = "review" =>
              calls[i].arg.approved \subseteq server.applied[calls[i].arg.institutions]
        /\ calls[i].op = "cancel" =>
              calls[i].arg.cancelled \subseteq server.granted[calls[i].arg.institutions]

\* The overlay that getinitinstitutions raises ("raise loading"), comes down
\* again ("lower loading"): it never outlives the requests of the page.
OverlayEnds == busy => calls # <<>>
=============================================================================
