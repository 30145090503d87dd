---------------------------- MODULE ManagerSites ----------------------------
(***************************************************************************)
(* FATE Manager's page of its sites (sitemanage.vue): its own sites and    *)
(* those of the institutions it may see, the application to see more, and  *)
(* the registration of a site.  getList asks for everything at once and is *)
(* what every pager of the page calls.                                     *)
(*                                                                         *)
(* An application can be sent while none is waiting: applyStatus is 1      *)
(* while one is, 3 when none is, and 2 from the moment a decision is read  *)
(* until the list is back.  changed is history: a decision came since the  *)
(* state of the applications was asked for.                                *)
(***************************************************************************)
EXTENDS Page, SequencesExt

CONSTANT Others   \* the other institutions

\* "sites" stands for the two lists of sites and for the institutions that may
\* see the page's own; "fatemanager" is the poll of the last.
Requests == {"sites", "fatemanager", "queryapply", "noticeapplysite", "getInstitutions",
             "applysite", "readapplysite", "applylog", "checkUrl"}

\* What is typed as the link of a site.
Links == {"", "valid", "invalid"}

-----------------------------------------------------------------------------
(* Cloud Manager's applications of the institution, and the decisions of   *)
(* which the user has not been told.                                       *)

Pending(s) == {n \in Others : s.status[n] = "pending"}

getList == <<Ask("sites", ""), Ask("queryapply", "")>>

Init ==
    /\ server \in [status : [Others -> {"none", "pending", "agreed"}], notices : {{}, {CHOOSE n \in Others : TRUE}}]
    /\ view = [joined |-> FALSE, applyStatus |-> 3, showapplyBtn |-> FALSE,
               dialogs |-> {}, checkboxList |-> {}, checkList |-> {}, applyed |-> {},
               siteHistoryList |-> <<>>, link |-> "", disabledbtn |-> TRUE, warnActive |-> FALSE,
               changed |-> FALSE]
    /\ Created(getList \o <<Ask("noticeapplysite", ""), Ask("getInstitutions", "button")>>)

-----------------------------------------------------------------------------
Free(v) == v.dialogs = {}
Asked(v) == [v EXCEPT !.changed = FALSE]

\* The button of the page and every pager of it, that of the history too: the
\* page chosen is left out.
handleCurrentChange ==
    /\ Free(view)
    /\ view' = Asked(view)
    /\ Click(getList)

\* Every five seconds it is asked who may see the sites; the bound is one
\* such question at a time.
PollTimer ==
    /\ Len(calls) < MaxCalls
    /\ "left" \notin view.dialogs
    /\ ~\E i \in DOMAIN calls : calls[i].op = "fatemanager"
    /\ Sends(<<AskQuietly("fatemanager", "")>>)
    /\ UNCHANGED <<view, steps>>

\* The application has a place on the page once the institution has a site.
ApplyZone(v) == Free(v) /\ v.joined /\ v.applyStatus = 3

showApply ==
    /\ ApplyZone(view) /\ view.showapplyBtn
    /\ Click(<<Ask("getInstitutions", "dialog")>>)
    /\ view' = [view EXCEPT !.checkList = {}]

\* The rows go at once; the pager of the history does not ask for them.
gethistory ==
    /\ ApplyZone(view)
    /\ Click(<<Ask("applylog", "")>>)
    /\ view' = [view EXCEPT !.siteHistoryList = <<>>]

\* An institution that agreed cannot be checked.
Check(n) ==
    /\ "apply" \in view.dialogs
    /\ n \in {box.name : box \in {b \in view.checkboxList : ~b.disable}}
    /\ Click(<<>>)
    /\ view' = [view EXCEPT !.checkList = IF n \in @ THEN @ \ {n} ELSE @ \cup {n}]

\* One that has ever agreed since the page was entered is left out, even
\* when it has cancelled since.
toApply ==
    /\ "apply" \in view.dialogs
    /\ Click(<<Ask("applysite", view.checkList \ view.applyed)>>)
    /\ UNCHANGED view

CloseApply ==
    /\ "apply" \in view.dialogs
    /\ Click(<<>>)
    /\ view' = [view EXCEPT !.dialogs = @ \ {"apply"}]

\* The notice of the decisions; its cross does not tell that it was read.
toapplynotpass ==
    /\ "notice" \in view.dialogs
    /\ Click(<<Ask("readapplysite", "")>>)
    /\ UNCHANGED view

CloseNotice ==
    /\ "notice" \in view.dialogs
    /\ Click(<<>>)
    /\ view' = [view EXCEPT !.dialogs = @ \ {"notice"}]

-----------------------------------------------------------------------------
(* The dialog in which the link of a site is entered (siteregister.vue).   *)

\* The watcher of the link: a valid one enables the button, which only an
\* empty field disables again, and a warning stays until then as well.
LinkWatched(v) ==
    CASE v.link = "" -> [v EXCEPT !.disabledbtn = TRUE, !.warnActive = FALSE]
      [] v.link = "valid" -> [v EXCEPT !.disabledbtn = FALSE]
      [] v.link = "invalid" -> [v EXCEPT !.warnActive = TRUE]

toAddSite ==
    /\ Free(view)
    /\ Click(<<>>)
    /\ view' = LinkWatched([view EXCEPT !.dialogs = @ \cup {"register"}, !.link = ""])

EnterLink(link) ==
    /\ "register" \in view.dialogs /\ link # view.link
    /\ Click(<<>>)
    /\ view' = LinkWatched([view EXCEPT !.link = link])

okAction ==
    /\ "register" \in view.dialogs /\ ~view.disabledbtn
    /\ Click(<<Ask("checkUrl", view.link)>>)
    /\ UNCHANGED view

cancelAction ==
    /\ "register" \in view.dialogs
    /\ Click(<<>>)
    /\ view' = [view EXCEPT !.dialogs = @ \ {"register"}]

-----------------------------------------------------------------------------
(* Cloud Manager and the other institutions.                               *)

ServeState(i) ==
    /\ calls[i].op = "queryapply"
    /\ Reply(i, Ok(Pending(server)))
    /\ UNCHANGED server

ServeInstitutions(i) ==
    /\ calls[i].op = "getInstitutions"
    /\ Reply(i, Ok({[name |-> n, disable |-> server.status[n] = "agreed"] : n \in Others}))
    /\ UNCHANGED server

ServeApply(i) ==
    /\ calls[i].op = "applysite"
    /\ Reply(i, Ok(""))
    /\ server' = [server EXCEPT !.status = [n \in Others |->
                                  IF n \in calls[i].arg THEN "pending" ELSE @[n]]]

ServeRead(i) ==
    /\ calls[i].op = "readapplysite"
    /\ Reply(i, Ok(""))
    /\ server' = [server EXCEPT !.notices = {}]

\* An institution decides about an application, or takes back its consent.
Decides(n, status) ==
    /\ \/ server.status[n] = "pending" /\ status \in {"agreed", "none"}
       \/ server.status[n] = "agreed" /\ status = "none"
    /\ UserActs
    /\ server' = [server EXCEPT !.status[n] = status, !.notices = @ \cup {n}]
    /\ view' = [view EXCEPT !.changed = TRUE]
    /\ UNCHANGED <<calls, busy, mishaps>>

-----------------------------------------------------------------------------
SitesThen(i) ==
    /\ Arrives(i, "sites")
    /\ view' = [view EXCEPT !.joined = TRUE]
    /\ Handled(i, <<>>)

PollThen(i) ==
    /\ Arrives(i, "fatemanager")
    /\ Handled(i, <<>>)
    /\ UNCHANGED view

StateThen(i) ==
    /\ Got(i, "queryapply")
    /\ view' = [view EXCEPT !.applyStatus = IF Data(i) # {} THEN 1 ELSE 3]
    /\ Handled(i, <<>>)

NoticeThen(i) ==
    /\ Arrives(i, "noticeapplysite")
    /\ view' = [view EXCEPT !.dialogs = IF server.notices # {} THEN @ \cup {"notice"} ELSE @]
    /\ Handled(i, <<>>)

InstitutionsThen(i) ==
    /\ Got(i, "getInstitutions")
    /\ view' = IF calls[i].arg = "button" THEN [view EXCEPT !.showapplyBtn = Data(i) # {}]
               ELSE [view EXCEPT !.checkboxList = Data(i), !.dialogs = @ \cup {"apply"},
                                 !.applyed = @ \cup {b.name : b \in {c \in Data(i) : c.disable}}]
    /\ Handled(i, <<>>)

\* Mutated form: the page is not asked for again.
ApplyThenOnly(i) ==
    /\ Got(i, "applysite")
    /\ view' = [view EXCEPT !.dialogs = @ \ {"apply"}]
    /\ Handled(i, <<>>)

ApplyThen(i) ==
    /\ Got(i, "applysite")
    /\ view' = Asked([view EXCEPT !.dialogs = @ \ {"apply"}])
    /\ Handled(i, getList)

ReadThen(i) ==
    /\ Got(i, "readapplysite")
    /\ view' = Asked([view EXCEPT !.applyStatus = 2, !.dialogs = @ \ {"notice"}])
    /\ Handled(i, getList)

HistoryThen(i) ==
    /\ Arrives(i, "applylog")
    /\ view' = [view EXCEPT !.siteHistoryList = Append(@, "page 1")]
    /\ Handled(i, <<>>)

\* The user goes on to the activation: the page is left.
CheckUrlThen(i) ==
    /\ Arrives(i, "checkUrl")
    /\ calls[i].arg = "valid"
    /\ view' = [view EXCEPT !.dialogs = {"left"}]
    /\ calls' = <<>> /\ busy' = FALSE
    /\ UNCHANGED <<server, steps, mishaps>>

-----------------------------------------------------------------------------
OwnList == handleCurrentChange \/ toAddSite
Application == showApply \/ gethistory
ApplyDialog == toApply \/ CloseApply \/ \E n \in Others : Check(n)
NoticeDialog == toapplynotpass \/ CloseNotice
RegisterDialog == okAction \/ cancelAction \/ \E link \in Links : EnterLink(link)

Next ==
    \/ OwnList \/ Application \/ ApplyDialog \/ NoticeDialog \/ RegisterDialog
    \/ PollTimer
    \/ \E n \in Others, status \in {"agreed", "none"} : Decides(n, status)
    \/ \E i \in DOMAIN calls :
          \/ ServeState(i) \/ ServeInstitutions(i) \/ ServeApply(i) \/ ServeRead(i)
          \/ SitesThen(i) \/ PollThen(i) \/ StateThen(i) \/ NoticeThen(i) \/ InstitutionsThen(i)
          \/ ApplyThen(i) \/ ReadThen(i) \/ HistoryThen(i) \/ CheckUrlThen(i)
          \/ Fail(i) \/ Ignores(i)

Spec == Init /\ [][Next]_pageVars

-----------------------------------------------------------------------------
\* The form of a second application is not opened while one waits for its
\* decision: the page learns of the first before it offers the next, unless
\* the user is faster than the answer that says so, which on entering the
\* page the user can be.
OneApplication ==
    [][\A i \in DOMAIN calls' :
          (i > Len(calls) /\ calls'[i].op = "getInstitutions" /\ calls'[i].arg = "dialog"
             /\ Pending(server) # {}) =>
              \/ mishaps \cap {"failed", "crossed"} # {}
              \/ \E k \in DOMAIN calls : calls[k].op \in {"applysite", "queryapply"}]_pageVars

\* With everything answered the page knows whether an application waits, as
\* of when it asked, and offers the next exactly when none does.
StatusIsCurrent ==
    calls = <<>> /\ "left" \notin view.dialogs /\ ~view.changed /\ mishaps \cap {"failed", "crossed"} = {} =>
        view.applyStatus = IF Pending(server) # {} THEN 1 ELSE 3

\* The history is one page of it, never the same rows twice, unless it was
\* asked for again before it came.
HistoryOnce ==
    "overlapped" \notin mishaps => Len(view.siteHistoryList) <= 1
=============================================================================
