----------------------------- MODULE SiteDetail -----------------------------
(***************************************************************************)
(* FATE Manager's page of a site (sitedetail.vue).  The network section    *)
(* is edited and sent to Cloud Manager for review: the page then polls     *)
(* every three seconds until the case is decided and tells the user.  When *)
(* the addresses of the rollsite change they are tested first; when        *)
(* nothing else changes they are stored without a review.  The cluster     *)
(* section holds the address of FATE Flow, which is tested as it is sent.  *)
(* Cloud Manager can have changed the network in the meantime: the page    *)
(* shows the news in a dialog, whose button takes them over.               *)
(*                                                                         *)
(* The form keeps what was loaded in Old, to which a cancelled edit goes   *)
(* back, and the switches in a copy that only a submit brings up to date.  *)
(* Two fields of view are history since the site was loaded: accepted, news *)
(* were taken over, and dismissed, a notice was closed by its cross.       *)
(***************************************************************************)
EXTENDS Page, SequencesExt

\* "lists" stands for the users of the site and the enumerations.
Requests == {"getSiteInfo", "lists", "update", "readmsg", "getmsg", "testrollsite"}

Texts == {"entrances", "exits", "rollsite"}
Switches == {"secureStatus", "pollingStatus"}
Network == Texts \cup Switches

\* editStatus: 1 under review, 2 open for an edit.
UnderReview == 1
Editable == 2

-----------------------------------------------------------------------------
(* The two sides write a switch differently: getStatus turns either form   *)
(* into the other.                                                         *)

\* Mutated form: off is taken for 0.
toCodeZero(on) == IF on THEN 1 ELSE 0

toCode(on) == IF on THEN 1 ELSE 2
toSwitch(code) == code = 1

\* The fields as the form holds them, of what the manager stores.
FormOf(site) ==
    [f \in Network \cup {"fateFlowIp"} |-> IF f \in Switches THEN toSwitch(site[f]) ELSE site[f]]
DataOf(form) ==
    [f \in DOMAIN form |-> IF f \in Switches THEN toCode(form[f]) ELSE form[f]]

verifiAllchange(v) == \A f \in Network : v.form[f] = v.old[f]

NoNews == <<>>
NoCase == <<>>
Stored == [entrances |-> "loaded", exits |-> "loaded", rollsite |-> "loaded",
           secureStatus |-> 2, pollingStatus |-> 2, fateFlowIp |-> ""]

-----------------------------------------------------------------------------
togetMsg == <<AskQuietly("getmsg", "")>>

\* With the mark, the question says that the news were read.
initInfo == <<Ask("getSiteInfo", FALSE), Ask("lists", "")>>
markRead == <<Ask("getSiteInfo", TRUE), Ask("lists", "")>>

\* The dialogs that are open, the one opened last on top.
Opened(dialogs, d) == IF Contains(dialogs, d) THEN dialogs ELSE Append(dialogs, d)
Closed(dialogs, d) == RemoveFirst(dialogs, d)
Top(v) == IF v.dialogs = <<>> THEN "page" ELSE Last(v.dialogs)

\* The server keeps what Cloud Manager changed, news, until it is taken over.
Init ==
    /\ server \in [site : {Stored}, rollsiteNew : {""}, case : {NoCase, DataOf(FormOf(Stored))},
                   editStatus : {UnderReview, Editable}, readStatus : {0},
                   news : {NoNews, [entrances |-> "news"], [secureStatus |-> 1]}]
    /\ (server.editStatus = UnderReview) = (server.case # NoCase)
    /\ view = [form |-> FormOf(Stored), old |-> FormOf(Stored), copy |-> FormOf(Stored),
               news |-> NoNews, ready |-> FALSE, tosubmit |-> TRUE, editSubmitted |-> 1,
               clusterEditSubmitted |-> 1, dialogs |-> <<>>, rollsiteStatus |-> 1,
               flowStatus |-> 1, timers |-> 0, accepted |-> FALSE, dismissed |-> FALSE]
    /\ Created(initInfo)

-----------------------------------------------------------------------------
(* The watchers of the form.                                               *)

FlowWatched(v, w) ==
    IF w.form.fateFlowIp \notin {"", v.form.fateFlowIp} THEN [w EXCEPT !.tosubmit = FALSE] ELSE w
Watched(v, w) ==
    IF \E f \in Switches : w.form[f] # v.form[f]
    THEN [w EXCEPT !.tosubmit = verifiAllchange(w)]
    ELSE FlowWatched(v, w)

-----------------------------------------------------------------------------
(* The sections.                                                           *)

\* The pencil of a section is dead while the other section is in edit.
toEditSite ==
    /\ Top(view) = "page" /\ view.ready
    /\ view.editSubmitted = 1 /\ view.clusterEditSubmitted # 2
    /\ Click(<<>>)
    /\ view' = [view EXCEPT !.tosubmit = TRUE, !.editSubmitted = 2]

toEditCluster ==
    /\ Top(view) = "page" /\ view.ready
    /\ view.clusterEditSubmitted = 1 /\ view.editSubmitted # 2
    /\ Click(<<>>)
    /\ view' = [view EXCEPT !.tosubmit = TRUE, !.clusterEditSubmitted = 2]

\* updateIp: the dialog of the addresses writes a field.
updateIp(f, addresses) ==
    /\ Top(view) = "page" /\ view.editSubmitted = 2 /\ addresses # view.form[f]
    /\ Click(<<>>)
    /\ view' = LET w == [view EXCEPT !.form[f] = addresses]
               IN [w EXCEPT !.tosubmit = verifiAllchange(w)]

Turn(f) ==
    /\ Top(view) = "page" /\ view.editSubmitted = 2
    /\ Click(<<>>)
    /\ view' = Watched(view, [view EXCEPT !.form[f] = ~@])

EnterFlow(address) ==
    /\ Top(view) = "page" /\ view.clusterEditSubmitted = 2 /\ address # view.form.fateFlowIp
    /\ Click(<<>>)
    /\ view' = Watched(view, [view EXCEPT !.form.fateFlowIp = address])

cancelSite ==
    /\ Top(view) = "page" /\ view.editSubmitted = 2
    /\ Click(<<>>)
    /\ view' = [view EXCEPT !.form = [f \in DOMAIN @ |-> IF f \in Network THEN view.old[f] ELSE @[f]],
                            !.copy = view.old, !.editSubmitted = 1, !.tosubmit = TRUE]

cancelCluster ==
    /\ Top(view) = "page" /\ view.clusterEditSubmitted = 2
    /\ Click(<<>>)
    /\ view' = Watched(view, [view EXCEPT !.form.fateFlowIp = view.old.fateFlowIp,
                                          !.clusterEditSubmitted = 1, !.tosubmit = TRUE])

-----------------------------------------------------------------------------
(* Submitting.                                                             *)

Update(kind, form) == [kind |-> kind, data |-> DataOf(form)]

\* What is missing is marked and sent all the same.
CanSubmit == Top(view) = "page" /\ view.editSubmitted = 2 /\ ~view.tosubmit

\* Mutated form: the copy of the switches is not brought up to date.
submitSiteStale ==
    /\ CanSubmit /\ view.form.rollsite = view.old.rollsite
    /\ Click(<<>>)
    /\ view' = [view EXCEPT !.dialogs = Opened(@, "change")]

submitSite ==
    /\ CanSubmit /\ view.form.rollsite = view.old.rollsite
    /\ Click(<<>>)
    /\ view' = [view EXCEPT !.copy = view.form, !.dialogs = Opened(@, "change")]

\* Nothing happens when all the addresses of the rollsite are gone.
testrollsite ==
    /\ CanSubmit /\ view.form.rollsite \notin {"", view.old.rollsite}
    /\ Click(<<AskQuietly("testrollsite", view.form.rollsite)>>)
    /\ view' = [view EXCEPT !.rollsiteStatus = 1, !.dialogs = Opened(@, "rollsite")]

\* The address may be empty: then it is not what the manager takes for one.
submitCluster ==
    /\ Top(view) = "page" /\ view.clusterEditSubmitted = 2 /\ ~view.tosubmit
    /\ Click(<<Ask("update", Update("flow", view.form))>>)
    /\ view' = [view EXCEPT !.flowStatus = 1, !.dialogs = Opened(@, "flow")]

\* The switches are sent from the copy, the texts from the form.
okAction ==
    /\ Top(view) = "change"
    /\ Click(<<Ask("update", Update("site", [f \in DOMAIN view.form |->
                                 IF f \in Switches THEN view.copy[f] ELSE view.form[f]]))>>)
    /\ UNCHANGED view

\* With anything but the rollsite changed there is a review; whether a
\* switch is changed is seen in the copy.
NeedsReview(v) ==
    \/ \E f \in {"entrances", "exits"} : v.form[f] # v.old[f]
    \/ \E f \in Switches : v.copy[f] # v.old[f]

rollsiteOk ==
    /\ Top(view) = "rollsite" /\ view.rollsiteStatus # 1
    /\ LET w == [view EXCEPT !.dialogs = Closed(@, "rollsite")]
       IN IF view.rollsiteStatus = 2 /\ NeedsReview(view)
          THEN Click(<<>>) /\ view' = [w EXCEPT !.dialogs = Opened(@, "change")]
          ELSE /\ view' = w
               /\ Click(IF view.rollsiteStatus = 2
                        THEN <<Ask("update", Update("rollsite", view.form))>> ELSE <<>>)

flowOk ==
    /\ Top(view) = "flow" /\ view.flowStatus # 1
    /\ Click(IF view.flowStatus = 2 THEN initInfo ELSE <<>>)
    /\ view' = [view EXCEPT !.dialogs = Closed(@, "flow"),
                            !.clusterEditSubmitted = IF view.flowStatus = 2 THEN 1 ELSE @]

\* The notice of a decision is read.
notice ==
    /\ Top(view) = "notice"
    /\ Click(<<Ask("readmsg", 3)>>)
    /\ view' = [view EXCEPT !.dialogs = Closed(@, "notice")]

\* The news go into the form, not into Old.
updateNew ==
    /\ Top(view) = "news"
    /\ Click(markRead)
    /\ view' = Watched(view, [view EXCEPT !.accepted = TRUE, !.dialogs = Closed(@, "news"),
                   !.form = [f \in DOMAIN @ |-> IF f \notin DOMAIN view.news THEN @[f]
                                ELSE IF f \in Switches THEN toSwitch(view.news[f]) ELSE view.news[f]]])

\* The cross of a dialog; a test that has no result yet has none.
CanClose(v) ==
    CASE Top(v) = "rollsite" -> v.rollsiteStatus # 1
      [] Top(v) = "flow" -> v.flowStatus # 1
      [] OTHER -> TRUE

CloseDialog(d) ==
    /\ Top(view) = d /\ CanClose(view)
    /\ Click(<<>>)
    /\ view' = [view EXCEPT !.dialogs = Closed(@, d), !.dismissed = @ \/ d = "notice"]

-----------------------------------------------------------------------------
(* The manager.                                                            *)

Taken(site, news) ==
    [f \in DOMAIN site |-> IF f \in DOMAIN news THEN news[f] ELSE site[f]]

\* The news are taken over by the question that marks them as read.
ServeInfo(i) ==
    /\ calls[i].op = "getSiteInfo"
    /\ Reply(i, Ok([site |-> server.site, editStatus |-> server.editStatus, news |-> server.news]))
    /\ server' = IF calls[i].arg THEN [server EXCEPT !.news = NoNews, !.site = Taken(@, server.news)]
                                ELSE server

\* A site under review takes no edit.
ServeUpdate(i) ==
    LET data == calls[i].arg.data
    IN /\ calls[i].op = "update"
       /\ CASE calls[i].arg.kind = "flow" /\ data.fateFlowIp # "" ->
                 \/ Reply(i, Ok("success")) /\ server' = [server EXCEPT !.site.fateFlowIp = data.fateFlowIp]
                 \/ Reply(i, Ok("failed")) /\ UNCHANGED server
            [] calls[i].arg.kind = "rollsite" /\ server.editStatus = Editable ->
                 Reply(i, Ok("")) /\ server' = [server EXCEPT !.site.rollsite = data.rollsite]
            [] calls[i].arg.kind = "site" /\ server.editStatus = Editable ->
                 /\ Reply(i, Ok(""))
                 /\ server' = [server EXCEPT !.case = data, !.editStatus = UnderReview, !.rollsiteNew =
                                 IF data.rollsite \in {"", server.site.rollsite} THEN @ ELSE data.rollsite]
            [] OTHER -> Reply(i, Refused) /\ UNCHANGED server

ServeMsg(i) ==
    /\ calls[i].op = "getmsg"
    /\ Reply(i, Ok([editStatus |-> server.editStatus, readStatus |-> server.readStatus]))
    /\ UNCHANGED server

ServeRead(i) ==
    /\ calls[i].op = "readmsg"
    /\ Reply(i, Ok(""))
    /\ server' = [server EXCEPT !.readStatus = calls[i].arg]

ServeTest(i) ==
    /\ calls[i].op = "testrollsite"
    /\ \E result \in {"success", "failed"} : Reply(i, Ok(result))
    /\ UNCHANGED server

\* Cloud Manager's decision arrives: agreed to, the case becomes the site,
\* without what is empty in it.
Agreed(s) ==
    LET told == {f \in {"entrances", "exits"} : s.case[f] # ""}
                    \cup IF s.case.entrances # "" THEN Switches ELSE {}
        site == [f \in DOMAIN s.site |-> IF f \in told THEN s.case[f] ELSE s.site[f]]
    IN IF s.rollsiteNew = "" THEN site ELSE [site EXCEPT !.rollsite = s.rollsiteNew]

Decide(decision) ==
    /\ server.editStatus = UnderReview
    /\ UserActs
    /\ server' = [server EXCEPT !.editStatus = Editable, !.readStatus = decision, !.case = NoCase,
                    !.site = IF decision = 1 THEN Agreed(server) ELSE @,
                    !.rollsiteNew = IF decision = 1 THEN "" ELSE @]
    /\ UNCHANGED <<view, calls, busy, mishaps>>

-----------------------------------------------------------------------------
(* Answers.                                                                *)

\* The first part of the answer: the form and what an edit goes back to.
Loaded(v, site) ==
    [v EXCEPT !.form = FormOf(site), !.old = FormOf(site), !.copy = FormOf(site),
              !.ready = TRUE, !.accepted = FALSE, !.dismissed = FALSE]

InfoThen(i) ==
    /\ Got(i, "getSiteInfo") /\ ~calls[i].arg
    /\ LET w == Watched(view, Loaded(view, Data(i).site))
           pending == Data(i).editStatus = UnderReview
       IN /\ view' = [w EXCEPT !.editSubmitted = IF pending THEN 3 ELSE 1, !.news = Data(i).news,
                               !.dialogs = IF Data(i).news = NoNews THEN @ ELSE Opened(@, "news")]
          /\ Handled(i, IF pending THEN togetMsg ELSE <<>>)

MarkedThen(i) ==
    /\ Got(i, "getSiteInfo") /\ calls[i].arg
    /\ Handled(i, <<>>)
    /\ UNCHANGED view

ListsThen(i) ==
    /\ Arrives(i, "lists")
    /\ Handled(i, <<>>)
    /\ UNCHANGED view

\* Mutated form: a site under review is asked about once.
MsgThenOnce(i) ==
    /\ Got(i, "getmsg")
    /\ view' = CASE Data(i).editStatus = UnderReview -> view
                 [] Data(i).editStatus = Editable /\ Data(i).readStatus \in {1, 2} ->
                      [view EXCEPT !.dialogs = Opened(@, "notice")]
                 [] OTHER -> [view EXCEPT !.dialogs = Closed(@, "notice")]
    /\ Handled(i, <<>>)

\* It is asked again in three seconds until the case is decided.
MsgThen(i) ==
    /\ Got(i, "getmsg")
    /\ view' = CASE Data(i).editStatus = UnderReview -> [view EXCEPT !.timers = @ + 1]
                 [] Data(i).editStatus = Editable /\ Data(i).readStatus \in {1, 2} ->
                      [view EXCEPT !.dialogs = Opened(@, "notice")]
                 [] OTHER -> [view EXCEPT !.dialogs = Closed(@, "notice")]
    /\ Handled(i, <<>>)

PollTimer ==
    /\ view.timers > 0
    /\ view' = [view EXCEPT !.timers = @ - 1]
    /\ Sends(togetMsg)
    /\ UNCHANGED steps

\* The timer set last is taken back, the only one there should be.
ReadThen(i) ==
    /\ Got(i, "readmsg")
    /\ view' = [view EXCEPT !.timers = IF @ > 0 THEN @ - 1 ELSE 0, !.dialogs = Closed(@, "notice")]
    /\ Handled(i, initInfo)

UpdateThen(i) ==
    /\ Got(i, "update") /\ calls[i].arg.kind # "flow"
    /\ view' = [view EXCEPT !.dialogs = Closed(@, IF calls[i].arg.kind = "site" THEN "change" ELSE "")]
    /\ Handled(i, initInfo)

updateFateflow(i) ==
    /\ Got(i, "update") /\ calls[i].arg.kind = "flow"
    /\ view' = [view EXCEPT !.flowStatus = IF Data(i) = "success" THEN 2 ELSE 3]
    /\ Handled(i, <<>>)

TestThen(i) ==
    /\ Got(i, "testrollsite")
    /\ view' = [view EXCEPT !.rollsiteStatus = IF Data(i) = "success" THEN 2 ELSE 3]
    /\ Handled(i, <<>>)

\* A test that fails altogether closes its dialog.
TestFails(i) ==
    /\ calls[i].answer \in {Failed, Refused}
    /\ \/ calls[i].op = "testrollsite" /\ view' = [view EXCEPT !.dialogs = Closed(@, "rollsite")]
       \/ /\ calls[i].op = "update" /\ calls[i].arg.kind = "flow"
          /\ view' = [view EXCEPT !.dialogs = Closed(@, "flow")]
    /\ Handled(i, <<>>)

NoHandler(i) ==
    /\ calls[i].op # "testrollsite" /\ (calls[i].op = "update" => calls[i].arg.kind # "flow")
    /\ Ignores(i)

-----------------------------------------------------------------------------
NetworkSection ==
    \/ toEditSite \/ cancelSite \/ submitSite \/ testrollsite
    \/ \E f \in Switches : Turn(f)
    \/ \E f \in Texts, addresses \in {"", "entered"} : updateIp(f, addresses)
ClusterSection ==
    \/ toEditCluster \/ cancelCluster \/ submitCluster
    \/ \E address \in {"", "entered"} : EnterFlow(address)
Dialogs ==
    \/ okAction \/ rollsiteOk \/ flowOk \/ notice
    \/ \E d \in {"notice", "change", "rollsite", "flow"} : CloseDialog(d)
NewsDialog == updateNew \/ CloseDialog("news")

Next ==
    \/ NetworkSection \/ ClusterSection \/ Dialogs \/ NewsDialog \/ PollTimer
    \/ \E decision \in {1, 2} : Decide(decision)
    \/ \E i \in DOMAIN calls :
          \/ ServeInfo(i) \/ ServeUpdate(i) \/ ServeMsg(i) \/ ServeRead(i) \/ ServeTest(i)
          \/ InfoThen(i) \/ MarkedThen(i) \/ ListsThen(i) \/ MsgThen(i) \/ ReadThen(i)
          \/ UpdateThen(i) \/ updateFateflow(i) \/ TestThen(i) \/ TestFails(i)
          \/ Fail(i) \/ NoHandler(i)

Spec == Init /\ [][Next]_pageVars

-----------------------------------------------------------------------------
\* A page that says "under review" is on its way to the decision: it asks,
\* will ask, or shows the notice, unless a request failed on the way, the
\* user closed the notice without reading it, or an older answer about the
\* site came last.
WaitsForDecision ==
    view.editSubmitted = 3 /\ mishaps \cap {"failed", "crossed"} = {} /\ ~view.dismissed =>
        \/ view.timers > 0
        \/ Contains(view.dialogs, "notice")
        \/ \E i \in DOMAIN calls : calls[i].op \in {"getmsg", "readmsg", "getSiteInfo"}

\* Out of edit the form is what was loaded: cancelling an edit leaves
\* nothing of it behind that a later submit would send.  News that were
\* taken over are the exception: they are in the form only, so that a cancel
\* brings back what they replaced.
CancelRestores ==
    /\ view.editSubmitted # 2 /\ view.clusterEditSubmitted # 2 /\ ~view.accepted
    /\ "failed" \notin mishaps /\ \A i \in DOMAIN calls : calls[i].op # "getSiteInfo"
    => view.form = view.old

\* What is sent for review is what the form shows, switches and addresses.
\* When the rollsite was edited too, the switches sent are those of the last
\* submit without it; news that are taken over while the submission is asked
\* about reach the form and not the switches that are sent.
SentAsEdited ==
    [][\A i \in DOMAIN calls' :
          i > Len(calls) /\ calls'[i].op = "update" /\ calls'[i].arg.kind = "site"
          /\ view.form.rollsite = view.old.rollsite /\ ~view.accepted =>
              calls'[i].arg.data = DataOf(view.form)]_pageVars
=============================================================================
