---------------------------- MODULE Certificates ----------------------------
(***************************************************************************)
(* The page of the certificates (certificate.vue): the table, the form     *)
(* that adds or edits one, the publication and the revocation.  The form   *)
(* is the row it was opened with, its status included, and it is sent as   *)
(* it is; what is entered as a list is turned into a text as it is sent,   *)
(* and a failure turns only the sites back.  Two fields of view are        *)
(* history: asked, the search of the last list, and missed, the form was   *)
(* opened while a publication was under way.                               *)
(***************************************************************************)
EXTENDS Page, SequencesExt

CONSTANT Institutions   \* the institutions with certificates

PageSize == 1
Statuses == {"Unpublished", "Valid", "Revoked"}
SitesOf == [n \in Institutions |-> {<<n, 1>>}]
Sites == UNION {SitesOf[n] : n \in Institutions}

\* "options" stands for the three requests of the drop-downs.
Requests == {"getCertiCate", "options", "siteListAll", "addCertificate", "updateCertificate",
             "publishCert", "invalidateCert"}

Certificate(id, status, institution, sites) ==
    [id |-> id, status |-> status, institution |-> institution, siteAuthority |-> sites,
     validity |-> "text"]

-----------------------------------------------------------------------------
\* The rows of a status, or all, in the order of their ids.
Found(status) ==
    SetToSortSeq({c \in server : status \in {"", c.status}}, LAMBDA a, b : a.id < b.id)
ListOf(query) == [records |-> Chunk(Found(query.status), PageSize, query.pageNum),
                  total |-> Len(Found(query.status))]

initList(v) == <<Ask("getCertiCate", v.data)>>
Asked(v) == [v EXCEPT !.asked = v.data]
NoForm == Certificate(0, "", "", {})

Init ==
    /\ server \in {{Certificate(1, s, n, SitesOf[n])} : s \in Statuses, n \in Institutions}
    /\ view = [data |-> [pageNum |-> 1, status |-> ""], asked |-> [pageNum |-> 1, status |-> ""],
               certificateData |-> <<>>, total |-> 0, type |-> "", addfrom |-> NoForm,
               joined |-> FALSE, siteSelect |-> {}, dialog |-> "none", params |-> 0]
    /\ Created(initList(view) \o <<Ask("options", "")>>)

Free(v) == v.dialog = "none"

\* The buttons of a row are those of its status.
RowControls(row) ==
    CASE row.status = "Unpublished" -> {"publish", "edit"}
      [] row.status = "Valid" -> {"revoke", "edit"}
      [] OTHER -> {}

\* Of one that is valid only the notes can be edited.
FormControls(v) ==
    IF v.dialog # "form" THEN {}
    ELSE {"save", "cancel"} \cup (IF v.addfrom.status = "Valid" THEN {} ELSE {"institution", "sites"})

SetFilter(status) ==
    /\ Free(view) /\ status # view.data.status
    /\ Click(<<>>)
    /\ view' = [view EXCEPT !.data.status = status]

toSearch ==
    /\ Free(view)
    /\ view' = Asked([view EXCEPT !.data.pageNum = 1])
    /\ Click(initList(view'))

handleCurrentChange(page) ==
    /\ Free(view) /\ page # view.data.pageNum
    /\ view' = Asked([view EXCEPT !.data.pageNum = page])
    /\ Click(initList(view'))

\* The sites offered stay those of the last institution.
toAdd ==
    /\ Free(view)
    /\ Click(<<>>)
    /\ view' = [view EXCEPT !.type = "add", !.dialog = "form", !.joined = FALSE,
                            !.addfrom = [NoForm EXCEPT !.validity = "list"]]

togetSite(institution) ==
    /\ "institution" \in FormControls(view)
    /\ institution # view.addfrom.institution
    /\ Click(<<Ask("siteListAll", institution)>>)
    /\ view' = [view EXCEPT !.addfrom.institution = institution, !.addfrom.siteAuthority = {},
                            !.joined = FALSE, !.siteSelect = {}]

ChooseSite(site) ==
    /\ "sites" \in FormControls(view) /\ ~view.joined
    /\ site \in view.siteSelect /\ site \notin view.addfrom.siteAuthority
    /\ Click(<<>>)
    /\ view' = [view EXCEPT !.addfrom.siteAuthority = @ \cup {site}]

\* The form is a copy of the row; one that is not published has its period
\* to be picked.
toEdit(row) ==
    /\ Free(view) /\ "edit" \in RowControls(row)
    /\ Click(<<Ask("siteListAll", row.institution)>>)
    /\ view' = [view EXCEPT !.type = "edit", !.dialog = "form", !.siteSelect = {}, !.joined = FALSE,
                            !.addfrom = [row EXCEPT !.validity =
                                           IF row.status = "Valid" THEN "text" ELSE "list"]]

\* The list of the period becomes its text; a text that is taken apart once
\* more becomes its first two digits.
Text(validity) == IF validity = "list" THEN "text" ELSE "digits"
Sent(v) ==
    [v.addfrom EXCEPT !.validity = IF v.type = "edit" /\ v.addfrom.status = "Valid" THEN @
                                   ELSE Text(@)]

\* Mutated form: the request is named by the type of the form.
toSaveType ==
    /\ "save" \in FormControls(view) /\ view.addfrom.institution # "" /\ ~view.joined
    /\ view' = [view EXCEPT !.addfrom = Sent(view), !.joined = view.addfrom.siteAuthority # {}]
    /\ Click(<<Ask(view.type, view'.addfrom)>>)

\* Sites that are a text already, of an attempt that is not answered, are a
\* type error.
toSave ==
    /\ "save" \in FormControls(view) /\ view.addfrom.institution # "" /\ ~view.joined
    /\ view' = [view EXCEPT !.addfrom = Sent(view), !.joined = view.addfrom.siteAuthority # {}]
    /\ Click(<<Ask(IF view.type = "add" THEN "addCertificate" ELSE "updateCertificate",
                   view'.addfrom)>>)

toCancel ==
    /\ "cancel" \in FormControls(view)
    /\ Click(<<>>)
    /\ view' = [view EXCEPT !.dialog = "none"]

\* Publish or revoke the row, which is asked once more.
toPublish(row) ==
    /\ Free(view) /\ "publish" \in RowControls(row)
    /\ Click(<<>>)
    /\ view' = [view EXCEPT !.dialog = "publish", !.params = row.id]
toInvalidate(row) ==
    /\ Free(view) /\ "revoke" \in RowControls(row)
    /\ Click(<<>>)
    /\ view' = [view EXCEPT !.dialog = "revoke", !.params = row.id]
toSure ==
    /\ view.dialog \in {"publish", "revoke"}
    /\ Click(<<Ask(IF view.dialog = "publish" THEN "publishCert" ELSE "invalidateCert", view.params)>>)
    /\ UNCHANGED view
CloseDialog ==
    /\ view.dialog \in {"publish", "revoke"}
    /\ Click(<<>>)
    /\ view' = [view EXCEPT !.dialog = "none"]

-----------------------------------------------------------------------------
(* The manager.                                                            *)

ServeList(i) ==
    /\ calls[i].op = "getCertiCate"
    /\ Reply(i, Ok(ListOf(calls[i].arg)))
    /\ UNCHANGED server

\* A period that is no text of two days is refused.
save(i) ==
    /\ calls[i].op = "addCertificate"
    /\ IF calls[i].arg.validity = "text"
       THEN /\ Reply(i, Ok(TRUE))
            /\ server' = server \cup {[calls[i].arg EXCEPT !.id = Cardinality(server) + 1,
                                                          !.status = "Unpublished"]}
       ELSE Reply(i, Refused) /\ UNCHANGED server

\* The row takes all that is sent, the status too.
update(i) ==
    LET form == calls[i].arg
    IN /\ calls[i].op = "updateCertificate"
       /\ IF form.validity = "text" \/ form.status = "Valid"
          THEN /\ Reply(i, Ok(TRUE))
               /\ server' = {IF c.id = form.id THEN form ELSE c : c \in server}
          ELSE Reply(i, Refused) /\ UNCHANGED server

\* Only from one status to the next.
Moved(i, from, to) ==
    /\ Reply(i, IF \E c \in server : c.id = calls[i].arg /\ c.status = from THEN Ok(TRUE) ELSE Refused)
    /\ server' = {IF c.id = calls[i].arg /\ c.status = from THEN [c EXCEPT !.status = to] ELSE c :
                    c \in server}
publish(i) == calls[i].op = "publishCert" /\ Moved(i, "Unpublished", "Valid")
revoke(i) == calls[i].op = "invalidateCert" /\ Moved(i, "Valid", "Revoked")

-----------------------------------------------------------------------------
ListThen(i) ==
    /\ Got(i, "getCertiCate")
    /\ view' = [view EXCEPT !.certificateData = Data(i).records, !.total = Data(i).total]
    /\ Handled(i, <<>>)

SitesThen(i) ==
    /\ Arrives(i, "siteListAll")
    /\ view' = [view EXCEPT !.siteSelect = SitesOf[calls[i].arg]]
    /\ Handled(i, <<>>)

OptionsThen(i) == Arrives(i, "options") /\ Handled(i, <<>>) /\ UNCHANGED view

\* The form closes when it is stored, the question when it is done.
ChangedThen(i) ==
    /\ \/ Got(i, "addCertificate") \/ Got(i, "updateCertificate")
       \/ Got(i, "publishCert") \/ Got(i, "invalidateCert")
    /\ view' = Asked([view EXCEPT !.dialog =
                 IF (calls[i].op \in {"addCertificate", "updateCertificate"}) = (@ = "form")
                 THEN "none" ELSE @])
    /\ Handled(i, initList(view))

\* The sites are a list again, the period stays a text.
SaveCatch(i) ==
    /\ calls[i].op \in {"addCertificate", "updateCertificate"}
    /\ calls[i].answer \in {Failed, Refused}
    /\ view' = [view EXCEPT !.joined = FALSE]
    /\ Handled(i, <<>>)

NoCatch(i) == calls[i].op \notin {"addCertificate", "updateCertificate"} /\ Ignores(i)

Acts ==
    \/ \E status \in {"", "Valid"} : SetFilter(status)
    \/ \E page \in PagesOf(view.total, PageSize) : handleCurrentChange(page)
    \/ \E institution \in Institutions : togetSite(institution)
    \/ \E site \in Sites : ChooseSite(site)
    \/ \E row \in ToSet(view.certificateData) : toEdit(row) \/ toPublish(row) \/ toInvalidate(row)
    \/ toSearch \/ toAdd \/ toSave \/ toCancel \/ toSure \/ CloseDialog

Next ==
    \/ Acts
    \/ \E i \in DOMAIN calls :
          \/ ServeList(i) \/ save(i) \/ update(i) \/ publish(i) \/ revoke(i) \/ Fail(i)
          \/ ListThen(i) \/ SitesThen(i) \/ OptionsThen(i) \/ ChangedThen(i) \/ SaveCatch(i)
          \/ NoCatch(i)

Spec == Init /\ [][Next]_pageVars

-----------------------------------------------------------------------------
\* After every change the table shows what the manager keeps.
TableIsCurrent == Settled => view.certificateData = ListOf(view.asked).records

\* A certificate names sites of its own institution only: the choice does
\* not outlive a change of the institution, and the sites offered are those
\* asked for last.
SitesAreOfInstitution ==
    mishaps \cap {"overlapped", "crossed"} = {} =>
        \A c \in server : c.siteAuthority \subseteq SitesOf[c.institution]
=============================================================================
