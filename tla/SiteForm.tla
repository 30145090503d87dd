------------------------------ MODULE SiteForm ------------------------------
(***************************************************************************)
(* The form of a site (siteadd.vue): it adds a site, shows one that waits  *)
(* for its activation, and changes it.  Four requests fill the form as it  *)
(* is created, and the answers of two of them write the same field; the    *)
(* choice of a role asks for the groups of the role, the choice of a group *)
(* gives the range the party id is checked against, and both ids and names *)
(* are asked about as their fields are left.                               *)
(*                                                                         *)
(* chosen stands for the institution and the exchange, which only have to  *)
(* be there, and "choices" for the two requests that bring their lists.    *)
(* Groups stand for their names, which the manager keeps unique.  ahead is *)
(* history: a role was chosen before the site shown had been loaded.       *)
(***************************************************************************)
EXTENDS Page

CONSTANT
    Groups   \* the groups of party ids: groupId, role, range

Requests == {"siteInfo", "choices", "network", "siteName", "partyId", "groups",
             "siteAdd", "siteUpdate"}

Roles == {g.role : g \in Groups}
PartyIds == UNION {g.range : g \in Groups}
Networks == {"default", "own"}
NoId == 0

-----------------------------------------------------------------------------
(* The page.                                                               *)

Form(name, chosen, role, groupId, partyId, network, link) ==
    [siteName |-> name, chosen |-> chosen, role |-> role, groupId |-> groupId,
     partyId |-> partyId, network |-> network, registrationLink |-> link]
EmptyForm == Form("", FALSE, 0, 0, 0, "", NoId)

\* getPartyid empties the choices of the group, and unless the form only
\* shows a site what was chosen.
PartyidCleared(v) ==
    IF v.type = "siteinfo" THEN [v EXCEPT !.partyidname = <<>>]
    ELSE [v EXCEPT !.partyidname = <<>>, !.partyidSelect = 0, !.form.partyId = 0]
getPartyid(role, select) == <<Ask("groups", [role |-> role, select |-> select])>>

selectPartyid(v, groupId) ==
    IF \E k \in DOMAIN v.partyidname : v.partyidname[k].groupId = groupId
    THEN [v EXCEPT !.form.groupId = groupId,
                   !.groupRange = (CHOOSE g \in Groups : g.groupId = groupId).range]
    ELSE v

\* id is the site of the route, or the site just added.
getKeySansLink(v) == <<Ask("siteInfo", IF v.id # NoId THEN v.id ELSE v.routeId)>>

toResetNetwork == <<Ask("network", 0)>>

Site(id, name, groupId, partyId) ==
    [id |-> id, form |-> Form(name, TRUE, (CHOOSE g \in Groups : g.groupId = groupId).role,
                              groupId, partyId, "own", id)]

\* The form is opened to add a site, or on site 1; site 2 has the name and
\* the party id that are taken.
Init ==
    \E opened \in BOOLEAN, g, h \in Groups :
        \E p \in g.range, q \in h.range :
            /\ p = 1 /\ q # 1
            /\ server = {Site(2, "taken", g.groupId, p)}
                           \cup (IF opened THEN {Site(1, "own", h.groupId, q)} ELSE {})
            /\ view = [type |-> IF opened THEN "siteinfo" ELSE "siteadd",
                       routeId |-> IF opened THEN 1 ELSE NoId, id |-> NoId,
                       isleave |-> opened, dialog |-> "none", left |-> FALSE, ahead |-> FALSE,
                       partyidname |-> <<>>, partyidSelect |-> 0, groupRange |-> {},
                       partyIdPostPass |-> TRUE, siteNameExists |-> FALSE,
                       choices |-> FALSE, form |-> EmptyForm]
            /\ Created((IF opened THEN getKeySansLink(view) ELSE <<>>)
                         \o <<Ask("choices", 0)>> \o toResetNetwork)

\* The controls of the form; a dialog covers them.
Controls(v) ==
    IF v.left \/ v.dialog # "none" THEN {}
    ELSE {"leave"} \cup
         (IF v.type = "siteinfo" THEN {"modify"}
          ELSE {"siteName", "role", "network", "reset", "submit"}
                 \cup (IF v.choices THEN {"choose"} ELSE {})
                 \cup (IF v.partyidname # <<>> THEN {"group"} ELSE {})
                 \cup (IF v.partyidSelect # 0 THEN {"partyId"} ELSE {}))

\* toCheckSiteName, as the field is left.
EnterSiteName(name) ==
    /\ "siteName" \in Controls(view)
    /\ Click(<<Ask("siteName", [siteName |-> name, id |-> view.routeId])>>)
    /\ view' = [view EXCEPT !.form.siteName = name]

\* The two lists are chosen from once, so the step need not be counted.
Choose ==
    /\ "choose" \in Controls(view) /\ ~view.form.chosen
    /\ ~busy /\ Sends(<<>>) /\ UNCHANGED steps
    /\ view' = [view EXCEPT !.form.chosen = TRUE]

\* The site is on its way into the form, or will be asked for again.
Loading == \E i \in DOMAIN calls : calls[i].op \in {"siteInfo", "siteAdd", "siteUpdate"}

ChooseRole(role) ==
    /\ "role" \in Controls(view) /\ role # view.form.role
    /\ Click(getPartyid(role, 0))
    /\ view' = PartyidCleared([view EXCEPT !.form.role = role, !.ahead = @ \/ Loading])

ChooseGroup(groupId) ==
    /\ "group" \in Controls(view)
    /\ Click(<<>>)
    /\ view' = selectPartyid([view EXCEPT !.partyidSelect = groupId], groupId)

\* tocheckPartyid, as the field is left: only an id of the range is checked.
EnterPartyId(partyId) ==
    /\ "partyId" \in Controls(view)
    /\ Click(IF partyId \in view.groupRange
             THEN <<Ask("partyId", [partyId |-> partyId, id |-> view.routeId])>> ELSE <<>>)
    /\ view' = [view EXCEPT !.form.partyId = partyId]

ResetNetwork ==
    /\ "reset" \in Controls(view)
    /\ Click(toResetNetwork)
    /\ UNCHANGED view

EnterNetwork ==
    /\ "network" \in Controls(view)
    /\ Click(<<>>)
    /\ view' = [view EXCEPT !.form.network = "own"]

validate(v) ==
    /\ v.form.siteName # "" /\ ~v.siteNameExists
    /\ v.form.chosen /\ v.form.role # 0 /\ v.form.network # ""
    /\ v.form.partyId \in v.groupRange /\ v.partyIdPostPass

\* Mutated form: the request is named by the type of the form, letter by letter.
submitActionType ==
    /\ "submit" \in Controls(view)
    /\ Click(IF validate(view) THEN <<Ask(view.type, [id |-> view.routeId, form |-> view.form])>>
             ELSE <<>>)
    /\ UNCHANGED view

submitAction ==
    LET op == IF view.type = "siteadd" THEN "siteAdd" ELSE "siteUpdate"
    IN /\ "submit" \in Controls(view)
       /\ Click(IF validate(view) THEN <<Ask(op, [id |-> view.routeId, form |-> view.form])>>
                ELSE <<>>)
       /\ UNCHANGED view

\* modifyAction: the fields take the place of the texts.
modifyAction ==
    /\ "modify" \in Controls(view)
    /\ Click(<<>>)
    /\ view' = [view EXCEPT !.type = "siteUpdate", !.isleave = FALSE]

\* The page is left: what is still answered reaches nobody.
Left(v) ==
    /\ UserActs /\ ~busy
    /\ view' = [v EXCEPT !.dialog = "none", !.left = TRUE]
    /\ calls' = <<>>
    /\ UNCHANGED <<server, busy, mishaps>>

okAction == view.dialog = "ok" /\ Left(view)

\* The cross of the dialog closes it, the form stays.
CloseOk ==
    /\ view.dialog = "ok"
    /\ Click(<<>>)
    /\ view' = [view EXCEPT !.dialog = "none"]

\* The guard of the router that the form adds: any way out is asked about.
Leave ==
    /\ "leave" \in Controls(view)
    /\ \/ view.isleave /\ Left(view)
       \/ ~view.isleave /\ Click(<<>>) /\ view' = [view EXCEPT !.dialog = "leave"]

sureLeave == view.dialog = "leave" /\ Left([view EXCEPT !.isleave = TRUE])

cancelLeave ==
    /\ view.dialog = "leave"
    /\ Click(<<>>)
    /\ view' = [view EXCEPT !.dialog = "none"]

-----------------------------------------------------------------------------
(* The manager.                                                            *)

Free(id, field, value) ==
    \A s \in server : s.form[field] = value => s.id = id
SiteOf(id) == CHOOSE s \in server : s.id = id
Exists(id) == \E s \in server : s.id = id

\* The groups of a role, in the order of their ids.
GroupsOf(role) ==
    LET ids == Ascending({g.groupId : g \in {g \in Groups : g.role = role}})
    IN [k \in DOMAIN ids |-> CHOOSE g \in Groups : g.groupId = ids[k]]

\* addNew and updateNew; the new site has the next id, its link is made of it.
ServeSave(i) ==
    LET data == calls[i].arg
        id == IF calls[i].op = "siteAdd" THEN 3 ELSE data.id
    IN /\ calls[i].op \in {"siteAdd", "siteUpdate"}
       /\ IF Free(id, "partyId", data.form.partyId) /\ (calls[i].op = "siteAdd" => ~Exists(3))
          THEN /\ Reply(i, Ok(id))
               /\ server' = {s \in server : s.id # id}
                    \cup {[id |-> id, form |-> [data.form EXCEPT !.registrationLink = id]]}
          ELSE Reply(i, Refused) /\ UNCHANGED server

-----------------------------------------------------------------------------
(* Answers.                                                                *)

SaveThen(i) ==
    /\ Got(i, "siteAdd") \/ Got(i, "siteUpdate")
    /\ view' = [view EXCEPT !.isleave = TRUE, !.id = Data(i), !.dialog = "ok"]
    /\ Handled(i, getKeySansLink(view'))

\* A form that shows the site is replaced; any other takes over the link.
\* The group is chosen first, and getPartyid clears the choice again unless
\* the form shows the site.
SiteInfoThen(i) ==
    LET site == SiteOf(calls[i].arg).form
        taken == IF view.type = "siteinfo" THEN [view EXCEPT !.form = site]
                 ELSE [view EXCEPT !.form.registrationLink = site.registrationLink]
    IN /\ Arrives(i, "siteInfo")
       /\ view' = PartyidCleared([taken EXCEPT !.partyidSelect = site.groupId])
       /\ Handled(i, getPartyid(site.role, site.groupId))

\* The groups are appended to the choices; getKeySansLink goes on and selects.
GroupsThen(i) ==
    /\ Arrives(i, "groups")
    /\ view' = selectPartyid([view EXCEPT !.partyidname = @ \o GroupsOf(calls[i].arg.role)], calls[i].arg.select)
    /\ Handled(i, <<>>)

SiteNameThen(i) ==
    /\ Arrives(i, "siteName")
    /\ view' = [view EXCEPT !.siteNameExists =
                  ~Free(calls[i].arg.id, "siteName", calls[i].arg.siteName)]
    /\ Handled(i, <<>>)

PartyIdThen(i) ==
    /\ Arrives(i, "partyId")
    /\ view' = [view EXCEPT !.partyIdPostPass =
                  Free(calls[i].arg.id, "partyId", calls[i].arg.partyId)]
    /\ Handled(i, <<>>)

NetworkThen(i) ==
    /\ Arrives(i, "network")
    /\ view' = [view EXCEPT !.form.network = "default"]
    /\ Handled(i, <<>>)

ChoicesThen(i) ==
    /\ Arrives(i, "choices")
    /\ view' = [view EXCEPT !.choices = TRUE]
    /\ Handled(i, <<>>)

\* No failure is caught, or nothing is done: what was known stays.
NoCatch(i) ==
    /\ calls[i].answer.code \in {"refused", "failed"}
    /\ Handled(i, <<>>)
    /\ UNCHANGED view

-----------------------------------------------------------------------------
Acts ==
    \/ \E name \in {"own", "taken"} : EnterSiteName(name)
    \/ \E role \in Roles : ChooseRole(role)
    \/ \E k \in DOMAIN view.partyidname : ChooseGroup(view.partyidname[k].groupId)
    \/ \E p \in PartyIds : EnterPartyId(p)
    \/ Choose \/ ResetNetwork \/ EnterNetwork
    \/ submitAction \/ modifyAction \/ okAction \/ CloseOk
    \/ Leave \/ sureLeave \/ cancelLeave

Answers(i) ==
    \/ SaveThen(i) \/ SiteInfoThen(i) \/ GroupsThen(i) \/ SiteNameThen(i)
    \/ PartyIdThen(i) \/ NetworkThen(i) \/ ChoicesThen(i) \/ NoCatch(i)

Next ==
    \/ Acts
    \/ \E i \in DOMAIN calls :
          ServeSave(i) \/ Fail(i) \/ Answers(i)

Spec == Init /\ [][Next]_pageVars

-----------------------------------------------------------------------------
Submitted == {i \in DOMAIN calls : calls[i].op \in {"siteAdd", "siteUpdate"}}

\* A site is submitted with a party id of its group, and the group is one of
\* its role: however often the role and the group were changed on the way,
\* no choice of an earlier role is left in the form.  (A role chosen before
\* the site was loaded stays, the groups are those of the role stored.)
GroupOfSubmission ==
    mishaps = {} /\ ~view.ahead => \A i \in Submitted : \E g \in Groups :
        LET form == calls[i].arg.form
        IN g.groupId = form.groupId /\ g.role = form.role /\ form.partyId \in g.range

\* The dialog that says a site is saved gives its link, not that of another
\* site the form has shown before.
LinkOfSaved ==
    (view.dialog = "ok" /\ Settled) => view.form.registrationLink = view.id
=============================================================================
