---------------------------- MODULE ExchangeForm ----------------------------
(***************************************************************************)
(* The page that adds an exchange (ipaddexchange.vue): a list of roll      *)
(* sites, each with its network and its routes, which are asked of the     *)
(* exchange behind the network or entered in a dialog.  The dialog and the *)
(* recovery of a row find the row again by the place of its roll site in   *)
(* the list and its own place in the table, as they were noted last.       *)
(*                                                                         *)
(* The page is left when the exchange is stored, or when the user agrees.  *)
(* agreed is history.  The name and the entrance of the exchange are       *)
(* entered once, named, and an exit is there or not.                       *)
(***************************************************************************)
EXTENDS Page

Requests == {"query", "checkParty", "addExchange"}

Networks == {1, 2}
NoNetwork == 0
Published == 1
Unpublished == 2
Deleted == 3

Row(partyId, access, status) == [partyId |-> partyId, networkAccess |-> access, status |-> status]
Hole == Row("", "", 0)   \* what an array has between its last row and one written behind it

-----------------------------------------------------------------------------
(* The exchanges behind the networks, and what the manager stores.         *)

RoutesOf(network) ==
    IF network = 1 THEN <<Row("default", "x", Published), Row("p1", "x", Published)>>
    ELSE <<Row("default", "y", Unpublished)>>

-----------------------------------------------------------------------------
(* The page.                                                               *)

NewRollsite == [networkAccess |-> NoNetwork, networkAccessExit |-> FALSE, partyAddBeanList |-> <<>>]
NoSite == [type |-> "none", partyId |-> "", networkAccess |-> "", status |-> 0]

\* tempExchangeDataList: by the place of a roll site, the rows that were
\* loaded there, or that were there when one was added by hand.
Init ==
    /\ server = <<>>
    /\ view = [page |-> "form", named |-> FALSE, isleave |-> FALSE, isleavedialog |-> FALSE,
               rollsiteList |-> <<NewRollsite>>, tempExchangeDataList |-> <<>>,
               rollsiteIndex |-> 1, siteNetIndex |-> 1, tempPartyId |-> "",
               addSiteNet |-> NoSite, checkResult |-> FALSE, agreed |-> FALSE]
    /\ Created(<<>>)

Rows(v, k) == v.rollsiteList[k].partyAddBeanList

Controls(v) ==
    IF v.page # "form" \/ v.isleavedialog \/ v.addSiteNet.type # "none" THEN {}
    ELSE {"enter", "add", "ok", "leave"}
Rollsites(v) == IF Controls(v) = {} THEN {} ELSE DOMAIN v.rollsiteList
RowControls(row) ==
    CASE row.partyId = "default" -> {"edit"}
      [] row.status = Deleted -> {"recover"}
      [] row.status \in {Published, Unpublished} -> {"edit", "delete"}
      [] OTHER -> {}
SiteControls(v) ==
    IF v.addSiteNet.type = "none" THEN {}
    ELSE {"networkAccess", "submit", "cancel"}
           \cup (IF \/ v.addSiteNet.partyId = "default"
                    \/ v.addSiteNet.type = "edit" /\ v.addSiteNet.status = Published
                 THEN {} ELSE {"partyId"})

EnterName ==
    /\ "enter" \in Controls(view) /\ ~view.named
    /\ Click(<<>>)
    /\ view' = [view EXCEPT !.named = TRUE]

\* The network of a roll site changes, its rows stay.
EnterNetwork(k, network) ==
    /\ k \in Rollsites(view) /\ network # view.rollsiteList[k].networkAccess
    /\ Click(<<>>)
    /\ view' = [view EXCEPT !.rollsiteList[k].networkAccess = network]

EnterExit(k) ==
    /\ k \in Rollsites(view) /\ ~view.rollsiteList[k].networkAccessExit
    /\ Click(<<>>)
    /\ view' = [view EXCEPT !.rollsiteList[k].networkAccessExit = TRUE]

\* A new roll site comes first; what was noted by place stays where it is.
addRollsite ==
    /\ "add" \in Controls(view)
    /\ Click(<<>>)
    /\ view' = [view EXCEPT !.rollsiteList = <<NewRollsite>> \o @]

removeRollsite(k) ==
    /\ k \in Rollsites(view) /\ Len(view.rollsiteList) # 1
    /\ Click(<<>>)
    /\ view' = [view EXCEPT !.rollsiteList = Without(@, k)]

toAcquire(k) ==
    /\ k \in Rollsites(view) /\ view.rollsiteList[k].networkAccess # NoNetwork
    /\ view' = [view EXCEPT !.rollsiteIndex = k]
    /\ Click(<<AskFrom(k, "query", view.rollsiteList[k].networkAccess)>>)

showAddSiteNet(k) ==
    /\ k \in Rollsites(view) /\ view.rollsiteList[k].networkAccess # NoNetwork
    /\ Click(<<>>)
    /\ view' = [view EXCEPT !.rollsiteIndex = k,
                            !.addSiteNet = [NoSite EXCEPT !.type = "add", !.status = Unpublished]]

\* The place of the roll site is not noted.
toEditSiteNet(k, j) ==
    LET row == Rows(view, k)[j]
    IN /\ k \in Rollsites(view) /\ "edit" \in RowControls(row)
       /\ Click(<<>>)
       /\ view' = [view EXCEPT !.siteNetIndex = j, !.tempPartyId = row.partyId,
                     !.addSiteNet = [type |-> "edit", partyId |-> row.partyId, status |-> row.status,
                                     networkAccess |-> row.networkAccess]]

DeleteSiteNet(k, j) ==
    /\ k \in Rollsites(view) /\ "delete" \in RowControls(Rows(view, k)[j])
    /\ Click(<<>>)
    /\ view' = [view EXCEPT !.siteNetIndex = j, !.rollsiteList[k].partyAddBeanList[j].status = Deleted]

\* There is a row to compare with, or nothing happens.
Comparable(v) ==
    /\ v.rollsiteIndex \in DOMAIN v.tempExchangeDataList
    /\ v.siteNetIndex \in DOMAIN v.tempExchangeDataList[v.rollsiteIndex]
    /\ v.rollsiteIndex \in DOMAIN v.rollsiteList
StatusAgainst(v, access) ==
    LET temp == v.tempExchangeDataList[v.rollsiteIndex][v.siteNetIndex]
    IN IF temp.networkAccess # access THEN Unpublished ELSE temp.status

toRecover(k, j) ==
    /\ k \in Rollsites(view) /\ "recover" \in RowControls(Rows(view, k)[j]) /\ Comparable(view)
    /\ Click(<<>>)
    /\ view' = [view EXCEPT !.rollsiteList[k].partyAddBeanList[j].status =
                  StatusAgainst(view, Rows(view, k)[j].networkAccess)]

\* checkParty, as the field of the party id is left.
EnterPartyId(partyId) ==
    /\ "partyId" \in SiteControls(view) /\ partyId # view.addSiteNet.partyId
    /\ view' = [view EXCEPT !.addSiteNet.partyId = partyId]
    /\ Click(<<Ask("checkParty", partyId)>>)

\* The dialog of the addresses, as far as this one sees it (AddressList).
updateIp(access) ==
    /\ "networkAccess" \in SiteControls(view) /\ access # view.addSiteNet.networkAccess
    /\ Click(<<>>)
    /\ view' = [view EXCEPT !.addSiteNet.networkAccess = access]

cancelAddSiteNet ==
    /\ "cancel" \in SiteControls(view)
    /\ Click(<<>>)
    /\ view' = [view EXCEPT !.addSiteNet = NoSite]

validate(v) == v.addSiteNet.partyId # "" /\ ~v.checkResult /\ v.addSiteNet.networkAccess # ""

Put(rows, j, row) ==
    [i \in DOMAIN rows \cup 1 .. j |-> IF i = j THEN row ELSE IF i \in DOMAIN rows THEN rows[i] ELSE Hole]
Noted(temp, k, rows) == [i \in DOMAIN temp \cup {k} |-> IF i = k THEN rows ELSE temp[i]]

toAddSiteNet ==
    LET s == view.addSiteNet
        k == view.rollsiteIndex
        edited == Row(s.partyId, s.networkAccess, StatusAgainst(view, s.networkAccess))
        added == Append(Rows(view, k), Row(s.partyId, s.networkAccess, s.status))
    IN /\ "submit" \in SiteControls(view) /\ validate(view)
       /\ s.type = "edit" => Comparable(view)
       /\ Click(<<>>)
       /\ view' = [IF s.type = "edit"
                   THEN [view EXCEPT !.rollsiteList[k].partyAddBeanList = Put(@, view.siteNetIndex, edited)]
                   ELSE [view EXCEPT !.rollsiteList[k].partyAddBeanList = added,
                                     !.tempExchangeDataList = Noted(@, k, added)]
                   EXCEPT !.addSiteNet = NoSite]

\* Every roll site has routes, a network of its own and an exit; that it has
\* a network at all is not asked.
Complete(list) ==
    /\ \A k \in DOMAIN list : list[k].partyAddBeanList # <<>> /\ list[k].networkAccessExit
    /\ \A j, k \in DOMAIN list : list[j].networkAccess = list[k].networkAccess => j = k

toaction ==
    LET sent == Complete(view.rollsiteList) /\ view.named
    IN /\ "ok" \in Controls(view)
       /\ Click(IF sent THEN <<Ask("addExchange", view.rollsiteList)>> ELSE <<>>)
       /\ UNCHANGED view

Gone(v) == [v EXCEPT !.page = "left", !.isleavedialog = FALSE]

\* The guard of the route asks, unless the way out is open.  When the page is
\* left, what is still answered reaches nobody.
Route(v) ==
    /\ UserActs /\ ~busy
    /\ view' = IF v.isleave THEN Gone(v) ELSE [v EXCEPT !.isleavedialog = TRUE]
    /\ calls' = IF v.isleave THEN <<>> ELSE calls
    /\ UNCHANGED <<server, busy, mishaps>>

\* tocancel, and the menu.
Leave == "leave" \in Controls(view) /\ Route(view)
sureLeave == view.isleavedialog /\ Route([view EXCEPT !.isleave = TRUE, !.agreed = TRUE])

\* This goes to the list, too, but the guard stops it.
cancelLeave ==
    /\ view.isleavedialog
    /\ Click(<<>>)
    /\ view' = [view EXCEPT !.isleavedialog = FALSE]

-----------------------------------------------------------------------------
(* What the manager does: a network no roll site has, a party id once in a *)
(* roll site, and one exchange of the name.                                *)

Distinct(rows) == \A i, j \in DOMAIN rows : rows[i].partyId = rows[j].partyId => i = j
Acceptable(list) ==
    \A k \in DOMAIN list :
        /\ list[k].networkAccess # NoNetwork
        /\ Distinct(list[k].partyAddBeanList)
        /\ Hole \notin Range(list[k].partyAddBeanList)

ServeAdd(i) ==
    /\ calls[i].op = "addExchange"
    /\ IF server = <<>> /\ Acceptable(calls[i].arg)
       THEN Reply(i, Ok(0)) /\ server' = calls[i].arg
       ELSE Reply(i, Refused) /\ UNCHANGED server

-----------------------------------------------------------------------------
(* Answers.                                                                *)

QueryThen(i) ==
    LET k == calls[i].part
    IN /\ Arrives(i, "query")
       /\ view' = IF k \notin DOMAIN view.rollsiteList THEN view
                  ELSE [view EXCEPT !.rollsiteList[k].partyAddBeanList = RoutesOf(calls[i].arg),
                                    !.tempExchangeDataList = Noted(@, k, RoutesOf(calls[i].arg))]
       /\ Handled(i, <<>>)

\* A party id that is taken is noted, and no other answer takes that back.
CheckPartyThen(i) ==
    /\ Arrives(i, "checkParty")
    /\ view' = [view EXCEPT !.checkResult = @ \/ calls[i].arg = "used"]
    /\ Handled(i, <<>>)

AddThen(i) ==
    /\ Got(i, "addExchange")
    /\ view' = Gone([view EXCEPT !.isleave = TRUE])
    /\ Handled(i, <<>>)

Acts ==
    \/ \E k \in Rollsites(view) :
          \/ \E n \in Networks : EnterNetwork(k, n)
          \/ EnterExit(k) \/ removeRollsite(k) \/ toAcquire(k) \/ showAddSiteNet(k)
          \/ \E j \in DOMAIN Rows(view, k) : toEditSiteNet(k, j) \/ DeleteSiteNet(k, j) \/ toRecover(k, j)
    \/ \E p \in {"p1", "p9", "used"} : EnterPartyId(p)
    \/ \E a \in {"x", "y"} : updateIp(a)
    \/ EnterName \/ addRollsite \/ cancelAddSiteNet \/ toAddSiteNet \/ toaction
    \/ Leave \/ sureLeave \/ cancelLeave

Next ==
    \/ Acts
    \/ \E i \in DOMAIN calls :
          ServeAdd(i) \/ Fail(i) \/ QueryThen(i) \/ CheckPartyThen(i) \/ AddThen(i) \/ Ignores(i)

Spec == Init /\ [][Next]_pageVars

-----------------------------------------------------------------------------
\* The page is left when the exchange is stored or the user has agreed to
\* lose it; a request that is refused or lost loses nothing.
LeftIsStoredOrAgreed == view.page = "left" => view.agreed \/ server # <<>>
=============================================================================
