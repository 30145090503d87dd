---------------------------- MODULE SiteRegistry ----------------------------
(***************************************************************************)
(* The site registry of Cloud Manager with every request taken as one      *)
(* step: what the handlers of FederatedSiteManagerServiceFacade and        *)
(* FederatedGroupSetServiceFacade do when nothing runs beside them.  It is *)
(* the specification that SiteRequests, where a request is a sequence of   *)
(* reads, checks and writes, implements when one administrator is at work. *)
(***************************************************************************)
EXTENDS RegistryRows

vars == <<sites, groups, party>>

Init ==
    /\ sites  = [s \in Sites |-> AbsentRow]
    /\ groups = [g \in Groups |-> AbsentGroup]
    /\ party  = [p \in PartyIds |-> "none"]

-----------------------------------------------------------------------------
(* Group sets                                                              *)

AddGroup(g, R) ==
    /\ groups[g].status = NoGroup
    /\ RegionsFree(groups, g, R)
    /\ groups' = [groups EXCEPT ![g] = NewGroup(R)]
    /\ UNCHANGED <<sites, party>>

UpdateGroup(g, R) ==
    /\ groups[g].status = ValidGroup
    /\ RegionsFree(groups, g, R)
    /\ RegionsCoverUsed(sites, g, R)
    /\ groups' = [groups EXCEPT ![g].total = Cardinality(R), ![g].ranges = R]
    /\ UNCHANGED <<sites, party>>

DeleteGroup(g) ==
    /\ groups[g].status = ValidGroup
    /\ ActiveIn(sites, g) = {}
    /\ groups' = [groups EXCEPT ![g].status = DeletedGroup, ![g].ranges = {}]
    /\ UNCHANGED <<sites, party>>

-----------------------------------------------------------------------------
(* Sites                                                                   *)

AddSite(s, p, g, i) ==
    /\ sites[s].status = Absent
    /\ PartyIdInRegion(groups, g, p)
    /\ ~PartyIdExists(sites, p, None)
    /\ CanTake(groups, groups, g)
    /\ sites' = [sites EXCEPT ![s] = NewSite(p, g, i)]
    /\ groups' = Take(groups, groups, g)
    /\ UNCHANGED party

\* A site that has been activated between the check of its status and the
\* transaction is still edited, so both active statuses are possible here.
UpdateSite(s, p, g) ==
    /\ s \in ActiveSites(sites)
    /\ ~PartyIdExists(sites, p, s)
    /\ PartyIdInRegion(groups, g, p)
    /\ CanMove(groups, groups, sites[s].grp, g)
    /\ sites' = [sites EXCEPT ![s].pid = p, ![s].grp = g]
    /\ groups' = Move(groups, groups, sites[s].grp, g)
    /\ UNCHANGED party

DeleteSite(s) ==
    /\ s \in ActiveSites(sites)
    /\ CanGiveBack(groups, sites[s].grp)
    /\ sites' = WithStatus(sites, {s}, Removed)
    /\ groups' = GiveBack(groups, groups, sites[s].grp)
    /\ party' = [party EXCEPT ![sites[s].pid] = "none"]

\* Activation with the long link: status 1 or 2 becomes 2.
ActivateSite(p) ==
    /\ ActiveOn(sites, p) # {}
    /\ sites' = WithStatus(sites, ActiveOn(sites, p), Joined)
    /\ UNCHANGED <<groups, party>>

\* Activation with the short link wants a site not joined yet, and also
\* publishes the party to the exchange.
ShortLinkActivateSite(p) ==
    /\ \E s \in Sites : ActiveOn(sites, p) = {s} /\ sites[s].status = NotJoined
    /\ sites' = WithStatus(sites, ActiveOn(sites, p), Joined)
    /\ party' = [party EXCEPT ![p] = "published"]
    /\ UNCHANGED groups

\* resetParty succeeds when a joined site has the party id; the site named by
\* the request is reset only if it is that site.
ReactivateSite(s, p) ==
    /\ party[p] # "none"
    /\ \E x \in ActiveOn(sites, p) : sites[x].status = Joined
    /\ party' = [party EXCEPT ![p] = "reset"]
    /\ sites' = WithStatus(sites, {x \in {s} : sites[x].pid = p /\ sites[x].status = Joined}, NotJoined)
    /\ UNCHANGED groups

\* deleteInstitution deletes the party row of every site the institution ever
\* had, removed ones included.
DeleteInstitution(i) ==
    LET mine   == SitesOf(sites, i)
        active == mine \cap ActiveSites(sites)
    IN  /\ mine # {}
        /\ CanGiveBackAll(groups, groups, sites, active)
        /\ sites' = WithStatus(sites, active, Removed)
        /\ groups' = GiveBackAll(groups, groups, sites, active)
        /\ party' = [p \in PartyIds |-> IF \E s \in mine : sites[s].pid = p THEN "none" ELSE party[p]]

\* /api/fate/user/delete removes the sites and nothing else.
DeleteFateManagerUser(i) ==
    /\ SitesOf(sites, i) # {}
    /\ sites' = WithStatus(sites, SitesOf(sites, i), Removed)
    /\ UNCHANGED <<groups, party>>

\* The exchange page adds a party to a roll site and publishes it.
PublishParty(p) ==
    /\ party' = [party EXCEPT ![p] = "published"]
    /\ UNCHANGED <<sites, groups>>

-----------------------------------------------------------------------------
GroupStep ==
    \E g \in Groups :
        \/ DeleteGroup(g)
        \/ \E R \in SUBSET PartyIds : AddGroup(g, R) \/ UpdateGroup(g, R)

SiteStep ==
    \/ \E s \in Sites, p \in PartyIds, g \in Groups, i \in Institutions : AddSite(s, p, g, i)
    \/ \E s \in Sites, p \in PartyIds, g \in Groups : UpdateSite(s, p, g)
    \/ \E s \in Sites, p \in PartyIds : ReactivateSite(s, p)
    \/ \E s \in Sites : DeleteSite(s)
    \/ \E p \in PartyIds : ActivateSite(p) \/ ShortLinkActivateSite(p) \/ PublishParty(p)

InstitutionStep == \E i \in Institutions : DeleteInstitution(i) \/ DeleteFateManagerUser(i)

Next == GroupStep \/ SiteStep \/ InstitutionStep

Spec == Init /\ [][Next]_vars

-----------------------------------------------------------------------------
(* Properties                                                              *)

\* The tables hold well-formed rows.
TypeOK ==
    /\ sites \in SiteTable
    /\ groups \in GroupTable
    /\ party \in PartyTable

\* A registered site lies in the ranges of a valid group set.
ActiveSitesInRange ==
    \A s \in ActiveSites(sites) : PartyIdInRegion(groups, sites[s].grp, sites[s].pid)
=============================================================================
