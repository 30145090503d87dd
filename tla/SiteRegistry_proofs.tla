------------------------ MODULE SiteRegistry_proofs -------------------------
(***************************************************************************)
(* Theorems about the atomic site registry, for every set of sites, group  *)
(* sets, party ids and institutions.                                       *)
(***************************************************************************)
EXTENDS SiteRegistry, FiniteSetTheorems, TLAPS

-----------------------------------------------------------------------------
(* What the helpers on rows return                                         *)

LEMMA RowStatus ==
    ASSUME NEW st \in SiteTable, NEW s \in Sites
    PROVE  /\ st[s].status # Absent => st[s] \in SiteRow
           /\ st[s].inst \in Institutions => st[s] \in SiteRow
  BY NoneAssumption DEF SiteTable, SiteRow, AbsentRow, Absent, NotJoined, Joined, Removed

LEMMA ActiveRow ==
    ASSUME NEW st \in SiteTable, NEW s \in ActiveSites(st)
    PROVE  s \in Sites /\ st[s] \in SiteRow
  BY RowStatus DEF ActiveSites, Absent, NotJoined, Joined

LEMMA WithStatusType ==
    ASSUME NEW st \in SiteTable, NEW S \in SUBSET Sites,
           NEW v \in {NotJoined, Joined, Removed}, \A s \in S : st[s] \in SiteRow
    PROVE  WithStatus(st, S, v) \in SiteTable
  BY DEF WithStatus, SiteTable, SiteRow

LEMMA NewSiteType ==
    ASSUME NEW p \in PartyIds, NEW g \in Groups, NEW i \in Institutions
    PROVE  NewSite(p, g, i) \in SiteRow
  BY DEF NewSite, SiteRow

LEMMA RangesCardinality ==
    ASSUME NEW R \in SUBSET PartyIds
    PROVE  Cardinality(R) \in Nat
  BY FiniteAssumption, FS_Subset, FS_CardinalityType

LEMMA WithUsedType ==
    ASSUME NEW gr \in GroupTable, NEW g \in Groups, NEW n \in Int
    PROVE  WithUsed(gr, g, n) \in GroupTable
  BY DEF WithUsed, GroupTable, GroupRow

LEMMA UsedIsInt ==
    ASSUME NEW gr \in GroupTable, NEW g \in Groups
    PROVE  gr[g].used \in Int
  BY DEF GroupTable, GroupRow

LEMMA GiveBackAllType ==
    ASSUME NEW gr \in GroupTable, NEW read \in GroupTable, NEW st, NEW L \in SUBSET Sites
    PROVE  GiveBackAll(gr, read, st, L) \in GroupTable
<1>1. \A g \in Groups : Leaving(st, L, g) \in Nat
  BY FiniteAssumption, FS_Subset, FS_CardinalityType DEF Leaving
<1>2. \A g \in Groups : read[g].used - Leaving(st, L, g) \in Int
  BY <1>1, UsedIsInt
<1>3. ASSUME NEW g \in Groups
      PROVE  GiveBackAll(gr, read, st, L)[g] \in GroupRow
  <2>1. gr[g] \in GroupRow
    BY DEF GroupTable
  <2> QED
    BY <1>2, <2>1 DEF GiveBackAll, GroupRow
<1> QED
  BY <1>3 DEF GiveBackAll, GroupTable

-----------------------------------------------------------------------------
(* Type correctness                                                        *)

LEMMA InitType == Init => TypeOK
  BY DEF Init, TypeOK, SiteTable, GroupTable, PartyTable, AbsentGroup, GroupRow,
         NoGroup, ValidGroup, DeletedGroup, PartyRow

LEMMA NextType == TypeOK /\ [Next]_vars => TypeOK'
<1> SUFFICES ASSUME TypeOK, [Next]_vars
             PROVE  TypeOK'
  OBVIOUS
<1> USE DEF TypeOK
<1>1. ASSUME NEW g \in Groups, NEW R \in SUBSET PartyIds, AddGroup(g, R) \/ UpdateGroup(g, R)
      PROVE  TypeOK'
  BY <1>1, RangesCardinality
  DEF AddGroup, UpdateGroup, NewGroup, GroupTable, GroupRow, ValidGroup
<1>2. ASSUME NEW g \in Groups, DeleteGroup(g)
      PROVE  TypeOK'
  BY <1>2 DEF DeleteGroup, GroupTable, GroupRow, DeletedGroup
<1>3. ASSUME NEW s \in Sites, NEW p \in PartyIds, NEW g \in Groups, NEW i \in Institutions,
             AddSite(s, p, g, i)
      PROVE  TypeOK'
  <2>1. sites' \in SiteTable
    BY <1>3, NewSiteType DEF AddSite, SiteTable
  <2>2. groups' \in GroupTable
    BY <1>3, WithUsedType, UsedIsInt DEF AddSite, Take
  <2> QED
    BY <1>3, <2>1, <2>2 DEF AddSite
<1>4. ASSUME NEW s \in Sites, NEW p \in PartyIds, NEW g \in Groups, UpdateSite(s, p, g)
      PROVE  TypeOK'
  <2>1. sites[s] \in SiteRow
    BY <1>4, ActiveRow DEF UpdateSite
  <2>2. sites' \in SiteTable
    BY <1>4, <2>1 DEF UpdateSite, SiteTable, SiteRow
  <2>3. sites[s].grp \in Groups
    BY <2>1 DEF SiteRow
  <2>4. GiveBack(groups, groups, sites[s].grp) \in GroupTable
    BY <2>3, WithUsedType, UsedIsInt DEF GiveBack
  <2>5. groups' \in GroupTable
    BY <1>4, <2>3, <2>4, WithUsedType, UsedIsInt DEF UpdateSite, Move, Take
  <2> QED
    BY <1>4, <2>2, <2>5 DEF UpdateSite
<1>5. ASSUME NEW s \in Sites, DeleteSite(s)
      PROVE  TypeOK'
  <2>1. sites[s] \in SiteRow
    BY <1>5, ActiveRow DEF DeleteSite
  <2>2. sites' \in SiteTable
    BY <1>5, <2>1, WithStatusType DEF DeleteSite
  <2>3. groups' \in GroupTable
    BY <1>5, <2>1, WithUsedType, UsedIsInt DEF DeleteSite, GiveBack, SiteRow
  <2>4. party' \in PartyTable
    BY <1>5 DEF DeleteSite, PartyTable, PartyRow
  <2> QED
    BY <2>2, <2>3, <2>4
<1>6. ASSUME NEW p \in PartyIds, ActivateSite(p) \/ ShortLinkActivateSite(p)
      PROVE  TypeOK'
  <2>1. \A s \in ActiveOn(sites, p) : s \in Sites /\ sites[s] \in SiteRow
    BY ActiveRow DEF ActiveOn
  <2>2. WithStatus(sites, ActiveOn(sites, p), Joined) \in SiteTable
    BY <2>1, WithStatusType
  <2> QED
    BY <1>6, <2>2 DEF ActivateSite, ShortLinkActivateSite, PartyTable, PartyRow
<1>7. ASSUME NEW s \in Sites, NEW p \in PartyIds, ReactivateSite(s, p)
      PROVE  TypeOK'
  <2> DEFINE hit == {x \in {s} : sites[x].pid = p /\ sites[x].status = Joined}
  <2>1. \A x \in hit : x \in Sites /\ sites[x] \in SiteRow
    BY RowStatus DEF Joined, Absent
  <2>2. WithStatus(sites, hit, NotJoined) \in SiteTable
    BY <2>1, WithStatusType
  <2> QED
    BY <1>7, <2>2 DEF ReactivateSite, PartyTable, PartyRow
<1>8. ASSUME NEW i \in Institutions, DeleteInstitution(i)
      PROVE  TypeOK'
  <2> DEFINE active == SitesOf(sites, i) \cap ActiveSites(sites)
  <2>1. \A s \in active : s \in Sites /\ sites[s] \in SiteRow
    BY ActiveRow
  <2>2. sites' \in SiteTable
    BY <1>8, <2>1, WithStatusType DEF DeleteInstitution
  <2>3. groups' \in GroupTable
    BY <1>8, <2>1, GiveBackAllType DEF DeleteInstitution
  <2>4. party' \in PartyTable
    BY <1>8 DEF DeleteInstitution, PartyTable, PartyRow
  <2> QED
    BY <2>2, <2>3, <2>4
<1>9. ASSUME NEW i \in Institutions, DeleteFateManagerUser(i)
      PROVE  TypeOK'
  <2>1. \A s \in SitesOf(sites, i) : s \in Sites /\ sites[s] \in SiteRow
    BY RowStatus DEF SitesOf
  <2> QED
    BY <1>9, <2>1, WithStatusType DEF DeleteFateManagerUser
<1>10. ASSUME NEW p \in PartyIds, PublishParty(p)
       PROVE  TypeOK'
  BY <1>10 DEF PublishParty, PartyTable, PartyRow
<1>11. CASE UNCHANGED vars
  BY <1>11 DEF vars
<1> QED
  BY <1>1, <1>2, <1>3, <1>4, <1>5, <1>6, <1>7, <1>8, <1>9, <1>10, <1>11
  DEF Next, GroupStep, SiteStep, InstitutionStep

\* The tables stay well formed under every sequence of requests.
THEOREM TypeCorrect == Spec => []TypeOK
  BY InitType, NextType, PTL DEF Spec

-----------------------------------------------------------------------------
(***************************************************************************)
(* Party ids.  ActivePartyUnique and ActiveSitesInRange do not hold each   *)
(* on its own step by step: that deleting or shrinking a group set leaves  *)
(* its sites in range rests on their types, and a site joins a range that  *)
(* no other group set may claim because ranges are disjoint.               *)
(***************************************************************************)

IInv == TypeOK /\ ActivePartyUnique /\ ActiveSitesInRange /\ RangesDisjoint

\* A step that registers no site, moves none, and takes no valid group set or
\* range from under a site keeps the invariant about sites.
NoSiteEnters ==
    \A s \in ActiveSites(sites') :
        /\ s \in ActiveSites(sites)
        /\ sites'[s].pid = sites[s].pid
        /\ sites'[s].grp = sites[s].grp

GroupsKept ==
    \A g \in Groups : groups'[g].status = groups[g].status /\ groups'[g].ranges = groups[g].ranges

LEMMA SitesLeave ==
    ASSUME IInv, TypeOK', NoSiteEnters, GroupsKept
    PROVE  IInv'
<1>1. ActivePartyUnique'
  BY DEF IInv, ActivePartyUnique, NoSiteEnters
<1>2. ActiveSitesInRange'
  <2> SUFFICES ASSUME NEW s \in ActiveSites(sites')
               PROVE  PartyIdInRegion(groups', sites'[s].grp, sites'[s].pid)
    BY DEF ActiveSitesInRange
  <2>1. PartyIdInRegion(groups, sites'[s].grp, sites'[s].pid)
    BY DEF NoSiteEnters, IInv, ActiveSitesInRange
  <2>2. sites'[s].grp \in Groups
    BY ActiveRow DEF NoSiteEnters, IInv, TypeOK, SiteRow
  <2> QED
    BY <2>1, <2>2 DEF PartyIdInRegion, GroupsKept
<1>3. RangesDisjoint'
  BY DEF IInv, RangesDisjoint, GroupsKept
<1> QED
  BY <1>1, <1>2, <1>3 DEF IInv

LEMMA WithStatusEnters ==
    ASSUME TypeOK, NEW S \in SUBSET Sites, NEW v,
           sites' = WithStatus(sites, S, v),
           \A s \in S : sites[s] \in SiteRow,
           v \in {NotJoined, Joined} => S \subseteq ActiveSites(sites)
    PROVE  NoSiteEnters
<1> SUFFICES ASSUME NEW s \in ActiveSites(sites')
             PROVE  /\ s \in ActiveSites(sites)
                    /\ sites'[s].pid = sites[s].pid
                    /\ sites'[s].grp = sites[s].grp
  BY DEF NoSiteEnters
<1>1. s \in Sites /\ sites'[s].status \in {NotJoined, Joined}
  BY DEF ActiveSites
<1>2. CASE s \in S
  <2>1. sites'[s] = [sites[s] EXCEPT !.status = v]
    BY <1>1, <1>2 DEF WithStatus
  <2>2. sites'[s].status = v /\ sites'[s].pid = sites[s].pid /\ sites'[s].grp = sites[s].grp
    BY <1>2, <2>1 DEF SiteRow
  <2> QED
    BY <1>1, <1>2, <2>2
<1>3. CASE s \notin S
  BY <1>1, <1>3 DEF WithStatus, ActiveSites
<1> QED
  BY <1>2, <1>3

LEMMA UsedKeepsGroups ==
    ASSUME NEW gr \in GroupTable, NEW g \in Groups, NEW n
    PROVE  \A h \in Groups : /\ WithUsed(gr, g, n)[h].status = gr[h].status
                             /\ WithUsed(gr, g, n)[h].ranges = gr[h].ranges
  BY DEF WithUsed, GroupTable, GroupRow

LEMMA InitInv == Init => IInv
<1> SUFFICES ASSUME Init PROVE IInv
  OBVIOUS
<1>1. ActiveSites(sites) = {}
  BY DEF Init, ActiveSites, AbsentRow, Absent, NotJoined, Joined
<1>2. RangesDisjoint
  BY DEF Init, RangesDisjoint, AbsentGroup
<1> QED
  BY <1>1, <1>2, InitType DEF IInv, ActivePartyUnique, ActiveSitesInRange

-----------------------------------------------------------------------------
(* One lemma for each action that lets a site or a range in                *)

LEMMA AddGroupInv ==
    ASSUME IInv, TypeOK', NEW g \in Groups, NEW R \in SUBSET PartyIds, AddGroup(g, R)
    PROVE  IInv'
<1>1. groups'[g].ranges = R /\ \A h \in Groups \ {g} : groups'[h] = groups[h]
  BY DEF AddGroup, NewGroup, IInv, TypeOK, GroupTable
<1>2. \A s \in ActiveSites(sites) : sites[s].grp \in Groups \ {g}
  BY ActiveRow DEF AddGroup, IInv, TypeOK, ActiveSitesInRange, PartyIdInRegion, SiteRow, NoGroup, ValidGroup
<1>3. ActiveSitesInRange'
  <2>1. sites' = sites
    BY DEF AddGroup
  <2>2. \A s \in ActiveSites(sites) : PartyIdInRegion(groups, sites[s].grp, sites[s].pid)
    BY DEF IInv, ActiveSitesInRange
  <2>3. \A s \in ActiveSites(sites) : PartyIdInRegion(groups', sites[s].grp, sites[s].pid)
    BY <1>1, <1>2, <2>2 DEF PartyIdInRegion
  <2>4. QED
    BY <2>1, <2>3 DEF ActiveSitesInRange
<1>4. RangesDisjoint'
  BY <1>1 DEF AddGroup, RegionsFree, IInv, RangesDisjoint
<1>5. ActivePartyUnique'
  BY DEF AddGroup, IInv, ActivePartyUnique
<1> QED
  BY <1>3, <1>4, <1>5 DEF IInv

LEMMA UpdateGroupInv ==
    ASSUME IInv, TypeOK', NEW g \in Groups, NEW R \in SUBSET PartyIds, UpdateGroup(g, R)
    PROVE  IInv'
<1>1. /\ groups'[g].ranges = R
      /\ groups'[g].status = groups[g].status
      /\ \A h \in Groups \ {g} : groups'[h] = groups[h]
  BY DEF UpdateGroup, IInv, TypeOK, GroupTable, GroupRow
<1>2. ASSUME NEW s \in ActiveSites(sites)
      PROVE  PartyIdInRegion(groups', sites[s].grp, sites[s].pid)
  <2>1. s \in Sites /\ sites[s].grp \in Groups
    BY ActiveRow DEF IInv, TypeOK, SiteRow
  <2>2. CASE sites[s].grp = g
    BY <1>1, <2>1, <2>2 DEF UpdateGroup, RegionsCoverUsed, ActiveIn, PartyIdInRegion
  <2>3. CASE sites[s].grp # g
    BY <1>1, <2>1, <2>3 DEF IInv, ActiveSitesInRange, PartyIdInRegion
  <2> QED
    BY <2>2, <2>3
<1>3. ActiveSitesInRange'
  BY <1>2 DEF UpdateGroup, ActiveSitesInRange
<1>4. RangesDisjoint'
  <2>1. \A h \in Groups \ {g} : groups[h].ranges \cap R = {}
    BY DEF UpdateGroup, RegionsFree
  <2>2. RangesDisjoint
    BY DEF IInv
  <2>3. QED
    BY <1>1, <2>1, <2>2 DEF RangesDisjoint
<1>5. ActivePartyUnique'
  BY DEF UpdateGroup, IInv, ActivePartyUnique
<1> QED
  BY <1>3, <1>4, <1>5 DEF IInv

LEMMA DeleteGroupInv ==
    ASSUME IInv, TypeOK', NEW g \in Groups, DeleteGroup(g)
    PROVE  IInv'
<1>1. groups'[g].ranges = {} /\ \A h \in Groups \ {g} : groups'[h] = groups[h]
  BY DEF DeleteGroup, IInv, TypeOK, GroupTable, GroupRow
<1>2. \A s \in ActiveSites(sites) : sites[s].grp \in Groups \ {g}
  BY ActiveRow DEF DeleteGroup, ActiveIn, IInv, TypeOK, SiteRow
<1>3. ActiveSitesInRange'
  <2>1. sites' = sites
    BY DEF DeleteGroup
  <2>2. \A s \in ActiveSites(sites) : PartyIdInRegion(groups, sites[s].grp, sites[s].pid)
    BY DEF IInv, ActiveSitesInRange
  <2>3. \A s \in ActiveSites(sites) : PartyIdInRegion(groups', sites[s].grp, sites[s].pid)
    BY <1>1, <1>2, <2>2 DEF PartyIdInRegion
  <2>4. QED
    BY <2>1, <2>3 DEF ActiveSitesInRange
<1>4. RangesDisjoint'
  BY <1>1 DEF IInv, RangesDisjoint
<1>5. ActivePartyUnique'
  BY DEF DeleteGroup, IInv, ActivePartyUnique
<1> QED
  BY <1>3, <1>4, <1>5 DEF IInv

\* AddSite and UpdateSite both put site s, and no other, on a party id that no
\* other registered site holds, inside the ranges of a valid group set.
LEMMA SiteEnters ==
    ASSUME IInv, TypeOK', GroupsKept,
           NEW s \in Sites, NEW p \in PartyIds, NEW g \in Groups,
           sites'[s].pid = p, sites'[s].grp = g,
           \A x \in Sites \ {s} : sites'[x] = sites[x],
           ~PartyIdExists(sites, p, s),
           PartyIdInRegion(groups, g, p)
    PROVE  IInv'
<1>1. \A x \in ActiveSites(sites') \ {s} : x \in ActiveSites(sites) /\ sites'[x] = sites[x]
  BY DEF ActiveSites
<1>2. \A x \in ActiveSites(sites) \ {s} : sites[x].pid # p
  BY DEF PartyIdExists, ActiveOn
<1>3. ActivePartyUnique'
  BY <1>1, <1>2 DEF IInv, ActivePartyUnique
<1>4. PartyIdInRegion(groups', g, p)
  BY DEF GroupsKept, PartyIdInRegion
<1>5. ASSUME NEW x \in ActiveSites(sites') \ {s}
      PROVE  PartyIdInRegion(groups', sites'[x].grp, sites'[x].pid)
  <2>1. sites[x].grp \in Groups /\ PartyIdInRegion(groups, sites[x].grp, sites[x].pid)
    BY <1>1, ActiveRow DEF IInv, TypeOK, SiteRow, ActiveSitesInRange
  <2> QED
    BY <1>1, <2>1 DEF GroupsKept, PartyIdInRegion
<1>6. ActiveSitesInRange'
  BY <1>4, <1>5 DEF ActiveSitesInRange
<1>7. RangesDisjoint'
  BY DEF IInv, RangesDisjoint, GroupsKept
<1> QED
  BY <1>3, <1>6, <1>7 DEF IInv

LEMMA AddSiteInv ==
    ASSUME IInv, TypeOK', NEW s \in Sites, NEW p \in PartyIds, NEW g \in Groups,
           NEW i \in Institutions, AddSite(s, p, g, i)
    PROVE  IInv'
<1>1. sites'[s] = NewSite(p, g, i) /\ \A x \in Sites \ {s} : sites'[x] = sites[x]
  BY DEF AddSite, IInv, TypeOK, SiteTable
<1>2. sites'[s].pid = p /\ sites'[s].grp = g
  BY <1>1 DEF NewSite
<1>3. GroupsKept
  BY UsedKeepsGroups DEF AddSite, Take, IInv, TypeOK, GroupsKept
<1>4. ~PartyIdExists(sites, p, s)
  <2>1. None \notin ActiveOn(sites, p)
    BY NoneAssumption DEF ActiveOn, ActiveSites
  <2>2. ActiveOn(sites, p) \ {None} = {}
    BY DEF AddSite, PartyIdExists
  <2> QED
    BY <2>1, <2>2 DEF PartyIdExists
<1>5. PartyIdInRegion(groups, g, p)
  BY DEF AddSite
<1> QED
  BY <1>1, <1>2, <1>3, <1>4, <1>5, SiteEnters

LEMMA UpdateSiteInv ==
    ASSUME IInv, TypeOK', NEW s \in Sites, NEW p \in PartyIds, NEW g \in Groups,
           UpdateSite(s, p, g)
    PROVE  IInv'
<1>1. sites[s] \in SiteRow
  BY ActiveRow DEF UpdateSite, IInv, TypeOK
<1>2. /\ sites'[s].pid = p /\ sites'[s].grp = g
      /\ \A x \in Sites \ {s} : sites'[x] = sites[x]
  BY <1>1 DEF UpdateSite, IInv, TypeOK, SiteTable, SiteRow
<1>3. GroupsKept
  <2> DEFINE from == sites[s].grp
             gone == GiveBack(groups, groups, from)
  <2>1. from \in Groups
    BY <1>1 DEF SiteRow
  <2>2. gone \in GroupTable
    BY <2>1, WithUsedType, UsedIsInt DEF GiveBack, IInv, TypeOK
  <2>3. \A h \in Groups : gone[h].status = groups[h].status /\ gone[h].ranges = groups[h].ranges
    BY <2>1, UsedKeepsGroups DEF GiveBack, IInv, TypeOK
  <2>4. CASE from = g
    BY <2>4, UsedKeepsGroups DEF UpdateSite, Move, IInv, TypeOK, GroupsKept
  <2>5. CASE from # g
    <3>1. groups' = WithUsed(gone, g, groups[g].used + 1)
      BY <2>5 DEF UpdateSite, Move, Take
    <3> QED
      BY <2>2, <2>3, <3>1, UsedKeepsGroups DEF GroupsKept
  <2> QED
    BY <2>4, <2>5
<1>4. ~PartyIdExists(sites, p, s) /\ PartyIdInRegion(groups, g, p)
  BY DEF UpdateSite
<1> QED
  BY <1>2, <1>3, <1>4, SiteEnters

-----------------------------------------------------------------------------
(* The actions after which only sites leave                                *)

LEMMA DeleteSiteInv ==
    ASSUME IInv, TypeOK', NEW s \in Sites, DeleteSite(s)
    PROVE  IInv'
<1>1. sites[s] \in SiteRow
  BY ActiveRow DEF DeleteSite, IInv, TypeOK
<1>2. NoSiteEnters
  BY <1>1, WithStatusEnters DEF DeleteSite, IInv, Removed, NotJoined, Joined
<1>3. GroupsKept
  BY <1>1, UsedKeepsGroups DEF DeleteSite, GiveBack, IInv, TypeOK, SiteRow, GroupsKept
<1> QED
  BY <1>2, <1>3, SitesLeave

LEMMA ActivateInv ==
    ASSUME IInv, TypeOK', NEW p \in PartyIds, ActivateSite(p) \/ ShortLinkActivateSite(p)
    PROVE  IInv'
<1>1. ActiveOn(sites, p) \subseteq ActiveSites(sites) /\ ActiveOn(sites, p) \in SUBSET Sites
  BY DEF ActiveOn, ActiveSites
<1>2. \A s \in ActiveOn(sites, p) : sites[s] \in SiteRow
  BY <1>1, ActiveRow DEF IInv, TypeOK
<1>3. sites' = WithStatus(sites, ActiveOn(sites, p), Joined)
  BY DEF ActivateSite, ShortLinkActivateSite
<1>4. NoSiteEnters
  BY <1>1, <1>2, <1>3, WithStatusEnters DEF IInv
<1>5. GroupsKept
  BY DEF ActivateSite, ShortLinkActivateSite, GroupsKept
<1> QED
  BY <1>4, <1>5, SitesLeave

LEMMA ReactivateInv ==
    ASSUME IInv, TypeOK', NEW s \in Sites, NEW p \in PartyIds, ReactivateSite(s, p)
    PROVE  IInv'
<1> DEFINE hit == {x \in {s} : sites[x].pid = p /\ sites[x].status = Joined}
<1>1. hit \in SUBSET Sites /\ hit \subseteq ActiveSites(sites)
  BY DEF ActiveSites
<1>2. \A x \in hit : sites[x] \in SiteRow
  BY <1>1, ActiveRow DEF IInv, TypeOK
<1>3. sites' = WithStatus(sites, hit, NotJoined)
  BY DEF ReactivateSite
<1>4. NoSiteEnters
  <2> HIDE DEF hit
  <2> QED
    BY <1>1, <1>2, <1>3, WithStatusEnters DEF IInv
<1>5. GroupsKept
  BY DEF ReactivateSite, GroupsKept
<1> QED
  BY <1>4, <1>5, SitesLeave

LEMMA DeleteInstitutionInv ==
    ASSUME IInv, TypeOK', NEW i \in Institutions, DeleteInstitution(i)
    PROVE  IInv'
<1> DEFINE active == SitesOf(sites, i) \cap ActiveSites(sites)
<1>1. active \in SUBSET Sites /\ \A s \in active : sites[s] \in SiteRow
  BY ActiveRow DEF SitesOf, IInv, TypeOK
<1>2. sites' = WithStatus(sites, active, Removed)
  BY DEF DeleteInstitution
<1>3. NoSiteEnters
  <2> HIDE DEF active
  <2> QED
    BY <1>1, <1>2, WithStatusEnters DEF IInv, Removed, NotJoined, Joined
<1>4. groups' = GiveBackAll(groups, groups, sites, active)
  BY DEF DeleteInstitution
<1>5. GroupsKept
  <2> HIDE DEF active
  <2> SUFFICES ASSUME NEW g \in Groups
               PROVE  groups'[g].status = groups[g].status /\ groups'[g].ranges = groups[g].ranges
    BY DEF GroupsKept
  <2>1. groups[g] \in GroupRow
    BY DEF IInv, TypeOK, GroupTable
  <2> QED
    BY <1>4, <2>1 DEF GiveBackAll, GroupRow
<1> QED
  BY <1>3, <1>5, SitesLeave

LEMMA DeleteFateManagerUserInv ==
    ASSUME IInv, TypeOK', NEW i \in Institutions, DeleteFateManagerUser(i)
    PROVE  IInv'
<1>1. SitesOf(sites, i) \in SUBSET Sites /\ \A s \in SitesOf(sites, i) : sites[s] \in SiteRow
  BY RowStatus DEF SitesOf, IInv, TypeOK
<1>2. NoSiteEnters
  BY <1>1, WithStatusEnters DEF DeleteFateManagerUser, IInv, Removed, NotJoined, Joined
<1>3. GroupsKept
  BY DEF DeleteFateManagerUser, GroupsKept
<1> QED
  BY <1>2, <1>3, SitesLeave

LEMMA NextInv == IInv /\ [Next]_vars => IInv'
<1> SUFFICES ASSUME IInv, [Next]_vars
             PROVE  IInv'
  OBVIOUS
<1>1. TypeOK'
  BY NextType DEF IInv
<1>2. ASSUME NEW p \in PartyIds, PublishParty(p)
      PROVE  IInv'
  BY <1>1, <1>2, SitesLeave DEF PublishParty, NoSiteEnters, GroupsKept
<1>3. CASE UNCHANGED vars
  BY <1>1, <1>3, SitesLeave DEF vars, NoSiteEnters, GroupsKept
<1> QED
  BY <1>1, <1>2, <1>3, AddGroupInv, UpdateGroupInv, DeleteGroupInv, AddSiteInv, UpdateSiteInv,
     DeleteSiteInv, ActivateInv, ReactivateInv, DeleteInstitutionInv, DeleteFateManagerUserInv
  DEF Next, GroupStep, SiteStep, InstitutionStep

\* No sequence of requests, each taken at once, gives a party id to two sites.
THEOREM PartyIdsUnique == Spec => []ActivePartyUnique
<1>1. IInv => ActivePartyUnique
  BY DEF IInv
<1> QED
  BY InitInv, NextInv, <1>1, PTL DEF Spec

\* No sequence of requests leaves a registered site without a valid group set
\* whose ranges contain its party id.
THEOREM SitesInRange == Spec => []ActiveSitesInRange
<1>1. IInv => ActiveSitesInRange
  BY DEF IInv
<1> QED
  BY InitInv, NextInv, <1>1, PTL DEF Spec

\* No sequence of requests gives a party id to the ranges of two group sets.
THEOREM GroupRangesDisjoint == Spec => []RangesDisjoint
<1>1. IInv => RangesDisjoint
  BY DEF IInv
<1> QED
  BY InitInv, NextInv, <1>1, PTL DEF Spec

-----------------------------------------------------------------------------
(***************************************************************************)
(* The count of party ids in use.  Every request but the deletion of a     *)
(* FATE Manager user, which leaves used as it is, keeps it exact; that it  *)
(* stays below total when a group set is updated rests on the invariant    *)
(* above: the sites of a group set have distinct party ids, all of them in *)
(* its new ranges.                                                         *)
(***************************************************************************)

Counted ==
    \A g \in Groups :
        /\ groups[g].used = Cardinality(ActiveIn(sites, g))
        /\ groups[g].used <= groups[g].total

CountingStep == GroupStep \/ SiteStep \/ \E i \in Institutions : DeleteInstitution(i)

LEMMA ActiveInFinite ==
    ASSUME NEW st, NEW g
    PROVE  IsFiniteSet(ActiveIn(st, g)) /\ Cardinality(ActiveIn(st, g)) \in Nat
<1>1. ActiveIn(st, g) \in SUBSET Sites
  BY DEF ActiveIn, ActiveSites
<1>2. QED
  BY <1>1, FiniteAssumption, FS_Subset, FS_CardinalityType

LEMMA GroupFields ==
    ASSUME TypeOK, NEW g \in Groups
    PROVE  groups[g] \in GroupRow /\ groups[g].used \in Int /\ groups[g].total \in Nat
  BY DEF TypeOK, GroupTable, GroupRow

\* No site enters or leaves a group set, and no count changes.
LEMMA CountKept ==
    ASSUME Counted,
           \A g \in Groups : /\ ActiveIn(sites', g) = ActiveIn(sites, g)
                             /\ groups'[g].used = groups[g].used
                             /\ groups'[g].total = groups[g].total
    PROVE  Counted'
  BY DEF Counted

\* What is known of a group set before a step.
LEMMA CountAt ==
    ASSUME IInv, Counted, NEW g \in Groups
    PROVE  /\ groups[g].used = Cardinality(ActiveIn(sites, g))
           /\ groups[g].used <= groups[g].total
           /\ groups[g].used \in Int /\ groups[g].total \in Int
  BY GroupFields DEF IInv, Counted

LEMMA StatusCount ==
    ASSUME IInv, Counted, NEW S \in SUBSET ActiveSites(sites), NEW v \in {NotJoined, Joined},
           sites' = WithStatus(sites, S, v), groups' = groups
    PROVE  Counted'
<1>1. \A s \in S : s \in Sites /\ sites[s] \in SiteRow
  BY ActiveRow DEF IInv, TypeOK
<1>2. \A s \in Sites : sites'[s] = IF s \in S THEN [sites[s] EXCEPT !.status = v] ELSE sites[s]
  BY DEF WithStatus
<1>3. \A s \in S : sites'[s].status = v /\ sites'[s].grp = sites[s].grp
  BY <1>1, <1>2 DEF SiteRow
<1>4. \A g : ActiveIn(sites', g) = ActiveIn(sites, g)
  BY <1>2, <1>3 DEF ActiveIn, ActiveSites
<1>5. QED
  BY <1>4, CountKept

LEMMA UsedWritten ==
    ASSUME NEW gr \in GroupTable, NEW g \in Groups, NEW n
    PROVE  \A h \in Groups : /\ WithUsed(gr, g, n)[h].used = IF h = g THEN n ELSE gr[h].used
                             /\ WithUsed(gr, g, n)[h].total = gr[h].total
  BY DEF WithUsed, GroupTable, GroupRow

LEMMA AddSiteCount ==
    ASSUME IInv, Counted, NEW s \in Sites, NEW p \in PartyIds, NEW g \in Groups,
           NEW i \in Institutions, AddSite(s, p, g, i)
    PROVE  Counted'
<1>1. sites'[s] = NewSite(p, g, i) /\ \A x \in Sites \ {s} : sites'[x] = sites[x]
  BY DEF AddSite, IInv, TypeOK, SiteTable
<1>2. sites'[s].grp = g /\ sites'[s].status = NotJoined
  BY <1>1 DEF NewSite
<1>3. s \notin ActiveSites(sites)
  BY DEF AddSite, ActiveSites, Absent, NotJoined, Joined
<1>4. \A h : ActiveIn(sites', h) = IF h = g THEN ActiveIn(sites, h) \cup {s} ELSE ActiveIn(sites, h)
  BY <1>1, <1>2, <1>3 DEF ActiveIn, ActiveSites
<1>5. \A h \in Groups : /\ groups'[h].used = IF h = g THEN groups[g].used + 1 ELSE groups[h].used
                        /\ groups'[h].total = groups[h].total
  BY UsedWritten DEF AddSite, Take, IInv, TypeOK
<1>6. groups[g].used < groups[g].total
  BY DEF AddSite, CanTake
<1>7. Cardinality(ActiveIn(sites, g) \cup {s}) = Cardinality(ActiveIn(sites, g)) + 1
  <2>1. s \notin ActiveIn(sites, g)
    BY <1>3 DEF ActiveIn
  <2>2. QED
    BY <2>1, ActiveInFinite, FS_AddElement
<1>8. groups[g].used + 1 = Cardinality(ActiveIn(sites', g)) /\ groups[g].used + 1 <= groups[g].total
  BY <1>4, <1>6, <1>7, CountAt
<1>9. ASSUME NEW h \in Groups
      PROVE  /\ groups'[h].used = Cardinality(ActiveIn(sites', h))
             /\ groups'[h].used <= groups'[h].total
  <2>1. CASE h = g
    BY <1>5, <1>8, <2>1
  <2>2. CASE h # g
    BY <1>4, <1>5, <2>2, CountAt
  <2>3. QED
    BY <2>1, <2>2
<1>10. QED
  BY <1>9 DEF Counted

LEMMA DeleteSiteCount ==
    ASSUME IInv, Counted, NEW s \in Sites, DeleteSite(s)
    PROVE  Counted'
<1> DEFINE g == sites[s].grp
<1>1. s \in ActiveSites(sites) /\ sites[s] \in SiteRow /\ g \in Groups
  BY ActiveRow DEF DeleteSite, IInv, TypeOK, SiteRow
<1>2. /\ sites'[s].status = Removed
      /\ \A x \in Sites \ {s} : sites'[x] = sites[x]
  BY <1>1 DEF DeleteSite, WithStatus, SiteRow
<1>3. \A h : ActiveIn(sites', h) = IF h = g THEN ActiveIn(sites, h) \ {s} ELSE ActiveIn(sites, h)
  BY <1>1, <1>2 DEF ActiveIn, ActiveSites, Removed, NotJoined, Joined
<1>4. \A h \in Groups : /\ groups'[h].used = IF h = g THEN groups[g].used - 1 ELSE groups[h].used
                        /\ groups'[h].total = groups[h].total
  BY <1>1, UsedWritten DEF DeleteSite, GiveBack, IInv, TypeOK
<1>5. Cardinality(ActiveIn(sites, g) \ {s}) = Cardinality(ActiveIn(sites, g)) - 1
  <2>1. s \in ActiveIn(sites, g)
    BY <1>1 DEF ActiveIn
  <2>2. QED
    BY <2>1, ActiveInFinite, FS_RemoveElement
<1>6. groups[g].used - 1 = Cardinality(ActiveIn(sites', g)) /\ groups[g].used - 1 <= groups[g].total
  <2>1. ActiveIn(sites', g) = ActiveIn(sites, g) \ {s}
    BY <1>3
  <2> HIDE DEF g
  <2>2. /\ groups[g].used = Cardinality(ActiveIn(sites, g))
        /\ groups[g].used <= groups[g].total
        /\ groups[g].used \in Int /\ groups[g].total \in Int
    BY <1>1, CountAt
  <2>3. QED
    BY <1>5, <2>1, <2>2
<1> HIDE DEF g
<1>7. ASSUME NEW h \in Groups
      PROVE  /\ groups'[h].used = Cardinality(ActiveIn(sites', h))
             /\ groups'[h].used <= groups'[h].total
  <2>1. CASE h = g
    BY <1>4, <1>6, <2>1
  <2>2. CASE h # g
    BY <1>3, <1>4, <2>2, CountAt
  <2>3. QED
    BY <2>1, <2>2
<1>8. QED
  BY <1>7 DEF Counted

LEMMA UpdateSiteCount ==
    ASSUME IInv, Counted, NEW s \in Sites, NEW p \in PartyIds, NEW g \in Groups,
           UpdateSite(s, p, g)
    PROVE  Counted'
<1> DEFINE from == sites[s].grp
<1>1. s \in ActiveSites(sites) /\ sites[s] \in SiteRow /\ from \in Groups
  BY ActiveRow DEF UpdateSite, IInv, TypeOK, SiteRow
<1>2. /\ sites'[s].grp = g /\ sites'[s].status = sites[s].status
      /\ \A x \in Sites \ {s} : sites'[x] = sites[x]
  BY <1>1 DEF UpdateSite, IInv, TypeOK, SiteTable, SiteRow
<1>3. CASE from = g
  <2>1. \A h : ActiveIn(sites', h) = ActiveIn(sites, h)
    BY <1>1, <1>2, <1>3 DEF ActiveIn, ActiveSites
  <2>2. groups' = WithUsed(groups, g, groups[g].used)
    BY <1>3 DEF UpdateSite, Move
  <2>3. QED
    BY <2>1, <2>2, UsedWritten, CountKept DEF IInv, TypeOK
<1>4. CASE from # g
  <2> DEFINE gone == GiveBack(groups, groups, from)
  <2>1. \A h : ActiveIn(sites', h) = IF h = from THEN ActiveIn(sites, h) \ {s}
                                     ELSE IF h = g THEN ActiveIn(sites, h) \cup {s}
                                     ELSE ActiveIn(sites, h)
    BY <1>1, <1>2, <1>4 DEF ActiveIn, ActiveSites
  <2>2. gone \in GroupTable
    BY <1>1, WithUsedType, UsedIsInt DEF GiveBack, IInv, TypeOK
  <2>3. \A h \in Groups : /\ gone[h].used = IF h = from THEN groups[from].used - 1 ELSE groups[h].used
                          /\ gone[h].total = groups[h].total
    BY <1>1, UsedWritten DEF GiveBack, IInv, TypeOK
  <2>4. groups' = WithUsed(gone, g, groups[g].used + 1) /\ groups[g].used < groups[g].total
    BY <1>4 DEF UpdateSite, Move, Take, CanMove, CanTake
  <2> HIDE DEF gone
  <2>5. \A h \in Groups : /\ groups'[h].used = IF h = g THEN groups[g].used + 1 ELSE gone[h].used
                          /\ groups'[h].total = gone[h].total
    BY <2>2, <2>4, UsedWritten
  <2>6. Cardinality(ActiveIn(sites, from) \ {s}) = Cardinality(ActiveIn(sites, from)) - 1
    <3>1. s \in ActiveIn(sites, from)
      BY <1>1 DEF ActiveIn
    <3>2. QED
      BY <3>1, ActiveInFinite, FS_RemoveElement
  <2>7. Cardinality(ActiveIn(sites, g) \cup {s}) = Cardinality(ActiveIn(sites, g)) + 1
    <3>1. s \notin ActiveIn(sites, g)
      BY <1>4 DEF ActiveIn
    <3>2. QED
      BY <3>1, ActiveInFinite, FS_AddElement
  <2> HIDE DEF from
  <2>8. /\ groups[from].used - 1 = Cardinality(ActiveIn(sites', from))
        /\ groups[from].used - 1 <= groups[from].total
        /\ groups[g].used + 1 = Cardinality(ActiveIn(sites', g))
        /\ groups[g].used + 1 <= groups[g].total
    <3>1. /\ ActiveIn(sites', from) = ActiveIn(sites, from) \ {s}
          /\ ActiveIn(sites', g) = ActiveIn(sites, g) \cup {s}
      BY <1>4, <2>1
    <3>2. QED
      BY <1>1, <2>4, <2>6, <2>7, <3>1, CountAt
  <2>9. ASSUME NEW h \in Groups
        PROVE  /\ groups'[h].used = Cardinality(ActiveIn(sites', h))
               /\ groups'[h].used <= groups'[h].total
    <3>1. CASE h = from
      BY <1>4, <2>3, <2>5, <2>8, <3>1
    <3>2. CASE h = g
      BY <2>3, <2>5, <2>8, <3>2
    <3>3. CASE h # from /\ h # g
      BY <2>1, <2>3, <2>5, <3>3, CountAt
    <3>4. QED
      BY <3>1, <3>2, <3>3
  <2>10. QED
    BY <2>9 DEF Counted
<1>5. QED
  BY <1>3, <1>4

LEMMA DeleteInstitutionCount ==
    ASSUME IInv, Counted, NEW i \in Institutions, DeleteInstitution(i)
    PROVE  Counted'
<1> DEFINE active == SitesOf(sites, i) \cap ActiveSites(sites)
           Left(g) == {s \in active : sites[s].grp = g}
<1>1. active \in SUBSET Sites /\ \A s \in active : sites[s] \in SiteRow
  BY ActiveRow DEF SitesOf, IInv, TypeOK
<1>2. \A s \in Sites : /\ s \in active => sites'[s].status = Removed
                       /\ s \notin active => sites'[s] = sites[s]
  <2>1. sites' = WithStatus(sites, active, Removed)
    BY DEF DeleteInstitution
  <2> HIDE DEF active
  <2>2. QED
    BY <1>1, <2>1 DEF WithStatus, SiteRow
<1>3. \A g : ActiveIn(sites', g) = ActiveIn(sites, g) \ Left(g)
  BY <1>2 DEF ActiveIn, ActiveSites, Removed, NotJoined, Joined
<1>4. \A g : ActiveIn(sites, g) \cap Left(g) = Left(g)
  BY DEF ActiveIn
<1>5. groups' = GiveBackAll(groups, groups, sites, active)
  BY DEF DeleteInstitution
<1>6. \A g : Leaving(sites, active, g) = Cardinality(Left(g))
  BY DEF Leaving
<1> HIDE DEF active
<1>7. ASSUME NEW g \in Groups
      PROVE  /\ Cardinality(Left(g)) \in Nat
             /\ Cardinality(ActiveIn(sites', g)) = groups[g].used - Cardinality(Left(g))
  <2>1. Left(g) \in SUBSET Sites
    BY <1>1
  <2> HIDE DEF Left
  <2>2. Cardinality(Left(g)) \in Nat
    BY <2>1, FiniteAssumption, FS_Subset, FS_CardinalityType
  <2>3. Cardinality(ActiveIn(sites, g) \ Left(g)) = Cardinality(ActiveIn(sites, g)) - Cardinality(Left(g))
    <3>1. IsFiniteSet(ActiveIn(sites, g))
      BY ActiveInFinite
    <3>2. Cardinality(ActiveIn(sites, g) \ Left(g))
            = Cardinality(ActiveIn(sites, g)) - Cardinality(ActiveIn(sites, g) \cap Left(g))
      BY <3>1, FS_Difference
    <3>3. ActiveIn(sites, g) \cap Left(g) = Left(g)
      BY <1>4
    <3>4. QED
      BY <3>2, <3>3
  <2>4. ActiveIn(sites', g) = ActiveIn(sites, g) \ Left(g)
    BY <1>3
  <2>5. groups[g].used = Cardinality(ActiveIn(sites, g))
    BY DEF Counted
  <2>6. QED
    BY <2>2, <2>3, <2>4, <2>5
<1> HIDE DEF Left
<1>8. ASSUME NEW g \in Groups
      PROVE  /\ groups'[g].used = Cardinality(ActiveIn(sites', g))
             /\ groups'[g].used <= groups'[g].total
  <2>1. /\ groups[g] \in GroupRow /\ groups[g].used \in Int /\ groups[g].total \in Nat
    BY GroupFields DEF IInv
  <2>2. groups'[g].used = groups[g].used - Cardinality(Left(g)) /\ groups'[g].total = groups[g].total
    BY <1>5, <1>6, <1>7, <2>1 DEF GiveBackAll, GroupRow
  <2>3. groups[g].used <= groups[g].total
    BY DEF Counted
  <2>4. QED
    BY <1>7, <2>1, <2>2, <2>3
<1>9. QED
  BY <1>8 DEF Counted

LEMMA GroupCount ==
    ASSUME IInv, Counted, GroupStep
    PROVE  Counted'
<1>1. ASSUME NEW g \in Groups, DeleteGroup(g)
      PROVE  Counted'
  <2>1. \A h \in Groups : groups'[h].used = groups[h].used /\ groups'[h].total = groups[h].total
    BY <1>1 DEF DeleteGroup, IInv, TypeOK, GroupTable, GroupRow
  <2>2. QED
    BY <1>1, <2>1, CountKept DEF DeleteGroup
<1>2. ASSUME NEW g \in Groups, NEW R \in SUBSET PartyIds, AddGroup(g, R)
      PROVE  Counted'
  <2>1. ActiveIn(sites, g) = {}
    BY <1>2 DEF AddGroup, ActiveIn, IInv, ActiveSitesInRange, PartyIdInRegion, NoGroup, ValidGroup
  <2>2. /\ groups'[g].used = 0 /\ groups'[g].total = Cardinality(R)
        /\ \A h \in Groups : h # g => groups'[h] = groups[h]
        /\ sites' = sites
    BY <1>2 DEF AddGroup, NewGroup, IInv, TypeOK, GroupTable
  <2>3. ASSUME NEW h \in Groups
        PROVE  /\ groups'[h].used = Cardinality(ActiveIn(sites', h))
               /\ groups'[h].used <= groups'[h].total
    <3>1. CASE h = g
      BY <2>1, <2>2, <3>1, FS_EmptySet, RangesCardinality
    <3>2. CASE h # g
      BY <2>2, <3>2, CountAt
    <3>3. QED
      BY <3>1, <3>2
  <2>4. QED
    BY <2>3 DEF Counted
<1>3. ASSUME NEW g \in Groups, NEW R \in SUBSET PartyIds, UpdateGroup(g, R)
      PROVE  Counted'
  <2> DEFINE A == ActiveIn(sites, g)  f == [s \in A |-> sites[s].pid]
  <2>1. f \in [A -> R]
    BY <1>3 DEF UpdateGroup, RegionsCoverUsed
  <2>2. \A s, t \in A : f[s] = f[t] => s = t
    BY DEF ActiveIn, IInv, ActivePartyUnique
  <2>3. Cardinality(A) <= Cardinality(R)
    <3>1. IsFiniteSet(A) /\ Cardinality(A) \in Nat /\ IsFiniteSet(R) /\ Cardinality(R) \in Nat
      BY ActiveInFinite, RangesCardinality, FiniteAssumption, FS_Subset
    <3> HIDE DEF A, f
    <3>2. ~(Cardinality(R) < Cardinality(A))
      BY <2>1, <2>2, <3>1, FS_PigeonHole
    <3>3. QED
      BY <3>1, <3>2
  <2>4. /\ groups'[g].used = groups[g].used /\ groups'[g].total = Cardinality(R)
        /\ \A h \in Groups : h # g => groups'[h] = groups[h]
        /\ sites' = sites
    BY <1>3 DEF UpdateGroup, IInv, TypeOK, GroupTable, GroupRow
  <2>5. ASSUME NEW h \in Groups
        PROVE  /\ groups'[h].used = Cardinality(ActiveIn(sites', h))
               /\ groups'[h].used <= groups'[h].total
    <3>1. CASE h = g
      BY <2>3, <2>4, <3>1, CountAt
    <3>2. CASE h # g
      BY <2>4, <3>2, CountAt
    <3>3. QED
      BY <3>1, <3>2
  <2>6. QED
    BY <2>5 DEF Counted
<1>4. QED
  BY <1>1, <1>2, <1>3 DEF GroupStep

LEMMA CountHolds ==
    ASSUME IInv, Counted, CountingStep \/ UNCHANGED vars
    PROVE  Counted'
<1>1. ASSUME NEW p \in PartyIds, ActivateSite(p) \/ ShortLinkActivateSite(p)
      PROVE  Counted'
  <2>1. ActiveOn(sites, p) \in SUBSET ActiveSites(sites)
    BY DEF ActiveOn
  <2>2. QED
    BY <1>1, <2>1, StatusCount DEF ActivateSite, ShortLinkActivateSite
<1>2. ASSUME NEW s \in Sites, NEW p \in PartyIds, ReactivateSite(s, p)
      PROVE  Counted'
  <2> DEFINE hit == {x \in {s} : sites[x].pid = p /\ sites[x].status = Joined}
  <2>1. hit \in SUBSET ActiveSites(sites)
    BY DEF ActiveSites
  <2>2. sites' = WithStatus(sites, hit, NotJoined) /\ groups' = groups
    BY <1>2 DEF ReactivateSite
  <2> HIDE DEF hit
  <2>3. QED
    BY <2>1, <2>2, StatusCount
<1>3. ASSUME NEW p \in PartyIds, PublishParty(p)
      PROVE  Counted'
  BY <1>3, CountKept DEF PublishParty
<1>4. CASE SiteStep
  BY <1>1, <1>2, <1>3, <1>4, AddSiteCount, UpdateSiteCount, DeleteSiteCount DEF SiteStep
<1>5. CASE UNCHANGED vars
  BY <1>5, CountKept DEF vars
<1>6. QED
  BY <1>4, <1>5, GroupCount, DeleteInstitutionCount DEF CountingStep

\* As long as no FATE Manager user is deleted, used is the number of party ids
\* in use, and no group set counts more than its total.
THEOREM UsedCounts == Init /\ [][CountingStep]_vars => []Counted
<1>1. Init => IInv /\ Counted
  <2> SUFFICES ASSUME Init PROVE IInv /\ Counted
    OBVIOUS
  <2>1. \A g : ActiveIn(sites, g) = {}
    BY DEF Init, ActiveIn, ActiveSites, AbsentRow, Absent, NotJoined, Joined
  <2>2. \A g \in Groups : groups[g].used = 0 /\ groups[g].total = 0
    BY DEF Init, AbsentGroup
  <2>3. QED
    BY <2>1, <2>2, InitInv, FS_EmptySet DEF Counted
<1>2. IInv /\ Counted /\ [CountingStep]_vars => (IInv /\ Counted)'
  <2>1. CountingStep => Next
    BY DEF CountingStep, Next, InstitutionStep
  <2>2. QED
    BY <2>1, NextInv, CountHolds
<1>3. QED
  BY <1>1, <1>2, PTL
=============================================================================
