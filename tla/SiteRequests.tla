---------------------------- MODULE SiteRequests ----------------------------
(***************************************************************************)
(* The site registry as its HTTP requests run it.  A facade method checks  *)
(* its conditions with queries of their own, each committed before the     *)
(* next; only then does the service open a transaction, whose queries read *)
(* the snapshot taken by the first of them, while its updates meet the     *)
(* rows as they are.  Every query, and every commit, is a step, and the    *)
(* steps of different requests interleave.                                 *)
(*                                                                         *)
(* Site names, group names and signatures play no part in the properties:  *)
(* a request they refuse is a request that is not made.                    *)
(***************************************************************************)
EXTENDS RegistryRows

CONSTANTS
    Admins,         \* server threads with requests of administrators
    Installers,     \* server threads with requests that activate sites
    Operations,     \* the administrators' operations of this instance
    Links           \* the kinds of activation: subset of {"long", "short"}

ASSUME ThreadAssumption == Admins \cap Installers = {}
ASSUME LinkAssumption == Links \subseteq {"long", "short"}

VARIABLES
    pc,                     \* pc[t]: where the request of thread t is
    req,                    \* req[t]: its parameters and the values it keeps
    snap                    \* snap[t]: the tables its transaction reads

tables == <<sites, groups, party>>
vars == <<sites, groups, party, pc, req, snap>>

Threads == Admins \cup Installers

\* todo: the party ids whose ranges updateGroup has still to insert.
NoRequest == [site |-> None, pid |-> None, grp |-> None, inst |-> None,
              origin |-> None, ranges |-> {}, todo |-> {}]
Request == [site: Sites \cup {None}, pid: PartyIds \cup {None},
            grp: Groups \cup {None}, inst: Institutions \cup {None},
            origin: Groups \cup {None}, ranges: SUBSET PartyIds, todo: SUBSET PartyIds]

NoSnapshot == [sites |-> [s \in Sites |-> AbsentRow], groups |-> [g \in Groups |-> AbsentGroup]]
Snapshot == [sites: SiteTable, groups: GroupTable]

\* Where a request can be: about to make the query or the commit named.
InTransaction == {"add commit", "update commit", "delete commit", "reactivate commit",
                  "add group commit", "delete group commit", "institution commit",
                  "short commit"}
Rewriting == {"clear ranges", "insert ranges"}
Label == {"idle", "add party", "add read", "update site", "update group", "update read",
          "delete read", "reactivate read", "group used", "group status", "group total",
          "link", "signature", "activate", "short signature", "short read"}
         \cup InTransaction \cup Rewriting

Init ==
    /\ sites  = [s \in Sites |-> AbsentRow]
    /\ groups = [g \in Groups |-> AbsentGroup]
    /\ party  = [p \in PartyIds |-> "none"]
    /\ pc   = [t \in Threads |-> "idle"]
    /\ req  = [t \in Threads |-> NoRequest]
    /\ snap = [t \in Threads |-> NoSnapshot]

-----------------------------------------------------------------------------
(* How a request moves on                                                  *)

At(t, here) == pc[t] = here

Start(t, next, r) ==
    /\ At(t, "idle")
    /\ pc' = [pc EXCEPT ![t] = next]
    /\ req' = [req EXCEPT ![t] = r]
    /\ UNCHANGED <<tables, snap>>

Continue(t, next) ==
    /\ pc' = [pc EXCEPT ![t] = next]
    /\ UNCHANGED <<tables, req, snap>>

\* The first query of a transaction fixes what its later queries see.
ReadSnapshot(t, next) ==
    /\ pc' = [pc EXCEPT ![t] = next]
    /\ snap' = [snap EXCEPT ![t] = [sites |-> sites, groups |-> groups]]
    /\ UNCHANGED <<tables, req>>

Answer(t) ==
    /\ pc' = [pc EXCEPT ![t] = "idle"]
    /\ req' = [req EXCEPT ![t] = NoRequest]
    /\ snap' = [snap EXCEPT ![t] = NoSnapshot]

\* A check that fails answers with an error code.
Refuse(t) == Answer(t) /\ UNCHANGED tables

\* A transaction fails as a whole: an update of used matches no row, the roll
\* site does not answer, the database breaks a deadlock, the server stops.
Rollback(t) == pc[t] \in InTransaction /\ Refuse(t)

-----------------------------------------------------------------------------
(* addSiteNew, addSite                                                     *)

AddSiteCheckRegion(a) ==
    \E p \in PartyIds, g \in Groups, i \in Institutions :
        /\ PartyIdInRegion(groups, g, p)
        /\ Start(a, "add party", [NoRequest EXCEPT !.pid = p, !.grp = g, !.inst = i])

AddSiteCheckParty(a) ==
    /\ At(a, "add party")
    /\ \/ ~PartyIdExists(sites, req[a].pid, None) /\ Continue(a, "add read")
       \/ PartyIdExists(sites, req[a].pid, None) /\ Refuse(a)

AddSiteRead(a) == At(a, "add read") /\ ReadSnapshot(a, "add commit")

AddSiteCommit(a) ==
    LET g == req[a].grp
        read == snap[a].groups
    IN  /\ At(a, "add commit")
        /\ CanTake(groups, read, g)
        /\ \E s \in Sites :
            /\ sites[s].status = Absent
            /\ sites' = [sites EXCEPT ![s] = NewSite(req[a].pid, g, req[a].inst)]
        /\ groups' = Take(groups, read, g)
        /\ UNCHANGED party
        /\ Answer(a)

-----------------------------------------------------------------------------
(* updateSiteNew, updateSite                                               *)

UpdateSiteCheckParty(a) ==
    \E s \in Sites, p \in PartyIds, g \in Groups :
        /\ sites[s].status # Absent
        /\ ~PartyIdExists(sites, p, s)
        /\ Start(a, "update site", [NoRequest EXCEPT !.site = s, !.pid = p, !.grp = g])

UpdateSiteCheckSite(a) ==
    LET row == sites[req[a].site]
    IN  /\ At(a, "update site")
        /\ \/ /\ row.status = NotJoined
              /\ pc' = [pc EXCEPT ![a] = "update group"]
              /\ req' = [req EXCEPT ![a].origin = row.grp]
              /\ UNCHANGED <<tables, snap>>
           \/ row.status # NotJoined /\ Refuse(a)

\* Mutated form: the region of the new party id is not checked.
UpdateSiteSkipRegion(a) == At(a, "update group") /\ Continue(a, "update read")

UpdateSiteCheckRegion(a) ==
    /\ At(a, "update group")
    /\ \/ PartyIdInRegion(groups, req[a].grp, req[a].pid) /\ Continue(a, "update read")
       \/ ~PartyIdInRegion(groups, req[a].grp, req[a].pid) /\ Refuse(a)

UpdateSiteRead(a) == At(a, "update read") /\ ReadSnapshot(a, "update commit")

\* The row is updated by id alone: whatever status it has by now.
UpdateSiteCommit(a) ==
    LET read == snap[a].groups
        from == req[a].origin
        to == req[a].grp
    IN  /\ At(a, "update commit")
        /\ CanMove(groups, read, from, to)
        /\ sites' = [sites EXCEPT ![req[a].site].pid = req[a].pid, ![req[a].site].grp = to]
        /\ groups' = Move(groups, read, from, to)
        /\ UNCHANGED party
        /\ Answer(a)

-----------------------------------------------------------------------------
(* deleteSite                                                              *)

DeleteSiteCheck(a) ==
    \E s \in ActiveSites(sites) : Start(a, "delete read", [NoRequest EXCEPT !.site = s])

DeleteSiteRead(a) == At(a, "delete read") /\ ReadSnapshot(a, "delete commit")

\* deleteParty comes first; a site somebody else has removed meanwhile costs
\* the party its row and nothing more.
DeleteSiteCommit(a) ==
    LET s == req[a].site
        old == snap[a].sites[s]
    IN  /\ At(a, "delete commit")
        /\ party' = [party EXCEPT ![old.pid] = "none"]
        /\ Answer(a)
        /\ \/ /\ s \in ActiveSites(sites)
              /\ CanGiveBack(groups, old.grp)
              /\ sites' = WithStatus(sites, {s}, Removed)
              /\ groups' = GiveBack(groups, snap[a].groups, old.grp)
           \/ s \notin ActiveSites(sites) /\ UNCHANGED <<sites, groups>>

-----------------------------------------------------------------------------
(* reactivateSite: the request carries the id and the party id the page    *)
(* shows, which may have changed by the time it is handled.                *)

ReactivateSiteStart(a) ==
    \E s \in Sites :
        /\ sites[s].status = Joined
        /\ Start(a, "reactivate read", [NoRequest EXCEPT !.site = s, !.pid = sites[s].pid])

ReactivateSiteRead(a) ==
    LET p == req[a].pid
        routed == party[p] # "none" /\ \E x \in ActiveOn(sites, p) : sites[x].status = Joined
    IN  /\ At(a, "reactivate read")
        /\ \/ routed /\ ReadSnapshot(a, "reactivate commit")
           \/ ~routed /\ Refuse(a)

\* Mutated form: the party is not reset.
ReactivateSiteOnly(a) ==
    LET hit == {s \in {req[a].site} : sites[s].pid = req[a].pid /\ sites[s].status = Joined}
    IN  /\ At(a, "reactivate commit")
        /\ sites' = WithStatus(sites, hit, NotJoined)
        /\ UNCHANGED <<groups, party>>
        /\ Answer(a)

ReactivateSiteCommit(a) ==
    LET p == req[a].pid
        hit == {s \in {req[a].site} : sites[s].pid = p /\ sites[s].status = Joined}
    IN  /\ At(a, "reactivate commit")
        /\ party' = IF party[p] = "none" THEN party ELSE [party EXCEPT ![p] = "reset"]
        /\ sites' = WithStatus(sites, hit, NotJoined)
        /\ UNCHANGED groups
        /\ Answer(a)

-----------------------------------------------------------------------------
(* Group sets: addNewGroup, deleteNewGroup, updateNewGroup                 *)

AddGroupCheck(a) ==
    \E g \in Groups, R \in SUBSET PartyIds :
        /\ groups[g].status = NoGroup
        /\ RegionsFree(groups, g, R)
        /\ Start(a, "add group commit", [NoRequest EXCEPT !.grp = g, !.ranges = R])

\* The database chooses the id, so two requests never share one.
AddGroupCommit(a) ==
    /\ At(a, "add group commit")
    /\ \E g \in Groups :
        /\ groups[g].status = NoGroup
        /\ groups' = [groups EXCEPT ![g] = NewGroup(req[a].ranges)]
    /\ UNCHANGED <<sites, party>>
    /\ Answer(a)

DeleteGroupCheck(a) ==
    \E g \in Groups :
        /\ groups[g].status = ValidGroup
        /\ ActiveIn(sites, g) = {}
        /\ Start(a, "delete group commit", [NoRequest EXCEPT !.grp = g])

DeleteGroupCommit(a) ==
    /\ At(a, "delete group commit")
    /\ groups' = [groups EXCEPT ![req[a].grp].status = DeletedGroup, ![req[a].grp].ranges = {}]
    /\ UNCHANGED <<sites, party>>
    /\ Answer(a)

UpdateGroupCheckRegion(a) ==
    \E g \in Groups, R \in SUBSET PartyIds :
        /\ groups[g].status # NoGroup
        /\ RegionsFree(groups, g, R)
        /\ Start(a, "group used", [NoRequest EXCEPT !.grp = g, !.ranges = R, !.todo = R])

UpdateGroupCheckUsed(a) ==
    LET covered == RegionsCoverUsed(sites, req[a].grp, req[a].ranges)
    IN  /\ At(a, "group used")
        /\ \/ covered /\ Continue(a, "group status")
           \/ ~covered /\ Refuse(a)

UpdateGroupCheckStatus(a) ==
    LET valid == groups[req[a].grp].status = ValidGroup
    IN  /\ At(a, "group status")
        /\ \/ valid /\ Continue(a, "group total")
           \/ ~valid /\ Refuse(a)

\* updateGroup is not a transaction: each of its statements is committed.
UpdateGroupTotal(a) ==
    /\ At(a, "group total")
    /\ groups' = [groups EXCEPT ![req[a].grp].total = Cardinality(req[a].ranges)]
    /\ pc' = [pc EXCEPT ![a] = "clear ranges"]
    /\ UNCHANGED <<sites, party, req, snap>>

UpdateGroupClear(a) ==
    /\ At(a, "clear ranges")
    /\ groups' = [groups EXCEPT ![req[a].grp].ranges = {}]
    /\ pc' = [pc EXCEPT ![a] = "insert ranges"]
    /\ UNCHANGED <<sites, party, req, snap>>

\* One region after the other.
UpdateGroupInsert(a) ==
    /\ At(a, "insert ranges")
    /\ \E region \in SUBSET req[a].todo \ {{}} :
        /\ groups' = [groups EXCEPT ![req[a].grp].ranges = @ \cup region]
        /\ \/ region = req[a].todo /\ Answer(a)
           \/ /\ region # req[a].todo
              /\ req' = [req EXCEPT ![a].todo = @ \ region]
              /\ UNCHANGED <<pc, snap>>
    /\ UNCHANGED <<sites, party>>

\* The server stops, or a statement fails, after some of them.
UpdateGroupTorn(a) == pc[a] \in Rewriting /\ Refuse(a)

-----------------------------------------------------------------------------
(* deleteInstitution, deleteFateManagerUser                                *)

DeleteInstitutionRead(a) ==
    \E i \in Institutions :
        /\ At(a, "idle")
        /\ SitesOf(sites, i) # {}
        /\ pc' = [pc EXCEPT ![a] = "institution commit"]
        /\ req' = [req EXCEPT ![a] = [NoRequest EXCEPT !.inst = i]]
        /\ snap' = [snap EXCEPT ![a] = [sites |-> sites, groups |-> groups]]
        /\ UNCHANGED tables

DeleteInstitutionCommit(a) ==
    LET old == snap[a].sites
        mine == SitesOf(old, req[a].inst)
        active == mine \cap ActiveSites(sites)
    IN  /\ At(a, "institution commit")
        /\ CanGiveBackAll(groups, snap[a].groups, old, active)
        /\ sites' = WithStatus(sites, active, Removed)
        /\ groups' = GiveBackAll(groups, snap[a].groups, old, active)
        /\ party' = [p \in PartyIds |-> IF \E s \in mine : old[s].pid = p THEN "none" ELSE party[p]]
        /\ Answer(a)

DeleteFateManagerUser(a) ==
    \E i \in Institutions :
        /\ At(a, "idle")
        /\ SitesOf(sites, i) # {}
        /\ sites' = WithStatus(sites, SitesOf(sites, i), Removed)
        /\ UNCHANGED <<groups, party, pc, req, snap>>

\* The exchange page adds a party to a roll site and publishes it.
PublishParty(p) ==
    /\ party' = [party EXCEPT ![p] = "published"]
    /\ UNCHANGED <<sites, groups, pc, req, snap>>

-----------------------------------------------------------------------------
(* Activation: an installer holds a link given out earlier.                *)

OpenLink(t) ==
    \E s \in ActiveSites(sites), kind \in Links :
        Start(t, IF kind = "long" THEN "link" ELSE "short signature",
              [NoRequest EXCEPT !.site = s, !.pid = sites[s].pid, !.grp = sites[s].grp])

\* checkRegistrationLink: the only site registered with the party id has this
\* link, that is, it is the same row with the same contents.
ActivateCheckLink(t) ==
    LET s == req[t].site
        same == ActiveOn(sites, req[t].pid) = {s} /\ sites[s].grp = req[t].grp
    IN  /\ At(t, "link")
        /\ \/ same /\ Continue(t, "signature")
           \/ ~same /\ Refuse(t)

\* checkSignature finds the secrets of the site by party id and app key.
ActivateCheckSignature(t) ==
    /\ At(t, "signature")
    /\ \/ req[t].site \in ActiveOn(sites, req[t].pid) /\ Continue(t, "activate")
       \/ req[t].site \notin ActiveOn(sites, req[t].pid) /\ Refuse(t)

\* Mutated form: activateSite updates by party id alone.
ActivateByParty(t) ==
    /\ At(t, "activate")
    /\ sites' = WithStatus(sites, {s \in Sites : sites[s].pid = req[t].pid}, Joined)
    /\ UNCHANGED <<groups, party>>
    /\ Answer(t)

\* activateSite updates by party id and status.
ActivateSite(t) ==
    /\ At(t, "activate")
    /\ sites' = WithStatus(sites, ActiveOn(sites, req[t].pid), Joined)
    /\ UNCHANGED <<groups, party>>
    /\ Answer(t)

ShortLinkCheckSignature(t) ==
    LET s == req[t].site
        own == s \in ActiveOn(sites, req[t].pid) /\ sites[s].status = NotJoined
    IN  /\ At(t, "short signature")
        /\ \/ own /\ Continue(t, "short read")
           \/ ~own /\ Refuse(t)

ShortLinkRead(t) ==
    LET single == \E s \in Sites : ActiveOn(sites, req[t].pid) = {s}
    IN  /\ At(t, "short read")
        /\ \/ single /\ ReadSnapshot(t, "short commit")
           \/ ~single /\ Refuse(t)

\* Mutated form: a party row left by an earlier activation is not published.
ShortLinkInsertOnly(t) ==
    /\ At(t, "short commit")
    /\ \E s \in ActiveOn(snap[t].sites, req[t].pid) :
        sites' = [sites EXCEPT ![s] = [snap[t].sites[s] EXCEPT !.status = Joined]]
    /\ party' = IF party[req[t].pid] = "none" THEN [party EXCEPT ![req[t].pid] = "published"] ELSE party
    /\ UNCHANGED groups
    /\ Answer(t)

\* updateById writes the whole row back, with the status joined.
ShortLinkActivateSite(t) ==
    /\ At(t, "short commit")
    /\ \E s \in ActiveOn(snap[t].sites, req[t].pid) :
        sites' = [sites EXCEPT ![s] = [snap[t].sites[s] EXCEPT !.status = Joined]]
    /\ party' = [party EXCEPT ![req[t].pid] = "published"]
    /\ UNCHANGED groups
    /\ Answer(t)

-----------------------------------------------------------------------------
SiteRequest(a) ==
    \/ AddSiteCheckRegion(a) \/ AddSiteCheckParty(a) \/ AddSiteRead(a) \/ AddSiteCommit(a)
    \/ /\ "update" \in Operations
       /\ \/ UpdateSiteCheckParty(a) \/ UpdateSiteCheckSite(a) \/ UpdateSiteCheckRegion(a)
          \/ UpdateSiteRead(a) \/ UpdateSiteCommit(a)
    \/ /\ "delete" \in Operations
       /\ DeleteSiteCheck(a) \/ DeleteSiteRead(a) \/ DeleteSiteCommit(a)
    \/ /\ "reactivate" \in Operations
       /\ ReactivateSiteStart(a) \/ ReactivateSiteRead(a) \/ ReactivateSiteCommit(a)

GroupRequest(a) ==
    \/ AddGroupCheck(a) \/ AddGroupCommit(a)
    \/ /\ "group" \in Operations
       /\ \/ DeleteGroupCheck(a) \/ DeleteGroupCommit(a)
          \/ UpdateGroupCheckRegion(a) \/ UpdateGroupCheckUsed(a) \/ UpdateGroupCheckStatus(a)
          \/ UpdateGroupTotal(a) \/ UpdateGroupClear(a) \/ UpdateGroupInsert(a)
    \/ "torn" \in Operations /\ UpdateGroupTorn(a)

InstitutionRequest(a) ==
    \/ "institution" \in Operations /\ (DeleteInstitutionRead(a) \/ DeleteInstitutionCommit(a))
    \/ "user" \in Operations /\ DeleteFateManagerUser(a)

Activation(t) ==
    \/ OpenLink(t)
    \/ ActivateCheckLink(t) \/ ActivateCheckSignature(t) \/ ActivateSite(t)
    \/ ShortLinkCheckSignature(t) \/ ShortLinkRead(t) \/ ShortLinkActivateSite(t)

Next ==
    \/ \E a \in Admins : SiteRequest(a) \/ GroupRequest(a) \/ InstitutionRequest(a)
    \/ \E t \in Installers : Activation(t)
    \/ \E t \in Threads : Rollback(t)
    \/ "exchange" \in Operations /\ \E p \in PartyIds : PublishParty(p)

Spec == Init /\ [][Next]_vars

-----------------------------------------------------------------------------
(* Properties                                                              *)

\* While updateGroup rewrites a group set, its ranges stand for the new ones.
Rewriter(g) == {a \in Admins : pc[a] \in Rewriting /\ req[a].grp = g}
EffectiveGroups ==
    [g \in Groups |->
        IF Rewriter(g) = {} THEN groups[g]
        ELSE [groups[g] EXCEPT !.ranges = req[CHOOSE a \in Rewriter(g) : TRUE].ranges]]

Registry == INSTANCE SiteRegistry WITH groups <- EffectiveGroups

\* Every step of the requests of one administrator, between those of the
\* installers, is a step of the registry that takes each request at once, or
\* changes nothing there: the checks made outside the transactions and the
\* stale reads inside them do no harm.
ImplementsRegistry == Registry!Spec

\* The tables and the requests in progress are well formed.
TypeOK ==
    /\ sites \in SiteTable
    /\ groups \in GroupTable
    /\ party \in PartyTable
    /\ pc \in [Threads -> Label]
    /\ req \in [Threads -> Request]
    /\ snap \in [Threads -> Snapshot]

\* A registered site lies in the ranges of a valid group set: group sets are
\* neither shrunk nor deleted under their sites (checkUsedSite,
\* findUsedPartyIdsOfGroup).
ActiveSitesInRange == Registry!ActiveSitesInRange

\* t_federated_group_set.used is the number of party ids in use, and a group
\* set never counts more than it has, though its ranges may be rewritten at any
\* time.
UsedCountExact ==
    \A g \in Groups :
        /\ groups[g].used = Cardinality(ActiveIn(sites, g))
        /\ groups[g].used <= groups[g].total

\* A site that joined with a short link has its party published to the roll
\* sites, through reactivations and activations that cross each other.
JoinedHasRoute ==
    \A s \in Sites : sites[s].status = Joined => party[sites[s].pid] = "published"

\* A site that has been removed never comes back.
RemovedIsFinal ==
    [][\A s \in Sites : sites[s].status = Removed => sites'[s].status = Removed]_vars

\* The published party of a registered site loses its route only when that
\* site is removed or has to join again.
RouteFollowsSite ==
    [][\A p \in PartyIds :
          party[p] = "published" /\ party'[p] # "published" /\ ActiveOn(sites, p) # {} =>
            \E s \in ActiveOn(sites, p) : sites'[s].status # sites[s].status]_vars
=============================================================================
