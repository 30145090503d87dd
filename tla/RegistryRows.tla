---------------------------- MODULE RegistryRows ----------------------------
(***************************************************************************)
(* The tables Cloud Manager keeps about sites, group sets and parties, and *)
(* the questions its services ask of them.  The questions take the tables  *)
(* as arguments, because a request asks the same of the committed tables   *)
(* and of the snapshot its transaction reads.                              *)
(***************************************************************************)
EXTENDS Integers, FiniteSets

CONSTANTS
    Sites,          \* ids of t_federated_site_manager rows
    Groups,         \* ids of t_federated_group_set rows
    PartyIds,       \* the party ids a range may contain
    Institutions,   \* the institutions (FATE Managers) sites belong to
    None            \* "no value", in no other set

ASSUME NoneAssumption == None \notin Sites \cup Groups \cup PartyIds \cup Institutions
ASSUME FiniteAssumption == IsFiniteSet(Sites) /\ IsFiniteSet(PartyIds)

VARIABLES
    sites,      \* t_federated_site_manager
    groups,     \* t_federated_group_set with t_federated_group_range_detail
    party       \* t_party

\* t_federated_site_manager.status; Absent is an id not inserted yet.
Absent    == 0
NotJoined == 1
Joined    == 2
Removed   == 3

\* t_federated_group_set.status
NoGroup      == 0
ValidGroup   == 1
DeletedGroup == 2

SiteRow == [pid: PartyIds, grp: Groups, inst: Institutions,
            status: {NotJoined, Joined, Removed}]
AbsentRow == [pid |-> None, grp |-> None, inst |-> None, status |-> Absent]

\* ranges is the set of party ids covered by the group's rows of
\* t_federated_group_range_detail.
GroupRow == [status: {NoGroup, ValidGroup, DeletedGroup}, total: Nat,
             used: Int, ranges: SUBSET PartyIds]
AbsentGroup == [status |-> NoGroup, total |-> 0, used |-> 0, ranges |-> {}]

\* t_party: no row, a row whose status is 0, a row published to a roll site.
PartyRow == {"none", "reset", "published"}

SiteTable  == [Sites -> SiteRow \cup {AbsentRow}]
GroupTable == [Groups -> GroupRow]
PartyTable == [PartyIds -> PartyRow]

-----------------------------------------------------------------------------

\* The sites that hold their party id: status in (1, 2).
ActiveSites(st) == {s \in Sites : st[s].status \in {NotJoined, Joined}}
ActiveOn(st, p) == {s \in ActiveSites(st) : st[s].pid = p}
ActiveIn(st, g) == {s \in ActiveSites(st) : st[s].grp = g}
SitesOf(st, i)  == {s \in Sites : st[s].inst = i}

\* Mutated forms of the checks below: only joined sites hold a party id; the
\* same for the sites of a group set; only contained regions overlap.
PartyIdJoined(st, p, self) == \E s \in ActiveOn(st, p) \ {self} : st[s].status = Joined
RegionsCoverJoined(st, g, R) ==
    \A s \in ActiveIn(st, g) : st[s].status = Joined => st[s].pid \in R
RegionsNotContained(gr, g, R) ==
    R # {} /\ \A h \in Groups \ {g} : ~(R \subseteq gr[h].ranges)

\* checkPartyIdExist, asked before adding a site (self = None) or updating one.
PartyIdExists(st, p, self) == ActiveOn(st, p) \ {self} # {}

\* selectGroupSetDetails, then checkPartyIdInRegionNew.
PartyIdInRegion(gr, g, p) == gr[g].status = ValidGroup /\ p \in gr[g].ranges

\* checkGroupRegion: the regions of a request may meet no other group's rows.
RegionsFree(gr, g, R) == R # {} /\ \A h \in Groups \ {g} : gr[h].ranges \cap R = {}

\* checkUsedSite: the new regions must contain the party ids in use.
RegionsCoverUsed(st, g, R) == \A s \in ActiveIn(st, g) : st[s].pid \in R

-----------------------------------------------------------------------------
(***************************************************************************)
(* What the services write.  read is the group table a transaction reads,  *)
(* gr the table it writes to: with a stale read they differ.               *)
(***************************************************************************)

\* Mutated form: the row is inserted without its default status.
NewSiteNoStatus(p, g, i) == [pid |-> p, grp |-> g, inst |-> i, status |-> Absent]

NewSite(p, g, i) == [pid |-> p, grp |-> g, inst |-> i, status |-> NotJoined]
NewGroup(R) == [status |-> ValidGroup, total |-> Cardinality(R), used |-> 0, ranges |-> R]

WithStatus(st, S, v) == [s \in Sites |-> IF s \in S THEN [st[s] EXCEPT !.status = v] ELSE st[s]]
WithUsed(gr, g, n) == [gr EXCEPT ![g].used = n]

\* addSite: "set used = read + 1 where used < total read".
CanTake(gr, read, g)  == gr[g].used < read[g].total
Take(gr, read, g)     == WithUsed(gr, g, read[g].used + 1)

\* deleteSite: "set used = read - 1 where used > 0".
CanGiveBack(gr, g)    == gr[g].used > 0
GiveBack(gr, read, g) == WithUsed(gr, g, read[g].used - 1)

\* updateSite: give back to the origin group, then take from the new one,
\* whose row the transaction has itself just written when they are the same.
CanMove(gr, read, from, to) ==
    /\ CanGiveBack(gr, from)
    /\ IF from = to THEN read[from].used - 1 < gr[to].total
                    ELSE CanTake(gr, read, to)
MoveOut(gr, read, from, to) == GiveBack(gr, read, from)     \* mutated form

Move(gr, read, from, to) ==
    IF from = to THEN WithUsed(gr, to, read[to].used)
                 ELSE Take(GiveBack(gr, read, from), read, to)

\* deleteInstitution calls deleteSite for one site after the other in one
\* transaction: L are the sites it turns removed, at the groups st gives them.
Leaving(st, L, g) == Cardinality({s \in L : st[s].grp = g})
CanGiveBackAll(gr, read, st, L) ==
    \A g \in Groups : Leaving(st, L, g) > 0 =>
        /\ gr[g].used > 0
        /\ Leaving(st, L, g) > 1 => read[g].used >= Leaving(st, L, g)
GiveBackAll(gr, read, st, L) ==
    [g \in Groups |-> IF Leaving(st, L, g) = 0 THEN gr[g]
                      ELSE [gr[g] EXCEPT !.used = read[g].used - Leaving(st, L, g)]]

-----------------------------------------------------------------------------
(* Properties of the committed tables, whichever way requests reach them.  *)

\* The PartyID of a registered site is not used by another one
\* (checkPartyIdExist, PARTYID_ERROR).
ActivePartyUnique ==
    \A s, t \in ActiveSites(sites) : sites[s].pid = sites[t].pid => s = t

\* No party id belongs to the ranges of two group sets (checkGroupRegion).
RangesDisjoint ==
    \A g, h \in Groups : groups[g].ranges \cap groups[h].ranges # {} => g = h
=============================================================================
