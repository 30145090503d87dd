-------------------------- MODULE SiteRequests_proofs --------------------------
(***************************************************************************)
(* Theorems about the requests of the registry, for any number of          *)
(* administrators, installers, sites and group sets, and every set of      *)
(* operations.  The tables are written only by commits; what a commit      *)
(* relies on is what its request has noted at its first query.             *)
(*                                                                         *)
(* The second part: the requests of one administrator implement the        *)
(* registry that takes each request at once.  A commit is the step of the  *)
(* registry, and every other step changes nothing there; that the commit   *)
(* may be taken for the whole request is the invariant Inv: what the       *)
(* request has learnt from its queries, long ago, still holds.  What is    *)
(* proved of the registry (SiteRegistry_proofs) is thereby proved of its   *)
(* requests.                                                               *)
(***************************************************************************)
EXTENDS SiteRequests, FiniteSetTheorems, TLAPS

Adding == {"add party", "add read", "add commit"}
Updating == {"update site", "update group", "update read", "update commit"}
ShortLink == {"short signature", "short read", "short commit"}

\* What a request names at a label: a site that is updated has a row.
Named(label, r) ==
    /\ label \in Adding => r.pid \in PartyIds /\ r.grp \in Groups /\ r.inst \in Institutions
    /\ label \in Updating =>
        /\ r.site \in Sites /\ r.pid \in PartyIds /\ r.grp \in Groups
        /\ sites[r.site].status # Absent
    /\ label \in ShortLink => "short" \in Links

IInv == TypeOK /\ \A t \in Threads : Named(pc[t], req[t])

\* Rows are never taken out of the table.
RowsStay == \A s \in Sites : sites[s].status # Absent => sites'[s].status # Absent

-----------------------------------------------------------------------------
(* Tables                                                                  *)

LEMMA RowFacts ==
    ASSUME NEW st \in SiteTable, NEW s \in Sites
    PROVE  /\ st[s].status # Absent <=> st[s] \in SiteRow
           /\ st[s].status \in {Absent, NotJoined, Joined, Removed}
           /\ st[s].inst \in Institutions => st[s] \in SiteRow
<1>1. st[s] \in SiteRow \/ st[s] = AbsentRow
  BY DEF SiteTable
<1>2. AbsentRow.status = Absent /\ AbsentRow.inst = None
  BY DEF AbsentRow
<1>3. \A row \in SiteRow : row.status # Absent
  BY DEF SiteRow, Absent, NotJoined, Joined, Removed
<1>4. None \notin Institutions
  BY NoneAssumption
<1>5. QED
  BY <1>1, <1>2, <1>3, <1>4 DEF SiteRow, Absent, NotJoined, Joined, Removed

LEMMA WithStatusFacts ==
    ASSUME NEW st \in SiteTable, NEW S, \A s \in S \cap Sites : st[s].status # Absent,
           NEW v \in {NotJoined, Joined, Removed}
    PROVE  /\ WithStatus(st, S, v) \in SiteTable
           /\ \A s \in Sites :
                WithStatus(st, S, v)[s].status = IF s \in S THEN v ELSE st[s].status
<1>1. ASSUME NEW s \in Sites
      PROVE  /\ WithStatus(st, S, v)[s] \in SiteRow \cup {AbsentRow}
             /\ WithStatus(st, S, v)[s].status = IF s \in S THEN v ELSE st[s].status
  <2>1. CASE s \in S
    <3>1. st[s] \in SiteRow
      BY <2>1, RowFacts
    <3>2. WithStatus(st, S, v)[s] = [st[s] EXCEPT !.status = v]
      BY <2>1 DEF WithStatus
    <3>3. QED
      BY <2>1, <3>1, <3>2 DEF SiteRow
  <2>2. CASE s \notin S
    BY <2>2 DEF WithStatus, SiteTable
  <2>3. QED
    BY <2>1, <2>2
<1>2. WithStatus(st, S, v) = [s \in Sites |-> WithStatus(st, S, v)[s]]
  BY DEF WithStatus
<1>3. QED
  BY <1>1, <1>2 DEF SiteTable

LEMMA WithUsedFacts ==
    ASSUME NEW gr \in GroupTable, NEW g, NEW n, g \in Groups => n \in Int
    PROVE  WithUsed(gr, g, n) \in GroupTable
  BY DEF WithUsed, GroupTable, GroupRow

LEMMA GiveBackFacts ==
    ASSUME NEW gr \in GroupTable, NEW read \in GroupTable, NEW g
    PROVE  GiveBack(gr, read, g) \in GroupTable
<1>1. g \in Groups => read[g].used - 1 \in Int
  BY DEF GroupTable, GroupRow
<1>2. QED
  BY <1>1, WithUsedFacts DEF GiveBack

LEMMA TakeFacts ==
    ASSUME NEW gr \in GroupTable, NEW read \in GroupTable, NEW g
    PROVE  Take(gr, read, g) \in GroupTable
<1>1. g \in Groups => read[g].used + 1 \in Int
  BY DEF GroupTable, GroupRow
<1>2. QED
  BY <1>1, WithUsedFacts DEF Take

LEMMA MoveFacts ==
    ASSUME NEW gr \in GroupTable, NEW read \in GroupTable, NEW from, NEW to
    PROVE  Move(gr, read, from, to) \in GroupTable
<1>1. CASE from = to
  <2>1. to \in Groups => read[to].used \in Int
    BY DEF GroupTable, GroupRow
  <2>2. QED
    BY <1>1, <2>1, WithUsedFacts DEF Move
<1>2. CASE from # to
  BY <1>2, GiveBackFacts, TakeFacts DEF Move
<1>3. QED
  BY <1>1, <1>2

LEMMA GiveBackAllFacts ==
    ASSUME NEW gr \in GroupTable, NEW read \in GroupTable, NEW st, NEW L \in SUBSET Sites
    PROVE  GiveBackAll(gr, read, st, L) \in GroupTable
<1>1. ASSUME NEW g \in Groups
      PROVE  Leaving(st, L, g) \in Nat
  <2> DEFINE left == {s \in L : st[s].grp = g}
  <2>1. IsFiniteSet(Sites) /\ left \subseteq Sites
    BY FiniteAssumption
  <2>2. Cardinality(left) \in Nat
    <3> HIDE DEF left
    <3>1. QED
      BY <2>1, FS_Subset, FS_CardinalityType
  <2>3. QED
    BY <2>2 DEF Leaving
<1>2. ASSUME NEW g \in Groups
      PROVE  [gr[g] EXCEPT !.used = read[g].used - Leaving(st, L, g)] \in GroupRow
  <2>1. read[g].used - Leaving(st, L, g) \in Int
    BY <1>1 DEF GroupTable, GroupRow
  <2>2. gr[g] \in GroupRow
    BY DEF GroupTable
  <2>3. QED
    BY <2>1, <2>2 DEF GroupRow
<1>3. \A g \in Groups : gr[g] \in GroupRow
  BY DEF GroupTable
<1>4. QED
  BY <1>2, <1>3 DEF GiveBackAll, GroupTable

LEMMA RangesCounted ==
    ASSUME NEW R \in SUBSET PartyIds
    PROVE  Cardinality(R) \in Nat
  BY FiniteAssumption, FS_Subset, FS_CardinalityType

-----------------------------------------------------------------------------
(* How a request moves on                                                  *)

LEMMA ThreadFacts ==
    ASSUME IInv, NEW t \in Threads
    PROVE  /\ pc[t] \in Label /\ req[t] \in Request /\ snap[t] \in Snapshot
           /\ Named(pc[t], req[t])
  BY DEF IInv, TypeOK

LEMMA NoRequestFits == NoRequest \in Request /\ NoSnapshot \in Snapshot
<1>1. NoRequest \in Request
  BY DEF NoRequest, Request
<1>2. AbsentGroup \in GroupRow
  BY DEF AbsentGroup, GroupRow, NoGroup
<1>3. QED
  BY <1>1, <1>2 DEF NoSnapshot, Snapshot, SiteTable, GroupTable

\* The tables stay as they are, and the request of thread t goes on.
LEMMA MoveOnKeeps ==
    ASSUME IInv, NEW t \in Threads, NEW next \in Label, NEW r \in Request, Named(next, r),
           NEW view \in Snapshot,
           pc' = [pc EXCEPT ![t] = next], req' = [req EXCEPT ![t] = r],
           snap' = [snap EXCEPT ![t] = view], UNCHANGED tables
    PROVE  IInv'
<1>1. TypeOK'
  <2>1. sites' \in SiteTable /\ groups' \in GroupTable /\ party' \in PartyTable
    BY DEF IInv, TypeOK, tables
  <2>2. pc' \in [Threads -> Label]
    BY DEF IInv, TypeOK
  <2>3. req' \in [Threads -> Request]
    BY DEF IInv, TypeOK
  <2>4. snap' \in [Threads -> Snapshot]
    BY DEF IInv, TypeOK
  <2>5. QED
    BY <2>1, <2>2, <2>3, <2>4 DEF TypeOK
<1>2. ASSUME NEW u \in Threads
      PROVE  Named(pc[u], req[u])'
  <2>1. pc'[u] = (IF u = t THEN next ELSE pc[u]) /\ req'[u] = IF u = t THEN r ELSE req[u]
    BY DEF IInv, TypeOK
  <2>2. Named(pc'[u], req'[u])
    BY <2>1, ThreadFacts
  <2>3. sites' = sites
    BY DEF tables
  <2>4. QED
    BY <2>2, <2>3 DEF Named
<1>3. QED
  BY <1>1, <1>2 DEF IInv

\* The tables are written, and every request goes on or ends.
LEMMA WriteKeeps ==
    ASSUME IInv, sites' \in SiteTable, groups' \in GroupTable, party' \in PartyTable, RowsStay,
           NEW t \in Threads, NEW next \in Label, NEW r \in Request, NEW view \in Snapshot,
           Named(next, r), next \notin Updating,
           pc' = [pc EXCEPT ![t] = next], req' = [req EXCEPT ![t] = r],
           snap' = [snap EXCEPT ![t] = view]
    PROVE  IInv'
<1>1. TypeOK'
  <2>1. pc' \in [Threads -> Label]
    BY DEF IInv, TypeOK
  <2>2. req' \in [Threads -> Request]
    BY DEF IInv, TypeOK
  <2>3. snap' \in [Threads -> Snapshot]
    BY DEF IInv, TypeOK
  <2>4. QED
    BY <2>1, <2>2, <2>3 DEF TypeOK
<1>2. ASSUME NEW u \in Threads
      PROVE  Named(pc[u], req[u])'
  <2>1. CASE u = t
    <3>1. pc'[u] = next /\ req'[u] = r
      BY <2>1 DEF IInv, TypeOK
    <3>2. QED
      BY <3>1 DEF Named
  <2>2. CASE u # t
    <3>1. pc'[u] = pc[u] /\ req'[u] = req[u]
      BY <2>2 DEF IInv, TypeOK
    <3>2. Named(pc[u], req[u])
      BY ThreadFacts
    <3>3. QED
      BY <3>1, <3>2 DEF Named, RowsStay
  <2>3. QED
    BY <2>1, <2>2
<1>3. QED
  BY <1>1, <1>2 DEF IInv

LEMMA AnswerKeeps ==
    ASSUME IInv, sites' \in SiteTable, groups' \in GroupTable, party' \in PartyTable, RowsStay,
           NEW t \in Threads, Answer(t)
    PROVE  IInv'
<1>1. "idle" \in Label /\ "idle" \notin Updating /\ Named("idle", NoRequest)
  BY DEF Label, Updating, Adding, ShortLink, Named
<1>2. QED
  BY <1>1, NoRequestFits, WriteKeeps DEF Answer

LEMMA TablesFit ==
    ASSUME IInv
    PROVE  sites \in SiteTable /\ groups \in GroupTable /\ party \in PartyTable
  BY DEF IInv, TypeOK

LEMMA RefuseKeeps ==
    ASSUME IInv, NEW t \in Threads, Refuse(t)
    PROVE  IInv' /\ UNCHANGED sites
<1>1. Answer(t) /\ sites' = sites /\ groups' = groups /\ party' = party
  BY DEF Refuse, tables
<1>2. RowsStay
  BY <1>1 DEF RowsStay
<1>3. QED
  BY <1>1, <1>2, TablesFit, AnswerKeeps

LEMMA StartKeeps ==
    ASSUME IInv, NEW t \in Threads, NEW next \in Label, NEW r \in Request, Named(next, r),
           Start(t, next, r)
    PROVE  IInv' /\ UNCHANGED sites
<1>1. /\ pc' = [pc EXCEPT ![t] = next] /\ req' = [req EXCEPT ![t] = r]
      /\ UNCHANGED tables /\ snap' = snap
  BY DEF Start
<1>2. snap' = [snap EXCEPT ![t] = snap[t]] /\ snap[t] \in Snapshot
  BY <1>1 DEF IInv, TypeOK
<1>3. QED
  BY <1>1, <1>2, MoveOnKeeps DEF tables

LEMMA ContinueKeeps ==
    ASSUME IInv, NEW t \in Threads, NEW next \in Label, Named(next, req[t]), Continue(t, next)
    PROVE  IInv' /\ UNCHANGED sites
<1>1. /\ pc' = [pc EXCEPT ![t] = next] /\ req' = req /\ snap' = snap /\ UNCHANGED tables
  BY DEF Continue
<1>2. /\ snap' = [snap EXCEPT ![t] = snap[t]] /\ snap[t] \in Snapshot
      /\ req' = [req EXCEPT ![t] = req[t]] /\ req[t] \in Request
  BY <1>1 DEF IInv, TypeOK
<1>3. QED
  BY <1>1, <1>2, MoveOnKeeps DEF tables

LEMMA ReadSnapshotKeeps ==
    ASSUME IInv, NEW t \in Threads, NEW next \in Label, Named(next, req[t]),
           ReadSnapshot(t, next)
    PROVE  IInv' /\ UNCHANGED sites
<1> DEFINE view == [sites |-> sites, groups |-> groups]
<1>1. /\ pc' = [pc EXCEPT ![t] = next] /\ req' = req /\ UNCHANGED tables
      /\ snap' = [snap EXCEPT ![t] = view]
  BY DEF ReadSnapshot
<1>2. view \in Snapshot /\ req' = [req EXCEPT ![t] = req[t]] /\ req[t] \in Request
  BY <1>1 DEF IInv, TypeOK, Snapshot
<1>3. QED
  <2> HIDE DEF view
  <2>1. QED
    BY <1>1, <1>2, MoveOnKeeps DEF tables

-----------------------------------------------------------------------------
(* The requests.  Every step keeps the invariant, and every one but the    *)
(* commit of a short-link activation leaves removed sites removed.         *)

RemovedStay == \A s \in Sites : sites[s].status = Removed => sites'[s].status = Removed

LEMMA LabelFacts ==
    /\ Adding \subseteq Label /\ Updating \subseteq Label /\ ShortLink \subseteq Label
    /\ Adding \cap Updating = {} /\ ShortLink \cap (Adding \cup Updating) = {}
    /\ {"idle", "delete read", "reactivate read", "group used", "group status", "group total",
        "link", "signature", "activate", "delete commit", "reactivate commit",
        "add group commit", "delete group commit", "institution commit",
        "clear ranges", "insert ranges"} \subseteq Label \ (Adding \cup Updating \cup ShortLink)
  BY DEF Adding, Updating, ShortLink, Label, InTransaction, Rewriting

LEMMA UnnamedFits ==
    ASSUME NEW label \in Label \ (Adding \cup Updating \cup ShortLink), NEW r
    PROVE  Named(label, r)
  BY DEF Named

LEMMA AddSiteKeeps ==
    ASSUME IInv, NEW a \in Threads,
           AddSiteCheckRegion(a) \/ AddSiteCheckParty(a) \/ AddSiteRead(a) \/ AddSiteCommit(a)
    PROVE  IInv' /\ RemovedStay
<1>1. CASE AddSiteCheckRegion(a)
  <2>1. PICK p \in PartyIds, g \in Groups, i \in Institutions :
          Start(a, "add party", [NoRequest EXCEPT !.pid = p, !.grp = g, !.inst = i])
    BY <1>1 DEF AddSiteCheckRegion
  <2> DEFINE r == [NoRequest EXCEPT !.pid = p, !.grp = g, !.inst = i]
  <2>2. /\ r \in Request /\ r.pid = p /\ r.grp = g /\ r.inst = i
    BY DEF NoRequest, Request
  <2>3. Named("add party", r) /\ "add party" \in Label
    <3> HIDE DEF r
    <3>1. QED
      BY <2>2, LabelFacts DEF Named, Adding, Updating, ShortLink
  <2>4. QED
    <3> HIDE DEF r
    <3>1. IInv' /\ UNCHANGED sites
      BY <2>1, <2>2, <2>3, StartKeeps DEF r
    <3>2. QED
      BY <3>1 DEF RemovedStay
<1>2. CASE AddSiteCheckParty(a)
  <2>1. Named("add read", req[a]) /\ "add read" \in Label
    BY <1>2, ThreadFacts, LabelFacts DEF AddSiteCheckParty, At, Named, Adding, Updating, ShortLink
  <2>2. IInv' /\ UNCHANGED sites
    BY <1>2, <2>1, ContinueKeeps, RefuseKeeps DEF AddSiteCheckParty
  <2>3. QED
    BY <2>2 DEF RemovedStay
<1>3. CASE AddSiteRead(a)
  <2>1. Named("add commit", req[a]) /\ "add commit" \in Label
    BY <1>3, ThreadFacts, LabelFacts DEF AddSiteRead, At, Named, Adding, Updating, ShortLink
  <2>2. IInv' /\ UNCHANGED sites
    BY <1>3, <2>1, ReadSnapshotKeeps DEF AddSiteRead
  <2>3. QED
    BY <2>2 DEF RemovedStay
<1>4. CASE AddSiteCommit(a)
  <2> DEFINE row == NewSite(req[a].pid, req[a].grp, req[a].inst)
  <2>1. row \in SiteRow
    BY <1>4, ThreadFacts DEF AddSiteCommit, At, Named, Adding, NewSite, SiteRow
  <2>2. PICK s \in Sites : sites[s].status = Absent /\ sites' = [sites EXCEPT ![s] = row]
    BY <1>4 DEF AddSiteCommit
  <2>3. sites' \in SiteTable
    <3> HIDE DEF row
    <3>1. QED
      BY <2>1, <2>2, TablesFit DEF SiteTable
  <2>4. \A x \in Sites : x # s => sites'[x] = sites[x]
    BY <2>2, TablesFit DEF SiteTable
  <2>5. sites'[s].status # Absent
    <3>1. sites'[s] = row
      BY <2>2, TablesFit DEF SiteTable
    <3>2. QED
      BY <2>1, <3>1 DEF SiteRow, Absent, NotJoined, Joined, Removed
  <2>6. RowsStay /\ RemovedStay
    BY <2>2, <2>4, <2>5 DEF RowsStay, RemovedStay, Absent, Removed
  <2>7. groups' \in GroupTable /\ party' \in PartyTable
    <3>1. snap[a].groups \in GroupTable
      BY ThreadFacts DEF Snapshot
    <3>2. QED
      BY <1>4, <3>1, TablesFit, TakeFacts DEF AddSiteCommit
  <2>8. Answer(a)
    BY <1>4 DEF AddSiteCommit
  <2>9. QED
    BY <2>3, <2>6, <2>7, <2>8, AnswerKeeps
<1>5. QED
  BY <1>1, <1>2, <1>3, <1>4

LEMMA UpdateSiteKeeps ==
    ASSUME IInv, NEW a \in Threads,
           \/ UpdateSiteCheckParty(a) \/ UpdateSiteCheckSite(a) \/ UpdateSiteCheckRegion(a)
           \/ UpdateSiteRead(a) \/ UpdateSiteCommit(a)
    PROVE  IInv' /\ RemovedStay
<1>1. CASE UpdateSiteCheckParty(a)
  <2>1. PICK s \in Sites, p \in PartyIds, g \in Groups :
          /\ sites[s].status # Absent
          /\ Start(a, "update site", [NoRequest EXCEPT !.site = s, !.pid = p, !.grp = g])
    BY <1>1 DEF UpdateSiteCheckParty
  <2> DEFINE r == [NoRequest EXCEPT !.site = s, !.pid = p, !.grp = g]
  <2>2. r \in Request /\ r.site = s /\ r.pid = p /\ r.grp = g
    BY DEF NoRequest, Request
  <2>3. Named("update site", r) /\ "update site" \in Label
    <3> HIDE DEF r
    <3>1. QED
      BY <2>1, <2>2, LabelFacts DEF Named, Adding, Updating, ShortLink
  <2>4. QED
    <3> HIDE DEF r
    <3>1. IInv' /\ UNCHANGED sites
      BY <2>1, <2>2, <2>3, StartKeeps DEF r
    <3>2. QED
      BY <3>1 DEF RemovedStay
<1>2. CASE UpdateSiteCheckSite(a)
  <2>1. CASE Refuse(a)
    BY <2>1, RefuseKeeps DEF RemovedStay
  <2>2. CASE ~Refuse(a)
    <3> DEFINE grp == sites[req[a].site].grp
               r == [req[a] EXCEPT !.origin = grp]
    <3>1. /\ At(a, "update site") /\ sites[req[a].site].status = NotJoined
          /\ pc' = [pc EXCEPT ![a] = "update group"]
          /\ req' = [req EXCEPT ![a].origin = grp]
          /\ UNCHANGED <<tables, snap>>
      BY <1>2, <2>2 DEF UpdateSiteCheckSite
    <3>2. /\ req[a] \in Request /\ req[a].site \in Sites /\ req[a].pid \in PartyIds
          /\ req[a].grp \in Groups /\ sites[req[a].site].status # Absent
      BY <3>1, ThreadFacts DEF At, Named, Updating
    <3>3. grp \in Groups
      <4>1. sites[req[a].site] \in SiteRow
        BY <3>2, TablesFit, RowFacts
      <4>2. QED
        BY <4>1 DEF SiteRow
    <3>4. r \in Request /\ r.site = req[a].site /\ r.pid = req[a].pid /\ r.grp = req[a].grp
      <4> HIDE DEF grp
      <4>1. QED
        BY <3>2, <3>3 DEF Request
    <3>5. Named("update group", r) /\ "update group" \in Label
      <4> HIDE DEF r
      <4>1. QED
        BY <3>2, <3>4, LabelFacts DEF Named, Adding, Updating, ShortLink
    <3>6. /\ req' = [req EXCEPT ![a] = r]
          /\ snap' = [snap EXCEPT ![a] = snap[a]] /\ snap[a] \in Snapshot
      BY <3>1 DEF IInv, TypeOK
    <3>7. IInv' /\ UNCHANGED sites
      <4> HIDE DEF r, grp
      <4>1. QED
        BY <3>1, <3>4, <3>5, <3>6, MoveOnKeeps DEF tables
    <3>8. QED
      BY <3>7 DEF RemovedStay
  <2>3. QED
    BY <2>1, <2>2
<1>3. CASE UpdateSiteCheckRegion(a)
  <2>1. Named("update read", req[a]) /\ "update read" \in Label
    BY <1>3, ThreadFacts, LabelFacts DEF UpdateSiteCheckRegion, At, Named, Adding, Updating, ShortLink
  <2>2. IInv' /\ UNCHANGED sites
    BY <1>3, <2>1, ContinueKeeps, RefuseKeeps DEF UpdateSiteCheckRegion
  <2>3. QED
    BY <2>2 DEF RemovedStay
<1>4. CASE UpdateSiteRead(a)
  <2>1. Named("update commit", req[a]) /\ "update commit" \in Label
    BY <1>4, ThreadFacts, LabelFacts DEF UpdateSiteRead, At, Named, Adding, Updating, ShortLink
  <2>2. IInv' /\ UNCHANGED sites
    BY <1>4, <2>1, ReadSnapshotKeeps DEF UpdateSiteRead
  <2>3. QED
    BY <2>2 DEF RemovedStay
<1>5. CASE UpdateSiteCommit(a)
  <2> DEFINE s == req[a].site
             row == [sites[s] EXCEPT !.pid = req[a].pid, !.grp = req[a].grp]
  <2>1. /\ s \in Sites /\ req[a].pid \in PartyIds /\ req[a].grp \in Groups
        /\ sites[s].status # Absent
    BY <1>5, ThreadFacts DEF UpdateSiteCommit, At, Named, Updating
  <2>2. sites[s] \in SiteRow
    BY <2>1, TablesFit, RowFacts
  <2>3. row \in SiteRow /\ row.status = sites[s].status
    <3> HIDE DEF s
    <3>1. QED
      BY <2>1, <2>2 DEF SiteRow
  <2>4. sites' = [sites EXCEPT ![s].pid = req[a].pid, ![s].grp = req[a].grp]
    BY <1>5 DEF UpdateSiteCommit
  <2>5. sites'[s] = row /\ \A x \in Sites : x # s => sites'[x] = sites[x]
    <3> HIDE DEF s
    <3>1. QED
      BY <2>1, <2>4, TablesFit DEF SiteTable
  <2>6. sites' \in SiteTable
    <3>1. sites' = [x \in Sites |-> sites'[x]]
      <4> HIDE DEF s
      <4>1. QED
        BY <2>4, TablesFit DEF SiteTable
    <3>2. \A x \in Sites : sites'[x] \in SiteRow \cup {AbsentRow}
      <4> HIDE DEF s, row
      <4>1. QED
        BY <2>3, <2>5, TablesFit DEF SiteTable
    <3>3. QED
      BY <3>1, <3>2 DEF SiteTable
  <2>7. RowsStay /\ RemovedStay
    <3> HIDE DEF s, row
    <3>1. QED
      BY <2>3, <2>5 DEF RowsStay, RemovedStay
  <2>8. groups' \in GroupTable /\ party' \in PartyTable /\ Answer(a)
    <3>1. snap[a].groups \in GroupTable
      BY ThreadFacts DEF Snapshot
    <3>2. QED
      BY <1>5, <3>1, TablesFit, MoveFacts DEF UpdateSiteCommit
  <2>9. QED
    BY <2>6, <2>7, <2>8, AnswerKeeps
<1>6. QED
  BY <1>1, <1>2, <1>3, <1>4, <1>5

LEMMA StatusKeeps ==
    ASSUME IInv, NEW S, NEW v \in {NotJoined, Joined, Removed},
           \A s \in S \cap Sites : /\ sites[s].status # Absent
                                   /\ v = Removed \/ sites[s].status # Removed,
           sites' = WithStatus(sites, S, v)
    PROVE  sites' \in SiteTable /\ RowsStay /\ RemovedStay
<1>1. /\ sites' \in SiteTable
      /\ \A s \in Sites : sites'[s].status = IF s \in S THEN v ELSE sites[s].status
  BY TablesFit, WithStatusFacts
<1>2. v # Absent
  BY DEF Absent, NotJoined, Joined, Removed
<1>3. QED
  BY <1>1, <1>2 DEF RowsStay, RemovedStay

LEMMA ActiveFacts ==
    ASSUME NEW st, NEW s \in ActiveSites(st)
    PROVE  s \in Sites /\ st[s].status # Absent /\ st[s].status # Removed
  BY DEF ActiveSites, Absent, NotJoined, Joined, Removed

\* Requests that write group sets or parties leave the sites as they are.
LEMMA SameSites ==
    ASSUME IInv, UNCHANGED sites
    PROVE  sites' \in SiteTable /\ RowsStay /\ RemovedStay
  BY TablesFit DEF RowsStay, RemovedStay

LEMMA DeleteSiteKeeps ==
    ASSUME IInv, NEW a \in Threads,
           DeleteSiteCheck(a) \/ DeleteSiteRead(a) \/ DeleteSiteCommit(a)
    PROVE  IInv' /\ RemovedStay
<1>1. CASE DeleteSiteCheck(a)
  <2>1. PICK s \in ActiveSites(sites) : Start(a, "delete read", [NoRequest EXCEPT !.site = s])
    BY <1>1 DEF DeleteSiteCheck
  <2> DEFINE r == [NoRequest EXCEPT !.site = s]
  <2>2. r \in Request
    BY ActiveFacts DEF NoRequest, Request
  <2>3. "delete read" \in Label /\ Named("delete read", r)
    BY LabelFacts, UnnamedFits
  <2>4. IInv' /\ UNCHANGED sites
    <3> HIDE DEF r
    <3>1. QED
      BY <2>1, <2>2, <2>3, StartKeeps DEF r
  <2>5. QED
    BY <2>4 DEF RemovedStay
<1>2. CASE DeleteSiteRead(a)
  <2>1. "delete commit" \in Label /\ Named("delete commit", req[a])
    BY LabelFacts, UnnamedFits
  <2>2. IInv' /\ UNCHANGED sites
    BY <1>2, <2>1, ReadSnapshotKeeps DEF DeleteSiteRead
  <2>3. QED
    BY <2>2 DEF RemovedStay
<1>3. CASE DeleteSiteCommit(a)
  <2> DEFINE s == req[a].site
             old == snap[a].sites[s]
  <2>1. /\ party' = [party EXCEPT ![old.pid] = "none"] /\ Answer(a)
        /\ \/ /\ s \in ActiveSites(sites)
              /\ sites' = WithStatus(sites, {s}, Removed)
              /\ groups' = GiveBack(groups, snap[a].groups, old.grp)
           \/ UNCHANGED <<sites, groups>>
    BY <1>3 DEF DeleteSiteCommit
  <2>2. party' \in PartyTable
    BY <2>1, TablesFit DEF PartyTable, PartyRow
  <2>3. groups' \in GroupTable
    <3>1. snap[a].groups \in GroupTable
      BY ThreadFacts DEF Snapshot
    <3>2. QED
      <4> HIDE DEF s, old
      <4>1. QED
        BY <2>1, <3>1, TablesFit, GiveBackFacts
  <2>4. sites' \in SiteTable /\ RowsStay /\ RemovedStay
    <3>1. CASE UNCHANGED sites
      BY <3>1, SameSites
    <3>2. CASE s \in ActiveSites(sites) /\ sites' = WithStatus(sites, {s}, Removed)
      <4> DEFINE S == {s}
      <4>1. \A x \in S \cap Sites : sites[x].status # Absent
        BY <3>2, ActiveFacts
      <4>2. sites' = WithStatus(sites, S, Removed)
        BY <3>2
      <4>3. QED
        <5> HIDE DEF S
        <5>1. QED
          BY <4>1, <4>2, StatusKeeps
    <3>3. QED
      BY <2>1, <3>1, <3>2
  <2>5. QED
    BY <2>1, <2>2, <2>3, <2>4, AnswerKeeps
<1>4. QED
  BY <1>1, <1>2, <1>3

LEMMA ReactivateKeeps ==
    ASSUME IInv, NEW a \in Threads,
           ReactivateSiteStart(a) \/ ReactivateSiteRead(a) \/ ReactivateSiteCommit(a)
    PROVE  IInv' /\ RemovedStay
<1>1. CASE ReactivateSiteStart(a)
  <2>1. PICK s \in Sites :
          /\ sites[s].status = Joined
          /\ Start(a, "reactivate read", [NoRequest EXCEPT !.site = s, !.pid = sites[s].pid])
    BY <1>1 DEF ReactivateSiteStart
  <2> DEFINE pid == sites[s].pid
             r == [NoRequest EXCEPT !.site = s, !.pid = pid]
  <2>2. pid \in PartyIds
    <3>1. sites[s].status = Joined
      BY <2>1, Zenon
    <3>2. sites[s].status # Absent
      BY <3>1 DEF Joined, Absent
    <3>3. sites[s] \in SiteRow
      BY <3>2, TablesFit, RowFacts
    <3>4. QED
      BY <3>3 DEF SiteRow
  <2>3. r \in Request
    <3> HIDE DEF pid
    <3>1. QED
      BY <2>2 DEF NoRequest, Request
  <2>4. "reactivate read" \in Label /\ Named("reactivate read", r)
    BY LabelFacts, UnnamedFits
  <2>5. IInv' /\ UNCHANGED sites
    <3> HIDE DEF r
    <3>1. QED
      BY <2>1, <2>3, <2>4, StartKeeps DEF r
  <2>6. QED
    BY <2>5 DEF RemovedStay
<1>2. CASE ReactivateSiteRead(a)
  <2>1. "reactivate commit" \in Label /\ Named("reactivate commit", req[a])
    BY LabelFacts, UnnamedFits
  <2>2. IInv' /\ UNCHANGED sites
    BY <1>2, <2>1, ReadSnapshotKeeps, RefuseKeeps DEF ReactivateSiteRead
  <2>3. QED
    BY <2>2 DEF RemovedStay
<1>3. CASE ReactivateSiteCommit(a)
  <2> DEFINE p == req[a].pid
             hit == {s \in {req[a].site} : sites[s].pid = p /\ sites[s].status = Joined}
  <2>1. /\ party' = (IF party[p] = "none" THEN party ELSE [party EXCEPT ![p] = "reset"])
        /\ sites' = WithStatus(sites, hit, NotJoined)
        /\ groups' = groups /\ Answer(a)
    BY <1>3 DEF ReactivateSiteCommit
  <2>2. party' \in PartyTable /\ groups' \in GroupTable
    BY <2>1, TablesFit DEF PartyTable, PartyRow
  <2>3. \A s \in hit \cap Sites : sites[s].status # Absent /\ sites[s].status # Removed
    BY DEF Absent, Joined, Removed
  <2>4. sites' \in SiteTable /\ RowsStay /\ RemovedStay
    <3> HIDE DEF hit
    <3>1. QED
      BY <2>1, <2>3, StatusKeeps
  <2>5. QED
    BY <2>1, <2>2, <2>4, AnswerKeeps
<1>4. QED
  BY <1>1, <1>2, <1>3

LEMMA GroupWriteKeeps ==
    ASSUME IInv, NEW t \in Threads, groups' \in GroupTable, UNCHANGED <<sites, party>>, Answer(t)
    PROVE  IInv' /\ RemovedStay
  BY SameSites, TablesFit, AnswerKeeps

LEMMA GroupKeeps ==
    ASSUME IInv, NEW a \in Threads,
           \/ AddGroupCheck(a) \/ AddGroupCommit(a)
           \/ DeleteGroupCheck(a) \/ DeleteGroupCommit(a)
           \/ UpdateGroupCheckRegion(a) \/ UpdateGroupCheckUsed(a) \/ UpdateGroupCheckStatus(a)
    PROVE  IInv' /\ RemovedStay
<1>1. CASE AddGroupCheck(a)
  <2>1. PICK g \in Groups, R \in SUBSET PartyIds :
          Start(a, "add group commit", [NoRequest EXCEPT !.grp = g, !.ranges = R])
    BY <1>1 DEF AddGroupCheck
  <2> DEFINE r == [NoRequest EXCEPT !.grp = g, !.ranges = R]
  <2>2. r \in Request
    BY DEF NoRequest, Request
  <2>3. "add group commit" \in Label /\ Named("add group commit", r)
    BY LabelFacts, UnnamedFits
  <2>4. IInv' /\ UNCHANGED sites
    <3> HIDE DEF r
    <3>1. QED
      BY <2>1, <2>2, <2>3, StartKeeps DEF r
  <2>5. QED
    BY <2>4 DEF RemovedStay
<1>2. CASE AddGroupCommit(a)
  <2>1. NewGroup(req[a].ranges) \in GroupRow
    <3>1. req[a].ranges \in SUBSET PartyIds
      BY ThreadFacts DEF Request
    <3>2. Cardinality(req[a].ranges) \in Nat
      BY <3>1, RangesCounted
    <3>3. QED
      BY <3>1, <3>2 DEF NewGroup, GroupRow, ValidGroup
  <2>2. groups' \in GroupTable
    BY <1>2, <2>1, TablesFit DEF AddGroupCommit, GroupTable
  <2>3. QED
    BY <1>2, <2>2, GroupWriteKeeps DEF AddGroupCommit
<1>3. CASE DeleteGroupCheck(a)
  <2>1. PICK g \in Groups : Start(a, "delete group commit", [NoRequest EXCEPT !.grp = g])
    BY <1>3 DEF DeleteGroupCheck
  <2> DEFINE r == [NoRequest EXCEPT !.grp = g]
  <2>2. r \in Request
    BY DEF NoRequest, Request
  <2>3. "delete group commit" \in Label /\ Named("delete group commit", r)
    BY LabelFacts, UnnamedFits
  <2>4. IInv' /\ UNCHANGED sites
    <3> HIDE DEF r
    <3>1. QED
      BY <2>1, <2>2, <2>3, StartKeeps DEF r
  <2>5. QED
    BY <2>4 DEF RemovedStay
<1>4. CASE DeleteGroupCommit(a)
  <2> DEFINE g == req[a].grp
  <2>1. groups' = [groups EXCEPT ![g].status = DeletedGroup, ![g].ranges = {}]
    BY <1>4 DEF DeleteGroupCommit
  <2>2. groups' \in GroupTable
    <3> HIDE DEF g
    <3>1. QED
      BY <2>1, TablesFit DEF GroupTable, GroupRow, DeletedGroup
  <2>3. QED
    BY <1>4, <2>2, GroupWriteKeeps DEF DeleteGroupCommit
<1>5. CASE UpdateGroupCheckRegion(a)
  <2>1. PICK g \in Groups, R \in SUBSET PartyIds :
          Start(a, "group used", [NoRequest EXCEPT !.grp = g, !.ranges = R, !.todo = R])
    BY <1>5 DEF UpdateGroupCheckRegion
  <2> DEFINE r == [NoRequest EXCEPT !.grp = g, !.ranges = R, !.todo = R]
  <2>2. r \in Request
    BY DEF NoRequest, Request
  <2>3. "group used" \in Label /\ Named("group used", r)
    BY LabelFacts, UnnamedFits
  <2>4. IInv' /\ UNCHANGED sites
    <3> HIDE DEF r
    <3>1. QED
      BY <2>1, <2>2, <2>3, StartKeeps DEF r
  <2>5. QED
    BY <2>4 DEF RemovedStay
<1>6. CASE UpdateGroupCheckUsed(a)
  <2>1. "group status" \in Label /\ Named("group status", req[a])
    BY LabelFacts, UnnamedFits
  <2>2. IInv' /\ UNCHANGED sites
    BY <1>6, <2>1, ContinueKeeps, RefuseKeeps DEF UpdateGroupCheckUsed
  <2>3. QED
    BY <2>2 DEF RemovedStay
<1>7. CASE UpdateGroupCheckStatus(a)
  <2>1. "group total" \in Label /\ Named("group total", req[a])
    BY LabelFacts, UnnamedFits
  <2>2. IInv' /\ UNCHANGED sites
    BY <1>7, <2>1, ContinueKeeps, RefuseKeeps DEF UpdateGroupCheckStatus
  <2>3. QED
    BY <2>2 DEF RemovedStay
<1>8. QED
  BY <1>1, <1>2, <1>3, <1>4, <1>5, <1>6, <1>7

LEMMA RewriteGroupKeeps ==
    ASSUME IInv, NEW a \in Threads,
           UpdateGroupTotal(a) \/ UpdateGroupClear(a) \/ UpdateGroupInsert(a)
    PROVE  IInv' /\ RemovedStay
<1> DEFINE g == req[a].grp
<1>1. /\ "clear ranges" \in Label \ Updating /\ "insert ranges" \in Label \ Updating
      /\ \A r \in Request : Named("clear ranges", r) /\ Named("insert ranges", r)
  BY LabelFacts, UnnamedFits
<1>2. /\ req[a] \in Request /\ req[a].ranges \in SUBSET PartyIds
      /\ req[a].todo \in SUBSET PartyIds /\ snap[a] \in Snapshot
  <2>1. req[a] \in Request /\ snap[a] \in Snapshot
    BY ThreadFacts
  <2>2. QED
    BY <2>1 DEF Request
<1>3. /\ req = [req EXCEPT ![a] = req[a]] /\ snap = [snap EXCEPT ![a] = snap[a]]
  BY DEF IInv, TypeOK
<1>4. CASE UpdateGroupTotal(a)
  <2> DEFINE total == Cardinality(req[a].ranges)
  <2>1. /\ groups' = [groups EXCEPT ![g].total = total]
        /\ pc' = [pc EXCEPT ![a] = "clear ranges"] /\ UNCHANGED <<sites, party, req, snap>>
    BY <1>4 DEF UpdateGroupTotal
  <2>2. total \in Nat
    BY <1>2, RangesCounted
  <2>3. groups' \in GroupTable
    <3> HIDE DEF total, g
    <3>1. QED
      BY <2>1, <2>2, TablesFit DEF GroupTable, GroupRow
  <2>4. QED
    <3> HIDE DEF total, g
    <3>1. QED
      BY <1>1, <1>2, <1>3, <2>1, <2>3, SameSites, TablesFit, WriteKeeps
<1>5. CASE UpdateGroupClear(a)
  <2>1. /\ groups' = [groups EXCEPT ![g].ranges = {}]
        /\ pc' = [pc EXCEPT ![a] = "insert ranges"] /\ UNCHANGED <<sites, party, req, snap>>
    BY <1>5 DEF UpdateGroupClear
  <2>2. groups' \in GroupTable
    <3> HIDE DEF g
    <3>1. QED
      BY <2>1, TablesFit DEF GroupTable, GroupRow
  <2>3. QED
    <3> HIDE DEF g
    <3>1. QED
      BY <1>1, <1>2, <1>3, <2>1, <2>2, SameSites, TablesFit, WriteKeeps
<1>6. CASE UpdateGroupInsert(a)
  <2>1. PICK region \in SUBSET req[a].todo :
          /\ groups' = [groups EXCEPT ![g].ranges = @ \cup region]
          /\ \/ Answer(a)
             \/ /\ req' = [req EXCEPT ![a].todo = @ \ region]
                /\ UNCHANGED <<pc, snap>>
    BY <1>6 DEF UpdateGroupInsert
  <2>2. pc[a] = "insert ranges" /\ UNCHANGED <<sites, party>>
    BY <1>6 DEF UpdateGroupInsert, At
  <2>3. groups' \in GroupTable
    <3>1. region \in SUBSET PartyIds
      BY <1>2
    <3>2. QED
      <4> HIDE DEF g
      <4>1. QED
        BY <2>1, <3>1, TablesFit DEF GroupTable, GroupRow
  <2>4. CASE Answer(a)
    BY <2>2, <2>3, <2>4, GroupWriteKeeps
  <2>5. CASE req' = [req EXCEPT ![a].todo = @ \ region] /\ UNCHANGED <<pc, snap>>
    <3> DEFINE left == req[a].todo \ region
               r == [req[a] EXCEPT !.todo = left]
    <3>1. r \in Request
      <4>1. left \in SUBSET PartyIds
        BY <1>2
      <4>2. QED
        <5> HIDE DEF left
        <5>1. QED
          BY <1>2, <4>1 DEF Request
    <3>2. /\ req' = [req EXCEPT ![a] = r] /\ snap' = [snap EXCEPT ![a] = snap[a]]
          /\ pc' = [pc EXCEPT ![a] = "insert ranges"]
      BY <2>2, <2>5 DEF IInv, TypeOK
    <3>3. QED
      <4> HIDE DEF r, left, g
      <4>1. QED
        BY <1>1, <1>2, <2>2, <2>3, <3>1, <3>2, SameSites, TablesFit, WriteKeeps
  <2>6. QED
    BY <2>1, <2>4, <2>5
<1>7. QED
  BY <1>4, <1>5, <1>6

\* A step that writes the tables alone.
LEMMA TablesKeep ==
    ASSUME IInv, sites' \in SiteTable, groups' \in GroupTable, party' \in PartyTable, RowsStay,
           UNCHANGED <<pc, req, snap>>
    PROVE  IInv'
<1>1. TypeOK'
  BY DEF IInv, TypeOK
<1>2. \A u \in Threads : Named(pc[u], req[u])'
  BY ThreadFacts DEF Named, RowsStay
<1>3. QED
  BY <1>1, <1>2 DEF IInv

LEMMA InstitutionKeeps ==
    ASSUME IInv, NEW a \in Threads,
           DeleteInstitutionRead(a) \/ DeleteInstitutionCommit(a) \/ DeleteFateManagerUser(a)
    PROVE  IInv' /\ RemovedStay
<1>1. CASE DeleteInstitutionRead(a)
  <2> DEFINE view == [sites |-> sites, groups |-> groups]
  <2>1. PICK i \in Institutions : req' = [req EXCEPT ![a] = [NoRequest EXCEPT !.inst = i]]
    BY <1>1 DEF DeleteInstitutionRead
  <2> DEFINE r == [NoRequest EXCEPT !.inst = i]
  <2>2. /\ pc' = [pc EXCEPT ![a] = "institution commit"] /\ UNCHANGED tables
        /\ snap' = [snap EXCEPT ![a] = view]
    BY <1>1 DEF DeleteInstitutionRead
  <2>3. r \in Request /\ view \in Snapshot
    BY TablesFit DEF NoRequest, Request, Snapshot
  <2>4. "institution commit" \in Label /\ Named("institution commit", r)
    BY LabelFacts, UnnamedFits
  <2>5. IInv' /\ UNCHANGED sites
    <3>1. req' = [req EXCEPT ![a] = r]
      BY <2>1
    <3>2. UNCHANGED sites
      BY <2>2 DEF tables
    <3> HIDE DEF r, view
    <3>3. QED
      BY <2>2, <2>3, <2>4, <3>1, <3>2, MoveOnKeeps
  <2>6. QED
    BY <2>5 DEF RemovedStay
<1>2. CASE DeleteInstitutionCommit(a)
  <2> DEFINE old == snap[a].sites
             mine == SitesOf(old, req[a].inst)
             active == mine \cap ActiveSites(sites)
  <2>1. /\ sites' = WithStatus(sites, active, Removed)
        /\ groups' = GiveBackAll(groups, snap[a].groups, old, active)
        /\ party' = [p \in PartyIds |-> IF \E s \in mine : old[s].pid = p THEN "none" ELSE party[p]]
        /\ Answer(a)
    BY <1>2 DEF DeleteInstitutionCommit
  <2>2. active \in SUBSET Sites /\ \A s \in active \cap Sites : sites[s].status # Absent
    BY ActiveFacts
  <2>3. party' \in PartyTable
    <3> HIDE DEF old, mine
    <3>1. QED
      BY <2>1, TablesFit DEF PartyTable, PartyRow
  <2>4. groups' \in GroupTable
    <3>1. snap[a].groups \in GroupTable
      BY ThreadFacts DEF Snapshot
    <3> HIDE DEF old, active
    <3>2. QED
      BY <2>1, <2>2, <3>1, TablesFit, GiveBackAllFacts
  <2>5. sites' \in SiteTable /\ RowsStay /\ RemovedStay
    <3> HIDE DEF active
    <3>1. QED
      BY <2>1, <2>2, StatusKeeps
  <2>6. QED
    BY <2>1, <2>3, <2>4, <2>5, AnswerKeeps
<1>3. CASE DeleteFateManagerUser(a)
  <2>1. PICK i \in Institutions : sites' = WithStatus(sites, SitesOf(sites, i), Removed)
    BY <1>3 DEF DeleteFateManagerUser
  <2> DEFINE S == SitesOf(sites, i)
  <2>2. \A s \in S \cap Sites : sites[s].status # Absent
    <3>1. \A s \in S \cap Sites : sites[s].inst \in Institutions
      BY DEF SitesOf
    <3>2. QED
      BY <3>1, TablesFit, RowFacts
  <2>3. sites' \in SiteTable /\ RowsStay /\ RemovedStay
    <3>1. sites' = WithStatus(sites, S, Removed)
      BY <2>1
    <3> HIDE DEF S
    <3>2. QED
      BY <2>2, <3>1, StatusKeeps
  <2>4. UNCHANGED <<groups, party, pc, req, snap>>
    BY <1>3 DEF DeleteFateManagerUser
  <2>5. QED
    BY <2>3, <2>4, TablesFit, TablesKeep
<1>4. QED
  BY <1>1, <1>2, <1>3

LEMMA PublishKeeps ==
    ASSUME IInv, NEW p \in PartyIds, PublishParty(p)
    PROVE  IInv' /\ RemovedStay
<1>1. party' \in PartyTable
  BY TablesFit DEF PublishParty, PartyTable, PartyRow
<1>2. UNCHANGED <<sites, groups, pc, req, snap>>
  BY DEF PublishParty
<1>3. QED
  BY <1>1, <1>2, SameSites, TablesFit, TablesKeep

-----------------------------------------------------------------------------
(* Activation                                                              *)

LEMMA LongLinkKeeps ==
    ASSUME IInv, NEW t \in Threads,
           OpenLink(t) \/ ActivateCheckLink(t) \/ ActivateCheckSignature(t) \/ ActivateSite(t)
    PROVE  IInv' /\ RemovedStay
<1>1. CASE OpenLink(t)
  <2>1. PICK s \in ActiveSites(sites), kind \in Links :
          Start(t, IF kind = "long" THEN "link" ELSE "short signature",
                [NoRequest EXCEPT !.site = s, !.pid = sites[s].pid, !.grp = sites[s].grp])
    BY <1>1 DEF OpenLink
  <2> DEFINE next == IF kind = "long" THEN "link" ELSE "short signature"
             pid == sites[s].pid
             grp == sites[s].grp
             r == [NoRequest EXCEPT !.site = s, !.pid = pid, !.grp = grp]
  <2>2. s \in Sites /\ pid \in PartyIds /\ grp \in Groups
    <3>1. s \in Sites /\ sites[s].status # Absent
      BY ActiveFacts
    <3>2. sites[s] \in SiteRow
      BY <3>1, TablesFit, RowFacts
    <3>3. QED
      BY <3>1, <3>2 DEF SiteRow
  <2>3. r \in Request
    <3> HIDE DEF pid, grp
    <3>1. QED
      BY <2>2 DEF NoRequest, Request
  <2>4. next \in Label /\ Named(next, r)
    <3>1. CASE kind = "long"
      <4>1. next = "link"
        BY <3>1
      <4> HIDE DEF next, r
      <4>2. QED
        BY <4>1, LabelFacts, UnnamedFits
    <3>2. CASE kind # "long"
      <4>1. next = "short signature" /\ "short" \in Links
        BY <3>2, LinkAssumption
      <4> HIDE DEF next, r
      <4>2. QED
        BY <4>1, LabelFacts DEF Named, Adding, Updating, ShortLink
    <3>3. QED
      BY <3>1, <3>2
  <2>5. IInv' /\ UNCHANGED sites
    <3>1. Start(t, next, r)
      BY <2>1
    <3> HIDE DEF next, r
    <3>2. QED
      BY <2>3, <2>4, <3>1, StartKeeps
  <2>6. QED
    BY <2>5 DEF RemovedStay
<1>2. CASE ActivateCheckLink(t)
  <2>1. "signature" \in Label /\ Named("signature", req[t])
    BY LabelFacts, UnnamedFits
  <2>2. IInv' /\ UNCHANGED sites
    BY <1>2, <2>1, ContinueKeeps, RefuseKeeps DEF ActivateCheckLink
  <2>3. QED
    BY <2>2 DEF RemovedStay
<1>3. CASE ActivateCheckSignature(t)
  <2>1. "activate" \in Label /\ Named("activate", req[t])
    BY LabelFacts, UnnamedFits
  <2>2. IInv' /\ UNCHANGED sites
    BY <1>3, <2>1, ContinueKeeps, RefuseKeeps DEF ActivateCheckSignature
  <2>3. QED
    BY <2>2 DEF RemovedStay
<1>4. CASE ActivateSite(t)
  <2> DEFINE S == ActiveOn(sites, req[t].pid)
  <2>1. /\ sites' = WithStatus(sites, S, Joined)
        /\ UNCHANGED <<groups, party>> /\ Answer(t)
    BY <1>4 DEF ActivateSite
  <2>2. \A s \in S \cap Sites : sites[s].status # Absent /\ sites[s].status # Removed
    BY ActiveFacts DEF ActiveOn
  <2>3. sites' \in SiteTable /\ RowsStay /\ RemovedStay
    <3> HIDE DEF S
    <3>1. QED
      BY <2>1, <2>2, StatusKeeps
  <2>4. QED
    BY <2>1, <2>3, TablesFit, AnswerKeeps
<1>5. QED
  BY <1>1, <1>2, <1>3, <1>4

\* The commit writes back the row the transaction has read, whatever the row
\* is by now; only instances without short links keep removed sites removed.
LEMMA ShortLinkKeeps ==
    ASSUME IInv, NEW t \in Threads,
           ShortLinkCheckSignature(t) \/ ShortLinkRead(t) \/ ShortLinkActivateSite(t)
    PROVE  IInv' /\ ("short" \notin Links => RemovedStay)
<1>1. CASE ShortLinkCheckSignature(t)
  <2>1. Named("short read", req[t]) /\ "short read" \in Label
    BY <1>1, ThreadFacts, LabelFacts
       DEF ShortLinkCheckSignature, At, Named, Adding, Updating, ShortLink
  <2>2. IInv' /\ UNCHANGED sites
    BY <1>1, <2>1, ContinueKeeps, RefuseKeeps DEF ShortLinkCheckSignature
  <2>3. QED
    BY <2>2 DEF RemovedStay
<1>2. CASE ShortLinkRead(t)
  <2>1. Named("short commit", req[t]) /\ "short commit" \in Label
    BY <1>2, ThreadFacts, LabelFacts DEF ShortLinkRead, At, Named, Adding, Updating, ShortLink
  <2>2. IInv' /\ UNCHANGED sites
    BY <1>2, <2>1, ReadSnapshotKeeps, RefuseKeeps DEF ShortLinkRead
  <2>3. QED
    BY <2>2 DEF RemovedStay
<1>3. CASE ShortLinkActivateSite(t)
  <2>1. "short" \in Links
    BY <1>3, ThreadFacts DEF ShortLinkActivateSite, At, Named, ShortLink
  <2> DEFINE old == snap[t].sites
  <2>2. PICK s \in ActiveOn(old, req[t].pid) :
          sites' = [sites EXCEPT ![s] = [old[s] EXCEPT !.status = Joined]]
    BY <1>3 DEF ShortLinkActivateSite
  <2> DEFINE row == [old[s] EXCEPT !.status = Joined]
  <2>3. s \in Sites /\ old[s].status # Absent
    BY ActiveFacts DEF ActiveOn
  <2>4. row \in SiteRow
    <3>1. old \in SiteTable
      BY ThreadFacts DEF Snapshot
    <3>2. old[s] \in SiteRow
      <4> HIDE DEF old
      <4>1. QED
        BY <2>3, <3>1, RowFacts
    <3>3. QED
      <4> HIDE DEF old
      <4>1. QED
        BY <3>2 DEF SiteRow
  <2>5. sites' = [sites EXCEPT ![s] = row]
    BY <2>2
  <2>6. sites' \in SiteTable
    <3> HIDE DEF row
    <3>1. QED
      BY <2>3, <2>4, <2>5, TablesFit DEF SiteTable
  <2>7. RowsStay
    <3>1. sites'[s] = row /\ \A x \in Sites : x # s => sites'[x] = sites[x]
      <4> HIDE DEF row
      <4>1. QED
        BY <2>3, <2>5, TablesFit DEF SiteTable
    <3>2. sites'[s].status # Absent
      <4> HIDE DEF row
      <4>1. QED
        BY <2>4, <3>1 DEF SiteRow, Absent, NotJoined, Joined, Removed
    <3>3. QED
      BY <3>1, <3>2 DEF RowsStay
  <2>8. groups' \in GroupTable /\ party' \in PartyTable /\ Answer(t)
    BY <1>3, TablesFit DEF ShortLinkActivateSite, PartyTable, PartyRow
  <2>9. QED
    BY <2>1, <2>6, <2>7, <2>8, AnswerKeeps
<1>4. QED
  BY <1>1, <1>2, <1>3

-----------------------------------------------------------------------------
(* The theorems                                                            *)

LEMMA InitIInv == Init => IInv
<1> SUFFICES ASSUME Init PROVE IInv
  OBVIOUS
<1>1. sites \in SiteTable /\ groups \in GroupTable /\ party \in PartyTable
  BY DEF Init, SiteTable, GroupTable, GroupRow, AbsentGroup, NoGroup, PartyTable, PartyRow
<1>2. /\ pc \in [Threads -> Label] /\ req \in [Threads -> Request]
      /\ snap \in [Threads -> Snapshot]
  BY NoRequestFits, LabelFacts DEF Init
<1>3. \A t \in Threads : Named(pc[t], req[t])
  BY LabelFacts, UnnamedFits DEF Init
<1>4. QED
  BY <1>1, <1>2, <1>3 DEF IInv, TypeOK

LEMMA StepKeeps ==
    ASSUME IInv, Next
    PROVE  IInv' /\ ("short" \notin Links => RemovedStay)
<1>1. ASSUME NEW a \in Admins, SiteRequest(a) \/ GroupRequest(a) \/ InstitutionRequest(a)
      PROVE  IInv' /\ RemovedStay
  <2>1. a \in Threads
    BY DEF Threads
  <2>2. CASE SiteRequest(a)
    BY <2>1, <2>2, AddSiteKeeps, UpdateSiteKeeps, DeleteSiteKeeps, ReactivateKeeps
       DEF SiteRequest
  <2>3. CASE GroupRequest(a)
    <3>1. CASE UpdateGroupTorn(a)
      BY <2>1, <3>1, RefuseKeeps DEF UpdateGroupTorn, RemovedStay
    <3>2. QED
      BY <2>1, <2>3, <3>1, GroupKeeps, RewriteGroupKeeps DEF GroupRequest
  <2>4. CASE InstitutionRequest(a)
    BY <2>1, <2>4, InstitutionKeeps DEF InstitutionRequest
  <2>5. QED
    BY <1>1, <2>2, <2>3, <2>4
<1>2. ASSUME NEW t \in Installers, Activation(t)
      PROVE  IInv' /\ ("short" \notin Links => RemovedStay)
  <2>1. t \in Threads
    BY DEF Threads
  <2>2. QED
    BY <1>2, <2>1, LongLinkKeeps, ShortLinkKeeps DEF Activation
<1>3. ASSUME NEW t \in Threads, Rollback(t)
      PROVE  IInv' /\ RemovedStay
  BY <1>3, RefuseKeeps DEF Rollback, RemovedStay
<1>4. ASSUME NEW p \in PartyIds, PublishParty(p)
      PROVE  IInv' /\ RemovedStay
  BY <1>4, PublishKeeps
<1>5. QED
  BY <1>1, <1>2, <1>3, <1>4 DEF Next

LEMMA StutterKeeps ==
    ASSUME IInv, UNCHANGED vars
    PROVE  IInv' /\ RemovedStay
<1>1. UNCHANGED <<sites, groups, party, pc, req, snap>>
  BY DEF vars
<1>2. QED
  BY <1>1, SameSites, TablesFit, TablesKeep

LEMMA SpecIInv == Spec => []IInv
<1>1. IInv /\ [Next]_vars => IInv'
  BY StepKeeps, StutterKeeps
<1>2. QED
  BY <1>1, InitIInv, PTL DEF Spec

\* Whatever requests are in progress, the tables stay well formed, and so do
\* the requests and what their transactions have read.
THEOREM TypeCorrect == Spec => []TypeOK
<1>1. IInv => TypeOK
  BY DEF IInv
<1>2. QED
  BY <1>1, SpecIInv, PTL

\* Where sites are activated with the long link alone, a site that has been
\* removed (deleteSite, deleteInstitution, deleteFateManagerUser) never comes
\* back: no request, however old the rows it goes by, changes its status.
THEOREM RemovedStays ==
    ASSUME "short" \notin Links
    PROVE  Spec => RemovedIsFinal
<1>1. IInv /\ [Next]_vars => [RemovedStay]_vars
  BY StepKeeps
<1>2. RemovedStay => \A s \in Sites : sites[s].status = Removed => sites'[s].status = Removed
  BY DEF RemovedStay
<1>3. QED
  BY <1>1, <1>2, SpecIInv, PTL DEF Spec, RemovedIsFinal

-----------------------------------------------------------------------------
(* The requests of one administrator and the registry.                     *)

\* The registry and its theorems, read with the effective group sets.
Proved == INSTANCE SiteRegistry_proofs WITH groups <- EffectiveGroups

\* One administrator is at work, no update of a group set is left half done,
\* and where sites are activated with short links, whose commit writes a whole
\* row back, no site is changed or removed.
OneAtWork ==
    /\ \A a, b \in Admins : a = b
    /\ "torn" \notin Operations
    /\ "short" \in Links => Operations \cap {"update", "delete", "institution", "user"} = {}

\* A row as it is now and as it was read: only whether it joined may differ.
SameSite(now, then) ==
    /\ now.pid = then.pid /\ now.grp = then.grp /\ now.inst = then.inst
    /\ now.status \in {NotJoined, Joined} <=> then.status \in {NotJoined, Joined}

\* What an administrator's transaction has read is what there is; what a short
\* link's transaction has read of registered sites is what there is of them.
Current(st, gr, view) == view.groups = gr /\ \A s \in Sites : SameSite(st[s], view.sites[s])
RowsCurrent(st, view) == \A s \in ActiveSites(view.sites) : SameSite(st[s], view.sites[s])

\* What an administrator's request knows at a label, from the queries it has
\* made: the checks that its commit relies on hold of the tables st, gr, pt.
KnowsSite(st, gr, pt, label, r) ==
    /\ label \in Adding \cup {"update read", "update commit"} =>
        PartyIdInRegion(gr, r.grp, r.pid)
    /\ label \in {"add read", "add commit"} => ~PartyIdExists(st, r.pid, None)
    /\ label \in Updating => ~PartyIdExists(st, r.pid, r.site)
    /\ label \in {"update group", "update read", "update commit"} =>
        r.site \in ActiveSites(st) /\ r.origin = st[r.site].grp
    /\ label \in {"delete read", "delete commit"} => r.site \in ActiveSites(st)
    /\ label \in {"reactivate read", "reactivate commit"} =>
        r.site \in ActiveSites(st) /\ st[r.site].pid = r.pid
    /\ label = "reactivate commit" =>
        /\ r.pid \in PartyIds /\ pt[r.pid] # "none"
        /\ \E x \in ActiveOn(st, r.pid) : st[x].status = Joined
    /\ label = "institution commit" => r.inst \in Institutions /\ SitesOf(st, r.inst) # {}

Regrouping == {"group used", "group status", "group total"}
KnowsGroup(st, gr, label, r) ==
    /\ label = "add group commit" =>
        r.ranges # {} /\ \A h \in Groups : gr[h].ranges \cap r.ranges = {}
    /\ label = "delete group commit" =>
        r.grp \in Groups /\ gr[r.grp].status = ValidGroup /\ ActiveIn(st, r.grp) = {}
    /\ label \in Regrouping \cup Rewriting => r.grp \in Groups /\ gr[r.grp].status # NoGroup
    /\ label \in Regrouping => RegionsFree(gr, r.grp, r.ranges)
    /\ label \in Regrouping \cup {"clear ranges"} => r.todo = r.ranges
    /\ label \in {"group status", "group total"} => RegionsCoverUsed(st, r.grp, r.ranges)
    /\ label = "group total" => gr[r.grp].status = ValidGroup
    /\ label = "insert ranges" => gr[r.grp].ranges \cup r.todo = r.ranges

Viewing == {"add commit", "update commit", "delete commit", "institution commit"}
Knows(st, gr, pt, label, r, view) ==
    /\ KnowsSite(st, gr, pt, label, r)
    /\ KnowsGroup(st, gr, label, r)
    /\ label \in Viewing => Current(st, gr, view)

\* An id that was never given out has no ranges.
NoGroupEmpty(gr) == \A g \in Groups : gr[g].status = NoGroup => gr[g].ranges = {}

Detail ==
    /\ \A a \in Admins : Knows(sites, groups, party, pc[a], req[a], snap[a])
    /\ \A t \in Installers : pc[t] = "short commit" => RowsCurrent(sites, snap[t])
    /\ NoGroupEmpty(groups) /\ RangesDisjoint

Inv == IInv /\ Proved!IInv /\ Detail

-----------------------------------------------------------------------------
(* The effective group sets                                                *)

Resting == \A a \in Admins : pc[a] \notin Rewriting

LEMMA EffectiveAtRest ==
    ASSUME groups \in GroupTable, Resting
    PROVE  EffectiveGroups = groups
<1>1. \A g \in Groups : Rewriter(g) = {}
  BY DEF Rewriter, Resting
<1>2. EffectiveGroups = [g \in Groups |-> groups[g]]
  BY <1>1 DEF EffectiveGroups
<1>3. QED
  BY <1>2 DEF GroupTable

LEMMA EffectiveAtRestNext ==
    ASSUME groups' \in GroupTable, Resting'
    PROVE  EffectiveGroups' = groups'
<1>1. \A g \in Groups : Rewriter(g)' = {}
  BY DEF Rewriter, Resting
<1>2. EffectiveGroups' = [g \in Groups |-> groups'[g]]
  BY <1>1 DEF EffectiveGroups
<1>3. QED
  BY <1>2 DEF GroupTable

LEMMA EffectiveWhileRewriting ==
    ASSUME OneAtWork, groups \in GroupTable, NEW a \in Admins, pc[a] \in Rewriting
    PROVE  EffectiveGroups = [groups EXCEPT ![req[a].grp].ranges = req[a].ranges]
<1>1. \A g \in Groups : Rewriter(g) = IF g = req[a].grp THEN {a} ELSE {}
  BY DEF Rewriter, OneAtWork
<1>2. (CHOOSE b \in {a} : TRUE) = a
  OBVIOUS
<1>3. \A g \in Groups : EffectiveGroups[g] =
        IF g = req[a].grp THEN [groups[g] EXCEPT !.ranges = req[a].ranges] ELSE groups[g]
  BY <1>1, <1>2 DEF EffectiveGroups
<1>4. EffectiveGroups = [g \in Groups |-> EffectiveGroups[g]]
  BY DEF EffectiveGroups
<1>5. QED
  BY <1>3, <1>4 DEF GroupTable

LEMMA EffectiveWhileRewritingNext ==
    ASSUME OneAtWork, groups' \in GroupTable, NEW a \in Admins, pc'[a] \in Rewriting
    PROVE  EffectiveGroups' = [groups' EXCEPT ![req'[a].grp].ranges = req'[a].ranges]
<1>1. \A g \in Groups : Rewriter(g)' = IF g = req'[a].grp THEN {a} ELSE {}
  BY DEF Rewriter, OneAtWork
<1>2. (CHOOSE b \in {a} : TRUE) = a
  OBVIOUS
<1>3. \A g \in Groups : EffectiveGroups'[g] =
        IF g = req'[a].grp THEN [groups'[g] EXCEPT !.ranges = req'[a].ranges] ELSE groups'[g]
  BY <1>1, <1>2 DEF EffectiveGroups
<1>4. EffectiveGroups' = [g \in Groups |-> EffectiveGroups'[g]]
  BY DEF EffectiveGroups
<1>5. QED
  BY <1>3, <1>4 DEF GroupTable

\* Group sets and administrators stay as they are.
LEMMA EffectiveKept ==
    ASSUME groups' = groups, \A a \in Admins : pc'[a] = pc[a] /\ req'[a] = req[a]
    PROVE  EffectiveGroups' = EffectiveGroups
<1>1. \A g : Rewriter(g)' = Rewriter(g)
  BY DEF Rewriter
<1>2. \A g : Rewriter(g) # {} => (CHOOSE a \in Rewriter(g) : TRUE) \in Admins
  BY DEF Rewriter
<1>3. QED
  BY <1>1, <1>2 DEF EffectiveGroups

-----------------------------------------------------------------------------
(***************************************************************************)
(* The steps of the registry, said with the operators of the tables.       *)
(***************************************************************************)

LEMMA AddGroupDone ==
    ASSUME NEW g \in Groups, NEW R \in SUBSET PartyIds,
           EffectiveGroups[g].status = NoGroup, RegionsFree(EffectiveGroups, g, R),
           EffectiveGroups' = [EffectiveGroups EXCEPT ![g] = NewGroup(R)],
           UNCHANGED <<sites, party>>
    PROVE  Proved!GroupStep
<1>1. Proved!AddGroup(g, R)
  BY DEF Proved!AddGroup, Proved!RegionsFree, RegionsFree, Proved!NoGroup, NoGroup,
         Proved!NewGroup, NewGroup, Proved!ValidGroup, ValidGroup, Proved!Cardinality, Cardinality
<1>2. QED
  BY <1>1 DEF Proved!GroupStep

LEMMA UpdateGroupDone ==
    ASSUME NEW g \in Groups, NEW R \in SUBSET PartyIds,
           EffectiveGroups[g].status = ValidGroup, RegionsFree(EffectiveGroups, g, R),
           RegionsCoverUsed(sites, g, R),
           EffectiveGroups' =
               [EffectiveGroups EXCEPT ![g].total = Cardinality(R), ![g].ranges = R],
           UNCHANGED <<sites, party>>
    PROVE  Proved!GroupStep
<1>1. Proved!UpdateGroup(g, R)
  BY DEF Proved!UpdateGroup, Proved!RegionsFree, RegionsFree, Proved!ValidGroup, ValidGroup,
         Proved!RegionsCoverUsed, RegionsCoverUsed, Proved!ActiveIn, ActiveIn,
         Proved!ActiveSites, ActiveSites, Proved!NotJoined, NotJoined, Proved!Joined, Joined,
         Proved!Cardinality, Cardinality
<1>2. QED
  BY <1>1 DEF Proved!GroupStep

LEMMA DeleteGroupDone ==
    ASSUME NEW g \in Groups, EffectiveGroups[g].status = ValidGroup, ActiveIn(sites, g) = {},
           EffectiveGroups' =
               [EffectiveGroups EXCEPT ![g].status = DeletedGroup, ![g].ranges = {}],
           UNCHANGED <<sites, party>>
    PROVE  Proved!GroupStep
<1>1. Proved!DeleteGroup(g)
  BY DEF Proved!DeleteGroup, Proved!ValidGroup, ValidGroup, Proved!DeletedGroup, DeletedGroup,
         Proved!ActiveIn, ActiveIn, Proved!ActiveSites, ActiveSites,
         Proved!NotJoined, NotJoined, Proved!Joined, Joined
<1>2. QED
  BY <1>1 DEF Proved!GroupStep

LEMMA AddSiteDone ==
    ASSUME NEW s \in Sites, NEW p \in PartyIds, NEW g \in Groups, NEW i \in Institutions,
           sites[s].status = Absent, PartyIdInRegion(EffectiveGroups, g, p),
           ~PartyIdExists(sites, p, None), CanTake(EffectiveGroups, EffectiveGroups, g),
           sites' = [sites EXCEPT ![s] = NewSite(p, g, i)],
           EffectiveGroups' = Take(EffectiveGroups, EffectiveGroups, g),
           UNCHANGED party
    PROVE  Proved!SiteStep
<1>1. Proved!AddSite(s, p, g, i)
  BY DEF Proved!AddSite, Proved!PartyIdInRegion, PartyIdInRegion, Proved!ValidGroup, ValidGroup,
         Proved!PartyIdExists, PartyIdExists, Proved!ActiveOn, ActiveOn,
         Proved!ActiveSites, ActiveSites, Proved!Absent, Absent,
         Proved!NotJoined, NotJoined, Proved!Joined, Joined, Proved!NewSite, NewSite,
         Proved!CanTake, CanTake, Proved!Take, Take, Proved!WithUsed, WithUsed
<1>2. QED
  BY <1>1 DEF Proved!SiteStep

LEMMA UpdateSiteDone ==
    ASSUME NEW s \in ActiveSites(sites), NEW p \in PartyIds, NEW g \in Groups,
           ~PartyIdExists(sites, p, s), PartyIdInRegion(EffectiveGroups, g, p),
           CanMove(EffectiveGroups, EffectiveGroups, sites[s].grp, g),
           sites' = [sites EXCEPT ![s].pid = p, ![s].grp = g],
           EffectiveGroups' = Move(EffectiveGroups, EffectiveGroups, sites[s].grp, g),
           UNCHANGED party
    PROVE  Proved!SiteStep
<1>1. Proved!UpdateSite(s, p, g)
  BY DEF Proved!UpdateSite, Proved!PartyIdInRegion, PartyIdInRegion,
         Proved!ValidGroup, ValidGroup,
         Proved!PartyIdExists, PartyIdExists, Proved!ActiveOn, ActiveOn,
         Proved!ActiveSites, ActiveSites, Proved!NotJoined, NotJoined, Proved!Joined, Joined,
         Proved!CanMove, CanMove, Proved!CanTake, CanTake, Proved!CanGiveBack, CanGiveBack,
         Proved!Move, Move, Proved!Take, Take, Proved!GiveBack, GiveBack,
         Proved!WithUsed, WithUsed
<1>2. s \in Sites
  BY DEF ActiveSites
<1>3. QED
  BY <1>1, <1>2 DEF Proved!SiteStep

LEMMA DeleteSiteDone ==
    ASSUME NEW s \in ActiveSites(sites), CanGiveBack(EffectiveGroups, sites[s].grp),
           sites' = WithStatus(sites, {s}, Removed),
           EffectiveGroups' = GiveBack(EffectiveGroups, EffectiveGroups, sites[s].grp),
           party' = [party EXCEPT ![sites[s].pid] = "none"]
    PROVE  Proved!SiteStep
<1>1. Proved!DeleteSite(s)
  BY DEF Proved!DeleteSite, Proved!ActiveSites, ActiveSites,
         Proved!NotJoined, NotJoined, Proved!Joined, Joined, Proved!Removed, Removed,
         Proved!CanGiveBack, CanGiveBack, Proved!GiveBack, GiveBack,
         Proved!WithUsed, WithUsed, Proved!WithStatus, WithStatus
<1>2. s \in Sites
  BY DEF ActiveSites
<1>3. QED
  BY <1>1, <1>2 DEF Proved!SiteStep

LEMMA ActivateSiteDone ==
    ASSUME NEW p \in PartyIds, ActiveOn(sites, p) # {},
           sites' = WithStatus(sites, ActiveOn(sites, p), Joined),
           EffectiveGroups' = EffectiveGroups, UNCHANGED party
    PROVE  Proved!SiteStep
<1>1. Proved!ActivateSite(p)
  BY DEF Proved!ActivateSite, Proved!ActiveOn, ActiveOn, Proved!ActiveSites, ActiveSites,
         Proved!NotJoined, NotJoined, Proved!Joined, Joined, Proved!WithStatus, WithStatus
<1>2. QED
  BY <1>1 DEF Proved!SiteStep

LEMMA ShortLinkActivateSiteDone ==
    ASSUME NEW p \in PartyIds, NEW s \in Sites, ActiveOn(sites, p) = {s},
           sites[s].status = NotJoined,
           sites' = WithStatus(sites, ActiveOn(sites, p), Joined),
           EffectiveGroups' = EffectiveGroups, party' = [party EXCEPT ![p] = "published"]
    PROVE  Proved!SiteStep
<1>1. Proved!ShortLinkActivateSite(p)
  BY DEF Proved!ShortLinkActivateSite, Proved!ActiveOn, ActiveOn,
         Proved!ActiveSites, ActiveSites,
         Proved!NotJoined, NotJoined, Proved!Joined, Joined, Proved!WithStatus, WithStatus
<1>2. QED
  BY <1>1 DEF Proved!SiteStep

LEMMA ReactivateSiteDone ==
    ASSUME NEW s \in Sites, NEW p \in PartyIds, party[p] # "none",
           \E x \in ActiveOn(sites, p) : sites[x].status = Joined,
           party' = [party EXCEPT ![p] = "reset"],
           sites' = WithStatus(sites, {x \in {s} : sites[x].pid = p /\ sites[x].status = Joined},
                               NotJoined),
           EffectiveGroups' = EffectiveGroups
    PROVE  Proved!SiteStep
<1>1. Proved!ReactivateSite(s, p)
  BY DEF Proved!ReactivateSite, Proved!ActiveOn, ActiveOn, Proved!ActiveSites, ActiveSites,
         Proved!NotJoined, NotJoined, Proved!Joined, Joined, Proved!WithStatus, WithStatus
<1>2. QED
  BY <1>1 DEF Proved!SiteStep

LEMMA PublishPartyDone ==
    ASSUME NEW p \in PartyIds, party' = [party EXCEPT ![p] = "published"],
           EffectiveGroups' = EffectiveGroups, UNCHANGED sites
    PROVE  Proved!SiteStep
<1>1. Proved!PublishParty(p)
  BY DEF Proved!PublishParty
<1>2. QED
  BY <1>1 DEF Proved!SiteStep

\* The registered sites of an institution.
Registered(i) == SitesOf(sites, i) \cap ActiveSites(sites)

LEMMA DeleteInstitutionDone ==
    ASSUME NEW i \in Institutions, SitesOf(sites, i) # {},
           CanGiveBackAll(EffectiveGroups, EffectiveGroups, sites, Registered(i)),
           sites' = WithStatus(sites, Registered(i), Removed),
           EffectiveGroups' = GiveBackAll(EffectiveGroups, EffectiveGroups, sites, Registered(i)),
           party' = [p \in PartyIds |->
               IF \E s \in SitesOf(sites, i) : sites[s].pid = p THEN "none" ELSE party[p]]
    PROVE  Proved!DeleteInstitution(i)
  BY DEF Registered, Proved!DeleteInstitution, Proved!SitesOf, SitesOf, Proved!ActiveSites, ActiveSites,
         Proved!NotJoined, NotJoined, Proved!Joined, Joined, Proved!Removed, Removed,
         Proved!CanGiveBackAll, CanGiveBackAll, Proved!GiveBackAll, GiveBackAll,
         Proved!Leaving, Leaving, Proved!Cardinality, Cardinality,
         Proved!WithStatus, WithStatus

LEMMA DeleteFateManagerUserDone ==
    ASSUME NEW i \in Institutions, SitesOf(sites, i) # {},
           sites' = WithStatus(sites, SitesOf(sites, i), Removed),
           EffectiveGroups' = EffectiveGroups, UNCHANGED party
    PROVE  Proved!DeleteFateManagerUser(i)
  BY DEF Proved!DeleteFateManagerUser, Proved!SitesOf, SitesOf, Proved!Removed, Removed,
         Proved!WithStatus, WithStatus

-----------------------------------------------------------------------------
(* What keeps the invariant                                                *)

LEMMA SameRows ==
    ASSUME NEW st, NEW then, \A s \in Sites : SameSite(st[s], then[s])
    PROVE  /\ ActiveSites(st) = ActiveSites(then)
           /\ \A p : ActiveOn(st, p) = ActiveOn(then, p)
           /\ \A g : ActiveIn(st, g) = ActiveIn(then, g)
           /\ \A i : SitesOf(st, i) = SitesOf(then, i)
<1>1. ActiveSites(st) = ActiveSites(then)
  BY DEF ActiveSites, SameSite
<1>2. \A s \in ActiveSites(then) : s \in Sites
  BY DEF ActiveSites
<1>3. QED
  BY <1>1, <1>2 DEF ActiveOn, ActiveIn, SitesOf, SameSite

\* Between two states of the tables sites may join and parties be published,
\* and nothing else changes.
Forward(then, st, before, pt) ==
    /\ \A s \in Sites : SameSite(st[s], then[s])
    /\ \A s \in Sites : then[s].status = Joined => st[s].status = Joined
    /\ \A p \in PartyIds : before[p] # "none" => pt[p] # "none"

\* That takes nothing from an administrator's request.
LEMMA KnowsHolds ==
    ASSUME NEW then, NEW st, NEW gr, NEW before, NEW pt, NEW label, NEW r, NEW view,
           Forward(then, st, before, pt), Knows(then, gr, before, label, r, view)
    PROVE  Knows(st, gr, pt, label, r, view)
<1>1. /\ ActiveSites(st) = ActiveSites(then)
      /\ \A p : ActiveOn(st, p) = ActiveOn(then, p)
      /\ \A g : ActiveIn(st, g) = ActiveIn(then, g)
      /\ \A i : SitesOf(st, i) = SitesOf(then, i)
  BY SameRows DEF Forward
<1>2. \A s \in ActiveSites(then) : s \in Sites /\ st[s].pid = then[s].pid /\ st[s].grp = then[s].grp
  BY DEF ActiveSites, SameSite, Forward
<1>3. \A p : \A x \in ActiveOn(then, p) : x \in Sites
  BY DEF ActiveOn, ActiveSites
<1>4. \A g : \A x \in ActiveIn(then, g) : x \in ActiveSites(then)
  BY DEF ActiveIn
<1>5. KnowsSite(st, gr, pt, label, r)
  <2>1. KnowsSite(then, gr, before, label, r)
    BY DEF Knows
  <2>2. QED
    BY <1>1, <1>2, <1>3, <2>1 DEF KnowsSite, PartyIdExists, Forward
<1>6. KnowsGroup(st, gr, label, r)
  <2>1. KnowsGroup(then, gr, label, r)
    BY DEF Knows
  <2>2. RegionsCoverUsed(then, r.grp, r.ranges) => RegionsCoverUsed(st, r.grp, r.ranges)
    BY <1>1, <1>2, <1>4 DEF RegionsCoverUsed
  <2>3. QED
    BY <1>1, <2>1, <2>2 DEF KnowsGroup
<1>7. label \in Viewing => Current(st, gr, view)
  BY DEF Knows, Current, SameSite, Forward
<1>8. QED
  BY <1>5, <1>6, <1>7 DEF Knows

\* A step of the registry taken by a request, or no step.
Step ==
    \/ sites' = sites /\ EffectiveGroups' = EffectiveGroups /\ party' = party
    \/ Proved!GroupStep
    \/ Proved!SiteStep
    \/ \E i \in Institutions : Proved!DeleteInstitution(i)
    \/ "user" \in Operations /\ \E i \in Institutions : Proved!DeleteFateManagerUser(i)

\* The request of the administrator goes on, and may write the tables.
LEMMA AdminKeeps ==
    ASSUME Inv, OneAtWork, NEW a \in Admins, NEW next \in Label, NEW r \in Request,
           NEW view \in Snapshot,
           pc' = [pc EXCEPT ![a] = next], req' = [req EXCEPT ![a] = r],
           snap' = [snap EXCEPT ![a] = view],
           Knows(sites', groups', party', next, r, view),
           NoGroupEmpty(groups'), RangesDisjoint',
           "short" \in Links => \A s \in ActiveSites(sites) : SameSite(sites'[s], sites[s])
    PROVE  Detail'
<1>1. \A b \in Admins : pc'[b] = next /\ req'[b] = r /\ snap'[b] = view
  BY DEF Inv, IInv, TypeOK, Threads, OneAtWork
<1>2. ASSUME NEW t \in Installers, pc'[t] = "short commit"
      PROVE  RowsCurrent(sites', snap'[t])
  <2>1. pc'[t] = pc[t] /\ snap'[t] = snap[t]
    BY ThreadAssumption DEF Inv, IInv, TypeOK, Threads
  <2>2. "short" \in Links
    BY <1>2, <2>1 DEF Inv, IInv, Named, ShortLink, Threads
  <2>3. RowsCurrent(sites, snap[t])
    BY <1>2, <2>1 DEF Inv, Detail
  <2>4. \A s \in ActiveSites(snap[t].sites) : s \in ActiveSites(sites)
    BY <2>3 DEF RowsCurrent, SameSite, ActiveSites
  <2>5. QED
    BY <2>1, <2>2, <2>3, <2>4 DEF RowsCurrent, SameSite
<1>3. QED
  BY <1>1, <1>2 DEF Detail

LEMMA KnowsNothing == \A st, gr, pt, r, view : Knows(st, gr, pt, "idle", r, view)
  BY DEF Knows, KnowsSite, KnowsGroup, Adding, Updating, Regrouping, Rewriting, Viewing

LEMMA InvFacts ==
    ASSUME Inv, OneAtWork, NEW a \in Admins
    PROVE  /\ a \in Threads /\ sites \in SiteTable /\ groups \in GroupTable
           /\ party \in PartyTable
           /\ pc[a] \in Label /\ req[a] \in Request /\ snap[a] \in Snapshot
           /\ Named(pc[a], req[a]) /\ Knows(sites, groups, party, pc[a], req[a], snap[a])
           /\ NoGroupEmpty(groups) /\ RangesDisjoint
<1>1. a \in Threads
  BY DEF Threads
<1>2. QED
  BY <1>1, ThreadFacts, TablesFit DEF Inv, Detail

\* A query: the tables stay, and what the request knows by now holds.
LEMMA QueryKeeps ==
    ASSUME Inv, OneAtWork, NEW a \in Admins, NEW next \in Label, NEW r \in Request,
           NEW view \in Snapshot, pc[a] \notin Rewriting, next \notin Rewriting,
           pc' = [pc EXCEPT ![a] = next], req' = [req EXCEPT ![a] = r],
           snap' = [snap EXCEPT ![a] = view], UNCHANGED tables,
           Knows(sites, groups, party, next, r, view)
    PROVE  Detail' /\ Step
<1>1. sites' = sites /\ groups' = groups /\ party' = party
  BY DEF tables
<1>2. Detail'
  <2>1. NoGroupEmpty(groups') /\ RangesDisjoint' /\ Knows(sites', groups', party', next, r, view)
    BY <1>1, InvFacts DEF RangesDisjoint
  <2>2. \A s \in ActiveSites(sites) : SameSite(sites'[s], sites[s])
    BY <1>1 DEF SameSite
  <2>3. QED
    BY <2>1, <2>2, AdminKeeps
<1>3. Resting
  BY DEF Resting, OneAtWork
<1>4. Resting'
  <2>1. \A b \in Admins : pc'[b] = next
    BY DEF OneAtWork, Inv, IInv, TypeOK, Threads
  <2>2. QED
    BY <2>1 DEF Resting
<1>5. EffectiveGroups = groups
  BY <1>3, InvFacts, EffectiveAtRest
<1>6. EffectiveGroups' = groups'
  BY <1>1, <1>4, InvFacts, EffectiveAtRestNext
<1>7. QED
  BY <1>1, <1>2, <1>5, <1>6 DEF Step

LEMMA StartQuery ==
    ASSUME Inv, OneAtWork, NEW a \in Admins, NEW next \in Label \ Rewriting, NEW r \in Request,
           Start(a, next, r), Knows(sites, groups, party, next, r, snap[a])
    PROVE  Detail' /\ Step
<1>1. /\ pc' = [pc EXCEPT ![a] = next] /\ req' = [req EXCEPT ![a] = r]
      /\ UNCHANGED tables /\ snap' = snap /\ pc[a] = "idle"
  BY DEF Start, At
<1>2. snap' = [snap EXCEPT ![a] = snap[a]] /\ snap[a] \in Snapshot
  BY <1>1, InvFacts DEF Inv, IInv, TypeOK
<1>3. "idle" \notin Rewriting
  BY DEF Rewriting
<1>4. QED
  BY <1>1, <1>2, <1>3, QueryKeeps

LEMMA ContinueQuery ==
    ASSUME Inv, OneAtWork, NEW a \in Admins, NEW next \in Label \ Rewriting,
           pc[a] \notin Rewriting, Continue(a, next),
           Knows(sites, groups, party, next, req[a], snap[a])
    PROVE  Detail' /\ Step
<1>1. pc' = [pc EXCEPT ![a] = next] /\ req' = req /\ snap' = snap /\ UNCHANGED tables
  BY DEF Continue
<1>2. /\ snap' = [snap EXCEPT ![a] = snap[a]] /\ snap[a] \in Snapshot
      /\ req' = [req EXCEPT ![a] = req[a]] /\ req[a] \in Request
  BY <1>1, InvFacts DEF Inv, IInv, TypeOK
<1>3. QED
  BY <1>1, <1>2, QueryKeeps

LEMMA ReadQuery ==
    ASSUME Inv, OneAtWork, NEW a \in Admins, NEW next \in Label \ Rewriting,
           pc[a] \notin Rewriting, ReadSnapshot(a, next),
           KnowsSite(sites, groups, party, next, req[a]),
           KnowsGroup(sites, groups, next, req[a])
    PROVE  Detail' /\ Step
<1> DEFINE view == [sites |-> sites, groups |-> groups]
<1>1. /\ pc' = [pc EXCEPT ![a] = next] /\ req' = req /\ UNCHANGED tables
      /\ snap' = [snap EXCEPT ![a] = view]
  BY DEF ReadSnapshot
<1>2. view \in Snapshot /\ req' = [req EXCEPT ![a] = req[a]] /\ req[a] \in Request
  BY <1>1, InvFacts DEF Inv, IInv, TypeOK, Snapshot
<1>3. Current(sites, groups, view)
  BY DEF Current, SameSite
<1>4. Knows(sites, groups, party, next, req[a], view)
  <2> HIDE DEF view
  <2>1. QED
    BY <1>3 DEF Knows
<1>5. QED
  <2> HIDE DEF view
  <2>1. QED
    BY <1>1, <1>2, <1>4, QueryKeeps

LEMMA RefuseQuery ==
    ASSUME Inv, OneAtWork, NEW a \in Admins, pc[a] \notin Rewriting, Refuse(a)
    PROVE  Detail' /\ Step
<1>1. "idle" \in Label /\ "idle" \notin Rewriting
  BY DEF Label, Rewriting
<1>2. QED
  BY <1>1, NoRequestFits, KnowsNothing, QueryKeeps DEF Refuse, Answer

\* A commit: the request ends, and the tables are written.
LEMMA CommitKeeps ==
    ASSUME Inv, OneAtWork, NEW a \in Admins, Answer(a), pc[a] \notin Rewriting,
           NoGroupEmpty(groups'), RangesDisjoint', groups' \in GroupTable,
           "short" \in Links => \A s \in ActiveSites(sites) : SameSite(sites'[s], sites[s])
    PROVE  Detail' /\ EffectiveGroups = groups /\ EffectiveGroups' = groups'
<1>1. "idle" \in Label /\ "idle" \notin Rewriting
  BY DEF Label, Rewriting
<1>2. Detail'
  BY <1>1, NoRequestFits, KnowsNothing, AdminKeeps DEF Answer
<1>3. Resting
  BY DEF Resting, OneAtWork
<1>4. Resting'
  <2>1. \A b \in Admins : pc'[b] = "idle"
    BY DEF OneAtWork, Answer, Inv, IInv, TypeOK, Threads
  <2>2. QED
    BY <1>1, <2>1 DEF Resting
<1>5. QED
  BY <1>2, <1>3, <1>4, InvFacts, EffectiveAtRest, EffectiveAtRestNext

-----------------------------------------------------------------------------
(* Sites                                                                   *)

LEMMA OnlyUsed ==
    ASSUME NEW gr \in GroupTable, NEW g, NEW n, NEW h \in Groups
    PROVE  /\ WithUsed(gr, g, n)[h].status = gr[h].status
           /\ WithUsed(gr, g, n)[h].ranges = gr[h].ranges
  BY DEF WithUsed, GroupTable, GroupRow

\* The services of sites write no status and no range of a group set.
SameRanges ==
    \A g \in Groups : groups'[g].status = groups[g].status /\ groups'[g].ranges = groups[g].ranges

LEMMA RangesKept ==
    ASSUME NoGroupEmpty(groups), RangesDisjoint, SameRanges
    PROVE  NoGroupEmpty(groups') /\ RangesDisjoint'
  BY DEF NoGroupEmpty, RangesDisjoint, SameRanges

LEMMA AddSiteSteps ==
    ASSUME Inv, OneAtWork, NEW a \in Admins,
           AddSiteCheckRegion(a) \/ AddSiteCheckParty(a) \/ AddSiteRead(a) \/ AddSiteCommit(a)
    PROVE  Detail' /\ Step
<1> DEFINE Labels == {"add party", "add read", "add commit"}
<1>0. /\ Labels \subseteq Label /\ Labels \cap Rewriting = {}
      /\ \A label \in Labels : /\ label \notin Updating \cup Regrouping \cup Rewriting
                               /\ label \in Adding
  BY DEF Label, InTransaction, Rewriting, Updating, Regrouping, Adding
<1>1. CASE AddSiteCheckRegion(a)
  <2>1. PICK p \in PartyIds, g \in Groups, i \in Institutions :
          /\ PartyIdInRegion(groups, g, p)
          /\ Start(a, "add party", [NoRequest EXCEPT !.pid = p, !.grp = g, !.inst = i])
    BY <1>1 DEF AddSiteCheckRegion
  <2> DEFINE r == [NoRequest EXCEPT !.pid = p, !.grp = g, !.inst = i]
  <2>2. r \in Request /\ r.pid = p /\ r.grp = g
    BY DEF NoRequest, Request
  <2>3. Start(a, "add party", r)
    BY <2>1, Zenon
  <2> HIDE DEF r
  <2>4. Knows(sites, groups, party, "add party", r, snap[a])
    BY <1>0, <2>1, <2>2 DEF Knows, KnowsSite, KnowsGroup, Viewing
  <2>5. QED
    BY <1>0, <2>2, <2>3, <2>4, StartQuery
<1>2. CASE AddSiteCheckParty(a)
  <2>1. pc[a] = "add party" /\ pc[a] \notin Rewriting
    BY <1>0, <1>2 DEF AddSiteCheckParty, At
  <2>2. CASE Refuse(a)
    BY <2>1, <2>2, RefuseQuery
  <2>3. CASE ~Refuse(a)
    <3>1. ~PartyIdExists(sites, req[a].pid, None) /\ Continue(a, "add read")
      BY <1>2, <2>3 DEF AddSiteCheckParty
    <3>2. Knows(sites, groups, party, "add read", req[a], snap[a])
      BY <1>0, <2>1, <3>1, InvFacts DEF Knows, KnowsSite, KnowsGroup, Viewing
    <3>3. QED
      BY <1>0, <2>1, <3>1, <3>2, ContinueQuery
  <2>4. QED
    BY <2>2, <2>3
<1>3. CASE AddSiteRead(a)
  <2>1. pc[a] = "add read" /\ pc[a] \notin Rewriting /\ ReadSnapshot(a, "add commit")
    BY <1>0, <1>3 DEF AddSiteRead, At
  <2>2. /\ KnowsSite(sites, groups, party, "add commit", req[a])
        /\ KnowsGroup(sites, groups, "add commit", req[a])
    <3>1. KnowsSite(sites, groups, party, "add read", req[a])
      BY <1>0, <2>1, InvFacts DEF Knows
    <3>2. KnowsSite(sites, groups, party, "add commit", req[a])
      BY <3>1 DEF KnowsSite, Adding, Updating
    <3>3. KnowsGroup(sites, groups, "add commit", req[a])
      BY <1>0 DEF KnowsGroup
    <3>4. QED
      BY <3>2, <3>3
  <2>3. QED
    BY <1>0, <2>1, <2>2, ReadQuery
<1>4. CASE AddSiteCommit(a)
  <2> DEFINE g == req[a].grp  p == req[a].pid  i == req[a].inst
  <2>1. pc[a] = "add commit" /\ pc[a] \notin Rewriting /\ Answer(a) /\ party' = party
    BY <1>0, <1>4 DEF AddSiteCommit, At
  <2>2. g \in Groups /\ p \in PartyIds /\ i \in Institutions
    BY <1>0, <2>1, InvFacts DEF Named
  <2>3. /\ PartyIdInRegion(groups, g, p) /\ ~PartyIdExists(sites, p, None)
        /\ snap[a].groups = groups
    BY <1>0, <2>1, InvFacts DEF Knows, KnowsSite, Viewing, Current
  <2>4. CanTake(groups, groups, g) /\ groups' = Take(groups, groups, g)
    BY <1>4, <2>3 DEF AddSiteCommit
  <2>5. PICK s \in Sites : sites[s].status = Absent /\ sites' = [sites EXCEPT ![s] = NewSite(p, g, i)]
    BY <1>4 DEF AddSiteCommit
  <2>6. SameRanges /\ groups' \in GroupTable
    BY <2>4, InvFacts, OnlyUsed, TakeFacts DEF Take, SameRanges
  <2>7. \A x \in ActiveSites(sites) : SameSite(sites'[x], sites[x])
    BY <2>5, InvFacts, ActiveFacts DEF SiteTable, SameSite
  <2>8. Detail' /\ EffectiveGroups = groups /\ EffectiveGroups' = groups'
    BY <2>1, <2>6, <2>7, InvFacts, RangesKept, CommitKeeps
  <2> HIDE DEF g, p, i
  <2>9. Proved!SiteStep
    BY <2>1, <2>2, <2>3, <2>4, <2>5, <2>8, AddSiteDone
  <2>10. QED
    BY <2>8, <2>9 DEF Step
<1>5. QED
  BY <1>1, <1>2, <1>3, <1>4

LEMMA MoveKeeps ==
    ASSUME NEW gr \in GroupTable, NEW from, NEW to, NEW h \in Groups
    PROVE  /\ Move(gr, gr, from, to)[h].status = gr[h].status
           /\ Move(gr, gr, from, to)[h].ranges = gr[h].ranges
<1>1. CASE from = to
  BY <1>1, OnlyUsed DEF Move
<1>2. CASE from # to
  <2>1. GiveBack(gr, gr, from) \in GroupTable
    BY GiveBackFacts
  <2>2. QED
    BY <1>2, <2>1, OnlyUsed DEF Move, Take, GiveBack
<1>3. QED
  BY <1>1, <1>2

LEMMA UpdateSiteSteps ==
    ASSUME Inv, OneAtWork, NEW a \in Admins, "update" \in Operations,
           \/ UpdateSiteCheckParty(a) \/ UpdateSiteCheckSite(a) \/ UpdateSiteCheckRegion(a)
           \/ UpdateSiteRead(a) \/ UpdateSiteCommit(a)
    PROVE  Detail' /\ Step
<1>0. /\ Updating \subseteq Label /\ Updating \cap Rewriting = {}
      /\ \A label \in Updating : label \notin Adding \cup Regrouping \cup Rewriting
  BY DEF Label, InTransaction, Rewriting, Updating, Regrouping, Adding
<1>1. CASE UpdateSiteCheckParty(a)
  <2>1. PICK s \in Sites, p \in PartyIds, g \in Groups :
          /\ ~PartyIdExists(sites, p, s)
          /\ Start(a, "update site", [NoRequest EXCEPT !.site = s, !.pid = p, !.grp = g])
    BY <1>1 DEF UpdateSiteCheckParty
  <2> DEFINE r == [NoRequest EXCEPT !.site = s, !.pid = p, !.grp = g]
  <2>2. r \in Request /\ r.pid = p /\ r.site = s
    BY DEF NoRequest, Request
  <2>3. Start(a, "update site", r)
    BY <2>1, Zenon
  <2> HIDE DEF r
  <2>4. "update site" \in Updating
    BY DEF Updating
  <2>5. Knows(sites, groups, party, "update site", r, snap[a])
    BY <1>0, <2>1, <2>2, <2>4 DEF Knows, KnowsSite, KnowsGroup, Viewing
  <2>6. QED
    BY <1>0, <2>2, <2>3, <2>4, <2>5, StartQuery
<1>2. CASE UpdateSiteCheckSite(a)
  <2>1. pc[a] = "update site" /\ pc[a] \in Updating
    BY <1>2 DEF UpdateSiteCheckSite, At, Updating
  <2>2. CASE Refuse(a)
    BY <1>0, <2>1, <2>2, RefuseQuery
  <2>3. CASE ~Refuse(a)
    <3> DEFINE grp == sites[req[a].site].grp
               r == [req[a] EXCEPT !.origin = grp]
    <3>1. /\ sites[req[a].site].status = NotJoined
          /\ pc' = [pc EXCEPT ![a] = "update group"]
          /\ req' = [req EXCEPT ![a].origin = grp]
          /\ UNCHANGED tables /\ snap' = snap
      BY <1>2, <2>3 DEF UpdateSiteCheckSite
    <3>2. /\ req[a] \in Request /\ req[a].site \in Sites
          /\ ~PartyIdExists(sites, req[a].pid, req[a].site)
      BY <2>1, InvFacts DEF Named, Knows, KnowsSite
    <3>3. req[a].site \in ActiveSites(sites)
      BY <3>1, <3>2 DEF ActiveSites
    <3>4. grp \in Groups
      <4>1. sites[req[a].site] \in SiteRow
        BY <3>2, <3>3, ActiveFacts, InvFacts, RowFacts
      <4>2. QED
        BY <4>1 DEF SiteRow
    <3>5. /\ r \in Request /\ r.site = req[a].site /\ r.pid = req[a].pid /\ r.origin = grp
      <4> HIDE DEF grp
      <4>1. QED
        BY <3>2, <3>4 DEF Request
    <3>6. "update group" \in Updating
      BY DEF Updating
    <3>7. Knows(sites, groups, party, "update group", r, snap[a])
      <4>1. r.origin = sites[r.site].grp /\ r.site \in ActiveSites(sites)
        BY <3>3, <3>5
      <4> HIDE DEF r
      <4>2. QED
        BY <1>0, <3>2, <3>5, <3>6, <4>1 DEF Knows, KnowsSite, KnowsGroup, Viewing
    <3>8. /\ req' = [req EXCEPT ![a] = r]
          /\ snap' = [snap EXCEPT ![a] = snap[a]] /\ snap[a] \in Snapshot
      BY <3>1, InvFacts DEF Inv, IInv, TypeOK
    <3>9. QED
      <4> HIDE DEF r, grp
      <4>1. QED
        BY <1>0, <2>1, <3>1, <3>5, <3>6, <3>7, <3>8, QueryKeeps
  <2>4. QED
    BY <2>2, <2>3
<1>3. CASE UpdateSiteCheckRegion(a)
  <2>1. /\ pc[a] = "update group" /\ pc[a] \in Updating
        /\ "update read" \in Updating
    BY <1>3 DEF UpdateSiteCheckRegion, At, Updating
  <2>2. CASE Refuse(a)
    BY <1>0, <2>1, <2>2, RefuseQuery
  <2>3. CASE ~Refuse(a)
    <3>1. PartyIdInRegion(groups, req[a].grp, req[a].pid) /\ Continue(a, "update read")
      BY <1>3, <2>3 DEF UpdateSiteCheckRegion
    <3>2. Knows(sites, groups, party, "update read", req[a], snap[a])
      BY <1>0, <2>1, <3>1, InvFacts DEF Knows, KnowsSite, KnowsGroup, Viewing
    <3>3. QED
      BY <1>0, <2>1, <3>1, <3>2, ContinueQuery
  <2>4. QED
    BY <2>2, <2>3
<1>4. CASE UpdateSiteRead(a)
  <2>1. /\ pc[a] = "update read" /\ pc[a] \in Updating /\ "update commit" \in Updating
        /\ ReadSnapshot(a, "update commit")
    BY <1>4 DEF UpdateSiteRead, At, Updating
  <2>2. /\ KnowsSite(sites, groups, party, "update commit", req[a])
        /\ KnowsGroup(sites, groups, "update commit", req[a])
    BY <1>0, <2>1, InvFacts DEF Knows, KnowsSite, KnowsGroup
  <2>3. QED
    BY <1>0, <2>1, <2>2, ReadQuery
<1>5. CASE UpdateSiteCommit(a)
  <2> DEFINE s == req[a].site  p == req[a].pid  g == req[a].grp
  <2>1. /\ pc[a] = "update commit" /\ pc[a] \in Updating /\ Answer(a) /\ party' = party
    BY <1>5 DEF UpdateSiteCommit, At, Updating
  <2>2. s \in Sites /\ g \in Groups /\ p \in PartyIds
    BY <2>1, InvFacts DEF Named
  <2>3. /\ PartyIdInRegion(groups, g, p) /\ ~PartyIdExists(sites, p, s)
        /\ s \in ActiveSites(sites) /\ req[a].origin = sites[s].grp
        /\ snap[a].groups = groups
    BY <2>1, InvFacts DEF Knows, KnowsSite, Viewing, Current
  <2>4. /\ CanMove(groups, groups, sites[s].grp, g)
        /\ sites' = [sites EXCEPT ![s].pid = p, ![s].grp = g]
        /\ groups' = Move(groups, groups, sites[s].grp, g)
    BY <1>5, <2>3 DEF UpdateSiteCommit
  <2> HIDE DEF s, p, g
  <2>5. SameRanges /\ groups' \in GroupTable
    BY <2>4, InvFacts, MoveKeeps, MoveFacts DEF SameRanges
  <2>6. "short" \notin Links
    BY DEF OneAtWork
  <2>7. Detail' /\ EffectiveGroups = groups /\ EffectiveGroups' = groups'
    BY <1>0, <2>1, <2>5, <2>6, InvFacts, RangesKept, CommitKeeps
  <2>8. Proved!SiteStep
    BY <2>1, <2>2, <2>3, <2>4, <2>7, UpdateSiteDone
  <2>9. QED
    BY <2>7, <2>8 DEF Step
<1>6. QED
  BY <1>1, <1>2, <1>3, <1>4, <1>5

LEMMA DeleteSiteSteps ==
    ASSUME Inv, OneAtWork, NEW a \in Admins, "delete" \in Operations,
           DeleteSiteCheck(a) \/ DeleteSiteRead(a) \/ DeleteSiteCommit(a)
    PROVE  Detail' /\ Step
<1> DEFINE Labels == {"delete read", "delete commit"}
<1>0. /\ Labels \subseteq Label /\ Labels \cap Rewriting = {}
      /\ \A label \in Labels : label \notin Adding \cup Updating \cup Regrouping \cup Rewriting
  BY DEF Label, InTransaction, Rewriting, Updating, Regrouping, Adding
<1>1. CASE DeleteSiteCheck(a)
  <2>1. PICK s \in ActiveSites(sites) : Start(a, "delete read", [NoRequest EXCEPT !.site = s])
    BY <1>1 DEF DeleteSiteCheck
  <2> DEFINE r == [NoRequest EXCEPT !.site = s]
  <2>2. r \in Request /\ r.site = s
    BY ActiveFacts DEF NoRequest, Request
  <2>3. Start(a, "delete read", r)
    BY <2>1, Zenon
  <2> HIDE DEF r
  <2>4. Knows(sites, groups, party, "delete read", r, snap[a])
    BY <1>0, <2>2 DEF Knows, KnowsSite, KnowsGroup, Viewing
  <2>5. QED
    BY <1>0, <2>2, <2>3, <2>4, StartQuery
<1>2. CASE DeleteSiteRead(a)
  <2>1. pc[a] = "delete read" /\ pc[a] \notin Rewriting /\ ReadSnapshot(a, "delete commit")
    BY <1>0, <1>2 DEF DeleteSiteRead, At
  <2>2. /\ KnowsSite(sites, groups, party, "delete commit", req[a])
        /\ KnowsGroup(sites, groups, "delete commit", req[a])
    BY <1>0, <2>1, InvFacts DEF Knows, KnowsSite, KnowsGroup
  <2>3. QED
    BY <1>0, <2>1, <2>2, ReadQuery
<1>3. CASE DeleteSiteCommit(a)
  <2> DEFINE s == req[a].site  old == snap[a].sites[s]
  <2>1. pc[a] = "delete commit" /\ pc[a] \notin Rewriting /\ Answer(a)
    BY <1>0, <1>3 DEF DeleteSiteCommit, At
  <2>2. s \in ActiveSites(sites) /\ snap[a].groups = groups /\ SameSite(sites[s], old)
    BY <2>1, InvFacts, ActiveFacts DEF Knows, KnowsSite, Viewing, Current
  <2>3. old.pid = sites[s].pid /\ old.grp = sites[s].grp
    BY <2>2 DEF SameSite
  <2>4. /\ CanGiveBack(groups, sites[s].grp)
        /\ party' = [party EXCEPT ![sites[s].pid] = "none"]
        /\ sites' = WithStatus(sites, {s}, Removed)
        /\ groups' = GiveBack(groups, groups, sites[s].grp)
    BY <1>3, <2>2, <2>3 DEF DeleteSiteCommit
  <2> HIDE DEF s, old
  <2>5. SameRanges /\ groups' \in GroupTable
    BY <2>4, InvFacts, OnlyUsed, GiveBackFacts DEF GiveBack, SameRanges
  <2>6. "short" \notin Links
    BY DEF OneAtWork
  <2>7. Detail' /\ EffectiveGroups = groups /\ EffectiveGroups' = groups'
    BY <2>1, <2>5, <2>6, InvFacts, RangesKept, CommitKeeps
  <2>8. Proved!SiteStep
    BY <2>2, <2>4, <2>7, DeleteSiteDone
  <2>9. QED
    BY <2>7, <2>8 DEF Step
<1>4. QED
  BY <1>1, <1>2, <1>3

\* Turning sites joined or not joined leaves them the same.
LEMMA SameAfterStatus ==
    ASSUME NEW st \in SiteTable, NEW S \in SUBSET ActiveSites(st), NEW v \in {NotJoined, Joined},
           NEW s \in Sites
    PROVE  SameSite(WithStatus(st, S, v)[s], st[s])
<1>1. CASE s \in S
  <2>1. st[s] \in SiteRow /\ st[s].status \in {NotJoined, Joined}
    BY <1>1, ActiveFacts, RowFacts DEF ActiveSites
  <2>2. WithStatus(st, S, v)[s] = [st[s] EXCEPT !.status = v]
    BY <1>1 DEF WithStatus
  <2>3. QED
    BY <2>1, <2>2 DEF SiteRow, SameSite
<1>2. CASE s \notin S
  BY <1>2 DEF WithStatus, SameSite
<1>3. QED
  BY <1>1, <1>2

LEMMA ReactivateSteps ==
    ASSUME Inv, OneAtWork, NEW a \in Admins,
           ReactivateSiteStart(a) \/ ReactivateSiteRead(a) \/ ReactivateSiteCommit(a)
    PROVE  Detail' /\ Step
<1> DEFINE Labels == {"reactivate read", "reactivate commit"}
<1>0. /\ Labels \subseteq Label /\ Labels \cap Rewriting = {}
      /\ \A label \in Labels : label \notin Adding \cup Updating \cup Regrouping \cup Rewriting
  BY DEF Label, InTransaction, Rewriting, Updating, Regrouping, Adding
<1>1. CASE ReactivateSiteStart(a)
  <2>1. PICK s \in Sites :
          /\ sites[s].status = Joined
          /\ Start(a, "reactivate read", [NoRequest EXCEPT !.site = s, !.pid = sites[s].pid])
    BY <1>1 DEF ReactivateSiteStart
  <2>2. s \in ActiveSites(sites)
    BY <2>1 DEF ActiveSites
  <2> DEFINE p == sites[s].pid  r == [NoRequest EXCEPT !.site = s, !.pid = p]
  <2>3. p \in PartyIds
    <3>1. sites[s] \in SiteRow
      BY <2>2, ActiveFacts, InvFacts, RowFacts
    <3>2. QED
      BY <3>1 DEF SiteRow
  <2>4. r \in Request /\ r.site = s /\ r.pid = p
    <3> HIDE DEF p
    <3>1. QED
      BY <2>3 DEF NoRequest, Request
  <2>5. Start(a, "reactivate read", r)
    BY <2>1, Zenon
  <2> HIDE DEF r
  <2>6. Knows(sites, groups, party, "reactivate read", r, snap[a])
    BY <1>0, <2>2, <2>4 DEF Knows, KnowsSite, KnowsGroup, Viewing
  <2>7. QED
    BY <1>0, <2>4, <2>5, <2>6, StartQuery
<1>2. CASE ReactivateSiteRead(a)
  <2>1. pc[a] = "reactivate read" /\ pc[a] \notin Rewriting
    BY <1>0, <1>2 DEF ReactivateSiteRead, At
  <2>2. CASE Refuse(a)
    BY <2>1, <2>2, RefuseQuery
  <2>3. CASE ~Refuse(a)
    <3>1. /\ party[req[a].pid] # "none"
          /\ \E x \in ActiveOn(sites, req[a].pid) : sites[x].status = Joined
          /\ ReadSnapshot(a, "reactivate commit")
      BY <1>2, <2>3 DEF ReactivateSiteRead
    <3>2. req[a].pid \in PartyIds
      <4>1. PICK x \in ActiveSites(sites) : sites[x].pid = req[a].pid
        BY <3>1 DEF ActiveOn
      <4>2. sites[x] \in SiteRow
        BY ActiveFacts, InvFacts, RowFacts
      <4>3. QED
        BY <4>1, <4>2 DEF SiteRow
    <3>3. /\ KnowsSite(sites, groups, party, "reactivate commit", req[a])
          /\ KnowsGroup(sites, groups, "reactivate commit", req[a])
      BY <1>0, <2>1, <3>1, <3>2, InvFacts DEF Knows, KnowsSite, KnowsGroup
    <3>4. QED
      BY <1>0, <2>1, <3>1, <3>3, ReadQuery
  <2>4. QED
    BY <2>2, <2>3
<1>3. CASE ReactivateSiteCommit(a)
  <2> DEFINE s == req[a].site  p == req[a].pid
             hit == {x \in {s} : sites[x].pid = p /\ sites[x].status = Joined}
  <2>1. /\ pc[a] = "reactivate commit" /\ pc[a] \notin Rewriting /\ Answer(a)
        /\ groups' = groups
    BY <1>0, <1>3 DEF ReactivateSiteCommit, At
  <2>2. /\ s \in ActiveSites(sites) /\ sites[s].pid = p
        /\ p \in PartyIds /\ party[p] # "none"
        /\ \E x \in ActiveOn(sites, p) : sites[x].status = Joined
    BY <2>1, InvFacts DEF Knows, KnowsSite
  <2>3. s \in Sites /\ p \in PartyIds
    BY <2>2, ActiveFacts
  <2>4. party' = [party EXCEPT ![p] = "reset"] /\ sites' = WithStatus(sites, hit, NotJoined)
    BY <1>3, <2>2 DEF ReactivateSiteCommit
  <2>5. hit \in SUBSET ActiveSites(sites)
    BY <2>2
  <2>6. \A x \in ActiveSites(sites) : SameSite(sites'[x], sites[x])
    <3> HIDE DEF hit
    <3>1. QED
      BY <2>4, <2>5, InvFacts, ActiveFacts, SameAfterStatus
  <2>7. Detail' /\ EffectiveGroups = groups /\ EffectiveGroups' = groups'
    <3>1. SameRanges
      BY <2>1 DEF SameRanges
    <3>2. QED
      BY <2>1, <2>6, <3>1, InvFacts, RangesKept, CommitKeeps
  <2> HIDE DEF s, p
  <2>8. Proved!SiteStep
    BY <2>1, <2>2, <2>3, <2>4, <2>7, ReactivateSiteDone
  <2>9. QED
    BY <2>7, <2>8 DEF Step
<1>4. QED
  BY <1>1, <1>2, <1>3

-----------------------------------------------------------------------------
(* Group sets                                                              *)

LEMMA AddGroupSteps ==
    ASSUME Inv, OneAtWork, NEW a \in Admins, AddGroupCheck(a) \/ AddGroupCommit(a)
    PROVE  Detail' /\ Step
<1> DEFINE here == "add group commit"
<1>0. /\ here \in Label /\ here \notin Rewriting
      /\ here \notin Adding \cup Updating \cup Regrouping \cup Viewing
  BY DEF Label, InTransaction, Rewriting, Updating, Regrouping, Adding, Viewing
<1>1. CASE AddGroupCheck(a)
  <2>1. PICK g \in Groups, R \in SUBSET PartyIds :
          /\ groups[g].status = NoGroup
          /\ RegionsFree(groups, g, R)
          /\ Start(a, here, [NoRequest EXCEPT !.grp = g, !.ranges = R])
    BY <1>1 DEF AddGroupCheck
  <2> DEFINE r == [NoRequest EXCEPT !.grp = g, !.ranges = R]
  <2>2. r \in Request /\ r.ranges = R
    BY DEF NoRequest, Request
  <2>3. Start(a, here, r)
    BY <2>1, Zenon
  <2>4. R # {} /\ \A h \in Groups : groups[h].ranges \cap R = {}
    BY <2>1, InvFacts DEF RegionsFree, NoGroupEmpty
  <2> HIDE DEF r
  <2>5. Knows(sites, groups, party, here, r, snap[a])
    BY <1>0, <2>2, <2>4 DEF Knows, KnowsSite, KnowsGroup
  <2>6. QED
    BY <1>0, <2>2, <2>3, <2>5, StartQuery
<1>2. CASE AddGroupCommit(a)
  <2> DEFINE R == req[a].ranges
  <2>1. pc[a] = here /\ Answer(a) /\ sites' = sites /\ party' = party
    BY <1>2 DEF AddGroupCommit, At
  <2>2. /\ R \in SUBSET PartyIds
        /\ R # {} /\ \A h \in Groups : groups[h].ranges \cap R = {}
    BY <2>1, InvFacts DEF Knows, KnowsGroup, Request
  <2>3. PICK g \in Groups :
          groups[g].status = NoGroup /\ groups' = [groups EXCEPT ![g] = NewGroup(R)]
    BY <1>2 DEF AddGroupCommit
  <2> HIDE DEF R
  <2>4. NewGroup(R) \in GroupRow /\ NewGroup(R).ranges = R /\ NewGroup(R).status # NoGroup
    BY <2>2, RangesCounted DEF NewGroup, GroupRow, ValidGroup, NoGroup
  <2>5. groups' \in GroupTable /\ groups'[g] = NewGroup(R) /\ \A h \in Groups : h # g => groups'[h] = groups[h]
    BY <2>3, <2>4, InvFacts DEF GroupTable
  <2>6. NoGroupEmpty(groups')
    BY <2>4, <2>5, InvFacts DEF NoGroupEmpty
  <2>7. RangesDisjoint'
    BY <2>2, <2>4, <2>5, InvFacts DEF RangesDisjoint
  <2>8. \A x \in ActiveSites(sites) : SameSite(sites'[x], sites[x])
    BY <2>1 DEF SameSite
  <2>9. Detail' /\ EffectiveGroups = groups /\ EffectiveGroups' = groups'
    BY <1>0, <2>1, <2>5, <2>6, <2>7, <2>8, CommitKeeps
  <2>10. RegionsFree(groups, g, R)
    BY <2>2 DEF RegionsFree
  <2>11. Proved!GroupStep
    BY <2>1, <2>2, <2>3, <2>9, <2>10, AddGroupDone
  <2>12. QED
    BY <2>9, <2>11 DEF Step
<1>3. QED
  BY <1>1, <1>2

LEMMA DeleteGroupSteps ==
    ASSUME Inv, OneAtWork, NEW a \in Admins, DeleteGroupCheck(a) \/ DeleteGroupCommit(a)
    PROVE  Detail' /\ Step
<1> DEFINE here == "delete group commit"
<1>0. /\ here \in Label /\ here \notin Rewriting
      /\ here \notin Adding \cup Updating \cup Regrouping \cup Viewing
  BY DEF Label, InTransaction, Rewriting, Updating, Regrouping, Adding, Viewing
<1>1. CASE DeleteGroupCheck(a)
  <2>1. PICK g \in Groups :
          /\ groups[g].status = ValidGroup /\ ActiveIn(sites, g) = {}
          /\ Start(a, here, [NoRequest EXCEPT !.grp = g])
    BY <1>1 DEF DeleteGroupCheck
  <2> DEFINE r == [NoRequest EXCEPT !.grp = g]
  <2>2. r \in Request /\ r.grp = g
    BY DEF NoRequest, Request
  <2>3. Start(a, here, r)
    BY <2>1, Zenon
  <2> HIDE DEF r
  <2>4. Knows(sites, groups, party, here, r, snap[a])
    BY <1>0, <2>1, <2>2 DEF Knows, KnowsSite, KnowsGroup
  <2>5. QED
    BY <1>0, <2>2, <2>3, <2>4, StartQuery
<1>2. CASE DeleteGroupCommit(a)
  <2> DEFINE g == req[a].grp
  <2>1. pc[a] = here /\ Answer(a) /\ sites' = sites /\ party' = party
    BY <1>2 DEF DeleteGroupCommit, At
  <2>2. g \in Groups /\ groups[g].status = ValidGroup /\ ActiveIn(sites, g) = {}
    BY <2>1, InvFacts DEF Knows, KnowsGroup
  <2>3. groups' = [groups EXCEPT ![g].status = DeletedGroup, ![g].ranges = {}]
    BY <1>2 DEF DeleteGroupCommit
  <2> HIDE DEF g
  <2>4. /\ groups' \in GroupTable
        /\ groups'[g].ranges = {}
        /\ \A h \in Groups : h # g => groups'[h] = groups[h]
    BY <2>2, <2>3, InvFacts DEF GroupTable, GroupRow, DeletedGroup
  <2>5. NoGroupEmpty(groups') /\ RangesDisjoint'
    BY <2>4, InvFacts DEF NoGroupEmpty, RangesDisjoint
  <2>6. \A x \in ActiveSites(sites) : SameSite(sites'[x], sites[x])
    BY <2>1 DEF SameSite
  <2>7. Detail' /\ EffectiveGroups = groups /\ EffectiveGroups' = groups'
    BY <1>0, <2>1, <2>4, <2>5, <2>6, CommitKeeps
  <2>8. Proved!GroupStep
    BY <2>1, <2>2, <2>3, <2>7, DeleteGroupDone
  <2>9. QED
    BY <2>7, <2>8 DEF Step
<1>3. QED
  BY <1>1, <1>2

\* The checks before updateGroup.
LEMMA CheckGroupSteps ==
    ASSUME Inv, OneAtWork, NEW a \in Admins,
           UpdateGroupCheckRegion(a) \/ UpdateGroupCheckUsed(a) \/ UpdateGroupCheckStatus(a)
    PROVE  Detail' /\ Step
<1>0. /\ Regrouping \subseteq Label /\ Regrouping \cap Rewriting = {}
      /\ \A label \in Regrouping : label \notin Adding \cup Updating \cup Viewing
  BY DEF Label, InTransaction, Rewriting, Updating, Regrouping, Adding, Viewing
<1>1. CASE UpdateGroupCheckRegion(a)
  <2>1. PICK g \in Groups, R \in SUBSET PartyIds :
          /\ groups[g].status # NoGroup /\ RegionsFree(groups, g, R)
          /\ Start(a, "group used", [NoRequest EXCEPT !.grp = g, !.ranges = R, !.todo = R])
    BY <1>1 DEF UpdateGroupCheckRegion
  <2> DEFINE r == [NoRequest EXCEPT !.grp = g, !.ranges = R, !.todo = R]
  <2>2. r \in Request /\ r.grp = g /\ r.ranges = R /\ r.todo = R
    BY DEF NoRequest, Request
  <2>3. Start(a, "group used", r) /\ "group used" \in Regrouping
    <3>1. "group used" \in Regrouping
      BY DEF Regrouping
    <3>2. QED
      BY <2>1, <3>1, Zenon
  <2> HIDE DEF r
  <2>4. Knows(sites, groups, party, "group used", r, snap[a])
    BY <1>0, <2>1, <2>2, <2>3 DEF Knows, KnowsSite, KnowsGroup
  <2>5. QED
    BY <1>0, <2>2, <2>3, <2>4, StartQuery
<1>2. CASE UpdateGroupCheckUsed(a)
  <2>1. pc[a] = "group used" /\ pc[a] \in Regrouping /\ "group status" \in Regrouping
    BY <1>2 DEF UpdateGroupCheckUsed, At, Regrouping
  <2>2. CASE Refuse(a)
    BY <1>0, <2>1, <2>2, RefuseQuery
  <2>3. CASE ~Refuse(a)
    <3>1. RegionsCoverUsed(sites, req[a].grp, req[a].ranges) /\ Continue(a, "group status")
      BY <1>2, <2>3 DEF UpdateGroupCheckUsed
    <3>2. Knows(sites, groups, party, "group status", req[a], snap[a])
      BY <1>0, <2>1, <3>1, InvFacts DEF Knows, KnowsSite, KnowsGroup
    <3>3. QED
      BY <1>0, <2>1, <3>1, <3>2, ContinueQuery
  <2>4. QED
    BY <2>2, <2>3
<1>3. CASE UpdateGroupCheckStatus(a)
  <2>1. pc[a] = "group status" /\ pc[a] \in Regrouping /\ "group total" \in Regrouping
    BY <1>3 DEF UpdateGroupCheckStatus, At, Regrouping
  <2>2. CASE Refuse(a)
    BY <1>0, <2>1, <2>2, RefuseQuery
  <2>3. CASE ~Refuse(a)
    <3>1. groups[req[a].grp].status = ValidGroup /\ Continue(a, "group total")
      BY <1>3, <2>3 DEF UpdateGroupCheckStatus
    <3>2. Knows(sites, groups, party, "group total", req[a], snap[a])
      BY <1>0, <2>1, <3>1, InvFacts DEF Knows, KnowsSite, KnowsGroup
    <3>3. QED
      BY <1>0, <2>1, <3>1, <3>2, ContinueQuery
  <2>4. QED
    BY <2>2, <2>3
<1>4. QED
  BY <1>1, <1>2, <1>3

\* The first statement of updateGroup is, for the registry, the whole of it.
LEMMA UpdateGroupTotalSteps ==
    ASSUME Inv, OneAtWork, NEW a \in Admins, UpdateGroupTotal(a)
    PROVE  Detail' /\ Step
<1> DEFINE g == req[a].grp  R == req[a].ranges  next == "clear ranges"
<1>0. /\ next \in Label /\ next \in Rewriting
      /\ next \notin Adding \cup Updating \cup Regrouping \cup Viewing
      /\ "group total" \in Regrouping \ Rewriting
  BY DEF Label, InTransaction, Rewriting, Updating, Regrouping, Adding, Viewing
<1>1. /\ pc[a] = "group total" /\ pc' = [pc EXCEPT ![a] = next]
      /\ sites' = sites /\ party' = party /\ req' = req /\ snap' = snap
      /\ groups' = [groups EXCEPT ![g].total = Cardinality(R)]
  BY DEF UpdateGroupTotal, At
<1>2. /\ g \in Groups /\ RegionsFree(groups, g, R) /\ RegionsCoverUsed(sites, g, R)
      /\ req[a].todo = R /\ groups[g].status = ValidGroup
      /\ R \in SUBSET PartyIds
  <2>1. KnowsGroup(sites, groups, "group total", req[a]) /\ req[a] \in Request
    BY <1>1, InvFacts DEF Knows
  <2>2. R \in SUBSET PartyIds
    BY <2>1 DEF Request
  <2>3. QED
    BY <2>1, <2>2 DEF KnowsGroup, Regrouping
<1>3. /\ snap' = [snap EXCEPT ![a] = snap[a]] /\ snap[a] \in Snapshot
      /\ req' = [req EXCEPT ![a] = req[a]] /\ req[a] \in Request
      /\ pc'[a] = next
  BY <1>1, InvFacts DEF Inv, IInv, TypeOK
<1>4. Cardinality(R) \in Nat
  BY <1>2, RangesCounted
<1>5. SameRanges /\ groups' \in GroupTable
  <2> HIDE DEF g, R
  <2>1. QED
    BY <1>1, <1>2, <1>4, InvFacts DEF GroupTable, GroupRow, SameRanges
<1>6. Knows(sites', groups', party', next, req[a], snap[a])
  <2>1. groups'[g].status # NoGroup
    BY <1>2, <1>5 DEF SameRanges, ValidGroup, NoGroup
  <2> HIDE DEF next
  <2>2. next = "clear ranges"
    BY DEF next
  <2>3. QED
    BY <1>0, <1>2, <2>1, <2>2 DEF Knows, KnowsSite, KnowsGroup
<1>7. Detail'
  <2>1. \A x \in ActiveSites(sites) : SameSite(sites'[x], sites[x])
    BY <1>1 DEF SameSite
  <2>2. NoGroupEmpty(groups') /\ RangesDisjoint'
    BY <1>5, InvFacts, RangesKept
  <2>3. pc' = [pc EXCEPT ![a] = next]
    BY <1>1
  <2> HIDE DEF g, R, next
  <2>4. QED
    BY <1>0, <1>3, <1>6, <2>1, <2>2, <2>3, AdminKeeps
<1>8. EffectiveGroups = groups
  <2>1. Resting
    BY <1>0, <1>1 DEF Resting, OneAtWork
  <2>2. QED
    BY <2>1, InvFacts, EffectiveAtRest
<1>9. EffectiveGroups' = [groups' EXCEPT ![g].ranges = R]
  <2>1. pc'[a] \in Rewriting
    BY <1>0, <1>3
  <2>2. QED
    BY <1>1, <1>5, <2>1, EffectiveWhileRewritingNext
<1>10. EffectiveGroups' = [EffectiveGroups EXCEPT ![g].total = Cardinality(R), ![g].ranges = R]
  <2> HIDE DEF g, R
  <2>1. QED
    BY <1>1, <1>2, <1>8, <1>9, InvFacts DEF GroupTable
<1>11. Proved!GroupStep
  <2> HIDE DEF g, R
  <2>1. QED
    BY <1>1, <1>2, <1>8, <1>10, UpdateGroupDone
<1>12. QED
  BY <1>7, <1>11 DEF Step

\* While an update rewrites the ranges of its group set, the new ones are free.
LEMMA RewritingFacts ==
    ASSUME Inv, OneAtWork, NEW a \in Admins, pc[a] \in Rewriting
    PROVE  /\ req[a].grp \in Groups /\ groups[req[a].grp].status # NoGroup
           /\ req[a].ranges \in SUBSET PartyIds
           /\ EffectiveGroups = [groups EXCEPT ![req[a].grp].ranges = req[a].ranges]
           /\ \A h \in Groups : h # req[a].grp => groups[h].ranges \cap req[a].ranges = {}
<1> DEFINE g == req[a].grp  R == req[a].ranges
<1>1. g \in Groups /\ groups[g].status # NoGroup
  BY InvFacts DEF Knows, KnowsGroup
<1>2. R \in SUBSET PartyIds
  BY InvFacts DEF Request
<1>3. EffectiveGroups = [groups EXCEPT ![g].ranges = R]
  BY InvFacts, EffectiveWhileRewriting
<1>4. ASSUME NEW h \in Groups, h # g
      PROVE  groups[h].ranges \cap R = {}
  <2>1. Proved!RangesDisjoint
    BY DEF Inv, Proved!IInv
  <2> HIDE DEF g, R
  <2>2. EffectiveGroups[g].ranges = R /\ EffectiveGroups[h].ranges = groups[h].ranges
    BY <1>1, <1>3, <1>4, InvFacts DEF GroupTable, GroupRow
  <2>3. QED
    BY <1>1, <1>4, <2>1, <2>2 DEF Proved!RangesDisjoint
<1>5. QED
  BY <1>1, <1>2, <1>3, <1>4

LEMMA RangesWritten ==
    ASSUME groups \in GroupTable, NEW g \in Groups, NEW R \in SUBSET PartyIds,
           groups' = [groups EXCEPT ![g].ranges = R]
    PROVE  /\ groups' \in GroupTable
           /\ groups'[g].ranges = R /\ groups'[g].status = groups[g].status
           /\ \A h \in Groups : h # g => groups'[h] = groups[h]
<1> DEFINE row == [groups[g] EXCEPT !.ranges = R]
<1>1. row \in GroupRow /\ row.ranges = R /\ row.status = groups[g].status
  BY DEF GroupTable, GroupRow
<1>2. groups' = [groups EXCEPT ![g] = row]
  OBVIOUS
<1> HIDE DEF row
<1>3. QED
  BY <1>1, <1>2 DEF GroupTable

\* Its statements take the ranges away and bring them back one by one.
LEMMA RewriteSteps ==
    ASSUME Inv, OneAtWork, NEW a \in Admins, pc[a] \in Rewriting,
           NEW R \in SUBSET req[a].ranges,
           groups' = [groups EXCEPT ![req[a].grp].ranges = R]
    PROVE  /\ groups' \in GroupTable /\ NoGroupEmpty(groups') /\ RangesDisjoint'
           /\ groups'[req[a].grp].status # NoGroup /\ groups'[req[a].grp].ranges = R
           /\ [groups' EXCEPT ![req[a].grp].ranges = req[a].ranges] = EffectiveGroups
<1> DEFINE g == req[a].grp
<1>1. /\ g \in Groups /\ groups[g].status # NoGroup
      /\ req[a].ranges \in SUBSET PartyIds
      /\ EffectiveGroups = [groups EXCEPT ![g].ranges = req[a].ranges]
      /\ \A h \in Groups : h # g => groups[h].ranges \cap req[a].ranges = {}
      /\ groups \in GroupTable /\ NoGroupEmpty(groups) /\ RangesDisjoint
      /\ groups' = [groups EXCEPT ![g].ranges = R]
  BY RewritingFacts, InvFacts
<1> HIDE DEF g
<1>2. /\ groups' \in GroupTable /\ groups'[g].ranges = R
      /\ groups'[g].status = groups[g].status
      /\ \A h \in Groups : h # g => groups'[h] = groups[h]
  <2>1. R \in SUBSET PartyIds
    BY <1>1
  <2>2. groups' = [groups EXCEPT ![g].ranges = R]
    BY <1>1
  <2>3. groups \in GroupTable /\ g \in Groups
    BY <1>1
  <2>4. QED
    BY <2>1, <2>2, <2>3, RangesWritten
<1>3. NoGroupEmpty(groups') /\ RangesDisjoint'
  BY <1>1, <1>2 DEF NoGroupEmpty, RangesDisjoint
<1>4. [groups' EXCEPT ![g].ranges = req[a].ranges] = EffectiveGroups
  BY <1>1 DEF GroupTable, GroupRow
<1>5. QED
  BY <1>1, <1>2, <1>3, <1>4 DEF g

LEMMA UpdateGroupClearSteps ==
    ASSUME Inv, OneAtWork, NEW a \in Admins, UpdateGroupClear(a)
    PROVE  Detail' /\ Step
<1> DEFINE next == "insert ranges"
<1>0. /\ next \in Label /\ next \in Rewriting /\ "clear ranges" \in Rewriting
      /\ next \notin Adding \cup Updating \cup Regrouping \cup Viewing
  BY DEF Label, InTransaction, Rewriting, Updating, Regrouping, Adding, Viewing
<1>1. /\ pc[a] = "clear ranges" /\ pc' = [pc EXCEPT ![a] = next]
      /\ sites' = sites /\ party' = party /\ req' = req /\ snap' = snap
      /\ groups' = [groups EXCEPT ![req[a].grp].ranges = {}]
  BY DEF UpdateGroupClear, At
<1>2. /\ groups' \in GroupTable /\ NoGroupEmpty(groups') /\ RangesDisjoint'
      /\ groups'[req[a].grp].status # NoGroup /\ groups'[req[a].grp].ranges = {}
      /\ [groups' EXCEPT ![req[a].grp].ranges = req[a].ranges] = EffectiveGroups
      /\ req[a].grp \in Groups
  BY <1>0, <1>1, RewriteSteps, RewritingFacts
<1>3. req[a].todo = req[a].ranges
  <2>1. KnowsGroup(sites, groups, "clear ranges", req[a])
    BY <1>1, InvFacts DEF Knows
  <2>2. QED
    BY <2>1 DEF KnowsGroup
<1>4. /\ snap' = [snap EXCEPT ![a] = snap[a]] /\ snap[a] \in Snapshot
      /\ req' = [req EXCEPT ![a] = req[a]] /\ req[a] \in Request
      /\ pc' = [pc EXCEPT ![a] = next] /\ pc'[a] = next /\ req'[a] = req[a]
  BY <1>1, InvFacts DEF Inv, IInv, TypeOK
<1>5. Knows(sites', groups', party', next, req[a], snap[a])
  <2>1. next = "insert ranges"
    OBVIOUS
  <2> HIDE DEF next
  <2>2. QED
    BY <1>0, <1>2, <1>3, <2>1 DEF Knows, KnowsSite, KnowsGroup
<1>6. \A x \in ActiveSites(sites) : SameSite(sites'[x], sites[x])
  BY <1>1 DEF SameSite
<1>7. Detail'
  <2> HIDE DEF next
  <2>1. QED
    BY <1>0, <1>2, <1>4, <1>5, <1>6, AdminKeeps
<1>8. EffectiveGroups' = EffectiveGroups
  BY <1>0, <1>2, <1>4, EffectiveWhileRewritingNext
<1>9. QED
  BY <1>1, <1>7, <1>8 DEF Step

LEMMA UpdateGroupInsertSteps ==
    ASSUME Inv, OneAtWork, NEW a \in Admins, UpdateGroupInsert(a)
    PROVE  Detail' /\ Step
<1> DEFINE here == "insert ranges"  g == req[a].grp  old == groups[g].ranges
<1>0. /\ here \in Label /\ here \in Rewriting
      /\ here \notin Adding \cup Updating \cup Regrouping \cup Viewing
      /\ "idle" \in Label /\ "idle" \notin Rewriting
  BY DEF Label, InTransaction, Rewriting, Updating, Regrouping, Adding, Viewing
<1>1. PICK region \in SUBSET req[a].todo :
        /\ groups' = [groups EXCEPT ![g].ranges = @ \cup region]
        /\ \/ region = req[a].todo /\ Answer(a)
           \/ /\ req' = [req EXCEPT ![a].todo = @ \ region]
              /\ UNCHANGED <<pc, snap>>
  BY DEF UpdateGroupInsert
<1>2. pc[a] = here /\ sites' = sites /\ party' = party
  BY DEF UpdateGroupInsert, At
<1>3. old \cup req[a].todo = req[a].ranges
  <2>1. KnowsGroup(sites, groups, here, req[a])
    BY <1>2, InvFacts DEF Knows
  <2>2. QED
    BY <2>1 DEF KnowsGroup
<1>4. groups' = [groups EXCEPT ![g].ranges = old \cup region]
  BY <1>1
<1>5. /\ groups' \in GroupTable /\ NoGroupEmpty(groups') /\ RangesDisjoint'
      /\ groups'[g].status # NoGroup /\ groups'[g].ranges = old \cup region
      /\ [groups' EXCEPT ![g].ranges = req[a].ranges] = EffectiveGroups
      /\ g \in Groups
  <2> DEFINE R == old \cup region
  <2>1. R \in SUBSET req[a].ranges
    BY <1>3
  <2>2. groups' = [groups EXCEPT ![req[a].grp].ranges = R] /\ pc[a] \in Rewriting
    BY <1>0, <1>2, <1>4
  <2> HIDE DEF R, old
  <2>3. QED
    BY <2>1, <2>2, RewriteSteps, RewritingFacts DEF R
<1>6. \A x \in ActiveSites(sites) : SameSite(sites'[x], sites[x])
  BY <1>2 DEF SameSite
<1>7. CASE Answer(a) /\ region = req[a].todo
  <2>1. Detail'
    BY <1>0, <1>5, <1>6, <1>7, NoRequestFits, KnowsNothing, AdminKeeps DEF Answer
  <2>2. Resting'
    <3>1. \A b \in Admins : pc'[b] = "idle"
      BY <1>7 DEF OneAtWork, Answer, Inv, IInv, TypeOK, Threads
    <3>2. QED
      BY <1>0, <3>1 DEF Resting
  <2>3. EffectiveGroups' = groups'
    BY <1>5, <2>2, EffectiveAtRestNext
  <2>4. groups' = EffectiveGroups
    <3>1. groups'[g].ranges = req[a].ranges
      BY <1>3, <1>5, <1>7
    <3> HIDE DEF g
    <3>2. QED
      BY <1>5, <3>1 DEF GroupTable, GroupRow
  <2>5. QED
    BY <1>2, <2>1, <2>3, <2>4 DEF Step
<1>8. CASE req' = [req EXCEPT ![a].todo = @ \ region] /\ UNCHANGED <<pc, snap>>
  <2> DEFINE rest == req[a].todo \ region  r == [req[a] EXCEPT !.todo = rest]
  <2>1. req[a] \in Request
    BY InvFacts
  <2>2. r \in Request /\ r.grp = g /\ r.ranges = req[a].ranges /\ r.todo = rest
    <3>1. rest \in SUBSET PartyIds
      BY <2>1 DEF Request
    <3> HIDE DEF rest
    <3>2. QED
      BY <2>1, <3>1 DEF Request
  <2>3. /\ snap' = [snap EXCEPT ![a] = snap[a]] /\ snap[a] \in Snapshot
        /\ req' = [req EXCEPT ![a] = r]
        /\ pc' = [pc EXCEPT ![a] = here] /\ pc'[a] = here /\ req'[a] = r
    <3>1. req' = [req EXCEPT ![a] = r]
      BY <1>8
    <3> HIDE DEF r
    <3>2. QED
      BY <1>2, <1>8, <3>1, InvFacts DEF Inv, IInv, TypeOK
  <2>4. groups'[r.grp].ranges \cup r.todo = r.ranges
    BY <1>1, <1>3, <1>5, <2>2
  <2>5. here = "insert ranges"
    OBVIOUS
  <2> HIDE DEF r, rest, here
  <2>6. Knows(sites', groups', party', here, r, snap[a])
    BY <1>0, <1>5, <2>2, <2>4, <2>5 DEF Knows, KnowsSite, KnowsGroup
  <2>7. Detail'
    BY <1>0, <1>5, <1>6, <2>2, <2>3, <2>6, AdminKeeps
  <2>8. EffectiveGroups' = EffectiveGroups
    BY <1>0, <1>5, <2>2, <2>3, EffectiveWhileRewritingNext
  <2>9. QED
    BY <1>2, <2>7, <2>8 DEF Step
<1>9. QED
  BY <1>1, <1>7, <1>8

-----------------------------------------------------------------------------
(* Institutions                                                            *)

LEMMA SameLeaving ==
    ASSUME NEW st, NEW then, NEW L \in SUBSET Sites, \A s \in Sites : SameSite(st[s], then[s])
    PROVE  \A g : Leaving(then, L, g) = Leaving(st, L, g)
<1>1. \A g : {s \in L : then[s].grp = g} = {s \in L : st[s].grp = g}
  BY DEF SameSite
<1>2. QED
  BY <1>1 DEF Leaving

LEMMA DeleteInstitutionSteps ==
    ASSUME Inv, OneAtWork, NEW a \in Admins, "institution" \in Operations,
           DeleteInstitutionRead(a) \/ DeleteInstitutionCommit(a)
    PROVE  Detail' /\ Step
<1> DEFINE here == "institution commit"
<1>0. /\ here \in Label /\ here \notin Rewriting /\ "idle" \notin Rewriting
      /\ here \notin Adding \cup Updating \cup Regrouping
  BY DEF Label, InTransaction, Rewriting, Updating, Regrouping, Adding, Viewing
<1>1. CASE DeleteInstitutionRead(a)
  <2>1. PICK i \in Institutions :
          /\ SitesOf(sites, i) # {}
          /\ req' = [req EXCEPT ![a] = [NoRequest EXCEPT !.inst = i]]
    BY <1>1 DEF DeleteInstitutionRead
  <2> DEFINE r == [NoRequest EXCEPT !.inst = i]
             view == [sites |-> sites, groups |-> groups]
  <2>2. /\ pc[a] = "idle" /\ pc' = [pc EXCEPT ![a] = here] /\ UNCHANGED tables
        /\ snap' = [snap EXCEPT ![a] = view]
    BY <1>1 DEF DeleteInstitutionRead, At
  <2>3. r \in Request /\ r.inst = i /\ view \in Snapshot
    BY InvFacts DEF NoRequest, Request, Snapshot
  <2>4. req' = [req EXCEPT ![a] = r]
    BY <2>1, Zenon
  <2>5. Current(sites, groups, view)
    BY DEF Current, SameSite
  <2> HIDE DEF r, view
  <2>6. Knows(sites, groups, party, here, r, view)
    BY <1>0, <2>1, <2>3, <2>5 DEF Knows, KnowsSite, KnowsGroup
  <2> HIDE DEF here
  <2>7. QED
    BY <1>0, <2>2, <2>3, <2>4, <2>6, QueryKeeps
<1>2. CASE DeleteInstitutionCommit(a)
  <2> DEFINE i == req[a].inst  old == snap[a].sites
             mine == SitesOf(old, i)  active == mine \cap ActiveSites(sites)
  <2>1. pc[a] = here /\ Answer(a)
    BY <1>2 DEF DeleteInstitutionCommit, At
  <2>2. /\ i \in Institutions /\ SitesOf(sites, i) # {}
        /\ snap[a].groups = groups /\ \A s \in Sites : SameSite(sites[s], old[s])
    BY <2>1, InvFacts DEF Knows, KnowsSite, Viewing, Current
  <2>3. mine = SitesOf(sites, i) /\ active = Registered(i)
    <3> HIDE DEF i, old
    <3>1. QED
      BY <2>2, SameRows DEF Registered
  <2>4. /\ CanGiveBackAll(groups, groups, old, active)
        /\ sites' = WithStatus(sites, active, Removed)
        /\ groups' = GiveBackAll(groups, groups, old, active)
        /\ party' = [p \in PartyIds |-> IF \E s \in mine : old[s].pid = p THEN "none" ELSE party[p]]
    BY <1>2, <2>2 DEF DeleteInstitutionCommit
  <2> HIDE DEF i, old, mine, active
  <2>5. Registered(i) \in SUBSET Sites /\ SitesOf(sites, i) \in SUBSET Sites
    BY DEF Registered, SitesOf
  <2>6. \A g : Leaving(old, Registered(i), g) = Leaving(sites, Registered(i), g)
    BY <2>2, <2>5, SameLeaving
  <2>7. /\ CanGiveBackAll(groups, groups, sites, Registered(i))
        /\ groups' = GiveBackAll(groups, groups, sites, Registered(i))
    BY <2>3, <2>4, <2>6 DEF CanGiveBackAll, GiveBackAll
  <2>8. party' = [p \in PartyIds |->
            IF \E s \in SitesOf(sites, i) : sites[s].pid = p THEN "none" ELSE party[p]]
    <3>1. \A s \in SitesOf(sites, i) : old[s].pid = sites[s].pid
      BY <2>2, <2>5 DEF SameSite
    <3>2. QED
      BY <2>3, <2>4, <3>1
  <2>9. groups' \in GroupTable
    BY <2>5, <2>7, InvFacts, GiveBackAllFacts
  <2>10. SameRanges
    <3>1. \A g \in Groups : groups'[g] =
             IF Leaving(sites, Registered(i), g) = 0 THEN groups[g]
             ELSE [groups[g] EXCEPT !.used = groups[g].used - Leaving(sites, Registered(i), g)]
      BY <2>7 DEF GiveBackAll
    <3>2. \A g \in Groups : groups[g] \in GroupRow
      BY InvFacts DEF GroupTable
    <3>3. QED
      BY <3>1, <3>2 DEF SameRanges, GroupRow
  <2>11. "short" \notin Links
    BY DEF OneAtWork
  <2>12. Detail' /\ EffectiveGroups = groups /\ EffectiveGroups' = groups'
    BY <1>0, <2>1, <2>9, <2>10, <2>11, InvFacts, RangesKept, CommitKeeps
  <2>13. Proved!DeleteInstitution(i)
    BY <2>2, <2>3, <2>4, <2>7, <2>8, <2>12, DeleteInstitutionDone
  <2>14. QED
    BY <2>2, <2>12, <2>13 DEF Step
<1>3. QED
  BY <1>1, <1>2

LEMMA DeleteUserSteps ==
    ASSUME Inv, OneAtWork, NEW a \in Admins, "user" \in Operations, DeleteFateManagerUser(a)
    PROVE  Detail' /\ Step
<1>1. PICK i \in Institutions :
        SitesOf(sites, i) # {} /\ sites' = WithStatus(sites, SitesOf(sites, i), Removed)
  BY DEF DeleteFateManagerUser
<1>2. /\ pc[a] = "idle" /\ groups' = groups /\ party' = party
      /\ pc' = pc /\ req' = req /\ snap' = snap
  BY DEF DeleteFateManagerUser, At
<1>3. /\ pc' = [pc EXCEPT ![a] = "idle"] /\ req' = [req EXCEPT ![a] = req[a]]
      /\ snap' = [snap EXCEPT ![a] = snap[a]] /\ "idle" \in Label
  BY <1>2, InvFacts DEF Inv, IInv, TypeOK, Label
<1>4. "short" \notin Links
  BY DEF OneAtWork
<1>5. NoGroupEmpty(groups') /\ RangesDisjoint'
  BY <1>2, InvFacts, RangesKept DEF SameRanges
<1>6. Detail'
  BY <1>3, <1>4, <1>5, KnowsNothing, InvFacts, AdminKeeps
<1>7. EffectiveGroups' = EffectiveGroups
  BY <1>2, EffectiveKept
<1>8. Proved!DeleteFateManagerUser(i)
  BY <1>1, <1>2, <1>7, DeleteFateManagerUserDone
<1>9. QED
  BY <1>6, <1>8 DEF Step

-----------------------------------------------------------------------------
(***************************************************************************)
(* Activations, which run beside the administrator.                        *)
(***************************************************************************)

Onward == groups' = groups /\ Forward(sites, sites', party, party')

LEMMA OnwardKeeps ==
    ASSUME Inv, Onward, \A a \in Admins : pc'[a] = pc[a] /\ req'[a] = req[a] /\ snap'[a] = snap[a],
           \A u \in Installers : pc'[u] = "short commit" =>
               \/ RowsCurrent(sites', snap'[u])
               \/ pc[u] = "short commit" /\ snap'[u] = snap[u]
    PROVE  Detail' /\ EffectiveGroups' = EffectiveGroups
<1>1. \A a \in Admins : Knows(sites', groups', party', pc'[a], req'[a], snap'[a])
  <2> SUFFICES ASSUME NEW a \in Admins
               PROVE  Knows(sites', groups', party', pc'[a], req'[a], snap'[a])
    OBVIOUS
  <2>1. Knows(sites, groups, party, pc[a], req[a], snap[a])
    BY DEF Inv, Detail
  <2>2. Forward(sites, sites', party, party')
    BY DEF Onward
  <2>3. Knows(sites', groups, party', pc[a], req[a], snap[a])
    BY <2>1, <2>2, KnowsHolds
  <2>4. QED
    BY <2>3 DEF Onward
<1>2. ASSUME NEW u \in Installers, pc'[u] = "short commit"
      PROVE  RowsCurrent(sites', snap'[u])
  <2>1. CASE pc[u] = "short commit" /\ snap'[u] = snap[u]
    <3>1. RowsCurrent(sites, snap[u])
      BY <2>1 DEF Inv, Detail
    <3>2. \A s \in ActiveSites(snap[u].sites) : s \in Sites
      BY DEF ActiveSites
    <3>3. QED
      BY <2>1, <3>1, <3>2 DEF RowsCurrent, Onward, Forward, SameSite
  <2>2. QED
    BY <1>2, <2>1
<1>3. NoGroupEmpty(groups') /\ RangesDisjoint'
  BY RangesKept DEF Inv, Detail, Onward, SameRanges
<1>4. Detail'
  BY <1>1, <1>2, <1>3 DEF Detail
<1>5. EffectiveGroups' = EffectiveGroups
  BY EffectiveKept DEF Onward
<1>6. QED
  BY <1>4, <1>5

LEMMA InstallerKeeps ==
    ASSUME Inv, Onward, NEW t \in Installers, NEW next, NEW r, NEW view,
           pc' = [pc EXCEPT ![t] = next], req' = [req EXCEPT ![t] = r],
           snap' = [snap EXCEPT ![t] = view],
           next = "short commit" => RowsCurrent(sites', view)
    PROVE  Detail' /\ EffectiveGroups' = EffectiveGroups
<1>1. \A u \in Threads : u # t => pc'[u] = pc[u] /\ req'[u] = req[u] /\ snap'[u] = snap[u]
  BY DEF Inv, IInv, TypeOK
<1>2. pc'[t] = next /\ snap'[t] = view
  BY DEF Inv, IInv, TypeOK, Threads
<1>3. \A a \in Admins : a \in Threads /\ a # t
  BY ThreadAssumption DEF Threads
<1>4. \A u \in Installers : u \in Threads
  BY DEF Threads
<1>5. QED
  BY <1>1, <1>2, <1>3, <1>4, OnwardKeeps

\* A step of an activation that only asks.
LEMMA InstallerAsks ==
    ASSUME Inv, NEW t \in Installers,
           \/ \E next, r : next # "short commit" /\ Start(t, next, r)
           \/ \E next : next # "short commit" /\ Continue(t, next)
           \/ Refuse(t)
           \/ ReadSnapshot(t, "short commit")
    PROVE  Detail' /\ Step
<1>1. sites' = sites /\ groups' = groups /\ party' = party
  BY DEF Start, Continue, Refuse, ReadSnapshot, tables
<1>2. Onward
  BY <1>1 DEF Onward, Forward, SameSite
<1>3. \E next, r, view :
        /\ pc' = [pc EXCEPT ![t] = next] /\ req' = [req EXCEPT ![t] = r]
        /\ snap' = [snap EXCEPT ![t] = view]
        /\ next = "short commit" => view.sites = sites
  <2>1. req = [req EXCEPT ![t] = req[t]] /\ snap = [snap EXCEPT ![t] = snap[t]]
    BY DEF Threads, Inv, IInv, TypeOK
  <2>2. CASE \E next, r : next # "short commit" /\ Start(t, next, r)
    BY <2>1, <2>2 DEF Start
  <2>3. CASE \E next : next # "short commit" /\ Continue(t, next)
    BY <2>1, <2>3 DEF Continue
  <2>4. CASE Refuse(t)
    <3>1. /\ pc' = [pc EXCEPT ![t] = "idle"] /\ req' = [req EXCEPT ![t] = NoRequest]
          /\ snap' = [snap EXCEPT ![t] = NoSnapshot] /\ "idle" # "short commit"
      BY <2>4 DEF Refuse, Answer
    <3>2. QED
      BY <3>1, Zenon
  <2>5. CASE ReadSnapshot(t, "short commit")
    <3> DEFINE view == [sites |-> sites, groups |-> groups]
    <3>1. /\ pc' = [pc EXCEPT ![t] = "short commit"] /\ req' = req
          /\ snap' = [snap EXCEPT ![t] = view] /\ view.sites = sites
      BY <2>5 DEF ReadSnapshot
    <3> HIDE DEF view
    <3>2. QED
      BY <2>1, <3>1
  <2>6. QED
    BY <2>2, <2>3, <2>4, <2>5
<1>4. PICK next, r, view :
        /\ pc' = [pc EXCEPT ![t] = next] /\ req' = [req EXCEPT ![t] = r]
        /\ snap' = [snap EXCEPT ![t] = view]
        /\ next = "short commit" => view.sites = sites
  BY <1>3
<1>5. next = "short commit" => RowsCurrent(sites', view)
  BY <1>1, <1>4 DEF RowsCurrent, SameSite
<1>6. Detail' /\ EffectiveGroups' = EffectiveGroups
  BY <1>2, <1>4, <1>5, InstallerKeeps
<1>7. QED
  BY <1>1, <1>6 DEF Step

LEMMA ActivateSteps ==
    ASSUME Inv, NEW t \in Installers, ActivateSite(t)
    PROVE  Detail' /\ Step
<1> DEFINE p == req[t].pid  S == ActiveOn(sites, p)
<1>1. sites' = WithStatus(sites, S, Joined) /\ groups' = groups /\ party' = party /\ Answer(t)
  BY DEF ActivateSite
<1>2. S \in SUBSET ActiveSites(sites) /\ sites \in SiteTable
  BY TablesFit DEF ActiveOn, Inv
<1>3. Onward
  <2>1. \A s \in Sites : SameSite(sites'[s], sites[s])
    <3> HIDE DEF S
    <3>1. QED
      BY <1>1, <1>2, SameAfterStatus
  <2>2. \A s \in Sites : sites[s].status = Joined => sites'[s].status = Joined
    <3>1. \A s \in S \cap Sites : sites[s].status # Absent
      BY <1>2, ActiveFacts
    <3> HIDE DEF S
    <3>2. QED
      BY <1>1, <1>2, <3>1, WithStatusFacts
  <2>3. QED
    BY <1>1, <2>1, <2>2 DEF Onward, Forward
<1>4. Detail' /\ EffectiveGroups' = EffectiveGroups
  BY <1>1, <1>3, InstallerKeeps DEF Answer
<1>5. CASE S = {}
  <2>1. sites' = sites
    <3> HIDE DEF S
    <3>1. QED
      BY <1>1, <1>2, <1>5 DEF WithStatus, SiteTable
  <2>2. QED
    BY <1>1, <1>4, <2>1 DEF Step
<1>6. CASE S # {}
  <2>1. PICK s \in ActiveSites(sites) : sites[s].pid = p
    BY <1>6 DEF ActiveOn
  <2>2. p \in PartyIds
    <3>1. sites[s] \in SiteRow
      BY <1>2, <2>1, ActiveFacts, RowFacts
    <3>2. QED
      BY <2>1, <3>1 DEF SiteRow
  <2> HIDE DEF p
  <2>3. Proved!SiteStep
    BY <1>1, <1>4, <1>6, <2>2, ActivateSiteDone
  <2>4. QED
    BY <1>4, <2>3 DEF Step
<1>7. QED
  BY <1>5, <1>6

LEMMA UniqueParty == Inv => ActivePartyUnique
  BY DEF Inv, Proved!IInv, Proved!ActivePartyUnique, ActivePartyUnique,
         Proved!ActiveSites, ActiveSites, Proved!NotJoined, NotJoined, Proved!Joined, Joined

\* The row a short link writes back is the row there is, joined.
LEMMA ShortLinkSteps ==
    ASSUME Inv, NEW t \in Installers, ShortLinkActivateSite(t)
    PROVE  Detail' /\ Step
<1> DEFINE p == req[t].pid  then == snap[t].sites
<1>1. /\ pc[t] = "short commit" /\ groups' = groups
      /\ party' = [party EXCEPT ![p] = "published"] /\ Answer(t)
  BY DEF ShortLinkActivateSite, At
<1>2. PICK s \in ActiveOn(then, p) : sites' = [sites EXCEPT ![s] = [then[s] EXCEPT !.status = Joined]]
  BY DEF ShortLinkActivateSite
<1>3. sites \in SiteTable /\ then \in SiteTable /\ party \in PartyTable
  BY TablesFit, ThreadFacts DEF Inv, Threads, Snapshot
<1>4. RowsCurrent(sites, snap[t])
  BY <1>1 DEF Inv, Detail
<1>5. /\ s \in ActiveSites(then) /\ then[s].pid = p /\ s \in Sites
      /\ SameSite(sites[s], then[s]) /\ s \in ActiveSites(sites)
  <2>1. s \in ActiveSites(then) /\ then[s].pid = p /\ s \in Sites
    BY DEF ActiveOn, ActiveSites
  <2>2. SameSite(sites[s], then[s])
    BY <1>4, <2>1 DEF RowsCurrent
  <2>3. QED
    BY <2>1, <2>2 DEF SameSite, ActiveSites
<1> HIDE DEF p, then
<1>6. then[s] \in SiteRow /\ sites[s] \in SiteRow
  BY <1>3, <1>5, ActiveFacts, RowFacts
<1>7. [then[s] EXCEPT !.status = Joined] = [sites[s] EXCEPT !.status = Joined]
  BY <1>5, <1>6 DEF SiteRow, SameSite
<1>8. sites' = [sites EXCEPT ![s] = [sites[s] EXCEPT !.status = Joined]]
  BY <1>2, <1>7
<1>9. p \in PartyIds
  BY <1>5, <1>6 DEF SiteRow
<1>10. ActiveOn(sites, p) = {s}
  <2>1. s \in ActiveOn(sites, p)
    BY <1>5 DEF ActiveOn, SameSite
  <2>2. QED
    BY <2>1, UniqueParty DEF ActivePartyUnique, ActiveOn
<1>11. sites' = WithStatus(sites, ActiveOn(sites, p), Joined)
  BY <1>3, <1>8, <1>10 DEF WithStatus, SiteTable
<1>12. Onward
  <2>1. \A x \in Sites : x # s => sites'[x] = sites[x]
    BY <1>3, <1>8 DEF SiteTable
  <2>2. sites'[s].status = Joined /\ SameSite(sites'[s], sites[s])
    <3>1. sites'[s] = [sites[s] EXCEPT !.status = Joined]
      BY <1>3, <1>5, <1>8 DEF SiteTable
    <3>2. sites[s].status \in {NotJoined, Joined}
      BY <1>5 DEF ActiveSites
    <3>3. QED
      BY <1>6, <3>1, <3>2 DEF SiteRow, SameSite
  <2>3. \A x \in PartyIds : party[x] # "none" => party'[x] # "none"
    BY <1>1, <1>3, <1>9 DEF PartyTable
  <2>4. QED
    BY <1>1, <2>1, <2>2, <2>3 DEF Onward, Forward, SameSite
<1>13. Detail' /\ EffectiveGroups' = EffectiveGroups
  BY <1>1, <1>12, InstallerKeeps DEF Answer
<1>14. CASE sites[s].status = NotJoined
  <2>1. Proved!SiteStep
    BY <1>1, <1>5, <1>9, <1>10, <1>11, <1>13, <1>14, ShortLinkActivateSiteDone
  <2>2. QED
    BY <1>13, <2>1 DEF Step
<1>15. CASE sites[s].status = Joined
  <2>1. sites' = sites
    <3>1. [sites[s] EXCEPT !.status = Joined] = sites[s]
      BY <1>6, <1>15 DEF SiteRow
    <3>2. QED
      BY <1>3, <1>8, <3>1 DEF SiteTable
  <2>2. Proved!SiteStep
    BY <1>1, <1>9, <1>13, <2>1, PublishPartyDone
  <2>3. QED
    BY <1>13, <2>2 DEF Step
<1>16. QED
  BY <1>5, <1>14, <1>15 DEF ActiveSites

LEMMA ActivationSteps ==
    ASSUME Inv, NEW t \in Installers, Activation(t)
    PROVE  Detail' /\ Step
<1>1. CASE OpenLink(t)
  <2>1. \E next, r : next # "short commit" /\ Start(t, next, r)
    BY <1>1 DEF OpenLink
  <2>2. QED
    BY <2>1, InstallerAsks
<1>2. CASE ActivateCheckLink(t) \/ ActivateCheckSignature(t) \/ ShortLinkCheckSignature(t)
  <2>1. (\E next : next # "short commit" /\ Continue(t, next)) \/ Refuse(t)
    BY <1>2 DEF ActivateCheckLink, ActivateCheckSignature, ShortLinkCheckSignature
  <2>2. QED
    BY <2>1, InstallerAsks
<1>3. CASE ShortLinkRead(t)
  BY <1>3, InstallerAsks DEF ShortLinkRead
<1>4. QED
  BY <1>1, <1>2, <1>3, ActivateSteps, ShortLinkSteps DEF Activation

LEMMA PublishSteps ==
    ASSUME Inv, NEW p \in PartyIds, PublishParty(p)
    PROVE  Detail' /\ Step
<1>1. /\ party' = [party EXCEPT ![p] = "published"] /\ sites' = sites /\ groups' = groups
      /\ pc' = pc /\ req' = req /\ snap' = snap
  BY DEF PublishParty
<1>2. party \in PartyTable
  BY TablesFit DEF Inv
<1>3. \A x \in PartyIds : party[x] # "none" => party'[x] # "none"
  BY <1>1, <1>2 DEF PartyTable
<1>4. Onward
  BY <1>1, <1>3 DEF Onward, Forward, SameSite
<1>5. Detail' /\ EffectiveGroups' = EffectiveGroups
  BY <1>1, <1>4, OnwardKeeps
<1>6. Proved!SiteStep
  BY <1>1, <1>5, PublishPartyDone
<1>7. QED
  BY <1>5, <1>6 DEF Step

-----------------------------------------------------------------------------
(* Every step                                                              *)

LEMMA RollbackSteps ==
    ASSUME Inv, OneAtWork, NEW t \in Threads, Rollback(t)
    PROVE  Detail' /\ Step
<1>1. Refuse(t) /\ pc[t] \notin Rewriting
  BY DEF Rollback, InTransaction, Rewriting
<1>2. CASE t \in Admins
  BY <1>1, <1>2, RefuseQuery
<1>3. CASE t \in Installers
  BY <1>1, <1>3, InstallerAsks
<1>4. QED
  BY <1>2, <1>3 DEF Threads

LEMMA NextSteps ==
    ASSUME Inv, OneAtWork, Next
    PROVE  Detail' /\ Step
<1>1. ASSUME NEW a \in Admins, SiteRequest(a)
      PROVE  Detail' /\ Step
  BY <1>1, AddSiteSteps, UpdateSiteSteps, DeleteSiteSteps, ReactivateSteps DEF SiteRequest
<1>2. ASSUME NEW a \in Admins, GroupRequest(a)
      PROVE  Detail' /\ Step
  <2>1. "torn" \notin Operations
    BY DEF OneAtWork
  <2>2. QED
    BY <1>2, <2>1, AddGroupSteps, DeleteGroupSteps, CheckGroupSteps, UpdateGroupTotalSteps,
       UpdateGroupClearSteps, UpdateGroupInsertSteps DEF GroupRequest
<1>3. ASSUME NEW a \in Admins, InstitutionRequest(a)
      PROVE  Detail' /\ Step
  BY <1>3, DeleteInstitutionSteps, DeleteUserSteps DEF InstitutionRequest
<1>4. QED
  BY <1>1, <1>2, <1>3, ActivationSteps, RollbackSteps, PublishSteps DEF Next

LEMMA StutterSteps ==
    ASSUME Inv, UNCHANGED vars
    PROVE  Detail' /\ Step
<1>1. /\ sites' = sites /\ groups' = groups /\ party' = party
      /\ pc' = pc /\ req' = req /\ snap' = snap
  BY DEF vars
<1>2. Onward
  BY <1>1 DEF Onward, Forward, SameSite
<1>3. Detail' /\ EffectiveGroups' = EffectiveGroups
  BY <1>1, <1>2, OnwardKeeps
<1>4. QED
  BY <1>1, <1>3 DEF Step

LEMMA StepIsNext == Step => [Proved!Next]_(Proved!vars)
  BY DEF Step, Proved!Next, Proved!InstitutionStep, Proved!vars

LEMMA FiniteThere == Proved!IsFiniteSet(Sites) /\ Proved!IsFiniteSet(PartyIds)
  BY FiniteAssumption DEF Proved!IsFiniteSet, IsFiniteSet

LEMMA InitEffective == Init => EffectiveGroups = groups
<1> SUFFICES ASSUME Init PROVE EffectiveGroups = groups
  OBVIOUS
<1>1. groups \in GroupTable
  BY InitIInv DEF IInv, TypeOK
<1>2. Resting
  BY DEF Init, Resting, Threads, Rewriting
<1>3. QED
  BY <1>1, <1>2, EffectiveAtRest

LEMMA InitInv == Init => Inv
<1> SUFFICES ASSUME Init PROVE Inv
  OBVIOUS
<1>1. IInv
  BY InitIInv
<1>2. Proved!IInv
  <2>1. Proved!Init
    BY InitEffective DEF Init, Proved!Init, AbsentRow, Proved!AbsentRow, Absent, Proved!Absent,
       AbsentGroup, Proved!AbsentGroup, NoGroup, Proved!NoGroup
  <2>2. QED
    BY <2>1, NoneAssumption, FiniteThere, Proved!InitInv
<1>3. \A t \in Threads : pc[t] = "idle"
  BY DEF Init
<1>4. \A g \in Groups : groups[g].ranges = {}
  BY DEF Init, AbsentGroup
<1>5. Detail
  BY <1>3, <1>4, KnowsNothing DEF Detail, Threads, NoGroupEmpty, RangesDisjoint
<1>6. QED
  BY <1>1, <1>2, <1>5 DEF Inv

LEMMA InvKeeps ==
    ASSUME OneAtWork
    PROVE  Inv /\ [Next]_vars => Inv' /\ Step
<1> SUFFICES ASSUME Inv, [Next]_vars
             PROVE  Inv' /\ Step
  OBVIOUS
<1>1. Detail' /\ Step
  BY NextSteps, StutterSteps
<1>2. IInv'
  BY StepKeeps, StutterKeeps DEF Inv
<1>3. Proved!IInv'
  <2>1. Proved!IInv /\ [Proved!Next]_(Proved!vars)
    BY <1>1, StepIsNext DEF Inv
  <2>2. QED
    BY <2>1, NoneAssumption, FiniteThere, Proved!NextInv
<1>4. QED
  BY <1>1, <1>2, <1>3 DEF Inv

LEMMA SpecInv ==
    ASSUME OneAtWork
    PROVE  Spec => []Inv
<1>1. Inv /\ [Next]_vars => Inv'
  BY InvKeeps
<1>2. QED
  BY <1>1, InitInv, PTL DEF Spec

-----------------------------------------------------------------------------
(***************************************************************************)
(* The theorems.  Registry and Proved are the same specification, read     *)
(* through two instances.                                                  *)
(***************************************************************************)

LEMMA SameInit == Proved!Init => Registry!Init
  BY DEF Proved!Init, Registry!Init, Proved!AbsentRow, Registry!AbsentRow,
         Proved!Absent, Registry!Absent, Proved!AbsentGroup, Registry!AbsentGroup,
         Proved!NoGroup, Registry!NoGroup

LEMMA SameNext == Proved!Next = Registry!Next
  BY DEF Proved!Next, Registry!Next, Proved!GroupStep, Registry!GroupStep,
         Proved!SiteStep, Registry!SiteStep, Proved!InstitutionStep, Registry!InstitutionStep,
         Proved!AddGroup, Registry!AddGroup, Proved!UpdateGroup, Registry!UpdateGroup,
         Proved!DeleteGroup, Registry!DeleteGroup, Proved!AddSite, Registry!AddSite,
         Proved!UpdateSite, Registry!UpdateSite, Proved!DeleteSite, Registry!DeleteSite,
         Proved!ActivateSite, Registry!ActivateSite,
         Proved!ShortLinkActivateSite, Registry!ShortLinkActivateSite,
         Proved!ReactivateSite, Registry!ReactivateSite,
         Proved!DeleteInstitution, Registry!DeleteInstitution,
         Proved!DeleteFateManagerUser, Registry!DeleteFateManagerUser,
         Proved!PublishParty, Registry!PublishParty,
         Proved!Absent, Registry!Absent, Proved!NotJoined, Registry!NotJoined,
         Proved!Joined, Registry!Joined, Proved!Removed, Registry!Removed,
         Proved!NoGroup, Registry!NoGroup, Proved!ValidGroup, Registry!ValidGroup,
         Proved!DeletedGroup, Registry!DeletedGroup,
         Proved!ActiveSites, Registry!ActiveSites, Proved!ActiveOn, Registry!ActiveOn,
         Proved!ActiveIn, Registry!ActiveIn, Proved!SitesOf, Registry!SitesOf,
         Proved!PartyIdExists, Registry!PartyIdExists,
         Proved!PartyIdInRegion, Registry!PartyIdInRegion,
         Proved!RegionsFree, Registry!RegionsFree,
         Proved!RegionsCoverUsed, Registry!RegionsCoverUsed,
         Proved!NewSite, Registry!NewSite, Proved!NewGroup, Registry!NewGroup,
         Proved!WithStatus, Registry!WithStatus, Proved!WithUsed, Registry!WithUsed,
         Proved!CanTake, Registry!CanTake, Proved!Take, Registry!Take,
         Proved!CanGiveBack, Registry!CanGiveBack, Proved!GiveBack, Registry!GiveBack,
         Proved!CanMove, Registry!CanMove, Proved!Move, Registry!Move,
         Proved!Leaving, Registry!Leaving,
         Proved!CanGiveBackAll, Registry!CanGiveBackAll,
         Proved!GiveBackAll, Registry!GiveBackAll,
         Proved!Cardinality, Registry!Cardinality

\* The requests of one administrator, each a sequence of queries, checks on
\* what they returned and a transaction of its own, between which installers
\* activate sites and parties are published, are for the tables the requests
\* of a registry that handles each at once: every commit is one of its steps.
THEOREM RequestsImplementRegistry ==
    ASSUME OneAtWork
    PROVE  Spec => ImplementsRegistry
<1>1. Init => Registry!Init
  <2>1. Init => Proved!Init
    BY InitEffective DEF Init, Proved!Init, AbsentRow, Proved!AbsentRow, Absent, Proved!Absent,
       AbsentGroup, Proved!AbsentGroup, NoGroup, Proved!NoGroup
  <2>2. QED
    BY <2>1, SameInit
<1>2. Inv /\ [Next]_vars => [Registry!Next]_(Registry!vars)
  <2> SUFFICES ASSUME Inv, [Next]_vars
               PROVE  [Registry!Next]_(Registry!vars)
    OBVIOUS
  <2>1. [Proved!Next]_(Proved!vars)
    BY InvKeeps, StepIsNext
  <2>2. QED
    BY <2>1, SameNext DEF Proved!vars, Registry!vars
<1>3. QED
  BY <1>1, <1>2, SpecInv, PTL DEF Spec, ImplementsRegistry, Registry!Spec

\* checkPartyIdExist, asked in a transaction of its own before addSite and
\* updateSite write, is enough to keep a party id from being registered twice
\* while one administrator is at work.
THEOREM PartyIdStaysUnique ==
    ASSUME OneAtWork
    PROVE  Spec => []ActivePartyUnique
  BY SpecInv, UniqueParty, PTL

\* Nor do checkGroupRegion and updateGroup, which commits every statement by
\* itself, let the ranges of two group sets meet.
THEOREM RangesStayDisjoint ==
    ASSUME OneAtWork
    PROVE  Spec => []RangesDisjoint
<1>1. Inv => RangesDisjoint
  BY DEF Inv, Detail
<1>2. QED
  BY <1>1, SpecInv, PTL

\* No request leaves a registered site without a valid group set around its
\* party id; while updateGroup rewrites a group set, its new ranges count.
THEOREM SitesStayInRange ==
    ASSUME OneAtWork
    PROVE  Spec => []ActiveSitesInRange
<1>1. Inv => ActiveSitesInRange
  BY DEF Inv, Proved!IInv, ActiveSitesInRange, Proved!ActiveSitesInRange,
     Registry!ActiveSitesInRange, Proved!ActiveSites, Registry!ActiveSites,
     Proved!PartyIdInRegion, Registry!PartyIdInRegion, Proved!NotJoined, Registry!NotJoined,
     Proved!Joined, Registry!Joined, Proved!ValidGroup, Registry!ValidGroup
<1>2. QED
  BY <1>1, SpecInv, PTL

-----------------------------------------------------------------------------
(* The count of party ids in use                                           *)

LEMMA CountKeeps ==
    ASSUME OneAtWork, "user" \notin Operations
    PROVE  Inv /\ Proved!Counted /\ [Next]_vars => (Inv /\ Proved!Counted)'
<1> SUFFICES ASSUME Inv, Proved!Counted, [Next]_vars
             PROVE  Inv' /\ Proved!Counted'
  OBVIOUS
<1>1. Inv' /\ Step
  BY InvKeeps
<1>2. Proved!CountingStep \/ UNCHANGED Proved!vars
  BY <1>1 DEF Step, Proved!CountingStep, Proved!vars
<1>3. Proved!IInv
  BY DEF Inv
<1>4. QED
  BY <1>1, <1>2, <1>3, NoneAssumption, FiniteThere, Proved!CountHolds

LEMMA CountStart == Init => Proved!Counted
<1> SUFFICES ASSUME Init PROVE Proved!Counted
  OBVIOUS
<1>1. EffectiveGroups = groups
  BY InitEffective
<1>2. \A g \in Groups : groups[g].used = 0 /\ groups[g].total = 0
  BY DEF Init, AbsentGroup
<1>3. \A g : Proved!ActiveIn(sites, g) = {}
  BY DEF Init, AbsentRow, Absent, Proved!ActiveIn, Proved!ActiveSites,
         Proved!NotJoined, Proved!Joined
<1>4. Proved!Cardinality({}) = 0
  BY FS_EmptySet DEF Proved!Cardinality, Cardinality
<1>5. QED
  BY <1>1, <1>2, <1>3, <1>4 DEF Proved!Counted

LEMMA CountIsExact == Inv /\ Proved!Counted => UsedCountExact
<1> SUFFICES ASSUME Inv, Proved!Counted, NEW g \in Groups
             PROVE  /\ groups[g].used = Cardinality(ActiveIn(sites, g))
                    /\ groups[g].used <= groups[g].total
  BY DEF UsedCountExact
<1>1. groups[g] \in GroupRow
  BY TablesFit DEF Inv, GroupTable
<1>2. /\ EffectiveGroups[g].used = groups[g].used
      /\ EffectiveGroups[g].total = groups[g].total
  BY <1>1 DEF EffectiveGroups, GroupRow
<1>3. Proved!ActiveIn(sites, g) = ActiveIn(sites, g)
  BY DEF Proved!ActiveIn, ActiveIn, Proved!ActiveSites, ActiveSites,
         Proved!NotJoined, NotJoined, Proved!Joined, Joined
<1>4. Proved!Cardinality(ActiveIn(sites, g)) = Cardinality(ActiveIn(sites, g))
  BY DEF Proved!Cardinality, Cardinality
<1>5. QED
  BY <1>2, <1>3, <1>4 DEF Proved!Counted

\* While no FATE Manager user is deleted, used is the number of sites a group
\* set has, though addSite, updateSite and deleteSite write one more or one
\* less than what they read, and it never passes total, though updateGroup
\* writes a new total two queries after it has asked which party ids are in use.
THEOREM UsedStaysExact ==
    ASSUME OneAtWork, "user" \notin Operations
    PROVE  Spec => []UsedCountExact
  BY InitInv, CountStart, CountKeeps, CountIsExact, PTL DEF Spec

-----------------------------------------------------------------------------
(***************************************************************************)
(* Routes.  Where every activation uses the short link, which publishes    *)
(* the party in the transaction that lets the site join, and no site is    *)
(* changed or removed, a joined site has its route.  reactivateSite resets *)
(* the party of the one site that holds the party id.                      *)
(***************************************************************************)

LongLink == {"link", "signature", "activate"}
Routed == JoinedHasRoute /\ \A t \in Installers : pc[t] \notin LongLink

\* An administrator's step leaves the other requests where they are.
LEMMA OthersWait ==
    ASSUME IInv, NEW a \in Admins, Routed, NEW next, pc' = [pc EXCEPT ![a] = next]
    PROVE  \A t \in Installers : pc'[t] \notin LongLink
<1>1. \A t \in Installers : t \in Threads /\ t # a
  BY ThreadAssumption DEF Threads
<1>2. QED
  BY <1>1 DEF IInv, TypeOK, Routed

\* A request that does not write sites or parties.
LEMMA AskingKeepsRoutes ==
    ASSUME IInv, Routed, NEW a \in Admins, sites' = sites, party' = party,
           pc' = pc \/ \E next : pc' = [pc EXCEPT ![a] = next]
    PROVE  Routed'
<1>1. \A t \in Installers : pc'[t] \notin LongLink
  BY OthersWait DEF Routed
<1>2. QED
  BY <1>1 DEF Routed, JoinedHasRoute

LEMMA SiteRequestKeepsRoutes ==
    ASSUME Inv, OneAtWork, "short" \in Links, Routed, NEW a \in Admins, SiteRequest(a)
    PROVE  Routed'
<1>1. "update" \notin Operations /\ "delete" \notin Operations
  BY DEF OneAtWork
<1>2. IInv
  BY DEF Inv
<1>3. CASE AddSiteCheckRegion(a) \/ AddSiteCheckParty(a) \/ AddSiteRead(a)
  <2>1. sites' = sites /\ party' = party /\ \E next : pc' = [pc EXCEPT ![a] = next]
    BY <1>3 DEF AddSiteCheckRegion, AddSiteCheckParty, AddSiteRead,
         Start, Continue, ReadSnapshot, Refuse, Answer, tables
  <2>2. QED
    BY <1>2, <2>1, AskingKeepsRoutes
<1>4. CASE AddSiteCommit(a)
  <2>1. PICK s \in Sites : sites' = [sites EXCEPT ![s] = NewSite(req[a].pid, req[a].grp, req[a].inst)]
    BY <1>4 DEF AddSiteCommit
  <2>2. party' = party /\ pc' = [pc EXCEPT ![a] = "idle"] /\ sites \in SiteTable
    BY <1>4, InvFacts DEF AddSiteCommit, Answer
  <2>3. /\ sites'[s] = NewSite(req[a].pid, req[a].grp, req[a].inst)
        /\ \A x \in Sites : x # s => sites'[x] = sites[x]
    BY <2>1, <2>2 DEF SiteTable
  <2>4. sites'[s].status # Joined
    BY <2>3 DEF NewSite, NotJoined, Joined
  <2>5. JoinedHasRoute'
    BY <2>2, <2>3, <2>4 DEF Routed, JoinedHasRoute
  <2>6. QED
    BY <1>2, <2>2, <2>5, OthersWait DEF Routed
<1>5. CASE ReactivateSiteStart(a) \/ ReactivateSiteRead(a)
  <2>1. sites' = sites /\ party' = party /\ \E next : pc' = [pc EXCEPT ![a] = next]
    BY <1>5 DEF ReactivateSiteStart, ReactivateSiteRead,
         Start, ReadSnapshot, Refuse, Answer, tables
  <2>2. QED
    BY <1>2, <2>1, AskingKeepsRoutes
<1>6. CASE ReactivateSiteCommit(a)
  <2> DEFINE s == req[a].site  p == req[a].pid
             hit == {x \in {s} : sites[x].pid = p /\ sites[x].status = Joined}
  <2>1. /\ pc[a] = "reactivate commit" /\ pc' = [pc EXCEPT ![a] = "idle"]
        /\ party' = IF party[p] = "none" THEN party ELSE [party EXCEPT ![p] = "reset"]
        /\ sites' = WithStatus(sites, hit, NotJoined)
    BY <1>6 DEF ReactivateSiteCommit, At, Answer
  <2>2. s \in ActiveSites(sites) /\ sites[s].pid = p
    BY <2>1, InvFacts DEF Knows, KnowsSite
  <2>3. hit \in SUBSET ActiveSites(sites) /\ \A x \in hit \cap Sites : sites[x].status # Absent
    BY <2>2, ActiveFacts
  <2>4. \A x \in Sites : /\ sites'[x].status = IF x \in hit THEN NotJoined ELSE sites[x].status
                         /\ sites'[x].pid = sites[x].pid
    <3>1. sites \in SiteTable
      BY InvFacts
    <3> HIDE DEF hit
    <3>2. NotJoined \in {NotJoined, Joined, Removed} /\ NotJoined \in {NotJoined, Joined}
      OBVIOUS
    <3>3. \A x \in Sites : sites'[x].status = IF x \in hit THEN NotJoined ELSE sites[x].status
      <4>1. \A x \in hit \cap Sites : sites[x].status # Absent
        BY <2>3
      <4>2. \A x \in Sites : WithStatus(sites, hit, NotJoined)[x].status
                              = IF x \in hit THEN NotJoined ELSE sites[x].status
        BY <3>1, <3>2, <4>1, WithStatusFacts
      <4>3. QED
        BY <2>1, <4>2
    <3>4. \A x \in Sites : SameSite(sites'[x], sites[x])
      BY <2>1, <2>3, <3>1, <3>2, SameAfterStatus
    <3>5. QED
      BY <3>3, <3>4 DEF SameSite
  <2>5. ASSUME NEW x \in Sites, sites'[x].status = Joined
        PROVE  party'[sites'[x].pid] = "published"
    <3>1. x \notin hit /\ sites[x].status = Joined /\ sites'[x].pid = sites[x].pid
      BY <2>4, <2>5 DEF NotJoined, Joined
    <3>2. party[sites[x].pid] = "published"
      BY <3>1 DEF Routed, JoinedHasRoute
    <3>3. x \in ActiveSites(sites)
      BY <3>1 DEF ActiveSites
    <3>4. sites[x].pid # p
      BY <2>2, <3>1, <3>3, UniqueParty DEF ActivePartyUnique
    <3>5. sites[x].pid \in PartyIds
      <4>1. sites[x] \in SiteRow
        BY <3>3, ActiveFacts, InvFacts, RowFacts
      <4>2. QED
        BY <4>1 DEF SiteRow
    <3> HIDE DEF p, hit
    <3>6. party'[sites[x].pid] = party[sites[x].pid]
      BY <2>1, <3>4, <3>5, InvFacts DEF PartyTable
    <3>7. QED
      BY <3>1, <3>2, <3>6
  <2>6. QED
    BY <1>2, <2>1, <2>5, OthersWait DEF Routed, JoinedHasRoute
<1>7. QED
  BY <1>1, <1>3, <1>4, <1>5, <1>6 DEF SiteRequest

LEMMA GroupRequestKeepsRoutes ==
    ASSUME Inv, Routed, NEW a \in Admins, GroupRequest(a)
    PROVE  Routed'
<1>1. sites' = sites /\ party' = party
  BY DEF GroupRequest, AddGroupCheck, AddGroupCommit, DeleteGroupCheck, DeleteGroupCommit,
         UpdateGroupCheckRegion, UpdateGroupCheckUsed, UpdateGroupCheckStatus,
         UpdateGroupTotal, UpdateGroupClear, UpdateGroupInsert, UpdateGroupTorn,
         Start, Continue, Refuse, tables
<1>2. pc' = pc \/ \E next : pc' = [pc EXCEPT ![a] = next]
  BY DEF GroupRequest, AddGroupCheck, AddGroupCommit, DeleteGroupCheck, DeleteGroupCommit,
         UpdateGroupCheckRegion, UpdateGroupCheckUsed, UpdateGroupCheckStatus,
         UpdateGroupTotal, UpdateGroupClear, UpdateGroupInsert, UpdateGroupTorn,
         Start, Continue, Refuse, Answer
<1>3. QED
  BY <1>1, <1>2, AskingKeepsRoutes DEF Inv

\* A step of an installer that writes nothing, towards a place of a short link.
LEMMA InstallerWaits ==
    ASSUME Inv, Routed, NEW t \in Installers, NEW next, next \notin LongLink,
           pc' = [pc EXCEPT ![t] = next], sites' = sites, party' = party
    PROVE  Routed'
<1>1. \A u \in Installers : u \in Threads
  BY DEF Threads
<1>2. \A u \in Installers : pc'[u] \notin LongLink
  BY <1>1 DEF Routed, Inv, IInv, TypeOK
<1>3. QED
  BY <1>2 DEF Routed, JoinedHasRoute

LEMMA ActivationKeepsRoutes ==
    ASSUME Inv, Links = {"short"}, Routed, NEW t \in Installers, Activation(t)
    PROVE  Routed'
<1>0. "idle" \notin LongLink
  BY DEF LongLink
<1>1. CASE OpenLink(t)
  <2>1. \E r : Start(t, "short signature", r)
    BY <1>1 DEF OpenLink
  <2>2. pc' = [pc EXCEPT ![t] = "short signature"] /\ sites' = sites /\ party' = party
    BY <2>1 DEF Start, tables
  <2>3. "short signature" \notin LongLink
    BY DEF LongLink
  <2>4. QED
    BY <2>2, <2>3, InstallerWaits
<1>2. CASE ActivateCheckLink(t) \/ ActivateCheckSignature(t) \/ ActivateSite(t)
  <2>1. pc[t] \in LongLink
    BY <1>2 DEF ActivateCheckLink, ActivateCheckSignature, ActivateSite, At, LongLink
  <2>2. QED
    BY <2>1 DEF Routed
<1>3. CASE ShortLinkCheckSignature(t) \/ ShortLinkRead(t)
  <2>1. /\ pc' = [pc EXCEPT ![t] = "short read"] \/ pc' = [pc EXCEPT ![t] = "short commit"]
           \/ pc' = [pc EXCEPT ![t] = "idle"]
        /\ sites' = sites /\ party' = party
    BY <1>3 DEF ShortLinkCheckSignature, ShortLinkRead, Continue, Refuse, Answer,
         ReadSnapshot, tables
  <2>2. "short read" \notin LongLink /\ "short commit" \notin LongLink
    BY DEF LongLink
  <2>3. QED
    BY <1>0, <2>1, <2>2, InstallerWaits
<1>4. CASE ShortLinkActivateSite(t)
  <2> DEFINE p == req[t].pid  then == snap[t].sites
  <2>1. /\ pc[t] = "short commit" /\ pc' = [pc EXCEPT ![t] = "idle"]
        /\ party' = [party EXCEPT ![p] = "published"]
    BY <1>4 DEF ShortLinkActivateSite, At, Answer
  <2>2. PICK s \in ActiveOn(then, p) : sites' = [sites EXCEPT ![s] = [then[s] EXCEPT !.status = Joined]]
    BY <1>4 DEF ShortLinkActivateSite
  <2>3. sites \in SiteTable /\ then \in SiteTable /\ party \in PartyTable
    BY TablesFit, ThreadFacts DEF Inv, Threads, Snapshot
  <2>4. s \in Sites /\ s \in ActiveSites(then) /\ then[s].pid = p
    BY DEF ActiveOn, ActiveSites
  <2>5. then[s] \in SiteRow
    BY <2>3, <2>4, ActiveFacts, RowFacts
  <2> HIDE DEF p, then
  <2>6. p \in PartyIds
    BY <2>4, <2>5 DEF SiteRow
  <2>7. \A x \in Sites : x # s => sites'[x] = sites[x]
    BY <2>2, <2>3 DEF SiteTable
  <2>8. sites'[s].pid = p
    <3>1. sites'[s] = [then[s] EXCEPT !.status = Joined]
      BY <2>2, <2>3, <2>4 DEF SiteTable
    <3>2. QED
      BY <2>4, <2>5, <3>1 DEF SiteRow
  <2>9. ASSUME NEW x \in Sites, sites'[x].status = Joined
        PROVE  party'[sites'[x].pid] = "published"
    <3>1. CASE x = s
      BY <2>1, <2>3, <2>6, <2>8, <3>1 DEF PartyTable
    <3>2. CASE x # s
      <4>1. party[sites[x].pid] = "published" /\ sites'[x] = sites[x] /\ sites[x].status = Joined
        BY <2>7, <2>9, <3>2 DEF Routed, JoinedHasRoute
      <4>2. sites[x].pid \in PartyIds
        <5>1. sites[x] \in SiteRow
          BY <2>3, <4>1, RowFacts DEF Joined, Absent
        <5>2. QED
          BY <5>1 DEF SiteRow
      <4>3. QED
        BY <2>1, <2>3, <4>1, <4>2 DEF PartyTable
    <3>3. QED
      BY <3>1, <3>2
  <2>10. \A u \in Installers : pc'[u] \notin LongLink
    BY <1>0, <2>1 DEF Routed, Inv, IInv, TypeOK, Threads
  <2>11. QED
    BY <2>9, <2>10 DEF Routed, JoinedHasRoute
<1>5. QED
  BY <1>1, <1>2, <1>3, <1>4 DEF Activation

LEMMA RoutesKept ==
    ASSUME OneAtWork, Links = {"short"}
    PROVE  Inv /\ Routed /\ [Next]_vars => (Inv /\ Routed)'
<1> SUFFICES ASSUME Inv, Routed, [Next]_vars
             PROVE  Inv' /\ Routed'
  OBVIOUS
<1>1. Inv'
  BY InvKeeps
<1>2. ASSUME NEW a \in Admins, InstitutionRequest(a)
      PROVE  Routed'
  BY <1>2 DEF InstitutionRequest, OneAtWork
<1>3. ASSUME NEW t \in Threads, Rollback(t)
      PROVE  Routed'
  <2>1. pc' = [pc EXCEPT ![t] = "idle"] /\ sites' = sites /\ party' = party
    BY <1>3 DEF Rollback, Refuse, Answer, tables
  <2>2. "idle" \notin LongLink
    BY DEF LongLink
  <2>3. CASE t \in Admins
    BY <2>1, <2>3, AskingKeepsRoutes DEF Inv
  <2>4. CASE t \in Installers
    BY <2>1, <2>2, <2>4, InstallerWaits
  <2>5. QED
    BY <2>3, <2>4 DEF Threads
<1>4. ASSUME NEW p \in PartyIds, PublishParty(p)
      PROVE  Routed'
  <2>1. party' = [party EXCEPT ![p] = "published"] /\ sites' = sites /\ pc' = pc
    BY <1>4 DEF PublishParty
  <2>2. party \in PartyTable
    BY TablesFit DEF Inv
  <2>3. ASSUME NEW x \in Sites, sites[x].status = Joined
        PROVE  party'[sites[x].pid] = "published"
    <3>1. party[sites[x].pid] = "published"
      BY <2>3 DEF Routed, JoinedHasRoute
    <3>2. sites[x] \in SiteRow
      BY <2>3, TablesFit, RowFacts DEF Inv, Joined, Absent
    <3>3. sites[x].pid \in PartyIds
      BY <3>2 DEF SiteRow
    <3>4. QED
      BY <2>1, <2>2, <3>1, <3>3 DEF PartyTable
  <2>4. QED
    BY <2>1, <2>3 DEF Routed, JoinedHasRoute
<1>5. CASE UNCHANGED vars
  BY <1>1, <1>5 DEF vars, Routed, JoinedHasRoute
<1>6. ASSUME NEW a \in Admins, SiteRequest(a)
      PROVE  Routed'
  BY <1>6, SiteRequestKeepsRoutes
<1>7. ASSUME NEW a \in Admins, GroupRequest(a)
      PROVE  Routed'
  BY <1>7, GroupRequestKeepsRoutes
<1>8. ASSUME NEW t \in Installers, Activation(t)
      PROVE  Routed'
  BY <1>8, ActivationKeepsRoutes
<1>9. Routed'
  BY <1>2, <1>3, <1>4, <1>5, <1>6, <1>7, <1>8 DEF Next
<1>10. QED
  BY <1>1, <1>9

\* A site that joined with a short link has its party published to the roll
\* sites, whatever reactivations and activations cross each other: resetParty
\* and the reset of the site commit together, and so do the two writes of the
\* short link.
THEOREM JoinedStaysRouted ==
    ASSUME OneAtWork, Links = {"short"}
    PROVE  Spec => []JoinedHasRoute
<1>1. Init => Routed
  BY DEF Init, Routed, JoinedHasRoute, Threads, LongLink, AbsentRow, Absent, Joined
<1>2. Routed => JoinedHasRoute
  BY DEF Routed
<1>3. QED
  BY <1>1, <1>2, InitInv, RoutesKept, PTL DEF Spec
=============================================================================
