--------------------------- MODULE IpSync_proofs ---------------------------
(***************************************************************************)
(* Theorems about the cases between Cloud Manager and a FATE Manager, for  *)
(* every number of sites, settings, threads, rows and failures.            *)
(***************************************************************************)
EXTENDS IpSync, TLAPS

-----------------------------------------------------------------------------
(* What is known of a request from where it is                             *)

LEMMA RequestAt ==
    ASSUME TypeOK, NEW t \in Threads
    PROVE  /\ At(t, "posted") => req[t] \in [at: {"posted"}, site: Sites, net: Net]
           /\ At(t, "read") => req[t] \in [at: {"read"}, site: Sites, net: Net, old: Net]
           /\ At(t, "answered") =>
                req[t] \in [at: {"answered"}, site: Sites, net: Net, case: 1..MaxRows]
           /\ At(t, "logged") => req[t] \in [at: {"logged"}, site: Sites]
           /\ At(t, "take") => req[t] \in [at: {"take"}, site: Sites, seen: SiteInfo]
           /\ At(t, "deal") => req[t] \in DeciderRequest
           /\ At(t, "edit") => req[t] \in EditorRequest
<1>1. req[t] \in Maybe(UserRequest \cup DeciderRequest \cup EditorRequest)
  BY DEF TypeOK
<1>2. QED
  BY <1>1 DEF At, Maybe, UserRequest, DeciderRequest, EditorRequest

LEMMA TaskAtPlace ==
    ASSUME TypeOK
    PROVE  /\ TaskAt("logs") => task \in [at: {"logs"}, todo: SUBSET Log]
           /\ TaskAt("log") \/ TaskAt("site") =>
                task \in [at: {"log", "site"}, todo: SUBSET Log, log: Log, status: Dealt]
           /\ TaskAt("fetched") \/ TaskAt("store") =>
                task \in [at: {"fetched", "store"}, updates: SUBSET Edit]
           /\ TaskAt("save") =>
                task \in [at: {"save"}, updates: SUBSET Edit, update: Edit, seen: SiteInfo]
<1>1. task \in Maybe(TaskState)
  BY DEF TypeOK
<1>2. QED
  BY <1>1 DEF TaskAt, Maybe, TaskState

LEMMA ShownNet ==
    ASSUME NEW c \in CloudSite
    PROVE  Shown(c) \in Net
  BY DEF CloudSite, Shown, Net

LEMMA TakenNetType ==
    ASSUME NEW net \in Net, NEW seen \in SiteInfo
    PROVE  TakenNet(net, seen) \in Net
<1>1. CASE seen.netNew = None
  BY <1>1 DEF TakenNet
<1>2. CASE seen.netNew # None
  <2>1. seen.netNew \in Net
    BY <1>2 DEF SiteInfo, Maybe
  <2>2. QED
    BY <1>2, <2>1 DEF TakenNet, Net
<1>3. QED
  BY <1>1, <1>2

LEMMA TakenOverType ==
    ASSUME NEW info \in SiteInfo, NEW seen \in SiteInfo
    PROVE  TakenOver(info, seen) \in SiteInfo
<1> DEFINE net == TakenNet(info.net, seen)
           exchange == TakenExchange(info.exchange, seen)
<1>1. net \in Net
  BY TakenNetType DEF SiteInfo
<1>2. exchange \in Exchanges
  BY DEF TakenExchange, SiteInfo, Maybe
<1> HIDE DEF net, exchange
<1>3. [info EXCEPT !.net = net, !.exchange = exchange, !.netNew = None, !.exchangeNew = None]
        \in SiteInfo
  BY <1>1, <1>2 DEF SiteInfo, Maybe
<1>4. QED
  BY <1>3 DEF TakenOver, net, exchange

LEMMA ReleasedType ==
    ASSUME NEW info \in SiteInfo, NEW log \in Log, NEW status \in Dealt
    PROVE  Released(info, log, status) \in SiteInfo
<1> DEFINE net == Applied(info.net, log, status)
<1>1. net \in Net
  BY DEF Applied, SiteInfo, Log
<1> HIDE DEF net
<1>2. [info EXCEPT !.editable = TRUE, !.net = net] \in SiteInfo
  BY <1>1 DEF SiteInfo
<1>3. QED
  BY <1>2 DEF Released, net

LEMMA StoredType ==
    ASSUME NEW seen \in SiteInfo, NEW c \in Edit
    PROVE  Stored(seen, c) \in SiteInfo
<1> DEFINE netNew == IF c.net = None THEN seen.netNew ELSE c.net
           exchangeNew == IF c.exchange = None THEN seen.exchangeNew ELSE c.exchange
<1>1. netNew \in Maybe(Net) /\ exchangeNew \in Maybe(Exchanges)
  BY DEF SiteInfo, Edit
<1> HIDE DEF netNew, exchangeNew
<1>2. [seen EXCEPT !.netNew = netNew, !.exchangeNew = exchangeNew] \in SiteInfo
  BY <1>1 DEF SiteInfo
<1>3. QED
  BY <1>2 DEF Stored, netNew, exchangeNew

-----------------------------------------------------------------------------
(* Type correctness                                                        *)

LEMMA GoType ==
    ASSUME TypeOK, NEW t \in Threads,
           NEW r \in Maybe(UserRequest \cup DeciderRequest \cup EditorRequest), Go(t, r)
    PROVE  req' \in [Threads -> Maybe(UserRequest \cup DeciderRequest \cup EditorRequest)]
  BY DEF TypeOK, Go

LEMMA InitType == Init => TypeOK
<1> SUFFICES ASSUME Init
             PROVE  TypeOK
  OBVIOUS
<1>1. local \in [Sites -> SiteInfo]
  BY RegisteredAssumption DEF Init, SiteInfo, CloudSite, Maybe
<1>2. QED
  BY <1>1, RegisteredAssumption, BoundAssumption DEF Init, TypeOK, Maybe

LEMMA ChoiceType ==
    ASSUME NEW t \in Users \cup Editors, NEW n \in Choices[t]
    PROVE  n \in Net
  BY ChoicesAssumption

LEMMA UserType ==
    ASSUME TypeOK, NEW t \in Users, UserStep(t)
    PROVE  TypeOK'
<1> USE DEF TypeOK
<1> t \in Threads
  BY DEF Threads
<1>1. ASSUME NEW s \in Sites, NEW n \in Net, UpdateSiteCheck(t, s, n)
      PROVE  TypeOK'
  <2>1. [at |-> "posted", site |-> s, net |-> n] \in Maybe(UserRequest)
    BY DEF Maybe, UserRequest
  <2>2. QED
    BY <1>1, <2>1, GoType DEF UpdateSiteCheck, Maybe
<1>2. CASE AcceptIpModifyRead(t)
  <2>1. Shown(cloud[req[t].site]) \in Net
    BY <1>2, RequestAt, ShownNet DEF AcceptIpModifyRead
  <2>2. [at |-> "read", site |-> req[t].site, net |-> req[t].net,
         old |-> Shown(cloud[req[t].site])] \in Maybe(UserRequest)
    BY <1>2, <2>1, RequestAt DEF AcceptIpModifyRead, Maybe, UserRequest
  <2>3. QED
    BY <1>2, <2>2, GoType DEF AcceptIpModifyRead, Maybe
<1>3. CASE AcceptIpModifyInsert(t)
  <2>1. req[t] \in [at: {"read"}, site: Sites, net: Net, old: Net]
    BY <1>3, RequestAt DEF AcceptIpModifyInsert
  <2>2. PICK n \in 1..MaxRows :
            /\ cases' = cases \cup {[id |-> n, site |-> req[t].site, old |-> req[t].old,
                                     net |-> req[t].net, exchange |-> None, status |-> "no deal"]}
            /\ Go(t, [at |-> "answered", site |-> req[t].site, net |-> req[t].net, case |-> n])
    BY <1>3 DEF AcceptIpModifyInsert
  <2> DEFINE row == [id |-> n, site |-> req[t].site, old |-> req[t].old,
                     net |-> req[t].net, exchange |-> None, status |-> "no deal"]
  <2>3. cases' \subseteq Row
    <3>1. /\ row.id \in 1..MaxRows
          /\ row.site \in Sites
          /\ row.old \in Net
          /\ row.net \in Net
          /\ row.exchange \in {None}
          /\ row.status \in Dealt \cup {"no deal"}
      BY <2>1
    <3>2. row \in Case
      BY <3>1 DEF Case
    <3>3. QED
      BY <2>2, <3>2 DEF Row
  <2>4. [at |-> "answered", site |-> req[t].site, net |-> req[t].net, case |-> n]
            \in Maybe(UserRequest)
    BY <2>1 DEF Maybe, UserRequest
  <2>5. QED
    BY <1>3, <2>2, <2>3, <2>4, GoType DEF AcceptIpModifyInsert, Maybe
<1>4. CASE UpdateSiteLog(t)
  <2>1. req[t] \in [at: {"answered"}, site: Sites, net: Net, case: 1..MaxRows]
    BY <1>4, RequestAt DEF UpdateSiteLog
  <2>2. [case |-> req[t].case, site |-> req[t].site, net |-> req[t].net, status |-> "no deal"]
            \in Log
    BY <2>1 DEF Log
  <2>3. [at |-> "logged", site |-> req[t].site] \in Maybe(UserRequest)
    BY <2>1 DEF Maybe, UserRequest
  <2>4. QED
    BY <1>4, <2>2, <2>3, GoType DEF UpdateSiteLog, Maybe
<1>5. CASE UpdateSiteLock(t)
  <2>1. local' \in [Sites -> SiteInfo]
    <3>1. req[t].site \in Sites
      BY <1>5, RequestAt DEF UpdateSiteLock
    <3>2. [local[req[t].site] EXCEPT !.editable = FALSE] \in SiteInfo
      BY <3>1 DEF SiteInfo
    <3>3. QED
      BY <1>5, <3>1, <3>2 DEF UpdateSiteLock
  <2>2. QED
    BY <1>5, <2>1, GoType DEF UpdateSiteLock, Maybe
<1>6. ASSUME NEW s \in Sites, TakeOverRead(t, s)
      PROVE  TypeOK'
  <2>1. [at |-> "take", site |-> s, seen |-> local[s]] \in Maybe(UserRequest)
    BY DEF Maybe, UserRequest
  <2>2. QED
    BY <1>6, <2>1, GoType DEF TakeOverRead, Maybe
<1>7. CASE TakeOverWrite(t)
  <2>1. req[t] \in [at: {"take"}, site: Sites, seen: SiteInfo]
    BY <1>7, RequestAt DEF TakeOverWrite
  <2>2. TakenOver(local[req[t].site], req[t].seen) \in SiteInfo
    BY <2>1, TakenOverType
  <2>3. local' \in [Sites -> SiteInfo]
    BY <1>7, <2>1, <2>2 DEF TakeOverWrite
  <2>4. QED
    BY <1>7, <2>3, GoType DEF TakeOverWrite, Maybe
<1>8. QED
  BY <1>1, <1>2, <1>3, <1>4, <1>5, <1>6, <1>7, ChoiceType DEF UserStep

LEMMA DeciderType ==
    ASSUME TypeOK, NEW t \in Deciders, DeciderStep(t)
    PROVE  TypeOK'
<1> USE DEF TypeOK
<1> t \in Threads
  BY DEF Threads
<1>1. ASSUME NEW c \in cases, NEW v \in Dealt, DealIpModifyRead(t, c, v)
      PROVE  TypeOK'
  <2>1. c \in Case
    BY <1>1 DEF DealIpModifyRead, OpenCases, Row, Edit, Edited
  <2>2. [at |-> "deal", case |-> c, verdict |-> v] \in Maybe(DeciderRequest)
    BY <2>1 DEF Maybe, DeciderRequest
  <2>3. QED
    BY <1>1, <2>2, GoType DEF DealIpModifyRead, Maybe
<1>2. CASE DealIpModifyCommit(t)
  <2> DEFINE c == req[t].case
             v == req[t].verdict
  <2>1. c \in Case /\ v \in Dealt
    BY <1>2, RequestAt DEF DealIpModifyCommit, DeciderRequest
  <2>2. cases' \subseteq Row
    <3>1. ASSUME NEW r \in OpenCases
          PROVE  [r EXCEPT !.status = v] \in Row
      <4>1. r \in Case
        BY DEF OpenCases, Row, Edit, Edited
      <4>2. [r EXCEPT !.status = v] \in Case
        BY <2>1, <4>1 DEF Case
      <4>3. QED
        BY <4>2 DEF Row
    <3>2. QED
      BY <1>2, <3>1 DEF DealIpModifyCommit
  <2>3. cloud' \in [Sites -> CloudSite]
    <3>1. CASE v = "agreed"
      <4>1. c.site \in Sites /\ c.net \in Net
        BY <2>1 DEF Case
      <4>2. Agreed(c.site, c) \in CloudSite
        BY <4>1 DEF Agreed, CloudSite, Net
      <4>3. QED
        BY <1>2, <3>1, <4>1, <4>2 DEF DealIpModifyCommit
    <3>2. CASE v # "agreed"
      BY <1>2, <3>2 DEF DealIpModifyCommit
    <3>3. QED
      BY <3>1, <3>2
  <2>4. QED
    BY <1>2, <2>2, <2>3, GoType DEF DealIpModifyCommit, Maybe
<1>3. QED
  BY <1>1, <1>2 DEF DeciderStep

LEMMA DifferingType ==
    ASSUME NEW n \in Net, NEW x \in Exchanges, NEW seen \in CloudSite
    PROVE  Differing(n, x, seen) \in [net: Maybe(Net), exchange: Maybe(Exchanges)]
  BY DEF Differing, Maybe

LEMMA EditorType ==
    ASSUME TypeOK, NEW t \in Editors, EditorStep(t)
    PROVE  TypeOK'
<1> USE DEF TypeOK
<1> t \in Threads
  BY DEF Threads
<1>1. ASSUME NEW s \in Sites, NEW n \in Net, NEW x \in Exchanges, UpdatePartyRead(t, s, n, x)
      PROVE  TypeOK'
  <2>1. [at |-> "edit", site |-> s, net |-> n, exchange |-> x, seen |-> cloud[s]]
            \in Maybe(EditorRequest)
    BY DEF Maybe, EditorRequest
  <2>2. QED
    BY <1>1, <2>1, GoType DEF UpdatePartyRead, Maybe
<1>2. CASE UpdatePartyCommit(t)
  <2> DEFINE s == req[t].site
             d == Differing(req[t].net, req[t].exchange, req[t].seen)
  <2>1. /\ s \in Sites
        /\ req[t].seen \in CloudSite
        /\ d \in [net: Maybe(Net), exchange: Maybe(Exchanges)]
    BY <1>2, RequestAt, DifferingType DEF UpdatePartyCommit, EditorRequest
  <2>2. req' \in [Threads -> Maybe(UserRequest \cup DeciderRequest \cup EditorRequest)]
    BY <1>2, GoType DEF UpdatePartyCommit, Maybe
  <2>3. CASE d = NoFields
    BY <1>2, <2>2, <2>3 DEF UpdatePartyCommit
  <2>4. CASE d # NoFields
    <3>1. Shown(req[t].seen) \in Net
      BY <2>1, ShownNet
    <3>2. PICK n \in 1..MaxRows :
            cases' = cases \cup {[id |-> n, site |-> s, old |-> Shown(req[t].seen),
                                  net |-> d.net, exchange |-> d.exchange,
                                  status |-> "not synced"]}
      BY <1>2, <2>4 DEF UpdatePartyCommit
    <3> DEFINE row == [id |-> n, site |-> s, old |-> Shown(req[t].seen),
                       net |-> d.net, exchange |-> d.exchange, status |-> "not synced"]
               c == cloud[s]
               new == [entrances |-> IF d.net = None THEN c.entrances ELSE d.net.entrances,
                       net |-> IF d.net = None THEN c.net ELSE d.net,
                       exchange |-> IF d.exchange = None THEN c.exchange ELSE d.exchange]
    <3>3. row \in Edit
      BY <2>1, <3>1 DEF Edit, Edited
    <3>4. cases' \subseteq Row
      BY <3>2, <3>3 DEF Row
    <3>5. new \in CloudSite
      <4>1. c \in CloudSite
        BY <2>1
      <4>2. d.net \in Maybe(Net) /\ d.exchange \in Maybe(Exchanges)
        BY <2>1
      <4> HIDE DEF d, c
      <4>3. QED
        BY <4>1, <4>2 DEF CloudSite, Maybe, Net
    <3>6. cloud' = [cloud EXCEPT ![s] = new]
      BY <1>2, <2>4 DEF UpdatePartyCommit
    <3>7. QED
      BY <1>2, <2>1, <2>2, <3>4, <3>5, <3>6 DEF UpdatePartyCommit
  <2>5. QED
    BY <2>3, <2>4
<1>3. QED
  BY <1>1, <1>2, ChoiceType DEF EditorStep

LEMMA TaskType ==
    ASSUME TypeOK, TaskStep
    PROVE  TypeOK'
<1> USE DEF TypeOK
<1>1. CASE StartRound
  <2>1. [at |-> "logs", todo |-> {l \in logs : l.status = "no deal"}] \in TaskState
    BY DEF TaskState
  <2>2. QED
    BY <1>1, <2>1 DEF StartRound, Maybe
<1>2. CASE QueryIpModify
  <2>1. task.todo \in SUBSET Log
    BY <1>2, TaskAtPlace DEF QueryIpModify
  <2>2. PICK l \in task.todo, c \in cases :
            task' = IF IsAnswer(c.status)
                    THEN [at |-> "log", todo |-> task.todo \ {l}, log |-> l, status |-> c.status]
                    ELSE [at |-> "logs", todo |-> task.todo \ {l}]
    BY <1>2 DEF QueryIpModify
  <2>3. task' \in TaskState
    BY <2>1, <2>2 DEF TaskState, IsAnswer
  <2>4. QED
    BY <1>2, <2>3 DEF QueryIpModify, Maybe
<1>3. CASE UpdateChangeLog
  <2>1. task \in [at: {"log", "site"}, todo: SUBSET Log, log: Log, status: Dealt]
    BY <1>3, TaskAtPlace DEF UpdateChangeLog
  <2>2. logs' \subseteq Log
    <3>1. ASSUME NEW l \in logs
          PROVE  [l EXCEPT !.status = task.status] \in Log
      BY <2>1 DEF Log
    <3>2. QED
      BY <1>3, <3>1 DEF UpdateChangeLog
  <2>3. task' \in TaskState
    BY <1>3, <2>1 DEF UpdateChangeLog, TaskState
  <2>4. QED
    BY <1>3, <2>2, <2>3 DEF UpdateChangeLog, Maybe
<1>4. CASE UpdateSiteInfo
  <2>1. task \in [at: {"log", "site"}, todo: SUBSET Log, log: Log, status: Dealt]
    BY <1>4, TaskAtPlace DEF UpdateSiteInfo
  <2>2. task.log.site \in Sites
    BY <2>1 DEF Log
  <2>3. Released(local[task.log.site], task.log, task.status) \in SiteInfo
    BY <2>1, <2>2, ReleasedType
  <2>4. local' \in [Sites -> SiteInfo]
    BY <1>4, <2>2, <2>3 DEF UpdateSiteInfo
  <2>5. task' \in TaskState
    BY <1>4, <2>1 DEF UpdateSiteInfo, TaskState
  <2>6. QED
    BY <1>4, <2>4, <2>5 DEF UpdateSiteInfo, Maybe
<1>5. CASE QueryUpdateIpModify
  <2>1. LastUpdates \subseteq Edit
    BY DEF LastUpdates, Unsynced, Row, Case, Dealt
  <2>2. [at |-> "fetched", updates |-> LastUpdates] \in TaskState
    BY <2>1 DEF TaskState
  <2>3. QED
    BY <1>5, <2>2 DEF QueryUpdateIpModify, Maybe
<1>6. CASE MarkSynced
  <2>1. ASSUME NEW c \in Unsynced
        PROVE  [c EXCEPT !.status = "synced"] \in Row
    <3>1. c \in Edit
      BY DEF Unsynced, Row, Case, Dealt
    <3>2. [c EXCEPT !.status = "synced"] \in Edit
      BY <3>1 DEF Edit, Edited
    <3>3. QED
      BY <3>2 DEF Row
  <2>2. cases' \subseteq Row
    BY <1>6, <2>1 DEF MarkSynced
  <2>3. task' \in TaskState
    BY <1>6, TaskAtPlace DEF MarkSynced, TaskState
  <2>4. QED
    BY <1>6, <2>2, <2>3 DEF MarkSynced, Maybe
<1>7. CASE SafeSaveRead
  <2>1. task \in [at: {"fetched", "store"}, updates: SUBSET Edit]
    BY <1>7, TaskAtPlace DEF SafeSaveRead
  <2>2. PICK c \in task.updates :
            task' = [at |-> "save", updates |-> task.updates \ {c}, update |-> c,
                     seen |-> local[c.site]]
    BY <1>7 DEF SafeSaveRead
  <2>3. c \in Edit /\ c.site \in Sites
    BY <2>1, <2>2 DEF Edit
  <2>4. task' \in TaskState
    BY <2>1, <2>2, <2>3 DEF TaskState
  <2>5. QED
    BY <1>7, <2>4 DEF SafeSaveRead, Maybe
<1>8. CASE SafeSaveWrite
  <2>1. task \in [at: {"save"}, updates: SUBSET Edit, update: Edit, seen: SiteInfo]
    BY <1>8, TaskAtPlace DEF SafeSaveWrite
  <2>2. Stored(task.seen, task.update) \in SiteInfo /\ task.update.site \in Sites
    BY <2>1, StoredType DEF Edit
  <2>3. local' \in [Sites -> SiteInfo]
    BY <1>8, <2>2 DEF SafeSaveWrite
  <2>4. task' \in TaskState
    BY <1>8, <2>1 DEF SafeSaveWrite, TaskState
  <2>5. QED
    BY <1>8, <2>3, <2>4 DEF SafeSaveWrite, Maybe
<1>9. CASE EndRound
  BY <1>9 DEF EndRound, Maybe
<1>10. QED
  BY <1>1, <1>2, <1>3, <1>4, <1>5, <1>6, <1>7, <1>8, <1>9 DEF TaskStep

LEMMA FailureType ==
    ASSUME TypeOK, (\E t \in Threads : RequestFails(t)) \/ TaskFails
    PROVE  TypeOK'
<1> USE DEF TypeOK
<1>1. ASSUME NEW t \in Threads, RequestFails(t)
      PROVE  TypeOK'
  <2>1. faults' \in 0..MaxFaults
    BY <1>1, BoundAssumption DEF RequestFails
  <2>2. QED
    BY <1>1, <2>1, GoType DEF RequestFails, Maybe
<1>2. CASE TaskFails
  <2>1. faults' \in 0..MaxFaults
    BY <1>2, BoundAssumption DEF TaskFails
  <2>2. [at |-> "logs", todo |-> {}] \in TaskState
    BY DEF TaskState
  <2>3. QED
    BY <1>2, <2>1, <2>2 DEF TaskFails, Maybe
<1>3. QED
  BY <1>1, <1>2

LEMMA NextType ==
    ASSUME TypeOK, [Next]_vars
    PROVE  TypeOK'
<1>1. CASE UNCHANGED vars
  BY <1>1 DEF vars, TypeOK
<1>2. QED
  BY <1>1, UserType, DeciderType, EditorType, TaskType, FailureType DEF Next

\* The tables of both managers and all requests in progress stay well formed,
\* whatever fails: no setting a FATE Manager uses becomes empty.
THEOREM TypeCorrect == Spec => []TypeOK
<1>1. Init => TypeOK
  BY InitType
<1>2. TypeOK /\ [Next]_vars => TypeOK'
  BY NextType
<1>3. QED
  BY <1>1, <1>2, PTL DEF Spec

-----------------------------------------------------------------------------
(* The inductive invariant.  A decision only ever becomes known, to a log, *)
(* a request or the task, from a row that keeps it for good: Kept says     *)
(* what a step preserves of the rows, the other parts say of every copy    *)
(* of a setting which row it comes from.                                   *)

IdsUnique == \A c, d \in cases : c.id = d.id => c = d

\* There is a case with this id, for this site and these settings.
HasCase(id, s, n) == \E c \in cases : c.id = id /\ c.site = s /\ c.net = n /\ c \in Case

\* There is an edit of s to these settings.
HasEdit(s, n) == \E c \in cases : c.site = s /\ c.net = n /\ c.status \in Edited

LogsHaveCases == \A l \in logs : HasCase(l.case, l.site, l.net)

\* The settings of a row of the FATE Manager are decided, those to be taken
\* over come from an edit.
InfoDecided(s, info) ==
    /\ \A f \in Fields : DecidedFor(s, f, info.net[f])
    /\ info.netNew # None => HasEdit(s, info.netNew)

UpdateEdited(c) == c.net # None => HasEdit(c.site, c.net)

LocalDecided == \A s \in Sites : InfoDecided(s, local[s])

RequestsDecided ==
    \A t \in Threads :
        /\ At(t, "answered") => HasCase(req[t].case, req[t].site, req[t].net)
        /\ At(t, "take") => InfoDecided(req[t].site, req[t].seen)

TaskDecided ==
    /\ TaskAt("logs") \/ TaskAt("log") \/ TaskAt("site") =>
        \A l \in task.todo : HasCase(l.case, l.site, l.net)
    /\ TaskAt("log") \/ TaskAt("site") =>
        \E c \in cases : /\ c.id = task.log.case
                         /\ c.site = task.log.site
                         /\ c.net = task.log.net
                         /\ c.status = task.status
    /\ TaskAt("fetched") \/ TaskAt("store") \/ TaskAt("save") =>
        \A c \in task.updates : UpdateEdited(c)
    /\ TaskAt("save") => UpdateEdited(task.update) /\ InfoDecided(task.update.site, task.seen)

IInv ==
    /\ TypeOK
    /\ IdsUnique
    /\ LogsHaveCases
    /\ LocalDecided
    /\ RequestsDecided
    /\ TaskDecided

-----------------------------------------------------------------------------
(* What a step preserves of the rows                                       *)

\* d is what became of the row c.
Follows(d, c) ==
    /\ d.id = c.id
    /\ d.site = c.site
    /\ d.net = c.net
    /\ c \in Case => d \in Case
    /\ c.status \in Dealt => d = c
    /\ c.status \in Edited => d.status \in Edited

Kept == \A c \in cases : \E d \in cases' : Follows(d, c)

LEMMA SameRowsKept ==
    ASSUME cases \subseteq cases'
    PROVE  Kept
  BY DEF Kept, Follows

LEMMA DealtRow ==
    ASSUME NEW r \in OpenCases, cases \subseteq Row, NEW v \in Dealt
    PROVE  Follows([r EXCEPT !.status = v], r)
<1>1. r \in Case /\ r.status = "no deal"
  BY DEF OpenCases, Row, Edit, Edited
<1>2. [r EXCEPT !.status = v] \in Case
  BY <1>1 DEF Case
<1>3. QED
  BY <1>1, <1>2 DEF Follows, Dealt, Edited, Case

LEMMA SyncedRow ==
    ASSUME NEW r \in Unsynced, cases \subseteq Row
    PROVE  Follows([r EXCEPT !.status = "synced"], r)
<1>1. r \in Edit /\ r.status = "not synced"
  BY DEF Unsynced, Row, Case, Dealt
<1>2. r \notin Case
  BY <1>1 DEF Case, Dealt
<1>3. QED
  BY <1>1, <1>2 DEF Follows, Dealt, Edited, Edit

LEMMA SameRow ==
    ASSUME NEW r
    PROVE  Follows(r, r)
  BY DEF Follows

\* A step leaves the rows, inserts one with the next id, or changes the status
\* of some.
RowsSame == cases' = cases
RowInserted ==
    \E r \in Row : IsNextId(r.id) /\ cases' = cases \cup {r}
RowsRestated ==
    \E S \in SUBSET cases, v \in Dealt \cup Edited :
        /\ \A r \in S : Follows([r EXCEPT !.status = v], r)
        /\ cases' = {IF r \in S THEN [r EXCEPT !.status = v] ELSE r : r \in cases}

LEMMA RowId ==
    ASSUME NEW r \in Row
    PROVE  r.id \in Int
<1>1. r.id \in 1..MaxRows
  BY DEF Row, Case, Edit
<1>2. QED
  BY <1>1, BoundAssumption

LEMMA RowsKept ==
    ASSUME TypeOK, IdsUnique, RowsSame \/ RowInserted \/ RowsRestated
    PROVE  Kept /\ IdsUnique'
<1>1. CASE RowsSame
  BY <1>1, SameRowsKept DEF RowsSame, IdsUnique
<1>2. CASE RowInserted
  <2>1. PICK r \in Row : IsNextId(r.id) /\ cases' = cases \cup {r}
    BY <1>2 DEF RowInserted
  <2>2. \A c \in cases : c.id # r.id
    <3>1. \A c \in cases : c.id \in Int /\ c.id < r.id
      BY <2>1, RowId DEF IsNextId, TypeOK
    <3>2. r.id \in Int
      BY <2>1, RowId
    <3>3. QED
      BY <3>1, <3>2
  <2>3. QED
    BY <2>1, <2>2, SameRowsKept DEF IdsUnique
<1>3. CASE RowsRestated
  <2>1. PICK S \in SUBSET cases, v \in Dealt \cup Edited :
            /\ \A r \in S : Follows([r EXCEPT !.status = v], r)
            /\ cases' = {IF r \in S THEN [r EXCEPT !.status = v] ELSE r : r \in cases}
    BY <1>3 DEF RowsRestated
  <2> DEFINE new(r) == IF r \in S THEN [r EXCEPT !.status = v] ELSE r
  <2>2. ASSUME NEW r \in cases
        PROVE  Follows(new(r), r)
    BY <2>1, SameRow
  <2>3. cases' = {new(r) : r \in cases}
    BY <2>1
  <2>4. ASSUME NEW c \in cases', NEW d \in cases', c.id = d.id
        PROVE  c = d
    <3>1. PICK q \in cases, r \in cases : c = new(q) /\ d = new(r)
      BY <2>3
    <3>2. q.id = c.id /\ r.id = d.id
      BY <2>2, <3>1 DEF Follows
    <3>3. QED
      BY <2>4, <3>1, <3>2 DEF IdsUnique
  <2>5. Kept
    <3>1. \A c \in cases : new(c) \in cases'
      BY <2>3
    <3> HIDE DEF new
    <3>2. QED
      BY <2>2, <3>1 DEF Kept
  <2>6. QED
    BY <2>4, <2>5 DEF IdsUnique
<1>4. QED
  BY <1>1, <1>2, <1>3

LEMMA StepOfRows ==
    ASSUME TypeOK, [Next]_vars
    PROVE  RowsSame \/ RowInserted \/ RowsRestated
<1> USE DEF TypeOK
<1>1. ASSUME NEW t \in Users, UserStep(t)
      PROVE  RowsSame \/ RowInserted
  <2> t \in Threads
    BY DEF Threads
  <2>1. CASE AcceptIpModifyInsert(t)
    <3>1. req[t] \in [at: {"read"}, site: Sites, net: Net, old: Net]
      BY <2>1, RequestAt DEF AcceptIpModifyInsert
    <3>2. PICK n \in 1..MaxRows :
            /\ IsNextId(n)
            /\ cases' = cases \cup {[id |-> n, site |-> req[t].site, old |-> req[t].old,
                                     net |-> req[t].net, exchange |-> None, status |-> "no deal"]}
      BY <2>1 DEF AcceptIpModifyInsert
    <3>3. [id |-> n, site |-> req[t].site, old |-> req[t].old,
           net |-> req[t].net, exchange |-> None, status |-> "no deal"] \in Case
      BY <3>1 DEF Case
    <3>4. QED
      BY <3>2, <3>3 DEF RowInserted, Row
  <2>2. CASE ~ AcceptIpModifyInsert(t)
    BY <1>1, <2>2 DEF UserStep, UpdateSiteCheck, AcceptIpModifyRead, UpdateSiteLog,
                      UpdateSiteLock, TakeOverRead, TakeOverWrite, RowsSame
  <2>3. QED
    BY <2>1, <2>2
<1>2. ASSUME NEW t \in Deciders, DeciderStep(t)
      PROVE  RowsSame \/ RowsRestated
  <2> t \in Threads
    BY DEF Threads
  <2>1. CASE DealIpModifyCommit(t)
    <3> DEFINE v == req[t].verdict
               S == {r \in OpenCases : r.id = req[t].case.id}
    <3>1. v \in Dealt
      BY <2>1, RequestAt DEF DealIpModifyCommit, DeciderRequest
    <3>2. \A r \in S : Follows([r EXCEPT !.status = v], r)
      BY <3>1, DealtRow
    <3>3. S \in SUBSET cases
      BY DEF OpenCases
    <3>4. cases' = {IF r \in S THEN [r EXCEPT !.status = v] ELSE r : r \in cases}
      BY <2>1 DEF DealIpModifyCommit
    <3> HIDE DEF v, S
    <3>5. QED
      BY <3>1, <3>2, <3>3, <3>4 DEF RowsRestated
  <2>2. CASE ~ DealIpModifyCommit(t)
    BY <1>2, <2>2 DEF DeciderStep, DealIpModifyRead, RowsSame
  <2>3. QED
    BY <2>1, <2>2
<1>3. ASSUME NEW t \in Editors, EditorStep(t)
      PROVE  RowsSame \/ RowInserted
  <2> t \in Threads
    BY DEF Threads
  <2>1. CASE UpdatePartyCommit(t)
    <3> DEFINE d == Differing(req[t].net, req[t].exchange, req[t].seen)
    <3>1. CASE d = NoFields
      BY <2>1, <3>1 DEF UpdatePartyCommit, RowsSame
    <3>2. CASE d # NoFields
      <4>1. PICK n \in 1..MaxRows :
            /\ IsNextId(n)
            /\ cases' = cases \cup {[id |-> n, site |-> req[t].site, old |-> Shown(req[t].seen),
                                     net |-> d.net, exchange |-> d.exchange,
                                     status |-> "not synced"]}
        BY <2>1, <3>2 DEF UpdatePartyCommit
      <4>2. req[t] \in EditorRequest
        BY <2>1, RequestAt DEF UpdatePartyCommit
      <4>3. d \in [net: Maybe(Net), exchange: Maybe(Exchanges)] /\ Shown(req[t].seen) \in Net
        BY <4>2, DifferingType, ShownNet DEF EditorRequest
      <4> HIDE DEF d
      <4>4. [id |-> n, site |-> req[t].site, old |-> Shown(req[t].seen),
             net |-> d.net, exchange |-> d.exchange, status |-> "not synced"] \in Edit
        BY <4>2, <4>3 DEF Edit, Edited, EditorRequest
      <4>5. QED
        BY <4>1, <4>4 DEF RowInserted, Row
    <3>3. QED
      BY <3>1, <3>2
  <2>2. CASE ~ UpdatePartyCommit(t)
    BY <1>3, <2>2 DEF EditorStep, UpdatePartyRead, RowsSame
  <2>3. QED
    BY <2>1, <2>2
<1>4. ASSUME TaskStep
      PROVE  RowsSame \/ RowsRestated
  <2>1. CASE MarkSynced
    <3>1. \A r \in Unsynced : Follows([r EXCEPT !.status = "synced"], r)
      BY SyncedRow
    <3>2. cases' = {IF r \in Unsynced THEN [r EXCEPT !.status = "synced"] ELSE r : r \in cases}
      BY <2>1 DEF MarkSynced
    <3>3. Unsynced \in SUBSET cases /\ "synced" \in Dealt \cup Edited
      BY DEF Unsynced, Edited
    <3>4. RowsRestated
      BY <3>1, <3>2, <3>3 DEF RowsRestated
    <3>5. QED
      BY <3>4
  <2>2. CASE ~ MarkSynced
    BY <1>4, <2>2 DEF TaskStep, StartRound, QueryIpModify, UpdateChangeLog, UpdateSiteInfo,
                      QueryUpdateIpModify, SafeSaveRead, SafeSaveWrite, EndRound, RowsSame
  <2>3. QED
    BY <2>1, <2>2
<1>5. CASE (\E t \in Threads : RequestFails(t)) \/ TaskFails \/ UNCHANGED vars
  BY <1>5 DEF RequestFails, TaskFails, vars, RowsSame
<1>6. QED
  BY <1>1, <1>2, <1>3, <1>4, <1>5 DEF Next

LEMMA StepKeeps ==
    ASSUME TypeOK, IdsUnique, [Next]_vars
    PROVE  Kept /\ IdsUnique'
  BY RowsKept, StepOfRows

\* A case is decided once, whoever decides it again and however the decisions
\* cross.
THEOREM DecisionIsFinal == Spec => DecidedOnce
<1>1. Init => TypeOK /\ IdsUnique
  BY InitType DEF Init, IdsUnique
<1>2. TypeOK /\ IdsUnique /\ [Next]_vars => TypeOK' /\ IdsUnique'
  BY NextType, StepKeeps
<1>3. TypeOK /\ IdsUnique /\ [Next]_vars
        => [\A c \in cases : c.status \in Dealt => c \in cases']_vars
  BY StepKeeps DEF Kept, Follows
<1>4. QED
  BY <1>1, <1>2, <1>3, PTL DEF Spec, DecidedOnce

-----------------------------------------------------------------------------
(* What is known from the rows stays known                                 *)

LEMMA CaseStays ==
    ASSUME Kept, NEW id, NEW s, NEW n, HasCase(id, s, n)
    PROVE  HasCase(id, s, n)'
  BY DEF Kept, Follows, HasCase

LEMMA EditStays ==
    ASSUME Kept, NEW s, NEW n, HasEdit(s, n)
    PROVE  HasEdit(s, n)'
  BY DEF Kept, Follows, HasEdit

LEMMA DecidedStays ==
    ASSUME Kept, NEW s, NEW f, NEW v, DecidedFor(s, f, v)
    PROVE  DecidedFor(s, f, v)'
<1>1. CASE v = Registered[s].net[f]
  BY <1>1 DEF DecidedFor
<1>2. ASSUME NEW c \in cases, c.site = s, c.status \in Edited \cup {"agreed"},
             c.net # None, c.net[f] = v
      PROVE  DecidedFor(s, f, v)'
  BY <1>2 DEF Kept, Follows, DecidedFor, Dealt
<1>3. QED
  BY <1>1, <1>2 DEF DecidedFor

LEMMA InfoStays ==
    ASSUME Kept, NEW s, NEW info, InfoDecided(s, info)
    PROVE  InfoDecided(s, info)'
<1>1. \A f \in Fields : DecidedFor(s, f, info.net[f])'
  BY DecidedStays DEF InfoDecided
<1>2. info.netNew # None => HasEdit(s, info.netNew)'
  BY EditStays DEF InfoDecided
<1>3. QED
  BY <1>1, <1>2 DEF InfoDecided

LEMMA EditDecides ==
    ASSUME NEW s, NEW n, n # None, HasEdit(s, n), NEW f
    PROVE  DecidedFor(s, f, n[f])
  BY DEF HasEdit, DecidedFor

-----------------------------------------------------------------------------
(* What the steps of the FATE Manager make of the settings of a site       *)

LEMMA TakenOverDecided ==
    ASSUME NEW s \in Sites, NEW info \in SiteInfo, NEW seen \in SiteInfo,
           InfoDecided(s, info), InfoDecided(s, seen)
    PROVE  InfoDecided(s, TakenOver(info, seen))
<1> DEFINE new == TakenOver(info, seen)
<1>1. new.net = TakenNet(info.net, seen) /\ new.netNew = None
  BY DEF TakenOver, SiteInfo
<1>2. ASSUME NEW f \in Fields
      PROVE  DecidedFor(s, f, new.net[f])
  <2>1. CASE seen.netNew = None
    BY <1>1, <2>1 DEF TakenNet, InfoDecided
  <2>2. CASE seen.netNew # None
    <3>1. new.net[f] \in {info.net[f], seen.netNew[f]}
      <4>1. info.net \in Net
        BY DEF SiteInfo
      <4>2. f \in DOMAIN info.net
        BY <4>1 DEF Net, Fields
      <4>3. QED
        BY <1>1, <2>2, <4>2 DEF TakenNet
    <3>2. DecidedFor(s, f, info.net[f]) /\ DecidedFor(s, f, seen.netNew[f])
      BY <2>2, EditDecides DEF InfoDecided
    <3>3. QED
      BY <3>1, <3>2
  <2>3. QED
    BY <2>1, <2>2
<1>3. QED
  BY <1>1, <1>2 DEF InfoDecided

LEMMA ReleasedDecided ==
    ASSUME NEW info \in SiteInfo, NEW log \in Log, NEW status \in Dealt,
           InfoDecided(log.site, info),
           \E c \in cases : /\ c.id = log.case
                           /\ c.site = log.site
                           /\ c.net = log.net
                           /\ c.status = status
    PROVE  InfoDecided(log.site, Released(info, log, status))
<1> DEFINE new == Released(info, log, status)
<1>1. new.net = Applied(info.net, log, status) /\ new.netNew = info.netNew
  BY DEF Released, SiteInfo
<1>2. ASSUME NEW f \in Fields
      PROVE  DecidedFor(log.site, f, new.net[f])
  <2>1. CASE status = "agreed"
    <3>1. log.net # None
      BY NoneAssumption DEF Log
    <3>2. new.net = log.net
      BY <1>1, <2>1 DEF Applied
    <3>3. QED
      BY <2>1, <3>1, <3>2 DEF DecidedFor
  <2>2. CASE status # "agreed"
    BY <1>1, <2>2 DEF Applied, InfoDecided
  <2>3. QED
    BY <2>1, <2>2
<1>3. QED
  BY <1>1, <1>2 DEF InfoDecided

LEMMA StoredDecided ==
    ASSUME NEW seen \in SiteInfo, NEW c \in Edit, InfoDecided(c.site, seen), UpdateEdited(c)
    PROVE  InfoDecided(c.site, Stored(seen, c))
<1>1. /\ Stored(seen, c).net = seen.net
      /\ Stored(seen, c).netNew = IF c.net = None THEN seen.netNew ELSE c.net
  BY DEF Stored, SiteInfo
<1>2. QED
  BY <1>1 DEF InfoDecided, UpdateEdited

LEMMA LockedDecided ==
    ASSUME NEW s, NEW info \in SiteInfo, InfoDecided(s, info)
    PROVE  InfoDecided(s, [info EXCEPT !.editable = FALSE])
  BY DEF InfoDecided, SiteInfo

-----------------------------------------------------------------------------
(* The invariant                                                           *)

LEMMA InitInv == Init => IInv
<1> SUFFICES ASSUME Init
             PROVE  IInv
  OBVIOUS
<1>1. TypeOK
  BY InitType
<1>2. ASSUME NEW s \in Sites
      PROVE  InfoDecided(s, local[s])
  BY <1>2 DEF Init, InfoDecided, DecidedFor
<1>3. \A t \in Threads : req[t] = None
  BY DEF Init
<1>4. QED
  BY <1>1, <1>2, <1>3 DEF Init, IInv, IdsUnique, LogsHaveCases, LocalDecided, RequestsDecided,
                          At, TaskDecided, TaskAt

LEMMA LogsStep ==
    ASSUME IInv, [Next]_vars, Kept
    PROVE  LogsHaveCases'
<1>1. ASSUME NEW t \in Users, UpdateSiteLog(t)
      PROVE  LogsHaveCases'
  <2>1. HasCase(req[t].case, req[t].site, req[t].net)
    BY <1>1 DEF IInv, RequestsDecided, UpdateSiteLog, Threads
  <2> DEFINE new == [case |-> req[t].case, site |-> req[t].site, net |-> req[t].net,
                     status |-> "no deal"]
  <2>2. logs' = logs \cup {new}
    BY <1>1 DEF UpdateSiteLog
  <2>3. HasCase(new.case, new.site, new.net)
    BY <2>1
  <2> HIDE DEF new
  <2>4. QED
    BY <2>2, <2>3, CaseStays DEF IInv, LogsHaveCases
<1>2. CASE UpdateChangeLog
  <2>1. ASSUME NEW k \in logs'
        PROVE  \E l \in logs : k.case = l.case /\ k.site = l.site /\ k.net = l.net
    <3>1. PICK l \in logs :
                k = IF l.case = task.log.case THEN [l EXCEPT !.status = task.status] ELSE l
      BY <1>2 DEF UpdateChangeLog
    <3>2. l \in Log
      BY DEF IInv, TypeOK
    <3>3. QED
      BY <3>1, <3>2 DEF Log
  <2>2. QED
    BY <2>1, CaseStays DEF IInv, LogsHaveCases
<1>3. CASE UNCHANGED logs
  BY <1>3, CaseStays DEF IInv, LogsHaveCases
<1>4. QED
  BY <1>1, <1>2, <1>3 DEF Next, vars, UserStep, UpdateSiteCheck, AcceptIpModifyRead,
        AcceptIpModifyInsert, UpdateSiteLock, TakeOverRead, TakeOverWrite, DeciderStep,
        DealIpModifyRead, DealIpModifyCommit, EditorStep, UpdatePartyRead, UpdatePartyCommit,
        TaskStep, StartRound, QueryIpModify, UpdateSiteInfo, QueryUpdateIpModify, MarkSynced,
        SafeSaveRead, SafeSaveWrite, EndRound, RequestFails, TaskFails

LEMMA LocalStep ==
    ASSUME IInv, [Next]_vars, Kept, TypeOK'
    PROVE  LocalDecided'
<1> USE DEF IInv, TypeOK
<1>1. ASSUME NEW s \in Sites, NEW info,
             local' = [local EXCEPT ![s] = info], InfoDecided(s, info)
      PROVE  LocalDecided'
  <2>1. ASSUME NEW q \in Sites
        PROVE  InfoDecided(q, local[q])'
    <3>1. PICK new : new = local'[q]
      OBVIOUS
    <3>2. InfoDecided(q, new)
      BY <1>1, <3>1 DEF LocalDecided
    <3>3. InfoDecided(q, new)'
      BY <3>2, InfoStays
    <3>4. QED
      BY <3>1, <3>3 DEF InfoDecided, DecidedFor, HasEdit
  <2>2. QED
    BY <2>1 DEF LocalDecided
<1>2. ASSUME NEW t \in Users, UpdateSiteLock(t)
      PROVE  LocalDecided'
  <2> t \in Threads
    BY DEF Threads
  <2>1. req[t].site \in Sites
    BY <1>2, RequestAt DEF UpdateSiteLock
  <2>2. InfoDecided(req[t].site, [local[req[t].site] EXCEPT !.editable = FALSE])
    BY <2>1, LockedDecided DEF LocalDecided
  <2>3. local' = [local EXCEPT ![req[t].site] = [local[req[t].site] EXCEPT !.editable = FALSE]]
    BY <1>2 DEF UpdateSiteLock
  <2>4. QED
    BY <1>1, <2>1, <2>2, <2>3
<1>3. ASSUME NEW t \in Users, TakeOverWrite(t)
      PROVE  LocalDecided'
  <2> t \in Threads
    BY DEF Threads
  <2>1. req[t].site \in Sites /\ req[t].seen \in SiteInfo
    BY <1>3, RequestAt DEF TakeOverWrite
  <2>2. InfoDecided(req[t].site, req[t].seen)
    BY <1>3 DEF TakeOverWrite, RequestsDecided
  <2>3. InfoDecided(req[t].site, TakenOver(local[req[t].site], req[t].seen))
    BY <2>1, <2>2, TakenOverDecided DEF LocalDecided
  <2>4. QED
    BY <1>1, <1>3, <2>1, <2>3 DEF TakeOverWrite
<1>4. CASE UpdateSiteInfo
  <2>1. task.log \in Log /\ task.status \in Dealt
    BY <1>4, TaskAtPlace DEF UpdateSiteInfo
  <2>2. task.log.site \in Sites
    BY <2>1 DEF Log
  <2>3. \E c \in cases : /\ c.id = task.log.case
                        /\ c.site = task.log.site
                        /\ c.net = task.log.net
                        /\ c.status = task.status
    BY <1>4 DEF UpdateSiteInfo, TaskDecided
  <2>4. InfoDecided(task.log.site, Released(local[task.log.site], task.log, task.status))
    BY <2>1, <2>2, <2>3, ReleasedDecided DEF LocalDecided
  <2>5. QED
    BY <1>1, <1>4, <2>2, <2>4 DEF UpdateSiteInfo
<1>5. CASE SafeSaveWrite
  <2>1. task.update \in Edit /\ task.seen \in SiteInfo
    BY <1>5, TaskAtPlace DEF SafeSaveWrite
  <2>2. task.update.site \in Sites
    BY <2>1 DEF Edit
  <2>3. InfoDecided(task.update.site, Stored(task.seen, task.update))
    BY <1>5, <2>1, StoredDecided DEF SafeSaveWrite, TaskDecided
  <2>4. QED
    BY <1>1, <1>5, <2>2, <2>3 DEF SafeSaveWrite
<1>6. CASE UNCHANGED local
  BY <1>6, InfoStays DEF LocalDecided
<1>7. QED
  BY <1>2, <1>3, <1>4, <1>5, <1>6 DEF Next, vars, UserStep, UpdateSiteCheck, AcceptIpModifyRead,
        AcceptIpModifyInsert, UpdateSiteLog, TakeOverRead, DeciderStep,
        DealIpModifyRead, DealIpModifyCommit, EditorStep, UpdatePartyRead, UpdatePartyCommit,
        TaskStep, StartRound, QueryIpModify, UpdateChangeLog, QueryUpdateIpModify, MarkSynced,
        SafeSaveRead, EndRound, RequestFails, TaskFails

\* What a request of the FATE Manager needs to know.
Known(r) ==
    /\ r # None /\ r.at = "answered" => HasCase(r.case, r.site, r.net)
    /\ r # None /\ r.at = "take" => InfoDecided(r.site, r.seen)

LEMMA KnownStays ==
    ASSUME Kept, NEW r, Known(r)
    PROVE  Known(r)'
  BY CaseStays, InfoStays DEF Known

LEMMA RequestsStep ==
    ASSUME IInv, [Next]_vars, Kept
    PROVE  RequestsDecided'
<1> USE DEF IInv, TypeOK
<1>1. \A t \in Threads : Known(req[t])
  BY DEF RequestsDecided, Known, At
<1>2. ASSUME NEW t \in Threads, NEW r, Go(t, r), Known(r)'
      PROVE  RequestsDecided'
  <2>1. ASSUME NEW u \in Threads
        PROVE  Known(req[u])'
    <3>1. PICK new : new = req'[u]
      OBVIOUS
    <3>2. new = IF u = t THEN r ELSE req[u]
      BY <1>2, <3>1 DEF Go
    <3>3. CASE u = t
      BY <1>2, <3>1, <3>2, <3>3 DEF Known, HasCase, InfoDecided, DecidedFor, HasEdit
    <3>4. CASE u # t
      <4>1. Known(new)'
        BY <1>1, <3>2, <3>4, KnownStays
      <4>2. QED
        BY <3>1, <4>1 DEF Known, HasCase, InfoDecided, DecidedFor, HasEdit
    <3>5. QED
      BY <3>3, <3>4
  <2>2. QED
    BY <2>1 DEF RequestsDecided, Known, At
<1>3. ASSUME NEW t \in Users, AcceptIpModifyInsert(t)
      PROVE  RequestsDecided'
  <2> t \in Threads
    BY DEF Threads
  <2>1. req[t] \in [at: {"read"}, site: Sites, net: Net, old: Net]
    BY <1>3, RequestAt DEF AcceptIpModifyInsert
  <2>2. PICK n \in 1..MaxRows, s \in Sites, net \in Net, old \in Net :
            /\ cases' = cases \cup {[id |-> n, site |-> s, old |-> old, net |-> net,
                                     exchange |-> None, status |-> "no deal"]}
            /\ Go(t, [at |-> "answered", site |-> s, net |-> net, case |-> n])
    BY <1>3, <2>1 DEF AcceptIpModifyInsert
  <2> DEFINE row == [id |-> n, site |-> s, old |-> old, net |-> net,
                     exchange |-> None, status |-> "no deal"]
             r == [at |-> "answered", site |-> s, net |-> net, case |-> n]
  <2>3. row \in Case
    BY DEF Case
  <2>4. \E c \in cases' : c.id = n /\ c.site = s /\ c.net = net /\ c \in Case
    BY <2>2, <2>3
  <2>5. Known(r)'
    BY <2>4 DEF Known, HasCase
  <2>6. QED
    BY <1>2, <2>2, <2>5
<1>4. ASSUME NEW t \in Users, NEW s \in Sites, TakeOverRead(t, s)
      PROVE  RequestsDecided'
  <2> t \in Threads
    BY DEF Threads
  <2> DEFINE r == [at |-> "take", site |-> s, seen |-> local[s]]
  <2>1. Known(r)
    BY DEF Known, LocalDecided
  <2>2. Go(t, r)
    BY <1>4 DEF TakeOverRead
  <2> HIDE DEF r
  <2>3. QED
    BY <1>2, <2>1, <2>2, KnownStays
<1>5. ASSUME NEW t \in Threads, NEW r, Go(t, r), r = None \/ r.at \notin {"answered", "take"}
      PROVE  RequestsDecided'
  <2>1. Known(r)'
    BY <1>5 DEF Known
  <2>2. QED
    BY <1>2, <1>5, <2>1
<1>6. CASE UNCHANGED req
  BY <1>1, <1>6, KnownStays DEF RequestsDecided, Known, At
<1>7. ASSUME NEW t \in Users, UserStep(t)
      PROVE  RequestsDecided'
  <2> t \in Threads
    BY DEF Threads
  <2>1. ASSUME NEW s \in Sites, NEW n \in Net, UpdateSiteCheck(t, s, n)
        PROVE  RequestsDecided'
    <3>1. Go(t, [at |-> "posted", site |-> s, net |-> n])
      BY <2>1 DEF UpdateSiteCheck
    <3>2. QED
      BY <1>5, <3>1
  <2>2. CASE AcceptIpModifyRead(t)
    <3>1. Go(t, [at |-> "read", site |-> req[t].site, net |-> req[t].net,
                 old |-> Shown(cloud[req[t].site])])
      BY <2>2 DEF AcceptIpModifyRead
    <3>2. QED
      BY <1>5, <3>1
  <2>3. CASE UpdateSiteLog(t)
    <3>1. Go(t, [at |-> "logged", site |-> req[t].site])
      BY <2>3 DEF UpdateSiteLog
    <3>2. QED
      BY <1>5, <3>1
  <2>4. CASE UpdateSiteLock(t) \/ TakeOverWrite(t)
    BY <1>5, <2>4 DEF UpdateSiteLock, TakeOverWrite
  <2>5. QED
    BY <1>3, <1>4, <1>7, <2>1, <2>2, <2>3, <2>4, ChoiceType DEF UserStep
<1>8. ASSUME NEW t \in Deciders, DeciderStep(t)
      PROVE  RequestsDecided'
  <2> t \in Threads
    BY DEF Threads
  <2>1. ASSUME NEW c \in cases, NEW v \in Dealt, DealIpModifyRead(t, c, v)
        PROVE  RequestsDecided'
    <3>1. Go(t, [at |-> "deal", case |-> c, verdict |-> v])
      BY <2>1 DEF DealIpModifyRead
    <3>2. QED
      BY <1>5, <3>1
  <2>2. CASE DealIpModifyCommit(t)
    BY <1>5, <2>2 DEF DealIpModifyCommit
  <2>3. QED
    BY <1>8, <2>1, <2>2 DEF DeciderStep
<1>9. ASSUME NEW t \in Editors, EditorStep(t)
      PROVE  RequestsDecided'
  <2> t \in Threads
    BY DEF Threads
  <2>1. ASSUME NEW s \in Sites, NEW n \in Net, NEW x \in Exchanges, UpdatePartyRead(t, s, n, x)
        PROVE  RequestsDecided'
    <3>1. Go(t, [at |-> "edit", site |-> s, net |-> n, exchange |-> x, seen |-> cloud[s]])
      BY <2>1 DEF UpdatePartyRead
    <3>2. QED
      BY <1>5, <3>1
  <2>2. CASE UpdatePartyCommit(t)
    BY <1>5, <2>2 DEF UpdatePartyCommit
  <2>3. QED
    BY <1>9, <2>1, <2>2, ChoiceType DEF EditorStep
<1>10. ASSUME NEW t \in Threads, RequestFails(t)
       PROVE  RequestsDecided'
  BY <1>5, <1>10 DEF RequestFails
<1>11. CASE TaskStep \/ TaskFails \/ UNCHANGED vars
  BY <1>6, <1>11 DEF vars, TaskStep, StartRound, QueryIpModify, UpdateChangeLog, UpdateSiteInfo,
        QueryUpdateIpModify, MarkSynced, SafeSaveRead, SafeSaveWrite, EndRound, TaskFails
<1>12. QED
  BY <1>7, <1>8, <1>9, <1>10, <1>11 DEF Next

\* What the task needs to know, the todo list, the answer and the updates.
TodoKnown(S) == \A l \in S : HasCase(l.case, l.site, l.net)
AnswerKnown(l, status) ==
    \E c \in cases : c.id = l.case /\ c.site = l.site /\ c.net = l.net /\ c.status = status
UpdatesKnown(S) == \A c \in S : UpdateEdited(c)

LEMMA TodoStays ==
    ASSUME Kept, NEW S, TodoKnown(S)
    PROVE  TodoKnown(S)'
<1>1. ASSUME NEW l \in S
      PROVE  HasCase(l.case, l.site, l.net)'
  BY CaseStays DEF TodoKnown
<1>2. QED
  BY <1>1 DEF TodoKnown

LEMMA AnswerStays ==
    ASSUME Kept, NEW l, NEW status \in Dealt, AnswerKnown(l, status)
    PROVE  AnswerKnown(l, status)'
  BY DEF Kept, Follows, AnswerKnown

LEMMA UpdateStays ==
    ASSUME Kept, NEW c, UpdateEdited(c)
    PROVE  UpdateEdited(c)'
  BY EditStays DEF UpdateEdited

LEMMA UpdatesStay ==
    ASSUME Kept, NEW S, UpdatesKnown(S)
    PROVE  UpdatesKnown(S)'
<1>1. ASSUME NEW c \in S
      PROVE  UpdateEdited(c)'
  BY UpdateStays DEF UpdatesKnown
<1>2. QED
  BY <1>1 DEF UpdatesKnown

TaskKnown(k) ==
    k # None =>
        /\ k.at \in {"logs", "log", "site"} => TodoKnown(k.todo)
        /\ k.at \in {"log", "site"} => AnswerKnown(k.log, k.status)
        /\ k.at \in {"fetched", "store", "save"} => UpdatesKnown(k.updates)
        /\ k.at = "save" => UpdateEdited(k.update) /\ InfoDecided(k.update.site, k.seen)

LEMMA TaskKnownStays ==
    ASSUME Kept, NEW k \in Maybe(TaskState), TaskKnown(k)
    PROVE  TaskKnown(k)'
<1> SUFFICES ASSUME k # None
             PROVE  TaskKnown(k)'
  BY DEF TaskKnown
<1>1. ASSUME k.at \in {"logs", "log", "site"}
      PROVE  TodoKnown(k.todo)'
  BY <1>1, TodoStays DEF TaskKnown
<1>2. ASSUME k.at \in {"log", "site"}
      PROVE  AnswerKnown(k.log, k.status)'
  <2>1. k.status \in Dealt
    BY <1>2 DEF Maybe, TaskState
  <2>2. QED
    BY <1>2, <2>1, AnswerStays DEF TaskKnown
<1>3. ASSUME k.at \in {"fetched", "store", "save"}
      PROVE  UpdatesKnown(k.updates)'
  BY <1>3, UpdatesStay DEF TaskKnown
<1>4. ASSUME k.at = "save"
      PROVE  UpdateEdited(k.update)' /\ InfoDecided(k.update.site, k.seen)'
  BY <1>4, UpdateStays, InfoStays DEF TaskKnown
<1>5. QED
  BY <1>1, <1>2, <1>3, <1>4 DEF TaskKnown

LEMMA TaskKnownDecided ==
    /\ TaskDecided => TaskKnown(task)
    /\ TaskKnown(task)' => TaskDecided'
<1>1. TaskDecided <=> TaskKnown(task)
  BY DEF TaskDecided, TaskKnown, TaskAt, TodoKnown, AnswerKnown, UpdatesKnown
<1>2. TaskDecided' <=> TaskKnown(task)'
  BY DEF TaskDecided, TaskKnown, TaskAt, TodoKnown, AnswerKnown, UpdatesKnown
<1>3. QED
  BY <1>1, <1>2

\* All steps but MarkSynced know already what they put into the task.
LEMMA TaskStepKnows ==
    ASSUME IInv, TaskStep \/ TaskFails
    PROVE  \E k : k = task' /\ TaskKnown(k)
<1> USE DEF IInv, TypeOK
<1>1. TaskKnown(task)
  BY TaskKnownDecided
<1>2. CASE StartRound
  <2>1. TodoKnown({l \in logs : l.status = "no deal"})
    BY DEF TodoKnown, LogsHaveCases
  <2>2. /\ task'.at = "logs"
        /\ task'.todo = {l \in logs : l.status = "no deal"}
    BY <1>2 DEF StartRound
  <2>3. QED
    BY <2>1, <2>2 DEF TaskKnown
<1>3. CASE QueryIpModify
  <2>1. PICK l \in task.todo, c \in cases :
            /\ c.id = l.case
            /\ task' = IF IsAnswer(c.status)
                       THEN [at |-> "log", todo |-> task.todo \ {l}, log |-> l, status |-> c.status]
                       ELSE [at |-> "logs", todo |-> task.todo \ {l}]
    BY <1>3 DEF QueryIpModify
  <2>2. TodoKnown(task.todo)
    BY <1>1, <1>3 DEF QueryIpModify, TaskAt, TaskKnown
  <2>3. TodoKnown(task.todo \ {l})
    BY <2>2 DEF TodoKnown
  <2>4. AnswerKnown(l, c.status)
    BY <2>1, <2>2 DEF TodoKnown, HasCase, AnswerKnown, IdsUnique
  <2>5. CASE IsAnswer(c.status)
    <3>1. /\ task'.at = "log"
          /\ task'.todo = task.todo \ {l}
          /\ task'.log = l
          /\ task'.status = c.status
      BY <2>1, <2>5
    <3>2. QED
      BY <2>3, <2>4, <3>1 DEF TaskKnown
  <2>6. CASE ~ IsAnswer(c.status)
    <3>1. task'.at = "logs" /\ task'.todo = task.todo \ {l}
      BY <2>1, <2>6
    <3>2. QED
      BY <2>3, <3>1 DEF TaskKnown
  <2>7. QED
    BY <2>5, <2>6
<1>4. CASE UpdateChangeLog
  <2>1. task \in [at: {"log", "site"}, todo: SUBSET Log, log: Log, status: Dealt]
    BY <1>4, TaskAtPlace DEF UpdateChangeLog
  <2>2. /\ task'.at = "site"
        /\ task'.todo = task.todo
        /\ task'.log = task.log
        /\ task'.status = task.status
    BY <1>4, <2>1 DEF UpdateChangeLog
  <2>3. QED
    BY <1>1, <1>4, <2>2 DEF UpdateChangeLog, TaskAt, TaskKnown
<1>5. CASE UpdateSiteInfo
  BY <1>1, <1>5 DEF UpdateSiteInfo, TaskAt, TaskKnown
<1>6. CASE QueryUpdateIpModify
  <2>1. UpdatesKnown(LastUpdates)
    BY DEF UpdatesKnown, UpdateEdited, HasEdit, LastUpdates, Unsynced, Edited
  <2>2. QED
    BY <1>6, <2>1 DEF QueryUpdateIpModify, TaskKnown
<1>7. CASE MarkSynced
  <2>1. task \in [at: {"fetched", "store"}, updates: SUBSET Edit]
    BY <1>7, TaskAtPlace DEF MarkSynced
  <2>2. task'.at = "store" /\ task'.updates = task.updates
    BY <1>7, <2>1 DEF MarkSynced
  <2>3. QED
    BY <1>1, <1>7, <2>2 DEF MarkSynced, TaskAt, TaskKnown
<1>8. CASE SafeSaveRead
  <2>1. task \in [at: {"fetched", "store"}, updates: SUBSET Edit]
    BY <1>8, TaskAtPlace DEF SafeSaveRead
  <2>2. PICK c \in task.updates :
            task' = [at |-> "save", updates |-> task.updates \ {c}, update |-> c,
                     seen |-> local[c.site]]
    BY <1>8 DEF SafeSaveRead
  <2>3. UpdatesKnown(task.updates)
    BY <1>1, <1>8 DEF SafeSaveRead, TaskAt, TaskKnown
  <2>4. UpdatesKnown(task.updates \ {c}) /\ UpdateEdited(c)
    BY <2>3 DEF UpdatesKnown
  <2>5. InfoDecided(c.site, local[c.site])
    BY <2>1 DEF Edit, LocalDecided
  <2>6. QED
    BY <2>2, <2>4, <2>5 DEF TaskKnown
<1>9. CASE SafeSaveWrite
  BY <1>1, <1>9 DEF SafeSaveWrite, TaskAt, TaskKnown
<1>10. CASE EndRound
  BY <1>10 DEF EndRound, TaskKnown
<1>11. CASE TaskFails
  BY <1>11 DEF TaskFails, TaskKnown, TodoKnown
<1>12. QED
  BY <1>2, <1>3, <1>4, <1>5, <1>6, <1>7, <1>8, <1>9, <1>10, <1>11 DEF TaskStep

LEMMA TaskDecidedStep ==
    ASSUME IInv, [Next]_vars, Kept, TypeOK'
    PROVE  TaskDecided'
<1>1. PICK k : k = task' /\ TaskKnown(k)
  <2>1. CASE TaskStep \/ TaskFails
    BY <2>1, TaskStepKnows
  <2>2. CASE UNCHANGED task
    BY <2>2, TaskKnownDecided DEF IInv
  <2>3. QED
    BY <2>1, <2>2 DEF Next, vars, UserStep, UpdateSiteCheck, AcceptIpModifyRead,
        AcceptIpModifyInsert, UpdateSiteLog, UpdateSiteLock, TakeOverRead, TakeOverWrite,
        DeciderStep, DealIpModifyRead, DealIpModifyCommit, EditorStep, UpdatePartyRead,
        UpdatePartyCommit, RequestFails
<1>2. k \in Maybe(TaskState)
  BY <1>1 DEF TypeOK
<1>3. TaskKnown(k)'
  BY <1>1, <1>2, TaskKnownStays
<1>4. TaskKnown(task)'
  BY <1>1, <1>3 DEF TaskKnown, TodoKnown, AnswerKnown, UpdatesKnown, UpdateEdited, HasCase,
                    HasEdit, InfoDecided, DecidedFor
<1>5. QED
  BY <1>4, TaskKnownDecided

LEMMA NextInv ==
    ASSUME IInv, [Next]_vars
    PROVE  IInv'
<1>1. TypeOK'
  BY NextType DEF IInv
<1>2. Kept /\ IdsUnique'
  BY StepKeeps DEF IInv
<1>3. LogsHaveCases' /\ LocalDecided' /\ RequestsDecided' /\ TaskDecided'
  BY <1>1, <1>2, LogsStep, LocalStep, RequestsStep, TaskDecidedStep
<1>4. QED
  BY <1>1, <1>2, <1>3 DEF IInv

\* A FATE Manager uses no setting that Cloud Manager has not decided on, with
\* any number of users, administrators, losses and restarts.
THEOREM SettingsAreDecided == Spec => []UsedIsDecided
<1>1. Init => IInv
  BY InitInv
<1>2. IInv /\ [Next]_vars => IInv'
  BY NextInv
<1>3. IInv => UsedIsDecided
  BY DEF IInv, LocalDecided, InfoDecided, UsedIsDecided
<1>4. QED
  BY <1>1, <1>2, <1>3, PTL DEF Spec

-----------------------------------------------------------------------------
(* Both managers agree.  A case of a site is under way from its insertion  *)
(* to the write of the FATE Manager that applies it.  There is one at a    *)
(* time, because the site is locked meanwhile, so that what the request    *)
(* has read of the site in Cloud Manager, and what the decision is applied *)
(* to, is what the FATE Manager has.                                       *)

\* One user of the FATE Manager and one administrator who decides.
OneEach ==
    /\ \A t, u \in Users : t = u
    /\ \A t, u \in Deciders : t = u

\* Cloud Manager has edited s itself.
HandEdited(s) == \E c \in cases : c.site = s /\ c.status \in Edited

\* The cases of s that are not yet through: decided, in the change log with
\* their decision, and applied.
Asked == {c \in cases : c.status \notin Edited}
Logged(c) == \E l \in logs : l.case = c.id /\ l.status = c.status /\ c.status \in Dealt
Applying(c) == TaskAt("site") /\ task.log.case = c.id
Live(s) == {c \in Asked : c.site = s /\ (Logged(c) => Applying(c))}

\* The change log says of each case once what became of it.
LogsAgree ==
    /\ \A l \in logs, c \in cases : l.case = c.id /\ l.status \in Dealt => l.status = c.status
    /\ \A l, m \in logs : l.case = m.case => l = m

\* What a request knows that is not about one site.
RequestsAgree ==
    /\ \A t \in Users : At(t, "answered") => \A l \in logs : l.case # req[t].case
    /\ \A t \in Deciders : At(t, "deal") => req[t].case \in OpenCases

\* The task treats logs that wait for a decision, and each only once.
TaskAgrees ==
    /\ TaskAt("logs") \/ TaskAt("log") \/ TaskAt("site") =>
        \A l \in task.todo : l \in logs /\ l.status = "no deal"
    /\ TaskAt("log") =>
        task.log \in logs /\ task.log.status = "no deal" /\ task.log \notin task.todo
    /\ TaskAt("site") => \E l \in logs : l.case = task.log.case /\ l.status = task.status
    /\ TaskAt("fetched") \/ TaskAt("store") \/ TaskAt("save") =>
        \A c \in task.updates : HandEdited(c.site)
    /\ TaskAt("save") => HandEdited(task.update.site)

\* The user asks about s only while no case of s is under way, and what the
\* request has read of s in Cloud Manager is what there is.
Asking(s) ==
    \A t \in Users :
        /\ (At(t, "posted") \/ At(t, "read")) /\ req[t].site = s => Live(s) = {}
        /\ At(t, "read") /\ req[t].site = s => req[t].old = Shown(cloud[s])

\* A site with a case under way is locked, or about to be.
Locked(s) ==
    Live(s) # {} => \/ ~ local[s].editable
                    \/ \E t \in Users : (At(t, "answered") \/ At(t, "logged")) /\ req[t].site = s

\* The case changes no more than the secure status, and that to the polling
\* status: dealIpModify leaves the party alone.
LeavesParty(c) == c.net = [c.old EXCEPT !.secure = c.old.polling]

\* Both managers have the settings of s, but for a case that was overlooked, and
\* for one that Cloud Manager has agreed to and the FATE Manager has not applied.
SameSettings(s) ==
    /\ cloud[s].net = Shown(cloud[s])
    /\ (\A c \in Live(s) : c.status # "agreed") =>
        local[s].net = Shown(cloud[s]) \/ Overlooked(s)
    /\ \A c \in Live(s) :
        /\ c.status = "no deal" => c.old = Shown(cloud[s])
        /\ c.status = "agreed" =>
            c.net = Shown(cloud[s]) \/ (c.old = Shown(cloud[s]) /\ LeavesParty(c))

InStep(s) ==
    /\ \A c, d \in Live(s) : c = d
    /\ Asking(s)
    /\ Locked(s)
    /\ SameSettings(s)

InAgreement ==
    /\ LogsAgree
    /\ RequestsAgree
    /\ TaskAgrees
    /\ \A s \in Sites : HandEdited(s) \/ InStep(s)

Agreement == faults = 0 => InAgreement

LEMMA AgreementSettles ==
    ASSUME IInv, Agreement
    PROVE  SettledAgree
<1> SUFFICES ASSUME faults = 0, NEW s \in Sites, Settled(s)
             PROVE  /\ cloud[s].net = Shown(cloud[s])
                    /\ local[s].net = cloud[s].net \/ Overlooked(s)
  BY DEF SettledAgree
<1>1. \A c \in cases : c.site = s => Logged(c) /\ c.status \in Dealt
  BY DEF Settled, Logged
<1>2. ~ HandEdited(s)
  BY <1>1 DEF HandEdited, Edited, Dealt
<1>3. ASSUME NEW c \in Live(s)
      PROVE  FALSE
  <2>1. c \in cases /\ c.site = s /\ TaskAt("site") /\ task.log.case = c.id
    BY <1>1 DEF Live, Asked, Applying
  <2>2. PICK d \in cases : d.id = task.log.case /\ d.site = task.log.site
    BY <2>1 DEF IInv, TaskDecided
  <2>3. d = c
    BY <2>1, <2>2 DEF IInv, IdsUnique
  <2>4. QED
    BY <2>1, <2>2, <2>3 DEF Settled
<1>4. InStep(s)
  BY <1>2 DEF Agreement, InAgreement
<1>5. QED
  BY <1>3, <1>4 DEF InStep, SameSettings

-----------------------------------------------------------------------------
(* What stays when a step does not concern it                              *)

LEMMA HandStays ==
    ASSUME Kept, NEW s, HandEdited(s)
    PROVE  HandEdited(s)'
  BY DEF Kept, Follows, HandEdited

LEMMA OverlookedStays ==
    ASSUME Kept, NEW s, Overlooked(s), cloud'[s] = cloud[s], local'[s].net = local[s].net
    PROVE  Overlooked(s)'
<1>1. PICK c \in cases : /\ c.site = s /\ c.status = "agreed"
                        /\ c.net = [c.old EXCEPT !.secure = c.old.polling]
                        /\ c.old = Shown(cloud[s])
                        /\ c.net = local[s].net
  BY DEF Overlooked
<1>2. c \in cases'
  BY <1>1 DEF Kept, Follows, Dealt
<1>3. Shown(cloud[s])' = Shown(cloud[s])
  BY DEF Shown
<1>4. QED
  BY <1>1, <1>2, <1>3 DEF Overlooked

LEMMA SameSettingsStay ==
    ASSUME Kept, NEW s, SameSettings(s), Live(s)' = Live(s),
           cloud'[s] = cloud[s], local'[s].net = local[s].net
    PROVE  SameSettings(s)'
<1>1. Shown(cloud[s])' = Shown(cloud[s])
  BY DEF Shown
<1>2. Overlooked(s) => Overlooked(s)'
  BY OverlookedStays
<1>3. QED
  BY <1>1, <1>2 DEF SameSettings

\* A request that is about a case.
Asks(t) == req[t] # None /\ req[t].at \in {"posted", "read", "answered", "logged"}

LEMMA InStepStays ==
    ASSUME Kept, NEW s \in Sites, InStep(s), Live(s)' = Live(s), cloud'[s] = cloud[s],
           local'[s].net = local[s].net, local'[s].editable = local[s].editable,
           \A t \in Users : Asks(t) \/ Asks(t)' => req'[t] = req[t]
    PROVE  InStep(s)'
<1>1. \A t \in Users, place \in {"posted", "read", "answered", "logged"} :
        (At(t, place) <=> At(t, place)') /\ (At(t, place) => req'[t] = req[t])
  BY DEF Asks, At
<1>2. \A c, d \in Live(s)' : c = d
  BY DEF InStep
<1>3. Asking(s)'
  BY <1>1 DEF InStep, Asking
<1>4. Locked(s)'
  BY <1>1 DEF InStep, Locked
<1>5. SameSettings(s)'
  BY SameSettingsStay DEF InStep
<1>6. QED
  BY <1>2, <1>3, <1>4, <1>5 DEF InStep

LEMMA LiveStays ==
    ASSUME Asked' = Asked, logs' = logs,
           TaskAt("site") \/ TaskAt("site")' => task' = task
    PROVE  \A s : Live(s)' = Live(s)
<1>1. \A c : (Logged(c)' <=> Logged(c)) /\ (Applying(c)' <=> Applying(c))
  BY DEF Logged, Applying, TaskAt
<1>2. QED
  BY <1>1 DEF Live

\* The change log is about rows that keep what was decided.
LEMMA LogsAgreeStays ==
    ASSUME IInv, LogsAgree, Kept, IdsUnique', logs' = logs
    PROVE  LogsAgree'
<1>1. ASSUME NEW l \in logs, NEW d \in cases', l.case = d.id, l.status \in Dealt
      PROVE  l.status = d.status
  <2>1. PICK c \in cases : c.id = l.case
    BY DEF IInv, LogsHaveCases, HasCase
  <2>2. l.status = c.status
    BY <1>1, <2>1 DEF LogsAgree
  <2>3. PICK e \in cases' : Follows(e, c)
    BY DEF Kept
  <2>4. e = d /\ e = c
    BY <1>1, <2>1, <2>2, <2>3 DEF Follows, IdsUnique
  <2>5. QED
    BY <2>2, <2>4
<1>2. QED
  BY <1>1 DEF LogsAgree

LEMMA TaskAgreesStays ==
    ASSUME TaskAgrees, Kept, task' = task, logs \subseteq logs'
    PROVE  TaskAgrees'
  BY HandStays DEF TaskAgrees, TaskAt

-----------------------------------------------------------------------------
(* The steps of a user                                                     *)

\* What every step of the proof assumes.
Given == OneEach /\ IInv /\ Agreement /\ faults = 0 /\ Kept /\ IdsUnique'

\* A step of one request that leaves the rows and the change log.
LEMMA RequestBooks ==
    ASSUME Given, NEW t \in Threads, NEW r, Go(t, r), cases' = cases, logs' = logs, task' = task,
           r # None => r.at # "answered",
           r # None /\ r.at = "deal" => r.case \in OpenCases
    PROVE  LogsAgree' /\ RequestsAgree' /\ TaskAgrees' /\ \A s : Live(s)' = Live(s)
<1>1. LogsAgree' /\ TaskAgrees' /\ \A s : Live(s)' = Live(s)
  <2>1. Asked' = Asked
    BY DEF Given, Asked
  <2>2. QED
    BY <2>1, LogsAgreeStays, TaskAgreesStays, LiveStays DEF Given, Agreement, InAgreement
<1>2. \A u \in Threads : req'[u] = IF u = t THEN r ELSE req[u]
  BY DEF Given, IInv, TypeOK, Go
<1>3. RequestsAgree
  BY DEF Given, Agreement, InAgreement
<1>4. RequestsAgree'
  <2>1. ASSUME NEW u \in Users, At(u, "answered")', NEW l \in logs'
        PROVE  l.case # req'[u].case
    <3>1. u \in Threads /\ req'[u] # None /\ req'[u].at = "answered"
      BY <2>1 DEF At, Threads
    <3>2. req'[u] = req[u] /\ At(u, "answered")
      BY <1>2, <3>1 DEF At
    <3>3. QED
      BY <1>3, <2>1, <3>2 DEF RequestsAgree
  <2>2. ASSUME NEW u \in Deciders, At(u, "deal")'
        PROVE  req'[u].case \in OpenCases'
    <3>1. u \in Threads /\ req'[u] # None /\ req'[u].at = "deal"
      BY <2>2 DEF At, Threads
    <3>2. OpenCases' = OpenCases
      BY DEF OpenCases
    <3>3. CASE u = t
      BY <1>2, <3>1, <3>2, <3>3
    <3>4. CASE u # t
      BY <1>2, <1>3, <3>1, <3>2, <3>4 DEF RequestsAgree, At
    <3>5. QED
      BY <3>3, <3>4
  <2>3. QED
    BY <2>1, <2>2 DEF RequestsAgree
<1>5. QED
  BY <1>1, <1>4

\* The same, of sites whose settings it leaves as well.
LEMMA RequestStays ==
    ASSUME Given, NEW t \in Threads, NEW r, Go(t, r), cases' = cases, task' = task,
           ~ Asks(t), r # None => r.at \notin {"posted", "read", "answered", "logged"},
           \A q : Live(q)' = Live(q),
           NEW s \in Sites, cloud'[s] = cloud[s],
           local'[s].net = local[s].net, local'[s].editable = local[s].editable
    PROVE  HandEdited(s)' \/ InStep(s)'
<1>1. \A u \in Users : Asks(u) \/ Asks(u)' => req'[u] = req[u]
  BY DEF Given, IInv, TypeOK, Go, Asks, Threads
<1>2. CASE HandEdited(s)
  BY <1>2, HandStays DEF Given
<1>3. CASE InStep(s)
  BY <1>1, <1>3, InStepStays DEF Given
<1>4. QED
  BY <1>2, <1>3 DEF Given, Agreement, InAgreement

LEMMA CheckAgrees ==
    ASSUME Given, NEW t \in Users, NEW q \in Sites, NEW n \in Net, UpdateSiteCheck(t, q, n)
    PROVE  InAgreement'
<1> DEFINE r == [at |-> "posted", site |-> q, net |-> n]
<1> t \in Threads
  BY DEF Threads
<1>1. /\ req[t] = None /\ local[q].editable /\ Go(t, r)
      /\ cloud' = cloud /\ cases' = cases /\ local' = local /\ logs' = logs /\ task' = task
  BY DEF UpdateSiteCheck
<1>2. LogsAgree' /\ RequestsAgree' /\ TaskAgrees' /\ \A s : Live(s)' = Live(s)
  BY <1>1, RequestBooks
<1>3. req'[t] = r /\ \A u \in Users : u = t
  BY <1>1 DEF Given, OneEach, IInv, TypeOK, Go
<1>4. ASSUME NEW s \in Sites, InStep(s)
      PROVE  InStep(s)'
  <2>1. \A place : \A u \in Users : ~ At(u, place)
    BY <1>1, <1>3 DEF At
  <2>2. s = q => Live(s) = {}
    BY <1>1, <1>4, <2>1 DEF InStep, Locked
  <2>3. Asking(s)'
    BY <1>2, <1>3, <2>2 DEF Asking, At
  <2>4. Locked(s)'
    BY <1>1, <1>2, <1>4, <2>1 DEF InStep, Locked
  <2>5. SameSettings(s)'
    BY <1>1, <1>2, <1>4, SameSettingsStay DEF InStep, Given
  <2>6. QED
    BY <1>2, <1>4, <2>3, <2>4, <2>5 DEF InStep
<1>5. \A s \in Sites : HandEdited(s)' \/ InStep(s)'
  BY <1>4, HandStays DEF Given, Agreement, InAgreement
<1>6. QED
  BY <1>2, <1>5 DEF InAgreement

LEMMA ReadAgrees ==
    ASSUME Given, NEW t \in Users, AcceptIpModifyRead(t)
    PROVE  InAgreement'
<1> DEFINE q == req[t].site
           r == [at |-> "read", site |-> q, net |-> req[t].net, old |-> Shown(cloud[q])]
<1> t \in Threads
  BY DEF Threads
<1>1. /\ At(t, "posted") /\ Go(t, r)
      /\ cloud' = cloud /\ cases' = cases /\ local' = local /\ logs' = logs /\ task' = task
  BY DEF AcceptIpModifyRead
<1>2. LogsAgree' /\ RequestsAgree' /\ TaskAgrees' /\ \A s : Live(s)' = Live(s)
  BY <1>1, RequestBooks
<1>3. req'[t] = r /\ \A u \in Users : u = t
  BY <1>1 DEF Given, OneEach, IInv, TypeOK, Go
<1>4. ASSUME NEW s \in Sites, InStep(s)
      PROVE  InStep(s)'
  <2>1. s = q => Live(s) = {}
    BY <1>1, <1>4 DEF InStep, Asking
  <2>2. Asking(s)'
    BY <1>1, <1>2, <1>3, <2>1 DEF Asking, At, Shown
  <2>3. ~ At(t, "answered") /\ ~ At(t, "logged")
    BY <1>1 DEF At
  <2>4. Locked(s)'
    BY <1>1, <1>2, <1>3, <1>4, <2>3 DEF InStep, Locked
  <2>5. SameSettings(s)'
    BY <1>1, <1>2, <1>4, SameSettingsStay DEF InStep, Given
  <2>6. QED
    BY <1>2, <1>4, <2>2, <2>4, <2>5 DEF InStep
<1>5. \A s \in Sites : HandEdited(s)' \/ InStep(s)'
  BY <1>4, HandStays DEF Given, Agreement, InAgreement
<1>6. QED
  BY <1>2, <1>5 DEF InAgreement

LEMMA LockAgrees ==
    ASSUME Given, NEW t \in Users, UpdateSiteLock(t)
    PROVE  InAgreement'
<1> DEFINE q == req[t].site
<1> t \in Threads
  BY DEF Threads
<1>1. /\ At(t, "logged") /\ Go(t, None) /\ local' = [local EXCEPT ![q].editable = FALSE]
      /\ cloud' = cloud /\ cases' = cases /\ logs' = logs /\ task' = task
  BY DEF UpdateSiteLock
<1>2. LogsAgree' /\ RequestsAgree' /\ TaskAgrees' /\ \A s : Live(s)' = Live(s)
  BY <1>1, RequestBooks
<1>3. req'[t] = None /\ \A u \in Users : u = t
  BY <1>1 DEF Given, OneEach, IInv, TypeOK, Go
<1>4. q \in Sites /\ local \in [Sites -> SiteInfo]
  BY <1>1, RequestAt DEF Given, IInv, TypeOK
<1>5. /\ ~ local'[q].editable
      /\ \A s \in Sites : local'[s].net = local[s].net
      /\ \A s \in Sites : s # q => local'[s] = local[s]
  BY <1>1, <1>4 DEF SiteInfo
<1>6. ASSUME NEW s \in Sites, InStep(s)
      PROVE  InStep(s)'
  <2>1. Asking(s)'
    BY <1>3 DEF Asking, At
  <2>2. Locked(s)'
    BY <1>1, <1>2, <1>3, <1>5, <1>6 DEF InStep, Locked, At
  <2>3. SameSettings(s)'
    BY <1>1, <1>2, <1>5, <1>6, SameSettingsStay DEF InStep, Given
  <2>4. QED
    BY <1>2, <1>6, <2>1, <2>2, <2>3 DEF InStep
<1>7. \A s \in Sites : HandEdited(s)' \/ InStep(s)'
  BY <1>6, HandStays DEF Given, Agreement, InAgreement
<1>8. QED
  BY <1>2, <1>7 DEF InAgreement

LEMMA TakeAgrees ==
    ASSUME Given, NEW t \in Users, (\E s \in Sites : TakeOverRead(t, s)) \/ TakeOverWrite(t)
    PROVE  InAgreement'
<1> t \in Threads
  BY DEF Threads
<1>1. CASE \E s \in Sites : TakeOverRead(t, s)
  <2>1. PICK q \in Sites : TakeOverRead(t, q)
    BY <1>1
  <2> DEFINE r == [at |-> "take", site |-> q, seen |-> local[q]]
  <2>2. /\ req[t] = None /\ Go(t, r)
        /\ cloud' = cloud /\ cases' = cases /\ local' = local /\ logs' = logs /\ task' = task
    BY <2>1 DEF TakeOverRead
  <2>3. LogsAgree' /\ RequestsAgree' /\ TaskAgrees' /\ \A s : Live(s)' = Live(s)
    BY <2>2, RequestBooks
  <2>4. ~ Asks(t) /\ r.at \notin {"posted", "read", "answered", "logged"}
    BY <2>2 DEF Asks
  <2> HIDE DEF r
  <2>5. \A s \in Sites : HandEdited(s)' \/ InStep(s)'
    BY <2>2, <2>3, <2>4, RequestStays
  <2>6. QED
    BY <2>3, <2>5 DEF InAgreement
<1>2. CASE TakeOverWrite(t)
  <2> DEFINE q == req[t].site
  <2>1. /\ At(t, "take") /\ Go(t, None) /\ local' = [local EXCEPT ![q] = TakenOver(@, req[t].seen)]
        /\ cloud' = cloud /\ cases' = cases /\ logs' = logs /\ task' = task
    BY <1>2 DEF TakeOverWrite
  <2>2. LogsAgree' /\ RequestsAgree' /\ TaskAgrees' /\ \A s : Live(s)' = Live(s)
    BY <2>1, RequestBooks
  <2>3. ~ Asks(t)
    BY <2>1 DEF Asks, At
  <2>4. q \in Sites /\ local \in [Sites -> SiteInfo]
    BY <2>1, RequestAt DEF Given, IInv, TypeOK
  <2>5. InfoDecided(q, req[t].seen)
    BY <2>1 DEF Given, IInv, RequestsDecided
  <2>6. HandEdited(q) \/ req[t].seen.netNew = None
    BY <2>5 DEF InfoDecided, HasEdit, HandEdited
  <2>7. HandEdited(q) \/ /\ local'[q].net = local[q].net
                         /\ local'[q].editable = local[q].editable
    <3>1. local'[q] = TakenOver(local[q], req[t].seen) /\ local[q] \in SiteInfo
      BY <2>1, <2>4
    <3>2. CASE req[t].seen.netNew = None
      BY <3>1, <3>2 DEF TakenOver, TakenNet, SiteInfo
    <3>3. QED
      BY <2>6, <3>2
  <2>8. \A s \in Sites : s # q => local'[s] = local[s]
    BY <2>1, <2>4
  <2>9. ASSUME NEW s \in Sites
        PROVE  HandEdited(s)' \/ InStep(s)'
    <3>1. CASE HandEdited(s)
      BY <3>1, HandStays DEF Given
    <3>2. CASE ~ HandEdited(s)
      <4>1. local'[s].net = local[s].net /\ local'[s].editable = local[s].editable
        BY <2>7, <2>8, <3>2
      <4>2. QED
        BY <2>1, <2>2, <2>3, <4>1, RequestStays
    <3>3. QED
      BY <3>1, <3>2
  <2>10. QED
    BY <2>2, <2>9 DEF InAgreement
<1>3. QED
  BY <1>1, <1>2

\* The case that acceptIpModify inserts is new to the change log, and the only
\* one of its site.
LEMMA InsertAgrees ==
    ASSUME Given, NEW t \in Users, AcceptIpModifyInsert(t)
    PROVE  InAgreement'
<1> t \in Threads
  BY DEF Threads
<1>0. PICK q \in Sites : q = req[t].site
  BY RequestAt DEF AcceptIpModifyInsert, Given, IInv
<1>1. /\ At(t, "read")
      /\ cloud' = cloud /\ local' = local /\ logs' = logs /\ task' = task
  BY DEF AcceptIpModifyInsert
<1>2. PICK n \in 1..MaxRows :
        /\ IsNextId(n)
        /\ cases' = cases \cup {[id |-> n, site |-> q, old |-> req[t].old,
                                 net |-> req[t].net, exchange |-> None, status |-> "no deal"]}
        /\ Go(t, [at |-> "answered", site |-> q, net |-> req[t].net, case |-> n])
  BY <1>0 DEF AcceptIpModifyInsert
<1> DEFINE row == [id |-> n, site |-> q, old |-> req[t].old,
                   net |-> req[t].net, exchange |-> None, status |-> "no deal"]
           r == [at |-> "answered", site |-> q, net |-> req[t].net, case |-> n]
<1>3. req'[t] = r /\ \A u \in Users : u = t
  BY <1>2 DEF Given, OneEach, IInv, TypeOK, Go
<1>3a. r # None
  <2>1. req[t] \in [at: {"read"}, site: Sites, net: Net, old: Net]
    BY <1>1, RequestAt DEF Given, IInv
  <2>2. r \in UserRequest
    BY <2>1 DEF UserRequest
  <2>3. QED
    BY <2>2, IdleAssumption
<1>4. \A l \in logs : l.case # n
  <2>1. \A c \in cases : c.id \in Int /\ c.id < n
    BY <1>2, RowId DEF IsNextId, Given, IInv, TypeOK
  <2>2. \A c \in cases : c.id # n
    BY <2>1, BoundAssumption
  <2>3. QED
    BY <2>2 DEF Given, IInv, LogsHaveCases, HasCase
<1>5. row.status = "no deal" /\ row.site = q /\ row.old = req[t].old /\ row.id = n
  OBVIOUS
<1> HIDE DEF row
<1>6. Asked' = Asked \cup {row} /\ OpenCases' = OpenCases \cup {row}
  BY <1>2, <1>5 DEF Asked, OpenCases, Edited, row
<1>7. \A c : (Logged(c)' <=> Logged(c)) /\ (Applying(c)' <=> Applying(c))
  BY <1>1 DEF Logged, Applying, TaskAt
<1>8. Live(q)' = Live(q) \cup {row} /\ \A s \in Sites : s # q => Live(s)' = Live(s)
  <2>1. ~ Logged(row)
    BY <1>5 DEF Logged, Dealt
  <2>2. QED
    BY <1>5, <1>6, <1>7, <2>1 DEF Live
<1>9. LogsAgree' /\ TaskAgrees'
  BY <1>1, LogsAgreeStays, TaskAgreesStays DEF Given, Agreement, InAgreement
<1>10. RequestsAgree'
  <2>1. \A u \in Users : At(u, "answered")' => \A l \in logs' : l.case # req'[u].case
    BY <1>1, <1>3, <1>4
  <2>2. ASSUME NEW u \in Deciders, At(u, "deal")'
        PROVE  req'[u].case \in OpenCases'
    <3>1. u # t /\ u \in Threads
      BY <1>3, <2>2 DEF At, Threads
    <3>2. req'[u] = req[u] /\ At(u, "deal")
      BY <1>2, <2>2, <3>1 DEF Given, IInv, TypeOK, Go, At
    <3>3. QED
      BY <1>6, <3>2 DEF Given, Agreement, InAgreement, RequestsAgree
  <2>3. QED
    BY <2>1, <2>2 DEF RequestsAgree
<1>11. ASSUME NEW s \in Sites, InStep(s)
       PROVE  InStep(s)'
  <2>1. Asking(s)'
    BY <1>3 DEF Asking, At
  <2>2. CASE s = q
    <3>1. Live(s) = {} /\ req[t].old = Shown(cloud[s])
      BY <1>0, <1>1, <1>11, <2>2 DEF InStep, Asking
    <3>2. Live(s)' = {row}
      BY <1>8, <2>2, <3>1
    <3>3. Locked(s)'
      <4>1. req'[t] # None /\ req'[t].at = "answered" /\ req'[t].site = s
        BY <1>3, <2>2, <1>3a
      <4>2. QED
        BY <4>1 DEF Locked, At
    <3>4. SameSettings(s)'
      <4>1. cloud[s].net = Shown(cloud[s]) /\ Shown(cloud[s])' = Shown(cloud[s])
        BY <1>1, <1>11 DEF InStep, SameSettings, Shown
      <4>2. local'[s].net = Shown(cloud[s]) \/ Overlooked(s)'
        BY <1>1, <1>11, <3>1, OverlookedStays DEF InStep, SameSettings, Given
      <4>3. row.status = "no deal" /\ row.old = Shown(cloud[s])
        BY <1>5, <3>1
      <4>4. QED
        BY <1>1, <3>2, <4>1, <4>2, <4>3 DEF SameSettings
    <3>5. QED
      BY <2>1, <3>2, <3>3, <3>4 DEF InStep
  <2>3. CASE s # q
    <3>1. Live(s)' = Live(s)
      BY <1>8, <2>3
    <3>2. ~ At(t, "answered") /\ ~ At(t, "logged")
      BY <1>1 DEF At
    <3>3. Locked(s)'
      BY <1>0, <1>1, <1>3, <1>11, <2>3, <3>1, <3>2 DEF InStep, Locked
    <3>4. SameSettings(s)'
      BY <1>1, <1>11, <3>1, SameSettingsStay DEF InStep, Given
    <3>5. QED
      BY <1>11, <2>1, <3>1, <3>3, <3>4 DEF InStep
  <2>4. QED
    BY <2>2, <2>3
<1>12. \A s \in Sites : HandEdited(s)' \/ InStep(s)'
  BY <1>11, HandStays DEF Given, Agreement, InAgreement
<1>13. QED
  BY <1>9, <1>10, <1>12 DEF InAgreement

LEMMA LogAgrees ==
    ASSUME Given, NEW t \in Users, UpdateSiteLog(t)
    PROVE  InAgreement'
<1> t \in Threads
  BY DEF Threads
<1>0. PICK q \in Sites : q = req[t].site
  BY RequestAt DEF UpdateSiteLog, Given, IInv
<1> DEFINE log == [case |-> req[t].case, site |-> q, net |-> req[t].net, status |-> "no deal"]
           r == [at |-> "logged", site |-> q]
<1>1. /\ At(t, "answered") /\ Go(t, r) /\ logs' = logs \cup {log}
      /\ cloud' = cloud /\ cases' = cases /\ local' = local /\ task' = task
  BY <1>0 DEF UpdateSiteLog
<1>2. req'[t] = r /\ \A u \in Users : u = t
  BY <1>1 DEF Given, OneEach, IInv, TypeOK, Go
<1>3a. r # None
  BY IdleAssumption DEF UserRequest
<1>3. \A l \in logs : l.case # log.case
  BY <1>1 DEF Given, Agreement, InAgreement, RequestsAgree
<1>4. log.status = "no deal" /\ "no deal" \notin Dealt
  BY DEF Dealt
<1> HIDE DEF log
<1>5. LogsAgree'
  BY <1>1, <1>3, <1>4 DEF Given, Agreement, InAgreement, LogsAgree
<1>6. TaskAgrees'
  BY <1>1, TaskAgreesStays DEF Given, Agreement, InAgreement
<1>7. \A c : (Logged(c)' <=> Logged(c)) /\ (Applying(c)' <=> Applying(c))
  BY <1>1, <1>4 DEF Logged, Applying, TaskAt
<1>8. \A s : Live(s)' = Live(s)
  BY <1>1, <1>7 DEF Live, Asked
<1>9. RequestsAgree'
  <2>1. \A u \in Users : ~ At(u, "answered")'
    BY <1>2 DEF At
  <2>2. ASSUME NEW u \in Deciders, At(u, "deal")'
        PROVE  req'[u].case \in OpenCases'
    <3>1. u # t /\ u \in Threads
      BY <1>2, <2>2 DEF At, Threads
    <3>2. req'[u] = req[u] /\ At(u, "deal")
      BY <1>1, <2>2, <3>1 DEF Given, IInv, TypeOK, Go, At
    <3>3. QED
      BY <1>1, <3>2 DEF Given, Agreement, InAgreement, RequestsAgree, OpenCases
  <2>3. QED
    BY <2>1, <2>2 DEF RequestsAgree
<1>10. ASSUME NEW s \in Sites, InStep(s)
       PROVE  InStep(s)'
  <2>1. Asking(s)'
    BY <1>2 DEF Asking, At
  <2>2. Locked(s)'
    <3>1. CASE s = q
      <4>1. req'[t] # None /\ req'[t].at = "logged" /\ req'[t].site = s
        BY <1>2, <3>1, <1>3a
      <4>2. QED
        BY <4>1 DEF Locked, At
    <3>2. CASE s # q
      BY <1>0, <1>1, <1>2, <1>8, <1>10, <3>2 DEF InStep, Locked, At
    <3>3. QED
      BY <3>1, <3>2
  <2>3. SameSettings(s)'
    BY <1>1, <1>8, <1>10, SameSettingsStay DEF InStep, Given
  <2>4. QED
    BY <1>8, <1>10, <2>1, <2>2, <2>3 DEF InStep
<1>11. \A s \in Sites : HandEdited(s)' \/ InStep(s)'
  BY <1>10, HandStays DEF Given, Agreement, InAgreement
<1>12. QED
  BY <1>5, <1>6, <1>9, <1>11 DEF InAgreement

LEMMA UserAgrees ==
    ASSUME Given, NEW t \in Users, UserStep(t)
    PROVE  InAgreement'
  BY CheckAgrees, ReadAgrees, InsertAgrees, LogAgrees, LockAgrees, TakeAgrees, ChoiceType
     DEF UserStep

-----------------------------------------------------------------------------
(* The steps of an administrator                                           *)

\* What dealIpModify leaves of a site whose party had the settings of the site.
LEMMA AgreedSettings ==
    ASSUME TypeOK, NEW s \in Sites, NEW c \in Case,
           c.old = Shown(cloud[s]), cloud[s].net = Shown(cloud[s])
    PROVE  /\ Agreed(s, c).net = Shown(Agreed(s, c))
           /\ \/ c.net = Shown(Agreed(s, c))
              \/ c.old = Shown(Agreed(s, c)) /\ LeavesParty(c)
<1>1. c.net \in Net /\ c.old \in Net /\ cloud[s].net \in Net
  BY DEF TypeOK, CloudSite, Case
<1>2. CASE RouteTouched(c)
  BY <1>1, <1>2 DEF Agreed, Shown, Net
<1>3. CASE ~ RouteTouched(c)
  <2>1. LeavesParty(c) /\ c.net.entrances = c.old.entrances
    BY <1>1, <1>3 DEF RouteTouched, LeavesParty, Net
  <2>2. Agreed(s, c).net = c.old /\ Agreed(s, c).entrances = c.old.entrances
    BY <1>3, <2>1 DEF Agreed
  <2>3. Shown(Agreed(s, c)) = c.old
    BY <1>1, <2>2 DEF Shown, Net
  <2>4. QED
    BY <2>1, <2>2, <2>3
<1>4. QED
  BY <1>2, <1>3

LEMMA DealReadAgrees ==
    ASSUME Given, NEW t \in Deciders, NEW c \in cases, NEW v \in Dealt, DealIpModifyRead(t, c, v)
    PROVE  InAgreement'
<1> DEFINE r == [at |-> "deal", case |-> c, verdict |-> v]
<1> t \in Threads
  BY DEF Threads
<1>1. /\ req[t] = None /\ c \in OpenCases /\ Go(t, r)
      /\ cloud' = cloud /\ cases' = cases /\ local' = local /\ logs' = logs /\ task' = task
  BY DEF DealIpModifyRead
<1>2. r.at = "deal" /\ r.case = c
  OBVIOUS
<1> HIDE DEF r
<1>3. LogsAgree' /\ RequestsAgree' /\ TaskAgrees' /\ \A s : Live(s)' = Live(s)
  BY <1>1, <1>2, RequestBooks
<1>4. ~ Asks(t) /\ r.at \notin {"posted", "read", "answered", "logged"}
  BY <1>1, <1>2 DEF Asks
<1>5. \A s \in Sites : HandEdited(s)' \/ InStep(s)'
  BY <1>1, <1>3, <1>4, RequestStays
<1>6. QED
  BY <1>3, <1>5 DEF InAgreement

\* The decision meets the case as it was read: only this administrator could
\* have decided it.  If it is agreed, Cloud Manager has the settings of the
\* case, which is still under way.
LEMMA DealAgrees ==
    ASSUME Given, NEW t \in Deciders, DealIpModifyCommit(t)
    PROVE  InAgreement'
<1> t \in Threads
  BY DEF Threads
<1>1. PICK c \in Case, v \in Dealt : c = req[t].case /\ v = req[t].verdict
  BY RequestAt DEF DealIpModifyCommit, DeciderRequest, Given, IInv
<1>2. /\ At(t, "deal") /\ Go(t, None)
      /\ cloud' = IF v = "agreed" THEN [cloud EXCEPT ![c.site] = Agreed(c.site, c)] ELSE cloud
      /\ cases' = {IF r.id = c.id /\ r \in OpenCases THEN [r EXCEPT !.status = v] ELSE r : r \in cases}
      /\ local' = local /\ logs' = logs /\ task' = task
  BY <1>1 DEF DealIpModifyCommit
<1>3. c \in OpenCases /\ c \in cases /\ c.status = "no deal"
  BY <1>1, <1>2 DEF Given, Agreement, InAgreement, RequestsAgree, OpenCases
<1>4. PICK e \in Case : /\ e = [c EXCEPT !.status = v]
                        /\ e.id = c.id /\ e.site = c.site /\ e.old = c.old /\ e.net = c.net
                        /\ e.status = v
  <2> DEFINE e == [c EXCEPT !.status = v]
  <2>1. /\ e \in Case /\ e.id = c.id /\ e.site = c.site /\ e.old = c.old /\ e.net = c.net
        /\ e.status = v
    BY DEF Case
  <2>2. QED
    BY <2>1
<1>5. cases' = (cases \ {c}) \cup {e}
  <2>1. \A r \in cases : r.id = c.id /\ r \in OpenCases <=> r = c
    BY <1>3 DEF Given, IInv, IdsUnique
  <2>2. cases' = {IF r = c THEN e ELSE r : r \in cases}
    BY <1>2, <1>4, <2>1
  <2>3. QED
    BY <1>3, <2>2
<1>6. Asked' = (Asked \ {c}) \cup {e} /\ c \in Asked
  BY <1>3, <1>4, <1>5 DEF Asked, Edited, Dealt
<1>7. \A x : (Logged(x)' <=> Logged(x)) /\ (Applying(x)' <=> Applying(x))
  BY <1>2 DEF Logged, Applying, TaskAt
<1>8. ~ Logged(c) /\ ~ Logged(e)
  <2>1. ~ Logged(c)
    BY <1>3 DEF Logged, Dealt
  <2>2. ASSUME NEW l \in logs, l.case = e.id, l.status = e.status, e.status \in Dealt
        PROVE  FALSE
    <3>1. l.status = c.status
      BY <1>3, <1>4, <2>2 DEF Given, Agreement, InAgreement, LogsAgree
    <3>2. QED
      BY <1>3, <2>2, <3>1 DEF Dealt
  <2>3. QED
    BY <2>1, <2>2 DEF Logged
<1>9. /\ c \in Live(c.site) /\ Live(c.site)' = (Live(c.site) \ {c}) \cup {e}
      /\ \A s \in Sites : s # c.site => Live(s)' = Live(s)
  BY <1>4, <1>6, <1>7, <1>8 DEF Live
<1>10. \A u \in Threads : req'[u] = IF u = t THEN None ELSE req[u]
  BY <1>2 DEF Given, IInv, TypeOK, Go
<1>11. LogsAgree' /\ TaskAgrees'
  BY <1>2, LogsAgreeStays, TaskAgreesStays DEF Given, Agreement, InAgreement
<1>12. RequestsAgree'
  <2>1. ASSUME NEW u \in Users, At(u, "answered")', NEW l \in logs'
        PROVE  l.case # req'[u].case
    <3>1. u \in Threads /\ req'[u] # None
      BY <2>1 DEF At, Threads
    <3>2. req'[u] = req[u]
      BY <1>10, <3>1
    <3>3. At(u, "answered")
      BY <2>1, <3>2 DEF At
    <3>4. QED
      BY <1>2, <3>2, <3>3 DEF Given, Agreement, InAgreement, RequestsAgree
  <2>2. ASSUME NEW u \in Deciders
        PROVE  ~ At(u, "deal")'
    <3>1. u = t
      BY DEF Given, OneEach
    <3>2. QED
      BY <1>10, <3>1 DEF At
  <2>3. QED
    BY <2>1, <2>2 DEF RequestsAgree
<1>13. \A u \in Users : Asks(u) \/ Asks(u)' => req'[u] = req[u]
  <2>1. ~ Asks(t)
    BY <1>2 DEF Asks, At
  <2>2. QED
    BY <1>10, <2>1 DEF Asks, Threads
<1>14. ASSUME NEW s \in Sites, InStep(s)
       PROVE  InStep(s)'
  <2>1. CASE s # c.site
    <3>1. cloud'[s] = cloud[s]
      BY <1>2, <2>1 DEF Given, IInv, TypeOK
    <3>2. QED
      BY <1>2, <1>9, <1>13, <1>14, <2>1, <3>1, InStepStays DEF Given
  <2>2. CASE s = c.site
    <3>1. Live(s) = {c} /\ Live(s)' = {e}
      BY <1>9, <1>14, <2>2 DEF InStep
    <3>2. Asking(s)'
      <4>1. ASSUME NEW u \in Users, At(u, "posted")' \/ At(u, "read")', req'[u].site = s
            PROVE  FALSE
        <5>1. Asks(u)'
          BY <4>1 DEF Asks, At
        <5>2. req'[u] = req[u]
          BY <1>13, <5>1
        <5>3. (At(u, "posted") \/ At(u, "read")) /\ req[u].site = s
          BY <4>1, <5>2 DEF At
        <5>4. Live(s) = {}
          BY <1>14, <5>3 DEF InStep, Asking
        <5>5. QED
          BY <3>1, <5>4
      <4>2. QED
        BY <4>1 DEF Asking
    <3>3. Locked(s)'
      <4>1. CASE ~ local[s].editable
        BY <1>2, <4>1 DEF Locked
      <4>2. CASE \E u \in Users : (At(u, "answered") \/ At(u, "logged")) /\ req[u].site = s
        <5>1. PICK u \in Users : (At(u, "answered") \/ At(u, "logged")) /\ req[u].site = s
          BY <4>2
        <5>2. req'[u] = req[u]
          BY <1>13, <5>1 DEF Asks, At
        <5>3. QED
          BY <5>1, <5>2 DEF Locked, At
      <4>3. QED
        BY <1>14, <3>1, <4>1, <4>2 DEF InStep, Locked
    <3>4. SameSettings(s)'
      <4>1. /\ cloud[s].net = Shown(cloud[s])
            /\ local[s].net = Shown(cloud[s]) \/ Overlooked(s)
            /\ c.old = Shown(cloud[s])
        BY <1>3, <1>14, <3>1 DEF InStep, SameSettings
      <4>2. CASE v = "agreed"
        <5>1. cloud'[s] = Agreed(s, c)
          BY <1>2, <2>2, <4>2 DEF Given, IInv, TypeOK
        <5>2. Shown(cloud[s])' = Shown(Agreed(s, c))
          BY <5>1 DEF Shown
        <5>3. /\ cloud'[s].net = Shown(cloud[s])'
              /\ \/ e.net = Shown(cloud[s])'
                 \/ e.old = Shown(cloud[s])' /\ LeavesParty(e)
          BY <1>4, <4>1, <5>1, <5>2, AgreedSettings DEF Given, IInv, LeavesParty
        <5>4. e.status = "agreed"
          BY <1>4, <4>2
        <5>5. QED
          BY <3>1, <5>3, <5>4 DEF SameSettings
      <4>3. CASE v # "agreed"
        <5>1. cloud' = cloud /\ e.status # "agreed" /\ e.status # "no deal"
          BY <1>2, <1>4, <4>3 DEF Dealt
        <5>2. Shown(cloud[s])' = Shown(cloud[s])
          BY <5>1 DEF Shown
        <5>3. local'[s].net = Shown(cloud[s])' \/ Overlooked(s)'
          BY <1>2, <4>1, <5>1, <5>2, OverlookedStays DEF Given
        <5>4. QED
          BY <3>1, <4>1, <5>1, <5>2, <5>3 DEF SameSettings
      <4>4. QED
        BY <4>2, <4>3
    <3>5. QED
      BY <3>1, <3>2, <3>3, <3>4 DEF InStep
  <2>3. QED
    BY <2>1, <2>2
<1>15. \A s \in Sites : HandEdited(s)' \/ InStep(s)'
  BY <1>14, HandStays DEF Given, Agreement, InAgreement
<1>16. QED
  BY <1>11, <1>12, <1>15 DEF InAgreement

\* A site that is edited is not followed any longer; the others are left alone.
LEMMA EditorAgrees ==
    ASSUME Given, NEW t \in Editors, EditorStep(t)
    PROVE  InAgreement'
<1> t \in Threads
  BY DEF Threads
<1>1. ASSUME NEW q \in Sites, NEW n \in Net, NEW x \in Exchanges, UpdatePartyRead(t, q, n, x)
      PROVE  InAgreement'
  <2>1. PICK r : /\ r.at = "edit" /\ req[t] = None /\ Go(t, r)
                 /\ cloud' = cloud /\ cases' = cases /\ local' = local /\ logs' = logs /\ task' = task
    BY <1>1 DEF UpdatePartyRead
  <2>2. LogsAgree' /\ RequestsAgree' /\ TaskAgrees' /\ \A s : Live(s)' = Live(s)
    BY <2>1, RequestBooks
  <2>3. ~ Asks(t) /\ r.at \notin {"posted", "read", "answered", "logged"}
    BY <2>1 DEF Asks
  <2>4. \A s \in Sites : HandEdited(s)' \/ InStep(s)'
    BY <2>1, <2>2, <2>3, RequestStays
  <2>5. QED
    BY <2>2, <2>4 DEF InAgreement
<1>2. CASE UpdatePartyCommit(t)
  <2> DEFINE d == Differing(req[t].net, req[t].exchange, req[t].seen)
  <2>1. PICK q \in Sites : q = req[t].site
    BY <1>2, RequestAt DEF UpdatePartyCommit, EditorRequest, Given, IInv
  <2>2. /\ At(t, "edit") /\ Go(t, None) /\ local' = local /\ logs' = logs /\ task' = task
    BY <1>2 DEF UpdatePartyCommit
  <2>3. ~ Asks(t)
    BY <2>2 DEF Asks, At
  <2>4. CASE d = NoFields
    <3>1. cloud' = cloud /\ cases' = cases
      BY <1>2, <2>4 DEF UpdatePartyCommit
    <3>2. LogsAgree' /\ RequestsAgree' /\ TaskAgrees' /\ \A s : Live(s)' = Live(s)
      BY <2>2, <3>1, RequestBooks
    <3>3. \A s \in Sites : HandEdited(s)' \/ InStep(s)'
      BY <2>2, <2>3, <3>1, <3>2, RequestStays
    <3>4. QED
      BY <3>2, <3>3 DEF InAgreement
  <2>5. CASE d # NoFields
    <3>1. PICK row : row.site = q /\ row.status = "not synced" /\ cases' = cases \cup {row}
      BY <1>2, <2>1, <2>5 DEF UpdatePartyCommit
    <3>2. \A s \in Sites : s # q => cloud'[s] = cloud[s]
      BY <1>2, <2>1, <2>5 DEF UpdatePartyCommit, Given, IInv, TypeOK
    <3>3. HandEdited(q)'
      BY <3>1 DEF HandEdited, Edited
    <3>4. \A s : Live(s)' = Live(s)
      <4>1. Asked' = Asked
        BY <3>1 DEF Asked, Edited
      <4>2. QED
        BY <2>2, <4>1, LiveStays
    <3>5. LogsAgree' /\ TaskAgrees'
      BY <2>2, LogsAgreeStays, TaskAgreesStays DEF Given, Agreement, InAgreement
    <3>6. \A u \in Threads : req'[u] = IF u = t THEN None ELSE req[u]
      BY <2>2 DEF Given, IInv, TypeOK, Go
    <3>7. RequestsAgree'
      <4>1. ASSUME NEW u \in Threads, NEW place, At(u, place)'
            PROVE  req'[u] = req[u] /\ At(u, place)
        BY <3>6, <4>1 DEF At
      <4>2. OpenCases \subseteq OpenCases'
        BY <3>1 DEF OpenCases
      <4>3. QED
        BY <2>2, <4>1, <4>2 DEF Given, Agreement, InAgreement, RequestsAgree, Threads
    <3>8. \A u \in Users : Asks(u) \/ Asks(u)' => req'[u] = req[u]
      BY <2>3, <3>6 DEF Asks, Threads
    <3>9. \A s \in Sites : HandEdited(s)' \/ InStep(s)'
      BY <2>2, <3>2, <3>3, <3>4, <3>8, HandStays, InStepStays DEF Given, Agreement, InAgreement
    <3>10. QED
      BY <3>5, <3>7, <3>9 DEF InAgreement
  <2>6. QED
    BY <2>4, <2>5
<1>3. QED
  BY <1>1, <1>2, ChoiceType DEF EditorStep

-----------------------------------------------------------------------------
(* The steps of the task                                                   *)

\* The task leaves the requests and does not open or decide a case.
LEMMA TaskBooks ==
    ASSUME Given, req' = req, OpenCases' = OpenCases,
           \A l \in logs' : \E k \in logs : k.case = l.case
    PROVE  RequestsAgree'
  BY DEF Given, Agreement, InAgreement, RequestsAgree, At

LEMMA TaskStays ==
    ASSUME Given, req' = req, NEW s \in Sites, Live(s)' = Live(s), cloud'[s] = cloud[s],
           HandEdited(s) \/ /\ local'[s].net = local[s].net
                            /\ local'[s].editable = local[s].editable
    PROVE  HandEdited(s)' \/ InStep(s)'
<1>1. CASE HandEdited(s)
  BY <1>1, HandStays DEF Given
<1>2. CASE ~ HandEdited(s)
  BY <1>2, InStepStays DEF Given, Agreement, InAgreement
<1>3. QED
  BY <1>1, <1>2

\* A step that changes only where the task is.
LEMMA TaskMoves ==
    ASSUME Given, UNCHANGED <<cloud, cases, local, logs, req>>,
           ~ TaskAt("site"), ~ TaskAt("site")', TaskAgrees'
    PROVE  InAgreement'
<1>1. \A s : Live(s)' = Live(s)
  <2>1. Asked' = Asked
    BY DEF Asked
  <2>2. QED
    BY <2>1, LiveStays
<1>2. LogsAgree'
  BY LogsAgreeStays DEF Given, Agreement, InAgreement
<1>3. RequestsAgree'
  BY TaskBooks DEF OpenCases
<1>4. \A s \in Sites : HandEdited(s)' \/ InStep(s)'
  BY <1>1, TaskStays
<1>5. QED
  BY <1>2, <1>3, <1>4 DEF InAgreement

\* The log of the task is about a case of its site.
LEMMA TaskCase ==
    ASSUME Given, TaskAt("log") \/ TaskAt("site")
    PROVE  /\ task.log.site \in Sites /\ task.status \in Dealt
           /\ \E c \in Asked : /\ c.id = task.log.case
                               /\ c.site = task.log.site
                               /\ c.net = task.log.net
                               /\ c.status = task.status
<1>1. task.log \in Log /\ task.status \in Dealt
  BY TaskAtPlace DEF Given, IInv
<1>2. PICK c \in cases : /\ c.id = task.log.case
                         /\ c.site = task.log.site
                         /\ c.net = task.log.net
                         /\ c.status = task.status
  BY DEF Given, IInv, TaskDecided
<1>3. c \in Asked
  BY <1>1, <1>2 DEF Asked, Dealt, Edited
<1>4. QED
  BY <1>1, <1>2, <1>3 DEF Log

LEMMA RoundAgrees ==
    ASSUME Given, StartRound \/ QueryIpModify
    PROVE  InAgreement'
<1>1. UNCHANGED <<cloud, cases, local, logs, req>> /\ ~ TaskAt("site")
  BY DEF StartRound, QueryIpModify, TaskAt
<1>2. CASE StartRound
  <2>1. task' = [at |-> "logs", todo |-> {l \in logs : l.status = "no deal"}]
    BY <1>2 DEF StartRound
  <2>2. TaskAgrees' /\ ~ TaskAt("site")'
    BY <1>1, <2>1 DEF TaskAgrees, TaskAt
  <2>3. QED
    BY <1>1, <2>2, TaskMoves
<1>3. CASE QueryIpModify
  <2>1. TaskAt("logs") /\ \A l \in task.todo : l \in logs /\ l.status = "no deal"
    BY <1>3 DEF QueryIpModify, Given, Agreement, InAgreement, TaskAgrees
  <2>2. PICK l \in task.todo, c \in cases :
            task' = IF IsAnswer(c.status)
                    THEN [at |-> "log", todo |-> task.todo \ {l}, log |-> l, status |-> c.status]
                    ELSE [at |-> "logs", todo |-> task.todo \ {l}]
    BY <1>3 DEF QueryIpModify
  <2>3. TaskAgrees' /\ ~ TaskAt("site")'
    <3>1. CASE IsAnswer(c.status)
      BY <1>1, <2>1, <2>2, <3>1 DEF TaskAgrees, TaskAt
    <3>2. CASE ~ IsAnswer(c.status)
      BY <1>1, <2>1, <2>2, <3>2 DEF TaskAgrees, TaskAt
    <3>3. QED
      BY <3>1, <3>2
  <2>4. QED
    BY <1>1, <2>3, TaskMoves
<1>4. QED
  BY <1>2, <1>3

\* The case whose decision is logged is still to be applied.
LEMMA ChangeLogAgrees ==
    ASSUME Given, UpdateChangeLog
    PROVE  InAgreement'
<1>1. /\ TaskAt("log") /\ task' = [task EXCEPT !.at = "site"]
      /\ logs' = {IF l.case = task.log.case THEN [l EXCEPT !.status = task.status] ELSE l : l \in logs}
      /\ cloud' = cloud /\ cases' = cases /\ local' = local /\ req' = req
  BY DEF UpdateChangeLog
<1>2. PICK c \in Asked : c.id = task.log.case /\ c.status = task.status
  BY <1>1, TaskCase
<1>3. task.status \in Dealt /\ LogsAgree /\ TaskAgrees
  BY <1>1, TaskCase DEF Given, Agreement, InAgreement
<1>4. /\ task.log \in logs /\ task.log.status = "no deal" /\ task.log \notin task.todo
      /\ \A l \in task.todo : l \in logs /\ l.status = "no deal"
  BY <1>1, <1>3 DEF TaskAgrees
<1>5. \A l \in logs : l.case = task.log.case <=> l = task.log
  BY <1>3, <1>4 DEF LogsAgree
<1>6. PICK new : /\ new.case = task.log.case /\ new.status = task.status
                 /\ logs' = (logs \ {task.log}) \cup {new}
  <2> DEFINE new == [task.log EXCEPT !.status = task.status]
  <2>1. logs' = {IF l = task.log THEN new ELSE l : l \in logs}
    BY <1>1, <1>5
  <2>2. new.case = task.log.case /\ new.status = task.status
    BY <1>4 DEF Given, IInv, TypeOK, Log
  <2> HIDE DEF new
  <2>3. logs' = (logs \ {task.log}) \cup {new}
    BY <1>4, <2>1
  <2>4. QED
    BY <2>2, <2>3
<1>7. LogsAgree'
  <2>1. \A d \in cases : d.id = task.log.case => d.status = task.status
    BY <1>2 DEF Asked, Given, IInv, IdsUnique
  <2>2. QED
    BY <1>1, <1>3, <1>5, <1>6, <2>1 DEF LogsAgree
<1>8. /\ task'.at = "site" /\ task'.todo = task.todo /\ task'.log = task.log
      /\ task'.status = task.status /\ TaskAt("site")'
  <2> DEFINE states == [at: {"log", "site"}, todo: SUBSET Log, log: Log, status: Dealt]
  <2>1. task \in states /\ task' \in states /\ task'.at = "site"
    BY <1>1, TaskAtPlace DEF Given, IInv
  <2>2. /\ task'.todo = task.todo /\ task'.log = task.log /\ task'.status = task.status
    BY <1>1, <2>1
  <2>3. task' # None
    BY <2>1, IdleAssumption DEF TaskState
  <2>4. QED
    BY <2>1, <2>2, <2>3 DEF TaskAt
<1>9. TaskAgrees'
  BY <1>3, <1>4, <1>6, <1>8 DEF TaskAgrees, TaskAt
<1>10. RequestsAgree'
  <2>1. \A l \in logs' : \E k \in logs : k.case = l.case
    BY <1>4, <1>6
  <2>2. QED
    BY <1>1, <2>1, TaskBooks DEF OpenCases
<1>11. \A s \in Sites : Live(s)' = Live(s)
  <2>1. Asked' = Asked
    BY <1>1 DEF Asked
  <2>2. ASSUME NEW d \in Asked
        PROVE  (Logged(d)' => Applying(d)') <=> (Logged(d) => Applying(d))
    <3>1. CASE d.id = task.log.case
      <4>1. ~ Logged(d)
        BY <1>4, <1>5, <3>1 DEF Logged, Dealt
      <4>2. Applying(d)'
        BY <1>8, <3>1 DEF Applying
      <4>3. QED
        BY <4>1, <4>2
    <3>2. CASE d.id # task.log.case
      <4>1. Logged(d)' <=> Logged(d)
        BY <1>6, <3>2 DEF Logged
      <4>2. ~ Applying(d)' /\ ~ Applying(d)
        BY <1>8, <3>2 DEF Applying
      <4>3. QED
        BY <4>1, <4>2
    <3>3. QED
      BY <3>1, <3>2
  <2>3. QED
    BY <2>1, <2>2 DEF Live
<1>12. \A s \in Sites : HandEdited(s)' \/ InStep(s)'
  BY <1>1, <1>11, TaskStays
<1>13. QED
  BY <1>7, <1>9, <1>10, <1>12 DEF InAgreement

\* The FATE Manager applies the decision to what both managers had before it.
LEMMA SiteInfoAgrees ==
    ASSUME Given, UpdateSiteInfo
    PROVE  InAgreement'
<1> DEFINE q == task.log.site
<1>1. /\ TaskAt("site") /\ task' = [at |-> "logs", todo |-> task.todo]
      /\ local' = [local EXCEPT ![q] = Released(@, task.log, task.status)]
      /\ cloud' = cloud /\ cases' = cases /\ logs' = logs /\ req' = req
  BY DEF UpdateSiteInfo
<1>2. PICK c \in Asked : /\ c.id = task.log.case /\ c.site = q
                         /\ c.net = task.log.net /\ c.status = task.status
  BY <1>1, TaskCase
<1>3. q \in Sites /\ task.status \in Dealt /\ local \in [Sites -> SiteInfo]
  BY <1>1, TaskCase DEF Given, IInv, TypeOK
<1>4. \A d \in Asked : d.id = task.log.case <=> d = c
  BY <1>2 DEF Asked, Given, IInv, IdsUnique
<1>5. /\ \A l \in task.todo : l \in logs /\ l.status = "no deal"
      /\ \E l \in logs : l.case = task.log.case /\ l.status = task.status
  BY <1>1 DEF Given, Agreement, InAgreement, TaskAgrees
<1>6. TaskAgrees' /\ LogsAgree' /\ RequestsAgree'
  <2>1. TaskAgrees'
    BY <1>1, <1>5 DEF TaskAgrees, TaskAt
  <2>2. QED
    BY <1>1, <2>1, LogsAgreeStays, TaskBooks DEF Given, Agreement, InAgreement, OpenCases
<1>7. Logged(c) /\ \A d : (Logged(d)' <=> Logged(d)) /\ ~ Applying(d)'
  BY <1>1, <1>2, <1>3, <1>5 DEF Logged, Applying, TaskAt
<1>8. Asked' = Asked /\ \A d \in Asked : Applying(d) <=> d = c
  BY <1>1, <1>4 DEF Asked, Applying
<1>9. c \in Live(q) /\ \A s \in Sites : Live(s)' = Live(s) \ {c}
  BY <1>2, <1>7, <1>8 DEF Live
<1>10. /\ local'[q].net = IF task.status = "agreed" THEN task.log.net ELSE local[q].net
       /\ \A s \in Sites : s # q => local'[s] = local[s]
  BY <1>1, <1>3 DEF Released, Applied, SiteInfo
<1>11. ASSUME NEW s \in Sites, InStep(s), s = q
       PROVE  InStep(s)'
  <2>1. Live(s) = {c} /\ Live(s)' = {}
    BY <1>9, <1>11 DEF InStep
  <2>2. Asking(s)'
    BY <1>1, <1>11, <2>1 DEF InStep, Asking, At, Shown
  <2>3. local'[s].net = Shown(cloud[s]) \/ Overlooked(s)'
    <3>1. CASE task.status = "agreed"
      <4>1. c.status = "agreed" /\ c \in cases /\ c.site = s /\ local'[s].net = c.net
        BY <1>2, <1>10, <1>11, <3>1 DEF Asked
      <4>2. \/ c.net = Shown(cloud[s])
            \/ c.old = Shown(cloud[s]) /\ LeavesParty(c)
        BY <1>11, <2>1, <4>1 DEF InStep, SameSettings
      <4>3. Shown(cloud[s])' = Shown(cloud[s])
        BY <1>1 DEF Shown
      <4>4. QED
        BY <1>1, <4>1, <4>2, <4>3 DEF LeavesParty, Overlooked
    <3>2. CASE task.status # "agreed"
      <4>1. local'[s].net = local[s].net /\ c.status # "agreed"
        BY <1>2, <1>10, <1>11, <3>2
      <4>2. local[s].net = Shown(cloud[s]) \/ Overlooked(s)
        BY <1>11, <2>1, <4>1 DEF InStep, SameSettings
      <4>3. QED
        BY <1>1, <4>1, <4>2, OverlookedStays DEF Given
    <3>3. QED
      BY <3>1, <3>2
  <2>4. SameSettings(s)'
    <3>1. cloud[s].net = Shown(cloud[s]) /\ Shown(cloud[s])' = Shown(cloud[s])
      BY <1>1, <1>11 DEF InStep, SameSettings, Shown
    <3>2. QED
      BY <1>1, <2>1, <2>3, <3>1 DEF SameSettings
  <2>5. QED
    BY <2>1, <2>2, <2>4 DEF InStep, Locked
<1>12. ASSUME NEW s \in Sites, s # q
       PROVE  HandEdited(s)' \/ InStep(s)'
  <2>1. Live(s)' = Live(s)
    BY <1>2, <1>9, <1>12 DEF Live
  <2>2. local'[s] = local[s]
    BY <1>10, <1>12
  <2>3. QED
    BY <1>1, <2>1, <2>2, TaskStays
<1>13. \A s \in Sites : HandEdited(s)' \/ InStep(s)'
  BY <1>11, <1>12, HandStays DEF Given, Agreement, InAgreement
<1>14. QED
  BY <1>6, <1>13 DEF InAgreement

LEMMA UpdatesAgree ==
    ASSUME Given, QueryUpdateIpModify \/ SafeSaveRead \/ EndRound
    PROVE  InAgreement'
<1>1. UNCHANGED <<cloud, cases, local, logs, req>> /\ ~ TaskAt("site")
  BY DEF QueryUpdateIpModify, SafeSaveRead, EndRound, TaskAt
<1>2. \A s : HandEdited(s) => HandEdited(s)'
  BY HandStays DEF Given
<1>3. CASE QueryUpdateIpModify
  <2>1. task' = [at |-> "fetched", updates |-> LastUpdates]
    BY <1>3 DEF QueryUpdateIpModify
  <2>2. \A c \in LastUpdates : HandEdited(c.site)
    BY DEF LastUpdates, Unsynced, HandEdited, Edited
  <2>3. TaskAgrees' /\ ~ TaskAt("site")'
    BY <1>2, <2>1, <2>2 DEF TaskAgrees, TaskAt
  <2>4. QED
    BY <1>1, <2>3, TaskMoves
<1>4. CASE SafeSaveRead
  <2>1. TaskAt("store") /\ \A c \in task.updates : HandEdited(c.site)
    BY <1>4 DEF SafeSaveRead, Given, Agreement, InAgreement, TaskAgrees
  <2>2. PICK c \in task.updates :
            task' = [at |-> "save", updates |-> task.updates \ {c}, update |-> c, seen |-> local[c.site]]
    BY <1>4 DEF SafeSaveRead
  <2>3. TaskAgrees' /\ ~ TaskAt("site")'
    BY <1>2, <2>1, <2>2 DEF TaskAgrees, TaskAt
  <2>4. QED
    BY <1>1, <2>3, TaskMoves
<1>5. CASE EndRound
  <2>1. TaskAgrees' /\ ~ TaskAt("site")'
    BY <1>5 DEF EndRound, TaskAgrees, TaskAt
  <2>2. QED
    BY <1>1, <2>1, TaskMoves
<1>6. QED
  BY <1>3, <1>4, <1>5

LEMMA SyncedAgrees ==
    ASSUME Given, MarkSynced
    PROVE  InAgreement'
<1>1. /\ TaskAt("fetched") /\ task' = [task EXCEPT !.at = "store"]
      /\ cases' = {IF c \in Unsynced THEN [c EXCEPT !.status = "synced"] ELSE c : c \in cases}
      /\ cloud' = cloud /\ local' = local /\ logs' = logs /\ req' = req
  BY DEF MarkSynced
<1>2. Asked' = Asked /\ OpenCases' = OpenCases
  <2>1. \A c \in Unsynced : [c EXCEPT !.status = "synced"].status = "synced"
    BY DEF Given, IInv, TypeOK, Unsynced, Row, Case, Edit
  <2>2. QED
    BY <1>1, <2>1 DEF Asked, OpenCases, Unsynced, Edited
<1>3. task'.at = "store" /\ task'.updates = task.updates
  BY <1>1, TaskAtPlace DEF Given, IInv
<1>4. TaskAgrees' /\ ~ TaskAt("site") /\ ~ TaskAt("site")'
  <2>1. \A c \in task.updates : HandEdited(c.site)'
    BY <1>1, HandStays DEF Given, Agreement, InAgreement, TaskAgrees
  <2>2. QED
    BY <1>1, <1>3, <2>1 DEF TaskAgrees, TaskAt
<1>5. \A s : Live(s)' = Live(s)
  BY <1>1, <1>2, <1>4, LiveStays
<1>6. LogsAgree' /\ RequestsAgree'
  BY <1>1, <1>2, LogsAgreeStays, TaskBooks DEF Given, Agreement, InAgreement
<1>7. \A s \in Sites : HandEdited(s)' \/ InStep(s)'
  BY <1>1, <1>5, TaskStays
<1>8. QED
  BY <1>4, <1>6, <1>7 DEF InAgreement

LEMMA SaveAgrees ==
    ASSUME Given, SafeSaveWrite
    PROVE  InAgreement'
<1> DEFINE q == task.update.site
<1>1. /\ TaskAt("save") /\ task' = [at |-> "store", updates |-> task.updates]
      /\ local' = [local EXCEPT ![q] = Stored(task.seen, task.update)]
      /\ cloud' = cloud /\ cases' = cases /\ logs' = logs /\ req' = req
  BY DEF SafeSaveWrite
<1>2. HandEdited(q) /\ \A c \in task.updates : HandEdited(c.site)
  BY <1>1 DEF Given, Agreement, InAgreement, TaskAgrees
<1>3. TaskAgrees' /\ ~ TaskAt("site") /\ ~ TaskAt("site")'
  <2>1. \A c \in task.updates : HandEdited(c.site)'
    BY <1>2, HandStays DEF Given
  <2>2. QED
    BY <1>1, <2>1 DEF TaskAgrees, TaskAt
<1>4. \A s : Live(s)' = Live(s)
  <2>1. Asked' = Asked
    BY <1>1 DEF Asked
  <2>2. QED
    BY <1>1, <1>3, <2>1, LiveStays
<1>5. LogsAgree' /\ RequestsAgree'
  BY <1>1, LogsAgreeStays, TaskBooks DEF Given, Agreement, InAgreement, OpenCases
<1>6. \A s \in Sites : s # q => local'[s] = local[s]
  BY <1>1 DEF Given, IInv, TypeOK
<1>7. ASSUME NEW s \in Sites
      PROVE  HandEdited(s)' \/ InStep(s)'
  <2>1. HandEdited(s) \/ local'[s] = local[s]
    BY <1>2, <1>6
  <2>2. QED
    BY <1>1, <1>4, <2>1, TaskStays
<1>8. QED
  BY <1>3, <1>5, <1>7 DEF InAgreement

LEMMA TaskStepAgrees ==
    ASSUME Given, TaskStep
    PROVE  InAgreement'
  BY RoundAgrees, ChangeLogAgrees, SiteInfoAgrees, UpdatesAgree, SyncedAgrees, SaveAgrees DEF TaskStep

-----------------------------------------------------------------------------
(* Every step                                                              *)

LEMMA AgreementKept ==
    ASSUME OneEach, IInv, Agreement, [Next]_vars
    PROVE  Agreement'
<1> SUFFICES ASSUME faults' = 0
             PROVE  InAgreement'
  BY DEF Agreement
<1>1. Kept /\ IdsUnique'
  BY StepKeeps DEF IInv
<1>2. faults \in Nat
  BY BoundAssumption DEF IInv, TypeOK
<1>3. CASE faults' = faults
  <2>1. Given
    BY <1>1, <1>3 DEF Given
  <2>2. CASE UNCHANGED vars
    <3>1. UNCHANGED <<cloud, cases, local, logs, req, task>>
      BY <2>2 DEF vars
    <3>2. LogsAgree' /\ RequestsAgree' /\ TaskAgrees'
      BY <2>1, <3>1, LogsAgreeStays, TaskBooks, TaskAgreesStays
         DEF Given, Agreement, InAgreement, OpenCases
    <3>3. \A s : Live(s)' = Live(s)
      BY <3>1, LiveStays DEF Asked
    <3>4. \A s \in Sites : HandEdited(s)' \/ InStep(s)'
      BY <2>1, <3>1, <3>3, TaskStays
    <3>5. QED
      BY <3>2, <3>4 DEF InAgreement
  <2>3. CASE \/ \E t \in Users : UserStep(t)
             \/ \E t \in Deciders : DeciderStep(t)
             \/ \E t \in Editors : EditorStep(t)
             \/ TaskStep
    BY <2>1, <2>3, UserAgrees, DealReadAgrees, DealAgrees, EditorAgrees, TaskStepAgrees DEF DeciderStep
  <2>4. CASE (\E t \in Threads : RequestFails(t)) \/ TaskFails
    BY <1>2, <1>3, <2>4 DEF RequestFails, TaskFails
  <2>5. QED
    BY <2>2, <2>3, <2>4 DEF Next
<1>4. CASE faults' # faults
  <2>1. faults' = faults + 1
    BY <1>4 DEF Next, vars, UserStep, UpdateSiteCheck, AcceptIpModifyRead,
        AcceptIpModifyInsert, UpdateSiteLog, UpdateSiteLock, TakeOverRead, TakeOverWrite,
        DeciderStep, DealIpModifyRead, DealIpModifyCommit, EditorStep, UpdatePartyRead,
        UpdatePartyCommit, TaskStep, StartRound, QueryIpModify, UpdateChangeLog, UpdateSiteInfo,
        QueryUpdateIpModify, MarkSynced, SafeSaveRead, SafeSaveWrite, EndRound, RequestFails,
        TaskFails
  <2>2. QED
    BY <1>2, <2>1
<1>5. QED
  BY <1>3, <1>4

LEMMA AgreementStarts ==
    ASSUME Init
    PROVE  Agreement
<1>1. /\ cases = {} /\ logs = {} /\ task = None /\ \A t \in Threads : req[t] = None
      /\ \A s \in Sites : cloud[s].net = Shown(cloud[s]) /\ local[s].net = Shown(cloud[s])
  BY RegisteredAssumption DEF Init
<1>2. \A s : Live(s) = {}
  BY <1>1 DEF Live, Asked
<1>3. \A place : \A t \in Threads : ~ At(t, place)
  BY <1>1 DEF At
<1>4. LogsAgree /\ RequestsAgree /\ TaskAgrees
  BY <1>1, <1>3 DEF LogsAgree, RequestsAgree, TaskAgrees, TaskAt, Threads
<1>5. \A s \in Sites : InStep(s)
  BY <1>1, <1>2, <1>3 DEF InStep, Asking, Locked, SameSettings, Threads
<1>6. QED
  BY <1>4, <1>5 DEF Agreement, InAgreement

\* A user of the FATE Manager and an administrator of Cloud Manager who work
\* side by side, with the polls in between, leave both managers with the same
\* settings of every site whose cases are through, but for the secure status of
\* one whose last agreed case dealIpModify overlooks: no decision is applied to
\* settings that were not those it was made about.
THEOREM SettledSitesAgree ==
    ASSUME OneEach
    PROVE  Spec => []SettledAgree
<1>1. Init => IInv /\ Agreement
  BY InitInv, AgreementStarts
<1>2. IInv /\ Agreement /\ [Next]_vars => IInv' /\ Agreement'
  BY NextInv, AgreementKept
<1>3. IInv /\ Agreement => SettledAgree
  BY AgreementSettles
<1>4. QED
  BY <1>1, <1>2, <1>3, PTL DEF Spec
=============================================================================
