------------------------ MODULE ExchangeRoute_proofs ------------------------
(***************************************************************************)
(* Theorems about the route tables, for every set of roll sites, parties   *)
(* and threads and every bound on the events.                              *)
(***************************************************************************)
EXTENDS ExchangeRoute, TLAPS

Rows == [Parties -> Maybe(PartyRow)]

-----------------------------------------------------------------------------
(* What is pushed and what is written is of the right kind                 *)

LEMMA RoutedType ==
    ASSUME NEW rows \in Rows, NEW S
    PROVE  Routed(S, rows) \in Table
  BY DEF Routed, Table, Rows, Maybe, PartyRow

LEMMA PushType ==
    ASSUME TypeOK, NEW p \in Parties, NEW row \in PartyRow, NEW R \in SUBSET RollSites
    PROVE  /\ Excluding(p, R) \in SUBSET Push
           /\ Attaching(p, row, R) \in SUBSET Push
           /\ Cleared(R) \in SUBSET Push
<1>1. party \in Rows /\ [party EXCEPT ![p] = row] \in Rows
  BY DEF TypeOK, Rows, Maybe
<1>2. Nothing \in Table
  BY DEF Nothing, Table, Maybe
<1>3. \A r \in R : Routed(On(r) \ {p}, party) \in Table
  BY <1>1, RoutedType
<1>4. \A r \in R : Routed(On(r) \cup {p}, [party EXCEPT ![p] = row]) \in Table
  BY <1>1, RoutedType
<1>5. ASSUME NEW w \in Excluding(p, R)
      PROVE  w \in Push
  <2>1. PICK r \in R : w = [roll |-> r, table |-> Routed(On(r) \ {p}, party)]
    BY DEF Excluding
  <2>2. Routed(On(r) \ {p}, party) \in Table
    BY <1>3
  <2>3. QED
    BY <2>1, <2>2 DEF Push
<1>6. ASSUME NEW w \in Attaching(p, row, R)
      PROVE  w \in Push
  <2>1. PICK r \in R : w = [roll |-> r, table |-> Routed(On(r) \cup {p}, [party EXCEPT ![p] = row])]
    BY DEF Attaching
  <2>2. Routed(On(r) \cup {p}, [party EXCEPT ![p] = row]) \in Table
    BY <1>4
  <2>3. QED
    BY <2>1, <2>2 DEF Push
<1>7. Cleared(R) \in SUBSET Push
  BY <1>2 DEF Cleared, Push
<1>8. QED
  BY <1>5, <1>6, <1>7

LEMMA KeepType ==
    /\ Keep \in Effect
    /\ Keep.rows = Nothing /\ Keep.gone = {} /\ Keep.left = {}
    /\ Keep.joined = Nothing
  BY DEF Keep, Effect, Nothing, Maybe

LEMMA SettledType ==
    ASSUME TypeOK, NEW S
    PROVE  Settled(S) \in Rows
<1>1. ASSUME NEW p \in Parties, party[p] # None
      PROVE  [party[p] EXCEPT !.status = "published"] \in PartyRow
  BY <1>1 DEF TypeOK, PartyRow, Maybe
<1>2. QED
  BY <1>1 DEF Settled, Rows, Maybe

LEMMA MovedType ==
    ASSUME TypeOK, NEW p \in Parties, NEW row \in Maybe(PartyRow),
           NEW from \in SUBSET RollSites, NEW to \in SUBSET RollSites
    PROVE  Moved(p, row, from, to) \in Effect
<1>1. [Settled(OnAny(from \cup to) \ {p}) EXCEPT ![p] = row] \in Rows
  BY SettledType DEF Rows
<1>2. Dropped(from \cup to) \cup (from \X {p}) \in SUBSET Links
  BY DEF Dropped, Links, TypeOK
<1>3. to \X {p} \in SUBSET Links
  BY DEF Links
<1>4. QED
  BY <1>1, <1>2, <1>3, KeepType DEF Moved, Effect, Rows

LEMMA RowTypes ==
    ASSUME TypeOK, NEW p \in Parties, NEW a \in Addresses
    PROVE  /\ [addr |-> a, status |-> "published"] \in PartyRow
           /\ Found(a) \in PartyRow
           /\ party[p] # None =>
                /\ party[p] \in PartyRow
                /\ [party[p] EXCEPT !.status = "reset"] \in PartyRow
                /\ EditedRow(p, a) \in PartyRow
                /\ [EditedRow(p, a) EXCEPT !.status = "published"] \in PartyRow
  BY DEF TypeOK, Maybe, PartyRow, Found, EditedRow

LEMMA TakenOverType ==
    ASSUME NEW row \in PartyRow, NEW a \in Addresses
    PROVE  /\ TakenOver(row, a) \in PartyRow
           /\ row.status # "published" => TakenOver(row, a) = row
           /\ row.status = "published" => TakenOver(row, a).status = "published"
  BY DEF TakenOver, PartyRow

LEMMA BeginType ==
    ASSUME TypeOK, NEW t \in Threads, NEW first \in SUBSET Push, NEW second \in SUBSET Push,
           NEW effect \in Effect, Begin(t, first, second, effect)
    PROVE  TypeOK'
<1>1. [first |-> first, second |-> second, effect |-> effect,
       fresh |-> {p \in Parties : party[p] = None}] \in Request
  BY DEF Request
<1>2. req' \in [Threads -> Maybe(Request)]
  BY <1>1 DEF Begin, TypeOK, Maybe
<1>3. events' \in 0..MaxEvents
  BY BoundAssumption DEF Begin, Idle, Cost, TypeOK
<1>4. mishaps' \subseteq {"failed", "crossed", "forgotten"}
  BY DEF Begin, TypeOK, Forgetting
<1>5. QED
  BY <1>2, <1>3, <1>4 DEF Begin, TypeOK, db

-----------------------------------------------------------------------------
(* The requests                                                            *)

LEMMA BeansType ==
    ASSUME NEW r \in RollSites, NEW B \in Beans(r)
    PROVE  /\ B \in Rows
           /\ Sent(B) \in SUBSET Parties
           /\ \A p \in Sent(B) : B[p] \in PartyRow
  BY DEF Beans, Sent, Rows, Maybe

LEMMA ArrangeType ==
    ASSUME TypeOK, NEW t \in Threads, Arrange(t)
    PROVE  TypeOK'
<1> USE KeepType
<1>1. ASSUME NEW x \in Exchanges, NEW R \in SUBSET RollSites,
             NEW B \in [R -> [Parties -> Maybe(PartyRow)]], AddExchange(t, x, R, B)
      PROVE  TypeOK'
  <2>1. PICK rows \in Rows :
            Begin(t, {}, {}, [Keep EXCEPT !.rows = rows, !.opened = {x},
                    !.homes = [r \in RollSites |-> IF r \in R THEN x ELSE None],
                    !.tied = {l \in R \X Parties : l[2] \in Sent(B[l[1]])}])
    BY <1>1 DEF AddExchange, Rows
  <2>2. [r \in RollSites |-> IF r \in R THEN x ELSE None] \in [RollSites -> Maybe(Exchanges)]
    BY DEF Maybe
  <2>3. {l \in R \X Parties : l[2] \in Sent(B[l[1]])} \in SUBSET Links
    BY DEF Links
  <2>4. [Keep EXCEPT !.rows = rows, !.opened = {x},
                    !.homes = [r \in RollSites |-> IF r \in R THEN x ELSE None],
                    !.tied = {l \in R \X Parties : l[2] \in Sent(B[l[1]])}] \in Effect
    BY <2>2, <2>3 DEF Effect, Rows
  <2>5. QED
    BY <2>1, <2>4, BeginType
<1>2. ASSUME NEW r \in RollSites, NEW x \in Exchanges, NEW B \in Beans(r), AddRollSite(t, r, x, B)
      PROVE  TypeOK'
  <2> DEFINE New == Unsent(x, B)
             given == [p \in Parties |->
                        IF p \in New THEN party[p].addr
                        ELSE IF p \in PublishedOf(B) THEN B[p].addr ELSE None]
             effect == [Keep EXCEPT !.rows = B, !.homes[r] = x, !.tied = {r} \X (Sent(B) \cup New)]
  <2>1. New \in SUBSET Parties /\ \A p \in New : party[p] \in PartyRow
    BY DEF Unsent, TypeOK, Maybe
  <2>2. given \in Table
    BY <2>1, BeansType DEF Table, Maybe, PublishedOf, PartyRow
  <2>3. {r} \X (Sent(B) \cup New) \in SUBSET Links
    BY <2>1, BeansType DEF Links
  <2>4. effect \in Effect
    BY <2>3, BeansType DEF Effect, Rows, Maybe
  <2>5. [roll |-> r, table |-> given] \in Push
    BY <2>2 DEF Push
  <2>6. Begin(t, IF New = {} THEN {} ELSE {[roll |-> r, table |-> given]}, {}, effect)
    BY <1>2 DEF AddRollSite
  <2>7. QED
    BY <2>4, <2>5, <2>6, BeginType
<1>3. ASSUME NEW r \in RollSites, NEW B \in Beans(r), UpdateRollSite(t, r, B)
      PROVE  TypeOK'
  <2>1. {r} \X Sent(B) \in SUBSET Links
    BY BeansType DEF Links
  <2>2. [Keep EXCEPT !.rows = B, !.tied = {r} \X Sent(B)] \in Effect
    BY <2>1, BeansType DEF Effect, Rows
  <2>3. QED
    BY <1>3, <2>2, BeginType DEF UpdateRollSite
<1>4. ASSUME NEW r \in RollSites, PublishRollSite(t, r)
      PROVE  TypeOK'
  <2>1. [roll |-> r, table |-> Routed(On(r), party)] \in Push
    BY RoutedType DEF Push, TypeOK, Rows
  <2>2. Dropped({r}) \in SUBSET Links
    BY DEF Dropped, TypeOK
  <2>3. [Keep EXCEPT !.rows = Settled(On(r)), !.cut = Dropped({r})] \in Effect
    BY <2>2, SettledType DEF Effect, Rows
  <2>4. QED
    BY <1>4, <2>1, <2>3, BeginType DEF PublishRollSite
<1>5. ASSUME NEW R \in SUBSET RollSites
      PROVE  /\ Cleared(R) \in SUBSET Push
             /\ R \X Parties \in SUBSET Links
  <2>1. Nothing \in Table
    BY DEF Nothing, Table, Maybe
  <2>2. QED
    BY <2>1 DEF Cleared, Push, Links
<1>6. ASSUME NEW r \in RollSites, DeleteRollSite(t, r)
      PROVE  TypeOK'
  <2>1. {r} \in SUBSET RollSites
    OBVIOUS
  <2>2. /\ Cleared({r}) \in SUBSET Push
        /\ {r} \X Parties \in SUBSET Links
    BY <2>1, <1>5
  <2>3. [Keep EXCEPT !.cut = {r} \X Parties, !.dropped = {r}] \in Effect
    BY <2>2 DEF Effect
  <2>4. QED
    BY <1>6, <2>2, <2>3, BeginType DEF DeleteRollSite
<1>7. ASSUME NEW x \in Exchanges, DeleteExchange(t, x)
      PROVE  TypeOK'
  <2>1. Managed(x) \in SUBSET RollSites
    BY DEF Managed
  <2>2. [Keep EXCEPT !.cut = Managed(x) \X Parties, !.dropped = Managed(x), !.closed = {x}] \in Effect
    BY <2>1, <1>5 DEF Effect
  <2>3. QED
    BY <1>7, <2>1, <2>2, <1>5, BeginType DEF DeleteExchange
<1>8. ASSUME NEW r \in RollSites, QueryExchange(t, r)
      PROVE  TypeOK'
  <2> DEFINE given == {p \in Parties : table[r][p] # None}
             rows == [p \in Parties |->
                    IF p \in given \cap On(r) /\ party[p].addr # table[r][p]
                    THEN TakenOver(party[p], table[r][p])
                    ELSE IF p \in given /\ party[p] = None THEN Found(table[r][p])
                    ELSE None]
             cut == {r} \X {p \in On(r) \ given : party[p].status = "published"}
             effect == [Keep EXCEPT !.rows = rows, !.tied = {r} \X given, !.cut = cut]
  <2>1. ASSUME NEW p \in given
        PROVE  table[r][p] \in Addresses
    BY DEF TypeOK, Table, Maybe
  <2>2. ASSUME NEW p \in given, party[p] # None
        PROVE  TakenOver(party[p], table[r][p]) \in PartyRow
    BY <2>1, <2>2, TakenOverType DEF TypeOK, Maybe
  <2>3. ASSUME NEW p \in given
        PROVE  Found(table[r][p]) \in PartyRow
    BY <2>1, RowTypes
  <2>4. rows \in Rows
    BY <2>2, <2>3 DEF Rows, Maybe, On
  <2>5. {r} \X given \in SUBSET Links /\ cut \in SUBSET Links
    BY DEF Links, On
  <2>6. effect \in Effect
    <3> HIDE DEF rows, given, cut
    <3> QED
      BY <2>4, <2>5 DEF Effect, Rows
  <2>7. Begin(t, {}, {}, effect)
    BY <1>8 DEF QueryExchange
  <2>8. QED
    BY <2>6, <2>7, BeginType
<1>9. ASSUME NEW R \in SUBSET RollSites, NEW B \in [R -> UNION {Beans(r) : r \in R}]
      PROVE  B \in [R -> [Parties -> Maybe(PartyRow)]]
  BY BeansType DEF Rows
<1>10. QED
  BY <1>1, <1>2, <1>3, <1>4, <1>6, <1>7, <1>8, <1>9 DEF Arrange

LEMMA EffectUpdates ==
    ASSUME NEW effect \in Effect, NEW p \in Parties, NEW j \in Maybe(JoinedSite),
           NEW P \in SUBSET Parties
    PROVE  /\ [effect EXCEPT !.joined[p] = j] \in Effect
           /\ [effect EXCEPT !.left = P] \in Effect
           /\ [effect EXCEPT !.gone = P, !.left = P] \in Effect
           /\ [effect EXCEPT !.cut = @ \cup (RollSites \X {p}), !.joined[p] = j] \in Effect
<1>1. RollSites \X {p} \in SUBSET Links
  BY DEF Links
<1>2. [effect EXCEPT !.joined[p] = j] \in Effect
  BY DEF Effect
<1>3. [effect EXCEPT !.left = P] \in Effect
  BY DEF Effect
<1>4. [effect EXCEPT !.gone = P, !.left = P] \in Effect
  BY DEF Effect
<1>5. [effect EXCEPT !.cut = @ \cup (RollSites \X {p}), !.joined[p] = j] \in Effect
  BY <1>1 DEF Effect
<1>6. QED
  BY <1>2, <1>3, <1>4, <1>5

LEMMA ChangeType ==
    ASSUME TypeOK, NEW t \in Threads, NEW p \in Parties
    PROVE  /\ Reset(t, p) => TypeOK'
           /\ DeleteSite(t, p) => TypeOK'
           /\ \A a \in Addresses : UpdatePartyInfo(t, p, a) \/ EditAddress(t, p, a) => TypeOK'
           /\ \A a \in Addresses, x \in Exchanges :
                Activate(t, p, x, a) \/ EditExchange(t, p, x, a) => TypeOK'
<1>1. /\ RollsOf(p) \in SUBSET RollSites
      /\ \A x : Managed(x) \in SUBSET RollSites
      /\ {} \in SUBSET RollSites /\ {p} \in SUBSET Parties /\ {} \in SUBSET Push
  BY DEF RollsOf, Managed
<1>2. ASSUME NEW a \in Addresses, Joined(p)
      PROVE  [site[p] EXCEPT !.addr = a] \in Maybe(JoinedSite)
  BY <1>2 DEF TypeOK, Joined, JoinedSite, Maybe
<1>3. ASSUME NEW a \in Addresses, NEW x \in Exchanges
      PROVE  [exchange |-> x, addr |-> a] \in Maybe(JoinedSite)
  BY DEF JoinedSite, Maybe
<1>4. ASSUME Reset(t, p)
      PROVE  TypeOK'
  <2> DEFINE row == [party[p] EXCEPT !.status = "reset"]
  <2>1. row \in Maybe(PartyRow)
    BY <1>4 DEF Reset, TypeOK, Maybe, PartyRow
  <2>2. [Moved(p, row, RollsOf(p), {}) EXCEPT !.left = {p}] \in Effect
    BY <1>1, <2>1, MovedType, EffectUpdates DEF Maybe
  <2>3. Excluding(p, RollsOf(p)) \in SUBSET Push
    <3>1. PICK some \in PartyRow : TRUE
      BY <1>4 DEF Reset, TypeOK, Maybe
    <3>2. QED
      BY <1>1, <3>1, PushType
  <2>4. QED
    BY <1>1, <1>4, <2>2, <2>3, BeginType DEF Reset
<1>5. ASSUME DeleteSite(t, p)
      PROVE  TypeOK'
  <2> DEFINE from == IF Joined(p) THEN RollsOf(p) ELSE {}
  <2>1. from \in SUBSET RollSites
    BY <1>1
  <2>2. party[p] \in PartyRow
    BY <1>5 DEF DeleteSite, TypeOK, Maybe
  <2>3. Moved(p, None, from, {}) \in Effect
    BY <1>1, <2>1, MovedType DEF Maybe
  <2>4. [Moved(p, None, from, {}) EXCEPT !.gone = {p}, !.left = {p}] \in Effect
    BY <1>1, <2>3, EffectUpdates DEF Maybe
  <2>5. Excluding(p, from) \in SUBSET Push
    BY <2>1, <2>2, PushType
  <2>6. QED
    BY <1>1, <1>5, <2>4, <2>5, BeginType DEF DeleteSite
<1>6. ASSUME NEW a \in Addresses, UpdatePartyInfo(t, p, a)
      PROVE  TypeOK'
  <2> DEFINE row == [addr |-> a, status |-> "published"]
  <2>1. row \in PartyRow
    BY RowTypes
  <2>2. [Keep EXCEPT !.rows[p] = row, !.joined[p] = [site[p] EXCEPT !.addr = a]] \in Effect
    BY <1>2, <1>6, <2>1, KeepType DEF UpdatePartyInfo, Effect, Maybe
  <2>3. Attaching(p, row, RollsOf(p)) \in SUBSET Push
    BY <1>1, <2>1, PushType
  <2>4. QED
    BY <1>1, <1>6, <2>2, <2>3, BeginType DEF UpdatePartyInfo
<1>7. ASSUME NEW a \in Addresses, EditAddress(t, p, a)
      PROVE  TypeOK'
  <2>1. EditedRow(p, a) \in PartyRow /\ [EditedRow(p, a) EXCEPT !.status = "published"] \in PartyRow
    BY <1>7, RowTypes DEF EditAddress
  <2>2. [Keep EXCEPT !.rows[p] = EditedRow(p, a), !.joined[p] = [site[p] EXCEPT !.addr = a]] \in Effect
    BY <1>2, <1>7, <2>1, KeepType DEF EditAddress, Effect, Maybe
  <2>3. Attaching(p, [EditedRow(p, a) EXCEPT !.status = "published"],
                  Managed(site[p].exchange)) \in SUBSET Push
    BY <1>1, <2>1, PushType
  <2>4. QED
    BY <1>1, <1>7, <2>2, <2>3, BeginType DEF EditAddress
<1>8. ASSUME NEW a \in Addresses, NEW x \in Exchanges, Activate(t, p, x, a)
      PROVE  TypeOK'
  <2> DEFINE row == [addr |-> a, status |-> "published"]
             from == IF party[p] = None THEN {} ELSE RollsOf(p)
  <2>1. row \in PartyRow /\ row \in Maybe(PartyRow) /\ from \in SUBSET RollSites
    BY <1>1, RowTypes DEF Maybe
  <2>2. Moved(p, row, from, Managed(x)) \in Effect
    BY <1>1, <2>1, MovedType
  <2>3. [Moved(p, row, from, Managed(x)) EXCEPT !.joined[p] = [exchange |-> x, addr |-> a]] \in Effect
    BY <1>1, <1>3, <2>2, EffectUpdates
  <2>4. Excluding(p, from) \in SUBSET Push /\ Attaching(p, row, Managed(x)) \in SUBSET Push
    BY <1>1, <2>1, PushType
  <2>5. QED
    BY <1>8, <2>3, <2>4, BeginType DEF Activate
<1>9. ASSUME NEW a \in Addresses, NEW x \in Exchanges, EditExchange(t, p, x, a)
      PROVE  TypeOK'
  <2> DEFINE row == EditedRow(p, a)
             from == Managed(site[p].exchange)
             shown == [row EXCEPT !.status = "published"]
             effect == [Moved(p, row, from, Managed(x)) EXCEPT
                            !.cut = @ \cup (RollSites \X {p}),
                            !.joined[p] = [exchange |-> x, addr |-> a]]
  <2>1. row \in PartyRow /\ row \in Maybe(PartyRow) /\ shown \in PartyRow
    BY <1>9, RowTypes DEF EditExchange, Maybe
  <2>2. Moved(p, row, from, Managed(x)) \in Effect
    BY <1>1, <2>1, MovedType
  <2>3. effect \in Effect
    BY <1>1, <1>3, <2>2, EffectUpdates
  <2>4. Excluding(p, from) \in SUBSET Push /\ Attaching(p, shown, Managed(x)) \in SUBSET Push
    BY <1>1, <2>1, PushType
  <2>5. Begin(t, Excluding(p, from), Attaching(p, shown, Managed(x)), effect)
    BY <1>9 DEF EditExchange
  <2>6. QED
    BY <2>3, <2>4, <2>5, BeginType
<1>10. QED
  BY <1>4, <1>5, <1>6, <1>7, <1>8, <1>9

-----------------------------------------------------------------------------
(* How requests go on, and the timer                                       *)

LEMMA RequestType ==
    ASSUME TypeOK, NEW t \in Threads
    PROVE  PushTable(t) \/ Commit(t) \/ Fail(t) => TypeOK'
<1>1. Busy(t) => req[t] \in Request
  BY DEF TypeOK, Busy, Maybe
<1>2. ASSUME PushTable(t)
      PROVE  TypeOK'
  <2>1. PICK push \in IF req[t].first # {} THEN req[t].first ELSE req[t].second :
            /\ table' = [table EXCEPT ![push.roll] = push.table]
            /\ req' = [req EXCEPT ![t].first = @ \ {push},
                                  ![t].second = IF req[t].first = {} THEN @ \ {push} ELSE @]
    BY <1>2 DEF PushTable
  <2>2. req[t] \in Request /\ push \in Push
    BY <1>1, <1>2, <2>1 DEF PushTable, Request
  <2>3. table' \in [RollSites -> Table]
    BY <2>1, <2>2 DEF TypeOK, Push
  <2>4. [req[t] EXCEPT !.first = @ \ {push},
                       !.second = IF req[t].first = {} THEN @ \ {push} ELSE @] \in Request
    BY <2>2 DEF Request
  <2>5. req' \in [Threads -> Maybe(Request)]
    BY <2>1, <2>4 DEF TypeOK, Maybe
  <2>6. QED
    BY <1>2, <2>3, <2>5 DEF PushTable, TypeOK, db, history
<1>3. ASSUME Commit(t)
      PROVE  TypeOK'
  <2> DEFINE e == req[t].effect
  <2>1. req[t] \in Request /\ e \in Effect
    BY <1>1, <1>3 DEF Commit, Request
  <2>2. req' \in [Threads -> Maybe(Request)]
    BY <1>3 DEF Commit, TypeOK, Maybe
  <2>3. CASE Duplicate(req[t])
    BY <1>3, <2>2, <2>3 DEF Commit, TypeOK, db, history
  <2>4. CASE ~Duplicate(req[t])
    <3>1. /\ party' = [p \in Parties |-> RowAfter(req[t], p)]
          /\ linked' = (linked \ e.cut) \cup e.tied
          /\ roll' = [r \in RollSites |-> IF e.homes[r] # None THEN e.homes[r]
                                          ELSE IF r \in e.dropped THEN "deleted"
                                          ELSE roll[r]]
          /\ known' = (known \ e.closed) \cup e.opened
          /\ site' = [p \in Parties |-> IF p \in e.left THEN None
                                        ELSE IF e.joined[p] # None THEN e.joined[p]
                                        ELSE site[p]]
      BY <1>3, <2>4 DEF Commit
    <3>2. party' \in [Parties -> Maybe(PartyRow)]
      BY <2>1, <3>1 DEF TypeOK, RowAfter, Maybe, Effect
    <3>3. linked' \subseteq Links /\ known' \subseteq Exchanges
      BY <2>1, <3>1 DEF TypeOK, Effect
    <3>4. roll' \in [RollSites -> Exchanges \cup NotManaged]
      BY <2>1, <3>1 DEF TypeOK, Effect, Maybe, NotManaged
    <3>5. site' \in [Parties -> Maybe(JoinedSite)]
      BY <2>1, <3>1 DEF TypeOK, Effect, Maybe
    <3>6. QED
      BY <1>3, <2>2, <3>2, <3>3, <3>4, <3>5 DEF Commit, TypeOK, history
  <2>5. QED
    BY <2>3, <2>4
<1>4. ASSUME Fail(t)
      PROVE  TypeOK'
  BY <1>4, BoundAssumption DEF Fail, TypeOK, db, Maybe
<1>5. QED
  BY <1>2, <1>3, <1>4

LEMMA SyncPlaces ==
    ASSUME TypeOK, sync # None
    PROVE  /\ sync.at \in {"next", "got", "read"}
           /\ sync.todo \in SUBSET RollSites
           /\ sync.at = "next" => sync \in [at: {"next"}, todo: SUBSET RollSites]
           /\ sync.at = "got" => sync.roll \in RollSites /\ sync.given \in Table
           /\ sync.at = "read" =>
                sync \in [at: {"read"}, todo: SUBSET RollSites, roll: RollSites, given: Table,
                          seen: [Parties -> Maybe(PartyRow)], left: SUBSET Parties]
  BY DEF TypeOK, SyncState

\* What a row is after the timer has looked at its party.
LEMMA SyncRowAfter ==
    ASSUME TypeOK, NEW p \in Parties, SyncParty(p)
    PROVE  /\ party' \in [Parties -> Maybe(PartyRow)]
           /\ \A q \in Parties \ {p} : party'[q] = party[q]
           /\ \/ party'[p] = party[p]
              \/ /\ sync.seen[p] # None /\ party[p] # None
                 /\ sync.seen[p].status = "published" => party'[p].status = "published"
                 /\ sync.seen[p].status # "published" => party'[p] = sync.seen[p]
              \/ sync.seen[p] = None /\ party[p] = None
<1> DEFINE seen == sync.seen[p]
           a == sync.given[p]
<1>1. /\ seen \in Maybe(PartyRow)
      /\ a \in Maybe(Addresses)
  BY SyncPlaces DEF SyncParty, Table
<1>2. party' = IF a = None \/ (seen # None /\ (seen.addr = a \/ party[p] = None)) THEN party
               ELSE IF seen # None THEN [party EXCEPT ![p] = TakenOver(seen, a)]
               ELSE IF party[p] = None THEN [party EXCEPT ![p] = Found(a)]
               ELSE party
  BY DEF SyncParty, SyncRow
<1> HIDE DEF seen, a
<1>3. ASSUME a # None, seen # None
      PROVE  /\ TakenOver(seen, a) \in PartyRow
             /\ seen.status # "published" => TakenOver(seen, a) = seen
             /\ seen.status = "published" => TakenOver(seen, a).status = "published"
  BY <1>1, <1>3, TakenOverType DEF Maybe
<1>4. a # None => Found(a) \in PartyRow
  BY <1>1, RowTypes DEF Maybe
<1>5. party \in [Parties -> Maybe(PartyRow)]
  BY DEF TypeOK
<1>6. party' \in [Parties -> Maybe(PartyRow)]
  BY <1>2, <1>3, <1>4, <1>5 DEF Maybe
<1>7. \A q \in Parties \ {p} : party'[q] = party[q]
  BY <1>2, <1>5
<1>8. \/ party'[p] = party[p]
      \/ /\ seen # None /\ party[p] # None
         /\ seen.status = "published" => party'[p].status = "published"
         /\ seen.status # "published" => party'[p] = seen
      \/ seen = None /\ party[p] = None
  BY <1>2, <1>3, <1>5
<1>9. QED
  BY <1>6, <1>7, <1>8 DEF seen

LEMMA SyncType ==
    ASSUME TypeOK, SyncStep \/ \E r \in RollSites : SyncPass(r)
    PROVE  TypeOK'
<1>1. CASE SyncStart
  BY <1>1 DEF SyncStart, TypeOK, SyncState, db, history
<1>2. ASSUME NEW r \in RollSites, SyncGet(r)
      PROVE  TypeOK'
  <2>1. sync' \in SyncState
    BY <1>2, SyncPlaces DEF SyncGet, SyncState, TypeOK
  <2>2. events' \in 0..MaxEvents /\ mishaps' \subseteq {"failed", "crossed", "forgotten"}
    <3>1. CASE AnyBusy
      <4>1. events < MaxEvents /\ events' = events + 1 /\ mishaps' = mishaps \cup {"crossed"}
        BY <1>2, <3>1 DEF SyncGet
      <4>2. QED
        BY <4>1, BoundAssumption DEF TypeOK
    <3>2. CASE ~AnyBusy
      BY <1>2, <3>2 DEF SyncGet, TypeOK, history
    <3>3. QED
      BY <3>1, <3>2
  <2>3. QED
    BY <1>2, <2>1, <2>2 DEF SyncGet, TypeOK, db
<1>3. CASE SyncRead
  <2>1. [q \in Parties |-> IF q \in On(sync.roll) THEN party[q] ELSE None]
            \in [Parties -> Maybe(PartyRow)]
    BY DEF TypeOK, Maybe
  <2>2. sync' \in SyncState
    BY <1>3, <2>1, SyncPlaces DEF SyncRead, SyncState
  <2>3. QED
    BY <1>3, <2>2 DEF SyncRead, TypeOK, db, history
<1>4. ASSUME NEW p \in Parties, SyncParty(p)
      PROVE  TypeOK'
  <2>1. sync' \in SyncState
    BY <1>4, SyncPlaces DEF SyncParty, SyncState
  <2>2. linked' \subseteq Links
    BY <1>4, SyncPlaces DEF SyncParty, SyncLink, Links, TypeOK
  <2>3. QED
    BY <1>4, <2>1, <2>2, SyncRowAfter DEF SyncParty, TypeOK, history
<1>5. CASE SyncNext
  BY <1>5, SyncPlaces DEF SyncNext, TypeOK, SyncState, db, history
<1>6. ASSUME NEW r \in RollSites, SyncPass(r)
      PROVE  TypeOK'
  <2>1. sync' \in SyncState
    BY <1>6, SyncPlaces DEF SyncPass, SyncState
  <2>2. QED
    BY <1>6, <2>1, BoundAssumption DEF SyncPass, TypeOK, db
<1>7. QED
  BY <1>1, <1>2, <1>3, <1>4, <1>5, <1>6 DEF SyncStep

LEMMA InitType == Init => TypeOK
<1>1. ASSUME Init
      PROVE  TypeOK
  <2>1. roll \in [RollSites -> Exchanges \cup NotManaged]
    BY <1>1, DeploymentAssumption DEF Init, NotManaged
  <2>2. QED
    BY <1>1, <2>1, BoundAssumption DEF Init, TypeOK, Nothing, Table, SyncState, Maybe
<1>2. QED
  BY <1>1

LEMMA NextType == TypeOK /\ [Next]_vars => TypeOK'
<1>1. ASSUME TypeOK, NEW t \in Idle, Arrange(t) \/ Change(t)
      PROVE  TypeOK'
  BY <1>1, ArrangeType, ChangeType DEF Change, Idle
<1>2. ASSUME TypeOK, UNCHANGED vars
      PROVE  TypeOK'
  BY <1>2 DEF TypeOK, vars, Busy
<1>3. QED
  BY <1>1, <1>2, RequestType, SyncType DEF Next

\* The type invariant.
THEOREM TypeCorrect == Spec => []TypeOK
  BY InitType, NextType, PTL DEF Spec

-----------------------------------------------------------------------------
(* Edits are kept                                                          *)

Quiet == "crossed" \notin mishaps

\* While nothing has crossed, no request is under way when the timer has
\* fetched a table, and what it has seen of a waiting row is the row.
NoneBusy == Quiet /\ sync # None /\ sync.at # "next" => ~AnyBusy
SeenIsCurrent ==
    Quiet /\ sync # None /\ sync.at = "read" =>
        \A p \in Parties :
            party[p] # None /\ party[p].status # "published" /\ sync.seen[p] # None =>
                sync.seen[p] = party[p]
IInv == TypeOK /\ NoneBusy /\ SeenIsCurrent

EditsKeptNow ==
    \A p \in Parties :
        party[p] # None /\ party[p].status # "published" => party'[p] = party[p]

LEMMA SyncPartyKeeps ==
    ASSUME IInv, Quiet, NEW p \in Parties, SyncParty(p)
    PROVE  EditsKeptNow
<1>1. /\ sync # None /\ sync.at = "read"
      /\ sync.seen[p] \in Maybe(PartyRow)
  BY SyncPlaces DEF SyncParty, IInv
<1>2. ASSUME party[p] # None, party[p].status # "published"
      PROVE  party'[p] = party[p]
  <2>1. sync.seen[p] # None => sync.seen[p] = party[p]
    BY <1>1, <1>2 DEF IInv, SeenIsCurrent
  <2>2. QED
    BY <1>2, <2>1, SyncRowAfter DEF IInv
<1>3. QED
  BY <1>2, SyncRowAfter DEF EditsKeptNow, IInv

Begins(t) == \E first, second, effect : Begin(t, first, second, effect)

LEMMA RequestsBegin ==
    ASSUME NEW t
    PROVE  /\ \A x, R, B : AddExchange(t, x, R, B) => Begins(t)
           /\ \A r, x, B : AddRollSite(t, r, x, B) => Begins(t)
           /\ \A r, B : UpdateRollSite(t, r, B) => Begins(t)
           /\ \A r : PublishRollSite(t, r) => Begins(t)
           /\ \A r : DeleteRollSite(t, r) => Begins(t)
           /\ \A r : QueryExchange(t, r) => Begins(t)
           /\ \A x : DeleteExchange(t, x) => Begins(t)
           /\ \A p : Reset(t, p) => Begins(t)
           /\ \A p : DeleteSite(t, p) => Begins(t)
           /\ \A p, a : UpdatePartyInfo(t, p, a) => Begins(t)
           /\ \A p, a : EditAddress(t, p, a) => Begins(t)
           /\ \A p, x, a : Activate(t, p, x, a) => Begins(t)
           /\ \A p, x, a : EditExchange(t, p, x, a) => Begins(t)
<1>1. \A x, R, B : AddExchange(t, x, R, B) => Begins(t)
  BY DEF AddExchange, Begins
<1>2. \A r, x, B : AddRollSite(t, r, x, B) => Begins(t)
  BY DEF AddRollSite, Begins
<1>3. \A r, B : UpdateRollSite(t, r, B) => Begins(t)
  BY DEF UpdateRollSite, Begins
<1>4. \A r : PublishRollSite(t, r) => Begins(t)
  BY DEF PublishRollSite, Begins
<1>5. \A r : DeleteRollSite(t, r) => Begins(t)
  BY DEF DeleteRollSite, Begins
<1>6. \A r : QueryExchange(t, r) => Begins(t)
  BY DEF QueryExchange, Begins
<1>7. \A x : DeleteExchange(t, x) => Begins(t)
  BY DEF DeleteExchange, Begins
<1>8. \A p : Reset(t, p) => Begins(t)
  BY DEF Reset, Begins
<1>9. \A p : DeleteSite(t, p) => Begins(t)
  BY DEF DeleteSite, Begins
<1>10. \A p, a : UpdatePartyInfo(t, p, a) => Begins(t)
  BY DEF UpdatePartyInfo, Begins
<1>11. \A p, a : EditAddress(t, p, a) => Begins(t)
  BY DEF EditAddress, Begins
<1>12. \A p, x, a : Activate(t, p, x, a) => Begins(t)
  BY DEF Activate, Begins
<1>13. \A p, x, a : EditExchange(t, p, x, a) => Begins(t)
  BY DEF EditExchange, Begins
<1>20. QED
  BY <1>1, <1>2, <1>3, <1>4, <1>5, <1>6, <1>7, <1>8, <1>9, <1>10, <1>11, <1>12, <1>13

LEMMA BeginKeeps ==
    ASSUME IInv, NEW t \in Threads, NEW first, NEW second, NEW effect,
           Begin(t, first, second, effect)
    PROVE  NoneBusy' /\ SeenIsCurrent' /\ party' = party
<1>1. party' = party /\ sync' = sync
  BY DEF Begin, db
<1>2. ASSUME Quiet'
      PROVE  Quiet /\ ~Crossing
  BY <1>2 DEF Begin, Quiet
<1>3. QED
  BY <1>1, <1>2 DEF NoneBusy, SeenIsCurrent, IInv, Crossing

LEMMA RequestKeeps ==
    ASSUME IInv, NEW t \in Threads, PushTable(t) \/ Commit(t) \/ Fail(t)
    PROVE  /\ NoneBusy' /\ SeenIsCurrent'
           /\ party' = party \/ req' # req
<1>1. Busy(t) /\ AnyBusy /\ sync' = sync /\ (Quiet' => Quiet)
  BY DEF PushTable, Commit, Fail, AnyBusy, history, Quiet
<1>2. Quiet' => sync' = None \/ sync'.at = "next"
  BY <1>1 DEF IInv, NoneBusy
<1>3. NoneBusy' /\ SeenIsCurrent'
  BY <1>2 DEF NoneBusy, SeenIsCurrent
<1>4. CASE PushTable(t) \/ Fail(t)
  BY <1>3, <1>4 DEF PushTable, Fail, db
<1>5. CASE Commit(t)
  <2>1. req'[t] = None
    BY <1>5 DEF Commit, IInv, TypeOK
  <2>2. QED
    BY <1>1, <1>3, <2>1 DEF Busy
<1>6. QED
  BY <1>4, <1>5

LEMMA SyncKeeps ==
    ASSUME IInv, SyncStep \/ \E r \in RollSites : SyncPass(r)
    PROVE  NoneBusy' /\ SeenIsCurrent' /\ (Quiet => EditsKeptNow)
<1>1. CASE SyncStart
  BY <1>1 DEF SyncStart, NoneBusy, SeenIsCurrent, EditsKeptNow, db
<1>2. ASSUME NEW r \in RollSites, SyncGet(r)
      PROVE  NoneBusy' /\ SeenIsCurrent' /\ EditsKeptNow
  <2>1. sync'.at = "got" /\ party' = party /\ req' = req
    BY <1>2 DEF SyncGet, db
  <2>2. AnyBusy' = AnyBusy
    BY <2>1 DEF AnyBusy, Busy
  <2>3. AnyBusy => ~Quiet'
    BY <1>2 DEF SyncGet, Quiet
  <2>4. QED
    BY <2>1, <2>2, <2>3 DEF NoneBusy, SeenIsCurrent, EditsKeptNow
<1>3. CASE SyncRead
  <2>1. /\ sync # None /\ sync.at = "got"
        /\ sync'.at = "read"
        /\ sync'.seen = [p \in Parties |-> IF p \in On(sync.roll) THEN party[p] ELSE None]
        /\ party' = party /\ req' = req /\ mishaps' = mishaps
    BY <1>3 DEF SyncRead, db, history
  <2>2. NoneBusy'
    BY <2>1 DEF NoneBusy, IInv, Quiet, AnyBusy, Busy
  <2>3. SeenIsCurrent'
    BY <2>1 DEF SeenIsCurrent
  <2>4. QED
    BY <2>1, <2>2, <2>3 DEF EditsKeptNow
<1>4. ASSUME NEW p \in Parties, SyncParty(p)
      PROVE  NoneBusy' /\ SeenIsCurrent' /\ (Quiet => EditsKeptNow)
  <2>1. /\ sync # None /\ sync.at = "read"
        /\ sync'.at = "read" /\ sync'.seen = sync.seen
        /\ req' = req /\ mishaps' = mishaps
    BY <1>4, SyncPlaces DEF SyncParty, history, IInv, NoneBusy
  <2>2. NoneBusy'
    BY <2>1 DEF NoneBusy, IInv, Quiet, AnyBusy, Busy
  <2>3. ASSUME Quiet', NEW q \in Parties,
               party'[q] # None, party'[q].status # "published", sync.seen[q] # None
        PROVE  sync.seen[q] = party'[q]
    <3>1. Quiet
      BY <2>1, <2>3 DEF Quiet
    <3>2. CASE party'[q] = party[q]
      BY <2>1, <2>3, <3>1, <3>2 DEF IInv, SeenIsCurrent
    <3>3. CASE party'[q] # party[q]
      BY <1>4, <2>3, <3>3, SyncRowAfter DEF IInv
    <3>4. QED
      BY <3>2, <3>3
  <2>4. SeenIsCurrent'
    BY <2>1, <2>3 DEF SeenIsCurrent
  <2>5. QED
    BY <1>4, <2>2, <2>4, SyncPartyKeeps
<1>5. CASE SyncNext
  <2>1. sync' = None \/ sync'.at = "next"
    BY <1>5 DEF SyncNext
  <2>2. QED
    BY <1>5, <2>1 DEF SyncNext, NoneBusy, SeenIsCurrent, EditsKeptNow, db
<1>6. ASSUME NEW r \in RollSites, SyncPass(r)
      PROVE  NoneBusy' /\ SeenIsCurrent' /\ EditsKeptNow
  <2>1. sync'.at = "next" /\ party' = party
    BY <1>6, SyncPlaces DEF SyncPass, db, IInv
  <2>2. QED
    BY <2>1 DEF NoneBusy, SeenIsCurrent, EditsKeptNow
<1>7. QED
  BY <1>1, <1>2, <1>3, <1>4, <1>5, <1>6 DEF SyncStep

LEMMA NextKeeps ==
    ASSUME IInv, [Next]_vars
    PROVE  IInv' /\ (req' = req /\ Quiet => EditsKeptNow)
<1>1. TypeOK'
  BY NextType DEF IInv
<1>2. ASSUME NEW t \in Idle, Arrange(t) \/ Change(t)
      PROVE  Begins(t)
  BY <1>2, RequestsBegin DEF Arrange, Change
<1>3. ASSUME NEW t \in Idle, Arrange(t) \/ Change(t)
      PROVE  NoneBusy' /\ SeenIsCurrent' /\ EditsKeptNow
  <2>1. NoneBusy' /\ SeenIsCurrent' /\ party' = party
    BY <1>2, <1>3, BeginKeeps DEF Idle, Begins
  <2>2. QED
    BY <2>1 DEF EditsKeptNow
<1>4. ASSUME NEW t \in Threads, PushTable(t) \/ Commit(t) \/ Fail(t)
      PROVE  NoneBusy' /\ SeenIsCurrent' /\ (req' = req => EditsKeptNow)
  BY <1>4, RequestKeeps DEF EditsKeptNow
<1>5. CASE UNCHANGED vars
  <2>1. party' = party /\ sync' = sync /\ req' = req /\ mishaps' = mishaps
    BY <1>5 DEF vars
  <2>2. AnyBusy' = AnyBusy
    BY <2>1 DEF AnyBusy, Busy
  <2>3. Quiet' = Quiet
    BY <2>1 DEF Quiet
  <2>4. NoneBusy'
    BY <2>1, <2>2, <2>3 DEF NoneBusy, IInv
  <2>5. SeenIsCurrent'
    BY <2>1, <2>3 DEF SeenIsCurrent, IInv
  <2>6. QED
    BY <1>1, <2>1, <2>4, <2>5 DEF EditsKeptNow, IInv
<1>6. QED
  BY <1>1, <1>3, <1>4, <1>5, SyncKeeps DEF Next, IInv

\* An administrator's unpublished edit survives the timer, as long as no
\* request has crossed it.
THEOREM EditsKept == Spec => WaitingEditsKept
<1>1. Init => IInv
  BY InitType DEF Init, IInv, NoneBusy, SeenIsCurrent
<1>2. IInv /\ [Next]_vars => IInv'
  BY NextKeeps
<1>3. IInv /\ [Next]_vars =>
        [req' = req /\ "crossed" \notin mishaps =>
            \A p \in Parties :
                party[p] # None /\ party[p].status # "published" => party'[p] = party[p]]_vars
  BY NextKeeps DEF Quiet, EditsKeptNow
<1>4. QED
  BY <1>1, <1>2, <1>3, PTL DEF Spec, WaitingEditsKept

-----------------------------------------------------------------------------
(* Joined sites are routed: what one request may leave to the next         *)

\* A link has a row and a managed roll site; a route has a link; a joined
\* site is known, published, and on the roll sites of its exchange only.
LinksHold(rows, links, homes) ==
    \A r \in RollSites, p \in Parties :
        <<r, p>> \in links => rows[p] # None /\ homes[r] \notin NotManaged
RoutesHold(links, tables) ==
    \A r \in RollSites, p \in Parties : tables[r][p] # None => <<r, p>> \in links
SiteHolds(s, row, p, links, homes, exchanges, tables) ==
    /\ s.exchange \in exchanges
    /\ row = [addr |-> s.addr, status |-> "published"]
    /\ \A r \in RollSites :
        IF homes[r] = s.exchange
        THEN <<r, p>> \in links /\ tables[r][p] = s.addr
        ELSE <<r, p>> \notin links
SitesHold(rows, links, homes, exchanges, sites, tables) ==
    \A p \in Parties :
        sites[p] # None => SiteHolds(sites[p], rows[p], p, links, homes, exchanges, tables)
Sound(rows, links, homes, exchanges, sites, tables) ==
    /\ LinksHold(rows, links, homes)
    /\ RoutesHold(links, tables)
    /\ SitesHold(rows, links, homes, exchanges, sites, tables)

\* What effect e makes of the database when nothing crosses it, and what the
\* pushes of the two rounds make of the table of r.
RowsBy(e) ==
    [p \in Parties |-> IF p \in e.gone THEN None
                       ELSE IF e.rows[p] # None THEN e.rows[p] ELSE party[p]]
LinksBy(e) == (linked \ e.cut) \cup e.tied
HomesBy(e) ==
    [r \in RollSites |-> IF e.homes[r] # None THEN e.homes[r]
                         ELSE IF r \in e.dropped THEN "deleted" ELSE roll[r]]
KnownBy(e) == (known \ e.closed) \cup e.opened
SitesBy(e) ==
    [p \in Parties |-> IF p \in e.left THEN None
                       ELSE IF e.joined[p] # None THEN e.joined[p] ELSE site[p]]
GivenBy(pushes, r, given) == \E w \in pushes : w.roll = r /\ given = w.table
PassedBy(pushes, r) == \A w \in pushes : w.roll # r
TableBy(first, second, r, given) ==
    \/ GivenBy(second, r, given)
    \/ PassedBy(second, r) /\ GivenBy(first, r, given)
    \/ PassedBy(second, r) /\ PassedBy(first, r) /\ given = table[r]
TablesBy(first, second, T) == \A r \in RollSites : TableBy(first, second, r, T[r])

SoundAfter(e, T) == Sound(RowsBy(e), LinksBy(e), HomesBy(e), KnownBy(e), SitesBy(e), T)
LeavesSound(first, second, e) ==
    \A T \in [RollSites -> Table] : TablesBy(first, second, T) => SoundAfter(e, T)

Settles == Sound(party, linked, roll, known, site, table)
Ready == TypeOK /\ Settles

\* The tables that are pushed.
Without(p, r) == Routed(On(r) \ {p}, party)
With(p, row, r) == Routed(On(r) \cup {p}, [party EXCEPT ![p] = row])

LEMMA ExcludingTables ==
    ASSUME NEW p, NEW R, NEW r, NEW given
    PROVE  /\ GivenBy(Excluding(p, R), r, given) <=> r \in R /\ given = Without(p, r)
           /\ PassedBy(Excluding(p, R), r) <=> r \notin R
<1>1. r \in R => [roll |-> r, table |-> Without(p, r)] \in Excluding(p, R)
  BY DEF Excluding, Without
<1>2. ASSUME NEW w \in Excluding(p, R)
      PROVE  w.roll \in R /\ w.table = Without(p, w.roll)
  <2>1. PICK k \in R : w = [roll |-> k, table |-> Without(p, k)]
    BY DEF Excluding, Without
  <2>2. QED
    BY <2>1
<1>3. QED
  BY <1>1, <1>2 DEF GivenBy, PassedBy

LEMMA AttachingTables ==
    ASSUME NEW p, NEW row, NEW R, NEW r, NEW given
    PROVE  /\ GivenBy(Attaching(p, row, R), r, given) <=> r \in R /\ given = With(p, row, r)
           /\ PassedBy(Attaching(p, row, R), r) <=> r \notin R
<1>1. r \in R => [roll |-> r, table |-> With(p, row, r)] \in Attaching(p, row, R)
  BY DEF Attaching, With
<1>2. ASSUME NEW w \in Attaching(p, row, R)
      PROVE  w.roll \in R /\ w.table = With(p, row, w.roll)
  <2>1. PICK k \in R : w = [roll |-> k, table |-> With(p, row, k)]
    BY DEF Attaching, With
  <2>2. QED
    BY <2>1
<1>3. QED
  BY <1>1, <1>2 DEF GivenBy, PassedBy

LEMMA ClearedTables ==
    ASSUME NEW R, NEW r, NEW given
    PROVE  /\ GivenBy(Cleared(R), r, given) <=> r \in R /\ given = Nothing
           /\ PassedBy(Cleared(R), r) <=> r \notin R
<1>1. r \in R => [roll |-> r, table |-> Nothing] \in Cleared(R)
  BY DEF Cleared
<1>2. \A w \in Cleared(R) : w.roll \in R /\ w.table = Nothing
  BY DEF Cleared
<1>3. QED
  BY <1>1, <1>2 DEF GivenBy, PassedBy

LEMMA NoTables == \A r, given : ~GivenBy({}, r, given) /\ PassedBy({}, r)
  BY DEF GivenBy, PassedBy

LEMMA AttachedTables ==
    ASSUME NEW p, NEW row, NEW R, NEW r, NEW given,
           TableBy(Attaching(p, row, R), {}, r, given)
    PROVE  /\ r \in R => given = With(p, row, r)
           /\ r \notin R => given = table[r]
  BY AttachingTables, NoTables DEF TableBy

LEMMA WipedTables ==
    ASSUME NEW R, NEW r, NEW given, TableBy(Cleared(R), {}, r, given)
    PROVE  /\ r \in R => given = Nothing
           /\ r \notin R => given = table[r]
  BY ClearedTables, NoTables DEF TableBy

LEMMA OneTable ==
    ASSUME NEW r, NEW shown, NEW S, S = {[roll |-> r, table |-> shown]},
           NEW k, NEW given, TableBy(S, {}, k, given)
    PROVE  /\ k = r => given = shown
           /\ k # r => given = table[k]
<1>1. /\ GivenBy(S, k, given) <=> k = r /\ given = shown
      /\ PassedBy(S, k) <=> k # r
  BY DEF GivenBy, PassedBy
<1>2. QED
  BY <1>1, NoTables DEF TableBy

LEMMA MovedTables ==
    ASSUME NEW p, NEW row, NEW from, NEW to, NEW r, NEW given,
           TableBy(Excluding(p, from), Attaching(p, row, to), r, given)
    PROVE  /\ r \in to => given = With(p, row, r)
           /\ r \in from \ to => given = Without(p, r)
           /\ r \notin from \cup to => given = table[r]
<1>1. /\ GivenBy(Excluding(p, from), r, given) => r \in from /\ given = Without(p, r)
      /\ PassedBy(Excluding(p, from), r) <=> r \notin from
  BY ExcludingTables
<1>2. /\ GivenBy(Attaching(p, row, to), r, given) => r \in to /\ given = With(p, row, r)
      /\ PassedBy(Attaching(p, row, to), r) <=> r \notin to
  BY AttachingTables
<1>3. QED
  BY <1>1, <1>2 DEF TableBy

\* Where a joined site stands, between requests.
LEMMA JoinedStands ==
    ASSUME Ready, NEW p \in Parties, Joined(p)
    PROVE  /\ site[p].exchange \in known /\ site[p].exchange \in Exchanges
           /\ site[p].exchange \notin NotManaged
           /\ site[p].addr \in Addresses /\ site[p].addr # None
           /\ party[p] # None /\ party[p].addr = site[p].addr /\ party[p].status = "published"
           /\ party[p] = [addr |-> site[p].addr, status |-> "published"]
           /\ \A r \in RollSites :
                /\ roll[r] = site[p].exchange => <<r, p>> \in linked /\ table[r][p] = site[p].addr
                /\ roll[r] # site[p].exchange => <<r, p>> \notin linked /\ table[r][p] = None
           /\ RollsOf(p) = Managed(site[p].exchange)
<1>1. site[p] \in JoinedSite
  BY DEF Ready, TypeOK, Joined, Maybe
<1>2. SiteHolds(site[p], party[p], p, linked, roll, known, table)
  BY DEF Ready, Settles, Sound, SitesHold, Joined
<1>3. /\ site[p].exchange \in known /\ site[p].exchange \in Exchanges
      /\ site[p].exchange \notin NotManaged /\ site[p].addr \in Addresses /\ site[p].addr # None
  BY <1>1, <1>2, ExchangeAssumption, NoneAssumption DEF SiteHolds, JoinedSite
<1>4. party[p] = [addr |-> site[p].addr, status |-> "published"]
  BY <1>2 DEF SiteHolds
<1>5. party[p] \in PartyRow
  BY <1>3, <1>4 DEF PartyRow
<1>6. party[p] # None /\ party[p].addr = site[p].addr /\ party[p].status = "published"
  BY <1>4, <1>5, NoneAssumption
<1>7. \A r \in RollSites :
        /\ roll[r] = site[p].exchange => <<r, p>> \in linked /\ table[r][p] = site[p].addr
        /\ roll[r] # site[p].exchange => <<r, p>> \notin linked /\ table[r][p] = None
  BY <1>2 DEF SiteHolds, Ready, Settles, Sound, RoutesHold
<1>8. RollsOf(p) = Managed(site[p].exchange)
  BY <1>3, <1>7 DEF RollsOf, Managed, IsManaged
<1>9. QED
  BY <1>3, <1>4, <1>6, <1>7, <1>8

\* Where a link leads, between requests.
LEMMA LinkLeads ==
    ASSUME Ready, NEW r \in RollSites, NEW p \in Parties
    PROVE  /\ <<r, p>> \in linked => party[p] # None /\ IsManaged(r)
           /\ <<r, p>> \in linked <=> p \in On(r)
           /\ <<r, p>> \in linked <=> r \in RollsOf(p)
           /\ table[r][p] # None => <<r, p>> \in linked
<1>1. /\ <<r, p>> \in linked => party[p] # None /\ IsManaged(r)
      /\ table[r][p] # None => <<r, p>> \in linked
  BY DEF Ready, Settles, Sound, LinksHold, RoutesHold, IsManaged
<1>2. QED
  BY <1>1 DEF On, RollsOf

-----------------------------------------------------------------------------
(* What each request leaves                                                *)

\* What it takes, party by party.
PartySound(p, e, T) ==
    /\ \A r \in RollSites :
        /\ <<r, p>> \in LinksBy(e) => RowsBy(e)[p] # None /\ HomesBy(e)[r] \notin NotManaged
        /\ T[r][p] # None => <<r, p>> \in LinksBy(e)
    /\ SitesBy(e)[p] # None =>
        SiteHolds(SitesBy(e)[p], RowsBy(e)[p], p, LinksBy(e), HomesBy(e), KnownBy(e), T)

LEMMA PartyByParty ==
    ASSUME NEW e, NEW T, \A p \in Parties : PartySound(p, e, T)
    PROVE  SoundAfter(e, T)
<1>1. LinksHold(RowsBy(e), LinksBy(e), HomesBy(e)) /\ RoutesHold(LinksBy(e), T)
  BY DEF LinksHold, RoutesHold, PartySound
<1>2. SitesHold(RowsBy(e), LinksBy(e), HomesBy(e), KnownBy(e), SitesBy(e), T)
  BY DEF SitesHold, PartySound
<1>3. QED
  BY <1>1, <1>2 DEF SoundAfter, Sound

\* A party that a request only publishes, on roll sites R.
LEMMA PublishedSound ==
    ASSUME Ready, NEW q \in Parties, NEW R \in SUBSET RollSites, NEW e, NEW T,
           \A r \in RollSites :
                /\ r \in R => T[r][q] = Routed(On(r), party)[q]
                /\ r \notin R => T[r][q] = table[r][q],
           party[q] # None /\ party[q].status = "published" => RowsBy(e)[q] = party[q],
           party[q] # None => RowsBy(e)[q] # None,
           \A r \in RollSites :
                /\ <<r, q>> \in LinksBy(e) => <<r, q>> \in linked
                /\ <<r, q>> \in linked /\ <<r, q>> \notin LinksBy(e) =>
                        r \in R /\ party[q].status = "deleted",
           HomesBy(e) = roll, KnownBy(e) = known, SitesBy(e)[q] = site[q]
    PROVE  PartySound(q, e, T)
<1>1. ASSUME NEW r \in RollSites
      PROVE  /\ <<r, q>> \in LinksBy(e) => RowsBy(e)[q] # None /\ HomesBy(e)[r] \notin NotManaged
             /\ T[r][q] # None => <<r, q>> \in LinksBy(e)
             /\ r \in R /\ q \in On(r) /\ party[q].status = "published" => T[r][q] = party[q].addr
  <2>1. r \in R => T[r][q] = IF q \in On(r) /\ party[q] # None
                                /\ party[q].status \in {"published", "modified"}
                             THEN party[q].addr ELSE None
    BY DEF Routed
  <2>2. QED
    BY <2>1, LinkLeads DEF IsManaged
<1>2. ASSUME SitesBy(e)[q] # None
      PROVE  SiteHolds(SitesBy(e)[q], RowsBy(e)[q], q, LinksBy(e), HomesBy(e), KnownBy(e), T)
  <2>1. Joined(q)
    BY <1>2 DEF Joined
  <2>2. /\ party[q] # None /\ party[q].addr = site[q].addr /\ party[q].status = "published"
        /\ party[q] = [addr |-> site[q].addr, status |-> "published"]
        /\ site[q].exchange \in known
    BY <2>1, JoinedStands
  <2>3. \A r \in RollSites : <<r, q>> \in LinksBy(e) <=> <<r, q>> \in linked
    BY <2>2
  <2>4. ASSUME NEW r \in RollSites, <<r, q>> \in linked
        PROVE  T[r][q] = site[q].addr
    <3>1. q \in On(r) /\ (r \notin R => T[r][q] = table[r][q])
      BY <2>4, LinkLeads
    <3>2. roll[r] = site[q].exchange
      BY <2>1, <2>4, JoinedStands
    <3>3. table[r][q] = site[q].addr
      BY <2>1, <3>2, JoinedStands
    <3>4. QED
      BY <1>1, <2>2, <3>1, <3>3
  <2>5. \A r \in RollSites : roll[r] = site[q].exchange <=> <<r, q>> \in linked
    BY <2>1, JoinedStands
  <2>6. QED
    BY <2>2, <2>3, <2>4, <2>5 DEF SiteHolds
<1>3. QED
  BY <1>1, <1>2 DEF PartySound

RowsMoved(p, from, to) == Settled(OnAny(from \cup to) \ {p})
LinksMoved(from, to) == Dropped(from \cup to)

\* A party leaves all its roll sites and comes to others, or to none: the
\* other parties of these roll sites are published along with it.
LEMMA MovedLeaves ==
    ASSUME Ready, NEW p \in Parties, NEW shown,
           NEW from \in SUBSET RollSites, NEW to \in SUBSET RollSites, NEW e,
           \A r \in RollSites : <<r, p>> \in linked => r \in from,
           \A r \in to : IsManaged(r),
           to # {} => RowsBy(e)[p] # None,
           \A q \in Parties \ {p} :
                /\ q \notin e.gone /\ e.rows[q] = RowsMoved(p, from, to)[q]
                /\ SitesBy(e)[q] = site[q]
                /\ \A r \in RollSites :
                    <<r, q>> \in LinksBy(e) <=> <<r, q>> \in linked /\ <<r, q>> \notin LinksMoved(from, to),
           \A r \in RollSites : <<r, p>> \in LinksBy(e) <=> r \in to,
           HomesBy(e) = roll, KnownBy(e) = known,
           LET s == SitesBy(e)[p]
           IN  s # None => /\ to = Managed(s.exchange) /\ s.exchange \in known
                           /\ RowsBy(e)[p] = [addr |-> s.addr, status |-> "published"]
                           /\ shown = RowsBy(e)[p]
    PROVE  LeavesSound(Excluding(p, from), Attaching(p, shown, to), e)
<1> SUFFICES ASSUME NEW T \in [RollSites -> Table],
                    TablesBy(Excluding(p, from), Attaching(p, shown, to), T)
             PROVE  SoundAfter(e, T)
  BY DEF LeavesSound
<1> DEFINE R == from \cup to
<1>1. ASSUME NEW r \in RollSites
      PROVE  /\ r \in to => T[r] = With(p, shown, r)
             /\ r \in from \ to => T[r] = Without(p, r)
             /\ r \notin R => T[r] = table[r]
  BY MovedTables DEF TablesBy
<1>2. party \in [Parties -> Maybe(PartyRow)]
  BY DEF Ready, TypeOK
<1>3. ASSUME NEW q \in Parties \ {p}
      PROVE  PartySound(q, e, T)
  <2>1. ASSUME NEW r \in RollSites
        PROVE  /\ r \in R => T[r][q] = Routed(On(r), party)[q]
               /\ r \notin R => T[r][q] = table[r][q]
    <3>1. CASE r \in to
      BY <1>1, <1>2, <3>1 DEF Routed, With
    <3>2. CASE r \in from \ to
      BY <1>1, <3>2 DEF Routed, Without
    <3>3. CASE r \notin R
      BY <1>1, <3>3
    <3>4. QED
      BY <3>1, <3>2, <3>3
  <2>2. /\ party[q] # None => RowsBy(e)[q] # None
        /\ party[q] # None /\ party[q].status = "published" => RowsBy(e)[q] = party[q]
    BY DEF RowsBy, RowsMoved, Settled
  <2>3. ASSUME NEW r \in RollSites
        PROVE  <<r, q>> \in LinksMoved(from, to) => r \in R /\ party[q].status = "deleted"
    BY DEF Dropped, LinksMoved
  <2>4. QED
    BY <2>1, <2>2, <2>3, PublishedSound
<1>4. PartySound(p, e, T)
  <2> DEFINE s == SitesBy(e)[p]
  <2>1. ASSUME NEW r \in RollSites
        PROVE  /\ r \notin to => T[r][p] = None
               /\ r \in to /\ shown # None /\ shown.status = "published" => T[r][p] = shown.addr
    <3>1. CASE r \in to
      BY <1>1, <1>2, <3>1 DEF Routed, With
    <3>2. CASE r \in from \ to
      BY <1>1, <3>2 DEF Routed, Without
    <3>3. CASE r \notin R
      BY <1>1, <3>3, LinkLeads
    <3>4. QED
      BY <3>1, <3>2, <3>3
  <2>2. ASSUME s # None
        PROVE  SiteHolds(s, RowsBy(e)[p], p, LinksBy(e), HomesBy(e), KnownBy(e), T)
    <3>1. /\ to = Managed(s.exchange) /\ s.exchange \in known
          /\ RowsBy(e)[p] = [addr |-> s.addr, status |-> "published"]
          /\ shown = [addr |-> s.addr, status |-> "published"]
      BY <2>2
    <3>2. \A r \in RollSites : roll[r] = s.exchange <=> r \in to
      BY <3>1 DEF Managed
    <3>3. \A r \in to : T[r][p] = s.addr
      BY <2>1, <2>2, <3>1
    <3>4. QED
      BY <3>1, <3>2, <3>3 DEF SiteHolds
  <2>3. QED
    BY <2>1, <2>2 DEF PartySound, IsManaged
<1>5. QED
  BY <1>3, <1>4, PartyByParty

\* A joined site is routed elsewhere by the roll sites it is on.
LEMMA AttachedLeaves ==
    ASSUME Ready, NEW p \in Parties, Joined(p), NEW a \in Addresses, NEW shown, NEW e,
           shown = [addr |-> a, status |-> "published"],
           \A q \in Parties \ {p} : RowsBy(e)[q] = party[q] /\ SitesBy(e)[q] = site[q],
           RowsBy(e)[p] = shown,
           SitesBy(e)[p] = [exchange |-> site[p].exchange, addr |-> a],
           LinksBy(e) = linked, HomesBy(e) = roll, KnownBy(e) = known
    PROVE  LeavesSound(Attaching(p, shown, RollsOf(p)), {}, e)
<1> SUFFICES ASSUME NEW T \in [RollSites -> Table],
                    TablesBy(Attaching(p, shown, RollsOf(p)), {}, T)
             PROVE  SoundAfter(e, T)
  BY DEF LeavesSound
<1> DEFINE R == RollsOf(p)
<1>1. ASSUME NEW r \in RollSites
      PROVE  /\ r \in R => T[r] = With(p, shown, r)
             /\ r \notin R => T[r] = table[r]
  BY AttachedTables DEF TablesBy
<1>2. party \in [Parties -> Maybe(PartyRow)] /\ R \in SUBSET RollSites
  BY DEF Ready, TypeOK, RollsOf
<1>3. shown \in PartyRow /\ shown # None
  BY NoneAssumption DEF PartyRow
<1>4. ASSUME NEW q \in Parties \ {p}
      PROVE  PartySound(q, e, T)
  <2>1. ASSUME NEW r \in RollSites
        PROVE  /\ r \in R => T[r][q] = Routed(On(r), party)[q]
               /\ r \notin R => T[r][q] = table[r][q]
    BY <1>1, <1>2 DEF Routed, With
  <2>2. QED
    BY <1>2, <2>1, PublishedSound
<1>5. PartySound(p, e, T)
  <2>1. \A r \in RollSites :
            /\ r \in R => T[r][p] = a
            /\ r \notin R => T[r][p] = None
    <3>1. ASSUME NEW r \in RollSites, r \in R
          PROVE  T[r][p] = a
      BY <1>1, <1>2, <1>3, <3>1 DEF Routed, With
    <3>2. ASSUME NEW r \in RollSites, r \notin R
          PROVE  T[r][p] = None
      BY <1>1, <3>2, LinkLeads
    <3>3. QED
      BY <3>1, <3>2
  <2>2. /\ site[p].exchange \in known /\ RollsOf(p) = Managed(site[p].exchange)
        /\ \A r \in RollSites : <<r, p>> \in linked <=> r \in R
        /\ \A r \in R : IsManaged(r)
    BY JoinedStands, LinkLeads DEF RollsOf
  <2>3. \A r \in RollSites : roll[r] = site[p].exchange <=> r \in R
    BY <2>2 DEF Managed
  <2>4. QED
    BY <1>3, <2>1, <2>2, <2>3 DEF PartySound, SiteHolds, IsManaged
<1>6. QED
  BY <1>4, <1>5, PartyByParty

\* A roll site is published.
LEMMA PublishLeaves ==
    ASSUME Ready, NEW r \in RollSites
    PROVE  LeavesSound({[roll |-> r, table |-> Routed(On(r), party)]}, {},
                       [Keep EXCEPT !.rows = Settled(On(r)), !.cut = Dropped({r})])
<1> DEFINE shown == Routed(On(r), party)
           first == {[roll |-> r, table |-> shown]}
           e == [Keep EXCEPT !.rows = Settled(On(r)), !.cut = Dropped({r})]
<1> SUFFICES ASSUME NEW T \in [RollSites -> Table], TablesBy(first, {}, T)
             PROVE  SoundAfter(e, T)
  BY DEF LeavesSound
<1>1. /\ T[r] = Routed(On(r), party)
      /\ \A k \in RollSites \ {r} : T[k] = table[k]
  <2>1. ASSUME NEW k \in RollSites
        PROVE  /\ k = r => T[k] = shown
               /\ k # r => T[k] = table[k]
    <3> HIDE DEF shown
    <3>1. first = {[roll |-> r, table |-> shown]}
      OBVIOUS
    <3> HIDE DEF first
    <3>2. QED
      BY <3>1, OneTable DEF TablesBy
  <2>2. QED
    BY <2>1
<1>2. /\ e.rows = Settled(On(r)) /\ e.gone = {} /\ e.cut = Dropped({r}) /\ e.tied = {}
      /\ e.homes = [k \in RollSites |-> None] /\ e.dropped = {}
      /\ e.opened = {} /\ e.closed = {} /\ e.joined = Nothing /\ e.left = {}
  BY DEF Keep
<1> HIDE DEF e
<1>3. HomesBy(e) = roll /\ KnownBy(e) = known
  BY <1>2 DEF HomesBy, KnownBy, Ready, TypeOK
<1>4. ASSUME NEW q \in Parties
      PROVE  PartySound(q, e, T)
  <2>1. SitesBy(e)[q] = site[q]
    BY <1>2 DEF SitesBy, Nothing
  <2>2. /\ party[q] # None => RowsBy(e)[q] # None
        /\ party[q] # None /\ party[q].status = "published" => RowsBy(e)[q] = party[q]
    BY <1>2 DEF RowsBy, Settled
  <2>3. \A k \in RollSites :
            <<k, q>> \in LinksBy(e) <=>
                <<k, q>> \in linked /\ ~(k = r /\ party[q] # None /\ party[q].status = "deleted")
    BY <1>2 DEF LinksBy, Dropped
  <2>4. QED
    BY <1>1, <1>3, <2>1, <2>2, <2>3, PublishedSound
<1>5. QED
  BY <1>4, PartyByParty

\* Roll sites are cleared and given up, along with exchanges C that no site
\* has joined.
LEMMA ClearedLeaves ==
    ASSUME Ready, NEW R \in SUBSET RollSites, NEW C, NEW e,
           \A p \in Parties : Joined(p) => site[p].exchange \notin C,
           /\ e.rows = Nothing /\ e.gone = {} /\ e.cut = R \X Parties /\ e.tied = {}
           /\ e.homes = [k \in RollSites |-> None] /\ e.dropped = R
           /\ e.opened = {} /\ e.closed = C /\ e.joined = Nothing /\ e.left = {}
    PROVE  LeavesSound(Cleared(R), {}, e)
<1> SUFFICES ASSUME NEW T \in [RollSites -> Table], TablesBy(Cleared(R), {}, T)
             PROVE  SoundAfter(e, T)
  BY DEF LeavesSound
<1>1. ASSUME NEW r \in RollSites
      PROVE  /\ r \in R => T[r] = Nothing
             /\ r \notin R => T[r] = table[r]
  BY WipedTables DEF TablesBy
<1>2. ASSUME NEW q \in Parties
      PROVE  PartySound(q, e, T)
  <2>1. /\ SitesBy(e)[q] = site[q] /\ RowsBy(e)[q] = party[q]
        /\ KnownBy(e) = known \ C
    BY DEF SitesBy, RowsBy, KnownBy, Nothing
  <2>2. ASSUME NEW r \in RollSites
        PROVE  /\ r \in R => HomesBy(e)[r] = "deleted" /\ T[r][q] = None
               /\ r \notin R => HomesBy(e)[r] = roll[r] /\ T[r][q] = table[r][q]
               /\ <<r, q>> \in LinksBy(e) <=> <<r, q>> \in linked /\ r \notin R
    BY <1>1 DEF HomesBy, LinksBy, Nothing
  <2>3. ASSUME Joined(q)
        PROVE  SiteHolds(site[q], party[q], q, LinksBy(e), HomesBy(e), KnownBy(e), T)
    <3>1. /\ site[q].exchange \in KnownBy(e)
          /\ site[q].exchange # "deleted"
          /\ party[q] = [addr |-> site[q].addr, status |-> "published"]
      BY <2>1, <2>3, JoinedStands DEF NotManaged
    <3>2. ASSUME NEW r \in RollSites
          PROVE  IF HomesBy(e)[r] = site[q].exchange
                 THEN <<r, q>> \in LinksBy(e) /\ T[r][q] = site[q].addr
                 ELSE <<r, q>> \notin LinksBy(e)
      <4>1. /\ roll[r] = site[q].exchange => <<r, q>> \in linked /\ table[r][q] = site[q].addr
            /\ roll[r] # site[q].exchange => <<r, q>> \notin linked
        BY <2>3, JoinedStands
      <4>2. QED
        BY <2>2, <3>1, <4>1
    <3>3. QED
      BY <3>1, <3>2 DEF SiteHolds
  <2>4. QED
    BY <2>1, <2>2, <2>3, LinkLeads DEF PartySound, Joined, IsManaged
<1>3. QED
  BY <1>2, PartyByParty

\* A table is read back for the pages.
LEMMA QueryLeaves ==
    ASSUME Ready, NEW r \in RollSites, NEW e,
           LET given == {p \in Parties : table[r][p] # None}
           IN  /\ \A p \in Parties :
                    e.rows[p] = IF p \in given \cap On(r) /\ party[p].addr # table[r][p]
                                THEN TakenOver(party[p], table[r][p])
                                ELSE IF p \in given /\ party[p] = None THEN Found(table[r][p])
                                ELSE None
               /\ e.tied = {r} \X given
               /\ e.cut = {r} \X {p \in On(r) \ given : party[p].status = "published"},
           /\ e.gone = {} /\ e.homes = [k \in RollSites |-> None] /\ e.dropped = {}
           /\ e.opened = {} /\ e.closed = {} /\ e.joined = Nothing /\ e.left = {}
    PROVE  LeavesSound({}, {}, e)
<1> SUFFICES ASSUME NEW T \in [RollSites -> Table], TablesBy({}, {}, T)
             PROVE  SoundAfter(e, T)
  BY DEF LeavesSound
<1>1. \A k \in RollSites : T[k] = table[k]
  BY NoTables DEF TablesBy, TableBy
<1>2. HomesBy(e) = roll /\ KnownBy(e) = known
  BY DEF HomesBy, KnownBy, Ready, TypeOK
<1>3. ASSUME NEW q \in Parties
      PROVE  PartySound(q, e, T)
  <2>1. SitesBy(e)[q] = site[q]
    BY DEF SitesBy, Nothing
  <2>2. ASSUME NEW k \in RollSites
        PROVE  <<k, q>> \in LinksBy(e) <=>
                    <<k, q>> \in linked /\ ~(k = r /\ table[r][q] = None /\ party[q].status = "published")
    <3>1. table[r][q] # None => <<r, q>> \in linked
      BY LinkLeads
    <3>2. <<r, q>> \in linked <=> q \in On(r)
      BY LinkLeads
    <3>3. QED
      BY <3>1, <3>2 DEF LinksBy
  <2>3. party[q] # None => RowsBy(e)[q] # None
    BY DEF RowsBy
  <2>4. ASSUME Joined(q)
        PROVE  /\ RowsBy(e)[q] = party[q]
               /\ \A k \in RollSites : <<k, q>> \in LinksBy(e) <=> <<k, q>> \in linked
    <3>1. /\ party[q] # None /\ party[q].addr = site[q].addr
          /\ roll[r] = site[q].exchange => <<r, q>> \in linked /\ table[r][q] = site[q].addr
          /\ roll[r] # site[q].exchange => <<r, q>> \notin linked /\ table[r][q] = None
          /\ site[q].addr # None
      BY <2>4, JoinedStands
    <3>2. e.rows[q] = None
      BY <3>1
    <3>3. QED
      BY <2>2, <3>1, <3>2 DEF RowsBy
  <2>5. ASSUME Joined(q)
        PROVE  SiteHolds(site[q], party[q], q, LinksBy(e), HomesBy(e), KnownBy(e), T)
    BY <1>1, <1>2, <2>4, <2>5, JoinedStands DEF SiteHolds
  <2>6. ASSUME NEW k \in RollSites, T[k][q] # None
        PROVE  <<k, q>> \in LinksBy(e)
    BY <1>1, <2>2, <2>6, LinkLeads
  <2>7. QED
    BY <1>2, <2>1, <2>2, <2>3, <2>4, <2>5, <2>6, LinkLeads DEF PartySound, Joined, IsManaged
<1>4. QED
  BY <1>3, PartyByParty

\* Parties are sent with a managed roll site.
LEMMA UpdateRollSiteLeaves ==
    ASSUME Ready, NEW r \in RollSites, IsManaged(r), NEW B \in Beans(r), NEW e,
           /\ e.rows = B /\ e.gone = {} /\ e.cut = {} /\ e.tied = {r} \X Sent(B)
           /\ e.homes = [k \in RollSites |-> None] /\ e.dropped = {}
           /\ e.opened = {} /\ e.closed = {} /\ e.joined = Nothing /\ e.left = {}
    PROVE  LeavesSound({}, {}, e)
<1> SUFFICES ASSUME NEW T \in [RollSites -> Table], TablesBy({}, {}, T)
             PROVE  SoundAfter(e, T)
  BY DEF LeavesSound
<1>1. \A k \in RollSites : T[k] = table[k]
  BY NoTables DEF TablesBy, TableBy
<1>2. HomesBy(e) = roll /\ KnownBy(e) = known
  BY DEF HomesBy, KnownBy, Ready, TypeOK
<1>3. ASSUME NEW q \in Parties
      PROVE  PartySound(q, e, T)
  <2>1. SitesBy(e)[q] = site[q]
    BY DEF SitesBy, Nothing
  <2>2. ASSUME NEW k \in RollSites
        PROVE  <<k, q>> \in LinksBy(e) <=> <<k, q>> \in linked \/ (k = r /\ q \in Sent(B))
    BY DEF LinksBy
  <2>3. /\ party[q] # None => RowsBy(e)[q] # None
        /\ q \in Sent(B) => RowsBy(e)[q] # None
    BY DEF RowsBy, Sent
  <2>4. ASSUME Joined(q)
        PROVE  q \notin Sent(B) /\ RowsBy(e)[q] = party[q]
    <3>1. B[q] \in Bean(r, q)
      BY DEF Beans
    <3>2. B[q] = None
      BY <2>4, <3>1 DEF Bean, IsManaged, NotManaged
    <3>3. QED
      BY <3>2 DEF Sent, RowsBy
  <2>5. ASSUME Joined(q)
        PROVE  SiteHolds(site[q], party[q], q, LinksBy(e), HomesBy(e), KnownBy(e), T)
    BY <1>1, <1>2, <2>2, <2>4, <2>5, JoinedStands DEF SiteHolds
  <2>6. ASSUME NEW k \in RollSites, T[k][q] # None
        PROVE  <<k, q>> \in LinksBy(e)
    BY <1>1, <2>2, <2>6, LinkLeads
  <2>7. QED
    BY <1>2, <2>1, <2>2, <2>3, <2>4, <2>5, <2>6, LinkLeads DEF PartySound, Joined, IsManaged
<1>4. QED
  BY <1>3, PartyByParty

\* A roll site comes to an exchange: the sites that have joined it are put on
\* the roll site.
LEMMA AddRollSiteLeaves ==
    ASSUME Ready, NEW r \in RollSites, roll[r] = "unused", NEW x \in known, NEW B \in Beans(r),
           NEW given, NEW e,
           \A p \in Parties :
                given[p] = IF p \in Unsent(x, B) THEN party[p].addr
                           ELSE IF p \in PublishedOf(B) THEN B[p].addr ELSE None,
           /\ e.rows = B /\ e.gone = {} /\ e.cut = {}
           /\ e.tied = {r} \X (Sent(B) \cup Unsent(x, B))
           /\ e.homes = [k \in RollSites |-> IF k = r THEN x ELSE None] /\ e.dropped = {}
           /\ e.opened = {} /\ e.closed = {} /\ e.joined = Nothing /\ e.left = {}
    PROVE  LeavesSound(IF Unsent(x, B) = {} THEN {} ELSE {[roll |-> r, table |-> given]}, {}, e)
<1> DEFINE New == Unsent(x, B)
           first == IF New = {} THEN {} ELSE {[roll |-> r, table |-> given]}
<1> SUFFICES ASSUME NEW T \in [RollSites -> Table], TablesBy(first, {}, T)
             PROVE  SoundAfter(e, T)
  BY DEF LeavesSound
<1>1. /\ \A k \in RollSites \ {r} : T[k] = table[k]
      /\ T[r] = given \/ (New = {} /\ T[r] = table[r])
  <2>1. CASE New = {}
    BY <2>1, NoTables DEF TablesBy, TableBy
  <2>2. CASE New # {}
    <3>1. first = {[roll |-> r, table |-> given]}
      BY <2>2
    <3> HIDE DEF first
    <3>2. ASSUME NEW k \in RollSites
          PROVE  /\ k = r => T[k] = given
                 /\ k # r => T[k] = table[k]
      BY <3>1, OneTable DEF TablesBy
    <3>3. QED
      BY <3>2
  <2>3. QED
    BY <2>1, <2>2
<1>2. x \in Exchanges /\ x # None /\ x \notin NotManaged
  BY ExchangeAssumption, NoneAssumption DEF Ready, TypeOK
<1>3. /\ HomesBy(e)[r] = x
      /\ \A k \in RollSites \ {r} : HomesBy(e)[k] = roll[k]
      /\ KnownBy(e) = known
  BY <1>2 DEF HomesBy, KnownBy
<1>4. ASSUME NEW q \in Parties
      PROVE  PartySound(q, e, T)
  <2>1. SitesBy(e)[q] = site[q]
    BY DEF SitesBy, Nothing
  <2>2. ASSUME NEW k \in RollSites
        PROVE  <<k, q>> \in LinksBy(e) <=>
                    <<k, q>> \in linked \/ (k = r /\ q \in Sent(B) \cup New)
    BY DEF LinksBy
  <2>3. <<r, q>> \notin linked /\ table[r][q] = None
    BY LinkLeads DEF IsManaged, NotManaged
  <2>4. /\ party[q] # None => RowsBy(e)[q] # None
        /\ q \in Sent(B) => RowsBy(e)[q] # None
        /\ q \in New => RowsBy(e)[q] # None
    BY DEF RowsBy, Sent, Unsent
  <2>5. T[r][q] # None => q \in Sent(B) \cup New
    BY <1>1, <2>3 DEF PublishedOf
  <2>6. ASSUME Joined(q)
        PROVE  q \notin Sent(B) /\ RowsBy(e)[q] = party[q]
    <3>1. B[q] \in Bean(r, q)
      BY DEF Beans
    <3>2. B[q] = None
      BY <2>3, <2>6, <3>1 DEF Bean
    <3>3. QED
      BY <3>2 DEF Sent, RowsBy
  <2>7. ASSUME Joined(q)
        PROVE  SiteHolds(site[q], party[q], q, LinksBy(e), HomesBy(e), KnownBy(e), T)
    <3>1. /\ site[q].exchange \in KnownBy(e)
          /\ party[q] # None /\ party[q].addr = site[q].addr
          /\ party[q] = [addr |-> site[q].addr, status |-> "published"]
      BY <1>3, <2>7, JoinedStands
    <3>2. q \in New <=> site[q].exchange = x
      BY <2>6, <2>7, <3>1 DEF Unsent
    <3>3. x = site[q].exchange => T[r][q] = site[q].addr
      BY <1>1, <3>1, <3>2
    <3>4. ASSUME NEW k \in RollSites \ {r}
          PROVE  IF HomesBy(e)[k] = site[q].exchange
                 THEN <<k, q>> \in LinksBy(e) /\ T[k][q] = site[q].addr
                 ELSE <<k, q>> \notin LinksBy(e)
      <4>1. /\ roll[k] = site[q].exchange => <<k, q>> \in linked /\ table[k][q] = site[q].addr
            /\ roll[k] # site[q].exchange => <<k, q>> \notin linked
        BY <2>7, JoinedStands
      <4>2. QED
        BY <1>1, <1>3, <2>2, <4>1
    <3>5. IF HomesBy(e)[r] = site[q].exchange
          THEN <<r, q>> \in LinksBy(e) /\ T[r][q] = site[q].addr
          ELSE <<r, q>> \notin LinksBy(e)
      BY <1>3, <2>2, <2>3, <2>6, <2>7, <3>2, <3>3
    <3>6. QED
      BY <3>1, <3>4, <3>5 DEF SiteHolds
  <2>8. ASSUME NEW k \in RollSites, T[k][q] # None
        PROVE  <<k, q>> \in LinksBy(e)
    BY <1>1, <2>2, <2>5, <2>8, LinkLeads
  <2>9. ASSUME NEW k \in RollSites, <<k, q>> \in LinksBy(e)
        PROVE  RowsBy(e)[q] # None /\ HomesBy(e)[k] \notin NotManaged
    BY <1>2, <1>3, <2>2, <2>4, <2>9, LinkLeads DEF IsManaged
  <2>10. QED
    BY <2>1, <2>6, <2>7, <2>8, <2>9 DEF PartySound, Joined
<1>5. QED
  BY <1>4, PartyByParty

\* An exchange comes with its roll sites and their parties.
LEMMA AddExchangeLeaves ==
    ASSUME Ready, NEW x \in Exchanges, x \notin known, NEW R \in SUBSET RollSites, NEW B, NEW e,
           \A r \in R : roll[r] = "unused" /\ \A p \in Sent(B[r]) : ~Joined(p),
           \A p \in Parties : IF \E r \in R : p \in Sent(B[r])
                              THEN e.rows[p] # None ELSE e.rows[p] = None,
           \A r \in RollSites, p \in Parties :
                <<r, p>> \in e.tied <=> r \in R /\ p \in Sent(B[r]),
           \A r \in RollSites : e.homes[r] = IF r \in R THEN x ELSE None,
           /\ e.gone = {} /\ e.cut = {} /\ e.dropped = {}
           /\ e.opened = {x} /\ e.closed = {} /\ e.joined = Nothing /\ e.left = {}
    PROVE  LeavesSound({}, {}, e)
<1> SUFFICES ASSUME NEW T \in [RollSites -> Table], TablesBy({}, {}, T)
             PROVE  SoundAfter(e, T)
  BY DEF LeavesSound
<1>1. \A k \in RollSites : T[k] = table[k]
  BY NoTables DEF TablesBy, TableBy
<1>2. x # None /\ x \notin NotManaged
  BY ExchangeAssumption, NoneAssumption
<1>3. /\ \A k \in RollSites : HomesBy(e)[k] = IF k \in R THEN x ELSE roll[k]
      /\ KnownBy(e) = known \cup {x}
  BY <1>2 DEF HomesBy, KnownBy
<1>4. ASSUME NEW q \in Parties
      PROVE  PartySound(q, e, T)
  <2>1. SitesBy(e)[q] = site[q]
    BY DEF SitesBy, Nothing
  <2>2. ASSUME NEW k \in RollSites
        PROVE  <<k, q>> \in LinksBy(e) <=> <<k, q>> \in linked \/ (k \in R /\ q \in Sent(B[k]))
    BY DEF LinksBy
  <2>3. /\ party[q] # None => RowsBy(e)[q] # None
        /\ \A k \in R : q \in Sent(B[k]) => RowsBy(e)[q] # None
    BY DEF RowsBy
  <2>4. ASSUME NEW k \in R
        PROVE  <<k, q>> \notin linked
    BY <2>4, LinkLeads DEF IsManaged, NotManaged
  <2>5. ASSUME Joined(q)
        PROVE  SiteHolds(site[q], RowsBy(e)[q], q, LinksBy(e), HomesBy(e), KnownBy(e), T)
    <3>1. /\ site[q].exchange \in known
          /\ party[q] = [addr |-> site[q].addr, status |-> "published"]
      BY <2>5, JoinedStands
    <3>2. /\ \A k \in R : q \notin Sent(B[k])
          /\ RowsBy(e)[q] = party[q]
      BY <2>5 DEF RowsBy
    <3>3. ASSUME NEW k \in RollSites
          PROVE  IF HomesBy(e)[k] = site[q].exchange
                 THEN <<k, q>> \in LinksBy(e) /\ T[k][q] = site[q].addr
                 ELSE <<k, q>> \notin LinksBy(e)
      <4>1. /\ roll[k] = site[q].exchange => <<k, q>> \in linked /\ table[k][q] = site[q].addr
            /\ roll[k] # site[q].exchange => <<k, q>> \notin linked
        BY <2>5, JoinedStands
      <4>2. CASE k \in R
        BY <1>3, <2>2, <2>4, <3>1, <3>2, <4>2
      <4>3. CASE k \notin R
        BY <1>1, <1>3, <2>2, <4>1, <4>3
      <4>4. QED
        BY <4>2, <4>3
    <3>4. QED
      BY <1>3, <3>1, <3>2, <3>3 DEF SiteHolds
  <2>6. ASSUME NEW k \in RollSites, T[k][q] # None
        PROVE  <<k, q>> \in LinksBy(e)
    BY <1>1, <2>2, <2>6, LinkLeads
  <2>7. ASSUME NEW k \in RollSites, <<k, q>> \in LinksBy(e)
        PROVE  RowsBy(e)[q] # None /\ HomesBy(e)[k] \notin NotManaged
    BY <1>2, <1>3, <2>2, <2>3, <2>7, LinkLeads DEF IsManaged
  <2>8. QED
    BY <2>1, <2>5, <2>6, <2>7 DEF PartySound, Joined
<1>5. QED
  BY <1>4, PartyByParty

-----------------------------------------------------------------------------
(* Every request leaves a sound database and sound tables                  *)

BeginsSound(t) ==
    \E first, second, effect :
        /\ Begin(t, first, second, effect)
        /\ Forgetting(effect) = {} => LeavesSound(first, second, effect)

LEMMA ArrangeIsSound ==
    ASSUME Ready, NEW t \in Threads, Arrange(t)
    PROVE  BeginsSound(t)
<1>1. ASSUME NEW x \in Exchanges, NEW R \in SUBSET {r \in RollSites : roll[r] = "unused"},
             NEW B, AddExchange(t, x, R, B)
      PROVE  BeginsSound(t)
  <2> DEFINE homes == [r \in RollSites |-> IF r \in R THEN x ELSE None]
             tied == {l \in R \X Parties : l[2] \in Sent(B[l[1]])}
             effect(rows) == [Keep EXCEPT !.rows = rows, !.opened = {x}, !.homes = homes, !.tied = tied]
  <2>1. PICK rows \in [Parties -> Maybe(PartyRow)] :
            /\ \A p \in Parties :
                IF \E r \in R : p \in Sent(B[r])
                THEN \E r \in R : p \in Sent(B[r]) /\ rows[p] = B[r][p]
                ELSE rows[p] = None
            /\ Begin(t, {}, {}, effect(rows))
    BY <1>1 DEF AddExchange
  <2> DEFINE e == effect(rows)
  <2>2. /\ e.rows = rows /\ e.gone = {} /\ e.cut = {} /\ e.tied = tied
        /\ e.homes = homes /\ e.dropped = {}
        /\ e.opened = {x} /\ e.closed = {} /\ e.joined = Nothing /\ e.left = {}
    BY DEF Keep
  <2> HIDE DEF e
  <2>3. /\ x \notin known
        /\ \A r \in R : roll[r] = "unused" /\ \A p \in Sent(B[r]) : ~Joined(p)
    BY <1>1 DEF AddExchange
  <2>4. \A p \in Parties : IF \E r \in R : p \in Sent(B[r])
                           THEN e.rows[p] # None ELSE e.rows[p] = None
    BY <2>1, <2>2 DEF Sent
  <2>5. /\ R \in SUBSET RollSites
        /\ \A r \in RollSites, p \in Parties : <<r, p>> \in tied <=> r \in R /\ p \in Sent(B[r])
        /\ \A r \in RollSites : homes[r] = IF r \in R THEN x ELSE None
    OBVIOUS
  <2> HIDE DEF tied, homes
  <2>6. LeavesSound({}, {}, e)
    BY <2>2, <2>3, <2>4, <2>5, AddExchangeLeaves
  <2>7. Begin(t, {}, {}, e)
    BY <2>1 DEF e
  <2>8. QED
    BY <2>6, <2>7 DEF BeginsSound
<1>2. ASSUME NEW r \in RollSites, NEW x \in Exchanges, NEW B \in Beans(r), AddRollSite(t, r, x, B)
      PROVE  BeginsSound(t)
  <2> DEFINE New == Unsent(x, B)
             given == [p \in Parties |->
                        IF p \in New THEN party[p].addr
                        ELSE IF p \in PublishedOf(B) THEN B[p].addr ELSE None]
             first == IF New = {} THEN {} ELSE {[roll |-> r, table |-> given]}
             e == [Keep EXCEPT !.rows = B, !.homes[r] = x, !.tied = {r} \X (Sent(B) \cup New)]
  <2>1. Begin(t, first, {}, e) /\ x \in known /\ roll[r] = "unused"
    BY <1>2 DEF AddRollSite
  <2>2. /\ e.rows = B /\ e.gone = {} /\ e.cut = {} /\ e.tied = {r} \X (Sent(B) \cup New)
        /\ e.homes = [k \in RollSites |-> IF k = r THEN x ELSE None] /\ e.dropped = {}
        /\ e.opened = {} /\ e.closed = {} /\ e.joined = Nothing /\ e.left = {}
    BY DEF Keep
  <2>3. \A p \in Parties : given[p] = IF p \in New THEN party[p].addr
                                      ELSE IF p \in PublishedOf(B) THEN B[p].addr ELSE None
    OBVIOUS
  <2> HIDE DEF e, given
  <2>4. LeavesSound(first, {}, e)
    BY <2>1, <2>2, <2>3, AddRollSiteLeaves
  <2>5. QED
    BY <2>1, <2>4 DEF BeginsSound
<1>3. ASSUME NEW r \in RollSites, NEW B \in Beans(r), UpdateRollSite(t, r, B)
      PROVE  BeginsSound(t)
  <2> DEFINE e == [Keep EXCEPT !.rows = B, !.tied = {r} \X Sent(B)]
  <2>1. Begin(t, {}, {}, e) /\ IsManaged(r)
    BY <1>3 DEF UpdateRollSite
  <2>2. /\ e.rows = B /\ e.gone = {} /\ e.cut = {} /\ e.tied = {r} \X Sent(B)
        /\ e.homes = [k \in RollSites |-> None] /\ e.dropped = {}
        /\ e.opened = {} /\ e.closed = {} /\ e.joined = Nothing /\ e.left = {}
    BY DEF Keep
  <2> HIDE DEF e
  <2>3. LeavesSound({}, {}, e)
    BY <2>1, <2>2, UpdateRollSiteLeaves
  <2>4. QED
    BY <2>1, <2>3 DEF BeginsSound
<1>4. ASSUME NEW r \in RollSites, PublishRollSite(t, r)
      PROVE  BeginsSound(t)
  BY <1>4, PublishLeaves DEF PublishRollSite, BeginsSound
<1>5. ASSUME NEW r \in RollSites, DeleteRollSite(t, r)
      PROVE  BeginsSound(t)
  <2> DEFINE e == [Keep EXCEPT !.cut = {r} \X Parties, !.dropped = {r}]
  <2>1. Begin(t, Cleared({r}), {}, e)
    BY <1>5 DEF DeleteRollSite
  <2>2. /\ e.rows = Nothing /\ e.gone = {} /\ e.cut = {r} \X Parties /\ e.tied = {}
        /\ e.homes = [k \in RollSites |-> None] /\ e.dropped = {r}
        /\ e.opened = {} /\ e.closed = {} /\ e.joined = Nothing /\ e.left = {}
    BY DEF Keep
  <2> HIDE DEF e
  <2>3. {r} \in SUBSET RollSites
    OBVIOUS
  <2>4. LeavesSound(Cleared({r}), {}, e)
    BY <2>2, <2>3, ClearedLeaves
  <2>5. QED
    BY <2>1, <2>4 DEF BeginsSound
<1>6. ASSUME NEW x \in Exchanges, DeleteExchange(t, x)
      PROVE  BeginsSound(t)
  <2> DEFINE R == Managed(x)
             e == [Keep EXCEPT !.cut = R \X Parties, !.dropped = R, !.closed = {x}]
  <2>1. /\ Begin(t, Cleared(R), {}, e)
        /\ \A p \in Parties : Joined(p) => site[p].exchange \notin {x}
    BY <1>6 DEF DeleteExchange
  <2>2. /\ e.rows = Nothing /\ e.gone = {} /\ e.cut = R \X Parties /\ e.tied = {}
        /\ e.homes = [k \in RollSites |-> None] /\ e.dropped = R
        /\ e.opened = {} /\ e.closed = {x} /\ e.joined = Nothing /\ e.left = {}
    BY DEF Keep
  <2> HIDE DEF e
  <2>3. R \in SUBSET RollSites
    BY DEF Managed
  <2>4. LeavesSound(Cleared(R), {}, e)
    <3> HIDE DEF R
    <3> QED
      BY <2>1, <2>2, <2>3, ClearedLeaves
  <2>5. QED
    BY <2>1, <2>4 DEF BeginsSound
<1>7. ASSUME NEW r \in RollSites, QueryExchange(t, r)
      PROVE  BeginsSound(t)
  <2> DEFINE given == {p \in Parties : table[r][p] # None}
             rows == [p \in Parties |->
                    IF p \in given \cap On(r) /\ party[p].addr # table[r][p]
                    THEN TakenOver(party[p], table[r][p])
                    ELSE IF p \in given /\ party[p] = None THEN Found(table[r][p])
                    ELSE None]
             cut == {r} \X {p \in On(r) \ given : party[p].status = "published"}
             e == [Keep EXCEPT !.rows = rows, !.tied = {r} \X given, !.cut = cut]
  <2>1. Begin(t, {}, {}, e)
    BY <1>7 DEF QueryExchange
  <2>2. /\ e.rows = rows /\ e.gone = {} /\ e.cut = cut /\ e.tied = {r} \X given
        /\ e.homes = [k \in RollSites |-> None] /\ e.dropped = {}
        /\ e.opened = {} /\ e.closed = {} /\ e.joined = Nothing /\ e.left = {}
    <3> HIDE DEF rows, cut, given
    <3> QED
      BY DEF Keep
  <2> HIDE DEF e
  <2>3. LeavesSound({}, {}, e)
    BY <2>2, QueryLeaves
  <2>4. QED
    BY <2>1, <2>3 DEF BeginsSound
<1>8. QED
  BY <1>1, <1>2, <1>3, <1>4, <1>5, <1>6, <1>7 DEF Arrange

LEMMA MovedFields ==
    ASSUME NEW p \in Parties, NEW row, NEW from, NEW to, NEW m, m = Moved(p, row, from, to)
    PROVE  /\ \A q \in Parties : m.rows[q] = IF q = p THEN row ELSE RowsMoved(p, from, to)[q]
           /\ \A r \in RollSites, q \in Parties :
                /\ <<r, q>> \in m.cut <=> <<r, q>> \in LinksMoved(from, to) \/ (r \in from /\ q = p)
                /\ <<r, q>> \in m.tied <=> r \in to /\ q = p
           /\ \A r \in RollSites : m.homes[r] = None
           /\ \A q \in Parties : m.joined[q] = None
           /\ m.gone = {} /\ m.left = {} /\ m.dropped = {} /\ m.opened = {} /\ m.closed = {}
<1> DEFINE rows == [RowsMoved(p, from, to) EXCEPT ![p] = row]
           cut == LinksMoved(from, to) \cup (from \X {p})
           tied == to \X {p}
<1>1. m = [Keep EXCEPT !.rows = rows, !.cut = cut, !.tied = tied]
  BY DEF Moved, RowsMoved, LinksMoved
<1>2. \A q \in Parties : rows[q] = IF q = p THEN row ELSE RowsMoved(p, from, to)[q]
  BY DEF RowsMoved, Settled
<1>3. \A r \in RollSites, q \in Parties :
        /\ <<r, q>> \in cut <=> <<r, q>> \in LinksMoved(from, to) \/ (r \in from /\ q = p)
        /\ <<r, q>> \in tied <=> r \in to /\ q = p
  OBVIOUS
<1> HIDE DEF rows, cut, tied
<1>4. /\ m.rows = rows /\ m.cut = cut /\ m.tied = tied /\ m.gone = {} /\ m.left = {}
      /\ m.joined = Nothing
      /\ m.homes = [r \in RollSites |-> None] /\ m.dropped = {}
      /\ m.opened = {} /\ m.closed = {}
  BY <1>1 DEF Keep
<1>5. QED
  BY <1>2, <1>3, <1>4 DEF Nothing

LEMMA MovedIsSound ==
    ASSUME Ready, NEW p \in Parties, NEW row \in Maybe(PartyRow), NEW shown,
           NEW from \in SUBSET RollSites, NEW to \in SUBSET RollSites,
           NEW m, m = Moved(p, row, from, to), NEW e,
           \A r \in RollSites : <<r, p>> \in linked => r \in from,
           \A r \in to : IsManaged(r),
           /\ e.rows = m.rows /\ e.tied = m.tied /\ e.gone \subseteq {p} /\ e.left \subseteq {p}
           /\ e.cut = m.cut \/ e.cut = m.cut \cup (RollSites \X {p})
           /\ \A q \in Parties \ {p} : e.joined[q] = None
           /\ e.homes = m.homes /\ e.dropped = m.dropped
           /\ e.opened = m.opened /\ e.closed = m.closed,
           to # {} => row # None /\ e.gone = {},
           \/ SitesBy(e)[p] = None
           \/ \E x \in known, a \in Addresses :
                /\ SitesBy(e)[p] = [exchange |-> x, addr |-> a]
                /\ to = Managed(x) /\ e.gone = {}
                /\ row = [addr |-> a, status |-> "published"] /\ shown = row
    PROVE  LeavesSound(Excluding(p, from), Attaching(p, shown, to), e)
<1>1. /\ \A q \in Parties : m.rows[q] = IF q = p THEN row ELSE RowsMoved(p, from, to)[q]
      /\ \A r \in RollSites, q \in Parties :
            /\ <<r, q>> \in m.cut <=> <<r, q>> \in LinksMoved(from, to) \/ (r \in from /\ q = p)
            /\ <<r, q>> \in m.tied <=> r \in to /\ q = p
      /\ \A r \in RollSites : m.homes[r] = None
      /\ m.dropped = {} /\ m.opened = {} /\ m.closed = {}
  BY MovedFields
<1>2. /\ \A q \in Parties \ {p} :
            /\ q \notin e.gone /\ e.rows[q] = RowsMoved(p, from, to)[q]
            /\ SitesBy(e)[q] = site[q]
            /\ \A r \in RollSites :
                <<r, q>> \in LinksBy(e) <=> <<r, q>> \in linked /\ <<r, q>> \notin LinksMoved(from, to)
      /\ \A r \in RollSites : <<r, p>> \in LinksBy(e) <=> r \in to
      /\ HomesBy(e) = roll /\ KnownBy(e) = known
      /\ e.rows[p] = row
  <2>1. ASSUME NEW r \in RollSites, NEW q \in Parties
        PROVE  /\ q # p => (<<r, q>> \in e.cut <=> <<r, q>> \in LinksMoved(from, to))
               /\ q = p /\ r \in from => <<r, q>> \in e.cut
               /\ <<r, q>> \in e.tied <=> r \in to /\ q = p
    <3>1. /\ <<r, q>> \in m.cut <=> <<r, q>> \in LinksMoved(from, to) \/ (r \in from /\ q = p)
          /\ <<r, q>> \in m.tied <=> r \in to /\ q = p
      BY <1>1
    <3>2. \/ <<r, q>> \in e.cut <=> <<r, q>> \in m.cut
          \/ <<r, q>> \in e.cut <=> <<r, q>> \in m.cut \/ q = p
      OBVIOUS
    <3>3. QED
      BY <3>1, <3>2
  <2>2. \A r \in RollSites, q \in Parties \ {p} :
            <<r, q>> \in LinksBy(e) <=> <<r, q>> \in linked /\ <<r, q>> \notin LinksMoved(from, to)
    BY <2>1 DEF LinksBy
  <2>3. \A r \in RollSites : <<r, p>> \in LinksBy(e) <=> r \in to
    BY <2>1 DEF LinksBy
  <2>4. HomesBy(e) = roll /\ KnownBy(e) = known
    BY <1>1 DEF HomesBy, KnownBy, Ready, TypeOK
  <2>5. \A q \in Parties \ {p} : SitesBy(e)[q] = site[q] /\ q \notin e.gone
    BY DEF SitesBy
  <2>6. e.rows[p] = row /\ \A q \in Parties \ {p} : e.rows[q] = RowsMoved(p, from, to)[q]
    BY <1>1
  <2>7. QED
    BY <2>2, <2>3, <2>4, <2>5, <2>6
<1>3. row # None /\ e.gone = {} => RowsBy(e)[p] = row
  BY <1>2 DEF RowsBy
<1>4. to # {} => RowsBy(e)[p] # None
  BY <1>3
<1>5. LET s == SitesBy(e)[p]
      IN  s # None => /\ to = Managed(s.exchange) /\ s.exchange \in known
                      /\ RowsBy(e)[p] = [addr |-> s.addr, status |-> "published"]
                      /\ shown = RowsBy(e)[p]
  <2>1. CASE SitesBy(e)[p] = None
    BY <2>1
  <2>2. ASSUME NEW x \in known, NEW a \in Addresses,
               SitesBy(e)[p] = [exchange |-> x, addr |-> a],
               to = Managed(x), e.gone = {},
               row = [addr |-> a, status |-> "published"], shown = row
        PROVE  /\ to = Managed(SitesBy(e)[p].exchange) /\ SitesBy(e)[p].exchange \in known
               /\ RowsBy(e)[p] = [addr |-> SitesBy(e)[p].addr, status |-> "published"]
               /\ shown = RowsBy(e)[p]
    <3>1. [addr |-> a, status |-> "published"] \in PartyRow
      BY DEF PartyRow
    <3>2. RowsBy(e)[p] = row
      BY <1>3, <2>2, <3>1, NoneAssumption
    <3>3. QED
      BY <2>2, <3>2
  <2>3. QED
    BY <2>1, <2>2
<1>6. QED
  BY <1>2, <1>4, <1>5, MovedLeaves

LEMMA LeaveIsSound ==
    ASSUME Ready, NEW t \in Threads, NEW p \in Parties
    PROVE  Reset(t, p) \/ DeleteSite(t, p) => BeginsSound(t)
<1>1. TypeOK /\ RollsOf(p) \in SUBSET RollSites /\ {} \in SUBSET RollSites /\ {p} \in SUBSET Parties
  BY DEF Ready, RollsOf
<1>2. \A r \in RollSites : <<r, p>> \in linked => r \in RollsOf(p)
  BY LinkLeads
<1>3. Attaching(p, None, {}) = {}
  BY DEF Attaching
<1>4. ASSUME NEW row \in Maybe(PartyRow), NEW from \in SUBSET RollSites, NEW m, NEW e,
             m = Moved(p, row, from, {}), e.left = {p}, e.gone \subseteq {p},
             /\ e.rows = m.rows /\ e.cut = m.cut /\ e.tied = m.tied /\ e.joined = m.joined
             /\ e.homes = m.homes /\ e.dropped = m.dropped
             /\ e.opened = m.opened /\ e.closed = m.closed,
             \A r \in RollSites : <<r, p>> \in linked => r \in from
      PROVE  LeavesSound(Excluding(p, from), {}, e)
  <2>1. \A q \in Parties : e.joined[q] = None
    BY <1>4, MovedFields
  <2>2. SitesBy(e)[p] = None
    BY <1>4 DEF SitesBy
  <2>3. LeavesSound(Excluding(p, from), Attaching(p, None, {}), e)
    BY <1>1, <1>4, <2>1, <2>2, MovedIsSound
  <2>4. QED
    BY <1>3, <2>3
<1>5. ASSUME Reset(t, p)
      PROVE  BeginsSound(t)
  <2> DEFINE row == [party[p] EXCEPT !.status = "reset"]
             from == RollsOf(p)
             m == Moved(p, row, from, {})
             e == [m EXCEPT !.left = {p}]
  <2>1. Begin(t, Excluding(p, from), {}, e)
    BY <1>5 DEF Reset
  <2>2. row \in Maybe(PartyRow)
    BY <1>1, <1>5 DEF Reset, TypeOK, Maybe, PartyRow
  <2> HIDE DEF row, from
  <2>3. m \in Effect
    BY <1>1, <2>2, MovedType DEF from
  <2>4. m.gone = {}
    BY MovedFields
  <2> HIDE DEF m
  <2>5. /\ e.rows = m.rows /\ e.cut = m.cut /\ e.tied = m.tied /\ e.gone = m.gone
        /\ e.left = {p} /\ e.joined = m.joined /\ e.homes = m.homes /\ e.dropped = m.dropped
        /\ e.opened = m.opened /\ e.closed = m.closed
    BY <2>3 DEF Effect
  <2> HIDE DEF e
  <2>6. LeavesSound(Excluding(p, from), {}, e)
    BY <1>1, <1>2, <1>4, <2>2, <2>4, <2>5 DEF m, from
  <2>7. QED
    BY <2>1, <2>6 DEF BeginsSound
<1>6. ASSUME DeleteSite(t, p)
      PROVE  BeginsSound(t)
  <2> DEFINE from == IF Joined(p) THEN RollsOf(p) ELSE {}
             m == Moved(p, None, from, {})
             e == [m EXCEPT !.gone = {p}, !.left = {p}]
  <2>1. Begin(t, Excluding(p, from), {}, e)
    BY <1>6 DEF DeleteSite
  <2>2. from \in SUBSET RollSites
    BY <1>1
  <2>3. Joined(p) => \A r \in RollSites : <<r, p>> \in linked => r \in from
    BY <1>2
  <2>4. ~Joined(p) => from = {}
    OBVIOUS
  <2> HIDE DEF from
  <2>5. m \in Effect
    BY <1>1, <2>2, MovedType DEF Maybe
  <2>6. \A r \in RollSites :
            <<r, p>> \in m.cut <=> <<r, p>> \in LinksMoved(from, {}) \/ r \in from
    BY MovedFields
  <2> HIDE DEF m
  <2>7. /\ e.rows = m.rows /\ e.cut = m.cut /\ e.tied = m.tied /\ e.gone = {p}
        /\ e.left = {p} /\ e.joined = m.joined /\ e.homes = m.homes /\ e.dropped = m.dropped
        /\ e.opened = m.opened /\ e.closed = m.closed
    BY <2>5 DEF Effect
  <2> HIDE DEF e
  <2>8. ASSUME Forgetting(e) = {}
        PROVE  \A r \in RollSites : <<r, p>> \in linked => r \in from
    <3>1. ASSUME NEW r \in RollSites, <<r, p>> \in linked, ~Joined(p)
          PROVE  r \in from
      <4>1. <<r, p>> \in m.cut
        BY <2>7, <2>8, <3>1 DEF Forgetting
      <4>2. <<r, p>> \notin LinksMoved(from, {})
        BY <2>4, <3>1 DEF LinksMoved, Dropped
      <4>3. QED
        BY <2>6, <4>1, <4>2
    <3>2. QED
      BY <2>3, <3>1
  <2>9. Forgetting(e) = {} => LeavesSound(Excluding(p, from), {}, e)
    BY <1>4, <2>2, <2>7, <2>8 DEF m, Maybe
  <2>10. QED
    BY <2>1, <2>9 DEF BeginsSound
<1>7. QED
  BY <1>5, <1>6

LEMMA JoinIsSound ==
    ASSUME Ready, NEW t \in Threads, NEW p \in Parties, NEW a \in Addresses, NEW x \in Exchanges
    PROVE  Activate(t, p, x, a) \/ EditExchange(t, p, x, a) => BeginsSound(t)
<1>1. TypeOK /\ RollsOf(p) \in SUBSET RollSites /\ \A y : Managed(y) \in SUBSET RollSites
  BY DEF Ready, RollsOf, Managed
<1>2. \A r \in RollSites : <<r, p>> \in linked => r \in RollsOf(p) /\ party[p] # None
  BY LinkLeads
<1>3. \A r \in Managed(x) : IsManaged(r)
  BY ExchangeAssumption DEF Managed, IsManaged
<1>4. [exchange |-> x, addr |-> a] \in JoinedSite /\ [exchange |-> x, addr |-> a] # None
  BY NoneAssumption DEF JoinedSite
<1> DEFINE row == [addr |-> a, status |-> "published"]
           home == [exchange |-> x, addr |-> a]
<1>5. row \in PartyRow /\ row \in Maybe(PartyRow) /\ row # None
  BY NoneAssumption DEF PartyRow, Maybe
<1>6. ASSUME NEW from \in SUBSET RollSites, NEW m, NEW e, x \in known,
             m = Moved(p, row, from, Managed(x)), e.left = {}, e.gone = {},
             e.joined = [m.joined EXCEPT ![p] = home], m.joined \in [Parties -> Maybe(JoinedSite)],
             /\ e.rows = m.rows /\ e.tied = m.tied
             /\ e.cut = m.cut \/ e.cut = m.cut \cup (RollSites \X {p})
             /\ e.homes = m.homes /\ e.dropped = m.dropped
             /\ e.opened = m.opened /\ e.closed = m.closed,
             \A r \in RollSites : <<r, p>> \in linked => r \in from
      PROVE  LeavesSound(Excluding(p, from), Attaching(p, row, Managed(x)), e)
  <2>1. \A q \in Parties : m.joined[q] = None
    BY <1>6, MovedFields
  <2>2. e.joined[p] = home /\ \A q \in Parties \ {p} : e.joined[q] = None
    BY <1>6, <2>1
  <2>3. SitesBy(e)[p] = home
    BY <1>4, <1>6, <2>2 DEF SitesBy
  <2> HIDE DEF row
  <2>4. \E y \in known, b \in Addresses :
            /\ SitesBy(e)[p] = [exchange |-> y, addr |-> b]
            /\ Managed(x) = Managed(y) /\ e.gone = {}
            /\ row = [addr |-> b, status |-> "published"] /\ row = row
    BY <1>6, <2>3 DEF row
  <2>5. QED
    BY <1>1, <1>3, <1>5, <1>6, <2>2, <2>4, MovedIsSound
<1>7. ASSUME Activate(t, p, x, a)
      PROVE  BeginsSound(t)
  <2> DEFINE from == IF party[p] = None THEN {} ELSE RollsOf(p)
             m == Moved(p, row, from, Managed(x))
             e == [m EXCEPT !.joined[p] = home]
  <2>1. Begin(t, Excluding(p, from), Attaching(p, row, Managed(x)), e) /\ x \in known
    BY <1>7 DEF Activate
  <2>2. /\ from \in SUBSET RollSites
        /\ \A r \in RollSites : <<r, p>> \in linked => r \in from
    BY <1>1, <1>2
  <2> HIDE DEF row, from, home
  <2>3. m \in Effect
    BY <1>1, <1>5, <2>2, MovedType
  <2>4. m.gone = {} /\ m.left = {}
    BY MovedFields
  <2> HIDE DEF m
  <2>5. /\ e.rows = m.rows /\ e.cut = m.cut /\ e.tied = m.tied /\ e.gone = m.gone
        /\ e.left = m.left /\ e.joined = [m.joined EXCEPT ![p] = home]
        /\ e.homes = m.homes /\ e.dropped = m.dropped
        /\ e.opened = m.opened /\ e.closed = m.closed
        /\ m.joined \in [Parties -> Maybe(JoinedSite)]
    BY <2>3 DEF Effect
  <2> HIDE DEF e
  <2>6. LeavesSound(Excluding(p, from), Attaching(p, row, Managed(x)), e)
    BY <1>6, <2>1, <2>2, <2>4, <2>5 DEF m
  <2>7. QED
    BY <2>1, <2>6 DEF BeginsSound
<1>8. ASSUME EditExchange(t, p, x, a)
      PROVE  BeginsSound(t)
  <2> DEFINE from == Managed(site[p].exchange)
             m == Moved(p, row, from, Managed(x))
             e == [m EXCEPT !.cut = @ \cup (RollSites \X {p}), !.joined[p] = home]
  <2>1. /\ party[p] = [addr |-> site[p].addr, status |-> "published"]
        /\ RollsOf(p) = from /\ x \in known
    BY <1>8, JoinedStands DEF EditExchange
  <2>2. EditedRow(p, a) = row /\ [EditedRow(p, a) EXCEPT !.status = "published"] = row
    BY <2>1 DEF EditedRow
  <2>3. Begin(t, Excluding(p, from), Attaching(p, row, Managed(x)), e)
    BY <1>8, <2>2 DEF EditExchange
  <2>4. /\ from \in SUBSET RollSites
        /\ \A r \in RollSites : <<r, p>> \in linked => r \in from
    BY <1>1, <1>2, <2>1
  <2> HIDE DEF row, from, home
  <2>5. m \in Effect
    BY <1>1, <1>5, <2>4, MovedType
  <2>6. m.gone = {} /\ m.left = {}
    BY MovedFields
  <2> HIDE DEF m
  <2>7. /\ e.rows = m.rows /\ e.tied = m.tied /\ e.gone = m.gone
        /\ e.cut = m.cut \cup (RollSites \X {p})
        /\ e.left = m.left /\ e.joined = [m.joined EXCEPT ![p] = home]
        /\ e.homes = m.homes /\ e.dropped = m.dropped
        /\ e.opened = m.opened /\ e.closed = m.closed
        /\ m.joined \in [Parties -> Maybe(JoinedSite)]
    BY <2>5 DEF Effect
  <2> HIDE DEF e
  <2>8. LeavesSound(Excluding(p, from), Attaching(p, row, Managed(x)), e)
    BY <1>6, <2>1, <2>4, <2>6, <2>7 DEF m
  <2>9. QED
    BY <2>3, <2>8 DEF BeginsSound
<1>9. QED
  BY <1>7, <1>8

LEMMA AddressIsSound ==
    ASSUME Ready, NEW t \in Threads, NEW p \in Parties, NEW a \in Addresses
    PROVE  UpdatePartyInfo(t, p, a) \/ EditAddress(t, p, a) => BeginsSound(t)
<1> DEFINE shown == [addr |-> a, status |-> "published"]
           home == [site[p] EXCEPT !.addr = a]
           e == [Keep EXCEPT !.rows[p] = shown, !.joined[p] = home]
<1> SUFFICES ASSUME Joined(p), UpdatePartyInfo(t, p, a) \/ EditAddress(t, p, a)
             PROVE  BeginsSound(t)
  BY DEF UpdatePartyInfo, EditAddress
<1>1. /\ RollsOf(p) = Managed(site[p].exchange) /\ site[p].exchange \in Exchanges
      /\ party[p] = [addr |-> site[p].addr, status |-> "published"]
  BY JoinedStands
<1>2. EditedRow(p, a) = shown /\ [EditedRow(p, a) EXCEPT !.status = "published"] = shown
  BY <1>1 DEF EditedRow
<1>3. Begin(t, Attaching(p, shown, RollsOf(p)), {}, e)
  <2>1. CASE UpdatePartyInfo(t, p, a)
    BY <2>1 DEF UpdatePartyInfo
  <2>2. CASE EditAddress(t, p, a)
    BY <1>1, <1>2, <2>2 DEF EditAddress
  <2>3. QED
    BY <2>1, <2>2
<1>4. home = [exchange |-> site[p].exchange, addr |-> a] /\ home # None /\ shown # None
  <2>1. site[p] \in JoinedSite
    BY DEF Ready, TypeOK, Joined, Maybe
  <2>2. home \in JoinedSite /\ shown \in PartyRow
    BY <2>1 DEF JoinedSite, PartyRow
  <2>3. QED
    BY <2>1, <2>2, NoneAssumption DEF JoinedSite
<1>5. /\ e.rows = [Nothing EXCEPT ![p] = shown] /\ e.joined = [Nothing EXCEPT ![p] = home]
      /\ e.gone = {} /\ e.cut = {} /\ e.tied = {}
      /\ e.homes = [k \in RollSites |-> None] /\ e.dropped = {}
      /\ e.opened = {} /\ e.closed = {} /\ e.left = {}
  <2> HIDE DEF shown, home
  <2> QED
    BY DEF Keep
<1> HIDE DEF e
<1>6. /\ RowsBy(e)[p] = shown /\ SitesBy(e)[p] = home
      /\ \A q \in Parties \ {p} : RowsBy(e)[q] = party[q] /\ SitesBy(e)[q] = site[q]
  <2> HIDE DEF shown, home
  <2> QED
    BY <1>4, <1>5 DEF RowsBy, SitesBy, Nothing
<1>7. LinksBy(e) = linked /\ HomesBy(e) = roll /\ KnownBy(e) = known
  BY <1>5 DEF LinksBy, HomesBy, KnownBy, Ready, TypeOK
<1>8. LeavesSound(Attaching(p, shown, RollsOf(p)), {}, e)
  <2>1. shown = [addr |-> a, status |-> "published"]
    OBVIOUS
  <2> HIDE DEF shown
  <2>2. QED
    BY <1>4, <1>6, <1>7, <2>1, AttachedLeaves
<1>9. QED
  BY <1>3, <1>8 DEF BeginsSound

LEMMA RequestIsSound ==
    ASSUME Ready, NEW t \in Threads, Arrange(t) \/ Change(t)
    PROVE  BeginsSound(t)
<1>1. CASE Arrange(t)
  BY <1>1, ArrangeIsSound
<1>2. CASE Change(t)
  <2>1. PICK p \in Parties :
            \/ Reset(t, p) \/ DeleteSite(t, p)
            \/ \E a \in Addresses : UpdatePartyInfo(t, p, a) \/ EditAddress(t, p, a)
            \/ \E a \in Addresses, x \in Exchanges : Activate(t, p, x, a) \/ EditExchange(t, p, x, a)
    BY <1>2 DEF Change
  <2>2. QED
    BY <2>1, LeaveIsSound, AddressIsSound, JoinIsSound
<1>3. QED
  BY <1>1, <1>2

-----------------------------------------------------------------------------
(* While nothing is disturbed                                              *)

OneRequest == \A t, u \in Threads : Busy(t) /\ Busy(u) => t = u
FreshIsCurrent ==
    \A t \in Threads : Busy(t) => req[t].fresh = {p \in Parties : party[p] = None}
RequestsSound ==
    \A t \in Threads : Busy(t) => LeavesSound(req[t].first, req[t].second, req[t].effect)
DatabaseSound == ~AnyBusy => Settles
\* The round of the timer has seen the table and the rows as they are.
RoundIsCurrent ==
    sync # None /\ sync.at # "next" =>
        /\ sync.roll \in RollSites /\ sync.given = table[sync.roll]
        /\ sync.at = "read" =>
            \A p \in sync.left :
                sync.seen[p] = IF p \in On(sync.roll) THEN party[p] ELSE None
Undisturbed == mishaps = {}
InOrder == OneRequest /\ FreshIsCurrent /\ RequestsSound /\ DatabaseSound /\ RoundIsCurrent
RouteInv == IInv /\ (Undisturbed => InOrder)

LEMMA SameLeaves ==
    ASSUME UNCHANGED <<db, table>>, NEW first, NEW second, NEW e
    PROVE  LeavesSound(first, second, e)' <=> LeavesSound(first, second, e)
<1>1. /\ party' = party /\ linked' = linked /\ roll' = roll /\ known' = known
      /\ site' = site /\ table' = table
  BY DEF db
<1>2. /\ RowsBy(e)' = RowsBy(e) /\ LinksBy(e)' = LinksBy(e) /\ HomesBy(e)' = HomesBy(e)
      /\ KnownBy(e)' = KnownBy(e) /\ SitesBy(e)' = SitesBy(e)
  BY <1>1 DEF RowsBy, LinksBy, HomesBy, KnownBy, SitesBy
<1>3. \A T : TablesBy(first, second, T)' <=> TablesBy(first, second, T)
  BY <1>1 DEF TablesBy, TableBy, GivenBy, PassedBy
<1>4. \A T : SoundAfter(e, T)' <=> SoundAfter(e, T)
  BY <1>2 DEF SoundAfter
<1>5. QED
  BY <1>3, <1>4 DEF LeavesSound

\* A request that begins alone leaves everything in order.
LEMMA BeginInOrder ==
    ASSUME RouteInv, NEW t \in Idle, Arrange(t) \/ Change(t), Undisturbed'
    PROVE  InOrder'
<1>1. t \in Threads /\ TypeOK
  BY DEF Idle, RouteInv, IInv
<1>2. PICK first0, second0, effect0 : Begin(t, first0, second0, effect0)
  BY RequestsBegin DEF Arrange, Change, Begins
<1>3. Undisturbed /\ ~Crossing
  BY <1>2 DEF Begin, Undisturbed
<1>4. InOrder /\ Settles /\ \A u \in Threads : ~Busy(u)
  BY <1>3 DEF RouteInv, InOrder, Crossing, DatabaseSound, AnyBusy
<1>5. PICK first, second, effect :
        /\ Begin(t, first, second, effect)
        /\ Forgetting(effect) = {} => LeavesSound(first, second, effect)
  BY <1>1, <1>4, RequestIsSound DEF Ready, BeginsSound
<1>6. /\ req' = [req EXCEPT ![t] = [first |-> first, second |-> second, effect |-> effect,
                                   fresh |-> {p \in Parties : party[p] = None}]]
      /\ UNCHANGED <<db, table>> /\ sync' = sync
      /\ Forgetting(effect) = {}
  BY <1>5 DEF Begin, Undisturbed
<1>7. /\ req'[t].first = first /\ req'[t].second = second /\ req'[t].effect = effect
      /\ req'[t].fresh = {p \in Parties : party[p] = None}
      /\ \A u \in Threads : Busy(u)' => u = t
  BY <1>1, <1>4, <1>6 DEF Busy, TypeOK
<1>8. LeavesSound(first, second, effect)'
  BY <1>5, <1>6, SameLeaves
<1>9. OneRequest' /\ FreshIsCurrent'
  BY <1>6, <1>7 DEF OneRequest, FreshIsCurrent, db
<1>10. RequestsSound'
  BY <1>7, <1>8 DEF RequestsSound
<1>11. DatabaseSound'
  BY <1>4, <1>6 DEF DatabaseSound, Settles, db
<1>12. RoundIsCurrent'
  BY <1>4, <1>6 DEF InOrder, RoundIsCurrent, On, db
<1>13. QED
  BY <1>9, <1>10, <1>11, <1>12 DEF InOrder

\* A push turns what is still to be pushed into what the table is.
LEMMA PushLeft ==
    ASSUME TypeOK, NEW first, NEW second, NEW push, push.roll \in RollSites,
           push \in IF first # {} THEN first ELSE second,
           table' = [table EXCEPT ![push.roll] = push.table],
           NEW r \in RollSites, NEW given,
           TableBy(first \ {push}, IF first = {} THEN second \ {push} ELSE second, r, given)'
    PROVE  TableBy(first, second, r, given)
<1>1. table'[r] = IF r = push.roll THEN push.table ELSE table[r]
  BY DEF TypeOK
<1>2. CASE first # {}
  <2>1. TableBy(first \ {push}, second, r, given)'
    BY <1>2
  <2>2. QED
    BY <1>1, <1>2, <2>1 DEF TableBy, GivenBy, PassedBy
<1>3. CASE first = {}
  <2>1. TableBy({}, second \ {push}, r, given)'
    BY <1>3
  <2>2. QED
    BY <1>1, <1>3, <2>1 DEF TableBy, GivenBy, PassedBy
<1>4. QED
  BY <1>2, <1>3

LEMMA PushInOrder ==
    ASSUME RouteInv, NEW t \in Threads, PushTable(t), Undisturbed'
    PROVE  InOrder'
<1>1. /\ TypeOK /\ Undisturbed /\ Busy(t)
      /\ db' = db /\ sync' = sync
  BY DEF RouteInv, IInv, PushTable, history, Undisturbed
<1>2. InOrder /\ AnyBusy
  BY <1>1 DEF RouteInv, AnyBusy
<1>3. PICK first, second, e : first = req[t].first /\ second = req[t].second /\ e = req[t].effect
  OBVIOUS
<1>4. req[t] \in Request /\ first \in SUBSET Push /\ second \in SUBSET Push
  BY <1>1, <1>3 DEF TypeOK, Busy, Maybe, Request
<1>5. PICK push \in IF first # {} THEN first ELSE second :
        /\ table' = [table EXCEPT ![push.roll] = push.table]
        /\ req' = [req EXCEPT ![t].first = @ \ {push},
                              ![t].second = IF req[t].first = {} THEN @ \ {push} ELSE @]
  BY <1>3 DEF PushTable
<1>6. push.roll \in RollSites
  BY <1>4 DEF Push
<1>7. /\ req'[t].first = first \ {push}
      /\ req'[t].second = IF first = {} THEN second \ {push} ELSE second
      /\ req'[t].effect = e /\ req'[t].fresh = req[t].fresh
      /\ req'[t] # None
      /\ \A u \in Threads \ {t} : req'[u] = req[u]
  <2> DEFINE after == [req[t] EXCEPT !.first = @ \ {push},
                                    !.second = IF req[t].first = {} THEN @ \ {push} ELSE @]
  <2>1. /\ after.first = first \ {push}
        /\ after.second = IF first = {} THEN second \ {push} ELSE second
        /\ after.effect = e /\ after.fresh = req[t].fresh
        /\ after \in Request
    BY <1>3, <1>4 DEF Request
  <2>2. req'[t] = after /\ \A u \in Threads \ {t} : req'[u] = req[u]
    BY <1>1, <1>5 DEF TypeOK
  <2> HIDE DEF after
  <2>3. QED
    BY <2>1, <2>2, RequestAssumption
<1>8. \A u \in Threads : Busy(u) => u = t
  BY <1>1, <1>2 DEF InOrder, OneRequest
<1>9. Busy(t)' /\ \A u \in Threads : Busy(u)' => u = t
  BY <1>7, <1>8 DEF Busy
<1>10. PICK first2, second2 :
        first2 = first \ {push} /\ second2 = IF first = {} THEN second \ {push} ELSE second
  OBVIOUS
<1>11. ASSUME NEW T, TablesBy(first2, second2, T)'
       PROVE  TablesBy(first, second, T)
  <2>1. SUFFICES ASSUME NEW r \in RollSites
                 PROVE  TableBy(first, second, r, T[r])
    BY DEF TablesBy
  <2>2. TableBy(first2, second2, r, T[r])'
    BY <1>11 DEF TablesBy
  <2>3. TableBy(first \ {push}, IF first = {} THEN second \ {push} ELSE second, r, T[r])'
    BY <1>10, <2>2
  <2>4. QED
    BY <1>1, <1>5, <1>6, <2>3, PushLeft
<1>12. LeavesSound(first, second, e)
  BY <1>1, <1>2, <1>3 DEF InOrder, RequestsSound
<1>13. LeavesSound(first2, second2, e)'
  <2>1. \A T : SoundAfter(e, T)' <=> SoundAfter(e, T)
    <3>1. /\ RowsBy(e)' = RowsBy(e) /\ LinksBy(e)' = LinksBy(e) /\ HomesBy(e)' = HomesBy(e)
          /\ KnownBy(e)' = KnownBy(e) /\ SitesBy(e)' = SitesBy(e)
      BY <1>1 DEF RowsBy, LinksBy, HomesBy, KnownBy, SitesBy, db
    <3>2. QED
      BY <3>1 DEF SoundAfter
  <2>2. QED
    BY <1>11, <1>12, <2>1 DEF LeavesSound
<1>14. RequestsSound'
  BY <1>7, <1>9, <1>10, <1>13 DEF RequestsSound
<1>15. OneRequest' /\ DatabaseSound'
  BY <1>9 DEF OneRequest, DatabaseSound, AnyBusy
<1>16. FreshIsCurrent'
  BY <1>1, <1>2, <1>7, <1>9 DEF InOrder, FreshIsCurrent, db
<1>17. RoundIsCurrent'
  <2>1. sync = None \/ sync.at = "next"
    BY <1>1, <1>2 DEF RouteInv, IInv, NoneBusy, Quiet, Undisturbed
  <2>2. QED
    BY <1>1, <2>1 DEF RoundIsCurrent
<1>18. QED
  BY <1>14, <1>15, <1>16, <1>17 DEF InOrder

\* A request that commits alone leaves what was foreseen.
LEMMA CommitInOrder ==
    ASSUME RouteInv, NEW t \in Threads, Commit(t), Undisturbed'
    PROVE  InOrder'
<1> DEFINE e == req[t].effect
<1>1. /\ TypeOK /\ Undisturbed /\ Busy(t)
      /\ table' = table /\ sync' = sync /\ req' = [req EXCEPT ![t] = None]
      /\ req[t].first = {} /\ req[t].second = {}
  BY DEF RouteInv, IInv, Commit, history, Undisturbed
<1>2. InOrder /\ AnyBusy
  BY <1>1 DEF RouteInv, AnyBusy
<1>3. \A u \in Threads : ~Busy(u)'
  BY <1>1, <1>2 DEF InOrder, OneRequest, Busy, TypeOK
<1>4. req[t].fresh = {p \in Parties : party[p] = None}
  BY <1>1, <1>2 DEF InOrder, FreshIsCurrent
<1>5. ~Duplicate(req[t])
  BY <1>4 DEF Duplicate
<1>6. SoundAfter(e, table)
  <2>1. LeavesSound({}, {}, e)
    BY <1>1, <1>2 DEF InOrder, RequestsSound
  <2>2. TablesBy({}, {}, table)
    BY NoTables DEF TablesBy, TableBy
  <2>3. QED
    BY <1>1, <2>1, <2>2 DEF LeavesSound, TypeOK
<1>7. \A p \in Parties : RowAfter(req[t], p) = RowsBy(e)[p]
  BY <1>4 DEF RowAfter, RowsBy
<1>8. /\ party' = RowsBy(e) /\ linked' = LinksBy(e) /\ roll' = HomesBy(e)
      /\ known' = KnownBy(e) /\ site' = SitesBy(e)
  <2>1. /\ party' = [p \in Parties |-> RowAfter(req[t], p)]
        /\ linked' = (linked \ e.cut) \cup e.tied
        /\ roll' = [r \in RollSites |-> IF e.homes[r] # None THEN e.homes[r]
                                        ELSE IF r \in e.dropped THEN "deleted"
                                        ELSE roll[r]]
        /\ known' = (known \ e.closed) \cup e.opened
        /\ site' = [p \in Parties |-> IF p \in e.left THEN None
                                      ELSE IF e.joined[p] # None THEN e.joined[p]
                                      ELSE site[p]]
    BY <1>5 DEF Commit
  <2>2. party' = RowsBy(e)
    BY <1>7, <2>1 DEF RowsBy
  <2>3. QED
    BY <2>1, <2>2 DEF LinksBy, HomesBy, KnownBy, SitesBy
<1>9. Settles'
  BY <1>1, <1>6, <1>8 DEF SoundAfter, Settles
<1>10. RoundIsCurrent'
  <2>1. sync = None \/ sync.at = "next"
    BY <1>1, <1>2 DEF RouteInv, IInv, NoneBusy, Quiet, Undisturbed
  <2>2. QED
    BY <1>1, <2>1 DEF RoundIsCurrent
<1>11. QED
  BY <1>3, <1>9, <1>10 DEF InOrder, OneRequest, FreshIsCurrent, RequestsSound, DatabaseSound

\* The timer looks at a party: it takes no route from a joined site, and
\* finds none that is not known.
LEMMA SyncPartySettles ==
    ASSUME RouteInv, Undisturbed, NEW p \in Parties, SyncParty(p)
    PROVE  Settles' /\ RoundIsCurrent'
<1> DEFINE k == sync.roll
           a == table[k][p]
           l == <<k, p>>
<1>1. /\ sync # None /\ sync.at = "read" /\ p \in sync.left
      /\ SyncRow(p) /\ SyncLink(p)
      /\ sync' = [sync EXCEPT !.left = @ \ {p}]
      /\ known' = known /\ roll' = roll /\ site' = site /\ table' = table
  BY DEF SyncParty
<1>2. /\ TypeOK /\ InOrder /\ ~AnyBusy
  BY <1>1 DEF RouteInv, IInv, NoneBusy, Quiet, Undisturbed
<1>3. Ready
  BY <1>2 DEF Ready, InOrder, DatabaseSound
<1>4. /\ k \in RollSites /\ sync.given[p] = a
      /\ \A q \in sync.left : sync.seen[q] = IF q \in On(k) THEN party[q] ELSE None
      /\ sync \in [at: {"read"}, todo: SUBSET RollSites, roll: RollSites, given: Table,
                   seen: [Parties -> Maybe(PartyRow)], left: SUBSET Parties]
  BY <1>1, <1>2, SyncPlaces DEF InOrder, RoundIsCurrent
<1>5. /\ l \in linked <=> p \in On(k)
      /\ l \in linked => party[p] # None
      /\ a # None => l \in linked
  BY <1>3, <1>4, LinkLeads
<1>6. sync.seen[p] = IF l \in linked THEN party[p] ELSE None
  BY <1>1, <1>4, <1>5
<1>7. party' = IF a # None /\ party[p].addr # a
               THEN [party EXCEPT ![p] = TakenOver(party[p], a)] ELSE party
  BY <1>1, <1>4, <1>5, <1>6 DEF SyncRow
<1>8. linked' = IF a = None /\ l \in linked /\ party[p].status = "published"
                THEN linked \ {l} ELSE linked
  BY <1>1, <1>4, <1>5, <1>6 DEF SyncLink
<1>9. party \in [Parties -> Maybe(PartyRow)] /\ a \in Maybe(Addresses)
  BY <1>2, <1>4 DEF TypeOK, Table
<1>10. ASSUME a # None
       PROVE  TakenOver(party[p], a) # None
  <2>1. TakenOver(party[p], a) \in PartyRow
    BY <1>5, <1>9, <1>10, TakenOverType DEF Maybe
  <2>2. QED
    BY <2>1, NoneAssumption
<1>11. /\ \A q \in Parties \ {p} : party'[q] = party[q]
       /\ party[p] # None => party'[p] # None
  BY <1>7, <1>9, <1>10
<1>12. ASSUME Joined(p)
       PROVE  party'[p] = party[p] /\ linked' = linked
  <2>1. /\ party[p].addr = site[p].addr /\ site[p].addr # None
        /\ l \in linked => a = site[p].addr
    BY <1>3, <1>4, <1>12, JoinedStands
  <2>2. QED
    BY <1>5, <1>7, <1>8, <2>1
<1>13. \A r \in RollSites, q \in Parties :
            <<r, q>> \in linked' <=> <<r, q>> \in linked /\ ~(r = k /\ q = p /\ l \notin linked')
  BY <1>8
<1> HIDE DEF k, a, l
<1>14. LinksHold(party, linked, roll)'
  <2>1. ASSUME NEW r \in RollSites, NEW q \in Parties, <<r, q>> \in linked'
        PROVE  party'[q] # None /\ roll'[r] \notin NotManaged
    <3>1. <<r, q>> \in linked
      BY <1>13, <2>1
    <3>2. party[q] # None /\ roll[r] \notin NotManaged
      BY <1>3, <3>1, LinkLeads DEF IsManaged
    <3>3. QED
      BY <1>1, <1>11, <3>2
  <2>2. QED
    BY <2>1 DEF LinksHold
<1>15. RoutesHold(linked, table)'
  <2>1. ASSUME NEW r \in RollSites, NEW q \in Parties, table[r][q] # None
        PROVE  <<r, q>> \in linked'
    <3>1. <<r, q>> \in linked
      BY <1>3, <2>1, LinkLeads
    <3>2. QED
      BY <1>8, <2>1, <3>1 DEF a, l
  <2>2. QED
    BY <1>1, <2>1 DEF RoutesHold
<1>16. SitesHold(party, linked, roll, known, site, table)'
  <2>1. ASSUME NEW q \in Parties, Joined(q)
        PROVE  SiteHolds(site[q], party[q], q, linked, roll, known, table)'
    <3>1. party'[q] = party[q]
      BY <1>11, <1>12, <2>1
    <3>2. \A r \in RollSites : <<r, q>> \in linked' <=> <<r, q>> \in linked
      BY <1>12, <1>13, <2>1 DEF l
    <3>3. SiteHolds(site[q], party[q], q, linked, roll, known, table)
      BY <1>3, <2>1 DEF Ready, Settles, Sound, SitesHold, Joined
    <3>4. QED
      BY <1>1, <3>1, <3>2, <3>3 DEF SiteHolds
  <2>2. QED
    BY <1>1, <2>1 DEF SitesHold, Joined
<1>17. Settles'
  BY <1>14, <1>15, <1>16 DEF Settles, Sound
<1>18. RoundIsCurrent'
  <2>1. /\ sync'.roll = sync.roll /\ sync'.given = sync.given /\ sync'.at = "read"
        /\ sync'.seen = sync.seen /\ sync'.left = sync.left \ {p}
    BY <1>1, <1>4
  <2>2. ASSUME NEW q \in sync.left, q # p
        PROVE  sync.seen[q] = IF q \in On(sync.roll)' THEN party'[q] ELSE None
    <3>1. q \in Parties
      BY <1>4, <2>2
    <3>2. party'[q] = party[q] /\ (<<k, q>> \in linked' <=> <<k, q>> \in linked)
      BY <1>4, <1>11, <1>13, <2>2, <3>1
    <3>3. q \in On(sync.roll)' <=> q \in On(k)
      BY <2>1, <3>1, <3>2 DEF On, k
    <3>4. QED
      BY <1>4, <2>2, <3>2, <3>3 DEF k
  <2>3. sync.given = table[sync.roll] /\ sync.roll \in RollSites
    BY <1>1, <1>2 DEF InOrder, RoundIsCurrent
  <2>4. QED
    BY <1>1, <2>1, <2>2, <2>3 DEF RoundIsCurrent
<1>19. QED
  BY <1>17, <1>18

LEMMA SyncInOrder ==
    ASSUME RouteInv, SyncStep \/ (\E r \in RollSites : SyncPass(r)), Undisturbed'
    PROVE  InOrder'
<1>1. req' = req
  BY DEF SyncStep, SyncStart, SyncGet, SyncRead, SyncParty, SyncNext, SyncPass
<1>2. AnyBusy' = AnyBusy /\ \A u : Busy(u)' = Busy(u)
  BY <1>1 DEF AnyBusy, Busy
<1>3. ASSUME InOrder, UNCHANGED <<db, table>>, RoundIsCurrent'
      PROVE  InOrder'
  <2>1. RequestsSound'
    <3>1. ASSUME NEW t \in Threads, Busy(t)
          PROVE  LeavesSound(req[t].first, req[t].second, req[t].effect)'
      <4>1. PICK first, second, e : first = req[t].first /\ second = req[t].second /\ e = req[t].effect
        OBVIOUS
      <4>2. LeavesSound(first, second, e)
        BY <1>3, <3>1, <4>1 DEF InOrder, RequestsSound
      <4>3. LeavesSound(first, second, e)'
        BY <1>3, <4>2, SameLeaves
      <4>4. QED
        BY <1>1, <4>1, <4>3
    <3>2. QED
      BY <1>2, <3>1 DEF RequestsSound
  <2>2. OneRequest' /\ FreshIsCurrent' /\ DatabaseSound'
    BY <1>1, <1>2, <1>3 DEF InOrder, OneRequest, FreshIsCurrent, DatabaseSound, Settles, db
  <2>3. QED
    BY <1>3, <2>1, <2>2 DEF InOrder
<1>4. CASE SyncStart
  <2>1. sync'.at = "next" /\ InOrder /\ UNCHANGED <<db, table>>
    BY <1>4 DEF SyncStart, RouteInv, Undisturbed, history
  <2>2. QED
    BY <1>3, <2>1 DEF RoundIsCurrent
<1>5. ASSUME NEW r \in RollSites, SyncGet(r)
      PROVE  InOrder'
  <2>1. /\ sync'.at = "got" /\ sync'.roll = r /\ sync'.given = table[r]
        /\ UNCHANGED <<db, table>> /\ mishaps \subseteq mishaps'
    BY <1>5 DEF SyncGet, history
  <2>2. InOrder
    BY <2>1 DEF RouteInv, Undisturbed
  <2>3. QED
    BY <1>3, <2>1, <2>2 DEF RoundIsCurrent
<1>6. CASE SyncRead
  <2>1. /\ sync # None /\ sync.at = "got" /\ sync'.at = "read"
        /\ sync'.roll = sync.roll /\ sync'.given = sync.given /\ sync'.left = Parties
        /\ sync'.seen = [p \in Parties |-> IF p \in On(sync.roll) THEN party[p] ELSE None]
        /\ UNCHANGED <<db, table>> /\ mishaps' = mishaps
    BY <1>6 DEF SyncRead, history
  <2>2. InOrder
    BY <2>1 DEF RouteInv, Undisturbed
  <2>3. On(sync.roll)' = On(sync.roll)
    BY <2>1 DEF On, db
  <2>4. RoundIsCurrent'
    BY <2>1, <2>2, <2>3 DEF InOrder, RoundIsCurrent, db
  <2>5. QED
    BY <1>3, <2>1, <2>2, <2>4
<1>7. ASSUME NEW p \in Parties, SyncParty(p)
      PROVE  InOrder'
  <2>1. Undisturbed /\ sync # None /\ sync.at = "read"
    BY <1>7 DEF SyncParty, history, Undisturbed
  <2>2. Settles' /\ RoundIsCurrent'
    BY <1>7, <2>1, SyncPartySettles
  <2>3. ~AnyBusy'
    BY <1>2, <2>1 DEF RouteInv, IInv, NoneBusy, Quiet, Undisturbed
  <2>4. QED
    BY <2>2, <2>3 DEF InOrder, OneRequest, FreshIsCurrent, RequestsSound, DatabaseSound, AnyBusy
<1>8. CASE SyncNext
  <2>1. /\ sync' = None \/ sync'.at = "next"
        /\ InOrder /\ UNCHANGED <<db, table>>
    BY <1>8 DEF SyncNext, RouteInv, Undisturbed, history
  <2>2. QED
    BY <1>3, <2>1 DEF RoundIsCurrent
<1>9. ASSUME NEW r \in RollSites, SyncPass(r)
      PROVE  FALSE
  BY <1>9 DEF SyncPass, Undisturbed
<1>10. QED
  BY <1>4, <1>5, <1>6, <1>7, <1>8, <1>9 DEF SyncStep

LEMMA RouteInvKept ==
    ASSUME RouteInv, [Next]_vars
    PROVE  RouteInv'
<1>1. IInv'
  BY NextKeeps DEF RouteInv
<1>2. ASSUME Undisturbed', UNCHANGED vars
      PROVE  InOrder'
  <2>1. InOrder
    BY <1>2 DEF RouteInv, Undisturbed, vars
  <2>2. UNCHANGED <<db, table>> /\ req' = req /\ sync' = sync
    BY <1>2 DEF vars, db
  <2>3. RequestsSound'
    <3>1. ASSUME NEW t \in Threads, Busy(t)
          PROVE  LeavesSound(req[t].first, req[t].second, req[t].effect)'
      <4>1. PICK first, second, e : first = req[t].first /\ second = req[t].second /\ e = req[t].effect
        OBVIOUS
      <4>2. LeavesSound(first, second, e)'
        BY <2>1, <2>2, <3>1, <4>1, SameLeaves DEF InOrder, RequestsSound
      <4>3. QED
        BY <2>2, <4>1, <4>2
    <3>2. QED
      BY <2>2, <3>1 DEF RequestsSound, Busy
  <2>4. OneRequest' /\ FreshIsCurrent' /\ DatabaseSound'
    BY <2>1, <2>2 DEF InOrder, OneRequest, FreshIsCurrent, DatabaseSound, Settles, AnyBusy, Busy, db
  <2>5. RoundIsCurrent'
    BY <2>1, <2>2 DEF InOrder, RoundIsCurrent, On, db
  <2>6. QED
    BY <2>3, <2>4, <2>5 DEF InOrder
<1>3. ASSUME Undisturbed', NEW t \in Threads, Fail(t)
      PROVE  FALSE
  BY <1>3 DEF Fail, Undisturbed
<1>4. Undisturbed' => InOrder'
  BY <1>2, <1>3, BeginInOrder, PushInOrder, CommitInOrder, SyncInOrder DEF Next
<1>5. QED
  BY <1>1, <1>4 DEF RouteInv

LEMMA RouteInvInit == Init => RouteInv
<1>1. ASSUME Init
      PROVE  RouteInv
  <2>1. TypeOK
    BY <1>1, InitType
  <2>2. IInv
    BY <1>1, <2>1 DEF Init, IInv, NoneBusy, SeenIsCurrent
  <2>3. \A t \in Threads : ~Busy(t)
    BY <1>1 DEF Init, Busy
  <2>4. Settles
    BY <1>1 DEF Init, Nothing, Settles, Sound, LinksHold, RoutesHold, SitesHold
  <2>5. RoundIsCurrent
    BY <1>1 DEF Init, RoundIsCurrent
  <2>6. QED
    BY <2>2, <2>3, <2>4, <2>5
       DEF RouteInv, InOrder, OneRequest, FreshIsCurrent, RequestsSound, DatabaseSound
<1>2. QED
  BY <1>1

LEMMA RouteInvRoutes == RouteInv => JoinedIsRouted
<1>1. ASSUME RouteInv, mishaps = {}, ~AnyBusy, NEW p \in Parties, Joined(p)
      PROVE  /\ party[p] = [addr |-> site[p].addr, status |-> "published"]
             /\ \A r \in RollSites : RoutedBy(r, p)
  <2>1. Ready
    BY <1>1 DEF RouteInv, IInv, Undisturbed, InOrder, DatabaseSound, Ready
  <2>2. QED
    BY <1>1, <2>1, JoinedStands DEF RoutedBy
<1>2. QED
  BY <1>1 DEF JoinedIsRouted

\* As long as no request has failed, crossed another or the timer, or
\* forgotten a route, a joined site is published and routed by the roll sites
\* of its exchange, where it said it is, and by no other.
THEOREM JoinedStaysRouted == Spec => []JoinedIsRouted
<1>1. RouteInv /\ [Next]_vars => RouteInv'
  BY RouteInvKept
<1>2. QED
  BY <1>1, RouteInvInit, RouteInvRoutes, PTL DEF Spec
=============================================================================
