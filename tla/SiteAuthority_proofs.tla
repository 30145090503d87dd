----------------------- MODULE SiteAuthority_proofs ------------------------
(***************************************************************************)
(* Theorems about the rows of site authority, for every set of             *)
(* institutions and every bound on the requests: their type, the single    *)
(* current row, and the ledger they implement.                             *)
(***************************************************************************)
EXTENDS SiteAuthority, TLAPS

-----------------------------------------------------------------------------
(* The helpers                                                             *)

LEMMA CoveredSymmetric ==
    ASSUME NEW p \in Pairs, NEW q \in Pairs
    PROVE  /\ p \in Covered(p)
           /\ q \in Covered(p) => p \in Covered(q)
  BY DEF Pairs, Covered, Ledger!Covered, Ledger!Reverse

LEMMA CoveredTransitive ==
    ASSUME NEW p \in Pairs, NEW q \in Pairs, NEW r \in Pairs,
           q \in Covered(p), r \in Covered(p)
    PROVE  r \in Covered(q)
  BY DEF Pairs, Covered, Ledger!Covered, Ledger!Reverse

LEMMA PairOfRow ==
    ASSUME NEW r \in Row
    PROVE  Pair(r) \in Pairs
  BY DEF Row, Pair, Pairs

LEMMA DecidedRows ==
    ASSUME NEW P \in SUBSET Pairs, NEW v \in Status, batches \in 0..MaxBatches,
           batches < MaxBatches
    PROVE  /\ Decided(P, v) \subseteq Row
           /\ \A r \in Decided(P, v) :
                Pair(r) \in P /\ r.status = v /\ r.batch = batches + 1
           /\ \A q, r \in Decided(P, v) : Pair(q) = Pair(r) => q = r
<1> USE BatchAssumption DEF Decided, Pair, Pairs, Row
<1>1. batches + 1 \in 1..MaxBatches
  OBVIOUS
<1>2. ASSUME NEW p \in P
      PROVE  /\ p = <<p[1], p[2]>>
             /\ p[1] \in Institutions
             /\ p[2] \in Institutions
  OBVIOUS
<1>3. QED
  BY <1>1, <1>2

LEMMA RowOfRequest ==
    ASSUME TypeOK, NEW t \in Threads
    PROVE  /\ Doing(t, "apply") => req[t] \in ApplyRequest
           /\ Doing(t, "review") \/ Doing(t, "reject") => req[t] \in ReviewRequest
           /\ Doing(t, "cancel") => req[t] \in CancelRequest
           /\ Doing(t, "leave") => req[t] \in LeaveRequest
  BY DEF TypeOK, Doing, Request, ApplyRequest, ReviewRequest, CancelRequest, LeaveRequest

-----------------------------------------------------------------------------
(* Type correctness                                                        *)

LEMMA CommitType ==
    ASSUME TypeOK, NEW t \in Threads, NEW gone, NEW P \in SUBSET Pairs,
           NEW v \in Status, NEW Q \in SUBSET Pairs, NEW w \in Status,
           Commit(t, gone, Decided(P, v) \cup Decided(Q, w)), valid' \subseteq valid
    PROVE  TypeOK'
<1> DEFINE new == Decided(P, v) \cup Decided(Q, w)
<1>1. /\ new \subseteq Row
      /\ \A r \in new : Pair(r) \in Pairs /\ r.batch = batches + 1
      /\ batches \in 0..MaxBatches
      /\ batches < MaxBatches
  BY DecidedRows DEF Commit, TypeOK
<1>2. /\ rows' = (rows \ gone) \cup new
      /\ batches' = batches + 1
      /\ scenario' = scenario
      /\ req' = [req EXCEPT ![t] = None]
      /\ shown' = shown
      /\ reply' = reply
  BY DEF Commit, Replace, managers
<1> HIDE DEF new
<1>3. batches' \in 0..MaxBatches
  BY <1>1, <1>2, BatchAssumption
<1>4. rows' \subseteq Row
  BY <1>1, <1>2 DEF TypeOK
<1>5. ASSUME NEW r \in rows'
      PROVE  r.batch <= batches'
  <2>1. CASE r \in new
    BY <2>1, <1>1, <1>2
  <2>2. CASE r \in rows
    <3>1. r.batch <= batches /\ r.batch \in Int
      BY <2>2, BatchAssumption DEF TypeOK, Row
    <3>2. QED
      BY <3>1, <1>1, <1>2
  <2>3. QED
    BY <2>1, <2>2, <1>2
<1>7. req' \in [Threads -> Request \cup {None}]
  BY <1>2 DEF TypeOK
<1>8. QED
  BY <1>2, <1>3, <1>4, <1>5, <1>7 DEF TypeOK

LEMMA BeginType ==
    ASSUME TypeOK, NEW t \in Threads, NEW r \in Request, Begin(t, r)
    PROVE  TypeOK'
  BY DEF TypeOK, Begin, table, managers

LEMMA InitType == Init => TypeOK
<1>1. ASSUME Init
      PROVE  TypeOK
  <2>1. [j \in Institutions |-> "none"] \in Statuses
    BY DEF Statuses
  <2>2. QED
    BY <1>1, <2>1, BatchAssumption DEF Init, TypeOK
<1>2. QED
  BY <1>1

LEMMA PendingType ==
    ASSUME TypeOK, NEW x
    PROVE  /\ PendingOf(x) \in SUBSET Row
           /\ LiveOf(x) \in SUBSET Row
  BY DEF TypeOK, PendingOf, LiveOf

LEMMA ReadsType ==
    ASSUME TypeOK, NEW t \in Threads
    PROVE  /\ ApplyRead(t) => \E r \in ApplyRequest : Begin(t, r)
           /\ ReviewRead(t) => \E r \in ReviewRequest : Begin(t, r)
           /\ CancelRead(t) => \E r \in CancelRequest : Begin(t, r)
           /\ LeaveRead(t) => \E r \in LeaveRequest : Begin(t, r)
<1>1. ASSUME ApplyRead(t)
      PROVE  \E r \in ApplyRequest : Begin(t, r)
  <2>1. PICK x \in valid, T \in SUBSET valid :
            x \notin T /\ Begin(t, [kind |-> "apply", from |-> x, targets |-> T])
    BY <1>1 DEF ApplyRead
  <2>2. [kind |-> "apply", from |-> x, targets |-> T] \in ApplyRequest
    BY <2>1 DEF ApplyRequest, TypeOK
  <2>3. QED
    BY <2>1, <2>2
<1>2. ASSUME ReviewRead(t)
      PROVE  \E r \in ReviewRequest : Begin(t, r)
  BY <1>2, PendingType DEF ReviewRead, ReviewRequest
<1>3. ASSUME CancelRead(t)
      PROVE  \E r \in CancelRequest : Begin(t, r)
  <2>1. PICK x \in Institutions : \E P \in SUBSET Nameable(x) : \E done \in SUBSET P :
            Begin(t, [kind |-> "cancel", done |-> done])
    BY <1>3 DEF CancelRead
  <2>2. ASSUME NEW done \in SUBSET Nameable(x)
        PROVE  [kind |-> "cancel", done |-> done] \in CancelRequest
    BY DEF CancelRequest, Nameable
  <2>3. QED
    BY <2>1, <2>2
<1>4. ASSUME LeaveRead(t)
      PROVE  \E r \in LeaveRequest : Begin(t, r)
  BY <1>4, PendingType DEF LeaveRead, LeaveRequest, TypeOK
<1>5. QED
  BY <1>1, <1>2, <1>3, <1>4

\* What the commits insert.
LEMMA CommitsDecide ==
    ASSUME TypeOK, NEW t \in Threads,
           ApplyCommit(t) \/ ReviewCommit(t) \/ CancelCommit(t) \/ LeaveCommit(t)
    PROVE  /\ valid' \subseteq valid
           /\ \E P, Q \in SUBSET Pairs, v, w \in Status : \E gone :
                Commit(t, gone, Decided(P, v) \cup Decided(Q, w))
<1> DEFINE Goal == \E P, Q \in SUBSET Pairs, v, w \in Status : \E gone :
                    Commit(t, gone, Decided(P, v) \cup Decided(Q, w))
<1>1. ASSUME NEW P \in SUBSET Pairs, NEW v \in Status, NEW gone,
             Commit(t, gone, Decided(P, v))
      PROVE  Goal
  <2>1. Decided(P, v) = Decided(P, v) \cup Decided(P, v)
    OBVIOUS
  <2>2. Commit(t, gone, Decided(P, v) \cup Decided(P, v))
    BY <1>1, <2>1
  <2>3. QED
    BY <2>2
<1>2. {"pending", "approved", "rejected", "cancelled"} = Status
  BY DEF Status, Ledger!Status
<1>3. CASE ApplyCommit(t)
  <2> DEFINE x == req[t].from
             T == req[t].targets
             P == {<<x, y>> : y \in T}
  <2>1. req[t] \in ApplyRequest
    BY <1>3, RowOfRequest DEF ApplyCommit
  <2>2. P \in SUBSET Pairs
    BY <2>1 DEF ApplyRequest, Pairs
  <2>4. Commit(t, ReplacedByApply(x, T), Decided(P, "pending")) /\ valid' = valid
    BY <1>3 DEF ApplyCommit
  <2> HIDE DEF P, x, T, Goal
  <2>5. QED
    BY <2>2, <2>4, <1>1, <1>2 DEF Goal
<1>4. CASE ReviewCommit(t)
  <2> DEFINE read == {Pair(r) : r \in req[t].pending}
             yes == {p \in read : p[2] \in req[t].approved}
             gone == IF req[t].kind = "review" THEN req[t].pending ELSE PendingOf(req[t].from)
  <2>1. req[t] \in ReviewRequest
    BY <1>4, RowOfRequest DEF ReviewCommit
  <2>2. yes \in SUBSET Pairs /\ read \ yes \in SUBSET Pairs
    BY <2>1, PairOfRow DEF ReviewRequest
  <2>3. Commit(t, gone, Decided(yes, "approved") \cup Decided(read \ yes, "rejected"))
        /\ valid' = valid
    BY <1>4 DEF ReviewCommit
  <2> HIDE DEF read, yes, gone
  <2>4. QED
    BY <2>2, <2>3, <1>2
<1>5. CASE CancelCommit(t)
  <2>1. req[t] \in CancelRequest
    BY <1>5, RowOfRequest DEF CancelCommit
  <2>2. req[t].done \in SUBSET Pairs
    BY <2>1 DEF CancelRequest
  <2>4. QED
    BY <2>2, <1>1, <1>2, <1>5 DEF CancelCommit
<1>6. CASE LeaveCommit(t)
  <2>1. req[t] \in LeaveRequest
    BY <1>6, RowOfRequest DEF LeaveCommit
  <2>2. {Pair(r) : r \in req[t].live} \in SUBSET Pairs
    BY <2>1, PairOfRow DEF LeaveRequest
  <2>4. QED
    BY <2>2, <1>1, <1>2, <1>6 DEF LeaveCommit
<1>7. QED
  BY <1>3, <1>4, <1>5, <1>6

LEMMA NextType == TypeOK /\ [Next]_vars => TypeOK'
<1> SUFFICES ASSUME TypeOK, [Next]_vars
             PROVE  TypeOK'
  OBVIOUS
<1>1. ASSUME NEW t \in Threads,
             ApplyRead(t) \/ ReviewRead(t) \/ CancelRead(t) \/ LeaveRead(t)
      PROVE  TypeOK'
  BY <1>1, ReadsType, BeginType DEF Request
<1>2. ASSUME NEW t \in Threads,
             ApplyCommit(t) \/ ReviewCommit(t) \/ CancelCommit(t) \/ LeaveCommit(t)
      PROVE  TypeOK'
  BY <1>2, CommitsDecide, CommitType
<1>3. ASSUME NEW t \in Threads, Rollback(t)
      PROVE  TypeOK'
  BY <1>3 DEF Rollback, TypeOK, table, managers
<1>4. ASSUME NEW i \in Pollers, PollRead(i)
      PROVE  TypeOK'
  <2>1. \A r \in rows : r.status \in Status
    BY DEF TypeOK, Row
  <2>2. Listed(i) \in Statuses
    <3> SUFFICES ASSUME NEW j \in Institutions
                 PROVE  Listed(i)[j] \in Status \cup {"none"}
      BY DEF Listed, Statuses
    <3> DEFINE about == {r \in rows : Pair(r) \in {<<i, j>>, <<j, i>>} /\ r.status # "pending"}
               own == {r \in about : r.from = i}
               shown_ == IF own # {} THEN own ELSE about
    <3>1. CASE about = {}
      BY <3>1 DEF Listed
    <3>2. CASE about # {}
      <4>1. (CHOOSE r \in shown_ : TRUE) \in rows
        BY <3>2
      <4>2. "approved" \in Status
        BY DEF Status, Ledger!Status
      <4>3. QED
        BY <2>1, <3>2, <4>1, <4>2 DEF Listed
    <3>3. QED
      BY <3>1, <3>2
  <2>3. QED
    BY <1>4, <2>2 DEF PollRead, TypeOK, table
<1>5. ASSUME NEW i \in Pollers, PollStore(i)
      PROVE  TypeOK'
  <2>1. reply[i] \in Statuses /\ shown[i] \in Statuses
    BY <1>5 DEF PollStore, TypeOK
  <2>2. [j \in Institutions |-> IF reply[i][j] = "none" THEN shown[i][j] ELSE reply[i][j]]
            \in Statuses
    BY <2>1 DEF Statuses
  <2>3. QED
    BY <1>5, <2>2 DEF PollStore, TypeOK, table
<1>6. CASE UNCHANGED vars
  BY <1>6 DEF vars, TypeOK
<1>7. QED
  BY <1>1, <1>2, <1>3, <1>4, <1>5, <1>6 DEF Next, Threads

\* The table, the requests in progress and the FATE Managers' copies are well
\* formed after every transaction of applyForAuthorityOfInstitutions,
\* reviewAuthorityApplyDetails, cancelAuthority and deleteInstitution.
THEOREM TypeCorrect == Spec => []TypeOK
  BY InitType, NextType, PTL DEF Spec

-----------------------------------------------------------------------------
(* One current row for two institutions                                    *)

\* At most one FATE Manager and one administrator send requests at a time.
Serial ==
    /\ \A s, t \in Applicants : s = t
    /\ \A s, t \in Admins : s = t

\* FATE Managers apply, administrators do the rest.
RolesKept ==
    \A t \in Threads : req[t] # None => (t \in Applicants <=> req[t].kind = "apply")

\* Since the check of an application, nothing it bears on has become live.
ChecksHold ==
    \A t \in Threads : Doing(t, "apply") =>
        \A r \in rows, y \in req[t].targets :
            r.status \in Live => Pair(r) \notin Covered(<<req[t].from, y>>)

\* The rows an administrator's request has read are still current.
ReviewHolds(t) ==
    Doing(t, "review") \/ Doing(t, "reject") => req[t].pending \subseteq PendingOf(req[t].from)
LeaveHolds(t) ==
    Doing(t, "leave") => req[t].live \subseteq LiveOf(req[t].from)
CancelHolds(t) ==
    Doing(t, "cancel") =>
        /\ \A p \in req[t].done : ApprovedFor(p) # {}
        /\ \A p, q \in req[t].done : q \in Covered(p) => p = q

ReadsHold == \A t \in Threads : ReviewHolds(t) /\ LeaveHolds(t) /\ CancelHolds(t)

IInv == TypeOK /\ RolesKept /\ ChecksHold /\ ReadsHold /\ OneCurrentRow

LEMMA ReplacedRows ==
    ASSUME TypeOK, OneCurrentRow, scenario' = scenario, NEW gone, NEW new \in SUBSET Row,
           rows' = (rows \ gone) \cup new,
           \A q, r \in new : Pair(q) \in Covered(Pair(r)) => q = r,
           \A q \in rows \ gone, r \in new : Pair(q) \notin Covered(Pair(r))
    PROVE  OneCurrentRow'
<1>1. rows' \subseteq Row
  BY DEF TypeOK
<1>2. ASSUME NEW q \in rows', NEW r \in rows', Pair(q) \in Covered(Pair(r))
      PROVE  q = r
  <2>1. Pair(q) \in Pairs /\ Pair(r) \in Pairs
    BY <1>1, PairOfRow
  <2>2. Pair(r) \in Covered(Pair(q))
    BY <1>2, <2>1, CoveredSymmetric
  <2>3. QED
    BY <1>2, <2>2 DEF OneCurrentRow
<1>3. QED
  BY <1>2 DEF OneCurrentRow, Pair, Covered, Ledger!Covered, Ledger!Reverse

LEMMA RowsUnchanged ==
    ASSUME OneCurrentRow, UNCHANGED <<rows, scenario>>
    PROVE  OneCurrentRow'
  BY DEF OneCurrentRow, Pair, Covered, Ledger!Covered, Ledger!Reverse

\* A step of thread t that leaves its request done or given up.
Finishes(t) == req' = [req EXCEPT ![t] = None] /\ scenario' = scenario

LEMMA FinishedThread ==
    ASSUME TypeOK, NEW t \in Threads, Finishes(t), NEW s \in Threads
    PROVE  /\ req'[s] = IF s = t THEN None ELSE req[s]
           /\ \A k : Doing(s, k)' <=> s # t /\ Doing(s, k)
  BY DEF Finishes, TypeOK, Doing

LEMMA RolesFrame ==
    ASSUME TypeOK, RolesKept, NEW t \in Threads, Finishes(t)
    PROVE  RolesKept'
  BY FinishedThread DEF RolesKept

\* No row that is live is new.
LEMMA ChecksFrame ==
    ASSUME TypeOK, ChecksHold, NEW t \in Threads, Finishes(t),
           \A r \in rows' : r.status \in Live =>
                \E q \in rows : q.status \in Live /\ Pair(q) = Pair(r)
    PROVE  ChecksHold'
<1> SUFFICES ASSUME NEW s \in Threads, Doing(s, "apply")', NEW r \in rows',
                    r.status \in Live, NEW y \in req'[s].targets
             PROVE  Pair(r) \notin Covered(<<req'[s].from, y>>)
  BY DEF ChecksHold, Finishes, Pair, Covered, Ledger!Covered, Ledger!Reverse, Live, Ledger!Live
<1>1. req'[s] = req[s] /\ Doing(s, "apply")
  BY FinishedThread
<1>2. QED
  BY <1>1 DEF ChecksHold

\* A step that keeps the live rows keeps what the other requests have read.
LEMMA ReadsFrame ==
    ASSUME TypeOK, ReadsHold, NEW t \in Threads, Finishes(t),
           \A r \in rows : r.status \in Live => r \in rows'
    PROVE  ReadsHold'
<1> SUFFICES ASSUME NEW s \in Threads
             PROVE  ReviewHolds(s)' /\ LeaveHolds(s)' /\ CancelHolds(s)'
  BY DEF ReadsHold
<1>1. /\ scenario' = scenario
      /\ \A k : Doing(s, k)' => Doing(s, k) /\ req'[s] = req[s]
  BY FinishedThread DEF Finishes
<1>2. "pending" \in Live /\ "approved" \in Live
  BY DEF Live, Ledger!Live
<1>3. ReviewHolds(s)'
  BY <1>1, <1>2 DEF ReadsHold, ReviewHolds, PendingOf
<1>4. LeaveHolds(s)'
  BY <1>1 DEF ReadsHold, LeaveHolds, LiveOf, Live, Ledger!Live
<1>5. ASSUME Doing(s, "cancel")'
      PROVE  /\ \A p \in req'[s].done : ApprovedFor(p)' # {}
             /\ \A p, q \in req'[s].done : q \in Covered(p)' => p = q
  <2>1. req'[s] = req[s] /\ Doing(s, "cancel")
    BY <1>1, <1>5
  <2>2. ASSUME NEW p \in req[s].done
        PROVE  ApprovedFor(p)' # {}
    <3>1. PICK r \in rows : r.status = "approved" /\ Pair(r) \in Covered(p)
      BY <2>1 DEF ReadsHold, CancelHolds, ApprovedFor
    <3>2. r \in rows'
      BY <1>2, <3>1
    <3>3. QED
      BY <1>1, <3>1, <3>2 DEF ApprovedFor, Pair, Covered, Ledger!Covered, Ledger!Reverse
  <2>3. \A p, q \in req[s].done : q \in Covered(p)' => p = q
    BY <1>1, <2>1 DEF ReadsHold, CancelHolds, Covered, Ledger!Covered, Ledger!Reverse
  <2>4. QED
    BY <2>1, <2>2, <2>3
<1>6. CancelHolds(s)'
  BY <1>5 DEF CancelHolds, ApprovedFor, Pair, Covered, Ledger!Covered, Ledger!Reverse
<1>7. QED
  BY <1>3, <1>4, <1>6

LEMMA BeginFrame ==
    ASSUME TypeOK, NEW t \in Threads, NEW x, Begin(t, x), NEW s \in Threads
    PROVE  /\ req'[s] = IF s = t THEN x ELSE req[s]
           /\ UNCHANGED <<scenario, rows>>
  BY DEF Begin, TypeOK, table

\* A request starts with what it has read in accordance with the rows.
LEMMA BeginKeeps ==
    ASSUME IInv, NEW t \in Threads, NEW x, Begin(t, x),
           t \in Applicants <=> x.kind = "apply",
           x.kind = "apply" => \A r \in rows, y \in x.targets :
                r.status \in Live => Pair(r) \notin Covered(<<x.from, y>>),
           x.kind \in {"review", "reject"} => x.pending \subseteq PendingOf(x.from),
           x.kind = "leave" => x.live \subseteq LiveOf(x.from),
           x.kind = "cancel" => /\ \A p \in x.done : ApprovedFor(p) # {}
                                /\ \A p, q \in x.done : q \in Covered(p) => p = q
    PROVE  RolesKept' /\ ChecksHold' /\ ReadsHold' /\ OneCurrentRow'
<1> USE DEF IInv
<1>1. ASSUME NEW s \in Threads
      PROVE  req'[s] = IF s = t THEN x ELSE req[s]
  BY BeginFrame
<1>2. UNCHANGED <<scenario, rows>>
  BY BeginFrame
<1>3. RolesKept'
  BY <1>1 DEF RolesKept
<1>4. ChecksHold'
  <2> SUFFICES ASSUME NEW s \in Threads, Doing(s, "apply")', NEW r \in rows,
                      r.status \in Live, NEW y \in req'[s].targets
               PROVE  Pair(r) \notin Covered(<<req'[s].from, y>>)
    BY <1>2 DEF ChecksHold, Pair, Covered, Ledger!Covered, Ledger!Reverse, Live, Ledger!Live
  <2>1. CASE s = t
    BY <1>1, <2>1 DEF Doing
  <2>2. CASE s # t
    BY <1>1, <2>2 DEF Doing, ChecksHold
  <2>3. QED
    BY <2>1, <2>2
<1>5. ReadsHold'
  <2> SUFFICES ASSUME NEW s \in Threads
               PROVE  ReviewHolds(s)' /\ LeaveHolds(s)' /\ CancelHolds(s)'
    BY DEF ReadsHold
  <2>1. ReviewHolds(s)'
    BY <1>1, <1>2 DEF ReadsHold, ReviewHolds, Doing, PendingOf
  <2>2. LeaveHolds(s)'
    BY <1>1, <1>2 DEF ReadsHold, LeaveHolds, Doing, LiveOf, Live, Ledger!Live
  <2>3. CancelHolds(s)'
    <3>2. ASSUME Doing(s, "cancel")'
          PROVE  /\ \A p \in req'[s].done : ApprovedFor(p) # {}
                 /\ \A p, q \in req'[s].done : q \in Covered(p) => p = q
      BY <1>1, <3>2 DEF ReadsHold, CancelHolds, Doing
    <3>3. ASSUME NEW p
          PROVE  ApprovedFor(p)' = ApprovedFor(p) /\ Covered(p)' = Covered(p)
      BY <1>2 DEF ApprovedFor, Pair, Covered, Ledger!Covered, Ledger!Reverse
    <3>4. QED
      BY <3>2, <3>3 DEF CancelHolds
  <2>4. QED
    BY <2>1, <2>2, <2>3
<1>6. OneCurrentRow'
  BY <1>2, RowsUnchanged
<1>7. QED
  BY <1>3, <1>4, <1>5, <1>6

LEMMA ReadsKeep ==
    ASSUME IInv, NEW t \in Threads,
           \/ t \in Applicants /\ ApplyRead(t)
           \/ t \in Admins /\ (ReviewRead(t) \/ CancelRead(t) \/ LeaveRead(t))
    PROVE  RolesKept' /\ ChecksHold' /\ ReadsHold' /\ OneCurrentRow'
<1>1. ASSUME t \in Applicants, ApplyRead(t)
      PROVE  RolesKept' /\ ChecksHold' /\ ReadsHold' /\ OneCurrentRow'
  <2>1. PICK x \in valid, T \in SUBSET valid :
            /\ \A r \in rows, y \in T : r.status \in Live => Pair(r) \notin Covered(<<x, y>>)
            /\ Begin(t, [kind |-> "apply", from |-> x, targets |-> T])
    BY <1>1 DEF ApplyRead
  <2> DEFINE r == [kind |-> "apply", from |-> x, targets |-> T]
  <2>2. r.kind = "apply" /\ r.from = x /\ r.targets = T
    OBVIOUS
  <2>3. Begin(t, r)
    BY <2>1
  <2> HIDE DEF r
  <2>4. QED
    BY <1>1, <2>1, <2>2, <2>3, BeginKeeps
<1>2. ASSUME t \in Admins
      PROVE  t \notin Applicants
  BY <1>2, ThreadAssumption
<1>3. ASSUME t \in Admins, ReviewRead(t)
      PROVE  RolesKept' /\ ChecksHold' /\ ReadsHold' /\ OneCurrentRow'
  <2>1. PICK x \in Institutions, A \in SUBSET Institutions, k \in {"review", "reject"} :
            Begin(t, [kind |-> k, from |-> x, approved |-> A, pending |-> PendingOf(x)])
    BY <1>3 DEF ReviewRead
  <2> DEFINE r == [kind |-> k, from |-> x, approved |-> A, pending |-> PendingOf(x)]
  <2>2. r.kind = k /\ r.from = x /\ r.pending = PendingOf(x)
    OBVIOUS
  <2>3. Begin(t, r)
    BY <2>1
  <2> HIDE DEF r
  <2>4. QED
    BY <1>2, <1>3, <2>2, <2>3, BeginKeeps
<1>4. ASSUME t \in Admins, CancelRead(t)
      PROVE  RolesKept' /\ ChecksHold' /\ ReadsHold' /\ OneCurrentRow'
  <2>1. PICK x \in Institutions : \E P \in SUBSET Nameable(x) :
            \E done \in SUBSET {p \in P : ApprovedFor(p) # {}} :
                Begin(t, [kind |-> "cancel", done |-> done])
    BY <1>4 DEF CancelRead
  <2>2. PICK done \in SUBSET Nameable(x) :
            /\ \A p \in done : ApprovedFor(p) # {}
            /\ Begin(t, [kind |-> "cancel", done |-> done])
    BY <2>1
  <2>3. ASSUME NEW p \in done, NEW q \in done, q \in Covered(p)
        PROVE  p = q
    BY <2>3 DEF Nameable, Pairs, Covered, Ledger!Covered, Ledger!Reverse
  <2> DEFINE r == [kind |-> "cancel", done |-> done]
  <2>4. r.kind = "cancel" /\ r.done = done
    OBVIOUS
  <2>5. Begin(t, r)
    BY <2>2
  <2> HIDE DEF r
  <2>6. QED
    BY <1>2, <1>4, <2>2, <2>3, <2>4, <2>5, BeginKeeps
<1>5. ASSUME t \in Admins, LeaveRead(t)
      PROVE  RolesKept' /\ ChecksHold' /\ ReadsHold' /\ OneCurrentRow'
  <2>1. PICK x \in valid : Begin(t, [kind |-> "leave", from |-> x, live |-> LiveOf(x)])
    BY <1>5 DEF LeaveRead
  <2> DEFINE r == [kind |-> "leave", from |-> x, live |-> LiveOf(x)]
  <2>2. r.kind = "leave" /\ r.from = x /\ r.live = LiveOf(x)
    OBVIOUS
  <2>3. Begin(t, r)
    BY <2>1
  <2> HIDE DEF r
  <2>4. QED
    BY <1>2, <1>5, <2>2, <2>3, BeginKeeps
<1>6. QED
  BY <1>1, <1>3, <1>4, <1>5

LEMMA CommitFacts ==
    ASSUME NEW t, NEW gone, NEW new, Commit(t, gone, new)
    PROVE  /\ Finishes(t)
           /\ rows' = (rows \ gone) \cup new
           /\ batches < MaxBatches
  BY DEF Commit, Replace, Finishes

LEMMA ApplyKeeps ==
    ASSUME IInv, Serial, NEW t \in Applicants, ApplyCommit(t)
    PROVE  RolesKept' /\ ChecksHold' /\ ReadsHold' /\ OneCurrentRow'
<1> USE DEF IInv
<1> DEFINE x == req[t].from
           T == req[t].targets
           P == {<<x, y>> : y \in T}
           gone == ReplacedByApply(x, T)
           new == Decided(P, "pending")
<1>1. t \in Threads /\ Doing(t, "apply")
  BY DEF Threads, ApplyCommit
<1>2. x \in Institutions /\ T \subseteq Institutions /\ x \notin T
  BY <1>1, RowOfRequest DEF ApplyRequest
<1>3. /\ Finishes(t)
      /\ rows' = (rows \ gone) \cup new
      /\ batches < MaxBatches
  BY CommitFacts DEF ApplyCommit
<1>4. /\ P \in SUBSET Pairs
      /\ "pending" \in Status
  BY <1>2 DEF Pairs, Status, Ledger!Status
<1>5. /\ new \in SUBSET Row
      /\ \A r \in new : Pair(r) \in P
      /\ \A q, r \in new : Pair(q) = Pair(r) => q = r
  BY <1>3, <1>4, DecidedRows DEF TypeOK
<1>6. \A p, q \in P : q \in Covered(p) => q = p
  BY <1>2 DEF Covered, Ledger!Covered, Ledger!Reverse
<1>7. \A r \in rows, p \in P : Pair(r) \in Covered(p) => r \in gone
  BY DEF ReplacedByApply
<1>8. \A r \in rows : r.status \in Live => r \notin gone
  BY <1>1 DEF ChecksHold, ReplacedByApply
<1> HIDE DEF P, gone, new
<1>9. RolesKept'
  BY <1>1, <1>3, RolesFrame
<1>10. ChecksHold'
  <2>1. ASSUME NEW s \in Threads
        PROVE  ~Doing(s, "apply")'
    BY <1>1, <1>3, FinishedThread DEF RolesKept, Serial, Doing
  <2>2. QED
    BY <2>1 DEF ChecksHold
<1>11. ReadsHold'
  BY <1>1, <1>3, <1>8, ReadsFrame
<1>12. OneCurrentRow'
  <2>1. \A q, r \in new : Pair(q) \in Covered(Pair(r)) => q = r
    BY <1>5, <1>6
  <2>2. \A q \in rows \ gone, r \in new : Pair(q) \notin Covered(Pair(r))
    BY <1>5, <1>7
  <2>3. QED
    BY <1>3, <1>5, <2>1, <2>2, ReplacedRows DEF Finishes
<1>13. QED
  BY <1>9, <1>10, <1>11, <1>12

\* The only administrator is done: no other request has read rows.
LEMMA AdminDone ==
    ASSUME IInv, Serial, NEW t \in Admins, Finishes(t)
    PROVE  RolesKept' /\ ReadsHold'
<1> USE DEF IInv
<1>1. t \in Threads
  BY DEF Threads
<1>2. ASSUME NEW s \in Threads, NEW k \in {"review", "reject", "leave", "cancel"}
      PROVE  ~Doing(s, k)'
  BY <1>1, FinishedThread DEF RolesKept, Serial, Doing, Threads
<1>3. ReadsHold'
  BY <1>2 DEF ReadsHold, ReviewHolds, LeaveHolds, CancelHolds
<1>4. QED
  BY <1>1, <1>3, RolesFrame

\* A request that replaces current live rows by one copy of each of those in
\* read, which are current.
LEMMA CopiesKeep ==
    ASSUME IInv, Serial, NEW t \in Admins, NEW gone, NEW new \in SUBSET Row,
           Commit(t, gone, new), NEW read \in SUBSET rows,
           \A r \in read : r.status \in Live /\ r \in gone,
           \A r \in new : \E q \in read : Pair(q) = Pair(r),
           \A q, r \in new : Pair(q) = Pair(r) => q = r
    PROVE  RolesKept' /\ ChecksHold' /\ ReadsHold' /\ OneCurrentRow'
<1> USE DEF IInv
<1>1. t \in Threads /\ Finishes(t) /\ rows' = (rows \ gone) \cup new
  BY CommitFacts DEF Threads
<1>2. ChecksHold'
  BY <1>1, ChecksFrame
<1>3. ASSUME NEW q \in new, NEW r \in new, Pair(q) \in Covered(Pair(r))
      PROVE  q = r
  BY <1>3 DEF OneCurrentRow
<1>4. ASSUME NEW q \in rows \ gone, NEW r \in new
      PROVE  Pair(q) \notin Covered(Pair(r))
  BY DEF OneCurrentRow
<1>5. OneCurrentRow'
  BY <1>1, <1>3, <1>4, ReplacedRows DEF Finishes
<1>6. QED
  BY <1>1, <1>2, <1>5, AdminDone

LEMMA ReviewKeeps ==
    ASSUME IInv, Serial, NEW t \in Admins, ReviewCommit(t)
    PROVE  RolesKept' /\ ChecksHold' /\ ReadsHold' /\ OneCurrentRow'
<1> USE DEF IInv
<1> DEFINE x == req[t].from
           read == {Pair(r) : r \in req[t].pending}
           yes == {p \in read : p[2] \in req[t].approved}
           gone == IF req[t].kind = "review" THEN req[t].pending ELSE PendingOf(x)
           new == Decided(yes, "approved") \cup Decided(read \ yes, "rejected")
<1>1. t \in Threads /\ (Doing(t, "review") \/ Doing(t, "reject"))
  BY DEF Threads, ReviewCommit
<1>2. req[t].pending \subseteq PendingOf(x)
  BY <1>1 DEF ReadsHold, ReviewHolds
<1>3. /\ req[t].pending \in SUBSET rows
      /\ \A r \in req[t].pending : r.status \in Live /\ r \in gone
  BY <1>2 DEF PendingOf, Live, Ledger!Live
<1>4. read \in SUBSET Pairs
  BY <1>3, PairOfRow DEF TypeOK
<1>5. Commit(t, gone, new) /\ batches < MaxBatches
  BY CommitFacts DEF ReviewCommit
<1>6. "approved" \in Status /\ "rejected" \in Status
  BY DEF Status, Ledger!Status
<1>7. yes \in SUBSET Pairs /\ read \ yes \in SUBSET Pairs /\ batches \in 0..MaxBatches
  BY <1>4 DEF TypeOK
<1> DEFINE a == Decided(yes, "approved")
           b == Decided(read \ yes, "rejected")
<1>8. /\ a \subseteq Row
      /\ \A r \in a : Pair(r) \in yes
      /\ \A q, r \in a : Pair(q) = Pair(r) => q = r
  BY <1>5, <1>6, <1>7, DecidedRows
<1>9. /\ b \subseteq Row
      /\ \A r \in b : Pair(r) \in read \ yes
      /\ \A q, r \in b : Pair(q) = Pair(r) => q = r
  BY <1>5, <1>6, <1>7, DecidedRows
<1>10. \A p \in read : \E q \in req[t].pending : Pair(q) = p
  OBVIOUS
<1>11. yes \subseteq read /\ new = a \cup b
  OBVIOUS
<1> HIDE DEF a, b, yes, read, new, gone
<1>12. /\ new \in SUBSET Row
       /\ \A r \in new : \E q \in req[t].pending : Pair(q) = Pair(r)
       /\ \A q, r \in new : Pair(q) = Pair(r) => q = r
  BY <1>8, <1>9, <1>10, <1>11
<1>13. QED
  BY <1>3, <1>5, <1>12, CopiesKeep

LEMMA LeaveKeeps ==
    ASSUME IInv, Serial, NEW t \in Admins, LeaveCommit(t)
    PROVE  RolesKept' /\ ChecksHold' /\ ReadsHold' /\ OneCurrentRow'
<1> USE DEF IInv
<1> DEFINE x == req[t].from
           read == {Pair(r) : r \in req[t].live}
           new == Decided(read, "cancelled")
<1>1. t \in Threads /\ Doing(t, "leave")
  BY DEF Threads, LeaveCommit
<1>2. req[t].live \subseteq LiveOf(x)
  BY <1>1 DEF ReadsHold, LeaveHolds
<1>3. /\ req[t].live \in SUBSET rows
      /\ \A r \in req[t].live : r.status \in Live /\ r \in LiveOf(x)
  BY <1>2 DEF LiveOf
<1>4. read \in SUBSET Pairs
  BY <1>3, PairOfRow DEF TypeOK
<1>5. Commit(t, LiveOf(x), new) /\ batches < MaxBatches
  BY CommitFacts DEF LeaveCommit
<1>6. "cancelled" \in Status /\ batches \in 0..MaxBatches
  BY DEF Status, Ledger!Status, TypeOK
<1>7. /\ new \in SUBSET Row
      /\ \A r \in new : Pair(r) \in read
      /\ \A q, r \in new : Pair(q) = Pair(r) => q = r
  BY <1>4, <1>5, <1>6, DecidedRows
<1>8. \A p \in read : \E q \in req[t].live : Pair(q) = p
  OBVIOUS
<1> HIDE DEF read, new
<1>9. QED
  BY <1>3, <1>5, <1>7, <1>8, CopiesKeep

\* The row of a pair with an approved row is that row.
LEMMA CancelTakes ==
    ASSUME TypeOK, OneCurrentRow, NEW p \in Pairs, ApprovedFor(p) # {},
           NEW q \in rows, Pair(q) \in Covered(p)
    PROVE  q \in ApprovedFor(p)
<1>1. PICK r \in ApprovedFor(p) : r \in rows /\ Pair(r) \in Covered(p)
  BY DEF ApprovedFor
<1>2. Pair(q) \in Pairs /\ Pair(r) \in Pairs
  BY <1>1, PairOfRow DEF TypeOK
<1>3. Pair(q) \in Covered(Pair(r))
  BY <1>1, <1>2, CoveredTransitive
<1>4. q = r
  BY <1>1, <1>3 DEF OneCurrentRow
<1>5. QED
  BY <1>1, <1>4

LEMMA CancelKeeps ==
    ASSUME IInv, Serial, NEW t \in Admins, CancelCommit(t)
    PROVE  RolesKept' /\ ChecksHold' /\ ReadsHold' /\ OneCurrentRow'
<1> USE DEF IInv
<1> DEFINE done == req[t].done
           gone == UNION {ApprovedFor(p) : p \in done}
           new == Decided(done, "cancelled")
<1>1. t \in Threads /\ Doing(t, "cancel")
  BY DEF Threads, CancelCommit
<1>2. done \in SUBSET Pairs
  BY <1>1, RowOfRequest DEF CancelRequest
<1>3. /\ Commit(t, gone, new)
      /\ Finishes(t)
      /\ rows' = (rows \ gone) \cup new
      /\ batches < MaxBatches
  BY CommitFacts DEF CancelCommit
<1>4. "cancelled" \in Status /\ batches \in 0..MaxBatches
  BY DEF Status, Ledger!Status, TypeOK
<1>5. /\ new \in SUBSET Row
      /\ \A r \in new : Pair(r) \in done /\ r.status = "cancelled"
      /\ \A q, r \in new : Pair(q) = Pair(r) => q = r
  BY <1>2, <1>3, <1>4, DecidedRows
<1>6. ASSUME NEW p \in done, NEW q \in rows, Pair(q) \in Covered(p)
      PROVE  q \in gone
  <2>1. ApprovedFor(p) # {}
    BY <1>1 DEF ReadsHold, CancelHolds
  <2>2. q \in ApprovedFor(p)
    BY <1>2, <1>6, <2>1, CancelTakes
  <2>3. QED
    BY <2>2
<1>7. \A p, q \in done : q \in Covered(p) => p = q
  BY <1>1 DEF ReadsHold, CancelHolds
<1> HIDE DEF done, gone, new
<1>8. ChecksHold'
  BY <1>1, <1>3, <1>5, ChecksFrame DEF Live, Ledger!Live
<1>9. OneCurrentRow'
  BY <1>3, <1>5, <1>6, <1>7, ReplacedRows DEF Finishes
<1>10. QED
  BY <1>3, <1>8, <1>9, AdminDone

-----------------------------------------------------------------------------
(* The theorem                                                             *)

LEMMA InitIInv == Init => IInv
<1>1. ASSUME Init
      PROVE  RolesKept /\ ChecksHold /\ ReadsHold /\ OneCurrentRow
  BY <1>1 DEF Init, RolesKept, ChecksHold, ReadsHold, ReviewHolds, LeaveHolds, CancelHolds,
              OneCurrentRow, Doing
<1>2. QED
  BY <1>1, InitType DEF IInv

LEMMA NextIInv ==
    ASSUME Serial, IInv, [Next]_vars
    PROVE  IInv'
<1>1. TypeOK'
  BY NextType DEF IInv
<1>2. ASSUME NEW t \in Applicants, ApplyRead(t) \/ ApplyCommit(t)
      PROVE  IInv'
  BY <1>1, <1>2, ReadsKeep, ApplyKeeps DEF IInv, Threads
<1>3. ASSUME NEW t \in Admins, ReviewRead(t) \/ CancelRead(t) \/ LeaveRead(t)
      PROVE  IInv'
  BY <1>1, <1>3, ReadsKeep DEF IInv, Threads
<1>4. ASSUME NEW t \in Admins, ReviewCommit(t) \/ CancelCommit(t) \/ LeaveCommit(t)
      PROVE  IInv'
  BY <1>1, <1>4, ReviewKeeps, CancelKeeps, LeaveKeeps DEF IInv
<1>5. ASSUME NEW t \in Threads, Rollback(t)
      PROVE  IInv'
  <2>1. Finishes(t) /\ UNCHANGED <<rows, scenario>>
    BY <1>5 DEF Rollback, Finishes, table
  <2>2. RolesKept' /\ ReadsHold' /\ OneCurrentRow'
    BY <2>1, RolesFrame, ReadsFrame, RowsUnchanged DEF IInv
  <2>3. ChecksHold'
    BY <2>1, ChecksFrame DEF IInv
  <2>4. QED
    BY <1>1, <2>2, <2>3 DEF IInv
<1>6. ASSUME UNCHANGED <<rows, scenario, req>>
      PROVE  IInv'
  <2>1. OneCurrentRow'
    BY <1>6, RowsUnchanged DEF IInv
  <2>2. RolesKept' /\ ChecksHold'
    BY <1>6 DEF IInv, RolesKept, ChecksHold, Doing, Pair, Covered, Ledger!Covered,
                Ledger!Reverse, Live, Ledger!Live
  <2>3. ASSUME NEW s \in Threads
        PROVE  ReviewHolds(s)' /\ LeaveHolds(s)' /\ CancelHolds(s)'
    <3>1. ReviewHolds(s) /\ LeaveHolds(s) /\ CancelHolds(s)
      BY DEF IInv, ReadsHold
    <3>2. ReviewHolds(s)'
      BY <1>6, <3>1 DEF ReviewHolds, Doing, PendingOf
    <3>3. LeaveHolds(s)'
      BY <1>6, <3>1 DEF LeaveHolds, Doing, LiveOf, Live, Ledger!Live
    <3>4. ASSUME Doing(s, "cancel")'
          PROVE  /\ \A p \in req'[s].done : ApprovedFor(p) # {}
                 /\ \A p, q \in req'[s].done : q \in Covered(p) => p = q
      BY <1>6, <3>1, <3>4 DEF CancelHolds, Doing
    <3>5. CancelHolds(s)'
      BY <1>6, <3>4 DEF CancelHolds, ApprovedFor, Pair, Covered, Ledger!Covered, Ledger!Reverse
    <3>6. QED
      BY <3>2, <3>3, <3>5
  <2>4. QED
    BY <1>1, <2>1, <2>2, <2>3 DEF IInv, ReadsHold
<1>7. ASSUME NEW i \in Pollers, PollRead(i) \/ PollStore(i)
      PROVE  IInv'
  BY <1>6, <1>7 DEF PollRead, PollStore, table
<1>8. CASE UNCHANGED vars
  BY <1>6, <1>8 DEF vars
<1>9. QED
  BY <1>2, <1>3, <1>4, <1>5, <1>7, <1>8 DEF Next

\* While one FATE Manager and one administrator send requests at a time, their
\* transactions, interleaved in any way, leave one current row (generation 1)
\* for two institutions: none is approved and rejected at once.
THEOREM OneRowCurrent ==
    ASSUME Serial
    PROVE  Spec => []OneCurrentRow
<1>1. IInv /\ [Next]_vars => IInv'
  BY NextIInv
<1>2. IInv => OneCurrentRow
  BY DEF IInv
<1>3. QED
  BY <1>1, <1>2, InitIInv, PTL DEF Spec

-----------------------------------------------------------------------------
(* What a request relies on between its reading and its commit             *)

\* Rows of a table R.
PendingIn(R, x) == {r \in R : r.from = x /\ r.status = "pending"}
ApprovedIn(R) == {r \in R : r.status = "approved"}

\* What a request q has checked and read still describes the rows in R: none of
\* an applicant's rows is pending, a review decides all that is pending, and a
\* deletion cancels all that is approved.
StandsIn(q, sc, R) ==
    /\ q.kind = "apply" =>
        /\ q.targets # {}
        /\ Ledger!MayApply(sc, q.from, q.targets)
        /\ PendingIn(R, q.from) = {}
    /\ q.kind \in {"review", "reject"} =>
        /\ q.pending # {}
        /\ q.pending = PendingIn(R, q.from)
    /\ q.kind = "leave" =>
        \A r \in ApprovedIn(R) : q.from \in {r.from, r.to} => r \in q.live

RequestsStand == \A t \in Threads : req[t] # None => StandsIn(req[t], scenario, rows)

\* The invariant the ledger needs.
LedgerInv == IInv /\ RequestsStand


LEMMA BeginThread ==
    ASSUME TypeOK, NEW t \in Threads, NEW r, Begin(t, r), NEW s \in Threads
    PROVE  /\ req'[s] = IF s = t THEN r ELSE req[s]
           /\ rows' = rows
           /\ scenario' = scenario
  BY DEF Begin, TypeOK, table

\* A request stands on what it has just read.
LEMMA ReadStands ==
    ASSUME NEW t, ApplyRead(t) \/ ReviewRead(t) \/ CancelRead(t) \/ LeaveRead(t)
    PROVE  \E r : Begin(t, r) /\ StandsIn(r, scenario, rows)
<1>1. CASE ApplyRead(t)
  <2>1. PICK x \in valid, T \in (SUBSET valid) \ {{}} :
            /\ Ledger!MayApply(scenario, x, T)
            /\ \A r \in rows : ~(r.from = x /\ r.status = "pending")
            /\ Begin(t, [kind |-> "apply", from |-> x, targets |-> T])
    BY <1>1 DEF ApplyRead
  <2>2. PendingIn(rows, x) = {}
    BY <2>1 DEF PendingIn
  <2> DEFINE q == [kind |-> "apply", from |-> x, targets |-> T]
  <2>3. q.kind = "apply" /\ q.from = x /\ q.targets = T /\ Begin(t, q)
    BY <2>1
  <2> HIDE DEF q
  <2>4. T # {}
    BY <2>1
  <2>5. Ledger!MayApply(scenario, q.from, q.targets)
    BY <2>1, <2>3
  <2>6. StandsIn(q, scenario, rows)
    BY <2>2, <2>3, <2>4, <2>5 DEF StandsIn
  <2>7. QED
    BY <2>3, <2>6
<1>2. CASE ReviewRead(t)
  <2>1. PICK x \in Institutions, A \in SUBSET Institutions, k \in {"review", "reject"} :
            /\ PendingOf(x) # {}
            /\ Begin(t, [kind |-> k, from |-> x, approved |-> A, pending |-> PendingOf(x)])
    BY <1>2 DEF ReviewRead
  <2>2. PendingOf(x) = PendingIn(rows, x)
    BY DEF PendingOf, PendingIn
  <2>3. StandsIn([kind |-> k, from |-> x, approved |-> A, pending |-> PendingOf(x)],
                 scenario, rows)
    BY <2>1, <2>2 DEF StandsIn
  <2>4. QED
    BY <2>1, <2>3
<1>3. CASE CancelRead(t)
  <2>1. PICK done : Begin(t, [kind |-> "cancel", done |-> done])
    BY <1>3 DEF CancelRead
  <2>2. StandsIn([kind |-> "cancel", done |-> done], scenario, rows)
    BY DEF StandsIn
  <2>3. QED
    BY <2>1, <2>2
<1>4. CASE LeaveRead(t)
  <2>1. PICK x \in valid : Begin(t, [kind |-> "leave", from |-> x, live |-> LiveOf(x)])
    BY <1>4 DEF LeaveRead
  <2>2. \A r \in ApprovedIn(rows) : x \in {r.from, r.to} => r \in LiveOf(x)
    BY DEF ApprovedIn, LiveOf, Live, Ledger!Live
  <2>3. StandsIn([kind |-> "leave", from |-> x, live |-> LiveOf(x)], scenario, rows)
    BY <2>2 DEF StandsIn
  <2>4. QED
    BY <2>1, <2>3
<1>5. QED
  BY <1>1, <1>2, <1>3, <1>4

LEMMA ReadsStand ==
    ASSUME LedgerInv, NEW t \in Threads,
           ApplyRead(t) \/ ReviewRead(t) \/ CancelRead(t) \/ LeaveRead(t)
    PROVE  RequestsStand'
<1>1. PICK r : Begin(t, r) /\ StandsIn(r, scenario, rows)
  BY ReadStands
<1>2. ASSUME NEW s \in Threads, req'[s] # None
      PROVE  StandsIn(req'[s], scenario', rows')
  <2>1. /\ req'[s] = IF s = t THEN r ELSE req[s]
        /\ rows' = rows
        /\ scenario' = scenario
    BY <1>1, BeginThread DEF LedgerInv, IInv
  <2>2. s # t => req[s] # None
    BY <1>2, <2>1
  <2>3. s # t => StandsIn(req[s], scenario, rows)
    BY <2>2 DEF LedgerInv, RequestsStand
  <2>4. QED
    BY <1>1, <2>1, <2>3
<1>3. QED
  BY <1>2 DEF RequestsStand

\* A step that takes thread t's request away, with the rows it leaves.
LEMMA OthersStand ==
    ASSUME LedgerInv, NEW t \in Threads, Finishes(t),
           \A s \in Threads : s # t /\ req[s] # None =>
                /\ req[s].kind = "apply" => PendingIn(rows', req[s].from) = {}
                /\ req[s].kind \in {"review", "reject"} =>
                        PendingIn(rows', req[s].from) = PendingIn(rows, req[s].from)
                /\ req[s].kind = "leave" => ApprovedIn(rows') \subseteq ApprovedIn(rows)
    PROVE  RequestsStand'
<1>1. ASSUME NEW s \in Threads, req'[s] # None
      PROVE  StandsIn(req'[s], scenario', rows')
  <2>1. s # t /\ req'[s] = req[s] /\ scenario' = scenario
    BY <1>1, FinishedThread DEF LedgerInv, IInv, Finishes
  <2>2. req[s] # None
    BY <1>1, <2>1
  <2>3. StandsIn(req[s], scenario, rows)
    BY <2>2 DEF LedgerInv, RequestsStand
  <2>4. StandsIn(req[s], scenario, rows')
    BY <2>1, <2>2, <2>3 DEF StandsIn
  <2>5. QED
    BY <2>1, <2>4
<1>2. QED
  BY <1>1 DEF RequestsStand

LEMMA ApplyStandsOn ==
    ASSUME LedgerInv, NEW t \in Threads, Doing(t, "apply")
    PROVE  /\ req[t].from \in Institutions
           /\ req[t].targets \in SUBSET Institutions
           /\ req[t].from \notin req[t].targets
           /\ req[t].targets # {}
           /\ Ledger!MayApply(scenario, req[t].from, req[t].targets)
           /\ PendingIn(rows, req[t].from) = {}
<1>1. StandsIn(req[t], scenario, rows) /\ req[t].kind = "apply"
  BY DEF LedgerInv, RequestsStand, Doing
<1>2. req[t] \in ApplyRequest
  BY RowOfRequest DEF LedgerInv, IInv
<1>3. QED
  BY <1>1, <1>2 DEF StandsIn, ApplyRequest

LEMMA ReviewStandsOn ==
    ASSUME LedgerInv, NEW t \in Threads, Doing(t, "review") \/ Doing(t, "reject")
    PROVE  /\ req[t].from \in Institutions
           /\ req[t].pending # {}
           /\ req[t].pending = PendingOf(req[t].from)
<1>1. StandsIn(req[t], scenario, rows) /\ req[t].kind \in {"review", "reject"}
  BY DEF LedgerInv, RequestsStand, Doing
<1>2. req[t] \in ReviewRequest
  BY RowOfRequest DEF LedgerInv, IInv
<1>3. QED
  BY <1>1, <1>2 DEF StandsIn, ReviewRequest, PendingIn, PendingOf

LEMMA LeaveStandsOn ==
    ASSUME LedgerInv, NEW t \in Threads, Doing(t, "leave")
    PROVE  /\ req[t].from \in Institutions
           /\ req[t].live \subseteq LiveOf(req[t].from)
           /\ \A r \in rows : r.status = "approved" /\ req[t].from \in {r.from, r.to} =>
                r \in req[t].live
<1>1. StandsIn(req[t], scenario, rows) /\ req[t].kind = "leave"
  BY DEF LedgerInv, RequestsStand, Doing
<1>2. req[t] \in LeaveRequest
  BY RowOfRequest DEF LedgerInv, IInv
<1>3. req[t].live \subseteq LiveOf(req[t].from)
  BY DEF LedgerInv, IInv, ReadsHold, LeaveHolds
<1>4. QED
  BY <1>1, <1>2, <1>3 DEF StandsIn, LeaveRequest, ApprovedIn

\* Only the FATE Manager's application is left, and nothing new is pending.
LEMMA AdminLeavesStanding ==
    ASSUME LedgerInv, Serial, NEW t \in Admins, Finishes(t),
           \A r \in rows' : r.status = "pending" => r \in rows
    PROVE  RequestsStand'
<1>1. t \in Threads
  BY DEF Threads
<1>2. ASSUME NEW s \in Threads, s # t, req[s] # None
      PROVE  req[s].kind = "apply"
  BY <1>2 DEF Serial, Threads, LedgerInv, IInv, RolesKept
<1>3. ASSUME NEW s \in Threads, s # t, req[s] # None
      PROVE  PendingIn(rows', req[s].from) = {}
  <2>1. PendingIn(rows, req[s].from) = {}
    BY <1>2, <1>3, ApplyStandsOn DEF Doing
  <2>2. QED
    BY <2>1 DEF PendingIn
<1>4. QED
  BY <1>1, <1>2, <1>3, OthersStand

LEMMA CommitStands ==
    ASSUME LedgerInv, Serial, NEW t \in Admins, NEW gone, NEW new, Commit(t, gone, new),
           \A r \in new : r.status # "pending"
    PROVE  RequestsStand'
<1>1. Finishes(t) /\ rows' = (rows \ gone) \cup new
  BY CommitFacts
<1>2. QED
  BY <1>1, AdminLeavesStanding

\* The applicant's rows are new; what is replaced was not live.
LEMMA ApplyLeavesStanding ==
    ASSUME LedgerInv, Serial, NEW t \in Applicants, ApplyCommit(t)
    PROVE  RequestsStand'
<1> DEFINE x == req[t].from
           P == {<<x, y>> : y \in req[t].targets}
           gone == ReplacedByApply(x, req[t].targets)
           new == Decided(P, "pending")
<1>1. t \in Threads /\ Doing(t, "apply")
  BY DEF Threads, ApplyCommit
<1>2. /\ Finishes(t)
      /\ rows' = (rows \ gone) \cup new
  <2>1. Commit(t, gone, new)
    BY DEF ApplyCommit
  <2> HIDE DEF x, P, gone, new
  <2>2. QED
    BY <2>1, CommitFacts
<1>3. \A r \in new : r.from = x /\ r.status = "pending"
  BY DEF Decided
<1>4. \A r \in rows : r.status \in Live => r \notin gone
  BY <1>1 DEF LedgerInv, IInv, ChecksHold, ReplacedByApply
<1>5. PendingIn(rows, x) = {}
  BY <1>1, ApplyStandsOn
<1> HIDE DEF x, P, gone, new
<1>6. ASSUME NEW s \in Threads, s # t, req[s] # None
      PROVE  req[s].kind # "apply"
  BY <1>6 DEF Serial, Threads, LedgerInv, IInv, RolesKept
<1>7. ASSUME NEW s \in Threads, req[s] # None, req[s].kind \in {"review", "reject"}
      PROVE  PendingIn(rows', req[s].from) = PendingIn(rows, req[s].from)
  <2>1. req[s].pending # {} /\ req[s].pending = PendingOf(req[s].from)
    BY <1>7, ReviewStandsOn DEF Doing
  <2>2. PendingIn(rows, req[s].from) # {}
    BY <2>1 DEF PendingIn, PendingOf
  <2>3. req[s].from # x
    BY <1>5, <2>2
  <2>4. \A r \in rows : r.status = "pending" => r \in rows'
    BY <1>2, <1>4 DEF Live, Ledger!Live
  <2>5. \A r \in rows' : r.from = req[s].from => r \in rows
    BY <1>2, <1>3, <2>3
  <2>6. QED
    BY <2>4, <2>5 DEF PendingIn
<1>8. ApprovedIn(rows') \subseteq ApprovedIn(rows)
  BY <1>2, <1>3 DEF ApprovedIn
<1>9. QED
  BY <1>1, <1>2, <1>6, <1>7, <1>8, OthersStand

LEMMA DecidedStatus ==
    ASSUME NEW P, NEW v, NEW r \in Decided(P, v)
    PROVE  r.status = v
  BY DEF Decided

LEMMA NextStands ==
    ASSUME Serial, LedgerInv, [Next]_vars
    PROVE  RequestsStand'
<1>1. ASSUME NEW t \in Applicants, ApplyRead(t) \/ ApplyCommit(t)
      PROVE  RequestsStand'
  BY <1>1, ReadsStand, ApplyLeavesStanding DEF Threads
<1>2. ASSUME NEW t \in Admins, ReviewRead(t) \/ CancelRead(t) \/ LeaveRead(t)
      PROVE  RequestsStand'
  BY <1>2, ReadsStand DEF Threads
<1>3. ASSUME NEW t \in Admins, ReviewCommit(t)
      PROVE  RequestsStand'
  <2>1. PICK P, Q, gone :
            Commit(t, gone, Decided(P, "approved") \cup Decided(Q, "rejected"))
    BY <1>3 DEF ReviewCommit
  <2>2. \A r \in Decided(P, "approved") \cup Decided(Q, "rejected") : r.status # "pending"
    BY DecidedStatus
  <2>3. QED
    BY <2>1, <2>2, CommitStands
<1>4. ASSUME NEW t \in Admins, CancelCommit(t) \/ LeaveCommit(t)
      PROVE  RequestsStand'
  <2>1. PICK P, gone : Commit(t, gone, Decided(P, "cancelled"))
    BY <1>4 DEF CancelCommit, LeaveCommit
  <2>2. \A r \in Decided(P, "cancelled") : r.status # "pending"
    BY DecidedStatus
  <2>3. QED
    BY <2>1, <2>2, CommitStands
<1>5. ASSUME NEW t \in Threads, Rollback(t)
      PROVE  RequestsStand'
  <2>1. Finishes(t) /\ rows' = rows
    BY <1>5 DEF Rollback, Finishes, table
  <2>2. ASSUME NEW s \in Threads, req[s] # None, req[s].kind = "apply"
        PROVE  PendingIn(rows, req[s].from) = {}
    BY <2>2, ApplyStandsOn DEF Doing
  <2>3. QED
    BY <2>1, <2>2, OthersStand
<1>6. ASSUME UNCHANGED <<rows, scenario, req>>
      PROVE  RequestsStand'
  BY <1>6 DEF LedgerInv, RequestsStand
<1>7. ASSUME NEW i \in Pollers, PollRead(i) \/ PollStore(i)
      PROVE  RequestsStand'
  BY <1>6, <1>7 DEF PollRead, PollStore, table
<1>8. CASE UNCHANGED vars
  BY <1>6, <1>8 DEF vars
<1>9. QED
  BY <1>1, <1>2, <1>3, <1>4, <1>5, <1>7, <1>8 DEF Next

LEMMA InitLedgerInv == Init => LedgerInv
  BY InitIInv DEF LedgerInv, RequestsStand, Init

LEMMA NextLedgerInv ==
    ASSUME Serial, LedgerInv, [Next]_vars
    PROVE  LedgerInv'
  BY NextIInv, NextStands DEF LedgerInv

-----------------------------------------------------------------------------
(* The decisions the rows show                                             *)

\* Decision, of the rows in R.
Shown(R) ==
    [p \in Pairs |-> IF \E r \in R : Pair(r) = p
                     THEN (CHOOSE r \in R : Pair(r) = p).status ELSE "none"]

\* No two rows in R are about the same pair.
Single(R) == \A q, r \in R : Pair(q) = Pair(r) => q = r

LEMMA CurrentSingle ==
    ASSUME NEW R \in SUBSET Row, NEW sc,
           \A q, r \in R : Pair(q) \in Ledger!Covered(sc, Pair(r)) => q = r
    PROVE  Single(R)
<1>1. \A p \in Pairs : p \in Ledger!Covered(sc, p)
  BY DEF Ledger!Covered
<1>2. QED
  BY <1>1, PairOfRow DEF Single

LEMMA ShownRow ==
    ASSUME NEW R \in SUBSET Row, Single(R), NEW r \in R
    PROVE  Shown(R)[Pair(r)] = r.status
<1>1. Pair(r) \in Pairs
  BY PairOfRow
<1>2. (CHOOSE q \in R : Pair(q) = Pair(r)) = r
  BY DEF Single
<1>3. QED
  BY <1>1, <1>2 DEF Shown

LEMMA ShownNone ==
    ASSUME NEW R, NEW p \in Pairs, \A r \in R : Pair(r) # p
    PROVE  Shown(R)[p] = "none"
  BY DEF Shown

LEMMA ShownType ==
    ASSUME NEW R \in SUBSET Row, Single(R)
    PROVE  Shown(R) \in [Pairs -> Status \cup {"none"}]
<1>1. ASSUME NEW p \in Pairs
      PROVE  Shown(R)[p] \in Status \cup {"none"}
  <2>1. CASE \E r \in R : Pair(r) = p
    BY <2>1, ShownRow DEF Row
  <2>2. CASE \A r \in R : Pair(r) # p
    BY <2>2, ShownNone
  <2>3. QED
    BY <2>1, <2>2
<1>2. QED
  BY <1>1 DEF Shown

\* A decision comes from a row.
LEMMA ShownFrom ==
    ASSUME NEW R \in SUBSET Row, Single(R), NEW p \in Pairs, Shown(R)[p] # "none"
    PROVE  \E r \in R : Pair(r) = p /\ r.status = Shown(R)[p]
<1>1. PICK r \in R : Pair(r) = p
  BY ShownNone
<1>2. QED
  BY <1>1, ShownRow

LEMMA DecidedAll ==
    ASSUME NEW P \in SUBSET Pairs, NEW v, NEW p \in P
    PROVE  \E r \in Decided(P, v) : Pair(r) = p
<1> DEFINE r == [from |-> p[1], to |-> p[2], status |-> v, batch |-> batches + 1]
<1>1. r \in Decided(P, v)
  BY DEF Decided
<1>2. Pair(r) = p
  BY DEF Pair, Pairs
<1>3. QED
  BY <1>1, <1>2

\* The decision about a pair whose row is kept.
LEMMA ShownKept ==
    ASSUME NEW R \in SUBSET Row, Single(R), NEW S \in SUBSET Row, Single(S),
           NEW p \in Pairs,
           \A r \in R : Pair(r) = p => r \in S,
           \A r \in S : Pair(r) = p => r \in R
    PROVE  Shown(S)[p] = Shown(R)[p]
<1>1. CASE \E r \in R : Pair(r) = p
  BY <1>1, ShownRow
<1>2. CASE \A r \in R : Pair(r) # p
  BY <1>2, ShownNone
<1>3. QED
  BY <1>1, <1>2

LEMMA DecisionShown ==
    /\ Decision = Shown(rows)
    /\ Decision' = Shown(rows')
  BY DEF Decision, Shown

LEMMA BothSingle ==
    ASSUME TypeOK, OneCurrentRow, TypeOK', OneCurrentRow'
    PROVE  /\ rows \in SUBSET Row /\ Single(rows)
           /\ rows' \in SUBSET Row /\ Single(rows')
<1>1. rows \in SUBSET Row /\ rows' \in SUBSET Row
  BY DEF TypeOK
<1>2. QED
  BY <1>1, CurrentSingle DEF OneCurrentRow, Covered, Pair

\* A transaction that replaces all that the pairs in P cover by rows for P.
LEMMA LedgerDecides ==
    ASSUME TypeOK, OneCurrentRow, TypeOK', OneCurrentRow',
           NEW P \in SUBSET Pairs, NEW v \in Status, NEW gone,
           batches < MaxBatches, rows' = (rows \ gone) \cup Decided(P, v),
           \A r \in rows, p \in P : Pair(r) \in Covered(p) => r \in gone,
           \A r \in rows \cap gone : \E p \in P : Pair(r) \in Covered(p)
    PROVE  Decision' = Ledger!Decide(P, v)
<1> DEFINE new == Decided(P, v)
<1>1. /\ rows \in SUBSET Row /\ Single(rows)
      /\ rows' \in SUBSET Row /\ Single(rows')
  BY BothSingle
<1>2. \A r \in new : Pair(r) \in P /\ r.status = v
  BY DecidedRows DEF TypeOK
<1>3. \A p \in P : \E r \in new : Pair(r) = p
  BY DecidedAll
<1> HIDE DEF new
<1>4. rows' = (rows \ gone) \cup new
  BY DEF new
<1>5. ASSUME NEW p \in P
      PROVE  Shown(rows')[p] = v
  <2>1. PICK r \in new : Pair(r) = p
    BY <1>3
  <2>2. r \in rows' /\ r.status = v
    BY <1>2, <1>4
  <2>3. QED
    BY <1>1, <2>1, <2>2, ShownRow
<1>6. ASSUME NEW p \in Pairs \ P, NEW q \in P, p \in Covered(q)
      PROVE  Shown(rows')[p] = "none"
  <2>1. \A r \in new : Pair(r) # p
    BY <1>2
  <2>2. \A r \in rows' : Pair(r) # p
    BY <1>4, <1>6, <2>1
  <2>3. QED
    BY <2>2, ShownNone
<1>7. ASSUME NEW p \in Pairs \ P, \A q \in P : p \notin Covered(q)
      PROVE  Shown(rows')[p] = Shown(rows)[p]
  <2>1. \A r \in rows \cap gone : Pair(r) # p
    BY <1>7
  <2>2. \A r \in new : Pair(r) # p
    BY <1>2
  <2>3. /\ \A r \in rows : Pair(r) = p => r \in rows'
        /\ \A r \in rows' : Pair(r) = p => r \in rows
    BY <1>4, <2>1, <2>2
  <2>4. QED
    BY <1>1, <2>3, ShownKept
<1>8. Shown(rows') = [p \in Pairs |->
            IF p \in P THEN v
            ELSE IF \E q \in P : p \in Covered(q) THEN "none"
            ELSE Shown(rows)[p]]
  <2>1. \A p \in Pairs : Shown(rows')[p] =
            IF p \in P THEN v
            ELSE IF \E q \in P : p \in Covered(q) THEN "none"
            ELSE Shown(rows)[p]
    BY <1>5, <1>6, <1>7
  <2>2. Shown(rows') = [p \in Pairs |-> Shown(rows')[p]]
    BY DEF Shown
  <2>3. QED
    BY <2>1, <2>2
<1>9. QED
  BY <1>8, DecisionShown DEF Ledger!Decide, Ledger!Pairs, Pairs, Covered

-----------------------------------------------------------------------------
(* Every transaction is a step of the ledger                               *)

LEMMA ApplyIsApply ==
    ASSUME LedgerInv, LedgerInv', NEW t \in Threads, ApplyCommit(t)
    PROVE  Ledger!Next
<1> DEFINE x == req[t].from
           T == req[t].targets
           P == {<<x, y>> : y \in T}
           gone == ReplacedByApply(x, T)
<1>1. Doing(t, "apply") /\ TypeOK /\ OneCurrentRow /\ TypeOK' /\ OneCurrentRow'
  BY DEF ApplyCommit, LedgerInv, IInv
<1>2. /\ x \in Institutions
      /\ T \in SUBSET Institutions
      /\ x \notin T
      /\ T # {}
      /\ Ledger!MayApply(scenario, x, T)
      /\ PendingIn(rows, x) = {}
  BY <1>1, ApplyStandsOn
<1>3. Commit(t, gone, Decided(P, "pending"))
  BY DEF ApplyCommit
<1>4. /\ rows' = (rows \ gone) \cup Decided(P, "pending")
      /\ batches < MaxBatches
      /\ scenario' = scenario
  BY <1>3 DEF Commit, Replace
<1>5. P \in SUBSET Pairs /\ "pending" \in Status
  BY <1>2 DEF Pairs, Status, Ledger!Status
<1>6. \A r \in rows, p \in P : Pair(r) \in Covered(p) => r \in gone
  BY DEF ReplacedByApply
<1>7. \A r \in rows \cap gone : \E p \in P : Pair(r) \in Covered(p)
  BY DEF ReplacedByApply
<1>8. ASSUME NEW y \in T, NEW p \in Pairs, p \in Covered(<<x, y>>)
      PROVE  Decision[p] \notin Live
  <2>1. Single(rows) /\ rows \in SUBSET Row
    BY <1>1, BothSingle
  <2>2. CASE \E r \in rows : Pair(r) = p
    <3>1. PICK r \in rows : Pair(r) = p
      BY <2>2
    <3>2. r.status \notin Live
      BY <1>1, <1>8, <3>1 DEF LedgerInv, IInv, ChecksHold
    <3>3. QED
      BY <2>1, <3>1, <3>2, ShownRow, DecisionShown
  <2>3. CASE \A r \in rows : Pair(r) # p
    BY <2>3, ShownNone, DecisionShown DEF Live, Ledger!Live
  <2>4. QED
    BY <2>2, <2>3
<1>9. ASSUME NEW p \in Ledger!With("pending")
      PROVE  p[1] # x
  <2>1. p \in Pairs /\ Shown(rows)[p] = "pending"
    BY DecisionShown DEF Ledger!With, Ledger!Pairs, Pairs
  <2>2. PICK r \in rows : Pair(r) = p /\ r.status = "pending"
    BY <1>1, <2>1, BothSingle, ShownFrom
  <2>3. r.from = p[1]
    BY <2>2 DEF Pair
  <2>4. QED
    BY <1>2, <2>2, <2>3 DEF PendingIn
<1> HIDE DEF gone
<1>10. Decision' = Ledger!Decide(P, "pending")
  <2> HIDE DEF P, x, T
  <2>1. QED
    BY <1>1, <1>4, <1>5, <1>6, <1>7, LedgerDecides
<1> HIDE DEF x, T
<1>11. Ledger!Apply(x, T)
  BY <1>2, <1>4, <1>8, <1>9, <1>10
     DEF Ledger!Apply, Ledger!Pairs, Pairs, Covered, Live, Ledger!Live
<1>12. QED
  BY <1>2, <1>11 DEF Ledger!Next

LEMMA CancelIsCancel ==
    ASSUME LedgerInv, LedgerInv', NEW t \in Threads, CancelCommit(t)
    PROVE  Ledger!Next
<1> DEFINE done == req[t].done
           gone == UNION {ApprovedFor(p) : p \in done}
<1>1. Doing(t, "cancel") /\ TypeOK /\ OneCurrentRow /\ TypeOK' /\ OneCurrentRow'
  BY DEF CancelCommit, LedgerInv, IInv
<1>2. done \in SUBSET Pairs
  BY <1>1, RowOfRequest DEF CancelRequest
<1>3. /\ \A p \in done : ApprovedFor(p) # {}
      /\ \A p, q \in done : q \in Covered(p) => p = q
  BY <1>1 DEF LedgerInv, IInv, ReadsHold, CancelHolds
<1>4. Commit(t, gone, Decided(done, "cancelled"))
  BY DEF CancelCommit
<1>5. /\ rows' = (rows \ gone) \cup Decided(done, "cancelled")
      /\ batches < MaxBatches
      /\ scenario' = scenario
  BY <1>4 DEF Commit, Replace
<1>6. ASSUME NEW p \in done, NEW r \in rows, Pair(r) \in Covered(p)
      PROVE  r \in gone
  BY <1>1, <1>2, <1>3, <1>6, CancelTakes
<1>7. \A r \in rows \cap gone : \E p \in done : Pair(r) \in Covered(p)
  BY DEF ApprovedFor
<1>8. "cancelled" \in Status
  BY DEF Status, Ledger!Status
<1>9. ASSUME NEW p \in done
      PROVE  p \in UNION {Covered(q) : q \in Ledger!With("approved")}
  <2>1. PICK r \in rows : r.status = "approved" /\ Pair(r) \in Covered(p)
    BY <1>3 DEF ApprovedFor
  <2>2. p \in Pairs /\ Pair(r) \in Pairs
    BY <1>1, <1>2, PairOfRow DEF TypeOK
  <2>3. p \in Covered(Pair(r))
    BY <2>1, <2>2, CoveredSymmetric
  <2>4. Decision[Pair(r)] = "approved"
    BY <1>1, <2>1, BothSingle, ShownRow, DecisionShown
  <2>5. Pair(r) \in Ledger!With("approved")
    BY <2>2, <2>4 DEF Ledger!With, Ledger!Pairs, Pairs
  <2>6. QED
    BY <2>3, <2>5
<1> HIDE DEF done, gone
<1>10. Decision' = Ledger!Decide(done, "cancelled")
  BY <1>1, <1>2, <1>5, <1>6, <1>7, <1>8, LedgerDecides
<1>11. Ledger!Cancel(done)
  BY <1>3, <1>5, <1>10 DEF Ledger!Cancel, Covered
<1>12. done \in SUBSET UNION {Ledger!Covered(scenario, q) : q \in Ledger!With("approved")}
  BY <1>9 DEF Covered
<1>13. QED
  BY <1>11, <1>12 DEF Ledger!Next

LEMMA ReviewIsReview ==
    ASSUME LedgerInv, LedgerInv', NEW t \in Threads, ReviewCommit(t)
    PROVE  Ledger!Next
<1> DEFINE x == req[t].from
           read == {Pair(r) : r \in req[t].pending}
           yes == {p \in read : p[2] \in req[t].approved}
           gone == IF req[t].kind = "review" THEN req[t].pending ELSE PendingOf(x)
           a == Decided(yes, "approved")
           b == Decided(read \ yes, "rejected")
<1>1. /\ Doing(t, "review") \/ Doing(t, "reject")
      /\ TypeOK /\ OneCurrentRow /\ TypeOK' /\ OneCurrentRow'
  BY DEF ReviewCommit, LedgerInv, IInv
<1>2. /\ x \in Institutions
      /\ req[t].pending # {}
      /\ req[t].pending = PendingOf(x)
  BY <1>1, ReviewStandsOn
<1>3. /\ rows \in SUBSET Row /\ Single(rows)
      /\ rows' \in SUBSET Row /\ Single(rows')
  BY <1>1, BothSingle
<1>4. Commit(t, gone, a \cup b)
  BY DEF ReviewCommit
<1>5. gone = PendingOf(x)
  BY <1>2
<1>6. /\ yes \in SUBSET read
      /\ read \in SUBSET Pairs
  BY <1>2, <1>3, PairOfRow DEF PendingOf
<1>7. ASSUME NEW p \in Pairs
      PROVE  p \in read <=> \E r \in rows : Pair(r) = p /\ r.from = x /\ r.status = "pending"
  BY <1>2 DEF PendingOf
<1> HIDE DEF x, gone, a, b
<1>8. /\ rows' = (rows \ gone) \cup (a \cup b)
      /\ scenario' = scenario
  BY <1>4 DEF Commit, Replace
<1>9. /\ \A r \in a : Pair(r) \in read /\ r.status = "approved"
      /\ \A r \in b : Pair(r) \in read /\ r.status = "rejected"
  <2>1. batches \in 0..MaxBatches /\ batches < MaxBatches
    BY <1>1, <1>4 DEF Commit, TypeOK
  <2>2. "approved" \in Status /\ "rejected" \in Status
    BY DEF Status, Ledger!Status
  <2>3. read \ yes \in SUBSET Pairs /\ yes \in SUBSET Pairs
    BY <1>6
  <2> HIDE DEF read, yes
  <2>4. \A r \in a : Pair(r) \in yes /\ r.status = "approved"
    BY <2>1, <2>2, <2>3, DecidedRows DEF a
  <2>5. \A r \in b : Pair(r) \in read \ yes /\ r.status = "rejected"
    BY <2>1, <2>2, <2>3, DecidedRows DEF b
  <2>6. QED
    BY <1>6, <2>4, <2>5
<1>10. \A p \in read : \E r \in a \cup b : Pair(r) = p
  <2>1. ASSUME NEW p \in read
        PROVE  p \in yes \/ p \in read \ yes
    OBVIOUS
  <2>2. read \ yes \in SUBSET Pairs /\ yes \in SUBSET Pairs
    BY <1>6
  <2> HIDE DEF read, yes
  <2>3. /\ \A p \in yes : \E r \in a : Pair(r) = p
        /\ \A p \in read \ yes : \E r \in b : Pair(r) = p
    BY <2>2, DecidedAll DEF a, b
  <2>4. QED
    BY <2>1, <2>3
<1> HIDE DEF read, yes
<1>11. ASSUME NEW p \in Pairs
       PROVE  p \in read <=> p[1] = x /\ Decision[p] = "pending"
  <2>1. ASSUME p \in read
        PROVE  p[1] = x /\ Decision[p] = "pending"
    <3>1. PICK r \in rows : Pair(r) = p /\ r.from = x /\ r.status = "pending"
      BY <1>7, <2>1
    <3>2. p[1] = x
      BY <3>1 DEF Pair
    <3>3. QED
      BY <1>3, <3>1, <3>2, ShownRow, DecisionShown
  <2>2. ASSUME p[1] = x, Decision[p] = "pending"
        PROVE  p \in read
    <3>1. PICK r \in rows : Pair(r) = p /\ r.status = "pending"
      BY <1>3, <2>2, ShownFrom, DecisionShown
    <3>2. r.from = x
      BY <2>2, <3>1 DEF Pair
    <3>3. QED
      BY <1>7, <3>1, <3>2
  <2>3. QED
    BY <2>1, <2>2
<1>12. ASSUME NEW p \in Pairs, p \in read
       PROVE  Decision'[p] \in {"approved", "rejected"}
  <2>1. PICK r \in a \cup b : Pair(r) = p
    BY <1>10, <1>12
  <2>2. r \in rows' /\ r.status \in {"approved", "rejected"}
    BY <1>8, <1>9, <2>1
  <2>3. QED
    BY <1>3, <2>1, <2>2, ShownRow, DecisionShown
<1>13. ASSUME NEW p \in Pairs, p \notin read
       PROVE  Decision'[p] = Decision[p]
  <2>1. \A r \in rows : Pair(r) = p => r \notin gone
    BY <1>5, <1>7, <1>13 DEF PendingOf
  <2>2. \A r \in a \cup b : Pair(r) # p
    BY <1>9, <1>13
  <2>3. /\ \A r \in rows : Pair(r) = p => r \in rows'
        /\ \A r \in rows' : Pair(r) = p => r \in rows
    BY <1>8, <2>1, <2>2
  <2>4. QED
    BY <1>3, <2>3, ShownKept, DecisionShown
<1>14. \E p \in Pairs : p \in read
  <2>1. PICK r \in req[t].pending : TRUE
    BY <1>2
  <2>2. r \in rows /\ r.from = x /\ r.status = "pending"
    BY <1>2, <2>1 DEF PendingOf
  <2>3. Pair(r) \in Pairs
    BY <1>3, <2>2, PairOfRow
  <2>4. QED
    BY <1>7, <2>2, <2>3
<1>15. \E p \in Ledger!With("pending") : p[1] = x
  BY <1>11, <1>14 DEF Ledger!With, Ledger!Pairs, Pairs
<1>16. Decision' \in [Pairs -> Status \cup {"none"}]
  BY <1>3, ShownType, DecisionShown
<1>17. Ledger!Review(x)
  <2>1. \A p \in Pairs : IF p[1] = x /\ Decision[p] = "pending"
                         THEN Decision'[p] \in {"approved", "rejected"}
                         ELSE Decision'[p] = Decision[p]
    BY <1>11, <1>12, <1>13
  <2>2. QED
    BY <1>8, <1>15, <1>16, <2>1 DEF Ledger!Review, Ledger!Pairs, Pairs, Status
<1>18. QED
  BY <1>2, <1>17 DEF Ledger!Next

LEMMA LeaveIsLeave ==
    ASSUME LedgerInv, LedgerInv', NEW t \in Threads, LeaveCommit(t)
    PROVE  Ledger!Next
<1> DEFINE x == req[t].from
           read == {Pair(r) : r \in req[t].live}
           gone == LiveOf(x)
           new == Decided(read, "cancelled")
<1>1. Doing(t, "leave") /\ TypeOK /\ OneCurrentRow /\ TypeOK' /\ OneCurrentRow'
  BY DEF LeaveCommit, LedgerInv, IInv
<1>2. /\ x \in Institutions
      /\ req[t].live \subseteq LiveOf(x)
      /\ \A r \in rows : r.status = "approved" /\ x \in {r.from, r.to} => r \in req[t].live
  BY <1>1, LeaveStandsOn
<1>3. /\ rows \in SUBSET Row /\ Single(rows)
      /\ rows' \in SUBSET Row /\ Single(rows')
  BY <1>1, BothSingle
<1>4. Commit(t, gone, new)
  BY DEF LeaveCommit
<1>5. read \in SUBSET Pairs
  BY <1>2, <1>3, PairOfRow DEF LiveOf
<1> HIDE DEF x, gone, new
<1>6. /\ rows' = (rows \ gone) \cup new
      /\ scenario' = scenario
      /\ batches < MaxBatches
  BY <1>4 DEF Commit, Replace
<1>7. /\ \A r \in new : Pair(r) \in read /\ r.status = "cancelled"
      /\ \A p \in read : \E r \in new : Pair(r) = p
  <2>1. batches \in 0..MaxBatches /\ "cancelled" \in Status
    BY <1>1 DEF TypeOK, Status, Ledger!Status
  <2> HIDE DEF read
  <2>2. QED
    BY <1>5, <1>6, <2>1, DecidedRows, DecidedAll DEF new
<1>8. \A r \in rows : r \in gone <=> x \in {r.from, r.to} /\ r.status \in {"pending", "approved"}
  BY DEF gone, LiveOf, Live, Ledger!Live
<1>9. ASSUME NEW p \in read
      PROVE  \E r \in rows : r \in gone /\ Pair(r) = p
  BY <1>2 DEF gone, LiveOf
<1>10. \A r \in rows : r.status = "approved" /\ x \in {r.from, r.to} => Pair(r) \in read
  BY <1>2
<1> HIDE DEF read
<1>11. ASSUME NEW p \in Pairs, p \in read
       PROVE  Decision'[p] = "cancelled"
  <2>1. PICK r \in new : Pair(r) = p
    BY <1>7, <1>11
  <2>2. r \in rows' /\ r.status = "cancelled"
    BY <1>6, <1>7, <2>1
  <2>3. QED
    BY <1>3, <2>1, <2>2, ShownRow, DecisionShown
<1>12. ASSUME NEW p \in Pairs, p \notin read, NEW r \in rows, r \in gone, Pair(r) = p
       PROVE  Decision'[p] = "none"
  <2>1. \A q \in new : Pair(q) # p
    BY <1>7, <1>12
  <2>2. \A q \in rows' : Pair(q) # p
    BY <1>3, <1>6, <1>12, <2>1 DEF Single
  <2>3. QED
    BY <2>2, ShownNone, DecisionShown
<1>13. ASSUME NEW p \in Pairs, \A r \in rows : Pair(r) = p => r \notin gone
       PROVE  Decision'[p] = Decision[p]
  <2>1. p \notin read
    BY <1>9, <1>13
  <2>2. \A q \in new : Pair(q) # p
    BY <1>7, <2>1
  <2>3. /\ \A r \in rows : Pair(r) = p => r \in rows'
        /\ \A r \in rows' : Pair(r) = p => r \in rows
    BY <1>6, <1>13, <2>2
  <2>4. QED
    BY <1>3, <2>3, ShownKept, DecisionShown
<1>14. ASSUME NEW p \in Pairs, NEW r \in rows, Pair(r) = p
       PROVE  /\ Decision[p] = r.status
              /\ x \in {p[1], p[2]} <=> x \in {r.from, r.to}
  <2>1. Decision[p] = r.status
    BY <1>3, <1>14, ShownRow, DecisionShown
  <2>2. p[1] = r.from /\ p[2] = r.to
    BY <1>14 DEF Pair
  <2>3. QED
    BY <2>1, <2>2
<1>15. ASSUME NEW p \in Pairs, x \in {p[1], p[2]}, Decision[p] \in {"pending", "approved"}
       PROVE  /\ Decision[p] = "approved" => Decision'[p] = "cancelled"
              /\ Decision'[p] \in {"cancelled", "none"}
  <2>1. PICK r \in rows : Pair(r) = p
    BY <1>3, <1>15, ShownFrom, DecisionShown
  <2>2. r \in gone /\ (r.status = "approved" => p \in read) /\ Decision[p] = r.status
    BY <1>8, <1>10, <1>14, <1>15, <2>1
  <2>3. QED
    BY <1>11, <1>12, <2>1, <2>2
<1>16. ASSUME NEW p \in Pairs, ~(x \in {p[1], p[2]} /\ Decision[p] \in {"pending", "approved"})
       PROVE  Decision'[p] = Decision[p]
  <2>1. \A r \in rows : Pair(r) = p => r \notin gone
    BY <1>8, <1>14, <1>16
  <2>2. QED
    BY <1>13, <2>1
<1>17. Decision' \in [Pairs -> Status \cup {"none"}]
  BY <1>3, ShownType, DecisionShown
<1>18. Ledger!Leave(x)
  <2>1. \A p \in Pairs :
            CASE x \in {p[1], p[2]} /\ Decision[p] = "approved" -> Decision'[p] = "cancelled"
              [] x \in {p[1], p[2]} /\ Decision[p] = "pending" ->
                    Decision'[p] \in {"cancelled", "none"}
              [] OTHER -> Decision'[p] = Decision[p]
    <3> SUFFICES ASSUME NEW p \in Pairs
                 PROVE  CASE x \in {p[1], p[2]} /\ Decision[p] = "approved" ->
                                Decision'[p] = "cancelled"
                          [] x \in {p[1], p[2]} /\ Decision[p] = "pending" ->
                                Decision'[p] \in {"cancelled", "none"}
                          [] OTHER -> Decision'[p] = Decision[p]
      OBVIOUS
    <3>1. CASE x \in {p[1], p[2]} /\ Decision[p] = "approved"
      BY <1>15, <3>1
    <3>2. CASE x \in {p[1], p[2]} /\ Decision[p] = "pending"
      BY <1>15, <3>2
    <3>3. CASE ~(x \in {p[1], p[2]} /\ Decision[p] \in {"pending", "approved"})
      BY <1>16, <3>3
    <3>4. QED
      BY <3>1, <3>2, <3>3
  <2>2. QED
    BY <1>6, <1>17, <2>1 DEF Ledger!Leave, Ledger!Pairs, Pairs, Status
<1>19. QED
  BY <1>2, <1>18 DEF Ledger!Next

LEMMA InitIsLedgerInit == Init => Ledger!Init
<1>1. ASSUME Init
      PROVE  Ledger!Init
  <2>1. Decision = [p \in Pairs |-> "none"]
    BY <1>1 DEF Init, Decision
  <2>2. QED
    BY <1>1, <2>1 DEF Init, Ledger!Init, Ledger!Pairs, Pairs
<1>2. QED
  BY <1>1

LEMMA NextIsLedgerNext ==
    ASSUME LedgerInv, LedgerInv', [Next]_vars
    PROVE  [Ledger!Next]_Ledger!vars
<1>1. ASSUME NEW t \in Threads,
             ApplyCommit(t) \/ ReviewCommit(t) \/ CancelCommit(t) \/ LeaveCommit(t)
      PROVE  Ledger!Next
  BY <1>1, ApplyIsApply, ReviewIsReview, CancelIsCancel, LeaveIsLeave
<1>2. ASSUME UNCHANGED <<rows, scenario>>
      PROVE  UNCHANGED Ledger!vars
  BY <1>2, DecisionShown DEF Ledger!vars
<1>3. ASSUME NEW t \in Threads,
             ApplyRead(t) \/ ReviewRead(t) \/ CancelRead(t) \/ LeaveRead(t)
      PROVE  UNCHANGED <<rows, scenario>>
  BY <1>3, ReadStands DEF Begin, table
<1>4. ASSUME NEW t \in Threads, Rollback(t)
      PROVE  UNCHANGED <<rows, scenario>>
  BY <1>4 DEF Rollback, table
<1>5. ASSUME NEW i \in Pollers, PollRead(i) \/ PollStore(i)
      PROVE  UNCHANGED <<rows, scenario>>
  BY <1>5 DEF PollRead, PollStore, table
<1>6. CASE UNCHANGED vars
  BY <1>2, <1>6 DEF vars
<1>7. QED
  BY <1>1, <1>2, <1>3, <1>4, <1>5, <1>6 DEF Next, Threads

\* While one FATE Manager and one administrator send requests at a time, their
\* transactions implement the ledger: however a reading of one falls between the
\* reading and the commit of the other, an authority is given by reviewing an
\* application, only what is approved is cancelled, and an institution that is
\* deleted keeps nothing.
THEOREM LedgerKept ==
    ASSUME Serial
    PROVE  Spec => ImplementsLedger
<1>1. LedgerInv /\ [Next]_vars => LedgerInv'
  BY NextLedgerInv
<1>2. LedgerInv /\ LedgerInv' /\ [Next]_vars => [Ledger!Next]_Ledger!vars
  BY NextIsLedgerNext
<1>3. QED
  BY <1>1, <1>2, InitLedgerInv, InitIsLedgerInit, PTL DEF Spec, ImplementsLedger, Ledger!Spec
=============================================================================
