--------------------------- MODULE SiteAuthority ---------------------------
(***************************************************************************)
(* Site authority as Cloud Manager and the FATE Managers run it.  A row of *)
(* t_federated_site_authority is one application or the decision about it; *)
(* a request replaces rows of generation 1 (current) by new ones.  The     *)
(* replaced rows, generation 2, are only shown as history and are left     *)
(* out.  Each request is one transaction: its queries read the snapshot    *)
(* taken by the first, its updates meet the rows as they are when it       *)
(* commits.  The FATE Manager of an institution applies, and polls for the *)
(* decisions.                                                              *)
(***************************************************************************)
EXTENDS Integers, FiniteSets

CONSTANTS
    Institutions, Guests, Hosts, Scenarios,     \* see AuthorityLedger
    Applicants,     \* server threads with requests of FATE Managers
    Admins,         \* server threads with requests of administrators
    Pollers,        \* the institutions whose FATE Manager is looked at
    MaxBatches,     \* bound on the committed requests
    None            \* "no value"

ASSUME RoleAssumption == Guests \subseteq Institutions /\ Hosts \subseteq Institutions
ASSUME ScenarioAssumption == Scenarios \subseteq 1..3
ASSUME ThreadAssumption == Applicants \cap Admins = {}
ASSUME PollerAssumption == Pollers \subseteq Institutions /\ None \notin Institutions
ASSUME BatchAssumption == MaxBatches \in Nat

VARIABLES
    scenario,   \* description of the site-authority function
    rows,       \* current rows of t_federated_site_authority
    batches,    \* number of committed requests
    valid,      \* institutions with status 2 in t_fate_manager_user
    req,        \* req[t]: the transaction of thread t, None between requests
    reply,      \* reply[i]: what the last poll of i's FATE Manager has read
    shown       \* shown[i][j]: t_apply_institutions_info.status of j at i

table == <<scenario, rows, batches, valid>>
managers == <<reply, shown>>
vars == <<scenario, rows, batches, valid, req, reply, shown>>

Pairs == {p \in Institutions \X Institutions : p[1] # p[2]}
Pair(r) == <<r.from, r.to>>

\* The decision about each pair that the current rows show.
Decision ==
    [p \in Pairs |-> IF \E r \in rows : Pair(r) = p
                     THEN (CHOOSE r \in rows : Pair(r) = p).status ELSE "none"]

Ledger == INSTANCE AuthorityLedger WITH grant <- Decision
Status == Ledger!Status
Live == Ledger!Live
Covered(p) == Ledger!Covered(scenario, p)

\* batch tells the rows of different requests apart, as authority_id does.
Row == {r \in [from: Institutions, to: Institutions, status: Status, batch: 1..MaxBatches] :
            r.from # r.to}

Threads == Applicants \cup Admins

\* What a FATE Manager keeps about the institutions.
Statuses == [Institutions -> Status \cup {"none"}]

\* The requests in progress, with what they have read.
ApplyRequest  == {r \in [kind: {"apply"}, from: Institutions, targets: SUBSET Institutions] :
                    r.from \notin r.targets}
ReviewRequest == [kind: {"review", "reject"}, from: Institutions,
                  approved: SUBSET Institutions, pending: SUBSET Row]
CancelRequest == [kind: {"cancel"}, done: SUBSET Pairs]
LeaveRequest  == [kind: {"leave"}, from: Institutions, live: SUBSET Row]
Request == ApplyRequest \cup ReviewRequest \cup CancelRequest \cup LeaveRequest

Init ==
    /\ scenario \in Scenarios
    /\ rows = {}
    /\ batches = 0
    /\ valid = Institutions
    /\ req = [t \in Threads |-> None]
    /\ reply = [i \in Pollers |-> None]
    /\ shown = [i \in Pollers |-> [j \in Institutions |-> "none"]]

-----------------------------------------------------------------------------
(* How a request moves on                                                  *)

Begin(t, r) ==
    /\ req[t] = None
    /\ req' = [req EXCEPT ![t] = r]
    /\ UNCHANGED <<table, managers>>

Doing(t, kind) == req[t] # None /\ req[t].kind = kind

Decided(P, v) ==
    {[from |-> p[1], to |-> p[2], status |-> v, batch |-> batches + 1] : p \in P}

\* Mutated form: new rows share the number of older ones.
KeepBatch(gone, new) == rows' = (rows \ gone) \cup new /\ batches' = batches

\* generation 2 for the rows in gone, then the insert of the rows in new.
Replace(gone, new) == rows' = (rows \ gone) \cup new /\ batches' = batches + 1

Commit(t, gone, new) ==
    /\ batches < MaxBatches
    /\ Replace(gone, new)
    /\ req' = [req EXCEPT ![t] = None]
    /\ UNCHANGED <<scenario, managers>>

\* The transaction fails and leaves nothing behind.
Rollback(t) ==
    /\ req[t] # None
    /\ req' = [req EXCEPT ![t] = None]
    /\ UNCHANGED <<table, managers>>

-----------------------------------------------------------------------------
(* applyForAuthorityOfInstitutions.  The page of FATE Manager does not     *)
(* offer the institution itself.                                           *)

ApplyRead(t) ==
    \E x \in valid, T \in (SUBSET valid) \ {{}} :
        /\ x \notin T
        /\ Ledger!MayApply(scenario, x, T)
        /\ \A r \in rows : ~(r.from = x /\ r.status = "pending")
        /\ \A r \in rows, y \in T : r.status \in Live => Pair(r) \notin Covered(<<x, y>>)
        /\ Begin(t, [kind |-> "apply", from |-> x, targets |-> T])

\* Mutated form: only the applicant's own rows are replaced.
ReplacedOneWay(x, T) == {r \in rows : r.from = x /\ r.to \in T}

ReplacedByApply(x, T) == {r \in rows : \E y \in T : Pair(r) \in Covered(<<x, y>>)}

ApplyCommit(t) ==
    /\ Doing(t, "apply")
    /\ LET x == req[t].from
           T == req[t].targets
       IN  Commit(t, ReplacedByApply(x, T), Decided({<<x, y>> : y \in T}, "pending"))
    /\ UNCHANGED valid

-----------------------------------------------------------------------------
(* reviewAuthorityApplyDetails: an approved list, or null to reject all    *)

PendingOf(x) == {r \in rows : r.from = x /\ r.status = "pending"}

ReviewRead(t) ==
    \E x \in Institutions, A \in SUBSET Institutions, kind \in {"review", "reject"} :
        /\ PendingOf(x) # {}
        /\ kind = "reject" => A = {}
        /\ Begin(t, [kind |-> kind, from |-> x, approved |-> A, pending |-> PendingOf(x)])

\* The rows read are retired by id, the rejected ones by institution; copies of
\* the rows read are inserted.
ReviewCommit(t) ==
    /\ Doing(t, "review") \/ Doing(t, "reject")
    /\ LET read == {Pair(r) : r \in req[t].pending}
           yes == {p \in read : p[2] \in req[t].approved}
           gone == IF req[t].kind = "review" THEN req[t].pending ELSE PendingOf(req[t].from)
       IN  Commit(t, gone, Decided(yes, "approved") \cup Decided(read \ yes, "rejected"))
    /\ UNCHANGED valid

-----------------------------------------------------------------------------
(* cancelAuthority                                                         *)

\* Mutated form: the status of the row is not looked at.
CurrentFor(p) == {r \in rows : Pair(r) \in Covered(p)}

ApprovedFor(p) == {r \in rows : r.status = "approved" /\ Pair(r) \in Covered(p)}

\* The pairs a page about institution x names: in the hetero scenario those
\* that applied to x come first, then those x applied to.
FirstNamed(x, P) == IF scenario = 3 THEN {p \in P : p[2] = x} ELSE P
Nameable(x) == {p \in Pairs : p[1] = x \/ (scenario = 3 /\ p[2] = x)}

\* The first institution without an approved row ends the loop, but what the
\* loop has done by then is committed.
CancelRead(t) ==
    \E x \in Institutions : \E P \in SUBSET Nameable(x) :
        LET granted == {p \in P : ApprovedFor(p) # {}}
        IN  /\ \E done \in (SUBSET granted) \ {{}} :
                /\ granted = P => done = P
                /\ \/ done \subseteq FirstNamed(x, P)
                   \/ FirstNamed(x, P) \subseteq done
                /\ FirstNamed(x, P) \subseteq granted => FirstNamed(x, P) \subseteq done
                /\ Begin(t, [kind |-> "cancel", done |-> done])

CancelCommit(t) ==
    /\ Doing(t, "cancel")
    /\ Commit(t, UNION {ApprovedFor(p) : p \in req[t].done}, Decided(req[t].done, "cancelled"))
    /\ UNCHANGED valid

-----------------------------------------------------------------------------
(* deleteInstitution                                                       *)

LiveOf(x) == {r \in rows : x \in {r.from, r.to} /\ r.status \in Live}

LeaveRead(t) ==
    \E x \in valid : Begin(t, [kind |-> "leave", from |-> x, live |-> LiveOf(x)])

LeaveCommit(t) ==
    /\ Doing(t, "leave")
    /\ LET x == req[t].from
       IN  /\ Commit(t, LiveOf(x), Decided({Pair(r) : r \in req[t].live}, "cancelled"))
           /\ valid' = valid \ {x}

-----------------------------------------------------------------------------
(* The FATE Manager of i asks for decisions on a timer (apply_result_task) *)

\* Mutated form: only what i has applied for is listed.
ListedOwn(i) ==
    [j \in Institutions |->
        IF \E r \in rows : Pair(r) = <<i, j>> /\ r.status # "pending"
        THEN (CHOOSE r \in rows : Pair(r) = <<i, j>> /\ r.status # "pending").status ELSE "none"]

\* findApprovedInstitutions: the rows about i and j that are not pending; an
\* approved one hides the other, i's own application comes before j's.
Listed(i) ==
    [j \in Institutions |->
        LET about == {r \in rows : Pair(r) \in {<<i, j>>, <<j, i>>} /\ r.status # "pending"}
            best == {r \in about : r.status = "approved"}
            own == {r \in about : r.from = i}
        IN  IF about = {} THEN "none"
            ELSE IF best # {} THEN "approved"
            ELSE (CHOOSE r \in (IF own # {} THEN own ELSE about) : TRUE).status]

\* A request that fails, or whose answer is lost, leaves the poll for later.
PollRead(i) ==
    /\ i \in valid
    /\ reply[i] = None
    /\ reply' = [reply EXCEPT ![i] = Listed(i)]
    /\ UNCHANGED <<table, req, shown>>

\* Institutions are added and updated, never removed.
PollStore(i) ==
    /\ reply[i] # None
    /\ shown' = [shown EXCEPT ![i] =
                    [j \in Institutions |-> IF reply[i][j] = "none" THEN @[j] ELSE reply[i][j]]]
    /\ reply' = [reply EXCEPT ![i] = None]
    /\ UNCHANGED <<table, req>>

-----------------------------------------------------------------------------
Next ==
    \/ \E t \in Applicants : ApplyRead(t) \/ ApplyCommit(t)
    \/ \E t \in Admins :
        \/ ReviewRead(t) \/ ReviewCommit(t)
        \/ CancelRead(t) \/ CancelCommit(t)
        \/ LeaveRead(t) \/ LeaveCommit(t)
    \/ \E t \in Threads : Rollback(t)
    \/ \E i \in Pollers : PollRead(i) \/ PollStore(i)

\* The timer of a FATE Manager never stops, and its requests fail only now
\* and then.
Fairness == \A i \in Pollers : WF_vars(PollRead(i)) /\ WF_vars(PollStore(i))

Spec == Init /\ [][Next]_vars /\ Fairness

-----------------------------------------------------------------------------
(* Properties                                                              *)

\* The table, the requests and the FATE Managers' copies are well formed.
TypeOK ==
    /\ scenario \in Scenarios
    /\ batches \in 0..MaxBatches
    /\ rows \subseteq Row
    /\ \A r \in rows : r.batch <= batches
    /\ valid \subseteq Institutions
    /\ req \in [Threads -> Request \cup {None}]
    /\ shown \in [Pollers -> Statuses]
    /\ reply \in [Pollers -> Statuses \cup {None}]

\* Of the rows about two institutions one is current (generation 1); in the
\* hetero scenario, of the rows in one direction.
OneCurrentRow ==
    \A q, r \in rows : Pair(q) \in Covered(Pair(r)) => q = r

\* The requests implement the ledger: authority is given by reviewing an
\* application and by nothing else, only what is approved is cancelled, and a
\* cancellation that stops half way has cancelled something well defined.
ImplementsLedger == Ledger!Spec

\* i sees the sites of j: findCurrentAuthority.
Allowed(i, j) ==
    \E r \in rows : r.status = "approved" /\ Pair(r) \in {<<i, j>>, <<j, i>>}
Undecided(i, j) ==
    \A r \in rows : Pair(r) \in {<<i, j>>, <<j, i>>} => r.status = "pending"

\* A FATE Manager in the end shows the institutions it is allowed to see, and
\* not those it is not, unless their last application waits for its review.
AuthorityReachesManager ==
    \A i \in Pollers, j \in Institutions :
        /\ <>[](i \in valid /\ Allowed(i, j)) => <>[](shown[i][j] = "approved")
        /\ <>[](i \in valid /\ ~Allowed(i, j) /\ ~Undecided(i, j))
            => <>[](shown[i][j] # "approved")
=============================================================================
