------------------------ MODULE FateManager_proofs -------------------------
(***************************************************************************)
(* Theorems about the pages of FATE Manager's front end, for every set of  *)
(* institutions, sites and periods and every bound on the steps: their     *)
(* type, the end of the overlay, what a site is updated with, and that one *)
(* application is made at a time.                                          *)
(*                                                                         *)
(* All pages share the queue of requests, the overlay and the counters of  *)
(* Page.  Moves names the five ways a step may change them, a lemma per    *)
(* page shows that its steps are of these, and what holds of the requests  *)
(* is then shown once, for the five ways.  The page of the jobs raises the *)
(* overlay by itself and has a lemma of its own, JobsStep.                 *)
(***************************************************************************)
EXTENDS FateManager, TLAPS, SequenceTheorems, WellFoundedInduction

-----------------------------------------------------------------------------
(* Sequences.                                                              *)

\* s is a sequence, whatever it holds.
IsQueue(s) == s \in Seq(ToSet(s))

LEMMA QueueOfSome ==
    ASSUME NEW S, NEW s \in Seq(S)
    PROVE  IsQueue(s)
<1>1. s \in [1 .. Len(s) -> S] /\ Len(s) \in Nat
    OBVIOUS
<1>2. \A k \in 1 .. Len(s) : s[k] \in ToSet(s)
    BY <1>1 DEF ToSet
<1>3. s \in [1 .. Len(s) -> ToSet(s)]
    BY <1>1, <1>2
<1> QED BY <1>1, <1>3, SeqDef DEF IsQueue

LEMMA QueueFacts ==
    ASSUME NEW s, IsQueue(s)
    PROVE  /\ Len(s) \in Nat /\ DOMAIN s = 1 .. Len(s)
           /\ \A k \in DOMAIN s : s[k] \in ToSet(s)
           /\ \A e \in ToSet(s) : \E k \in DOMAIN s : s[k] = e
BY DEF IsQueue, ToSet

\* What is sent is put behind what is under way.
LEMMA Joined ==
    ASSUME NEW s, NEW t, IsQueue(s), IsQueue(t)
    PROVE  /\ IsQueue(s \o t) /\ Len(s \o t) = Len(s) + Len(t)
           /\ \A k \in DOMAIN s : k \in DOMAIN (s \o t) /\ (s \o t)[k] = s[k]
           /\ \A k \in DOMAIN t : Len(s) + k \in DOMAIN (s \o t) /\ (s \o t)[Len(s) + k] = t[k]
           /\ \A k \in DOMAIN (s \o t) : k \in DOMAIN s \/ (k > Len(s) /\ k - Len(s) \in DOMAIN t)
<1> DEFINE S == ToSet(s) \cup ToSet(t)
<1>1. s \in Seq(S) /\ t \in Seq(S)
    <2>1. s \in Seq(ToSet(s)) /\ t \in Seq(ToSet(t))
        BY DEF IsQueue
    <2>2. /\ Len(s) \in Nat /\ s \in [1 .. Len(s) -> S]
          /\ Len(t) \in Nat /\ t \in [1 .. Len(t) -> S]
        BY <2>1
    <2> QED BY <2>2, SeqDef
<1> HIDE DEF S
<1>2. s \o t \in Seq(S)
    BY <1>1
<1>3. Len(s \o t) = Len(s) + Len(t)
    BY <1>1
<1>4. IsQueue(s \o t)
    BY <1>2, QueueOfSome
<1>5. \A k \in 1 .. Len(s) + Len(t) : (s \o t)[k] = IF k <= Len(s) THEN s[k] ELSE t[k - Len(s)]
    BY <1>1
<1>6. /\ Len(s) \in Nat /\ Len(t) \in Nat
      /\ DOMAIN s = 1 .. Len(s) /\ DOMAIN t = 1 .. Len(t)
      /\ DOMAIN (s \o t) = 1 .. Len(s) + Len(t)
    BY <1>1, <1>2, <1>3
<1> QED BY <1>3, <1>4, <1>5, <1>6

LEMMA Removed ==
    ASSUME NEW s, NEW i \in DOMAIN s, IsQueue(s)
    PROVE  /\ IsQueue(Without(s, i)) /\ Len(Without(s, i)) = Len(s) - 1
           /\ \A k \in DOMAIN s : k < i =>
                k \in DOMAIN Without(s, i) /\ Without(s, i)[k] = s[k]
           /\ \A k \in DOMAIN s : k > i =>
                k - 1 \in DOMAIN Without(s, i) /\ Without(s, i)[k - 1] = s[k]
           /\ \A k \in DOMAIN Without(s, i) :
                IF k < i THEN k \in DOMAIN s ELSE k + 1 \in DOMAIN s /\ k + 1 > i
<1> DEFINE S == ToSet(s)
           l == SubSeq(s, 1, i - 1)
           r == SubSeq(s, i + 1, Len(s))
<1>1. s \in Seq(S)
    BY DEF IsQueue
<1> HIDE DEF S
<1>2. Len(s) \in Nat /\ DOMAIN s = 1 .. Len(s) /\ i \in 1 .. Len(s)
    BY <1>1
<1>3. /\ l \in Seq(S) /\ Len(l) = i - 1
      /\ \A k \in 1 .. i - 1 : l[k] = s[k]
    BY <1>1, <1>2
<1>4. /\ r \in Seq(S) /\ Len(r) = Len(s) - i
      /\ \A k \in 1 .. Len(s) - i : r[k] = s[i + k]
    BY <1>1, <1>2
<1> HIDE DEF l, r
<1>5. Without(s, i) = l \o r
    BY DEF Without, l, r
<1>6. /\ l \o r \in Seq(S) /\ Len(l \o r) = Len(s) - 1
      /\ DOMAIN (l \o r) = 1 .. Len(s) - 1
    <2>0. l \in Seq(S) /\ r \in Seq(S)
        BY <1>3, <1>4
    <2>1. l \o r \in Seq(S) /\ Len(l \o r) = Len(l) + Len(r)
        BY <2>0
    <2>2. Len(l) + Len(r) = Len(s) - 1
        BY <1>2, <1>3, <1>4
    <2>3. Len(l \o r) = Len(s) - 1 /\ l \o r \in Seq(S)
        BY <2>1, <2>2
    <2>4. DOMAIN (l \o r) = 1 .. Len(s) - 1
        BY <2>3
    <2> QED BY <2>3, <2>4
<1>7. \A k \in 1 .. Len(s) - 1 : (l \o r)[k] = IF k < i THEN s[k] ELSE s[k + 1]
    <2> SUFFICES ASSUME NEW k \in 1 .. Len(s) - 1
                 PROVE  (l \o r)[k] = IF k < i THEN s[k] ELSE s[k + 1]
        OBVIOUS
    <2>1. (l \o r)[k] = IF k <= Len(l) THEN l[k] ELSE r[k - Len(l)]
        BY <1>2, <1>3, <1>4
    <2>2. CASE k < i
        BY <2>1, <2>2, <1>2, <1>3
    <2>3. CASE ~(k < i)
        <3>1. k - (i - 1) \in 1 .. Len(s) - i /\ i + (k - (i - 1)) = k + 1
            BY <2>3, <1>2
        <3>2. r[k - (i - 1)] = s[k + 1]
            BY <3>1, <1>4
        <3>3. ~(k <= Len(l)) /\ k - Len(l) = k - (i - 1)
            BY <2>3, <1>2, <1>3
        <3> QED BY <2>1, <2>3, <3>2, <3>3
    <2> QED BY <2>2, <2>3
<1>8. IsQueue(l \o r)
    BY <1>6, QueueOfSome
<1> HIDE DEF S
<1> DEFINE u == l \o r
<1>9. /\ DOMAIN u = 1 .. Len(s) - 1
      /\ \A k \in 1 .. Len(s) - 1 : u[k] = IF k < i THEN s[k] ELSE s[k + 1]
    BY <1>6, <1>7
<1> HIDE DEF u
<1>a. \A k \in DOMAIN s : k < i => k \in DOMAIN u /\ u[k] = s[k]
    BY <1>2, <1>9
<1>b. \A k \in DOMAIN s : k > i => k - 1 \in DOMAIN u /\ u[k - 1] = s[k]
    <2> SUFFICES ASSUME NEW k \in DOMAIN s, k > i
                 PROVE  k - 1 \in DOMAIN u /\ u[k - 1] = s[k]
        OBVIOUS
    <2>1. k - 1 \in 1 .. Len(s) - 1 /\ ~(k - 1 < i) /\ (k - 1) + 1 = k
        BY <1>2
    <2> QED BY <2>1, <1>9
<1>c. \A k \in DOMAIN u : IF k < i THEN k \in DOMAIN s ELSE k + 1 \in DOMAIN s /\ k + 1 > i
    BY <1>2, <1>9
<1>d. u = Without(s, i)
    BY <1>5 DEF u
<1> QED BY <1>5, <1>6, <1>8, <1>a, <1>b, <1>c, <1>d

LEMMA Replaced ==
    ASSUME NEW s, NEW i, NEW e, IsQueue(s)
    PROVE  /\ IsQueue([s EXCEPT ![i] = e]) /\ Len([s EXCEPT ![i] = e]) = Len(s)
           /\ DOMAIN [s EXCEPT ![i] = e] = DOMAIN s
           /\ \A k \in DOMAIN s : [s EXCEPT ![i] = e][k] = IF k = i THEN e ELSE s[k]
<1> DEFINE S == ToSet(s) \cup {e}
           t == [s EXCEPT ![i] = e]
<1>1. Len(s) \in Nat /\ DOMAIN s = 1 .. Len(s) /\ s \in [1 .. Len(s) -> ToSet(s)]
    BY DEF IsQueue
<1>2. /\ t \in [1 .. Len(s) -> S] /\ DOMAIN t = DOMAIN s
      /\ \A k \in DOMAIN s : t[k] = IF k = i THEN e ELSE s[k]
    BY <1>1
<1> HIDE DEF S, t
<1>3. t \in Seq(S)
    BY <1>1, <1>2, SeqDef
<1>4. Len(t) = Len(s)
    BY <1>1, <1>2, <1>3
<1>5. IsQueue(t)
    BY <1>3, QueueOfSome
<1> QED BY <1>2, <1>4, <1>5 DEF t

-----------------------------------------------------------------------------
(* Requests.                                                               *)

Codes == {"waiting", "failed", "refused", "ok"}

\* What a site is updated with are codes.
Coded(data) == \A f \in SD!Switches : data[f] \in {1, 2}
SendsCodes(op, arg) == op = "update" /\ arg.kind = "site" => Coded(arg.data)

\* A request of a page that sends the operations ops.
IsCall(e, ops) ==
    /\ e = [op |-> e.op, arg |-> e.arg, quiet |-> e.quiet, part |-> e.part, answer |-> e.answer]
    /\ e.op \in ops /\ e.quiet \in BOOLEAN /\ e.part = 0 /\ e.answer.code \in Codes
    /\ SendsCodes(e.op, e.arg)

AreCalls(s, ops) == IsQueue(s) /\ \A k \in DOMAIN s : IsCall(s[k], ops)

LEMMA CallIsCall ==
    ASSUME NEW ops, NEW op \in ops, NEW arg, SendsCodes(op, arg)
    PROVE  /\ IsCall(Call(op, arg, FALSE, 0), ops) /\ IsCall(Call(op, arg, TRUE, 0), ops)
           /\ \A q : /\ Call(op, arg, q, 0).op = op
                     /\ Call(op, arg, q, 0).arg = arg
                     /\ Call(op, arg, q, 0).part = 0
                     /\ Call(op, arg, q, 0).answer = Waiting
           /\ ~Call(op, arg, FALSE, 0).quiet
BY DEF Call, IsCall, Waiting, Codes

LEMMA NoneAreCalls ==
    ASSUME NEW ops
    PROVE  AreCalls(<<>>, ops) /\ DOMAIN <<>> = {} /\ Len(<<>>) = 0
<1>1. <<>> \in Seq({}) /\ DOMAIN <<>> = {} /\ Len(<<>>) = 0
    OBVIOUS
<1> QED BY <1>1, QueueOfSome DEF AreCalls

LEMMA OneIsCalls ==
    ASSUME NEW ops, NEW a, IsCall(a, ops)
    PROVE  /\ AreCalls(<<a>>, ops)
           /\ Len(<<a>>) = 1 /\ DOMAIN <<a>> = {1} /\ <<a>>[1] = a
<1>1. <<a>> \in Seq({a}) /\ Len(<<a>>) = 1 /\ DOMAIN <<a>> = {1} /\ <<a>>[1] = a
    OBVIOUS
<1> QED BY <1>1, QueueOfSome DEF AreCalls

LEMMA TwoAreCalls ==
    ASSUME NEW ops, NEW a, IsCall(a, ops), NEW b, IsCall(b, ops)
    PROVE  /\ AreCalls(<<a, b>>, ops) /\ Len(<<a, b>>) = 2
           /\ DOMAIN <<a, b>> = {1, 2} /\ <<a, b>>[1] = a /\ <<a, b>>[2] = b
<1>1. /\ <<a, b>> \in Seq({a, b}) /\ Len(<<a, b>>) = 2
      /\ DOMAIN <<a, b>> = {1, 2} /\ <<a, b>>[1] = a /\ <<a, b>>[2] = b
    OBVIOUS
<1> QED BY <1>1, QueueOfSome DEF AreCalls

LEMMA ThreeAreCalls ==
    ASSUME NEW ops, NEW a, IsCall(a, ops), NEW b, IsCall(b, ops), NEW c, IsCall(c, ops)
    PROVE  AreCalls(<<a, b, c>>, ops)
<1>1. /\ <<a, b, c>> \in Seq({a, b, c}) /\ DOMAIN <<a, b, c>> = {1, 2, 3}
      /\ <<a, b, c>>[1] = a /\ <<a, b, c>>[2] = b /\ <<a, b, c>>[3] = c
    OBVIOUS
<1> QED BY <1>1, QueueOfSome DEF AreCalls

LEMMA BothAreCalls ==
    ASSUME NEW ops, NEW s, AreCalls(s, ops), NEW t, AreCalls(t, ops)
    PROVE  AreCalls(s \o t, ops)
<1>1. \A k \in DOMAIN (s \o t) : IsCall((s \o t)[k], ops)
    <2> SUFFICES ASSUME NEW k \in DOMAIN (s \o t) PROVE IsCall((s \o t)[k], ops)
        OBVIOUS
    <2>1. CASE k \in DOMAIN s
        BY <2>1, Joined DEF AreCalls
    <2>2. CASE k > Len(s) /\ k - Len(s) \in DOMAIN t
        <3>1. k \in Nat /\ Len(s) \in Nat
            BY Joined, QueueFacts DEF AreCalls
        <3>2. Len(s) + (k - Len(s)) = k
            BY <3>1
        <3>3. (s \o t)[k] = t[k - Len(s)]
            BY <2>2, <3>2, Joined DEF AreCalls
        <3> QED BY <3>3, <2>2 DEF AreCalls
    <2> QED BY <2>1, <2>2, Joined DEF AreCalls
<1> QED BY <1>1, Joined DEF AreCalls

LEMMA OthersAreCalls ==
    ASSUME NEW ops, NEW s, AreCalls(s, ops), NEW i \in DOMAIN s
    PROVE  AreCalls(Without(s, i), ops)
<1> DEFINE r == Without(s, i)
<1>0. IsQueue(s)
    BY DEF AreCalls
<1>1. /\ IsQueue(r)
      /\ \A k \in DOMAIN s : k < i => k \in DOMAIN r /\ r[k] = s[k]
      /\ \A k \in DOMAIN s : k > i => k - 1 \in DOMAIN r /\ r[k - 1] = s[k]
      /\ \A k \in DOMAIN r : IF k < i THEN k \in DOMAIN s ELSE k + 1 \in DOMAIN s /\ k + 1 > i
    BY <1>0, Removed
<1> HIDE DEF r
<1>2. \A k \in DOMAIN r : \E j \in DOMAIN s : r[k] = s[j]
    <2> SUFFICES ASSUME NEW k \in DOMAIN r PROVE \E j \in DOMAIN s : r[k] = s[j]
        OBVIOUS
    <2>1. CASE k < i
        BY <2>1, <1>1
    <2>2. CASE ~(k < i)
        <3>1. k \in Nat
            BY <1>1, QueueFacts
        <3>2. (k + 1) - 1 = k
            BY <3>1
        <3>3. r[k] = s[k + 1] /\ k + 1 \in DOMAIN s
            BY <2>2, <3>2, <1>1
        <3> QED BY <3>3
    <2> QED BY <2>1, <2>2
<1>3. AreCalls(r, ops)
    BY <1>1, <1>2 DEF AreCalls
<1> QED BY <1>3 DEF r

\* The answer of a request is put to it; the request stays what it is.
Answered(s, i, a) == [s EXCEPT ![i].answer = a]

LEMMA AnsweredCall ==
    ASSUME NEW ops, NEW s, AreCalls(s, ops), NEW i \in DOMAIN s, NEW a, a.code \in Codes
    PROVE  /\ AreCalls(Answered(s, i, a), ops)
           /\ DOMAIN Answered(s, i, a) = DOMAIN s /\ Len(Answered(s, i, a)) = Len(s)
           /\ \A k \in DOMAIN s :
                /\ k # i => Answered(s, i, a)[k] = s[k]
                /\ Answered(s, i, a)[k].op = s[k].op /\ Answered(s, i, a)[k].arg = s[k].arg
                /\ Answered(s, i, a)[k].quiet = s[k].quiet
                /\ Answered(s, i, a)[k].part = s[k].part
           /\ Answered(s, i, a)[i].answer = a
<1> DEFINE e == [s[i] EXCEPT !.answer = a]
           t == Answered(s, i, a)
<1>1. t = [s EXCEPT ![i] = e]
    BY DEF Answered
<1>3. IsCall(s[i], ops) /\ IsQueue(s)
    BY DEF AreCalls
<1>4. e = [op |-> s[i].op, arg |-> s[i].arg, quiet |-> s[i].quiet, part |-> s[i].part,
           answer |-> a]
    BY <1>3 DEF IsCall
<1>2. /\ IsQueue(t) /\ Len(t) = Len(s) /\ DOMAIN t = DOMAIN s
      /\ \A k \in DOMAIN s : t[k] = IF k = i THEN e ELSE s[k]
    <2> HIDE DEF e, t
    <2>1. /\ IsQueue([s EXCEPT ![i] = e]) /\ Len([s EXCEPT ![i] = e]) = Len(s)
          /\ DOMAIN [s EXCEPT ![i] = e] = DOMAIN s
          /\ \A k \in DOMAIN s : [s EXCEPT ![i] = e][k] = IF k = i THEN e ELSE s[k]
        BY <1>3, Replaced
    <2> QED BY <2>1, <1>1
<1> HIDE DEF e, t
<1>5. /\ e.op = s[i].op /\ e.arg = s[i].arg /\ e.quiet = s[i].quiet /\ e.part = s[i].part
      /\ e.answer = a /\ IsCall(e, ops)
    BY <1>3, <1>4 DEF IsCall
<1>6. AreCalls(t, ops)
    BY <1>2, <1>5 DEF AreCalls
<1>7. /\ DOMAIN t = DOMAIN s /\ Len(t) = Len(s) /\ t[i].answer = a
      /\ \A k \in DOMAIN s :
            /\ k # i => t[k] = s[k]
            /\ t[k].op = s[k].op /\ t[k].arg = s[k].arg
            /\ t[k].quiet = s[k].quiet /\ t[k].part = s[k].part
    BY <1>2, <1>5
<1> QED BY <1>6, <1>7 DEF t

-----------------------------------------------------------------------------
(* Every step of a page moves requests in one of five ways.                *)

Moves(ops) ==
    /\ steps' = steps \/ steps' = steps + 1
    /\ mishaps \subseteq mishaps' /\ mishaps' \subseteq mishaps \cup Mishaps
    /\ busy' \in BOOLEAN \cup {busy}
    /\ \/ \E asked :
            /\ AreCalls(asked, ops) /\ calls' = calls \o asked
            /\ busy' => busy \/ Loud(asked)
       \/ \E i \in DOMAIN calls : \E asked :
            /\ AreCalls(asked, ops) /\ calls' = Without(calls, i) \o asked
            /\ busy' => Loud(asked) \/ (busy /\ calls[i].quiet)
       \/ \E i \in DOMAIN calls : \E a :
            a.code \in Codes /\ calls' = Answered(calls, i, a) /\ busy' = busy
       \/ calls' = <<>> /\ ~busy'
       \/ UNCHANGED <<calls, busy>>

\* What is known of the requests of a page that sends ops.
CallsInv(ops) ==
    /\ AreCalls(calls, ops) /\ busy \in BOOLEAN
    /\ mishaps \subseteq Mishaps /\ steps \in Nat

LEMMA CallsInvType ==
    ASSUME NEW ops, CallsInv(ops)
    PROVE  CallsOK(ops)
BY DEF CallsInv, CallsOK, AreCalls, IsCall, Codes

LEMMA LoudJoined ==
    ASSUME NEW s, IsQueue(s), NEW t, IsQueue(t), NEW u, u = s \o t
    PROVE  Loud(s) \/ Loud(t) => Loud(u)
<1>1. ASSUME NEW k \in DOMAIN s, ~s[k].quiet
      PROVE  Loud(u)
    <2>1. k \in DOMAIN u /\ u[k] = s[k]
        BY Joined
    <2> QED BY <1>1, <2>1 DEF Loud
<1>2. ASSUME NEW k \in DOMAIN t, ~t[k].quiet
      PROVE  Loud(u)
    <2>1. Len(s) + k \in DOMAIN u /\ u[Len(s) + k] = t[k]
        BY Joined
    <2> QED BY <1>2, <2>1 DEF Loud
<1> QED BY <1>1, <1>2 DEF Loud

LEMMA MovesKeepCalls ==
    ASSUME NEW ops, CallsInv(ops), Moves(ops)
    PROVE  CallsInv(ops)'
<1>1. steps' \in Nat /\ mishaps' \subseteq Mishaps /\ busy' \in BOOLEAN
    BY DEF CallsInv, Moves
<1>2. ASSUME NEW asked, AreCalls(asked, ops), calls' = calls \o asked
      PROVE  AreCalls(calls', ops)
    BY <1>2, BothAreCalls DEF CallsInv
<1>3. ASSUME NEW i \in DOMAIN calls, NEW asked, AreCalls(asked, ops),
             calls' = Without(calls, i) \o asked
      PROVE  AreCalls(calls', ops)
    BY <1>3, BothAreCalls, OthersAreCalls DEF CallsInv
<1>4. ASSUME NEW i \in DOMAIN calls, NEW a, a.code \in Codes, calls' = Answered(calls, i, a)
      PROVE  AreCalls(calls', ops)
    BY <1>4, AnsweredCall DEF CallsInv
<1>5. ASSUME calls' = <<>>
      PROVE  AreCalls(calls', ops)
    BY <1>5, NoneAreCalls
<1>6. ASSUME calls' = calls
      PROVE  AreCalls(calls', ops)
    BY <1>6 DEF CallsInv
<1>7. AreCalls(calls', ops)
    BY <1>2, <1>3, <1>4, <1>5, <1>6 DEF Moves
<1> QED BY <1>1, <1>7 DEF CallsInv

\* The overlay is up only while a request is under way that takes it down.
LEMMA MovesKeepOverlay ==
    ASSUME NEW ops, CallsInv(ops), Moves(ops), OverlayHasCall
    PROVE  OverlayHasCall'
<1> SUFFICES ASSUME busy' PROVE Loud(calls')
    BY DEF OverlayHasCall, Loud
<1>0. IsQueue(calls) /\ (busy => Loud(calls))
    BY DEF CallsInv, AreCalls, OverlayHasCall, Loud
<1>1. ASSUME NEW asked, AreCalls(asked, ops), calls' = calls \o asked,
             busy' => busy \/ Loud(asked)
      PROVE  Loud(calls')
    BY <1>0, <1>1, LoudJoined DEF AreCalls
<1>2. ASSUME NEW i \in DOMAIN calls, NEW asked, AreCalls(asked, ops),
             calls' = Without(calls, i) \o asked,
             busy' => Loud(asked) \/ (busy /\ calls[i].quiet)
      PROVE  Loud(calls')
    <2> DEFINE r == Without(calls, i)
    <2>1. /\ \A k \in DOMAIN calls : k < i => k \in DOMAIN r /\ r[k] = calls[k]
          /\ \A k \in DOMAIN calls : k > i => k - 1 \in DOMAIN r /\ r[k - 1] = calls[k]
          /\ IsQueue(r)
        BY <1>0, Removed
    <2> HIDE DEF r
    <2>2. busy /\ calls[i].quiet => Loud(r)
        <3> SUFFICES ASSUME busy, calls[i].quiet PROVE Loud(r)
            OBVIOUS
        <3>1. PICK k \in DOMAIN calls : ~calls[k].quiet
            BY <1>0 DEF Loud
        <3>2. k \in Nat /\ i \in Nat /\ k # i
            BY <1>0, <3>1, QueueFacts
        <3>3. k < i \/ k > i
            BY <3>2
        <3>4. PICK l \in DOMAIN r : r[l] = calls[k]
            BY <2>1, <3>3
        <3> QED BY <3>1, <3>4 DEF Loud
    <2>3. Loud(r) \/ Loud(asked)
        BY <1>2, <2>2
    <2> QED BY <1>2, <2>1, <2>3, LoudJoined DEF AreCalls, r
<1>3. ASSUME NEW i \in DOMAIN calls, NEW a, a.code \in Codes, calls' = Answered(calls, i, a),
             busy' = busy
      PROVE  Loud(calls')
    <2>1. PICK k \in DOMAIN calls : ~calls[k].quiet
        BY <1>0, <1>3 DEF Loud
    <2>2. k \in DOMAIN calls' /\ calls'[k].quiet = calls[k].quiet
        BY <1>3, AnsweredCall DEF CallsInv
    <2> QED BY <2>1, <2>2 DEF Loud
<1>4. ASSUME UNCHANGED <<calls, busy>>
      PROVE  Loud(calls')
    BY <1>0, <1>4
<1> QED BY <1>1, <1>2, <1>3, <1>4 DEF Moves

-----------------------------------------------------------------------------
(* The page of the sites.                                                  *)

LEMMA MSAsks ==
    ASSUME NEW op \in MS!Requests, NEW arg, SendsCodes(op, arg)
    PROVE  /\ IsCall(MS!Ask(op, arg), MS!Requests)
           /\ IsCall(MS!AskQuietly(op, arg), MS!Requests)
           /\ MS!Ask(op, arg).op = op /\ MS!Ask(op, arg).arg = arg
           /\ MS!AskQuietly(op, arg).op = op
           /\ MS!Ask(op, arg).answer = Waiting
           /\ ~MS!Ask(op, arg).quiet
           /\ MS!Ask(op, arg).part = 0 /\ MS!AskQuietly(op, arg).part = 0
<1>1. /\ MS!Ask(op, arg) = Call(op, arg, FALSE, 0)
      /\ MS!AskQuietly(op, arg) = Call(op, arg, TRUE, 0)
    BY DEF MS!Ask, MS!AskQuietly, MS!Call, MS!Waiting, Call, Waiting
<1>2. /\ IsCall(Call(op, arg, FALSE, 0), MS!Requests)
      /\ IsCall(Call(op, arg, TRUE, 0), MS!Requests)
      /\ ~Call(op, arg, FALSE, 0).quiet
    BY CallIsCall
<1>3. /\ Call(op, arg, FALSE, 0).op = op /\ Call(op, arg, FALSE, 0).arg = arg
      /\ Call(op, arg, FALSE, 0).part = 0 /\ Call(op, arg, FALSE, 0).answer = Waiting
      /\ Call(op, arg, TRUE, 0).op = op /\ Call(op, arg, TRUE, 0).part = 0
    BY DEF Call
<1> QED BY <1>1, <1>2, <1>3

LEMMA MSSends ==
    ASSUME NEW asked, AreCalls(asked, MS!Requests)
    PROVE  /\ MS!Click(asked) => Moves(MS!Requests)
           /\ MS!Sends(asked) /\ steps' = steps => Moves(MS!Requests)
<1>1. MS!Sends(asked) <=> Sends(asked)
    BY DEF MS!Sends, MS!Loud, MS!Overlaps, MS!SentOps, Sends, Loud, Overlaps, SentOps
<1>2. MS!Sends(asked) /\ (steps' = steps \/ steps' = steps + 1) => Moves(MS!Requests)
    <2>1. /\ Sends(asked) => calls' = calls \o asked /\ busy' = (busy \/ Loud(asked))
          /\ Sends(asked) => mishaps' = mishaps \cup Overlaps(calls, asked)
          /\ Overlaps(calls, asked) \subseteq Mishaps
        BY DEF Sends, Overlaps, Mishaps
    <2> QED BY <1>1, <2>1 DEF Moves
<1> QED BY <1>2 DEF MS!Click, MS!UserActs

LEMMA MSHandled ==
    ASSUME NEW i \in DOMAIN calls, NEW asked, AreCalls(asked, MS!Requests), MS!Handled(i, asked)
    PROVE  Moves(MS!Requests)
<1>1. Loud(asked) = MS!Loud(asked)
    BY DEF MS!Loud, Loud
<1>2. Crosses(i) = MS!Crosses(i)
    BY DEF MS!Crosses, Crosses
<1>3. Overlaps(Without(calls, i), asked) = MS!Overlaps(Without(calls, i), asked)
    BY DEF MS!Overlaps, MS!SentOps, Overlaps, SentOps
<1>4. Failed = MS!Failed
    BY DEF MS!Failed, Failed
<1>5. /\ calls' = Without(calls, i) \o asked
      /\ busy' = (Loud(asked) \/ (busy /\ calls[i].quiet /\ calls[i].answer # Failed))
      /\ mishaps' = mishaps \cup Crosses(i) \cup Overlaps(Without(calls, i), asked)
      /\ steps' = steps
    <2>0. MS!Without(calls, i) = Without(calls, i)
        BY DEF MS!Without, Without
    <2>1. calls' = Without(calls, i) \o asked /\ steps' = steps
        BY <2>0 DEF MS!Handled
    <2>2. busy' = (Loud(asked) \/ (busy /\ calls[i].quiet /\ calls[i].answer # Failed))
        BY <1>1, <1>4 DEF MS!Handled
    <2>3. mishaps' = mishaps \cup Crosses(i) \cup Overlaps(Without(calls, i), asked)
        BY <1>2, <1>3, <2>0 DEF MS!Handled
    <2> QED BY <2>1, <2>2, <2>3
<1>6. Crosses(i) \subseteq Mishaps /\ Overlaps(Without(calls, i), asked) \subseteq Mishaps
    BY DEF Crosses, Overlaps, Mishaps
<1> QED BY <1>5, <1>6 DEF Moves

LEMMA MSAnswered ==
    ASSUME NEW i \in DOMAIN calls
    PROVE  /\ \A a : a.code \in Codes /\ MS!Reply(i, a) => Moves(MS!Requests)
           /\ \A d : MS!Reply(i, MS!Ok(d)) => Moves(MS!Requests)
           /\ MS!Reply(i, MS!Refused) => Moves(MS!Requests)
           /\ MS!Fail(i) => Moves(MS!Requests)
           /\ MS!Ignores(i) => Moves(MS!Requests)
<1>1. ASSUME NEW a, a.code \in Codes, MS!Reply(i, a)
      PROVE  Moves(MS!Requests)
    BY <1>1 DEF MS!Reply, Answered, Moves
<1>2. /\ \A d : MS!Ok(d).code \in Codes
      /\ MS!Refused.code \in Codes /\ MS!Failed.code \in Codes
    BY DEF MS!Ok, MS!Refused, MS!Failed, Codes
<1>3. ASSUME MS!Fail(i) PROVE Moves(MS!Requests)
    BY <1>2, <1>3 DEF MS!Fail, MS!FailsWith, MS!UserActs, Answered, Moves, Mishaps
<1>4. ASSUME MS!Ignores(i) PROVE Moves(MS!Requests)
    BY <1>4, NoneAreCalls, MSHandled DEF MS!Ignores
<1> QED BY <1>1, <1>2, <1>3, <1>4

\* Every step of the page of the sites moves requests so.
LEMMA SitesMove ==
    ASSUME MS!Next
    PROVE  Moves(MS!Requests)
<1>1. AreCalls(<<>>, MS!Requests)
    BY NoneAreCalls
<1>2. \A op \in MS!Requests : \A arg :
        AreCalls(<<MS!Ask(op, arg)>>, MS!Requests)
        /\ AreCalls(<<MS!AskQuietly(op, arg)>>, MS!Requests)
    <2>1. \A op \in MS!Requests : \A arg : SendsCodes(op, arg)
        BY DEF MS!Requests, SendsCodes
    <2> QED BY <2>1, MSAsks, OneIsCalls
<1>3. AreCalls(MS!getList, MS!Requests)
    <2>1. "sites" \in MS!Requests /\ "queryapply" \in MS!Requests
        BY DEF MS!Requests
    <2>2. \A arg : SendsCodes("sites", arg) /\ SendsCodes("queryapply", arg)
        BY DEF SendsCodes
    <2> QED BY <2>1, <2>2, MSAsks, TwoAreCalls DEF MS!getList
<1>4. CASE MS!OwnList
    BY <1>4, <1>1, <1>3, MSSends DEF MS!OwnList, MS!handleCurrentChange, MS!toAddSite
<1>5. CASE MS!Application
    BY <1>5, <1>2, MSSends DEF MS!Application, MS!showApply, MS!gethistory, MS!Requests
<1>6. CASE MS!ApplyDialog
    BY <1>6, <1>1, <1>2, MSSends
       DEF MS!ApplyDialog, MS!toApply, MS!CloseApply, MS!Check, MS!Requests
<1>7. CASE MS!NoticeDialog
    BY <1>7, <1>1, <1>2, MSSends
       DEF MS!NoticeDialog, MS!toapplynotpass, MS!CloseNotice, MS!Requests
<1>8. CASE MS!RegisterDialog
    BY <1>8, <1>1, <1>2, MSSends
       DEF MS!RegisterDialog, MS!okAction, MS!cancelAction, MS!EnterLink, MS!Requests
<1>9. CASE MS!PollTimer
    BY <1>9, <1>2, MSSends DEF MS!PollTimer, MS!Requests
<1>10. CASE \E n \in Others, status \in {"agreed", "none"} : MS!Decides(n, status)
    BY <1>10 DEF MS!Decides, MS!UserActs, Moves
<1>11. ASSUME NEW i \in DOMAIN calls,
              \/ MS!ServeState(i) \/ MS!ServeInstitutions(i) \/ MS!ServeApply(i)
              \/ MS!ServeRead(i)
              \/ MS!Fail(i) \/ MS!Ignores(i)
       PROVE  Moves(MS!Requests)
    BY <1>11, MSAnswered DEF MS!ServeState, MS!ServeInstitutions, MS!ServeApply, MS!ServeRead
<1>12. ASSUME NEW i \in DOMAIN calls,
              \/ MS!SitesThen(i) \/ MS!PollThen(i) \/ MS!StateThen(i) \/ MS!NoticeThen(i)
              \/ MS!InstitutionsThen(i) \/ MS!ApplyThen(i) \/ MS!ReadThen(i) \/ MS!HistoryThen(i)
       PROVE  Moves(MS!Requests)
    BY <1>12, <1>1, <1>3, MSHandled
       DEF MS!SitesThen, MS!PollThen, MS!StateThen, MS!NoticeThen, MS!InstitutionsThen,
           MS!ApplyThen,
           MS!ReadThen, MS!HistoryThen
<1>13. ASSUME NEW i \in DOMAIN calls, MS!CheckUrlThen(i)
       PROVE  Moves(MS!Requests)
    BY <1>13 DEF MS!CheckUrlThen, Moves
<1> QED BY <1>4, <1>5, <1>6, <1>7, <1>8, <1>9, <1>10, <1>11, <1>12, <1>13 DEF MS!Next

-----------------------------------------------------------------------------
(* The page of a site.                                                     *)

LEMMA SDAsks ==
    ASSUME NEW op \in SD!Requests, NEW arg, SendsCodes(op, arg)
    PROVE  /\ IsCall(SD!Ask(op, arg), SD!Requests)
           /\ IsCall(SD!AskQuietly(op, arg), SD!Requests)
           /\ SD!Ask(op, arg).op = op /\ SD!Ask(op, arg).arg = arg
           /\ SD!AskQuietly(op, arg).op = op
           /\ SD!Ask(op, arg).answer = Waiting
           /\ ~SD!Ask(op, arg).quiet
           /\ SD!Ask(op, arg).part = 0 /\ SD!AskQuietly(op, arg).part = 0
<1>1. /\ SD!Ask(op, arg) = Call(op, arg, FALSE, 0)
      /\ SD!AskQuietly(op, arg) = Call(op, arg, TRUE, 0)
    BY DEF SD!Ask, SD!AskQuietly, SD!Call, SD!Waiting, Call, Waiting
<1>2. /\ IsCall(Call(op, arg, FALSE, 0), SD!Requests)
      /\ IsCall(Call(op, arg, TRUE, 0), SD!Requests)
      /\ ~Call(op, arg, FALSE, 0).quiet
    BY CallIsCall
<1>3. /\ Call(op, arg, FALSE, 0).op = op /\ Call(op, arg, FALSE, 0).arg = arg
      /\ Call(op, arg, FALSE, 0).part = 0 /\ Call(op, arg, FALSE, 0).answer = Waiting
      /\ Call(op, arg, TRUE, 0).op = op /\ Call(op, arg, TRUE, 0).part = 0
    BY DEF Call
<1> QED BY <1>1, <1>2, <1>3

LEMMA SDSends ==
    ASSUME NEW asked, AreCalls(asked, SD!Requests)
    PROVE  /\ SD!Click(asked) => Moves(SD!Requests)
           /\ SD!Sends(asked) /\ steps' = steps => Moves(SD!Requests)
<1>1. SD!Sends(asked) <=> Sends(asked)
    BY DEF SD!Sends, SD!Loud, SD!Overlaps, SD!SentOps, Sends, Loud, Overlaps, SentOps
<1>2. SD!Sends(asked) /\ (steps' = steps \/ steps' = steps + 1) => Moves(SD!Requests)
    <2>1. /\ Sends(asked) => calls' = calls \o asked /\ busy' = (busy \/ Loud(asked))
          /\ Sends(asked) => mishaps' = mishaps \cup Overlaps(calls, asked)
          /\ Overlaps(calls, asked) \subseteq Mishaps
        BY DEF Sends, Overlaps, Mishaps
    <2> QED BY <1>1, <2>1 DEF Moves
<1> QED BY <1>2 DEF SD!Click, SD!UserActs

LEMMA SDHandled ==
    ASSUME NEW i \in DOMAIN calls, NEW asked, AreCalls(asked, SD!Requests), SD!Handled(i, asked)
    PROVE  Moves(SD!Requests)
<1>1. Loud(asked) = SD!Loud(asked)
    BY DEF SD!Loud, Loud
<1>2. Crosses(i) = SD!Crosses(i)
    BY DEF SD!Crosses, Crosses
<1>3. Overlaps(Without(calls, i), asked) = SD!Overlaps(Without(calls, i), asked)
    BY DEF SD!Overlaps, SD!SentOps, Overlaps, SentOps
<1>4. Failed = SD!Failed
    BY DEF SD!Failed, Failed
<1>5. /\ calls' = Without(calls, i) \o asked
      /\ busy' = (Loud(asked) \/ (busy /\ calls[i].quiet /\ calls[i].answer # Failed))
      /\ mishaps' = mishaps \cup Crosses(i) \cup Overlaps(Without(calls, i), asked)
      /\ steps' = steps
    <2>0. SD!Without(calls, i) = Without(calls, i)
        BY DEF SD!Without, Without
    <2>1. calls' = Without(calls, i) \o asked /\ steps' = steps
        BY <2>0 DEF SD!Handled
    <2>2. busy' = (Loud(asked) \/ (busy /\ calls[i].quiet /\ calls[i].answer # Failed))
        BY <1>1, <1>4 DEF SD!Handled
    <2>3. mishaps' = mishaps \cup Crosses(i) \cup Overlaps(Without(calls, i), asked)
        BY <1>2, <1>3, <2>0 DEF SD!Handled
    <2> QED BY <2>1, <2>2, <2>3
<1>6. Crosses(i) \subseteq Mishaps /\ Overlaps(Without(calls, i), asked) \subseteq Mishaps
    BY DEF Crosses, Overlaps, Mishaps
<1> QED BY <1>5, <1>6 DEF Moves

LEMMA SDAnswered ==
    ASSUME NEW i \in DOMAIN calls
    PROVE  /\ \A a : a.code \in Codes /\ SD!Reply(i, a) => Moves(SD!Requests)
           /\ \A d : SD!Reply(i, SD!Ok(d)) => Moves(SD!Requests)
           /\ SD!Reply(i, SD!Refused) => Moves(SD!Requests)
           /\ SD!Fail(i) => Moves(SD!Requests)
           /\ SD!Ignores(i) => Moves(SD!Requests)
<1>1. ASSUME NEW a, a.code \in Codes, SD!Reply(i, a)
      PROVE  Moves(SD!Requests)
    BY <1>1 DEF SD!Reply, Answered, Moves
<1>2. /\ \A d : SD!Ok(d).code \in Codes
      /\ SD!Refused.code \in Codes /\ SD!Failed.code \in Codes
    BY DEF SD!Ok, SD!Refused, SD!Failed, Codes
<1>3. ASSUME SD!Fail(i) PROVE Moves(SD!Requests)
    BY <1>2, <1>3 DEF SD!Fail, SD!FailsWith, SD!UserActs, Answered, Moves, Mishaps
<1>4. ASSUME SD!Ignores(i) PROVE Moves(SD!Requests)
    BY <1>4, NoneAreCalls, SDHandled DEF SD!Ignores
<1> QED BY <1>1, <1>2, <1>3, <1>4

\* The fields of a site, its switches among them.
SiteFields == SD!Network \cup {"fateFlowIp"}

\* Every step of the page of a site, of the manager it asks, moves requests so.
LEMMA SiteMoves ==
    ASSUME SD!Next, DOMAIN view.form = SiteFields
    PROVE  Moves(SD!Requests)
<1>1. AreCalls(<<>>, SD!Requests)
    BY NoneAreCalls
<1>2. \A op \in SD!Requests : \A arg : SendsCodes(op, arg) =>
        AreCalls(<<SD!Ask(op, arg)>>, SD!Requests)
        /\ AreCalls(<<SD!AskQuietly(op, arg)>>, SD!Requests)
    BY SDAsks, OneIsCalls
<1>a. \A op \in SD!Requests : \A arg : op # "update" => SendsCodes(op, arg)
    BY DEF SendsCodes
<1>b. /\ \A form : SendsCodes("update", SD!Update("flow", form))
      /\ \A form : SendsCodes("update", SD!Update("rollsite", form))
    BY DEF SendsCodes, SD!Update
<1>3. AreCalls(SD!initInfo, SD!Requests) /\ AreCalls(SD!markRead, SD!Requests)
    <2>1. "getSiteInfo" \in SD!Requests /\ "lists" \in SD!Requests
        BY DEF SD!Requests
    <2> QED BY <2>1, <1>a, SDAsks, TwoAreCalls DEF SD!initInfo, SD!markRead
<1>4. AreCalls(SD!togetMsg, SD!Requests)
    BY <1>2, <1>a DEF SD!togetMsg, SD!Requests
<1>5. CASE SD!NetworkSection
    BY <1>5, <1>1, <1>2, <1>a, SDSends
       DEF SD!NetworkSection, SD!toEditSite, SD!cancelSite, SD!submitSite, SD!testrollsite,
           SD!Turn,
           SD!updateIp, SD!Requests
<1>6. CASE SD!ClusterSection
    BY <1>6, <1>1, <1>2, <1>a, <1>b, SDSends
       DEF SD!ClusterSection, SD!toEditCluster, SD!cancelCluster, SD!submitCluster, SD!EnterFlow,
           SD!Requests
<1>7. CASE SD!Dialogs
    <2>1. CASE SD!okAction
        <3> DEFINE form == [f \in DOMAIN view.form |->
                           IF f \in SD!Switches THEN view.copy[f] ELSE view.form[f]]
        <3>1. DOMAIN form = SiteFields
            OBVIOUS
        <3> HIDE DEF form
        <3>2. SendsCodes("update", SD!Update("site", form))
            BY <3>1 DEF SendsCodes, SD!Update, SD!DataOf, SD!toCode, Coded, SiteFields, SD!Network
        <3>3. AreCalls(<<SD!Ask("update", SD!Update("site", form))>>, SD!Requests)
            BY <3>2, <1>2 DEF SD!Requests
        <3> QED BY <2>1, <3>3, SDSends DEF SD!okAction, form
    <2>2. CASE SD!Dialogs /\ ~SD!okAction
        BY <2>2, <1>1, <1>2, <1>3, <1>a, <1>b, SDSends
           DEF SD!Dialogs, SD!rollsiteOk, SD!flowOk, SD!notice, SD!CloseDialog, SD!Requests
    <2> QED BY <1>7, <2>1, <2>2
<1>8. CASE SD!NewsDialog
    BY <1>8, <1>1, <1>3, SDSends DEF SD!NewsDialog, SD!updateNew, SD!CloseDialog
<1>9. CASE SD!PollTimer
    BY <1>9, <1>4, SDSends DEF SD!PollTimer
<1>10. CASE \E decision \in {1, 2} : SD!Decide(decision)
    BY <1>10 DEF SD!Decide, SD!UserActs, Moves
<1>11. ASSUME NEW i \in DOMAIN calls,
              \/ SD!ServeInfo(i) \/ SD!ServeUpdate(i) \/ SD!ServeMsg(i) \/ SD!ServeRead(i)
              \/ SD!ServeTest(i) \/ SD!Fail(i) \/ SD!NoHandler(i)
       PROVE  Moves(SD!Requests)
    BY <1>11, SDAnswered
       DEF SD!ServeInfo, SD!ServeUpdate, SD!ServeMsg, SD!ServeRead, SD!ServeTest, SD!NoHandler
<1>12. ASSUME NEW i \in DOMAIN calls,
              \/ SD!InfoThen(i) \/ SD!MarkedThen(i) \/ SD!ListsThen(i) \/ SD!MsgThen(i)
              \/ SD!ReadThen(i)
              \/ SD!UpdateThen(i) \/ SD!updateFateflow(i) \/ SD!TestThen(i) \/ SD!TestFails(i)
       PROVE  Moves(SD!Requests)
    BY <1>12, <1>1, <1>3, <1>4, SDHandled
       DEF SD!InfoThen, SD!MarkedThen, SD!ListsThen, SD!MsgThen, SD!ReadThen, SD!UpdateThen,
           SD!updateFateflow, SD!TestThen, SD!TestFails
<1> QED BY <1>5, <1>6, <1>7, <1>8, <1>9, <1>10, <1>11, <1>12 DEF SD!Next

-----------------------------------------------------------------------------
(* The page of the cooperation.                                            *)

LEMMA COAsks ==
    ASSUME NEW op \in CO!Requests, NEW arg, SendsCodes(op, arg)
    PROVE  /\ IsCall(CO!Ask(op, arg), CO!Requests)
           /\ IsCall(CO!AskQuietly(op, arg), CO!Requests)
           /\ CO!Ask(op, arg).op = op /\ CO!Ask(op, arg).arg = arg
           /\ CO!AskQuietly(op, arg).op = op
           /\ CO!Ask(op, arg).answer = Waiting
           /\ ~CO!Ask(op, arg).quiet
           /\ CO!Ask(op, arg).part = 0 /\ CO!AskQuietly(op, arg).part = 0
<1>1. /\ CO!Ask(op, arg) = Call(op, arg, FALSE, 0)
      /\ CO!AskQuietly(op, arg) = Call(op, arg, TRUE, 0)
    BY DEF CO!Ask, CO!AskQuietly, CO!Call, CO!Waiting, Call, Waiting
<1>2. /\ IsCall(Call(op, arg, FALSE, 0), CO!Requests)
      /\ IsCall(Call(op, arg, TRUE, 0), CO!Requests)
      /\ ~Call(op, arg, FALSE, 0).quiet
    BY CallIsCall
<1>3. /\ Call(op, arg, FALSE, 0).op = op /\ Call(op, arg, FALSE, 0).arg = arg
      /\ Call(op, arg, FALSE, 0).part = 0 /\ Call(op, arg, FALSE, 0).answer = Waiting
      /\ Call(op, arg, TRUE, 0).op = op /\ Call(op, arg, TRUE, 0).part = 0
    BY DEF Call
<1> QED BY <1>1, <1>2, <1>3

LEMMA COSends ==
    ASSUME NEW asked, AreCalls(asked, CO!Requests)
    PROVE  /\ CO!Click(asked) => Moves(CO!Requests)
           /\ CO!Sends(asked) /\ steps' = steps => Moves(CO!Requests)
<1>1. CO!Sends(asked) <=> Sends(asked)
    BY DEF CO!Sends, CO!Loud, CO!Overlaps, CO!SentOps, Sends, Loud, Overlaps, SentOps
<1>2. CO!Sends(asked) /\ (steps' = steps \/ steps' = steps + 1) => Moves(CO!Requests)
    <2>1. /\ Sends(asked) => calls' = calls \o asked /\ busy' = (busy \/ Loud(asked))
          /\ Sends(asked) => mishaps' = mishaps \cup Overlaps(calls, asked)
          /\ Overlaps(calls, asked) \subseteq Mishaps
        BY DEF Sends, Overlaps, Mishaps
    <2> QED BY <1>1, <2>1 DEF Moves
<1> QED BY <1>2 DEF CO!Click, CO!UserActs

LEMMA COHandled ==
    ASSUME NEW i \in DOMAIN calls, NEW asked, AreCalls(asked, CO!Requests), CO!Handled(i, asked)
    PROVE  Moves(CO!Requests)
<1>1. Loud(asked) = CO!Loud(asked)
    BY DEF CO!Loud, Loud
<1>2. Crosses(i) = CO!Crosses(i)
    BY DEF CO!Crosses, Crosses
<1>3. Overlaps(Without(calls, i), asked) = CO!Overlaps(Without(calls, i), asked)
    BY DEF CO!Overlaps, CO!SentOps, Overlaps, SentOps
<1>4. Failed = CO!Failed
    BY DEF CO!Failed, Failed
<1>5. /\ calls' = Without(calls, i) \o asked
      /\ busy' = (Loud(asked) \/ (busy /\ calls[i].quiet /\ calls[i].answer # Failed))
      /\ mishaps' = mishaps \cup Crosses(i) \cup Overlaps(Without(calls, i), asked)
      /\ steps' = steps
    <2>0. CO!Without(calls, i) = Without(calls, i)
        BY DEF CO!Without, Without
    <2>1. calls' = Without(calls, i) \o asked /\ steps' = steps
        BY <2>0 DEF CO!Handled
    <2>2. busy' = (Loud(asked) \/ (busy /\ calls[i].quiet /\ calls[i].answer # Failed))
        BY <1>1, <1>4 DEF CO!Handled
    <2>3. mishaps' = mishaps \cup Crosses(i) \cup Overlaps(Without(calls, i), asked)
        BY <1>2, <1>3, <2>0 DEF CO!Handled
    <2> QED BY <2>1, <2>2, <2>3
<1>6. Crosses(i) \subseteq Mishaps /\ Overlaps(Without(calls, i), asked) \subseteq Mishaps
    BY DEF Crosses, Overlaps, Mishaps
<1> QED BY <1>5, <1>6 DEF Moves

LEMMA COAnswered ==
    ASSUME NEW i \in DOMAIN calls
    PROVE  /\ \A a : a.code \in Codes /\ CO!Reply(i, a) => Moves(CO!Requests)
           /\ \A d : CO!Reply(i, CO!Ok(d)) => Moves(CO!Requests)
           /\ CO!Reply(i, CO!Refused) => Moves(CO!Requests)
           /\ CO!Fail(i) => Moves(CO!Requests)
           /\ CO!Ignores(i) => Moves(CO!Requests)
<1>1. ASSUME NEW a, a.code \in Codes, CO!Reply(i, a)
      PROVE  Moves(CO!Requests)
    BY <1>1 DEF CO!Reply, Answered, Moves
<1>2. /\ \A d : CO!Ok(d).code \in Codes
      /\ CO!Refused.code \in Codes /\ CO!Failed.code \in Codes
    BY DEF CO!Ok, CO!Refused, CO!Failed, Codes
<1>3. ASSUME CO!Fail(i) PROVE Moves(CO!Requests)
    BY <1>2, <1>3 DEF CO!Fail, CO!FailsWith, CO!UserActs, Answered, Moves, Mishaps
<1>4. ASSUME CO!Ignores(i) PROVE Moves(CO!Requests)
    BY <1>4, NoneAreCalls, COHandled DEF CO!Ignores
<1> QED BY <1>1, <1>2, <1>3, <1>4

\* Every step of the page of the cooperation moves requests so.
LEMMA CooperationMoves ==
    ASSUME CO!Next
    PROVE  Moves(CO!Requests)
<1>1. AreCalls(<<>>, CO!Requests)
    BY NoneAreCalls
<1>2. \A op \in CO!Requests : \A arg : AreCalls(<<CO!Ask(op, arg)>>, CO!Requests)
    <2>1. \A op \in CO!Requests : \A arg : SendsCodes(op, arg)
        BY DEF CO!Requests, SendsCodes
    <2> QED BY <2>1, COAsks, OneIsCalls
<1>3. \A v : AreCalls(CO!initi(v), CO!Requests)
    <2>1. "getTotal" \in CO!Requests /\ "getInstitution" \in CO!Requests
          /\ "getSite" \in CO!Requests
        BY DEF CO!Requests
    <2>2. \A op \in CO!Requests : \A arg : SendsCodes(op, arg)
        BY DEF CO!Requests, SendsCodes
    <2> QED BY <2>1, <2>2, COAsks, ThreeAreCalls DEF CO!initi
<1>4. ASSUME NEW radio, CO!tohandle(radio)
      PROVE  Moves(CO!Requests)
    BY <1>4, <1>1, COSends DEF CO!tohandle
<1>5. CASE CO!RadioTimer
    BY <1>5, <1>3, COSends DEF CO!RadioTimer
<1>6. CASE CO!TimePicker
    BY <1>6, <1>3, COSends DEF CO!TimePicker, CO!handeldeDate
<1>7. CASE CO!InstitutionTable \/ CO!SiteTable
    BY <1>7, <1>2, COSends
       DEF CO!InstitutionTable, CO!SiteTable, CO!handleInstitutionCurrentChange,
           CO!handleSiteCurrentChange, CO!Requests
<1>8. ASSUME NEW i \in DOMAIN calls,
             CO!TotalThen(i) \/ CO!InstitutionThen(i) \/ CO!SiteThen(i) \/ CO!Fail(i)
             \/ CO!Ignores(i)
      PROVE  Moves(CO!Requests)
    BY <1>8, <1>1, COHandled, COAnswered DEF CO!TotalThen, CO!InstitutionThen, CO!SiteThen
<1> QED BY <1>4, <1>5, <1>6, <1>7, <1>8 DEF CO!Next

-----------------------------------------------------------------------------
(* The page of the jobs.                                                   *)

LEMMA JMAsks ==
    ASSUME NEW op \in JM!Requests, NEW arg, SendsCodes(op, arg)
    PROVE  /\ IsCall(JM!Ask(op, arg), JM!Requests)
           /\ IsCall(JM!AskQuietly(op, arg), JM!Requests)
           /\ JM!Ask(op, arg).op = op /\ JM!Ask(op, arg).arg = arg
           /\ JM!AskQuietly(op, arg).op = op
           /\ JM!Ask(op, arg).answer = Waiting
           /\ ~JM!Ask(op, arg).quiet
           /\ JM!Ask(op, arg).part = 0 /\ JM!AskQuietly(op, arg).part = 0
<1>1. /\ JM!Ask(op, arg) = Call(op, arg, FALSE, 0)
      /\ JM!AskQuietly(op, arg) = Call(op, arg, TRUE, 0)
    BY DEF JM!Ask, JM!AskQuietly, JM!Call, JM!Waiting, Call, Waiting
<1>2. /\ IsCall(Call(op, arg, FALSE, 0), JM!Requests)
      /\ IsCall(Call(op, arg, TRUE, 0), JM!Requests)
      /\ ~Call(op, arg, FALSE, 0).quiet
    BY CallIsCall
<1>3. /\ Call(op, arg, FALSE, 0).op = op /\ Call(op, arg, FALSE, 0).arg = arg
      /\ Call(op, arg, FALSE, 0).part = 0 /\ Call(op, arg, FALSE, 0).answer = Waiting
      /\ Call(op, arg, TRUE, 0).op = op /\ Call(op, arg, TRUE, 0).part = 0
    BY DEF Call
<1> QED BY <1>1, <1>2, <1>3

LEMMA JMSends ==
    ASSUME NEW asked, AreCalls(asked, JM!Requests)
    PROVE  /\ JM!Click(asked) => Moves(JM!Requests)
           /\ JM!Sends(asked) /\ steps' = steps => Moves(JM!Requests)
<1>1. JM!Sends(asked) <=> Sends(asked)
    BY DEF JM!Sends, JM!Loud, JM!Overlaps, JM!SentOps, Sends, Loud, Overlaps, SentOps
<1>2. JM!Sends(asked) /\ (steps' = steps \/ steps' = steps + 1) => Moves(JM!Requests)
    <2>1. /\ Sends(asked) => calls' = calls \o asked /\ busy' = (busy \/ Loud(asked))
          /\ Sends(asked) => mishaps' = mishaps \cup Overlaps(calls, asked)
          /\ Overlaps(calls, asked) \subseteq Mishaps
        BY DEF Sends, Overlaps, Mishaps
    <2> QED BY <1>1, <2>1 DEF Moves
<1> QED BY <1>2 DEF JM!Click, JM!UserActs

LEMMA JMHandled ==
    ASSUME NEW i \in DOMAIN calls, NEW asked, AreCalls(asked, JM!Requests), JM!Handled(i, asked)
    PROVE  Moves(JM!Requests)
<1>1. Loud(asked) = JM!Loud(asked)
    BY DEF JM!Loud, Loud
<1>2. Crosses(i) = JM!Crosses(i)
    BY DEF JM!Crosses, Crosses
<1>3. Overlaps(Without(calls, i), asked) = JM!Overlaps(Without(calls, i), asked)
    BY DEF JM!Overlaps, JM!SentOps, Overlaps, SentOps
<1>4. Failed = JM!Failed
    BY DEF JM!Failed, Failed
<1>5. /\ calls' = Without(calls, i) \o asked
      /\ busy' = (Loud(asked) \/ (busy /\ calls[i].quiet /\ calls[i].answer # Failed))
      /\ mishaps' = mishaps \cup Crosses(i) \cup Overlaps(Without(calls, i), asked)
      /\ steps' = steps
    <2>0. JM!Without(calls, i) = Without(calls, i)
        BY DEF JM!Without, Without
    <2>1. calls' = Without(calls, i) \o asked /\ steps' = steps
        BY <2>0 DEF JM!Handled
    <2>2. busy' = (Loud(asked) \/ (busy /\ calls[i].quiet /\ calls[i].answer # Failed))
        BY <1>1, <1>4 DEF JM!Handled
    <2>3. mishaps' = mishaps \cup Crosses(i) \cup Overlaps(Without(calls, i), asked)
        BY <1>2, <1>3, <2>0 DEF JM!Handled
    <2> QED BY <2>1, <2>2, <2>3
<1>6. Crosses(i) \subseteq Mishaps /\ Overlaps(Without(calls, i), asked) \subseteq Mishaps
    BY DEF Crosses, Overlaps, Mishaps
<1> QED BY <1>5, <1>6 DEF Moves

LEMMA JMAnswered ==
    ASSUME NEW i \in DOMAIN calls
    PROVE  /\ \A a : a.code \in Codes /\ JM!Reply(i, a) => Moves(JM!Requests)
           /\ \A d : JM!Reply(i, JM!Ok(d)) => Moves(JM!Requests)
           /\ JM!Reply(i, JM!Refused) => Moves(JM!Requests)
           /\ JM!Fail(i) => Moves(JM!Requests)
           /\ JM!Ignores(i) => Moves(JM!Requests)
<1>1. ASSUME NEW a, a.code \in Codes, JM!Reply(i, a)
      PROVE  Moves(JM!Requests)
    BY <1>1 DEF JM!Reply, Answered, Moves
<1>2. /\ \A d : JM!Ok(d).code \in Codes
      /\ JM!Refused.code \in Codes /\ JM!Failed.code \in Codes
    BY DEF JM!Ok, JM!Refused, JM!Failed, Codes
<1>3. ASSUME JM!Fail(i) PROVE Moves(JM!Requests)
    BY <1>2, <1>3 DEF JM!Fail, JM!FailsWith, JM!UserActs, Answered, Moves, Mishaps
<1>4. ASSUME JM!Ignores(i) PROVE Moves(JM!Requests)
    BY <1>4, NoneAreCalls, JMHandled DEF JM!Ignores
<1> QED BY <1>1, <1>2, <1>3, <1>4

\* What the page of the jobs keeps.
JobsFields ==
    {"timevalue", "party_id", "siteOptions", "detail", "chartData", "selectData", "bar"}

\* The page raises the overlay by itself: while it has a period, it asks too.
LEMMA JobsStep ==
    ASSUME CallsInv(JM!Requests), JM!OverlayHasAnswer, DOMAIN view = JobsFields, JM!Next
    PROVE  CallsInv(JM!Requests)' /\ JM!OverlayHasAnswer' /\ DOMAIN view' = JobsFields
<1>1. AreCalls(<<>>, JM!Requests)
    BY NoneAreCalls
<1>2. \A v : /\ AreCalls(JM!getJobs(v), JM!Requests)
             /\ v.timevalue # "" => Loud(JM!getJobs(v))
    <2> SUFFICES ASSUME NEW v
                 PROVE  /\ AreCalls(JM!getJobs(v), JM!Requests)
                        /\ v.timevalue # "" => Loud(JM!getJobs(v))
        OBVIOUS
    <2> DEFINE c == JM!Ask("getJobs", JM!Search(v))
    <2>1. IsCall(c, JM!Requests) /\ ~c.quiet
        BY JMAsks DEF JM!Requests, SendsCodes
    <2>2. JM!getJobs(v) = IF v.timevalue = "" THEN <<>> ELSE <<c>>
        BY DEF JM!getJobs
    <2> HIDE DEF c
    <2>3. AreCalls(<<c>>, JM!Requests) /\ DOMAIN <<c>> = {1} /\ <<c>>[1] = c
        BY <2>1, OneIsCalls
    <2>4. Loud(<<c>>)
        BY <2>1, <2>3 DEF Loud
    <2> QED BY <1>1, <2>2, <2>3, <2>4
<1>3. \A v : AreCalls(JM!initi(v), JM!Requests) /\ Loud(JM!initi(v))
    <2> SUFFICES ASSUME NEW v
                 PROVE  AreCalls(JM!initi(v), JM!Requests) /\ Loud(JM!initi(v))
        OBVIOUS
    <2> DEFINE c == JM!Ask("getSiteOptions", "")
               g == JM!getJobs(v)
    <2>1. IsCall(c, JM!Requests) /\ ~c.quiet
        BY JMAsks DEF JM!Requests, SendsCodes
    <2>0. JM!initi(v) = <<c>> \o g
        BY DEF JM!initi
    <2>a. AreCalls(g, JM!Requests)
        BY <1>2
    <2>2. JM!initi(v) = <<c>> \o g /\ AreCalls(g, JM!Requests)
        BY <2>0, <2>a
    <2> HIDE DEF c, g
    <2>3. AreCalls(<<c>>, JM!Requests) /\ DOMAIN <<c>> = {1} /\ <<c>>[1] = c
        BY <2>1, OneIsCalls
    <2>4. 1 \in DOMAIN (<<c>> \o g) /\ (<<c>> \o g)[1] = c
        BY <2>2, <2>3, Joined DEF AreCalls
    <2>5. AreCalls(<<c>> \o g, JM!Requests)
        BY <2>2, <2>3, BothAreCalls
    <2> QED BY <2>1, <2>2, <2>4, <2>5 DEF Loud
<1>4. ASSUME Moves(JM!Requests), DOMAIN view' = JobsFields, view'.timevalue = view.timevalue
      PROVE  CallsInv(JM!Requests)' /\ JM!OverlayHasAnswer' /\ DOMAIN view' = JobsFields
    <2>1. CallsInv(JM!Requests)'
        BY <1>4, MovesKeepCalls
    <2>2. view.timevalue # "" => OverlayHasCall
        BY DEF JM!OverlayHasAnswer, OverlayHasCall
    <2>3. view.timevalue # "" => OverlayHasCall'
        BY <1>4, <2>2, MovesKeepOverlay
    <2>4. JM!OverlayHasAnswer'
        BY <1>4, <2>3 DEF JM!OverlayHasAnswer, OverlayHasCall
    <2> QED BY <1>4, <2>1, <2>4
<1>5. ASSUME NEW asked, AreCalls(asked, JM!Requests), JM!UserActs, JM!Raised(asked),
             Loud(asked) \/ view'.timevalue = "", DOMAIN view' = JobsFields
      PROVE  CallsInv(JM!Requests)' /\ JM!OverlayHasAnswer' /\ DOMAIN view' = JobsFields
    <2>1. /\ steps' = steps + 1 /\ busy' = TRUE /\ calls' = calls \o asked
          /\ mishaps' = mishaps \cup JM!Overlaps(calls, asked)
        BY <1>5 DEF JM!UserActs, JM!Raised
    <2>2. JM!Overlaps(calls, asked) \subseteq Mishaps
        BY DEF JM!Overlaps, Mishaps
    <2>3. AreCalls(calls', JM!Requests)
        BY <1>5, <2>1, BothAreCalls DEF CallsInv
    <2>4. CallsInv(JM!Requests)'
        BY <2>1, <2>2, <2>3 DEF CallsInv
    <2>0. IsQueue(calls) /\ IsQueue(asked)
        BY <1>5 DEF CallsInv, AreCalls
    <2>5. Loud(asked) => Loud(calls')
        BY <2>0, <2>1, LoudJoined
    <2>6. JM!OverlayHasAnswer'
        BY <1>5, <2>5 DEF JM!OverlayHasAnswer, Loud
    <2> QED BY <1>5, <2>4, <2>6
<1>6. ASSUME NEW period, JM!pickTime(period)
      PROVE  CallsInv(JM!Requests)' /\ JM!OverlayHasAnswer' /\ DOMAIN view' = JobsFields
    <2>1. DOMAIN view' = JobsFields /\ JM!UserActs /\ JM!Raised(JM!initi(view'))
        BY <1>6 DEF JM!pickTime
    <2>2. AreCalls(JM!initi(view'), JM!Requests) /\ Loud(JM!initi(view'))
        BY <1>3
    <2> QED BY <1>5, <2>1, <2>2
<1>7. ASSUME NEW site, JM!selectSite(site)
      PROVE  CallsInv(JM!Requests)' /\ JM!OverlayHasAnswer' /\ DOMAIN view' = JobsFields
    <2>1. DOMAIN view' = JobsFields /\ JM!UserActs /\ JM!Raised(JM!getJobs(view'))
        BY <1>7 DEF JM!selectSite
    <2> DEFINE w == view'
    <2>2. AreCalls(JM!getJobs(w), JM!Requests) /\ (w.timevalue # "" => Loud(JM!getJobs(w)))
        BY <1>2
    <2> QED BY <1>5, <2>1, <2>2
<1>8. ASSUME NEW name, JM!changeProgressType(name)
      PROVE  CallsInv(JM!Requests)' /\ JM!OverlayHasAnswer' /\ DOMAIN view' = JobsFields
    <2>1. DOMAIN view' = JobsFields /\ view'.timevalue = view.timevalue
        BY <1>8 DEF JM!changeProgressType, JM!Selected, JobsFields
    <2> QED BY <1>1, <1>4, <1>8, <2>1, JMSends DEF JM!changeProgressType
<1>9. ASSUME NEW i \in DOMAIN calls, JM!OptionsThen(i) \/ JM!Fail(i) \/ JM!Ignores(i)
      PROVE  CallsInv(JM!Requests)' /\ JM!OverlayHasAnswer' /\ DOMAIN view' = JobsFields
    <2>1. DOMAIN view' = JobsFields /\ view'.timevalue = view.timevalue
        BY <1>9 DEF JM!OptionsThen, JM!Fail, JM!FailsWith, JM!Ignores, JobsFields
    <2> QED BY <1>1, <1>4, <1>9, <2>1, JMHandled, JMAnswered DEF JM!OptionsThen
<1>10. ASSUME NEW i \in DOMAIN calls, JM!JobsThen(i)
      PROVE  CallsInv(JM!Requests)' /\ JM!OverlayHasAnswer' /\ DOMAIN view' = JobsFields
    <2>1. DOMAIN view' = JobsFields /\ view'.timevalue = view.timevalue
        BY <1>10 DEF JM!JobsThen, JM!Selected, JobsFields
    <2>2. /\ calls' = Without(calls, i) \o <<>> /\ busy' = FALSE /\ steps' = steps
          /\ mishaps' = mishaps \cup JM!Crosses(i) \cup JM!Overlaps(Without(calls, i), <<>>)
        <3>1. JM!Without(calls, i) = Without(calls, i)
            BY DEF JM!Without, Without
        <3> QED BY <1>10, <3>1 DEF JM!JobsThen, JM!HandledUnder
    <2>3. JM!Crosses(i) \subseteq Mishaps
          /\ JM!Overlaps(Without(calls, i), <<>>) \subseteq Mishaps
        BY DEF JM!Crosses, JM!Overlaps, Mishaps
    <2>4. Moves(JM!Requests)
        BY <1>1, <2>2, <2>3 DEF Moves
    <2> QED BY <1>4, <2>1, <2>4
<1> QED BY <1>6, <1>7, <1>8, <1>9, <1>10 DEF JM!Next, JM!SearchControls

-----------------------------------------------------------------------------
(* What the page of a site shows, and what is stored of the site.          *)

\* What the page of a site and its manager keep, whatever is in it.
ViewFields ==
    {"form", "old", "copy", "news", "ready", "tosubmit", "editSubmitted", "clusterEditSubmitted",
     "dialogs", "rollsiteStatus", "flowStatus", "timers", "accepted", "dismissed"}
ServerFields == {"site", "rollsiteNew", "case", "editStatus", "readStatus", "news"}
DialogNames == {"change", "rollsite", "flow", "notice", "news"}
AllNews == {<<>>, [entrances |-> "news"], [secureStatus |-> 1]}

IsView(v) ==
    /\ DOMAIN v = ViewFields
    /\ DOMAIN v.form = SiteFields /\ DOMAIN v.old = SiteFields /\ DOMAIN v.copy = SiteFields
    /\ v.dialogs \in Seq(DialogNames)

\* What the manager stores of a site are codes, and what it may come to store.
StoresCodes(s) ==
    /\ DOMAIN s = ServerFields
    /\ DOMAIN s.site = SiteFields /\ Coded(s.site)
    /\ s.editStatus = SD!UnderReview => Coded(s.case)
    /\ s.news \in AllNews

\* While a submission is asked about, the copy of the switches is that of the
\* form; when the rollsite was edited it may be older, and when news came in.
Has(d, e) == \E k \in DOMAIN d : d[k] = e
CopyFits(v) ==
    (Has(v.dialogs, "change") \/ Has(v.dialogs, "rollsite"))
      /\ v.form.rollsite = v.old.rollsite /\ ~v.accepted
    => \A f \in SD!Switches : v.copy[f] = v.form[f]

\* What is known of the page of a site besides its requests.
SiteInv == IsView(view) /\ StoresCodes(server) /\ CopyFits(view)

\* A set of positions has a first one.
LEMMA NatMin ==
    ASSUME NEW I, I \subseteq Nat, I # {}
    PROVE  \E x \in I : \A y \in I : x <= y
<1> DEFINE R == OpToRel(<, Nat)
<1>1. PICK x \in I : \A y \in I : ~(<<y, x>> \in R)
    BY NatLessThanWellFounded, WFMin
<1>2. \A y \in I : <<y, x>> \in Nat \X Nat /\ <<y, x>>[1] = y /\ <<y, x>>[2] = x
    BY <1>1
<1>3. \A y \in I : ~(y < x)
    BY <1>1, <1>2 DEF OpToRel
<1>4. \A y \in I : x \in Nat /\ y \in Nat
    BY <1>1
<1>5. \A y \in I : x <= y
    BY <1>3, <1>4
<1> QED BY <1>1, <1>5

LEMMA DialogOpens ==
    ASSUME NEW d \in Seq(DialogNames), NEW e \in DialogNames
    PROVE  /\ SD!Opened(d, e) \in Seq(DialogNames)
           /\ \A x : Has(SD!Opened(d, e), x) => Has(d, x) \/ x = e
<1>1. /\ Append(d, e) \in Seq(DialogNames)
      /\ \A k \in DOMAIN Append(d, e) : (k \in DOMAIN d /\ Append(d, e)[k] = d[k])
         \/ Append(d, e)[k] = e
    OBVIOUS
<1> QED BY <1>1 DEF SD!Opened, Has

LEMMA DialogCloses ==
    ASSUME NEW d \in Seq(DialogNames), NEW e
    PROVE  /\ SD!Closed(d, e) \in Seq(DialogNames)
           /\ \A x : Has(SD!Closed(d, e), x) => Has(d, x)
<1> DEFINE I == {k \in 1 .. Len(d) : d[k] = e}
<1>1. CASE I = {}
    <2>1. ~\E k \in 1 .. Len(d) : d[k] = e
        BY <1>1
    <2>2. SD!Closed(d, e) = d
        BY <2>1 DEF SD!Closed, SD!RemoveFirst
    <2> QED BY <2>2
<1>2. CASE I # {}
    <2>1. SD!Min(I) \in I
        <3>1. I \subseteq Nat
            BY Len(d) \in Nat
        <3>2. \E x \in I : \A y \in I : x <= y
            BY <3>1, <1>2, NatMin
        <3> HIDE DEF I
        <3> QED BY <3>2 DEF SD!Min
    <2>2. SD!Closed(d, e) = Without(d, SD!Min(I))
        BY <1>2 DEF SD!Closed, SD!RemoveFirst, SD!SelectInSeq, SD!RemoveAt, Without
    <2> DEFINE p == SD!Min(I)
               r == Without(d, p)
    <2>3. p \in DOMAIN d /\ IsQueue(d)
        BY <2>1, QueueOfSome
    <2> HIDE DEF I, p
    <2>4. /\ IsQueue(r)
          /\ \A k \in DOMAIN d : k < p => k \in DOMAIN r /\ r[k] = d[k]
          /\ \A k \in DOMAIN d : k > p => k - 1 \in DOMAIN r /\ r[k - 1] = d[k]
          /\ \A k \in DOMAIN r : IF k < p THEN k \in DOMAIN d ELSE k + 1 \in DOMAIN d /\ k + 1 > p
        BY <2>3, Removed
    <2> HIDE DEF r
    <2>5. \A k \in DOMAIN r : \E j \in DOMAIN d : r[k] = d[j]
        <3> SUFFICES ASSUME NEW k \in DOMAIN r PROVE \E j \in DOMAIN d : r[k] = d[j]
            OBVIOUS
        <3>1. k \in Nat /\ (k + 1) - 1 = k
            BY <2>4, QueueFacts
        <3> QED BY <3>1, <2>4
    <2>6. r \in Seq(DialogNames)
        <3>1. Len(r) \in Nat /\ r \in [1 .. Len(r) -> ToSet(r)] /\ DOMAIN r = 1 .. Len(r)
            BY <2>4 DEF IsQueue
        <3>2. \A k \in DOMAIN r : r[k] \in DialogNames
            BY <2>5
        <3>3. r \in [1 .. Len(r) -> DialogNames]
            BY <3>1, <3>2
        <3> QED BY <3>1, <3>3, SeqDef
    <2>7. \A x : Has(r, x) => Has(d, x)
        BY <2>5 DEF Has
    <2> QED BY <2>2, <2>6, <2>7 DEF r, p
<1> QED BY <1>1, <1>2

LEMMA DialogOnTop ==
    ASSUME NEW v, v.dialogs \in Seq(DialogNames)
    PROVE  /\ SD!Top(v) = "page" => v.dialogs = <<>> /\ \A x : ~Has(v.dialogs, x)
           /\ SD!Top(v) # "page" => Has(v.dialogs, SD!Top(v))
<1> DEFINE d == v.dialogs
<1>1. SD!Top(v) = IF d = <<>> THEN "page" ELSE d[Len(d)]
    BY DEF SD!Top, SD!Last
<1>2. d = <<>> => DOMAIN d = {}
    OBVIOUS
<1>3. d # <<>> => Len(d) \in DOMAIN d /\ d[Len(d)] \in DialogNames
    OBVIOUS
<1>4. "page" \notin DialogNames
    BY DEF DialogNames
<1> QED BY <1>1, <1>2, <1>3, <1>4 DEF Has

\* The watchers of the form change nothing but the button.
LEMMA WatchedKeeps ==
    ASSUME NEW v, NEW w, IsView(w)
    PROVE  /\ DOMAIN SD!Watched(v, w) = ViewFields
           /\ \A f \in ViewFields : f # "tosubmit" => SD!Watched(v, w)[f] = w[f]
BY DEF SD!Watched, SD!FlowWatched, IsView, ViewFields

\* A step that leaves form, old values and copy alone, and opens no question.
LEMMA FormUntouched ==
    ASSUME NEW v, NEW w, IsView(v), CopyFits(v), DOMAIN w = ViewFields,
           w.form = v.form, w.old = v.old, w.copy = v.copy, w.accepted = v.accepted,
           w.dialogs \in Seq(DialogNames),
           Has(w.dialogs, "change") \/ Has(w.dialogs, "rollsite")
             => Has(v.dialogs, "change") \/ Has(v.dialogs, "rollsite")
    PROVE  IsView(w) /\ CopyFits(w)
BY DEF IsView, CopyFits

\* With no dialog open the copy may be anything.
LEMMA NoDialogs ==
    ASSUME NEW v, NEW w, IsView(v), SD!Top(v) = "page", DOMAIN w = ViewFields,
           DOMAIN w.form = SiteFields, w.old = v.old, DOMAIN w.copy = SiteFields,
           w.dialogs = v.dialogs
    PROVE  IsView(w) /\ CopyFits(w)
<1>1. v.dialogs \in Seq(DialogNames) /\ DOMAIN v.old = SiteFields
    BY DEF IsView
<1>2. ~Has(w.dialogs, "change") /\ ~Has(w.dialogs, "rollsite")
    BY <1>1, DialogOnTop
<1> QED BY <1>1, <1>2 DEF IsView, CopyFits

\* What the page of a site shows, whatever it is asked and answered.
LEMMA SiteViewStays ==
    ASSUME IsView(view), CopyFits(view), SD!Next
    PROVE  IsView(view') /\ CopyFits(view')
<1> DEFINE w == view'
           d == view.dialogs
<1>0. /\ d \in Seq(DialogNames)
      /\ \A e \in DialogNames : SD!Opened(d, e) \in Seq(DialogNames)
      /\ \A e \in DialogNames : \A x : Has(SD!Opened(d, e), x) => Has(d, x) \/ x = e
      /\ \A e : SD!Closed(d, e) \in Seq(DialogNames)
      /\ \A e : \A x : Has(SD!Closed(d, e), x) => Has(d, x)
    <2>1. d \in Seq(DialogNames)
        BY DEF IsView
    <2> QED BY <2>1, DialogOpens, DialogCloses
<1>1. ASSUME view' = view
      PROVE  IsView(w) /\ CopyFits(w)
    BY <1>1
<1>2. CASE SD!toEditSite \/ SD!toEditCluster
    <2>1. /\ DOMAIN w = ViewFields /\ w.form = view.form /\ w.old = view.old /\ w.copy = view.copy
          /\ w.accepted = view.accepted /\ w.dialogs = view.dialogs
        BY <1>2 DEF SD!toEditSite, SD!toEditCluster, IsView, ViewFields
    <2> QED BY <2>1, <1>0, FormUntouched
<1>3. CASE SD!cancelSite
    <2>1. /\ SD!Top(view) = "page" /\ DOMAIN w = ViewFields /\ DOMAIN w.form = SiteFields
          /\ w.old = view.old /\ w.copy = view.old /\ w.dialogs = view.dialogs
        BY <1>3 DEF SD!cancelSite, IsView, ViewFields
    <2>2. DOMAIN view.old = SiteFields
        BY DEF IsView
    <2> QED BY <2>1, <2>2, NoDialogs
<1>w. ASSUME NEW u, IsView(u), w = SD!Watched(view, u)
      PROVE  /\ DOMAIN w = ViewFields /\ w.form = u.form /\ w.old = u.old /\ w.copy = u.copy
             /\ w.accepted = u.accepted /\ w.dialogs = u.dialogs
    BY <1>w, WatchedKeeps DEF ViewFields
<1>4. ASSUME NEW f \in SD!Switches, SD!Turn(f)
      PROVE  IsView(w) /\ CopyFits(w)
    <2> DEFINE u == [view EXCEPT !.form[f] = ~@]
    <2>1. /\ DOMAIN u = ViewFields /\ DOMAIN u.form = SiteFields /\ u.old = view.old
          /\ u.copy = view.copy
          /\ u.dialogs = view.dialogs
        BY DEF IsView, ViewFields
    <2>2. w = SD!Watched(view, u) /\ SD!Top(view) = "page"
        BY <1>4 DEF SD!Turn
    <2> HIDE DEF u
    <2>3. IsView(u)
        BY <2>1 DEF IsView
    <2>4. DOMAIN view.copy = SiteFields
        BY DEF IsView
    <2> QED BY <1>w, <2>1, <2>2, <2>3, <2>4, NoDialogs
<1>5. ASSUME NEW f, NEW addresses, SD!updateIp(f, addresses)
      PROVE  IsView(w) /\ CopyFits(w)
    <2>1. /\ SD!Top(view) = "page" /\ DOMAIN w = ViewFields /\ DOMAIN w.form = SiteFields
          /\ w.old = view.old /\ w.copy = view.copy /\ w.dialogs = view.dialogs
        BY <1>5 DEF SD!updateIp, IsView, ViewFields
    <2>2. DOMAIN view.copy = SiteFields
        BY DEF IsView
    <2> QED BY <2>1, <2>2, NoDialogs
<1>6. ASSUME NEW address, SD!EnterFlow(address)
      PROVE  IsView(w) /\ CopyFits(w)
    <2> DEFINE u == [view EXCEPT !.form.fateFlowIp = address]
    <2>1. /\ DOMAIN u = ViewFields /\ DOMAIN u.form = SiteFields /\ u.old = view.old
          /\ u.copy = view.copy
          /\ u.dialogs = view.dialogs
        BY DEF IsView, ViewFields
    <2>2. w = SD!Watched(view, u) /\ SD!Top(view) = "page"
        BY <1>6 DEF SD!EnterFlow
    <2> HIDE DEF u
    <2>3. IsView(u)
        BY <2>1 DEF IsView
    <2>4. DOMAIN view.copy = SiteFields
        BY DEF IsView
    <2> QED BY <1>w, <2>1, <2>2, <2>3, <2>4, NoDialogs
<1>7. CASE SD!cancelCluster
    <2> DEFINE u == [view EXCEPT !.form.fateFlowIp = view.old.fateFlowIp,
                                 !.clusterEditSubmitted = 1, !.tosubmit = TRUE]
    <2>1. /\ DOMAIN u = ViewFields /\ DOMAIN u.form = SiteFields /\ u.old = view.old
          /\ u.copy = view.copy
          /\ u.dialogs = view.dialogs
        BY DEF IsView, ViewFields
    <2>2. w = SD!Watched(view, u) /\ SD!Top(view) = "page"
        BY <1>7 DEF SD!cancelCluster
    <2> HIDE DEF u
    <2>3. IsView(u)
        BY <2>1 DEF IsView
    <2>4. DOMAIN view.copy = SiteFields
        BY DEF IsView
    <2> QED BY <1>w, <2>1, <2>2, <2>3, <2>4, NoDialogs
<1>8. CASE SD!submitSite
    <2>1. /\ DOMAIN w = ViewFields /\ w.form = view.form /\ w.old = view.old /\ w.copy = view.form
          /\ w.dialogs = SD!Opened(d, "change")
        BY <1>8 DEF SD!submitSite, IsView, ViewFields
    <2> QED BY <2>1, <1>0 DEF IsView, CopyFits, DialogNames
<1>9. CASE SD!testrollsite
    <2>1. /\ DOMAIN w = ViewFields /\ w.form = view.form /\ w.old = view.old /\ w.copy = view.copy
          /\ w.dialogs = SD!Opened(d, "rollsite") /\ view.form.rollsite # view.old.rollsite
        BY <1>9 DEF SD!testrollsite, SD!CanSubmit, IsView, ViewFields
    <2> QED BY <2>1, <1>0 DEF IsView, CopyFits, DialogNames
<1>10. CASE SD!submitCluster
    <2>1. /\ DOMAIN w = ViewFields /\ w.form = view.form /\ w.old = view.old /\ w.copy = view.copy
          /\ w.accepted = view.accepted /\ w.dialogs = SD!Opened(d, "flow")
        BY <1>10 DEF SD!submitCluster, IsView, ViewFields
    <2> QED BY <2>1, <1>0, FormUntouched DEF DialogNames
<1>11. CASE SD!okAction
    BY <1>1, <1>11 DEF SD!okAction
<1>12. CASE SD!rollsiteOk
    <2> DEFINE c == SD!Closed(d, "rollsite")
    <2>1. /\ DOMAIN w = ViewFields /\ w.form = view.form /\ w.old = view.old /\ w.copy = view.copy
          /\ w.accepted = view.accepted /\ w.dialogs \in {c, SD!Opened(c, "change")}
          /\ SD!Top(view) = "rollsite"
        BY <1>12 DEF SD!rollsiteOk, IsView, ViewFields
    <2>2. Has(d, "rollsite")
        BY <2>1, <1>0, DialogOnTop
    <2>3. /\ c \in Seq(DialogNames) /\ SD!Opened(c, "change") \in Seq(DialogNames)
        BY <1>0, DialogOpens DEF DialogNames
    <2> HIDE DEF c
    <2> QED BY <2>1, <2>2, <2>3, FormUntouched
<1>13. CASE SD!flowOk \/ SD!notice \/ \E e \in DialogNames : SD!CloseDialog(e)
    <2>1. PICK e : /\ DOMAIN w = ViewFields /\ w.form = view.form /\ w.old = view.old
                   /\ w.copy = view.copy
                   /\ w.accepted = view.accepted /\ w.dialogs = SD!Closed(d, e)
        BY <1>13 DEF SD!flowOk, SD!notice, SD!CloseDialog, IsView, ViewFields
    <2> QED BY <2>1, <1>0, FormUntouched
<1>14. CASE SD!updateNew
    <2> DEFINE u == [view EXCEPT !.accepted = TRUE, !.dialogs = SD!Closed(@, "news"),
                        !.form = [f \in DOMAIN @ |->
                            IF f \notin DOMAIN view.news THEN @[f]
                            ELSE IF f \in SD!Switches THEN SD!toSwitch(view.news[f])
                             ELSE view.news[f]]]
    <2>1. /\ DOMAIN u = ViewFields /\ DOMAIN u.form = SiteFields /\ u.old = view.old
          /\ u.copy = view.copy
          /\ u.dialogs = SD!Closed(d, "news") /\ u.accepted = TRUE
        BY DEF IsView, ViewFields
    <2>2. w = SD!Watched(view, u)
        BY <1>14 DEF SD!updateNew
    <2> HIDE DEF u
    <2>3. IsView(u)
        BY <1>0, <2>1 DEF IsView
    <2> QED BY <1>w, <2>1, <2>2, <2>3 DEF IsView, CopyFits
<1>15. ASSUME NEW i \in DOMAIN calls, SD!InfoThen(i)
       PROVE  IsView(w) /\ CopyFits(w)
    <2> DEFINE u == SD!Loaded(view, SD!Data(i).site)
               x == SD!Watched(view, u)
    <2>1. /\ DOMAIN u = ViewFields /\ DOMAIN u.form = SiteFields /\ u.old = u.form
          /\ u.copy = u.form
          /\ u.dialogs = d
        BY DEF SD!Loaded, SD!FormOf, SiteFields, IsView, ViewFields
    <2>2. \E pending \in BOOLEAN :
            w = [x EXCEPT !.editSubmitted = IF pending THEN 3 ELSE 1, !.news = SD!Data(i).news,
                          !.dialogs = IF SD!Data(i).news = SD!NoNews THEN @
                                       ELSE SD!Opened(@, "news")]
        BY <1>15 DEF SD!InfoThen
    <2> HIDE DEF u
    <2>3. IsView(u)
        BY <1>0, <2>1 DEF IsView
    <2>4. /\ DOMAIN x = ViewFields /\ x.form = u.form /\ x.old = u.old /\ x.copy = u.copy
          /\ x.dialogs = u.dialogs
        BY <2>3, WatchedKeeps DEF ViewFields
    <2> HIDE DEF x
    <2>5. /\ DOMAIN w = ViewFields /\ w.form = x.form /\ w.old = x.old /\ w.copy = x.copy
          /\ w.dialogs \in {d, SD!Opened(d, "news")}
        BY <2>1, <2>2, <2>4 DEF ViewFields
    <2> QED BY <1>0, <2>1, <2>4, <2>5 DEF IsView, CopyFits, DialogNames
<1>16. ASSUME NEW i \in DOMAIN calls,
              \/ SD!MsgThen(i) \/ SD!ReadThen(i) \/ SD!UpdateThen(i) \/ SD!updateFateflow(i)
              \/ SD!TestThen(i) \/ SD!TestFails(i)
       PROVE  IsView(w) /\ CopyFits(w)
    <2>1. /\ DOMAIN w = ViewFields /\ w.form = view.form /\ w.old = view.old /\ w.copy = view.copy
          /\ w.accepted = view.accepted
        BY <1>16 DEF SD!MsgThen, SD!ReadThen, SD!UpdateThen, SD!updateFateflow, SD!TestThen,
                     SD!TestFails, IsView, ViewFields
    <2>2. \/ w.dialogs = d \/ w.dialogs = SD!Opened(d, "notice")
          \/ \E e : w.dialogs = SD!Closed(d, e)
        BY <1>16 DEF SD!MsgThen, SD!ReadThen, SD!UpdateThen, SD!updateFateflow, SD!TestThen,
                     SD!TestFails, IsView, ViewFields
    <2>3. /\ w.dialogs \in Seq(DialogNames)
          /\ \A x : Has(w.dialogs, x) => Has(d, x) \/ x = "notice"
        <3>1. CASE w.dialogs = d
            BY <3>1, <1>0
        <3>2. CASE w.dialogs = SD!Opened(d, "notice")
            <4>1. "notice" \in DialogNames
                BY DEF DialogNames
            <4> QED BY <3>2, <4>1, <1>0
        <3>3. ASSUME NEW e, w.dialogs = SD!Closed(d, e)
              PROVE  w.dialogs \in Seq(DialogNames) /\ \A x : Has(w.dialogs, x) => Has(d, x)
            <4>1. SD!Closed(d, e) \in Seq(DialogNames) /\ \A x : Has(SD!Closed(d, e), x)
                  => Has(d, x)
                BY <1>0
            <4> QED BY <3>3, <4>1
        <3> QED BY <2>2, <3>1, <3>2, <3>3
    <2>4. Has(w.dialogs, "change") \/ Has(w.dialogs, "rollsite")
            => Has(d, "change") \/ Has(d, "rollsite")
        BY <2>3
    <2> QED BY <2>1, <2>3, <2>4, FormUntouched
<1>17. CASE SD!PollTimer
    <2>1. /\ DOMAIN w = ViewFields /\ w.form = view.form /\ w.old = view.old /\ w.copy = view.copy
          /\ w.accepted = view.accepted /\ w.dialogs = d
        BY <1>17 DEF SD!PollTimer, IsView, ViewFields
    <2> QED BY <2>1, <1>0, FormUntouched
<1>18. CASE \E decision \in {1, 2} : SD!Decide(decision)
    BY <1>1, <1>18 DEF SD!Decide
<1>19. ASSUME NEW i \in DOMAIN calls,
              \/ SD!ServeInfo(i) \/ SD!ServeUpdate(i) \/ SD!ServeMsg(i) \/ SD!ServeRead(i)
              \/ SD!ServeTest(i) \/ SD!Fail(i) \/ SD!NoHandler(i) \/ SD!MarkedThen(i)
              \/ SD!ListsThen(i)
       PROVE  IsView(w) /\ CopyFits(w)
    BY <1>1, <1>19
       DEF SD!ServeInfo, SD!ServeUpdate, SD!ServeMsg, SD!ServeRead, SD!ServeTest, SD!Reply,
           SD!Fail,
           SD!FailsWith, SD!NoHandler, SD!Ignores, SD!MarkedThen, SD!ListsThen
<1>20. CASE SD!NetworkSection
    BY <1>20, <1>2, <1>3, <1>4, <1>5, <1>8, <1>9 DEF SD!NetworkSection
<1>21. CASE SD!ClusterSection
    BY <1>21, <1>2, <1>6, <1>7, <1>10 DEF SD!ClusterSection
<1>22. CASE SD!Dialogs \/ SD!NewsDialog
    BY <1>22, <1>11, <1>12, <1>13, <1>14 DEF SD!Dialogs, SD!NewsDialog, DialogNames
<1> QED BY <1>15, <1>16, <1>17, <1>18, <1>19, <1>20, <1>21, <1>22 DEF SD!Next

\* What the manager stores of a site stays codes: it is sent nothing else.
LEMMA SiteStoresCodes ==
    ASSUME StoresCodes(server), AreCalls(calls, SD!Requests), SD!Next
    PROVE  StoresCodes(server')
<1>1. ASSUME server' = server
      PROVE  StoresCodes(server')
    BY <1>1
<1>2. ASSUME NEW i \in DOMAIN calls, SD!ServeInfo(i)
      PROVE  StoresCodes(server')
    <2> DEFINE site == SD!Taken(server.site, server.news)
    <2>1. server' = server \/ server' = [server EXCEPT !.news = <<>>, !.site = site]
        BY <1>2 DEF SD!ServeInfo, SD!NoNews
    <2>2. DOMAIN site = SiteFields /\ Coded(site)
        <3>1. server.news \in {<<>>, [entrances |-> "news"], [secureStatus |-> 1]}
            BY DEF StoresCodes, AllNews
        <3>2. DOMAIN server.site = SiteFields /\ Coded(server.site)
            BY DEF StoresCodes
        <3>3. CASE server.news = <<>>
            BY <3>2, <3>3 DEF SD!Taken, Coded, SD!Switches, SiteFields, SD!Network
        <3>4. CASE server.news = [entrances |-> "news"]
            BY <3>2, <3>4 DEF SD!Taken, Coded, SD!Switches, SiteFields, SD!Network, SD!Texts
        <3>5. CASE server.news = [secureStatus |-> 1]
            BY <3>2, <3>5 DEF SD!Taken, Coded, SD!Switches, SiteFields, SD!Network, SD!Texts
        <3> QED BY <3>1, <3>3, <3>4, <3>5
    <2> HIDE DEF site
    <2> QED BY <2>1, <2>2 DEF StoresCodes, ServerFields, AllNews
<1>3. ASSUME NEW i \in DOMAIN calls, SD!ServeUpdate(i)
      PROVE  StoresCodes(server')
    <2> DEFINE data == calls[i].arg.data
    <2>1. calls[i].op = "update" /\ calls[i].arg.kind = "site" => Coded(data)
        BY DEF AreCalls, IsCall, SendsCodes
    <2>2. \/ server' = server
          \/ server' = [server EXCEPT !.site.fateFlowIp = data.fateFlowIp]
          \/ server' = [server EXCEPT !.site.rollsite = data.rollsite]
          \/ /\ calls[i].op = "update" /\ calls[i].arg.kind = "site"
             /\ \E r : server' = [server EXCEPT !.case = data, !.editStatus = SD!UnderReview,
                                                !.rollsiteNew = r]
        BY <1>3 DEF SD!ServeUpdate
    <2> HIDE DEF data
    <2>3. CASE server' = [server EXCEPT !.site.fateFlowIp = data.fateFlowIp]
                \/ server' = [server EXCEPT !.site.rollsite = data.rollsite]
        <3>1. PICK f \in {"fateFlowIp", "rollsite"} : \E x :
                 server' = [server EXCEPT !.site = [@ EXCEPT ![f] = x]]
            BY <2>3
        <3>0. PICK x : server' = [server EXCEPT !.site = [@ EXCEPT ![f] = x]]
            BY <3>1
        <3> DEFINE site == [server.site EXCEPT ![f] = x]
        <3>2. DOMAIN site = SiteFields /\ Coded(site)
            BY DEF StoresCodes, Coded, SD!Switches
        <3> HIDE DEF site
        <3> QED BY <3>0, <3>2 DEF StoresCodes, ServerFields, site
    <2>4. ASSUME NEW r, Coded(data),
                 server' = [server EXCEPT !.case = data, !.editStatus = SD!UnderReview,
                                           !.rollsiteNew = r]
          PROVE  StoresCodes(server')
        BY <2>4 DEF StoresCodes, ServerFields
    <2> QED BY <1>1, <2>1, <2>2, <2>3, <2>4
<1>4. ASSUME NEW i \in DOMAIN calls, SD!ServeRead(i)
      PROVE  StoresCodes(server')
    BY <1>4 DEF SD!ServeRead, StoresCodes, ServerFields
<1>5. ASSUME NEW decision \in {1, 2}, SD!Decide(decision)
      PROVE  StoresCodes(server')
    <2> DEFINE agreed == SD!Agreed(server)
    <2>1. server.editStatus = SD!UnderReview
        BY <1>5 DEF SD!Decide
    <2>2. DOMAIN agreed = SiteFields /\ Coded(agreed)
        BY <2>1 DEF StoresCodes, SD!Agreed, Coded, SD!Switches, SiteFields, SD!Network, SD!Texts
    <2>3. \E site \in {server.site, agreed} : \E r :
            server' = [server EXCEPT !.editStatus = SD!Editable, !.readStatus = decision,
                         !.case = SD!NoCase, !.site = site, !.rollsiteNew = r]
        BY <1>5 DEF SD!Decide
    <2> HIDE DEF agreed
    <2> QED BY <2>2, <2>3 DEF StoresCodes, ServerFields, SD!Editable, SD!UnderReview
<1>6. CASE SD!NetworkSection \/ SD!ClusterSection \/ SD!Dialogs \/ SD!NewsDialog \/ SD!PollTimer
    BY <1>1, <1>6
       DEF SD!NetworkSection, SD!ClusterSection, SD!Dialogs, SD!NewsDialog, SD!PollTimer,
           SD!toEditSite, SD!cancelSite, SD!submitSite, SD!testrollsite, SD!Turn, SD!updateIp,
           SD!toEditCluster, SD!cancelCluster, SD!submitCluster, SD!EnterFlow,
           SD!okAction, SD!rollsiteOk, SD!flowOk, SD!notice, SD!CloseDialog, SD!updateNew,
           SD!Click, SD!Sends
<1>7. ASSUME NEW i \in DOMAIN calls,
              \/ SD!ServeMsg(i) \/ SD!ServeTest(i)
              \/ SD!InfoThen(i) \/ SD!MarkedThen(i) \/ SD!ListsThen(i) \/ SD!MsgThen(i)
              \/ SD!ReadThen(i)
              \/ SD!UpdateThen(i) \/ SD!updateFateflow(i) \/ SD!TestThen(i) \/ SD!TestFails(i)
              \/ SD!Fail(i) \/ SD!NoHandler(i)
      PROVE  StoresCodes(server')
    BY <1>1, <1>7
       DEF SD!ServeMsg, SD!ServeTest, SD!InfoThen, SD!MarkedThen, SD!ListsThen, SD!MsgThen,
           SD!ReadThen, SD!UpdateThen, SD!updateFateflow, SD!TestThen, SD!TestFails, SD!Fail,
           SD!FailsWith, SD!NoHandler, SD!Ignores, SD!Handled
<1> QED BY <1>2, <1>3, <1>4, <1>5, <1>6, <1>7 DEF SD!Next

-----------------------------------------------------------------------------
(* What is sent with a step.                                               *)

\* The requests that SentAsEdited and OneApplication are about.
Concerns(e) ==
    \/ e.op = "update" /\ e.arg.kind = "site"
    \/ e.op = "getInstitutions" /\ e.arg = "dialog"

\* A step sends none of them.
NoneSent == \A i \in DOMAIN calls' : i > Len(calls) => ~Concerns(calls'[i])

\* What is new at the end of the queue is what was asked.
LEMMA NewAreAsked ==
    ASSUME NEW s, IsQueue(s), IsQueue(calls), Len(s) <= Len(calls),
           NEW asked, IsQueue(asked), calls' = s \o asked
    PROVE  \A i \in DOMAIN calls' : i > Len(calls) => \E k \in DOMAIN asked : calls'[i] = asked[k]
<1> SUFFICES ASSUME NEW i \in DOMAIN calls', i > Len(calls)
             PROVE  \E k \in DOMAIN asked : calls'[i] = asked[k]
    OBVIOUS
<1> DEFINE c == calls'
<1>1. /\ i \in DOMAIN s \/ (i > Len(s) /\ i - Len(s) \in DOMAIN asked)
      /\ \A k \in DOMAIN asked : c[Len(s) + k] = asked[k]
      /\ IsQueue(c)
    BY Joined
<1>2. i \in Nat /\ Len(s) \in Nat /\ Len(calls) \in Nat /\ (i \in DOMAIN s => i <= Len(s))
    BY <1>1, QueueFacts
<1>3. i - Len(s) \in DOMAIN asked /\ Len(s) + (i - Len(s)) = i
    BY <1>1, <1>2
<1> QED BY <1>1, <1>3

\* Answering or forgetting requests sends none.
LEMMA NoneNew ==
    ASSUME NEW ops, CallsInv(ops),
           \/ calls' = calls \/ calls' = <<>>
           \/ \E i \in DOMAIN calls : \E a : a.code \in Codes /\ calls' = Answered(calls, i, a)
    PROVE  NoneSent
<1>0. IsQueue(calls) /\ \A i \in DOMAIN calls : ~(i > Len(calls))
    BY QueueFacts DEF CallsInv, AreCalls
<1>1. DOMAIN calls' = DOMAIN calls \/ DOMAIN calls' = {}
    BY AnsweredCall, NoneAreCalls DEF CallsInv
<1> QED BY <1>0, <1>1 DEF NoneSent

\* Asking for what is not of concern sends none of concern.
LEMMA AsksNothing ==
    ASSUME NEW ops, CallsInv(ops), NEW asked, AreCalls(asked, ops),
           \A k \in DOMAIN asked : ~Concerns(asked[k]),
           calls' = calls \o asked \/ \E j \in DOMAIN calls : calls' = Without(calls, j) \o asked
    PROVE  NoneSent
<1>1. \A i \in DOMAIN calls' : i > Len(calls) => \E k \in DOMAIN asked : calls'[i] = asked[k]
    <2>0. IsQueue(calls) /\ IsQueue(asked) /\ Len(calls) \in Nat
        BY QueueFacts DEF CallsInv, AreCalls
    <2>1. CASE calls' = calls \o asked
        BY <2>0, <2>1, NewAreAsked
    <2>2. ASSUME NEW j \in DOMAIN calls, calls' = Without(calls, j) \o asked
          PROVE  \A i \in DOMAIN calls' : i > Len(calls)
                 => \E k \in DOMAIN asked : calls'[i] = asked[k]
        <3> DEFINE r == Without(calls, j)
        <3>1. IsQueue(r) /\ Len(r) <= Len(calls) /\ calls' = r \o asked
            BY <2>0, <2>2, Removed
        <3> HIDE DEF r
        <3> QED BY <2>0, <3>1, NewAreAsked
    <2> QED BY <2>1, <2>2
<1> QED BY <1>1 DEF NoneSent

\* A site is updated, with the button of the question, with what the form shows.
LEMMA SiteSentAsEdited ==
    ASSUME CallsInv(SD!Requests), IsView(view), CopyFits(view), SD!Next
    PROVE  \A i \in DOMAIN calls' :
              i > Len(calls) /\ calls'[i].op = "update" /\ calls'[i].arg.kind = "site"
              /\ view.form.rollsite = view.old.rollsite /\ ~view.accepted =>
                  calls'[i].arg.data = SD!DataOf(view.form)
<1> DEFINE P == \A i \in DOMAIN calls' :
              i > Len(calls) /\ calls'[i].op = "update" /\ calls'[i].arg.kind = "site"
              /\ view.form.rollsite = view.old.rollsite /\ ~view.accepted =>
                  calls'[i].arg.data = SD!DataOf(view.form)
           Harmless(asked) == AreCalls(asked, SD!Requests)
           /\ \A k \in DOMAIN asked : ~Concerns(asked[k])
<1> SUFFICES P
    OBVIOUS
<1>0. NoneSent => P
    BY DEF NoneSent, Concerns
<1>1. Harmless(<<>>)
    BY NoneAreCalls
<1>2. ASSUME NEW op \in SD!Requests, NEW arg, op # "update" \/ arg.kind \in {"flow", "rollsite"}
      PROVE  /\ Harmless(<<SD!Ask(op, arg)>>)
             /\ op # "update" => Harmless(<<SD!AskQuietly(op, arg)>>)
    <2>1. SendsCodes(op, arg) /\ op # "getInstitutions"
        BY <1>2 DEF SendsCodes, SD!Requests
    <2> DEFINE a == SD!Ask(op, arg)
               q == SD!AskQuietly(op, arg)
    <2>2. /\ IsCall(a, SD!Requests) /\ IsCall(q, SD!Requests)
          /\ a.op = op /\ a.arg = arg /\ q.op = op
        BY <2>1, SDAsks
    <2> HIDE DEF a, q
    <2>3. /\ AreCalls(<<a>>, SD!Requests) /\ DOMAIN <<a>> = {1} /\ <<a>>[1] = a
          /\ AreCalls(<<q>>, SD!Requests) /\ DOMAIN <<q>> = {1} /\ <<q>>[1] = q
        BY <2>2, OneIsCalls
    <2>4. ~Concerns(a) /\ (op # "update" => ~Concerns(q))
        BY <1>2, <2>1, <2>2 DEF Concerns
    <2>5. /\ \A k \in DOMAIN <<a>> : ~Concerns(<<a>>[k])
          /\ op # "update" => \A k \in DOMAIN <<q>> : ~Concerns(<<q>>[k])
        BY <2>3, <2>4
    <2> QED BY <2>3, <2>5 DEF a, q
<1>3. Harmless(SD!initInfo) /\ Harmless(SD!markRead)
    <2>1. ASSUME NEW arg
          PROVE  Harmless(<<SD!Ask("getSiteInfo", arg), SD!Ask("lists", "")>>)
        <3> DEFINE a == SD!Ask("getSiteInfo", arg)
                   b == SD!Ask("lists", "")
        <3>0. /\ "getSiteInfo" \in SD!Requests /\ "lists" \in SD!Requests
              /\ SendsCodes("getSiteInfo", arg) /\ SendsCodes("lists", "")
            BY DEF SD!Requests, SendsCodes
        <3>1. /\ IsCall(a, SD!Requests) /\ a.op = "getSiteInfo"
              /\ IsCall(b, SD!Requests) /\ b.op = "lists"
            BY <3>0, SDAsks
        <3> HIDE DEF a, b
        <3>2. AreCalls(<<a, b>>, SD!Requests) /\ DOMAIN <<a, b>> = {1, 2} /\ <<a, b>>[1] = a
              /\ <<a, b>>[2] = b
            BY <3>1, TwoAreCalls
        <3>3. ~Concerns(a) /\ ~Concerns(b)
            BY <3>1 DEF Concerns
        <3>4. \A k \in DOMAIN <<a, b>> : ~Concerns(<<a, b>>[k])
            BY <3>2, <3>3
        <3> QED BY <3>2, <3>4 DEF a, b
    <2> QED BY <2>1 DEF SD!initInfo, SD!markRead
<1>4. Harmless(SD!togetMsg)
    <2>1. "getmsg" \in SD!Requests
        BY DEF SD!Requests
    <2> QED BY <2>1, <1>2 DEF SD!togetMsg
\* What sends nothing of the kind.
<1>a. ASSUME NEW asked, Harmless(asked),
             SD!Click(asked) \/ SD!Sends(asked) \/ \E i \in DOMAIN calls : SD!Handled(i, asked)
      PROVE  P
    <2>1. \A i \in DOMAIN calls : SD!Without(calls, i) = Without(calls, i)
        BY DEF SD!Without, Without
    <2>2. calls' = calls \o asked \/ \E j \in DOMAIN calls : calls' = Without(calls, j) \o asked
        BY <1>a, <2>1 DEF SD!Click, SD!Sends, SD!Handled
    <2> QED BY <1>a, <2>2, <1>0, AsksNothing
<1>b. ASSUME NEW i \in DOMAIN calls, \/ \E a : a.code \in Codes /\ SD!Reply(i, a)
                                     \/ SD!Fail(i)
      PROVE  P
    <2>1. SD!Failed.code \in Codes
        BY DEF SD!Failed, Codes
    <2>2. \E a : a.code \in Codes /\ calls' = Answered(calls, i, a)
        BY <1>b, <2>1 DEF SD!Reply, SD!Fail, SD!FailsWith, Answered
    <2> QED BY <2>2, <1>0, NoneNew
<1>c. (\A d : SD!Ok(d).code \in Codes) /\ SD!Refused.code \in Codes
    BY DEF SD!Ok, SD!Refused, Codes
<1>5. CASE SD!okAction
    <2> DEFINE form == [f \in DOMAIN view.form |->
                       IF f \in SD!Switches THEN view.copy[f] ELSE view.form[f]]
               e == SD!Ask("update", SD!Update("site", form))
    <2>1. DOMAIN form = SiteFields /\ DOMAIN view.form = SiteFields
        BY DEF IsView
    <2>2. view.form.rollsite = view.old.rollsite /\ ~view.accepted
          => SD!DataOf(form) = SD!DataOf(view.form)
        <3> SUFFICES ASSUME view.form.rollsite = view.old.rollsite, ~view.accepted
                     PROVE  SD!DataOf(form) = SD!DataOf(view.form)
            OBVIOUS
        <3>1. Has(view.dialogs, "change")
            <4>1. SD!Top(view) = "change"
                BY <1>5 DEF SD!okAction
            <4> QED BY <4>1, DialogOnTop DEF IsView
        <3>2. \A f \in SD!Switches : view.copy[f] = view.form[f]
            BY <3>1 DEF CopyFits
        <3> QED BY <2>1, <3>2 DEF SD!DataOf
    <2>3. calls' = calls \o <<e>>
        BY <1>5 DEF SD!okAction, SD!Click, SD!Sends
    <2> HIDE DEF form
    <2>4. SendsCodes("update", SD!Update("site", form)) /\ "update" \in SD!Requests
        BY <2>1
           DEF SendsCodes, SD!Update, SD!DataOf, SD!toCode, Coded, SiteFields, SD!Network,
               SD!Requests
    <2>5. IsCall(e, SD!Requests) /\ e.arg = SD!Update("site", form)
        BY <2>4, SDAsks
    <2>6. e.arg.data = SD!DataOf(form)
        BY <2>5 DEF SD!Update
    <2> HIDE DEF e
    <2>7. AreCalls(<<e>>, SD!Requests) /\ DOMAIN <<e>> = {1} /\ <<e>>[1] = e
        BY <2>5, OneIsCalls
    <2>8. \A i \in DOMAIN calls' : i > Len(calls) => calls'[i] = e
        <3>1. IsQueue(calls) /\ IsQueue(<<e>>) /\ Len(calls) <= Len(calls)
            BY <2>7, QueueFacts DEF CallsInv, AreCalls
        <3>2. \A i \in DOMAIN calls' : i > Len(calls)
              => \E k \in DOMAIN <<e>> : calls'[i] = <<e>>[k]
            BY <2>3, <3>1, NewAreAsked
        <3> QED BY <2>7, <3>2
    <2> QED BY <2>2, <2>6, <2>8
<1> HIDE DEF P, Harmless
<1>d. \A asked : Harmless(asked) => /\ SD!Click(asked) => P
                                    /\ SD!Sends(asked) => P
                                    /\ \A i \in DOMAIN calls : SD!Handled(i, asked) => P
    BY <1>a
<1>e. /\ \A op \in SD!Requests : \A arg : op # "update" =>
            Harmless(<<SD!Ask(op, arg)>>) /\ Harmless(<<SD!AskQuietly(op, arg)>>)
      /\ \A arg : arg.kind \in {"flow", "rollsite"} => Harmless(<<SD!Ask("update", arg)>>)
    BY <1>2 DEF SD!Requests
<1>f. \A form : /\ Harmless(<<SD!Ask("update", SD!Update("flow", form))>>)
                /\ Harmless(<<SD!Ask("update", SD!Update("rollsite", form))>>)
    <2>1. \A form : SD!Update("flow", form).kind = "flow"
          /\ SD!Update("rollsite", form).kind = "rollsite"
        BY DEF SD!Update
    <2> QED BY <2>1, <1>e
<1>6. CASE SD!NetworkSection
    BY <1>6, <1>1, <1>e, <1>d
       DEF SD!NetworkSection, SD!toEditSite, SD!cancelSite, SD!submitSite, SD!testrollsite,
           SD!Turn,
           SD!updateIp, SD!Requests
<1>7. CASE SD!ClusterSection
    BY <1>7, <1>1, <1>f, <1>d
       DEF SD!ClusterSection, SD!toEditCluster, SD!cancelCluster, SD!submitCluster, SD!EnterFlow
<1>8. CASE SD!Dialogs
    <2>2. CASE SD!Dialogs /\ ~SD!okAction
        BY <2>2, <1>1, <1>e, <1>f, <1>3, <1>d
           DEF SD!Dialogs, SD!rollsiteOk, SD!flowOk, SD!notice, SD!CloseDialog, SD!Requests
    <2> QED BY <1>5, <1>8, <2>2 DEF P
<1>9. CASE SD!NewsDialog \/ SD!PollTimer
    BY <1>9, <1>1, <1>3, <1>4, <1>d DEF SD!NewsDialog, SD!updateNew, SD!CloseDialog, SD!PollTimer
<1>10. CASE \E decision \in {1, 2} : SD!Decide(decision)
    <2>1. calls' = calls
        BY <1>10 DEF SD!Decide
    <2> QED BY <2>1, <1>0, NoneNew DEF P
<1>11. ASSUME NEW i \in DOMAIN calls,
              \/ SD!ServeInfo(i) \/ SD!ServeUpdate(i) \/ SD!ServeMsg(i) \/ SD!ServeRead(i)
              \/ SD!ServeTest(i) \/ SD!Fail(i)
       PROVE  P
    BY <1>11, <1>b, <1>c DEF SD!ServeInfo, SD!ServeUpdate, SD!ServeMsg, SD!ServeRead, SD!ServeTest
<1>12. ASSUME NEW i \in DOMAIN calls,
              \/ SD!InfoThen(i) \/ SD!MarkedThen(i) \/ SD!ListsThen(i) \/ SD!MsgThen(i)
              \/ SD!ReadThen(i)
              \/ SD!UpdateThen(i) \/ SD!updateFateflow(i) \/ SD!TestThen(i) \/ SD!TestFails(i)
              \/ SD!NoHandler(i)
       PROVE  P
    BY <1>12, <1>1, <1>3, <1>4, <1>d
       DEF SD!InfoThen, SD!MarkedThen, SD!ListsThen, SD!MsgThen, SD!ReadThen, SD!UpdateThen,
           SD!updateFateflow, SD!TestThen, SD!TestFails, SD!NoHandler, SD!Ignores
<1>13. P
    BY <1>6, <1>7, <1>8, <1>9, <1>10, <1>11, <1>12 DEF SD!Next
<1> QED BY <1>13 DEF P

-----------------------------------------------------------------------------
(* The page of the sites knows of an application.                          *)

\* Others are put behind what is under way.
LEMMA Appended ==
    ASSUME NEW s, IsQueue(s), NEW t, IsQueue(t)
    PROVE  /\ IsQueue(s \o t)
           /\ \A k \in DOMAIN s : k \in DOMAIN (s \o t) /\ (s \o t)[k] = s[k]
           /\ \A k \in DOMAIN t : Len(s) + k \in DOMAIN (s \o t) /\ (s \o t)[Len(s) + k] = t[k]
           /\ \A k \in DOMAIN (s \o t) :
                k \in DOMAIN s
                \/ (k > Len(s) /\ k - Len(s) \in DOMAIN t /\ (s \o t)[k] = t[k - Len(s)])
<1> DEFINE u == s \o t
<1>1. /\ IsQueue(u)
      /\ \A k \in DOMAIN s : k \in DOMAIN u /\ u[k] = s[k]
      /\ \A k \in DOMAIN t : Len(s) + k \in DOMAIN u /\ u[Len(s) + k] = t[k]
      /\ \A k \in DOMAIN u : k \in DOMAIN s \/ (k > Len(s) /\ k - Len(s) \in DOMAIN t)
    BY Joined
<1> HIDE DEF u
<1>2. \A k \in DOMAIN u : Len(s) + (k - Len(s)) = k
    <2>1. Len(s) \in Nat /\ \A k \in DOMAIN u : k \in Nat
        BY <1>1, QueueFacts
    <2> QED BY <2>1
<1>3. \A k \in DOMAIN u :
        k \in DOMAIN s \/ (k > Len(s) /\ k - Len(s) \in DOMAIN t /\ u[k] = t[k - Len(s)])
    BY <1>1, <1>2
<1> QED BY <1>1, <1>3 DEF u

\* u is s without its i-th request and with those of t behind it.
IsShifted(s, i, t, u) ==
    /\ IsQueue(u)
    /\ \A k \in DOMAIN s : k < i => k \in DOMAIN u /\ u[k] = s[k]
    /\ \A k \in DOMAIN s : k > i => k - 1 \in DOMAIN u /\ u[k - 1] = s[k]
    /\ \A k \in DOMAIN t : Len(s) - 1 + k \in DOMAIN u /\ u[Len(s) - 1 + k] = t[k]
    /\ \A k \in DOMAIN u : \/ k < i /\ k \in DOMAIN s
                           \/ k >= i /\ k + 1 \in DOMAIN s
                           \/ k > Len(s) - 1 /\ k - (Len(s) - 1) \in DOMAIN t

\* A request leaves the queue and others are put behind it.
LEMMA Shifted ==
    ASSUME NEW s, IsQueue(s), NEW i \in DOMAIN s, NEW t, IsQueue(t),
           NEW u, u = Without(s, i) \o t
    PROVE  IsShifted(s, i, t, u)
<1> DEFINE r == Without(s, i)
<1>1. /\ IsQueue(r) /\ Len(r) = Len(s) - 1
      /\ \A k \in DOMAIN s : k < i => k \in DOMAIN r /\ r[k] = s[k]
      /\ \A k \in DOMAIN s : k > i => k - 1 \in DOMAIN r /\ r[k - 1] = s[k]
      /\ \A k \in DOMAIN r : IF k < i THEN k \in DOMAIN s ELSE k + 1 \in DOMAIN s /\ k + 1 > i
    BY Removed
<1>0. u = r \o t
    OBVIOUS
<1> HIDE DEF r
<1>2. /\ IsQueue(u)
      /\ \A k \in DOMAIN r : k \in DOMAIN u /\ u[k] = r[k]
      /\ \A k \in DOMAIN t : Len(r) + k \in DOMAIN u /\ u[Len(r) + k] = t[k]
      /\ \A k \in DOMAIN u : k \in DOMAIN r \/ (k > Len(r) /\ k - Len(r) \in DOMAIN t)
    <2>1. IsQueue(r)
        BY <1>1
    <2>2. /\ IsQueue(r \o t)
          /\ \A k \in DOMAIN r : k \in DOMAIN (r \o t) /\ (r \o t)[k] = r[k]
          /\ \A k \in DOMAIN t : Len(r) + k \in DOMAIN (r \o t) /\ (r \o t)[Len(r) + k] = t[k]
        <3>1. IsQueue(r \o t)
            BY <2>1, Joined
        <3>2. \A k \in DOMAIN r : k \in DOMAIN (r \o t) /\ (r \o t)[k] = r[k]
            BY <2>1, Joined
        <3>3. \A k \in DOMAIN t : Len(r) + k \in DOMAIN (r \o t) /\ (r \o t)[Len(r) + k] = t[k]
            BY <2>1, Joined
        <3> QED BY <3>1, <3>2, <3>3
    <2>3. \A k \in DOMAIN (r \o t) : k \in DOMAIN r \/ (k > Len(r) /\ k - Len(r) \in DOMAIN t)
        BY <2>1, Joined
    <2> QED BY <1>0, <2>2, <2>3
<1>3. i \in Nat /\ \A k \in DOMAIN u : k \in Nat
    BY <1>2, QueueFacts
<1>4. \A k \in DOMAIN u : ~(k < i) => k >= i
    BY <1>3
<1>5. \A k \in DOMAIN u : \/ k < i /\ k \in DOMAIN s
                          \/ k >= i /\ k + 1 \in DOMAIN s
                          \/ k > Len(s) - 1 /\ k - (Len(s) - 1) \in DOMAIN t
    BY <1>1, <1>2, <1>4
<1>6. /\ \A k \in DOMAIN s : k < i => k \in DOMAIN u /\ u[k] = s[k]
      /\ \A k \in DOMAIN s : k > i => k - 1 \in DOMAIN u /\ u[k - 1] = s[k]
    BY <1>1, <1>2
<1>7. \A k \in DOMAIN t : Len(s) - 1 + k \in DOMAIN u /\ u[Len(s) - 1 + k] = t[k]
    BY <1>1, <1>2
<1> QED BY <1>2, <1>5, <1>6, <1>7 DEF IsShifted

\* A request leaves the queue and nothing comes in its place.
LEMMA Dropped ==
    ASSUME NEW s, IsQueue(s), NEW i \in DOMAIN s
    PROVE  LET u == Without(s, i) \o <<>> IN
           /\ IsQueue(u)
           /\ \A k \in DOMAIN s : k < i => k \in DOMAIN u /\ u[k] = s[k]
           /\ \A k \in DOMAIN s : k > i => k - 1 \in DOMAIN u /\ u[k - 1] = s[k]
           /\ \A k \in DOMAIN u : (k < i /\ k \in DOMAIN s) \/ (k >= i /\ k + 1 \in DOMAIN s)
<1> DEFINE t == <<>>
           u == Without(s, i) \o t
<1>1. IsQueue(t) /\ DOMAIN t = {}
    BY NoneAreCalls DEF AreCalls
<1>0. u = Without(s, i) \o t
    OBVIOUS
<1> HIDE DEF t, u
<1>2. IsShifted(s, i, t, u)
    BY <1>0, <1>1, Shifted
<1>3. IsQueue(u) /\ \A k \in DOMAIN s : k < i => k \in DOMAIN u /\ u[k] = s[k]
    BY <1>2 DEF IsShifted
<1>4. \A k \in DOMAIN s : k > i => k - 1 \in DOMAIN u /\ u[k - 1] = s[k]
    BY <1>2 DEF IsShifted
<1>5. \A k \in DOMAIN u : (k < i /\ k \in DOMAIN s) \/ (k >= i /\ k + 1 \in DOMAIN s)
    BY <1>1, <1>2 DEF IsShifted
<1> QED BY <1>3, <1>4, <1>5 DEF t, u

\* What the page of the sites keeps.
SitesFields ==
    {"joined", "applyStatus", "showapplyBtn", "dialogs", "checkboxList", "checkList", "applyed",
     "siteHistoryList", "link", "disabledbtn", "warnActive", "changed"}

\* Nothing failed, and what is of a kind was answered in order.
Clean == mishaps \cap {"failed", "crossed"} = {}

\* Questions of the state of the applications, and what says that none waits.
IsQuestion(e) == e.op = "queryapply"
SaysNone(e) == IsQuestion(e) /\ e.answer.code = "ok" /\ e.answer.data = {}

\* Requests as they are sent: nobody has answered them.
Fresh(asked) ==
    AreCalls(asked, MS!Requests) /\ \A k \in DOMAIN asked : asked[k].answer.code = "waiting"

\* While an application waits, a page that does not show it is about to be told.
WillKnow(status, s) ==
    /\ status = 3 => \E k \in DOMAIN s : IsQuestion(s[k])
    /\ \A k \in DOMAIN s : SaysNone(s[k]) => \E l \in DOMAIN s : l > k /\ IsQuestion(s[l])

\* An application waits that the page knows of or has to learn of.
Waits ==
    /\ MS!Pending(server) # {} /\ "left" \notin view.dialogs
    /\ \A k \in DOMAIN calls : calls[k].op # "applysite"

\* With nothing failed or overtaken, what is answered is answered well, and a
\* page that does not know of a waiting application will.
SitesInv ==
    /\ DOMAIN view = SitesFields
    /\ DOMAIN server = {"status", "notices"} /\ DOMAIN server.status = Others
    /\ Clean => /\ \A k \in DOMAIN calls : calls[k].answer.code \in {"waiting", "ok"}
                /\ Waits => WillKnow(view.applyStatus, calls)

\* More requests are sent.
LEMMA KnowsSent ==
    ASSUME CallsInv(MS!Requests), SitesInv, NEW asked, Fresh(asked), calls' = calls \o asked,
           DOMAIN view' = SitesFields, server' = server, Clean' => Clean,
           "left" \in view.dialogs => "left" \in view'.dialogs,
           view'.applyStatus = view.applyStatus
    PROVE  SitesInv'
<1> DEFINE c == calls'
<1>0. IsQueue(calls) /\ IsQueue(asked)
    BY DEF CallsInv, Fresh, AreCalls
<1>1. /\ \A k \in DOMAIN calls : k \in DOMAIN c /\ c[k] = calls[k]
      /\ \A k \in DOMAIN c : k \in DOMAIN calls \/ \E j \in DOMAIN asked : c[k] = asked[j]
    <2> DEFINE u == calls \o asked
    <2>1. /\ \A k \in DOMAIN calls : k \in DOMAIN u /\ u[k] = calls[k]
          /\ \A k \in DOMAIN u :
                k \in DOMAIN calls
                \/ (k - Len(calls) \in DOMAIN asked /\ u[k] = asked[k - Len(calls)])
        BY <1>0, Appended
    <2>2. c = u
        OBVIOUS
    <2> HIDE DEF c, u
    <2> QED BY <2>1, <2>2
<1>3. \A k \in DOMAIN c : k \in DOMAIN calls \/ c[k].answer.code = "waiting"
    BY <1>1 DEF Fresh
<1>4. MS!Pending(server') = MS!Pending(server)
    BY DEF MS!Pending
<1>5. Clean' => \A k \in DOMAIN c : c[k].answer.code \in {"waiting", "ok"}
    BY <1>1, <1>3 DEF SitesInv
<1>6. ASSUME Clean', Waits'
      PROVE  WillKnow(view'.applyStatus, c)
    <2>1. WillKnow(view.applyStatus, calls)
        BY <1>1, <1>4, <1>6 DEF SitesInv, Waits
    <2> HIDE DEF c
    <2>2. view'.applyStatus = 3 => \E k \in DOMAIN c : IsQuestion(c[k])
        BY <2>1, <1>1 DEF WillKnow
    <2>3. ASSUME NEW k \in DOMAIN c, SaysNone(c[k])
          PROVE  \E l \in DOMAIN c : l > k /\ IsQuestion(c[l])
        <3>1. k \in DOMAIN calls /\ SaysNone(calls[k])
            BY <2>3, <1>1, <1>3 DEF SaysNone
        <3>2. PICK l \in DOMAIN calls : l > k /\ IsQuestion(calls[l])
            BY <2>1, <3>1 DEF WillKnow
        <3> QED BY <3>2, <1>1
    <2> QED BY <2>2, <2>3 DEF WillKnow
<1> QED BY <1>5, <1>6 DEF SitesInv

\* The handler of a request that is neither a question nor an application.
LEMMA KnowsHandled ==
    ASSUME CallsInv(MS!Requests), SitesInv, NEW i \in DOMAIN calls,
           calls' = Without(calls, i) \o <<>>,
           calls[i].op \notin {"queryapply", "applysite"},
           DOMAIN view' = SitesFields, server' = server, Clean' => Clean,
           "left" \in view.dialogs => "left" \in view'.dialogs,
           view'.applyStatus = view.applyStatus
    PROVE  SitesInv'
<1> DEFINE c == calls'
<1>0. IsQueue(calls) /\ IsQueue(<<>>) /\ DOMAIN <<>> = {}
    BY NoneAreCalls DEF CallsInv, AreCalls
<1>1. /\ IsQueue(c)
      /\ \A k \in DOMAIN calls : k < i => k \in DOMAIN c /\ c[k] = calls[k]
      /\ \A k \in DOMAIN calls : k > i => k - 1 \in DOMAIN c /\ c[k - 1] = calls[k]
      /\ \A k \in DOMAIN c : (k < i /\ k \in DOMAIN calls) \/ (k >= i /\ k + 1 \in DOMAIN calls)
    <2> DEFINE u == Without(calls, i) \o <<>>
    <2>1. /\ IsQueue(u)
          /\ \A k \in DOMAIN calls : k < i => k \in DOMAIN u /\ u[k] = calls[k]
          /\ \A k \in DOMAIN calls : k > i => k - 1 \in DOMAIN u /\ u[k - 1] = calls[k]
          /\ \A k \in DOMAIN u : (k < i /\ k \in DOMAIN calls)
             \/ (k >= i /\ k + 1 \in DOMAIN calls)
        BY <1>0, Dropped
    <2>2. c = u
        OBVIOUS
    <2> HIDE DEF c, u
    <2> QED BY <2>1, <2>2
<1>2. i \in Nat /\ (\A k \in DOMAIN c : k \in Nat) /\ (\A k \in DOMAIN calls : k \in Nat)
    BY <1>0, <1>1, QueueFacts
\* Every request but the one handled is where it was, or one place further on.
<1>3. ASSUME NEW k \in DOMAIN c
      PROVE  \E j \in DOMAIN calls : /\ c[k] = calls[j] /\ j # i
                                     /\ j = IF k < i THEN k ELSE k + 1
    <2>1. CASE k < i
        BY <1>1, <1>2, <2>1
    <2>2. CASE ~(k < i)
        <3>1. k + 1 \in DOMAIN calls /\ k + 1 > i /\ (k + 1) - 1 = k
            BY <1>1, <1>2, <2>2
        <3>2. c[k] = calls[k + 1] /\ k + 1 # i
            BY <1>1, <1>2, <3>1
        <3> QED BY <2>2, <3>1, <3>2
    <2> QED BY <2>1, <2>2
<1>4. ASSUME NEW j \in DOMAIN calls, j # i
      PROVE  \E k \in DOMAIN c : c[k] = calls[j] /\ k = IF j < i THEN j ELSE j - 1
    BY <1>1, <1>2, <1>4
<1>5. MS!Pending(server') = MS!Pending(server)
    BY DEF MS!Pending
<1>6. Clean' => \A k \in DOMAIN c : c[k].answer.code \in {"waiting", "ok"}
    BY <1>3 DEF SitesInv
<1>7. ASSUME Clean', Waits'
      PROVE  WillKnow(view'.applyStatus, c)
    <2>1. \A j \in DOMAIN calls : calls[j].op # "applysite"
        <3> SUFFICES ASSUME NEW j \in DOMAIN calls, j # i PROVE calls[j].op # "applysite"
            OBVIOUS
        <3>1. \E k \in DOMAIN c : c[k] = calls[j]
            BY <1>4
        <3> QED BY <3>1, <1>7 DEF Waits
    <2>2. WillKnow(view.applyStatus, calls)
        BY <2>1, <1>5, <1>7 DEF SitesInv, Waits
    <2>3. view'.applyStatus = 3 => \E k \in DOMAIN c : IsQuestion(c[k])
        <3> SUFFICES ASSUME view.applyStatus = 3 PROVE \E k \in DOMAIN c : IsQuestion(c[k])
            OBVIOUS
        <3>1. PICK j \in DOMAIN calls : IsQuestion(calls[j])
            BY <2>2 DEF WillKnow
        <3>2. j # i
            BY <3>1 DEF IsQuestion
        <3> QED BY <3>1, <3>2, <1>4
    <2>4. ASSUME NEW k \in DOMAIN c, SaysNone(c[k])
          PROVE  \E l \in DOMAIN c : l > k /\ IsQuestion(c[l])
        <3>1. PICK j \in DOMAIN calls : c[k] = calls[j] /\ j = IF k < i THEN k ELSE k + 1
            BY <1>3
        <3>2. PICK m \in DOMAIN calls : m > j /\ IsQuestion(calls[m])
            BY <2>2, <2>4, <3>1 DEF WillKnow
        <3>3. m # i
            BY <3>2 DEF IsQuestion
        <3>4. PICK l \in DOMAIN c : c[l] = calls[m] /\ l = IF m < i THEN m ELSE m - 1
            BY <3>3, <1>4
        <3>5. l > k
            BY <3>1, <3>2, <3>3, <3>4, <1>2
        <3> QED BY <3>2, <3>4, <3>5
    <2> QED BY <2>3, <2>4 DEF WillKnow
<1> QED BY <1>6, <1>7 DEF SitesInv

\* What the page asks when it is entered or changed something.
LEMMA ListAgain == Fresh(MS!getList) /\ DOMAIN MS!getList = {1, 2} /\ IsQuestion(MS!getList[2])
<1> DEFINE a == MS!Ask("sites", "")
           b == MS!Ask("queryapply", "")
           t == MS!getList
<1>1. /\ "sites" \in MS!Requests /\ "queryapply" \in MS!Requests
      /\ SendsCodes("sites", "") /\ SendsCodes("queryapply", "")
    BY DEF MS!Requests, SendsCodes
<1>2. IsCall(a, MS!Requests) /\ a.answer.code = "waiting"
    <2>1. IsCall(a, MS!Requests)
        BY <1>1, MSAsks
    <2> QED BY <2>1 DEF MS!Ask, MS!Call, MS!Waiting
<1>3. IsCall(b, MS!Requests) /\ b.answer.code = "waiting" /\ b.op = "queryapply"
    <2>1. IsCall(b, MS!Requests)
        BY <1>1, MSAsks
    <2> QED BY <2>1 DEF MS!Ask, MS!Call, MS!Waiting
<1>4. t = <<a, b>>
    BY DEF MS!getList
<1> HIDE DEF a, b
<1>5. /\ AreCalls(<<a, b>>, MS!Requests) /\ DOMAIN <<a, b>> = {1, 2}
      /\ <<a, b>>[1] = a /\ <<a, b>>[2] = b
    BY <1>2, <1>3, TwoAreCalls
<1> HIDE DEF t
<1>7. Fresh(t) /\ DOMAIN t = {1, 2} /\ IsQuestion(t[2])
    BY <1>2, <1>3, <1>4, <1>5 DEF Fresh, IsQuestion
<1> QED BY <1>7 DEF t

\* The page asks for everything again.
LEMMA KnowsAsked ==
    ASSUME CallsInv(MS!Requests), SitesInv, NEW i \in DOMAIN calls,
           calls' = Without(calls, i) \o MS!getList,
           DOMAIN view' = SitesFields, server' = server, Clean' => Clean
    PROVE  SitesInv'
<1> DEFINE c == calls'
           t == MS!getList
           n == Len(calls)
<1>1. Fresh(t) /\ DOMAIN t = {1, 2} /\ IsQuestion(t[2])
    BY ListAgain
<1>2. IsQueue(calls) /\ IsQueue(t) /\ n \in Nat /\ \A k \in DOMAIN calls : k \in 1 .. n
    BY <1>1, QueueFacts DEF CallsInv, Fresh, AreCalls
<1>3. /\ IsQueue(c)
      /\ \A k \in DOMAIN calls : k < i => c[k] = calls[k]
      /\ \A k \in DOMAIN calls : k > i => c[k - 1] = calls[k]
      /\ \A k \in DOMAIN t : n - 1 + k \in DOMAIN c /\ c[n - 1 + k] = t[k]
      /\ \A k \in DOMAIN c : \/ k < i /\ k \in DOMAIN calls
                             \/ k >= i /\ k + 1 \in DOMAIN calls
                             \/ k > n - 1 /\ k - (n - 1) \in DOMAIN t
    <2>1. IsShifted(calls, i, t, c)
        BY <1>2, Shifted
    <2> HIDE DEF c, t
    <2> QED BY <2>1 DEF IsShifted
<1>4. i \in Nat /\ \A k \in DOMAIN c : k \in Nat
    BY <1>2, <1>3, QueueFacts
<1> HIDE DEF c, t, n
\* The question is the last in the queue.
<1>5. n + 1 \in DOMAIN c /\ c[n + 1] = t[2]
    <2>1. 2 \in DOMAIN t /\ n - 1 + 2 = n + 1
        BY <1>1, <1>2
    <2> QED BY <2>1, <1>3
<1>6. ASSUME NEW k \in DOMAIN c
      PROVE  \/ c[k].answer.code = "waiting"
             \/ \E j \in DOMAIN calls : c[k] = calls[j] /\ k < n + 1
    <2>1. CASE k < i /\ k \in DOMAIN calls
        <3>1. c[k] = calls[k] /\ k < n + 1
            BY <1>2, <1>3, <2>1
        <3> QED BY <3>1, <2>1
    <2>2. CASE k >= i /\ k + 1 \in DOMAIN calls
        <3>1. k + 1 > i /\ (k + 1) - 1 = k /\ k < n + 1
            BY <1>2, <1>4, <2>2
        <3>2. c[k] = calls[k + 1]
            BY <1>3, <2>2, <3>1
        <3> QED BY <2>2, <3>1, <3>2
    <2>3. CASE k > n - 1 /\ k - (n - 1) \in DOMAIN t
        <3>1. n - 1 + (k - (n - 1)) = k
            BY <1>2, <1>4
        <3>2. c[k] = t[k - (n - 1)]
            BY <1>3, <2>3, <3>1
        <3> QED BY <1>1, <2>3, <3>2 DEF Fresh
    <2> QED BY <1>3, <2>1, <2>2, <2>3
<1>7. Clean' => \A k \in DOMAIN c : c[k].answer.code \in {"waiting", "ok"}
    BY <1>6 DEF SitesInv
<1>8. ASSUME NEW status
      PROVE  WillKnow(status, c)
    <2>1. IsQuestion(c[n + 1]) /\ n + 1 \in DOMAIN c
        BY <1>1, <1>5
    <2>2. ASSUME NEW k \in DOMAIN c, SaysNone(c[k])
          PROVE  \E l \in DOMAIN c : l > k /\ IsQuestion(c[l])
        <3>1. k < n + 1
            BY <1>6, <2>2 DEF SaysNone
        <3>2. n + 1 > k
            BY <1>2, <1>4, <3>1
        <3> QED BY <2>1, <3>2
    <2> QED BY <2>1, <2>2 DEF WillKnow
<1>9. WillKnow(view'.applyStatus, calls')
    BY <1>8 DEF c
<1>10. Clean' => \A k \in DOMAIN calls' : calls'[k].answer.code \in {"waiting", "ok"}
    BY <1>7 DEF c
<1> QED BY <1>9, <1>10 DEF SitesInv

\* Whatever the page asks is asked afresh.
LEMMA FreshAsked ==
    /\ Fresh(<<>>) /\ Fresh(MS!getList)
    /\ \A op \in MS!Requests : \A arg : Fresh(<<MS!Ask(op, arg)>>)
       /\ Fresh(<<MS!AskQuietly(op, arg)>>)
<1>1. Fresh(<<>>)
    BY NoneAreCalls DEF Fresh
<1>2. ASSUME NEW op \in MS!Requests, NEW arg
      PROVE  Fresh(<<MS!Ask(op, arg)>>) /\ Fresh(<<MS!AskQuietly(op, arg)>>)
    <2> DEFINE a == MS!Ask(op, arg)
               q == MS!AskQuietly(op, arg)
    <2>1. SendsCodes(op, arg)
        BY DEF SendsCodes, MS!Requests
    <2>2. IsCall(a, MS!Requests) /\ IsCall(q, MS!Requests)
        BY <2>1, MSAsks
    <2>3. a.answer.code = "waiting" /\ q.answer.code = "waiting"
        BY DEF MS!Ask, MS!AskQuietly, MS!Call, MS!Waiting
    <2> HIDE DEF a, q
    <2>4. /\ AreCalls(<<a>>, MS!Requests) /\ DOMAIN <<a>> = {1} /\ <<a>>[1] = a
          /\ AreCalls(<<q>>, MS!Requests) /\ DOMAIN <<q>> = {1} /\ <<q>>[1] = q
        BY <2>2, OneIsCalls
    <2>5. Fresh(<<a>>) /\ Fresh(<<q>>)
        BY <2>3, <2>4 DEF Fresh
    <2> QED BY <2>5 DEF a, q
<1> QED BY <1>1, <1>2, ListAgain

\* The answer about the applications comes.  Unless it overtook an older one,
\* what comes after it asks again when it says that none waits.
LEMMA KnowsState ==
    ASSUME CallsInv(MS!Requests), SitesInv, NEW i \in DOMAIN calls, MS!StateThen(i)
    PROVE  SitesInv'
<1> DEFINE c == calls'
           v == view'.applyStatus
<1>0. IsQueue(calls) /\ IsQueue(<<>>) /\ DOMAIN <<>> = {}
    BY NoneAreCalls DEF CallsInv, AreCalls
<1>1. /\ IsQueue(c)
      /\ \A k \in DOMAIN calls : k < i => k \in DOMAIN c /\ c[k] = calls[k]
      /\ \A k \in DOMAIN calls : k > i => k - 1 \in DOMAIN c /\ c[k - 1] = calls[k]
      /\ \A k \in DOMAIN c : (k < i /\ k \in DOMAIN calls) \/ (k >= i /\ k + 1 \in DOMAIN calls)
    <2> DEFINE u == Without(calls, i) \o <<>>
    <2>1. /\ IsQueue(u)
          /\ \A k \in DOMAIN calls : k < i => k \in DOMAIN u /\ u[k] = calls[k]
          /\ \A k \in DOMAIN calls : k > i => k - 1 \in DOMAIN u /\ u[k - 1] = calls[k]
          /\ \A k \in DOMAIN u : (k < i /\ k \in DOMAIN calls)
             \/ (k >= i /\ k + 1 \in DOMAIN calls)
        BY <1>0, Dropped
    <2>2. MS!Without(calls, i) = Without(calls, i)
        BY DEF MS!Without, Without
    <2>3. c = u
        BY <2>2 DEF MS!StateThen, MS!Handled
    <2> HIDE DEF c, u
    <2> QED BY <2>1, <2>3
<1>2. /\ i \in Nat /\ DOMAIN calls = 1 .. Len(calls) /\ Len(calls) \in Nat
      /\ (\A k \in DOMAIN c : k \in Nat) /\ (\A k \in DOMAIN calls : k \in Nat)
    BY <1>0, <1>1, QueueFacts
<1>3. /\ IsQuestion(calls[i]) /\ calls[i].answer.code = "ok"
      /\ server' = server /\ view'.dialogs = view.dialogs /\ DOMAIN view' = SitesFields
      /\ v = IF calls[i].answer.data # {} THEN 1 ELSE 3
      /\ mishaps \subseteq mishaps' /\ MS!Crosses(i) \subseteq mishaps'
    BY DEF MS!StateThen, MS!Got, MS!Data, MS!Handled, IsQuestion, SitesInv, SitesFields
\* It is the oldest question.
<1>4. Clean' => Clean /\ \A k \in DOMAIN calls : IsQuestion(calls[k]) => k >= i
    <2> SUFFICES ASSUME Clean', NEW k \in DOMAIN calls, IsQuestion(calls[k]), k < i
                 PROVE  FALSE
        BY <1>2, <1>3 DEF Clean
    <2>1. calls[k].part = 0 /\ calls[i].part = 0 /\ calls[k].op = calls[i].op /\ k \in 1 .. i - 1
        BY <1>2, <1>3 DEF CallsInv, AreCalls, IsCall, IsQuestion
    <2>2. "crossed" \in MS!Crosses(i)
        BY <2>1 DEF MS!Crosses
    <2> QED BY <2>2, <1>3 DEF Clean
<1>5. ASSUME NEW k \in DOMAIN c
      PROVE  \E j \in DOMAIN calls : c[k] = calls[j] /\ j = IF k < i THEN k ELSE k + 1
    <2>1. CASE k < i
        BY <1>1, <1>2, <2>1
    <2>2. CASE ~(k < i)
        <3>1. k + 1 \in DOMAIN calls /\ k + 1 > i /\ (k + 1) - 1 = k
            BY <1>1, <1>2, <2>2
        <3>2. c[k] = calls[k + 1]
            BY <1>1, <1>2, <3>1
        <3> QED BY <2>2, <3>1, <3>2
    <2> QED BY <2>1, <2>2
<1>6. MS!Pending(server') = MS!Pending(server)
    BY <1>3 DEF MS!Pending
<1>7. Clean' => \A k \in DOMAIN c : c[k].answer.code \in {"waiting", "ok"}
    BY <1>4, <1>5 DEF SitesInv
<1>8. ASSUME Clean', Waits'
      PROVE  WillKnow(v, c)
    <2>1. \A j \in DOMAIN calls : calls[j].op # "applysite"
        <3> SUFFICES ASSUME NEW j \in DOMAIN calls, j # i PROVE calls[j].op # "applysite"
            BY <1>3 DEF IsQuestion
        <3>1. \E k \in DOMAIN c : c[k] = calls[j]
            BY <1>1, <1>2
        <3> QED BY <3>1, <1>8 DEF Waits
    <2>2. WillKnow(view.applyStatus, calls)
        BY <2>1, <1>3, <1>4, <1>6, <1>8 DEF SitesInv, Waits
    <2>3. ASSUME NEW j \in DOMAIN calls, j >= i, SaysNone(calls[j])
          PROVE  \E l \in DOMAIN c : l + 1 > j /\ IsQuestion(c[l])
        <3>1. PICK m \in DOMAIN calls : m > j /\ IsQuestion(calls[m])
            BY <2>2, <2>3 DEF WillKnow
        <3>2. m > i /\ (m - 1) + 1 > j
            BY <1>2, <2>3, <3>1
        <3> QED BY <3>1, <3>2, <1>1
    <2>4. v = 3 => \E k \in DOMAIN c : IsQuestion(c[k])
        <3> SUFFICES ASSUME v = 3 PROVE \E k \in DOMAIN c : IsQuestion(c[k])
            OBVIOUS
        <3>1. SaysNone(calls[i]) /\ i >= i
            BY <1>2, <1>3 DEF SaysNone
        <3> QED BY <3>1, <2>3
    <2>5. ASSUME NEW k \in DOMAIN c, SaysNone(c[k])
          PROVE  \E l \in DOMAIN c : l > k /\ IsQuestion(c[l])
        <3>1. PICK j \in DOMAIN calls : c[k] = calls[j] /\ j = IF k < i THEN k ELSE k + 1
            BY <1>5
        <3>2. SaysNone(calls[j]) /\ j >= i
            BY <2>5, <3>1, <1>4, <1>8 DEF SaysNone
        <3>3. j = k + 1
            BY <3>1, <3>2, <1>2
        <3>4. PICK l \in DOMAIN c : l + 1 > j /\ IsQuestion(c[l])
            BY <2>3, <3>2
        <3>5. l > k
            BY <3>3, <3>4, <1>2
        <3> QED BY <3>4, <3>5
    <2> QED BY <2>4, <2>5 DEF WillKnow
<1>9. Clean' /\ Waits' => WillKnow(view'.applyStatus, calls')
    BY <1>8
<1>10. Clean' => \A k \in DOMAIN calls' : calls'[k].answer.code \in {"waiting", "ok"}
    BY <1>7
<1> QED BY <1>3, <1>9, <1>10 DEF SitesInv

\* A question is answered: that an application waits, if one does.
LEMMA KnowsAnswered ==
    ASSUME CallsInv(MS!Requests), SitesInv, NEW i \in DOMAIN calls, NEW a, a.code = "ok",
           calls' = Answered(calls, i, a),
           view' = view, mishaps' = mishaps, DOMAIN server' = {"status", "notices"},
           DOMAIN server'.status = Others,
           calls[i].op = "applysite" \/ server'.status = server.status,
           MS!Pending(server) # {} => ~(IsQuestion(calls[i]) /\ a.data = {})
    PROVE  SitesInv'
<1> DEFINE c == calls'
<1>1. /\ DOMAIN c = DOMAIN calls
      /\ \A k \in DOMAIN calls : c[k].op = calls[k].op /\ (k # i => c[k] = calls[k])
      /\ c[i].answer = a
    BY AnsweredCall DEF CallsInv, Codes
<1> HIDE DEF c
<1>2. Clean' = Clean
    BY DEF Clean
<1>3. Clean' => \A k \in DOMAIN c : c[k].answer.code \in {"waiting", "ok"}
    BY <1>1, <1>2 DEF SitesInv
<1>4. ASSUME Clean', Waits'
      PROVE  WillKnow(view'.applyStatus, c)
    <2>1. \A k \in DOMAIN calls : calls[k].op # "applysite"
        BY <1>1, <1>4 DEF Waits, c
    <2>2. MS!Pending(server') = MS!Pending(server)
        BY <2>1 DEF MS!Pending
    <2>3. WillKnow(view.applyStatus, calls) /\ MS!Pending(server) # {}
        BY <2>1, <2>2, <1>2, <1>4 DEF SitesInv, Waits
    <2>4. \A k \in DOMAIN c : /\ IsQuestion(c[k]) <=> IsQuestion(calls[k])
                              /\ SaysNone(c[k]) => SaysNone(calls[k])
        BY <1>1, <2>3 DEF IsQuestion, SaysNone
    <2> QED BY <1>1, <2>3, <2>4 DEF WillKnow
<1>5. Clean' /\ Waits' => WillKnow(view'.applyStatus, calls')
    BY <1>4 DEF c
<1>6. Clean' => \A k \in DOMAIN calls' : calls'[k].answer.code \in {"waiting", "ok"}
    BY <1>3 DEF c
<1> QED BY <1>5, <1>6 DEF SitesInv

\* Every step of the page of the sites keeps what is known of it.
LEMMA SitesKnow ==
    ASSUME CallsInv(MS!Requests), SitesInv, MS!Next
    PROVE  SitesInv'
<1>0. DOMAIN view = SitesFields
      /\ \A i \in DOMAIN calls : MS!Without(calls, i) = Without(calls, i)
    BY DEF SitesInv, MS!Without, Without
\* What is sent does not depend on what the page shows.
<1>1. ASSUME NEW asked, Fresh(asked), MS!Click(asked) \/ MS!Sends(asked),
             DOMAIN view' = SitesFields,
             "left" \in view.dialogs => "left" \in view'.dialogs,
             view'.applyStatus = view.applyStatus
      PROVE  SitesInv'
    <2>1. calls' = calls \o asked /\ server' = server /\ mishaps \subseteq mishaps'
        BY <1>1 DEF MS!Click, MS!Sends
    <2>2. Clean' => Clean
        BY <2>1 DEF Clean
    <2> QED BY <1>1, <2>1, <2>2, KnowsSent
<1>2. ASSUME NEW i \in DOMAIN calls, MS!Handled(i, <<>>),
             calls[i].op \notin {"queryapply", "applysite"},
             DOMAIN view' = SitesFields,
             "left" \in view.dialogs => "left" \in view'.dialogs,
             view'.applyStatus = view.applyStatus
      PROVE  SitesInv'
    <2>1. calls' = Without(calls, i) \o <<>> /\ server' = server /\ mishaps \subseteq mishaps'
        BY <1>0, <1>2 DEF MS!Handled
    <2>2. Clean' => Clean
        BY <2>1 DEF Clean
    <2> QED BY <1>2, <2>1, <2>2, KnowsHandled
<1>3. ASSUME NEW i \in DOMAIN calls, MS!Handled(i, MS!getList), DOMAIN view' = SitesFields
      PROVE  SitesInv'
    <2>1. calls' = Without(calls, i) \o MS!getList /\ server' = server
          /\ mishaps \subseteq mishaps'
        BY <1>0, <1>3 DEF MS!Handled
    <2>2. Clean' => Clean
        BY <2>1 DEF Clean
    <2> QED BY <1>3, <2>1, <2>2, KnowsAsked
\* The clicks leave the page where it is, and what is known of the applications.
<1>4. \A asked : Fresh(asked) /\ (MS!Click(asked) \/ MS!Sends(asked))
      /\ DOMAIN view' = SitesFields
        /\ ("left" \in view.dialogs => "left" \in view'.dialogs)
           /\ view'.applyStatus = view.applyStatus
            => SitesInv'
    BY <1>1
<1>5. CASE MS!handleCurrentChange \/ MS!Application
    <2>1. /\ DOMAIN view' = SitesFields /\ view'.dialogs = view.dialogs
          /\ view'.applyStatus = view.applyStatus
        BY <1>0, <1>5
           DEF MS!handleCurrentChange, MS!Asked, MS!Application, MS!showApply, MS!gethistory,
               SitesFields
    <2> QED BY <1>4, <1>5, <2>1, FreshAsked
            DEF MS!handleCurrentChange, MS!Application, MS!showApply, MS!gethistory, MS!Requests
<1>6. CASE MS!ApplyDialog \/ MS!NoticeDialog
    <2>1. /\ DOMAIN view' = SitesFields /\ ("left" \in view.dialogs => "left" \in view'.dialogs)
          /\ view'.applyStatus = view.applyStatus
        BY <1>0, <1>6
           DEF MS!ApplyDialog, MS!toApply, MS!CloseApply, MS!Check, MS!NoticeDialog,
               MS!toapplynotpass,
               MS!CloseNotice, SitesFields
    <2> QED BY <1>4, <1>6, <2>1, FreshAsked
            DEF MS!ApplyDialog, MS!toApply, MS!CloseApply, MS!Check, MS!NoticeDialog,
                MS!toapplynotpass,
                MS!CloseNotice, MS!Requests
<1>7. ASSUME NEW v, DOMAIN v = SitesFields, v.link \in MS!Links
      PROVE  /\ DOMAIN MS!LinkWatched(v) = SitesFields /\ MS!LinkWatched(v).dialogs = v.dialogs
             /\ MS!LinkWatched(v).applyStatus = v.applyStatus
    <2>1. CASE v.link = ""
        BY <1>7, <2>1 DEF MS!LinkWatched, SitesFields
    <2>2. CASE v.link = "valid"
        BY <1>7, <2>2 DEF MS!LinkWatched, SitesFields
    <2>3. CASE v.link = "invalid"
        BY <1>7, <2>3 DEF MS!LinkWatched, SitesFields
    <2> QED BY <1>7, <2>1, <2>2, <2>3 DEF MS!Links
<1>8. CASE MS!toAddSite
    <2> DEFINE v == [view EXCEPT !.dialogs = @ \cup {"register"}, !.link = ""]
    <2>1. /\ DOMAIN v = SitesFields /\ ("left" \in view.dialogs => "left" \in v.dialogs)
          /\ v.applyStatus = view.applyStatus /\ v.link \in MS!Links
        BY <1>0 DEF SitesFields, MS!Links
    <2>2. view' = MS!LinkWatched(v) /\ MS!Click(<<>>)
        BY <1>8 DEF MS!toAddSite
    <2> HIDE DEF v
    <2> QED BY <1>4, <1>7, <2>1, <2>2, FreshAsked
<1>9. ASSUME NEW link \in MS!Links, MS!EnterLink(link)
      PROVE  SitesInv'
    <2> DEFINE v == [view EXCEPT !.link = link]
    <2>1. /\ DOMAIN v = SitesFields /\ v.dialogs = view.dialogs
          /\ v.applyStatus = view.applyStatus
          /\ v.link \in MS!Links
        BY <1>0 DEF SitesFields
    <2>2. view' = MS!LinkWatched(v) /\ MS!Click(<<>>)
        BY <1>9 DEF MS!EnterLink
    <2> HIDE DEF v
    <2> QED BY <1>4, <1>7, <2>1, <2>2, FreshAsked
<1>10. CASE MS!okAction \/ MS!cancelAction \/ MS!PollTimer
    <2>1. /\ DOMAIN view' = SitesFields /\ ("left" \in view.dialogs => "left" \in view'.dialogs)
          /\ view'.applyStatus = view.applyStatus
        BY <1>0, <1>10 DEF MS!okAction, MS!cancelAction, MS!PollTimer, SitesFields
    <2> QED BY <1>4, <1>10, <2>1, FreshAsked
               DEF MS!okAction, MS!cancelAction, MS!PollTimer, MS!Requests
<1>11. CASE \E n \in Others, status \in {"agreed", "none"} : MS!Decides(n, status)
    <2>1. /\ DOMAIN view' = SitesFields /\ view'.dialogs = view.dialogs
          /\ view'.applyStatus = view.applyStatus /\ calls' = calls /\ mishaps' = mishaps
        BY <1>0, <1>11 DEF MS!Decides, SitesFields
    <2>2. PICK n \in Others, status \in {"agreed", "none"} :
             \E w : server' = [server EXCEPT !.status[n] = status, !.notices = w]
        BY <1>11 DEF MS!Decides
    <2>3. /\ DOMAIN server' = {"status", "notices"} /\ DOMAIN server'.status = Others
          /\ \A m \in Others : server'.status[m] = "pending" => server.status[m] = "pending"
        BY <2>2 DEF SitesInv
    <2>4. MS!Pending(server') # {} => MS!Pending(server) # {}
        BY <2>3 DEF MS!Pending
    <2>5. (Waits' => Waits) /\ Clean' = Clean
        BY <2>1, <2>4 DEF Waits, Clean
    <2> QED BY <2>1, <2>3, <2>5 DEF SitesInv
<1>12. ASSUME NEW i \in DOMAIN calls,
              MS!ServeState(i) \/ MS!ServeInstitutions(i) \/ MS!ServeApply(i) \/ MS!ServeRead(i)
       PROVE  SitesInv'
    <2>1. ASSUME NEW d, MS!Reply(i, MS!Ok(d)), DOMAIN server' = {"status", "notices"},
                 DOMAIN server'.status = Others,
                 calls[i].op = "applysite" \/ server'.status = server.status,
                 MS!Pending(server) # {} => ~(IsQuestion(calls[i]) /\ d = {})
          PROVE  SitesInv'
        <3> DEFINE a == MS!Ok(d)
        <3>1. a.code = "ok" /\ a.data = d
            BY DEF MS!Ok
        <3>2. calls' = Answered(calls, i, a) /\ view' = view /\ mishaps' = mishaps
            BY <2>1 DEF MS!Reply, Answered
        <3> HIDE DEF a
        <3> QED BY <2>1, <3>1, <3>2, KnowsAnswered
    <2>2. DOMAIN server = {"status", "notices"} /\ DOMAIN server.status = Others
        BY DEF SitesInv
    <2>3. CASE MS!ServeState(i)
        BY <2>1, <2>2, <2>3 DEF MS!ServeState
    <2>4. CASE MS!ServeInstitutions(i)
        BY <2>1, <2>2, <2>4 DEF MS!ServeInstitutions, IsQuestion
    <2>5. CASE MS!ServeApply(i)
        <3>1. /\ DOMAIN server' = {"status", "notices"} /\ DOMAIN server'.status = Others
              /\ calls[i].op = "applysite" /\ MS!Reply(i, MS!Ok(""))
            BY <2>2, <2>5 DEF MS!ServeApply
        <3> QED BY <2>1, <3>1 DEF IsQuestion
    <2>6. CASE MS!ServeRead(i)
        <3>1. /\ DOMAIN server' = {"status", "notices"} /\ server'.status = server.status
              /\ calls[i].op = "readapplysite" /\ MS!Reply(i, MS!Ok(""))
            BY <2>2, <2>6 DEF MS!ServeRead
        <3> QED BY <2>1, <2>2, <3>1 DEF IsQuestion
    <2> QED BY <1>12, <2>3, <2>4, <2>5, <2>6
<1>13. ASSUME NEW i \in DOMAIN calls,
              MS!SitesThen(i) \/ MS!PollThen(i) \/ MS!NoticeThen(i) \/ MS!InstitutionsThen(i)
              \/ MS!HistoryThen(i)
       PROVE  SitesInv'
    <2>1. /\ DOMAIN view' = SitesFields /\ ("left" \in view.dialogs => "left" \in view'.dialogs)
          /\ view'.applyStatus = view.applyStatus
        BY <1>0, <1>13
           DEF MS!SitesThen, MS!PollThen, MS!NoticeThen, MS!InstitutionsThen, MS!HistoryThen,
               SitesFields
    <2>2. MS!Handled(i, <<>>) /\ calls[i].op \notin {"queryapply", "applysite"}
        BY <1>13
           DEF MS!SitesThen, MS!PollThen, MS!NoticeThen, MS!InstitutionsThen, MS!HistoryThen,
               MS!Arrives,
               MS!Got
    <2> QED BY <1>2, <2>1, <2>2
<1>14. ASSUME NEW i \in DOMAIN calls, MS!ApplyThen(i) \/ MS!ReadThen(i)
       PROVE  SitesInv'
    <2>1. DOMAIN view' = SitesFields /\ MS!Handled(i, MS!getList)
        BY <1>0, <1>14 DEF MS!ApplyThen, MS!ReadThen, MS!Asked, SitesFields
    <2> QED BY <1>3, <2>1
<1>15. ASSUME NEW i \in DOMAIN calls, MS!CheckUrlThen(i)
       PROVE  SitesInv'
    <2>1. /\ DOMAIN view' = SitesFields /\ "left" \in view'.dialogs /\ calls' = <<>>
          /\ server' = server /\ DOMAIN <<>> = {}
        BY <1>0, <1>15, NoneAreCalls DEF MS!CheckUrlThen, SitesFields
    <2> QED BY <2>1 DEF SitesInv, Waits
\* A request that fails is the end of it.
<1>16. ASSUME NEW i \in DOMAIN calls, MS!Fail(i) \/ MS!Ignores(i)
       PROVE  SitesInv'
    <2>1. view' = view /\ server' = server
        BY <1>16 DEF MS!Fail, MS!FailsWith, MS!Ignores, MS!Handled
    <2>2. ~Clean'
        <3>1. CASE MS!Fail(i)
            BY <3>1 DEF MS!Fail, MS!FailsWith, Clean
        <3>2. CASE MS!Ignores(i)
            <4>1. calls[i].answer.code \in {"failed", "refused"} /\ mishaps \subseteq mishaps'
                BY <3>2 DEF MS!Ignores, MS!Handled, MS!Failed, MS!Refused
            <4>2. ~Clean
                BY <4>1 DEF SitesInv
            <4> QED BY <4>1, <4>2 DEF Clean
        <3> QED BY <1>16, <3>1, <3>2
    <2> QED BY <2>1, <2>2 DEF SitesInv
<1> QED BY <1>5, <1>6, <1>8, <1>9, <1>10, <1>11, <1>12, <1>13, <1>14, <1>15, <1>16, KnowsState
        DEF MS!Next, MS!OwnList, MS!RegisterDialog

\* The form of an application is asked for only while the page shows that none waits.
LEMMA SitesSendApart ==
    ASSUME CallsInv(MS!Requests), SitesInv, MS!Next
    PROVE  \A i \in DOMAIN calls' :
              (i > Len(calls) /\ calls'[i].op = "getInstitutions" /\ calls'[i].arg = "dialog"
                 /\ MS!Pending(server) # {}) =>
                  \/ mishaps \cap {"failed", "crossed"} # {}
                  \/ \E k \in DOMAIN calls : calls[k].op \in {"applysite", "queryapply"}
<1> DEFINE P == \A i \in DOMAIN calls' :
              (i > Len(calls) /\ calls'[i].op = "getInstitutions" /\ calls'[i].arg = "dialog"
                 /\ MS!Pending(server) # {}) =>
                  \/ mishaps \cap {"failed", "crossed"} # {}
                  \/ \E k \in DOMAIN calls : calls[k].op \in {"applysite", "queryapply"}
           Harmless(asked) == AreCalls(asked, MS!Requests)
           /\ \A k \in DOMAIN asked : ~Concerns(asked[k])
<1> SUFFICES P
    OBVIOUS
<1>0. NoneSent => P
    BY DEF NoneSent, Concerns
<1>1. CASE MS!showApply
    <2>1. view.dialogs = {} /\ view.applyStatus = 3
        BY <1>1 DEF MS!showApply, MS!ApplyZone, MS!Free
    <2> SUFFICES ASSUME MS!Pending(server) # {}, mishaps \cap {"failed", "crossed"} = {},
                        \A k \in DOMAIN calls : calls[k].op # "applysite"
                 PROVE  \E k \in DOMAIN calls : calls[k].op = "queryapply"
        OBVIOUS
    <2>2. WillKnow(view.applyStatus, calls)
        BY <2>1 DEF SitesInv, Clean, Waits
    <2> QED BY <2>1, <2>2 DEF WillKnow, IsQuestion
<1>2. Harmless(<<>>)
    BY NoneAreCalls
<1>3. Harmless(MS!getList)
    <2>1. AreCalls(MS!getList, MS!Requests) /\ DOMAIN MS!getList = {1, 2}
        BY ListAgain DEF Fresh
    <2>2. MS!getList[1].op = "sites" /\ MS!getList[2].op = "queryapply"
        BY DEF MS!getList, MS!Ask, MS!Call
    <2> QED BY <2>1, <2>2 DEF Concerns
<1>4. ASSUME NEW op \in MS!Requests, NEW arg, op # "getInstitutions"
      PROVE  Harmless(<<MS!Ask(op, arg)>>) /\ Harmless(<<MS!AskQuietly(op, arg)>>)
    <2> DEFINE a == MS!Ask(op, arg)
               q == MS!AskQuietly(op, arg)
    <2>1. SendsCodes(op, arg) /\ op # "update"
        BY DEF SendsCodes, MS!Requests
    <2>2. IsCall(a, MS!Requests) /\ IsCall(q, MS!Requests) /\ a.op = op /\ q.op = op
        BY <2>1, MSAsks
    <2> HIDE DEF a, q
    <2>3. /\ AreCalls(<<a>>, MS!Requests) /\ DOMAIN <<a>> = {1} /\ <<a>>[1] = a
          /\ AreCalls(<<q>>, MS!Requests) /\ DOMAIN <<q>> = {1} /\ <<q>>[1] = q
        BY <2>2, OneIsCalls
    <2>4. ~Concerns(a) /\ ~Concerns(q)
        BY <1>4, <2>1, <2>2 DEF Concerns
    <2>5. Harmless(<<a>>) /\ Harmless(<<q>>)
        BY <2>3, <2>4
    <2> QED BY <2>5 DEF a, q
<1>a. ASSUME NEW asked, Harmless(asked),
             MS!Click(asked) \/ MS!Sends(asked) \/ \E i \in DOMAIN calls : MS!Handled(i, asked)
      PROVE  P
    <2>1. \A i \in DOMAIN calls : MS!Without(calls, i) = Without(calls, i)
        BY DEF MS!Without, Without
    <2>2. calls' = calls \o asked \/ \E j \in DOMAIN calls : calls' = Without(calls, j) \o asked
        BY <1>a, <2>1 DEF MS!Click, MS!Sends, MS!Handled
    <2> QED BY <1>a, <2>2, <1>0, AsksNothing
<1>b. ASSUME NEW i \in DOMAIN calls, (\E d : MS!Reply(i, MS!Ok(d))) \/ MS!Fail(i)
      PROVE  P
    <2>1. MS!Failed.code \in Codes /\ \A d : MS!Ok(d).code \in Codes
        BY DEF MS!Failed, MS!Ok, Codes
    <2>2. \E a : a.code \in Codes /\ calls' = Answered(calls, i, a)
        BY <1>b, <2>1 DEF MS!Reply, MS!Fail, MS!FailsWith, Answered
    <2> QED BY <2>2, <1>0, NoneNew
<1> HIDE DEF P, Harmless
<1>c. \A asked : Harmless(asked) => /\ MS!Click(asked) => P
                                    /\ MS!Sends(asked) => P
                                    /\ \A i \in DOMAIN calls : MS!Handled(i, asked) => P
    BY <1>a
<1>d. \A op \in MS!Requests : op # "getInstitutions" =>
        \A arg : Harmless(<<MS!Ask(op, arg)>>) /\ Harmless(<<MS!AskQuietly(op, arg)>>)
    BY <1>4
<1>5. CASE MS!OwnList \/ MS!gethistory \/ MS!PollTimer
    BY <1>5, <1>2, <1>3, <1>c, <1>d
       DEF MS!OwnList, MS!handleCurrentChange, MS!toAddSite, MS!gethistory, MS!PollTimer,
           MS!Requests
<1>6. CASE MS!ApplyDialog \/ MS!NoticeDialog
    BY <1>6, <1>2, <1>c, <1>d
       DEF MS!ApplyDialog, MS!toApply, MS!CloseApply, MS!Check, MS!NoticeDialog,
           MS!toapplynotpass,
           MS!CloseNotice, MS!Requests
<1>7. CASE MS!RegisterDialog
    BY <1>7, <1>2, <1>c, <1>d
       DEF MS!RegisterDialog, MS!okAction, MS!cancelAction, MS!EnterLink, MS!Requests
<1>8. CASE \E n \in Others, status \in {"agreed", "none"} : MS!Decides(n, status)
    <2>1. calls' = calls
        BY <1>8 DEF MS!Decides
    <2> QED BY <2>1, <1>0, NoneNew
<1>9. ASSUME NEW i \in DOMAIN calls,
             \/ MS!ServeState(i) \/ MS!ServeInstitutions(i) \/ MS!ServeApply(i) \/ MS!ServeRead(i)
             \/ MS!Fail(i)
      PROVE  P
    BY <1>9, <1>b DEF MS!ServeState, MS!ServeInstitutions, MS!ServeApply, MS!ServeRead
<1>10. ASSUME NEW i \in DOMAIN calls,
              \/ MS!SitesThen(i) \/ MS!PollThen(i) \/ MS!StateThen(i) \/ MS!NoticeThen(i)
              \/ MS!InstitutionsThen(i) \/ MS!ApplyThen(i) \/ MS!ReadThen(i) \/ MS!HistoryThen(i)
              \/ MS!Ignores(i)
       PROVE  P
    BY <1>10, <1>2, <1>3, <1>c
       DEF MS!SitesThen, MS!PollThen, MS!StateThen, MS!NoticeThen, MS!InstitutionsThen,
           MS!ApplyThen,
           MS!ReadThen, MS!HistoryThen, MS!Ignores
<1>11. ASSUME NEW i \in DOMAIN calls, MS!CheckUrlThen(i)
       PROVE  P
    <2>1. calls' = <<>>
        BY <1>11 DEF MS!CheckUrlThen
    <2> QED BY <2>1, <1>0, NoneNew
<1> QED BY <1>1, <1>5, <1>6, <1>7, <1>8, <1>9, <1>10, <1>11 DEF MS!Next, MS!Application

-----------------------------------------------------------------------------
(* The pages as they are created.                                          *)

\* A page begins with what it asks, and the overlay over it.
LEMMA CreatedAsks ==
    ASSUME NEW ops, NEW asked, AreCalls(asked, ops), calls = asked, busy = Loud(asked), steps = 0,
           mishaps = {}
    PROVE  CallsInv(ops) /\ OverlayHasCall
<1>1. busy \in BOOLEAN /\ (busy => Loud(calls))
    BY DEF Loud
<1> QED BY <1>1 DEF CallsInv, OverlayHasCall, Loud

LEMMA SitesCreated ==
    ASSUME MS!Init
    PROVE  CallsInv(MS!Requests) /\ OverlayHasCall /\ SitesInv
<1> DEFINE g == MS!getList
           a == MS!Ask("noticeapplysite", "")
           b == MS!Ask("getInstitutions", "button")
           u == <<a, b>>
           t == g \o u
<1>1. Fresh(g) /\ DOMAIN g = {1, 2} /\ IsQuestion(g[2])
    BY ListAgain
<1>2. IsCall(a, MS!Requests) /\ a.answer.code = "waiting"
    <2>1. "noticeapplysite" \in MS!Requests /\ SendsCodes("noticeapplysite", "")
        BY DEF MS!Requests, SendsCodes
    <2>2. IsCall(a, MS!Requests)
        BY <2>1, MSAsks
    <2> QED BY <2>2 DEF MS!Ask, MS!Call, MS!Waiting
<1>3. IsCall(b, MS!Requests) /\ b.answer.code = "waiting"
    <2>1. "getInstitutions" \in MS!Requests /\ SendsCodes("getInstitutions", "button")
        BY DEF MS!Requests, SendsCodes
    <2>2. IsCall(b, MS!Requests)
        BY <2>1, MSAsks
    <2> QED BY <2>2 DEF MS!Ask, MS!Call, MS!Waiting
<1>4. calls = t /\ busy = Loud(t) /\ steps = 0 /\ mishaps = {}
    BY DEF MS!Init, MS!Created, MS!Loud, Loud
<1> HIDE DEF g, a, b
<1>5. /\ AreCalls(u, MS!Requests) /\ DOMAIN u = {1, 2}
      /\ \A k \in DOMAIN u : u[k].answer.code = "waiting"
    <2>1. AreCalls(<<a, b>>, MS!Requests) /\ DOMAIN <<a, b>> = {1, 2} /\ <<a, b>>[1] = a
          /\ <<a, b>>[2] = b
        BY <1>2, <1>3, TwoAreCalls
    <2> QED BY <2>1, <1>2, <1>3
<1> HIDE DEF u
<1>6. AreCalls(g, MS!Requests) /\ AreCalls(t, MS!Requests)
    BY <1>1, <1>5, BothAreCalls DEF Fresh
<1>7. /\ \A k \in DOMAIN g : k \in DOMAIN t /\ t[k] = g[k]
      /\ \A k \in DOMAIN t : k \in DOMAIN g \/ (k - Len(g) \in DOMAIN u /\ t[k] = u[k - Len(g)])
    BY <1>5, <1>6, Appended DEF AreCalls
<1> HIDE DEF t
<1>8. \A k \in DOMAIN t : t[k].answer.code = "waiting"
    BY <1>1, <1>5, <1>7 DEF Fresh
<1>9. WillKnow(view.applyStatus, calls)
    BY <1>1, <1>4, <1>7, <1>8 DEF WillKnow, SaysNone
<1>10. DOMAIN view = SitesFields
    BY DEF MS!Init, SitesFields
<1>11. DOMAIN server = {"status", "notices"} /\ DOMAIN server.status = Others
    BY DEF MS!Init
<1>12. CallsInv(MS!Requests) /\ OverlayHasCall
    BY <1>4, <1>6, CreatedAsks
<1> QED BY <1>4, <1>8, <1>9, <1>10, <1>11, <1>12 DEF SitesInv

LEMMA SiteCreated ==
    ASSUME SD!Init
    PROVE  CallsInv(SD!Requests) /\ OverlayHasCall /\ SiteInv
<1>1. CallsInv(SD!Requests) /\ OverlayHasCall
    <2>1. AreCalls(SD!initInfo, SD!Requests)
        <3> DEFINE a == SD!Ask("getSiteInfo", FALSE)
                   b == SD!Ask("lists", "")
        <3>1. /\ "getSiteInfo" \in SD!Requests /\ SendsCodes("getSiteInfo", FALSE)
              /\ "lists" \in SD!Requests /\ SendsCodes("lists", "")
            BY DEF SD!Requests, SendsCodes
        <3>2. IsCall(a, SD!Requests) /\ IsCall(b, SD!Requests)
            BY <3>1, SDAsks
        <3>3. SD!initInfo = <<a, b>>
            BY DEF SD!initInfo
        <3> HIDE DEF a, b
        <3> QED BY <3>2, <3>3, TwoAreCalls
    <2>2. /\ calls = SD!initInfo /\ busy = Loud(SD!initInfo)
          /\ steps = 0 /\ mishaps = {}
        BY DEF SD!Init, SD!Created, SD!Loud, Loud
    <2> QED BY <2>1, <2>2, CreatedAsks
<1>2. IsView(view) /\ view.dialogs = <<>>
    <2>1. \A s : DOMAIN SD!FormOf(s) = SiteFields
        BY DEF SD!FormOf, SiteFields
    <2> DEFINE F == SD!FormOf(SD!Stored)
    <2>2. /\ DOMAIN view = ViewFields /\ view.form = F /\ view.old = F /\ view.copy = F
          /\ view.dialogs = <<>>
        BY DEF SD!Init, ViewFields
    <2> HIDE DEF F
    <2>3. <<>> \in Seq(DialogNames)
        OBVIOUS
    <2>4. DOMAIN F = SiteFields
        BY <2>1 DEF F
    <2> QED BY <2>2, <2>3, <2>4 DEF IsView
<1>3. CopyFits(view)
    <2>1. \A e : ~Has(view.dialogs, e)
        BY <1>2 DEF Has
    <2> QED BY <2>1 DEF CopyFits
<1>4. StoresCodes(server)
    <2> DEFINE data == SD!DataOf(SD!FormOf(SD!Stored))
    <2>1. /\ DOMAIN server = ServerFields /\ server.site = SD!Stored
          /\ server.case \in {SD!NoCase, data}
          /\ server.news \in AllNews
          /\ server.editStatus = SD!UnderReview => server.case # SD!NoCase
        BY DEF SD!Init, ServerFields, AllNews, SD!NoNews
    <2>2. Coded(data)
        BY DEF SD!DataOf, SD!FormOf, SD!toCode, Coded, SD!Network
    <2>3. DOMAIN SD!Stored = SiteFields /\ Coded(SD!Stored)
        BY DEF SD!Stored, SiteFields, SD!Network, SD!Texts, SD!Switches, Coded
    <2> HIDE DEF data
    <2> QED BY <2>1, <2>2, <2>3 DEF StoresCodes
<1> QED BY <1>1, <1>2, <1>3, <1>4 DEF SiteInv

LEMMA CooperationCreated ==
    ASSUME CO!Init
    PROVE  CallsInv(CO!Requests) /\ OverlayHasCall
<1>1. AreCalls(CO!initi(view), CO!Requests)
    <2>1. \A op \in CO!Requests : \A arg : IsCall(CO!Ask(op, arg), CO!Requests)
        <3>1. \A op \in CO!Requests : \A arg : SendsCodes(op, arg)
            BY DEF CO!Requests, SendsCodes
        <3> QED BY <3>1, COAsks
    <2> DEFINE a == CO!Ask("getTotal", CO!Period(view))
               b == CO!Ask("getInstitution", Append(CO!Period(view), view.firstInstPageNum))
               c == CO!Ask("getSite", Append(CO!Period(view), view.secondSitePageNum))
    <2>2. IsCall(a, CO!Requests) /\ IsCall(b, CO!Requests) /\ IsCall(c, CO!Requests)
        BY <2>1 DEF CO!Requests
    <2>3. CO!initi(view) = <<a, b, c>>
        BY DEF CO!initi
    <2> HIDE DEF a, b, c
    <2> QED BY <2>2, <2>3, ThreeAreCalls
<1>2. /\ calls = CO!initi(view) /\ busy = Loud(CO!initi(view))
      /\ steps = 0 /\ mishaps = {}
    BY DEF CO!Init, CO!Created, CO!Loud, Loud
<1> QED BY <1>1, <1>2, CreatedAsks

LEMMA JobsCreated ==
    ASSUME JM!Init
    PROVE  CallsInv(JM!Requests) /\ JM!OverlayHasAnswer /\ DOMAIN view = JobsFields
<1>1. AreCalls(JM!initi(view), JM!Requests)
    <2> DEFINE c == JM!Ask("getSiteOptions", "")
               g == JM!Ask("getJobs", JM!Search(view))
    <2>1. /\ "getSiteOptions" \in JM!Requests /\ "getJobs" \in JM!Requests
          /\ \A arg : SendsCodes("getSiteOptions", arg) /\ SendsCodes("getJobs", arg)
        BY DEF JM!Requests, SendsCodes
    <2>2. IsCall(c, JM!Requests) /\ IsCall(g, JM!Requests)
        BY <2>1, JMAsks
    <2>3. JM!initi(view) = <<c>> \o (IF view.timevalue = "" THEN <<>> ELSE <<g>>)
        BY DEF JM!initi, JM!getJobs
    <2> HIDE DEF c, g
    <2>4. /\ AreCalls(<<c>>, JM!Requests) /\ AreCalls(<<g>>, JM!Requests)
          /\ AreCalls(<<>>, JM!Requests)
        BY <2>2, OneIsCalls, NoneAreCalls
    <2>5. AreCalls(<<c>> \o <<>>, JM!Requests) /\ AreCalls(<<c>> \o <<g>>, JM!Requests)
        BY <2>4, BothAreCalls
    <2> QED BY <2>3, <2>5
<1>2. /\ calls = JM!initi(view) /\ busy = Loud(JM!initi(view))
      /\ steps = 0 /\ mishaps = {}
    BY DEF JM!Init, JM!Created, JM!Loud, Loud
<1>3. CallsInv(JM!Requests) /\ OverlayHasCall
    BY <1>1, <1>2, CreatedAsks
<1>4. DOMAIN view = JobsFields
    BY DEF JM!Init, JobsFields
<1> QED BY <1>3, <1>4 DEF JM!OverlayHasAnswer, OverlayHasCall

-----------------------------------------------------------------------------
(* The pages together.                                                     *)

\* The inductive invariant.  Of the page shown: its requests are its own, each
\* with an answer an interceptor can give, and one that is not quiet is under
\* way while the overlay is up.  Of the page of a site: its fields, the codes
\* stored and awaiting review, and that the copy of the switches is the form's
\* while the question is open.  Of the page of the sites: that it is about to
\* be told of an application that waits.
IInv ==
    /\ section \in {"sitemanage", "siteinfo", "cooperation", "jobmonitor"}
    /\ section = "sitemanage" => CallsInv(MS!Requests) /\ OverlayHasCall /\ SitesInv
    /\ section = "siteinfo" => CallsInv(SD!Requests) /\ OverlayHasCall /\ SiteInv
    /\ section = "cooperation" => CallsInv(CO!Requests) /\ OverlayHasCall
    /\ section = "jobmonitor" =>
          CallsInv(JM!Requests) /\ JM!OverlayHasAnswer /\ DOMAIN view = JobsFields

LEMMA InitIInv == Init => IInv
BY SitesCreated, SiteCreated, CooperationCreated, JobsCreated DEF Init, IInv

LEMMA NextIInv == IInv /\ [Next]_vars => IInv'
<1> SUFFICES ASSUME IInv, [Next]_vars PROVE IInv'
    OBVIOUS
<1>1. CASE section = "sitemanage" /\ MS!Next /\ UNCHANGED section
    <2>1. CallsInv(MS!Requests) /\ OverlayHasCall /\ SitesInv
        BY <1>1 DEF IInv
    <2>2. Moves(MS!Requests)
        BY <1>1, SitesMove
    <2>3. CallsInv(MS!Requests)' /\ OverlayHasCall'
        BY <2>1, <2>2, MovesKeepCalls, MovesKeepOverlay
    <2>4. SitesInv'
        BY <1>1, <2>1, SitesKnow
    <2> QED BY <1>1, <2>3, <2>4 DEF IInv
<1>2. CASE section = "siteinfo" /\ SD!Next /\ UNCHANGED section
    <2>1. CallsInv(SD!Requests) /\ OverlayHasCall /\ IsView(view) /\ StoresCodes(server)
          /\ CopyFits(view)
        BY <1>2 DEF IInv, SiteInv
    <2>2. Moves(SD!Requests)
        BY <1>2, <2>1, SiteMoves DEF IsView
    <2>3. CallsInv(SD!Requests)' /\ OverlayHasCall'
        BY <2>1, <2>2, MovesKeepCalls, MovesKeepOverlay
    <2>4. IsView(view') /\ CopyFits(view')
        BY <1>2, <2>1, SiteViewStays
    <2>5. StoresCodes(server')
        BY <1>2, <2>1, SiteStoresCodes DEF CallsInv
    <2>6. SiteInv'
        BY <2>4, <2>5 DEF SiteInv
    <2> QED BY <1>2, <2>3, <2>6 DEF IInv
<1>3. CASE section = "cooperation" /\ CO!Next /\ UNCHANGED section
    <2>1. CallsInv(CO!Requests) /\ OverlayHasCall
        BY <1>3 DEF IInv
    <2>2. Moves(CO!Requests)
        BY <1>3, CooperationMoves
    <2>3. CallsInv(CO!Requests)' /\ OverlayHasCall'
        BY <2>1, <2>2, MovesKeepCalls, MovesKeepOverlay
    <2> QED BY <1>3, <2>3 DEF IInv
<1>4. CASE section = "jobmonitor" /\ JM!Next /\ UNCHANGED section
    <2>1. CallsInv(JM!Requests) /\ JM!OverlayHasAnswer /\ DOMAIN view = JobsFields
        BY <1>4 DEF IInv
    <2>2. CallsInv(JM!Requests)' /\ JM!OverlayHasAnswer' /\ DOMAIN view' = JobsFields
        BY <1>4, <2>1, JobsStep
    <2> QED BY <1>4, <2>2 DEF IInv
<1>5. CASE UNCHANGED vars
    <2>1. /\ section' = section /\ view' = view /\ server' = server /\ calls' = calls
          /\ busy' = busy /\ steps' = steps /\ mishaps' = mishaps
        BY <1>5 DEF vars, pageVars
    <2>2. CallsInv(MS!Requests)' = CallsInv(MS!Requests)
          /\ CallsInv(SD!Requests)' = CallsInv(SD!Requests)
        BY <2>1 DEF CallsInv
    <2>3. CallsInv(CO!Requests)' = CallsInv(CO!Requests)
          /\ CallsInv(JM!Requests)' = CallsInv(JM!Requests)
        BY <2>1 DEF CallsInv
    <2>4. SitesInv' = SitesInv /\ SiteInv' = SiteInv
        BY <2>1 DEF SitesInv, Clean, Waits, SiteInv
    <2>5. OverlayHasCall' = OverlayHasCall /\ JM!OverlayHasAnswer' = JM!OverlayHasAnswer
        BY <2>1 DEF OverlayHasCall, JM!OverlayHasAnswer
    <2> QED BY <2>1, <2>2, <2>3, <2>4, <2>5 DEF IInv
<1> QED BY <1>1, <1>2, <1>3, <1>4, <1>5 DEF Next

LEMMA Invariant == Spec => []IInv
BY InitIInv, NextIInv, PTL DEF Spec

\* Type correctness, on every page: the requests under way are of the page's
\* own operations, each with an answer a request can get, and a site is stored
\* with the codes of its switches, never with the booleans of the form
\* (sitedetail.vue converts them on the way in and on the way out).
THEOREM TypeCorrect == Spec => []TypeOK
<1>1. IInv => TypeOK
    <2> SUFFICES ASSUME IInv PROVE TypeOK
        OBVIOUS
    <2>1. CASE section = "sitemanage"
        BY <2>1, CallsInvType DEF IInv, TypeOK
    <2>2. CASE section = "siteinfo"
        <3>1. CallsOK(SD!Requests)
            BY <2>2, CallsInvType DEF IInv
        <3>2. \A f \in SD!Switches : server.site[f] \in {1, 2}
            BY <2>2 DEF IInv, SiteInv, StoresCodes, Coded
        <3> QED BY <2>2, <3>1, <3>2 DEF TypeOK
    <2>3. CASE section = "cooperation"
        BY <2>3, CallsInvType DEF IInv, TypeOK
    <2>4. CASE section = "jobmonitor"
        BY <2>4, CallsInvType DEF IInv, TypeOK
    <2> QED BY <2>1, <2>2, <2>3, <2>4 DEF IInv
<1> QED BY <1>1, Invariant, PTL

\* The overlay has an end (utils/request.js): while it is up, on whatever page,
\* a request is under way whose answer or failure takes it down.
THEOREM OverlayHasEnd == Spec => []OverlayEnds
<1>1. IInv => OverlayEnds
    BY DEF IInv, OverlayEnds
<1> QED BY <1>1, Invariant, PTL

\* The update of a site sends what its form shows (sitedetail.vue): the dialogs
\* work on a copy of the switches, which agrees with the form from when the
\* question opens to when the button is pressed.  Not claimed of a form whose
\* rollsite was edited or into which news of the Cloud Manager was taken.
THEOREM SiteSentIsShown == Spec => SentAsEdited
<1>1. IInv /\ IInv' /\ [Next]_vars =>
        [\A i \in DOMAIN calls' :
            i > Len(calls) /\ calls'[i].op = "update" /\ calls'[i].arg.kind = "site"
            /\ view.form.rollsite = view.old.rollsite /\ ~view.accepted =>
                calls'[i].arg.data = SD!DataOf(view.form)]_SD!pageVars
    <2> DEFINE P == \A i \in DOMAIN calls' :
            i > Len(calls) /\ calls'[i].op = "update" /\ calls'[i].arg.kind = "site"
            /\ view.form.rollsite = view.old.rollsite /\ ~view.accepted =>
                calls'[i].arg.data = SD!DataOf(view.form)
    <2> SUFFICES ASSUME IInv, IInv', [Next]_vars PROVE P \/ UNCHANGED SD!pageVars
        OBVIOUS
    <2>1. CASE UNCHANGED vars
        BY <2>1 DEF vars, pageVars, SD!pageVars
    <2>2. CASE section = "siteinfo" /\ SD!Next
        BY <2>2, SiteSentAsEdited DEF IInv, SiteInv
    \* No other page updates a site.
    <2>3. CASE section' # "siteinfo"
        <3>1. \E ops \in {MS!Requests, CO!Requests, JM!Requests} : CallsInv(ops)'
            BY <2>3 DEF IInv
        <3>2. \A i \in DOMAIN calls' : calls'[i].op # "update"
            BY <3>1 DEF CallsInv, AreCalls, IsCall, MS!Requests, CO!Requests, JM!Requests
        <3> QED BY <3>2
    <2> QED BY <2>1, <2>2, <2>3 DEF Next, IInv
<1> QED BY <1>1, Invariant, PTL DEF Spec, SentAsEdited, SD!SentAsEdited

\* The form of a second application is not opened while one waits
\* (sitemanage.vue): what the page asks about the state is asked again behind
\* everything that changes it.  Excepted are the user who is faster than such
\* an answer, and requests that fail or overtake each other.
THEOREM OneAtATime == Spec => OneApplication
<1>1. IInv /\ IInv' /\ [Next]_vars =>
        [\A i \in DOMAIN calls' :
            (i > Len(calls) /\ calls'[i].op = "getInstitutions" /\ calls'[i].arg = "dialog"
               /\ MS!Pending(server) # {}) =>
                \/ mishaps \cap {"failed", "crossed"} # {}
                \/ \E k \in DOMAIN calls : calls[k].op \in {"applysite", "queryapply"}]_MS!pageVars
    <2> DEFINE P == \A i \in DOMAIN calls' :
            (i > Len(calls) /\ calls'[i].op = "getInstitutions" /\ calls'[i].arg = "dialog"
               /\ MS!Pending(server) # {}) =>
                \/ mishaps \cap {"failed", "crossed"} # {}
                \/ \E k \in DOMAIN calls : calls[k].op \in {"applysite", "queryapply"}
    <2> SUFFICES ASSUME IInv, IInv', [Next]_vars PROVE P \/ UNCHANGED MS!pageVars
        OBVIOUS
    <2>1. CASE UNCHANGED vars
        BY <2>1 DEF vars, pageVars, MS!pageVars
    <2>2. CASE section = "sitemanage" /\ MS!Next
        BY <2>2, SitesSendApart DEF IInv
    \* No other page asks for the institutions.
    <2>3. CASE section' # "sitemanage"
        <3>1. \E ops \in {SD!Requests, CO!Requests, JM!Requests} : CallsInv(ops)'
            BY <2>3 DEF IInv
        <3>2. \A i \in DOMAIN calls' : calls'[i].op # "getInstitutions"
            BY <3>1 DEF CallsInv, AreCalls, IsCall, SD!Requests, CO!Requests, JM!Requests
        <3> QED BY <3>2
    <2> QED BY <2>1, <2>2, <2>3 DEF Next, IInv
<1> QED BY <1>1, Invariant, PTL DEF Spec, OneApplication, MS!OneApplication
=============================================================================
