------------------------- MODULE CloudSites_proofs --------------------------
(***************************************************************************)
(* Theorems about the pages of Cloud Manager's sites and exchanges, for    *)
(* every set of institutions and of groups, every limit and every bound on *)
(* the steps and the requests under way: their type, the end of the        *)
(* overlay, and that what they send belongs together.                      *)
(*                                                                         *)
(* All pages share the queue of requests, the overlay and the counters of  *)
(* Page.  Moves names the five ways a step may change them, a lemma per    *)
(* page shows that its steps are of these, and what holds of the requests  *)
(* is then shown once, for the five ways.  The list of the sites raises    *)
(* the overlay by itself and has a lemma of its own, SitesListKept.  What  *)
(* a page sends rests on what its dialogs show, and each page that sends   *)
(* something has an invariant of that.                                     *)
(***************************************************************************)
EXTENDS CloudSites, TLAPS, FiniteSetTheorems, WellFoundedInduction

-----------------------------------------------------------------------------
(* Sequences.                                                              *)

LEMMA SeqDef ==
    \A S : Seq(S) = UNION {[1 .. n -> S] : n \in Nat}
OBVIOUS

\* s is a sequence, whatever it holds.
IsQueue(s) == s \in Seq(Range(s))

LEMMA QueueOfSome ==
    ASSUME NEW S, NEW s \in Seq(S)
    PROVE  IsQueue(s)
<1>1. s \in [1 .. Len(s) -> S] /\ Len(s) \in Nat
    OBVIOUS
<1>2. \A k \in 1 .. Len(s) : s[k] \in Range(s)
    BY <1>1 DEF Range
<1>3. s \in [1 .. Len(s) -> Range(s)]
    BY <1>1, <1>2
<1> QED BY <1>1, <1>3, SeqDef DEF IsQueue

LEMMA ListIsQueue ==
    ASSUME NEW n \in Nat, NEW f, DOMAIN f = 1 .. n, f = [k \in 1 .. n |-> f[k]]
    PROVE  IsQueue(f) /\ Len(f) = n
<1>1. f \in [1 .. n -> {f[k] : k \in 1 .. n}]
    OBVIOUS
<1>2. f \in Seq({f[k] : k \in 1 .. n})
    BY <1>1, SeqDef
<1> QED BY <1>2, QueueOfSome

LEMMA QueueFacts ==
    ASSUME NEW s, IsQueue(s)
    PROVE  /\ Len(s) \in Nat /\ DOMAIN s = 1 .. Len(s)
           /\ \A k \in DOMAIN s : s[k] \in Range(s)
           /\ \A e \in Range(s) : \E k \in DOMAIN s : s[k] = e
BY DEF IsQueue, Range

LEMMA ElementOf ==
    ASSUME NEW S, NEW s \in Seq(S), NEW k \in DOMAIN s
    PROVE  s[k] \in S
OBVIOUS

\* What is sent is put behind what is under way.
LEMMA Joined ==
    ASSUME NEW s, NEW t, IsQueue(s), IsQueue(t)
    PROVE  /\ IsQueue(s \o t) /\ Len(s \o t) = Len(s) + Len(t)
           /\ \A k \in DOMAIN s : k \in DOMAIN (s \o t) /\ (s \o t)[k] = s[k]
           /\ \A k \in DOMAIN t : Len(s) + k \in DOMAIN (s \o t) /\ (s \o t)[Len(s) + k] = t[k]
           /\ \A k \in DOMAIN (s \o t) : k \in DOMAIN s \/ (k > Len(s) /\ k - Len(s) \in DOMAIN t)
<1> DEFINE S == Range(s) \cup Range(t)
<1>1. s \in Seq(S) /\ t \in Seq(S)
    <2>1. s \in Seq(Range(s)) /\ t \in Seq(Range(t))
        BY DEF IsQueue
    <2>2. /\ Len(s) \in Nat /\ s \in [1 .. Len(s) -> S]
          /\ Len(t) \in Nat /\ t \in [1 .. Len(t) -> S]
        BY <2>1
    <2> QED BY <2>2, SeqDef
<1> HIDE DEF S
<1>2. s \o t \in Seq(S)
    BY <1>1
<1>3. Len(s \o t) = Len(s) + Len(t)
    BY <1>1
<1>4. IsQueue(s \o t)
    BY <1>2, QueueOfSome
<1>5. \A k \in 1 .. Len(s) + Len(t) : (s \o t)[k] = IF k <= Len(s) THEN s[k] ELSE t[k - Len(s)]
    BY <1>1
<1>6. /\ Len(s) \in Nat /\ Len(t) \in Nat
      /\ DOMAIN s = 1 .. Len(s) /\ DOMAIN t = 1 .. Len(t)
      /\ DOMAIN (s \o t) = 1 .. Len(s) + Len(t)
    BY <1>1, <1>2, <1>3
<1> QED BY <1>3, <1>4, <1>5, <1>6

LEMMA Removed ==
    ASSUME NEW s, NEW i \in DOMAIN s, IsQueue(s)
    PROVE  /\ IsQueue(Without(s, i)) /\ Len(Without(s, i)) = Len(s) - 1
           /\ \A k \in DOMAIN s : k < i =>
                k \in DOMAIN Without(s, i) /\ Without(s, i)[k] = s[k]
           /\ \A k \in DOMAIN s : k > i =>
                k - 1 \in DOMAIN Without(s, i) /\ Without(s, i)[k - 1] = s[k]
           /\ \A k \in DOMAIN Without(s, i) :
                IF k < i THEN k \in DOMAIN s ELSE k + 1 \in DOMAIN s /\ k + 1 > i
<1> DEFINE S == Range(s)
           l == SubSeq(s, 1, i - 1)
           r == SubSeq(s, i + 1, Len(s))
<1>1. s \in Seq(S)
    BY DEF IsQueue
<1> HIDE DEF S
<1>2. Len(s) \in Nat /\ DOMAIN s = 1 .. Len(s) /\ i \in 1 .. Len(s)
    BY <1>1
<1>3. /\ l \in Seq(S) /\ Len(l) = i - 1
      /\ \A k \in 1 .. i - 1 : l[k] = s[k]
    BY <1>1, <1>2
<1>4. /\ r \in Seq(S) /\ Len(r) = Len(s) - i
      /\ \A k \in 1 .. Len(s) - i : r[k] = s[i + k]
    BY <1>1, <1>2
<1> HIDE DEF l, r
<1>5. Without(s, i) = l \o r
    BY DEF Without, l, r
<1>6. /\ l \o r \in Seq(S) /\ Len(l \o r) = Len(s) - 1
      /\ DOMAIN (l \o r) = 1 .. Len(s) - 1
    <2>0. l \in Seq(S) /\ r \in Seq(S)
        BY <1>3, <1>4
    <2>1. l \o r \in Seq(S) /\ Len(l \o r) = Len(l) + Len(r)
        BY <2>0
    <2>2. Len(l) + Len(r) = Len(s) - 1
        BY <1>2, <1>3, <1>4
    <2>3. Len(l \o r) = Len(s) - 1 /\ l \o r \in Seq(S)
        BY <2>1, <2>2
    <2>4. DOMAIN (l \o r) = 1 .. Len(s) - 1
        BY <2>3
    <2> QED BY <2>3, <2>4
<1>7. \A k \in 1 .. Len(s) - 1 : (l \o r)[k] = IF k < i THEN s[k] ELSE s[k + 1]
    <2> SUFFICES ASSUME NEW k \in 1 .. Len(s) - 1
                 PROVE  (l \o r)[k] = IF k < i THEN s[k] ELSE s[k + 1]
        OBVIOUS
    <2>1. (l \o r)[k] = IF k <= Len(l) THEN l[k] ELSE r[k - Len(l)]
        BY <1>2, <1>3, <1>4
    <2>2. CASE k < i
        BY <2>1, <2>2, <1>2, <1>3
    <2>3. CASE ~(k < i)
        <3>1. k - (i - 1) \in 1 .. Len(s) - i /\ i + (k - (i - 1)) = k + 1
            BY <2>3, <1>2
        <3>2. r[k - (i - 1)] = s[k + 1]
            BY <3>1, <1>4
        <3>3. ~(k <= Len(l)) /\ k - Len(l) = k - (i - 1)
            BY <2>3, <1>2, <1>3
        <3> QED BY <2>1, <2>3, <3>2, <3>3
    <2> QED BY <2>2, <2>3
<1>8. IsQueue(l \o r)
    BY <1>6, QueueOfSome
<1> HIDE DEF S
<1> DEFINE u == l \o r
<1>9. /\ DOMAIN u = 1 .. Len(s) - 1
      /\ \A k \in 1 .. Len(s) - 1 : u[k] = IF k < i THEN s[k] ELSE s[k + 1]
    BY <1>6, <1>7
<1> HIDE DEF u
<1>a. \A k \in DOMAIN s : k < i => k \in DOMAIN u /\ u[k] = s[k]
    BY <1>2, <1>9
<1>b. \A k \in DOMAIN s : k > i => k - 1 \in DOMAIN u /\ u[k - 1] = s[k]
    <2> SUFFICES ASSUME NEW k \in DOMAIN s, k > i
                 PROVE  k - 1 \in DOMAIN u /\ u[k - 1] = s[k]
        OBVIOUS
    <2>1. k - 1 \in 1 .. Len(s) - 1 /\ ~(k - 1 < i) /\ (k - 1) + 1 = k
        BY <1>2
    <2> QED BY <2>1, <1>9
<1>c. \A k \in DOMAIN u : IF k < i THEN k \in DOMAIN s ELSE k + 1 \in DOMAIN s /\ k + 1 > i
    BY <1>2, <1>9
<1>d. u = Without(s, i)
    BY <1>5 DEF u
<1> QED BY <1>5, <1>6, <1>8, <1>a, <1>b, <1>c, <1>d

LEMMA Replaced ==
    ASSUME NEW s, NEW i, NEW e, IsQueue(s)
    PROVE  /\ IsQueue([s EXCEPT ![i] = e]) /\ Len([s EXCEPT ![i] = e]) = Len(s)
           /\ DOMAIN [s EXCEPT ![i] = e] = DOMAIN s
           /\ \A k \in DOMAIN s : [s EXCEPT ![i] = e][k] = IF k = i THEN e ELSE s[k]
<1> DEFINE S == Range(s) \cup {e}
           t == [s EXCEPT ![i] = e]
<1>1. Len(s) \in Nat /\ DOMAIN s = 1 .. Len(s) /\ s \in [1 .. Len(s) -> Range(s)]
    BY DEF IsQueue
<1>2. /\ t \in [1 .. Len(s) -> S] /\ DOMAIN t = DOMAIN s
      /\ \A k \in DOMAIN s : t[k] = IF k = i THEN e ELSE s[k]
    BY <1>1
<1> HIDE DEF S, t
<1>3. t \in Seq(S)
    BY <1>1, <1>2, SeqDef
<1>4. Len(t) = Len(s)
    BY <1>1, <1>2, <1>3
<1>5. IsQueue(t)
    BY <1>3, QueueOfSome
<1> QED BY <1>2, <1>4, <1>5 DEF t

\* One of a sequence is changed.
With(s, k, e) == [s EXCEPT ![k] = e]

LEMMA WithQueue ==
    ASSUME NEW s, IsQueue(s), NEW k, NEW e, NEW t, t = With(s, k, e)
    PROVE  /\ IsQueue(t) /\ Len(t) = Len(s) /\ DOMAIN t = DOMAIN s
           /\ \A j \in DOMAIN s : t[j] = IF j = k THEN e ELSE s[j]
BY Replaced DEF With

LEMMA Appended ==
    ASSUME NEW s, IsQueue(s), NEW e, NEW t, t = Append(s, e)
    PROVE  /\ IsQueue(t) /\ Len(t) = Len(s) + 1 /\ DOMAIN t = 1 .. Len(s) + 1
           /\ \A k \in DOMAIN s : k \in DOMAIN t /\ t[k] = s[k]
           /\ Len(s) + 1 \in DOMAIN t /\ t[Len(s) + 1] = e
<1> DEFINE S == Range(s) \cup {e}
<1>1. Len(s) \in Nat /\ DOMAIN s = 1 .. Len(s) /\ s \in [1 .. Len(s) -> S]
    BY DEF IsQueue
<1> HIDE DEF S
<1>2. s \in Seq(S) /\ e \in S
    BY <1>1, SeqDef DEF S
<1>3. t \in Seq(S) /\ Len(t) = Len(s) + 1
    BY <1>2
<1>4. \A k \in DOMAIN s : t[k] = s[k]
    BY <1>1, <1>2
<1>5. t[Len(s) + 1] = e
    BY <1>1, <1>2
<1>6. DOMAIN t = 1 .. Len(s) + 1
    BY <1>3
<1>7. IsQueue(t)
    BY <1>3, QueueOfSome
<1>8. /\ Len(s) + 1 \in 1 .. Len(s) + 1
      /\ \A k \in DOMAIN s : k \in 1 .. Len(s) + 1
    BY <1>1
<1> QED BY <1>3, <1>4, <1>5, <1>6, <1>7, <1>8

-----------------------------------------------------------------------------
(* Requests.                                                               *)

Codes == {"waiting", "failed", "refused", "ok"}

\* A request of a page that sends the operations ops.
IsCall(e, ops) ==
    /\ e = [op |-> e.op, arg |-> e.arg, quiet |-> e.quiet, part |-> e.part, answer |-> e.answer]
    /\ e.op \in ops /\ e.quiet \in BOOLEAN /\ e.answer.code \in Codes

AreCalls(s, ops) == IsQueue(s) /\ \A k \in DOMAIN s : IsCall(s[k], ops)

LEMMA CallIsCall ==
    ASSUME NEW ops, NEW op \in ops, NEW arg, NEW quiet \in BOOLEAN, NEW part,
           NEW c, c = Call(op, arg, quiet, part)
    PROVE  /\ IsCall(c, ops) /\ c.op = op /\ c.arg = arg /\ c.quiet = quiet /\ c.part = part
           /\ c.answer = Waiting
BY DEF Call, IsCall, Waiting, Codes

LEMMA NoneAreCalls ==
    ASSUME NEW ops
    PROVE  AreCalls(<<>>, ops) /\ DOMAIN <<>> = {} /\ Len(<<>>) = 0
<1>1. <<>> \in Seq({}) /\ DOMAIN <<>> = {} /\ Len(<<>>) = 0
    OBVIOUS
<1> QED BY <1>1, QueueOfSome DEF AreCalls

LEMMA OneIsCalls ==
    ASSUME NEW ops, NEW a, IsCall(a, ops)
    PROVE  /\ AreCalls(<<a>>, ops)
           /\ Len(<<a>>) = 1 /\ DOMAIN <<a>> = {1} /\ <<a>>[1] = a
<1>1. <<a>> \in Seq({a}) /\ Len(<<a>>) = 1 /\ DOMAIN <<a>> = {1} /\ <<a>>[1] = a
    OBVIOUS
<1> QED BY <1>1, QueueOfSome DEF AreCalls

LEMMA TwoAreCalls ==
    ASSUME NEW ops, NEW a, IsCall(a, ops), NEW b, IsCall(b, ops)
    PROVE  /\ AreCalls(<<a, b>>, ops) /\ Len(<<a, b>>) = 2
           /\ DOMAIN <<a, b>> = {1, 2} /\ <<a, b>>[1] = a /\ <<a, b>>[2] = b
<1>1. /\ <<a, b>> \in Seq({a, b}) /\ Len(<<a, b>>) = 2
      /\ DOMAIN <<a, b>> = {1, 2} /\ <<a, b>>[1] = a /\ <<a, b>>[2] = b
    OBVIOUS
<1> QED BY <1>1, QueueOfSome DEF AreCalls

LEMMA BothAreCalls ==
    ASSUME NEW ops, NEW s, AreCalls(s, ops), NEW t, AreCalls(t, ops)
    PROVE  AreCalls(s \o t, ops)
<1>1. \A k \in DOMAIN (s \o t) : IsCall((s \o t)[k], ops)
    <2> SUFFICES ASSUME NEW k \in DOMAIN (s \o t) PROVE IsCall((s \o t)[k], ops)
        OBVIOUS
    <2>1. CASE k \in DOMAIN s
        BY <2>1, Joined DEF AreCalls
    <2>2. CASE k > Len(s) /\ k - Len(s) \in DOMAIN t
        <3>1. k \in Nat /\ Len(s) \in Nat
            BY Joined, QueueFacts DEF AreCalls
        <3>2. Len(s) + (k - Len(s)) = k
            BY <3>1
        <3>3. (s \o t)[k] = t[k - Len(s)]
            BY <2>2, <3>2, Joined DEF AreCalls
        <3> QED BY <3>3, <2>2 DEF AreCalls
    <2> QED BY <2>1, <2>2, Joined DEF AreCalls
<1> QED BY <1>1, Joined DEF AreCalls

LEMMA OthersAreCalls ==
    ASSUME NEW ops, NEW s, AreCalls(s, ops), NEW i \in DOMAIN s
    PROVE  AreCalls(Without(s, i), ops)
<1> DEFINE r == Without(s, i)
<1>0. IsQueue(s)
    BY DEF AreCalls
<1>1. /\ IsQueue(r)
      /\ \A k \in DOMAIN s : k < i => k \in DOMAIN r /\ r[k] = s[k]
      /\ \A k \in DOMAIN s : k > i => k - 1 \in DOMAIN r /\ r[k - 1] = s[k]
      /\ \A k \in DOMAIN r : IF k < i THEN k \in DOMAIN s ELSE k + 1 \in DOMAIN s /\ k + 1 > i
    BY <1>0, Removed
<1> HIDE DEF r
<1>2. \A k \in DOMAIN r : \E j \in DOMAIN s : r[k] = s[j]
    <2> SUFFICES ASSUME NEW k \in DOMAIN r PROVE \E j \in DOMAIN s : r[k] = s[j]
        OBVIOUS
    <2>1. CASE k < i
        BY <2>1, <1>1
    <2>2. CASE ~(k < i)
        <3>1. k \in Nat
            BY <1>1, QueueFacts
        <3>2. (k + 1) - 1 = k
            BY <3>1
        <3>3. r[k] = s[k + 1] /\ k + 1 \in DOMAIN s
            BY <2>2, <3>2, <1>1
        <3> QED BY <3>3
    <2> QED BY <2>1, <2>2
<1>3. AreCalls(r, ops)
    BY <1>1, <1>2 DEF AreCalls
<1> QED BY <1>3 DEF r

\* The answer of a request is put to it; the request stays what it is.
Answered(s, i, a) == [s EXCEPT ![i].answer = a]

LEMMA AnsweredCall ==
    ASSUME NEW ops, NEW s, AreCalls(s, ops), NEW i \in DOMAIN s, NEW a, a.code \in Codes
    PROVE  /\ AreCalls(Answered(s, i, a), ops)
           /\ DOMAIN Answered(s, i, a) = DOMAIN s /\ Len(Answered(s, i, a)) = Len(s)
           /\ \A k \in DOMAIN s :
                /\ k # i => Answered(s, i, a)[k] = s[k]
                /\ Answered(s, i, a)[k].op = s[k].op /\ Answered(s, i, a)[k].arg = s[k].arg
                /\ Answered(s, i, a)[k].quiet = s[k].quiet
                /\ Answered(s, i, a)[k].part = s[k].part
           /\ Answered(s, i, a)[i].answer = a
<1> DEFINE e == [s[i] EXCEPT !.answer = a]
           t == Answered(s, i, a)
<1>1. t = [s EXCEPT ![i] = e]
    BY DEF Answered
<1>3. IsCall(s[i], ops) /\ IsQueue(s)
    BY DEF AreCalls
<1>4. e = [op |-> s[i].op, arg |-> s[i].arg, quiet |-> s[i].quiet, part |-> s[i].part,
           answer |-> a]
    BY <1>3 DEF IsCall
<1>2. /\ IsQueue(t) /\ Len(t) = Len(s) /\ DOMAIN t = DOMAIN s
      /\ \A k \in DOMAIN s : t[k] = IF k = i THEN e ELSE s[k]
    <2> HIDE DEF e, t
    <2>1. /\ IsQueue([s EXCEPT ![i] = e]) /\ Len([s EXCEPT ![i] = e]) = Len(s)
          /\ DOMAIN [s EXCEPT ![i] = e] = DOMAIN s
          /\ \A k \in DOMAIN s : [s EXCEPT ![i] = e][k] = IF k = i THEN e ELSE s[k]
        BY <1>3, Replaced
    <2> QED BY <2>1, <1>1
<1> HIDE DEF e, t
<1>5. /\ e.op = s[i].op /\ e.arg = s[i].arg /\ e.quiet = s[i].quiet /\ e.part = s[i].part
      /\ e.answer = a /\ IsCall(e, ops)
    BY <1>3, <1>4 DEF IsCall
<1>6. AreCalls(t, ops)
    BY <1>2, <1>5 DEF AreCalls
<1>7. /\ DOMAIN t = DOMAIN s /\ Len(t) = Len(s) /\ t[i].answer = a
      /\ \A k \in DOMAIN s :
            /\ k # i => t[k] = s[k]
            /\ t[k].op = s[k].op /\ t[k].arg = s[k].arg
            /\ t[k].quiet = s[k].quiet /\ t[k].part = s[k].part
    BY <1>2, <1>5
<1> QED BY <1>6, <1>7 DEF t

-----------------------------------------------------------------------------
(* Every step of a page moves requests in one of five ways.                *)

\* What a step of a page that sends ops may do to the requests.
Carries(ops) ==
    /\ steps' = steps \/ steps' = steps + 1
    /\ mishaps \subseteq mishaps' /\ mishaps' \subseteq mishaps \cup Mishaps
    /\ busy' \in BOOLEAN \cup {busy}
    /\ \/ \E asked : AreCalls(asked, ops) /\ calls' = calls \o asked
       \/ \E i \in DOMAIN calls : \E asked :
            AreCalls(asked, ops) /\ calls' = Without(calls, i) \o asked
       \/ \E i \in DOMAIN calls : \E a : a.code \in Codes /\ calls' = Answered(calls, i, a)
       \/ \E asked : AreCalls(asked, ops) /\ calls' = asked
       \/ UNCHANGED calls

\* And to the overlay, of a page that leaves it to utils/request.js.
Moves(ops) ==
    /\ Carries(ops)
    /\ \/ \E asked :
            /\ AreCalls(asked, ops) /\ calls' = calls \o asked
            /\ busy' => busy \/ Loud(asked)
       \/ \E i \in DOMAIN calls : \E asked :
            /\ AreCalls(asked, ops) /\ calls' = Without(calls, i) \o asked
            /\ busy' => Loud(asked) \/ (busy /\ calls[i].quiet)
       \/ \E i \in DOMAIN calls : \E a :
            a.code \in Codes /\ calls' = Answered(calls, i, a) /\ busy' = busy
       \/ \E asked : AreCalls(asked, ops) /\ calls' = asked /\ (busy' => Loud(asked))
       \/ UNCHANGED <<calls, busy>>

\* What is known of the requests of a page that sends ops.
CallsInv(ops) ==
    /\ AreCalls(calls, ops) /\ busy \in BOOLEAN
    /\ mishaps \subseteq Mishaps /\ steps \in Nat

LEMMA CallsInvType ==
    ASSUME NEW ops, CallsInv(ops)
    PROVE  CallsOK(ops)
BY DEF CallsInv, CallsOK, AreCalls, IsCall, Codes

LEMMA LoudJoined ==
    ASSUME NEW s, IsQueue(s), NEW t, IsQueue(t), NEW u, u = s \o t
    PROVE  Loud(s) \/ Loud(t) => Loud(u)
<1>1. ASSUME NEW k \in DOMAIN s, ~s[k].quiet
      PROVE  Loud(u)
    <2>1. k \in DOMAIN u /\ u[k] = s[k]
        BY Joined
    <2> QED BY <1>1, <2>1 DEF Loud
<1>2. ASSUME NEW k \in DOMAIN t, ~t[k].quiet
      PROVE  Loud(u)
    <2>1. Len(s) + k \in DOMAIN u /\ u[Len(s) + k] = t[k]
        BY Joined
    <2> QED BY <1>2, <2>1 DEF Loud
<1> QED BY <1>1, <1>2 DEF Loud

LEMMA CarriesKeepsCalls ==
    ASSUME NEW ops, CallsInv(ops), Carries(ops)
    PROVE  CallsInv(ops)'
<1>1. steps' \in Nat /\ mishaps' \subseteq Mishaps /\ busy' \in BOOLEAN
    BY DEF CallsInv, Carries
<1>2. ASSUME NEW asked, AreCalls(asked, ops), calls' = calls \o asked
      PROVE  AreCalls(calls', ops)
    BY <1>2, BothAreCalls DEF CallsInv
<1>3. ASSUME NEW i \in DOMAIN calls, NEW asked, AreCalls(asked, ops),
             calls' = Without(calls, i) \o asked
      PROVE  AreCalls(calls', ops)
    BY <1>3, BothAreCalls, OthersAreCalls DEF CallsInv
<1>4. ASSUME NEW i \in DOMAIN calls, NEW a, a.code \in Codes, calls' = Answered(calls, i, a)
      PROVE  AreCalls(calls', ops)
    BY <1>4, AnsweredCall DEF CallsInv
<1>5. ASSUME NEW asked, AreCalls(asked, ops), calls' = asked
      PROVE  AreCalls(calls', ops)
    BY <1>5
<1>6. ASSUME calls' = calls
      PROVE  AreCalls(calls', ops)
    BY <1>6 DEF CallsInv
<1>7. AreCalls(calls', ops)
    BY <1>2, <1>3, <1>4, <1>5, <1>6 DEF Carries
<1> QED BY <1>1, <1>7 DEF CallsInv

\* The overlay is up only while a request is under way that takes it down.
LEMMA MovesKeepOverlay ==
    ASSUME NEW ops, CallsInv(ops), Moves(ops), OverlayHasCall
    PROVE  OverlayHasCall'
<1> SUFFICES ASSUME busy' PROVE Loud(calls')
    BY DEF OverlayHasCall, Loud
<1>0. IsQueue(calls) /\ (busy => Loud(calls))
    BY DEF CallsInv, AreCalls, OverlayHasCall, Loud
<1>1. ASSUME NEW asked, AreCalls(asked, ops), calls' = calls \o asked,
             busy' => busy \/ Loud(asked)
      PROVE  Loud(calls')
    BY <1>0, <1>1, LoudJoined DEF AreCalls
<1>2. ASSUME NEW i \in DOMAIN calls, NEW asked, AreCalls(asked, ops),
             calls' = Without(calls, i) \o asked,
             busy' => Loud(asked) \/ (busy /\ calls[i].quiet)
      PROVE  Loud(calls')
    <2> DEFINE r == Without(calls, i)
    <2>1. /\ \A k \in DOMAIN calls : k < i => k \in DOMAIN r /\ r[k] = calls[k]
          /\ \A k \in DOMAIN calls : k > i => k - 1 \in DOMAIN r /\ r[k - 1] = calls[k]
          /\ IsQueue(r)
        BY <1>0, Removed
    <2> HIDE DEF r
    <2>2. busy /\ calls[i].quiet => Loud(r)
        <3> SUFFICES ASSUME busy, calls[i].quiet PROVE Loud(r)
            OBVIOUS
        <3>1. PICK k \in DOMAIN calls : ~calls[k].quiet
            BY <1>0 DEF Loud
        <3>2. k \in Nat /\ i \in Nat /\ k # i
            BY <1>0, <3>1, QueueFacts
        <3>3. k < i \/ k > i
            BY <3>2
        <3>4. PICK l \in DOMAIN r : r[l] = calls[k]
            BY <2>1, <3>3
        <3> QED BY <3>1, <3>4 DEF Loud
    <2>3. Loud(r) \/ Loud(asked)
        BY <1>2, <2>2
    <2> QED BY <1>2, <2>1, <2>3, LoudJoined DEF AreCalls, r
<1>3. ASSUME NEW i \in DOMAIN calls, NEW a, a.code \in Codes, calls' = Answered(calls, i, a),
             busy' = busy
      PROVE  Loud(calls')
    <2>1. PICK k \in DOMAIN calls : ~calls[k].quiet
        BY <1>0, <1>3 DEF Loud
    <2>2. k \in DOMAIN calls' /\ calls'[k].quiet = calls[k].quiet
        BY <1>3, AnsweredCall DEF CallsInv
    <2> QED BY <2>1, <2>2 DEF Loud
<1>4. ASSUME UNCHANGED <<calls, busy>>
      PROVE  Loud(calls')
    BY <1>0, <1>4
<1>5. ASSUME NEW asked, calls' = asked, busy' => Loud(asked)
      PROVE  Loud(calls')
    BY <1>5
<1> QED BY <1>1, <1>2, <1>3, <1>4, <1>5 DEF Moves

-----------------------------------------------------------------------------
(* The steps of Page are of these.                                         *)

\* A click, and a failure, whatever the bounds.
Clicked(asked) == ~busy /\ Sends(asked) /\ steps' = steps + 1
FailedWith(i, answer) ==
    /\ calls' = Answered(calls, i, answer) /\ steps' = steps + 1
    /\ "failed" \notin mishaps /\ mishaps' = mishaps \cup {"failed"}
    /\ UNCHANGED <<view, server, busy>>

LEMMA SendsMoves ==
    ASSUME NEW ops, NEW asked, AreCalls(asked, ops), Sends(asked),
           steps' = steps \/ steps' = steps + 1
    PROVE  Moves(ops)
<1>1. /\ calls' = calls \o asked /\ busy' = (busy \/ Loud(asked))
      /\ mishaps' = mishaps \cup Overlaps(calls, asked)
      /\ Overlaps(calls, asked) \subseteq Mishaps
    BY DEF Sends, Overlaps, Mishaps
<1> QED BY <1>1 DEF Moves, Carries

LEMMA ClickMoves ==
    ASSUME NEW ops, NEW asked, AreCalls(asked, ops), Clicked(asked)
    PROVE  Moves(ops)
BY SendsMoves DEF Clicked

LEMMA UnderCarries ==
    ASSUME NEW ops, NEW i \in DOMAIN calls, NEW asked, AreCalls(asked, ops), NEW overlay \in BOOLEAN \cup {busy},
           HandledUnder(i, asked, overlay)
    PROVE  Carries(ops)
<1>1. /\ calls' = Without(calls, i) \o asked /\ busy' = overlay /\ steps' = steps
      /\ mishaps' = mishaps \cup Crosses(i) \cup Overlaps(Without(calls, i), asked)
    BY DEF HandledUnder
<1>2. Crosses(i) \subseteq Mishaps /\ Overlaps(Without(calls, i), asked) \subseteq Mishaps
    BY DEF Crosses, Overlaps, Mishaps
<1> QED BY <1>1, <1>2 DEF Carries

LEMMA HandledMoves ==
    ASSUME NEW ops, NEW i \in DOMAIN calls, NEW asked, AreCalls(asked, ops), Handled(i, asked)
    PROVE  Moves(ops)
<1>1. /\ calls' = Without(calls, i) \o asked /\ steps' = steps
      /\ busy' = (Loud(asked) \/ (busy /\ calls[i].quiet /\ calls[i].answer # Failed))
      /\ mishaps' = mishaps \cup Crosses(i) \cup Overlaps(Without(calls, i), asked)
    BY DEF Handled
<1>2. Crosses(i) \subseteq Mishaps /\ Overlaps(Without(calls, i), asked) \subseteq Mishaps
    BY DEF Crosses, Overlaps, Mishaps
<1> QED BY <1>1, <1>2 DEF Moves, Carries

LEMMA ReplyMoves ==
    ASSUME NEW ops, NEW i \in DOMAIN calls, NEW a, a.code \in Codes, Reply(i, a)
    PROVE  Moves(ops)
BY DEF Reply, Answered, Moves, Carries

LEMMA FailureMoves ==
    ASSUME NEW ops, NEW i \in DOMAIN calls, NEW a, a.code \in Codes, FailedWith(i, a)
    PROVE  Moves(ops)
BY DEF FailedWith, Answered, Moves, Carries, Mishaps

\* The answers.
LEMMA AnswersHaveCodes ==
    /\ Waiting.code \in Codes /\ Failed.code \in Codes /\ Refused.code \in Codes
    /\ \A data : Ok(data).code \in Codes
BY DEF Waiting, Failed, Refused, Ok, Codes

\* A page sends one request, loud or quiet or of one of its parts.
LEMMA OneAsked ==
    ASSUME NEW ops, NEW op \in ops, NEW arg, NEW part
    PROVE  /\ AreCalls(<<Ask(op, arg)>>, ops) /\ AreCalls(<<AskQuietly(op, arg)>>, ops)
           /\ AreCalls(<<AskFrom(part, op, arg)>>, ops)
<1>1. /\ IsCall(Call(op, arg, FALSE, 0), ops) /\ IsCall(Call(op, arg, TRUE, 0), ops)
      /\ IsCall(Call(op, arg, FALSE, part), ops)
    BY CallIsCall
<1>2. /\ Ask(op, arg) = Call(op, arg, FALSE, 0) /\ AskQuietly(op, arg) = Call(op, arg, TRUE, 0)
      /\ AskFrom(part, op, arg) = Call(op, arg, FALSE, part)
    BY DEF Ask, AskQuietly, AskFrom
<1> QED BY <1>1, <1>2, OneIsCalls

\* A page is created with the requests of its hooks.
LEMMA CreatedHasCalls ==
    ASSUME NEW ops, NEW asked, AreCalls(asked, ops), Created(asked)
    PROVE  CallsInv(ops) /\ OverlayHasCall
<1>1. /\ calls = asked /\ steps = 0 /\ mishaps = {} /\ busy \in BOOLEAN
      /\ busy => Loud(calls)
    BY DEF Created, Loud
<1> QED BY <1>1 DEF CallsInv, OverlayHasCall, Loud
-----------------------------------------------------------------------------
(* The numbers of a set in their order, and what is picked by them.        *)

LEMMA NatMin ==
    ASSUME NEW I, I \subseteq Nat, I # {}
    PROVE  \E x \in I : \A y \in I : x <= y
<1> DEFINE R == OpToRel(<, Nat)
<1>1. PICK x \in I : \A y \in I : ~(<<y, x>> \in R)
    BY NatLessThanWellFounded, WFMin
<1>2. \A y \in I : <<y, x>> \in Nat \X Nat /\ <<y, x>>[1] = y /\ <<y, x>>[2] = x
    BY <1>1
<1>3. \A y \in I : ~(y < x)
    BY <1>1, <1>2 DEF OpToRel
<1>4. \A y \in I : x \in Nat /\ y \in Nat
    BY <1>1
<1>5. \A y \in I : x <= y
    BY <1>3, <1>4
<1> QED BY <1>1, <1>5

\* f lists the elements of S, the smaller before the greater.
Lists(f, S, n) ==
    /\ f \in [1 .. n -> S]
    /\ \A i, j \in 1 .. n : i < j => f[i] < f[j]

\* A finite set of numbers can be listed: with the least element of one of the
\* smallest sets that cannot, the others cannot be listed either.
LEMMA CanBeListed ==
    ASSUME NEW S \in SUBSET Nat, IsFiniteSet(S)
    PROVE  \E f : Lists(f, S, Cardinality(S))
<1> DEFINE Bad(n) == \E T \in SUBSET Nat : /\ IsFiniteSet(T) /\ Cardinality(T) = n
                                           /\ ~ \E f : Lists(f, T, n)
           B == {n \in Nat : Bad(n)}
<1>1. Cardinality(S) \in Nat
    BY FS_CardinalityType
<1> SUFFICES ASSUME B # {} PROVE FALSE
    BY <1>1
<1>2. PICK n \in B : \A m \in B : n <= m
    BY NatMin
<1>3. PICK T \in SUBSET Nat : IsFiniteSet(T) /\ Cardinality(T) = n /\ ~ \E f : Lists(f, T, n)
    BY <1>2
<1>4. n \in Nat
    BY <1>2
<1>5. n # 0
    <2> SUFFICES ASSUME n = 0 PROVE FALSE
        OBVIOUS
    <2> DEFINE f == [i \in 1 .. 0 |-> 0]
    <2>1. Lists(f, T, n)
        BY DEF Lists
    <2> QED BY <2>1, <1>3
<1>6. T # {}
    BY <1>3, <1>5, FS_EmptySet
<1>7. PICK x \in T : \A y \in T : x <= y
    BY <1>3, <1>6, NatMin
<1> DEFINE U == T \ {x}
<1>8. IsFiniteSet(U) /\ Cardinality(U) = n - 1
    BY <1>3, <1>7, FS_RemoveElement
<1>9. n - 1 \in Nat /\ ~(n <= n - 1)
    BY <1>4, <1>5
<1>10. PICK g : Lists(g, U, n - 1)
    <2>1. n - 1 \notin B
        BY <1>2, <1>9
    <2> QED BY <2>1, <1>3, <1>8, <1>9
<1> DEFINE f == [i \in 1 .. n |-> IF i = 1 THEN x ELSE g[i - 1]]
<1>11. \A i \in 1 .. n : i # 1 => i - 1 \in 1 .. n - 1
    BY <1>4
<1>12. \A i \in 1 .. n - 1 : g[i] \in U
    BY <1>10 DEF Lists
<1>13. f \in [1 .. n -> T]
    BY <1>7, <1>11, <1>12
<1>14. ASSUME NEW i \in 1 .. n, NEW j \in 1 .. n, i < j
       PROVE  f[i] < f[j]
    <2>1. j # 1 /\ j - 1 \in 1 .. n - 1
        BY <1>4, <1>14
    <2>2. f[j] = g[j - 1] /\ g[j - 1] \in T /\ g[j - 1] # x
        BY <2>1, <1>12
    <2>3. CASE i = 1
        <3>1. f[i] = x /\ x \in Nat /\ g[j - 1] \in Nat /\ x <= g[j - 1]
            BY <2>2, <2>3, <1>7, <1>3
        <3> QED BY <3>1, <2>2
    <2>4. CASE i # 1
        <3>1. i - 1 \in 1 .. n - 1 /\ i - 1 < j - 1
            BY <2>4, <1>14, <1>4
        <3>2. g[i - 1] < g[j - 1]
            BY <3>1, <2>1, <1>10 DEF Lists
        <3> QED BY <3>2, <2>2, <2>4
    <2> QED BY <2>3, <2>4
<1>15. Lists(f, T, n)
    BY <1>13, <1>14 DEF Lists
<1> QED BY <1>3, <1>15

LEMMA AscendingLists ==
    ASSUME NEW S \in SUBSET Nat, IsFiniteSet(S), NEW f, f = Ascending(S)
    PROVE  /\ Cardinality(S) \in Nat
           /\ f \in [1 .. Cardinality(S) -> S] /\ f \in Seq(S)
           /\ DOMAIN f = 1 .. Cardinality(S) /\ Len(f) = Cardinality(S)
           /\ \A i, j \in DOMAIN f : i < j => f[i] < f[j]
<1>1. Cardinality(S) \in Nat
    BY FS_CardinalityType
<1>2. \E g \in [1 .. Cardinality(S) -> S] : \A i, j \in DOMAIN g : i < j => g[i] < g[j]
    BY CanBeListed DEF Lists
<1>3. f \in [1 .. Cardinality(S) -> S] /\ \A i, j \in DOMAIN f : i < j => f[i] < f[j]
    BY <1>2 DEF Ascending
<1>4. f \in Seq(S) /\ DOMAIN f = 1 .. Cardinality(S)
    BY <1>1, <1>3, SeqDef
<1>5. Len(f) = Cardinality(S)
    BY <1>1, <1>4
<1> QED BY <1>1, <1>3, <1>4, <1>5

\* What is picked from a sequence is some of it, in its order.
LEMMA PickedRows ==
    ASSUME NEW rows, IsQueue(rows), NEW places \in SUBSET DOMAIN rows,
           NEW p, p = Picked(rows, places)
    PROVE  /\ IsQueue(p) /\ Len(p) \in Nat /\ Len(p) <= Len(rows)
           /\ \A n \in DOMAIN p : \E k \in places : p[n] = rows[k]
           /\ \A m, n \in DOMAIN p : m < n =>
                \E j, k \in places : j < k /\ p[m] = rows[j] /\ p[n] = rows[k]
<1> DEFINE f == Ascending(places)
<1>1. /\ Len(rows) \in Nat /\ DOMAIN rows = 1 .. Len(rows)
    BY QueueFacts
<1>2. /\ places \in SUBSET Nat /\ IsFiniteSet(places)
      /\ Cardinality(places) <= Len(rows)
    <2>1. IsFiniteSet(1 .. Len(rows)) /\ Cardinality(1 .. Len(rows)) = Len(rows)
        BY <1>1, FS_Interval
    <2> QED BY <1>1, <2>1, FS_Subset
<1>3. /\ Cardinality(places) \in Nat
      /\ f \in [1 .. Cardinality(places) -> places]
      /\ DOMAIN f = 1 .. Cardinality(places)
      /\ \A i, j \in DOMAIN f : i < j => f[i] < f[j]
    BY <1>2, AscendingLists
<1> HIDE DEF f
<1>4. p = [n \in DOMAIN f |-> rows[f[n]]]
    BY DEF Picked, f
<1>5. p \in [1 .. Cardinality(places) -> Range(rows)]
    <2>1. \A n \in DOMAIN f : rows[f[n]] \in Range(rows)
        BY <1>3, QueueFacts
    <2> QED BY <2>1, <1>3, <1>4
<1>6. p \in Seq(Range(rows)) /\ Len(p) = Cardinality(places)
    BY <1>3, <1>5, SeqDef
<1>7. IsQueue(p) /\ Len(p) \in Nat /\ Len(p) <= Len(rows)
    BY <1>2, <1>3, <1>6, QueueOfSome
<1>8. \A n \in DOMAIN p : f[n] \in places /\ p[n] = rows[f[n]]
    BY <1>3, <1>4
<1>9. ASSUME NEW m \in DOMAIN p, NEW n \in DOMAIN p, m < n
      PROVE  \E j, k \in places : j < k /\ p[m] = rows[j] /\ p[n] = rows[k]
    BY <1>3, <1>4, <1>8, <1>9
<1> QED BY <1>7, <1>8, <1>9

\* A page of a table is some of its rows.
LEMMA ChunkOfRows ==
    ASSUME NEW rows, IsQueue(rows), NEW size \in Nat, NEW page \in Nat \ {0},
           NEW c, c = Chunk(rows, size, page)
    PROVE  /\ IsQueue(c) /\ \A n \in DOMAIN c : \E k \in DOMAIN rows : c[n] = rows[k]
<1> DEFINE m == (page - 1) * size + 1
           n == IF page * size < Len(rows) THEN page * size ELSE Len(rows)
<1>1. Len(rows) \in Nat /\ DOMAIN rows = 1 .. Len(rows)
    BY QueueFacts
<1>2. m \in Int /\ n \in Int /\ n <= Len(rows) /\ c = SubSeq(rows, m, n)
    BY <1>1 DEF Chunk
<1>3. m >= 1 \/ n < m
    <2>1. page - 1 \in Nat
        OBVIOUS
    <2>2. (page - 1) * size \in Nat
        BY <2>1
    <2> QED BY <2>2
<1> HIDE DEF m, n
<1>4. CASE n < m
    <2>1. c = <<>>
        BY <1>2, <1>4
    <2> QED BY <2>1, NoneAreCalls DEF AreCalls
<1>5. CASE ~(n < m)
    <2>1. \A i \in m .. n : i \in DOMAIN rows /\ rows[i] \in Range(rows)
        BY <1>1, <1>2, <1>3, <1>5, QueueFacts
    <2>2. /\ c \in Seq(Range(rows)) /\ Len(c) = n - m + 1
          /\ \A i \in 1 .. n - m + 1 : c[i] = rows[m + i - 1]
        BY <1>2, <1>5, <2>1
    <2>3. DOMAIN c = 1 .. n - m + 1
        BY <2>2
    <2>4. \A i \in 1 .. n - m + 1 : m + i - 1 \in m .. n
        BY <1>2, <1>5
    <2> QED BY <2>1, <2>2, <2>3, <2>4, QueueOfSome
<1> QED BY <1>4, <1>5


\* A set that is enumerated, one way or another.
LEMMA EnumeratedSet ==
    ASSUME NEW S, IsFiniteSet(S), NEW f,
           (\E g : g \in Bijection(1 .. Cardinality(S), S)) => f \in Bijection(1 .. Cardinality(S), S)
    PROVE  /\ IsQueue(f) /\ f \in Seq(S) /\ DOMAIN f = 1 .. Cardinality(S)
           /\ \A e \in S : \E k \in DOMAIN f : f[k] = e
<1> DEFINE n == Cardinality(S)
<1>1. n \in Nat /\ \E g : g \in Bijection(1 .. n, S)
    BY FS_CardinalityType DEF ExistsBijection
<1>2. f \in Bijection(1 .. n, S)
    BY <1>1
<1>3. /\ f \in [1 .. n -> S] /\ DOMAIN f = 1 .. n
      /\ \A e \in S : \E k \in 1 .. n : f[k] = e
    BY <1>2 DEF Bijection, Injection, Surjection
<1>4. f \in Seq(S)
    BY <1>1, <1>3, SeqDef
<1>5. IsQueue(f)
    BY <1>4, QueueOfSome
<1> QED BY <1>3, <1>4, <1>5
-----------------------------------------------------------------------------
(* The requests of a page, one by one.                                     *)

LEMMA SetOfJoined ==
    ASSUME NEW s, IsQueue(s), NEW t, IsQueue(t), NEW u, u = s \o t
    PROVE  Range(u) = Range(s) \cup Range(t)
<1>1. /\ \A k \in DOMAIN s : k \in DOMAIN u /\ u[k] = s[k]
      /\ \A k \in DOMAIN t : Len(s) + k \in DOMAIN u /\ u[Len(s) + k] = t[k]
      /\ \A k \in DOMAIN u : k \in DOMAIN s \/ (k > Len(s) /\ k - Len(s) \in DOMAIN t)
      /\ IsQueue(u)
    BY Joined
<1>2. \A k \in DOMAIN u : u[k] \in Range(s) \cup Range(t)
    <2> SUFFICES ASSUME NEW k \in DOMAIN u PROVE u[k] \in Range(s) \cup Range(t)
        OBVIOUS
    <2>1. CASE k \in DOMAIN s
        BY <1>1, <2>1 DEF Range
    <2>2. CASE k > Len(s) /\ k - Len(s) \in DOMAIN t
        <3>1. Len(s) + (k - Len(s)) = k
            BY <1>1, QueueFacts
        <3> QED BY <1>1, <2>2, <3>1 DEF Range
    <2> QED BY <1>1, <2>1, <2>2
<1>3. \A k \in DOMAIN s : s[k] \in Range(u)
    BY <1>1 DEF Range
<1>4. \A k \in DOMAIN t : t[k] \in Range(u)
    BY <1>1 DEF Range
<1> QED BY <1>2, <1>3, <1>4 DEF Range

LEMMA SetOfRemoved ==
    ASSUME NEW s, IsQueue(s), NEW i \in DOMAIN s, NEW r, r = Without(s, i)
    PROVE  /\ Range(r) \subseteq Range(s) /\ Range(s) \subseteq Range(r) \cup {s[i]}
           /\ s[i] \in Range(s) /\ IsQueue(r)
<1>1. /\ \A k \in DOMAIN s : k < i => k \in DOMAIN r /\ r[k] = s[k]
      /\ \A k \in DOMAIN s : k > i => k - 1 \in DOMAIN r /\ r[k - 1] = s[k]
      /\ \A k \in DOMAIN r : IF k < i THEN k \in DOMAIN s ELSE k + 1 \in DOMAIN s /\ k + 1 > i
      /\ IsQueue(r)
    BY Removed
<1>2. /\ \A k \in DOMAIN r : k \in Nat
      /\ \A k \in DOMAIN s : k \in Nat
    BY <1>1, QueueFacts
<1>3. \A k \in DOMAIN r : r[k] \in Range(s)
    <2> SUFFICES ASSUME NEW k \in DOMAIN r PROVE r[k] \in Range(s)
        OBVIOUS
    <2>1. CASE k < i
        BY <1>1, <2>1 DEF Range
    <2>2. CASE ~(k < i)
        <3>1. (k + 1) - 1 = k
            BY <1>2
        <3> QED BY <1>1, <2>2, <3>1 DEF Range
    <2> QED BY <2>1, <2>2
<1>4. \A k \in DOMAIN s : k # i => s[k] \in Range(r)
    <2> SUFFICES ASSUME NEW k \in DOMAIN s, k # i PROVE s[k] \in Range(r)
        OBVIOUS
    <2>1. k < i \/ k > i
        BY <1>2
    <2> QED BY <1>1, <2>1 DEF Range
<1> QED BY <1>1, <1>3, <1>4 DEF Range

LEMMA SetOfAnswered ==
    ASSUME NEW ops, NEW s, AreCalls(s, ops), NEW i \in DOMAIN s, NEW a, a.code \in Codes,
           NEW t, t = Answered(s, i, a)
    PROVE  \A e \in Range(t) :
               \/ e \in Range(s)
               \/ /\ e.op = s[i].op /\ e.arg = s[i].arg /\ e.quiet = s[i].quiet
                  /\ e.part = s[i].part /\ e.answer = a
<1>1. /\ DOMAIN t = DOMAIN s
      /\ \A k \in DOMAIN s :
           /\ k # i => t[k] = s[k]
           /\ t[k].op = s[k].op /\ t[k].arg = s[k].arg /\ t[k].quiet = s[k].quiet
           /\ t[k].part = s[k].part
      /\ t[i].answer = a
    BY AnsweredCall
<1> QED BY <1>1 DEF Range

LEMMA OneAfterOne ==
    ASSUME NEW a, NEW b
    PROVE  <<a>> \o <<b>> = <<a, b>>
<1> DEFINE S == {a, b}
           u == <<a>> \o <<b>>
<1>1. <<a>> \in Seq(S) /\ <<b>> \in Seq(S) /\ Len(<<a>>) = 1 /\ Len(<<b>>) = 1
    OBVIOUS
<1>2. u \in Seq(S) /\ Len(u) = 2
    BY <1>1
<1>3. u[1] = a /\ u[2] = b
    BY <1>1
<1> HIDE DEF u
<1>4. u = <<u[1], u[2]>>
    BY <1>2
<1> QED BY <1>3, <1>4 DEF u

\* A step that sends asked, or handles an answer and then sends asked.
LEMMA SetOfCalls ==
    ASSUME NEW ops, AreCalls(calls, ops), NEW asked, AreCalls(asked, ops)
    PROVE  /\ calls' = calls \o asked =>
                Range(calls') = Range(calls) \cup Range(asked)
           /\ \A i \in DOMAIN calls : calls' = Without(calls, i) \o asked =>
                /\ Range(calls') \subseteq Range(calls) \cup Range(asked)
                /\ Range(calls) \subseteq Range(calls') \cup {calls[i]}
                /\ Range(asked) \subseteq Range(calls')
<1>1. ASSUME calls' = calls \o asked
      PROVE  Range(calls') = Range(calls) \cup Range(asked)
    BY <1>1, SetOfJoined DEF AreCalls
<1>2. ASSUME NEW i \in DOMAIN calls, calls' = Without(calls, i) \o asked
      PROVE  /\ Range(calls') \subseteq Range(calls) \cup Range(asked)
             /\ Range(calls) \subseteq Range(calls') \cup {calls[i]}
             /\ Range(asked) \subseteq Range(calls')
    <2> DEFINE r == Without(calls, i)
    <2>1. /\ Range(r) \subseteq Range(calls) /\ Range(calls) \subseteq Range(r) \cup {calls[i]}
          /\ IsQueue(r)
        BY SetOfRemoved DEF AreCalls
    <2> HIDE DEF r
    <2>2. Range(calls') = Range(r) \cup Range(asked)
        BY <1>2, <2>1, SetOfJoined DEF AreCalls, r
    <2> QED BY <2>1, <2>2
<1> QED BY <1>1, <1>2

\* The set of one request, and of none.
LEMMA SetOfFew ==
    /\ Range(<<>>) = {}
    /\ \A a : Range(<<a>>) = {a}
    /\ \A a, b : Range(<<a, b>>) = {a, b}
<1>1. Range(<<>>) = {}
    <2>1. DOMAIN <<>> = {}
        OBVIOUS
    <2> QED BY <2>1 DEF Range
<1>2. ASSUME NEW a PROVE Range(<<a>>) = {a}
    <2>1. DOMAIN <<a>> = {1} /\ <<a>>[1] = a
        OBVIOUS
    <2> QED BY <2>1 DEF Range
<1>3. ASSUME NEW a, NEW b PROVE Range(<<a, b>>) = {a, b}
    <2>1. DOMAIN <<a, b>> = {1, 2} /\ <<a, b>>[1] = a /\ <<a, b>>[2] = b
        OBVIOUS
    <2> QED BY <2>1 DEF Range
<1> QED BY <1>1, <1>2, <1>3

LEMMA AskedCall ==
    ASSUME NEW ops, NEW op, op \in ops, NEW arg, NEW part, NEW c, c = AskFrom(part, op, arg)
    PROVE  /\ IsCall(c, ops) /\ c.op = op /\ c.arg = arg /\ ~c.quiet /\ c.part = part
           /\ c.answer = Waiting
BY DEF AskFrom, Call, IsCall, Waiting, Codes

LEMMA ManyAreCalls ==
    ASSUME NEW ops, NEW n \in Nat, NEW f, DOMAIN f = 1 .. n, f = [k \in 1 .. n |-> f[k]],
           \A k \in 1 .. n : IsCall(f[k], ops)
    PROVE  AreCalls(f, ops)
<1>1. f \in [1 .. n -> {f[k] : k \in 1 .. n}]
    OBVIOUS
<1>2. f \in Seq({f[k] : k \in 1 .. n})
    BY <1>1, SeqDef
<1> QED BY <1>2, QueueOfSome DEF AreCalls

\* What the history says of two requests of one kind.
LEMMA OverlapIsTold ==
    ASSUME NEW s, NEW asked, NEW e \in Range(s), NEW f \in Range(asked), e.op = f.op, e.part = f.part
    PROVE  "overlapped" \in Overlaps(s, asked)
<1>1. PICK j \in DOMAIN s : s[j] = e
    BY DEF Range
<1>2. PICK k \in DOMAIN asked : asked[k] = f
    BY DEF Range
<1>3. <<e.op, e.part>> \in SentOps(s) \cap SentOps(asked)
    BY <1>1, <1>2 DEF SentOps
<1> QED BY <1>3 DEF Overlaps

LEMMA ClickedSet ==
    ASSUME NEW ops, AreCalls(calls, ops), NEW asked, AreCalls(asked, ops), Clicked(asked)
    PROVE  /\ Range(calls') = Range(calls) \cup Range(asked)
           /\ server' = server /\ ~busy /\ (busy' => Loud(asked)) /\ mishaps \subseteq mishaps'
           /\ \A e \in Range(calls), f \in Range(asked) :
                e.op = f.op /\ e.part = f.part => "overlapped" \in mishaps'
<1>1. /\ calls' = calls \o asked /\ server' = server /\ ~busy /\ busy' = (busy \/ Loud(asked))
      /\ mishaps' = mishaps \cup Overlaps(calls, asked)
    BY DEF Clicked, Sends
<1>2. Range(calls') = Range(calls) \cup Range(asked)
    BY <1>1, SetOfCalls
<1>3. \A e \in Range(calls), f \in Range(asked) :
        e.op = f.op /\ e.part = f.part => "overlapped" \in mishaps'
    BY <1>1, OverlapIsTold
<1> QED BY <1>1, <1>2, <1>3

LEMMA HandledSet ==
    ASSUME NEW ops, AreCalls(calls, ops), NEW i \in DOMAIN calls, NEW asked, AreCalls(asked, ops),
           Handled(i, asked)
    PROVE  /\ Range(calls') \subseteq Range(calls) \cup Range(asked)
           /\ Range(calls) \subseteq Range(calls') \cup {calls[i]}
           /\ Range(asked) \subseteq Range(calls')
           /\ calls[i] \in Range(calls) /\ IsCall(calls[i], ops)
           /\ server' = server /\ steps' = steps /\ mishaps \subseteq mishaps'
<1>1. /\ calls' = Without(calls, i) \o asked /\ server' = server /\ steps' = steps
      /\ mishaps \subseteq mishaps'
    BY DEF Handled
<1>2. /\ Range(calls') \subseteq Range(calls) \cup Range(asked)
      /\ Range(calls) \subseteq Range(calls') \cup {calls[i]}
      /\ Range(asked) \subseteq Range(calls')
    BY <1>1, SetOfCalls
<1>3. calls[i] \in Range(calls) /\ IsCall(calls[i], ops)
    BY DEF AreCalls, Range
<1> QED BY <1>1, <1>2, <1>3

\* An answer of the manager, and the loss of one.
LEMMA AnsweredSet ==
    ASSUME NEW ops, AreCalls(calls, ops), NEW i \in DOMAIN calls, NEW a, a.code \in Codes,
           calls' = Answered(calls, i, a)
    PROVE  /\ \A e \in Range(calls') :
                \/ e \in Range(calls)
                \/ /\ e.op = calls[i].op /\ e.arg = calls[i].arg /\ e.quiet = calls[i].quiet
                   /\ e.part = calls[i].part /\ e.answer = a
           /\ \A e \in Range(calls) : \E f \in Range(calls') : f.op = e.op /\ f.arg = e.arg
           /\ calls[i] \in Range(calls) /\ IsCall(calls[i], ops)
<1>1. /\ DOMAIN calls' = DOMAIN calls
      /\ \A k \in DOMAIN calls : calls'[k].op = calls[k].op /\ calls'[k].arg = calls[k].arg
    BY AnsweredCall
<1>2. \A e \in Range(calls) : \E f \in Range(calls') : f.op = e.op /\ f.arg = e.arg
    BY <1>1 DEF Range
<1>3. calls[i] \in Range(calls) /\ IsCall(calls[i], ops)
    BY DEF AreCalls, Range
<1>4. \A e \in Range(calls') :
         \/ e \in Range(calls)
         \/ /\ e.op = calls[i].op /\ e.arg = calls[i].arg /\ e.quiet = calls[i].quiet
            /\ e.part = calls[i].part /\ e.answer = a
    BY SetOfAnswered
<1> QED BY <1>2, <1>3, <1>4

LEMMA ReplyIsAnswered ==
    ASSUME NEW i, NEW a, Reply(i, a)
    PROVE  calls' = Answered(calls, i, a) /\ UNCHANGED <<view, busy, steps, mishaps>>
BY DEF Reply, Answered

LEMMA SFIsPage ==
    /\ \A op, arg : SF!Ask(op, arg) = Ask(op, arg) /\ SF!AskQuietly(op, arg) = AskQuietly(op, arg)
    /\ \A part, op, arg : SF!AskFrom(part, op, arg) = AskFrom(part, op, arg)
    /\ SF!Waiting = Waiting /\ SF!Failed = Failed /\ SF!Refused = Refused
    /\ \A d : SF!Ok(d) = Ok(d)
    /\ \A asked : SF!Created(asked) <=> Created(asked)
    /\ \A asked : SF!Sends(asked) <=> Sends(asked)
    /\ \A asked : SF!Click(asked) => Clicked(asked)
    /\ \A i, asked : SF!Handled(i, asked) <=> Handled(i, asked)
    /\ \A i, asked, o : SF!HandledUnder(i, asked, o) <=> HandledUnder(i, asked, o)
    /\ \A i, a : SF!Reply(i, a) <=> Reply(i, a)
    /\ \A i : SF!Fail(i) => FailedWith(i, Failed)
    /\ \A i : SF!Refuse(i) => FailedWith(i, Refused)
<1>1. /\ \A asked : SF!Loud(asked) <=> Loud(asked)
      /\ \A s, asked : SF!Overlaps(s, asked) = Overlaps(s, asked)
      /\ \A i : SF!Crosses(i) = Crosses(i)
      /\ \A s, i : SF!Without(s, i) = Without(s, i)
    BY DEF SF!Loud, Loud, SF!Overlaps, SF!SentOps, Overlaps, SentOps, SF!Crosses, Crosses,
           SF!Without, Without
<1>2. SF!Waiting = Waiting /\ SF!Failed = Failed /\ SF!Refused = Refused /\ \A d : SF!Ok(d) = Ok(d)
    BY DEF SF!Waiting, Waiting, SF!Failed, Failed, SF!Refused, Refused, SF!Ok, Ok
<1>3. /\ \A op, arg : SF!Ask(op, arg) = Ask(op, arg) /\ SF!AskQuietly(op, arg) = AskQuietly(op, arg)
      /\ \A part, op, arg : SF!AskFrom(part, op, arg) = AskFrom(part, op, arg)
    BY <1>2 DEF SF!Ask, Ask, SF!AskQuietly, AskQuietly, SF!AskFrom, AskFrom, SF!Call, Call
<1>4. \A asked : SF!Created(asked) <=> Created(asked)
    BY <1>1 DEF SF!Created, Created
<1>5. \A asked : SF!Sends(asked) <=> Sends(asked)
    BY <1>1 DEF SF!Sends, Sends
<1>6. \A asked : SF!Click(asked) => Clicked(asked)
    BY <1>5 DEF SF!Click, SF!UserActs, Clicked
<1>7. \A i, asked : SF!Handled(i, asked) <=> Handled(i, asked)
    BY <1>1, <1>2 DEF SF!Handled, Handled
<1>8. \A i, asked, o : SF!HandledUnder(i, asked, o) <=> HandledUnder(i, asked, o)
    BY <1>1 DEF SF!HandledUnder, HandledUnder
<1>9. \A i, a : SF!Reply(i, a) <=> Reply(i, a)
    BY <1>2 DEF SF!Reply, Reply, SF!IsWaiting, IsWaiting
<1>10. /\ \A i : SF!Fail(i) => FailedWith(i, Failed)
       /\ \A i : SF!Refuse(i) => FailedWith(i, Refused)
    BY <1>2 DEF SF!Fail, SF!Refuse, SF!FailsWith, SF!UserActs, FailedWith, Answered
<1> QED BY <1>2, <1>3, <1>4, <1>5, <1>6, <1>7, <1>8, <1>9, <1>10

LEMMA SFMoves ==
    /\ AreCalls(<<>>, SF!Requests)
    /\ \A op \in SF!Requests : \A arg :
          AreCalls(<<SF!Ask(op, arg)>>, SF!Requests)
          /\ AreCalls(<<SF!AskQuietly(op, arg)>>, SF!Requests)
    /\ \A op \in SF!Requests : \A part, arg : AreCalls(<<SF!AskFrom(part, op, arg)>>, SF!Requests)
    /\ \A asked : AreCalls(asked, SF!Requests) /\ SF!Click(asked) => Moves(SF!Requests)
    /\ \A asked : AreCalls(asked, SF!Requests) /\ SF!Sends(asked)
                    /\ (steps' = steps \/ steps' = steps + 1) => Moves(SF!Requests)
    /\ \A i \in DOMAIN calls :
          /\ \A asked : AreCalls(asked, SF!Requests) /\ SF!Handled(i, asked) => Moves(SF!Requests)
          /\ \A d : SF!Reply(i, SF!Ok(d)) => Moves(SF!Requests)
          /\ SF!Reply(i, SF!Refused) \/ SF!Fail(i) \/ SF!Refuse(i) => Moves(SF!Requests)
<1>1. /\ \A op \in SF!Requests : \A arg : AreCalls(<<Ask(op, arg)>>, SF!Requests)
                                          /\ AreCalls(<<AskQuietly(op, arg)>>, SF!Requests)
      /\ \A op \in SF!Requests : \A part, arg : AreCalls(<<AskFrom(part, op, arg)>>, SF!Requests)
    BY OneAsked
<1>2. \A asked : AreCalls(asked, SF!Requests) /\ SF!Click(asked) => Moves(SF!Requests)
    BY SFIsPage, ClickMoves
<1>3. \A asked : AreCalls(asked, SF!Requests) /\ SF!Sends(asked)
                   /\ (steps' = steps \/ steps' = steps + 1) => Moves(SF!Requests)
    BY SFIsPage, SendsMoves
<1>4. ASSUME NEW i \in DOMAIN calls
      PROVE  /\ \A asked : AreCalls(asked, SF!Requests) /\ SF!Handled(i, asked)
                             => Moves(SF!Requests)
             /\ \A d : SF!Reply(i, SF!Ok(d)) => Moves(SF!Requests)
             /\ SF!Reply(i, SF!Refused) => Moves(SF!Requests)
             /\ SF!Fail(i) \/ SF!Refuse(i) => Moves(SF!Requests)
    <2>1. \A asked : AreCalls(asked, SF!Requests) /\ SF!Handled(i, asked) => Moves(SF!Requests)
        BY SFIsPage, HandledMoves
    <2>2. \A d : SF!Reply(i, SF!Ok(d)) => Moves(SF!Requests)
        BY SFIsPage, ReplyMoves, AnswersHaveCodes
    <2>3. SF!Reply(i, SF!Refused) => Moves(SF!Requests)
        BY SFIsPage, ReplyMoves, AnswersHaveCodes
    <2>4. SF!Fail(i) \/ SF!Refuse(i) => Moves(SF!Requests)
        BY SFIsPage, FailureMoves, AnswersHaveCodes
    <2> QED BY <2>1, <2>2, <2>3, <2>4
<1> QED BY <1>1, <1>2, <1>3, <1>4, NoneAreCalls, SFIsPage

LEMMA SLIsPage ==
    /\ \A op, arg : SL!Ask(op, arg) = Ask(op, arg) /\ SL!AskQuietly(op, arg) = AskQuietly(op, arg)
    /\ \A part, op, arg : SL!AskFrom(part, op, arg) = AskFrom(part, op, arg)
    /\ SL!Waiting = Waiting /\ SL!Failed = Failed /\ SL!Refused = Refused
    /\ \A d : SL!Ok(d) = Ok(d)
    /\ \A asked : SL!Created(asked) <=> Created(asked)
    /\ \A asked : SL!Sends(asked) <=> Sends(asked)
    /\ \A asked : SL!Click(asked) => Clicked(asked)
    /\ \A i, asked : SL!Handled(i, asked) <=> Handled(i, asked)
    /\ \A i, asked, o : SL!HandledUnder(i, asked, o) <=> HandledUnder(i, asked, o)
    /\ \A i, a : SL!Reply(i, a) <=> Reply(i, a)
    /\ \A i : SL!Fail(i) => FailedWith(i, Failed)
    /\ \A i : SL!Refuse(i) => FailedWith(i, Refused)
<1>1. /\ \A asked : SL!Loud(asked) <=> Loud(asked)
      /\ \A s, asked : SL!Overlaps(s, asked) = Overlaps(s, asked)
      /\ \A i : SL!Crosses(i) = Crosses(i)
      /\ \A s, i : SL!Without(s, i) = Without(s, i)
    BY DEF SL!Loud, Loud, SL!Overlaps, SL!SentOps, Overlaps, SentOps, SL!Crosses, Crosses,
           SL!Without, Without
<1>2. SL!Waiting = Waiting /\ SL!Failed = Failed /\ SL!Refused = Refused /\ \A d : SL!Ok(d) = Ok(d)
    BY DEF SL!Waiting, Waiting, SL!Failed, Failed, SL!Refused, Refused, SL!Ok, Ok
<1>3. /\ \A op, arg : SL!Ask(op, arg) = Ask(op, arg) /\ SL!AskQuietly(op, arg) = AskQuietly(op, arg)
      /\ \A part, op, arg : SL!AskFrom(part, op, arg) = AskFrom(part, op, arg)
    BY <1>2 DEF SL!Ask, Ask, SL!AskQuietly, AskQuietly, SL!AskFrom, AskFrom, SL!Call, Call
<1>4. \A asked : SL!Created(asked) <=> Created(asked)
    BY <1>1 DEF SL!Created, Created
<1>5. \A asked : SL!Sends(asked) <=> Sends(asked)
    BY <1>1 DEF SL!Sends, Sends
<1>6. \A asked : SL!Click(asked) => Clicked(asked)
    BY <1>5 DEF SL!Click, SL!UserActs, Clicked
<1>7. \A i, asked : SL!Handled(i, asked) <=> Handled(i, asked)
    BY <1>1, <1>2 DEF SL!Handled, Handled
<1>8. \A i, asked, o : SL!HandledUnder(i, asked, o) <=> HandledUnder(i, asked, o)
    BY <1>1 DEF SL!HandledUnder, HandledUnder
<1>9. \A i, a : SL!Reply(i, a) <=> Reply(i, a)
    BY <1>2 DEF SL!Reply, Reply, SL!IsWaiting, IsWaiting
<1>10. /\ \A i : SL!Fail(i) => FailedWith(i, Failed)
       /\ \A i : SL!Refuse(i) => FailedWith(i, Refused)
    BY <1>2 DEF SL!Fail, SL!Refuse, SL!FailsWith, SL!UserActs, FailedWith, Answered
<1> QED BY <1>2, <1>3, <1>4, <1>5, <1>6, <1>7, <1>8, <1>9, <1>10

LEMMA STIsPage ==
    /\ \A op, arg : ST!Ask(op, arg) = Ask(op, arg) /\ ST!AskQuietly(op, arg) = AskQuietly(op, arg)
    /\ \A part, op, arg : ST!AskFrom(part, op, arg) = AskFrom(part, op, arg)
    /\ ST!Waiting = Waiting /\ ST!Failed = Failed /\ ST!Refused = Refused
    /\ \A d : ST!Ok(d) = Ok(d)
    /\ \A asked : ST!Created(asked) <=> Created(asked)
    /\ \A asked : ST!Sends(asked) <=> Sends(asked)
    /\ \A asked : ST!Click(asked) => Clicked(asked)
    /\ \A i, asked : ST!Handled(i, asked) <=> Handled(i, asked)
    /\ \A i, asked, o : ST!HandledUnder(i, asked, o) <=> HandledUnder(i, asked, o)
    /\ \A i, a : ST!Reply(i, a) <=> Reply(i, a)
    /\ \A i : ST!Fail(i) => FailedWith(i, Failed)
    /\ \A i : ST!Refuse(i) => FailedWith(i, Refused)
<1>1. /\ \A asked : ST!Loud(asked) <=> Loud(asked)
      /\ \A s, asked : ST!Overlaps(s, asked) = Overlaps(s, asked)
      /\ \A i : ST!Crosses(i) = Crosses(i)
      /\ \A s, i : ST!Without(s, i) = Without(s, i)
    BY DEF ST!Loud, Loud, ST!Overlaps, ST!SentOps, Overlaps, SentOps, ST!Crosses, Crosses,
           ST!Without, Without
<1>2. ST!Waiting = Waiting /\ ST!Failed = Failed /\ ST!Refused = Refused /\ \A d : ST!Ok(d) = Ok(d)
    BY DEF ST!Waiting, Waiting, ST!Failed, Failed, ST!Refused, Refused, ST!Ok, Ok
<1>3. /\ \A op, arg : ST!Ask(op, arg) = Ask(op, arg) /\ ST!AskQuietly(op, arg) = AskQuietly(op, arg)
      /\ \A part, op, arg : ST!AskFrom(part, op, arg) = AskFrom(part, op, arg)
    BY <1>2 DEF ST!Ask, Ask, ST!AskQuietly, AskQuietly, ST!AskFrom, AskFrom, ST!Call, Call
<1>4. \A asked : ST!Created(asked) <=> Created(asked)
    BY <1>1 DEF ST!Created, Created
<1>5. \A asked : ST!Sends(asked) <=> Sends(asked)
    BY <1>1 DEF ST!Sends, Sends
<1>6. \A asked : ST!Click(asked) => Clicked(asked)
    BY <1>5 DEF ST!Click, ST!UserActs, Clicked
<1>7. \A i, asked : ST!Handled(i, asked) <=> Handled(i, asked)
    BY <1>1, <1>2 DEF ST!Handled, Handled
<1>8. \A i, asked, o : ST!HandledUnder(i, asked, o) <=> HandledUnder(i, asked, o)
    BY <1>1 DEF ST!HandledUnder, HandledUnder
<1>9. \A i, a : ST!Reply(i, a) <=> Reply(i, a)
    BY <1>2 DEF ST!Reply, Reply, ST!IsWaiting, IsWaiting
<1>10. /\ \A i : ST!Fail(i) => FailedWith(i, Failed)
       /\ \A i : ST!Refuse(i) => FailedWith(i, Refused)
    BY <1>2 DEF ST!Fail, ST!Refuse, ST!FailsWith, ST!UserActs, FailedWith, Answered
<1> QED BY <1>2, <1>3, <1>4, <1>5, <1>6, <1>7, <1>8, <1>9, <1>10

LEMMA STMoves ==
    /\ AreCalls(<<>>, ST!Requests)
    /\ \A op \in ST!Requests : \A arg :
          AreCalls(<<ST!Ask(op, arg)>>, ST!Requests)
          /\ AreCalls(<<ST!AskQuietly(op, arg)>>, ST!Requests)
    /\ \A op \in ST!Requests : \A part, arg : AreCalls(<<ST!AskFrom(part, op, arg)>>, ST!Requests)
    /\ \A asked : AreCalls(asked, ST!Requests) /\ ST!Click(asked) => Moves(ST!Requests)
    /\ \A asked : AreCalls(asked, ST!Requests) /\ ST!Sends(asked)
                    /\ (steps' = steps \/ steps' = steps + 1) => Moves(ST!Requests)
    /\ \A i \in DOMAIN calls :
          /\ \A asked : AreCalls(asked, ST!Requests) /\ ST!Handled(i, asked) => Moves(ST!Requests)
          /\ \A d : ST!Reply(i, ST!Ok(d)) => Moves(ST!Requests)
          /\ ST!Reply(i, ST!Refused) \/ ST!Fail(i) \/ ST!Refuse(i) => Moves(ST!Requests)
<1>1. /\ \A op \in ST!Requests : \A arg : AreCalls(<<Ask(op, arg)>>, ST!Requests)
                                          /\ AreCalls(<<AskQuietly(op, arg)>>, ST!Requests)
      /\ \A op \in ST!Requests : \A part, arg : AreCalls(<<AskFrom(part, op, arg)>>, ST!Requests)
    BY OneAsked
<1>2. \A asked : AreCalls(asked, ST!Requests) /\ ST!Click(asked) => Moves(ST!Requests)
    BY STIsPage, ClickMoves
<1>3. \A asked : AreCalls(asked, ST!Requests) /\ ST!Sends(asked)
                   /\ (steps' = steps \/ steps' = steps + 1) => Moves(ST!Requests)
    BY STIsPage, SendsMoves
<1>4. ASSUME NEW i \in DOMAIN calls
      PROVE  /\ \A asked : AreCalls(asked, ST!Requests) /\ ST!Handled(i, asked)
                             => Moves(ST!Requests)
             /\ \A d : ST!Reply(i, ST!Ok(d)) => Moves(ST!Requests)
             /\ ST!Reply(i, ST!Refused) => Moves(ST!Requests)
             /\ ST!Fail(i) \/ ST!Refuse(i) => Moves(ST!Requests)
    <2>1. \A asked : AreCalls(asked, ST!Requests) /\ ST!Handled(i, asked) => Moves(ST!Requests)
        BY STIsPage, HandledMoves
    <2>2. \A d : ST!Reply(i, ST!Ok(d)) => Moves(ST!Requests)
        BY STIsPage, ReplyMoves, AnswersHaveCodes
    <2>3. ST!Reply(i, ST!Refused) => Moves(ST!Requests)
        BY STIsPage, ReplyMoves, AnswersHaveCodes
    <2>4. ST!Fail(i) \/ ST!Refuse(i) => Moves(ST!Requests)
        BY STIsPage, FailureMoves, AnswersHaveCodes
    <2> QED BY <2>1, <2>2, <2>3, <2>4
<1> QED BY <1>1, <1>2, <1>3, <1>4, NoneAreCalls, STIsPage

LEMMA RFIsPage ==
    /\ \A op, arg : RF!Ask(op, arg) = Ask(op, arg) /\ RF!AskQuietly(op, arg) = AskQuietly(op, arg)
    /\ \A part, op, arg : RF!AskFrom(part, op, arg) = AskFrom(part, op, arg)
    /\ RF!Waiting = Waiting /\ RF!Failed = Failed /\ RF!Refused = Refused
    /\ \A d : RF!Ok(d) = Ok(d)
    /\ \A asked : RF!Created(asked) <=> Created(asked)
    /\ \A asked : RF!Sends(asked) <=> Sends(asked)
    /\ \A asked : RF!Click(asked) => Clicked(asked)
    /\ \A i, asked : RF!Handled(i, asked) <=> Handled(i, asked)
    /\ \A i, asked, o : RF!HandledUnder(i, asked, o) <=> HandledUnder(i, asked, o)
    /\ \A i, a : RF!Reply(i, a) <=> Reply(i, a)
    /\ \A i : RF!Fail(i) => FailedWith(i, Failed)
    /\ \A i : RF!Refuse(i) => FailedWith(i, Refused)
<1>1. /\ \A asked : RF!Loud(asked) <=> Loud(asked)
      /\ \A s, asked : RF!Overlaps(s, asked) = Overlaps(s, asked)
      /\ \A i : RF!Crosses(i) = Crosses(i)
      /\ \A s, i : RF!Without(s, i) = Without(s, i)
    BY DEF RF!Loud, Loud, RF!Overlaps, RF!SentOps, Overlaps, SentOps, RF!Crosses, Crosses,
           RF!Without, Without
<1>2. RF!Waiting = Waiting /\ RF!Failed = Failed /\ RF!Refused = Refused /\ \A d : RF!Ok(d) = Ok(d)
    BY DEF RF!Waiting, Waiting, RF!Failed, Failed, RF!Refused, Refused, RF!Ok, Ok
<1>3. /\ \A op, arg : RF!Ask(op, arg) = Ask(op, arg) /\ RF!AskQuietly(op, arg) = AskQuietly(op, arg)
      /\ \A part, op, arg : RF!AskFrom(part, op, arg) = AskFrom(part, op, arg)
    BY <1>2 DEF RF!Ask, Ask, RF!AskQuietly, AskQuietly, RF!AskFrom, AskFrom, RF!Call, Call
<1>4. \A asked : RF!Created(asked) <=> Created(asked)
    BY <1>1 DEF RF!Created, Created
<1>5. \A asked : RF!Sends(asked) <=> Sends(asked)
    BY <1>1 DEF RF!Sends, Sends
<1>6. \A asked : RF!Click(asked) => Clicked(asked)
    BY <1>5 DEF RF!Click, RF!UserActs, Clicked
<1>7. \A i, asked : RF!Handled(i, asked) <=> Handled(i, asked)
    BY <1>1, <1>2 DEF RF!Handled, Handled
<1>8. \A i, asked, o : RF!HandledUnder(i, asked, o) <=> HandledUnder(i, asked, o)
    BY <1>1 DEF RF!HandledUnder, HandledUnder
<1>9. \A i, a : RF!Reply(i, a) <=> Reply(i, a)
    BY <1>2 DEF RF!Reply, Reply, RF!IsWaiting, IsWaiting
<1>10. /\ \A i : RF!Fail(i) => FailedWith(i, Failed)
       /\ \A i : RF!Refuse(i) => FailedWith(i, Refused)
    BY <1>2 DEF RF!Fail, RF!Refuse, RF!FailsWith, RF!UserActs, FailedWith, Answered
<1> QED BY <1>2, <1>3, <1>4, <1>5, <1>6, <1>7, <1>8, <1>9, <1>10

LEMMA RFMoves ==
    /\ AreCalls(<<>>, RF!Requests)
    /\ \A op \in RF!Requests : \A arg :
          AreCalls(<<RF!Ask(op, arg)>>, RF!Requests)
          /\ AreCalls(<<RF!AskQuietly(op, arg)>>, RF!Requests)
    /\ \A op \in RF!Requests : \A part, arg : AreCalls(<<RF!AskFrom(part, op, arg)>>, RF!Requests)
    /\ \A asked : AreCalls(asked, RF!Requests) /\ RF!Click(asked) => Moves(RF!Requests)
    /\ \A asked : AreCalls(asked, RF!Requests) /\ RF!Sends(asked)
                    /\ (steps' = steps \/ steps' = steps + 1) => Moves(RF!Requests)
    /\ \A i \in DOMAIN calls :
          /\ \A asked : AreCalls(asked, RF!Requests) /\ RF!Handled(i, asked) => Moves(RF!Requests)
          /\ \A d : RF!Reply(i, RF!Ok(d)) => Moves(RF!Requests)
          /\ RF!Reply(i, RF!Refused) \/ RF!Fail(i) \/ RF!Refuse(i) => Moves(RF!Requests)
<1>1. /\ \A op \in RF!Requests : \A arg : AreCalls(<<Ask(op, arg)>>, RF!Requests)
                                          /\ AreCalls(<<AskQuietly(op, arg)>>, RF!Requests)
      /\ \A op \in RF!Requests : \A part, arg : AreCalls(<<AskFrom(part, op, arg)>>, RF!Requests)
    BY OneAsked
<1>2. \A asked : AreCalls(asked, RF!Requests) /\ RF!Click(asked) => Moves(RF!Requests)
    BY RFIsPage, ClickMoves
<1>3. \A asked : AreCalls(asked, RF!Requests) /\ RF!Sends(asked)
                   /\ (steps' = steps \/ steps' = steps + 1) => Moves(RF!Requests)
    BY RFIsPage, SendsMoves
<1>4. ASSUME NEW i \in DOMAIN calls
      PROVE  /\ \A asked : AreCalls(asked, RF!Requests) /\ RF!Handled(i, asked)
                             => Moves(RF!Requests)
             /\ \A d : RF!Reply(i, RF!Ok(d)) => Moves(RF!Requests)
             /\ RF!Reply(i, RF!Refused) => Moves(RF!Requests)
             /\ RF!Fail(i) \/ RF!Refuse(i) => Moves(RF!Requests)
    <2>1. \A asked : AreCalls(asked, RF!Requests) /\ RF!Handled(i, asked) => Moves(RF!Requests)
        BY RFIsPage, HandledMoves
    <2>2. \A d : RF!Reply(i, RF!Ok(d)) => Moves(RF!Requests)
        BY RFIsPage, ReplyMoves, AnswersHaveCodes
    <2>3. RF!Reply(i, RF!Refused) => Moves(RF!Requests)
        BY RFIsPage, ReplyMoves, AnswersHaveCodes
    <2>4. RF!Fail(i) \/ RF!Refuse(i) => Moves(RF!Requests)
        BY RFIsPage, FailureMoves, AnswersHaveCodes
    <2> QED BY <2>1, <2>2, <2>3, <2>4
<1> QED BY <1>1, <1>2, <1>3, <1>4, NoneAreCalls, RFIsPage

LEMMA EXIsPage ==
    /\ \A op, arg : EX!Ask(op, arg) = Ask(op, arg) /\ EX!AskQuietly(op, arg) = AskQuietly(op, arg)
    /\ \A part, op, arg : EX!AskFrom(part, op, arg) = AskFrom(part, op, arg)
    /\ EX!Waiting = Waiting /\ EX!Failed = Failed /\ EX!Refused = Refused
    /\ \A d : EX!Ok(d) = Ok(d)
    /\ \A asked : EX!Created(asked) <=> Created(asked)
    /\ \A asked : EX!Sends(asked) <=> Sends(asked)
    /\ \A asked : EX!Click(asked) => Clicked(asked)
    /\ \A i, asked : EX!Handled(i, asked) <=> Handled(i, asked)
    /\ \A i, asked, o : EX!HandledUnder(i, asked, o) <=> HandledUnder(i, asked, o)
    /\ \A i, a : EX!Reply(i, a) <=> Reply(i, a)
    /\ \A i : EX!Fail(i) => FailedWith(i, Failed)
    /\ \A i : EX!Refuse(i) => FailedWith(i, Refused)
<1>1. /\ \A asked : EX!Loud(asked) <=> Loud(asked)
      /\ \A s, asked : EX!Overlaps(s, asked) = Overlaps(s, asked)
      /\ \A i : EX!Crosses(i) = Crosses(i)
      /\ \A s, i : EX!Without(s, i) = Without(s, i)
    BY DEF EX!Loud, Loud, EX!Overlaps, EX!SentOps, Overlaps, SentOps, EX!Crosses, Crosses,
           EX!Without, Without
<1>2. EX!Waiting = Waiting /\ EX!Failed = Failed /\ EX!Refused = Refused /\ \A d : EX!Ok(d) = Ok(d)
    BY DEF EX!Waiting, Waiting, EX!Failed, Failed, EX!Refused, Refused, EX!Ok, Ok
<1>3. /\ \A op, arg : EX!Ask(op, arg) = Ask(op, arg) /\ EX!AskQuietly(op, arg) = AskQuietly(op, arg)
      /\ \A part, op, arg : EX!AskFrom(part, op, arg) = AskFrom(part, op, arg)
    BY <1>2 DEF EX!Ask, Ask, EX!AskQuietly, AskQuietly, EX!AskFrom, AskFrom, EX!Call, Call
<1>4. \A asked : EX!Created(asked) <=> Created(asked)
    BY <1>1 DEF EX!Created, Created
<1>5. \A asked : EX!Sends(asked) <=> Sends(asked)
    BY <1>1 DEF EX!Sends, Sends
<1>6. \A asked : EX!Click(asked) => Clicked(asked)
    BY <1>5 DEF EX!Click, EX!UserActs, Clicked
<1>7. \A i, asked : EX!Handled(i, asked) <=> Handled(i, asked)
    BY <1>1, <1>2 DEF EX!Handled, Handled
<1>8. \A i, asked, o : EX!HandledUnder(i, asked, o) <=> HandledUnder(i, asked, o)
    BY <1>1 DEF EX!HandledUnder, HandledUnder
<1>9. \A i, a : EX!Reply(i, a) <=> Reply(i, a)
    BY <1>2 DEF EX!Reply, Reply, EX!IsWaiting, IsWaiting
<1>10. /\ \A i : EX!Fail(i) => FailedWith(i, Failed)
       /\ \A i : EX!Refuse(i) => FailedWith(i, Refused)
    BY <1>2 DEF EX!Fail, EX!Refuse, EX!FailsWith, EX!UserActs, FailedWith, Answered
<1> QED BY <1>2, <1>3, <1>4, <1>5, <1>6, <1>7, <1>8, <1>9, <1>10

LEMMA EXMoves ==
    /\ AreCalls(<<>>, EX!Requests)
    /\ \A op \in EX!Requests : \A arg :
          AreCalls(<<EX!Ask(op, arg)>>, EX!Requests)
          /\ AreCalls(<<EX!AskQuietly(op, arg)>>, EX!Requests)
    /\ \A op \in EX!Requests : \A part, arg : AreCalls(<<EX!AskFrom(part, op, arg)>>, EX!Requests)
    /\ \A asked : AreCalls(asked, EX!Requests) /\ EX!Click(asked) => Moves(EX!Requests)
    /\ \A asked : AreCalls(asked, EX!Requests) /\ EX!Sends(asked)
                    /\ (steps' = steps \/ steps' = steps + 1) => Moves(EX!Requests)
    /\ \A i \in DOMAIN calls :
          /\ \A asked : AreCalls(asked, EX!Requests) /\ EX!Handled(i, asked) => Moves(EX!Requests)
          /\ \A d : EX!Reply(i, EX!Ok(d)) => Moves(EX!Requests)
          /\ EX!Reply(i, EX!Refused) \/ EX!Fail(i) \/ EX!Refuse(i) => Moves(EX!Requests)
<1>1. /\ \A op \in EX!Requests : \A arg : AreCalls(<<Ask(op, arg)>>, EX!Requests)
                                          /\ AreCalls(<<AskQuietly(op, arg)>>, EX!Requests)
      /\ \A op \in EX!Requests : \A part, arg : AreCalls(<<AskFrom(part, op, arg)>>, EX!Requests)
    BY OneAsked
<1>2. \A asked : AreCalls(asked, EX!Requests) /\ EX!Click(asked) => Moves(EX!Requests)
    BY EXIsPage, ClickMoves
<1>3. \A asked : AreCalls(asked, EX!Requests) /\ EX!Sends(asked)
                   /\ (steps' = steps \/ steps' = steps + 1) => Moves(EX!Requests)
    BY EXIsPage, SendsMoves
<1>4. ASSUME NEW i \in DOMAIN calls
      PROVE  /\ \A asked : AreCalls(asked, EX!Requests) /\ EX!Handled(i, asked)
                             => Moves(EX!Requests)
             /\ \A d : EX!Reply(i, EX!Ok(d)) => Moves(EX!Requests)
             /\ EX!Reply(i, EX!Refused) => Moves(EX!Requests)
             /\ EX!Fail(i) \/ EX!Refuse(i) => Moves(EX!Requests)
    <2>1. \A asked : AreCalls(asked, EX!Requests) /\ EX!Handled(i, asked) => Moves(EX!Requests)
        BY EXIsPage, HandledMoves
    <2>2. \A d : EX!Reply(i, EX!Ok(d)) => Moves(EX!Requests)
        BY EXIsPage, ReplyMoves, AnswersHaveCodes
    <2>3. EX!Reply(i, EX!Refused) => Moves(EX!Requests)
        BY EXIsPage, ReplyMoves, AnswersHaveCodes
    <2>4. EX!Fail(i) \/ EX!Refuse(i) => Moves(EX!Requests)
        BY EXIsPage, FailureMoves, AnswersHaveCodes
    <2> QED BY <2>1, <2>2, <2>3, <2>4
<1> QED BY <1>1, <1>2, <1>3, <1>4, NoneAreCalls, EXIsPage

LEMMA EFIsPage ==
    /\ \A op, arg : EF!Ask(op, arg) = Ask(op, arg) /\ EF!AskQuietly(op, arg) = AskQuietly(op, arg)
    /\ \A part, op, arg : EF!AskFrom(part, op, arg) = AskFrom(part, op, arg)
    /\ EF!Waiting = Waiting /\ EF!Failed = Failed /\ EF!Refused = Refused
    /\ \A d : EF!Ok(d) = Ok(d)
    /\ \A asked : EF!Created(asked) <=> Created(asked)
    /\ \A asked : EF!Sends(asked) <=> Sends(asked)
    /\ \A asked : EF!Click(asked) => Clicked(asked)
    /\ \A i, asked : EF!Handled(i, asked) <=> Handled(i, asked)
    /\ \A i, asked, o : EF!HandledUnder(i, asked, o) <=> HandledUnder(i, asked, o)
    /\ \A i, a : EF!Reply(i, a) <=> Reply(i, a)
    /\ \A i : EF!Fail(i) => FailedWith(i, Failed)
    /\ \A i : EF!Refuse(i) => FailedWith(i, Refused)
<1>1. /\ \A asked : EF!Loud(asked) <=> Loud(asked)
      /\ \A s, asked : EF!Overlaps(s, asked) = Overlaps(s, asked)
      /\ \A i : EF!Crosses(i) = Crosses(i)
      /\ \A s, i : EF!Without(s, i) = Without(s, i)
    BY DEF EF!Loud, Loud, EF!Overlaps, EF!SentOps, Overlaps, SentOps, EF!Crosses, Crosses,
           EF!Without, Without
<1>2. EF!Waiting = Waiting /\ EF!Failed = Failed /\ EF!Refused = Refused /\ \A d : EF!Ok(d) = Ok(d)
    BY DEF EF!Waiting, Waiting, EF!Failed, Failed, EF!Refused, Refused, EF!Ok, Ok
<1>3. /\ \A op, arg : EF!Ask(op, arg) = Ask(op, arg) /\ EF!AskQuietly(op, arg) = AskQuietly(op, arg)
      /\ \A part, op, arg : EF!AskFrom(part, op, arg) = AskFrom(part, op, arg)
    BY <1>2 DEF EF!Ask, Ask, EF!AskQuietly, AskQuietly, EF!AskFrom, AskFrom, EF!Call, Call
<1>4. \A asked : EF!Created(asked) <=> Created(asked)
    BY <1>1 DEF EF!Created, Created
<1>5. \A asked : EF!Sends(asked) <=> Sends(asked)
    BY <1>1 DEF EF!Sends, Sends
<1>6. \A asked : EF!Click(asked) => Clicked(asked)
    BY <1>5 DEF EF!Click, EF!UserActs, Clicked
<1>7. \A i, asked : EF!Handled(i, asked) <=> Handled(i, asked)
    BY <1>1, <1>2 DEF EF!Handled, Handled
<1>8. \A i, asked, o : EF!HandledUnder(i, asked, o) <=> HandledUnder(i, asked, o)
    BY <1>1 DEF EF!HandledUnder, HandledUnder
<1>9. \A i, a : EF!Reply(i, a) <=> Reply(i, a)
    BY <1>2 DEF EF!Reply, Reply, EF!IsWaiting, IsWaiting
<1>10. /\ \A i : EF!Fail(i) => FailedWith(i, Failed)
       /\ \A i : EF!Refuse(i) => FailedWith(i, Refused)
    BY <1>2 DEF EF!Fail, EF!Refuse, EF!FailsWith, EF!UserActs, FailedWith, Answered
<1> QED BY <1>2, <1>3, <1>4, <1>5, <1>6, <1>7, <1>8, <1>9, <1>10

LEMMA EFMoves ==
    /\ AreCalls(<<>>, EF!Requests)
    /\ \A op \in EF!Requests : \A arg :
          AreCalls(<<EF!Ask(op, arg)>>, EF!Requests)
          /\ AreCalls(<<EF!AskQuietly(op, arg)>>, EF!Requests)
    /\ \A op \in EF!Requests : \A part, arg : AreCalls(<<EF!AskFrom(part, op, arg)>>, EF!Requests)
    /\ \A asked : AreCalls(asked, EF!Requests) /\ EF!Click(asked) => Moves(EF!Requests)
    /\ \A asked : AreCalls(asked, EF!Requests) /\ EF!Sends(asked)
                    /\ (steps' = steps \/ steps' = steps + 1) => Moves(EF!Requests)
    /\ \A i \in DOMAIN calls :
          /\ \A asked : AreCalls(asked, EF!Requests) /\ EF!Handled(i, asked) => Moves(EF!Requests)
          /\ \A d : EF!Reply(i, EF!Ok(d)) => Moves(EF!Requests)
          /\ EF!Reply(i, EF!Refused) \/ EF!Fail(i) \/ EF!Refuse(i) => Moves(EF!Requests)
<1>1. /\ \A op \in EF!Requests : \A arg : AreCalls(<<Ask(op, arg)>>, EF!Requests)
                                          /\ AreCalls(<<AskQuietly(op, arg)>>, EF!Requests)
      /\ \A op \in EF!Requests : \A part, arg : AreCalls(<<AskFrom(part, op, arg)>>, EF!Requests)
    BY OneAsked
<1>2. \A asked : AreCalls(asked, EF!Requests) /\ EF!Click(asked) => Moves(EF!Requests)
    BY EFIsPage, ClickMoves
<1>3. \A asked : AreCalls(asked, EF!Requests) /\ EF!Sends(asked)
                   /\ (steps' = steps \/ steps' = steps + 1) => Moves(EF!Requests)
    BY EFIsPage, SendsMoves
<1>4. ASSUME NEW i \in DOMAIN calls
      PROVE  /\ \A asked : AreCalls(asked, EF!Requests) /\ EF!Handled(i, asked)
                             => Moves(EF!Requests)
             /\ \A d : EF!Reply(i, EF!Ok(d)) => Moves(EF!Requests)
             /\ EF!Reply(i, EF!Refused) => Moves(EF!Requests)
             /\ EF!Fail(i) \/ EF!Refuse(i) => Moves(EF!Requests)
    <2>1. \A asked : AreCalls(asked, EF!Requests) /\ EF!Handled(i, asked) => Moves(EF!Requests)
        BY EFIsPage, HandledMoves
    <2>2. \A d : EF!Reply(i, EF!Ok(d)) => Moves(EF!Requests)
        BY EFIsPage, ReplyMoves, AnswersHaveCodes
    <2>3. EF!Reply(i, EF!Refused) => Moves(EF!Requests)
        BY EFIsPage, ReplyMoves, AnswersHaveCodes
    <2>4. EF!Fail(i) \/ EF!Refuse(i) => Moves(EF!Requests)
        BY EFIsPage, FailureMoves, AnswersHaveCodes
    <2> QED BY <2>1, <2>2, <2>3, <2>4
<1> QED BY <1>1, <1>2, <1>3, <1>4, NoneAreCalls, EFIsPage

LEMMA ALIsPage ==
    /\ \A op, arg : AL!Ask(op, arg) = Ask(op, arg) /\ AL!AskQuietly(op, arg) = AskQuietly(op, arg)
    /\ \A part, op, arg : AL!AskFrom(part, op, arg) = AskFrom(part, op, arg)
    /\ AL!Waiting = Waiting /\ AL!Failed = Failed /\ AL!Refused = Refused
    /\ \A d : AL!Ok(d) = Ok(d)
    /\ \A asked : AL!Created(asked) <=> Created(asked)
    /\ \A asked : AL!Sends(asked) <=> Sends(asked)
    /\ \A asked : AL!Click(asked) => Clicked(asked)
    /\ \A i, asked : AL!Handled(i, asked) <=> Handled(i, asked)
    /\ \A i, asked, o : AL!HandledUnder(i, asked, o) <=> HandledUnder(i, asked, o)
    /\ \A i, a : AL!Reply(i, a) <=> Reply(i, a)
    /\ \A i : AL!Fail(i) => FailedWith(i, Failed)
    /\ \A i : AL!Refuse(i) => FailedWith(i, Refused)
<1>1. /\ \A asked : AL!Loud(asked) <=> Loud(asked)
      /\ \A s, asked : AL!Overlaps(s, asked) = Overlaps(s, asked)
      /\ \A i : AL!Crosses(i) = Crosses(i)
      /\ \A s, i : AL!Without(s, i) = Without(s, i)
    BY DEF AL!Loud, Loud, AL!Overlaps, AL!SentOps, Overlaps, SentOps, AL!Crosses, Crosses,
           AL!Without, Without
<1>2. AL!Waiting = Waiting /\ AL!Failed = Failed /\ AL!Refused = Refused /\ \A d : AL!Ok(d) = Ok(d)
    BY DEF AL!Waiting, Waiting, AL!Failed, Failed, AL!Refused, Refused, AL!Ok, Ok
<1>3. /\ \A op, arg : AL!Ask(op, arg) = Ask(op, arg) /\ AL!AskQuietly(op, arg) = AskQuietly(op, arg)
      /\ \A part, op, arg : AL!AskFrom(part, op, arg) = AskFrom(part, op, arg)
    BY <1>2 DEF AL!Ask, Ask, AL!AskQuietly, AskQuietly, AL!AskFrom, AskFrom, AL!Call, Call
<1>4. \A asked : AL!Created(asked) <=> Created(asked)
    BY <1>1 DEF AL!Created, Created
<1>5. \A asked : AL!Sends(asked) <=> Sends(asked)
    BY <1>1 DEF AL!Sends, Sends
<1>6. \A asked : AL!Click(asked) => Clicked(asked)
    BY <1>5 DEF AL!Click, AL!UserActs, Clicked
<1>7. \A i, asked : AL!Handled(i, asked) <=> Handled(i, asked)
    BY <1>1, <1>2 DEF AL!Handled, Handled
<1>8. \A i, asked, o : AL!HandledUnder(i, asked, o) <=> HandledUnder(i, asked, o)
    BY <1>1 DEF AL!HandledUnder, HandledUnder
<1>9. \A i, a : AL!Reply(i, a) <=> Reply(i, a)
    BY <1>2 DEF AL!Reply, Reply, AL!IsWaiting, IsWaiting
<1>10. /\ \A i : AL!Fail(i) => FailedWith(i, Failed)
       /\ \A i : AL!Refuse(i) => FailedWith(i, Refused)
    BY <1>2 DEF AL!Fail, AL!Refuse, AL!FailsWith, AL!UserActs, FailedWith, Answered
<1> QED BY <1>2, <1>3, <1>4, <1>5, <1>6, <1>7, <1>8, <1>9, <1>10

LEMMA ALMoves ==
    /\ AreCalls(<<>>, AL!Requests)
    /\ \A op \in AL!Requests : \A arg :
          AreCalls(<<AL!Ask(op, arg)>>, AL!Requests)
          /\ AreCalls(<<AL!AskQuietly(op, arg)>>, AL!Requests)
    /\ \A op \in AL!Requests : \A part, arg : AreCalls(<<AL!AskFrom(part, op, arg)>>, AL!Requests)
    /\ \A asked : AreCalls(asked, AL!Requests) /\ AL!Click(asked) => Moves(AL!Requests)
    /\ \A asked : AreCalls(asked, AL!Requests) /\ AL!Sends(asked)
                    /\ (steps' = steps \/ steps' = steps + 1) => Moves(AL!Requests)
    /\ \A i \in DOMAIN calls :
          /\ \A asked : AreCalls(asked, AL!Requests) /\ AL!Handled(i, asked) => Moves(AL!Requests)
          /\ \A d : AL!Reply(i, AL!Ok(d)) => Moves(AL!Requests)
          /\ AL!Reply(i, AL!Refused) \/ AL!Fail(i) \/ AL!Refuse(i) => Moves(AL!Requests)
<1>1. /\ \A op \in AL!Requests : \A arg : AreCalls(<<Ask(op, arg)>>, AL!Requests)
                                          /\ AreCalls(<<AskQuietly(op, arg)>>, AL!Requests)
      /\ \A op \in AL!Requests : \A part, arg : AreCalls(<<AskFrom(part, op, arg)>>, AL!Requests)
    BY OneAsked
<1>2. \A asked : AreCalls(asked, AL!Requests) /\ AL!Click(asked) => Moves(AL!Requests)
    BY ALIsPage, ClickMoves
<1>3. \A asked : AreCalls(asked, AL!Requests) /\ AL!Sends(asked)
                   /\ (steps' = steps \/ steps' = steps + 1) => Moves(AL!Requests)
    BY ALIsPage, SendsMoves
<1>4. ASSUME NEW i \in DOMAIN calls
      PROVE  /\ \A asked : AreCalls(asked, AL!Requests) /\ AL!Handled(i, asked)
                             => Moves(AL!Requests)
             /\ \A d : AL!Reply(i, AL!Ok(d)) => Moves(AL!Requests)
             /\ AL!Reply(i, AL!Refused) => Moves(AL!Requests)
             /\ AL!Fail(i) \/ AL!Refuse(i) => Moves(AL!Requests)
    <2>1. \A asked : AreCalls(asked, AL!Requests) /\ AL!Handled(i, asked) => Moves(AL!Requests)
        BY ALIsPage, HandledMoves
    <2>2. \A d : AL!Reply(i, AL!Ok(d)) => Moves(AL!Requests)
        BY ALIsPage, ReplyMoves, AnswersHaveCodes
    <2>3. AL!Reply(i, AL!Refused) => Moves(AL!Requests)
        BY ALIsPage, ReplyMoves, AnswersHaveCodes
    <2>4. AL!Fail(i) \/ AL!Refuse(i) => Moves(AL!Requests)
        BY ALIsPage, FailureMoves, AnswersHaveCodes
    <2> QED BY <2>1, <2>2, <2>3, <2>4
<1> QED BY <1>1, <1>2, <1>3, <1>4, NoneAreCalls, ALIsPage

LEMMA ICIsPage ==
    /\ \A op, arg : IC!Ask(op, arg) = Ask(op, arg) /\ IC!AskQuietly(op, arg) = AskQuietly(op, arg)
    /\ \A part, op, arg : IC!AskFrom(part, op, arg) = AskFrom(part, op, arg)
    /\ IC!Waiting = Waiting /\ IC!Failed = Failed /\ IC!Refused = Refused
    /\ \A d : IC!Ok(d) = Ok(d)
    /\ \A asked : IC!Created(asked) <=> Created(asked)
    /\ \A asked : IC!Sends(asked) <=> Sends(asked)
    /\ \A asked : IC!Click(asked) => Clicked(asked)
    /\ \A i, asked : IC!Handled(i, asked) <=> Handled(i, asked)
    /\ \A i, asked, o : IC!HandledUnder(i, asked, o) <=> HandledUnder(i, asked, o)
    /\ \A i, a : IC!Reply(i, a) <=> Reply(i, a)
    /\ \A i : IC!Fail(i) => FailedWith(i, Failed)
    /\ \A i : IC!Refuse(i) => FailedWith(i, Refused)
<1>1. /\ \A asked : IC!Loud(asked) <=> Loud(asked)
      /\ \A s, asked : IC!Overlaps(s, asked) = Overlaps(s, asked)
      /\ \A i : IC!Crosses(i) = Crosses(i)
      /\ \A s, i : IC!Without(s, i) = Without(s, i)
    BY DEF IC!Loud, Loud, IC!Overlaps, IC!SentOps, Overlaps, SentOps, IC!Crosses, Crosses,
           IC!Without, Without
<1>2. IC!Waiting = Waiting /\ IC!Failed = Failed /\ IC!Refused = Refused /\ \A d : IC!Ok(d) = Ok(d)
    BY DEF IC!Waiting, Waiting, IC!Failed, Failed, IC!Refused, Refused, IC!Ok, Ok
<1>3. /\ \A op, arg : IC!Ask(op, arg) = Ask(op, arg) /\ IC!AskQuietly(op, arg) = AskQuietly(op, arg)
      /\ \A part, op, arg : IC!AskFrom(part, op, arg) = AskFrom(part, op, arg)
    BY <1>2 DEF IC!Ask, Ask, IC!AskQuietly, AskQuietly, IC!AskFrom, AskFrom, IC!Call, Call
<1>4. \A asked : IC!Created(asked) <=> Created(asked)
    BY <1>1 DEF IC!Created, Created
<1>5. \A asked : IC!Sends(asked) <=> Sends(asked)
    BY <1>1 DEF IC!Sends, Sends
<1>6. \A asked : IC!Click(asked) => Clicked(asked)
    BY <1>5 DEF IC!Click, IC!UserActs, Clicked
<1>7. \A i, asked : IC!Handled(i, asked) <=> Handled(i, asked)
    BY <1>1, <1>2 DEF IC!Handled, Handled
<1>8. \A i, asked, o : IC!HandledUnder(i, asked, o) <=> HandledUnder(i, asked, o)
    BY <1>1 DEF IC!HandledUnder, HandledUnder
<1>9. \A i, a : IC!Reply(i, a) <=> Reply(i, a)
    BY <1>2 DEF IC!Reply, Reply, IC!IsWaiting, IsWaiting
<1>10. /\ \A i : IC!Fail(i) => FailedWith(i, Failed)
       /\ \A i : IC!Refuse(i) => FailedWith(i, Refused)
    BY <1>2 DEF IC!Fail, IC!Refuse, IC!FailsWith, IC!UserActs, FailedWith, Answered
<1> QED BY <1>2, <1>3, <1>4, <1>5, <1>6, <1>7, <1>8, <1>9, <1>10

LEMMA ICMoves ==
    /\ AreCalls(<<>>, IC!Requests)
    /\ \A op \in IC!Requests : \A arg :
          AreCalls(<<IC!Ask(op, arg)>>, IC!Requests)
          /\ AreCalls(<<IC!AskQuietly(op, arg)>>, IC!Requests)
    /\ \A op \in IC!Requests : \A part, arg : AreCalls(<<IC!AskFrom(part, op, arg)>>, IC!Requests)
    /\ \A asked : AreCalls(asked, IC!Requests) /\ IC!Click(asked) => Moves(IC!Requests)
    /\ \A asked : AreCalls(asked, IC!Requests) /\ IC!Sends(asked)
                    /\ (steps' = steps \/ steps' = steps + 1) => Moves(IC!Requests)
    /\ \A i \in DOMAIN calls :
          /\ \A asked : AreCalls(asked, IC!Requests) /\ IC!Handled(i, asked) => Moves(IC!Requests)
          /\ \A d : IC!Reply(i, IC!Ok(d)) => Moves(IC!Requests)
          /\ IC!Reply(i, IC!Refused) \/ IC!Fail(i) \/ IC!Refuse(i) => Moves(IC!Requests)
<1>1. /\ \A op \in IC!Requests : \A arg : AreCalls(<<Ask(op, arg)>>, IC!Requests)
                                          /\ AreCalls(<<AskQuietly(op, arg)>>, IC!Requests)
      /\ \A op \in IC!Requests : \A part, arg : AreCalls(<<AskFrom(part, op, arg)>>, IC!Requests)
    BY OneAsked
<1>2. \A asked : AreCalls(asked, IC!Requests) /\ IC!Click(asked) => Moves(IC!Requests)
    BY ICIsPage, ClickMoves
<1>3. \A asked : AreCalls(asked, IC!Requests) /\ IC!Sends(asked)
                   /\ (steps' = steps \/ steps' = steps + 1) => Moves(IC!Requests)
    BY ICIsPage, SendsMoves
<1>4. ASSUME NEW i \in DOMAIN calls
      PROVE  /\ \A asked : AreCalls(asked, IC!Requests) /\ IC!Handled(i, asked)
                             => Moves(IC!Requests)
             /\ \A d : IC!Reply(i, IC!Ok(d)) => Moves(IC!Requests)
             /\ IC!Reply(i, IC!Refused) => Moves(IC!Requests)
             /\ IC!Fail(i) \/ IC!Refuse(i) => Moves(IC!Requests)
    <2>1. \A asked : AreCalls(asked, IC!Requests) /\ IC!Handled(i, asked) => Moves(IC!Requests)
        BY ICIsPage, HandledMoves
    <2>2. \A d : IC!Reply(i, IC!Ok(d)) => Moves(IC!Requests)
        BY ICIsPage, ReplyMoves, AnswersHaveCodes
    <2>3. IC!Reply(i, IC!Refused) => Moves(IC!Requests)
        BY ICIsPage, ReplyMoves, AnswersHaveCodes
    <2>4. IC!Fail(i) \/ IC!Refuse(i) => Moves(IC!Requests)
        BY ICIsPage, FailureMoves, AnswersHaveCodes
    <2> QED BY <2>1, <2>2, <2>3, <2>4
<1> QED BY <1>1, <1>2, <1>3, <1>4, NoneAreCalls, ICIsPage

LEMMA SFRows ==
    /\ \A S : SF!Ascending(S) = Ascending(S)
    /\ \A rows, places : SF!Picked(rows, places) = Picked(rows, places)
    /\ \A rows, size, page : SF!Chunk(rows, size, page) = Chunk(rows, size, page)
<1>0. \A S : SF!Cardinality(S) = Cardinality(S)
    BY DEF SF!Cardinality, Cardinality
<1>1. \A S : SF!Ascending(S) = Ascending(S)
    BY <1>0, Zenon DEF SF!Ascending, Ascending
<1>2. \A rows, places : SF!Picked(rows, places) = Picked(rows, places)
    BY <1>1 DEF SF!Picked, Picked
<1>3. \A rows, size, page : SF!Chunk(rows, size, page) = Chunk(rows, size, page)
    BY DEF SF!Chunk, Chunk
<1> QED BY <1>1, <1>2, <1>3

LEMMA SLRows ==
    /\ \A S : SL!Ascending(S) = Ascending(S)
    /\ \A rows, places : SL!Picked(rows, places) = Picked(rows, places)
    /\ \A rows, size, page : SL!Chunk(rows, size, page) = Chunk(rows, size, page)
<1>0. \A S : SL!Cardinality(S) = Cardinality(S)
    BY DEF SL!Cardinality, Cardinality
<1>1. \A S : SL!Ascending(S) = Ascending(S)
    BY <1>0, Zenon DEF SL!Ascending, Ascending
<1>2. \A rows, places : SL!Picked(rows, places) = Picked(rows, places)
    BY <1>1 DEF SL!Picked, Picked
<1>3. \A rows, size, page : SL!Chunk(rows, size, page) = Chunk(rows, size, page)
    BY DEF SL!Chunk, Chunk
<1> QED BY <1>1, <1>2, <1>3

LEMMA RFRows ==
    /\ \A S : RF!Ascending(S) = Ascending(S)
    /\ \A rows, places : RF!Picked(rows, places) = Picked(rows, places)
    /\ \A rows, size, page : RF!Chunk(rows, size, page) = Chunk(rows, size, page)
<1>0. \A S : RF!Cardinality(S) = Cardinality(S)
    BY DEF RF!Cardinality, Cardinality
<1>1. \A S : RF!Ascending(S) = Ascending(S)
    BY <1>0, Zenon DEF RF!Ascending, Ascending
<1>2. \A rows, places : RF!Picked(rows, places) = Picked(rows, places)
    BY <1>1 DEF RF!Picked, Picked
<1>3. \A rows, size, page : RF!Chunk(rows, size, page) = Chunk(rows, size, page)
    BY DEF RF!Chunk, Chunk
<1> QED BY <1>1, <1>2, <1>3

LEMMA EXRows ==
    /\ \A S : EX!Ascending(S) = Ascending(S)
    /\ \A rows, places : EX!Picked(rows, places) = Picked(rows, places)
    /\ \A rows, size, page : EX!Chunk(rows, size, page) = Chunk(rows, size, page)
<1>0. \A S : EX!Cardinality(S) = Cardinality(S)
    BY DEF EX!Cardinality, Cardinality
<1>1. \A S : EX!Ascending(S) = Ascending(S)
    BY <1>0, Zenon DEF EX!Ascending, Ascending
<1>2. \A rows, places : EX!Picked(rows, places) = Picked(rows, places)
    BY <1>1 DEF EX!Picked, Picked
<1>3. \A rows, size, page : EX!Chunk(rows, size, page) = Chunk(rows, size, page)
    BY DEF EX!Chunk, Chunk
<1> QED BY <1>1, <1>2, <1>3

LEMMA ALRows ==
    /\ \A S : AL!Ascending(S) = Ascending(S)
    /\ \A rows, places : AL!Picked(rows, places) = Picked(rows, places)
    /\ \A rows, size, page : AL!Chunk(rows, size, page) = Chunk(rows, size, page)
<1>0. \A S : AL!Cardinality(S) = Cardinality(S)
    BY DEF AL!Cardinality, Cardinality
<1>1. \A S : AL!Ascending(S) = Ascending(S)
    BY <1>0, Zenon DEF AL!Ascending, Ascending
<1>2. \A rows, places : AL!Picked(rows, places) = Picked(rows, places)
    BY <1>1 DEF AL!Picked, Picked
<1>3. \A rows, size, page : AL!Chunk(rows, size, page) = Chunk(rows, size, page)
    BY DEF AL!Chunk, Chunk
<1> QED BY <1>1, <1>2, <1>3

LEMMA ICRows ==
    /\ \A S : IC!Ascending(S) = Ascending(S)
    /\ \A rows, places : IC!Picked(rows, places) = Picked(rows, places)
    /\ \A rows, size, page : IC!Chunk(rows, size, page) = Chunk(rows, size, page)
<1>0. \A S : IC!Cardinality(S) = Cardinality(S)
    BY DEF IC!Cardinality, Cardinality
<1>1. \A S : IC!Ascending(S) = Ascending(S)
    BY <1>0, Zenon DEF IC!Ascending, Ascending
<1>2. \A rows, places : IC!Picked(rows, places) = Picked(rows, places)
    BY <1>1 DEF IC!Picked, Picked
<1>3. \A rows, size, page : IC!Chunk(rows, size, page) = Chunk(rows, size, page)
    BY DEF IC!Chunk, Chunk
<1> QED BY <1>1, <1>2, <1>3

-----------------------------------------------------------------------------
(* The form of a site.                                                     *)

LEMMA FormMoves ==
    ASSUME SF!Next
    PROVE  Moves(SF!Requests)
<1>1. CASE SF!Acts
    <2>1. ASSUME NEW v, SF!Left(v)
          PROVE  Moves(SF!Requests)
        BY <2>1, NoneAreCalls DEF SF!Left, SF!UserActs, Moves, Carries
    <2>2. CASE SF!Choose
        BY <2>2, SFMoves DEF SF!Choose
    <2>3. CASE SF!okAction \/ SF!Leave \/ SF!sureLeave
        BY <2>1, <2>3, SFMoves DEF SF!okAction, SF!Leave, SF!sureLeave
    <2> QED BY <1>1, <2>2, <2>3, SFMoves
            DEF SF!Acts, SF!EnterSiteName, SF!ChooseRole, SF!ChooseGroup, SF!EnterPartyId,
                SF!ResetNetwork, SF!EnterNetwork, SF!submitAction, SF!modifyAction, SF!CloseOk,
                SF!cancelLeave, SF!getPartyid, SF!toResetNetwork, SF!Requests
<1>2. ASSUME NEW i \in DOMAIN calls, SF!ServeSave(i) \/ SF!Fail(i)
      PROVE  Moves(SF!Requests)
    BY <1>2, SFMoves DEF SF!ServeSave
<1>3. ASSUME NEW i \in DOMAIN calls, SF!Answers(i)
      PROVE  Moves(SF!Requests)
    BY <1>3, SFMoves
       DEF SF!Answers, SF!SaveThen, SF!SiteInfoThen, SF!GroupsThen, SF!SiteNameThen,
           SF!PartyIdThen, SF!NetworkThen, SF!ChoicesThen, SF!NoCatch, SF!getKeySansLink,
           SF!getPartyid, SF!Requests
<1> QED BY <1>1, <1>2, <1>3 DEF SF!Next


LEMMA FormStart ==
    ASSUME SF!Init
    PROVE  CallsInv(SF!Requests) /\ OverlayHasCall
<1> DEFINE c == Ask("choices", 0)
           n == Ask("network", 0)
<1>1. /\ AreCalls(<<c>>, SF!Requests) /\ AreCalls(<<n>>, SF!Requests)
      /\ AreCalls(<<>>, SF!Requests)
    BY OneAsked, NoneAreCalls DEF SF!Requests
<1>2. \/ Created(<<>> \o <<c>> \o <<n>>)
      \/ \E id : Created(<<Ask("siteInfo", id)>> \o <<c>> \o <<n>>)
    BY SFIsPage DEF SF!Init, SF!getKeySansLink, SF!toResetNetwork
<1> HIDE DEF c, n
<1>4. ASSUME NEW s, AreCalls(s, SF!Requests), Created(s \o <<c>> \o <<n>>)
      PROVE  CallsInv(SF!Requests) /\ OverlayHasCall
    <2> DEFINE t == s \o <<c>>
    <2>1. AreCalls(t, SF!Requests)
        BY <1>1, <1>4, BothAreCalls
    <2> HIDE DEF t
    <2> DEFINE u == t \o <<n>>
    <2>2. AreCalls(u, SF!Requests)
        BY <1>1, <2>1, BothAreCalls
    <2>3. Created(u)
        BY <1>4 DEF t
    <2> HIDE DEF u
    <2> QED BY <2>2, <2>3, CreatedHasCalls
<1>5. \A id : AreCalls(<<Ask("siteInfo", id)>>, SF!Requests)
    BY OneAsked DEF SF!Requests
<1> QED BY <1>1, <1>2, <1>4, <1>5

\* What the form and the sites stored look like, and what is under way.
SfSaves == {"siteAdd", "siteUpdate"}
SfLoads == SfSaves \cup {"siteInfo"}
SfFields ==
    {"siteName", "chosen", "role", "groupId", "partyId", "network", "registrationLink"}

SfView(v) ==
    /\ DOMAIN v = {"type", "routeId", "id", "isleave", "dialog", "left", "ahead", "partyidname",
                   "partyidSelect", "groupRange", "partyIdPostPass", "siteNameExists", "choices", "form"}
    /\ DOMAIN v.form = SfFields
    /\ v.type # "siteadd" => v.routeId # 0
    /\ v.groupRange = {} \/ \E g \in Groups : v.groupRange = g.range
    /\ IsQueue(v.partyidname) /\ \A g \in Range(v.partyidname) : g \in Groups

SfStored(sites) ==
    /\ \A s \in sites : DOMAIN s.form = SfFields
    /\ \A s, t \in sites : s.id = t.id => s = t

SfIsSite(e, type, sites) ==
    /\ e.part = 0
    /\ e.op = "siteInfo" => \E s \in sites : s.id = e.arg
    /\ e.op \in SfSaves =>
        /\ type # "siteinfo" /\ DOMAIN e.arg.form = SfFields
        /\ e.op = "siteUpdate" => e.arg.id # 0
        /\ e.answer.code = "ok" => e.answer.data # 0 /\ \E s \in sites : s.id = e.answer.data

\* A form that shows a site asks for it first, and for groups only then.
SfFirst(s, type, range) ==
    type = "siteinfo" /\ (\E k \in DOMAIN s : s[k].op = "siteInfo") =>
        range = {} /\ \A k \in DOMAIN s : s[k].op # "groups" /\ (s[k].op = "siteInfo" => k = 1)

SfShape ==
    /\ SfView(view) /\ SfStored(server)
    /\ \A e \in Range(calls) : SfIsSite(e, view.type, server)
    /\ SfFirst(calls, view.type, view.groupRange)

\* The role the form has, while nothing else has been chosen, is that of what
\* is under way; the group chosen is of this role, and its range is the one
\* the party id is checked against, as soon as there is a choice to submit.
SfOfRole(e, role, sites) ==
    /\ e.op = "groups" => role \in {0, e.arg.role}
    /\ e.op = "siteInfo" => \E s \in sites : s.id = e.arg /\ role \in {0, s.form.role}
    /\ e.op \in SfSaves =>
        /\ e.arg.form.role = role
        /\ e.answer.code = "ok" => \E s \in sites : s.id = e.answer.data /\ s.form.role = role
        /\ \E g \in Groups : g.groupId = e.arg.form.groupId /\ g.role = role
                             /\ e.arg.form.partyId \in g.range

SfGroup(v) ==
    \E g \in Groups : g.groupId = v.form.groupId /\ g.role = v.form.role /\ g.range = v.groupRange

SfFit(v, loading) ==
    /\ \A g \in Range(v.partyidname) : v.form.role \in {0, g.role}
    /\ /\ v.form.role # 0 /\ v.groupRange # {}
       /\ v.partyidSelect # 0 \/ v.form.partyId \in v.groupRange \/ loading
       => SfGroup(v)

SfLoading(s) == \E e \in Range(s) : e.op \in SfLoads

SfFair ==
    mishaps = {} /\ ~view.ahead =>
        /\ SfFit(view, SfLoading(calls))
        /\ \A e \in Range(calls) : SfOfRole(e, view.form.role, server)

\* What most steps leave alone.
SfKept(v, w) ==
    /\ w.type = "siteinfo" => v.type = "siteinfo"
    /\ w.groupRange = v.groupRange /\ w.partyidname = v.partyidname /\ w.ahead = v.ahead
    /\ w.partyidSelect = v.partyidSelect
    /\ w.form.role = v.form.role /\ w.form.groupId = v.form.groupId
    /\ w.form.partyId = v.form.partyId \/ v.partyidSelect # 0

SfCarried(asked) ==
    \/ calls' = calls \o asked
    \/ \E i \in DOMAIN calls : calls' = Without(calls, i) \o asked

LEMMA SfCarriedSet ==
    ASSUME CallsInv(SF!Requests), NEW asked, AreCalls(asked, SF!Requests), SfCarried(asked)
    PROVE  Range(calls') \subseteq Range(calls) \cup Range(asked)
BY SetOfCalls DEF SfCarried, CallsInv

LEMMA SfFirstKept ==
    ASSUME CallsInv(SF!Requests), NEW type, NEW range, SfFirst(calls, type, range),
           NEW asked, AreCalls(asked, SF!Requests), SfCarried(asked),
           NEW t, t = "siteinfo" => type = "siteinfo",
           \A e \in Range(asked) : t = "siteinfo" => e.op \notin {"siteInfo", "groups"}
    PROVE  SfFirst(calls', t, range)
<1> SUFFICES ASSUME t = "siteinfo", NEW n \in DOMAIN calls', calls'[n].op = "siteInfo"
             PROVE  /\ range = {}
                    /\ \A k \in DOMAIN calls' :
                          calls'[k].op # "groups" /\ (calls'[k].op = "siteInfo" => k = 1)
    BY DEF SfFirst
<1>1. IsQueue(calls) /\ IsQueue(asked)
    BY DEF CallsInv, AreCalls
<1>2. \A k \in DOMAIN asked : asked[k].op \notin {"siteInfo", "groups"}
    BY DEF Range
<1>3. \A k \in DOMAIN calls' :
         \/ calls'[k].op \notin {"siteInfo", "groups"}
         \/ \E j \in DOMAIN calls : calls'[k] = calls[j] /\ (j = 1 => k = 1)
    <2>1. ASSUME NEW s, IsQueue(s), calls' = s \o asked, NEW k \in DOMAIN calls'
          PROVE  \/ calls'[k].op \notin {"siteInfo", "groups"}
                 \/ k \in DOMAIN s /\ calls'[k] = s[k]
        <3>1. /\ \A j \in DOMAIN s : calls'[j] = s[j]
              /\ \A j \in DOMAIN asked : calls'[Len(s) + j] = asked[j]
              /\ k \in DOMAIN s \/ (k > Len(s) /\ k - Len(s) \in DOMAIN asked)
              /\ IsQueue(calls')
            BY <1>1, <2>1, Joined
        <3>2. k \in Nat /\ Len(s) \in Nat /\ (k > Len(s) => Len(s) + (k - Len(s)) = k)
            <4>1. k \in Nat
                BY <2>1, <3>1, QueueFacts
            <4>2. Len(s) \in Nat
                BY <2>1, QueueFacts
            <4> QED BY <4>1, <4>2
        <3>3. CASE k > Len(s) /\ k - Len(s) \in DOMAIN asked
            <4> DEFINE j == k - Len(s)
            <4>1. j \in DOMAIN asked /\ calls'[k] = asked[j]
                BY <3>1, <3>2, <3>3
            <4> QED BY <4>1, <1>2
        <3> QED BY <3>1, <3>3
    <2>2. CASE calls' = calls \o asked
        BY <1>1, <2>1, <2>2
    <2>3. ASSUME NEW i \in DOMAIN calls, calls' = Without(calls, i) \o asked, NEW k \in DOMAIN calls'
          PROVE  \/ calls'[k].op \notin {"siteInfo", "groups"}
                 \/ \E j \in DOMAIN calls : calls'[k] = calls[j] /\ (j = 1 => k = 1)
        <3> DEFINE r == Without(calls, i)
        <3>1. /\ IsQueue(r)
              /\ \A j \in DOMAIN calls : j < i => r[j] = calls[j]
              /\ \A j \in DOMAIN calls : j > i => r[j - 1] = calls[j]
              /\ \A j \in DOMAIN r :
                    IF j < i THEN j \in DOMAIN calls ELSE j + 1 \in DOMAIN calls /\ j + 1 > i
            BY <1>1, Removed
        <3> HIDE DEF r
        <3>2. calls' = r \o asked
            BY <2>3 DEF r
        <3>3. CASE k \in DOMAIN r /\ calls'[k] = r[k] /\ k < i
            BY <3>1, <3>3
        <3>4. CASE k \in DOMAIN r /\ calls'[k] = r[k] /\ ~(k < i)
            <4>1. k + 1 \in DOMAIN calls /\ k + 1 > i
                BY <3>1, <3>4
            <4>2. k \in Nat /\ k # 0
                BY <3>1, <3>4, QueueFacts
            <4>3. (k + 1) - 1 = k /\ k + 1 # 1
                BY <4>2
            <4>4. calls'[k] = calls[k + 1]
                BY <3>1, <3>4, <4>1, <4>3
            <4> QED BY <4>1, <4>3, <4>4
        <3> QED BY <2>1, <2>3, <3>1, <3>2, <3>3, <3>4
    <2> QED BY <2>2, <2>3 DEF SfCarried
<1>4. \E k \in DOMAIN calls : calls[k].op = "siteInfo"
    BY <1>3
<1>5. /\ range = {}
      /\ \A k \in DOMAIN calls : calls[k].op # "groups" /\ (calls[k].op = "siteInfo" => k = 1)
    BY <1>4 DEF SfFirst
<1> QED BY <1>3, <1>5

\* A step that leaves the choices of the form alone.
LEMMA SfKeptStep ==
    ASSUME SfShape, SfFair, CallsInv(SF!Requests), NEW asked, AreCalls(asked, SF!Requests),
           SfCarried(asked), server' = server, mishaps \subseteq mishaps',
           SfView(view'), SfKept(view, view'),
           \A e \in Range(asked) :
              /\ SfIsSite(e, view'.type, server)
              /\ view'.type = "siteinfo" => e.op \notin {"siteInfo", "groups"}
              /\ SfFit(view, SfLoading(calls)) /\ (\A f \in Range(calls) : SfOfRole(f, view.form.role, server))
                   => SfOfRole(e, view.form.role, server)
              /\ e.op \in SfLoads => SfLoading(calls) \/ view.form.partyId \in view.groupRange
    PROVE  SfShape' /\ SfFair'
<1>1. Range(calls') \subseteq Range(calls) \cup Range(asked)
    BY SfCarriedSet
<1>2. SfFirst(calls', view'.type, view'.groupRange)
    <2>1. SfFirst(calls', view'.type, view.groupRange)
        BY SfFirstKept DEF SfShape, SfKept
    <2> QED BY <2>1 DEF SfKept
<1>3. \A e \in Range(calls) : SfIsSite(e, view.type, server) => SfIsSite(e, view'.type, server')
    BY DEF SfKept, SfIsSite
<1>4. SfShape'
    BY <1>1, <1>2, <1>3 DEF SfShape
<1>5. ASSUME mishaps' = {}, ~view'.ahead
      PROVE  /\ SfFit(view', SfLoading(calls'))
             /\ \A e \in Range(calls') : SfOfRole(e, view'.form.role, server')
    <2>1. /\ SfFit(view, SfLoading(calls)) /\ \A e \in Range(calls) : SfOfRole(e, view.form.role, server)
          /\ view'.form.role = view.form.role
        BY <1>5 DEF SfFair, SfKept
    <2>2. \A e \in Range(calls') : SfOfRole(e, view'.form.role, server')
        BY <1>1, <2>1
    <2>3. SfLoading(calls') => SfLoading(calls) \/ view.form.partyId \in view.groupRange
        BY <1>1 DEF SfLoading
    <2>4. SfGroup(view) => SfGroup(view')
        BY DEF SfGroup, SfKept
    <2>5. SfFit(view', SfLoading(calls'))
        BY <2>1, <2>3, <2>4 DEF SfFit, SfKept
    <2> QED BY <2>2, <2>5
<1> QED BY <1>4, <1>5 DEF SfFair

LEMMA SfAsksOne ==
    ASSUME NEW op \in SF!Requests, NEW arg, NEW c, c = SF!Ask(op, arg)
    PROVE  /\ AreCalls(<<c>>, SF!Requests) /\ Range(<<c>>) = {c}
           /\ c.op = op /\ c.arg = arg /\ c.part = 0 /\ c.answer.code = "waiting"
<1>1. c = Ask(op, arg)
    BY SFIsPage
<1>2. AreCalls(<<c>>, SF!Requests)
    BY <1>1, OneAsked
<1>3. c.op = op /\ c.arg = arg /\ c.part = 0 /\ c.answer.code = "waiting"
    BY <1>1 DEF Ask, Call, Waiting
<1> QED BY <1>2, <1>3, SetOfFew

LEMMA SfClickCarries ==
    ASSUME NEW asked, SF!Click(asked)
    PROVE  SfCarried(asked) /\ server' = server /\ mishaps \subseteq mishaps'
<1>1. Clicked(asked)
    BY SFIsPage
<1> QED BY <1>1 DEF Clicked, Sends, SfCarried

LEMMA SfHandledCarries ==
    ASSUME NEW i \in DOMAIN calls, NEW asked, SF!Handled(i, asked)
    PROVE  SfCarried(asked) /\ server' = server /\ mishaps \subseteq mishaps'
<1>1. Handled(i, asked)
    BY SFIsPage
<1> QED BY <1>1 DEF Handled, SfCarried

\* Nothing is asked, or a question that has nothing to do with the choices.
LEMMA SfKeptPlain ==
    ASSUME SfShape, SfFair, CallsInv(SF!Requests), SfView(view'), SfKept(view, view'),
           \/ SF!Click(<<>>)
           \/ \E op \in {"siteName", "partyId", "network"} : \E arg : SF!Click(<<SF!Ask(op, arg)>>)
           \/ \E i \in DOMAIN calls : SF!Handled(i, <<>>)
    PROVE  SfShape' /\ SfFair'
<1>1. AreCalls(<<>>, SF!Requests) /\ Range(<<>>) = {}
    BY NoneAreCalls, SetOfFew
<1>2. CASE SF!Click(<<>>) \/ \E i \in DOMAIN calls : SF!Handled(i, <<>>)
    <2>1. SfCarried(<<>>) /\ server' = server /\ mishaps \subseteq mishaps'
        BY <1>2, SfClickCarries, SfHandledCarries
    <2> QED BY <1>1, <2>1, SfKeptStep
<1>3. ASSUME NEW op \in {"siteName", "partyId", "network"}, NEW arg, SF!Click(<<SF!Ask(op, arg)>>)
      PROVE  SfShape' /\ SfFair'
    <2>1. PICK c : c = SF!Ask(op, arg)
        OBVIOUS
    <2>2. op \in SF!Requests
        BY DEF SF!Requests
    <2>3. AreCalls(<<c>>, SF!Requests) /\ Range(<<c>>) = {c} /\ c.op = op /\ c.part = 0
        BY <2>1, <2>2, SfAsksOne
    <2>4. SfCarried(<<c>>) /\ server' = server /\ mishaps \subseteq mishaps'
        BY <1>3, <2>1, SfClickCarries
    <2>5. /\ SfIsSite(c, view'.type, server) /\ SfOfRole(c, view.form.role, server)
          /\ c.op \notin SfLoads \cup {"siteInfo", "groups"}
        BY <2>3 DEF SfIsSite, SfOfRole, SfLoads, SfSaves
    <2> QED BY <2>3, <2>4, <2>5, SfKeptStep
<1> QED BY <1>2, <1>3

LEMMA SfFieldEntered ==
    ASSUME SfView(view)
    PROVE  /\ \A x : LET w == [view EXCEPT !.form.siteName = x] IN SfView(w) /\ SfKept(view, w)
           /\ \A x : LET w == [view EXCEPT !.form.network = x] IN SfView(w) /\ SfKept(view, w)
           /\ \A x : LET w == [view EXCEPT !.form.chosen = x] IN SfView(w) /\ SfKept(view, w)
           /\ \A x : LET w == [view EXCEPT !.form.partyId = x]
                     IN view.partyidSelect # 0 => SfView(w) /\ SfKept(view, w)
<1>1. ASSUME NEW x, NEW f \in {"siteName", "network", "chosen"}, NEW w,
             w = [view EXCEPT !.form = [view.form EXCEPT ![f] = x]]
      PROVE  SfView(w) /\ SfKept(view, w)
    <2>1. PICK g : g = [view.form EXCEPT ![f] = x]
        OBVIOUS
    <2>2. /\ DOMAIN g = SfFields /\ g.role = view.form.role /\ g.groupId = view.form.groupId
          /\ g.partyId = view.form.partyId
        BY <2>1 DEF SfView, SfFields
    <2>3. w = [view EXCEPT !.form = g]
        BY <1>1, <2>1
    <2> QED BY <2>2, <2>3 DEF SfView, SfKept
<1>2. ASSUME NEW x, NEW w, w = [view EXCEPT !.form = [view.form EXCEPT !.partyId = x]],
             view.partyidSelect # 0
      PROVE  SfView(w) /\ SfKept(view, w)
    <2>1. PICK g : g = [view.form EXCEPT !.partyId = x]
        OBVIOUS
    <2>2. DOMAIN g = SfFields /\ g.role = view.form.role /\ g.groupId = view.form.groupId
        BY <2>1 DEF SfView, SfFields
    <2>3. w = [view EXCEPT !.form = g]
        BY <1>2, <2>1
    <2> QED BY <1>2, <2>2, <2>3 DEF SfView, SfKept
<1> QED BY <1>1, <1>2

\* A form that no longer shows the site only: what is sent besides is not the
\* first request.
LEMMA SfNotFirst ==
    \A s, type, range : type # "siteinfo" => SfFirst(s, type, range)
BY DEF SfFirst

LEMMA SfRoleChosen ==
    ASSUME SfShape, SfFair, CallsInv(SF!Requests), NEW role \in SF!Roles, SF!ChooseRole(role)
    PROVE  SfShape' /\ SfFair'
<1>1. /\ view.type # "siteinfo" /\ SfView(view)
    BY DEF SF!ChooseRole, SF!Controls, SfShape
<1>2. PICK w : w = [view EXCEPT !.form.role = role, !.ahead = (view.ahead \/ SF!Loading)]
    OBVIOUS
<1>3. /\ DOMAIN w = DOMAIN view /\ w.type = view.type /\ w.routeId = view.routeId
      /\ w.groupRange = view.groupRange /\ w.ahead = (view.ahead \/ SF!Loading)
    BY <1>1, <1>2 DEF SfView
<1>4. DOMAIN w.form = SfFields /\ w.form.role = role
    BY <1>1, <1>2 DEF SfView, SfFields
<1>5. view' = [w EXCEPT !.partyidname = <<>>, !.partyidSelect = 0, !.form.partyId = 0]
    BY <1>1, <1>2, <1>3 DEF SF!ChooseRole, SF!PartyidCleared
<1>6. /\ DOMAIN view' = DOMAIN view /\ view'.type = view.type /\ view'.routeId = view.routeId
      /\ view'.groupRange = view.groupRange /\ view'.ahead = (view.ahead \/ SF!Loading)
      /\ view'.partyidname = <<>> /\ view'.partyidSelect = 0
    BY <1>1, <1>3, <1>5 DEF SfView
<1>7. DOMAIN view'.form = SfFields /\ view'.form.role = role /\ view'.form.partyId = 0
    BY <1>1, <1>3, <1>4, <1>5 DEF SfView, SfFields
<1>8. IsQueue(<<>>) /\ Range(<<>>) = {}
    BY NoneAreCalls, SetOfFew DEF AreCalls
<1>9. SfView(view')
    BY <1>1, <1>6, <1>7, <1>8 DEF SfView
<1> DEFINE c == SF!Ask("groups", [role |-> role, select |-> 0])
<1>10. SF!Click(<<c>>)
    BY DEF SF!ChooseRole, SF!getPartyid
<1>11. /\ AreCalls(<<c>>, SF!Requests) /\ Range(<<c>>) = {c}
       /\ c.op = "groups" /\ c.part = 0 /\ c.arg.role = role
    <2>1. PICK arg : arg = [role |-> role, select |-> 0]
        OBVIOUS
    <2>2. arg.role = role
        BY <2>1
    <2>3. /\ AreCalls(<<c>>, SF!Requests) /\ Range(<<c>>) = {c}
          /\ c.op = "groups" /\ c.part = 0 /\ c.arg = arg
        BY <2>1, SfAsksOne DEF SF!Requests
    <2> HIDE DEF c
    <2> QED BY <2>2, <2>3
<1> HIDE DEF c
<1>12. /\ Range(calls') = Range(calls) \cup {c} /\ server' = server /\ mishaps \subseteq mishaps'
       /\ \A e \in Range(calls) : e.op = "groups" /\ e.part = 0 => "overlapped" \in mishaps'
    <2>1. Clicked(<<c>>)
        BY <1>10, SFIsPage
    <2> QED BY <1>11, <2>1, ClickedSet DEF CallsInv
<1>13. SfShape'
    <2>1. SfFirst(calls', view'.type, view'.groupRange)
        BY <1>1, <1>6, SfNotFirst
    <2>2. \A e \in Range(calls') : SfIsSite(e, view'.type, server')
        BY <1>6, <1>11, <1>12 DEF SfShape, SfIsSite, SfSaves
    <2> QED BY <1>9, <1>12, <2>1, <2>2 DEF SfShape
<1>14. ASSUME mishaps' = {}, ~view'.ahead
       PROVE  /\ SfFit(view', SfLoading(calls'))
              /\ \A e \in Range(calls') : SfOfRole(e, view'.form.role, server')
    <2>1. \A e \in Range(calls) : e.op \notin SfLoads \cup {"groups"}
        <3>1. ~SF!Loading
            BY <1>6, <1>14
        <3>2. \A e \in Range(calls) : e.op \notin SfLoads
            BY <3>1 DEF SF!Loading, Range, SfLoads, SfSaves
        <3>3. \A e \in Range(calls) : e.op # "groups"
            BY <1>12, <1>14 DEF SfShape, SfIsSite
        <3> QED BY <3>2, <3>3
    <2>2. \A e \in Range(calls') : e.op \notin SfLoads
        BY <1>11, <1>12, <2>1 DEF SfLoads, SfSaves
    <2>3. \A e \in Range(calls') : SfOfRole(e, view'.form.role, server')
        BY <1>7, <1>11, <1>12, <2>1, <2>2 DEF SfOfRole, SfLoads
    <2>4. 0 \notin view'.groupRange
        BY <1>9, GroupsAssumption DEF SfView
    <2>5. SfFit(view', SfLoading(calls'))
        BY <1>6, <1>7, <1>8, <2>2, <2>4 DEF SfFit, SfLoading
    <2> QED BY <2>3, <2>5
<1> QED BY <1>13, <1>14 DEF SfFair

\* A group is chosen among those of the role.
LEMMA SfGroupSelected ==
    ASSUME NEW v, SfView(v), NEW groupId, NEW w, w = SF!selectPartyid(v, groupId)
    PROVE  /\ SfView(w) /\ w.type = v.type /\ w.ahead = v.ahead
           /\ w.partyidname = v.partyidname /\ w.partyidSelect = v.partyidSelect
           /\ w.form.role = v.form.role /\ w.form.partyId = v.form.partyId
           /\ \/ w = v
              \/ \E g \in Groups : /\ g \in Range(v.partyidname)
                                   /\ w.form.groupId = g.groupId /\ w.groupRange = g.range
           /\ (\E k \in DOMAIN v.partyidname : v.partyidname[k].groupId = groupId) =>
                \E g \in Groups : /\ g \in Range(v.partyidname)
                                  /\ w.form.groupId = g.groupId /\ w.groupRange = g.range
<1>1. CASE ~ \E k \in DOMAIN v.partyidname : v.partyidname[k].groupId = groupId
    <2>1. w = v
        BY <1>1 DEF SF!selectPartyid
    <2> QED BY <1>1, <2>1
<1>2. CASE \E k \in DOMAIN v.partyidname : v.partyidname[k].groupId = groupId
    <2>1. PICK k \in DOMAIN v.partyidname : v.partyidname[k].groupId = groupId
        BY <1>2
    <2>2. PICK g : g = v.partyidname[k]
        OBVIOUS
    <2>3. g \in Groups /\ g \in Range(v.partyidname) /\ g.groupId = groupId
        BY <2>1, <2>2 DEF SfView, Range
    <2>4. (CHOOSE h \in Groups : h.groupId = groupId) = g
        BY <2>3, GroupsAssumption
    <2>5. w = [v EXCEPT !.form.groupId = groupId, !.groupRange = g.range]
        BY <1>2, <2>4 DEF SF!selectPartyid
    <2>6. /\ DOMAIN w = DOMAIN v /\ w.type = v.type /\ w.ahead = v.ahead
          /\ w.partyidname = v.partyidname /\ w.partyidSelect = v.partyidSelect
          /\ w.routeId = v.routeId /\ w.groupRange = g.range
        BY <2>5 DEF SfView
    <2>7. /\ DOMAIN w.form = SfFields /\ w.form.role = v.form.role
          /\ w.form.partyId = v.form.partyId /\ w.form.groupId = groupId
        BY <2>5 DEF SfView, SfFields
    <2>8. SfView(w)
        BY <2>3, <2>6, <2>7 DEF SfView
    <2> QED BY <2>3, <2>6, <2>7, <2>8
<1> QED BY <1>1, <1>2

\* A group of the role is a group of the form.
LEMMA SfGroupFits ==
    ASSUME NEW v, NEW loading, SfFit(v, loading), NEW w,
           w.partyidname = v.partyidname, w.form.role = v.form.role,
           NEW g \in Groups, g \in Range(v.partyidname), w.form.groupId = g.groupId,
           w.groupRange = g.range, NEW l
    PROVE  SfFit(w, l)
<1>1. v.form.role \in {0, g.role}
    BY DEF SfFit
<1>2. w.form.role # 0 => SfGroup(w)
    BY <1>1 DEF SfGroup
<1> QED BY <1>2 DEF SfFit

LEMMA SfGroupChosen ==
    ASSUME SfShape, SfFair, CallsInv(SF!Requests), NEW k \in DOMAIN view.partyidname,
           SF!ChooseGroup(view.partyidname[k].groupId)
    PROVE  SfShape' /\ SfFair'
<1>1. PICK groupId : groupId = view.partyidname[k].groupId
    OBVIOUS
<1>2. PICK v : v = [view EXCEPT !.partyidSelect = groupId]
    OBVIOUS
<1>3. view.type # "siteinfo" /\ SF!Click(<<>>) /\ view' = SF!selectPartyid(v, groupId)
    BY <1>1, <1>2 DEF SF!ChooseGroup, SF!Controls
<1>4. SfView(view)
    BY DEF SfShape
<1>5. /\ SfView(v) /\ v.type = view.type /\ v.ahead = view.ahead /\ v.form = view.form
      /\ v.partyidname = view.partyidname /\ v.groupRange = view.groupRange
    BY <1>2, <1>4 DEF SfView
<1>6. /\ SfView(view') /\ view'.type = view.type /\ view'.ahead = view.ahead
      /\ view'.partyidname = view.partyidname /\ view'.form.role = view.form.role
      /\ \E g \in Groups : /\ g \in Range(view.partyidname)
                           /\ view'.form.groupId = g.groupId /\ view'.groupRange = g.range
    BY <1>1, <1>3, <1>5, SfGroupSelected
<1>7. Range(calls') = Range(calls) /\ server' = server /\ mishaps \subseteq mishaps'
    <2>1. Clicked(<<>>) /\ AreCalls(<<>>, SF!Requests) /\ Range(<<>>) = {}
        BY <1>3, SFIsPage, NoneAreCalls, SetOfFew
    <2> QED BY <2>1, ClickedSet DEF CallsInv
<1>8. SfShape'
    <2>1. SfFirst(calls', view'.type, view'.groupRange)
        BY <1>3, <1>6, SfNotFirst
    <2> QED BY <1>6, <1>7, <2>1 DEF SfShape
<1>9. ASSUME mishaps' = {}, ~view'.ahead
      PROVE  /\ SfFit(view', SfLoading(calls'))
             /\ \A e \in Range(calls') : SfOfRole(e, view'.form.role, server')
    <2>1. SfFit(view, SfLoading(calls)) /\ \A e \in Range(calls) : SfOfRole(e, view.form.role, server)
        BY <1>6, <1>7, <1>9 DEF SfFair
    <2>2. SfFit(view', SfLoading(calls'))
        BY <1>6, <2>1, SfGroupFits
    <2> QED BY <1>6, <1>7, <2>1, <2>2
<1> QED BY <1>8, <1>9 DEF SfFair

LEMMA SfSubmitted ==
    ASSUME SfShape, SfFair, CallsInv(SF!Requests), SF!submitAction
    PROVE  SfShape' /\ SfFair'
<1>1. view.type # "siteinfo" /\ view' = view /\ SfView(view)
    BY DEF SF!submitAction, SF!Controls, SfShape
<1>2. SfKept(view, view')
    BY <1>1 DEF SfKept
<1>3. CASE SF!Click(<<>>)
    BY <1>1, <1>2, <1>3, SfKeptPlain
<1>4. CASE ~SF!Click(<<>>)
    <2>1. PICK arg : arg = [id |-> view.routeId, form |-> view.form]
        OBVIOUS
    <2>2. arg.id = view.routeId /\ arg.form = view.form
        BY <2>1
    <2>3. PICK op \in SfSaves : /\ op = "siteUpdate" => view.type # "siteadd"
                                /\ SF!Click(<<SF!Ask(op, arg)>>) /\ SF!validate(view)
        BY <1>4, <2>1 DEF SF!submitAction, SfSaves
    <2>4. PICK c : c = SF!Ask(op, arg)
        OBVIOUS
    <2>5. op \in SF!Requests
        BY DEF SF!Requests, SfSaves
    <2>6. /\ AreCalls(<<c>>, SF!Requests) /\ Range(<<c>>) = {c}
          /\ c.op = op /\ c.arg = arg /\ c.part = 0 /\ c.answer.code = "waiting"
        BY <2>4, <2>5, SfAsksOne
    <2>7. SfCarried(<<c>>) /\ server' = server /\ mishaps \subseteq mishaps'
        BY <2>3, <2>4, SfClickCarries
    <2>8. /\ view.form.role # 0 /\ view.form.partyId \in view.groupRange
          /\ op = "siteUpdate" => view.routeId # 0
        BY <1>1, <2>3 DEF SF!validate, SfView
    <2>9. SfIsSite(c, view'.type, server)
        BY <1>1, <2>2, <2>6, <2>8 DEF SfIsSite, SfSaves, SfView
    <2>10. ASSUME SfFit(view, SfLoading(calls))
           PROVE  SfOfRole(c, view.form.role, server)
        <3>1. SfGroup(view)
            BY <2>8, <2>10 DEF SfFit
        <3>2. \E g \in Groups : /\ g.groupId = c.arg.form.groupId /\ g.role = view.form.role
                                /\ c.arg.form.partyId \in g.range
            BY <2>2, <2>6, <2>8, <3>1 DEF SfGroup
        <3>3. c.op \notin {"groups", "siteInfo"} /\ c.answer.code # "ok" /\ c.arg.form.role = view.form.role
            BY <2>2, <2>6 DEF SfSaves
        <3> QED BY <3>2, <3>3 DEF SfOfRole
    <2> QED BY <1>1, <1>2, <2>6, <2>7, <2>8, <2>9, <2>10, SfKeptStep
<1> QED BY <1>3, <1>4

\* The page is left, with all it has asked.
LEMMA SfGone ==
    ASSUME SfShape, SfFair, NEW v, v = view \/ v = [view EXCEPT !.isleave = TRUE], SF!Left(v)
    PROVE  SfShape' /\ SfFair'
<1>1. SfView(view)
    BY DEF SfShape
<1>2. /\ view' = [v EXCEPT !.dialog = "none", !.left = TRUE]
      /\ calls' = <<>> /\ server' = server /\ mishaps' = mishaps
    BY DEF SF!Left
<1>3. /\ DOMAIN v = DOMAIN view /\ v.type = view.type /\ v.routeId = view.routeId /\ v.form = view.form
      /\ v.groupRange = view.groupRange /\ v.partyidname = view.partyidname
      /\ v.partyidSelect = view.partyidSelect /\ v.ahead = view.ahead
    BY <1>1 DEF SfView
<1>4. /\ DOMAIN view' = DOMAIN view /\ view'.type = view.type /\ view'.routeId = view.routeId
      /\ view'.form = view.form /\ view'.groupRange = view.groupRange
      /\ view'.partyidname = view.partyidname /\ view'.partyidSelect = view.partyidSelect
      /\ view'.ahead = view.ahead
    BY <1>1, <1>2, <1>3 DEF SfView
<1>5. Range(calls') = {} /\ DOMAIN calls' = {}
    BY <1>2, NoneAreCalls, SetOfFew
<1>6. SfShape'
    <2>1. SfView(view')
        BY <1>1, <1>4 DEF SfView
    <2>2. SfFirst(calls', view'.type, view'.groupRange)
        BY <1>5 DEF SfFirst
    <2> QED BY <1>2, <1>5, <2>1, <2>2 DEF SfShape
<1>7. ASSUME mishaps' = {}, ~view'.ahead
      PROVE  SfFit(view', SfLoading(calls'))
    <2>1. SfFit(view, SfLoading(calls))
        BY <1>2, <1>4, <1>7 DEF SfFair
    <2>2. ~SfLoading(calls')
        BY <1>5 DEF SfLoading
    <2>3. SfGroup(view) => SfGroup(view')
        BY <1>4 DEF SfGroup
    <2> QED BY <1>4, <2>1, <2>2, <2>3 DEF SfFit
<1> QED BY <1>5, <1>6, <1>7 DEF SfFair

LEMMA FormActs ==
    ASSUME SfShape, SfFair, CallsInv(SF!Requests), SF!Acts
    PROVE  SfShape' /\ SfFair'
<1>v. SfView(view)
    BY DEF SfShape
<1>1. ASSUME NEW name, SF!EnterSiteName(name)
      PROVE  SfShape' /\ SfFair'
    BY <1>v, <1>1, SfFieldEntered, SfKeptPlain DEF SF!EnterSiteName
<1>2. ASSUME NEW p, SF!EnterPartyId(p)
      PROVE  SfShape' /\ SfFair'
    <2>1. view.partyidSelect # 0
        BY <1>2 DEF SF!EnterPartyId, SF!Controls
    <2>2. SfView(view') /\ SfKept(view, view')
        BY <1>v, <1>2, <2>1, SfFieldEntered DEF SF!EnterPartyId
    <2>3. \/ SF!Click(<<>>)
          \/ \E arg : SF!Click(<<SF!Ask("partyId", arg)>>)
        BY <1>2 DEF SF!EnterPartyId
    <2> QED BY <2>2, <2>3, SfKeptPlain
<1>3. CASE SF!Choose
    <2>1. SfView(view') /\ SfKept(view, view')
        BY <1>v, <1>3, SfFieldEntered DEF SF!Choose
    <2>2. Sends(<<>>)
        BY <1>3, SFIsPage DEF SF!Choose
    <2>3. SfCarried(<<>>) /\ server' = server /\ mishaps \subseteq mishaps'
        BY <2>2 DEF Sends, SfCarried
    <2>4. AreCalls(<<>>, SF!Requests) /\ Range(<<>>) = {}
        BY NoneAreCalls, SetOfFew
    <2> QED BY <2>1, <2>3, <2>4, SfKeptStep
<1>4. CASE SF!ResetNetwork
    <2>1. SfView(view') /\ SfKept(view, view')
        BY <1>v, <1>4 DEF SF!ResetNetwork, SfKept
    <2> QED BY <1>4, <2>1, SfKeptPlain DEF SF!ResetNetwork, SF!toResetNetwork
<1>5. CASE SF!EnterNetwork
    BY <1>v, <1>5, SfFieldEntered, SfKeptPlain DEF SF!EnterNetwork
<1>6. CASE SF!modifyAction
    <2>1. SF!Click(<<>>) /\ view' = [view EXCEPT !.type = "siteUpdate", !.isleave = FALSE] /\ view.type = "siteinfo"
        BY <1>6 DEF SF!modifyAction, SF!Controls
    <2>2. SfView(view') /\ SfKept(view, view')
        BY <1>v, <2>1 DEF SfView, SfKept
    <2> QED BY <2>1, <2>2, SfKeptPlain
<1>7. ASSUME NEW d, SF!Click(<<>>), view' = [view EXCEPT !.dialog = d]
      PROVE  SfShape' /\ SfFair'
    <2>1. SfView(view') /\ SfKept(view, view')
        BY <1>v, <1>7 DEF SfView, SfKept
    <2> QED BY <1>7, <2>1, SfKeptPlain
<1>8. CASE SF!CloseOk \/ SF!cancelLeave
    BY <1>7, <1>8 DEF SF!CloseOk, SF!cancelLeave
<1>9. CASE SF!Leave
    BY <1>7, <1>9, SfGone DEF SF!Leave
<1>10. CASE SF!okAction \/ SF!sureLeave
    BY <1>10, SfGone DEF SF!okAction, SF!sureLeave
<1> QED BY <1>1, <1>2, <1>3, <1>4, <1>5, <1>6, <1>8, <1>9, <1>10, SfRoleChosen, SfGroupChosen, SfSubmitted
        DEF SF!Acts

\* The manager answers, or the answer is lost.  Every site is kept, or has
\* the role of what is saved.
LEMMA SfAnswered ==
    ASSUME SfShape, SfFair, CallsInv(SF!Requests), NEW i \in DOMAIN calls, NEW a, a.code \in Codes,
           calls' = Answered(calls, i, a), view' = view, mishaps \subseteq mishaps',
           SfStored(server'),
           \A s \in server : \E t \in server' :
              /\ t.id = s.id
              /\ t = s \/ (calls[i].op \in SfSaves /\ t.form.role = calls[i].arg.form.role),
           a.code = "ok" =>
              /\ calls[i].op \in SfSaves /\ a.data # 0
              /\ \E t \in server' : t.id = a.data /\ t.form.role = calls[i].arg.form.role
    PROVE  SfShape' /\ SfFair'
<1>1. /\ \A e \in Range(calls') :
            \/ e \in Range(calls)
            \/ /\ e.op = calls[i].op /\ e.arg = calls[i].arg /\ e.part = calls[i].part
               /\ e.answer = a
      /\ calls[i] \in Range(calls)
    BY AnsweredSet DEF CallsInv
<1>2. /\ DOMAIN calls' = DOMAIN calls
      /\ \A k \in DOMAIN calls : calls'[k].op = calls[k].op
    BY AnsweredCall DEF CallsInv
<1>3. SfFirst(calls', view'.type, view'.groupRange)
    BY <1>2 DEF SfShape, SfFirst
<1>4. \A e : SfIsSite(e, view.type, server) => SfIsSite(e, view.type, server')
    BY DEF SfIsSite
<1>5. SfIsSite(calls[i], view.type, server')
    BY <1>1, <1>4 DEF SfShape
<1>6. \A e : /\ e.op = calls[i].op /\ e.arg = calls[i].arg /\ e.part = calls[i].part
             /\ e.answer = a
             => SfIsSite(e, view.type, server')
    BY <1>5 DEF SfIsSite
<1>7. SfShape'
    BY <1>1, <1>3, <1>4, <1>6 DEF SfShape
<1>8. ASSUME mishaps' = {}, ~view'.ahead
      PROVE  /\ SfFit(view', SfLoading(calls'))
             /\ \A e \in Range(calls') : SfOfRole(e, view'.form.role, server')
    <2>1. SfFit(view, SfLoading(calls)) /\ \A e \in Range(calls) : SfOfRole(e, view.form.role, server)
        BY <1>8 DEF SfFair
    <2>2. SfLoading(calls') => SfLoading(calls)
        BY <1>1 DEF SfLoading
    <2>3. SfFit(view', SfLoading(calls'))
        BY <2>1, <2>2 DEF SfFit
    <2>4. PICK role : role = view.form.role
        OBVIOUS
    <2>5. calls[i].op \in SfSaves => calls[i].arg.form.role = role
        BY <1>1, <2>1, <2>4 DEF SfOfRole
    <2>6. \A s \in server : \E t \in server' : t.id = s.id /\ (t = s \/ t.form.role = role)
        BY <2>5
    <2>7. \A e : SfOfRole(e, role, server) => SfOfRole(e, role, server')
        BY <2>6 DEF SfOfRole
    <2>8. SfOfRole(calls[i], role, server')
        BY <1>1, <2>1, <2>4, <2>7
    <2>9. \A e : /\ e.op = calls[i].op /\ e.arg = calls[i].arg /\ e.answer = a
                 => SfOfRole(e, role, server')
        BY <2>5, <2>8 DEF SfOfRole
    <2>10. \A e \in Range(calls') : SfOfRole(e, role, server')
        BY <1>1, <2>1, <2>4, <2>7, <2>9
    <2> QED BY <2>3, <2>4, <2>10
<1> QED BY <1>7, <1>8 DEF SfFair

LEMMA SfServes ==
    ASSUME SfShape, SfFair, CallsInv(SF!Requests), NEW i \in DOMAIN calls,
           SF!ServeSave(i) \/ SF!Fail(i)
    PROVE  SfShape' /\ SfFair'
<1>0. SfStored(server) /\ SfIsSite(calls[i], view.type, server)
    BY DEF SfShape, Range
<1>1. ASSUME NEW a \in {Failed, Refused}, calls' = Answered(calls, i, a), view' = view,
             mishaps \subseteq mishaps', server' = server
      PROVE  SfShape' /\ SfFair'
    <2>1. a.code \in Codes /\ a.code # "ok"
        BY DEF Failed, Refused, Codes
    <2>2. \A s \in server : \E t \in server' :
              /\ t.id = s.id
              /\ t = s \/ (calls[i].op \in SfSaves /\ t.form.role = calls[i].arg.form.role)
        BY <1>1
    <2>3. SfStored(server')
        BY <1>0, <1>1
    <2> QED BY <1>1, <2>1, <2>2, <2>3, SfAnswered
<1>2. CASE SF!Fail(i)
    <2>1. FailedWith(i, Failed)
        BY <1>2, SFIsPage
    <2> QED BY <1>1, <2>1 DEF FailedWith
<1>3. CASE SF!Reply(i, SF!Refused) /\ server' = server
    <2>1. Reply(i, Refused)
        BY <1>3, SFIsPage
    <2> QED BY <1>1, <1>3, <2>1, ReplyIsAnswered
<1>4. ASSUME calls[i].op \in SfSaves, NEW id, id # 0, SF!Reply(i, SF!Ok(id)),
             NEW n, n = [id |-> id, form |-> [calls[i].arg.form EXCEPT !.registrationLink = id]],
             server' = {s \in server : s.id # id} \cup {n}
      PROVE  SfShape' /\ SfFair'
    <2>1. PICK a : a = Ok(id)
        OBVIOUS
    <2>2. a.code \in Codes /\ a.data = id
        BY <2>1 DEF Ok, Codes
    <2>3. calls' = Answered(calls, i, a) /\ view' = view /\ mishaps' = mishaps
        <3>1. Reply(i, a)
            BY <1>4, <2>1, SFIsPage
        <3> QED BY <3>1, ReplyIsAnswered
    <2>4. DOMAIN calls[i].arg.form = SfFields
        BY <1>0, <1>4 DEF SfIsSite
    <2>5. PICK f : f = [calls[i].arg.form EXCEPT !.registrationLink = id]
        OBVIOUS
    <2>6. DOMAIN f = SfFields /\ f.role = calls[i].arg.form.role
        BY <2>4, <2>5 DEF SfFields
    <2>7. n.id = id /\ n.form = f
        BY <1>4, <2>5
    <2>8. SfStored(server')
        BY <1>0, <1>4, <2>6, <2>7 DEF SfStored
    <2>9. \A s \in server : \E t \in server' :
              /\ t.id = s.id
              /\ t = s \/ (calls[i].op \in SfSaves /\ t.form.role = calls[i].arg.form.role)
        BY <1>4, <2>6, <2>7
    <2>10. /\ calls[i].op \in SfSaves /\ a.data # 0
           /\ \E t \in server' : t.id = a.data /\ t.form.role = calls[i].arg.form.role
        BY <1>4, <2>2, <2>6, <2>7
    <2> QED BY <2>2, <2>3, <2>8, <2>9, <2>10, SfAnswered
<1>5. CASE SF!ServeSave(i)
    <2>1. PICK id : id = IF calls[i].op = "siteAdd" THEN 3 ELSE calls[i].arg.id
        OBVIOUS
    <2>2. calls[i].op \in SfSaves
        BY <1>5 DEF SF!ServeSave, SfSaves
    <2>3. id # 0
        BY <1>0, <2>1, <2>2 DEF SfIsSite, SfSaves
    <2>4. PICK n : n = [id |-> id, form |-> [calls[i].arg.form EXCEPT !.registrationLink = id]]
        OBVIOUS
    <2>5. \/ SF!Reply(i, SF!Refused) /\ server' = server
          \/ SF!Reply(i, SF!Ok(id)) /\ server' = {s \in server : s.id # id} \cup {n}
        BY <1>5, <2>1, <2>4 DEF SF!ServeSave
    <2> QED BY <1>3, <1>4, <2>2, <2>3, <2>4, <2>5
<1> QED BY <1>2, <1>5

LEMMA SfOthers ==
    ASSUME NEW s, IsQueue(s), NEW i \in DOMAIN s
    PROVE  \A e \in Range(Without(s, i)) : \E k \in DOMAIN s : k # i /\ e = s[k]
<1> DEFINE r == Without(s, i)
<1>1. /\ IsQueue(r) /\ i \in Nat
      /\ \A k \in DOMAIN s : k < i => r[k] = s[k]
      /\ \A k \in DOMAIN s : k > i => r[k - 1] = s[k]
      /\ \A k \in DOMAIN r : IF k < i THEN k \in DOMAIN s ELSE k + 1 \in DOMAIN s /\ k + 1 > i
    BY Removed, QueueFacts
<1> HIDE DEF r
<1>2. ASSUME NEW k \in DOMAIN r PROVE \E j \in DOMAIN s : j # i /\ r[k] = s[j]
    <2>1. k \in Nat /\ (k + 1) - 1 = k
        BY <1>1, QueueFacts
    <2>2. CASE k < i
        BY <1>1, <2>1, <2>2
    <2>3. CASE ~(k < i)
        BY <1>1, <2>1, <2>3
    <2> QED BY <2>2, <2>3
<1> QED BY <1>2 DEF r, Range

LEMMA SfSaved ==
    ASSUME SfShape, SfFair, CallsInv(SF!Requests), NEW i \in DOMAIN calls, SF!SaveThen(i)
    PROVE  SfShape' /\ SfFair'
<1>1. /\ calls[i].op \in SfSaves /\ calls[i].answer.code = "ok" /\ calls[i] \in Range(calls)
    BY DEF SF!SaveThen, SF!Got, SfSaves, Range
<1>2. PICK id : id = calls[i].answer.data
    OBVIOUS
<1>3. view.type # "siteinfo" /\ id # 0 /\ \E s \in server : s.id = id
    BY <1>1, <1>2 DEF SfShape, SfIsSite
<1>4. /\ view' = [view EXCEPT !.isleave = TRUE, !.id = id, !.dialog = "ok"]
      /\ SF!Handled(i, SF!getKeySansLink(view'))
    BY <1>2 DEF SF!SaveThen, SF!Data
<1>5. /\ SfView(view') /\ SfKept(view, view') /\ view'.type = view.type /\ view'.id = id
    BY <1>4 DEF SfShape, SfView, SfKept
<1>6. PICK c : c = SF!Ask("siteInfo", id)
    OBVIOUS
<1>7. SF!Handled(i, <<c>>)
    BY <1>3, <1>4, <1>5, <1>6 DEF SF!getKeySansLink, SF!NoId
<1>8. /\ AreCalls(<<c>>, SF!Requests) /\ Range(<<c>>) = {c}
      /\ c.op = "siteInfo" /\ c.arg = id /\ c.part = 0
    BY <1>6, SfAsksOne DEF SF!Requests
<1>9. SfCarried(<<c>>) /\ server' = server /\ mishaps \subseteq mishaps'
    BY <1>7, SfHandledCarries
<1>10. SfIsSite(c, view'.type, server)
    BY <1>3, <1>8 DEF SfIsSite, SfSaves
<1>11. ASSUME \A f \in Range(calls) : SfOfRole(f, view.form.role, server)
       PROVE  SfOfRole(c, view.form.role, server)
    <2>1. \E s \in server : s.id = id /\ s.form.role = view.form.role
        BY <1>1, <1>2, <1>11 DEF SfOfRole
    <2> QED BY <1>8, <2>1 DEF SfOfRole, SfSaves
<1>12. SfLoading(calls)
    BY <1>1 DEF SfLoading, SfLoads
<1> QED BY <1>3, <1>5, <1>8, <1>9, <1>10, <1>11, <1>12, SfKeptStep

LEMMA SfSiteLoaded ==
    ASSUME SfShape, SfFair, CallsInv(SF!Requests), NEW i \in DOMAIN calls, SF!SiteInfoThen(i)
    PROVE  SfShape' /\ SfFair'
<1>1. calls[i].op = "siteInfo" /\ calls[i] \in Range(calls)
    BY DEF SF!SiteInfoThen, SF!Arrives, Range
<1>v. SfView(view) /\ SfIsSite(calls[i], view.type, server)
    BY <1>1 DEF SfShape
<1>2. PICK t \in server : t.id = calls[i].arg
    BY <1>1, <1>v DEF SfIsSite
<1>3. SF!SiteOf(calls[i].arg) = t
    BY <1>2 DEF SF!SiteOf, SfShape, SfStored
<1>4. PICK site : site = t.form
    OBVIOUS
<1>5. DOMAIN site = SfFields
    BY <1>4 DEF SfShape, SfStored
<1>6. PICK arg : arg = [role |-> site.role, select |-> site.groupId]
    OBVIOUS
<1>7. arg.role = site.role
    BY <1>6
<1>8. PICK c : c = SF!Ask("groups", arg)
    OBVIOUS
<1>9. /\ AreCalls(<<c>>, SF!Requests) /\ Range(<<c>>) = {c}
      /\ c.op = "groups" /\ c.arg = arg /\ c.part = 0
    BY <1>8, SfAsksOne DEF SF!Requests
<1>10. SF!Handled(i, <<c>>)
    BY <1>3, <1>4, <1>6, <1>8 DEF SF!SiteInfoThen, SF!getPartyid
<1>11. SfCarried(<<c>>) /\ server' = server /\ mishaps \subseteq mishaps'
    BY <1>10, SfHandledCarries
<1>12. Range(calls') \subseteq Range(calls) \cup {c}
    BY <1>9, <1>11, SfCarriedSet
<1>13. SfIsSite(c, view.type, server)
    BY <1>9 DEF SfIsSite, SfSaves
<1>14. IsQueue(<<>>) /\ Range(<<>>) = {}
    BY NoneAreCalls, SetOfFew DEF AreCalls
<1>15. CASE view.type = "siteinfo"
    <2>1. view' = [[[view EXCEPT !.form = site] EXCEPT !.partyidSelect = site.groupId]
                     EXCEPT !.partyidname = <<>>]
        BY <1>3, <1>4, <1>15, <1>v DEF SF!SiteInfoThen, SF!PartyidCleared, SfView
    <2>2. /\ DOMAIN view' = DOMAIN view /\ view'.type = view.type /\ view'.routeId = view.routeId
          /\ view'.groupRange = view.groupRange /\ view'.ahead = view.ahead
          /\ view'.partyidname = <<>> /\ view'.form = site
        BY <2>1, <1>v DEF SfView
    <2>3. SfView(view')
        BY <1>v, <1>5, <1>14, <2>2 DEF SfView
    <2>4. view.groupRange = {} /\ \A k \in DOMAIN calls :
              calls[k].op # "groups" /\ (calls[k].op = "siteInfo" => k = 1)
        BY <1>1, <1>15 DEF SfShape, SfFirst
    <2>5. \A e \in Range(calls') : e = c \/ e.op \notin {"siteInfo", "groups"}
        <3>1. calls' = Without(calls, i) \o <<c>>
            BY <1>10, SFIsPage DEF Handled
        <3>2. IsQueue(calls)
            BY DEF CallsInv, AreCalls
        <3>3. \A e \in Range(Without(calls, i)) : e.op \notin {"siteInfo", "groups"}
            <4>1. i = 1
                BY <1>1, <2>4
            <4>2. \A k \in DOMAIN calls : k # i => calls[k].op \notin {"siteInfo", "groups"}
                BY <2>4, <4>1
            <4> QED BY <3>2, <4>2, SfOthers
        <3>4. IsQueue(Without(calls, i)) /\ IsQueue(<<c>>)
            BY <1>9, <3>2, Removed DEF AreCalls
        <3>5. Range(calls') = Range(Without(calls, i)) \cup Range(<<c>>)
            BY <3>1, <3>4, SetOfJoined
        <3> QED BY <1>9, <3>3, <3>5
    <2>6. SfShape'
        <3>1. \A k \in DOMAIN calls' : calls'[k].op # "siteInfo"
            BY <1>9, <2>5 DEF Range
        <3>2. SfFirst(calls', view'.type, view'.groupRange)
            BY <3>1 DEF SfFirst
        <3> QED BY <1>11, <1>12, <1>13, <2>2, <2>3, <3>2 DEF SfShape
    <2>7. \A e \in Range(calls') : SfOfRole(e, view'.form.role, server')
        <3>1. \A e \in Range(calls') : e.op \notin SfSaves
            BY <1>15, <2>2, <2>6 DEF SfShape, SfIsSite
        <3>2. \A e \in Range(calls') : e.op = "groups" => e.arg.role = view'.form.role
            BY <1>7, <1>9, <2>2, <2>5
        <3>3. \A e \in Range(calls') : e.op # "siteInfo"
            BY <1>9, <2>5
        <3> QED BY <3>1, <3>2, <3>3 DEF SfOfRole
    <2>8. SfFit(view', SfLoading(calls'))
        BY <1>14, <2>2, <2>4 DEF SfFit
    <2> QED BY <2>6, <2>7, <2>8 DEF SfFair
<1>16. CASE view.type # "siteinfo"
    <2>1. PICK w : w = [[view EXCEPT !.form.registrationLink = site.registrationLink]
                          EXCEPT !.partyidSelect = site.groupId]
        OBVIOUS
    <2>2. /\ DOMAIN w = DOMAIN view /\ w.type = view.type /\ w.routeId = view.routeId
          /\ w.groupRange = view.groupRange /\ w.ahead = view.ahead
        BY <2>1, <1>v DEF SfView
    <2>3. DOMAIN w.form = SfFields /\ w.form.role = view.form.role /\ w.form.groupId = view.form.groupId
        BY <2>1, <1>v DEF SfView, SfFields
    <2>4. view' = [w EXCEPT !.partyidname = <<>>, !.partyidSelect = 0, !.form.partyId = 0]
        BY <1>3, <1>4, <1>16, <2>1, <2>2 DEF SF!SiteInfoThen, SF!PartyidCleared
    <2>5. /\ DOMAIN view' = DOMAIN view /\ view'.type = view.type /\ view'.routeId = view.routeId
          /\ view'.groupRange = view.groupRange /\ view'.ahead = view.ahead
          /\ view'.partyidname = <<>> /\ view'.partyidSelect = 0
        BY <2>2, <2>4, <1>v DEF SfView
    <2>6. /\ DOMAIN view'.form = SfFields /\ view'.form.role = view.form.role
          /\ view'.form.groupId = view.form.groupId
        BY <2>2, <2>3, <2>4, <1>v DEF SfView, SfFields
    <2>7. SfShape'
        <3>1. SfView(view')
            BY <1>v, <1>14, <2>5, <2>6 DEF SfView
        <3>2. SfFirst(calls', view'.type, view'.groupRange)
            BY <1>16, <2>5, SfNotFirst
        <3> QED BY <1>11, <1>12, <1>13, <2>5, <3>1, <3>2 DEF SfShape
    <2>8. ASSUME mishaps' = {}, ~view'.ahead
          PROVE  /\ SfFit(view', SfLoading(calls'))
                 /\ \A e \in Range(calls') : SfOfRole(e, view'.form.role, server')
        <3>1. SfFit(view, SfLoading(calls)) /\ \A e \in Range(calls) : SfOfRole(e, view.form.role, server)
            BY <1>11, <2>5, <2>8 DEF SfFair
        <3>2. SfLoading(calls)
            BY <1>1 DEF SfLoading, SfLoads
        <3>3. view.form.role # 0 /\ view.groupRange # {} => SfGroup(view)
            BY <3>1, <3>2 DEF SfFit
        <3>4. SfGroup(view) => SfGroup(view')
            BY <2>5, <2>6 DEF SfGroup
        <3>5. SfFit(view', SfLoading(calls'))
            BY <1>14, <2>5, <2>6, <3>3, <3>4 DEF SfFit
        <3>6. view.form.role \in {0, site.role}
            <4>1. \E s \in server : s.id = calls[i].arg /\ view.form.role \in {0, s.form.role}
                BY <1>1, <3>1 DEF SfOfRole
            <4> QED BY <1>2, <1>4, <4>1 DEF SfShape, SfStored
        <3>7. SfOfRole(c, view.form.role, server)
            BY <1>7, <1>9, <3>6 DEF SfOfRole, SfSaves
        <3> QED BY <1>11, <1>12, <2>6, <3>1, <3>5, <3>7
    <2> QED BY <2>7, <2>8 DEF SfFair
<1> QED BY <1>15, <1>16

\* The groups the manager has of a role are of this role.
LEMMA SfGroupsOf ==
    ASSUME NEW role, NEW s, s = SF!GroupsOf(role)
    PROVE  IsQueue(s) /\ \A g \in Range(s) : g \in Groups /\ g.role = role
<1> DEFINE G == {g \in Groups : g.role = role}
<1>0. PICK S : S = {g.groupId : g \in G}
    OBVIOUS
<1>1. S \in SUBSET Nat /\ IsFiniteSet(S)
    <2>1. IsFiniteSet(G)
        BY GroupsAssumption, FS_Subset
    <2>2. PICK f : f = [g \in G |-> g.groupId]
        OBVIOUS
    <2>3. f \in Surjection(G, S)
        BY <1>0, <2>2 DEF Surjection
    <2>4. IsFiniteSet(S)
        BY <2>1, <2>3, FS_Surjection
    <2>5. S \in SUBSET Nat
        BY <1>0, GroupsAssumption
    <2> QED BY <2>4, <2>5
<1>2. PICK ids : ids = Ascending(S)
    OBVIOUS
<1>3. Cardinality(S) \in Nat /\ DOMAIN ids = 1 .. Cardinality(S) /\ \A k \in DOMAIN ids : ids[k] \in S
    BY <1>1, <1>2, AscendingLists
<1>4. s = [k \in DOMAIN ids |-> CHOOSE g \in Groups : g.groupId = ids[k]]
    <2>1. PICK l : l = SF!Ascending({g.groupId : g \in {g \in Groups : g.role = role}})
        OBVIOUS
    <2>2. s = [k \in DOMAIN l |-> CHOOSE g \in Groups : g.groupId = l[k]]
        BY <2>1 DEF SF!GroupsOf
    <2>3. l = ids
        <3>1. SF!Ascending(S) = Ascending(S)
            BY SFRows
        <3> QED BY <1>0, <1>2, <2>1, <3>1
    <2> QED BY <2>2, <2>3
<1>5. ASSUME NEW k \in DOMAIN ids
      PROVE  s[k] \in Groups /\ s[k].role = role
    <2>1. PICK g \in Groups : g.role = role /\ ids[k] = g.groupId
        BY <1>0, <1>3
    <2>2. s[k] = CHOOSE h \in Groups : h.groupId = ids[k]
        BY <1>4
    <2>3. s[k] \in Groups /\ s[k].groupId = g.groupId
        BY <2>1, <2>2
    <2>4. s[k] = g
        BY <2>3, GroupsAssumption
    <2> QED BY <2>1, <2>4
<1>6. DOMAIN s = 1 .. Cardinality(S) /\ s = [k \in 1 .. Cardinality(S) |-> s[k]]
    BY <1>3, <1>4
<1>7. IsQueue(s)
    BY <1>3, <1>6, ListIsQueue
<1> QED BY <1>3, <1>5, <1>6, <1>7 DEF Range

LEMMA SfGroupsLoaded ==
    ASSUME SfShape, SfFair, CallsInv(SF!Requests), NEW i \in DOMAIN calls, SF!GroupsThen(i)
    PROVE  SfShape' /\ SfFair'
<1>1. calls[i].op = "groups" /\ calls[i] \in Range(calls) /\ SF!Handled(i, <<>>)
    BY DEF SF!GroupsThen, SF!Arrives, Range
<1>v. SfView(view)
    BY DEF SfShape
<1>2. PICK more : more = SF!GroupsOf(calls[i].arg.role)
    OBVIOUS
<1>3. IsQueue(more) /\ \A g \in Range(more) : g \in Groups /\ g.role = calls[i].arg.role
    BY <1>2, SfGroupsOf
<1>4. PICK names : names = view.partyidname \o more
    OBVIOUS
<1>5. IsQueue(names) /\ Range(names) = Range(view.partyidname) \cup Range(more)
    <2>1. IsQueue(view.partyidname)
        BY <1>v DEF SfView
    <2>2. IsQueue(view.partyidname \o more)
        BY <1>3, <2>1, Joined
    <2> QED BY <1>3, <1>4, <2>1, <2>2, SetOfJoined
<1>6. PICK w : w = [view EXCEPT !.partyidname = names]
    OBVIOUS
<1>7. /\ SfView(w) /\ w.type = view.type /\ w.ahead = view.ahead /\ w.form = view.form
      /\ w.groupRange = view.groupRange /\ w.partyidSelect = view.partyidSelect
      /\ w.partyidname = names
    BY <1>v, <1>3, <1>5, <1>6 DEF SfView
<1>8. view' = SF!selectPartyid(w, calls[i].arg.select)
    BY <1>2, <1>4, <1>6 DEF SF!GroupsThen
<1>9. /\ SfView(view') /\ view'.type = w.type /\ view'.ahead = w.ahead
      /\ view'.partyidname = w.partyidname /\ view'.form.role = w.form.role
      /\ \/ view' = w
         \/ \E g \in Groups : /\ g \in Range(w.partyidname)
                              /\ view'.form.groupId = g.groupId /\ view'.groupRange = g.range
    BY <1>7, <1>8, SfGroupSelected
<1>10. Range(calls') \subseteq Range(calls) /\ server' = server /\ mishaps \subseteq mishaps'
    <2>1. AreCalls(<<>>, SF!Requests) /\ Range(<<>>) = {}
        BY NoneAreCalls, SetOfFew
    <2>2. SfCarried(<<>>) /\ server' = server /\ mishaps \subseteq mishaps'
        BY <1>1, SfHandledCarries
    <2> QED BY <2>1, <2>2, SfCarriedSet
<1>11. SfShape'
    <2>1. view.type = "siteinfo" => \A e \in Range(calls) : e.op # "siteInfo"
        BY <1>1 DEF SfShape, SfFirst, Range
    <2>2. view'.type = "siteinfo" => \A k \in DOMAIN calls' : calls'[k].op # "siteInfo"
        BY <1>7, <1>9, <1>10, <2>1 DEF Range
    <2>3. SfFirst(calls', view'.type, view'.groupRange)
        BY <2>2 DEF SfFirst
    <2> QED BY <1>7, <1>9, <1>10, <2>3 DEF SfShape
<1>12. ASSUME mishaps' = {}, ~view'.ahead
       PROVE  /\ SfFit(view', SfLoading(calls'))
              /\ \A e \in Range(calls') : SfOfRole(e, view'.form.role, server')
    <2>1. SfFit(view, SfLoading(calls)) /\ \A e \in Range(calls) : SfOfRole(e, view.form.role, server)
        BY <1>7, <1>9, <1>10, <1>12 DEF SfFair
    <2>2. view.form.role \in {0, calls[i].arg.role}
        BY <1>1, <2>1 DEF SfOfRole
    <2>3. \A g \in Range(names) : view.form.role \in {0, g.role}
        BY <1>3, <1>5, <2>1, <2>2 DEF SfFit
    <2>4. SfGroup(view) => SfGroup(w)
        BY <1>7 DEF SfGroup
    <2>5. SfLoading(calls') => SfLoading(calls)
        BY <1>10 DEF SfLoading
    <2>6. SfFit(w, SfLoading(calls'))
        BY <1>7, <2>1, <2>3, <2>4, <2>5 DEF SfFit
    <2>7. SfFit(view', SfLoading(calls'))
        BY <1>9, <2>6, SfGroupFits
    <2> QED BY <1>7, <1>9, <1>10, <2>1, <2>7
<1> QED BY <1>11, <1>12 DEF SfFair

LEMMA FormKept ==
    ASSUME SfShape, SfFair, CallsInv(SF!Requests), SF!Next
    PROVE  SfShape' /\ SfFair'
<1>v. SfView(view)
    BY DEF SfShape
<1>1. ASSUME NEW i \in DOMAIN calls, SF!Handled(i, <<>>), SfView(view'), SfKept(view, view')
      PROVE  SfShape' /\ SfFair'
    BY <1>1, SfKeptPlain
<1>2. ASSUME NEW i \in DOMAIN calls,
             SF!SiteNameThen(i) \/ SF!PartyIdThen(i) \/ SF!ChoicesThen(i) \/ SF!NoCatch(i)
      PROVE  SfShape' /\ SfFair'
    <2>1. SF!Handled(i, <<>>)
        BY <1>2 DEF SF!SiteNameThen, SF!PartyIdThen, SF!ChoicesThen, SF!NoCatch
    <2>2. \/ view' = view
          \/ \E x : view' = [view EXCEPT !.siteNameExists = x]
          \/ \E x : view' = [view EXCEPT !.partyIdPostPass = x]
          \/ \E x : view' = [view EXCEPT !.choices = x]
        BY <1>2 DEF SF!SiteNameThen, SF!PartyIdThen, SF!ChoicesThen, SF!NoCatch
    <2>3. SfView(view') /\ SfKept(view, view')
        BY <1>v, <2>2 DEF SfView, SfKept
    <2> QED BY <1>1, <2>1, <2>3
<1>3. ASSUME NEW i \in DOMAIN calls, SF!NetworkThen(i)
      PROVE  SfShape' /\ SfFair'
    <2>1. SF!Handled(i, <<>>) /\ view' = [view EXCEPT !.form.network = "default"]
        BY <1>3 DEF SF!NetworkThen
    <2>2. SfView(view') /\ SfKept(view, view')
        BY <1>v, <2>1, SfFieldEntered
    <2> QED BY <1>1, <2>1, <2>2
<1>4. ASSUME NEW i \in DOMAIN calls, SF!Answers(i)
      PROVE  SfShape' /\ SfFair'
    BY <1>2, <1>3, <1>4, SfSaved, SfSiteLoaded, SfGroupsLoaded DEF SF!Answers
<1> QED BY <1>4, FormActs, SfServes DEF SF!Next

LEMMA SfSiteMade ==
    ASSUME NEW id, NEW name, NEW groupId, NEW p, NEW t, t = SF!Site(id, name, groupId, p)
    PROVE  t.id = id /\ DOMAIN t.form = SfFields
BY DEF SF!Site, SF!Form, SfFields

LEMMA FormStartFair ==
    ASSUME SF!Init
    PROVE  SfShape /\ SfFair
<1>1. PICK opened \in BOOLEAN, g \in Groups, h \in Groups :
        \E p \in g.range, q \in h.range :
            /\ server = {SF!Site(2, "taken", g.groupId, p)}
                           \cup (IF opened THEN {SF!Site(1, "own", h.groupId, q)} ELSE {})
            /\ view = [type |-> IF opened THEN "siteinfo" ELSE "siteadd",
                       routeId |-> IF opened THEN 1 ELSE SF!NoId, id |-> SF!NoId,
                       isleave |-> opened, dialog |-> "none", left |-> FALSE, ahead |-> FALSE,
                       partyidname |-> <<>>, partyidSelect |-> 0, groupRange |-> {},
                       partyIdPostPass |-> TRUE, siteNameExists |-> FALSE,
                       choices |-> FALSE, form |-> SF!EmptyForm]
            /\ SF!Created((IF opened THEN SF!getKeySansLink(view) ELSE <<>>)
                         \o <<SF!Ask("choices", 0)>> \o SF!toResetNetwork)
    BY DEF SF!Init
<1>2. /\ DOMAIN view = {"type", "routeId", "id", "isleave", "dialog", "left", "ahead", "partyidname",
                   "partyidSelect", "groupRange", "partyIdPostPass", "siteNameExists", "choices", "form"}
      /\ view.form = SF!EmptyForm /\ view.partyidname = <<>> /\ view.groupRange = {}
      /\ view.id = 0 /\ view.type = IF opened THEN "siteinfo" ELSE "siteadd"
      /\ view.routeId = IF opened THEN 1 ELSE 0
    BY <1>1 DEF SF!NoId
<1>3. DOMAIN SF!EmptyForm = SfFields
    BY DEF SF!EmptyForm, SF!Form, SfFields
<1>4. IsQueue(<<>>) /\ Range(<<>>) = {} /\ DOMAIN <<>> = {}
    BY NoneAreCalls, SetOfFew DEF AreCalls
<1>5. SfView(view)
    BY <1>2, <1>3, <1>4 DEF SfView
<1>6. SfStored(server) /\ (opened => \E s \in server : s.id = 1)
    <2>1. PICK s : /\ s.id = 2 /\ DOMAIN s.form = SfFields
                   /\ \/ ~opened /\ server = {s}
                      \/ opened /\ \E t : /\ t.id = 1 /\ DOMAIN t.form = SfFields
                                          /\ server = {s, t}
        BY <1>1, SfSiteMade
    <2>2. CASE ~opened
        BY <2>1, <2>2 DEF SfStored
    <2>3. CASE opened
        <3>1. PICK t : t.id = 1 /\ DOMAIN t.form = SfFields /\ server = {s, t}
            BY <2>1, <2>3
        <3> QED BY <2>1, <3>1 DEF SfStored
    <2> QED BY <2>2, <2>3
<1> DEFINE a == SF!Ask("siteInfo", 1)
           c == SF!Ask("choices", 0)
           n == SF!Ask("network", 0)
           late == <<c>> \o <<n>>
<1>7. /\ AreCalls(<<a>>, SF!Requests) /\ AreCalls(<<c>>, SF!Requests) /\ AreCalls(<<n>>, SF!Requests)
      /\ a.op = "siteInfo" /\ a.arg = 1 /\ a.part = 0 /\ c.op = "choices" /\ c.part = 0
      /\ n.op = "network" /\ n.part = 0
    BY SfAsksOne DEF SF!Requests
<1> HIDE DEF a, c, n
<1>8. late = <<c, n>> /\ IsQueue(late) /\ DOMAIN late = {1, 2} /\ Range(late) = {c, n}
    <2>1. late = <<c, n>>
        BY OneAfterOne
    <2>2. IsQueue(late)
        BY <1>7, Joined DEF AreCalls
    <2>3. DOMAIN <<c, n>> = {1, 2}
        OBVIOUS
    <2> QED BY <2>1, <2>2, <2>3, SetOfFew
<1>9. ASSUME ~opened
      PROVE  Range(calls) = {c, n}
    <2>1. calls = <<>> \o <<c>> \o <<n>>
        BY <1>1, <1>9 DEF SF!Created, SF!toResetNetwork, c, n
    <2>2. calls = <<c>> \o <<n>>
        <3>1. <<>> \o <<c>> = <<c>>
            OBVIOUS
        <3> QED BY <2>1, <3>1
    <2> QED BY <1>8, <2>2
<1>10. ASSUME opened
       PROVE  /\ Range(calls) = {a, c, n}
              /\ \A k \in DOMAIN calls : calls[k].op # "groups" /\ (calls[k].op = "siteInfo" => k = 1)
    <2>1. calls = <<a>> \o <<c>> \o <<n>>
        BY <1>1, <1>2, <1>10 DEF SF!Created, SF!toResetNetwork, SF!getKeySansLink, SF!NoId, a, c, n
    <2>2. <<a>> \o <<c>> = <<a, c>>
        BY OneAfterOne
    <2>3. /\ Range(<<a, c>>) = {a, c} /\ IsQueue(<<a, c>>) /\ Len(<<a, c>>) = 2
          /\ <<a, c>>[1] = a /\ <<a, c>>[2] = c /\ DOMAIN <<a, c>> = {1, 2}
        <3>1. AreCalls(<<a, c>>, SF!Requests)
            BY <1>7, <2>2, BothAreCalls
        <3> QED BY <3>1, SetOfFew DEF AreCalls
    <2>4. PICK s : s = <<a, c>>
        OBVIOUS
    <2>5. PICK t : t = <<n>>
        OBVIOUS
    <2>6. IsQueue(s) /\ Len(s) = 2 /\ DOMAIN s = {1, 2} /\ s[1] = a /\ s[2] = c /\ Range(s) = {a, c}
        BY <2>3, <2>4
    <2>7. IsQueue(t) /\ Len(t) = 1 /\ DOMAIN t = {1} /\ t[1] = n /\ Range(t) = {n}
        <3>1. DOMAIN <<n>> = {1} /\ <<n>>[1] = n /\ Len(<<n>>) = 1
            OBVIOUS
        <3>2. IsQueue(<<n>>)
            BY <1>7 DEF AreCalls
        <3> QED BY <2>5, <3>1, <3>2, SetOfFew
    <2>8. calls = s \o t
        BY <2>1, <2>2, <2>4, <2>5
    <2>9. Range(calls) = {a, c, n}
        <3>1. Range(calls) = Range(s) \cup Range(t)
            BY <2>6, <2>7, <2>8, SetOfJoined
        <3> QED BY <2>6, <2>7, <3>1
    <2>10. /\ calls[1] = a /\ calls[2] = c /\ calls[3] = n
           /\ DOMAIN calls = 1 .. 3
        <3>0. IsQueue(s) /\ IsQueue(t)
            BY <2>6, <2>7
        <3>1. /\ IsQueue(s \o t) /\ Len(s \o t) = Len(s) + Len(t)
              /\ \A k \in DOMAIN s : (s \o t)[k] = s[k]
              /\ \A k \in DOMAIN t : (s \o t)[Len(s) + k] = t[k]
            BY <3>0, Joined
        <3>2. calls[2 + 1] = n
            BY <2>6, <2>7, <2>8, <3>1
        <3>3. DOMAIN calls = 1 .. 3
            BY <2>6, <2>7, <2>8, <3>1, QueueFacts
        <3> QED BY <2>6, <2>8, <3>1, <3>2, <3>3
    <2>11. \A k \in 1 .. 3 : k = 1 \/ k = 2 \/ k = 3
        OBVIOUS
    <2> QED BY <1>7, <2>9, <2>10, <2>11
<1>11. \A e \in Range(calls) : /\ e = a \/ e.op \in {"choices", "network"}
                               /\ e = a => opened
                               /\ e.part = 0
    BY <1>7, <1>9, <1>10
<1>12. SfShape
    <2>1. \A e \in Range(calls) : SfIsSite(e, view.type, server)
        BY <1>6, <1>7, <1>11 DEF SfIsSite, SfSaves
    <2>2. SfFirst(calls, view.type, view.groupRange)
        BY <1>2, <1>10 DEF SfFirst
    <2> QED BY <1>5, <1>6, <2>1, <2>2 DEF SfShape
<1>13. SfFair
    <2>1. view.form.role = 0
        <3>1. SF!EmptyForm.role = 0
            BY DEF SF!EmptyForm, SF!Form
        <3> QED BY <1>2, <3>1
    <2>2. SfFit(view, SfLoading(calls))
        BY <1>2, <1>4, <2>1 DEF SfFit
    <2>3. \A e \in Range(calls) : SfOfRole(e, view.form.role, server)
        BY <1>6, <1>7, <1>11, <2>1 DEF SfOfRole, SfSaves
    <2> QED BY <2>2, <2>3 DEF SfFair
<1> QED BY <1>12, <1>13

LEMMA FormSubmits ==
    ASSUME SfFair
    PROVE  SF!GroupOfSubmission
<1> SUFFICES ASSUME mishaps = {}, ~view.ahead, NEW i \in SF!Submitted
             PROVE  \E g \in Groups : /\ g.groupId = calls[i].arg.form.groupId
                                      /\ g.role = calls[i].arg.form.role
                                      /\ calls[i].arg.form.partyId \in g.range
    BY DEF SF!GroupOfSubmission
<1>1. i \in DOMAIN calls /\ calls[i].op \in SfSaves
    BY DEF SF!Submitted, SfSaves
<1>2. SfOfRole(calls[i], view.form.role, server)
    BY <1>1 DEF SfFair, Range
<1> QED BY <1>1, <1>2 DEF SfOfRole
-----------------------------------------------------------------------------
(* The list of the sites.                                                  *)

\* The requests that raise no overlay, and those the page waits for.
SlQuiet == {"info", "choices", "list", "authority", "status"}
SlMain == SL!Requests \ {"info", "choices", "status"}

SlData(d) ==
    DOMAIN d = {"status", "institutions", "pageNum"} /\ d.pageNum \in Nat \ {0}
SlLists(lists) == IsQueue(lists) /\ \A k \in DOMAIN lists : IsQueue(lists[k])
SlDialog(d) ==
    /\ DOMAIN d = {"kind", "institutions", "box", "list"}
    /\ DOMAIN d.box = SL!Kinds /\ DOMAIN d.list = SL!Kinds
SlView(v) ==
    /\ DOMAIN v = {"radio", "siteState", "total", "data", "lists", "shown", "choices", "dialog",
                   "crowded"}
    /\ SlData(v.data) /\ v.total \in Nat /\ v.crowded \in BOOLEAN
    /\ SlLists(v.lists) /\ v.shown \in 0 .. Len(v.lists) /\ SlDialog(v.dialog)

\* A request, of a page with the data v and the history m.
SlCall(e, v, m) ==
    /\ e.part = 0 /\ (e.quiet <=> e.op \in SlQuiet)
    /\ e.answer.code \in {"failed", "refused"} => "failed" \in m
    /\ e.op = "list" => e.arg.pageNum \in Nat \ {0}
    /\ e.op = "authority" =>
         /\ e.arg.list \in DOMAIN v.lists
         /\ e.arg.place \in DOMAIN v.lists[e.arg.list]

SlPlain == SlView(view) /\ \A e \in Range(calls) : SlCall(e, view, mishaps)

\* A request whose answer takes the overlay down, or asks for one that does.
SlLast(e, v) ==
    \/ ~e.quiet
    \/ e.op = "list"
    \/ e.op = "authority" /\ e.arg.place = Len(v.lists[e.arg.list])
SlEnds == mishaps = {} /\ busy => \E e \in Range(calls) : SlLast(e, view)

SlAsks(asked, v, m) ==
    /\ AreCalls(asked, SL!Requests)
    /\ \A e \in Range(asked) : SlCall(e, v, m) /\ e.answer.code = "waiting"

LEMMA SlCallIs ==
    ASSUME NEW op, NEW arg, NEW c,
           \/ op \in SlQuiet /\ c = SL!AskQuietly(op, arg)
           \/ op \in SL!Requests \ SlQuiet /\ c = SL!Ask(op, arg)
    PROVE  /\ IsCall(c, SL!Requests) /\ c.op = op /\ c.arg = arg /\ c.part = 0
           /\ (c.quiet <=> op \in SlQuiet) /\ c.answer.code = "waiting" /\ c.answer = Waiting
<1>1. CASE op \in SlQuiet /\ c = SL!AskQuietly(op, arg)
    <2>1. c = AskQuietly(op, arg) /\ op \in SL!Requests
        BY <1>1, SLIsPage DEF SlQuiet, SL!Requests
    <2> QED BY <1>1, <2>1 DEF AskQuietly, Call, IsCall, Waiting, Codes
<1>2. CASE op \in SL!Requests \ SlQuiet /\ c = SL!Ask(op, arg)
    <2>1. c = Ask(op, arg)
        BY <1>2, SLIsPage
    <2> QED BY <1>2, <2>1 DEF Ask, Call, IsCall, Waiting, Codes
<1> QED BY <1>1, <1>2

LEMMA SlAsksNone ==
    ASSUME NEW v, NEW m
    PROVE  SlAsks(<<>>, v, m) /\ Range(<<>>) = {}
BY NoneAreCalls, SetOfFew DEF SlAsks

\* A page asks for one thing that is neither the list nor the authorities.
LEMMA SlAsksOne ==
    ASSUME NEW op \in SL!Requests \ {"list", "authority"}, NEW arg, NEW asked,
           \/ op \in SlQuiet /\ asked = <<SL!AskQuietly(op, arg)>>
           \/ op \notin SlQuiet /\ asked = <<SL!Ask(op, arg)>>,
           NEW v, NEW m
    PROVE  /\ SlAsks(asked, v, m)
           /\ \E c : /\ asked = <<c>> /\ Range(asked) = {c} /\ c.op = op /\ c.arg = arg
                     /\ c.answer = Waiting /\ (c.quiet <=> op \in SlQuiet)
<1>1. PICK c : /\ asked = <<c>>
               /\ \/ op \in SlQuiet /\ c = SL!AskQuietly(op, arg)
                  \/ op \in SL!Requests \ SlQuiet /\ c = SL!Ask(op, arg)
    OBVIOUS
<1>2. /\ IsCall(c, SL!Requests) /\ c.op = op /\ c.arg = arg /\ c.part = 0
      /\ (c.quiet <=> op \in SlQuiet) /\ c.answer.code = "waiting" /\ c.answer = Waiting
    BY <1>1, SlCallIs
<1>3. AreCalls(asked, SL!Requests) /\ Range(asked) = {c}
    BY <1>1, <1>2, OneIsCalls, SetOfFew
<1>4. SlCall(c, v, m)
    BY <1>2 DEF SlCall
<1> QED BY <1>1, <1>2, <1>3, <1>4 DEF SlAsks

\* It asks for the list, alone or with something else.
LEMMA SlAsksList ==
    ASSUME NEW w, w.data.pageNum \in Nat \ {0}, NEW v, NEW m, NEW asked,
           \/ asked = SL!getinitinstitutions(w)
           \/ \E radio : asked = SL!getinitinstitutions(w) \o SL!getinsSelectList(radio)
           \/ \E list : asked = SL!getinitinstitutions(w) \o SL!info(list)
    PROVE  /\ SlAsks(asked, v, m)
           /\ \E l : /\ l \in Range(asked) /\ l.op = "list"
                     /\ asked[1] = l /\ \A k \in DOMAIN asked : k # 1 => asked[k].op \in {"info", "choices"}
<1> DEFINE l == SL!AskQuietly("list", w.data)
<1>1. /\ IsCall(l, SL!Requests) /\ l.op = "list" /\ l.arg = w.data /\ l.part = 0 /\ l.quiet
      /\ l.answer.code = "waiting"
    <2>1. "list" \in SlQuiet
        BY DEF SlQuiet
    <2>2. PICK arg : arg = w.data
        OBVIOUS
    <2>3. l = SL!AskQuietly("list", arg)
        BY <2>2
    <2> HIDE DEF l
    <2>4. /\ IsCall(l, SL!Requests) /\ l.op = "list" /\ l.arg = arg /\ l.part = 0
          /\ (l.quiet <=> "list" \in SlQuiet) /\ l.answer.code = "waiting"
        BY <2>1, <2>3, SlCallIs
    <2> QED BY <2>1, <2>2, <2>4
<1>2. SL!getinitinstitutions(w) = <<l>>
    BY DEF SL!getinitinstitutions
<1>3. SlCall(l, v, m)
    BY <1>1 DEF SlCall, SlQuiet
<1>4. \/ asked = <<l>>
      \/ \E op \in {"info", "choices"} : \E arg : asked = <<l>> \o <<SL!AskQuietly(op, arg)>>
    BY <1>2 DEF SL!getinsSelectList, SL!info
<1> HIDE DEF l
<1>5. CASE asked = <<l>>
    BY <1>1, <1>3, <1>5, OneIsCalls, SetOfFew DEF SlAsks
<1>6. ASSUME NEW op \in {"info", "choices"}, NEW arg, asked = <<l>> \o <<SL!AskQuietly(op, arg)>>
      PROVE  /\ SlAsks(asked, v, m) /\ l \in Range(asked) /\ asked[1] = l
             /\ \A k \in DOMAIN asked : k # 1 => asked[k].op \in {"info", "choices"}
    <2> DEFINE c == SL!AskQuietly(op, arg)
    <2>1. op \in SlQuiet
        BY DEF SlQuiet
    <2>2. /\ IsCall(c, SL!Requests) /\ c.op = op /\ c.part = 0 /\ c.quiet /\ c.answer.code = "waiting"
        BY <2>1, SlCallIs
    <2> HIDE DEF c
    <2>3. asked = <<l, c>>
        BY <1>6, OneAfterOne DEF c
    <2>4. AreCalls(asked, SL!Requests) /\ Range(asked) = {l, c}
        BY <1>1, <2>2, <2>3, TwoAreCalls, SetOfFew
    <2>5. SlCall(c, v, m)
        BY <2>1, <2>2 DEF SlCall
    <2>6. DOMAIN asked = {1, 2} /\ asked[1] = l /\ asked[2] = c
        BY <2>3
    <2> QED BY <1>1, <1>3, <2>2, <2>4, <2>5, <2>6 DEF SlAsks
<1> QED BY <1>1, <1>4, <1>5, <1>6

\* The authorities of the rows of a list.
SlAuthorities(v, last) ==
    [n \in DOMAIN v.lists[last] |-> SL!AskQuietly("authority", [list |-> last, place |-> n])]

LEMMA SlAsksAuthorities ==
    ASSUME NEW v, NEW m, NEW last \in DOMAIN v.lists, IsQueue(v.lists[last]), NEW asked,
           asked = SlAuthorities(v, last)
    PROVE  /\ SlAsks(asked, v, m) /\ DOMAIN asked = DOMAIN v.lists[last]
           /\ \A n \in DOMAIN asked :
                asked[n].op = "authority" /\ asked[n].arg.list = last /\ asked[n].arg.place = n
<1> DEFINE n == Len(v.lists[last])
<1>1. n \in Nat /\ DOMAIN v.lists[last] = 1 .. n
    BY QueueFacts
<1>2. DOMAIN asked = 1 .. n /\ asked = [k \in 1 .. n |-> asked[k]]
    BY <1>1 DEF SlAuthorities
<1>3. ASSUME NEW k \in 1 .. n
      PROVE  /\ IsCall(asked[k], SL!Requests) /\ asked[k].op = "authority"
             /\ asked[k].arg.list = last /\ asked[k].arg.place = k
             /\ SlCall(asked[k], v, m) /\ asked[k].answer.code = "waiting"
    <2> DEFINE arg == [list |-> last, place |-> k]
               c == asked[k]
    <2>1. c = SL!AskQuietly("authority", arg) /\ arg.list = last /\ arg.place = k
        BY <1>1 DEF SlAuthorities
    <2>2. "authority" \in SlQuiet
        BY DEF SlQuiet
    <2> HIDE DEF c, arg
    <2>3. /\ IsCall(c, SL!Requests) /\ c.op = "authority" /\ c.arg = arg /\ c.part = 0
          /\ (c.quiet <=> "authority" \in SlQuiet) /\ c.answer.code = "waiting"
        BY <2>1, <2>2, SlCallIs
    <2>4. SlCall(c, v, m)
        BY <1>1, <2>1, <2>2, <2>3 DEF SlCall
    <2> QED BY <2>1, <2>3, <2>4 DEF c
<1> HIDE DEF n
<1>4. AreCalls(asked, SL!Requests)
    BY <1>1, <1>2, <1>3, ManyAreCalls
<1>5. \A e \in Range(asked) : SlCall(e, v, m) /\ e.answer.code = "waiting"
    BY <1>2, <1>3 DEF Range
<1> QED BY <1>1, <1>2, <1>3, <1>4, <1>5 DEF SlAsks

\* The marks of the institutions on the page.
LEMMA SlAsksMarks ==
    ASSUME NEW v, SlView(v), NEW m, NEW w, NEW asked, asked = SL!setMsg(v)
    PROVE  /\ SlAsks(asked, w, m)
           /\ \A e \in Range(asked) : e.op = "status"
<1> DEFINE n == Len(SL!Items(v))
<1>1. IsQueue(SL!Items(v))
    <2>1. CASE v.shown = 0
        BY <2>1, NoneAreCalls DEF SL!Items, AreCalls
    <2>2. CASE v.shown # 0
        <3>1. v.shown \in DOMAIN v.lists
            BY <2>2, QueueFacts DEF SlView, SlLists
        <3> QED BY <2>2, <3>1 DEF SL!Items, SlView, SlLists
    <2> QED BY <2>1, <2>2
<1>2. n \in Nat /\ SL!Places(v) = 1 .. n
    BY <1>1, QueueFacts DEF SL!Places
<1>3. DOMAIN asked = 1 .. n /\ asked = [k \in 1 .. n |-> asked[k]]
    BY <1>2 DEF SL!setMsg
<1>4. ASSUME NEW k \in 1 .. n
      PROVE  /\ IsCall(asked[k], SL!Requests) /\ asked[k].op = "status"
             /\ SlCall(asked[k], w, m) /\ asked[k].answer.code = "waiting"
    <2> DEFINE c == asked[k]
    <2>1. PICK arg : c = SL!AskQuietly("status", arg)
        BY <1>2 DEF SL!setMsg
    <2>3. "status" \in SlQuiet
        BY DEF SlQuiet
    <2> HIDE DEF c
    <2>4. /\ IsCall(c, SL!Requests) /\ c.op = "status" /\ c.part = 0
          /\ (c.quiet <=> "status" \in SlQuiet) /\ c.answer.code = "waiting"
        BY <2>1, <2>3, SlCallIs
    <2>5. SlCall(c, w, m)
        BY <2>3, <2>4 DEF SlCall
    <2> QED BY <2>4, <2>5 DEF c
<1> HIDE DEF n
<1>5. AreCalls(asked, SL!Requests)
    BY <1>2, <1>3, <1>4, ManyAreCalls
<1>6. \A e \in Range(asked) : SlCall(e, w, m) /\ e.answer.code = "waiting" /\ e.op = "status"
    BY <1>3, <1>4 DEF Range
<1> QED BY <1>5, <1>6 DEF SlAsks

\* A step leaves the lists that requests under way are for as long as they were.
SlKeepsLists ==
    \A e \in Range(calls) : e.op = "authority" =>
        /\ e.arg.list \in DOMAIN view'.lists
        /\ DOMAIN view'.lists[e.arg.list] = DOMAIN view.lists[e.arg.list]
        /\ Len(view'.lists[e.arg.list]) = Len(view.lists[e.arg.list])

LEMMA SlSameLists ==
    ASSUME SlPlain, view'.lists = view.lists
    PROVE  SlKeepsLists
BY DEF SlPlain, SlCall, SlKeepsLists

LEMMA SlAsksKeep ==
    ASSUME SlPlain, CallsInv(SL!Requests), NEW asked, SlAsks(asked, view', mishaps'),
           calls' = calls \o asked \/ \E i \in DOMAIN calls : calls' = Without(calls, i) \o asked,
           mishaps \subseteq mishaps', SlView(view'), SlKeepsLists
    PROVE  SlPlain'
<1>1. Range(calls') \subseteq Range(calls) \cup Range(asked)
    BY SetOfCalls DEF CallsInv, SlAsks
<1>2. \A e \in Range(calls) : SlCall(e, view', mishaps')
    BY DEF SlPlain, SlCall, SlKeepsLists
<1> QED BY <1>1, <1>2 DEF SlPlain, SlAsks

\* What is known after every step of the page.
SlSteps == Carries(SL!Requests) /\ SlPlain' /\ SlEnds'

LEMMA SlClicks ==
    ASSUME SlPlain, CallsInv(SL!Requests), NEW asked, SlAsks(asked, view', mishaps'),
           SL!Click(asked), SlView(view'), view'.lists = view.lists
    PROVE  SlSteps
<1>1. Clicked(asked) /\ AreCalls(asked, SL!Requests)
    BY SLIsPage DEF SlAsks
<1>2. Carries(SL!Requests)
    BY <1>1, ClickMoves DEF Moves
<1>3. /\ calls' = calls \o asked /\ mishaps \subseteq mishaps'
      /\ busy' => Loud(asked)
    BY <1>1 DEF Clicked, Sends
<1>4. SlPlain'
    BY <1>3, SlSameLists, SlAsksKeep
<1>5. ASSUME busy' PROVE \E e \in Range(calls') : SlLast(e, view')
    <2>1. \E e \in Range(asked) : ~e.quiet
        BY <1>3, <1>5 DEF Loud, Range
    <2>2. Range(asked) \subseteq Range(calls')
        BY <1>1, <1>3, SetOfCalls DEF CallsInv
    <2> QED BY <2>1, <2>2 DEF SlLast
<1> QED BY <1>2, <1>4, <1>5 DEF SlSteps, SlEnds

LEMMA SlRaises ==
    ASSUME SlPlain, CallsInv(SL!Requests), NEW asked, SlAsks(asked, view', mishaps'),
           SL!ClickList(asked), \E e \in Range(asked) : e.op = "list",
           SlView(view'), view'.lists = view.lists
    PROVE  SlSteps
<1>1. /\ calls' = calls \o asked /\ mishaps' = mishaps \cup Overlaps(calls, asked) /\ busy'
      /\ steps' = steps + 1 /\ AreCalls(asked, SL!Requests)
    BY DEF SL!ClickList, SL!Raised, SL!UserActs, SL!Overlaps, SL!SentOps, Overlaps, SentOps, SlAsks
<1>2. busy' \in BOOLEAN /\ Overlaps(calls, asked) \subseteq Mishaps
    BY DEF SL!ClickList, SL!Raised, Overlaps, Mishaps
<1>3. Carries(SL!Requests)
    BY <1>1, <1>2 DEF Carries
<1>4. SlPlain'
    BY <1>1, SlSameLists, SlAsksKeep
<1>5. Range(asked) \subseteq Range(calls')
    BY <1>1, SetOfCalls DEF CallsInv
<1> QED BY <1>3, <1>4, <1>5 DEF SlSteps, SlEnds, SlLast

LEMMA SlHandles ==
    ASSUME SlPlain, SlEnds, CallsInv(SL!Requests), NEW i \in DOMAIN calls, NEW asked,
           SlAsks(asked, view', mishaps'), \A e \in Range(asked) : e.quiet, SL!Handled(i, asked),
           SlView(view'), SlKeepsLists,
           mishaps # {} \/ ~calls[i].quiet \/ ~SlLast(calls[i], view)
    PROVE  SlSteps
<1>1. Handled(i, asked) /\ AreCalls(asked, SL!Requests)
    BY SLIsPage DEF SlAsks
<1>2. Carries(SL!Requests)
    BY <1>1, HandledMoves DEF Moves
<1>3. /\ calls' = Without(calls, i) \o asked /\ mishaps \subseteq mishaps'
      /\ busy' => Loud(asked) \/ (busy /\ calls[i].quiet)
    BY <1>1 DEF Handled
<1>4. SlPlain'
    BY <1>3, SlAsksKeep
<1>5. ASSUME busy', mishaps' = {} PROVE \E e \in Range(calls') : SlLast(e, view')
    <2>1. busy /\ calls[i].quiet /\ mishaps = {}
        BY <1>3, <1>5 DEF Loud, Range
    <2>2. PICK e \in Range(calls) : SlLast(e, view)
        BY <2>1 DEF SlEnds
    <2>3. e # calls[i]
        BY <2>1, <2>2
    <2>4. e \in Range(calls')
        BY <2>3, <1>1, <1>3, SetOfCalls DEF CallsInv
    <2>5. SlLast(e, view')
        BY <2>2 DEF SlLast, SlKeepsLists
    <2> QED BY <2>4, <2>5
<1> QED BY <1>2, <1>4, <1>5 DEF SlSteps, SlEnds

LEMMA SlHandlesUnder ==
    ASSUME SlPlain, CallsInv(SL!Requests), NEW i \in DOMAIN calls, NEW asked,
           SlAsks(asked, view', mishaps'), NEW o \in BOOLEAN, SL!HandledUnder(i, asked, o),
           o => \E e \in Range(asked) : SlLast(e, view'),
           SlView(view'), SlKeepsLists
    PROVE  SlSteps
<1>1. HandledUnder(i, asked, o) /\ AreCalls(asked, SL!Requests)
    BY SLIsPage DEF SlAsks
<1>2. Carries(SL!Requests)
    BY <1>1, UnderCarries
<1>3. /\ calls' = Without(calls, i) \o asked /\ mishaps \subseteq mishaps' /\ busy' = o
    BY <1>1 DEF HandledUnder
<1>4. SlPlain'
    BY <1>3, SlAsksKeep
<1>5. Range(asked) \subseteq Range(calls')
    BY <1>1, <1>3, SetOfCalls DEF CallsInv
<1> QED BY <1>2, <1>3, <1>4, <1>5 DEF SlSteps, SlEnds

LEMMA SlAnswers ==
    ASSUME SlPlain, SlEnds, CallsInv(SL!Requests), NEW i \in DOMAIN calls, NEW a, a.code \in Codes,
           calls' = Answered(calls, i, a), UNCHANGED <<view, busy>>,
           mishaps \subseteq mishaps', a.code \in {"failed", "refused"} => "failed" \in mishaps'
    PROVE  SlPlain' /\ SlEnds'
<1>1. /\ \A e \in Range(calls') :
           \/ e \in Range(calls)
           \/ /\ e.op = calls[i].op /\ e.arg = calls[i].arg /\ e.quiet = calls[i].quiet
              /\ e.part = calls[i].part /\ e.answer = a
      /\ calls[i] \in Range(calls)
    BY AnsweredSet DEF CallsInv
<1>2. \A e \in Range(calls') : SlCall(e, view', mishaps')
    BY <1>1 DEF SlPlain, SlCall
<1>3. ASSUME mishaps' = {}, busy'
      PROVE  \E e \in Range(calls') : SlLast(e, view')
    <2>1. PICK e \in Range(calls) : SlLast(e, view)
        BY <1>3 DEF SlEnds
    <2>2. PICK k \in DOMAIN calls : calls[k] = e
        BY DEF Range
    <2>3. /\ k \in DOMAIN calls' /\ calls'[k].op = e.op /\ calls'[k].arg = e.arg
          /\ calls'[k].quiet = e.quiet
        BY <2>2, AnsweredCall DEF CallsInv
    <2> QED BY <2>1, <2>3 DEF SlLast, Range
<1> QED BY <1>2, <1>3 DEF SlPlain, SlEnds

\* What the user does.
LEMMA SlActs ==
    ASSUME SlPlain, CallsInv(SL!Requests), SL!Acts
    PROVE  SlSteps
<1>v. SlView(view)
    BY DEF SlPlain
<1>0. SlAsks(<<>>, view', mishaps')
    BY SlAsksNone
<1>1. ASSUME NEW radio, SL!changeRadio(radio)
      PROVE  SlSteps
    <2> DEFINE s == SL!getinitinstitutions(view') \o SL!getinsSelectList(radio)
    <2>1. /\ view' = [view EXCEPT !.radio = radio, !.choices = {},
                            !.data = [status |-> radio, institutions |-> "", pageNum |-> 1]]
          /\ SL!ClickList(s)
        BY <1>1 DEF SL!changeRadio
    <2>2. SlView(view') /\ view'.lists = view.lists
        <3>1. SlData([status |-> radio, institutions |-> "", pageNum |-> 1])
            BY DEF SlData
        <3>2. /\ DOMAIN view' = DOMAIN view /\ SlData(view'.data) /\ view'.dialog = view.dialog
              /\ view'.lists = view.lists /\ view'.total = view.total
              /\ view'.shown = view.shown /\ view'.crowded = view.crowded
            BY <2>1, <3>1, <1>v DEF SlView
        <3> QED BY <3>2, <1>v DEF SlView
    <2>3. SlAsks(s, view', mishaps') /\ \E e \in Range(s) : e.op = "list"
        BY <2>2, SlAsksList DEF SlView, SlData
    <2> HIDE DEF s
    <2> QED BY <2>1, <2>2, <2>3, SlRaises
<1>2. ASSUME NEW page \in Nat \ {0}, SL!toSearch \/ SL!handleCurrentChange(page)
      PROVE  SlSteps
    <2> DEFINE s == SL!getinitinstitutions(view')
    <2>1. SL!ClickList(s)
        BY <1>2 DEF SL!toSearch, SL!handleCurrentChange
    <2>2. SlView(view') /\ view'.lists = view.lists
        <3>1. /\ \A d : SlData(d) => SlData([d EXCEPT !.pageNum = 1])
              /\ \A d : SlData(d) => SlData([d EXCEPT !.pageNum = page, !.institutions = ""])
            BY DEF SlData
        <3>2. SlData(view.data)
            BY <1>v DEF SlView
        <3>3. CASE SL!toSearch
            <4>1. view' = [view EXCEPT !.data = [view.data EXCEPT !.pageNum = 1]]
                BY <3>3 DEF SL!toSearch
            <4>2. view'.data = [view.data EXCEPT !.pageNum = 1] /\ SlData(view'.data)
                BY <3>1, <3>2, <4>1, <1>v DEF SlView
            <4>3. /\ DOMAIN view' = DOMAIN view /\ view'.dialog = view.dialog
                  /\ view'.lists = view.lists /\ view'.total = view.total
                  /\ view'.shown = view.shown /\ view'.crowded = view.crowded
                BY <4>1
            <4> QED BY <4>2, <4>3, <1>v DEF SlView
        <3>4. CASE SL!handleCurrentChange(page)
            <4>1. view' = [view EXCEPT !.data = [view.data EXCEPT !.pageNum = page, !.institutions = ""]]
                BY <3>4 DEF SL!handleCurrentChange
            <4>2. SlData(view'.data)
                BY <3>1, <3>2, <4>1, <1>v DEF SlView
            <4>3. /\ DOMAIN view' = DOMAIN view /\ view'.dialog = view.dialog
                  /\ view'.lists = view.lists /\ view'.total = view.total
                  /\ view'.shown = view.shown /\ view'.crowded = view.crowded
                BY <4>1
            <4> QED BY <4>2, <4>3, <1>v DEF SlView
        <3> QED BY <1>2, <3>3, <3>4
    <2>3. SlAsks(s, view', mishaps') /\ \E e \in Range(s) : e.op = "list"
        BY <2>2, SlAsksList DEF SlView, SlData
    <2> HIDE DEF s
    <2> QED BY <2>1, <2>2, <2>3, SlRaises
<1>3. ASSUME NEW x, SL!ChooseInstitutions(x) \/ SL!CloseDialog \/ SL!deleteSite(x)
      PROVE  SlSteps
    <2>1. SL!Click(<<>>)
        BY <1>3 DEF SL!ChooseInstitutions, SL!CloseDialog, SL!deleteSite
    <2>2. SlView(view') /\ view'.lists = view.lists
        <3>1. CASE SL!ChooseInstitutions(x)
            <4>1. view' = [view EXCEPT !.data = [view.data EXCEPT !.institutions = x]]
                BY <3>1 DEF SL!ChooseInstitutions
            <4>2. SlData([view.data EXCEPT !.institutions = x])
                BY <1>v DEF SlView, SlData
            <4> QED BY <4>1, <4>2, <1>v DEF SlView
        <3>2. CASE SL!CloseDialog \/ SL!deleteSite(x)
            <4>1. PICK d : SlDialog(d) /\ view' = [view EXCEPT !.dialog = d]
                <5>1. SlDialog(SL!NoDialog)
                    BY DEF SlDialog, SL!NoDialog
                <5>2. \A a : SlDialog([SL!NoDialog EXCEPT !.kind = "delete", !.institutions = a])
                    BY DEF SlDialog, SL!NoDialog
                <5> QED BY <3>2, <5>1, <5>2 DEF SL!CloseDialog, SL!deleteSite
            <4> QED BY <4>1, <1>v DEF SlView
        <3> QED BY <1>3, <3>1, <3>2
    <2> QED BY <1>0, <2>1, <2>2, SlClicks
<1>4. ASSUME NEW n, SL!toshowins(n) \/ SL!toshowcancelAuthor(n)
      PROVE  SlSteps
    <2>1. SlView(view') /\ view'.lists = view.lists
        <3>1. PICK d : SlDialog(d) /\ view' = [view EXCEPT !.dialog = d]
            <4>1. \A a : SlDialog([SL!NoDialog EXCEPT !.institutions = a])
                BY DEF SlDialog, SL!NoDialog
            <4> QED BY <1>4, <4>1 DEF SL!toshowins, SL!toshowcancelAuthor
        <3> QED BY <3>1, <1>v DEF SlView
    <2>2. PICK op, arg :
             /\ op \in SL!Requests \ {"list", "authority"}
             /\ op \notin SlQuiet /\ SL!Click(<<SL!Ask(op, arg)>>)
        BY <1>4 DEF SL!toshowins, SL!toshowcancelAuthor, SL!Requests, SlQuiet
    <2> DEFINE s == <<SL!Ask(op, arg)>>
    <2>3. SlAsks(s, view', mishaps') /\ SL!Click(s)
        BY <2>2, SlAsksOne
    <2> HIDE DEF s
    <2> QED BY <2>1, <2>3, SlClicks
<1>5. CASE SL!totipsAction \/ SL!tocancelAuthor \/ SL!deleteInstitutions
    <2>1. SlView(view') /\ view'.lists = view.lists
        BY <1>5, <1>v DEF SL!totipsAction, SL!tocancelAuthor, SL!deleteInstitutions
    <2>2. PICK op, arg :
             /\ op \in SL!Requests \ {"list", "authority"}
             /\ op \notin SlQuiet /\ SL!Click(<<SL!Ask(op, arg)>>)
        BY <1>5 DEF SL!totipsAction, SL!tocancelAuthor, SL!deleteInstitutions, SL!Requests, SlQuiet
    <2> DEFINE s == <<SL!Ask(op, arg)>>
    <2>3. SlAsks(s, view', mishaps') /\ SL!Click(s)
        BY <2>2, SlAsksOne
    <2> HIDE DEF s
    <2> QED BY <2>1, <2>3, SlClicks
<1>6. ASSUME NEW kind \in SL!Kinds, SL!CheckAll(kind) \/ \E name : SL!Check(kind, name)
      PROVE  SlSteps
    <2>1. PICK boxes : /\ SL!Click(<<>>)
                       /\ view' = [view EXCEPT !.dialog.list[kind] = boxes]
        BY <1>6 DEF SL!CheckAll, SL!Check
    <2>2. SlView(view') /\ view'.lists = view.lists
        <3> DEFINE d == [view.dialog EXCEPT !.list[kind] = boxes]
        <3>1. SlDialog(d)
            BY <1>v DEF SlView, SlDialog
        <3>2. view' = [view EXCEPT !.dialog = d]
            BY <2>1
        <3> HIDE DEF d
        <3> QED BY <3>1, <3>2, <1>v DEF SlView
    <2> QED BY <1>0, <2>1, <2>2, SlClicks
<1>7. \A p \in SL!PagesOf(view.total, SL!PageSize) : p \in Nat \ {0}
    BY <1>v DEF SlView, SL!PagesOf, SL!PageSize
<1>8. 1 \in Nat \ {0}
    OBVIOUS
<1> QED BY <1>1, <1>2, <1>3, <1>4, <1>5, <1>6, <1>7, <1>8 DEF SL!Acts

\* The rows of a list, and a list that comes.
LEMMA SlListRows ==
    ASSUME NEW query, query.pageNum \in Nat \ {0}, NEW answer, answer = SL!ListOf(query)
    PROVE  IsQueue(answer.list) /\ answer.totalRecord \in Nat
<1> DEFINE I == Institutions \cup {More}
           places == {k \in DOMAIN SL!Order : /\ SL!Order[k] \in SL!Named(query.status)
                                              /\ query.institutions \in {"", SL!Order[k]}}
           rows == Picked(SL!Order, places)
           c == Chunk(rows, 2, query.pageNum)
<1>1. IsQueue(SL!Order)
    <2>1. IsFiniteSet(I)
        BY InstitutionsAssumption, FS_AddElement
    <2> HIDE DEF I
    <2>2. SL!Bijection(1 .. SL!Cardinality(I), I) = Bijection(1 .. Cardinality(I), I)
        <3>1. SL!Cardinality(I) = Cardinality(I)
            BY DEF SL!Cardinality, Cardinality
        <3>2. \A A, B : SL!Injection(A, B) = Injection(A, B)
            BY DEF SL!Injection, Injection, SL!IsInjective, IsInjective
        <3>3. \A A, B : SL!Surjection(A, B) = Surjection(A, B)
            BY DEF SL!Surjection, Surjection
        <3> QED BY <3>1, <3>2, <3>3 DEF SL!Bijection, Bijection
    <2>3. SL!Order = SL!Enumerated(I)
        BY DEF SL!Order, I
    <2>4. (\E g : g \in Bijection(1 .. Cardinality(I), I)) => SL!Order \in Bijection(1 .. Cardinality(I), I)
        BY <2>2, <2>3 DEF SL!Enumerated
    <2> QED BY <2>1, <2>4, EnumeratedSet
<1>2. IsQueue(rows) /\ Len(rows) \in Nat
    <2>1. places \in SUBSET DOMAIN SL!Order
        OBVIOUS
    <2> HIDE DEF places
    <2> QED BY <1>1, <2>1, PickedRows
<1>3. answer = [list |-> c, totalRecord |-> Len(rows)]
    BY SLRows DEF SL!ListOf, SL!PageSize
<1>4. IsQueue(c)
    <2> HIDE DEF rows
    <2> QED BY <1>2, ChunkOfRows
<1> HIDE DEF c, rows
<1> QED BY <1>2, <1>3, <1>4

LEMMA SlListComes ==
    ASSUME SlPlain, NEW rows, IsQueue(rows), NEW lists,
           lists = Append(SL!Awaited(view.lists), rows), view'.lists = lists
    PROVE  /\ SlLists(lists) /\ SlKeepsLists
           /\ Len(lists) = Len(view.lists) + 1 /\ Len(view.lists) + 1 \in DOMAIN lists
           /\ lists[Len(view.lists) + 1] = rows /\ Len(view.lists) \in Nat
<1> DEFINE old == SL!Awaited(view.lists)
           n == Len(view.lists)
<1>1. SlLists(view.lists) /\ n \in Nat /\ DOMAIN view.lists = 1 .. n
    BY QueueFacts DEF SlPlain, SlView, SlLists
<1>2. /\ DOMAIN old = 1 .. n /\ old = [k \in 1 .. n |-> old[k]]
      /\ \A k \in 1 .. n : old[k] = view.lists[k] \/ old[k] = <<>>
      /\ \A j \in DOMAIN calls : calls[j].op = "authority" /\ calls[j].arg.list \in 1 .. n
            => old[calls[j].arg.list] = view.lists[calls[j].arg.list]
    BY <1>1 DEF SL!Awaited
<1> HIDE DEF old, n
<1>3. IsQueue(old) /\ Len(old) = n
    BY <1>1, <1>2, ListIsQueue
<1>4. \A k \in 1 .. n : IsQueue(old[k])
    BY <1>1, <1>2, NoneAreCalls DEF SlLists, AreCalls
<1>5. lists = Append(old, rows)
    BY DEF old
<1>6. /\ IsQueue(lists) /\ Len(lists) = n + 1 /\ DOMAIN lists = 1 .. n + 1
      /\ \A k \in 1 .. n : k \in DOMAIN lists /\ lists[k] = old[k]
      /\ n + 1 \in DOMAIN lists /\ lists[n + 1] = rows
    <2>1. /\ IsQueue(lists) /\ Len(lists) = Len(old) + 1 /\ DOMAIN lists = 1 .. Len(old) + 1
          /\ \A k \in DOMAIN old : k \in DOMAIN lists /\ lists[k] = old[k]
          /\ Len(old) + 1 \in DOMAIN lists /\ lists[Len(old) + 1] = rows
        BY <1>3, <1>5, Appended
    <2> QED BY <1>2, <1>3, <2>1
<1>7. SlLists(lists)
    <2>1. ASSUME NEW k \in DOMAIN lists PROVE IsQueue(lists[k])
        <3>1. k \in 1 .. n \/ k = n + 1
            BY <1>1, <1>6
        <3> QED BY <1>4, <1>6, <3>1
    <2> QED BY <1>6, <2>1 DEF SlLists
<1>8. SlKeepsLists
    <2> SUFFICES ASSUME NEW e \in Range(calls), e.op = "authority"
                 PROVE  /\ e.arg.list \in DOMAIN lists
                        /\ DOMAIN lists[e.arg.list] = DOMAIN view.lists[e.arg.list]
                        /\ Len(lists[e.arg.list]) = Len(view.lists[e.arg.list])
        BY DEF SlKeepsLists
    <2>1. PICK j \in DOMAIN calls : calls[j] = e
        BY DEF Range
    <2>2. e.arg.list \in 1 .. n
        BY <1>1 DEF SlPlain, SlCall
    <2>3. lists[e.arg.list] = view.lists[e.arg.list]
        BY <1>2, <1>6, <2>1, <2>2
    <2> QED BY <1>6, <2>2, <2>3
<1> QED BY <1>1, <1>6, <1>7, <1>8 DEF n

\* A row of a list is filled.
LEMMA SlRowFilled ==
    ASSUME SlPlain, NEW k \in DOMAIN view.lists, NEW n, NEW row, NEW lists,
           lists = With(view.lists, k, With(view.lists[k], n, row)), view'.lists = lists
    PROVE  /\ SlLists(lists) /\ SlKeepsLists /\ Len(lists) = Len(view.lists)
           /\ DOMAIN lists = DOMAIN view.lists
<1> DEFINE rows == With(view.lists[k], n, row)
<1>1. SlLists(view.lists)
    BY DEF SlPlain, SlView
<1>2. IsQueue(rows) /\ Len(rows) = Len(view.lists[k]) /\ DOMAIN rows = DOMAIN view.lists[k]
    BY <1>1, WithQueue DEF SlLists
<1> HIDE DEF rows
<1>3. lists = With(view.lists, k, rows)
    BY DEF rows
<1>4. /\ IsQueue(lists) /\ Len(lists) = Len(view.lists) /\ DOMAIN lists = DOMAIN view.lists
      /\ \A j \in DOMAIN view.lists : lists[j] = IF j = k THEN rows ELSE view.lists[j]
    BY <1>1, <1>3, WithQueue DEF SlLists
<1>5. SlLists(lists)
    BY <1>1, <1>2, <1>4 DEF SlLists
<1>6. SlKeepsLists
    BY <1>2, <1>4 DEF SlKeepsLists, SlPlain, SlCall
<1> QED BY <1>4, <1>5, <1>6

LEMMA SlAnswersCome ==
    ASSUME SlPlain, SlEnds, CallsInv(SL!Requests), NEW i \in DOMAIN calls, SL!Answers(i)
    PROVE  SlSteps
<1>v. SlView(view) /\ calls[i] \in Range(calls) /\ SlCall(calls[i], view, mishaps)
    BY DEF SlPlain, Range
<1>0. SlAsks(<<>>, view', mishaps') /\ \A e \in Range(<<>>) : e.quiet
    BY SlAsksNone
<1>w. \A op : SL!Arrives(i, op) => calls[i].op = op /\ calls[i].answer.code = "waiting"
    BY DEF SL!Arrives, SL!IsWaiting, SL!Waiting
<1>1. CASE SL!InfoThen(i)
    <2>1. /\ view' = [view EXCEPT !.siteState = server.siteState, !.crowded = view.crowded \/ SL!Crowds(i)]
          /\ calls[i].op = "info"
        BY <1>1, <1>w DEF SL!InfoThen
    <2>2. SlView(view') /\ view'.lists = view.lists
        BY <2>1, <1>v DEF SlView
    <2>3. CASE SL!Handled(i, <<>>)
        BY <1>v, <1>0, <2>1, <2>2, <2>3, SlSameLists, SlHandles DEF SlLast, SlCall, SlQuiet
    <2>4. CASE SL!HandledUnder(i, SL!getinitinstitutions(view), TRUE)
        <3> DEFINE s == SL!getinitinstitutions(view)
        <3>1. SlAsks(s, view', mishaps') /\ \E e \in Range(s) : e.op = "list"
            BY <1>v, SlAsksList DEF SlView, SlData
        <3>2. PICK o \in BOOLEAN : o /\ SL!HandledUnder(i, s, o)
            BY <2>4
        <3> HIDE DEF s
        <3> QED BY <2>2, <3>1, <3>2, SlSameLists, SlHandlesUnder DEF SlLast
    <2> QED BY <1>1, <2>3, <2>4 DEF SL!InfoThen
<1>2. CASE SL!ChoicesThen(i)
    <2>1. SL!Handled(i, <<>>) /\ calls[i].op = "choices"
        BY <1>2, <1>w DEF SL!ChoicesThen
    <2>2. SlView(view') /\ view'.lists = view.lists
        BY <1>2, <1>v DEF SL!ChoicesThen, SlView
    <2> QED BY <1>v, <1>0, <2>1, <2>2, SlSameLists, SlHandles DEF SlLast, SlCall, SlQuiet
<1>3. CASE SL!ListThen(i)
    <2> DEFINE answer == SL!ListOf(calls[i].arg)
               rows == [n \in DOMAIN answer.list |-> SL!Row(answer.list[n])]
               last == Len(view.lists) + 1
               lists == Append(SL!Awaited(view.lists), rows)
               come == [view EXCEPT !.total = answer.totalRecord, !.shown = 0, !.lists = lists]
               waits == view.siteState /\ rows # <<>>
               asked == [n \in IF waits THEN DOMAIN rows ELSE {} |->
                           SL!AskQuietly("authority", [list |-> last, place |-> n])]
    <2>1. /\ calls[i].op = "list" /\ view' = (IF waits THEN come ELSE [come EXCEPT !.shown = last])
          /\ SL!HandledUnder(i, asked, busy /\ waits)
        BY <1>3, <1>w DEF SL!ListThen
    <2>2. IsQueue(answer.list) /\ answer.totalRecord \in Nat
        <3>1. PICK query : query = calls[i].arg /\ query.pageNum \in Nat \ {0}
            BY <1>v, <2>1 DEF SlCall
        <3> QED BY <3>1, SlListRows
    <2>3. IsQueue(rows) /\ (rows # <<>> => Len(rows) \in DOMAIN rows)
        <3>1. Len(answer.list) \in Nat /\ DOMAIN answer.list = 1 .. Len(answer.list)
            BY <2>2, QueueFacts
        <3> DEFINE n == Len(answer.list)
        <3>2. n \in Nat /\ DOMAIN rows = 1 .. n /\ rows = [k \in 1 .. n |-> rows[k]]
            BY <3>1
        <3> HIDE DEF n, rows
        <3>3. IsQueue(rows) /\ Len(rows) = n
            BY <3>2, ListIsQueue
        <3>4. n = 0 => rows = <<>>
            BY <3>3 DEF IsQueue
        <3> QED BY <3>2, <3>3, <3>4
    <2> HIDE DEF rows, answer
    <2>4. lists = Append(SL!Awaited(view.lists), rows) /\ view'.lists = lists
        BY <1>v, <2>1 DEF SlView
    <2> HIDE DEF lists
    <2>5. /\ SlLists(lists) /\ SlKeepsLists
          /\ Len(lists) = last /\ last \in DOMAIN lists
          /\ lists[last] = rows /\ Len(view.lists) \in Nat
        BY <2>3, <2>4, SlListComes
    <2>6. SlView(view')
        <3>1. /\ DOMAIN view' = DOMAIN view /\ view'.total = answer.totalRecord
              /\ view'.data = view.data /\ view'.dialog = view.dialog
              /\ view'.crowded = view.crowded /\ view'.shown \in {0, last}
            BY <1>v, <2>1 DEF SlView
        <3> QED BY <1>v, <2>2, <2>4, <2>5, <3>1 DEF SlView
    <2>7. CASE waits
        <3>1. asked = SlAuthorities(view', last)
            BY <2>4, <2>5, <2>7 DEF SlAuthorities
        <3> HIDE DEF asked
        <3> DEFINE w == view'
        <3>2. last \in DOMAIN w.lists /\ IsQueue(w.lists[last]) /\ w.lists[last] = rows
            BY <2>3, <2>4, <2>5
        <3>6. asked = SlAuthorities(w, last)
            BY <3>1
        <3> HIDE DEF w, last
        <3>3. /\ SlAsks(asked, w, mishaps') /\ DOMAIN asked = DOMAIN rows
              /\ \A n \in DOMAIN asked :
                   asked[n].op = "authority" /\ asked[n].arg.list = last /\ asked[n].arg.place = n
            BY <3>2, <3>6, SlAsksAuthorities
        <3>4. \E e \in Range(asked) : SlLast(e, view')
            <4>1. Len(rows) \in DOMAIN asked
                BY <2>3, <2>7, <3>3
            <4>2. asked[Len(rows)] \in Range(asked)
                BY <4>1 DEF Range
            <4> QED BY <3>2, <3>3, <4>1, <4>2 DEF SlLast, w
        <3>5. PICK o \in BOOLEAN : SL!HandledUnder(i, asked, o)
            BY <2>1, <2>7 DEF CallsInv
        <3> QED BY <2>5, <2>6, <3>3, <3>4, <3>5, SlHandlesUnder DEF w
    <2>8. CASE ~waits
        <3>1. asked = <<>>
            BY <2>8
        <3> HIDE DEF asked
        <3>2. PICK o \in BOOLEAN : ~o /\ SL!HandledUnder(i, <<>>, o)
            BY <2>1, <2>8, <3>1
        <3> QED BY <1>0, <2>5, <2>6, <3>2, SlHandlesUnder
    <2> QED BY <2>7, <2>8
<1>4. CASE SL!AuthorityThen(i)
    <2> DEFINE c == calls[i].arg
               row == [view.lists[c.list][c.place] EXCEPT !.authority =
                         server.granted[view.lists[c.list][c.place].institutions]]
               lists == With(view.lists, c.list, With(view.lists[c.list], c.place, row))
               filled == [view EXCEPT !.lists = lists]
               shown == [filled EXCEPT !.shown = c.list]
    <2>1. /\ calls[i].op = "authority" /\ calls[i].quiet
          /\ IF c.place = Len(view.lists[c.list])
             THEN view' = shown /\ SL!HandledUnder(i, SL!setMsg(shown), FALSE)
             ELSE view' = filled /\ SL!Handled(i, <<>>)
        BY <1>4, <1>w, <1>v DEF SL!AuthorityThen, With, SlCall, SlQuiet
    <2>2. c.list \in DOMAIN view.lists
        BY <1>v, <2>1 DEF SlCall
    <2>3. view'.lists = lists
        BY <1>v, <2>1 DEF SlView
    <2> HIDE DEF row
    <2>4. /\ SlLists(lists) /\ SlKeepsLists /\ Len(lists) = Len(view.lists)
          /\ DOMAIN lists = DOMAIN view.lists
        <3>1. PICK k \in DOMAIN view.lists : k = c.list
            BY <2>2
        <3>2. PICK n : n = c.place
            OBVIOUS
        <3>3. lists = With(view.lists, k, With(view.lists[k], n, row))
            BY <3>1, <3>2
        <3> HIDE DEF lists
        <3> QED BY <2>3, <3>3, SlRowFilled
    <2>5. c.list \in 0 .. Len(view.lists)
        BY <1>v, <2>2, QueueFacts DEF SlView, SlLists
    <2> HIDE DEF lists
    <2>6. /\ SlView(view')
        BY <1>v, <2>1, <2>4, <2>5 DEF SlView
    <2>7. CASE c.place = Len(view.lists[c.list])
        <3> DEFINE s == SL!setMsg(view')
        <3>1. PICK o \in BOOLEAN : ~o /\ SL!HandledUnder(i, s, o)
            BY <2>1, <2>7
        <3>2. SlAsks(s, view', mishaps')
            BY <2>6, SlAsksMarks
        <3> HIDE DEF s
        <3> QED BY <2>4, <2>6, <3>1, <3>2, SlHandlesUnder
    <2>8. CASE c.place # Len(view.lists[c.list])
        BY <1>v, <1>0, <2>1, <2>4, <2>6, <2>8, SlHandles DEF SlLast
    <2> QED BY <2>7, <2>8
<1>5. CASE SL!StatusThen(i)
    <2>1. SL!Handled(i, <<>>) /\ calls[i].op = "status"
        BY <1>5, <1>w DEF SL!StatusThen
    <2>2. SlView(view') /\ SlKeepsLists
        <3>1. CASE view' = view
            BY <1>v, <3>1, SlSameLists
        <3>2. CASE view' # view
            <4> DEFINE k == view.shown
                       n == calls[i].arg.place
            <4>1. PICK row : view' = [view EXCEPT !.lists = With(view.lists, k, With(view.lists[k], n, row))]
                BY <1>5, <3>2 DEF SL!StatusThen, With
            <4>2. k # 0
                BY <1>5, <3>2 DEF SL!StatusThen, SL!Places, SL!Items
            <4>3. k \in DOMAIN view.lists
                BY <1>v, <4>2, QueueFacts DEF SlView, SlLists
            <4> DEFINE lists == With(view.lists, k, With(view.lists[k], n, row))
            <4>4. lists = With(view.lists, k, With(view.lists[k], n, row)) /\ view'.lists = lists
                BY <1>v, <4>1 DEF SlView
            <4> HIDE DEF lists, k, n
            <4>5. /\ SlLists(lists) /\ SlKeepsLists /\ Len(lists) = Len(view.lists)
                BY <4>3, <4>4, SlRowFilled
            <4>6. view' = [view EXCEPT !.lists = lists]
                BY <4>1 DEF lists, k, n
            <4> QED BY <1>v, <4>5, <4>6 DEF SlView
        <3> QED BY <3>1, <3>2
    <2> QED BY <1>v, <1>0, <2>1, <2>2, SlHandles DEF SlLast, SlCall, SlQuiet
<1>6. CASE SL!DetailsThen(i) \/ SL!CancelListThen(i)
    <2>1. SL!Handled(i, <<>>) /\ calls[i].op \in {"details", "cancelList"}
        BY <1>6, <1>w DEF SL!DetailsThen, SL!CancelListThen
    <2>2. SlView(view') /\ view'.lists = view.lists
        <3>1. PICK d : SlDialog(d) /\ view' = [view EXCEPT !.dialog = d]
            <4>0. SlDialog(view.dialog)
                BY <1>v DEF SlView
            <4>1. CASE SL!DetailsThen(i)
                <5> DEFINE d == [view.dialog EXCEPT !.kind = "tips", !.box["all"] =
                                   view.dialog.box["all"] \cup server.applied[calls[i].arg]]
                <5>1. view' = [view EXCEPT !.dialog = d]
                    BY <4>1 DEF SL!DetailsThen
                <5>2. SlDialog(d)
                    BY <4>0 DEF SlDialog
                <5> QED BY <5>1, <5>2
            <4>2. CASE SL!CancelListThen(i)
                <5> DEFINE d == [view.dialog EXCEPT !.kind = "cancel", !.box =
                                   [k \in SL!Kinds |-> view.dialog.box[k] \cup SL!Offered(calls[i].arg)[k]]]
                <5>1. view' = [view EXCEPT !.dialog = d]
                    BY <4>2 DEF SL!CancelListThen
                <5>2. SlDialog(d)
                    BY <4>0 DEF SlDialog
                <5> QED BY <5>1, <5>2
            <4> QED BY <1>6, <4>1, <4>2
        <3> QED BY <3>1, <1>v DEF SlView
    <2>3. ~calls[i].quiet
        BY <1>v, <2>1 DEF SlCall, SlQuiet
    <2> QED BY <1>0, <2>1, <2>2, <2>3, SlSameLists, SlHandles
<1>7. CASE SL!Decided(i) \/ SL!DeleteThen(i)
    <2>1. PICK s : /\ SL!HandledUnder(i, s, TRUE)
                   /\ s = SL!getinitinstitutions(view) \o SL!info(FALSE) \/ s = SL!getinitinstitutions(view)
        BY <1>7 DEF SL!Decided, SL!DeleteThen
    <2>2. SlView(view') /\ view'.lists = view.lists
        <3>1. SlDialog(SL!NoDialog)
            BY DEF SlDialog, SL!NoDialog
        <3>2. view' = [view EXCEPT !.dialog = SL!NoDialog]
            BY <1>7 DEF SL!Decided, SL!DeleteThen
        <3> QED BY <3>1, <3>2, <1>v DEF SlView
    <2>3. SlAsks(s, view', mishaps') /\ \E e \in Range(s) : e.op = "list"
        <3>1. view.data.pageNum \in Nat \ {0}
            BY <1>v DEF SlView, SlData
        <3>2. \/ s = SL!getinitinstitutions(view)
              \/ \E list : s = SL!getinitinstitutions(view) \o SL!info(list)
            BY <2>1
        <3> QED BY <3>1, <3>2, SlAsksList
    <2>4. PICK o \in BOOLEAN : o /\ SL!HandledUnder(i, s, o)
        BY <2>1
    <2> QED BY <2>2, <2>3, <2>4, SlSameLists, SlHandlesUnder DEF SlLast
<1>8. CASE SL!ListCatch(i)
    <2>1. PICK o \in BOOLEAN : ~o /\ SL!HandledUnder(i, <<>>, o)
        BY <1>8 DEF SL!ListCatch
    <2>2. view' = view
        BY <1>8 DEF SL!ListCatch
    <2> QED BY <1>v, <1>0, <2>1, <2>2, SlSameLists, SlHandlesUnder
<1>9. CASE SL!NoCatch(i)
    <2>1. SL!Handled(i, <<>>) /\ view' = view /\ calls[i].answer.code \in {"failed", "refused"}
        BY <1>9 DEF SL!NoCatch, SL!Ignores, SL!Failed, SL!Refused
    <2>2. mishaps # {}
        BY <1>v, <2>1 DEF SlCall
    <2> QED BY <1>v, <1>0, <2>1, <2>2, SlSameLists, SlHandles
<1> QED BY <1>1, <1>2, <1>3, <1>4, <1>5, <1>6, <1>7, <1>8, <1>9 DEF SL!Answers

LEMMA SitesListKept ==
    ASSUME SlPlain, SlEnds, CallsInv(SL!Requests), SL!Next
    PROVE  SlSteps
<1>1. ASSUME NEW i \in DOMAIN calls, SL!ServeReview(i) \/ SL!ServeCancel(i) \/ SL!ServeDelete(i)
      PROVE  SlSteps
    <2>1. /\ calls' = Answered(calls, i, Ok(TRUE)) /\ UNCHANGED <<view, busy, steps, mishaps>>
        BY <1>1, SLIsPage
           DEF SL!ServeReview, SL!ServeCancel, SL!ServeDelete, SL!Served, Answered
    <2>2. PICK a : a = Ok(TRUE) /\ a.code = "ok"
        <3>1. \A d : Ok(d).code = "ok"
            BY DEF Ok
        <3>2. PICK d : d = TRUE
            OBVIOUS
        <3>3. Ok(d) = Ok(TRUE) /\ Ok(d).code = "ok"
            BY <3>1, <3>2
        <3> QED BY <3>3
    <2>3. a.code \in Codes /\ calls' = Answered(calls, i, a) /\ a.code \notin {"failed", "refused"}
        BY <2>1, <2>2 DEF Codes
    <2>4. Carries(SL!Requests)
        BY <2>1, <2>3 DEF Carries
    <2> QED BY <2>1, <2>3, <2>4, SlAnswers DEF SlSteps
<1>2. ASSUME NEW i \in DOMAIN calls, SL!Fail(i) \/ SL!Refuse(i)
      PROVE  SlSteps
    <2>1. PICK a \in {Failed, Refused} : FailedWith(i, a)
        BY <1>2, SLIsPage
    <2>2. a.code \in Codes
        BY AnswersHaveCodes
    <2>3. Carries(SL!Requests)
        BY <2>1, <2>2, FailureMoves DEF Moves
    <2>4. /\ calls' = Answered(calls, i, a) /\ UNCHANGED <<view, busy>> /\ "failed" \in mishaps'
          /\ mishaps \subseteq mishaps'
        BY <2>1 DEF FailedWith
    <2> QED BY <2>2, <2>3, <2>4, SlAnswers DEF SlSteps
<1> QED BY <1>1, <1>2, SlActs, SlAnswersCome DEF SL!Next

LEMMA SitesListStart ==
    ASSUME SL!Init
    PROVE  CallsInv(SL!Requests) /\ SlPlain /\ SlEnds /\ ~busy
<1> DEFINE s == SL!info(TRUE) \o SL!getinsSelectList("In Use")
<1>1. Created(s)
    BY SLIsPage DEF SL!Init
<1>2. /\ AreCalls(s, SL!Requests) /\ \A e \in Range(s) : SlCall(e, view, mishaps) /\ e.quiet
    <2> DEFINE a == SL!AskQuietly("info", TRUE)
               b == SL!AskQuietly("choices", "In Use")
    <2>1. s = <<a>> \o <<b>>
        BY DEF SL!info, SL!getinsSelectList
    <2>2. "info" \in SlQuiet /\ "choices" \in SlQuiet
        BY DEF SlQuiet
    <2>3. /\ IsCall(a, SL!Requests) /\ a.op = "info" /\ a.part = 0 /\ a.quiet /\ a.answer.code = "waiting"
          /\ IsCall(b, SL!Requests) /\ b.op = "choices" /\ b.part = 0 /\ b.quiet /\ b.answer.code = "waiting"
        <3>1. PICK x : x = TRUE
            OBVIOUS
        <3>2. a = SL!AskQuietly("info", x)
            BY <3>1
        <3>0. PICK y : b = SL!AskQuietly("choices", y)
            OBVIOUS
        <3> HIDE DEF a, b
        <3>3. /\ IsCall(a, SL!Requests) /\ a.op = "info" /\ a.part = 0
              /\ (a.quiet <=> "info" \in SlQuiet) /\ a.answer.code = "waiting"
            BY <2>2, <3>2, SlCallIs
        <3>4. /\ IsCall(b, SL!Requests) /\ b.op = "choices" /\ b.part = 0
              /\ (b.quiet <=> "choices" \in SlQuiet) /\ b.answer.code = "waiting"
            BY <2>2, <3>0, SlCallIs
        <3> QED BY <2>2, <3>3, <3>4
    <2>4. \A m, v : SlCall(a, v, m) /\ SlCall(b, v, m)
        BY <2>2, <2>3 DEF SlCall
    <2> HIDE DEF a, b, s
    <2>5. s = <<a, b>>
        BY <2>1, OneAfterOne
    <2>6. AreCalls(s, SL!Requests) /\ Range(s) = {a, b}
        BY <2>3, <2>5, TwoAreCalls, SetOfFew
    <2> QED BY <2>3, <2>4, <2>6
<1> HIDE DEF s
<1>3. CallsInv(SL!Requests) /\ calls = s /\ ~busy
    BY <1>1, <1>2, CreatedHasCalls DEF Created, Loud, Range
<1>4. SlView(view)
    <2>1. SlData([status |-> "In Use", institutions |-> "", pageNum |-> 1]) /\ SlDialog(SL!NoDialog)
        BY DEF SlData, SlDialog, SL!NoDialog
    <2>2. SlLists(<<>>) /\ Len(<<>>) = 0
        BY NoneAreCalls DEF SlLists, AreCalls
    <2>3. /\ DOMAIN view = {"radio", "siteState", "total", "data", "lists", "shown", "choices",
                            "dialog", "crowded"}
          /\ view.data = [status |-> "In Use", institutions |-> "", pageNum |-> 1] /\ view.total = 0
          /\ ~view.crowded /\ view.crowded \in BOOLEAN /\ view.lists = <<>> /\ view.shown = 0 /\ view.dialog = SL!NoDialog
        BY DEF SL!Init
    <2>4. SlData(view.data) /\ SlDialog(view.dialog)
        BY <2>1, <2>3
    <2>5. SlLists(view.lists) /\ view.shown \in 0 .. Len(view.lists)
        <3>1. view.lists = <<>> /\ view.shown = 0
            BY <2>3
        <3>2. 0 \in 0 .. Len(<<>>)
            BY <2>2
        <3> QED BY <2>2, <3>1, <3>2
    <2>6. view.total \in Nat
        <3>1. view.total = 0
            BY DEF SL!Init
        <3> QED BY <3>1
    <2> QED BY <2>3, <2>4, <2>5, <2>6 DEF SlView
<1> QED BY <1>2, <1>3, <1>4 DEF SlPlain, SlEnds

\* Of the requests the page waits for, one is under way, or authorities of one
\* list in the order of their places.
SlTurn(q, b) ==
    /\ \A k \in DOMAIN q : q[k].op \in SlMain => b
    /\ \A j, k \in DOMAIN q : j < k /\ q[j].op \in SlMain /\ q[k].op \in SlMain =>
         /\ q[j].op = "authority" /\ q[k].op = "authority"
         /\ q[j].arg.list = q[k].arg.list /\ q[j].arg.place < q[k].arg.place
SlIdle(q) == \A k \in DOMAIN q : q[k].op \notin SlMain

\* The boxes of a dialog, and those that are checked, are of its institution.
SlBoxes(d, s) ==
    /\ d.kind = "tips" =>
         d.box["all"] \subseteq s.applied[d.institutions] /\ d.list["all"] \subseteq s.applied[d.institutions]
    /\ d.kind = "cancel" => \A k \in SL!Kinds :
         d.box[k] \subseteq s.granted[d.institutions] /\ d.list[k] \subseteq s.granted[d.institutions]

SlDecisions == {"review", "cancel", "delete"}

\* The dialog is empty while its boxes are on the way, and a decision is about
\* its institution; it may be stale only once it was sent.
SlFits(q, d, s) ==
    /\ \A e \in Range(q) :
         /\ e.op \in {"details", "cancelList"} => d = [SL!NoDialog EXCEPT !.institutions = e.arg]
         /\ e.op = "review" /\ e.answer = Waiting =>
              e.arg.approved \subseteq s.applied[e.arg.institutions]
         /\ e.op = "cancel" /\ e.answer = Waiting =>
              e.arg.cancelled \subseteq s.granted[e.arg.institutions]
    /\ (\A e \in Range(q) : e.op \notin SlDecisions) => SlBoxes(d, s)

SlFair ==
    mishaps = {} /\ ~view.crowded => SlTurn(calls, busy) /\ SlFits(calls, view.dialog, server)

LEMMA SlTurnJoined ==
    ASSUME NEW r, IsQueue(r), SlIdle(r), NEW t, IsQueue(t), NEW b, SlTurn(t, b), NEW u, u = r \o t
    PROVE  SlTurn(u, b)
<1>1. /\ \A k \in DOMAIN r : k \in DOMAIN u /\ u[k] = r[k]
      /\ \A k \in DOMAIN t : Len(r) + k \in DOMAIN u /\ u[Len(r) + k] = t[k]
      /\ \A k \in DOMAIN u : k \in DOMAIN r \/ (k > Len(r) /\ k - Len(r) \in DOMAIN t)
      /\ IsQueue(u)
    BY Joined
<1>2. Len(r) \in Nat /\ \A k \in DOMAIN u : k \in Nat
    BY <1>1, QueueFacts
<1>3. ASSUME NEW k \in DOMAIN u, u[k].op \in SlMain
      PROVE  k - Len(r) \in DOMAIN t /\ u[k] = t[k - Len(r)]
    <2>1. k \notin DOMAIN r
        BY <1>1, <1>3 DEF SlIdle
    <2>2. Len(r) + (k - Len(r)) = k
        BY <1>2
    <2> QED BY <1>1, <2>1, <2>2
<1>4. \A k \in DOMAIN u : u[k].op \in SlMain => b
    BY <1>3 DEF SlTurn
<1>5. ASSUME NEW j \in DOMAIN u, NEW k \in DOMAIN u, j < k, u[j].op \in SlMain, u[k].op \in SlMain
      PROVE  /\ u[j].op = "authority" /\ u[k].op = "authority"
             /\ u[j].arg.list = u[k].arg.list /\ u[j].arg.place < u[k].arg.place
    <2>1. j - Len(r) < k - Len(r)
        BY <1>2, <1>5
    <2>2. /\ j - Len(r) \in DOMAIN t /\ u[j] = t[j - Len(r)]
          /\ k - Len(r) \in DOMAIN t /\ u[k] = t[k - Len(r)]
        BY <1>3, <1>5
    <2> QED BY <1>5, <2>1, <2>2 DEF SlTurn
<1> QED BY <1>4, <1>5 DEF SlTurn

\* What a request left behind was there before, in the same order.
LEMMA SlOthers ==
    ASSUME NEW q, IsQueue(q), NEW i \in DOMAIN q, NEW r, r = Without(q, i)
    PROVE  \E f : /\ \A k \in DOMAIN r : f[k] \in DOMAIN q /\ f[k] # i /\ r[k] = q[f[k]]
                  /\ \A j, k \in DOMAIN r : j < k => f[j] < f[k]
<1> DEFINE f == [k \in DOMAIN r |-> IF k < i THEN k ELSE k + 1]
<1>1. /\ \A k \in DOMAIN q : k < i => k \in DOMAIN r /\ r[k] = q[k]
      /\ \A k \in DOMAIN q : k > i => k - 1 \in DOMAIN r /\ r[k - 1] = q[k]
      /\ \A k \in DOMAIN r : IF k < i THEN k \in DOMAIN q ELSE k + 1 \in DOMAIN q /\ k + 1 > i
      /\ IsQueue(r)
    BY Removed
<1>2. i \in Nat /\ \A k \in DOMAIN r : k \in Nat
    BY <1>1, QueueFacts
<1>3. \A k \in DOMAIN r : f[k] \in DOMAIN q /\ f[k] # i /\ r[k] = q[f[k]]
    <2> SUFFICES ASSUME NEW k \in DOMAIN r PROVE f[k] \in DOMAIN q /\ f[k] # i /\ r[k] = q[f[k]]
        OBVIOUS
    <2>1. CASE k < i
        BY <1>1, <1>2, <2>1
    <2>2. CASE ~(k < i)
        <3>1. (k + 1) - 1 = k /\ k + 1 \in DOMAIN q /\ k + 1 > i
            BY <1>1, <1>2, <2>2
        <3>2. r[k] = q[k + 1]
            BY <1>1, <3>1
        <3> QED BY <1>2, <2>2, <3>1, <3>2
    <2> QED BY <2>1, <2>2
<1>4. \A j, k \in DOMAIN r : j < k => f[j] < f[k]
    BY <1>2
<1> QED BY <1>3, <1>4

LEMMA SlTurnRemoved ==
    ASSUME NEW q, IsQueue(q), NEW i \in DOMAIN q, NEW r, r = Without(q, i), NEW b, SlTurn(q, b)
    PROVE  SlTurn(r, b)
<1>1. PICK f : /\ \A k \in DOMAIN r : f[k] \in DOMAIN q /\ f[k] # i /\ r[k] = q[f[k]]
               /\ \A j, k \in DOMAIN r : j < k => f[j] < f[k]
    BY SlOthers
<1> QED BY <1>1 DEF SlTurn

\* The one the page waited for is answered, or the last of the authorities.
LEMMA SlTurnOver ==
    ASSUME NEW q, IsQueue(q), NEW i \in DOMAIN q, NEW r, r = Without(q, i), NEW b, SlTurn(q, b),
           q[i].op \in SlMain,
           q[i].op = "authority" =>
             /\ \A k \in DOMAIN q : k < i => q[k].op # "authority"
             /\ \A k \in DOMAIN q : q[k].op = "authority" /\ q[k].arg.list = q[i].arg.list =>
                  ~(q[i].arg.place < q[k].arg.place)
    PROVE  SlIdle(r)
<1>1. PICK f : \A k \in DOMAIN r : f[k] \in DOMAIN q /\ f[k] # i /\ r[k] = q[f[k]]
    BY SlOthers
<1>2. \A k \in DOMAIN q : k \in Nat
    BY QueueFacts
<1>3. ASSUME NEW k \in DOMAIN q, k # i, q[k].op \in SlMain
      PROVE  FALSE
    <2>1. CASE k < i
        BY <1>3, <2>1 DEF SlTurn
    <2>2. CASE i < k
        BY <1>3, <2>2 DEF SlTurn
    <2> QED BY <1>2, <1>3, <2>1, <2>2
<1> QED BY <1>1, <1>3 DEF SlIdle

\* The dialog fits as long as what is new says nothing about it.
LEMMA SlFitsFewer ==
    ASSUME NEW q, NEW d, NEW s, SlFits(q, d, s), NEW t,
           \A e \in Range(t) : e \in Range(q) \/ e.op \in SlQuiet,
           \A e \in Range(q) : e \in Range(t) \/ e.op \notin SlDecisions
    PROVE  SlFits(t, d, s)
BY DEF SlFits, SlQuiet, SlDecisions

LEMMA SlFitsBehind ==
    ASSUME NEW r, IsQueue(r), SlIdle(r), NEW t, IsQueue(t), NEW d, NEW s, SlFits(t, d, s),
           NEW u, u = r \o t
    PROVE  SlFits(u, d, s)
<1>1. Range(u) = Range(r) \cup Range(t)
    BY SetOfJoined
<1>2. \A e \in Range(r) : e.op \notin SlMain
    BY DEF SlIdle, Range
<1>3. \A op : op \in {"details", "cancelList", "review", "cancel", "delete"} => op \in SlMain
    BY DEF SlMain, SL!Requests
<1> QED BY <1>1, <1>2, <1>3 DEF SlFits, SlDecisions

LEMMA SlFitsQuiet ==
    ASSUME NEW t, \A e \in Range(t) : e.op \in SlQuiet, NEW d, NEW s, SlBoxes(d, s)
    PROVE  SlFits(t, d, s)
BY DEF SlFits, SlQuiet

\* Nothing the page waits for is left under way, and then it asks.
LEMMA SlAfter ==
    ASSUME NEW r, IsQueue(r), SlIdle(r), NEW asked, IsQueue(asked), calls' = r \o asked,
           SlTurn(asked, busy'), SlFits(asked, view'.dialog, server')
    PROVE  SlFair'
<1>1. SlTurn(calls', busy')
    BY SlTurnJoined
<1>2. SlFits(calls', view'.dialog, server')
    BY SlFitsBehind
<1> QED BY <1>1, <1>2 DEF SlFair

LEMMA SlTurnFew ==
    /\ \A b : SlTurn(<<>>, b)
    /\ \A c, b : (c.op \in SlMain => b) => SlTurn(<<c>>, b)
<1>1. DOMAIN <<>> = {}
    BY NoneAreCalls
<1>2. \A b : SlTurn(<<>>, b)
    BY <1>1 DEF SlTurn
<1>3. ASSUME NEW c, NEW b, c.op \in SlMain => b
      PROVE  SlTurn(<<c>>, b)
    <2>1. DOMAIN <<c>> = {1} /\ <<c>>[1] = c
        OBVIOUS
    <2> QED BY <1>3, <2>1 DEF SlTurn
<1> QED BY <1>2, <1>3

LEMMA SlTurnList ==
    ASSUME NEW w, w.data.pageNum \in Nat \ {0}, NEW asked,
           \/ asked = SL!getinitinstitutions(w)
           \/ \E radio : asked = SL!getinitinstitutions(w) \o SL!getinsSelectList(radio)
           \/ \E list : asked = SL!getinitinstitutions(w) \o SL!info(list),
           NEW b, b
    PROVE  IsQueue(asked) /\ SlTurn(asked, b) /\ \A e \in Range(asked) : e.op \in SlQuiet
<1>1. PICK v, m : v = view /\ m = mishaps
    OBVIOUS
<1>2. /\ SlAsks(asked, v, m)
      /\ \E l : /\ l \in Range(asked) /\ l.op = "list"
                /\ asked[1] = l /\ \A k \in DOMAIN asked : k # 1 => asked[k].op \in {"info", "choices"}
    BY SlAsksList
<1>3. IsQueue(asked)
    BY <1>2 DEF SlAsks, AreCalls
<1>4. \A k \in DOMAIN asked : k # 1 => asked[k].op \notin SlMain
    BY <1>2 DEF SlMain
<1>5. SlTurn(asked, b)
    <2>1. \A j, k \in DOMAIN asked : j < k => j # 1 \/ k # 1
        BY <1>3, QueueFacts
    <2> QED BY <1>4, <2>1 DEF SlTurn
<1>6. \A e \in Range(asked) : e.op \in SlQuiet
    BY <1>2 DEF Range, SlQuiet
<1> QED BY <1>3, <1>5, <1>6

\* The user clicks: nothing is under way that the page waits for.
LEMMA SlAskedFair ==
    ASSUME SlFair, CallsInv(SL!Requests), ~busy, NEW asked, IsQueue(asked), calls' = calls \o asked,
           mishaps \subseteq mishaps', view'.crowded = view.crowded, server' = server,
           SlTurn(asked, busy'),
           SlBoxes(view.dialog, server) => SlFits(asked, view'.dialog, server)
    PROVE  SlFair'
<1> SUFFICES ASSUME mishaps' = {}, ~view'.crowded
             PROVE  SlFair'
    BY DEF SlFair
<1>1. SlTurn(calls, busy) /\ SlFits(calls, view.dialog, server)
    BY DEF SlFair
<1>2. SlIdle(calls)
    BY <1>1 DEF SlTurn, SlIdle
<1>3. SlBoxes(view.dialog, server)
    BY <1>1, <1>2 DEF SlFits, SlIdle, SlDecisions, SlMain, SL!Requests, Range
<1>4. IsQueue(calls)
    BY DEF CallsInv, AreCalls
<1> QED BY <1>2, <1>3, <1>4, SlAfter

LEMMA SlClickedFair ==
    ASSUME SlFair, CallsInv(SL!Requests), NEW asked, IsQueue(asked), SL!Click(asked),
           view'.crowded = view.crowded, SlTurn(asked, Loud(asked)),
           SlBoxes(view.dialog, server) => SlFits(asked, view'.dialog, server)
    PROVE  SlFair'
<1>1. Clicked(asked)
    BY SLIsPage
<1>2. /\ ~busy /\ calls' = calls \o asked /\ mishaps \subseteq mishaps' /\ server' = server
      /\ Loud(asked) => busy'
    BY <1>1 DEF Clicked, Sends
<1>3. SlTurn(asked, busy')
    BY <1>2 DEF SlTurn
<1> QED BY <1>2, <1>3, SlAskedFair

LEMMA SlListFair ==
    ASSUME SlFair, CallsInv(SL!Requests), NEW asked, SL!ClickList(asked),
           view'.crowded = view.crowded, view'.dialog = view.dialog, NEW w, w.data.pageNum \in Nat \ {0},
           \/ asked = SL!getinitinstitutions(w)
           \/ \E radio : asked = SL!getinitinstitutions(w) \o SL!getinsSelectList(radio)
    PROVE  SlFair'
<1>1. /\ ~busy /\ calls' = calls \o asked /\ mishaps \subseteq mishaps' /\ server' = server /\ busy'
    BY DEF SL!ClickList, SL!Raised
<1>2. IsQueue(asked) /\ SlTurn(asked, busy') /\ \A e \in Range(asked) : e.op \in SlQuiet
    BY <1>1, SlTurnList
<1>3. SlBoxes(view.dialog, server) => SlFits(asked, view'.dialog, server)
    BY <1>2, SlFitsQuiet
<1> QED BY <1>1, <1>2, <1>3, SlAskedFair

\* A click that sends nothing, or one request that raises the overlay.
LEMMA SlSilentFair ==
    ASSUME SlFair, CallsInv(SL!Requests), SL!Click(<<>>), view'.crowded = view.crowded,
           SlBoxes(view.dialog, server) => SlBoxes(view'.dialog, server)
    PROVE  SlFair'
<1>1. IsQueue(<<>>) /\ Range(<<>>) = {} /\ SlTurn(<<>>, Loud(<<>>))
    BY SlTurnFew, SlAsksNone DEF SlAsks, AreCalls
<1>2. SlBoxes(view'.dialog, server) => SlFits(<<>>, view'.dialog, server)
    BY <1>1, SlFitsQuiet
<1> QED BY <1>1, <1>2, SlClickedFair

LEMMA SlSpokenFair ==
    ASSUME SlFair, CallsInv(SL!Requests), NEW op \in SlMain \ {"list", "authority"}, NEW arg,
           SL!Click(<<SL!Ask(op, arg)>>), view'.crowded = view.crowded,
           op \in {"details", "cancelList"} => view'.dialog = [SL!NoDialog EXCEPT !.institutions = arg],
           op = "review" /\ SlBoxes(view.dialog, server) =>
              arg.approved \subseteq server.applied[arg.institutions],
           op = "cancel" /\ SlBoxes(view.dialog, server) =>
              arg.cancelled \subseteq server.granted[arg.institutions]
    PROVE  SlFair'
<1> DEFINE s == <<SL!Ask(op, arg)>>
<1>1. SL!Click(s)
    OBVIOUS
<1>2. op \in SL!Requests \ {"list", "authority"} /\ op \notin SlQuiet
    BY DEF SlMain, SL!Requests, SlQuiet
<1>3. PICK v, m : v = view /\ m = mishaps
    OBVIOUS
<1>4. /\ SlAsks(s, v, m)
      /\ \E c : /\ s = <<c>> /\ Range(s) = {c} /\ c.op = op /\ c.arg = arg
                /\ c.answer = Waiting /\ (c.quiet <=> op \in SlQuiet)
    BY <1>2, SlAsksOne
<1> HIDE DEF s
<1>5. PICK c : /\ s = <<c>> /\ Range(s) = {c} /\ c.op = op /\ c.arg = arg
               /\ c.answer = Waiting /\ (c.quiet <=> op \in SlQuiet)
    BY <1>4
<1>6. IsQueue(s) /\ Loud(s)
    <2>1. 1 \in DOMAIN s /\ s[1] = c
        BY <1>5
    <2> QED BY <1>2, <1>4, <1>5, <2>1 DEF SlAsks, AreCalls, Loud
<1>7. SlTurn(s, Loud(s))
    BY <1>5, <1>6, SlTurnFew
<1>8. ASSUME SlBoxes(view.dialog, server)
      PROVE  SlFits(s, view'.dialog, server)
    <2>1. op \in {"details", "cancelList"} \/ op \in SlDecisions
        BY DEF SlMain, SL!Requests, SlDecisions
    <2>2. op \in {"details", "cancelList"} => SlBoxes(view'.dialog, server)
        BY DEF SlBoxes, SL!NoDialog
    <2>3. \A e \in Range(s) : e.op = op /\ e.arg = arg
        BY <1>5
    <2>4. op \notin SlDecisions => SlBoxes(view'.dialog, server)
        BY <2>1, <2>2
    <2>5. op \in SlDecisions => \E e \in Range(s) : e.op \in SlDecisions
        BY <1>5
    <2> QED BY <1>8, <2>3, <2>4, <2>5 DEF SlFits
<1> QED BY <1>1, <1>6, <1>7, <1>8, SlClickedFair

LEMMA SlBoxesChecked ==
    ASSUME NEW d, SlDialog(d), NEW s, SlBoxes(d, s), NEW kind \in SL!Kinds, NEW boxes,
           boxes \subseteq d.list[kind] \cup d.box[kind],
           NEW t, t = [d EXCEPT !.list = With(d.list, kind, boxes)]
    PROVE  SlBoxes(t, s)
<1>1. t.kind = d.kind /\ t.box = d.box /\ t.institutions = d.institutions
    BY DEF SlDialog
<1>2. \A k \in SL!Kinds : t.list[k] = IF k = kind THEN boxes ELSE d.list[k]
    BY DEF SlDialog, With
<1>3. "all" \in SL!Kinds
    BY DEF SL!Kinds
<1> QED BY <1>1, <1>2, <1>3 DEF SlBoxes

LEMMA SlEmptyDialog ==
    /\ SL!NoDialog.kind = "none"
    /\ \A a, t : t = [SL!NoDialog EXCEPT !.institutions = a] =>
         /\ t.kind = "none" /\ t.institutions = a
         /\ \A k \in SL!Kinds : t.box[k] = {} /\ t.list[k] = {}
    /\ \A a : [SL!NoDialog EXCEPT !.kind = "delete", !.institutions = a].kind = "delete"
    /\ \A s : SlBoxes(SL!NoDialog, s)
<1>1. SL!NoDialog.kind = "none"
    BY DEF SL!NoDialog
<1>2. \A s : SlBoxes(SL!NoDialog, s)
    BY <1>1 DEF SlBoxes
<1>3. \A a, t : t = [SL!NoDialog EXCEPT !.institutions = a] =>
         t.kind = "none" /\ t.institutions = a /\ \A k \in SL!Kinds : t.box[k] = {} /\ t.list[k] = {}
    BY DEF SL!NoDialog
<1>4. \A a : [SL!NoDialog EXCEPT !.kind = "delete", !.institutions = a].kind = "delete"
    BY DEF SL!NoDialog
<1> QED BY <1>1, <1>2, <1>3, <1>4

LEMMA SlActsFair ==
    ASSUME SlPlain, SlFair, CallsInv(SL!Requests), SL!Acts
    PROVE  SlFair'
<1>v. SlView(view)
    BY DEF SlPlain
<1>1. ASSUME NEW radio, SL!changeRadio(radio)
      PROVE  SlFair'
    <2> DEFINE s == SL!getinitinstitutions(view') \o SL!getinsSelectList(radio)
    <2>1. /\ view' = [view EXCEPT !.radio = radio, !.choices = {},
                            !.data = [status |-> radio, institutions |-> "", pageNum |-> 1]]
          /\ SL!ClickList(s)
        BY <1>1 DEF SL!changeRadio
    <2>2. /\ view'.data.pageNum \in Nat \ {0} /\ view'.dialog = view.dialog
          /\ view'.crowded = view.crowded
        <3>1. SlData([status |-> radio, institutions |-> "", pageNum |-> 1])
            BY DEF SlData
        <3>2. SlData(view'.data)
            BY <2>1, <3>1, <1>v DEF SlView
        <3>3. view'.dialog = view.dialog /\ view'.crowded = view.crowded
            BY <2>1, <1>v DEF SlView
        <3> QED BY <3>2, <3>3 DEF SlData
    <2> HIDE DEF s
    <2>3. \/ s = SL!getinitinstitutions(view')
          \/ \E r : s = SL!getinitinstitutions(view') \o SL!getinsSelectList(r)
        BY DEF s
    <2> QED BY <2>1, <2>2, <2>3, SlListFair
<1>2. ASSUME NEW page \in Nat \ {0}, SL!toSearch \/ SL!handleCurrentChange(page)
      PROVE  SlFair'
    <2> DEFINE s == SL!getinitinstitutions(view')
    <2>1. SL!ClickList(s)
        BY <1>2 DEF SL!toSearch, SL!handleCurrentChange
    <2>2. /\ view'.data.pageNum \in Nat \ {0} /\ view'.dialog = view.dialog
          /\ view'.crowded = view.crowded
        <3>1. SlData(view.data)
            BY <1>v DEF SlView
        <3>2. CASE SL!toSearch
            <4>1. view' = [view EXCEPT !.data = [view.data EXCEPT !.pageNum = 1]]
                BY <3>2 DEF SL!toSearch
            <4> QED BY <3>1, <4>1, <1>v DEF SlView, SlData
        <3>3. CASE SL!handleCurrentChange(page)
            <4>1. view' = [view EXCEPT !.data = [view.data EXCEPT !.pageNum = page, !.institutions = ""]]
                BY <3>3 DEF SL!handleCurrentChange
            <4> QED BY <3>1, <4>1, <1>v DEF SlView, SlData
        <3> QED BY <1>2, <3>2, <3>3
    <2> HIDE DEF s
    <2>3. \/ s = SL!getinitinstitutions(view')
          \/ \E r : s = SL!getinitinstitutions(view') \o SL!getinsSelectList(r)
        BY DEF s
    <2> QED BY <2>1, <2>2, <2>3, SlListFair
<1>3. ASSUME NEW x, SL!ChooseInstitutions(x) \/ SL!CloseDialog \/ SL!deleteSite(x)
      PROVE  SlFair'
    <2>1. SL!Click(<<>>)
        BY <1>3 DEF SL!ChooseInstitutions, SL!CloseDialog, SL!deleteSite
    <2>2. /\ view'.crowded = view.crowded
          /\ view'.dialog = view.dialog \/ view'.dialog.kind \in {"none", "delete"}
        <3>1. CASE SL!ChooseInstitutions(x)
            BY <3>1, <1>v DEF SL!ChooseInstitutions, SlView
        <3>2. CASE SL!CloseDialog
            BY <3>2, <1>v, SlEmptyDialog DEF SL!CloseDialog, SlView
        <3>3. CASE SL!deleteSite(x)
            BY <3>3, <1>v, SlEmptyDialog DEF SL!deleteSite, SlView
        <3> QED BY <1>3, <3>1, <3>2, <3>3
    <2>3. SlBoxes(view.dialog, server) => SlBoxes(view'.dialog, server)
        BY <2>2 DEF SlBoxes
    <2> QED BY <2>1, <2>2, <2>3, SlSilentFair
<1>4. ASSUME NEW n, SL!toshowins(n) \/ SL!toshowcancelAuthor(n)
      PROVE  SlFair'
    <2>1. PICK op, arg :
             /\ op \in {"details", "cancelList"} /\ SL!Click(<<SL!Ask(op, arg)>>)
             /\ view' = [view EXCEPT !.dialog = [SL!NoDialog EXCEPT !.institutions = SL!Item(view, n).institutions]]
             /\ arg = view'.dialog.institutions
        BY <1>4 DEF SL!toshowins, SL!toshowcancelAuthor
    <2>2. view'.crowded = view.crowded /\ view'.dialog = [SL!NoDialog EXCEPT !.institutions = arg]
        BY <2>1, <1>v DEF SlView, SL!NoDialog
    <2>3. op \in SlMain \ {"list", "authority"} /\ op # "review" /\ op # "cancel"
        BY <2>1 DEF SlMain, SL!Requests
    <2> QED BY <2>1, <2>2, <2>3, SlSpokenFair
<1>5. CASE SL!totipsAction
    <2> DEFINE d == [institutions |-> view.dialog.institutions, approved |-> view.dialog.list["all"]]
    <2>1. PICK op, arg : op = "review" /\ arg = d
        OBVIOUS
    <2>2. SL!Click(<<SL!Ask(op, arg)>>) /\ view' = view /\ view.dialog.kind = "tips"
        BY <1>5, <2>1 DEF SL!totipsAction, SL!TipsControls
    <2>3. /\ arg.institutions = view.dialog.institutions /\ arg.approved = view.dialog.list["all"]
        BY <2>1
    <2>4. SlBoxes(view.dialog, server) => arg.approved \subseteq server.applied[arg.institutions]
        BY <2>2, <2>3 DEF SlBoxes
    <2>5. op \in SlMain \ {"list", "authority"} /\ op # "cancel" /\ op \notin {"details", "cancelList"}
        BY <2>1 DEF SlMain, SL!Requests
    <2> QED BY <2>2, <2>4, <2>5, SlSpokenFair
<1>6. CASE SL!tocancelAuthor
    <2> DEFINE d == [institutions |-> view.dialog.institutions,
                     cancelled |-> UNION SL!Range(view.dialog.list)]
    <2>1. PICK op, arg : op = "cancel" /\ arg = d
        OBVIOUS
    <2>2. SL!Click(<<SL!Ask(op, arg)>>) /\ view' = view /\ view.dialog.kind = "cancel"
        BY <1>6, <2>1 DEF SL!tocancelAuthor, SL!CancelControls
    <2>3. /\ arg.institutions = view.dialog.institutions
          /\ arg.cancelled = UNION SL!Range(view.dialog.list)
        BY <2>1
    <2>4. ASSUME SlBoxes(view.dialog, server)
          PROVE  arg.cancelled \subseteq server.granted[arg.institutions]
        <3>1. \A k \in SL!Kinds : view.dialog.list[k] \subseteq server.granted[arg.institutions]
            BY <2>2, <2>3, <2>4 DEF SlBoxes
        <3>2. \A x \in SL!Range(view.dialog.list) : \E k \in SL!Kinds : x = view.dialog.list[k]
            BY <1>v DEF SL!Range, SlView, SlDialog
        <3> QED BY <2>3, <3>1, <3>2
    <2>5. op \in SlMain \ {"list", "authority"} /\ op # "review" /\ op \notin {"details", "cancelList"}
        BY <2>1 DEF SlMain, SL!Requests
    <2> QED BY <2>2, <2>4, <2>5, SlSpokenFair
<1>7. CASE SL!deleteInstitutions
    <2>1. PICK op, arg : op = "delete" /\ arg = view.dialog.institutions
        OBVIOUS
    <2>2. SL!Click(<<SL!Ask(op, arg)>>) /\ view' = view
        BY <1>7, <2>1 DEF SL!deleteInstitutions
    <2>3. op \in SlMain \ {"list", "authority"} /\ op \notin {"details", "cancelList", "review", "cancel"}
        BY <2>1 DEF SlMain, SL!Requests
    <2> QED BY <2>2, <2>3, SlSpokenFair
<1>8. ASSUME NEW kind \in SL!Kinds, SL!CheckAll(kind) \/ \E name : SL!Check(kind, name)
      PROVE  SlFair'
    <2>1. PICK boxes : /\ SL!Click(<<>>)
                       /\ view' = [view EXCEPT !.dialog.list[kind] = boxes]
                       /\ boxes \subseteq view.dialog.list[kind] \cup view.dialog.box[kind]
        BY <1>8 DEF SL!CheckAll, SL!Check
    <2> DEFINE d == [view.dialog EXCEPT !.list = With(view.dialog.list, kind, boxes)]
    <2>2. view'.crowded = view.crowded /\ view'.dialog = d
        BY <2>1, <1>v DEF SlView, With
    <2> HIDE DEF d
    <2>3. SlBoxes(view.dialog, server) => SlBoxes(d, server)
        BY <2>1, <1>v, SlBoxesChecked DEF d, SlView
    <2> QED BY <2>1, <2>2, <2>3, SlSilentFair
<1>9. \A p \in SL!PagesOf(view.total, SL!PageSize) : p \in Nat \ {0}
    BY <1>v DEF SlView, SL!PagesOf, SL!PageSize
<1>10. 1 \in Nat \ {0}
    OBVIOUS
<1> QED BY <1>1, <1>2, <1>3, <1>4, <1>5, <1>6, <1>7, <1>8, <1>9, <1>10 DEF SL!Acts

\* A decision is stored: no other was under way.
LEMMA SlServesFair ==
    ASSUME SlPlain, SlFair, CallsInv(SL!Requests), NEW i \in DOMAIN calls,
           SL!ServeReview(i) \/ SL!ServeCancel(i) \/ SL!ServeDelete(i)
    PROVE  SlFair'
<1> SUFFICES ASSUME mishaps' = {}, ~view'.crowded
             PROVE  SlFair'
    BY DEF SlFair
<1>1. /\ calls' = Answered(calls, i, Ok(TRUE)) /\ UNCHANGED <<view, busy, steps, mishaps>>
      /\ calls[i].op \in {"review", "cancel", "delete"}
    BY SLIsPage DEF SL!ServeReview, SL!ServeCancel, SL!ServeDelete, SL!Served, Answered
<1>2. PICK a : a = Ok(TRUE) /\ a.code = "ok"
    <2>1. \A d : Ok(d).code = "ok"
        BY DEF Ok
    <2>2. PICK d : d = TRUE
        OBVIOUS
    <2>3. Ok(d) = Ok(TRUE) /\ Ok(d).code = "ok"
        BY <2>1, <2>2
    <2> QED BY <2>3
<1>3. a.code \in Codes /\ calls' = Answered(calls, i, a) /\ a # Waiting
    <2>1. Waiting.code = "waiting"
        BY DEF Waiting
    <2>2. calls' = Answered(calls, i, a)
        BY <1>1, <1>2
    <2> QED BY <1>2, <2>1, <2>2 DEF Codes
<1>4. SlTurn(calls, busy)
    BY <1>1 DEF SlFair
<1>5. /\ DOMAIN calls' = DOMAIN calls
      /\ \A k \in DOMAIN calls :
           /\ k # i => calls'[k] = calls[k]
           /\ calls'[k].op = calls[k].op /\ calls'[k].arg = calls[k].arg
      /\ calls'[i].answer = a
    BY <1>3, AnsweredCall DEF CallsInv
<1>6. SlTurn(calls', busy')
    <2>1. busy' = busy
        BY <1>1
    <2> DEFINE t == calls'
    <2>2. /\ DOMAIN t = DOMAIN calls
          /\ \A k \in DOMAIN calls : t[k].op = calls[k].op /\ t[k].arg = calls[k].arg
        BY <1>5
    <2> HIDE DEF t
    <2>3. SlTurn(t, busy)
        BY <1>4, <2>2 DEF SlTurn
    <2> QED BY <2>1, <2>3 DEF t
<1>7. \A k \in DOMAIN calls : k # i => calls[k].op \notin SlMain
    <2>1. calls[i].op \in SlMain /\ calls[i].op # "authority" /\ \A k \in DOMAIN calls : k \in Nat
        BY <1>1, QueueFacts DEF SlMain, SL!Requests, CallsInv, AreCalls
    <2> QED BY <1>4, <2>1 DEF SlTurn
<1>8. SlFits(calls', view'.dialog, server')
    <2>1. ASSUME NEW e \in Range(calls')
          PROVE  e.op \notin {"details", "cancelList"} /\ (e.op \in {"review", "cancel"} => e.answer # Waiting)
        <3>1. PICK k \in DOMAIN calls : e = calls'[k]
            BY <1>5, <2>1 DEF Range
        <3>2. CASE k = i
            BY <1>1, <1>3, <1>5, <3>1, <3>2
        <3>3. CASE k # i
            BY <1>5, <1>7, <3>1, <3>3 DEF SlMain, SL!Requests
        <3> QED BY <3>2, <3>3
    <2>2. calls'[i] \in Range(calls') /\ calls'[i].op \in SlDecisions
        BY <1>1, <1>5 DEF Range, SlDecisions
    <2> QED BY <2>1, <2>2 DEF SlFits
<1> QED BY <1>6, <1>8 DEF SlFair

\* An answer nobody waits for, or one of several authorities.
LEMMA SlQuietFair ==
    ASSUME SlPlain, SlFair, CallsInv(SL!Requests), NEW i \in DOMAIN calls,
           calls[i].op \in SlQuiet, calls[i].answer = Waiting, SL!Handled(i, <<>>),
           view'.dialog = view.dialog, view'.crowded = view.crowded
    PROVE  SlFair'
<1> SUFFICES ASSUME mishaps' = {}, ~view'.crowded
             PROVE  SlFair'
    BY DEF SlFair
<1>1. Handled(i, <<>>)
    BY SLIsPage
<1> DEFINE r == Without(calls, i)
<1>2. IsQueue(calls) /\ IsQueue(r)
    BY OthersAreCalls DEF CallsInv, AreCalls
<1>3. calls' = r
    <2>1. calls' = r \o <<>>
        BY <1>1 DEF Handled
    <2> HIDE DEF r
    <2>2. r \o <<>> = r
        BY <1>2 DEF IsQueue
    <2> QED BY <2>1, <2>2
<1>4. mishaps = {} /\ server' = server /\ busy' = busy
    <2>1. calls[i].quiet /\ calls[i].answer # Failed
        BY DEF SlPlain, SlCall, Range, Waiting, Failed
    <2>2. ~Loud(<<>>)
        BY NoneAreCalls DEF Loud
    <2> QED BY <1>1, <2>1, <2>2 DEF Handled, CallsInv
<1>5. SlTurn(calls, busy) /\ SlFits(calls, view.dialog, server)
    BY <1>4 DEF SlFair
<1>6. SlTurn(calls', busy')
    BY <1>2, <1>3, <1>4, <1>5, SlTurnRemoved
<1>7. SlFits(calls', view'.dialog, server')
    <2>1. /\ \A e \in Range(calls') : e \in Range(calls)
          /\ \A e \in Range(calls) : e \in Range(calls') \/ e = calls[i]
        BY <1>2, <1>3, SetOfRemoved
    <2>2. calls[i].op \notin SlDecisions
        BY DEF SlQuiet, SlDecisions
    <2> QED BY <1>4, <1>5, <2>1, <2>2, SlFitsFewer
<1> QED BY <1>6, <1>7 DEF SlFair

\* What the page waited for is here: nothing else is under way that it waits for.
LEMMA SlHandledFair ==
    ASSUME SlFair, CallsInv(SL!Requests), NEW i \in DOMAIN calls, mishaps \subseteq mishaps',
           calls[i].op \in SlMain, view.crowded => view'.crowded,
           calls[i].op = "authority" =>
             /\ \A k \in DOMAIN calls : k < i => calls[k].op # "authority"
             /\ \A k \in DOMAIN calls : calls[k].op = "authority" /\ calls[k].arg.list = calls[i].arg.list =>
                  ~(calls[i].arg.place < calls[k].arg.place),
           NEW asked, IsQueue(asked), calls' = Without(calls, i) \o asked, server' = server,
           SlTurn(asked, busy'),
           (calls[i].op \notin SlDecisions => SlBoxes(view.dialog, server))
             => SlFits(asked, view'.dialog, server)
    PROVE  SlFair'
<1> SUFFICES ASSUME mishaps' = {}, ~view'.crowded
             PROVE  SlFair'
    BY DEF SlFair
<1> DEFINE r == Without(calls, i)
<1>1. SlTurn(calls, busy) /\ SlFits(calls, view.dialog, server)
    BY DEF SlFair
<1>2. IsQueue(calls) /\ IsQueue(r)
    BY OthersAreCalls DEF CallsInv, AreCalls
<1>3. calls' = r \o asked /\ r = Without(calls, i)
    OBVIOUS
<1> HIDE DEF r
<1>4. SlIdle(r)
    BY <1>1, <1>2, <1>3, SlTurnOver
<1>5. calls[i].op \notin SlDecisions => SlBoxes(view.dialog, server)
    <2>1. \A e \in Range(calls) : e \in Range(r) \/ e = calls[i]
        BY <1>2, <1>3, SetOfRemoved
    <2>2. \A e \in Range(r) : e.op \notin SlDecisions
        BY <1>4 DEF SlIdle, Range, SlDecisions, SlMain, SL!Requests
    <2> QED BY <1>1, <2>1, <2>2 DEF SlFits
<1>6. SlFits(asked, view'.dialog, server')
    BY <1>5
<1> QED BY <1>2, <1>3, <1>4, <1>6, SlAfter

\* Whether a call is the page's own is told by its answer and its op.
LEMMA SlAnswersFair ==
    ASSUME SlPlain, SlEnds, SlFair, CallsInv(SL!Requests), NEW i \in DOMAIN calls, SL!Answers(i)
    PROVE  SlFair'
<1>v. SlView(view) /\ SlCall(calls[i], view, mishaps)
    BY DEF SlPlain, Range
<1>s. mishaps \subseteq mishaps'
    BY SlAnswersCome DEF SlSteps, Carries
<1>w. \A op : SL!Arrives(i, op) => calls[i].op = op /\ calls[i].answer = Waiting
    BY SLIsPage DEF SL!Arrives, SL!IsWaiting
<1> SUFFICES ASSUME mishaps' = {}, ~view'.crowded
             PROVE  SlFair'
    BY DEF SlFair
<1>m. mishaps = {}
    BY <1>s
<1>0. IsQueue(<<>>) /\ Range(<<>>) = {} /\ \A b : SlTurn(<<>>, b)
    BY SlTurnFew, SlAsksNone DEF SlAsks, AreCalls
<1>u. \A asked, o : SL!HandledUnder(i, asked, o) =>
        calls' = Without(calls, i) \o asked /\ server' = server /\ (busy' <=> o)
    BY SLIsPage DEF HandledUnder
<1>h. \A asked : SL!Handled(i, asked) => calls' = Without(calls, i) \o asked /\ server' = server
    BY SLIsPage DEF Handled
<1>1. CASE SL!InfoThen(i)
    <2>1. /\ view' = [view EXCEPT !.siteState = server.siteState, !.crowded = view.crowded \/ SL!Crowds(i)]
          /\ calls[i].op = "info" /\ calls[i].answer = Waiting
        BY <1>1, <1>w DEF SL!InfoThen
    <2>2. view'.dialog = view.dialog /\ view'.crowded = (view.crowded \/ SL!Crowds(i))
        BY <1>v, <2>1 DEF SlView
    <2>3. CASE calls[i].arg
        <3>1. \A k \in DOMAIN calls : calls[k].op \in {"info", "choices"}
            BY <2>2, <2>3 DEF SL!Crowds
        <3> DEFINE r == Without(calls, i)
                   s == SL!getinitinstitutions(view)
        <3>2. IsQueue(calls) /\ IsQueue(r)
            BY OthersAreCalls DEF CallsInv, AreCalls
        <3>3. calls' = r \o s /\ server' = server /\ busy'
            BY <1>1, <1>u, <2>3 DEF SL!InfoThen
        <3>4. SlIdle(r)
            <4>1. \A e \in Range(r) : e \in Range(calls)
                BY <3>2, SetOfRemoved
            <4> QED BY <3>1, <4>1 DEF Range, SlIdle, SlMain
        <3>5. SlBoxes(view.dialog, server)
            <4>1. \A e \in Range(calls) : e.op \notin SlDecisions
                BY <3>1 DEF Range, SlDecisions
            <4> QED BY <1>m, <2>2, <4>1 DEF SlFair, SlFits
        <3>6. IsQueue(s) /\ SlTurn(s, busy') /\ \A e \in Range(s) : e.op \in SlQuiet
            <4>1. view.data.pageNum \in Nat \ {0}
                BY <1>v DEF SlView, SlData
            <4> QED BY <3>3, <4>1, SlTurnList
        <3> HIDE DEF r, s
        <3>7. SlFits(s, view'.dialog, server')
            BY <2>2, <3>3, <3>5, <3>6, SlFitsQuiet
        <3> QED BY <3>2, <3>3, <3>4, <3>6, <3>7, SlAfter
    <2>4. CASE ~calls[i].arg
        <3>1. SL!Handled(i, <<>>)
            BY <1>1, <2>4 DEF SL!InfoThen
        <3>2. ~SL!Crowds(i)
            BY <2>4 DEF SL!Crowds
        <3>3. calls[i].op \in SlQuiet
            BY <2>1 DEF SlQuiet
        <3>4. view.crowded \in BOOLEAN /\ view'.crowded = view.crowded
            BY <1>v, <2>2, <3>2 DEF SlView
        <3> QED BY <2>1, <2>2, <3>1, <3>3, <3>4, SlQuietFair
    <2> QED BY <2>3, <2>4
<1>2. CASE SL!ChoicesThen(i)
    <2>1. SL!Handled(i, <<>>) /\ calls[i].op = "choices" /\ calls[i].answer = Waiting
        BY <1>2, <1>w DEF SL!ChoicesThen
    <2>2. view'.dialog = view.dialog /\ view'.crowded = view.crowded
        BY <1>2, <1>v DEF SL!ChoicesThen, SlView
    <2>3. calls[i].op \in SlQuiet
        BY <2>1 DEF SlQuiet
    <2> QED BY <2>1, <2>2, <2>3, SlQuietFair
<1>3. CASE SL!ListThen(i)
    <2> DEFINE answer == SL!ListOf(calls[i].arg)
               rows == [n \in DOMAIN answer.list |-> SL!Row(answer.list[n])]
               last == Len(view.lists) + 1
               lists == Append(SL!Awaited(view.lists), rows)
               come == [view EXCEPT !.total = answer.totalRecord, !.shown = 0, !.lists = lists]
               waits == view.siteState /\ rows # <<>>
               asked == [n \in IF waits THEN DOMAIN rows ELSE {} |->
                           SL!AskQuietly("authority", [list |-> last, place |-> n])]
    <2>1. /\ calls[i].op = "list" /\ view' = (IF waits THEN come ELSE [come EXCEPT !.shown = last])
          /\ SL!HandledUnder(i, asked, busy /\ waits)
        BY <1>3, <1>w DEF SL!ListThen
    <2>2. IsQueue(answer.list)
        <3>1. PICK query : query = calls[i].arg /\ query.pageNum \in Nat \ {0}
            BY <1>v, <2>1 DEF SlCall
        <3> QED BY <3>1, SlListRows
    <2>3. IsQueue(rows)
        <3> DEFINE n == Len(answer.list)
        <3>1. n \in Nat /\ DOMAIN rows = 1 .. n /\ rows = [k \in 1 .. n |-> rows[k]]
            BY <2>2, QueueFacts
        <3> HIDE DEF n, rows
        <3> QED BY <3>1, ListIsQueue
    <2> HIDE DEF rows, answer
    <2>4. /\ view'.lists = lists /\ view'.dialog = view.dialog /\ view'.crowded = view.crowded
        BY <1>v, <2>1 DEF SlView
    <2>5. lists = Append(SL!Awaited(view.lists), rows)
        OBVIOUS
    <2> HIDE DEF lists
    <2>6. last \in DOMAIN lists /\ lists[last] = rows
        BY <2>3, <2>4, <2>5, SlListComes
    <2>7. calls[i].op \in SlMain /\ calls[i].op \notin SlDecisions /\ calls[i].op # "authority"
        BY <2>1 DEF SlMain, SL!Requests, SlDecisions
    <2>8. busy
        BY <1>m, <2>4, <2>7 DEF SlFair, SlTurn
    <2>9. IsQueue(asked) /\ SlTurn(asked, busy') /\ \A e \in Range(asked) : e.op \in SlQuiet
        <3>1. CASE waits
            <4>1. busy'
                BY <1>u, <2>1, <2>8, <3>1
            <4> DEFINE w == view'
            <4>2. last \in DOMAIN w.lists /\ IsQueue(w.lists[last])
                BY <2>3, <2>4, <2>6
            <4>3. asked = SlAuthorities(w, last)
                BY <2>4, <2>6, <3>1 DEF SlAuthorities
            <4> HIDE DEF w, last, asked
            <4>4. PICK m : m = mishaps
                OBVIOUS
            <4>5. /\ SlAsks(asked, w, m) /\ DOMAIN asked = DOMAIN w.lists[last]
                  /\ \A n \in DOMAIN asked :
                       asked[n].op = "authority" /\ asked[n].arg.list = last /\ asked[n].arg.place = n
                BY <4>2, <4>3, SlAsksAuthorities
            <4>6. IsQueue(asked)
                BY <4>5 DEF SlAsks, AreCalls
            <4>7. SlTurn(asked, busy')
                BY <4>1, <4>5 DEF SlTurn
            <4>8. \A e \in Range(asked) : e.op \in SlQuiet
                BY <4>5 DEF Range, SlQuiet
            <4> QED BY <4>6, <4>7, <4>8
        <3>2. CASE ~waits
            <4>1. asked = <<>>
                BY <3>2
            <4> HIDE DEF asked
            <4> QED BY <1>0, <4>1
        <3> QED BY <3>1, <3>2
    <2>10. calls' = Without(calls, i) \o asked /\ server' = server
        <3>1. PICK o : SL!HandledUnder(i, asked, o)
            BY <2>1
        <3> HIDE DEF asked
        <3> QED BY <3>1, <1>u
    <2> HIDE DEF asked
    <2>11. SlBoxes(view.dialog, server) => SlFits(asked, view'.dialog, server)
        BY <2>4, <2>9, SlFitsQuiet
    <2> QED BY <1>s, <2>4, <2>7, <2>9, <2>10, <2>11, SlHandledFair
<1>4. CASE SL!AuthorityThen(i)
    <2> DEFINE c == calls[i].arg
               row == [view.lists[c.list][c.place] EXCEPT !.authority =
                         server.granted[view.lists[c.list][c.place].institutions]]
               lists == With(view.lists, c.list, With(view.lists[c.list], c.place, row))
               filled == [view EXCEPT !.lists = lists]
               shown == [filled EXCEPT !.shown = c.list]
    <2>1. /\ calls[i].op = "authority" /\ calls[i].answer = Waiting
          /\ IF c.place = Len(view.lists[c.list])
             THEN view' = shown /\ SL!HandledUnder(i, SL!setMsg(shown), FALSE)
             ELSE view' = filled /\ SL!Handled(i, <<>>)
        BY <1>4, <1>w DEF SL!AuthorityThen, With
    <2> HIDE DEF lists
    <2>2. view'.dialog = view.dialog /\ view'.crowded = view.crowded
        BY <1>v, <2>1 DEF SlView
    <2>3. calls[i].op \in SlMain /\ calls[i].op \in SlQuiet /\ calls[i].op \notin SlDecisions
        BY <2>1 DEF SlMain, SlQuiet, SL!Requests, SlDecisions
    <2>4. CASE c.place = Len(view.lists[c.list])
        <3> DEFINE s == SL!setMsg(view')
        <3>1. PICK o \in BOOLEAN : SL!HandledUnder(i, s, o)
            BY <2>1, <2>4
        <3>2. SlView(view')
            BY SlAnswersCome DEF SlSteps, SlPlain
        <3>3. PICK v, m : v = view /\ m = mishaps
            OBVIOUS
        <3>4. SlAsks(s, v, m) /\ \A e \in Range(s) : e.op = "status"
            BY <3>2, SlAsksMarks
        <3>5. calls' = Without(calls, i) \o s /\ server' = server
            BY <3>1, <1>u
        <3> HIDE DEF s
        <3>6. IsQueue(s) /\ \A e \in Range(s) : e.op \in SlQuiet
            BY <3>4 DEF SlAsks, AreCalls, SlQuiet
        <3>7. SlTurn(s, busy')
            BY <3>4 DEF SlTurn, Range, SlMain
        <3>8. SlBoxes(view.dialog, server) => SlFits(s, view'.dialog, server)
            BY <2>2, <3>6, SlFitsQuiet
        <3>9. ASSUME NEW k \in DOMAIN calls, calls[k].op = "authority"
              PROVE  /\ ~(k < i)
                     /\ calls[k].arg.list = c.list => ~(c.place < calls[k].arg.place)
            <4>1. SlCall(calls[k], view, mishaps) /\ k \in Nat /\ i \in Nat
                BY QueueFacts DEF SlPlain, Range, CallsInv, AreCalls
            <4>2. ASSUME k < i PROVE FALSE
                <5>1. k \in 1 .. (i - 1)
                    BY <4>1, <4>2, QueueFacts DEF CallsInv, AreCalls
                <5>2. calls[k].part = calls[i].part
                    BY <1>v, <4>1 DEF SlCall
                <5>3. Crosses(i) = {"crossed"}
                    BY <2>1, <3>9, <5>1, <5>2 DEF Crosses
                <5>4. Crosses(i) \subseteq mishaps'
                    BY <3>1, SLIsPage DEF HandledUnder
                <5> QED BY <5>3, <5>4
            <4>3. ASSUME calls[k].arg.list = c.list, c.place < calls[k].arg.place PROVE FALSE
                <5>1. IsQueue(view.lists[c.list])
                    BY <1>v, <2>1 DEF SlCall, SlView, SlLists
                <5>2. calls[k].arg.place \in DOMAIN view.lists[c.list]
                    BY <3>9, <4>1, <4>3 DEF SlCall
                <5> QED BY <2>4, <4>3, <5>1, <5>2, QueueFacts
            <4> QED BY <4>2, <4>3
        <3> QED BY <1>s, <2>2, <2>3, <3>5, <3>6, <3>7, <3>8, <3>9, SlHandledFair
    <2>5. CASE c.place # Len(view.lists[c.list])
        <3>1. SL!Handled(i, <<>>)
            BY <2>1, <2>5
        <3> QED BY <2>1, <2>2, <2>3, <3>1, SlQuietFair
    <2> QED BY <2>4, <2>5
<1>5. CASE SL!StatusThen(i)
    <2>1. SL!Handled(i, <<>>) /\ calls[i].op = "status" /\ calls[i].answer = Waiting
        BY <1>5, <1>w DEF SL!StatusThen
    <2>2. view'.dialog = view.dialog /\ view'.crowded = view.crowded
        BY <1>5, <1>v DEF SL!StatusThen, SlView
    <2>3. calls[i].op \in SlQuiet
        BY <2>1 DEF SlQuiet
    <2> QED BY <2>1, <2>2, <2>3, SlQuietFair
<1>6. CASE SL!DetailsThen(i) \/ SL!CancelListThen(i)
    <2>1. SL!Handled(i, <<>>) /\ calls[i].op \in {"details", "cancelList"}
        BY <1>6, <1>w DEF SL!DetailsThen, SL!CancelListThen
    <2>2. calls[i].op \in SlMain /\ calls[i].op \notin SlDecisions /\ calls[i].op # "authority"
        BY <2>1 DEF SlMain, SL!Requests, SlDecisions
    <2>3. view'.crowded = view.crowded
        BY <1>6, <1>v DEF SL!DetailsThen, SL!CancelListThen, SlView
    <2>4. view.dialog = [SL!NoDialog EXCEPT !.institutions = calls[i].arg]
        <3>1. SlFits(calls, view.dialog, server) /\ calls[i] \in Range(calls)
            BY <1>m, <2>3 DEF SlFair, Range
        <3> QED BY <2>1, <3>1 DEF SlFits
    <2>5. /\ view.dialog.institutions = calls[i].arg
          /\ \A k \in SL!Kinds : view.dialog.box[k] = {} /\ view.dialog.list[k] = {}
          /\ DOMAIN view.dialog.box = SL!Kinds /\ "all" \in SL!Kinds
          /\ SlDialog(view.dialog)
        <3>1. SlDialog(view.dialog) /\ "all" \in SL!Kinds
            BY <1>v DEF SlView, SL!Kinds
        <3> QED BY <2>4, <3>1, SlEmptyDialog DEF SlDialog
    <2>6. SlBoxes(view'.dialog, server)
        <3>1. CASE SL!DetailsThen(i)
            <4> DEFINE d == [view.dialog EXCEPT !.kind = "tips", !.box["all"] =
                               view.dialog.box["all"] \cup server.applied[calls[i].arg]]
            <4>1. view'.dialog = d
                BY <1>v, <3>1 DEF SL!DetailsThen, SlView
            <4>2. /\ d.kind = "tips" /\ d.institutions = calls[i].arg
                  /\ d.box["all"] \subseteq server.applied[calls[i].arg] /\ d.list["all"] = {}
                BY <2>5 DEF SlDialog
            <4> QED BY <4>1, <4>2 DEF SlBoxes
        <3>2. CASE SL!CancelListThen(i)
            <4> DEFINE d == [view.dialog EXCEPT !.kind = "cancel", !.box =
                               [k \in SL!Kinds |-> view.dialog.box[k] \cup SL!Offered(calls[i].arg)[k]]]
            <4>1. view'.dialog = d
                BY <1>v, <3>2 DEF SL!CancelListThen, SlView
            <4>2. \A k \in SL!Kinds : SL!Offered(calls[i].arg)[k] \subseteq server.granted[calls[i].arg]
                BY DEF SL!Offered, SL!Kinds
            <4>3. /\ d.kind = "cancel" /\ d.institutions = calls[i].arg
                  /\ \A k \in SL!Kinds : d.box[k] \subseteq server.granted[calls[i].arg] /\ d.list[k] = {}
                BY <2>5, <4>2 DEF SlDialog
            <4> QED BY <4>1, <4>3 DEF SlBoxes
        <3> QED BY <1>6, <3>1, <3>2
    <2>7. SlFits(<<>>, view'.dialog, server)
        BY <1>0, <2>6, SlFitsQuiet
    <2>8. calls' = Without(calls, i) \o <<>> /\ server' = server
        BY <1>h, <2>1
    <2> QED BY <1>0, <1>s, <2>2, <2>3, <2>7, <2>8, SlHandledFair
<1>7. CASE SL!Decided(i) \/ SL!DeleteThen(i)
    <2>1. PICK s : /\ SL!HandledUnder(i, s, TRUE)
                   /\ s = SL!getinitinstitutions(view) \o SL!info(FALSE) \/ s = SL!getinitinstitutions(view)
        BY <1>7 DEF SL!Decided, SL!DeleteThen
    <2>2. calls' = Without(calls, i) \o s /\ server' = server /\ busy'
        BY <2>1, <1>u
    <2>3. calls[i].op \in SlMain /\ calls[i].op \in SlDecisions /\ calls[i].op # "authority"
        BY <1>7 DEF SL!Decided, SL!DeleteThen, SL!Got, SlMain, SlDecisions, SL!Requests
    <2>4. view'.dialog = SL!NoDialog /\ view'.crowded = view.crowded
        BY <1>7, <1>v DEF SL!Decided, SL!DeleteThen, SlView
    <2>5. IsQueue(s) /\ SlTurn(s, busy') /\ \A e \in Range(s) : e.op \in SlQuiet
        <3>1. view.data.pageNum \in Nat \ {0}
            BY <1>v DEF SlView, SlData
        <3>2. \/ s = SL!getinitinstitutions(view)
              \/ \E list : s = SL!getinitinstitutions(view) \o SL!info(list)
            BY <2>1
        <3> QED BY <2>2, <3>1, <3>2, SlTurnList
    <2>6. SlBoxes(view'.dialog, server)
        BY <2>4, SlEmptyDialog
    <2>7. SlFits(s, view'.dialog, server)
        BY <2>5, <2>6, SlFitsQuiet
    <2> QED BY <1>s, <2>2, <2>3, <2>4, <2>5, <2>7, SlHandledFair
<1>8. CASE SL!ListCatch(i) \/ SL!NoCatch(i)
    <2>1. calls[i].answer.code \in {"failed", "refused"}
        <3>1. SL!Failed.code = "failed" /\ SL!Refused.code = "refused"
            BY DEF SL!Failed, SL!Refused
        <3>2. calls[i].answer \in {SL!Failed, SL!Refused}
            BY <1>8 DEF SL!ListCatch, SL!NoCatch, SL!Ignores
        <3> QED BY <3>1, <3>2
    <2> QED BY <1>m, <1>v, <2>1 DEF SlCall
<1> QED BY <1>1, <1>2, <1>3, <1>4, <1>5, <1>6, <1>7, <1>8 DEF SL!Answers

LEMMA SitesListFair ==
    ASSUME SlPlain, SlEnds, SlFair, CallsInv(SL!Requests), SL!Next
    PROVE  SlFair'
<1>1. ASSUME NEW i \in DOMAIN calls, SL!Fail(i) \/ SL!Refuse(i)
      PROVE  SlFair'
    <2>1. "failed" \in mishaps'
        BY <1>1, SLIsPage DEF FailedWith
    <2> QED BY <2>1 DEF SlFair
<1> QED BY <1>1, SlActsFair, SlServesFair, SlAnswersFair DEF SL!Next

\* Fair at first, and what it is for.
LEMMA SitesListFairStart ==
    ASSUME SL!Init
    PROVE  SlFair
<1> DEFINE a == SL!AskQuietly("info", TRUE)
           b == SL!AskQuietly("choices", "In Use")
<1>1. calls = <<a>> \o <<b>> /\ view.dialog = SL!NoDialog
    BY DEF SL!Init, SL!Created, SL!info, SL!getinsSelectList
<1>2. a.op = "info" /\ b.op = "choices"
    BY DEF SL!AskQuietly, SL!Call
<1> HIDE DEF a, b
<1>3. calls = <<a, b>>
    BY <1>1, OneAfterOne
<1>4. DOMAIN calls = {1, 2} /\ calls[1] = a /\ calls[2] = b
    BY <1>3
<1>5. \A k \in DOMAIN calls : calls[k].op \in {"info", "choices"}
    BY <1>2, <1>4
<1>6. SlTurn(calls, busy)
    BY <1>5 DEF SlTurn, SlMain
<1>7. SlBoxes(view.dialog, server)
    BY <1>1, SlEmptyDialog
<1>8. \A e \in Range(calls) : e.op \in SlQuiet
    BY <1>5 DEF Range, SlQuiet
<1> QED BY <1>6, <1>7, <1>8, SlFitsQuiet DEF SlFair

LEMMA SitesListDecides ==
    ASSUME SlFair
    PROVE  SL!DecisionIsOfInstitution
BY SLIsPage DEF SlFair, SlFits, SL!DecisionIsOfInstitution, Range
-----------------------------------------------------------------------------
(* The tables of the sites.                                                *)

\* The tables that ask at once: one request of each.
LEMMA TablesAsk ==
    ASSUME NEW v, NEW names, IsFiniteSet(names)
    PROVE  AreCalls(ST!initList(v, names), ST!Requests)
<1> DEFINE n == Cardinality(names)
           seq == ST!Enumerated(names)
           f == ST!initList(v, names)
<1>1. ST!Bijection(1 .. ST!Cardinality(names), names) = Bijection(1 .. n, names)
    <2>1. ST!Cardinality(names) = Cardinality(names)
        BY DEF ST!Cardinality, Cardinality
    <2>2. \A A, B : ST!Injection(A, B) = Injection(A, B)
        BY DEF ST!Injection, Injection, ST!IsInjective, IsInjective
    <2>3. \A A, B : ST!Surjection(A, B) = Surjection(A, B)
        BY DEF ST!Surjection, Surjection
    <2> QED BY <2>1, <2>2, <2>3 DEF ST!Bijection, Bijection
<1>2. (\E g : g \in Bijection(1 .. n, names)) => seq \in Bijection(1 .. n, names)
    BY <1>1 DEF ST!Enumerated
<1>4. IsQueue(seq) /\ DOMAIN seq = 1 .. n /\ n \in Nat
    BY <1>2, EnumeratedSet, FS_CardinalityType
<1> HIDE DEF seq
<1>5. \A k \in 1 .. n : \E part, arg : f[k] = ST!AskFrom(part, "sites", arg)
    BY <1>4 DEF ST!initList, seq
<1>6. DOMAIN f = 1 .. n /\ f = [k \in 1 .. n |-> f[k]]
    BY <1>4 DEF ST!initList, seq
<1> HIDE DEF f, n
<1>7. \A k \in 1 .. n : IsCall(f[k], ST!Requests)
    <2> SUFFICES ASSUME NEW k \in 1 .. n PROVE IsCall(f[k], ST!Requests)
        OBVIOUS
    <2>1. PICK part, arg : f[k] = AskFrom(part, "sites", arg)
        BY <1>5, STIsPage
    <2>2. "sites" \in ST!Requests
        BY DEF ST!Requests
    <2> QED BY <2>1, <2>2, AskedCall
<1>8. AreCalls(f, ST!Requests)
    BY <1>4, <1>6, <1>7, ManyAreCalls
<1> QED BY <1>8 DEF f

LEMMA SiteTablesMove ==
    ASSUME ST!Next
    PROVE  Moves(ST!Requests)
<1>0. /\ IsFiniteSet(Institutions) /\ IsFiniteSet({}) /\ \A a : IsFiniteSet({a})
      /\ \A v : IsFiniteSet(ST!getTable(v))
    <2>1. IsFiniteSet(Institutions) /\ IsFiniteSet({}) /\ \A a : IsFiniteSet({a})
        BY InstitutionsAssumption, FS_EmptySet, FS_Singleton
    <2>2. \A v : ST!getTable(v) \subseteq Institutions
        BY DEF ST!getTable
    <2> QED BY <2>1, <2>2, FS_Subset
<1>1. ASSUME NEW n, ST!changeCollapse(n) \/ (\E s : ST!tofilter(n, s))
                    \/ (\E p : ST!handleCurrentChange(n, p))
      PROVE  Moves(ST!Requests)
    <2>1. CASE ST!changeCollapse(n)
        <3>1. \E names : IsFiniteSet(names) /\ ST!Click(ST!initList(view, names))
            BY <1>0, <2>1 DEF ST!changeCollapse
        <3> QED BY <3>1, TablesAsk, STMoves
    <2>2. ASSUME NEW s, ST!tofilter(n, s) \/ ST!handleCurrentChange(n, s)
          PROVE  Moves(ST!Requests)
        <3>1. \E v : ST!Click(ST!initList(v, {n}))
            BY <2>2 DEF ST!tofilter, ST!handleCurrentChange
        <3> QED BY <1>0, <3>1, TablesAsk, STMoves
    <2> QED BY <1>1, <2>1, <2>2
<1>2. CASE ST!toFold \/ ST!toSearch
    <2>1. \E v, names : IsFiniteSet(names) /\ ST!Click(ST!initList(v, names))
        BY <1>0, <1>2 DEF ST!toFold, ST!toSearch
    <2> QED BY <2>1, TablesAsk, STMoves
<1>3. CASE ST!okAction \/ ST!reactivateSite \/ ST!CloseDialog
    BY <1>3, STMoves DEF ST!okAction, ST!reactivateSite, ST!CloseDialog, ST!Requests
<1>4. ASSUME NEW asked, AreCalls(asked, ST!Requests), ST!UserActs, calls' = asked,
             busy' = ST!Loud(asked), UNCHANGED <<server, mishaps>>
      PROVE  Moves(ST!Requests)
    <2>1. steps' = steps + 1 /\ (busy' <=> Loud(asked)) /\ busy' \in BOOLEAN
        BY <1>4 DEF ST!UserActs, ST!Loud, Loud
    <2> QED BY <1>4, <2>1 DEF Moves, Carries
<1>5. CASE ST!siteInfo \/ ST!Back
    <2>1. CASE ST!siteInfo
        BY <2>1, <1>4, STMoves DEF ST!siteInfo, ST!Left
    <2>2. CASE ST!Back
        <3>1. AreCalls(calls', ST!Requests)
            BY <2>2, <1>0, TablesAsk DEF ST!Back
        <3> QED BY <2>2, <3>1, <1>4 DEF ST!Back
    <2> QED BY <1>5, <2>1, <2>2
<1>6. ASSUME NEW row, ST!handleDelete(row) \/ ST!toReactivate(row) \/ ST!sitedetail(row)
      PROVE  Moves(ST!Requests)
    <2>1. CASE ST!handleDelete(row) \/ ST!toReactivate(row)
        BY <2>1, STMoves DEF ST!handleDelete, ST!toReactivate
    <2>2. CASE ST!sitedetail(row)
        <3>1. AreCalls(<<ST!Ask("siteInfo", row.id)>>, ST!Requests)
            BY STMoves DEF ST!Requests
        <3> QED BY <2>2, <3>1, <1>4 DEF ST!sitedetail, ST!Left
    <2> QED BY <1>6, <2>1, <2>2
<1>7. ASSUME NEW i \in DOMAIN calls, ST!Serve(i) \/ ST!Fail(i)
      PROVE  Moves(ST!Requests)
    BY <1>7, STMoves DEF ST!Serve
<1>8. ASSUME NEW i \in DOMAIN calls, ST!SitesThen(i) \/ ST!getKeySansLink(i) \/ ST!Ignores(i)
      PROVE  Moves(ST!Requests)
    BY <1>8, STMoves DEF ST!SitesThen, ST!getKeySansLink, ST!Ignores
<1>9. ASSUME NEW i \in DOMAIN calls, ST!Decided(i)
      PROVE  Moves(ST!Requests)
    <2>1. \E names : IsFiniteSet(names) /\ ST!Handled(i, ST!initList(view, names))
        BY <1>0, <1>9 DEF ST!Decided
    <2> QED BY <2>1, TablesAsk, STMoves
<1> QED BY <1>1, <1>2, <1>3, <1>5, <1>6, <1>7, <1>8, <1>9 DEF ST!Next, ST!Acts

LEMMA SiteTablesStart ==
    ASSUME ST!Init
    PROVE  CallsInv(ST!Requests) /\ OverlayHasCall
<1> DEFINE asked == ST!initList(view, ST!getTable(view))
<1>1. AreCalls(asked, ST!Requests)
    <2>1. ST!getTable(view) \subseteq Institutions
        BY DEF ST!getTable
    <2> QED BY <2>1, InstitutionsAssumption, FS_Subset, TablesAsk
<1>2. ST!Created(asked)
    BY DEF ST!Init
<1> HIDE DEF asked
<1> QED BY <1>1, <1>2, STIsPage, CreatedHasCalls
-----------------------------------------------------------------------------
(* The dialog of a roll site.                                              *)

LEMMA RollSiteMoves ==
    ASSUME RF!Next
    PROVE  Moves(RF!Requests)
<1>1. ASSUME NEW x, RF!rollsiteEdit(x) \/ RF!EnterNetwork(x) \/ RF!toSearch(x)
                    \/ RF!toEditSiteNet(x) \/ RF!DeleteSiteNet(x) \/ RF!toRecover(x)
                    \/ RF!EnterPartyId(x) \/ RF!EnterAccess(x)
      PROVE  Moves(RF!Requests)
    BY <1>1, RFMoves
       DEF RF!rollsiteEdit, RF!EnterNetwork, RF!toSearch, RF!toEditSiteNet, RF!DeleteSiteNet,
           RF!toRecover, RF!EnterPartyId, RF!EnterAccess, RF!Requests
<1>2. CASE RF!toAddRollsite \/ RF!ClickAcquire \/ RF!Cancel \/ RF!toaction
           \/ RF!showAddSiteNet \/ RF!cancelAddSiteNet \/ RF!toAddSiteNet
    BY <1>2, RFMoves
       DEF RF!toAddRollsite, RF!ClickAcquire, RF!Cancel, RF!toaction, RF!showAddSiteNet,
           RF!cancelAddSiteNet, RF!toAddSiteNet, RF!toAcquire, RF!Requests
<1>3. CASE RF!AcquireTimer
    BY <1>3, RFMoves DEF RF!AcquireTimer, RF!toAcquire, RF!Requests
<1>4. ASSUME NEW i \in DOMAIN calls, RF!ServeSave(i) \/ RF!ServeNothing(i) \/ RF!Fail(i)
      PROVE  Moves(RF!Requests)
    BY <1>4, RFMoves DEF RF!ServeSave, RF!ServeNothing
<1>5. ASSUME NEW i \in DOMAIN calls,
             RF!QueryThen(i) \/ RF!SearchThen(i) \/ RF!CheckPartyThen(i) \/ RF!CheckPartyCatch(i)
             \/ RF!SaveThen(i) \/ RF!ListThen(i) \/ RF!NoCatch(i)
      PROVE  Moves(RF!Requests)
    BY <1>5, RFMoves
       DEF RF!QueryThen, RF!SearchThen, RF!CheckPartyThen, RF!CheckPartyCatch, RF!SaveThen,
           RF!ListThen, RF!NoCatch, RF!Ignores, RF!Requests
<1> QED BY <1>1, <1>2, <1>3, <1>4, <1>5 DEF RF!Next, RF!Acts


\* Rows of the network n, and rows entered by hand.
RfRows(rows, n) == IsQueue(rows) /\ \A k \in DOMAIN rows : rows[k].of \in {0, n}

\* The form, the dialog of a party, the rows to compare with and the page, as
\* long as no question of the timer met another request.
RfForm(d) ==
    /\ DOMAIN d = {"networkAccess", "partyAddBeanList"}
    /\ d.networkAccess \in 0 .. 4 /\ RfRows(d.partyAddBeanList, d.networkAccess)
RfSite(s, n) ==
    /\ DOMAIN s = {"type", "partyId", "networkAccess", "status", "of"}
    /\ s.of \in {0, n} /\ (s.type = "none" => s.of = 0)
RfTemp(v) ==
    /\ IsQueue(v.tempExchangeDataList)
    /\ RF!Rows(v) # <<>> \/ v.addSiteNet.type = "edit" =>
         RfRows(v.tempExchangeDataList, v.exchangeData.networkAccess)
RfOpen(v) ==
    v.kind = "edit" =>
        IF v.editdialog
        THEN v.exchangeData.networkAccess = v.rollSiteId /\ v.rollSiteId \in {1, 2}
        ELSE RF!Rows(v) = <<>> /\ v.exchangeData.networkAccess = 0 /\ v.addSiteNet.type = "none"
RfFits(v) ==
    /\ RfForm(v.exchangeData) /\ RfSite(v.addSiteNet, v.exchangeData.networkAccess)
    /\ RfTemp(v) /\ RfOpen(v)

\* A request of the dialog v.
RfCall(e, v) ==
    /\ ~e.quiet
    /\ e.op = "query" => e.arg = v.exchangeData.networkAccess
    /\ e.op = "search" => v.kind = "edit" /\ v.editdialog /\ e.arg.rollSiteId = v.rollSiteId
    /\ e.op = "update" =>
         /\ v.kind = "edit" /\ v.editdialog /\ v.addSiteNet.type = "none"
         /\ e.arg.rollSiteId = v.rollSiteId /\ RfRows(e.arg.rows, e.arg.rollSiteId)
    /\ e.op = "addRollsite" =>
         e.arg.networkAccess \in 1 .. 4 /\ RfRows(e.arg.partyAddBeanList, e.arg.networkAccess)

RfRoutes(s) == DOMAIN s.routes = 1 .. 4 /\ \A n \in 1 .. 4 : RfRows(s.routes[n], n)

\* The dialog that adds has no timer.
RfKind(v) ==
    /\ DOMAIN v = {"kind", "editdialog", "exchangeData", "timers", "rollSiteId", "searched",
                   "siteNetIndex", "tempPartyId", "tempExchangeDataList", "addSiteNet",
                   "checkResult", "loaded", "handmade", "crowded"}
    /\ v.crowded \in BOOLEAN
    /\ v.kind \in {"add", "edit"} /\ (v.kind = "add" => v.timers = 0 /\ ~v.crowded)

RfAlone(s, overlay) == Len(s) <= 1 /\ (s # <<>> => overlay)

RfInv ==
    /\ RfKind(view) /\ DOMAIN server = {"routes", "added"}
    /\ \A e \in Range(calls) : e.op = "addRollsite" => view.kind = "add"
    /\ ~view.crowded =>
         /\ RfFits(view) /\ RfRoutes(server) /\ RfAlone(calls, busy)
         /\ \A e \in Range(calls) : RfCall(e, view)

\* What the dialog asks, at most one thing.
RfAsks(asked, v) ==
    /\ AreCalls(asked, RF!Requests) /\ Len(asked) <= 1
    /\ \A e \in Range(asked) : ~e.quiet
    /\ \A e \in Range(asked) : e.op = "addRollsite" => v.kind = "add"
    /\ ~v.crowded => \A e \in Range(asked) : RfCall(e, v)

LEMMA RfAsksNone ==
    ASSUME NEW v
    PROVE  RfAsks(<<>>, v)
BY NoneAreCalls, SetOfFew DEF RfAsks

LEMMA RfAsksOne ==
    ASSUME NEW op, op \in RF!Requests, NEW arg, NEW v, NEW asked, asked = <<RF!Ask(op, arg)>>,
           op = "addRollsite" => v.kind = "add",
           NEW c, c = RF!Ask(op, arg), ~v.crowded => RfCall(c, v)
    PROVE  RfAsks(asked, v)
<1>1. c = AskFrom(0, op, arg)
    BY RFIsPage DEF Ask, AskFrom
<1>2. IsCall(c, RF!Requests) /\ c.op = op /\ ~c.quiet
    BY <1>1, AskedCall
<1>3. AreCalls(asked, RF!Requests) /\ Len(asked) = 1 /\ Range(asked) = {c}
    BY <1>2, OneIsCalls, SetOfFew
<1> QED BY <1>2, <1>3 DEF RfAsks

LEMMA RfCallIs ==
    ASSUME NEW op, op \in RF!Requests, NEW arg, NEW c, c = RF!Ask(op, arg)
    PROVE  c.op = op /\ c.arg = arg /\ ~c.quiet
<1>1. c = AskFrom(0, op, arg)
    BY RFIsPage DEF Ask, AskFrom
<1> QED BY <1>1, AskedCall

\* A step that sends, or handles an answer, of a dialog that has one request
\* under way at most.
LEMMA RfSteps ==
    ASSUME RfInv, CallsInv(RF!Requests), NEW asked, RfAsks(asked, view'),
           \/ RF!Sends(asked) /\ (~busy \/ calls = <<>> \/ view'.crowded)
           \/ \E i \in DOMAIN calls : RF!Handled(i, asked),
           RfKind(view'), view'.kind = view.kind, view.crowded => view'.crowded,
           ~view'.crowded => RfFits(view')
    PROVE  RfInv'
<1>0. AreCalls(calls, RF!Requests) /\ AreCalls(asked, RF!Requests)
    BY DEF CallsInv, RfAsks
<1>1. /\ server' = server /\ Range(calls') \subseteq Range(calls) \cup Range(asked)
      /\ \/ calls' = calls \o asked /\ busy' = (busy \/ Loud(asked))
            /\ (~busy \/ calls = <<>> \/ view'.crowded)
         \/ \E i \in DOMAIN calls : calls' = Without(calls, i) \o asked /\ (Loud(asked) => busy')
    <2>1. CASE RF!Sends(asked) /\ (~busy \/ calls = <<>> \/ view'.crowded)
        <3>1. calls' = calls \o asked /\ busy' = (busy \/ Loud(asked)) /\ server' = server
            BY <2>1, RFIsPage DEF Sends
        <3> QED BY <1>0, <2>1, <3>1, SetOfCalls
    <2>2. ASSUME NEW i \in DOMAIN calls, RF!Handled(i, asked)
          PROVE  /\ server' = server /\ Range(calls') \subseteq Range(calls) \cup Range(asked)
                 /\ calls' = Without(calls, i) \o asked /\ (Loud(asked) => busy')
        <3>1. /\ calls' = Without(calls, i) \o asked /\ server' = server
              /\ (Loud(asked) => busy')
            BY <2>2, RFIsPage DEF Handled
        <3> QED BY <1>0, <3>1, SetOfCalls
    <2> QED BY <2>1, <2>2
<1>2. \A e \in Range(calls') : e.op = "addRollsite" => view'.kind = "add"
    BY <1>1 DEF RfInv, RfAsks
<1>3. ASSUME ~view'.crowded
      PROVE  RfAlone(calls', busy') /\ \A e \in Range(calls') : RfCall(e, view')
    <2>0. RfAlone(calls, busy)
        BY <1>3 DEF RfInv
    <2>1. PICK rest : calls' = rest \o asked /\ IsQueue(rest) /\ Len(rest) = 0 /\ (Loud(asked) => busy')
        <3>1. CASE calls' = calls \o asked /\ busy' = (busy \/ Loud(asked))
                   /\ (~busy \/ calls = <<>> \/ view'.crowded)
            <4>1. calls = <<>>
                BY <3>1, <2>0, <1>3 DEF RfAlone
            <4> QED BY <1>0, <3>1, <4>1 DEF AreCalls
        <3>2. ASSUME NEW i \in DOMAIN calls, calls' = Without(calls, i) \o asked, Loud(asked) => busy'
              PROVE  \E rest : calls' = rest \o asked /\ IsQueue(rest) /\ Len(rest) = 0 /\ (Loud(asked) => busy')
            <4>1. IsQueue(Without(calls, i)) /\ Len(Without(calls, i)) = Len(calls) - 1
                BY <1>0, Removed DEF AreCalls
            <4>2. Len(calls) \in Nat /\ DOMAIN calls = 1 .. Len(calls)
                BY <1>0, QueueFacts DEF AreCalls
            <4>3. Len(calls) = 1
                BY <2>0, <4>2 DEF RfAlone
            <4> QED BY <3>2, <4>1, <4>3
        <3> QED BY <1>1, <3>1, <3>2
    <2>2. Range(rest) = {}
        BY <2>1 DEF IsQueue, Range
    <2>3. Range(calls') = Range(asked)
        BY <1>0, <2>1, <2>2, SetOfJoined DEF AreCalls
    <2>4. Len(calls') = Len(asked) /\ IsQueue(calls') /\ Len(asked) \in Nat
        BY <1>0, <2>1, Joined, QueueFacts DEF AreCalls
    <2>5. ASSUME calls' # <<>> PROVE busy'
        <3>1. Range(calls') # {}
            BY <2>4, <2>5 DEF IsQueue, Range
        <3>2. Loud(asked)
            BY <2>3, <3>1 DEF RfAsks, Loud, Range
        <3> QED BY <2>1, <3>2
    <2> QED BY <1>3, <2>3, <2>4, <2>5 DEF RfAlone, RfAsks
<1>4. (~view'.crowded => RfRoutes(server')) /\ DOMAIN server' = {"routes", "added"}
    BY <1>1 DEF RfInv
<1> QED BY <1>2, <1>3, <1>4 DEF RfInv

\* An answer is put to a request.
LEMMA RfAnswers ==
    ASSUME RfInv, CallsInv(RF!Requests), NEW i \in DOMAIN calls, NEW a, a.code \in Codes,
           calls' = Answered(calls, i, a), UNCHANGED <<view, busy>>,
           DOMAIN server' = {"routes", "added"}, ~view.crowded => RfRoutes(server')
    PROVE  RfInv'
<1>1. /\ \A e \in Range(calls') :
           \/ e \in Range(calls)
           \/ /\ e.op = calls[i].op /\ e.arg = calls[i].arg /\ e.quiet = calls[i].quiet
      /\ calls[i] \in Range(calls)
    BY AnsweredSet DEF CallsInv
<1>2. \A e \in Range(calls') : e.op = "addRollsite" => view'.kind = "add"
    BY <1>1 DEF RfInv
<1>3. ASSUME ~view.crowded
      PROVE  RfAlone(calls', busy') /\ \A e \in Range(calls') : RfCall(e, view')
    <2>1. \A e \in Range(calls') : RfCall(e, view')
        BY <1>1, <1>3 DEF RfInv, RfCall
    <2>2. Len(calls') = Len(calls) /\ calls # <<>>
        BY AnsweredCall, NoneAreCalls DEF CallsInv
    <2> QED BY <1>3, <2>1, <2>2 DEF RfInv, RfAlone
<1> QED BY <1>2, <1>3 DEF RfInv

\* Nothing of what fits has changed.
RfSame(v, w) ==
    /\ DOMAIN w = DOMAIN v /\ w.kind = v.kind /\ w.crowded = v.crowded /\ w.timers = v.timers

LEMMA RfSameKind ==
    ASSUME NEW v, RfKind(v), NEW w, RfSame(v, w)
    PROVE  RfKind(w)
BY DEF RfKind, RfSame

LEMMA RfSameFits ==
    ASSUME NEW v, RfFits(v), NEW w, w.kind = v.kind, w.editdialog = v.editdialog,
           w.exchangeData = v.exchangeData, w.rollSiteId = v.rollSiteId,
           w.tempExchangeDataList = v.tempExchangeDataList, w.addSiteNet = v.addSiteNet
    PROVE  RfFits(w)
BY DEF RfFits, RfTemp, RfOpen, RF!Rows

LEMMA RfClosed ==
    ASSUME NEW v, RfKind(v), NEW w, w = RF!tocancel(v)
    PROVE  /\ RfSame(v, w)
           /\ RfFits(v) /\ v.addSiteNet.type = "none" => RfFits(w)
<1>1. /\ DOMAIN w = DOMAIN v /\ w.exchangeData = RF!NoForm /\ ~w.editdialog
      /\ w.kind = v.kind /\ w.crowded = v.crowded /\ w.timers = v.timers
      /\ w.addSiteNet = v.addSiteNet /\ w.tempExchangeDataList = v.tempExchangeDataList
    BY DEF RF!tocancel, RfKind
<1>2. RfForm(RF!NoForm) /\ RF!NoForm.partyAddBeanList = <<>> /\ RF!NoForm.networkAccess = 0
    BY NoneAreCalls DEF RF!NoForm, RF!NoNetwork, RfForm, RfRows, AreCalls
<1>3. RfSame(v, w)
    BY <1>1 DEF RfSame
<1>4. ASSUME RfFits(v), v.addSiteNet.type = "none" PROVE RfFits(w)
    BY <1>1, <1>2, <1>4 DEF RfFits, RfSite, RfTemp, RfOpen, RF!Rows
<1> QED BY <1>3, <1>4

\* The rows of the form are changed, to others that fit.
LEMMA RfNewRows ==
    ASSUME NEW v, RfKind(v), NEW rows, NEW w, w = [v EXCEPT !.exchangeData.partyAddBeanList = rows],
           RfFits(v), RfRows(rows, v.exchangeData.networkAccess),
           v.kind = "edit" => v.editdialog,
           rows = <<>> \/ RfRows(v.tempExchangeDataList, v.exchangeData.networkAccess)
    PROVE  RfSame(v, w) /\ RfFits(w)
<1>0. DOMAIN v.exchangeData = {"networkAccess", "partyAddBeanList"}
    BY DEF RfFits, RfForm
<1>1. /\ DOMAIN w = DOMAIN v /\ w.editdialog = v.editdialog /\ w.rollSiteId = v.rollSiteId
      /\ w.kind = v.kind /\ w.crowded = v.crowded /\ w.timers = v.timers
      /\ w.addSiteNet = v.addSiteNet /\ w.tempExchangeDataList = v.tempExchangeDataList
      /\ DOMAIN w.exchangeData = {"networkAccess", "partyAddBeanList"}
      /\ w.exchangeData.networkAccess = v.exchangeData.networkAccess
      /\ w.exchangeData.partyAddBeanList = rows
    BY <1>0 DEF RfKind
<1> QED BY <1>1 DEF RfSame, RfFits, RfForm, RfTemp, RfOpen, RF!Rows

\* t is s with e behind it.
RfLonger(s, e, t) ==
    /\ IsQueue(t) /\ Len(t) = Len(s) + 1 /\ DOMAIN t = 1 .. Len(s) + 1
    /\ \A k \in DOMAIN s : k \in DOMAIN t /\ t[k] = s[k]
    /\ Len(s) + 1 \in DOMAIN t /\ t[Len(s) + 1] = e

LEMMA RfAppended ==
    ASSUME NEW rows, NEW n, RfRows(rows, n), NEW row, row.of \in {0, n}
    PROVE  RfRows(Append(rows, row), n)
<1> DEFINE u == Append(rows, row)
<1>0. IsQueue(rows)
    BY DEF RfRows
<1>1. u = Append(rows, row)
    OBVIOUS
<1> HIDE DEF u
<1>2. /\ IsQueue(u) /\ Len(u) = Len(rows) + 1 /\ DOMAIN u = 1 .. Len(rows) + 1
      /\ \A k \in DOMAIN rows : k \in DOMAIN u /\ u[k] = rows[k]
      /\ Len(rows) + 1 \in DOMAIN u /\ u[Len(rows) + 1] = row
    <2>1. \A s, e, t : IsQueue(s) /\ t = Append(s, e) => RfLonger(s, e, t)
        BY Appended DEF RfLonger
    <2>2. RfLonger(rows, row, u)
        BY <1>0, <1>1, <2>1
    <2> QED BY <2>2 DEF RfLonger
<1>3. Len(rows) \in Nat /\ DOMAIN rows = 1 .. Len(rows)
    BY <1>0, QueueFacts
<1>4. \A j \in DOMAIN u : j \in DOMAIN rows \/ j = Len(rows) + 1
    BY <1>2, <1>3
<1>5. RfRows(u, n)
    BY <1>2, <1>4 DEF RfRows
<1> QED BY <1>5 DEF u

LEMMA RfPut ==
    ASSUME NEW rows, NEW n, RfRows(rows, n), NEW k, NEW row, row.of \in {0, n},
           NEW t, t = RF!Put(rows, k, row)
    PROVE  RfRows(t, n)
<1>1. CASE t = With(rows, k, row) /\ k \in DOMAIN rows
    BY <1>1, WithQueue DEF RfRows
<1>2. CASE t = Append(rows, row)
    BY <1>2, RfAppended
<1> QED BY <1>1, <1>2 DEF RF!Put, With

LEMMA RfOfChanged ==
    ASSUME NEW rows, NEW n, RfRows(rows, n), NEW k \in DOMAIN rows, NEW row, row.of = rows[k].of,
           NEW t, t = With(rows, k, row)
    PROVE  RfRows(t, n) /\ rows # <<>>
<1>1. RfRows(t, n)
    BY WithQueue DEF RfRows
<1>2. rows # <<>>
    BY NoneAreCalls
<1> QED BY <1>1, <1>2

\* What the user and the timer do.
LEMMA RfActs ==
    ASSUME RfInv, CallsInv(RF!Requests), RF!Acts
    PROVE  RfInv'
<1>k. RfKind(view)
    BY DEF RfInv
<1>f. ~view.crowded => RfFits(view) /\ RfAlone(calls, busy)
    BY DEF RfInv
<1>0. /\ RfAsks(<<>>, view') /\ \A asked : RF!Click(asked) => RF!Sends(asked) /\ ~busy
    BY RfAsksNone DEF RF!Click
<1>1. CASE RF!toAddRollsite
    <2>1. view' = [view EXCEPT !.editdialog = TRUE] /\ RF!Click(<<>>) /\ view.kind = "add"
        BY <1>1 DEF RF!toAddRollsite
    <2>2. RfSame(view, view') /\ RfKind(view')
        <3>1. RfSame(view, view')
            BY <2>1, <1>k DEF RfSame, RfKind
        <3> QED BY <3>1, <1>k, RfSameKind
    <2>3. ~view'.crowded => RfFits(view')
        BY <2>1, <2>2, <1>f DEF RfFits, RfTemp, RfOpen, RF!Rows, RfSame
    <2> QED BY <1>0, <2>1, <2>2, <2>3, RfSteps DEF RfSame
<1>2. ASSUME NEW id \in {1, 2}, RF!rollsiteEdit(id)
      PROVE  RfInv'
    <2>1. /\ RF!Click(<<>>) /\ view.kind = "edit" /\ ~view.editdialog
          /\ view' = [view EXCEPT !.editdialog = TRUE, !.rollSiteId = id, !.timers = view.timers + 1,
                            !.exchangeData.networkAccess = id]
        BY <1>2 DEF RF!rollsiteEdit
    <2>2. RfKind(view') /\ view'.kind = view.kind /\ view'.crowded = view.crowded
        BY <2>1, <1>k DEF RfKind
    <2>3. ASSUME ~view'.crowded PROVE RfFits(view')
        <3>1. RfFits(view)
            BY <2>2, <2>3, <1>f
        <3>2. DOMAIN view.exchangeData = {"networkAccess", "partyAddBeanList"}
            BY <3>1 DEF RfFits, RfForm
        <3>3. /\ DOMAIN view'.exchangeData = DOMAIN view.exchangeData
              /\ view'.exchangeData.networkAccess = id
              /\ view'.exchangeData.partyAddBeanList = view.exchangeData.partyAddBeanList
              /\ view'.editdialog /\ view'.rollSiteId = id /\ view'.addSiteNet = view.addSiteNet
              /\ view'.tempExchangeDataList = view.tempExchangeDataList
            BY <2>1, <3>2, <1>k DEF RfKind
        <3>4. RF!Rows(view) = <<>> /\ view.addSiteNet.type = "none" /\ view.addSiteNet.of = 0
            BY <2>1, <3>1 DEF RfFits, RfOpen, RfSite
        <3>5. RfForm(view'.exchangeData)
            BY <3>2, <3>3, <3>4, NoneAreCalls DEF RfForm, RfRows, RF!Rows, AreCalls
        <3>6. RfSite(view'.addSiteNet, id) /\ RfTemp(view') /\ RfOpen(view')
            BY <3>1, <3>3, <3>4 DEF RfFits, RfSite, RfTemp, RfOpen, RF!Rows
        <3> QED BY <3>3, <3>5, <3>6 DEF RfFits
    <2> QED BY <1>0, <2>1, <2>2, <2>3, RfSteps
<1>3. CASE RF!AcquireTimer
    <2> DEFINE s == RF!toAcquire(view)
    <2>1. /\ RF!Sends(s) /\ view.timers > 0
          /\ view' = [view EXCEPT !.timers = view.timers - 1, !.crowded = view.crowded \/ calls # <<>>]
        BY <1>3 DEF RF!AcquireTimer
    <2>2. view.kind = "edit"
        BY <2>1, <1>k DEF RfKind
    <2>3. RfKind(view') /\ view'.kind = view.kind
        BY <2>1, <2>2, <1>k DEF RfKind
    <2>4. (view.crowded => view'.crowded) /\ (calls # <<>> => view'.crowded)
        BY <2>1, <1>k DEF RfKind
    <2>5. ~view'.crowded => RfFits(view')
        BY <2>1, <2>4, <1>k, <1>f, RfSameFits DEF RfKind
    <2>6. RfAsks(s, view')
        <3> DEFINE c == RF!Ask("query", view.exchangeData.networkAccess)
        <3>0. "query" \in RF!Requests /\ s = <<c>>
            BY DEF RF!Requests, RF!toAcquire
        <3>1. PICK arg : arg = view.exchangeData.networkAccess
            OBVIOUS
        <3>2. c.op = "query" /\ c.arg = arg /\ ~c.quiet
            BY <3>0, <3>1, RfCallIs
        <3>3. view'.exchangeData = view.exchangeData
            BY <2>1
        <3>4. RfCall(c, view')
            BY <3>1, <3>2, <3>3 DEF RfCall
        <3>5. s = <<RF!Ask("query", arg)>> /\ c = RF!Ask("query", arg)
            BY <3>0, <3>1
        <3> HIDE DEF c, s
        <3> QED BY <3>0, <3>4, <3>5, RfAsksOne
    <2> HIDE DEF s
    <2> QED BY <2>1, <2>3, <2>4, <2>5, <2>6, RfSteps
<1>4. CASE RF!ClickAcquire
    <2> DEFINE s == RF!toAcquire(view)
    <2>1. RF!Click(s) /\ view' = view
        BY <1>4 DEF RF!ClickAcquire
    <2>6. RfAsks(s, view')
        <3> DEFINE c == RF!Ask("query", view.exchangeData.networkAccess)
        <3>0. "query" \in RF!Requests /\ s = <<c>>
            BY DEF RF!Requests, RF!toAcquire
        <3>1. PICK arg : arg = view.exchangeData.networkAccess
            OBVIOUS
        <3>2. c.op = "query" /\ c.arg = arg /\ ~c.quiet
            BY <3>0, <3>1, RfCallIs
        <3>4. RfCall(c, view')
            BY <2>1, <3>1, <3>2 DEF RfCall
        <3>5. s = <<RF!Ask("query", arg)>> /\ c = RF!Ask("query", arg)
            BY <3>0, <3>1
        <3> HIDE DEF c, s
        <3> QED BY <3>0, <3>4, <3>5, RfAsksOne
    <2> HIDE DEF s
    <2> QED BY <1>k, <1>f, <1>0, <2>1, <2>6, RfSteps
<1>5. ASSUME NEW network \in {3, 4}, RF!EnterNetwork(network)
      PROVE  RfInv'
    <2> DEFINE d == [networkAccess |-> network, partyAddBeanList |-> <<>>]
    <2>1. /\ RF!Click(<<>>) /\ view' = [view EXCEPT !.exchangeData = d]
          /\ "network" \in RF!Controls(view)
        BY <1>5 DEF RF!EnterNetwork
    <2>2. view.addSiteNet.type = "none" /\ (view.kind \in {"add", "edit"} => view.kind = "add")
        BY <2>1 DEF RF!Controls
    <2>3. RfSame(view, view') /\ RfKind(view')
        <3>1. RfSame(view, view')
            BY <2>1, <1>k DEF RfSame, RfKind
        <3> QED BY <3>1, <1>k, RfSameKind
    <2>4. ASSUME ~view'.crowded PROVE RfFits(view')
        <3>1. RfFits(view)
            BY <2>3, <2>4, <1>f DEF RfSame
        <3>2. /\ view'.exchangeData = d /\ view'.addSiteNet = view.addSiteNet
              /\ view'.tempExchangeDataList = view.tempExchangeDataList /\ view'.kind = "add"
            BY <2>1, <2>2, <1>k DEF RfKind
        <3>3. RfForm(d) /\ d.networkAccess = network /\ d.partyAddBeanList = <<>>
            BY NoneAreCalls DEF RfForm, RfRows, AreCalls
        <3> HIDE DEF d
        <3> QED BY <3>1, <3>2, <3>3, <2>2 DEF RfFits, RfSite, RfTemp, RfOpen, RF!Rows
    <2> QED BY <1>0, <2>1, <2>3, <2>4, RfSteps DEF RfSame
<1>6. ASSUME NEW partyId, RF!toSearch(partyId)
      PROVE  RfInv'
    <2> DEFINE query == [rollSiteId |-> view.rollSiteId, partyId |-> partyId]
               c == RF!Ask("search", query)
               s == <<c>>
    <2>1. /\ RF!Click(s) /\ view' = [view EXCEPT !.searched = partyId]
          /\ "search" \in RF!Controls(view)
        BY <1>6 DEF RF!toSearch
    <2>2. view.editdialog /\ view.kind = "edit"
        BY <2>1, <1>k DEF RF!Controls, RfKind
    <2>3. /\ RfSame(view, view') /\ RfKind(view') /\ view'.editdialog = view.editdialog
          /\ view'.rollSiteId = view.rollSiteId
        <3>1. /\ RfSame(view, view')
              /\ view'.editdialog = view.editdialog /\ view'.rollSiteId = view.rollSiteId
            BY <2>1, <1>k DEF RfSame, RfKind
        <3> QED BY <3>1, <1>k, RfSameKind
    <2>4. ~view'.crowded => RfFits(view')
        <3>1. /\ view'.exchangeData = view.exchangeData /\ view'.addSiteNet = view.addSiteNet
              /\ view'.tempExchangeDataList = view.tempExchangeDataList
            BY <2>1, <1>k DEF RfKind
        <3> QED BY <2>3, <3>1, <1>f, RfSameFits DEF RfSame
    <2>5. query.rollSiteId = view.rollSiteId /\ "search" \in RF!Requests
        BY DEF RF!Requests
    <2> HIDE DEF query
    <2>6. c.op = "search" /\ c.arg = query /\ ~c.quiet
        BY <2>5, RfCallIs
    <2>7. RfCall(c, view')
        BY <2>2, <2>3, <2>5, <2>6 DEF RfCall, RfSame
    <2>8. RfAsks(s, view')
        BY <2>5, <2>7, RfAsksOne
    <2> HIDE DEF s
    <2> QED BY <1>0, <2>1, <2>3, <2>4, <2>8, RfSteps DEF RfSame
<1>7. CASE RF!Cancel
    <2>1. RF!Click(<<>>) /\ view' = RF!tocancel(view) /\ view.addSiteNet.type = "none"
        BY <1>7 DEF RF!Cancel, RF!Controls
    <2>2. RfSame(view, view') /\ RfKind(view') /\ (RfFits(view) => RfFits(view'))
        BY <2>1, <1>k, RfClosed, RfSameKind
    <2> QED BY <1>0, <1>f, <2>1, <2>2, RfSteps DEF RfSame
<1>8. CASE RF!toaction
    <2> DEFINE form == view.exchangeData
               query == [rollSiteId |-> view.rollSiteId, rows |-> RF!Rows(view)]
               s == IF RF!Rows(view) = <<>> \/ form.networkAccess = RF!NoNetwork THEN <<>>
                    ELSE IF view.kind = "add" THEN <<RF!Ask("addRollsite", form)>>
                    ELSE <<RF!Ask("update", query)>>
    <2>1. RF!Click(s) /\ view' = view /\ "ok" \in RF!Controls(view)
        BY <1>8 DEF RF!toaction
    <2>2. view.editdialog /\ view.addSiteNet.type = "none"
        BY <2>1 DEF RF!Controls
    <2>3. CASE RF!Rows(view) = <<>> \/ form.networkAccess = RF!NoNetwork
        BY <1>0, <1>k, <1>f, <2>1, <2>3, RfSteps
    <2>4. CASE ~(RF!Rows(view) = <<>> \/ form.networkAccess = RF!NoNetwork) /\ view.kind = "add"
        <3> DEFINE c == RF!Ask("addRollsite", form)
                   t == <<c>>
        <3>1. RF!Click(t)
            BY <2>1, <2>4
        <3>2. "addRollsite" \in RF!Requests
            BY DEF RF!Requests
        <3>3. c.op = "addRollsite" /\ c.arg = form /\ ~c.quiet
            BY <3>2, RfCallIs
        <3>4. ~view.crowded => RfCall(c, view')
            BY <2>4, <3>3, <1>f DEF RfCall, RfFits, RfForm, RF!NoNetwork
        <3>5. RfAsks(t, view')
            BY <2>1, <2>4, <3>2, <3>4, RfAsksOne
        <3> HIDE DEF t
        <3> QED BY <1>0, <1>k, <1>f, <2>1, <3>1, <3>5, RfSteps
    <2>5. CASE ~(RF!Rows(view) = <<>> \/ form.networkAccess = RF!NoNetwork) /\ view.kind # "add"
        <3> DEFINE c == RF!Ask("update", query)
                   t == <<c>>
        <3>1. RF!Click(t)
            BY <2>1, <2>5
        <3>2. "update" \in RF!Requests /\ query.rollSiteId = view.rollSiteId /\ query.rows = RF!Rows(view)
            BY DEF RF!Requests
        <3> HIDE DEF query
        <3>3. c.op = "update" /\ c.arg = query /\ ~c.quiet
            BY <3>2, RfCallIs
        <3>6. view.kind = "edit"
            BY <2>5, <1>k DEF RfKind
        <3>4. ~view.crowded => RfCall(c, view')
            BY <2>1, <2>2, <3>2, <3>3, <3>6, <1>f DEF RfCall, RfFits, RfForm, RfOpen, RF!Rows
        <3>5. RfAsks(t, view')
            BY <2>1, <3>2, <3>4, RfAsksOne
        <3> HIDE DEF t
        <3> QED BY <1>0, <1>k, <1>f, <2>1, <3>1, <3>5, RfSteps
    <2> QED BY <2>3, <2>4, <2>5
<1>9. CASE RF!showAddSiteNet
    <2> DEFINE site == [RF!NoSite EXCEPT !.type = "add", !.status = RF!Unpublished]
               old == IF view.searched # "" /\ RF!Rows(view) # <<>>
                      THEN [view EXCEPT !.searched = "",
                                        !.exchangeData.partyAddBeanList = view.tempExchangeDataList]
                      ELSE view
    <2>1. RF!Click(<<>>) /\ view' = [old EXCEPT !.addSiteNet = site] /\ "addSiteNet" \in RF!Controls(view)
        BY <1>9 DEF RF!showAddSiteNet
    <2>2. view.editdialog
        BY <2>1 DEF RF!Controls
    <2>3. /\ RfSame(view, old) /\ (RfFits(view) => RfFits(old)) /\ old.editdialog
        <3>1. CASE view.searched # "" /\ RF!Rows(view) # <<>>
            <4> DEFINE rows == view.tempExchangeDataList
                       w == [view EXCEPT !.exchangeData.partyAddBeanList = rows]
            <4>1. /\ DOMAIN old = DOMAIN w /\ old.kind = w.kind /\ old.crowded = w.crowded
                  /\ old.timers = w.timers /\ old.editdialog = w.editdialog
                  /\ old.exchangeData = w.exchangeData /\ old.rollSiteId = w.rollSiteId
                  /\ old.tempExchangeDataList = w.tempExchangeDataList /\ old.addSiteNet = w.addSiteNet
                BY <3>1, <1>k DEF RfKind
            <4>2. RfSame(view, w) /\ w.editdialog
                BY <2>2, <1>k DEF RfKind, RfSame
            <4>3. RfFits(view) => RfFits(w)
                BY <2>2, <3>1, <1>k, RfNewRows DEF RfFits, RfTemp
            <4> HIDE DEF w, old
            <4>4. RfFits(w) => RfFits(old)
                BY <4>1, RfSameFits
            <4> QED BY <4>1, <4>2, <4>3, <4>4 DEF RfSame
        <3>2. CASE ~(view.searched # "" /\ RF!Rows(view) # <<>>)
            BY <2>2, <3>2 DEF RfSame
        <3> QED BY <3>1, <3>2
    <2>4. RfKind(old)
        BY <1>k, <2>3, RfSameKind
    <2>5. /\ DOMAIN site = {"type", "partyId", "networkAccess", "status", "of"}
          /\ site.type = "add" /\ site.of = 0
        BY DEF RF!NoSite
    <2> HIDE DEF old, site
    <2>6. RfSame(old, view') /\ RfKind(view')
        <3>1. RfSame(old, view')
            BY <2>1, <2>4 DEF RfSame, RfKind
        <3> QED BY <3>1, <2>4, RfSameKind
    <2>7. RfFits(old) => RfFits(view')
        <3>1. /\ view'.addSiteNet = site /\ view'.exchangeData = old.exchangeData
              /\ view'.kind = old.kind /\ view'.editdialog = old.editdialog
              /\ view'.rollSiteId = old.rollSiteId
              /\ view'.tempExchangeDataList = old.tempExchangeDataList
            BY <2>1, <2>4 DEF RfKind
        <3> QED BY <2>3, <2>5, <3>1 DEF RfFits, RfSite, RfTemp, RfOpen, RF!Rows
    <2> QED BY <1>0, <1>f, <2>1, <2>3, <2>6, <2>7, RfSteps DEF RfSame
<1>10. ASSUME NEW k \in DOMAIN RF!Rows(view), RF!toEditSiteNet(k)
       PROVE  RfInv'
    <2> DEFINE row == RF!Rows(view)[k]
               site == [type |-> "edit", partyId |-> row.partyId, status |-> row.status,
                        networkAccess |-> row.networkAccess, of |-> row.of]
    <2>1. /\ RF!Click(<<>>)
          /\ view' = [view EXCEPT !.siteNetIndex = k, !.tempPartyId = row.partyId, !.addSiteNet = site]
          /\ "edit" \in RF!RowControls(view, k)
        BY <1>10 DEF RF!toEditSiteNet
    <2>2. view.editdialog
        <3>1. RF!Controls(view) # {}
            BY <2>1 DEF RF!RowControls
        <3> QED BY <3>1 DEF RF!Controls
    <2>3. RfSame(view, view') /\ RfKind(view')
        <3>1. RfSame(view, view')
            BY <2>1, <1>k DEF RfSame, RfKind
        <3> QED BY <3>1, <1>k, RfSameKind
    <2>4. ASSUME ~view'.crowded PROVE RfFits(view')
        <3>1. RfFits(view)
            BY <2>3, <2>4, <1>f DEF RfSame
        <3>2. /\ view'.exchangeData = view.exchangeData /\ view'.addSiteNet = site
              /\ view'.tempExchangeDataList = view.tempExchangeDataList /\ view'.kind = view.kind
              /\ view'.editdialog = view.editdialog /\ view'.rollSiteId = view.rollSiteId
            BY <2>1, <1>k DEF RfKind
        <3>3. RF!Rows(view) # <<>>
            BY NoneAreCalls
        <3>4. row.of \in {0, view.exchangeData.networkAccess}
            BY <3>1 DEF RfFits, RfForm, RfRows, RF!Rows
        <3>5. /\ DOMAIN site = {"type", "partyId", "networkAccess", "status", "of"}
              /\ site.type = "edit" /\ site.of = row.of
            OBVIOUS
        <3> HIDE DEF site, row
        <3> QED BY <2>2, <3>1, <3>2, <3>3, <3>4, <3>5 DEF RfFits, RfSite, RfTemp, RfOpen, RF!Rows
    <2> QED BY <1>0, <2>1, <2>3, <2>4, RfSteps DEF RfSame
<1>11. ASSUME NEW k \in DOMAIN RF!Rows(view), RF!DeleteSiteNet(k) \/ RF!toRecover(k)
       PROVE  RfInv'
    <2>1. PICK st : /\ RF!Click(<<>>) /\ view.editdialog
                    /\ \/ view' = [view EXCEPT !.siteNetIndex = k,
                                               !.exchangeData.partyAddBeanList[k].status = st]
                       \/ view' = [view EXCEPT !.exchangeData.partyAddBeanList[k].status = st]
        <3>1. "delete" \in RF!RowControls(view, k) \/ "recover" \in RF!RowControls(view, k)
            BY <1>11 DEF RF!DeleteSiteNet, RF!toRecover
        <3>2. RF!Controls(view) # {}
            BY <3>1 DEF RF!RowControls
        <3>3. view.editdialog
            BY <3>2 DEF RF!Controls
        <3>4. CASE RF!DeleteSiteNet(k)
            BY <3>3, <3>4 DEF RF!DeleteSiteNet
        <3>5. CASE RF!toRecover(k)
            BY <3>3, <3>5 DEF RF!toRecover
        <3> QED BY <1>11, <3>4, <3>5
    <2> DEFINE row == [RF!Rows(view)[k] EXCEPT !.status = st]
               rows == With(RF!Rows(view), k, row)
               w == [view EXCEPT !.exchangeData.partyAddBeanList = rows]
    <2>2. view' = w \/ view' = [w EXCEPT !.siteNetIndex = k]
        BY <2>1 DEF With, RF!Rows
    <2>3. RfSame(view, w)
        BY <1>k DEF RfSame
    <2>4. ASSUME ~view.crowded PROVE RfFits(w)
        <3>1. RfFits(view)
            BY <2>4, <1>f
        <3>2. RfRows(RF!Rows(view), view.exchangeData.networkAccess) /\ row.of = RF!Rows(view)[k].of
            BY <3>1 DEF RfFits, RfForm, RF!Rows
        <3> HIDE DEF row
        <3>3. RfRows(rows, view.exchangeData.networkAccess) /\ RF!Rows(view) # <<>>
            BY <3>2, RfOfChanged
        <3>4. RfRows(view.tempExchangeDataList, view.exchangeData.networkAccess)
            BY <3>1, <3>3 DEF RfFits, RfTemp
        <3> HIDE DEF rows
        <3> QED BY <2>1, <3>1, <3>3, <3>4, <1>k, RfNewRows
    <2> HIDE DEF w
    <2>5. RfKind(w) /\ RfSame(w, view') /\ RfKind(view')
        <3>1. RfKind(w)
            BY <1>k, <2>3, RfSameKind
        <3>2. RfSame(w, view')
            BY <3>1, <2>2 DEF RfSame, RfKind
        <3> QED BY <3>1, <3>2, RfSameKind
    <2>6. RfFits(w) => RfFits(view')
        <3>1. /\ view'.kind = w.kind /\ view'.editdialog = w.editdialog
              /\ view'.exchangeData = w.exchangeData /\ view'.rollSiteId = w.rollSiteId
              /\ view'.tempExchangeDataList = w.tempExchangeDataList
              /\ view'.addSiteNet = w.addSiteNet
            BY <2>2, <2>5 DEF RfKind
        <3> QED BY <3>1, RfSameFits
    <2> QED BY <1>0, <2>1, <2>3, <2>4, <2>5, <2>6, RfSteps DEF RfSame
<1>12. ASSUME NEW partyId, RF!EnterPartyId(partyId)
       PROVE  RfInv'
    <2> DEFINE query == [partyId |-> partyId, rollSiteId |-> view.rollSiteId]
               c == RF!Ask("checkParty", query)
    <2>1. PICK asked, result :
             /\ RF!Click(asked) /\ asked \in {<<>>, <<c>>} /\ "partyId" \in RF!SiteControls(view)
             /\ view' = [view EXCEPT !.addSiteNet.partyId = partyId, !.checkResult = result]
        BY <1>12 DEF RF!EnterPartyId
    <2>2. RfSame(view, view') /\ RfKind(view')
        <3>1. RfSame(view, view')
            BY <2>1, <1>k DEF RfSame, RfKind
        <3> QED BY <3>1, <1>k, RfSameKind
    <2>3. ASSUME ~view'.crowded PROVE RfFits(view')
        <3>1. RfFits(view)
            BY <2>2, <2>3, <1>f DEF RfSame
        <3>2. /\ view'.exchangeData = view.exchangeData
              /\ DOMAIN view'.addSiteNet = DOMAIN view.addSiteNet
              /\ view'.addSiteNet.type = view.addSiteNet.type /\ view'.addSiteNet.of = view.addSiteNet.of
              /\ view'.tempExchangeDataList = view.tempExchangeDataList /\ view'.kind = view.kind
              /\ view'.editdialog = view.editdialog /\ view'.rollSiteId = view.rollSiteId
            <4>1. DOMAIN view.addSiteNet = {"type", "partyId", "networkAccess", "status", "of"}
                BY <3>1 DEF RfFits, RfSite
            <4>2. /\ view'.exchangeData = view.exchangeData
                  /\ view'.tempExchangeDataList = view.tempExchangeDataList
                  /\ view'.kind = view.kind /\ view'.editdialog = view.editdialog
                  /\ view'.rollSiteId = view.rollSiteId
                BY <2>1, <1>k DEF RfKind
            <4>3. PICK site : site = view'.addSiteNet /\ site = [view.addSiteNet EXCEPT !.partyId = partyId]
                BY <2>1, <1>k DEF RfKind
            <4>4. /\ DOMAIN site = DOMAIN view.addSiteNet /\ site.of = view.addSiteNet.of
                  /\ site.type = view.addSiteNet.type
                BY <4>1, <4>3
            <4> QED BY <4>2, <4>3, <4>4
        <3> QED BY <3>1, <3>2 DEF RfFits, RfSite, RfTemp, RfOpen, RF!Rows
    <2>4. RfAsks(asked, view')
        <3>1. "checkParty" \in RF!Requests
            BY DEF RF!Requests
        <3> HIDE DEF query
        <3>2. c.op = "checkParty" /\ ~c.quiet
            BY <3>1, RfCallIs
        <3>3. RfCall(c, view')
            BY <3>2 DEF RfCall
        <3>4. RfAsks(<<c>>, view')
            BY <3>1, <3>3, RfAsksOne
        <3> HIDE DEF c
        <3> QED BY <1>0, <2>1, <3>4
    <2> QED BY <1>0, <2>1, <2>2, <2>3, <2>4, RfSteps DEF RfSame
<1>13. ASSUME NEW access, RF!EnterAccess(access)
       PROVE  RfInv'
    <2>1. RF!Click(<<>>) /\ view' = [view EXCEPT !.addSiteNet.networkAccess = access]
        BY <1>13 DEF RF!EnterAccess
    <2>2. RfSame(view, view') /\ RfKind(view')
        <3>1. RfSame(view, view')
            BY <2>1, <1>k DEF RfSame, RfKind
        <3> QED BY <3>1, <1>k, RfSameKind
    <2>3. ASSUME ~view'.crowded PROVE RfFits(view')
        <3>1. RfFits(view)
            BY <2>2, <2>3, <1>f DEF RfSame
        <3>2. /\ view'.exchangeData = view.exchangeData
              /\ DOMAIN view'.addSiteNet = DOMAIN view.addSiteNet
              /\ view'.addSiteNet.type = view.addSiteNet.type /\ view'.addSiteNet.of = view.addSiteNet.of
              /\ view'.tempExchangeDataList = view.tempExchangeDataList /\ view'.kind = view.kind
              /\ view'.editdialog = view.editdialog /\ view'.rollSiteId = view.rollSiteId
            <4>1. DOMAIN view.addSiteNet = {"type", "partyId", "networkAccess", "status", "of"}
                BY <3>1 DEF RfFits, RfSite
            <4>2. /\ view'.exchangeData = view.exchangeData
                  /\ view'.tempExchangeDataList = view.tempExchangeDataList
                  /\ view'.kind = view.kind /\ view'.editdialog = view.editdialog
                  /\ view'.rollSiteId = view.rollSiteId
                BY <2>1, <1>k DEF RfKind
            <4>3. PICK site : site = view'.addSiteNet /\ site = [view.addSiteNet EXCEPT !.networkAccess = access]
                BY <2>1, <1>k DEF RfKind
            <4>4. /\ DOMAIN site = DOMAIN view.addSiteNet /\ site.of = view.addSiteNet.of
                  /\ site.type = view.addSiteNet.type
                BY <4>1, <4>3
            <4> QED BY <4>2, <4>3, <4>4
        <3> QED BY <3>1, <3>2 DEF RfFits, RfSite, RfTemp, RfOpen, RF!Rows
    <2> QED BY <1>0, <2>1, <2>2, <2>3, RfSteps DEF RfSame
<1>n. /\ DOMAIN RF!NoSite = {"type", "partyId", "networkAccess", "status", "of"}
      /\ RF!NoSite.type = "none" /\ RF!NoSite.of = 0
    BY DEF RF!NoSite
<1>14. CASE RF!cancelAddSiteNet
    <2>1. RF!Click(<<>>) /\ view' = [view EXCEPT !.addSiteNet = RF!NoSite]
        BY <1>14 DEF RF!cancelAddSiteNet
    <2>2. RfSame(view, view') /\ RfKind(view')
        <3>1. RfSame(view, view')
            BY <2>1, <1>k DEF RfSame, RfKind
        <3> QED BY <3>1, <1>k, RfSameKind
    <2>3. ASSUME ~view'.crowded PROVE RfFits(view')
        <3>1. RfFits(view)
            BY <2>2, <2>3, <1>f DEF RfSame
        <3>2. /\ view'.exchangeData = view.exchangeData /\ view'.addSiteNet = RF!NoSite
              /\ view'.tempExchangeDataList = view.tempExchangeDataList /\ view'.kind = view.kind
              /\ view'.editdialog = view.editdialog /\ view'.rollSiteId = view.rollSiteId
            BY <2>1, <1>k DEF RfKind
        <3> QED BY <1>n, <3>1, <3>2 DEF RfFits, RfSite, RfTemp, RfOpen, RF!Rows
    <2> QED BY <1>0, <2>1, <2>2, <2>3, RfSteps DEF RfSame
<1>15. CASE RF!toAddSiteNet
    <2> DEFINE s == view.addSiteNet
               temp == view.tempExchangeDataList[view.siteNetIndex]
               edited == RF!Row(s.partyId, s.networkAccess, RF!StatusAgainst(temp, s.networkAccess), s.of)
               new == RF!Row(s.partyId, s.networkAccess, s.status, s.of)
               added == Append(RF!Rows(view), new)
               put == RF!Put(RF!Rows(view), view.siteNetIndex, edited)
               x == [view EXCEPT !.exchangeData.partyAddBeanList = put]
               y == [view EXCEPT !.exchangeData.partyAddBeanList = added,
                                 !.tempExchangeDataList = added, !.handmade = TRUE]
    <2>1. /\ RF!Click(<<>>) /\ s.type # "none"
          /\ view' = [IF s.type = "edit" THEN x ELSE y EXCEPT !.addSiteNet = RF!NoSite]
        BY <1>15 DEF RF!toAddSiteNet, RF!SiteControls, RF!Rows
    <2>2. edited.of = s.of /\ new.of = s.of
        BY DEF RF!Row
    <2> HIDE DEF edited, new, temp
    <2>3. RfSame(view, view') /\ RfKind(view')
        <3>1. RfSame(view, view')
            BY <2>1, <1>k DEF RfSame, RfKind
        <3> QED BY <3>1, <1>k, RfSameKind
    <2>4. ASSUME ~view'.crowded PROVE RfFits(view')
        <3> DEFINE n == view.exchangeData.networkAccess
        <3>1. RfFits(view)
            BY <2>3, <2>4, <1>f DEF RfSame
        <3>2. s.of \in {0, n} /\ RfRows(RF!Rows(view), n) /\ (view.kind = "edit" => view.editdialog)
            BY <2>1, <3>1 DEF RfFits, RfSite, RfForm, RfOpen, RF!Rows
        <3>3. CASE s.type = "edit"
            <4>1. RfRows(put, n)
                BY <2>2, <3>2, RfPut
            <4>2. RfRows(view.tempExchangeDataList, n)
                BY <3>1, <3>3 DEF RfFits, RfTemp
            <4> HIDE DEF put, n
            <4>3. RfFits(x)
                BY <1>k, <3>1, <3>2, <4>1, <4>2, RfNewRows DEF n
            <4>4. /\ view'.exchangeData = x.exchangeData /\ view'.addSiteNet = RF!NoSite
                  /\ view'.tempExchangeDataList = x.tempExchangeDataList /\ view'.kind = x.kind
                  /\ view'.editdialog = x.editdialog /\ view'.rollSiteId = x.rollSiteId
                  /\ RfRows(x.tempExchangeDataList, x.exchangeData.networkAccess)
                <5>1. view' = [x EXCEPT !.addSiteNet = RF!NoSite] /\ DOMAIN x = DOMAIN view
                    BY <2>1, <3>3
                <5>2. x.tempExchangeDataList = view.tempExchangeDataList
                    OBVIOUS
                <5>3. x.exchangeData.networkAccess = n
                    BY <3>1, <1>k DEF RfKind, RfFits, RfForm, n
                <5> HIDE DEF x
                <5> QED BY <4>2, <5>1, <5>2, <5>3, <1>k DEF RfKind
            <4> HIDE DEF x
            <4> QED BY <1>n, <4>3, <4>4 DEF RfFits, RfSite, RfTemp, RfOpen, RF!Rows
        <3>4. CASE s.type # "edit"
            <4>1. RfRows(added, n)
                BY <2>2, <3>2, RfAppended
            <4> HIDE DEF added
            <4>2. DOMAIN view.exchangeData = {"networkAccess", "partyAddBeanList"} /\ n \in 0 .. 4
                BY <3>1 DEF RfFits, RfForm
            <4>3. /\ DOMAIN view'.exchangeData = {"networkAccess", "partyAddBeanList"}
                  /\ view'.exchangeData.networkAccess = n
                  /\ view'.exchangeData.partyAddBeanList = added
                  /\ view'.tempExchangeDataList = added /\ view'.addSiteNet = RF!NoSite
                  /\ view'.kind = view.kind /\ view'.editdialog = view.editdialog
                  /\ view'.rollSiteId = view.rollSiteId
                BY <2>1, <3>4, <4>2, <1>k DEF RfKind
            <4>4. RfForm(view'.exchangeData) /\ RfTemp(view')
                BY <4>1, <4>2, <4>3 DEF RfForm, RfTemp, RfRows
            <4>5. RfSite(view'.addSiteNet, n) /\ RfOpen(view')
                BY <1>n, <3>1, <3>2, <4>3 DEF RfSite, RfOpen, RfFits
            <4> QED BY <4>3, <4>4, <4>5 DEF RfFits
        <3> QED BY <3>3, <3>4
    <2> QED BY <1>0, <2>1, <2>3, <2>4, RfSteps DEF RfSame
<1> QED BY <1>1, <1>2, <1>3, <1>4, <1>5, <1>6, <1>7, <1>8, <1>9, <1>10, <1>11, <1>12, <1>13,
           <1>14, <1>15 DEF RF!Acts, RF!RollSites

\* Rows of the network picked from others, and rows replaced by those sent.
LEMMA RfPicked ==
    ASSUME NEW rows, NEW n, RfRows(rows, n), NEW places \in SUBSET DOMAIN rows
    PROVE  RfRows(RF!Picked(rows, places), n)
<1> DEFINE p == Picked(rows, places)
<1>1. p = Picked(rows, places)
    OBVIOUS
<1> HIDE DEF p
<1>2. IsQueue(p) /\ \A m \in DOMAIN p : \E k \in places : p[m] = rows[k]
    BY <1>1, PickedRows DEF RfRows
<1>3. RfRows(p, n)
    BY <1>2 DEF RfRows
<1> QED BY <1>1, <1>3, RFRows

LEMMA RfUpdated ==
    ASSUME NEW rows, NEW n, RfRows(rows, n), NEW sent, RfRows(sent, n)
    PROVE  RfRows(RF!Updated(rows, sent), n)
<1> DEFINE of(id) == sent[CHOOSE j \in DOMAIN sent : sent[j].partyId = id]
           f == [k \in DOMAIN rows |->
                    IF rows[k].partyId \in RF!Ids(sent) THEN of(rows[k].partyId) ELSE rows[k]]
           p == RF!Picked(sent, {k \in DOMAIN sent : sent[k].partyId \notin RF!Ids(rows)})
<1>1. \A id \in RF!Ids(sent) : of(id).of \in {0, n}
    BY DEF RF!Ids, RfRows
<1>2. \A k \in DOMAIN rows : f[k].of \in {0, n}
    BY <1>1 DEF RfRows
<1>3. DOMAIN f = DOMAIN rows /\ f = [k \in DOMAIN rows |-> f[k]]
    OBVIOUS
<1>4. RF!Updated(rows, sent) = f \o p
    BY DEF RF!Updated
<1> HIDE DEF f
<1>5. IsQueue(f)
    <2>1. DOMAIN rows = 1 .. Len(rows) /\ Len(rows) \in Nat
        BY QueueFacts DEF RfRows
    <2>2. DOMAIN f = 1 .. Len(rows) /\ f = [k \in 1 .. Len(rows) |-> f[k]]
        BY <1>3, <2>1
    <2> QED BY <2>1, <2>2, ListIsQueue
<1>6. RfRows(p, n)
    BY RfPicked
<1> HIDE DEF p
<1> DEFINE u == f \o p
<1>7. /\ IsQueue(u)
      /\ \A k \in DOMAIN f : k \in DOMAIN u /\ u[k] = f[k]
      /\ \A k \in DOMAIN p : Len(f) + k \in DOMAIN u /\ u[Len(f) + k] = p[k]
      /\ \A k \in DOMAIN u : k \in DOMAIN f \/ (k > Len(f) /\ k - Len(f) \in DOMAIN p)
    <2>1. IsQueue(p)
        BY <1>6 DEF RfRows
    <2>2. /\ IsQueue(f \o p) /\ Len(f \o p) = Len(f) + Len(p)
          /\ \A k \in DOMAIN f : k \in DOMAIN (f \o p) /\ (f \o p)[k] = f[k]
          /\ \A k \in DOMAIN p : Len(f) + k \in DOMAIN (f \o p) /\ (f \o p)[Len(f) + k] = p[k]
          /\ \A k \in DOMAIN (f \o p) : k \in DOMAIN f \/ (k > Len(f) /\ k - Len(f) \in DOMAIN p)
        BY <1>5, <2>1, Joined
    <2> QED BY <2>2
<1>8. Len(f) \in Nat /\ IsQueue(u) /\ DOMAIN u \subseteq Nat
    <2>1. \A s : IsQueue(s) => Len(s) \in Nat /\ DOMAIN s = 1 .. Len(s)
        BY QueueFacts
    <2>2. Len(f) \in Nat
        BY <1>5, <2>1
    <2>3. Len(u) \in Nat /\ DOMAIN u = 1 .. Len(u)
        BY <1>7, <2>1
    <2> QED BY <1>7, <2>2, <2>3
<1> HIDE DEF u
<1>9. ASSUME NEW k \in DOMAIN u PROVE u[k].of \in {0, n}
    <2>1. CASE k \in DOMAIN f
        BY <1>2, <1>3, <1>7, <2>1
    <2>2. CASE k > Len(f) /\ k - Len(f) \in DOMAIN p
        <3>1. PICK j \in DOMAIN p : j = k - Len(f)
            BY <2>2
        <3>2. Len(f) + j = k
            BY <1>8, <3>1
        <3>3. u[k] = p[j]
            BY <1>7, <3>2
        <3> QED BY <1>6, <3>3 DEF RfRows
    <2> QED BY <1>7, <2>1, <2>2
<1> QED BY <1>4, <1>8, <1>9 DEF RfRows, u

\* The rows of the network the form names come into the form.
LEMMA RfLoaded ==
    ASSUME NEW v, RfKind(v), NEW rows, NEW w, w = RF!Loaded(v, rows)
    PROVE  /\ RfSame(v, w)
           /\ RfFits(v) /\ RfRows(rows, v.exchangeData.networkAccess)
                /\ v.exchangeData.networkAccess # 0 => RfFits(w)
<1>1. /\ DOMAIN w = DOMAIN v /\ w.kind = v.kind /\ w.crowded = v.crowded /\ w.timers = v.timers
      /\ w.editdialog = v.editdialog /\ w.rollSiteId = v.rollSiteId /\ w.addSiteNet = v.addSiteNet
      /\ w.tempExchangeDataList = rows
      /\ w.exchangeData = [v.exchangeData EXCEPT !.partyAddBeanList = rows]
    BY DEF RfKind, RF!Loaded
<1>2. ASSUME RfFits(v), RfRows(rows, v.exchangeData.networkAccess), v.exchangeData.networkAccess # 0
      PROVE  RfFits(w)
    <2>1. /\ DOMAIN v.exchangeData = {"networkAccess", "partyAddBeanList"}
          /\ v.exchangeData.networkAccess \in 0 .. 4
        BY <1>2 DEF RfFits, RfForm
    <2>2. /\ DOMAIN w.exchangeData = {"networkAccess", "partyAddBeanList"}
          /\ w.exchangeData.networkAccess = v.exchangeData.networkAccess
          /\ w.exchangeData.partyAddBeanList = rows
        BY <1>1, <2>1
    <2>3. RfForm(w.exchangeData) /\ RfTemp(w)
        BY <1>1, <1>2, <2>1, <2>2 DEF RfForm, RfTemp, RfRows
    <2>4. RfSite(w.addSiteNet, w.exchangeData.networkAccess)
        BY <1>1, <1>2, <2>2 DEF RfFits
    <2>5. RfOpen(w)
        BY <1>1, <1>2, <2>2 DEF RfFits, RfOpen, RF!Rows
    <2> QED BY <2>3, <2>4, <2>5 DEF RfFits
<1> QED BY <1>1, <1>2 DEF RfSame

\* The answers the dialog handles.
LEMMA RfComes ==
    ASSUME RfInv, CallsInv(RF!Requests), NEW i \in DOMAIN calls,
           RF!QueryThen(i) \/ RF!SearchThen(i) \/ RF!CheckPartyThen(i) \/ RF!CheckPartyCatch(i)
           \/ RF!SaveThen(i) \/ RF!ListThen(i) \/ RF!NoCatch(i)
    PROVE  RfInv'
<1>k. RfKind(view)
    BY DEF RfInv
<1>c. /\ calls[i] \in Range(calls)
      /\ ~view.crowded => RfFits(view) /\ RfRoutes(server) /\ RfCall(calls[i], view)
      /\ calls[i].op = "addRollsite" => view.kind = "add"
    BY DEF RfInv, Range
<1>0. RfAsks(<<>>, view')
    BY RfAsksNone
<1>1. CASE RF!QueryThen(i)
    <2> DEFINE n == calls[i].arg
               rows == server.routes[n]
    <2>1. RF!Handled(i, <<>>) /\ view' = RF!Loaded(view, rows) /\ calls[i].op = "query" /\ n # 0
        BY <1>1 DEF RF!QueryThen, RF!Arrives, RF!NoNetwork, RF!RoutesOf
    <2>2. ~view.crowded => n = view.exchangeData.networkAccess /\ RfRows(rows, n)
        BY <1>c, <2>1 DEF RfCall, RfFits, RfForm, RfRoutes
    <2> HIDE DEF rows, n
    <2>3. RfSame(view, view') /\ RfKind(view') /\ (~view.crowded => RfFits(view'))
        BY <1>c, <1>k, <2>1, <2>2, RfLoaded, RfSameKind
    <2> QED BY <1>0, <2>1, <2>3, RfSteps DEF RfSame
<1>2. CASE RF!SearchThen(i)
    <2> DEFINE rows == RF!Searched(calls[i].arg)
    <2>1. RF!Handled(i, <<>>) /\ view' = RF!Loaded(view, rows) /\ calls[i].op = "search"
        BY <1>2 DEF RF!SearchThen, RF!Arrives
    <2>2. ASSUME ~view.crowded
          PROVE  view.exchangeData.networkAccess # 0 /\ RfRows(rows, view.exchangeData.networkAccess)
        <3>1. /\ view.exchangeData.networkAccess = calls[i].arg.rollSiteId
              /\ calls[i].arg.rollSiteId \in {1, 2}
            BY <1>c, <2>1, <2>2 DEF RfCall, RfFits, RfOpen
        <3> DEFINE n == calls[i].arg.rollSiteId
                   all == server.routes[n]
                   places == {k \in DOMAIN all : calls[i].arg.partyId \in {"", all[k].partyId}}
        <3>2. RfRows(all, n)
            BY <1>c, <2>2, <3>1 DEF RfRoutes
        <3>3. rows = RF!Picked(all, places) /\ places \in SUBSET DOMAIN all
            BY DEF RF!Searched, RF!RoutesOf
        <3> HIDE DEF rows, all, places, n
        <3>4. RfRows(rows, n)
            BY <3>2, <3>3, RfPicked
        <3> QED BY <3>1, <3>4 DEF n
    <2> HIDE DEF rows
    <2>3. RfSame(view, view') /\ RfKind(view') /\ (~view.crowded => RfFits(view'))
        BY <1>c, <1>k, <2>1, <2>2, RfLoaded, RfSameKind
    <2> QED BY <1>0, <2>1, <2>3, RfSteps DEF RfSame
<1>3. CASE RF!CheckPartyThen(i) \/ RF!CheckPartyCatch(i)
    <2>1. PICK result : RF!Handled(i, <<>>) /\ view' = [view EXCEPT !.checkResult = result]
        <3>1. PICK o \in BOOLEAN : ~o
            OBVIOUS
        <3>2. (o <=> FALSE) /\ o = FALSE
            BY <3>1
        <3> QED BY <1>3, <3>2 DEF RF!CheckPartyThen, RF!CheckPartyCatch
    <2>2. RfSame(view, view') /\ RfKind(view')
        <3>1. RfSame(view, view')
            BY <2>1, <1>k DEF RfSame, RfKind
        <3> QED BY <3>1, <1>k, RfSameKind
    <2>3. RfFits(view) => RfFits(view')
        <3>1. /\ view'.exchangeData = view.exchangeData /\ view'.addSiteNet = view.addSiteNet
              /\ view'.tempExchangeDataList = view.tempExchangeDataList /\ view'.kind = view.kind
              /\ view'.editdialog = view.editdialog /\ view'.rollSiteId = view.rollSiteId
            BY <2>1, <1>k DEF RfKind
        <3> QED BY <3>1, RfSameFits
    <2> QED BY <1>0, <1>c, <2>1, <2>2, <2>3, RfSteps DEF RfSame
<1>4. CASE RF!SaveThen(i)
    <2> DEFINE s == <<RF!Ask("list", 0)>>
    <2>1. /\ RF!Handled(i, s)
          /\ \/ calls[i].op = "update" /\ view' = RF!tocancel(view)
             \/ calls[i].op = "addRollsite" /\ view' = [view EXCEPT !.editdialog = FALSE]
        BY <1>4 DEF RF!SaveThen, RF!Got
    <2>2. RfAsks(s, view')
        <3>1. PICK arg : arg = 0
            OBVIOUS
        <3> DEFINE c == RF!Ask("list", arg)
        <3>2. "list" \in RF!Requests /\ s = <<RF!Ask("list", arg)>> /\ c = RF!Ask("list", arg)
            BY <3>1 DEF RF!Requests
        <3> HIDE DEF c, s
        <3>3. c.op = "list" /\ ~c.quiet
            BY <3>2, RfCallIs
        <3>4. RfCall(c, view')
            BY <3>3 DEF RfCall
        <3> QED BY <3>2, <3>4, RfAsksOne
    <2> HIDE DEF s
    <2>3. CASE calls[i].op = "update" /\ view' = RF!tocancel(view)
        <3>1. RfSame(view, view') /\ RfKind(view')
            BY <1>k, <2>3, RfClosed, RfSameKind
        <3>2. ~view.crowded => RfFits(view')
            BY <1>k, <1>c, <2>3, RfClosed DEF RfCall
        <3> QED BY <2>1, <2>2, <3>1, <3>2, RfSteps DEF RfSame
    <2>4. CASE calls[i].op = "addRollsite" /\ view' = [view EXCEPT !.editdialog = FALSE]
        <3>1. /\ RfSame(view, view') /\ view'.exchangeData = view.exchangeData
              /\ view'.addSiteNet = view.addSiteNet
              /\ view'.tempExchangeDataList = view.tempExchangeDataList
            BY <1>k, <2>4 DEF RfSame, RfKind
        <3>2. RfKind(view') /\ view.kind = "add"
            BY <1>k, <1>c, <2>4, <3>1, RfSameKind
        <3>3. RfFits(view) => RfFits(view')
            BY <3>1, <3>2 DEF RfSame, RfFits, RfTemp, RfOpen, RF!Rows
        <3> QED BY <1>c, <2>1, <2>2, <3>1, <3>2, <3>3, RfSteps DEF RfSame
    <2> QED BY <2>1, <2>3, <2>4
<1>5. CASE RF!ListThen(i) \/ RF!NoCatch(i)
    <2>1. RF!Handled(i, <<>>) /\ view' = view
        BY <1>5 DEF RF!ListThen, RF!NoCatch, RF!Ignores
    <2> QED BY <1>k, <1>c, <1>0, <2>1, RfSteps
<1> QED BY <1>1, <1>2, <1>3, <1>4, <1>5

LEMMA RollSitesKept ==
    ASSUME RfInv, CallsInv(RF!Requests), RF!Next
    PROVE  RfInv'
<1>c. /\ \A i \in DOMAIN calls : calls[i] \in Range(calls)
      /\ ~view.crowded => RfFits(view) /\ RfRoutes(server)
      /\ ~view.crowded => \A i \in DOMAIN calls : RfCall(calls[i], view)
    BY DEF RfInv, Range
<1>d. DOMAIN server = {"routes", "added"}
    BY DEF RfInv
<1>1. ASSUME NEW i \in DOMAIN calls, NEW n, NEW rows, NEW added, RF!Reply(i, RF!Ok(0)),
             ~view.crowded => n \in 1 .. 4 /\ RfRows(rows, n),
             server' = [server EXCEPT !.routes[n] = rows]
             \/ server' = [server EXCEPT !.added = added, !.routes[n] = rows]
      PROVE  RfInv'
    <2>1. PICK d : d = 0
        OBVIOUS
    <2> DEFINE a == Ok(d)
    <2>2. Reply(i, a) /\ a.code \in Codes
        BY <1>1, <2>1, RFIsPage, AnswersHaveCodes
    <2> HIDE DEF a
    <2>3. calls' = Answered(calls, i, a) /\ UNCHANGED <<view, busy>>
        BY <2>2, ReplyIsAnswered
    <2>4. /\ DOMAIN server' = {"routes", "added"}
          /\ server'.routes = [server.routes EXCEPT ![n] = rows]
        BY <1>1, <1>d
    <2>5. ~view.crowded => RfRoutes(server')
        BY <1>1, <1>c, <2>4 DEF RfRoutes
    <2> QED BY <2>2, <2>3, <2>4, <2>5, RfAnswers
<1>2. ASSUME NEW i \in DOMAIN calls, RF!Reply(i, RF!Refused), server' = server
      PROVE  RfInv'
    <2>1. Reply(i, Refused) /\ Refused.code \in Codes
        BY <1>2, RFIsPage, AnswersHaveCodes
    <2>2. calls' = Answered(calls, i, Refused) /\ UNCHANGED <<view, busy>>
        BY <2>1, ReplyIsAnswered
    <2> QED BY <1>2, <1>c, <1>d, <2>1, <2>2, RfAnswers
<1>3. ASSUME NEW i \in DOMAIN calls, RF!Fail(i)
      PROVE  RfInv'
    <2>1. FailedWith(i, Failed) /\ Failed.code \in Codes
        BY <1>3, RFIsPage, AnswersHaveCodes
    <2>2. calls' = Answered(calls, i, Failed) /\ UNCHANGED <<view, busy, server>>
        BY <2>1 DEF FailedWith
    <2> QED BY <1>c, <1>d, <2>1, <2>2, RfAnswers
<1>4. ASSUME NEW i \in DOMAIN calls, RF!ServeSave(i)
      PROVE  RfInv'
    <2> DEFINE data == calls[i].arg
    <2>1. CASE RF!Reply(i, RF!Refused) /\ UNCHANGED server
        BY <1>2, <2>1
    <2>2. CASE calls[i].op = "addRollsite" /\ RF!Reply(i, RF!Ok(0))
               /\ server' = [server EXCEPT !.added = @ \cup {data.networkAccess},
                                           !.routes[data.networkAccess] = data.partyAddBeanList]
        <3>1. PICK n, rows, added : /\ n = data.networkAccess /\ rows = data.partyAddBeanList
                                    /\ added = server.added \cup {data.networkAccess}
            OBVIOUS
        <3>2. server' = [server EXCEPT !.added = added, !.routes[n] = rows]
            BY <2>2, <3>1
        <3>3. ~view.crowded => n \in 1 .. 4 /\ RfRows(rows, n)
            BY <1>c, <2>2, <3>1 DEF RfCall
        <3> QED BY <1>1, <2>2, <3>2, <3>3
    <2>3. CASE calls[i].op = "update" /\ RF!Reply(i, RF!Ok(0))
               /\ server' = [server EXCEPT !.routes[data.rollSiteId] =
                                RF!Updated(server.routes[data.rollSiteId], data.rows)]
        <3>1. PICK n, rows : n = data.rollSiteId /\ rows = RF!Updated(server.routes[n], data.rows)
            OBVIOUS
        <3>2. server' = [server EXCEPT !.routes[n] = rows]
            BY <2>3, <3>1
        <3>3. ASSUME ~view.crowded PROVE n \in 1 .. 4 /\ RfRows(rows, n)
            <4>1. RfRows(data.rows, n) /\ n \in {1, 2}
                BY <1>c, <2>3, <3>1, <3>3 DEF RfCall, RfFits, RfOpen
            <4>2. RfRows(server.routes[n], n)
                BY <1>c, <3>3, <4>1 DEF RfRoutes
            <4> QED BY <3>1, <4>1, <4>2, RfUpdated
        <3> QED BY <1>1, <2>3, <3>2, <3>3
    <2> QED BY <1>4, <2>1, <2>2, <2>3 DEF RF!ServeSave
<1>5. ASSUME NEW i \in DOMAIN calls, RF!ServeNothing(i)
      PROVE  RfInv'
    BY <1>2, <1>5 DEF RF!ServeNothing
<1> QED BY <1>3, <1>4, <1>5, RfActs, RfComes DEF RF!Next

LEMMA RollSitesStart ==
    ASSUME RF!Init
    PROVE  CallsInv(RF!Requests) /\ OverlayHasCall /\ RfInv
<1>1. Created(<<>>)
    BY RFIsPage DEF RF!Init
<1>2. CallsInv(RF!Requests) /\ OverlayHasCall /\ calls = <<>>
    BY <1>1, NoneAreCalls, CreatedHasCalls DEF Created
<1>3. IsQueue(<<>>) /\ DOMAIN <<>> = {} /\ Len(<<>>) = 0 /\ Range(calls) = {}
    BY <1>2, NoneAreCalls, SetOfFew DEF AreCalls
<1>n. \A n : RfRows(<<>>, n)
    BY <1>3 DEF RfRows
<1>4. /\ DOMAIN RF!NoForm = {"networkAccess", "partyAddBeanList"}
      /\ RF!NoForm.networkAccess = 0 /\ RF!NoForm.partyAddBeanList = <<>>
      /\ DOMAIN RF!NoSite = {"type", "partyId", "networkAccess", "status", "of"}
      /\ RF!NoSite.type = "none" /\ RF!NoSite.of = 0
    BY DEF RF!NoForm, RF!NoNetwork, RF!NoSite
<1>5. /\ RfKind(view) /\ ~view.editdialog /\ view.exchangeData = RF!NoForm
      /\ view.addSiteNet = RF!NoSite /\ view.tempExchangeDataList = <<>>
    <2>1. PICK kind \in {"add", "edit"} :
        view = [kind |-> kind, editdialog |-> FALSE, exchangeData |-> RF!NoForm, timers |-> 0,
                rollSiteId |-> 0, searched |-> "", siteNetIndex |-> 1, tempPartyId |-> "",
                tempExchangeDataList |-> <<>>, addSiteNet |-> RF!NoSite, checkResult |-> FALSE,
                loaded |-> <<>>, handmade |-> FALSE, crowded |-> FALSE]
        BY DEF RF!Init
    <2> QED BY <2>1 DEF RfKind
<1>6. RfFits(view)
    BY <1>n, <1>3, <1>4, <1>5 DEF RfFits, RfForm, RfSite, RfTemp, RfOpen, RF!Rows
<1>7. DOMAIN server = {"routes", "added"} /\ RfRoutes(server)
    <2> DEFINE a(n) == RF!Row("default", "x", RF!Published, n)
               b(n) == RF!Row("p1", "x", RF!Published, n)
               c(n) == RF!Row("p2", "y", RF!Unpublished, n)
               d(n) == RF!Row("p3", "x", RF!Published, n)
               e(n) == RF!Row("default", "x", RF!Unpublished, n)
               routes(n) == CASE n = 1 -> <<a(n), b(n), c(n)>> [] n = 2 -> <<d(n)>> [] OTHER -> <<e(n)>>
    <2>1. server = [routes |-> [n \in 1 .. 4 |-> routes(n)], added |-> {}]
        BY DEF RF!Init, RF!Networks
    <2>2. \A n : a(n).of = n /\ b(n).of = n /\ c(n).of = n /\ d(n).of = n /\ e(n).of = n
        BY DEF RF!Row
    <2> HIDE DEF a, b, c, d, e
    <2>3. \A n : routes(n) \in {<<a(n), b(n), c(n)>>, <<d(n)>>, <<e(n)>>}
        OBVIOUS
    <2> HIDE DEF routes
    <2>4. \A n, x : x.of = n => RfRows(<<x>>, n)
        <3> SUFFICES ASSUME NEW n, NEW x, x.of = n PROVE RfRows(<<x>>, n)
            OBVIOUS
        <3> DEFINE s == <<x>>
        <3>1. s \in Seq({x}) /\ DOMAIN s = {1} /\ s[1] = x
            OBVIOUS
        <3> HIDE DEF s
        <3>2. RfRows(s, n)
            BY <3>1, QueueOfSome DEF RfRows
        <3> QED BY <3>2 DEF s
    <2>5. \A n, x, y, z : x.of = n /\ y.of = n /\ z.of = n => RfRows(<<x, y, z>>, n)
        <3> SUFFICES ASSUME NEW n, NEW x, x.of = n, NEW y, y.of = n, NEW z, z.of = n
                     PROVE RfRows(<<x, y, z>>, n)
            OBVIOUS
        <3> DEFINE s == <<x, y, z>>
        <3>1. /\ s \in Seq({x, y, z}) /\ DOMAIN s = {1, 2, 3}
              /\ s[1] = x /\ s[2] = y /\ s[3] = z
            OBVIOUS
        <3> HIDE DEF s
        <3>2. RfRows(s, n)
            BY <3>1, QueueOfSome DEF RfRows
        <3> QED BY <3>2 DEF s
    <2>6. \A n : RfRows(routes(n), n)
        BY <2>2, <2>3, <2>4, <2>5
    <2> QED BY <2>1, <2>6 DEF RfRoutes
<1>8. ~busy /\ RfAlone(calls, busy)
    BY <1>1, <1>2, <1>3 DEF Created, Loud, RfAlone
<1> QED BY <1>2, <1>3, <1>5, <1>6, <1>7, <1>8 DEF RfInv

LEMMA RollSitesSend ==
    ASSUME RfInv
    PROVE  RF!UpdateIsOfRollSite /\ RF!AddedIsOfNetwork
<1>1. \A i \in DOMAIN calls : calls[i] \in Range(calls)
    BY DEF Range
<1>2. ~view.crowded => \A i \in DOMAIN calls : RfCall(calls[i], view)
    BY <1>1 DEF RfInv
<1>3. RF!UpdateIsOfRollSite
    BY <1>2 DEF RF!UpdateIsOfRollSite, RfCall, RfRows
<1>4. ASSUME NEW i \in DOMAIN calls, calls[i].op = "addRollsite"
      PROVE  ~view.crowded
    BY <1>1, <1>4 DEF RfInv, RfKind
<1>5. RF!AddedIsOfNetwork
    BY <1>2, <1>4 DEF RF!AddedIsOfNetwork, RfCall, RfRows
<1> QED BY <1>3, <1>5
-----------------------------------------------------------------------------
(* The exchanges.                                                          *)

\* The page, the manager's exchanges, and the lists on their way.
ExView(v) ==
    /\ DOMAIN v = {"page", "pageNum", "exchangeList", "total", "activeName", "isAllFold",
                   "timers", "table", "dialog"}
    /\ IsQueue(v.exchangeList) /\ v.total \in Nat /\ v.pageNum \in Nat \ {0}
    /\ v.dialog.name \in {"none", "show", "edit", "delete", "publish", "deleteExchange"}
ExCall(e) ==
    e.op = "list" =>
        /\ e.arg \in Nat \ {0}
        /\ e.answer.code = "ok" =>
             IsQueue(e.answer.data.list) /\ e.answer.data.totalRecord \in Nat
ExInv == ExView(view) /\ IsQueue(server) /\ \A e \in Range(calls) : ExCall(e)

\* The tables of a list ask together.
LEMMA AllTablesAsk ==
    ASSUME NEW v, IsQueue(v.exchangeList)
    PROVE  AreCalls([k \in DOMAIN v.exchangeList |-> EX!togetRollsiteList(v, k)], EX!Requests)
<1> DEFINE n == Len(v.exchangeList)
           f == [k \in DOMAIN v.exchangeList |-> EX!togetRollsiteList(v, k)]
<1>1. n \in Nat /\ DOMAIN v.exchangeList = 1 .. n
    BY QueueFacts
<1>2. \A k \in 1 .. n : \E part, arg : f[k] = EX!AskFrom(part, "rollsites", arg)
    BY <1>1 DEF EX!togetRollsiteList
<1>3. DOMAIN f = 1 .. n /\ f = [k \in 1 .. n |-> f[k]]
    BY <1>1
<1> HIDE DEF f, n
<1>4. \A k \in 1 .. n : IsCall(f[k], EX!Requests)
    <2> SUFFICES ASSUME NEW k \in 1 .. n PROVE IsCall(f[k], EX!Requests)
        OBVIOUS
    <2>1. PICK part, arg : f[k] = AskFrom(part, "rollsites", arg)
        BY <1>2, EXIsPage
    <2>2. "rollsites" \in EX!Requests
        BY DEF EX!Requests
    <2> QED BY <2>1, <2>2, AskedCall
<1>5. AreCalls(f, EX!Requests)
    BY <1>1, <1>3, <1>4, ManyAreCalls
<1> QED BY <1>5 DEF f

LEMMA ExchangesMove ==
    ASSUME ExInv, EX!Next
    PROVE  Moves(EX!Requests)
<1>1. ASSUME NEW x, EX!toDeleteExchangeId(x) \/ EX!Collapse(x) \/ EX!handleCurrentChange(x)
                    \/ \E p : EX!TablePage(x, p) \/ EX!OpenDialog(x, p)
      PROVE  Moves(EX!Requests)
    BY <1>1, EXMoves
       DEF EX!toDeleteExchangeId, EX!Collapse, EX!handleCurrentChange, EX!TablePage,
           EX!OpenDialog, EX!initList, EX!togetRollsiteList, EX!Requests
<1>2. CASE EX!toFold \/ EX!Back \/ EX!CloseDialog
    BY <1>2, EXMoves DEF EX!toFold, EX!Back, EX!CloseDialog, EX!initList, EX!Requests
<1>3. CASE EX!Confirm
    <2>1. PICK op, arg : op \in EX!Requests /\ EX!Click(<<EX!Ask(op, arg)>>)
        BY <1>3 DEF EX!Confirm, EX!Requests, ExInv, ExView
    <2> QED BY <2>1, EXMoves
<1>4. CASE EX!toAddExchange
    BY <1>4, EXMoves DEF EX!toAddExchange, EX!UserActs, Moves, Carries
<1>5. CASE EX!TablesTimer
    BY <1>5, AllTablesAsk, EXMoves DEF EX!TablesTimer, ExInv, ExView
<1>6. ASSUME NEW i \in DOMAIN calls, EX!ServeChange(i) \/ EX!ServeQuestion(i) \/ EX!Fail(i)
      PROVE  Moves(EX!Requests)
    BY <1>6, EXMoves DEF EX!ServeChange, EX!ServeQuestion
<1>7. ASSUME NEW i \in DOMAIN calls,
             EX!ListThen(i) \/ EX!RollsitesThen(i) \/ EX!ChangedThen(i) \/ EX!Ignores(i)
      PROVE  Moves(EX!Requests)
    BY <1>7, EXMoves
       DEF EX!ListThen, EX!RollsitesThen, EX!ChangedThen, EX!Ignores, EX!initList, EX!Requests
<1> QED BY <1>1, <1>2, <1>3, <1>4, <1>5, <1>6, <1>7 DEF EX!Next, EX!Acts

LEMMA ExAsksList ==
    ASSUME NEW v, v.pageNum \in Nat \ {0}, NEW s, s = EX!initList(v)
    PROVE  /\ AreCalls(s, EX!Requests)
           /\ \A e \in Range(s) : e.op = "list" /\ ExCall(e)
<1> DEFINE c == EX!Ask("list", v.pageNum)
<1>1. s = <<c>> /\ c = Ask("list", v.pageNum)
    BY EXIsPage DEF EX!initList
<1>2. c.op = "list" /\ c.arg = v.pageNum /\ c.answer.code = "waiting"
    BY <1>1 DEF Ask, Call, Waiting
<1>3. AreCalls(s, EX!Requests)
    BY EXMoves DEF EX!initList, EX!Requests
<1> HIDE DEF c
<1>4. Range(s) = {c}
    BY <1>1, SetOfFew
<1>5. ExCall(c)
    BY <1>2 DEF ExCall
<1> QED BY <1>2, <1>3, <1>4, <1>5

LEMMA ExAsksRows ==
    ASSUME NEW v, NEW k, NEW s, s = <<EX!togetRollsiteList(v, k)>>
    PROVE  /\ AreCalls(s, EX!Requests)
           /\ \A e \in Range(s) : ExCall(e)
<1> DEFINE c == EX!togetRollsiteList(v, k)
<1>1. c.op = "rollsites"
    BY EXIsPage DEF EX!togetRollsiteList, AskFrom, Call
<1>2. AreCalls(s, EX!Requests)
    BY EXMoves DEF EX!togetRollsiteList, EX!Requests
<1> HIDE DEF c
<1>3. Range(s) = {c}
    BY SetOfFew DEF c
<1>4. ExCall(c)
    BY <1>1 DEF ExCall
<1> QED BY <1>2, <1>3, <1>4

LEMMA ExConfirms ==
    ASSUME NEW op, op \in EX!Requests, op # "list", NEW arg, NEW s, s = <<EX!Ask(op, arg)>>
    PROVE  /\ AreCalls(s, EX!Requests)
           /\ \A e \in Range(s) : ExCall(e)
<1> DEFINE c == EX!Ask(op, arg)
<1>1. c.op = op
    BY EXIsPage DEF Ask, Call
<1>2. AreCalls(s, EX!Requests)
    BY EXMoves
<1> HIDE DEF c
<1>3. Range(s) = {c}
    BY SetOfFew DEF c
<1>4. ExCall(c)
    BY <1>1 DEF ExCall
<1> QED BY <1>2, <1>3, <1>4

LEMMA ExSendsKeep ==
    ASSUME ExInv, CallsInv(EX!Requests), NEW asked, AreCalls(asked, EX!Requests),
           EX!Sends(asked) \/ \E i \in DOMAIN calls : EX!Handled(i, asked),
           \A e \in Range(asked) : ExCall(e), ExView(view')
    PROVE  ExInv'
<1>1. /\ Range(calls') \subseteq Range(calls) \cup Range(asked)
      /\ server' = server
    <2>1. CASE EX!Sends(asked)
        <3>1. calls' = calls \o asked /\ server' = server
            BY <2>1, EXIsPage DEF Sends
        <3> QED BY <3>1, SetOfCalls DEF CallsInv
    <2>2. CASE \E i \in DOMAIN calls : EX!Handled(i, asked)
        BY <2>2, EXIsPage, HandledSet DEF CallsInv
    <2> QED BY <2>1, <2>2
<1> QED BY <1>1 DEF ExInv

LEMMA ExAnswersKeep ==
    ASSUME ExInv, CallsInv(EX!Requests), NEW i \in DOMAIN calls, NEW a, a.code \in Codes,
           calls' = Answered(calls, i, a), IsQueue(server'), UNCHANGED view,
           (calls[i].op = "list" /\ a.code = "ok") =>
              IsQueue(a.data.list) /\ a.data.totalRecord \in Nat
    PROVE  ExInv'
<1>1. /\ \A e \in Range(calls') :
           \/ e \in Range(calls)
           \/ /\ e.op = calls[i].op /\ e.arg = calls[i].arg
              /\ e.answer = a
      /\ calls[i] \in Range(calls)
    BY AnsweredSet DEF CallsInv
<1>2. \A e \in Range(calls') : ExCall(e)
    BY <1>1 DEF ExInv, ExCall
<1> QED BY <1>2 DEF ExInv

\* The answer to a list: a page of the exchanges.
LEMMA ExListAnswer ==
    ASSUME IsQueue(server), NEW page \in Nat \ {0}, NEW d, d = EX!ExchangesOf(page)
    PROVE  IsQueue(d.list) /\ d.totalRecord \in Nat
<1> DEFINE c == Chunk(server, 2, page)
<1>1. IsQueue(c)
    BY ChunkOfRows
<1> HIDE DEF c
<1>2. /\ d.list = [k \in DOMAIN c |-> c[k].exchangeId] /\ d.totalRecord = Len(server)
    BY EXRows DEF EX!ExchangesOf, EX!ListSize, c
<1>3. Len(c) \in Nat /\ DOMAIN c = 1 .. Len(c) /\ Len(server) \in Nat
    BY <1>1, QueueFacts
<1> DEFINE f == d.list
           n == Len(c)
<1>4. n \in Nat /\ DOMAIN f = 1 .. n /\ f = [k \in 1 .. n |-> f[k]]
    BY <1>2, <1>3
<1> HIDE DEF f, n
<1>5. IsQueue(f)
    BY <1>4, ListIsQueue
<1> QED BY <1>2, <1>3, <1>5 DEF f

LEMMA ExchangesKept ==
    ASSUME ExInv, CallsInv(EX!Requests), EX!Next
    PROVE  ExInv'
<1>0. /\ \A asked : EX!Click(asked) => EX!Sends(asked)
      /\ AreCalls(<<>>, EX!Requests) /\ \A e \in Range(<<>>) : ExCall(e)
    BY NoneAreCalls, SetOfFew DEF EX!Click
<1>v. ExView(view)
    BY DEF ExInv
<1>1. ASSUME NEW x, EX!toDeleteExchangeId(x) \/ EX!Collapse(x)
      PROVE  ExInv'
    <2>1. EX!Sends(<<>>)
        BY <1>0, <1>1 DEF EX!toDeleteExchangeId, EX!Collapse
    <2>2. ExView(view')
        BY <1>1, <1>v DEF EX!toDeleteExchangeId, EX!Collapse, ExView, EX!NoDialog
    <2> QED BY <1>0, <2>1, <2>2, ExSendsKeep
<1>2. ASSUME NEW p \in EX!PagesOf(view.total, EX!ListSize), EX!handleCurrentChange(p)
      PROVE  ExInv'
    <2>1. p \in Nat \ {0}
        BY <1>v DEF ExView, EX!PagesOf, EX!ListSize
    <2>2. ExView(view')
        BY <1>2, <1>v, <2>1 DEF EX!handleCurrentChange, ExView
    <2>3. EX!Sends(EX!initList(view'))
        BY <1>0, <1>2 DEF EX!handleCurrentChange
    <2>4. view'.pageNum \in Nat \ {0}
        BY <2>2 DEF ExView
    <2> DEFINE s == EX!initList(view')
    <2>5. AreCalls(s, EX!Requests) /\ \A e \in Range(s) : ExCall(e)
        BY <2>4, ExAsksList
    <2> HIDE DEF s
    <2>6. EX!Sends(s)
        BY <2>3 DEF s
    <2> QED BY <2>2, <2>5, <2>6, ExSendsKeep
<1>3. ASSUME NEW x, NEW p, EX!TablePage(x, p)
      PROVE  ExInv'
    <2> DEFINE s == <<EX!togetRollsiteList(view', x)>>
    <2>1. EX!Sends(s)
        BY <1>0, <1>3 DEF EX!TablePage
    <2>2. AreCalls(s, EX!Requests) /\ \A e \in Range(s) : ExCall(e)
        BY ExAsksRows
    <2>3. ExView(view')
        BY <1>3, <1>v DEF EX!TablePage, ExView
    <2> HIDE DEF s
    <2> QED BY <2>1, <2>2, <2>3, ExSendsKeep
<1>4. ASSUME NEW control \in {"edit", "delete", "show", "publish"}, NEW row, EX!OpenDialog(row, control)
      PROVE  ExInv'
    <2>1. EX!Sends(<<>>)
        BY <1>0, <1>4 DEF EX!OpenDialog
    <2>2. view' = [view EXCEPT !.dialog = [name |-> control, place |-> row.place, id |-> row.id]]
        BY <1>4 DEF EX!OpenDialog
    <2>3. ExView(view')
        BY <2>2, <1>v DEF ExView
    <2> QED BY <1>0, <2>1, <2>3, ExSendsKeep
<1>5. CASE EX!toFold \/ EX!CloseDialog
    <2>1. EX!Sends(<<>>)
        BY <1>0, <1>5 DEF EX!toFold, EX!CloseDialog
    <2>2. ExView(view')
        <3>1. CASE EX!toFold
            <4>1. /\ DOMAIN view' = DOMAIN view /\ view'.exchangeList = view.exchangeList
                  /\ view'.total = view.total /\ view'.pageNum = view.pageNum
                  /\ view'.dialog = view.dialog
                BY <3>1, <1>v DEF EX!toFold, ExView
            <4> QED BY <4>1, <1>v DEF ExView
        <3>2. CASE EX!CloseDialog
            BY <3>2, <1>v DEF EX!CloseDialog, ExView, EX!NoDialog
        <3> QED BY <1>5, <3>1, <3>2
    <2> QED BY <1>0, <2>1, <2>2, ExSendsKeep
<1>6. CASE EX!toAddExchange
    <2>1. view' = EX!Entered("ipaddexchange") /\ calls' = <<>> /\ server' = server
        BY <1>6 DEF EX!toAddExchange
    <2>2. ExView(EX!Entered("ipaddexchange"))
        BY NoneAreCalls DEF ExView, EX!Entered, EX!NoDialog, AreCalls
    <2> QED BY <1>0, <2>1, <2>2 DEF ExInv
<1>7. CASE EX!Back
    <2> DEFINE v == EX!Entered("ipexchange")
               s == EX!initList(v)
    <2>1. EX!Sends(s) /\ view' = v
        BY <1>0, <1>7 DEF EX!Back
    <2>2. ExView(v)
        BY NoneAreCalls DEF ExView, EX!Entered, EX!NoDialog, AreCalls
    <2> HIDE DEF v
    <2>3. AreCalls(s, EX!Requests) /\ \A e \in Range(s) : ExCall(e)
        BY <2>2, ExAsksList DEF ExView
    <2> HIDE DEF s
    <2> QED BY <2>1, <2>2, <2>3, ExSendsKeep
<1>8. CASE EX!Confirm
    <2>1. PICK op, arg : op \in EX!Requests /\ op # "list" /\ EX!Click(<<EX!Ask(op, arg)>>)
        BY <1>8, <1>v DEF EX!Confirm, EX!Requests, ExView
    <2> DEFINE s == <<EX!Ask(op, arg)>>
    <2>2. EX!Sends(s) /\ view' = view
        BY <1>0, <1>8, <2>1 DEF EX!Confirm
    <2>3. AreCalls(s, EX!Requests) /\ \A e \in Range(s) : ExCall(e)
        BY <2>1, ExConfirms
    <2> HIDE DEF s
    <2> QED BY <1>v, <2>2, <2>3, ExSendsKeep
<1>9. CASE EX!TablesTimer
    <2> DEFINE s == [k \in DOMAIN view.exchangeList |-> EX!togetRollsiteList(view, k)]
    <2>1. EX!Sends(s) /\ view' = [view EXCEPT !.timers = view.timers - 1]
        BY <1>9 DEF EX!TablesTimer
    <2>2. AreCalls(s, EX!Requests)
        BY <1>v, AllTablesAsk DEF ExView
    <2>3. \A e \in Range(s) : ExCall(e)
        <3>1. \A k \in DOMAIN view.exchangeList : s[k] = EX!togetRollsiteList(view, k)
            OBVIOUS
        <3>2. \A k : EX!togetRollsiteList(view, k).op = "rollsites"
            BY EXIsPage DEF EX!togetRollsiteList, AskFrom, Call
        <3> QED BY <3>1, <3>2 DEF Range, ExCall
    <2>4. ExView(view')
        BY <1>v, <2>1 DEF ExView
    <2> HIDE DEF s
    <2> QED BY <2>1, <2>2, <2>3, <2>4, ExSendsKeep
<1>10. ASSUME NEW i \in DOMAIN calls, EX!ServeChange(i)
       PROVE  ExInv'
    <2>1. EX!Reply(i, EX!Ok(0)) /\ calls[i].op # "list"
        BY <1>10 DEF EX!ServeChange
    <2>2. calls' = Answered(calls, i, Ok(0)) /\ UNCHANGED view /\ Ok(0).code \in Codes
        BY <2>1, EXIsPage, ReplyIsAnswered, AnswersHaveCodes
    <2>3. IsQueue(server')
        <3>1. Len(server) \in Nat /\ DOMAIN server = 1 .. Len(server) /\ IsQueue(server)
            BY QueueFacts DEF ExInv
        <3>2. CASE calls[i].op = "deleteExchange"
            <4> DEFINE places == {k \in DOMAIN server : server[k].exchangeId # calls[i].arg}
            <4>1. server' = Picked(server, places)
                BY <1>10, <3>2, EXRows DEF EX!ServeChange
            <4>2. places \in SUBSET DOMAIN server
                OBVIOUS
            <4> HIDE DEF places
            <4> QED BY <3>1, <4>1, <4>2, PickedRows
        <3>3. CASE calls[i].op # "deleteExchange"
            <4> DEFINE n == Len(server)
                       f == server'
            <4>1. DOMAIN f = 1 .. n /\ f = [k \in 1 .. n |-> f[k]] /\ n \in Nat
                <5>1. \E G : server' = [k \in DOMAIN server |-> G[k]]
                    BY <1>10, <3>3 DEF EX!ServeChange, EX!Change
                <5> QED BY <3>1, <5>1
            <4> HIDE DEF f, n
            <4>2. IsQueue(f)
                BY <4>1, ListIsQueue
            <4> QED BY <4>2 DEF f
        <3> QED BY <3>2, <3>3
    <2> DEFINE a == Ok(0)
    <2> HIDE DEF a
    <2>4. calls' = Answered(calls, i, a) /\ a.code \in Codes
        BY <2>2 DEF a
    <2> QED BY <2>1, <2>2, <2>3, <2>4, ExAnswersKeep
<1>11. ASSUME NEW i \in DOMAIN calls, EX!ServeQuestion(i)
       PROVE  ExInv'
    <2>1. PICK d : /\ EX!Reply(i, EX!Ok(d)) /\ server' = server
                   /\ calls[i].op = "list" => d = EX!ExchangesOf(calls[i].arg)
        BY <1>11 DEF EX!ServeQuestion
    <2> DEFINE a == Ok(d)
    <2>2. calls' = Answered(calls, i, a) /\ UNCHANGED view /\ a.code \in Codes /\ a.data = d
        BY <2>1, EXIsPage, ReplyIsAnswered, AnswersHaveCodes DEF Ok
    <2>3. calls[i].op = "list" => IsQueue(d.list) /\ d.totalRecord \in Nat
        <3>1. calls[i] \in Range(calls)
            BY DEF Range
        <3>2. ASSUME calls[i].op = "list"
              PROVE  calls[i].arg \in Nat \ {0} /\ IsQueue(server)
            BY <3>1, <3>2 DEF ExInv, ExCall
        <3> QED BY <2>1, <3>2, ExListAnswer
    <2> HIDE DEF a
    <2>4. IsQueue(server')
        BY <2>1 DEF ExInv
    <2> QED BY <2>2, <2>3, <2>4, ExAnswersKeep
<1>12. ASSUME NEW i \in DOMAIN calls, EX!Fail(i)
       PROVE  ExInv'
    <2> DEFINE a == Failed
    <2>1. calls' = Answered(calls, i, a) /\ UNCHANGED view /\ server' = server
        BY <1>12, EXIsPage DEF FailedWith
    <2>2. a.code \in Codes /\ a.code # "ok"
        BY DEF Failed, Codes
    <2> HIDE DEF a
    <2>3. IsQueue(server')
        BY <2>1 DEF ExInv
    <2> QED BY <2>1, <2>2, <2>3, ExAnswersKeep
<1>13. ASSUME NEW i \in DOMAIN calls, EX!ListThen(i)
       PROVE  ExInv'
    <2>1. EX!Handled(i, <<>>) /\ calls[i].op = "list" /\ calls[i].answer.code = "ok"
        BY <1>13 DEF EX!ListThen, EX!Got
    <2>2. IsQueue(calls[i].answer.data.list) /\ calls[i].answer.data.totalRecord \in Nat
        BY <2>1 DEF ExInv, ExCall, Range
    <2>3. /\ DOMAIN view' = DOMAIN view /\ view'.exchangeList = calls[i].answer.data.list
          /\ view'.total = calls[i].answer.data.totalRecord /\ view'.pageNum = view.pageNum
          /\ view'.dialog = view.dialog
        BY <1>13, <1>v DEF EX!ListThen, EX!Data, ExView
    <2>4. ExView(view')
        BY <1>v, <2>2, <2>3 DEF ExView
    <2> QED BY <1>0, <2>1, <2>4, ExSendsKeep
<1>14. ASSUME NEW i \in DOMAIN calls, EX!RollsitesThen(i) \/ EX!Ignores(i)
       PROVE  ExInv'
    <2>1. EX!Handled(i, <<>>)
        BY <1>14 DEF EX!RollsitesThen, EX!Ignores
    <2>2. ExView(view')
        BY <1>14, <1>v DEF EX!RollsitesThen, EX!Ignores, ExView
    <2> QED BY <1>0, <2>1, <2>2, ExSendsKeep
<1>15. ASSUME NEW i \in DOMAIN calls, EX!ChangedThen(i)
       PROVE  ExInv'
    <2> DEFINE s == EX!initList(view)
    <2>1. EX!Handled(i, s) /\ ExView(view')
        BY <1>15, <1>v DEF EX!ChangedThen, ExView, EX!NoDialog
    <2>2. AreCalls(s, EX!Requests) /\ \A e \in Range(s) : ExCall(e)
        BY <1>v, ExAsksList DEF ExView
    <2> HIDE DEF s
    <2> QED BY <2>1, <2>2, ExSendsKeep
<1> QED BY <1>1, <1>2, <1>3, <1>4, <1>5, <1>6, <1>7, <1>8, <1>9, <1>10, <1>11, <1>12, <1>13,
           <1>14, <1>15 DEF EX!Next, EX!Acts

LEMMA ExchangesStart ==
    ASSUME EX!Init
    PROVE  CallsInv(EX!Requests) /\ OverlayHasCall /\ ExInv
<1> DEFINE s == EX!initList(view)
<1>1. view = EX!Entered("ipexchange") /\ EX!Created(s)
    BY DEF EX!Init
<1>2. ExView(view)
    BY <1>1, NoneAreCalls DEF ExView, EX!Entered, EX!NoDialog, AreCalls
<1>3. AreCalls(s, EX!Requests) /\ \A e \in Range(s) : ExCall(e)
    BY <1>2, ExAsksList DEF ExView
<1>4. IsQueue(server)
    <2> DEFINE a == [exchangeId |-> 1, rollSites |-> <<EX!RollSite(11, <<EX!Published, EX!Published>>),
                                                      EX!RollSite(12, <<EX!Unpublished, EX!Deleted>>)>>]
               b == [exchangeId |-> 2, rollSites |-> <<EX!RollSite(21, <<EX!Published>>)>>]
               c == [exchangeId |-> 3, rollSites |-> <<EX!RollSite(31, <<EX!Unpublished>>)>>]
    <2>1. server = <<a, b, c>>
        BY DEF EX!Init
    <2> HIDE DEF a, b, c
    <2>2. <<a, b, c>> \in Seq({a, b, c})
        OBVIOUS
    <2> QED BY <2>1, <2>2, QueueOfSome
<1> HIDE DEF s
<1>5. Created(s) /\ calls = s
    BY <1>1, EXIsPage DEF Created
<1> QED BY <1>2, <1>3, <1>4, <1>5, CreatedHasCalls DEF ExInv
-----------------------------------------------------------------------------
(* The page that adds an exchange.                                         *)

LEMMA ExchangeFormMoves ==
    ASSUME EF!Next
    PROVE  Moves(EF!Requests)
<1>1. CASE EF!Acts
    <2>1. ASSUME NEW v, EF!Route(v)
          PROVE  Moves(EF!Requests)
        <3>1. /\ ~busy /\ busy' = busy /\ steps' = steps + 1 /\ mishaps' = mishaps
              /\ calls' = <<>> \/ calls' = calls
            BY <2>1 DEF EF!Route, EF!UserActs
        <3> QED BY <3>1, NoneAreCalls DEF Moves, Carries
    <2>2. CASE EF!Leave \/ EF!sureLeave
        BY <2>1, <2>2 DEF EF!Leave, EF!sureLeave
    <2>3. ASSUME NEW k,
             \/ \E n \in EF!Networks : EF!EnterNetwork(k, n)
             \/ EF!EnterExit(k) \/ EF!removeRollsite(k) \/ EF!toAcquire(k) \/ EF!showAddSiteNet(k)
             \/ \E j : EF!toEditSiteNet(k, j) \/ EF!DeleteSiteNet(k, j) \/ EF!toRecover(k, j)
          PROVE  Moves(EF!Requests)
        BY <2>3, EFMoves
           DEF EF!EnterNetwork, EF!EnterExit, EF!removeRollsite, EF!toAcquire, EF!showAddSiteNet,
               EF!toEditSiteNet, EF!DeleteSiteNet, EF!toRecover, EF!Requests
    <2>4. ASSUME NEW p, EF!EnterPartyId(p) \/ EF!updateIp(p)
          PROVE  Moves(EF!Requests)
        BY <2>4, EFMoves DEF EF!EnterPartyId, EF!updateIp, EF!Requests
    <2>5. CASE EF!EnterName \/ EF!addRollsite \/ EF!cancelAddSiteNet \/ EF!toAddSiteNet
               \/ EF!toaction \/ EF!cancelLeave
        BY <2>5, EFMoves
           DEF EF!EnterName, EF!addRollsite, EF!cancelAddSiteNet, EF!toAddSiteNet, EF!toaction,
               EF!cancelLeave, EF!Requests
    <2> QED BY <1>1, <2>2, <2>3, <2>4, <2>5 DEF EF!Acts
<1>2. ASSUME NEW i \in DOMAIN calls, EF!ServeAdd(i) \/ EF!Fail(i)
      PROVE  Moves(EF!Requests)
    BY <1>2, EFMoves DEF EF!ServeAdd
<1>3. ASSUME NEW i \in DOMAIN calls,
             EF!QueryThen(i) \/ EF!CheckPartyThen(i) \/ EF!AddThen(i) \/ EF!Ignores(i)
      PROVE  Moves(EF!Requests)
    BY <1>3, EFMoves DEF EF!QueryThen, EF!CheckPartyThen, EF!AddThen, EF!Ignores
<1> QED BY <1>1, <1>2, <1>3 DEF EF!Next

EfCall(e) ==
    e.op = "addExchange" => e.arg # <<>> /\ (e.answer.code = "ok" => server # <<>>)

EfList(list) == IsQueue(list) /\ Len(list) \in Nat /\ Len(list) # 0

EfView(v) ==
    /\ DOMAIN v =
         {"page", "named", "isleave", "isleavedialog", "rollsiteList", "tempExchangeDataList",
          "rollsiteIndex", "siteNetIndex", "tempPartyId", "addSiteNet", "checkResult", "agreed"}
    /\ EfList(v.rollsiteList)

\* The way out is open when there is nothing to lose, or by consent.
EfWay(v) == v.isleave \/ v.page = "left" => v.agreed \/ server # <<>>

EfInv == EfView(view) /\ EfWay(view) /\ \A e \in Range(calls) : EfCall(e)

\* Most of the page leaves the way out as it is.
EfStays(v) ==
    EfView(v) /\ v.page = view.page /\ v.isleave = view.isleave /\ v.agreed = view.agreed

LEMMA EfActed ==
    ASSUME EfInv, CallsInv(EF!Requests), NEW asked, AreCalls(asked, EF!Requests), EF!Click(asked),
           \A e \in Range(asked) : EfCall(e), EfStays(view')
    PROVE  EfInv'
<1>1. Range(calls') = Range(calls) \cup Range(asked) /\ server' = server
    BY EFIsPage, ClickedSet DEF CallsInv
<1>2. \A e \in Range(calls') : EfCall(e)'
    BY <1>1 DEF EfInv, EfCall
<1> QED BY <1>1, <1>2 DEF EfInv, EfStays, EfWay, EfView, EfList

LEMMA EfHandled ==
    ASSUME EfInv, CallsInv(EF!Requests), NEW i \in DOMAIN calls, EF!Handled(i, <<>>),
           EfView(view'), EfWay(view)'
    PROVE  EfInv'
<1>1. AreCalls(<<>>, EF!Requests) /\ Range(<<>>) = {}
    BY NoneAreCalls, SetOfFew
<1>2. Range(calls') \subseteq Range(calls) /\ server' = server
    BY <1>1, EFIsPage, HandledSet DEF CallsInv
<1>3. \A e \in Range(calls') : EfCall(e)'
    BY <1>2 DEF EfInv, EfCall
<1> QED BY <1>2, <1>3 DEF EfInv, EfView, EfList

\* One of the roll sites is changed.
LEMMA EfChanged ==
    ASSUME NEW v, EfView(v), NEW k, NEW e, NEW list, list = With(v.rollsiteList, k, e)
    PROVE  EfList(list)
BY WithQueue DEF EfView, EfList

LEMMA ExchangeFormActs ==
    ASSUME EfInv, CallsInv(EF!Requests), EF!Acts
    PROVE  EfInv'
<1>0. AreCalls(<<>>, EF!Requests) /\ Range(<<>>) = {}
    BY NoneAreCalls, SetOfFew
<1>a. EfView(view) /\ EfWay(view)
    BY DEF EfInv
<1>b. EF!Click(<<>>) /\ EfStays(view') => EfInv'
    BY <1>0, EfActed
<1>c. ASSUME NEW k, NEW e, NEW list, list = With(view.rollsiteList, k, e)
      PROVE  EfList(list)
    BY <1>a, <1>c, EfChanged
<1>1. ASSUME NEW k, NEW n, EF!EnterNetwork(k, n)
      PROVE  EfInv'
    <2> DEFINE list == [view.rollsiteList EXCEPT ![k].networkAccess = n]
    <2>1. EF!Click(<<>>) /\ view' = [view EXCEPT !.rollsiteList = list]
        BY <1>1 DEF EF!EnterNetwork
    <2>2. EfList(list)
        BY <1>c DEF With
    <2> HIDE DEF list
    <2> QED BY <1>a, <1>b, <2>1, <2>2 DEF EfStays, EfView
<1>2. ASSUME NEW k, EF!EnterExit(k)
      PROVE  EfInv'
    <2> DEFINE list == [view.rollsiteList EXCEPT ![k].networkAccessExit = TRUE]
    <2>1. EF!Click(<<>>) /\ view' = [view EXCEPT !.rollsiteList = list]
        BY <1>2 DEF EF!EnterExit
    <2>2. EfList(list)
        BY <1>c DEF With
    <2> HIDE DEF list
    <2> QED BY <1>a, <1>b, <2>1, <2>2 DEF EfStays, EfView
<1>3. ASSUME NEW k, EF!removeRollsite(k)
      PROVE  EfInv'
    <2> DEFINE list == Without(view.rollsiteList, k)
    <2>1. /\ EF!Click(<<>>) /\ view' = [view EXCEPT !.rollsiteList = list]
          /\ k \in DOMAIN view.rollsiteList /\ Len(view.rollsiteList) # 1
        BY <1>3 DEF EF!removeRollsite, EF!Rollsites, EF!Without, Without
    <2>2. EfList(list)
        <3>1. IsQueue(list) /\ Len(list) = Len(view.rollsiteList) - 1
            BY <1>a, <2>1, Removed DEF EfView, EfList
        <3> HIDE DEF list
        <3> QED BY <1>a, <2>1, <3>1 DEF EfView, EfList
    <2> HIDE DEF list
    <2> QED BY <1>a, <1>b, <2>1, <2>2 DEF EfStays, EfView
<1>4. ASSUME NEW op \in {"query", "checkParty"}, NEW part, NEW arg,
             EF!Click(<<EF!AskFrom(part, op, arg)>>) \/ EF!Click(<<EF!Ask(op, arg)>>),
             EfStays(view')
      PROVE  EfInv'
    <2>1. PICK c \in {Ask(op, arg), AskFrom(part, op, arg)} : EF!Click(<<c>>)
        BY <1>4, EFIsPage
    <2>2. c.op = op /\ AreCalls(<<c>>, EF!Requests)
        <3>1. op \in EF!Requests
            BY <1>4 DEF EF!Requests
        <3>2. AreCalls(<<Ask(op, arg)>>, EF!Requests) /\ AreCalls(<<AskFrom(part, op, arg)>>, EF!Requests)
            BY <3>1, OneAsked
        <3>3. Ask(op, arg).op = op /\ AskFrom(part, op, arg).op = op
            BY DEF Ask, AskFrom, Call
        <3> QED BY <3>2, <3>3
    <2>3. Range(<<c>>) = {c} /\ EfCall(c)
        BY <2>2, SetOfFew DEF EfCall
    <2> QED BY <1>4, <2>1, <2>2, <2>3, EfActed
<1>5. ASSUME NEW k, EF!toAcquire(k)
      PROVE  EfInv'
    <2>1. EfStays(view')
        BY <1>a, <1>5 DEF EF!toAcquire, EfStays, EfView
    <2> QED BY <1>4, <1>5, <2>1 DEF EF!toAcquire
<1>6. ASSUME NEW p, EF!EnterPartyId(p)
      PROVE  EfInv'
    <2>1. EfStays(view')
        BY <1>a, <1>6 DEF EF!EnterPartyId, EfStays, EfView
    <2> QED BY <1>4, <1>6, <2>1 DEF EF!EnterPartyId
<1>7. ASSUME NEW k, NEW j, EF!showAddSiteNet(k) \/ EF!toEditSiteNet(k, j) \/ EF!updateIp(k)
      PROVE  EfInv'
    <2>1. EF!Click(<<>>)
        BY <1>7 DEF EF!showAddSiteNet, EF!toEditSiteNet, EF!updateIp
    <2>2. EfStays(view')
        <3>1. CASE EF!showAddSiteNet(k)
            BY <1>a, <3>1 DEF EF!showAddSiteNet, EfStays, EfView
        <3>2. CASE EF!toEditSiteNet(k, j)
            BY <1>a, <3>2 DEF EF!toEditSiteNet, EfStays, EfView
        <3>3. CASE EF!updateIp(k)
            BY <1>a, <3>3 DEF EF!updateIp, EfStays, EfView
        <3> QED BY <1>7, <3>1, <3>2, <3>3
    <2> QED BY <1>b, <2>1, <2>2
<1>8. ASSUME NEW k, NEW j, EF!DeleteSiteNet(k, j) \/ EF!toRecover(k, j)
      PROVE  EfInv'
    <2>1. EF!Click(<<>>)
        BY <1>8 DEF EF!DeleteSiteNet, EF!toRecover
    <2>2. \A x : EfList([view.rollsiteList EXCEPT ![k].partyAddBeanList[j].status = x])
        BY <1>c DEF With
    <2>3. CASE EF!DeleteSiteNet(k, j)
        BY <1>a, <1>b, <2>1, <2>2, <2>3 DEF EF!DeleteSiteNet, EfStays, EfView
    <2>4. CASE EF!toRecover(k, j)
        BY <1>a, <1>b, <2>1, <2>2, <2>4 DEF EF!toRecover, EfStays, EfView
    <2> QED BY <1>8, <2>3, <2>4
<1>9. CASE EF!EnterName \/ EF!cancelAddSiteNet \/ EF!cancelLeave
    <2>1. EF!Click(<<>>)
        BY <1>9 DEF EF!EnterName, EF!cancelAddSiteNet, EF!cancelLeave
    <2>2. EfStays(view')
        BY <1>a, <1>9 DEF EF!EnterName, EF!cancelAddSiteNet, EF!cancelLeave, EfStays, EfView
    <2> QED BY <1>b, <2>1, <2>2
<1>10. CASE EF!addRollsite
    <2> DEFINE list == <<EF!NewRollsite>> \o view.rollsiteList
    <2>1. EF!Click(<<>>) /\ view' = [view EXCEPT !.rollsiteList = list]
        BY <1>10 DEF EF!addRollsite
    <2>2. EfList(list)
        <3>1. IsQueue(<<EF!NewRollsite>>) /\ Len(<<EF!NewRollsite>>) = 1
            <4>1. <<EF!NewRollsite>> \in Seq({EF!NewRollsite})
                OBVIOUS
            <4> QED BY <4>1, QueueOfSome
        <3>2. IsQueue(list) /\ Len(list) = 1 + Len(view.rollsiteList)
            BY <1>a, <3>1, Joined DEF EfView, EfList
        <3> HIDE DEF list
        <3> QED BY <1>a, <3>2 DEF EfView, EfList
    <2> HIDE DEF list
    <2> QED BY <1>a, <1>b, <2>1, <2>2 DEF EfStays, EfView
<1>11. CASE EF!toAddSiteNet
    <2>1. EF!Click(<<>>)
        BY <1>11 DEF EF!toAddSiteNet
    <2> DEFINE k == view.rollsiteIndex
               added == Append(EF!Rows(view, k), EF!Row(view.addSiteNet.partyId,
                            view.addSiteNet.networkAccess, view.addSiteNet.status))
               edited == EF!Put(view.rollsiteList[k].partyAddBeanList, view.siteNetIndex,
                            EF!Row(view.addSiteNet.partyId, view.addSiteNet.networkAccess,
                                   EF!StatusAgainst(view, view.addSiteNet.networkAccess)))
    <2>2. CASE view.addSiteNet.type = "edit"
        <3>1. view' = [[view EXCEPT !.rollsiteList[k].partyAddBeanList = edited]
                         EXCEPT !.addSiteNet = EF!NoSite]
            BY <1>11, <2>2 DEF EF!toAddSiteNet
        <3>2. EfList([view.rollsiteList EXCEPT ![k].partyAddBeanList = edited])
            BY <1>c DEF With
        <3> HIDE DEF edited
        <3> QED BY <1>a, <1>b, <2>1, <3>1, <3>2 DEF EfStays, EfView
    <2>3. CASE view.addSiteNet.type # "edit"
        <3>1. view' = [[view EXCEPT !.rollsiteList[k].partyAddBeanList = added,
                                    !.tempExchangeDataList = EF!Noted(view.tempExchangeDataList, k, added)]
                         EXCEPT !.addSiteNet = EF!NoSite]
            BY <1>11, <2>3 DEF EF!toAddSiteNet
        <3>2. EfList([view.rollsiteList EXCEPT ![k].partyAddBeanList = added])
            BY <1>c DEF With
        <3> HIDE DEF added
        <3> QED BY <1>a, <1>b, <2>1, <3>1, <3>2 DEF EfStays, EfView
    <2> QED BY <2>2, <2>3
<1>12. CASE EF!toaction
    <2>1. view' = view /\ (EF!Click(<<EF!Ask("addExchange", view.rollsiteList)>>) \/ EF!Click(<<>>))
        BY <1>12 DEF EF!toaction
    <2> DEFINE c == Ask("addExchange", view.rollsiteList)
    <2>2. AreCalls(<<c>>, EF!Requests) /\ Range(<<c>>) = {c}
        BY OneAsked, SetOfFew DEF EF!Requests
    <2>3. view.rollsiteList # <<>>
        BY <1>a DEF EfView, EfList
    <2>4. EfCall(c)
        BY <2>3 DEF Ask, Call, Waiting, EfCall
    <2>5. EF!Click(<<c>>) \/ EF!Click(<<>>)
        BY <2>1, EFIsPage
    <2> HIDE DEF c
    <2>6. EfStays(view')
        BY <1>a, <2>1 DEF EfStays
    <2> QED BY <1>b, <2>2, <2>4, <2>5, <2>6, EfActed
<1>13. ASSUME NEW v, EF!Route(v), EfView(v), v.page = view.page,
              v.isleave => v.agreed \/ server # <<>>, v.page = "left" => v.agreed \/ server # <<>>
       PROVE  EfInv'
    <2>1. server' = server /\ (calls' = <<>> \/ calls' = calls)
        BY <1>13 DEF EF!Route
    <2>2. \A e \in Range(calls') : EfCall(e)'
        BY <1>0, <2>1 DEF EfInv, EfCall
    <2>3. \/ view' = [v EXCEPT !.page = "left", !.isleavedialog = FALSE] /\ v.isleave
          \/ view' = [v EXCEPT !.isleavedialog = TRUE]
        BY <1>13 DEF EF!Route, EF!Gone
    <2>4. EfView(view') /\ EfWay(view)'
        BY <1>13, <2>1, <2>3 DEF EfView, EfWay
    <2> QED BY <2>2, <2>4 DEF EfInv, EfView, EfList
<1>14. CASE EF!Leave
    BY <1>a, <1>13, <1>14 DEF EF!Leave, EfWay
<1>15. CASE EF!sureLeave
    <2> DEFINE v == [view EXCEPT !.isleave = TRUE, !.agreed = TRUE]
    <2>1. EF!Route(v)
        BY <1>15 DEF EF!sureLeave
    <2>2. EfView(v) /\ v.page = view.page /\ v.agreed
        BY <1>a DEF EfView
    <2> HIDE DEF v
    <2> QED BY <1>13, <2>1, <2>2
<1> QED BY <1>1, <1>2, <1>3, <1>5, <1>6, <1>7, <1>8, <1>9, <1>10, <1>11, <1>12, <1>14, <1>15
        DEF EF!Acts

LEMMA ExchangeFormKept ==
    ASSUME EfInv, CallsInv(EF!Requests), EF!Next
    PROVE  EfInv'
<1>a. EfView(view) /\ EfWay(view) /\ \A e \in Range(calls) : EfCall(e)
    BY DEF EfInv
<1>1. ASSUME NEW i \in DOMAIN calls, EF!ServeAdd(i)
      PROVE  EfInv'
    <2>1. /\ calls[i].op = "addExchange"
          /\ \/ Reply(i, Ok(0)) /\ server = <<>> /\ server' = calls[i].arg
             \/ Reply(i, Refused) /\ server' = server
        BY <1>1, EFIsPage DEF EF!ServeAdd
    <2>2. PICK a : /\ a.code \in Codes /\ calls' = Answered(calls, i, a) /\ view' = view
                   /\ \/ server' = calls[i].arg /\ server = <<>>
                      \/ server' = server /\ a.code # "ok"
        <3>1. Ok(0).code \in Codes /\ Refused.code \in Codes /\ Refused.code # "ok"
            BY DEF Ok, Refused, Codes
        <3> QED BY <2>1, <3>1, ReplyIsAnswered
    <2>3. /\ \A e \in Range(calls') :
                \/ e \in Range(calls)
                \/ e.op = calls[i].op /\ e.arg = calls[i].arg /\ e.answer = a
          /\ calls[i] \in Range(calls)
        BY <2>2, AnsweredSet DEF CallsInv
    <2>4. calls[i].arg # <<>>
        BY <1>a, <2>1, <2>3 DEF EfCall
    <2>5. server # <<>> => server' # <<>>
        BY <2>2
    <2>6. \A e \in Range(calls') : EfCall(e)'
        BY <1>a, <2>2, <2>3, <2>4, <2>5 DEF EfCall
    <2> QED BY <1>a, <2>2, <2>5, <2>6 DEF EfInv, EfWay, EfView, EfList
<1>2. ASSUME NEW i \in DOMAIN calls, EF!Fail(i)
      PROVE  EfInv'
    <2>1. calls' = Answered(calls, i, Failed) /\ view' = view /\ server' = server
        BY <1>2, EFIsPage DEF FailedWith
    <2>2. Failed.code \in Codes /\ Failed.code # "ok"
        BY DEF Failed, Codes
    <2>3. /\ \A e \in Range(calls') :
                \/ e \in Range(calls)
                \/ e.op = calls[i].op /\ e.arg = calls[i].arg /\ e.answer = Failed
          /\ calls[i] \in Range(calls)
        BY <2>1, <2>2, AnsweredSet DEF CallsInv
    <2>4. \A e \in Range(calls') : EfCall(e)'
        BY <1>a, <2>1, <2>2, <2>3 DEF EfCall
    <2> QED BY <1>a, <2>1, <2>4 DEF EfInv, EfWay, EfView, EfList
<1>3. ASSUME NEW i \in DOMAIN calls, EF!QueryThen(i)
      PROVE  EfInv'
    <2> DEFINE k == calls[i].part
    <2>1. EF!Handled(i, <<>>) /\ server' = server
        BY <1>3 DEF EF!QueryThen, EF!Handled
    <2>2. EfList([view.rollsiteList EXCEPT ![k].partyAddBeanList = EF!RoutesOf(calls[i].arg)])
        BY <1>a, EfChanged DEF With
    <2>3. \/ view' = view
          \/ view' = [view EXCEPT !.rollsiteList[k].partyAddBeanList = EF!RoutesOf(calls[i].arg),
                        !.tempExchangeDataList =
                           EF!Noted(view.tempExchangeDataList, k, EF!RoutesOf(calls[i].arg))]
        BY <1>3 DEF EF!QueryThen
    <2>4. EfView(view') /\ EfWay(view)'
        BY <1>a, <2>1, <2>2, <2>3 DEF EfView, EfWay
    <2> QED BY <2>1, <2>4, EfHandled
<1>4. ASSUME NEW i \in DOMAIN calls, EF!CheckPartyThen(i) \/ EF!Ignores(i)
      PROVE  EfInv'
    <2>1. EF!Handled(i, <<>>) /\ server' = server
        BY <1>4 DEF EF!CheckPartyThen, EF!Ignores, EF!Handled
    <2>2. EfView(view') /\ EfWay(view)'
        BY <1>a, <1>4, <2>1 DEF EF!CheckPartyThen, EF!Ignores, EfView, EfWay
    <2> QED BY <2>1, <2>2, EfHandled
<1>5. ASSUME NEW i \in DOMAIN calls, EF!AddThen(i)
      PROVE  EfInv'
    <2>1. /\ EF!Handled(i, <<>>) /\ server' = server
          /\ view' = [[view EXCEPT !.isleave = TRUE] EXCEPT !.page = "left", !.isleavedialog = FALSE]
          /\ calls[i].op = "addExchange" /\ calls[i].answer.code = "ok"
        BY <1>5 DEF EF!AddThen, EF!Handled, EF!Gone, EF!Got
    <2>2. calls[i] \in Range(calls)
        BY DEF Range
    <2>3. server # <<>>
        BY <1>a, <2>1, <2>2 DEF EfCall
    <2>4. EfView(view') /\ EfWay(view)'
        BY <1>a, <2>1, <2>3 DEF EfView, EfWay
    <2> QED BY <2>1, <2>4, EfHandled
<1> QED BY <1>1, <1>2, <1>3, <1>4, <1>5, ExchangeFormActs DEF EF!Next

LEMMA ExchangeFormStart ==
    ASSUME EF!Init
    PROVE  CallsInv(EF!Requests) /\ OverlayHasCall /\ EfInv
<1>1. calls = <<>> /\ mishaps = {} /\ steps = 0 /\ busy = Loud(<<>>)
    BY EFIsPage DEF EF!Init, Created
<1>2. CallsInv(EF!Requests) /\ OverlayHasCall
    BY <1>1, NoneAreCalls DEF CallsInv, OverlayHasCall, Loud
<1>3. EfList(<<EF!NewRollsite>>)
    <2>1. <<EF!NewRollsite>> \in Seq({EF!NewRollsite}) /\ Len(<<EF!NewRollsite>>) = 1
        OBVIOUS
    <2> DEFINE list == <<EF!NewRollsite>>
    <2> HIDE DEF list
    <2>2. IsQueue(list) /\ Len(list) = 1
        BY <2>1, QueueOfSome DEF list
    <2>3. EfList(list)
        BY <2>2 DEF EfList
    <2> QED BY <2>3 DEF list
<1>4. EfView(view) /\ EfWay(view)
    <2> DEFINE list == <<EF!NewRollsite>>
    <2> HIDE DEF list
    <2>1. /\ view.rollsiteList = list /\ ~view.isleave /\ view.page = "form"
          /\ DOMAIN view =
             {"page", "named", "isleave", "isleavedialog", "rollsiteList", "tempExchangeDataList",
              "rollsiteIndex", "siteNetIndex", "tempPartyId", "addSiteNet", "checkResult", "agreed"}
        BY DEF EF!Init, list
    <2> QED BY <1>3, <2>1 DEF EfView, EfWay, list
<1>5. \A e \in Range(calls) : EfCall(e)
    BY <1>1, SetOfFew
<1> QED BY <1>2, <1>4, <1>5 DEF EfInv

LEMMA ExchangeFormLeft ==
    ASSUME EfInv
    PROVE  EF!LeftIsStoredOrAgreed
BY DEF EfInv, EfWay, EF!LeftIsStoredOrAgreed

-----------------------------------------------------------------------------
(* The dialog of the addresses.                                            *)

LEMMA AddressesMove ==
    ASSUME AL!Next
    PROVE  Moves(AL!Requests)
<1>1. ASSUME NEW x, AL!addShow(x) \/ AL!DoubleClick(x) \/ AL!deleteEntrances(x) \/ AL!Check(x)
                    \/ AL!testTelnet(x) \/ \E text : AL!Enter(x, text)
      PROVE  Moves(AL!Requests)
    BY <1>1, ALMoves
       DEF AL!addShow, AL!DoubleClick, AL!deleteEntrances, AL!Check, AL!testTelnet, AL!Enter,
           AL!Requests
<1>2. CASE AL!addentrancesSelect \/ AL!deleteAll \/ AL!closeEntrances \/ AL!saveAction
           \/ AL!cancelAction \/ AL!CloseDialog
    BY <1>2, ALMoves
       DEF AL!addentrancesSelect, AL!deleteAll, AL!closeEntrances, AL!saveAction,
           AL!cancelAction, AL!CloseDialog
<1>3. ASSUME NEW i \in DOMAIN calls, AL!ServeTelnet(i) \/ AL!Fail(i) \/ AL!TelnetThen(i)
      PROVE  Moves(AL!Requests)
    BY <1>3, ALMoves DEF AL!ServeTelnet, AL!TelnetThen
<1> QED BY <1>1, <1>2, <1>3 DEF AL!Next, AL!Acts

\* The rows of the dialog, and the page with its dialog.
AlTexts == AL!Addresses \cup {""}
AlRow == [ip : AlTexts, show : BOOLEAN, checked : BOOLEAN]

\* A field: what was accepted, each address once.
AlField(f) ==
    /\ f \in Seq(AlTexts) /\ Len(f) <= Limit
    /\ \A j, k \in DOMAIN f : j < k => f[j] # f[k]

AlView(v) ==
    /\ DOMAIN v =
         {"field", "adddialog", "type", "entrancesSelect", "entrancesInput", "entrancesindex",
          "focused", "canEdit", "saveDisabled", "addDisabled", "tips"}
    /\ v.entrancesSelect \in Seq(AlRow) /\ Len(v.entrancesSelect) <= Limit
    /\ AlField(v.field)
    /\ v.focused = 0 \/ (v.adddialog /\ v.focused \in DOMAIN v.entrancesSelect)

\* A dialog that is full takes no more rows.
AlFull(v) == Len(v.entrancesSelect) >= Limit => v.addDisabled

LEMMA AlWatched ==
    ASSUME NEW v, AlView(v), NEW w, w = AL!Watched(v)
    PROVE  AlView(w) /\ AlFull(w)
<1>1. /\ w = [v EXCEPT !.addDisabled = w.addDisabled] /\ DOMAIN w = DOMAIN v
      /\ (Len(v.entrancesSelect) >= Limit => w.addDisabled)
    BY DEF AL!Watched, AlView
<1>2. /\ w.entrancesSelect = v.entrancesSelect /\ w.field = v.field /\ w.focused = v.focused
      /\ w.adddialog = v.adddialog
    BY <1>1 DEF AlView
<1> QED BY <1>1, <1>2 DEF AlView, AlFull

\* The first of the rows in edit gets the focus.
LEMMA AlFocused ==
    ASSUME NEW v, AlView(v), v.adddialog, NEW k \in DOMAIN v.entrancesSelect,
           v.entrancesSelect[k].show, NEW w, w = AL!Focus(v)
    PROVE  AlView(w)
<1> DEFINE S == AL!Shown(v, TRUE)
<1>1. k \in S /\ S \subseteq DOMAIN v.entrancesSelect /\ S \subseteq Nat
    BY DEF AL!Shown, AL!Rows, AlView, AlRow
<1> HIDE DEF S
<1>2. \E x \in S : \A y \in S : x <= y
    BY <1>1, NatMin
<1>3. \E x \in S : w = [v EXCEPT !.focused = x]
    BY <1>2 DEF AL!Focus, S
<1> QED BY <1>1, <1>3 DEF AlView

\* A row is changed.
AlPut(rows, k, r) == [rows EXCEPT ![k] = r]

LEMMA AlChanged ==
    ASSUME NEW rows \in Seq(AlRow), NEW k, NEW r \in AlRow, NEW new, new = AlPut(rows, k, r)
    PROVE  /\ new \in Seq(AlRow) /\ Len(new) = Len(rows) /\ DOMAIN new = DOMAIN rows
           /\ k \in DOMAIN rows => new[k] = r
<1>1. /\ Len(rows) \in Nat /\ DOMAIN rows = 1 .. Len(rows) /\ rows \in [1 .. Len(rows) -> AlRow]
    OBVIOUS
<1>2. new \in [1 .. Len(rows) -> AlRow] /\ (k \in DOMAIN rows => new[k] = r)
    BY <1>1 DEF AlPut
<1>3. new \in Seq(AlRow)
    BY <1>1, <1>2, SeqDef
<1> QED BY <1>1, <1>2, <1>3

LEMMA AlEdited ==
    ASSUME NEW v, AlView(v), v.adddialog, NEW k \in DOMAIN v.entrancesSelect, NEW w, w = AL!getEdit(v, k)
    PROVE  AlView(w)
<1> DEFINE rows == [v.entrancesSelect EXCEPT ![k] = [v.entrancesSelect[k] EXCEPT !.show = TRUE]]
           u == [v EXCEPT !.entrancesSelect = rows,
                          !.entrancesInput = v.entrancesSelect[k].ip, !.entrancesindex = k,
                          !.canEdit = FALSE, !.addDisabled = TRUE, !.saveDisabled = TRUE]
<1>1. v.entrancesSelect[k] \in AlRow /\ v.entrancesSelect \in Seq(AlRow)
    BY DEF AlView
<1>2. [v.entrancesSelect[k] EXCEPT !.show = TRUE] \in AlRow /\ [v.entrancesSelect[k] EXCEPT !.show = TRUE].show
    BY <1>1 DEF AlRow
<1>3. /\ rows \in Seq(AlRow) /\ Len(rows) = Len(v.entrancesSelect)
      /\ DOMAIN rows = DOMAIN v.entrancesSelect /\ rows[k].show
    <2> DEFINE r == [v.entrancesSelect[k] EXCEPT !.show = TRUE]
    <2>1. rows = AlPut(v.entrancesSelect, k, r) /\ r \in AlRow /\ r.show
        BY <1>2 DEF AlPut
    <2> HIDE DEF rows, r
    <2> QED BY <1>1, <2>1, AlChanged
<1>4. w = v \/ w = AL!Focus(u)
    BY DEF AL!getEdit, AL!Rows
<1> HIDE DEF rows
<1>5. AlView(u) /\ u.adddialog /\ u.entrancesSelect = rows
    BY <1>3 DEF AlView
<1> HIDE DEF u
<1> QED BY <1>3, <1>4, <1>5, AlFocused

LEMMA AlDeleted ==
    ASSUME NEW v, AlView(v), NEW k \in DOMAIN v.entrancesSelect, NEW w, w = AL!Deleted(v, k)
    PROVE  AlView(w)
<1> DEFINE rows == Without(v.entrancesSelect, k)
<1>1. v.entrancesSelect \in Seq(AlRow) /\ Len(v.entrancesSelect) <= Limit
    BY DEF AlView
<1>2. rows \in Seq(AlRow) /\ Len(rows) = Len(v.entrancesSelect) - 1
    <2>1. IsQueue(v.entrancesSelect)
        BY <1>1, QueueOfSome
    <2>2. IsQueue(rows) /\ Len(rows) = Len(v.entrancesSelect) - 1 /\ Range(rows) \subseteq Range(v.entrancesSelect)
        BY <2>1, Removed, SetOfRemoved
    <2> HIDE DEF rows
    <2>3. Range(v.entrancesSelect) \subseteq AlRow
        BY <1>1 DEF Range
    <2>4. rows \in [1 .. Len(rows) -> Range(rows)] /\ Len(rows) \in Nat
        BY <2>2 DEF IsQueue
    <2>5. rows \in [1 .. Len(rows) -> AlRow]
        BY <2>2, <2>3, <2>4
    <2>6. rows \in Seq(AlRow)
        BY <2>4, <2>5, SeqDef
    <2> QED BY <2>2, <2>6
<1>3. AL!Without(v.entrancesSelect, k) = rows
    BY DEF AL!Without, Without
<1> HIDE DEF rows
<1>4. w = [v EXCEPT !.entrancesInput = "", !.entrancesSelect = rows, !.focused = 0,
              !.saveDisabled = FALSE, !.addDisabled = FALSE, !.canEdit = TRUE]
    BY <1>3 DEF AL!Deleted
<1>5. Len(v.entrancesSelect) \in Nat /\ Limit \in Nat
    BY <1>1, LimitAssumption
<1> QED BY <1>1, <1>2, <1>4, <1>5 DEF AlView

LEMMA AlClosed ==
    ASSUME NEW v, AlView(v), NEW k \in DOMAIN v.entrancesSelect,
           NEW w, w = [AL!Closed(v, k) EXCEPT !.focused = 0]
    PROVE  AlView(w)
<1> DEFINE u == AL!Closed(v, k)
           i == v.entrancesindex
           text == v.entrancesInput
<1>1. CASE text = ""
    <2>1. u = AL!Deleted(v, k)
        BY <1>1 DEF AL!Closed
    <2>2. AlView(u)
        BY <2>1, AlDeleted
    <2> HIDE DEF u
    <2> QED BY <2>2 DEF AlView, u
<1>2. CASE text # "" /\ AL!checkip(text) /\ i \in DOMAIN v.entrancesSelect
    <2> DEFINE r == [v.entrancesSelect[i] EXCEPT !.show = FALSE, !.ip = text]
               rows == [v.entrancesSelect EXCEPT ![i] = r]
    <2>0. v.entrancesSelect \in Seq(AlRow)
        BY DEF AlView
    <2>1. v.entrancesSelect[i] \in AlRow
        BY <1>2, <2>0, ElementOf
    <2>2. r \in AlRow
        BY <1>2, <2>1 DEF AlRow, AL!checkip, AlTexts
    <2>3. rows \in Seq(AlRow) /\ Len(rows) = Len(v.entrancesSelect)
        <3> HIDE DEF r, i
        <3>1. rows = AlPut(v.entrancesSelect, i, r)
            BY DEF AlPut
        <3> HIDE DEF rows
        <3> QED BY <2>0, <2>2, <3>1, AlChanged
    <2>4. u = [v EXCEPT !.entrancesSelect[i].show = FALSE, !.entrancesSelect[i].ip = text,
                        !.saveDisabled = FALSE, !.addDisabled = FALSE, !.canEdit = TRUE]
        BY <1>2 DEF AL!Closed, AL!Rows
    <2>5. [[v.entrancesSelect EXCEPT ![i].show = FALSE] EXCEPT ![i].ip = text] = rows
        BY <1>2, <2>1 DEF AlRow
    <2>6. DOMAIN u = DOMAIN v /\ u.entrancesSelect = rows /\ u.field = v.field
        BY <2>4, <2>5 DEF AlView
    <2> HIDE DEF u, rows
    <2> QED BY <2>3, <2>6 DEF AlView, u
<1>3. CASE text # "" /\ ~(AL!checkip(text) /\ i \in DOMAIN v.entrancesSelect)
    <2>1. u = v \/ u = [v EXCEPT !.saveDisabled = TRUE, !.addDisabled = TRUE]
        BY <1>3 DEF AL!Closed, AL!Rows
    <2>2. AlView(u)
        BY <2>1 DEF AlView
    <2> HIDE DEF u
    <2> QED BY <2>2 DEF AlView, u
<1> QED BY <1>1, <1>2, <1>3

\* What is saved of the rows.
LEMMA AlSaved ==
    ASSUME NEW rows \in Seq(AlRow), Len(rows) <= Limit, NEW f, f = AL!Once(rows)
    PROVE  AlField(f)
<1> DEFINE ips == [k \in DOMAIN rows |-> rows[k].ip]
           places == {k \in DOMAIN ips : \A j \in 1 .. (k - 1) : ips[j] # ips[k]}
<1>1. Len(rows) \in Nat /\ DOMAIN rows = 1 .. Len(rows) /\ Limit \in Nat
    BY LimitAssumption
<1>2. ips \in [1 .. Len(rows) -> AlTexts]
    <2>1. \A k \in DOMAIN rows : rows[k] \in AlRow
        BY ElementOf
    <2>2. \A k \in DOMAIN rows : rows[k].ip \in AlTexts
        BY <2>1 DEF AlRow
    <2> QED BY <1>1, <2>2
<1>3. ips \in Seq(AlTexts) /\ Len(ips) = Len(rows) /\ DOMAIN ips = 1 .. Len(rows)
    BY <1>1, <1>2, SeqDef
<1>4. f = Picked(ips, places)
    BY ALRows DEF AL!Once
<1> HIDE DEF ips
<1>5. IsQueue(ips) /\ \A k \in DOMAIN ips : ips[k] \in AlTexts
    BY <1>3, QueueOfSome
<1>6. places \in SUBSET DOMAIN ips
    OBVIOUS
<1>7. \A k \in places : \A j \in DOMAIN ips : j < k => ips[j] # ips[k]
    BY <1>1, <1>3
<1> HIDE DEF places
<1>8. /\ IsQueue(f) /\ Len(f) \in Nat /\ Len(f) <= Len(ips)
      /\ \A n \in DOMAIN f : \E k \in places : f[n] = ips[k]
      /\ \A m, n \in DOMAIN f : m < n => \E j, k \in places : j < k /\ f[m] = ips[j] /\ f[n] = ips[k]
    BY <1>4, <1>5, <1>6, PickedRows
<1>9. f \in Seq(AlTexts)
    <2>1. f \in [1 .. Len(f) -> Range(f)] /\ DOMAIN f = 1 .. Len(f)
        BY <1>8 DEF IsQueue
    <2>2. f \in [1 .. Len(f) -> AlTexts]
        BY <1>5, <1>6, <1>8, <2>1
    <2> QED BY <1>8, <2>2, SeqDef
<1>10. \A j, k \in DOMAIN f : j < k => f[j] # f[k]
    BY <1>6, <1>7, <1>8
<1> QED BY <1>1, <1>3, <1>8, <1>9, <1>10 DEF AlField

AlInv == AlView(view) /\ AlFull(view)

LEMMA AlKept ==
    ASSUME NEW v, AlView(v), view' = AL!Watched(v)
    PROVE  AlInv'
BY AlWatched DEF AlInv, AlView, AlFull

LEMMA AddressesKept ==
    ASSUME AlInv, AL!Next
    PROVE  AlInv'
<1>a. AlView(view) /\ AlFull(view) /\ Limit \in Nat \ {0, 1}
    BY LimitAssumption DEF AlInv
<1>b. \A v : AlView(v) /\ view' = AL!Watched(v) => AlInv'
    BY AlKept
<1>1. ASSUME NEW type, AL!addShow(type)
      PROVE  AlInv'
    <2> DEFINE places == {k \in DOMAIN view.field : view.field[k] # ""}
               entered == Picked(view.field, places)
               rows == [k \in DOMAIN entered |-> AL!Row(entered[k])]
               v == [view EXCEPT !.adddialog = TRUE, !.type = type, !.entrancesSelect = rows]
    <2>1. ~view.adddialog /\ view' = AL!Watched(v)
        BY <1>1, ALRows DEF AL!addShow
    <2>2. view.field \in Seq(AlTexts) /\ Len(view.field) <= Limit
        BY <1>a DEF AlView, AlField
    <2>3. IsQueue(view.field) /\ \A k \in DOMAIN view.field : view.field[k] \in AlTexts
        BY <2>2, QueueOfSome, ElementOf
    <2>4. places \in SUBSET DOMAIN view.field
        OBVIOUS
    <2> HIDE DEF places
    <2>5. /\ IsQueue(entered) /\ Len(entered) \in Nat /\ Len(entered) <= Len(view.field)
          /\ \A n \in DOMAIN entered : \E k \in places : entered[n] = view.field[k]
        BY <2>3, <2>4, PickedRows
    <2> HIDE DEF entered
    <2>6. DOMAIN entered = 1 .. Len(entered) /\ \A n \in DOMAIN entered : entered[n] \in AlTexts
        BY <2>3, <2>4, <2>5, QueueFacts
    <2>7. rows \in [1 .. Len(entered) -> AlRow]
        BY <2>6 DEF AL!Row, AlRow
    <2>8. rows \in Seq(AlRow) /\ Len(rows) = Len(entered)
        BY <2>5, <2>7, SeqDef
    <2> HIDE DEF rows
    <2>9. Len(view.field) \in Nat /\ Len(rows) <= Limit
        BY <1>a, <2>2, <2>5, <2>8
    <2>10. AlView(v)
        BY <1>a, <2>1, <2>8, <2>9 DEF AlView
    <2> QED BY <1>b, <2>1, <2>10
<1>2. CASE AL!addentrancesSelect
    <2> DEFINE rows == Append(view.entrancesSelect, AL!Row(""))
               u == [view EXCEPT !.entrancesSelect = rows, !.canEdit = TRUE]
               v == AL!getEdit(u, Len(view.entrancesSelect) + 1)
    <2>1. view.adddialog /\ view.focused = 0 /\ ~view.addDisabled /\ view' = AL!Watched(v)
        BY <1>2 DEF AL!addentrancesSelect, AL!Free, AL!Rows
    <2>2. AL!Row("") \in AlRow
        BY DEF AL!Row, AlRow, AlTexts
    <2>3. /\ view.entrancesSelect \in Seq(AlRow) /\ Len(view.entrancesSelect) \in Nat
          /\ Len(view.entrancesSelect) < Limit
        BY <1>a, <2>1 DEF AlView, AlFull
    <2>4. /\ rows \in Seq(AlRow) /\ Len(rows) = Len(view.entrancesSelect) + 1
          /\ DOMAIN rows = 1 .. Len(view.entrancesSelect) + 1
        <3>1. \A s \in Seq(AlRow), r \in AlRow :
                 Append(s, r) \in Seq(AlRow) /\ Len(Append(s, r)) = Len(s) + 1
            OBVIOUS
        <3>2. rows \in Seq(AlRow) /\ Len(rows) = Len(view.entrancesSelect) + 1
            BY <2>2, <2>3, <3>1
        <3> HIDE DEF rows
        <3> QED BY <3>2
    <2> HIDE DEF rows
    <2>5. AlView(u) /\ u.adddialog /\ u.entrancesSelect = rows
        BY <1>a, <2>1, <2>3, <2>4 DEF AlView
    <2>6. Len(view.entrancesSelect) + 1 \in DOMAIN u.entrancesSelect
        BY <2>3, <2>4, <2>5
    <2> HIDE DEF u
    <2>7. AlView(v)
        BY <2>5, <2>6, AlEdited
    <2> HIDE DEF v
    <2> QED BY <1>b, <2>1, <2>7
<1>3. ASSUME NEW k, AL!DoubleClick(k)
      PROVE  AlInv'
    <2> DEFINE v == AL!getEdit(view, k)
    <2>1. view.adddialog /\ k \in DOMAIN view.entrancesSelect /\ view' = AL!Watched(v)
        BY <1>3 DEF AL!DoubleClick, AL!Free, AL!Shown, AL!Rows
    <2>2. AlView(v)
        BY <1>a, <2>1, AlEdited
    <2> HIDE DEF v
    <2> QED BY <1>b, <2>1, <2>2
<1>4. ASSUME NEW k, AL!deleteEntrances(k)
      PROVE  AlInv'
    <2> DEFINE v == AL!Deleted(view, k)
    <2>1. k \in DOMAIN view.entrancesSelect /\ view' = AL!Watched(v)
        BY <1>4 DEF AL!deleteEntrances, AL!Shown, AL!Rows
    <2>2. AlView(v)
        BY <1>a, <2>1, AlDeleted
    <2> HIDE DEF v
    <2> QED BY <1>b, <2>1, <2>2
<1>5. ASSUME NEW k, AL!Check(k)
      PROVE  AlInv'
    <2> DEFINE r == [view.entrancesSelect[k] EXCEPT !.checked = ~view.entrancesSelect[k].checked]
               rows == [view.entrancesSelect EXCEPT ![k] = r]
    <2>1. /\ view.adddialog /\ view.focused = 0 /\ k \in DOMAIN view.entrancesSelect
          /\ view' = [view EXCEPT !.entrancesSelect = rows]
        BY <1>5 DEF AL!Check, AL!Free, AL!Shown, AL!Rows
    <2>2. view.entrancesSelect \in Seq(AlRow)
        BY <1>a DEF AlView
    <2>3. r \in AlRow
        <3>1. view.entrancesSelect[k] \in AlRow
            BY <2>1, <2>2, ElementOf
        <3> QED BY <3>1 DEF AlRow
    <2> HIDE DEF r
    <2>4. rows \in Seq(AlRow) /\ Len(rows) = Len(view.entrancesSelect)
        <3>1. rows = AlPut(view.entrancesSelect, k, r)
            BY DEF AlPut
        <3> HIDE DEF rows
        <3> QED BY <2>2, <2>3, <3>1, AlChanged
    <2> HIDE DEF rows
    <2> QED BY <1>a, <2>1, <2>4 DEF AlInv, AlView, AlFull
<1>6. CASE AL!deleteAll
    <2> DEFINE places == {k \in DOMAIN view.entrancesSelect : ~view.entrancesSelect[k].checked}
               rows == Picked(view.entrancesSelect, places)
               v == [view EXCEPT !.entrancesSelect = rows]
    <2>1. view.adddialog /\ view.focused = 0 /\ view' = AL!Watched(v)
        BY <1>6, ALRows DEF AL!deleteAll, AL!Free
    <2>2. view.entrancesSelect \in Seq(AlRow) /\ Len(view.entrancesSelect) <= Limit
        BY <1>a DEF AlView
    <2>3. /\ IsQueue(view.entrancesSelect)
          /\ \A k \in DOMAIN view.entrancesSelect : view.entrancesSelect[k] \in AlRow
        BY <2>2, QueueOfSome, ElementOf
    <2>4. places \in SUBSET DOMAIN view.entrancesSelect
        OBVIOUS
    <2> HIDE DEF places
    <2>5. /\ IsQueue(rows) /\ Len(rows) \in Nat /\ Len(rows) <= Len(view.entrancesSelect)
          /\ \A n \in DOMAIN rows : \E k \in places : rows[n] = view.entrancesSelect[k]
        BY <2>3, <2>4, PickedRows
    <2> HIDE DEF rows
    <2>6. rows \in [1 .. Len(rows) -> AlRow]
        BY <2>3, <2>4, <2>5, QueueFacts DEF IsQueue
    <2>7. rows \in Seq(AlRow) /\ Len(view.entrancesSelect) \in Nat /\ Len(rows) <= Limit
        BY <1>a, <2>2, <2>5, <2>6, SeqDef
    <2>8. AlView(v)
        BY <1>a, <2>1, <2>7 DEF AlView
    <2> QED BY <1>b, <2>1, <2>8
<1>7. ASSUME NEW k, NEW text, AL!Enter(k, text)
      PROVE  AlInv'
    BY <1>a, <1>7 DEF AL!Enter, AL!Shown, AL!Rows, AlInv, AlView, AlFull
<1>8. CASE AL!closeEntrances
    <2> DEFINE v == [AL!Closed(view, view.focused) EXCEPT !.focused = 0]
    <2>1. view.focused # 0 /\ view' = AL!Watched(v)
        BY <1>8 DEF AL!closeEntrances
    <2>2. view.focused \in DOMAIN view.entrancesSelect
        BY <1>a, <2>1 DEF AlView
    <2>3. AlView(v)
        BY <1>a, <2>2, AlClosed
    <2> HIDE DEF v
    <2> QED BY <1>b, <2>1, <2>3
<1>9. <<>> \in Seq(AlRow) /\ Len(<<>>) = 0
    OBVIOUS
<1>10. CASE AL!saveAction
    <2> DEFINE f == AL!Once(view.entrancesSelect)
               v == [view EXCEPT !.adddialog = FALSE, !.entrancesSelect = <<>>, !.field = f]
    <2>1. view.focused = 0 /\ view' = AL!Watched(v)
        BY <1>10 DEF AL!saveAction, AL!Free, AL!Rows
    <2>2. AlField(f)
        BY <1>a, AlSaved DEF AlView
    <2> HIDE DEF f
    <2>3. AlView(v)
        BY <1>a, <1>9, <2>1, <2>2 DEF AlView
    <2> QED BY <1>b, <2>1, <2>3
<1>11. CASE AL!cancelAction
    <2> DEFINE v == [view EXCEPT !.adddialog = FALSE, !.entrancesSelect = <<>>,
                                 !.saveDisabled = FALSE, !.addDisabled = FALSE]
    <2>1. view.focused = 0 /\ view' = AL!Watched(v)
        BY <1>11 DEF AL!cancelAction, AL!Free
    <2>3. AlView(v)
        BY <1>a, <1>9, <2>1 DEF AlView
    <2> QED BY <1>b, <2>1, <2>3
<1>12. CASE AL!CloseDialog
    BY <1>a, <1>12 DEF AL!CloseDialog, AL!Free, AlInv, AlView, AlFull
<1>13. ASSUME NEW k, AL!testTelnet(k)
       PROVE  AlInv'
    BY <1>a, <1>13 DEF AL!testTelnet, AlInv, AlView, AlFull
<1>14. ASSUME NEW i, AL!TelnetThen(i)
       PROVE  AlInv'
    <2>1. \E tips : view' = [view EXCEPT !.tips = tips]
        BY <1>14 DEF AL!TelnetThen
    <2> QED BY <1>a, <2>1 DEF AlInv, AlView, AlFull
<1>15. ASSUME NEW i, AL!ServeTelnet(i) \/ AL!Fail(i)
       PROVE  AlInv'
    <2>1. view' = view
        BY <1>15 DEF AL!ServeTelnet, AL!Reply, AL!Fail, AL!FailsWith
    <2> QED BY <2>1 DEF AlInv
<1> QED BY <1>1, <1>2, <1>3, <1>4, <1>5, <1>6, <1>7, <1>8, <1>10, <1>11, <1>12, <1>13, <1>14, <1>15
        DEF AL!Next, AL!Acts

LEMMA AddressesStart ==
    ASSUME AL!Init
    PROVE  CallsInv(AL!Requests) /\ OverlayHasCall /\ AlInv
<1>1. calls = <<>> /\ mishaps = {} /\ steps = 0 /\ busy = Loud(<<>>)
    BY ALIsPage DEF AL!Init, Created
<1>2. CallsInv(AL!Requests) /\ OverlayHasCall
    BY <1>1, NoneAreCalls DEF CallsInv, OverlayHasCall, Loud
<1>3. PICK field \in {<<>>, <<"a">>, <<"a", "b">>} :
        view = [field |-> field, adddialog |-> FALSE, type |-> "exit", entrancesSelect |-> <<>>,
                entrancesInput |-> "", entrancesindex |-> 0, focused |-> 0, canEdit |-> TRUE,
                saveDisabled |-> FALSE, addDisabled |-> FALSE, tips |-> "none"]
    BY DEF AL!Init
<1>4. "a" \in AlTexts /\ "b" \in AlTexts /\ "a" # "b" /\ Limit \in Nat \ {0, 1}
    BY LimitAssumption DEF AlTexts, AL!Addresses
<1>5. AlField(field)
    <2>1. CASE field = <<>>
        BY <1>4, <2>1 DEF AlField
    <2>2. CASE field = <<"a">>
        BY <1>4, <2>2 DEF AlField
    <2>3. CASE field = <<"a", "b">>
        BY <1>4, <2>3 DEF AlField
    <2> QED BY <1>3, <2>1, <2>2, <2>3
<1>6. <<>> \in Seq(AlRow) /\ Len(<<>>) = 0
    OBVIOUS
<1>7. AlView(view) /\ AlFull(view)
    <2>1. /\ view.entrancesSelect = <<>> /\ view.field = field /\ view.focused = 0
          /\ DOMAIN view =
               {"field", "adddialog", "type", "entrancesSelect", "entrancesInput", "entrancesindex",
                "focused", "canEdit", "saveDisabled", "addDisabled", "tips"}
        BY <1>3
    <2> QED BY <1>4, <1>5, <1>6, <2>1 DEF AlView, AlFull
<1> QED BY <1>2, <1>7 DEF AlInv

LEMMA AddressesSaved ==
    ASSUME AlInv
    PROVE  AL!LimitKept /\ AL!SavedAreAccepted
<1> DEFINE f == view.field
           S == Range(f)
<1>1. /\ f \in Seq(AlTexts) /\ Len(f) \in Nat /\ DOMAIN f = 1 .. Len(f)
      /\ \A j, k \in DOMAIN f : j < k => f[j] # f[k]
    BY DEF AlInv, AlView, AlField
<1>2. S \subseteq AlTexts
    BY <1>1 DEF Range
<1>3. f \in [1 .. Len(f) -> S]
    BY <1>1 DEF Range
<1>4. \A j, k \in 1 .. Len(f) : f[j] = f[k] => j = k
    BY <1>1
<1>5. \A e \in S : \E k \in 1 .. Len(f) : f[k] = e
    BY <1>1 DEF Range
<1> HIDE DEF S
<1>6. f \in Bijection(1 .. Len(f), S)
    BY <1>3, <1>4, <1>5 DEF Bijection, Injection, Surjection, IsInjective
<1>7. Cardinality(S) = Len(f)
    BY <1>1, <1>6, FS_CountingElements DEF ExistsBijection
<1>8. AL!Cardinality(AL!Range(f)) = Len(f) /\ AL!Range(f) \subseteq AL!Addresses \cup {""}
    <2>1. AL!Range(f) = S
        BY DEF AL!Range, Range, S
    <2>2. AL!Cardinality(S) = Cardinality(S)
        BY DEF AL!Cardinality, Cardinality
    <2> QED BY <1>2, <1>7, <2>1, <2>2 DEF AlTexts
<1> QED BY <1>8 DEF AlInv, AlView, AL!LimitKept, AL!SavedAreAccepted

-----------------------------------------------------------------------------
(* The addresses of the sites.                                             *)

IcCodes == {"1", "2"}
IcSwitches == {"on", "off"}

\* What is known of a request: a list that has arrived is one, its rows hold
\* codes, and so does what is sent of a switch.
IcCall(e) ==
    /\ e.op = "list" => e.arg.pageNum \in Nat \ {0}
    /\ e.op = "edit" => e.part = 0
    /\ e.op = "list" /\ e.answer.code = "ok" =>
          /\ IsQueue(e.answer.data.list) /\ e.answer.data.totalRecord \in Nat
          /\ \A k \in DOMAIN e.answer.data.list : e.answer.data.list[k].secureStatus \in IcCodes
IcSent(e) ==
    e.op = "edit" => e.arg.secureStatus \in IcCodes /\ e.answer.code \in {"waiting", "ok"}

IcServer ==
    /\ DOMAIN server = IC!Parties
    /\ \A p \in IC!Parties :
          /\ DOMAIN server[p] = {"role", "network", "secureStatus", "wanted", "history"}
          /\ server[p].secureStatus \in IcCodes

IcView ==
    /\ DOMAIN view =
         {"radio", "role", "pageNum", "tableData", "total", "historylist", "opened", "dialogData",
          "dialog", "tempSiteNet", "cacheTempSiteNet", "choices", "asked"}
    /\ view.pageNum \in Nat \ {0} /\ view.total \in Nat
    /\ \A k \in DOMAIN view.tableData : view.tableData[k].secureStatus \in IcCodes
    /\ DOMAIN view.tempSiteNet = {"partyId", "network", "secureStatus"}
    /\ DOMAIN view.cacheTempSiteNet = {"partyId", "network", "secureStatus"}
    /\ view.cacheTempSiteNet.secureStatus \in IcSwitches
    /\ view.dialog \in {"none", "case", "edit", "sure"}

\* The form holds a switch unless what it holds is on its way.
IcForm ==
    view.dialog \in {"edit", "sure"} /\ (\A e \in Range(calls) : e.op # "edit") =>
        view.tempSiteNet.secureStatus \in IcSwitches

IcClean == mishaps \cap {"failed", "overlapped"} = {}

IcInv ==
    /\ IcServer /\ IcView
    /\ \A e \in Range(calls) : IcCall(e)
    /\ IcClean => IcForm /\ \A e \in Range(calls) : IcSent(e)

LEMMA IcListOf ==
    ASSUME IcServer, NEW query, query.pageNum \in Nat \ {0}, NEW d, d = IC!ipList(query)
    PROVE  /\ IsQueue(d.list) /\ d.totalRecord \in Nat
           /\ \A k \in DOMAIN d.list : d.list[k].secureStatus \in IcCodes
<1> DEFINE S == {p \in IC!Parties : query.role \in {IC!AnyRole, server[p].role}}
           found == Ascending(S)
           row(p) == [partyId |-> p, network |-> server[p].network,
                      secureStatus |-> server[p].secureStatus, wanted |-> server[p].wanted,
                      history |-> server[p].history # <<>>]
           rows == [k \in DOMAIN found |-> row(found[k])]
           c == Chunk(rows, IC!PageSize, query.pageNum)
<1>1. d = [list |-> c, totalRecord |-> Len(found)]
    BY ICRows DEF IC!ipList
<1>2. S \in SUBSET Nat /\ IsFiniteSet(S) /\ S \subseteq IC!Parties
    <2>1. IC!Parties = 1 .. 3
        BY DEF IC!Parties
    <2>2. IsFiniteSet(1 .. 3)
        <3>1. \A n \in Nat : IsFiniteSet(1 .. n)
            BY FS_Interval
        <3> QED BY <3>1
    <2>3. S \subseteq 1 .. 3
        BY <2>1
    <2>4. IsFiniteSet(S)
        BY <2>2, <2>3, FS_Subset
    <2> QED BY <2>1, <2>3, <2>4
<1> HIDE DEF S
<1>3. /\ Cardinality(S) \in Nat /\ found \in [1 .. Cardinality(S) -> S]
      /\ DOMAIN found = 1 .. Cardinality(S) /\ Len(found) = Cardinality(S)
    BY <1>2, AscendingLists
<1> HIDE DEF found
<1> DEFINE R == {row(p) : p \in S}
<1>4. rows \in [1 .. Cardinality(S) -> R]
    BY <1>3
<1>5. IsQueue(rows) /\ DOMAIN rows = 1 .. Cardinality(S)
    <2>1. rows \in Seq(R)
        BY <1>3, <1>4, SeqDef
    <2> QED BY <1>4, <2>1, QueueOfSome
<1>6. \A k \in DOMAIN rows : rows[k].secureStatus \in IcCodes
    BY <1>2, <1>3 DEF IcServer
<1> HIDE DEF rows
<1> HIDE DEF c
<1>7. IsQueue(c) /\ \A n \in DOMAIN c : \E k \in DOMAIN rows : c[n] = rows[k]
    <2>1. IC!PageSize \in Nat
        BY DEF IC!PageSize
    <2>2. c = Chunk(rows, IC!PageSize, query.pageNum)
        BY DEF c
    <2>3. PICK size \in Nat : size = IC!PageSize
        BY <2>1
    <2>4. PICK page \in Nat \ {0} : page = query.pageNum
        OBVIOUS
    <2>5. c = Chunk(rows, size, page) /\ IsQueue(rows)
        BY <1>5, <2>2, <2>3, <2>4
    <2> QED BY <2>5, ChunkOfRows
<1> QED BY <1>1, <1>3, <1>6, <1>7

LEMMA IcHistoryCall ==
    ASSUME NEW p
    PROVE  /\ IsCall(AskFrom(p, "history", p), IC!Requests)
           /\ AskFrom(p, "history", p).op = "history" /\ AskFrom(p, "history", p).answer = Waiting
<1>1. "history" \in IC!Requests
    BY DEF IC!Requests
<1> QED BY <1>1, AskedCall

\* The histories a list asks for when it arrives.
LEMMA IcAsked ==
    ASSUME NEW list, IsQueue(list), NEW noted,
           noted = IC!Picked(list, {k \in DOMAIN list : list[k].history}),
           NEW asked,
           asked = [k \in DOMAIN noted |-> IC!AskFrom(noted[k].partyId, "history", noted[k].partyId)]
    PROVE  /\ AreCalls(asked, IC!Requests)
           /\ \A e \in Range(asked) : e.op = "history" /\ e.answer = Waiting
<1> DEFINE places == {k \in DOMAIN list : list[k].history}
<1>1. places \in SUBSET DOMAIN list
    OBVIOUS
<1>2. noted = Picked(list, places)
    BY ICRows
<1> HIDE DEF places
<1>3. IsQueue(noted) /\ Len(noted) \in Nat /\ DOMAIN noted = 1 .. Len(noted)
    BY <1>1, <1>2, PickedRows, QueueFacts
<1>4. \A k \in DOMAIN noted :
         asked[k] = AskFrom(noted[k].partyId, "history", noted[k].partyId)
    BY ICIsPage
<1>5. \A k \in DOMAIN noted :
         IsCall(asked[k], IC!Requests) /\ asked[k].op = "history" /\ asked[k].answer = Waiting
    <2> SUFFICES ASSUME NEW k \in DOMAIN noted
                 PROVE  /\ IsCall(asked[k], IC!Requests) /\ asked[k].op = "history"
                        /\ asked[k].answer = Waiting
        OBVIOUS
    <2> DEFINE p == noted[k].partyId
    <2>1. asked[k] = AskFrom(p, "history", p)
        BY <1>4
    <2> HIDE DEF p
    <2> QED BY <2>1, IcHistoryCall
<1>6. AreCalls(asked, IC!Requests)
    BY <1>3, <1>5, ManyAreCalls
<1>7. \A e \in Range(asked) : e.op = "history" /\ e.answer = Waiting
    BY <1>5 DEF Range
<1> QED BY <1>6, <1>7

LEMMA CasesMove ==
    ASSUME IcInv, CallsInv(IC!Requests), IC!Next
    PROVE  Moves(IC!Requests)
<1>1. ASSUME NEW x,
             \/ IC!ChooseRole(x) \/ IC!handleCurrentChange(x) \/ IC!testTelnet(x)
             \/ IC!ShowHistory(x) \/ IC!upDate(x) \/ IC!editData(x) \/ IC!deal(x) \/ IC!updateIp(x)
      PROVE  Moves(IC!Requests)
    BY <1>1, ICMoves
       DEF IC!ChooseRole, IC!handleCurrentChange, IC!testTelnet, IC!ShowHistory, IC!upDate,
           IC!editData, IC!deal, IC!updateIp, IC!initList, IC!Requests
<1>2. CASE IC!ChooseRadio \/ IC!toSearch \/ IC!Switch \/ IC!toaction \/ IC!toSureEdit \/ IC!Cancel
    BY <1>2, ICMoves
       DEF IC!ChooseRadio, IC!toSearch, IC!Switch, IC!toaction, IC!toSureEdit, IC!Cancel,
           IC!initList, IC!Requests
<1>3. ASSUME NEW i \in DOMAIN calls, IC!ServeChange(i) \/ IC!ServeList(i) \/ IC!Fail(i)
      PROVE  Moves(IC!Requests)
    <2>1. CASE IC!ServeChange(i)
        <3>1. IC!Reply(i, IC!Ok(0)) \/ IC!Reply(i, IC!Refused)
            BY <2>1 DEF IC!ServeChange
        <3> QED BY <3>1, ICMoves
    <2>2. CASE IC!ServeList(i)
        BY <2>2, ICMoves DEF IC!ServeList
    <2> QED BY <1>3, <2>1, <2>2, ICMoves
<1>4. ASSUME NEW i \in DOMAIN calls, IC!ListThen(i)
      PROVE  Moves(IC!Requests)
    <2> DEFINE list == IC!Data(i).list
               noted == IC!Picked(list, {k \in DOMAIN list : list[k].history})
               asked == [k \in DOMAIN noted |->
                           IC!AskFrom(noted[k].partyId, "history", noted[k].partyId)]
    <2>1. IC!Handled(i, asked) /\ calls[i].op = "list" /\ calls[i].answer.code = "ok"
        BY <1>4 DEF IC!ListThen, IC!Got
    <2>2. IsQueue(list)
        BY <2>1 DEF IcInv, IcCall, Range, IC!Data
    <2> HIDE DEF list
    <2>3. AreCalls(asked, IC!Requests)
        BY <2>2, IcAsked
    <2> HIDE DEF asked
    <2> QED BY <2>1, <2>3, ICMoves
<1>5. ASSUME NEW i \in DOMAIN calls,
             \/ IC!HistoryThen(i) \/ IC!ChoicesThen(i) \/ IC!ChangedThen(i) \/ IC!TelnetThen(i)
             \/ IC!Ignores(i)
      PROVE  Moves(IC!Requests)
    BY <1>5, ICMoves
       DEF IC!HistoryThen, IC!ChoicesThen, IC!ChangedThen, IC!TelnetThen, IC!Ignores, IC!initList,
           IC!Requests
<1> QED BY <1>1, <1>2, <1>3, <1>4, <1>5 DEF IC!Next, IC!Acts

\* The form after a step: it holds a switch, or is what it was.
IcKeeps ==
    view'.dialog \in {"edit", "sure"} =>
        \/ view'.tempSiteNet.secureStatus \in IcSwitches
        \/ /\ view.dialog \in {"edit", "sure"}
           /\ view'.tempSiteNet.secureStatus = view.tempSiteNet.secureStatus

\* A click that sends nothing of a switch.
LEMMA IcActed ==
    ASSUME IcInv, CallsInv(IC!Requests), NEW asked, AreCalls(asked, IC!Requests), IC!Click(asked),
           \A e \in Range(asked) : IcCall(e) /\ e.op # "edit",
           IcView', IcKeeps
    PROVE  IcInv'
<1>1. /\ Range(calls') = Range(calls) \cup Range(asked) /\ server' = server
      /\ mishaps \subseteq mishaps'
    BY ICIsPage, ClickedSet DEF CallsInv
<1>2. IcServer'
    BY <1>1 DEF IcInv, IcServer
<1>3. \A e \in Range(calls') : IcCall(e)
    BY <1>1 DEF IcInv
<1>4. ASSUME IcClean' PROVE IcForm' /\ \A e \in Range(calls') : IcSent(e)
    <2>1. IcClean
        BY <1>1, <1>4 DEF IcClean
    <2>2. IcForm /\ \A e \in Range(calls) : IcSent(e)
        BY <2>1 DEF IcInv
    <2>3. \A e \in Range(calls') : IcSent(e)
        BY <1>1, <2>2 DEF IcSent
    <2>4. IcForm'
        BY <1>1, <2>2 DEF IcForm, IcKeeps
    <2> QED BY <2>3, <2>4
<1> QED BY <1>2, <1>3, <1>4 DEF IcInv

\* An answer to something else than an update, and what is asked after it.
LEMMA IcHandled ==
    ASSUME IcInv, CallsInv(IC!Requests), NEW i \in DOMAIN calls, NEW asked,
           AreCalls(asked, IC!Requests), IC!Handled(i, asked),
           \A e \in Range(asked) : IcCall(e) /\ e.op # "edit",
           IcView', IcKeeps,
           calls[i].op = "edit" => view'.dialog = "none" \/ calls[i].answer.code \in {"failed", "refused"}
    PROVE  IcInv'
<1>1. /\ Range(calls') \subseteq Range(calls) \cup Range(asked) /\ server' = server
      /\ Range(calls) \subseteq Range(calls') \cup {calls[i]}
      /\ mishaps \subseteq mishaps' /\ calls[i] \in Range(calls)
    BY ICIsPage, HandledSet DEF CallsInv
<1>2. IcServer'
    BY <1>1 DEF IcInv, IcServer
<1>3. \A e \in Range(calls') : IcCall(e)
    BY <1>1 DEF IcInv
<1>4. ASSUME IcClean' PROVE IcForm' /\ \A e \in Range(calls') : IcSent(e)
    <2>1. IcClean
        BY <1>1, <1>4 DEF IcClean
    <2>2. IcForm /\ \A e \in Range(calls) : IcSent(e)
        BY <2>1 DEF IcInv
    <2>3. \A e \in Range(calls') : IcSent(e)
        BY <1>1, <2>2 DEF IcSent
    <2>4. calls[i].op = "edit" => view'.dialog = "none"
        BY <1>1, <2>2 DEF IcSent
    <2>5. IcForm'
        BY <1>1, <2>2, <2>4 DEF IcForm, IcKeeps
    <2> QED BY <2>3, <2>5
<1> QED BY <1>2, <1>3, <1>4 DEF IcInv

\* The requests and the form stay what they are when an answer is given.
LEMMA IcAnswered ==
    ASSUME IcInv, CallsInv(IC!Requests), NEW i \in DOMAIN calls, NEW a, a.code \in Codes,
           calls' = Answered(calls, i, a), view' = view, mishaps \subseteq mishaps', IcServer',
           calls[i].op = "list" /\ a.code = "ok" =>
              /\ IsQueue(a.data.list) /\ a.data.totalRecord \in Nat
              /\ \A k \in DOMAIN a.data.list : a.data.list[k].secureStatus \in IcCodes,
           calls[i].op = "edit" /\ IcClean' /\ calls[i].arg.secureStatus \in IcCodes =>
              a.code = "ok"
    PROVE  IcInv'
<1>1. /\ \A e \in Range(calls') :
            \/ e \in Range(calls)
            \/ e.op = calls[i].op /\ e.arg = calls[i].arg /\ e.part = calls[i].part /\ e.answer = a
      /\ \A e \in Range(calls) : \E f \in Range(calls') : f.op = e.op
      /\ calls[i] \in Range(calls)
    BY AnsweredSet DEF CallsInv
<1>2. \A e \in Range(calls') : IcCall(e)
    BY <1>1 DEF IcInv, IcCall
<1>3. IcView'
    BY DEF IcInv, IcView
<1>4. ASSUME IcClean' PROVE IcForm' /\ \A e \in Range(calls') : IcSent(e)
    <2>1. IcClean
        BY <1>4 DEF IcClean
    <2>2. IcForm /\ \A e \in Range(calls) : IcSent(e)
        BY <2>1 DEF IcInv
    <2>3. \A e \in Range(calls') : IcSent(e)
        BY <1>1, <1>4, <2>2 DEF IcSent
    <2>4. IcForm'
        BY <1>1, <2>2 DEF IcForm
    <2> QED BY <2>3, <2>4
<1> QED BY <1>2, <1>3, <1>4 DEF IcInv

\* What the page asks by itself.
LEMMA IcListCall ==
    ASSUME NEW v, v.pageNum \in Nat \ {0}, NEW s, s = IC!initList(v)
    PROVE  AreCalls(s, IC!Requests) /\ \A e \in Range(s) : IcCall(e) /\ e.op # "edit"
<1> DEFINE q == IC!Query(v)
<1>1. s = <<Ask("list", q)>>
    BY ICIsPage DEF IC!initList
<1>2. AreCalls(s, IC!Requests)
    BY <1>1, OneAsked DEF IC!Requests
<1>3. Range(s) = {Ask("list", q)}
    BY <1>1, SetOfFew
<1>4. IcCall(Ask("list", q)) /\ Ask("list", q).op # "edit"
    BY DEF Ask, Call, IcCall, IC!Query, Waiting
<1> QED BY <1>2, <1>3, <1>4

LEMMA CasesAct ==
    ASSUME IcInv, CallsInv(IC!Requests), IC!Acts
    PROVE  IcInv'
<1>0. AreCalls(<<>>, IC!Requests) /\ Range(<<>>) = {}
    BY NoneAreCalls, SetOfFew
<1>a. IcView
    BY DEF IcInv
<1>b. ASSUME NEW v, v.pageNum \in Nat \ {0}, IC!Click(IC!initList(v)), IcView', IcKeeps
      PROVE  IcInv'
    BY <1>b, IcListCall, IcActed
<1>1. ASSUME NEW role, IC!ChooseRole(role)
      PROVE  IcInv'
    <2>1. IC!Click(<<>>) /\ view' = [view EXCEPT !.role = role]
        BY <1>1 DEF IC!ChooseRole
    <2>2. IcView' /\ IcKeeps
        BY <1>a, <2>1 DEF IcView, IcKeeps
    <2> QED BY <1>0, <2>1, <2>2, IcActed
<1>2. ASSUME NEW p \in IC!PagesOf(view.total, IC!PageSize), IC!handleCurrentChange(p)
      PROVE  IcInv'
    <2>1. p \in Nat \ {0}
        <3>1. (view.total + 2 - 1) \div 2 \in Int
            BY <1>a DEF IcView
        <3>2. p \in 1 .. ((view.total + 2 - 1) \div 2)
            BY DEF IC!PagesOf, IC!PageSize
        <3> QED BY <3>1, <3>2
    <2>2. IC!Click(IC!initList(view')) /\ view' = IC!Asking([view EXCEPT !.pageNum = p])
        BY <1>2 DEF IC!handleCurrentChange
    <2>3. IcView' /\ IcKeeps /\ view'.pageNum = p
        BY <1>a, <2>1, <2>2 DEF IcView, IcKeeps, IC!Asking
    <2> QED BY <1>b, <2>1, <2>2, <2>3
<1>3. CASE IC!toSearch
    <2>2. IC!Click(IC!initList(view')) /\ view' = IC!Asking([view EXCEPT !.pageNum = 1])
        BY <1>3 DEF IC!toSearch
    <2>3. IcView' /\ IcKeeps /\ view'.pageNum = 1
        BY <1>a, <2>2 DEF IcView, IcKeeps, IC!Asking
    <2> QED BY <1>b, <2>2, <2>3
<1>4. ASSUME NEW op \in {"telnet", "deal"}, NEW arg, IC!Click(<<IC!Ask(op, arg)>>), view' = view
      PROVE  IcInv'
    <2> DEFINE c == Ask(op, arg)
    <2>1. AreCalls(<<c>>, IC!Requests) /\ Range(<<c>>) = {c}
        BY OneAsked, SetOfFew DEF IC!Requests
    <2>2. c.op = op
        BY DEF Ask, Call
    <2>3. IC!Click(<<c>>)
        BY <1>4, ICIsPage
    <2> HIDE DEF c
    <2>4. IcCall(c) /\ c.op # "edit"
        BY <2>2 DEF IcCall
    <2>5. IcView' /\ IcKeeps
        BY <1>a, <1>4 DEF IcView, IcKeeps
    <2> QED BY <2>1, <2>3, <2>4, <2>5, IcActed
<1>5. ASSUME NEW p, IC!testTelnet(p)
      PROVE  IcInv'
    BY <1>4, <1>5 DEF IC!testTelnet
<1>6. ASSUME NEW s, IC!deal(s)
      PROVE  IcInv'
    BY <1>4, <1>6 DEF IC!deal
<1>7. ASSUME NEW p, IC!ShowHistory(p) \/ IC!upDate(p)
      PROVE  IcInv'
    <2>1. IC!Click(<<>>)
        BY <1>7 DEF IC!ShowHistory, IC!upDate
    <2>2. IcView' /\ IcKeeps
        BY <1>a, <1>7 DEF IcView, IcKeeps, IC!ShowHistory, IC!upDate
    <2> QED BY <1>0, <2>1, <2>2, IcActed
<1>8. ASSUME NEW p \in IC!Parties, IC!editData(p)
      PROVE  IcInv'
    <2> DEFINE form == [partyId |-> p, network |-> IC!Row(view, p).network,
                        secureStatus |-> IC!getStuts(IC!Row(view, p).secureStatus)]
    <2>1. /\ IC!Click(<<>>) /\ p \in IC!Shown(view)
          /\ view' = [view EXCEPT !.dialog = "edit", !.tempSiteNet = form, !.cacheTempSiteNet = form]
        BY <1>8 DEF IC!editData, IC!RowControls
    <2>2. IC!Row(view, p).secureStatus \in IcCodes
        BY <1>a, <2>1 DEF IC!Row, IC!Shown, IcView
    <2>3. form.secureStatus \in IcSwitches
        BY <2>2 DEF IC!getStuts, IcCodes, IcSwitches
    <2>4. DOMAIN form = {"partyId", "network", "secureStatus"}
        OBVIOUS
    <2> HIDE DEF form
    <2>5. IcView' /\ IcKeeps
        BY <1>a, <2>1, <2>3, <2>4 DEF IcView, IcKeeps
    <2> QED BY <1>0, <2>1, <2>5, IcActed
<1>9. ASSUME NEW n, IC!updateIp(n)
      PROVE  IcInv'
    <2>1. /\ IC!Click(<<>>) /\ view.dialog = "edit"
          /\ view' = [view EXCEPT !.tempSiteNet = [@ EXCEPT !.network = n]]
        BY <1>9 DEF IC!updateIp
    <2>2. IcView' /\ IcKeeps
        BY <1>a, <2>1 DEF IcView, IcKeeps
    <2> QED BY <1>0, <2>1, <2>2, IcActed
<1>10. CASE IC!Switch
    <2>1. /\ IC!Click(<<>>) /\ view.dialog = "edit"
          /\ view' = [view EXCEPT !.tempSiteNet.secureStatus =
                        IF view.tempSiteNet.secureStatus = "on" THEN "off" ELSE "on"]
        BY <1>10 DEF IC!Switch
    <2>2. IcView' /\ IcKeeps
        BY <1>a, <2>1 DEF IcView, IcKeeps, IcSwitches
    <2> QED BY <1>0, <2>1, <2>2, IcActed
<1>11. CASE IC!ChooseRadio \/ IC!toaction \/ IC!Cancel
    <2>1. IC!Click(<<>>)
        BY <1>11 DEF IC!ChooseRadio, IC!toaction, IC!Cancel
    <2>2. IcView' /\ IcKeeps
        <3>1. CASE IC!ChooseRadio
            BY <1>a, <3>1 DEF IcView, IcKeeps, IC!ChooseRadio
        <3>2. CASE IC!toaction
            BY <1>a, <3>2 DEF IcView, IcKeeps, IC!toaction
        <3>3. CASE IC!Cancel
            <4>1. /\ view.dialog # "none"
                  /\ view' \in {[view EXCEPT !.dialog = "none"],
                       [view EXCEPT !.dialog = "none", !.tempSiteNet = view.cacheTempSiteNet]}
                     \/ (view.dialog = "sure" /\ view' = [view EXCEPT !.dialog = "edit"])
                BY <1>a, <3>3 DEF IC!Cancel, IcView
            <4> QED BY <1>a, <4>1 DEF IcView, IcKeeps
        <3> QED BY <1>11, <3>1, <3>2, <3>3
    <2> QED BY <1>0, <2>1, <2>2, IcActed
<1>12. CASE IC!toSureEdit
    <2> DEFINE c == Ask("edit", view'.tempSiteNet)
    <2>1. /\ view.dialog = "sure" /\ IC!Click(<<IC!Ask("edit", view'.tempSiteNet)>>)
          /\ view' = [view EXCEPT !.dialog = "edit",
                        !.tempSiteNet.secureStatus = IC!getStuts(view.tempSiteNet.secureStatus)]
        BY <1>12 DEF IC!toSureEdit
    <2>2. AreCalls(<<c>>, IC!Requests) /\ Range(<<c>>) = {c}
        BY OneAsked, SetOfFew DEF IC!Requests
    <2>3. /\ c.op = "edit" /\ c.part = 0 /\ c.answer.code = "waiting"
          /\ c.arg.secureStatus = view'.tempSiteNet.secureStatus
        BY DEF Ask, Call, Waiting
    <2>4. IC!Click(<<c>>)
        BY <2>1, ICIsPage
    <2> HIDE DEF c
    <2>5. /\ Range(calls') = Range(calls) \cup {c} /\ server' = server /\ mishaps \subseteq mishaps'
          /\ \A e \in Range(calls) : e.op = "edit" /\ e.part = 0 => "overlapped" \in mishaps'
        <3>1. Clicked(<<c>>)
            BY <2>4, ICIsPage
        <3> QED BY <2>2, <2>3, <3>1, ClickedSet DEF CallsInv
    <2>6. IcView' /\ view'.tempSiteNet.secureStatus = IC!getStuts(view.tempSiteNet.secureStatus)
        BY <1>a, <2>1 DEF IcView
    <2>7. \A e \in Range(calls') : IcCall(e)
        BY <2>3, <2>5 DEF IcInv, IcCall
    <2>8. ASSUME IcClean' PROVE IcForm' /\ \A e \in Range(calls') : IcSent(e)
        <3>1. IcClean /\ "overlapped" \notin mishaps'
            BY <2>5, <2>8 DEF IcClean
        <3>2. \A e \in Range(calls) : e.op # "edit"
            BY <2>5, <3>1 DEF IcInv, IcCall
        <3>3. view.tempSiteNet.secureStatus \in IcSwitches
            BY <2>1, <3>1, <3>2 DEF IcInv, IcForm
        <3>4. c.arg.secureStatus \in IcCodes
            BY <2>3, <2>6, <3>3 DEF IC!getStuts, IcCodes, IcSwitches
        <3>5. \A e \in Range(calls') : IcSent(e)
            BY <2>3, <2>5, <3>2, <3>4 DEF IcSent
        <3>6. IcForm'
            BY <2>3, <2>5 DEF IcForm
        <3> QED BY <3>5, <3>6
    <2>9. IcServer'
        BY <2>5 DEF IcInv, IcServer
    <2> QED BY <2>6, <2>7, <2>8, <2>9 DEF IcInv
<1> QED BY <1>1, <1>2, <1>3, <1>5, <1>6, <1>7, <1>8, <1>9, <1>10, <1>11, <1>12 DEF IC!Acts

LEMMA CasesServed ==
    ASSUME IcInv, CallsInv(IC!Requests), NEW i \in DOMAIN calls,
           IC!ServeChange(i) \/ IC!ServeList(i) \/ IC!Fail(i)
    PROVE  IcInv'
<1>a. IcServer
    BY DEF IcInv
<1>1. CASE IC!ServeList(i)
    <2> DEFINE d == IC!ipList(calls[i].arg)
    <2>1. calls[i].op = "list" /\ Reply(i, Ok(d)) /\ server' = server
        BY <1>1, ICIsPage DEF IC!ServeList
    <2>2. calls[i].arg.pageNum \in Nat \ {0}
        BY <2>1 DEF IcInv, IcCall, Range
    <2>3. /\ IsQueue(d.list) /\ d.totalRecord \in Nat
          /\ \A k \in DOMAIN d.list : d.list[k].secureStatus \in IcCodes
        BY <1>a, <2>2, IcListOf
    <2> HIDE DEF d
    <2>4. Ok(d).code = "ok" /\ Ok(d).data = d /\ Ok(d).code \in Codes
        BY DEF Ok, Codes
    <2>5. calls' = Answered(calls, i, Ok(d)) /\ view' = view /\ mishaps' = mishaps
        BY <2>1, ReplyIsAnswered
    <2>6. IcServer'
        BY <1>a, <2>1 DEF IcServer
    <2> QED BY <2>1, <2>3, <2>4, <2>5, <2>6, IcAnswered
<1>2. CASE IC!Fail(i)
    <2>1. /\ calls' = Answered(calls, i, Failed) /\ view' = view /\ server' = server
          /\ mishaps' = mishaps \cup {"failed"}
        BY <1>2, ICIsPage DEF FailedWith
    <2>2. Failed.code = "failed" /\ Failed.code \in Codes
        BY DEF Failed, Codes
    <2>3. IcServer' /\ ~IcClean'
        BY <1>a, <2>1 DEF IcServer, IcClean
    <2> QED BY <2>1, <2>2, <2>3, IcAnswered
<1>3. CASE IC!ServeChange(i)
    <2> DEFINE data == calls[i].arg
               coded == data.secureStatus \in {"1", "2"}
    <2>1. CASE calls[i].op = "deal"
        <3>1. /\ Reply(i, Ok(0))
              /\ server' = [server EXCEPT ![data.partyId] =
                    IC!Changed(@, IF data.status = IC!Agreed THEN server[data.partyId].wanted
                                  ELSE server[data.partyId].network,
                               <<data.status, server[data.partyId].network,
                                 server[data.partyId].wanted>>)]
            BY <1>3, <2>1, ICIsPage DEF IC!ServeChange
        <3>2. \A n, e, site : IC!Changed(site, n, e) =
                 [site EXCEPT !.network = n, !.wanted = "", !.history = <<e>> \o site.history]
            BY DEF IC!Changed
        <3>3. IcServer'
            BY <1>a, <3>1, <3>2 DEF IcServer
        <3>4. calls' = Answered(calls, i, Ok(0)) /\ view' = view /\ mishaps' = mishaps
            BY <3>1, ReplyIsAnswered
        <3>5. Ok(0).code = "ok" /\ Ok(0).code \in Codes
            BY DEF Ok, Codes
        <3> QED BY <2>1, <3>3, <3>4, <3>5, IcAnswered
    <2>2. CASE calls[i].op = "edit"
        <3>1. /\ Reply(i, IF coded THEN Ok(0) ELSE Refused)
              /\ server' = IF ~coded THEN server
                           ELSE [server EXCEPT ![data.partyId].network = data.network,
                                               ![data.partyId].secureStatus = data.secureStatus]
            BY <1>3, <2>2, ICIsPage DEF IC!ServeChange
        <3>2. IcServer'
            <4>1. CASE ~coded
                BY <1>a, <3>1, <4>1 DEF IcServer
            <4>2. CASE coded
                BY <1>a, <3>1, <4>2 DEF IcServer, IcCodes
            <4> QED BY <4>1, <4>2
        <3>3. /\ Ok(0).code = "ok" /\ Ok(0).code \in Codes /\ Refused.code \in Codes
            BY DEF Ok, Refused, Codes
        <3> DEFINE a == IF coded THEN Ok(0) ELSE Refused
        <3>4. a.code \in Codes /\ (data.secureStatus \in IcCodes => a.code = "ok")
            BY <3>3 DEF IcCodes
        <3>5. Reply(i, a)
            BY <3>1
        <3> HIDE DEF a
        <3>6. calls' = Answered(calls, i, a) /\ view' = view /\ mishaps' = mishaps
            BY <3>5, ReplyIsAnswered
        <3> QED BY <2>2, <3>2, <3>4, <3>6, IcAnswered
    <2> QED BY <1>3, <2>1, <2>2 DEF IC!ServeChange
<1> QED BY <1>1, <1>2, <1>3

LEMMA CasesThen ==
    ASSUME IcInv, CallsInv(IC!Requests), NEW i \in DOMAIN calls,
           \/ IC!ListThen(i) \/ IC!HistoryThen(i) \/ IC!ChoicesThen(i) \/ IC!ChangedThen(i)
           \/ IC!TelnetThen(i) \/ IC!Ignores(i)
    PROVE  IcInv'
<1>0. AreCalls(<<>>, IC!Requests) /\ Range(<<>>) = {}
    BY NoneAreCalls, SetOfFew
<1>a. IcView
    BY DEF IcInv
<1>1. CASE IC!ListThen(i)
    <2> DEFINE list == IC!Data(i).list
               noted == IC!Picked(list, {k \in DOMAIN list : list[k].history})
               asked == [k \in DOMAIN noted |->
                           IC!AskFrom(noted[k].partyId, "history", noted[k].partyId)]
    <2>1. /\ IC!Handled(i, asked) /\ calls[i].op = "list" /\ calls[i].answer.code = "ok"
          /\ view' = [view EXCEPT !.tableData = list, !.total = IC!Data(i).totalRecord, !.opened = 0,
                                  !.historylist = [p \in {} |-> <<>>]]
        BY <1>1 DEF IC!ListThen, IC!Got
    <2>2. /\ IsQueue(list) /\ IC!Data(i).totalRecord \in Nat
          /\ \A k \in DOMAIN list : list[k].secureStatus \in IcCodes
        BY <2>1 DEF IcInv, IcCall, Range, IC!Data
    <2> HIDE DEF list
    <2>3. /\ AreCalls(asked, IC!Requests)
          /\ \A e \in Range(asked) : e.op = "history" /\ e.answer = Waiting
        BY <2>2, IcAsked
    <2> HIDE DEF asked
    <2>4. \A e \in Range(asked) : IcCall(e) /\ e.op # "edit"
        BY <2>3 DEF IcCall
    <2>5. IcView' /\ IcKeeps
        BY <1>a, <2>1, <2>2 DEF IcView, IcKeeps
    <2> QED BY <2>1, <2>3, <2>4, <2>5, IcHandled
<1>2. CASE IC!ChangedThen(i)
    <2>1. /\ IC!Handled(i, IC!initList(view))
          /\ view' = IC!Asking([view EXCEPT !.dialog = "none"])
        BY <1>2 DEF IC!ChangedThen
    <2>2. IcView' /\ IcKeeps /\ view'.dialog = "none" /\ view.pageNum \in Nat \ {0}
        BY <1>a, <2>1 DEF IcView, IcKeeps, IC!Asking
    <2> QED BY <2>1, <2>2, IcListCall, IcHandled
<1>3. CASE IC!HistoryThen(i) \/ IC!ChoicesThen(i) \/ IC!TelnetThen(i) \/ IC!Ignores(i)
    <2>1. IC!Handled(i, <<>>)
        BY <1>3 DEF IC!HistoryThen, IC!ChoicesThen, IC!TelnetThen, IC!Ignores
    <2>2. calls[i].op = "edit" => calls[i].answer.code \in {"failed", "refused"}
        BY <1>3
           DEF IC!HistoryThen, IC!ChoicesThen, IC!TelnetThen, IC!Ignores, IC!Arrives, IC!Failed,
               IC!Refused
    <2>3. IcView' /\ IcKeeps
        BY <1>a, <1>3
           DEF IcView, IcKeeps, IC!HistoryThen, IC!ChoicesThen, IC!TelnetThen, IC!Ignores
    <2> QED BY <1>0, <2>1, <2>2, <2>3, IcHandled
<1> QED BY <1>1, <1>2, <1>3

LEMMA CasesKept ==
    ASSUME IcInv, CallsInv(IC!Requests), IC!Next
    PROVE  IcInv'
BY CasesAct, CasesServed, CasesThen DEF IC!Next

LEMMA CasesStart ==
    ASSUME IC!Init
    PROVE  CallsInv(IC!Requests) /\ OverlayHasCall /\ IcInv
<1> DEFINE l == Ask("list", IC!Query(view))
           c == AskQuietly("choices", 0)
<1>1. /\ view = IC!Entered /\ Created(<<IC!Ask("list", IC!Query(view))>> \o <<IC!AskQuietly("choices", 0)>>)
    BY ICIsPage DEF IC!Init, IC!initList
<1>2. Created(<<l, c>>)
    <2>1. Created(<<l>> \o <<c>>)
        BY <1>1, ICIsPage
    <2> HIDE DEF l, c
    <2> QED BY <2>1, OneAfterOne
<1>3. IsCall(l, IC!Requests) /\ IsCall(c, IC!Requests)
    BY DEF Ask, AskQuietly, Call, IsCall, IC!Requests, Waiting, Codes
<1>4. /\ l.op = "list" /\ l.arg = IC!Query(view) /\ l.answer.code = "waiting"
      /\ c.op = "choices" /\ c.answer.code = "waiting" /\ ~l.quiet
    BY DEF Ask, AskQuietly, Call, Waiting
<1> HIDE DEF l, c
<1>5. /\ AreCalls(<<l, c>>, IC!Requests) /\ Range(<<l, c>>) = {l, c}
      /\ calls = <<l, c>> /\ mishaps = {} /\ steps = 0 /\ busy = Loud(calls)
    BY <1>2, <1>3, TwoAreCalls, SetOfFew DEF Created
<1>6. CallsInv(IC!Requests) /\ OverlayHasCall
    BY <1>5 DEF CallsInv, OverlayHasCall, Loud
<1>7. IcView /\ view.pageNum = 1 /\ view.dialog = "none"
    <2>1. DOMAIN <<>> = {}
        OBVIOUS
    <2>2. /\ DOMAIN IC!NoForm = {"partyId", "network", "secureStatus"}
          /\ IC!NoForm.secureStatus \in IcSwitches
        BY DEF IC!NoForm, IcSwitches
    <2>3. /\ view.tempSiteNet = IC!NoForm /\ view.cacheTempSiteNet = IC!NoForm
          /\ view.tableData = <<>> /\ view.total = 0 /\ view.pageNum = 1 /\ view.dialog = "none"
          /\ DOMAIN view =
              {"radio", "role", "pageNum", "tableData", "total", "historylist", "opened",
               "dialogData", "dialog", "tempSiteNet", "cacheTempSiteNet", "choices", "asked"}
        BY <1>1 DEF IC!Entered
    <2> QED BY <2>1, <2>2, <2>3 DEF IcView
<1>8. \A e \in Range(calls) : IcCall(e) /\ IcSent(e)
    BY <1>4, <1>5, <1>7 DEF IcCall, IcSent, IC!Query
<1>9. IcServer
    <2>1. server = << IC!Site(1, "1", "y", << <<IC!Rejected, "x", "y">> >>),
                      IC!Site(2, "2", "", << <<IC!Agreed, "y", "x">> >>), IC!Site(1, "1", "", <<>>) >>
        BY DEF IC!Init
    <2>2. \A r, s, w, h : /\ DOMAIN IC!Site(r, s, w, h) =
                                {"role", "network", "secureStatus", "wanted", "history"}
                          /\ IC!Site(r, s, w, h).secureStatus = s
        BY DEF IC!Site
    <2>3. \A a, b, c1 : DOMAIN <<a, b, c1>> = {1, 2, 3} /\ <<a, b, c1>>[1] = a
                         /\ <<a, b, c1>>[2] = b /\ <<a, b, c1>>[3] = c1
        OBVIOUS
    <2> DEFINE x == IC!Site(1, "1", "y", << <<IC!Rejected, "x", "y">> >>)
               y == IC!Site(2, "2", "", << <<IC!Agreed, "y", "x">> >>)
               z == IC!Site(1, "1", "", <<>>)
               F == {"role", "network", "secureStatus", "wanted", "history"}
    <2>4. /\ DOMAIN x = F /\ DOMAIN y = F /\ DOMAIN z = F
          /\ x.secureStatus = "1" /\ y.secureStatus = "2" /\ z.secureStatus = "1"
        BY <2>2
    <2>5. server = <<x, y, z>>
        BY <2>1
    <2> HIDE DEF x, y, z
    <2>6. DOMAIN server = {1, 2, 3} /\ server[1] = x /\ server[2] = y /\ server[3] = z
        BY <2>3, <2>5
    <2> QED BY <2>4, <2>6 DEF IcServer, IC!Parties, IcCodes
<1>10. IcForm
    BY <1>7 DEF IcForm
<1> QED BY <1>6, <1>7, <1>8, <1>9, <1>10 DEF IcInv

LEMMA CasesSend ==
    ASSUME IcInv
    PROVE  IC!CodeIsSent
BY DEF IcInv, IC!CodeIsSent, IcClean, IcSent, Range, IcCodes


-----------------------------------------------------------------------------
(* The pages together.                                                     *)

\* The pages that leave the overlay to utils/request.js.
PlainPage(ops) == CallsInv(ops) /\ OverlayHasCall

IInv ==
    \/ section = "siteadd" /\ PlainPage(SF!Requests) /\ SfShape /\ SfFair
    \/ section = "Site Manage" /\ CallsInv(SL!Requests) /\ SlPlain /\ SlEnds /\ SlFair
    \/ section = "sitetable" /\ PlainPage(ST!Requests)
    \/ section = "ipaddrollsite" /\ PlainPage(RF!Requests) /\ RfInv
    \/ section = "ipexchange" /\ PlainPage(EX!Requests) /\ ExInv
    \/ section = "Add an Exchange" /\ PlainPage(EF!Requests) /\ EfInv
    \/ section = "ipeditadd" /\ PlainPage(AL!Requests) /\ AlInv
    \/ section = "IP Manage" /\ PlainPage(IC!Requests) /\ IcInv

LEMMA InitIInv ==
    Init => IInv
<1> SUFFICES ASSUME Init PROVE IInv
    OBVIOUS
<1>1. CASE section = "siteadd" /\ SF!Init
    BY <1>1, FormStart, FormStartFair DEF IInv, PlainPage
<1>2. CASE section = "Site Manage" /\ SL!Init
    BY <1>2, SitesListStart, SitesListFairStart DEF IInv
<1>3. CASE section = "sitetable" /\ ST!Init
    BY <1>3, SiteTablesStart DEF IInv, PlainPage
<1>4. CASE section = "ipaddrollsite" /\ RF!Init
    BY <1>4, RollSitesStart DEF IInv, PlainPage
<1>5. CASE section = "ipexchange" /\ EX!Init
    BY <1>5, ExchangesStart DEF IInv, PlainPage
<1>6. CASE section = "Add an Exchange" /\ EF!Init
    BY <1>6, ExchangeFormStart DEF IInv, PlainPage
<1>7. CASE section = "ipeditadd" /\ AL!Init
    BY <1>7, AddressesStart DEF IInv, PlainPage
<1>8. CASE section = "IP Manage" /\ IC!Init
    BY <1>8, CasesStart DEF IInv, PlainPage
<1> QED BY <1>1, <1>2, <1>3, <1>4, <1>5, <1>6, <1>7, <1>8 DEF Init

LEMMA PlainPageKept ==
    ASSUME NEW ops, PlainPage(ops), Moves(ops)
    PROVE  PlainPage(ops)'
BY MovesKeepOverlay, CarriesKeepsCalls DEF PlainPage, Moves

\* Of a page that is shown, its own part of the invariant holds.
LEMMA PartOfSection ==
    ASSUME IInv
    PROVE  /\ section = "siteadd" => PlainPage(SF!Requests) /\ SfShape /\ SfFair
           /\ section = "Site Manage" => CallsInv(SL!Requests) /\ SlPlain /\ SlEnds /\ SlFair
           /\ section = "sitetable" => PlainPage(ST!Requests)
           /\ section = "ipaddrollsite" => PlainPage(RF!Requests) /\ RfInv
           /\ section = "ipexchange" => PlainPage(EX!Requests) /\ ExInv
           /\ section = "Add an Exchange" => PlainPage(EF!Requests) /\ EfInv
           /\ section = "ipeditadd" => PlainPage(AL!Requests) /\ AlInv
           /\ section = "IP Manage" => PlainPage(IC!Requests) /\ IcInv
BY DEF IInv

LEMMA NextIInv ==
    IInv /\ [Next]_vars => IInv'
<1> SUFFICES ASSUME IInv, [Next]_vars PROVE IInv'
    OBVIOUS
<1>1. CASE section = "siteadd" /\ SF!Next /\ UNCHANGED section
    <2>1. PlainPage(SF!Requests) /\ SfShape /\ SfFair
        BY <1>1, PartOfSection
    <2>2. PlainPage(SF!Requests)'
        BY <1>1, <2>1, FormMoves, PlainPageKept
    <2>3. SfShape' /\ SfFair'
        BY <1>1, <2>1, FormKept DEF PlainPage
    <2> QED BY <1>1, <2>2, <2>3 DEF IInv
<1>2. CASE section = "Site Manage" /\ SL!Next /\ UNCHANGED section
    <2>1. CallsInv(SL!Requests) /\ SlPlain /\ SlEnds /\ SlFair
        BY <1>2, PartOfSection
    <2>2. SlSteps
        BY <1>2, <2>1, SitesListKept
    <2>3. CallsInv(SL!Requests)'
        BY <2>1, <2>2, CarriesKeepsCalls DEF SlSteps
    <2>4. SlFair'
        BY <1>2, <2>1, SitesListFair
    <2> QED BY <1>2, <2>2, <2>3, <2>4 DEF IInv, SlSteps
<1>3. CASE section = "sitetable" /\ ST!Next /\ UNCHANGED section
    BY <1>3, PartOfSection, SiteTablesMove, PlainPageKept DEF IInv
<1>4. CASE section = "ipaddrollsite" /\ RF!Next /\ UNCHANGED section
    <2>1. PlainPage(RF!Requests) /\ RfInv
        BY <1>4, PartOfSection
    <2>2. PlainPage(RF!Requests)'
        BY <1>4, <2>1, RollSiteMoves, PlainPageKept
    <2>3. RfInv'
        BY <1>4, <2>1, RollSitesKept DEF PlainPage
    <2> QED BY <1>4, <2>2, <2>3 DEF IInv
<1>5. CASE section = "ipexchange" /\ EX!Next /\ UNCHANGED section
    <2>1. PlainPage(EX!Requests) /\ ExInv
        BY <1>5, PartOfSection
    <2>2. PlainPage(EX!Requests)'
        BY <1>5, <2>1, ExchangesMove, PlainPageKept
    <2>3. ExInv'
        BY <1>5, <2>1, ExchangesKept DEF PlainPage
    <2> QED BY <1>5, <2>2, <2>3 DEF IInv
<1>6. CASE section = "Add an Exchange" /\ EF!Next /\ UNCHANGED section
    <2>1. PlainPage(EF!Requests) /\ EfInv
        BY <1>6, PartOfSection
    <2>2. PlainPage(EF!Requests)'
        BY <1>6, <2>1, ExchangeFormMoves, PlainPageKept
    <2>3. EfInv'
        BY <1>6, <2>1, ExchangeFormKept DEF PlainPage
    <2> QED BY <1>6, <2>2, <2>3 DEF IInv
<1>7. CASE section = "ipeditadd" /\ AL!Next /\ UNCHANGED section
    <2>1. PlainPage(AL!Requests) /\ AlInv
        BY <1>7, PartOfSection
    <2>2. PlainPage(AL!Requests)'
        BY <1>7, <2>1, AddressesMove, PlainPageKept
    <2>3. AlInv'
        BY <1>7, <2>1, AddressesKept
    <2> QED BY <1>7, <2>2, <2>3 DEF IInv
<1>8. CASE section = "IP Manage" /\ IC!Next /\ UNCHANGED section
    <2>1. PlainPage(IC!Requests) /\ IcInv
        BY <1>8, PartOfSection
    <2>2. PlainPage(IC!Requests)'
        BY <1>8, <2>1, CasesMove, PlainPageKept DEF PlainPage
    <2>3. IcInv'
        BY <1>8, <2>1, CasesKept DEF PlainPage
    <2> QED BY <1>8, <2>2, <2>3 DEF IInv
<1>9. CASE UNCHANGED vars
    <2>1. /\ UNCHANGED section /\ view' = view /\ server' = server /\ calls' = calls
          /\ busy' = busy /\ steps' = steps /\ mishaps' = mishaps
        BY <1>9 DEF vars, pageVars
    <2>2. \A ops : PlainPage(ops) => PlainPage(ops)'
        BY <2>1 DEF PlainPage, CallsInv, OverlayHasCall
    <2>3. \A ops : CallsInv(ops) => CallsInv(ops)'
        BY <2>1 DEF CallsInv
    <2>4. SlPlain /\ SlEnds => (SlPlain /\ SlEnds)'
        BY <2>1 DEF SlPlain, SlEnds
    <2>5. ExInv => ExInv'
        BY <2>1 DEF ExInv
    <2>6. EfInv => EfInv'
        BY <2>1 DEF EfInv, EfWay, EfCall
    <2>7. AlInv => AlInv'
        BY <2>1 DEF AlInv
    <2>8. IcInv => IcInv'
        BY <2>1 DEF IcInv, IcServer, IcView, IcForm, IcClean
    <2>9. RfInv => RfInv'
        BY <2>1 DEF RfInv
    <2>10. SlFair => SlFair'
        BY <2>1 DEF SlFair
    <2>11. SfShape /\ SfFair => (SfShape /\ SfFair)'
        BY <2>1 DEF SfShape, SfFair
    <2> QED BY <2>1, <2>2, <2>3, <2>4, <2>5, <2>6, <2>7, <2>8, <2>9, <2>10, <2>11 DEF IInv
<1> QED BY <1>1, <1>2, <1>3, <1>4, <1>5, <1>6, <1>7, <1>8, <1>9 DEF Next

\* The inductive invariant.
THEOREM Invariant == Spec => []IInv
BY InitIInv, NextIInv, PTL DEF Spec

\* Whatever the pages of the sites have under way is a request of the page
\* that is shown, and no page does anything past its bounds.
THEOREM TypeCorrect == Spec => []TypeOK
<1>1. ASSUME NEW ops, CallsInv(ops)
      PROVE  CallsOK(ops)
    BY <1>1, CallsInvType
<1>2. IInv => TypeOK
    BY <1>1 DEF IInv, PlainPage, TypeOK
<1> QED BY Invariant, <1>2, PTL

\* The overlay is up only while a request is under way whose answer takes it
\* down (utils/request.js); on the list of the sites (site.vue), which raises
\* it by itself, while one is under way that ends it or asks for what does.
THEOREM OverlayHasEnd == Spec => []OverlayEnds
<1>1. SlEnds /\ CallsInv(SL!Requests) => (mishaps = {} => SL!OverlayEnds)
    BY DEF SlEnds, CallsInv, SL!OverlayEnds, Range
<1>2. IInv => OverlayEnds
    BY <1>1 DEF IInv, PlainPage, OverlayEnds
<1> QED BY Invariant, <1>2, PTL

\* What the pages send belongs together: the submitted site has a party id of
\* its group and a group of its role (siteadd.vue), a decision is about what
\* the institution it names has applied for or been granted (site.vue), the
\* routes sent with a roll site or a network are its own (ipaddrollsite.vue),
\* an exchange is left stored or by consent (ipaddexchange.vue), the addresses
\* saved are accepted ones and within the limit (ipeditadd.vue), and a switch
\* is sent as a code (ip.vue).
THEOREM SentTogether == Spec => []SentBelongsTogether
<1>1. section = "siteadd" /\ IInv => SF!GroupOfSubmission
    BY PartOfSection, FormSubmits
<1>2. section = "Site Manage" /\ IInv => SL!DecisionIsOfInstitution
    BY PartOfSection, SitesListDecides
<1>3. section = "ipaddrollsite" /\ IInv => RF!UpdateIsOfRollSite /\ RF!AddedIsOfNetwork
    BY PartOfSection, RollSitesSend
<1>4. section = "Add an Exchange" /\ IInv => EF!LeftIsStoredOrAgreed
    BY PartOfSection, ExchangeFormLeft
<1>5. section = "ipeditadd" /\ IInv => AL!LimitKept /\ AL!SavedAreAccepted
    BY PartOfSection, AddressesSaved
<1>6. section = "IP Manage" /\ IInv => IC!CodeIsSent
    BY PartOfSection, CasesSend
<1>7. IInv => SentBelongsTogether
    BY <1>1, <1>2, <1>3, <1>4, <1>5, <1>6 DEF SentBelongsTogether
<1> QED BY Invariant, <1>7, PTL
=============================================================================
