-------------------------- MODULE TestScripts_proofs --------------------------
(***************************************************************************)
(* How to reason about scripts: what holds of their parts is put together  *)
(* to what holds of a whole one.  Prepare and Cleanup are concatenations   *)
(* of steps, of parts that depend on an option, and of one part for every  *)
(* helper pod or MGS (FlattenSeq), however many these are.                 *)
(***************************************************************************)
EXTENDS TestScripts, SequenceTheorems, WellFoundedInduction, TLAPS

-----------------------------------------------------------------------------
(* FlattenSeq, for sequences of any length. *)

Less == {p \in Nat \X Nat : p[1] < p[2]}

\* Induction, in terms of a set: the least number that is not in S cannot be.
LEMMA Induction ==
    ASSUME NEW S, 0 \in S, \A k \in Nat : k \in S => k + 1 \in S
    PROVE  Nat \subseteq S
  <1>1. IsWellFoundedOn(Less, Nat)
    BY NatLessThanWellFounded DEF Less, OpToRel
  <1> DEFINE T == Nat \ S
  <1>2. ASSUME T # {} PROVE FALSE
    <2>1. PICK x \in T : \A y \in T : <<y, x>> \notin Less
      <3> T \subseteq Nat
        OBVIOUS
      <3> HIDE DEF T
      <3> QED BY <1>1, <1>2, WFMin
    <2>2. x \in Nat /\ x # 0 /\ x - 1 \in Nat /\ x - 1 < x
      OBVIOUS
    <2>3. x - 1 \in T
      BY <2>2
    <2>4. <<x - 1, x>> \in Less
      BY <2>2 DEF Less
    <2> QED BY <2>1, <2>3, <2>4
  <1> QED BY <1>2

\* g joins the first m parts of f, one after the other.
Joins(g, f, m) ==
    g = [i \in 1 .. m |-> IF i = 1 THEN f[i] ELSE g[i - 1] \o f[i]]

LEMMA JoinExists == ASSUME NEW f, NEW m \in Nat PROVE \E g : Joins(g, f, m)
  <1> DEFINE S == {k \in Nat : \E g : Joins(g, f, k)}
  <1>1. 0 \in S
    <2>1. Joins([i \in 1 .. 0 |-> 0], f, 0)
      BY DEF Joins
    <2> QED BY <2>1
  <1>2. ASSUME NEW k \in Nat, k \in S PROVE k + 1 \in S
    <2>1. PICK g : Joins(g, f, k)
      BY <1>2
    <2> DEFINE h == [i \in 1 .. k + 1 |->
                       IF i # k + 1 THEN g[i] ELSE IF i = 1 THEN f[i] ELSE g[k] \o f[i]]
    <2>2. Joins(h, f, k + 1)
      <3> SUFFICES ASSUME NEW i \in 1 .. k + 1
                   PROVE  h[i] = IF i = 1 THEN f[i] ELSE h[i - 1] \o f[i]
        BY DEF Joins
      <3>1. CASE i = k + 1
        BY <3>1
      <3>2. CASE i # k + 1
        <4>1. i \in 1 .. k /\ i - 1 # k + 1 /\ (i # 1 => i - 1 \in 1 .. k)
          BY <3>2
        <4>2. h[i] = g[i] /\ (i # 1 => h[i - 1] = g[i - 1])
          BY <4>1
        <4>3. g[i] = IF i = 1 THEN f[i] ELSE g[i - 1] \o f[i]
          BY <2>1, <4>1 DEF Joins
        <4> QED BY <4>2, <4>3
      <3> QED BY <3>1, <3>2
    <2>3. \E hh : Joins(hh, f, k + 1)
      <3> HIDE DEF h
      <3> QED BY <2>2
    <2> QED BY <2>3
  <1>3. m \in S
    <2> HIDE DEF S
    <2> QED BY <1>1, <1>2, Induction
  <1> QED BY <1>3

LEMMA FlattenJoins ==
    ASSUME NEW f, Len(f) \in Nat, Len(f) # 0
    PROVE  \E g : Joins(g, f, Len(f)) /\ FlattenSeq(f) = g[Len(f)]
  <1> DEFINE G == CHOOSE g : g = [i \in 1 .. Len(f) |->
                                    IF i = 1 THEN f[i] ELSE g[i - 1] \o f[i]]
  <1>1. FlattenSeq(f) = G[Len(f)]
    BY DEF FlattenSeq
  <1>2. Joins(G, f, Len(f))
    <2>1. \E g : g = [i \in 1 .. Len(f) |-> IF i = 1 THEN f[i] ELSE g[i - 1] \o f[i]]
      BY JoinExists DEF Joins
    <2> QED BY <2>1 DEF Joins
  <1> HIDE DEF G
  <1> QED BY <1>1, <1>2

-----------------------------------------------------------------------------
(* What a test knows of its own objects: those it has made, those it has   *)
(* deleted that may still be there, and the helper pods on its list.       *)

Shadow(held, going, pods) == [held |-> held, going |-> going, pods |-> pods]

\* As far as it lies with the test, the step succeeds: what it makes is not there,
\* what it waits for or takes is, and what is to be gone has been deleted.
Succeeds(e, x) ==
    /\ Makes(e) => e.obj \notin x.held \cup x.going
    /\ e.op = "gone" => e.obj \notin x.held
    /\ e.op \in {"await", "run"} \/ Takes(e) => e.obj \in x.held

\* The name is taken, by the test itself: the step cannot succeed.  (A profile is
\* all that a test may make twice.)
Blocked(c, e, x) ==
    ~c.sure /\ Makes(e) /\ e.obj \in x.held /\ e.obj[1] = "storage profile"

Effect(e, x) ==
    Shadow(IF Makes(e) THEN x.held \cup {e.obj}
           ELSE IF Takes(e) THEN x.held \ {e.obj} ELSE x.held,
           IF Takes(e) THEN x.going \cup {e.obj}
           ELSE IF e.op = "gone" THEN x.going \ {e.obj} ELSE x.going,
           IF e.op = "pod" THEN Append(x.pods, e.obj) ELSE x.pods)

\* The rules c of a script are the objects it is about, the lists of pods it may
\* come to have, what it may take without having made it, the pairs of which the
\* second is needed to make the first (bonds), and of which the second must not go
\* before the first (lives), the shadows it may not leave, if there are any, and
\* whether the test is sure of its steps.
Safe(c, e, x) ==
    /\ e.op = "pod" => Append(x.pods, e.obj) \in c.pods
    /\ Makes(e) => \A q \in c.bonds : q[1] = e.obj => q[2] \in x.held
    /\ Takes(e) => /\ e.obj \in x.held \cup c.free
                   /\ \A q \in c.lives : q[2] = e.obj => q[1] \notin x.held \cup x.going
    /\ c.sure => Succeeds(e, x)

Within(c, X) == c.within = {} \/ X \subseteq c.within

Op == {"create", "await", "delete", "gone", "provision", "destroy", "run", "pod"}

StepOn(objects) == [op : Op, obj : objects]

\* A[k] has the shadows with which the k-th step of s may begin.
Annotates(c, s, A) ==
    /\ \A k \in 1 .. Len(s) + 1 : Within(c, A[k])
    /\ \A k \in 1 .. Len(s) : \A x \in A[k] :
          Blocked(c, s[k], x) \/ (Safe(c, s[k], x) /\ Effect(s[k], x) \in A[k + 1])

\* From the shadows in P the script s obeys c, and leads to those in Q.
Leads(c, P, s, Q) ==
    /\ s \in Seq(StepOn(c.objects))
    /\ \E A : P \subseteq A[1] /\ A[Len(s) + 1] \subseteq Q /\ Annotates(c, s, A)

-----------------------------------------------------------------------------
(* The rules by which scripts are put together. *)

LEMMA LeadsWeaken ==
    ASSUME NEW c, NEW P, NEW P1, NEW s, NEW Q, NEW Q1,
           Leads(c, P, s, Q), P1 \subseteq P, Q \subseteq Q1
    PROVE  Leads(c, P1, s, Q1)
  <1>1. PICK A : P \subseteq A[1] /\ A[Len(s) + 1] \subseteq Q /\ Annotates(c, s, A)
    BY DEF Leads
  <1>2. P1 \subseteq A[1] /\ A[Len(s) + 1] \subseteq Q1
    BY <1>1
  <1> QED BY <1>1, <1>2 DEF Leads

LEMMA LeadsEmpty ==
    ASSUME NEW c, NEW P, NEW Q, P \subseteq Q, Within(c, P)
    PROVE  Leads(c, P, <<>>, Q)
  <1> DEFINE A == [k \in 1 .. 1 |-> P]
  <1>1. Len(<<>>) = 0 /\ <<>> \in Seq(StepOn(c.objects))
    OBVIOUS
  <1>2. A[1] = P
    OBVIOUS
  <1>3. Annotates(c, <<>>, A)
    BY <1>1, <1>2 DEF Annotates
  <1> HIDE DEF A
  <1> QED BY <1>1, <1>2, <1>3 DEF Leads

LEMMA LeadsStep ==
    ASSUME NEW c, NEW P, NEW e \in StepOn(c.objects), NEW Q, Within(c, P), Within(c, Q),
           \A x \in P : Blocked(c, e, x) \/ (Safe(c, e, x) /\ Effect(e, x) \in Q)
    PROVE  Leads(c, P, <<e>>, Q)
  <1> DEFINE A == [k \in 1 .. 2 |-> IF k = 1 THEN P ELSE Q]
  <1>1. Len(<<e>>) = 1 /\ <<e>>[1] = e /\ <<e>> \in Seq(StepOn(c.objects))
    OBVIOUS
  <1>2. A[1] = P /\ A[2] = Q
    OBVIOUS
  <1> HIDE DEF A
  <1>3. Annotates(c, <<e>>, A)
    BY <1>1, <1>2 DEF Annotates
  <1> QED BY <1>1, <1>2, <1>3 DEF Leads

LEMMA LeadsJoin ==
    ASSUME NEW c, NEW P, NEW s, NEW Q, NEW u, NEW R,
           Leads(c, P, s, Q), Leads(c, Q, u, R)
    PROVE  Leads(c, P, s \o u, R)
  <1>1. PICK A : P \subseteq A[1] /\ A[Len(s) + 1] \subseteq Q /\ Annotates(c, s, A)
    BY DEF Leads
  <1>2. PICK B : Q \subseteq B[1] /\ B[Len(u) + 1] \subseteq R /\ Annotates(c, u, B)
    BY DEF Leads
  <1>3. s \in Seq(StepOn(c.objects)) /\ u \in Seq(StepOn(c.objects))
    BY DEF Leads
  <1>4. PICK m \in Nat, l \in Nat : m = Len(s) /\ l = Len(u)
    BY <1>3
  <1>5. /\ s \o u \in Seq(StepOn(c.objects)) /\ Len(s \o u) = m + l
        /\ \A k \in 1 .. m : (s \o u)[k] = s[k]
        /\ \A k \in m + 1 .. m + l : (s \o u)[k] = u[k - m]
    BY <1>3, <1>4
  <1> DEFINE C == [k \in 1 .. m + l + 1 |-> IF k <= m THEN A[k] ELSE B[k - m]]
  <1>6. \A k \in 1 .. m + l + 1 : C[k] = IF k <= m THEN A[k] ELSE B[k - m]
    OBVIOUS
  <1> HIDE DEF C
  <1>7. P \subseteq C[1]
    BY <1>1, <1>2, <1>4, <1>6
  <1>8. C[m + l + 1] \subseteq R
    <2>1. m + l + 1 \in 1 .. m + l + 1 /\ ~(m + l + 1 <= m) /\ m + l + 1 - m = l + 1
      OBVIOUS
    <2> QED BY <1>2, <1>4, <1>6, <2>1
  <1>9. ASSUME NEW k \in 1 .. m + l + 1 PROVE Within(c, C[k])
    <2>1. CASE k <= m
      BY <1>1, <1>4, <1>6, <2>1 DEF Annotates
    <2>2. CASE ~(k <= m)
      <3>1. k - m \in 1 .. l + 1
        BY <2>2
      <3> QED BY <1>2, <1>4, <1>6, <2>2, <3>1 DEF Annotates
    <2> QED BY <2>1, <2>2
  <1>10. ASSUME NEW k \in 1 .. m + l, NEW x \in C[k]
         PROVE  LET e == (s \o u)[k] IN
                Blocked(c, e, x) \/ (Safe(c, e, x) /\ Effect(e, x) \in C[k + 1])
    <2>1. CASE k < m
      <3>1. k \in 1 .. m /\ k + 1 <= m /\ k + 1 \in 1 .. m + l + 1 /\ C[k] = A[k] /\ C[k + 1] = A[k + 1]
        BY <1>6, <2>1
      <3> QED BY <1>1, <1>4, <1>5, <3>1 DEF Annotates
    <2>2. CASE k = m
      <3>1. k \in 1 .. m /\ k + 1 \in 1 .. m + l + 1 /\ k + 1 - m = 1 /\ C[k] = A[k] /\ C[k + 1] = B[1]
        BY <1>6, <2>2
      <3>2. Blocked(c, s[k], x) \/ (Safe(c, s[k], x) /\ Effect(s[k], x) \in A[m + 1])
        BY <1>1, <1>4, <2>2, <3>1 DEF Annotates
      <3> QED BY <1>1, <1>2, <1>4, <1>5, <3>1, <3>2
    <2>3. CASE k > m
      <3>1. /\ k - m \in 1 .. l /\ ~(k + 1 <= m) /\ k + 1 \in 1 .. m + l + 1
            /\ k + 1 - m = (k - m) + 1 /\ k \in m + 1 .. m + l
        BY <2>3
      <3>2. C[k] = B[k - m] /\ C[k + 1] = B[(k - m) + 1]
        BY <1>6, <2>3, <3>1
      <3> QED BY <1>2, <1>4, <1>5, <3>1, <3>2 DEF Annotates
    <2>4. k < m \/ k = m \/ k > m
      OBVIOUS
    <2> QED BY <2>1, <2>2, <2>3, <2>4
  <1>11. Annotates(c, s \o u, C)
    BY <1>5, <1>9, <1>10 DEF Annotates
  <1> QED BY <1>5, <1>7, <1>8, <1>11 DEF Leads

LEMMA LeadsWhen ==
    ASSUME NEW c, NEW P, NEW b, NEW s, NEW Q,
           b => Leads(c, P, s, Q), ~b => P \subseteq Q, Within(c, P)
    PROVE  Leads(c, P, When(b, s), Q)
  BY LeadsEmpty DEF When

\* f[k] leads from P[k - 1] to P[k].
LEMMA LeadsFlatten ==
    ASSUME NEW c, NEW m \in Nat, NEW f, Len(f) = m, NEW P, Within(c, P[0]),
           m = 0 => f = <<>>,
           \A k \in 1 .. m : Leads(c, P[k - 1], f[k], P[k])
    PROVE  Leads(c, P[0], FlattenSeq(f), P[m])
  <1>1. CASE m = 0
    <2>1. FlattenSeq(f) = <<>>
      BY <1>1 DEF FlattenSeq
    <2> QED BY <1>1, <2>1, LeadsEmpty
  <1>2. CASE m # 0
    <2>1. PICK g : Joins(g, f, m) /\ FlattenSeq(f) = g[m]
      BY <1>2, FlattenJoins
    <2> DEFINE S == {k \in Nat : k \in 1 .. m => Leads(c, P[0], g[k], P[k])}
    <2>2. 0 \in S
      OBVIOUS
    <2>3. ASSUME NEW k \in Nat, k \in S PROVE k + 1 \in S
      <3> SUFFICES ASSUME k + 1 \in 1 .. m PROVE Leads(c, P[0], g[k + 1], P[k + 1])
        OBVIOUS
      <3>1. g[k + 1] = IF k = 0 THEN f[k + 1] ELSE g[k] \o f[k + 1]
        <4>1. \A i \in 1 .. m : g[i] = IF i = 1 THEN f[i] ELSE g[i - 1] \o f[i]
          BY <2>1 DEF Joins
        <4>2. (k + 1) - 1 = k /\ (k + 1 = 1 <=> k = 0)
          OBVIOUS
        <4>3. g[k + 1] = IF k + 1 = 1 THEN f[k + 1] ELSE g[(k + 1) - 1] \o f[k + 1]
          BY <4>1
        <4> QED BY <4>2, <4>3
      <3>2. Leads(c, P[k], f[k + 1], P[k + 1])
        OBVIOUS
      <3>3. CASE k = 0
        BY <3>1, <3>2, <3>3
      <3>4. CASE k # 0
        <4>1. Leads(c, P[0], g[k], P[k])
          BY <2>3, <3>4
        <4>2. g[k + 1] = g[k] \o f[k + 1]
          BY <3>1, <3>4
        <4> QED BY <3>2, <4>1, <4>2, LeadsJoin
      <3> QED BY <3>3, <3>4
    <2>4. m \in S
      <3> HIDE DEF S
      <3> QED BY <2>2, <2>3, Induction
    <2> QED BY <1>2, <2>1, <2>4
  <1> QED BY <1>1, <1>2

\* Where nothing leads to, a script does no harm.
LEMMA LeadsNowhere ==
    ASSUME NEW c, NEW s \in Seq(StepOn(c.objects)) PROVE Leads(c, {}, s, {})
  <1> DEFINE A == [k \in 1 .. Len(s) + 1 |-> {}]
  <1>1. Len(s) \in Nat /\ \A k \in 1 .. Len(s) + 1 : A[k] = {}
    OBVIOUS
  <1>2. Annotates(c, s, A)
    BY <1>1 DEF Annotates, Within
  <1> HIDE DEF A
  <1> QED BY <1>1, <1>2 DEF Leads

-----------------------------------------------------------------------------
(* The rules for single steps.  Of a shadow only bounds are known: what it  *)
(* holds at the least and at the most, and what may be on its way out.      *)

Between(least, most, going, pods) ==
    {x \in [held : SUBSET most, going : SUBSET going, pods : {pods}] : least \subseteq x.held}

LEMMA BetweenWider ==
    ASSUME NEW l1, NEW m1, NEW g1, NEW l2, NEW m2, NEW g2, NEW p,
           l2 \subseteq l1, m1 \subseteq m2, g1 \subseteq g2
    PROVE  Between(l1, m1, g1, p) \subseteq Between(l2, m2, g2, p)
  BY DEF Between

LEMMA LeadsMake ==
    ASSUME NEW c, NEW l, NEW m, NEW g, NEW p, NEW op \in {"create", "provision"},
           NEW obj \in c.objects,
           Within(c, Between(l, m, g, p)), Within(c, Between(l \cup {obj}, m \cup {obj}, g, p)),
           \A q \in c.bonds : q[1] = obj => q[2] \in l, c.sure => obj \notin m \cup g
    PROVE  Leads(c, Between(l, m, g, p), <<[op |-> op, obj |-> obj]>>,
                 Between(l \cup {obj}, m \cup {obj}, g, p))
  <1> DEFINE e == [op |-> op, obj |-> obj]
  <1>1. e \in StepOn(c.objects) /\ e.obj = obj /\ Makes(e) /\ ~Takes(e) /\ e.op \notin {"gone", "pod", "await", "run"}
    BY DEF StepOn, Op, Makes, Takes
  <1> HIDE DEF e
  <1>2. ASSUME NEW x \in Between(l, m, g, p) PROVE c.sure => Succeeds(e, x)
    BY <1>1 DEF Between, Succeeds
  <1>3. ASSUME NEW x \in Between(l, m, g, p)
        PROVE  Safe(c, e, x) /\ Effect(e, x) \in Between(l \cup {obj}, m \cup {obj}, g, p)
    BY <1>1, <1>2 DEF Between, Safe, Effect, Shadow
  <1>4. Leads(c, Between(l, m, g, p), <<e>>, Between(l \cup {obj}, m \cup {obj}, g, p))
    BY <1>1, <1>3, LeadsStep
  <1> QED BY <1>4 DEF e

LEMMA LeadsPod ==
    ASSUME NEW c, NEW l, NEW m, NEW g, NEW p, NEW obj \in c.objects,
           LET P == Between(l, m, g, p)
               Q == Between(l \cup {obj}, m \cup {obj}, g, Append(p, obj))
           IN  Within(c, P) /\ Within(c, Q),
           Append(p, obj) \in c.pods,
           \A q \in c.bonds : q[1] = obj => q[2] \in l, c.sure => obj \notin m \cup g
    PROVE  Leads(c, Between(l, m, g, p), HelperPod(obj),
                 Between(l \cup {obj}, m \cup {obj}, g, Append(p, obj)))
  <1> DEFINE e == [op |-> "pod", obj |-> obj]
             f == [op |-> "await", obj |-> obj]
             P == Between(l, m, g, p)
             Q == Between(l \cup {obj}, m \cup {obj}, g, Append(p, obj))
  <1>1. e \in StepOn(c.objects) /\ e.obj = obj /\ Makes(e) /\ ~Takes(e) /\ e.op = "pod"
    BY DEF StepOn, Op, Makes, Takes
  <1>2. f \in StepOn(c.objects) /\ f.obj = obj /\ ~Makes(f) /\ ~Takes(f) /\ f.op = "await"
    BY DEF StepOn, Op, Makes, Takes
  <1>3. HelperPod(obj) = <<e>> \o <<f>>
    BY DEF HelperPod, Pod, Await
  <1> HIDE DEF e, f
  <1>4. ASSUME NEW x \in P PROVE Safe(c, e, x) /\ Effect(e, x) \in Q
    BY <1>1 DEF Between, Safe, Succeeds, Effect, Shadow
  <1>5. ASSUME NEW x \in Q PROVE Safe(c, f, x) /\ Effect(f, x) \in Q
    BY <1>2 DEF Between, Safe, Succeeds, Effect, Shadow
  <1>6. Leads(c, P, <<e>>, Q)
    BY <1>1, <1>4, LeadsStep
  <1>7. Leads(c, Q, <<f>>, Q)
    BY <1>2, <1>5, LeadsStep
  <1> HIDE DEF P, Q
  <1>8. Leads(c, P, HelperPod(obj), Q)
    BY <1>3, <1>6, <1>7, LeadsJoin
  <1> QED BY <1>8 DEF P, Q

LEMMA LeadsWait ==
    ASSUME NEW c, NEW l, NEW m, NEW g, NEW p, NEW op \in {"await", "run"},
           NEW obj \in c.objects, Within(c, Between(l, m, g, p)), c.sure => obj \in l
    PROVE  Leads(c, Between(l, m, g, p), <<[op |-> op, obj |-> obj]>>, Between(l, m, g, p))
  <1> DEFINE e == [op |-> op, obj |-> obj]
  <1>1. e \in StepOn(c.objects) /\ e.obj = obj /\ ~Makes(e) /\ ~Takes(e) /\ e.op \notin {"gone", "pod"}
    BY DEF StepOn, Op, Makes, Takes
  <1> HIDE DEF e
  <1>2. ASSUME NEW x \in Between(l, m, g, p)
        PROVE  Safe(c, e, x) /\ Effect(e, x) \in Between(l, m, g, p)
    BY <1>1 DEF Between, Safe, Succeeds, Effect, Shadow
  <1>3. Leads(c, Between(l, m, g, p), <<e>>, Between(l, m, g, p))
    BY <1>1, <1>2, LeadsStep
  <1> QED BY <1>3 DEF e

LEMMA LeadsGone ==
    ASSUME NEW c, NEW l, NEW m, NEW g, NEW p, NEW obj \in c.objects,
           Within(c, Between(l, m, g, p)), Within(c, Between(l, m, g \ {obj}, p)),
           c.sure => obj \notin m
    PROVE  Leads(c, Between(l, m, g, p), Gone(obj), Between(l, m, g \ {obj}, p))
  <1> DEFINE e == [op |-> "gone", obj |-> obj]
  <1>1. e \in StepOn(c.objects) /\ e.obj = obj /\ ~Makes(e) /\ ~Takes(e) /\ e.op = "gone"
    BY DEF StepOn, Op, Makes, Takes
  <1> HIDE DEF e
  <1>2. ASSUME NEW x \in Between(l, m, g, p)
        PROVE  Safe(c, e, x) /\ Effect(e, x) \in Between(l, m, g \ {obj}, p)
    BY <1>1 DEF Between, Safe, Succeeds, Effect, Shadow
  <1>3. Leads(c, Between(l, m, g, p), <<e>>, Between(l, m, g \ {obj}, p))
    BY <1>1, <1>2, LeadsStep
  <1> QED BY <1>3 DEF e, Gone

\* What the test may be without must not be needed by what it may still have.
LEMMA LeadsTake ==
    ASSUME NEW c, NEW l, NEW m, NEW g, NEW p, NEW op \in {"delete", "destroy"},
           NEW obj \in c.objects, obj \in l \cup c.free, c.sure => obj \in l,
           LET P == Between(l, m, g, p)
               Q == Between(l \ {obj}, m \ {obj}, g \cup {obj}, p)
           IN  Within(c, P) /\ Within(c, Q),
           \A q \in c.lives : q[2] = obj => q[1] \notin m \cup g
    PROVE  Leads(c, Between(l, m, g, p), <<[op |-> op, obj |-> obj]>>,
                 Between(l \ {obj}, m \ {obj}, g \cup {obj}, p))
  <1> DEFINE e == [op |-> op, obj |-> obj]
  <1>1. e \in StepOn(c.objects) /\ e.obj = obj /\ ~Makes(e) /\ Takes(e) /\ e.op \notin {"gone", "pod"}
    BY DEF StepOn, Op, Makes, Takes
  <1> HIDE DEF e
  <1>2. ASSUME NEW x \in Between(l, m, g, p)
        PROVE  Safe(c, e, x) /\ Effect(e, x) \in Between(l \ {obj}, m \ {obj}, g \cup {obj}, p)
    BY <1>1 DEF Between, Safe, Succeeds, Effect, Shadow
  <1>3. Leads(c, Between(l, m, g, p), <<e>>, Between(l \ {obj}, m \ {obj}, g \cup {obj}, p))
    BY <1>1, <1>2, LeadsStep
  <1> QED BY <1>3 DEF e

-----------------------------------------------------------------------------
(* What scripts are about. *)

\* No rules but for the objects.
Anything(objects) ==
    [objects |-> objects, pods |-> {}, free |-> {}, bonds |-> {}, lives |-> {}, within |-> {},
     sure |-> FALSE]

LEMMA FlattenSteps ==
    ASSUME NEW X, NEW m \in Nat, NEW f, Len(f) = m, m = 0 => f = <<>>,
           \A k \in 1 .. m : f[k] \in Seq(StepOn(X))
    PROVE  FlattenSeq(f) \in Seq(StepOn(X))
  <1> DEFINE c == Anything(X)
             P == [k \in 0 .. m |-> {}]
  <1>1. c.objects = X /\ Within(c, {})
    BY DEF Anything, Within
  <1>2. \A k \in 0 .. m : P[k] = {}
    OBVIOUS
  <1> HIDE DEF c, P
  <1>3. ASSUME NEW k \in 1 .. m PROVE Leads(c, P[k - 1], f[k], P[k])
    <2>1. Leads(c, {}, f[k], {})
      BY <1>1, LeadsNowhere
    <2>2. P[k - 1] = {} /\ P[k] = {}
      BY <1>2
    <2> QED BY <2>1, <2>2
  <1>4. Leads(c, P[0], FlattenSeq(f), P[m])
    <2>1. P[0] = {}
      BY <1>2
    <2>2. Within(c, P[0])
      BY <1>1, <2>1
    <2> QED BY <1>3, <2>2, LeadsFlatten
  <1> QED BY <1>1, <1>4 DEF Leads

LEMMA OneStep ==
    ASSUME NEW X, NEW x \in X
    PROVE  /\ Create(x) \in Seq(StepOn(X)) /\ Await(x) \in Seq(StepOn(X))
           /\ Delete(x) \in Seq(StepOn(X)) /\ Gone(x) \in Seq(StepOn(X))
           /\ Provision(x) \in Seq(StepOn(X)) /\ Destroy(x) \in Seq(StepOn(X))
           /\ Run(x) \in Seq(StepOn(X)) /\ Pod(x) \in Seq(StepOn(X))
           /\ DeleteAndWait(x) \in Seq(StepOn(X)) /\ HelperPod(x) \in Seq(StepOn(X))
  <1>1. \A op \in Op : <<[op |-> op, obj |-> x]>> \in Seq(StepOn(X))
    BY DEF StepOn
  <1>2. /\ Create(x) \in Seq(StepOn(X)) /\ Await(x) \in Seq(StepOn(X))
        /\ Delete(x) \in Seq(StepOn(X)) /\ Gone(x) \in Seq(StepOn(X))
    BY <1>1 DEF Op, Create, Await, Delete, Gone
  <1>3. /\ Provision(x) \in Seq(StepOn(X)) /\ Destroy(x) \in Seq(StepOn(X))
        /\ Run(x) \in Seq(StepOn(X)) /\ Pod(x) \in Seq(StepOn(X))
    BY <1>1 DEF Op, Provision, Destroy, Run, Pod
  <1> QED BY <1>2, <1>3 DEF DeleteAndWait, HelperPod

LEMMA WhenSteps ==
    ASSUME NEW X, NEW b, NEW s, b => s \in Seq(StepOn(X))
    PROVE  When(b, s) \in Seq(StepOn(X))
  BY DEF When

Only(b, S) == IF b THEN S ELSE {}

Profiles(o)          == Only(o.storageProfile # NoName, {Profile(o.storageProfile)})
ContainerProfiles(o) == Only(o.containerProfile # NoName, {ContainerProfile(o.containerProfile)})
Lustre(o)            == Only(o.persistentLustre # NoName, {Creator(FileSystem(o)), FileSystem(o)})
Pool(o, j)           == {MgsFileSystem(o, k) : k \in 1 .. j}
PoolCreators(o, j)   == {Creator(MgsFileSystem(o, k)) : k \in 1 .. j}
PoolDestroyers(o, j) == {Destroyer(MgsFileSystem(o, k)) : k \in 1 .. j}
Global(o)            == Only(o.globalLustre # NoName, {GlobalLustre(o)})
InPods(t, o)         == Only(o.copyIn, {CopyInPod(t)})
OutPods(t, o)        == Only(o.copyOut, {CopyOutPod(t)})
Own(o)               == Only(o.createPersistent # NoName, {OwnFileSystem(o)})

\* What Prepare makes and leaves.
Prepared(t, o) ==
    Profiles(o) \cup ContainerProfiles(o) \cup Lustre(o) \cup Pool(o, o.mgsPool.count)
    \cup Global(o) \cup InPods(t, o)

\* The objects of a test but for its workflow.
Surroundings(t, o) ==
    Prepared(t, o) \cup OutPods(t, o) \cup Own(o)
    \cup PoolCreators(o, o.mgsPool.count) \cup PoolDestroyers(o, o.mgsPool.count)
    \cup Only(o.mgsPool.count # 0, {PoolProfile(o)})
    \cup Only(o.persistentLustre # NoName, {Destroyer(FileSystem(o))})
    \cup Only(o.createPersistent # NoName, {Destroyer(OwnFileSystem(o))})

\* The parts of Prepare.
ProfilePart(o) ==
    When(o.storageProfile # NoName /\ ~o.externalMgs, Create(Profile(o.storageProfile)))
ContainerPart(o) ==
    When(o.containerProfile # NoName, Create(ContainerProfile(o.containerProfile)))
LustrePart(o) ==
    When(o.persistentLustre # NoName,
         PersistentPrepare(o) \o When(o.externalMgs, Create(Profile(o.storageProfile))))
PoolPart(o) == FlattenSeq([k \in 1 .. o.mgsPool.count |-> MgsPrepare(o, k)])
GlobalPart(t, o) ==
    When(o.globalLustre # NoName, Create(GlobalLustre(o)) \o When(o.copyIn, HelperPod(CopyInPod(t))))

LEMMA PrepareParts ==
    ASSUME NEW t, NEW o, WellFormed(o)
    PROVE  LET X == Surroundings(t, o) IN
           /\ ProfilePart(o) \in Seq(StepOn(X)) /\ ContainerPart(o) \in Seq(StepOn(X))
           /\ LustrePart(o) \in Seq(StepOn(X)) /\ PoolPart(o) \in Seq(StepOn(X))
           /\ GlobalPart(t, o) \in Seq(StepOn(X))
           /\ Prepare(t, o) = ProfilePart(o) \o ContainerPart(o) \o LustrePart(o)
                              \o PoolPart(o) \o GlobalPart(t, o)
  <1> DEFINE X == Surroundings(t, o)
             m == o.mgsPool.count
             f == [k \in 1 .. m |-> MgsPrepare(o, k)]
  <1>1. o.storageProfile # NoName => Create(Profile(o.storageProfile)) \in Seq(StepOn(X))
    BY OneStep DEF Surroundings, Prepared, Profiles, Only
  <1>2. o.containerProfile # NoName => Create(ContainerProfile(o.containerProfile)) \in Seq(StepOn(X))
    BY OneStep DEF Surroundings, Prepared, ContainerProfiles, Only
  <1>3. o.persistentLustre # NoName => PersistentPrepare(o) \in Seq(StepOn(X))
    <2> SUFFICES ASSUME o.persistentLustre # NoName PROVE PersistentPrepare(o) \in Seq(StepOn(X))
      OBVIOUS
    <2>1. FileSystem(o) \in X /\ Creator(FileSystem(o)) \in X
      BY DEF Surroundings, Prepared, Lustre, Only
    <2> HIDE DEF X
    <2>2. /\ Create(Creator(FileSystem(o))) \in Seq(StepOn(X))
          /\ Provision(FileSystem(o)) \in Seq(StepOn(X)) /\ Await(FileSystem(o)) \in Seq(StepOn(X))
      BY <2>1, OneStep
    <2> QED BY <2>2 DEF PersistentPrepare
  <1>4. m \in Nat
    BY DEF WellFormed
  <1>5. ASSUME NEW k \in 1 .. m PROVE MgsPrepare(o, k) \in Seq(StepOn(X))
    <2>1. MgsFileSystem(o, k) \in X /\ Creator(MgsFileSystem(o, k)) \in X /\ PoolProfile(o) \in X
      BY <1>4 DEF Surroundings, Prepared, Pool, PoolCreators, Only
    <2> HIDE DEF X
    <2>2. /\ Create(Creator(MgsFileSystem(o, k))) \in Seq(StepOn(X))
          /\ Create(PoolProfile(o)) \in Seq(StepOn(X))
          /\ Provision(MgsFileSystem(o, k)) \in Seq(StepOn(X))
          /\ DeleteAndWait(PoolProfile(o)) \in Seq(StepOn(X))
          /\ Delete(Creator(MgsFileSystem(o, k))) \in Seq(StepOn(X))
      BY <2>1, OneStep
    <2> QED BY <2>2 DEF MgsPrepare
  <1>6. FlattenSeq(f) \in Seq(StepOn(X))
    <2>1. Len(f) = m /\ (m = 0 => f = <<>>) /\ \A k \in 1 .. m : f[k] = MgsPrepare(o, k)
      BY <1>4
    <2> HIDE DEF X, m, f
    <2> QED BY <1>4, <1>5, <2>1, FlattenSteps
  <1>7. o.globalLustre # NoName => Create(GlobalLustre(o)) \in Seq(StepOn(X))
    BY OneStep DEF Surroundings, Prepared, Global, Only
  <1>8. o.copyIn => HelperPod(CopyInPod(t)) \in Seq(StepOn(X))
    BY OneStep DEF Surroundings, Prepared, InPods, Only
  <1> HIDE DEF X
  <1>9. ProfilePart(o) \in Seq(StepOn(X)) /\ ContainerPart(o) \in Seq(StepOn(X))
    BY <1>1, <1>2, WhenSteps DEF ProfilePart, ContainerPart
  <1>10. LustrePart(o) \in Seq(StepOn(X))
    <2>1. When(o.externalMgs, Create(Profile(o.storageProfile))) \in Seq(StepOn(X))
      BY <1>1, WhenSteps DEF WellFormed
    <2>2. o.persistentLustre # NoName =>
             PersistentPrepare(o) \o When(o.externalMgs, Create(Profile(o.storageProfile)))
                \in Seq(StepOn(X))
      BY <1>3, <2>1
    <2> QED BY <2>2, WhenSteps DEF LustrePart
  <1>11. GlobalPart(t, o) \in Seq(StepOn(X))
    <2>1. When(o.copyIn, HelperPod(CopyInPod(t))) \in Seq(StepOn(X))
      BY <1>8, WhenSteps
    <2>2. o.globalLustre # NoName =>
             Create(GlobalLustre(o)) \o When(o.copyIn, HelperPod(CopyInPod(t))) \in Seq(StepOn(X))
      BY <1>7, <2>1
    <2> QED BY <2>2, WhenSteps DEF GlobalPart
  <1>12. Prepare(t, o) = ProfilePart(o) \o ContainerPart(o) \o LustrePart(o)
                         \o PoolPart(o) \o GlobalPart(t, o)
    BY DEF Prepare, ProfilePart, ContainerPart, LustrePart, PoolPart, GlobalPart
  <1> QED BY <1>6, <1>9, <1>10, <1>11, <1>12 DEF PoolPart, X

LEMMA PrepareSteps ==
    ASSUME NEW t, NEW o, WellFormed(o)
    PROVE  Prepare(t, o) \in Seq(StepOn(Surroundings(t, o)))
  <1> DEFINE T == Seq(StepOn(Surroundings(t, o)))
  <1>1. ASSUME NEW s1 \in T, NEW s2 \in T, NEW s3 \in T, NEW s4 \in T, NEW s5 \in T
        PROVE  s1 \o s2 \o s3 \o s4 \o s5 \in T
    OBVIOUS
  <1>2. /\ ProfilePart(o) \in T /\ ContainerPart(o) \in T /\ LustrePart(o) \in T
        /\ PoolPart(o) \in T /\ GlobalPart(t, o) \in T
    BY PrepareParts
  <1>3. Prepare(t, o) = ProfilePart(o) \o ContainerPart(o) \o LustrePart(o)
                        \o PoolPart(o) \o GlobalPart(t, o)
    BY PrepareParts
  <1> HIDE DEF T
  <1>4. Prepare(t, o) \in T
    BY <1>1, <1>2, <1>3
  <1> QED BY <1>4 DEF T

LEMMA ExecuteSteps ==
    ASSUME NEW t, NEW o
    PROVE  /\ Execute(t, o) \in Seq(StepOn(Surroundings(t, o) \cup {Workflow(t)}))
           /\ Teardown(t, o) \in Seq(StepOn({Workflow(t)}))
           /\ Create(Workflow(t)) \in Seq(StepOn({Workflow(t)}))
  <1> DEFINE X == Surroundings(t, o) \cup {Workflow(t)}
  <1>1. o.createPersistent # NoName => OwnFileSystem(o) \in X
    BY DEF Surroundings, Own, Only
  <1>2. o.copyOut => CopyOutPod(t) \in X
    BY DEF Surroundings, OutPods, Only
  <1>3. Workflow(t) \in X
    OBVIOUS
  <1> HIDE DEF X
  <1>4. Run(Workflow(t)) \in Seq(StepOn(X)) /\ (o.createPersistent # NoName => Provision(OwnFileSystem(o)) \in Seq(StepOn(X)))
    BY <1>1, <1>3, OneStep
  <1>5. When(o.copyOut, HelperPod(CopyOutPod(t))) \in Seq(StepOn(X))
    BY <1>2, OneStep, WhenSteps
  <1>6. Execute(t, o) \in Seq(StepOn(X))
    BY <1>4, <1>5 DEF Execute
  <1>7. Teardown(t, o) \in Seq(StepOn({Workflow(t)}))
    <2>1. /\ Run(Workflow(t)) \in Seq(StepOn({Workflow(t)}))
          /\ Delete(Workflow(t)) \in Seq(StepOn({Workflow(t)}))
      BY OneStep
    <2>2. Run(Workflow(t)) \o Delete(Workflow(t)) \in Seq(StepOn({Workflow(t)}))
      BY <2>1
    <2> QED BY <2>2, WhenSteps DEF Teardown
  <1>8. Create(Workflow(t)) \in Seq(StepOn({Workflow(t)}))
    BY OneStep
  <1> QED BY <1>6, <1>7, <1>8 DEF X

\* a \o b, for the provers.
Cat(a, b) == a \o b

Associates(T) ==
    \A x, y, z \in T : Cat(x, y) \in T /\ Cat(Cat(x, y), z) = Cat(x, Cat(y, z))

Seven(T, s1, s2, s3, s4, s5, s6, s7) ==
    /\ s1 \in T /\ s2 \in T /\ s3 \in T /\ s4 \in T /\ s5 \in T /\ s6 \in T /\ s7 \in T

LEMMA CatSeven ==
    ASSUME NEW T, Associates(T), NEW s1, NEW s2, NEW s3, NEW s4, NEW s5, NEW s6, NEW s7,
           Seven(T, s1, s2, s3, s4, s5, s6, s7)
    PROVE  LET rest == Cat(Cat(Cat(Cat(Cat(s2, s3), s4), s5), s6), s7) IN
           /\ rest \in T
           /\ Cat(Cat(Cat(Cat(Cat(Cat(s1, s2), s3), s4), s5), s6), s7) = Cat(s1, rest)
  <1>1. ASSUME NEW a \in T, NEW b \in T
        PROVE  Cat(a, b) \in T /\ Cat(Cat(s1, a), b) = Cat(s1, Cat(a, b))
    BY DEF Associates, Seven
  <1>2. /\ s1 \in T /\ s2 \in T /\ s3 \in T /\ s4 \in T /\ s5 \in T /\ s6 \in T /\ s7 \in T
    BY DEF Seven
  <1>3. PICK a3 \in T : a3 = Cat(s2, s3) /\ Cat(Cat(s1, s2), s3) = Cat(s1, a3)
    BY <1>1, <1>2
  <1>4. PICK a4 \in T : a4 = Cat(a3, s4) /\ Cat(Cat(s1, a3), s4) = Cat(s1, a4)
    BY <1>1, <1>2
  <1>5. PICK a5 \in T : a5 = Cat(a4, s5) /\ Cat(Cat(s1, a4), s5) = Cat(s1, a5)
    BY <1>1, <1>2
  <1>6. PICK a6 \in T : a6 = Cat(a5, s6) /\ Cat(Cat(s1, a5), s6) = Cat(s1, a6)
    BY <1>1, <1>2
  <1>7. PICK a7 \in T : a7 = Cat(a6, s7) /\ Cat(Cat(s1, a6), s7) = Cat(s1, a7)
    BY <1>1, <1>2
  <1> QED BY <1>3, <1>4, <1>5, <1>6, <1>7

LEMMA SeqAssociates == ASSUME NEW S PROVE Associates(Seq(S))
  <1> SUFFICES ASSUME NEW x \in Seq(S), NEW y \in Seq(S), NEW z \in Seq(S)
               PROVE  x \o y \in Seq(S) /\ (x \o y) \o z = x \o (y \o z)
    BY DEF Cat, Associates
  <1>1. x \o y \in Seq(S)
    OBVIOUS
  <1>2. (x \o y) \o z = x \o (y \o z)
    OBVIOUS
  <1> QED BY <1>1, <1>2

\* What Cleanup does when the helper pods are gone.
CleanupRest(t, o) ==
    LET pi == OwnFileSystem(o) IN
       When(o.globalLustre # NoName, DeleteAndWait(GlobalLustre(o)))
    \o FlattenSeq([k \in 1 .. o.mgsPool.count |-> MgsCleanup(o, k)])
    \o When(o.cleanupPersistent,
            Create(Destroyer(pi)) \o Destroy(pi) \o DeleteAndWait(Destroyer(pi)))
    \o When(o.persistentLustre # NoName, LustreCleanup(FileSystem(o)))
    \o When(o.storageProfile # NoName, DeleteAndWait(Profile(o.storageProfile)))
    \o When(o.containerProfile # NoName, DeleteAndWait(ContainerProfile(o.containerProfile)))

LEMMA CleanupSteps ==
    ASSUME NEW t, NEW o, WellFormed(o), NEW X, Surroundings(t, o) \subseteq X, NEW ps \in Seq(X)
    PROVE  /\ Cleanup(t, o, ps) \in Seq(StepOn(X)) /\ CleanupRest(t, o) \in Seq(StepOn(X))
           /\ Cleanup(t, o, ps) = FlattenSeq([k \in 1 .. Len(ps) |-> DeleteAndWait(ps[k])])
                                  \o CleanupRest(t, o)
  <1> DEFINE m == o.mgsPool.count
             f == [k \in 1 .. Len(ps) |-> DeleteAndWait(ps[k])]
             g == [k \in 1 .. m |-> MgsCleanup(o, k)]
             pi == OwnFileSystem(o)
             D == Create(Destroyer(pi)) \o Destroy(pi) \o DeleteAndWait(Destroyer(pi))
  <1>1. FlattenSeq(f) \in Seq(StepOn(X))
    <2>1. /\ Len(ps) \in Nat /\ Len(f) = Len(ps) /\ (Len(ps) = 0 => f = <<>>)
          /\ \A k \in 1 .. Len(ps) : f[k] = DeleteAndWait(ps[k]) /\ ps[k] \in X
      OBVIOUS
    <2> HIDE DEF f
    <2>2. \A k \in 1 .. Len(ps) : f[k] \in Seq(StepOn(X))
      BY <2>1, OneStep
    <2> QED BY <2>1, <2>2, FlattenSteps
  <1>2. m \in Nat
    BY DEF WellFormed
  <1>3. ASSUME NEW k \in 1 .. m PROVE MgsCleanup(o, k) \in Seq(StepOn(X))
    <2>1. MgsFileSystem(o, k) \in X /\ Destroyer(MgsFileSystem(o, k)) \in X
      BY <1>2 DEF Surroundings, Prepared, Pool, PoolDestroyers
    <2>2. /\ Create(Destroyer(MgsFileSystem(o, k))) \in Seq(StepOn(X))
          /\ Destroy(MgsFileSystem(o, k)) \in Seq(StepOn(X))
          /\ DeleteAndWait(Destroyer(MgsFileSystem(o, k))) \in Seq(StepOn(X))
      BY <2>1, OneStep
    <2> QED BY <2>2 DEF MgsCleanup
  <1>4. FlattenSeq(g) \in Seq(StepOn(X))
    <2>1. Len(g) = m /\ (m = 0 => g = <<>>) /\ \A k \in 1 .. m : g[k] = MgsCleanup(o, k)
      BY <1>2
    <2> HIDE DEF m, g
    <2> QED BY <1>2, <1>3, <2>1, FlattenSteps
  <1>5. When(o.globalLustre # NoName, DeleteAndWait(GlobalLustre(o))) \in Seq(StepOn(X))
    BY OneStep, WhenSteps DEF Surroundings, Prepared, Global, Only
  <1>6. When(o.cleanupPersistent, D) \in Seq(StepOn(X))
    <2>1. ASSUME o.cleanupPersistent PROVE D \in Seq(StepOn(X))
      <3>1. pi \in X /\ Destroyer(pi) \in X
        BY <2>1 DEF Surroundings, Own, Only, WellFormed
      <3> HIDE DEF pi
      <3>2. /\ Create(Destroyer(pi)) \in Seq(StepOn(X)) /\ Destroy(pi) \in Seq(StepOn(X))
            /\ DeleteAndWait(Destroyer(pi)) \in Seq(StepOn(X))
        BY <3>1, OneStep
      <3> QED BY <3>2
    <2> QED BY <2>1, WhenSteps
  <1>7. When(o.persistentLustre # NoName, LustreCleanup(FileSystem(o))) \in Seq(StepOn(X))
    <2>1. ASSUME o.persistentLustre # NoName PROVE LustreCleanup(FileSystem(o)) \in Seq(StepOn(X))
      <3> DEFINE fs == FileSystem(o)
      <3>1. fs \in X /\ Destroyer(fs) \in X /\ Creator(fs) \in X
        BY <2>1 DEF Surroundings, Prepared, Lustre, Only
      <3> HIDE DEF fs
      <3>2. /\ Create(Destroyer(fs)) \in Seq(StepOn(X)) /\ Destroy(fs) \in Seq(StepOn(X))
            /\ Gone(fs) \in Seq(StepOn(X))
            /\ DeleteAndWait(Destroyer(fs)) \in Seq(StepOn(X))
            /\ DeleteAndWait(Creator(fs)) \in Seq(StepOn(X))
        BY <3>1, OneStep
      <3>3. LustreCleanup(fs) \in Seq(StepOn(X))
        BY <3>2 DEF LustreCleanup
      <3> QED BY <3>3 DEF fs
    <2> QED BY <2>1, WhenSteps
  <1>8. /\ When(o.storageProfile # NoName, DeleteAndWait(Profile(o.storageProfile)))
            \in Seq(StepOn(X))
        /\ When(o.containerProfile # NoName, DeleteAndWait(ContainerProfile(o.containerProfile)))
            \in Seq(StepOn(X))
    BY OneStep, WhenSteps DEF Surroundings, Prepared, Profiles, ContainerProfiles, Only
  <1> HIDE DEF D
  <1>10. Cleanup(t, o, ps) =
             FlattenSeq(f) \o When(o.globalLustre # NoName, DeleteAndWait(GlobalLustre(o)))
             \o FlattenSeq(g) \o When(o.cleanupPersistent, D)
             \o When(o.persistentLustre # NoName, LustreCleanup(FileSystem(o)))
             \o When(o.storageProfile # NoName, DeleteAndWait(Profile(o.storageProfile)))
             \o When(o.containerProfile # NoName,
                     DeleteAndWait(ContainerProfile(o.containerProfile)))
    BY DEF Cleanup, D
  <1>11. CleanupRest(t, o) =
             When(o.globalLustre # NoName, DeleteAndWait(GlobalLustre(o)))
             \o FlattenSeq(g) \o When(o.cleanupPersistent, D)
             \o When(o.persistentLustre # NoName, LustreCleanup(FileSystem(o)))
             \o When(o.storageProfile # NoName, DeleteAndWait(Profile(o.storageProfile)))
             \o When(o.containerProfile # NoName,
                     DeleteAndWait(ContainerProfile(o.containerProfile)))
    BY DEF CleanupRest, D
  <1>12. /\ CleanupRest(t, o) \in Seq(StepOn(X))
         /\ Cleanup(t, o, ps) = FlattenSeq(f) \o CleanupRest(t, o)
    <2> DEFINE s1 == FlattenSeq(f)
               s2 == When(o.globalLustre # NoName, DeleteAndWait(GlobalLustre(o)))
               s3 == FlattenSeq(g)
               s4 == When(o.cleanupPersistent, D)
               s5 == When(o.persistentLustre # NoName, LustreCleanup(FileSystem(o)))
               s6 == When(o.storageProfile # NoName, DeleteAndWait(Profile(o.storageProfile)))
               s7 == When(o.containerProfile # NoName,
                          DeleteAndWait(ContainerProfile(o.containerProfile)))
    <2>1. /\ s1 \in Seq(StepOn(X)) /\ s2 \in Seq(StepOn(X)) /\ s3 \in Seq(StepOn(X))
          /\ s4 \in Seq(StepOn(X)) /\ s5 \in Seq(StepOn(X)) /\ s6 \in Seq(StepOn(X))
          /\ s7 \in Seq(StepOn(X))
      BY <1>1, <1>4, <1>5, <1>6, <1>7, <1>8
    <2>2. /\ Cleanup(t, o, ps) = s1 \o s2 \o s3 \o s4 \o s5 \o s6 \o s7
          /\ CleanupRest(t, o) = s2 \o s3 \o s4 \o s5 \o s6 \o s7
      BY <1>10, <1>11
    <2> HIDE DEF s1, s2, s3, s4, s5, s6, s7
    <2>3. /\ CleanupRest(t, o) = Cat(Cat(Cat(Cat(Cat(s2, s3), s4), s5), s6), s7)
          /\ Cleanup(t, o, ps) = Cat(Cat(Cat(Cat(Cat(Cat(s1, s2), s3), s4), s5), s6), s7)
      BY <2>2 DEF Cat
    <2>4. Seven(Seq(StepOn(X)), s1, s2, s3, s4, s5, s6, s7)
      BY <2>1 DEF Seven
    <2>5. /\ CleanupRest(t, o) \in Seq(StepOn(X))
          /\ Cleanup(t, o, ps) = Cat(s1, CleanupRest(t, o))
      BY <2>3, <2>4, CatSeven, SeqAssociates
    <2> QED BY <2>5 DEF Cat, s1
  <1>13. Cleanup(t, o, ps) \in Seq(StepOn(X))
    <2> HIDE DEF f
    <2> QED BY <1>1, <1>12
  <1> QED BY <1>12, <1>13

-----------------------------------------------------------------------------
(* The rules for parts of scripts. *)

LEMMA LeadsDeleteAndWait ==
    ASSUME NEW c, NEW l, NEW m, NEW g, NEW p, NEW obj \in c.objects, c.within = {},
           obj \in l \cup c.free, c.sure => obj \in l,
           \A q \in c.lives : q[2] = obj => q[1] \notin m \cup g
    PROVE  Leads(c, Between(l, m, g, p), DeleteAndWait(obj),
                 Between(l \ {obj}, m \ {obj}, g \ {obj}, p))
  <1>1. Leads(c, Between(l, m, g, p), Delete(obj),
              Between(l \ {obj}, m \ {obj}, g \cup {obj}, p))
    BY LeadsTake DEF Within, Delete
  <1>2. Leads(c, Between(l \ {obj}, m \ {obj}, g \cup {obj}, p), Gone(obj),
              Between(l \ {obj}, m \ {obj}, (g \cup {obj}) \ {obj}, p))
    BY LeadsGone DEF Within
  <1>3. (g \cup {obj}) \ {obj} = g \ {obj}
    OBVIOUS
  <1>4. Leads(c, Between(l \ {obj}, m \ {obj}, g \cup {obj}, p), Gone(obj),
              Between(l \ {obj}, m \ {obj}, g \ {obj}, p))
    BY <1>2, <1>3
  <1> QED BY <1>1, <1>4, LeadsJoin DEF DeleteAndWait

\* What is in X, and nothing else, is gone in the end.
LEMMA LeadsDrop ==
    ASSUME NEW c, NEW l, NEW m, NEW g, NEW p, NEW b, NEW obj, c.within = {},
           b => obj \in c.objects, obj \notin m \cup g, l \subseteq m,
           \A q \in c.lives : q[2] = obj => q[1] \notin m \cup g \cup {obj}
    PROVE  LET X == IF b THEN {obj} ELSE {} IN
           Leads(c, Between(l \cup X, m \cup X, g, p), When(b, DeleteAndWait(obj)),
                 Between(l, m, g, p))
  <1>1. CASE b
    <2> DEFINE l1 == l \cup {obj}
               m1 == m \cup {obj}
    <2>1. obj \in l1 /\ \A q \in c.lives : q[2] = obj => q[1] \notin m1 \cup g
      OBVIOUS
    <2>2. l1 \ {obj} = l /\ m1 \ {obj} = m /\ g \ {obj} = g
      OBVIOUS
    <2> HIDE DEF l1, m1
    <2>3. Leads(c, Between(l1, m1, g, p), DeleteAndWait(obj),
                Between(l1 \ {obj}, m1 \ {obj}, g \ {obj}, p))
      BY <1>1, <2>1, LeadsDeleteAndWait
    <2>4. Leads(c, Between(l1, m1, g, p), DeleteAndWait(obj), Between(l, m, g, p))
      BY <2>2, <2>3
    <2>5. When(b, DeleteAndWait(obj)) = DeleteAndWait(obj)
      BY <1>1 DEF When
    <2> QED BY <1>1, <2>4, <2>5 DEF l1, m1
  <1>2. CASE ~b
    <2>1. l \cup {} = l /\ m \cup {} = m
      OBVIOUS
    <2>2. Leads(c, Between(l, m, g, p), <<>>, Between(l, m, g, p))
      BY LeadsEmpty DEF Within
    <2> QED BY <1>2, <2>1, <2>2 DEF When
  <1> QED BY <1>1, <1>2

\* The workflow d, that destroys fs, is gone itself afterwards.
LEMMA LeadsDestroy ==
    ASSUME NEW c, NEW l, NEW m, NEW g, NEW p, NEW fs, NEW d, c.within = {},
           fs \in c.objects, d \in c.objects, fs \in l \cup c.free, c.sure => fs \in l,
           d \notin m \cup g \cup {fs}, l \subseteq m,
           \A q \in c.bonds : q[1] # d,
           \A q \in c.lives : q[2] # d /\ (q[2] = fs => q[1] \notin m \cup g \cup {d})
    PROVE  Leads(c, Between(l, m, g, p), Create(d) \o Destroy(fs) \o DeleteAndWait(d),
                 Between(l \ {fs}, m \ {fs}, g \cup {fs}, p))
  <1> DEFINE l1 == l \cup {d}
             m1 == m \cup {d}
             l2 == l1 \ {fs}
             m2 == m1 \ {fs}
             g2 == g \cup {fs}
  <1>1. /\ fs \in l1 \cup c.free /\ d \in l2 /\ (c.sure => fs \in l1)
        /\ \A q \in c.lives : q[2] = fs => q[1] \notin m1 \cup g
        /\ \A q \in c.lives : q[2] = d => q[1] \notin m2 \cup g2
        /\ l2 \ {d} = l \ {fs} /\ m2 \ {d} = m \ {fs} /\ g2 \ {d} = g \cup {fs}
    OBVIOUS
  <1>2. Leads(c, Between(l, m, g, p), Create(d), Between(l1, m1, g, p))
    BY LeadsMake DEF Within, Create
  <1> HIDE DEF l1, m1
  <1>3. Leads(c, Between(l1, m1, g, p), Destroy(fs), Between(l2, m2, g2, p))
    BY <1>1, LeadsTake DEF Within, Destroy
  <1> HIDE DEF l2, m2, g2
  <1>4. Leads(c, Between(l2, m2, g2, p), DeleteAndWait(d),
              Between(l2 \ {d}, m2 \ {d}, g2 \ {d}, p))
    BY <1>1, LeadsDeleteAndWait
  <1>5. Leads(c, Between(l2, m2, g2, p), DeleteAndWait(d),
              Between(l \ {fs}, m \ {fs}, g \cup {fs}, p))
    BY <1>1, <1>4
  <1>6. Leads(c, Between(l, m, g, p), Create(d) \o Destroy(fs), Between(l2, m2, g2, p))
    BY <1>2, <1>3, LeadsJoin
  <1> QED BY <1>5, <1>6, LeadsJoin

-----------------------------------------------------------------------------
(* What Prepare, Execute and Cleanup do, for all options. *)

\* Objects of two kinds are two objects.
LEMMA Kinds ==
    /\ \A x : /\ Workflow(x)[1] = "workflow" /\ Profile(x)[1] = "storage profile"
              /\ ContainerProfile(x)[1] = "container profile"
              /\ FileSystem(x)[1] = "persistent lustre"
              /\ OwnFileSystem(x)[1] = "persistent lustre"
              /\ Creator(x)[1] = "create workflow" /\ Destroyer(x)[1] = "destroy workflow"
              /\ GlobalLustre(x)[1] = "global lustre"
              /\ CopyInPod(x)[1] = "copy-in pod" /\ CopyOutPod(x)[1] = "copy-out pod"
    /\ \A x, k : MgsFileSystem(x, k)[1] = "MGS"
  BY DEF Workflow, Profile, ContainerProfile, Persistent, FileSystem, OwnFileSystem,
         MgsFileSystem, Creator, Destroyer, GlobalLustre, CopyInPod, CopyOutPod

\* So are two MGSs of a pool, and the workflows that make them.
LEMMA PoolApart ==
    ASSUME NEW o, NEW k, NEW j, k # j
    PROVE  /\ MgsFileSystem(o, k) # MgsFileSystem(o, j)
           /\ Creator(MgsFileSystem(o, k)) # Creator(MgsFileSystem(o, j))
  <1>1. MgsFileSystem(o, k)[3] = k /\ MgsFileSystem(o, j)[3] = j
    BY DEF MgsFileSystem
  <1>2. \A x : Creator(x)[2] = x
    BY DEF Creator
  <1> QED BY <1>1, <1>2

\* So are the workflows that make, or destroy, two file systems.
LEMMA Apart ==
    ASSUME NEW x, NEW y, NEW k
    PROVE  /\ Creator(FileSystem(x)) # Creator(MgsFileSystem(y, k))
           /\ Destroyer(FileSystem(x)) # Destroyer(MgsFileSystem(y, k))
           /\ Destroyer(OwnFileSystem(x)) # Destroyer(MgsFileSystem(y, k))
  <1>1. /\ Creator(FileSystem(x))[2][1] = "persistent lustre"
        /\ Creator(MgsFileSystem(y, k))[2][1] = "MGS"
        /\ Destroyer(FileSystem(x))[2][1] = "persistent lustre"
        /\ Destroyer(MgsFileSystem(y, k))[2][1] = "MGS"
        /\ Destroyer(OwnFileSystem(x))[2][1] = "persistent lustre"
    BY DEF Creator, Destroyer, Persistent, FileSystem, OwnFileSystem, MgsFileSystem
  <1> QED BY <1>1

\* The two persistent file systems of a test are two, if it has any.
LEMMA OwnApart ==
    ASSUME NEW o, Distinct(o), o.createPersistent # NoName \/ o.persistentLustre # NoName
    PROVE  OwnFileSystem(o) # FileSystem(o)
  <1>1. OwnFileSystem(o)[2] = o.createPersistent /\ FileSystem(o)[2] = o.persistentLustre
    BY DEF Persistent, FileSystem, OwnFileSystem
  <1> QED BY <1>1 DEF Distinct

\* Pairs of objects of t, the first of which needs the second to be made.
MakingNeeds(t, o) ==
    ({Workflow(t)} \X (Profiles(o) \cup ContainerProfiles(o) \cup Lustre(o)
                       \cup Global(o) \cup Pool(o, o.mgsPool.count)))
    \cup {<<FileSystem(o), Creator(FileSystem(o))>>, <<GlobalLustre(o), FileSystem(o)>>,
          <<OwnFileSystem(o), Workflow(t)>>}
    \cup ({CopyInPod(t), CopyOutPod(t)} \X {GlobalLustre(o)})
    \cup Only(o.externalMgs, {<<Profile(o.storageProfile), FileSystem(o)>>})
    \cup UNION {{MgsFileSystem(o, k)} \X {PoolProfile(o), Creator(MgsFileSystem(o, k))}
                : k \in 1 .. o.mgsPool.count}

\* And to live, if it is not the workflow.
LivingNeeds(t, o) ==
    {<<FileSystem(o), Creator(FileSystem(o))>>, <<GlobalLustre(o), FileSystem(o)>>}
    \cup ({CopyInPod(t), CopyOutPod(t)} \X {GlobalLustre(o)})

\* The profile of the pool is not the storage profile, which is there already.
Clear(o) == o.mgsPool.count # 0 => PoolProfile(o) \notin Profiles(o)

Rules(t, o, objects, free, within) ==
    [objects |-> objects, pods |-> HelperPods(t), free |-> free,
     bonds |-> MakingNeeds(t, o), lives |-> LivingNeeds(t, o), within |-> within,
     sure |-> free = {} /\ Clear(o)]

LEMMA MakingNeedsOf ==
    ASSUME NEW t, NEW o, NEW q \in MakingNeeds(t, o)
    PROVE  /\ \A x : /\ q[1] # ContainerProfile(x) /\ q[1] # Creator(x) /\ q[1] # Destroyer(x)
                     /\ q[1] = Profile(x) =>
                           o.externalMgs /\ x = o.storageProfile /\ q[2] = FileSystem(o)
           /\ q[1] = FileSystem(o) /\ FileSystem(o) # OwnFileSystem(o) =>
                 q[2] = Creator(FileSystem(o))
           /\ q[1] = GlobalLustre(o) => q[2] = FileSystem(o)
           /\ q[1] = OwnFileSystem(o) /\ FileSystem(o) # OwnFileSystem(o) => q[2] = Workflow(t)
           /\ q[1] \in {CopyInPod(t), CopyOutPod(t)} => q[2] = GlobalLustre(o)
           /\ \A k : q[1] = MgsFileSystem(o, k) => q[2] \in {PoolProfile(o), Creator(MgsFileSystem(o, k))}
           /\ q[1] = Workflow(t) => q[2] \in Prepared(t, o)
  <1>1. \/ /\ q[1] = Workflow(t)
           /\ q[2] \in Profiles(o) \cup ContainerProfiles(o) \cup Lustre(o)
                       \cup Global(o) \cup Pool(o, o.mgsPool.count)
        \/ q[1] = FileSystem(o) /\ q[2] = Creator(FileSystem(o))
        \/ q[1] = GlobalLustre(o) /\ q[2] = FileSystem(o)
        \/ q[1] = OwnFileSystem(o) /\ q[2] = Workflow(t)
        \/ q[1] \in {CopyInPod(t), CopyOutPod(t)} /\ q[2] = GlobalLustre(o)
        \/ o.externalMgs /\ q[1] = Profile(o.storageProfile) /\ q[2] = FileSystem(o)
        \/ \E k \in 1 .. o.mgsPool.count : /\ q[1] = MgsFileSystem(o, k)
                                           /\ q[2] \in {PoolProfile(o), Creator(MgsFileSystem(o, k))}
    BY DEF MakingNeeds, Only
  <1>2. q[1][1] \in {"workflow", "persistent lustre", "global lustre",
                     "copy-in pod", "copy-out pod", "storage profile", "MGS"}
    BY <1>1, Kinds
  <1>3. \A x : q[1] # ContainerProfile(x) /\ q[1] # Creator(x) /\ q[1] # Destroyer(x)
    BY <1>2, Kinds
  <1>4. ASSUME NEW x, q[1] = Profile(x)
        PROVE  o.externalMgs /\ x = o.storageProfile /\ q[2] = FileSystem(o)
    <2>1. o.externalMgs /\ q[1] = Profile(o.storageProfile) /\ q[2] = FileSystem(o)
      BY <1>1, <1>4, Kinds
    <2>2. \A y : Profile(x) = Profile(y) => x = y
      BY DEF Profile
    <2>3. Profile(x) = Profile(o.storageProfile)
      BY <1>4, <2>1
    <2> QED BY <2>1, <2>2, <2>3
  <1>5. q[1] = FileSystem(o) /\ FileSystem(o) # OwnFileSystem(o) => q[2] = Creator(FileSystem(o))
    BY <1>1, Kinds
  <1>6. q[1] = GlobalLustre(o) => q[2] = FileSystem(o)
    BY <1>1, Kinds
  <1>7. q[1] = OwnFileSystem(o) /\ FileSystem(o) # OwnFileSystem(o) => q[2] = Workflow(t)
    BY <1>1, Kinds
  <1>8. q[1] \in {CopyInPod(t), CopyOutPod(t)} => q[2] = GlobalLustre(o)
    BY <1>1, Kinds
  <1>9. ASSUME NEW k, q[1] = MgsFileSystem(o, k)
        PROVE  q[2] \in {PoolProfile(o), Creator(MgsFileSystem(o, k))}
    <2>1. q[1][1] = "MGS"
      BY <1>9 DEF MgsFileSystem
    <2>2. PICK j \in 1 .. o.mgsPool.count :
             q[1] = MgsFileSystem(o, j) /\ q[2] \in {PoolProfile(o), Creator(MgsFileSystem(o, j))}
      BY <1>1, <2>1, Kinds
    <2>3. j = k
      BY <1>9, <2>2, PoolApart
    <2> QED BY <2>2, <2>3
  <1>10. q[1] = Workflow(t) => q[2] \in Prepared(t, o)
    BY <1>1, Kinds DEF Prepared
  <1> QED BY <1>3, <1>4, <1>5, <1>6, <1>7, <1>8, <1>9, <1>10

LEMMA LivingNeedsOf ==
    ASSUME NEW t, NEW o, NEW q \in LivingNeeds(t, o)
    PROVE  /\ \A x : q[2] # Profile(x) /\ q[2] # ContainerProfile(x) /\ q[2] # Destroyer(x)
           /\ \A k : q[2] # MgsFileSystem(o, k) /\ q[2] # Creator(MgsFileSystem(o, k))
           /\ q[2] \notin {CopyInPod(t), CopyOutPod(t), Workflow(t)}
           /\ FileSystem(o) # OwnFileSystem(o) => q[2] # OwnFileSystem(o)
           /\ q[2] = GlobalLustre(o) => q[1] \in {CopyInPod(t), CopyOutPod(t)}
           /\ q[2] = FileSystem(o) => q[1] = GlobalLustre(o)
           /\ q[2] = Creator(FileSystem(o)) => q[1] = FileSystem(o)
  <1>1. \/ q[1] = FileSystem(o) /\ q[2] = Creator(FileSystem(o))
        \/ q[1] = GlobalLustre(o) /\ q[2] = FileSystem(o)
        \/ q[1] \in {CopyInPod(t), CopyOutPod(t)} /\ q[2] = GlobalLustre(o)
    BY DEF LivingNeeds
  <1>2. q[2][1] \in {"create workflow", "persistent lustre", "global lustre"}
    BY <1>1, Kinds
  <1>3. \A x : q[2] # Profile(x) /\ q[2] # ContainerProfile(x) /\ q[2] # Destroyer(x)
    BY <1>2, Kinds
  <1>4. \A k : q[2] # MgsFileSystem(o, k)
    BY <1>2, Kinds
  <1>5. ASSUME NEW k PROVE q[2] # Creator(MgsFileSystem(o, k))
    <2>1. Creator(FileSystem(o)) # Creator(MgsFileSystem(o, k))
      BY Apart
    <2> QED BY <1>1, <2>1, Kinds
  <1>6. /\ q[2] \notin {CopyInPod(t), CopyOutPod(t), Workflow(t)}
        /\ FileSystem(o) # OwnFileSystem(o) => q[2] # OwnFileSystem(o)
    <2>1. q[2] \notin {CopyInPod(t), CopyOutPod(t), Workflow(t)}
      BY <1>2, Kinds
    <2>2. q[2] = OwnFileSystem(o) => q[2] = FileSystem(o)
      BY <1>1, Kinds
    <2> QED BY <2>1, <2>2
  <1>7. q[2] = GlobalLustre(o) => q[1] \in {CopyInPod(t), CopyOutPod(t)}
    BY <1>1, Kinds
  <1>8. q[2] = FileSystem(o) => q[1] = GlobalLustre(o)
    BY <1>1, Kinds
  <1>9. q[2] = Creator(FileSystem(o)) => q[1] = FileSystem(o)
    BY <1>1, Kinds
  <1> QED BY <1>3, <1>4, <1>5, <1>6, <1>7, <1>8, <1>9

LEMMA Members ==
    ASSUME NEW t, NEW o
    PROVE  /\ \A x \in Profiles(o) : x = Profile(o.storageProfile) /\ x[1] = "storage profile"
           /\ \A x \in ContainerProfiles(o) : x[1] = "container profile"
           /\ \A x \in Lustre(o) : x \in {Creator(FileSystem(o)), FileSystem(o)}
           /\ \A x \in Global(o) : x[1] = "global lustre"
           /\ \A x \in InPods(t, o) : x[1] = "copy-in pod"
           /\ \A x \in OutPods(t, o) : x[1] = "copy-out pod"
           /\ \A x \in Own(o) : x[1] = "persistent lustre"
           /\ \A j : /\ \A x \in Pool(o, j) : x[1] = "MGS"
                     /\ \A x \in PoolCreators(o, j) : x[1] = "create workflow" /\ x # Creator(FileSystem(o))
                     /\ \A x \in PoolDestroyers(o, j) : x[1] = "destroy workflow"
  <1>1. \A x \in Profiles(o) : x = Profile(o.storageProfile) /\ x[1] = "storage profile"
    BY Kinds DEF Profiles, Only
  <1>2. \A x \in ContainerProfiles(o) : x[1] = "container profile"
    BY Kinds DEF ContainerProfiles, Only
  <1>3. \A x \in Lustre(o) : x \in {Creator(FileSystem(o)), FileSystem(o)}
    BY DEF Lustre, Only
  <1>4. \A x \in Global(o) : x[1] = "global lustre"
    BY Kinds DEF Global, Only
  <1>5. \A x \in InPods(t, o) : x[1] = "copy-in pod"
    BY Kinds DEF InPods, Only
  <1>6. \A x \in OutPods(t, o) : x[1] = "copy-out pod"
    BY Kinds DEF OutPods, Only
  <1>7. \A x \in Own(o) : x[1] = "persistent lustre"
    BY Kinds DEF Own, Only
  <1>8. \A j : \A x \in Pool(o, j) : x[1] = "MGS"
    BY Kinds DEF Pool
  <1>9. \A j : \A x \in PoolCreators(o, j) : x[1] = "create workflow" /\ x # Creator(FileSystem(o))
    BY Kinds, Apart DEF PoolCreators
  <1>10. \A j : \A x \in PoolDestroyers(o, j) : x[1] = "destroy workflow"
    BY Kinds DEF PoolDestroyers
  <1> QED BY <1>1, <1>2, <1>3, <1>4, <1>5, <1>6, <1>7, <1>8, <1>9, <1>10

LEMMA PoolMembers ==
    ASSUME NEW o, NEW j
    PROVE  /\ \A x \in Pool(o, j) : x[1] = "MGS"
           /\ \A x \in PoolCreators(o, j) : x[1] = "create workflow"
           /\ \A x \in PoolDestroyers(o, j) : x[1] = "destroy workflow"
  BY Kinds DEF Pool, PoolCreators, PoolDestroyers

\* What comes after Prepare is nothing that Prepare makes.
LEMMA LaterApart ==
    ASSUME NEW t, NEW o, Distinct(o)
    PROVE  LET X == Prepared(t, o) \cup PoolCreators(o, o.mgsPool.count) IN
           Workflow(t) \notin X /\ OwnFileSystem(o) \notin X /\ CopyOutPod(t) \notin X
  <1> DEFINE K == {"storage profile", "container profile", "create workflow", "persistent lustre",
                   "MGS", "global lustre", "copy-in pod"}
             m == o.mgsPool.count
             X == Prepared(t, o) \cup PoolCreators(o, m)
  <1>1. \A x \in Lustre(o) : x[1] \in K
    <2>1. Creator(FileSystem(o))[1] = "create workflow" /\ FileSystem(o)[1] = "persistent lustre"
      BY Kinds
    <2>2. \A x \in Lustre(o) : x = Creator(FileSystem(o)) \/ x = FileSystem(o)
      BY Members
    <2> QED BY <2>1, <2>2
  <1>2. \A x \in Pool(o, m) \cup PoolCreators(o, m) : x[1] \in K
    BY PoolMembers
  <1>3. \A x \in Profiles(o) \cup ContainerProfiles(o) : x[1] \in K
    BY Members
  <1>4. \A x \in Global(o) \cup InPods(t, o) : x[1] \in K
    BY Members
  <1>5. ASSUME NEW x \in X PROVE x[1] \in K
    <2> HIDE DEF K
    <2> QED BY <1>1, <1>2, <1>3, <1>4 DEF Prepared
  <1>6. Workflow(t)[1] \notin K /\ CopyOutPod(t)[1] \notin K
    BY Kinds
  <1>7. OwnFileSystem(o) \notin X
    <2>1. OwnFileSystem(o)[1] = "persistent lustre"
      BY Kinds
    <2>2. OwnFileSystem(o) \notin Lustre(o)
      <3>1. OwnFileSystem(o) # Creator(FileSystem(o))
        BY Kinds
      <3> QED BY <3>1, OwnApart DEF Lustre, Only
    <2>3. OwnFileSystem(o) \notin Pool(o, m) /\ OwnFileSystem(o) \notin PoolCreators(o, m)
      BY <2>1, PoolMembers
    <2>4. /\ OwnFileSystem(o) \notin Profiles(o) /\ OwnFileSystem(o) \notin ContainerProfiles(o)
          /\ OwnFileSystem(o) \notin Global(o) /\ OwnFileSystem(o) \notin InPods(t, o)
      BY <2>1, Members
    <2> QED BY <2>2, <2>3, <2>4 DEF Prepared
  <1> HIDE DEF K, X
  <1>8. Workflow(t) \notin X /\ OwnFileSystem(o) \notin X /\ CopyOutPod(t) \notin X
    BY <1>5, <1>6, <1>7
  <1> QED BY <1>8 DEF X

\* One MGS of the pool.  If the profile of the pool has the name of the storage
\* profile, the name is taken, and Prepare does not get any further.
LEMMA LeadsMgsPrepare ==
    ASSUME NEW t, NEW o, NEW c, NEW h, NEW g, NEW k, c.within = {},
           c.bonds = MakingNeeds(t, o), c.lives = LivingNeeds(t, o),
           LET fs == MgsFileSystem(o, k) IN
              /\ fs \in c.objects /\ Creator(fs) \in c.objects /\ PoolProfile(o) \in c.objects
              /\ fs \notin h \cup g /\ Creator(fs) \notin h \cup g /\ PoolProfile(o) \notin g
              /\ c.sure => PoolProfile(o) \notin h,
           o.externalMgs => Profile(o.storageProfile) \in h
    PROVE  Leads(c, Between(h, h, g, <<>>), MgsPrepare(o, k),
                 Between(h \cup {MgsFileSystem(o, k)}, h \cup {MgsFileSystem(o, k)},
                         g \cup {Creator(MgsFileSystem(o, k))}, <<>>))
  <1> DEFINE fs == MgsFileSystem(o, k)
             mk == Creator(fs)
             pp == PoolProfile(o)
             h1 == h \cup {mk}
             h2 == h1 \cup {pp}
             h3 == h2 \cup {fs}
             h4 == h3 \ {pp}
             R  == Between(h \cup {fs}, h \cup {fs}, g \cup {mk}, <<>>)
  <1>1. pp # mk /\ pp # fs /\ mk # fs
    BY Kinds DEF PoolProfile
  <1>2. \A q \in c.bonds : /\ q[1] # mk /\ (q[1] = fs => q[2] \in {pp, mk})
                           /\ (q[1] = pp => pp \in h)
    <2>1. \A q \in c.bonds : q[1] # mk /\ (q[1] = fs => q[2] \in {pp, mk})
      BY MakingNeedsOf
    <2>2. \A q \in c.bonds : q[1] = pp => o.externalMgs /\ pp = Profile(o.storageProfile)
      BY MakingNeedsOf DEF PoolProfile
    <2> QED BY <2>1, <2>2
  <1>3. \A q \in c.lives : q[2] # pp /\ q[2] # mk
    BY LivingNeedsOf DEF PoolProfile
  <1>4. /\ fs \in c.objects /\ mk \in c.objects /\ pp \in c.objects
        /\ fs \notin h \cup g /\ mk \notin h \cup g /\ pp \notin g /\ (c.sure => pp \notin h)
    OBVIOUS
  <1>5. MgsPrepare(o, k) = Create(mk) \o Create(pp) \o Provision(fs) \o DeleteAndWait(pp) \o Delete(mk)
    BY DEF MgsPrepare
  <1> HIDE DEF fs, mk, pp
  <1>6. Leads(c, Between(h, h, g, <<>>), Create(mk), Between(h1, h1, g, <<>>))
    BY <1>2, <1>4, LeadsMake DEF Within, Create
  <1>7. CASE pp \in h
    <2>1. pp \in h1
      BY <1>7
    <2> HIDE DEF h1, R
    <2>2. Leads(c, Between(h1, h1, g, <<>>), Create(pp), {})
      <3> DEFINE e == [op |-> "create", obj |-> pp]
      <3>1. /\ e \in StepOn(c.objects) /\ e.obj = pp /\ Makes(e)
            /\ pp[1] = "storage profile"
        BY <1>4, Kinds DEF StepOn, Op, Makes, pp, PoolProfile
      <3> HIDE DEF e
      <3>2. \A x \in Between(h1, h1, g, <<>>) : Blocked(c, e, x)
        BY <1>4, <1>7, <2>1, <3>1 DEF Between, Blocked
      <3>3. Leads(c, Between(h1, h1, g, <<>>), <<e>>, {})
        BY <3>1, <3>2, LeadsStep DEF Within
      <3> QED BY <3>3 DEF e, Create
    <2>3. /\ Leads(c, {}, Provision(fs), {}) /\ Leads(c, {}, DeleteAndWait(pp), {})
          /\ Leads(c, {}, Delete(mk), {})
      BY <1>4, OneStep, LeadsNowhere
    <2>4. Leads(c, Between(h, h, g, <<>>), Create(mk) \o Create(pp), {})
      BY <1>6, <2>2, LeadsJoin
    <2>5. Leads(c, Between(h, h, g, <<>>), Create(mk) \o Create(pp) \o Provision(fs), {})
      BY <2>3, <2>4, LeadsJoin
    <2>6. Leads(c, Between(h, h, g, <<>>),
                Create(mk) \o Create(pp) \o Provision(fs) \o DeleteAndWait(pp), {})
      BY <2>3, <2>5, LeadsJoin
    <2>7. Leads(c, Between(h, h, g, <<>>), MgsPrepare(o, k), {})
      BY <1>5, <2>3, <2>6, LeadsJoin
    <2>8. Leads(c, Between(h, h, g, <<>>), MgsPrepare(o, k), R)
      <3>1. {} \subseteq R /\ Between(h, h, g, <<>>) \subseteq Between(h, h, g, <<>>)
        OBVIOUS
      <3> QED BY <2>7, <3>1, LeadsWeaken
    <2> QED BY <2>8 DEF R, fs, mk
  <1>8. CASE pp \notin h
    <2>1. Leads(c, Between(h1, h1, g, <<>>), Create(pp), Between(h2, h2, g, <<>>))
      BY <1>1, <1>2, <1>4, <1>8, LeadsMake DEF Within, Create
    <2>2. fs \notin h2 /\ \A q \in c.bonds : q[1] = fs => q[2] \in h2
      BY <1>1, <1>2, <1>4
    <2>3. /\ pp \in h3 /\ mk \in h4
          /\ h4 \ {mk} = h \cup {fs} /\ (g \ {pp}) \cup {mk} = g \cup {mk}
      BY <1>1, <1>4, <1>8
    <2> HIDE DEF h1, h2
    <2>4. Leads(c, Between(h2, h2, g, <<>>), Provision(fs), Between(h3, h3, g, <<>>))
      BY <1>4, <2>2, LeadsMake DEF Within, Provision
    <2> HIDE DEF h3
    <2>5. Leads(c, Between(h3, h3, g, <<>>), DeleteAndWait(pp), Between(h4, h4, g \ {pp}, <<>>))
      BY <1>3, <1>4, <2>3, LeadsDeleteAndWait
    <2> HIDE DEF h4
    <2>6. Leads(c, Between(h4, h4, g \ {pp}, <<>>), Delete(mk),
                Between(h4 \ {mk}, h4 \ {mk}, (g \ {pp}) \cup {mk}, <<>>))
      BY <1>3, <1>4, <2>3, LeadsTake DEF Within, Delete
    <2>7. Leads(c, Between(h4, h4, g \ {pp}, <<>>), Delete(mk), R)
      BY <2>3, <2>6
    <2> HIDE DEF R
    <2>8. Leads(c, Between(h, h, g, <<>>), Create(mk) \o Create(pp), Between(h2, h2, g, <<>>))
      BY <1>6, <2>1, LeadsJoin
    <2>9. Leads(c, Between(h, h, g, <<>>), Create(mk) \o Create(pp) \o Provision(fs),
                Between(h3, h3, g, <<>>))
      BY <2>4, <2>8, LeadsJoin
    <2>10. Leads(c, Between(h, h, g, <<>>),
                 Create(mk) \o Create(pp) \o Provision(fs) \o DeleteAndWait(pp),
                 Between(h4, h4, g \ {pp}, <<>>))
      BY <2>5, <2>9, LeadsJoin
    <2>11. Leads(c, Between(h, h, g, <<>>), MgsPrepare(o, k), R)
      BY <1>5, <2>7, <2>10, LeadsJoin
    <2> QED BY <2>11 DEF R, fs, mk
  <1> QED BY <1>7, <1>8

\* t.helperPods after Prepare, and after Execute.
InList(t, o)  == When(o.copyIn, <<CopyInPod(t)>>)
AllList(t, o) == IF o.copyOut THEN Append(InList(t, o), CopyOutPod(t)) ELSE InList(t, o)

LEMMA PrepareLeads ==
    ASSUME NEW t, NEW o, WellFormed(o), Distinct(o), o.externalMgs => o.persistentLustre # NoName
    PROVE  LET all == Prepared(t, o) IN
           Leads(Rules(t, o, Surroundings(t, o), {}, {}), Between({}, {}, {}, <<>>), Prepare(t, o),
                 Between(all, all, PoolCreators(o, o.mgsPool.count), InList(t, o)))
  <1> DEFINE c  == Rules(t, o, Surroundings(t, o), {}, {})
             fs == FileSystem(o)
             m  == o.mgsPool.count
             H1 == Only(o.storageProfile # NoName /\ ~o.externalMgs, {Profile(o.storageProfile)})
             H2 == H1 \cup ContainerProfiles(o)
             H3 == Profiles(o) \cup ContainerProfiles(o) \cup Lustre(o)
             H4(k) == H3 \cup Pool(o, k)
             H5 == Prepared(t, o)
             G  == PoolCreators(o, m)
             S0 == Between({}, {}, {}, <<>>)
             S1 == Between(H1, H1, {}, <<>>)
             S2 == Between(H2, H2, {}, <<>>)
             S3 == Between(H3, H3, {}, <<>>)
             S4(k) == Between(H4(k), H4(k), PoolCreators(o, k), <<>>)
             S5 == Between(H5, H5, G, InList(t, o))
             f  == [k \in 1 .. m |-> MgsPrepare(o, k)]
  <1>1. /\ c.within = {} /\ c.free = {} /\ c.objects = Surroundings(t, o) /\ c.pods = HelperPods(t)
        /\ c.bonds = MakingNeeds(t, o) /\ c.lives = LivingNeeds(t, o) /\ (c.sure => Clear(o))
    BY DEF Rules
  <1>2. m \in Nat
    BY DEF WellFormed
  <1> HIDE DEF c
  <1>3. Leads(c, S0, When(o.storageProfile # NoName /\ ~o.externalMgs,
                          Create(Profile(o.storageProfile))), S1)
    <2>1. ASSUME o.storageProfile # NoName, ~o.externalMgs
          PROVE  Leads(c, S0, Create(Profile(o.storageProfile)), S1)
      <3> DEFINE x == Profile(o.storageProfile)
      <3>1. x \in c.objects
        BY <1>1, <2>1 DEF Surroundings, Prepared, Profiles, Only
      <3>2. \A q \in c.bonds : q[1] = x => q[2] \in {}
        BY <1>1, <2>1, MakingNeedsOf
      <3>3. H1 = {} \cup {x}
        BY <2>1 DEF Only
      <3> HIDE DEF x, H1
      <3>4. Leads(c, Between({}, {}, {}, <<>>), Create(x), Between({} \cup {x}, {} \cup {x}, {}, <<>>))
        BY <1>1, <3>1, <3>2, LeadsMake DEF Within, Create
      <3> QED BY <3>3, <3>4 DEF x
    <2>2. ~(o.storageProfile # NoName /\ ~o.externalMgs) => S0 \subseteq S1
      BY DEF Only
    <2> HIDE DEF S0, S1
    <2> QED BY <1>1, <2>1, <2>2, LeadsWhen DEF Within
  <1>4. Leads(c, S1, When(o.containerProfile # NoName,
                          Create(ContainerProfile(o.containerProfile))), S2)
    <2>1. ASSUME o.containerProfile # NoName
          PROVE  Leads(c, S1, Create(ContainerProfile(o.containerProfile)), S2)
      <3> DEFINE x == ContainerProfile(o.containerProfile)
      <3>1. x \in c.objects
        BY <1>1, <2>1 DEF Surroundings, Prepared, ContainerProfiles, Only
      <3>2. \A q \in c.bonds : q[1] = x => q[2] \in H1
        BY <1>1, MakingNeedsOf
      <3>5. x \notin H1
        <4>1. x # Profile(o.storageProfile)
          BY Kinds
        <4> QED BY <4>1 DEF Only
      <3>3. H2 = H1 \cup {x}
        BY <2>1 DEF ContainerProfiles, Only
      <3> HIDE DEF x, H1, H2
      <3>4. Leads(c, Between(H1, H1, {}, <<>>), Create(x), Between(H1 \cup {x}, H1 \cup {x}, {}, <<>>))
        BY <1>1, <3>1, <3>2, <3>5, LeadsMake DEF Within, Create
      <3> QED BY <3>3, <3>4 DEF x
    <2>2. o.containerProfile = NoName => S1 \subseteq S2
      <3>1. o.containerProfile = NoName => H2 = H1
        BY DEF ContainerProfiles, Only
      <3> HIDE DEF H1, H2
      <3> QED BY <3>1
    <2> HIDE DEF S1, S2
    <2> QED BY <1>1, <2>1, <2>2, LeadsWhen DEF Within
  <1>5. Leads(c, S2, When(o.persistentLustre # NoName,
              PersistentPrepare(o) \o When(o.externalMgs, Create(Profile(o.storageProfile)))), S3)
    <2>1. ASSUME o.persistentLustre # NoName
          PROVE  Leads(c, S2, PersistentPrepare(o)
                                 \o When(o.externalMgs, Create(Profile(o.storageProfile))), S3)
      <3> DEFINE mk == Creator(fs)
                 K1 == H2 \cup {mk}
                 K2 == K1 \cup {fs}
      <3>1. mk \in c.objects /\ fs \in c.objects
        BY <1>1, <2>1 DEF Surroundings, Prepared, Lustre, Only
      <3>2. \A q \in c.bonds : q[1] # mk /\ (q[1] = fs => q[2] \in K1)
        BY <1>1, <2>1, MakingNeedsOf, OwnApart
      <3>10. mk \notin H2 /\ fs \notin K1
        <4>1. /\ mk[1] = "create workflow" /\ fs[1] = "persistent lustre"
              /\ Profile(o.storageProfile)[1] = "storage profile"
          BY Kinds
        <4>2. \A y \in H2 : y[1] \in {"storage profile", "container profile"}
          BY <4>1, Members DEF Only
        <4> HIDE DEF H2, mk, fs
        <4> QED BY <4>1, <4>2
      <3>3. Lustre(o) = {mk, fs}
        BY <2>1 DEF Lustre, Only
      <3> HIDE DEF H2, mk
      <3>4. Leads(c, Between(H2, H2, {}, <<>>), Create(mk), Between(K1, K1, {}, <<>>))
        BY <1>1, <3>1, <3>2, <3>10, LeadsMake DEF Within, Create
      <3>11. fs \in K2
        OBVIOUS
      <3> HIDE DEF K1
      <3>5. Leads(c, Between(K1, K1, {}, <<>>), Provision(fs), Between(K2, K2, {}, <<>>))
        BY <1>1, <3>1, <3>2, <3>10, LeadsMake DEF Within, Provision
      <3> HIDE DEF K2
      <3>6. Leads(c, Between(K2, K2, {}, <<>>), Await(fs), Between(K2, K2, {}, <<>>))
        BY <1>1, <3>1, <3>11, LeadsWait DEF Within, Await
      <3>7. Leads(c, Between(H2, H2, {}, <<>>), Create(mk) \o Provision(fs), Between(K2, K2, {}, <<>>))
        BY <3>4, <3>5, LeadsJoin
      <3>8. Leads(c, Between(H2, H2, {}, <<>>), PersistentPrepare(o), Between(K2, K2, {}, <<>>))
        BY <3>6, <3>7, LeadsJoin DEF PersistentPrepare, mk
      <3>9. Leads(c, Between(K2, K2, {}, <<>>), When(o.externalMgs, Create(Profile(o.storageProfile))), S3)
        <4> DEFINE x == Profile(o.storageProfile)
        <4>1. ASSUME o.externalMgs PROVE Leads(c, Between(K2, K2, {}, <<>>), Create(x), S3)
          <5>1. o.storageProfile # NoName
            BY <4>1 DEF WellFormed
          <5>2. x \in c.objects
            BY <1>1, <5>1 DEF Surroundings, Prepared, Profiles, Only
          <5>3. \A q \in c.bonds : q[1] = x => q[2] \in K2
            BY <1>1, MakingNeedsOf DEF K2
          <5>4. H3 = K2 \cup {x}
            BY <3>3, <4>1, <5>1 DEF K2, K1, H2, Profiles, Only
          <5>6. x \notin K2
            <6>1. x[1] = "storage profile" /\ mk[1] = "create workflow" /\ fs[1] = "persistent lustre"
              BY Kinds DEF mk
            <6>2. H2 = ContainerProfiles(o)
              BY <4>1 DEF H2, Only
            <6>3. \A y \in H2 : y[1] = "container profile"
              BY <6>2, Members
            <6> HIDE DEF x, H2, fs
            <6> QED BY <6>1, <6>3 DEF K2, K1
          <5> HIDE DEF x, H3
          <5>5. Leads(c, Between(K2, K2, {}, <<>>), Create(x), Between(K2 \cup {x}, K2 \cup {x}, {}, <<>>))
            BY <1>1, <5>2, <5>3, <5>6, LeadsMake DEF Within, Create
          <5> QED BY <5>4, <5>5
        <4>2. ~o.externalMgs => Between(K2, K2, {}, <<>>) \subseteq S3
          <5>1. ~o.externalMgs => K2 = H3
            BY <3>3 DEF K2, K1, H2, Profiles, Only
          <5> HIDE DEF H3
          <5> QED BY <5>1
        <4> HIDE DEF x, S3
        <4>3. Leads(c, Between(K2, K2, {}, <<>>), When(o.externalMgs, Create(x)), S3)
          BY <1>1, <4>1, <4>2, LeadsWhen DEF Within
        <4> QED BY <4>3 DEF x
      <3> HIDE DEF S3
      <3> QED BY <3>8, <3>9, LeadsJoin
    <2>2. o.persistentLustre = NoName => S2 \subseteq S3
      <3>1. o.persistentLustre = NoName => H2 = H3
        BY DEF Lustre, Profiles, Only
      <3> HIDE DEF H2, H3
      <3> QED BY <3>1
    <2> HIDE DEF S2, S3
    <2> QED BY <1>1, <2>1, <2>2, LeadsWhen DEF Within
  <1>6. Leads(c, S3, FlattenSeq(f), S4(m))
    <2> DEFINE P == [k \in 0 .. m |-> S4(k)]
    <2>1. /\ Len(f) = m /\ (m = 0 => f = <<>>) /\ \A k \in 1 .. m : f[k] = MgsPrepare(o, k)
          /\ \A k \in 0 .. m : P[k] = S4(k)
      BY <1>2
    <2>2. S4(0) = S3
      <3>1. Pool(o, 0) = {} /\ PoolCreators(o, 0) = {} /\ H3 \cup {} = H3
        BY DEF Pool, PoolCreators
      <3> QED BY <3>1
    <2> HIDE DEF f, P, S3
    <2>3. ASSUME NEW k \in 1 .. m PROVE Leads(c, P[k - 1], f[k], P[k])
      <3> DEFINE x  == MgsFileSystem(o, k)
                 h  == H4(k - 1)
                 g  == PoolCreators(o, k - 1)
      <3>1. x \in c.objects /\ Creator(x) \in c.objects /\ PoolProfile(o) \in c.objects
        BY <1>1, <1>2 DEF Surroundings, Prepared, Pool, PoolCreators, Only
      <3>2. x \notin h
        <4>1. x \notin Pool(o, k - 1)
          BY <1>2, PoolApart DEF Pool
        <4>2. x[1] = "MGS"
          BY Kinds
        <4>3. x \notin Lustre(o)
          <5>1. x # Creator(fs) /\ x # fs
            BY Kinds
          <5> QED BY <5>1, Members
        <4>4. x \notin Profiles(o) /\ x \notin ContainerProfiles(o)
          BY <4>2, Members
        <4> QED BY <4>1, <4>3, <4>4
      <3>3. Creator(x) \notin h
        <4>1. Creator(x)[1] = "create workflow"
          BY Kinds
        <4>2. Creator(x) # Creator(fs)
          BY Apart
        <4>3. Creator(x) # fs
          BY <4>1, Kinds
        <4>4. Creator(x) \notin Lustre(o)
          BY <4>2, <4>3, Members
        <4>5. Creator(x) \notin Profiles(o) /\ Creator(x) \notin ContainerProfiles(o)
          BY <4>1, Members
        <4>6. Creator(x) \notin Pool(o, k - 1)
          BY <4>1, Members
        <4> QED BY <4>4, <4>5, <4>6
      <3>4. PoolProfile(o) \notin g
        BY Members, Kinds DEF PoolProfile
      <3>11. x \notin g /\ Creator(x) \notin g
        <4>1. x[1] = "MGS" /\ \A y \in g : y[1] = "create workflow"
          BY Members, Kinds
        <4>2. \A j \in 1 .. k - 1 : Creator(x) # Creator(MgsFileSystem(o, j))
          BY <1>2, PoolApart
        <4> QED BY <4>1, <4>2 DEF PoolCreators
      <3>12. c.sure => PoolProfile(o) \notin h
        <4> DEFINE y == PoolProfile(o)
        <4>1. y[1] = "storage profile"
          BY Kinds DEF PoolProfile
        <4>2. c.sure => y \notin Profiles(o)
          <5>1. m # 0
            BY <1>2
          <5> QED BY <1>1, <5>1 DEF Clear
        <4>3. y \notin Lustre(o)
          <5>1. y # Creator(fs) /\ y # fs
            BY Kinds DEF PoolProfile
          <5> QED BY <5>1, Members
        <4>4. y \notin ContainerProfiles(o) /\ y \notin Pool(o, k - 1)
          BY <4>1, Members
        <4> QED BY <4>2, <4>3, <4>4
      <3>5. o.externalMgs => Profile(o.storageProfile) \in h
        BY DEF Profiles, Only, WellFormed
      <3>6. h \cup {x} = H4(k)
        BY <1>2 DEF Pool
      <3>7. g \cup {Creator(x)} = PoolCreators(o, k)
        BY <1>2 DEF PoolCreators
      <3> HIDE DEF h, g
      <3>8. Leads(c, Between(h, h, g, <<>>), MgsPrepare(o, k),
                  Between(h \cup {x}, h \cup {x}, g \cup {Creator(x)}, <<>>))
        BY <1>1, <3>1, <3>2, <3>3, <3>4, <3>5, <3>11, <3>12, LeadsMgsPrepare
      <3>9. Leads(c, Between(h, h, g, <<>>), MgsPrepare(o, k), S4(k))
        BY <3>6, <3>7, <3>8
      <3>10. P[k - 1] = Between(h, h, g, <<>>) /\ P[k] = S4(k) /\ f[k] = MgsPrepare(o, k)
        BY <1>2, <2>1 DEF h, g
      <3> QED BY <3>9, <3>10
    <2>4. P[0] = S3 /\ P[m] = S4(m) /\ Within(c, P[0])
      BY <1>1, <1>2, <2>1, <2>2 DEF Within
    <2> HIDE DEF m
    <2>5. Leads(c, P[0], FlattenSeq(f), P[m])
      BY <1>2, <2>1, <2>3, <2>4, LeadsFlatten
    <2> QED BY <2>4, <2>5
  <1>7. Leads(c, S4(m), When(o.globalLustre # NoName,
              Create(GlobalLustre(o)) \o When(o.copyIn, HelperPod(CopyInPod(t)))), S5)
    <2> DEFINE gl == GlobalLustre(o)
               pod == CopyInPod(t)
               h  == H4(m)
               h1 == h \cup {gl}
               S  == Between(h1, h1, G, <<>>)
    <2>1. ASSUME o.globalLustre # NoName
          PROVE  Leads(c, S4(m), Create(gl) \o When(o.copyIn, HelperPod(pod)), S5)
      <3>1. gl \in c.objects /\ (o.copyIn => pod \in c.objects)
        BY <1>1, <2>1 DEF Surroundings, Prepared, Global, InPods, Only
      <3>2. o.persistentLustre # NoName /\ fs \in h
        BY <2>1 DEF Lustre, Only, WellFormed
      <3>3. \A q \in c.bonds : (q[1] = gl => q[2] \in h) /\ (q[1] = pod => q[2] \in h1)
        <4>1. \A q \in c.bonds : (q[1] = gl => q[2] = fs) /\ (q[1] = pod => q[2] = gl)
          BY <1>1, MakingNeedsOf
        <4> HIDE DEF h
        <4> QED BY <3>2, <4>1
      <3>4. h1 \cup InPods(t, o) = H5
        BY <2>1 DEF Prepared, Global, Only
      <3>8. gl \notin h \cup G /\ pod \notin h1 \cup G
        <4>1. /\ gl[1] = "global lustre" /\ pod[1] = "copy-in pod"
              /\ Creator(fs)[1] = "create workflow" /\ fs[1] = "persistent lustre"
          BY Kinds
        <4>2. \A y \in Lustre(o) : y[1] \in {"create workflow", "persistent lustre"}
          BY <4>1, Members
        <4>4. \A y \in Profiles(o) \cup ContainerProfiles(o) : y[1] \in {"storage profile", "container profile"}
          BY Members
        <4>5. \A y \in Pool(o, m) : y[1] = "MGS"
          BY PoolMembers
        <4>6. \A y \in G : y[1] = "create workflow"
          BY PoolMembers
        <4>3. \A y \in h \cup G : y[1] \in {"storage profile", "container profile", "create workflow",
                                           "persistent lustre", "MGS"}
          BY <4>2, <4>4, <4>5, <4>6
        <4> HIDE DEF h, G, gl, pod
        <4> QED BY <4>1, <4>3
      <3> HIDE DEF h, H5
      <3>5. Leads(c, Between(h, h, G, <<>>), Create(gl), S)
        BY <1>1, <3>1, <3>3, <3>8, LeadsMake DEF Within, Create
      <3> HIDE DEF h1
      <3>6. Leads(c, S, When(o.copyIn, HelperPod(pod)), S5)
        <4>1. ASSUME o.copyIn PROVE Leads(c, S, HelperPod(pod), S5)
          <5>1. InList(t, o) = Append(<<>>, pod) /\ InPods(t, o) = {pod}
            BY <4>1 DEF InList, When, InPods, Only
          <5>2. Append(<<>>, pod) \in c.pods
            BY <1>1 DEF HelperPods
          <5>3. H5 = h1 \cup {pod}
            BY <3>4, <5>1
          <5> HIDE DEF pod
          <5>4. Leads(c, Between(h1, h1, G, <<>>), HelperPod(pod),
                      Between(h1 \cup {pod}, h1 \cup {pod}, G, Append(<<>>, pod)))
            BY <1>1, <3>1, <3>3, <3>8, <4>1, <5>2, LeadsPod DEF Within
          <5> QED BY <5>1, <5>3, <5>4
        <4>2. ~o.copyIn => S \subseteq S5
          <5>1. ~o.copyIn => InList(t, o) = <<>> /\ InPods(t, o) = {}
            BY DEF InList, When, InPods, Only
          <5>2. ~o.copyIn => H5 = h1
            BY <3>4, <5>1
          <5> QED BY <5>1, <5>2
        <4> HIDE DEF S, S5
        <4> QED BY <1>1, <4>1, <4>2, LeadsWhen DEF Within
      <3> HIDE DEF S, S5
      <3>7. Leads(c, Between(h, h, G, <<>>), Create(gl) \o When(o.copyIn, HelperPod(pod)), S5)
        BY <3>5, <3>6, LeadsJoin
      <3> QED BY <3>7 DEF h
    <2>2. o.globalLustre = NoName => S4(m) \subseteq S5
      <3>1. o.globalLustre = NoName => ~o.copyIn
        BY DEF WellFormed
      <3>2. o.globalLustre = NoName => H5 = H4(m) /\ InList(t, o) = <<>>
        BY <3>1 DEF Prepared, Global, InPods, Only, InList, When
      <3> HIDE DEF H4, H5
      <3> QED BY <3>2
    <2> HIDE DEF S4, S5
    <2> QED BY <1>1, <2>1, <2>2, LeadsWhen DEF Within
  <1> HIDE DEF S0, S1, S2, S3, S4, S5
  <1>8. ASSUME NEW s1, NEW s2, NEW s3, NEW s4, NEW s5, Leads(c, S0, s1, S1), Leads(c, S1, s2, S2),
               Leads(c, S2, s3, S3), Leads(c, S3, s4, S4(m)), Leads(c, S4(m), s5, S5)
        PROVE  Leads(c, S0, s1 \o s2 \o s3 \o s4 \o s5, S5)
    <2>1. Leads(c, S0, s1 \o s2, S2)
      BY <1>8, LeadsJoin
    <2>2. Leads(c, S0, s1 \o s2 \o s3, S3)
      BY <1>8, <2>1, LeadsJoin
    <2>3. Leads(c, S0, s1 \o s2 \o s3 \o s4, S4(m))
      BY <1>8, <2>2, LeadsJoin
    <2> QED BY <1>8, <2>3, LeadsJoin
  <1>9. Leads(c, S0, Prepare(t, o), S5)
    BY <1>3, <1>4, <1>5, <1>6, <1>7, <1>8 DEF Prepare
  <1> QED BY <1>9 DEF c, S0, S5

LEMMA TwoPods == ASSUME NEW x, NEW y PROVE Append(<<x>>, y) = <<x, y>>
  <1> DEFINE s == Append(<<x>>, y)
             u == <<x, y>>
             S == {x, y}
  <1>1. s \in Seq(S) /\ Len(s) = 2 /\ s[1] = x /\ s[2] = y
    OBVIOUS
  <1>2. u \in Seq(S) /\ Len(u) = 2 /\ u[1] = x /\ u[2] = y
    OBVIOUS
  <1> HIDE DEF s, u, S
  <1>3. \A i \in 1 .. 2 : s[i] = u[i]
    BY <1>1, <1>2
  <1> QED BY <1>1, <1>2, <1>3, SeqEqual DEF s, u

LEMMA Lists ==
    ASSUME NEW t, NEW o
    PROVE  InList(t, o) \in HelperPods(t) /\ AllList(t, o) \in HelperPods(t)
  <1>1. Append(<<>>, CopyOutPod(t)) = <<CopyOutPod(t)>>
    OBVIOUS
  <1> QED BY <1>1, TwoPods DEF InList, AllList, When, HelperPods

-----------------------------------------------------------------------------
(* The test itself: wherever it fails, what Prepare has made is there.       *)

AtCreate(t, o) ==
    Between(Prepared(t, o), Prepared(t, o), PoolCreators(o, o.mgsPool.count), InList(t, o))

\* The pods on the list have been made, and the workflow may be there, and the file
\* system that its directive makes.
Midway(t, o, outs, list) ==
    LET all == Prepared(t, o) \cup outs IN
    Between(all, all \cup {Workflow(t), OwnFileSystem(o)},
            PoolCreators(o, o.mgsPool.count) \cup {Workflow(t)}, list)

Mid(t, o) == Midway(t, o, {}, InList(t, o)) \cup Midway(t, o, OutPods(t, o), AllList(t, o))

AtExecute(t, o) ==
    LET all == Prepared(t, o) \cup {Workflow(t)} IN
    Between(all, all, PoolCreators(o, o.mgsPool.count), InList(t, o))

AtTeardown(t, o) ==
    LET all == Prepared(t, o) \cup OutPods(t, o) \cup Own(o) \cup {Workflow(t)} IN
    Between(all, all, PoolCreators(o, o.mgsPool.count), AllList(t, o))

\* The workflow has been deleted, if the test gets that far.
AtCleanup(t, o) ==
    LET all == Prepared(t, o) \cup OutPods(t, o) \cup Own(o) IN
    Between(all, all \cup Only(~o.teardown, {Workflow(t)}),
            PoolCreators(o, o.mgsPool.count) \cup {Workflow(t)}, AllList(t, o))

Whole(t, o) == Surroundings(t, o) \cup {Workflow(t)}

LEMMA CreateLeads ==
    ASSUME NEW t, NEW o, Distinct(o)
    PROVE  Leads(Rules(t, o, {Workflow(t)}, {}, Mid(t, o)), AtCreate(t, o), Create(Workflow(t)),
                 AtExecute(t, o))
  <1> DEFINE c  == Rules(t, o, {Workflow(t)}, {}, Mid(t, o))
             w  == Workflow(t)
             h  == Prepared(t, o)
             h1 == h \cup {w}
             g  == PoolCreators(o, o.mgsPool.count)
             p  == InList(t, o)
  <1>1. c.within = Mid(t, o) /\ c.objects = {w} /\ c.bonds = MakingNeeds(t, o)
    BY DEF Rules
  <1> HIDE DEF c
  <1>2. w \notin h \cup g /\ \A q \in c.bonds : q[1] = w => q[2] \in h
    BY <1>1, LaterApart, MakingNeedsOf
  <1>3. Midway(t, o, {}, p) \subseteq c.within
    BY <1>1 DEF Mid
  <1>4. /\ Midway(t, o, {}, p) = Between(h, h1 \cup {OwnFileSystem(o)}, g \cup {w}, p)
    <2>1. /\ h \cup {} = h
          /\ h \cup {Workflow(t), OwnFileSystem(o)} = h \cup {Workflow(t)} \cup {OwnFileSystem(o)}
      OBVIOUS
    <2> QED BY <2>1 DEF Midway
  <1> HIDE DEF h, g, p, w
  <1>5. Between(h, h, g, p) \subseteq c.within /\ Between(h1, h1, g, p) \subseteq c.within
    <2>1. Between(h, h, g, p) \subseteq Between(h, h1 \cup {OwnFileSystem(o)}, g \cup {w}, p)
      BY BetweenWider
    <2>2. Between(h1, h1, g, p) \subseteq Between(h, h1 \cup {OwnFileSystem(o)}, g \cup {w}, p)
      BY BetweenWider
    <2> QED BY <1>3, <1>4, <2>1, <2>2
  <1>6. Leads(c, Between(h, h, g, p), Create(w), Between(h \cup {w}, h \cup {w}, g, p))
    BY <1>1, <1>2, <1>5, LeadsMake DEF Within, Create
  <1> QED BY <1>6 DEF AtCreate, AtExecute, c, h, g, p, w

LEMMA ExecuteLeads ==
    ASSUME NEW t, NEW o, WellFormed(o), Distinct(o)
    PROVE  Leads(Rules(t, o, Whole(t, o), {}, Mid(t, o)), AtExecute(t, o), Execute(t, o),
                 AtTeardown(t, o))
  <1> DEFINE c   == Rules(t, o, Whole(t, o), {}, Mid(t, o))
             w   == Workflow(t)
             pi  == OwnFileSystem(o)
             pod == CopyOutPod(t)
             h   == Prepared(t, o)
             h1  == h \cup {w}
             h2  == h1 \cup Own(o)
             h3  == h2 \cup OutPods(t, o)
             g   == PoolCreators(o, o.mgsPool.count)
             p   == InList(t, o)
             p3  == AllList(t, o)
  <1>1. /\ c.within = Mid(t, o) /\ c.objects = Whole(t, o) /\ c.bonds = MakingNeeds(t, o)
        /\ c.pods = HelperPods(t) /\ w \in c.objects
        /\ o.createPersistent # NoName => pi \in c.objects
        /\ o.copyOut => pod \in c.objects
    BY DEF Rules, Whole, Surroundings, Own, OutPods, Only
  <1> HIDE DEF c
  <1>2. \A q \in c.bonds : /\ q[1] = pi /\ o.createPersistent # NoName => q[2] = w
                           /\ q[1] = pod => q[2] = GlobalLustre(o)
    BY <1>1, MakingNeedsOf, OwnApart
  <1>3. Own(o) \subseteq {pi} /\ (o.createPersistent # NoName => Own(o) = {pi})
        /\ (o.createPersistent = NoName => Own(o) = {})
    BY DEF Own, Only
  <1>4. (o.copyOut => OutPods(t, o) = {pod}) /\ (~o.copyOut => OutPods(t, o) = {})
    BY DEF OutPods, Only
  <1>5. o.copyOut => GlobalLustre(o) \in h
    BY DEF WellFormed, Prepared, Global, Only
  <1>6. /\ o.copyOut => p3 = Append(p, pod) /\ p3 \in c.pods
        /\ ~o.copyOut => p3 = p
    BY <1>1, Lists DEF AllList
  <1>7. Within(c, Between(h1, h1, g, p)) /\ Within(c, Between(h2, h2, g, p))
    <2>1. Between(h, h \cup {w, pi}, g \cup {w}, p) \subseteq c.within
      <3>1. h \cup {} = h
        OBVIOUS
      <3> QED BY <1>1, <3>1 DEF Mid, Midway
    <2> HIDE DEF h, g, p, w, pi
    <2>2. Between(h1, h1, g, p) \subseteq Between(h, h \cup {w, pi}, g \cup {w}, p)
      BY BetweenWider
    <2>3. Between(h2, h2, g, p) \subseteq Between(h, h \cup {w, pi}, g \cup {w}, p)
      BY <1>3, BetweenWider
    <2> QED BY <2>1, <2>2, <2>3 DEF Within
  <1>8. Within(c, Between(h3, h3, g, p3))
    <2> DEFINE a == h \cup OutPods(t, o)
    <2>1. Between(a, a \cup {w, pi}, g \cup {w}, p3) \subseteq c.within
      BY <1>1 DEF Mid, Midway
    <2> HIDE DEF h, g, p3, w, pi
    <2>2. Between(h3, h3, g, p3) \subseteq Between(a, a \cup {w, pi}, g \cup {w}, p3)
      BY <1>3, BetweenWider
    <2> QED BY <2>1, <2>2 DEF Within
  <1>9. AtTeardown(t, o) = Between(h3, h3, g, p3) /\ AtExecute(t, o) = Between(h1, h1, g, p)
    <2>1. h \cup OutPods(t, o) \cup Own(o) \cup {w} = h3
      OBVIOUS
    <2> QED BY <2>1 DEF AtTeardown, AtExecute
  <1>15. pi \notin h1 \cup g /\ pod \notin h2 \cup g /\ w \in h1 /\ w \in h3
    <2>1. pi \notin h \cup g /\ pod \notin h \cup g
      BY LaterApart
    <2>2. pi # w /\ pod # w /\ pod # pi
      BY Kinds
    <2> HIDE DEF h, g, w, pi, pod
    <2> QED BY <1>3, <2>1, <2>2
  <1> HIDE DEF h, g, p, p3, w, pi, pod
  <1>10. Leads(c, Between(h1, h1, g, p),
               IF o.createPersistent # NoName THEN Provision(pi) ELSE Run(w), Between(h2, h2, g, p))
    <2>1. CASE o.createPersistent # NoName
      <3>1. h2 = h1 \cup {pi} /\ w \in h1
        BY <1>3, <2>1
      <3> HIDE DEF h1, h2
      <3>2. Leads(c, Between(h1, h1, g, p), Provision(pi), Between(h1 \cup {pi}, h1 \cup {pi}, g, p))
        BY <1>1, <1>2, <1>7, <1>15, <2>1, <3>1, LeadsMake DEF Provision
      <3> QED BY <2>1, <3>1, <3>2
    <2>2. CASE o.createPersistent = NoName
      <3>1. h2 = h1
        BY <1>3, <2>2
      <3> HIDE DEF h1, h2
      <3>2. Leads(c, Between(h1, h1, g, p), Run(w), Between(h1, h1, g, p))
        BY <1>1, <1>7, <1>15, LeadsWait DEF Run
      <3> QED BY <2>2, <3>1, <3>2
    <2> QED BY <2>1, <2>2
  <1>11. Leads(c, Between(h2, h2, g, p), When(o.copyOut, HelperPod(pod)), Between(h3, h3, g, p3))
    <2>1. ASSUME o.copyOut
          PROVE  Leads(c, Between(h2, h2, g, p), HelperPod(pod), Between(h3, h3, g, p3))
      <3>1. h3 = h2 \cup {pod} /\ p3 = Append(p, pod) /\ p3 \in c.pods
        BY <1>4, <1>6, <2>1
      <3>2. \A q \in c.bonds : q[1] = pod => q[2] \in h2
        BY <1>2, <1>5, <2>1
      <3> HIDE DEF h2, h3
      <3>3. Leads(c, Between(h2, h2, g, p), HelperPod(pod),
                  Between(h2 \cup {pod}, h2 \cup {pod}, g, Append(p, pod)))
        BY <1>1, <1>7, <1>8, <1>15, <2>1, <3>1, <3>2, LeadsPod
      <3> QED BY <3>1, <3>3
    <2>2. ~o.copyOut => Between(h2, h2, g, p) \subseteq Between(h3, h3, g, p3)
      <3>1. ~o.copyOut => h3 = h2
        BY <1>4
      <3> HIDE DEF h2, h3
      <3> QED BY <1>6, <3>1
    <2> HIDE DEF h2, h3
    <2> QED BY <1>7, <2>1, <2>2, LeadsWhen
  <1>12. Leads(c, Between(h3, h3, g, p3), Run(w), Between(h3, h3, g, p3))
    BY <1>1, <1>8, <1>15, LeadsWait DEF Run
  <1> DEFINE S1 == Between(h1, h1, g, p)
             S2 == Between(h2, h2, g, p)
             S3 == Between(h3, h3, g, p3)
  <1> HIDE DEF S1, S2, S3
  <1>13. Leads(c, S1, (IF o.createPersistent # NoName THEN Provision(pi) ELSE Run(w))
                      \o When(o.copyOut, HelperPod(pod)), S3)
    BY <1>10, <1>11, LeadsJoin DEF S1, S2, S3
  <1>14. Leads(c, S1, (IF o.createPersistent # NoName THEN Provision(pi) ELSE Run(w))
                      \o When(o.copyOut, HelperPod(pod)) \o Run(w), S3)
    BY <1>12, <1>13, LeadsJoin DEF S3
  <1> QED BY <1>9, <1>14 DEF Execute, S1, S3, c, w, pi, pod

LEMMA TeardownLeads ==
    ASSUME NEW t, NEW o
    PROVE  Leads(Rules(t, o, {Workflow(t)}, {}, Mid(t, o)), AtTeardown(t, o), Teardown(t, o),
                 AtCleanup(t, o))
  <1> DEFINE c  == Rules(t, o, {Workflow(t)}, {}, Mid(t, o))
             w  == Workflow(t)
             h  == Prepared(t, o) \cup OutPods(t, o)
             a  == h \cup Own(o)
             a1 == a \cup {w}
             g  == PoolCreators(o, o.mgsPool.count)
             p  == AllList(t, o)
             S1 == Between(a1, a1, g, p)
             S2 == Between(a1 \ {w}, a1 \ {w}, g \cup {w}, p)
             T  == AtCleanup(t, o)
  <1>1. /\ c.within = Mid(t, o) /\ c.objects = {w} /\ c.lives = LivingNeeds(t, o)
    BY DEF Rules
  <1> HIDE DEF c
  <1>2. \A q \in c.lives : q[2] # w
    BY <1>1, LivingNeedsOf
  <1>3. w \notin a
    <2>1. w[1] = "workflow"
      BY Kinds
    <2>2. w \notin Lustre(o)
      <3>1. w # Creator(FileSystem(o)) /\ w # FileSystem(o)
        BY Kinds
      <3> QED BY <3>1, Members
    <2>3. w \notin Profiles(o) /\ w \notin ContainerProfiles(o) /\ w \notin Global(o)
      BY <2>1, Members
    <2>4. w \notin Pool(o, o.mgsPool.count)
      BY <2>1, Kinds DEF Pool
    <2>5. w \notin InPods(t, o) /\ w \notin OutPods(t, o) /\ w \notin Own(o)
      BY <2>1, Members
    <2> QED BY <2>2, <2>3, <2>4, <2>5 DEF Prepared
  <1>4. Own(o) \subseteq {OwnFileSystem(o)}
    BY DEF Own, Only
  <1>5. Between(h, h \cup {w, OwnFileSystem(o)}, g \cup {w}, p) \subseteq c.within
    BY <1>1 DEF Mid, Midway
  <1>6. T = Between(a, a \cup Only(~o.teardown, {w}), g \cup {w}, p)
    BY DEF AtCleanup
  <1>7. AtTeardown(t, o) = S1
    BY DEF AtTeardown
  <1> HIDE DEF h, g, p, w, T
  <1>8. Within(c, S1) /\ Within(c, S2)
    <2>1. S1 \subseteq Between(h, h \cup {w, OwnFileSystem(o)}, g \cup {w}, p)
      BY <1>4, BetweenWider
    <2>2. S2 \subseteq Between(h, h \cup {w, OwnFileSystem(o)}, g \cup {w}, p)
      BY <1>3, <1>4, BetweenWider
    <2> HIDE DEF S1, S2
    <2> QED BY <1>5, <2>1, <2>2 DEF Within
  <1>9. S2 \subseteq Between(a, a, g \cup {w}, p)
    BY <1>3, BetweenWider
  <1>10. Between(a, a, g \cup {w}, p) \subseteq T
    BY <1>6, BetweenWider
  <1>11. S2 \subseteq T
    BY <1>9, <1>10
  <1>12. ~o.teardown => S1 \subseteq T
    <2>1. ~o.teardown => a1 = a \cup Only(~o.teardown, {w})
      BY DEF Only
    <2>2. S1 \subseteq Between(a, a1, g \cup {w}, p)
      BY BetweenWider
    <2> HIDE DEF a, a1, S1
    <2> QED BY <1>6, <2>1, <2>2
  <1>13. Leads(c, S1, Run(w), S1)
    <2>1. w \in a1
      OBVIOUS
    <2> HIDE DEF a1
    <2> QED BY <1>1, <1>8, <2>1, LeadsWait DEF Run
  <1>14. Leads(c, S1, Delete(w), S2)
    <2>1. w \in a1
      OBVIOUS
    <2> HIDE DEF a1
    <2> QED BY <1>1, <1>2, <1>8, <2>1, LeadsTake DEF Delete
  <1> HIDE DEF S1, S2
  <1>15. Leads(c, S1, Run(w) \o Delete(w), S2)
    BY <1>13, <1>14, LeadsJoin
  <1>16. Leads(c, S1, Run(w) \o Delete(w), T)
    <2>1. S1 \subseteq S1
      OBVIOUS
    <2> QED BY <1>11, <1>15, <2>1, LeadsWeaken
  <1>17. Leads(c, S1, When(o.teardown, Run(w) \o Delete(w)), T)
    BY <1>8, <1>12, <1>16, LeadsWhen
  <1> QED BY <1>7, <1>17 DEF Teardown, c, w, T

-----------------------------------------------------------------------------
(* Cleanup. *)

\* f is to delete what is on the list ps.
Deletes(f, ps) ==
    /\ Len(f) = Len(ps) /\ (Len(ps) = 0 => f = <<>>)
    /\ \A k \in 1 .. Len(ps) : f[k] = DeleteAndWait(ps[k])

\* all are on the list, each once, and nothing lives on them.
Listed(all, ps, c, others) ==
    /\ ps \in Seq(c.objects)
    /\ \A x : x \in all <=> \E k \in 1 .. Len(ps) : x = ps[k]
    /\ \A j, k \in 1 .. Len(ps) : ps[j] = ps[k] => j = k
    /\ \A x \in all : x \notin others /\ \A q \in c.lives : q[2] # x

LEMMA LeadsDropAll ==
    ASSUME NEW c, NEW l, NEW m, NEW g, NEW p, NEW ps, NEW f, NEW all, c.within = {},
           Deletes(f, ps), Listed(all, ps, c, m \cup g), l \subseteq m
    PROVE  Leads(c, Between(l \cup all, m \cup all, g, p), FlattenSeq(f), Between(l, m, g, p))
  <1> DEFINE n == Len(ps)
             Rest(k) == {ps[j] : j \in k + 1 .. n}
             S(k) == Between(l \cup Rest(k), m \cup Rest(k), g, p)
             P == [k \in 0 .. n |-> S(k)]
  <1>1. /\ n \in Nat /\ Len(f) = n /\ (n = 0 => f = <<>>)
        /\ \A k \in 1 .. n : f[k] = DeleteAndWait(ps[k]) /\ ps[k] \in c.objects
        /\ \A k \in 0 .. n : P[k] = S(k)
    BY DEF Deletes, Listed
  <1>0. /\ \A k \in 1 .. n : ps[k] \notin m \cup g /\ \A q \in c.lives : q[2] # ps[k]
        /\ \A j, k \in 1 .. n : ps[j] = ps[k] => j = k
        /\ \A x : x \in all <=> \E k \in 1 .. n : x = ps[k]
    BY DEF Listed
  <1> HIDE DEF P
  <1>2. ASSUME NEW k \in 1 .. n PROVE Leads(c, P[k - 1], f[k], P[k])
    <2> DEFINE x  == ps[k]
               r  == Rest(k - 1)
               l1 == l \cup r
               m1 == m \cup r
    <2>1. x \in c.objects /\ x \in r /\ \A q \in c.lives : q[2] # x
      BY <1>0, <1>1
    <2>2. r \ {x} = Rest(k) /\ x \notin m /\ x \notin l /\ x \notin g
      <3>1. \A j \in k + 1 .. n : j \in 1 .. n /\ j # k
        BY <1>1
      <3>2. \A j \in (k - 1) + 1 .. n : j = k \/ j \in k + 1 .. n
        BY <1>1
      <3> QED BY <1>0, <1>1, <3>1, <3>2
    <2>3. P[k - 1] = Between(l1, m1, g, p) /\ P[k] = S(k) /\ f[k] = DeleteAndWait(x)
      BY <1>1
    <2> HIDE DEF x, r, Rest
    <2>4. l1 \ {x} = l \cup Rest(k) /\ m1 \ {x} = m \cup Rest(k) /\ g \ {x} = g
      BY <2>2
    <2>5. x \in l1
      BY <2>1
    <2> HIDE DEF l1, m1
    <2>6. Leads(c, Between(l1, m1, g, p), DeleteAndWait(x), Between(l1 \ {x}, m1 \ {x}, g \ {x}, p))
      BY <2>1, <2>5, LeadsDeleteAndWait
    <2> QED BY <2>3, <2>4, <2>6
  <1>3. P[0] = Between(l \cup all, m \cup all, g, p)
    <2>1. Rest(0) = all
      BY <1>0
    <2> HIDE DEF Rest
    <2> QED BY <1>1, <2>1
  <1>4. P[n] = Between(l, m, g, p)
    <2>1. Rest(n) = {} /\ l \cup {} = l /\ m \cup {} = m
      BY <1>1
    <2> HIDE DEF Rest
    <2> QED BY <1>1, <2>1
  <1> HIDE DEF n
  <1>5. Leads(c, P[0], FlattenSeq(f), P[n])
    BY <1>1, <1>2, LeadsFlatten DEF Within
  <1> QED BY <1>3, <1>4, <1>5 DEF n

\* A persistent file system goes, with both of its workflows.
LEMMA LeadsLustreCleanup ==
    ASSUME NEW c, NEW l, NEW m, NEW g, NEW p, NEW fs, c.within = {}, l \subseteq m,
           LET mk == Creator(fs)
               rm == Destroyer(fs)
           IN  /\ {fs, mk, rm} \subseteq c.objects
               /\ fs \notin m \cup g /\ mk \notin m \cup g /\ rm \notin m \cup g
               /\ fs # mk /\ fs # rm /\ mk # rm
               /\ \A q \in c.bonds : q[1] # rm
               /\ \A q \in c.lives : /\ q[2] # rm
                                     /\ q[2] = fs => q[1] \notin m \cup g \cup {mk, rm, fs}
                                     /\ q[2] = mk => q[1] \notin m \cup g \cup {mk, rm}
    PROVE  LET made == {Creator(fs), fs} IN
           Leads(c, Between(l \cup made, m \cup made, g, p), LustreCleanup(fs), Between(l, m, g, p))
  <1> DEFINE mk == Creator(fs)
             rm == Destroyer(fs)
             l0 == l \cup {mk, fs}
             m0 == m \cup {mk, fs}
             l1 == l0 \cup {rm}
             m1 == m0 \cup {rm}
             l2 == l1 \ {fs}
             m2 == m1 \ {fs}
             g2 == g \cup {fs}
             l3 == l2 \ {mk}
             m3 == m2 \ {mk}
             S0 == Between(l0, m0, g, p)
             S1 == Between(l1, m1, g, p)
             S2 == Between(l2, m2, g2, p)
             S3 == Between(l2, m2, g, p)
             S4 == Between(l3, m3, g, p)
             S5 == Between(l, m, g, p)
  <1>1. /\ fs \in c.objects /\ mk \in c.objects /\ rm \in c.objects
        /\ fs \notin m \cup g /\ mk \notin m \cup g /\ rm \notin m \cup g
        /\ fs # mk /\ fs # rm /\ mk # rm
        /\ \A q \in c.bonds : q[1] # rm
        /\ \A q \in c.lives : /\ q[2] # rm
                              /\ q[2] = fs => q[1] \notin m \cup g \cup {mk, rm, fs}
                              /\ q[2] = mk => q[1] \notin m \cup g \cup {mk, rm}
    OBVIOUS
  <1>2. LustreCleanup(fs) =
          Create(rm) \o Destroy(fs) \o Gone(fs) \o DeleteAndWait(mk) \o DeleteAndWait(rm)
    BY DEF LustreCleanup
  <1> HIDE DEF mk, rm
  <1>3. /\ fs \in l1 /\ mk \in l2 /\ rm \in l3 /\ g2 \ {fs} = g /\ g \ {mk} = g /\ g \ {rm} = g
        /\ l3 \ {rm} = l /\ m3 \ {rm} = m /\ rm \notin m0 \cup g /\ fs \notin m2
    BY <1>1
  <1>4. \A q \in c.lives : /\ q[2] = fs => q[1] \notin m1 \cup g
                           /\ q[2] = mk => q[1] \notin m2 \cup g
                           /\ q[2] # rm
    BY <1>1
  <1> HIDE DEF l0, m0
  <1>5. Leads(c, S0, Create(rm), S1)
    BY <1>1, <1>3, LeadsMake DEF Within, Create
  <1> HIDE DEF l1, m1
  <1>6. Leads(c, S1, Destroy(fs), S2)
    BY <1>1, <1>3, <1>4, LeadsTake DEF Within, Destroy
  <1> HIDE DEF l2, m2, g2
  <1>7. Leads(c, S2, Gone(fs), S3)
    <2>1. Leads(c, Between(l2, m2, g2, p), Gone(fs), Between(l2, m2, g2 \ {fs}, p))
      BY <1>1, <1>3, LeadsGone DEF Within
    <2> QED BY <1>3, <2>1
  <1>8. Leads(c, S3, DeleteAndWait(mk), S4)
    <2>1. Leads(c, Between(l2, m2, g, p), DeleteAndWait(mk),
                Between(l2 \ {mk}, m2 \ {mk}, g \ {mk}, p))
      BY <1>1, <1>3, <1>4, LeadsDeleteAndWait
    <2> QED BY <1>3, <2>1
  <1> HIDE DEF l3, m3
  <1>9. Leads(c, S4, DeleteAndWait(rm), S5)
    <2>1. Leads(c, Between(l3, m3, g, p), DeleteAndWait(rm),
                Between(l3 \ {rm}, m3 \ {rm}, g \ {rm}, p))
      BY <1>1, <1>3, <1>4, LeadsDeleteAndWait
    <2> QED BY <1>3, <2>1
  <1> HIDE DEF S0, S1, S2, S3, S4, S5
  <1>10. Leads(c, S0, Create(rm) \o Destroy(fs), S2)
    BY <1>5, <1>6, LeadsJoin
  <1>11. Leads(c, S0, Create(rm) \o Destroy(fs) \o Gone(fs), S3)
    BY <1>7, <1>10, LeadsJoin
  <1>12. Leads(c, S0, Create(rm) \o Destroy(fs) \o Gone(fs) \o DeleteAndWait(mk), S4)
    BY <1>8, <1>11, LeadsJoin
  <1>13. Leads(c, S0, LustreCleanup(fs), S5)
    BY <1>2, <1>9, <1>12, LeadsJoin
  <1> QED BY <1>13 DEF S0, S5, l0, m0, mk

\* outs are the copy-out pods on the list.
PodList(t, o, outs, list) ==
    \/ outs = {} /\ list = InList(t, o)
    \/ outs = OutPods(t, o) /\ list = AllList(t, o)

LEMMA ListMembers ==
    ASSUME NEW t, NEW o, NEW outs, NEW list, PodList(t, o, outs, list)
    PROVE  /\ list \in HelperPods(t) /\ list \in Seq({CopyInPod(t), CopyOutPod(t)})
           /\ {list[k] : k \in 1 .. Len(list)} = InPods(t, o) \cup outs
           /\ \A j, k \in 1 .. Len(list) : list[j] = list[k] => j = k
  <1> DEFINE a == CopyInPod(t)
             b == CopyOutPod(t)
  <1>1. a # b
    BY Kinds
  <1>2. \/ list = <<>> /\ InPods(t, o) \cup outs = {}
        \/ list = <<a>> /\ InPods(t, o) \cup outs = {a}
        \/ list = <<b>> /\ InPods(t, o) \cup outs = {b}
        \/ list = <<a, b>> /\ InPods(t, o) \cup outs = {a, b}
    <2>1. /\ o.copyIn => InList(t, o) = <<a>> /\ InPods(t, o) = {a}
          /\ ~o.copyIn => InList(t, o) = <<>> /\ InPods(t, o) = {}
      BY DEF InList, When, InPods, Only
    <2>2. /\ o.copyOut => AllList(t, o) = Append(InList(t, o), b) /\ OutPods(t, o) = {b}
          /\ ~o.copyOut => AllList(t, o) = InList(t, o) /\ OutPods(t, o) = {}
      BY DEF AllList, OutPods, Only
    <2>3. Append(<<>>, b) = <<b>> /\ Append(<<a>>, b) = <<a, b>>
      BY TwoPods
    <2> HIDE DEF a, b
    <2> QED BY <2>1, <2>2, <2>3 DEF PodList
  <1>3. list \in HelperPods(t)
    BY <1>2 DEF HelperPods
  <1> DEFINE S == Seq({a, b})
             G == /\ list \in S
                  /\ {list[k] : k \in 1 .. Len(list)} = InPods(t, o) \cup outs
                  /\ \A j, k \in 1 .. Len(list) : list[j] = list[k] => j = k
  <1> HIDE DEF a, b
  <1>4. ASSUME list = <<>>, InPods(t, o) \cup outs = {} PROVE G
    BY <1>4
  <1>5. ASSUME list = <<a>>, InPods(t, o) \cup outs = {a} PROVE G
    BY <1>5
  <1>6. ASSUME list = <<b>>, InPods(t, o) \cup outs = {b} PROVE G
    BY <1>6
  <1>7. ASSUME list = <<a, b>>, InPods(t, o) \cup outs = {a, b} PROVE G
    <2>1. Len(list) = 2 /\ list[1] = a /\ list[2] = b /\ list \in S
      BY <1>7
    <2>2. 1 .. 2 = {1, 2}
      OBVIOUS
    <2>3. {list[k] : k \in {1, 2}} = {a, b}
      BY <2>1
    <2>4. \A j, k \in {1, 2} : list[j] = list[k] => j = k
      BY <1>1, <2>1
    <2> QED BY <1>7, <2>1, <2>2, <2>3, <2>4
  <1> HIDE DEF G
  <1>8. G
    BY <1>2, <1>4, <1>5, <1>6, <1>7
  <1> QED BY <1>3, <1>8 DEF G, a, b

\* What Cleanup may leave: the workflow, a file system that it is not to destroy,
\* and what it does not wait for.
Clean(t, o, list) ==
    Between({}, {Workflow(t)} \cup Only(~o.cleanupPersistent, {OwnFileSystem(o)}),
            PoolCreators(o, o.mgsPool.count) \cup {Workflow(t)}
            \cup Pool(o, o.mgsPool.count) \cup {OwnFileSystem(o)}, list)

\* It starts no pods.
CleanupRules(t, o, free) ==
    [Rules(t, o, Surroundings(t, o), free, {}) EXCEPT !.pods = {}]

LEMMA CleanupLeads ==
    ASSUME NEW t, NEW o, WellFormed(o), Distinct(o), NEW own \in SUBSET {OwnFileSystem(o)}, NEW free,
           o.cleanupPersistent => OwnFileSystem(o) \in own \cup free,
           NEW outs, NEW list, PodList(t, o, outs, list)
    PROVE  LET all == Prepared(t, o) \cup outs IN
           Leads(CleanupRules(t, o, free),
                 Between(all \cup own, all \cup {Workflow(t), OwnFileSystem(o)},
                         PoolCreators(o, o.mgsPool.count) \cup {Workflow(t)}, list),
                 Cleanup(t, o, list), Clean(t, o, list))
  <1> DEFINE c   == CleanupRules(t, o, free)
             w   == Workflow(t)
             pi  == OwnFileSystem(o)
             fs  == FileSystem(o)
             gl  == GlobalLustre(o)
             m   == o.mgsPool.count
             K   == {w, pi}
             N   == {w} \cup Only(~o.cleanupPersistent, {pi})
             g0  == PoolCreators(o, m) \cup {w}
             g1  == g0 \cup Pool(o, m)
             g2  == g1 \cup {pi}
             B5  == Profiles(o) \cup ContainerProfiles(o)
             B3  == B5 \cup Lustre(o)
             B2  == B3 \cup Pool(o, m)
             B1  == B2 \cup Global(o)
             B0  == Prepared(t, o) \cup outs
             S0  == Between(B0 \cup own, B0 \cup K, g0, list)
             S1  == Between(B1 \cup own, B1 \cup K, g0, list)
             S2  == Between(B2 \cup own, B2 \cup K, g0, list)
             S3  == Between(B3 \cup own, B3 \cup K, g1, list)
             S4  == Between(B3, B3 \cup N, g2, list)
             S5  == Between(B5, B5 \cup N, g2, list)
             S6  == Between(ContainerProfiles(o), ContainerProfiles(o) \cup N, g2, list)
             S7  == Between({}, N, g2, list)
             pd  == [k \in 1 .. Len(list) |-> DeleteAndWait(list[k])]
             mg  == [k \in 1 .. m |-> MgsCleanup(o, k)]
  <1>1. /\ c.within = {} /\ c.free = free /\ c.objects = Surroundings(t, o)
        /\ c.bonds = MakingNeeds(t, o) /\ c.lives = LivingNeeds(t, o) /\ (c.sure => free = {})
    BY DEF Rules, CleanupRules
  <1>2. m \in Nat
    BY DEF WellFormed
  <1> HIDE DEF c
  <1>3. \A x \in K : x[1] \in {"workflow", "persistent lustre"}
    BY Kinds
  <1>4. N \subseteq K
    BY DEF Only
  <1>5. \A x \in B5 : x[1] \in {"storage profile", "container profile"}
    BY Members
  <1>6. \A x \in Lustre(o) : x[1] \in {"create workflow", "persistent lustre"}
    <2>1. Creator(fs)[1] = "create workflow" /\ fs[1] = "persistent lustre"
      BY Kinds
    <2>2. \A x \in Lustre(o) : x \in {Creator(fs), fs}
      BY Members
    <2> HIDE DEF fs
    <2> QED BY <2>1, <2>2
  <1>7. \A x \in g1 : x[1] \in {"create workflow", "workflow", "MGS"} /\ x # Creator(fs)
    <2>1. \A x \in PoolCreators(o, m) : x[1] = "create workflow" /\ x # Creator(fs)
      BY Kinds, Apart DEF PoolCreators
    <2>2. \A x \in Pool(o, m) : x[1] = "MGS"
      BY Kinds DEF Pool
    <2>3. \A x \in Pool(o, m) : x # Creator(fs)
      BY <2>2, Kinds
    <2>4. w[1] = "workflow" /\ w # Creator(fs)
      BY Kinds
    <2> QED BY <2>1, <2>2, <2>3, <2>4
  <1>8. \A x \in g2 : x[1] \in {"create workflow", "workflow", "MGS", "persistent lustre"} /\ x # Creator(fs)
    <2>1. pi[1] = "persistent lustre" /\ pi # Creator(fs)
      BY Kinds
    <2> QED BY <1>7, <2>1
  <1>9. o.createPersistent # NoName \/ o.persistentLustre # NoName => pi # fs
    BY OwnApart
  <1>21. o.persistentLustre # NoName => fs \notin g2 /\ fs \notin K
    <2>1. fs[1] = "persistent lustre" /\ w[1] = "workflow"
      BY Kinds
    <2>2. fs \notin g1 /\ fs # w
      BY <1>7, <2>1
    <2> QED BY <1>9, <2>2
  <1>22. pi \notin Lustre(o)
    <2>1. pi # Creator(fs)
      BY Kinds
    <2> QED BY <1>9, <2>1 DEF Lustre, Only
  <1> HIDE DEF w, pi, fs, gl, K, N, g0, m
  <1>10. Leads(c, S0, FlattenSeq(pd), S1)
    <2> DEFINE all == {list[k] : k \in 1 .. Len(list)}
               l == B1 \cup own
               n == B1 \cup K
    <2>1. /\ list \in HelperPods(t) /\ list \in Seq({CopyInPod(t), CopyOutPod(t)})
          /\ all = InPods(t, o) \cup outs
          /\ \A j, k \in 1 .. Len(list) : list[j] = list[k] => j = k
      BY ListMembers
    <2>2. \A x \in all : x \in {CopyInPod(t), CopyOutPod(t)} /\ x \in c.objects
      BY <1>1, <2>1 DEF PodList, Surroundings, Prepared, InPods, OutPods, Only
    <2>3. \A x \in all : x[1] \in {"copy-in pod", "copy-out pod"}
      BY <2>2, Kinds
    <2>4. \A x \in Global(o) : x[1] = "global lustre"
      BY Members
    <2>5. \A x \in Pool(o, m) : x[1] = "MGS"
      BY Kinds DEF Pool
    <2>6. \A x \in g0 : x[1] \in {"create workflow", "workflow", "MGS"}
      BY <1>7
    <2>7. \A x \in all : x \notin n /\ x \notin g0
      BY <1>3, <1>5, <1>6, <2>3, <2>4, <2>5, <2>6
    <2>8. \A x \in all : \A q \in c.lives : q[2] # x
      BY <1>1, <2>2, LivingNeedsOf
    <2>9. l \cup all = B0 \cup own /\ n \cup all = B0 \cup K
      BY <2>1 DEF Prepared, m
    <2>10. list \in Seq(c.objects)
      <3>1. \A k \in 1 .. Len(list) : list[k] \in c.objects
        BY <2>2
      <3> QED BY <2>1, <3>1
    <2>11. l \subseteq n
      BY DEF K, pi
    <2>12. Listed(all, list, c, n \cup g0)
      BY <2>1, <2>7, <2>8, <2>10 DEF Listed
    <2>13. Deletes(pd, list)
      BY <2>10 DEF Deletes
    <2> HIDE DEF l, n, B0, pd, all
    <2>14. Leads(c, Between(l \cup all, n \cup all, g0, list), FlattenSeq(pd), Between(l, n, g0, list))
      BY <1>1, <2>11, <2>12, <2>13, LeadsDropAll
    <2> QED BY <2>9, <2>14 DEF l, n
  <1>11. Leads(c, S1, When(o.globalLustre # NoName, DeleteAndWait(gl)), S2)
    <2> DEFINE l == B2 \cup own
               n == B2 \cup K
               X == IF o.globalLustre # NoName THEN {gl} ELSE {}
    <2>1. Global(o) = X /\ (o.globalLustre # NoName => gl \in c.objects)
      BY <1>1 DEF Surroundings, Prepared, Global, Only, gl
    <2>2. gl[1] = "global lustre"
      BY Kinds DEF gl
    <2>3. \A x \in Pool(o, m) : x[1] = "MGS"
      BY Kinds DEF Pool
    <2>4. \A x \in n \cup g0 : x[1] \in {"storage profile", "container profile", "create workflow",
                                        "persistent lustre", "MGS", "workflow"}
      BY <1>3, <1>5, <1>6, <1>7, <2>3
    <2>5. \A q \in c.lives : q[2] = gl => q[1][1] \in {"copy-in pod", "copy-out pod"}
      <3>1. \A q \in c.lives : q[2] = gl => q[1] \in {CopyInPod(t), CopyOutPod(t)}
        BY <1>1, LivingNeedsOf DEF gl
      <3> QED BY <3>1, Kinds
    <2>6. gl \notin n \cup g0 /\ \A q \in c.lives : q[2] = gl => q[1] \notin n \cup g0 \cup {gl}
      BY <2>2, <2>4, <2>5
    <2>7. l \subseteq n /\ l \cup X = B1 \cup own /\ n \cup X = B1 \cup K
      BY <2>1 DEF K, pi
    <2> HIDE DEF l, n, B1
    <2>8. Leads(c, Between(l \cup X, n \cup X, g0, list), When(o.globalLustre # NoName, DeleteAndWait(gl)),
                Between(l, n, g0, list))
      BY <1>1, <2>1, <2>6, <2>7, LeadsDrop
    <2> HIDE DEF X
    <2> QED BY <2>7, <2>8 DEF l, n
  <1>12. Leads(c, S2, FlattenSeq(mg), S3)
    <2> DEFINE Rest(j) == {MgsFileSystem(o, k) : k \in j + 1 .. m}
               L(j) == B3 \cup own \cup Rest(j)
               M(j) == B3 \cup K \cup Rest(j)
               S(j) == Between(L(j), M(j), g0 \cup Pool(o, j), list)
               P == [j \in 0 .. m |-> S(j)]
    <2>1. /\ Len(mg) = m /\ (m = 0 => mg = <<>>) /\ \A k \in 1 .. m : mg[k] = MgsCleanup(o, k)
          /\ \A j \in 0 .. m : P[j] = S(j)
      BY <1>2
    <2>2. P[0] = S2
      <3>1. Rest(0) = Pool(o, m) /\ Pool(o, 0) = {}
        BY <1>2 DEF Pool
      <3>2. L(0) = B2 \cup own /\ M(0) = B2 \cup K /\ g0 \cup Pool(o, 0) = g0
        BY <3>1
      <3>3. P[0] = S(0)
        BY <1>2, <2>1
      <3> HIDE DEF L, M, P
      <3>4. S(0) = Between(B2 \cup own, B2 \cup K, g0, list)
        BY <3>2
      <3> QED BY <3>3, <3>4
    <2>3. P[m] = S3
      <3>1. Rest(m) = {}
        BY <1>2
      <3>2. L(m) = B3 \cup own /\ M(m) = B3 \cup K
        BY <3>1
      <3>3. P[m] = S(m)
        BY <1>2, <2>1
      <3> HIDE DEF L, M, P
      <3>4. S(m) = Between(B3 \cup own, B3 \cup K, g1, list)
        BY <3>2
      <3> QED BY <3>3, <3>4
    <2> HIDE DEF P, mg, S2, S3
    <2>4. ASSUME NEW k \in 1 .. m PROVE Leads(c, P[k - 1], mg[k], P[k])
      <3> DEFINE x == MgsFileSystem(o, k)
                 d == Destroyer(x)
                 l == L(k - 1)
                 n == M(k - 1)
                 g == g0 \cup Pool(o, k - 1)
      <3>1. x \in c.objects /\ d \in c.objects
        BY <1>1, <1>2 DEF Surroundings, Prepared, Pool, PoolDestroyers, m
      <3>2. x \in l /\ l \subseteq n
        BY <1>2 DEF K, pi
      <3>3. \A y \in Rest(k - 1) : y[1] = "MGS"
        BY Kinds
      <3>4. \A y \in Pool(o, k - 1) : y[1] = "MGS"
        BY Kinds DEF Pool
      <3>5. d[1] = "destroy workflow" /\ x[1] = "MGS"
        BY Kinds
      <3>6. d \notin n \cup g \cup {x}
        BY <1>3, <1>5, <1>6, <1>7, <3>3, <3>4, <3>5
      <3>7. \A q \in c.bonds : q[1] # d
        BY <1>1, MakingNeedsOf
      <3>8. \A q \in c.lives : q[2] # d /\ q[2] # x
        BY <1>1, LivingNeedsOf
      <3>9. x \notin B3 /\ x \notin K /\ x \notin own
        BY <1>3, <1>5, <1>6, <3>5 DEF K, pi
      <3>10. Rest(k - 1) \ {x} = Rest(k)
        <4>1. \A j \in 1 .. m : MgsFileSystem(o, j) = x => j = k
          BY PoolApart
        <4>2. \A j \in k + 1 .. m : j \in 1 .. m /\ j # k /\ j \in (k - 1) + 1 .. m
          BY <1>2
        <4>3. \A j \in (k - 1) + 1 .. m : j = k \/ j \in k + 1 .. m
          BY <1>2
        <4> QED BY <4>1, <4>2, <4>3
      <3>11. Pool(o, k - 1) \cup {x} = Pool(o, k)
        BY <1>2 DEF Pool
      <3>12. P[k - 1] = Between(l, n, g, list) /\ P[k] = S(k)
        BY <1>2, <2>1
      <3>13. mg[k] = Create(d) \o Destroy(x) \o DeleteAndWait(d)
        BY <2>1 DEF MgsCleanup
      <3> HIDE DEF x, d, Rest
      <3>14. l \ {x} = L(k) /\ n \ {x} = M(k) /\ g \cup {x} = g0 \cup Pool(o, k)
        BY <3>9, <3>10, <3>11
      <3> HIDE DEF l, n, g, L, M
      <3>15. Leads(c, Between(l, n, g, list), Create(d) \o Destroy(x) \o DeleteAndWait(d),
                   Between(l \ {x}, n \ {x}, g \cup {x}, list))
        BY <1>1, <3>1, <3>2, <3>6, <3>7, <3>8, LeadsDestroy
      <3> QED BY <3>12, <3>13, <3>14, <3>15
    <2>5. Leads(c, P[0], FlattenSeq(mg), P[m])
      BY <1>1, <1>2, <2>1, <2>4, LeadsFlatten DEF Within
    <2> QED BY <2>2, <2>3, <2>5
  <1> DEFINE rm == Destroyer(pi)
             D  == Create(rm) \o Destroy(pi) \o DeleteAndWait(rm)
  <1>13. Leads(c, S3, When(o.cleanupPersistent, D), S4)
    <2> DEFINE l == B3 \cup own
               n == B3 \cup K
    <2>1. pi[1] = "persistent lustre" /\ rm[1] = "destroy workflow"
      BY Kinds DEF pi
    <2>2. pi \notin B3 /\ own \subseteq {pi}
      BY <1>5, <1>22, <2>1 DEF pi
    <2>3. ASSUME o.cleanupPersistent PROVE Leads(c, S3, D, S4)
      <3>1. o.createPersistent # NoName
        BY <2>3 DEF WellFormed
      <3>2. pi \in c.objects /\ rm \in c.objects
        BY <1>1, <3>1 DEF Surroundings, Own, Only, pi
      <3>3. pi \in l \cup c.free /\ (c.sure => pi \in l) /\ l \subseteq n
        BY <1>1, <2>2, <2>3 DEF K, pi
      <3>4. rm \notin n \cup g1 \cup {pi}
        BY <1>3, <1>5, <1>6, <1>7, <2>1
      <3>5. \A q \in c.bonds : q[1] # rm
        BY <1>1, MakingNeedsOf
      <3>6. \A q \in c.lives : q[2] # rm /\ q[2] # pi
        BY <1>1, <1>9, <3>1, LivingNeedsOf DEF pi, fs
      <3>7. B3 \subseteq l \ {pi} /\ n \ {pi} \subseteq B3 \cup N
        BY <2>2 DEF K, N
      <3> HIDE DEF l, n, B3, g1, rm
      <3>8. Leads(c, Between(l, n, g1, list), D, Between(l \ {pi}, n \ {pi}, g1 \cup {pi}, list))
        BY <1>1, <3>2, <3>3, <3>4, <3>5, <3>6, LeadsDestroy
      <3>9. Between(l \ {pi}, n \ {pi}, g1 \cup {pi}, list) \subseteq S4
        BY <3>7, BetweenWider
      <3>10. Between(l, n, g1, list) \subseteq Between(l, n, g1, list)
        OBVIOUS
      <3>11. Leads(c, Between(l, n, g1, list), D, S4)
        BY <3>8, <3>9, <3>10, LeadsWeaken
      <3> QED BY <3>11 DEF l, n
    <2>4. ~o.cleanupPersistent => S3 \subseteq S4
      <3>1. ~o.cleanupPersistent => K = N
        BY DEF K, N, Only
      <3>2. B3 \subseteq B3 \cup own /\ g1 \subseteq g2
        OBVIOUS
      <3> HIDE DEF B3, g1, g2
      <3>3. Between(B3 \cup own, B3 \cup N, g1, list) \subseteq S4
        BY <3>2, BetweenWider
      <3> QED BY <3>1, <3>3
    <2> HIDE DEF S3, S4, D
    <2> QED BY <1>1, <2>3, <2>4, LeadsWhen DEF Within
  <1>14. Leads(c, S4, When(o.persistentLustre # NoName, LustreCleanup(fs)), S5)
    <2> DEFINE n == B5 \cup N
               mk == Creator(fs)
               ds == Destroyer(fs)
    <2>1. ASSUME o.persistentLustre # NoName PROVE Leads(c, S4, LustreCleanup(fs), S5)
      <3>1. {fs, mk, ds} \subseteq c.objects
        BY <1>1, <2>1 DEF Surroundings, Prepared, Lustre, Only, fs
      <3>2. fs[1] = "persistent lustre" /\ mk[1] = "create workflow" /\ ds[1] = "destroy workflow"
        BY Kinds DEF fs
      <3>3. \A x \in n : x[1] \in {"storage profile", "container profile", "workflow", "persistent lustre"}
        BY <1>3, <1>4, <1>5
      <3>4. /\ fs \notin n \cup g2 /\ mk \notin n \cup g2 /\ ds \notin n \cup g2
            /\ fs # mk /\ fs # ds /\ mk # ds
        <4>1. fs \notin n \cup g2
          BY <1>4, <1>5, <1>21, <2>1, <3>2
        <4> QED BY <1>8, <3>2, <3>3, <4>1
      <3>5. \A q \in c.bonds : q[1] # ds
        BY <1>1, MakingNeedsOf
      <3>6. \A q \in c.lives : q[2] = fs => q[1][1] = "global lustre"
        <4>1. \A q \in c.lives : q[2] = fs => q[1] = gl
          BY <1>1, LivingNeedsOf DEF fs, gl
        <4> QED BY <4>1, Kinds DEF gl
      <3>7. \A q \in c.lives : q[2] # ds /\ (q[2] = mk => q[1] = fs)
        BY <1>1, LivingNeedsOf DEF fs
      <3>8. \A x \in n \cup g2 \cup {mk, ds, fs} : x[1] # "global lustre"
        BY <1>8, <3>2, <3>3
      <3>9. \A q \in c.lives : /\ q[2] # ds
                               /\ q[2] = fs => q[1] \notin n \cup g2 \cup {mk, ds, fs}
                               /\ q[2] = mk => q[1] \notin n \cup g2 \cup {mk, ds}
        BY <3>4, <3>6, <3>7, <3>8
      <3>10. B5 \cup {mk, fs} = B3 /\ n \cup {mk, fs} = B3 \cup N
        BY <2>1 DEF Lustre, Only, fs
      <3> HIDE DEF n, B5, B3, g2
      <3>11. B5 \subseteq n
        BY DEF n
      <3>12. Leads(c, Between(B5 \cup {mk, fs}, n \cup {mk, fs}, g2, list), LustreCleanup(fs),
                   Between(B5, n, g2, list))
        BY <1>1, <3>1, <3>4, <3>5, <3>9, <3>11, LeadsLustreCleanup
      <3> HIDE DEF mk
      <3> QED BY <3>10, <3>12 DEF n
    <2>2. o.persistentLustre = NoName => S4 \subseteq S5
      <3>1. o.persistentLustre = NoName => B3 = B5
        BY DEF Lustre, Only
      <3> HIDE DEF B3, B5
      <3> QED BY <3>1
    <2> HIDE DEF S4, S5
    <2> QED BY <1>1, <2>1, <2>2, LeadsWhen DEF Within
  <1>15. Leads(c, S5, When(o.storageProfile # NoName, DeleteAndWait(Profile(o.storageProfile))), S6)
    <2> DEFINE l == ContainerProfiles(o)
               n == ContainerProfiles(o) \cup N
               y == Profile(o.storageProfile)
               b == o.storageProfile # NoName
               X == IF b THEN {y} ELSE {}
    <2>1. Profiles(o) = X /\ (b => y \in c.objects)
      BY <1>1 DEF Surroundings, Prepared, Profiles, Only
    <2>2. y[1] = "storage profile"
      BY Kinds
    <2>3. \A x \in l : x[1] = "container profile"
      BY Members
    <2>4. y \notin n \cup g2
      BY <1>3, <1>4, <1>8, <2>2, <2>3
    <2>5. \A q \in c.lives : q[2] # y
      BY <1>1, LivingNeedsOf
    <2>6. l \subseteq n /\ l \cup X = B5 /\ n \cup X = B5 \cup N
      BY <2>1
    <2> HIDE DEF l, n, B5, g2, b, y
    <2>7. Leads(c, Between(l \cup X, n \cup X, g2, list), When(b, DeleteAndWait(y)),
                Between(l, n, g2, list))
      BY <1>1, <2>1, <2>4, <2>5, <2>6, LeadsDrop
    <2> HIDE DEF X
    <2> QED BY <2>6, <2>7 DEF l, n, b, y
  <1>16. Leads(c, S6, When(o.containerProfile # NoName,
                           DeleteAndWait(ContainerProfile(o.containerProfile))), S7)
    <2> DEFINE y == ContainerProfile(o.containerProfile)
               b == o.containerProfile # NoName
               X == IF b THEN {y} ELSE {}
    <2>1. ContainerProfiles(o) = X /\ (b => y \in c.objects)
      BY <1>1 DEF Surroundings, Prepared, ContainerProfiles, Only
    <2>2. y[1] = "container profile"
      BY Kinds
    <2>3. y \notin N \cup g2
      BY <1>3, <1>4, <1>8, <2>2
    <2>4. \A q \in c.lives : q[2] # y
      BY <1>1, LivingNeedsOf
    <2>5. {} \cup X = ContainerProfiles(o) /\ N \cup X = ContainerProfiles(o) \cup N
      BY <2>1
    <2> HIDE DEF g2, b, y
    <2>6. Leads(c, Between({} \cup X, N \cup X, g2, list), When(b, DeleteAndWait(y)),
                Between({}, N, g2, list))
      BY <1>1, <2>1, <2>3, <2>4, LeadsDrop
    <2> HIDE DEF X
    <2> QED BY <2>5, <2>6 DEF b, y
  <1>17. Cleanup(t, o, list) =
            FlattenSeq(pd) \o When(o.globalLustre # NoName, DeleteAndWait(gl)) \o FlattenSeq(mg)
            \o When(o.cleanupPersistent, D) \o When(o.persistentLustre # NoName, LustreCleanup(fs))
            \o When(o.storageProfile # NoName, DeleteAndWait(Profile(o.storageProfile)))
            \o When(o.containerProfile # NoName, DeleteAndWait(ContainerProfile(o.containerProfile)))
    BY DEF Cleanup, gl, m, pi, fs
  <1>18. /\ S0 = LET all == Prepared(t, o) \cup outs IN
                 Between(all \cup own, all \cup {Workflow(t), OwnFileSystem(o)},
                         PoolCreators(o, o.mgsPool.count) \cup {Workflow(t)}, list)
         /\ S7 = Clean(t, o, list)
    BY DEF g0, m, w, pi, K, N, Clean
  <1> HIDE DEF S0, S1, S2, S3, S4, S5, S6, S7, pd, mg, D
  <1>19. ASSUME NEW s1, NEW s2, NEW s3, NEW s4, NEW s5, NEW s6, NEW s7,
                Leads(c, S0, s1, S1), Leads(c, S1, s2, S2), Leads(c, S2, s3, S3),
                Leads(c, S3, s4, S4), Leads(c, S4, s5, S5), Leads(c, S5, s6, S6),
                Leads(c, S6, s7, S7)
         PROVE  Leads(c, S0, s1 \o s2 \o s3 \o s4 \o s5 \o s6 \o s7, S7)
    <2>1. Leads(c, S0, s1 \o s2, S2)
      BY <1>19, LeadsJoin
    <2>2. Leads(c, S0, s1 \o s2 \o s3, S3)
      BY <1>19, <2>1, LeadsJoin
    <2>3. Leads(c, S0, s1 \o s2 \o s3 \o s4, S4)
      BY <1>19, <2>2, LeadsJoin
    <2>4. Leads(c, S0, s1 \o s2 \o s3 \o s4 \o s5, S5)
      BY <1>19, <2>3, LeadsJoin
    <2>5. Leads(c, S0, s1 \o s2 \o s3 \o s4 \o s5 \o s6, S6)
      BY <1>19, <2>4, LeadsJoin
    <2> QED BY <1>19, <2>5, LeadsJoin
  <1>20. Leads(c, S0, Cleanup(t, o, list), S7)
    BY <1>10, <1>11, <1>12, <1>13, <1>14, <1>15, <1>16, <1>17, <1>19
  <1> QED BY <1>18, <1>20 DEF c

-----------------------------------------------------------------------------
(* Every step of a test is about an object of the test. *)

LEMMA ToSetJoin ==
    ASSUME NEW S, NEW a \in Seq(S), NEW b \in Seq(S)
    PROVE  ToSet(a) \subseteq ToSet(a \o b) /\ ToSet(b) \subseteq ToSet(a \o b)
  <1>1. a \o b \in Seq(S) /\ DOMAIN (a \o b) = 1 .. Len(a) + Len(b)
    OBVIOUS
  <1>2. ASSUME NEW k \in 1 .. Len(a) PROVE a[k] = (a \o b)[k] /\ k \in 1 .. Len(a) + Len(b)
    OBVIOUS
  <1>3. ASSUME NEW k \in 1 .. Len(b)
        PROVE  b[k] = (a \o b)[Len(a) + k] /\ Len(a) + k \in 1 .. Len(a) + Len(b)
    OBVIOUS
  <1>4. DOMAIN a = 1 .. Len(a) /\ DOMAIN b = 1 .. Len(b)
    OBVIOUS
  <1>5. ASSUME NEW x \in ToSet(a) PROVE x \in ToSet(a \o b)
    <2>1. PICK k \in 1 .. Len(a) : x = a[k]
      BY <1>4 DEF ToSet
    <2> QED BY <1>1, <1>2, <2>1 DEF ToSet
  <1>6. ASSUME NEW x \in ToSet(b) PROVE x \in ToSet(a \o b)
    <2>1. PICK k \in 1 .. Len(b) : x = b[k]
      BY <1>4 DEF ToSet
    <2>2. x = (a \o b)[Len(a) + k] /\ Len(a) + k \in 1 .. Len(a) + Len(b)
      BY <1>3, <2>1
    <2> QED BY <1>1, <2>2 DEF ToSet
  <1> QED BY <1>5, <1>6

LEMMA Retype ==
    ASSUME NEW X, NEW Y, NEW s \in Seq(StepOn(X)), \A e \in ToSet(s) : e.obj \in Y
    PROVE  s \in Seq(StepOn(Y))
  <1>1. \A k \in 1 .. Len(s) : s[k] \in StepOn(X) /\ s[k].obj \in Y
    BY DEF ToSet
  <1>2. \A k \in 1 .. Len(s) : s[k] \in StepOn(Y)
    BY <1>1 DEF StepOn
  <1> QED BY <1>2

\* What the parts of a script are about, the whole is.
LEMMA PartSteps ==
    ASSUME NEW X, NEW Y, NEW a \in Seq(StepOn(X)), NEW b \in Seq(StepOn(X)),
           a \o b \in Seq(StepOn(Y))
    PROVE  a \in Seq(StepOn(Y)) /\ b \in Seq(StepOn(Y))
  <1>1. \A e \in ToSet(a \o b) : e.obj \in Y
    <2>1. PICK c \in Seq(StepOn(Y)) : c = a \o b
      OBVIOUS
    <2>2. \A k \in DOMAIN c : c[k] \in StepOn(Y)
      BY <2>1
    <2>3. ToSet(c) \subseteq StepOn(Y)
      BY <2>2 DEF ToSet
    <2> QED BY <2>1, <2>3 DEF StepOn
  <1>2. ToSet(a) \subseteq ToSet(a \o b) /\ ToSet(b) \subseteq ToSet(a \o b)
    BY ToSetJoin
  <1>3. (\A e \in ToSet(a) : e.obj \in Y) /\ (\A e \in ToSet(b) : e.obj \in Y)
    BY <1>1, <1>2
  <1> QED BY <1>3, Retype

LEMMA OneObject ==
    ASSUME NEW X, NEW op, NEW x, <<[op |-> op, obj |-> x]>> \in Seq(StepOn(X))
    PROVE  x \in X
  <1> DEFINE e == [op |-> op, obj |-> x]
  <1>1. <<e>>[1] = e /\ Len(<<e>>) = 1 /\ e.obj = x
    OBVIOUS
  <1> HIDE DEF e
  <1>2. <<e>> \in Seq(StepOn(X))
    BY DEF e
  <1>3. e \in StepOn(X)
    BY <1>1, <1>2
  <1> QED BY <1>1, <1>3 DEF StepOn

LEMMA ObjectSteps ==
    ASSUME NEW t, NEW o, WellFormed(o)
    PROVE  /\ Objects(t, o) \subseteq Whole(t, o) /\ Workflow(t) \in Objects(t, o)
           /\ Prepare(t, o) \in Seq(StepOn(Objects(t, o)))
           /\ Create(Workflow(t)) \in Seq(StepOn(Objects(t, o)))
           /\ Execute(t, o) \in Seq(StepOn(Objects(t, o)))
           /\ Teardown(t, o) \in Seq(StepOn(Objects(t, o)))
           /\ \A ps \in Seq(Objects(t, o)) : Cleanup(t, o, ps) \in Seq(StepOn(Objects(t, o)))
  <1> DEFINE X == Whole(t, o)
             O == Objects(t, o)
             w == Workflow(t)
             a == Prepare(t, o)
             b == Create(w)
             d == Execute(t, o)
             e == Cleanup(t, o, <<>>)
             T == ToSet(a \o b \o d \o e)
  <1>1. a \in Seq(StepOn(X)) /\ b \in Seq(StepOn(X)) /\ d \in Seq(StepOn(X)) /\ e \in Seq(StepOn(X))
    <2>1. /\ Surroundings(t, o) \subseteq X /\ {w} \subseteq X
          /\ \A Y \in SUBSET X : StepOn(Y) \subseteq StepOn(X)
      BY DEF Whole, StepOn
    <2>2. a \in Seq(StepOn(X))
      BY <2>1, PrepareSteps
    <2>3. b \in Seq(StepOn(X))
      <3>1. StepOn({w}) \subseteq StepOn(X) /\ Create(w) \in Seq(StepOn({w}))
        BY <2>1, ExecuteSteps
      <3> HIDE DEF X, w
      <3> QED BY <3>1 DEF b
    <2>4. d \in Seq(StepOn(X))
      BY ExecuteSteps DEF Whole
    <2>5. e \in Seq(StepOn(X))
      <3>1. <<>> \in Seq(X)
        OBVIOUS
      <3> QED BY <2>1, <3>1, CleanupSteps
    <2> QED BY <2>2, <2>3, <2>4, <2>5
  <1>2. O = {s.obj : s \in T}
    BY DEF Objects
  <1> HIDE DEF a, b, d, e, X, O
  <1>3. /\ a \o b \in Seq(StepOn(X)) /\ a \o b \o d \in Seq(StepOn(X))
        /\ a \o b \o d \o e \in Seq(StepOn(X))
    BY <1>1
  <1>4. ToSet(a) \subseteq T /\ ToSet(b) \subseteq T /\ ToSet(d) \subseteq T /\ ToSet(e) \subseteq T
    <2>1. ToSet(a \o b \o d) \subseteq T /\ ToSet(e) \subseteq T
      BY <1>1, <1>3, ToSetJoin
    <2>2. ToSet(a \o b) \subseteq ToSet(a \o b \o d) /\ ToSet(d) \subseteq ToSet(a \o b \o d)
      BY <1>1, <1>3, ToSetJoin
    <2>3. ToSet(a) \subseteq ToSet(a \o b) /\ ToSet(b) \subseteq ToSet(a \o b)
      BY <1>1, ToSetJoin
    <2> HIDE DEF T
    <2> QED BY <2>1, <2>2, <2>3
  <1>5. \A s \in T : s.obj \in X
    <2>1. T \subseteq StepOn(X)
      BY <1>3 DEF ToSet
    <2> HIDE DEF T
    <2> QED BY <2>1 DEF StepOn
  <1>6. O \subseteq X
    BY <1>2, <1>5
  <1> HIDE DEF T
  <1>7. a \in Seq(StepOn(O)) /\ b \in Seq(StepOn(O)) /\ d \in Seq(StepOn(O)) /\ e \in Seq(StepOn(O))
    BY <1>1, <1>2, <1>4, Retype
  <1>8. w \in O
    <2>1. [op |-> "create", obj |-> w] \in ToSet(b)
      BY DEF b, Create, ToSet
    <2> QED BY <1>2, <1>4, <2>1
  <1>9. Teardown(t, o) \in Seq(StepOn(O))
    <2>1. \A Y \in SUBSET O : StepOn(Y) \subseteq StepOn(O)
      BY DEF StepOn
    <2>2. {w} \subseteq O
      BY <1>8
    <2>3. StepOn({w}) \subseteq StepOn(O) /\ Teardown(t, o) \in Seq(StepOn({w}))
      BY <2>1, <2>2, ExecuteSteps
    <2> QED BY <2>3
  <1>10. ASSUME NEW ps \in Seq(O) PROVE Cleanup(t, o, ps) \in Seq(StepOn(O))
    <2> DEFINE f == [k \in 1 .. Len(ps) |-> DeleteAndWait(ps[k])]
               f0 == [k \in 1 .. Len(<<>>) |-> DeleteAndWait(<<>>[k])]
    <2>1. Cleanup(t, o, ps) = FlattenSeq(f) \o CleanupRest(t, o)
      <3>1. Surroundings(t, o) \subseteq X /\ ps \in Seq(X)
        BY <1>6 DEF X, Whole
      <3> QED BY <3>1, CleanupSteps
    <2>2. e = FlattenSeq(f0) \o CleanupRest(t, o) /\ CleanupRest(t, o) \in Seq(StepOn(X))
      <3>1. Surroundings(t, o) \subseteq X /\ <<>> \in Seq(X)
        BY DEF X, Whole
      <3> QED BY <3>1, CleanupSteps DEF e
    <2>3. CleanupRest(t, o) \in Seq(StepOn(O))
      <3>1. f0 = <<>>
        OBVIOUS
      <3>2. FlattenSeq(f0) = <<>>
        BY <3>1 DEF FlattenSeq
      <3> HIDE DEF f0
      <3>3. e = CleanupRest(t, o)
        BY <2>2, <3>2
      <3> QED BY <1>7, <3>3
    <2>4. FlattenSeq(f) \in Seq(StepOn(O))
      <3>1. /\ Len(ps) \in Nat /\ Len(f) = Len(ps) /\ (Len(ps) = 0 => f = <<>>)
            /\ \A k \in 1 .. Len(ps) : f[k] = DeleteAndWait(ps[k]) /\ ps[k] \in O
        OBVIOUS
      <3> HIDE DEF f
      <3>2. \A k \in 1 .. Len(ps) : f[k] \in Seq(StepOn(O))
        BY <3>1, OneStep
      <3> QED BY <3>1, <3>2, FlattenSteps
    <2> HIDE DEF f
    <2> QED BY <2>1, <2>3, <2>4
  <1> QED BY <1>6, <1>7, <1>8, <1>9, <1>10 DEF a, b, d, X, O

\* What a test has of three kinds: its workflow, file systems that the options name,
\* and a global lustre.
LEMMA WholeMembers ==
    ASSUME NEW t, NEW o, NEW x \in Whole(t, o)
    PROVE  /\ x[1] = "workflow" => x = Workflow(t)
           /\ x[1] = "persistent lustre" =>
                 \/ x = FileSystem(o) /\ o.persistentLustre # NoName
                 \/ x = OwnFileSystem(o) /\ o.createPersistent # NoName
           /\ x[1] = "global lustre" => x = GlobalLustre(o) /\ o.globalLustre # NoName
  <1>1. \/ x = Workflow(t)
        \/ x \in Profiles(o) \/ x \in ContainerProfiles(o) \/ x \in Lustre(o)
        \/ x \in Pool(o, o.mgsPool.count) \/ x \in Global(o) \/ x \in InPods(t, o)
        \/ x \in OutPods(t, o) \/ x \in Own(o) \/ x \in PoolCreators(o, o.mgsPool.count)
        \/ x \in PoolDestroyers(o, o.mgsPool.count)
        \/ x \in {PoolProfile(o), Destroyer(FileSystem(o)), Destroyer(OwnFileSystem(o))}
    BY DEF Whole, Surroundings, Prepared, Only
  <1> DEFINE G == /\ x[1] = "workflow" => x = Workflow(t)
                  /\ x[1] = "persistent lustre" =>
                        \/ x = FileSystem(o) /\ o.persistentLustre # NoName
                        \/ x = OwnFileSystem(o) /\ o.createPersistent # NoName
                  /\ x[1] = "global lustre" => x = GlobalLustre(o) /\ o.globalLustre # NoName
  <1>2. ASSUME x[1] \in {"storage profile", "container profile", "MGS", "copy-in pod",
                         "copy-out pod", "create workflow", "destroy workflow"}
        PROVE  G
    BY <1>2
  <1>3. ASSUME x = Workflow(t) PROVE G
    BY <1>3, Kinds
  <1>4. ASSUME x \in Lustre(o) PROVE G
    <2>1. x \in {Creator(FileSystem(o)), FileSystem(o)} /\ o.persistentLustre # NoName
      BY <1>4 DEF Lustre, Only
    <2> QED BY <2>1, Kinds
  <1>5. ASSUME x \in Global(o) PROVE G
    <2>1. x = GlobalLustre(o) /\ o.globalLustre # NoName
      BY <1>5 DEF Global, Only
    <2> QED BY <2>1, Kinds
  <1>6. ASSUME x \in Own(o) PROVE G
    <2>1. x = OwnFileSystem(o) /\ o.createPersistent # NoName
      BY <1>6 DEF Own, Only
    <2> QED BY <2>1, Kinds
  <1>7. ASSUME \/ x \in Profiles(o) \/ x \in ContainerProfiles(o)
               \/ x \in Pool(o, o.mgsPool.count) \/ x \in InPods(t, o)
               \/ x \in OutPods(t, o) \/ x \in PoolCreators(o, o.mgsPool.count)
               \/ x \in PoolDestroyers(o, o.mgsPool.count)
        PROVE  x[1] \in {"storage profile", "container profile", "MGS", "copy-in pod",
                         "copy-out pod", "create workflow", "destroy workflow"}
    <2> DEFINE m == o.mgsPool.count
    <2>1. x \in Pool(o, m) \/ x \in PoolCreators(o, m) \/ x \in PoolDestroyers(o, m)
          => x[1] \in {"MGS", "create workflow", "destroy workflow"}
      <3> HIDE DEF m
      <3> QED BY PoolMembers
    <2>2. x \in Profiles(o) \/ x \in ContainerProfiles(o) \/ x \in InPods(t, o) \/ x \in OutPods(t, o)
          => x[1] \in {"storage profile", "container profile", "copy-in pod", "copy-out pod"}
      BY Members
    <2> QED BY <1>7, <2>1, <2>2
  <1>8. ASSUME x \in {PoolProfile(o), Destroyer(FileSystem(o)), Destroyer(OwnFileSystem(o))}
        PROVE  x[1] \in {"storage profile", "destroy workflow"}
    BY <1>8, Kinds DEF PoolProfile
  <1> HIDE DEF G
  <1>9. G
    BY <1>1, <1>2, <1>3, <1>4, <1>5, <1>6, <1>7, <1>8
  <1> QED BY <1>9 DEF G

LEMMA WorkflowApart ==
    ASSUME NEW t, NEW o PROVE Workflow(t) \notin Surroundings(t, o)
  <1>1. Workflow(t)[1] = "workflow"
    BY Kinds
  <1>2. Workflow(t) \notin {PoolProfile(o), Destroyer(FileSystem(o)), Destroyer(OwnFileSystem(o))}
    BY Kinds DEF PoolProfile
  <1>3. Workflow(t) \notin Lustre(o)
    <2>1. Workflow(t) # Creator(FileSystem(o)) /\ Workflow(t) # FileSystem(o)
      BY Kinds
    <2> QED BY <2>1, Members
  <1>4. /\ Workflow(t) \notin Profiles(o) /\ Workflow(t) \notin ContainerProfiles(o)
        /\ Workflow(t) \notin Global(o) /\ Workflow(t) \notin InPods(t, o)
        /\ Workflow(t) \notin OutPods(t, o) /\ Workflow(t) \notin Own(o)
    BY <1>1, Members
  <1>5. /\ Workflow(t) \notin Pool(o, o.mgsPool.count)
        /\ Workflow(t) \notin PoolCreators(o, o.mgsPool.count)
        /\ Workflow(t) \notin PoolDestroyers(o, o.mgsPool.count)
    <2> DEFINE m == o.mgsPool.count
               w == Workflow(t)
    <2>1. \/ w \in Pool(o, m) \/ w \in PoolCreators(o, m) \/ w \in PoolDestroyers(o, m)
          => w[1] \in {"MGS", "create workflow", "destroy workflow"}
      <3> HIDE DEF m, w
      <3> QED BY PoolMembers
    <2>2. w[1] \notin {"MGS", "create workflow", "destroy workflow"}
      BY <1>1
    <2> QED BY <2>1, <2>2
  <1> QED BY <1>2, <1>3, <1>4, <1>5 DEF Surroundings, Prepared, Only

\* Of its workflow Execute asks no more than that it runs, and Teardown not to be made.
LEMMA WorkflowSteps ==
    ASSUME NEW t, NEW o
    PROVE  LET w == Workflow(t) IN
           /\ Create(w) = <<[op |-> "create", obj |-> w]>>
           /\ \A k \in 1 .. Len(Execute(t, o)) :
                 Execute(t, o)[k].obj = w => Execute(t, o)[k].op = "run"
           /\ \A k \in 1 .. Len(Teardown(t, o)) : Teardown(t, o)[k].op \in {"run", "delete"}
  <1> DEFINE w == Workflow(t)
             X == {e \in StepOn({w, OwnFileSystem(o), CopyOutPod(t)}) : e.obj = w => e.op = "run"}
             Y == {e \in StepOn({w}) : e.op \in {"run", "delete"}}
  <1>1. w # OwnFileSystem(o) /\ w # CopyOutPod(t)
    BY Kinds
  <1>2. Run(w) \in Seq(X) /\ Provision(OwnFileSystem(o)) \in Seq(X)
    BY <1>1 DEF StepOn, Op, Run, Provision
  <1>3. HelperPod(CopyOutPod(t)) \in Seq(X)
    <2>1. Pod(CopyOutPod(t)) \in Seq(X) /\ Await(CopyOutPod(t)) \in Seq(X)
      BY <1>1 DEF StepOn, Op, Pod, Await
    <2> HIDE DEF X
    <2> QED BY <2>1 DEF HelperPod
  <1>4. Run(w) \in Seq(Y) /\ Delete(w) \in Seq(Y)
    BY DEF StepOn, Op, Run, Delete
  <1>5. \A e \in X : e.obj = w => e.op = "run"
    OBVIOUS
  <1>6. \A e \in Y : e.op \in {"run", "delete"}
    OBVIOUS
  <1> HIDE DEF X, Y, w
  <1>7. Execute(t, o) \in Seq(X)
    <2>1. When(o.copyOut, HelperPod(CopyOutPod(t))) \in Seq(X)
      BY <1>3 DEF When
    <2> QED BY <1>2, <2>1 DEF Execute, w
  <1>8. Teardown(t, o) \in Seq(Y)
    BY <1>4 DEF Teardown, When, w
  <1>9. \A k \in 1 .. Len(Execute(t, o)) : Execute(t, o)[k] \in X
    BY <1>7
  <1>10. \A k \in 1 .. Len(Teardown(t, o)) : Teardown(t, o)[k] \in Y
    BY <1>8
  <1> QED BY <1>5, <1>6, <1>9, <1>10 DEF w, Create

\* There is a way to fail in the middle of a test.
LEMMA MidThere == ASSUME NEW t, NEW o PROVE Mid(t, o) # {}
  <1> DEFINE h == Prepared(t, o)
             l == InList(t, o)
             g == PoolCreators(o, o.mgsPool.count) \cup {Workflow(t)}
             K == {Workflow(t), OwnFileSystem(o)}
  <1>1. h \cup {} = h
    OBVIOUS
  <1>2. Midway(t, o, {}, l) = Between(h, h \cup K, g, l)
    BY <1>1 DEF Midway
  <1> HIDE DEF h, l, g, K
  <1>3. Shadow(h, {}, l) \in Between(h, h \cup K, g, l)
    BY DEF Between, Shadow
  <1> QED BY <1>2, <1>3 DEF Mid, l

\* The parts of Prepare are about objects of the test.
LEMMA PartsOfScript ==
    ASSUME NEW t, NEW o, WellFormed(o)
    PROVE  LET T == Seq(StepOn(Objects(t, o))) IN
           /\ ProfilePart(o) \in T /\ ContainerPart(o) \in T /\ LustrePart(o) \in T
           /\ PoolPart(o) \in T /\ GlobalPart(t, o) \in T
  <1> DEFINE X == Surroundings(t, o)
             O == Objects(t, o)
             T == Seq(StepOn(X))
             s1 == ProfilePart(o)
             s2 == ContainerPart(o)
             s3 == LustrePart(o)
             s4 == PoolPart(o)
             s5 == GlobalPart(t, o)
  <1>1. s1 \in T /\ s2 \in T /\ s3 \in T /\ s4 \in T /\ s5 \in T
    BY PrepareParts
  <1>2. Prepare(t, o) = s1 \o s2 \o s3 \o s4 \o s5 /\ Prepare(t, o) \in Seq(StepOn(O))
    BY PrepareParts, ObjectSteps
  <1> HIDE DEF s1, s2, s3, s4, s5, X, O
  <1>3. s1 \o s2 \in T /\ s1 \o s2 \o s3 \in T /\ s1 \o s2 \o s3 \o s4 \in T
    BY <1>1
  <1>4. s1 \o s2 \o s3 \o s4 \in Seq(StepOn(O)) /\ s5 \in Seq(StepOn(O))
    BY <1>1, <1>2, <1>3, PartSteps
  <1>5. s1 \o s2 \o s3 \in Seq(StepOn(O)) /\ s4 \in Seq(StepOn(O))
    BY <1>1, <1>3, <1>4, PartSteps
  <1>6. s1 \o s2 \in Seq(StepOn(O)) /\ s3 \in Seq(StepOn(O))
    BY <1>1, <1>3, <1>5, PartSteps
  <1>7. s1 \in Seq(StepOn(O)) /\ s2 \in Seq(StepOn(O))
    BY <1>1, <1>6, PartSteps
  <1> QED BY <1>4, <1>5, <1>6, <1>7 DEF s1, s2, s3, s4, s5, O
=============================================================================
