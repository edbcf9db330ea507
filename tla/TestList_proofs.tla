---------------------------- MODULE TestList_proofs ----------------------------
(***************************************************************************)
(* For lists of any length and any numbers of copies: the iterator keeps   *)
(* within the list and within the copies, every spec it returns is the     *)
(* test that was written down, or a copy that behaves like it, and the     *)
(* specs are those that the list asks for, all and in order.               *)
(***************************************************************************)
EXTENDS TestList, SequenceTheorems, TLAPS

\* For what it proves of FlattenSeq.
Scripts == INSTANCE TestScripts_proofs WITH NoName <- NoCopy

-----------------------------------------------------------------------------
(* The inductive invariant. *)

\* The specs that the entries of the list, and their copies, may become.
Wanted ==
    {Built(i) : i \in DOMAIN entries}
    \cup {Copy(Built(i), k) : i \in DOMAIN entries, k \in Nat}

Made == [test : Wanted, duplicate : BOOLEAN, tests : Seq(Wanted)]

\* What is built, and what is returned, comes from the list.
MadeInv ==
    /\ entries \in Seq(Entry)
    /\ tests \in Seq(Made) /\ Len(tests) <= Len(entries)
    /\ specs \in Seq(Wanted)

\* Each test has its own counter of copies, once the list is built.
IndexInv ==
    /\ status \in {"building", "iterating", "done", "panicked"}
    /\ status \in {"building", "panicked"} => index = 0 /\ copies = <<>>
    /\ status \in {"iterating", "done"} => DOMAIN copies = DOMAIN tests
    /\ index \in 0 .. Len(tests)
    /\ \A i \in DOMAIN copies : copies[i] \in 0 .. Len(tests[i].tests)

IInv == MadeInv /\ IndexInv

-----------------------------------------------------------------------------
(* Every step preserves it. *)

\* What is wanted is told by the entry, whose options and directives it has.
LEMMA WantedAlike ==
    ASSUME NEW s \in Wanted
    PROVE  /\ s.options = entries[s.name].options
           /\ s.directives = entries[s.name].directives
  <1>1. CASE \E i \in DOMAIN entries : s = Built(i)
    BY <1>1 DEF Built, Bare
  <1>2. CASE \E i \in DOMAIN entries, k \in Nat : s = Copy(Built(i), k)
    <2>1. PICK i \in DOMAIN entries, k \in Nat : s = Copy(Built(i), k)
      BY <1>2
    <2>2. PICK t : t = Built(i)
      OBVIOUS
    <2>3. t.name = i /\ t.options = entries[i].options /\ t.directives = entries[i].directives
      BY <2>2 DEF Built, Bare
    <2>4. s.name = t.name /\ s.options = t.options /\ s.directives = t.directives
      BY <2>1, <2>2 DEF Copy, Bare
    <2> QED BY <2>3, <2>4
  <1> QED BY <1>1, <1>2 DEF Wanted

\* Build makes one more test of the list.
LEMMA BuildStep == ASSUME IInv, Build PROVE IInv'
  <1> DEFINE n == Len(tests) + 1
  <1>1. n \in DOMAIN entries /\ entries[n] \in Entry /\ n <= Len(entries)
    BY DEF IInv, MadeInv, Build
  <1>2. Wanted' = Wanted /\ Made' = Made
    BY DEF Build, Made, Wanted, Built, Copy, Bare
  <1>3. CASE status' = "panicked" /\ UNCHANGED tests
    BY <1>2, <1>3 DEF IInv, MadeInv, IndexInv, Build
  <1>4. CASE ~(status' = "panicked" /\ UNCHANGED tests)
    <2>1. PICK t : t = (IF entries[n].count = NoCount THEN Plain(Built(n))
                                  ELSE DuplicateTest(Built(n), entries[n].count))
      OBVIOUS
    <2>2. tests' = Append(tests, t) /\ UNCHANGED <<status, entries, index, copies, specs>>
      BY <1>4, <2>1 DEF Build
    <2>3. Built(n) \in Wanted
      BY <1>1 DEF Wanted
    <2>4. t \in Made
      <3>1. CASE entries[n].count = NoCount
        BY <2>1, <2>3, <3>1 DEF Plain, Made
      <3>2. CASE entries[n].count # NoCount
        <4>1. PICK m \in Nat : m = entries[n].count
          BY <1>1, <3>2, ListAssumption
        <4>2. \A k \in 1 .. m : Copy(Built(n), k - 1) \in Wanted
          BY <1>1 DEF Wanted
        <4>3. [k \in 1 .. m |-> Copy(Built(n), k - 1)] \in Seq(Wanted)
          BY <4>2
        <4> QED BY <2>1, <2>3, <3>2, <4>1, <4>3 DEF DuplicateTest, Made
      <3> QED BY <3>1, <3>2
    <2>5. tests' \in Seq(Made) /\ Len(tests') = n
      BY <2>2, <2>4 DEF IInv, MadeInv
    <2>6. MadeInv'
      BY <1>1, <1>2, <2>2, <2>5 DEF IInv, MadeInv
    <2>7. IndexInv'
      BY <2>2, <2>5 DEF IInv, MadeInv, IndexInv, Build
    <2> QED BY <2>6, <2>7 DEF IInv
  <1> QED BY <1>3, <1>4

\* The iterator starts with no copy taken.
LEMMA StartStep == ASSUME IInv, TestIterator PROVE IInv'
  <1>1. Wanted' = Wanted /\ Made' = Made
    BY DEF TestIterator, Made, Wanted, Built, Copy, Bare
  <1>2. \A i \in DOMAIN tests : Len(tests[i].tests) \in Nat
    BY DEF IInv, MadeInv, Made
  <1>3. MadeInv'
    BY <1>1 DEF IInv, MadeInv, TestIterator
  <1>4. /\ UNCHANGED <<tests, index>> /\ status' = "iterating"
        /\ DOMAIN copies' = DOMAIN tests /\ \A i \in DOMAIN tests : copies'[i] = 0
    BY DEF TestIterator
  <1>5. index \in 0 .. Len(tests)
    BY DEF IInv, IndexInv
  <1>6. \A i \in DOMAIN tests : 0 \in 0 .. Len(tests[i].tests)
    BY <1>2
  <1>7. IndexInv'
    BY <1>4, <1>5, <1>6 DEF IndexInv
  <1> QED BY <1>3, <1>7 DEF IInv

\* A turn of the iterator's recursion.
LEMMA NextStep ==
    ASSUME IInv, NextPlain \/ NextCopy \/ NoMoreCopies \/ NextNil
    PROVE  IInv'
  <1>1. Wanted' = Wanted /\ Made' = Made
    <2>1. UNCHANGED entries
      BY DEF NextPlain, NextCopy, NoMoreCopies, NextNil
    <2> QED BY <2>1 DEF Made, Wanted, Built, Copy, Bare
  <1>2. AtTest => Here \in Made /\ index + 1 \in DOMAIN tests /\ index + 1 <= Len(tests)
    BY DEF AtTest, Here, IInv, MadeInv, IndexInv
  <1>3. CASE NextPlain
    <2>1. Here.test \in Wanted
      BY <1>2, <1>3 DEF NextPlain, Made
    <2>2. specs' \in Seq(Wanted)
      BY <1>3, <2>1 DEF NextPlain, IInv, MadeInv
    <2> QED BY <1>1, <1>2, <1>3, <2>2 DEF NextPlain, AtTest, IInv, MadeInv, IndexInv
  <1>4. CASE NextCopy
    <2>1. PICK m \in DOMAIN copies : m = index + 1
      BY <1>2, <1>4 DEF NextCopy, AtTest, IInv, IndexInv
    <2>2. copies[m] \in Nat /\ copies[m] < Len(Here.tests) /\ Here = tests[m]
      BY <1>4, <2>1 DEF NextCopy, Here, IInv, IndexInv
    <2>3. copies' = [copies EXCEPT ![m] = copies[m] + 1]
      BY <1>4, <2>1 DEF NextCopy
    <2>4. Here.tests \in Seq(Wanted)
      BY <1>2, <1>4 DEF NextCopy, Made
    <2>5. copies'[m] = copies[m] + 1
      BY <2>1, <2>3
    <2>6. Here.tests[copies[m] + 1] \in Wanted
      BY <2>2, <2>4
    <2>7. specs' = Append(specs, Here.tests[copies[m] + 1])
      BY <1>4, <2>1, <2>5 DEF NextCopy
    <2>8. MadeInv'
      BY <1>1, <1>4, <2>6, <2>7 DEF NextCopy, IInv, MadeInv
    <2>9. IndexInv'
      <3>1. UNCHANGED <<tests, status, index>> /\ DOMAIN copies' = DOMAIN copies
        BY <1>4, <2>3 DEF NextCopy
      <3>2. copies[m] + 1 \in 0 .. Len(tests[m].tests)
        BY <2>2, <2>4
      <3>3. \A i \in DOMAIN copies : copies'[i] \in 0 .. Len(tests[i].tests)
        BY <2>1, <2>3, <3>2 DEF IInv, IndexInv
      <3>4. status = "iterating"
        BY <1>4 DEF NextCopy, AtTest
      <3> QED BY <3>1, <3>3, <3>4 DEF IInv, IndexInv
    <2> QED BY <2>8, <2>9 DEF IInv
  <1>5. CASE NoMoreCopies
    BY <1>1, <1>2, <1>5 DEF NoMoreCopies, AtTest, IInv, MadeInv, IndexInv
  <1>6. CASE NextNil
    BY <1>1, <1>6 DEF NextNil, IInv, MadeInv, IndexInv
  <1> QED BY <1>3, <1>4, <1>5, <1>6

\* The inductive invariant holds while the list is built and iterated over.
THEOREM Invariance == Spec => []IInv
  <1>1. Init => IInv
    <2> SUFFICES ASSUME Init PROVE IInv
      OBVIOUS
    <2>1. entries \in Seq(Entry)
      <3>1. PICK m \in 0 .. MaxLength : entries \in [1 .. m -> Entry]
        BY DEF Init, BoundedSeq, SeqOf
      <3> QED BY <3>1, ListAssumption
    <2> QED BY <2>1 DEF Init, IInv, MadeInv, IndexInv
  <1>2. IInv /\ UNCHANGED vars => IInv'
    <2> SUFFICES ASSUME IInv, UNCHANGED vars PROVE IInv'
      OBVIOUS
    <2>1. Wanted' = Wanted /\ Made' = Made
      BY DEF vars, Made, Wanted, Built, Copy, Bare
    <2> QED BY <2>1 DEF vars, IInv, MadeInv, IndexInv
  <1>3. IInv /\ [Next]_vars => IInv'
    BY <1>2, BuildStep, StartStep, NextStep DEF Next
  <1> QED BY <1>1, <1>3, PTL DEF Spec

-----------------------------------------------------------------------------
(* What follows. *)

\* The indices stay within the list and within the copies.
THEOREM TypeCorrect == Spec => []TypeOK
  <1>1. IInv => TypeOK
    BY DEF IInv, MadeInv, IndexInv, TypeOK
  <1> QED BY <1>1, Invariance, PTL

\* Every spec that the iterator returns has the options and the directives of the
\* entry it is named for, be it the original or a copy.
THEOREM Alike == Spec => []CopiesBehaveAlike
  <1>1. IInv => CopiesBehaveAlike
    <2> SUFFICES ASSUME IInv, NEW i \in DOMAIN specs
                 PROVE  /\ specs[i].options = entries[specs[i].name].options
                        /\ specs[i].directives = entries[specs[i].name].directives
      BY DEF CopiesBehaveAlike
    <2>1. specs[i] \in Wanted
      BY DEF IInv, MadeInv
    <2> QED BY <2>1, WantedAlike
  <1> QED BY <1>1, Invariance, PTL

-----------------------------------------------------------------------------
(* The specs returned so far, and those that the list asks for. *)

Name == Nat \X (Nat \cup {NoCopy})

\* What the i-th entry asks for, and what all do.
Part(i) ==
    IF entries[i].count = NoCount
    THEN << <<i, NoCopy>> >>
    ELSE [k \in 1 .. entries[i].count |-> <<i, k - 1>>]

Parts == [i \in DOMAIN entries |-> Part(i)]

\* With this g, what the first i entries ask for is Upto(g, i).
Upto(g, i) == IF i = 0 THEN <<>> ELSE g[i]

Joined(g) ==
    /\ \A i \in 1 .. Len(entries) : g[i] = IF i = 1 THEN Parts[i] ELSE g[i - 1] \o Parts[i]
    /\ Asked = Upto(g, Len(entries))

\* s starts t.
Starts(s, t) == Len(s) <= Len(t) /\ \A j \in 1 .. Len(s) : s[j] = t[j]

LEMMA AskedJoined == ASSUME entries \in Seq(Entry) PROVE \E g : Joined(g)
  <1> DEFINE n == Len(entries)
  <1>1. n \in Nat /\ DOMAIN entries = 1 .. n
    OBVIOUS
  <1>2. Asked = FlattenSeq(Parts)
    BY DEF Asked, Parts, Part
  <1>3. Len(Parts) = n
    BY <1>1 DEF Parts
  <1>4. CASE n = 0
    <2>1. Asked = Parts
      BY <1>2, <1>3, <1>4 DEF FlattenSeq
    <2>2. Parts = <<>>
      BY <1>1, <1>4 DEF Parts
    <2>3. Joined(<<>>)
      BY <1>4, <2>1, <2>2 DEF Joined, Upto
    <2> QED BY <2>3
  <1>5. CASE n # 0
    <2> DEFINE G == CHOOSE g : g = [i \in 1 .. n |-> IF i = 1 THEN Parts[i] ELSE g[i - 1] \o Parts[i]]
    <2>1. \E g : g = [i \in 1 .. n |-> IF i = 1 THEN Parts[i] ELSE g[i - 1] \o Parts[i]]
      BY <1>1, Scripts!JoinExists DEF Scripts!Joins
    <2>2. G = [i \in 1 .. n |-> IF i = 1 THEN Parts[i] ELSE G[i - 1] \o Parts[i]]
      BY <2>1
    <2>3. Asked = G[n]
      BY <1>2, <1>3, <1>5 DEF FlattenSeq
    <2> HIDE DEF G
    <2>4. \A i \in 1 .. n : G[i] = IF i = 1 THEN Parts[i] ELSE G[i - 1] \o Parts[i]
      BY <2>2
    <2>5. Joined(G)
      BY <1>5, <2>3, <2>4 DEF Joined, Upto
    <2> QED BY <2>5
  <1> QED BY <1>4, <1>5

LEMMA PartIs ==
    ASSUME entries \in Seq(Entry), NEW i \in DOMAIN entries
    PROVE  /\ Part(i) \in Seq(Name) /\ i \in Nat
           /\ entries[i].count = NoCount => Len(Part(i)) = 1 /\ Part(i)[1] = <<i, NoCopy>>
           /\ entries[i].count # NoCount =>
                 /\ entries[i].count \in Nat /\ Len(Part(i)) = entries[i].count
                 /\ \A k \in 1 .. entries[i].count : Part(i)[k] = <<i, k - 1>>
  <1>1. i \in Nat /\ entries[i].count \in Nat \cup {NoCount}
    BY ListAssumption
  <1>2. CASE entries[i].count = NoCount
    <2>1. Part(i) = << <<i, NoCopy>> >> /\ <<i, NoCopy>> \in Name
      BY <1>1, <1>2 DEF Part, Name
    <2> QED BY <1>1, <1>2, <2>1
  <1>3. CASE entries[i].count # NoCount
    <2>1. PICK m \in Nat : m = entries[i].count
      BY <1>1, <1>3
    <2>2. Part(i) = [k \in 1 .. m |-> <<i, k - 1>>]
      BY <1>3, <2>1 DEF Part
    <2>3. \A k \in 1 .. m : <<i, k - 1>> \in Name
      BY <1>1 DEF Name
    <2>4. /\ Part(i) \in Seq(Name) /\ Len(Part(i)) = m
          /\ \A k \in 1 .. m : Part(i)[k] = <<i, k - 1>>
      <3>1. PICK p : p = [k \in 1 .. m |-> <<i, k - 1>>]
        OBVIOUS
      <3>2. p \in Seq(Name) /\ Len(p) = m
        BY <2>3, <3>1
      <3>3. \A k \in 1 .. m : p[k] = <<i, k - 1>>
        BY <3>1
      <3> QED BY <2>2, <3>1, <3>2, <3>3
    <2> QED BY <1>1, <1>3, <2>1, <2>4
  <1> QED BY <1>2, <1>3

LEMMA UptoNext ==
    ASSUME entries \in Seq(Entry), NEW g, Joined(g), NEW i \in 0 .. Len(entries)
    PROVE  /\ Upto(g, i) \in Seq(Name)
           /\ i < Len(entries) => Upto(g, i + 1) = Upto(g, i) \o Part(i + 1)
  <1> DEFINE n == Len(entries)
             S == {k \in Nat : k <= n => Upto(g, k) \in Seq(Name)}
  <1>1. n \in Nat /\ DOMAIN entries = 1 .. n
    OBVIOUS
  <1>2. ASSUME NEW k \in Nat, k < n, Upto(g, k) \in Seq(Name)
        PROVE  Upto(g, k + 1) = Upto(g, k) \o Part(k + 1) /\ Upto(g, k + 1) \in Seq(Name)
    <2>1. k + 1 \in 1 .. n /\ k + 1 # 0 /\ k + 1 - 1 = k
      BY <1>1, <1>2
    <2>2. Parts[k + 1] = Part(k + 1) /\ Part(k + 1) \in Seq(Name)
      BY <1>1, <2>1, PartIs DEF Parts
    <2>3. Upto(g, k + 1) = IF k + 1 = 1 THEN Part(k + 1) ELSE g[k] \o Part(k + 1)
      BY <2>1, <2>2 DEF Joined, Upto
    <2>4. Upto(g, k + 1) = Upto(g, k) \o Part(k + 1)
      <3>1. CASE k = 0
        <4>1. Upto(g, k) = <<>> /\ Upto(g, k + 1) = Part(k + 1)
          BY <2>3, <3>1 DEF Upto
        <4> QED BY <2>2, <4>1, ConcatEmptySeq
      <3>2. CASE k # 0
        <4>1. Upto(g, k) = g[k]
          BY <3>2 DEF Upto
        <4>2. k + 1 # 1
          BY <3>2
        <4>3. Upto(g, k + 1) = g[k] \o Part(k + 1)
          BY <2>3, <4>2
        <4> QED BY <4>1, <4>3
      <3> QED BY <3>1, <3>2
    <2> QED BY <1>2, <2>2, <2>4, ConcatProperties
  <1>3. 0 \in S
    BY DEF Upto
  <1>4. ASSUME NEW k \in Nat, k \in S PROVE k + 1 \in S
    BY <1>1, <1>2, <1>4
  <1>5. i \in S
    <2> HIDE DEF S
    <2> QED BY <1>1, <1>3, <1>4, Scripts!Induction
  <1> QED BY <1>1, <1>2, <1>5

LEMMA UptoStarts ==
    ASSUME entries \in Seq(Entry), NEW g, Joined(g), NEW i \in 0 .. Len(entries)
    PROVE  Starts(Upto(g, i), Asked)
  <1> DEFINE n == Len(entries)
             S == {d \in Nat : i + d <= n => Starts(Upto(g, i), Upto(g, i + d))}
  <1>1. n \in Nat /\ DOMAIN entries = 1 .. n
    OBVIOUS
  <1>2. Upto(g, i) \in Seq(Name)
    BY UptoNext
  <1>3. 0 \in S
    <2>1. i + 0 = i
      OBVIOUS
    <2> QED BY <1>2, <2>1 DEF Starts
  <1>4. ASSUME NEW d \in Nat, d \in S PROVE d + 1 \in S
    <2> SUFFICES ASSUME i + (d + 1) <= n PROVE Starts(Upto(g, i), Upto(g, i + (d + 1)))
      OBVIOUS
    <2>1. PICK k \in 0 .. n : k = i + d /\ k < n /\ k + 1 = i + (d + 1) /\ k + 1 \in DOMAIN entries
      BY <1>1
    <2>2. Starts(Upto(g, i), Upto(g, k))
      BY <1>1, <1>4, <2>1
    <2>3. /\ Upto(g, k) \in Seq(Name) /\ Part(k + 1) \in Seq(Name)
          /\ Upto(g, k + 1) = Upto(g, k) \o Part(k + 1)
      BY <2>1, UptoNext, PartIs
    <2>4. Starts(Upto(g, i), Upto(g, k + 1))
      BY <1>2, <2>2, <2>3 DEF Starts
    <2> QED BY <2>1, <2>4
  <1>5. n - i \in S
    <2>1. n - i \in Nat
      BY <1>1
    <2> HIDE DEF S
    <2> QED BY <1>3, <1>4, <2>1, Scripts!Induction
  <1>6. i + (n - i) = n
    BY <1>1
  <1> QED BY <1>1, <1>5, <1>6 DEF Joined

-----------------------------------------------------------------------------
(* Where the iterator is within what the list asks for. *)

\* The first i entries, and m copies of the next.
Ran(g, i, m) == Upto(g, i) \o SubSeq(Part(i + 1), 1, m)

\* Ran, from one copy to the next and from one entry to the next.
LEMMA RanOn ==
    ASSUME entries \in Seq(Entry), NEW g, Joined(g), NEW i \in 0 .. Len(entries), i < Len(entries)
    PROVE  /\ Ran(g, i, 0) = Upto(g, i)
           /\ Ran(g, i, Len(Part(i + 1))) = Upto(g, i + 1)
           /\ \A m \in 0 .. Len(Part(i + 1)) :
                 /\ Starts(Ran(g, i, m), Asked)
                 /\ m < Len(Part(i + 1)) => Ran(g, i, m + 1) = Append(Ran(g, i, m), Part(i + 1)[m + 1])
  <1> DEFINE j == i + 1
  <1>1. j \in 0 .. Len(entries) /\ j \in DOMAIN entries
    OBVIOUS
  <1>2. PICK u : u = Upto(g, i)
    OBVIOUS
  <1>3. PICK p : p = Part(j)
    OBVIOUS
  <1>4. u \in Seq(Name) /\ p \in Seq(Name) /\ Upto(g, j) = u \o p
    BY <1>1, <1>2, <1>3, UptoNext, PartIs
  <1>5. Starts(u \o p, Asked)
    BY <1>1, <1>4, UptoStarts
  <1>6. \A m : Ran(g, i, m) = u \o SubSeq(p, 1, m)
    BY <1>2, <1>3 DEF Ran
  <1>7. Len(p) \in Nat /\ Len(u) \in Nat
    BY <1>4
  <1>8. \A m \in 0 .. Len(p) : /\ SubSeq(p, 1, m) \in Seq(Name) /\ Len(SubSeq(p, 1, m)) = m
                               /\ \A k \in 1 .. m : SubSeq(p, 1, m)[k] = p[k]
    BY <1>4, <1>7
  <1>9. SubSeq(p, 1, 0) = <<>> /\ SubSeq(p, 1, Len(p)) = p
    <2>1. SubSeq(p, 1, 0) = <<>>
      BY <1>7, <1>8
    <2>2. SubSeq(p, 1, Len(p)) = p
      BY <1>4, <1>7
    <2> QED BY <2>1, <2>2
  <1>10. Ran(g, i, 0) = Upto(g, i)
    BY <1>2, <1>4, <1>6, <1>9, ConcatEmptySeq
  <1>11. Ran(g, i, Len(Part(j))) = Upto(g, j)
    BY <1>3, <1>4, <1>6, <1>9
  <1>12. ASSUME NEW m \in 0 .. Len(p)
         PROVE  Starts(Ran(g, i, m), Asked)
    <2>1. PICK q : q = SubSeq(p, 1, m)
      OBVIOUS
    <2>2. q \in Seq(Name) /\ Len(q) = m /\ \A k \in 1 .. m : q[k] = p[k]
      BY <1>8, <2>1
    <2>3. Starts(u \o q, u \o p)
      BY <1>4, <1>7, <2>2 DEF Starts
    <2>4. Len(u \o q) \in Nat /\ Len(u \o p) \in Nat
      BY <1>4, <2>2
    <2>5. Starts(u \o q, Asked)
      BY <1>5, <2>3, <2>4 DEF Starts
    <2> QED BY <1>6, <2>1, <2>5
  <1>13. ASSUME NEW m \in 0 .. Len(p), m < Len(p)
         PROVE  Ran(g, i, m + 1) = Append(Ran(g, i, m), p[m + 1])
    <2>1. PICK q : q = SubSeq(p, 1, m)
      OBVIOUS
    <2>2. q \in Seq(Name) /\ Len(q) = m /\ p[m + 1] \in Name
      BY <1>4, <1>8, <1>13, <2>1
    <2>3. SubSeq(p, 1, m + 1) = Append(q, p[m + 1])
      BY <1>4, <1>7, <1>13, <2>1
    <2>4. u \o Append(q, p[m + 1]) = Append(u \o q, p[m + 1])
      BY <1>4, <2>2
    <2> QED BY <1>6, <2>1, <2>3, <2>4
  <1> QED BY <1>3, <1>10, <1>11, <1>12, <1>13

-----------------------------------------------------------------------------
(* The order of the specs. *)

NameOf(t) == <<t.name, t.copy>>

\* The names under which a test of the list is run.
Names(t) ==
    IF t.duplicate THEN [k \in DOMAIN t.tests |-> NameOf(t.tests[k])] ELSE <<NameOf(t.test)>>

Run == [i \in DOMAIN specs |-> NameOf(specs[i])]

\* Each test is run as its entry asks, and only the test that the iterator is at
\* may be half done.
RunInv ==
    /\ \A i \in DOMAIN tests : Names(tests[i]) = Part(i)
    /\ status \in {"building", "panicked"} => specs = <<>>
    /\ status \in {"iterating", "done"} => Len(tests) = Len(entries)
    /\ status = "done" => index = Len(tests)
    /\ \A i \in DOMAIN copies : i > index + 1 \/ ~tests[i].duplicate => copies[i] = 0
    /\ \E g : /\ Joined(g)
              /\ AtTest => Run = Ran(g, index, copies[index + 1])
              /\ ~AtTest => Run = Upto(g, index)

\* A list that does not change asks for the same specs.
LEMMA AskedStays ==
    ASSUME UNCHANGED entries
    PROVE  /\ \A i : Part(i)' = Part(i)
           /\ \A g : Joined(g)' <=> Joined(g)
           /\ \A g, i, m : Ran(g, i, m)' = Ran(g, i, m) /\ Upto(g, i)' = Upto(g, i)
  <1>1. \A i : Part(i)' = Part(i)
    BY DEF Part
  <1>2. Parts' = Parts
    BY DEF Parts, Part
  <1>3. Asked' = Asked
    BY DEF Asked
  <1>4. \A g, i : Upto(g, i)' = Upto(g, i)
    BY DEF Upto
  <1>5. \A g : Joined(g)' <=> Joined(g)
    BY <1>2, <1>3, <1>4 DEF Joined
  <1>6. \A g, i, m : Ran(g, i, m)' = Ran(g, i, m)
    BY <1>1, <1>4 DEF Ran
  <1> QED BY <1>1, <1>4, <1>5, <1>6

\* Before the iterator has returned anything.
LEMMA RanNothing ==
    ASSUME NEW g
    PROVE  Upto(g, 0) = <<>> /\ (specs = <<>> => Run = <<>>)
  BY DEF Upto, Run

LEMMA BuildRun == ASSUME IInv, RunInv, Build PROVE RunInv'
  <1> DEFINE n == Len(tests) + 1
  <1>1. n \in DOMAIN entries /\ entries[n] \in Entry /\ n <= Len(entries)
    BY DEF IInv, MadeInv, Build
  <1>2. UNCHANGED <<entries, index, copies, specs>> /\ status' \in {"building", "panicked"}
    BY DEF Build
  <1>3. status = "building" /\ specs = <<>> /\ index = 0 /\ copies = <<>>
    BY DEF Build, RunInv, IInv, IndexInv
  <1>4. PICK g : Joined(g)
    BY DEF RunInv
  <1>5. Joined(g)' /\ Upto(g, index)' = <<>> /\ Run' = <<>> /\ ~AtTest'
    <2>1. Joined(g)'
      BY <1>2, <1>4, AskedStays
    <2>2. Upto(g, index)' = <<>>
      BY <1>2, <1>3 DEF Upto
    <2>3. Run' = <<>>
      BY <1>2, <1>3 DEF Run
    <2>4. ~AtTest'
      BY <1>2 DEF AtTest
    <2> QED BY <2>1, <2>2, <2>3, <2>4
  <1>6. \A i \in DOMAIN tests' : Names(tests'[i]) = Part(i)
    <2>1. CASE status' = "panicked" /\ UNCHANGED tests
      BY <2>1 DEF RunInv
    <2>2. CASE ~(status' = "panicked" /\ UNCHANGED tests)
      <3>1. PICK t : t = (IF entries[n].count = NoCount THEN Plain(Built(n))
                                    ELSE DuplicateTest(Built(n), entries[n].count))
        OBVIOUS
      <3>2. tests' = Append(tests, t)
        BY <2>2, <3>1 DEF Build
      <3>3. Names(t) = Part(n)
        <4>1. CASE entries[n].count = NoCount
          <5>1. t.duplicate = FALSE /\ t.test = Built(n)
            BY <3>1, <4>1 DEF Plain
          <5>2. Built(n).name = n /\ Built(n).copy = NoCopy
            BY DEF Built, Bare
          <5>3. Names(t) = << <<n, NoCopy>> >>
            BY <5>1, <5>2 DEF Names, NameOf
          <5> QED BY <4>1, <5>3 DEF Part
        <4>2. CASE entries[n].count # NoCount
          <5>1. PICK c : c = entries[n].count
            OBVIOUS
          <5>2. t.duplicate = TRUE /\ t.tests = [k \in 1 .. c |-> Copy(Built(n), k - 1)]
            BY <3>1, <4>2, <5>1 DEF DuplicateTest
          <5>3. \A k : Copy(Built(n), k).name = n /\ Copy(Built(n), k).copy = k
            BY DEF Copy, Built, Bare
          <5>4. \A k \in 1 .. c : NameOf(t.tests[k]) = <<n, k - 1>>
            BY <5>2, <5>3 DEF NameOf
          <5>5. Names(t) = [k \in DOMAIN t.tests |-> NameOf(t.tests[k])]
            BY <5>2 DEF Names
          <5>6. DOMAIN t.tests = 1 .. c
            BY <5>2
          <5>7. Names(t) = [k \in 1 .. c |-> <<n, k - 1>>]
            BY <5>4, <5>5, <5>6
          <5> QED BY <4>2, <5>1, <5>7 DEF Part
        <4> QED BY <4>1, <4>2
      <3> HIDE DEF n
      <3>4. ASSUME NEW i \in DOMAIN tests' PROVE Names(tests'[i]) = Part(i)
        <4>1. tests \in Seq(Made) /\ n = Len(tests) + 1
          BY DEF IInv, MadeInv, n
        <4>2. (i = n /\ tests'[i] = t) \/ (i \in DOMAIN tests /\ tests'[i] = tests[i])
          BY <3>2, <4>1
        <4> QED BY <3>3, <4>2 DEF RunInv
      <3> QED BY <3>4
    <2> QED BY <2>1, <2>2
  <1>7. (\A i \in DOMAIN tests : Names(tests[i]) = Part(i))'
    BY <1>2, <1>6, AskedStays DEF Names, NameOf
  <1>8. DOMAIN copies' = {}
    BY <1>2, <1>3
  <1> QED BY <1>2, <1>3, <1>5, <1>7, <1>8 DEF RunInv

LEMMA StartRun == ASSUME IInv, RunInv, TestIterator PROVE RunInv'
  <1>1. /\ UNCHANGED <<entries, tests, index, specs>> /\ status' = "iterating"
        /\ \A i \in DOMAIN tests : copies'[i] = 0
        /\ DOMAIN copies' = DOMAIN tests /\ Len(tests) = Len(entries) /\ status = "building"
    BY DEF TestIterator
  <1>2. specs = <<>> /\ index = 0 /\ entries \in Seq(Entry) /\ tests \in Seq(Made)
    BY <1>1 DEF RunInv, IInv, IndexInv, MadeInv
  <1>3. PICK g : Joined(g)
    BY DEF RunInv
  <1>4. Joined(g)'
    BY <1>1, <1>3, AskedStays
  <1>5. Run' = <<>> /\ Upto(g, index)' = <<>>
    BY <1>1, <1>2 DEF Run, Upto
  <1>6. AtTest' => Run' = Ran(g, index, copies[index + 1])'
    <2> SUFFICES ASSUME AtTest' PROVE Run' = Ran(g, index, copies[index + 1])'
      OBVIOUS
    <2>1. 0 < Len(tests) /\ 1 \in DOMAIN tests
      BY <1>1, <1>2 DEF AtTest
    <2>2. index' = 0 /\ copies'[index' + 1] = 0
      BY <1>1, <1>2, <2>1
    <2>3. Ran(g, 0, 0)' = Ran(g, 0, 0) /\ Ran(g, 0, 0) = <<>>
      BY <1>1, <1>2, <1>3, <2>1, AskedStays, RanOn DEF Upto
    <2>4. Ran(g, index, copies[index + 1])' = Ran(g, 0, 0)'
      BY <2>2 DEF Ran, Upto, Part
    <2> QED BY <1>5, <2>3, <2>4
  <1>7. (\A i \in DOMAIN tests : Names(tests[i]) = Part(i))'
    BY <1>1, AskedStays DEF RunInv
  <1> QED BY <1>1, <1>4, <1>5, <1>6, <1>7 DEF RunInv

\* A spec more.
LEMMA RunGrows ==
    ASSUME specs \in Seq(Wanted), NEW x, specs' = Append(specs, x)
    PROVE  Run' = Append(Run, NameOf(x))
  <1>1. PICK n \in Nat : n = Len(specs) /\ DOMAIN specs = 1 .. n
    OBVIOUS
  <1>2. DOMAIN specs' = 1 .. n + 1 /\ specs'[n + 1] = x /\ \A i \in 1 .. n : specs'[i] = specs[i]
    BY <1>1
  <1>3. Run' = [i \in 1 .. n + 1 |-> NameOf(specs'[i])]
    BY <1>2 DEF Run, NameOf
  <1>4. Run = [i \in 1 .. n |-> NameOf(specs[i])]
    BY <1>1 DEF Run
  <1>5. PICK r : r = Run
    OBVIOUS
  <1>6. Len(r) = n /\ r = [i \in 1 .. n |-> NameOf(specs[i])]
    BY <1>1, <1>4, <1>5
  <1>7. Append(r, NameOf(x)) = [i \in 1 .. n + 1 |-> IF i = n + 1 THEN NameOf(x) ELSE NameOf(specs[i])]
    <2>1. PICK y : y = NameOf(x)
      OBVIOUS
    <2>2. PICK a : a = Append(r, y)
      OBVIOUS
    <2>3. r \in Seq({r[i] : i \in 1 .. n} \cup {y})
      BY <1>1, <1>6
    <2>4. /\ a \in Seq({r[i] : i \in 1 .. n} \cup {y}) /\ Len(a) = n + 1 /\ a[n + 1] = y
          /\ \A i \in 1 .. n : a[i] = r[i]
      BY <1>6, <2>2, <2>3, AppendProperties
    <2>5. a = [i \in 1 .. n + 1 |-> a[i]]
      BY <2>4
    <2>6. \A i \in 1 .. n + 1 : a[i] = IF i = n + 1 THEN y ELSE NameOf(specs[i])
      <3>1. \A i \in 1 .. n : r[i] = NameOf(specs[i])
        BY <1>6
      <3>2. \A i \in 1 .. n + 1 : i = n + 1 \/ i \in 1 .. n
        BY <1>1
      <3>3. \A i \in 1 .. n : i # n + 1
        BY <1>1
      <3> QED BY <2>4, <3>1, <3>2, <3>3
    <2> QED BY <2>1, <2>2, <2>5, <2>6
  <1>8. \A i \in 1 .. n + 1 : NameOf(specs'[i]) = IF i = n + 1 THEN NameOf(x) ELSE NameOf(specs[i])
    <2> SUFFICES ASSUME NEW i \in 1 .. n + 1
                 PROVE  NameOf(specs'[i]) = IF i = n + 1 THEN NameOf(x) ELSE NameOf(specs[i])
      OBVIOUS
    <2>1. CASE i = n + 1
      BY <1>2, <2>1
    <2>2. CASE i # n + 1
      <3>1. i \in 1 .. n
        BY <2>2
      <3> QED BY <1>2, <2>2, <3>1
    <2> QED BY <2>1, <2>2
  <1> QED BY <1>3, <1>5, <1>7, <1>8

\* A turn of the iterator's recursion goes on where it was.
LEMMA NextRun ==
    ASSUME IInv, IInv', RunInv, NextPlain \/ NextCopy \/ NoMoreCopies \/ NextNil
    PROVE  RunInv'
  <1> DEFINE m == index + 1
  <1>1. UNCHANGED <<entries, tests>> /\ status = "iterating" /\ status' \in {"iterating", "done"}
    BY DEF NextPlain, NextCopy, NoMoreCopies, NextNil, AtTest
  <1>2. /\ entries \in Seq(Entry) /\ tests \in Seq(Made) /\ specs \in Seq(Wanted)
        /\ index \in 0 .. Len(tests) /\ Len(tests) = Len(entries) /\ DOMAIN copies = DOMAIN tests
        /\ DOMAIN copies' = DOMAIN tests /\ index' \in 0 .. Len(tests)
    BY <1>1 DEF IInv, MadeInv, IndexInv, RunInv
  <1>3. (\A i \in DOMAIN tests : Names(tests[i]) = Part(i))'
    BY <1>1, AskedStays DEF RunInv
  <1>4. PICK g : /\ Joined(g)
                 /\ AtTest => Run = Ran(g, index, copies[index + 1])
                 /\ ~AtTest => Run = Upto(g, index)
    BY DEF RunInv
  <1>5. Joined(g)'
    BY <1>1, <1>4, AskedStays
  <1>6. ASSUME AtTest
        PROVE  /\ m \in DOMAIN tests /\ index \in 0 .. Len(entries) /\ index < Len(entries)
               /\ m <= Len(tests) /\ Here = tests[m] /\ Names(Here) = Part(m)
               /\ Run = Ran(g, index, copies[m])
               /\ copies[m] \in 0 .. Len(Here.tests)
               /\ Here.tests \in Seq(Wanted)
    <2>1. m \in DOMAIN tests /\ index < Len(entries) /\ m <= Len(tests)
      BY <1>2, <1>6 DEF AtTest
    <2>2. Here = tests[m] /\ Names(Here) = Part(m) /\ Here \in Made
      BY <1>2, <2>1 DEF Here, RunInv
    <2>3. copies[m] \in 0 .. Len(Here.tests)
      BY <1>2, <2>1, <2>2 DEF IInv, IndexInv
    <2> QED BY <1>2, <1>4, <1>6, <2>1, <2>2, <2>3 DEF Made
  \* The iterator comes to the next test.
  <1>7. ASSUME index' = m, UNCHANGED copies, status' = "iterating", AtTest, Run' = Upto(g, m)
        PROVE  RunInv'
    <2>1. Run' = Upto(g, index)'
      BY <1>1, <1>7, AskedStays DEF Upto
    <2>2. ASSUME AtTest' PROVE Run' = Ran(g, index, copies[index + 1])'
      <3>1. m + 1 \in DOMAIN tests /\ m \in 0 .. Len(entries) /\ m < Len(entries) /\ m + 1 > m
        BY <1>1, <1>2, <1>6, <1>7, <2>2 DEF AtTest
      <3>2. copies[m + 1] = 0
        BY <1>2, <3>1 DEF RunInv
      <3>3. copies'[index' + 1] = 0
        BY <1>7, <3>2
      <3>4. Ran(g, m, 0) = Upto(g, m)
        BY <1>2, <1>4, <3>1, RanOn
      <3>5. PICK k : k = m
        OBVIOUS
      <3>6. Ran(g, k, 0)' = Ran(g, k, 0)
        BY <1>1, AskedStays
      <3>7. Ran(g, index, copies[index + 1])' = Ran(g, k, 0)'
        BY <1>7, <3>3, <3>5 DEF Ran, Upto, Part
      <3> QED BY <1>7, <3>4, <3>5, <3>6, <3>7
    <2>3. \A i \in DOMAIN copies' : i > index' + 1 \/ ~tests'[i].duplicate => copies'[i] = 0
      <3> SUFFICES ASSUME NEW i \in DOMAIN copies', i > index' + 1 \/ ~tests'[i].duplicate
                   PROVE  copies'[i] = 0
        OBVIOUS
      <3>1. i \in Nat /\ index \in Nat /\ i \in DOMAIN copies
        BY <1>2, <1>7
      <3>2. i > index + 1 \/ ~tests[i].duplicate
        BY <1>1, <1>7, <3>1
      <3>3. copies[i] = 0
        BY <3>1, <3>2 DEF RunInv
      <3> QED BY <1>7, <3>3
    <2> QED BY <1>1, <1>2, <1>3, <1>5, <1>7, <2>1, <2>2, <2>3 DEF RunInv
  <1>8. CASE NextPlain
    <2>1. AtTest /\ ~Here.duplicate /\ specs' = Append(specs, Here.test) /\ UNCHANGED <<copies, status>>
          /\ index' = m
      BY <1>8 DEF NextPlain
    <2>2. Names(Here) = <<NameOf(Here.test)>>
      BY <2>1 DEF Names
    <2>3. Part(m) = <<NameOf(Here.test)>> /\ copies[m] = 0
      BY <1>2, <1>6, <2>1, <2>2 DEF RunInv
    <2>4. Len(Part(m)) = 1 /\ Part(m)[1] = NameOf(Here.test)
      BY <2>3
    <2>5. Ran(g, index, 1) = Append(Ran(g, index, 0), Part(m)[0 + 1]) /\ Ran(g, index, 1) = Upto(g, m)
      <3>1. /\ Ran(g, index, Len(Part(m))) = Upto(g, m)
            /\ \A j \in 0 .. Len(Part(m)) : j < Len(Part(m)) =>
                  Ran(g, index, j + 1) = Append(Ran(g, index, j), Part(m)[j + 1])
        BY <1>2, <1>4, <1>6, <2>1, RanOn
      <3>2. 0 + 1 = 1 /\ 0 \in 0 .. 1 /\ 0 < 1
        OBVIOUS
      <3> QED BY <2>4, <3>1, <3>2
    <2>6. Run' = Append(Run, NameOf(Here.test))
      BY <1>2, <2>1, RunGrows
    <2>7. Run' = Upto(g, m)
      BY <1>6, <2>1, <2>3, <2>4, <2>5, <2>6
    <2> QED BY <1>1, <1>7, <2>1, <2>7
  <1>9. CASE NextCopy
    <2>1. /\ AtTest /\ Here.duplicate /\ copies[m] < Len(Here.tests)
          /\ copies' = [copies EXCEPT ![m] = copies[m] + 1]
          /\ specs' = Append(specs, Here.tests[copies'[m]])
          /\ UNCHANGED <<index, status>>
      BY <1>9 DEF NextCopy
    <2>2. Names(Here) = [k \in DOMAIN Here.tests |-> NameOf(Here.tests[k])]
      BY <2>1 DEF Names
    <2>3. PICK c \in Nat : c = copies[m] /\ c < Len(Here.tests) /\ c + 1 \in DOMAIN Here.tests
      BY <1>6, <2>1
    <2>4. copies'[m] = c + 1 /\ m \in DOMAIN copies
      BY <1>2, <1>6, <2>1, <2>3
    <2>5. Len(Part(m)) = Len(Here.tests) /\ Part(m)[c + 1] = NameOf(Here.tests[c + 1])
      BY <1>6, <2>1, <2>2, <2>3
    <2>6. Run' = Append(Run, NameOf(Here.tests[c + 1]))
      BY <1>2, <2>1, <2>4, RunGrows
    <2>7. Ran(g, index, c + 1) = Append(Ran(g, index, c), Part(m)[c + 1])
      <3>1. \A j \in 0 .. Len(Part(m)) : j < Len(Part(m)) =>
                Ran(g, index, j + 1) = Append(Ran(g, index, j), Part(m)[j + 1])
        BY <1>2, <1>4, <1>6, <2>1, RanOn
      <3>2. c \in 0 .. Len(Part(m)) /\ c < Len(Part(m))
        BY <1>6, <2>1, <2>3, <2>5
      <3> QED BY <3>1, <3>2
    <2>8. Run' = Ran(g, index, c + 1)
      BY <1>6, <2>1, <2>3, <2>5, <2>6, <2>7
    <2>9. Run' = Ran(g, index, copies[index + 1])'
      <3>1. Ran(g, index, copies[index + 1])' = Ran(g, index, c + 1)
        BY <1>1, <2>1, <2>4 DEF Ran, Upto, Part
      <3> QED BY <2>8, <3>1
    <2>10. AtTest'
      BY <1>1, <2>1 DEF AtTest
    <2>11. \A i \in DOMAIN copies' : i > index' + 1 \/ ~tests'[i].duplicate => copies'[i] = 0
      <3> SUFFICES ASSUME NEW i \in DOMAIN copies', i > index' + 1 \/ ~tests'[i].duplicate
                   PROVE  copies'[i] = 0
        OBVIOUS
      <3>1. i \in DOMAIN copies /\ i \in Nat /\ index \in Nat
        BY <1>2
      <3>2. i > index + 1 \/ ~tests[i].duplicate
        BY <1>1, <2>1
      <3>3. i # m
        <4>1. CASE i > index + 1
          BY <3>1, <4>1
        <4>2. CASE ~tests[i].duplicate
          BY <1>6, <2>1, <4>2
        <4> QED BY <3>2, <4>1, <4>2
      <3>4. copies'[i] = copies[i]
        BY <2>1, <3>1, <3>3
      <3> QED BY <3>1, <3>2, <3>4 DEF RunInv
    <2>12. status' = "iterating"
      BY <1>1, <2>1
    <2> QED BY <1>1, <1>2, <1>3, <1>5, <2>9, <2>10, <2>11, <2>12 DEF RunInv
  <1>10. CASE NoMoreCopies
    <2>1. /\ AtTest /\ Here.duplicate /\ copies[m] >= Len(Here.tests)
          /\ index' = m /\ UNCHANGED <<status, copies, specs>>
      BY <1>10 DEF NoMoreCopies
    <2>2. Names(Here) = [k \in DOMAIN Here.tests |-> NameOf(Here.tests[k])]
      BY <2>1 DEF Names
    <2>3. Len(Part(m)) = Len(Here.tests) /\ copies[m] = Len(Here.tests)
      BY <1>6, <2>1, <2>2
    <2>4. Ran(g, index, Len(Part(m))) = Upto(g, m)
      BY <1>2, <1>4, <1>6, <2>1, RanOn
    <2>5. Run' = Run
      BY <2>1 DEF Run
    <2>6. Run' = Upto(g, m)
      BY <1>6, <2>1, <2>3, <2>4, <2>5
    <2> QED BY <1>1, <1>7, <2>1, <2>6
  <1>11. CASE NextNil
    <2>1. status' = "done" /\ index >= Len(tests) /\ UNCHANGED <<index, copies, specs>>
      BY <1>11 DEF NextNil
    <2>2. index = Len(tests) /\ ~AtTest /\ ~AtTest'
      BY <1>2, <2>1 DEF AtTest
    <2>3. Run' = Run /\ Upto(g, index)' = Upto(g, index)
      BY <1>1, <2>1, AskedStays DEF Run, Upto
    <2>4. Run' = Upto(g, index)'
      BY <1>4, <2>2, <2>3
    <2>5. \A i \in DOMAIN copies' : i > index' + 1 \/ ~tests'[i].duplicate => copies'[i] = 0
      BY <1>1, <2>1 DEF RunInv
    <2> QED BY <1>1, <1>2, <1>3, <1>5, <2>1, <2>2, <2>4, <2>5 DEF RunInv
  <1> QED BY <1>8, <1>9, <1>10, <1>11

\* The iterator returns the specs that the list asks for and no others, in the
\* order of the list; when it comes to its end it has returned them all.
THEOREM AsAsked == Spec => []RunsWhatIsAsked
  <1>1. Init /\ IInv => RunInv
    <2> SUFFICES ASSUME Init, IInv PROVE RunInv
      OBVIOUS
    <2>1. PICK g : Joined(g)
      BY AskedJoined DEF IInv, MadeInv
    <2>2. Upto(g, index) = <<>> /\ Run = <<>>
      BY RanNothing DEF Init
    <2>3. ~AtTest
      BY DEF Init, AtTest
    <2> QED BY <2>1, <2>2, <2>3 DEF Init, RunInv
  <1>2. IInv /\ RunInv /\ UNCHANGED vars => RunInv'
    <2> SUFFICES ASSUME IInv, RunInv, UNCHANGED vars PROVE RunInv'
      OBVIOUS
    <2>1. UNCHANGED <<entries, tests, status, index, copies, specs>>
      BY DEF vars
    <2>2. PICK g : /\ Joined(g)
                   /\ AtTest => Run = Ran(g, index, copies[index + 1])
                   /\ ~AtTest => Run = Upto(g, index)
      BY DEF RunInv
    <2>3. Joined(g)' /\ Run' = Run /\ AtTest' = AtTest
      BY <2>1, <2>2, AskedStays DEF Run, AtTest
    <2>4. /\ Upto(g, index)' = Upto(g, index)
          /\ Ran(g, index, copies[index + 1])' = Ran(g, index, copies[index + 1])
      BY <2>1 DEF Ran, Upto, Part
    <2>5. (\A i \in DOMAIN tests : Names(tests[i]) = Part(i))'
      BY <2>1, AskedStays DEF RunInv
    <2>6. (\A i \in DOMAIN copies : i > index + 1 \/ ~tests[i].duplicate => copies[i] = 0)'
      BY <2>1 DEF RunInv
    <2> QED BY <2>1, <2>2, <2>3, <2>4, <2>5, <2>6 DEF RunInv
  <1>3. IInv /\ IInv' /\ RunInv /\ [Next]_vars => RunInv'
    BY <1>2, BuildRun, StartRun, NextRun DEF Next
  <1>4. IInv /\ RunInv => RunsWhatIsAsked
    <2> SUFFICES ASSUME IInv, RunInv PROVE RunsWhatIsAsked
      OBVIOUS
    <2>1. PICK g : /\ Joined(g)
                   /\ AtTest => Run = Ran(g, index, copies[index + 1])
                   /\ ~AtTest => Run = Upto(g, index)
      BY DEF RunInv
    <2>2. /\ entries \in Seq(Entry) /\ tests \in Seq(Made) /\ specs \in Seq(Wanted)
          /\ index \in 0 .. Len(tests) /\ Len(tests) <= Len(entries)
      BY DEF IInv, MadeInv, IndexInv
    <2>3. Starts(Run, Asked)
      <3>1. CASE AtTest
        <4>1. index < Len(entries) /\ index + 1 \in DOMAIN tests /\ index \in 0 .. Len(entries)
          BY <2>2, <3>1 DEF AtTest
        <4>2. copies[index + 1] \in 0 .. Len(Part(index + 1))
          <5>1. DOMAIN copies = DOMAIN tests /\ copies[index + 1] \in 0 .. Len(tests[index + 1].tests)
            BY <3>1, <4>1 DEF IInv, IndexInv, AtTest
          <5>2. Names(tests[index + 1]) = Part(index + 1) /\ tests[index + 1] \in Made
            BY <2>2, <4>1 DEF RunInv
          <5>3. CASE tests[index + 1].duplicate
            <6>1. Len(Part(index + 1)) = Len(tests[index + 1].tests)
              BY <5>2, <5>3 DEF Names, Made
            <6> QED BY <5>1, <6>1
          <5>4. CASE ~tests[index + 1].duplicate
            <6>1. copies[index + 1] = 0 /\ Part(index + 1) = <<NameOf(tests[index + 1].test)>>
              BY <4>1, <5>1, <5>2, <5>4 DEF Names, RunInv
            <6> QED BY <6>1
          <5> QED BY <5>3, <5>4
        <4> QED BY <2>1, <2>2, <3>1, <4>1, <4>2, RanOn
      <3>2. CASE ~AtTest
        <4>1. index \in 0 .. Len(entries)
          BY <2>2
        <4> QED BY <2>1, <2>2, <3>2, <4>1, UptoStarts
      <3> QED BY <3>1, <3>2
    <2>4. status = "done" => Run = Asked
      BY <2>1 DEF RunInv, AtTest, Joined
    <2>5. IsPrefix(Run, Asked)
      <3>1. Run \in Seq(Name \cup {Run[i] : i \in DOMAIN Run}) /\ DOMAIN Run = DOMAIN specs
        BY <2>2 DEF Run
      <3>2. Asked \in Seq(Name)
        <4>1. Len(entries) \in 0 .. Len(entries)
          BY <2>2
        <4> QED BY <2>1, <2>2, <4>1, UptoNext DEF Joined
      <3>3. PICK r, a : r = Run /\ a = Asked
        OBVIOUS
      <3>4. PICK k \in Nat : k = Len(r) /\ DOMAIN r = 1 .. k
        BY <3>1, <3>3
      <3>5. SubSeq(r, 1, k) = r
        BY <3>1, <3>3, <3>4
      <3>6. SubSeq(a, 1, k) = r
        <4>1. k <= Len(a) /\ \A j \in 1 .. k : r[j] = a[j]
          BY <2>3, <3>3, <3>4 DEF Starts
        <4>2. SubSeq(a, 1, k) = [j \in 1 .. k |-> a[j]]
          BY <3>2, <3>3, <3>4, <4>1
        <4>3. r = [j \in 1 .. k |-> r[j]]
          BY <3>1, <3>3, <3>4
        <4> QED BY <4>1, <4>2, <4>3
      <3> QED BY <2>3, <3>3, <3>4, <3>5, <3>6 DEF IsPrefix, Starts
    <2> QED BY <2>4, <2>5 DEF RunsWhatIsAsked, Run, NameOf
  <1> QED BY <1>1, <1>3, <1>4, Invariance, PTL DEF Spec

=============================================================================
