------------------------------ MODULE TestList ------------------------------
(***************************************************************************)
(* From the list of tests in int_test.go to the specs that Ginkgo runs:    *)
(* MakeTest and the builders, DuplicateTest, and the iterator over the     *)
(* list (internal/internal.go).                                            *)
(*                                                                         *)
(* A test is its directives (only the commands), its options (only their   *)
(* names) and the index of the copy it is.  An entry of the list is a test,*)
(* with the number of copies that DuplicateTest makes of it.               *)
(***************************************************************************)
EXTENDS Naturals, SequencesExt

CONSTANTS
    Entry,     \* the entries that a list may have
    MaxLength, \* bound on the length of a list
    NoCount,   \* the entry is not duplicated
    NoCopy     \* the test is not a copy

ASSUME ListAssumption ==
    /\ MaxLength \in Nat /\ NoCount \notin Nat /\ NoCopy \notin Nat
    /\ \A e \in Entry : e.count \in Nat \cup {NoCount}

VARIABLES
    entries,  \* the list as it is written down
    tests,    \* the tests built so far, with their duplicates
    status,   \* "building", "iterating", "done" or "panicked"
    index,    \* itr.index
    copies,   \* t.options.duplicate.index of each test
    specs     \* what the iterator has returned

vars == <<entries, tests, status, index, copies, specs>>

-----------------------------------------------------------------------------
(* Building the tests. *)

\* MakeTest, with no options.
Bare(directives, name, copy) ==
    [directives |-> directives, name |-> name, copy |-> copy, options |-> {}]

\* MakeTest and the builders of the entry at i.
Built(i) ==
    LET e == entries[i] IN
    [Bare(e.directives, i, NoCopy) EXCEPT !.options = e.options]

hasComplexOptions(t) ==
    t.options \cap {"storageProfile", "containerProfile", "persistentLustre",
                    "globalLustre", "cleanupPersistent"} # {}

DuplicatePanics(t) ==
    Len(t.directives) # 1 \/ hasComplexOptions(t) \/ t.directives # <<"jobdw">>

\* As Copy, without the options.
CopyBare(t, k) == Bare(t.directives, t.name, k)

\* A copy is a new test with the options of the old one.
Copy(t, k) == [Bare(t.directives, t.name, k) EXCEPT !.options = t.options]

\* A test of the list: what it is, and its copies if it has any.
Plain(t)             == [test |-> t, duplicate |-> FALSE, tests |-> <<>>]
DuplicateTest(t, no) == [test |-> t, duplicate |-> TRUE,
                         tests |-> [k \in 1 .. no |-> Copy(t, k - 1)]]

Build ==
    LET i == Len(tests) + 1 IN
    /\ status = "building" /\ i <= Len(entries)
    /\ IF entries[i].count # NoCount /\ DuplicatePanics(Built(i))
       THEN status' = "panicked" /\ UNCHANGED tests
       ELSE /\ tests' = Append(tests, IF entries[i].count = NoCount
                                      THEN Plain(Built(i))
                                      ELSE DuplicateTest(Built(i), entries[i].count))
            /\ UNCHANGED status
    /\ UNCHANGED <<entries, index, copies, specs>>

TestIterator ==
    /\ status = "building" /\ Len(tests) = Len(entries)
    /\ status' = "iterating"
    /\ copies' = [i \in DOMAIN tests |-> 0]
    /\ UNCHANGED <<entries, tests, index, specs>>

-----------------------------------------------------------------------------
(* The iterator: Next, one turn of its recursion a step. *)

AtTest == status = "iterating" /\ index < Len(tests)
Here   == tests[index + 1]

\* As NextPlain, had the index been raised twice.
NextPlainTwice ==
    /\ AtTest /\ ~Here.duplicate
    /\ specs' = Append(specs, Here.test)
    /\ index' = index + 2
    /\ UNCHANGED <<entries, tests, status, copies>>

NextPlain ==
    /\ AtTest /\ ~Here.duplicate
    /\ specs' = Append(specs, Here.test)
    /\ index' = index + 1
    /\ UNCHANGED <<entries, tests, status, copies>>

\* As NextCopy, had the index been raised before the copy is taken.
NextCopySkips ==
    /\ AtTest /\ Here.duplicate
    /\ copies[index + 1] + 1 < Len(Here.tests)
    /\ copies' = [copies EXCEPT ![index + 1] = @ + 1]
    /\ specs' = Append(specs, Here.tests[copies'[index + 1] + 1])
    /\ UNCHANGED <<entries, tests, status, index>>

NextCopy ==
    /\ AtTest /\ Here.duplicate
    /\ copies[index + 1] < Len(Here.tests)
    /\ copies' = [copies EXCEPT ![index + 1] = @ + 1]
    /\ specs' = Append(specs, Here.tests[copies'[index + 1]])
    /\ UNCHANGED <<entries, tests, status, index>>

\* As NoMoreCopies, had the index been left where it is.
NoMoreCopiesStays ==
    /\ AtTest /\ Here.duplicate
    /\ copies[index + 1] >= Len(Here.tests)
    /\ UNCHANGED vars

NoMoreCopies ==
    /\ AtTest /\ Here.duplicate
    /\ copies[index + 1] >= Len(Here.tests)
    /\ index' = index + 1
    /\ UNCHANGED <<entries, tests, status, copies, specs>>

NextNil ==
    /\ status = "iterating" /\ index >= Len(tests)
    /\ status' = "done"
    /\ UNCHANGED <<entries, tests, index, copies, specs>>

-----------------------------------------------------------------------------
Init ==
    /\ entries \in BoundedSeq(Entry, MaxLength)
    /\ tests = <<>> /\ copies = <<>> /\ specs = <<>>
    /\ status = "building"
    /\ index = 0

Next == Build \/ TestIterator \/ NextPlain \/ NextCopy \/ NoMoreCopies \/ NextNil

Spec == Init /\ [][Next]_vars

\* The program goes on.
FairSpec == Spec /\ WF_vars(Next)

-----------------------------------------------------------------------------
(* Properties. *)

\* The indices stay within the list and within the copies.
TypeOK ==
    /\ status \in {"building", "iterating", "done", "panicked"}
    /\ Len(tests) <= Len(entries) /\ index \in 0 .. Len(tests)
    /\ \A i \in DOMAIN copies : copies[i] \in 0 .. Len(tests[i].tests)

\* The specs that the list asks for, by entry and copy, in order.
Asked ==
    FlattenSeq([i \in DOMAIN entries |->
        IF entries[i].count = NoCount
        THEN << <<i, NoCopy>> >>
        ELSE [k \in 1 .. entries[i].count |-> <<i, k - 1>>]])

\* Every test of the list that is not duplicated is run once, every duplicated
\* one as often as asked under as many names and never under its own, and all
\* in the order of the list, however entries of either kind follow each other.
RunsWhatIsAsked ==
    LET run == [i \in DOMAIN specs |-> <<specs[i].name, specs[i].copy>>] IN
    /\ IsPrefix(run, Asked)
    /\ status = "done" => run = Asked

\* A copy stops, delays and errs where its original would.
CopiesBehaveAlike ==
    \A i \in DOMAIN specs :
        /\ specs[i].options = entries[specs[i].name].options
        /\ specs[i].directives = entries[specs[i].name].directives

\* The iterator comes to its end, past any run of exhausted duplicates.
IteratorEnds == <>(status \in {"done", "panicked"})

\* "Duplicating a test with options is not possible since those options take
\* parameters that are unique to the test": no two specs are to make an object
\* of one name.
UniqueParametersRefused ==
    \A i, j \in DOMAIN specs : specs[i].name = specs[j].name /\ i # j =>
        specs[i].options \cap {"storageProfile", "containerProfile", "persistentLustre",
                               "globalLustre", "cleanupPersistent", "mgsPool"} = {}
=============================================================================
