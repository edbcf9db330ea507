----------------------------- MODULE TestBuilder -----------------------------
(***************************************************************************)
(* The chain of calls that makes a test of int_test.go: the With... and     *)
(* other builders of internal/options.go, which read the directives of the  *)
(* test, set its options or panic.  They may come in any order and more     *)
(* than once, and what one call does may depend on an earlier one.  Whether *)
(* the result is a test that works shows only when its script (TestScripts) *)
(* runs; here it runs alone, on a cluster that is empty and healthy.        *)
(* (StopAfter and ExpectError are in WorkflowExecute, DuplicateTest is in   *)
(* TestList.)                                                              *)
(***************************************************************************)
EXTENDS TestScripts

CONSTANTS
    DirectiveLists,    \* what a test may be made of: sequences of directives
    LustreNames,       \* names a persistent lustre may be given,
    GlobalNames,       \* and a global one,
    PoolNames,         \* and a pool of MGSs,
    PoolCounts,        \* and the numbers of MGSs in it
    RabbitComputes,    \* the compute nodes with a rabbit,
    ExternalComputes,  \* and those without
    MaxCopies,         \* bound on the copies a copy_out makes
    MaxCalls           \* bound on the length of the chain

\* A directive is its command, type and profile and, for a copy_out, the place
\* in the list of the directive that makes the file system copied from, for a
\* create_persistent the name of the file system.
ASSUME BuilderAssumption ==
    /\ RabbitComputes \in Nat \ {0} /\ ExternalComputes \in Nat
    /\ MaxCopies \in Nat /\ MaxCalls \in Nat
    /\ NoName \notin LustreNames \cup GlobalNames /\ PoolCounts \subseteq Nat
    /\ \A ds \in DirectiveLists :
          /\ ds \in Seq(ToSet(ds))
          /\ \A d \in ToSet(ds) :
                /\ d.command = "copy_out" => d.source \in DOMAIN ds
                /\ d.command = "create_persistent" => d.name # NoName
          /\ \A j, k \in DOMAIN ds :  \* at most one
                ds[j].command = "create_persistent" /\ ds[k].command = "create_persistent"
                   => j = k

VARIABLES
    directives,  \* t.directives
    opt,         \* t.options
    calls,       \* history: the calls that did not panic
    panicked     \* has a builder panicked?

vars == <<directives, opt, calls, panicked>>

\* The number of the call that made the persistent lustre stands for the
\* pointer to it; 0 is nil.
NoGlobal == [name |-> NoName, persistent |-> 0, in |-> FALSE, out |-> "none"]

NoOptions ==
    [storageProfile |-> NoName, settings |-> {}, containerProfile |-> NoName,
     persistentLustre |-> 0, cleanupPersistent |-> FALSE,
     mgsPool |-> [name |-> NoName, count |-> 0], globalLustre |-> NoGlobal,
     useExternalComputes |-> FALSE]

-----------------------------------------------------------------------------
(* The builders. *)

MayCall == ~panicked /\ Len(calls) < MaxCalls

Sets(c, o) ==
    /\ opt' = o
    /\ calls' = Append(calls, c)
    /\ UNCHANGED <<directives, panicked>>

Panics == panicked' = TRUE /\ UNCHANGED <<directives, opt, calls>>

\* The places of the directives that name a profile.
Profiled(commands) ==
    {k \in DOMAIN directives :
        directives[k].command \in commands /\ directives[k].profile # NoName}

\* The first of them counts.
ProfileOf(commands) == directives[Min(Profiled(commands))].profile

\* Every WithStorageProfile... starts with a new TStorageProfile.
SetProfile(o, name, set) == [o EXCEPT !.storageProfile = name, !.settings = set]

Setting == {"standaloneMgt", "externalMgs", "fromLustre", "lvCreate"}

WithStorageProfile ==
    /\ MayCall
    /\ LET commands == {"jobdw", "create_persistent"} IN
       IF Profiled(commands) = {} THEN Panics
       ELSE \E set \in {{}} \cup {{x} : x \in Setting} :
               Sets(<<"storage", set>>, SetProfile(opt, ProfileOf(commands), set))

WithContainerProfile ==
    /\ MayCall
    /\ IF Profiled({"container"}) = {} THEN Panics
       ELSE Sets(<<"container">>,
                 [opt EXCEPT !.containerProfile = ProfileOf({"container"})])

WithExternalComputes ==
    /\ MayCall
    /\ Sets(<<"computes">>, [opt EXCEPT !.useExternalComputes = TRUE])

WithPersistentLustre ==
    /\ MayCall
    /\ \E name \in LustreNames :
          Sets(<<"lustre", name>>, [opt EXCEPT !.persistentLustre = Len(calls) + 1])

Has(command) == \E d \in ToSet(directives) : d.command = command

AndCleanupPersistentInstance ==
    /\ MayCall
    /\ IF Has("create_persistent")
       THEN Sets(<<"cleanup">>, [opt EXCEPT !.cleanupPersistent = TRUE])
       ELSE Panics

WithMgsPool ==
    /\ MayCall
    /\ \E name \in PoolNames, count \in PoolCounts :
          Sets(<<"pool", name, count>>, [opt EXCEPT !.mgsPool = [name |-> name, count |-> count]])

\* Not supported yet.
WithGlobalLustre == MayCall /\ Panics

IndexMounts(type) == type \in {"gfs2", "xfs"}

\* The type that is read last before the k-th directive.
LastType(k) ==
    LET ks == {j \in 1 .. k : directives[j].type # NoName}
    IN  IF ks = {} THEN NoName ELSE directives[Max(ks)].type

CopyOuts == {k \in DOMAIN directives : directives[k].command = "copy_out"}

\* Bug variant: the type of the file system makes no difference.
OutPathStarred == IF CopyOuts = {} THEN "none" ELSE "starred"

\* Where the copies are looked for: at the path of the last copy_out, or below
\* it in the index mount directories of every compute node.
OutPath ==
    IF CopyOuts = {} THEN "none"
    ELSE IF IndexMounts(LastType(Max(CopyOuts))) THEN "starred" ELSE "plain"

FromPersistent(o, name) ==
    [o EXCEPT !.globalLustre =
        [name |-> name, persistent |-> o.persistentLustre,
         in |-> Has("copy_in"), out |-> OutPath]]

WithGlobalLustreFromPersistentLustre ==
    /\ MayCall
    /\ IF opt.persistentLustre = 0 THEN Panics
       ELSE \E name \in GlobalNames : Sets(<<"global">>, FromPersistent(opt, name))

Init ==
    /\ directives \in DirectiveLists
    /\ opt = NoOptions /\ calls = <<>> /\ panicked = FALSE

Next ==
    \/ WithStorageProfile \/ WithContainerProfile \/ WithExternalComputes
    \/ WithPersistentLustre \/ AndCleanupPersistentInstance \/ WithMgsPool
    \/ WithGlobalLustre \/ WithGlobalLustreFromPersistentLustre

Spec == Init /\ [][Next]_vars

-----------------------------------------------------------------------------
(* The options as TestScripts takes them, and the script run alone. *)

TheTest == "test"

\* The name that the persistent lustre was given by the call that made it.
LustreName ==
    IF opt.persistentLustre = 0 THEN NoName ELSE calls[opt.persistentLustre][2]

\* The name of the file system that a create_persistent directive makes.
OwnName ==
    IF Has("create_persistent")
    THEN (CHOOSE d \in ToSet(directives) : d.command = "create_persistent").name
    ELSE NoName

Options ==
    [storageProfile |-> opt.storageProfile, containerProfile |-> opt.containerProfile,
     externalMgs |-> "fromLustre" \in opt.settings,
     persistentLustre |-> LustreName,
     globalLustre |-> opt.globalLustre.name, mgsPool |-> opt.mgsPool,
     copyIn |-> opt.globalLustre.in, copyOut |-> opt.globalLustre.out # "none",
     createPersistent |-> OwnName,
     cleanupPersistent |-> opt.cleanupPersistent, teardown |-> TRUE]

FullScript(o) ==
    LET ps == When(o.copyIn, <<CopyInPod(TheTest)>>)
              \o When(o.copyOut, <<CopyOutPod(TheTest)>>)
    IN  Prepare(TheTest, o) \o Create(Workflow(TheTest)) \o Execute(TheTest, o)
        \o Teardown(TheTest, o) \o Cleanup(TheTest, o, ps)

\* A step, after which what is being deleted goes away at once.
Do(run, s) ==
    IF ~run.ok \/ ~CanDo(s, run.life) THEN [run EXCEPT !.ok = FALSE]
    ELSE LET life == After(s, run.life) IN
         [ok |-> TRUE,
          life |-> [o \in DOMAIN life |-> IF life[o] = "deleting" THEN "absent" ELSE life[o]]]

Final(o) ==
    FoldLeft(Do, [ok |-> TRUE, life |-> [obj \in Objects(TheTest, o) |-> "absent"]],
             FullScript(o))

-----------------------------------------------------------------------------
(* What VerifyCopyOut makes of the copies (copy-out.sh). *)

\* len(t.computes.Data)
Computes == RabbitComputes + (IF opt.useExternalComputes THEN ExternalComputes ELSE 0)

Digits[k \in Nat] ==
    IF k < 10 THEN <<k>> ELSE Append(Digits[k \div 10], k % 10)

\* Bug variant: the pattern and the text are swapped.
GrepSwapped(expected, lines) == Digits[lines] \in SubSeqs(Digits[expected])

\* wc -l | grep expected: the number is looked for within the count.
Grep(expected, lines) == Digits[expected] \in SubSeqs(Digits[lines])

\* ls fails if there is nothing at the path, and the script if it is not told
\* what has been copied in.
Accepts(found) ==
    /\ opt.globalLustre.in /\ found > 0
    /\ opt.globalLustre.out = "starred" => Grep(Computes, found)

\* The file system that the k-th directive, a copy_out, copies from.
SourceType(k) == directives[directives[k].source].type

\* The path looked at is where the last copy_out puts its copies.
LooksRight ==
    (opt.globalLustre.out = "starred") = IndexMounts(SourceType(Max(CopyOuts)))

-----------------------------------------------------------------------------
(* Properties. *)

\* The test gets from Prepare to the end of Cleanup, its global lustre is the
\* file system that Prepare has made, every compute node's copy is found, and
\* nothing is left behind.
Works ==
    LET o == Options
        final == Final(o) IN
    /\ final.ok /\ \A obj \in DOMAIN final.life : final.life[obj] = "absent"
    /\ o.globalLustre # NoName => opt.globalLustre.persistent = opt.persistentLustre
    /\ o.copyOut => LooksRight /\ Accepts(Computes)

Called(c) == {k \in DOMAIN calls : calls[k][1] = c}

\* The setting of the last call of WithStorageProfile or one of its kind.
LastSetting == calls[Max(Called("storage"))][2]

\* What the calls have to be like for that, whatever their order otherwise:
\* a profile with the MGS of the persistent lustre needs one, a persistent
\* lustre is not replaced under the global one, a pool that is not empty has not
\* the name of the storage profile, the file system of a directive is cleaned up
\* and has not the name of the persistent lustre, and with a global lustre a
\* copy_out needs a copy_in and, the last one, no other type of file system
\* between itself and its own.
Sound ==
    /\ Called("storage") # {} /\ LastSetting = {"fromLustre"} => Called("lustre") # {}
    /\ Called("global") # {} =>
          /\ \A k \in Called("lustre") : k < Max(Called("global"))
          /\ Has("copy_out") => Has("copy_in")
          /\ LET k == Max(CopyOuts) IN
             CopyOuts # {} => IndexMounts(LastType(k)) = IndexMounts(SourceType(k))
    /\ Called("storage") # {} /\ Called("pool") # {} =>
          LET pool == calls[Max(Called("pool"))] IN pool[3] > 0 => opt.storageProfile # pool[2]
    /\ Has("create_persistent") =>
          /\ Called("cleanup") # {}
          /\ Called("lustre") # {} => calls[Max(Called("lustre"))][2] # OwnName

\* Of all chains of calls that do not panic, exactly the sound ones make a test
\* that works: the builders give no other combination away.  And none makes
\* options that Prepare and Cleanup cannot be written out for.
WorksIffSound == ~panicked => WellFormed(Options) /\ (Works <=> Sound)

\* However loosely the copies are counted, too few of them are never enough.
MissingCopiesNoticed ==
    opt.globalLustre.out = "starred" =>
        \A found \in 0 .. MaxCopies : Accepts(found) => found >= Computes
=============================================================================
