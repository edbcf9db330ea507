------------------------------- MODULE Suite -------------------------------
(***************************************************************************)
(* Runs of the whole suite, one after the other, on one cluster: what      *)
(* BeforeSuite checks on every process before the first spec               *)
(* (suite_test.go), how FailHandler closes the cluster for later runs      *)
(* until somebody has looked at it (internal/system.go), and the pods with *)
(* which VerifyUserOnRabbit looks for the test user (internal/utils.go).   *)
(* A run may be interrupted at any point; "make clean" sweeps up after it. *)
(***************************************************************************)
EXTENDS Naturals

CONSTANTS
    Proc,       \* the Ginkgo processes
    NumRabbits, \* length of systemConfig.Spec.StorageNodes
    MaxRuns,    \* bound on the number of runs
    NoRun       \* not a run

ASSUME SuiteAssumption ==
    /\ NumRabbits \in Nat \ {0} /\ MaxRuns \in Nat
    /\ NoRun \notin Nat

VARIABLES
    pc,        \* where each process is
    at,        \* the rabbit its loop over the rabbits has come to
    missing,   \* has it found the user missing on some rabbit?
    outcome,   \* how the run ended for it
    run,       \* number of the current run
    ignore,    \* its --ignore-reservation
    faulty,    \* may a call fail, or a time-out expire?
    triage,    \* does the namespace "nnf-system-needs-triage" exist?
    namespace, \* how much of an authorized developer's name the name of some namespace
               \* has: the "first name", with the last or without, at its start, alone
               \* or before "more", or somewhere "within"
    users,     \* the rabbits that know the user
    pod,       \* the state of pod verify-uid-<uid>-<rabbit>, for each rabbit
    podOwner,  \* history: the process that made it
    closedIn,  \* history: the run that closed the cluster, NoRun if none has
    swept,     \* history: has nothing been interrupted since the last sweep?
    heldOff    \* history: had a developer reserved it when the run started?

procVars    == <<pc, at, missing, outcome>>
runVars     == <<run, ignore, faulty>>
clusterVars == <<triage, namespace, users, pod, podOwner>>
vars == <<procVars, runVars, clusterVars, closedIn, swept, heldOff>>

Rabbit == 1 .. NumRabbits
Gate   == {"boot", "triage", "reservation"}
Verify == {"create", "wait", "delete", "gone", "report"}
Ended  == {"idle", "ended"}

Active == {p \in Proc : pc[p] \notin Ended}

-----------------------------------------------------------------------------
(* The ends of a process. *)

Moves(p, to) ==
    /\ pc' = [pc EXCEPT ![p] = to]
    /\ UNCHANGED <<at, missing, outcome>>

Ends(p, how) ==
    /\ pc' = [pc EXCEPT ![p] = "ended"]
    /\ outcome' = [outcome EXCEPT ![p] = how]
    /\ UNCHANGED <<at, missing>>

\* A namespace that exists already is as good as a new one; another error is
\* logged and forgotten.
SetSystemInNeedOfTriage ==
    \/ triage' = TRUE
    \/ faulty /\ triage' = triage

\* The handler of every failed assertion, once there is a client.
FailHandler(p) ==
    /\ Ends(p, "failed")
    /\ SetSystemInNeedOfTriage
    /\ closedIn' = IF triage' /\ closedIn = NoRun THEN run ELSE closedIn

AbortSuite(p) == Ends(p, "aborted") /\ UNCHANGED <<triage, closedIn>>

-----------------------------------------------------------------------------
(* BeforeSuite. *)

\* Without a client the handler leaves the cluster as it is.
Boot(p) ==
    /\ pc[p] = "boot"
    /\ \/ Moves(p, "triage")
       \/ faulty /\ Ends(p, "failed")
    /\ UNCHANGED <<clusterVars, runVars, closedIn, swept, heldOff>>

\* What the Get of the namespace may return.
TriageGet == {IF triage THEN "found" ELSE "not found"} \cup {e \in {"error"} : faulty}

\* As IsSystemInNeedOfTriage, were an error taken for an absent namespace.
TriageFound(reply) == reply = "found"

IsSystemInNeedOfTriage(reply) == reply # "not found"

CheckTriage(p) ==
    /\ pc[p] = "triage"
    /\ \E reply \in TriageGet :
          IF IsSystemInNeedOfTriage(reply)
          THEN AbortSuite(p)
          ELSE /\ Moves(p, IF ignore THEN "create" ELSE "reservation")
               /\ UNCHANGED <<triage, closedIn>>
    /\ UNCHANGED <<namespace, users, pod, podOwner, runVars, swept, heldOff>>

\* As isReserved, had the pattern an end.
IsReservedToEnd == namespace \in {"first name", "full name"}

\* The pattern "^(first-?(last|l)?)" has a start but no end.
IsReserved == namespace \notin {"none", "within"}

\* What the comment on the pattern and the names in its test call a reservation.
Reservation == {"first name", "full name", "first name and more"}

CheckReservation(p) ==
    /\ pc[p] = "reservation"
    /\ \/ IsReserved /\ AbortSuite(p)
       \/ ~IsReserved /\ Moves(p, "create") /\ UNCHANGED <<triage, closedIn>>
       \/ faulty /\ FailHandler(p)
    /\ UNCHANGED <<namespace, users, pod, podOwner, runVars, swept, heldOff>>

-----------------------------------------------------------------------------
(* VerifyUserOnRabbit, for one rabbit after the other. *)

\* Every process gives the pod of a rabbit the same name.
VerifyCreate(p) ==
    /\ pc[p] = "create"
    /\ pod[at[p]] = "absent"
    /\ Moves(p, "wait")
    /\ pod' = [pod EXCEPT ![at[p]] = "running"]
    /\ podOwner' = [podOwner EXCEPT ![at[p]] = p]
    /\ UNCHANGED <<triage, namespace, users, runVars, closedIn, swept, heldOff>>

\* As VerifyWait, were the phase of the pod not looked at.
VerifyWaitAny(p) ==
    /\ pc[p] = "wait"
    /\ pod[at[p]] \in {"succeeded", "failed"}
    /\ Moves(p, "delete")
    /\ UNCHANGED <<clusterVars, runVars, closedIn, swept, heldOff>>

VerifyWait(p) ==
    /\ pc[p] = "wait"
    /\ pod[at[p]] \in {"succeeded", "failed"}
    /\ pc' = [pc EXCEPT ![p] = "delete"]
    /\ missing' = [missing EXCEPT ![p] = @ \/ pod[at[p]] = "failed"]
    /\ UNCHANGED <<at, outcome, clusterVars, runVars, closedIn, swept, heldOff>>

\* As VerifyDelete, had the pod been left for somebody else to delete.
VerifyDeleteNot(p) ==
    /\ pc[p] = "delete"
    /\ Moves(p, "gone")
    /\ pod[at[p]] # "absent"
    /\ UNCHANGED <<clusterVars, runVars, closedIn, swept, heldOff>>

VerifyDelete(p) ==
    /\ pc[p] = "delete"
    /\ pod[at[p]] # "absent"
    /\ Moves(p, "gone")
    /\ pod' = [pod EXCEPT ![at[p]] = "deleting"]
    /\ UNCHANGED <<triage, namespace, users, podOwner, runVars, closedIn, swept, heldOff>>

\* As VerifyGone, with the end of the loop one rabbit too late.
VerifyGonePast(p) ==
    /\ pc[p] = "gone"
    /\ pod[at[p]] = "absent" \/ faulty
    /\ pc' = [pc EXCEPT ![p] = IF at[p] <= NumRabbits THEN "create" ELSE "report"]
    /\ at' = [at EXCEPT ![p] = @ + 1]
    /\ UNCHANGED <<missing, outcome, clusterVars, runVars, closedIn, swept, heldOff>>

\* WaitForDeletion takes any error of Get for the end of the pod.
VerifyGone(p) ==
    /\ pc[p] = "gone"
    /\ pod[at[p]] = "absent" \/ faulty
    /\ pc' = [pc EXCEPT ![p] = IF at[p] < NumRabbits THEN "create" ELSE "report"]
    /\ at' = [at EXCEPT ![p] = IF @ < NumRabbits THEN @ + 1 ELSE @]
    /\ UNCHANGED <<missing, outcome, clusterVars, runVars, closedIn, swept, heldOff>>

VerifyReport(p) ==
    /\ pc[p] = "report" /\ ~missing[p]
    /\ Moves(p, "specs")
    /\ UNCHANGED <<clusterVars, runVars, closedIn, swept, heldOff>>

\* As VerifyFails, were a Create that finds its name taken tried again for ever.
VerifyFailsButCreate(p) ==
    /\ pc[p] # "create"
    /\ \/ pc[p] \in {"wait", "delete"} /\ pod[at[p]] = "absent"
       \/ pc[p] = "report" /\ missing[p]
       \/ pc[p] \in Verify \ {"report"} /\ faulty
    /\ FailHandler(p)
    /\ UNCHANGED <<namespace, users, pod, podOwner, runVars, swept, heldOff>>

\* A name that is taken, a user that is missing, on a faulty cluster any call.
VerifyFails(p) ==
    /\ \/ pc[p] = "create" /\ pod[at[p]] # "absent"
       \/ pc[p] \in {"wait", "delete"} /\ pod[at[p]] = "absent"
       \/ pc[p] = "report" /\ missing[p]
       \/ pc[p] \in Verify \ {"report"} /\ faulty
    /\ FailHandler(p)
    /\ UNCHANGED <<namespace, users, pod, podOwner, runVars, swept, heldOff>>

-----------------------------------------------------------------------------
(* The specs, and the end of the run. *)

SpecsPass(p) ==
    /\ pc[p] = "specs"
    /\ Ends(p, "passed")
    /\ UNCHANGED <<clusterVars, runVars, closedIn, swept, heldOff>>

SpecFails(p) ==
    /\ pc[p] = "specs" /\ faulty
    /\ FailHandler(p)
    /\ UNCHANGED <<namespace, users, pod, podOwner, runVars, swept, heldOff>>

\* --fail-fast or AbortSuite on another process (external, Ginkgo): the pod of
\* the moment stays.
Aborted(p) ==
    /\ p \in Active
    /\ \E q \in Proc : outcome[q] \in {"failed", "aborted"}
    /\ AbortSuite(p)
    /\ swept' = (swept /\ pc[p] \notin Verify)
    /\ UNCHANGED <<namespace, users, pod, podOwner, runVars, heldOff>>

ProcStep(p) ==
    \/ Boot(p) \/ CheckTriage(p) \/ CheckReservation(p)
    \/ VerifyCreate(p) \/ VerifyWait(p) \/ VerifyDelete(p) \/ VerifyGone(p)
    \/ VerifyReport(p) \/ VerifyFails(p)
    \/ SpecsPass(p) \/ SpecFails(p) \/ Aborted(p)

-----------------------------------------------------------------------------
(* The people at the cluster. *)

StartRun ==
    /\ Active = {} /\ run < MaxRuns
    /\ run' = run + 1
    /\ ignore' \in BOOLEAN
    /\ pc' = [p \in Proc |-> "boot"]
    /\ at' = [p \in Proc |-> 1]
    /\ missing' = [p \in Proc |-> FALSE]
    /\ outcome' = [p \in Proc |-> "none"]
    /\ heldOff' = (namespace \in Reservation)
    /\ UNCHANGED <<faulty, clusterVars, closedIn, swept>>

\* The processes are killed and leave the cluster as it is.
Interrupt ==
    /\ Active # {}
    /\ pc' = [p \in Proc |-> "ended"]
    /\ swept' = FALSE
    /\ UNCHANGED <<at, missing, outcome, clusterVars, runVars, closedIn, heldOff>>

\* make clean, when the pods were not known to be left behind.
CleanTriageOnly ==
    /\ Active = {}
    /\ triage' = FALSE /\ closedIn' = NoRun /\ swept' = TRUE
    /\ UNCHANGED <<procVars, namespace, users, pod, podOwner, runVars, heldOff>>

\* make clean: kubectl delete returns when the objects are gone.
Clean ==
    /\ Active = {}
    /\ triage' = FALSE /\ closedIn' = NoRun /\ swept' = TRUE
    /\ pod' = [r \in Rabbit |-> "absent"]
    /\ UNCHANGED <<procVars, namespace, users, podOwner, runVars, heldOff>>

\* A developer comes when he likes, and leaves between two runs; so does somebody
\* whose namespace has a developer's name within its own.
Reserve ==
    /\ namespace = "none" /\ namespace' \in Reservation \cup {"within"}
    /\ UNCHANGED <<procVars, triage, users, pod, podOwner, runVars, closedIn, swept, heldOff>>

Release ==
    /\ Active = {} /\ namespace # "none" /\ namespace' = "none"
    /\ UNCHANGED <<procVars, triage, users, pod, podOwner, runVars, closedIn, swept, heldOff>>

-----------------------------------------------------------------------------
(* The cluster (external). *)

PodEnds(r) ==
    /\ pod[r] = "running"
    /\ pod' = [pod EXCEPT ![r] = IF r \in users THEN "succeeded" ELSE "failed"]
    /\ UNCHANGED <<procVars, triage, namespace, users, podOwner, runVars, closedIn, swept, heldOff>>

PodVanishes(r) ==
    /\ pod[r] = "deleting"
    /\ pod' = [pod EXCEPT ![r] = "absent"]
    /\ UNCHANGED <<procVars, triage, namespace, users, podOwner, runVars, closedIn, swept, heldOff>>

-----------------------------------------------------------------------------
Init ==
    /\ pc = [p \in Proc |-> "idle"]
    /\ at = [p \in Proc |-> 1]
    /\ missing = [p \in Proc |-> FALSE]
    /\ outcome = [p \in Proc |-> "none"]
    /\ run = 0 /\ ignore = FALSE /\ faulty \in BOOLEAN
    /\ triage \in BOOLEAN /\ namespace \in {"none", "within"} \cup Reservation
    /\ users \in {Rabbit} \cup {Rabbit \ {r} : r \in Rabbit}
    /\ pod = [r \in Rabbit |-> "absent"]
    /\ podOwner \in [Rabbit -> Proc]
    /\ closedIn = IF triage THEN 0 ELSE NoRun
    /\ swept = TRUE
    /\ heldOff = FALSE

People == StartRun \/ Interrupt \/ Clean \/ Reserve \/ Release

Next ==
    \/ \E p \in Proc : ProcStep(p)
    \/ People
    \/ \E r \in Rabbit : PodEnds(r) \/ PodVanishes(r)

Spec == Init /\ [][Next]_vars

\* The processes and the pods go on; people may stay away.
FairSpec ==
    /\ Spec
    /\ \A p \in Proc : WF_vars(ProcStep(p))
    /\ \A r \in Rabbit : WF_vars(PodEnds(r)) /\ WF_vars(PodVanishes(r))

-----------------------------------------------------------------------------
(* Properties. *)

\* Every process is at a step of BeforeSuite, in the specs or at an end, and its
\* loop is at a rabbit.
TypeOK ==
    /\ pc \in [Proc -> Gate \cup Verify \cup Ended \cup {"specs"}]
    /\ at \in [Proc -> Rabbit]
    /\ missing \in [Proc -> BOOLEAN]
    /\ outcome \in [Proc -> {"none", "passed", "failed", "aborted"}]
    /\ run \in 0 .. MaxRuns /\ ignore \in BOOLEAN /\ faulty \in BOOLEAN
    /\ triage \in BOOLEAN /\ namespace \in {"none", "within"} \cup Reservation
    /\ users \in SUBSET Rabbit
    /\ pod \in [Rabbit -> {"absent", "running", "succeeded", "failed", "deleting"}]
    /\ podOwner \in [Rabbit -> Proc]
    /\ closedIn \in 0 .. MaxRuns \cup {NoRun}
    /\ swept \in BOOLEAN /\ heldOff \in BOOLEAN

\* Once a failure has closed the cluster for triage, no later run makes a pod
\* or starts a spec on any process, until somebody has deleted the namespace:
\* neither an error of the Get nor an interrupted run in between opens it.
ClosedUntilTriaged ==
    \A p \in Proc : pc[p] \in Verify \cup {"specs"} => closedIn \in {NoRun, run}

\* On a cluster that is reserved when the run starts, by a namespace that has a
\* developer's first name or starts with it and goes on, and whose reservation is
\* not to be ignored, no process makes a pod or starts a spec.
ReservationRespected ==
    heldOff /\ ~ignore => \A p \in Proc : pc[p] \notin Verify \cup {"specs"}

\* A process runs specs only if the user exists on every rabbit, although the
\* pods that say so have the same names on every process.
UserVerified == \A p \in Proc : pc[p] = "specs" => users = Rabbit

\* A process that gets to its specs has left no pod behind for the others, and
\* for later runs, to stumble over.
PodsTidiedUp ==
    \A p \in Proc : pc[p] = "specs" => \A r \in Rabbit :
        podOwner[r] = p => pod[r] \in {"absent", "deleting"}

\* On a healthy cluster that knows the user, whatever was interrupted before the
\* last sweep, the suite fails on no process.
HealthyRunPasses ==
    [][\A p \in Proc :
          ~faulty /\ swept /\ users = Rabbit /\ outcome'[p] = "failed" => outcome[p] = "failed"]_vars

\* ... and where there are several processes, one fails only if another has got
\* to its own pods in the same run: a pod left by an interrupted run is swept up
\* by make clean, and one of its own is never in a process's way.
FailsOnlyForOthers ==
    [][\A p \in Proc :
          ~faulty /\ swept /\ users = Rabbit /\ outcome[p] # "failed" /\ outcome'[p] = "failed"
             => \E q \in Proc \ {p} : pc[q] \in Verify \cup {"specs", "ended"}]_vars

\* Every run ends on every process, without the help of a time-out: no process
\* waits for the pod of another for ever.
RunEnds == []<>(Active = {})
=============================================================================
