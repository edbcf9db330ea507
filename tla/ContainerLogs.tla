--------------------------- MODULE ContainerLogs ---------------------------
(***************************************************************************)
(* What a spec does with the logs of its container pods: postRun looks in  *)
(* those of an MPI test for errors of ssh, and ReportAfterEach collects    *)
(* those of every failed container test (internal/utils.go, states.go and  *)
(* int_test.go).  The pods of all workflows are in one namespace and come  *)
(* and go meanwhile.  A name is the sequence of its parts between dashes.  *)
(***************************************************************************)
EXTENDS FiniteSets, SequencesExt

CONSTANTS
    Pods,      \* records: name, container (has it the container label?),
               \* workflow (what its labels say)
    Own,       \* the name of the workflow of the spec
    Nodes,     \* the names of the nodes that containers run on
    Container, \* the containers of each pod
    MaxBad     \* bound on the logs that have an error of ssh

\* What the MPI operator adds to the name of the workflow for its pods (external).
Roles == {"launcher", "worker"}

\* The first part of the name of a pod after that of its workflow.
Role(pod) == pod.name[Len(pod.workflow) + 1]

\* A pod is named for its workflow; only container pods have a role, and nothing
\* else in a name, not in that of a workflow either, looks like one.
ASSUME PodNames ==
    /\ Own \in Seq(STRING)
    /\ \A p \in Pods :
          /\ p.name \in Seq(STRING) /\ p.workflow \in Seq(STRING)
          /\ Len(p.workflow) < Len(p.name) /\ IsPrefix(p.workflow, p.name)
          /\ \A i \in DOMAIN p.name :
                p.name[i] \in Roles => p.container /\ i = Len(p.workflow) + 1

VARIABLES
    kind,    \* of container that the directives ask for: "mpi", "other", "none"
    expects, \* does the test expect an error?
    pc,      \* where the spec is
    alive,   \* the pods that there are
    bad,     \* the logs in which ssh has left an error
    todo,    \* the logs still to be read
    unread,  \* history: the logs that could not be read
    listed,  \* history: the pods that VerifyContainerPodLogs has found
    present, \* history: those of the workflow itself that there were then
    blamed,  \* the pods that are blamed for an error
    report   \* the pods in the report

test  == <<kind, expects, bad>>
found == <<listed, present>>
vars  == <<test, pc, alive, todo, unread, found, blamed, report>>

Logs  == Pods \X Container
OwnPods == {p \in Pods : p.container /\ p.workflow = Own}

-----------------------------------------------------------------------------
(* findContainerPods. *)

\* NNF_CONTAINER_HOSTNAMES as the system sets it (external).
Hostnames ==
    IF kind = "mpi" THEN {Own \o <<role>> : role \in Roles} ELSE Nodes

\* As Matches, had the launcher no suffix.
MatchesWhole(name, hostname) == name = hostname

\* A worker has the name of its host, the launcher a suffix after it.
Matches(name, hostname) == IsPrefix(hostname, name)

ByHostname == {p \in alive : \E h \in Hostnames : Matches(p.name, h)}
ByLabel    == {p \in alive : p.container /\ p.workflow = Own}

\* As FindContainerPods, did the names of the hosts alone decide.
FindByHostname == ByHostname

\* Only an MPI workflow has a launcher; the other hostnames are those of nodes.
FindContainerPods == IF kind = "mpi" THEN ByHostname ELSE ByLabel

-----------------------------------------------------------------------------
(* The end of postRun. *)

Fails == pc' = "failed" /\ UNCHANGED <<test, alive, todo, unread, found, report>>

\* The workflow gets to PostRun, or to the error that is asked for.
PostRun ==
    /\ pc = "postRun"
    /\ pc' = IF kind = "mpi" /\ ~expects THEN "verify" ELSE "passed"
    /\ UNCHANGED <<test, alive, todo, unread, found, blamed, report>>

\* It does not; or a Get or a List fails.
CallFails == pc \in {"postRun", "verify"} /\ Fails /\ UNCHANGED blamed

\* VerifyContainerPodLogs: the pods are listed once.
VerifyContainerPodLogs ==
    /\ pc = "verify"
    /\ listed' = FindContainerPods /\ present' = alive \cap OwnPods
    /\ pc' = IF listed' = {} THEN "failed" ELSE "read"
    /\ todo' = listed' \X Container
    /\ UNCHANGED <<test, alive, unread, blamed, report>>

ReadClean ==
    /\ pc = "read"
    /\ \E log \in todo : log[1] \in alive /\ log \notin bad /\ todo' = todo \ {log}
    /\ UNCHANGED <<test, pc, alive, unread, found, blamed, report>>

ReadBad ==
    /\ pc = "read"
    /\ \E log \in todo \cap bad : log[1] \in alive /\ blamed' = {log[1]}
    /\ Fails

\* As ReadNot, did one unreadable log end the reading.
ReadNotNext ==
    /\ pc = "read"
    /\ \E log \in todo : unread' = unread \cup {log} /\ todo' = {}
    /\ UNCHANGED <<test, pc, alive, found, blamed, report>>

\* The pod is gone, or kubectl fails: a warning, and on to the next.
ReadNot ==
    /\ pc = "read"
    /\ \E log \in todo : unread' = unread \cup {log} /\ todo' = todo \ {log}
    /\ UNCHANGED <<test, pc, alive, found, blamed, report>>

Verified ==
    /\ pc = "read" /\ todo = {}
    /\ pc' = "passed"
    /\ UNCHANGED <<test, alive, todo, unread, found, blamed, report>>

\* ReportContainerPodLogs: a log that cannot be read is named all the same.
ReportContainerPodLogs ==
    /\ pc = "failed"
    /\ pc' = "reported"
    /\ report' = IF kind = "none" THEN {} ELSE FindContainerPods
    /\ UNCHANGED <<test, alive, todo, unread, found, blamed>>

\* The workflow cannot be got, or the pods cannot be listed.
ReportFails ==
    /\ pc = "failed"
    /\ pc' = "lost"
    /\ UNCHANGED <<test, alive, todo, unread, found, blamed, report>>

Check == ReadClean \/ ReadBad \/ ReadNot \/ Verified
Go == PostRun \/ CallFails \/ VerifyContainerPodLogs \/ Check \/ ReportContainerPodLogs \/ ReportFails

\* The pods of all the workflows (external).
PodComes == \E p \in Pods \ alive : alive' = alive \cup {p}
PodGoes  == \E p \in alive : alive' = alive \ {p}

Next ==
    \/ Go
    \/ /\ PodComes \/ PodGoes
       /\ UNCHANGED <<test, pc, todo, unread, found, blamed, report>>

Init ==
    /\ kind \in {"mpi", "other", "none"} /\ expects \in BOOLEAN
    /\ bad \in {b \in SUBSET Logs : Cardinality(b) <= MaxBad}
    /\ pc = "postRun" /\ alive = Pods
    /\ todo = {} /\ unread = {} /\ listed = {} /\ present = {} /\ blamed = {} /\ report = {}

Spec == Init /\ [][Next]_vars

-----------------------------------------------------------------------------
(* Properties. *)

\* An MPI test that passes, and that expects no error, has found pods; and if
\* ssh has left an error in a log of one of its own, launcher or worker, that was
\* there when the pods were listed, it is because that very log could not be
\* read: neither the launcher's suffix nor an unreadable log before it hides it.
ErrorsCaught ==
    pc = "passed" /\ kind = "mpi" /\ ~expects =>
        /\ listed # {}
        /\ \A log \in bad : log[1] \in present => log \in unread

\* The pods whose logs are verified, and those in the report of a failed container
\* test, MPI or not, are just those of the workflow itself that there are: none of
\* another's, though its name starts the same, and none with a suffix is missed.
OwnPodsOnly ==
    [][ /\ pc = "verify" /\ pc' = "read" => listed' = alive \cap OwnPods
        /\ pc = "failed" /\ pc' = "reported" /\ kind # "none" => report' = alive \cap OwnPods]_vars
=============================================================================
