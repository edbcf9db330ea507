------------------------- MODULE ContainerLogs_proofs -------------------------
(***************************************************************************)
(* Whatever pods and containers there are, however they come and go and    *)
(* whichever logs cannot be read, an MPI spec that passes has read every   *)
(* log that could be read, and found it clean.                             *)
(***************************************************************************)
EXTENDS ContainerLogs, SequenceTheorems, TLAPS

-----------------------------------------------------------------------------
(* The inductive invariant. *)

\* Logs are read only of pods that have been found, and all of them before the
\* spec passes.
TypeOK ==
    /\ pc \in {"postRun", "verify", "read", "passed", "failed", "reported", "lost"}
    /\ alive \subseteq Pods /\ blamed \subseteq listed /\ report \subseteq Pods
    /\ todo \cup unread \subseteq listed \X Container
    /\ pc = "passed" => todo = {}

\* Before the pods are listed nothing is read or blamed.
FreshInv ==
    pc \in {"postRun", "verify"} => todo = {} /\ unread = {} /\ blamed = {}

\* An MPI spec that need not fail passes only by the way of VerifyContainerPodLogs,
\* and has found pods then.
FoundInv == pc = "read" \/ (pc = "passed" /\ kind = "mpi" /\ ~expects) => listed # {}

\* Of the logs of the pods that were found, one with an error is still to be read or
\* could not be read: one that was read would have ended the spec.
BadInv ==
    pc = "read" \/ (pc = "passed" /\ kind = "mpi" /\ ~expects) =>
        \A log \in bad : log[1] \in listed => log \in todo \cup unread

BadAreLogs == bad \subseteq Logs

IInv == TypeOK /\ FreshInv /\ FoundInv /\ BadInv /\ BadAreLogs

-----------------------------------------------------------------------------
(* Every step preserves it. *)

\* Only pods that are there are found.
LEMMA FoundAlive == FindContainerPods \subseteq alive
  BY DEF FindContainerPods, ByHostname, ByLabel

LEMMA TypeStep == ASSUME TypeOK, FreshInv, [Next]_vars PROVE TypeOK'
  <1> USE DEF TypeOK, found
  <1>1. CASE PostRun
    BY <1>1 DEF PostRun, test, FreshInv
  <1>2. CASE CallFails
    BY <1>2 DEF CallFails, Fails, test
  <1>3. CASE VerifyContainerPodLogs
    <2>1. listed' \subseteq Pods /\ todo' = listed' \X Container
      BY <1>3, FoundAlive DEF VerifyContainerPodLogs
    <2> QED BY <1>3, <2>1 DEF VerifyContainerPodLogs, FreshInv, test
  <1>4. CASE ReadClean
    BY <1>4 DEF ReadClean, test
  <1>5. CASE ReadBad
    <2>1. PICK log \in todo \cap bad : blamed' = {log[1]}
      BY <1>5 DEF ReadBad
    <2>2. log[1] \in listed
      BY <2>1
    <2> QED BY <1>5, <2>1, <2>2 DEF ReadBad, Fails, test
  <1>6. CASE ReadNot
    BY <1>6 DEF ReadNot, test
  <1>7. CASE Verified
    BY <1>7 DEF Verified, test
  <1>8. CASE ReportContainerPodLogs
    <2>1. report' \subseteq Pods
      BY <1>8, FoundAlive DEF ReportContainerPodLogs
    <2> QED BY <1>8, <2>1 DEF ReportContainerPodLogs, test
  <1>9. CASE ReportFails
    BY <1>9 DEF ReportFails, test
  <1>10. CASE (PodComes \/ PodGoes)
              /\ UNCHANGED <<test, pc, todo, unread, found, blamed, report>>
    BY <1>10 DEF PodComes, PodGoes, test
  <1>11. CASE UNCHANGED vars
    BY <1>11 DEF vars, test
  <1> QED BY <1>1, <1>2, <1>3, <1>4, <1>5, <1>6, <1>7, <1>8, <1>9, <1>10, <1>11
          DEF Next, Go, Check

LEMMA ReadStep ==
    ASSUME IInv, [Next]_vars
    PROVE  (FreshInv /\ FoundInv /\ BadInv /\ BadAreLogs)'
  <1> USE DEF IInv, FreshInv, FoundInv, BadInv, BadAreLogs, found
  <1>1. CASE PostRun
    BY <1>1 DEF PostRun, test
  <1>2. CASE CallFails
    BY <1>2 DEF CallFails, Fails, test
  <1>3. CASE VerifyContainerPodLogs
    <2>1. \A log \in bad : log[1] \in listed' => log \in todo'
      BY <1>3 DEF VerifyContainerPodLogs, Logs
    <2> QED BY <1>3, <2>1 DEF VerifyContainerPodLogs, test
  <1>4. CASE ReadClean
    BY <1>4 DEF ReadClean, test
  <1>5. CASE ReadBad
    BY <1>5 DEF ReadBad, Fails, test
  <1>6. CASE ReadNot
    BY <1>6 DEF ReadNot, test
  <1>7. CASE Verified
    BY <1>7 DEF Verified, test
  <1>8. CASE ReportContainerPodLogs
    BY <1>8 DEF ReportContainerPodLogs, test
  <1>9. CASE ReportFails
    BY <1>9 DEF ReportFails, test
  <1>10. CASE (PodComes \/ PodGoes)
              /\ UNCHANGED <<test, pc, todo, unread, found, blamed, report>>
    BY <1>10 DEF test
  <1>11. CASE UNCHANGED vars
    BY <1>11 DEF vars, test
  <1> QED BY <1>1, <1>2, <1>3, <1>4, <1>5, <1>6, <1>7, <1>8, <1>9, <1>10, <1>11
          DEF Next, Go, Check

\* The inductive invariant holds in every state of the spec.
THEOREM Invariance == Spec => []IInv
  <1>1. Init => IInv
    BY DEF Init, IInv, TypeOK, FreshInv, FoundInv, BadInv, BadAreLogs
  <1>2. IInv /\ [Next]_vars => IInv'
    BY TypeStep, ReadStep DEF IInv
  <1> QED BY <1>1, <1>2, PTL DEF Spec

-----------------------------------------------------------------------------
(* Names. *)

\* The pods of an MPI workflow have a role, as the MPI operator names them.
NamedByMPI == kind = "mpi" => \A p \in OwnPods : Role(p) \in Roles

\* The name of a pod starts with that of a host of the workflow only if the pod is
\* one of the workflow's own: elsewhere than after the name of its workflow no name
\* has a role, so that the two names are equally long.
LEMMA HostOfOwn ==
    ASSUME NEW p \in Pods, NEW role \in Roles, Matches(p.name, Own \o <<role>>)
    PROVE  p \in OwnPods
  <1> DEFINE host == Own \o <<role>>
             n == Len(Own)
             Part == STRING \cup Roles
  <1>1. /\ Own \in Seq(STRING) /\ p.name \in Seq(STRING) /\ p.workflow \in Seq(STRING)
        /\ Len(p.workflow) < Len(p.name) /\ IsPrefix(p.workflow, p.name)
        /\ \A i \in DOMAIN p.name :
              p.name[i] \in Roles => p.container /\ i = Len(p.workflow) + 1
    BY PodNames
  <1>2. Own \in Seq(Part) /\ p.name \in Seq(Part) /\ p.workflow \in Seq(Part)
    BY <1>1
  <1>3. /\ host \in Seq(Part) /\ Len(host) = n + 1 /\ host[n + 1] = role
        /\ \A i \in 1..n : host[i] = Own[i]
    BY <1>1, <1>2
  <1>4. n + 1 <= Len(p.name) /\ \A i \in 1..n + 1 : p.name[i] = host[i]
    BY <1>1, <1>3 DEF Matches, IsPrefix
  <1>5. p.container /\ n = Len(p.workflow)
    BY <1>1, <1>3, <1>4
  <1>6. \A i \in 1..n : p.workflow[i] = p.name[i]
    BY <1>1, <1>5 DEF IsPrefix
  <1>7. p.workflow = Own
    BY <1>2, <1>3, <1>4, <1>5, <1>6, SeqEqual
  <1> QED BY <1>5, <1>7 DEF OwnPods

\* And the name of a pod that has a role starts with that of a host.
LEMMA OwnHasHost ==
    ASSUME NEW p \in OwnPods, Role(p) \in Roles
    PROVE  Matches(p.name, Own \o <<Role(p)>>)
  <1>1. /\ Own \in Seq(STRING) /\ p.name \in Seq(STRING) /\ p.workflow = Own
        /\ Len(Own) < Len(p.name) /\ IsPrefix(Own, p.name)
    BY PodNames DEF OwnPods
  <1>2. \A i \in 1..Len(Own) : p.name[i] = Own[i]
    BY <1>1 DEF IsPrefix
  <1>3. p.name[Len(Own) + 1] = Role(p)
    BY <1>1 DEF Role
  <1> QED BY <1>1, <1>2, <1>3 DEF Matches, IsPrefix

\* So that either way of finding the pods finds just the workflow's own.
LEMMA FoundAreOwn ==
    ASSUME TypeOK, NamedByMPI
    PROVE  FindContainerPods = alive \cap OwnPods
  <1>1. CASE kind = "mpi"
    <2>1. ByHostname \subseteq OwnPods
      BY <1>1, HostOfOwn DEF ByHostname, Hostnames, TypeOK
    <2>2. alive \cap OwnPods \subseteq ByHostname
      BY <1>1, OwnHasHost DEF ByHostname, Hostnames, NamedByMPI
    <2> QED BY <1>1, <2>1, <2>2 DEF FindContainerPods, ByHostname
  <1>2. CASE kind # "mpi"
    BY <1>2 DEF FindContainerPods, ByLabel, OwnPods, TypeOK
  <1> QED BY <1>1, <1>2

-----------------------------------------------------------------------------
(* What follows. *)

\* Nothing in a run makes it another kind of workflow.
LEMMA NamesStay == NamedByMPI /\ [Next]_vars => NamedByMPI'
  <1> SUFFICES ASSUME [Next]_vars PROVE kind' = kind
    BY DEF NamedByMPI
  <1> QED BY DEF Next, Go, Check, PostRun, CallFails, Fails, VerifyContainerPodLogs,
             ReadClean, ReadBad, ReadNot, Verified, ReportContainerPodLogs, ReportFails,
             test, vars

\* None of the workflow's own pods is missed.
PresentInv == present \subseteq listed

LEMMA PresentStep ==
    ASSUME TypeOK, NamedByMPI, PresentInv, [Next]_vars
    PROVE  PresentInv'
  <1>1. CASE VerifyContainerPodLogs
    BY <1>1, FoundAreOwn DEF VerifyContainerPodLogs, PresentInv
  <1>2. ASSUME UNCHANGED found PROVE PresentInv'
    BY <1>2 DEF found, PresentInv
  <1> QED BY <1>1, <1>2 DEF Next, Go, Check, PostRun, CallFails, Fails, ReadClean, ReadBad,
             ReadNot, Verified, ReportContainerPodLogs, ReportFails, vars

\* VerifyContainerPodLogs lets no error of ssh in the workflow's own pods through
\* that it could have read, whatever pods come and go, however the names of others
\* start and whichever logs cannot be read.
THEOREM Caught == Spec /\ NamedByMPI => []ErrorsCaught
  <1>1. Init => PresentInv
    BY DEF Init, PresentInv
  <1>2. IInv /\ NamedByMPI /\ PresentInv /\ [Next]_vars => PresentInv'
    BY PresentStep DEF IInv
  <1>3. IInv /\ PresentInv => ErrorsCaught
    BY DEF IInv, TypeOK, FoundInv, BadInv, PresentInv, ErrorsCaught
  <1> QED BY <1>1, <1>2, <1>3, NamesStay, Invariance, PTL DEF Spec

\* The logs that are verified, and those in the report, are those of the workflow's
\* own pods, whichever other workflows there are and however their names start.
THEOREM OwnPodsListed == Spec /\ NamedByMPI => OwnPodsOnly
  <1> DEFINE Listed == /\ pc = "verify" /\ pc' = "read" => listed' = alive \cap OwnPods
                       /\ pc = "failed" /\ pc' = "reported" /\ kind # "none" =>
                             report' = alive \cap OwnPods
  <1>1. IInv /\ NamedByMPI /\ [Next]_vars => [Listed]_vars
    <2> SUFFICES ASSUME IInv, NamedByMPI, Next PROVE Listed
      OBVIOUS
    <2>1. FindContainerPods = alive \cap OwnPods
      BY FoundAreOwn DEF IInv
    <2>2. pc = "verify" /\ pc' = "read" => VerifyContainerPodLogs
      BY DEF Next, Go, Check, PostRun, CallFails, Fails, ReadClean, ReadBad, ReadNot,
             Verified, ReportContainerPodLogs, ReportFails
    <2>3. pc = "failed" /\ pc' = "reported" => ReportContainerPodLogs
      BY DEF Next, Go, Check, PostRun, CallFails, Fails, VerifyContainerPodLogs,
             ReadClean, ReadBad, ReadNot, Verified, ReportFails
    <2> QED BY <2>1, <2>2, <2>3 DEF VerifyContainerPodLogs, ReportContainerPodLogs
  <1>2. OwnPodsOnly <=> [][Listed]_vars
    BY PTL DEF OwnPodsOnly
  <1> HIDE DEF Listed
  <1> QED BY NamesStay, <1>1, <1>2, Invariance, PTL DEF Spec
=============================================================================
