---------------------------- MODULE Suite_proofs ----------------------------
(***************************************************************************)
(* The safety properties of Suite hold for any number of processes, of     *)
(* rabbits and of runs, on a cluster where any call may fail.              *)
(***************************************************************************)
EXTENDS Suite, TLAPS

-----------------------------------------------------------------------------
(* The inductive invariant. *)

Past(p) == pc[p] \in Verify \cup {"specs"}

\* The namespace exists from the failure that made it until the sweep, and who
\* has found it absent is of a run that no earlier failure has closed.  The
\* loop over the rabbits starts with the first.
GateInv ==
    /\ \A p \in Proc : pc[p] \in Gate => at[p] = 1
    /\ triage <=> closedIn # NoRun
    /\ \A p \in Proc : Past(p) \/ pc[p] = "reservation" => closedIn \in {NoRun, run}

\* A reservation lasts as long as the run it has met.
HoldInv ==
    /\ \A p \in Proc : heldOff /\ pc[p] \notin Ended => namespace \in Reservation
    /\ \A p \in Proc : heldOff /\ ~ignore => ~Past(p)

\* A pod tells the truth, and a process that has missed nobody has found the
\* user on all the rabbits behind it.
UserInv ==
    /\ \A r \in Rabbit : /\ pod[r] = "succeeded" => r \in users
                         /\ pod[r] = "failed" => r \notin users
    /\ \A p \in Proc : Past(p) /\ ~missing[p] =>
          /\ \A r \in Rabbit : r < at[p] => r \in users
          /\ pc[p] \in {"delete", "gone", "report", "specs"} => at[p] \in users
    /\ \A p \in Proc : pc[p] \in {"report", "specs"} => at[p] = NumRabbits
    /\ \A p \in Proc : pc[p] = "specs" => ~missing[p]

\* A pod belongs to the one process that waits for it, and a process has taken
\* away its pods on all the rabbits behind it.
PodInv ==
    /\ \A p \in Proc : pc[p] \in {"wait", "delete"} =>
          podOwner[at[p]] = p /\ pod[at[p]] \in {"running", "succeeded", "failed"}
    /\ \A p \in Proc : Past(p) =>
          \A r \in Rabbit :
             podOwner[r] = p /\ (r < at[p] \/ (r = at[p] /\ pc[p] \in {"gone", "report", "specs"}))
             => pod[r] \in {"absent", "deleting"}

\* Nobody has missed a user who is everywhere; and on a healthy cluster from which
\* nothing was torn away since it was swept, a pod is there only as long as the
\* process that made it is busy with it.
HealthyInv ==
    /\ users = Rabbit => \A p \in Proc : ~missing[p]
    /\ ~faulty /\ swept => \A r \in Rabbit : pod[r] # "absent" =>
          at[podOwner[r]] = r /\ pc[podOwner[r]] \in {"wait", "delete", "gone"}

IInv == TypeOK /\ GateInv /\ HoldInv /\ UserInv /\ PodInv /\ HealthyInv

-----------------------------------------------------------------------------
(* Each conjunct is preserved. *)

\* What a process does at its end.
LEMMA FailHandlerType ==
    ASSUME NEW p \in Proc, TypeOK, FailHandler(p)
    PROVE  /\ pc' \in [Proc -> Gate \cup Verify \cup Ended \cup {"specs"}]
           /\ at' \in [Proc -> Rabbit]
           /\ missing' \in [Proc -> BOOLEAN]
           /\ outcome' \in [Proc -> {"none", "passed", "failed", "aborted"}]
           /\ triage' \in BOOLEAN
           /\ closedIn' \in 0 .. MaxRuns \cup {NoRun}
  BY DEF TypeOK, FailHandler, Ends, SetSystemInNeedOfTriage, Ended

LEMMA AbortSuiteType ==
    ASSUME NEW p \in Proc, TypeOK, AbortSuite(p)
    PROVE  /\ pc' \in [Proc -> Gate \cup Verify \cup Ended \cup {"specs"}]
           /\ at' \in [Proc -> Rabbit]
           /\ missing' \in [Proc -> BOOLEAN]
           /\ outcome' \in [Proc -> {"none", "passed", "failed", "aborted"}]
           /\ triage' \in BOOLEAN
           /\ closedIn' \in 0 .. MaxRuns \cup {NoRun}
  BY DEF TypeOK, AbortSuite, Ends, Ended

LEMMA TypeStep == ASSUME TypeOK, [Next]_vars PROVE TypeOK'
  <1> USE SuiteAssumption DEF runVars
  <1>1. ASSUME NEW p \in Proc, Boot(p) PROVE TypeOK'
    BY <1>1 DEF TypeOK, Boot, Moves, Ends, clusterVars, Ended, Gate
  <1>2. ASSUME NEW p \in Proc, CheckTriage(p) PROVE TypeOK'
    <2>1. CASE AbortSuite(p)
      BY <1>2, <2>1, AbortSuiteType DEF TypeOK, CheckTriage
    <2>2. CASE /\ Moves(p, IF ignore THEN "create" ELSE "reservation")
               /\ UNCHANGED <<triage, closedIn>>
      BY <1>2, <2>2 DEF TypeOK, CheckTriage, Moves, Gate, Verify
    <2> QED BY <1>2, <2>1, <2>2 DEF CheckTriage
  <1>3. ASSUME NEW p \in Proc, CheckReservation(p) PROVE TypeOK'
    <2>1. CASE AbortSuite(p)
      BY <1>3, <2>1, AbortSuiteType DEF TypeOK, CheckReservation
    <2>2. CASE Moves(p, "create") /\ UNCHANGED <<triage, closedIn>>
      BY <1>3, <2>2 DEF TypeOK, CheckReservation, Moves, Verify
    <2>3. CASE FailHandler(p)
      BY <1>3, <2>3, FailHandlerType DEF TypeOK, CheckReservation
    <2> QED BY <1>3, <2>1, <2>2, <2>3 DEF CheckReservation
  <1>4. ASSUME NEW p \in Proc, VerifyCreate(p) PROVE TypeOK'
    BY <1>4 DEF TypeOK, VerifyCreate, Moves, Verify
  <1>5. ASSUME NEW p \in Proc, VerifyWait(p) PROVE TypeOK'
    <2>1. missing' \in [Proc -> BOOLEAN]
      BY <1>5 DEF TypeOK, VerifyWait
    <2> QED BY <1>5, <2>1 DEF TypeOK, VerifyWait, clusterVars, Verify
  <1>6. ASSUME NEW p \in Proc, VerifyDelete(p) PROVE TypeOK'
    BY <1>6 DEF TypeOK, VerifyDelete, Moves, Verify
  <1>7. ASSUME NEW p \in Proc, VerifyGone(p) PROVE TypeOK'
    <2>1. at[p] \in Rabbit
      BY DEF TypeOK
    <2>2. at' \in [Proc -> Rabbit]
      BY <1>7, <2>1 DEF TypeOK, VerifyGone, Rabbit
    <2> QED BY <1>7, <2>2 DEF TypeOK, VerifyGone, clusterVars, Verify
  <1>8. ASSUME NEW p \in Proc, VerifyReport(p) PROVE TypeOK'
    BY <1>8 DEF TypeOK, VerifyReport, Moves, clusterVars
  <1>9. ASSUME NEW p \in Proc, VerifyFails(p) PROVE TypeOK'
    BY <1>9, FailHandlerType DEF TypeOK, VerifyFails
  <1>10. ASSUME NEW p \in Proc, SpecsPass(p) PROVE TypeOK'
    BY <1>10 DEF TypeOK, SpecsPass, Ends, clusterVars, Ended
  <1>11. ASSUME NEW p \in Proc, SpecFails(p) PROVE TypeOK'
    BY <1>11, FailHandlerType DEF TypeOK, SpecFails
  <1>12. ASSUME NEW p \in Proc, Aborted(p) PROVE TypeOK'
    BY <1>12, AbortSuiteType DEF TypeOK, Aborted
  <1>13. CASE StartRun
    BY <1>13 DEF TypeOK, StartRun, clusterVars, Gate, Rabbit
  <1>14. CASE Interrupt
    BY <1>14 DEF TypeOK, Interrupt, clusterVars, Ended
  <1>15. CASE Clean \/ Reserve \/ Release
    BY <1>15 DEF TypeOK, Clean, Reserve, Release, procVars
  <1>16. ASSUME NEW r \in Rabbit, PodEnds(r) \/ PodVanishes(r) PROVE TypeOK'
    BY <1>16 DEF TypeOK, PodEnds, PodVanishes, procVars
  <1>17. CASE UNCHANGED vars
    BY <1>17 DEF TypeOK, vars, procVars, clusterVars
  <1> QED
    BY <1>1, <1>2, <1>3, <1>4, <1>5, <1>6, <1>7, <1>8, <1>9, <1>10, <1>11, <1>12,
       <1>13, <1>14, <1>15, <1>16, <1>17 DEF Next, ProcStep, People

LEMMA GateStep == ASSUME TypeOK, GateInv, [Next]_vars PROVE GateInv'
  <1> USE SuiteAssumption DEF GateInv, Past, Gate, runVars
  <1>1. ASSUME NEW p \in Proc, Boot(p) PROVE GateInv'
    BY <1>1 DEF TypeOK, Boot, Moves, Ends, clusterVars, Verify
  <1>2. ASSUME NEW p \in Proc, CheckTriage(p) PROVE GateInv'
    BY <1>2 DEF TypeOK, CheckTriage, TriageGet, IsSystemInNeedOfTriage, AbortSuite, Ends,
                Moves, Verify
  <1>3. ASSUME NEW p \in Proc, FailHandler(p), UNCHANGED runVars PROVE GateInv'
    BY <1>3 DEF TypeOK, FailHandler, Ends, SetSystemInNeedOfTriage, Verify
  <1>4. ASSUME NEW p \in Proc, CheckReservation(p) PROVE GateInv'
    <2>1. CASE FailHandler(p)
      BY <1>3, <1>4, <2>1 DEF CheckReservation
    <2>2. CASE ~FailHandler(p)
      BY <1>4, <2>2 DEF TypeOK, CheckReservation, AbortSuite, Ends, Moves, Verify
    <2> QED BY <2>1, <2>2
  <1>5. ASSUME NEW p \in Proc, VerifyCreate(p) \/ VerifyWait(p) \/ VerifyDelete(p) PROVE GateInv'
    BY <1>5 DEF TypeOK, VerifyCreate, VerifyWait, VerifyDelete, Moves, clusterVars, Verify
  <1>6. ASSUME NEW p \in Proc, VerifyGone(p) \/ VerifyReport(p) PROVE GateInv'
    BY <1>6 DEF TypeOK, VerifyGone, VerifyReport, Moves, clusterVars, Verify
  <1>7. ASSUME NEW p \in Proc, VerifyFails(p) \/ SpecFails(p) PROVE GateInv'
    BY <1>3, <1>7 DEF VerifyFails, SpecFails
  <1>8. ASSUME NEW p \in Proc, SpecsPass(p) \/ Aborted(p) PROVE GateInv'
    BY <1>8 DEF TypeOK, SpecsPass, Aborted, AbortSuite, Ends, clusterVars, Verify
  <1>9. CASE StartRun
    BY <1>9 DEF TypeOK, StartRun, clusterVars, Verify
  <1>10. CASE Interrupt
    BY <1>10 DEF TypeOK, Interrupt, clusterVars, Verify
  <1>11. CASE Clean \/ Reserve \/ Release
    BY <1>11 DEF TypeOK, Clean, Reserve, Release, procVars, Verify
  <1>12. ASSUME NEW r \in Rabbit, PodEnds(r) \/ PodVanishes(r) PROVE GateInv'
    BY <1>12 DEF TypeOK, PodEnds, PodVanishes, procVars
  <1>13. CASE UNCHANGED vars
    BY <1>13 DEF vars, procVars, clusterVars
  <1> QED
    BY <1>1, <1>2, <1>4, <1>5, <1>6, <1>7, <1>8, <1>9, <1>10, <1>11, <1>12, <1>13
    DEF Next, ProcStep, People

LEMMA HoldStep == ASSUME TypeOK, HoldInv, [Next]_vars PROVE HoldInv'
  <1> USE DEF HoldInv, Past, runVars
  <1>1. ASSUME NEW p \in Proc, Boot(p) \/ CheckTriage(p) PROVE HoldInv'
    BY <1>1 DEF TypeOK, Boot, CheckTriage, AbortSuite, Moves, Ends, clusterVars, Verify, Ended
  <1>2. ASSUME NEW p \in Proc, CheckReservation(p) PROVE HoldInv'
    BY <1>2 DEF TypeOK, CheckReservation, AbortSuite, FailHandler, Moves, Ends, Verify, Ended,
                Reservation, IsReserved
  <1>3. ASSUME NEW p \in Proc, VerifyCreate(p) \/ VerifyWait(p) \/ VerifyDelete(p) PROVE HoldInv'
    BY <1>3 DEF TypeOK, VerifyCreate, VerifyWait, VerifyDelete, Moves, clusterVars, Verify, Ended
  <1>4. ASSUME NEW p \in Proc, VerifyGone(p) \/ VerifyReport(p) PROVE HoldInv'
    BY <1>4 DEF TypeOK, VerifyGone, VerifyReport, Moves, clusterVars, Verify, Ended
  <1>5. ASSUME NEW p \in Proc, VerifyFails(p) \/ SpecFails(p) \/ SpecsPass(p) \/ Aborted(p)
        PROVE HoldInv'
    BY <1>5 DEF TypeOK, VerifyFails, SpecFails, SpecsPass, Aborted, FailHandler, AbortSuite, Ends,
                clusterVars, Verify, Ended
  <1>6. CASE StartRun
    BY <1>6 DEF TypeOK, StartRun, clusterVars, Verify, Ended
  <1>7. CASE Interrupt
    BY <1>7 DEF TypeOK, Interrupt, clusterVars, Verify, Ended
  <1>8. CASE Clean \/ Reserve \/ Release
    <2>1. CASE Clean
      BY <2>1 DEF Clean, procVars
    <2>2. CASE Reserve
      <3>1. UNCHANGED <<procVars, runVars, heldOff>> /\ namespace \notin Reservation
        BY <2>2 DEF Reserve, Reservation
      <3> QED BY <3>1 DEF procVars
    <2>3. CASE Release
      <3>1. UNCHANGED <<procVars, runVars, heldOff>> /\ \A p \in Proc : pc[p] \in Ended
        BY <2>3 DEF Release, Active
      <3> QED BY <3>1 DEF procVars
    <2> QED BY <1>8, <2>1, <2>2, <2>3
  <1>9. ASSUME NEW r \in Rabbit, PodEnds(r) \/ PodVanishes(r) PROVE HoldInv'
    BY <1>9 DEF TypeOK, PodEnds, PodVanishes, procVars
  <1>10. CASE UNCHANGED vars
    BY <1>10 DEF vars, procVars, clusterVars
  <1> QED
    BY <1>1, <1>2, <1>3, <1>4, <1>5, <1>6, <1>7, <1>8, <1>9, <1>10 DEF Next, ProcStep, People

LEMMA UserStep == ASSUME TypeOK, GateInv, UserInv, [Next]_vars PROVE UserInv'
  <1> USE SuiteAssumption DEF UserInv, Past, runVars
  <1>0. \A r \in Rabbit : ~(r < 1)
    BY DEF Rabbit
  <1>1. ASSUME NEW p \in Proc, Boot(p) \/ CheckTriage(p) PROVE UserInv'
    BY <1>0, <1>1 DEF TypeOK, GateInv, Boot, CheckTriage, AbortSuite, Moves, Ends, clusterVars,
                      Verify, Gate
  <1>2. ASSUME NEW p \in Proc, FailHandler(p) \/ AbortSuite(p), UNCHANGED <<users, pod>>
        PROVE  UserInv'
    BY <1>2 DEF TypeOK, FailHandler, AbortSuite, Ends, Verify
  <1>4. ASSUME NEW p \in Proc, CheckReservation(p) PROVE UserInv'
    <2>1. CASE FailHandler(p) \/ AbortSuite(p)
      BY <1>2, <1>4, <2>1 DEF CheckReservation
    <2>2. CASE ~(FailHandler(p) \/ AbortSuite(p))
      BY <1>0, <1>4, <2>2 DEF TypeOK, GateInv, CheckReservation, Moves, Verify, Gate
    <2> QED BY <2>1, <2>2
  <1>5. ASSUME NEW p \in Proc, VerifyCreate(p) \/ VerifyDelete(p) PROVE UserInv'
    <2>1. CASE VerifyCreate(p)
      BY <2>1 DEF TypeOK, VerifyCreate, Moves, Verify
    <2>2. CASE VerifyDelete(p)
      <3>1. /\ pc[p] = "delete" /\ pc' = [pc EXCEPT ![p] = "gone"]
            /\ pod' = [pod EXCEPT ![at[p]] = "deleting"]
            /\ UNCHANGED <<at, missing, users>>
        BY <2>2 DEF VerifyDelete, Moves
      <3>2. \A q \in Proc : pc'[q] = pc[q] \/ (q = p /\ pc'[q] = "gone")
        BY <3>1 DEF TypeOK
      <3>3. \A r \in Rabbit : pod'[r] = pod[r] \/ pod'[r] = "deleting"
        BY <3>1 DEF TypeOK
      <3> QED BY <3>1, <3>2, <3>3 DEF Verify
    <2> QED BY <1>5, <2>1, <2>2
  <1>6. ASSUME NEW p \in Proc, VerifyWait(p) PROVE UserInv'
    BY <1>6 DEF TypeOK, VerifyWait, clusterVars, Verify
  <1>7. ASSUME NEW p \in Proc, VerifyGone(p) PROVE UserInv'
    <2>1. /\ pc[p] = "gone" /\ UNCHANGED <<pod, users, missing>>
          /\ pc' = [pc EXCEPT ![p] = IF at[p] < NumRabbits THEN "create" ELSE "report"]
          /\ at' = [at EXCEPT ![p] = IF @ < NumRabbits THEN @ + 1 ELSE @]
      BY <1>7 DEF VerifyGone, clusterVars
    <2>2. at \in [Proc -> Rabbit] /\ DOMAIN pc = Proc
      BY DEF TypeOK
    <2>3. \A q \in Proc \ {p} : pc'[q] = pc[q] /\ at'[q] = at[q]
      BY <2>1, <2>2
    <2>4. ~missing[p] => \A r \in Rabbit : r <= at[p] => r \in users
      BY <2>1, <2>2 DEF Verify, Rabbit
    <2>5. \/ pc'[p] = "create" /\ at'[p] = at[p] + 1
          \/ pc'[p] = "report" /\ at'[p] = at[p] /\ at[p] = NumRabbits
      BY <2>1, <2>2 DEF Rabbit
    <2>6. \A r \in Rabbit : r < at[p] + 1 <=> r <= at[p]
      BY <2>2 DEF Rabbit
    <2>7. ~missing[p] => /\ \A r \in Rabbit : r < at'[p] => r \in users
                         /\ pc'[p] = "report" => at'[p] \in users
      BY <2>2, <2>4, <2>5, <2>6 DEF Rabbit
    <2> QED BY <2>1, <2>3, <2>5, <2>7 DEF Verify
  <1>8. ASSUME NEW p \in Proc, VerifyReport(p) PROVE UserInv'
    BY <1>8 DEF TypeOK, VerifyReport, Moves, clusterVars, Verify
  <1>9. ASSUME NEW p \in Proc, VerifyFails(p) \/ SpecFails(p) \/ Aborted(p) PROVE UserInv'
    BY <1>2, <1>9 DEF VerifyFails, SpecFails, Aborted
  <1>10. ASSUME NEW p \in Proc, SpecsPass(p) PROVE UserInv'
    BY <1>10 DEF TypeOK, SpecsPass, Ends, clusterVars, Verify
  <1>11. CASE StartRun \/ Interrupt
    BY <1>11 DEF TypeOK, StartRun, Interrupt, clusterVars, Verify
  <1>12. CASE Clean \/ Reserve \/ Release
    BY <1>12 DEF TypeOK, Clean, Reserve, Release, procVars
  <1>13. ASSUME NEW r \in Rabbit, PodEnds(r) \/ PodVanishes(r) PROVE UserInv'
    BY <1>13 DEF TypeOK, PodEnds, PodVanishes, procVars
  <1>14. CASE UNCHANGED vars
    BY <1>14 DEF vars, procVars, clusterVars
  <1> QED
    BY <1>1, <1>4, <1>5, <1>6, <1>7, <1>8, <1>9, <1>10, <1>11, <1>12, <1>13, <1>14
    DEF Next, ProcStep, People

LEMMA PodStep == ASSUME TypeOK, GateInv, PodInv, [Next]_vars PROVE PodInv'
  <1> USE SuiteAssumption DEF PodInv, Past, runVars
  <1>0. \A r \in Rabbit : ~(r < 1)
    BY DEF Rabbit
  <1>1. ASSUME NEW p \in Proc, Boot(p) \/ CheckTriage(p) PROVE PodInv'
    BY <1>0, <1>1 DEF TypeOK, GateInv, Boot, CheckTriage, AbortSuite, Moves, Ends, clusterVars,
                      Verify, Gate
  <1>2. ASSUME NEW p \in Proc, FailHandler(p) \/ AbortSuite(p), UNCHANGED <<pod, podOwner>>
        PROVE  PodInv'
    BY <1>2 DEF TypeOK, FailHandler, AbortSuite, Ends, Verify
  <1>3. ASSUME NEW p \in Proc, CheckReservation(p) PROVE PodInv'
    <2>1. CASE FailHandler(p) \/ AbortSuite(p)
      BY <1>2, <1>3, <2>1 DEF CheckReservation
    <2>2. CASE ~(FailHandler(p) \/ AbortSuite(p))
      BY <1>0, <1>3, <2>2 DEF TypeOK, GateInv, CheckReservation, Moves, Verify, Gate
    <2> QED BY <2>1, <2>2
  <1>4. ASSUME NEW p \in Proc, VerifyCreate(p) PROVE PodInv'
    <2>1. /\ pc' = [pc EXCEPT ![p] = "wait"] /\ pc[p] = "create"
          /\ pod' = [pod EXCEPT ![at[p]] = "running"] /\ pod[at[p]] = "absent"
          /\ podOwner' = [podOwner EXCEPT ![at[p]] = p]
          /\ UNCHANGED at
      BY <1>4 DEF VerifyCreate, Moves
    <2>2. /\ at \in [Proc -> Rabbit] /\ DOMAIN pod = Rabbit
          /\ DOMAIN podOwner = Rabbit /\ DOMAIN pc = Proc
      BY DEF TypeOK
    <2>3. ASSUME NEW x \in Proc, pc'[x] \in {"wait", "delete"}
          PROVE  podOwner'[at'[x]] = x /\ pod'[at'[x]] \in {"running", "succeeded", "failed"}
      <3>1. CASE x = p
        BY <2>1, <2>2, <3>1
      <3>2. CASE x # p
        BY <2>1, <2>2, <2>3, <3>2
      <3> QED BY <3>1, <3>2
    <2>4. ASSUME NEW x \in Proc, pc'[x] \in Verify \cup {"specs"}, NEW r \in Rabbit,
                 podOwner'[r] = x,
                 r < at'[x] \/ (r = at'[x] /\ pc'[x] \in {"gone", "report", "specs"})
          PROVE  pod'[r] \in {"absent", "deleting"}
      <3>1. CASE r = at[p]
        <4>1. x = p /\ ~(r < at[p])
          BY <2>1, <2>2, <2>4, <3>1 DEF Rabbit
        <4> QED BY <2>1, <2>2, <2>4, <3>1, <4>1
      <3>2. CASE r # at[p] /\ x = p
        <4>1. r < at[p] /\ podOwner[r] = p /\ pod'[r] = pod[r]
          BY <2>1, <2>2, <2>4, <3>2
        <4>2. pc[p] \in Verify
          BY <2>1 DEF Verify
        <4> QED BY <4>1, <4>2
      <3>3. CASE r # at[p] /\ x # p
        BY <2>1, <2>2, <2>4, <3>3
      <3> QED BY <3>1, <3>2, <3>3
    <2> QED BY <2>3, <2>4
  <1>5. ASSUME NEW p \in Proc, VerifyWait(p) PROVE PodInv'
    BY <1>5 DEF TypeOK, VerifyWait, clusterVars, Verify
  <1>6. ASSUME NEW p \in Proc, VerifyDelete(p) PROVE PodInv'
    <2>1. \A x \in Proc : pc[x] \in {"wait", "delete"} /\ x # p => at[x] # at[p]
      BY <1>6 DEF VerifyDelete
    <2>2. /\ pc' = [pc EXCEPT ![p] = "gone"]
          /\ pod' = [pod EXCEPT ![at[p]] = "deleting"]
          /\ UNCHANGED <<at, podOwner>>
          /\ pc[p] = "delete"
      BY <1>6 DEF VerifyDelete, Moves
    <2>3. at \in [Proc -> Rabbit] /\ DOMAIN pod = Rabbit /\ DOMAIN pc = Proc
      BY DEF TypeOK
    <2>4. ASSUME NEW x \in Proc, pc'[x] \in {"wait", "delete"}
          PROVE  podOwner'[at'[x]] = x /\ pod'[at'[x]] \in {"running", "succeeded", "failed"}
      BY <2>1, <2>2, <2>3, <2>4
    <2>5. ASSUME NEW x \in Proc, pc'[x] \in Verify \cup {"specs"}, NEW r \in Rabbit,
                 podOwner'[r] = x,
                 r < at'[x] \/ (r = at'[x] /\ pc'[x] \in {"gone", "report", "specs"})
          PROVE  pod'[r] \in {"absent", "deleting"}
      <3>1. CASE r = at[p]
        BY <2>2, <2>3, <3>1
      <3>2. CASE r # at[p] /\ x = p
        <4>1. r < at[p] /\ podOwner[r] = p /\ pod'[r] = pod[r]
          BY <2>2, <2>3, <2>5, <3>2
        <4>2. pc[p] \in Verify
          BY <2>2 DEF Verify
        <4> QED BY <4>1, <4>2
      <3>3. CASE r # at[p] /\ x # p
        BY <2>2, <2>3, <2>5, <3>3
      <3> QED BY <3>1, <3>2, <3>3
    <2> QED BY <2>4, <2>5
  <1>7. ASSUME NEW p \in Proc, VerifyGone(p) PROVE PodInv'
    <2>1. /\ pc[p] = "gone" /\ UNCHANGED <<pod, podOwner>>
          /\ pc' = [pc EXCEPT ![p] = IF at[p] < NumRabbits THEN "create" ELSE "report"]
          /\ at' = [at EXCEPT ![p] = IF @ < NumRabbits THEN @ + 1 ELSE @]
      BY <1>7 DEF VerifyGone, clusterVars
    <2>2. at \in [Proc -> Rabbit] /\ DOMAIN pc = Proc
      BY DEF TypeOK
    <2>3. \A r \in Rabbit : podOwner[r] = p /\ r <= at[p] => pod[r] \in {"absent", "deleting"}
      BY <2>1, <2>2 DEF Verify, Rabbit
    <2>4. ASSUME NEW x \in Proc, pc'[x] \in {"wait", "delete"}
          PROVE  podOwner'[at'[x]] = x /\ pod'[at'[x]] \in {"running", "succeeded", "failed"}
      BY <2>1, <2>2, <2>4
    <2>5. ASSUME NEW x \in Proc, pc'[x] \in Verify \cup {"specs"}, NEW r \in Rabbit,
                 podOwner'[r] = x,
                 r < at'[x] \/ (r = at'[x] /\ pc'[x] \in {"gone", "report", "specs"})
          PROVE  pod'[r] \in {"absent", "deleting"}
      <3>1. CASE x = p
        <4>1. r <= at[p]
          BY <2>1, <2>2, <2>5, <3>1 DEF Rabbit
        <4> QED BY <2>1, <2>3, <2>5, <3>1, <4>1
      <3>2. CASE x # p
        BY <2>1, <2>2, <2>5, <3>2
      <3> QED BY <3>1, <3>2
    <2> QED BY <2>4, <2>5
  <1>8. ASSUME NEW p \in Proc, VerifyReport(p) PROVE PodInv'
    BY <1>8 DEF TypeOK, VerifyReport, Moves, clusterVars, Verify
  <1>9. ASSUME NEW p \in Proc, VerifyFails(p) \/ SpecFails(p) \/ Aborted(p) PROVE PodInv'
    BY <1>2, <1>9 DEF VerifyFails, SpecFails, Aborted
  <1>10. ASSUME NEW p \in Proc, SpecsPass(p) PROVE PodInv'
    BY <1>10 DEF TypeOK, SpecsPass, Ends, clusterVars, Verify
  <1>11. CASE StartRun \/ Interrupt
    BY <1>11 DEF TypeOK, StartRun, Interrupt, clusterVars, Verify
  <1>12. CASE Clean
    BY <1>12 DEF TypeOK, Clean, procVars, Active, Ended, Verify
  <1>13. CASE Reserve \/ Release
    BY <1>13 DEF TypeOK, Reserve, Release, procVars
  <1>14. ASSUME NEW r \in Rabbit, PodEnds(r) \/ PodVanishes(r) PROVE PodInv'
    BY <1>14 DEF TypeOK, PodEnds, PodVanishes, procVars
  <1>15. CASE UNCHANGED vars
    BY <1>15 DEF vars, procVars, clusterVars
  <1> QED
    BY <1>1, <1>3, <1>4, <1>5, <1>6, <1>7, <1>8, <1>9, <1>10, <1>11, <1>12, <1>13, <1>14, <1>15
    DEF Next, ProcStep, People

\* A process that is not busy with a pod changes nothing of that.
LEMMA HealthyElsewhere ==
    ASSUME TypeOK, HealthyInv, UNCHANGED <<users, faulty, missing, pod, podOwner>>, swept' => swept,
           NEW p \in Proc, \A q \in Proc \ {p} : pc'[q] = pc[q] /\ at'[q] = at[q],
           ~faulty /\ swept' => pc[p] \notin {"wait", "delete", "gone"}
    PROVE  HealthyInv'
  <1>1. podOwner \in [Rabbit -> Proc] /\ Rabbit' = Rabbit
    BY DEF TypeOK, Rabbit
  <1>2. ASSUME ~faulty, swept', NEW r \in Rabbit, pod[r] # "absent"
        PROVE  at'[podOwner[r]] = r /\ pc'[podOwner[r]] \in {"wait", "delete", "gone"}
    <2>1. at[podOwner[r]] = r /\ pc[podOwner[r]] \in {"wait", "delete", "gone"}
      BY <1>2 DEF HealthyInv
    <2>2. podOwner[r] \in Proc \ {p}
      BY <1>1, <1>2, <2>1
    <2> QED BY <2>1, <2>2
  <1> QED BY <1>1, <1>2 DEF HealthyInv

LEMMA HealthyStep ==
    ASSUME TypeOK, UserInv, PodInv, HealthyInv, [Next]_vars PROVE HealthyInv'
  <1> USE DEF runVars
  <1>1. ASSUME NEW p \in Proc, FailHandler(p) \/ AbortSuite(p), swept' => swept,
               ~faulty /\ swept' => pc[p] \notin {"wait", "delete", "gone"},
               UNCHANGED <<users, faulty, pod, podOwner>>
        PROVE  HealthyInv'
    <2>1. UNCHANGED missing /\ \A q \in Proc \ {p} : pc'[q] = pc[q] /\ at'[q] = at[q]
      BY <1>1 DEF TypeOK, FailHandler, AbortSuite, Ends
    <2> QED BY <1>1, <2>1, HealthyElsewhere
  <1>2. ASSUME NEW p \in Proc, Boot(p) \/ CheckTriage(p) \/ CheckReservation(p) PROVE HealthyInv'
    <2>1. /\ pc[p] \notin {"wait", "delete", "gone"}
          /\ UNCHANGED <<users, faulty, missing, pod, podOwner, swept>>
          /\ \A q \in Proc \ {p} : pc'[q] = pc[q] /\ at'[q] = at[q]
      BY <1>2 DEF TypeOK, Boot, CheckTriage, CheckReservation, FailHandler, AbortSuite, Moves, Ends,
                  clusterVars
    <2> QED BY <2>1, HealthyElsewhere
  <1>3. ASSUME NEW p \in Proc, VerifyCreate(p) PROVE HealthyInv'
    <2>1. /\ pc' = [pc EXCEPT ![p] = "wait"] /\ pc[p] = "create"
          /\ pod' = [pod EXCEPT ![at[p]] = "running"] /\ podOwner' = [podOwner EXCEPT ![at[p]] = p]
          /\ UNCHANGED <<at, users, faulty, missing, swept>>
      BY <1>3 DEF VerifyCreate, Moves
    <2>2. /\ at \in [Proc -> Rabbit] /\ DOMAIN pod = Rabbit
          /\ podOwner \in [Rabbit -> Proc] /\ DOMAIN pc = Proc
      BY DEF TypeOK
    <2>3. ASSUME ~faulty, swept, NEW r \in Rabbit, pod'[r] # "absent"
          PROVE  at[podOwner'[r]] = r /\ pc'[podOwner'[r]] \in {"wait", "delete", "gone"}
      <3>1. CASE r = at[p]
        BY <2>1, <2>2, <3>1
      <3>2. CASE r # at[p]
        <4>1. pod'[r] = pod[r] /\ podOwner'[r] = podOwner[r]
          BY <2>1, <2>2, <3>2
        <4>2. at[podOwner[r]] = r /\ pc[podOwner[r]] \in {"wait", "delete", "gone"}
          BY <2>3, <4>1 DEF HealthyInv
        <4> QED BY <2>1, <2>2, <4>1, <4>2
      <3> QED BY <3>1, <3>2
    <2> QED BY <2>1, <2>3 DEF HealthyInv
  <1>4. ASSUME NEW p \in Proc, VerifyWait(p) PROVE HealthyInv'
    <2>1. /\ pc' = [pc EXCEPT ![p] = "delete"]
          /\ missing' = [missing EXCEPT ![p] = @ \/ pod[at[p]] = "failed"]
          /\ UNCHANGED <<at, users, faulty, pod, podOwner, swept>>
      BY <1>4 DEF VerifyWait, clusterVars
    <2>2. at[p] \in Rabbit /\ podOwner \in [Rabbit -> Proc]
      BY DEF TypeOK
    <2>3. users = Rabbit => ~(pod[at[p]] = "failed")
      BY <2>2 DEF UserInv
    <2>4. users = Rabbit => \A q \in Proc : ~missing'[q]
      BY <2>1, <2>3 DEF TypeOK, HealthyInv
    <2>5. \A q \in Proc : pc[q] \in {"wait", "delete", "gone"} => pc'[q] \in {"wait", "delete", "gone"}
      BY <2>1 DEF TypeOK
    <2> QED BY <2>1, <2>2, <2>4, <2>5 DEF HealthyInv
  <1>5. ASSUME NEW p \in Proc, VerifyDelete(p) PROVE HealthyInv'
    <2>1. /\ pc' = [pc EXCEPT ![p] = "gone"] /\ pod[at[p]] # "absent"
          /\ pod' = [pod EXCEPT ![at[p]] = "deleting"]
          /\ UNCHANGED <<at, users, faulty, missing, podOwner, swept>>
      BY <1>5 DEF VerifyDelete, Moves
    <2>2. \A r \in Rabbit : pod'[r] # "absent" => pod[r] # "absent"
      BY <2>1 DEF TypeOK
    <2>3. \A q \in Proc : pc[q] \in {"wait", "delete", "gone"} => pc'[q] \in {"wait", "delete", "gone"}
      BY <2>1 DEF TypeOK
    <2>4. podOwner \in [Rabbit -> Proc]
      BY DEF TypeOK
    <2> QED BY <2>1, <2>2, <2>3, <2>4 DEF HealthyInv
  <1>6. ASSUME NEW p \in Proc, VerifyGone(p) PROVE HealthyInv'
    <2>1. /\ pod[at[p]] = "absent" \/ faulty
          /\ \A q \in Proc \ {p} : pc'[q] = pc[q] /\ at'[q] = at[q]
          /\ UNCHANGED <<users, faulty, missing, pod, podOwner, swept>>
      BY <1>6 DEF TypeOK, VerifyGone, clusterVars
    <2>2. ASSUME ~faulty, swept, NEW r \in Rabbit, pod[r] # "absent"
          PROVE  at'[podOwner[r]] = r /\ pc'[podOwner[r]] \in {"wait", "delete", "gone"}
      <3>1. at[podOwner[r]] = r /\ pc[podOwner[r]] \in {"wait", "delete", "gone"} /\ podOwner[r] \in Proc
        BY <2>2 DEF HealthyInv, TypeOK
      <3>2. podOwner[r] # p
        BY <2>1, <2>2, <3>1
      <3> QED BY <2>1, <3>1, <3>2
    <2> QED BY <2>1, <2>2 DEF HealthyInv
  <1>7. ASSUME NEW p \in Proc, VerifyReport(p) \/ SpecsPass(p) PROVE HealthyInv'
    <2>1. /\ pc[p] \notin {"wait", "delete", "gone"}
          /\ UNCHANGED <<users, faulty, missing, pod, podOwner, swept>>
          /\ \A q \in Proc \ {p} : pc'[q] = pc[q] /\ at'[q] = at[q]
      BY <1>7 DEF TypeOK, VerifyReport, SpecsPass, Moves, Ends, clusterVars
    <2> QED BY <2>1, HealthyElsewhere
  <1>8. ASSUME NEW p \in Proc, VerifyFails(p) PROVE HealthyInv'
    <2>1. ~faulty => pc[p] \notin {"wait", "delete", "gone"}
      BY <1>8 DEF VerifyFails, PodInv
    <2> QED BY <1>1, <1>8, <2>1 DEF VerifyFails
  <1>9. ASSUME NEW p \in Proc, SpecFails(p) \/ Aborted(p) PROVE HealthyInv'
    <2>1. CASE SpecFails(p)
      BY <1>1, <2>1 DEF SpecFails
    <2>2. CASE Aborted(p)
      <3>1. swept' => swept /\ pc[p] \notin {"wait", "delete", "gone"}
        BY <2>2 DEF Aborted, Verify
      <3> QED BY <1>1, <2>2, <3>1 DEF Aborted
    <2> QED BY <1>9, <2>1, <2>2
  <1>10. CASE StartRun
    <2>1. UNCHANGED <<users, faulty, pod, podOwner, swept>> /\ missing' = [p \in Proc |-> FALSE]
      BY <1>10 DEF StartRun, clusterVars
    <2>2. \A r \in Rabbit : ~faulty /\ swept => pod[r] = "absent"
      BY <1>10 DEF StartRun, Active, HealthyInv, TypeOK, Ended
    <2> QED BY <2>1, <2>2 DEF HealthyInv
  <1>11. CASE Interrupt
    BY <1>11 DEF Interrupt, clusterVars, HealthyInv
  <1>12. CASE Clean
    BY <1>12 DEF Clean, procVars, HealthyInv
  <1>13. CASE Reserve \/ Release
    BY <1>13 DEF Reserve, Release, procVars, HealthyInv
  <1>14. ASSUME NEW r \in Rabbit, PodEnds(r) \/ PodVanishes(r) PROVE HealthyInv'
    <2>1. \A s \in Rabbit : pod'[s] # "absent" => pod[s] # "absent"
      BY <1>14 DEF TypeOK, PodEnds, PodVanishes
    <2>2. UNCHANGED <<users, faulty, missing, podOwner, swept, pc, at>>
      BY <1>14 DEF PodEnds, PodVanishes, procVars
    <2> QED BY <2>1, <2>2 DEF HealthyInv
  <1>15. CASE UNCHANGED vars
    BY <1>15 DEF vars, procVars, clusterVars, HealthyInv
  <1> QED
    BY <1>2, <1>3, <1>4, <1>5, <1>6, <1>7, <1>8, <1>9, <1>10, <1>11, <1>12, <1>13, <1>14, <1>15
    DEF Next, ProcStep, People

-----------------------------------------------------------------------------
(* The theorems. *)

LEMMA InvInit == Init => IInv
  <1> SUFFICES ASSUME Init PROVE IInv
    OBVIOUS
  <1>1. TypeOK
    <2>1. 1 \in Rabbit
      BY SuiteAssumption DEF Rabbit
    <2>2. users \in SUBSET Rabbit
      BY DEF Init
    <2>3. closedIn \in 0 .. MaxRuns \cup {NoRun} /\ run \in 0 .. MaxRuns
      BY SuiteAssumption DEF Init
    <2> QED BY <2>1, <2>2, <2>3 DEF Init, TypeOK, Ended
  <1>2. GateInv
    BY SuiteAssumption DEF Init, GateInv, Past, Gate, Verify
  <1>3. HoldInv
    BY DEF Init, HoldInv, Past, Verify, Ended
  <1>4. UserInv /\ PodInv
    BY DEF Init, UserInv, PodInv, Past, Verify
  <1>5. HealthyInv
    BY DEF Init, HealthyInv
  <1> QED BY <1>1, <1>2, <1>3, <1>4, <1>5 DEF IInv

\* The inductive invariant holds throughout.
THEOREM Invariance == Spec => []IInv
  <1>1. IInv /\ [Next]_vars => IInv'
    BY TypeStep, GateStep, HoldStep, UserStep, PodStep, HealthyStep DEF IInv
  <1> QED BY InvInit, <1>1, PTL DEF Spec

\* Every process is at a step of BeforeSuite, in the specs or at an end.
THEOREM TypeCorrect == Spec => []TypeOK
  BY Invariance, PTL DEF IInv

\* A cluster that a failure has closed stays closed to later runs until it is
\* swept, whatever fails or is interrupted.
THEOREM StaysClosed == Spec => []ClosedUntilTriaged
  <1>1. IInv => ClosedUntilTriaged
    BY DEF IInv, GateInv, Past, ClosedUntilTriaged
  <1> QED BY Invariance, <1>1, PTL

\* A reservation that a run has met keeps it from pods and specs.
THEOREM Respected == Spec => []ReservationRespected
  <1>1. IInv => ReservationRespected
    BY DEF IInv, HoldInv, Past, ReservationRespected
  <1> QED BY Invariance, <1>1, PTL

\* Specs run only where the user exists on every rabbit.
THEOREM Verified == Spec => []UserVerified
  <1>1. IInv => UserVerified
    <2> SUFFICES ASSUME IInv, NEW p \in Proc, pc[p] = "specs"
                 PROVE  users = Rabbit
      BY DEF UserVerified
    <2>1. at[p] = NumRabbits /\ ~missing[p] /\ Past(p) /\ users \in SUBSET Rabbit
      BY DEF IInv, TypeOK, UserInv, Past
    <2>2. at[p] \in users /\ \A r \in Rabbit : r < at[p] => r \in users
      BY <2>1 DEF IInv, UserInv
    <2>3. \A r \in Rabbit : r < NumRabbits \/ r = NumRabbits
      BY SuiteAssumption DEF Rabbit
    <2> QED BY <2>1, <2>2, <2>3
  <1> QED BY Invariance, <1>1, PTL

\* A process in its specs has taken away all its pods.
THEOREM TidiedUp == Spec => []PodsTidiedUp
  <1>1. IInv => PodsTidiedUp
    BY SuiteAssumption DEF IInv, TypeOK, UserInv, PodInv, Past, PodsTidiedUp, Rabbit, Verify
  <1> QED BY Invariance, <1>1, PTL

\* On a healthy cluster that knows the user, and from which nothing was torn away since
\* it was swept, a process fails only because of the pod of another process, which is
\* still busy with it: not because of its own, nor of any left by an earlier run.
THEOREM BlamesOthers == Spec => FailsOnlyForOthers
  <1> DEFINE P == \A p \in Proc :
                     ~faulty /\ swept /\ users = Rabbit /\ outcome[p] # "failed" /\ outcome'[p] = "failed"
                        => \E q \in Proc \ {p} : pc[q] \in Verify \cup {"specs", "ended"}
  <1>1. IInv /\ [Next]_vars => P
    <2> SUFFICES ASSUME IInv, [Next]_vars, NEW p \in Proc, ~faulty, swept, users = Rabbit,
                        outcome[p] # "failed", outcome'[p] = "failed"
                 PROVE  \E q \in Proc \ {p} : pc[q] \in Verify \cup {"specs", "ended"}
      OBVIOUS
    <2>1. VerifyFails(p)
      <3>1. PICK q \in Proc : ProcStep(q)
        BY DEF Next, People, StartRun, Interrupt, Clean, Reserve, Release, PodEnds, PodVanishes,
               procVars, vars
      <3>2. UNCHANGED outcome \/ \E how \in {"passed", "failed", "aborted"} : Ends(q, how)
        BY <3>1 DEF ProcStep, Boot, CheckTriage, CheckReservation, VerifyCreate, VerifyWait,
                    VerifyDelete, VerifyGone, VerifyReport, VerifyFails, SpecsPass, SpecFails, Aborted,
                    FailHandler, AbortSuite, Moves
      <3>3. p = q /\ ~Ends(q, "passed") /\ ~Ends(q, "aborted") /\ outcome' # outcome
        BY <3>2 DEF IInv, TypeOK, Ends
      <3> QED BY <3>1, <3>3 DEF ProcStep, Boot, CheckTriage, CheckReservation, VerifyCreate,
                    VerifyWait, VerifyDelete, VerifyGone, VerifyReport, SpecsPass, SpecFails, Aborted,
                    AbortSuite, Moves
    <2>2. pc[p] = "create" /\ pod[at[p]] # "absent"
      <3>1. ~missing[p]
        BY DEF IInv, HealthyInv
      <3>2. ~(pc[p] \in {"wait", "delete"} /\ pod[at[p]] = "absent")
        BY DEF IInv, PodInv
      <3> QED BY <2>1, <3>1, <3>2 DEF VerifyFails
    <2>3. at[p] \in Rabbit /\ podOwner[at[p]] \in Proc
      BY DEF IInv, TypeOK
    <2>4. pc[podOwner[at[p]]] \in {"wait", "delete", "gone"}
      BY <2>2, <2>3 DEF IInv, HealthyInv
    <2> QED BY <2>2, <2>3, <2>4 DEF Verify
  <1>2. IInv /\ [Next]_vars => [P]_vars
    BY <1>1
  <1> QED BY <1>2, Invariance, PTL DEF Spec, FailsOnlyForOthers
=============================================================================
