--------------------------- MODULE FenceRun_proofs ---------------------------
(***************************************************************************)
(* The selection of the script fits any number of nodes, spread over the   *)
(* rabbits in any way, at any percentage; and what it does to the nodes it *)
(* does in the order and at the time that FenceRun's properties ask for.   *)
(***************************************************************************)
EXTENDS FenceRun, FiniteSetTheorems, TLAPS

-----------------------------------------------------------------------------
(* The arithmetic. *)

\* NUM_TO_FENCE is a number of nodes that there are.
LEMMA ShareFits ==
    ASSUME NEW n \in Nat \ {0}, NEW p \in 0 .. 100
    PROVE  NumToFence(n, p) \in 0 .. n
  <1> DEFINE share == (n * p) \div 100
  <1>1. n * p \in Nat /\ n * p <= n * 100
    OBVIOUS
  <1>2. share \in Nat /\ share <= n
    <2> HIDE DEF share
    <2> DEFINE q == n * p
    <2>1. q \in Nat /\ q <= n * 100
      BY <1>1
    <2>2. share = q \div 100
      BY DEF share
    <2> HIDE DEF q
    <2> QED BY <2>1, <2>2
  <1> HIDE DEF share
  <1> QED BY <1>2 DEF NumToFence, share

\* The two numbers add up, each rabbit has that many nodes, and one is asked for
\* less than another only if it has no more.
LEMMA SplitFits ==
    ASSUME NEW n1 \in Nat, NEW n2 \in Nat, NEW num \in 0 .. n1 + n2
    PROVE  LET s == Split(num, n1, n2) IN
           /\ s[1] \in 0 .. n1 /\ s[2] \in 0 .. n2 /\ s[1] + s[2] = num
           /\ s[1] > s[2] + 1 => s[2] = n2
           /\ s[2] > s[1] + 1 => s[1] = n1
  <1> DEFINE half == num \div 2
  <1>1. half \in Nat /\ (num = 2 * half \/ num = 2 * half + 1)
    OBVIOUS
  <1> HIDE DEF half
  <1> QED BY <1>1 DEF Split, half

-----------------------------------------------------------------------------
(* The selection. *)

\* The nodes that are drawn from one rabbit.
LEMMA DrawnFits ==
    ASSUME NEW S, IsFiniteSet(S), NEW num \in 0 .. Cardinality(S), NEW d \in Drawn(num, S)
    PROVE  /\ d \subseteq S /\ IsFiniteSet(d)
           /\ Cardinality(d) = num
           /\ num = Cardinality(S) => S \subseteq d
  <1>1. Cardinality(S) \in Nat
    BY FS_CardinalityType
  <1>2. d \in SUBSET S /\ Cardinality(d) = num
    BY <1>1 DEF Drawn
  <1> QED BY <1>2, FS_Subset

\* The selection fits when it is made.
LEMMA SelectionInit == Init => SelectionFits
  <1> SUFFICES ASSUME Init PROVE SelectionFits
    OBVIOUS
  <1> DEFINE n1 == Cardinality(Of(1))
             n2 == Cardinality(Of(2))
             num == NumToFence(Cardinality(Node), percentage)
             s == Split(num, n1, n2)
  <1>1. /\ IsFiniteSet(Of(1)) /\ IsFiniteSet(Of(2))
        /\ Of(1) \cap Of(2) = {} /\ Of(1) \cup Of(2) = Node
    <2>1. Of(1) \in SUBSET Node /\ Of(2) \in SUBSET Node
      BY DEF Of
    <2>2. Of(1) \cap Of(2) = {}
      BY DEF Of
    <2>3. \A n \in Node : rabbit[n] = 1 \/ rabbit[n] = 2
      BY DEF Init
    <2> QED BY <2>1, <2>2, <2>3, NodeAssumption, FS_Subset DEF Of
  <1>2. n1 \in Nat /\ n2 \in Nat /\ Cardinality(Node) = n1 + n2 /\ Cardinality(Node) # 0
    <2>1. n1 \in Nat /\ n2 \in Nat /\ Cardinality(Node) \in Nat
      BY <1>1, NodeAssumption, FS_CardinalityType
    <2>2. Cardinality(Node) = n1 + n2 - Cardinality({})
      BY <1>1, FS_Union
    <2> QED BY <2>1, <2>2, FS_EmptySet, NodeAssumption
  <1>3. num \in 0 .. n1 + n2
    <2>1. percentage \in 0 .. 100
      BY PercentageAssumption DEF Init
    <2>2. Cardinality(Node) \in Nat \ {0}
      BY <1>2
    <2>3. num \in 0 .. Cardinality(Node)
      BY <2>1, <2>2, ShareFits
    <2> QED BY <1>2, <2>3
  <1> HIDE DEF num, n1, n2
  <1>4. /\ s[1] \in 0 .. n1 /\ s[2] \in 0 .. n2 /\ s[1] + s[2] = num
        /\ s[1] > s[2] + 1 => s[2] = n2
        /\ s[2] > s[1] + 1 => s[1] = n1
    BY <1>2, <1>3, SplitFits
  <1>5. toFence \in {s1 \cup s2 : s1 \in Drawn(s[1], Of(1)), s2 \in Drawn(s[2], Of(2))}
    BY DEF Init, Selections, num, n1, n2
  <1>6. PICK d1 \in Drawn(s[1], Of(1)), d2 \in Drawn(s[2], Of(2)) : toFence = d1 \cup d2
    BY <1>5
  <1> HIDE DEF s
  <1>7. /\ d1 \subseteq Of(1) /\ IsFiniteSet(d1) /\ Cardinality(d1) = s[1]
        /\ s[1] = n1 => Of(1) \subseteq d1
    BY <1>1, <1>4, DrawnFits DEF n1
  <1>8. /\ d2 \subseteq Of(2) /\ IsFiniteSet(d2) /\ Cardinality(d2) = s[2]
        /\ s[2] = n2 => Of(2) \subseteq d2
    BY <1>1, <1>4, DrawnFits DEF n2
  <1>9. d1 \cap d2 = {} /\ toFence \cap Of(1) = d1 /\ toFence \cap Of(2) = d2
    BY <1>1, <1>6, <1>7, <1>8
  <1>10. Cardinality(toFence) = num
    <2>1. Cardinality(toFence) = s[1] + s[2] - Cardinality({})
      BY <1>6, <1>7, <1>8, <1>9, FS_Union
    <2> QED BY <1>4, <2>1, FS_EmptySet
  <1>11. ASSUME NEW r \in 1 .. 2,
                Cardinality(toFence \cap Of(r)) > Cardinality(toFence \cap Of(3 - r)) + 1
         PROVE  Of(3 - r) \subseteq toFence
    <2>1. CASE r = 1
      <3>1. 3 - r = 2
        BY <2>1
      <3>2. Cardinality(d1) > Cardinality(d2) + 1
        BY <1>9, <1>11, <2>1, <3>1
      <3>3. Of(2) \subseteq d2
        BY <1>4, <1>7, <1>8, <3>2
      <3> QED BY <1>6, <3>1, <3>3
    <2>2. CASE r = 2
      <3>1. 3 - r = 1
        BY <2>2
      <3>2. Cardinality(d2) > Cardinality(d1) + 1
        BY <1>9, <1>11, <2>2, <3>1
      <3>3. Of(1) \subseteq d1
        BY <1>4, <1>7, <1>8, <3>2
      <3> QED BY <1>6, <3>1, <3>3
    <2> QED BY <2>1, <2>2
  <1> QED BY <1>10, <1>11 DEF SelectionFits, num

\* As many nodes are fenced as the percentage asks for, as evenly as can be.
THEOREM SelectionCorrect == Spec => []SelectionFits
  <1>1. SelectionFits /\ [Next]_vars => SelectionFits'
    <2> SUFFICES ASSUME SelectionFits, [Next]_vars PROVE SelectionFits'
      OBVIOUS
    <2>1. UNCHANGED setting
      BY DEF Next, Suite, SuiteDelays, SuiteGoesOn, SuitePasses, SuiteFails,
             Script, ReadLine, Commands, Command, CommandFails, Swallow, LineDone, ScriptEnds, vars
    <2> QED BY <2>1 DEF SelectionFits, Of, setting
  <1> QED BY SelectionInit, <1>1, PTL DEF Spec

-----------------------------------------------------------------------------
(* The inductive invariant of the run. *)

\* What a node is when all that the lines of a set call for is done.
After(n, chosen, lines) ==
    CASE n \in chosen /\ 2 \in lines -> "fenced"
      [] n \notin chosen /\ 3 \in lines -> "down"
      [] OTHER -> IF 1 \in lines THEN "up" ELSE "down"

\* The lines that are done on a node.
Done(n) == {k \in 1 .. 3 : k <= line /\ k \notin lost /\ <<n, k>> \notin pending}

\* A fenced node is one that was selected, and the line that starts it is past.
FenceInv == \A n \in Node : service[n] = "fenced" => n \in toFence /\ line >= 2

\* A suite that is held back is one line ahead at the most, in a delay: no line is
\* there to be swallowed.
PaceInv ==
    prompt => /\ suite = "delays" \/ (read = written /\ ~busy)
              /\ written <= read + 1 /\ (busy => read = written)
              /\ lost = {}

\* What is gone from the output after the last line read is lost, and the first
\* line is gone before any other.
LostInv ==
    /\ \A k \in 1 .. 3 : line < k /\ k <= read => k \in lost
    /\ line \notin lost
    /\ read > 0 => line > 0

\* Unless a command has failed, each node has obeyed all the lines read, the last
\* only where no command is under way.
ObeyInv == ~failed => \A n \in Node : service[n] = After(n, toFence, Done(n))

\* A suite that has passed has written all its lines, a script that has ended has
\* none left.
EndInv ==
    /\ suite = "passed" => written = 3
    /\ script = "ended" => Over /\ ~busy /\ read = written

IInv == TypeOK /\ FenceInv /\ PaceInv /\ LostInv /\ ObeyInv /\ EndInv

-----------------------------------------------------------------------------
(* Each conjunct is preserved. *)

LEMMA TypeStep == ASSUME TypeOK, [Next]_vars PROVE TypeOK'
  <1> USE DEF TypeOK, setting, output, nodes
  <1>1. CASE Suite
    BY <1>1 DEF Suite, SuiteDelays, SuiteGoesOn, SuitePasses, SuiteFails, Targets
  <1>2. CASE ReadLine
    <2>1. pending = {}
      BY <1>2 DEF ReadLine
    <2>2. pending' \subseteq Targets(line)' \X {line'}
      BY <1>2, <2>1 DEF ReadLine, Targets
    <2>3. /\ read' \in 0 .. written' /\ line' \in 0 .. read' /\ lost' \subseteq 2 .. read'
          /\ line' > 0 /\ busy' = TRUE
          /\ UNCHANGED <<written, toFence, prompt, suite, failed, script, service>>
      BY <1>2 DEF ReadLine
    <2> QED BY <2>2, <2>3
  <1>3. ASSUME NEW n \in Node, NEW k \in 1 .. 3, Command(n, k) PROVE TypeOK'
    <2>1. service' \in [Node -> {"down", "up", "fenced"}]
      BY <1>3 DEF Command, Effect
    <2> QED BY <1>3, <2>1 DEF Command, Targets
  <1>4. ASSUME NEW n \in Node, NEW k \in 1 .. 3, CommandFails(n, k) PROVE TypeOK'
    BY <1>4 DEF CommandFails, Targets
  <1>5. CASE LineDone \/ ScriptEnds
    <2>1. UNCHANGED <<setting, suite, written, output, nodes>> /\ busy' = FALSE
          /\ script' \in {"running", "ended"}
      BY <1>5 DEF LineDone, ScriptEnds
    <2>2. pending = {}
      BY <1>5 DEF LineDone, ScriptEnds
    <2> QED BY <2>1, <2>2
  <1>6. CASE Swallow
    <2>1. PICK k \in read + 1 .. written : read' = k /\ lost' = lost \cup (read + 1 .. k)
      BY <1>6 DEF Swallow
    <2>2. UNCHANGED <<setting, suite, written, line, busy, nodes, script>>
      BY <1>6 DEF Swallow
    <2>3. read >= 1
      BY <1>6 DEF Swallow, Foreground, Targets
    <2>4. read' \in 0 .. written' /\ line' \in 0 .. read' /\ lost' \subseteq 2 .. read'
      BY <2>1, <2>2, <2>3
    <2> QED BY <2>2, <2>4 DEF Targets
  <1>7. CASE UNCHANGED vars
    BY <1>7 DEF vars, Targets
  <1> QED BY <1>1, <1>2, <1>3, <1>4, <1>5, <1>6, <1>7 DEF Next, Script, Commands

\* A command is one of the last line read, and goes to a node that this is for.
LEMMA CommandOfLine ==
    ASSUME TypeOK, NEW n \in Node, NEW k \in 1 .. 3, <<n, k>> \in pending
    PROVE  /\ k = line /\ line \in 1 .. 3 /\ busy
           /\ n \in Targets(line)
  BY DEF TypeOK

LEMMA FenceStep == ASSUME TypeOK, FenceInv, [Next]_vars PROVE FenceInv'
  <1> USE DEF FenceInv, setting, output, nodes
  <1>1. CASE Suite
    BY <1>1 DEF Suite, SuiteDelays, SuiteGoesOn, SuitePasses, SuiteFails
  <1>2. CASE ReadLine
    BY <1>2 DEF ReadLine, TypeOK
  <1>3. ASSUME NEW n \in Node, NEW k \in 1 .. 3, Command(n, k) PROVE FenceInv'
    <2>1. k = line /\ line \in 1 .. 3 /\ n \in Targets(line)
      BY <1>3, CommandOfLine DEF Command
    <2>2. service' = [service EXCEPT ![n] = Effect(k)] /\ UNCHANGED <<toFence, line>>
      BY <1>3 DEF Command
    <2>3. Effect(k) = "fenced" => n \in toFence /\ line >= 2
      BY <2>1 DEF Effect, Targets
    <2> QED BY <2>2, <2>3 DEF TypeOK
  <1>4. ASSUME NEW n \in Node, NEW k \in 1 .. 3, CommandFails(n, k) PROVE FenceInv'
    BY <1>4 DEF CommandFails
  <1>5. CASE Swallow \/ LineDone \/ ScriptEnds
    BY <1>5 DEF Swallow, LineDone, ScriptEnds
  <1>6. CASE UNCHANGED vars
    BY <1>6 DEF vars
  <1> QED BY <1>1, <1>2, <1>3, <1>4, <1>5, <1>6 DEF Next, Script, Commands

LEMMA PaceStep == ASSUME TypeOK, PaceInv, [Next]_vars PROVE PaceInv'
  <1> SUFFICES ASSUME prompt'
               PROVE  /\ suite' = "delays" \/ (read' = written' /\ ~busy')
                      /\ written' <= read' + 1 /\ (busy' => read' = written')
                      /\ lost' = {}
    BY DEF PaceInv
  <1> USE DEF output
  <1>1. written \in Int /\ read \in Int /\ read <= written
    BY DEF TypeOK
  <1>2. prompt
    BY DEF Next, Suite, SuiteDelays, SuiteGoesOn, SuitePasses, SuiteFails, Script, ReadLine,
           Commands, Command, CommandFails, Swallow, LineDone, ScriptEnds, vars, setting
  <1>3. /\ suite = "delays" \/ (read = written /\ ~busy)
        /\ written <= read + 1 /\ (busy => read = written)
        /\ lost = {}
    BY <1>2 DEF PaceInv
  <1>4. CASE SuiteDelays
    BY <1>1, <1>3, <1>4 DEF SuiteDelays
  <1>5. CASE SuiteGoesOn
    BY <1>1, <1>2, <1>3, <1>5 DEF SuiteGoesOn
  <1>6. CASE SuitePasses \/ SuiteFails
    BY <1>1, <1>3, <1>6 DEF SuitePasses, SuiteFails
  <1>7. CASE ReadLine
    BY <1>1, <1>3, <1>7 DEF ReadLine
  <1>8. CASE LineDone \/ ScriptEnds
    BY <1>1, <1>3, <1>8 DEF LineDone, ScriptEnds
  <1>9. CASE Commands \/ UNCHANGED vars
    <2>1. UNCHANGED <<suite, written, output, busy>>
      BY <1>9 DEF Commands, Command, CommandFails, vars
    <2> QED BY <1>3, <2>1
  <1>10. ~Swallow
    BY <1>1, <1>3 DEF Swallow, Foreground
  <1> QED BY <1>4, <1>5, <1>6, <1>7, <1>8, <1>9, <1>10 DEF Next, Suite, Script

LEMMA LostStep == ASSUME TypeOK, LostInv, [Next]_vars PROVE LostInv'
  <1> USE DEF LostInv, TypeOK, output
  <1>1. CASE ReadLine
    BY <1>1 DEF ReadLine
  <1>2. CASE Swallow
    <2>1. PICK k \in read + 1 .. written : read' = k /\ lost' = lost \cup (read + 1 .. k)
      BY <1>2 DEF Swallow
    <2>2. line' = line /\ read >= 1
      BY <1>2 DEF Swallow, Foreground, Targets
    <2> QED BY <2>1, <2>2
  <1>3. ASSUME UNCHANGED output PROVE LostInv'
    BY <1>3
  <1> QED
    BY <1>1, <1>2, <1>3 DEF Next, Suite, SuiteDelays, SuiteGoesOn, SuitePasses, SuiteFails, Script,
       Commands, Command, CommandFails, LineDone, ScriptEnds, vars

LEMMA ObeyStep == ASSUME TypeOK, LostInv, ObeyInv, [Next]_vars PROVE ObeyInv'
  <1> USE DEF ObeyInv, setting, output, nodes
  <1>1. ASSUME NEW n \in Node, UNCHANGED <<output, pending>> PROVE Done(n)' = Done(n)
    BY <1>1 DEF Done
  <1>2. CASE UNCHANGED <<toFence, output, nodes>>
    BY <1>1, <1>2
  <1>3. CASE ReadLine
    <2> SUFFICES ASSUME ~failed', NEW n \in Node
                 PROVE  service'[n] = After(n, toFence', Done(n)')
      OBVIOUS
    <2>1. /\ line' = read + 1 /\ read \in 0 .. 2 /\ pending = {} /\ ~failed
          /\ pending' = Targets(read + 1) \X {read + 1}
          /\ UNCHANGED <<service, toFence, lost>>
      BY <1>3 DEF ReadLine, TypeOK
    <2>2. service[n] = After(n, toFence, Done(n))
      BY <2>1
    <2>3. \A k \in 1 .. 3 : k \in Done(n)' <=> k \in Done(n) \/ (k = read + 1 /\ n \notin Targets(k))
      BY <2>1 DEF Done, LostInv, TypeOK
    <2>4. CASE n \in Targets(read + 1)
      BY <2>1, <2>2, <2>3, <2>4 DEF After
    <2>5. CASE n \notin Targets(read + 1)
      BY <2>1, <2>2, <2>3, <2>5 DEF After, Targets
    <2> QED BY <2>4, <2>5
  <1>4. ASSUME NEW m \in Node, NEW j \in 1 .. 3, Command(m, j) PROVE ObeyInv'
    <2> SUFFICES ASSUME ~failed', NEW n \in Node
                 PROVE  service'[n] = After(n, toFence', Done(n)')
      OBVIOUS
    <2>1. j = line /\ line \in 1 .. 3 /\ m \in Targets(line)
      BY <1>4, CommandOfLine DEF Command
    <2>2. /\ service' = [service EXCEPT ![m] = Effect(line)] /\ ~failed
          /\ pending' = pending \ {<<m, line>>} /\ UNCHANGED <<toFence, line, lost>>
      BY <1>4, <2>1 DEF Command
    <2>3. service[n] = After(n, toFence, Done(n))
      BY <2>2
    <2>4. CASE n = m
      <3>1. \A k \in 1 .. 3 : k \in Done(n)' => k <= line
        BY <2>2 DEF Done
      <3>2. line \in Done(n)'
        BY <2>1, <2>2, <2>4 DEF Done, LostInv
      <3>3. Effect(line) = After(n, toFence, Done(n)')
        BY <2>1, <2>4, <3>1, <3>2 DEF Effect, After, Targets
      <3> QED BY <2>2, <2>4, <3>3 DEF TypeOK
    <2>5. CASE n # m
      <3>1. Done(n)' = Done(n)
        BY <2>2, <2>5 DEF Done
      <3> QED BY <2>2, <2>3, <2>5, <3>1 DEF TypeOK
    <2> QED BY <2>4, <2>5
  <1>5. ASSUME NEW n \in Node, NEW k \in 1 .. 3, CommandFails(n, k) PROVE ObeyInv'
    BY <1>5 DEF CommandFails
  <1>6. CASE Swallow
    <2>1. PICK j \in read + 1 .. written : read' = j /\ lost' = lost \cup (read + 1 .. j)
      BY <1>6 DEF Swallow
    <2>2. UNCHANGED <<setting, line, nodes>>
      BY <1>6 DEF Swallow
    <2>3. ASSUME NEW n \in Node PROVE Done(n)' = Done(n)
      BY <2>1, <2>2 DEF Done, TypeOK
    <2> QED BY <2>2, <2>3
  <1>7. CASE Suite \/ LineDone \/ ScriptEnds \/ UNCHANGED vars
    BY <1>2, <1>7 DEF Suite, SuiteDelays, SuiteGoesOn, SuitePasses, SuiteFails, LineDone, ScriptEnds, vars
  <1> QED BY <1>3, <1>4, <1>5, <1>6, <1>7 DEF Next, Script, Commands

LEMMA EndStep == ASSUME TypeOK, EndInv, [Next]_vars PROVE EndInv'
  <1> USE DEF EndInv, TypeOK, setting, output, nodes, Over
  <1>1. CASE Suite
    BY <1>1 DEF Suite, SuiteDelays, SuiteGoesOn, SuitePasses, SuiteFails
  <1>2. CASE ReadLine \/ Swallow \/ LineDone \/ ScriptEnds
    BY <1>2 DEF ReadLine, Swallow, Foreground, LineDone, ScriptEnds
  <1>3. CASE Commands
    BY <1>3 DEF Commands, Command, CommandFails
  <1>4. CASE UNCHANGED vars
    BY <1>4 DEF vars
  <1> QED BY <1>1, <1>2, <1>3, <1>4 DEF Next, Script

-----------------------------------------------------------------------------
(* The theorems. *)

LEMMA InvInit == Init => IInv
  <1> SUFFICES ASSUME Init PROVE IInv
    OBVIOUS
  <1>1. toFence \subseteq Node
    <2> DEFINE num == Split(NumToFence(Cardinality(Node), percentage),
                            Cardinality(Of(1)), Cardinality(Of(2)))
    <2>1. toFence \in {s1 \cup s2 : s1 \in Drawn(num[1], Of(1)), s2 \in Drawn(num[2], Of(2))}
      BY DEF Init, Selections
    <2> HIDE DEF num
    <2>2. PICK s1 \in Drawn(num[1], Of(1)), s2 \in Drawn(num[2], Of(2)) : toFence = s1 \cup s2
      BY <2>1
    <2>3. s1 \subseteq Of(1) /\ s2 \subseteq Of(2)
      BY DEF Drawn
    <2> QED BY <2>2, <2>3 DEF Of
  <1>2. TypeOK
    <2>1. written \in 0 .. 3 /\ read \in 0 .. written /\ line \in 0 .. read /\ lost \subseteq 2 .. read
      BY DEF Init
    <2>2. service \in [Node -> {"down", "up", "fenced"}]
      BY DEF Init
    <2>3. pending = {} /\ pending \subseteq Targets(line) \X {line}
      BY DEF Init
    <2> QED BY <1>1, <2>1, <2>2, <2>3 DEF Init, TypeOK
  <1>3. FenceInv /\ PaceInv /\ LostInv /\ EndInv
    BY <1>2 DEF Init, FenceInv, PaceInv, LostInv, EndInv
  <1>4. ObeyInv
    <2>1. ASSUME NEW n \in Node PROVE 1 \notin Done(n) /\ 2 \notin Done(n) /\ 3 \notin Done(n)
      BY DEF Init, Done
    <2> QED BY <2>1 DEF Init, ObeyInv, After
  <1> QED BY <1>2, <1>3, <1>4 DEF IInv

\* The inductive invariant holds throughout.
THEOREM Invariance == Spec => []IInv
  <1>1. IInv /\ [Next]_vars => IInv'
    BY TypeStep, FenceStep, PaceStep, LostStep, ObeyStep, EndStep DEF IInv
  <1> QED BY InvInit, <1>1, PTL DEF Spec

\* The script stays behind the suite, a command with the line it is of.
THEOREM TypeCorrect == Spec => []TypeOK
  BY Invariance, PTL DEF IInv

\* A fenced node stays fenced.
THEOREM FencedStays == Spec => FencedLeftAlone
  <1>1. IInv /\ [Next]_vars => [\A n \in Node : service[n] = "fenced" => service'[n] = "fenced"]_service
    <2> SUFFICES ASSUME IInv, [Next]_vars, service' # service,
                        NEW n \in Node, service[n] = "fenced"
                 PROVE  service'[n] = "fenced"
      OBVIOUS
    <2>1. PICK m \in Node, k \in 1 .. 3 : Command(m, k)
      BY DEF Next, Suite, SuiteDelays, SuiteGoesOn, SuitePasses, SuiteFails, Script, ReadLine,
             Commands, CommandFails, Swallow, LineDone, ScriptEnds, vars, nodes
    <2>2. TypeOK /\ n \in toFence /\ line >= 2
      BY DEF IInv, FenceInv
    <2>3. k = line /\ line \in 1 .. 3 /\ m \in Targets(line)
      BY <2>1, <2>2, CommandOfLine DEF Command
    <2>4. n = m => Effect(k) = "fenced"
      BY <2>2, <2>3 DEF Effect, Targets
    <2> QED BY <2>1, <2>2, <2>4 DEF Command, TypeOK
  <1> QED BY Invariance, <1>1, PTL DEF Spec, FencedLeftAlone

\* Where the delays are long enough, every node changes in its delay.
THEOREM InTime == Spec => ChangedInDelay
  <1>1. IInv /\ [Next]_vars => [prompt => suite = "delays" /\ read = written]_service
    <2> SUFFICES ASSUME IInv, [Next]_vars, service' # service, prompt
                 PROVE  suite = "delays" /\ read = written
      OBVIOUS
    <2>1. PICK m \in Node, k \in 1 .. 3 : Command(m, k)
      BY DEF Next, Suite, SuiteDelays, SuiteGoesOn, SuitePasses, SuiteFails, Script, ReadLine,
             Commands, CommandFails, Swallow, LineDone, ScriptEnds, vars, nodes
    <2>2. busy
      BY <2>1, CommandOfLine DEF Command, IInv
    <2> QED BY <2>2 DEF IInv, PaceInv
  <1> QED BY Invariance, <1>1, PTL DEF Spec, ChangedInDelay

\* A script that has followed a suite that passed leaves each node as the lines
\* that no command has swallowed call for, and with long delays none has.
THEOREM Tidy == Spec => []LeftTidy
  <1>1. IInv => LeftTidy
    <2> SUFFICES ASSUME IInv, suite = "passed", script = "ended", ~failed
                 PROVE  /\ prompt => lost = {}
                        /\ \A n \in Node :
                               service[n] = CASE n \in toFence /\ 2 \notin lost -> "fenced"
                                              [] n \notin toFence /\ 3 \notin lost -> "down"
                                              [] OTHER -> "up"
      BY DEF LeftTidy
    <2>1. read = 3 /\ pending = {}
      BY DEF IInv, EndInv, TypeOK
    <2>2. line \in 1 .. 3 /\ 1 \notin lost
      BY <2>1 DEF IInv, LostInv, TypeOK
    <2>3. ASSUME NEW n \in Node
          PROVE  1 \in Done(n) /\ (2 \in Done(n) <=> 2 \notin lost) /\ (3 \in Done(n) <=> 3 \notin lost)
      BY <2>1, <2>2 DEF IInv, LostInv, Done
    <2>4. prompt => lost = {}
      BY DEF IInv, PaceInv
    <2>5. ASSUME NEW n \in Node
          PROVE  service[n] = CASE n \in toFence /\ 2 \notin lost -> "fenced"
                                [] n \notin toFence /\ 3 \notin lost -> "down"
                                [] OTHER -> "up"
      BY <2>3 DEF IInv, ObeyInv, After
    <2> QED BY <2>4, <2>5
  <1> QED BY Invariance, <1>1, PTL
=============================================================================
