------------------------------ MODULE FenceRun ------------------------------
(***************************************************************************)
(* scripts/run_test_and_manage_cluster.sh beside the suite whose output it *)
(* follows: the compute nodes it selects to be fenced, and the services it *)
(* starts, fences and stops as the suite tells of its delays               *)
(* (DelayInState, int_test.go:88).  Nothing but the length of the delays   *)
(* holds the suite back until the script has done its work.                *)
(***************************************************************************)
EXTENDS Integers, FiniteSets

CONSTANTS
    Node,       \* ALL_NODES
    Percentages \* values of FENCE_PERCENTAGE

ASSUME NodeAssumption == IsFiniteSet(Node) /\ Node # {}
ASSUME PercentageAssumption == Percentages \subseteq 0 .. 100

VARIABLES
    percentage, \* FENCE_PERCENTAGE
    rabbit,     \* get_rabbit_for_compute
    toFence,    \* NODES_TO_FENCE
    prompt,     \* are the delays long enough for the script to keep up?
    suite,      \* "works" in a state, "delays" after it, or its end
    written,    \* the number of its "Delaying in state" lines
    read,       \* the number of them that are gone from its output
    line,       \* the last that the script has read
    lost,       \* history: those that a command has swallowed instead
    busy,       \* is the script at work on the last it has read?
    pending,    \* the nodes that a command is under way to, and its line
    service,    \* of each node: "down", "up" or "fenced"
    failed,     \* history: has a command failed?
    script      \* is the script "running" or has it "ended"?

setting == <<percentage, rabbit, toFence, prompt>>
output  == <<read, line, lost>>
nodes   == <<pending, service, failed>>
vars    == <<setting, suite, written, output, busy, nodes, script>>

-----------------------------------------------------------------------------
(* The selection. *)

NumToFence(n, p) ==
    LET share == (n * p) \div 100 IN IF share = 0 /\ p > 0 THEN 1 ELSE share

\* As Split, were the first rabbit never asked for more.
SplitEven(num, n1, n2) == <<num \div 2, num - num \div 2>>

\* <<NUM_FROM_RABBIT1, NUM_FROM_RABBIT2>>
Split(num, n1, n2) ==
    LET half  == num \div 2
        first == IF half > n1 THEN n1 ELSE half
    IN  IF num - first > n2 THEN <<num - n2, n2>> ELSE <<first, num - first>>

Of(r) == {n \in Node : rabbit[n] = r}

\* head -n of a shuffled list.
Drawn(num, from) ==
    {drawn \in SUBSET from :
        Cardinality(drawn) = IF num > Cardinality(from) THEN Cardinality(from) ELSE num}

Selections ==
    LET num == Split(NumToFence(Cardinality(Node), percentage),
                     Cardinality(Of(1)), Cardinality(Of(2)))
    IN  {s1 \cup s2 : s1 \in Drawn(num[1], Of(1)), s2 \in Drawn(num[2], Of(2))}

-----------------------------------------------------------------------------
(* The suite. *)

Over == suite \in {"passed", "failed"}

\* DataIn, PreRun and DataOut are followed by a delay, which a line announces.
SuiteDelays ==
    /\ suite = "works" /\ written < 3
    /\ suite' = "delays" /\ written' = written + 1
    /\ UNCHANGED <<setting, output, busy, nodes, script>>

SuiteGoesOn ==
    /\ suite = "delays"
    /\ prompt => read = written /\ ~busy
    /\ suite' = "works"
    /\ UNCHANGED <<setting, written, output, busy, nodes, script>>

SuitePasses ==
    /\ suite = "works" /\ written = 3
    /\ suite' = "passed"
    /\ UNCHANGED <<setting, written, output, busy, nodes, script>>

SuiteFails ==
    /\ suite = "works"
    /\ suite' = "failed"
    /\ UNCHANGED <<setting, written, output, busy, nodes, script>>

Suite == SuiteDelays \/ SuiteGoesOn \/ SuitePasses \/ SuiteFails

-----------------------------------------------------------------------------
(* The script. *)

\* As Targets, were the services to be stopped on all the nodes.
TargetsAll(k) == IF k = 2 THEN toFence ELSE Node

\* The nodes that line k calls for a command on.
Targets(k) ==
    CASE k = 1 -> Node
      [] k = 2 -> toFence
      [] OTHER -> Node \ toFence

Effect(k) ==
    CASE k = 1 -> "up"
      [] k = 2 -> "fenced"
      [] OTHER -> "down"

ReadLine ==
    /\ ~busy /\ read < written
    /\ read' = read + 1 /\ line' = read + 1 /\ busy' = TRUE
    /\ pending' = pending \cup (Targets(read + 1) \X {read + 1})
    /\ UNCHANGED <<setting, suite, written, lost, service, failed, script>>

Command(n, k) ==
    /\ <<n, k>> \in pending
    /\ pending' = pending \ {<<n, k>>}
    /\ service' = [service EXCEPT ![n] = Effect(k)]
    /\ UNCHANGED <<setting, suite, written, output, busy, failed, script>>

\* Nothing looks at how a command ends.
CommandFails(n, k) ==
    /\ <<n, k>> \in pending
    /\ pending' = pending \ {<<n, k>>}
    /\ failed' = TRUE
    /\ UNCHANGED <<setting, suite, written, output, busy, service, script>>

\* May a clush run in the foreground?  The nodes are started and stopped by one;
\* they are fenced in the background, and asked about it afterwards.
Foreground ==
    /\ busy /\ Targets(line) # {}
    /\ line = 2 => pending = {}

\* A clush in the foreground has the standard input of the loop, the output of the
\* suite, for its own, and may read from there whatever is written by now.
Swallow ==
    /\ Foreground
    /\ \E k \in read + 1 .. written : read' = k /\ lost' = lost \cup (read + 1 .. k)
    /\ UNCHANGED <<setting, suite, written, line, busy, nodes, script>>

\* As LineDone, were the fence commands in the background not waited for.
LineDoneNoWait ==
    /\ busy /\ (pending = {} \/ line = 2)
    /\ busy' = FALSE
    /\ UNCHANGED <<setting, suite, written, output, nodes, script>>

\* clush returns when all its nodes have, wait when all of clush have.
LineDone ==
    /\ busy /\ pending = {}
    /\ busy' = FALSE
    /\ UNCHANGED <<setting, suite, written, output, nodes, script>>

\* As ScriptEnds, did the script not read on after the end of the suite.
ScriptEndsEarly ==
    /\ script = "running" /\ ~busy /\ Over
    /\ script' = "ended"
    /\ UNCHANGED <<setting, suite, written, output, busy, nodes>>

\* The output is read to its end.
ScriptEnds ==
    /\ script = "running" /\ ~busy /\ Over /\ read = written
    /\ script' = "ended"
    /\ UNCHANGED <<setting, suite, written, output, busy, nodes>>

Commands == \E n \in Node, k \in 1 .. 3 : Command(n, k) \/ CommandFails(n, k)

Script == ReadLine \/ Commands \/ Swallow \/ LineDone \/ ScriptEnds

-----------------------------------------------------------------------------
Init ==
    /\ percentage \in Percentages /\ rabbit \in [Node -> 1 .. 2]
    /\ toFence \in Selections
    /\ prompt \in BOOLEAN
    /\ suite = "works" /\ written = 0
    /\ read = 0 /\ line = 0 /\ lost = {} /\ busy = FALSE /\ pending = {}
    /\ service = [n \in Node |-> "down"]
    /\ failed = FALSE /\ script = "running"

Next == Suite \/ Script

Spec == Init /\ [][Next]_vars

-----------------------------------------------------------------------------
(* Properties. *)

\* The script is never ahead of the suite, and a command is one of the line it
\* works on; the first line is never lost.
TypeOK ==
    /\ toFence \subseteq Node /\ prompt \in BOOLEAN
    /\ suite \in {"works", "delays", "passed", "failed"}
    /\ written \in 0 .. 3 /\ read \in 0 .. written
    /\ line \in 0 .. read /\ lost \subseteq 2 .. read
    /\ busy \in BOOLEAN /\ failed \in BOOLEAN /\ script \in {"running", "ended"}
    /\ pending \subseteq Targets(line) \X {line}
    /\ (pending # {} => busy) /\ (busy => line > 0)
    /\ service \in [Node -> {"down", "up", "fenced"}]

\* As many nodes are fenced as the percentage asks for, one at the least unless it
\* is zero, however few of them one rabbit has; and they are spread over both
\* rabbits as evenly as these have nodes.
SelectionFits ==
    LET f(r) == Cardinality(toFence \cap Of(r)) IN
    /\ Cardinality(toFence) = NumToFence(Cardinality(Node), percentage)
    /\ \A r \in 1 .. 2 : f(r) > f(3 - r) + 1 => Of(3 - r) \subseteq toFence

\* A fenced node stays fenced: however far the script is behind, its services are
\* neither started nor stopped again.
FencedLeftAlone == [][\A n \in Node : service[n] = "fenced" => service'[n] = "fenced"]_service

\* Where the delays are long enough, every node changes during the delay that is
\* meant for it: none is fenced while the workflow is on its way to PostRun.
ChangedInDelay == [][prompt => suite = "delays" /\ read = written]_service

\* When the script has followed a suite that passed, all commands succeeding, each
\* node is fenced, if it was selected, and stopped otherwise, unless a command has
\* swallowed the very line that calls for it: then its services run on.  No line is
\* lost where the delays are long enough.
LeftTidy ==
    suite = "passed" /\ script = "ended" /\ ~failed =>
        /\ prompt => lost = {}
        /\ \A n \in Node :
               service[n] = CASE n \in toFence /\ 2 \notin lost -> "fenced"
                              [] n \notin toFence /\ 3 \notin lost -> "down"
                              [] OTHER -> "up"
=============================================================================
