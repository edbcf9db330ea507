-------------------------- MODULE TestBuilder_proofs --------------------------
(***************************************************************************)
(* What the options of a test are after a chain of calls of any length, for *)
(* any list of directives; that the sound chains, and no others, make a     *)
(* test that works; and what the count of the copies tells, for any number  *)
(* of compute nodes and of copies.                                          *)
(***************************************************************************)
EXTENDS TestBuilder, TestScripts_proofs

\* The profile that Prepare creates is the one the last call asks for, not a
\* mixture: a later WithStorageProfile... takes back what an earlier one set.
LastProfileCounts == Called("storage") # {} => opt.settings = LastSetting

-----------------------------------------------------------------------------
(* The inductive invariant: what the calls so far make of each option. *)

\* The calls there are, each with what it is called with.
Call ==
    ({"storage"} \X ({{}} \cup {{x} : x \in Setting}))
    \cup ({"pool"} \X PoolNames \X PoolCounts) \cup ({"lustre"} \X LustreNames)
    \cup {<<c>> : c \in {"container", "computes", "cleanup", "global"}}

IsLast(k, c) == k \in Called(c) /\ \A j \in Called(c) : j <= k

\* The name of the profile and its settings are those of the last call that is
\* about it.
StorageInv ==
    \/ Called("storage") = {} /\ opt.storageProfile = NoName /\ opt.settings = {}
    \/ \E k \in DOMAIN calls :
          /\ IsLast(k, "storage")
          /\ opt.settings = calls[k][2] /\ opt.storageProfile # NoName

LustreInv ==
    \/ Called("lustre") = {} /\ opt.persistentLustre = 0
    \/ IsLast(opt.persistentLustre, "lustre")

PoolInv ==
    \/ Called("pool") = {} /\ opt.mgsPool.count = 0
    \/ \E k \in DOMAIN calls :
          IsLast(k, "pool") /\ opt.mgsPool = [name |-> calls[k][2], count |-> calls[k][3]]

\* The global lustre is made of the persistent one of the last call before its own.
GlobalInv ==
    \/ Called("global") = {} /\ opt.globalLustre = NoGlobal
    \/ \E k \in DOMAIN calls, p \in Called("lustre"), name \in GlobalNames :
          /\ IsLast(k, "global") /\ p < k
          /\ \A j \in Called("lustre") : j < k => j <= p
          /\ opt.globalLustre =
               [name |-> name, persistent |-> p, in |-> Has("copy_in"), out |-> OutPath]

CleanupInv ==
    /\ opt.cleanupPersistent = (Called("cleanup") # {})
    /\ opt.cleanupPersistent => Has("create_persistent")

ChainOK ==
    /\ directives \in DirectiveLists /\ calls \in Seq(Call)
    /\ DOMAIN opt = DOMAIN NoOptions

IInv == ChainOK /\ StorageInv /\ LustreInv /\ PoolInv /\ GlobalInv /\ CleanupInv

-----------------------------------------------------------------------------
(* Every call preserves it. *)

\* What a call c does to the options.
Follows(c) ==
    /\ calls' = Append(calls, c) /\ directives' = directives
    /\ DOMAIN opt' = DOMAIN NoOptions
    /\ IF c[1] = "storage"
       THEN opt'.settings = c[2] /\ opt'.storageProfile # NoName
       ELSE opt'.settings = opt.settings /\ opt'.storageProfile = opt.storageProfile
    /\ opt'.persistentLustre =
          IF c[1] = "lustre" THEN Len(calls) + 1 ELSE opt.persistentLustre
    /\ opt'.mgsPool =
          IF c[1] = "pool" THEN [name |-> c[2], count |-> c[3]] ELSE opt.mgsPool
    /\ IF c[1] = "global"
       THEN /\ opt.persistentLustre # 0
            /\ \E name \in GlobalNames :
                  opt'.globalLustre = [name |-> name, persistent |-> opt.persistentLustre,
                                       in |-> Has("copy_in"), out |-> OutPath]
       ELSE opt'.globalLustre = opt.globalLustre
    /\ IF c[1] = "cleanup"
       THEN opt'.cleanupPersistent = TRUE /\ Has("create_persistent")
       ELSE opt'.cleanupPersistent = opt.cleanupPersistent

\* The calls so far stay, and c is the last one of its kind.
LEMMA Appended ==
    ASSUME calls \in Seq(Call), NEW c \in Call, calls' = Append(calls, c),
           NEW n, n = Len(calls) + 1
    PROVE  /\ calls' \in Seq(Call) /\ n \in DOMAIN calls' /\ calls'[n] = c
           /\ n \in Nat \ {0} /\ IsLast(n, c[1])'
           /\ \A k \in DOMAIN calls : k \in Nat /\ k < n /\ k \in DOMAIN calls' /\ calls'[k] = calls[k]
           /\ \A x : Called(x) \subseteq DOMAIN calls
           /\ \A x : x # c[1] => Called(x)' = Called(x)
           /\ Called(c[1])' = Called(c[1]) \cup {n}
  <1>1. /\ calls' \in Seq(Call) /\ DOMAIN calls = 1 .. n - 1 /\ DOMAIN calls' = 1 .. n
        /\ n \in Nat \ {0} /\ calls'[n] = c /\ \A k \in 1 .. n - 1 : calls'[k] = calls[k]
    OBVIOUS
  <1>2. \A x : Called(x)' = Called(x) \cup (IF x = c[1] THEN {n} ELSE {})
    BY <1>1 DEF Called
  <1>3. \A x : Called(x) \subseteq 1 .. n - 1
    BY <1>1 DEF Called
  <1>4. n \in Called(c[1])' /\ \A j \in Called(c[1])' : j <= n
    BY <1>1, <1>2, <1>3
  <1>5. IsLast(n, c[1])'
    BY <1>4 DEF IsLast
  <1>6. \A k \in DOMAIN calls : k \in Nat /\ k < n /\ k \in DOMAIN calls' /\ calls'[k] = calls[k]
    BY <1>1
  <1>7. \A x : x # c[1] => Called(x)' = Called(x)
    BY <1>2
  <1>8. Called(c[1])' = Called(c[1]) \cup {n}
    BY <1>2
  <1>9. /\ calls' \in Seq(Call) /\ n \in DOMAIN calls' /\ calls'[n] = c /\ n \in Nat \ {0}
         /\ \A x : Called(x) \subseteq DOMAIN calls
    BY <1>1, <1>3
  <1> QED BY <1>5, <1>6, <1>7, <1>8, <1>9

\* Has and OutPath are of the directives alone.
LEMMA SameDirectives ==
    ASSUME directives' = directives
    PROVE  /\ \A x : Has(x)' = Has(x)
           /\ OutPath' = OutPath
  BY DEF Has, OutPath, CopyOuts, LastType

\* A call that does what it is to do keeps the invariant.
LEMMA CallStep ==
    ASSUME IInv, NEW c \in Call, Follows(c)
    PROVE  IInv'
  <1>0. PICK n : n = Len(calls) + 1
    OBVIOUS
  <1>1. calls \in Seq(Call) /\ calls' = Append(calls, c)
    BY DEF IInv, ChainOK, Follows
  <1>2. /\ calls' \in Seq(Call) /\ n \in DOMAIN calls' /\ calls'[n] = c
        /\ n \in Nat \ {0} /\ IsLast(n, c[1])'
        /\ \A k \in DOMAIN calls : k \in Nat /\ k < n /\ k \in DOMAIN calls' /\ calls'[k] = calls[k]
        /\ \A x : Called(x) \subseteq DOMAIN calls
        /\ \A x : x # c[1] => Called(x)' = Called(x)
        /\ Called(c[1])' = Called(c[1]) \cup {n}
    BY <1>0, <1>1, Appended
  <1>3. ChainOK'
    BY <1>2 DEF IInv, ChainOK, Follows
  <1>4. StorageInv'
    <2>1. CASE c[1] = "storage"
      <3>1. IsLast(n, "storage")' /\ opt'.settings = calls'[n][2] /\ opt'.storageProfile # NoName
        BY <1>2, <2>1 DEF Follows
      <3> QED BY <1>2, <3>1 DEF StorageInv
    <2>2. CASE c[1] # "storage"
      BY <1>2, <2>2 DEF IInv, StorageInv, IsLast, Follows
    <2> QED BY <2>1, <2>2
  <1>5. LustreInv'
    <2>1. CASE c[1] = "lustre"
      <3>1. IsLast(n, "lustre")' /\ opt'.persistentLustre = n
        BY <1>0, <1>2, <2>1 DEF Follows
      <3> QED BY <3>1 DEF LustreInv, IsLast
    <2>2. CASE c[1] # "lustre"
      BY <1>2, <2>2 DEF IInv, LustreInv, IsLast, Follows
    <2> QED BY <2>1, <2>2
  <1>6. PoolInv'
    <2>1. CASE c[1] = "pool"
      <3>1. IsLast(n, "pool")' /\ opt'.mgsPool = [name |-> calls'[n][2], count |-> calls'[n][3]]
        BY <1>2, <2>1 DEF Follows
      <3> QED BY <1>2, <3>1 DEF PoolInv
    <2>2. CASE c[1] # "pool"
      BY <1>2, <2>2 DEF IInv, PoolInv, IsLast, Follows
    <2> QED BY <2>1, <2>2
  <1>7. GlobalInv'
    <2>0. (\A x : Has(x)' = Has(x)) /\ OutPath' = OutPath
      BY SameDirectives DEF Follows
    <2>1. CASE c[1] = "global"
      <3>1. PICK p : p = opt.persistentLustre
        OBVIOUS
      <3>2. IsLast(p, "lustre")
        BY <2>1, <3>1 DEF IInv, LustreInv, Follows
      <3>3. /\ p \in Called("lustre")' /\ p < n /\ IsLast(n, "global")'
            /\ \A j \in Called("lustre")' : j < n => j <= p
        BY <1>2, <2>1, <3>2 DEF IsLast
      <3>4. PICK name \in GlobalNames :
               opt'.globalLustre =
                 [name |-> name, persistent |-> p, in |-> Has("copy_in")', out |-> OutPath']
        BY <2>0, <2>1, <3>1 DEF Follows
      <3> QED BY <1>2, <3>3, <3>4 DEF GlobalInv
    <2>2. CASE c[1] # "global"
      <3>1. opt'.globalLustre = opt.globalLustre /\ Called("global")' = Called("global")
        BY <1>2, <2>2 DEF Follows
      <3>2. CASE Called("global") = {} /\ opt.globalLustre = NoGlobal
        BY <3>1, <3>2 DEF GlobalInv
      <3>3. CASE ~(Called("global") = {} /\ opt.globalLustre = NoGlobal)
        <4>1. PICK k \in DOMAIN calls, p \in Called("lustre"), name \in GlobalNames :
                 /\ IsLast(k, "global") /\ p < k
                 /\ \A j \in Called("lustre") : j < k => j <= p
                 /\ opt.globalLustre =
                      [name |-> name, persistent |-> p, in |-> Has("copy_in"), out |-> OutPath]
          BY <3>3 DEF IInv, GlobalInv
        <4>2. Called("lustre")' \subseteq Called("lustre") \cup {n} /\ p \in Called("lustre")'
          BY <1>2
        <4>3. \A j \in Called("lustre")' : j < k => j <= p
          BY <1>2, <4>1, <4>2
        <4>4. IsLast(k, "global")' /\ k \in DOMAIN calls'
          BY <1>2, <3>1, <4>1 DEF IsLast
        <4>5. opt'.globalLustre =
                 [name |-> name, persistent |-> p, in |-> Has("copy_in")', out |-> OutPath']
          BY <2>0, <3>1, <4>1
        <4> QED BY <4>1, <4>2, <4>3, <4>4, <4>5 DEF GlobalInv
      <3> QED BY <3>2, <3>3
    <2> QED BY <2>1, <2>2
  <1>8. CleanupInv'
    <2>0. Has("create_persistent")' = Has("create_persistent")
      BY SameDirectives DEF Follows
    <2>1. CASE c[1] = "cleanup"
      <3>1. Called("cleanup")' # {} /\ opt'.cleanupPersistent = TRUE /\ Has("create_persistent")
        BY <1>2, <2>1 DEF Follows
      <3> QED BY <2>0, <3>1 DEF CleanupInv
    <2>2. CASE c[1] # "cleanup"
      <3>1. opt'.cleanupPersistent = opt.cleanupPersistent /\ Called("cleanup")' = Called("cleanup")
        BY <1>2, <2>2 DEF Follows
      <3> QED BY <2>0, <3>1 DEF IInv, CleanupInv
    <2> QED BY <2>1, <2>2
  <1> QED BY <1>3, <1>4, <1>5, <1>6, <1>7, <1>8 DEF IInv

\* A directive that has a profile is found if there is one.
LEMMA ProfileFound ==
    ASSUME directives \in DirectiveLists, NEW commands, Profiled(commands) # {}
    PROVE  ProfileOf(commands) # NoName
  <1> DEFINE S == Profiled(commands)
             T == {k \in Nat : \A j \in S : j > k}
  <1>1. S \subseteq Nat \ {0}
    BY BuilderAssumption DEF Profiled
  <1>2. PICK k \in Nat : k \in T /\ k + 1 \notin T
    <2>1. 0 \in T
      BY <1>1
    <2>2. ~(Nat \subseteq T)
      BY <1>1
    <2> HIDE DEF T
    <2> QED BY <2>1, <2>2, Induction
  <1>3. k + 1 \in S /\ \A j \in S : k + 1 <= j
    BY <1>1, <1>2
  <1>4. Min(S) \in S
    BY <1>3 DEF Min
  <1> QED BY <1>4 DEF ProfileOf, Profiled

\* Every step is one of these calls, or makes no call.
LEMMA BuilderStep == ASSUME IInv, [Next]_vars PROVE IInv'
  <1>0. DOMAIN opt = DOMAIN NoOptions
    BY DEF IInv, ChainOK
  <1>1. CASE UNCHANGED <<directives, opt, calls>>
    <2>1. \A x : Called(x)' = Called(x) /\ Has(x)' = Has(x)
      BY <1>1 DEF Called, Has
    <2>2. OutPath' = OutPath
      BY <1>1, SameDirectives
    <2> QED BY <1>1, <2>1, <2>2 DEF IInv, ChainOK, StorageInv, LustreInv, PoolInv, GlobalInv,
                                    CleanupInv, IsLast
  <1>2. CASE Panics
    BY <1>1, <1>2 DEF Panics
  <1>3. CASE WithStorageProfile /\ ~Panics
    <2> DEFINE commands == {"jobdw", "create_persistent"}
    <2>1. PICK set \in {{}} \cup {{y} : y \in Setting} :
             Sets(<<"storage", set>>, SetProfile(opt, ProfileOf(commands), set))
      BY <1>3 DEF WithStorageProfile
    <2>2. Profiled(commands) # {}
      BY <1>3 DEF WithStorageProfile
    <2>3. ProfileOf(commands) # NoName
      BY <2>2, ProfileFound DEF IInv, ChainOK
    <2>4. PICK c : c = <<"storage", set>>
      OBVIOUS
    <2>5. c \in Call /\ c[1] = "storage" /\ c[2] = set
      <3>1. c \in {"storage"} \X ({{}} \cup {{x} : x \in Setting})
        BY <2>4
      <3> QED BY <2>4, <3>1, Zenon DEF Call
    <2>6. Follows(c)
      BY <1>0, <2>1, <2>3, <2>4, <2>5 DEF Sets, SetProfile, Follows, NoOptions
    <2> QED BY <2>5, <2>6, CallStep
  <1>4. CASE WithContainerProfile /\ ~Panics
    <2>1. <<"container">> \in Call
      BY DEF Call
    <2>2. Follows(<<"container">>)
      BY <1>0, <1>4 DEF WithContainerProfile, Sets, Follows, NoOptions
    <2> QED BY <2>1, <2>2, CallStep
  <1>5. CASE WithExternalComputes
    <2>1. <<"computes">> \in Call
      BY DEF Call
    <2>2. Follows(<<"computes">>)
      BY <1>0, <1>5 DEF WithExternalComputes, Sets, Follows, NoOptions
    <2> QED BY <2>1, <2>2, CallStep
  <1>6. CASE WithPersistentLustre
    <2>0. PICK name \in LustreNames :
             Sets(<<"lustre", name>>, [opt EXCEPT !.persistentLustre = Len(calls) + 1])
      BY <1>6 DEF WithPersistentLustre
    <2>1. <<"lustre", name>> \in Call
      BY DEF Call
    <2>2. Follows(<<"lustre", name>>)
      BY <1>0, <2>0 DEF Sets, Follows, NoOptions
    <2> QED BY <2>1, <2>2, CallStep
  <1>7. CASE AndCleanupPersistentInstance /\ ~Panics
    <2>1. <<"cleanup">> \in Call
      BY DEF Call
    <2>2. Follows(<<"cleanup">>)
      BY <1>0, <1>7 DEF AndCleanupPersistentInstance, Sets, Follows, NoOptions
    <2> QED BY <2>1, <2>2, CallStep
  <1>8. CASE WithMgsPool
    <2>1. PICK name \in PoolNames, count \in PoolCounts :
             Sets(<<"pool", name, count>>,
                  [opt EXCEPT !.mgsPool = [name |-> name, count |-> count]])
      BY <1>8 DEF WithMgsPool
    <2>2. <<"pool", name, count>> \in Call
      BY DEF Call
    <2>3. Follows(<<"pool", name, count>>)
      BY <1>0, <2>1 DEF Sets, Follows, NoOptions
    <2> QED BY <2>2, <2>3, CallStep
  <1>9. CASE WithGlobalLustreFromPersistentLustre /\ ~Panics
    <2>1. <<"global">> \in Call
      BY DEF Call
    <2>2. Follows(<<"global">>)
      <3>1. PICK name \in GlobalNames : Sets(<<"global">>, FromPersistent(opt, name))
        BY <1>9 DEF WithGlobalLustreFromPersistentLustre
      <3>2. opt.persistentLustre # 0
        BY <1>9 DEF WithGlobalLustreFromPersistentLustre
      <3> QED BY <1>0, <3>1, <3>2 DEF FromPersistent, Sets, Follows, NoOptions
    <2> QED BY <2>1, <2>2, CallStep
  <1>10. CASE UNCHANGED vars
    BY <1>1, <1>10 DEF vars
  <1> QED BY <1>2, <1>3, <1>4, <1>5, <1>6, <1>7, <1>8, <1>9, <1>10
          DEF Next, WithGlobalLustre

\* The inductive invariant holds in every state of a chain of calls.
THEOREM Invariance == Spec => []IInv
  <1>1. ASSUME Init PROVE IInv
    <2>1. calls \in Seq(Call) /\ \A c : Called(c) = {}
      BY <1>1 DEF Init, Called
    <2>2. ChainOK
      BY <1>1, <2>1 DEF Init, ChainOK
    <2>3. StorageInv /\ LustreInv /\ PoolInv /\ GlobalInv
      BY <1>1, <2>1 DEF Init, NoOptions, StorageInv, LustreInv, PoolInv, GlobalInv
    <2>4. CleanupInv
      BY <1>1, <2>1 DEF Init, NoOptions, CleanupInv
    <2> QED BY <2>2, <2>3, <2>4 DEF IInv
  <1> QED BY <1>1, BuilderStep, PTL DEF Spec

\* The last call of a kind is the greatest of their numbers.
LEMMA LastIsMax ==
    ASSUME calls \in Seq(Call), NEW c, NEW k, IsLast(k, c)
    PROVE  Max(Called(c)) = k
  <1>1. Called(c) \subseteq Nat
    BY DEF Called
  <1>2. k \in Called(c) /\ \A j \in Called(c) : k >= j
    BY <1>1 DEF IsLast
  <1>3. \A x \in Called(c) : (\A j \in Called(c) : x >= j) => x = k
    BY <1>1, <1>2
  <1> QED BY <1>2, <1>3 DEF Max

\* The profile that Prepare creates has the settings of the last call of
\* WithStorageProfile or of its kind, and of no other, however many calls there are
\* and whatever the directives.
THEOREM LastCounts == Spec => []LastProfileCounts
  <1>1. IInv => LastProfileCounts
    BY LastIsMax DEF IInv, ChainOK, StorageInv, LastProfileCounts, LastSetting
  <1> QED BY <1>1, Invariance, PTL

-----------------------------------------------------------------------------
(* Numbers as they are written. *)

\* g writes the numbers up to n.
Writes(g, n) ==
    \A k \in 0 .. n : g[k] = IF k < 10 THEN <<k>> ELSE Append(g[k \div 10], k % 10)

\* A number of two digits or more is greater than what is left without the last.
LEMMA Tenth ==
    ASSUME NEW k \in Nat
    PROVE  /\ k \div 10 \in Nat /\ k % 10 \in 0 .. 9
           /\ k >= 10 => k \div 10 < k
  OBVIOUS

\* Every number has digits.
LEMMA WritesExists == ASSUME NEW n \in Nat PROVE \E g : Writes(g, n)
  <1> DEFINE S == {k \in Nat : \E g : Writes(g, k)}
  <1>1. 0 \in S
    <2>1. Writes([k \in {0} |-> <<0>>], 0)
      BY DEF Writes
    <2> QED BY <2>1
  <1>2. ASSUME NEW m \in Nat, m \in S PROVE m + 1 \in S
    <2>1. PICK g : Writes(g, m)
      BY <1>2
    <2> DEFINE h == [k \in 0 .. m + 1 |->
                       IF k # m + 1 THEN g[k]
                       ELSE IF k < 10 THEN <<k>> ELSE Append(g[k \div 10], k % 10)]
    <2>2. Writes(h, m + 1)
      <3> SUFFICES ASSUME NEW k \in 0 .. m + 1
                   PROVE  h[k] = IF k < 10 THEN <<k>> ELSE Append(h[k \div 10], k % 10)
        BY DEF Writes
      <3>1. k >= 10 => h[k \div 10] = g[k \div 10]
        <4>1. k >= 10 => k \div 10 \in 0 .. m + 1 /\ k \div 10 # m + 1
          BY Tenth
        <4> QED BY <4>1
      <3>2. h[k] = IF k # m + 1 THEN g[k]
                   ELSE IF k < 10 THEN <<k>> ELSE Append(g[k \div 10], k % 10)
        OBVIOUS
      <3> HIDE DEF h
      <3>3. CASE k = m + 1
        BY <3>1, <3>2, <3>3
      <3>4. CASE k # m + 1
        <4>1. k \in 0 .. m
          BY <3>4
        <4>2. g[k] = IF k < 10 THEN <<k>> ELSE Append(g[k \div 10], k % 10)
          BY <2>1, <4>1 DEF Writes
        <4> QED BY <3>1, <3>2, <3>4, <4>2
      <3> QED BY <3>3, <3>4
    <2> QED BY <2>2
  <1>3. n \in S
    <2> HIDE DEF S
    <2> QED BY <1>1, <1>2, Induction
  <1> QED BY <1>3

\* However far they are worked out, they are the same.
LEMMA WritesAlike ==
    ASSUME NEW n \in Nat, NEW m \in Nat, NEW g, NEW h, Writes(g, n), Writes(h, m), NEW k \in Nat,
           k <= n, k <= m
    PROVE  g[k] = h[k]
  <1> DEFINE S == {i \in Nat : \A j \in 0 .. i : j <= n /\ j <= m => g[j] = h[j]}
  <1>1. ASSUME NEW j \in Nat, j <= n, j <= m, j >= 10 => g[j \div 10] = h[j \div 10]
        PROVE  g[j] = h[j]
    <2>1. /\ g[j] = IF j < 10 THEN <<j>> ELSE Append(g[j \div 10], j % 10)
          /\ h[j] = IF j < 10 THEN <<j>> ELSE Append(h[j \div 10], j % 10)
      BY <1>1 DEF Writes
    <2> QED BY <1>1, <2>1
  <1>2. 0 \in S
    BY <1>1
  <1>3. ASSUME NEW i \in Nat, i \in S PROVE i + 1 \in S
    <2> SUFFICES ASSUME NEW j \in 0 .. i + 1, j <= n, j <= m PROVE g[j] = h[j]
      OBVIOUS
    <2>1. CASE j \in 0 .. i
      BY <1>3, <2>1
    <2>2. CASE j = i + 1
      <3>1. j >= 10 => j \div 10 \in 0 .. i /\ j \div 10 <= n /\ j \div 10 <= m
        BY <2>2, Tenth
      <3>2. j >= 10 => g[j \div 10] = h[j \div 10]
        BY <1>3, <3>1
      <3> QED BY <1>1, <3>2
    <2> QED BY <2>1, <2>2
  <1>4. k \in S
    <2> HIDE DEF S
    <2> QED BY <1>2, <1>3, Induction
  <1> QED BY <1>4

\* There is the one function that Digits is to be.
LEMMA DigitsAre ==
    ASSUME NEW k \in Nat
    PROVE  /\ k < 10 => Digits[k] = <<k>>
           /\ k >= 10 => Digits[k] = Append(Digits[k \div 10], k % 10)
  <1> DEFINE G(n) == CHOOSE g : Writes(g, n)
             F == [n \in Nat |-> G(n)[n]]
             D == CHOOSE f : f = [n \in Nat |->
                               IF n < 10 THEN <<n>> ELSE Append(f[n \div 10], n % 10)]
  <1>1. \A n \in Nat : Writes(G(n), n)
    BY WritesExists
  <1>2. ASSUME NEW n \in Nat
        PROVE  F[n] = IF n < 10 THEN <<n>> ELSE Append(F[n \div 10], n % 10)
    <2>1. F[n] = G(n)[n]
      OBVIOUS
    <2>2. F[n \div 10] = G(n \div 10)[n \div 10]
      BY Tenth
    <2> HIDE DEF F, G
    <2>3. G(n)[n] = IF n < 10 THEN <<n>> ELSE Append(G(n)[n \div 10], n % 10)
      BY <1>1 DEF Writes
    <2>4. CASE n < 10
      BY <2>1, <2>3, <2>4
    <2>5. CASE n >= 10
      <3>1. n \div 10 \in Nat /\ n \div 10 <= n
        BY <2>5, Tenth
      <3>2. G(n)[n \div 10] = G(n \div 10)[n \div 10]
        BY <1>1, <3>1, WritesAlike
      <3> QED BY <2>1, <2>2, <2>3, <2>5, <3>2
    <2> QED BY <2>4, <2>5
  <1>3. F = [n \in Nat |-> IF n < 10 THEN <<n>> ELSE Append(F[n \div 10], n % 10)]
    <2>1. F = [n \in Nat |-> F[n]]
      OBVIOUS
    <2> HIDE DEF F
    <2> QED BY <1>2, <2>1
  <1>4. \E f : f = [n \in Nat |-> IF n < 10 THEN <<n>> ELSE Append(f[n \div 10], n % 10)]
    <2> HIDE DEF F
    <2> QED BY <1>3
  <1>5. D = [n \in Nat |-> IF n < 10 THEN <<n>> ELSE Append(D[n \div 10], n % 10)]
    BY <1>4
  <1>6. Digits = D
    BY DEF Digits
  <1> HIDE DEF D
  <1>7. D[k] = IF k < 10 THEN <<k>> ELSE Append(D[k \div 10], k % 10)
    BY <1>5
  <1>8. k >= 10 => ~(k < 10)
    OBVIOUS
  <1> QED BY <1>6, <1>7, <1>8

\* A number has digits, and only one that is less than ten has but one.
LEMMA DigitsLong ==
    ASSUME NEW k \in Nat
    PROVE  /\ Digits[k] \in Seq(0 .. 9) /\ Len(Digits[k]) >= 1
           /\ k >= 10 => Len(Digits[k]) >= 2
  <1> DEFINE S == {i \in Nat : \A j \in 0 .. i :
                      /\ Digits[j] \in Seq(0 .. 9) /\ Len(Digits[j]) >= 1
                      /\ j >= 10 => Len(Digits[j]) >= 2}
  <1>1. ASSUME NEW j \in Nat,
               j >= 10 => Digits[j \div 10] \in Seq(0 .. 9) /\ Len(Digits[j \div 10]) >= 1
        PROVE  /\ Digits[j] \in Seq(0 .. 9) /\ Len(Digits[j]) >= 1
               /\ j >= 10 => Len(Digits[j]) >= 2
    <2>1. CASE j < 10
      <3>1. Digits[j] = <<j>>
        BY <2>1, DigitsAre
      <3>2. j \in 0 .. 9
        BY <2>1
      <3> QED BY <2>1, <3>1, <3>2
    <2>2. CASE j >= 10
      <3>1. PICK d : d = Digits[j \div 10]
        OBVIOUS
      <3>2. Digits[j] = Append(d, j % 10) /\ j % 10 \in 0 .. 9
        <4>1. Digits[j] = Append(Digits[j \div 10], j % 10)
          BY <2>2, DigitsAre
        <4> QED BY <3>1, <4>1, Tenth
      <3>3. d \in Seq(0 .. 9) /\ Len(d) >= 1
        BY <1>1, <2>2, <3>1
      <3> QED BY <3>2, <3>3
    <2> QED BY <2>1, <2>2
  <1>2. 0 \in S
    BY <1>1
  <1>3. ASSUME NEW i \in Nat, i \in S PROVE i + 1 \in S
    <2>1. i + 1 >= 10 => (i + 1) \div 10 \in 0 .. i
      BY Tenth
    <2>2. /\ Digits[i + 1] \in Seq(0 .. 9) /\ Len(Digits[i + 1]) >= 1
          /\ i + 1 >= 10 => Len(Digits[i + 1]) >= 2
      BY <1>1, <1>3, <2>1
    <2>3. \A j \in 0 .. i + 1 : j \in 0 .. i \/ j = i + 1
      OBVIOUS
    <2> QED BY <1>3, <2>2, <2>3
  <1>4. k \in S
    <2> HIDE DEF S
    <2> QED BY <1>2, <1>3, Induction
  <1> QED BY <1>4

-----------------------------------------------------------------------------
(* A number within another. *)

\* The digits of e are those of m from the a-th to the b-th.
Part(e, m, a, b) ==
    /\ a \in Nat \ {0} /\ b \in 0 .. Len(Digits[m])
    /\ Digits[e] = SubSeq(Digits[m], a, b)

\* A part of a sequence ends with its last element, or before it.
LEMMA PartOfAppend ==
    ASSUME NEW S, NEW d \in Seq(S), NEW x \in S, NEW a \in Nat \ {0}, NEW b \in 0 .. Len(d) + 1,
           a <= b
    PROVE  /\ b <= Len(d) => SubSeq(Append(d, x), a, b) = SubSeq(d, a, b)
           /\ b = Len(d) + 1 => SubSeq(Append(d, x), a, b) = Append(SubSeq(d, a, b - 1), x)
  <1>1. CASE b <= Len(d)
    BY <1>1
  <1>2. CASE b = Len(d) + 1
    <2>1. PICK r : r = SubSeq(Append(d, x), a, b)
      OBVIOUS
    <2>2. PICK q : q = SubSeq(d, a, b - 1)
      OBVIOUS
    <2>3. PICK n \in Nat : n = b - a
      OBVIOUS
    <2>4. /\ r \in Seq(S) /\ Len(r) = n + 1
          /\ \A i \in 1 .. n + 1 : r[i] = Append(d, x)[a + i - 1]
      <3>1. PICK w : w = Append(d, x)
        OBVIOUS
      <3>2. w \in Seq(S) /\ Len(w) = b
        BY <1>2, <3>1, AppendProperties
      <3>3. r = SubSeq(w, a, b) /\ a \in 1 .. b + 1 /\ b - a + 1 = n + 1
        BY <1>2, <2>1, <2>3, <3>1
      <3>4. /\ r \in Seq(S) /\ Len(r) = b - a + 1
            /\ \A i \in 1 .. b - a + 1 : r[i] = w[a + i - 1]
        BY <3>2, <3>3, SubSeqProperties
      <3> QED BY <3>1, <3>3, <3>4
    <2>5. q \in Seq(S) /\ Len(q) = n /\ \A i \in 1 .. n : q[i] = d[a + i - 1]
      BY <1>2, <2>2, <2>3
    <2>6. \A i \in 1 .. n : Append(d, x)[a + i - 1] = d[a + i - 1]
      BY <1>2, <2>3
    <2>7. Append(d, x)[a + (n + 1) - 1] = x
      BY <1>2, <2>3
    <2>8. PICK t : t = Append(q, x)
      OBVIOUS
    <2>9. t \in Seq(S) /\ Len(t) = n + 1 /\ t[n + 1] = x /\ \A i \in 1 .. n : t[i] = q[i]
      BY <2>5, <2>8, AppendProperties
    <2>10. \A i \in 1 .. n + 1 : r[i] = t[i]
      <3> SUFFICES ASSUME NEW i \in 1 .. n + 1 PROVE r[i] = t[i]
        OBVIOUS
      <3>1. CASE i = n + 1
        BY <2>4, <2>7, <2>9, <3>1
      <3>2. CASE i \in 1 .. n
        BY <2>4, <2>5, <2>6, <2>9, <3>2
      <3> QED BY <3>1, <3>2
    <2>11. r = t
      BY <2>4, <2>9, <2>10, SeqEqual
    <2> QED BY <1>2, <2>1, <2>2, <2>8, <2>11
  <1> QED BY <1>1, <1>2

\* Two sequences that are the same end in the same way.
LEMMA SameEnd ==
    ASSUME NEW S, NEW d \in Seq(S), NEW f \in Seq(S), NEW x \in S, NEW y \in S,
           Append(d, x) = Append(f, y)
    PROVE  d = f /\ x = y
  <1>1. PICK n \in Nat : n = Len(d)
    OBVIOUS
  <1>2. PICK r : r = Append(d, x)
    OBVIOUS
  <1>3. Len(r) = n + 1 /\ r[n + 1] = x /\ \A i \in 1 .. n : r[i] = d[i]
    BY <1>1, <1>2, AppendProperties
  <1>4. /\ Len(r) = Len(f) + 1 /\ r[Len(f) + 1] = y /\ \A i \in 1 .. Len(f) : r[i] = f[i]
    BY <1>2, AppendProperties
  <1>5. Len(f) = n
    BY <1>1, <1>3, <1>4
  <1>6. x = y /\ \A i \in 1 .. n : d[i] = f[i]
    BY <1>3, <1>4, <1>5
  <1> QED BY <1>1, <1>5, <1>6, SeqEqual

\* A number that is written within another one is not greater.
LEMMA WithinLess ==
    ASSUME NEW e \in Nat, NEW m \in Nat, NEW a, NEW b, Part(e, m, a, b)
    PROVE  e <= m
  <1> DEFINE S == {i \in Nat : \A k \in 0 .. i : \A f \in Nat :
                      (\E x, y : Part(f, k, x, y)) => f <= k}
  <1>1. ASSUME NEW k \in Nat, NEW f \in Nat, NEW x, NEW y, Part(f, k, x, y),
               k >= 10 => \A h \in Nat : (\E u, v : Part(h, k \div 10, u, v)) => h <= k \div 10
        PROVE  f <= k
    <2>1. PICK p, q : p = Digits[k] /\ q = Digits[f]
      OBVIOUS
    <2>2. /\ p \in Seq(0 .. 9) /\ q \in Seq(0 .. 9) /\ Len(q) >= 1
          /\ x \in Nat \ {0} /\ y \in 0 .. Len(p) /\ q = SubSeq(p, x, y)
          /\ f >= 10 => Len(q) >= 2
      BY <1>1, <2>1, DigitsLong DEF Part
    <2>3. x <= y
      BY <2>2
    <2>4. Len(q) = y - x + 1
      BY <2>2, <2>3
    <2>5. CASE k < 10
      <3>1. p = <<k>>
        BY <2>1, <2>5, DigitsAre
      <3>2. x = 1 /\ y = 1
        BY <2>2, <2>3, <3>1
      <3>3. Len(q) = 1 /\ q[1] = k
        BY <2>2, <3>1, <3>2
      <3>4. f < 10
        BY <2>2, <3>3
      <3>5. q = <<f>>
        BY <2>1, <3>4, DigitsAre
      <3> QED BY <3>3, <3>5
    <2>6. CASE k >= 10
      <3>1. PICK t \in Nat, z \in 0 .. 9 : t = k \div 10 /\ z = k % 10 /\ t <= k
        BY <2>6, Tenth
      <3>2. PICK d : d = Digits[t]
        OBVIOUS
      <3>3. d \in Seq(0 .. 9)
        BY <3>2, DigitsLong
      <3>4. p = Append(d, z)
        BY <2>1, <2>6, <3>1, <3>2, DigitsAre
      <3>5. y \in 0 .. Len(d) + 1
        BY <2>2, <3>3, <3>4
      <3>6. CASE y <= Len(d)
        <4>1. q = SubSeq(d, x, y)
          BY <2>2, <2>3, <3>3, <3>4, <3>5, <3>6, PartOfAppend
        <4>2. Part(f, t, x, y)
          BY <2>1, <2>2, <3>2, <3>3, <3>6, <4>1 DEF Part
        <4>3. f <= t
          BY <1>1, <2>6, <3>1, <4>2
        <4> QED BY <3>1, <4>3
      <3>7. CASE y = Len(d) + 1
        <4>1. q = Append(SubSeq(d, x, y - 1), z)
          BY <2>2, <2>3, <3>3, <3>4, <3>5, <3>7, PartOfAppend
        <4>2. PICK r : r = SubSeq(d, x, y - 1)
          OBVIOUS
        <4>3. r \in Seq(0 .. 9)
          <5>1. x \in Int /\ y - 1 \in Int /\ Len(d) \in Nat
            BY <2>2, <3>3
          <5>2. \A i \in x .. y - 1 : i \in 1 .. Len(d)
            BY <2>2, <3>7, <5>1
          <5>3. \A i \in x .. y - 1 : d[i] \in 0 .. 9
            BY <3>3, <5>2
          <5>4. SubSeq(d, x, y - 1) \in Seq(0 .. 9)
            BY <5>1, <5>3, SubSeqProperties
          <5> QED BY <4>2, <5>4
        <4>4. CASE f < 10
          <5>1. q = <<f>>
            BY <2>1, <4>4, DigitsAre
          <5>2. q[Len(q)] = z
            BY <4>1, <4>2, <4>3, AppendProperties
          <5>3. f = z
            BY <5>1, <5>2
          <5> QED BY <3>1, <5>3
        <4>5. CASE f >= 10
          <5>1. PICK g : g = Digits[f \div 10]
            OBVIOUS
          <5>2. q = Append(g, f % 10) /\ g \in Seq(0 .. 9) /\ f % 10 \in 0 .. 9 /\ f \div 10 \in Nat
            <6>1. q = Append(g, f % 10)
              BY <2>1, <4>5, <5>1, DigitsAre
            <6> QED BY <5>1, <6>1, Tenth, DigitsLong
          <5>3. g = r /\ f % 10 = z
            <6>1. PICK w \in 0 .. 9 : w = f % 10
              BY <5>2
            <6>2. Append(g, w) = Append(r, z)
              BY <4>1, <4>2, <5>2, <6>1
            <6>3. g = r /\ w = z
              BY <4>3, <5>2, <6>2, SameEnd
            <6> QED BY <6>1, <6>3
          <5>4. Part(f \div 10, t, x, y - 1)
            <6>1. y - 1 \in 0 .. Len(d)
              BY <2>2, <2>3, <3>7
            <6> QED BY <2>2, <3>2, <4>2, <5>1, <5>3, <6>1 DEF Part
          <5>5. f \div 10 <= k \div 10 /\ f % 10 = k % 10
            BY <1>1, <2>6, <3>1, <5>2, <5>3, <5>4
          <5> QED BY <5>5
        <4> QED BY <4>4, <4>5
      <3> QED BY <3>3, <3>5, <3>6, <3>7
    <2> QED BY <2>5, <2>6
  <1>2. 0 \in S
    <2> SUFFICES ASSUME NEW f \in Nat, NEW x, NEW y, Part(f, 0, x, y) PROVE f <= 0
      OBVIOUS
    <2> QED BY <1>1
  <1>3. ASSUME NEW i \in Nat, i \in S PROVE i + 1 \in S
    <2>1. i + 1 >= 10 => (i + 1) \div 10 \in 0 .. i
      BY Tenth
    <2>2. ASSUME NEW f \in Nat, NEW x, NEW y, Part(f, i + 1, x, y) PROVE f <= i + 1
      <3>1. i + 1 >= 10 =>
               \A h \in Nat : (\E u, v : Part(h, (i + 1) \div 10, u, v)) => h <= (i + 1) \div 10
        BY <1>3, <2>1
      <3> QED BY <1>1, <2>2, <3>1
    <2>3. \A j \in 0 .. i + 1 : j \in 0 .. i \/ j = i + 1
      OBVIOUS
    <2> QED BY <1>3, <2>2, <2>3
  <1>4. m \in S
    <2> HIDE DEF S
    <2> QED BY <1>2, <1>3, Induction
  <1> QED BY <1>4

\* grep finds the number of compute nodes in no count of the copies that is less,
\* for any number of nodes and copies: copies that are missing are noticed.
THEOREM Noticed == Spec => []MissingCopiesNoticed
  <1>1. MissingCopiesNoticed
    <2> SUFFICES ASSUME opt.globalLustre.out = "starred", NEW found \in 0 .. MaxCopies, Accepts(found)
                 PROVE  found >= Computes
      BY DEF MissingCopiesNoticed
    <2>1. Computes \in Nat /\ found \in Nat
      BY BuilderAssumption DEF Computes
    <2>2. Digits[Computes] \in SubSeqs(Digits[found])
      BY DEF Accepts, Grep
    <2>3. PICK i, j \in 0 .. Len(Digits[found]) : Digits[Computes] = SubSeq(Digits[found], i + 1, j)
      BY <2>2 DEF SubSeqs
    <2>4. Len(Digits[found]) \in Nat
      BY <2>1, DigitsLong
    <2>5. Part(Computes, found, i + 1, j)
      BY <2>3, <2>4 DEF Part
    <2> QED BY <2>1, <2>5, WithinLess
  <1> QED BY <1>1, PTL

-----------------------------------------------------------------------------
(* The sound chains. *)

\* What the options have to be like for the script to run to its end.
SoundOptions(o) ==
    /\ o.externalMgs => o.persistentLustre # NoName
    /\ Clear(o)
    /\ o.createPersistent # NoName => o.cleanupPersistent
    /\ Distinct(o)

\* What the copies have to be looked for like, and in what.
SoundCopies(o) ==
    /\ o.globalLustre # NoName => opt.globalLustre.persistent = opt.persistentLustre
    /\ o.copyOut => LooksRight /\ Accepts(Computes)

\* The fields of the options.
LEMMA OptionFields ==
    /\ Options.storageProfile = opt.storageProfile /\ Options.mgsPool = opt.mgsPool
    /\ Options.externalMgs = ("fromLustre" \in opt.settings)
    /\ Options.persistentLustre = LustreName
    /\ Options.globalLustre = opt.globalLustre.name
    /\ Options.copyIn = opt.globalLustre.in
    /\ Options.copyOut = (opt.globalLustre.out # "none")
    /\ Options.createPersistent = OwnName
    /\ Options.cleanupPersistent = opt.cleanupPersistent /\ Options.teardown = TRUE
  BY DEF Options

\* The fields of a global lustre.
LEMMA GlobalFields ==
    ASSUME NEW g, NEW name, NEW p, NEW in, NEW out,
           g = [name |-> name, persistent |-> p, in |-> in, out |-> out]
    PROVE  g.name = name /\ g.persistent = p /\ g.in = in /\ g.out = out
  OBVIOUS

\* What the calls are given is of the sets that they may be given.
LEMMA CallForms ==
    ASSUME NEW c \in Call
    PROVE  /\ c[1] = "lustre" => c[2] \in LustreNames
           /\ c[1] = "pool" => c[3] \in PoolCounts
  <1>1. \/ c \in {"storage"} \X ({{}} \cup {{x} : x \in Setting})
        \/ c \in {"pool"} \X PoolNames \X PoolCounts \/ c \in {"lustre"} \X LustreNames
        \/ c \in {<<d>> : d \in {"container", "computes", "cleanup", "global"}}
    BY DEF Call
  <1> QED BY <1>1

\* A file system that a directive makes has a name.
LEMMA OwnNamed ==
    ASSUME directives \in DirectiveLists PROVE OwnName # NoName <=> Has("create_persistent")
  <1>1. CASE Has("create_persistent")
    <2>1. \E d : d \in ToSet(directives) /\ d.command = "create_persistent"
      BY <1>1 DEF Has
    <2>2. PICK d : d = CHOOSE e \in ToSet(directives) : e.command = "create_persistent"
      OBVIOUS
    <2>3. d \in ToSet(directives) /\ d.command = "create_persistent"
      BY <2>1, <2>2
    <2>4. d.name # NoName
      BY <2>3, BuilderAssumption
    <2> QED BY <1>1, <2>2, <2>4 DEF OwnName
  <1>2. CASE ~Has("create_persistent")
    BY <1>2 DEF OwnName
  <1> QED BY <1>1, <1>2

\* The options, in terms of the calls.
LEMMA OptionsOfCalls ==
    ASSUME IInv
    PROVE  LET o == Options IN
           /\ o.persistentLustre # NoName <=> Called("lustre") # {}
           /\ Called("lustre") # {} => o.persistentLustre = calls[Max(Called("lustre"))][2]
           /\ o.globalLustre # NoName <=> Called("global") # {}
           /\ o.copyIn <=> Called("global") # {} /\ Has("copy_in")
           /\ o.copyOut <=> Called("global") # {} /\ CopyOuts # {}
           /\ o.storageProfile # NoName <=> Called("storage") # {}
           /\ o.externalMgs <=> Called("storage") # {} /\ LastSetting = {"fromLustre"}
           /\ o.cleanupPersistent <=> Called("cleanup") # {}
           /\ o.createPersistent # NoName <=> Has("create_persistent")
           /\ Called("global") # {} => Called("lustre") # {}
           /\ Called("cleanup") # {} => Has("create_persistent")
           /\ o.mgsPool.count \in Nat
           /\ Called("pool") = {} => o.mgsPool.count = 0
           /\ Called("pool") # {} =>
                 LET pool == calls[Max(Called("pool"))] IN
                 o.mgsPool.name = pool[2] /\ o.mgsPool.count = pool[3]
  <1>1. calls \in Seq(Call) /\ Called("lustre") \subseteq Nat \ {0}
    BY DEF IInv, ChainOK, Called
  <1>2. /\ Options.persistentLustre # NoName <=> Called("lustre") # {}
        /\ Called("lustre") # {} => Options.persistentLustre = calls[Max(Called("lustre"))][2]
    <2>1. Options.persistentLustre = LustreName
      BY OptionFields
    <2>2. CASE Called("lustre") = {} /\ opt.persistentLustre = 0
      BY <2>1, <2>2 DEF LustreName
    <2>3. CASE ~(Called("lustre") = {} /\ opt.persistentLustre = 0)
      <3>1. PICK k : k = opt.persistentLustre /\ IsLast(k, "lustre")
        BY <2>3 DEF IInv, LustreInv
      <3>2. k \in Called("lustre") /\ k # 0 /\ Max(Called("lustre")) = k
        BY <1>1, <3>1, LastIsMax DEF IsLast
      <3>3. LustreName = calls[k][2]
        BY <3>1, <3>2 DEF LustreName
      <3>4. PICK c \in Call : c = calls[k] /\ c[1] = "lustre"
        BY <1>1, <3>2 DEF Called
      <3>5. c[2] # NoName
        BY <3>4, CallForms, BuilderAssumption
      <3> QED BY <2>1, <3>2, <3>3, <3>4, <3>5
    <2> QED BY <2>2, <2>3
  <1>3. LET o == Options IN
        /\ o.globalLustre # NoName <=> Called("global") # {}
        /\ o.copyIn <=> Called("global") # {} /\ Has("copy_in")
        /\ o.copyOut <=> Called("global") # {} /\ CopyOuts # {}
        /\ Called("global") # {} => Called("lustre") # {}
    <2>1. CASE Called("global") = {} /\ opt.globalLustre = NoGlobal
      <3>1. NoGlobal.name = NoName /\ NoGlobal.in = FALSE /\ NoGlobal.out = "none"
        BY DEF NoGlobal
      <3> QED BY <2>1, <3>1, OptionFields
    <2>2. CASE ~(Called("global") = {} /\ opt.globalLustre = NoGlobal)
      <3>1. PICK k \in DOMAIN calls, p \in Called("lustre"), name \in GlobalNames :
               /\ IsLast(k, "global")
               /\ opt.globalLustre =
                    [name |-> name, persistent |-> p, in |-> Has("copy_in"), out |-> OutPath]
        BY <2>2 DEF IInv, GlobalInv
      <3>2. opt.globalLustre.name # NoName
        <4>1. opt.globalLustre.name = name
          BY <3>1, GlobalFields
        <4> QED BY <4>1, BuilderAssumption
      <3>3. opt.globalLustre.in = Has("copy_in") /\ opt.globalLustre.out = OutPath
        BY <3>1, GlobalFields
      <3>4. OutPath # "none" <=> CopyOuts # {}
        BY DEF OutPath
      <3>5. Called("global") # {} /\ Called("lustre") # {}
        BY <3>1 DEF IsLast
      <3> QED BY <3>2, <3>3, <3>4, <3>5, OptionFields
    <2> QED BY <2>1, <2>2
  <1>4. LET o == Options IN
        /\ o.storageProfile # NoName <=> Called("storage") # {}
        /\ o.externalMgs <=> Called("storage") # {} /\ LastSetting = {"fromLustre"}
    <2>1. CASE Called("storage") = {} /\ opt.storageProfile = NoName /\ opt.settings = {}
      BY <2>1, OptionFields
    <2>2. CASE ~(Called("storage") = {} /\ opt.storageProfile = NoName /\ opt.settings = {})
      <3>1. PICK k \in DOMAIN calls :
               /\ IsLast(k, "storage")
               /\ opt.settings = calls[k][2] /\ opt.storageProfile # NoName
        BY <2>2 DEF IInv, StorageInv
      <3>2. LastSetting = calls[k][2]
        BY <1>1, <3>1, LastIsMax DEF LastSetting
      <3>3. PICK c \in Call : c = calls[k] /\ c[1] = "storage"
        BY <1>1, <3>1 DEF IsLast, Called
      <3>4. c[2] = {} \/ \E x \in Setting : c[2] = {x}
        BY <3>3 DEF Call
      <3>5. "fromLustre" \in opt.settings <=> LastSetting = {"fromLustre"}
        BY <3>1, <3>2, <3>3, <3>4
      <3>6. Called("storage") # {}
        BY <3>1 DEF IsLast
      <3> QED BY <3>1, <3>5, <3>6, OptionFields
    <2> QED BY <2>1, <2>2
  <1>5. LET o == Options IN
        /\ o.cleanupPersistent <=> Called("cleanup") # {}
        /\ o.createPersistent # NoName <=> Has("create_persistent")
        /\ Called("cleanup") # {} => Has("create_persistent")
    BY OptionFields, OwnNamed DEF IInv, ChainOK, CleanupInv
  <1>6. LET o == Options IN
        /\ o.mgsPool.count \in Nat
        /\ Called("pool") = {} => o.mgsPool.count = 0
        /\ Called("pool") # {} =>
              LET pool == calls[Max(Called("pool"))] IN
              o.mgsPool.name = pool[2] /\ o.mgsPool.count = pool[3]
    <2>1. Options.mgsPool = opt.mgsPool
      BY OptionFields
    <2>2. CASE Called("pool") = {} /\ opt.mgsPool.count = 0
      BY <2>1, <2>2
    <2>3. CASE ~(Called("pool") = {} /\ opt.mgsPool.count = 0)
      <3>1. PICK k \in DOMAIN calls :
               IsLast(k, "pool") /\ opt.mgsPool = [name |-> calls[k][2], count |-> calls[k][3]]
        BY <2>3 DEF IInv, PoolInv
      <3>2. Max(Called("pool")) = k /\ Called("pool") # {} /\ k \in Called("pool")
        BY <1>1, <3>1, LastIsMax DEF IsLast
      <3>3. PICK c \in Call : c = calls[k] /\ c[1] = "pool"
        BY <1>1, <3>2 DEF Called
      <3>4. c[3] \in Nat
        BY <3>3, CallForms, BuilderAssumption
      <3>5. opt.mgsPool.name = c[2] /\ opt.mgsPool.count = c[3]
        BY <3>1, <3>3
      <3> QED BY <2>1, <3>2, <3>3, <3>4, <3>5
    <2> QED BY <2>2, <2>3
  <1> QED BY <1>2, <1>3, <1>4, <1>5, <1>6

\* Prepare and Cleanup can be written out for whatever the calls ask for.
LEMMA OptionsWellFormed == ASSUME IInv PROVE WellFormed(Options)
  BY OptionsOfCalls DEF WellFormed

\* A number is found within itself.
LEMMA GrepSame == ASSUME NEW n \in Nat PROVE Grep(n, n)
  <1>1. PICK d \in Seq(0 .. 9) : d = Digits[n]
    BY DigitsLong
  <1>2. SubSeq(d, 0 + 1, Len(d)) = d
    BY <1>1
  <1>3. d \in SubSeqs(d)
    BY <1>1, <1>2 DEF SubSeqs
  <1> QED BY <1>1, <1>3 DEF Grep

\* The global lustre is made of the persistent one that Prepare makes if no call
\* replaces this one.
LEMMA SamePersistent ==
    ASSUME IInv, Called("global") # {}
    PROVE  opt.globalLustre.persistent = opt.persistentLustre
           <=> \A j \in Called("lustre") : j < Max(Called("global"))
  <1>1. calls \in Seq(Call) /\ DOMAIN calls \subseteq Nat /\ Called("lustre") \subseteq Nat
    BY DEF IInv, ChainOK, Called
  <1>2. PICK k \in DOMAIN calls, p \in Called("lustre"), name \in GlobalNames :
           /\ IsLast(k, "global") /\ p < k
           /\ \A j \in Called("lustre") : j < k => j <= p
           /\ opt.globalLustre =
                [name |-> name, persistent |-> p, in |-> Has("copy_in"), out |-> OutPath]
    BY DEF IInv, GlobalInv
  <1>3. opt.globalLustre.persistent = p
    BY <1>2, GlobalFields
  <1>4. Max(Called("global")) = k
    BY <1>1, <1>2, LastIsMax
  <1>5. PICK l \in Called("lustre") :
           l = opt.persistentLustre /\ \A j \in Called("lustre") : j <= l
    BY <1>2 DEF IInv, LustreInv, IsLast
  <1> QED BY <1>1, <1>2, <1>4, <1>5, <1>3

\* With a global lustre the copies are looked for in the right way if there has
\* been a copy_in, and the last copy_out is of a file system of the type read last.
LEMMA CopiesFound ==
    ASSUME IInv, Called("global") # {}, CopyOuts # {}
    PROVE  LET k == Max(CopyOuts) IN
           LooksRight /\ Accepts(Computes)
           <=> Has("copy_in") /\ IndexMounts(LastType(k)) = IndexMounts(SourceType(k))
  <1>1. opt.globalLustre.in = Has("copy_in") /\ opt.globalLustre.out = OutPath
    <2>1. PICK p, name :
             opt.globalLustre =
               [name |-> name, persistent |-> p, in |-> Has("copy_in"), out |-> OutPath]
      BY DEF IInv, GlobalInv
    <2> QED BY <2>1, GlobalFields
  <1>2. (OutPath = "starred") = IndexMounts(LastType(Max(CopyOuts)))
    BY DEF OutPath, IndexMounts
  <1>3. Computes \in Nat /\ Computes > 0
    BY BuilderAssumption DEF Computes
  <1>4. Accepts(Computes) <=> Has("copy_in")
    BY <1>1, <1>3, GrepSame DEF Accepts, Has
  <1> QED BY <1>1, <1>2, <1>4 DEF LooksRight

\* So that the chain is sound just if the options and the copies are.
LEMMA SoundMeans ==
    ASSUME IInv PROVE Sound <=> SoundOptions(Options) /\ SoundCopies(Options)
  <1> DEFINE o == Options
             Lustre1 == Called("storage") # {} /\ LastSetting = {"fromLustre"} => Called("lustre") # {}
             Global1 == Called("global") # {} => \A k \in Called("lustre") : k < Max(Called("global"))
             Copies1 == Called("global") # {} =>
                          /\ Has("copy_out") => Has("copy_in")
                          /\ LET k == Max(CopyOuts) IN
                             CopyOuts # {} => IndexMounts(LastType(k)) = IndexMounts(SourceType(k))
             Pool1 == Called("storage") # {} /\ Called("pool") # {} =>
                         LET pool == calls[Max(Called("pool"))] IN
                         pool[3] > 0 => opt.storageProfile # pool[2]
             Own1 == Has("create_persistent") =>
                        /\ Called("cleanup") # {}
                        /\ Called("lustre") # {} => calls[Max(Called("lustre"))][2] # OwnName
  <1>1. Sound <=> Lustre1 /\ Global1 /\ Copies1 /\ Pool1 /\ Own1
    BY DEF Sound
  <1>2. Lustre1 <=> (o.externalMgs => o.persistentLustre # NoName)
    BY OptionsOfCalls
  <1>3. Pool1 <=> Clear(o)
    <2>1. Clear(o) <=> (o.mgsPool.count # 0 /\ o.storageProfile # NoName =>
                           o.mgsPool.name # o.storageProfile)
      BY DEF Clear, Profiles, Only, PoolProfile, Profile
    <2>2. o.storageProfile = opt.storageProfile
      BY OptionFields
    <2>3. CASE Called("pool") = {}
      <3>1. o.mgsPool.count = 0
        BY <2>3, OptionsOfCalls
      <3> HIDE DEF o
      <3> QED BY <2>1, <2>3, <3>1
    <2>4. CASE Called("pool") # {}
      <3>1. PICK pool :
               /\ pool = calls[Max(Called("pool"))]
               /\ o.mgsPool.name = pool[2] /\ o.mgsPool.count = pool[3]
        BY <2>4, OptionsOfCalls
      <3>3. pool[3] > 0 <=> o.mgsPool.count # 0
        BY <3>1, OptionsOfCalls
      <3>2. o.storageProfile # NoName <=> Called("storage") # {}
        BY OptionsOfCalls
      <3> HIDE DEF o
      <3> QED BY <2>1, <2>2, <2>4, <3>1, <3>2, <3>3
    <2> QED BY <2>3, <2>4
  <1>4. Own1 <=> (o.createPersistent # NoName => o.cleanupPersistent) /\ Distinct(o)
    <2>1. o.createPersistent = OwnName
      BY OptionFields
    <2> HIDE DEF o
    <2>2. /\ o.createPersistent # NoName <=> Has("create_persistent")
          /\ o.cleanupPersistent <=> Called("cleanup") # {}
          /\ o.persistentLustre # NoName <=> Called("lustre") # {}
          /\ Called("lustre") # {} => o.persistentLustre = calls[Max(Called("lustre"))][2]
      BY OptionsOfCalls DEF o
    <2> QED BY <2>1, <2>2 DEF Distinct
  <1>5. Global1 <=> (o.globalLustre # NoName => opt.globalLustre.persistent = opt.persistentLustre)
    BY OptionsOfCalls, SamePersistent
  <1>6. Copies1 <=> (o.copyOut => LooksRight /\ Accepts(Computes))
    <2>1. Has("copy_out") <=> CopyOuts # {}
      BY DEF Has, CopyOuts, ToSet
    <2>2. o.copyOut <=> Called("global") # {} /\ CopyOuts # {}
      BY OptionsOfCalls
    <2> HIDE DEF o
    <2>3. CASE Called("global") # {} /\ CopyOuts # {}
      BY <2>1, <2>2, <2>3, CopiesFound
    <2>4. CASE ~(Called("global") # {} /\ CopyOuts # {})
      BY <2>1, <2>2, <2>4
    <2> QED BY <2>3, <2>4
  <1> HIDE DEF Lustre1, Global1, Copies1, Pool1, Own1
  <1> QED BY <1>1, <1>2, <1>3, <1>4, <1>5, <1>6 DEF SoundOptions, SoundCopies

-----------------------------------------------------------------------------
(* A script run alone, as a fold. *)

End(r, s) == FoldLeft(Do, r, s)

\* h folds the steps of s at any of the first m places.
FoldsTo(h, r, s, m) ==
    h = [q \in SUBSET (1 .. m) |-> IF q = {} THEN r ELSE Do(h[q \ {Max(q)}], s[Max(q)])]

\* There is such an h for scripts of any length.
LEMMA FoldExists == ASSUME NEW r, NEW s, NEW m \in Nat PROVE \E h : FoldsTo(h, r, s, m)
  <1> DEFINE S == {k \in Nat : \E h : FoldsTo(h, r, s, k)}
             Step(h, q) == IF q = {} THEN r ELSE Do(h[q \ {Max(q)}], s[Max(q)])
  <1>1. 0 \in S
    <2> DEFINE h == [q \in SUBSET (1 .. 0) |-> r]
    <2>1. \A q \in SUBSET (1 .. 0) : q = {}
      OBVIOUS
    <2>2. h = [q \in SUBSET (1 .. 0) |-> Step(h, q)]
      BY <2>1
    <2>3. FoldsTo(h, r, s, 0)
      BY <2>2 DEF FoldsTo
    <2> QED BY <2>3
  <1>2. ASSUME NEW k \in Nat, k \in S PROVE k + 1 \in S
    <2>1. PICK g : g = [q \in SUBSET (1 .. k) |-> Step(g, q)]
      BY <1>2 DEF FoldsTo
    <2> HIDE DEF Step
    <2> DEFINE f == [q \in SUBSET (1 .. k + 1) |->
                       IF k + 1 \in q THEN Do(g[q \ {k + 1}], s[k + 1]) ELSE g[q]]
    <2>2. ASSUME NEW q \in SUBSET (1 .. k + 1) PROVE f[q] = Step(f, q)
      <3>1. CASE k + 1 \in q
        <4>1. Max(q) = k + 1
          <5>1. k + 1 \in q /\ \A y \in q : k + 1 >= y
            BY <3>1
          <5>2. \A x \in q : (\A y \in q : x >= y) => x = k + 1
            BY <5>1
          <5> QED BY <5>1, <5>2 DEF Max
        <4>2. q \ {k + 1} \in SUBSET (1 .. k) /\ k + 1 \notin q \ {k + 1}
          OBVIOUS
        <4>3. f[q] = Do(g[q \ {k + 1}], s[k + 1]) /\ f[q \ {k + 1}] = g[q \ {k + 1}]
          BY <3>1, <4>2
        <4> HIDE DEF f
        <4> QED BY <3>1, <4>1, <4>3 DEF Step
      <3>2. CASE k + 1 \notin q
        <4>1. q \in SUBSET (1 .. k) /\ q \ {Max(q)} \in SUBSET (1 .. k) /\ k + 1 \notin q \ {Max(q)}
              /\ q \ {Max(q)} \in SUBSET (1 .. k + 1)
          <5>1. \A x \in q : x \in 1 .. k /\ x \in 1 .. k + 1
            BY <3>2
          <5>2. PICK z : z = Max(q)
            OBVIOUS
          <5>3. q \in SUBSET (1 .. k) /\ q \ {z} \in SUBSET (1 .. k) /\ q \ {z} \in SUBSET (1 .. k + 1)
            BY <5>1
          <5> QED BY <3>2, <5>2, <5>3
        <4>2. f[q] = g[q] /\ f[q \ {Max(q)}] = g[q \ {Max(q)}]
          BY <3>2, <4>1
        <4>3. g[q] = Step(g, q)
          BY <2>1, <4>1
        <4> HIDE DEF f
        <4> QED BY <4>2, <4>3 DEF Step
      <3> QED BY <3>1, <3>2
    <2>3. f = [q \in SUBSET (1 .. k + 1) |-> f[q]]
      OBVIOUS
    <2>4. f = [q \in SUBSET (1 .. k + 1) |-> Step(f, q)]
      <3> HIDE DEF f
      <3> QED BY <2>2, <2>3
    <2>5. FoldsTo(f, r, s, k + 1)
      <3> HIDE DEF f
      <3> QED BY <2>4 DEF FoldsTo, Step
    <2> QED BY <2>5
  <1>3. m \in S
    <2> HIDE DEF S
    <2> QED BY <1>1, <1>2, Induction
  <1> QED BY <1>3

\* g[k] is how the run stands after k steps.
Traces(g, r, s) == g[0] = r /\ \A k \in 1 .. Len(s) : g[k] = Do(g[k - 1], s[k])

\* A run goes through the steps of its script, one by one.
LEMMA FoldTrace ==
    ASSUME NEW S, NEW s \in Seq(S), NEW r
    PROVE  \E g : Traces(g, r, s) /\ End(r, s) = g[Len(s)]
  <1> DEFINE n == Len(s)
             H == CHOOSE h : FoldsTo(h, r, s, n)
             g == [k \in 0 .. n |-> H[1 .. k]]
  <1>1. FoldsTo(H, r, s, n)
    BY FoldExists
  <1>2. End(r, s) = H[1 .. n]
    <2>1. DOMAIN s = 1 .. n
      OBVIOUS
    <2>2. End(r, s) =
            LET h == CHOOSE h : h = [q \in SUBSET DOMAIN s |->
                       IF q = {} THEN r ELSE Do(h[q \ {Max(q)}], s[Max(q)])]
            IN  h[DOMAIN s]
      BY DEF End, FoldLeft, MapThenFoldSet
    <2> QED BY <2>1, <2>2 DEF FoldsTo
  <1> HIDE DEF H
  <1>3. g[0] = r
    <2>1. 1 .. 0 = {} /\ {} \in SUBSET (1 .. n)
      OBVIOUS
    <2> QED BY <1>1, <2>1 DEF FoldsTo
  <1>4. ASSUME NEW k \in 1 .. n PROVE g[k] = Do(g[k - 1], s[k])
    <2>1. Max(1 .. k) = k
      <3>1. k \in 1 .. k /\ \A y \in 1 .. k : k >= y
        OBVIOUS
      <3>2. \A x \in 1 .. k : (\A y \in 1 .. k : x >= y) => x = k
        BY <3>1
      <3> QED BY <3>1, <3>2 DEF Max
    <2>2. (1 .. k) \ {k} = 1 .. k - 1 /\ 1 .. k # {} /\ 1 .. k \in SUBSET (1 .. n)
      <3>1. n \in Nat /\ k \in 1 .. k
        OBVIOUS
      <3>2. (1 .. k) \ {k} = 1 .. k - 1
        OBVIOUS
      <3>3. \A i \in 1 .. k : i \in 1 .. n
        BY <3>1
      <3> QED BY <3>1, <3>2, <3>3
    <2>3. H[1 .. k] = Do(H[1 .. k - 1], s[k])
      BY <1>1, <2>1, <2>2 DEF FoldsTo
    <2> QED BY <2>3
  <1>5. g[n] = End(r, s)
    BY <1>2
  <1>6. Traces(g, r, s)
    <2> HIDE DEF g
    <2> QED BY <1>3, <1>4 DEF Traces
  <1> QED BY <1>5, <1>6

\* Two scripts, one after the other.
LEMMA EndJoin ==
    ASSUME NEW S, NEW s \in Seq(S), NEW u \in Seq(S), NEW r
    PROVE  End(r, s \o u) = End(End(r, s), u)
  <1> DEFINE m == Len(s)
             n == Len(u)
  <1>1. /\ m \in Nat /\ n \in Nat /\ s \o u \in Seq(S) /\ Len(s \o u) = m + n
        /\ \A k \in 1 .. m : (s \o u)[k] = s[k]
        /\ \A k \in 1 .. n : (s \o u)[m + k] = u[k]
    OBVIOUS
  <1>2. PICK g : Traces(g, r, s \o u) /\ End(r, s \o u) = g[m + n]
    BY <1>1, FoldTrace
  <1>3. PICK a : Traces(a, r, s) /\ End(r, s) = a[m]
    BY FoldTrace
  <1>4. PICK b : Traces(b, a[m], u) /\ End(a[m], u) = b[n]
    BY FoldTrace
  <1> HIDE DEF m, n
  <1> DEFINE A == {k \in Nat : k <= m => g[k] = a[k]}
             B == {k \in Nat : k <= n => g[m + k] = b[k]}
  <1>5. m \in A
    <2>1. 0 \in A
      BY <1>2, <1>3 DEF Traces
    <2>2. ASSUME NEW k \in Nat, k \in A PROVE k + 1 \in A
      <3> SUFFICES ASSUME k + 1 <= m PROVE g[k + 1] = a[k + 1]
        OBVIOUS
      <3>1. k + 1 \in 1 .. m /\ k + 1 \in 1 .. m + n /\ (k + 1) - 1 = k
        BY <1>1
      <3>2. g[k + 1] = Do(g[k], (s \o u)[k + 1]) /\ a[k + 1] = Do(a[k], s[k + 1])
        BY <1>1, <1>2, <1>3, <3>1 DEF Traces, m
      <3>3. g[k] = a[k]
        BY <1>1, <2>2, <3>1
      <3> QED BY <1>1, <3>1, <3>2, <3>3
    <2> HIDE DEF A
    <2> QED BY <1>1, <2>1, <2>2, Induction
  <1>6. n \in B
    <2>1. 0 \in B
      BY <1>1, <1>4, <1>5 DEF Traces
    <2>2. ASSUME NEW k \in Nat, k \in B PROVE k + 1 \in B
      <3> SUFFICES ASSUME k + 1 <= n PROVE g[m + (k + 1)] = b[k + 1]
        OBVIOUS
      <3>1. k + 1 \in 1 .. n /\ m + (k + 1) \in 1 .. m + n /\ (m + (k + 1)) - 1 = m + k /\ (k + 1) - 1 = k
        BY <1>1
      <3>2. g[m + (k + 1)] = Do(g[m + k], (s \o u)[m + (k + 1)]) /\ b[k + 1] = Do(b[k], u[k + 1])
        BY <1>1, <1>2, <1>4, <3>1 DEF Traces, n
      <3>3. g[m + k] = b[k]
        BY <1>1, <2>2, <3>1
      <3> QED BY <1>1, <3>1, <3>2, <3>3
    <2> HIDE DEF B
    <2> QED BY <1>1, <2>1, <2>2, Induction
  <1> QED BY <1>1, <1>2, <1>3, <1>4, <1>6

-----------------------------------------------------------------------------
(* A script of which the test is sure runs to its end.                      *)

\* The test has found no fault, and what there is of X is what it holds.
Stands(r, X, x) ==
    r = [ok |-> TRUE, life |-> [obj \in X |-> IF obj \in x.held THEN "present" ELSE "absent"]]

\* What a step comes to in a run that has found no fault so far.
LEMMA StepOnly ==
    ASSUME NEW e, e.op \in Op, NEW life
    PROVE  /\ Makes(e) => /\ CanDo(e, life) = (life[e.obj] = "absent") /\ ~Takes(e)
                          /\ After(e, life) = [life EXCEPT ![e.obj] = "present"]
           /\ Takes(e) => /\ After(e, life) = [life EXCEPT ![e.obj] = "deleting"]
                          /\ life[e.obj] = "present" => CanDo(e, life)
                          /\ life[e.obj] = "absent" => ~CanDo(e, life)
           /\ ~Makes(e) /\ ~Takes(e) => After(e, life) = life
           /\ e.op = "gone" => CanDo(e, life) = (life[e.obj] = "absent")
           /\ e.op \in {"await", "run"} => CanDo(e, life) = (life[e.obj] = "present")
  <1>1. \/ e.op = "create" \/ e.op = "await" \/ e.op = "delete" \/ e.op = "gone"
        \/ e.op = "provision" \/ e.op = "destroy" \/ e.op = "run" \/ e.op = "pod"
    BY DEF Op
  <1>2. Makes(e) => /\ CanDo(e, life) = (life[e.obj] = "absent") /\ ~Takes(e)
                    /\ After(e, life) = [life EXCEPT ![e.obj] = "present"]
    BY <1>1 DEF Makes, Takes, CanDo, After
  <1>3. Takes(e) => /\ After(e, life) = [life EXCEPT ![e.obj] = "deleting"]
                    /\ life[e.obj] = "present" => CanDo(e, life)
                    /\ life[e.obj] = "absent" => ~CanDo(e, life)
    BY <1>1 DEF Makes, Takes, CanDo, After
  <1>4. ~Makes(e) /\ ~Takes(e) => After(e, life) = life
    BY DEF After
  <1>5. e.op = "gone" => CanDo(e, life) = (life[e.obj] = "absent")
    BY DEF CanDo, Makes
  <1>6. e.op \in {"await", "run"} => CanDo(e, life) = (life[e.obj] = "present")
    BY DEF CanDo, Makes
  <1> QED BY <1>2, <1>3, <1>4, <1>5, <1>6

\* The step that succeeds is done, and what it takes is gone.
LEMMA StepRuns ==
    ASSUME NEW X, NEW e \in StepOn(X), NEW x, Succeeds(e, x), NEW r, Stands(r, X, x)
    PROVE  Stands(Do(r, e), X, Effect(e, x))
  <1> DEFINE f == [obj \in X |-> IF obj \in x.held THEN "present" ELSE "absent"]
             F(life) == [obj \in DOMAIN life |-> IF life[obj] = "deleting" THEN "absent" ELSE life[obj]]
             y == Effect(e, x)
  <1>1. e.op \in Op /\ e.obj \in X /\ r.ok = TRUE /\ r.life = f
    BY DEF StepOn, Stands
  <1>2. CanDo(e, f)
    <2>1. e.op = "gone" \/ e.op \in {"await", "run"} \/ Makes(e) \/ Takes(e)
      BY <1>1 DEF Op, Makes, Takes
    <2>2. e.op = "gone" \/ Makes(e) => f[e.obj] = "absent"
      BY <1>1 DEF Succeeds
    <2>3. e.op \in {"await", "run"} \/ Takes(e) => f[e.obj] = "present"
      BY <1>1 DEF Succeeds
    <2> HIDE DEF f
    <2>4. CASE e.op = "gone"
      BY <1>1, <2>2, <2>4, StepOnly
    <2>5. CASE e.op \in {"await", "run"}
      BY <1>1, <2>3, <2>5, StepOnly
    <2>6. CASE Makes(e)
      BY <1>1, <2>2, <2>6, StepOnly
    <2>7. CASE Takes(e)
      BY <1>1, <2>3, <2>7, StepOnly
    <2> QED BY <2>1, <2>4, <2>5, <2>6, <2>7
  <1>3. Do(r, e) = [ok |-> TRUE, life |-> F(After(e, f))]
    BY <1>1, <1>2 DEF Do
  <1>4. F(After(e, f)) = [obj \in X |-> IF obj \in y.held THEN "present" ELSE "absent"]
    <2>1. y.held = IF Makes(e) THEN x.held \cup {e.obj}
                   ELSE IF Takes(e) THEN x.held \ {e.obj} ELSE x.held
      BY DEF Effect, Shadow
    <2> HIDE DEF y
    <2>2. CASE Makes(e)
      <3>1. After(e, f) = [f EXCEPT ![e.obj] = "present"]
        BY <1>1, <2>2, StepOnly
      <3> QED BY <1>1, <2>1, <2>2, <3>1
    <2>3. CASE Takes(e)
      <3>1. After(e, f) = [f EXCEPT ![e.obj] = "deleting"] /\ ~Makes(e)
        BY <1>1, <2>3, StepOnly
      <3> QED BY <1>1, <2>1, <2>3, <3>1
    <2>4. CASE ~Makes(e) /\ ~Takes(e)
      <3>1. After(e, f) = f
        BY <1>1, <2>4, StepOnly
      <3> QED BY <1>1, <2>1, <2>4, <3>1
    <2> QED BY <2>2, <2>3, <2>4
  <1> HIDE DEF F, f
  <1> QED BY <1>3, <1>4 DEF Stands

\* Nor does a script fail that the test is sure of.
LEMMA LeadsRuns ==
    ASSUME NEW c, c.sure, NEW P, NEW s, NEW Q, Leads(c, P, s, Q),
           NEW X, s \in Seq(StepOn(X)), NEW x \in P, NEW r, Stands(r, X, x)
    PROVE  \E y \in Q : Stands(End(r, s), X, y)
  <1>1. PICK A : P \subseteq A[1] /\ A[Len(s) + 1] \subseteq Q /\ Annotates(c, s, A)
    BY DEF Leads
  <1>3. PICK g : Traces(g, r, s) /\ End(r, s) = g[Len(s)]
    BY FoldTrace
  <1> DEFINE n == Len(s)
             S == {k \in Nat : k <= n => \E y \in A[k + 1] : Stands(g[k], X, y)}
  <1>4. n \in Nat
    OBVIOUS
  <1>5. 0 \in S
    BY <1>1, <1>3 DEF Traces
  <1>6. ASSUME NEW k \in Nat, k \in S PROVE k + 1 \in S
    <2> SUFFICES ASSUME k + 1 <= n PROVE \E y \in A[(k + 1) + 1] : Stands(g[k + 1], X, y)
      OBVIOUS
    <2>1. k + 1 \in 1 .. n /\ (k + 1) - 1 = k /\ k <= n
      BY <1>4
    <2>2. PICK z \in A[k + 1] : Stands(g[k], X, z)
      BY <1>6, <2>1
    <2>3. s[k + 1] \in StepOn(X)
      BY <2>1
    <2>4. Safe(c, s[k + 1], z) /\ Effect(s[k + 1], z) \in A[(k + 1) + 1]
      BY <1>1, <2>1 DEF Annotates, Blocked
    <2>5. Succeeds(s[k + 1], z)
      BY <2>4 DEF Safe
    <2>6. g[k + 1] = Do(g[k], s[k + 1])
      BY <1>3, <2>1 DEF Traces
    <2>7. Stands(g[k + 1], X, Effect(s[k + 1], z))
      BY <2>2, <2>3, <2>5, <2>6, StepRuns
    <2> QED BY <2>4, <2>7
  <1>7. n \in S
    <2> HIDE DEF S, n
    <2> QED BY <1>4, <1>5, <1>6, Induction
  <1>8. PICK y \in A[n + 1] : Stands(g[n], X, y)
    BY <1>4, <1>7
  <1> QED BY <1>1, <1>3, <1>8

-----------------------------------------------------------------------------
(* What becomes of one object, in any run.                                  *)

\* If the test has found no fault, the object p is in one of the states A.
Holds(r, p, A) ==
    /\ r = [ok |-> r.ok, life |-> r.life] /\ r.ok \in BOOLEAN
    /\ p \in DOMAIN r.life /\ (r.ok => r.life[p] \in A)

State == {"absent", "present"}

\* s turns p from A to B, if it does not fail.
Turns(X, s, p, A, B) ==
    s \in Seq(StepOn(X)) /\ \A r : Holds(r, p, A) => Holds(End(r, s), p, B)

\* What two scripts make of p, one after the other.
LEMMA TurnsJoin ==
    ASSUME NEW X, NEW p, NEW s, NEW u, NEW A, NEW B, NEW C,
           Turns(X, s, p, A, B), Turns(X, u, p, B, C)
    PROVE  Turns(X, s \o u, p, A, C)
  <1>1. s \in Seq(StepOn(X)) /\ u \in Seq(StepOn(X)) /\ s \o u \in Seq(StepOn(X))
    BY DEF Turns
  <1>2. \A r : End(r, s \o u) = End(End(r, s), u)
    BY <1>1, EndJoin
  <1> QED BY <1>1, <1>2 DEF Turns

\* What every step keeps, a script does.
LEMMA TurnsEach ==
    ASSUME NEW X, NEW s \in Seq(StepOn(X)), NEW p, NEW A,
           \A k \in 1 .. Len(s) : \A r : Holds(r, p, A) => Holds(Do(r, s[k]), p, A)
    PROVE  Turns(X, s, p, A, A)
  <1> SUFFICES ASSUME NEW r, Holds(r, p, A) PROVE Holds(End(r, s), p, A)
    BY DEF Turns
  <1>1. PICK g : Traces(g, r, s) /\ End(r, s) = g[Len(s)]
    BY FoldTrace
  <1> DEFINE n == Len(s)
             S == {k \in Nat : k <= n => Holds(g[k], p, A)}
  <1>2. n \in Nat
    OBVIOUS
  <1>3. 0 \in S
    BY <1>1 DEF Traces
  <1>4. ASSUME NEW k \in Nat, k \in S PROVE k + 1 \in S
    <2>1. k + 1 <= n => k + 1 \in 1 .. n /\ (k + 1) - 1 = k /\ k <= n
      BY <1>2
    <2>2. k + 1 <= n => g[k + 1] = Do(g[k], s[k + 1])
      BY <1>1, <2>1 DEF Traces
    <2> QED BY <1>4, <2>1, <2>2
  <1>5. n \in S
    <2> HIDE DEF S, n
    <2> QED BY <1>2, <1>3, <1>4, Induction
  <1> QED BY <1>1, <1>2, <1>5

\* One step of a run.
LEMMA StepTurns ==
    ASSUME NEW X, NEW e \in StepOn(X), NEW p, NEW A \in SUBSET State, NEW r, Holds(r, p, A)
    PROVE  /\ Holds(Do(r, e), p, State)
           /\ Do(r, e).ok => /\ r.ok /\ CanDo(e, r.life)
                             /\ e.obj # p => Do(r, e).life[p] = r.life[p]
                             /\ e.obj = p /\ Makes(e) => Do(r, e).life[p] = "present"
                             /\ e.obj = p /\ Takes(e) => Do(r, e).life[p] = "absent"
                             /\ ~Makes(e) /\ ~Takes(e) => Do(r, e).life[p] = r.life[p]
  <1>1. e.op \in Op /\ e.obj \in X
    BY DEF StepOn
  <1>2. CASE ~r.ok \/ ~CanDo(e, r.life)
    <2>1. Do(r, e) = [r EXCEPT !.ok = FALSE]
      BY <1>2 DEF Do
    <2>2. Do(r, e) = [ok |-> FALSE, life |-> r.life]
      BY <2>1 DEF Holds
    <2> QED BY <2>2 DEF Holds
  <1>3. CASE r.ok /\ CanDo(e, r.life)
    <2> DEFINE f == r.life
               h == After(e, f)
               F == [obj \in DOMAIN h |-> IF h[obj] = "deleting" THEN "absent" ELSE h[obj]]
    <2>1. Do(r, e) = [ok |-> TRUE, life |-> F]
      BY <1>3 DEF Do
    <2>2. p \in DOMAIN f /\ f[p] \in State
      BY <1>3 DEF Holds
    <2>3. /\ Makes(e) => h = [f EXCEPT ![e.obj] = "present"] /\ ~Takes(e)
          /\ Takes(e) => h = [f EXCEPT ![e.obj] = "deleting"]
          /\ ~Makes(e) /\ ~Takes(e) => h = f
      BY <1>1, StepOnly
    <2> HIDE DEF f, h
    <2>4. p \in DOMAIN h
      BY <2>2, <2>3
    <2>5. /\ e.obj # p => h[p] = f[p]
          /\ e.obj = p /\ Makes(e) => h[p] = "present"
          /\ e.obj = p /\ Takes(e) => h[p] = "deleting"
          /\ ~Makes(e) /\ ~Takes(e) => h[p] = f[p]
      BY <2>2, <2>3
    <2>6. p \in DOMAIN F /\ F[p] = IF h[p] = "deleting" THEN "absent" ELSE h[p]
      BY <2>4
    <2> HIDE DEF F
    <2>7. Do(r, e).ok = TRUE /\ Do(r, e).life = F
      BY <2>1
    <2>8. h[p] \in {"absent", "present", "deleting"}
      BY <2>2, <2>5 DEF State
    <2>9. F[p] \in State
      BY <2>6, <2>8 DEF State
    <2>10. Holds(Do(r, e), p, State)
      BY <2>1, <2>6, <2>7, <2>9 DEF Holds
    <2>11. /\ e.obj # p => F[p] = f[p]
           /\ e.obj = p /\ Makes(e) => F[p] = "present"
           /\ e.obj = p /\ Takes(e) => F[p] = "absent"
           /\ ~Makes(e) /\ ~Takes(e) => F[p] = f[p]
      BY <2>2, <2>5, <2>6 DEF State
    <2> QED BY <1>3, <2>7, <2>10, <2>11 DEF f
  <1> QED BY <1>2, <1>3

\* A script that is not about p leaves it alone.
LEMMA TurnsOther ==
    ASSUME NEW X, NEW Y \in SUBSET X, NEW s \in Seq(StepOn(Y)), NEW p, p \notin Y,
           NEW A \in SUBSET State
    PROVE  Turns(X, s, p, A, A)
  <1>1. s \in Seq(StepOn(X))
    <2>1. StepOn(Y) \subseteq StepOn(X)
      BY DEF StepOn
    <2> QED BY <2>1
  <1>2. ASSUME NEW k \in 1 .. Len(s), NEW r, Holds(r, p, A) PROVE Holds(Do(r, s[k]), p, A)
    <2>1. s[k] \in StepOn(Y) /\ s[k] \in StepOn(X)
      BY <1>1
    <2>2. s[k].obj # p
      BY <2>1 DEF StepOn
    <2> QED BY <1>2, <2>1, <2>2, StepTurns DEF Holds
  <1> QED BY <1>1, <1>2, TurnsEach

\* Once there has been a fault, none of the rest is done.
LEMMA TurnsNone ==
    ASSUME NEW X, NEW s \in Seq(StepOn(X)), NEW p PROVE Turns(X, s, p, {}, {})
  <1>1. ASSUME NEW k \in 1 .. Len(s), NEW r, Holds(r, p, {}) PROVE Holds(Do(r, s[k]), p, {})
    <2>1. s[k] \in StepOn(X) /\ {} \in SUBSET State
      OBVIOUS
    <2> QED BY <1>1, <2>1, StepTurns DEF Holds
  <1> QED BY <1>1, TurnsEach

\* A script of one step.
LEMMA OneDone == ASSUME NEW e, NEW r PROVE End(r, <<e>>) = Do(r, e)
  <1>1. <<e>> \in Seq({e}) /\ Len(<<e>>) = 1 /\ <<e>>[1] = e
    OBVIOUS
  <1>2. PICK g : Traces(g, r, <<e>>) /\ End(r, <<e>>) = g[1]
    BY <1>1, FoldTrace
  <1>3. 1 \in 1 .. 1 /\ 1 - 1 = 0
    OBVIOUS
  <1>4. g[1] = Do(g[1 - 1], <<e>>[1])
    BY <1>1, <1>2, <1>3 DEF Traces
  <1> QED BY <1>1, <1>2, <1>3, <1>4 DEF Traces

\* What is not there is made, what is there is not.
LEMMA TurnsMake ==
    ASSUME NEW X, NEW p \in X, NEW op \in {"create", "provision"}
    PROVE  /\ Turns(X, <<[op |-> op, obj |-> p]>>, p, {"absent"}, {"present"})
           /\ Turns(X, <<[op |-> op, obj |-> p]>>, p, {"present"}, {})
  <1> DEFINE e == [op |-> op, obj |-> p]
  <1>1. e \in StepOn(X) /\ e.op \in Op /\ e.obj = p /\ Makes(e)
    BY DEF StepOn, Op, Makes
  <1> HIDE DEF e
  <1>2. ASSUME NEW A \in SUBSET State, NEW r, Holds(r, p, A)
        PROVE  /\ A = {"absent"} => Holds(Do(r, e), p, {"present"})
               /\ A = {"present"} => Holds(Do(r, e), p, {})
    <2>1. CanDo(e, r.life) => r.life[p] = "absent"
      BY <1>1, StepOnly
    <2>2. /\ Holds(Do(r, e), p, State)
          /\ Do(r, e).ok => r.ok /\ CanDo(e, r.life) /\ Do(r, e).life[p] = "present"
      BY <1>1, <1>2, StepTurns
    <2> QED BY <1>2, <2>1, <2>2 DEF Holds
  <1>3. {"absent"} \in SUBSET State /\ {"present"} \in SUBSET State
    BY DEF State
  <1>4. \A r : End(r, <<e>>) = Do(r, e)
    BY OneDone
  <1>5. <<e>> \in Seq(StepOn(X))
    BY <1>1
  <1>6. Turns(X, <<e>>, p, {"absent"}, {"present"}) /\ Turns(X, <<e>>, p, {"present"}, {})
    BY <1>2, <1>3, <1>4, <1>5 DEF Turns
  <1> QED BY <1>6 DEF e

\* What is there is deleted, what is not is not.
LEMMA TurnsDelete ==
    ASSUME NEW X, NEW p \in X
    PROVE  /\ Turns(X, DeleteAndWait(p), p, {"present"}, {"absent"})
           /\ Turns(X, DeleteAndWait(p), p, {"absent"}, {})
  <1> DEFINE e == [op |-> "delete", obj |-> p]
             f == [op |-> "gone", obj |-> p]
  <1>1. e \in StepOn(X) /\ e.op \in Op /\ e.obj = p /\ Takes(e)
    BY DEF StepOn, Op, Takes
  <1>2. f \in StepOn(X) /\ f.op \in Op /\ f.obj = p /\ ~Makes(f) /\ ~Takes(f)
    BY DEF StepOn, Op, Makes, Takes
  <1>3. DeleteAndWait(p) = <<e>> \o <<f>>
    BY DEF DeleteAndWait, Delete, Gone
  <1> HIDE DEF e, f
  <1>4. ASSUME NEW A \in SUBSET State, NEW r, Holds(r, p, A)
        PROVE  /\ A = {"present"} => Holds(Do(r, e), p, {"absent"})
               /\ A = {"absent"} => Holds(Do(r, e), p, {})
               /\ A = {"absent"} => Holds(Do(r, f), p, {"absent"})
    <2>1. CanDo(e, r.life) => r.life[p] # "absent"
      BY <1>1, StepOnly
    <2>2. /\ Holds(Do(r, e), p, State)
          /\ Do(r, e).ok => r.ok /\ CanDo(e, r.life) /\ Do(r, e).life[p] = "absent"
      BY <1>1, <1>4, StepTurns
    <2>3. /\ Holds(Do(r, f), p, State)
          /\ Do(r, f).ok => r.ok /\ Do(r, f).life[p] = r.life[p]
      BY <1>2, <1>4, StepTurns
    <2> QED BY <1>4, <2>1, <2>2, <2>3 DEF Holds
  <1>5. {"absent"} \in SUBSET State /\ {"present"} \in SUBSET State
    BY DEF State
  <1>6. \A r : End(r, <<e>>) = Do(r, e) /\ End(r, <<f>>) = Do(r, f)
    BY OneDone
  <1>7. <<e>> \in Seq(StepOn(X)) /\ <<f>> \in Seq(StepOn(X))
    BY <1>1, <1>2
  <1>8. /\ Turns(X, <<e>>, p, {"present"}, {"absent"}) /\ Turns(X, <<e>>, p, {"absent"}, {})
        /\ Turns(X, <<f>>, p, {"absent"}, {"absent"})
    BY <1>4, <1>5, <1>6, <1>7 DEF Turns
  <1>9. Turns(X, <<f>>, p, {}, {})
    BY <1>7, TurnsNone
  <1> QED BY <1>3, <1>8, <1>9, TurnsJoin

\* A part that leaves p as it is may be left out.
LEMMA TurnsWhen ==
    ASSUME NEW X, NEW b, NEW s, NEW p, NEW A \in SUBSET State, b => Turns(X, s, p, A, A)
    PROVE  Turns(X, When(b, s), p, A, A)
  <1>1. Turns(X, <<>>, p, A, A)
    <2>1. <<>> \in Seq(StepOn({})) /\ {} \in SUBSET X /\ p \notin {}
      OBVIOUS
    <2> QED BY <2>1, TurnsOther
  <1> QED BY <1>1 DEF When

-----------------------------------------------------------------------------
(* Which options make a script that runs to its end.                        *)

Start(o) == [ok |-> TRUE, life |-> [obj \in Objects(TheTest, o) |-> "absent"]]

\* A script that runs a pod is about the pod.
LEMMA PodSteps ==
    ASSUME NEW X, NEW Y, NEW x \in X, HelperPod(x) \in Seq(StepOn(Y)) PROVE x \in Y
  <1>1. Pod(x) \in Seq(StepOn(X)) /\ Await(x) \in Seq(StepOn(X))
    BY OneStep
  <1>2. Pod(x) \in Seq(StepOn(Y))
    BY <1>1, PartSteps DEF HelperPod
  <1> QED BY <1>2, OneObject DEF Pod

\* The helper pods and the file system of a create_persistent directive are among
\* the objects of the test.
LEMMA OfScript ==
    ASSUME NEW t, NEW o, WellFormed(o)
    PROVE  LET O == Objects(t, o) IN
           /\ o.copyIn => CopyInPod(t) \in O
           /\ o.copyOut => CopyOutPod(t) \in O
           /\ o.createPersistent # NoName => OwnFileSystem(o) \in O
  <1> DEFINE O == Objects(t, o)
             W == Whole(t, o)
             T == Seq(StepOn(W))
  <1>1. Surroundings(t, o) \subseteq W /\ Workflow(t) \in W
    BY DEF Whole
  <1>2. Execute(t, o) \in Seq(StepOn(O))
    BY ObjectSteps
  <1>3. ASSUME o.copyIn PROVE CopyInPod(t) \in O
    <2>1. o.globalLustre # NoName /\ GlobalLustre(o) \in W /\ CopyInPod(t) \in W
      BY <1>3 DEF WellFormed, Whole, Surroundings, Prepared, Global, InPods, Only
    <2> HIDE DEF W
    <2>2. GlobalPart(t, o) \in Seq(StepOn(O))
      BY PartsOfScript
    <2>3. GlobalPart(t, o) = Create(GlobalLustre(o)) \o HelperPod(CopyInPod(t))
      BY <1>3, <2>1 DEF GlobalPart, When
    <2>4. Create(GlobalLustre(o)) \in T /\ HelperPod(CopyInPod(t)) \in T
      BY <2>1, OneStep
    <2>5. HelperPod(CopyInPod(t)) \in Seq(StepOn(O))
      BY <2>2, <2>3, <2>4, PartSteps
    <2> QED BY <2>1, <2>5, PodSteps
  <1> DEFINE e1 == IF o.createPersistent # NoName THEN Provision(OwnFileSystem(o)) ELSE Run(Workflow(t))
             e2 == When(o.copyOut, HelperPod(CopyOutPod(t)))
             e3 == Run(Workflow(t))
  <1>4. e1 \in T /\ e2 \in T /\ e3 \in T
    <2>1. /\ o.createPersistent # NoName => OwnFileSystem(o) \in W
          /\ o.copyOut => CopyOutPod(t) \in W
      BY DEF Whole, Surroundings, Own, OutPods, Only
    <2> HIDE DEF W
    <2> QED BY <1>1, <2>1, OneStep, WhenSteps
  <1>5. Execute(t, o) = (e1 \o e2) \o e3
    BY DEF Execute
  <1> HIDE DEF e1, e2, e3
  <1>6. e1 \in Seq(StepOn(O)) /\ e2 \in Seq(StepOn(O))
    <2>1. e1 \o e2 \in T
      BY <1>4
    <2>2. e1 \o e2 \in Seq(StepOn(O))
      BY <1>2, <1>4, <1>5, <2>1, PartSteps
    <2> QED BY <1>4, <2>2, PartSteps
  <1>7. ASSUME o.copyOut PROVE CopyOutPod(t) \in O
    <2>1. HelperPod(CopyOutPod(t)) \in Seq(StepOn(O))
      BY <1>6, <1>7 DEF e2, When
    <2> QED BY <2>1, PodSteps
  <1>8. ASSUME o.createPersistent # NoName PROVE OwnFileSystem(o) \in O
    <2>1. Provision(OwnFileSystem(o)) \in Seq(StepOn(O))
      BY <1>6, <1>8 DEF e1
    <2> QED BY <2>1, OneObject DEF Provision
  <1> QED BY <1>3, <1>7, <1>8

\* The script of a test is the run of its five parts, all about its objects.
LEMMA ScriptParts ==
    ASSUME NEW o, WellFormed(o)
    PROVE  LET t == TheTest
               T == Seq(StepOn(Objects(t, o)))
               w == Workflow(t)
               ps == AllList(t, o) IN
           /\ Objects(t, o) \subseteq Whole(t, o)
           /\ Prepare(t, o) \in T /\ Create(w) \in T /\ Execute(t, o) \in T
           /\ Teardown(t, o) \in T /\ Cleanup(t, o, ps) \in T
           /\ ps \in Seq(Objects(t, o))
           /\ Final(o) = End(End(End(End(End(Start(o), Prepare(t, o)), Create(w)), Execute(t, o)),
                                 Teardown(t, o)), Cleanup(t, o, ps))
  <1> DEFINE t == TheTest
             O == Objects(t, o)
             T == Seq(StepOn(O))
             w == Workflow(t)
             ps == AllList(t, o)
             qs == When(o.copyIn, <<CopyInPod(t)>>) \o When(o.copyOut, <<CopyOutPod(t)>>)
  <1>1. qs = ps /\ ps \in Seq(O)
    <2>1. (o.copyIn => CopyInPod(t) \in O) /\ (o.copyOut => CopyOutPod(t) \in O)
      BY OfScript
    <2> DEFINE l == When(o.copyIn, <<CopyInPod(t)>>)
    <2>2. l \in Seq(O)
      BY <2>1 DEF When
    <2>3. qs = l \o When(o.copyOut, <<CopyOutPod(t)>>) /\ l = InList(t, o)
      BY DEF InList
    <2> HIDE DEF l, qs, O, t
    <2>4. CASE o.copyOut
      <3>1. ps = Append(l, CopyOutPod(t)) /\ qs = l \o <<CopyOutPod(t)>>
        BY <2>3, <2>4 DEF AllList, When
      <3>2. Append(l, CopyOutPod(t)) = l \o <<CopyOutPod(t)>>
        BY <2>1, <2>2, <2>4, AppendIsConcat
      <3>3. Append(l, CopyOutPod(t)) \in Seq(O)
        BY <2>1, <2>2, <2>4
      <3> QED BY <3>1, <3>2, <3>3
    <2>5. CASE ~o.copyOut
      <3>1. ps = l /\ qs = l \o <<>>
        BY <2>3, <2>5 DEF AllList, When
      <3>2. l \o <<>> = l
        BY <2>2, ConcatEmptySeq
      <3> QED BY <2>2, <3>1, <3>2
    <2> QED BY <2>4, <2>5
  <1> DEFINE a == Prepare(t, o)
             b == Create(w)
             d == Execute(t, o)
             e == Teardown(t, o)
             f == Cleanup(t, o, ps)
  <1>2. O \subseteq Whole(t, o) /\ a \in T /\ b \in T /\ d \in T /\ e \in T /\ f \in T
    BY <1>1, ObjectSteps
  <1>3. Final(o) = End(Start(o), a \o b \o d \o e \o f)
    <2>1. FullScript(o) = a \o b \o d \o e \o Cleanup(t, o, qs)
      BY DEF FullScript
    <2> QED BY <1>1, <2>1 DEF Final, Start, End
  <1> HIDE DEF a, b, d, e, f, O, t
  <1>4. a \o b \in T /\ a \o b \o d \in T /\ a \o b \o d \o e \in T
    BY <1>2
  <1>5. PICK r : r = Start(o)
    OBVIOUS
  <1>6. End(r, a \o b \o d \o e \o f) = End(End(r, a \o b \o d \o e), f)
    BY <1>2, <1>4, EndJoin
  <1>7. End(r, a \o b \o d \o e) = End(End(r, a \o b \o d), e)
    BY <1>2, <1>4, EndJoin
  <1>8. End(r, a \o b \o d) = End(End(r, a \o b), d)
    BY <1>2, <1>4, EndJoin
  <1>9. End(r, a \o b) = End(End(r, a), b)
    BY <1>2, EndJoin
  <1>10. Final(o) = End(End(End(End(End(Start(o), a), b), d), e), f)
    BY <1>3, <1>5, <1>6, <1>7, <1>8, <1>9
  <1> QED BY <1>1, <1>2, <1>10 DEF a, b, d, e, f, O, t

\* Cleanup does not touch the workflow.
LEMMA ListSteps ==
    ASSUME NEW t, NEW o, WellFormed(o)
    PROVE  Cleanup(t, o, AllList(t, o)) \in Seq(StepOn(Surroundings(t, o)))
  <1>1. PICK ps, outs : ps = AllList(t, o) /\ outs = OutPods(t, o)
    OBVIOUS
  <1>2. PodList(t, o, outs, ps)
    BY <1>1 DEF PodList
  <1>3. /\ ps \in Seq({CopyInPod(t), CopyOutPod(t)})
        /\ {ps[k] : k \in 1 .. Len(ps)} = InPods(t, o) \cup outs
    BY <1>2, ListMembers
  <1>4. InPods(t, o) \cup outs \subseteq Surroundings(t, o)
    BY <1>1 DEF Surroundings, Prepared
  <1>5. \A k \in 1 .. Len(ps) : ps[k] \in Surroundings(t, o)
    BY <1>3, <1>4
  <1>6. ps \in Seq(Surroundings(t, o))
    BY <1>3, <1>5
  <1> QED BY <1>1, <1>6, CleanupSteps

\* Where the options are sound, the test is sure of every step.
LEMMA SoundRuns ==
    ASSUME NEW o, WellFormed(o), o.teardown, SoundOptions(o)
    PROVE  LET r == Final(o) IN
           r.ok = TRUE /\ \A obj \in DOMAIN r.life : r.life[obj] = "absent"
  <1> DEFINE t == TheTest
             O == Objects(t, o)
             w == Workflow(t)
             ps == AllList(t, o)
             c1 == Rules(t, o, Surroundings(t, o), {}, {})
             c2 == Rules(t, o, {w}, {}, Mid(t, o))
             c3 == Rules(t, o, Whole(t, o), {}, Mid(t, o))
             c4 == CleanupRules(t, o, {})
  <1>1. /\ Clear(o) /\ (o.externalMgs => o.persistentLustre # NoName)
        /\ Distinct(o) /\ (o.createPersistent # NoName => o.cleanupPersistent)
    BY DEF SoundOptions
  <1>2. c1.sure = TRUE /\ c2.sure = TRUE /\ c3.sure = TRUE /\ c4.sure = TRUE
    BY <1>1 DEF Rules, CleanupRules
  <1> DEFINE a == Prepare(t, o)
             b == Create(w)
             d == Execute(t, o)
             e == Teardown(t, o)
             f == Cleanup(t, o, ps)
             T == Seq(StepOn(O))
  <1>3. a \in T /\ b \in T /\ d \in T /\ e \in T /\ f \in T
    BY ScriptParts
  <1> DEFINE x0 == Shadow({}, {}, <<>>)
             S0 == Between({}, {}, {}, <<>>)
             outs == OutPods(t, o)
             all == Prepared(t, o) \cup outs
             S4 == Between(all \cup Own(o), all \cup {w, OwnFileSystem(o)},
                           PoolCreators(o, o.mgsPool.count) \cup {w}, ps)
             S5 == Clean(t, o, ps)
  <1>4. x0 \in S0 /\ Stands(Start(o), O, x0)
    BY DEF Between, Shadow, Stands, Start
  <1>5. Leads(c1, S0, a, AtCreate(t, o))
    BY <1>1, PrepareLeads DEF AtCreate
  <1>6. Leads(c2, AtCreate(t, o), b, AtExecute(t, o))
    BY <1>1, CreateLeads
  <1>7. Leads(c3, AtExecute(t, o), d, AtTeardown(t, o))
    BY <1>1, ExecuteLeads
  <1>8. Leads(c2, AtTeardown(t, o), e, AtCleanup(t, o))
    BY TeardownLeads
  <1>9. Leads(c4, S4, f, S5)
    <2>1. Own(o) \in SUBSET {OwnFileSystem(o)}
      BY DEF Own, Only
    <2>2. o.cleanupPersistent => OwnFileSystem(o) \in Own(o) \cup {}
      BY DEF WellFormed, Own, Only
    <2>3. PodList(t, o, outs, ps)
      BY DEF PodList
    <2> QED BY <1>1, <2>1, <2>2, <2>3, CleanupLeads
  <1>10. AtCleanup(t, o) \subseteq S4 /\ \A y \in AtCleanup(t, o) : w \notin y.held
    <2> DEFINE l == Prepared(t, o) \cup outs \cup Own(o)
               g == PoolCreators(o, o.mgsPool.count) \cup {w}
    <2>1. Only(~o.teardown, {w}) = {}
      BY DEF Only
    <2>2. AtCleanup(t, o) = Between(l, l, g, ps)
      BY <2>1 DEF AtCleanup
    <2>3. l = all \cup Own(o) /\ l \subseteq all \cup {w, OwnFileSystem(o)}
      BY DEF Own, Only
    <2>4. w \notin l
      <3>1. l \subseteq Surroundings(t, o)
        BY DEF Surroundings
      <3> QED BY <3>1, WorkflowApart
    <2> HIDE DEF l, g, all, w, ps
    <2>5. Between(l, l, g, ps) \subseteq Between(all \cup Own(o), all \cup {w, OwnFileSystem(o)}, g, ps)
      BY <2>3, BetweenWider
    <2>6. \A y \in Between(l, l, g, ps) : w \notin y.held
      BY <2>4 DEF Between
    <2> QED BY <2>2, <2>5, <2>6 DEF g
  <1>11. f \in Seq(StepOn(Surroundings(t, o)))
    BY ListSteps
  <1>12. w \in O
    BY ObjectSteps
  <1>13. Final(o) = End(End(End(End(End(Start(o), a), b), d), e), f)
    BY ScriptParts
  <1>14. ASSUME NEW y \in S5, NEW obj \in O, obj \in y.held PROVE obj = w
    <2>1. obj = w \/ (~o.cleanupPersistent /\ obj = OwnFileSystem(o))
      BY <1>14 DEF Clean, Between, Only
    <2>2. obj \in Whole(t, o)
      BY ObjectSteps
    <2>3. OwnFileSystem(o)[1] = "persistent lustre"
      BY Kinds
    <2>4. obj = OwnFileSystem(o) => o.createPersistent # NoName \/ o.persistentLustre # NoName
      BY <2>2, <2>3, WholeMembers
    <2>5. obj = OwnFileSystem(o) => o.createPersistent # NoName
      BY <1>1, <2>2, <2>3, <2>4, WholeMembers, OwnApart
    <2> QED BY <1>1, <2>1, <2>5
  <1> HIDE DEF a, b, d, e, f, O, S0, S4, S5, c1, c2, c3, c4, x0, w
  <1>15. PICK y1 \in AtCreate(t, o) : Stands(End(Start(o), a), O, y1)
    BY <1>2, <1>3, <1>4, <1>5, LeadsRuns
  <1>16. PICK r1 : r1 = End(Start(o), a)
    OBVIOUS
  <1>17. PICK y2 \in AtExecute(t, o) : Stands(End(r1, b), O, y2)
    BY <1>2, <1>3, <1>6, <1>15, <1>16, LeadsRuns
  <1>18. PICK r2 : r2 = End(r1, b)
    OBVIOUS
  <1>19. PICK y3 \in AtTeardown(t, o) : Stands(End(r2, d), O, y3)
    BY <1>2, <1>3, <1>7, <1>17, <1>18, LeadsRuns
  <1>20. PICK r3 : r3 = End(r2, d)
    OBVIOUS
  <1>21. PICK y4 \in AtCleanup(t, o) : Stands(End(r3, e), O, y4)
    BY <1>2, <1>3, <1>8, <1>19, <1>20, LeadsRuns
  <1>22. PICK r4 : r4 = End(r3, e)
    OBVIOUS
  <1>23. PICK y5 \in S5 : Stands(End(r4, f), O, y5)
    BY <1>2, <1>3, <1>9, <1>10, <1>21, <1>22, LeadsRuns
  <1>24. PICK r : r = End(r4, f)
    OBVIOUS
  <1>25. r = Final(o)
    BY <1>13, <1>16, <1>18, <1>20, <1>22, <1>24
  <1>26. r.ok = TRUE /\ r.life = [obj \in O |-> IF obj \in y5.held THEN "present" ELSE "absent"]
    BY <1>23, <1>24 DEF Stands
  <1>27. r.life[w] = "absent"
    <2>1. r4.ok = TRUE /\ r4.life = [obj \in O |-> IF obj \in y4.held THEN "present" ELSE "absent"]
      BY <1>21, <1>22 DEF Stands
    <2>2. r4 = [ok |-> r4.ok, life |-> r4.life]
      BY <1>21, <1>22 DEF Stands
    <2>3. w \notin y4.held
      BY <1>10
    <2>4. Holds(r4, w, {"absent"})
      BY <1>12, <2>1, <2>2, <2>3 DEF Holds
    <2>5. Turns(Surroundings(t, o), f, w, {"absent"}, {"absent"})
      <3>1. w \notin Surroundings(t, o)
        BY WorkflowApart DEF w
      <3>2. {"absent"} \in SUBSET State
        BY DEF State
      <3> QED BY <1>11, <3>1, <3>2, TurnsOther
    <2>6. Holds(r, w, {"absent"})
      BY <1>24, <2>4, <2>5 DEF Turns
    <2> QED BY <1>26, <2>6 DEF Holds
  <1>28. ASSUME NEW obj \in O PROVE r.life[obj] = "absent"
    BY <1>14, <1>26, <1>27
  <1>29. DOMAIN r.life = O
    BY <1>26
  <1> QED BY <1>25, <1>26, <1>28, <1>29

\* What a row of scripts makes of p, if the first turns it from A to B and none turns
\* it from B.
LEMMA TurnsFlatten ==
    ASSUME NEW X, NEW p, NEW A \in SUBSET State, NEW B \in SUBSET State,
           NEW m \in Nat, NEW f, Len(f) = m, m = 0 => f = <<>>,
           \A k \in 1 .. m : Turns(X, f[k], p, B, B),
           m = 0 => A = B, m # 0 => Turns(X, f[1], p, A, B)
    PROVE  Turns(X, FlattenSeq(f), p, A, B)
  <1>1. CASE m = 0
    <2>1. FlattenSeq(f) = <<>>
      BY <1>1 DEF FlattenSeq
    <2>2. <<>> \in Seq(StepOn({})) /\ {} \in SUBSET X /\ p \notin {}
      OBVIOUS
    <2>3. Turns(X, <<>>, p, A, A)
      BY <2>2, TurnsOther
    <2> QED BY <1>1, <2>1, <2>3
  <1>2. CASE m # 0
    <2>1. PICK g : Joins(g, f, m) /\ FlattenSeq(f) = g[m]
      BY <1>2, FlattenJoins
    <2> DEFINE S == {k \in Nat : k \in 1 .. m => Turns(X, g[k], p, A, B)}
    <2>2. 0 \in S
      OBVIOUS
    <2>3. ASSUME NEW k \in Nat, k \in S PROVE k + 1 \in S
      <3> SUFFICES ASSUME k + 1 \in 1 .. m PROVE Turns(X, g[k + 1], p, A, B)
        OBVIOUS
      <3>1. g[k + 1] = IF k = 0 THEN f[k + 1] ELSE g[k] \o f[k + 1]
        <4>1. (k + 1) - 1 = k /\ (k + 1 = 1 <=> k = 0)
          OBVIOUS
        <4>2. g[k + 1] = IF k + 1 = 1 THEN f[k + 1] ELSE g[(k + 1) - 1] \o f[k + 1]
          BY <2>1 DEF Joins
        <4> QED BY <4>1, <4>2
      <3>3. CASE k = 0
        BY <1>2, <3>1, <3>3
      <3>4. CASE k # 0
        <4>1. Turns(X, g[k], p, A, B) /\ Turns(X, f[k + 1], p, B, B)
          BY <2>3, <3>4
        <4>2. g[k + 1] = g[k] \o f[k + 1]
          BY <3>1, <3>4
        <4> QED BY <4>1, <4>2, TurnsJoin
      <3> QED BY <3>3, <3>4
    <2>4. m \in S
      <3> HIDE DEF S
      <3> QED BY <2>2, <2>3, Induction
    <2> QED BY <1>2, <2>1, <2>4
  <1> QED BY <1>1, <1>2

PoolCleanup(o) == FlattenSeq([k \in 1 .. o.mgsPool.count |-> MgsCleanup(o, k)])

\* The MGSs of the pool and the workflows for them.
Pools(o) ==
    LET m == o.mgsPool.count IN Pool(o, m) \cup PoolCreators(o, m) \cup PoolDestroyers(o, m)

\* The parts of a script for a pool are about these, and its profile.
LEMMA PoolSteps ==
    ASSUME NEW o, WellFormed(o)
    PROVE  /\ PoolPart(o) \in Seq(StepOn(Pools(o) \cup {PoolProfile(o)}))
           /\ PoolCleanup(o) \in Seq(StepOn(Pools(o)))
           /\ \A k \in 1 .. o.mgsPool.count :
                 /\ MgsFileSystem(o, k) \in Pools(o) /\ Creator(MgsFileSystem(o, k)) \in Pools(o)
                 /\ Destroyer(MgsFileSystem(o, k)) \in Pools(o)
  <1> DEFINE m == o.mgsPool.count
             Y == Pools(o)
             Z == Y \cup {PoolProfile(o)}
             f == [k \in 1 .. m |-> MgsPrepare(o, k)]
             g == [k \in 1 .. m |-> MgsCleanup(o, k)]
  <1>1. m \in Nat
    BY DEF WellFormed
  <1>2. ASSUME NEW k \in 1 .. m
        PROVE  /\ MgsFileSystem(o, k) \in Y /\ Creator(MgsFileSystem(o, k)) \in Y
               /\ Destroyer(MgsFileSystem(o, k)) \in Y
    BY DEF Pools, Pool, PoolCreators, PoolDestroyers
  <1> HIDE DEF Y
  <1>3. ASSUME NEW k \in 1 .. m PROVE MgsPrepare(o, k) \in Seq(StepOn(Z))
    <2>1. PICK fs, mk, q : fs = MgsFileSystem(o, k) /\ mk = Creator(fs) /\ q = PoolProfile(o)
      OBVIOUS
    <2>2. fs \in Z /\ mk \in Z /\ q \in Z
      BY <1>2, <2>1
    <2>3. MgsPrepare(o, k) =
             Create(mk) \o Create(q) \o Provision(fs) \o DeleteAndWait(q) \o Delete(mk)
      BY <2>1 DEF MgsPrepare
    <2> HIDE DEF Z
    <2>4. /\ Create(mk) \in Seq(StepOn(Z)) /\ Create(q) \in Seq(StepOn(Z))
          /\ Provision(fs) \in Seq(StepOn(Z)) /\ DeleteAndWait(q) \in Seq(StepOn(Z))
          /\ Delete(mk) \in Seq(StepOn(Z))
      BY <2>2, OneStep
    <2> QED BY <2>3, <2>4
  <1>4. ASSUME NEW k \in 1 .. m PROVE MgsCleanup(o, k) \in Seq(StepOn(Y))
    <2>1. PICK fs, rm : fs = MgsFileSystem(o, k) /\ rm = Destroyer(fs)
      OBVIOUS
    <2>2. fs \in Y /\ rm \in Y
      BY <1>2, <2>1
    <2>3. MgsCleanup(o, k) = Create(rm) \o Destroy(fs) \o DeleteAndWait(rm)
      BY <2>1 DEF MgsCleanup
    <2>4. /\ Create(rm) \in Seq(StepOn(Y)) /\ Destroy(fs) \in Seq(StepOn(Y))
          /\ DeleteAndWait(rm) \in Seq(StepOn(Y))
      BY <2>2, OneStep
    <2> QED BY <2>3, <2>4
  <1>5. /\ Len(f) = m /\ (m = 0 => f = <<>>) /\ \A k \in 1 .. m : f[k] = MgsPrepare(o, k)
        /\ Len(g) = m /\ (m = 0 => g = <<>>) /\ \A k \in 1 .. m : g[k] = MgsCleanup(o, k)
    BY <1>1
  <1>6. PoolPart(o) = FlattenSeq(f) /\ PoolCleanup(o) = FlattenSeq(g)
    BY DEF PoolPart, PoolCleanup
  <1> HIDE DEF f, g, Z, m
  <1>7. FlattenSeq(f) \in Seq(StepOn(Z))
    BY <1>1, <1>3, <1>5, FlattenSteps
  <1>8. FlattenSeq(g) \in Seq(StepOn(Y))
    BY <1>1, <1>4, <1>5, FlattenSteps
  <1> QED BY <1>2, <1>6, <1>7, <1>8 DEF Y, Z, m

\* Steps on another object leave p alone.
LEMMA TurnsAway ==
    ASSUME NEW X, NEW x \in X, NEW p, p # x, NEW A \in SUBSET State
    PROVE  /\ Turns(X, Create(x), p, A, A) /\ Turns(X, Delete(x), p, A, A)
           /\ Turns(X, Provision(x), p, A, A) /\ Turns(X, Destroy(x), p, A, A)
           /\ Turns(X, Await(x), p, A, A) /\ Turns(X, DeleteAndWait(x), p, A, A)
  <1>1. {x} \in SUBSET X /\ x \in {x} /\ p \notin {x}
    OBVIOUS
  <1> QED BY <1>1, OneStep, TurnsOther

\* Each MGS is made with a profile that must not be there, and is gone afterwards.
LEMMA MgsTurns ==
    ASSUME NEW o, NEW k, NEW X,
           {MgsFileSystem(o, k), Creator(MgsFileSystem(o, k)), PoolProfile(o)} \subseteq X
    PROVE  /\ Turns(X, MgsPrepare(o, k), PoolProfile(o), {"absent"}, {"absent"})
           /\ Turns(X, MgsPrepare(o, k), PoolProfile(o), {"present"}, {})
  <1> DEFINE q == PoolProfile(o)
             fs == MgsFileSystem(o, k)
             mk == Creator(fs)
  <1>1. {"absent"} \in SUBSET State /\ {"present"} \in SUBSET State /\ {} \in SUBSET State
    BY DEF State
  <1>2. fs \in X /\ mk \in X /\ q \in X /\ q # fs /\ q # mk
    BY Kinds DEF PoolProfile
  <1>3. MgsPrepare(o, k) = Create(mk) \o Create(q) \o Provision(fs) \o DeleteAndWait(q) \o Delete(mk)
    BY DEF MgsPrepare
  <1> HIDE DEF q, fs, mk
  <1>4. \A A \in SUBSET State :
           /\ Turns(X, Create(mk), q, A, A) /\ Turns(X, Provision(fs), q, A, A)
           /\ Turns(X, Delete(mk), q, A, A)
    BY <1>2, TurnsAway
  <1>5. Turns(X, Create(q), q, {"absent"}, {"present"}) /\ Turns(X, Create(q), q, {"present"}, {})
    BY <1>2, TurnsMake DEF Create
  <1>6. Turns(X, DeleteAndWait(q), q, {"present"}, {"absent"})
    BY <1>2, TurnsDelete
  <1>7. Turns(X, DeleteAndWait(q), q, {}, {})
    BY <1>2, OneStep, TurnsNone
  <1>8. Turns(X, MgsPrepare(o, k), q, {"absent"}, {"absent"})
    <2>1. Turns(X, Create(mk) \o Create(q), q, {"absent"}, {"present"})
      BY <1>1, <1>4, <1>5, TurnsJoin
    <2>2. Turns(X, Create(mk) \o Create(q) \o Provision(fs), q, {"absent"}, {"present"})
      BY <1>1, <1>4, <2>1, TurnsJoin
    <2>3. Turns(X, Create(mk) \o Create(q) \o Provision(fs) \o DeleteAndWait(q), q,
                {"absent"}, {"absent"})
      BY <1>6, <2>2, TurnsJoin
    <2> QED BY <1>1, <1>3, <1>4, <2>3, TurnsJoin
  <1>9. Turns(X, MgsPrepare(o, k), q, {"present"}, {})
    <2>1. Turns(X, Create(mk) \o Create(q), q, {"present"}, {})
      BY <1>1, <1>4, <1>5, TurnsJoin
    <2>2. Turns(X, Create(mk) \o Create(q) \o Provision(fs), q, {"present"}, {})
      BY <1>1, <1>4, <2>1, TurnsJoin
    <2>3. Turns(X, Create(mk) \o Create(q) \o Provision(fs) \o DeleteAndWait(q), q, {"present"}, {})
      BY <1>7, <2>2, TurnsJoin
    <2> QED BY <1>1, <1>3, <1>4, <2>3, TurnsJoin
  <1> QED BY <1>8, <1>9 DEF q

\* Prepare leaves a storage profile that is not there as it is, and fails if the pool's
\* is there already; Cleanup of the pool does nothing to it.
LEMMA PoolTurns ==
    ASSUME NEW o, WellFormed(o), NEW n, NEW X, Pools(o) \subseteq X, PoolProfile(o) \in X
    PROVE  LET p == Profile(n) IN
           /\ Turns(X, PoolPart(o), p, {"absent"}, {"absent"})
           /\ o.mgsPool.count # 0 /\ PoolProfile(o) = p => Turns(X, PoolPart(o), p, {"present"}, {})
           /\ Turns(X, PoolCleanup(o), p, {"absent"}, {"absent"})
  <1> DEFINE p == Profile(n)
             q == PoolProfile(o)
             m == o.mgsPool.count
             Z == Pools(o) \cup {q}
             f == [k \in 1 .. m |-> MgsPrepare(o, k)]
  <1>1. {"absent"} \in SUBSET State /\ {"present"} \in SUBSET State /\ {} \in SUBSET State
    BY DEF State
  <1>2. p \notin Pools(o)
    <2>1. p[1] = "storage profile"
      BY Kinds
    <2> HIDE DEF p
    <2>2. p \notin Pool(o, m) /\ p \notin PoolCreators(o, m) /\ p \notin PoolDestroyers(o, m)
      <3> HIDE DEF m
      <3> QED BY <2>1, PoolMembers
    <2> QED BY <2>2 DEF Pools
  <1>3. /\ m \in Nat /\ Len(f) = m /\ (m = 0 => f = <<>>)
        /\ \A k \in 1 .. m : f[k] = MgsPrepare(o, k)
    BY DEF WellFormed
  <1>4. PoolPart(o) = FlattenSeq(f)
    BY DEF PoolPart
  <1> HIDE DEF p, q, m, f
  <1>5. Turns(X, PoolCleanup(o), p, {"absent"}, {"absent"})
    BY <1>1, <1>2, PoolSteps, TurnsOther
  <1>6. ASSUME p # q PROVE Turns(X, PoolPart(o), p, {"absent"}, {"absent"})
    <2>1. Z \in SUBSET X /\ p \notin Z /\ PoolPart(o) \in Seq(StepOn(Z))
      BY <1>2, <1>6, PoolSteps DEF q
    <2> HIDE DEF Z
    <2> QED BY <1>1, <2>1, TurnsOther
  <1>7. ASSUME p = q
        PROVE  /\ Turns(X, PoolPart(o), p, {"absent"}, {"absent"})
               /\ m # 0 => Turns(X, PoolPart(o), p, {"present"}, {})
    <2>1. ASSUME NEW k \in 1 .. m
          PROVE  /\ Turns(X, f[k], p, {"absent"}, {"absent"}) /\ Turns(X, f[k], p, {"present"}, {})
                 /\ Turns(X, f[k], p, {}, {})
      <3>1. {MgsFileSystem(o, k), Creator(MgsFileSystem(o, k)), PoolProfile(o)} \subseteq X
        BY PoolSteps DEF m, q
      <3>2. /\ Turns(X, f[k], p, {"absent"}, {"absent"}) /\ Turns(X, f[k], p, {"present"}, {})
        BY <1>3, <1>7, <3>1, MgsTurns DEF q
      <3>3. f[k] \in Seq(StepOn(X))
        BY <3>2 DEF Turns
      <3> QED BY <3>2, <3>3, TurnsNone
    <2>2. m # 0 => 1 \in 1 .. m
      BY <1>3
    <2>3. Turns(X, FlattenSeq(f), p, {"absent"}, {"absent"})
      BY <1>1, <1>3, <2>1, <2>2, TurnsFlatten
    <2>4. m # 0 => Turns(X, FlattenSeq(f), p, {"present"}, {})
      BY <1>1, <1>3, <2>1, <2>2, TurnsFlatten
    <2> QED BY <1>4, <2>3, <2>4
  <1> QED BY <1>5, <1>6, <1>7 DEF p, q, m

\* One object, through the whole script.
LEMMA ScriptTurns ==
    ASSUME NEW o, WellFormed(o), NEW p \in Objects(TheTest, o), NEW X,
           NEW A1, NEW A2, NEW A3, NEW A4, NEW A5,
           Turns(X, Prepare(TheTest, o), p, {"absent"}, A1),
           Turns(X, Create(Workflow(TheTest)), p, A1, A2),
           Turns(X, Execute(TheTest, o), p, A2, A3),
           Turns(X, Teardown(TheTest, o), p, A3, A4),
           Turns(X, Cleanup(TheTest, o, AllList(TheTest, o)), p, A4, A5)
    PROVE  Holds(Final(o), p, A5)
  <1> DEFINE t == TheTest
             r1 == End(Start(o), Prepare(t, o))
             r2 == End(r1, Create(Workflow(t)))
             r3 == End(r2, Execute(t, o))
             r4 == End(r3, Teardown(t, o))
             r5 == End(r4, Cleanup(t, o, AllList(t, o)))
  <1>1. Holds(Start(o), p, {"absent"})
    BY DEF Holds, Start
  <1>2. Holds(r1, p, A1)
    BY <1>1 DEF Turns
  <1> HIDE DEF r1
  <1>3. Holds(r2, p, A2)
    BY <1>2 DEF Turns
  <1> HIDE DEF r2
  <1>4. Holds(r3, p, A3)
    BY <1>3 DEF Turns
  <1> HIDE DEF r3
  <1>5. Holds(r4, p, A4)
    BY <1>4 DEF Turns
  <1> HIDE DEF r4
  <1>6. Holds(r5, p, A5)
    BY <1>5 DEF Turns
  <1>7. Final(o) = r5
    BY ScriptParts DEF r1, r2, r3, r4
  <1> HIDE DEF r5
  <1> QED BY <1>6, <1>7

\* A file system that is made and not destroyed is left.
LEMMA OwnLeft ==
    ASSUME NEW o, WellFormed(o), Distinct(o), o.createPersistent # NoName, ~o.cleanupPersistent
    PROVE  Holds(Final(o), OwnFileSystem(o), {"present"})
  <1> DEFINE t == TheTest
             w == Workflow(t)
             pi == OwnFileSystem(o)
             pod == CopyOutPod(t)
  <1>1. PICK o1 : /\ o1.storageProfile = o.storageProfile /\ o1.containerProfile = o.containerProfile
                  /\ o1.externalMgs = o.externalMgs /\ o1.persistentLustre = o.persistentLustre
                  /\ o1.globalLustre = o.globalLustre /\ o1.mgsPool = o.mgsPool
                  /\ o1.copyIn = o.copyIn /\ o1.copyOut = o.copyOut
                  /\ o1.createPersistent = NoName /\ o1.cleanupPersistent = FALSE
    <2> DEFINE o2 == [storageProfile |-> o.storageProfile, containerProfile |-> o.containerProfile,
                      externalMgs |-> o.externalMgs, persistentLustre |-> o.persistentLustre,
                      globalLustre |-> o.globalLustre, mgsPool |-> o.mgsPool,
                      copyIn |-> o.copyIn, copyOut |-> o.copyOut,
                      createPersistent |-> NoName, cleanupPersistent |-> FALSE]
    <2>1. /\ o2.storageProfile = o.storageProfile /\ o2.containerProfile = o.containerProfile
          /\ o2.externalMgs = o.externalMgs /\ o2.persistentLustre = o.persistentLustre
          /\ o2.globalLustre = o.globalLustre /\ o2.mgsPool = o.mgsPool
          /\ o2.copyIn = o.copyIn /\ o2.copyOut = o.copyOut
          /\ o2.createPersistent = NoName /\ o2.cleanupPersistent = FALSE
      OBVIOUS
    <2> HIDE DEF o2
    <2> QED BY <2>1
  <1> DEFINE Y == Surroundings(t, o1)
             X == Y \cup {w, pi, pod}
  <1>2. WellFormed(o1)
    BY <1>1 DEF WellFormed
  <1>3. pi \notin Y
    <2>1. pi[1] = "persistent lustre"
      BY Kinds
    <2>2. Y \subseteq Whole(t, o1)
      BY DEF Whole
    <2>3. pi # FileSystem(o1)
      BY <1>1, OwnApart DEF FileSystem
    <2> HIDE DEF Y, pi
    <2> QED BY <1>1, <2>1, <2>2, <2>3, WholeMembers
  <1>4. Prepare(t, o) = Prepare(t, o1)
    <2>1. \A k : MgsPrepare(o, k) = MgsPrepare(o1, k)
      BY <1>1 DEF MgsPrepare, PoolProfile, MgsFileSystem
    <2>2. [k \in 1 .. o.mgsPool.count |-> MgsPrepare(o, k)]
          = [k \in 1 .. o1.mgsPool.count |-> MgsPrepare(o1, k)]
      BY <1>1, <2>1
    <2>3. PoolPart(o) = PoolPart(o1)
      BY <2>2 DEF PoolPart
    <2>4. /\ ProfilePart(o) = ProfilePart(o1) /\ ContainerPart(o) = ContainerPart(o1)
          /\ LustrePart(o) = LustrePart(o1) /\ GlobalPart(t, o) = GlobalPart(t, o1)
      BY <1>1 DEF ProfilePart, ContainerPart, LustrePart, GlobalPart, PersistentPrepare,
                  FileSystem, GlobalLustre
    <2> QED BY <1>2, <2>3, <2>4, PrepareParts
  <1>5. AllList(t, o) = AllList(t, o1)
    BY <1>1 DEF AllList, InList
  <1>6. Cleanup(t, o, AllList(t, o)) = Cleanup(t, o1, AllList(t, o1))
    <2> DEFINE c1 == FlattenSeq([k \in 1 .. o.mgsPool.count |-> MgsCleanup(o, k)])
               c0 == FlattenSeq([k \in 1 .. o1.mgsPool.count |-> MgsCleanup(o1, k)])
               D(x) == When(x.cleanupPersistent,
                            Create(Destroyer(OwnFileSystem(x))) \o Destroy(OwnFileSystem(x))
                            \o DeleteAndWait(Destroyer(OwnFileSystem(x))))
    <2>1. c1 = c0
      <3>1. \A k : MgsCleanup(o, k) = MgsCleanup(o1, k)
        BY <1>1 DEF MgsCleanup, MgsFileSystem
      <3> QED BY <1>1, <3>1
    <2>2. D(o) = D(o1)
      BY <1>1 DEF When
    <2>3. FileSystem(o) = FileSystem(o1) /\ GlobalLustre(o) = GlobalLustre(o1)
      BY <1>1 DEF FileSystem, GlobalLustre
    <2>4. ASSUME NEW ps PROVE Cleanup(t, o, ps) = Cleanup(t, o1, ps)
      <3> DEFINE C(x, c, d) ==
                   FlattenSeq([k \in 1 .. Len(ps) |-> DeleteAndWait(ps[k])])
                   \o When(x.globalLustre # NoName, DeleteAndWait(GlobalLustre(x)))
                   \o c \o d
                   \o When(x.persistentLustre # NoName, LustreCleanup(FileSystem(x)))
                   \o When(x.storageProfile # NoName, DeleteAndWait(Profile(x.storageProfile)))
                   \o When(x.containerProfile # NoName,
                           DeleteAndWait(ContainerProfile(x.containerProfile)))
      <3>1. Cleanup(t, o, ps) = C(o, c1, D(o)) /\ Cleanup(t, o1, ps) = C(o1, c0, D(o1))
        BY DEF Cleanup
      <3> HIDE DEF c1, c0, D
      <3>2. C(o, c1, D(o)) = C(o1, c0, D(o1))
        BY <1>1, <2>1, <2>2, <2>3
      <3> QED BY <3>1, <3>2
    <2> QED BY <1>5, <2>4
  <1>7. {"absent"} \in SUBSET State /\ {"present"} \in SUBSET State
    BY DEF State
  <1>8. pi # w /\ pi # pod
    BY Kinds
  <1>9. Prepare(t, o1) \in Seq(StepOn(Y)) /\ Cleanup(t, o1, AllList(t, o1)) \in Seq(StepOn(Y))
    BY <1>2, PrepareSteps, ListSteps
  <1>10. Execute(t, o) = (Provision(pi) \o When(o.copyOut, HelperPod(pod))) \o Run(w)
    BY DEF Execute
  <1>11. /\ Create(w) \in Seq(StepOn({w})) /\ Teardown(t, o) \in Seq(StepOn({w}))
         /\ Run(w) \in Seq(StepOn({w})) /\ HelperPod(pod) \in Seq(StepOn({pod}))
    BY OneStep, ExecuteSteps
  <1>12. pi \in Objects(t, o)
    BY OfScript
  <1> HIDE DEF Y, w, pi, pod, t
  <1>13. /\ Y \in SUBSET X /\ {w} \in SUBSET X /\ {pod} \in SUBSET X /\ pi \in X
         /\ pi \notin {w} /\ pi \notin {pod}
    BY <1>8
  <1> HIDE DEF X
  <1>14. Turns(X, Prepare(t, o), pi, {"absent"}, {"absent"})
    BY <1>3, <1>4, <1>7, <1>9, <1>13, TurnsOther
  <1>15. Turns(X, Create(w), pi, {"absent"}, {"absent"})
    BY <1>7, <1>11, <1>13, TurnsOther
  <1>16. Turns(X, Execute(t, o), pi, {"absent"}, {"present"})
    <2>1. Turns(X, Provision(pi), pi, {"absent"}, {"present"})
      BY <1>13, TurnsMake DEF Provision
    <2>2. Turns(X, When(o.copyOut, HelperPod(pod)), pi, {"present"}, {"present"})
      <3>1. Turns(X, HelperPod(pod), pi, {"present"}, {"present"})
        BY <1>7, <1>11, <1>13, TurnsOther
      <3> QED BY <1>7, <3>1, TurnsWhen
    <2>3. Turns(X, Run(w), pi, {"present"}, {"present"})
      BY <1>7, <1>11, <1>13, TurnsOther
    <2>4. Turns(X, Provision(pi) \o When(o.copyOut, HelperPod(pod)), pi, {"absent"}, {"present"})
      BY <2>1, <2>2, TurnsJoin
    <2> QED BY <1>10, <2>3, <2>4, TurnsJoin
  <1>17. Turns(X, Teardown(t, o), pi, {"present"}, {"present"})
    BY <1>7, <1>11, <1>13, TurnsOther
  <1>18. Turns(X, Cleanup(t, o, AllList(t, o)), pi, {"present"}, {"present"})
    BY <1>3, <1>6, <1>7, <1>9, <1>13, TurnsOther
  <1> QED BY <1>12, <1>14, <1>15, <1>16, <1>17, <1>18, ScriptTurns DEF t, w, pi

\* A step that makes and takes nothing leaves p alone.
LEMMA TurnsAwait ==
    ASSUME NEW X, NEW p \in X, NEW A \in SUBSET State PROVE Turns(X, Await(p), p, A, A)
  <1> DEFINE e == [op |-> "await", obj |-> p]
  <1>1. e \in StepOn(X) /\ ~Makes(e) /\ ~Takes(e)
    BY DEF StepOn, Op, Makes, Takes
  <1>2. Await(p) = <<e>>
    BY DEF Await
  <1> HIDE DEF e
  <1>3. ASSUME NEW r, Holds(r, p, A) PROVE Holds(Do(r, e), p, A)
    <2>1. /\ Holds(Do(r, e), p, State)
          /\ Do(r, e).ok => r.ok /\ Do(r, e).life[p] = r.life[p]
      BY <1>1, <1>3, StepTurns
    <2> QED BY <1>3, <2>1 DEF Holds
  <1>4. <<e>> \in Seq(StepOn(X))
    BY <1>1
  <1>5. \A r : End(r, <<e>>) = Do(r, e)
    BY OneDone
  <1> QED BY <1>2, <1>3, <1>4, <1>5 DEF Turns

\* The parts of Prepare, other than the persistent lustre.
LEMMA OtherParts ==
    ASSUME NEW t, NEW o, WellFormed(o)
    PROVE  LET Y == {Profile(o.storageProfile), ContainerProfile(o.containerProfile),
                     GlobalLustre(o), CopyInPod(t), PoolProfile(o)} \cup Pools(o)
               T == Seq(StepOn(Y)) IN
           /\ ProfilePart(o) \in T /\ ContainerPart(o) \in T /\ PoolPart(o) \in T
           /\ GlobalPart(t, o) \in T
  <1> DEFINE Y == {Profile(o.storageProfile), ContainerProfile(o.containerProfile),
                   GlobalLustre(o), CopyInPod(t), PoolProfile(o)} \cup Pools(o)
             T == Seq(StepOn(Y))
  <1>1. /\ Profile(o.storageProfile) \in Y /\ ContainerProfile(o.containerProfile) \in Y
        /\ GlobalLustre(o) \in Y /\ CopyInPod(t) \in Y
        /\ Pools(o) \cup {PoolProfile(o)} \in SUBSET Y
    OBVIOUS
  <1>2. StepOn(Pools(o) \cup {PoolProfile(o)}) \subseteq StepOn(Y)
    <2> HIDE DEF Y
    <2> QED BY <1>1 DEF StepOn
  <1> HIDE DEF Y
  <1>3. ProfilePart(o) \in T /\ ContainerPart(o) \in T
    BY <1>1, OneStep, WhenSteps DEF ProfilePart, ContainerPart
  <1>4. PoolPart(o) \in T
    <2>1. PoolPart(o) \in Seq(StepOn(Pools(o) \cup {PoolProfile(o)}))
      BY PoolSteps
    <2> QED BY <1>2, <2>1
  <1>5. GlobalPart(t, o) \in T
    <2>1. When(o.copyIn, HelperPod(CopyInPod(t))) \in T
      BY <1>1, OneStep, WhenSteps
    <2>2. Create(GlobalLustre(o)) \in T
      BY <1>1, OneStep
    <2>3. Create(GlobalLustre(o)) \o When(o.copyIn, HelperPod(CopyInPod(t))) \in T
      BY <2>1, <2>2
    <2> HIDE DEF T
    <2> QED BY <2>3, WhenSteps DEF GlobalPart, T
  <1> QED BY <1>3, <1>4, <1>5 DEF Y

\* A directive cannot make the persistent lustre, which Prepare has made.
LEMMA TwiceFails ==
    ASSUME NEW o, WellFormed(o), ~Distinct(o)
    PROVE  Final(o).ok = FALSE
  <1> DEFINE t == TheTest
             p == FileSystem(o)
             mk == Creator(p)
             w == Workflow(t)
             pod == CopyOutPod(t)
             W == Whole(t, o)
             Y == {Profile(o.storageProfile), ContainerProfile(o.containerProfile),
                   GlobalLustre(o), CopyInPod(t), PoolProfile(o)} \cup Pools(o)
             X == W \cup Y \cup {p, mk, w, pod}
             s1 == ProfilePart(o)
             s2 == ContainerPart(o)
             s3 == LustrePart(o)
             s4 == PoolPart(o)
             s5 == GlobalPart(t, o)
             ext == When(o.externalMgs, Create(Profile(o.storageProfile)))
             A == {"absent"}
             B == {"present"}
  <1>1. /\ o.persistentLustre # NoName /\ o.createPersistent # NoName /\ OwnFileSystem(o) = p
    BY DEF Distinct, FileSystem, OwnFileSystem
  <1>2. A \in SUBSET State /\ B \in SUBSET State /\ {} \in SUBSET State
    BY DEF State
  <1>3. p \notin Y /\ p # w /\ p # pod /\ p # mk
    <2>1. p[1] = "persistent lustre"
      BY Kinds
    <2>2. p \notin {Profile(o.storageProfile), ContainerProfile(o.containerProfile),
                    GlobalLustre(o), CopyInPod(t), PoolProfile(o)}
      BY Kinds DEF PoolProfile
    <2>3. p \notin Pools(o)
      <3> DEFINE m == o.mgsPool.count
      <3> HIDE DEF p
      <3>1. p \notin Pool(o, m) /\ p \notin PoolCreators(o, m) /\ p \notin PoolDestroyers(o, m)
        <4> HIDE DEF m
        <4> QED BY <2>1, PoolMembers
      <3> QED BY <3>1 DEF Pools
    <2>4. p # w /\ p # pod /\ p # mk
      BY Kinds
    <2> QED BY <2>2, <2>3, <2>4
  <1>4. p \in Objects(t, o)
    BY <1>1, OfScript
  <1>5. s1 \in Seq(StepOn(Y)) /\ s2 \in Seq(StepOn(Y)) /\ s4 \in Seq(StepOn(Y)) /\ s5 \in Seq(StepOn(Y))
    BY OtherParts
  <1>6. s3 = ((Create(mk) \o Provision(p)) \o Await(p)) \o ext
    BY <1>1 DEF LustrePart, PersistentPrepare, When
  <1>7. Prepare(t, o) = (((s1 \o s2) \o s3) \o s4) \o s5
    BY PrepareParts
  <1>8. Execute(t, o) = (Provision(p) \o When(o.copyOut, HelperPod(pod))) \o Run(w)
    BY <1>1 DEF Execute
  <1>9. /\ Create(w) \in Seq(StepOn({w})) /\ Run(w) \in Seq(StepOn({w}))
        /\ Teardown(t, o) \in Seq(StepOn({w})) /\ HelperPod(pod) \in Seq(StepOn({pod}))
    BY OneStep, ExecuteSteps
  <1>10. Cleanup(t, o, AllList(t, o)) \in Seq(StepOn(W))
    <2>1. Surroundings(t, o) \subseteq W
      BY DEF Whole
    <2> HIDE DEF W
    <2>2. StepOn(Surroundings(t, o)) \subseteq StepOn(W)
      BY <2>1 DEF StepOn
    <2>3. Cleanup(t, o, AllList(t, o)) \in Seq(StepOn(Surroundings(t, o)))
      BY ListSteps
    <2> QED BY <2>2, <2>3
  <1>11. /\ W \in SUBSET X /\ Y \in SUBSET X /\ {w} \in SUBSET X /\ {pod} \in SUBSET X
         /\ p \in X /\ mk \in X /\ Profile(o.storageProfile) \in Y
    OBVIOUS
  <1>12. p # Profile(o.storageProfile) /\ Profile(o.storageProfile) \in X
    BY <1>3, <1>11
  <1>13. ext \in Seq(StepOn(Y))
    BY <1>11, OneStep, WhenSteps
  <1> HIDE DEF X, Y, W, p, mk, w, pod, t, s1, s2, s3, s4, s5, ext, A, B
  <1>14. ASSUME NEW s \in Seq(StepOn(Y)), NEW C \in SUBSET State PROVE Turns(X, s, p, C, C)
    BY <1>3, <1>11, TurnsOther
  <1>15. Turns(X, s3, p, A, B)
    <2>1. Turns(X, Create(mk), p, A, A)
      BY <1>2, <1>3, <1>11, TurnsAway
    <2>2. Turns(X, Provision(p), p, A, B)
      BY <1>11, TurnsMake DEF Provision, A, B
    <2>3. Turns(X, Await(p), p, B, B)
      BY <1>2, <1>11, TurnsAwait
    <2>4. Turns(X, ext, p, B, B)
      BY <1>2, <1>13, <1>14
    <2>5. Turns(X, Create(mk) \o Provision(p), p, A, B)
      BY <2>1, <2>2, TurnsJoin
    <2>6. Turns(X, (Create(mk) \o Provision(p)) \o Await(p), p, A, B)
      BY <2>3, <2>5, TurnsJoin
    <2> QED BY <1>6, <2>4, <2>6, TurnsJoin
  <1>16. Turns(X, Prepare(t, o), p, A, B)
    <2>1. Turns(X, s1, p, A, A) /\ Turns(X, s2, p, A, A) /\ Turns(X, s4, p, B, B) /\ Turns(X, s5, p, B, B)
      BY <1>2, <1>5, <1>14
    <2>2. Turns(X, s1 \o s2, p, A, A)
      BY <2>1, TurnsJoin
    <2>3. Turns(X, (s1 \o s2) \o s3, p, A, B)
      BY <1>15, <2>2, TurnsJoin
    <2>4. Turns(X, ((s1 \o s2) \o s3) \o s4, p, A, B)
      BY <2>1, <2>3, TurnsJoin
    <2> QED BY <1>7, <2>1, <2>4, TurnsJoin
  <1>17. Turns(X, Create(w), p, B, B)
    BY <1>2, <1>3, <1>9, <1>11, TurnsOther
  <1>18. Turns(X, Execute(t, o), p, B, {})
    <2>1. Turns(X, Provision(p), p, B, {})
      BY <1>11, TurnsMake DEF Provision, B
    <2>2. Turns(X, When(o.copyOut, HelperPod(pod)), p, {}, {})
      <3>1. Turns(X, HelperPod(pod), p, {}, {})
        BY <1>2, <1>3, <1>9, <1>11, TurnsOther
      <3> QED BY <1>2, <3>1, TurnsWhen
    <2>3. Turns(X, Run(w), p, {}, {})
      BY <1>2, <1>3, <1>9, <1>11, TurnsOther
    <2>4. Turns(X, Provision(p) \o When(o.copyOut, HelperPod(pod)), p, B, {})
      BY <2>1, <2>2, TurnsJoin
    <2> QED BY <1>8, <2>3, <2>4, TurnsJoin
  <1>19. Turns(X, Teardown(t, o), p, {}, {})
    BY <1>2, <1>3, <1>9, <1>11, TurnsOther
  <1>20. Turns(X, Cleanup(t, o, AllList(t, o)), p, {}, {})
    <2>1. StepOn(W) \subseteq StepOn(X)
      BY <1>11 DEF StepOn
    <2>2. Cleanup(t, o, AllList(t, o)) \in Seq(StepOn(X))
      BY <1>10, <2>1
    <2> QED BY <2>2, TurnsNone
  <1>21. Holds(Final(o), p, {})
    BY <1>4, <1>16, <1>17, <1>18, <1>19, <1>20, ScriptTurns DEF t, w, A
  <1> QED BY <1>21 DEF Holds

\* Between Prepare and Cleanup the storage profiles are left alone.
LEMMA MiddleAway ==
    ASSUME NEW t, NEW o, NEW n, NEW X, {Workflow(t), OwnFileSystem(o), CopyOutPod(t)} \subseteq X,
           NEW A \in SUBSET State
    PROVE  LET p == Profile(n) IN
           /\ Turns(X, Create(Workflow(t)), p, A, A) /\ Turns(X, Execute(t, o), p, A, A)
           /\ Turns(X, Teardown(t, o), p, A, A)
  <1> DEFINE w == Workflow(t)
             pi == OwnFileSystem(o)
             pod == CopyOutPod(t)
             Y == {w, pi, pod}
             T == Seq(StepOn(Y))
             p == Profile(n)
  <1>1. p # w /\ p # pi /\ p # pod
    BY Kinds
  <1>2. Execute(t, o) = (IF o.createPersistent # NoName THEN Provision(pi) ELSE Run(w))
                        \o When(o.copyOut, HelperPod(pod)) \o Run(w)
    BY DEF Execute
  <1>3. Create(w) \in Seq(StepOn({w})) /\ Teardown(t, o) \in Seq(StepOn({w}))
    BY ExecuteSteps
  <1> HIDE DEF w, pi, pod, p
  <1>4. Execute(t, o) \in T
    <2>1. w \in Y /\ pi \in Y /\ pod \in Y
      OBVIOUS
    <2> HIDE DEF Y
    <2>2. Provision(pi) \in T /\ Run(w) \in T /\ HelperPod(pod) \in T
      BY <2>1, OneStep
    <2>3. When(o.copyOut, HelperPod(pod)) \in T
      BY <2>2, WhenSteps
    <2> QED BY <1>2, <2>2, <2>3
  <1>5. Y \in SUBSET X /\ p \notin Y /\ {w} \in SUBSET X /\ p \notin {w}
    BY <1>1 DEF w, pi, pod
  <1> HIDE DEF Y
  <1>6. /\ Turns(X, Create(w), p, A, A) /\ Turns(X, Execute(t, o), p, A, A)
        /\ Turns(X, Teardown(t, o), p, A, A)
    BY <1>3, <1>4, <1>5, TurnsOther
  <1> QED BY <1>6 DEF w, p

\* Without a persistent lustre the profile that is to have the MGS of it is never made,
\* and Cleanup does not find it.
LEMMA ExternalFails ==
    ASSUME NEW o, WellFormed(o), o.externalMgs, o.persistentLustre = NoName
    PROVE  Final(o).ok = FALSE
  <1> DEFINE t == TheTest
             p == Profile(o.storageProfile)
             w == Workflow(t)
             pi == OwnFileSystem(o)
             W == Whole(t, o)
             O == Objects(t, o)
             X == W \cup Pools(o)
                    \cup {w, pi, CopyOutPod(t), Destroyer(pi), PoolProfile(o), p,
                          ContainerProfile(o.containerProfile)}
  <1>1. /\ o.globalLustre = NoName /\ ~o.copyIn /\ ~o.copyOut /\ o.storageProfile # NoName
    BY DEF WellFormed
  <1>2. {"absent"} \in SUBSET State /\ {} \in SUBSET State
    BY DEF State
  <1>3. p # pi /\ p # Destroyer(pi) /\ p # ContainerProfile(o.containerProfile)
    BY Kinds
  <1> DEFINE A == {"absent"}
  <1>4. Turns(X, <<>>, p, A, A)
    <2>1. <<>> \in Seq(StepOn({})) /\ {} \in SUBSET X /\ p \notin {}
      OBVIOUS
    <2> HIDE DEF X, p
    <2> QED BY <1>2, <2>1, TurnsOther
  <1> DEFINE cont == When(o.containerProfile # NoName, Create(ContainerProfile(o.containerProfile)))
  <1>5. Prepare(t, o) = (((<<>> \o cont) \o <<>>) \o PoolPart(o)) \o <<>>
    BY <1>1 DEF Prepare, When, PoolPart
  <1>6. Turns(X, cont, p, A, A)
    <2>1. Turns(X, Create(ContainerProfile(o.containerProfile)), p, A, A)
      BY <1>2, <1>3, TurnsAway
    <2> HIDE DEF X, p
    <2> QED BY <1>2, <2>1, TurnsWhen
  <1>7. Turns(X, PoolPart(o), p, A, A) /\ Turns(X, PoolCleanup(o), p, A, A)
    <2>1. Pools(o) \subseteq X /\ PoolProfile(o) \in X
      OBVIOUS
    <2> HIDE DEF X
    <2> QED BY <2>1, PoolTurns
  <1>8. /\ Turns(X, Create(w), p, A, A) /\ Turns(X, Execute(t, o), p, A, A)
        /\ Turns(X, Teardown(t, o), p, A, A)
    BY <1>2, MiddleAway
  <1> DEFINE k2 == PoolCleanup(o)
             k3 == When(o.cleanupPersistent,
                        Create(Destroyer(pi)) \o Destroy(pi) \o DeleteAndWait(Destroyer(pi)))
             k5 == DeleteAndWait(p)
             k6 == When(o.containerProfile # NoName, DeleteAndWait(ContainerProfile(o.containerProfile)))
             front == ((<<>> \o k2) \o k3) \o <<>>
  <1>9. Cleanup(t, o, AllList(t, o)) = (front \o k5) \o k6
    <2>1. AllList(t, o) = <<>>
      BY <1>1 DEF AllList, InList, When
    <2>2. Cleanup(t, o, <<>>)
          = FlattenSeq([k \in 1 .. Len(<<>>) |-> DeleteAndWait(<<>>[k])]) \o CleanupRest(t, o)
      <3>1. Surroundings(t, o) \subseteq W /\ <<>> \in Seq(W)
        BY DEF Whole
      <3> QED BY <3>1, CleanupSteps
    <2>3. FlattenSeq([k \in 1 .. Len(<<>>) |-> DeleteAndWait(<<>>[k])]) = <<>>
      <3>1. [k \in 1 .. Len(<<>>) |-> DeleteAndWait(<<>>[k])] = <<>>
        OBVIOUS
      <3> QED BY <3>1 DEF FlattenSeq
    <2>4. CleanupRest(t, o) \in Seq(StepOn(W))
      <3>1. Surroundings(t, o) \subseteq W /\ <<>> \in Seq(W)
        BY DEF Whole
      <3> QED BY <3>1, CleanupSteps
    <2>5. <<>> \o CleanupRest(t, o) = CleanupRest(t, o)
      BY <2>4, ConcatEmptySeq
    <2>6. CleanupRest(t, o) = (front \o k5) \o k6
      BY <1>1 DEF CleanupRest, When, PoolCleanup
    <2> QED BY <2>1, <2>2, <2>3, <2>5, <2>6
  <1>10. Turns(X, k2, p, A, A)
    BY <1>7
  <1>11. Turns(X, k3, p, A, A)
    <2>1. /\ Turns(X, Create(Destroyer(pi)), p, A, A) /\ Turns(X, Destroy(pi), p, A, A)
          /\ Turns(X, DeleteAndWait(Destroyer(pi)), p, A, A)
      BY <1>2, <1>3, TurnsAway
    <2> HIDE DEF X, p, pi
    <2>2. Turns(X, Create(Destroyer(pi)) \o Destroy(pi), p, A, A)
      BY <2>1, TurnsJoin
    <2>3. Turns(X, Create(Destroyer(pi)) \o Destroy(pi) \o DeleteAndWait(Destroyer(pi)), p, A, A)
      BY <2>1, <2>2, TurnsJoin
    <2> QED BY <1>2, <2>3, TurnsWhen
  <1>12. Turns(X, k5, p, A, {})
    BY TurnsDelete
  <1>13. Turns(X, k6, p, {}, {})
    <2>1. Turns(X, DeleteAndWait(ContainerProfile(o.containerProfile)), p, {}, {})
      BY <1>2, <1>3, TurnsAway
    <2> HIDE DEF X, p
    <2> QED BY <1>2, <2>1, TurnsWhen
  <1>14. Cleanup(t, o, AllList(t, o)) \in Seq(StepOn(O))
    BY ScriptParts
  <1> HIDE DEF X, p, w, pi, k2, k3, k5, k6, cont, t, O, W, A
  <1>15. Turns(X, Prepare(t, o), p, A, A)
    <2>1. Turns(X, <<>> \o cont, p, A, A)
      BY <1>4, <1>6, TurnsJoin
    <2>2. Turns(X, (<<>> \o cont) \o <<>>, p, A, A)
      BY <1>4, <2>1, TurnsJoin
    <2>3. Turns(X, ((<<>> \o cont) \o <<>>) \o PoolPart(o), p, A, A)
      BY <1>7, <2>2, TurnsJoin
    <2> QED BY <1>4, <1>5, <2>3, TurnsJoin
  <1>16. Turns(X, front, p, A, A)
    <2>1. Turns(X, <<>> \o k2, p, A, A)
      BY <1>4, <1>10, TurnsJoin
    <2>2. Turns(X, (<<>> \o k2) \o k3, p, A, A)
      BY <1>11, <2>1, TurnsJoin
    <2> QED BY <1>4, <2>2, TurnsJoin
  <1> HIDE DEF front
  <1>17. Turns(X, front \o k5, p, A, {})
    BY <1>12, <1>16, TurnsJoin
  <1>18. Turns(X, Cleanup(t, o, AllList(t, o)), p, A, {})
    BY <1>9, <1>13, <1>17, TurnsJoin
  <1>19. p \in O
    <2>1. /\ front \in Seq(StepOn(X)) /\ k5 \in Seq(StepOn(X)) /\ k6 \in Seq(StepOn(X))
          /\ front \o k5 \in Seq(StepOn(X))
      BY <1>12, <1>13, <1>16, <1>17 DEF Turns
    <2>2. front \o k5 \in Seq(StepOn(O))
      BY <1>9, <1>14, <2>1, PartSteps
    <2>3. k5 \in Seq(StepOn(O))
      BY <2>1, <2>2, PartSteps
    <2>4. k5 = Delete(p) \o Gone(p) /\ Delete(p) \in Seq(StepOn({p})) /\ Gone(p) \in Seq(StepOn({p}))
      BY OneStep DEF k5, DeleteAndWait
    <2>5. Delete(p) \in Seq(StepOn(O))
      BY <2>3, <2>4, PartSteps
    <2> QED BY <2>5, OneObject DEF Delete
  <1>20. Holds(Final(o), p, {})
    BY <1>8, <1>15, <1>18, <1>19, ScriptTurns DEF t, w, O, A
  <1> QED BY <1>20 DEF Holds

\* If the storage profile has the name that the pool's is to have, Prepare makes the
\* one, and cannot make the other.
LEMMA TakenFails ==
    ASSUME NEW o, WellFormed(o), ~Clear(o), o.externalMgs => o.persistentLustre # NoName
    PROVE  Final(o).ok = FALSE
  <1> DEFINE t == TheTest
             p == Profile(o.storageProfile)
             w == Workflow(t)
             pf == FileSystem(o)
             W == Whole(t, o)
             O == Objects(t, o)
             X == W \cup Pools(o) \cup {w, PoolProfile(o), p, pf, Creator(pf),
                                       ContainerProfile(o.containerProfile)}
             s1 == ProfilePart(o)
             s2 == ContainerPart(o)
             s3 == LustrePart(o)
             s4 == PoolPart(o)
             s5 == GlobalPart(t, o)
  <1>1. /\ o.mgsPool.count # 0 /\ PoolProfile(o) = p /\ o.storageProfile # NoName
    BY DEF Clear, Profiles, Only
  <1>2. {"absent"} \in SUBSET State /\ {"present"} \in SUBSET State
    BY DEF State
  <1>3. p # pf /\ p # Creator(pf) /\ p # ContainerProfile(o.containerProfile)
    BY Kinds
  <1> DEFINE A == {"absent"}
             B == {"present"}
  <1>4. Turns(X, Create(p), p, A, B)
    BY TurnsMake DEF Create
  <1>5. Turns(X, <<>>, p, A, A) /\ Turns(X, <<>>, p, B, B)
    <2>1. <<>> \in Seq(StepOn({})) /\ {} \in SUBSET X /\ p \notin {}
      OBVIOUS
    <2> HIDE DEF X, p
    <2> QED BY <1>2, <2>1, TurnsOther
  <1>6. Turns(X, s2, p, A, A) /\ Turns(X, s2, p, B, B)
    <2> DEFINE x == ContainerProfile(o.containerProfile)
    <2>1. Turns(X, Create(x), p, A, A) /\ Turns(X, Create(x), p, B, B)
      BY <1>2, <1>3, TurnsAway
    <2> HIDE DEF X, p
    <2> QED BY <1>2, <2>1, TurnsWhen DEF ContainerPart
  <1>7. Turns(X, PersistentPrepare(o), p, A, A) /\ Turns(X, PersistentPrepare(o), p, B, B)
    <2>1. PersistentPrepare(o) = (Create(Creator(pf)) \o Provision(pf)) \o Await(pf)
      BY DEF PersistentPrepare
    <2>2. \A C \in SUBSET State : /\ Turns(X, Create(Creator(pf)), p, C, C)
                                  /\ Turns(X, Provision(pf), p, C, C) /\ Turns(X, Await(pf), p, C, C)
      BY <1>3, TurnsAway
    <2> HIDE DEF X, p, pf
    <2>3. ASSUME NEW C \in SUBSET State PROVE Turns(X, PersistentPrepare(o), p, C, C)
      <3>1. Turns(X, Create(Creator(pf)) \o Provision(pf), p, C, C)
        BY <2>2, TurnsJoin
      <3> QED BY <2>1, <2>2, <3>1, TurnsJoin
    <2> QED BY <1>2, <2>3
  <1>8. Turns(X, s4, p, B, {})
    <2>1. Pools(o) \subseteq X /\ PoolProfile(o) \in X
      OBVIOUS
    <2> HIDE DEF X
    <2> QED BY <1>1, <2>1, PoolTurns
  <1>9. \A s \in Seq(StepOn(W)) : Turns(X, s, p, {}, {})
    <2>1. StepOn(W) \subseteq StepOn(X)
      BY DEF StepOn
    <2> HIDE DEF X, W, p
    <2>2. \A s \in Seq(StepOn(W)) : s \in Seq(StepOn(X))
      BY <2>1
    <2> QED BY <2>2, TurnsNone
  <1>10. /\ s5 \in Seq(StepOn(W)) /\ Create(w) \in Seq(StepOn(W)) /\ Execute(t, o) \in Seq(StepOn(W))
         /\ Teardown(t, o) \in Seq(StepOn(W)) /\ Cleanup(t, o, AllList(t, o)) \in Seq(StepOn(W))
    <2>1. StepOn(O) \subseteq StepOn(W)
      <3>1. O \subseteq W
        BY ScriptParts
      <3> HIDE DEF O, W
      <3> QED BY <3>1 DEF StepOn
    <2>2. /\ s5 \in Seq(StepOn(O)) /\ Create(w) \in Seq(StepOn(O)) /\ Execute(t, o) \in Seq(StepOn(O))
          /\ Teardown(t, o) \in Seq(StepOn(O)) /\ Cleanup(t, o, AllList(t, o)) \in Seq(StepOn(O))
      BY PartsOfScript, ScriptParts
    <2> HIDE DEF O, W, s5, w
    <2> QED BY <2>1, <2>2
  <1>11. Prepare(t, o) = (((s1 \o s2) \o s3) \o s4) \o s5
    BY PrepareParts
  <1>12. s1 \in Seq(StepOn(O)) /\ s3 \in Seq(StepOn(O))
    BY PartsOfScript
  <1>13. ASSUME o.externalMgs
         PROVE  p \in O /\ Turns(X, (s1 \o s2) \o s3, p, A, B)
    <2>1. s1 = <<>>
      BY <1>13 DEF ProfilePart, When
    <2>2. s3 = PersistentPrepare(o) \o Create(p)
      BY <1>13 DEF LustrePart, When
    <2>3. /\ Turns(X, s1, p, A, A) /\ Turns(X, s3, p, A, B)
      <3> HIDE DEF X, p, s1, s3
      <3> QED BY <1>4, <1>5, <1>7, <2>1, <2>2, TurnsJoin
    <2>4. p \in O
      <3>1. PersistentPrepare(o) \in Seq(StepOn(X)) /\ Create(p) \in Seq(StepOn(X))
        BY <1>4, <1>7 DEF Turns
      <3> HIDE DEF X, p, s3, O
      <3>2. Create(p) \in Seq(StepOn(O))
        BY <1>12, <2>2, <3>1, PartSteps
      <3> QED BY <3>2, OneObject DEF Create
    <2> HIDE DEF X, p, s1, s2, s3
    <2>5. Turns(X, s1 \o s2, p, A, A)
      BY <1>6, <2>3, TurnsJoin
    <2>6. Turns(X, (s1 \o s2) \o s3, p, A, B)
      BY <2>3, <2>5, TurnsJoin
    <2> QED BY <2>4, <2>6
  <1>14. ASSUME ~o.externalMgs
         PROVE  p \in O /\ Turns(X, (s1 \o s2) \o s3, p, A, B)
    <2>1. s1 = Create(p)
      BY <1>1, <1>14 DEF ProfilePart, When
    <2>2. s3 = When(o.persistentLustre # NoName, PersistentPrepare(o) \o <<>>)
      BY <1>14 DEF LustrePart, When
    <2>3. Turns(X, s3, p, B, B)
      <3> HIDE DEF X, p, s3
      <3>1. Turns(X, PersistentPrepare(o) \o <<>>, p, B, B)
        BY <1>5, <1>7, TurnsJoin
      <3> QED BY <1>2, <2>2, <3>1, TurnsWhen
    <2>4. p \in O
      <3> HIDE DEF p, O, s1
      <3> QED BY <1>12, <2>1, OneObject DEF Create
    <2> HIDE DEF X, p, s1, s2, s3
    <2>5. Turns(X, s1 \o s2, p, A, B)
      BY <1>4, <1>6, <2>1, TurnsJoin
    <2>6. Turns(X, (s1 \o s2) \o s3, p, A, B)
      BY <2>3, <2>5, TurnsJoin
    <2> QED BY <2>4, <2>6
  <1>15. p \in O /\ Turns(X, (s1 \o s2) \o s3, p, A, B)
    BY <1>13, <1>14
  <1> HIDE DEF X, p, s1, s2, s3, s4, s5, t, w, O, W, B
  <1>16. Turns(X, ((s1 \o s2) \o s3) \o s4, p, A, {})
    BY <1>8, <1>15, TurnsJoin
  <1>17. Turns(X, Prepare(t, o), p, A, {})
    BY <1>9, <1>10, <1>11, <1>16, TurnsJoin
  <1>18. Holds(Final(o), p, {})
    BY <1>9, <1>10, <1>15, <1>17, ScriptTurns DEF t, w, O
  <1> QED BY <1>18 DEF Holds

\* The script of a test runs to its end and leaves nothing behind just if the
\* options are sound.
LEMMA ScriptRuns ==
    ASSUME NEW o, WellFormed(o), o.teardown
    PROVE  LET r == Final(o) IN
           SoundOptions(o) <=> r.ok /\ \A obj \in DOMAIN r.life : r.life[obj] = "absent"
  <1>1. CASE SoundOptions(o)
    BY <1>1, SoundRuns
  <1>2. CASE ~SoundOptions(o)
    <2>1. CASE o.externalMgs /\ o.persistentLustre = NoName
      <3>1. Final(o).ok = FALSE
        BY <2>1, ExternalFails
      <3> QED BY <1>2, <3>1
    <2>2. CASE ~Clear(o) /\ (o.externalMgs => o.persistentLustre # NoName)
      <3>1. Final(o).ok = FALSE
        BY <2>2, TakenFails
      <3> QED BY <1>2, <3>1
    <2>3. CASE ~Distinct(o)
      <3>1. Final(o).ok = FALSE
        BY <2>3, TwiceFails
      <3> QED BY <1>2, <3>1
    <2>4. CASE Distinct(o) /\ o.createPersistent # NoName /\ ~o.cleanupPersistent
      <3>1. Holds(Final(o), OwnFileSystem(o), {"present"})
        BY <2>4, OwnLeft
      <3> QED BY <1>2, <3>1 DEF Holds
    <2> QED BY <1>2, <2>1, <2>2, <2>3, <2>4 DEF SoundOptions
  <1> QED BY <1>1, <1>2

\* Of all chains of calls that do not panic, of any length and over any directives,
\* exactly the sound ones make a test that works.
THEOREM SoundChainsWork == Spec => []WorksIffSound
  <1>1. ASSUME IInv PROVE WorksIffSound
    <2> DEFINE o == Options
               final == Final(o)
    <2>1. WellFormed(o)
      BY <1>1, OptionsWellFormed
    <2>2. o.teardown
      BY OptionFields
    <2> HIDE DEF o
    <2>3. SoundOptions(o) <=> final.ok /\ \A obj \in DOMAIN final.life : final.life[obj] = "absent"
      BY <2>1, <2>2, ScriptRuns
    <2>4. Works <=> /\ final.ok /\ \A obj \in DOMAIN final.life : final.life[obj] = "absent"
                    /\ SoundCopies(o)
      BY DEF Works, SoundCopies, o
    <2>5. Sound <=> SoundOptions(o) /\ SoundCopies(o)
      BY <1>1, SoundMeans DEF o
    <2> HIDE DEF final
    <2>6. WellFormed(o) /\ (Works <=> Sound)
      BY <2>1, <2>3, <2>4, <2>5
    <2> QED BY <2>6 DEF WorksIffSound, o
  <1> QED BY <1>1, Invariance, PTL
=============================================================================
