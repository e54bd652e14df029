----------------------------- MODULE PoolProofs -----------------------------
(***************************************************************************)
(* What TLAPS proves about Pool, for BuildProofs and BaselineProofs: the   *)
(* steps of the pool keep the counts of the semaphore and the wait group.  *)
(***************************************************************************)
EXTENDS Pool, FiniteSetTheorems, TLAPS

\* How the size of a set of packages changes with one package.
LEMMA PkgCount ==
  ASSUME NEW A \in SUBSET Pkgs
  PROVE  /\ Cardinality(A) \in Nat
         /\ Cardinality(A) = 0 <=> A = {}
         /\ \A p \in A : Cardinality(A \ {p}) = Cardinality(A) - 1
         /\ \A p \in Pkgs \ A : Cardinality(A \cup {p}) = Cardinality(A) + 1
<1>1. IsFiniteSet(A)
  BY PoolAssumption, FS_Subset
<1> QED
  BY <1>1, FS_CardinalityType, FS_EmptySet, FS_RemoveElement, FS_AddElement

\* The counts are natural numbers, and the wait group is at 0 exactly when nobody
\* is left; then nobody holds a token.
LEMMA PoolCounts ==
  ASSUME PoolInv
  PROVE  /\ sem \in 0..Slots /\ wg \in Nat
         /\ wg = 0 <=> Members = {}
         /\ Members = {} => Quiet /\ sem = 0
<1>1. Holders \subseteq Pkgs /\ Members \subseteq Pkgs /\ Holders \subseteq Members
  BY DEF Holders, Members
<1>2. sem \in Nat /\ wg \in Nat /\ (wg = 0 <=> Members = {})
  BY <1>1, PkgCount DEF PoolInv
<1>3. Members = {} => Quiet
  BY DEF Members, Quiet
<1>4. Members = {} => sem = 0
  BY <1>1, PkgCount DEF PoolInv
<1> QED
  BY <1>2, <1>3, <1>4, PoolAssumption DEF PoolInv

\* The same of the state after a step.
LEMMA PoolCountsAfter ==
  ASSUME PoolInv'
  PROVE  sem' \in 0..Slots /\ wg' \in Nat
<1>1. Holders' \subseteq Pkgs /\ Members' \subseteq Pkgs
  BY DEF Holders, Members
<1>2. Cardinality(Holders') \in Nat /\ Cardinality(Members') \in Nat
  BY <1>1, PkgCount
<1> QED
  BY <1>2, PoolAssumption DEF PoolInv

\* A pool in which nothing has been started is in order.
LEMMA PoolStart == PoolInit => PoolInv
<1> SUFFICES ASSUME PoolInit PROVE PoolInv
  OBVIOUS
<1>1. Holders = {} /\ Members = {}
  BY DEF PoolInit, Holders, Members
<1>2. Cardinality(Holders) = 0 /\ Cardinality(Members) = 0
  BY <1>1, FS_EmptySet
<1> QED
  BY <1>1, <1>2, PoolAssumption DEF PoolInit, PoolInv

\* A job that goes on with its token is still counted.
LEMMA PoolGoesOn ==
  ASSUME PoolInv, NEW Labels, job \in [Pkgs -> Labels], left \subseteq Pkgs,
         NEW p \in Pkgs, NEW label, Goto(p, label), {job[p], label} \cap {"idle", "leave", "gone"} = {},
         UNCHANGED <<main, left, sem, wg, result>>
  PROVE  PoolInv'
<1>1. job' = [job EXCEPT ![p] = label]
  BY DEF Goto
<1>2. Holders' = Holders
  BY <1>1 DEF Holders
<1>3. Members' = Members
  BY <1>1 DEF Members
<1>4. \A q \in left' : job'[q] = "idle"
  BY <1>1 DEF PoolInv
<1> QED
  BY <1>2, <1>3, <1>4 DEF PoolInv

\* A job takes a token when it is launched and gives it back when it is over.
LEMMA PoolTakesAndGives ==
  ASSUME PoolInv, NEW Labels, job \in [Pkgs -> Labels], left \subseteq Pkgs,
         NEW p \in Pkgs, Launch(p) \/ Release(p) \/ Leave(p)
  PROVE  PoolInv'
<1>1. Holders \subseteq Pkgs /\ Members \subseteq Pkgs
  BY DEF Holders, Members
<1>2. CASE Launch(p)
  <2>1. job[p] = "idle" /\ job' = [job EXCEPT ![p] = "start"]
    BY <1>2 DEF Launch, Goto, PoolInv
  <2>2. Holders' = Holders \cup {p} /\ p \notin Holders
    BY <2>1 DEF Holders
  <2>3. Members' = Members \cup {p} /\ p \notin Members
    BY <2>1 DEF Members
  <2>4. sem' = Cardinality(Holders') /\ sem' <= Slots
    BY <1>1, <1>2, <2>2, PkgCount, PoolCounts, PoolAssumption DEF Launch, PoolInv
  <2>5. wg' = Cardinality(Members')
    BY <1>1, <1>2, <2>3, PkgCount DEF Launch, PoolInv
  <2>6. \A q \in left' : job'[q] = "idle"
    BY <1>2, <2>1 DEF Launch, PoolInv
  <2> QED
    BY <1>2, <2>4, <2>5, <2>6 DEF Launch, PoolInv
<1>3. CASE Release(p)
  <2>1. job[p] = "release" /\ job' = [job EXCEPT ![p] = "leave"]
    BY <1>3 DEF Release, Goto
  <2>2. Holders' = Holders \ {p} /\ p \in Holders
    BY <2>1 DEF Holders
  <2>3. Members' = Members /\ p \in Members
    BY <2>1 DEF Members
  <2>4. sem' = Cardinality(Holders') /\ sem' <= Slots
    BY <1>1, <1>3, <2>2, PkgCount, PoolCounts, PoolAssumption DEF Release, PoolInv
  <2>5. \A q \in left' : job'[q] = "idle"
    BY <1>3, <2>1 DEF Release, PoolInv
  <2> QED
    BY <1>3, <2>3, <2>4, <2>5 DEF Release, PoolInv
<1>4. CASE Leave(p)
  <2>1. job[p] = "leave" /\ job' = [job EXCEPT ![p] = "gone"]
    BY <1>4 DEF Leave, Goto
  <2>2. Holders' = Holders
    BY <2>1 DEF Holders
  <2>3. Members' = Members \ {p} /\ p \in Members
    BY <2>1 DEF Members
  <2>4. wg' = Cardinality(Members')
    BY <1>1, <1>4, <2>3, PkgCount DEF Leave, PoolInv
  <2>5. \A q \in left' : job'[q] = "idle"
    BY <1>4, <2>1 DEF Leave, PoolInv
  <2> QED
    BY <1>4, <2>2, <2>3, <2>4, <2>5 DEF Leave, PoolInv
<1> QED
  BY <1>2, <1>3, <1>4

\* The steps of the caller that start nothing.
LEMMA PoolCaller ==
  ASSUME PoolInv, left \subseteq Pkgs, NEW isDone,
         \/ StopLaunching(isDone) \/ Return(isDone)
         \/ /\ left' \subseteq left
            /\ UNCHANGED <<main, job, sem, wg, result>>,
         firstErr # "none", main \in {"launch", "wait", "returned"}
  PROVE  PoolInv'
<1>1. CASE Return(isDone)
  <2>1. Members' = Members /\ Holders' = Holders
    BY <1>1 DEF Return, Members, Holders
  <2>2. Members = {}
    BY <1>1, PoolCounts DEF Return
  <2>3. result' # "none"
    BY <1>1 DEF Return
  <2> QED
    BY <1>1, <2>1, <2>2, <2>3 DEF Return, PoolInv
<1>2. CASE StopLaunching(isDone)
  <2>1. Members' = Members /\ Holders' = Holders
    BY <1>2 DEF StopLaunching, Members, Holders
  <2> QED
    BY <1>2, <2>1 DEF StopLaunching, PoolInv
<1>3. CASE left' \subseteq left /\ UNCHANGED <<main, job, sem, wg, result>>
  <2>1. Members' = Members /\ Holders' = Holders
    BY <1>3 DEF Members, Holders
  <2> QED
    BY <1>3, <2>1 DEF PoolInv
<1> QED
  BY <1>1, <1>2, <1>3
=============================================================================
