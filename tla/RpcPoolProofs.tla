---------------------------- MODULE RpcPoolProofs ----------------------------
(*****************************************************************************)
(* Theorems about RpcPool, for every number of endpoints and callers.        *)
(*                                                                           *)
(* The second one counts.  A call that fails has missed the steady endpoint  *)
(* and is charged to another one: the first it found.  That endpoint then    *)
(* cools down as long as the steady one, so a caller runs out of endpoints   *)
(* to be charged to, unless another caller resets one.  Each caller resets   *)
(* an endpoint at most twice before the steady one is free again: at the     *)
(* end of a reset that had passed the steady one, and in the one that        *)
(* frees it.                                                                 *)
(*****************************************************************************)
EXTENDS RpcPool, FiniteSetTheorems, SequenceTheorems, TLAPS

\* The endpoints of the pool.
Pooled == {pooled[i] : i \in DOMAIN pooled}

\* The calls.
CallType ==
    [at : {"out", "scan", "reset", "try"}, now : Nat,
     left : Seq(Pooled), found : Seq(Pooled), failed : BOOLEAN]

\* The inductive invariant.  A reset hands out the whole pool, so the pool must
\* not be empty: Dial refuses that.  A reset under way has an endpoint left.
PoolInv ==
    /\ pooled \in Seq(Pooled) /\ pooled # <<>>
    /\ clock \in Nat
    /\ call \in [Caller -> CallType]
    /\ \A c \in Caller : call[c].at = "reset" => call[c].left # <<>>
    /\ NeverEmptyHanded

\* Sorting a set of endpoints that is not empty gives a list that is not empty.
LEMMA SortedIsPool ==
    ASSUME NEW S \in SUBSET Endpoint, Steady \in S, pooled = Sorted(S)
    PROVE  pooled \in Seq(Pooled) /\ pooled # <<>>
<1>1. IsFiniteSet(S)
  BY PoolAssumption, FS_Subset
<1>2. Cardinality(S) \in Nat /\ Cardinality(S) # 0
  BY <1>1, FS_CardinalityType, FS_EmptySet
<1> DEFINE n == Cardinality(S)
           s == [i \in 1..n |-> CHOOSE e \in S : Cardinality({x \in S : Heavier(x, e)}) = i - 1]
<1>3. pooled = s
  BY DEF Sorted
<1> HIDE DEF n
<1>4. DOMAIN pooled = 1..n /\ pooled = [i \in 1..n |-> pooled[i]]
  BY <1>3
<1>5. \A i \in 1..n : pooled[i] \in Pooled
  BY <1>4 DEF Pooled
<1>6. pooled \in [1..n -> Pooled]
  BY <1>4, <1>5
<1>7. n \in Nat /\ n # 0
  BY <1>2 DEF n
<1>8. pooled \in Seq(Pooled)
  BY <1>6, <1>7
<1>9. 1 \in DOMAIN pooled
  BY <1>4, <1>7
<1> QED
  BY <1>8, <1>9

\* Dial leaves at least one endpoint.
LEMMA InitHolds == PoolInit => PoolInv
<1> SUFFICES ASSUME PoolInit PROVE PoolInv
  OBVIOUS
<1>1. pooled \in Seq(Pooled) /\ pooled # <<>>
  BY SortedIsPool DEF PoolInit
<1>2. Out \in CallType
  BY DEF Out, CallType
<1>3. call \in [Caller -> CallType]
  BY <1>2 DEF PoolInit
<1>4. \A c \in Caller : call[c].at = "out"
  BY DEF PoolInit, Out
<1> QED
  BY <1>1, <1>3, <1>4 DEF PoolInv, PoolInit, NeverEmptyHanded

\* A step of one caller leaves the calls of the others alone, so only its own
\* call has to be looked at.
LEMMA OwnCall ==
    ASSUME PoolInv, NEW c \in Caller, NEW r \in CallType,
           UNCHANGED <<pooled, clock>>,
           call' = [call EXCEPT ![c] = r],
           r.at = "reset" => r.left # <<>>,
           r.at = "try" /\ r.found = <<>> => r.failed
    PROVE  PoolInv'
<1>1. Pooled' = Pooled /\ CallType' = CallType
  BY DEF Pooled, CallType
<1>2. call \in [Caller -> CallType]
  BY DEF PoolInv
<1> HIDE DEF Pooled, CallType
<1>3. call' \in [Caller -> CallType']
  BY <1>1, <1>2
<1>4. \A d \in Caller : call'[d] = IF d = c THEN r ELSE call[d]
  BY <1>2
<1>5. \A d \in Caller : call'[d].at = "reset" => call'[d].left # <<>>
  BY <1>4 DEF PoolInv
<1>6. \A d \in Caller : call'[d].at = "try" /\ call'[d].found = <<>> => call'[d].failed
  BY <1>4 DEF PoolInv, NeverEmptyHanded
<1> QED
  BY <1>1, <1>3, <1>5, <1>6 DEF PoolInv, NeverEmptyHanded

\* Every step keeps the invariant: a list that is handed out is what the scan
\* found or the whole pool, and shrinks only by an endpoint that failed.
LEMMA StepKeeps == PoolInv /\ [PoolNext]_poolVars => PoolInv'
<1> SUFFICES ASSUME PoolInv, [PoolNext]_poolVars PROVE PoolInv'
  OBVIOUS
<1>1. CASE UNCHANGED poolVars
  BY <1>1 DEF PoolInv, NeverEmptyHanded, CallType, Pooled, poolVars
<1>2. CASE Tick
  BY <1>2 DEF PoolInv, NeverEmptyHanded, CallType, Pooled, Tick
<1>3. ASSUME NEW c \in Caller, Step(c) PROVE PoolInv'
  <2> DEFINE q == call[c]
  <2>0. /\ q \in CallType
        /\ q.at = "reset" => q.left # <<>>
        /\ q.at = "try" /\ q.found = <<>> => q.failed
    BY DEF PoolInv, NeverEmptyHanded
  <2>1. CASE Begin(c)
    <3> DEFINE r == [Out EXCEPT !.at = "scan", !.now = clock, !.left = pooled]
    <3>0. pooled \in Seq(Pooled) /\ <<>> \in Seq(Pooled) /\ clock \in Nat
      BY DEF PoolInv
    <3>1. Out \in CallType
      BY <3>0 DEF Out, CallType
    <3>2. call' = [call EXCEPT ![c] = r] /\ UNCHANGED <<pooled, clock>>
      BY <2>1, Zenon DEF Begin
    <3>3. r \in CallType /\ r.at = "scan"
      BY <3>0, <3>1 DEF CallType
    <3> QED
      BY <3>2, <3>3, OwnCall
  <2>2. CASE Answered(c) \/ Cancelled(c) \/ AllFailed(c)
    <3>1. Out \in CallType
      BY DEF Out, CallType
    <3>2. call' = [call EXCEPT ![c] = Out] /\ UNCHANGED <<pooled, clock>>
      BY <2>2 DEF Answered, Cancelled, AllFailed
    <3>3. Out.at = "out"
      BY DEF Out
    <3> QED
      BY <3>1, <3>2, <3>3, OwnCall
  <2>3. CASE Scan(c)
    <3> DEFINE e == Head(q.left)
               f == IF q.now >= failedUntil[e] THEN Append(q.found, e) ELSE q.found
               r == [q EXCEPT !.left = Tail(@), !.found = f]
    <3>1. q.at = "scan" /\ q.left # <<>>
      BY <2>3 DEF Scan
    <3>2. f \in Seq(Pooled) /\ Tail(q.left) \in Seq(Pooled)
      BY <2>0, <3>1 DEF CallType
    <3>3. call' = [call EXCEPT ![c] = r] /\ UNCHANGED <<pooled, clock>>
      BY <2>3, Zenon DEF Scan
    <3> HIDE DEF f
    <3>4. r \in CallType /\ r.at = "scan"
      BY <2>0, <3>1, <3>2 DEF CallType
    <3> QED
      BY <3>3, <3>4, OwnCall
  <2>4. CASE Scanned(c)
    <3>1. CASE q.found = <<>>
      <4> DEFINE r == [q EXCEPT !.at = "reset", !.left = pooled]
      <4>1. call' = [call EXCEPT ![c] = r] /\ UNCHANGED <<pooled, clock>>
        BY <2>4, <3>1, Zenon DEF Scanned
      <4>2. r \in CallType /\ r.at = "reset" /\ r.left = pooled
        BY <2>0 DEF CallType, PoolInv
      <4> QED
        BY <4>1, <4>2, OwnCall DEF PoolInv
    <3>2. CASE q.found # <<>>
      <4> DEFINE r == [q EXCEPT !.at = "try"]
      <4>1. call' = [call EXCEPT ![c] = r] /\ UNCHANGED <<pooled, clock>>
        BY <2>4, <3>2, Zenon DEF Scanned
      <4>2. r \in CallType /\ r.at = "try" /\ r.found = q.found
        BY <2>0 DEF CallType
      <4> QED
        BY <3>2, <4>1, <4>2, OwnCall
    <3> QED
      BY <3>1, <3>2
  <2>5. CASE Reset(c)
    <3>0. q.at = "reset" /\ q.left # <<>>
      BY <2>0, <2>5 DEF Reset
    <3>1. CASE Len(q.left) = 1
      <4> DEFINE r == [q EXCEPT !.at = "try", !.left = <<>>, !.found = pooled]
      <4>1. call' = [call EXCEPT ![c] = r] /\ UNCHANGED <<pooled, clock>>
        BY <2>5, <3>1, Zenon DEF Reset
      <4>2. pooled \in Seq(Pooled) /\ <<>> \in Seq(Pooled) /\ pooled # <<>>
        BY DEF PoolInv
      <4>3. r \in CallType /\ r.at = "try" /\ r.found = pooled
        BY <2>0, <4>2 DEF CallType
      <4> QED
        BY <4>1, <4>2, <4>3, OwnCall
    <3>2. CASE Len(q.left) # 1
      <4> DEFINE t == Tail(q.left)
                 r == [q EXCEPT !.left = t]
      <4>1. call' = [call EXCEPT ![c] = r] /\ UNCHANGED <<pooled, clock>>
        BY <2>5, <3>2, Zenon DEF Reset
      <4>2. q.left \in Seq(Pooled)
        BY <2>0 DEF CallType
      <4>3. Len(q.left) \in Nat /\ Len(q.left) # 0
        BY <3>0, <4>2, EmptySeq
      <4>4. t \in Seq(Pooled) /\ t # <<>>
        <5>1. t \in Seq(Pooled) /\ Len(t) = Len(q.left) - 1
          BY <3>0, <4>2, HeadTailProperties
        <5> HIDE DEF t
        <5>2. Len(t) # 0
          BY <3>2, <4>3, <5>1
        <5>3. t # <<>>
          BY <5>1, <5>2, EmptySeq
        <5> QED
          BY <5>1, <5>3
      <4> HIDE DEF t
      <4>5. r \in CallType /\ r.at = "reset" /\ r.left = t
        BY <2>0, <3>0, <4>4 DEF CallType
      <4> QED
        BY <4>1, <4>4, <4>5, OwnCall
    <3> QED
      BY <3>1, <3>2
  <2>6. CASE EndpointFails(c)
    <3> DEFINE t == Tail(q.found)
               r == [q EXCEPT !.found = t, !.failed = TRUE]
    <3>1. call' = [call EXCEPT ![c] = r] /\ UNCHANGED <<pooled, clock>>
      BY <2>6, Zenon DEF EndpointFails
    <3>2. q.at = "try" /\ q.found # <<>>
      BY <2>6 DEF EndpointFails, Tries
    <3>3. t \in Seq(Pooled)
      BY <2>0, <3>2 DEF CallType
    <3> HIDE DEF t
    <3>4. r \in CallType /\ r.failed
      BY <2>0, <3>3 DEF CallType
    <3>5. r.at = "try"
      BY <2>0, <3>2 DEF CallType
    <3> QED
      BY <3>1, <3>4, <3>5, OwnCall
  <2> QED
    BY <1>3, <2>1, <2>2, <2>3, <2>4, <2>5, <2>6 DEF Step
<1> QED
  BY <1>1, <1>2, <1>3 DEF PoolNext

\* A call that returns an error has tried an endpoint, for every pool that Dial
\* accepts and every interleaving of its callers.
THEOREM TriesBeforeItFails == PoolSpec => []NeverEmptyHanded
<1>1. PoolInv => NeverEmptyHanded
  BY DEF PoolInv
<1> QED
  BY InitHolds, StepKeeps, <1>1, PTL DEF PoolSpec

------------------------------------------------------------------------------
(* Lists of endpoints.                                                     *)

\* The endpoints of a list.
Listed(s) == {s[i] : i \in DOMAIN s}

\* No endpoint is twice in a list.
NoDuplicates(s) == \A i, j \in DOMAIN s : s[i] = s[j] => i = j

\* Appending adds an endpoint.
LEMMA ListedFacts ==
    ASSUME NEW S, NEW s \in Seq(S)
    PROVE  /\ Listed(<<>>) = {} /\ NoDuplicates(<<>>)
           /\ Listed(s) \subseteq S
           /\ \A x \in S : Listed(Append(s, x)) = Listed(s) \cup {x}
  <1>1. Listed(<<>>) = {} /\ NoDuplicates(<<>>)
    BY DEF Listed, NoDuplicates
  <1>2. Listed(s) \subseteq S
    BY DEF Listed
  <1>3. ASSUME NEW x \in S PROVE Listed(Append(s, x)) = Listed(s) \cup {x}
    <2> DEFINE t == Append(s, x)
    <2>1. /\ DOMAIN s = 1..Len(s) /\ DOMAIN t = 1..(Len(s) + 1) /\ Len(s) \in Nat
          /\ \A i \in 1..Len(s) : t[i] = s[i]
          /\ t[Len(s) + 1] = x
      BY AppendProperties
    <2>. HIDE DEF t
    <2>2. ASSUME NEW y \in Listed(t) PROVE y \in Listed(s) \cup {x}
      <3>1. PICK i \in 1..(Len(s) + 1) : y = t[i]
        BY <2>1, <2>2 DEF Listed
      <3>2. i \in 1..Len(s) \/ i = Len(s) + 1
        BY <2>1, <3>1
      <3>. QED BY <2>1, <3>1, <3>2 DEF Listed
    <2>3. ASSUME NEW y \in Listed(s) PROVE y \in Listed(t)
      <3>1. PICK i \in 1..Len(s) : y = s[i]
        BY <2>1, <2>3 DEF Listed
      <3>2. i \in 1..(Len(s) + 1) /\ t[i] = y
        BY <2>1, <3>1
      <3>. QED BY <2>1, <3>2 DEF Listed
    <2>4. x \in Listed(t)
      <3>1. Len(s) + 1 \in 1..(Len(s) + 1)
        BY <2>1
      <3>. QED BY <2>1, <3>1 DEF Listed
    <2>. QED BY <2>2, <2>3, <2>4 DEF t
  <1>. QED BY <1>1, <1>2, <1>3

\* The head of a list and the rest of it.
LEMMA TailListed ==
    ASSUME NEW S, NEW s \in Seq(S), s # <<>>
    PROVE  /\ Head(s) \in S /\ Head(s) \in Listed(s) /\ Tail(s) \in Seq(S)
           /\ Listed(s) = {Head(s)} \cup Listed(Tail(s))
           /\ NoDuplicates(s) => NoDuplicates(Tail(s)) /\ Head(s) \notin Listed(Tail(s))
  <1> DEFINE t == Tail(s)
             n == Len(s)
  <1>1. /\ Head(s) = s[1] /\ t \in Seq(S) /\ n \in Nat /\ n # 0 /\ DOMAIN s = 1..n
        /\ DOMAIN t = 1..(n - 1)
        /\ \A i \in 1..(n - 1) : t[i] = s[i + 1]
    <2>1. n \in Nat /\ n # 0 /\ DOMAIN s = 1..n
      BY EmptySeq
    <2>2. Head(s) = s[1] /\ t \in Seq(S) /\ Len(t) = n - 1
      BY HeadTailProperties
    <2>3. DOMAIN t = 1..(n - 1) /\ \A i \in 1..(n - 1) : t[i] = s[i + 1]
      BY <2>1, <2>2, HeadTailProperties
    <2>. QED BY <2>1, <2>2, <2>3
  <1>. HIDE DEF t, n
  <1>2. 1 \in DOMAIN s /\ \A i \in 1..(n - 1) : i + 1 \in DOMAIN s /\ i + 1 # 1
    BY <1>1
  <1>3. Head(s) \in S /\ Head(s) \in Listed(s)
    BY <1>1, <1>2 DEF Listed
  <1>4. Listed(t) \subseteq Listed(s)
    BY <1>1, <1>2 DEF Listed
  <1>5. ASSUME NEW y \in Listed(s), y # Head(s) PROVE y \in Listed(t)
    <2>1. PICK i \in 1..n : y = s[i]
      BY <1>1 DEF Listed
    <2>2. i - 1 \in 1..(n - 1) /\ (i - 1) + 1 = i
      BY <1>1, <1>5, <2>1
    <2>3. t[i - 1] = y
      BY <1>1, <2>1, <2>2
    <2>. QED BY <1>1, <2>2, <2>3 DEF Listed
  <1>6. ASSUME NoDuplicates(s) PROVE NoDuplicates(t) /\ Head(s) \notin Listed(t)
    <2>1. NoDuplicates(t)
      <3> SUFFICES ASSUME NEW i \in 1..(n - 1), NEW j \in 1..(n - 1), t[i] = t[j] PROVE i = j
        BY <1>1 DEF NoDuplicates
      <3>1. s[i + 1] = s[j + 1] /\ i + 1 \in DOMAIN s /\ j + 1 \in DOMAIN s
        BY <1>1, <1>2
      <3>2. i + 1 = j + 1
        BY <1>6, <3>1 DEF NoDuplicates
      <3>. QED BY <1>1, <3>2
    <2>2. Head(s) \notin Listed(t)
      BY <1>1, <1>2, <1>6 DEF NoDuplicates, Listed
    <2>. QED BY <2>1, <2>2
  <1>. QED BY <1>1, <1>3, <1>4, <1>5, <1>6 DEF t

\* Appending keeps the head.
LEMMA AppendKeepsHead ==
    ASSUME NEW S, NEW s \in Seq(S), NEW x \in S
    PROVE  /\ Append(s, x) # <<>>
           /\ s # <<>> => Head(Append(s, x)) = Head(s)
           /\ s = <<>> => Head(Append(s, x)) = x
  <1> DEFINE t == Append(s, x)
  <1>1. /\ t \in Seq(S) /\ Len(t) = Len(s) + 1 /\ Len(s) \in Nat
        /\ \A i \in 1..Len(s) : t[i] = s[i]
        /\ t[Len(s) + 1] = x
    BY AppendProperties
  <1>. HIDE DEF t
  <1>2. t # <<>>
    BY <1>1, EmptySeq
  <1>3. Head(t) = t[1]
    BY <1>1, <1>2, HeadTailProperties
  <1>4. ASSUME s # <<>> PROVE Head(t) = Head(s)
    <2>1. Head(s) = s[1] /\ Len(s) # 0
      BY <1>4, EmptySeq, HeadTailProperties
    <2>2. 1 \in 1..Len(s)
      BY <1>1, <2>1
    <2>. QED BY <1>1, <1>3, <2>1, <2>2
  <1>5. ASSUME s = <<>> PROVE Head(t) = x
    <2>1. Len(s) = 0
      BY <1>5
    <2>. QED BY <1>1, <1>3, <2>1
  <1>. QED BY <1>2, <1>4, <1>5 DEF t

------------------------------------------------------------------------------
(* Sorting.                                                                *)

\* The sorted list has every endpoint of the set once: no two have one rank.
LEMMA SortedIsOnto ==
    ASSUME NEW S \in SUBSET Endpoint, Steady \in S, pooled = Sorted(S)
    PROVE  Listed(pooled) = S /\ NoDuplicates(pooled)
  <1> DEFINE n == Cardinality(S)
             Rank(e) == Cardinality({x \in S : Heavier(x, e)})
             rank == [e \in S |-> Rank(e) + 1]
  <1>1. IsFiniteSet(S) /\ n \in Nat
    BY PoolAssumption, FS_Subset, FS_CardinalityType
  <1>2. \A e \in S : Weight[e] \in Int /\ e \in Nat
    BY PoolAssumption
  <1>3. ASSUME NEW e \in S PROVE Rank(e) \in Nat /\ Rank(e) < n
    <2>1. {x \in S : Heavier(x, e)} \subseteq S \ {e}
      BY <1>2 DEF Heavier
    <2>2. IsFiniteSet(S \ {e}) /\ Cardinality(S \ {e}) = n - 1
      BY <1>1, FS_RemoveElement
    <2>3. IsFiniteSet({x \in S : Heavier(x, e)}) /\ Rank(e) <= n - 1
      BY <2>1, <2>2, FS_Subset
    <2>4. Rank(e) \in Nat
      BY <2>3, FS_CardinalityType
    <2>. QED BY <1>1, <2>3, <2>4
  <1>4. ASSUME NEW e \in S, NEW f \in S, Heavier(e, f) PROVE Rank(e) < Rank(f)
    <2> DEFINE E == {x \in S : Heavier(x, e)}
               G == {x \in S : Heavier(x, f)}
    <2>1. E \subseteq G /\ e \in G /\ e \notin E
      BY <1>2, <1>4 DEF Heavier
    <2>2. IsFiniteSet(G) /\ IsFiniteSet(E)
      BY <1>1, FS_Subset
    <2>3. Cardinality(E) <= Cardinality(G) /\ (Cardinality(G) = Cardinality(E) => G = E)
      BY <2>1, <2>2, FS_Subset
    <2>4. Cardinality(E) \in Nat /\ Cardinality(G) \in Nat /\ G # E
      BY <2>1, <2>2, FS_CardinalityType
    <2>5. Cardinality(E) < Cardinality(G)
      BY <2>3, <2>4
    <2>. QED BY <2>5
  <1>. HIDE DEF Rank, n
  <1>5. \A e, f \in S : e # f => Rank(e) # Rank(f)
    <2> SUFFICES ASSUME NEW e \in S, NEW f \in S, e # f PROVE Rank(e) # Rank(f)
      OBVIOUS
    <2>1. Heavier(e, f) \/ Heavier(f, e)
      BY <1>2 DEF Heavier
    <2>. QED BY <1>3, <1>4, <2>1
  <1>6. rank \in [S -> 1..n]
    BY <1>1, <1>3
  <1>7. rank \in Injection(S, 1..n)
    <2>1. \A e, f \in S : rank[e] = rank[f] => e = f
      BY <1>3, <1>5
    <2>. QED BY <1>6, <2>1 DEF Injection, IsInjective
  <1>8. rank \in Surjection(S, 1..n)
    <2>1. IsFiniteSet(1..n) /\ Cardinality(1..n) = n
      BY <1>1, FS_Interval
    <2>. QED BY <1>7, <2>1, FS_Injection DEF n
  <1>9. \A i \in 1..n : \E e \in S : Rank(e) = i - 1
    <2> SUFFICES ASSUME NEW i \in 1..n PROVE \E e \in S : Rank(e) = i - 1
      OBVIOUS
    <2>1. PICK e \in S : rank[e] = i
      BY <1>8 DEF Surjection
    <2>. QED BY <1>3, <2>1
  <1>10. pooled = [i \in 1..n |-> CHOOSE e \in S : Rank(e) = i - 1]
    BY DEF Sorted, n, Rank
  <1>11. DOMAIN pooled = 1..n /\ \A i \in 1..n : pooled[i] \in S /\ Rank(pooled[i]) = i - 1
    BY <1>9, <1>10
  <1>12. NoDuplicates(pooled)
    BY <1>1, <1>11 DEF NoDuplicates
  <1>13. ASSUME NEW e \in S PROVE e \in Listed(pooled)
    <2>1. Rank(e) + 1 \in 1..n /\ (Rank(e) + 1) - 1 = Rank(e)
      BY <1>1, <1>3
    <2>2. pooled[Rank(e) + 1] = e
      BY <1>5, <1>11, <2>1
    <2>. QED BY <1>11, <2>1, <2>2 DEF Listed
  <1>. QED BY <1>11, <1>12, <1>13 DEF Listed

------------------------------------------------------------------------------
(* What a step does to the call of its caller.                             *)

\* A call, field by field.
Becomes(q, at, now, left, found, failed) ==
    q.at = at /\ q.now = now /\ q.left = left /\ q.found = found /\ q.failed = failed

\* Only the call of d changes, and no cooldown.
OnlyCall(d) ==
    /\ \A x \in Caller \ {d} : call'[x] = call[x]
    /\ UNCHANGED <<pooled, clock>>

\* call begins.
CallBegins(d) ==
    /\ OnlyCall(d) /\ UNCHANGED <<failedUntil, streak>>
    /\ call[d].at = "out"
    /\ Becomes(call'[d], "scan", clock, pooled, <<>>, FALSE)

\* One endpoint is looked at.
CallScans(d) ==
    LET q == call[d]
        e == Head(q.left)
    IN  /\ OnlyCall(d) /\ UNCHANGED <<failedUntil, streak>>
        /\ q.at = "scan" /\ q.left # <<>>
        /\ Becomes(call'[d], "scan", q.now, Tail(q.left),
                   IF q.now >= failedUntil[e] THEN Append(q.found, e) ELSE q.found, q.failed)

\* All were looked at.
CallScanned(d) ==
    LET q == call[d]
    IN  /\ OnlyCall(d) /\ UNCHANGED <<failedUntil, streak>>
        /\ q.at = "scan" /\ q.left = <<>>
        /\ IF q.found = <<>> THEN Becomes(call'[d], "reset", q.now, pooled, <<>>, q.failed)
                             ELSE Becomes(call'[d], "try", q.now, <<>>, q.found, q.failed)

\* One endpoint is reset.
CallResets(d) ==
    LET q == call[d]
        e == Head(q.left)
    IN  /\ OnlyCall(d) /\ UNCHANGED streak
        /\ q.at = "reset" /\ q.left # <<>>
        /\ failedUntil' = [failedUntil EXCEPT ![e] = 0]
        /\ \/ Becomes(call'[d], "try", q.now, <<>>, pooled, q.failed) /\ Tail(q.left) = <<>>
           \/ Becomes(call'[d], "reset", q.now, Tail(q.left), q.found, q.failed) /\ Tail(q.left) # <<>>

\* The call returns.
CallEnds(d) ==
    /\ OnlyCall(d) /\ UNCHANGED failedUntil
    /\ call[d].at = "try"
    /\ \A x \in Caller \ {d} : streak'[x] = streak[x]
    /\ streak'[d] \in {0, streak[d]} \/ (call[d].found = <<>> /\ streak'[d] = streak[d] + 1)
    /\ Becomes(call'[d], "out", 0, <<>>, <<>>, FALSE)

\* One endpoint fails.
CallFails(d) ==
    LET q == call[d]
        e == Head(q.found)
    IN  /\ OnlyCall(d)
        /\ q.at = "try" /\ q.found # <<>>
        /\ failedUntil' = [failedUntil EXCEPT ![e] = clock + Cooldown]
        /\ IF e = Steady THEN streak' = [x \in Caller |-> 0] ELSE streak' = streak
        /\ Becomes(call'[d], "try", q.now, q.left, Tail(q.found), TRUE)

\* A step is one of these.
LEMMA StepEffects ==
    ASSUME PoolInv, streak \in [Caller -> Nat], NEW d \in Caller, Step(d)
    PROVE  \/ CallBegins(d) \/ CallScans(d) \/ CallScanned(d) \/ CallResets(d)
           \/ CallEnds(d) \/ CallFails(d)
  <1> DEFINE q == call[d]
  <1>0. /\ call \in [Caller -> CallType] /\ q \in CallType /\ MaxStreak \in Nat
        /\ q.at = "reset" => q.left # <<>>
    BY PoolAssumption DEF PoolInv
  <1>1. ASSUME NEW r, call' = [call EXCEPT ![d] = r]
        PROVE  call'[d] = r /\ \A x \in Caller \ {d} : call'[x] = call[x]
    BY <1>0, <1>1
  <1>2. CASE Begin(d)
    <2> DEFINE r == [Out EXCEPT !.at = "scan", !.now = clock, !.left = pooled]
    <2>1. /\ q.at = "out" /\ call' = [call EXCEPT ![d] = r]
          /\ UNCHANGED <<pooled, clock, failedUntil, streak>>
      BY <1>2, Zenon DEF Begin
    <2>2. Becomes(r, "scan", clock, pooled, <<>>, FALSE)
      BY DEF Becomes, Out
    <2>. HIDE DEF r
    <2>. QED BY <1>1, <2>1, <2>2 DEF CallBegins, OnlyCall
  <1>3. CASE Scan(d)
    <2> DEFINE e == Head(q.left)
               f == IF q.now >= failedUntil[e] THEN Append(q.found, e) ELSE q.found
               r == [q EXCEPT !.left = Tail(@), !.found = f]
    <2>1. /\ q.at = "scan" /\ q.left # <<>> /\ call' = [call EXCEPT ![d] = r]
          /\ UNCHANGED <<pooled, clock, failedUntil, streak>>
      BY <1>3, Zenon DEF Scan
    <2>. HIDE DEF f
    <2>2. Becomes(r, "scan", q.now, Tail(q.left), f, q.failed)
      BY <1>0, <2>1 DEF Becomes, CallType
    <2>. HIDE DEF r
    <2>. QED BY <1>1, <2>1, <2>2 DEF CallScans, OnlyCall, f
  <1>4. CASE Scanned(d)
    <2>1. /\ q.at = "scan" /\ q.left = <<>>
          /\ UNCHANGED <<pooled, clock, failedUntil, streak>>
      BY <1>4 DEF Scanned
    <2>2. CASE q.found = <<>>
      <3> DEFINE r == [q EXCEPT !.at = "reset", !.left = pooled]
      <3>1. call' = [call EXCEPT ![d] = r]
        BY <1>4, <2>2, Zenon DEF Scanned
      <3>2. Becomes(r, "reset", q.now, pooled, <<>>, q.failed)
        BY <1>0, <2>2 DEF Becomes, CallType
      <3>. HIDE DEF r
      <3>. QED BY <1>1, <2>1, <2>2, <3>1, <3>2 DEF CallScanned, OnlyCall
    <2>3. CASE q.found # <<>>
      <3> DEFINE r == [q EXCEPT !.at = "try"]
      <3>1. call' = [call EXCEPT ![d] = r]
        BY <1>4, <2>3, Zenon DEF Scanned
      <3>2. Becomes(r, "try", q.now, <<>>, q.found, q.failed)
        BY <1>0, <2>1 DEF Becomes, CallType
      <3>. HIDE DEF r
      <3>. QED BY <1>1, <2>1, <2>3, <3>1, <3>2 DEF CallScanned, OnlyCall
    <2>. QED BY <2>2, <2>3
  <1>5. CASE Reset(d)
    <2>1. /\ q.at = "reset" /\ q.left # <<>>
          /\ failedUntil' = [failedUntil EXCEPT ![Head(q.left)] = 0]
          /\ UNCHANGED <<pooled, clock, streak>>
      BY <1>0, <1>5 DEF Reset
    <2>2. Len(q.left) = 1 <=> Tail(q.left) = <<>>
      <3>1. q.left \in Seq(Pooled)
        BY <1>0 DEF CallType
      <3>2. Tail(q.left) \in Seq(Pooled) /\ Len(Tail(q.left)) = Len(q.left) - 1 /\ Len(q.left) \in Nat
        BY <2>1, <3>1, HeadTailProperties
      <3>3. Tail(q.left) = <<>> <=> Len(Tail(q.left)) = 0
        BY <3>2, EmptySeq
      <3>4. Len(q.left) = 1 <=> Len(Tail(q.left)) = 0
        BY <3>2
      <3>. QED BY <3>3, <3>4
    <2>3. CASE Len(q.left) = 1
      <3> DEFINE r == [q EXCEPT !.at = "try", !.left = <<>>, !.found = pooled]
      <3>1. call' = [call EXCEPT ![d] = r]
        BY <1>5, <2>3, Zenon DEF Reset
      <3>2. Becomes(r, "try", q.now, <<>>, pooled, q.failed)
        BY <1>0 DEF Becomes, CallType
      <3>. HIDE DEF r
      <3>. QED BY <1>1, <2>1, <2>2, <2>3, <3>1, <3>2 DEF CallResets, OnlyCall
    <2>4. CASE Len(q.left) # 1
      <3> DEFINE r == [q EXCEPT !.left = Tail(q.left)]
      <3>1. call' = [call EXCEPT ![d] = r]
        BY <1>5, <2>4, Zenon DEF Reset
      <3>2. Becomes(r, "reset", q.now, Tail(q.left), q.found, q.failed)
        BY <1>0, <2>1 DEF Becomes, CallType
      <3>. HIDE DEF r
      <3>. QED BY <1>1, <2>1, <2>2, <2>4, <3>1, <3>2 DEF CallResets, OnlyCall
    <2>. QED BY <2>3, <2>4
  <1>6. CASE Answered(d) \/ Cancelled(d) \/ AllFailed(d)
    <2>1. /\ q.at = "try" /\ call' = [call EXCEPT ![d] = Out]
          /\ UNCHANGED <<pooled, clock, failedUntil>>
      BY <1>6 DEF Answered, Cancelled, AllFailed, Tries
    <2>2. \/ streak' = [streak EXCEPT ![d] = 0]
          \/ streak' = streak
          \/ /\ q.found = <<>>
             /\ streak' = [streak EXCEPT ![d] = IF streak[d] = MaxStreak THEN streak[d] ELSE streak[d] + 1]
      BY <1>6 DEF Answered, Cancelled, AllFailed
    <2>3. /\ \A x \in Caller \ {d} : streak'[x] = streak[x]
          /\ streak'[d] \in {0, streak[d]} \/ (q.found = <<>> /\ streak'[d] = streak[d] + 1)
      BY <2>2
    <2>4. Becomes(Out, "out", 0, <<>>, <<>>, FALSE)
      BY DEF Becomes, Out
    <2>. QED BY <1>1, <2>1, <2>3, <2>4 DEF CallEnds, OnlyCall
  <1>7. CASE EndpointFails(d)
    <2> DEFINE t == Tail(q.found)
               r == [q EXCEPT !.found = t, !.failed = TRUE]
    <2>1. /\ q.at = "try" /\ q.found # <<>>
          /\ failedUntil' = [failedUntil EXCEPT ![Head(q.found)] = clock + Cooldown]
          /\ IF Head(q.found) = Steady THEN streak' = [x \in Caller |-> 0] ELSE streak' = streak
          /\ UNCHANGED <<pooled, clock>>
      BY <1>7 DEF EndpointFails, Tries, MarkFailed
    <2>2. call' = [call EXCEPT ![d] = r]
      BY <1>7, Zenon DEF EndpointFails
    <2>. HIDE DEF t
    <2>3. Becomes(r, "try", q.now, q.left, t, TRUE)
      BY <1>0, <2>1 DEF Becomes, CallType
    <2>. HIDE DEF r
    <2>. QED BY <1>1, <2>1, <2>2, <2>3 DEF CallFails, OnlyCall, t
  <1>. QED BY <1>2, <1>3, <1>4, <1>5, <1>6, <1>7 DEF Step

------------------------------------------------------------------------------
(* The lists and the cooldowns.                                            *)

\* The end of the cooldown of the steady endpoint; zero when it was reset.
Until == failedUntil[Steady]

\* No list has an endpoint twice, and no cooldown is longer than Cooldown.
ListInv ==
    /\ Pooled \subseteq Endpoint /\ Steady \in Pooled /\ NoDuplicates(pooled)
    /\ failedUntil \in [Endpoint -> Nat]
    /\ Until <= clock + Cooldown
    /\ streak \in [Caller -> Nat]
    /\ \A c \in Caller :
        /\ NoDuplicates(call[c].left)
        /\ call[c].now <= clock
        /\ call[c].at = "try" => call[c].left = <<>>

\* One call and its lists.
LEMMA CallFacts ==
    ASSUME PoolInv, ListInv, NEW c \in Caller
    PROVE  /\ call[c] \in CallType /\ call[c].now \in Nat /\ call[c].now <= clock
           /\ call[c].left \in Seq(Pooled) /\ call[c].found \in Seq(Pooled)
           /\ call[c].failed \in BOOLEAN
           /\ pooled \in Seq(Pooled) /\ Listed(pooled) = Pooled
           /\ Pooled \subseteq Endpoint /\ Steady \in Pooled
           /\ clock \in Nat /\ Cooldown \in Nat /\ Cooldown > 0
           /\ failedUntil \in [Endpoint -> Nat] /\ Until \in Nat /\ Until <= clock + Cooldown
           /\ Steady \in Endpoint
           /\ streak[c] \in Nat
           /\ Listed(<<>>) = {} /\ NoDuplicates(<<>>)
  <1>1. call[c] \in CallType /\ clock \in Nat /\ pooled \in Seq(Pooled)
    BY DEF PoolInv
  <1>2. /\ call[c].now \in Nat /\ call[c].left \in Seq(Pooled) /\ call[c].found \in Seq(Pooled)
        /\ call[c].failed \in BOOLEAN
    BY <1>1 DEF CallType
  <1>3. Listed(pooled) = Pooled
    BY DEF Listed, Pooled
  <1>4. Listed(<<>>) = {} /\ NoDuplicates(<<>>)
    BY <1>1, ListedFacts
  <1>. QED BY <1>1, <1>2, <1>3, <1>4, PoolAssumption DEF ListInv, Until

\* The lists of Dial.
LEMMA ListInvStart == PoolInit => ListInv
  <1> SUFFICES ASSUME PoolInit PROVE ListInv
    OBVIOUS
  <1>1. PICK S \in SUBSET Endpoint : Steady \in S /\ pooled = Sorted(S)
    BY DEF PoolInit
  <1>2. Listed(pooled) = S /\ NoDuplicates(pooled)
    BY <1>1, SortedIsOnto
  <1>3. Pooled \subseteq Endpoint /\ Steady \in Pooled
    BY <1>1, <1>2 DEF Listed, Pooled
  <1>4. \A c \in Caller : call[c].left = <<>> /\ call[c].now = 0
    BY DEF PoolInit, Out
  <1>5. NoDuplicates(<<>>)
    BY DEF NoDuplicates
  <1>. QED BY <1>2, <1>3, <1>4, <1>5, PoolAssumption DEF ListInv, PoolInit, Until

\* Every step keeps that.
LEMMA ListInvStep == PoolInv /\ ListInv /\ [PoolNext]_poolVars => ListInv'
  <1> SUFFICES ASSUME PoolInv, ListInv, [PoolNext]_poolVars PROVE ListInv'
    OBVIOUS
  <1>1. CASE UNCHANGED poolVars
    BY <1>1 DEF ListInv, Until, Pooled, NoDuplicates, poolVars
  <1>2. CASE Tick
    <2>1. UNCHANGED <<pooled, failedUntil, call, blips, streak>> /\ clock' = clock + 1
      BY <1>2 DEF Tick
    <2>2. clock \in Nat /\ Cooldown \in Nat /\ Until \in Nat
      BY PoolAssumption DEF PoolInv, ListInv, Until
    <2>3. Until' <= clock' + Cooldown
      BY <2>1, <2>2 DEF ListInv, Until
    <2>4. \A c \in Caller : call'[c].now <= clock'
      <3> SUFFICES ASSUME NEW c \in Caller PROVE call[c].now <= clock + 1
        BY <2>1
      <3>. QED BY <2>2, CallFacts
    <2>. QED BY <2>1, <2>3, <2>4 DEF ListInv, Until, Pooled, NoDuplicates
  <1>3. ASSUME NEW d \in Caller, Step(d) PROVE ListInv'
    <2> DEFINE q == call[d]
               r == call'[d]
    <2>1. \/ CallBegins(d) \/ CallScans(d) \/ CallScanned(d) \/ CallResets(d)
          \/ CallEnds(d) \/ CallFails(d)
      BY <1>3, StepEffects DEF ListInv
    <2>2. /\ UNCHANGED <<pooled, clock>> /\ \A x \in Caller \ {d} : call'[x] = call[x]
      BY <2>1 DEF CallBegins, CallScans, CallScanned, CallResets, CallEnds, CallFails, OnlyCall
    <2>3. /\ Pooled' \subseteq Endpoint /\ Steady \in Pooled' /\ NoDuplicates(pooled)'
      BY <2>2 DEF ListInv, Pooled, NoDuplicates
    <2>4. /\ q.left \in Seq(Pooled) /\ q.found \in Seq(Pooled) /\ Pooled \subseteq Endpoint
          /\ clock \in Nat /\ Cooldown \in Nat /\ failedUntil \in [Endpoint -> Nat]
          /\ NoDuplicates(q.left) /\ q.now <= clock /\ q.now \in Nat /\ Until \in Nat
          /\ Until <= clock + Cooldown /\ Steady \in Endpoint /\ NoDuplicates(pooled)
          /\ NoDuplicates(<<>>) /\ (q.at = "try" => q.left = <<>>)
      BY CallFacts DEF ListInv
    <2>5. q.left # <<>> => NoDuplicates(Tail(q.left)) /\ Head(q.left) \in Endpoint
      BY <2>4, TailListed
    <2>6. q.found # <<>> => Head(q.found) \in Endpoint
      BY <2>4, TailListed
    <2>7. failedUntil' \in [Endpoint -> Nat] /\ Until' <= clock + Cooldown
      <3>1. CASE failedUntil' = failedUntil
        BY <2>4, <3>1 DEF Until
      <3>2. ASSUME NEW e \in Endpoint, NEW n \in Nat, n <= clock + Cooldown,
                   failedUntil' = [failedUntil EXCEPT ![e] = n]
            PROVE  failedUntil' \in [Endpoint -> Nat] /\ Until' <= clock + Cooldown
        BY <2>4, <3>2 DEF Until
      <3>3. CASE CallResets(d)
        <4>1. 0 \in Nat /\ 0 <= clock + Cooldown
          BY <2>4
        <4>. QED BY <2>5, <3>2, <3>3, <4>1 DEF CallResets
      <3>4. CASE CallFails(d)
        <4>1. clock + Cooldown \in Nat /\ clock + Cooldown <= clock + Cooldown
          BY <2>4
        <4>. QED BY <2>6, <3>2, <3>4, <4>1 DEF CallFails
      <3>. QED BY <2>1, <3>1, <3>3, <3>4 DEF CallBegins, CallScans, CallScanned, CallEnds
    <2>8. streak' \in [Caller -> Nat]
      <3>1. streak \in [Caller -> Nat]
        BY DEF ListInv
      <3>2. Step(d) => \/ streak' = streak
                       \/ streak' = [streak EXCEPT ![d] = 0]
                       \/ streak' = [x \in Caller |-> 0]
                       \/ streak' = [streak EXCEPT ![d] = IF streak[d] = MaxStreak THEN streak[d]
                                                          ELSE streak[d] + 1]
        BY DEF Step, Begin, Scan, Scanned, Reset, Answered, Cancelled, EndpointFails, AllFailed
      <3>. QED BY <1>3, <3>1, <3>2
    <2>9. /\ NoDuplicates(r.left) /\ r.now <= clock /\ (r.at = "try" => r.left = <<>>)
      <3>1. CASE CallBegins(d) \/ CallEnds(d)
        BY <2>4, <3>1 DEF CallBegins, CallEnds, Becomes
      <3>2. CASE CallScans(d) \/ CallScanned(d)
        BY <2>4, <2>5, <3>2 DEF CallScans, CallScanned, Becomes
      <3>3. CASE CallResets(d) \/ CallFails(d)
        BY <2>4, <2>5, <3>3 DEF CallResets, CallFails, Becomes
      <3>. QED BY <2>1, <3>1, <3>2, <3>3
    <2>10. \A c \in Caller :
              /\ NoDuplicates(call'[c].left) /\ call'[c].now <= clock'
              /\ call'[c].at = "try" => call'[c].left = <<>>
      BY <2>2, <2>9 DEF ListInv
    <2>. QED BY <2>2, <2>3, <2>7, <2>8, <2>10 DEF ListInv, NoDuplicates
  <1>. QED BY <1>1, <1>2, <1>3 DEF PoolNext

------------------------------------------------------------------------------
(* What can still make a call fail before it reaches the steady endpoint.  *)

\* The endpoints but the steady one.
Others == Endpoint \ {Steady}

\* The call goes without the steady endpoint.
Misses(c) ==
    /\ call[c].at \in {"scan", "try"}
    /\ Steady \notin Listed(call[c].found)
    /\ Steady \in Listed(call[c].left) => call[c].now < Until

\* The call resets cooldowns, that of the steady endpoint to come or over.
Frees(c) == call[c].at = "reset" /\ Steady \in Listed(call[c].left)
\* The reset is past the steady endpoint.
Passed(c) == call[c].at = "reset" /\ Steady \notin Listed(call[c].left)

\* The call may fail with what it found.
Charged(c) == Misses(c) /\ (call[c].found # <<>> \/ call[c].failed)

\* The endpoint it is charged to, as long as none has failed in it.
Charge(c) ==
    IF Misses(c) /\ call[c].found # <<>> /\ ~call[c].failed THEN {Head(call[c].found)} ELSE {}

\* The caller may find e in place of the steady endpoint: it is not cooling down
\* for as long, or the caller is about to reset it.
MayFind(c, e) ==
    /\ ~Frees(c)
    /\ \/ failedUntil[e] < Until
       \/ Misses(c) /\ failedUntil[e] <= call[c].now
       \/ Passed(c) /\ Until # 0 /\ e \in Listed(call[c].left)

\* The endpoints a call that fails may still be charged to.
Open(c) == {e \in Others : MayFind(c, e)} \ Charge(c)

\* The endpoints a caller may reset in the reset that frees the steady one.
FreesWith(c) ==
    {e \in Others :
        \/ Until # 0 /\ ~Frees(c)
        \/ Misses(c)
        \/ call[c].at = "reset" /\ e \in Listed(call[c].left)}

\* The endpoints it may reset before that, in a reset that is past the steady one.
FreesLate(c) == {e \in Others : Passed(c) /\ Until # 0 /\ e \in Listed(call[c].left)}

\* Nothing of a call grows when neither it nor a cooldown changes.
LEMMA CallStays ==
    ASSUME NEW x, call'[x] = call[x], failedUntil' = failedUntil
    PROVE  /\ Open(x)' = Open(x) /\ FreesWith(x)' = FreesWith(x) /\ FreesLate(x)' = FreesLate(x)
           /\ Charged(x)' <=> Charged(x)
  <1>1. Until' = Until
    BY DEF Until
  <1>2. (Misses(x)' <=> Misses(x)) /\ (Frees(x)' <=> Frees(x)) /\ (Passed(x)' <=> Passed(x))
    BY <1>1 DEF Misses, Frees, Passed
  <1>3. Charge(x)' = Charge(x) /\ (Charged(x)' <=> Charged(x))
    BY <1>2 DEF Charge, Charged
  <1>4. \A e : MayFind(x, e)' <=> MayFind(x, e)
    BY <1>1, <1>2 DEF MayFind
  <1>5. Open(x)' = Open(x)
    BY <1>3, <1>4 DEF Open
  <1>6. FreesWith(x)' = FreesWith(x) /\ FreesLate(x)' = FreesLate(x)
    BY <1>1, <1>2 DEF FreesWith, FreesLate
  <1>. QED BY <1>3, <1>5, <1>6

\* Nothing more can make a call of x fail than before the step.
Shrinks(x) ==
    /\ Open(x)' \subseteq Open(x)
    /\ FreesWith(x)' \subseteq FreesWith(x)
    /\ FreesLate(x)' \subseteq FreesLate(x)
    /\ Charged(x)' => Charged(x)

\* A call that begins finds what it might have found before.
LEMMA BeginShrinks ==
    ASSUME PoolInv, ListInv, NEW d \in Caller, CallBegins(d)
    PROVE  Shrinks(d)
  <1> DEFINE q == call[d]
             r == call'[d]
  <1>1. /\ q.at = "out" /\ r.at = "scan" /\ r.now = clock /\ r.left = pooled /\ r.found = <<>>
        /\ r.failed = FALSE /\ failedUntil' = failedUntil /\ Until' = Until
    BY DEF CallBegins, Becomes, Until
  <1>2. /\ Listed(pooled) = Pooled /\ Steady \in Pooled /\ Listed(<<>>) = {} /\ clock \in Nat
        /\ Until \in Nat /\ failedUntil \in [Endpoint -> Nat]
    BY CallFacts
  <1>3. (Misses(d)' <=> clock < Until) /\ ~Frees(d)' /\ ~Passed(d)'
    BY <1>1, <1>2 DEF Misses, Frees, Passed
  <1>4. ~Misses(d) /\ ~Frees(d) /\ ~Passed(d)
    BY <1>1 DEF Misses, Frees, Passed
  <1>5. ~Charged(d)' /\ Charge(d)' = {} /\ Charge(d) = {}
    BY <1>1, <1>4 DEF Charged, Charge
  <1>6. \A e \in Others : MayFind(d, e)' => MayFind(d, e)
    <2> SUFFICES ASSUME NEW e \in Others, MayFind(d, e)' PROVE failedUntil[e] < Until
      BY <1>4 DEF MayFind
    <2>1. failedUntil[e] \in Nat
      BY <1>2 DEF Others
    <2>2. failedUntil[e] < Until \/ (clock < Until /\ failedUntil[e] <= clock)
      BY <1>1, <1>3 DEF MayFind
    <2>. QED BY <1>2, <2>1, <2>2
  <1>7. Open(d)' \subseteq Open(d)
    BY <1>5, <1>6 DEF Open
  <1>8. FreesWith(d)' \subseteq FreesWith(d)
    BY <1>1, <1>2, <1>3, <1>4 DEF FreesWith
  <1>9. FreesLate(d)' = {}
    BY <1>3 DEF FreesLate
  <1>. QED BY <1>5, <1>7, <1>8, <1>9 DEF Shrinks

\* A scan finds its first endpoint where the call will miss the steady one, and
\* is charged to it, or changes nothing.
LEMMA ScanCharges ==
    ASSUME PoolInv, ListInv, NEW d \in Caller, CallScans(d)
    PROVE  \/ Shrinks(d)
           \/ /\ FreesWith(d)' \subseteq FreesWith(d) /\ FreesLate(d)' \subseteq FreesLate(d)
              /\ ~Charged(d)
              /\ \E e \in Open(d) : Open(d)' \subseteq Open(d) \ {e}
  <1> DEFINE q == call[d]
             r == call'[d]
             e == Head(q.left)
             t == Tail(q.left)
  <1>1. /\ q.at = "scan" /\ r.at = "scan" /\ r.now = q.now /\ r.left = t /\ r.failed = q.failed
        /\ q.left # <<>> /\ failedUntil' = failedUntil /\ Until' = Until
        /\ r.found = IF q.now >= failedUntil[e] THEN Append(q.found, e) ELSE q.found
    BY DEF CallScans, Becomes, Until
  <1>2. /\ Listed(<<>>) = {} /\ Until \in Nat /\ q.now \in Nat /\ failedUntil \in [Endpoint -> Nat]
        /\ q.left \in Seq(Pooled) /\ q.found \in Seq(Pooled) /\ Pooled \subseteq Endpoint
        /\ NoDuplicates(q.left) /\ Steady \in Endpoint /\ q.failed \in BOOLEAN
    BY CallFacts DEF ListInv
  <1>3. e \in Pooled /\ Listed(q.left) = {e} \cup Listed(t) /\ e \notin Listed(t)
    BY <1>1, <1>2, TailListed
  <1>4. Listed(Append(q.found, e)) = Listed(q.found) \cup {e}
    BY <1>2, <1>3, ListedFacts
  <1>5. ~Frees(d) /\ ~Passed(d) /\ ~Frees(d)' /\ ~Passed(d)'
    BY <1>1 DEF Frees, Passed
  <1>6. failedUntil[e] \in Nat
    BY <1>2, <1>3
  <1>7. /\ r.found = <<>> => q.found = <<>>
        /\ q.found # <<>> => r.found # <<>> /\ Head(r.found) = Head(q.found)
        /\ q.found = <<>> /\ r.found # <<>> => q.now >= failedUntil[e] /\ Head(r.found) = e
    <2>1. /\ Append(q.found, e) # <<>>
          /\ q.found # <<>> => Head(Append(q.found, e)) = Head(q.found)
          /\ q.found = <<>> => Head(Append(q.found, e)) = e
      BY <1>2, <1>3, AppendKeepsHead
    <2>. QED BY <1>1, <2>1
  <1>. HIDE DEF e, t
  <1>8. Misses(d)' <=> Misses(d)
    <2>1. CASE e = Steady
      <3>1. Steady \in Listed(q.left) /\ Steady \notin Listed(t)
        BY <1>3, <2>1
      <3>2. CASE q.now >= Until
        <4>1. Steady \in Listed(r.found)
          BY <1>1, <1>4, <2>1, <3>2 DEF Until
        <4>. QED BY <1>1, <1>2, <3>1, <3>2, <4>1 DEF Misses
      <3>3. CASE q.now < Until
        <4>1. r.found = q.found
          BY <1>1, <1>2, <2>1, <3>3 DEF Until
        <4>. QED BY <1>1, <3>1, <3>3, <4>1 DEF Misses
      <3>. QED BY <1>2, <3>2, <3>3
    <2>2. CASE e # Steady
      <3>1. Steady \in Listed(r.found) <=> Steady \in Listed(q.found)
        BY <1>1, <1>4, <2>2
      <3>2. Steady \in Listed(t) <=> Steady \in Listed(q.left)
        BY <1>3, <2>2
      <3>. QED BY <1>1, <3>1, <3>2 DEF Misses
    <2>. QED BY <2>1, <2>2
  <1>9. \A x : MayFind(d, x)' <=> MayFind(d, x)
    BY <1>1, <1>5, <1>8 DEF MayFind
  <1>10. FreesWith(d)' \subseteq FreesWith(d) /\ FreesLate(d)' \subseteq FreesLate(d)
    BY <1>1, <1>5, <1>8 DEF FreesWith, FreesLate
  <1>11. CASE ~Misses(d) \/ q.failed \/ q.found # <<>> \/ r.found = <<>>
    <2>1. Charge(d)' = Charge(d)
      BY <1>1, <1>7, <1>8, <1>11 DEF Charge
    <2>2. Charged(d)' => Charged(d)
      BY <1>1, <1>8, <1>11 DEF Charged
    <2>3. Open(d)' = Open(d)
      BY <1>9, <2>1 DEF Open
    <2>. QED BY <1>10, <2>2, <2>3 DEF Shrinks
  <1>12. CASE Misses(d) /\ ~q.failed /\ q.found = <<>> /\ r.found # <<>>
    <2>1. q.now >= failedUntil[e] /\ Head(r.found) = e
      BY <1>7, <1>12
    <2>2. Charge(d) = {} /\ Charge(d)' = {e} /\ ~Charged(d)
      BY <1>1, <1>8, <1>12, <2>1 DEF Charge, Charged
    <2>3. e # Steady
      <3>1. ASSUME e = Steady PROVE FALSE
        <4>1. q.now < Until /\ q.now >= Until
          BY <1>3, <1>12, <2>1, <3>1 DEF Misses, Until
        <4>. QED BY <1>2, <4>1
      <3>. QED BY <3>1
    <2>4. e \in Others /\ MayFind(d, e)
      <3>1. failedUntil[e] <= q.now
        BY <1>2, <1>6, <2>1
      <3>. QED BY <1>2, <1>3, <1>5, <1>12, <2>3, <3>1 DEF Others, MayFind
    <2>5. e \in Open(d) /\ Open(d)' \subseteq Open(d) \ {e}
      BY <1>9, <2>2, <2>4 DEF Open
    <2>. QED BY <1>10, <2>2, <2>5
  <1>. QED BY <1>11, <1>12

\* A call that found nothing is about to free the steady endpoint.
LEMMA ScannedShrinks ==
    ASSUME PoolInv, ListInv, NEW d \in Caller, CallScanned(d)
    PROVE  Shrinks(d)
  <1> DEFINE q == call[d]
             r == call'[d]
  <1>1. /\ q.at = "scan" /\ q.left = <<>> /\ failedUntil' = failedUntil /\ Until' = Until
        /\ r.now = q.now /\ r.failed = q.failed /\ r.found = q.found
        /\ \/ q.found = <<>> /\ r.at = "reset" /\ r.left = pooled
           \/ q.found # <<>> /\ r.at = "try" /\ r.left = <<>>
    BY DEF CallScanned, Becomes, Until
  <1>2. Listed(pooled) = Pooled /\ Steady \in Pooled /\ Listed(<<>>) = {}
    BY CallFacts
  <1>3. ~Frees(d) /\ ~Passed(d)
    BY <1>1 DEF Frees, Passed
  <1>4. CASE r.at = "reset"
    <2>1. Misses(d) /\ ~Misses(d)' /\ Frees(d)' /\ ~Passed(d)'
      BY <1>1, <1>2, <1>4 DEF Misses, Frees, Passed
    <2>2. Open(d)' = {} /\ FreesLate(d)' = {} /\ ~Charged(d)' /\ FreesWith(d) = Others
      BY <2>1 DEF Open, MayFind, FreesWith, FreesLate, Charged
    <2>3. FreesWith(d)' \subseteq Others
      BY DEF FreesWith
    <2>. QED BY <2>2, <2>3 DEF Shrinks
  <1>5. CASE r.at = "try"
    <2>1. (Misses(d)' <=> Misses(d)) /\ ~Frees(d)' /\ ~Passed(d)'
      BY <1>1, <1>2, <1>5 DEF Misses, Frees, Passed
    <2>2. (Charged(d)' <=> Charged(d)) /\ Charge(d)' = Charge(d)
      BY <1>1, <2>1 DEF Charged, Charge
    <2>3. \A e : MayFind(d, e)' <=> MayFind(d, e)
      BY <1>1, <1>3, <2>1 DEF MayFind
    <2>4. Open(d)' = Open(d)
      BY <2>2, <2>3 DEF Open
    <2>5. FreesWith(d)' \subseteq FreesWith(d) /\ FreesLate(d)' \subseteq FreesLate(d)
      BY <1>1, <1>3, <1>5, <2>1 DEF FreesWith, FreesLate
    <2>. QED BY <2>2, <2>4, <2>5 DEF Shrinks
  <1>. QED BY <1>1, <1>4, <1>5

\* A call that ends gives back what it was charged to, unless that has failed.
LEMMA EndReturns ==
    ASSUME PoolInv, ListInv, NEW d \in Caller, CallEnds(d)
    PROVE  /\ FreesWith(d)' \subseteq FreesWith(d) /\ FreesLate(d)' \subseteq FreesLate(d)
           /\ ~Charged(d)' /\ Open(d)' \subseteq Open(d) \cup Charge(d)
           /\ call[d].found = <<>> => Charged(d) /\ Charge(d) = {}
           /\ Charge(d) # {} => Charged(d)
  <1> DEFINE q == call[d]
             r == call'[d]
  <1>1. /\ q.at = "try" /\ r.at = "out" /\ failedUntil' = failedUntil /\ Until' = Until
    BY DEF CallEnds, Becomes, Until
  <1>2. ~Misses(d)' /\ ~Frees(d)' /\ ~Passed(d)' /\ ~Frees(d) /\ ~Passed(d)
    BY <1>1 DEF Misses, Frees, Passed
  <1>3. ~Charged(d)' /\ Charge(d)' = {}
    BY <1>2 DEF Charged, Charge
  <1>4. \A e : MayFind(d, e)' => MayFind(d, e)
    BY <1>1, <1>2 DEF MayFind
  <1>5. Open(d)' \subseteq Open(d) \cup Charge(d)
    BY <1>3, <1>4 DEF Open
  <1>6. FreesWith(d)' \subseteq FreesWith(d) /\ FreesLate(d)' \subseteq FreesLate(d)
    BY <1>1, <1>2 DEF FreesWith, FreesLate
  <1>7. ASSUME q.found = <<>> PROVE Charged(d) /\ Charge(d) = {}
    <2>1. q.failed /\ q.left = <<>> /\ Listed(<<>>) = {}
      BY <1>1, <1>7, CallFacts DEF PoolInv, NeverEmptyHanded, ListInv
    <2>2. Misses(d)
      BY <1>1, <1>7, <2>1 DEF Misses
    <2>. QED BY <1>7, <2>1, <2>2 DEF Charged, Charge
  <1>8. Charge(d) # {} => Charged(d)
    BY DEF Charge, Charged
  <1>. QED BY <1>3, <1>5, <1>6, <1>7, <1>8

\* A reset of the steady endpoint closes everything.
LEMMA SteadyResetShrinks ==
    ASSUME PoolInv, ListInv, NEW d \in Caller, CallResets(d), Head(call[d].left) = Steady,
           NEW x \in Caller
    PROVE  Shrinks(x)
  <1> DEFINE q == call[d]
             r == call'[d]
             t == Tail(q.left)
  <1>1. /\ q.at = "reset" /\ q.left # <<>> /\ failedUntil' = [failedUntil EXCEPT ![Steady] = 0]
        /\ \/ r.at = "try" /\ r.left = <<>> /\ r.found = pooled
           \/ r.at = "reset" /\ r.left = t
        /\ \A y \in Caller \ {d} : call'[y] = call[y]
    BY DEF CallResets, Becomes, OnlyCall
  <1>2. /\ Listed(pooled) = Pooled /\ Steady \in Pooled /\ Listed(<<>>) = {}
        /\ failedUntil \in [Endpoint -> Nat] /\ Steady \in Endpoint
        /\ q.left \in Seq(Pooled) /\ NoDuplicates(q.left)
    BY CallFacts DEF ListInv
  <1>3. Listed(q.left) = {Steady} \cup Listed(t) /\ Steady \notin Listed(t)
    BY <1>1, <1>2, TailListed
  <1>. HIDE DEF t
  <1>4. Until' = 0 /\ \A e \in Others : failedUntil'[e] = failedUntil[e] /\ failedUntil[e] \in Nat
    BY <1>1, <1>2 DEF Until, Others
  <1>5. CASE x = d
    <2>1. Frees(d) /\ ~Passed(d) /\ ~Misses(d)' /\ ~Frees(d)'
      BY <1>1, <1>2, <1>3 DEF Frees, Passed, Misses
    <2>2. ~Charged(d)'
      BY <2>1 DEF Charged
    <2>3. \A e \in Others : ~MayFind(d, e)'
      BY <1>4, <2>1 DEF MayFind
    <2>4. Open(d)' = {}
      BY <2>3 DEF Open
    <2>5. FreesLate(d)' = {}
      BY <1>4 DEF FreesLate
    <2>6. FreesWith(d)' \subseteq FreesWith(d)
      BY <1>1, <1>2, <1>3, <1>4, <2>1 DEF FreesWith
    <2>. QED BY <1>5, <2>2, <2>4, <2>5, <2>6 DEF Shrinks
  <1>6. CASE x # d
    <2>1. call'[x] = call[x] /\ call[x].now \in Nat
      BY <1>1, <1>6, CallFacts
    <2>2. Misses(x)' => Misses(x)
      BY <1>4, <2>1 DEF Misses
    <2>3. (Frees(x)' <=> Frees(x)) /\ (Passed(x)' <=> Passed(x))
      BY <2>1 DEF Frees, Passed
    <2>4. Charged(x)' => Charged(x)
      BY <2>1, <2>2 DEF Charged
    <2>5. \A e \in Others : MayFind(x, e)' => MayFind(x, e) /\ Misses(x)'
      BY <1>4, <2>1, <2>2, <2>3 DEF MayFind
    <2>6. Misses(x)' => Charge(x)' = Charge(x)
      BY <2>1, <2>2 DEF Charge
    <2>7. Open(x)' \subseteq Open(x)
      BY <2>5, <2>6 DEF Open
    <2>8. FreesLate(x)' = {}
      BY <1>4 DEF FreesLate
    <2>9. FreesWith(x)' \subseteq FreesWith(x)
      BY <1>4, <2>1, <2>2 DEF FreesWith
    <2>. QED BY <2>4, <2>7, <2>8, <2>9 DEF Shrinks
  <1>. QED BY <1>5, <1>6

\* A reset of another endpoint opens it for the other callers, and is one reset
\* less that its caller has to come.
LEMMA OtherResetCharges ==
    ASSUME PoolInv, ListInv, NEW d \in Caller, CallResets(d), Head(call[d].left) # Steady
    PROVE  /\ Shrinks(d)
           /\ \E e \in Others :
                /\ \A x \in Caller \ {d} :
                      /\ Open(x)' \subseteq Open(x) \cup {e}
                      /\ FreesWith(x)' = FreesWith(x) /\ FreesLate(x)' = FreesLate(x)
                      /\ Charged(x)' <=> Charged(x)
                /\ \/ e \in FreesWith(d) /\ e \notin FreesWith(d)'
                   \/ e \in FreesLate(d) /\ e \notin FreesLate(d)'
  <1> DEFINE q == call[d]
             r == call'[d]
             e == Head(q.left)
             t == Tail(q.left)
  <1>1. /\ q.at = "reset" /\ q.left # <<>> /\ failedUntil' = [failedUntil EXCEPT ![e] = 0]
        /\ \/ r.at = "try" /\ r.left = <<>> /\ r.found = pooled /\ t = <<>>
           \/ r.at = "reset" /\ r.left = t
        /\ \A y \in Caller \ {d} : call'[y] = call[y]
        /\ e # Steady
    BY DEF CallResets, Becomes, OnlyCall
  <1>2. /\ Listed(pooled) = Pooled /\ Steady \in Pooled /\ Listed(<<>>) = {}
        /\ failedUntil \in [Endpoint -> Nat] /\ Steady \in Endpoint /\ Pooled \subseteq Endpoint
        /\ q.left \in Seq(Pooled) /\ NoDuplicates(q.left) /\ Until \in Nat
    BY CallFacts DEF ListInv
  <1>3. Listed(q.left) = {e} \cup Listed(t) /\ e \notin Listed(t) /\ e \in Pooled
    BY <1>1, <1>2, TailListed
  <1>. HIDE DEF t, e
  <1>4. /\ e \in Others /\ Until' = Until /\ failedUntil'[e] = 0
        /\ \A y \in Others \ {e} : failedUntil'[y] = failedUntil[y]
        /\ \A y \in Others : failedUntil[y] \in Nat
    BY <1>1, <1>2, <1>3 DEF Until, Others
  <1>5. ASSUME NEW x \in Caller \ {d}
        PROVE  /\ Open(x)' \subseteq Open(x) \cup {e}
               /\ FreesWith(x)' = FreesWith(x) /\ FreesLate(x)' = FreesLate(x)
               /\ Charged(x)' <=> Charged(x)
    <2>1. call'[x] = call[x]
      BY <1>1
    <2>2. (Misses(x)' <=> Misses(x)) /\ (Frees(x)' <=> Frees(x)) /\ (Passed(x)' <=> Passed(x))
      BY <1>4, <2>1 DEF Misses, Frees, Passed
    <2>3. Charge(x)' = Charge(x) /\ (Charged(x)' <=> Charged(x))
      BY <2>1, <2>2 DEF Charge, Charged
    <2>4. \A y \in Others \ {e} : MayFind(x, y)' <=> MayFind(x, y)
      BY <1>4, <2>1, <2>2 DEF MayFind
    <2>5. Open(x)' \subseteq Open(x) \cup {e}
      BY <2>3, <2>4 DEF Open
    <2>6. FreesWith(x)' = FreesWith(x) /\ FreesLate(x)' = FreesLate(x)
      BY <1>4, <2>1, <2>2 DEF FreesWith, FreesLate
    <2>. QED BY <2>3, <2>5, <2>6
  <1>6. ~Misses(d) /\ ~Misses(d)' /\ Charge(d)' = {} /\ Charge(d) = {} /\ ~Charged(d)'
    <2>1. ~Misses(d) /\ ~Misses(d)'
      BY <1>1, <1>2 DEF Misses
    <2>. QED BY <2>1 DEF Charge, Charged
  <1>7. (Frees(d) <=> Frees(d)') /\ Listed(r.left) \subseteq Listed(q.left) /\ e \notin Listed(r.left)
    BY <1>1, <1>2, <1>3 DEF Frees
  <1>8. CASE Frees(d)
    <2>1. Open(d)' = {}
      BY <1>7, <1>8 DEF Open, MayFind
    <2>2. ~Passed(d)' /\ r.at = "reset"
      BY <1>7, <1>8 DEF Frees, Passed
    <2>3. FreesLate(d)' = {}
      BY <2>2 DEF FreesLate
    <2>4. e \in FreesWith(d) /\ e \notin FreesWith(d)' /\ FreesWith(d)' \subseteq FreesWith(d)
      BY <1>1, <1>3, <1>4, <1>6, <1>7, <1>8 DEF FreesWith
    <2>. QED BY <1>4, <1>5, <1>6, <2>1, <2>3, <2>4 DEF Shrinks
  <1>9. CASE ~Frees(d) /\ Until # 0
    <2>1. Passed(d) /\ FreesWith(d) = Others
      BY <1>1, <1>9 DEF Passed, Frees, FreesWith
    <2>2. FreesWith(d)' \subseteq Others
      BY DEF FreesWith
    <2>3. e \in FreesLate(d) /\ e \notin FreesLate(d)' /\ FreesLate(d)' \subseteq FreesLate(d)
      BY <1>3, <1>4, <1>7, <1>9, <2>1 DEF FreesLate
    <2>4. MayFind(d, e) /\ \A y \in Others \ {e} : MayFind(d, y)' => MayFind(d, y)
      BY <1>3, <1>4, <1>6, <1>7, <1>9, <2>1 DEF MayFind
    <2>5. Open(d)' \subseteq Open(d)
      BY <1>4, <1>6, <2>4 DEF Open
    <2>. QED BY <1>4, <1>5, <1>6, <2>1, <2>2, <2>3, <2>5 DEF Shrinks
  <1>10. CASE ~Frees(d) /\ Until = 0
    <2>1. \A y \in Others : ~MayFind(d, y)'
      BY <1>4, <1>6, <1>10 DEF MayFind
    <2>2. Open(d)' = {}
      BY <2>1 DEF Open
    <2>3. FreesLate(d)' = {}
      BY <1>4, <1>10 DEF FreesLate
    <2>4. e \in FreesWith(d) /\ e \notin FreesWith(d)' /\ FreesWith(d)' \subseteq FreesWith(d)
      BY <1>1, <1>3, <1>4, <1>6, <1>7, <1>10 DEF FreesWith
    <2>. QED BY <1>4, <1>5, <1>6, <2>2, <2>3, <2>4 DEF Shrinks
  <1>. QED BY <1>8, <1>9, <1>10

\* An endpoint that fails cools down at least as long as the steady one.
LEMMA FailShrinks ==
    ASSUME PoolInv, ListInv, NEW d \in Caller, CallFails(d), Head(call[d].found) # Steady,
           NEW x \in Caller
    PROVE  Shrinks(x)
  <1> DEFINE q == call[d]
             r == call'[d]
             e == Head(q.found)
             t == Tail(q.found)
  <1>1. /\ q.at = "try" /\ q.found # <<>> /\ failedUntil' = [failedUntil EXCEPT ![e] = clock + Cooldown]
        /\ r.at = "try" /\ r.now = q.now /\ r.left = q.left /\ r.found = t /\ r.failed = TRUE
        /\ \A y \in Caller \ {d} : call'[y] = call[y]
        /\ e # Steady
    BY DEF CallFails, Becomes, OnlyCall
  <1>2. /\ failedUntil \in [Endpoint -> Nat] /\ Steady \in Endpoint /\ Pooled \subseteq Endpoint
        /\ q.found \in Seq(Pooled) /\ Until \in Nat /\ Until <= clock + Cooldown
        /\ clock \in Nat /\ Cooldown \in Nat /\ Cooldown > 0
        /\ \A y \in Caller : call[y].now \in Nat /\ call[y].now <= clock
    BY CallFacts
  <1>3. Listed(q.found) = {e} \cup Listed(t) /\ e \in Pooled
    BY <1>1, <1>2, TailListed
  <1>. HIDE DEF t, e
  <1>4. /\ e \in Others /\ Until' = Until /\ failedUntil'[e] = clock + Cooldown
        /\ \A y \in Others \ {e} : failedUntil'[y] = failedUntil[y]
    BY <1>1, <1>2, <1>3 DEF Until, Others
  <1>5. ~(failedUntil'[e] < Until) /\ \A y \in Caller : ~(failedUntil'[e] <= call[y].now)
    BY <1>2, <1>4
  <1>6. CASE x # d
    <2>1. call'[x] = call[x]
      BY <1>1, <1>6
    <2>2. (Misses(x)' <=> Misses(x)) /\ (Frees(x)' <=> Frees(x)) /\ (Passed(x)' <=> Passed(x))
      BY <1>4, <2>1 DEF Misses, Frees, Passed
    <2>3. Charge(x)' = Charge(x) /\ (Charged(x)' <=> Charged(x))
      BY <2>1, <2>2 DEF Charge, Charged
    <2>4. \A y \in Others : MayFind(x, y)' => MayFind(x, y)
      <3>1. \A y \in Others : y = e /\ MayFind(x, y)' => MayFind(x, y)
        BY <1>4, <1>5, <2>1, <2>2 DEF MayFind
      <3>2. \A y \in Others \ {e} : MayFind(x, y)' => MayFind(x, y)
        BY <1>4, <2>1, <2>2 DEF MayFind
      <3>. QED BY <3>1, <3>2
    <2>5. Open(x)' \subseteq Open(x)
      BY <2>3, <2>4 DEF Open
    <2>6. FreesWith(x)' \subseteq FreesWith(x) /\ FreesLate(x)' \subseteq FreesLate(x)
      BY <1>4, <2>1, <2>2 DEF FreesWith, FreesLate
    <2>. QED BY <2>3, <2>5, <2>6 DEF Shrinks
  <1>7. CASE x = d
    <2>1. Misses(d)' <=> Misses(d)
      BY <1>1, <1>3, <1>4 DEF Misses
    <2>2. ~Frees(d) /\ ~Passed(d) /\ ~Frees(d)' /\ ~Passed(d)'
      BY <1>1 DEF Frees, Passed
    <2>3. Charge(d)' = {} /\ Charge(d) \subseteq {e} /\ (Charged(d)' => Charged(d))
      BY <1>1, <2>1 DEF Charge, Charged, e
    <2>4. /\ \A y \in Others : y = e => ~MayFind(d, y)'
          /\ \A y \in Others \ {e} : MayFind(d, y)' => MayFind(d, y)
      BY <1>1, <1>4, <1>5, <2>1, <2>2 DEF MayFind
    <2>5. Open(d)' \subseteq Open(d)
      BY <2>3, <2>4 DEF Open
    <2>6. FreesWith(d)' \subseteq FreesWith(d) /\ FreesLate(d)' \subseteq FreesLate(d)
      BY <1>1, <1>4, <2>1, <2>2 DEF FreesWith, FreesLate
    <2>. QED BY <1>7, <2>3, <2>5, <2>6 DEF Shrinks
  <1>. QED BY <1>6, <1>7

------------------------------------------------------------------------------
(* Counting.                                                               *)

\* What an element more or less does to the size of a set.
LEMMA Count ==
    ASSUME NEW S, IsFiniteSet(S)
    PROVE  /\ Cardinality(S) \in Nat
           /\ \A T : T \subseteq S => IsFiniteSet(T) /\ Cardinality(T) <= Cardinality(S)
           /\ \A T, x : x \in S /\ T \subseteq S \ {x} => Cardinality(T) <= Cardinality(S) - 1
           /\ \A T, x : T \subseteq S \cup {x} => Cardinality(T) <= Cardinality(S) + 1
           /\ \A T, x, y : x \in S /\ T \subseteq (S \ {x}) \cup {y} => Cardinality(T) <= Cardinality(S)
  <1>1. Cardinality(S) \in Nat
    BY FS_CardinalityType
  <1>2. \A T : T \subseteq S => IsFiniteSet(T) /\ Cardinality(T) <= Cardinality(S)
    BY FS_Subset
  <1>3. ASSUME NEW T, NEW x, x \in S, T \subseteq S \ {x} PROVE Cardinality(T) <= Cardinality(S) - 1
    <2>1. IsFiniteSet(S \ {x}) /\ Cardinality(S \ {x}) = Cardinality(S) - 1
      BY <1>3, FS_RemoveElement
    <2>. QED BY <1>3, <2>1, FS_Subset
  <1>4. ASSUME NEW T, NEW x, T \subseteq S \cup {x} PROVE Cardinality(T) <= Cardinality(S) + 1
    <2>1. IsFiniteSet(S \cup {x}) /\ Cardinality(S \cup {x}) <= Cardinality(S) + 1
      BY <1>1, FS_AddElement
    <2>2. IsFiniteSet(T) /\ Cardinality(T) <= Cardinality(S \cup {x})
      BY <1>4, <2>1, FS_Subset
    <2>3. Cardinality(T) \in Nat /\ Cardinality(S \cup {x}) \in Nat
      BY <2>1, <2>2, FS_CardinalityType
    <2>. QED BY <1>1, <2>1, <2>2, <2>3
  <1>5. ASSUME NEW T, NEW x, NEW y, x \in S, T \subseteq (S \ {x}) \cup {y}
        PROVE  Cardinality(T) <= Cardinality(S)
    <2> DEFINE U == S \ {x}
    <2>1. IsFiniteSet(U) /\ Cardinality(U) = Cardinality(S) - 1
      BY <1>5, FS_RemoveElement
    <2>2. IsFiniteSet(U \cup {y}) /\ Cardinality(U \cup {y}) <= Cardinality(U) + 1
      BY <1>1, <2>1, FS_AddElement
    <2>3. IsFiniteSet(T) /\ Cardinality(T) <= Cardinality(U \cup {y})
      BY <1>5, <2>2, FS_Subset
    <2>4. Cardinality(T) \in Nat /\ Cardinality(U \cup {y}) \in Nat
      BY <2>2, <2>3, FS_CardinalityType
    <2>. HIDE DEF U
    <2>. QED BY <1>1, <2>1, <2>2, <2>3, <2>4
  <1>. QED BY <1>1, <1>2, <1>3, <1>4, <1>5

\* The ways in which c may come to a call that fails: an endpoint that is open to
\* it, and each reset of an endpoint by another caller.
Chances(c) ==
    {p \in Caller \X Others : p[2] \in IF p[1] = c THEN Open(c) ELSE FreesWith(p[1])}

\* Each reset that is past the steady endpoint.
LateChances(c) ==
    {p \in (Caller \ {c}) \X Others : p[2] \in FreesLate(p[1])}

\* How many there are of both.
Limit == (2 * Cardinality(Caller) - 1) * (Cardinality(Endpoint) - 1)

\* How many calls of c may still fail.
Burden(c) == Cardinality(Chances(c)) + Cardinality(LateChances(c)) + IF Charged(c) THEN 1 ELSE 0

\* Any sets of such pairs are finite, and within the limit.
LEMMA PairsAreFew ==
    ASSUME NEW c \in Caller, NEW S, S \subseteq Caller \X Others,
           NEW T, T \subseteq (Caller \ {c}) \X Others
    PROVE  /\ IsFiniteSet(S) /\ IsFiniteSet(T)
           /\ Cardinality(S) \in Nat /\ Cardinality(T) \in Nat
           /\ Cardinality(S) + Cardinality(T) <= Limit
           /\ Limit \in Nat
  <1> DEFINE n == Cardinality(Caller)
             m == Cardinality(Endpoint)
  <1>1. /\ IsFiniteSet(Caller) /\ IsFiniteSet(Endpoint) /\ Steady \in Endpoint
    BY PoolAssumption
  <1>2. /\ IsFiniteSet(Others) /\ Cardinality(Others) = m - 1
        /\ IsFiniteSet(Caller \ {c}) /\ Cardinality(Caller \ {c}) = n - 1
    BY <1>1, FS_RemoveElement DEF Others
  <1>3. n \in Nat /\ m \in Nat /\ m - 1 \in Nat /\ n - 1 \in Nat
    BY <1>1, <1>2, FS_CardinalityType
  <1>4. /\ IsFiniteSet(Caller \X Others) /\ Cardinality(Caller \X Others) = n * (m - 1)
    BY <1>1, <1>2, FS_Product
  <1>5. /\ IsFiniteSet((Caller \ {c}) \X Others)
        /\ Cardinality((Caller \ {c}) \X Others) = (n - 1) * (m - 1)
    BY <1>2, FS_Product
  <1>6. /\ IsFiniteSet(S) /\ Cardinality(S) <= n * (m - 1)
        /\ IsFiniteSet(T) /\ Cardinality(T) <= (n - 1) * (m - 1)
    BY <1>4, <1>5, FS_Subset
  <1>7. Cardinality(S) \in Nat /\ Cardinality(T) \in Nat
    BY <1>6, FS_CardinalityType
  <1>8. Limit = (2 * n - 1) * (m - 1)
    BY DEF Limit
  <1>. HIDE DEF n, m
  <1>9. \A k \in Nat : n * k \in Nat /\ (n - 1) * k \in Nat /\ (2 * n - 1) * k = n * k + (n - 1) * k
    BY <1>3
  <1>10. /\ n * (m - 1) \in Nat /\ (n - 1) * (m - 1) \in Nat
         /\ Limit = n * (m - 1) + (n - 1) * (m - 1)
    BY <1>3, <1>8, <1>9
  <1>. QED BY <1>6, <1>7, <1>10

\* So there are at most that many, before and after a step.
LEMMA ChancesAreFew ==
    ASSUME NEW c \in Caller
    PROVE  /\ IsFiniteSet(Chances(c)) /\ IsFiniteSet(LateChances(c))
           /\ Cardinality(Chances(c)) \in Nat /\ Cardinality(LateChances(c)) \in Nat
           /\ Cardinality(Chances(c)') \in Nat /\ Cardinality(LateChances(c)') \in Nat
           /\ Cardinality(Chances(c)) + Cardinality(LateChances(c)) <= Limit
           /\ Cardinality(Chances(c)') + Cardinality(LateChances(c)') <= Limit
           /\ Limit \in Nat
  <1>1. Chances(c) \subseteq Caller \X Others /\ LateChances(c) \subseteq (Caller \ {c}) \X Others
    BY DEF Chances, LateChances
  <1>2. Chances(c)' \subseteq Caller \X Others /\ LateChances(c)' \subseteq (Caller \ {c}) \X Others
    BY DEF Chances, LateChances, Others
  <1>. QED BY <1>1, <1>2, PairsAreFew

\* The bound for the calls of one caller.
Bounded(c) == streak[c] + Burden(c) <= 1 + Limit

\* After an answer, and after a failure of the steady endpoint.
LEMMA BoundedAgain ==
    ASSUME NEW c \in Caller, streak'[c] = 0
    PROVE  Bounded(c)'
  <1>1. /\ Cardinality(Chances(c)') \in Nat /\ Cardinality(LateChances(c)') \in Nat
        /\ Cardinality(Chances(c)') + Cardinality(LateChances(c)') <= Limit /\ Limit \in Nat
    BY ChancesAreFew
  <1>2. Limit' = Limit
    BY DEF Limit
  <1>3. Burden(c)' = Cardinality(Chances(c)') + Cardinality(LateChances(c)')
                       + IF Charged(c)' THEN 1 ELSE 0
    BY DEF Burden
  <1>. QED BY <1>1, <1>2, <1>3 DEF Bounded

\* The ways in which a step keeps the bound.
LEMMA BoundedStill ==
    ASSUME NEW c \in Caller, Bounded(c), streak[c] \in Nat, streak'[c] \in Nat,
           \/ /\ Chances(c)' \subseteq Chances(c) /\ LateChances(c)' \subseteq LateChances(c)
              /\ Charged(c)' => Charged(c)
              /\ streak'[c] = streak[c]
           \/ /\ Chances(c)' \subseteq Chances(c) /\ LateChances(c)' \subseteq LateChances(c)
              /\ Charged(c) /\ ~Charged(c)'
              /\ streak'[c] = streak[c] + 1
           \/ /\ \E p \in Chances(c) : Chances(c)' \subseteq Chances(c) \ {p}
              /\ LateChances(c)' \subseteq LateChances(c)
              /\ ~Charged(c)
              /\ streak'[c] = streak[c]
           \/ /\ \E p : Chances(c)' \subseteq Chances(c) \cup {p}
              /\ LateChances(c)' \subseteq LateChances(c)
              /\ Charged(c) /\ ~Charged(c)'
              /\ streak'[c] = streak[c]
           \/ /\ \E p \in Chances(c) : \E r : Chances(c)' \subseteq (Chances(c) \ {p}) \cup {r}
              /\ LateChances(c)' \subseteq LateChances(c)
              /\ Charged(c)' => Charged(c)
              /\ streak'[c] = streak[c]
           \/ /\ \E r : Chances(c)' \subseteq Chances(c) \cup {r}
              /\ \E p \in LateChances(c) : LateChances(c)' \subseteq LateChances(c) \ {p}
              /\ Charged(c)' => Charged(c)
              /\ streak'[c] = streak[c]
    PROVE  Bounded(c)'
  <1> DEFINE C == Chances(c)
             D == Chances(c)'
             L == LateChances(c)
             M == LateChances(c)'
             b == IF Charged(c) THEN 1 ELSE 0
             a == IF Charged(c)' THEN 1 ELSE 0
  <1>1. /\ IsFiniteSet(C) /\ IsFiniteSet(L) /\ Cardinality(C) \in Nat /\ Cardinality(L) \in Nat
        /\ Cardinality(D) \in Nat /\ Cardinality(M) \in Nat /\ Limit \in Nat
    BY ChancesAreFew
  <1>2. Limit' = Limit
    BY DEF Limit
  <1>3. /\ Burden(c) = Cardinality(C) + Cardinality(L) + b
        /\ Burden(c)' = Cardinality(D) + Cardinality(M) + a
    BY DEF Burden
  <1>4. a \in {0, 1} /\ b \in {0, 1} /\ ((Charged(c)' => Charged(c)) => a <= b)
        /\ (Charged(c) => b = 1) /\ (~Charged(c)' => a = 0) /\ (~Charged(c) => b = 0)
    OBVIOUS
  <1>5. /\ D \subseteq C => Cardinality(D) <= Cardinality(C)
        /\ \A p \in C : D \subseteq C \ {p} => Cardinality(D) <= Cardinality(C) - 1
        /\ \A p : D \subseteq C \cup {p} => Cardinality(D) <= Cardinality(C) + 1
        /\ \A p \in C : \A r : D \subseteq (C \ {p}) \cup {r} => Cardinality(D) <= Cardinality(C)
    BY <1>1, Count
  <1>6. /\ M \subseteq L => Cardinality(M) <= Cardinality(L)
        /\ \A p \in L : M \subseteq L \ {p} => Cardinality(M) <= Cardinality(L) - 1
    BY <1>1, Count
  <1>. HIDE DEF C, D, L, M, a, b
  <1>7. SUFFICES streak'[c] + Cardinality(D) + Cardinality(M) + a
                   <= streak[c] + Cardinality(C) + Cardinality(L) + b
    BY <1>1, <1>2, <1>3, <1>4 DEF Bounded
  <1>8. CASE D \subseteq C /\ M \subseteq L /\ (Charged(c)' => Charged(c)) /\ streak'[c] = streak[c]
    BY <1>1, <1>4, <1>5, <1>6, <1>8
  <1>9. CASE D \subseteq C /\ M \subseteq L /\ Charged(c) /\ ~Charged(c)' /\ streak'[c] = streak[c] + 1
    BY <1>1, <1>4, <1>5, <1>6, <1>9
  <1>10. CASE /\ \E p \in C : D \subseteq C \ {p}
              /\ M \subseteq L /\ ~Charged(c) /\ streak'[c] = streak[c]
    BY <1>1, <1>4, <1>5, <1>6, <1>10
  <1>11. CASE /\ \E p : D \subseteq C \cup {p}
              /\ M \subseteq L /\ Charged(c) /\ ~Charged(c)' /\ streak'[c] = streak[c]
    <2>1. Cardinality(D) <= Cardinality(C) + 1
      BY <1>5, <1>11, Zenon
    <2>. QED BY <1>1, <1>4, <1>6, <1>11, <2>1
  <1>12. CASE /\ \E p \in C : \E r : D \subseteq (C \ {p}) \cup {r}
              /\ M \subseteq L /\ (Charged(c)' => Charged(c)) /\ streak'[c] = streak[c]
    BY <1>1, <1>4, <1>5, <1>6, <1>12
  <1>13. CASE /\ \E r : D \subseteq C \cup {r}
              /\ \E p \in L : M \subseteq L \ {p}
              /\ (Charged(c)' => Charged(c)) /\ streak'[c] = streak[c]
    <2>1. Cardinality(D) <= Cardinality(C) + 1
      BY <1>5, <1>13, Zenon
    <2>. QED BY <1>1, <1>4, <1>6, <1>13, <2>1
  <1>. QED BY <1>8, <1>9, <1>10, <1>11, <1>12, <1>13 DEF C, D, L, M

\* The other callers have no reset more to come.
OthersShrink(c) ==
    \A x \in Caller \ {c} : FreesWith(x)' \subseteq FreesWith(x) /\ FreesLate(x)' \subseteq FreesLate(x)

\* What is open to a caller, and what the others may reset, as pairs.
LEMMA PairsOfChances ==
    ASSUME NEW c \in Caller
    PROVE  /\ \A p : p \in Chances(c) <=>
                 p \in Caller \X Others /\ p[2] \in IF p[1] = c THEN Open(c) ELSE FreesWith(p[1])
           /\ \A p : p \in Chances(c)' <=>
                 p \in Caller \X Others /\ p[2] \in IF p[1] = c THEN Open(c)' ELSE FreesWith(p[1])'
           /\ \A p : p \in LateChances(c) <=> p \in (Caller \ {c}) \X Others /\ p[2] \in FreesLate(p[1])
           /\ \A p : p \in LateChances(c)' <=> p \in (Caller \ {c}) \X Others /\ p[2] \in FreesLate(p[1])'
           /\ Open(c) \subseteq Others
           /\ \A x \in Caller : FreesWith(x) \subseteq Others /\ FreesLate(x) \subseteq Others
  <1>1. Others' = Others
    BY DEF Others
  <1>2. \A x \in Caller : FreesWith(x) \subseteq Others /\ FreesLate(x) \subseteq Others
    BY DEF FreesWith, FreesLate
  <1>3. Open(c) \subseteq Others
    BY DEF Open
  <1>. QED BY <1>1, <1>2, <1>3 DEF Chances, LateChances

\* Where nothing of a caller grows, and nothing of the others.
LEMMA ChancesShrink ==
    ASSUME NEW c \in Caller, OthersShrink(c)
    PROVE  /\ LateChances(c)' \subseteq LateChances(c)
           /\ Open(c)' \subseteq Open(c) => Chances(c)' \subseteq Chances(c)
           /\ \A e \in Open(c) : Open(c)' \subseteq Open(c) \ {e} =>
                 \E p \in Chances(c) : Chances(c)' \subseteq Chances(c) \ {p}
           /\ \A e : Open(c)' \subseteq Open(c) \cup {e} =>
                 \E p : Chances(c)' \subseteq Chances(c) \cup {p}
  <1>1. LateChances(c)' \subseteq LateChances(c)
    BY PairsOfChances DEF OthersShrink
  <1>2. Open(c)' \subseteq Open(c) => Chances(c)' \subseteq Chances(c)
    BY PairsOfChances DEF OthersShrink
  <1>3. ASSUME NEW e \in Open(c), Open(c)' \subseteq Open(c) \ {e}
        PROVE  \E p \in Chances(c) : Chances(c)' \subseteq Chances(c) \ {p}
    <2>1. <<c, e>> \in Chances(c) /\ <<c, e>> \notin Chances(c)'
      BY <1>3, PairsOfChances
    <2>2. Chances(c)' \subseteq Chances(c)
      BY <1>2, <1>3
    <2>. QED BY <2>1, <2>2
  <1>4. ASSUME NEW e, Open(c)' \subseteq Open(c) \cup {e}
        PROVE  \E p : Chances(c)' \subseteq Chances(c) \cup {p}
    <2>1. \A p \in Chances(c)' : p \in Chances(c) \/ p = <<c, e>>
      <3> SUFFICES ASSUME NEW p \in Chances(c)' PROVE p \in Chances(c) \/ p = <<c, e>>
        OBVIOUS
      <3>1. p \in Caller \X Others
        BY PairsOfChances
      <3>2. CASE p[1] = c
        <4>1. p[2] \in Open(c)'
          BY <3>2, PairsOfChances
        <4>2. CASE p[2] = e
          BY <3>1, <3>2, <4>2
        <4>3. CASE p[2] \in Open(c)
          BY <3>1, <3>2, <4>3, PairsOfChances
        <4>. QED BY <1>4, <4>1, <4>2, <4>3
      <3>3. CASE p[1] # c
        BY <3>1, <3>3, PairsOfChances DEF OthersShrink
      <3>. QED BY <3>2, <3>3
    <2>2. Chances(c)' \subseteq Chances(c) \cup {<<c, e>>}
      BY <2>1
    <2>. QED BY <2>2
  <1>. QED BY <1>1, <1>2, <1>3, <1>4

\* Where another caller resets an endpoint, it has one reset less to come.
LEMMA ChancesMove ==
    ASSUME NEW c \in Caller, NEW d \in Caller, c # d, OthersShrink(c), NEW e \in Others,
           Open(c)' \subseteq Open(c) \cup {e}
    PROVE  /\ e \in FreesWith(d) /\ e \notin FreesWith(d)' =>
                 \E p \in Chances(c) : \E r : Chances(c)' \subseteq (Chances(c) \ {p}) \cup {r}
           /\ e \in FreesLate(d) /\ e \notin FreesLate(d)' =>
                 \E p \in LateChances(c) : LateChances(c)' \subseteq LateChances(c) \ {p}
  <1>1. PICK r : Chances(c)' \subseteq Chances(c) \cup {r}
    BY ChancesShrink
  <1>2. ASSUME e \in FreesWith(d), e \notin FreesWith(d)'
        PROVE  \E p \in Chances(c) : \E s : Chances(c)' \subseteq (Chances(c) \ {p}) \cup {s}
    <2>1. <<d, e>> \in Caller \X Others /\ <<d, e>>[1] = d /\ <<d, e>>[2] = e
      OBVIOUS
    <2>2. <<d, e>> \in Chances(c) /\ <<d, e>> \notin Chances(c)'
      BY <1>2, <2>1, PairsOfChances
    <2>3. Chances(c)' \subseteq (Chances(c) \ {<<d, e>>}) \cup {r}
      BY <1>1, <2>2
    <2>. QED BY <2>2, <2>3
  <1>3. ASSUME e \in FreesLate(d), e \notin FreesLate(d)'
        PROVE  \E p \in LateChances(c) : LateChances(c)' \subseteq LateChances(c) \ {p}
    <2>1. <<d, e>> \in (Caller \ {c}) \X Others /\ <<d, e>>[1] = d /\ <<d, e>>[2] = e
      OBVIOUS
    <2>2. <<d, e>> \in LateChances(c) /\ <<d, e>> \notin LateChances(c)'
      BY <1>3, <2>1, PairsOfChances
    <2>. QED BY <2>2, ChancesShrink
  <1>. QED BY <1>2, <1>3

\* What has failed and what may still fail is within the limit.
StreakInv == \A c \in Caller : Bounded(c)

\* Nothing grows.
LEMMA BoundedWhereShrinks ==
    ASSUME NEW c \in Caller, Bounded(c), streak[c] \in Nat, streak'[c] = streak[c],
           Shrinks(c), OthersShrink(c)
    PROVE  Bounded(c)'
  BY ChancesShrink, BoundedStill DEF Shrinks

\* A call of another caller leaves this one as it is.
LEMMA BoundedForOthers ==
    ASSUME NEW c \in Caller, NEW d \in Caller, c # d, Bounded(c), streak[c] \in Nat,
           streak'[c] = streak[c], OnlyCall(d), failedUntil' = failedUntil,
           FreesWith(d)' \subseteq FreesWith(d), FreesLate(d)' \subseteq FreesLate(d)
    PROVE  Bounded(c)'
  <1>1. \A x \in Caller \ {d} : call'[x] = call[x]
    BY DEF OnlyCall
  <1>2. \A x \in Caller \ {d} : /\ Open(x)' = Open(x) /\ FreesWith(x)' = FreesWith(x)
                                /\ FreesLate(x)' = FreesLate(x) /\ (Charged(x)' <=> Charged(x))
    BY <1>1, CallStays
  <1>3. Shrinks(c)
    BY <1>2 DEF Shrinks
  <1>4. OthersShrink(c)
    BY <1>2 DEF OthersShrink
  <1>. QED BY <1>3, <1>4, BoundedWhereShrinks

\* The others are as they were where only the call of c changes.
LEMMA OthersStay ==
    ASSUME NEW c \in Caller, OnlyCall(c), failedUntil' = failedUntil
    PROVE  OthersShrink(c)
  <1>1. \A x \in Caller \ {c} : call'[x] = call[x]
    BY DEF OnlyCall
  <1>. QED BY <1>1, CallStays DEF OthersShrink

\* A call that ends: it has failed and was charged, or gives the charge back.
LEMMA EndKeepsBound ==
    ASSUME PoolInv, ListInv, NEW c \in Caller, Bounded(c), CallEnds(c), streak'[c] \in Nat
    PROVE  Bounded(c)'
  <1>1. /\ OnlyCall(c) /\ failedUntil' = failedUntil /\ streak[c] \in Nat
        /\ streak'[c] \in {0, streak[c]} \/ (call[c].found = <<>> /\ streak'[c] = streak[c] + 1)
    BY CallFacts DEF CallEnds
  <1>2. OthersShrink(c)
    BY <1>1, OthersStay
  <1>3. /\ ~Charged(c)' /\ Open(c)' \subseteq Open(c) \cup Charge(c)
        /\ call[c].found = <<>> => Charged(c) /\ Charge(c) = {}
        /\ Charge(c) # {} => Charged(c)
    BY EndReturns
  <1>4. LateChances(c)' \subseteq LateChances(c)
    BY <1>2, ChancesShrink
  <1>5. CASE streak'[c] = 0
    BY <1>5, BoundedAgain
  <1>6. CASE Charge(c) = {}
    <2>1. Chances(c)' \subseteq Chances(c)
      BY <1>2, <1>3, <1>6, ChancesShrink
    <2>. QED BY <1>1, <1>3, <1>4, <1>5, <2>1, BoundedStill
  <1>7. CASE Charge(c) # {} /\ streak'[c] = streak[c]
    <2>1. Charge(c) \subseteq {Head(call[c].found)}
      BY DEF Charge
    <2>2. Open(c)' \subseteq Open(c) \cup {Head(call[c].found)}
      BY <1>3, <2>1
    <2>3. \E p : Chances(c)' \subseteq Chances(c) \cup {p}
      BY <1>2, <2>2, ChancesShrink
    <2>. QED BY <1>1, <1>3, <1>4, <1>7, <2>3, BoundedStill
  <1>. QED BY <1>1, <1>3, <1>5, <1>6, <1>7

\* A scan is charged to what it finds.
LEMMA ScanKeepsBound ==
    ASSUME PoolInv, ListInv, NEW c \in Caller, Bounded(c), CallScans(c)
    PROVE  Bounded(c)'
  <1>1. OnlyCall(c) /\ failedUntil' = failedUntil /\ streak' = streak /\ streak[c] \in Nat
    BY CallFacts DEF CallScans
  <1>2. OthersShrink(c)
    BY <1>1, OthersStay
  <1>3. CASE Shrinks(c)
    BY <1>1, <1>2, <1>3, BoundedWhereShrinks
  <1>4. CASE ~Charged(c) /\ \E e \in Open(c) : Open(c)' \subseteq Open(c) \ {e}
    <2>1. LateChances(c)' \subseteq LateChances(c)
      BY <1>2, ChancesShrink
    <2>2. \E p \in Chances(c) : Chances(c)' \subseteq Chances(c) \ {p}
      BY <1>2, <1>4, ChancesShrink
    <2>. QED BY <1>1, <1>4, <2>1, <2>2, BoundedStill
  <1>. QED BY <1>3, <1>4, ScanCharges

\* A reset opens an endpoint and uses up a chance.
LEMMA ResetKeepsBound ==
    ASSUME PoolInv, ListInv, NEW c \in Caller, NEW d \in Caller, Bounded(c), CallResets(d)
    PROVE  Bounded(c)'
  <1>1. streak' = streak /\ streak[c] \in Nat
    BY CallFacts DEF CallResets
  <1>2. CASE Head(call[d].left) = Steady
    <2>1. \A x \in Caller : Shrinks(x)
      BY <1>2, SteadyResetShrinks
    <2>2. OthersShrink(c)
      BY <2>1 DEF OthersShrink, Shrinks
    <2>. QED BY <1>1, <2>1, <2>2, BoundedWhereShrinks
  <1>3. CASE Head(call[d].left) # Steady
    <2>1. Shrinks(d)
      BY <1>3, OtherResetCharges
    <2>2. PICK e \in Others :
             /\ \A x \in Caller \ {d} :
                   /\ Open(x)' \subseteq Open(x) \cup {e}
                   /\ FreesWith(x)' = FreesWith(x) /\ FreesLate(x)' = FreesLate(x)
                   /\ Charged(x)' <=> Charged(x)
             /\ \/ e \in FreesWith(d) /\ e \notin FreesWith(d)'
                \/ e \in FreesLate(d) /\ e \notin FreesLate(d)'
      BY <1>3, OtherResetCharges
    <2>3. OthersShrink(c)
      BY <2>1, <2>2 DEF OthersShrink, Shrinks
    <2>4. CASE c = d
      BY <1>1, <2>1, <2>3, <2>4, BoundedWhereShrinks
    <2>5. CASE c # d
      <3>1. Open(c)' \subseteq Open(c) \cup {e} /\ (Charged(c)' => Charged(c))
        BY <2>2, <2>5
      <3>2. LateChances(c)' \subseteq LateChances(c) /\ \E r : Chances(c)' \subseteq Chances(c) \cup {r}
        BY <2>3, <3>1, ChancesShrink
      <3>3. CASE e \in FreesWith(d) /\ e \notin FreesWith(d)'
        <4>1. \E p \in Chances(c) : \E r : Chances(c)' \subseteq (Chances(c) \ {p}) \cup {r}
          BY <2>3, <2>5, <3>1, <3>3, ChancesMove
        <4>. QED BY <1>1, <3>1, <3>2, <4>1, BoundedStill
      <3>4. CASE e \in FreesLate(d) /\ e \notin FreesLate(d)'
        <4>1. \E p \in LateChances(c) : LateChances(c)' \subseteq LateChances(c) \ {p}
          BY <2>3, <2>5, <3>1, <3>4, ChancesMove
        <4>. QED BY <1>1, <3>1, <3>2, <4>1, BoundedStill
      <3>. QED BY <2>2, <3>3, <3>4
    <2>. QED BY <2>4, <2>5
  <1>. QED BY <1>2, <1>3

\* A failure closes an endpoint.
LEMMA FailKeepsBound ==
    ASSUME PoolInv, ListInv, NEW c \in Caller, NEW d \in Caller, Bounded(c), CallFails(d)
    PROVE  Bounded(c)'
  <1>1. CASE Head(call[d].found) = Steady
    <2>1. streak'[c] = 0
      BY <1>1 DEF CallFails
    <2>. QED BY <2>1, BoundedAgain
  <1>2. CASE Head(call[d].found) # Steady
    <2>1. streak' = streak /\ streak[c] \in Nat
      BY <1>2, CallFacts DEF CallFails
    <2>2. \A x \in Caller : Shrinks(x)
      BY <1>2, FailShrinks
    <2>3. OthersShrink(c)
      BY <2>2 DEF OthersShrink, Shrinks
    <2>. QED BY <2>1, <2>2, <2>3, BoundedWhereShrinks
  <1>. QED BY <1>1, <1>2

\* Every step keeps the bound.
LEMMA StreakStep ==
    PoolInv /\ ListInv /\ ListInv' /\ StreakInv /\ [PoolNext]_poolVars => StreakInv'
  <1> SUFFICES ASSUME PoolInv, ListInv, ListInv', StreakInv, [PoolNext]_poolVars, NEW c \in Caller
               PROVE  Bounded(c)'
    BY DEF StreakInv
  <1>1. Bounded(c) /\ streak[c] \in Nat /\ streak'[c] \in Nat
    BY DEF StreakInv, ListInv
  <1>2. CASE Tick \/ UNCHANGED poolVars
    <2>1. call' = call /\ failedUntil' = failedUntil /\ streak' = streak
      BY <1>2 DEF Tick, poolVars
    <2>2. \A x \in Caller : Shrinks(x)
      BY <2>1, CallStays DEF Shrinks
    <2>3. OthersShrink(c)
      BY <2>2 DEF OthersShrink, Shrinks
    <2>. QED BY <1>1, <2>1, <2>2, <2>3, BoundedWhereShrinks
  <1>3. ASSUME NEW d \in Caller, Step(d) PROVE Bounded(c)'
    <2>1. \/ CallBegins(d) \/ CallScans(d) \/ CallScanned(d) \/ CallResets(d)
          \/ CallEnds(d) \/ CallFails(d)
      BY <1>3, StepEffects DEF ListInv
    <2>2. CASE CallBegins(d) \/ CallScanned(d)
      <3>1. Shrinks(d) /\ OnlyCall(d) /\ failedUntil' = failedUntil /\ streak' = streak
        BY <2>2, BeginShrinks, ScannedShrinks DEF CallBegins, CallScanned
      <3>2. CASE c = d
        BY <1>1, <3>1, <3>2, OthersStay, BoundedWhereShrinks
      <3>3. CASE c # d
        BY <1>1, <3>1, <3>3, BoundedForOthers DEF Shrinks
      <3>. QED BY <3>2, <3>3
    <2>3. CASE CallScans(d)
      <3>1. CASE c = d
        BY <1>1, <2>3, <3>1, ScanKeepsBound
      <3>2. CASE c # d
        <4>1. /\ FreesWith(d)' \subseteq FreesWith(d) /\ FreesLate(d)' \subseteq FreesLate(d)
          BY <2>3, ScanCharges DEF Shrinks
        <4>2. OnlyCall(d) /\ failedUntil' = failedUntil /\ streak' = streak
          BY <2>3 DEF CallScans
        <4>. QED BY <1>1, <3>2, <4>1, <4>2, BoundedForOthers
      <3>. QED BY <3>1, <3>2
    <2>4. CASE CallEnds(d)
      <3>1. CASE c = d
        BY <1>1, <2>4, <3>1, EndKeepsBound
      <3>2. CASE c # d
        <4>1. /\ FreesWith(d)' \subseteq FreesWith(d) /\ FreesLate(d)' \subseteq FreesLate(d)
          BY <2>4, EndReturns
        <4>2. OnlyCall(d) /\ failedUntil' = failedUntil /\ streak'[c] = streak[c]
          BY <2>4, <3>2 DEF CallEnds
        <4>. QED BY <1>1, <3>2, <4>1, <4>2, BoundedForOthers
      <3>. QED BY <3>1, <3>2
    <2>5. CASE CallResets(d)
      BY <1>1, <2>5, ResetKeepsBound
    <2>6. CASE CallFails(d)
      BY <1>1, <2>6, FailKeepsBound
    <2>. QED BY <2>1, <2>2, <2>3, <2>4, <2>5, <2>6
  <1>. QED BY <1>2, <1>3 DEF PoolNext

\* No call has failed at first.
LEMMA StreakStart == PoolInit => StreakInv
  <1> SUFFICES ASSUME PoolInit, NEW c \in Caller PROVE Bounded(c)
    BY DEF StreakInv
  <1>1. streak[c] = 0
    BY DEF PoolInit
  <1>2. /\ Cardinality(Chances(c)) \in Nat /\ Cardinality(LateChances(c)) \in Nat
        /\ Cardinality(Chances(c)) + Cardinality(LateChances(c)) <= Limit /\ Limit \in Nat
    BY ChancesAreFew
  <1>. QED BY <1>1, <1>2 DEF Bounded, Burden

\* What may still fail is not negative.
LEMMA StreakIsBounded == ListInv /\ StreakInv => SteadyIsFoundAgain
  <1> SUFFICES ASSUME ListInv, StreakInv, NEW c \in Caller PROVE streak[c] <= 1 + Limit
    BY DEF SteadyIsFoundAgain, Limit
  <1>1. /\ Cardinality(Chances(c)) \in Nat /\ Cardinality(LateChances(c)) \in Nat /\ Limit \in Nat
    BY ChancesAreFew
  <1>2. streak[c] \in Nat /\ streak[c] + Burden(c) <= 1 + Limit
    BY DEF ListInv, StreakInv, Bounded
  <1>3. Burden(c) \in Nat
    BY <1>1 DEF Burden
  <1>. HIDE DEF Burden
  <1>. QED BY <1>1, <1>2, <1>3

\* Once the steady endpoint has stopped failing, no caller sees more than so many
\* calls fail in a row, for every number of endpoints and callers, every
\* interleaving of their scans and resets and whatever the others answer
\* (pool.go, available and markFailed; client.go, tryFailover).
THEOREM SteadyEndpointIsFound == PoolSpec => []SteadyIsFoundAgain
  <1>1. PoolInit => PoolInv /\ ListInv /\ StreakInv
    BY InitHolds, ListInvStart, StreakStart
  <1>2. PoolInv /\ ListInv /\ StreakInv /\ [PoolNext]_poolVars => (PoolInv /\ ListInv /\ StreakInv)'
    BY StepKeeps, ListInvStep, StreakStep
  <1>3. PoolInv /\ ListInv /\ StreakInv => SteadyIsFoundAgain
    BY StreakIsBounded
  <1>. QED BY <1>1, <1>2, <1>3, PTL DEF PoolSpec
==============================================================================
