---------------------------- MODULE ServingProofs ----------------------------
(* That the registry of materialized resources keeps its limits, that its   *)
(* links have their files and that no file is left behind; that the work    *)
(* keeps to the slots; and that tokens are accepted and refused by keys     *)
(* that are recent enough: for any calls, requests, subjects, keys, limits  *)
(* and times.                                                               *)
EXTENDS Serving, FiniteSetTheorems, WellFoundedInduction, TLAPS

------------------------------------------------------------------------------
(* Admission. What acquire and release do to an admission controller, for   *)
(* any subjects and any works that hold its leases: the counters count the  *)
(* leases in use, however often leases are released. The heavyweight        *)
(* controller and the one of the reads are both of this kind.               *)
Leases(Work) == [work : Work, subject : Subject]
UseOf(ctl, s) == {l \in InUse(ctl) : l.subject = s}

CountersTyped(ctl, Work) ==
  ctl \in [given : SUBSET Leases(Work), released : SUBSET Work,
           activeGlobal : Nat, activeBySubject : [Subject -> Nat]]

(* A work has one lease, and only leases that were given are released.      *)
OneLeaseEach(ctl) ==
  /\ \A l, m \in ctl.given : l.work = m.work => l = m
  /\ \A w \in ctl.released : \E l \in ctl.given : l.work = w

(* The counters count the leases in use.                                    *)
CountersCount(ctl) ==
  /\ IsFiniteSet(InUse(ctl))
  /\ ctl.activeGlobal = Cardinality(InUse(ctl))
  /\ \A s \in Subject : ctl.activeBySubject[s] = Cardinality(UseOf(ctl, s))

ControllerOK(ctl, Work) ==
  CountersTyped(ctl, Work) /\ OneLeaseEach(ctl) /\ CountersCount(ctl)

(* One more element, or one fewer, and its cardinality.                     *)
LEMMA CountAdded ==
  ASSUME NEW S, NEW x, IsFiniteSet(S), x \notin S
  PROVE  IsFiniteSet(S \cup {x}) /\ Cardinality(S \cup {x}) = Cardinality(S) + 1
BY FS_AddElement

LEMMA CountRemoved ==
  ASSUME NEW S, NEW x, IsFiniteSet(S), x \in S
  PROVE  /\ IsFiniteSet(S \ {x}) /\ Cardinality(S \ {x}) = Cardinality(S) - 1
         /\ Cardinality(S) \in Nat /\ Cardinality(S) > 0
<1>1. Cardinality(S) \in Nat /\ Cardinality(S \ {x}) \in Nat
  BY FS_CardinalityType, FS_RemoveElement
<1> QED BY <1>1, FS_RemoveElement

(* A controller made anew has no lease in use.                              *)
THEOREM NewControllerOK ==
  ASSUME NEW Work
  PROVE  ControllerOK(NewController, Work) /\ InUse(NewController) = {}
<1>1. InUse(NewController) = {} /\ \A s \in Subject : UseOf(NewController, s) = {}
  BY DEF NewController, InUse, UseOf
<1>2. IsFiniteSet({}) /\ Cardinality({}) = 0
  BY FS_EmptySet
<1> QED BY <1>1, <1>2
     DEF NewController, ControllerOK, CountersTyped, OneLeaseEach, CountersCount

(* acquire, for work that had no lease, adds one lease to those in use, and *)
(* the counters follow.                                                     *)
THEOREM AcquireAdds ==
  ASSUME NEW Work, NEW ctl, ControllerOK(ctl, Work), NEW w \in Work,
         NEW s \in Subject, \A l \in ctl.given : l.work # w
  PROVE  /\ ControllerOK(Acquire(ctl, w, s), Work)
         /\ LeaseOf(w, s) \notin InUse(ctl)
         /\ InUse(Acquire(ctl, w, s)) = InUse(ctl) \cup {LeaseOf(w, s)}
         /\ Acquire(ctl, w, s).given = ctl.given \cup {LeaseOf(w, s)}
         /\ Acquire(ctl, w, s).released = ctl.released
<1> DEFINE l == LeaseOf(w, s)
           new == Acquire(ctl, w, s)
<1>1. /\ new.given = ctl.given \cup {l} /\ new.released = ctl.released
      /\ new.activeGlobal = ctl.activeGlobal + 1
      /\ new.activeBySubject = [ctl.activeBySubject EXCEPT ![s] = @ + 1]
  BY DEF Acquire
<1>2. l \in Leases(Work) /\ l.work = w /\ l.subject = s
  BY DEF LeaseOf, Leases
<1>3. CountersTyped(new, Work)
  <2>1. [ctl.activeBySubject EXCEPT ![s] = @ + 1] \in [Subject -> Nat]
    BY DEF ControllerOK, CountersTyped
  <2> QED BY <1>2, <2>1 DEF ControllerOK, CountersTyped, Acquire
<1> HIDE DEF l, new
<1>4. l \notin ctl.given /\ w \notin ctl.released
  BY <1>2 DEF ControllerOK, OneLeaseEach
<1>5. InUse(new) = InUse(ctl) \cup {l} /\ l \notin InUse(ctl)
  BY <1>1, <1>2, <1>4 DEF InUse
<1>6. OneLeaseEach(new)
  BY <1>1, <1>2 DEF ControllerOK, OneLeaseEach
<1>7. IsFiniteSet(InUse(new)) /\ new.activeGlobal = Cardinality(InUse(new))
  BY <1>1, <1>5, CountAdded DEF ControllerOK, CountersCount
<1>8. ASSUME NEW x \in Subject
      PROVE  new.activeBySubject[x] = Cardinality(UseOf(new, x))
  <2>1. CASE x # s
    <3>1. UseOf(new, x) = UseOf(ctl, x)
      BY <1>2, <1>5, <2>1 DEF UseOf
    <3> QED BY <1>1, <2>1, <3>1 DEF ControllerOK, CountersCount, CountersTyped
  <2>2. CASE x = s
    <3>1. UseOf(new, s) = UseOf(ctl, s) \cup {l}
      BY <1>2, <1>5 DEF UseOf
    <3>2. IsFiniteSet(UseOf(ctl, s)) /\ l \notin UseOf(ctl, s)
      BY <1>5, FS_Subset DEF UseOf, ControllerOK, CountersCount
    <3>3. Cardinality(UseOf(new, s)) = Cardinality(UseOf(ctl, s)) + 1
      BY <3>1, <3>2, CountAdded
    <3> QED BY <1>1, <2>2, <3>3 DEF ControllerOK, CountersCount, CountersTyped
  <2> QED BY <2>1, <2>2
<1>9. ControllerOK(new, Work)
  BY <1>3, <1>6, <1>7, <1>8 DEF ControllerOK, CountersCount
<1> QED BY <1>1, <1>5, <1>9 DEF l, new

(* release takes its own lease from those in use, the first time, and the   *)
(* counters follow; after that it changes nothing.                          *)
THEOREM ReleaseRemoves ==
  ASSUME NEW Work, NEW ctl, ControllerOK(ctl, Work), NEW w \in Work,
         NEW s \in Subject, LeaseOf(w, s) \in ctl.given
  PROVE  /\ ControllerOK(Release(ctl, w, s), Work)
         /\ InUse(Release(ctl, w, s)) = InUse(ctl) \ {LeaseOf(w, s)}
         /\ Release(ctl, w, s).given = ctl.given
         /\ Release(ctl, w, s).released = ctl.released \cup {w}
<1> DEFINE l == LeaseOf(w, s)
           new == Release(ctl, w, s)
<1>1. l.work = w /\ l.subject = s /\ l \in ctl.given
  BY DEF LeaseOf
<1>2. CASE w \in ctl.released
  <2>1. new = ctl
    BY <1>2 DEF Release
  <2>2. l \notin InUse(ctl)
    BY <1>1, <1>2 DEF InUse
  <2>3. ctl.released \cup {w} = ctl.released
    BY <1>2
  <2> QED BY <2>1, <2>2, <2>3
<1>3. CASE w \notin ctl.released
  <2>1. /\ new.given = ctl.given /\ new.released = ctl.released \cup {w}
        /\ new.activeGlobal = AtLeast0(ctl.activeGlobal - 1)
        /\ new.activeBySubject =
             [ctl.activeBySubject EXCEPT ![s] = AtLeast0(@ - 1)]
    BY <1>3 DEF Release
  <2>2. CountersTyped(new, Work)
    <3>1. AtLeast0(ctl.activeGlobal - 1) \in Nat
      BY DEF ControllerOK, CountersTyped, AtLeast0
    <3>2. [ctl.activeBySubject EXCEPT ![s] = AtLeast0(@ - 1)] \in [Subject -> Nat]
      BY DEF ControllerOK, CountersTyped, AtLeast0
    <3> QED BY <1>3, <3>1, <3>2 DEF ControllerOK, CountersTyped, Release
  <2> HIDE DEF l, new
  <2>3. \A m \in ctl.given : m.work = w => m = l
    BY <1>1 DEF ControllerOK, OneLeaseEach
  <2>4. InUse(new) = InUse(ctl) \ {l} /\ l \in InUse(ctl)
    BY <1>1, <1>3, <2>1, <2>3 DEF InUse
  <2>5. /\ IsFiniteSet(InUse(new))
        /\ Cardinality(InUse(new)) = Cardinality(InUse(ctl)) - 1
        /\ ctl.activeGlobal > 0
    BY <2>4, CountRemoved DEF ControllerOK, CountersCount
  <2>6. /\ UseOf(new, s) = UseOf(ctl, s) \ {l}
        /\ l \in UseOf(ctl, s) /\ IsFiniteSet(UseOf(ctl, s))
    BY <1>1, <2>4, FS_Subset DEF UseOf, ControllerOK, CountersCount
  <2>7. /\ Cardinality(UseOf(new, s)) = Cardinality(UseOf(ctl, s)) - 1
        /\ ctl.activeBySubject[s] > 0
    BY <2>6, CountRemoved DEF ControllerOK, CountersCount
  <2>8. /\ new.activeGlobal = ctl.activeGlobal - 1
        /\ new.activeBySubject = [ctl.activeBySubject EXCEPT ![s] = @ - 1]
    BY <2>1, <2>5, <2>7 DEF ControllerOK, CountersTyped, AtLeast0
  <2>9. OneLeaseEach(new)
    BY <1>1, <2>1 DEF ControllerOK, OneLeaseEach
  <2>10. ASSUME NEW x \in Subject
         PROVE  new.activeBySubject[x] = Cardinality(UseOf(new, x))
    <3>1. CASE x # s
      <4>1. UseOf(new, x) = UseOf(ctl, x)
        BY <1>1, <2>4, <3>1 DEF UseOf
      <4> QED BY <2>8, <3>1, <4>1 DEF ControllerOK, CountersCount, CountersTyped
    <3>2. CASE x = s
      BY <2>7, <2>8, <3>2 DEF ControllerOK, CountersCount, CountersTyped
    <3> QED BY <3>1, <3>2
  <2>11. ControllerOK(new, Work)
    BY <2>2, <2>5, <2>8, <2>9, <2>10 DEF ControllerOK, CountersCount
  <2> QED BY <2>1, <2>4, <2>11 DEF l, new
<1> QED BY <1>2, <1>3

------------------------------------------------------------------------------
(* Sums over finite sets. What Bytes computes is a fold that takes the      *)
(* elements in the order of CHOOSE; by minimal counterexamples in the       *)
(* subsets of the set, it does not depend on that order.                    *)

IsLeast(m, S) == m \in S /\ \A y \in S : m <= y

LEMMA LeastOf ==
  ASSUME NEW S, IsFiniteSet(S), S \subseteq Nat, S # {}
  PROVE  \E m \in S : IsLeast(m, S)
<1> DEFINE below(x) == {u \in S : u < x}
           B == {below(x) : x \in S}
           R == StrictSubsetOrdering(S)
<1>1. IsWellFoundedOn(R, SUBSET S)
  BY FS_StrictSubsetOrderingWellFounded, FS_FiniteSubsetsOfFinite
<1>2. B \subseteq SUBSET S /\ B # {}
  OBVIOUS
<1>3. PICK b \in B : \A a \in B : <<a, b>> \notin R
  <2> HIDE DEF B, R
  <2> QED BY <1>1, <1>2, WFMin
<1>4. PICK m \in S : b = below(m)
  BY <1>3
<1>5. ASSUME NEW y \in S, y < m PROVE FALSE
  <2>1. y \in Nat /\ m \in Nat /\ \A u \in S : u \in Nat
    OBVIOUS
  <2>2. \A u \in S : u < y => u < m
    BY <1>5, <2>1
  <2>3. below(y) \subseteq below(m)
    BY <2>2
  <2>4. y \in below(m) /\ y \notin below(y)
    BY <1>5, <2>1
  <2>5. below(y) \in B /\ <<below(y), below(m)>> \in R
    BY <2>3, <2>4 DEF StrictSubsetOrdering
  <2> QED BY <1>3, <1>4, <2>5
<1> HIDE DEF below, B, R
<1>6. ASSUME NEW y \in S PROVE m <= y
  <2>1. m \in Nat /\ y \in Nat /\ ~(y < m)
    BY <1>5
  <2> QED BY <2>1
<1> QED BY <1>6 DEF IsLeast

(* A property of subsets that fails fails for a smallest one.               *)
LEMMA SmallestSubset ==
  ASSUME NEW S, IsFiniteSet(S), NEW B, B \subseteq SUBSET S, B # {}
  PROVE  \E T \in B : \A U \in SUBSET T : U # T => U \notin B
<1> DEFINE R == StrictSubsetOrdering(S)
<1>1. IsWellFoundedOn(R, SUBSET S)
  BY FS_StrictSubsetOrderingWellFounded, FS_FiniteSubsetsOfFinite
<1>2. PICK T \in B : \A U \in B : <<U, T>> \notin R
  <2> HIDE DEF R
  <2> QED BY <1>1, WFMin
<1>3. ASSUME NEW U \in SUBSET T, U # T, U \in B PROVE FALSE
  <2>1. U \in SUBSET S /\ T \in SUBSET S
    BY <1>3
  <2>2. <<U, T>> \in R
    BY <1>3, <2>1 DEF StrictSubsetOrdering
  <2> QED BY <1>2, <1>3, <2>2
<1> QED BY <1>3

Picked(s) == CHOOSE x \in s : TRUE
SumStep(f, s) == IF s = {} THEN 0 ELSE Picked(s).size + f[s \ {Picked(s)}]
SumsUp(f, S) == f = [s \in SUBSET S |-> SumStep(f, s)]

UpTo(n, S) == {s \in SUBSET S : Cardinality(s) <= n}
SumsUpTo(f, n, S) == f = [s \in UpTo(n, S) |-> SumStep(f, s)]

LEMMA SumExists ==
  ASSUME NEW S, IsFiniteSet(S)
  PROVE  \E f : SumsUp(f, S)
<1> DEFINE N == Cardinality(S)
           Bad == {n \in 0 .. N : ~\E f : SumsUpTo(f, n, S)}
<1>1. N \in Nat
  BY FS_CardinalityType
<1>2. \A s \in SUBSET S : IsFiniteSet(s) /\ Cardinality(s) \in 0 .. N
  BY <1>1, FS_Subset, FS_CardinalityType
<1>3. Bad = {}
  <2> SUFFICES ASSUME Bad # {} PROVE FALSE OBVIOUS
  <2>1. IsFiniteSet(Bad) /\ Bad \subseteq Nat
    <3>1. IsFiniteSet(0 .. N) /\ Bad \in SUBSET (0 .. N)
      BY <1>1, FS_Interval
    <3> QED BY <1>1, <3>1, FS_Subset
  <2>2. PICK m \in Bad : IsLeast(m, Bad)
    <3> HIDE DEF Bad
    <3> QED BY <2>1, LeastOf
  <2>3. m \in Nat /\ m <= N
    BY <1>1, <2>1
  <2>4. CASE m = 0
    <3> DEFINE f == [s \in UpTo(0, S) |-> 0]
    <3>1. \A s \in UpTo(0, S) : s = {}
      BY <1>2, FS_EmptySet DEF UpTo
    <3>2. SumsUpTo(f, 0, S)
      BY <3>1 DEF SumsUpTo, SumStep
    <3> QED BY <2>4, <3>2
  <2>5. CASE m # 0
    <3>1. m - 1 \in 0 .. N /\ m - 1 < m
      BY <1>1, <2>3, <2>5
    <3>2. m - 1 \notin Bad
      BY <2>1, <2>2, <2>3, <3>1 DEF IsLeast
    <3>3. PICK f : SumsUpTo(f, m - 1, S)
      BY <3>1, <3>2
    <3> DEFINE g == [s \in UpTo(m, S) |-> SumStep(f, s)]
    <3>4. ASSUME NEW s \in UpTo(m, S), s # {}
          PROVE  g[s \ {Picked(s)}] = f[s \ {Picked(s)}]
      <4>1. Picked(s) \in s
        BY <3>4 DEF Picked
      <4>2. s \ {Picked(s)} \in SUBSET S /\ s \in SUBSET S
        BY DEF UpTo
      <4>3. /\ Cardinality(s \ {Picked(s)}) = Cardinality(s) - 1
            /\ Cardinality(s) \in Nat /\ Cardinality(s) <= m
        BY <1>2, <4>1, <4>2, FS_RemoveElement DEF UpTo
      <4>4. Cardinality(s \ {Picked(s)}) <= m - 1 /\ Cardinality(s \ {Picked(s)}) <= m
        BY <2>3, <4>3
      <4>5. s \ {Picked(s)} \in UpTo(m - 1, S) /\ s \ {Picked(s)} \in UpTo(m, S)
        BY <4>2, <4>4 DEF UpTo
      <4> QED BY <3>3, <4>5 DEF SumsUpTo
    <3>5. \A s \in UpTo(m, S) : SumStep(g, s) = SumStep(f, s)
      <4> HIDE DEF g
      <4> QED BY <3>4 DEF SumStep
    <3>6. SumsUpTo(g, m, S)
      BY <3>5 DEF SumsUpTo
    <3> QED BY <3>6
  <2> QED BY <2>4, <2>5
<1>4. PICK f : SumsUpTo(f, N, S)
  <2>1. N \in 0 .. N
    BY <1>1
  <2> QED BY <1>3, <2>1
<1>5. UpTo(N, S) = SUBSET S
  BY <1>1, <1>2 DEF UpTo
<1> QED BY <1>4, <1>5 DEF SumsUp, SumsUpTo

LEMMA SumsAgree ==
  ASSUME NEW S, IsFiniteSet(S), NEW T \in SUBSET S, NEW f, NEW g,
         SumsUp(f, S), SumsUp(g, T)
  PROVE  f[T] = g[T]
<1> DEFINE B == {U \in SUBSET T : f[U] # g[U]}
<1> SUFFICES ASSUME B # {} PROVE FALSE
  OBVIOUS
<1>1. IsFiniteSet(T)
  BY FS_Subset
<1>2. PICK U \in B : \A V \in SUBSET U : V # U => V \notin B
  <2>1. B \subseteq SUBSET T
    OBVIOUS
  <2> HIDE DEF B
  <2> QED BY <1>1, <2>1, SmallestSubset
<1>3. /\ U \in SUBSET T /\ U \in SUBSET S
      /\ f[U] = SumStep(f, U) /\ g[U] = SumStep(g, U)
  BY DEF SumsUp
<1>4. U # {}
  BY <1>2, <1>3 DEF SumStep
<1>5. Picked(U) \in U
  BY <1>4 DEF Picked
<1>6. f[U \ {Picked(U)}] = g[U \ {Picked(U)}]
  BY <1>2, <1>3, <1>5
<1> QED BY <1>2, <1>3, <1>6 DEF SumStep

LEMMA BytesSumUp ==
  ASSUME NEW S, IsFiniteSet(S)
  PROVE  \E f : SumsUp(f, S) /\ Bytes(S) = f[S]
<1> DEFINE g == CHOOSE g : g = [s \in SUBSET S |->
                  IF s = {} THEN 0
                  ELSE (CHOOSE x \in s : TRUE).size + g[s \ {CHOOSE x \in s : TRUE}]]
<1>1. PICK f : f = [s \in SUBSET S |->
                  IF s = {} THEN 0
                  ELSE (CHOOSE x \in s : TRUE).size + f[s \ {CHOOSE x \in s : TRUE}]]
  BY SumExists DEF SumsUp, SumStep, Picked
<1>2. Bytes(S) = g[S]
  BY DEF Bytes, MapThenSumSet, MapThenFoldSet
<1>3. g = [s \in SUBSET S |->
                  IF s = {} THEN 0
                  ELSE (CHOOSE x \in s : TRUE).size + g[s \ {CHOOSE x \in s : TRUE}]]
  BY <1>1
<1>4. SumsUp(g, S)
  BY <1>3 DEF SumsUp, SumStep, Picked
<1> QED BY <1>2, <1>4

LEMMA BytesStep ==
  ASSUME NEW S, IsFiniteSet(S)
  PROVE  /\ S = {} => Bytes(S) = 0
         /\ S # {} => /\ Picked(S) \in S
                      /\ Bytes(S) = Picked(S).size + Bytes(S \ {Picked(S)})
<1>1. PICK f : SumsUp(f, S) /\ Bytes(S) = f[S]
  BY BytesSumUp
<1>2. Bytes(S) = SumStep(f, S)
  BY <1>1 DEF SumsUp
<1>3. ASSUME S # {}
      PROVE  /\ Picked(S) \in S
             /\ Bytes(S) = Picked(S).size + Bytes(S \ {Picked(S)})
  <2> DEFINE T == S \ {Picked(S)}
  <2>1. Picked(S) \in S
    BY <1>3 DEF Picked
  <2>2. IsFiniteSet(T) /\ T \in SUBSET S
    BY FS_Subset
  <2>3. PICK g : SumsUp(g, T) /\ Bytes(T) = g[T]
    BY <2>2, BytesSumUp
  <2>4. f[T] = g[T]
    BY <1>1, <2>2, <2>3, SumsAgree
  <2> QED BY <1>2, <1>3, <2>1, <2>3, <2>4 DEF SumStep
<1> QED BY <1>2, <1>3 DEF SumStep
(* Entries have sizes that are natural numbers.                             *)
Sized(S) == \A e \in S : e.size \in Nat

LEMMA BytesNat ==
  ASSUME NEW S, IsFiniteSet(S), Sized(S)
  PROVE  Bytes(S) \in Nat
<1> DEFINE B == {T \in SUBSET S : Bytes(T) \notin Nat}
<1> SUFFICES ASSUME B # {} PROVE FALSE
  OBVIOUS
<1>1. PICK T \in B : \A U \in SUBSET T : U # T => U \notin B
  <2>1. B \subseteq SUBSET S
    OBVIOUS
  <2> HIDE DEF B
  <2> QED BY <2>1, SmallestSubset
<1>2. T \in SUBSET S /\ IsFiniteSet(T)
  BY FS_Subset
<1>3. /\ T = {} => Bytes(T) = 0
      /\ T # {} => /\ Picked(T) \in T
                   /\ Bytes(T) = Picked(T).size + Bytes(T \ {Picked(T)})
  BY <1>2, BytesStep
<1>4. T # {}
  BY <1>3
<1>5. Bytes(T \ {Picked(T)}) \in Nat
  BY <1>1, <1>2, <1>3, <1>4
<1>6. Picked(T).size \in Nat
  BY <1>2, <1>3, <1>4 DEF Sized
<1> QED BY <1>3, <1>4, <1>5, <1>6

(* The sum is of any element and the rest.                                  *)
LEMMA BytesRest ==
  ASSUME NEW S, IsFiniteSet(S), Sized(S), NEW x \in S
  PROVE  Bytes(S) = Bytes(S \ {x}) + x.size
<1> DEFINE B == {T \in SUBSET S : \E y \in T : Bytes(T) # Bytes(T \ {y}) + y.size}
<1> SUFFICES ASSUME B # {} PROVE FALSE
  OBVIOUS
<1>1. PICK T \in B : \A U \in SUBSET T : U # T => U \notin B
  <2>1. B \subseteq SUBSET S
    OBVIOUS
  <2> HIDE DEF B
  <2> QED BY <2>1, SmallestSubset
<1>2. PICK y \in T : Bytes(T) # Bytes(T \ {y}) + y.size
  OBVIOUS
<1>3. \A U \in SUBSET T : IsFiniteSet(U) /\ Sized(U) /\ Bytes(U) \in Nat
  <2> SUFFICES ASSUME NEW U \in SUBSET T
               PROVE  IsFiniteSet(U) /\ Sized(U) /\ Bytes(U) \in Nat
    OBVIOUS
  <2>1. U \in SUBSET S
    OBVIOUS
  <2>2. IsFiniteSet(U) /\ Sized(U)
    BY <2>1, FS_Subset DEF Sized
  <2> QED BY <2>2, BytesNat
<1> DEFINE p == Picked(T)
<1>4. p \in T /\ Bytes(T) = p.size + Bytes(T \ {p})
  <2>1. IsFiniteSet(T) /\ T # {}
    BY <1>3
  <2> QED BY <2>1, BytesStep
<1>5. p.size \in Nat /\ y.size \in Nat
  BY <1>3, <1>4 DEF Sized
<1>6. CASE p = y
  <2>1. Bytes(T \ {p}) \in Nat
    BY <1>3
  <2> QED BY <1>2, <1>4, <1>5, <1>6, <2>1
<1>7. CASE p # y
  <2> DEFINE U == T \ {p}
             V == T \ {y}
             W == T \ {p, y}
  <2>1. /\ U \in SUBSET S /\ V \in SUBSET S
        /\ U \notin B /\ V \notin B
    BY <1>1, <1>4
  <2>2. U \ {y} = W /\ V \ {p} = W /\ y \in U /\ p \in V
    BY <1>4, <1>7
  <2>3. Bytes(U) = Bytes(W) + y.size /\ Bytes(V) = Bytes(W) + p.size
    BY <2>1, <2>2
  <2>4. Bytes(U) \in Nat /\ Bytes(V) \in Nat /\ Bytes(W) \in Nat
    BY <1>3
  <2> HIDE DEF p, U, V, W
  <2>5. Bytes(T) = p.size + Bytes(U) /\ Bytes(T) # Bytes(V) + y.size
    BY <1>2, <1>4 DEF U, V
  <2> QED BY <1>5, <2>3, <2>4, <2>5
<1> QED BY <1>6, <1>7

LEMMA BytesAdded ==
  ASSUME NEW S, IsFiniteSet(S), Sized(S), NEW x, x \notin S, x.size \in Nat
  PROVE  Bytes(S \cup {x}) = Bytes(S) + x.size
<1>1. IsFiniteSet(S \cup {x}) /\ Sized(S \cup {x})
  BY FS_AddElement DEF Sized
<1>2. (S \cup {x}) \ {x} = S
  OBVIOUS
<1> QED BY <1>1, <1>2, BytesRest

(* What is taken away counts no more.                                       *)
LEMMA BytesTaken ==
  ASSUME NEW S, IsFiniteSet(S), Sized(S), NEW T \in SUBSET S
  PROVE  Bytes(S \ T) = Bytes(S) - Bytes(T)
<1> DEFINE B == {U \in SUBSET S : Bytes(S \ U) # Bytes(S) - Bytes(U)}
<1> SUFFICES ASSUME B # {} PROVE FALSE
  OBVIOUS
<1>1. PICK U \in B : \A V \in SUBSET U : V # U => V \notin B
  <2>1. B \subseteq SUBSET S
    OBVIOUS
  <2> HIDE DEF B
  <2> QED BY <2>1, SmallestSubset
<1>2. \A V \in SUBSET S : IsFiniteSet(V) /\ Sized(V) /\ Bytes(V) \in Nat
  <2> SUFFICES ASSUME NEW V \in SUBSET S
               PROVE  IsFiniteSet(V) /\ Sized(V) /\ Bytes(V) \in Nat
    OBVIOUS
  <2>1. IsFiniteSet(V) /\ Sized(V)
    BY FS_Subset DEF Sized
  <2> QED BY <2>1, BytesNat
<1>3. Bytes(S) \in Nat /\ Bytes(U) \in Nat /\ Bytes(S \ U) \in Nat
  BY <1>2
<1>4. CASE U = {}
  <2>1. S \ U = S /\ Bytes(U) = 0
    BY <1>4, FS_EmptySet, BytesStep
  <2> QED BY <1>3, <2>1
<1>5. CASE U # {}
  <2>1. PICK y \in U : TRUE
    BY <1>5
  <2> DEFINE V == U \ {y}
  <2>2. Bytes(S \ V) = Bytes(S) - Bytes(V)
    <3>1. V \in SUBSET U /\ V # U /\ V \in SUBSET S
      OBVIOUS
    <3> QED BY <1>1, <3>1
  <2>3. Bytes(U) = Bytes(V) + y.size
    BY <1>2, BytesRest
  <2>4. Bytes(S \ V) = Bytes(S \ U) + y.size
    <3>1. (S \ V) \ {y} = S \ U /\ y \in S \ V /\ S \ V \in SUBSET S
      OBVIOUS
    <3>2. IsFiniteSet(S \ V) /\ Sized(S \ V)
      BY <1>2, <3>1
    <3> QED BY <3>1, <3>2, BytesRest
  <2>5. y.size \in Nat /\ Bytes(V) \in Nat
    BY <1>2 DEF Sized
  <2>6. Bytes(S \ U) # Bytes(S) - Bytes(U)
    OBVIOUS
  <2> HIDE DEF V, B
  <2> QED BY <1>3, <2>2, <2>3, <2>4, <2>5, <2>6
<1> QED BY <1>4, <1>5

LEMMA BytesOfPart ==
  ASSUME NEW S, IsFiniteSet(S), Sized(S), NEW T \in SUBSET S
  PROVE  /\ IsFiniteSet(T) /\ Sized(T) /\ Bytes(T) \in Nat /\ Bytes(S) \in Nat
         /\ Bytes(T) <= Bytes(S)
<1>1. IsFiniteSet(T) /\ Sized(T) /\ IsFiniteSet(S \ T) /\ Sized(S \ T)
  BY FS_Subset DEF Sized
<1>2. Bytes(T) \in Nat /\ Bytes(S) \in Nat /\ Bytes(S \ T) \in Nat
  BY <1>1, BytesNat
<1> QED BY <1>1, <1>2, BytesTaken
------------------------------------------------------------------------------
(* What the registry does with its entries.                                 *)

Entry == [uri : Call, subject : Subject, size : Nat, no : Nat, expired : BOOLEAN]

Numbered(S) == \A d, e \in S : d.no = e.no => d = e

(* Entries as the registry keeps them.                                      *)
Entries(S) == IsFiniteSet(S) /\ S \subseteq Entry /\ Numbered(S)

LEMMA EntriesSized ==
  ASSUME NEW S, Entries(S), NEW T \in SUBSET S
  PROVE  /\ IsFiniteSet(T) /\ Sized(T) /\ Entries(T)
         /\ Bytes(T) \in Nat /\ Bytes(T) <= Bytes(S)
         /\ Bytes(S) \in Nat /\ Bytes(S \ T) = Bytes(S) - Bytes(T)
         /\ Cardinality(T) \in Nat /\ Cardinality(T) <= Cardinality(S)
         /\ Cardinality(S) \in Nat
<1>1. IsFiniteSet(S) /\ Sized(S) /\ S \subseteq Entry
  BY DEF Entries, Sized, Entry
<1>2. IsFiniteSet(T) /\ Entries(T)
  BY <1>1, FS_Subset DEF Entries, Numbered
<1>3. Cardinality(T) \in Nat /\ Cardinality(S) \in Nat /\ Cardinality(T) <= Cardinality(S)
  BY <1>1, <1>2, FS_CardinalityType, FS_Subset
<1>4. Bytes(S \ T) = Bytes(S) - Bytes(T)
  BY <1>1, BytesTaken
<1> QED BY <1>1, <1>2, <1>3, <1>4, BytesOfPart

LEMMA OldestOf ==
  ASSUME NEW E, IsFiniteSet(E), E \subseteq Entry, NEW n
  PROVE  /\ Oldest(n, E) \subseteq E
         /\ n = Cardinality(E) => Oldest(n, E) = E
<1>1. ASSUME NEW e \in E
      PROVE  Cardinality({x \in E : x.no < e.no}) < Cardinality(E)
  <2> DEFINE L == {x \in E : x.no < e.no}
  <2>1. e.no \in Nat
    BY DEF Entry
  <2>2. L \in SUBSET E /\ e \notin L
    BY <2>1
  <2>3. /\ Cardinality(L) <= Cardinality(E)
        /\ Cardinality(E) = Cardinality(L) => E = L
    BY <2>2, FS_Subset
  <2>4. Cardinality(L) \in Nat /\ Cardinality(E) \in Nat
    BY <2>2, FS_Subset, FS_CardinalityType
  <2> HIDE DEF L
  <2>5. Cardinality(L) < Cardinality(E)
    BY <2>2, <2>3, <2>4
  <2> QED BY <2>5 DEF L
<1> QED BY <1>1 DEF Oldest

(* The least number of which something holds that holds of the last.        *)
LEMMA FirstUpTo ==
  ASSUME NEW N \in Nat, NEW G \in SUBSET (0 .. N), N \in G
  PROVE  \E n \in 0 .. N : n \in G /\ \A m \in 0 .. n - 1 : m \notin G
<1>1. IsFiniteSet(G) /\ G \subseteq Nat /\ G # {}
  <2>1. IsFiniteSet(0 .. N)
    BY FS_Interval
  <2>2. IsFiniteSet(G)
    BY <2>1, FS_Subset
  <2>3. 0 .. N \subseteq Nat
    OBVIOUS
  <2> QED BY <2>2, <2>3
<1>2. PICK n \in G : IsLeast(n, G)
  BY <1>1, LeastOf
<1>3. \A m \in 0 .. n - 1 : m \notin G
  BY <1>1, <1>2 DEF IsLeast
<1> QED BY <1>2, <1>3

(* What goes of a subject's entries makes room for another one.             *)
LEMMA ScopeHasRoom ==
  ASSUME NEW reg, Entries(reg.entries), NEW s \in Subject,
         NEW size \in 1 .. MaxReadBytes
  PROVE  LET gone == ToGoOfScope(reg, s, size)
             kept == Of(reg.entries, s) \ gone
         IN  /\ gone \subseteq Of(reg.entries, s)
             /\ Cardinality(kept) < MaxEntriesPerScope
             /\ Bytes(kept) + size <= MaxBytesPerScope
<1> DEFINE E == Of(reg.entries, s)
           K(n) == E \ Oldest(n, E)
           good(n) == \/ n = Cardinality(E)
                      \/ /\ Cardinality(K(n)) < MaxEntriesPerScope
                         /\ Bytes(K(n)) + size <= MaxBytesPerScope
           G == {n \in 0 .. Cardinality(E) : good(n)}
           n0 == CHOOSE n \in 0 .. Cardinality(E) :
                   good(n) /\ \A m \in 0 .. n - 1 : ~good(m)
<1>1. E \in SUBSET reg.entries
  BY DEF Of
<1>2. /\ IsFiniteSet(E) /\ E \subseteq Entry /\ Cardinality(E) \in Nat
  BY <1>1, EntriesSized DEF Entries
<1>3. \E n \in 0 .. Cardinality(E) : good(n) /\ \A m \in 0 .. n - 1 : ~good(m)
  <2>1. G \in SUBSET (0 .. Cardinality(E)) /\ Cardinality(E) \in G
    BY <1>2
  <2>2. PICK n \in 0 .. Cardinality(E) : n \in G /\ \A m \in 0 .. n - 1 : m \notin G
    <3> HIDE DEF G
    <3> QED BY <1>2, <2>1, FirstUpTo
  <2>3. \A m \in 0 .. n - 1 : m \in 0 .. Cardinality(E)
    BY <1>2
  <2> HIDE DEF good
  <2> QED BY <2>2, <2>3
<1>4. n0 \in 0 .. Cardinality(E) /\ good(n0)
  <2> HIDE DEF good
  <2> QED BY <1>3
<1>5. ToGoOfScope(reg, s, size) = Oldest(n0, E)
  BY DEF ToGoOfScope, ToGo
<1> HIDE DEF n0, E
<1>6. Oldest(n0, E) \subseteq E /\ (n0 = Cardinality(E) => Oldest(n0, E) = E)
  BY <1>2, OldestOf
<1>7. CASE n0 = Cardinality(E)
  <2>1. K(n0) = {}
    BY <1>6, <1>7
  <2>2. Cardinality(K(n0)) = 0 /\ Bytes(K(n0)) = 0
    BY <2>1, FS_EmptySet, BytesStep
  <2>3. Cardinality(K(n0)) < MaxEntriesPerScope /\ Bytes(K(n0)) + size <= MaxBytesPerScope
    BY <2>2, RegistryAssumption
  <2> QED BY <1>5, <1>6, <2>3 DEF E
<1>8. CASE n0 # Cardinality(E)
  BY <1>4, <1>5, <1>6, <1>8 DEF E
<1> QED BY <1>7, <1>8

(* What goes of all entries makes room for another one.                     *)
LEMMA AllHasRoom ==
  ASSUME NEW reg, Entries(reg.entries), NEW size \in 1 .. MaxReadBytes,
         reg.totalRegisteredBytes = Bytes(reg.entries)
  PROVE  LET gone == ToGoOfAll(reg, size)
             kept == reg.entries \ gone
         IN  /\ gone \subseteq reg.entries
             /\ Cardinality(kept) < MaxEntries
             /\ Bytes(kept) + size <= MaxTotalBytes
<1> DEFINE E == reg.entries
           K(n) == E \ Oldest(n, E)
           good(n) == \/ n = Cardinality(E)
                      \/ /\ Cardinality(K(n)) < MaxEntries
                         /\ reg.totalRegisteredBytes
                              - (Bytes(reg.entries) - Bytes(K(n))) + size <= MaxTotalBytes
           G == {n \in 0 .. Cardinality(E) : good(n)}
           n0 == CHOOSE n \in 0 .. Cardinality(E) :
                   good(n) /\ \A m \in 0 .. n - 1 : ~good(m)
<1>2. /\ IsFiniteSet(E) /\ E \subseteq Entry /\ Cardinality(E) \in Nat
  BY EntriesSized DEF Entries
<1>3. \E n \in 0 .. Cardinality(E) : good(n) /\ \A m \in 0 .. n - 1 : ~good(m)
  <2>1. G \in SUBSET (0 .. Cardinality(E)) /\ Cardinality(E) \in G
    BY <1>2
  <2>2. PICK n \in 0 .. Cardinality(E) : n \in G /\ \A m \in 0 .. n - 1 : m \notin G
    <3> HIDE DEF G
    <3> QED BY <1>2, <2>1, FirstUpTo
  <2>3. \A m \in 0 .. n - 1 : m \in 0 .. Cardinality(E)
    BY <1>2
  <2> HIDE DEF good
  <2> QED BY <2>2, <2>3
<1>4. n0 \in 0 .. Cardinality(E) /\ good(n0)
  <2> HIDE DEF good
  <2> QED BY <1>3
<1>5. ToGoOfAll(reg, size) = Oldest(n0, E)
  BY DEF ToGoOfAll, ToGo
<1>9. MaxTotalBytes \in Nat /\ size \in Nat /\ size <= MaxTotalBytes /\ 0 < MaxEntries
  BY RegistryAssumption
<1> HIDE DEF n0
<1>6. Oldest(n0, E) \subseteq E /\ (n0 = Cardinality(E) => Oldest(n0, E) = E)
  BY <1>2, OldestOf
<1>7. CASE n0 = Cardinality(E)
  <2>1. K(n0) = {}
    BY <1>6, <1>7
  <2>2. Cardinality(K(n0)) = 0 /\ Bytes(K(n0)) = 0
    BY <2>1, FS_EmptySet, BytesStep
  <2>3. Cardinality(K(n0)) < MaxEntries /\ Bytes(K(n0)) + size <= MaxTotalBytes
    BY <2>2, <1>9
  <2> QED BY <1>5, <1>6, <2>3
<1>8. CASE n0 # Cardinality(E)
  <2>1. /\ Cardinality(K(n0)) < MaxEntries
        /\ reg.totalRegisteredBytes - (Bytes(E) - Bytes(K(n0))) + size <= MaxTotalBytes
    BY <1>4, <1>8
  <2>2. Bytes(E) \in Nat /\ Bytes(K(n0)) \in Nat
    BY EntriesSized
  <2>3. Bytes(K(n0)) + size <= MaxTotalBytes
    <3> DEFINE a == Bytes(E)  b == Bytes(K(n0))
    <3>1. reg.totalRegisteredBytes = a
      OBVIOUS
    <3>2. a - (a - b) + size <= MaxTotalBytes
      BY <2>1, <3>1
    <3> HIDE DEF a, b
    <3>3. a \in Nat /\ b \in Nat
      BY <2>2 DEF a, b
    <3>4. b + size <= MaxTotalBytes
      BY <3>2, <3>3, <1>9
    <3> QED BY <3>4 DEF b
  <2> QED BY <1>5, <1>6, <2>1, <2>3
<1> QED BY <1>7, <1>8
(* The invariant of the registry's state.                                   *)
WithinLimits(reg) ==
  /\ reg.totalRegisteredBytes <= MaxTotalBytes
  /\ Cardinality(reg.entries) <= MaxEntries
  /\ \A s \in Subject :
       /\ Bytes(Of(reg.entries, s)) <= MaxBytesPerScope
       /\ Cardinality(Of(reg.entries, s)) <= MaxEntriesPerScope

RegistryOK(reg) ==
  /\ reg \in [entries : SUBSET Entry, totalRegisteredBytes : Nat]
  /\ Entries(reg.entries)
  /\ reg.totalRegisteredBytes = Bytes(reg.entries)
  /\ WithinLimits(reg)

LEMMA NewRegistryOK == RegistryOK(NewRegistry)
<1>1. IsFiniteSet({}) /\ Cardinality({}) = 0 /\ Bytes({}) = 0
  BY FS_EmptySet, BytesStep
<1>2. \A s : Of({}, s) = {}
  BY DEF Of
<1>3. {MaxEntries, MaxEntriesPerScope, MaxTotalBytes, MaxBytesPerScope} \subseteq Nat
  BY RegistryAssumption
<1>4. Entries({})
  BY <1>1 DEF Entries, Numbered
<1>5. WithinLimits(NewRegistry)
  BY <1>1, <1>2, <1>3 DEF NewRegistry, WithinLimits
<1> QED BY <1>1, <1>4, <1>5 DEF NewRegistry, RegistryOK

(* removeEntries takes what it is given, and its bytes from the total.      *)
LEMMA RemoveKeeps ==
  ASSUME NEW reg, RegistryOK(reg), NEW gone \in SUBSET reg.entries
  PROVE  /\ removeEntries(reg, gone).entries = reg.entries \ gone
         /\ RegistryOK(removeEntries(reg, gone))
<1> DEFINE E == reg.entries
           new == removeEntries(reg, gone)
<1>1. Entries(E) /\ E \subseteq Entry
  BY DEF RegistryOK
<1>2. /\ Bytes(gone) \in Nat /\ Bytes(gone) <= Bytes(E) /\ Bytes(E) \in Nat
      /\ Bytes(E \ gone) = Bytes(E) - Bytes(gone)
  BY <1>1, EntriesSized
<1>3. /\ Entries(E \ gone) /\ Bytes(E \ gone) \in Nat
      /\ Bytes(E \ gone) <= Bytes(E) /\ Cardinality(E \ gone) <= Cardinality(E)
      /\ Cardinality(E \ gone) \in Nat /\ Cardinality(E) \in Nat
  BY <1>1, EntriesSized
<1>4. new.entries = E \ gone
  BY DEF removeEntries
<1>5. new.totalRegisteredBytes = Bytes(E \ gone)
  <2>1. reg.totalRegisteredBytes = Bytes(E)
    BY DEF RegistryOK
  <2>2. ~(Bytes(gone) > reg.totalRegisteredBytes)
    BY <1>2, <2>1
  <2> QED BY <1>2, <2>1, <2>2 DEF removeEntries
<1>6. ASSUME NEW s \in Subject
      PROVE  /\ Bytes(Of(new.entries, s)) <= MaxBytesPerScope
             /\ Cardinality(Of(new.entries, s)) <= MaxEntriesPerScope
  <2>1. Of(E, s) \in SUBSET E /\ Of(new.entries, s) \in SUBSET Of(E, s)
    BY <1>4 DEF Of
  <2>2. Entries(Of(E, s))
    BY <1>1, <2>1, EntriesSized
  <2>3. /\ Bytes(Of(new.entries, s)) <= Bytes(Of(E, s))
        /\ Bytes(Of(new.entries, s)) \in Nat /\ Bytes(Of(E, s)) \in Nat
    BY <2>1, <2>2, EntriesSized
  <2>4. /\ Cardinality(Of(new.entries, s)) <= Cardinality(Of(E, s))
        /\ Cardinality(Of(new.entries, s)) \in Nat /\ Cardinality(Of(E, s)) \in Nat
    BY <2>1, <2>2, EntriesSized
  <2>5. /\ Bytes(Of(E, s)) <= MaxBytesPerScope
        /\ Cardinality(Of(E, s)) <= MaxEntriesPerScope
    BY DEF RegistryOK, WithinLimits
  <2>6. MaxBytesPerScope \in Nat /\ MaxEntriesPerScope \in Nat
    BY RegistryAssumption
  <2> QED BY <2>3, <2>4, <2>5, <2>6
<1>7. new.totalRegisteredBytes <= MaxTotalBytes /\ Cardinality(new.entries) <= MaxEntries
  <2>1. Bytes(E) <= MaxTotalBytes /\ Cardinality(E) <= MaxEntries
    BY DEF RegistryOK, WithinLimits
  <2>2. MaxTotalBytes \in Nat /\ MaxEntries \in Nat
    BY RegistryAssumption
  <2> QED BY <1>2, <1>3, <1>4, <1>5, <2>1, <2>2
<1>8. new \in [entries : SUBSET Entry, totalRegisteredBytes : Nat]
  <2>1. new = [entries |-> new.entries, totalRegisteredBytes |-> new.totalRegisteredBytes]
    BY DEF removeEntries
  <2>2. new.entries \in SUBSET Entry /\ new.totalRegisteredBytes \in Nat
    BY <1>1, <1>3, <1>4, <1>5
  <2> HIDE DEF new
  <2> QED BY <2>1, <2>2
<1>9. WithinLimits(new)
  <2> HIDE DEF new
  <2> QED BY <1>6, <1>7 DEF WithinLimits
<1> HIDE DEF new
<1>10. RegistryOK(new)
  BY <1>3, <1>4, <1>5, <1>8, <1>9 DEF RegistryOK
<1> QED BY <1>4, <1>10 DEF new

LEMMA PruneKeeps ==
  ASSUME NEW reg, RegistryOK(reg)
  PROVE  /\ prune(reg).entries = reg.entries \ Expired(reg)
         /\ RegistryOK(prune(reg))
<1>1. Expired(reg) \in SUBSET reg.entries
  BY DEF Expired
<1> QED BY <1>1, RemoveKeeps DEF prune

(* The next number is above all there are.                                  *)
LEMMA GreatestOf ==
  ASSUME NEW S, IsFiniteSet(S), S \subseteq Nat, S # {}
  PROVE  Max(S) \in S /\ \A y \in S : y <= Max(S)
<1> DEFINE above(x) == {u \in S : u > x}
           B == {above(x) : x \in S}
<1>1. B \subseteq SUBSET S /\ B # {}
  OBVIOUS
<1>2. PICK T \in B : \A U \in SUBSET T : U # T => U \notin B
  <2> HIDE DEF B
  <2> QED BY <1>1, SmallestSubset
<1>3. PICK m \in S : T = above(m)
  OBVIOUS
<1>4. ASSUME NEW y \in S, y > m PROVE FALSE
  <2>1. y \in Nat /\ m \in Nat /\ \A u \in S : u \in Nat
    OBVIOUS
  <2>2. \A u \in S : u > y => u > m
    BY <1>4, <2>1
  <2>3. above(y) \in SUBSET T
    BY <1>3, <2>2
  <2>4. y \in T /\ y \notin above(y)
    BY <1>3, <1>4, <2>1
  <2>5. above(y) \in B
    OBVIOUS
  <2> QED BY <1>2, <2>3, <2>4, <2>5
<1>5. \A y \in S : m >= y
  <2>1. m \in Nat /\ \A y \in S : y \in Nat
    OBVIOUS
  <2> QED BY <1>4, <2>1
<1>6. Max(S) \in S /\ \A y \in S : Max(S) >= y
  BY <1>5 DEF Max
<1> QED BY <1>6

LEMMA NextNumber ==
  ASSUME NEW E, Entries(E)
  PROVE  LET no == 1 + Max({0} \cup {e.no : e \in E})
         IN  no \in Nat /\ \A e \in E : e.no < no
<1> DEFINE N == {e.no : e \in E}
           S == {0} \cup N
<1>1. IsFiniteSet(E) /\ \A e \in E : e.no \in Nat
  BY DEF Entries, Entry
<1>2. IsFiniteSet(N)
  <2> DEFINE f == [e \in E |-> e.no]
  <2>1. f \in Surjection(E, N)
    BY DEF Surjection
  <2> HIDE DEF f
  <2> QED BY <1>1, <2>1, FS_Surjection
<1>3. IsFiniteSet(S) /\ S \subseteq Nat /\ S # {}
  <2>1. IsFiniteSet(N \cup {0})
    BY <1>2, FS_AddElement
  <2>2. N \cup {0} = S
    OBVIOUS
  <2>3. S \subseteq Nat /\ S # {}
    BY <1>1
  <2> QED BY <2>1, <2>2, <2>3
<1>4. \A e \in E : e.no \in S
  OBVIOUS
<1> HIDE DEF S
<1>5. Max(S) \in S /\ \A y \in S : y <= Max(S)
  BY <1>3, GreatestOf
<1>6. Max(S) \in Nat
  BY <1>3, <1>5
<1>7. \A e \in E : e.no <= Max(S)
  BY <1>4, <1>5
<1>8. 1 + Max(S) \in Nat /\ \A e \in E : e.no < 1 + Max(S)
  BY <1>1, <1>6, <1>7
<1> QED BY <1>8 DEF S, N
(* register makes room and then adds its entry, with a number of its own.   *)
LEMMA RegisterKeeps ==
  ASSUME NEW before, NEW after, NEW u \in Call, NEW s \in Subject,
         NEW size \in 1 .. MaxReadBytes, RegistryOK(before),
         register(before, after, u, s, size)
  PROVE  /\ RegistryOK(after)
         /\ u \in Uris(after.entries)
         /\ Uris(after.entries) \subseteq Uris(before.entries) \cup {u}
<1> DEFINE live == prune(before)
           scoped == removeEntries(live, ToGoOfScope(live, s, size))
           room == removeEntries(scoped, ToGoOfAll(scoped, size))
           no == 1 + Max({0} \cup {e.no : e \in before.entries})
           e == [uri |-> u, subject |-> s, size |-> size, expired |-> FALSE, no |-> no]
<1>1. RegistryOK(live) /\ live.entries \subseteq before.entries
  BY PruneKeeps
<1>2. size \in Nat /\ size >= 1
  BY RegistryAssumption
<1>3. LET gone == ToGoOfScope(live, s, size)
          kept == Of(live.entries, s) \ gone
      IN  /\ gone \subseteq Of(live.entries, s)
          /\ Cardinality(kept) < MaxEntriesPerScope
          /\ Bytes(kept) + size <= MaxBytesPerScope
  BY <1>1, ScopeHasRoom DEF RegistryOK
<1>4. /\ RegistryOK(scoped)
      /\ scoped.entries = live.entries \ ToGoOfScope(live, s, size)
  <2>1. ToGoOfScope(live, s, size) \in SUBSET live.entries
    BY <1>3 DEF Of
  <2> QED BY <1>1, <2>1, RemoveKeeps
<1>5. Of(scoped.entries, s) = Of(live.entries, s) \ ToGoOfScope(live, s, size)
  BY <1>4 DEF Of
<1>6. /\ Cardinality(Of(scoped.entries, s)) < MaxEntriesPerScope
      /\ Bytes(Of(scoped.entries, s)) + size <= MaxBytesPerScope
  BY <1>3, <1>5
<1>7. LET gone == ToGoOfAll(scoped, size)
          kept == scoped.entries \ gone
      IN  /\ gone \subseteq scoped.entries
          /\ Cardinality(kept) < MaxEntries
          /\ Bytes(kept) + size <= MaxTotalBytes
  BY <1>4, AllHasRoom DEF RegistryOK
<1>8. RegistryOK(room) /\ room.entries = scoped.entries \ ToGoOfAll(scoped, size)
  BY <1>4, <1>7, RemoveKeeps
<1>9. Cardinality(room.entries) < MaxEntries /\ Bytes(room.entries) + size <= MaxTotalBytes
  BY <1>7, <1>8
<1>10. Entries(before.entries) /\ Entries(room.entries) /\ Entries(scoped.entries)
  BY <1>4, <1>8 DEF RegistryOK
<1>11. no \in Nat /\ \A d \in room.entries : d.no < no
  <2>1. no \in Nat /\ \A d \in before.entries : d.no < no
    BY <1>10, NextNumber
  <2>2. room.entries \subseteq before.entries
    BY <1>1, <1>4, <1>8
  <2> HIDE DEF no
  <2> QED BY <2>1, <2>2
<1>12. /\ after.entries = room.entries \cup {e}
       /\ after.totalRegisteredBytes = room.totalRegisteredBytes + size
       /\ after = [entries |-> after.entries,
                   totalRegisteredBytes |-> after.totalRegisteredBytes]
  BY DEF register
<1> HIDE DEF live, scoped, room, no
<1>13. /\ e \in Entry /\ e.no = no /\ e.size = size /\ e.uri = u /\ e.subject = s
       /\ e \notin room.entries
  <2>1. \A d \in room.entries : d.no \in Nat
    BY <1>10 DEF Entries, Entry
  <2>2. \A d \in room.entries : d.no # no
    BY <1>11, <2>1
  <2> QED BY <1>2, <1>11, <2>2 DEF Entry
<1> HIDE DEF e
<1>14. Entries(after.entries)
  <2>1. IsFiniteSet(after.entries)
    <3>1. IsFiniteSet(room.entries)
      BY <1>10 DEF Entries
    <3> QED BY <1>12, <3>1, FS_AddElement
  <2>2. after.entries \subseteq Entry
    BY <1>10, <1>12, <1>13 DEF Entries
  <2>3. \A d \in room.entries : d.no # no
    <3>1. \A d \in room.entries : d.no \in Nat
      BY <1>10 DEF Entries, Entry
    <3> QED BY <1>11, <3>1
  <2>4. Numbered(room.entries)
    BY <1>10 DEF Entries
  <2>5. Numbered(after.entries)
    BY <1>12, <1>13, <2>3, <2>4 DEF Numbered
  <2> QED BY <2>1, <2>2, <2>5 DEF Entries
<1>15. /\ IsFiniteSet(room.entries) /\ Sized(room.entries) /\ Bytes(room.entries) \in Nat
       /\ Cardinality(room.entries) \in Nat
  BY <1>10, EntriesSized
<1>16. /\ Bytes(after.entries) = Bytes(room.entries) + size
       /\ Cardinality(after.entries) = Cardinality(room.entries) + 1
  <2>1. Bytes(room.entries \cup {e}) = Bytes(room.entries) + size
    BY <1>2, <1>13, <1>15, BytesAdded
  <2>2. Cardinality(room.entries \cup {e}) = Cardinality(room.entries) + 1
    BY <1>13, <1>15, FS_AddElement
  <2> QED BY <1>12, <2>1, <2>2
<1>17. room.totalRegisteredBytes = Bytes(room.entries)
  BY <1>8 DEF RegistryOK
<1>18. /\ after.totalRegisteredBytes = Bytes(after.entries)
       /\ after.totalRegisteredBytes \in Nat
       /\ after.totalRegisteredBytes <= MaxTotalBytes
  BY <1>2, <1>9, <1>12, <1>15, <1>16, <1>17
<1>19. Cardinality(after.entries) <= MaxEntries
  <2>1. MaxEntries \in Nat
    BY RegistryAssumption
  <2> QED BY <1>9, <1>15, <1>16, <2>1
<1>20. ASSUME NEW t \in Subject
       PROVE  /\ Bytes(Of(after.entries, t)) <= MaxBytesPerScope
              /\ Cardinality(Of(after.entries, t)) <= MaxEntriesPerScope
  <2>1. CASE t # s
    <3>1. Of(after.entries, t) = Of(room.entries, t)
      BY <1>12, <1>13, <2>1 DEF Of
    <3> QED BY <1>8, <3>1 DEF RegistryOK, WithinLimits
  <2>2. CASE t = s
    <3> DEFINE O == Of(room.entries, s)
    <3>1. Of(after.entries, t) = O \cup {e} /\ e \notin O
      BY <1>12, <1>13, <2>2 DEF Of
    <3>2. O \in SUBSET Of(scoped.entries, s) /\ O \in SUBSET room.entries
      BY <1>8 DEF Of
    <3>3. Entries(Of(scoped.entries, s))
      <4>1. Of(scoped.entries, s) \in SUBSET scoped.entries
        BY DEF Of
      <4> QED BY <1>10, <4>1, EntriesSized
    <3>4. /\ IsFiniteSet(O) /\ Sized(O) /\ Bytes(O) \in Nat /\ Cardinality(O) \in Nat
          /\ Bytes(O) <= Bytes(Of(scoped.entries, s)) /\ Bytes(Of(scoped.entries, s)) \in Nat
          /\ Cardinality(O) <= Cardinality(Of(scoped.entries, s))
          /\ Cardinality(Of(scoped.entries, s)) \in Nat
      BY <3>2, <3>3, EntriesSized
    <3> HIDE DEF O
    <3>5. Bytes(O \cup {e}) = Bytes(O) + size
      BY <1>2, <1>13, <3>1, <3>4, BytesAdded
    <3>6. Cardinality(O \cup {e}) = Cardinality(O) + 1
      BY <3>1, <3>4, FS_AddElement
    <3>7. MaxBytesPerScope \in Nat /\ MaxEntriesPerScope \in Nat
      BY RegistryAssumption
    <3> QED BY <1>2, <1>6, <3>1, <3>4, <3>5, <3>6, <3>7
  <2> QED BY <2>1, <2>2
<1>21. WithinLimits(after)
  BY <1>18, <1>19, <1>20 DEF WithinLimits
<1>22. after \in [entries : SUBSET Entry, totalRegisteredBytes : Nat]
  <2>1. after.entries \in SUBSET Entry
    BY <1>14 DEF Entries
  <2> QED BY <1>12, <1>18, <2>1
<1>23. RegistryOK(after)
  BY <1>14, <1>18, <1>21, <1>22 DEF RegistryOK
<1>24. u \in Uris(after.entries)
  BY <1>12, <1>13 DEF Uris
<1>25. Uris(after.entries) \subseteq Uris(before.entries) \cup {u}
  <2>1. room.entries \subseteq before.entries
    BY <1>1, <1>4, <1>8
  <2> QED BY <1>12, <1>13, <2>1 DEF Uris
<1> QED BY <1>23, <1>24, <1>25

(* Age changes nothing of an entry but that it is expired.                  *)
LEMMA AgeKeeps ==
  ASSUME NEW reg, RegistryOK(reg)
  PROVE  RegistryOK(Age(reg)) /\ Uris(Age(reg).entries) = Uris(reg.entries)
<1> DEFINE E == reg.entries
           fresh == E \ Expired(reg)
           old == Oldest(1, fresh)
           aged(e) == IF e \in old THEN [e EXCEPT !.expired = TRUE] ELSE e
           new == {aged(e) : e \in E}
<1>1. Entries(E) /\ E \subseteq Entry /\ Numbered(E) /\ IsFiniteSet(E)
  BY DEF RegistryOK, Entries
<1>2. old \subseteq E
  BY DEF Oldest, Expired
<1>3. Age(reg) = [entries |-> new, totalRegisteredBytes |-> reg.totalRegisteredBytes]
  <2>1. Age(reg) = [reg EXCEPT !.entries = new]
    BY DEF Age
  <2> HIDE DEF new
  <2> QED BY <2>1 DEF RegistryOK
<1>4. \A d, e \in old : d = e
  <2> SUFFICES ASSUME NEW d \in old, NEW e \in old PROVE d = e
    OBVIOUS
  <2>1. d \in fresh /\ e \in fresh /\ d \in E /\ e \in E
    BY <1>2 DEF Oldest
  <2>2. ASSUME NEW a \in old, NEW b \in fresh PROVE ~(b.no < a.no)
    <3> DEFINE L == {x \in fresh : x.no < a.no}
    <3>1. Cardinality(L) < 1
      BY DEF Oldest
    <3>2. L \in SUBSET E
      OBVIOUS
    <3>3. IsFiniteSet(L) /\ Cardinality(L) \in Nat
      BY <1>1, <3>2, EntriesSized
    <3> HIDE DEF L
    <3>4. L = {}
      BY <3>1, <3>3, FS_EmptySet
    <3> QED BY <3>4 DEF L
  <2>3. ~(d.no < e.no) /\ ~(e.no < d.no)
    BY <2>1, <2>2
  <2>4. d.no \in Nat /\ e.no \in Nat
    BY <1>1, <2>1 DEF Entry
  <2>5. d.no = e.no
    BY <2>3, <2>4
  <2> QED BY <1>1, <2>1, <2>5 DEF Numbered
<1> HIDE DEF old
<1>5. CASE old = {}
  <2>1. new = E
    BY <1>5
  <2>2. Age(reg) = reg
    BY <1>3, <2>1 DEF RegistryOK
  <2> QED BY <2>2
<1>6. CASE old # {}
  <2>1. PICK o \in E : old = {o}
    BY <1>2, <1>4, <1>6
  <2> DEFINE p == [o EXCEPT !.expired = TRUE]
             rest == E \ {o}
  <2>2. /\ p \in Entry /\ o \in Entry
        /\ p.no = o.no /\ p.uri = o.uri /\ p.subject = o.subject /\ p.size = o.size
    BY <1>1 DEF Entry
  <2>3. new = rest \cup {p}
    BY <2>1
  <2>4. \A e \in rest : e.no # o.no
    BY <1>1 DEF Numbered
  <2> HIDE DEF p, new, rest
  <2>5. p \notin rest /\ o \notin rest /\ E = rest \cup {o} /\ rest \in SUBSET E
    BY <2>2, <2>4 DEF rest
  <2>6. IsFiniteSet(rest) /\ Sized(rest) /\ Entries(rest)
    BY <1>1, <2>5, EntriesSized
  <2>7. o.size \in Nat
    BY <2>2 DEF Entry
  <2>8. Bytes(new) = Bytes(E) /\ Cardinality(new) = Cardinality(E)
    <3>1. Bytes(rest \cup {p}) = Bytes(rest) + o.size
      BY <2>2, <2>5, <2>6, <2>7, BytesAdded
    <3>2. Bytes(rest \cup {o}) = Bytes(rest) + o.size
      BY <2>5, <2>6, <2>7, BytesAdded
    <3>3. Cardinality(rest \cup {p}) = Cardinality(rest \cup {o})
      BY <2>5, <2>6, FS_AddElement
    <3> QED BY <2>3, <2>5, <3>1, <3>2, <3>3
  <2>9. Entries(new)
    <3>1. IsFiniteSet(new)
      BY <2>3, <2>6, FS_AddElement
    <3>2. new \subseteq Entry
      BY <1>1, <2>2, <2>3, <2>5
    <3>3. Numbered(new)
      BY <2>2, <2>3, <2>4, <2>6 DEF Numbered, Entries
    <3> QED BY <3>1, <3>2, <3>3 DEF Entries
  <2>10. ASSUME NEW s \in Subject
         PROVE  /\ Bytes(Of(new, s)) = Bytes(Of(E, s))
                /\ Cardinality(Of(new, s)) = Cardinality(Of(E, s))
    <3>1. CASE o.subject # s
      <4>1. Of(new, s) = Of(E, s)
        BY <2>2, <2>3, <2>5, <3>1 DEF Of
      <4> QED BY <4>1
    <3>2. CASE o.subject = s
      <4> DEFINE R == Of(rest, s)
      <4>1. Of(new, s) = R \cup {p} /\ Of(E, s) = R \cup {o} /\ R \in SUBSET rest
        BY <2>2, <2>3, <2>5, <3>2 DEF Of
      <4>2. p \notin R /\ o \notin R
        BY <2>5, <4>1
      <4>3. IsFiniteSet(R) /\ Sized(R)
        BY <2>6, <4>1, EntriesSized
      <4> HIDE DEF R
      <4>4. Bytes(R \cup {p}) = Bytes(R) + o.size
        BY <2>2, <2>7, <4>2, <4>3, BytesAdded
      <4>5. Bytes(R \cup {o}) = Bytes(R) + o.size
        BY <2>7, <4>2, <4>3, BytesAdded
      <4>6. Cardinality(R \cup {p}) = Cardinality(R \cup {o})
        BY <4>2, <4>3, FS_AddElement
      <4> QED BY <4>1, <4>4, <4>5, <4>6
    <3> QED BY <3>1, <3>2
  <2>11. Uris(new) = Uris(E)
    <3>1. Uris(new) = Uris(rest) \cup {o.uri} /\ Uris(E) = Uris(rest) \cup {o.uri}
      BY <2>2, <2>3, <2>5 DEF Uris
    <3> QED BY <3>1
  <2>12. /\ WithinLimits(reg) /\ reg.totalRegisteredBytes = Bytes(E)
         /\ reg.totalRegisteredBytes \in Nat
    BY DEF RegistryOK
  <2> DEFINE r == [entries |-> new, totalRegisteredBytes |-> reg.totalRegisteredBytes]
  <2>13. r.entries = new /\ r.totalRegisteredBytes = reg.totalRegisteredBytes
    OBVIOUS
  <2>14. r \in [entries : SUBSET Entry, totalRegisteredBytes : Nat]
    BY <2>9, <2>12 DEF Entries
  <2> HIDE DEF r
  <2>15. WithinLimits(r)
    BY <2>8, <2>10, <2>12, <2>13 DEF WithinLimits
  <2>16. RegistryOK(r)
    BY <2>8, <2>9, <2>12, <2>13, <2>14, <2>15 DEF RegistryOK
  <2> QED BY <1>3, <2>11, <2>13, <2>16 DEF r
<1> QED BY <1>5, <1>6
------------------------------------------------------------------------------
(* Calls, links and files.                                                  *)

Places == {"look", "fetch", "stage", "register", "input", "prepare", "spawn",
           "child", "closing"}
Doing  == [at : Places \cup {"over"}, tool : Tools, subject : Subject, instance : Nat]
Jobs   == [at : {"new", "over"}] \cup Doing

(* Where a call can be, by its tool.                                        *)
Fits(j) ==
  /\ j.at \in {"look", "fetch"} => j.tool # "helper"
  /\ j.at \in {"stage", "register"} => j.tool \in {"download", "render"}
  /\ j.at = "input" => j.tool = "render"
  /\ j.at = "closing" => j.tool = "helper"

JobsOK == job \in [Call -> Jobs] /\ \A c \in Call : Fits(job[c])

Files == [of : Call, is : {"link", "input", "output"}]

(* What a file of the private directory is there for.                       *)
Belongs(f) ==
  \/ /\ f.is = "link"
     /\ f.of \in Uris(registry.entries) \/ job[f.of].at = "register"
  \/ f.is = "input" /\ job[f.of].at \in {"spawn", "child"} /\ job[f.of].tool = "render"
  \/ f.is = "output" /\ job[f.of].at = "child" /\ job[f.of].tool = "render"

FilesBelong == instance > 0 => \A f \in disk : Belongs(f)

(* A call whose link is registered is past its registration.                *)
PastRegistering(j) ==
  j.at \in {"input", "over"} \/ (j.at \in {"spawn", "child"} /\ j.tool = "render")

RegisteredOnce == \A u \in Uris(registry.entries) : u \in Call /\ PastRegistering(job[u])

StoreInv ==
  /\ JobsOK /\ session \in Session
  /\ RegistryOK(registry) /\ open \in BOOLEAN /\ instance \in Nat
  /\ ~open => registry = NewRegistry
  /\ bindings \subseteq Call /\ disk \subseteq Files
  /\ RegisteredOnce /\ BoundLinkHasFile /\ FilesBelong

LEMMA DoingCall ==
  ASSUME NEW j \in Jobs, j.at \in Places
  PROVE  /\ j \in Doing /\ j.tool \in Tools /\ j.subject \in Subject
         /\ j.instance \in Nat
BY DEF Jobs, Doing, Places

(* A call that goes on to another place.                                    *)
LEMMA CallMoves ==
  ASSUME NEW c \in Call, JobsOK, job[c].at \in Places,
         NEW at \in Places \cup {"over"}, GoesTo(c, at)
  PROVE  /\ job' \in [Call -> Jobs]
         /\ job'[c].at = at /\ job'[c].tool = job[c].tool
         /\ job'[c].subject = job[c].subject /\ job'[c].instance = job[c].instance
         /\ \A d \in Call : d # c => job'[d] = job[d]
<1> DEFINE next == [job[c] EXCEPT !.at = at]
<1>1. job[c] \in Doing
  BY DoingCall DEF JobsOK
<1>2. /\ next \in Doing /\ next.at = at /\ next.tool = job[c].tool
      /\ next.subject = job[c].subject /\ next.instance = job[c].instance
  BY <1>1 DEF Doing
<1>3. job' = [job EXCEPT ![c] = next]
  BY DEF GoesTo, Goes
<1>4. next \in Jobs
  BY <1>2 DEF Jobs
<1> HIDE DEF next
<1> QED BY <1>2, <1>3, <1>4 DEF JobsOK

LEMMA CallEnds ==
  ASSUME NEW c \in Call, JobsOK, Goes(c, [at |-> "over"])
  PROVE  /\ JobsOK' /\ job'[c].at = "over"
         /\ \A d \in Call : d # c => job'[d] = job[d]
<1> DEFINE next == [at |-> "over"]
<1>1. next \in Jobs /\ next.at = "over" /\ Fits(next)
  BY DEF Jobs, Fits
<1>2. job' = [job EXCEPT ![c] = next]
  BY DEF Goes
<1> HIDE DEF next
<1>3. job' \in [Call -> Jobs] /\ job'[c] = next /\ \A d \in Call : d # c => job'[d] = job[d]
  BY <1>1, <1>2 DEF JobsOK
<1> QED BY <1>1, <1>3 DEF JobsOK

(* Where a call that fits goes on, it fits.                                 *)
LEMMA MovesFit ==
  ASSUME NEW c \in Call, JobsOK, job[c].at \in Places,
         NEW at \in Places \cup {"over"}, GoesTo(c, at),
         \/ at \in {"over", "prepare", "spawn", "child"}
         \/ at \in {"look", "fetch"} /\ job[c].tool # "helper"
         \/ at \in {"stage", "register"} /\ job[c].tool \in {"download", "render"}
         \/ at = "input" /\ job[c].tool = "render"
         \/ at = "closing" /\ job[c].tool = "helper"
  PROVE  JobsOK'
<1>1. /\ job' \in [Call -> Jobs] /\ job'[c].at = at /\ job'[c].tool = job[c].tool
      /\ \A d \in Call : d # c => job'[d] = job[d]
  BY CallMoves
<1>2. Fits(job'[c])
  BY <1>1 DEF Fits
<1> QED BY <1>1, <1>2 DEF JobsOK

(* A step of one call that leaves the registry alone.                       *)
LEMMA CallStep ==
  ASSUME NEW c \in Call, StoreInv, JobsOK',
         \A d \in Call : d # c => job'[d] = job[d],
         UNCHANGED <<session, registry, open, instance, bindings>>,
         disk' \subseteq Files,
         \A u \in bindings : LinkFile(u) \in disk => LinkFile(u) \in disk',
         c \in Uris(registry.entries) => PastRegistering(job'[c]),
         instance > 0 =>
           \A f \in disk' : (f \in disk /\ f.of # c) \/ (f.of = c /\ Belongs(f)')
  PROVE  StoreInv'
<1>1. RegisteredOnce'
  BY DEF StoreInv, RegisteredOnce
<1>2. BoundLinkHasFile'
  BY DEF StoreInv, BoundLinkHasFile
<1>3. ASSUME instance' > 0, NEW f \in disk' PROVE Belongs(f)'
  <2>1. CASE f.of = c
    BY <1>3, <2>1
  <2>2. CASE f.of # c
    <3>1. f \in disk /\ f.of \in Call /\ Belongs(f)
      BY <1>3, <2>2 DEF StoreInv, FilesBelong, Files
    <3>2. job'[f.of] = job[f.of]
      BY <2>2, <3>1
    <3> QED BY <3>1, <3>2 DEF Belongs
  <2> QED BY <2>1, <2>2
<1>4. FilesBelong'
  BY <1>3 DEF FilesBelong
<1> QED BY <1>1, <1>2, <1>4 DEF StoreInv

(* A call ends by its finally; what it leaves is registered, or of others.  *)
LEMMA FinallyStep ==
  ASSUME NEW c \in Call, StoreInv, NEW left, left \subseteq disk, Finally(c, left),
         UNCHANGED <<session, registry, open, instance, bindings>>,
         \A u \in bindings : LinkFile(u) \in disk => LinkFile(u) \in left,
         instance > 0 => \A f \in left :
           f.of = c => f.is = "link" /\ c \in Uris(registry.entries)
  PROVE  StoreInv'
<1>1. /\ JobsOK' /\ job'[c].at = "over"
      /\ \A d \in Call : d # c => job'[d] = job[d]
  BY CallEnds DEF Finally, StoreInv
<1>2. disk' = left /\ disk' \subseteq Files
  BY DEF Finally, StoreInv
<1>3. PastRegistering(job'[c])
  BY <1>1 DEF PastRegistering
<1>4. ASSUME instance > 0, NEW f \in disk'
      PROVE  (f \in disk /\ f.of # c) \/ (f.of = c /\ Belongs(f)')
  <2>1. f \in left /\ f \in disk
    BY <1>2, <1>4
  <2>2. CASE f.of = c
    <3>1. f.is = "link" /\ f.of \in Uris(registry.entries)
      BY <1>4, <2>1, <2>2
    <3>2. Uris(registry.entries)' = Uris(registry.entries)
      BY DEF Uris
    <3>3. Belongs(f)'
      BY <3>1, <3>2 DEF Belongs
    <3> QED BY <2>2, <3>3
  <2>3. CASE f.of # c
    BY <2>1, <2>3
  <2> QED BY <2>2, <2>3
<1> QED BY <1>1, <1>2, <1>3, <1>4, CallStep

(* A call that goes on, and leaves the directory alone.                     *)
LEMMA QuietStep ==
  ASSUME NEW c \in Call, StoreInv, JobsOK',
         \A d \in Call : d # c => job'[d] = job[d],
         UNCHANGED <<session, registry, open, instance, bindings, disk>>,
         c \in Uris(registry.entries) => PastRegistering(job'[c]),
         instance > 0 => \A f \in disk : f.of = c => Belongs(f)'
  PROVE  StoreInv'
<1>1. disk' \subseteq Files
  BY DEF StoreInv
<1>2. \A u \in bindings : LinkFile(u) \in disk => LinkFile(u) \in disk'
  OBVIOUS
<1>3. ASSUME instance > 0, NEW f \in disk'
      PROVE  (f \in disk /\ f.of # c) \/ (f.of = c /\ Belongs(f)')
  <2>1. f \in disk
    BY <1>3
  <2>2. CASE f.of = c
    BY <1>3, <2>1, <2>2
  <2>3. CASE f.of # c
    BY <2>1, <2>3
  <2> QED BY <2>2, <2>3
<1> QED BY <1>1, <1>2, <1>3, CallStep
(* What a working call's files can be, by where it is.                      *)
LEMMA FilesOfCall ==
  ASSUME NEW c \in Call, StoreInv, instance > 0, NEW f \in disk, f.of = c
  PROVE  /\ f \in Files /\ Belongs(f)
         /\ job[c].at \in {"new", "look", "fetch", "stage", "prepare", "closing"} => FALSE
         /\ job[c].at = "register" => f = LinkFile(c)
         /\ job[c].at \in {"input", "over"} =>
              f.is = "link" /\ c \in Uris(registry.entries)
         /\ job[c].at = "spawn" =>
              \/ f.is = "link" /\ c \in Uris(registry.entries)
              \/ f = Input(c) /\ job[c].tool = "render"
         /\ job[c].at = "child" =>
              \/ f.is = "link" /\ c \in Uris(registry.entries)
              \/ f \in {Input(c), Output(c)} /\ job[c].tool = "render"
<1>1. f \in Files /\ Belongs(f)
  BY DEF StoreInv, FilesBelong
<1>2. c \in Uris(registry.entries) => PastRegistering(job[c])
  BY DEF StoreInv, RegisteredOnce
<1>3. f = [of |-> c, is |-> f.is]
  BY <1>1 DEF Files
<1> QED BY <1>1, <1>2, <1>3 DEF Belongs, PastRegistering, LinkFile, Input, Output

LEMMA AcquireStep ==
  ASSUME NEW c \in Call, StoreInv, acquireHeavyweightLease(c)
  PROVE  StoreInv'
<1>1. PICK use \in session.tools :
        /\ job[c].at = "new"
        /\ \/ Goes(c, [at |-> "over"])
           \/ Goes(c, [at |-> IF use[2] = "helper" THEN "prepare" ELSE "look",
                       tool |-> use[2], subject |-> use[1], instance |-> 0])
  BY DEF acquireHeavyweightLease
<1>2. UNCHANGED <<session, registry, open, instance, bindings, disk>>
  BY DEF acquireHeavyweightLease, Aside, store
<1>3. use[1] \in Subject /\ use[2] \in Tools
  BY SessionAssumption DEF StoreInv
<1>4. c \notin Uris(registry.entries)
  BY <1>1 DEF StoreInv, RegisteredOnce, PastRegistering
<1>5. /\ JobsOK'
      /\ \A d \in Call : d # c => job'[d] = job[d]
  <2>1. CASE Goes(c, [at |-> "over"])
    BY <2>1, CallEnds DEF StoreInv
  <2>2. CASE Goes(c, [at |-> IF use[2] = "helper" THEN "prepare" ELSE "look",
                      tool |-> use[2], subject |-> use[1], instance |-> 0])
    <3> DEFINE next == [at |-> IF use[2] = "helper" THEN "prepare" ELSE "look",
                        tool |-> use[2], subject |-> use[1], instance |-> 0]
    <3>1. next \in Doing /\ Fits(next)
      BY <1>3 DEF Doing, Places, Fits
    <3>2. job' = [job EXCEPT ![c] = next] /\ next \in Jobs
      BY <2>2, <3>1 DEF Goes, Jobs
    <3> HIDE DEF next
    <3>3. /\ job' \in [Call -> Jobs] /\ job'[c] = next
          /\ \A d \in Call : d # c => job'[d] = job[d]
      BY <3>2 DEF StoreInv, JobsOK
    <3> QED BY <3>1, <3>3 DEF StoreInv, JobsOK
  <2> QED BY <1>1, <2>1, <2>2
<1>6. instance > 0 => \A f \in disk : f.of # c
  BY <1>1, FilesOfCall
<1> QED BY <1>2, <1>4, <1>5, <1>6, QuietStep

(* A registry made anew has nothing, and nor has the directory.             *)
LEMMA NewRegistryStep ==
  ASSUME NEW c \in Call, StoreInv, look(c), materializedResourceRegistry,
         Goes(c, [job[c] EXCEPT !.at = "fetch", !.instance = instance']),
         job[c].tool # "inspect"
  PROVE  StoreInv'
<1>1. job[c].at = "look" /\ job[c] \in Doing /\ job[c].tool # "helper"
  BY DoingCall DEF look, StoreInv, JobsOK, Places, Fits
<1>2. session' = session
  BY DEF look, Aside
<1>3. c \notin Uris(registry.entries)
  BY <1>1 DEF StoreInv, RegisteredOnce, PastRegistering
<1>4. instance' \in Nat
  BY DEF materializedResourceRegistry, store, StoreInv
<1>5. JobsOK' /\ \A d \in Call : d # c => job'[d] = job[d]
  <2> DEFINE next == [job[c] EXCEPT !.at = "fetch", !.instance = instance']
  <2>1. next \in Doing /\ next.at = "fetch" /\ next.tool = job[c].tool
    BY <1>1, <1>4 DEF Doing, Places
  <2>2. job' = [job EXCEPT ![c] = next]
    BY DEF Goes
  <2> HIDE DEF next
  <2>3. next \in Jobs /\ Fits(next)
    BY <1>1, <2>1 DEF Jobs, Fits
  <2>4. /\ job' \in [Call -> Jobs] /\ job'[c] = next
        /\ \A d \in Call : d # c => job'[d] = job[d]
    BY <2>2, <2>3 DEF StoreInv, JobsOK
  <2> QED BY <2>3, <2>4 DEF StoreInv, JobsOK
<1>6. CASE open
  <2>1. UNCHANGED <<session, registry, open, instance, bindings, disk>>
    BY <1>2, <1>6 DEF materializedResourceRegistry, store
  <2>2. instance > 0 => \A f \in disk : f.of # c
    BY <1>1, FilesOfCall
  <2> QED BY <1>3, <1>5, <2>1, <2>2, QuietStep
<1>7. CASE ~open
  <2>1. /\ open' = TRUE /\ registry' = NewRegistry /\ disk' = {} /\ bindings' = bindings
    BY <1>7 DEF materializedResourceRegistry
  <2>2. bindings = {}
    BY <1>7 DEF StoreInv, BoundLinkHasFile
  <2>3. RegistryOK(registry') /\ Uris(registry'.entries) = {}
    BY <2>1, NewRegistryOK DEF NewRegistry, Uris
  <2>4. RegisteredOnce' /\ BoundLinkHasFile' /\ FilesBelong'
    BY <2>1, <2>2, <2>3 DEF RegisteredOnce, BoundLinkHasFile, FilesBelong
  <2>5. bindings' \subseteq Call /\ disk' \subseteq Files /\ open' \in BOOLEAN
    BY <2>1, <2>2
  <2>6. ~open' => registry' = NewRegistry
    BY <2>1
  <2>7. session' \in Session
    BY <1>2 DEF StoreInv
  <2> QED BY <1>4, <1>5, <2>3, <2>4, <2>5, <2>6, <2>7 DEF StoreInv
<1> QED BY <1>6, <1>7 DEF StoreInv

LEMMA LookStep ==
  ASSUME NEW c \in Call, StoreInv, look(c)
  PROVE  StoreInv'
<1>1. job[c].at = "look" /\ job[c].at \in Places /\ job[c].tool # "helper" /\ session' = session
  BY DEF look, StoreInv, JobsOK, Places, Fits, Aside
<1>2. c \notin Uris(registry.entries)
  BY <1>1 DEF StoreInv, RegisteredOnce, PastRegistering
<1>3. instance > 0 => \A f \in disk : f.of # c
  BY <1>1, FilesOfCall
<1>4. CASE job[c].tool = "inspect" /\ GoesTo(c, "fetch") /\ UNCHANGED <<heavy, store>>
  <2>1. JobsOK' /\ \A d \in Call : d # c => job'[d] = job[d]
    BY <1>1, <1>4, MovesFit, CallMoves DEF StoreInv, Places
  <2>2. UNCHANGED <<session, registry, open, instance, bindings, disk>>
    BY <1>1, <1>4 DEF store
  <2> QED BY <1>2, <1>3, <2>1, <2>2, QuietStep
<1>5. CASE /\ job[c].tool # "inspect" /\ materializedResourceRegistry
           /\ Goes(c, [job[c] EXCEPT !.at = "fetch", !.instance = instance'])
  BY <1>5, NewRegistryStep
<1>6. CASE Finally(c, disk) /\ UNCHANGED <<registry, open, instance, bindings>>
  BY <1>1, <1>3, <1>6, FinallyStep
<1> QED BY <1>4, <1>5, <1>6 DEF look

LEMMA FetchStep ==
  ASSUME NEW c \in Call, StoreInv, fetch(c)
  PROVE  StoreInv'
<1>1. job[c].at = "fetch" /\ job[c].at \in Places /\ job[c].tool \in Tools \ {"helper"}
  BY DoingCall DEF fetch, StoreInv, JobsOK, Places, Fits
<1>2. UNCHANGED <<session, registry, open, instance, bindings>>
  BY DEF fetch, Aside
<1>3. c \notin Uris(registry.entries)
  BY <1>1 DEF StoreInv, RegisteredOnce, PastRegistering
<1>4. instance > 0 => \A f \in disk : f.of # c
  BY <1>1, FilesOfCall
<1>5. CASE Finally(c, disk)
  BY <1>2, <1>4, <1>5, FinallyStep
<1>6. CASE /\ GoesTo(c, IF job[c].tool = "inspect" THEN "spawn" ELSE "stage")
           /\ UNCHANGED <<heavy, disk>>
  <2>1. JobsOK' /\ \A d \in Call : d # c => job'[d] = job[d]
    <3>1. CASE job[c].tool = "inspect"
      BY <1>1, <1>6, <3>1, MovesFit, CallMoves DEF StoreInv, Places
    <3>2. CASE job[c].tool # "inspect"
      BY <1>1, <1>6, <3>2, MovesFit, CallMoves DEF StoreInv, Places, Tools
    <3> QED BY <3>1, <3>2
  <2> QED BY <1>2, <1>3, <1>4, <1>6, <2>1, QuietStep
<1> QED BY <1>5, <1>6 DEF fetch

LEMMA StageStep ==
  ASSUME NEW c \in Call, StoreInv, stage(c)
  PROVE  StoreInv'
<1>1. /\ job[c].at = "stage" /\ job[c].at \in Places
      /\ job[c].tool \in {"download", "render"}
  BY DEF stage, StoreInv, JobsOK, Places, Fits
<1>2. /\ UNCHANGED <<session, registry, open, instance, bindings>>
      /\ GoesTo(c, "register") /\ disk' = disk \cup {LinkFile(c)}
  BY DEF stage, Aside
<1>3. c \notin Uris(registry.entries)
  BY <1>1 DEF StoreInv, RegisteredOnce, PastRegistering
<1>4. instance > 0 => \A f \in disk : f.of # c
  BY <1>1, FilesOfCall
<1>5. /\ JobsOK' /\ job'[c].at = "register"
      /\ \A d \in Call : d # c => job'[d] = job[d]
  BY <1>1, <1>2, MovesFit, CallMoves DEF StoreInv, Places
<1>6. LinkFile(c) \in Files /\ LinkFile(c).of = c /\ LinkFile(c).is = "link"
  BY DEF LinkFile, Files
<1>7. Belongs(LinkFile(c))'
  BY <1>5 DEF Belongs, LinkFile
<1>8. disk' \subseteq Files
  BY <1>2, <1>6 DEF StoreInv
<1>9. \A u \in bindings : LinkFile(u) \in disk => LinkFile(u) \in disk'
  BY <1>2
<1>10. ASSUME instance > 0, NEW f \in disk'
       PROVE  (f \in disk /\ f.of # c) \/ (f.of = c /\ Belongs(f)')
  <2>1. CASE f \in disk
    BY <1>4, <1>10, <2>1
  <2>2. CASE f = LinkFile(c)
    BY <1>6, <1>7, <2>2 DEF Belongs
  <2> QED BY <1>2, <1>10, <2>1, <2>2
<1> QED BY <1>2, <1>3, <1>5, <1>8, <1>9, <1>10, CallStep

LEMMA PrepareStep ==
  ASSUME NEW c \in Call, StoreInv, prepare(c)
  PROVE  StoreInv'
<1>1. job[c].at = "prepare" /\ job[c].at \in Places
  BY DEF prepare, Places
<1>2. UNCHANGED <<session, registry, open, instance, bindings>>
  BY DEF prepare, Aside
<1>3. c \notin Uris(registry.entries)
  BY <1>1 DEF StoreInv, RegisteredOnce, PastRegistering
<1>4. instance > 0 => \A f \in disk : f.of # c
  BY <1>1, FilesOfCall
<1>5. CASE Finally(c, disk)
  BY <1>2, <1>4, <1>5, FinallyStep
<1>6. CASE GoesTo(c, "spawn") /\ UNCHANGED <<heavy, disk>>
  <2>1. JobsOK' /\ \A d \in Call : d # c => job'[d] = job[d]
    BY <1>1, <1>6, MovesFit, CallMoves DEF StoreInv, Places
  <2> QED BY <1>2, <1>3, <1>4, <1>6, <2>1, QuietStep
<1> QED BY <1>5, <1>6 DEF prepare
LEMMA InputStep ==
  ASSUME NEW c \in Call, StoreInv, input(c)
  PROVE  StoreInv'
<1>1. job[c].at = "input" /\ job[c].at \in Places /\ job[c].tool = "render"
  BY DEF input, StoreInv, JobsOK, Places, Fits
<1>2. UNCHANGED <<session, registry, open, instance, bindings>>
  BY DEF input, Aside
<1>3. instance > 0 => \A f \in disk : f.of = c =>
        f.is = "link" /\ c \in Uris(registry.entries)
  BY <1>1, FilesOfCall
<1>4. \A u : LinkFile(u) # Input(c)
  BY DEF LinkFile, Input
<1>5. CASE Finally(c, disk \ {Input(c)})
  <2> DEFINE left == disk \ {Input(c)}
  <2>1. left \subseteq disk /\ \A u \in bindings : LinkFile(u) \in disk => LinkFile(u) \in left
    BY <1>4
  <2>2. instance > 0 => \A f \in left :
          f.of = c => f.is = "link" /\ c \in Uris(registry.entries)
    BY <1>3
  <2> HIDE DEF left
  <2>3. Finally(c, left)
    BY <1>5 DEF left
  <2> QED BY <1>2, <2>1, <2>2, <2>3, FinallyStep
<1>6. CASE disk' = disk \cup {Input(c)} /\ GoesTo(c, "spawn")
  <2>1. /\ JobsOK' /\ job'[c].at = "spawn" /\ job'[c].tool = "render"
        /\ \A d \in Call : d # c => job'[d] = job[d]
    BY <1>1, <1>6, MovesFit, CallMoves DEF StoreInv, Places
  <2>2. Input(c) \in Files /\ Input(c).of = c /\ Input(c).is = "input"
    BY DEF Input, Files
  <2>3. disk' \subseteq Files
    BY <1>6, <2>2 DEF StoreInv
  <2>4. ASSUME instance > 0, NEW f \in disk'
        PROVE  (f \in disk /\ f.of # c) \/ (f.of = c /\ Belongs(f)')
    <3>1. CASE f = Input(c)
      BY <2>1, <2>2, <3>1 DEF Belongs
    <3>2. CASE f \in disk /\ f.of = c
      <4>1. f.is = "link" /\ c \in Uris(registry.entries)
        BY <1>3, <2>4, <3>2
      <4>2. Uris(registry.entries)' = Uris(registry.entries)
        BY <1>2 DEF Uris
      <4>3. Belongs(f)'
        BY <3>2, <4>1, <4>2 DEF Belongs
      <4> QED BY <3>2, <4>3
    <3>3. CASE f \in disk /\ f.of # c
      BY <3>3
    <3> QED BY <1>6, <2>4, <3>1, <3>2, <3>3
  <2>5. PastRegistering(job'[c])
    BY <2>1 DEF PastRegistering
  <2>6. \A u \in bindings : LinkFile(u) \in disk => LinkFile(u) \in disk'
    BY <1>6
  <2> QED BY <1>2, <2>1, <2>3, <2>4, <2>5, <2>6, CallStep
<1> QED BY <1>5, <1>6 DEF input

LEMMA SpawnStep ==
  ASSUME NEW c \in Call, StoreInv, spawn(c)
  PROVE  StoreInv'
<1>1. job[c].at = "spawn" /\ job[c].at \in Places
  BY DEF spawn, Places
<1>2. UNCHANGED <<session, registry, open, instance, bindings>>
  BY DEF spawn, Aside
<1>3. ASSUME instance > 0, NEW f \in disk, f.of = c
      PROVE  \/ f.is = "link" /\ c \in Uris(registry.entries)
             \/ f = Input(c) /\ job[c].tool = "render"
  BY <1>1, <1>3, FilesOfCall
<1>4. Uris(registry.entries)' = Uris(registry.entries)
  BY <1>2 DEF Uris
<1>5. CASE job[c].tool = "render" /\ Input(c) \notin disk /\ Finally(c, disk)
  <2>1. instance > 0 => \A f \in disk :
          f.of = c => f.is = "link" /\ c \in Uris(registry.entries)
    BY <1>3, <1>5
  <2> QED BY <1>2, <1>5, <2>1, FinallyStep
<1>6. CASE /\ job[c].tool = "render" /\ disk' = disk \cup {Output(c)}
           /\ GoesTo(c, "child")
  <2>1. /\ JobsOK' /\ job'[c].at = "child" /\ job'[c].tool = "render"
        /\ \A d \in Call : d # c => job'[d] = job[d]
    BY <1>1, <1>6, MovesFit, CallMoves DEF StoreInv, Places
  <2>2. /\ Output(c) \in Files /\ Output(c).of = c /\ Output(c).is = "output"
        /\ Input(c).of = c /\ Input(c).is = "input"
    BY DEF Input, Output, Files
  <2>3. disk' \subseteq Files
    BY <1>6, <2>2 DEF StoreInv
  <2>4. ASSUME instance > 0, NEW f \in disk'
        PROVE  (f \in disk /\ f.of # c) \/ (f.of = c /\ Belongs(f)')
    <3>1. CASE f = Output(c)
      BY <2>1, <2>2, <3>1 DEF Belongs
    <3>2. CASE f \in disk /\ f.of = c
      <4>1. \/ f.is = "link" /\ c \in Uris(registry.entries)
            \/ f = Input(c)
        BY <1>3, <2>4, <3>2
      <4>2. Belongs(f)'
        BY <1>4, <2>1, <2>2, <3>2, <4>1 DEF Belongs
      <4> QED BY <3>2, <4>2
    <3>3. CASE f \in disk /\ f.of # c
      BY <3>3
    <3> QED BY <1>6, <2>4, <3>1, <3>2, <3>3
  <2>5. PastRegistering(job'[c])
    BY <2>1 DEF PastRegistering
  <2>6. \A u \in bindings : LinkFile(u) \in disk => LinkFile(u) \in disk'
    BY <1>6
  <2> QED BY <1>2, <2>1, <2>3, <2>4, <2>5, <2>6, CallStep
<1>7. CASE job[c].tool # "render" /\ GoesTo(c, "child") /\ UNCHANGED <<heavy, disk>>
  <2>1. /\ JobsOK' /\ job'[c].at = "child"
        /\ \A d \in Call : d # c => job'[d] = job[d]
    BY <1>1, <1>7, MovesFit, CallMoves DEF StoreInv, Places
  <2>2. ASSUME instance > 0, NEW f \in disk, f.of = c PROVE Belongs(f)'
    <3>1. f.is = "link" /\ f.of \in Uris(registry.entries)
      BY <1>3, <1>7, <2>2
    <3> QED BY <1>4, <3>1 DEF Belongs
  <2>3. c \notin Uris(registry.entries)
    BY <1>1, <1>7 DEF StoreInv, RegisteredOnce, PastRegistering
  <2>4. instance > 0 => \A f \in disk : f.of = c => Belongs(f)'
    BY <2>2
  <2>5. UNCHANGED disk
    BY <1>7
  <2> QED BY <1>2, <2>1, <2>3, <2>4, <2>5, QuietStep
<1> QED BY <1>5, <1>6, <1>7 DEF spawn

LEMMA ChildEndsStep ==
  ASSUME NEW c \in Call, StoreInv, childEnds(c)
  PROVE  StoreInv'
<1>1. job[c].at = "child" /\ job[c].at \in Places
  BY DEF childEnds, Places
<1>2. UNCHANGED <<session, registry, open, instance, bindings>>
  BY DEF childEnds, Aside
<1>3. ASSUME instance > 0, NEW f \in disk, f.of = c
      PROVE  \/ f.is = "link" /\ c \in Uris(registry.entries)
             \/ f \in {Input(c), Output(c)} /\ job[c].tool = "render"
  BY <1>1, <1>3, FilesOfCall
<1>4. CASE Finally(c, disk \ {Input(c), Output(c)})
  <2> DEFINE left == disk \ {Input(c), Output(c)}
  <2>1. \A u : LinkFile(u) \notin {Input(c), Output(c)}
    BY DEF LinkFile, Input, Output
  <2>2. left \subseteq disk /\ \A u \in bindings : LinkFile(u) \in disk => LinkFile(u) \in left
    BY <2>1
  <2>3. instance > 0 => \A f \in left :
          f.of = c => f.is = "link" /\ c \in Uris(registry.entries)
    BY <1>3
  <2> HIDE DEF left
  <2>4. Finally(c, left)
    BY <1>4 DEF left
  <2> QED BY <1>2, <2>2, <2>3, <2>4, FinallyStep
<1>5. CASE job[c].tool = "helper" /\ GoesTo(c, "closing") /\ UNCHANGED disk
  <2>1. /\ JobsOK' /\ job'[c].at = "closing"
        /\ \A d \in Call : d # c => job'[d] = job[d]
    BY <1>1, <1>5, MovesFit, CallMoves DEF StoreInv, Places
  <2>2. c \notin Uris(registry.entries)
    BY <1>1, <1>5 DEF StoreInv, RegisteredOnce, PastRegistering
  <2>3. instance > 0 => \A f \in disk : f.of # c
    BY <1>3, <1>5, <2>2
  <2>4. UNCHANGED disk
    BY <1>5
  <2> QED BY <1>2, <2>1, <2>2, <2>3, <2>4, QuietStep
<1> QED BY <1>4, <1>5 DEF childEnds

LEMMA ChildClosesStep ==
  ASSUME NEW c \in Call, StoreInv, childCloses(c)
  PROVE  StoreInv'
<1>1. job[c].at = "closing"
  BY DEF childCloses
<1>2. UNCHANGED <<session, registry, open, instance, bindings>> /\ Finally(c, disk)
  BY DEF childCloses, Aside
<1>3. instance > 0 => \A f \in disk : f.of # c
  BY <1>1, FilesOfCall
<1> QED BY <1>2, <1>3, FinallyStep

LEMMA RegisterStep ==
  ASSUME NEW c \in Call, StoreInv, registerDownload(c)
  PROVE  StoreInv'
<1>1. /\ job[c].at = "register" /\ job[c].at \in Places
      /\ job[c].tool \in {"download", "render"} /\ job[c].subject \in Subject
  BY DoingCall DEF registerDownload, StoreInv, JobsOK, Places, Fits
<1>2. UNCHANGED <<session, open, instance>>
  BY DEF registerDownload, Aside
<1>3. c \notin Uris(registry.entries) /\ c \notin bindings
  BY <1>1 DEF StoreInv, RegisteredOnce, BoundLinkHasFile, PastRegistering
<1>4. CASE /\ Finally(c, RemoveDirectory(c)) /\ UNCHANGED <<registry, bindings>>
  <2> DEFINE left == disk \ {LinkFile(c)}
  <2>1. \A u \in bindings : LinkFile(u) # LinkFile(c)
    BY <1>3 DEF LinkFile
  <2>2. left \subseteq disk /\ \A u \in bindings : LinkFile(u) \in disk => LinkFile(u) \in left
    BY <2>1
  <2>3. instance > 0 => \A f \in left :
          f.of = c => f.is = "link" /\ c \in Uris(registry.entries)
    BY <1>1, FilesOfCall
  <2> HIDE DEF left
  <2>4. Finally(c, left)
    BY <1>4 DEF left, RemoveDirectory
  <2> QED BY <1>2, <1>4, <2>2, <2>3, <2>4, FinallyStep
<1>5. ASSUME /\ open /\ LinkFile(c) \in disk
             /\ \E size \in 1 .. MaxReadBytes :
                  register(registry, registry', c, job[c].subject, size)
             /\ LinksGo(Uris(registry.entries) \ Uris(registry'.entries), {c})
             /\ \/ GoesTo(c, "over") /\ job[c].tool = "download"
                \/ GoesTo(c, "input") /\ job[c].tool = "render"
      PROVE  StoreInv'
  <2> DEFINE gone == Uris(registry.entries) \ Uris(registry'.entries)
  <2>1. /\ JobsOK' /\ PastRegistering(job'[c])
        /\ \A d \in Call : d # c => job'[d] = job[d]
    <3>1. CASE GoesTo(c, "over")
      BY <1>1, <3>1, MovesFit, CallMoves DEF StoreInv, Places, PastRegistering
    <3>2. CASE GoesTo(c, "input") /\ job[c].tool = "render"
      BY <1>1, <3>2, MovesFit, CallMoves DEF StoreInv, Places, PastRegistering
    <3> QED BY <1>5, <3>1, <3>2
  <2>2. PICK size \in 1 .. MaxReadBytes :
          register(registry, registry', c, job[c].subject, size)
    BY <1>5
  <2>3. RegistryOK(registry)
    BY DEF StoreInv
  <2>4. /\ RegistryOK(registry') /\ c \in Uris(registry'.entries)
        /\ Uris(registry'.entries) \subseteq Uris(registry.entries) \cup {c}
    BY <1>1, <2>2, <2>3, RegisterKeeps
  <2>5. bindings' = (bindings \ gone) \cup {c} /\ disk' = disk \ {LinkFile(u) : u \in gone}
    BY <1>5 DEF LinksGo
  <2>6. \A u, w : LinkFile(u) = LinkFile(w) => u = w
    <3>1. \A u : LinkFile(u).of = u
      BY DEF LinkFile
    <3> QED BY <3>1
  <2>7. RegisteredOnce'
    BY <2>1, <2>4 DEF StoreInv, RegisteredOnce
  <2>8. BoundLinkHasFile'
    <3> SUFFICES ASSUME NEW u \in bindings'
                 PROVE  u \in Uris(registry'.entries) /\ LinkFile(u) \in disk'
      BY <1>2, <1>5 DEF BoundLinkHasFile, Uris
    <3>1. CASE u = c
      <4>1. LinkFile(c) \notin {LinkFile(w) : w \in gone}
        BY <2>4, <2>6
      <4> QED BY <1>5, <2>4, <2>5, <3>1, <4>1
    <3>2. CASE u # c
      <4>1. u \in bindings /\ u \notin gone
        BY <2>5, <3>2
      <4>2. u \in Uris(registry.entries) /\ LinkFile(u) \in disk
        BY <4>1 DEF StoreInv, BoundLinkHasFile
      <4>3. LinkFile(u) \notin {LinkFile(w) : w \in gone}
        BY <2>6, <4>1
      <4> QED BY <2>5, <4>1, <4>2, <4>3
    <3> QED BY <3>1, <3>2
  <2>9. ASSUME instance' > 0, NEW f \in disk' PROVE Belongs(f)'
    <3>1. f \in disk /\ f \in Files /\ f.of \in Call /\ Belongs(f)
      BY <1>2, <2>5, <2>9 DEF StoreInv, FilesBelong, Files
    <3>2. CASE f.is = "link"
      <4>1. f = LinkFile(f.of)
        BY <3>1, <3>2 DEF LinkFile, Files
      <4>2. f.of \notin gone
        BY <2>5, <2>9, <4>1
      <4>3. CASE f.of = c
        BY <2>4, <3>2, <4>3 DEF Belongs, Uris
      <4>4. CASE f.of # c
        <5>1. f.of \in Uris(registry'.entries) \/ job'[f.of].at = "register"
          BY <2>1, <3>1, <3>2, <4>2, <4>4 DEF Belongs
        <5> QED BY <3>2, <5>1 DEF Belongs, Uris
      <4> QED BY <4>3, <4>4
    <3>3. CASE f.is # "link"
      <4>1. f.of # c
        BY <1>1, <3>1, <3>3 DEF Belongs
      <4>2. job'[f.of] = job[f.of]
        BY <2>1, <3>1, <4>1
      <4> QED BY <3>1, <3>3, <4>2 DEF Belongs
    <3> QED BY <3>2, <3>3
  <2>10. FilesBelong'
    BY <2>9 DEF FilesBelong
  <2>11. disk' \subseteq Files /\ bindings' \subseteq Call
    BY <2>5 DEF StoreInv
  <2>12. session' \in Session /\ open' \in BOOLEAN /\ instance' \in Nat /\ open'
    BY <1>2, <1>5 DEF StoreInv
  <2> QED BY <2>1, <2>4, <2>7, <2>8, <2>10, <2>11, <2>12 DEF StoreInv
<1>6. CASE open /\ job[c].instance = instance /\ LinkFile(c) \in disk
  BY <1>1, <1>5, <1>6 DEF registerDownload
<1>7. CASE ~(open /\ job[c].instance = instance /\ LinkFile(c) \in disk)
  BY <1>4, <1>7 DEF registerDownload
<1> QED BY <1>6, <1>7
LEMMA PruneStep ==
  ASSUME StoreInv, PruneTimer
  PROVE  StoreInv'
<1> DEFINE gone == Uris(Expired(registry))
<1>1. /\ UNCHANGED <<job, open, instance, session>> /\ open
      /\ registry' = prune(registry)
      /\ bindings' = (bindings \ gone) \cup {} /\ disk' = disk \ {LinkFile(u) : u \in gone}
  BY DEF PruneTimer, LinksGo
<1>2. RegistryOK(registry') /\ registry'.entries = registry.entries \ Expired(registry)
  BY <1>1, PruneKeeps DEF StoreInv
<1>3. /\ Uris(registry'.entries) \subseteq Uris(registry.entries)
      /\ \A u \in Uris(registry.entries) : u \notin gone => u \in Uris(registry'.entries)
  BY <1>2 DEF Uris
<1>4. \A u, w : LinkFile(u) = LinkFile(w) => u = w
  <2>1. \A u : LinkFile(u).of = u
    BY DEF LinkFile
  <2> QED BY <2>1
<1> HIDE DEF gone
<1>5. RegisteredOnce'
  BY <1>1, <1>3 DEF StoreInv, RegisteredOnce
<1>6. BoundLinkHasFile'
  <2> SUFFICES ASSUME NEW u \in bindings'
               PROVE  u \in Uris(registry'.entries) /\ LinkFile(u) \in disk'
    BY <1>1 DEF BoundLinkHasFile, Uris
  <2>1. u \in bindings /\ u \notin gone
    BY <1>1
  <2>2. u \in Uris(registry.entries) /\ LinkFile(u) \in disk
    BY <2>1 DEF StoreInv, BoundLinkHasFile
  <2>3. LinkFile(u) \notin {LinkFile(w) : w \in gone}
    BY <1>4, <2>1
  <2> QED BY <1>1, <1>3, <2>1, <2>2, <2>3
<1>7. ASSUME instance' > 0, NEW f \in disk' PROVE Belongs(f)'
  <2>1. f \in disk /\ f \in Files /\ Belongs(f)
    BY <1>1, <1>7 DEF StoreInv, FilesBelong
  <2>2. CASE f.is = "link"
    <3>1. f = LinkFile(f.of)
      BY <2>1, <2>2 DEF LinkFile, Files
    <3>2. f.of \notin gone
      BY <1>1, <1>7, <3>1
    <3>3. f.of \in Uris(registry'.entries) \/ job'[f.of].at = "register"
      BY <1>1, <1>3, <2>1, <2>2, <3>2 DEF Belongs
    <3> QED BY <2>2, <3>3 DEF Belongs, Uris
  <2>3. CASE f.is # "link"
    BY <1>1, <2>1, <2>3 DEF Belongs
  <2> QED BY <2>2, <2>3
<1>8. FilesBelong'
  BY <1>7 DEF FilesBelong
<1>9. disk' \subseteq Files /\ bindings' \subseteq Call
  BY <1>1 DEF StoreInv
<1>10. JobsOK' /\ session' \in Session /\ open' \in BOOLEAN /\ instance' \in Nat /\ open'
  BY <1>1 DEF StoreInv, JobsOK
<1> QED BY <1>2, <1>5, <1>6, <1>8, <1>9, <1>10 DEF StoreInv

LEMMA AgeStep ==
  ASSUME StoreInv, TimePasses
  PROVE  StoreInv'
<1>1. /\ UNCHANGED <<job, open, instance, bindings, disk, session>>
      /\ registry' = Age(registry)
      /\ registry.entries \ Expired(registry) # {}
  BY DEF TimePasses
<1>2. RegistryOK(registry') /\ Uris(registry'.entries) = Uris(registry.entries)
  BY <1>1, AgeKeeps DEF StoreInv
<1>3. open
  BY <1>1 DEF StoreInv, NewRegistry
<1>4. RegisteredOnce' /\ BoundLinkHasFile'
  BY <1>1, <1>2 DEF StoreInv, RegisteredOnce, BoundLinkHasFile
<1>5. FilesBelong'
  BY <1>1, <1>2 DEF StoreInv, FilesBelong, Belongs
<1>6. JobsOK' /\ session' \in Session /\ open' \in BOOLEAN /\ instance' \in Nat
  BY <1>1 DEF StoreInv, JobsOK
<1>7. disk' \subseteq Files /\ bindings' \subseteq Call
  BY <1>1 DEF StoreInv
<1> QED BY <1>1, <1>2, <1>3, <1>4, <1>5, <1>6, <1>7 DEF StoreInv

LEMMA NoLinks ==
  ASSUME registry' = NewRegistry, bindings' = {}
  PROVE  /\ RegistryOK(registry') /\ RegisteredOnce' /\ BoundLinkHasFile'
         /\ bindings' \subseteq Call
<1>1. RegistryOK(registry') /\ Uris(registry'.entries) = {}
  BY NewRegistryOK DEF NewRegistry, Uris
<1> QED BY <1>1 DEF RegisteredOnce, BoundLinkHasFile

LEMMA AccountChangeStep ==
  ASSUME StoreInv, AccountChange
  PROVE  StoreInv'
<1>1. /\ UNCHANGED <<job, session, instance>> /\ open' = FALSE
      /\ registry' = NewRegistry /\ bindings' = {}
      /\ disk' = IF open THEN {} ELSE disk
  BY DEF AccountChange, CloseRegistry
<1>2. /\ RegistryOK(registry') /\ RegisteredOnce' /\ BoundLinkHasFile'
      /\ bindings' \subseteq Call
  BY <1>1, NoLinks
<1>3. FilesBelong'
  <2>1. CASE open
    BY <1>1, <2>1 DEF FilesBelong
  <2>2. CASE ~open
    <3>1. registry' = registry /\ disk' = disk /\ job' = job /\ instance' = instance
      BY <1>1, <2>2 DEF StoreInv
    <3> QED BY <3>1 DEF StoreInv, FilesBelong, Belongs
  <2> QED BY <2>1, <2>2 DEF StoreInv
<1>4. JobsOK' /\ session' \in Session /\ open' \in BOOLEAN /\ instance' \in Nat
  BY <1>1 DEF StoreInv, JobsOK
<1>5. disk' \subseteq Files
  BY <1>1 DEF StoreInv
<1> QED BY <1>1, <1>2, <1>3, <1>4, <1>5 DEF StoreInv

LEMMA CrashStep ==
  ASSUME StoreInv, Crash
  PROVE  StoreInv'
<1>1. /\ UNCHANGED <<disk, session>> /\ open' = FALSE /\ instance' = 0
      /\ registry' = NewRegistry /\ bindings' = {}
      /\ job' = [c \in Call |-> IF job[c].at = "new" THEN NewCall ELSE [at |-> "over"]]
  BY DEF Crash
<1>2. /\ RegistryOK(registry') /\ RegisteredOnce' /\ BoundLinkHasFile'
      /\ bindings' \subseteq Call
  BY <1>1, NoLinks
<1>3. FilesBelong'
  BY <1>1 DEF FilesBelong
<1>4. JobsOK'
  <2>1. NewCall \in Jobs /\ Fits(NewCall) /\ [at |-> "over"] \in Jobs /\ Fits([at |-> "over"])
    BY DEF Jobs, NewCall, Fits
  <2> QED BY <1>1, <2>1 DEF JobsOK
<1>5. session' \in Session /\ open' \in BOOLEAN /\ instance' \in Nat /\ disk' \subseteq Files
  BY <1>1 DEF StoreInv
<1> QED BY <1>1, <1>2, <1>3, <1>4, <1>5 DEF StoreInv

(* Requests: at most a binding goes.                                        *)
LEMMA RequestStep ==
  ASSUME StoreInv, UNCHANGED <<job, registry, open, instance, disk, session>>,
         bindings' \subseteq bindings
  PROVE  StoreInv'
<1>1. JobsOK' /\ RegisteredOnce' /\ BoundLinkHasFile' /\ FilesBelong'
  BY DEF StoreInv, JobsOK, RegisteredOnce, BoundLinkHasFile, FilesBelong, Belongs
<1> QED BY <1>1 DEF StoreInv

LEMMA StoreInit == Init => StoreInv
<1> SUFFICES ASSUME Init PROVE StoreInv OBVIOUS
<1>1. NewCall \in Jobs /\ Fits(NewCall)
  BY DEF Jobs, NewCall, Fits
<1>2. JobsOK
  BY <1>1 DEF Init, JobsOK
<1>3. RegistryOK(registry) /\ Uris(registry.entries) = {}
  BY NewRegistryOK DEF Init, NewRegistry, Uris
<1> QED BY <1>2, <1>3
     DEF Init, StoreInv, RegisteredOnce, BoundLinkHasFile, FilesBelong

LEMMA StoreNext == StoreInv /\ [Next]_vars => StoreInv'
<1> SUFFICES ASSUME StoreInv, [Next]_vars PROVE StoreInv' OBVIOUS
<1>1. CASE UNCHANGED vars
  <2>1. UNCHANGED <<job, registry, open, instance, disk, session>> /\ bindings' = bindings
    BY <1>1 DEF vars
  <2> QED BY <2>1, RequestStep
<1>2. ASSUME NEW c \in Call, acquireHeavyweightLease(c) PROVE StoreInv'
  BY <1>2, AcquireStep
<1>3. ASSUME NEW c \in Call, CallGoesOn(c) PROVE StoreInv'
  BY <1>3, LookStep, FetchStep, StageStep, RegisterStep, InputStep, PrepareStep,
     SpawnStep, ChildEndsStep, ChildClosesStep DEF CallGoesOn
<1>4. ASSUME NEW r \in Request,
             \/ arrive(r) \/ authorize(r) \/ answer(r) \/ admit(r) \/ handle(r) \/ deadline(r)
             \/ \E event \in {"finish", "error", "close"} : responseEvent(r, event)
      PROVE  StoreInv'
  <2>1. UNCHANGED <<job, registry, open, instance, disk, session>>
    <3>1. Apart
      BY <1>4 DEF arrive, authorize, answer, admit, handle, deadline, responseEvent
    <3> QED BY <3>1 DEF Apart
  <2>2. bindings' \subseteq bindings
    BY <1>4 DEF arrive, authorize, answer, admit, handle, deadline, responseEvent
  <2> QED BY <2>1, <2>2, RequestStep
<1>5. CASE KeysChange
  <2>1. UNCHANGED <<job, registry, open, instance, disk, session>> /\ bindings' = bindings
    BY <1>5 DEF KeysChange, Apart
  <2> QED BY <2>1, RequestStep
<1> QED BY <1>1, <1>2, <1>3, <1>4, <1>5, PruneStep, AgeStep, AccountChangeStep,
       CrashStep DEF Next

(* What the four properties of the store rest on holds throughout: it is    *)
(* true of a fresh process, and every action leaves it true.                *)
THEOREM StoreHolds == Spec => []StoreInv
BY StoreInit, StoreNext, PTL DEF Spec

(* However calls register, and entries expire, are evicted and closed, the  *)
(* registry keeps its four limits and its count of bytes is that of its     *)
(* entries (register, removeEntry).                                         *)
THEOREM RegistryLimitsKept == Spec => []RegistryWithinLimits
<1>1. StoreInv => RegistryWithinLimits
  BY DEF StoreInv, RegistryOK, WithinLimits, RegistryWithinLimits
<1> QED BY <1>1, StoreHolds, PTL

(* A bound link has its entry and its file, whichever of sweep, eviction,   *)
(* expiry, account change and clean-up comes when.                          *)
THEOREM LinksHaveFiles == Spec => []BoundLinkHasFile
<1>1. StoreInv => BoundLinkHasFile
  BY DEF StoreInv
<1> QED BY <1>1, StoreHolds, PTL

(* Nothing is left in the directory that no entry and no call accounts for, *)
(* once the process has made a registry.                                    *)
THEOREM NothingLeftBehind == Spec => []NoOrphanFiles
<1>1. StoreInv => NoOrphanFiles
  BY DEF StoreInv, FilesBelong, Belongs, NoOrphanFiles, Working
<1> QED BY <1>1, StoreHolds, PTL
------------------------------------------------------------------------------
(* The work that holds leases. Both controllers are the same program: what  *)
(* is proved of one holds of the other.                                     *)

LEMMA SameController ==
  /\ Reads!NewController = NewController
  /\ \A ctl, w, s : /\ Reads!Acquire(ctl, w, s) = Acquire(ctl, w, s)
                    /\ Reads!Release(ctl, w, s) = Release(ctl, w, s)
                    /\ Reads!LeaseOf(w, s) = LeaseOf(w, s)
BY DEF Reads!NewController, NewController, Reads!Acquire, Acquire,
       Reads!Release, Release, Reads!LeaseOf, LeaseOf, Reads!AtLeast0, AtLeast0

LEMMA SameCount ==
  ASSUME NEW S
  PROVE  ReadSlots!Cardinality(S) = Cardinality(S) /\ HeavySlots!Cardinality(S) = Cardinality(S)
BY DEF ReadSlots!Cardinality, HeavySlots!Cardinality, Cardinality

(* Some of the leases in use, of all or of a subject, are no more than the  *)
(* counters say.                                                            *)
LEMMA HoldersCounted ==
  ASSUME NEW Work, NEW ctl, ControllerOK(ctl, Work), NEW H \in SUBSET InUse(ctl),
         NEW s \in Subject
  PROVE  LET mine == {h \in H : h.subject = s}
         IN  /\ Cardinality(H) \in Nat /\ Cardinality(H) <= ctl.activeGlobal
             /\ Cardinality(mine) \in Nat /\ Cardinality(mine) <= ctl.activeBySubject[s]
             /\ ctl.activeGlobal \in Nat /\ ctl.activeBySubject[s] \in Nat
<1> DEFINE mine == {h \in H : h.subject = s}
<1>1. /\ IsFiniteSet(InUse(ctl)) /\ ctl.activeGlobal = Cardinality(InUse(ctl))
      /\ ctl.activeBySubject[s] = Cardinality(UseOf(ctl, s))
      /\ ctl.activeGlobal \in Nat /\ ctl.activeBySubject[s] \in Nat
  BY DEF ControllerOK, CountersCount, CountersTyped
<1>2. UseOf(ctl, s) \in SUBSET InUse(ctl) /\ mine \in SUBSET UseOf(ctl, s)
  BY DEF UseOf
<1>3. IsFiniteSet(UseOf(ctl, s)) /\ IsFiniteSet(H)
  BY <1>1, <1>2, FS_Subset
<1>4. IsFiniteSet(mine) /\ Cardinality(mine) <= Cardinality(UseOf(ctl, s))
  BY <1>2, <1>3, FS_Subset
<1>5. Cardinality(H) <= Cardinality(InUse(ctl))
  BY <1>1, FS_Subset
<1> QED BY <1>1, <1>3, <1>4, <1>5, FS_CardinalityType

------------------------------------------------------------------------------
(* Responses.                                                               *)

Links  == UNION {s.links : s \in Session}
Events == {"finish", "error", "close"}
Live   == [at : {"auth", "handling", "sent", "over"}, subject : Subject, link : Links,
           ended : BOOLEAN, emitted : SUBSET Events, settled : BOOLEAN]
Responses == [at : {"new"}] \cup [at : {"over"}, link : Links] \cup Live

Reading(r) == response[r].at \in {"handling", "sent"}
Open(r) == Reading(r) /\ ~response[r].ended
ReadLease(r) == LeaseOf(r, response[r].subject)

(* A request that is not admitted has no lease, an admitted one has one,    *)
(* which is not released before its response is over.                       *)
RequestOK(r) ==
  /\ response[r].at \in {"new", "auth"} => \A l \in reads.given : l.work # r
  /\ Reading(r) => ReadLease(r) \in reads.given
  /\ Open(r) => r \notin reads.released

ReadsInv ==
  /\ response \in [Request -> Responses]
  /\ ControllerOK(reads, Request)
  /\ \A r \in Request : RequestOK(r)

LEMMA LiveResponse ==
  ASSUME NEW x \in Responses, x.at \in {"auth", "handling", "sent"}
  PROVE  x \in Live
BY DEF Responses, Live

LEMMA ResponseTurns ==
  ASSUME ReadsInv, NEW r \in Request, NEW next \in Responses, Turns(r, next)
  PROVE  /\ response' \in [Request -> Responses] /\ response'[r] = next
         /\ \A q \in Request : q # r => response'[q] = response[q]
BY DEF ReadsInv, Turns

LEMMA OpenReadsAre == OpenReads = {ReadLease(r) : r \in {r \in Request : Open(r)}}
BY SameController DEF OpenReads, ReadLease, Open, Reading

LEMMA OpenReadsInUse ==
  ASSUME ReadsInv
  PROVE  OpenReads \subseteq InUse(reads)
<1> SUFFICES ASSUME NEW r \in Request, Open(r) PROVE ReadLease(r) \in InUse(reads)
  BY OpenReadsAre
<1>1. ReadLease(r).work = r /\ ReadLease(r) \in reads.given /\ r \notin reads.released
  BY DEF ReadsInv, RequestOK, Open, ReadLease, LeaseOf
<1> QED BY <1>1 DEF InUse

(* When no more responses are open, slots are given back, if any.           *)
LEMMA ReadsGive ==
  ASSUME \A r \in Request : Open(r)' => Open(r) /\ ReadLease(r)' = ReadLease(r)
  PROVE  ReadSlots!Next
<1>1. OpenReads' = {ReadLease(r)' : r \in {r \in Request : Open(r)'}}
  BY SameController DEF OpenReads, ReadLease, Open, Reading
<1>2. OpenReads' \subseteq OpenReads
  BY <1>1, OpenReadsAre
<1>3. \E gone \in SUBSET OpenReads : OpenReads' = OpenReads \ gone
  <2>1. OpenReads' = OpenReads \ (OpenReads \ OpenReads')
    BY <1>2
  <2> QED BY <2>1
<1> QED BY <1>3 DEF ReadSlots!Next, ReadSlots!Give

(* A step of one request that leaves the controller alone.                  *)
LEMMA ReadsQuiet ==
  ASSUME ReadsInv, NEW r \in Request, NEW next \in Responses, Turns(r, next),
         reads' = reads,
         next.at \in {"new", "auth"} => response[r].at \in {"new", "auth"},
         next.at \in {"handling", "sent"} =>
           /\ Reading(r) /\ next.subject = response[r].subject
           /\ next.ended = response[r].ended
  PROVE  ReadsInv' /\ ReadSlots!Next
<1>1. /\ response' \in [Request -> Responses] /\ response'[r] = next
      /\ \A q \in Request : q # r => response'[q] = response[q]
  BY ResponseTurns
<1>2. \A q \in Request : RequestOK(q)
  BY DEF ReadsInv
<1>3. ASSUME NEW q \in Request PROVE RequestOK(q)'
  <2>1. CASE q # r
    BY <1>1, <1>2, <2>1 DEF RequestOK, Open, Reading, ReadLease
  <2>2. CASE q = r
    BY <1>1, <1>2, <2>2 DEF RequestOK, Open, Reading, ReadLease
  <2> QED BY <2>1, <2>2
<1>4. \A q \in Request : Open(q)' => Open(q) /\ ReadLease(q)' = ReadLease(q)
  BY <1>1 DEF Open, Reading, ReadLease
<1>5. ControllerOK(reads, Request)'
  BY DEF ReadsInv, ControllerOK, CountersTyped, OneLeaseEach, CountersCount, InUse, UseOf
<1> QED BY <1>1, <1>3, <1>4, <1>5, ReadsGive DEF ReadsInv

(* A response is over and its lease released, at most.                      *)
LEMMA ReadsRelease ==
  ASSUME ReadsInv, NEW r \in Request, NEW next \in Responses, Turns(r, next),
         ReadLease(r) \in reads.given,
         reads' = Release(reads, r, response[r].subject),
         response[r].at \in {"handling", "sent"}, next.at = response[r].at,
         next.subject = response[r].subject, next.ended, response[r].subject \in Subject
  PROVE  ReadsInv' /\ ReadSlots!Next
<1>1. /\ response' \in [Request -> Responses] /\ response'[r] = next
      /\ \A q \in Request : q # r => response'[q] = response[q]
  BY ResponseTurns
<1>2. \A q \in Request : RequestOK(q)
  BY DEF ReadsInv
<1> DEFINE new == Release(reads, r, response[r].subject)
<1>3. /\ ControllerOK(new, Request)
      /\ new.given = reads.given /\ new.released = reads.released \cup {r}
  BY ReleaseRemoves DEF ReadsInv, ReadLease
<1> HIDE DEF new
<1>4. /\ ControllerOK(reads', Request)
      /\ reads'.given = reads.given /\ reads'.released = reads.released \cup {r}
  BY <1>3 DEF new
<1>5. ASSUME NEW q \in Request PROVE RequestOK(q)'
  <2>1. CASE q # r
    BY <1>1, <1>2, <1>4, <2>1 DEF RequestOK, Open, Reading, ReadLease
  <2>2. CASE q = r
    BY <1>1, <1>2, <1>4, <2>2 DEF RequestOK, Open, Reading, ReadLease
  <2> QED BY <2>1, <2>2
<1>6. \A q \in Request : Open(q)' => Open(q) /\ ReadLease(q)' = ReadLease(q)
  BY <1>1 DEF Open, Reading, ReadLease
<1>7. ControllerOK(reads, Request)'
  BY <1>4
<1> QED BY <1>1, <1>5, <1>6, <1>7, ReadsGive DEF ReadsInv
(* admit: a slot is taken only when one is free.                            *)
LEMMA AdmitStep ==
  ASSUME ReadsInv, NEW r \in Request, admit(r)
  PROVE  ReadsInv' /\ (ReadSlots!Next \/ OpenReads' = OpenReads)
<1> DEFINE x == response[r]
           s == response[r].subject
<1>1. x.at = "auth" /\ x \in Responses /\ x \in Live
  BY LiveResponse DEF admit, ReadsInv
<1>2. s \in Subject /\ x.ended \in BOOLEAN
  BY <1>1 DEF Live
<1>3. \A q \in Request : RequestOK(q)
  BY DEF ReadsInv
<1>4. \A l \in reads.given : l.work # r
  BY <1>1, <1>3 DEF RequestOK
<1>5. CASE Reads!Busy(reads, s)
  <2> DEFINE next == [x EXCEPT !.at = "over"]
  <2>1. Turns(r, next) /\ reads' = reads
    BY <1>5 DEF admit
  <2>2. next \in Live /\ next.at = "over"
    BY <1>1 DEF Live
  <2>3. next \in Responses
    BY <2>2 DEF Responses
  <2> HIDE DEF next
  <2> QED BY <2>1, <2>2, <2>3, ReadsQuiet
<1>6. CASE ~Reads!Busy(reads, s)
  <2> DEFINE next == [x EXCEPT !.at = "handling", !.settled = x.ended]
             got == Acquire(reads, r, s)
  <2>1. Turns(r, next) /\ reads' = IF x.ended THEN Release(got, r, s) ELSE got
    BY <1>6, SameController DEF admit, HoldUntilResponseComplete
  <2>2. /\ next \in Live /\ next.at = "handling" /\ next.subject = s
        /\ next.ended = x.ended
    BY <1>1, <1>2 DEF Live
  <2>3. next \in Responses
    BY <2>2 DEF Responses
  <2>4. /\ ControllerOK(got, Request)
        /\ got.given = reads.given \cup {LeaseOf(r, s)} /\ got.released = reads.released
    BY <1>2, <1>4, AcquireAdds DEF ReadsInv
  <2> HIDE DEF next, got
  <2>5. /\ response' \in [Request -> Responses] /\ response'[r] = next
        /\ \A q \in Request : q # r => response'[q] = response[q]
    BY <2>1, <2>3, ResponseTurns
  <2>6. /\ ControllerOK(reads', Request) /\ reads'.given = got.given
        /\ reads'.released \subseteq reads.released \cup {r}
        /\ ~x.ended => reads'.released = reads.released
    <3>1. CASE x.ended
      <4>1. LeaseOf(r, s) \in got.given
        BY <2>4
      <4>2. /\ ControllerOK(Release(got, r, s), Request)
            /\ Release(got, r, s).given = got.given
            /\ Release(got, r, s).released = got.released \cup {r}
        BY <1>2, <2>4, <4>1, ReleaseRemoves
      <4> QED BY <2>1, <2>4, <3>1, <4>2
    <3>2. CASE ~x.ended
      BY <2>1, <2>4, <3>2
    <3> QED BY <3>1, <3>2
  <2>7. r \notin reads.released
    BY <1>4 DEF ReadsInv, ControllerOK, OneLeaseEach
  <2>8. LeaseOf(r, s).work = r
    BY DEF LeaseOf
  <2>9. ASSUME NEW q \in Request PROVE RequestOK(q)'
    <3>1. CASE q # r
      <4>1. RequestOK(q)
        BY <1>3
      <4>2. \A l \in reads'.given : l \in reads.given \/ l.work # q
        BY <2>4, <2>6, <2>8, <3>1
      <4>3. q \notin reads.released => q \notin reads'.released
        BY <2>6, <3>1
      <4>4. reads.given \subseteq reads'.given
        BY <2>4, <2>6
      <4> QED BY <2>5, <3>1, <4>1, <4>2, <4>3, <4>4 DEF RequestOK, Open, Reading, ReadLease
    <3>2. CASE q = r
      BY <2>2, <2>4, <2>5, <2>6, <2>7, <3>2 DEF RequestOK, Open, Reading, ReadLease
    <3> QED BY <3>1, <3>2
  <2>10. ReadsInv'
    <3>1. ControllerOK(reads, Request)'
      BY <2>6
    <3> QED BY <2>5, <2>9, <3>1 DEF ReadsInv
  <2>11. \A q \in Request : q # r => (Open(q)' <=> Open(q)) /\ ReadLease(q)' = ReadLease(q)
    BY <2>5 DEF Open, Reading, ReadLease
  <2>12. ~Open(r)
    BY <1>1 DEF Open, Reading
  <2>13. (Open(r)' <=> ~x.ended) /\ ReadLease(r)' = LeaseOf(r, s)
    BY <2>2, <2>5 DEF Open, Reading, ReadLease
  <2>14. OpenReads' = {ReadLease(q)' : q \in {q \in Request : Open(q)'}}
    BY SameController DEF OpenReads, ReadLease, Open, Reading
  <2>15. CASE x.ended
    <3>1. \A q \in Request : Open(q)' => Open(q) /\ ReadLease(q)' = ReadLease(q)
      BY <2>11, <2>13, <2>15
    <3> QED BY <2>10, <3>1, ReadsGive
  <2>16. CASE ~x.ended
    <3>1. OpenReads' = OpenReads \cup {[work |-> r, subject |-> s]}
      BY <2>11, <2>12, <2>13, <2>14, <2>16, OpenReadsAre DEF LeaseOf
    <3>2. \A h \in OpenReads : h.work # r
      BY <1>4, OpenReadsInUse DEF InUse
    <3>3. /\ Cardinality(OpenReads) < MaxReads
          /\ Cardinality({h \in OpenReads : h.subject = s}) < MaxReadsPerSubject
      <4>1. OpenReads \in SUBSET InUse(reads) /\ ControllerOK(reads, Request)
        BY OpenReadsInUse DEF ReadsInv
      <4>2. reads.activeGlobal < MaxReads /\ reads.activeBySubject[s] < MaxReadsPerSubject
        <5>1. reads.activeGlobal \in Nat /\ reads.activeBySubject[s] \in Nat
          BY <1>2, <4>1, HoldersCounted
        <5> QED BY <1>6, <5>1, ReadLimitsAssumption DEF Reads!Busy
      <4> QED BY <1>2, <4>1, <4>2, HoldersCounted, ReadLimitsAssumption
    <3>4. ReadSlots!Take(r, s)
      BY <3>1, <3>2, <3>3, SameCount DEF ReadSlots!Take, ReadSlots!HeldBy
    <3> QED BY <1>2, <2>10, <3>4 DEF ReadSlots!Next
  <2> QED BY <1>2, <2>15, <2>16
<1> QED BY <1>5, <1>6

LEMMA ReadsFrame ==
  ASSUME ReadsInv, UNCHANGED <<reads, response>>
  PROVE  ReadsInv' /\ OpenReads' = OpenReads
<1>1. ControllerOK(reads, Request)'
  BY DEF ReadsInv, ControllerOK, CountersTyped, OneLeaseEach, CountersCount, InUse, UseOf
<1>2. (\A r \in Request : RequestOK(r))'
  BY DEF ReadsInv, RequestOK, Open, Reading, ReadLease
<1> QED BY <1>1, <1>2 DEF ReadsInv, OpenReads

LEMMA ReadsCrash ==
  ASSUME ReadsInv, Crash
  PROVE  ReadsInv' /\ ReadSlots!Next
<1>1. /\ reads' = NewController
      /\ response' = [r \in Request |->
           IF response[r].at = "new" \/ response[r].link = 0 THEN NewRequest
           ELSE [at |-> "over", link |-> response[r].link]]
  BY SameController DEF Crash
<1>2. \A r \in Request : response[r] \in Responses
  BY DEF ReadsInv
<1>3. \A r \in Request :
        IF response[r].at = "new" \/ response[r].link = 0 THEN response'[r] = NewRequest
        ELSE response'[r] = [at |-> "over", link |-> response[r].link]
  BY <1>1
<1>4. \A r \in Request : response[r].at # "new" => response[r].link \in Links
  BY <1>2 DEF Responses, Live
<1>5. \A r \in Request : response'[r] \in Responses /\ response'[r].at \in {"new", "over"}
  <2> SUFFICES ASSUME NEW r \in Request
               PROVE  response'[r] \in Responses /\ response'[r].at \in {"new", "over"}
    OBVIOUS
  <2>1. CASE response'[r] = NewRequest
    BY <2>1 DEF Responses, NewRequest
  <2>2. CASE response'[r] = [at |-> "over", link |-> response[r].link] /\ response[r].at # "new"
    <3>1. response[r].link \in Links
      BY <1>4, <2>2
    <3> QED BY <2>2, <3>1 DEF Responses
  <2> QED BY <1>3, <2>1, <2>2
<1>6. response' \in [Request -> Responses]
  BY <1>1, <1>5
<1>7. ControllerOK(reads', Request) /\ reads'.given = {}
  BY <1>1, NewControllerOK DEF NewController
<1>8. ControllerOK(reads, Request)'
  BY <1>7
<1>9. \A r \in Request : RequestOK(r)'
  BY <1>5, <1>7 DEF RequestOK, Open, Reading
<1>10. \A r \in Request : Open(r)' => Open(r) /\ ReadLease(r)' = ReadLease(r)
  BY <1>5 DEF Open, Reading
<1> QED BY <1>6, <1>8, <1>9, <1>10, ReadsGive DEF ReadsInv

LEMMA ArriveStep ==
  ASSUME ReadsInv, session \in Session, NEW r \in Request, arrive(r)
  PROVE  ReadsInv' /\ ReadSlots!Next
<1>1. PICK u \in session.links :
        Turns(r, [at |-> "auth", subject |-> session.requests[r], link |-> u,
                  ended |-> FALSE, emitted |-> {}, settled |-> FALSE])
  BY DEF arrive
<1>2. response[r].at = "new" /\ reads' = reads /\ session.requests[r] \in Subject
  BY SessionAssumption DEF arrive
<1> DEFINE next == [at |-> "auth", subject |-> session.requests[r], link |-> u,
                    ended |-> FALSE, emitted |-> {}, settled |-> FALSE]
<1>3. u \in Links
  BY DEF Links
<1>4. next \in Live
  BY <1>2, <1>3 DEF Live
<1>5. next.at = "auth"
  OBVIOUS
<1>6. Turns(r, next)
  BY <1>1
<1> HIDE DEF next
<1>7. next \in Responses
  BY <1>4 DEF Responses
<1> QED BY <1>2, <1>5, <1>6, <1>7, ReadsQuiet

LEMMA AnswerStep ==
  ASSUME ReadsInv, NEW r \in Request, answer(r)
  PROVE  ReadsInv' /\ ReadSlots!Next
<1>1. response[r].at = "auth" /\ response[r] \in Live /\ reads' = reads
  BY LiveResponse DEF answer, ReadsInv
<1> DEFINE next == IF response[r].link = 0 THEN NewRequest
                   ELSE [response[r] EXCEPT !.at = "over"]
<1>2. next \in Responses /\ next.at \in {"new", "over"}
  <2>1. NewRequest \in Responses /\ NewRequest.at = "new"
    BY DEF NewRequest, Responses
  <2>2. [response[r] EXCEPT !.at = "over"] \in Live /\ [response[r] EXCEPT !.at = "over"].at = "over"
    BY <1>1 DEF Live
  <2> QED BY <2>1, <2>2 DEF Responses
<1>3. Turns(r, next)
  BY DEF answer
<1> HIDE DEF next
<1> QED BY <1>1, <1>2, <1>3, ReadsQuiet

LEMMA HandleStep ==
  ASSUME ReadsInv, NEW r \in Request, handle(r)
  PROVE  ReadsInv' /\ ReadSlots!Next
<1>1. response[r].at = "handling" /\ response[r] \in Live /\ reads' = reads
  BY LiveResponse DEF handle, ReadsInv
<1> DEFINE next == [response[r] EXCEPT !.at = "sent"]
<1>2. /\ next \in Live /\ next.at = "sent" /\ next.subject = response[r].subject
      /\ next.ended = response[r].ended
  BY <1>1 DEF Live
<1>3. Turns(r, next)
  BY DEF handle
<1> HIDE DEF next
<1>4. next \in Responses
  BY <1>2 DEF Responses
<1>5. Reading(r)
  BY <1>1 DEF Reading
<1> QED BY <1>1, <1>2, <1>3, <1>4, <1>5, ReadsQuiet

LEMMA DeadlineStep ==
  ASSUME ReadsInv, NEW r \in Request, deadline(r)
  PROVE  ReadsInv' /\ ReadSlots!Next
<1>1. /\ response[r].at \in {"handling", "sent"} /\ response[r] \in Live
      /\ reads' = Release(reads, r, response[r].subject)
  BY LiveResponse, SameController DEF deadline, ReadsInv
<1> DEFINE next == [response[r] EXCEPT !.ended = TRUE, !.settled = TRUE]
<1>2. /\ next \in Live /\ next.at = response[r].at /\ next.subject = response[r].subject
      /\ next.ended /\ response[r].subject \in Subject
  BY <1>1 DEF Live
<1>3. Turns(r, next)
  BY DEF deadline
<1> HIDE DEF next
<1>4. next \in Responses
  BY <1>2 DEF Responses
<1>5. ReadLease(r) \in reads.given
  BY <1>1 DEF ReadsInv, RequestOK, Reading
<1> QED BY <1>1, <1>2, <1>3, <1>4, <1>5, ReadsRelease

LEMMA EventStep ==
  ASSUME ReadsInv, NEW r \in Request, NEW event \in Events, responseEvent(r, event)
  PROVE  ReadsInv' /\ ReadSlots!Next
<1>1. /\ response[r].at \in {"auth", "handling", "sent"} /\ response[r] \in Live
      /\ IF ReadLease(r) \in reads.given
         THEN reads' = Release(reads, r, response[r].subject) ELSE reads' = reads
  BY LiveResponse, SameController DEF responseEvent, ReadsInv, ReadLease
<1> DEFINE more == response[r].emitted \cup {event}
           next == [response[r] EXCEPT !.ended = TRUE, !.settled = TRUE, !.emitted = more]
<1>2. more \in SUBSET Events
  BY <1>1 DEF Live
<1>3. Turns(r, next)
  BY DEF responseEvent
<1> HIDE DEF more
<1>4. /\ next \in Live /\ next.at = response[r].at /\ next.subject = response[r].subject
      /\ next.ended /\ response[r].subject \in Subject
  BY <1>1, <1>2 DEF Live
<1> HIDE DEF next
<1>5. next \in Responses
  BY <1>4 DEF Responses
<1>6. RequestOK(r) /\ ReadLease(r).work = r
  BY DEF ReadsInv, ReadLease, LeaseOf
<1>7. CASE response[r].at = "auth"
  <2>1. reads' = reads
    BY <1>1, <1>6, <1>7 DEF RequestOK
  <2> QED BY <1>3, <1>4, <1>5, <1>7, <2>1, ReadsQuiet
<1>8. CASE response[r].at \in {"handling", "sent"}
  <2>1. ReadLease(r) \in reads.given
    BY <1>6, <1>8 DEF RequestOK, Reading
  <2> QED BY <1>1, <1>3, <1>4, <1>5, <1>8, <2>1, ReadsRelease
<1> QED BY <1>1, <1>7, <1>8
------------------------------------------------------------------------------
(* Document work.                                                           *)

WorkLease(c) == LeaseOf(c, job[c].subject)

(* A call that has not begun has no lease, one that goes on has one, which  *)
(* is not released while it works.                                          *)
CallOK(c) ==
  /\ job[c].at = "new" => \A l \in heavy.given : l.work # c
  /\ job[c].at \in Places => WorkLease(c) \in heavy.given
  /\ Working(c) => c \notin heavy.released

HeavyInv == ControllerOK(heavy, Call) /\ \A c \in Call : CallOK(c)

LEMMA HeavyWorkInUse ==
  ASSUME HeavyInv
  PROVE  HeavyWork \subseteq InUse(heavy)
<1> SUFFICES ASSUME NEW c \in Call, Working(c) PROVE WorkLease(c) \in InUse(heavy)
  BY DEF HeavyWork, WorkLease
<1>1. CallOK(c) /\ job[c].at \in Places
  BY DEF HeavyInv, Working, Places
<1>2. WorkLease(c).work = c /\ WorkLease(c) \in heavy.given /\ c \notin heavy.released
  BY <1>1 DEF CallOK, WorkLease, LeaseOf
<1> QED BY <1>2 DEF InUse

(* When no more calls work, slots are given back, if any.                   *)
LEMMA HeavyGives ==
  ASSUME \A c \in Call : Working(c)' => Working(c) /\ WorkLease(c)' = WorkLease(c)
  PROVE  HeavySlots!Next
<1>1. /\ HeavyWork' = {WorkLease(c)' : c \in {c \in Call : Working(c)'}}
      /\ HeavyWork = {WorkLease(c) : c \in {c \in Call : Working(c)}}
  BY DEF HeavyWork, WorkLease
<1>2. HeavyWork' \subseteq HeavyWork
  BY <1>1
<1>3. \E gone \in SUBSET HeavyWork : HeavyWork' = HeavyWork \ gone
  <2>1. HeavyWork' = HeavyWork \ (HeavyWork \ HeavyWork')
    BY <1>2
  <2> QED BY <2>1
<1> QED BY <1>3 DEF HeavySlots!Next, HeavySlots!Give

(* A call begins: a slot is taken only when one is free.                    *)
LEMMA HeavyAcquire ==
  ASSUME JobsOK, session \in Session, HeavyInv, NEW c \in Call, acquireHeavyweightLease(c)
  PROVE  HeavyInv' /\ HeavySlots!Next
<1>1. PICK use \in session.tools :
        /\ job[c].at = "new"
        /\ IF Busy(heavy, use[1])
           THEN Goes(c, [at |-> "over"]) /\ heavy' = heavy
           ELSE /\ heavy' = Acquire(heavy, c, use[1])
                /\ Goes(c, [at |-> IF use[2] = "helper" THEN "prepare" ELSE "look",
                            tool |-> use[2], subject |-> use[1], instance |-> 0])
  BY DEF acquireHeavyweightLease
<1> DEFINE s == use[1]
<1>2. s \in Subject
  BY SessionAssumption
<1>3. \A d \in Call : CallOK(d)
  BY DEF HeavyInv
<1>4. CASE Busy(heavy, s)
  <2>1. /\ job'[c].at = "over" /\ heavy' = heavy
        /\ \A d \in Call : d # c => job'[d] = job[d]
    BY <1>1, <1>4, CallEnds
  <2>2. ASSUME NEW d \in Call PROVE CallOK(d)'
    <3>1. CASE d # c
      BY <1>3, <2>1, <3>1 DEF CallOK, Working, WorkLease
    <3>2. CASE d = c
      BY <2>1, <3>2 DEF CallOK, Working, Places
    <3> QED BY <3>1, <3>2
  <2>3. ControllerOK(heavy, Call)'
    BY <2>1 DEF HeavyInv, ControllerOK, CountersTyped, OneLeaseEach, CountersCount,
                InUse, UseOf
  <2>4. \A d \in Call : Working(d)' => Working(d) /\ WorkLease(d)' = WorkLease(d)
    BY <2>1 DEF Working, WorkLease
  <2> QED BY <2>2, <2>3, <2>4, HeavyGives DEF HeavyInv
<1>5. CASE ~Busy(heavy, s)
  <2> DEFINE next == [at |-> IF use[2] = "helper" THEN "prepare" ELSE "look",
                      tool |-> use[2], subject |-> use[1], instance |-> 0]
  <2>1. heavy' = Acquire(heavy, c, s) /\ job' = [job EXCEPT ![c] = next]
    BY <1>1, <1>5 DEF Goes
  <2>2. next.at \in {"prepare", "look"} /\ next.subject = s
    OBVIOUS
  <2> HIDE DEF next
  <2>3. /\ job'[c].at \in {"prepare", "look"} /\ job'[c].subject = s
        /\ \A d \in Call : d # c => job'[d] = job[d]
    BY <2>1, <2>2 DEF JobsOK
  <2>4. \A l \in heavy.given : l.work # c
    BY <1>1, <1>3 DEF CallOK
  <2>5. /\ ControllerOK(heavy', Call)
        /\ heavy'.given = heavy.given \cup {LeaseOf(c, s)} /\ heavy'.released = heavy.released
    BY <1>2, <2>1, <2>4, AcquireAdds DEF HeavyInv
  <2>6. c \notin heavy.released
    BY <2>4 DEF HeavyInv, ControllerOK, OneLeaseEach
  <2>7. LeaseOf(c, s).work = c
    BY DEF LeaseOf
  <2>8. ASSUME NEW d \in Call PROVE CallOK(d)'
    <3>1. CASE d # c
      BY <1>3, <2>3, <2>5, <2>7, <3>1 DEF CallOK, Working, WorkLease
    <3>2. CASE d = c
      BY <2>3, <2>5, <2>6, <3>2 DEF CallOK, Working, WorkLease
    <3> QED BY <3>1, <3>2
  <2>9. HeavyInv'
    <3>1. ControllerOK(heavy, Call)'
      BY <2>5
    <3> QED BY <2>8, <3>1 DEF HeavyInv
  <2>10. /\ ~Working(c) /\ Working(c)' /\ WorkLease(c)' = LeaseOf(c, s)
         /\ \A d \in Call : d # c => (Working(d)' <=> Working(d)) /\ WorkLease(d)' = WorkLease(d)
    BY <1>1, <2>3 DEF Working, WorkLease
  <2>11. /\ HeavyWork' = {WorkLease(d)' : d \in {d \in Call : Working(d)'}}
         /\ HeavyWork = {WorkLease(d) : d \in {d \in Call : Working(d)}}
    BY DEF HeavyWork, WorkLease
  <2>12. HeavyWork' = HeavyWork \cup {[work |-> c, subject |-> s]}
    BY <2>10, <2>11 DEF LeaseOf
  <2>13. \A h \in HeavyWork : h.work # c
    BY <2>4, HeavyWorkInUse DEF InUse
  <2>14. /\ Cardinality(HeavyWork) < MaxGlobal
         /\ Cardinality({h \in HeavyWork : h.subject = s}) < MaxPerSubject
    <3>1. HeavyWork \in SUBSET InUse(heavy) /\ ControllerOK(heavy, Call)
      BY HeavyWorkInUse DEF HeavyInv
    <3>2. heavy.activeGlobal < MaxGlobal /\ heavy.activeBySubject[s] < MaxPerSubject
      <4>1. heavy.activeGlobal \in Nat /\ heavy.activeBySubject[s] \in Nat
        BY <1>2, <3>1, HoldersCounted
      <4> QED BY <1>5, <4>1, LimitsAssumption DEF Busy
    <3>3. MaxGlobal \in Int /\ MaxPerSubject \in Int
      BY LimitsAssumption
    <3>4. /\ Cardinality(HeavyWork) \in Nat
          /\ Cardinality(HeavyWork) <= heavy.activeGlobal
          /\ Cardinality({h \in HeavyWork : h.subject = s}) \in Nat
          /\ Cardinality({h \in HeavyWork : h.subject = s}) <= heavy.activeBySubject[s]
          /\ heavy.activeGlobal \in Nat /\ heavy.activeBySubject[s] \in Nat
      BY <1>2, <3>1, HoldersCounted
    <3> QED BY <3>2, <3>3, <3>4
  <2>15. HeavySlots!Take(c, s)
    BY <2>12, <2>13, <2>14, SameCount DEF HeavySlots!Take, HeavySlots!HeldBy
  <2> QED BY <1>2, <2>9, <2>15 DEF HeavySlots!Next
<1> QED BY <1>4, <1>5

(* A call goes on under its lease, which it may release when it works no    *)
(* longer.                                                                  *)
LEMMA HeavyKeeps ==
  ASSUME HeavyInv, NEW c \in Call, job[c].at \in Places,
         job[c].subject \in Subject,
         \A d \in Call : d # c => job'[d] = job[d],
         job'[c].at # "new", job'[c].at \in Places => job'[c].subject = job[c].subject,
         \/ heavy' = heavy /\ (Working(c)' => Working(c))
         \/ heavy' = Release(heavy, c, job[c].subject) /\ ~Working(c)'
  PROVE  HeavyInv' /\ HeavySlots!Next
<1>1. \A d \in Call : CallOK(d)
  BY DEF HeavyInv
<1>2. WorkLease(c) \in heavy.given
  BY <1>1 DEF CallOK
<1> DEFINE new == Release(heavy, c, job[c].subject)
<1>3. /\ ControllerOK(new, Call)
      /\ new.given = heavy.given /\ new.released = heavy.released \cup {c}
  BY <1>2, ReleaseRemoves DEF HeavyInv, WorkLease
<1> HIDE DEF new
<1>4. /\ ControllerOK(heavy', Call) /\ heavy'.given = heavy.given
      /\ heavy'.released \subseteq heavy.released \cup {c}
      /\ Working(c)' => Working(c) /\ heavy'.released = heavy.released
  BY <1>3 DEF HeavyInv, new
<1>5. ASSUME NEW d \in Call PROVE CallOK(d)'
  <2>1. CASE d # c
    BY <1>1, <1>4, <2>1 DEF CallOK, Working, WorkLease
  <2>2. CASE d = c
    <3>1. Working(d)' => d \notin heavy'.released
      BY <1>1, <1>4, <2>2 DEF CallOK
    <3>2. job'[d].at \in Places => WorkLease(d)' \in heavy'.given
      BY <1>2, <1>4, <2>2 DEF WorkLease
    <3> QED BY <2>2, <3>1, <3>2 DEF CallOK
  <2> QED BY <2>1, <2>2
<1>6. HeavyInv'
  <2>1. ControllerOK(heavy, Call)'
    BY <1>4
  <2> QED BY <1>5, <2>1 DEF HeavyInv
<1>7. ASSUME NEW d \in Call, Working(d)' PROVE Working(d) /\ WorkLease(d)' = WorkLease(d)
  <2>1. CASE d # c
    BY <1>7, <2>1 DEF Working, WorkLease
  <2>2. CASE d = c
    <3>1. Working(d) /\ job'[d].at \in Places
      BY <1>4, <1>7, <2>2 DEF Working, Places
    <3> QED BY <2>2, <3>1 DEF WorkLease
  <2> QED BY <2>1, <2>2
<1> QED BY <1>6, <1>7, HeavyGives

LEMMA HeavyFinally ==
  ASSUME JobsOK, HeavyInv, NEW c \in Call, job[c].at \in Places, NEW left, Finally(c, left)
  PROVE  HeavyInv' /\ HeavySlots!Next
<1>1. /\ job'[c].at = "over" /\ heavy' = Release(heavy, c, job[c].subject)
      /\ \A d \in Call : d # c => job'[d] = job[d]
  BY CallEnds DEF Finally
<1>2. job[c].subject \in Subject
  BY DoingCall DEF JobsOK
<1>3. ~Working(c)' /\ job'[c].at \notin Places
  BY <1>1 DEF Working, Places
<1> QED BY <1>1, <1>2, <1>3, HeavyKeeps

LEMMA HeavyMoves ==
  ASSUME JobsOK, HeavyInv, NEW c \in Call, Working(c), NEW at \in Places \cup {"over"},
         GoesTo(c, at),
         heavy' = heavy \/ (heavy' = Release(heavy, c, job[c].subject) /\ at \in {"over", "closing"})
  PROVE  HeavyInv' /\ HeavySlots!Next
<1>1. job[c].at \in Places
  BY DEF Working, Places
<1>2. /\ job'[c].at = at /\ job'[c].subject = job[c].subject
      /\ \A d \in Call : d # c => job'[d] = job[d]
  BY <1>1, CallMoves
<1>3. job[c].subject \in Subject
  BY <1>1, DoingCall DEF JobsOK
<1>4. at # "new"
  BY DEF Places
<1>5. at \in {"over", "closing"} => ~Working(c)'
  BY <1>2 DEF Working
<1> QED BY <1>1, <1>2, <1>3, <1>4, <1>5, HeavyKeeps
(* The steps of a call.                                                     *)
LEMMA HeavyCall ==
  ASSUME StoreInv, HeavyInv, NEW c \in Call, CallGoesOn(c)
  PROVE  HeavyInv' /\ HeavySlots!Next
<1>1. JobsOK
  BY DEF StoreInv
<1>2. CASE look(c)
  <2>1. job[c].at = "look" /\ Working(c) /\ job[c].at \in Places
    BY <1>2 DEF look, Working, Places
  <2>2. CASE GoesTo(c, "fetch") /\ UNCHANGED <<heavy, store>>
    BY <1>1, <2>1, <2>2, HeavyMoves DEF Places
  <2>3. CASE /\ materializedResourceRegistry /\ UNCHANGED heavy
             /\ Goes(c, [job[c] EXCEPT !.at = "fetch", !.instance = instance'])
    <3> DEFINE next == [job[c] EXCEPT !.at = "fetch", !.instance = instance']
    <3>1. job[c] \in Doing
      BY <1>1, <2>1, DoingCall DEF JobsOK
    <3>2. next.at = "fetch" /\ next.subject = job[c].subject /\ job[c].subject \in Subject
      BY <3>1 DEF Doing
    <3>3. job' = [job EXCEPT ![c] = next] /\ heavy' = heavy
      BY <2>3 DEF Goes
    <3> HIDE DEF next
    <3>4. /\ job'[c].at = "fetch" /\ job'[c].subject = job[c].subject
          /\ \A d \in Call : d # c => job'[d] = job[d]
      BY <1>1, <3>2, <3>3 DEF JobsOK
    <3> QED BY <2>1, <3>2, <3>3, <3>4, HeavyKeeps
  <2>4. CASE Finally(c, disk)
    BY <1>1, <2>1, <2>4, HeavyFinally
  <2> QED BY <1>2, <2>2, <2>3, <2>4 DEF look
<1>3. CASE fetch(c)
  <2>1. Working(c) /\ job[c].at \in Places
    BY <1>3 DEF fetch, Working, Places
  <2>2. CASE Finally(c, disk)
    BY <1>1, <2>1, <2>2, HeavyFinally
  <2>3. CASE GoesTo(c, IF job[c].tool = "inspect" THEN "spawn" ELSE "stage") /\ heavy' = heavy
    <3>1. (IF job[c].tool = "inspect" THEN "spawn" ELSE "stage") \in Places \cup {"over"}
      BY DEF Places
    <3> QED BY <1>1, <2>1, <2>3, <3>1, HeavyMoves
  <2> QED BY <1>3, <2>2, <2>3 DEF fetch
<1>4. CASE stage(c)
  <2>1. Working(c) /\ job[c].at \in Places /\ GoesTo(c, "register") /\ heavy' = heavy
    BY <1>4 DEF stage, Working, Places
  <2> QED BY <1>1, <2>1, HeavyMoves DEF Places
<1>5. CASE registerDownload(c)
  <2>1. Working(c) /\ job[c].at \in Places
    BY <1>5 DEF registerDownload, Working, Places
  <2>2. CASE heavy' = Release(heavy, c, job[c].subject) /\ GoesTo(c, "over")
    BY <1>1, <2>1, <2>2, HeavyMoves
  <2>3. CASE GoesTo(c, "input") /\ heavy' = heavy
    BY <1>1, <2>1, <2>3, HeavyMoves DEF Places
  <2>4. CASE Finally(c, RemoveDirectory(c))
    BY <1>1, <2>1, <2>4, HeavyFinally
  <2> QED BY <1>5, <2>2, <2>3, <2>4 DEF registerDownload
<1>6. CASE input(c)
  <2>1. Working(c) /\ job[c].at \in Places
    BY <1>6 DEF input, Working, Places
  <2>2. CASE GoesTo(c, "spawn") /\ heavy' = heavy
    BY <1>1, <2>1, <2>2, HeavyMoves DEF Places
  <2>3. CASE Finally(c, disk \ {Input(c)})
    BY <1>1, <2>1, <2>3, HeavyFinally
  <2> QED BY <1>6, <2>2, <2>3 DEF input
<1>7. CASE prepare(c)
  <2>1. Working(c) /\ job[c].at \in Places
    BY <1>7 DEF prepare, Working, Places
  <2>2. CASE GoesTo(c, "spawn") /\ heavy' = heavy
    BY <1>1, <2>1, <2>2, HeavyMoves DEF Places
  <2>3. CASE Finally(c, disk)
    BY <1>1, <2>1, <2>3, HeavyFinally
  <2> QED BY <1>7, <2>2, <2>3 DEF prepare
<1>8. CASE spawn(c)
  <2>1. Working(c) /\ job[c].at \in Places
    BY <1>8 DEF spawn, Working, Places
  <2>2. CASE GoesTo(c, "child") /\ heavy' = heavy
    BY <1>1, <2>1, <2>2, HeavyMoves DEF Places
  <2>3. CASE Finally(c, disk)
    BY <1>1, <2>1, <2>3, HeavyFinally
  <2> QED BY <1>8, <2>2, <2>3 DEF spawn
<1>9. CASE childEnds(c)
  <2>1. Working(c) /\ job[c].at \in Places
    BY <1>9 DEF childEnds, Working, Places
  <2>2. CASE Finally(c, disk \ {Input(c), Output(c)})
    BY <1>1, <2>1, <2>2, HeavyFinally
  <2>3. CASE heavy' = Release(heavy, c, job[c].subject) /\ GoesTo(c, "closing")
    BY <1>1, <2>1, <2>3, HeavyMoves DEF Places
  <2> QED BY <1>9, <2>2, <2>3 DEF childEnds
<1>10. CASE childCloses(c)
  <2>1. job[c].at \in Places /\ Finally(c, disk)
    BY <1>10 DEF childCloses, Places
  <2> QED BY <1>1, <2>1, HeavyFinally
<1> QED BY <1>2, <1>3, <1>4, <1>5, <1>6, <1>7, <1>8, <1>9, <1>10 DEF CallGoesOn

LEMMA HeavyFrame ==
  ASSUME HeavyInv, UNCHANGED <<heavy, job>>
  PROVE  HeavyInv' /\ HeavyWork' = HeavyWork
<1>1. ControllerOK(heavy, Call)'
  BY DEF HeavyInv, ControllerOK, CountersTyped, OneLeaseEach, CountersCount, InUse, UseOf
<1>2. (\A c \in Call : CallOK(c))'
  BY DEF HeavyInv, CallOK, WorkLease, Working
<1>3. HeavyWork' = HeavyWork
  BY DEF HeavyWork, Working
<1> QED BY <1>1, <1>2, <1>3 DEF HeavyInv

LEMMA HeavyCrash ==
  ASSUME HeavyInv, Crash
  PROVE  HeavyInv' /\ HeavySlots!Next
<1>1. /\ heavy' = NewController
      /\ job' = [c \in Call |-> IF job[c].at = "new" THEN NewCall ELSE [at |-> "over"]]
  BY DEF Crash
<1>2. \A c \in Call : job'[c].at \in {"new", "over"}
  BY <1>1 DEF NewCall
<1>3. ControllerOK(heavy', Call) /\ heavy'.given = {}
  BY <1>1, NewControllerOK DEF NewController
<1>4. ControllerOK(heavy, Call)'
  BY <1>3
<1>5. \A c \in Call : CallOK(c)' /\ ~Working(c)'
  BY <1>2, <1>3 DEF CallOK, Working, Places
<1> QED BY <1>4, <1>5, HeavyGives DEF HeavyInv

SlotsInv == StoreInv /\ ReadsInv /\ HeavyInv

LEMMA SlotsInit == Init => SlotsInv /\ ReadSlots!Init /\ HeavySlots!Init
<1> SUFFICES ASSUME Init PROVE SlotsInv /\ ReadSlots!Init /\ HeavySlots!Init
  OBVIOUS
<1>1. /\ reads = NewController /\ heavy = NewController
      /\ response = [r \in Request |-> NewRequest] /\ job = [c \in Call |-> NewCall]
  BY SameController DEF Init
<1>2. NewController.given = {} /\ NewRequest.at = "new" /\ NewCall.at = "new"
  BY DEF NewController, NewRequest, NewCall
<1>3. /\ \A r \in Request : response[r] = NewRequest
      /\ \A c \in Call : job[c] = NewCall
  BY <1>1
<1>4. ReadsInv
  <2>1. NewRequest \in Responses
    BY DEF NewRequest, Responses
  <2>2. ControllerOK(reads, Request)
    BY <1>1, NewControllerOK
  <2>3. \A r \in Request : RequestOK(r)
    BY <1>1, <1>2, <1>3 DEF RequestOK, Open, Reading
  <2> QED BY <1>1, <2>1, <2>2, <2>3 DEF ReadsInv
<1>5. HeavyInv
  <2>1. ControllerOK(heavy, Call)
    BY <1>1, NewControllerOK
  <2>2. \A c \in Call : CallOK(c)
    BY <1>1, <1>2, <1>3 DEF CallOK, Working, Places
  <2> QED BY <2>1, <2>2 DEF HeavyInv
<1>6. OpenReads = {} /\ HeavyWork = {}
  BY <1>2, <1>3 DEF OpenReads, HeavyWork, Working
<1> QED BY <1>4, <1>5, <1>6, StoreInit DEF SlotsInv, ReadSlots!Init, HeavySlots!Init

LEMMA SlotsNext ==
  SlotsInv /\ [Next]_vars =>
    SlotsInv' /\ [ReadSlots!Next]_OpenReads /\ [HeavySlots!Next]_HeavyWork
<1> SUFFICES ASSUME SlotsInv, [Next]_vars
             PROVE  /\ ReadsInv' /\ (ReadSlots!Next \/ OpenReads' = OpenReads)
                    /\ HeavyInv' /\ (HeavySlots!Next \/ HeavyWork' = HeavyWork)
  BY StoreNext DEF SlotsInv
<1> USE DEF SlotsInv
<1>1. session \in Session
  BY DEF StoreInv
<1>2. CASE UNCHANGED <<reads, response, heavy, job>>
  BY <1>2, ReadsFrame, HeavyFrame
<1>3. ASSUME NEW c \in Call, acquireHeavyweightLease(c) \/ CallGoesOn(c)
      PROVE  /\ ReadsInv' /\ (ReadSlots!Next \/ OpenReads' = OpenReads)
             /\ HeavyInv' /\ (HeavySlots!Next \/ HeavyWork' = HeavyWork)
  <2>1. Aside
    BY <1>3 DEF acquireHeavyweightLease, CallGoesOn, look, fetch, stage,
                registerDownload, input, prepare, spawn, childEnds, childCloses
  <2>2. HeavyInv' /\ HeavySlots!Next
    BY <1>1, <1>3, HeavyAcquire, HeavyCall DEF StoreInv
  <2>3. ReadsInv' /\ OpenReads' = OpenReads
    BY <2>1, ReadsFrame DEF Aside
  <2> QED BY <2>2, <2>3
<1>4. ASSUME NEW r \in Request,
             \/ arrive(r) \/ authorize(r) \/ answer(r) \/ admit(r) \/ handle(r) \/ deadline(r)
             \/ \E event \in {"finish", "error", "close"} : responseEvent(r, event)
      PROVE  /\ ReadsInv' /\ (ReadSlots!Next \/ OpenReads' = OpenReads)
             /\ HeavyInv' /\ (HeavySlots!Next \/ HeavyWork' = HeavyWork)
  <2>1. Apart
    BY <1>4 DEF arrive, authorize, answer, admit, handle, deadline, responseEvent
  <2>2. HeavyInv' /\ HeavyWork' = HeavyWork
    BY <2>1, HeavyFrame DEF Apart
  <2>3. CASE authorize(r)
    <3>1. UNCHANGED <<reads, response>>
      BY <2>3 DEF authorize
    <3> QED BY <2>2, <3>1, ReadsFrame
  <2>4. CASE arrive(r) \/ answer(r) \/ admit(r) \/ handle(r) \/ deadline(r)
    BY <1>1, <2>2, <2>4, ArriveStep, AnswerStep, AdmitStep, HandleStep, DeadlineStep
  <2>5. ASSUME NEW event \in Events, responseEvent(r, event)
        PROVE  ReadsInv' /\ ReadSlots!Next
    BY <2>5, EventStep
  <2> QED BY <1>4, <2>2, <2>3, <2>4, <2>5 DEF Events
<1>5. CASE Crash
  BY <1>5, ReadsCrash, HeavyCrash
<1>6. CASE UNCHANGED vars \/ PruneTimer \/ TimePasses \/ AccountChange \/ KeysChange
  <2>1. UNCHANGED <<reads, response, heavy, job>>
    BY <1>6 DEF vars, PruneTimer, TimePasses, AccountChange, KeysChange, Apart
  <2> QED BY <1>2, <2>1
<1> QED BY <1>3, <1>4, <1>5, <1>6 DEF Next

(* The work itself keeps to the slots: a response opens, and document work  *)
(* begins, only when there is a slot for it, whatever events, deadlines and *)
(* crashes release leases, and how often.                                   *)
THEOREM WorkKeeps == Spec => WorkKeepsToSlots
BY SlotsInit, SlotsNext, PTL
   DEF Spec, WorkKeepsToSlots, ReadSlots!Spec, HeavySlots!Spec

(* A step of Slots keeps within the limits.                                 *)
SlotsFit(H, max, per) ==
  /\ Cardinality(H) <= max
  /\ \A s \in Subject : Cardinality({h \in H : h.subject = s}) <= per

LEMMA SlotGiven ==
  ASSUME NEW H, IsFiniteSet(H), NEW K \in SUBSET H, NEW max \in Nat, NEW per \in Nat,
         SlotsFit(H, max, per)
  PROVE  SlotsFit(K, max, per)
<1>1. Cardinality(K) <= max
  <2>1. Cardinality(K) <= Cardinality(H) /\ IsFiniteSet(K)
    BY FS_Subset
  <2>2. Cardinality(K) \in Nat /\ Cardinality(H) \in Nat
    BY <2>1, FS_CardinalityType
  <2> QED BY <2>1, <2>2 DEF SlotsFit
<1>2. ASSUME NEW s \in Subject
      PROVE  Cardinality({h \in K : h.subject = s}) <= per
  <2> DEFINE A == {h \in K : h.subject = s}
             B == {h \in H : h.subject = s}
  <2>1. A \in SUBSET B /\ B \in SUBSET H
    OBVIOUS
  <2>2. Cardinality(B) <= per
    BY DEF SlotsFit
  <2> HIDE DEF A, B
  <2>3. IsFiniteSet(B)
    BY <2>1, FS_Subset
  <2>4. Cardinality(A) <= Cardinality(B) /\ IsFiniteSet(A)
    BY <2>1, <2>3, FS_Subset
  <2>5. Cardinality(A) \in Nat /\ Cardinality(B) \in Nat
    BY <2>3, <2>4, FS_CardinalityType
  <2>6. Cardinality(A) <= per
    BY <2>2, <2>4, <2>5
  <2> QED BY <2>6 DEF A
<1> QED BY <1>1, <1>2 DEF SlotsFit

LEMMA SlotTaken ==
  ASSUME NEW H, IsFiniteSet(H), NEW w, NEW t \in Subject,
         NEW max \in Nat, NEW per \in Nat, SlotsFit(H, max, per),
         Cardinality(H) < max, Cardinality({h \in H : h.subject = t}) < per
  PROVE  SlotsFit(H \cup {[work |-> w, subject |-> t]}, max, per)
<1> DEFINE l == [work |-> w, subject |-> t]
           K == H \cup {l}
<1>1. l.subject = t
  OBVIOUS
<1> HIDE DEF l
<1>2. Cardinality(K) <= max
  <2>1. Cardinality(K) = Cardinality(H) \/ Cardinality(K) = Cardinality(H) + 1
    BY FS_AddElement
  <2>2. Cardinality(H) \in Nat
    BY FS_CardinalityType
  <2> QED BY <2>1, <2>2
<1>3. ASSUME NEW s \in Subject
      PROVE  Cardinality({h \in K : h.subject = s}) <= per
  <2> DEFINE A == {h \in K : h.subject = s}
             B == {h \in H : h.subject = s}
  <2>1. Cardinality(B) <= per /\ (s = t => Cardinality(B) < per)
    BY DEF SlotsFit
  <2>2. IsFiniteSet(B)
    <3>1. B \in SUBSET H
      OBVIOUS
    <3> QED BY <3>1, FS_Subset
  <2>3. s # t => A = B
    BY <1>1
  <2>4. s = t => A = B \cup {l}
    BY <1>1
  <2> HIDE DEF A, B
  <2>5. Cardinality(B \cup {l}) = Cardinality(B) \/ Cardinality(B \cup {l}) = Cardinality(B) + 1
    BY <2>2, FS_AddElement
  <2>6. Cardinality(B) \in Nat
    BY <2>2, FS_CardinalityType
  <2>7. Cardinality(A) <= per
    BY <2>1, <2>3, <2>4, <2>5, <2>6
  <2> QED BY <2>7 DEF A
<1>4. SlotsFit(K, max, per)
  <2> HIDE DEF K
  <2> QED BY <1>2, <1>3 DEF SlotsFit
<1> QED BY <1>4 DEF l

LEMMA ReadsFit ==
  SlotsInv /\ ReadSlots!WithinLimits /\ [ReadSlots!Next]_OpenReads
    => ReadSlots!WithinLimits'
<1> SUFFICES ASSUME SlotsInv, SlotsFit(OpenReads, MaxReads, MaxReadsPerSubject),
                    [ReadSlots!Next]_OpenReads
             PROVE  SlotsFit(OpenReads', MaxReads, MaxReadsPerSubject)
  BY SameCount DEF ReadSlots!WithinLimits, ReadSlots!HeldBy, SlotsFit
<1>1. IsFiniteSet(OpenReads)
  <2>1. OpenReads \in SUBSET InUse(reads) /\ IsFiniteSet(InUse(reads))
    BY OpenReadsInUse DEF SlotsInv, ReadsInv, ControllerOK, CountersCount
  <2> QED BY <2>1, FS_Subset
<1>2. MaxReads \in Nat /\ MaxReadsPerSubject \in Nat
  BY ReadLimitsAssumption
<1>3. CASE OpenReads' \subseteq OpenReads
  BY <1>1, <1>2, <1>3, SlotGiven
<1>4. ASSUME NEW w \in Request, NEW s \in Subject, ReadSlots!Take(w, s)
      PROVE  SlotsFit(OpenReads', MaxReads, MaxReadsPerSubject)
  <2>1. /\ Cardinality(OpenReads) < MaxReads
        /\ Cardinality({h \in OpenReads : h.subject = s}) < MaxReadsPerSubject
        /\ OpenReads' = OpenReads \cup {[work |-> w, subject |-> s]}
    BY <1>4, SameCount DEF ReadSlots!Take, ReadSlots!HeldBy
  <2> QED BY <1>1, <1>2, <2>1, SlotTaken
<1>5. CASE ReadSlots!Give
  <2>1. OpenReads' \subseteq OpenReads
    BY <1>5 DEF ReadSlots!Give
  <2> QED BY <1>3, <2>1
<1> QED BY <1>3, <1>4, <1>5 DEF ReadSlots!Next

LEMMA HeavyFit ==
  SlotsInv /\ HeavySlots!WithinLimits /\ [HeavySlots!Next]_HeavyWork
    => HeavySlots!WithinLimits'
<1> SUFFICES ASSUME SlotsInv, SlotsFit(HeavyWork, MaxGlobal, MaxPerSubject),
                    [HeavySlots!Next]_HeavyWork
             PROVE  SlotsFit(HeavyWork', MaxGlobal, MaxPerSubject)
  BY SameCount DEF HeavySlots!WithinLimits, HeavySlots!HeldBy, SlotsFit
<1>1. IsFiniteSet(HeavyWork)
  <2>1. HeavyWork \in SUBSET InUse(heavy) /\ IsFiniteSet(InUse(heavy))
    BY HeavyWorkInUse DEF SlotsInv, HeavyInv, ControllerOK, CountersCount
  <2> QED BY <2>1, FS_Subset
<1>2. MaxGlobal \in Nat /\ MaxPerSubject \in Nat
  BY LimitsAssumption
<1>3. CASE HeavyWork' \subseteq HeavyWork
  BY <1>1, <1>2, <1>3, SlotGiven
<1>4. ASSUME NEW w \in Call, NEW s \in Subject, HeavySlots!Take(w, s)
      PROVE  SlotsFit(HeavyWork', MaxGlobal, MaxPerSubject)
  <2>1. /\ Cardinality(HeavyWork) < MaxGlobal
        /\ Cardinality({h \in HeavyWork : h.subject = s}) < MaxPerSubject
        /\ HeavyWork' = HeavyWork \cup {[work |-> w, subject |-> s]}
    BY <1>4, SameCount DEF HeavySlots!Take, HeavySlots!HeldBy
  <2> QED BY <1>1, <1>2, <2>1, SlotTaken
<1>5. CASE HeavySlots!Give
  <2>1. HeavyWork' \subseteq HeavyWork
    BY <1>5 DEF HeavySlots!Give
  <2> QED BY <1>3, <2>1
<1> QED BY <1>3, <1>4, <1>5 DEF HeavySlots!Next

(* So there are never more responses open, nor more documents worked on,    *)
(* than the limits allow, in all and per subject.                           *)
THEOREM WorkWithinLimits == Spec => [](ReadSlots!WithinLimits /\ HeavySlots!WithinLimits)
<1>1. Init => ReadSlots!WithinLimits /\ HeavySlots!WithinLimits
  <2> SUFFICES ASSUME Init
               PROVE  /\ SlotsFit(OpenReads, MaxReads, MaxReadsPerSubject)
                      /\ SlotsFit(HeavyWork, MaxGlobal, MaxPerSubject)
    BY SameCount DEF ReadSlots!WithinLimits, ReadSlots!HeldBy,
                     HeavySlots!WithinLimits, HeavySlots!HeldBy, SlotsFit
  <2>1. OpenReads = {} /\ HeavyWork = {}
    BY SlotsInit DEF ReadSlots!Init, HeavySlots!Init
  <2>2. Cardinality({}) = 0
    BY FS_EmptySet
  <2>3. \A s : {h \in {} : h.subject = s} = {}
    OBVIOUS
  <2>4. /\ MaxReads \in Nat /\ MaxReadsPerSubject \in Nat
        /\ MaxGlobal \in Nat /\ MaxPerSubject \in Nat
    BY LimitsAssumption, ReadLimitsAssumption
  <2> QED BY <2>1, <2>2, <2>3, <2>4 DEF SlotsFit
<1> QED BY <1>1, SlotsInit, SlotsNext, ReadsFit, HeavyFit, PTL DEF Spec
------------------------------------------------------------------------------
(* Bearer tokens. How long a key has been published or withdrawn, and how   *)
(* long what was learned of it before will be kept, add up to no more than  *)
(* the time it is kept for.                                                 *)

Signings ==
  [keys : SUBSET Key, fresh : 0 .. KeysTtl, cooldown : 0 .. Cooldown,
   unknown : [Key -> 0 .. NegativeTtl]]
Issuers == [Key -> [at : {"future", "published", "withdrawn"}, since : Nat]]
BearerRecords ==
  [at : {"none", "keys", "fetching", "refreshing", "joined", "accepted", "unknown", "failed"},
   kid : Key \cup {0}, asked : SUBSET Key, late : BOOLEAN]

(* Only what names a key waits for keys, and a new request has no token yet. *)
KidsOK ==
  \A r \in Request :
    /\ bearer[r].kid = 0 => bearer[r].at \in {"none", "accepted"}
    /\ response[r].at = "new" => bearer[r].kid = 0

WithdrawnOK ==
  \A k \in Key :
    issuer[k].at = "withdrawn" /\ k \in signing.keys /\ signing.fresh > 0
      => issuer[k].since + signing.fresh <= KeysTtl + 1

PublishedOK ==
  \A k \in Key : issuer[k].at = "published" =>
    /\ signing.unknown[k] > 0 => issuer[k].since + signing.unknown[k] <= NegativeTtl + 1
    /\ signing.cooldown > 0 /\ signing.keys # {} /\ k \notin signing.keys
         => issuer[k].since + signing.cooldown <= Cooldown + 1

(* What is asked for is at most one tick old.                               *)
Within(keys, n) ==
  \A k \in Key :
    /\ k \in keys /\ issuer[k].at = "withdrawn" => issuer[k].since <= n
    /\ k \notin keys /\ issuer[k].at = "published" => issuer[k].since <= n

AskedOK ==
  \A r \in Request : Waiting(r) => Within(bearer[r].asked, IF bearer[r].late THEN 1 ELSE 0)

TokensInv ==
  /\ session \in Session
  /\ signing \in Signings /\ issuer \in Issuers
  /\ bearer \in [Request -> BearerRecords]
  /\ KidsOK /\ WithdrawnOK /\ PublishedOK /\ AskedOK

SoonStep ==
  \A r \in Request :
    Becomes(r, "unknown") /\ issuer[bearer[r].kid].at = "published"
      => issuer[bearer[r].kid].since <= NegativeTtl
ExpireStep ==
  \A r \in Request :
    Becomes(r, "accepted") /\ bearer[r].kid # 0
        /\ issuer[bearer[r].kid].at = "withdrawn"
      => issuer[bearer[r].kid].since <= KeysTtl

LEMMA Ttls ==
  /\ KeysTtl \in Nat /\ KeysTtl >= 1 /\ Cooldown \in Nat /\ Cooldown >= 1
  /\ NegativeTtl \in Nat /\ NegativeTtl >= 1 /\ Cooldown <= NegativeTtl
BY TtlAssumption

(* One request goes on, with what is known of the keys and the issuer as    *)
(* they are: what becomes of its token, and when.                           *)
TokenFits(r, b) ==
  /\ b \in BearerRecords /\ b.kid = bearer[r].kid /\ b.kid # 0
  /\ b.at \in {"fetching", "refreshing"} => Within(b.asked, IF b.late THEN 1 ELSE 0)
  /\ b.at = "unknown" /\ issuer[b.kid].at = "published"
       => issuer[b.kid].since <= NegativeTtl
  /\ b.at = "accepted" /\ issuer[b.kid].at = "withdrawn"
       => issuer[b.kid].since <= KeysTtl

LEMMA BearersFit ==
  ASSUME TokensInv, UNCHANGED <<issuer, response>>, bearer' = [q \in Request |-> bearer'[q]],
         \A q \in Request : bearer'[q] = bearer[q] \/ TokenFits(q, bearer'[q])
  PROVE  /\ bearer' \in [Request -> BearerRecords]
         /\ KidsOK' /\ AskedOK' /\ SoonStep /\ ExpireStep
<1>1. bearer' \in [Request -> BearerRecords]
  <2>1. \A q \in Request : bearer'[q] \in BearerRecords
    BY DEF TokensInv, TokenFits
  <2> QED BY <2>1
<1>2. KidsOK'
  BY DEF TokensInv, KidsOK, TokenFits
<1>3. AskedOK'
  BY DEF TokensInv, AskedOK, Waiting, Within, TokenFits
<1>4. SoonStep /\ ExpireStep
  BY DEF SoonStep, ExpireStep, Becomes, TokenFits
<1> QED BY <1>1, <1>2, <1>3, <1>4

LEMMA OneBearer ==
  ASSUME TokensInv, UNCHANGED <<issuer, response>>, NEW r \in Request, NEW b, TokenFits(r, b),
         bearer' = [bearer EXCEPT ![r] = b]
  PROVE  /\ bearer' \in [Request -> BearerRecords]
         /\ KidsOK' /\ AskedOK' /\ SoonStep /\ ExpireStep
<1>1. bearer' \in [Request -> BearerRecords]
  BY DEF TokensInv, TokenFits
<1>2. \A q \in Request : bearer'[q] = bearer[q] \/ TokenFits(q, bearer'[q])
  BY DEF TokensInv
<1>3. bearer' = [q \in Request |-> bearer'[q]]
  BY <1>1
<1> QED BY <1>2, <1>3, BearersFit

LEMMA SettledFits ==
  ASSUME TokensInv, NEW r \in Request, bearer[r].kid # 0,
         NEW at \in {"accepted", "unknown", "failed", "joined"},
         at = "unknown" /\ issuer[bearer[r].kid].at = "published"
           => issuer[bearer[r].kid].since <= NegativeTtl,
         at = "accepted" /\ issuer[bearer[r].kid].at = "withdrawn"
           => issuer[bearer[r].kid].since <= KeysTtl
  PROVE  TokenFits(r, Settled(bearer[r], at))
<1> DEFINE b == Settled(bearer[r], at)
<1>1. b = [at |-> at, kid |-> bearer[r].kid, asked |-> {}, late |-> FALSE]
  <2> DEFINE n == [NoBearer EXCEPT !.kid = bearer[r].kid]
  <2>1. n = [at |-> "none", kid |-> bearer[r].kid, asked |-> {}, late |-> FALSE]
    <3>1. PICK a, z, s, l : /\ NoBearer = [at |-> a, kid |-> z, asked |-> s, late |-> l]
                            /\ a = "none" /\ s = {} /\ l = FALSE
      BY DEF NoBearer
    <3>2. n = [at |-> a, kid |-> bearer[r].kid, asked |-> s, late |-> l]
      BY <3>1
    <3> HIDE DEF n
    <3> QED BY <3>1, <3>2
  <2>2. b = [n EXCEPT !.at = at]
    BY DEF Settled
  <2> HIDE DEF n, b
  <2> QED BY <2>1, <2>2
<1>2. bearer[r].kid \in Key \cup {0}
  BY DEF TokensInv, BearerRecords
<1> HIDE DEF b
<1>3. TokenFits(r, b)
  BY <1>1, <1>2 DEF TokenFits, BearerRecords
<1> QED BY <1>3 DEF b

LEMMA FetchingFits ==
  ASSUME TokensInv, NEW r \in Request, bearer[r].kid # 0,
         NEW at \in {"fetching", "refreshing"}
  PROVE  TokenFits(r, [bearer[r] EXCEPT !.at = at, !.asked = Published, !.late = FALSE])
<1> DEFINE b == [bearer[r] EXCEPT !.at = at, !.asked = Published, !.late = FALSE]
<1>1. bearer[r] \in BearerRecords
  BY DEF TokensInv
<1>2. b = [at |-> at, kid |-> bearer[r].kid, asked |-> Published, late |-> FALSE]
  <2>1. PICK a, k, s, l : bearer[r] = [at |-> a, kid |-> k, asked |-> s, late |-> l]
    BY <1>1 DEF BearerRecords
  <2>2. b = [[[bearer[r] EXCEPT !.at = at] EXCEPT !.asked = Published] EXCEPT !.late = FALSE]
    OBVIOUS
  <2> HIDE DEF b
  <2> QED BY <2>1, <2>2
<1>3. Within(Published, 0)
  BY DEF Within, Published
<1>4. Published \in SUBSET Key
  BY DEF Published
<1> HIDE DEF b
<1>5. TokenFits(r, b)
  BY <1>1, <1>2, <1>3, <1>4 DEF TokenFits, BearerRecords
<1> QED BY <1>5 DEF b

(* What is answered is what the issuer has now, or had at most a tick ago.  *)
LEMMA AnswersWithin ==
  ASSUME TokensInv, NEW r \in Request, Waiting(r), NEW keys \in Answers(r)
  PROVE  keys \in SUBSET Key /\ Within(keys, 1)
<1>1. CASE keys = Published
  BY <1>1 DEF Within, Published
<1>2. CASE keys = bearer[r].asked
  <2>1. keys \in SUBSET Key
    BY <1>2 DEF TokensInv, BearerRecords
  <2>2. Within(keys, IF bearer[r].late THEN 1 ELSE 0)
    BY <1>2 DEF TokensInv, AskedOK
  <2>3. \A k \in Key : issuer[k].since \in Nat
    BY DEF TokensInv, Issuers
  <2> QED BY <2>1, <2>2, <2>3 DEF Within
<1> QED BY <1>1, <1>2 DEF Answers

(* A token is compared with keys that are recent enough.                    *)
Timely(keys) ==
  \A k \in Key :
    /\ k \in keys /\ issuer[k].at = "withdrawn" => issuer[k].since <= KeysTtl
    /\ k \notin keys /\ issuer[k].at = "published" /\ signing.cooldown > 0
         => issuer[k].since <= NegativeTtl

LEMMA MatchStep ==
  ASSUME TokensInv, NEW r \in Request, bearer[r].kid # 0, NEW keys, Timely(keys),
         matchingJwks(r, keys)
  PROVE  \E b : TokenFits(r, b) /\ bearer' = [bearer EXCEPT ![r] = b]
<1> DEFINE k == bearer[r].kid
<1>1. k \in Key
  BY DEF TokensInv, BearerRecords
<1>2. /\ issuer[k].since \in Nat /\ signing.unknown[k] \in Nat
      /\ signing.cooldown \in Nat /\ signing.unknown[k] <= NegativeTtl
  BY <1>1, Ttls DEF TokensInv, Issuers, Signings
<1>3. CASE k \in keys /\ Verified(r, "accepted")
  BY <1>1, <1>3, SettledFits DEF Timely, Verified
<1>4. CASE k \notin keys /\ signing.unknown[k] > 0 /\ Verified(r, "unknown")
  <2>1. issuer[k].at = "published" => issuer[k].since + signing.unknown[k] <= NegativeTtl + 1
    BY <1>1, <1>4 DEF TokensInv, PublishedOK
  <2>2. issuer[k].at = "published" => issuer[k].since <= NegativeTtl
    BY <1>2, <1>4, <2>1, Ttls
  <2> QED BY <1>4, <2>2, SettledFits DEF Verified
<1>5. CASE Verified(r, "joined")
  BY <1>5, SettledFits DEF Verified
<1>6. CASE k \notin keys /\ signing.cooldown > 0 /\ Verified(r, "unknown")
  BY <1>1, <1>6, SettledFits DEF Timely, Verified
<1>7. CASE fetchJson(r, "refreshing")
  BY <1>7, FetchingFits DEF fetchJson
<1>8. signing.unknown[k] > 0 \/ signing.unknown[k] = 0
  BY <1>2
<1> QED BY <1>3, <1>4, <1>5, <1>6, <1>7, <1>8 DEF matchingJwks

KeysInv  == signing \in Signings /\ WithdrawnOK /\ PublishedOK
KeptStep == TokensInv' /\ SoonStep /\ ExpireStep

(* What is kept of a new answer is kept for its time and no longer.         *)
LEMMA NewKeys ==
  ASSUME TokensInv, UNCHANGED issuer, NEW keys \in SUBSET Key, Within(keys, 1),
         signing' = [keys |-> keys, fresh |-> KeysTtl, cooldown |-> signing'.cooldown,
                     unknown |-> signing'.unknown],
         signing'.cooldown \in {signing.cooldown, Cooldown},
         signing'.unknown \in [Key -> 0 .. NegativeTtl],
         \A k \in Key : signing'.unknown[k] = signing.unknown[k] \/ k \notin keys
  PROVE  KeysInv'
<1>1. /\ signing'.keys = keys /\ signing'.fresh = KeysTtl
      /\ signing.cooldown \in 0 .. Cooldown
  BY DEF TokensInv, Signings
<1>2. signing' \in Signings
  <2>1. signing'.cooldown \in 0 .. Cooldown /\ KeysTtl \in 0 .. KeysTtl
    BY <1>1, Ttls
  <2> QED BY <2>1 DEF Signings
<1>3. WithdrawnOK'
  <2> SUFFICES ASSUME NEW k \in Key, issuer[k].at = "withdrawn", k \in keys
               PROVE  issuer[k].since + KeysTtl <= KeysTtl + 1
    BY <1>1 DEF WithdrawnOK
  <2>1. issuer[k].since <= 1 /\ issuer[k].since \in Nat
    BY DEF Within, TokensInv, Issuers
  <2> QED BY <2>1, Ttls
<1>4. PublishedOK'
  <2> SUFFICES ASSUME NEW k \in Key, issuer[k].at = "published"
               PROVE  /\ signing'.unknown[k] > 0
                           => issuer[k].since + signing'.unknown[k] <= NegativeTtl + 1
                      /\ signing'.cooldown > 0 /\ k \notin keys
                           => issuer[k].since + signing'.cooldown <= Cooldown + 1
    BY <1>1 DEF PublishedOK
  <2>1. issuer[k].since \in Nat /\ signing'.unknown[k] \in 0 .. NegativeTtl
    BY DEF TokensInv, Issuers
  <2>2. k \notin keys => issuer[k].since <= 1
    BY DEF Within
  <2>3. signing'.cooldown \in 0 .. Cooldown
    BY <1>1, Ttls
  <2>4. signing.unknown[k] > 0 => issuer[k].since + signing.unknown[k] <= NegativeTtl + 1
    BY DEF TokensInv, PublishedOK
  <2>5. signing'.unknown[k] = signing.unknown[k] \/ k \notin keys
    OBVIOUS
  <2>6. signing'.unknown[k] > 0
          => issuer[k].since + signing'.unknown[k] <= NegativeTtl + 1
    <3>1. CASE signing'.unknown[k] = signing.unknown[k]
      BY <2>4, <3>1
    <3>2. CASE k \notin keys
      BY <2>1, <2>2, <3>2, Ttls
    <3> QED BY <2>5, <3>1, <3>2
  <2>7. signing'.cooldown > 0 /\ k \notin keys
          => issuer[k].since + signing'.cooldown <= Cooldown + 1
    BY <2>1, <2>2, <2>3, Ttls
  <2> QED BY <2>6, <2>7
<1> QED BY <1>2, <1>3, <1>4 DEF KeysInv

LEMMA KeysStay ==
  ASSUME TokensInv, UNCHANGED <<issuer, signing>>
  PROVE  KeysInv'
BY DEF TokensInv, KeysInv, WithdrawnOK, PublishedOK

(* A step that only settles or starts requests for one bearer, with the     *)
(* keys and the issuer in order.                                            *)
LEMMA OneKept ==
  ASSUME TokensInv, UNCHANGED <<issuer, response, session>>, KeysInv', NEW r \in Request,
         \E b : TokenFits(r, b) /\ bearer' = [bearer EXCEPT ![r] = b]
  PROVE  KeptStep
<1>1. PICK b : TokenFits(r, b) /\ bearer' = [bearer EXCEPT ![r] = b]
  OBVIOUS
<1>2. bearer' \in [Request -> BearerRecords] /\ KidsOK' /\ AskedOK' /\ SoonStep /\ ExpireStep
  BY <1>1, OneBearer
<1>3. issuer' \in Issuers /\ session' \in Session
  BY DEF TokensInv
<1> QED BY <1>2, <1>3 DEF KeysInv, KeptStep, TokensInv

LEMMA FailsKept ==
  ASSUME TokensInv, UNCHANGED <<issuer, response, session>>, KeysInv', NEW r \in Request,
         bearer[r].kid # 0, Verified(r, "failed")
  PROVE  KeptStep
<1>1. TokenFits(r, Settled(bearer[r], "failed"))
  BY SettledFits
<1>2. bearer' = [bearer EXCEPT ![r] = Settled(bearer[r], "failed")]
  BY DEF Verified
<1> HIDE DEF Settled
<1> QED BY <1>1, <1>2, OneKept

LEMMA VerifyStep ==
  ASSUME TokensInv, UNCHANGED <<response, session>>, NEW r \in Request, verifyBearerToken(r)
  PROVE  KeptStep
<1>1. UNCHANGED <<issuer, signing>> /\ bearer[r].kid # 0
  BY DEF verifyBearerToken, Used, TokensInv, KidsOK
<1>2. KeysInv'
  BY <1>1, KeysStay
<1>3. CASE Verified(r, "failed")
  BY <1>1, <1>2, <1>3, FailsKept
<1>4. CASE signing.fresh > 0 /\ signing.keys # {} /\ matchingJwks(r, signing.keys)
  <2>1. Timely(signing.keys)
    <3> SUFFICES ASSUME NEW k \in Key
                 PROVE  /\ k \in signing.keys /\ issuer[k].at = "withdrawn"
                             => issuer[k].since <= KeysTtl
                        /\ k \notin signing.keys /\ issuer[k].at = "published"
                             /\ signing.cooldown > 0
                             => issuer[k].since <= NegativeTtl
      BY DEF Timely
    <3>1. /\ issuer[k].since \in Nat /\ signing.fresh \in Nat /\ signing.cooldown \in Nat
      BY Ttls DEF TokensInv, Issuers, Signings
    <3>2. k \in signing.keys /\ issuer[k].at = "withdrawn"
            => issuer[k].since + signing.fresh <= KeysTtl + 1
      BY <1>4 DEF TokensInv, WithdrawnOK
    <3>3. k \notin signing.keys /\ issuer[k].at = "published" /\ signing.cooldown > 0
            => issuer[k].since + signing.cooldown <= Cooldown + 1
      BY <1>4 DEF TokensInv, PublishedOK
    <3>4. \A x, y, n \in Nat : x + y <= n + 1 /\ y > 0 => x <= n
      OBVIOUS
    <3>5. k \in signing.keys /\ issuer[k].at = "withdrawn" => issuer[k].since <= KeysTtl
      BY <1>4, <3>1, <3>2, <3>4, Ttls
    <3>6. k \notin signing.keys /\ issuer[k].at = "published" /\ signing.cooldown > 0
            => issuer[k].since <= Cooldown
      BY <3>1, <3>3, <3>4, Ttls
    <3>7. issuer[k].since <= Cooldown => issuer[k].since <= NegativeTtl
      BY <3>1, Ttls
    <3> QED BY <3>5, <3>6, <3>7
  <2>2. \E b : TokenFits(r, b) /\ bearer' = [bearer EXCEPT ![r] = b]
    BY <1>1, <1>4, <2>1, MatchStep
  <2> QED BY <1>1, <1>2, <2>2, OneKept
<1>5. CASE fetchJson(r, "fetching")
  <2>1. \E b : TokenFits(r, b) /\ bearer' = [bearer EXCEPT ![r] = b]
    BY <1>1, <1>5, FetchingFits DEF fetchJson
  <2> QED BY <1>1, <1>2, <2>1, OneKept
<1> QED BY <1>3, <1>4, <1>5 DEF verifyBearerToken

LEMMA WithinTimely ==
  ASSUME TokensInv, NEW keys, Within(keys, 1)
  PROVE  Timely(keys)
<1>1. \A k \in Key : issuer[k].since \in Nat
  BY DEF TokensInv, Issuers
<1> QED BY <1>1, Ttls DEF Within, Timely

LEMMA CachedStep ==
  ASSUME TokensInv, UNCHANGED <<response, session>>, NEW r \in Request, cachedJson(r)
  PROVE  KeptStep
<1>1. UNCHANGED issuer /\ bearer[r].kid # 0 /\ Waiting(r)
  BY DEF cachedJson, TokensInv, KidsOK, Waiting
<1>2. CASE Verified(r, "failed") /\ UNCHANGED signing
  BY <1>1, <1>2, KeysStay, FailsKept
<1>3. ASSUME NEW keys \in Answers(r) \cup {{}},
             signing' = [signing EXCEPT !.keys = keys, !.fresh = KeysTtl],
             IF keys = {} THEN Verified(r, "failed") ELSE matchingJwks(r, keys)
      PROVE  KeptStep
  <2>1. /\ signing' = [keys |-> keys, fresh |-> KeysTtl, cooldown |-> signing.cooldown,
                       unknown |-> signing.unknown]
        /\ signing.unknown \in [Key -> 0 .. NegativeTtl]
    <3>1. PICK k, f, c, u : /\ signing = [keys |-> k, fresh |-> f, cooldown |-> c, unknown |-> u]
                            /\ u \in [Key -> 0 .. NegativeTtl]
      BY DEF TokensInv, Signings
    <3>2. signing' = [[signing EXCEPT !.keys = keys] EXCEPT !.fresh = KeysTtl]
      BY <1>3
    <3> QED BY <3>1, <3>2
  <2>2. signing'.cooldown = signing.cooldown /\ signing'.unknown = signing.unknown
    BY <2>1
  <2>3. CASE keys = {}
    <3>1. KeysInv'
      <4>1. signing' \in Signings
        BY <2>1, <2>3, Ttls DEF TokensInv, Signings
      <4>2. WithdrawnOK'
        BY <2>1, <2>3 DEF WithdrawnOK
      <4>3. PublishedOK'
        BY <1>1, <2>1, <2>2, <2>3 DEF TokensInv, PublishedOK
      <4> QED BY <4>1, <4>2, <4>3 DEF KeysInv
    <3> QED BY <1>1, <1>3, <2>3, <3>1, FailsKept
  <2>4. CASE keys # {}
    <3>1. keys \in SUBSET Key /\ Within(keys, 1)
      BY <1>1, <2>4, AnswersWithin
    <3>2. KeysInv'
      BY <1>1, <2>1, <2>2, <3>1, NewKeys
    <3>3. \E b : TokenFits(r, b) /\ bearer' = [bearer EXCEPT ![r] = b]
      BY <1>1, <1>3, <2>4, <3>1, WithinTimely, MatchStep
    <3> QED BY <1>1, <3>2, <3>3, OneKept
  <2> QED BY <2>3, <2>4
<1> QED BY <1>2, <1>3 DEF cachedJson

LEMMA RefreshStep ==
  ASSUME TokensInv, UNCHANGED <<response, session>>, NEW r \in Request,
         refreshJwksForUnknownKid(r)
  PROVE  KeptStep
<1> DEFINE told == {r} \cup {q \in Request : bearer[q].at = "joined"}
<1>1. /\ UNCHANGED issuer /\ Waiting(r) /\ bearer[r].kid \in Key
      /\ \A q \in told : q \in Request /\ bearer[q].kid # 0 /\ bearer[q].kid \in Key
  <2>1. \A q \in told : q \in Request /\ bearer[q].at \notin {"none", "accepted"}
    BY DEF refreshJwksForUnknownKid
  <2>2. \A q \in Request : bearer[q].kid \in Key \cup {0}
    BY DEF TokensInv, BearerRecords
  <2>3. \A q \in told : bearer[q].kid # 0
    BY <2>1 DEF TokensInv, KidsOK
  <2>4. r \in told /\ UNCHANGED issuer /\ Waiting(r)
    BY DEF refreshJwksForUnknownKid, Waiting
  <2> HIDE DEF told
  <2> QED BY <2>1, <2>2, <2>3, <2>4
<1>2. SUFFICES KeysInv' /\ bearer' = [q \in Request |-> bearer'[q]]
               /\ \A q \in Request : bearer'[q] = bearer[q] \/ TokenFits(q, bearer'[q])
  <2> SUFFICES ASSUME KeysInv', bearer' = [q \in Request |-> bearer'[q]],
                      \A q \in Request : bearer'[q] = bearer[q] \/ TokenFits(q, bearer'[q])
               PROVE  KeptStep
    OBVIOUS
  <2>1. bearer' \in [Request -> BearerRecords] /\ KidsOK' /\ AskedOK' /\ SoonStep /\ ExpireStep
    BY <1>1, BearersFit
  <2>2. issuer' \in Issuers /\ session' \in Session
    BY <1>1 DEF TokensInv
  <2> QED BY <2>1, <2>2 DEF KeysInv, KeptStep, TokensInv
<1>3. CASE /\ bearer' = [q \in Request |->
                IF q \in told THEN Settled(bearer[q], "failed") ELSE bearer[q]]
           /\ UNCHANGED signing
  <2>1. \A q \in told : TokenFits(q, Settled(bearer[q], "failed"))
    BY <1>1, SettledFits
  <2> HIDE DEF told
  <2>2. \A q \in Request : bearer'[q] = IF q \in told THEN Settled(bearer[q], "failed")
                                        ELSE bearer[q]
    BY <1>3
  <2>3. bearer' = [q \in Request |-> bearer'[q]]
    BY <1>3
  <2>4. KeysInv'
    BY <1>1, <1>3, KeysStay
  <2> QED BY <2>1, <2>2, <2>3, <2>4
<1>4. ASSUME NEW keys \in Answers(r) \ {{}},
             signing' = [signing EXCEPT
               !.keys = keys, !.fresh = KeysTtl, !.cooldown = Cooldown,
               !.unknown[bearer[r].kid] = IF bearer[r].kid \in keys THEN @
                                          ELSE NegativeTtl],
             bearer' = [q \in Request |->
               IF q \notin told THEN bearer[q]
               ELSE Settled(bearer[q],
                            IF bearer[q].kid \in keys THEN "accepted" ELSE "unknown")]
      PROVE  /\ KeysInv' /\ bearer' = [q \in Request |-> bearer'[q]]
             /\ \A q \in Request : bearer'[q] = bearer[q] \/ TokenFits(q, bearer'[q])
  <2>1. keys \in SUBSET Key /\ Within(keys, 1)
    BY <1>1, <1>4, AnswersWithin
  <2>2. KeysInv'
    <3> DEFINE kid == bearer[r].kid
               more == [signing.unknown EXCEPT
                         ![kid] = IF kid \in keys THEN @ ELSE NegativeTtl]
    <3>1. signing.unknown \in [Key -> 0 .. NegativeTtl]
      BY DEF TokensInv, Signings
    <3>2. signing' = [keys |-> keys, fresh |-> KeysTtl, cooldown |-> Cooldown,
                      unknown |-> more]
      <4>1. PICK k, f, c, u : signing = [keys |-> k, fresh |-> f, cooldown |-> c, unknown |-> u]
        BY DEF TokensInv, Signings
      <4>2. signing' = [[[[signing EXCEPT !.keys = keys] EXCEPT !.fresh = KeysTtl]
                           EXCEPT !.cooldown = Cooldown] EXCEPT !.unknown = more]
        BY <1>4, <4>1
      <4> HIDE DEF more
      <4> QED BY <4>1, <4>2
    <3>3. /\ more \in [Key -> 0 .. NegativeTtl]
          /\ \A k \in Key : more[k] = signing.unknown[k] \/ k \notin keys
      <4>1. NegativeTtl \in 0 .. NegativeTtl
        BY Ttls
      <4> QED BY <1>1, <3>1, <4>1
    <3> HIDE DEF more, kid
    <3>4. signing'.cooldown = Cooldown /\ signing'.unknown = more
      BY <3>2
    <3> QED BY <1>1, <2>1, <3>2, <3>3, <3>4, NewKeys
  <2>3. \A q \in told : TokenFits(q, Settled(bearer[q],
                IF bearer[q].kid \in keys THEN "accepted" ELSE "unknown"))
    <3> SUFFICES ASSUME NEW q \in told
                 PROVE  TokenFits(q, Settled(bearer[q],
                          IF bearer[q].kid \in keys THEN "accepted" ELSE "unknown"))
      OBVIOUS
    <3> DEFINE k == bearer[q].kid
    <3>1. q \in Request /\ k # 0 /\ k \in Key /\ issuer[k].since \in Nat
      BY <1>1 DEF TokensInv, Issuers
    <3>2. CASE k \in keys
      <4>1. issuer[k].at = "withdrawn" => issuer[k].since <= KeysTtl
        BY <2>1, <3>1, <3>2, Ttls DEF Within
      <4> QED BY <3>1, <3>2, <4>1, SettledFits
    <3>3. CASE k \notin keys
      <4>1. issuer[k].at = "published" => issuer[k].since <= NegativeTtl
        BY <2>1, <3>1, <3>3, Ttls DEF Within
      <4> QED BY <3>1, <3>3, <4>1, SettledFits
    <3> QED BY <3>2, <3>3
  <2> HIDE DEF told
  <2>4. bearer' = [q \in Request |-> bearer'[q]]
    BY <1>4
  <2>5. \A q \in Request : IF q \notin told THEN bearer'[q] = bearer[q]
          ELSE bearer'[q] = Settled(bearer[q],
                 IF bearer[q].kid \in keys THEN "accepted" ELSE "unknown")
    BY <1>4
  <2> QED BY <2>2, <2>3, <2>4, <2>5
<1> QED BY <1>3, <1>4 DEF refreshJwksForUnknownKid

------------------------------------------------------------------------------
(* Steps of requests.                                                       *)

(* A step that leaves the keys, the issuer and all bearers but one, which   *)
(* starts or ends.                                                          *)
LEMMA BearerBegins ==
  ASSUME TokensInv, UNCHANGED <<session, signing, issuer>>, NEW r \in Request,
         NEW kid \in Key \cup {0}, bearer[r].kid = 0, Present(r, kid),
         \A q \in Request : response'[q].at = "new" => response[q].at = "new" /\ q # r
  PROVE  KeptStep
<1> DEFINE b == [NoBearer EXCEPT !.kid = kid, !.at = IF kid = 0 THEN "accepted" ELSE "keys"]
<1>1. /\ b \in BearerRecords /\ b.kid = kid
      /\ b.at = IF kid = 0 THEN "accepted" ELSE "keys"
  <2>1. PICK a, z, s, l : /\ NoBearer = [at |-> a, kid |-> z, asked |-> s, late |-> l]
                          /\ a = "none" /\ s = {} /\ l = FALSE
    BY DEF NoBearer
  <2>2. b = [[NoBearer EXCEPT !.kid = kid] EXCEPT !.at = IF kid = 0 THEN "accepted" ELSE "keys"]
    OBVIOUS
  <2> HIDE DEF b
  <2>3. b = [at |-> IF kid = 0 THEN "accepted" ELSE "keys", kid |-> kid, asked |-> s, late |-> l]
    BY <2>1, <2>2
  <2> QED BY <2>1, <2>3 DEF BearerRecords
<1>2. bearer' = [bearer EXCEPT ![r] = b]
  BY DEF Present
<1> HIDE DEF b
<1>3. /\ bearer' \in [Request -> BearerRecords] /\ bearer'[r] = b
      /\ \A q \in Request : q # r => bearer'[q] = bearer[q]
  BY <1>1, <1>2 DEF TokensInv
<1>4. KidsOK'
  BY <1>1, <1>3 DEF TokensInv, KidsOK
<1>5. AskedOK'
  BY <1>1, <1>3 DEF TokensInv, AskedOK, Waiting, Within
<1>6. SoonStep /\ ExpireStep
  BY <1>1, <1>3 DEF SoonStep, ExpireStep, Becomes
<1>7. KeysInv' /\ issuer' \in Issuers /\ session' \in Session
  BY KeysStay DEF TokensInv
<1> QED BY <1>3, <1>4, <1>5, <1>6, <1>7 DEF KeysInv, KeptStep, TokensInv

LEMMA TokensFrame ==
  ASSUME TokensInv, UNCHANGED <<session, tokens>>,
         \A q \in Request : response'[q].at = "new" => response[q].at = "new"
  PROVE  KeptStep
<1>1. UNCHANGED <<session, signing, issuer, bearer>>
  BY DEF tokens
<1>2. KidsOK'
  BY <1>1 DEF TokensInv, KidsOK
<1>3. AskedOK'
  BY <1>1 DEF TokensInv, AskedOK, Waiting, Within
<1>4. SoonStep /\ ExpireStep
  BY <1>1 DEF SoonStep, ExpireStep, Becomes
<1>5. KeysInv'
  BY <1>1, KeysStay
<1> QED BY <1>1, <1>2, <1>3, <1>4, <1>5 DEF KeysInv, KeptStep, TokensInv

(* Bearers that are forgotten: those of all the requests of F.              *)
LEMMA BearersForgotten ==
  ASSUME TokensInv, UNCHANGED <<session, issuer>>, KeysInv', NEW F \in SUBSET Request,
         bearer' = [q \in Request |-> IF q \in F THEN NoBearer ELSE bearer[q]],
         \A q \in Request : response'[q].at = "new" => response[q].at = "new" \/ q \in F
  PROVE  KeptStep
<1>1. /\ NoBearer \in BearerRecords /\ NoBearer.at = "none" /\ NoBearer.kid = 0
  BY DEF NoBearer, BearerRecords
<1>2. \A q \in Request : bearer[q] \in BearerRecords
  BY DEF TokensInv
<1>3. /\ bearer' \in [Request -> BearerRecords]
      /\ \A q \in Request : bearer'[q] = IF q \in F THEN NoBearer ELSE bearer[q]
  BY <1>1, <1>2
<1>4. KidsOK'
  BY <1>1, <1>3 DEF TokensInv, KidsOK
<1>5. AskedOK'
  BY <1>1, <1>3 DEF TokensInv, AskedOK, Waiting, Within
<1>6. SoonStep /\ ExpireStep
  BY <1>1, <1>3 DEF SoonStep, ExpireStep, Becomes
<1>7. issuer' \in Issuers /\ session' \in Session
  BY DEF TokensInv
<1> QED BY <1>3, <1>4, <1>5, <1>6, <1>7 DEF KeysInv, KeptStep, TokensInv

LEMMA NewSigningOK ==
  ASSUME TokensInv, UNCHANGED issuer, signing' = NewSigning
  PROVE  KeysInv'
<1>1. NewSigning \in Signings
  BY Ttls DEF NewSigning, Signings
<1>2. \A k \in Key : signing'.unknown[k] = 0
  BY DEF NewSigning
<1>3. signing'.fresh = 0 /\ signing'.cooldown = 0
  BY DEF NewSigning
<1>4. WithdrawnOK' /\ PublishedOK'
  BY <1>2, <1>3 DEF WithdrawnOK, PublishedOK
<1> QED BY <1>1, <1>4 DEF KeysInv

LEMMA TokensArrive ==
  ASSUME TokensInv, ReadsInv, NEW r \in Request, arrive(r)
  PROVE  KeptStep
<1>1. PICK u \in session.links, kid \in session.kids :
        /\ Turns(r, [at |-> "auth", subject |-> session.requests[r], link |-> u,
                     ended |-> FALSE, emitted |-> {}, settled |-> FALSE])
        /\ Present(r, kid)
  BY DEF arrive
<1>2. response[r].at = "new" /\ UNCHANGED <<session, signing, issuer>>
  BY DEF arrive, Apart
<1>3. kid \in Key \cup {0} /\ bearer[r].kid = 0
  BY <1>2, SessionAssumption DEF TokensInv, KidsOK
<1>4. \A q \in Request : response'[q].at = "new" => response[q].at = "new" /\ q # r
  BY <1>1 DEF Turns, ReadsInv
<1> QED BY <1>1, <1>2, <1>3, <1>4, BearerBegins

LEMMA TokensAnswer ==
  ASSUME TokensInv, ReadsInv, NEW r \in Request, answer(r)
  PROVE  KeptStep
<1>1. UNCHANGED <<session, signing, issuer>>
  BY DEF answer, Apart
<1>2. bearer' = [q \in Request |-> IF q \in {r} THEN NoBearer ELSE bearer[q]]
  BY DEF answer, TokensInv
<1>3. \A q \in Request : response'[q].at = "new" => response[q].at = "new" \/ q \in {r}
  BY DEF answer, Turns, ReadsInv
<1>4. KeysInv'
  BY <1>1, KeysStay
<1> QED BY <1>1, <1>2, <1>3, <1>4, BearersForgotten

LEMMA TokensCrash ==
  ASSUME TokensInv, ReadsInv, Crash
  PROVE  KeptStep
<1>1. /\ UNCHANGED <<session, issuer>> /\ signing' = NewSigning
      /\ bearer' = [q \in Request |-> NoBearer]
  BY DEF Crash, Restart
<1>2. KeysInv'
  BY <1>1, NewSigningOK
<1>3. bearer' = [q \in Request |-> IF q \in Request THEN NoBearer ELSE bearer[q]]
  BY <1>1
<1> QED BY <1>1, <1>2, <1>3, BearersForgotten

(* The other steps of requests leave the tokens, and none begins anew.      *)
LEMMA TokensRead ==
  ASSUME TokensInv, ReadsInv, NEW r \in Request,
         \/ admit(r) \/ handle(r) \/ deadline(r)
         \/ \E event \in Events : responseEvent(r, event)
  PROVE  KeptStep
<1>1. UNCHANGED <<session, tokens>>
  BY DEF admit, handle, deadline, responseEvent, Apart
<1>2. response[r] \in Responses /\ response[r].at \in {"auth", "handling", "sent"}
  BY DEF ReadsInv, admit, handle, deadline, responseEvent
<1>3. response[r] \in Live
  BY <1>2, LiveResponse
<1>4. \E next : Turns(r, next) /\ next.at # "new"
  <2>1. /\ [response[r] EXCEPT !.at = "over"].at = "over"
        /\ [response[r] EXCEPT !.at = "sent"].at = "sent"
        /\ [response[r] EXCEPT !.at = "handling", !.settled = response[r].ended].at = "handling"
        /\ [response[r] EXCEPT !.ended = TRUE, !.settled = TRUE].at = response[r].at
    BY <1>3 DEF Live
  <2>2. CASE admit(r)
    <3>1. \/ Turns(r, [response[r] EXCEPT !.at = "over"])
          \/ Turns(r, [response[r] EXCEPT !.at = "handling", !.settled = response[r].ended])
      BY <2>2 DEF admit
    <3> QED BY <2>1, <3>1
  <2>3. CASE handle(r)
    BY <2>1, <2>3 DEF handle
  <2>4. CASE deadline(r)
    <3>1. Turns(r, [response[r] EXCEPT !.ended = TRUE, !.settled = TRUE])
      BY <2>4 DEF deadline
    <3> QED BY <1>2, <2>1, <3>1
  <2>5. CASE \E event \in Events : responseEvent(r, event)
    <3>1. PICK event \in Events : responseEvent(r, event)
      BY <2>5
    <3> DEFINE more == response[r].emitted \cup {event}
               next == [response[r] EXCEPT !.ended = TRUE, !.settled = TRUE, !.emitted = more]
    <3>2. Turns(r, next)
      BY <3>1 DEF responseEvent
    <3> HIDE DEF more
    <3>3. next.at = response[r].at
      BY <1>3 DEF Live
    <3> HIDE DEF next
    <3> QED BY <1>2, <3>2, <3>3
  <2> QED BY <2>2, <2>3, <2>4, <2>5
<1>5. \A q \in Request : response'[q].at = "new" => response[q].at = "new"
  BY <1>4 DEF Turns, ReadsInv
<1> QED BY <1>1, <1>5, TokensFrame

------------------------------------------------------------------------------
(* The issuer, the clock, and all steps.                                    *)

LEMMA RotateStep ==
  ASSUME TokensInv, UNCHANGED <<session, response>>, NEW k \in Key, Rotate(k)
  PROVE  KeptStep
<1>1. UNCHANGED <<signing, bearer>>
  BY DEF Rotate
<1> DEFINE at == IF issuer[k].at = "future" THEN "published" ELSE "withdrawn"
<1>2. /\ issuer' = [issuer EXCEPT ![k] = [at |-> at, since |-> 0]]
      /\ at \in {"published", "withdrawn"}
  BY DEF Rotate
<1> HIDE DEF at
<1>3. /\ issuer' \in Issuers
      /\ \A l \in Key : issuer'[l] = issuer[l] \/ issuer'[l].since = 0
  BY <1>2 DEF TokensInv, Issuers
<1>4. WithdrawnOK'
  <2> SUFFICES ASSUME NEW l \in Key, issuer'[l].since = 0, l \in signing.keys
               PROVE  issuer'[l].since + signing.fresh <= KeysTtl + 1
    BY <1>1, <1>3 DEF TokensInv, WithdrawnOK
  <2>1. signing.fresh \in 0 .. KeysTtl
    BY DEF TokensInv, Signings
  <2> QED BY <2>1, Ttls
<1>5. PublishedOK'
  <2> SUFFICES ASSUME NEW l \in Key, issuer'[l].since = 0
               PROVE  /\ issuer'[l].since + signing.unknown[l] <= NegativeTtl + 1
                      /\ issuer'[l].since + signing.cooldown <= Cooldown + 1
    BY <1>1, <1>3 DEF TokensInv, PublishedOK
  <2>1. signing.unknown[l] \in 0 .. NegativeTtl /\ signing.cooldown \in 0 .. Cooldown
    BY DEF TokensInv, Signings
  <2> QED BY <2>1, Ttls
<1>6. AskedOK'
  <2> SUFFICES ASSUME NEW r \in Request, Waiting(r)
               PROVE  Within(bearer[r].asked, IF bearer[r].late THEN 1 ELSE 0)'
    BY <1>1 DEF AskedOK, Waiting
  <2>1. Within(bearer[r].asked, IF bearer[r].late THEN 1 ELSE 0)
    BY DEF TokensInv, AskedOK
  <2> QED BY <1>1, <1>3, <2>1 DEF Within
<1>7. KidsOK'
  BY <1>1 DEF TokensInv, KidsOK
<1>8. SoonStep /\ ExpireStep
  BY <1>1 DEF SoonStep, ExpireStep, Becomes
<1> QED BY <1>1, <1>3, <1>4, <1>5, <1>6, <1>7, <1>8 DEF TokensInv, KeptStep

LEMMA LessOf ==
  ASSUME NEW n \in Nat
  PROVE  \A m \in 0 .. n : Less(m) \in 0 .. n /\ (Less(m) > 0 => Less(m) + 1 = m)
BY DEF Less

LEMMA TickStep ==
  ASSUME TokensInv, UNCHANGED <<session, response>>, Tick
  PROVE  KeptStep
<1>1. /\ issuer \in Issuers /\ signing \in Signings
      /\ bearer \in [Request -> BearerRecords]
      /\ Longest \in Nat /\ Longest = KeysTtl + NegativeTtl + 1
  BY Ttls DEF TokensInv, Longest
<1>2. issuer' = [k \in Key |->
        IF issuer[k].at = "future" \/ issuer[k].since = Longest THEN issuer[k]
        ELSE [issuer[k] EXCEPT !.since = @ + 1]]
  BY DEF Tick
<1>3. \A k \in Key : /\ issuer'[k] \in [at : {"future", "published", "withdrawn"}, since : Nat]
                     /\ issuer'[k].at = issuer[k].at
                     /\ issuer'[k].since \in {issuer[k].since, issuer[k].since + 1}
                     /\ issuer[k].at # "future" /\ issuer'[k].since = issuer[k].since
                          => issuer[k].since = Longest
  <2> SUFFICES ASSUME NEW k \in Key
               PROVE  /\ issuer'[k] \in [at : {"future", "published", "withdrawn"}, since : Nat]
                      /\ issuer'[k].at = issuer[k].at
                      /\ issuer'[k].since \in {issuer[k].since, issuer[k].since + 1}
                      /\ issuer[k].at # "future" /\ issuer'[k].since = issuer[k].since
                          => issuer[k].since = Longest
    OBVIOUS
  <2>1. PICK a \in {"future", "published", "withdrawn"}, n \in Nat :
          issuer[k] = [at |-> a, since |-> n]
    BY <1>1 DEF Issuers
  <2>2. issuer'[k] = IF a = "future" \/ n = Longest THEN [at |-> a, since |-> n]
                     ELSE [at |-> a, since |-> n + 1]
    BY <1>2, <2>1
  <2> HIDE DEF Longest
  <2> QED BY <2>1, <2>2
<1>4. issuer' \in Issuers
  BY <1>2, <1>3 DEF Issuers
<1>5. /\ signing' \in Signings /\ signing'.keys = signing.keys
      /\ signing'.fresh = Less(signing.fresh) /\ signing'.cooldown = Less(signing.cooldown)
      /\ \A k \in Key : signing'.unknown[k] = Less(signing.unknown[k])
  <2>1. PICK ks \in SUBSET Key, f \in 0 .. KeysTtl, c \in 0 .. Cooldown,
             u \in [Key -> 0 .. NegativeTtl] :
          signing = [keys |-> ks, fresh |-> f, cooldown |-> c, unknown |-> u]
    BY <1>1 DEF Signings
  <2> DEFINE n == UnknownLess(u)  f1 == Less(f)  c1 == Less(c)
  <2>2. /\ f1 \in 0 .. KeysTtl /\ c1 \in 0 .. Cooldown
        /\ n \in [Key -> 0 .. NegativeTtl] /\ \A k \in Key : n[k] = Less(u[k])
    BY Ttls, LessOf DEF UnknownLess
  <2>3. signing' = [[[signing EXCEPT !.fresh = f1] EXCEPT !.cooldown = c1] EXCEPT !.unknown = n]
    BY <2>1 DEF Tick
  <2> HIDE DEF n, f1, c1
  <2>4. signing' = [keys |-> ks, fresh |-> f1, cooldown |-> c1, unknown |-> n]
    BY <2>1, <2>3
  <2> QED BY <2>1, <2>2, <2>4 DEF Signings, f1, c1
<1>6. WithdrawnOK'
  <2> SUFFICES ASSUME NEW k \in Key, issuer[k].at = "withdrawn", k \in signing.keys,
                      signing'.fresh > 0
               PROVE  issuer'[k].since + signing'.fresh <= KeysTtl + 1
    BY <1>3, <1>5 DEF WithdrawnOK
  <2>1. signing.fresh \in 0 .. KeysTtl /\ issuer[k].since \in Nat
    BY <1>1 DEF Signings, Issuers
  <2>2. signing'.fresh \in Nat /\ signing'.fresh + 1 = signing.fresh
    BY <1>5, <2>1, Ttls, LessOf
  <2>3. issuer[k].since + signing.fresh <= KeysTtl + 1
    BY <2>1, <2>2 DEF TokensInv, WithdrawnOK
  <2>4. issuer'[k].since \in {issuer[k].since, issuer[k].since + 1}
    BY <1>3
  <2> QED BY <2>1, <2>2, <2>3, <2>4, Ttls
<1>7. PublishedOK'
  <2> SUFFICES ASSUME NEW k \in Key, issuer[k].at = "published"
               PROVE  /\ signing'.unknown[k] > 0
                           => issuer'[k].since + signing'.unknown[k] <= NegativeTtl + 1
                      /\ signing'.cooldown > 0 /\ signing.keys # {} /\ k \notin signing.keys
                           => issuer'[k].since + signing'.cooldown <= Cooldown + 1
    BY <1>3, <1>5 DEF PublishedOK
  <2>1. /\ signing.unknown[k] \in 0 .. NegativeTtl /\ signing.cooldown \in 0 .. Cooldown
        /\ issuer[k].since \in Nat
    BY <1>1 DEF Signings, Issuers
  <2>2. issuer'[k].since \in {issuer[k].since, issuer[k].since + 1}
    BY <1>3
  <2>3. /\ signing.unknown[k] > 0 => issuer[k].since + signing.unknown[k] <= NegativeTtl + 1
        /\ signing.cooldown > 0 /\ signing.keys # {} /\ k \notin signing.keys
             => issuer[k].since + signing.cooldown <= Cooldown + 1
    BY DEF TokensInv, PublishedOK
  <2>4. /\ signing'.unknown[k] \in Nat
        /\ signing'.unknown[k] > 0 => signing'.unknown[k] + 1 = signing.unknown[k]
    BY <1>5, <2>1, Ttls, LessOf
  <2>5. /\ signing'.cooldown \in Nat
        /\ signing'.cooldown > 0 => signing'.cooldown + 1 = signing.cooldown
    BY <1>5, <2>1, Ttls, LessOf
  <2>6. signing'.unknown[k] > 0
          => issuer'[k].since + signing'.unknown[k] <= NegativeTtl + 1
    BY <2>1, <2>2, <2>3, <2>4, Ttls
  <2>7. signing'.cooldown > 0 /\ signing.keys # {} /\ k \notin signing.keys
          => issuer'[k].since + signing'.cooldown <= Cooldown + 1
    BY <2>1, <2>2, <2>3, <2>5, Ttls
  <2> QED BY <2>6, <2>7
<1>8. /\ bearer' \in [Request -> BearerRecords]
      /\ \A r \in Request : /\ bearer'[r].at = bearer[r].at /\ bearer'[r].kid = bearer[r].kid
                            /\ bearer'[r].asked = bearer[r].asked
                            /\ Waiting(r) => ~bearer[r].late /\ bearer'[r].late
  <2>1. bearer' = [r \in Request |->
          IF Waiting(r) THEN [bearer[r] EXCEPT !.late = TRUE] ELSE bearer[r]]
    BY DEF Tick
  <2>2. \A r \in Request : /\ bearer'[r] \in BearerRecords
                           /\ bearer'[r].at = bearer[r].at /\ bearer'[r].kid = bearer[r].kid
                           /\ bearer'[r].asked = bearer[r].asked
                           /\ Waiting(r) => bearer'[r].late
    BY <1>1, <2>1 DEF BearerRecords
  <2>3. \A r \in Request : Waiting(r) => ~bearer[r].late
    BY DEF Tick
  <2> QED BY <2>1, <2>2, <2>3
<1>9. AskedOK'
  <2> SUFFICES ASSUME NEW r \in Request, Waiting(r), bearer'[r].late
               PROVE  Within(bearer[r].asked, 1)'
    BY <1>8 DEF AskedOK, Waiting, Within
  <2>1. Within(bearer[r].asked, 0)
    BY <1>8 DEF TokensInv, AskedOK
  <2>2. \A k \in Key : issuer[k].since <= 0 => issuer'[k].since <= 1
    BY <1>1, <1>3 DEF Issuers
  <2> QED BY <1>3, <1>8, <2>1, <2>2 DEF Within
<1>10. KidsOK'
  BY <1>8 DEF TokensInv, KidsOK
<1>11. SoonStep /\ ExpireStep
  BY <1>8 DEF SoonStep, ExpireStep, Becomes
<1> QED BY <1>4, <1>5, <1>6, <1>7, <1>8, <1>9, <1>10, <1>11 DEF TokensInv, KeptStep

LEMMA TokensInit == Init => TokensInv
<1> SUFFICES ASSUME Init PROVE TokensInv
  OBVIOUS
<1>1. /\ session \in Session /\ BearerInit(session.published)
  BY DEF Init
<1>2. /\ signing = NewSigning /\ NewSigning \in Signings
      /\ \A k \in Key : signing.unknown[k] = 0
      /\ signing.fresh = 0 /\ signing.cooldown = 0 /\ signing.keys = {}
  BY <1>1, Ttls DEF BearerInit, NewSigning, Signings
<1>3. issuer \in Issuers
  <2>1. Longest \in Nat
    BY Ttls DEF Longest
  <2>2. issuer = [k \in Key |-> IF k \in session.published
                               THEN [at |-> "published", since |-> Longest]
                               ELSE [at |-> "future", since |-> 0]]
    BY <1>1 DEF BearerInit
  <2> HIDE DEF Longest
  <2> QED BY <2>1, <2>2 DEF Issuers
<1>4. /\ bearer \in [Request -> BearerRecords]
      /\ \A r \in Request : bearer[r].at = "none" /\ bearer[r].kid = 0
  BY <1>1 DEF BearerInit, NoBearer, BearerRecords
<1>5. KidsOK /\ AskedOK
  BY <1>4 DEF KidsOK, AskedOK, Waiting
<1>6. WithdrawnOK /\ PublishedOK
  BY <1>2 DEF WithdrawnOK, PublishedOK
<1> QED BY <1>1, <1>2, <1>3, <1>4, <1>5, <1>6 DEF TokensInv

LEMMA TokensNext == TokensInv /\ SlotsInv /\ [Next]_vars => KeptStep
<1> SUFFICES ASSUME TokensInv, SlotsInv, [Next]_vars PROVE KeptStep
  OBVIOUS
<1>1. ReadsInv
  BY DEF SlotsInv
<1>2. CASE UNCHANGED <<session, tokens, response>>
  BY <1>2, TokensFrame
<1>3. ASSUME NEW c \in Call, acquireHeavyweightLease(c) \/ CallGoesOn(c)
      PROVE  KeptStep
  <2>1. Aside
    BY <1>3 DEF acquireHeavyweightLease, CallGoesOn, look, fetch, stage,
                registerDownload, input, prepare, spawn, childEnds, childCloses
  <2> QED BY <1>2, <2>1 DEF Aside
<1>4. ASSUME NEW r \in Request, authorize(r)
      PROVE  KeptStep
  <2>1. UNCHANGED <<session, response>> /\ Verify(r)
    BY <1>4 DEF authorize, Apart
  <2> QED BY <2>1, VerifyStep, CachedStep, RefreshStep DEF Verify
<1>5. ASSUME NEW r \in Request,
             \/ arrive(r) \/ answer(r) \/ admit(r) \/ handle(r) \/ deadline(r)
             \/ \E event \in Events : responseEvent(r, event)
      PROVE  KeptStep
  BY <1>1, <1>5, TokensArrive, TokensAnswer, TokensRead
<1>6. CASE PruneTimer \/ TimePasses \/ AccountChange \/ UNCHANGED vars
  <2>1. UNCHANGED <<session, tokens, response>>
    BY <1>6 DEF PruneTimer, TimePasses, AccountChange, vars, tokens
  <2> QED BY <1>2, <2>1
<1>7. CASE Crash
  BY <1>1, <1>7, TokensCrash
<1>8. CASE KeysChange
  <2>1. UNCHANGED <<session, response>>
    BY <1>8 DEF KeysChange, Apart
  <2> QED BY <1>8, <2>1, TickStep, RotateStep DEF KeysChange
<1> QED BY <1>3, <1>4, <1>5, <1>6, <1>7, <1>8 DEF Next, Events

(* What the server knows of keys is never older than it may be, whatever    *)
(* answers cross, requests join, and the issuer rotates: TokensInv relates  *)
(* the time a key has been published or withdrawn to the time for which     *)
(* what the server learned before will still be used.                       *)
THEOREM TokensHold == Spec => []TokensInv
<1>1. TokensInv /\ SlotsInv /\ [Next]_vars => TokensInv'
  BY TokensNext DEF KeptStep
<1> QED BY <1>1, TokensInit, SlotsInit, SlotsNext, PTL DEF Spec

(* A token whose key has been published for as long as an unknown key is    *)
(* remembered is not refused for its key (refreshJwksForUnknownKid,         *)
(* cachedJson).                                                             *)
THEOREM NewKeysAccepted == Spec => NewKeySoonAccepted
<1>1. TokensInv /\ SlotsInv /\ [Next]_vars => TokensInv' /\ [SoonStep]_bearer
  BY TokensNext DEF KeptStep
<1> QED BY <1>1, TokensInit, SlotsInit, SlotsNext, PTL DEF Spec, NewKeySoonAccepted, SoonStep

(* A token whose key has been withdrawn for as long as keys are kept is not *)
(* accepted (cachedJson, verifyBearerToken).                                *)
THEOREM WithdrawnKeysExpire == Spec => WithdrawnKeyExpires
<1>1. TokensInv /\ SlotsInv /\ [Next]_vars => TokensInv' /\ [ExpireStep]_bearer
  BY TokensNext DEF KeptStep
<1> QED BY <1>1, TokensInit, SlotsInit, SlotsNext, PTL DEF Spec, WithdrawnKeyExpires, ExpireStep
=============================================================================
