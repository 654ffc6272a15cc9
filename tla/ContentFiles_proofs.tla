-------------------------- MODULE ContentFiles_proofs --------------------------
(***************************************************************************)
(* The safety of files and what names them, for any number of users,       *)
(* threads, files and messages.  The invariant follows a key: it is in the *)
(* hands of the thread that stored the file until a row, a user or the     *)
(* configuration names it; from then on it is old, and an old key that     *)
(* nothing names is never named again.  What a request removes is such a   *)
(* dead key, however long ago it was read.  The counter of the quota is    *)
(* the sum of what is stored and of what the requests under way are due.   *)
(***************************************************************************)
EXTENDS ContentFiles, FiniteSetTheorems, TLAPS

-----------------------------------------------------------------------------
(* Finite sets: a way to do induction over them, least elements and sums    *)

\* Among some subsets of a finite set one has none of the others in it.  To prove
\* something of every finite set, suppose it fails, and look at such a one.
LEMMA SmallestSet ==
    ASSUME NEW S, IsFiniteSet(S), NEW T, T \subseteq SUBSET S, T # {}
    PROVE  \E x \in T : \A y \in T : y \subseteq x => y = x
<1>1. IsWellFoundedOn(StrictSubsetOrdering(S), SUBSET S)
  BY FS_StrictSubsetOrderingWellFounded, FS_FiniteSubsetsOfFinite
<1>2. \E x \in T : \A y \in T : ~ (<<y, x>> \in StrictSubsetOrdering(S))
  BY <1>1, WFMin
<1> QED
  BY <1>2 DEF StrictSubsetOrdering

\* A finite set of numbers has a least one.
LEMMA LeastIs ==
    ASSUME NEW S, IsFiniteSet(S), S # {}, \A k \in S : k \in Int
    PROVE  \E x \in S : \A y \in S : x <= y
<1> DEFINE Below(k) == {j \in S : j <= k}
           D == {Below(k) : k \in S}
<1>1. D \subseteq SUBSET S /\ D # {}
  OBVIOUS
<1>2. PICK z \in D : \A y \in D : y \subseteq z => y = z
  <2> HIDE DEF D
  <2> QED
    BY <1>1, SmallestSet
<1>3. PICK m \in S : z = Below(m)
  BY <1>2
<1>4. ASSUME NEW k \in S, ~(m <= k)
      PROVE  FALSE
  <2>1. k < m
    BY <1>4
  <2>2. Below(k) \in D
    OBVIOUS
  <2>3. Below(k) \subseteq Below(m)
    BY <2>1
  <2>4. m \in Below(m) /\ m \notin Below(k)
    BY <2>1
  <2> HIDE DEF D, Below
  <2> QED
    BY <2>2, <2>3, <2>4, <1>2, <1>3
<1> QED
  BY <1>4

\* Min picks an element.
LEMMA MinIs ==
    ASSUME NEW n \in Nat, NEW S, S \subseteq 1..n, S # {}
    PROVE  Min(S) \in S
<1>1. IsFiniteSet(1..n)
  BY FS_Interval
<1>2. IsFiniteSet(S)
  BY <1>1, FS_Subset
<1>3. \A k \in S : k \in Int
  OBVIOUS
<1> HIDE DEF Min
<1>4. \E x \in S : \A y \in S : x <= y
  BY <1>2, <1>3, LeastIs
<1> QED
  BY <1>4, Zenon DEF Min

Sum(f, S) == MapThenSumSet(LAMBDA k : f[k], S)

First(S) == CHOOSE x \in S : TRUE

\* g is the recursion by which a sum is computed, on the subsets of T.
Sums(f, g, T) ==
    g = [s \in SUBSET T |-> IF s = {} THEN 0 ELSE f[First(s)] + g[s \ {First(s)}]]

\* The sum is taken by a function that the fold chooses; this names it.
LEMMA SumIs ==
    ASSUME NEW f, NEW S
    PROVE  Sum(f, S) = (CHOOSE g : Sums(f, g, S))[S]
BY Zenon DEF Sum, Sums, First, MapThenSumSet, MapThenFoldSet

\* Two such functions agree wherever both are defined.
LEMMA SumsAgree ==
    ASSUME NEW f, NEW T, NEW U, IsFiniteSet(T), NEW g, NEW h, Sums(f, g, T), Sums(f, h, U)
    PROVE  \A s \in SUBSET (T \cap U) : g[s] = h[s]
<1> SUFFICES ASSUME NEW s0 \in SUBSET (T \cap U), g[s0] # h[s0]
             PROVE  FALSE
  OBVIOUS
<1> DEFINE Bad == {s \in SUBSET (T \cap U) : g[s] # h[s]}
<1>1. Bad \subseteq SUBSET T /\ Bad # {}
  OBVIOUS
<1>2. PICK s \in Bad : \A y \in Bad : y \subseteq s => y = s
  <2> HIDE DEF Bad
  <2> QED
    BY <1>1, SmallestSet
<1>3. s # {} => First(s) \in s
  BY DEF First
<1>4. s \ {First(s)} \in SUBSET (T \cap U)
  OBVIOUS
<1>5. s # {} => g[s \ {First(s)}] = h[s \ {First(s)}]
  BY <1>2, <1>3, <1>4
<1>6. g[s] = IF s = {} THEN 0 ELSE f[First(s)] + g[s \ {First(s)}]
  BY DEF Sums
<1>7. h[s] = IF s = {} THEN 0 ELSE f[First(s)] + h[s \ {First(s)}]
  BY DEF Sums
<1> QED
  BY <1>5, <1>6, <1>7

\* There is such a function for every finite set.
LEMMA SumsExist ==
    ASSUME NEW f, NEW S, IsFiniteSet(S)
    PROVE  \E g : Sums(f, g, S)
<1> SUFFICES ASSUME ~ \E g : Sums(f, g, S)
             PROVE  FALSE
  OBVIOUS
<1> DEFINE Bad == {T \in SUBSET S : ~ \E g : Sums(f, g, T)}
<1>1. Bad \subseteq SUBSET S /\ Bad # {}
  OBVIOUS
<1>2. PICK T \in Bad : \A y \in Bad : y \subseteq T => y = T
  <2> HIDE DEF Bad
  <2> QED
    BY <1>1, SmallestSet
<1> DEFINE G(U) == CHOOSE g : Sums(f, g, U)
           V(U) == G(U)[U]
           h == [s \in SUBSET T |-> IF s = {} THEN 0 ELSE f[First(s)] + V(s \ {First(s)})]
<1>3. ASSUME NEW U \in SUBSET T, U # T
      PROVE  Sums(f, G(U), U) /\ IsFiniteSet(U)
  <2>1. U \in SUBSET S /\ U \notin Bad
    BY <1>2, <1>3
  <2>2. \E g : Sums(f, g, U)
    BY <2>1
  <2>3. IsFiniteSet(U)
    BY <2>1, FS_Subset
  <2> QED
    BY <2>2, <2>3
<1>4. ASSUME NEW s \in SUBSET T, s # {}
      PROVE  h[s \ {First(s)}] = V(s \ {First(s)})
  <2> DEFINE u == s \ {First(s)}
  <2>1. u \in SUBSET T /\ u # T /\ First(s) \in s
    BY <1>4 DEF First
  <2>2. Sums(f, G(u), u)
    BY <1>3, <2>1
  <2>3. G(u)[u] = IF u = {} THEN 0 ELSE f[First(u)] + G(u)[u \ {First(u)}]
    <3> HIDE DEF G, u
    <3> QED
      BY <2>2 DEF Sums
  <2>4. CASE u = {}
    BY <2>1, <2>3, <2>4
  <2>5. CASE u # {}
    <3> DEFINE w == u \ {First(u)}
    <3>1. w \in SUBSET T /\ w # T /\ w \subseteq u
      BY <2>1
    <3>2. Sums(f, G(w), w) /\ IsFiniteSet(w)
      BY <1>3, <3>1
    <3>3. G(w)[w] = G(u)[w]
      <4> HIDE DEF G, u, w
      <4>1. \A x \in SUBSET (w \cap u) : G(w)[x] = G(u)[x]
        BY <3>2, <2>2, SumsAgree
      <4> QED
        BY <4>1, <3>1
    <3>4. h[u] = f[First(u)] + V(w)
      <4> HIDE DEF V
      <4> QED
        BY <2>1, <2>5
    <3> QED
      BY <2>3, <2>5, <3>3, <3>4
  <2> QED
    BY <2>4, <2>5
<1>5. Sums(f, h, T)
  <2> HIDE DEF V
  <2>1. h = [s \in SUBSET T |-> IF s = {} THEN 0 ELSE f[First(s)] + h[s \ {First(s)}]]
    BY <1>4
  <2> QED
    BY <2>1 DEF Sums
<1> QED
  BY <1>2, <1>5

\* How a sum is taken: an empty one is zero, and another is its first element
\* and the sum of the rest.
LEMMA SumTaken ==
    ASSUME NEW f, NEW S, IsFiniteSet(S)
    PROVE  /\ Sum(f, {}) = 0
           /\ S # {} => First(S) \in S /\ Sum(f, S) = f[First(S)] + Sum(f, S \ {First(S)})
<1> DEFINE G(U) == CHOOSE g : Sums(f, g, U)
<1>1. \A T : IsFiniteSet(T) => Sums(f, G(T), T)
  BY SumsExist
<1>2. \A T : Sum(f, T) = G(T)[T]
  BY SumIs
<1> HIDE DEF G
<1>3. Sum(f, {}) = 0
  <2>1. Sums(f, G({}), {})
    BY <1>1, FS_EmptySet
  <2> QED
    BY <1>2, <2>1 DEF Sums
<1>4. ASSUME S # {}
      PROVE  First(S) \in S /\ Sum(f, S) = f[First(S)] + Sum(f, S \ {First(S)})
  <2> DEFINE w == S \ {First(S)}
  <2>1. First(S) \in S
    BY <1>4 DEF First
  <2>2. IsFiniteSet(w)
    BY FS_RemoveElement
  <2>3. Sums(f, G(S), S) /\ Sums(f, G(w), w)
    BY <1>1, <2>2
  <2>4. G(S)[S] = f[First(S)] + G(S)[w]
    BY <1>4, <2>3 DEF Sums
  <2>5. G(S)[w] = G(w)[w]
    <3>1. \A x \in SUBSET (S \cap w) : G(S)[x] = G(w)[x]
      <4> HIDE DEF w
      <4> QED
        BY <2>3, SumsAgree
    <3> QED
      BY <3>1
  <2> QED
    BY <1>2, <2>1, <2>4, <2>5
<1> QED
  BY <1>3, <1>4

\* A sum of natural numbers is one.
LEMMA SumIsNat ==
    ASSUME NEW f, NEW S, IsFiniteSet(S), \A k \in S : f[k] \in Nat
    PROVE  Sum(f, S) \in Nat
<1> SUFFICES ASSUME Sum(f, S) \notin Nat
             PROVE  FALSE
  OBVIOUS
<1> DEFINE Bad == {T \in SUBSET S : Sum(f, T) \notin Nat}
<1>1. Bad \subseteq SUBSET S /\ Bad # {}
  OBVIOUS
<1>2. PICK T \in Bad : \A y \in Bad : y \subseteq T => y = T
  <2> HIDE DEF Bad
  <2> QED
    BY <1>1, SmallestSet
<1>3. IsFiniteSet(T)
  BY FS_Subset
<1>4. /\ Sum(f, {}) = 0
      /\ T # {} => First(T) \in T /\ Sum(f, T) = f[First(T)] + Sum(f, T \ {First(T)})
  BY <1>3, SumTaken
<1>5. T # {}
  BY <1>4
<1>6. Sum(f, T \ {First(T)}) \in Nat
  BY <1>2, <1>4, <1>5
<1> QED
  BY <1>4, <1>5, <1>6

\* A sum depends on what is summed only.
LEMMA SumSame ==
    ASSUME NEW f, NEW g, NEW S, IsFiniteSet(S), \A k \in S : f[k] = g[k]
    PROVE  Sum(f, S) = Sum(g, S)
<1> SUFFICES ASSUME Sum(f, S) # Sum(g, S)
             PROVE  FALSE
  OBVIOUS
<1> DEFINE Bad == {T \in SUBSET S : Sum(f, T) # Sum(g, T)}
<1>1. Bad \subseteq SUBSET S /\ Bad # {}
  OBVIOUS
<1>2. PICK T \in Bad : \A y \in Bad : y \subseteq T => y = T
  <2> HIDE DEF Bad
  <2> QED
    BY <1>1, SmallestSet
<1>3. IsFiniteSet(T)
  BY FS_Subset
<1>4. /\ Sum(f, {}) = 0
      /\ T # {} => First(T) \in T /\ Sum(f, T) = f[First(T)] + Sum(f, T \ {First(T)})
  BY <1>3, SumTaken
<1>5. /\ Sum(g, {}) = 0
      /\ T # {} => First(T) \in T /\ Sum(g, T) = g[First(T)] + Sum(g, T \ {First(T)})
  BY <1>3, SumTaken
<1>6. T # {}
  BY <1>4, <1>5
<1>7. Sum(f, T \ {First(T)}) = Sum(g, T \ {First(T)})
  BY <1>2, <1>4, <1>6
<1> QED
  BY <1>4, <1>5, <1>6, <1>7

\* Any element can be taken out of a sum.
LEMMA SumWithout ==
    ASSUME NEW f, NEW S, IsFiniteSet(S), \A k \in S : f[k] \in Int, NEW x \in S
    PROVE  Sum(f, S) = f[x] + Sum(f, S \ {x}) /\ Sum(f, S \ {x}) \in Int
<1> DEFINE Good(T) == \A k \in T : Sum(f, T) = f[k] + Sum(f, T \ {k}) /\ Sum(f, T \ {k}) \in Int
           Bad == {T \in SUBSET S : ~Good(T)}
<1>1. ASSUME Bad # {}
      PROVE  FALSE
  <2>1. Bad \subseteq SUBSET S
    OBVIOUS
  <2>2. PICK T \in Bad : \A y \in Bad : y \subseteq T => y = T
    <3> HIDE DEF Bad
    <3> QED
      BY <1>1, <2>1, SmallestSet
  <2>3. IsFiniteSet(T)
    BY FS_Subset
  <2>4. PICK k \in T : ~(Sum(f, T) = f[k] + Sum(f, T \ {k}) /\ Sum(f, T \ {k}) \in Int)
    BY <2>2
  <2>5. /\ Sum(f, {}) = 0
        /\ First(T) \in T /\ Sum(f, T) = f[First(T)] + Sum(f, T \ {First(T)})
    BY <2>3, <2>4, SumTaken
  <2> DEFINE m == First(T)
  <2> HIDE DEF m
  <2>6. m \in T /\ Sum(f, T) = f[m] + Sum(f, T \ {m}) /\ f[m] \in Int /\ f[k] \in Int
    BY <2>5 DEF m
  <2>7. Good(T \ {m}) /\ Good(T \ {k})
    <3>1. T \ {m} \in SUBSET S /\ T \ {m} \notin Bad /\ T \ {k} \in SUBSET S /\ T \ {k} \notin Bad
      BY <2>2, <2>4, <2>6
    <3> QED
      BY <3>1
  <2> DEFINE W == T \ {m}
             V == T \ {k}
  <2>8. Sum(f, W) \in Int
    <3>1. CASE W = {}
      BY <2>5, <3>1
    <3>2. CASE W # {}
      <4>1. PICK j \in W : TRUE
        BY <3>2
      <4>2. Sum(f, W) = f[j] + Sum(f, W \ {j}) /\ Sum(f, W \ {j}) \in Int
        BY <2>7
      <4>3. f[j] \in Int
        OBVIOUS
      <4> QED
        BY <4>2, <4>3
    <3> QED
      BY <3>1, <3>2
  <2>9. CASE m = k
    BY <2>4, <2>6, <2>8, <2>9
  <2>10. CASE m # k
    <3>1. k \in W /\ m \in V /\ W \ {k} = V \ {m}
      BY <2>6, <2>10
    <3>2. Sum(f, W) = f[k] + Sum(f, W \ {k}) /\ Sum(f, W \ {k}) \in Int
      BY <2>7, <3>1
    <3>3. Sum(f, V) = f[m] + Sum(f, V \ {m})
      BY <2>7, <3>1
    <3>4. Sum(f, V) = f[m] + Sum(f, W \ {k})
      BY <3>1, <3>3
    <3> QED
      BY <2>4, <2>6, <3>2, <3>4
  <2> QED
    BY <2>9, <2>10
<1>2. S \notin Bad
  BY <1>1
<1> QED
  BY <1>2

\* Two sets with nothing in common.
LEMMA SumOfBoth ==
    ASSUME NEW f, NEW S, NEW T, IsFiniteSet(S), IsFiniteSet(T), S \cap T = {},
           \A k \in S \cup T : f[k] \in Int
    PROVE  Sum(f, S \cup T) = Sum(f, S) + Sum(f, T)
<1> DEFINE Bad == {U \in SUBSET S : Sum(f, U \cup T) # Sum(f, U) + Sum(f, T)}
<1>a. ASSUME NEW U \in SUBSET (S \cup T)
      PROVE  IsFiniteSet(U) /\ \A k \in U : f[k] \in Int
  <2>1. IsFiniteSet(S \cup T)
    BY FS_Union
  <2> QED
    BY <2>1, FS_Subset
<1>b. ASSUME NEW U \in SUBSET (S \cup T), NEW x \in U
      PROVE  Sum(f, U) = f[x] + Sum(f, U \ {x}) /\ Sum(f, U) \in Int
  <2>1. IsFiniteSet(U) /\ \A k \in U : f[k] \in Int
    BY <1>a
  <2>2. Sum(f, U) = f[x] + Sum(f, U \ {x}) /\ Sum(f, U \ {x}) \in Int
    BY <2>1, SumWithout
  <2> QED
    BY <2>1, <2>2
<1>c. Sum(f, {}) = 0
  BY FS_EmptySet, SumTaken
<1>0. ASSUME NEW U \in SUBSET (S \cup T)
      PROVE  Sum(f, U) \in Int
  <2>1. CASE U = {}
    BY <1>c, <2>1
  <2>2. CASE U # {}
    <3>1. PICK x \in U : TRUE
      BY <2>2
    <3> QED
      BY <1>b
  <2> QED
    BY <2>1, <2>2
<1>1. ASSUME Bad # {}
      PROVE  FALSE
  <2>1. Bad \subseteq SUBSET S
    OBVIOUS
  <2>2. PICK U \in Bad : \A y \in Bad : y \subseteq U => y = U
    <3> HIDE DEF Bad
    <3> QED
      BY <1>1, <2>1, SmallestSet
  <2>3. U \in SUBSET (S \cup T) /\ U \cup T \in SUBSET (S \cup T) /\ T \in SUBSET (S \cup T)
    BY <2>1, <2>2
  <2>4. CASE U = {}
    <3>1. Sum(f, U) = 0
      BY <2>4, <1>c
    <3>2. Sum(f, U \cup T) = Sum(f, T)
      <4>1. U \cup T = T
        BY <2>4
      <4> QED
        BY <4>1
    <3>3. Sum(f, T) \in Int
      BY <1>0, <2>3
    <3>4. Sum(f, U \cup T) # Sum(f, U) + Sum(f, T)
      BY <2>2
    <3> QED
      BY <3>1, <3>2, <3>3, <3>4
  <2>5. CASE U # {}
    <3>1. PICK x \in U : TRUE
      BY <2>5
    <3>2. U \ {x} \notin Bad /\ U \ {x} \in SUBSET S
      BY <2>1, <2>2
    <3>3. Sum(f, (U \ {x}) \cup T) = Sum(f, U \ {x}) + Sum(f, T)
      BY <3>2
    <3>4. Sum(f, U) = f[x] + Sum(f, U \ {x})
      BY <1>b, <2>3
    <3>5. Sum(f, U \cup T) = f[x] + Sum(f, (U \cup T) \ {x})
      BY <1>b, <2>3
    <3>6. (U \cup T) \ {x} = (U \ {x}) \cup T
      BY <2>1
    <3>7. f[x] \in Int /\ Sum(f, U \ {x}) \in Int /\ Sum(f, T) \in Int
      BY <1>a, <1>0, <2>3
    <3> QED
      BY <2>2, <3>3, <3>4, <3>5, <3>6, <3>7
  <2> QED
    BY <2>4, <2>5
<1>2. S \notin Bad
  BY <1>1
<1> QED
  BY <1>2

-----------------------------------------------------------------------------
(* Types, and where a request can be                                        *)

USE ContentAssumption DEF talk, files, rows, pictures, icons, bounds, Keys, Messages, NoMessage,
    NoRow, Pending

\* What every deployment keeps to.
LEMMA PlanIs ==
    ASSUME plan \in Plans
    PROVE  /\ plan.keys \in Nat /\ plan.keys <= MaxKeys
           /\ plan.messages \in Nat /\ plan.messages <= MaxMessages
           /\ plan.file \in 1..MaxFile /\ (\A n \in 1..plan.file : n \in 1..MaxFile)
           /\ plan.calls \subseteq AllCalls
           /\ plan.requests \in Nat /\ plan.restarts \in Nat
           /\ \A n \in Int : /\ n < plan.keys => n < MaxKeys
                            /\ n < plan.messages => n < MaxMessages
BY PlansFit

Uploading == {"attach", "picture", "icon", "delivery"}
Saying == {"send", "post"}

\* What a request is, by the step it is at, and what it has in hand there.
FitAt(p, r) ==
    /\ p \in {"write", "giveback", "settle", "recheck", "saved"} => r.call \in Uploading
    /\ p \in {"settle", "recheck", "saved", "point"} => r.key \in Keys
    /\ p \in {"write", "giveback", "settle", "recheck", "saved"} /\ r.call = "picture" =>
           r.who \in Users
    /\ p \in {"point", "unpicture", "clear"} => r.who \in Users
    /\ p = "point" => r.call = "picture"
    /\ p = "create" => r.call \in Saying
    /\ p = "reread" => r.call \in {"attach", "delivery"} \cup Saying
    /\ p \in {"claim", "readback", "announce", "rollback"} => r.call \in {"delivery"} \cup Saying
    /\ p \in {"reread", "claim", "readback", "rollback"} /\ r.call \in Uploading => r.key \in Keys
    /\ p = "reread" /\ r.call # "attach" => r.msg \in Messages
    /\ p \in {"claim", "readback", "announce", "rollback"} => r.msg \in Messages
    /\ p = "delete" => r.call \in {"delete", "deletepost", "channel"}
    /\ p \in {"unlink", "refund"} => r.held # {}
    /\ p = "sweep" => r.stale # {}
    /\ p = "saveicon" => r.call \in {"icon", "clear"}

Fit(t) == FitAt(pc[t], req[t])

\* The thread t goes to the step p with the request r; nobody else moves.
Moved(t, p, r) == pc' = [pc EXCEPT ![t] = p] /\ req' = [req EXCEPT ![t] = r]
Moves(t) == \E p \in Steps, r \in Request : Moved(t, p, r) /\ FitAt(p, r)

\* The types of what the threads share; the flags apart, which the provers treat apart.
SharedOK ==
    /\ disk \subseteq Keys /\ size \in [Keys -> 0..MaxFile]
    /\ minted \in 0..MaxKeys /\ used \in Int /\ members \subseteq Users
    /\ msgs \subseteq Messages /\ written \in 0..MaxMessages /\ posts \subseteq Messages
    /\ thread \in [Messages -> 0..MaxMessages]
    /\ author \in [Messages -> Users \cup {NoUser}]
    /\ row \in [Keys -> 0..(MaxMessages + 1)]
    /\ owner \in [Keys -> Users \cup {NoUser}]
    /\ pic \in [Users -> Keys \cup {NoKey}] /\ shown \in [Users -> Keys \cup {NoKey}]
    /\ icon \in Keys \cup {NoKey} /\ savedIcon \in Keys \cup {NoKey}
    /\ announced \in [Messages -> SUBSET Keys]
    /\ plan \in Plans /\ requests \in 0..plan.requests /\ restarts \in 0..plan.restarts
ThreadsOK == pc \in [Threads -> Steps] /\ req \in [Threads -> Request]

Typed == TypeOK /\ \A t \in Threads : Fit(t)

\* The type invariant in the parts it is proved in.
LEMMA TypesAre == TypeOK <=> SharedOK /\ ThreadsOK /\ channel \in BOOLEAN
BY DEF TypeOK, SharedOK, ThreadsOK

\* What a move leaves where.
LEMMA MovedIs ==
    ASSUME ThreadsOK, NEW t \in Threads, NEW p \in Steps, NEW r \in Request, Moved(t, p, r)
    PROVE  /\ ThreadsOK'
           /\ pc'[t] = p /\ req'[t] = r
           /\ \A u \in Threads \ {t} : pc'[u] = pc[u] /\ req'[u] = req[u]
BY DEF ThreadsOK, Moved

\* A thread that moves leaves every thread where it can be.
LEMMA MovesFit ==
    ASSUME ThreadsOK, \A u \in Threads : Fit(u), NEW t \in Threads, Moves(t)
    PROVE  ThreadsOK' /\ \A u \in Threads : Fit(u)'
<1>1. PICK p \in Steps, r \in Request : Moved(t, p, r) /\ FitAt(p, r)
  BY DEF Moves
<1>2. /\ ThreadsOK'
      /\ pc'[t] = p /\ req'[t] = r
      /\ \A u \in Threads \ {t} : pc'[u] = pc[u] /\ req'[u] = req[u]
  BY <1>1, MovedIs
<1>3. ASSUME NEW u \in Threads
      PROVE  Fit(u)'
  <2> HIDE DEF FitAt
  <2> QED
    BY <1>1, <1>2 DEF Fit
<1> QED
  BY <1>2, <1>3

\* The ways to make a request from another are requests.
LEMMA RequestsAre ==
    /\ NoRequest \in Request
    /\ \A r \in Request : /\ \A ks \in SUBSET Keys : [r EXCEPT !.held = ks] \in Request
                          /\ \A k \in Keys : [r EXCEPT !.key = k] \in Request
                          /\ \A m \in Messages : [r EXCEPT !.msg = m] \in Request
                          /\ \A c \in AllCalls : [r EXCEPT !.call = c] \in Request
                          /\ \A ks \in SUBSET Keys : [r EXCEPT !.stale = ks] \in Request
<1>1. NoRequest \in Request
  BY DEF Request, NoRequest
<1>2. ASSUME NEW r \in Request
      PROVE  /\ \A ks \in SUBSET Keys : [r EXCEPT !.held = ks] \in Request
             /\ \A k \in Keys : [r EXCEPT !.key = k] \in Request
             /\ \A m \in Messages : [r EXCEPT !.msg = m] \in Request
             /\ \A c \in AllCalls : [r EXCEPT !.call = c] \in Request
             /\ \A ks \in SUBSET Keys : [r EXCEPT !.stale = ks] \in Request
  <2> HIDE DEF Keys
  <2>1. \A m \in Messages : m \in 0..MaxMessages
    OBVIOUS
  <2> HIDE DEF Messages
  <2> QED
    BY <2>1 DEF Request
<1> QED
  BY <1>1, <1>2

\* A request that is answered leaves its thread idle.
LEMMA FinishMoves ==
    ASSUME ThreadsOK, NEW t \in Threads, Finish(t)
    PROVE  Moved(t, "idle", NoRequest) /\ Moves(t)
<1>1. "idle" \in Steps /\ NoRequest \in Request /\ FitAt("idle", NoRequest)
  BY RequestsAre DEF Steps, FitAt
<1>2. Moved(t, "idle", NoRequest)
  BY DEF Finish, Goto, Moved
<1> QED
  BY <1>1, <1>2 DEF Moves

\* What a thread has in hand, without quantifiers.
LEMMA InHandIs ==
    ASSUME Typed, NEW t \in Threads
    PROVE  /\ SharedOK /\ ThreadsOK /\ channel \in BOOLEAN
           /\ pc[t] \in Steps /\ req[t] \in Request /\ FitAt(pc[t], req[t])
           /\ req[t].call \in AllCalls \cup {"idle"} /\ req[t].who \in Users \cup {NoUser}
           /\ req[t].key \in Keys \cup {NoKey} /\ req[t].reserved \in 0..MaxFile
           /\ req[t].msg \in 0..MaxMessages /\ req[t].held \subseteq Keys /\
                  req[t].stale \subseteq Keys
<1>1. SharedOK /\ ThreadsOK /\ channel \in BOOLEAN /\ Fit(t)
  BY TypesAre DEF Typed
<1>2. pc[t] \in Steps /\ req[t] \in Request
  BY <1>1 DEF ThreadsOK
<1> HIDE DEF Keys
<1> QED
  BY <1>1, <1>2 DEF Fit, Request

\* Bytes are counted in numbers.
LEMMA BytesAre ==
    ASSUME SharedOK, NEW ks \in SUBSET Keys
    PROVE  Bytes(ks) = Sum(size, ks) /\ Bytes(ks) \in Nat /\ IsFiniteSet(ks)
<1>1. IsFiniteSet(1..MaxKeys)
  BY FS_Interval
<1>2. IsFiniteSet(ks)
  BY <1>1, FS_Subset
<1>3. \A k \in ks : size[k] \in Nat
  BY DEF SharedOK
<1>4. Bytes(ks) = Sum(size, ks)
  BY Zenon DEF Bytes, Sum
<1> QED
  BY <1>2, <1>3, <1>4, SumIsNat

\* What is removed first is a file.
LEMMA FirstHeld ==
    ASSUME Typed, NEW t \in Threads
    PROVE  /\ req[t].held # {} => Min(req[t].held) \in req[t].held
           /\ req[t].stale # {} => Min(req[t].stale) \in req[t].stale
BY InHandIs, MinIs

-----------------------------------------------------------------------------
(* What each step leaves alone                                              *)

\* What each step leaves alone.
LEMMA Frame ==
    ASSUME NEW t \in Threads
    PROVE  /\ Upload(t) => UNCHANGED <<disk, size, minted, channel, msgs, written, posts,
              thread, author, members, row, owner, pic, shown, icon, savedIcon, announced,
              restarts>>
           /\ WriteFile(t) => UNCHANGED <<used, channel, msgs, written, posts, thread,
              author, members, row, owner, pic, shown, icon, savedIcon, announced, requests,
              restarts>>
           /\ GiveBack(t) => UNCHANGED <<disk, size, minted, channel, msgs, written, posts,
              thread, author, members, row, owner, pic, shown, icon, savedIcon, announced,
              requests, restarts>>
           /\ Settle(t) => UNCHANGED <<disk, size, minted, channel, msgs, written, posts,
              thread, author, members, row, owner, pic, shown, icon, savedIcon, announced,
              requests, restarts>>
           /\ Recheck(t) => UNCHANGED <<disk, size, minted, used, channel, msgs, written,
              posts, thread, author, members, row, owner, pic, shown, icon, savedIcon,
              announced, requests, restarts>>
           /\ Unlink(t) => UNCHANGED <<size, minted, used, channel, msgs, written, posts,
              thread, author, members, row, owner, pic, shown, icon, savedIcon, announced,
              requests, restarts>>
           /\ Refund(t) => UNCHANGED <<disk, size, minted, channel, msgs, written, posts,
              thread, author, members, row, owner, pic, shown, icon, savedIcon, announced,
              requests, restarts>>
           /\ Record(t) => UNCHANGED <<disk, size, minted, used, channel, msgs, written,
              posts, thread, author, members, pic, shown, icon, savedIcon, announced,
              requests, restarts>>
           /\ RereadFile(t) => UNCHANGED <<disk, size, minted, used, channel, msgs, written,
              posts, thread, author, members, row, owner, pic, shown, icon, savedIcon,
              announced, requests, restarts>>
           /\ Replace(t) => UNCHANGED <<disk, size, minted, used, channel, msgs, written,
              posts, thread, author, members, row, owner, shown, icon, savedIcon, announced,
              requests, restarts>>
           /\ Point(t) => UNCHANGED <<disk, size, minted, used, channel, msgs, written,
              posts, thread, author, members, row, owner, pic, icon, savedIcon, announced,
              requests, restarts>>
           /\ ReadHeld(t) => UNCHANGED <<disk, size, minted, used, channel, msgs, written,
              posts, thread, author, members, row, owner, pic, shown, icon, savedIcon,
              announced, requests, restarts>>
           /\ ClearMedia(t) => UNCHANGED <<disk, size, minted, used, channel, msgs, written,
              posts, thread, author, members, row, owner, shown, icon, savedIcon, announced,
              requests, restarts>>
           /\ SetServerIcon(t) => UNCHANGED <<disk, size, minted, used, channel, msgs,
              written, posts, thread, author, members, row, owner, pic, shown, savedIcon,
              announced, requests, restarts>>
           /\ SaveIcon(t) => UNCHANGED <<disk, size, minted, used, channel, msgs, written,
              posts, thread, author, members, row, owner, pic, shown, icon, announced,
              requests, restarts>>
           /\ ClearPicture(t) => UNCHANGED <<disk, size, minted, used, channel, msgs,
              written, posts, thread, author, members, row, owner, pic, icon, savedIcon,
              announced, restarts>>
           /\ ClearIcon(t) => UNCHANGED <<disk, size, minted, used, channel, msgs, written,
              posts, thread, author, members, row, owner, pic, shown, savedIcon, announced,
              restarts>>
           /\ SendMessage(t) => UNCHANGED <<disk, size, minted, used, channel, msgs,
              written, posts, thread, author, members, row, owner, pic, shown, icon,
              savedIcon, announced, restarts>>
           /\ CreatePost(t) => UNCHANGED <<disk, size, minted, used, channel, msgs, written,
              posts, thread, author, members, row, owner, pic, shown, icon, savedIcon,
              announced, restarts>>
           /\ CreateRow(t) => UNCHANGED <<disk, size, minted, used, channel, members, row,
              owner, pic, shown, icon, savedIcon, announced, requests, restarts>>
           /\ RereadRow(t) => UNCHANGED <<disk, size, minted, used, channel, msgs, written,
              posts, thread, author, members, row, owner, pic, shown, icon, savedIcon,
              announced, requests, restarts>>
           /\ Claim(t) => UNCHANGED <<disk, size, minted, used, channel, msgs, written,
              posts, thread, author, members, owner, pic, shown, icon, savedIcon, announced,
              requests, restarts>>
           /\ Bind(t) => UNCHANGED <<disk, size, minted, used, channel, msgs, written,
              posts, thread, author, members, owner, pic, shown, icon, savedIcon, announced,
              requests, restarts>>
           /\ ReadBack(t) => UNCHANGED <<disk, size, minted, used, channel, msgs, written,
              posts, thread, author, members, row, owner, pic, shown, icon, savedIcon,
              announced, requests, restarts>>
           /\ Announce(t) => UNCHANGED <<disk, size, minted, used, channel, msgs, written,
              posts, thread, author, members, row, owner, pic, shown, icon, savedIcon,
              requests, restarts>>
           /\ Rollback(t) => UNCHANGED <<disk, size, minted, used, channel, written, thread,
              author, members, owner, pic, shown, icon, savedIcon, announced, requests,
              restarts>>
           /\ DeleteMessage(t) => UNCHANGED <<disk, size, minted, used, channel, msgs,
              written, posts, thread, author, members, row, owner, pic, shown, icon,
              savedIcon, announced, restarts>>
           /\ DeletePost(t) => UNCHANGED <<disk, size, minted, used, channel, msgs, written,
              posts, thread, author, members, row, owner, pic, shown, icon, savedIcon,
              announced, restarts>>
           /\ DeleteChannel(t) => UNCHANGED <<disk, size, minted, used, channel, msgs,
              written, posts, thread, author, members, row, owner, pic, shown, icon,
              savedIcon, announced, restarts>>
           /\ Delete(t) => UNCHANGED <<disk, size, minted, used, written, thread, author,
              members, owner, pic, shown, icon, savedIcon, announced, requests, restarts>>
           /\ Purge(t) => UNCHANGED <<disk, size, minted, used, channel, msgs, written,
              posts, thread, author, members, row, owner, pic, shown, icon, savedIcon,
              announced, restarts>>
           /\ PurgePosts(t) => UNCHANGED <<disk, size, minted, used, channel, written,
              thread, author, members, owner, pic, shown, icon, savedIcon, announced,
              requests, restarts>>
           /\ PurgeMessages(t) => UNCHANGED <<disk, size, minted, used, channel, written,
              thread, author, members, owner, pic, shown, icon, savedIcon, announced,
              requests, restarts>>
           /\ ForgetUser(t) => UNCHANGED <<disk, size, minted, used, channel, msgs, written,
              posts, thread, row, icon, savedIcon, announced, requests, restarts>>
           /\ Sweep(t) => UNCHANGED <<disk, size, minted, used, channel, msgs, written,
              posts, thread, author, members, row, owner, pic, shown, icon, savedIcon,
              announced, restarts>>
           /\ SweepNext(t) => UNCHANGED <<disk, size, minted, used, channel, msgs, written,
              posts, thread, author, members, owner, pic, shown, icon, savedIcon, announced,
              requests, restarts>>
<1>1. Upload(t) => UNCHANGED <<disk, size, minted, channel, msgs, written, posts,
      thread, author, members, row, owner, pic, shown, icon, savedIcon, announced, restarts>>
  BY DEF Upload, Reserve, Begin
<1>2. WriteFile(t) => UNCHANGED <<used, channel, msgs, written, posts, thread, author,
      members, row, owner, pic, shown, icon, savedIcon, announced, requests, restarts>>
  BY DEF WriteFile, Goto, Finish, Drop, Dropped
<1>3. GiveBack(t) => UNCHANGED <<disk, size, minted, channel, msgs, written, posts,
      thread, author, members, row, owner, pic, shown, icon, savedIcon, announced, requests,
      restarts>>
  BY DEF GiveBack, Goto, Finish, Drop, Dropped
<1>4. Settle(t) => UNCHANGED <<disk, size, minted, channel, msgs, written, posts,
      thread, author, members, row, owner, pic, shown, icon, savedIcon, announced, requests,
      restarts>>
  BY DEF Settle, Goto, Finish, Drop, Dropped
<1>5. Recheck(t) => UNCHANGED <<disk, size, minted, used, channel, msgs, written, posts,
      thread, author, members, row, owner, pic, shown, icon, savedIcon, announced, requests,
      restarts>>
  BY DEF Recheck, Goto, Finish, Drop, Dropped
<1>6. Unlink(t) => UNCHANGED <<size, minted, used, channel, msgs, written, posts,
      thread, author, members, row, owner, pic, shown, icon, savedIcon, announced, requests,
      restarts>>
  BY DEF Unlink, Goto, Finish, Drop, Dropped
<1>7. Refund(t) => UNCHANGED <<disk, size, minted, channel, msgs, written, posts,
      thread, author, members, row, owner, pic, shown, icon, savedIcon, announced, requests,
      restarts>>
  BY DEF Refund, Goto, Finish, Drop, Dropped
<1>8. Record(t) => UNCHANGED <<disk, size, minted, used, channel, msgs, written, posts,
      thread, author, members, pic, shown, icon, savedIcon, announced, requests, restarts>>
  BY DEF Record, Goto, Finish, Drop, Dropped
<1>9. RereadFile(t) => UNCHANGED <<disk, size, minted, used, channel, msgs, written,
      posts, thread, author, members, row, owner, pic, shown, icon, savedIcon, announced,
      requests, restarts>>
  BY DEF RereadFile, Goto, Finish, Drop, Dropped
<1>10. Replace(t) => UNCHANGED <<disk, size, minted, used, channel, msgs, written,
      posts, thread, author, members, row, owner, shown, icon, savedIcon, announced, requests,
      restarts>>
  BY DEF Replace, Goto, Finish, Drop, Dropped
<1>11. Point(t) => UNCHANGED <<disk, size, minted, used, channel, msgs, written, posts,
      thread, author, members, row, owner, pic, icon, savedIcon, announced, requests,
      restarts>>
  BY DEF Point, Goto, Finish, Drop, Dropped
<1>12. ReadHeld(t) => UNCHANGED <<disk, size, minted, used, channel, msgs, written,
      posts, thread, author, members, row, owner, pic, shown, icon, savedIcon, announced,
      requests, restarts>>
  BY DEF ReadHeld, Goto, Finish, Drop, Dropped
<1>13. ClearMedia(t) => UNCHANGED <<disk, size, minted, used, channel, msgs, written,
      posts, thread, author, members, row, owner, shown, icon, savedIcon, announced, requests,
      restarts>>
  BY DEF ClearMedia, Goto, Finish, Drop, Dropped
<1>14. SetServerIcon(t) => UNCHANGED <<disk, size, minted, used, channel, msgs, written,
      posts, thread, author, members, row, owner, pic, shown, savedIcon, announced, requests,
      restarts>>
  BY DEF SetServerIcon, Goto, Finish, Drop, Dropped
<1>15. SaveIcon(t) => UNCHANGED <<disk, size, minted, used, channel, msgs, written,
      posts, thread, author, members, row, owner, pic, shown, icon, announced, requests,
      restarts>>
  BY DEF SaveIcon, Goto, Finish, Drop, Dropped
<1>16. ClearPicture(t) => UNCHANGED <<disk, size, minted, used, channel, msgs, written,
      posts, thread, author, members, row, owner, pic, icon, savedIcon, announced, restarts>>
  BY DEF ClearPicture, Begin
<1>17. ClearIcon(t) => UNCHANGED <<disk, size, minted, used, channel, msgs, written,
      posts, thread, author, members, row, owner, pic, shown, savedIcon, announced, restarts>>
  BY DEF ClearIcon, Begin
<1>18. SendMessage(t) => UNCHANGED <<disk, size, minted, used, channel, msgs, written,
      posts, thread, author, members, row, owner, pic, shown, icon, savedIcon, announced,
      restarts>>
  BY DEF SendMessage, Begin
<1>19. CreatePost(t) => UNCHANGED <<disk, size, minted, used, channel, msgs, written,
      posts, thread, author, members, row, owner, pic, shown, icon, savedIcon, announced,
      restarts>>
  BY DEF CreatePost, Begin
<1>20. CreateRow(t) => UNCHANGED <<disk, size, minted, used, channel, members, row,
      owner, pic, shown, icon, savedIcon, announced, requests, restarts>>
  BY DEF CreateRow, Goto, Finish, Drop, Dropped
<1>21. RereadRow(t) => UNCHANGED <<disk, size, minted, used, channel, msgs, written,
      posts, thread, author, members, row, owner, pic, shown, icon, savedIcon, announced,
      requests, restarts>>
  BY DEF RereadRow, Goto, Finish, Drop, Dropped
<1>22. Claim(t) => UNCHANGED <<disk, size, minted, used, channel, msgs, written, posts,
      thread, author, members, owner, pic, shown, icon, savedIcon, announced, requests,
      restarts>>
  BY DEF Claim, Goto, Finish, Drop, Dropped
<1>23. Bind(t) => UNCHANGED <<disk, size, minted, used, channel, msgs, written, posts,
      thread, author, members, owner, pic, shown, icon, savedIcon, announced, requests,
      restarts>>
  BY DEF Bind, Goto, Finish, Drop, Dropped
<1>24. ReadBack(t) => UNCHANGED <<disk, size, minted, used, channel, msgs, written,
      posts, thread, author, members, row, owner, pic, shown, icon, savedIcon, announced,
      requests, restarts>>
  BY DEF ReadBack, Goto, Finish, Drop, Dropped
<1>25. Announce(t) => UNCHANGED <<disk, size, minted, used, channel, msgs, written,
      posts, thread, author, members, row, owner, pic, shown, icon, savedIcon, requests,
      restarts>>
  BY DEF Announce, Goto, Finish, Drop, Dropped
<1>26. Rollback(t) => UNCHANGED <<disk, size, minted, used, channel, written, thread,
      author, members, owner, pic, shown, icon, savedIcon, announced, requests, restarts>>
  BY DEF Rollback, Goto, Finish, Drop, Dropped, DeleteRows
<1>27. DeleteMessage(t) => UNCHANGED <<disk, size, minted, used, channel, msgs, written,
      posts, thread, author, members, row, owner, pic, shown, icon, savedIcon, announced,
      restarts>>
  BY DEF DeleteMessage, Begin
<1>28. DeletePost(t) => UNCHANGED <<disk, size, minted, used, channel, msgs, written,
      posts, thread, author, members, row, owner, pic, shown, icon, savedIcon, announced,
      restarts>>
  BY DEF DeletePost, Begin
<1>29. DeleteChannel(t) => UNCHANGED <<disk, size, minted, used, channel, msgs, written,
      posts, thread, author, members, row, owner, pic, shown, icon, savedIcon, announced,
      restarts>>
  BY DEF DeleteChannel, Begin
<1>30. Delete(t) => UNCHANGED <<disk, size, minted, used, written, thread, author,
      members, owner, pic, shown, icon, savedIcon, announced, requests, restarts>>
  BY DEF Delete, Goto, Finish, Drop, Dropped, DeleteRows
<1>31. Purge(t) => UNCHANGED <<disk, size, minted, used, channel, msgs, written, posts,
      thread, author, members, row, owner, pic, shown, icon, savedIcon, announced, restarts>>
  BY DEF Purge, Begin
<1>32. PurgePosts(t) => UNCHANGED <<disk, size, minted, used, channel, written, thread,
      author, members, owner, pic, shown, icon, savedIcon, announced, requests, restarts>>
  BY DEF PurgePosts, Goto, Finish, Drop, Dropped, DeleteRows
<1>33. PurgeMessages(t) => UNCHANGED <<disk, size, minted, used, channel, written,
      thread, author, members, owner, pic, shown, icon, savedIcon, announced, requests,
      restarts>>
  BY DEF PurgeMessages, Goto, Finish, Drop, Dropped, DeleteRows
<1>34. ForgetUser(t) => UNCHANGED <<disk, size, minted, used, channel, msgs, written,
      posts, thread, row, icon, savedIcon, announced, requests, restarts>>
  BY DEF ForgetUser, Goto, Finish, Drop, Dropped
<1>35. Sweep(t) => UNCHANGED <<disk, size, minted, used, channel, msgs, written, posts,
      thread, author, members, row, owner, pic, shown, icon, savedIcon, announced, restarts>>
  BY DEF Sweep, Begin
<1>36. SweepNext(t) => UNCHANGED <<disk, size, minted, used, channel, msgs, written,
      posts, thread, author, members, owner, pic, shown, icon, savedIcon, announced, requests,
      restarts>>
  BY DEF SweepNext, Goto, Finish, Drop, Dropped
<1> QED
  BY <1>1, <1>2, <1>3, <1>4, <1>5, <1>6, <1>7, <1>8, <1>9, <1>10, <1>11, <1>12, <1>13, <1>14,
     <1>15, <1>16, <1>17, <1>18, <1>19, <1>20, <1>21, <1>22, <1>23, <1>24, <1>25, <1>26, <1>27,
     <1>28, <1>29, <1>30, <1>31, <1>32, <1>33, <1>34, <1>35, <1>36

-----------------------------------------------------------------------------
(* Typing, action by action                                                 *)

FilesOK ==
    /\ disk \subseteq Keys /\ size \in [Keys -> 0..MaxFile]
    /\ minted \in 0..MaxKeys /\ used \in Int
PeopleOK ==
    /\ members \subseteq Users
    /\ author \in [Messages -> Users \cup {NoUser}]
    /\ owner \in [Keys -> Users \cup {NoUser}]
    /\ pic \in [Users -> Keys \cup {NoKey}] /\ shown \in [Users -> Keys \cup {NoKey}]
MessagesOK ==
    /\ msgs \subseteq Messages /\ written \in 0..MaxMessages /\ posts \subseteq Messages
    /\ thread \in [Messages -> 0..MaxMessages]
    /\ row \in [Keys -> 0..(MaxMessages + 1)]
OthersOK ==
    /\ icon \in Keys \cup {NoKey} /\ savedIcon \in Keys \cup {NoKey}
    /\ announced \in [Messages -> SUBSET Keys]
BoundsOK == plan \in Plans /\ requests \in 0..plan.requests /\ restarts \in 0..plan.restarts

\* The types of what is shared, in five parts.
LEMMA SharedIs == SharedOK <=> FilesOK /\ PeopleOK /\ MessagesOK /\ OthersOK /\ BoundsOK
BY DEF SharedOK, FilesOK, PeopleOK, MessagesOK, OthersOK, BoundsOK

\* The steps that touch the upload directory and its counter.
LEMMA FilesActs ==
    ASSUME NEW t \in Threads, Step(t)
    PROVE  \/ UNCHANGED <<disk, size, minted, used>>
           \/ Upload(t) \/ WriteFile(t) \/ GiveBack(t) \/ Settle(t) \/ Unlink(t) \/
              Refund(t)
BY Frame DEF Step

\* They keep their types.
LEMMA FilesStep ==
    ASSUME Typed, NEW t \in Threads, Step(t)
    PROVE  FilesOK'
<1>0. /\ FilesOK /\ PeopleOK /\ MessagesOK /\ OthersOK /\ BoundsOK
      /\ pc[t] \in Steps /\ FitAt(pc[t], req[t])
      /\ req[t].call \in AllCalls \cup {"idle"} /\ req[t].who \in Users \cup {NoUser}
      /\ req[t].key \in Keys \cup {NoKey} /\ req[t].reserved \in 0..MaxFile
      /\ req[t].msg \in 0..MaxMessages /\ req[t].held \subseteq Keys /\ req[t].stale \subseteq Keys
      /\ pc[t] \in {"unlink", "refund"} => Min(req[t].held) \in Keys
      /\ pc[t] = "sweep" => Min(req[t].stale) \in Keys
  BY InHandIs, FirstHeld, SharedIs DEF FitAt
<1>1. CASE Upload(t)
  <2>1. UNCHANGED <<disk, size, minted>>
    BY <1>1, Frame
  <2> QED
    <3>0. \/ \E u \in members, n \in 1..MaxFile :
                Reserve(t, "attach", u, n) \/ Reserve(t, "picture", u, n) \/ Reserve(t, "icon", u,
                    n)
          \/ \E n \in 1..MaxFile : Reserve(t, "delivery", NoUser, n)
      BY <1>0, <1>1, PlanIs DEF Upload, BoundsOK
    <3>1. PICK n \in 0..MaxFile : used' = used + n
      <4>1. \E n \in 1..MaxFile : used' = used + n
        BY <3>0 DEF Reserve
      <4>2. \A n \in 1..MaxFile : n \in 0..MaxFile
        OBVIOUS
      <4> QED
        BY <4>1, <4>2
    <3>2. n \in Int /\ used \in Int
      BY <1>0 DEF FilesOK
    <3> QED
      BY <2>1, <3>1, <3>2, <1>0 DEF FilesOK
<1>2. CASE WriteFile(t)
  <2>1. UNCHANGED <<used>>
    BY <1>2, Frame
  <2> QED
    <3>1. CASE UNCHANGED <<disk, size, minted>>
      BY <2>1, <3>1, <1>0 DEF FilesOK
    <3>2. CASE minted' = minted + 1 /\ minted < MaxKeys
      <4>1. minted' \in Keys /\ minted' \in 0..MaxKeys
        BY <3>2, <1>0 DEF FilesOK
      <4>2. PICK n \in 1..MaxFile : size' = [size EXCEPT ![minted'] = n] /\
                     disk' = disk \cup {minted'}
        <5>1. minted \in Int
          BY <1>0 DEF FilesOK
        <5> QED
          BY <1>0, <1>2, <3>2, <5>1, PlanIs DEF WriteFile, BoundsOK
      <4>3. n \in 0..MaxFile
        OBVIOUS
      <4> QED
        BY <2>1, <4>1, <4>2, <4>3, <1>0 DEF FilesOK
    <3>3. minted \in Int /\ plan \in Plans
      BY <1>0 DEF FilesOK, BoundsOK
    <3> QED
      BY <1>2, <3>1, <3>2, <3>3, PlanIs DEF WriteFile
<1>3. CASE GiveBack(t)
  <2>1. UNCHANGED <<disk, size, minted>>
    BY <1>3, Frame
  <2> QED
    BY <1>3, <2>1, <1>0 DEF FilesOK, GiveBack, At, FitAt
<1>4. CASE Settle(t)
  <2>1. UNCHANGED <<disk, size, minted>>
    BY <1>4, Frame
  <2> QED
    <3>1. req[t].key \in Keys
      BY <1>4, <1>0 DEF Settle, At, FitAt
    <3>2. size[req[t].key] \in 0..MaxFile
      BY <3>1, <1>0 DEF FilesOK
    <3>3. size[req[t].key] \in Int /\ req[t].reserved \in Int /\ used \in Int
      BY <3>2, <1>0 DEF FilesOK
    <3>4. used' \in Int
      BY <1>4, <3>3 DEF Settle, Settled
    <3> QED
      BY <2>1, <3>4, <1>0 DEF FilesOK
<1>5. CASE Unlink(t)
  <2>1. UNCHANGED <<size, minted, used>>
    BY <1>5, Frame
  <2> QED
    BY <1>5, <2>1, <1>0 DEF FilesOK, Unlink, At, FitAt
<1>6. CASE Refund(t)
  <2>1. UNCHANGED <<disk, size, minted>>
    BY <1>6, Frame
  <2> QED
    BY <1>6, <2>1, <1>0 DEF FilesOK, Refund, At, FitAt
<1>7. CASE UNCHANGED <<disk, size, minted, used>>
  BY <1>7, <1>0 DEF FilesOK
<1> QED
  BY <1>1, <1>2, <1>3, <1>4, <1>5, <1>6, <1>7, FilesActs

\* The steps that touch users, owners, authors and pictures.
LEMMA PeopleActs ==
    ASSUME NEW t \in Threads, Step(t)
    PROVE  \/ UNCHANGED <<members, author, owner, pic, shown>>
           \/ Record(t) \/ Replace(t) \/ Point(t) \/ ClearMedia(t) \/ ClearPicture(t) \/
              CreateRow(t) \/ ForgetUser(t)
BY Frame DEF Step

\* They keep their types.
LEMMA PeopleStep ==
    ASSUME Typed, NEW t \in Threads, Step(t)
    PROVE  PeopleOK'
<1>0. /\ FilesOK /\ PeopleOK /\ MessagesOK /\ OthersOK /\ BoundsOK
      /\ pc[t] \in Steps /\ FitAt(pc[t], req[t])
      /\ req[t].call \in AllCalls \cup {"idle"} /\ req[t].who \in Users \cup {NoUser}
      /\ req[t].key \in Keys \cup {NoKey} /\ req[t].reserved \in 0..MaxFile
      /\ req[t].msg \in 0..MaxMessages /\ req[t].held \subseteq Keys /\ req[t].stale \subseteq Keys
      /\ pc[t] \in {"unlink", "refund"} => Min(req[t].held) \in Keys
      /\ pc[t] = "sweep" => Min(req[t].stale) \in Keys
  BY InHandIs, FirstHeld, SharedIs DEF FitAt
<1>1. CASE Record(t)
  <2>1. UNCHANGED <<members, author, pic, shown>>
    BY <1>1, Frame
  <2> QED
    BY <1>1, <2>1, <1>0 DEF PeopleOK, Record, At, FitAt
<1>2. CASE Replace(t)
  <2>1. UNCHANGED <<members, author, owner, shown>>
    BY <1>2, Frame
  <2> QED
    BY <1>2, <2>1, <1>0 DEF PeopleOK, Replace, At, FitAt
<1>3. CASE Point(t)
  <2>1. UNCHANGED <<members, author, owner, pic>>
    BY <1>3, Frame
  <2> QED
    BY <1>3, <2>1, <1>0 DEF PeopleOK, Point, At, FitAt
<1>4. CASE ClearMedia(t)
  <2>1. UNCHANGED <<members, author, owner, shown>>
    BY <1>4, Frame
  <2> QED
    BY <1>4, <2>1, <1>0 DEF PeopleOK, ClearMedia, At, FitAt
<1>5. CASE ClearPicture(t)
  <2>1. UNCHANGED <<members, author, owner, pic>>
    BY <1>5, Frame
  <2> QED
    BY <1>5, <2>1, <1>0 DEF PeopleOK, ClearPicture, Begin
<1>6. CASE CreateRow(t)
  <2>1. UNCHANGED <<members, owner, pic, shown>>
    BY <1>6, Frame
  <2> QED
    BY <1>6, <2>1, <1>0 DEF PeopleOK, CreateRow, At, FitAt
<1>7. CASE ForgetUser(t)
  <2> DEFINE u == req[t].who
  <2>1. CASE UNCHANGED <<members, author, owner, pic, shown>>
    BY <2>1, <1>0 DEF PeopleOK
  <2>2. CASE members' = members \ {u}
    <3>1. /\ author' = [x \in DOMAIN author |-> IF author[x] = u THEN NoUser ELSE author[x]]
          /\ owner' = [x \in DOMAIN owner |-> IF owner[x] = u THEN NoUser ELSE owner[x]]
          /\ pic' = [pic EXCEPT ![u] = NoKey] /\ shown' = [shown EXCEPT ![u] = NoKey]
          \/ UNCHANGED <<members, author, owner, pic, shown>>
      BY <1>7 DEF ForgetUser
    <3> HIDE DEF u
    <3>2. CASE author' = [x \in DOMAIN author |-> IF author[x] = u THEN NoUser ELSE author[x]]
      <4>1. CASE UNCHANGED <<members, author, owner, pic, shown>>
        BY <2>1, <4>1
      <4>2. CASE ~UNCHANGED <<members, author, owner, pic, shown>>
        <5>1. DOMAIN author = Messages /\ DOMAIN owner = Keys
          BY <1>0 DEF PeopleOK
        <5>2. author' \in [Messages -> Users \cup {NoUser}]
          BY <3>2, <5>1, <1>0 DEF PeopleOK
        <5>3. owner' \in [Keys -> Users \cup {NoUser}]
          BY <3>1, <4>2, <5>1, <1>0 DEF PeopleOK
        <5>4. pic' \in [Users -> Keys \cup {NoKey}] /\ shown' \in [Users -> Keys \cup {NoKey}]
          BY <3>1, <4>2, <1>0 DEF PeopleOK
        <5> QED
          BY <2>2, <5>2, <5>3, <5>4, <1>0 DEF PeopleOK
      <4> QED
        BY <4>1, <4>2
    <3> QED
      BY <2>1, <3>1, <3>2
  <2> QED
    BY <1>7, <2>1, <2>2 DEF ForgetUser
<1>8. CASE UNCHANGED <<members, author, owner, pic, shown>>
  BY <1>8, <1>0 DEF PeopleOK
<1> QED
  BY <1>1, <1>2, <1>3, <1>4, <1>5, <1>6, <1>7, <1>8, PeopleActs

\* The steps that touch messages, posts and attachment rows.
LEMMA MessagesActs ==
    ASSUME NEW t \in Threads, Step(t)
    PROVE  \/ UNCHANGED <<msgs, written, posts, thread, row>>
           \/ Record(t) \/ CreateRow(t) \/ Claim(t) \/ Bind(t) \/ Rollback(t) \/ Delete(t)
              \/ PurgePosts(t) \/ PurgeMessages(t) \/ SweepNext(t)
BY Frame DEF Step

\* They keep their types.
LEMMA MessagesStep ==
    ASSUME Typed, NEW t \in Threads, Step(t)
    PROVE  MessagesOK'
<1>0. MessagesOK /\ req[t].msg \in 0..MaxMessages
  BY InHandIs, SharedIs
<1> DEFINE Rows == 0..(MaxMessages + 1)
<1>a. 0 \in Rows /\ MaxMessages + 1 \in Rows /\ (\A m \in 0..MaxMessages : m \in Rows) /\
          Messages \subseteq 0..MaxMessages
  OBVIOUS
<1>b. row \in [Keys -> Rows]
  BY <1>0 DEF MessagesOK
<1> HIDE DEF Rows
<1> DEFINE Talking == /\ msgs \subseteq Messages /\ written \in 0..MaxMessages
                      /\ posts \subseteq Messages
                      /\ thread \in [Messages -> 0..MaxMessages]
<1>c. Talking /\ row' \in [Keys -> Rows] /\ UNCHANGED <<msgs, written, posts, thread>> =>
          MessagesOK'
  BY DEF MessagesOK, Rows
<1>d. Talking
  BY <1>0 DEF MessagesOK
<1>1. CASE Record(t)
  <2>1. row' = row \/ row' = [row EXCEPT ![req[t].key] = MaxMessages + 1]
    BY <1>1 DEF Record
  <2> QED
    BY <1>1, <2>1, <1>a, <1>b, <1>c, <1>d, Frame
<1>2. CASE CreateRow(t)
  <2>1. UNCHANGED <<row>>
    BY <1>2, Frame
  <2>2. CASE UNCHANGED <<msgs, written, posts, thread>>
    BY <2>1, <2>2, <1>b, <1>c, <1>d
  <2>3. CASE written' = written + 1 /\ written < MaxMessages
    <3>1. written' \in Messages /\ written' \in 0..MaxMessages
      BY <2>3, <1>d
    <3>2. /\ msgs' = msgs \cup {written'}
          /\ posts' \in {posts, posts \cup {written'}}
          /\ \E p \in {written', req[t].msg} : thread' = [thread EXCEPT ![written'] = p]
      BY <1>2, <2>3, <1>d DEF CreateRow
    <3>3. thread' \in [Messages -> 0..MaxMessages]
      BY <3>1, <3>2, <1>0, <1>d
    <3> QED
      BY <2>1, <3>1, <3>2, <3>3, <1>b, <1>d DEF MessagesOK, Rows
  <2>4. written \in Int /\ plan \in Plans
    BY InHandIs DEF SharedOK
  <2> QED
    BY <1>2, <2>2, <2>3, <2>4, PlanIs DEF CreateRow
<1>3. CASE Claim(t)
  <2>1. row' = row \/ row' = [k \in Keys |-> IF k \in req[t].held THEN req[t].msg ELSE row[k]]
    BY <1>3 DEF Claim
  <2> QED
    BY <1>3, <2>1, <1>0, <1>a, <1>b, <1>c, <1>d, Frame
<1>4. CASE Bind(t)
  <2>1. row' = row \/ row' = [row EXCEPT ![req[t].key] = req[t].msg]
    BY <1>4 DEF Bind
  <2> QED
    BY <1>4, <2>1, <1>0, <1>a, <1>b, <1>c, <1>d, Frame
<1>5. CASE SweepNext(t)
  <2>1. row' = row \/ \E k \in {Min(req[t].stale)} : row' = [row EXCEPT ![k] = 0]
    BY <1>5 DEF SweepNext
  <2> QED
    BY <1>5, <2>1, <1>a, <1>b, <1>c, <1>d, Frame
<1>6. CASE Rollback(t) \/ Delete(t) \/ PurgePosts(t) \/ PurgeMessages(t)
  <2>1. UNCHANGED <<written, thread>>
    BY <1>6, Frame
  <2>2. \/ UNCHANGED <<msgs, posts, row>>
        \/ \E gone, ended : DeleteRows(gone, ended)
    BY <1>6 DEF Rollback, Delete, PurgePosts, PurgeMessages
  <2>3. CASE UNCHANGED <<msgs, posts, row>>
    BY <2>1, <2>3, <1>b, <1>c, <1>d
  <2>4. ASSUME NEW gone, NEW ended, DeleteRows(gone, ended)
        PROVE  MessagesOK'
    <3>1. msgs' \subseteq msgs /\ posts' \subseteq posts /\
              row' = [k \in Keys |-> IF row[k] \in gone THEN 0 ELSE row[k]]
      BY <2>4 DEF DeleteRows, Surviving
    <3>2. row' \in [Keys -> Rows]
      BY <3>1, <1>a, <1>b
    <3> QED
      BY <2>1, <3>1, <3>2, <1>d DEF MessagesOK, Rows
  <2> QED
    BY <2>2, <2>3, <2>4
<1>7. CASE UNCHANGED <<msgs, written, posts, thread, row>>
  BY <1>7, <1>0 DEF MessagesOK
<1> QED
  BY <1>1, <1>2, <1>3, <1>4, <1>5, <1>6, <1>7, MessagesActs

\* The steps that touch the icon and what was announced.
LEMMA OthersActs ==
    ASSUME NEW t \in Threads, Step(t)
    PROVE  \/ UNCHANGED <<icon, savedIcon, announced>>
           \/ SetServerIcon(t) \/ SaveIcon(t) \/ ClearIcon(t) \/ Announce(t)
BY Frame DEF Step

\* They keep their types.
LEMMA OthersStep ==
    ASSUME Typed, NEW t \in Threads, Step(t)
    PROVE  OthersOK'
<1>0. /\ FilesOK /\ PeopleOK /\ MessagesOK /\ OthersOK /\ BoundsOK
      /\ pc[t] \in Steps /\ FitAt(pc[t], req[t])
      /\ req[t].call \in AllCalls \cup {"idle"} /\ req[t].who \in Users \cup {NoUser}
      /\ req[t].key \in Keys \cup {NoKey} /\ req[t].reserved \in 0..MaxFile
      /\ req[t].msg \in 0..MaxMessages /\ req[t].held \subseteq Keys /\ req[t].stale \subseteq Keys
      /\ pc[t] \in {"unlink", "refund"} => Min(req[t].held) \in Keys
      /\ pc[t] = "sweep" => Min(req[t].stale) \in Keys
  BY InHandIs, FirstHeld, SharedIs DEF FitAt
<1>1. CASE SetServerIcon(t)
  <2>1. UNCHANGED <<savedIcon, announced>>
    BY <1>1, Frame
  <2> QED
    BY <1>1, <2>1, <1>0 DEF OthersOK, SetServerIcon, At, FitAt
<1>2. CASE SaveIcon(t)
  <2>1. UNCHANGED <<icon, announced>>
    BY <1>2, Frame
  <2> QED
    BY <1>2, <2>1, <1>0 DEF OthersOK, SaveIcon, At, FitAt
<1>3. CASE ClearIcon(t)
  <2>1. UNCHANGED <<savedIcon, announced>>
    BY <1>3, Frame
  <2> QED
    BY <1>3, <2>1, <1>0 DEF OthersOK, ClearIcon, Begin
<1>4. CASE Announce(t)
  <2>1. UNCHANGED <<icon, savedIcon>>
    BY <1>4, Frame
  <2> QED
    BY <1>4, <2>1, <1>0 DEF OthersOK, Announce, At, FitAt
<1>5. CASE UNCHANGED <<icon, savedIcon, announced>>
  BY <1>5, <1>0 DEF OthersOK
<1> QED
  BY <1>1, <1>2, <1>3, <1>4, <1>5, OthersActs

\* The steps that count as a new request.
LEMMA BoundsActs ==
    ASSUME NEW t \in Threads, Step(t)
    PROVE  \/ UNCHANGED <<requests, restarts>>
           \/ Upload(t) \/ ClearPicture(t) \/ ClearIcon(t) \/ SendMessage(t) \/
              CreatePost(t) \/ DeleteMessage(t) \/ DeletePost(t) \/ DeleteChannel(t) \/
              Purge(t) \/ Sweep(t)
BY Frame DEF Step

-----------------------------------------------------------------------------
(* How requests begin                                                       *)

\* The request r, field by field.
Is(r, c, u, n, m, ks, ss) ==
    /\ r \in Request /\ r.call = c /\ r.who = u /\ r.key = NoKey /\ r.reserved = n
    /\ r.msg = m /\ r.held = ks /\ r.stale = ss

\* What a new request holds, in each of the forms handlers make one.
LEMMA NewIs ==
    ASSUME NEW c \in AllCalls
    PROVE  /\ \A u \in Users \cup {NoUser}, n \in 0..MaxFile :
                 Is([[NoRequest EXCEPT !.who = u, !.reserved = n] EXCEPT !.call = c], c, u, n, 0,
                     {}, {})
           /\ \A u \in Users \cup {NoUser} :
                 Is([[NoRequest EXCEPT !.who = u] EXCEPT !.call = c], c, u, 0, 0, {}, {})
           /\ \A ks \in SUBSET Keys :
                 Is([[NoRequest EXCEPT !.held = ks] EXCEPT !.call = c], c, NoUser, 0, 0, ks, {})
           /\ \A u \in Users \cup {NoUser}, ks \in SUBSET Keys, m \in 0..MaxMessages :
                 Is([[NoRequest EXCEPT !.who = u, !.held = ks, !.msg = m] EXCEPT !.call = c], c,
                     u, 0, m, ks, {})
           /\ \A u \in Users \cup {NoUser}, ks \in SUBSET Keys :
                 Is([[NoRequest EXCEPT !.who = u, !.held = ks] EXCEPT !.call = c], c, u, 0, 0, ks,
                     {})
           /\ \A m \in 0..MaxMessages, ks \in SUBSET Keys :
                 Is([[NoRequest EXCEPT !.msg = m, !.held = ks] EXCEPT !.call = c], c, NoUser, 0,
                     m, ks, {})
           /\ \A ss \in SUBSET Keys :
                 Is([[NoRequest EXCEPT !.stale = ss] EXCEPT !.call = c], c, NoUser, 0, 0, {}, ss)
           /\ \A u \in Users \cup {NoUser}, m \in 0..MaxMessages :
                 Is([[NoRequest EXCEPT !.who = u, !.msg = m] EXCEPT !.call = c], c, u, 0, m, {}, {})
<1> HIDE DEF Keys
<1>1. \A u \in Users \cup {NoUser}, n \in 0..MaxFile :
         Is([[NoRequest EXCEPT !.who = u, !.reserved = n] EXCEPT !.call = c], c, u, n, 0, {}, {})
  BY RequestsAre DEF Is, Request, NoRequest
<1>2. \A u \in Users \cup {NoUser} :
         Is([[NoRequest EXCEPT !.who = u] EXCEPT !.call = c], c, u, 0, 0, {}, {})
  BY RequestsAre DEF Is, Request, NoRequest
<1>3. \A ks \in SUBSET Keys :
         Is([[NoRequest EXCEPT !.held = ks] EXCEPT !.call = c], c, NoUser, 0, 0, ks, {})
  BY RequestsAre DEF Is, Request, NoRequest
<1>4. \A u \in Users \cup {NoUser}, ks \in SUBSET Keys, m \in 0..MaxMessages :
         Is([[NoRequest EXCEPT !.who = u, !.held = ks, !.msg = m] EXCEPT !.call = c], c, u, 0, m,
             ks, {})
  <2> SUFFICES ASSUME NEW u \in Users \cup {NoUser}, NEW ks \in SUBSET Keys,
                          NEW m \in 0..MaxMessages
               PROVE  Is([[NoRequest EXCEPT !.who = u, !.held = ks, !.msg = m] EXCEPT !.call = c],
                          c, u, 0, m, ks, {})
    OBVIOUS
  <2> DEFINE r == [[NoRequest EXCEPT !.who = u, !.held = ks, !.msg = m] EXCEPT !.call = c]
  <2>1. r \in Request
    BY RequestsAre DEF Request
  <2> QED
    BY <2>1, RequestsAre DEF Is, Request, NoRequest
<1>5. \A u \in Users \cup {NoUser}, ks \in SUBSET Keys :
         Is([[NoRequest EXCEPT !.who = u, !.held = ks] EXCEPT !.call = c], c, u, 0, 0, ks, {})
  BY RequestsAre DEF Is, Request, NoRequest
<1>6. \A m \in 0..MaxMessages, ks \in SUBSET Keys :
         Is([[NoRequest EXCEPT !.msg = m, !.held = ks] EXCEPT !.call = c], c, NoUser, 0, m, ks, {})
  BY RequestsAre DEF Is, Request, NoRequest
<1>7. \A ss \in SUBSET Keys :
         Is([[NoRequest EXCEPT !.stale = ss] EXCEPT !.call = c], c, NoUser, 0, 0, {}, ss)
  BY RequestsAre DEF Is, Request, NoRequest
<1>8. \A u \in Users \cup {NoUser}, m \in 0..MaxMessages :
         Is([[NoRequest EXCEPT !.who = u, !.msg = m] EXCEPT !.call = c], c, u, 0, m, {}, {})
  BY RequestsAre DEF Is, Request, NoRequest
<1> QED
  BY <1>1, <1>2, <1>3, <1>4, <1>5, <1>6, <1>7, <1>8

\* The thread t starts such a request, at the step p.
Begun(t, p, c, u, n, m, ks, ss) == \E r \in Request : Moved(t, p, r) /\ Is(r, c, u, n, m, ks, ss)

\* So does the request of a thread that begins.
LEMMA BeginIs ==
    ASSUME plan \in Plans, NEW t \in Threads, NEW c, NEW p
    PROVE  /\ \A u \in Users \cup {NoUser}, n \in 0..MaxFile :
                 Begin(t, c, p, [NoRequest EXCEPT !.who = u, !.reserved = n]) => Begun(t, p, c, u,
                     n, 0, {}, {})
           /\ \A u \in Users \cup {NoUser} :
                 Begin(t, c, p, [NoRequest EXCEPT !.who = u]) => Begun(t, p, c, u, 0, 0, {}, {})
           /\ \A ks \in SUBSET Keys :
                 Begin(t, c, p, [NoRequest EXCEPT !.held = ks]) => Begun(t, p, c, NoUser, 0, 0,
                     ks, {})
           /\ \A u \in Users \cup {NoUser}, ks \in SUBSET Keys, m \in 0..MaxMessages :
                 Begin(t, c, p, [NoRequest EXCEPT !.who = u, !.held = ks, !.msg = m]) =>
                     Begun(t, p, c, u, 0, m, ks, {})
           /\ \A u \in Users \cup {NoUser}, ks \in SUBSET Keys :
                 Begin(t, c, p, [NoRequest EXCEPT !.who = u, !.held = ks]) => Begun(t, p, c, u, 0,
                     0, ks, {})
           /\ \A m \in 0..MaxMessages, ks \in SUBSET Keys :
                 Begin(t, c, p, [NoRequest EXCEPT !.msg = m, !.held = ks]) => Begun(t, p, c,
                     NoUser, 0, m, ks, {})
           /\ \A ss \in SUBSET Keys :
                 Begin(t, c, p, [NoRequest EXCEPT !.stale = ss]) => Begun(t, p, c, NoUser, 0, 0,
                     {}, ss)
           /\ \A u \in Users \cup {NoUser}, m \in 0..MaxMessages :
                 Begin(t, c, p, [NoRequest EXCEPT !.who = u, !.msg = m]) => Begun(t, p, c, u, 0,
                     m, {}, {})
<1>1. \A r : Begin(t, c, p, r) => c \in AllCalls /\ Moved(t, p, [r EXCEPT !.call = c])
  BY PlanIs DEF Begin, Moved
<1>2. \A q, u, n, m, ks, ss : Moved(t, p, q) /\ Is(q, c, u, n, m, ks, ss) => Begun(t, p, c, u, n,
          m, ks, ss)
  BY DEF Begun, Is
<1> HIDE DEF Begin, Moved, Is, Begun
<1>3. \A u \in Users \cup {NoUser}, n \in 0..MaxFile :
         Begin(t, c, p, [NoRequest EXCEPT !.who = u, !.reserved = n]) => Begun(t, p, c, u, n, 0,
             {}, {})
  BY <1>1, <1>2, NewIs
<1>4. \A u \in Users \cup {NoUser} :
         Begin(t, c, p, [NoRequest EXCEPT !.who = u]) => Begun(t, p, c, u, 0, 0, {}, {})
  BY <1>1, <1>2, NewIs
<1>5. \A ks \in SUBSET Keys :
         Begin(t, c, p, [NoRequest EXCEPT !.held = ks]) => Begun(t, p, c, NoUser, 0, 0, ks, {})
  BY <1>1, <1>2, NewIs
<1>6. \A u \in Users \cup {NoUser}, ks \in SUBSET Keys, m \in 0..MaxMessages :
         Begin(t, c, p, [NoRequest EXCEPT !.who = u, !.held = ks, !.msg = m]) => Begun(t, p, c, u,
             0, m, ks, {})
  BY <1>1, <1>2, NewIs
<1>7. \A u \in Users \cup {NoUser}, ks \in SUBSET Keys :
         Begin(t, c, p, [NoRequest EXCEPT !.who = u, !.held = ks]) => Begun(t, p, c, u, 0, 0, ks,
             {})
  BY <1>1, <1>2, NewIs
<1>8. \A m \in 0..MaxMessages, ks \in SUBSET Keys :
         Begin(t, c, p, [NoRequest EXCEPT !.msg = m, !.held = ks]) => Begun(t, p, c, NoUser, 0, m,
             ks, {})
  BY <1>1, <1>2, NewIs
<1>9. \A ss \in SUBSET Keys :
         Begin(t, c, p, [NoRequest EXCEPT !.stale = ss]) => Begun(t, p, c, NoUser, 0, 0, {}, ss)
  BY <1>1, <1>2, NewIs
<1>10. \A u \in Users \cup {NoUser}, m \in 0..MaxMessages :
         Begin(t, c, p, [NoRequest EXCEPT !.who = u, !.msg = m]) => Begun(t, p, c, u, 0, m, {}, {})
  BY <1>1, <1>2, NewIs
<1> QED
  BY <1>3, <1>4, <1>5, <1>6, <1>7, <1>8, <1>9, <1>10

\* How each kind of request begins.
LEMMA Begins ==
    ASSUME SharedOK, NEW t \in Threads
    PROVE  /\ Upload(t) =>
                 \E c \in Uploading, n \in 1..MaxFile : \E u \in members \cup {NoUser} :
                    /\ Begun(t, "write", c, u, n, 0, {}, {})
                    /\ Fits(n) /\ used' = used + n /\ (c = "picture" => u \in members)
           /\ ClearPicture(t) =>
                 \E u \in members : Begun(t, "unpicture", "clear", u, 0, 0, {}, {})
           /\ ClearIcon(t) =>
                 Begun(t, "saveicon", "clear", NoUser, 0, 0, Real({icon}), {}) /\ icon' = NoKey
           /\ SendMessage(t) =>
                 \E u \in members, ids \in SUBSET Keys, p \in posts \cup {0} :
                    Begun(t, "create", "send", u, 0, p, ids, {})
           /\ CreatePost(t) =>
                 \E u \in members, ids \in SUBSET Keys : Begun(t, "create", "post", u, 0, 0, ids,
                     {})
           /\ DeleteMessage(t) =>
                 \E m \in msgs : Begun(t, "delete", "delete", NoUser, 0, m, Carried(m), {})
           /\ DeletePost(t) =>
                 \E p \in posts : Begun(t, "delete", "deletepost", NoUser, 0, p,
                                                         UNION {Carried(m) : m \in Threaded(p)}, {})
           /\ DeleteChannel(t) => Begun(t, "delete", "channel", NoUser, 0, 0, Attached, {})
           /\ Purge(t) =>
                 \E u \in members, m \in msgs \cup {0}, p \in {"forget", "purge"} :
                    Begun(t, p, "purge", u, 0, m, {}, {})
           /\ Sweep(t) =>
                 \E ss \in (SUBSET Keys) \ {{}} : Begun(t, "sweep", "sweep", NoUser, 0, 0, {}, ss)
<1>0. /\ members \subseteq Users /\ msgs \subseteq 0..MaxMessages /\ posts \subseteq 0..MaxMessages
      /\ (\A n \in 1..MaxFile : n \in 0..MaxFile) /\ 0 \in 0..MaxMessages /\ plan \in Plans
      /\ (\A m : Carried(m) \in SUBSET Keys) /\ Attached \in SUBSET Keys /\
             Real({icon}) \in SUBSET Keys
  BY DEF SharedOK, Carried, Attached, Real
<1>1. ASSUME Upload(t)
      PROVE  \E c \in Uploading, n \in 1..MaxFile : \E u \in members \cup {NoUser} :
                    /\ Begun(t, "write", c, u, n, 0, {}, {})
                    /\ Fits(n) /\ used' = used + n /\ (c = "picture" => u \in members)
  <2>1. ASSUME NEW c \in Uploading, NEW u \in members \cup {NoUser}, NEW n \in 1..MaxFile,
               Reserve(t, c, u, n), c = "picture" => u \in members
        PROVE  \E c1 \in Uploading, n1 \in 1..MaxFile : \E u1 \in members \cup {NoUser} :
                    /\ Begun(t, "write", c1, u1, n1, 0, {}, {})
                    /\ Fits(n1) /\ used' = used + n1 /\ (c1 = "picture" => u1 \in members)
    <3>1. Begin(t, c, "write", [NoRequest EXCEPT !.who = u, !.reserved = n]) /\ Fits(n) /\
              used' = used + n
      BY <2>1 DEF Reserve
    <3>2. Begun(t, "write", c, u, n, 0, {}, {})
      BY <1>0, <3>1, BeginIs
    <3> QED
      BY <2>1, <3>1, <3>2
  <2>2. plan.file \in 1..MaxFile /\ \A n \in 1..plan.file : n \in 1..MaxFile
    BY <1>0, PlanIs
  <2>3. \/ \E u \in members, n \in 1..MaxFile :
              Reserve(t, "attach", u, n) \/ Reserve(t, "picture", u, n) \/ Reserve(t, "icon", u, n)
        \/ Reserve(t, "delivery", NoUser, plan.file)
    BY <1>1, <2>2 DEF Upload
  <2> QED
    BY <2>1, <2>2, <2>3 DEF Uploading
<1>2. ASSUME ClearPicture(t)
      PROVE  \E u \in members : Begun(t, "unpicture", "clear", u, 0, 0, {}, {})
  <2>1. PICK u \in members :
             Begin(t, "clear", "unpicture", [NoRequest EXCEPT !.who = u])
    BY <1>2 DEF ClearPicture
  <2> QED
    BY <1>0, <2>1, BeginIs
<1>3. ASSUME ClearIcon(t)
      PROVE  Begun(t, "saveicon", "clear", NoUser, 0, 0, Real({icon}), {}) /\ icon' = NoKey
  <2>1. Begin(t, "clear", "saveicon", [NoRequest EXCEPT !.held = Real({icon})])
    BY <1>3 DEF ClearIcon
  <2> QED
    BY <1>0, <2>1, BeginIs, <1>3 DEF ClearIcon
<1>4. ASSUME SendMessage(t)
      PROVE  \E u \in members, ids \in SUBSET Keys, p \in posts \cup {0} :
                Begun(t, "create", "send", u, 0, p, ids, {})
  <2>1. PICK u \in members, ids \in SUBSET Keys, p \in posts \cup {0} :
             Begin(t, "send", "create", [NoRequest EXCEPT !.who = u, !.held = ids, !.msg = p])
    BY <1>4 DEF SendMessage
  <2> QED
    BY <1>0, <2>1, BeginIs
<1>5. ASSUME CreatePost(t)
      PROVE  \E u \in members, ids \in SUBSET Keys : Begun(t, "create", "post", u, 0, 0, ids, {})
  <2>1. PICK u \in members, ids \in SUBSET Keys :
             Begin(t, "post", "create", [NoRequest EXCEPT !.who = u, !.held = ids])
    BY <1>5 DEF CreatePost
  <2> QED
    BY <1>0, <2>1, BeginIs
<1>6. ASSUME DeleteMessage(t)
      PROVE  \E m \in msgs : Begun(t, "delete", "delete", NoUser, 0, m, Carried(m), {})
  <2>1. PICK m \in msgs :
             Begin(t, "delete", "delete", [NoRequest EXCEPT !.msg = m, !.held = Carried(m)])
    BY <1>6 DEF DeleteMessage
  <2> QED
    BY <1>0, <2>1, BeginIs
<1>7. ASSUME DeletePost(t)
      PROVE  \E p \in posts : Begun(t, "delete", "deletepost", NoUser, 0, p,
                                                     UNION {Carried(m) : m \in Threaded(p)}, {})
  <2>1. PICK p \in posts : Begin(t, "deletepost", "delete",
             [NoRequest EXCEPT !.msg = p, !.held = UNION {Carried(m) : m \in Threaded(p)}])
    BY <1>7 DEF DeletePost
  <2> DEFINE ks == UNION {Carried(m) : m \in Threaded(p)}
  <2>2. ks \in SUBSET Keys
    BY <1>0
  <2>3. Begin(t, "deletepost", "delete", [NoRequest EXCEPT !.msg = p, !.held = ks])
    BY <2>1
  <2> HIDE DEF ks
  <2>4. Begun(t, "delete", "deletepost", NoUser, 0, p, ks, {})
    BY <1>0, <2>2, <2>3, BeginIs
  <2> QED
    BY <2>4 DEF ks
<1>8. ASSUME DeleteChannel(t)
      PROVE  Begun(t, "delete", "channel", NoUser, 0, 0, Attached, {})
  <2>1. Begin(t, "channel", "delete", [NoRequest EXCEPT !.held = Attached])
    BY <1>8 DEF DeleteChannel
  <2> QED
    BY <1>0, <2>1, BeginIs
<1>9. ASSUME Sweep(t)
      PROVE  \E ss \in (SUBSET Keys) \ {{}} : Begun(t, "sweep", "sweep", NoUser, 0, 0, {}, ss)
  <2>1. PICK ss \in (SUBSET Keys) \ {{}} :
             Begin(t, "sweep", "sweep", [NoRequest EXCEPT !.stale = ss])
    BY <1>9 DEF Sweep
  <2> QED
    BY <1>0, <2>1, BeginIs
<1>10. ASSUME Purge(t)
      PROVE  \E u \in members, m \in msgs \cup {0}, p \in {"forget", "purge"} :
                Begun(t, p, "purge", u, 0, m, {}, {})
  <2>1. PICK u \in members :
             \/ Begin(t, "purge", "forget", [NoRequest EXCEPT !.who = u])
             \/ \E m \in msgs : Begin(t, "purge", "purge", [NoRequest EXCEPT !.who = u, !.msg = m])
    BY <1>10 DEF Purge
  <2>2. CASE Begin(t, "purge", "forget", [NoRequest EXCEPT !.who = u])
    <3>1. Begun(t, "forget", "purge", u, 0, 0, {}, {})
      BY <1>0, <2>2, BeginIs
    <3> QED
      BY <3>1
  <2>3. ASSUME NEW m \in msgs, Begin(t, "purge", "purge", [NoRequest EXCEPT !.who = u, !.msg = m])
        PROVE  Begun(t, "purge", "purge", u, 0, m, {}, {})
    BY <1>0, <2>3, BeginIs
  <2> QED
    BY <2>1, <2>2, <2>3
<1> QED
  BY <1>1, <1>2, <1>3, <1>4, <1>5, <1>6, <1>7, <1>8, <1>9, <1>10

-----------------------------------------------------------------------------
(* How requests go on                                                       *)

\* The request of t is answered; or goes on at p, with what it knows and has.
Rested(t) == pc'[t] = "idle" /\ req'[t] = NoRequest
Turned(t, p, k, m, ks, ss) ==
    /\ pc'[t] = p
    /\ req'[t].call = req[t].call /\ req'[t].who = req[t].who /\ req'[t].reserved = req[t].reserved
    /\ req'[t].key = k /\ req'[t].msg = m /\ req'[t].held = ks /\ req'[t].stale = ss
Stayed(t, p) == Turned(t, p, req[t].key, req[t].msg, req[t].held, req[t].stale)
Took(t, p, ks) == Turned(t, p, req[t].key, req[t].msg, ks, req[t].stale)
Dropping(t, ks) == Rested(t) \/ (ks # {} /\ Took(t, "unlink", ks))
DropsNext(t) ==
    \/ Rested(t)
    \/ \E ks \in SUBSET req[t].held :
          \/ ks # {} /\ Took(t, "unlink", ks)
          \/ ks = {} /\ req[t].stale # {} /\ Took(t, "sweep", ks)

\* The fields of a request of which one is replaced.
LEMMA FieldsAre ==
    ASSUME NEW r \in Request, NEW k, NEW m, NEW ks, NEW ss
    PROVE  /\ [r EXCEPT !.held = ks] = [call |-> r.call, who |-> r.who, key |-> r.key,
                  reserved |-> r.reserved,
                                        msg |-> r.msg, held |-> ks, stale |-> r.stale]
           /\ [r EXCEPT !.key = k] = [call |-> r.call, who |-> r.who, key |-> k,
                  reserved |-> r.reserved,
                                      msg |-> r.msg, held |-> r.held, stale |-> r.stale]
           /\ [r EXCEPT !.msg = m] = [call |-> r.call, who |-> r.who, key |-> r.key,
                  reserved |-> r.reserved,
                                      msg |-> m, held |-> r.held, stale |-> r.stale]
           /\ [r EXCEPT !.stale = ss] = [call |-> r.call, who |-> r.who, key |-> r.key,
                  reserved |-> r.reserved,
                                         msg |-> r.msg, held |-> r.held, stale |-> ss]
<1> HIDE DEF Keys
<1> QED
  BY DEF Request

\* A thread that goes on with another request ...
LEMMA TurnMoves ==
    ASSUME Typed, NEW t \in Threads, NEW p \in Steps, NEW r \in Request, Goto(t, p),
           req' = [req EXCEPT ![t] = r]
    PROVE  pc'[t] = p /\ req'[t] = r /\ (FitAt(p, r) => Moves(t))
<1>1. ThreadsOK /\ Moved(t, p, r)
  BY InHandIs DEF Goto, Moved
<1>2. pc'[t] = p /\ req'[t] = r
  BY <1>1, MovedIs
<1> QED
  BY <1>1, <1>2 DEF Moves

\* ... or with the same one ...
LEMMA StayMoves ==
    ASSUME Typed, NEW t \in Threads, NEW p \in Steps, Goto(t, p), req' = req
    PROVE  Stayed(t, p) /\ (FitAt(p, req'[t]) => Moves(t))
<1>1. req[t] \in Request /\ req' = [req EXCEPT ![t] = req[t]]
  BY InHandIs DEF ThreadsOK
<1> QED
  BY <1>1, TurnMoves DEF Stayed, Turned

\* ... or with one that differs in a field.
LEMMA TakeMoves ==
    ASSUME Typed, NEW t \in Threads, NEW p \in Steps, Goto(t, p)
    PROVE  /\ \A ks \in SUBSET Keys : req' = [req EXCEPT ![t].held = ks] =>
                 Took(t, p, ks) /\ (FitAt(p, req'[t]) => Moves(t))
           /\ \A k \in Keys : req' = [req EXCEPT ![t].key = k] =>
                 Turned(t, p, k, req[t].msg, req[t].held, req[t].stale) /\ (FitAt(p, req'[t]) =>
                     Moves(t))
           /\ \A m \in Messages : req' = [req EXCEPT ![t].msg = m] =>
                 Turned(t, p, req[t].key, m, req[t].held, req[t].stale) /\ (FitAt(p, req'[t]) =>
                     Moves(t))
           /\ \A ss \in SUBSET Keys : req' = [req EXCEPT ![t].stale = ss] =>
                 Turned(t, p, req[t].key, req[t].msg, req[t].held, ss) /\ (FitAt(p, req'[t]) =>
                     Moves(t))
<1>0. req[t] \in Request
  BY InHandIs
<1> HIDE DEF Keys, Messages
<1>1. ASSUME NEW ks \in SUBSET Keys, req' = [req EXCEPT ![t].held = ks]
      PROVE  Took(t, p, ks) /\ (FitAt(p, req'[t]) => Moves(t))
  <2> DEFINE r == [req[t] EXCEPT !.held = ks]
  <2>1. r \in Request /\ req' = [req EXCEPT ![t] = r]
    BY <1>0, <1>1, RequestsAre
  <2>2. r = [call |-> req[t].call, who |-> req[t].who, key |-> req[t].key,
            reserved |-> req[t].reserved,
             msg |-> req[t].msg, held |-> ks, stale |-> req[t].stale]
    BY <1>0, FieldsAre
  <2> HIDE DEF r
  <2>3. pc'[t] = p /\ req'[t] = r /\ (FitAt(p, r) => Moves(t))
    BY <2>1, TurnMoves
  <2> QED
    BY <2>2, <2>3 DEF Took, Turned
<1>2. ASSUME NEW k \in Keys, req' = [req EXCEPT ![t].key = k]
      PROVE  Turned(t, p, k, req[t].msg, req[t].held, req[t].stale) /\ (FitAt(p, req'[t]) =>
                 Moves(t))
  <2> DEFINE r == [req[t] EXCEPT !.key = k]
  <2>1. r \in Request /\ req' = [req EXCEPT ![t] = r]
    BY <1>0, <1>2, RequestsAre
  <2>2. r = [call |-> req[t].call, who |-> req[t].who, key |-> k, reserved |-> req[t].reserved,
             msg |-> req[t].msg, held |-> req[t].held, stale |-> req[t].stale]
    BY <1>0, FieldsAre
  <2> HIDE DEF r
  <2>3. pc'[t] = p /\ req'[t] = r /\ (FitAt(p, r) => Moves(t))
    BY <2>1, TurnMoves
  <2> QED
    BY <2>2, <2>3 DEF Turned
<1>3. ASSUME NEW m \in Messages, req' = [req EXCEPT ![t].msg = m]
      PROVE  Turned(t, p, req[t].key, m, req[t].held, req[t].stale) /\ (FitAt(p, req'[t]) =>
                 Moves(t))
  <2> DEFINE r == [req[t] EXCEPT !.msg = m]
  <2>1. r \in Request /\ req' = [req EXCEPT ![t] = r]
    BY <1>0, <1>3, RequestsAre
  <2>2. r = [call |-> req[t].call, who |-> req[t].who, key |-> req[t].key,
            reserved |-> req[t].reserved,
             msg |-> m, held |-> req[t].held, stale |-> req[t].stale]
    BY <1>0, FieldsAre
  <2> HIDE DEF r
  <2>3. pc'[t] = p /\ req'[t] = r /\ (FitAt(p, r) => Moves(t))
    BY <2>1, TurnMoves
  <2> QED
    BY <2>2, <2>3 DEF Turned
<1>4. ASSUME NEW ss \in SUBSET Keys, req' = [req EXCEPT ![t].stale = ss]
      PROVE  Turned(t, p, req[t].key, req[t].msg, req[t].held, ss) /\ (FitAt(p, req'[t]) =>
                 Moves(t))
  <2> DEFINE r == [req[t] EXCEPT !.stale = ss]
  <2>1. r \in Request /\ req' = [req EXCEPT ![t] = r]
    BY <1>0, <1>4, RequestsAre
  <2>2. r = [call |-> req[t].call, who |-> req[t].who, key |-> req[t].key,
            reserved |-> req[t].reserved,
             msg |-> req[t].msg, held |-> req[t].held, stale |-> ss]
    BY <1>0, FieldsAre
  <2> HIDE DEF r
  <2>3. pc'[t] = p /\ req'[t] = r /\ (FitAt(p, r) => Moves(t))
    BY <2>1, TurnMoves
  <2> QED
    BY <2>2, <2>3 DEF Turned
<1> QED
  BY <1>1, <1>2, <1>3, <1>4

\* A thread that finishes is idle, and as good as new.
LEMMA RestMoves ==
    ASSUME Typed, NEW t \in Threads, Finish(t)
    PROVE  Rested(t) /\ Moves(t)
BY InHandIs, FinishMoves, RequestsAre, MovedIs DEF Rested, Steps

\* A thread that has files to drop unlinks the first of them, or is done.
LEMMA DropsMove ==
    ASSUME Typed, NEW t \in Threads, NEW ks \in SUBSET Keys, Drop(t, ks)
    PROVE  Dropping(t, ks) /\ Moves(t)
<1>1. CASE ks = {}
  BY <1>1, RestMoves DEF Drop, Dropping
<1>2. CASE ks # {}
  <2>1. Goto(t, "unlink") /\ req' = [req EXCEPT ![t].held = ks] /\ "unlink" \in Steps
    BY <1>2 DEF Drop, Steps
  <2>2. Took(t, "unlink", ks) /\ (FitAt("unlink", req'[t]) => Moves(t))
    BY <2>1, TakeMoves
  <2> QED
    BY <1>2, <2>2 DEF Dropping, Took, Turned, FitAt
<1> QED
  BY <1>1, <1>2

\* So does one that has dropped one of them.
LEMMA DroppedsMove ==
    ASSUME Typed, NEW t \in Threads, Dropped(t)
    PROVE  DropsNext(t) /\ Moves(t)
<1> DEFINE rest == req[t].held \ {Min(req[t].held)}
           p == IF rest = {} THEN "sweep" ELSE "unlink"
<1>1. CASE rest = {} /\ req[t].stale = {}
  BY <1>1, RestMoves DEF Dropped, DropsNext
<1>2. CASE ~(rest = {} /\ req[t].stale = {})
  <2>1. Goto(t, p) /\ req' = [req EXCEPT ![t].held = rest] /\ p \in Steps
    BY <1>2 DEF Dropped, Steps
  <2>2. rest \in SUBSET Keys /\ rest \in SUBSET req[t].held
    BY InHandIs
  <2>3. Took(t, p, rest) /\ (FitAt(p, req'[t]) => Moves(t))
    <3> HIDE DEF rest, p
    <3> QED
      BY <2>1, <2>2, TakeMoves
  <2>4. DropsNext(t)
    BY <1>2, <2>2, <2>3 DEF DropsNext
  <2> QED
    BY <1>2, <2>3, <2>4 DEF Took, Turned, FitAt
<1> QED
  BY <1>1, <1>2

\* What each step of a request does next, with what that depends on.
LEMMA Goes ==
    ASSUME Typed, NEW t \in Threads
    PROVE  /\ WriteFile(t) =>
                 /\ Moves(t)
                 /\ \/ /\ minted < MaxKeys /\ minted' = minted + 1 /\ disk' = disk \cup {minted + 1}
                       /\ \E n \in 1..MaxFile : n <= req[t].reserved + plan.overrun /\
                              size' = [size EXCEPT ![minted + 1] = n]
                       /\ Turned(t, "settle", minted + 1, req[t].msg, req[t].held, req[t].stale)
                    \/ Stayed(t, "giveback") /\ UNCHANGED <<disk, size, minted>>
           /\ GiveBack(t) =>
                 /\ Moves(t)
                 /\ Rested(t)
           /\ Settle(t) =>
                 /\ Moves(t)
                 /\ Stayed(t, "recheck")
           /\ Recheck(t) =>
                 /\ Moves(t)
                 /\ Dropping(t, {req[t].key}) \/ Stayed(t, "saved")
           /\ Unlink(t) =>
                 /\ Moves(t)
                 /\ \/ disk' = disk \ {Min(req[t].held)} /\ Stayed(t, "refund")
                    \/ disk' = disk /\ DropsNext(t)
           /\ Refund(t) =>
                 /\ Moves(t)
                 /\ DropsNext(t)
           /\ Record(t) =>
                 /\ Moves(t)
                 /\ \/ row' = [row EXCEPT ![req[t].key] = Pending] /\ Stayed(t, "reread")
                    \/ row' = row /\ Dropping(t, {req[t].key})
           /\ RereadFile(t) =>
                 /\ Moves(t)
                 /\ \/ row[req[t].key] # NoRow /\ Rested(t)
                    \/ (row[req[t].key] = NoRow \/ Fails("reply")) /\ Dropping(t, {req[t].key})
           /\ Replace(t) =>
                 /\ Moves(t)
                 /\ \/ pic' = [pic EXCEPT ![req[t].who] = req[t].key] /\ Took(t, "point",
                           Displaced(req[t].who))
                    \/ pic' = pic /\ Dropping(t, {req[t].key})
           /\ Point(t) =>
                 /\ Moves(t)
                 /\ Dropping(t, req[t].held) \/ Stayed(t, "unpicture")
           /\ ReadHeld(t) =>
                 /\ Moves(t)
                 /\ \/ Rested(t)
                    \/ pic[req[t].who] # NoKey /\ Took(t, "clear", {pic[req[t].who]})
           /\ ClearMedia(t) =>
                 /\ Moves(t)
                 /\ \/ pic' = [pic EXCEPT ![req[t].who] = NoKey] /\ Dropping(t, req[t].held)
                    \/ pic' = pic /\ Rested(t)
           /\ SetServerIcon(t) =>
                 /\ Moves(t)
                 /\ icon' = req[t].key /\ Took(t, "saveicon", Real({icon}))
           /\ SaveIcon(t) =>
                 /\ Moves(t)
                 /\ \/ savedIcon' = req[t].key /\ Dropping(t, req[t].held)
                    \/ Fails("config") /\ savedIcon' = savedIcon /\ Dropping(t, Real({req[t].key}))
           /\ CreateRow(t) =>
                 /\ Moves(t)
                 /\ \/ /\ written < MaxMessages /\ written' = written + 1 /\
                              msgs' = msgs \cup {written + 1}
                       /\ thread' = [thread EXCEPT ![written + 1] = IF req[t].call = "post" THEN written + 1 ELSE req[t].msg]
                       /\ posts' \in {posts, posts \cup {written + 1}}
                       /\ Turned(t, "reread", req[t].key, written + 1, req[t].held, req[t].stale)
                    \/ /\ UNCHANGED <<msgs, written, posts, thread, author>>
                       /\ IF req[t].call = "delivery" THEN Dropping(t, {req[t].key}) ELSE Rested(t)
           /\ RereadRow(t) =>
                 /\ Moves(t)
                 /\ \/ req[t].msg \in msgs /\ Stayed(t, "claim")
                    \/ IF req[t].call = "delivery" THEN Dropping(t, {req[t].key}) ELSE Rested(t)
           /\ Claim(t) =>
                 /\ Moves(t)
                 /\ /\ pc[t] = "claim" /\ req[t].call # "delivery"
                    /\ \/ /\ req[t].held = {} \/ (req[t].msg \in msgs /\ \A k \in req[t].held :
                                 Claimable(k, req[t].who))
                          /\ row' = [k \in Keys |-> IF k \in req[t].held THEN req[t].msg ELSE row[k]]
                          /\ Stayed(t, "announce") \/ Stayed(t, "readback")
                          /\ Stayed(t, "announce") => req[t].held = {}
                       \/ row' = row /\ Stayed(t, "rollback")
           /\ Bind(t) =>
                 /\ Moves(t)
                 /\ /\ pc[t] = "claim" /\ req[t].call = "delivery"
                    /\ \/ req[t].msg \in msgs /\ row' = [row EXCEPT ![req[t].key] = req[t].msg] /\ Stayed(t, "readback")
                       \/ row' = row /\ Stayed(t, "rollback")
           /\ ReadBack(t) =>
                 /\ Moves(t)
                 /\ \/ /\ ~(req[t].call = "delivery" /\ row[req[t].key] = NoRow)
                       /\ Took(t, "announce", Carried(req[t].msg))
                    \/ /\ (req[t].call = "delivery" /\ row[req[t].key] = NoRow) \/ Fails("reply")
                       /\ Stayed(t, "rollback")
           /\ Announce(t) =>
                 /\ Moves(t)
                 /\ Rested(t)
           /\ Rollback(t) =>
                 /\ Moves(t)
                 /\ IF req[t].call = "delivery" THEN Dropping(t, {req[t].key}) ELSE Rested(t)
           /\ Delete(t) =>
                 /\ Moves(t)
                 /\ \/ Rested(t) /\ UNCHANGED row
                    \/ /\ Dropping(t, req[t].held)
                       /\ \/ req[t].call = "delete" /\ req[t].msg \in msgs /\
                                 DeleteRows({req[t].msg}, {})
                          \/ req[t].call = "deletepost" /\ DeleteRows(Threaded(req[t].msg),
                                 {req[t].msg})
                          \/ req[t].call = "channel" /\ DeleteRows(msgs \cup {Pending}, posts)
           /\ PurgePosts(t) =>
                 /\ Moves(t)
                 /\ Stayed(t, "unsay")
           /\ PurgeMessages(t) =>
                 /\ Moves(t)
                 /\ Stayed(t, "forget")
           /\ ForgetUser(t) =>
                 /\ Moves(t)
                 /\ Rested(t)
           /\ SweepNext(t) =>
                 /\ Moves(t)
                 /\ \/ /\ row' = [row EXCEPT ![Min(req[t].stale)] = NoRow] /\
                              row[Min(req[t].stale)] # NoRow
                       /\ Turned(t, "unlink", req[t].key, req[t].msg, {Min(req[t].stale)},
                              req[t].stale \ {Min(req[t].stale)})
                    \/ /\ row' = row
                       /\ \/ Rested(t)
                          \/ Turned(t, "sweep", req[t].key, req[t].msg, req[t].held,
                                 req[t].stale \ {Min(req[t].stale)})
<1>0. /\ SharedOK /\ ThreadsOK /\ FilesOK /\ PeopleOK /\ MessagesOK /\ OthersOK /\ BoundsOK
      /\ pc[t] \in Steps /\ FitAt(pc[t], req[t]) /\ req[t] \in Request
      /\ req[t].call \in AllCalls \cup {"idle"} /\ req[t].who \in Users \cup {NoUser}
      /\ req[t].key \in Keys \cup {NoKey} /\ req[t].reserved \in 0..MaxFile
      /\ req[t].msg \in 0..MaxMessages /\ req[t].held \in SUBSET Keys /\
             req[t].stale \in SUBSET Keys
      /\ minted \in 0..MaxKeys /\ written \in 0..MaxMessages
      /\ pc[t] \in {"unlink", "refund"} => Min(req[t].held) \in Keys
      /\ pc[t] = "sweep" => Min(req[t].stale) \in Keys
  <2>1. req[t].held # {} => Min(req[t].held) \in req[t].held
    BY FirstHeld
  <2>2. req[t].stale # {} => Min(req[t].stale) \in req[t].stale
    BY FirstHeld
  <2> QED
    BY <2>1, <2>2, InHandIs, SharedIs DEF FitAt, SharedOK
<1>1. ASSUME WriteFile(t)
      PROVE  /\ Moves(t)
             /\ \/ /\ minted < MaxKeys /\ minted' = minted + 1 /\ disk' = disk \cup {minted + 1}
                   /\ \E n \in 1..MaxFile : n <= req[t].reserved + plan.overrun /\
                          size' = [size EXCEPT ![minted + 1] = n]
                   /\ Turned(t, "settle", minted + 1, req[t].msg, req[t].held, req[t].stale)
                \/ Stayed(t, "giveback") /\ UNCHANGED <<disk, size, minted>>
  <2>0. At(t, "write") /\ minted \in Int
    BY <1>1, <1>0 DEF WriteFile
  <2>1. CASE Goto(t, "giveback") /\ UNCHANGED <<disk, size, minted, req>>
    <3>1. Stayed(t, "giveback") /\ (FitAt("giveback", req'[t]) => Moves(t))
      BY <2>1, StayMoves DEF Steps
    <3> QED
      BY <2>0, <2>1, <3>1, <1>0 DEF FitAt, At, Stayed, Turned
  <2>2. CASE minted < MaxKeys /\ Goto(t, "settle")
    <3>1. minted + 1 \in Keys
      BY <2>2, <1>0
    <3>2. /\ minted' = minted + 1 /\ disk' = disk \cup {minted + 1} /\
                 req' = [req EXCEPT ![t].key = minted + 1]
          /\ \E n \in 1..MaxFile : n <= req[t].reserved + plan.overrun /\
                 size' = [size EXCEPT ![minted + 1] = n]
      <4>1. ~Goto(t, "giveback")
        BY <2>2, <1>0 DEF Goto, ThreadsOK
      <4> QED
        BY <1>0, <1>1, <2>2, <4>1, PlanIs DEF WriteFile, BoundsOK
    <3>3. Turned(t, "settle", minted + 1, req[t].msg, req[t].held, req[t].stale) /\
              (FitAt("settle", req'[t]) => Moves(t))
      BY <2>2, <3>1, <3>2, TakeMoves DEF Steps
    <3>4. FitAt("settle", req'[t])
      BY <2>0, <3>1, <3>3, <1>0 DEF FitAt, At, Turned
    <3> QED
      BY <2>2, <3>2, <3>3, <3>4
  <2>3. plan \in Plans
    BY <1>0 DEF BoundsOK
  <2> QED
    BY <1>1, <2>0, <2>1, <2>2, <2>3, PlanIs DEF WriteFile
<1>2. ASSUME GiveBack(t)
      PROVE  /\ Moves(t)
             /\ Rested(t)
  BY <1>2, RestMoves DEF GiveBack
<1>3. ASSUME Settle(t)
      PROVE  /\ Moves(t)
             /\ Stayed(t, "recheck")
  <2>1. Stayed(t, "recheck") /\ (FitAt("recheck", req'[t]) => Moves(t))
    BY <1>3, StayMoves DEF Settle, Steps
  <2> QED
    BY <1>3, <2>1, <1>0 DEF Settle, At, FitAt, Stayed, Turned
<1>4. ASSUME Recheck(t)
      PROVE  /\ Moves(t)
             /\ Dropping(t, {req[t].key}) \/ Stayed(t, "saved")
  <2>0. At(t, "recheck") /\ req[t].key \in Keys
    BY <1>4, <1>0 DEF Recheck, At, FitAt
  <2>1. CASE Goto(t, "saved") /\ UNCHANGED req
    <3>1. Stayed(t, "saved") /\ (FitAt("saved", req'[t]) => Moves(t))
      BY <2>1, StayMoves DEF Steps
    <3> QED
      BY <2>0, <3>1, <1>0 DEF At, FitAt, Stayed, Turned
  <2>2. CASE Drop(t, {req[t].key})
    BY <2>0, <2>2, DropsMove
  <2> QED
    BY <1>4, <2>1, <2>2 DEF Recheck
<1>5. ASSUME Unlink(t)
      PROVE  /\ Moves(t)
             /\ \/ disk' = disk \ {Min(req[t].held)} /\ Stayed(t, "refund")
                \/ disk' = disk /\ DropsNext(t)
  <2>1. CASE Goto(t, "refund") /\ UNCHANGED req
    <3>1. Stayed(t, "refund") /\ (FitAt("refund", req'[t]) => Moves(t))
      BY <2>1, StayMoves DEF Steps
    <3>2. Moves(t)
      BY <1>5, <3>1, <1>0 DEF Unlink, At, FitAt, Stayed, Turned
    <3>3. "unlink" # "refund"
      OBVIOUS
    <3> QED
      BY <1>5, <2>1, <3>1, <3>2, DroppedsMove DEF Unlink
  <2>2. CASE Dropped(t) /\ UNCHANGED disk
    BY <2>2, DroppedsMove
  <2> QED
    BY <1>5, <2>1, <2>2 DEF Unlink
<1>6. ASSUME Refund(t)
      PROVE  /\ Moves(t)
             /\ DropsNext(t)
  BY <1>6, DroppedsMove DEF Refund
<1>7. ASSUME Record(t)
      PROVE  /\ Moves(t)
             /\ \/ row' = [row EXCEPT ![req[t].key] = Pending] /\ Stayed(t, "reread")
                \/ row' = row /\ Dropping(t, {req[t].key})
  <2>0. At(t, "saved") /\ req[t].key \in Keys /\ req[t].call = "attach"
    BY <1>7, <1>0 DEF Record, At, FitAt
  <2>1. CASE row' = [row EXCEPT ![req[t].key] = Pending] /\ Goto(t, "reread") /\ UNCHANGED req
    <3>1. Stayed(t, "reread") /\ (FitAt("reread", req'[t]) => Moves(t))
      BY <2>1, StayMoves DEF Steps
    <3> QED
      BY <2>0, <2>1, <3>1, <1>0 DEF FitAt, Stayed, Turned
  <2>2. CASE row' = row /\ Drop(t, {req[t].key})
    BY <2>0, <2>2, DropsMove
  <2> QED
    BY <1>7, <2>1, <2>2 DEF Record
<1>8. ASSUME RereadFile(t)
      PROVE  /\ Moves(t)
             /\ \/ row[req[t].key] # NoRow /\ Rested(t)
                \/ (row[req[t].key] = NoRow \/ Fails("reply")) /\ Dropping(t, {req[t].key})
  <2>0. req[t].key \in Keys
    BY <1>8, <1>0 DEF RereadFile, At, FitAt, Uploading
  <2>1. CASE row[req[t].key] # NoRow /\ Finish(t)
    BY <2>1, RestMoves
  <2>2. CASE (row[req[t].key] = NoRow \/ Fails("reply")) /\ Drop(t, {req[t].key})
    BY <2>0, <2>2, DropsMove
  <2> QED
    BY <1>8, <2>1, <2>2 DEF RereadFile
<1>9. ASSUME Replace(t)
      PROVE  /\ Moves(t)
             /\ \/ pic' = [pic EXCEPT ![req[t].who] = req[t].key] /\ Took(t, "point",
                       Displaced(req[t].who))
                \/ pic' = pic /\ Dropping(t, {req[t].key})
  <2>0. At(t, "saved") /\ req[t].key \in Keys /\ req[t].call = "picture" /\ req[t].who \in Users
    BY <1>9, <1>0 DEF Replace, At, FitAt
  <2>1. CASE /\ pic' = [pic EXCEPT ![req[t].who] = req[t].key]
             /\ req' = [req EXCEPT ![t].held = Displaced(req[t].who)] /\ Goto(t, "point")
    <3>1. Displaced(req[t].who) \in SUBSET Keys
      BY <2>0, <1>0 DEF Displaced, Real, PeopleOK
    <3>2. Took(t, "point", Displaced(req[t].who)) /\ (FitAt("point", req'[t]) => Moves(t))
      BY <2>1, <3>1, TakeMoves DEF Steps
    <3> QED
      BY <2>0, <2>1, <3>2, <1>0 DEF FitAt, Took, Turned
  <2>2. CASE pic' = pic /\ Drop(t, {req[t].key})
    BY <2>0, <2>2, DropsMove
  <2> QED
    BY <1>9, <2>1, <2>2 DEF Replace
<1>10. ASSUME Point(t)
      PROVE  /\ Moves(t)
             /\ Dropping(t, req[t].held) \/ Stayed(t, "unpicture")
  <2>0. At(t, "point") /\ req[t].who \in Users
    BY <1>10, <1>0 DEF Point, At, FitAt
  <2>1. CASE Goto(t, "unpicture") /\ UNCHANGED req
    <3>1. Stayed(t, "unpicture") /\ (FitAt("unpicture", req'[t]) => Moves(t))
      BY <2>1, StayMoves DEF Steps
    <3> QED
      BY <2>0, <3>1, <1>0 DEF At, FitAt, Stayed, Turned
  <2>2. CASE Drop(t, req[t].held)
    BY <2>2, <1>0, DropsMove
  <2> QED
    BY <1>10, <2>1, <2>2 DEF Point
<1>11. ASSUME ReadHeld(t)
      PROVE  /\ Moves(t)
             /\ \/ Rested(t)
                \/ pic[req[t].who] # NoKey /\ Took(t, "clear", {pic[req[t].who]})
  <2>0. At(t, "unpicture") /\ req[t].who \in Users
    BY <1>11, <1>0 DEF ReadHeld, At, FitAt
  <2>1. CASE Finish(t)
    BY <2>1, RestMoves
  <2>2. CASE pic[req[t].who] # NoKey /\ req' = [req EXCEPT ![t].held = {pic[req[t].who]}] /\
                 Goto(t, "clear")
    <3>1. {pic[req[t].who]} \in SUBSET Keys
      BY <2>0, <2>2, <1>0 DEF PeopleOK
    <3>2. Took(t, "clear", {pic[req[t].who]}) /\ (FitAt("clear", req'[t]) => Moves(t))
      BY <2>2, <3>1, TakeMoves DEF Steps
    <3> QED
      BY <2>0, <2>2, <3>2, <1>0 DEF FitAt, Took, Turned
  <2> QED
    BY <1>11, <2>1, <2>2 DEF ReadHeld
<1>12. ASSUME ClearMedia(t)
      PROVE  /\ Moves(t)
             /\ \/ pic' = [pic EXCEPT ![req[t].who] = NoKey] /\ Dropping(t, req[t].held)
                \/ pic' = pic /\ Rested(t)
  BY <1>12, <1>0, DropsMove, RestMoves DEF ClearMedia
<1>13. ASSUME SetServerIcon(t)
      PROVE  /\ Moves(t)
             /\ icon' = req[t].key /\ Took(t, "saveicon", Real({icon}))
  <2>1. Real({icon}) \in SUBSET Keys
    BY <1>0 DEF Real, OthersOK
  <2>2. Took(t, "saveicon", Real({icon})) /\ (FitAt("saveicon", req'[t]) => Moves(t))
    BY <1>13, <2>1, TakeMoves DEF SetServerIcon, Steps
  <2> QED
    BY <1>13, <2>2, <1>0 DEF SetServerIcon, At, FitAt, Took, Turned
<1>14. ASSUME SaveIcon(t)
      PROVE  /\ Moves(t)
             /\ \/ savedIcon' = req[t].key /\ Dropping(t, req[t].held)
                \/ Fails("config") /\ savedIcon' = savedIcon /\ Dropping(t, Real({req[t].key}))
  <2>1. Real({req[t].key}) \in SUBSET Keys
    BY <1>0 DEF Real
  <2> QED
    BY <1>14, <2>1, <1>0, DropsMove DEF SaveIcon
<1>15. ASSUME CreateRow(t)
      PROVE  /\ Moves(t)
             /\ \/ /\ written < MaxMessages /\ written' = written + 1 /\
                          msgs' = msgs \cup {written + 1}
                   /\ thread' = [thread EXCEPT ![written + 1] = IF req[t].call = "post" THEN written + 1 ELSE req[t].msg]
                   /\ posts' \in {posts, posts \cup {written + 1}}
                   /\ Turned(t, "reread", req[t].key, written + 1, req[t].held, req[t].stale)
                \/ /\ UNCHANGED <<msgs, written, posts, thread, author>>
                   /\ IF req[t].call = "delivery" THEN Dropping(t, {req[t].key}) ELSE Rested(t)
  <2>0. /\ req[t].call = "delivery" => pc[t] = "saved"
        /\ req[t].call \in {"delivery"} \cup Saying
        /\ req[t].call = "delivery" => req[t].key \in Keys
    BY <1>15, <1>0 DEF CreateRow, At, FitAt, Saying
  <2>1. CASE UNCHANGED <<msgs, written, posts, thread, author>>
    <3>1. IF req[t].call = "delivery" THEN Drop(t, {req[t].key}) ELSE Finish(t)
      BY <1>15, <2>1, <1>0 DEF CreateRow
    <3> QED
      BY <2>0, <2>1, <3>1, DropsMove, RestMoves
  <2>2. CASE written < MaxMessages /\ Goto(t, "reread") /\ written' = written + 1
    <3>1. written + 1 \in Messages /\ written # written + 1
      BY <2>2, <1>0
    <3>2. /\ msgs' = msgs \cup {written + 1}
          /\ thread' = [thread EXCEPT ![written + 1] = IF req[t].call = "post" THEN written + 1 ELSE req[t].msg]
          /\ posts' \in {posts, posts \cup {written + 1}} /\
                 req' = [req EXCEPT ![t].msg = written + 1]
      BY <1>15, <2>2, <3>1 DEF CreateRow
    <3>3. Turned(t, "reread", req[t].key, written + 1, req[t].held, req[t].stale) /\
              (FitAt("reread", req'[t]) => Moves(t))
      BY <2>2, <3>1, <3>2, TakeMoves DEF Steps
    <3>4. FitAt("reread", req'[t])
      BY <2>0, <3>1, <3>3 DEF FitAt, Turned, Uploading, Saying
    <3> QED
      BY <2>2, <3>2, <3>3, <3>4
  <2>3. plan \in Plans /\ written \in Int
    BY <1>0 DEF BoundsOK
  <2> QED
    BY <1>15, <2>1, <2>2, <2>3, PlanIs DEF CreateRow
<1>16. ASSUME RereadRow(t)
      PROVE  /\ Moves(t)
             /\ \/ req[t].msg \in msgs /\ Stayed(t, "claim")
                \/ IF req[t].call = "delivery" THEN Dropping(t, {req[t].key}) ELSE Rested(t)
  <2>0. /\ req[t].call \in {"delivery"} \cup Saying /\ req[t].msg \in Messages
        /\ req[t].call = "delivery" => req[t].key \in Keys
    BY <1>16, <1>0 DEF RereadRow, At, FitAt, Uploading, Saying
  <2>1. CASE req[t].msg \in msgs /\ Goto(t, "claim") /\ UNCHANGED req
    <3>1. Stayed(t, "claim") /\ (FitAt("claim", req'[t]) => Moves(t))
      BY <2>1, StayMoves DEF Steps
    <3> QED
      BY <2>0, <2>1, <3>1 DEF FitAt, Stayed, Turned, Uploading, Saying
  <2>2. CASE IF req[t].call = "delivery" THEN Drop(t, {req[t].key}) ELSE Finish(t)
    BY <2>0, <2>2, DropsMove, RestMoves
  <2> QED
    BY <1>16, <2>1, <2>2 DEF RereadRow
<1>17. ASSUME Claim(t)
      PROVE  /\ Moves(t)
             /\ /\ pc[t] = "claim" /\ req[t].call # "delivery"
                /\ \/ /\ req[t].held = {} \/ (req[t].msg \in msgs /\ \A k \in req[t].held :
                             Claimable(k, req[t].who))
                      /\ row' = [k \in Keys |-> IF k \in req[t].held THEN req[t].msg ELSE row[k]]
                      /\ Stayed(t, "announce") \/ Stayed(t, "readback")
                      /\ Stayed(t, "announce") => req[t].held = {}
                   \/ row' = row /\ Stayed(t, "rollback")
  <2>0. At(t, "claim") /\ req[t].call \in Saying /\ req[t].call # "delivery" /\
            req[t].msg \in Messages
    BY <1>17, <1>0 DEF Claim, At, FitAt
  <2>1. ASSUME NEW p \in {"announce", "readback", "rollback"}, Goto(t, p), UNCHANGED req
        PROVE  Stayed(t, p) /\ Moves(t)
    <3>1. Stayed(t, p) /\ (FitAt(p, req'[t]) => Moves(t))
      BY <2>1, StayMoves DEF Steps
    <3> QED
      BY <2>0, <2>1, <3>1 DEF FitAt, Stayed, Turned, Uploading, Saying
  <2>2. CASE row' = row /\ Goto(t, "rollback") /\ UNCHANGED req
    BY <2>0, <2>1, <2>2 DEF At
  <2>3. CASE /\ req[t].held = {} \/ (req[t].msg \in msgs /\ \A k \in req[t].held : Claimable(k,
                    req[t].who))
             /\ row' = [k \in Keys |-> IF k \in req[t].held THEN req[t].msg ELSE row[k]]
             /\ Goto(t, IF req[t].held = {} THEN "announce" ELSE "readback") /\ UNCHANGED req
    <3>1. CASE req[t].held = {}
      BY <2>0, <2>1, <2>3, <3>1 DEF At
    <3>2. CASE req[t].held # {}
      <4>1. Stayed(t, "readback") /\ Moves(t)
        BY <2>1, <2>3, <3>2
      <4>2. ~Stayed(t, "announce")
        BY <4>1 DEF Stayed, Turned
      <4> QED
        BY <2>0, <2>3, <4>1, <4>2 DEF At
    <3> QED
      BY <3>1, <3>2
  <2> QED
    BY <1>17, <2>2, <2>3 DEF Claim
<1>18. ASSUME Bind(t)
      PROVE  /\ Moves(t)
             /\ /\ pc[t] = "claim" /\ req[t].call = "delivery"
                /\ \/ req[t].msg \in msgs /\ row' = [row EXCEPT ![req[t].key] = req[t].msg] /\
                          Stayed(t, "readback")
                   \/ row' = row /\ Stayed(t, "rollback")
  <2>0. At(t, "claim") /\ req[t].call = "delivery" /\ req[t].key \in Keys /\ req[t].msg \in Messages
    BY <1>18, <1>0 DEF Bind, At, FitAt, Uploading
  <2>1. ASSUME NEW p \in {"readback", "rollback"}, Goto(t, p), UNCHANGED req
        PROVE  Stayed(t, p) /\ Moves(t)
    <3>1. Stayed(t, p) /\ (FitAt(p, req'[t]) => Moves(t))
      BY <2>1, StayMoves DEF Steps
    <3> QED
      BY <2>0, <2>1, <3>1 DEF FitAt, Stayed, Turned, Uploading, Saying
  <2> QED
    BY <1>18, <2>0, <2>1 DEF Bind, At
<1>19. ASSUME ReadBack(t)
      PROVE  /\ Moves(t)
             /\ \/ /\ ~(req[t].call = "delivery" /\ row[req[t].key] = NoRow)
                   /\ Took(t, "announce", Carried(req[t].msg))
                \/ /\ (req[t].call = "delivery" /\ row[req[t].key] = NoRow) \/ Fails("reply")
                   /\ Stayed(t, "rollback")
  <2>0. /\ At(t, "readback") /\ req[t].call \in {"delivery"} \cup Saying
        /\ req[t].call = "delivery" => req[t].key \in Keys
        /\ req[t].msg \in Messages
    BY <1>19, <1>0 DEF ReadBack, At, FitAt, Uploading
  <2>1. CASE Goto(t, "rollback") /\ UNCHANGED req
    <3>1. Stayed(t, "rollback") /\ (FitAt("rollback", req'[t]) => Moves(t))
      BY <2>1, StayMoves DEF Steps
    <3>2. Moves(t)
      BY <2>0, <3>1 DEF FitAt, Stayed, Turned, Uploading, Saying
    <3>3. ~Goto(t, "announce")
      BY <3>1, <1>0 DEF Goto, Stayed, Turned, ThreadsOK
    <3> QED
      BY <1>19, <3>1, <3>2, <3>3 DEF ReadBack
  <2>2. CASE /\ ~(req[t].call = "delivery" /\ row[req[t].key] = NoRow)
             /\ req' = [req EXCEPT ![t].held = Carried(req[t].msg)] /\ Goto(t, "announce")
    <3>1. Carried(req[t].msg) \in SUBSET Keys
      BY DEF Carried
    <3>2. Took(t, "announce", Carried(req[t].msg)) /\ (FitAt("announce", req'[t]) => Moves(t))
      BY <2>2, <3>1, TakeMoves DEF Steps
    <3> QED
      BY <2>0, <2>2, <3>2 DEF FitAt, Took, Turned, Uploading, Saying
  <2> QED
    BY <1>19, <2>1, <2>2 DEF ReadBack
<1>20. ASSUME Announce(t)
      PROVE  /\ Moves(t)
             /\ Rested(t)
  BY <1>20, RestMoves DEF Announce
<1>21. ASSUME Rollback(t)
      PROVE  /\ Moves(t)
             /\ IF req[t].call = "delivery" THEN Dropping(t, {req[t].key}) ELSE Rested(t)
  <2>0. req[t].call = "delivery" => req[t].key \in Keys
    BY <1>21, <1>0 DEF Rollback, At, FitAt, Uploading
  <2> QED
    BY <1>21, <2>0, DropsMove, RestMoves DEF Rollback
<1>22. ASSUME Delete(t)
      PROVE  /\ Moves(t)
             /\ \/ Rested(t) /\ UNCHANGED row
                \/ /\ Dropping(t, req[t].held)
                   /\ \/ req[t].call = "delete" /\ req[t].msg \in msgs /\ DeleteRows({req[t].msg},
                             {})
                      \/ req[t].call = "deletepost" /\ DeleteRows(Threaded(req[t].msg),
                             {req[t].msg})
                      \/ req[t].call = "channel" /\ DeleteRows(msgs \cup {Pending}, posts)
  BY <1>22, <1>0, DropsMove, RestMoves DEF Delete
<1>23. ASSUME PurgePosts(t)
      PROVE  /\ Moves(t)
             /\ Stayed(t, "unsay")
  <2>1. Stayed(t, "unsay") /\ (FitAt("unsay", req'[t]) => Moves(t))
    BY <1>23, StayMoves DEF PurgePosts, Steps
  <2> QED
    BY <2>1 DEF FitAt
<1>24. ASSUME PurgeMessages(t)
      PROVE  /\ Moves(t)
             /\ Stayed(t, "forget")
  <2>1. Stayed(t, "forget") /\ (FitAt("forget", req'[t]) => Moves(t))
    BY <1>24, StayMoves DEF PurgeMessages, Steps
  <2> QED
    BY <2>1 DEF FitAt
<1>25. ASSUME ForgetUser(t)
      PROVE  /\ Moves(t)
             /\ Rested(t)
  BY <1>25, RestMoves DEF ForgetUser
<1>26. ASSUME SweepNext(t)
      PROVE  /\ Moves(t)
             /\ \/ /\ row' = [row EXCEPT ![Min(req[t].stale)] = NoRow] /\
                          row[Min(req[t].stale)] # NoRow
                   /\ Turned(t, "unlink", req[t].key, req[t].msg, {Min(req[t].stale)},
                          req[t].stale \ {Min(req[t].stale)})
                \/ /\ row' = row
                   /\ \/ Rested(t)
                      \/ Turned(t, "sweep", req[t].key, req[t].msg, req[t].held,
                             req[t].stale \ {Min(req[t].stale)})
  <2> DEFINE k == Min(req[t].stale)
             rest == req[t].stale \ {k}
  <2>0. k \in Keys /\ rest \in SUBSET Keys /\ {k} \in SUBSET Keys
    BY <1>26, <1>0 DEF SweepNext, At, FitAt
  <2>1. CASE row' = row /\ Finish(t)
    BY <2>1, RestMoves
  <2>2. CASE row' = row /\ req' = [req EXCEPT ![t].stale = rest] /\ Goto(t, "sweep") /\ rest # {}
    <3>1. Turned(t, "sweep", req[t].key, req[t].msg, req[t].held, rest) /\
              (FitAt("sweep", req'[t]) => Moves(t))
      <4> HIDE DEF k, rest
      <4> QED
        BY <2>0, <2>2, TakeMoves DEF Steps
    <3> QED
      BY <2>2, <3>1 DEF FitAt, Turned
  <2>3. CASE /\ row[k] # NoRow /\ row' = [row EXCEPT ![k] = NoRow] /\ Goto(t, "unlink")
             /\ req' = [req EXCEPT ![t].stale = rest, ![t].held = {k}]
    <3> DEFINE q == [req[t] EXCEPT !.stale = rest]
               r == [q EXCEPT !.held = {k}]
    <3>1. req[t] \in Request /\ req \in [Threads -> Request]
      BY <1>0 DEF ThreadsOK
    <3> HIDE DEF k, rest
    <3>2. q \in Request
      BY <2>0, <3>1, RequestsAre
    <3>2a. q = [call |-> req[t].call, who |-> req[t].who, key |-> req[t].key,
               reserved |-> req[t].reserved,
                msg |-> req[t].msg, held |-> req[t].held, stale |-> rest]
      BY <3>1, FieldsAre
    <3>2b. req' = [req EXCEPT ![t] = r]
      BY <2>3, <3>1
    <3> HIDE DEF q
    <3>3. r \in Request
      BY <2>0, <3>2, RequestsAre
    <3>4. r = [call |-> q.call, who |-> q.who, key |-> q.key, reserved |-> q.reserved,
               msg |-> q.msg, held |-> {k}, stale |-> q.stale]
      BY <3>2, FieldsAre
    <3> HIDE DEF r
    <3>5. pc'[t] = "unlink" /\ req'[t] = r /\ (FitAt("unlink", r) => Moves(t))
      BY <2>3, <3>2b, <3>3, TurnMoves DEF Steps
    <3>6. Turned(t, "unlink", req[t].key, req[t].msg, {k}, rest)
      BY <3>2a, <3>4, <3>5 DEF Turned
    <3>7. FitAt("unlink", r)
      BY <3>4 DEF FitAt
    <3> QED
      BY <2>3, <3>5, <3>6, <3>7 DEF k, rest
  <2> QED
    BY <1>26, <2>1, <2>2, <2>3 DEF SweepNext, Sweepable
<1> QED
  BY <1>1, <1>2, <1>3, <1>4, <1>5, <1>6, <1>7, <1>8, <1>9, <1>10, <1>11, <1>12, <1>13, <1>14,
     <1>15, <1>16, <1>17, <1>18, <1>19, <1>20, <1>21, <1>22, <1>23, <1>24, <1>25, <1>26

\* A thread that begins moves where it can be.
LEMMA BegunMoves ==
    ASSUME ThreadsOK, NEW t \in Threads, NEW p \in Steps, NEW c, NEW u, NEW n, NEW m, NEW ks,
               NEW ss,
           Begun(t, p, c, u, n, m, ks, ss)
    PROVE  /\ pc'[t] = p /\ Is(req'[t], c, u, n, m, ks, ss)
           /\ FitAt(p, req'[t]) => Moves(t)
<1>1. PICK r \in Request : Moved(t, p, r) /\ Is(r, c, u, n, m, ks, ss)
  BY DEF Begun
<1>2. pc'[t] = p /\ req'[t] = r
  BY <1>1, MovedIs
<1> QED
  BY <1>1, <1>2 DEF Moves

Starts(t) ==
    \/ Upload(t) \/ ClearPicture(t) \/ ClearIcon(t) \/ SendMessage(t) \/ CreatePost(t)
    \/ DeleteMessage(t) \/ DeletePost(t) \/ DeleteChannel(t) \/ Purge(t) \/ Sweep(t)

\* Every request begins at one of these steps, with no file of its own.
LEMMA StartsMove ==
    ASSUME Typed, NEW t \in Threads, Starts(t)
    PROVE  /\ Moves(t)
           /\ pc'[t] \in {"write", "unpicture", "saveicon", "create", "delete", "forget", "purge",
                  "sweep"}
           /\ req'[t].key = NoKey
<1>0. ThreadsOK /\ SharedOK /\ members \subseteq Users
  BY InHandIs DEF SharedOK
<1>1. ASSUME NEW p \in Steps, NEW c, NEW u, NEW n, NEW m, NEW ks, NEW ss, Begun(t, p, c, u, n, m,
                 ks, ss),
             p \in {"write", "unpicture", "saveicon", "create", "delete", "forget", "purge",
                 "sweep"},
             p = "write" => c \in Uploading /\ (c = "picture" => u \in Users),
             p = "unpicture" => u \in Users, p = "saveicon" => c = "clear",
             p = "create" => c \in Saying, p = "sweep" => ss # {},
             p = "delete" => c \in {"delete", "deletepost", "channel"}
      PROVE  /\ Moves(t)
             /\ pc'[t] \in {"write", "unpicture", "saveicon", "create", "delete", "forget",
                    "purge", "sweep"}
             /\ req'[t].key = NoKey
  <2>1. pc'[t] = p /\ Is(req'[t], c, u, n, m, ks, ss) /\ (FitAt(p, req'[t]) => Moves(t))
    BY <1>0, <1>1, BegunMoves
  <2> QED
    BY <1>1, <2>1 DEF FitAt, Is
<1>2. CASE Upload(t)
  <2>1. PICK c \in Uploading, n \in 1..MaxFile, u \in members \cup {NoUser} :
               Begun(t, "write", c, u, n, 0, {}, {}) /\ (c = "picture" => u \in members)
    BY <1>0, <1>2, Begins
  <2> QED
    BY <1>0, <1>1, <2>1 DEF Steps
<1>3. CASE ClearPicture(t)
  <2>1. PICK u \in members : Begun(t, "unpicture", "clear", u, 0, 0, {}, {})
    BY <1>0, <1>3, Begins
  <2> QED
    BY <1>0, <1>1, <2>1 DEF Steps
<1>4. CASE ClearIcon(t)
  <2>1. Begun(t, "saveicon", "clear", NoUser, 0, 0, Real({icon}), {})
    BY <1>0, <1>4, Begins
  <2> QED
    BY <1>1, <2>1 DEF Steps
<1>5. CASE SendMessage(t)
  <2>1. PICK u \in members, ids \in SUBSET Keys, p \in posts \cup {0} : Begun(t, "create", "send",
                 u, 0, p, ids, {})
    BY <1>0, <1>5, Begins
  <2> QED
    BY <1>1, <2>1 DEF Steps, Saying
<1>6. CASE CreatePost(t)
  <2>1. PICK u \in members, ids \in SUBSET Keys : Begun(t, "create", "post", u, 0, 0, ids, {})
    BY <1>0, <1>6, Begins
  <2> QED
    BY <1>1, <2>1 DEF Steps, Saying
<1>7. CASE DeleteMessage(t)
  <2>1. PICK m \in msgs : Begun(t, "delete", "delete", NoUser, 0, m, Carried(m), {})
    BY <1>0, <1>7, Begins
  <2> QED
    BY <1>1, <2>1 DEF Steps
<1>8. CASE DeletePost(t)
  <2>1. PICK p \in posts :
           Begun(t, "delete", "deletepost", NoUser, 0, p, UNION {Carried(m) : m \in Threaded(p)},
               {})
    BY <1>0, <1>8, Begins
  <2> QED
    BY <1>1, <2>1 DEF Steps
<1>9. CASE DeleteChannel(t)
  <2>1. Begun(t, "delete", "channel", NoUser, 0, 0, Attached, {})
    BY <1>0, <1>9, Begins
  <2> QED
    BY <1>1, <2>1 DEF Steps
<1>10. CASE Purge(t)
  <2>1. PICK u \in members, m \in msgs \cup {0}, p \in {"forget", "purge"} : Begun(t, p, "purge",
                 u, 0, m, {}, {})
    BY <1>0, <1>10, Begins
  <2> QED
    BY <1>1, <2>1 DEF Steps
<1>11. CASE Sweep(t)
  <2>1. PICK ss \in (SUBSET Keys) \ {{}} : Begun(t, "sweep", "sweep", NoUser, 0, 0, {}, ss)
    BY <1>0, <1>11, Begins
  <2>2. ss # {}
    BY <2>1
  <2> HIDE DEF Keys
  <2> QED
    BY <1>1, <2>1, <2>2 DEF Steps
<1> QED
  BY <1>2, <1>3, <1>4, <1>5, <1>6, <1>7, <1>8, <1>9, <1>10, <1>11 DEF Starts

\* Every step leaves its thread where it can be.
LEMMA StepMoves ==
    ASSUME Typed, NEW t \in Threads, Step(t)
    PROVE  Moves(t)
BY Goes, StartsMove DEF Step, Starts

\* The bounds are kept.
LEMMA BoundsStep ==
    ASSUME Typed, NEW t \in Threads, Step(t), plan' = plan
    PROVE  BoundsOK'
<1>0. BoundsOK /\ plan.requests \in Nat
  BY InHandIs, SharedIs, PlanIs DEF BoundsOK
<1>1. CASE UNCHANGED <<requests, restarts>>
  BY <1>0, <1>1 DEF BoundsOK
<1>2. CASE Starts(t)
  <2>1. requests < plan.requests /\ requests' = requests + 1 /\ restarts' = restarts
    <3>1. Upload(t) => requests < plan.requests /\ requests' = requests + 1 /\ restarts' = restarts
      BY DEF Upload, Reserve, Begin
    <3>2. ClearPicture(t) \/ ClearIcon(t) \/ SendMessage(t) \/ CreatePost(t) =>
             requests < plan.requests /\ requests' = requests + 1 /\ restarts' = restarts
      BY DEF ClearPicture, ClearIcon, SendMessage, CreatePost, Begin
    <3>3. DeleteMessage(t) \/ DeletePost(t) \/ DeleteChannel(t) \/ Purge(t) \/ Sweep(t) =>
             requests < plan.requests /\ requests' = requests + 1 /\ restarts' = restarts
      BY DEF DeleteMessage, DeletePost, DeleteChannel, Purge, Sweep, Begin
    <3> QED
      BY <1>2, <3>1, <3>2, <3>3 DEF Starts
  <2> QED
    BY <1>0, <2>1 DEF BoundsOK
<1> QED
  BY <1>1, <1>2, BoundsActs DEF Starts

\* The channel is there or not.
LEMMA ChannelStep ==
    ASSUME Typed, NEW t \in Threads, Step(t)
    PROVE  channel' \in BOOLEAN
<1>1. channel \in BOOLEAN
  BY InHandIs
<1>2. channel' = channel \/ Delete(t)
  BY Frame DEF Step
<1>3. Delete(t) => channel' = channel \/ channel' = FALSE
  BY DEF Delete
<1> QED
  BY <1>1, <1>2, <1>3

\* Every step keeps every type.
LEMMA TypedStep ==
    ASSUME Typed, NEW t \in Threads, Step(t), plan' = plan
    PROVE  Typed'
<1>1. SharedOK'
  <2>1. FilesOK' /\ PeopleOK' /\ MessagesOK' /\ OthersOK' /\ BoundsOK'
    BY FilesStep, PeopleStep, MessagesStep, OthersStep, BoundsStep
  <2> QED
    BY <2>1 DEF SharedOK, FilesOK, PeopleOK, MessagesOK, OthersOK, BoundsOK
<1>2. ThreadsOK' /\ \A u \in Threads : Fit(u)'
  <2>1. ThreadsOK /\ \A u \in Threads : Fit(u)
    BY TypesAre DEF Typed
  <2>2. Moves(t)
    BY StepMoves
  <2> QED
    BY <2>1, <2>2, MovesFit
<1>3. channel' \in BOOLEAN
  BY ChannelStep
<1>4. TypeOK'
  BY <1>1, <1>2, <1>3 DEF TypeOK, SharedOK, ThreadsOK
<1> QED
  BY <1>2, <1>4 DEF Typed

\* Where everything starts over.
LEMMA RestsFit == FitAt("idle", NoRequest) /\ "idle" \in Steps /\ NoRequest \in Request
BY RequestsAre DEF FitAt, Steps

\* Everything has its type at the start.
LEMMA TypedInit ==
    ASSUME Init
    PROVE  Typed
<1>1. FilesOK
  BY DEF Init, FilesOK
<1>2. PeopleOK
  BY DEF Init, PeopleOK
<1>3. MessagesOK
  BY DEF Init, MessagesOK
<1>4. OthersOK /\ BoundsOK /\ channel \in BOOLEAN
  BY PlanIs DEF Init, OthersOK, BoundsOK
<1>5. ThreadsOK /\ \A t \in Threads : Fit(t)
  BY RestsFit DEF Init, ThreadsOK, Fit
<1>6. SharedOK
  BY <1>1, <1>2, <1>3, <1>4, SharedIs
<1> QED
  BY <1>4, <1>5, <1>6, TypesAre DEF Typed

\* A crash and a start keep the types.
LEMMA TypedRestart ==
    ASSUME Typed, Restart, plan' = plan
    PROVE  Typed'
<1>0. FilesOK /\ PeopleOK /\ MessagesOK /\ OthersOK /\ BoundsOK /\ channel \in BOOLEAN /\ SharedOK
  BY TypesAre, SharedIs DEF Typed
<1>1. UNCHANGED <<size, minted, talk, members, rows, pictures, announced, requests>>
  BY DEF Restart
<1>2. FilesOK'
  <2>1. Attached \in SUBSET Keys /\ Pictures \in SUBSET Keys /\ Real({savedIcon}) \in SUBSET Keys
    BY <1>0 DEF Attached, Pictures, Real, PeopleOK, OthersOK
  <2>2. Bytes(Attached) \in Nat /\ Bytes(Pictures) \in Nat /\ Bytes(Real({savedIcon})) \in Nat
    BY <1>0, <2>1, BytesAre
  <2>3. used' = Bytes(Attached) + Bytes(Pictures) + Bytes(Real({savedIcon}))
    BY DEF Restart
  <2>4. used' \in Int
    BY <2>2, <2>3
  <2>5. disk' \subseteq disk
    BY DEF Restart
  <2> QED
    BY <1>0, <1>1, <2>4, <2>5 DEF FilesOK
<1>3. PeopleOK' /\ MessagesOK' /\ channel' \in BOOLEAN
  BY <1>0, <1>1 DEF PeopleOK, MessagesOK
<1>4. OthersOK'
  <2>1. savedIcon' \in {savedIcon, NoKey} /\ icon' = savedIcon'
    BY DEF Restart
  <2> QED
    BY <1>0, <1>1, <2>1 DEF OthersOK
<1>5. BoundsOK'
  BY <1>0, <1>1, PlanIs DEF Restart, BoundsOK
<1>6. ThreadsOK' /\ \A t \in Threads : Fit(t)'
  BY RestsFit DEF Restart, ThreadsOK, Fit
<1>7. SharedOK'
  BY <1>2, <1>3, <1>4, <1>5 DEF SharedOK, FilesOK, PeopleOK, MessagesOK, OthersOK, BoundsOK
<1>8. TypeOK'
  BY <1>3, <1>6, <1>7 DEF TypeOK, SharedOK, ThreadsOK
<1> QED
  BY <1>6, <1>8 DEF Typed

\* So does a step that does nothing.
LEMMA TypedStutter ==
    ASSUME Typed, UNCHANGED vars
    PROVE  Typed'
BY DEF Typed, TypeOK, Fit, vars

\* And every step of the program.
LEMMA TypedNext ==
    ASSUME Typed, [Next]_vars
    PROVE  Typed'
BY TypedStep, TypedRestart, TypedStutter DEF Next

\* Files, rows, pictures, icons and requests keep their types, for any number of
\* users, threads, files and messages.
THEOREM FilesKeepTypes == Spec => []TypeOK
<1>1. Typed => TypeOK
  BY DEF Typed
<1> QED
  BY <1>1, TypedInit, TypedNext, PTL DEF Spec

-----------------------------------------------------------------------------
(* Keys in hand                                                             *)

\* The thread has stored a file that nothing names yet.
Holding(t) ==
    \/ pc[t] \in {"settle", "recheck", "saved"}
    \/ req[t].call = "delivery" /\ pc[t] \in {"reread", "claim"}

\* A file whose key is out of the hands that stored it.
Old(k) == k <= minted /\ \A t \in Threads : Holding(t) => req[t].key # k

\* A step gives a thread no key but the next one.
LEMMA HoldingGoes ==
    ASSUME Typed, NEW t \in Threads, Step(t)
    PROVE  \/ minted' = minted /\ (Holding(t)' => Holding(t) /\ req'[t].key = req[t].key)
           \/ minted' = minted + 1 /\ req'[t].key = minted' /\ pc[t] = "write"
<1>0. pc[t] \in Steps /\ FitAt(pc[t], req[t]) /\ minted \in Int
  BY InHandIs DEF SharedOK
<1>a. Rested(t) => ~Holding(t)'
  BY DEF Rested, Holding, NoRequest
<1>b. ASSUME NEW ks, Dropping(t, ks)
      PROVE  ~Holding(t)'
  BY <1>a, <1>b DEF Dropping, Took, Turned, Holding
<1>c. DropsNext(t) => ~Holding(t)'
  BY <1>a DEF DropsNext, Took, Turned, Holding
<1>d. ASSUME NEW p, Stayed(t, p), Holding(t) \/ p \notin {"settle", "recheck", "saved", "reread",
                 "claim"}
      PROVE  (Holding(t)' => Holding(t) /\ req'[t].key = req[t].key)
  BY <1>d DEF Stayed, Turned, Holding
<1>s. CASE Starts(t)
  <2>1. pc'[t] \notin {"settle", "recheck", "saved", "reread", "claim"}
    BY <1>s, StartsMove
  <2>2. minted' = minted
    BY <1>s, Frame DEF Starts
  <2> QED
    BY <2>1, <2>2 DEF Holding
<1>1. CASE WriteFile(t)
  <2>1. pc[t] = "write"
    BY <1>1 DEF WriteFile, At
  <2>2. \/ minted' = minted + 1 /\ Turned(t, "settle", minted + 1, req[t].msg, req[t].held,
               req[t].stale)
        \/ Stayed(t, "giveback") /\ minted' = minted
    BY <1>1, Goes
  <2> QED
    BY <2>1, <2>2 DEF Stayed, Turned, Holding
<1>2. CASE GiveBack(t)
  <2>1. minted' = minted
    BY <1>2, Frame
  <2> QED
    BY <1>2, <1>a, <2>1, Goes
<1>3. CASE Settle(t)
  <2>1. minted' = minted
    BY <1>3, Frame
  <2>2. Stayed(t, "recheck")
    BY <1>3, Goes
  <2>3. pc[t] = "settle"
    BY <1>3 DEF Settle, At
  <2> QED
    BY <1>a, <1>b, <1>c, <2>1, <2>2, <2>3 DEF Stayed, Took, Turned, Holding
<1>4. CASE Recheck(t)
  <2>1. minted' = minted
    BY <1>4, Frame
  <2>2. Dropping(t, {req[t].key}) \/ Stayed(t, "saved")
    BY <1>4, Goes
  <2>3. pc[t] = "recheck"
    BY <1>4 DEF Recheck, At
  <2> QED
    BY <1>a, <1>b, <1>c, <2>1, <2>2, <2>3 DEF Stayed, Took, Turned, Holding
<1>5. CASE Unlink(t)
  <2>1. minted' = minted
    BY <1>5, Frame
  <2>2. Stayed(t, "refund") \/ DropsNext(t)
    BY <1>5, Goes
  <2>3. pc[t] = "unlink"
    BY <1>5 DEF Unlink, At
  <2> QED
    BY <1>a, <1>b, <1>c, <2>1, <2>2, <2>3 DEF Stayed, Took, Turned, Holding
<1>6. CASE Refund(t)
  <2>1. minted' = minted
    BY <1>6, Frame
  <2> QED
    BY <1>6, <1>c, <2>1, Goes
<1>7. CASE Record(t)
  <2>1. minted' = minted
    BY <1>7, Frame
  <2>2. Stayed(t, "reread") \/ Dropping(t, {req[t].key})
    BY <1>7, Goes
  <2>3. pc[t] = "saved" /\ req[t].call = "attach"
    BY <1>7 DEF Record, At
  <2> QED
    BY <1>a, <1>b, <1>c, <2>1, <2>2, <2>3 DEF Stayed, Took, Turned, Holding
<1>8. CASE RereadFile(t)
  <2>1. minted' = minted
    BY <1>8, Frame
  <2>2. Rested(t) \/ Dropping(t, {req[t].key})
    BY <1>8, Goes
  <2>3. pc[t] = "reread"
    BY <1>8 DEF RereadFile, At
  <2> QED
    BY <1>a, <1>b, <1>c, <2>1, <2>2, <2>3 DEF Stayed, Took, Turned, Holding
<1>9. CASE Replace(t)
  <2>1. minted' = minted
    BY <1>9, Frame
  <2>2. Took(t, "point", Displaced(req[t].who)) \/ Dropping(t, {req[t].key})
    BY <1>9, Goes
  <2>3. pc[t] = "saved"
    BY <1>9 DEF Replace, At
  <2> QED
    BY <1>a, <1>b, <1>c, <2>1, <2>2, <2>3 DEF Stayed, Took, Turned, Holding
<1>10. CASE Point(t)
  <2>1. minted' = minted
    BY <1>10, Frame
  <2>2. Dropping(t, req[t].held) \/ Stayed(t, "unpicture")
    BY <1>10, Goes
  <2>3. pc[t] = "point"
    BY <1>10 DEF Point, At
  <2> QED
    BY <1>a, <1>b, <1>c, <2>1, <2>2, <2>3 DEF Stayed, Took, Turned, Holding
<1>11. CASE ReadHeld(t)
  <2>1. minted' = minted
    BY <1>11, Frame
  <2>2. Rested(t) \/ Took(t, "clear", {pic[req[t].who]})
    BY <1>11, Goes
  <2>3. pc[t] = "unpicture"
    BY <1>11 DEF ReadHeld, At
  <2> QED
    BY <1>a, <1>b, <1>c, <2>1, <2>2, <2>3 DEF Stayed, Took, Turned, Holding
<1>12. CASE ClearMedia(t)
  <2>1. minted' = minted
    BY <1>12, Frame
  <2>2. Dropping(t, req[t].held) \/ Rested(t)
    BY <1>12, Goes
  <2>3. pc[t] = "clear"
    BY <1>12 DEF ClearMedia, At
  <2> QED
    BY <1>a, <1>b, <1>c, <2>1, <2>2, <2>3 DEF Stayed, Took, Turned, Holding
<1>13. CASE SetServerIcon(t)
  <2>1. minted' = minted
    BY <1>13, Frame
  <2>2. Took(t, "saveicon", Real({icon}))
    BY <1>13, Goes
  <2>3. pc[t] = "saved"
    BY <1>13 DEF SetServerIcon, At
  <2> QED
    BY <1>a, <1>b, <1>c, <2>1, <2>2, <2>3 DEF Stayed, Took, Turned, Holding
<1>14. CASE SaveIcon(t)
  <2>1. minted' = minted
    BY <1>14, Frame
  <2>2. Dropping(t, req[t].held) \/ Dropping(t, Real({req[t].key}))
    BY <1>14, Goes
  <2>3. pc[t] = "saveicon"
    BY <1>14 DEF SaveIcon, At
  <2> QED
    BY <1>a, <1>b, <1>c, <2>1, <2>2, <2>3 DEF Stayed, Took, Turned, Holding
<1>15. CASE CreateRow(t)
  <2>1. minted' = minted
    BY <1>15, Frame
  <2>2. \/ Turned(t, "reread", req[t].key, written + 1, req[t].held, req[t].stale)
        \/ Rested(t) \/ Dropping(t, {req[t].key})
    BY <1>15, Goes
  <2>3. req[t].call = "delivery" => pc[t] = "saved"
    BY <1>15, <1>0 DEF CreateRow, At, FitAt, Saying
  <2> QED
    BY <1>a, <1>b, <1>c, <2>1, <2>2, <2>3 DEF Stayed, Took, Turned, Holding
<1>16. CASE RereadRow(t)
  <2>1. minted' = minted
    BY <1>16, Frame
  <2>2. Stayed(t, "claim") \/ Dropping(t, {req[t].key}) \/ Rested(t)
    BY <1>16, Goes
  <2>3. pc[t] = "reread"
    BY <1>16 DEF RereadRow, At
  <2> QED
    BY <1>a, <1>b, <1>c, <2>1, <2>2, <2>3 DEF Stayed, Took, Turned, Holding
<1>17. CASE Claim(t)
  <2>1. minted' = minted
    BY <1>17, Frame
  <2>2. Stayed(t, "announce") \/ Stayed(t, "readback") \/ Stayed(t, "rollback")
    BY <1>17, Goes
  <2>3. pc[t] = "claim"
    BY <1>17 DEF Claim, At
  <2> QED
    BY <1>a, <1>b, <1>c, <2>1, <2>2, <2>3 DEF Stayed, Took, Turned, Holding
<1>18. CASE Bind(t)
  <2>1. minted' = minted
    BY <1>18, Frame
  <2>2. Stayed(t, "readback") \/ Stayed(t, "rollback")
    BY <1>18, Goes
  <2>3. pc[t] = "claim"
    BY <1>18 DEF Bind, At
  <2> QED
    BY <1>a, <1>b, <1>c, <2>1, <2>2, <2>3 DEF Stayed, Took, Turned, Holding
<1>19. CASE ReadBack(t)
  <2>1. minted' = minted
    BY <1>19, Frame
  <2>2. Took(t, "announce", Carried(req[t].msg)) \/ Stayed(t, "rollback")
    BY <1>19, Goes
  <2>3. pc[t] = "readback"
    BY <1>19 DEF ReadBack, At
  <2> QED
    BY <1>a, <1>b, <1>c, <2>1, <2>2, <2>3 DEF Stayed, Took, Turned, Holding
<1>20. CASE Announce(t)
  <2>1. minted' = minted
    BY <1>20, Frame
  <2> QED
    BY <1>20, <1>a, <2>1, Goes
<1>21. CASE Rollback(t)
  <2>1. minted' = minted
    BY <1>21, Frame
  <2>2. Dropping(t, {req[t].key}) \/ Rested(t)
    BY <1>21, Goes
  <2>3. pc[t] = "rollback"
    BY <1>21 DEF Rollback, At
  <2> QED
    BY <1>a, <1>b, <1>c, <2>1, <2>2, <2>3 DEF Stayed, Took, Turned, Holding
<1>22. CASE Delete(t)
  <2>1. minted' = minted
    BY <1>22, Frame
  <2>2. Rested(t) \/ Dropping(t, req[t].held)
    BY <1>22, Goes
  <2>3. pc[t] = "delete"
    BY <1>22 DEF Delete, At
  <2> QED
    BY <1>a, <1>b, <1>c, <2>1, <2>2, <2>3 DEF Stayed, Took, Turned, Holding
<1>23. CASE PurgePosts(t)
  <2>1. minted' = minted
    BY <1>23, Frame
  <2>2. Stayed(t, "unsay")
    BY <1>23, Goes
  <2> QED
    BY <2>1, <2>2 DEF Stayed, Turned, Holding
<1>24. CASE PurgeMessages(t)
  <2>1. minted' = minted
    BY <1>24, Frame
  <2>2. Stayed(t, "forget")
    BY <1>24, Goes
  <2> QED
    BY <2>1, <2>2 DEF Stayed, Turned, Holding
<1>25. CASE ForgetUser(t)
  <2>1. minted' = minted
    BY <1>25, Frame
  <2> QED
    BY <1>25, <1>a, <2>1, Goes
<1>26. CASE SweepNext(t)
  <2>1. minted' = minted
    BY <1>26, Frame
  <2>2. \/ Rested(t)
        \/ \E p \in {"unlink", "sweep"} : \E ks, ss : Turned(t, p, req[t].key, req[t].msg, ks, ss)
    BY <1>26, Goes
  <2>3. pc[t] = "sweep"
    BY <1>26 DEF SweepNext, At
  <2> QED
    BY <1>a, <1>b, <1>c, <2>1, <2>2, <2>3 DEF Stayed, Took, Turned, Holding
<1> QED
  BY <1>s, <1>1, <1>2, <1>3, <1>4, <1>5, <1>6, <1>7, <1>8, <1>9, <1>10, <1>11, <1>12, <1>13,
     <1>14, <1>15, <1>16, <1>17, <1>18, <1>19, <1>20, <1>21, <1>22, <1>23, <1>24, <1>25,
     <1>26 DEF Step, Starts

\* What a step does to the row of a file: it goes; or a send claims a pending one; or
\* the thread that holds the file records it, and has it in hand no more.
LEMMA RowsGo ==
    ASSUME Typed, NEW t \in Threads, Step(t), NEW k \in Keys
    PROVE  \/ row'[k] = row[k]
           \/ row'[k] = NoRow
           \/ /\ row[k] = Pending /\ row'[k] = req[t].msg /\ req[t].msg \in msgs
              /\ pc[t] = "claim" /\ req[t].call # "delivery" /\ Claim(t)
           \/ /\ Holding(t) /\ ~Holding(t)' /\ k = req[t].key
              /\ \/ row'[k] = Pending /\ pc[t] = "saved" /\ req[t].call = "attach" /\ Record(t)
                 \/ /\ row'[k] = req[t].msg /\ req[t].msg \in msgs
                    /\ pc[t] = "claim" /\ req[t].call = "delivery" /\ Bind(t)
<1>0. row \in [Keys -> 0..(MaxMessages + 1)]
  BY InHandIs DEF SharedOK
<1>1. CASE Record(t)
  <2>1. pc[t] = "saved" /\ req[t].call = "attach"
    BY <1>1 DEF Record, At
  <2>2. \/ row' = [row EXCEPT ![req[t].key] = Pending] /\ Stayed(t, "reread")
        \/ row' = row
    BY <1>1, Goes
  <2>3. CASE row' = row
    BY <2>3
  <2>4. CASE row' = [row EXCEPT ![req[t].key] = Pending] /\ Stayed(t, "reread")
    <3>1. Holding(t) /\ ~Holding(t)'
      BY <2>1, <2>4 DEF Holding, Stayed, Turned
    <3>2. row'[k] = IF k = req[t].key THEN Pending ELSE row[k]
      BY <1>0, <2>4
    <3> QED
      BY <1>1, <2>1, <3>1, <3>2
  <2> QED
    BY <2>2, <2>3, <2>4
<1>2. CASE Claim(t)
  <2>1. /\ pc[t] = "claim" /\ req[t].call # "delivery"
        /\ \/ /\ req[t].held = {} \/ (req[t].msg \in msgs /\ \A j \in req[t].held : Claimable(j,
                     req[t].who))
              /\ row' = [j \in Keys |-> IF j \in req[t].held THEN req[t].msg ELSE row[j]]
           \/ row' = row
    BY <1>2, Goes
  <2> QED
    BY <1>2, <2>1 DEF Claimable
<1>3. CASE Bind(t)
  <2>1. /\ pc[t] = "claim" /\ req[t].call = "delivery"
        /\ \/ req[t].msg \in msgs /\ row' = [row EXCEPT ![req[t].key] = req[t].msg] /\
                  Stayed(t, "readback")
           \/ row' = row /\ Stayed(t, "rollback")
    BY <1>3, Goes
  <2>2. Holding(t) /\ ~Holding(t)'
    BY <2>1 DEF Holding, Stayed, Turned
  <2>3. row' = row \/ row'[k] = IF k = req[t].key THEN req[t].msg ELSE row[k]
    BY <1>0, <2>1
  <2> QED
    BY <1>3, <2>1, <2>2, <2>3
<1>4. CASE SweepNext(t)
  <2>1. row' = row \/ \E j \in {Min(req[t].stale)} : row' = [row EXCEPT ![j] = 0]
    BY <1>4 DEF SweepNext
  <2> QED
    BY <1>0, <2>1
<1>5. CASE Rollback(t) \/ Delete(t) \/ PurgePosts(t) \/ PurgeMessages(t)
  <2>1. row' = row \/ \E gone, ended : DeleteRows(gone, ended)
    BY <1>5 DEF Rollback, Delete, PurgePosts, PurgeMessages
  <2>2. row' = row \/ \E gone : row' = [j \in Keys |-> IF row[j] \in gone THEN 0 ELSE row[j]]
    BY <2>1 DEF DeleteRows, Surviving
  <2> QED
    BY <2>2
<1>6. CASE row' = row
  BY <1>6
<1>7. CASE CreateRow(t)
  BY <1>6, <1>7, Frame
<1> QED
  BY <1>1, <1>2, <1>3, <1>4, <1>5, <1>6, <1>7, MessagesActs

-----------------------------------------------------------------------------
(* A file is posted once                                                    *)

\* What is or is about to be announced with a message.
Shown(k, m) ==
    \/ k \in announced[m]
    \/ \E t \in Threads : pc[t] = "announce" /\ req[t].msg = m /\ k \in req[t].held

KeysApart ==
    /\ \A t \in Threads : Holding(t) => req[t].key <= minted
    /\ \A t1, t2 \in Threads :
          Holding(t1) /\ Holding(t2) /\ req[t1].key = req[t2].key => t1 = t2
    /\ \A k \in Keys : row[k] # NoRow => Old(k)

ShownOnce ==
    /\ \A k \in Keys, m \in Messages : Shown(k, m) => Old(k) /\ row[k] \in {m, NoRow}
    /\ \A k \in Keys, m1, m2 \in Messages : Shown(k, m1) /\ Shown(k, m2) => m1 = m2

\* Nobody but the thread that moves changes its step or its request.
LEMMA OthersStay ==
    ASSUME Typed, NEW t \in Threads, Step(t)
    PROVE  \A u \in Threads \ {t} : pc'[u] = pc[u] /\ req'[u] = req[u] /\ (Holding(u)' <=>
               Holding(u))
<1>1. Moves(t) /\ ThreadsOK
  BY StepMoves, InHandIs
<1>2. \A u \in Threads \ {t} : pc'[u] = pc[u] /\ req'[u] = req[u]
  BY <1>1, MovedIs DEF Moves
<1> QED
  BY <1>2 DEF Holding

\* An old file stays old, and a held one becomes old when it is let go of.
LEMMA OldStays ==
    ASSUME Typed, KeysApart, NEW t \in Threads, Step(t)
    PROVE  /\ \A k \in Keys : Old(k) => Old(k)'
           /\ \A k \in Keys : Holding(t) /\ ~Holding(t)' /\ k = req[t].key => Old(k)'
           /\ minted <= minted'
<1>0. minted \in Int /\ minted' \in Int /\ minted <= minted'
  <2>1. minted \in Int
    BY InHandIs DEF SharedOK
  <2> QED
    BY <2>1, HoldingGoes
<1>1. \A u \in Threads \ {t} : req'[u] = req[u] /\ (Holding(u)' <=> Holding(u))
  BY OthersStay
<1>2. \/ minted' = minted /\ (Holding(t)' => Holding(t) /\ req'[t].key = req[t].key)
      \/ minted' = minted + 1 /\ req'[t].key = minted'
  BY HoldingGoes
<1>3. \A k \in Keys : Old(k) => Old(k)'
  BY <1>0, <1>1, <1>2 DEF Old
<1>4. ASSUME NEW k \in Keys, Holding(t), ~Holding(t)', k = req[t].key
      PROVE  Old(k)'
  <2>1. k <= minted
    BY <1>4 DEF KeysApart
  <2>2. \A u \in Threads \ {t} : Holding(u) => req[u].key # k
    BY <1>4 DEF KeysApart
  <2>3. k <= minted'
    BY <1>0, <2>1
  <2>4. \A u \in Threads : Holding(u)' => req'[u].key # k
    BY <1>1, <1>4, <2>2
  <2> QED
    BY <2>3, <2>4 DEF Old
<1> QED
  BY <1>0, <1>3, <1>4

\* No two threads have the same file in hand, and none of them an old one.
LEMMA KeysApartStep ==
    ASSUME Typed, KeysApart, NEW t \in Threads, Step(t)
    PROVE  KeysApart'
<1>0. minted \in Int /\ \A u \in Threads : Holding(u) => req[u].key <= minted /\ req[u].key \in Keys
  <2>1. minted \in Int
    BY InHandIs DEF SharedOK
  <2>2. \A u \in Threads : Holding(u) => req[u].key \in Keys
    BY InHandIs DEF Holding, FitAt, Uploading
  <2> QED
    BY <2>1, <2>2 DEF KeysApart
<1>1. \A u \in Threads \ {t} : req'[u] = req[u] /\ (Holding(u)' <=> Holding(u))
  BY OthersStay
<1>2. \/ minted' = minted /\ (Holding(t)' => Holding(t) /\ req'[t].key = req[t].key)
      \/ minted' = minted + 1 /\ req'[t].key = minted'
  BY HoldingGoes
<1>3. \A u \in Threads : Holding(u)' => req'[u].key <= minted'
  <2> SUFFICES ASSUME NEW u \in Threads, Holding(u)'
               PROVE  req'[u].key <= minted'
    OBVIOUS
  <2>1. CASE u = t
    BY <1>0, <1>2, <2>1
  <2>2. CASE u # t
    BY <1>0, <1>1, <1>2, <2>2
  <2> QED
    BY <2>1, <2>2
<1>4. ASSUME NEW u \in Threads, NEW v \in Threads, Holding(u)', Holding(v)',
                 req'[u].key = req'[v].key
      PROVE  u = v
  <2>1. CASE u # t /\ v # t
    BY <1>1, <1>4, <2>1 DEF KeysApart
  <2>2. ASSUME NEW w \in Threads, w # t, Holding(w)', Holding(t)', req'[w].key = req'[t].key
        PROVE  FALSE
    <3>1. Holding(w) /\ req'[w].key = req[w].key /\ req[w].key <= minted /\ req[w].key \in Int
      BY <1>0, <1>1, <2>2
    <3>2. minted' = minted /\ Holding(t) /\ req'[t].key = req[t].key
      BY <1>0, <1>2, <2>2, <3>1
    <3> QED
      BY <2>2, <3>1, <3>2 DEF KeysApart
  <2> QED
    BY <1>4, <2>1, <2>2
<1>5. \A k \in Keys : row'[k] # NoRow => Old(k)'
  <2> SUFFICES ASSUME NEW k \in Keys, row'[k] # NoRow
               PROVE  Old(k)'
    OBVIOUS
  <2>1. row[k] # NoRow \/ (Holding(t) /\ ~Holding(t)' /\ k = req[t].key)
    BY RowsGo
  <2>2. CASE row[k] # NoRow
    BY <2>2, OldStays DEF KeysApart
  <2>3. CASE Holding(t) /\ ~Holding(t)' /\ k = req[t].key
    BY <2>3, OldStays
  <2> QED
    BY <2>1, <2>2, <2>3
<1> QED
  BY <1>3, <1>4, <1>5 DEF KeysApart

\* A step shows nothing new but what it read back for a message.
LEMMA ShownGoes ==
    ASSUME Typed, NEW t \in Threads, Step(t), NEW k \in Keys, NEW m \in Messages, Shown(k, m)'
    PROVE  Shown(k, m) \/ (row[k] = m /\ row' = row)
<1>0. announced \in [Messages -> SUBSET Keys] /\ req[t].msg \in 0..MaxMessages /\ FitAt(pc[t],
          req[t])
  BY InHandIs DEF SharedOK
<1>1. \A u \in Threads \ {t} : pc'[u] = pc[u] /\ req'[u] = req[u]
  BY OthersStay
<1>2. CASE Announce(t)
  <2>1. announced' = [announced EXCEPT ![req[t].msg] = req[t].held] /\ pc[t] = "announce"
    BY <1>2 DEF Announce, At
  <2>2. pc'[t] = "idle"
    BY <1>2, Goes DEF Rested
  <2>3. announced'[m] = IF m = req[t].msg THEN req[t].held ELSE announced[m]
    BY <1>0, <2>1
  <2> QED
    BY <1>1, <2>1, <2>2, <2>3 DEF Shown
<1>3. CASE ~Announce(t) /\ pc'[t] # "announce"
  <2>1. announced' = announced
    BY <1>3, OthersActs, Frame DEF Step
  <2> QED
    BY <1>1, <1>3, <2>1 DEF Shown
<1>4. CASE ~Announce(t) /\ pc'[t] = "announce"
  <2>1. announced' = announced
    BY <1>4, OthersActs, Frame DEF Step
  <2>2. Claim(t) \/ ReadBack(t)
    <3>1. ~Starts(t)
      BY <1>4, StartsMove
    <3>2. ~Rested(t) /\ ~DropsNext(t) /\ (\A ks : ~Dropping(t, ks)) /\ \A p : Stayed(t, p) =>
              p = "announce"
      BY <1>4 DEF Rested, DropsNext, Dropping, Took, Stayed, Turned
    <3>3. \A p, j, n, ks, ss : (Took(t, p, ks) => p = "announce") /\
              (Turned(t, p, j, n, ks, ss) => p = "announce")
      BY <1>4 DEF Took, Turned
    <3>4. ~WriteFile(t) /\ ~GiveBack(t) /\ ~Settle(t) /\ ~Recheck(t)
      BY <3>2, <3>3, Goes
    <3>5. ~Unlink(t) /\ ~Refund(t) /\ ~Record(t) /\ ~RereadFile(t) /\ ~Replace(t) /\ ~Point(t)
      BY <3>2, <3>3, Goes
    <3>6. ~ReadHeld(t) /\ ~ClearMedia(t) /\ ~SetServerIcon(t) /\ ~SaveIcon(t)
      BY <3>2, <3>3, Goes
    <3>7. ~CreateRow(t) /\ ~RereadRow(t) /\ ~Bind(t) /\ ~Rollback(t) /\ ~Delete(t)
      BY <3>2, <3>3, Goes
    <3>8. ~PurgePosts(t) /\ ~PurgeMessages(t) /\ ~ForgetUser(t) /\ ~SweepNext(t)
      BY <3>2, <3>3, Goes
    <3> QED
      BY <1>4, <3>1, <3>4, <3>5, <3>6, <3>7, <3>8 DEF Step, Starts
  <2>3. CASE Claim(t)
    <3>1. req'[t].held = {}
      <4>1. \/ Stayed(t, "announce") /\ req[t].held = {}
            \/ Stayed(t, "readback") \/ Stayed(t, "rollback")
        BY <2>3, Goes
      <4> QED
        BY <1>4, <4>1 DEF Stayed, Turned
    <3> QED
      BY <1>1, <2>1, <3>1 DEF Shown
  <2>4. CASE ReadBack(t)
    <3>1. Took(t, "announce", Carried(req[t].msg)) /\ pc[t] = "readback"
      <4>1. Took(t, "announce", Carried(req[t].msg)) \/ Stayed(t, "rollback")
        BY <2>4, Goes
      <4> QED
        BY <1>4, <2>4, <4>1 DEF Stayed, Turned, ReadBack, At
    <3>2. row' = row
      BY <2>4, Frame
    <3>3. req'[t].msg = req[t].msg /\ req'[t].held = {j \in Keys : row[j] = req[t].msg}
      BY <3>1 DEF Took, Turned, Carried
    <3> QED
      BY <1>1, <2>1, <3>1, <3>2, <3>3 DEF Shown
  <2> QED
    BY <2>2, <2>3, <2>4
<1> QED
  BY <1>2, <1>3, <1>4

\* What is announced, or about to be, is of one message.
LEMMA ShownOnceStep ==
    ASSUME Typed, KeysApart, ShownOnce, NEW t \in Threads, Step(t)
    PROVE  ShownOnce'
<1>0. \A m \in Messages : m # NoRow /\ m # Pending
  OBVIOUS
<1>1. ASSUME NEW k \in Keys, NEW m \in Messages, Shown(k, m)'
      PROVE  Old(k)' /\ row'[k] \in {m, NoRow}
  <2>1. CASE Shown(k, m)
    <3>1. Old(k) /\ row[k] \in {m, NoRow}
      BY <2>1 DEF ShownOnce
    <3>2. Old(k)' /\ ~(Holding(t) /\ k = req[t].key)
      BY <3>1, OldStays DEF Old
    <3> QED
      BY <1>0, <3>1, <3>2, RowsGo
  <2>2. CASE row[k] = m /\ row' = row
    BY <1>0, <2>2, OldStays DEF KeysApart
  <2> QED
    BY <1>1, <2>1, <2>2, ShownGoes
<1>2. ASSUME NEW k \in Keys, NEW m1 \in Messages, NEW m2 \in Messages, Shown(k, m1)', Shown(k, m2)'
      PROVE  m1 = m2
  <2>1. (Shown(k, m1) \/ (row[k] = m1 /\ row' = row)) /\ (Shown(k, m2) \/ (row[k] = m2 /\
            row' = row))
    BY <1>2, ShownGoes
  <2> QED
    BY <1>0, <2>1 DEF ShownOnce
<1> QED
  BY <1>1, <1>2 DEF ShownOnce

\* After a restart nobody has a file in hand, and every stored one is old.
LEMMA RestartRests ==
    ASSUME Typed, Restart
    PROVE  /\ \A t \in Threads : pc'[t] = "idle" /\ req'[t] = NoRequest /\ ~Holding(t)'
           /\ \A k \in Keys : Old(k) => Old(k)'
           /\ UNCHANGED <<minted, row, announced, msgs, posts, written, thread, pic>>
<1>1. UNCHANGED <<minted, row, announced, msgs, posts, written, thread, pic>>
  BY DEF Restart
<1>2. \A t \in Threads : pc'[t] = "idle" /\ req'[t] = NoRequest
  BY DEF Restart
<1>3. \A t \in Threads : ~Holding(t)'
  BY <1>2 DEF Holding, NoRequest
<1> QED
  BY <1>1, <1>2, <1>3 DEF Old

\* At the start nothing was announced.
LEMMA PostedInit ==
    ASSUME Init
    PROVE  KeysApart /\ ShownOnce
<1>1. \A t \in Threads : pc[t] = "idle" /\ ~Holding(t)
  BY DEF Init, Holding, NoRequest
<1>2. \A k \in Keys, m \in Messages : ~Shown(k, m)
  BY <1>1 DEF Init, Shown
<1>3. \A k \in Keys : row[k] = NoRow
  BY DEF Init
<1> QED
  BY <1>1, <1>2, <1>3 DEF KeysApart, ShownOnce

\* A restart announces nothing.
LEMMA PostedRestart ==
    ASSUME Typed, KeysApart, ShownOnce, Restart
    PROVE  KeysApart' /\ ShownOnce'
<1>1. \A k \in Keys, m \in Messages : Shown(k, m)' => Shown(k, m)
  BY RestartRests DEF Shown
<1>2. KeysApart'
  BY RestartRests DEF KeysApart
<1>3. ShownOnce'
  BY <1>1, RestartRests DEF ShownOnce
<1> QED
  BY <1>2, <1>3

\* Nothing happens, nothing changes.
LEMMA PostedStutter ==
    ASSUME KeysApart, ShownOnce, UNCHANGED vars
    PROVE  KeysApart' /\ ShownOnce'
<1>1. UNCHANGED <<pc, req, minted, row, announced>>
  BY DEF vars
<1> QED
  BY <1>1 DEF KeysApart, ShownOnce, Old, Holding, Shown

\* Every step of the program keeps both.
LEMMA PostedNext ==
    ASSUME Typed, KeysApart, ShownOnce, [Next]_vars
    PROVE  KeysApart' /\ ShownOnce'
BY KeysApartStep, ShownOnceStep, PostedRestart, PostedStutter DEF Next

\* The property is part of the invariant.
LEMMA ShownOnceImplies ==
    ASSUME Typed, ShownOnce
    PROVE  PostedOnce
<1>1. announced \in [Messages -> SUBSET Keys]
  BY DEF Typed, TypeOK
<1>2. ASSUME NEW m1 \in Messages, NEW m2 \in Messages, NEW k \in announced[m1] \cap announced[m2]
      PROVE  m1 = m2
  BY <1>1 DEF ShownOnce, Shown
<1> QED
  BY <1>2 DEF PostedOnce

\* A file is on one message only, however many sends name the same upload at
\* once and whatever fails: what can fail is not restricted here.
THEOREM FilesArePostedOnce == Spec => []PostedOnce
<1> DEFINE Inv == Typed /\ KeysApart /\ ShownOnce
<1>1. Init => Inv
  BY TypedInit, PostedInit
<1>2. Inv /\ [Next]_vars => Inv'
  BY TypedNext, PostedNext
<1>3. Inv => PostedOnce
  BY ShownOnceImplies
<1> QED
  BY <1>1, <1>2, <1>3, PTL DEF Spec
-----------------------------------------------------------------------------
(* What names a file can be downloaded                                      *)

\* A file only a row can name; one that nothing names; one an icon may name.
Plain(k) == Old(k) /\ icon # k /\ \A u \in Users : pic[u] # k
Dead(k) == Plain(k) /\ row[k] = NoRow
IconFile(k) == Old(k) /\ row[k] = NoRow /\ \A u \in Users : pic[u] # k

RowsOfMessages ==
    /\ \A m \in msgs : m <= written
    /\ \A k \in Keys : row[k] \in msgs \cup {NoRow, Pending}

PicturesApart ==
    /\ \A u \in Users : pic[u] # NoKey => Old(pic[u]) /\ row[pic[u]] = NoRow
    /\ \A u, v \in Users : pic[u] # NoKey /\ pic[u] = pic[v] => u = v

IconsApart ==
    /\ icon # NoKey => IconFile(icon)
    /\ savedIcon # NoKey => IconFile(savedIcon)
    /\ \A t \in Threads : pc[t] = "saveicon" /\ req[t].key # NoKey => IconFile(req[t].key)

\* What a request means to remove, or may come to remove, nothing names; or what
\* does name it goes before it.
InHand(t) ==
    /\ pc[t] \in {"unlink", "refund", "point", "saveicon"} => \A k \in req[t].held : Dead(k)
    /\ pc[t] = "rollback" /\ req[t].call = "delivery" => Dead(req[t].key)
    /\ pc[t] = "reread" /\ req[t].call = "attach" => Plain(req[t].key)
    /\ pc[t] = "readback" /\ req[t].call = "delivery" => Plain(req[t].key)
    /\ pc[t] = "clear" =>
          \A k \in req[t].held : /\ Old(k) /\ row[k] = NoRow /\ icon # k
                                 /\ \A v \in Users \ {req[t].who} : pic[v] # k
    /\ pc[t] = "delete" => \A k \in req[t].held : Plain(k)
    /\ pc[t] = "delete" /\ req[t].call = "delete" =>
          \A k \in req[t].held : row[k] \in {NoRow, req[t].msg}
    /\ pc[t] = "delete" /\ req[t].call = "deletepost" =>
          \A k \in req[t].held : row[k] = NoRow \/ row[k] \in Threaded(req[t].msg)

BytesThere ==
    /\ NamedAreThere
    /\ \A t \in Threads : Holding(t) => req[t].key \in disk

Kind == RowsOfMessages /\ PicturesApart /\ IconsApart

\* A file in hand is named by nothing; one with a row, by nothing else.
LEMMA KindIs ==
    ASSUME Typed, KeysApart, Kind
    PROVE  /\ \A t \in Threads : Holding(t) => /\ row[req[t].key] = NoRow /\ icon # req[t].key
                                               /\ req[t].key \in Keys /\ savedIcon # req[t].key
                                               /\ \A u \in Users : pic[u] # req[t].key
           /\ \A k \in Keys : row[k] # NoRow => Plain(k)
<1>1. /\ pic \in [Users -> Keys \cup {NoKey}] /\ icon \in Keys \cup {NoKey} /\
             savedIcon \in Keys \cup {NoKey}
  BY DEF Typed, TypeOK
<1>2. ASSUME NEW t \in Threads, Holding(t)
      PROVE  /\ row[req[t].key] = NoRow /\ icon # req[t].key
             /\ req[t].key \in Keys /\ savedIcon # req[t].key
             /\ \A u \in Users : pic[u] # req[t].key
  <2>1. req[t].key \in Keys
    BY <1>2, InHandIs DEF Holding, FitAt, Uploading
  <2>2. ~Old(req[t].key)
    BY <1>2 DEF Old
  <2>3. req[t].key # NoKey
    BY <2>1
  <2> QED
    BY <1>1, <2>1, <2>2, <2>3 DEF KeysApart, Kind, PicturesApart, IconsApart, IconFile
<1>3. ASSUME NEW k \in Keys, row[k] # NoRow
      PROVE  Plain(k)
  <2>1. Old(k) /\ k # NoKey
    BY <1>3 DEF KeysApart
  <2> QED
    BY <1>3, <2>1 DEF Kind, PicturesApart, IconsApart, IconFile, Plain
<1> QED
  BY <1>2, <1>3

\* A step points an icon or a picture at nothing but the file it has in hand.
LEMMA NamesGo ==
    ASSUME Typed, NEW t \in Threads, Step(t)
    PROVE  /\ icon' = icon \/ icon' = NoKey
              \/ (SetServerIcon(t) /\ Holding(t) /\ ~Holding(t)' /\ icon' = req[t].key)
           /\ savedIcon' = savedIcon \/ (pc[t] = "saveicon" /\ savedIcon' = req[t].key)
           /\ \A u \in Users : \/ pic'[u] = pic[u] \/ pic'[u] = NoKey
                               \/ /\ Replace(t) /\ Holding(t) /\ ~Holding(t)'
                                  /\ u = req[t].who /\ pic'[u] = req[t].key
<1>0. pic \in [Users -> Keys \cup {NoKey}]
  BY DEF Typed, TypeOK
<1>1. icon' = icon \/ icon' = NoKey \/ (SetServerIcon(t) /\ Holding(t) /\ ~Holding(t)' /\
          icon' = req[t].key)
  <2>1. icon' = icon \/ SetServerIcon(t) \/ ClearIcon(t)
    BY Frame, OthersActs
  <2>2. CASE SetServerIcon(t)
    <3>1. icon' = req[t].key /\ Took(t, "saveicon", Real({icon}))
      BY <2>2, Goes
    <3>2. Holding(t)
      BY <2>2 DEF SetServerIcon, At, Holding
    <3> QED
      BY <2>2, <3>1, <3>2 DEF Holding, Took, Turned
  <2>3. CASE ClearIcon(t)
    BY <2>3 DEF ClearIcon
  <2> QED
    BY <2>1, <2>2, <2>3
<1>2. savedIcon' = savedIcon \/ (pc[t] = "saveicon" /\ savedIcon' = req[t].key)
  <2>1. savedIcon' = savedIcon \/ SaveIcon(t)
    BY Frame, OthersActs
  <2> QED
    BY <2>1 DEF SaveIcon, At
<1>3. ASSUME NEW u \in Users
      PROVE  \/ pic'[u] = pic[u] \/ pic'[u] = NoKey
             \/ /\ Replace(t) /\ Holding(t) /\ ~Holding(t)'
                /\ u = req[t].who /\ pic'[u] = req[t].key
  <2>1. pic' = pic \/ Replace(t) \/ ClearMedia(t) \/ ForgetUser(t)
    BY Frame, PeopleActs
  <2>2. CASE Replace(t)
    <3>1. \/ pic' = [pic EXCEPT ![req[t].who] = req[t].key] /\ Took(t, "point",
                 Displaced(req[t].who))
          \/ pic' = pic
      BY <2>2, Goes
    <3>2. Holding(t)
      BY <2>2 DEF Replace, At, Holding
    <3>3. CASE Took(t, "point", Displaced(req[t].who)) /\
                   pic' = [pic EXCEPT ![req[t].who] = req[t].key]
      <4>1. ~Holding(t)'
        BY <3>3 DEF Took, Turned, Holding
      <4> QED
        BY <1>0, <2>2, <3>2, <3>3, <4>1
    <3> QED
      BY <3>1, <3>3
  <2>3. CASE ClearMedia(t) \/ ForgetUser(t)
    <3>1. pic' = pic \/ pic' = [pic EXCEPT ![req[t].who] = NoKey]
      BY <2>3 DEF ClearMedia, ForgetUser
    <3> QED
      BY <1>0, <3>1
  <2> QED
    BY <2>1, <2>2, <2>3
<1> QED
  BY <1>1, <1>2, <1>3

\* An old file that something does not name it never names again.
LEMMA OldGoes ==
    ASSUME Typed, KeysApart, NEW t \in Threads, Step(t), NEW k \in Keys, Old(k)
    PROVE  /\ Old(k)'
           /\ row[k] = NoRow => row'[k] = NoRow
           /\ row[k] \in Messages => row'[k] \in {row[k], NoRow}
           /\ icon # k => icon' # k
           /\ \A u \in Users : pic[u] # k => pic'[u] # k
           /\ Plain(k) => Plain(k)'
           /\ Dead(k) => Dead(k)'
           /\ IconFile(k) => IconFile(k)'
<1>1. Old(k)'
  BY OldStays
<1>2. k # NoKey /\ ~(Holding(t) /\ k = req[t].key)
  BY DEF Old
<1>3. (row[k] = NoRow => row'[k] = NoRow) /\ (row[k] \in Messages => row'[k] \in {row[k], NoRow})
  <2>1. NoRow # Pending /\ \A m \in Messages : m # Pending
    OBVIOUS
  <2> QED
    BY <1>2, <2>1, RowsGo
<1>4. (icon # k => icon' # k) /\ \A u \in Users : pic[u] # k => pic'[u] # k
  BY <1>2, NamesGo
<1> QED
  BY <1>1, <1>3, <1>4 DEF Plain, Dead, IconFile

\* A file that is let go of, and that nothing came to name, is dead.
LEMMA LetGo ==
    ASSUME Typed, KeysApart, Kind, NEW t \in Threads, Step(t), NEW k, Holding(t), k = req[t].key,
               ~Holding(t)'
    PROVE  /\ k \in Keys /\ Old(k)'
           /\ icon' # k /\ (\A u \in Users : pic'[u] # k) => Plain(k)'
           /\ UNCHANGED <<icon, pic>> => Plain(k)'
           /\ UNCHANGED <<row, icon, pic>> => Dead(k)'
           /\ UNCHANGED <<row, pic>> => IconFile(k)'
<1>1. /\ row[k] = NoRow /\ icon # k /\ k \in Keys
      /\ \A u \in Users : pic[u] # k
  BY KindIs
<1>2. Old(k)'
  BY <1>1, OldStays
<1> QED
  BY <1>1, <1>2 DEF Plain, Dead, IconFile

\* A row names a message that was written.
LEMMA RowsOfMessagesStep ==
    ASSUME Typed, RowsOfMessages, NEW t \in Threads, Step(t)
    PROVE  RowsOfMessages'
<1>0. written \in Int /\ \A m \in msgs : m \in Int
  BY DEF Typed, TypeOK
<1>1. CASE UNCHANGED <<msgs, written, row>>
  BY <1>1 DEF RowsOfMessages
<1>2. CASE CreateRow(t)
  <2>1. \/ written' = written + 1 /\ msgs' = msgs \cup {written + 1}
        \/ UNCHANGED <<msgs, written>>
    BY <1>2, Goes
  <2>2. row' = row
    BY <1>2, Frame
  <2>3. CASE written' = written + 1 /\ msgs' = msgs \cup {written + 1}
    <3>1. \A m \in msgs' : m <= written'
      BY <1>0, <2>3 DEF RowsOfMessages
    <3>2. \A k \in Keys : row'[k] \in msgs' \cup {NoRow, Pending}
      BY <2>2, <2>3 DEF RowsOfMessages
    <3> QED
      BY <3>1, <3>2 DEF RowsOfMessages
  <2> QED
    BY <1>1, <2>1, <2>2, <2>3
<1>3. CASE Record(t) \/ Claim(t) \/ Bind(t) \/ SweepNext(t)
  <2>1. UNCHANGED <<msgs, written>>
    BY <1>3, Frame
  <2>2. \A k \in Keys : row'[k] \in {row[k], NoRow, Pending} \/ (row'[k] = req[t].msg /\
            req[t].msg \in msgs)
    BY RowsGo
  <2> QED
    BY <2>1, <2>2 DEF RowsOfMessages
<1>4. CASE Rollback(t) \/ Delete(t) \/ PurgePosts(t) \/ PurgeMessages(t)
  <2>1. written' = written
    BY <1>4, Frame
  <2>2. UNCHANGED <<msgs, row>> \/ \E gone, ended : DeleteRows(gone, ended)
    BY <1>4 DEF Rollback, Delete, PurgePosts, PurgeMessages
  <2>3. ASSUME NEW gone, NEW ended, DeleteRows(gone, ended)
        PROVE  RowsOfMessages'
    <3>1. msgs' = msgs \ gone /\ row' = [k \in Keys |-> IF row[k] \in gone THEN NoRow ELSE row[k]]
      BY <2>3 DEF DeleteRows, Surviving
    <3> QED
      BY <2>1, <3>1 DEF RowsOfMessages
  <2> QED
    BY <2>1, <2>2, <2>3 DEF RowsOfMessages
<1> QED
  BY <1>1, <1>2, <1>3, <1>4, MessagesActs

\* Two users never have one picture.
LEMMA PicturesApartStep ==
    ASSUME Typed, KeysApart, Kind, NEW t \in Threads, Step(t)
    PROVE  PicturesApart'
<1>0. pic \in [Users -> Keys \cup {NoKey}]
  BY DEF Typed, TypeOK
<1>1. ASSUME NEW u \in Users
      PROVE  \/ pic'[u] = pic[u] \/ pic'[u] = NoKey
             \/ /\ Replace(t) /\ Holding(t) /\ ~Holding(t)'
                /\ u = req[t].who /\ pic'[u] = req[t].key
  BY NamesGo
<1>2. Holding(t) => req[t].key \in Keys /\ row[req[t].key] = NoRow /\ \A u \in Users :
          pic[u] # req[t].key
  BY KindIs
<1>3. ASSUME NEW u \in Users, NEW k, pic'[u] = k, k # NoKey
      PROVE  Old(k)' /\ row'[k] = NoRow
  <2>1. CASE pic[u] = k
    <3>1. k \in Keys /\ Old(k) /\ row[k] = NoRow
      BY <1>0, <1>3, <2>1 DEF Kind, PicturesApart
    <3> QED
      BY <3>1, OldGoes
  <2>2. CASE Replace(t) /\ Holding(t) /\ ~Holding(t)' /\ k = req[t].key
    <3>1. row' = row
      BY <2>2, Frame
    <3> QED
      BY <1>2, <2>2, <3>1, LetGo
  <2> QED
    BY <1>1, <1>3, <2>1, <2>2
<1>4. ASSUME NEW u \in Users, NEW v \in Users, pic'[u] # NoKey, pic'[u] = pic'[v]
      PROVE  u = v
  BY <1>1, <1>2, <1>4 DEF Kind, PicturesApart
<1> QED
  <2>1. \A u \in Users : pic'[u] # NoKey => (\A k : k = pic'[u] => Old(k)') /\ row'[pic'[u]] = NoRow
    BY <1>3
  <2> QED
    BY <1>4, <2>1 DEF PicturesApart, Old

\* What is an icon is neither a picture nor attached.
LEMMA IconsApartStep ==
    ASSUME Typed, KeysApart, Kind, NEW t \in Threads, Step(t)
    PROVE  IconsApart'
<1>0. icon \in Keys \cup {NoKey} /\ savedIcon \in Keys \cup {NoKey} /\ \A u \in Threads :
          req[u].key \in Keys \cup {NoKey}
  BY InHandIs DEF SharedOK
<1>1. ASSUME NEW k \in Keys, IconFile(k)
      PROVE  IconFile(k)'
  BY <1>1, OldGoes DEF IconFile
<1>2. ASSUME NEW k, k = icon', k # NoKey
      PROVE  IconFile(k)'
  <2>1. CASE icon = k
    BY <1>0, <1>1, <1>2, <2>1 DEF Kind, IconsApart
  <2>2. CASE SetServerIcon(t) /\ Holding(t) /\ ~Holding(t)' /\ icon' = req[t].key
    BY <1>2, <2>2, LetGo, Frame
  <2> QED
    BY <1>2, <2>1, <2>2, NamesGo
<1>3. ASSUME NEW k, k = savedIcon', k # NoKey
      PROVE  IconFile(k)'
  BY <1>0, <1>1, <1>3, NamesGo DEF Kind, IconsApart
<1>4. ASSUME NEW u \in Threads, NEW k, pc'[u] = "saveicon", k = req'[u].key, k # NoKey
      PROVE  IconFile(k)'
  <2>1. CASE u # t
    <3>1. pc[u] = "saveicon" /\ k = req[u].key
      BY <1>4, <2>1, OthersStay
    <3> QED
      BY <1>0, <1>1, <1>4, <3>1 DEF Kind, IconsApart
  <2>2. CASE u = t
    <3>1. SetServerIcon(t)
      <4>0. ~Rested(t) /\ ~DropsNext(t) /\ (\A ks : ~Dropping(t, ks)) /\ \A p : Stayed(t, p) =>
                p = "saveicon"
        BY <1>4, <2>2 DEF Rested, DropsNext, Dropping, Took, Stayed, Turned
      <4>1. \A p, j, n, ks, ss : (Took(t, p, ks) => p = "saveicon") /\
                (Turned(t, p, j, n, ks, ss) => p = "saveicon")
        BY <1>4, <2>2 DEF Took, Turned
      <4>2. ~WriteFile(t) /\ ~GiveBack(t) /\ ~Settle(t) /\ ~Recheck(t)
        BY <4>0, <4>1, Goes
      <4>3. ~Unlink(t) /\ ~Refund(t) /\ ~Record(t) /\ ~RereadFile(t) /\ ~Replace(t) /\ ~Point(t)
        BY <4>0, <4>1, Goes
      <4>4. ~ReadHeld(t) /\ ~ClearMedia(t) /\ ~SaveIcon(t)
        BY <4>0, <4>1, Goes
      <4>5. ~CreateRow(t) /\ ~RereadRow(t) /\ ~Claim(t) /\ ~Bind(t) /\ ~ReadBack(t) /\
                ~Rollback(t) /\ ~Delete(t)
        BY <4>0, <4>1, Goes
      <4>6. ~Announce(t) /\ ~PurgePosts(t) /\ ~PurgeMessages(t) /\ ~ForgetUser(t) /\ ~SweepNext(t)
        BY <4>0, <4>1, Goes
      <4>7. ~Starts(t)
        BY <1>4, <2>2, StartsMove
      <4> QED
        BY <4>2, <4>3, <4>4, <4>5, <4>6, <4>7 DEF Step, Starts
    <3>2. Took(t, "saveicon", Real({icon})) /\ Holding(t)
      BY <3>1, Goes DEF SetServerIcon, At, Holding
    <3>3. ~Holding(t)' /\ k = req[t].key
      BY <1>4, <2>2, <3>2 DEF Took, Turned, Holding
    <3> QED
      BY <3>1, <3>2, <3>3, LetGo, Frame
  <2> QED
    BY <2>1, <2>2
<1> QED
  <2>1. icon' # NoKey => IconFile(icon)'
    BY <1>2 DEF IconFile, Old
  <2>2. savedIcon' # NoKey => IconFile(savedIcon)'
    BY <1>3 DEF IconFile, Old
  <2>3. \A u \in Threads : pc'[u] = "saveicon" /\ req'[u].key # NoKey => IconFile(req[u].key)'
    BY <1>4 DEF IconFile, Old
  <2> QED
    BY <2>1, <2>2, <2>3 DEF IconsApart

\* What the others have in hand stays fit to be removed.
LEMMA InHandOthers ==
    ASSUME Typed, KeysApart, Kind, RowsOfMessages', NEW t \in Threads, Step(t),
               NEW u \in Threads \ {t}, InHand(u)
    PROVE  InHand(u)'
<1>0. /\ pc'[u] = pc[u] /\ req'[u] = req[u] /\ req[u].held \subseteq Keys
      /\ FitAt(pc[u], req[u])
  BY OthersStay, InHandIs
<1>1. \A k \in Keys : (Plain(k) => Plain(k)') /\ (Dead(k) => Dead(k)')
  BY OldGoes DEF Plain, Dead
<1>2. ASSUME NEW k \in Keys, Old(k), row[k] = NoRow, icon # k, \A v \in Users \ {req[u].who} :
                 pic[v] # k
      PROVE  Old(k)' /\ row'[k] = NoRow /\ icon' # k /\ \A v \in Users \ {req[u].who} : pic'[v] # k
  BY <1>2, OldGoes
<1>3. ASSUME NEW k \in Keys, Plain(k), row[k] \in {NoRow, req[u].msg}
      PROVE  row'[k] \in {NoRow, req[u].msg}
  <2>1. row[k] \in Messages \cup {NoRow, Pending} /\ Old(k)
    BY <1>3 DEF Kind, RowsOfMessages, Plain, Typed, TypeOK
  <2>2. req[u].msg \in 0..MaxMessages
    BY InHandIs
  <2>3. row[k] \in Messages \cup {NoRow}
    BY <1>3, <2>1, <2>2
  <2> QED
    BY <1>3, <2>1, <2>3, OldGoes
<1>4. ASSUME NEW k \in Keys, Plain(k), NEW p, row[k] = NoRow \/ row[k] \in Threaded(p)
      PROVE  row'[k] = NoRow \/ row'[k] \in {m \in msgs' : thread'[m] = p}
  <2>1. CASE row[k] = NoRow
    BY <1>4, <2>1, OldGoes DEF Plain
  <2>2. CASE row[k] # NoRow
    <3> DEFINE m == row[k]
    <3>1. m \in msgs /\ m \in Messages /\ thread[m] = p /\ m <= written
      BY <1>4, <2>2 DEF Threaded, Kind, RowsOfMessages, Typed, TypeOK
    <3>2. row'[k] \in {m, NoRow}
      BY <1>4, <3>1, OldGoes DEF Plain
    <3>3. row'[k] # NoRow => row'[k] \in msgs'
      <4>1. m # Pending
        BY <3>1
      <4> QED
        BY <3>1, <3>2, <4>1 DEF RowsOfMessages
    <3>4. thread'[m] = thread[m]
      <4>1. thread' = thread \/ CreateRow(t)
        BY Frame, MessagesActs
      <4>2. CASE CreateRow(t)
        <5>1. thread' = thread \/ \E n : thread' = [thread EXCEPT ![written + 1] = n]
          BY <4>2, Goes
        <5>2. thread \in [Messages -> 0..MaxMessages] /\ written \in Int
          BY DEF Typed, TypeOK
        <5>3. m # written + 1
          BY <3>1, <5>2
        <5> QED
          BY <3>1, <5>1, <5>2, <5>3
      <4> QED
        BY <4>1, <4>2
    <3> QED
      BY <3>1, <3>2, <3>3, <3>4
  <2> QED
    BY <2>1, <2>2
<1>6. pc[u] \in {"unlink", "refund", "point", "saveicon"} => \A k \in req[u].held : Dead(k)'
  BY <1>0, <1>1 DEF InHand
<1>7. pc[u] = "rollback" /\ req[u].call = "delivery" => \A k : k = req[u].key => Dead(k)'
  <2>1. pc[u] = "rollback" /\ req[u].call = "delivery" => req[u].key \in Keys
    BY <1>0 DEF FitAt, Uploading
  <2> QED
    BY <1>1, <2>1 DEF InHand
<1>8. /\ pc[u] = "reread" /\ req[u].call = "attach" => \A k : k = req[u].key => Plain(k)'
      /\ pc[u] = "readback" /\ req[u].call = "delivery" => \A k : k = req[u].key => Plain(k)'
  <2>1. /\ pc[u] = "reread" /\ req[u].call = "attach" => req[u].key \in Keys
        /\ pc[u] = "readback" /\ req[u].call = "delivery" => req[u].key \in Keys
    BY <1>0 DEF FitAt, Uploading
  <2> QED
    BY <1>1, <2>1 DEF InHand
<1>9. pc[u] = "clear" =>
          \A k \in req[u].held : /\ Old(k)' /\ row'[k] = NoRow /\ icon' # k
                                 /\ \A v \in Users \ {req[u].who} : pic'[v] # k
  BY <1>0, <1>2 DEF InHand
<1>10. pc[u] = "delete" => \A k \in req[u].held : Plain(k)'
  BY <1>0, <1>1 DEF InHand
<1>11. pc[u] = "delete" /\ req[u].call = "delete" => \A k \in req[u].held : row'[k] \in {NoRow,
           req[u].msg}
  BY <1>0, <1>3 DEF InHand
<1>12. pc[u] = "delete" /\ req[u].call = "deletepost" =>
          \A k \in req[u].held : row'[k] = NoRow \/ row'[k] \in {m \in msgs' :
              thread'[m] = req[u].msg}
  BY <1>0, <1>4 DEF InHand
<1> QED
  <2>2. Threaded(req[u].msg)' = {m \in msgs' : thread'[m] = req[u].msg}
    BY <1>0 DEF Threaded
  <2> QED
    BY <1>0, <1>6, <1>7, <1>8, <1>9, <1>10, <1>11, <1>12, <2>2 DEF InHand, Dead, Plain, Old

\* What t has in hand after its own step is fit to be removed.
LEMMA InHandMoves ==
    ASSUME Typed, KeysApart, Kind, NEW t \in Threads, Step(t), InHand(t), ~Fails("config"),
               ~Fails("reply")
    PROVE  InHand(t)'
<1>0. /\ pc[t] \in Steps /\ FitAt(pc[t], req[t]) /\ req[t].held \subseteq Keys
      /\ row \in [Keys -> 0..(MaxMessages + 1)] /\ pic \in [Users -> Keys \cup {NoKey}]
      /\ icon \in Keys \cup {NoKey} /\ msgs \subseteq Messages
  BY InHandIs DEF SharedOK
<1>a. Rested(t) => InHand(t)'
  BY DEF Rested, InHand
<1>b. ASSUME NEW ks, Dropping(t, ks), \A k \in ks : Dead(k)'
      PROVE  InHand(t)'
  <2>1. CASE Rested(t)
    BY <1>a, <2>1
  <2>2. CASE Took(t, "unlink", ks)
    <3>1. pc'[t] = "unlink" /\ req'[t].held = ks
      BY <2>2 DEF Took, Turned
    <3> QED
      BY <1>b, <3>1 DEF InHand
  <2> QED
    BY <1>b, <2>1, <2>2 DEF Dropping
<1>c. ASSUME NEW p, pc'[t] = p,
             p \notin {"unlink", "refund", "point", "saveicon", "rollback", "reread", "readback",
                 "clear", "delete"}
      PROVE  InHand(t)'
  BY <1>c DEF InHand
<1>d. ASSUME NEW p, pc'[t] = p, p \in {"unlink", "refund", "point", "saveicon"},
                 \A k \in req'[t].held : Dead(k)'
      PROVE  InHand(t)'
  BY <1>d DEF InHand
<1>e. ASSUME DropsNext(t), \A k \in req[t].held : Dead(k)
      PROVE  InHand(t)'
  <2>1. \A k \in req[t].held : Dead(k)'
    BY <1>0, <1>e, OldGoes DEF Dead, Plain
  <2>2. CASE Rested(t)
    BY <1>a, <2>2
  <2>3. ASSUME NEW ks \in SUBSET req[t].held, Took(t, "unlink", ks)
        PROVE  InHand(t)'
    <3>1. pc'[t] = "unlink" /\ req'[t].held = ks
      BY <2>3 DEF Took, Turned
    <3> QED
      BY <1>d, <2>1, <3>1
  <2>4. ASSUME NEW ks, Took(t, "sweep", ks)
        PROVE  InHand(t)'
    BY <1>c, <2>4 DEF Took, Turned
  <2> QED
    BY <1>e, <2>2, <2>3, <2>4 DEF DropsNext
<1>f. \A k \in req[t].held : Dead(k) => Dead(k)'
  BY <1>0, OldGoes DEF Dead, Plain
<1>g. ASSUME Holding(t), UNCHANGED <<row, icon, pic>>, Dropping(t, {req[t].key})
      PROVE  InHand(t)'
  <2>1. ~Holding(t)'
    BY <1>g DEF Dropping, Rested, Took, Turned, Holding, NoRequest
  <2>2. \A k \in {req[t].key} : Dead(k)'
    BY <1>g, <2>1, LetGo
  <2> QED
    BY <1>b, <1>g, <2>2
<1>h. ASSUME NEW p, Stayed(t, p)
      PROVE  pc'[t] = p /\ req'[t].held = req[t].held /\ req'[t].key = req[t].key /\
                 req'[t].call = req[t].call
  BY <1>h DEF Stayed, Turned
<1>1. CASE Upload(t)
  <2>1. pc'[t] = "write"
    <3>1. PICK c \in Uploading, n \in 1..MaxFile, u \in members \cup {NoUser} : Begun(t, "write",
                   c, u, n, 0, {}, {})
      BY <1>1, InHandIs, Begins
    <3> QED
      BY <3>1, InHandIs, BegunMoves DEF Steps
  <2> QED
    BY <1>c, <2>1
<1>2. CASE ClearPicture(t)
  <2>1. PICK u \in members : Begun(t, "unpicture", "clear", u, 0, 0, {}, {})
    BY <1>2, InHandIs, Begins
  <2>2. pc'[t] = "unpicture"
    BY <2>1, InHandIs, BegunMoves DEF Steps
  <2> QED
    BY <1>c, <2>2
<1>3. CASE ClearIcon(t)
  <2>1. Begun(t, "saveicon", "clear", NoUser, 0, 0, Real({icon}), {}) /\ icon' = NoKey
    BY <1>3, InHandIs, Begins
  <2>2. pc'[t] = "saveicon" /\ Is(req'[t], "clear", NoUser, 0, 0, Real({icon}), {})
    BY <2>1, InHandIs, BegunMoves DEF Steps
  <2>3. req'[t].held = Real({icon})
    BY <2>2 DEF Is
  <2>4. ASSUME NEW k \in Real({icon})
        PROVE  Dead(k)'
    <3>1. k \in Keys /\ k = icon /\ k # NoKey /\ IconFile(k)
      BY <1>0, <2>4 DEF Real, Kind, IconsApart
    <3> QED
      BY <2>1, <3>1, OldGoes DEF IconFile, Dead, Plain
  <2> QED
    BY <1>d, <2>2, <2>3, <2>4
<1>4. CASE SendMessage(t)
  <2>1. \E u \in members, ids \in SUBSET Keys, p \in posts \cup {0} : Begun(t, "create", "send",
            u, 0, p, ids, {})
    BY <1>4, InHandIs, Begins
  <2>2. pc'[t] = "create"
    BY <2>1, InHandIs, BegunMoves DEF Steps
  <2> QED
    BY <1>c, <2>2
<1>5. CASE CreatePost(t)
  <2>1. \E u \in members, ids \in SUBSET Keys : Begun(t, "create", "post", u, 0, 0, ids, {})
    BY <1>5, InHandIs, Begins
  <2>2. pc'[t] = "create"
    BY <2>1, InHandIs, BegunMoves DEF Steps
  <2> QED
    BY <1>c, <2>2
<1>6. CASE Sweep(t)
  <2>1. \E ss \in (SUBSET Keys) \ {{}} : Begun(t, "sweep", "sweep", NoUser, 0, 0, {}, ss)
    BY <1>6, InHandIs, Begins
  <2>2. pc'[t] = "sweep"
    BY <2>1, InHandIs, BegunMoves DEF Steps
  <2> QED
    BY <1>c, <2>2
<1>7. CASE Purge(t)
  <2>1. PICK u \in members, m \in msgs \cup {0}, p \in {"forget", "purge"} : Begun(t, p, "purge",
                 u, 0, m, {}, {})
    BY <1>7, InHandIs, Begins
  <2>2. pc'[t] = p
    BY <2>1, InHandIs, BegunMoves DEF Steps
  <2> QED
    BY <1>c, <2>2
<1>8. CASE DeleteMessage(t)
  <2>1. PICK m \in msgs : Begun(t, "delete", "delete", NoUser, 0, m, Carried(m), {})
    BY <1>8, InHandIs, Begins
  <2>2. pc'[t] = "delete" /\ Is(req'[t], "delete", NoUser, 0, m, Carried(m), {})
    BY <2>1, InHandIs, BegunMoves DEF Steps
  <2>3. req'[t].held = Carried(m) /\ req'[t].call = "delete" /\ req'[t].msg = m
    BY <2>2 DEF Is
  <2>4. ASSUME NEW k \in Carried(m)
        PROVE  Plain(k)' /\ row'[k] = m
    <3>1. k \in Keys /\ row[k] = m /\ m # NoRow /\ row' = row
      BY <1>0, <1>8, <2>4, Frame DEF Carried
    <3>2. Plain(k)
      BY <3>1, KindIs
    <3> QED
      BY <3>1, <3>2, OldGoes DEF Plain
  <2> QED
    BY <2>2, <2>3, <2>4 DEF InHand
<1>9. CASE DeletePost(t)
  <2> DEFINE ks(p) == UNION {Carried(m) : m \in Threaded(p)}
  <2>1. PICK p \in posts : Begun(t, "delete", "deletepost", NoUser, 0, p, ks(p), {})
    BY <1>9, InHandIs, Begins
  <2>2. pc'[t] = "delete" /\ Is(req'[t], "deletepost", NoUser, 0, p, ks(p), {})
    BY <2>1, InHandIs, BegunMoves DEF Steps
  <2>3. req'[t].held = ks(p) /\ req'[t].call = "deletepost" /\ req'[t].msg = p
    BY <2>2 DEF Is
  <2>4. UNCHANGED <<row, msgs, thread>>
    BY <1>9, Frame
  <2>5. ASSUME NEW k \in ks(p)
        PROVE  Plain(k)' /\ row'[k] \in {m \in msgs' : thread'[m] = p}
    <3>1. PICK m \in Threaded(p) : k \in Keys /\ row[k] = m
      BY DEF Carried
    <3>2. m \in msgs /\ thread[m] = p /\ m # NoRow
      BY <1>0 DEF Threaded
    <3>3. Plain(k)
      BY <3>1, <3>2, KindIs
    <3> QED
      BY <2>4, <3>1, <3>2, <3>3, OldGoes DEF Plain
  <2> HIDE DEF ks
  <2>6. Threaded(req[t].msg)' = {m \in msgs' : thread'[m] = req'[t].msg}
    BY DEF Threaded
  <2> QED
    BY <2>2, <2>3, <2>5, <2>6 DEF InHand
<1>10. CASE DeleteChannel(t)
  <2>1. Begun(t, "delete", "channel", NoUser, 0, 0, Attached, {})
    BY <1>10, InHandIs, Begins
  <2>2. pc'[t] = "delete" /\ Is(req'[t], "channel", NoUser, 0, 0, Attached, {})
    BY <2>1, InHandIs, BegunMoves DEF Steps
  <2>3. req'[t].held = Attached /\ req'[t].call = "channel"
    BY <2>2 DEF Is
  <2>4. ASSUME NEW k \in Attached
        PROVE  Plain(k)'
    BY KindIs, OldGoes DEF Attached, Plain
  <2> QED
    BY <2>2, <2>3, <2>4 DEF InHand
<1>11. CASE WriteFile(t)
  <2>1. pc'[t] \in {"settle", "giveback"}
    BY <1>11, Goes DEF Stayed, Turned
  <2> QED
    BY <1>c, <2>1
<1>12. CASE GiveBack(t)
  BY <1>a, <1>12, Goes
<1>13. CASE Announce(t)
  BY <1>a, <1>13, Goes
<1>14. CASE ForgetUser(t)
  BY <1>a, <1>14, Goes
<1>15. CASE Settle(t)
  <2>1. Stayed(t, "recheck")
    BY <1>15, Goes
  <2> QED
    BY <1>c, <1>h, <2>1
<1>16. CASE PurgePosts(t)
  <2>1. Stayed(t, "unsay")
    BY <1>16, Goes
  <2> QED
    BY <1>c, <1>h, <2>1
<1>17. CASE PurgeMessages(t)
  <2>1. Stayed(t, "forget")
    BY <1>17, Goes
  <2> QED
    BY <1>c, <1>h, <2>1
<1>18. CASE Recheck(t)
  <2>1. Dropping(t, {req[t].key}) \/ Stayed(t, "saved")
    BY <1>18, Goes
  <2>2. Holding(t) /\ UNCHANGED <<row, icon, pic>>
    BY <1>18, Frame DEF Recheck, At, Holding
  <2> QED
    BY <1>c, <1>g, <1>h, <2>1, <2>2
<1>19. CASE Unlink(t)
  <2>1. Stayed(t, "refund") \/ DropsNext(t)
    BY <1>19, Goes
  <2>2. \A k \in req[t].held : Dead(k)
    BY <1>19 DEF Unlink, At, InHand
  <2>3. CASE Stayed(t, "refund")
    <3>1. pc'[t] = "refund" /\ req'[t].held = req[t].held
      BY <1>h, <2>3
    <3> QED
      BY <1>d, <1>f, <2>2, <3>1
  <2> QED
    BY <1>e, <2>1, <2>2, <2>3
<1>20. CASE Refund(t)
  <2>1. \A k \in req[t].held : Dead(k)
    BY <1>20 DEF Refund, At, InHand
  <2> QED
    BY <1>e, <1>20, <2>1, Goes
<1>21. CASE Record(t)
  <2>1. \/ row' = [row EXCEPT ![req[t].key] = Pending] /\ Stayed(t, "reread")
        \/ row' = row /\ Dropping(t, {req[t].key})
    BY <1>21, Goes
  <2>2. Holding(t) /\ UNCHANGED <<icon, pic>> /\ req[t].call = "attach"
    BY <1>21, Frame DEF Record, At, Holding
  <2>3. CASE Stayed(t, "reread")
    <3>1. pc'[t] = "reread" /\ req'[t].key = req[t].key /\ req'[t].call = "attach"
      BY <1>h, <2>2, <2>3
    <3>2. ~Holding(t)'
      BY <3>1 DEF Holding
    <3>3. \A k : k = req[t].key => Plain(k)'
      BY <2>2, <3>2, LetGo
    <3> QED
      BY <3>1, <3>3 DEF InHand, Plain, Old
  <2> QED
    BY <1>g, <2>1, <2>2, <2>3
<1>22. CASE RereadFile(t)
  <2>1. \/ Rested(t)
        \/ row[req[t].key] = NoRow /\ Dropping(t, {req[t].key})
    BY <1>22, Goes
  <2>2. Plain(req[t].key) /\ req[t].key \in Keys
    BY <1>0, <1>22 DEF RereadFile, At, InHand, FitAt, Uploading
  <2>3. CASE row[req[t].key] = NoRow /\ Dropping(t, {req[t].key})
    <3>1. \A k \in {req[t].key} : Dead(k)'
      BY <2>2, <2>3, OldGoes DEF Dead, Plain
    <3> QED
      BY <1>b, <2>3, <3>1
  <2> QED
    BY <1>a, <2>1, <2>3
<1>23. CASE Replace(t)
  <2>1. \/ pic' = [pic EXCEPT ![req[t].who] = req[t].key] /\ Took(t, "point", Displaced(req[t].who))
        \/ pic' = pic /\ Dropping(t, {req[t].key})
    BY <1>23, Goes
  <2>2. Holding(t) /\ UNCHANGED <<icon, row>> /\ req[t].who \in Users
    BY <1>0, <1>23, Frame DEF Replace, At, Holding, FitAt
  <2>3. CASE pic' = [pic EXCEPT ![req[t].who] = req[t].key] /\ Took(t, "point",
                 Displaced(req[t].who))
    <3>1. pc'[t] = "point" /\ req'[t].held = Displaced(req[t].who)
      BY <2>3 DEF Took, Turned
    <3>2. ASSUME NEW k \in Displaced(req[t].who)
          PROVE  Dead(k)'
      <4>1. k = pic[req[t].who] /\ k # NoKey /\ k \in Keys
        BY <1>0, <2>2 DEF Displaced, Real
      <4>2. Old(k) /\ row[k] = NoRow /\ \A v \in Users \ {req[t].who} : pic[v] # k
        BY <2>2, <4>1 DEF Kind, PicturesApart
      <4>3. icon # k
        BY <2>2, <4>1 DEF Kind, IconsApart, IconFile
      <4>4. req[t].key # k
        BY <2>2, <4>2 DEF Old
      <4>5. \A v \in Users : pic'[v] # k
        BY <1>0, <2>3, <4>2, <4>4
      <4> QED
        BY <4>1, <4>2, <4>3, <4>5, OldGoes DEF Dead, Plain
    <3> QED
      BY <1>d, <3>1, <3>2
  <2> QED
    BY <1>g, <2>1, <2>2, <2>3
<1>24. CASE Point(t)
  <2>1. Dropping(t, req[t].held) \/ Stayed(t, "unpicture")
    BY <1>24, Goes
  <2>2. \A k \in req[t].held : Dead(k)
    BY <1>24 DEF Point, At, InHand
  <2> QED
    BY <1>b, <1>c, <1>f, <1>h, <2>1, <2>2
<1>25. CASE ReadHeld(t)
  <2>1. Rested(t) \/ (pic[req[t].who] # NoKey /\ Took(t, "clear", {pic[req[t].who]}))
    BY <1>25, Goes
  <2>2. CASE pic[req[t].who] # NoKey /\ Took(t, "clear", {pic[req[t].who]})
    <3>1. pc'[t] = "clear" /\ req'[t].held = {pic[req[t].who]} /\ req'[t].who = req[t].who /\
              req[t].who \in Users
      BY <1>0, <1>25, <2>2 DEF Took, Turned, ReadHeld, At, FitAt
    <3>2. UNCHANGED <<row, icon, pic>>
      BY <1>25, Frame
    <3>3. ASSUME NEW k, k = pic[req[t].who]
          PROVE  Old(k)' /\ row'[k] = NoRow /\ icon' # k /\ \A v \in Users \ {req[t].who} :
                     pic'[v] # k
      <4>1. k \in Keys /\ Old(k) /\ row[k] = NoRow /\ \A v \in Users \ {req[t].who} : pic[v] # k
        BY <1>0, <2>2, <3>1, <3>3 DEF Kind, PicturesApart
      <4>2. icon # k
        BY <2>2, <3>1, <3>3 DEF Kind, IconsApart, IconFile
      <4> QED
        BY <3>2, <4>1, <4>2, OldGoes
    <3> QED
      BY <3>1, <3>3 DEF InHand
  <2> QED
    BY <1>a, <2>1, <2>2
<1>26. CASE ClearMedia(t)
  <2>1. \/ pic' = [pic EXCEPT ![req[t].who] = NoKey] /\ Dropping(t, req[t].held)
        \/ Rested(t)
    BY <1>26, Goes
  <2>2. CASE pic' = [pic EXCEPT ![req[t].who] = NoKey] /\ Dropping(t, req[t].held)
    <3>1. ASSUME NEW k \in req[t].held
          PROVE  Dead(k)'
      <4>1. /\ Old(k) /\ row[k] = NoRow /\ icon # k /\ k \in Keys
            /\ \A v \in Users \ {req[t].who} : pic[v] # k
        BY <1>0, <1>26 DEF ClearMedia, At, InHand
      <4>2. \A v \in Users : pic'[v] # k
        BY <1>0, <2>2, <4>1
      <4> QED
        BY <4>1, <4>2, OldGoes DEF Dead, Plain
    <3> QED
      BY <1>b, <2>2, <3>1
  <2> QED
    BY <1>a, <2>1, <2>2
<1>27. CASE SetServerIcon(t)
  <2>1. icon' = req[t].key /\ Took(t, "saveicon", Real({icon}))
    BY <1>27, Goes
  <2>2. pc'[t] = "saveicon" /\ req'[t].held = Real({icon}) /\ Holding(t)
    BY <1>27, <2>1 DEF Took, Turned, SetServerIcon, At, Holding
  <2>3. ASSUME NEW k \in Real({icon})
        PROVE  Dead(k)'
    <3>1. k \in Keys /\ k = icon /\ k # NoKey /\ IconFile(k)
      BY <1>0, <2>3 DEF Real, Kind, IconsApart
    <3>2. icon' # k
      BY <2>1, <2>2, <3>1 DEF IconFile, Old
    <3> QED
      BY <3>1, <3>2, OldGoes DEF IconFile, Dead, Plain
  <2> QED
    BY <1>d, <2>2, <2>3
<1>28. CASE SaveIcon(t)
  <2>1. Dropping(t, req[t].held)
    BY <1>28, Goes
  <2>2. \A k \in req[t].held : Dead(k)
    BY <1>28 DEF SaveIcon, At, InHand
  <2> QED
    BY <1>b, <1>f, <2>1, <2>2
<1>29. CASE CreateRow(t)
  <2>1. \/ Turned(t, "reread", req[t].key, written + 1, req[t].held, req[t].stale)
        \/ req[t].call = "delivery" /\ Dropping(t, {req[t].key})
        \/ Rested(t)
    BY <1>29, Goes
  <2>2. /\ req[t].call = "delivery" => Holding(t)
        /\ req[t].call \in {"delivery"} \cup Saying
        /\ UNCHANGED <<row, icon, pic>>
    BY <1>0, <1>29, Frame DEF CreateRow, At, Holding, FitAt, Saying
  <2>3. CASE Turned(t, "reread", req[t].key, written + 1, req[t].held, req[t].stale)
    <3>1. pc'[t] = "reread" /\ req'[t].call # "attach"
      BY <2>2, <2>3 DEF Turned, Saying
    <3> QED
      BY <3>1 DEF InHand
  <2> QED
    BY <1>a, <1>g, <2>1, <2>2, <2>3
<1>30. CASE RereadRow(t)
  <2>1. \/ Stayed(t, "claim")
        \/ req[t].call = "delivery" /\ Dropping(t, {req[t].key})
        \/ Rested(t)
    BY <1>30, Goes
  <2>2. /\ req[t].call = "delivery" => Holding(t)
        /\ UNCHANGED <<row, icon, pic>>
    BY <1>30, Frame DEF RereadRow, At, Holding
  <2> QED
    BY <1>a, <1>c, <1>g, <1>h, <2>1, <2>2
<1>31. CASE Claim(t)
  <2>1. req[t].call # "delivery" /\ (Stayed(t, "announce") \/ Stayed(t, "readback") \/
            Stayed(t, "rollback"))
    BY <1>31, Goes
  <2>2. pc'[t] \in {"announce", "readback", "rollback"} /\ req'[t].call # "delivery"
    BY <1>h, <2>1
  <2> QED
    BY <2>2 DEF InHand
<1>32. CASE Bind(t)
  <2>1. \/ Stayed(t, "readback")
        \/ row' = row /\ Stayed(t, "rollback")
    BY <1>32, Goes
  <2>2. Holding(t) /\ UNCHANGED <<icon, pic>>
    BY <1>32, Frame DEF Bind, At, Holding
  <2>3. pc'[t] \in {"readback", "rollback"} /\ req'[t].key = req[t].key
    BY <1>h, <2>1
  <2>4. ~Holding(t)'
    BY <2>3 DEF Holding
  <2>5. \A k : k = req[t].key => Plain(k)' /\ (row' = row => Dead(k)')
    BY <2>2, <2>4, LetGo
  <2>6. pc'[t] = "rollback" => row' = row
    BY <1>h, <2>1
  <2>7. \A k : k = req'[t].key => Plain(k)' /\ (row' = row => Dead(k)')
    BY <2>3, <2>5
  <2> QED
    BY <2>3, <2>6, <2>7 DEF InHand, Dead, Plain, Old
<1>33. CASE ReadBack(t)
  <2>1. \/ Took(t, "announce", Carried(req[t].msg))
        \/ req[t].call = "delivery" /\ row[req[t].key] = NoRow /\ Stayed(t, "rollback")
    BY <1>33, Goes
  <2>2. CASE Took(t, "announce", Carried(req[t].msg))
    BY <1>c, <2>2 DEF Took, Turned
  <2>3. CASE req[t].call = "delivery" /\ row[req[t].key] = NoRow /\ Stayed(t, "rollback")
    <3>1. Plain(req[t].key) /\ req[t].key \in Keys
      BY <1>0, <1>33, <2>3 DEF ReadBack, At, InHand, FitAt, Uploading
    <3>2. \A k : k = req[t].key => Dead(k)'
      BY <2>3, <3>1, OldGoes DEF Dead, Plain
    <3>3. pc'[t] = "rollback" /\ req'[t].key = req[t].key
      BY <1>h, <2>3
    <3>4. \A k : k = req'[t].key => Dead(k)'
      BY <3>2, <3>3
    <3> QED
      BY <3>3, <3>4 DEF InHand, Dead, Plain, Old
  <2> QED
    BY <2>1, <2>2, <2>3
<1>34. CASE Rollback(t)
  <2>1. Rested(t) \/ (req[t].call = "delivery" /\ Dropping(t, {req[t].key}))
    BY <1>34, Goes
  <2>2. CASE req[t].call = "delivery" /\ Dropping(t, {req[t].key})
    <3>1. Dead(req[t].key) /\ req[t].key \in Keys
      BY <1>0, <1>34, <2>2 DEF Rollback, At, InHand, FitAt, Uploading
    <3>2. \A k \in {req[t].key} : Dead(k)'
      BY <3>1, OldGoes DEF Dead, Plain
    <3> QED
      BY <1>b, <2>2, <3>2
  <2> QED
    BY <1>a, <2>1, <2>2
<1>35. CASE Delete(t)
  <2>1. \/ Rested(t)
        \/ /\ Dropping(t, req[t].held)
           /\ \/ req[t].call = "delete" /\ req[t].msg \in msgs /\ DeleteRows({req[t].msg}, {})
              \/ req[t].call = "deletepost" /\ DeleteRows(Threaded(req[t].msg), {req[t].msg})
              \/ req[t].call = "channel" /\ DeleteRows(msgs \cup {Pending}, posts)
    BY <1>35, Goes
  <2>2. ASSUME NEW gone, NEW ended, DeleteRows(gone, ended), Dropping(t, req[t].held),
               \A k \in req[t].held : row[k] = NoRow \/ row[k] \in gone
        PROVE  InHand(t)'
    <3>1. row' = [k \in Keys |-> IF row[k] \in gone THEN NoRow ELSE row[k]]
      BY <2>2 DEF DeleteRows, Surviving
    <3>2. ASSUME NEW k \in req[t].held
          PROVE  Dead(k)'
      <4>1. Plain(k) /\ k \in Keys
        BY <1>0, <1>35 DEF Delete, At, InHand
      <4>2. row'[k] = NoRow
        BY <2>2, <3>1, <4>1
      <4> QED
        BY <4>1, <4>2, OldGoes DEF Dead, Plain
    <3> QED
      BY <1>b, <2>2, <3>2
  <2>3. pc[t] = "delete"
    BY <1>35 DEF Delete, At
  <2>4. req[t].call = "delete" => \A k \in req[t].held : row[k] = NoRow \/ row[k] \in {req[t].msg}
    BY <2>3 DEF InHand
  <2>5. req[t].call = "deletepost" => \A k \in req[t].held : row[k] = NoRow \/
            row[k] \in Threaded(req[t].msg)
    BY <2>3 DEF InHand
  <2>6. \A k \in req[t].held : row[k] = NoRow \/ row[k] \in msgs \cup {Pending}
    BY <1>0 DEF Kind, RowsOfMessages
  <2> QED
    BY <1>a, <2>1, <2>2, <2>4, <2>5, <2>6
<1>36. CASE SweepNext(t)
  <2> DEFINE k == Min(req[t].stale)
  <2>1. \/ /\ row' = [row EXCEPT ![k] = NoRow] /\ row[k] # NoRow
           /\ Turned(t, "unlink", req[t].key, req[t].msg, {k}, req[t].stale \ {k})
        \/ Rested(t)
        \/ Turned(t, "sweep", req[t].key, req[t].msg, req[t].held, req[t].stale \ {k})
    BY <1>36, Goes
  <2>2. k \in Keys
    <3>1. req[t].stale # {} /\ req[t].stale \subseteq Keys
      BY <1>0, <1>36, InHandIs DEF SweepNext, At, FitAt
    <3> QED
      BY <3>1, FirstHeld
  <2> HIDE DEF k
  <2>3. CASE /\ row' = [row EXCEPT ![k] = NoRow] /\ row[k] # NoRow
             /\ Turned(t, "unlink", req[t].key, req[t].msg, {k}, req[t].stale \ {k})
    <3>1. pc'[t] = "unlink" /\ req'[t].held = {k}
      BY <2>3 DEF Turned
    <3>2. \A j \in {k} : Dead(j)'
      <4>1. Plain(k) /\ row'[k] = NoRow
        BY <1>0, <2>2, <2>3, KindIs
      <4> QED
        BY <2>2, <4>1, OldGoes DEF Dead, Plain
    <3> QED
      BY <1>d, <3>1, <3>2
  <2>4. CASE Turned(t, "sweep", req[t].key, req[t].msg, req[t].held, req[t].stale \ {k})
    BY <1>c, <2>4 DEF Turned
  <2> QED
    BY <1>a, <2>1, <2>3, <2>4
<1> QED
  BY <1>1, <1>2, <1>3, <1>4, <1>5, <1>6, <1>7, <1>8, <1>9, <1>10, <1>11, <1>12, <1>13, <1>14,
     <1>15, <1>16, <1>17, <1>18, <1>19, <1>20, <1>21, <1>22, <1>23, <1>24, <1>25, <1>26, <1>27,
     <1>28, <1>29, <1>30, <1>31, <1>32, <1>33, <1>34, <1>35, <1>36 DEF Step

\* Nothing that is named, or in hand, is unlinked.
LEMMA BytesThereStep ==
    ASSUME Typed, KeysApart, Kind, BytesThere, NEW t \in Threads, Step(t), InHand(t)
    PROVE  BytesThere'
<1>0. /\ pic \in [Users -> Keys \cup {NoKey}] /\ icon \in Keys \cup {NoKey} /\ minted \in Int
      /\ pic' \in [Users -> Keys \cup {NoKey}]
  <2>2. PeopleOK /\ PeopleOK'
    BY TypesAre, SharedIs, PeopleStep DEF Typed
  <2>3. icon \in Keys \cup {NoKey} /\ minted \in 0..MaxKeys
    BY DEF Typed, TypeOK
  <2> QED
    BY <2>2, <2>3 DEF PeopleOK
<1>1. Holding(t) => req[t].key \in Keys
  BY KindIs
<1>2. /\ \A k \in Keys : row[k] # NoRow => k \in disk
      /\ \A u \in Users : pic[u] # NoKey => pic[u] \in disk
      /\ icon # NoKey => icon \in disk
      /\ \A u \in Threads : Holding(u) => req[u].key \in disk
  BY DEF BytesThere, NamedAreThere, Named, Attached, Pictures, Real
<1>3. ASSUME NEW k, k \in disk,
             \/ k \in Keys /\ row'[k] # NoRow
             \/ \E u \in Users : pic'[u] = k /\ k # NoKey
             \/ icon' = k /\ k # NoKey
             \/ \E u \in Threads : Holding(u)' /\ req'[u].key = k
      PROVE  k \in disk'
  <2>1. CASE disk \subseteq disk'
    BY <1>3, <2>1
  <2>2. CASE Unlink(t) /\ disk' = disk \ {Min(req[t].held)}
    <3>1. Min(req[t].held) \in req[t].held /\ pc[t] = "unlink" /\ req[t].held \subseteq Keys
      BY <2>2, InHandIs, FirstHeld DEF Unlink, At, FitAt
    <3>a. PICK j : j = Min(req[t].held)
      OBVIOUS
    <3>2. j \in Keys /\ Dead(j) /\ j # NoKey
      BY <3>1, <3>a DEF InHand
    <3>3. Dead(j)'
      BY <3>2, OldGoes DEF Dead, Plain
    <3>4. row'[j] = NoRow /\ icon' # j /\ (\A u \in Users : pic'[u] # j)
      BY <3>3 DEF Dead, Plain
    <3>5. \A u \in Threads : Holding(u)' => req'[u].key # j
      BY <3>3 DEF Dead, Plain, Old
    <3> QED
      BY <1>3, <2>2, <3>a, <3>4, <3>5
  <2>3. disk \subseteq disk' \/ (Unlink(t) /\ disk' = disk \ {Min(req[t].held)})
    <3>1. CASE WriteFile(t)
      BY <3>1, Goes
    <3>2. CASE Unlink(t)
      BY <3>2, Goes
    <3>3. CASE ~WriteFile(t) /\ ~Unlink(t)
      BY <3>3, Frame, FilesActs
    <3> QED
      BY <3>1, <3>2, <3>3
  <2> QED
    BY <2>1, <2>2, <2>3
<1>4. ASSUME NEW k, k \in Keys, Holding(t), k = req[t].key
      PROVE  k \in disk
  BY <1>2, <1>4
<1>5. \A k \in Keys : row'[k] # NoRow => k \in disk'
  <2> SUFFICES ASSUME NEW k \in Keys, row'[k] # NoRow
               PROVE  k \in disk'
    OBVIOUS
  <2>1. row[k] # NoRow \/ (Holding(t) /\ k = req[t].key)
    BY RowsGo
  <2>2. k \in disk
    BY <1>2, <2>1
  <2> QED
    BY <1>3, <2>2
<1>6. \A u \in Users : pic'[u] # NoKey => pic'[u] \in disk'
  <2> SUFFICES ASSUME NEW u \in Users, NEW k, k = pic'[u], k # NoKey
               PROVE  k \in disk'
    OBVIOUS
  <2>1. pic[u] = k \/ (Holding(t) /\ k = req[t].key)
    BY NamesGo
  <2>2. k \in disk
    BY <1>2, <2>1
  <2> QED
    BY <1>3, <2>2
<1>7. icon' # NoKey => icon' \in disk'
  <2> SUFFICES ASSUME NEW k, k = icon', k # NoKey
               PROVE  k \in disk'
    OBVIOUS
  <2>1. icon = k \/ (Holding(t) /\ k = req[t].key)
    BY NamesGo
  <2>2. k \in disk
    BY <1>2, <2>1
  <2> QED
    BY <1>3, <2>2
<1>8. \A u \in Threads : Holding(u)' => req'[u].key \in disk'
  <2> SUFFICES ASSUME NEW u \in Threads, Holding(u)', NEW k, k = req'[u].key
               PROVE  k \in disk'
    OBVIOUS
  <2>1. CASE Holding(u) /\ k = req[u].key
    BY <1>2, <1>3, <2>1
  <2>2. CASE u = t /\ minted' = minted + 1 /\ k = minted' /\ pc[t] = "write"
    <3>1. WriteFile(t)
      <4>1. minted' # minted
        BY <1>0, <2>2
      <4> QED
        BY <4>1, Frame, FilesActs
    <3>2. disk' = disk \cup {minted + 1} \/ minted' = minted
      BY <3>1, Goes
    <3> QED
      BY <1>0, <2>2, <3>2
  <2> QED
    BY <2>1, <2>2, HoldingGoes, OthersStay
<1>9. Named' \subseteq disk'
  BY <1>5, <1>6, <1>7 DEF Named, Attached, Pictures, Real
<1> QED
  BY <1>8, <1>9 DEF BytesThere, NamedAreThere

Filed == KeysApart /\ Kind /\ (\A t \in Threads : InHand(t)) /\ BytesThere

\* A step of a request keeps the invariant.
LEMMA FiledStep ==
    ASSUME Typed, Filed, NEW t \in Threads, Step(t), ~Fails("config"), ~Fails("reply")
    PROVE  Filed'
<1>1. RowsOfMessages' /\ PicturesApart' /\ IconsApart' /\ KeysApart' /\ BytesThere'
  BY RowsOfMessagesStep, PicturesApartStep, IconsApartStep, KeysApartStep,
     BytesThereStep DEF Filed, Kind
<1>2. InHand(t)'
  BY InHandMoves DEF Filed
<1>3. \A u \in Threads \ {t} : InHand(u)'
  BY <1>1, InHandOthers DEF Filed
<1> QED
  BY <1>1, <1>2, <1>3 DEF Filed, Kind

\* The invariant holds at the start.
LEMMA FiledInit ==
    ASSUME Init
    PROVE  Filed
<1>1. \A t \in Threads : pc[t] = "idle" /\ ~Holding(t) /\ InHand(t)
  BY DEF Init, Holding, NoRequest, InHand
<1>2. (\A k \in Keys : row[k] = NoRow) /\ (\A u \in Users : pic[u] = NoKey) /\ icon = NoKey /\
          savedIcon = NoKey /\ msgs = {}
  BY DEF Init
<1>3. KeysApart
  BY <1>1, <1>2 DEF KeysApart
<1>4. Kind
  BY <1>1, <1>2 DEF Kind, RowsOfMessages, PicturesApart, IconsApart
<1>5. BytesThere
  BY <1>1, <1>2 DEF BytesThere, NamedAreThere, Named, Attached, Pictures, Real
<1> QED
  BY <1>1, <1>3, <1>4, <1>5 DEF Filed

\* A crash and a start keep it: what is named is what they count as kept.
LEMMA FiledRestart ==
    ASSUME Typed, Filed, Restart
    PROVE  Filed'
<1>0. /\ pic \in [Users -> Keys \cup {NoKey}] /\ icon \in Keys \cup {NoKey} /\
             savedIcon \in Keys \cup {NoKey}
  BY DEF Typed, TypeOK
<1>1. /\ \A t \in Threads : pc'[t] = "idle" /\ ~Holding(t)'
      /\ \A k \in Keys : Old(k) => Old(k)'
      /\ UNCHANGED <<minted, row, msgs, written, pic>>
  BY RestartRests
<1>2. KeysApart'
  BY <1>1 DEF Filed, KeysApart
<1>3. RowsOfMessages'
  BY <1>1 DEF Filed, Kind, RowsOfMessages
<1>4. ASSUME NEW k \in Keys, IconFile(k)
      PROVE  IconFile(k)'
  BY <1>1, <1>4 DEF IconFile
<1>5. icon' = savedIcon' /\ savedIcon' \in {savedIcon, NoKey} /\ (savedIcon' # NoKey =>
          savedIcon' \in disk')
  BY DEF Restart
<1>6. IconsApart'
  <2>1. ASSUME NEW k, k = savedIcon', k # NoKey
        PROVE  IconFile(k)'
    BY <1>0, <1>4, <1>5, <2>1 DEF Filed, Kind, IconsApart
  <2>2. (savedIcon' # NoKey => IconFile(savedIcon)') /\ (icon' # NoKey => IconFile(icon)')
    BY <1>5, <2>1 DEF IconFile, Old
  <2> QED
    BY <1>1, <2>2 DEF IconsApart
<1>7. PicturesApart'
  <2>1. ASSUME NEW u \in Users, NEW k, k = pic[u], k # NoKey
        PROVE  Old(k)' /\ row[k] = NoRow
    BY <1>0, <1>1, <2>1 DEF Filed, Kind, PicturesApart
  <2> QED
    BY <1>1, <2>1 DEF Filed, Kind, PicturesApart, Old
<1>8. BytesThere'
  <2>1. disk' = (disk \cap Kept) \cup (disk' \ Kept)
    BY DEF Restart
  <2>2. Attached' = Attached /\ Pictures' = Pictures
    BY <1>1 DEF Attached, Pictures, Real
  <2>3. Attached \cup Pictures \subseteq disk \cap Kept
    BY DEF Filed, BytesThere, NamedAreThere, Named, Kept
  <2>4. Real({icon})' \subseteq disk'
    BY <1>5 DEF Real
  <2> QED
    BY <1>1, <2>1, <2>2, <2>3, <2>4 DEF BytesThere, NamedAreThere, Named
<1>9. \A t \in Threads : InHand(t)'
  BY <1>1 DEF InHand
<1> QED
  BY <1>2, <1>3, <1>6, <1>7, <1>8, <1>9 DEF Filed, Kind

\* Nothing happens, nothing changes.
LEMMA FiledStutter ==
    ASSUME Filed, UNCHANGED vars
    PROVE  Filed'
<1>1. UNCHANGED <<disk, minted, pc, req, row, icon, savedIcon, pic, msgs, written, thread>>
  BY DEF vars
<1> QED
  BY <1>1 DEF Filed, KeysApart, Kind, RowsOfMessages, PicturesApart, IconsApart, IconFile, InHand,
     Plain, Dead,
              BytesThere, NamedAreThere, Named, Attached, Pictures, Real, Old, Holding, Threaded

\* Every step of the program keeps it.
LEMMA FiledNext ==
    ASSUME Typed, Filed, [Next]_vars, ~Fails("config"), ~Fails("reply")
    PROVE  Filed'
BY FiledStep, FiledRestart, FiledStutter DEF Next

\* Where neither a reply nor the configuration can fail.
Sound == plan.failures \cap {"reply", "config"} = {}

\* The row of an attachment, the picture of a user and the icon outlive no bytes, in
\* any interleaving and through any crash, whatever unlinks and statements fail. The
\* exceptions are two, and the code takes both: a configuration that cannot be
\* written drops a picture the running one goes on naming, and a row that was written
\* but cannot be read back loses its file.
THEOREM RowsKeepBytes == Spec => []RowsHaveBytes
<1> DEFINE Inv == Typed /\ (Sound => Filed)
<1>1. Init => Inv
  BY TypedInit, FiledInit
<1>2. Inv /\ [Next]_vars => Inv'
  <2> SUFFICES ASSUME Inv, [Next]_vars
               PROVE  Inv'
    OBVIOUS
  <2>1. plan' = plan
    BY DEF Next, vars
  <2>2. Sound' <=> Sound
    BY <2>1 DEF Sound
  <2>3. Sound => ~Fails("config") /\ ~Fails("reply")
    BY DEF Sound, Fails
  <2> QED
    BY <2>2, <2>3, TypedNext, FiledNext
<1>3. Inv => RowsHaveBytes
  BY DEF Filed, BytesThere, RowsHaveBytes, Sound
<1> QED
  BY <1>1, <1>2, <1>3, PTL DEF Spec

-----------------------------------------------------------------------------
(* The counter of the quota and the disk                                    *)

\* What the counter holds for t that is not on the disk: what t reserved and did not
\* write, and the file it took away and has not been refunded for.
DueOf(t) ==
    IF pc[t] \in {"write", "giveback"} THEN req[t].reserved
    ELSE IF pc[t] = "settle" THEN req[t].reserved - size[req[t].key]
    ELSE IF pc[t] = "refund" THEN size[Min(req[t].held)]
    ELSE 0
Due == [t \in Threads |-> DueOf(t)]
Active == {t \in Threads : pc[t] # "idle"}

Counted ==
    /\ IsFiniteSet(Active) /\ \A k \in disk : k <= minted
    /\ used = Bytes(disk) + Sum(Due, Active) /\ used <= plan.total

\* The files t is about to take away.
Goners(t) ==
    IF pc[t] \in {"unlink", "point"} THEN req[t].held
    ELSE IF pc[t] = "refund" THEN req[t].held \ {Min(req[t].held)}
    ELSE {}

\* No body is longer than it declared, nothing crashes, and of what goes there is
\* only one who takes it away.
Orderly ==
    /\ plan.overrun = 0 /\ plan.restarts = 0 /\ plan.failures \subseteq {"disk"}
    /\ plan.calls \subseteq {"attach", "send", "delete", "picture"}

SaysOf(t) == pc[t] \in {"create", "reread", "claim"} /\ req[t].call = "send"
Recorded(t) == pc[t] = "reread" /\ req[t].call = "attach"

\* Where a request is in such a deployment, and what it was given on the way.
InOrder(t) ==
    /\ pc[t] \in Steps \ {"unpicture", "clear", "saveicon", "purge", "unsay", "forget", "sweep"}
    /\ req[t].call \in {"idle", "attach", "send", "delete", "picture"} /\ req[t].stale = {}
    /\ pc[t] = "settle" => size[req[t].key] <= req[t].reserved
    /\ pc[t] = "delete" =>
          /\ req[t].msg <= written
          /\ req[t].msg \in msgs => \A k \in req[t].held : row[k] = req[t].msg
    /\ Recorded(t) => row[req[t].key] = Pending
    /\ SaysOf(t) => \A k \in req[t].held : Old(k)
    /\ Goners(t) \subseteq disk

Removed ==
    /\ members = Users
    /\ \A t \in Threads : InOrder(t)
    /\ \A t, u \in Threads : SaysOf(t) /\ Recorded(u) => req[u].key \notin req[t].held
    /\ \A t, u \in Threads : t # u => Goners(t) \cap Goners(u) = {}
    /\ \A k \in Keys : owner[k] # NoUser => Old(k)

\* The steps there are in such a deployment, with the requests that take them.
OrderlyActs(t) ==
    \/ Upload(t) \/ WriteFile(t) \/ GiveBack(t) \/ Settle(t) \/ Recheck(t) \/ Unlink(t) \/ Refund(t)
    \/ Record(t) \/ RereadFile(t) \/ Replace(t) \/ Point(t)
    \/ SendMessage(t) \/ CreateRow(t) \/ RereadRow(t) \/ Claim(t) \/ ReadBack(t) \/ Announce(t)
    \/ Rollback(t) \/ DeleteMessage(t) \/ Delete(t)

\* There are no others.
LEMMA OrderlySteps ==
    ASSUME Typed, Orderly, NEW t \in Threads, InOrder(t), Step(t)
    PROVE  OrderlyActs(t)
<1>1. ~ClearPicture(t) /\ ~ClearIcon(t) /\ ~CreatePost(t) /\ ~DeletePost(t) /\ ~DeleteChannel(t)
      /\ ~Purge(t) /\ ~Sweep(t)
  <2>1. \A c \in {"clear", "post", "deletepost", "channel", "purge", "sweep"} : c \notin plan.calls
    BY DEF Orderly
  <2> QED
    BY <2>1 DEF ClearPicture, ClearIcon, CreatePost, DeletePost, DeleteChannel, Purge, Sweep, Begin
<1>2. ~ReadHeld(t) /\ ~ClearMedia(t) /\ ~SetServerIcon(t) /\ ~SaveIcon(t) /\ ~Bind(t)
      /\ ~PurgePosts(t) /\ ~PurgeMessages(t) /\ ~ForgetUser(t) /\ ~SweepNext(t)
  BY DEF InOrder, ReadHeld, ClearMedia, SetServerIcon, SaveIcon, Bind, PurgePosts, PurgeMessages,
         ForgetUser, SweepNext, At
<1> QED
  BY <1>1, <1>2 DEF Step, OrderlyActs

\* What an upload has reserved and stored is that of a request of its own.
LEMMA HeldAreOld ==
    ASSUME Typed, Filed, NEW t \in Threads
    PROVE  /\ pc[t] \in {"unlink", "refund", "point"} =>
                 \A k \in req[t].held : Dead(k) /\ k <= minted /\ k \in Keys
           /\ pc[t] = "refund" => Min(req[t].held) \in req[t].held
           /\ pc[t] = "settle" => req[t].key <= minted /\ req[t].key \in Keys /\ req[t].key \in disk
<1>1. InHand(t) /\ (Holding(t) => req[t].key <= minted /\ req[t].key \in Keys /\ req[t].key \in disk)
  BY KindIs DEF Filed, KeysApart, BytesThere
<1>2. FitAt(pc[t], req[t]) /\ req[t].held \subseteq Keys
  BY InHandIs
<1>3. pc[t] \in {"unlink", "refund", "point"} => \A k \in req[t].held : Dead(k)
  BY <1>1 DEF InHand
<1>4. pc[t] = "refund" => req[t].held # {}
  BY <1>2 DEF FitAt
<1>5. pc[t] = "settle" => Holding(t)
  BY DEF Holding
<1> QED
  BY <1>1, <1>2, <1>3, <1>4, <1>5, FirstHeld DEF Dead, Plain, Old

\* What is due is a number of bytes.
LEMMA DueIs ==
    ASSUME Typed, Filed, NEW t \in Threads, InOrder(t)
    PROVE  DueOf(t) \in Nat
<1>1. /\ req[t].reserved \in Nat /\ size \in [Keys -> 0..MaxFile]
  <2>1. req[t].reserved \in 0..MaxFile /\ SharedOK
    BY InHandIs
  <2> QED
    BY <2>1 DEF SharedOK
<1>2. CASE pc[t] = "settle"
  <2>1. size[req[t].key] \in Nat /\ size[req[t].key] <= req[t].reserved
    BY <1>1, <1>2, HeldAreOld DEF InOrder
  <2> QED
    BY <1>1, <1>2, <2>1 DEF DueOf
<1>3. CASE pc[t] = "refund"
  <2>1. Min(req[t].held) \in Keys
    BY <1>3, HeldAreOld
  <2> QED
    BY <1>1, <1>3, <2>1 DEF DueOf
<1>4. CASE pc[t] \notin {"settle", "refund"}
  BY <1>1, <1>4 DEF DueOf
<1> QED
  BY <1>2, <1>3, <1>4

\* A file that is there keeps its size.
LEMMA SizesStay ==
    ASSUME Typed, NEW t \in Threads, Step(t)
    PROVE  \A k \in Keys : k <= minted => size'[k] = size[k]
<1>1. size' = size \/ WriteFile(t)
  BY Frame, FilesActs
<1>2. ASSUME NEW k \in Keys, k <= minted, WriteFile(t)
      PROVE  size'[k] = size[k]
  <2>1. minted \in 0..MaxKeys /\ size \in [Keys -> 0..MaxFile]
    BY InHandIs DEF SharedOK
  <2>2. size' = size \/ \E n \in 1..MaxFile : size' = [size EXCEPT ![minted + 1] = n]
    BY <1>2, Goes
  <2> QED
    BY <1>2, <2>1, <2>2
<1> QED
  BY <1>1, <1>2

\* Whatever t does, what is due to the others stays the same.
LEMMA DueMoves ==
    ASSUME Typed, Filed, NEW t \in Threads, Step(t), \A u \in Threads : InOrder(u),
           IsFiniteSet(Active)
    PROVE  /\ IsFiniteSet(Active')
           /\ \E rest \in Nat : /\ Sum(Due, Active) = DueOf(t) + rest
                                /\ DueOf(t)' \in Int => Sum(Due', Active') = DueOf(t)' + rest
<1> DEFINE R == Active \ {t}
<1>1. IsFiniteSet(R) /\ R \subseteq Threads
  BY FS_Subset DEF Active
<1>2. \A u \in Threads \ {t} : pc'[u] = pc[u] /\ req'[u] = req[u]
  BY OthersStay
<1>3. Active' \ {t} = R
  BY <1>2 DEF Active
<1>4. IsFiniteSet(Active')
  <2>1. Active' \subseteq R \cup {t}
    BY <1>3
  <2>2. IsFiniteSet(R \cup {t})
    BY <1>1, FS_AddElement
  <2> QED
    BY <2>1, <2>2, FS_Subset
<1>5. \A u \in Threads : Due[u] \in Nat /\ Due[u] = DueOf(u) /\ Due'[u] = DueOf(u)'
  BY DueIs DEF Due
<1>6. ASSUME NEW u \in R
      PROVE  Due[u] = Due'[u]
  <2>1. u \in Threads \ {t} /\ pc'[u] = pc[u] /\ req'[u] = req[u]
    BY <1>1, <1>2
  <2>2. pc[u] = "settle" => size'[req[u].key] = size[req[u].key]
    BY <2>1, HeldAreOld, SizesStay
  <2>3. pc[u] = "refund" => size'[Min(req[u].held)] = size[Min(req[u].held)]
    BY <2>1, HeldAreOld, SizesStay
  <2>4. DueOf(u)' = DueOf(u)
    BY <2>1, <2>2, <2>3 DEF DueOf
  <2> QED
    BY <1>5, <2>1, <2>4
<1>7. Sum(Due, R) = Sum(Due', R) /\ Sum(Due, R) \in Nat
  <2>1. \A u \in R : Due[u] \in Nat
    BY <1>1, <1>5
  <2> HIDE DEF R
  <2> QED
    BY <1>1, <1>6, <2>1, SumSame, SumIsNat
<1>8. Sum(Due, Active) = DueOf(t) + Sum(Due, R)
  <2>1. CASE t \in Active
    <3>1. \A u \in Active : Due[u] \in Int
      BY <1>5 DEF Active
    <3> QED
      BY <1>5, <2>1, <3>1, SumWithout
  <2>2. CASE t \notin Active
    <3>1. pc[t] = "idle" /\ Active = R
      BY <2>2 DEF Active
    <3>2. DueOf(t) = 0
      BY <3>1 DEF DueOf
    <3>3. Sum(Due, Active) = Sum(Due, R)
      BY <3>1, Zenon
    <3> HIDE DEF R
    <3> QED
      BY <1>7, <3>2, <3>3
  <2> QED
    BY <2>1, <2>2
<1>9. ASSUME DueOf(t)' \in Int
      PROVE  Sum(Due', Active') = DueOf(t)' + Sum(Due, R)
  <2>1. CASE t \in Active'
    <3>1. \A u \in Active' : Due'[u] \in Int
      <4> SUFFICES ASSUME NEW u \in Active'
                   PROVE  Due'[u] \in Int
        OBVIOUS
      <4>1. CASE u = t
        BY <1>5, <1>9, <4>1
      <4>2. CASE u # t
        <5>1. u \in R
          BY <1>3, <4>2
        <5>2. Due[u] = Due'[u] /\ Due[u] \in Nat
          BY <1>1, <1>5, <1>6, <5>1
        <5> QED
          BY <5>2
      <4> QED
        BY <4>1, <4>2
    <3>2. Sum(Due', Active') = Due'[t] + Sum(Due', Active' \ {t})
      BY <1>4, <2>1, <3>1, SumWithout
    <3> QED
      BY <1>3, <1>5, <1>7, <3>2
  <2>2. CASE t \notin Active'
    <3>1. pc'[t] = "idle" /\ Active' = R
      BY <1>3, <2>2 DEF Active
    <3>2. DueOf(t)' = 0
      BY <3>1 DEF DueOf
    <3>3. Sum(Due', Active') = Sum(Due', R)
      BY <3>1, Zenon
    <3> HIDE DEF R
    <3> QED
      BY <1>7, <3>2, <3>3
  <2> QED
    BY <2>1, <2>2
<1> QED
  BY <1>4, <1>7, <1>8, <1>9

\* The bytes on the disk are a sum.
LEMMA BytesSum == SharedOK => Bytes(disk) = Sum(size, disk) /\ Bytes(disk) \in Nat
BY BytesAre DEF SharedOK

\* The bytes on the disk, before and after a step.
LEMMA DiskBytes ==
    ASSUME Typed, Typed', NEW t \in Threads, Step(t), \A k \in disk : k <= minted
    PROVE  /\ Bytes(disk) \in Nat /\ Bytes(disk)' \in Nat
           /\ disk' = disk => Bytes(disk)' = Bytes(disk)
           /\ \A k \in disk : disk' = disk \ {k} => Bytes(disk)' = Bytes(disk) - size[k]
           /\ disk' = disk \cup {minted + 1} => Bytes(disk)' = Bytes(disk) + size'[minted + 1]
<1>1. SharedOK /\ disk \subseteq Keys /\ size \in [Keys -> 0..MaxFile] /\ minted \in 0..MaxKeys
  BY TypesAre DEF Typed, SharedOK
<1>2. disk' \subseteq Keys /\ size' \in [Keys -> 0..MaxFile]
  BY DEF Typed, TypeOK
<1>3. Bytes(disk) = Sum(size, disk) /\ Bytes(disk) \in Nat /\ IsFiniteSet(disk)
  BY <1>1, BytesAre
<1>4. Bytes(disk)' = Sum(size', disk') /\ Bytes(disk)' \in Nat
  <2>1. (SharedOK => Bytes(disk) = Sum(size, disk) /\ Bytes(disk) \in Nat)'
    BY BytesSum, PTL
  <2>2. SharedOK'
    BY TypesAre, PTL DEF Typed
  <2> QED
    BY <2>1, <2>2
<1>5. \A k \in disk : size[k] = size'[k] /\ size[k] \in Int
  <2>1. \A k \in disk : size'[k] = size[k]
    BY <1>1, SizesStay
  <2> QED
    BY <1>1, <2>1
<1>6. \A S \in SUBSET disk : IsFiniteSet(S) /\ Sum(size', S) = Sum(size, S)
  <2> SUFFICES ASSUME NEW S \in SUBSET disk
               PROVE  IsFiniteSet(S) /\ Sum(size', S) = Sum(size, S)
    OBVIOUS
  <2>1. IsFiniteSet(S)
    BY <1>3, FS_Subset
  <2>2. \A k \in S : size[k] = size'[k]
    BY <1>5
  <2> QED
    BY <2>1, <2>2, SumSame
<1>7. ASSUME disk' = disk
      PROVE  Bytes(disk)' = Bytes(disk)
  BY <1>3, <1>4, <1>6, <1>7
<1>8. ASSUME NEW k \in disk, disk' = disk \ {k}
      PROVE  Bytes(disk)' = Bytes(disk) - size[k]
  <2>1. Sum(size, disk) = size[k] + Sum(size, disk \ {k}) /\ Sum(size, disk \ {k}) \in Int
    BY <1>3, <1>5, SumWithout
  <2>2. Sum(size', disk') = Sum(size, disk \ {k})
    BY <1>6, <1>8
  <2>3. size[k] \in Int
    BY <1>5
  <2> QED
    BY <1>3, <1>4, <2>1, <2>2, <2>3
<1>9. ASSUME disk' = disk \cup {minted + 1}
      PROVE  Bytes(disk)' = Bytes(disk) + size'[minted + 1]
  <2>1. minted + 1 \notin disk /\ minted + 1 \in disk'
    BY <1>1, <1>9
  <2>2. disk' \ {minted + 1} = disk
    BY <1>9, <2>1
  <2>3. IsFiniteSet(disk')
    BY <1>3, <1>9, FS_AddElement
  <2>4. \A k \in disk' : size'[k] \in Int
    BY <1>2
  <2>5. Sum(size', disk') = size'[minted + 1] + Sum(size', disk' \ {minted + 1})
    BY <2>1, <2>3, <2>4, SumWithout
  <2>6. Sum(size', disk' \ {minted + 1}) = Sum(size, disk)
    BY <1>6, <2>2
  <2>7. size'[minted + 1] \in Int
    BY <2>1, <2>4
  <2> QED
    BY <1>3, <1>4, <2>5, <2>6, <2>7
<1> QED
  BY <1>3, <1>4, <1>7, <1>8, <1>9

\* A step takes as much from what is due as it adds to the disk, or to the counter.
Balances(t) ==
    /\ DueOf(t)' \in Int
    /\ used' - Bytes(disk)' - DueOf(t)' = used - Bytes(disk) - DueOf(t)
    /\ used' <= used \/ used' <= plan.total
    /\ \A k \in disk' : k <= minted'

\* Of two parts of a request, only the step that it is at changes.
LEMMA DuesAre ==
    ASSUME NEW t
    PROVE  /\ pc'[t] \notin {"write", "giveback", "settle", "refund"} => DueOf(t)' = 0
           /\ pc'[t] \in {"write", "giveback"} => DueOf(t)' = req'[t].reserved
           /\ pc'[t] = "settle" => DueOf(t)' = req'[t].reserved - size'[req'[t].key]
           /\ pc'[t] = "refund" => DueOf(t)' = size'[Min(req'[t].held)]
           /\ pc[t] \notin {"write", "giveback", "settle", "refund"} => DueOf(t) = 0
           /\ pc[t] \in {"write", "giveback"} => DueOf(t) = req[t].reserved
           /\ pc[t] = "settle" => DueOf(t) = req[t].reserved - size[req[t].key]
           /\ pc[t] = "refund" => DueOf(t) = size[Min(req[t].held)]
BY DEF DueOf

\* The steps that touch neither the disk nor the counter.
LEMMA QuietBalances ==
    ASSUME Typed, Typed', NEW t \in Threads, Step(t), \A k \in disk : k <= minted,
           UNCHANGED <<disk, minted, used>>,
           pc[t] \notin {"write", "giveback", "settle", "refund"},
           pc'[t] \notin {"write", "giveback", "settle", "refund"}
    PROVE  Balances(t)
<1>1. DueOf(t) = 0 /\ DueOf(t)' = 0
  BY DuesAre
<1>2. Bytes(disk)' = Bytes(disk) /\ Bytes(disk) \in Nat
  BY DiskBytes
<1>3. used \in Int
  BY DEF Typed, TypeOK
<1> QED
  BY <1>1, <1>2, <1>3 DEF Balances

\* The steps that do.
LEMMA LoudBalances ==
    ASSUME Typed, Typed', Filed, NEW t \in Threads, Step(t), \A k \in disk : k <= minted,
           InOrder(t), Orderly, plan' = plan, used >= Bytes(disk) + DueOf(t), used <= plan.total
    PROVE  /\ Upload(t) => Balances(t)
           /\ WriteFile(t) => Balances(t)
           /\ GiveBack(t) => Balances(t)
           /\ Settle(t) => Balances(t)
           /\ Recheck(t) => pc'[t] = "saved"
           /\ Unlink(t) => Balances(t)
           /\ Refund(t) => Balances(t)
<1>0. /\ SharedOK /\ used \in Int /\ minted \in 0..MaxKeys /\ plan \in Plans /\ req[t].reserved \in 0..MaxFile
      /\ size \in [Keys -> 0..MaxFile] /\ req[t].held \subseteq Keys /\ disk \subseteq Keys
  BY InHandIs DEF SharedOK
<1>a. size' \in [Keys -> 0..MaxFile]
  BY DEF Typed, TypeOK
<1>b. plan.total \in Nat /\ plan.overrun = 0 /\ plan.file \in 1..MaxFile
  BY <1>0, PlansFit DEF Orderly
<1>1. ASSUME Upload(t)
      PROVE  Balances(t)
  <2>1. PICK c \in Uploading, n \in 1..MaxFile : \E u \in members \cup {NoUser} :
            Begun(t, "write", c, u, n, 0, {}, {}) /\ Fits(n) /\ used' = used + n
    BY <1>0, <1>1, Begins
  <2>2. PICK u \in members \cup {NoUser} : Begun(t, "write", c, u, n, 0, {}, {})
    BY <2>1
  <2>3. pc'[t] = "write" /\ req'[t].reserved = n
    <3>1. ThreadsOK /\ "write" \in Steps
      BY TypesAre DEF Typed, Steps
    <3> QED
      BY <2>2, <3>1, BegunMoves DEF Is
  <2>4. pc[t] = "idle"
    BY <1>1 DEF Upload, Reserve, Begin, At
  <2>5. UNCHANGED <<disk, minted>>
    BY <1>1, Frame
  <2>6. DueOf(t) = 0 /\ DueOf(t)' = n
    BY <2>3, <2>4, DuesAre
  <2>7. used' <= plan.total
    BY <2>1 DEF Fits
  <2>8. Bytes(disk)' = Bytes(disk) /\ Bytes(disk) \in Nat
    BY <2>5, DiskBytes
  <2> QED
    BY <1>0, <2>1, <2>5, <2>6, <2>7, <2>8 DEF Balances
<1>2. ASSUME WriteFile(t)
      PROVE  Balances(t)
  <2>1. pc[t] = "write" /\ used' = used /\ DueOf(t) = req[t].reserved
    BY <1>2, Frame, DuesAre DEF WriteFile, At
  <2>2. CASE Stayed(t, "giveback") /\ UNCHANGED <<disk, size, minted>>
    <3>1. DueOf(t)' = req[t].reserved
      BY <2>2, DuesAre DEF Stayed, Turned
    <3>2. Bytes(disk)' = Bytes(disk) /\ Bytes(disk) \in Nat
      BY <2>2, DiskBytes
    <3> QED
      BY <1>0, <2>1, <2>2, <3>1, <3>2 DEF Balances
  <2>3. CASE /\ minted < MaxKeys /\ minted' = minted + 1 /\ disk' = disk \cup {minted + 1}
             /\ Turned(t, "settle", minted + 1, req[t].msg, req[t].held, req[t].stale)
    <3>1. size'[minted + 1] \in 0..MaxFile
      BY <1>0, <1>a, <2>3
    <3>2. DueOf(t)' = req[t].reserved - size'[minted + 1]
      BY <2>3, DuesAre DEF Turned
    <3>3. Bytes(disk)' = Bytes(disk) + size'[minted + 1] /\ Bytes(disk) \in Nat
      BY <2>3, DiskBytes
    <3>4. \A k \in disk' : k <= minted'
      BY <1>0, <2>3
    <3> QED
      BY <1>0, <2>1, <3>1, <3>2, <3>3, <3>4 DEF Balances
  <2> QED
    BY <1>2, <2>2, <2>3, Goes
<1>3. ASSUME GiveBack(t)
      PROVE  Balances(t)
  <2>1. pc[t] = "giveback" /\ used' = used - req[t].reserved /\ UNCHANGED <<disk, minted>>
    BY <1>3, Frame DEF GiveBack, At
  <2>2. pc'[t] = "idle"
    BY <1>3, Goes DEF Rested
  <2>3. DueOf(t) = req[t].reserved /\ DueOf(t)' = 0
    BY <2>1, <2>2, DuesAre
  <2>4. Bytes(disk)' = Bytes(disk) /\ Bytes(disk) \in Nat
    BY <2>1, DiskBytes
  <2> QED
    BY <1>0, <2>1, <2>3, <2>4 DEF Balances
<1>4. ASSUME Settle(t)
      PROVE  Balances(t)
  <2>1. pc[t] = "settle" /\ used' = used - req[t].reserved + size[req[t].key] /\ UNCHANGED <<disk, minted>>
    BY <1>4, Frame DEF Settle, Settled, At
  <2>2. pc'[t] = "recheck"
    BY <1>4, Goes DEF Stayed, Turned
  <2>3. DueOf(t) = req[t].reserved - size[req[t].key] /\ DueOf(t)' = 0
    BY <2>1, <2>2, DuesAre
  <2>4. Bytes(disk)' = Bytes(disk) /\ Bytes(disk) \in Nat
    BY <2>1, DiskBytes
  <2>5. size[req[t].key] \in 0..MaxFile /\ size[req[t].key] <= req[t].reserved
    BY <1>0, <2>1, HeldAreOld DEF InOrder
  <2>6. req[t].reserved \in Nat /\ size[req[t].key] \in Nat /\ minted' = minted /\ disk' = disk
    BY <1>0, <2>1, <2>5
  <2>7. used' <= used /\ DueOf(t)' \in Int
    BY <1>0, <2>1, <2>3, <2>5, <2>6
  <2>8. used' - Bytes(disk)' - DueOf(t)' = used - Bytes(disk) - DueOf(t)
    BY <1>0, <2>1, <2>3, <2>4, <2>6
  <2> QED
    BY <2>6, <2>7, <2>8 DEF Balances
<1>5. ASSUME Recheck(t)
      PROVE  pc'[t] = "saved"
  <2>1. ~(used > plan.total)
    BY <1>0, <1>b
  <2> QED
    BY <1>0, <1>5, <2>1, TypesAre DEF Typed, ThreadsOK, Recheck, Goto
<1>6. ASSUME Unlink(t)
      PROVE  Balances(t)
  <2>1. pc[t] = "unlink" /\ UNCHANGED <<minted, used, size>> /\ DueOf(t) = 0
    BY <1>6, Frame, DuesAre DEF Unlink, At
  <2>2. CASE disk' = disk \ {Min(req[t].held)} /\ Stayed(t, "refund")
    <3>1. DueOf(t)' = size[Min(req[t].held)]
      BY <2>1, <2>2, DuesAre DEF Stayed, Turned
    <3>2. Min(req[t].held) \in disk /\ Min(req[t].held) \in Keys
      <4>1. req[t].held # {}
        BY <2>1, InHandIs DEF FitAt
      <4>2. Min(req[t].held) \in req[t].held
        BY <4>1, FirstHeld
      <4> QED
        BY <1>0, <2>1, <4>2 DEF InOrder, Goners
    <3>3. Bytes(disk)' = Bytes(disk) - size[Min(req[t].held)] /\ Bytes(disk) \in Nat
      BY <2>2, <3>2, DiskBytes
    <3>4. size[Min(req[t].held)] \in 0..MaxFile
      BY <1>0, <3>2
    <3> QED
      BY <1>0, <2>1, <2>2, <3>1, <3>3, <3>4 DEF Balances
  <2>3. CASE disk' = disk /\ DropsNext(t)
    <3>1. pc'[t] \notin {"write", "giveback", "settle", "refund"}
      BY <2>3 DEF DropsNext, Rested, Took, Turned
    <3> QED
      BY <2>1, <2>3, <3>1, QuietBalances
  <2> QED
    BY <1>6, <2>2, <2>3, Goes
<1>7. ASSUME Refund(t)
      PROVE  Balances(t)
  <2>1. pc[t] = "refund" /\ UNCHANGED <<disk, minted>> /\ DueOf(t) = size[Min(req[t].held)]
    BY <1>7, Frame, DuesAre DEF Refund, At
  <2>2. pc'[t] \notin {"write", "giveback", "settle", "refund"}
    BY <1>7, Goes DEF DropsNext, Rested, Took, Turned
  <2>3. size[Min(req[t].held)] \in 0..MaxFile
    BY <1>0, <2>1, HeldAreOld
  <2>4. Bytes(disk)' = Bytes(disk) /\ Bytes(disk) \in Nat
    BY <2>1, DiskBytes
  <2>5. ~(size[Min(req[t].held)] > used)
    BY <1>0, <2>1, <2>3, <2>4
  <2>6. used' = used - size[Min(req[t].held)]
    BY <1>7, <2>5 DEF Refund
  <2>7. DueOf(t)' = 0
    BY <2>2, DuesAre
  <2> QED
    BY <1>0, <2>1, <2>3, <2>4, <2>6, <2>7 DEF Balances
<1> QED
  BY <1>1, <1>2, <1>3, <1>4, <1>5, <1>6, <1>7

\* Whatever t does, its own part of the account is balanced.
LEMMA StepBalances ==
    ASSUME Typed, Typed', Filed, NEW t \in Threads, Step(t), \A k \in disk : k <= minted,
           InOrder(t), Orderly, plan' = plan, used >= Bytes(disk) + DueOf(t), used <= plan.total
    PROVE  Balances(t)
<1>1. CASE Upload(t) \/ WriteFile(t) \/ GiveBack(t) \/ Settle(t) \/ Unlink(t) \/ Refund(t)
  BY <1>1, LoudBalances
<1> DEFINE Loud == {"write", "giveback", "settle", "refund"}
<1>2. CASE Recheck(t) \/ Record(t) \/ RereadFile(t) \/ Replace(t) \/ Point(t)
           \/ CreateRow(t) \/ RereadRow(t) \/ Claim(t) \/ ReadBack(t) \/ Announce(t)
           \/ Rollback(t) \/ Delete(t)
  <2>1. UNCHANGED <<disk, minted, used>>
    BY <1>2, Frame
  <2>2. pc[t] \notin Loud
    BY <1>2 DEF Recheck, Record, RereadFile, Replace, Point, CreateRow, RereadRow, Claim, ReadBack,
                Announce, Rollback, Delete, At
  <2>3. pc'[t] \notin Loud
    BY <1>2, Goes DEF Dropping, Rested, Stayed, Took, Turned
  <2> QED
    BY <2>1, <2>2, <2>3, QuietBalances
<1>3. CASE SendMessage(t) \/ DeleteMessage(t)
  <2>1. UNCHANGED <<disk, minted, used>>
    BY <1>3, Frame
  <2>2. pc[t] = "idle"
    BY <1>3 DEF SendMessage, DeleteMessage, Begin, At
  <2>3. pc'[t] \in {"create", "delete"}
    <3>1. SharedOK /\ ThreadsOK /\ "create" \in Steps /\ "delete" \in Steps
      BY TypesAre DEF Typed, Steps
    <3> QED
      BY <1>3, <3>1, Begins, BegunMoves
  <2> QED
    BY <2>1, <2>2, <2>3, QuietBalances
<1> QED
  BY <1>1, <1>2, <1>3, OrderlySteps DEF OrderlyActs

\* The counter is what is on the disk and what is due, and never over the ceiling.
LEMMA CountedStep ==
    ASSUME Typed, Typed', Filed, NEW t \in Threads, Step(t), Counted, Removed, Orderly, plan' = plan
    PROVE  Counted'
<1>1. \A u \in Threads : InOrder(u)
  BY DEF Removed
<1>2. IsFiniteSet(Active)'
  BY <1>1, DueMoves DEF Counted
<1>3. PICK rest \in Nat : /\ Sum(Due, Active) = DueOf(t) + rest
                          /\ DueOf(t)' \in Int => Sum(Due', Active') = DueOf(t)' + rest
  BY <1>1, DueMoves DEF Counted
<1>4. Bytes(disk) \in Nat /\ DueOf(t) \in Nat /\ used \in Int /\ used' \in Int
      /\ plan.total \in Nat
  <2>1. plan \in Plans /\ used \in Int /\ used' \in Int
    BY DEF Typed, TypeOK
  <2> QED
    BY <1>1, <2>1, DiskBytes, DueIs, PlansFit DEF Counted
<1>5. used = Bytes(disk) + (DueOf(t) + rest) /\ used <= plan.total
  BY <1>3 DEF Counted
<1>6. used >= Bytes(disk) + DueOf(t)
  BY <1>4, <1>5
<1>7. Balances(t)
  BY <1>1, <1>5, <1>6, StepBalances DEF Counted
<1>8. Bytes(disk)' \in Nat
  BY DiskBytes DEF Counted
<1>9. used' = Bytes(disk)' + Sum(Due', Active')
  BY <1>3, <1>4, <1>5, <1>7, <1>8 DEF Balances
<1>10. used' <= plan'.total
  BY <1>4, <1>5, <1>7 DEF Balances
<1> QED
  BY <1>2, <1>7, <1>9, <1>10 DEF Counted, Balances

\* What t is about to take away after its step it was about to before, or something
\* kept it till then.
LEMMA GonersGo ==
    ASSUME Typed, Filed, Orderly, Removed, Counted, NEW t \in Threads, Step(t)
    PROVE  \A k \in Goners(t)' : k \in disk' /\ (k \in Goners(t) \/ ~Dead(k))
<1> SUFFICES ASSUME NEW k \in Goners(t)'
             PROVE  k \in disk' /\ (k \in Goners(t) \/ ~Dead(k))
  OBVIOUS
<1> DEFINE Done == k \in disk' /\ (k \in Goners(t) \/ ~Dead(k))
<1>0. /\ InOrder(t) /\ Goners(t) \subseteq disk
      /\ pc'[t] \in {"unlink", "point", "refund"} /\ k \in req'[t].held
      /\ pc'[t] = "refund" => k # Min(req'[t].held)
  BY DEF Removed, InOrder, Goners
<1>1. CASE Unlink(t)
  <2>1. pc[t] = "unlink" /\ Goners(t) = req[t].held
    BY <1>1 DEF Unlink, At, Goners
  <2>2. CASE disk' = disk \ {Min(req[t].held)} /\ Stayed(t, "refund")
    <3>1. k \in req[t].held /\ k # Min(req[t].held)
      BY <1>0, <2>2 DEF Stayed, Turned
    <3> QED
      BY <1>0, <2>1, <2>2, <3>1
  <2>3. CASE disk' = disk /\ DropsNext(t)
    <3>1. k \in req[t].held
      BY <1>0, <2>3 DEF DropsNext, Rested, Took, Turned
    <3> QED
      BY <1>0, <2>1, <2>3, <3>1
  <2> QED
    BY <1>1, <2>2, <2>3, Goes
<1>2. CASE Refund(t)
  <2>1. pc[t] = "refund" /\ Goners(t) = req[t].held \ {Min(req[t].held)} /\ disk' = disk
    BY <1>2, Frame DEF Refund, At, Goners
  <2>2. k \in req[t].held \ {Min(req[t].held)}
    <3>1. Dropped(t)
      BY <1>2 DEF Refund
    <3>2. CASE Finish(t)
      BY <1>0, <3>2, RestMoves DEF Rested
    <3>3. CASE req' = [req EXCEPT ![t].held = req[t].held \ {Min(req[t].held)}]
      <4>1. req'[t].held = req[t].held \ {Min(req[t].held)}
        BY <3>3, InHandIs DEF ThreadsOK, Request
      <4> QED
        BY <1>0, <4>1
    <3> QED
      BY <3>1, <3>2, <3>3, Zenon DEF Dropped
  <2> QED
    BY <1>0, <2>1, <2>2
<1>3. CASE Record(t)
  <2>1. pc[t] = "saved" /\ disk' = disk
    BY <1>3, Frame DEF Record, At
  <2>2. Dropping(t, {req[t].key})
    BY <1>0, <1>3, Goes DEF Stayed, Turned
  <2>3. k = req[t].key
    BY <1>0, <2>2 DEF Dropping, Rested, Took, Turned
  <2>4. Holding(t)
    BY <2>1 DEF Holding
  <2>5. k \in disk /\ ~Old(k)
    BY <2>3, <2>4 DEF Filed, BytesThere, Old
  <2> QED
    BY <2>1, <2>5 DEF Dead, Plain
<1>4. CASE Replace(t)
  <2>1. pc[t] = "saved" /\ disk' = disk /\ req[t].who \in Users
    BY <1>4, Frame, InHandIs DEF Replace, At, FitAt
  <2>2. CASE Took(t, "point", Displaced(req[t].who))
    <3>1. k = pic[req[t].who] /\ k # NoKey
      BY <1>0, <2>2 DEF Took, Turned, Displaced, Real
    <3>2. k \in Named
      BY <2>1, <3>1 DEF Named, Pictures, Real
    <3> QED
      BY <2>1, <3>1, <3>2 DEF Filed, BytesThere, NamedAreThere, Dead, Plain
  <2>3. CASE Dropping(t, {req[t].key})
    <3>1. k = req[t].key
      BY <1>0, <2>3 DEF Dropping, Rested, Took, Turned
    <3>2. Holding(t)
      BY <2>1 DEF Holding
    <3>3. k \in disk /\ ~Old(k)
      BY <3>1, <3>2 DEF Filed, BytesThere, Old
    <3> QED
      BY <2>1, <3>3 DEF Dead, Plain
  <2> QED
    BY <1>4, <2>2, <2>3, Goes
<1>5. CASE Point(t)
  <2>1. Goners(t) = req[t].held /\ disk' = disk
    BY <1>5, Frame DEF Point, At, Goners
  <2>2. k \in req[t].held
    BY <1>0, <1>5, Goes DEF Dropping, Rested, Took, Turned, Stayed
  <2> QED
    BY <1>0, <2>1, <2>2
<1>6. CASE Delete(t)
  <2>1. pc[t] = "delete" /\ disk' = disk
    BY <1>6, Frame DEF Delete, At
  <2>2. /\ Dropping(t, req[t].held)
        /\ \/ req[t].call = "delete" /\ req[t].msg \in msgs
           \/ req[t].call \in {"deletepost", "channel"}
    BY <1>0, <1>6, Goes DEF Rested
  <2>3. k \in req[t].held /\ req[t].msg \in msgs
    BY <1>0, <2>2 DEF Dropping, Rested, Took, Turned, InOrder
  <2>4. k \in Keys /\ row[k] = req[t].msg /\ msgs \subseteq Messages
    BY <1>0, <2>1, <2>3, InHandIs DEF InOrder, SharedOK
  <2>5. row[k] # NoRow
    BY <2>3, <2>4
  <2>6. k \in disk
    BY <2>4, <2>5 DEF Filed, BytesThere, NamedAreThere, Named, Attached
  <2> QED
    BY <2>1, <2>5, <2>6 DEF Dead
<1>7. CASE RereadFile(t)
  <2>1. Recorded(t)
    BY <1>7 DEF RereadFile, Recorded, At
  <2>2. row[req[t].key] # NoRow /\ ~Fails("reply")
    BY <1>0, <2>1 DEF InOrder, Orderly, Fails
  <2> QED
    BY <1>0, <1>7, <2>2, Goes DEF Rested
<1>8. CASE Recheck(t)
  <2>1. /\ IsFiniteSet(Active) /\ (\A u \in Threads : InOrder(u)) /\ used <= plan.total /\ used \in Int
        /\ plan \in Plans
    BY DEF Counted, Removed, Typed, TypeOK
  <2>2. plan.total \in Nat
    BY <2>1, PlansFit
  <2>3. ~(used > plan.total)
    BY <2>1, <2>2
  <2>4. pc'[t] = "saved"
    BY <1>8, <2>3, TypesAre DEF Typed, ThreadsOK, Recheck, Goto
  <2> QED
    BY <1>0, <2>4
<1>9. CASE WriteFile(t) \/ GiveBack(t) \/ Settle(t) \/ CreateRow(t) \/ RereadRow(t) \/ Claim(t)
           \/ ReadBack(t) \/ Announce(t) \/ Rollback(t)
  <2>1. req[t].call # "delivery"
    BY <1>0 DEF InOrder
  <2>2. pc'[t] \notin {"unlink", "point", "refund"}
    BY <1>9, <2>1, Goes DEF Rested, Stayed, Took, Turned
  <2> QED
    BY <1>0, <2>2
<1>10. CASE Upload(t) \/ SendMessage(t) \/ DeleteMessage(t)
  <2>1. Starts(t)
    BY <1>10 DEF Starts
  <2> QED
    BY <1>0, <2>1, StartsMove
<1> QED
  BY <1>0, <1>1, <1>2, <1>3, <1>4, <1>5, <1>6, <1>7, <1>8, <1>9, <1>10, OrderlySteps DEF OrderlyActs

\* No two threads are about to take the same file away, and it is there for them.
LEMMA GonersStay ==
    ASSUME Typed, Filed, Orderly, Removed, Counted, NEW t \in Threads, Step(t)
    PROVE  /\ \A u \in Threads : Goners(u)' \subseteq disk'
           /\ \A u, v \in Threads : u # v => Goners(u)' \cap Goners(v)' = {}
<1>1. \A u \in Threads \ {t} : Goners(u)' = Goners(u)
  BY OthersStay DEF Goners
<1>2. \A u \in Threads : \A k \in Goners(u) : Dead(k) /\ k \in disk
  <2> SUFFICES ASSUME NEW u \in Threads, NEW k \in Goners(u)
               PROVE  Dead(k) /\ k \in disk
    OBVIOUS
  <2>1. pc[u] \in {"unlink", "refund", "point"} /\ k \in req[u].held
    BY DEF Goners
  <2> QED
    BY <2>1, HeldAreOld DEF Removed, InOrder
<1>3. \A k \in Goners(t)' : k \in disk' /\ (k \in Goners(t) \/ ~Dead(k))
  BY GonersGo
<1>4. \A u \in Threads \ {t} : Goners(t)' \cap Goners(u) = {}
  BY <1>2, <1>3 DEF Removed
<1>5. \A k \in disk : k \notin disk' => k \in Goners(t)
  <2>1. CASE Unlink(t)
    <3>1. pc[t] = "unlink" /\ Goners(t) = req[t].held
      BY <2>1 DEF Unlink, At, Goners
    <3>2. Min(req[t].held) \in req[t].held
      BY <3>1, InHandIs, FirstHeld DEF FitAt
    <3>3. disk' = disk \/ disk' = disk \ {Min(req[t].held)}
      BY <2>1 DEF Unlink
    <3> QED
      BY <3>1, <3>2, <3>3
  <2>2. CASE ~Unlink(t)
    <3>1. disk \subseteq disk'
      BY <2>2, FilesActs, Frame DEF WriteFile
    <3> QED
      BY <3>1
  <2> QED
    BY <2>1, <2>2
<1>6. ASSUME NEW u \in Threads
      PROVE  Goners(u)' \subseteq disk'
  <2>1. CASE u = t
    BY <1>3, <2>1
  <2>2. CASE u # t
    <3>1. Goners(u)' = Goners(u) /\ Goners(u) \cap Goners(t) = {} /\ Goners(u) \subseteq disk
      BY <1>1, <1>2, <2>2 DEF Removed
    <3> QED
      BY <1>5, <3>1
  <2> QED
    BY <2>1, <2>2
<1>7. ASSUME NEW u \in Threads, NEW v \in Threads, u # v
      PROVE  Goners(u)' \cap Goners(v)' = {}
  BY <1>1, <1>4, <1>7 DEF Removed
<1> QED
  BY <1>6, <1>7

\* A row that is there stays, unless a send claims it or its message goes.
LEMMA RowsKeep ==
    ASSUME Typed, Filed, Orderly, Removed, NEW t \in Threads, Step(t), NEW k \in Keys, row[k] # NoRow
    PROVE  \/ row'[k] = row[k]
           \/ row[k] = Pending /\ SaysOf(t) /\ pc[t] = "claim" /\ k \in req[t].held
           \/ row[k] \in Messages /\ row[k] \notin msgs'
<1>1. row \in [Keys -> 0..(MaxMessages + 1)] /\ FitAt(pc[t], req[t]) /\ InOrder(t)
  BY InHandIs DEF SharedOK, Removed
<1>2. CASE Rollback(t)
  <2>1. req[t].call # "post" /\ req[t].call # "delivery" /\ req[t].msg \in Messages
    BY <1>1, <1>2 DEF Rollback, At, FitAt, InOrder
  <2>2. row' = row \/ (row' = Surviving({req[t].msg}) /\ msgs' = msgs \ {req[t].msg})
    BY <1>2, <2>1 DEF Rollback, DeleteRows
  <2> QED
    BY <1>1, <2>1, <2>2 DEF Surviving
<1>3. CASE Delete(t)
  <2>1. row' = row \/ (row' = Surviving({req[t].msg}) /\ msgs' = msgs \ {req[t].msg} /\ req[t].msg \in msgs)
    BY <1>1, <1>3 DEF Delete, DeleteRows, InOrder
  <2>2. msgs \subseteq Messages
    BY InHandIs DEF SharedOK
  <2> QED
    BY <1>1, <2>1, <2>2 DEF Surviving
<1>4. CASE Claim(t)
  <2>1. pc[t] = "claim" /\ SaysOf(t)
    BY <1>1, <1>4 DEF Claim, At, SaysOf, FitAt, InOrder, Saying
  <2>2. \/ row' = row
        \/ /\ row' = [j \in Keys |-> IF j \in req[t].held THEN req[t].msg ELSE row[j]]
           /\ \A j \in req[t].held : row[j] = Pending
    BY <1>4 DEF Claim, Claimable
  <2> QED
    BY <1>1, <2>1, <2>2
<1>5. CASE Record(t)
  <2>1. Holding(t)
    BY <1>5 DEF Record, At, Holding
  <2>2. row[req[t].key] = NoRow
    BY <2>1, KindIs DEF Filed
  <2>3. row' = row \/ row' = [row EXCEPT ![req[t].key] = Pending]
    BY <1>5, Goes
  <2> QED
    BY <1>1, <2>2, <2>3
<1>6. CASE row' = row
  BY <1>6
<1> QED
  BY <1>1, <1>2, <1>3, <1>4, <1>5, <1>6, Frame, OrderlySteps DEF OrderlyActs

\* Messages are numbered upwards.
LEMMA WrittenGrows ==
    ASSUME Typed, Filed, Orderly, Removed, NEW t \in Threads, Step(t)
    PROVE  written <= written' /\ \A m \in msgs' : m \in msgs \/ m > written
<1>1. written \in 0..MaxMessages /\ InOrder(t)
  BY InHandIs DEF SharedOK, Removed
<1>2. CASE CreateRow(t)
  <2>1. \/ UNCHANGED <<written, msgs>>
        \/ written' = written + 1 /\ msgs' = msgs \cup {written + 1}
    BY <1>2, Goes
  <2> QED
    BY <1>1, <2>1
<1>3. CASE Rollback(t) \/ Delete(t)
  <2>1. written' = written /\ msgs' \subseteq msgs
    BY <1>3 DEF Rollback, Delete, DeleteRows, Drop, Finish, Goto
  <2> QED
    BY <1>1, <2>1
<1>4. CASE UNCHANGED <<written, msgs>>
  BY <1>1, <1>4
<1> QED
  BY <1>1, <1>2, <1>3, <1>4, Frame, OrderlySteps DEF OrderlyActs

\* What the others were given on their way stays right.
LEMMA OrderOthers ==
    ASSUME Typed, Filed, Orderly, Removed, Counted, NEW t \in Threads, Step(t), NEW u \in Threads \ {t}
    PROVE  InOrder(u)'
<1>1. pc'[u] = pc[u] /\ req'[u] = req[u] /\ InOrder(u)
  BY OthersStay DEF Removed
<1>2. req[u].held \subseteq Keys /\ FitAt(pc[u], req[u]) /\ written \in 0..MaxMessages
      /\ req[u].msg \in 0..MaxMessages /\ msgs \subseteq Messages
  BY InHandIs DEF SharedOK
<1>3. pc[u] = "settle" => size'[req[u].key] = size[req[u].key]
  BY HeldAreOld, SizesStay
<1>4. pc[u] = "delete" => req[u].msg <= written'
  <2>1. written <= written' /\ written' \in 0..MaxMessages
    BY WrittenGrows, MessagesStep DEF MessagesOK
  <2> QED
    BY <1>1, <1>2, <2>1 DEF InOrder
<1>5. ASSUME pc[u] = "delete", req[u].msg \in msgs', NEW k \in req[u].held
      PROVE  row'[k] = req[u].msg
  <2>1. req[u].msg <= written
    BY <1>1, <1>5 DEF InOrder
  <2>2. req[u].msg \in msgs
    BY <1>2, <1>5, <2>1, WrittenGrows
  <2>3. row[k] = req[u].msg /\ k \in Keys
    BY <1>1, <1>2, <1>5, <2>2 DEF InOrder
  <2>4. row[k] # NoRow /\ row[k] # Pending
    BY <1>2, <2>2, <2>3
  <2> QED
    BY <1>5, <2>3, <2>4, RowsKeep
<1>6. ASSUME Recorded(u)
      PROVE  row'[req[u].key] = Pending
  <2>1. req[u].key \in Keys /\ row[req[u].key] = Pending
    BY <1>1, <1>2, <1>6 DEF Recorded, FitAt, InOrder, Uploading
  <2>2. ~(SaysOf(t) /\ req[u].key \in req[t].held)
    BY <1>6 DEF Removed
  <2>3. row[req[u].key] # NoRow /\ row[req[u].key] \notin Messages
    BY <2>1
  <2> QED
    BY <2>1, <2>2, <2>3, RowsKeep
<1>7. SaysOf(u) => \A k \in req[u].held : Old(k)'
  BY <1>1, <1>2, OldStays DEF Filed, InOrder
<1>8. Goners(u)' \subseteq disk'
  BY GonersStay
<1> QED
  BY <1>1, <1>3, <1>4, <1>5, <1>6, <1>7, <1>8 DEF InOrder, SaysOf, Recorded

\* Who begins to send names files that were answered: they are in nobody's hands.
LEMMA SendNames ==
    ASSUME Typed, Removed, NEW t \in Threads, SendMessage(t)
    PROVE  \A k \in req'[t].held : k \in Keys /\ Old(k) /\ \A u \in Threads : req[u].key # k
<1>1. SharedOK /\ ThreadsOK /\ "create" \in Steps
  BY TypesAre DEF Typed, Steps
<1>2. PICK u \in members, ids \in SUBSET Keys, p \in posts \cup {NoMessage} :
        /\ \A k \in ids : Told(u, k)
        /\ Begin(t, "send", "create", [NoRequest EXCEPT !.who = u, !.held = ids, !.msg = p])
  BY DEF SendMessage
<1>3. u \in Users /\ p \in 0..MaxMessages /\ plan \in Plans
  BY <1>1 DEF SharedOK
<1>4. Begun(t, "create", "send", u, 0, p, ids, {})
  BY <1>2, <1>3, BeginIs
<1>5. req'[t].held = ids
  BY <1>1, <1>4, BegunMoves DEF Is
<1>6. \A k \in ids : owner[k] # NoUser /\ k \in Keys /\ \A v \in Threads : req[v].key # k
  BY <1>2, <1>3 DEF Told
<1> QED
  BY <1>5, <1>6 DEF Removed

\* Which files a send names it knows from the beginning.
LEMMA SaysGo ==
    ASSUME Typed, Orderly, Removed, NEW t \in Threads, Step(t), SaysOf(t)'
    PROVE  SendMessage(t) \/ (SaysOf(t) /\ req'[t].held = req[t].held)
<1>1. InOrder(t) /\ pc'[t] \in {"create", "reread", "claim"} /\ req'[t].call = "send"
      /\ FitAt(pc[t], req[t])
  BY InHandIs DEF Removed, SaysOf
<1>2. CASE CreateRow(t) \/ RereadRow(t)
  <2>1. req[t].call # "delivery"
    BY <1>1 DEF InOrder
  <2>2. pc[t] \in {"create", "reread"}
    BY <1>2, <2>1 DEF CreateRow, RereadRow, At
  <2>3. \/ Rested(t)
        \/ req'[t].call = req[t].call /\ req'[t].held = req[t].held
    BY <1>2, <2>1, Goes DEF Stayed, Turned
  <2> QED
    BY <1>1, <2>2, <2>3 DEF SaysOf, Rested
<1>3. CASE Record(t)
  <2>1. req[t].call = "attach" /\ (Rested(t) \/ req'[t].call = req[t].call)
    BY <1>3, Goes DEF Record, Dropping, Stayed, Took, Turned
  <2> QED
    BY <1>1, <2>1 DEF Rested
<1>4. CASE WriteFile(t) \/ GiveBack(t) \/ Settle(t) \/ Recheck(t) \/ Unlink(t) \/ Refund(t)
           \/ RereadFile(t) \/ Replace(t) \/ Point(t) \/ Claim(t) \/ ReadBack(t) \/ Announce(t)
           \/ Rollback(t) \/ Delete(t)
  <2>1. pc'[t] \notin {"create", "reread", "claim"}
    BY <1>4, Goes DEF Dropping, DropsNext, Rested, Stayed, Took, Turned
  <2> QED
    BY <1>1, <2>1
<1>5. CASE Upload(t) \/ DeleteMessage(t)
  <2>1. pc'[t] \notin {"create", "reread", "claim"}
    <3>1. SharedOK /\ ThreadsOK /\ "write" \in Steps /\ "delete" \in Steps
      BY TypesAre DEF Typed, Steps
    <3>2. pc'[t] = "write" \/ pc'[t] = "delete"
      BY <1>5, <3>1, Begins, BegunMoves
    <3> QED
      BY <3>2
  <2> QED
    BY <1>1, <2>1
<1> QED
  BY <1>1, <1>2, <1>3, <1>4, <1>5, OrderlySteps DEF OrderlyActs

\* A file that is waiting to be read back was recorded by the step before.
LEMMA RecordedGo ==
    ASSUME Typed, Filed, Orderly, Removed, NEW t \in Threads, Step(t), Recorded(t)'
    PROVE  Record(t) /\ Holding(t) /\ req'[t].key = req[t].key /\ row'[req[t].key] = Pending
           /\ req[t].key \in Keys
<1>1. InOrder(t) /\ pc'[t] = "reread" /\ req'[t].call = "attach"
  BY DEF Removed, Recorded
<1>2. CASE Record(t)
  <2>1. row' = [row EXCEPT ![req[t].key] = Pending] /\ req'[t].key = req[t].key
    BY <1>1, <1>2, Goes DEF Stayed, Turned, Dropping, Rested, Took
  <2>2. Holding(t)
    BY <1>2 DEF Record, At, Holding
  <2>3. req[t].key \in Keys /\ row \in [Keys -> 0..(MaxMessages + 1)]
    BY <2>2, KindIs, InHandIs DEF Filed, SharedOK
  <2> QED
    BY <1>2, <2>1, <2>2, <2>3
<1>3. CASE CreateRow(t)
  <2>1. req[t].call \in Saying
    <3>1. pc[t] = "create"
      BY <1>1, <1>3 DEF CreateRow, At, InOrder
    <3> QED
      BY <3>1, InHandIs DEF FitAt
  <2>2. Rested(t) \/ req'[t].call = req[t].call
    BY <1>3, <2>1, Goes DEF Turned, Saying
  <2> QED
    BY <1>1, <2>1, <2>2 DEF Rested, Saying
<1>4. CASE WriteFile(t) \/ GiveBack(t) \/ Settle(t) \/ Recheck(t) \/ Unlink(t) \/ Refund(t)
           \/ RereadFile(t) \/ Replace(t) \/ Point(t) \/ Claim(t) \/ ReadBack(t) \/ Announce(t)
           \/ Rollback(t) \/ Delete(t) \/ RereadRow(t)
  <2>1. pc'[t] # "reread"
    BY <1>1, <1>4, Goes DEF Dropping, DropsNext, Rested, Stayed, Took, Turned, InOrder
  <2> QED
    BY <1>1, <2>1
<1>5. CASE Upload(t) \/ SendMessage(t) \/ DeleteMessage(t)
  <2>1. pc'[t] # "reread"
    BY <1>5, StartsMove DEF Starts
  <2> QED
    BY <1>1, <2>1
<1> QED
  BY <1>1, <1>2, <1>3, <1>4, <1>5, OrderlySteps DEF OrderlyActs

\* Where t is after its step, and with what request.
LEMMA PlaceMoves ==
    ASSUME Typed, Orderly, Removed, NEW t \in Threads, Step(t)
    PROVE  /\ pc'[t] \in Steps \ {"unpicture", "clear", "saveicon", "purge", "unsay", "forget", "sweep"}
           /\ req'[t].call \in {"idle", "attach", "send", "delete", "picture"} /\ req'[t].stale = {}
<1>0. InOrder(t) /\ members = Users /\ FitAt(pc[t], req[t]) /\ SharedOK /\ ThreadsOK
  BY InHandIs DEF Removed
<1> DEFINE Away == {"unpicture", "clear", "saveicon", "purge", "unsay", "forget", "sweep"}
           Calls == {"idle", "attach", "send", "delete", "picture"}
<1>1. pc'[t] \in Steps
  <2>1. PICK p \in Steps, r \in Request : Moved(t, p, r)
    BY StepMoves DEF Moves
  <2> QED
    BY <1>0, <2>1, MovedIs
<1>2. CASE WriteFile(t) \/ GiveBack(t) \/ Settle(t) \/ Recheck(t) \/ Unlink(t) \/ Refund(t)
           \/ Record(t) \/ RereadFile(t) \/ Replace(t) \/ CreateRow(t) \/ RereadRow(t) \/ Claim(t)
           \/ ReadBack(t) \/ Announce(t) \/ Rollback(t) \/ Delete(t)
  <2> DEFINE Goal == Rested(t) \/ (pc'[t] \notin Away /\ req'[t].call = req[t].call /\ req'[t].stale = {})
  <2>a. req[t].stale = {}
    BY <1>0 DEF InOrder
  <2>b. ASSUME WriteFile(t) \/ GiveBack(t) \/ Settle(t) \/ Recheck(t) \/ Unlink(t) \/ Refund(t)
        PROVE  Goal
    BY <2>a, <2>b, Goes DEF Dropping, DropsNext, Stayed, Took, Turned
  <2>c. ASSUME Record(t) \/ RereadFile(t) \/ Replace(t) \/ CreateRow(t) \/ RereadRow(t) \/ Rollback(t)
        PROVE  Goal
    BY <2>a, <2>c, Goes DEF Dropping, Stayed, Took, Turned
  <2>d. ASSUME Claim(t) \/ ReadBack(t) \/ Announce(t) \/ Delete(t)
        PROVE  Goal
    BY <2>a, <2>d, Goes DEF Dropping, Stayed, Took, Turned
  <2>1. Goal
    BY <1>2, <2>b, <2>c, <2>d
  <2> QED
    BY <1>0, <1>1, <2>1 DEF Rested, NoRequest, InOrder
<1>3. CASE Point(t)
  <2>1. ~(req[t].who \notin members) /\ ~Fails("store")
    BY <1>0, <1>3 DEF Point, At, FitAt, Orderly, Fails
  <2>2. Drop(t, req[t].held)
    BY <1>3, <2>1 DEF Point
  <2>3. Dropping(t, req[t].held)
    BY <2>2, InHandIs, DropsMove
  <2> QED
    BY <1>0, <1>1, <2>3 DEF Dropping, Rested, Took, Turned, NoRequest, InOrder
<1>4. CASE SendMessage(t)
  <2>1. PICK u \in members, ids \in SUBSET Keys, p \in posts \cup {0} :
            Begun(t, "create", "send", u, 0, p, ids, {})
    BY <1>0, <1>4, Begins
  <2>2. pc'[t] = "create" /\ req'[t].call = "send" /\ req'[t].stale = {}
    BY <1>0, <2>1, BegunMoves DEF Is, Steps
  <2> QED
    BY <1>1, <2>2
<1>5. CASE DeleteMessage(t)
  <2>1. PICK m \in msgs : Begun(t, "delete", "delete", NoUser, 0, m, Carried(m), {})
    BY <1>0, <1>5, Begins
  <2>2. pc'[t] = "delete" /\ req'[t].call = "delete" /\ req'[t].stale = {}
    BY <1>0, <2>1, BegunMoves DEF Is, Steps
  <2> QED
    BY <1>1, <2>2
<1>6. CASE Upload(t)
  <2>1. PICK c \in {"attach", "picture", "icon", "delivery"}, u \in members \cup {NoUser}, n \in 1..plan.file :
            c \in plan.calls /\ Begin(t, c, "write", [NoRequest EXCEPT !.who = u, !.reserved = n])
    <3>1. plan.file \in 1..plan.file
      BY <1>0, PlanIs DEF SharedOK
    <3> QED
      BY <1>6, <3>1 DEF Upload, Reserve, Begin
  <2>2. u \in Users \cup {NoUser} /\ n \in 0..MaxFile /\ plan \in Plans
    BY <1>0, PlanIs DEF SharedOK
  <2>3. Begun(t, "write", c, u, n, 0, {}, {})
    BY <2>1, <2>2, BeginIs
  <2>4. pc'[t] = "write" /\ req'[t].call = c /\ req'[t].stale = {}
    BY <1>0, <2>3, BegunMoves DEF Is, Steps
  <2>5. c \in Calls
    BY <2>1 DEF Orderly
  <2> QED
    BY <1>1, <2>4, <2>5
<1> QED
  BY <1>2, <1>3, <1>4, <1>5, <1>6, OrderlySteps, <1>0 DEF OrderlyActs

\* What t was given on its way is right after its step.
LEMMA OrderMoves ==
    ASSUME Typed, Filed, Orderly, Removed, Counted, NEW t \in Threads, Step(t)
    PROVE  InOrder(t)'
<1>0. InOrder(t) /\ SharedOK /\ ThreadsOK
  BY TypesAre DEF Typed, Removed
<1>1. ASSUME pc'[t] = "settle"
      PROVE  size'[req'[t].key] <= req'[t].reserved
  <2>1. WriteFile(t)
    <3>1. ~Starts(t)
      BY <1>1, StartsMove
    <3>2. ~(GiveBack(t) \/ Settle(t) \/ Recheck(t) \/ Unlink(t) \/ Refund(t)
            \/ Record(t) \/ RereadFile(t) \/ Replace(t) \/ Point(t) \/ CreateRow(t) \/ RereadRow(t)
            \/ Claim(t) \/ ReadBack(t) \/ Announce(t) \/ Rollback(t) \/ Delete(t))
      BY <1>1, Goes DEF Dropping, DropsNext, Rested, Stayed, Took, Turned
    <3> QED
      BY <1>0, <3>1, <3>2, OrderlySteps DEF OrderlyActs, Starts
  <2>2. /\ minted < MaxKeys /\ req'[t].key = minted + 1 /\ req'[t].reserved = req[t].reserved
        /\ \E n \in 1..MaxFile : n <= req[t].reserved + plan.overrun /\ size' = [size EXCEPT ![minted + 1] = n]
    BY <1>1, <2>1, Goes DEF Turned, Stayed
  <2>3. PICK n \in 1..MaxFile : n <= req[t].reserved + plan.overrun /\ size' = [size EXCEPT ![minted + 1] = n]
    BY <2>2
  <2>4. minted + 1 \in Keys /\ size \in [Keys -> 0..MaxFile] /\ req[t].reserved \in 0..MaxFile
    <3>1. minted \in 0..MaxKeys /\ size \in [Keys -> 0..MaxFile]
      BY <1>0 DEF SharedOK
    <3>2. req[t].reserved \in 0..MaxFile
      BY InHandIs
    <3> QED
      BY <2>2, <3>1, <3>2
  <2>5. size'[minted + 1] = n /\ n <= req[t].reserved
    BY <2>3, <2>4 DEF Orderly
  <2> QED
    BY <2>2, <2>5
<1>2. ASSUME pc'[t] = "delete"
      PROVE  /\ req'[t].msg <= written'
             /\ req'[t].msg \in msgs' => \A k \in req'[t].held : row'[k] = req'[t].msg
  <2>1. DeleteMessage(t)
    <3>1. ~(Upload(t) \/ SendMessage(t))
      <4>1. ThreadsOK /\ SharedOK /\ "write" \in Steps /\ "create" \in Steps
        BY <1>0 DEF Steps
      <4> QED
        BY <1>2, <4>1, Begins, BegunMoves
    <3>2. ~(WriteFile(t) \/ GiveBack(t) \/ Settle(t) \/ Recheck(t) \/ Unlink(t) \/ Refund(t)
            \/ Record(t) \/ RereadFile(t) \/ Replace(t) \/ Point(t) \/ CreateRow(t) \/ RereadRow(t)
            \/ Claim(t) \/ ReadBack(t) \/ Announce(t) \/ Rollback(t) \/ Delete(t))
      BY <1>2, Goes DEF Dropping, DropsNext, Rested, Stayed, Took, Turned
    <3> QED
      BY <1>0, <3>1, <3>2, OrderlySteps DEF OrderlyActs
  <2>2. PICK m \in msgs : Begun(t, "delete", "delete", NoUser, 0, m, Carried(m), {})
    BY <1>0, <2>1, Begins
  <2>3. req'[t].msg = m /\ req'[t].held = Carried(m)
    BY <1>0, <2>2, BegunMoves DEF Is, Steps
  <2>4. UNCHANGED <<written, row>> /\ m <= written
    BY <2>1, Frame DEF Filed, Kind, RowsOfMessages
  <2> QED
    BY <2>3, <2>4 DEF Carried
<1>3. Recorded(t)' => row'[req'[t].key] = Pending
  BY RecordedGo
<1>4. SaysOf(t)' => \A k \in req'[t].held : Old(k)'
  <2> SUFFICES ASSUME SaysOf(t)', NEW k \in req'[t].held
               PROVE  Old(k)'
    OBVIOUS
  <2>1. k \in Keys /\ Old(k)
    <3>1. CASE SendMessage(t)
      BY <3>1, SendNames
    <3>2. CASE SaysOf(t) /\ req'[t].held = req[t].held
      BY <1>0, <3>2, InHandIs DEF InOrder
    <3> QED
      BY <3>1, <3>2, SaysGo
  <2> QED
    BY <2>1, OldStays DEF Filed
<1>5. Goners(t)' \subseteq disk'
  BY GonersStay
<1> QED
  BY <1>1, <1>2, <1>3, <1>4, <1>5, PlaceMoves DEF InOrder

\* The invariant of such a deployment is kept.
LEMMA RemovedStep ==
    ASSUME Typed, Filed, Orderly, Removed, Counted, NEW t \in Threads, Step(t)
    PROVE  Removed'
<1>0. \A u \in Threads \ {t} : pc'[u] = pc[u] /\ req'[u] = req[u]
  BY OthersStay
<1>1. members' = Users
  <2>1. members' = members
    BY Frame, OrderlySteps DEF Removed, OrderlyActs
  <2> QED
    BY <2>1 DEF Removed
<1>2. \A u \in Threads : InOrder(u)'
  BY OrderOthers, OrderMoves
<1>3. ASSUME NEW u \in Threads, NEW v \in Threads, SaysOf(u)', Recorded(v)'
      PROVE  req'[v].key \notin req'[u].held
  <2>1. u # v
    BY <1>3 DEF SaysOf, Recorded
  <2>2. CASE u = t
    <3>1. Recorded(v) /\ req'[v].key = req[v].key
      BY <1>0, <1>3, <2>1, <2>2 DEF Recorded
    <3>2. CASE SendMessage(t)
      BY <2>2, <3>1, <3>2, SendNames
    <3>3. CASE SaysOf(t) /\ req'[t].held = req[t].held
      BY <2>2, <3>1, <3>3 DEF Removed
    <3> QED
      BY <1>3, <2>2, <3>2, <3>3, SaysGo
  <2>3. CASE v = t
    <3>1. Holding(t) /\ req'[t].key = req[t].key
      BY <1>3, <2>3, RecordedGo
    <3>2. SaysOf(u) /\ req'[u].held = req[u].held
      BY <1>0, <1>3, <2>1, <2>3 DEF SaysOf
    <3>3. \A k \in req[u].held : Old(k)
      BY <3>2 DEF Removed, InOrder
    <3> QED
      BY <2>3, <3>1, <3>2, <3>3 DEF Old
  <2>4. CASE u # t /\ v # t
    <3>1. SaysOf(u) /\ Recorded(v) /\ req'[v].key = req[v].key /\ req'[u].held = req[u].held
      BY <1>0, <1>3, <2>4 DEF SaysOf, Recorded
    <3> QED
      BY <3>1 DEF Removed
  <2> QED
    BY <2>2, <2>3, <2>4
<1>4. ASSUME NEW k \in Keys, owner'[k] # NoUser
      PROVE  Old(k)'
  <2>1. CASE owner'[k] = owner[k]
    BY <1>4, <2>1, OldStays DEF Removed, Filed
  <2>2. CASE owner'[k] # owner[k]
    <3>1. owner \in [Keys -> Users \cup {NoUser}]
      BY InHandIs DEF SharedOK
    <3>2. Record(t)
      BY <2>2, Frame, OrderlySteps DEF Removed, OrderlyActs
    <3>3. k = req[t].key /\ Goto(t, "reread") /\ UNCHANGED req
      BY <2>2, <3>1, <3>2 DEF Record
    <3>4. Holding(t) /\ pc'[t] = "reread" /\ req[t].call = "attach" /\ req'[t].call = "attach"
      BY <3>2, <3>3, TypesAre DEF Record, At, Holding, Goto, Typed, ThreadsOK
    <3>5. ~Holding(t)'
      BY <3>4 DEF Holding
    <3> QED
      BY <3>3, <3>4, <3>5, OldStays DEF Filed
  <2> QED
    BY <2>1, <2>2
<1>5. \A u, v \in Threads : u # v => Goners(u)' \cap Goners(v)' = {}
  BY GonersStay
<1> QED
  BY <1>1, <1>2, <1>3, <1>4, <1>5 DEF Removed

\* Both hold at the start.
LEMMA OrderlyInit ==
    ASSUME Init
    PROVE  Counted /\ Removed
<1>1. \A t \in Threads : pc[t] = "idle" /\ req[t] = NoRequest
  BY DEF Init
<1>2. Active = {}
  BY <1>1 DEF Active
<1>3. IsFiniteSet({}) /\ Sum(Due, {}) = 0 /\ Sum(size, {}) = 0
  BY FS_EmptySet, SumTaken
<1>4. Bytes(disk) = 0
  BY <1>3, TypedInit, TypesAre, BytesSum DEF Init, Typed
<1>5. plan.total \in Nat
  BY PlansFit DEF Init
<1>6. Counted
  BY <1>2, <1>3, <1>4, <1>5 DEF Counted, Init
<1>7. \A t \in Threads : InOrder(t) /\ Goners(t) = {} /\ ~SaysOf(t) /\ ~Recorded(t)
  BY <1>1 DEF InOrder, Goners, SaysOf, Recorded, NoRequest, Steps
<1>8. \A k \in Keys : owner[k] = NoUser
  BY DEF Init
<1> QED
  BY <1>6, <1>7, <1>8 DEF Removed, Init

-----------------------------------------------------------------------------
(* The counter of the quota and what is named                               *)

\* Requests come one after the other, and nothing fails.
Calm == plan.inFlight = 1 /\ plan.failures = {} /\ "purge" \notin plan.calls

\* The files the counter knows of although nothing names them, because t has them in
\* hand; and the room t has reserved and not used.
Extra(t) ==
    IF pc[t] \in {"recheck", "saved"} \/ (req[t].call = "delivery" /\ pc[t] \in {"reread", "claim", "rollback"})
    THEN {req[t].key}
    ELSE IF pc[t] \in {"unlink", "refund", "point", "saveicon"} THEN req[t].held
    ELSE {}
Reserves(t) == IF pc[t] \in {"write", "giveback", "settle"} THEN req[t].reserved ELSE 0

\* The files t has in hand that are on the disk.
OnDisk(t) ==
    IF pc[t] = "settle" THEN {req[t].key}
    ELSE IF pc[t] = "refund" THEN req[t].held \ {Min(req[t].held)}
    ELSE Extra(t)

Books(t) == used = Bytes(Named \cup Extra(t)) + Reserves(t)
Booked == (Idle => used = Bytes(Named)) /\ \A t \in Active : Books(t)

Shelves(t) == disk = Named \cup OnDisk(t)
Shelved == (Idle => disk = Named) /\ \A t \in Active : Shelves(t)

\* A user points at their picture, unless their own request is about to see to it.
Points(t) == \A u \in Users : shown[u] # pic[u] => pc[t] \in {"point", "unpicture", "clear"} /\ req[t].who = u
Pointed == (Idle => shown = pic) /\ \A t \in Active : Points(t)

\* The rows a deletion takes.
Going(t) ==
    IF req[t].call = "delete" THEN {req[t].msg}
    ELSE IF req[t].call = "deletepost" THEN Threaded(req[t].msg)
    ELSE Messages \cup {Pending}

\* The message of t has no file, and if it is a post no comment.
Fresh(t) ==
    /\ \A k \in Keys : row[k] # req[t].msg
    /\ req[t].call = "post" => Threaded(req[t].msg) \subseteq {req[t].msg}

\* What a request that is served alone finds as it left it.
Served(t) ==
    /\ pc[t] \notin {"purge", "unsay", "forget"}
    /\ pc[t] \in {"write", "settle", "recheck", "saved"} => req[t].msg = NoMessage
    /\ pc[t] = "reread" => IF req[t].call = "attach" THEN row[req[t].key] # NoRow ELSE Fresh(t)
    /\ pc[t] \in {"claim", "rollback"} => Fresh(t)
    /\ pc[t] = "readback" /\ req[t].call = "delivery" => row[req[t].key] # NoRow
    /\ pc[t] = "clear" => req[t].held = {pic[req[t].who]} /\ pic[req[t].who] # NoKey
    /\ pc[t] \in {"unpicture", "clear"} => shown[req[t].who] = NoKey
    /\ pc[t] = "point" => pic[req[t].who] = req[t].key
    /\ pc[t] = "delete" => req[t].held = {k \in Keys : row[k] \in Going(t)}
    /\ pc[t] = "saveicon" => icon = req[t].key /\ req[t].held = Real({savedIcon}) /\ req[t].held \subseteq disk

\* What is written has a number that was given out.
Numbered ==
    /\ \A m \in msgs : m <= written /\ thread[m] <= written
    /\ \A p \in posts : p <= written
    /\ \A k \in disk : k <= minted

Alone == \A t, u \in Active : t = u
InTurn ==
    /\ Alone /\ members = Users
    /\ Numbered
    /\ \A t \in Threads : Served(t)
    /\ (\A t \in Active : pc[t] # "saveicon") => icon = savedIcon

\* Where requests begin.
LEMMA StartsAt ==
    ASSUME Typed, NEW t \in Threads
    PROVE  /\ Upload(t) => pc'[t] = "write"
           /\ ClearPicture(t) => pc'[t] = "unpicture"
           /\ ClearIcon(t) => pc'[t] = "saveicon"
           /\ SendMessage(t) \/ CreatePost(t) => pc'[t] = "create"
           /\ DeleteMessage(t) \/ DeletePost(t) \/ DeleteChannel(t) => pc'[t] = "delete"
           /\ Sweep(t) => pc'[t] = "sweep"
           /\ Starts(t) => pc[t] = "idle"
<1>1. SharedOK /\ ThreadsOK /\ {"write", "unpicture", "saveicon", "create", "delete", "sweep"} \subseteq Steps
  BY TypesAre DEF Typed, Steps
<1>2. Upload(t) => pc'[t] = "write"
  BY <1>1, Begins, BegunMoves
<1>3. ClearPicture(t) => pc'[t] = "unpicture"
  BY <1>1, Begins, BegunMoves
<1>4. ClearIcon(t) => pc'[t] = "saveicon"
  BY <1>1, Begins, BegunMoves
<1>5. SendMessage(t) \/ CreatePost(t) => pc'[t] = "create"
  BY <1>1, Begins, BegunMoves
<1>6. DeleteMessage(t) \/ DeletePost(t) \/ DeleteChannel(t) => pc'[t] = "delete"
  BY <1>1, Begins, BegunMoves
<1>7. Sweep(t) => pc'[t] = "sweep"
  BY <1>1, Begins, BegunMoves
<1>8. Starts(t) => pc[t] = "idle"
  BY DEF Starts, Upload, Reserve, ClearPicture, ClearIcon, SendMessage, CreatePost, DeleteMessage, DeletePost,
         DeleteChannel, Purge, Sweep, Begin, At
<1> QED
  BY <1>2, <1>3, <1>4, <1>5, <1>6, <1>7, <1>8

\* Who begins finds nobody else at work; and whoever goes on is the only one.
LEMMA AloneStep ==
    ASSUME Typed, Calm, Alone, NEW t \in Threads, Step(t)
    PROVE  (\A u \in Threads \ {t} : pc[u] = "idle" /\ pc'[u] = "idle") /\ Alone'
<1>1. ASSUME NEW u \in Threads \ {t}
      PROVE  pc[u] = "idle"
  <2> SUFFICES ASSUME pc[u] # "idle"
               PROVE  FALSE
    OBVIOUS
  <2>1. u \in Active /\ Active = {u}
    BY DEF Active, Alone
  <2>2. CASE Starts(t)
    <3>1. Cardinality({s \in Threads : ~At(s, "idle")}) < 1
      BY <2>2 DEF Starts, Upload, Reserve, ClearPicture, ClearIcon, SendMessage, CreatePost, DeleteMessage,
                  DeletePost, DeleteChannel, Purge, Sweep, Begin, Calm
    <3>2. {s \in Threads : ~At(s, "idle")} = {u}
      BY <2>1 DEF At, Active
    <3>3. Cardinality({u}) = 1
      BY FS_Singleton
    <3> QED
      BY <3>1, <3>2, <3>3
  <2>3. CASE ~Starts(t)
    <3>1. pc[t] # "idle"
      BY <2>3 DEF Step, Starts, WriteFile, GiveBack, Settle, Recheck, Unlink, Refund,
             Record, RereadFile, Replace, Point, ReadHeld, ClearMedia, SetServerIcon, SaveIcon, CreateRow,
             RereadRow, Claim, Bind, ReadBack, Announce, Rollback, Delete, PurgePosts, PurgeMessages,
             ForgetUser, SweepNext, At
    <3> QED
      BY <2>1, <3>1 DEF Active
  <2> QED
    BY <2>2, <2>3
<1>2. \A u \in Threads \ {t} : pc'[u] = pc[u]
  BY OthersStay
<1>3. Alone'
  BY <1>1, <1>2 DEF Alone, Active
<1> QED
  BY <1>1, <1>2, <1>3

\* A thread that has files to drop has them in hand, or had none.
LEMMA DropsExtra ==
    ASSUME Typed, NEW t \in Threads, NEW ks \in SUBSET Keys, Drop(t, ks)
    PROVE  Extra(t)' = ks /\ Reserves(t)' = 0 /\ pc'[t] \in {"idle", "unlink"}
<1>1. CASE ks = {}
  <2>1. Rested(t)
    BY <1>1, RestMoves DEF Drop
  <2> QED
    BY <1>1, <2>1 DEF Rested, Extra, Reserves, NoRequest
<1>2. CASE ks # {}
  <2>1. Goto(t, "unlink") /\ req' = [req EXCEPT ![t].held = ks] /\ "unlink" \in Steps
    BY <1>2 DEF Drop, Steps
  <2>2. Took(t, "unlink", ks)
    BY <2>1, TakeMoves
  <2> QED
    BY <2>2 DEF Took, Turned, Extra, Reserves
<1> QED
  BY <1>1, <1>2

\* By which step a request comes to another.
LEMMA Arrivals ==
    ASSUME Typed, NEW t \in Threads, Step(t)
    PROVE  /\ pc'[t] = "reread" => Record(t) \/ CreateRow(t)
           /\ pc'[t] = "claim" => RereadRow(t)
           /\ pc'[t] = "rollback" => Claim(t) \/ Bind(t) \/ ReadBack(t)
           /\ pc'[t] = "readback" => Claim(t) \/ Bind(t)
           /\ pc'[t] = "clear" => ReadHeld(t)
           /\ pc'[t] = "unpicture" => ClearPicture(t) \/ Point(t)
           /\ pc'[t] = "point" => Replace(t)
           /\ pc'[t] = "delete" => DeleteMessage(t) \/ DeletePost(t) \/ DeleteChannel(t)
           /\ pc'[t] = "saveicon" => SetServerIcon(t) \/ ClearIcon(t)
           /\ pc'[t] \in {"purge", "unsay", "forget"} => Purge(t) \/ PurgePosts(t) \/ PurgeMessages(t)
<1> DEFINE Far == {"reread", "claim", "rollback", "readback", "clear", "unpicture", "point", "delete",
                   "saveicon", "purge", "unsay", "forget"}
<1>1. CASE WriteFile(t) \/ GiveBack(t) \/ Settle(t) \/ Recheck(t) \/ Unlink(t) \/ Refund(t)
  <2>1. pc'[t] \notin Far
    BY <1>1, Goes DEF Dropping, DropsNext, Rested, Stayed, Took, Turned
  <2> QED
    BY <2>1
<1>2. CASE RereadFile(t) \/ ClearMedia(t) \/ SaveIcon(t) \/ Announce(t)
           \/ Rollback(t) \/ Delete(t) \/ ForgetUser(t) \/ SweepNext(t)
  <2>1. pc'[t] \notin Far
    BY <1>2, Goes DEF Dropping, Rested, Stayed, Took, Turned
  <2> QED
    BY <2>1
<1>3. CASE Record(t) \/ Replace(t) \/ Point(t) \/ ReadHeld(t) \/ SetServerIcon(t)
  <2>1. /\ Record(t) => pc'[t] \notin Far \ {"reread"}
        /\ Replace(t) => pc'[t] \notin Far \ {"point"}
        /\ Point(t) => pc'[t] \notin Far \ {"unpicture"}
        /\ ReadHeld(t) => pc'[t] \notin Far \ {"clear"}
        /\ SetServerIcon(t) => pc'[t] \notin Far \ {"saveicon"}
    BY Goes DEF Dropping, Rested, Stayed, Took, Turned
  <2> QED
    BY <1>3, <2>1
<1>4. CASE CreateRow(t) \/ RereadRow(t) \/ Claim(t) \/ Bind(t) \/ ReadBack(t) \/ PurgePosts(t) \/ PurgeMessages(t)
  <2>1. /\ CreateRow(t) => pc'[t] \notin Far \ {"reread"}
        /\ RereadRow(t) => pc'[t] \notin Far \ {"claim"}
        /\ Claim(t) \/ Bind(t) => pc'[t] \notin Far \ {"readback", "rollback"}
        /\ ReadBack(t) => pc'[t] \notin Far \ {"rollback"}
        /\ PurgePosts(t) => pc'[t] = "unsay"
        /\ PurgeMessages(t) => pc'[t] = "forget"
    BY Goes DEF Dropping, Rested, Stayed, Took, Turned
  <2> QED
    BY <1>4, <2>1
<1>5. CASE Upload(t) \/ SendMessage(t) \/ CreatePost(t) \/ Sweep(t) \/ ClearPicture(t) \/ ClearIcon(t)
           \/ DeleteMessage(t) \/ DeletePost(t) \/ DeleteChannel(t)
  BY <1>5, StartsAt
<1>6. CASE Purge(t)
  <2>1. PICK u \in members, m \in msgs \cup {0}, p \in {"forget", "purge"} : Begun(t, p, "purge", u, 0, m, {}, {})
    BY <1>6, Begins, TypesAre DEF Typed
  <2>2. p \in Steps /\ ThreadsOK
    BY TypesAre DEF Typed, Steps
  <2>3. pc'[t] = p
    BY <2>1, <2>2, BegunMoves
  <2> QED
    BY <1>6, <2>3
<1> QED
  BY <1>1, <1>2, <1>3, <1>4, <1>5, <1>6 DEF Step

\* A step that moves a file between what is named and what t has in hand.
Covers(t) ==
    /\ Named' \cup Extra(t)' = Named \cup Extra(t)
    /\ Reserves(t) = 0 /\ Reserves(t)' = 0
    /\ pc[t] \notin {"settle", "refund"} /\ pc'[t] \notin {"settle", "refund"}

\* A request that ends, or takes files to remove, has nothing else.
LEMMA RestsExtra ==
    ASSUME NEW t
    PROVE  /\ Rested(t) => Extra(t)' = {} /\ Reserves(t)' = 0 /\ pc'[t] = "idle"
           /\ pc[t] \notin {"write", "giveback", "settle"} => Reserves(t) = 0
           /\ pc'[t] \notin {"write", "giveback", "settle"} => Reserves(t)' = 0
BY DEF Rested, Extra, Reserves, NoRequest

\* A file that was stored comes to be named, or is to be removed.
LEMMA StoredCovers ==
    ASSUME Typed, NEW t \in Threads, Calm, members = Users, Served(t)
    PROVE  /\ Recheck(t) => Covers(t)
           /\ Record(t) => Covers(t)
           /\ RereadFile(t) => Covers(t)
           /\ SetServerIcon(t) => Covers(t)
           /\ SaveIcon(t) => Covers(t)
<1>0. /\ SharedOK /\ FitAt(pc[t], req[t]) /\ req[t].held \subseteq Keys /\ \A f : ~Fails(f)
      /\ row \in [Keys -> 0..(MaxMessages + 1)] /\ icon \in Keys \cup {NoKey}
  BY InHandIs DEF SharedOK, Calm, Fails
<1>1. ASSUME Recheck(t)
      PROVE  Covers(t)
  <2>1. pc[t] = "recheck" /\ Named' = Named /\ Extra(t) = {req[t].key} /\ req[t].key \in Keys
    BY <1>0, <1>1, Frame DEF Recheck, At, Named, Attached, Pictures, Real, Extra, FitAt
  <2>2. CASE Drop(t, {req[t].key})
    BY <2>1, <2>2, DropsExtra, RestsExtra DEF Covers
  <2>3. CASE Goto(t, "saved") /\ UNCHANGED req
    <3>1. pc'[t] = "saved" /\ req'[t] = req[t]
      BY <2>3, TypesAre DEF Typed, ThreadsOK, Goto
    <3> QED
      BY <2>1, <3>1 DEF Covers, Extra, Reserves
  <2> QED
    BY <1>1, <2>2, <2>3 DEF Recheck
<1>2. ASSUME Record(t)
      PROVE  Covers(t)
  <2>1. pc[t] = "saved" /\ Extra(t) = {req[t].key} /\ req[t].key \in Keys /\ req[t].call = "attach"
        /\ UNCHANGED <<pic, icon>>
    BY <1>0, <1>2, Frame DEF Record, At, Extra, FitAt
  <2>2. CASE row' = row /\ Drop(t, {req[t].key})
    <3>1. Named' = Named
      BY <2>1, <2>2 DEF Named, Attached, Pictures, Real
    <3> QED
      BY <2>1, <2>2, <3>1, DropsExtra, RestsExtra DEF Covers
  <2>3. CASE row' = [row EXCEPT ![req[t].key] = Pending] /\ Goto(t, "reread") /\ UNCHANGED req
    <3>1. pc'[t] = "reread" /\ req'[t] = req[t]
      BY <2>3, TypesAre DEF Typed, ThreadsOK, Goto
    <3>2. Extra(t)' = {}
      BY <2>1, <3>1 DEF Extra
    <3>3. Attached' = Attached \cup {req[t].key}
      BY <1>0, <2>1, <2>3 DEF Attached
    <3>4. Pictures' = Pictures /\ Real({icon})' = Real({icon})
      BY <2>1 DEF Pictures, Real
    <3> QED
      BY <2>1, <3>1, <3>2, <3>3, <3>4 DEF Covers, Reserves, Named
  <2> QED
    BY <1>2, <2>2, <2>3 DEF Record
<1>3. ASSUME RereadFile(t)
      PROVE  Covers(t)
  <2>1. pc[t] = "reread" /\ req[t].call = "attach" /\ Named' = Named
    BY <1>3, Frame DEF RereadFile, At, Named, Attached, Pictures, Real
  <2>2. row[req[t].key] # NoRow
    BY <2>1 DEF Served
  <2>3. Rested(t)
    BY <1>0, <1>3, <2>2, Goes
  <2>4. Extra(t) = {}
    BY <2>1 DEF Extra
  <2> QED
    BY <2>1, <2>3, <2>4, RestsExtra DEF Covers
<1>4. ASSUME SetServerIcon(t)
      PROVE  Covers(t)
  <2>1. pc[t] = "saved" /\ Extra(t) = {req[t].key} /\ req[t].key \in Keys /\ UNCHANGED <<row, pic>>
    BY <1>0, <1>4, Frame DEF SetServerIcon, At, Extra, FitAt
  <2>2. icon' = req[t].key /\ Took(t, "saveicon", Real({icon}))
    BY <1>4, Goes
  <2>3. Extra(t)' = Real({icon}) /\ pc'[t] = "saveicon"
    BY <2>2 DEF Took, Turned, Extra
  <2>4. Attached' = Attached /\ Pictures' = Pictures
    BY <2>1 DEF Attached, Pictures, Real
  <2>5. Real({icon})' = {req[t].key}
    BY <2>1, <2>2 DEF Real
  <2> QED
    BY <2>1, <2>3, <2>4, <2>5, RestsExtra DEF Covers, Named
<1>5. ASSUME SaveIcon(t)
      PROVE  Covers(t)
  <2>1. pc[t] = "saveicon" /\ Extra(t) = req[t].held /\ Named' = Named
    BY <1>5, Frame DEF SaveIcon, At, Extra, Named, Attached, Pictures, Real
  <2>2. Drop(t, req[t].held)
    BY <1>0, <1>5 DEF SaveIcon
  <2> QED
    BY <1>0, <2>1, <2>2, DropsExtra, RestsExtra DEF Covers
<1> QED
  BY <1>1, <1>2, <1>3, <1>4, <1>5

\* A picture takes the place of another, or goes.
LEMMA PictureCovers ==
    ASSUME Typed, NEW t \in Threads, Calm, members = Users, Served(t)
    PROVE  /\ Replace(t) => Covers(t)
           /\ Point(t) => Covers(t)
           /\ ReadHeld(t) => Covers(t)
           /\ ClearMedia(t) => Covers(t)
           /\ ClearPicture(t) => Covers(t)
           /\ ClearIcon(t) => Covers(t)
<1>0. /\ SharedOK /\ ThreadsOK /\ FitAt(pc[t], req[t]) /\ req[t].held \subseteq Keys /\ \A f : ~Fails(f)
      /\ pic \in [Users -> Keys \cup {NoKey}] /\ icon \in Keys \cup {NoKey}
  BY InHandIs DEF SharedOK, Calm, Fails
<1>1. ASSUME Replace(t)
      PROVE  Covers(t)
  <2>1. pc[t] = "saved" /\ Extra(t) = {req[t].key} /\ req[t].key \in Keys /\ req[t].who \in Users
        /\ UNCHANGED <<row, icon>>
    BY <1>0, <1>1, Frame DEF Replace, At, Extra, FitAt
  <2>2. CASE pic' = [pic EXCEPT ![req[t].who] = req[t].key] /\ Took(t, "point", Displaced(req[t].who))
    <3>1. Extra(t)' = Real({pic[req[t].who]}) /\ pc'[t] = "point"
      BY <2>2 DEF Took, Turned, Extra, Displaced
    <3>2. Attached' = Attached /\ Real({icon})' = Real({icon})
      BY <2>1 DEF Attached, Real
    <3>3. Pictures' \cup Real({pic[req[t].who]}) = Pictures \cup {req[t].key}
      <4>1. \A u \in Users : pic'[u] = IF u = req[t].who THEN req[t].key ELSE pic[u]
        BY <1>0, <2>1, <2>2
      <4>2. req[t].key # NoKey
        BY <2>1
      <4>3. \A k : k \in Pictures' <=> k # NoKey /\ \E u \in Users : pic'[u] = k
        BY DEF Pictures, Real
      <4>4. \A k : k \in Pictures <=> k # NoKey /\ \E u \in Users : pic[u] = k
        BY DEF Pictures, Real
      <4>5. \A k : k \in Real({pic[req[t].who]}) <=> k # NoKey /\ k = pic[req[t].who]
        BY DEF Real
      <4> QED
        BY <2>1, <4>1, <4>2, <4>3, <4>4, <4>5
    <3> QED
      BY <2>1, <3>1, <3>2, <3>3, RestsExtra DEF Covers, Named
  <2>3. CASE pic' = pic /\ Drop(t, {req[t].key})
    <3>1. Named' = Named
      BY <2>1, <2>3 DEF Named, Attached, Pictures, Real
    <3> QED
      BY <2>1, <2>3, <3>1, DropsExtra, RestsExtra DEF Covers
  <2>4. CASE /\ pic' = [pic EXCEPT ![req[t].who] = req[t].key]
             /\ req' = [req EXCEPT ![t].held = Displaced(req[t].who)] /\ Goto(t, "point")
    <3>1. Displaced(req[t].who) \in SUBSET Keys /\ "point" \in Steps
      BY <1>0, <2>1 DEF Displaced, Real, Steps
    <3>2. Took(t, "point", Displaced(req[t].who))
      BY <2>4, <3>1, TakeMoves
    <3> QED
      BY <2>2, <2>4, <3>2
  <2> QED
    BY <1>1, <2>3, <2>4 DEF Replace
<1>2. ASSUME Point(t)
      PROVE  Covers(t)
  <2>1. pc[t] = "point" /\ Extra(t) = req[t].held /\ Named' = Named /\ req[t].who \in Users
    BY <1>0, <1>2, Frame DEF Point, At, Extra, Named, Attached, Pictures, Real, FitAt
  <2>2. Drop(t, req[t].held)
    BY <1>0, <1>2, <2>1 DEF Point
  <2> QED
    BY <1>0, <2>1, <2>2, DropsExtra, RestsExtra DEF Covers
<1>3. ASSUME ReadHeld(t)
      PROVE  Covers(t)
  <2>1. pc[t] = "unpicture" /\ Extra(t) = {} /\ Named' = Named
    BY <1>0, <1>3, Frame DEF ReadHeld, At, Extra, Named, Attached, Pictures, Real
  <2>2. Rested(t) \/ pc'[t] = "clear"
    BY <1>3, Goes DEF Took, Turned
  <2>3. Extra(t)' = {}
    BY <2>2, RestsExtra DEF Extra
  <2> QED
    BY <2>1, <2>2, <2>3, RestsExtra DEF Covers
<1>4. ASSUME ClearMedia(t)
      PROVE  Covers(t)
  <2>1. pc[t] = "clear" /\ Extra(t) = {} /\ UNCHANGED <<row, icon>> /\ req[t].who \in Users
    BY <1>0, <1>4, Frame DEF ClearMedia, At, Extra, FitAt
  <2>2. pic' = [pic EXCEPT ![req[t].who] = NoKey] /\ Drop(t, req[t].held)
    BY <1>0, <1>4 DEF ClearMedia
  <2>3. req[t].held = {pic[req[t].who]} /\ pic[req[t].who] # NoKey
    BY <2>1 DEF Served
  <2>4. Extra(t)' = {pic[req[t].who]} /\ pc'[t] \in {"idle", "unlink"}
    BY <1>0, <2>2, <2>3, DropsExtra
  <2>5. Attached' = Attached /\ Real({icon})' = Real({icon})
    BY <2>1 DEF Attached, Real
  <2>6. Pictures' \cup {pic[req[t].who]} = Pictures
    <3>1. \A u \in Users : pic'[u] = IF u = req[t].who THEN NoKey ELSE pic[u]
      BY <1>0, <2>1, <2>2
    <3>3. \A k : k \in Pictures' <=> k # NoKey /\ \E u \in Users : pic'[u] = k
      BY DEF Pictures, Real
    <3>4. \A k : k \in Pictures <=> k # NoKey /\ \E u \in Users : pic[u] = k
      BY DEF Pictures, Real
    <3> QED
      BY <2>1, <2>3, <3>1, <3>3, <3>4
  <2> QED
    BY <2>1, <2>4, <2>5, <2>6, RestsExtra DEF Covers, Named
<1>5. ASSUME ClearPicture(t)
      PROVE  Covers(t)
  <2>1. Named' = Named /\ pc[t] = "idle" /\ pc'[t] = "unpicture"
    BY <1>5, Frame, StartsAt DEF Starts, Named, Attached, Pictures, Real
  <2>2. Extra(t) = {} /\ Extra(t)' = {}
    BY <2>1 DEF Extra
  <2> QED
    BY <2>1, <2>2, RestsExtra DEF Covers
<1>6. ASSUME ClearIcon(t)
      PROVE  Covers(t)
  <2>1. UNCHANGED <<row, pic>> /\ pc[t] = "idle" /\ pc'[t] = "saveicon"
    BY <1>6, Frame, StartsAt DEF Starts
  <2>2. Begun(t, "saveicon", "clear", NoUser, 0, 0, Real({icon}), {}) /\ icon' = NoKey
    BY <1>0, <1>6, Begins
  <2>3. req'[t].held = Real({icon})
    BY <1>0, <2>2, BegunMoves DEF Is, Steps
  <2>4. Extra(t) = {} /\ Extra(t)' = Real({icon})
    BY <2>1, <2>3 DEF Extra
  <2>5. Attached' = Attached /\ Pictures' = Pictures /\ Real({icon})' = {}
    BY <2>1, <2>2 DEF Attached, Pictures, Real
  <2> QED
    BY <2>1, <2>4, <2>5, RestsExtra DEF Covers, Named
<1> QED
  BY <1>1, <1>2, <1>3, <1>4, <1>5, <1>6

\* A file is bound to a message, or the message is given up.
LEMMA MessageCovers ==
    ASSUME Typed, Filed, NEW t \in Threads, Calm, members = Users, Served(t)
    PROVE  /\ SendMessage(t) \/ CreatePost(t) => Covers(t)
           /\ CreateRow(t) => Covers(t)
           /\ RereadRow(t) => Covers(t)
           /\ Claim(t) => Covers(t)
           /\ Bind(t) => Covers(t)
           /\ ReadBack(t) => Covers(t)
           /\ Announce(t) => Covers(t)
           /\ Rollback(t) => Covers(t)
<1>0. /\ SharedOK /\ ThreadsOK /\ FitAt(pc[t], req[t]) /\ req[t].held \subseteq Keys /\ \A f : ~Fails(f)
      /\ row \in [Keys -> 0..(MaxMessages + 1)]
  BY InHandIs DEF SharedOK, Calm, Fails
<1>a. row' = row /\ pic' = pic /\ icon' = icon => Named' = Named
  BY DEF Named, Attached, Pictures, Real
<1>1. ASSUME SendMessage(t) \/ CreatePost(t)
      PROVE  Covers(t)
  <2>1. Named' = Named /\ pc[t] = "idle" /\ pc'[t] = "create"
    BY <1>a, <1>1, Frame, StartsAt DEF Starts
  <2>2. Extra(t) = {} /\ Extra(t)' = {}
    BY <2>1 DEF Extra
  <2> QED
    BY <2>1, <2>2, RestsExtra DEF Covers
<1>2. ASSUME CreateRow(t)
      PROVE  Covers(t)
  <2>1. pc[t] \in {"create", "saved"} /\ (pc[t] = "saved" <=> req[t].call = "delivery")
        /\ Named' = Named /\ (pc[t] = "saved" => req[t].key \in Keys)
    BY <1>0, <1>a, <1>2, Frame DEF CreateRow, At, FitAt, Saying
  <2>2. Extra(t) = IF req[t].call = "delivery" THEN {req[t].key} ELSE {}
    BY <2>1 DEF Extra
  <2>3. CASE Turned(t, "reread", req[t].key, written + 1, req[t].held, req[t].stale)
    <3>1. pc'[t] = "reread" /\ req'[t].call = req[t].call /\ req'[t].key = req[t].key
      BY <2>3 DEF Turned
    <3>2. Extra(t)' = Extra(t)
      BY <2>2, <3>1 DEF Extra
    <3> QED
      BY <2>1, <3>1, <3>2, RestsExtra DEF Covers
  <2>4. CASE req[t].call = "delivery" /\ Drop(t, {req[t].key})
    BY <2>1, <2>2, <2>4, DropsExtra, RestsExtra DEF Covers
  <2>5. CASE req[t].call # "delivery" /\ Finish(t)
    BY <2>1, <2>2, <2>5, RestMoves, RestsExtra DEF Covers
  <2>6. \/ req' = [req EXCEPT ![t].msg = written + 1] /\ Goto(t, "reread") /\ written < plan.messages
        \/ req[t].call = "delivery" /\ Drop(t, {req[t].key})
        \/ req[t].call # "delivery" /\ Finish(t)
    BY <1>2 DEF CreateRow
  <2>7. ASSUME req' = [req EXCEPT ![t].msg = written + 1], Goto(t, "reread"), written < plan.messages
        PROVE  Turned(t, "reread", req[t].key, written + 1, req[t].held, req[t].stale)
    <3>1. written \in 0..MaxMessages /\ plan \in Plans
      BY <1>0 DEF SharedOK
    <3>2. written < MaxMessages
      BY <2>7, <3>1, PlanIs
    <3>3. written + 1 \in Messages /\ "reread" \in Steps
      BY <3>1, <3>2 DEF Steps
    <3> QED
      BY <2>7, <3>3, TakeMoves
  <2> QED
    BY <2>3, <2>4, <2>5, <2>6, <2>7
<1>3. ASSUME RereadRow(t)
      PROVE  Covers(t)
  <2>1. pc[t] = "reread" /\ req[t].call # "attach" /\ Named' = Named /\ (req[t].call = "delivery" => req[t].key \in Keys)
    BY <1>0, <1>a, <1>3, Frame DEF RereadRow, At, FitAt, Uploading
  <2>2. Extra(t) = IF req[t].call = "delivery" THEN {req[t].key} ELSE {}
    BY <2>1 DEF Extra
  <2>3. CASE Goto(t, "claim") /\ UNCHANGED req
    <3>1. pc'[t] = "claim" /\ req'[t] = req[t]
      BY <1>0, <2>3 DEF ThreadsOK, Goto
    <3>2. Extra(t)' = Extra(t)
      BY <2>2, <3>1 DEF Extra
    <3> QED
      BY <2>1, <3>1, <3>2, RestsExtra DEF Covers
  <2>4. CASE req[t].call = "delivery" /\ Drop(t, {req[t].key})
    BY <2>1, <2>2, <2>4, DropsExtra, RestsExtra DEF Covers
  <2>5. CASE req[t].call # "delivery" /\ Finish(t)
    BY <2>1, <2>2, <2>5, RestMoves, RestsExtra DEF Covers
  <2> QED
    BY <1>3, <2>3, <2>4, <2>5 DEF RereadRow
<1>4. ASSUME Claim(t)
      PROVE  Covers(t)
  <2>1. /\ pc[t] = "claim" /\ req[t].call # "delivery" /\ Extra(t) = {} /\ UNCHANGED <<pic, icon>>
        /\ req[t].msg \in Messages
    BY <1>0, <1>4, Frame DEF Claim, At, Extra, FitAt
  <2>2. pc'[t] \in {"announce", "readback", "rollback"} /\ req'[t].call # "delivery"
    BY <1>4, <2>1, Goes DEF Stayed, Turned
  <2>3. Attached' = Attached
    <3>1. \/ row' = row
          \/ /\ row' = [j \in Keys |-> IF j \in req[t].held THEN req[t].msg ELSE row[j]]
             /\ \A j \in req[t].held : row[j] = Pending
      BY <1>4 DEF Claim, Claimable
    <3> QED
      BY <2>1, <3>1 DEF Attached
  <2>4. Pictures' = Pictures /\ Real({icon})' = Real({icon})
    BY <2>1 DEF Pictures, Real
  <2>5. Extra(t)' = {}
    BY <2>2 DEF Extra
  <2> QED
    BY <2>1, <2>2, <2>3, <2>4, <2>5, RestsExtra DEF Covers, Named
<1>5. ASSUME Bind(t)
      PROVE  Covers(t)
  <2>1. /\ pc[t] = "claim" /\ req[t].call = "delivery" /\ Extra(t) = {req[t].key} /\ UNCHANGED <<pic, icon>>
        /\ req[t].msg \in Messages /\ req[t].key \in Keys
    BY <1>0, <1>5, Frame DEF Bind, At, Extra, FitAt, Uploading
  <2>2. CASE row' = [row EXCEPT ![req[t].key] = req[t].msg] /\ Stayed(t, "readback")
    <3>1. Attached' = Attached \cup {req[t].key}
      BY <1>0, <2>1, <2>2 DEF Attached
    <3>2. Pictures' = Pictures /\ Real({icon})' = Real({icon})
      BY <2>1 DEF Pictures, Real
    <3>3. pc'[t] = "readback" /\ Extra(t)' = {}
      BY <2>2 DEF Stayed, Turned, Extra
    <3> QED
      BY <2>1, <3>1, <3>2, <3>3, RestsExtra DEF Covers, Named
  <2>3. CASE row' = row /\ Stayed(t, "rollback")
    <3>1. pc'[t] = "rollback" /\ req'[t].call = "delivery" /\ req'[t].key = req[t].key
      BY <2>1, <2>3 DEF Stayed, Turned
    <3>2. Extra(t)' = {req[t].key}
      BY <3>1 DEF Extra
    <3> QED
      BY <1>a, <2>1, <2>3, <3>1, <3>2, RestsExtra DEF Covers
  <2> QED
    BY <1>5, <2>2, <2>3, Goes
<1>6. ASSUME ReadBack(t)
      PROVE  Covers(t)
  <2>1. pc[t] = "readback" /\ Extra(t) = {} /\ Named' = Named
    BY <1>a, <1>6, Frame DEF ReadBack, At, Extra
  <2>2. ~(req[t].call = "delivery" /\ row[req[t].key] = NoRow)
    BY <2>1 DEF Served
  <2>3. pc'[t] = "announce"
    BY <1>0, <1>6, <2>2, Goes DEF Took, Turned
  <2>4. Extra(t)' = {}
    BY <2>3 DEF Extra
  <2> QED
    BY <2>1, <2>3, <2>4, RestsExtra DEF Covers
<1>7. ASSUME Announce(t)
      PROVE  Covers(t)
  <2>1. pc[t] = "announce" /\ Extra(t) = {} /\ Named' = Named
    BY <1>a, <1>7, Frame DEF Announce, At, Extra
  <2> QED
    BY <1>7, <2>1, Goes, RestsExtra DEF Covers
<1>8. ASSUME Rollback(t)
      PROVE  Covers(t)
  <2>1. /\ pc[t] = "rollback" /\ UNCHANGED <<pic, icon>> /\ Fresh(t)
        /\ (req[t].call = "delivery" => req[t].key \in Keys)
    BY <1>0, <1>8, Frame DEF Rollback, At, FitAt, Served, Uploading
  <2>2. row' = row
    <3>1. (DeleteRows(Threaded(req[t].msg), {req[t].msg}) /\ req[t].call = "post") \/ DeleteRows({req[t].msg}, {})
      BY <1>0, <1>8 DEF Rollback
    <3>2. PICK gone \in SUBSET {req[t].msg} : row' = Surviving(gone)
      BY <2>1, <3>1 DEF Fresh, DeleteRows
    <3> QED
      BY <1>0, <2>1, <3>2 DEF Fresh, Surviving
  <2>3. Extra(t) = IF req[t].call = "delivery" THEN {req[t].key} ELSE {}
    BY <2>1 DEF Extra
  <2>4. CASE req[t].call = "delivery" /\ Drop(t, {req[t].key})
    BY <1>a, <2>1, <2>2, <2>3, <2>4, DropsExtra, RestsExtra DEF Covers
  <2>5. CASE req[t].call # "delivery" /\ Finish(t)
    BY <1>a, <2>1, <2>2, <2>3, <2>5, RestMoves, RestsExtra DEF Covers
  <2> QED
    BY <1>8, <2>4, <2>5 DEF Rollback
<1> QED
  BY <1>1, <1>2, <1>3, <1>4, <1>5, <1>6, <1>7, <1>8

\* Rows are deleted, and the files they named are to be removed.
LEMMA DeletionCovers ==
    ASSUME Typed, Filed, NEW t \in Threads, Calm, members = Users, Served(t)
    PROVE  /\ DeleteMessage(t) \/ DeletePost(t) \/ DeleteChannel(t) => Covers(t)
           /\ Delete(t) => Covers(t)
           /\ Sweep(t) => Covers(t)
           /\ SweepNext(t) => Covers(t)
<1>0. /\ SharedOK /\ ThreadsOK /\ FitAt(pc[t], req[t]) /\ req[t].held \subseteq Keys /\ \A f : ~Fails(f)
      /\ row \in [Keys -> 0..(MaxMessages + 1)] /\ msgs \subseteq Messages /\ req[t].stale \subseteq Keys
  BY InHandIs DEF SharedOK, Calm, Fails
<1>a. row' = row /\ pic' = pic /\ icon' = icon => Named' = Named
  BY DEF Named, Attached, Pictures, Real
<1>1. ASSUME DeleteMessage(t) \/ DeletePost(t) \/ DeleteChannel(t) \/ Sweep(t)
      PROVE  Covers(t)
  <2>1. Named' = Named /\ pc[t] = "idle" /\ pc'[t] \in {"delete", "sweep"}
    BY <1>a, <1>1, Frame, StartsAt DEF Starts
  <2>2. Extra(t) = {} /\ Extra(t)' = {}
    BY <2>1 DEF Extra
  <2> QED
    BY <2>1, <2>2, RestsExtra DEF Covers
<1>2. ASSUME Delete(t)
      PROVE  Covers(t)
  <2>1. pc[t] = "delete" /\ UNCHANGED <<pic, icon>> /\ Extra(t) = {}
        /\ req[t].held = {k \in Keys : row[k] \in Going(t)}
    BY <1>2, Frame DEF Delete, At, Extra, Served
  <2>2. CASE Finish(t) /\ row' = row
    BY <1>a, <2>1, <2>2, RestMoves, RestsExtra DEF Covers
  <2> DEFINE Taken == /\ NoRow \notin Going(t) /\ Drop(t, req[t].held)
                      /\ \A k \in Keys : row'[k] = IF row[k] \in Going(t) THEN NoRow ELSE row[k]
  <2>3. CASE Taken
    <3>1. Extra(t)' = req[t].held /\ pc'[t] \in {"idle", "unlink"}
      BY <1>0, <2>3, DropsExtra
    <3>2. Attached' \cup req[t].held = Attached
      BY <2>1, <2>3 DEF Attached
    <3>3. Pictures' = Pictures /\ Real({icon})' = Real({icon})
      BY <2>1 DEF Pictures, Real
    <3> QED
      BY <2>1, <3>1, <3>2, <3>3, RestsExtra DEF Covers, Named
  <2>4. ASSUME req[t].call = "delete", req[t].msg \in msgs, DeleteRows({req[t].msg}, {}), Drop(t, req[t].held)
        PROVE  Taken
    <3>1. Going(t) = {req[t].msg}
      BY <2>4 DEF Going
    <3> QED
      BY <1>0, <2>4, <3>1 DEF DeleteRows, Surviving
  <2>5. ASSUME req[t].call = "deletepost", DeleteRows(Threaded(req[t].msg), {req[t].msg}), Drop(t, req[t].held)
        PROVE  Taken
    <3>1. Going(t) = Threaded(req[t].msg) /\ Threaded(req[t].msg) \subseteq Messages
      BY <1>0, <2>5 DEF Going, Threaded
    <3> QED
      BY <1>0, <2>5, <3>1 DEF DeleteRows, Surviving
  <2>6. ASSUME req[t].call = "channel", DeleteRows(msgs \cup {Pending}, posts), Drop(t, req[t].held)
        PROVE  Taken
    <3>1. Going(t) = Messages \cup {Pending}
      BY <2>6 DEF Going
    <3>2. \A k \in Keys : row[k] \in msgs \cup {NoRow, Pending}
      BY DEF Filed, Kind, RowsOfMessages
    <3>3. \A k \in Keys : row'[k] = IF row[k] \in msgs \cup {Pending} THEN NoRow ELSE row[k]
      BY <2>6 DEF DeleteRows, Surviving
    <3> QED
      BY <1>0, <2>6, <3>1, <3>2, <3>3
  <2> QED
    BY <1>2, <2>2, <2>3, <2>4, <2>5, <2>6 DEF Delete
<1>3. ASSUME SweepNext(t)
      PROVE  Covers(t)
  <2>1. pc[t] = "sweep" /\ UNCHANGED <<pic, icon>> /\ Extra(t) = {} /\ Min(req[t].stale) \in Keys
    <3>1. pc[t] = "sweep"
      BY <1>3 DEF SweepNext, At
    <3>2. req[t].stale # {}
      BY <1>0, <3>1 DEF FitAt
    <3> QED
      BY <1>0, <1>3, <3>1, <3>2, Frame, FirstHeld DEF Extra
  <2>2. CASE /\ row' = [row EXCEPT ![Min(req[t].stale)] = NoRow] /\ row[Min(req[t].stale)] # NoRow
             /\ Turned(t, "unlink", req[t].key, req[t].msg, {Min(req[t].stale)}, req[t].stale \ {Min(req[t].stale)})
    <3>1. Extra(t)' = {Min(req[t].stale)} /\ pc'[t] = "unlink"
      BY <2>2 DEF Turned, Extra
    <3>2. Attached' \cup {Min(req[t].stale)} = Attached
      BY <1>0, <2>1, <2>2 DEF Attached
    <3>3. Pictures' = Pictures /\ Real({icon})' = Real({icon})
      BY <2>1 DEF Pictures, Real
    <3> QED
      BY <2>1, <3>1, <3>2, <3>3, RestsExtra DEF Covers, Named
  <2>3. CASE row' = row /\ (Rested(t) \/ pc'[t] = "sweep")
    <3>1. Extra(t)' = {}
      BY <2>3, RestsExtra DEF Extra
    <3> QED
      BY <1>a, <2>1, <2>3, <3>1, RestsExtra DEF Covers
  <2> QED
    BY <1>3, <2>2, <2>3, Goes DEF Turned
<1> QED
  BY <1>1, <1>2, <1>3

\* Where nobody else is at work, the books are those of t.
Single(t) ==
    TypeOK /\ (\A u \in Threads \ {t} : pc[u] = "idle") =>
        (Booked <=> Books(t)) /\ (Shelved <=> Shelves(t)) /\ (Pointed <=> Points(t))

\* The books are those of the one thread that is not idle, whichever it is.
LEMMA SingleIs == \A t \in Threads : Single(t)
<1> SUFFICES ASSUME NEW t \in Threads, TypeOK, \A u \in Threads \ {t} : pc[u] = "idle"
             PROVE  (Booked <=> Books(t)) /\ (Shelved <=> Shelves(t)) /\ (Pointed <=> Points(t))
  BY DEF Single
<1>1. CASE pc[t] = "idle"
  <2>1. Idle /\ Active = {}
    BY <1>1 DEF Idle, At, Active
  <2>2. req[t].call \notin {} /\ (Extra(t) = {} /\ Reserves(t) = 0 /\ OnDisk(t) = {})
    BY <1>1 DEF Extra, Reserves, OnDisk
  <2>3. used \in Int /\ Named \cup {} = Named
    BY DEF TypeOK
  <2>4. Books(t) <=> used = Bytes(Named)
    <3>1. Bytes(Named) + 0 = Bytes(Named) \/ Bytes(Named) \notin Int
      OBVIOUS
    <3>2. Bytes(Named) \in Nat
      <4>1. SharedOK
        BY TypesAre
      <4>2. /\ icon \in Keys \cup {NoKey}
            /\ \A u \in Users : pic[u] \in Keys \cup {NoKey}
        BY DEF TypeOK
      <4>3. Named \subseteq Keys
        <5> HIDE DEF Keys
        <5> QED
          BY <4>2 DEF Named, Attached, Pictures, Real
      <4> QED
        BY <4>1, <4>3, BytesAre
    <3> QED
      BY <2>2, <2>3, <3>1, <3>2 DEF Books
  <2>5. Shelves(t) <=> disk = Named
    BY <2>2 DEF Shelves
  <2>6. Points(t) <=> shown = pic
    <3>1. shown \in [Users -> Keys \cup {NoKey}] /\ pic \in [Users -> Keys \cup {NoKey}]
      BY DEF TypeOK
    <3>2. Points(t) <=> \A u \in Users : shown[u] = pic[u]
      BY <1>1 DEF Points
    <3> HIDE DEF Keys
    <3> QED
      BY <3>1, <3>2
  <2> QED
    BY <2>1, <2>4, <2>5, <2>6 DEF Booked, Shelved, Pointed
<1>2. CASE pc[t] # "idle"
  <2>1. ~Idle /\ Active = {t}
    BY <1>2 DEF Idle, At, Active
  <2> QED
    BY <2>1 DEF Booked, Shelved, Pointed
<1> QED
  BY <1>1, <1>2

\* The books of a thread, as a sum.
Summed == \A t \in Threads : Books(t) <=> used = Sum(size, Named \cup Extra(t)) + Reserves(t)

\* The books of every thread are taken that way.
LEMMA BooksAre == Summed
<1> SUFFICES ASSUME NEW t \in Threads
             PROVE  Books(t) <=> used = Sum(size, Named \cup Extra(t)) + Reserves(t)
  BY DEF Summed
<1>1. Bytes(Named \cup Extra(t)) = Sum(size, Named \cup Extra(t))
  BY Zenon DEF Bytes, Sum
<1> QED
  BY <1>1 DEF Books

\* An element can be taken out of a sum of sizes ...
LEMMA SizesOut ==
    ASSUME NEW T, NEW x \in T, IsFiniteSet(T), \A k \in T : size[k] \in Int
    PROVE  Sum(size, T) = size[x] + Sum(size, T \ {x})
BY SumWithout

\* ... and so can a file.
LEMMA SizesWithout ==
    ASSUME Typed, NEW T \in SUBSET Keys, NEW x \in T
    PROVE  Sum(size, T) = size[x] + Sum(size, T \ {x}) /\ Sum(size, T \ {x}) \in Nat /\ size[x] \in Nat
<1>1. SharedOK /\ size \in [Keys -> 0..MaxFile]
  BY TypesAre DEF Typed, SharedOK
<1>2. IsFiniteSet(T) /\ Sum(size, T) \in Nat
  BY <1>1, BytesAre
<1>3. \A k \in T : size[k] \in Nat /\ size[k] \in Int
  BY <1>1
<1>4. T \ {x} \in SUBSET Keys
  OBVIOUS
<1>5. Sum(size, T \ {x}) \in Nat
  BY <1>1, <1>4, BytesAre
<1>6. Sum(size, T) = size[x] + Sum(size, T \ {x})
  <2>1. \A k \in T : size[k] \in Int
    BY <1>3
  <2> QED
    BY <1>2, <2>1, SizesOut, Zenon
<1> QED
  BY <1>3, <1>5, <1>6

\* What t has in hand is stored, and nothing names it.
LEMMA ExtraIs ==
    ASSUME Typed, Filed, NEW t \in Threads
    PROVE  /\ \A k \in Extra(t) : k \in Keys /\ k <= minted /\ k \notin Named
           /\ \A k \in Named : k \in Keys /\ k \in disk
           /\ pc[t] = "settle" => req[t].key \in Keys /\ req[t].key <= minted /\ req[t].key \notin Named
<1>0. /\ SharedOK /\ FitAt(pc[t], req[t]) /\ req[t].held \subseteq Keys /\ InHand(t)
      /\ minted \in 0..MaxKeys
  BY InHandIs DEF SharedOK, Filed
<1>1. \A k \in Keys : Dead(k) => k <= minted /\ k \notin Named
  BY DEF Dead, Plain, Old, Named, Attached, Pictures, Real
<1>2. Holding(t) => req[t].key \in Keys /\ req[t].key <= minted /\ req[t].key \notin Named
  <2>1. Holding(t) => /\ row[req[t].key] = NoRow /\ icon # req[t].key /\ req[t].key \in Keys
                      /\ \A u \in Users : pic[u] # req[t].key
    BY KindIs DEF Filed
  <2>2. Holding(t) => req[t].key <= minted
    BY DEF Filed, KeysApart
  <2> QED
    BY <2>1, <2>2 DEF Named, Attached, Pictures, Real
<1>3. ASSUME NEW k \in Extra(t)
      PROVE  k \in Keys /\ k <= minted /\ k \notin Named
  <2>1. CASE pc[t] \in {"recheck", "saved"} \/ (req[t].call = "delivery" /\ pc[t] \in {"reread", "claim"})
    <3>1. Holding(t) /\ k = req[t].key
      BY <2>1 DEF Holding, Extra
    <3> QED
      BY <1>2, <3>1
  <2>2. CASE req[t].call = "delivery" /\ pc[t] = "rollback"
    <3>1. k = req[t].key /\ Dead(k) /\ k \in Keys
      BY <1>0, <2>2 DEF Extra, InHand, FitAt, Uploading
    <3> QED
      BY <1>1, <3>1
  <2>3. CASE pc[t] \in {"unlink", "refund", "point", "saveicon"}
    <3>1. k \in req[t].held
      BY <2>3 DEF Extra
    <3>2. Dead(k) /\ k \in Keys
      BY <1>0, <2>3, <3>1 DEF InHand
    <3> QED
      BY <1>1, <3>2
  <2> QED
    BY <2>1, <2>2, <2>3 DEF Extra
<1>4. \A k \in Named : k \in disk
  BY DEF Filed, BytesThere, NamedAreThere
<1>5. pc[t] = "settle" => Holding(t)
  BY DEF Holding
<1> QED
  BY <1>0, <1>2, <1>3, <1>4, <1>5 DEF SharedOK

\* Files that are stored weigh what they weighed.
LEMMA SumsStay ==
    ASSUME Typed, NEW t \in Threads, Step(t), NEW S \in SUBSET Keys, \A k \in S : k <= minted
    PROVE  Sum(size', S) = Sum(size, S) /\ Sum(size, S) \in Nat /\ IsFiniteSet(S)
<1>1. SharedOK
  BY TypesAre DEF Typed
<1>2. IsFiniteSet(S) /\ Sum(size, S) \in Nat
  BY <1>1, BytesAre
<1>3. \A k \in S : size[k] = size'[k]
  BY SizesStay
<1> QED
  BY <1>2, <1>3, SumSame

\* What the steps do that touch the disk or the counter.
LEMMA LoudBooks ==
    ASSUME Typed, Filed, Calm, NEW t \in Threads
    PROVE  /\ Upload(t) => /\ Extra(t) = {} /\ Extra(t)' = {} /\ OnDisk(t) = {} /\ OnDisk(t)' = {} /\ disk' = disk
                           /\ Reserves(t) = 0 /\ Reserves(t)' \in Nat /\ used' = used + Reserves(t)'
           /\ WriteFile(t) => /\ Extra(t) = {} /\ Extra(t)' = {} /\ OnDisk(t) = {}
                              /\ Reserves(t)' = Reserves(t) /\ used' = used
                              /\ \/ OnDisk(t)' = {} /\ disk' = disk
                                 \/ OnDisk(t)' = {minted + 1} /\ disk' = disk \cup {minted + 1}
           /\ GiveBack(t) => /\ Extra(t) = {} /\ Extra(t)' = {} /\ OnDisk(t) = {} /\ OnDisk(t)' = {} /\ disk' = disk
                             /\ Reserves(t)' = 0 /\ used' = used - Reserves(t)
           /\ Settle(t) => /\ Extra(t) = {} /\ Extra(t)' = {req[t].key} /\ OnDisk(t)' = {req[t].key} /\ disk' = disk
                           /\ OnDisk(t) = {req[t].key} /\ Reserves(t)' = 0 /\ pc[t] = "settle"
                           /\ used' = used - Reserves(t) + size[req[t].key]
           /\ Unlink(t) => /\ Extra(t) = req[t].held /\ Extra(t)' = req[t].held
                           /\ OnDisk(t) = req[t].held /\ OnDisk(t)' = req[t].held \ {Min(req[t].held)}
                           /\ disk' = disk \ {Min(req[t].held)} /\ Min(req[t].held) \in req[t].held
                           /\ Reserves(t) = 0 /\ Reserves(t)' = 0 /\ used' = used
           /\ Refund(t) => /\ Extra(t) = req[t].held /\ Extra(t)' = req[t].held \ {Min(req[t].held)}
                           /\ OnDisk(t) = Extra(t)' /\ OnDisk(t)' = Extra(t)' /\ disk' = disk
                           /\ Min(req[t].held) \in req[t].held
                           /\ Reserves(t) = 0 /\ Reserves(t)' = 0
                           /\ used' = IF size[Min(req[t].held)] > used THEN 0 ELSE used - size[Min(req[t].held)]
<1>0. /\ SharedOK /\ ThreadsOK /\ FitAt(pc[t], req[t]) /\ req[t].held \subseteq Keys /\ \A f : ~Fails(f)
      /\ req[t].reserved \in Nat /\ req[t] \in Request
  <2>1. /\ SharedOK /\ ThreadsOK /\ FitAt(pc[t], req[t]) /\ req[t].held \subseteq Keys
        /\ req[t].reserved \in 0..MaxFile /\ req[t] \in Request
    BY InHandIs
  <2> QED
    BY <2>1 DEF Calm, Fails
<1>1. ASSUME Upload(t)
      PROVE  /\ Extra(t) = {} /\ Extra(t)' = {} /\ OnDisk(t) = {} /\ OnDisk(t)' = {} /\ disk' = disk
             /\ Reserves(t) = 0 /\ Reserves(t)' \in Nat /\ used' = used + Reserves(t)'
  <2>1. PICK c \in Uploading, n \in 1..MaxFile : \E u \in members \cup {NoUser} :
            Begun(t, "write", c, u, n, 0, {}, {}) /\ used' = used + n
    BY <1>0, <1>1, Begins
  <2>2. PICK u \in members \cup {NoUser} : Begun(t, "write", c, u, n, 0, {}, {})
    BY <2>1
  <2>3. pc'[t] = "write" /\ req'[t].reserved = n
    BY <1>0, <2>2, BegunMoves DEF Is, Steps
  <2>4. pc[t] = "idle" /\ disk' = disk
    BY <1>1, StartsAt, Frame DEF Starts
  <2> QED
    BY <2>1, <2>3, <2>4 DEF Extra, OnDisk, Reserves
<1>2. ASSUME WriteFile(t)
      PROVE  /\ Extra(t) = {} /\ Extra(t)' = {} /\ OnDisk(t) = {}
             /\ Reserves(t)' = Reserves(t) /\ used' = used
             /\ \/ OnDisk(t)' = {} /\ disk' = disk
                \/ OnDisk(t)' = {minted + 1} /\ disk' = disk \cup {minted + 1}
  <2>1. pc[t] = "write" /\ used' = used
    BY <1>2, Frame DEF WriteFile, At
  <2>2. \/ disk' = disk \cup {minted + 1} /\ pc'[t] = "settle" /\ req'[t].key = minted + 1
           /\ req'[t].reserved = req[t].reserved
        \/ disk' = disk /\ pc'[t] = "giveback" /\ req'[t].reserved = req[t].reserved
    BY <1>2, Goes DEF Stayed, Turned
  <2> QED
    BY <2>1, <2>2 DEF Extra, OnDisk, Reserves
<1>3. ASSUME GiveBack(t)
      PROVE  /\ Extra(t) = {} /\ Extra(t)' = {} /\ OnDisk(t) = {} /\ OnDisk(t)' = {} /\ disk' = disk
             /\ Reserves(t)' = 0 /\ used' = used - Reserves(t)
  <2>1. pc[t] = "giveback" /\ disk' = disk /\ used' = used - req[t].reserved
    BY <1>3, Frame DEF GiveBack, At
  <2>2. pc'[t] = "idle"
    BY <1>3, Goes DEF Rested
  <2> QED
    BY <2>1, <2>2 DEF Extra, OnDisk, Reserves
<1>4. ASSUME Settle(t)
      PROVE  /\ Extra(t) = {} /\ Extra(t)' = {req[t].key} /\ OnDisk(t)' = {req[t].key} /\ disk' = disk
             /\ OnDisk(t) = {req[t].key} /\ Reserves(t)' = 0 /\ pc[t] = "settle"
             /\ used' = used - Reserves(t) + size[req[t].key]
  <2>1. pc[t] = "settle" /\ disk' = disk /\ used' = used - req[t].reserved + size[req[t].key]
    BY <1>4, Frame DEF Settle, Settled, At
  <2>2. pc'[t] = "recheck" /\ req'[t].key = req[t].key
    BY <1>4, Goes DEF Stayed, Turned
  <2> QED
    BY <2>1, <2>2 DEF Extra, OnDisk, Reserves
<1>5. ASSUME Unlink(t)
      PROVE  /\ Extra(t) = req[t].held /\ Extra(t)' = req[t].held
             /\ OnDisk(t) = req[t].held /\ OnDisk(t)' = req[t].held \ {Min(req[t].held)}
             /\ disk' = disk \ {Min(req[t].held)} /\ Min(req[t].held) \in req[t].held
             /\ Reserves(t) = 0 /\ Reserves(t)' = 0 /\ used' = used
  <2>1. pc[t] = "unlink" /\ used' = used
    BY <1>5, Frame DEF Unlink, At
  <2>2. disk' = disk \ {Min(req[t].held)} /\ Goto(t, "refund") /\ UNCHANGED req
    BY <1>0, <1>5 DEF Unlink
  <2>3. pc'[t] = "refund" /\ req'[t] = req[t]
    BY <1>0, <2>2 DEF ThreadsOK, Goto
  <2>4. Min(req[t].held) \in req[t].held
    BY <1>0, <2>1, FirstHeld DEF FitAt
  <2> QED
    BY <2>1, <2>2, <2>3, <2>4 DEF Extra, OnDisk, Reserves
<1>6. ASSUME Refund(t)
      PROVE  /\ Extra(t) = req[t].held /\ Extra(t)' = req[t].held \ {Min(req[t].held)}
             /\ OnDisk(t) = Extra(t)' /\ OnDisk(t)' = Extra(t)' /\ disk' = disk
             /\ Min(req[t].held) \in req[t].held
             /\ Reserves(t) = 0 /\ Reserves(t)' = 0
             /\ used' = IF size[Min(req[t].held)] > used THEN 0 ELSE used - size[Min(req[t].held)]
  <2> DEFINE rest == req[t].held \ {Min(req[t].held)}
  <2>1. pc[t] = "refund" /\ disk' = disk /\ Dropped(t)
    BY <1>6, Frame DEF Refund, At
  <2>2. used' = IF size[Min(req[t].held)] > used THEN 0 ELSE used - size[Min(req[t].held)]
    BY <1>6 DEF Refund
  <2>3. Min(req[t].held) \in req[t].held
    BY <1>0, <2>1, FirstHeld DEF FitAt
  <2>4. \/ rest = {} /\ pc'[t] = "idle"
        \/ rest = {} /\ pc'[t] = "sweep"
        \/ pc'[t] = "unlink" /\ req'[t].held = rest
    <3>1. CASE rest = {} /\ Finish(t)
      BY <1>0, <3>1 DEF Finish, Goto, ThreadsOK
    <3>2. CASE req' = [req EXCEPT ![t].held = rest] /\ Goto(t, IF rest = {} THEN "sweep" ELSE "unlink")
      <4>1. req'[t].held = rest
        BY <1>0, <3>2 DEF ThreadsOK, Request
      <4>2. pc'[t] = IF rest = {} THEN "sweep" ELSE "unlink"
        BY <1>0, <3>2 DEF ThreadsOK, Goto
      <4> QED
        BY <4>1, <4>2
    <3> QED
      BY <2>1, <3>1, <3>2, Zenon DEF Dropped
  <2>5. Extra(t)' = rest /\ Reserves(t)' = 0 /\ OnDisk(t)' = Extra(t)'
    BY <2>4 DEF Extra, Reserves, OnDisk
  <2> QED
    BY <2>1, <2>2, <2>3, <2>5 DEF Extra, OnDisk, Reserves
<1> QED
  BY <1>1, <1>2, <1>3, <1>4, <1>5, <1>6

\* The steps that touch the disk or the counter.
Loud(t) == Upload(t) \/ WriteFile(t) \/ GiveBack(t) \/ Settle(t) \/ Unlink(t) \/ Refund(t)

\* The other steps of such a deployment move a file between what is named and what is
\* in hand, and touch neither.
LEMMA CalmSteps ==
    ASSUME Typed, Filed, NEW t \in Threads, Calm, members = Users, Served(t), Step(t)
    PROVE  /\ ~Purge(t) /\ ~PurgePosts(t) /\ ~PurgeMessages(t) /\ ~ForgetUser(t)
           /\ Loud(t) \/ (Covers(t) /\ UNCHANGED <<disk, size, minted, used>>)
           /\ members' = members
<1>1. ~Purge(t)
  BY DEF Purge, Begin, Calm
<1>2. ~PurgePosts(t) /\ ~PurgeMessages(t) /\ ~ForgetUser(t)
  BY DEF PurgePosts, PurgeMessages, ForgetUser, At, Served
<1>3. Recheck(t) \/ Record(t) \/ RereadFile(t) \/ SetServerIcon(t) \/ SaveIcon(t) => Covers(t)
  BY StoredCovers
<1>4. Replace(t) \/ Point(t) \/ ReadHeld(t) \/ ClearMedia(t) \/ ClearPicture(t) \/ ClearIcon(t) => Covers(t)
  BY PictureCovers
<1>5. SendMessage(t) \/ CreatePost(t) \/ CreateRow(t) \/ RereadRow(t) \/ Claim(t) \/ Bind(t) \/ ReadBack(t)
      \/ Announce(t) \/ Rollback(t) => Covers(t)
  BY MessageCovers
<1>6. DeleteMessage(t) \/ DeletePost(t) \/ DeleteChannel(t) \/ Delete(t) \/ Sweep(t) \/ SweepNext(t) => Covers(t)
  BY DeletionCovers
<1>7. Recheck(t) \/ Record(t) \/ RereadFile(t) \/ SetServerIcon(t) \/ SaveIcon(t)
      \/ Replace(t) \/ Point(t) \/ ReadHeld(t) \/ ClearMedia(t) \/ ClearPicture(t) \/ ClearIcon(t)
      => UNCHANGED <<disk, size, minted, used, members>>
  BY Frame
<1>8. SendMessage(t) \/ CreatePost(t) \/ CreateRow(t) \/ RereadRow(t) \/ Claim(t) \/ Bind(t) \/ ReadBack(t)
      \/ Announce(t) \/ Rollback(t) \/ DeleteMessage(t) \/ DeletePost(t) \/ DeleteChannel(t) \/ Delete(t)
      \/ Sweep(t) \/ SweepNext(t) => UNCHANGED <<disk, size, minted, used, members>>
  BY Frame
<1>9. Loud(t) => members' = members
  BY Frame DEF Loud
<1>10. Loud(t) \/ (Covers(t) /\ UNCHANGED <<disk, size, minted, used, members>>)
  BY <1>1, <1>2, <1>3, <1>4, <1>5, <1>6, <1>7, <1>8 DEF Step, Loud
<1> QED
  BY <1>1, <1>2, <1>9, <1>10

\* The steps that touch the disk or the counter leave every name.
LEMMA LoudNames ==
    ASSUME NEW t \in Threads, Loud(t)
    PROVE  Named' = Named
<1>1. UNCHANGED <<row, pic, icon>>
  BY Frame DEF Loud
<1> QED
  BY <1>1 DEF Named, Attached, Pictures, Real

\* The counter stays the bytes of what is named and of what t has in hand, and the room
\* that t has reserved.
LEMMA BooksStep ==
    ASSUME Typed, Filed, NEW t \in Threads, Calm, members = Users, Served(t), \A k \in disk : k <= minted,
           Step(t), Books(t)
    PROVE  Books(t)'
<1> DEFINE S == Named \cup Extra(t)
           n == req[t].key
           m == Min(req[t].held)
<1>0. /\ \A k \in Extra(t) : k \in Keys /\ k <= minted /\ k \notin Named
      /\ \A k \in Named : k \in Keys /\ k \in disk
      /\ pc[t] = "settle" => n \in Keys /\ n <= minted /\ n \notin Named
  BY ExtraIs
<1>1. S \in SUBSET Keys /\ \A k \in S : k <= minted
  BY <1>0
<1>2. Sum(size', S) = Sum(size, S) /\ Sum(size, S) \in Nat /\ IsFiniteSet(S)
  <2> HIDE DEF S
  <2> QED
    BY <1>1, SumsStay
<1>3. /\ Books(t) <=> used = Sum(size, S) + Reserves(t)
      /\ Books(t)' <=> used' = Sum(size', Named' \cup Extra(t)') + Reserves(t)'
  <2>1. Summed'
    BY BooksAre, PTL
  <2> QED
    BY <2>1, BooksAre DEF Summed
<1>4. used \in Int /\ size \in [Keys -> 0..MaxFile] /\ Reserves(t) \in Nat
  BY InHandIs DEF SharedOK, Reserves
<1>5. CASE Covers(t) /\ UNCHANGED <<disk, size, minted, used>>
  <2>1. Named' \cup Extra(t)' = S /\ Reserves(t)' = 0 /\ Reserves(t) = 0
    BY <1>5 DEF Covers
  <2> HIDE DEF S
  <2> QED
    BY <1>2, <1>3, <1>5, <2>1
<1>6. ASSUME Loud(t), Extra(t)' = Extra(t), used' - Reserves(t)' = used - Reserves(t),
             Reserves(t)' \in Int, used' \in Int
      PROVE  Books(t)'
  <2>1. Named' \cup Extra(t)' = S
    BY <1>6, LoudNames
  <2> HIDE DEF S
  <2>2. Sum(size', Named' \cup Extra(t)') = Sum(size, S)
    BY <1>2, <2>1, Zenon
  <2> QED
    BY <1>2, <1>3, <1>4, <1>6, <2>2
<1>7. CASE Upload(t)
  <2>1. /\ Extra(t) = {} /\ Extra(t)' = {} /\ Reserves(t) = 0 /\ Reserves(t)' \in Nat
        /\ used' = used + Reserves(t)'
    BY <1>7, LoudBooks
  <2> QED
    BY <1>4, <1>6, <1>7, <2>1 DEF Loud
<1>8. CASE WriteFile(t)
  <2>1. Extra(t) = {} /\ Extra(t)' = {} /\ Reserves(t)' = Reserves(t) /\ used' = used
    BY <1>8, LoudBooks
  <2> QED
    BY <1>4, <1>6, <1>8, <2>1 DEF Loud
<1>9. CASE GiveBack(t)
  <2>1. Extra(t) = {} /\ Extra(t)' = {} /\ Reserves(t)' = 0 /\ used' = used - Reserves(t)
    BY <1>9, LoudBooks
  <2> QED
    BY <1>4, <1>6, <1>9, <2>1 DEF Loud
<1>10. CASE Settle(t)
  <2>1. /\ Extra(t) = {} /\ Extra(t)' = {n} /\ Reserves(t)' = 0 /\ pc[t] = "settle"
        /\ used' = used - Reserves(t) + size[n]
    BY <1>10, LoudBooks
  <2>2. size' = size /\ Named' = Named
    BY <1>10, Frame, LoudNames DEF Loud
  <2>3. n \in Keys /\ n \notin Named
    BY <1>0, <2>1
  <2> DEFINE T == Named \cup {n}
  <2>4. T \in SUBSET Keys /\ T \ {n} = S /\ n \in T /\ Named' \cup Extra(t)' = T
    BY <1>0, <2>1, <2>2, <2>3
  <2>5. Sum(size, T) = size[n] + Sum(size, S)
    <3>1. T \in SUBSET Keys /\ n \in T /\ T \ {n} = S
      BY <2>4
    <3> HIDE DEF T, S, n
    <3>2. Sum(size, T) = size[n] + Sum(size, T \ {n})
      BY <3>1, SizesWithout
    <3> QED
      BY <3>1, <3>2, Zenon
  <2>6. size[n] \in Int
    BY <1>4, <2>3
  <2> HIDE DEF T, S, n
  <2>7. Sum(size', Named' \cup Extra(t)') = Sum(size, T)
    BY <2>2, <2>4, Zenon
  <2> QED
    BY <1>2, <1>3, <1>4, <2>1, <2>5, <2>6, <2>7
<1>11. CASE Unlink(t)
  <2>1. Extra(t) = req[t].held /\ Extra(t)' = req[t].held /\ Reserves(t) = 0 /\ Reserves(t)' = 0 /\ used' = used
    BY <1>11, LoudBooks
  <2> QED
    BY <1>4, <1>6, <1>11, <2>1 DEF Loud
<1>12. CASE Refund(t)
  <2>1. /\ Extra(t) = req[t].held /\ Extra(t)' = req[t].held \ {m} /\ m \in req[t].held
        /\ Reserves(t) = 0 /\ Reserves(t)' = 0
        /\ used' = IF size[m] > used THEN 0 ELSE used - size[m]
    BY <1>12, LoudBooks
  <2>2. size' = size /\ Named' = Named
    BY <1>12, Frame, LoudNames DEF Loud
  <2>3. m \in Keys /\ m \notin Named
    BY <1>0, <2>1
  <2> DEFINE T == S \ {m}
  <2>4. m \in S /\ Named' \cup Extra(t)' = T /\ T \in SUBSET Keys
    BY <1>1, <2>1, <2>2, <2>3
  <2>5. Sum(size, S) = size[m] + Sum(size, T)
    <3>2. \A k \in S : size[k] \in Int
      BY <1>1, <1>4
    <3> HIDE DEF S, m
    <3> QED
      BY <1>2, <2>4, <3>2, SumWithout
  <2>6. size[m] \in Int /\ Sum(size, T) \in Nat
    <3>1. size[m] \in Int
      BY <1>4, <2>3
    <3> HIDE DEF T
    <3>2. Sum(size, T) \in Nat
      BY <2>4, InHandIs, BytesAre
    <3> QED
      BY <3>1, <3>2
  <2> HIDE DEF T, S, m
  <2>7. Sum(size', Named' \cup Extra(t)') = Sum(size, T)
    BY <2>2, <2>4, Zenon
  <2> QED
    BY <1>2, <1>3, <1>4, <2>1, <2>5, <2>6, <2>7
<1>13. Loud(t) \/ (Covers(t) /\ UNCHANGED <<disk, size, minted, used>>)
  BY CalmSteps
<1> QED
  BY <1>5, <1>7, <1>8, <1>9, <1>10, <1>11, <1>12, <1>13 DEF Loud

\* Until the first crash, the disk holds what is named and what t has in hand.
LEMMA ShelvesStep ==
    ASSUME Typed, Filed, NEW t \in Threads, Calm, members = Users, Served(t), Step(t), Shelves(t)
    PROVE  Shelves(t)'
<1>0. \A k \in Extra(t) : k \notin Named
  BY ExtraIs
<1>1. CASE Covers(t) /\ UNCHANGED <<disk, size, minted, used>>
  <2>1. OnDisk(t) = Extra(t) /\ OnDisk(t)' = Extra(t)' /\ Named' \cup Extra(t)' = Named \cup Extra(t)
    BY <1>1 DEF OnDisk, Covers
  <2> QED
    BY <1>1, <2>1 DEF Shelves
<1>2. CASE Upload(t) \/ GiveBack(t) \/ Settle(t)
  <2>1. OnDisk(t)' = OnDisk(t) /\ disk' = disk
    BY <1>2, LoudBooks
  <2> QED
    BY <1>2, <2>1, LoudNames DEF Loud, Shelves
<1>3. CASE WriteFile(t)
  <2>1. OnDisk(t) = {} /\ \/ OnDisk(t)' = {} /\ disk' = disk
                          \/ OnDisk(t)' = {minted + 1} /\ disk' = disk \cup {minted + 1}
    BY <1>3, LoudBooks
  <2> QED
    BY <1>3, <2>1, LoudNames DEF Loud, Shelves
<1>4. CASE Unlink(t)
  <2> DEFINE m == Min(req[t].held)
  <2>1. /\ Extra(t) = req[t].held /\ OnDisk(t) = req[t].held /\ OnDisk(t)' = req[t].held \ {m}
        /\ disk' = disk \ {m} /\ m \in req[t].held
    BY <1>4, LoudBooks
  <2>2. m \notin Named /\ Named' = Named
    BY <1>0, <1>4, <2>1, LoudNames DEF Loud
  <2> HIDE DEF m
  <2> QED
    BY <2>1, <2>2 DEF Shelves
<1>5. CASE Refund(t)
  <2>1. OnDisk(t)' = OnDisk(t) /\ disk' = disk
    BY <1>5, LoudBooks
  <2> QED
    BY <1>5, <2>1, LoudNames DEF Loud, Shelves
<1>6. Loud(t) \/ (Covers(t) /\ UNCHANGED <<disk, size, minted, used>>)
  BY CalmSteps
<1> QED
  BY <1>1, <1>2, <1>3, <1>4, <1>5, <1>6 DEF Loud

\* A user points at their picture, or their request sees to it.
LEMMA PointsStep ==
    ASSUME Typed, Filed, NEW t \in Threads, Calm, members = Users, Served(t), Step(t), Points(t)
    PROVE  Points(t)'
<1>0. /\ SharedOK /\ ThreadsOK /\ FitAt(pc[t], req[t]) /\ req[t].key \in Keys \cup {NoKey} /\ \A f : ~Fails(f)
      /\ pic \in [Users -> Keys \cup {NoKey}] /\ shown \in [Users -> Keys \cup {NoKey}]
      /\ \A u \in Users : shown[u] # pic[u] => pc[t] \in {"point", "unpicture", "clear"} /\ req[t].who = u
  BY InHandIs DEF SharedOK, Calm, Fails, Points
<1>1. CASE pc[t] \notin {"point", "unpicture", "clear"} /\ pic' = pic /\ shown' = shown
  BY <1>0, <1>1 DEF Points
<1>2. CASE Replace(t)
  <2>1. pc[t] = "saved" /\ shown' = shown /\ (req[t].call = "picture") /\ req[t].who \in Users
    BY <1>0, <1>2, Frame DEF Replace, At, FitAt
  <2>2. \/ pic' = [pic EXCEPT ![req[t].who] = req[t].key] /\ Took(t, "point", Displaced(req[t].who))
        \/ pic' = pic
    BY <1>2, Goes
  <2>3. CASE pic' = pic
    BY <1>0, <2>1, <2>3 DEF Points
  <2>4. CASE pic' = [pic EXCEPT ![req[t].who] = req[t].key] /\ Took(t, "point", Displaced(req[t].who))
    <3>1. pc'[t] = "point" /\ req'[t].who = req[t].who
      BY <2>4 DEF Took, Turned
    <3>2. \A u \in Users \ {req[t].who} : pic'[u] = pic[u]
      BY <1>0, <2>4
    <3>3. \A u \in Users : shown[u] = pic[u]
      BY <1>0, <2>1
    <3> QED
      BY <2>1, <3>1, <3>2, <3>3 DEF Points
  <2> QED
    BY <2>2, <2>3, <2>4
<1>3. CASE Point(t)
  <2>1. pc[t] = "point" /\ pic' = pic /\ req[t].who \in Users
    BY <1>0, <1>3, Frame DEF Point, At, FitAt
  <2>2. shown' = [shown EXCEPT ![req[t].who] = req[t].key]
    BY <1>0, <1>3, <2>1 DEF Point
  <2>3. pic[req[t].who] = req[t].key
    BY <2>1 DEF Served
  <2>4. \A u \in Users : shown'[u] = pic'[u]
    BY <1>0, <2>1, <2>2, <2>3
  <2> QED
    BY <2>4 DEF Points
<1>4. CASE ClearPicture(t)
  <2>1. PICK u \in members : /\ Begin(t, "clear", "unpicture", [NoRequest EXCEPT !.who = u])
                             /\ shown' = [shown EXCEPT ![u] = NoKey]
    BY <1>4 DEF ClearPicture
  <2>2. Begun(t, "unpicture", "clear", u, 0, 0, {}, {})
    BY <1>0, <2>1, BeginIs DEF SharedOK
  <2>3. pc'[t] = "unpicture" /\ req'[t].who = u
    BY <1>0, <2>2, BegunMoves DEF Is, Steps
  <2>4. pc[t] = "idle" /\ pic' = pic
    BY <1>4, Frame, StartsAt DEF Starts
  <2>5. \A v \in Users \ {u} : shown'[v] = pic'[v]
    BY <1>0, <2>1, <2>4
  <2> QED
    BY <2>3, <2>5 DEF Points
<1>5. CASE ReadHeld(t)
  <2>1. pc[t] = "unpicture" /\ pic' = pic /\ shown' = shown /\ shown[req[t].who] = NoKey
    BY <1>5, Frame DEF ReadHeld, At, Served
  <2>2. CASE pic[req[t].who] = NoKey
    <3>1. \A u \in Users : shown'[u] = pic'[u]
      BY <1>0, <2>1, <2>2
    <3> QED
      BY <3>1 DEF Points
  <2>3. CASE pic[req[t].who] # NoKey
    <3>2. req' = [req EXCEPT ![t].held = {pic[req[t].who]}] /\ Goto(t, "clear")
      BY <1>5, <2>3 DEF ReadHeld
    <3>3. pc'[t] = "clear" /\ req'[t].who = req[t].who
      BY <1>0, <3>2 DEF ThreadsOK, Goto, Request
    <3> QED
      BY <1>0, <2>1, <3>3 DEF Points
  <2> QED
    BY <2>2, <2>3
<1>6. CASE ClearMedia(t)
  <2>1. pc[t] = "clear" /\ shown' = shown /\ req[t].who \in Users /\ shown[req[t].who] = NoKey
    BY <1>0, <1>6, Frame DEF ClearMedia, At, FitAt, Served
  <2>2. pic' = [pic EXCEPT ![req[t].who] = NoKey]
    BY <1>0, <1>6 DEF ClearMedia
  <2>3. \A u \in Users : shown'[u] = pic'[u]
    BY <1>0, <2>1, <2>2
  <2> QED
    BY <2>3 DEF Points
<1>7. CASE Upload(t) \/ WriteFile(t) \/ GiveBack(t) \/ Settle(t) \/ Recheck(t) \/ Unlink(t) \/ Refund(t)
           \/ Record(t) \/ RereadFile(t) \/ SetServerIcon(t) \/ SaveIcon(t) \/ ClearIcon(t)
  <2>1. pic' = pic /\ shown' = shown
    BY <1>7, Frame
  <2>2. pc[t] \notin {"point", "unpicture", "clear"}
    BY <1>7, StartsAt DEF Starts, WriteFile, GiveBack, Settle, Recheck, Unlink, Refund, Record, RereadFile,
                          SetServerIcon, SaveIcon, At
  <2> QED
    BY <1>1, <2>1, <2>2
<1>8. CASE SendMessage(t) \/ CreatePost(t) \/ CreateRow(t) \/ RereadRow(t)
           \/ Claim(t) \/ Bind(t) \/ ReadBack(t) \/ Announce(t) \/ Rollback(t)
           \/ DeleteMessage(t) \/ DeletePost(t) \/ DeleteChannel(t) \/ Delete(t) \/ Sweep(t) \/ SweepNext(t)
  <2>1. pic' = pic /\ shown' = shown
    BY <1>8, Frame
  <2>2. pc[t] \notin {"point", "unpicture", "clear"}
    BY <1>8, StartsAt DEF Starts, CreateRow, RereadRow, Claim, Bind, ReadBack, Announce, Rollback, Delete,
                          SweepNext, At
  <2> QED
    BY <1>1, <2>1, <2>2
<1> QED
  BY <1>2, <1>3, <1>4, <1>5, <1>6, <1>7, <1>8, CalmSteps DEF Step

\* A request that stores a file has no message yet.
LEMMA StoresFirst ==
    ASSUME Typed, NEW t \in Threads, Served(t), Step(t)
    PROVE  pc'[t] \in {"write", "settle", "recheck", "saved"} => req'[t].msg = NoMessage
<1> DEFINE Early == {"write", "settle", "recheck", "saved"}
<1>0. SharedOK /\ ThreadsOK /\ (pc[t] \in Early => req[t].msg = NoMessage)
  BY InHandIs DEF Served
<1>1. CASE Upload(t)
  <2>1. PICK c, n, u : Begun(t, "write", c, u, n, 0, {}, {})
    BY <1>0, <1>1, Begins
  <2>2. Is(req'[t], c, u, n, 0, {}, {})
    BY <1>0, <2>1, BegunMoves DEF Steps
  <2> QED
    BY <2>2 DEF Is
<1>2. CASE WriteFile(t) \/ Settle(t) \/ Recheck(t)
  <2>1. pc[t] \in Early
    BY <1>2 DEF WriteFile, Settle, Recheck, At
  <2>2. req'[t].msg = req[t].msg \/ pc'[t] \notin Early
    BY <1>2, Goes DEF Dropping, Rested, Stayed, Took, Turned
  <2> QED
    BY <1>0, <2>1, <2>2
<1>3. CASE GiveBack(t) \/ Unlink(t) \/ Refund(t) \/ Record(t) \/ RereadFile(t) \/ Replace(t) \/ Point(t)
           \/ ReadHeld(t) \/ ClearMedia(t) \/ SetServerIcon(t) \/ SaveIcon(t)
  <2>1. pc'[t] \notin Early
    BY <1>3, Goes DEF Dropping, DropsNext, Rested, Stayed, Took, Turned
  <2> QED
    BY <2>1
<1>4. CASE CreateRow(t) \/ RereadRow(t) \/ Claim(t) \/ Bind(t) \/ ReadBack(t) \/ Announce(t)
  <2>1. pc'[t] \notin Early
    BY <1>4, Goes DEF Dropping, Rested, Stayed, Took, Turned
  <2> QED
    BY <2>1
<1>5. CASE Rollback(t) \/ Delete(t) \/ PurgePosts(t) \/ PurgeMessages(t) \/ ForgetUser(t) \/ SweepNext(t)
  <2>1. pc'[t] \notin Early
    BY <1>5, Goes DEF Dropping, Rested, Stayed, Took, Turned
  <2> QED
    BY <2>1
<1>6. CASE ClearPicture(t) \/ ClearIcon(t) \/ SendMessage(t) \/ CreatePost(t) \/ DeleteMessage(t)
           \/ DeletePost(t) \/ DeleteChannel(t) \/ Sweep(t)
  BY <1>6, StartsAt
<1>7. CASE Purge(t)
  <2>1. PICK u \in members, m \in msgs \cup {0}, p \in {"forget", "purge"} : Begun(t, p, "purge", u, 0, m, {}, {})
    BY <1>0, <1>7, Begins
  <2>2. pc'[t] = p
    BY <1>0, <2>1, BegunMoves DEF Steps
  <2> QED
    BY <2>2
<1> QED
  BY <1>1, <1>2, <1>3, <1>4, <1>5, <1>6, <1>7 DEF Step

\* Numbers are given out in order.
LEMMA NumberedStep ==
    ASSUME Typed, Filed, NEW t \in Threads, Served(t), Numbered, Step(t)
    PROVE  Numbered'
<1>0. /\ SharedOK /\ written \in 0..MaxMessages /\ msgs \subseteq Messages /\ posts \subseteq Messages
      /\ thread \in [Messages -> 0..MaxMessages] /\ minted \in 0..MaxKeys /\ disk \subseteq Keys
      /\ FitAt(pc[t], req[t]) /\ req[t].msg \in 0..MaxMessages
  BY InHandIs DEF SharedOK
<1>1. \A k \in disk' : k <= minted'
  <2>1. CASE WriteFile(t)
    <3>1. \/ minted' = minted + 1 /\ disk' = disk \cup {minted + 1}
          \/ UNCHANGED <<disk, minted>>
      BY <2>1, Goes
    <3>2. \A k \in disk : k <= minted
      BY DEF Numbered
    <3>3. \A k \in disk : k \in Int
      BY <1>0
    <3>4. \A k \in disk : k <= minted + 1
      BY <1>0, <3>2, <3>3
    <3>5. minted + 1 <= minted + 1
      BY <1>0
    <3> QED
      BY <3>1, <3>2, <3>4, <3>5
  <2>2. CASE Unlink(t)
    <3>1. disk' \subseteq disk /\ minted' = minted
      BY <2>2, Goes, Frame
    <3> QED
      BY <3>1 DEF Numbered
  <2>3. CASE ~WriteFile(t) /\ ~Unlink(t)
    <3>1. UNCHANGED <<disk, minted>>
      BY <2>3, FilesActs, Frame
    <3> QED
      BY <3>1 DEF Numbered
  <2> QED
    BY <2>1, <2>2, <2>3
<1>2. ASSUME msgs' \subseteq msgs, posts' \subseteq posts, written' = written, thread' = thread
      PROVE  (\A m \in msgs' : m <= written' /\ thread'[m] <= written') /\ \A p \in posts' : p <= written'
  BY <1>2 DEF Numbered
<1>3. CASE CreateRow(t)
  <2>1. CASE /\ written < MaxMessages /\ written' = written + 1 /\ msgs' = msgs \cup {written + 1}
             /\ thread' = [thread EXCEPT ![written + 1] = IF req[t].call = "post" THEN written + 1 ELSE req[t].msg]
             /\ posts' \in {posts, posts \cup {written + 1}}
             /\ req[t].call = "send" => req[t].msg \in posts \cup {NoMessage}
    <3>1. written + 1 \in Messages
      BY <1>0, <2>1
    <3>2. pc[t] = "create" => req[t].call \in {"send", "post"}
      BY <1>0 DEF FitAt, Saying
    <3>3. pc[t] = "saved" => req[t].msg = NoMessage
      BY DEF Served
    <3>4. pc[t] \in {"create", "saved"}
      BY <1>3 DEF CreateRow, At
    <3>5. req[t].call # "post" => req[t].msg <= written
      BY <1>0, <2>1, <3>2, <3>3, <3>4 DEF Numbered
    <3>6. thread'[written + 1] <= written'
      BY <1>0, <2>1, <3>1, <3>5
    <3>7. \A m \in msgs : thread'[m] <= written' /\ m <= written'
      <4> SUFFICES ASSUME NEW m \in msgs
                   PROVE  thread'[m] <= written' /\ m <= written'
        OBVIOUS
      <4>1. m <= written /\ thread[m] <= written /\ m \in Messages /\ m # written + 1
        BY <1>0 DEF Numbered
      <4>2. thread'[m] = thread[m]
        BY <1>0, <2>1, <4>1
      <4>3. thread[m] \in 0..MaxMessages
        BY <1>0, <4>1
      <4> QED
        BY <1>0, <2>1, <4>1, <4>2, <4>3
    <3>8. \A p \in posts' : p <= written'
      BY <1>0, <2>1 DEF Numbered
    <3> QED
      BY <1>0, <1>1, <2>1, <3>6, <3>7, <3>8 DEF Numbered
  <2>2. CASE UNCHANGED <<msgs, written, posts, thread>>
    BY <1>1, <1>2, <2>2 DEF Numbered
  <2>3. \/ req[t].call = "send" => req[t].msg \in posts \cup {NoMessage}
        \/ UNCHANGED <<msgs, written, posts, thread>>
    BY <1>3 DEF CreateRow
  <2> QED
    BY <1>3, <2>1, <2>2, <2>3, Goes
<1>4. CASE Delete(t)
  <2>1. msgs' \subseteq msgs /\ posts' \subseteq posts /\ written' = written /\ thread' = thread
    BY <1>4 DEF Delete, DeleteRows, talk
  <2> QED
    BY <1>1, <1>2, <2>1 DEF Numbered
<1>5. CASE Rollback(t)
  <2>1. msgs' \subseteq msgs /\ posts' \subseteq posts /\ written' = written /\ thread' = thread
    BY <1>5 DEF Rollback, DeleteRows
  <2> QED
    BY <1>1, <1>2, <2>1 DEF Numbered
<1>6. CASE PurgePosts(t) \/ PurgeMessages(t)
  BY <1>6 DEF Served, PurgePosts, PurgeMessages, At
<1>7. CASE UNCHANGED <<msgs, written, posts, thread, row>>
  BY <1>1, <1>2, <1>7 DEF Numbered
<1>8. CASE Record(t) \/ Claim(t) \/ Bind(t) \/ SweepNext(t)
  <2>1. UNCHANGED <<msgs, written, posts, thread>>
    BY <1>8, Frame
  <2> QED
    BY <1>1, <1>2, <2>1 DEF Numbered
<1> QED
  BY <1>3, <1>4, <1>5, <1>6, <1>7, <1>8, MessagesActs

\* A message that is new has no file and, if it is a post, no comment.
LEMMA FreshIsNew ==
    ASSUME Typed, Filed, NEW t \in Threads, Numbered, CreateRow(t), pc'[t] = "reread"
    PROVE  Fresh(t)' /\ req'[t].call # "attach"
<1>0. /\ written \in 0..MaxMessages /\ msgs \subseteq Messages
      /\ thread \in [Messages -> 0..MaxMessages] /\ row \in [Keys -> 0..(MaxMessages + 1)]
      /\ FitAt(pc[t], req[t])
  BY InHandIs DEF SharedOK
<1>1. /\ written < MaxMessages /\ msgs' = msgs \cup {written + 1}
      /\ thread' = [thread EXCEPT ![written + 1] = IF req[t].call = "post" THEN written + 1 ELSE req[t].msg]
      /\ req'[t].msg = written + 1 /\ req'[t].call = req[t].call
  BY Goes DEF Turned, Dropping, Rested, Took
<1>2. row' = row
  BY Frame
<1>3. \A k \in Keys : row'[k] # req'[t].msg
  <2>1. \A k \in Keys : row[k] \in msgs \cup {NoRow, Pending}
    BY DEF Filed, Kind, RowsOfMessages
  <2>2. \A k \in Keys : row[k] # written + 1
    <3> SUFFICES ASSUME NEW k \in Keys, row[k] = written + 1
                 PROVE  FALSE
      OBVIOUS
    <3>1. row[k] \notin msgs
      BY <1>0 DEF Numbered
    <3>2. row[k] \in {NoRow, Pending}
      BY <2>1, <3>1
    <3> QED
      BY <1>0, <1>1, <3>2
  <2> QED
    BY <1>1, <1>2, <2>2
<1>4. ASSUME NEW x \in msgs', thread'[x] = written + 1
      PROVE  x = written + 1
  <2> SUFFICES ASSUME x \in msgs, x # written + 1
               PROVE  FALSE
    BY <1>1
  <2>1. x \in Messages /\ thread[x] <= written /\ thread[x] \in 0..MaxMessages
    BY <1>0 DEF Numbered
  <2>2. thread'[x] = thread[x]
    BY <1>0, <1>1, <2>1
  <2> QED
    BY <1>0, <1>4, <2>1, <2>2
<1>5. Threaded(req[t].msg)' \subseteq {req'[t].msg}
  BY <1>1, <1>4 DEF Threaded
<1>6. req[t].call # "attach"
  BY <1>0 DEF CreateRow, At, FitAt, Saying
<1> QED
  BY <1>1, <1>3, <1>5, <1>6 DEF Fresh

\* A request finds what it left, one step later.
LEMMA ServedMoves ==
    ASSUME Typed, Filed, NEW t \in Threads, Calm, members = Users, Served(t), Numbered,
           pc[t] # "saveicon" => icon = savedIcon, Step(t)
    PROVE  Served(t)'
<1>0. /\ SharedOK /\ ThreadsOK /\ FitAt(pc[t], req[t]) /\ \A f : ~Fails(f)
      /\ row \in [Keys -> 0..(MaxMessages + 1)] /\ icon \in Keys \cup {NoKey}
      /\ req[t].held \subseteq Keys /\ msgs \subseteq Messages
      /\ pic \in [Users -> Keys \cup {NoKey}] /\ shown \in [Users -> Keys \cup {NoKey}]
  BY InHandIs DEF SharedOK, Calm, Fails
<1>a. ~Purge(t) /\ ~PurgePosts(t) /\ ~PurgeMessages(t)
  BY CalmSteps
<1>1. pc'[t] \notin {"purge", "unsay", "forget"}
  BY <1>a, Arrivals
<1>2. pc'[t] \in {"write", "settle", "recheck", "saved"} => req'[t].msg = NoMessage
  BY StoresFirst
<1>3. ASSUME pc'[t] = "reread"
      PROVE  IF req'[t].call = "attach" THEN row'[req'[t].key] # NoRow ELSE Fresh(t)'
  <2>1. CASE CreateRow(t)
    BY <1>3, <2>1, FreshIsNew
  <2>2. CASE Record(t)
    <3>1. row' = [row EXCEPT ![req[t].key] = Pending] /\ Stayed(t, "reread")
      BY <1>3, <2>2, Goes DEF Dropping, Rested, Took, Turned
    <3>2. req'[t].key = req[t].key /\ req'[t].call = "attach" /\ req[t].key \in Keys
      BY <1>0, <2>2, <3>1 DEF Record, At, Stayed, Turned, FitAt
    <3> QED
      BY <1>0, <3>1, <3>2
  <2> QED
    BY <1>3, <2>1, <2>2, Arrivals
<1>4. ASSUME pc'[t] \in {"claim", "rollback"}
      PROVE  Fresh(t)'
  <2>1. CASE RereadRow(t)
    <3>1. Fresh(t)
      BY <2>1 DEF RereadRow, At, Served
    <3>2. UNCHANGED <<row, msgs, thread>>
      BY <2>1, Frame
    <3>3. req'[t].msg = req[t].msg /\ req'[t].call = req[t].call
      BY <1>4, <2>1, Goes DEF Stayed, Took, Turned, Dropping, Rested
    <3> QED
      BY <3>1, <3>2, <3>3 DEF Fresh, Threaded
  <2>2. CASE Claim(t) \/ Bind(t)
    <3>1. Fresh(t)
      BY <2>2 DEF Claim, Bind, At, Served
    <3>2. UNCHANGED <<msgs, thread>>
      BY <2>2, Frame
    <3>3. row' = row /\ req'[t].msg = req[t].msg /\ req'[t].call = req[t].call
      BY <1>4, <2>2, Goes, Arrivals DEF Stayed, Took, Turned
    <3> QED
      BY <3>1, <3>2, <3>3 DEF Fresh, Threaded
  <2>3. CASE ReadBack(t)
    <3>1. ~(req[t].call = "delivery" /\ row[req[t].key] = NoRow)
      BY <2>3 DEF ReadBack, At, Served
    <3>2. pc'[t] = "announce"
      BY <1>0, <2>3, <3>1, Goes DEF Took, Turned
    <3> QED
      BY <1>4, <3>2
  <2> QED
    BY <1>4, <2>1, <2>2, <2>3, Arrivals
<1>5. ASSUME pc'[t] = "readback", req'[t].call = "delivery"
      PROVE  row'[req'[t].key] # NoRow
  <2>1. CASE Claim(t)
    BY <1>5, <2>1, Goes DEF Stayed, Turned
  <2>2. CASE Bind(t)
    <3>1. /\ row' = [row EXCEPT ![req[t].key] = req[t].msg] /\ Stayed(t, "readback")
          /\ pc[t] = "claim" /\ req[t].call = "delivery"
      BY <1>5, <2>2, Goes DEF Stayed, Turned
    <3>2. req[t].key \in Keys /\ req[t].msg \in Messages
      BY <1>0, <3>1 DEF FitAt, Uploading
    <3>3. req'[t].key = req[t].key
      BY <3>1 DEF Stayed, Turned
    <3> QED
      BY <1>0, <3>1, <3>2, <3>3
  <2> QED
    BY <1>5, <2>1, <2>2, Arrivals
<1>6. ASSUME pc'[t] = "clear"
      PROVE  /\ req'[t].held = {pic'[req'[t].who]} /\ pic'[req'[t].who] # NoKey
             /\ shown'[req'[t].who] = NoKey
  <2>1. ReadHeld(t)
    BY <1>6, Arrivals
  <2>2. pic' = pic /\ shown' = shown
    BY <2>1, Frame
  <2>3. pic[req[t].who] # NoKey /\ Took(t, "clear", {pic[req[t].who]})
    BY <1>6, <2>1, Goes DEF Rested
  <2>4. req'[t].who = req[t].who /\ req'[t].held = {pic[req[t].who]}
    BY <2>3 DEF Took, Turned
  <2>5. shown[req[t].who] = NoKey
    BY <2>1 DEF ReadHeld, At, Served
  <2> QED
    BY <2>2, <2>3, <2>4, <2>5
<1>7. ASSUME pc'[t] = "unpicture"
      PROVE  shown'[req'[t].who] = NoKey
  <2>1. CASE Point(t)
    <3>1. req[t].who \in Users
      BY <1>0, <2>1 DEF Point, At, FitAt
    <3>2. Drop(t, req[t].held)
      BY <1>0, <2>1, <3>1 DEF Point
    <3>3. pc'[t] \in {"idle", "unlink"}
      BY <1>0, <3>2, DropsExtra
    <3> QED
      BY <1>7, <3>3
  <2>2. CASE ClearPicture(t)
    <3>1. PICK u \in members : /\ Begin(t, "clear", "unpicture", [NoRequest EXCEPT !.who = u])
                               /\ shown' = [shown EXCEPT ![u] = NoKey]
      BY <2>2 DEF ClearPicture
    <3>2. Begun(t, "unpicture", "clear", u, 0, 0, {}, {})
      BY <1>0, <3>1, BeginIs DEF SharedOK
    <3>3. req'[t].who = u
      BY <1>0, <3>2, BegunMoves DEF Is, Steps
    <3> QED
      BY <1>0, <3>1, <3>3
  <2> QED
    BY <1>7, <2>1, <2>2, Arrivals
<1>8. ASSUME pc'[t] = "point"
      PROVE  pic'[req'[t].who] = req'[t].key
  <2>1. Replace(t)
    BY <1>8, Arrivals
  <2>2. pic' = [pic EXCEPT ![req[t].who] = req[t].key] /\ Took(t, "point", Displaced(req[t].who))
    BY <1>8, <2>1, Goes DEF Dropping, Rested, Took, Turned
  <2>3. req'[t].who = req[t].who /\ req'[t].key = req[t].key /\ req[t].who \in Users
    BY <1>0, <2>1, <2>2 DEF Took, Turned, Replace, At, FitAt
  <2> QED
    BY <1>0, <2>2, <2>3
<1>9. ASSUME pc'[t] = "delete"
      PROVE  req'[t].held = {k \in Keys : row'[k] \in Going(t)'}
  <2>1. UNCHANGED <<row, msgs, thread>>
    BY <1>9, Arrivals, Frame
  <2>2. CASE DeleteMessage(t)
    <3>1. PICK m \in msgs : Begun(t, "delete", "delete", NoUser, 0, m, Carried(m), {})
      BY <1>0, <2>2, Begins
    <3>2. req'[t].call = "delete" /\ req'[t].msg = m /\ req'[t].held = Carried(m)
      BY <1>0, <3>1, BegunMoves DEF Is, Steps
    <3>3. Going(t)' = {m}
      BY <3>2 DEF Going
    <3> QED
      BY <2>1, <3>2, <3>3 DEF Carried
  <2>3. CASE DeletePost(t)
    <3>1. PICK p \in posts : Begun(t, "delete", "deletepost", NoUser, 0, p,
                                   UNION {Carried(m) : m \in Threaded(p)}, {})
      BY <1>0, <2>3, Begins
    <3>2. /\ req'[t].call = "deletepost" /\ req'[t].msg = p
          /\ req'[t].held = UNION {Carried(m) : m \in Threaded(p)}
      BY <1>0, <3>1, BegunMoves DEF Is, Steps
    <3>3. Going(t)' = Threaded(p)
      BY <2>1, <3>2 DEF Going, Threaded
    <3>4. UNION {Carried(m) : m \in Threaded(p)} = {k \in Keys : row[k] \in Threaded(p)}
      BY DEF Carried
    <3> QED
      BY <2>1, <3>2, <3>3, <3>4
  <2>4. CASE DeleteChannel(t)
    <3>1. Begun(t, "delete", "channel", NoUser, 0, 0, Attached, {})
      BY <1>0, <2>4, Begins
    <3>2. req'[t].call = "channel" /\ req'[t].held = Attached
      BY <1>0, <3>1, BegunMoves DEF Is, Steps
    <3>3. Going(t)' = Messages \cup {Pending}
      BY <3>2 DEF Going
    <3>4. \A k \in Keys : row[k] # NoRow <=> row[k] \in Messages \cup {Pending}
      BY <1>0
    <3> QED
      BY <2>1, <3>2, <3>3, <3>4 DEF Attached
  <2> QED
    BY <1>9, <2>2, <2>3, <2>4, Arrivals
<1>10. ASSUME pc'[t] = "saveicon"
       PROVE  icon' = req'[t].key /\ req'[t].held = Real({savedIcon'}) /\ req'[t].held \subseteq disk'
  <2>1. pc[t] # "saveicon"
    BY <1>10, Arrivals, StartsAt DEF Starts, SetServerIcon, At
  <2>2. icon = savedIcon /\ savedIcon' = savedIcon /\ disk' = disk
    BY <1>10, <2>1, Arrivals, Frame
  <2>3. Real({icon}) \subseteq disk
    BY DEF Filed, BytesThere, NamedAreThere, Named
  <2>4. icon' = req'[t].key /\ req'[t].held = Real({icon})
    <3>1. CASE SetServerIcon(t)
      BY <3>1, Goes DEF Took, Turned
    <3>2. CASE ClearIcon(t)
      <4>1. Begun(t, "saveicon", "clear", NoUser, 0, 0, Real({icon}), {}) /\ icon' = NoKey
        BY <1>0, <3>2, Begins
      <4>2. req'[t].key = NoKey /\ req'[t].held = Real({icon})
        BY <1>0, <4>1, BegunMoves DEF Is, Steps
      <4> QED
        BY <4>1, <4>2
    <3> QED
      BY <1>10, <3>1, <3>2, Arrivals
  <2> QED
    BY <2>2, <2>3, <2>4
<1> QED
  BY <1>1, <1>2, <1>3, <1>4, <1>5, <1>6, <1>7, <1>8, <1>9, <1>10 DEF Served

\* The icon in the configuration file is the one in use, unless it is about to be.
LEMMA IconsStep ==
    ASSUME Typed, NEW t \in Threads, Calm, Served(t), pc[t] # "saveicon" => icon = savedIcon, Step(t)
    PROVE  pc'[t] # "saveicon" => icon' = savedIcon'
<1>1. CASE SaveIcon(t)
  <2>1. icon' = icon /\ savedIcon' = req[t].key
    BY <1>1, Frame DEF SaveIcon, Calm, Fails
  <2>2. icon = req[t].key
    BY <1>1 DEF SaveIcon, At, Served
  <2> QED
    BY <2>1, <2>2
<1>2. CASE SetServerIcon(t) \/ ClearIcon(t)
  BY <1>2, Goes, StartsAt DEF Took, Turned
<1>3. CASE UNCHANGED <<icon, savedIcon>> /\ ~SaveIcon(t)
  <2>1. Starts(t) => pc[t] = "idle"
    BY StartsAt
  <2>2. pc[t] # "saveicon"
    BY <1>3, <2>1 DEF Step, Starts, WriteFile, GiveBack, Settle, Recheck, Unlink, Refund,
             Record, RereadFile, Replace, Point, ReadHeld, ClearMedia, SetServerIcon, CreateRow,
             RereadRow, Claim, Bind, ReadBack, Announce, Rollback, Delete, PurgePosts, PurgeMessages,
             ForgetUser, SweepNext, At
  <2> QED
    BY <1>3, <2>2
<1>4. Announce(t) => UNCHANGED <<icon, savedIcon>> /\ pc[t] = "announce"
  BY Frame DEF Announce, At
<1>5. SaveIcon(t) => pc[t] = "saveicon"
  BY DEF SaveIcon, At
<1> QED
  BY <1>1, <1>2, <1>3, <1>4, <1>5, OthersActs

\* Where requests come one after the other.
InBalance == InTurn /\ Booked /\ (restarts = 0 => Shelved /\ Pointed)

\* Both as formulas of their own, for the state after a step.
EachSingle == \A t \in Threads : Single(t)
NamedSum == Bytes(Named) = Sum(size, Named)

\* Whichever thread is not idle, the books are its.
LEMMA EachIsSingle == EachSingle
BY SingleIs DEF EachSingle

\* The bytes of what is named are a sum.
LEMMA NamedSumIs == NamedSum
BY Zenon DEF NamedSum, Bytes, Sum

\* No request restarts anything.
LEMMA NoRestart ==
    ASSUME NEW t \in Threads, Step(t)
    PROVE  restarts' = restarts
<1>1. CASE Upload(t) \/ WriteFile(t) \/ GiveBack(t) \/ Settle(t) \/ Recheck(t) \/ Unlink(t) \/ Refund(t)
           \/ Record(t) \/ RereadFile(t) \/ Replace(t) \/ Point(t) \/ ReadHeld(t) \/ ClearMedia(t)
           \/ SetServerIcon(t) \/ SaveIcon(t) \/ ClearPicture(t) \/ ClearIcon(t)
  BY <1>1, Frame
<1>2. CASE SendMessage(t) \/ CreatePost(t) \/ CreateRow(t) \/ RereadRow(t)
           \/ Claim(t) \/ Bind(t) \/ ReadBack(t) \/ Announce(t) \/ Rollback(t)
           \/ DeleteMessage(t) \/ DeletePost(t) \/ DeleteChannel(t) \/ Delete(t)
           \/ Purge(t) \/ PurgePosts(t) \/ PurgeMessages(t) \/ ForgetUser(t)
           \/ Sweep(t) \/ SweepNext(t)
  BY <1>2, Frame
<1> QED
  BY <1>1, <1>2 DEF Step

\* Every step of a request leaves the books in balance.
LEMMA BalanceStep ==
    ASSUME Typed, Typed', Filed, Calm, InBalance, NEW t \in Threads, Step(t)
    PROVE  InBalance'
<1>0. /\ Alone /\ members = Users /\ Numbered /\ Served(t) /\ TypeOK /\ TypeOK'
      /\ \A k \in disk : k <= minted
  BY DEF InBalance, InTurn, Numbered, Typed
<1>1. (\A u \in Threads \ {t} : pc[u] = "idle" /\ pc'[u] = "idle") /\ Alone'
  BY <1>0, AloneStep
<1>2. Single(t) /\ Single(t)'
  <2>1. EachSingle'
    BY EachIsSingle, PTL
  <2> QED
    BY <2>1, EachIsSingle DEF EachSingle
<1>3. Books(t) /\ (restarts = 0 => Shelves(t) /\ Points(t))
  BY <1>0, <1>1, <1>2 DEF Single, InBalance
<1>4. pc[t] # "saveicon" => icon = savedIcon
  BY <1>1 DEF InBalance, InTurn, Active
<1>5. Booked' /\ (restarts' = 0 => Shelved' /\ Pointed')
  <2>1. Books(t)'
    BY <1>0, <1>3, BooksStep
  <2>2. restarts' = 0 => Shelves(t)' /\ Points(t)'
    BY <1>0, <1>3, NoRestart, ShelvesStep, PointsStep
  <2> QED
    BY <1>0, <1>1, <1>2, <2>1, <2>2 DEF Single
<1>6. \A u \in Threads : Served(u)'
  <2>1. Served(t)'
    BY <1>0, <1>4, ServedMoves
  <2>2. ASSUME NEW u \in Threads \ {t}
        PROVE  Served(u)'
    BY <1>1 DEF Served
  <2> QED
    BY <2>1, <2>2
<1>7. members' = Users /\ Numbered'
  BY <1>0, CalmSteps, NumberedStep
<1>8. (\A u \in Active' : pc'[u] # "saveicon") => icon' = savedIcon'
  <2>1. pc'[t] # "saveicon" => icon' = savedIcon'
    BY <1>0, <1>4, IconsStep
  <2> QED
    BY <2>1 DEF Active
<1> QED
  BY <1>1, <1>5, <1>6, <1>7, <1>8 DEF InBalance, InTurn

\* A crash and a start bring them back into balance.
LEMMA BalanceRestart ==
    ASSUME Typed, Typed', Filed, Calm, InTurn, Restart
    PROVE  InBalance'
<1>0. /\ SharedOK /\ restarts \in 0..plan.restarts /\ plan \in Plans
      /\ \A t \in Threads : Served(t)
  BY TypesAre DEF Typed, SharedOK, InTurn
<1>1. \A t \in Threads : pc'[t] = "idle"
  BY RestartRests
<1>2. UNCHANGED <<size, minted, row, pic, msgs, written, posts, thread, members>> /\ disk' \subseteq disk
      /\ restarts' = restarts + 1 /\ icon' = savedIcon'
      /\ used' = Bytes(Attached) + Bytes(Pictures) + Bytes(Real({savedIcon}))
  BY DEF Restart, talk
<1>3. Active' = {} /\ Idle' /\ Alone' /\ \A t \in Threads : Served(t)'
  <2>1. Active' = {} /\ Idle'
    BY <1>1 DEF Active, Idle, At
  <2>2. \A t \in Threads : Served(t)'
    BY <1>1 DEF Served
  <2> QED
    BY <2>1, <2>2 DEF Alone
<1>4. Real({savedIcon}) \subseteq disk
  <2>1. CASE \A t \in Active : pc[t] # "saveicon"
    <3>1. icon = savedIcon
      BY <2>1 DEF InTurn
    <3> QED
      BY <3>1 DEF Filed, BytesThere, NamedAreThere, Named
  <2>2. CASE \E t \in Active : pc[t] = "saveicon"
    <3>1. PICK t \in Threads : pc[t] = "saveicon"
      BY <2>2 DEF Active
    <3>2. req[t].held = Real({savedIcon}) /\ req[t].held \subseteq disk
      BY <1>0, <3>1 DEF Served
    <3> QED
      BY <3>2
  <2> QED
    BY <2>1, <2>2
<1>5. savedIcon' = savedIcon
  <2>1. CASE savedIcon = NoKey
    BY <2>1 DEF Restart
  <2>2. CASE savedIcon # NoKey
    <3>1. savedIcon \in disk \cap Kept
      BY <1>4, <2>2 DEF Real, Kept
    <3>2. savedIcon \in disk'
      BY <3>1 DEF Restart
    <3> QED
      BY <3>2 DEF Restart
  <2> QED
    BY <2>1, <2>2
<1> DEFINE A == Attached
           P == Pictures
           I == Real({savedIcon})
<1>6. A \subseteq Keys /\ P \subseteq Keys /\ I \subseteq Keys
  <2>1. (\A u \in Users : pic[u] \in Keys \cup {NoKey}) /\ savedIcon \in Keys \cup {NoKey}
    BY <1>0 DEF SharedOK
  <2> HIDE DEF Keys
  <2> QED
    BY <2>1 DEF Attached, Pictures, Real
<1>7. A \cap P = {} /\ (A \cup P) \cap I = {}
  <2>1. \A k \in A : k \in Keys /\ row[k] # NoRow
    BY DEF Attached
  <2>2. \A k \in A : \A u \in Users : pic[u] # k
    BY <2>1, KindIs DEF Filed, Plain
  <2>3. \A k \in P : \E u \in Users : k = pic[u]
    BY DEF Pictures, Real
  <2>4. \A k \in I : k = savedIcon /\ row[k] = NoRow /\ \A u \in Users : pic[u] # k
    BY DEF Real, Filed, Kind, IconsApart, IconFile
  <2> HIDE DEF A, P, I
  <2> QED
    BY <2>1, <2>2, <2>3, <2>4
<1>8. Named' = (A \cup P) \cup I
  BY <1>2, <1>5 DEF Named, Attached, Pictures, Real
<1>9. used' = Bytes(Named)'
  <2>1. Bytes(Named)' = Sum(size', Named')
    <3>1. NamedSum'
      BY NamedSumIs, PTL
    <3> QED
      BY <3>1 DEF NamedSum
  <2>2. /\ Bytes(A) = Sum(size, A) /\ Bytes(A) \in Nat /\ IsFiniteSet(A)
        /\ Bytes(P) = Sum(size, P) /\ Bytes(P) \in Nat /\ IsFiniteSet(P)
        /\ Bytes(I) = Sum(size, I) /\ Bytes(I) \in Nat /\ IsFiniteSet(I)
    <3> HIDE DEF A, P, I
    <3> QED
      BY <1>0, <1>6, BytesAre
  <2>3. used' = Bytes(A) + Bytes(P) + Bytes(I)
    BY <1>2
  <2>4. \A k \in Keys : size[k] \in Int
    BY <1>0 DEF SharedOK
  <2> HIDE DEF A, P, I
  <2>5. IsFiniteSet(A \cup P)
    BY <2>2, FS_Union
  <2>6. Sum(size, A \cup P) = Sum(size, A) + Sum(size, P)
    BY <1>6, <1>7, <2>2, <2>4, SumOfBoth
  <2>7. Sum(size, (A \cup P) \cup I) = Sum(size, A \cup P) + Sum(size, I)
    BY <1>6, <1>7, <2>2, <2>4, <2>5, SumOfBoth
  <2>8. Sum(size', Named') = Sum(size, (A \cup P) \cup I)
    BY <1>2, <1>8, Zenon
  <2> QED
    BY <2>1, <2>2, <2>3, <2>6, <2>7, <2>8
<1>10. Numbered' /\ members' = Users
  <2>1. Numbered /\ members = Users
    BY DEF InTurn
  <2> QED
    BY <1>2, <2>1 DEF Numbered
<1>11. restarts' # 0
  BY <1>0, <1>2, PlanIs
<1> QED
  BY <1>2, <1>3, <1>9, <1>10, <1>11 DEF InBalance, InTurn, Booked

\* They are in balance at the start.
LEMMA BalanceInit ==
    ASSUME Init
    PROVE  InBalance
<1>1. \A t \in Threads : pc[t] = "idle"
  BY DEF Init
<1>2. Active = {} /\ Idle /\ Alone /\ \A t \in Threads : Served(t)
  <2>1. Active = {} /\ Idle
    BY <1>1 DEF Active, Idle, At
  <2>2. \A t \in Threads : Served(t)
    BY <1>1 DEF Served
  <2> QED
    BY <2>1, <2>2 DEF Alone
<1>3. Named = {} /\ disk = {} /\ used = 0 /\ shown = pic /\ members = Users /\ icon = savedIcon
      /\ msgs = {} /\ posts = {}
  BY DEF Init, Named, Attached, Pictures, Real
<1>4. Bytes(Named) = 0
  <2>1. Sum(size, {}) = 0
    BY FS_EmptySet, SumTaken
  <2> QED
    BY <1>3, <2>1, NamedSumIs DEF NamedSum
<1> QED
  BY <1>2, <1>3, <1>4 DEF InBalance, InTurn, Numbered, Booked, Shelved, Pointed

\* Nothing happens, nothing changes.
LEMMA BalanceStutter ==
    ASSUME InBalance, UNCHANGED vars
    PROVE  InBalance'
<1>1. UNCHANGED <<plan, disk, size, minted, used, channel, msgs, written, posts, thread, author, members,
                  row, owner, pic, shown, icon, savedIcon, pc, req, restarts>>
  BY DEF vars, files, talk, rows, pictures, icons, bounds
<1>2. Named' = Named /\ Active' = Active /\ (Idle' <=> Idle)
  BY <1>1 DEF Named, Attached, Pictures, Real, Active, Idle, At
<1>3. \A t \in Threads : Extra(t)' = Extra(t) /\ Reserves(t)' = Reserves(t) /\ OnDisk(t)' = OnDisk(t)
  BY <1>1 DEF Extra, Reserves, OnDisk
<1>4. Booked'
  <2>1. NamedSum' /\ Summed'
    BY NamedSumIs, BooksAre, PTL
  <2>2. Bytes(Named)' = Bytes(Named)
    BY <1>1, <1>2, <2>1, NamedSumIs DEF NamedSum
  <2>3. ASSUME NEW t \in Active, Books(t)
        PROVE  Books(t)'
    <3>1. t \in Threads
      BY DEF Active
    <3>2. used = Sum(size, Named \cup Extra(t)) + Reserves(t)
      BY <2>3, <3>1, BooksAre DEF Summed
    <3>3. used' = Sum(size', Named' \cup Extra(t)') + Reserves(t)'
      BY <1>1, <1>2, <1>3, <3>1, <3>2
    <3> QED
      BY <2>1, <3>1, <3>3 DEF Summed
  <2> QED
    BY <1>1, <1>2, <2>2, <2>3 DEF InBalance, Booked
<1>5. restarts' = 0 => Shelved' /\ Pointed'
  <2>1. \A t \in Active : (Shelves(t)' <=> Shelves(t)) /\ (Points(t)' <=> Points(t)) /\ t \in Threads
    BY <1>1, <1>2, <1>3 DEF Shelves, Points, Active
  <2> QED
    BY <1>1, <1>2, <2>1 DEF InBalance, Shelved, Pointed
<1>6. InTurn'
  <2>1. \A t \in Threads : Served(t)' <=> Served(t)
    BY <1>1 DEF Served, Fresh, Going, Threaded
  <2> QED
    BY <1>1, <1>2, <2>1 DEF InBalance, InTurn, Alone, Numbered
<1> QED
  BY <1>4, <1>5, <1>6 DEF InBalance

\* Nothing happens, nothing changes.
LEMMA CountedStutter ==
    ASSUME Typed, Typed', Counted, Removed, UNCHANGED vars
    PROVE  Counted' /\ Removed'
<1>1. UNCHANGED <<plan, disk, size, minted, used, channel, msgs, written, posts, thread, author, members,
                  row, owner, pic, shown, icon, savedIcon, pc, req, restarts>>
  BY DEF vars, files, talk, rows, pictures, icons, bounds
<1>2. Bytes(disk)' = Bytes(disk)
  <2>1. (SharedOK => Bytes(disk) = Sum(size, disk) /\ Bytes(disk) \in Nat)'
    BY BytesSum, PTL
  <2>2. SharedOK' /\ SharedOK
    BY TypesAre, PTL DEF Typed
  <2> QED
    BY <1>1, <2>1, <2>2, BytesSum
<1>3. Active' = Active /\ Due' = Due
  BY <1>1 DEF Active, Due, DueOf
<1>4. Counted'
  BY <1>1, <1>2, <1>3 DEF Counted
<1>5. \A t \in Threads : /\ Goners(t)' = Goners(t)
                         /\ SaysOf(t)' <=> SaysOf(t)
                         /\ Recorded(t)' <=> Recorded(t)
  BY <1>1 DEF Goners, SaysOf, Recorded
<1>6. \A k \in Keys : Old(k)' <=> Old(k)
  BY <1>1 DEF Old, Holding
<1>7. ASSUME NEW t \in Threads, InOrder(t)
      PROVE  InOrder(t)'
  <2>1. SaysOf(t) => \A k \in req[t].held : Old(k) /\ k \in Keys
    BY <1>7, InHandIs DEF InOrder
  <2> QED
    BY <1>1, <1>5, <1>6, <1>7, <2>1 DEF InOrder
<1>8. Removed'
  BY <1>1, <1>5, <1>6, <1>7 DEF Removed
<1> QED
  BY <1>4, <1>8

\* Every step of the program keeps the counter: where what goes is taken away by one,
\* however many work at once; and where requests come one after the other, through
\* crashes as well.
LEMMA QuotaNext ==
    ASSUME Typed, Typed', Filed, [Next]_vars, plan' = plan
    PROVE  /\ Orderly /\ Counted /\ Removed => Counted' /\ Removed'
           /\ Calm /\ InBalance => InBalance'
<1>1. ASSUME NEW t \in Threads, Step(t)
      PROVE  /\ Orderly /\ Counted /\ Removed => Counted' /\ Removed'
             /\ Calm /\ InBalance => InBalance'
  BY <1>1, CountedStep, RemovedStep, BalanceStep
<1>2. ASSUME Restart
      PROVE  ~Orderly /\ (Calm /\ InBalance => InBalance')
  <2>1. restarts \in 0..plan.restarts /\ restarts < plan.restarts
    BY <1>2 DEF Typed, TypeOK, Restart
  <2>2. ~Orderly
    BY <2>1 DEF Orderly
  <2> QED
    BY <1>2, <2>2, BalanceRestart DEF InBalance
<1> QED
  BY <1>1, <1>2, CountedStutter, BalanceStutter DEF Next

\* The counter says what it should.
LEMMA QuotaImplied ==
    ASSUME Typed, Filed, Orderly => Counted /\ Removed, Calm => InBalance
    PROVE  QuotaHolds
<1>1. ASSUME Orderly
      PROVE  Bytes(disk) <= plan.total
  <2>1. Bytes(disk) \in Nat
    BY BytesSum, TypesAre DEF Typed
  <2>2. \A t \in Active : Due[t] \in Nat
    <3> SUFFICES ASSUME NEW t \in Active
                 PROVE  Due[t] \in Nat
      OBVIOUS
    <3>1. t \in Threads /\ InOrder(t)
      BY <1>1 DEF Active, Removed
    <3>2. DueOf(t) \in Nat
      BY <3>1, DueIs
    <3> QED
      BY <3>1, <3>2 DEF Due
  <2>3. Sum(Due, Active) \in Nat
    BY <1>1, <2>2, SumIsNat DEF Counted
  <2>4. plan.total \in Nat
    BY PlansFit DEF Typed, TypeOK
  <2>5. used = Bytes(disk) + Sum(Due, Active) /\ used <= plan.total
    BY <1>1 DEF Counted
  <2> QED
    BY <2>1, <2>3, <2>4, <2>5
<1>2. ASSUME Calm, Idle
      PROVE  used = Bytes(Named) /\ (restarts = 0 => Named = disk /\ shown = pic)
  BY <1>2 DEF InBalance, Booked, Shelved, Pointed
<1>3. NeverOvershoots
  BY <1>1 DEF NeverOvershoots, Orderly
<1>4. Balanced
  BY <1>2 DEF Balanced, Calm
<1> QED
  BY <1>3, <1>4 DEF QuotaHolds

\* The ceiling on what is stored is never passed on the disk, however many uploads,
\* deletions and changes of picture interleave and whichever unlinks fail; and where
\* requests come one after the other, the counter is between them exactly what the
\* named files take, also after a crash at any step, and before the first one no file
\* is there unnamed.
THEOREM QuotaIsKept == Spec => []QuotaHolds
<1> DEFINE Inv == /\ Typed /\ (Sound => Filed)
                  /\ (Orderly => Counted /\ Removed) /\ (Calm => InBalance)
<1>1. Init => Inv
  BY TypedInit, FiledInit, OrderlyInit, BalanceInit
<1>2. Inv /\ [Next]_vars => Inv'
  <2> SUFFICES ASSUME Inv, [Next]_vars
               PROVE  Inv'
    OBVIOUS
  <2>1. plan' = plan
    BY DEF Next, vars
  <2>2. (Sound' <=> Sound) /\ (Orderly' <=> Orderly) /\ (Calm' <=> Calm)
    BY <2>1 DEF Sound, Orderly, Calm
  <2>3. Sound => ~Fails("config") /\ ~Fails("reply")
    BY DEF Sound, Fails
  <2>4. (Orderly => Sound) /\ (Calm => Sound)
    BY DEF Orderly, Calm, Sound
  <2>5. Typed' /\ (Sound => Filed')
    BY <2>3, TypedNext, FiledNext
  <2>6. (Orderly => Counted' /\ Removed') /\ (Calm => InBalance')
    BY <2>1, <2>4, <2>5, QuotaNext
  <2> QED
    BY <2>2, <2>5, <2>6
<1>3. Inv => QuotaHolds
  <2> SUFFICES ASSUME Inv
               PROVE  QuotaHolds
    OBVIOUS
  <2>1. CASE Sound
    BY <2>1, QuotaImplied
  <2>2. CASE ~Sound
    BY <2>2 DEF Sound, QuotaHolds, NeverOvershoots, Balanced
  <2> QED
    BY <2>1, <2>2
<1> QED
  BY <1>1, <1>2, <1>3, PTL DEF Spec
===============================================================================
