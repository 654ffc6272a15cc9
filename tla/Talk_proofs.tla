-------------------------------- MODULE Talk_proofs --------------------------------
(***************************************************************************)
(* What is proved of the modules of TalkSlots, each for every plan that    *)
(* fits it, however many people, requests and lines that means.  Of each   *)
(* there is an inductive invariant: ...First says that it holds to begin   *)
(* with, ...Stays that a step keeps it, ...Shows what follows from it.     *)
(* Names begin with that of the instance they are about.                   *)
(***************************************************************************)
EXTENDS TalkSlots, Integers, Sequences, FiniteSetTheorems, WellFoundedInduction, TLAPS

\* Induction over a finite set, by the smallest counterexample: to prove something of
\* every finite set, suppose it fails, and look at such a one.
LEMMA SmallestSet ==
    ASSUME NEW S, IsFiniteSet(S), NEW T, T \subseteq SUBSET S, T # {}
    PROVE  \E x \in T : \A y \in T : y \subseteq x => y = x
<1>1. IsWellFoundedOn(StrictSubsetOrdering(S), SUBSET S)
  BY FS_StrictSubsetOrderingWellFounded, FS_FiniteSubsetsOfFinite
<1>2. \E x \in T : \A y \in T : ~ (<<y, x>> \in StrictSubsetOrdering(S))
  BY <1>1, WFMin
<1> QED
  BY <1>2 DEF StrictSubsetOrdering

\* A finite set of numbers has a least one.
LEMMA LeastIs ==
    ASSUME NEW S, IsFiniteSet(S), S # {}, \A k \in S : k \in Int
    PROVE  \E x \in S : \A y \in S : x <= y
<1> DEFINE Below(k) == {j \in S : j <= k}
           D == {Below(k) : k \in S}
<1>1. D \subseteq SUBSET S /\ D # {}
  OBVIOUS
<1>2. PICK z \in D : \A y \in D : y \subseteq z => y = z
  <2> HIDE DEF D
  <2> QED
    BY <1>1, SmallestSet
<1>3. PICK m \in S : z = Below(m)
  BY <1>2
<1>4. ASSUME NEW k \in S, ~(m <= k)
      PROVE  FALSE
  <2>1. k < m
    BY <1>4
  <2>2. Below(k) \in D
    OBVIOUS
  <2>3. Below(k) \subseteq Below(m)
    BY <2>1
  <2>4. m \in Below(m) /\ m \notin Below(k)
    BY <2>1
  <2> HIDE DEF D, Below
  <2> QED
    BY <2>2, <2>3, <2>4, <1>2, <1>3
<1> QED
  BY <1>4

\* A set of numbers below n has a greatest one.
LEMMA GreatestIs ==
    ASSUME NEW n \in Nat, NEW S, S \subseteq 0..n, S # {}
    PROVE  \E x \in S : \A y \in S : y <= x
<1> DEFINE D == {n - k : k \in S}
<1>1. D # {} /\ (\A d \in D : d \in Int) /\ D \subseteq 0..n
  <2>1. \A k \in 0..n : n - k \in 0..n
    OBVIOUS
  <2>2. D \subseteq 0..n
    BY <2>1
  <2>3. \A d \in 0..n : d \in Int
    OBVIOUS
  <2>4. D # {}
    OBVIOUS
  <2> HIDE DEF D
  <2> QED
    BY <2>2, <2>3, <2>4
<1>2. IsFiniteSet(D)
  <2>1. IsFiniteSet(0..n)
    BY FS_Interval
  <2> HIDE DEF D
  <2> QED
    BY <1>1, <2>1, FS_Subset
<1> HIDE DEF D
<1>3. PICK d \in D : \A e \in D : d <= e
  BY <1>1, <1>2, LeastIs
<1>4. PICK x \in S : d = n - x
  BY DEF D
<1>5. \A y \in S : n - y \in D /\ y \in Int
  BY DEF D
<1> QED
  BY <1>3, <1>4, <1>5

---------------------------------------------------------------------------
(* Expressions.  w1 is the disk, w2 the caches, w3 who is online.  That    *)
(* every file has its row is about what requests hold meanwhile: keys are  *)
(* given out once, and a file that was written has one request that will   *)
(* write its row or take it away again.  That nobody misses one is about   *)
(* requests that do not overlap: whose caches are behind are those the one *)
(* request that runs has yet to tell.                                      *)

LEMMA PicturesCounts == \A S : Pictures!Cardinality(S) = Cardinality(S) /\ Pictures!IsFiniteSet(S) = IsFiniteSet(S)
  BY DEF Pictures!Cardinality, Cardinality, Pictures!IsFiniteSet, IsFiniteSet

PicturesColumns == {"kind", "name", "volume", "key"}
PicturesFields == {"at", "op", "id", "key", "row", "list"}
\* The stages in which the file of a request has no row.
PicturesLoose == {"measure", "insert", "unlink"}

\* Each variable has a domain, and ids and keys were given out.
PicturesTyped ==
    /\ DOMAIN last = {"id", "key"} /\ last.id \in Nat /\ last.key \in Nat
    /\ DOMAIN rows \subseteq 1..last.id /\ w1 \subseteq 1..last.key
    /\ \A id \in DOMAIN rows : DOMAIN rows[id] = PicturesColumns /\ rows[id].key \in 1..last.key
    /\ DOMAIN req = Pictures!People /\ DOMAIN w3 = Pictures!People /\ DOMAIN shown = Pictures!People /\
           DOMAIN w2 = Pictures!Tables
    /\ \A p \in Pictures!People : DOMAIN req[p] = PicturesFields

\* What a request holds: a row, of which the kind and the file stay.
PicturesFits(r) ==
    /\ r.at # "free" => DOMAIN r.row = PicturesColumns
    /\ r.at \in {"write", "remove"} =>
        /\ r.id \in 1..last.id
        /\ r.id \in DOMAIN rows => rows[r.id].key = r.row.key /\ rows[r.id].kind = r.row.kind
    /\ r.at \in PicturesLoose => r.row.key \in 1..last.key /\ \A id \in DOMAIN rows : rows[id].key # r.row.key
    /\ r.at \in {"measure", "insert"} => r.row.key \in w1
    /\ r.at = "install" =>
        \A id \in DOMAIN r.list : id \in 1..last.id /\
            Pictures!TableOf(r.list[id].kind) = Pictures!TableOf(r.row.kind)

\* A file is of one row, or of one request.
PicturesApart ==
    /\ \A i, j \in DOMAIN rows : i # j => rows[i].key # rows[j].key
    /\ \A p, q \in Pictures!People : req[p].at \in PicturesLoose /\ req[q].at \in PicturesLoose /\ p # q =>
           req[p].row.key # req[q].row.key
    /\ \A id \in DOMAIN rows : rows[id].key \in w1
    /\ \A k \in w1 :
        (\E id \in DOMAIN rows : rows[id].key = k) \/ \E p \in Pictures!People : req[p].at \in PicturesLoose /\
            req[p].row.key = k

\* The copies are of ids that were given out, and of their table.
PicturesCopied ==
    /\ \A t \in Pictures!Tables : \A id \in DOMAIN w2[t] : id \in 1..last.id /\ Pictures!TableOf(w2[t][id].kind) = t
    /\ \A p \in Pictures!People : w3[p] # "on" => shown[p] = <<>>

PicturesFiled == PicturesTyped /\ (\A p \in Pictures!People : PicturesFits(req[p])) /\ PicturesApart /\
    PicturesCopied

LEMMA PicturesFiledFirst ==
    ASSUME Pictures!PlansFit, Pictures!Init
    PROVE  PicturesFiled
<1> USE DEF Pictures!Init, Pictures!PlansFit
<1>1. PicturesTyped
  <2>1. Pictures!Cardinality(DOMAIN plan.rows) \in Nat
    BY FS_CardinalityType, PicturesCounts
  <2> QED
    BY <2>1 DEF PicturesTyped, Pictures!People, PicturesColumns, Pictures!Free, PicturesFields, Pictures!Tables
<1>2. \A p \in Pictures!People : PicturesFits(req[p])
  BY DEF PicturesFits, Pictures!People, Pictures!Free, PicturesLoose
<1>3. PicturesApart
  BY DEF PicturesApart, Pictures!People, Pictures!Free, PicturesLoose
<1>4. PicturesCopied
  <2>1. \A t \in Pictures!Tables : w2[t] = Pictures!Held(t)
    OBVIOUS
  <2>2. \A t \in Pictures!Tables : \A id \in DOMAIN w2[t] : id \in 1..last.id /\
            Pictures!TableOf(w2[t][id].kind) = t
    BY <2>1 DEF Pictures!Held
  <2>3. \A p \in Pictures!People : w3[p] # "on" => shown[p] = <<>>
    BY DEF Pictures!People
  <2> QED
    BY <2>2, <2>3 DEF PicturesCopied
<1> QED
  BY <1>1, <1>2, <1>3, <1>4 DEF PicturesFiled

\* Nothing of a plan ever changes.
LEMMA PicturesPlanStays == [Pictures!Next]_(Pictures!vars) => plan' = plan /\ Pictures!People' = Pictures!People
BY DEF Pictures!Next, Pictures!Step, Pictures!vars, Pictures!Upload, Pictures!Store, Pictures!Measure,
      Pictures!Insert, Pictures!Change, Pictures!Write, Pictures!Reread, Pictures!Delete, Pictures!Remove,
      Pictures!Unlink, Pictures!List,
       Pictures!Install, Pictures!Tell, Pictures!Enter, Pictures!Ready, Pictures!People

\* A step is of one person; it moves on what was read, and nothing else of theirs.
LEMMA PicturesOthersStay ==
    ASSUME PicturesTyped, NEW p \in Pictures!People, Pictures!Step(p)
    PROVE  /\ DOMAIN req' = DOMAIN req
           /\ \A q \in Pictures!People \ {p} : req'[q] = req[q]
           /\ DOMAIN req'[p] = PicturesFields
<1> DEFINE G == DOMAIN req' = DOMAIN req /\ (\A q \in Pictures!People \ {p} : req'[q] = req[q]) /\
               DOMAIN req'[p] = PicturesFields
<1>0. /\ DOMAIN req = Pictures!People /\ DOMAIN req[p] = PicturesFields /\ DOMAIN Pictures!Free = PicturesFields
      /\ \A q \in Pictures!People : DOMAIN req[q] = PicturesFields
  BY DEF PicturesTyped, Pictures!Free, PicturesFields
<1> SUFFICES G
  OBVIOUS
<1>1. CASE Pictures!Upload(p)
  BY <1>0, <1>1 DEF Pictures!Upload, Pictures!Done, Pictures!Move, Pictures!Ask, Pictures!Free, PicturesFields
<1>2. ASSUME NEW ok \in BOOLEAN, Pictures!Store(p, ok)
      PROVE  G
  BY <1>0, <1>2 DEF Pictures!Store, Pictures!Done, Pictures!Move, Pictures!Ask, Pictures!Free, PicturesFields
<1>3. ASSUME NEW ok \in BOOLEAN, Pictures!Measure(p, ok)
      PROVE  G
  BY <1>0, <1>3 DEF Pictures!Measure, Pictures!Done, Pictures!Move, Pictures!Ask, Pictures!Free, PicturesFields
<1>4. CASE Pictures!Insert(p)
  BY <1>0, <1>4 DEF Pictures!Insert, Pictures!Done, Pictures!Move, Pictures!Ask, Pictures!Free, PicturesFields
<1>5. CASE Pictures!Change(p)
  BY <1>0, <1>5 DEF Pictures!Change, Pictures!Done, Pictures!Move, Pictures!Ask, Pictures!Free, PicturesFields
<1>6. CASE Pictures!Write(p)
  BY <1>0, <1>6 DEF Pictures!Write, Pictures!Done, Pictures!Move, Pictures!Ask, Pictures!Free, PicturesFields
<1>7. CASE Pictures!Reread(p)
  BY <1>0, <1>7 DEF Pictures!Reread, Pictures!Done, Pictures!Move, Pictures!Ask, Pictures!Free, PicturesFields
<1>8. CASE Pictures!Delete(p)
  BY <1>0, <1>8 DEF Pictures!Delete, Pictures!Done, Pictures!Move, Pictures!Ask, Pictures!Free, PicturesFields
<1>9. CASE Pictures!Remove(p)
  BY <1>0, <1>9 DEF Pictures!Remove, Pictures!Done, Pictures!Move, Pictures!Ask, Pictures!Free, PicturesFields
<1>10. CASE Pictures!Unlink(p)
  BY <1>0, <1>10 DEF Pictures!Unlink, Pictures!Done, Pictures!Move, Pictures!Ask, Pictures!Free, PicturesFields
<1>11. CASE Pictures!List(p)
  BY <1>0, <1>11 DEF Pictures!List, Pictures!Done, Pictures!Move, Pictures!Ask, Pictures!Free, PicturesFields
<1>12. CASE Pictures!Install(p)
  BY <1>0, <1>12 DEF Pictures!Install, Pictures!Done, Pictures!Move, Pictures!Ask, Pictures!Free, PicturesFields
<1>13. CASE Pictures!Tell(p)
  BY <1>0, <1>13 DEF Pictures!Tell, Pictures!Done, Pictures!Move, Pictures!Ask, Pictures!Free, PicturesFields
<1>14. CASE Pictures!Enter(p)
  BY <1>0, <1>14 DEF Pictures!Enter, Pictures!Done, Pictures!Move, Pictures!Ask, Pictures!Free, PicturesFields
<1>15. CASE Pictures!Ready(p)
  BY <1>0, <1>15 DEF Pictures!Ready, Pictures!Done, Pictures!Move, Pictures!Ask, Pictures!Free, PicturesFields
<1> QED
  BY <1>1, <1>2, <1>3, <1>4, <1>5, <1>6, <1>7, <1>8, <1>9, <1>10, <1>11, <1>12, <1>13, <1>14,
         <1>15 DEF Pictures!Step

\* What becomes of the rows, of what was given out, and of the files.
LEMMA PicturesRowsGo ==
    ASSUME PicturesTyped, NEW p \in Pictures!People, Pictures!Step(p), req[p].at # "free" =>
               DOMAIN req[p].row = PicturesColumns, PicturesFits(req[p])
    PROVE  /\ DOMAIN last' = DOMAIN last /\ last'.id \in Nat /\ last'.key \in Nat
           /\ last.id <= last'.id /\ last.key <= last'.key
           /\ \A id \in DOMAIN rows' :
                \/ /\ id \in DOMAIN rows /\ rows'[id].key = rows[id].key /\ rows'[id].kind = rows[id].kind
                   /\ DOMAIN rows'[id] = PicturesColumns
                \/ id = last'.id /\ id > last.id /\ req[p].at = "insert" /\ rows'[id] = req[p].row
           /\ \A id \in DOMAIN rows \ DOMAIN rows' :
                id = req[p].id /\ req[p].at = "remove" /\ req'[p].at = "unlink" /\ req'[p].row = req[p].row
           /\ \A k \in w1 \ w1' : req[p].at \in PicturesLoose /\ k = req[p].row.key
           /\ \A k \in w1' \ w1 : k = last'.key /\ k > last.key /\ req'[p].at \in PicturesLoose /\
                  req'[p].row.key = k
<1> DEFINE G ==
           /\ DOMAIN last' = DOMAIN last /\ last'.id \in Nat /\ last'.key \in Nat
           /\ last.id <= last'.id /\ last.key <= last'.key
           /\ \A id \in DOMAIN rows' :
                \/ /\ id \in DOMAIN rows /\ rows'[id].key = rows[id].key /\ rows'[id].kind = rows[id].kind
                   /\ DOMAIN rows'[id] = PicturesColumns
                \/ id = last'.id /\ id > last.id /\ req[p].at = "insert" /\ rows'[id] = req[p].row
           /\ \A id \in DOMAIN rows \ DOMAIN rows' :
                id = req[p].id /\ req[p].at = "remove" /\ req'[p].at = "unlink" /\ req'[p].row = req[p].row
           /\ \A k \in w1 \ w1' : req[p].at \in PicturesLoose /\ k = req[p].row.key
           /\ \A k \in w1' \ w1 : k = last'.key /\ k > last.key /\ req'[p].at \in PicturesLoose /\
                  req'[p].row.key = k
<1>0. /\ DOMAIN req = Pictures!People /\ DOMAIN req[p] = PicturesFields /\ DOMAIN last = {"id", "key"}
      /\ last.id \in Nat /\ last.key \in Nat /\ DOMAIN rows \subseteq 1..last.id
      /\ \A id \in DOMAIN rows : DOMAIN rows[id] = PicturesColumns
      /\ w1 \subseteq 1..last.key
  BY DEF PicturesTyped
<1> SUFFICES G
  OBVIOUS
<1>1. CASE Pictures!Upload(p)
  BY <1>0, <1>1 DEF Pictures!Upload, PicturesFits, Pictures!At, Pictures!Done, Pictures!Move, Pictures!Ask,
        Pictures!Free, PicturesFields, PicturesLoose, PicturesColumns, Pictures!With, Pictures!Without,
        Pictures!Unreferenced
<1>2. ASSUME NEW ok \in BOOLEAN, Pictures!Store(p, ok)
      PROVE  G
  BY <1>0, <1>2 DEF Pictures!Store, PicturesFits, Pictures!At, Pictures!Done, Pictures!Move, Pictures!Ask,
        Pictures!Free, PicturesFields, PicturesLoose, PicturesColumns, Pictures!With, Pictures!Without,
        Pictures!Unreferenced
<1>3. ASSUME NEW ok \in BOOLEAN, Pictures!Measure(p, ok)
      PROVE  G
  BY <1>0, <1>3 DEF Pictures!Measure, PicturesFits, Pictures!At, Pictures!Done, Pictures!Move, Pictures!Ask,
        Pictures!Free, PicturesFields, PicturesLoose, PicturesColumns, Pictures!With, Pictures!Without,
        Pictures!Unreferenced
<1>4. CASE Pictures!Insert(p)
  BY <1>0, <1>4 DEF Pictures!Insert, PicturesFits, Pictures!At, Pictures!Done, Pictures!Move, Pictures!Ask,
        Pictures!Free, PicturesFields, PicturesLoose, PicturesColumns, Pictures!With, Pictures!Without,
        Pictures!Unreferenced
<1>5. CASE Pictures!Change(p)
  BY <1>0, <1>5 DEF Pictures!Change, PicturesFits, Pictures!At, Pictures!Done, Pictures!Move, Pictures!Ask,
        Pictures!Free, PicturesFields, PicturesLoose, PicturesColumns, Pictures!With, Pictures!Without,
        Pictures!Unreferenced
<1>6. CASE Pictures!Write(p)
  <2>1. CASE rows' = rows
    BY <1>0, <1>6, <2>1 DEF Pictures!Write, Pictures!Done, Pictures!Move
  <2>2. CASE req[p].id \in DOMAIN rows /\ rows' = [rows EXCEPT ![req[p].id] = req[p].row]
    <3>1. /\ req[p].at = "write" /\ DOMAIN req[p].row = PicturesColumns
          /\ rows[req[p].id].key = req[p].row.key /\ rows[req[p].id].kind = req[p].row.kind
      BY <1>6, <2>2 DEF Pictures!Write, Pictures!At, PicturesFits
    <3>2. /\ DOMAIN rows' = DOMAIN rows
          /\ \A id \in DOMAIN rows : rows'[id] = IF id = req[p].id THEN req[p].row ELSE rows[id]
      BY <2>2
    <3>3. last' = last /\ w1' = w1
      BY <1>6 DEF Pictures!Write
    <3> QED
      BY <1>0, <3>1, <3>2, <3>3
  <2> QED
    BY <1>6, <2>1, <2>2 DEF Pictures!Write
<1>7. CASE Pictures!Reread(p)
  BY <1>0, <1>7 DEF Pictures!Reread, PicturesFits, Pictures!At, Pictures!Done, Pictures!Move, Pictures!Ask,
        Pictures!Free, PicturesFields, PicturesLoose, PicturesColumns, Pictures!With, Pictures!Without,
        Pictures!Unreferenced
<1>8. CASE Pictures!Delete(p)
  BY <1>0, <1>8 DEF Pictures!Delete, PicturesFits, Pictures!At, Pictures!Done, Pictures!Move, Pictures!Ask,
        Pictures!Free, PicturesFields, PicturesLoose, PicturesColumns, Pictures!With, Pictures!Without,
        Pictures!Unreferenced
<1>9. CASE Pictures!Remove(p)
  BY <1>0, <1>9 DEF Pictures!Remove, PicturesFits, Pictures!At, Pictures!Done, Pictures!Move, Pictures!Ask,
        Pictures!Free, PicturesFields, PicturesLoose, PicturesColumns, Pictures!With, Pictures!Without,
        Pictures!Unreferenced
<1>10. CASE Pictures!Unlink(p)
  BY <1>0, <1>10 DEF Pictures!Unlink, PicturesFits, Pictures!At, Pictures!Done, Pictures!Move, Pictures!Ask,
        Pictures!Free, PicturesFields, PicturesLoose, PicturesColumns, Pictures!With, Pictures!Without,
        Pictures!Unreferenced
<1>11. CASE Pictures!List(p)
  BY <1>0, <1>11 DEF Pictures!List, PicturesFits, Pictures!At, Pictures!Done, Pictures!Move, Pictures!Ask,
        Pictures!Free, PicturesFields, PicturesLoose, PicturesColumns, Pictures!With, Pictures!Without,
        Pictures!Unreferenced
<1>12. CASE Pictures!Install(p)
  BY <1>0, <1>12 DEF Pictures!Install, PicturesFits, Pictures!At, Pictures!Done, Pictures!Move, Pictures!Ask,
        Pictures!Free, PicturesFields, PicturesLoose, PicturesColumns, Pictures!With, Pictures!Without,
        Pictures!Unreferenced
<1>13. CASE Pictures!Tell(p)
  BY <1>0, <1>13 DEF Pictures!Tell, PicturesFits, Pictures!At, Pictures!Done, Pictures!Move, Pictures!Ask,
        Pictures!Free, PicturesFields, PicturesLoose, PicturesColumns, Pictures!With, Pictures!Without,
        Pictures!Unreferenced
<1>14. CASE Pictures!Enter(p)
  BY <1>0, <1>14 DEF Pictures!Enter, PicturesFits, Pictures!At, Pictures!Done, Pictures!Move, Pictures!Ask,
        Pictures!Free, PicturesFields, PicturesLoose, PicturesColumns, Pictures!With, Pictures!Without,
        Pictures!Unreferenced
<1>15. CASE Pictures!Ready(p)
  BY <1>0, <1>15 DEF Pictures!Ready, PicturesFits, Pictures!At, Pictures!Done, Pictures!Move, Pictures!Ask,
        Pictures!Free, PicturesFields, PicturesLoose, PicturesColumns, Pictures!With, Pictures!Without,
        Pictures!Unreferenced
<1> QED
  BY <1>1, <1>2, <1>3, <1>4, <1>5, <1>6, <1>7, <1>8, <1>9, <1>10, <1>11, <1>12, <1>13, <1>14,
         <1>15 DEF Pictures!Step

\* What becomes of the file of a request: it stays loose, or is given up, or has its row.
LEMMA PicturesFileGoes ==
    ASSUME PicturesTyped, NEW p \in Pictures!People, Pictures!Step(p), PicturesFits(req[p])
    PROVE  /\ req'[p].at \in PicturesLoose =>
                \/ req[p].at \in PicturesLoose /\ req'[p].row.key = req[p].row.key
                \/ req'[p].row.key = last'.key /\ last'.key > last.key /\ req'[p].at # "unlink"
                \/ /\ req[p].at = "remove" /\ req[p].id \in DOMAIN rows /\ req'[p].row.key = rows[req[p].id].key
                   /\ DOMAIN rows' = DOMAIN rows \ {req[p].id} /\ req'[p].at = "unlink"
           /\ req[p].at \in PicturesLoose =>
                \/ req'[p].at \in PicturesLoose
                \/ req[p].row.key \notin w1'
                \/ last'.id \in DOMAIN rows' /\ rows'[last'.id].key = req[p].row.key
           /\ req[p].at \in PicturesLoose /\ req'[p].at \in PicturesLoose => req'[p].row.key = req[p].row.key
           /\ req'[p].at \in {"measure", "insert"} =>
                w1' = w1 \cup {req'[p].row.key} /\ (req'[p].row.key \in w1 \/ req[p].at = "store")
           /\ req[p].at = "insert" => w1' = w1 \/ rows' = rows
<1> DEFINE G ==
           /\ req'[p].at \in PicturesLoose =>
                \/ req[p].at \in PicturesLoose /\ req'[p].row.key = req[p].row.key
                \/ req'[p].row.key = last'.key /\ last'.key > last.key /\ req'[p].at # "unlink"
                \/ /\ req[p].at = "remove" /\ req[p].id \in DOMAIN rows /\ req'[p].row.key = rows[req[p].id].key
                   /\ DOMAIN rows' = DOMAIN rows \ {req[p].id} /\ req'[p].at = "unlink"
           /\ req[p].at \in PicturesLoose =>
                \/ req'[p].at \in PicturesLoose
                \/ req[p].row.key \notin w1'
                \/ last'.id \in DOMAIN rows' /\ rows'[last'.id].key = req[p].row.key
           /\ req[p].at \in PicturesLoose /\ req'[p].at \in PicturesLoose => req'[p].row.key = req[p].row.key
           /\ req'[p].at \in {"measure", "insert"} =>
                w1' = w1 \cup {req'[p].row.key} /\ (req'[p].row.key \in w1 \/ req[p].at = "store")
           /\ req[p].at = "insert" => w1' = w1 \/ rows' = rows
<1>0. /\ DOMAIN req = Pictures!People /\ DOMAIN req[p] = PicturesFields /\ DOMAIN last = {"id", "key"}
      /\ last.id \in Nat /\ last.key \in Nat /\ DOMAIN rows \subseteq 1..last.id
      /\ \A id \in DOMAIN rows : DOMAIN rows[id] = PicturesColumns
      /\ w1 \subseteq 1..last.key
  BY DEF PicturesTyped
<1> SUFFICES G
  OBVIOUS
<1>1. CASE Pictures!Upload(p)
  BY <1>0, <1>1 DEF Pictures!Upload, PicturesFits, Pictures!At, Pictures!Done, Pictures!Move, Pictures!Ask,
        Pictures!Free, PicturesFields, PicturesLoose, PicturesColumns, Pictures!With, Pictures!Without,
        Pictures!Unreferenced
<1>2. ASSUME NEW ok \in BOOLEAN, Pictures!Store(p, ok)
      PROVE  G
  BY <1>0, <1>2 DEF Pictures!Store, PicturesFits, Pictures!At, Pictures!Done, Pictures!Move, Pictures!Ask,
        Pictures!Free, PicturesFields, PicturesLoose, PicturesColumns, Pictures!With, Pictures!Without,
        Pictures!Unreferenced
<1>3. ASSUME NEW ok \in BOOLEAN, Pictures!Measure(p, ok)
      PROVE  G
  BY <1>0, <1>3 DEF Pictures!Measure, PicturesFits, Pictures!At, Pictures!Done, Pictures!Move, Pictures!Ask,
        Pictures!Free, PicturesFields, PicturesLoose, PicturesColumns, Pictures!With, Pictures!Without,
        Pictures!Unreferenced
<1>4. CASE Pictures!Insert(p)
  BY <1>0, <1>4 DEF Pictures!Insert, PicturesFits, Pictures!At, Pictures!Done, Pictures!Move, Pictures!Ask,
        Pictures!Free, PicturesFields, PicturesLoose, PicturesColumns, Pictures!With, Pictures!Without,
        Pictures!Unreferenced
<1>5. CASE Pictures!Change(p)
  BY <1>0, <1>5 DEF Pictures!Change, PicturesFits, Pictures!At, Pictures!Done, Pictures!Move, Pictures!Ask,
        Pictures!Free, PicturesFields, PicturesLoose, PicturesColumns, Pictures!With, Pictures!Without,
        Pictures!Unreferenced
<1>6. CASE Pictures!Write(p)
  BY <1>0, <1>6 DEF Pictures!Write, PicturesFits, Pictures!At, Pictures!Done, Pictures!Move, Pictures!Ask,
        Pictures!Free, PicturesFields, PicturesLoose, PicturesColumns, Pictures!With, Pictures!Without,
        Pictures!Unreferenced
<1>7. CASE Pictures!Reread(p)
  BY <1>0, <1>7 DEF Pictures!Reread, PicturesFits, Pictures!At, Pictures!Done, Pictures!Move, Pictures!Ask,
        Pictures!Free, PicturesFields, PicturesLoose, PicturesColumns, Pictures!With, Pictures!Without,
        Pictures!Unreferenced
<1>8. CASE Pictures!Delete(p)
  BY <1>0, <1>8 DEF Pictures!Delete, PicturesFits, Pictures!At, Pictures!Done, Pictures!Move, Pictures!Ask,
        Pictures!Free, PicturesFields, PicturesLoose, PicturesColumns, Pictures!With, Pictures!Without,
        Pictures!Unreferenced
<1>9. CASE Pictures!Remove(p)
  BY <1>0, <1>9 DEF Pictures!Remove, PicturesFits, Pictures!At, Pictures!Done, Pictures!Move, Pictures!Ask,
        Pictures!Free, PicturesFields, PicturesLoose, PicturesColumns, Pictures!With, Pictures!Without,
        Pictures!Unreferenced
<1>10. CASE Pictures!Unlink(p)
  BY <1>0, <1>10 DEF Pictures!Unlink, PicturesFits, Pictures!At, Pictures!Done, Pictures!Move, Pictures!Ask,
        Pictures!Free, PicturesFields, PicturesLoose, PicturesColumns, Pictures!With, Pictures!Without,
        Pictures!Unreferenced
<1>11. CASE Pictures!List(p)
  BY <1>0, <1>11 DEF Pictures!List, PicturesFits, Pictures!At, Pictures!Done, Pictures!Move, Pictures!Ask,
        Pictures!Free, PicturesFields, PicturesLoose, PicturesColumns, Pictures!With, Pictures!Without,
        Pictures!Unreferenced
<1>12. CASE Pictures!Install(p)
  BY <1>0, <1>12 DEF Pictures!Install, PicturesFits, Pictures!At, Pictures!Done, Pictures!Move, Pictures!Ask,
        Pictures!Free, PicturesFields, PicturesLoose, PicturesColumns, Pictures!With, Pictures!Without,
        Pictures!Unreferenced
<1>13. CASE Pictures!Tell(p)
  BY <1>0, <1>13 DEF Pictures!Tell, PicturesFits, Pictures!At, Pictures!Done, Pictures!Move, Pictures!Ask,
        Pictures!Free, PicturesFields, PicturesLoose, PicturesColumns, Pictures!With, Pictures!Without,
        Pictures!Unreferenced
<1>14. CASE Pictures!Enter(p)
  BY <1>0, <1>14 DEF Pictures!Enter, PicturesFits, Pictures!At, Pictures!Done, Pictures!Move, Pictures!Ask,
        Pictures!Free, PicturesFields, PicturesLoose, PicturesColumns, Pictures!With, Pictures!Without,
        Pictures!Unreferenced
<1>15. CASE Pictures!Ready(p)
  BY <1>0, <1>15 DEF Pictures!Ready, PicturesFits, Pictures!At, Pictures!Done, Pictures!Move, Pictures!Ask,
        Pictures!Free, PicturesFields, PicturesLoose, PicturesColumns, Pictures!With, Pictures!Without,
        Pictures!Unreferenced
<1> QED
  BY <1>1, <1>2, <1>3, <1>4, <1>5, <1>6, <1>7, <1>8, <1>9, <1>10, <1>11, <1>12, <1>13, <1>14,
         <1>15 DEF Pictures!Step

LEMMA PicturesTypedStays ==
    ASSUME PicturesFiled, NEW p \in Pictures!People, Pictures!Step(p)
    PROVE  PicturesTyped'
<1>0. PicturesTyped /\ PicturesFits(req[p]) /\ (req[p].at # "free" => DOMAIN req[p].row = PicturesColumns) /\
          plan' = plan /\ Pictures!People' = Pictures!People
  BY PicturesPlanStays DEF PicturesFiled, PicturesFits, Pictures!Next
<1>1. DOMAIN last' = {"id", "key"} /\ last'.id \in Nat /\ last'.key \in Nat
  BY <1>0, PicturesRowsGo DEF PicturesTyped
<1>2. DOMAIN rows' \subseteq 1..last'.id /\ w1' \subseteq 1..last'.key
  <2>1. last.id \in Nat /\ last.key \in Nat /\ DOMAIN rows \subseteq 1..last.id /\ w1 \subseteq 1..last.key
    BY <1>0 DEF PicturesTyped
  <2>2. last.id <= last'.id /\ last.key <= last'.key
    BY <1>0, PicturesRowsGo
  <2>3. ASSUME NEW id \in DOMAIN rows'
        PROVE  id \in 1..last'.id
    <3>1. id \in DOMAIN rows \/ (id = last'.id /\ id > last.id)
      BY <1>0, <2>3, PicturesRowsGo
    <3> QED
      BY <1>1, <2>1, <2>2, <3>1
  <2>4. ASSUME NEW k \in w1'
        PROVE  k \in 1..last'.key
    <3>1. k \in w1 \/ (k = last'.key /\ k > last.key)
      BY <1>0, <2>4, PicturesRowsGo
    <3>2. CASE k \in w1
      <4>1. k \in 1..last.key
        BY <2>1, <3>2
      <4> QED
        BY <1>1, <2>1, <2>2, <4>1
    <3>3. CASE k = last'.key /\ k > last.key
      BY <1>1, <2>1, <3>3
    <3> QED
      BY <3>1, <3>2, <3>3
  <2> QED
    BY <2>3, <2>4
<1>3. \A id \in DOMAIN rows' : DOMAIN rows'[id] = PicturesColumns /\ rows'[id].key \in 1..last'.key
  BY <1>0, PicturesRowsGo DEF PicturesTyped, PicturesFits, PicturesLoose
<1>4. DOMAIN req' = Pictures!People /\ \A q \in Pictures!People : DOMAIN req'[q] = PicturesFields
  BY <1>0, PicturesOthersStay DEF PicturesTyped
<1>5. DOMAIN w3' = Pictures!People /\ DOMAIN shown' = Pictures!People /\ DOMAIN w2' = Pictures!Tables
  BY <1>0 DEF PicturesTyped, Pictures!Step, Pictures!Upload, Pictures!Store, Pictures!Measure, Pictures!Insert,
        Pictures!Change, Pictures!Write, Pictures!Reread, Pictures!Delete, Pictures!Remove, Pictures!Unlink,
        Pictures!List,
       Pictures!Install, Pictures!Tell, Pictures!Enter, Pictures!Ready
<1> QED
  BY <1>0, <1>1, <1>2, <1>3, <1>4, <1>5 DEF PicturesTyped

\* Of somebody else's request nothing stops being so.
LEMMA PicturesOthersFit ==
    ASSUME PicturesFiled, NEW p \in Pictures!People, Pictures!Step(p), NEW q \in Pictures!People, q # p
    PROVE  PicturesFits(req[q])'
<1>0. PicturesTyped /\ PicturesFits(req[p]) /\ PicturesFits(req[q]) /\ (req[p].at # "free" =>
          DOMAIN req[p].row = PicturesColumns) /\ PicturesApart
  BY DEF PicturesFiled, PicturesFits
<1>1. req'[q] = req[q]
  BY <1>0, PicturesOthersStay
<1> DEFINE r == req[q]
<1>2. r.at \in {"write", "remove"} =>
        /\ r.id \in 1..last'.id
        /\ r.id \in DOMAIN rows' => rows'[r.id].key = r.row.key /\ rows'[r.id].kind = r.row.kind
  BY <1>0, PicturesRowsGo DEF PicturesFits, PicturesTyped
<1>3. r.at \in PicturesLoose => r.row.key \in 1..last'.key /\ \A id \in DOMAIN rows' : rows'[id].key # r.row.key
  BY <1>0, PicturesRowsGo DEF PicturesFits, PicturesTyped, PicturesApart, PicturesLoose
<1>4. r.at \in {"measure", "insert"} => r.row.key \in w1'
  BY <1>0, PicturesRowsGo DEF PicturesFits, PicturesApart, PicturesLoose
<1>5. r.at = "install" =>
        \A id \in DOMAIN r.list : id \in 1..last'.id /\
            Pictures!TableOf(r.list[id].kind) = Pictures!TableOf(r.row.kind)
  BY <1>0, PicturesRowsGo DEF PicturesFits, PicturesTyped
<1> QED
  BY <1>0, <1>1, <1>2, <1>3, <1>4, <1>5 DEF PicturesFits

\* What one moves on to is what was read, in the table as it is.
LEMMA PicturesOneFits ==
    ASSUME PicturesFiled, NEW p \in Pictures!People, Pictures!Step(p)
    PROVE  PicturesFits(req[p])'
<1>0. /\ DOMAIN req = Pictures!People /\ DOMAIN req[p] = PicturesFields /\ DOMAIN last = {"id", "key"} /\
             PicturesFits(req[p])
      /\ last.id \in Nat /\ last.key \in Nat /\ DOMAIN rows \subseteq 1..last.id
      /\ \A id \in DOMAIN rows : DOMAIN rows[id] = PicturesColumns /\ rows[id].key \in 1..last.key
      /\ w1 \subseteq 1..last.key /\ \A i, j \in DOMAIN rows : i # j => rows[i].key # rows[j].key
  BY DEF PicturesFiled, PicturesTyped, PicturesApart
<1> DEFINE G == PicturesFits(req[p])'
<1> SUFFICES G
  OBVIOUS
<1>1. CASE Pictures!Upload(p)
  BY <1>0, <1>1 DEF Pictures!Upload, PicturesFits, Pictures!At, Pictures!Done, Pictures!Move, Pictures!Ask,
        Pictures!Free, PicturesFields, PicturesLoose, PicturesColumns, Pictures!With, Pictures!Without,
        Pictures!Unreferenced, Pictures!Held
<1>2. ASSUME NEW ok \in BOOLEAN, Pictures!Store(p, ok)
      PROVE  G
  BY <1>0, <1>2 DEF Pictures!Store, PicturesFits, Pictures!At, Pictures!Done, Pictures!Move, Pictures!Ask,
        Pictures!Free, PicturesFields, PicturesLoose, PicturesColumns, Pictures!With, Pictures!Without,
        Pictures!Unreferenced, Pictures!Held
<1>3. ASSUME NEW ok \in BOOLEAN, Pictures!Measure(p, ok)
      PROVE  G
  BY <1>0, <1>3 DEF Pictures!Measure, PicturesFits, Pictures!At, Pictures!Done, Pictures!Move, Pictures!Ask,
        Pictures!Free, PicturesFields, PicturesLoose, PicturesColumns, Pictures!With, Pictures!Without,
        Pictures!Unreferenced, Pictures!Held
<1>4. CASE Pictures!Insert(p)
  BY <1>0, <1>4 DEF Pictures!Insert, PicturesFits, Pictures!At, Pictures!Done, Pictures!Move, Pictures!Ask,
        Pictures!Free, PicturesFields, PicturesLoose, PicturesColumns, Pictures!With, Pictures!Without,
        Pictures!Unreferenced, Pictures!Held
<1>5. CASE Pictures!Change(p)
  BY <1>0, <1>5 DEF Pictures!Change, PicturesFits, Pictures!At, Pictures!Done, Pictures!Move, Pictures!Ask,
        Pictures!Free, PicturesFields, PicturesLoose, PicturesColumns, Pictures!With, Pictures!Without,
        Pictures!Unreferenced, Pictures!Held
<1>6. CASE Pictures!Write(p)
  BY <1>0, <1>6 DEF Pictures!Write, PicturesFits, Pictures!At, Pictures!Done, Pictures!Move, Pictures!Ask,
        Pictures!Free, PicturesFields, PicturesLoose, PicturesColumns, Pictures!With, Pictures!Without,
        Pictures!Unreferenced, Pictures!Held
<1>7. CASE Pictures!Reread(p)
  BY <1>0, <1>7 DEF Pictures!Reread, PicturesFits, Pictures!At, Pictures!Done, Pictures!Move, Pictures!Ask,
        Pictures!Free, PicturesFields, PicturesLoose, PicturesColumns, Pictures!With, Pictures!Without,
        Pictures!Unreferenced, Pictures!Held
<1>8. CASE Pictures!Delete(p)
  BY <1>0, <1>8 DEF Pictures!Delete, PicturesFits, Pictures!At, Pictures!Done, Pictures!Move, Pictures!Ask,
        Pictures!Free, PicturesFields, PicturesLoose, PicturesColumns, Pictures!With, Pictures!Without,
        Pictures!Unreferenced, Pictures!Held
<1>9. CASE Pictures!Remove(p)
  BY <1>0, <1>9 DEF Pictures!Remove, PicturesFits, Pictures!At, Pictures!Done, Pictures!Move, Pictures!Ask,
        Pictures!Free, PicturesFields, PicturesLoose, PicturesColumns, Pictures!With, Pictures!Without,
        Pictures!Unreferenced, Pictures!Held
<1>10. CASE Pictures!Unlink(p)
  BY <1>0, <1>10 DEF Pictures!Unlink, PicturesFits, Pictures!At, Pictures!Done, Pictures!Move, Pictures!Ask,
        Pictures!Free, PicturesFields, PicturesLoose, PicturesColumns, Pictures!With, Pictures!Without,
        Pictures!Unreferenced, Pictures!Held
<1>11. CASE Pictures!List(p)
  BY <1>0, <1>11 DEF Pictures!List, PicturesFits, Pictures!At, Pictures!Done, Pictures!Move, Pictures!Ask,
        Pictures!Free, PicturesFields, PicturesLoose, PicturesColumns, Pictures!With, Pictures!Without,
        Pictures!Unreferenced, Pictures!Held
<1>12. CASE Pictures!Install(p)
  BY <1>0, <1>12 DEF Pictures!Install, PicturesFits, Pictures!At, Pictures!Done, Pictures!Move, Pictures!Ask,
        Pictures!Free, PicturesFields, PicturesLoose, PicturesColumns, Pictures!With, Pictures!Without,
        Pictures!Unreferenced, Pictures!Held
<1>13. CASE Pictures!Tell(p)
  BY <1>0, <1>13 DEF Pictures!Tell, PicturesFits, Pictures!At, Pictures!Done, Pictures!Move, Pictures!Ask,
        Pictures!Free, PicturesFields, PicturesLoose, PicturesColumns, Pictures!With, Pictures!Without,
        Pictures!Unreferenced, Pictures!Held
<1>14. CASE Pictures!Enter(p)
  BY <1>0, <1>14 DEF Pictures!Enter, PicturesFits, Pictures!At, Pictures!Done, Pictures!Move, Pictures!Ask,
        Pictures!Free, PicturesFields, PicturesLoose, PicturesColumns, Pictures!With, Pictures!Without,
        Pictures!Unreferenced, Pictures!Held
<1>15. CASE Pictures!Ready(p)
  BY <1>0, <1>15 DEF Pictures!Ready, PicturesFits, Pictures!At, Pictures!Done, Pictures!Move, Pictures!Ask,
        Pictures!Free, PicturesFields, PicturesLoose, PicturesColumns, Pictures!With, Pictures!Without,
        Pictures!Unreferenced, Pictures!Held
<1> QED
  BY <1>1, <1>2, <1>3, <1>4, <1>5, <1>6, <1>7, <1>8, <1>9, <1>10, <1>11, <1>12, <1>13, <1>14,
         <1>15 DEF Pictures!Step

LEMMA PicturesApartStays ==
    ASSUME PicturesFiled, NEW p \in Pictures!People, Pictures!Step(p)
    PROVE  PicturesApart'
<1>0. /\ PicturesTyped /\ PicturesFits(req[p]) /\ (req[p].at # "free" =>
             DOMAIN req[p].row = PicturesColumns) /\ PicturesApart /\ Pictures!People' = Pictures!People
      /\ \A q \in Pictures!People : PicturesFits(req[q])
  BY PicturesPlanStays DEF PicturesFiled, PicturesFits, Pictures!Next
<1>1. \A i, j \in DOMAIN rows' : i # j => rows'[i].key # rows'[j].key
  BY <1>0, PicturesRowsGo DEF PicturesApart, PicturesFits, PicturesLoose
<1>2. ASSUME NEW q \in Pictures!People, NEW x \in Pictures!People, req'[q].at \in PicturesLoose,
                 req'[x].at \in PicturesLoose, q # x
      PROVE  req'[q].row.key # req'[x].row.key
  <2>1. ASSUME NEW y \in Pictures!People, y # p, req'[y].at \in PicturesLoose, req'[p].at \in PicturesLoose
        PROVE  req'[y].row.key # req'[p].row.key
    <3>1. req'[y] = req[y] /\ PicturesFits(req[y])
      BY <1>0, <2>1, PicturesOthersStay
    <3>2. req[y].row.key \in 1..last.key /\ \A id \in DOMAIN rows : rows[id].key # req[y].row.key
      BY <2>1, <3>1 DEF PicturesFits
    <3>3. CASE req[p].at \in PicturesLoose /\ req'[p].row.key = req[p].row.key
      BY <1>0, <2>1, <3>1, <3>3 DEF PicturesApart
    <3>4. CASE req'[p].row.key = last'.key /\ last'.key > last.key
      <4>1. last.key \in Nat /\ last'.key \in Nat
        BY <1>0, PicturesRowsGo DEF PicturesTyped
      <4> QED
        BY <3>1, <3>2, <3>4, <4>1
    <3>5. CASE req[p].id \in DOMAIN rows /\ req'[p].row.key = rows[req[p].id].key
      BY <3>1, <3>2, <3>5
    <3> QED
      BY <1>0, <2>1, <3>3, <3>4, <3>5, PicturesFileGoes
  <2>2. CASE q # p /\ x # p
    BY <1>0, <1>2, <2>2, PicturesOthersStay DEF PicturesApart
  <2> QED
    BY <1>2, <2>1, <2>2
<1>3. ASSUME NEW id \in DOMAIN rows'
      PROVE  rows'[id].key \in w1'
  <2>1. CASE id \in DOMAIN rows /\ rows'[id].key = rows[id].key
    <3>1. rows[id].key \in w1 /\ (req[p].at \in PicturesLoose => rows[id].key # req[p].row.key)
      BY <1>0, <2>1 DEF PicturesApart, PicturesFits
    <3> QED
      BY <1>0, <2>1, <3>1, PicturesRowsGo
  <2>2. CASE req[p].at = "insert" /\ rows'[id] = req[p].row /\ id \notin DOMAIN rows
    <3>1. rows' # rows /\ req[p].row.key \in w1
      BY <1>0, <2>2 DEF PicturesFits
    <3>2. w1' = w1 \/ rows' = rows
      BY <1>0, <2>2, PicturesFileGoes
    <3> QED
      BY <2>2, <3>1, <3>2
  <2>3. last.id \in Nat /\ DOMAIN rows \subseteq 1..last.id
    BY <1>0 DEF PicturesTyped
  <2>4. \/ id \in DOMAIN rows /\ rows'[id].key = rows[id].key
        \/ id = last'.id /\ id > last.id /\ req[p].at = "insert" /\ rows'[id] = req[p].row
    BY <1>0, PicturesRowsGo
  <2>5. last'.id \in Nat
    BY <1>0, PicturesRowsGo
  <2>6. id > last.id /\ id = last'.id => id \notin DOMAIN rows
    BY <2>3, <2>5
  <2> QED
    BY <2>1, <2>2, <2>4, <2>6
<1>4. ASSUME NEW k \in w1'
      PROVE  (\E id \in DOMAIN rows' : rows'[id].key = k) \/ \E q \in Pictures!People :
                 req'[q].at \in PicturesLoose /\ req'[q].row.key = k
  <2>1. CASE k \notin w1
    BY <1>0, <2>1, PicturesRowsGo
  <2>2. CASE \E id \in DOMAIN rows : rows[id].key = k
    <3>1. PICK id \in DOMAIN rows : rows[id].key = k
      BY <2>2
    <3>2. CASE id \in DOMAIN rows'
      BY <1>0, <3>1, <3>2, PicturesRowsGo DEF PicturesTyped
    <3>3. CASE id \notin DOMAIN rows'
      BY <1>0, <3>1, <3>3, PicturesRowsGo DEF PicturesFits, PicturesLoose
    <3> QED
      BY <3>2, <3>3
  <2>3. ASSUME NEW q \in Pictures!People, req[q].at \in PicturesLoose, req[q].row.key = k
        PROVE  (\E id \in DOMAIN rows' : rows'[id].key = k) \/ \E x \in Pictures!People :
                   req'[x].at \in PicturesLoose /\ req'[x].row.key = k
    <3>1. CASE q # p
      BY <1>0, <2>3, <3>1, PicturesOthersStay
    <3>2. CASE q = p
      <4>1. req'[p].at \in PicturesLoose \/ req[p].row.key \notin w1'
            \/ (last'.id \in DOMAIN rows' /\ rows'[last'.id].key = req[p].row.key)
        BY <1>0, <2>3, <3>2, PicturesFileGoes
      <4>2. CASE req'[p].at \in PicturesLoose
        BY <1>0, <2>3, <3>2, <4>2, PicturesFileGoes
      <4> QED
        BY <2>3, <3>2, <1>4, <4>1, <4>2
    <3> QED
      BY <3>1, <3>2
  <2> QED
    BY <1>0, <2>1, <2>2, <2>3 DEF PicturesApart
<1> QED
  BY <1>0, <1>1, <1>2, <1>3, <1>4 DEF PicturesApart

LEMMA PicturesCopiedStays ==
    ASSUME PicturesFiled, NEW p \in Pictures!People, Pictures!Step(p)
    PROVE  PicturesCopied'
<1>0. PicturesTyped /\ PicturesFits(req[p]) /\ (req[p].at # "free" => DOMAIN req[p].row = PicturesColumns) /\
          PicturesCopied /\ Pictures!People' = Pictures!People
  BY PicturesPlanStays DEF PicturesFiled, PicturesFits, Pictures!Next
<1>1. last.id \in Nat /\ last'.id \in Nat /\ last.id <= last'.id
  BY <1>0, PicturesRowsGo DEF PicturesTyped
<1>2. \A t \in Pictures!Tables : \A id \in DOMAIN w2'[t] : id \in 1..last'.id /\
          Pictures!TableOf(w2'[t][id].kind) = t
  <2>1. CASE w2' = w2
    BY <1>0, <1>1, <2>1 DEF PicturesCopied
  <2>2. CASE Pictures!Install(p)
    BY <1>0, <1>1, <2>2 DEF Pictures!Install, PicturesCopied, PicturesFits, PicturesTyped, Pictures!Copy,
           Pictures!At
  <2> QED
    BY <2>1, <2>2 DEF Pictures!Step, Pictures!Upload, Pictures!Store, Pictures!Measure, Pictures!Insert,
          Pictures!Change, Pictures!Write, Pictures!Reread, Pictures!Delete, Pictures!Remove, Pictures!Unlink,
          Pictures!List,
       Pictures!Tell, Pictures!Enter, Pictures!Ready
<1>3. \A q \in Pictures!People : w3'[q] # "on" => shown'[q] = <<>>
  <2>1. CASE shown' = shown /\ w3' = w3
    BY <1>0, <2>1 DEF PicturesCopied
  <2>2. CASE Pictures!Tell(p) \/ Pictures!Enter(p) \/ Pictures!Ready(p)
    BY <1>0, <2>2 DEF Pictures!Tell, Pictures!Enter, Pictures!Ready, PicturesCopied, PicturesTyped
  <2> QED
    BY <2>1, <2>2 DEF Pictures!Step, Pictures!Upload, Pictures!Store, Pictures!Measure, Pictures!Insert,
          Pictures!Change, Pictures!Write, Pictures!Reread, Pictures!Delete, Pictures!Remove, Pictures!Unlink,
          Pictures!List, Pictures!Install
<1> QED
  BY <1>0, <1>2, <1>3 DEF PicturesCopied

LEMMA PicturesFiledStays ==
    ASSUME PicturesFiled, [Pictures!Next]_(Pictures!vars)
    PROVE  PicturesFiled'
<1>1. CASE UNCHANGED Pictures!vars
  BY <1>1 DEF PicturesFiled, PicturesTyped, PicturesFits, PicturesApart, PicturesCopied, Pictures!vars,
        Pictures!People, Pictures!Quiet, Pictures!At
<1>2. ASSUME NEW p \in Pictures!People, Pictures!Step(p)
      PROVE  PicturesFiled'
  <2>1. \A q \in Pictures!People : PicturesFits(req[q])'
    BY <1>2, PicturesOthersFit, PicturesOneFits
  <2>2. Pictures!People' = Pictures!People
    BY <1>2, PicturesPlanStays DEF Pictures!Next
  <2>3. (\A q \in Pictures!People : PicturesFits(req[q]))'
    BY <2>1, <2>2
  <2> QED
    BY <1>2, <2>3, PicturesTypedStays, PicturesApartStays, PicturesCopiedStays DEF PicturesFiled
<1> QED
  BY <1>1, <1>2 DEF Pictures!Next

LEMMA PicturesFiledShows ==
    ASSUME PicturesFiled
    PROVE  Pictures!TypeOK /\ Pictures!FilesAreRows
<1>1. Pictures!TypeOK
  BY DEF PicturesFiled, PicturesTyped, PicturesApart, PicturesCopied, Pictures!TypeOK
<1>2. Pictures!FilesAreRows
  BY DEF PicturesFiled, PicturesApart, Pictures!FilesAreRows, Pictures!Quiet, Pictures!At, PicturesLoose
<1> QED
  BY <1>1, <1>2

-----------------------------------------------------------------------------
(* Everybody shows what is held, when people take turns.                     *)

PicturesTable == [id \in DOMAIN rows |-> Pictures!View(rows[id])]
\* What a client shows once it is told of the change.
PicturesBrought(r, s) == IF r.op = "delete" THEN Pictures!Without(s, r.id) ELSE Pictures!With(s, r.id,
    Pictures!View(r.row))
\* The stages after the table was written.
PicturesLate == {"reread", "unlink", "list", "install", "tell"}

\* What a request is for.
PicturesMeant(r) ==
    /\ r.at \in {"store", "measure", "insert"} => r.op = "create"
    /\ r.at \in {"write", "reread"} => r.op = "update"
    /\ r.at \in {"remove", "unlink"} => r.op = "delete"

PicturesSettled ==
    /\ \A t \in Pictures!Tables : w2[t] = Pictures!Held(t)
    /\ \A q \in Pictures!People : w3[q] = "on" => shown[q] = PicturesTable

\* Whose table was written and who has not told yet: the telling makes up for it.
PicturesUnderway(r) ==
    /\ \A t \in Pictures!Tables : t # Pictures!TableOf(r.row.kind) \/ r.at = "tell" => w2[t] = Pictures!Held(t)
    /\ r.at = "install" => r.list = Pictures!Held(Pictures!TableOf(r.row.kind))
    /\ PicturesBrought(r, Pictures!Snapshot) = PicturesTable
    /\ \A q \in Pictures!People : w3[q] = "on" => PicturesBrought(r, shown[q]) = PicturesTable

PicturesTurned ==
    plan.turns =>
        /\ \A p, q \in Pictures!People : req[p].at # "free" /\ req[q].at # "free" => p = q
        /\ \A p \in Pictures!People : PicturesMeant(req[p])
        /\ (\A p \in Pictures!People : req[p].at \notin PicturesLate) => PicturesSettled
        /\ \A p \in Pictures!People : req[p].at \in PicturesLate => PicturesUnderway(req[p])

\* The rows of a kind, all rows as clients see them, and what two copies make up.
PicturesHalf(table, t) == [id \in {i \in DOMAIN table : Pictures!TableOf(table[i].kind) = t} |-> table[id]]
PicturesViews(table) == [id \in DOMAIN table |-> Pictures!View(table[id])]
PicturesWhole(c) ==
    [id \in DOMAIN c["pictures"] \cup DOMAIN c["sounds"] |->
        Pictures!View(IF id \in DOMAIN c["pictures"] THEN c["pictures"][id] ELSE c["sounds"][id])]

LEMMA PicturesHalvesMakeUp ==
    ASSUME NEW table, NEW c, c["pictures"] = PicturesHalf(table, "pictures"), c["sounds"] = PicturesHalf(table,
               "sounds")
    PROVE  PicturesWhole(c) = PicturesViews(table)
<1>1. /\ DOMAIN c["pictures"] = {i \in DOMAIN table : Pictures!TableOf(table[i].kind) = "pictures"}
      /\ DOMAIN c["sounds"] = {i \in DOMAIN table : Pictures!TableOf(table[i].kind) = "sounds"}
      /\ \A id \in DOMAIN c["pictures"] : c["pictures"][id] = table[id]
      /\ \A id \in DOMAIN c["sounds"] : c["sounds"][id] = table[id]
  BY DEF PicturesHalf
<1>2. \A id \in DOMAIN table : Pictures!TableOf(table[id].kind) = "pictures" \/
          Pictures!TableOf(table[id].kind) = "sounds"
  BY DEF Pictures!TableOf
<1>3. DOMAIN c["pictures"] \cup DOMAIN c["sounds"] = DOMAIN table
  BY <1>1, <1>2
<1>4. \A id \in DOMAIN table :
        Pictures!View(IF id \in DOMAIN c["pictures"] THEN c["pictures"][id] ELSE c["sounds"][id]) = Pictures!View(table[id])
  BY <1>1, <1>3
<1> QED
  BY <1>3, <1>4, Zenon DEF PicturesWhole, PicturesViews

LEMMA PicturesSnapshotIs ==
    ASSUME \A t \in Pictures!Tables : w2[t] = Pictures!Held(t)
    PROVE  Pictures!Snapshot = PicturesTable
<1>1. w2["pictures"] = PicturesHalf(rows, "pictures") /\ w2["sounds"] = PicturesHalf(rows, "sounds")
  BY Zenon DEF Pictures!Held, PicturesHalf, Pictures!Tables
<1>2. PicturesWhole(w2) = PicturesViews(rows)
  BY <1>1, PicturesHalvesMakeUp
<1> QED
  BY <1>2, Zenon DEF Pictures!Snapshot, PicturesTable, PicturesWhole, PicturesViews

LEMMA PicturesBroughtTwice ==
    ASSUME NEW r, NEW s, PicturesBrought(r, s) = PicturesTable
    PROVE  PicturesBrought(r, PicturesTable) = PicturesTable
BY DEF PicturesBrought, PicturesTable, Pictures!With, Pictures!Without

LEMMA PicturesTurnedFirst ==
    ASSUME Pictures!PlansFit, Pictures!Init
    PROVE  PicturesTurned
<1>1. \A t \in Pictures!Tables : w2[t] = Pictures!Held(t)
  BY DEF Pictures!Init
<1>2. Pictures!Snapshot = PicturesTable
  BY <1>1, PicturesSnapshotIs
<1>3. \A q \in Pictures!People : w3[q] = "on" => shown[q] = PicturesTable
  BY <1>2 DEF Pictures!Init, Pictures!People
<1> QED
  BY <1>1, <1>3 DEF Pictures!Init, PicturesTurned, PicturesMeant, PicturesSettled, Pictures!Free, Pictures!People,
        PicturesLate

LEMMA PicturesMeantStays ==
    ASSUME PicturesFiled, NEW p \in Pictures!People, Pictures!Step(p), PicturesMeant(req[p])
    PROVE  PicturesMeant(req'[p])
<1>0. DOMAIN req = Pictures!People /\ DOMAIN req[p] = PicturesFields
  BY DEF PicturesFiled, PicturesTyped
<1> DEFINE G == PicturesMeant(req'[p])
<1> SUFFICES G
  OBVIOUS
<1>1. CASE Pictures!Upload(p)
  BY <1>0, <1>1 DEF Pictures!Upload, PicturesMeant, Pictures!At, Pictures!Done, Pictures!Move, Pictures!Ask,
        Pictures!Free, PicturesFields
<1>2. ASSUME NEW ok \in BOOLEAN, Pictures!Store(p, ok)
      PROVE  G
  BY <1>0, <1>2 DEF Pictures!Store, PicturesMeant, Pictures!At, Pictures!Done, Pictures!Move, Pictures!Ask,
        Pictures!Free, PicturesFields
<1>3. ASSUME NEW ok \in BOOLEAN, Pictures!Measure(p, ok)
      PROVE  G
  BY <1>0, <1>3 DEF Pictures!Measure, PicturesMeant, Pictures!At, Pictures!Done, Pictures!Move, Pictures!Ask,
        Pictures!Free, PicturesFields
<1>4. CASE Pictures!Insert(p)
  BY <1>0, <1>4 DEF Pictures!Insert, PicturesMeant, Pictures!At, Pictures!Done, Pictures!Move, Pictures!Ask,
        Pictures!Free, PicturesFields
<1>5. CASE Pictures!Change(p)
  BY <1>0, <1>5 DEF Pictures!Change, PicturesMeant, Pictures!At, Pictures!Done, Pictures!Move, Pictures!Ask,
        Pictures!Free, PicturesFields
<1>6. CASE Pictures!Write(p)
  BY <1>0, <1>6 DEF Pictures!Write, PicturesMeant, Pictures!At, Pictures!Done, Pictures!Move, Pictures!Ask,
        Pictures!Free, PicturesFields
<1>7. CASE Pictures!Reread(p)
  BY <1>0, <1>7 DEF Pictures!Reread, PicturesMeant, Pictures!At, Pictures!Done, Pictures!Move, Pictures!Ask,
        Pictures!Free, PicturesFields
<1>8. CASE Pictures!Delete(p)
  BY <1>0, <1>8 DEF Pictures!Delete, PicturesMeant, Pictures!At, Pictures!Done, Pictures!Move, Pictures!Ask,
        Pictures!Free, PicturesFields
<1>9. CASE Pictures!Remove(p)
  BY <1>0, <1>9 DEF Pictures!Remove, PicturesMeant, Pictures!At, Pictures!Done, Pictures!Move, Pictures!Ask,
        Pictures!Free, PicturesFields
<1>10. CASE Pictures!Unlink(p)
  BY <1>0, <1>10 DEF Pictures!Unlink, PicturesMeant, Pictures!At, Pictures!Done, Pictures!Move, Pictures!Ask,
        Pictures!Free, PicturesFields
<1>11. CASE Pictures!List(p)
  BY <1>0, <1>11 DEF Pictures!List, PicturesMeant, Pictures!At, Pictures!Done, Pictures!Move, Pictures!Ask,
        Pictures!Free, PicturesFields
<1>12. CASE Pictures!Install(p)
  BY <1>0, <1>12 DEF Pictures!Install, PicturesMeant, Pictures!At, Pictures!Done, Pictures!Move, Pictures!Ask,
        Pictures!Free, PicturesFields
<1>13. CASE Pictures!Tell(p)
  BY <1>0, <1>13 DEF Pictures!Tell, PicturesMeant, Pictures!At, Pictures!Done, Pictures!Move, Pictures!Ask,
        Pictures!Free, PicturesFields
<1>14. CASE Pictures!Enter(p)
  BY <1>0, <1>14 DEF Pictures!Enter, PicturesMeant, Pictures!At, Pictures!Done, Pictures!Move, Pictures!Ask,
        Pictures!Free, PicturesFields
<1>15. CASE Pictures!Ready(p)
  BY <1>0, <1>15 DEF Pictures!Ready, PicturesMeant, Pictures!At, Pictures!Done, Pictures!Move, Pictures!Ask,
        Pictures!Free, PicturesFields
<1> QED
  BY <1>1, <1>2, <1>3, <1>4, <1>5, <1>6, <1>7, <1>8, <1>9, <1>10, <1>11, <1>12, <1>13, <1>14,
         <1>15 DEF Pictures!Step

\* Who asks has been free, and is busy from then on.
LEMMA PicturesAskedIs ==
    ASSUME PicturesFiled, NEW p \in Pictures!People, Pictures!Upload(p) \/ Pictures!Change(p) \/ Pictures!Delete(p)
    PROVE  req[p].at = "free" /\ req'[p].at \in {"store", "write", "remove"}
<1>0. DOMAIN req = Pictures!People
  BY DEF PicturesFiled, PicturesTyped
<1>1. CASE Pictures!Upload(p)
  BY <1>0, <1>1 DEF Pictures!Upload, Pictures!Ask, Pictures!At, Pictures!Free
<1>2. CASE Pictures!Change(p)
  BY <1>0, <1>2 DEF Pictures!Change, Pictures!Ask, Pictures!At, Pictures!Free
<1>3. CASE Pictures!Delete(p)
  BY <1>0, <1>3 DEF Pictures!Delete, Pictures!Ask, Pictures!At, Pictures!Free
<1> QED
  BY <1>1, <1>2, <1>3

\* Before the table is written nothing is shown otherwise.
LEMMA PicturesSettledStays ==
    ASSUME PicturesFiled, NEW p \in Pictures!People, Pictures!Step(p), PicturesSettled,
               req[p].at \notin PicturesLate, req'[p].at \notin PicturesLate
    PROVE  PicturesSettled'
<1>0. /\ DOMAIN req = Pictures!People /\ DOMAIN req[p] = PicturesFields /\ DOMAIN shown = Pictures!People /\
             DOMAIN w3 = Pictures!People
      /\ Pictures!People' = Pictures!People
  BY PicturesPlanStays DEF PicturesFiled, PicturesTyped, Pictures!Next
<1>1. Pictures!Snapshot = PicturesTable
  BY PicturesSnapshotIs DEF PicturesSettled
<1>2. rows' = rows /\ w2' = w2
  <2>1. CASE Pictures!Insert(p) \/ Pictures!Write(p) \/ Pictures!Remove(p)
    BY <1>0, <2>1 DEF PicturesLate, Pictures!Insert, Pictures!Write, Pictures!Remove, Pictures!Move, Pictures!Done,
          PicturesFields
  <2>2. ~Pictures!Install(p)
    BY DEF Pictures!Install, Pictures!At, PicturesLate
  <2> QED
    BY <2>1, <2>2 DEF Pictures!Step, Pictures!Upload, Pictures!Store, Pictures!Measure, Pictures!Change,
          Pictures!Reread, Pictures!Delete, Pictures!Unlink, Pictures!List, Pictures!Tell, Pictures!Enter,
          Pictures!Ready
<1>3. \A q \in Pictures!People : w3'[q] = "on" => shown'[q] = PicturesTable
  <2>1. CASE shown' = shown /\ w3' = w3
    BY <2>1 DEF PicturesSettled
  <2>2. CASE Pictures!Enter(p) \/ Pictures!Ready(p)
    BY <1>0, <1>1, <2>2 DEF Pictures!Enter, Pictures!Ready, PicturesSettled
  <2> QED
    BY <2>1, <2>2 DEF PicturesLate, Pictures!Step, Pictures!Upload, Pictures!Store, Pictures!Measure,
          Pictures!Insert, Pictures!Change, Pictures!Write, Pictures!Reread, Pictures!Delete, Pictures!Remove,
          Pictures!Unlink, Pictures!List,
       Pictures!Install, Pictures!Tell, Pictures!At
<1> QED
  BY <1>0, <1>2, <1>3 DEF PicturesSettled, Pictures!Held, PicturesTable

\* A write is made up for by what will be told.
LEMMA PicturesWritesAreMadeUp ==
    ASSUME PicturesFiled, NEW p \in Pictures!People, Pictures!Step(p), PicturesSettled, PicturesMeant(req[p]),
               req[p].at \notin PicturesLate, req'[p].at \in PicturesLate
    PROVE  PicturesUnderway(req[p])'
<1>0. /\ DOMAIN req = Pictures!People /\ DOMAIN req[p] = PicturesFields /\
             Pictures!People' = Pictures!People /\ PicturesFits(req[p]) /\ DOMAIN last = {"id", "key"}
      /\ last.id \in Nat /\ DOMAIN rows \subseteq 1..last.id
  BY PicturesPlanStays DEF PicturesFiled, PicturesTyped, Pictures!Next
<1>1. Pictures!Snapshot = PicturesTable
  BY PicturesSnapshotIs DEF PicturesSettled
<1>2. /\ Pictures!Insert(p) \/ Pictures!Write(p) \/ Pictures!Remove(p)
      /\ w2' = w2 /\ w3' = w3 /\ shown' = shown
  <2>1. ~Pictures!Reread(p) /\ ~Pictures!Unlink(p) /\ ~Pictures!List(p) /\ ~Pictures!Install(p) /\ ~Pictures!Tell(p)
    BY DEF Pictures!Reread, Pictures!Unlink, Pictures!List, Pictures!Install, Pictures!Tell, Pictures!At,
           PicturesLate
  <2>2. ~Pictures!Upload(p) /\ ~Pictures!Change(p) /\ ~Pictures!Delete(p)
    BY <1>0, PicturesAskedIs DEF PicturesLate
  <2>3. ~Pictures!Enter(p) /\ ~Pictures!Ready(p)
    BY DEF Pictures!Enter, Pictures!Ready
  <2>4. \A ok \in BOOLEAN : ~Pictures!Store(p, ok) /\ ~Pictures!Measure(p, ok)
    BY <1>0 DEF Pictures!Store, Pictures!Measure, Pictures!Done, Pictures!Move, PicturesLate, Pictures!Free,
          PicturesFields
  <2>5. Pictures!Insert(p) \/ Pictures!Write(p) \/ Pictures!Remove(p)
    BY <2>1, <2>2, <2>3, <2>4 DEF Pictures!Step
  <2> QED
    BY <2>5 DEF Pictures!Insert, Pictures!Write, Pictures!Remove
<1>3. /\ PicturesBrought(req'[p], PicturesTable) = PicturesTable'
      /\ \A t \in Pictures!Tables : t # Pictures!TableOf(req'[p].row.kind) => Pictures!Held(t)' = Pictures!Held(t)
      /\ req'[p].at \notin {"install", "tell"}
  <2>1. CASE Pictures!Insert(p)
    <3>1. rows' = Pictures!With(rows, last.id + 1, req[p].row) /\ req'[p].row = req[p].row /\
              req'[p].id = last.id + 1
          /\ req'[p].op = "create" /\ req'[p].at = "list"
      BY <1>0, <2>1 DEF Pictures!Insert, Pictures!Done, Pictures!Free, PicturesLate, Pictures!At, PicturesMeant,
            PicturesFields
    <3>2. last.id + 1 \notin DOMAIN rows
      BY <1>0
    <3>3. PicturesBrought(req'[p], PicturesTable) = PicturesTable'
      BY <3>1, <3>2 DEF PicturesBrought, PicturesTable, Pictures!With
    <3>4. \A t \in Pictures!Tables : t # Pictures!TableOf(req[p].row.kind) => Pictures!Held(t)' = Pictures!Held(t)
      BY <3>1, <3>2 DEF Pictures!Held, Pictures!With
    <3> QED
      BY <3>1, <3>3, <3>4
  <2>2. CASE Pictures!Write(p)
    <3>1. /\ rows' = [rows EXCEPT ![req[p].id] = req[p].row] /\ req'[p].row = req[p].row /\ req'[p].id = req[p].id
          /\ req'[p].op = "update" /\ req'[p].at = "reread" /\ req[p].id \in DOMAIN rows
          /\ rows[req[p].id].kind = req[p].row.kind
      BY <1>0, <2>2 DEF Pictures!Write, Pictures!Done, Pictures!Move, Pictures!Free, PicturesLate, Pictures!At,
            PicturesMeant, PicturesFields, PicturesFits
    <3>3. PicturesBrought(req'[p], PicturesTable) = PicturesTable'
      BY <3>1 DEF PicturesBrought, PicturesTable, Pictures!With
    <3>4. \A t \in Pictures!Tables : t # Pictures!TableOf(req[p].row.kind) => Pictures!Held(t)' = Pictures!Held(t)
      BY <3>1 DEF Pictures!Held
    <3> QED
      BY <3>1, <3>3, <3>4
  <2>3. CASE Pictures!Remove(p)
    <3>1. /\ rows' = Pictures!Without(rows, req[p].id) /\ req'[p].row = req[p].row /\ req'[p].id = req[p].id
          /\ req'[p].op = "delete" /\ req'[p].at = "unlink" /\ req[p].id \in DOMAIN rows
          /\ rows[req[p].id].kind = req[p].row.kind
      BY <1>0, <2>3 DEF Pictures!Remove, Pictures!Done, Pictures!Move, Pictures!Free, PicturesLate, Pictures!At,
            PicturesMeant, PicturesFields, PicturesFits
    <3>3. PicturesBrought(req'[p], PicturesTable) = PicturesTable'
      BY <3>1 DEF PicturesBrought, PicturesTable, Pictures!Without
    <3>4. \A t \in Pictures!Tables : t # Pictures!TableOf(req[p].row.kind) => Pictures!Held(t)' = Pictures!Held(t)
      BY <3>1 DEF Pictures!Held, Pictures!Without
    <3> QED
      BY <3>1, <3>3, <3>4
  <2> QED
    BY <1>2, <2>1, <2>2, <2>3
<1>4. Pictures!Snapshot' = Pictures!Snapshot
  BY <1>2 DEF Pictures!Snapshot
<1>5. \A t \in Pictures!Tables : t # Pictures!TableOf(req'[p].row.kind) \/ req'[p].at = "tell" =>
          w2'[t] = Pictures!Held(t)'
  BY <1>2, <1>3 DEF PicturesSettled
<1>6. \A q \in Pictures!People' : w3'[q] = "on" => PicturesBrought(req'[p], shown'[q]) = PicturesTable'
  BY <1>0, <1>2, <1>3 DEF PicturesSettled
<1> QED
  BY <1>1, <1>3, <1>4, <1>5, <1>6 DEF PicturesUnderway, PicturesBrought, Pictures!With, Pictures!Without,
        Pictures!View

\* What is under way stays made up for, whoever comes in meanwhile.
LEMMA PicturesUnderwayStays ==
    ASSUME PicturesFiled, NEW p \in Pictures!People, NEW o \in Pictures!People, Pictures!Step(p),
               PicturesUnderway(req[o]), PicturesMeant(req[o]),
           req[o].at \in PicturesLate, req'[o].at \in PicturesLate,
           p # o => req[p].at = "free" /\ req'[p].at = "free"
    PROVE  PicturesUnderway(req[o])'
<1>0. /\ DOMAIN req = Pictures!People /\ DOMAIN req[o] = PicturesFields /\ DOMAIN shown = Pictures!People /\
             DOMAIN w3 = Pictures!People
      /\ DOMAIN w2 = Pictures!Tables /\ Pictures!People' = Pictures!People /\ o \in Pictures!People /\
             \A q \in Pictures!People : DOMAIN req[q] = PicturesFields
  BY PicturesPlanStays DEF PicturesFiled, PicturesTyped, Pictures!Next
<1>a. PicturesBrought(req[o], Pictures!Snapshot) = PicturesTable /\ \A q \in Pictures!People : w3[q] = "on" =>
          PicturesBrought(req[o], shown[q]) = PicturesTable
  BY DEF PicturesUnderway
<1>b. o = p \/ Pictures!Enter(p) \/ Pictures!Ready(p)
  <2>1. CASE p # o
    <3>1. ~Pictures!Upload(p) /\ ~Pictures!Change(p) /\ ~Pictures!Delete(p)
      BY <2>1, PicturesAskedIs
    <3> QED
      BY <2>1, <3>1 DEF Pictures!Step, Pictures!At, Pictures!Store, Pictures!Measure, Pictures!Insert,
            Pictures!Write, Pictures!Reread, Pictures!Remove, Pictures!Unlink, Pictures!List, Pictures!Install,
            Pictures!Tell
  <2> QED
    BY <2>1
<1>c. Pictures!Reread(o) \/ Pictures!Unlink(o) \/ Pictures!List(o) \/ Pictures!Install(o) \/
          Pictures!Enter(p) \/ Pictures!Ready(p)
  <2>1. CASE o = p
    <3>1. ~Pictures!Upload(o) /\ ~Pictures!Insert(o) /\ ~Pictures!Change(o) /\ ~Pictures!Write(o) /\
              ~Pictures!Delete(o) /\ ~Pictures!Remove(o)
      BY DEF Pictures!Upload, Pictures!Insert, Pictures!Change, Pictures!Write, Pictures!Delete, Pictures!Remove,
            Pictures!Ask, Pictures!At, PicturesLate
    <3>2. \A ok \in BOOLEAN : ~Pictures!Store(o, ok) /\ ~Pictures!Measure(o, ok)
      BY DEF Pictures!Store, Pictures!Measure, Pictures!At, PicturesLate
    <3>3. ~Pictures!Tell(o)
      BY <1>0 DEF Pictures!Tell, Pictures!Done, Pictures!Free, PicturesLate
    <3> QED
      BY <2>1, <3>1, <3>2, <3>3 DEF Pictures!Step
  <2> QED
    BY <1>b, <2>1
<1>1. CASE Pictures!Enter(p) \/ Pictures!Ready(p)
  <2>1. req' = req /\ rows' = rows /\ w2' = w2
    BY <1>1 DEF Pictures!Enter, Pictures!Ready
  <2>2. \A q \in Pictures!People : w3'[q] = "on" => shown'[q] = Pictures!Snapshot \/ (w3[q] = "on" /\
            shown'[q] = shown[q])
    BY <1>0, <1>1 DEF Pictures!Enter, Pictures!Ready
  <2>3. PicturesTable' = PicturesTable /\ Pictures!Snapshot' = Pictures!Snapshot
    BY <2>1 DEF PicturesTable, Pictures!Snapshot
  <2>4. \A q \in Pictures!People' : w3'[q] = "on" => PicturesBrought(req'[o], shown'[q]) = PicturesTable'
    BY <1>0, <1>a, <2>1, <2>2, <2>3
  <2>5. \A t \in Pictures!Tables : t # Pictures!TableOf(req'[o].row.kind) \/ req'[o].at = "tell" =>
            w2'[t] = Pictures!Held(t)'
    BY <2>1 DEF PicturesUnderway, Pictures!Held
  <2>6. req'[o].at = "install" => req'[o].list = Pictures!Held(Pictures!TableOf(req[o].row.kind))'
    BY <2>1 DEF PicturesUnderway, Pictures!Held
  <2> QED
    BY <1>a, <2>1, <2>3, <2>4, <2>5, <2>6 DEF PicturesUnderway
<1>2. CASE Pictures!Reread(o)
  <2>1. rows' = rows /\ w2' = w2 /\ w3' = w3 /\ shown' = shown
    BY <1>2 DEF Pictures!Reread
  <2>2. req[o].op = "update" /\ req[o].at = "reread"
    BY <1>2 DEF Pictures!Reread, Pictures!At, PicturesMeant
  <2>3. req[o].id \in DOMAIN PicturesTable /\ PicturesTable[req[o].id] = Pictures!View(req[o].row)
    BY <1>a, <2>2 DEF PicturesBrought, Pictures!With
  <2>4. req[o].id \in DOMAIN rows /\ Pictures!View(rows[req[o].id]) = Pictures!View(req[o].row)
    BY <2>3 DEF PicturesTable
  <2>5. /\ req'[o].row = rows[req[o].id] /\ req'[o].op = req[o].op /\ req'[o].id = req[o].id /\ req'[o].at = "list"
    BY <1>0, <1>2, <2>4 DEF Pictures!Reread, PicturesFields
  <2>6. Pictures!View(req'[o].row) = Pictures!View(req[o].row) /\
            Pictures!TableOf(req'[o].row.kind) = Pictures!TableOf(req[o].row.kind)
    BY <2>4, <2>5 DEF Pictures!View
  <2>7. \A s : PicturesBrought(req'[o], s) = PicturesBrought(req[o], s)
    BY <2>5, <2>6 DEF PicturesBrought
  <2>8. PicturesTable' = PicturesTable /\ Pictures!Snapshot' = Pictures!Snapshot
    BY <2>1 DEF PicturesTable, Pictures!Snapshot
  <2>9. \A q \in Pictures!People' : w3'[q] = "on" => PicturesBrought(req'[o], shown'[q]) = PicturesTable'
    BY <1>0, <1>a, <2>1, <2>7, <2>8
  <2>10. \A t \in Pictures!Tables : t # Pictures!TableOf(req'[o].row.kind) \/ req'[o].at = "tell" =>
             w2'[t] = Pictures!Held(t)'
    BY <2>1, <2>5, <2>6 DEF PicturesUnderway, Pictures!Held
  <2> QED
    BY <1>a, <2>5, <2>7, <2>8, <2>9, <2>10 DEF PicturesUnderway
<1>3. CASE Pictures!Unlink(o) \/ Pictures!List(o)
  <2>1. rows' = rows /\ w2' = w2 /\ w3' = w3 /\ shown' = shown
    BY <1>3 DEF Pictures!Unlink, Pictures!List
  <2>5. /\ req'[o].row = req[o].row /\ req'[o].op = req[o].op /\ req'[o].id = req[o].id
        /\ req'[o].at = "list" \/ (req'[o].at = "install" /\
               req'[o].list = Pictures!Held(Pictures!TableOf(req[o].row.kind)))
    BY <1>0, <1>3 DEF Pictures!Unlink, Pictures!List, Pictures!Move, PicturesFields
  <2>7. \A s : PicturesBrought(req'[o], s) = PicturesBrought(req[o], s)
    BY <2>5 DEF PicturesBrought
  <2>8. PicturesTable' = PicturesTable /\ Pictures!Snapshot' = Pictures!Snapshot
    BY <2>1 DEF PicturesTable, Pictures!Snapshot
  <2>9. \A q \in Pictures!People' : w3'[q] = "on" => PicturesBrought(req'[o], shown'[q]) = PicturesTable'
    BY <1>0, <1>a, <2>1, <2>7, <2>8
  <2>10. \A t \in Pictures!Tables : t # Pictures!TableOf(req'[o].row.kind) \/ req'[o].at = "tell" =>
             w2'[t] = Pictures!Held(t)'
    BY <2>1, <2>5 DEF PicturesUnderway, Pictures!Held
  <2>11. req'[o].at = "install" => req'[o].list = Pictures!Held(Pictures!TableOf(req[o].row.kind))'
    BY <2>1, <2>5 DEF Pictures!Held
  <2> QED
    BY <1>a, <2>7, <2>8, <2>9, <2>10, <2>11 DEF PicturesUnderway
<1>4. CASE Pictures!Install(o)
  <2>1. rows' = rows /\ w3' = w3 /\ shown' = shown /\ req[o].at = "install"
    BY <1>4 DEF Pictures!Install, Pictures!At
  <2>5. /\ req'[o].row = req[o].row /\ req'[o].op = req[o].op /\ req'[o].id = req[o].id /\ req'[o].at = "tell"
    BY <1>0, <1>4 DEF Pictures!Install, Pictures!Move, PicturesFields
  <2>6. \A t \in Pictures!Tables : w2'[t] = Pictures!Held(t)
    BY <1>0, <1>4, <2>1 DEF Pictures!Install, PicturesUnderway, Pictures!Copy
  <2>7. \A s : PicturesBrought(req'[o], s) = PicturesBrought(req[o], s)
    BY <2>5 DEF PicturesBrought
  <2>8. PicturesTable' = PicturesTable /\ \A t \in Pictures!Tables : Pictures!Held(t)' = Pictures!Held(t)
    BY <2>1 DEF PicturesTable, Pictures!Held
  <2>9. \A q \in Pictures!People' : w3'[q] = "on" => PicturesBrought(req'[o], shown'[q]) = PicturesTable'
    BY <1>0, <1>a, <2>1, <2>7, <2>8
  <2>10. (\A t \in Pictures!Tables : w2[t] = Pictures!Held(t))'
    BY <2>6, <2>8
  <2>11. Pictures!Snapshot' = PicturesTable'
    <3>1. w2'["pictures"] = PicturesHalf(rows', "pictures") /\ w2'["sounds"] = PicturesHalf(rows', "sounds")
      BY <2>10, Zenon DEF Pictures!Held, PicturesHalf, Pictures!Tables
    <3>2. PicturesWhole(w2') = PicturesViews(rows')
      BY <3>1, PicturesHalvesMakeUp
    <3> QED
      BY <3>2, Zenon DEF Pictures!Snapshot, PicturesTable, PicturesWhole, PicturesViews
  <2>12. PicturesBrought(req'[o], PicturesTable') = PicturesTable'
    BY <1>a, <2>7, <2>8, PicturesBroughtTwice
  <2> QED
    BY <2>5, <2>9, <2>10, <2>11, <2>12 DEF PicturesUnderway
<1> QED
  BY <1>c, <1>1, <1>2, <1>3, <1>4

\* Once everybody is told there is nothing to make up for.
LEMMA PicturesTellingSettles ==
    ASSUME PicturesFiled, NEW o \in Pictures!People, PicturesUnderway(req[o]), Pictures!Tell(o)
    PROVE  PicturesSettled'
<1>1. rows' = rows /\ w2' = w2 /\ w3' = w3 /\ req[o].at = "tell" /\ Pictures!People' = Pictures!People
  BY DEF Pictures!Tell, Pictures!At, Pictures!People
<1>2. PicturesTable' = PicturesTable /\ \A t \in Pictures!Tables : Pictures!Held(t)' = Pictures!Held(t)
  BY <1>1 DEF PicturesTable, Pictures!Held
<1>3. \A q \in Pictures!People : w3[q] = "on" => shown'[q] = PicturesBrought(req[o], shown[q])
  BY DEF Pictures!Tell, PicturesBrought
<1> QED
  BY <1>1, <1>2, <1>3 DEF PicturesSettled, PicturesUnderway

LEMMA PicturesTurnedStays ==
    ASSUME PicturesFiled, PicturesTurned, [Pictures!Next]_(Pictures!vars)
    PROVE  PicturesTurned'
<1> SUFFICES ASSUME plan.turns
             PROVE  PicturesTurned'
  BY PicturesPlanStays DEF PicturesTurned
<1>1. CASE UNCHANGED Pictures!vars
  <2>1. PicturesSettled' = PicturesSettled /\ (\A p : PicturesUnderway(req[p])' = PicturesUnderway(req[p])) /\
            Pictures!People' = Pictures!People /\ req' = req /\ plan' = plan
    BY <1>1 DEF PicturesSettled, PicturesUnderway, PicturesTable, Pictures!Snapshot, Pictures!Held, Pictures!vars,
          Pictures!People
  <2> QED
    BY <2>1 DEF PicturesTurned
<1>2. ASSUME NEW p \in Pictures!People, Pictures!Step(p)
      PROVE  PicturesTurned'
  <2>0. /\ Pictures!People' = Pictures!People /\ DOMAIN req = Pictures!People /\ DOMAIN req' = Pictures!People
        /\ \A q \in Pictures!People \ {p} : req'[q] = req[q]
        /\ \A q \in Pictures!People : PicturesMeant(req[q])
    BY <1>2, PicturesOthersStay, PicturesPlanStays DEF PicturesFiled, PicturesTyped, PicturesTurned, Pictures!Next
  <2>1. ASSUME NEW x \in Pictures!People, NEW y \in Pictures!People, req'[x].at # "free", req'[y].at # "free"
        PROVE  x = y
    <3>1. req[p].at = "free" /\ req'[p].at # "free" => \A q \in Pictures!People : req[q].at = "free"
      <4>1. CASE Pictures!Upload(p) \/ Pictures!Change(p) \/ Pictures!Delete(p)
        BY <4>1 DEF Pictures!Upload, Pictures!Change, Pictures!Delete, Pictures!Turn, Pictures!At
      <4>2. CASE Pictures!Enter(p) \/ Pictures!Ready(p)
        BY <4>2 DEF Pictures!Enter, Pictures!Ready
      <4> QED
        BY <1>2, <4>1, <4>2 DEF Pictures!Step, Pictures!At, Pictures!Store, Pictures!Measure, Pictures!Insert,
              Pictures!Write, Pictures!Reread, Pictures!Remove, Pictures!Unlink, Pictures!List, Pictures!Install,
              Pictures!Tell
    <3> QED
      BY <2>0, <2>1, <3>1 DEF PicturesTurned
  <2>2. \A q \in Pictures!People : PicturesMeant(req'[q])
    BY <1>2, <2>0, PicturesMeantStays
  <2>3. ASSUME \A q \in Pictures!People : req'[q].at \notin PicturesLate
        PROVE  PicturesSettled'
    <3>1. CASE \A q \in Pictures!People : req[q].at \notin PicturesLate
      BY <1>2, <2>3, <3>1, PicturesSettledStays DEF PicturesTurned
    <3>2. ASSUME NEW o \in Pictures!People, req[o].at \in PicturesLate
          PROVE  PicturesSettled'
      <4>1. o = p
        BY <2>0, <2>3, <3>2
      <4>2. PicturesUnderway(req[o])
        BY <3>2 DEF PicturesTurned
      <4>3. Pictures!Tell(p)
        <5>0. DOMAIN req[p] = PicturesFields
          BY DEF PicturesFiled, PicturesTyped
        <5>1. ~Pictures!Upload(p) /\ ~Pictures!Insert(p) /\ ~Pictures!Change(p) /\ ~Pictures!Write(p) /\
                  ~Pictures!Delete(p) /\ ~Pictures!Remove(p)
          BY <3>2, <4>1 DEF Pictures!Upload, Pictures!Insert, Pictures!Change, Pictures!Write, Pictures!Delete,
                Pictures!Remove, Pictures!Ask, Pictures!At, PicturesLate
        <5>2. \A ok \in BOOLEAN : ~Pictures!Store(p, ok) /\ ~Pictures!Measure(p, ok)
          BY <3>2, <4>1 DEF Pictures!Store, Pictures!Measure, Pictures!At, PicturesLate
        <5>3. ~Pictures!Unlink(p) /\ ~Pictures!List(p) /\ ~Pictures!Install(p) /\ ~Pictures!Enter(p) /\
                  ~Pictures!Ready(p)
          BY <2>0, <2>3, <3>2, <4>1, <5>0 DEF Pictures!Unlink, Pictures!List, Pictures!Install, Pictures!Enter,
                Pictures!Ready, Pictures!Move, PicturesLate, PicturesFields
        <5>4. ~Pictures!Reread(p)
          <6>1. ASSUME Pictures!Reread(p)
                PROVE  FALSE
            <7>1. req[p].op = "update" /\ PicturesBrought(req[p], Pictures!Snapshot) = PicturesTable
              BY <2>0, <4>1, <4>2, <6>1 DEF Pictures!Reread, Pictures!At, PicturesMeant, PicturesUnderway
            <7>2. req[p].id \in DOMAIN PicturesTable
              BY <7>1 DEF PicturesBrought, Pictures!With
            <7>3. req'[p].at = "list"
              BY <2>0, <5>0, <6>1, <7>2 DEF Pictures!Reread, PicturesTable, PicturesFields
            <7> QED
              BY <2>3, <7>3 DEF PicturesLate
          <6> QED
            BY <6>1
        <5> QED
          BY <1>2, <5>1, <5>2, <5>3, <5>4 DEF Pictures!Step
      <4> QED
        BY <4>1, <4>2, <4>3, PicturesTellingSettles
    <3> QED
      BY <3>1, <3>2
  <2>4. ASSUME NEW o \in Pictures!People, req'[o].at \in PicturesLate
        PROVE  PicturesUnderway(req[o])'
    <3>1. CASE req[o].at \in PicturesLate
      <4>1. p # o => req[p].at = "free" /\ req'[p].at = "free"
        BY <2>1, <2>4, <3>1 DEF PicturesTurned, PicturesLate
      <4> QED
        BY <1>2, <2>0, <2>4, <3>1, <4>1, PicturesUnderwayStays DEF PicturesTurned
    <3>2. CASE req[o].at \notin PicturesLate
      <4>1. o = p
        BY <2>0, <2>4, <3>2
      <4>2. req[p].at # "free"
        <5>1. CASE Pictures!Upload(p) \/ Pictures!Change(p) \/ Pictures!Delete(p)
          BY <2>4, <4>1, <5>1, PicturesAskedIs DEF PicturesLate
        <5>2. CASE Pictures!Enter(p) \/ Pictures!Ready(p)
          BY <2>4, <3>2, <4>1, <5>2 DEF Pictures!Enter, Pictures!Ready
        <5> QED
          BY <1>2, <5>1, <5>2 DEF Pictures!Step, Pictures!At, Pictures!Store, Pictures!Measure, Pictures!Insert,
                Pictures!Write, Pictures!Reread, Pictures!Remove, Pictures!Unlink, Pictures!List, Pictures!Install,
                Pictures!Tell
      <4>3. \A q \in Pictures!People : req[q].at \notin PicturesLate
        BY <3>2, <4>1, <4>2 DEF PicturesTurned, PicturesLate
      <4>4. PicturesSettled
        BY <4>3 DEF PicturesTurned
      <4> QED
        BY <1>2, <2>0, <2>4, <3>2, <4>1, <4>4, PicturesWritesAreMadeUp
    <3> QED
      BY <3>1, <3>2
  <2>5. (\A x, y \in Pictures!People : req[x].at # "free" /\ req[y].at # "free" => x = y)'
    BY <2>0, <2>1
  <2>6. (\A q \in Pictures!People : PicturesMeant(req[q]))'
    BY <2>0, <2>2
  <2>7. ((\A q \in Pictures!People : req[q].at \notin PicturesLate) => PicturesSettled)'
    BY <2>0, <2>3
  <2>8. (\A q \in Pictures!People : req[q].at \in PicturesLate => PicturesUnderway(req[q]))'
    BY <2>0, <2>4
  <2> QED
    BY <2>5, <2>6, <2>7, <2>8 DEF PicturesTurned
<1> QED
  BY <1>1, <1>2 DEF Pictures!Next

LEMMA PicturesTurnedShows ==
    ASSUME PicturesTurned
    PROVE  Pictures!NobodyMisses
BY DEF PicturesTurned, Pictures!NobodyMisses, Pictures!Quiet, Pictures!At, PicturesSettled, PicturesTable,
      PicturesLate
---------------------------------------------------------------------------
(* Private conversations.  rows are the lines, w1 the people, w2 the       *)
(* threads, w3 who is online.  The first invariant says what threads and   *)
(* lines are and what the requests hold of them; the second, under the     *)
(* first, what each client of a conversation shows and what is still on    *)
(* its way to it.                                                          *)

LEMMA PrivateCounts == \A S : Private!Cardinality(S) = Cardinality(S) /\ Private!IsFiniteSet(S) = IsFiniteSet(S)
  BY DEF Private!Cardinality, Cardinality, Private!IsFiniteSet, IsFiniteSet

PrivatePersons == DOMAIN w1
PrivateFields == {"at", "op", "to", "line", "thread", "text", "reply", "view", "tell", "counted", "whose"}
\* The stages of a request by what it holds: a line just written, a thread.
PrivateSending == {"own", "tell own", "peer", "tell peer"}
PrivatePaired == {"reply", "create", "marked", "answer"} \cup PrivateSending

\* The threads T among the people P, when the last line has the number n.
PrivateThreads(T, P, n) ==
    /\ \E k \in Nat : DOMAIN T = 1..k
    /\ \A t \in DOMAIN T :
        /\ DOMAIN T[t] = {"who", "read", "at"} /\ DOMAIN T[t].read = T[t].who
        /\ \E a, b \in P : a # b /\ T[t].who = {a, b}
        /\ \A p \in T[t].who : T[t].read[p] \in 0..n
    /\ \A t, u \in DOMAIN T : T[t].who = T[u].who => t = u

\* The lines L in the threads T; nobody's own are unread to them.
PrivateLines(L, T, n) ==
    /\ n \in Nat /\ DOMAIN L \subseteq 1..n
    /\ \A id \in DOMAIN L :
        /\ DOMAIN L[id] = {"thread", "by", "text", "reply"}
        /\ L[id].thread \in DOMAIN T /\ L[id].by \in T[L[id].thread].who
        /\ id <= T[L[id].thread].read[L[id].by]

PrivateTyped ==
    /\ PrivateThreads(w2, PrivatePersons, last) /\ PrivateLines(rows, w2, last)
    /\ DOMAIN req = PrivatePersons /\ DOMAIN w3 = PrivatePersons /\ DOMAIN shown = PrivatePersons
    /\ \A p \in PrivatePersons : DOMAIN req[p] = PrivateFields /\ w3[p] \in Int

\* What a request holds: the thread it is in, and a line that only its author takes away.
PrivateFits(p, r) ==
    /\ r.at = "free" => r = Private!Free
    /\ r.line \in 0..last /\ r.tell \subseteq PrivatePersons
    /\ r.at \in {"open"} \cup PrivatePaired => r.to \in PrivatePersons \ {p}
    /\ r.at \in PrivatePaired => r.thread \in DOMAIN w2 /\ w2[r.thread].who = {p, r.to}
    /\ r.at \in {"edit", "delete", "reread", "notify"} => r.thread \in DOMAIN w2 /\ p \in w2[r.thread].who
    /\ r.at \in {"edit", "reread"} => r.op = "edit"
    /\ r.at = "delete" => r.op = "delete"
    /\ r.at = "notify" => r.op \in {"edit", "delete"} /\ r.tell \subseteq w2[r.thread].who
    /\ r.at \in PrivateSending \cup {"edit", "delete", "reread"} \/ (r.at = "notify" /\ r.op = "edit") =>
        r.line \in DOMAIN rows /\ rows[r.line].by = p /\ rows[r.line].thread = r.thread
    /\ r.at \in PrivateSending \/ (r.at = "notify" /\ r.op = "edit") =>
        r.view.text = rows[r.line].text /\ r.view.thread = r.thread
    /\ r.at = "notify" /\ r.op = "delete" => r.line \notin DOMAIN rows

\* What a client shows is its user's, under the name of the other.
PrivateShowing(p, client) ==
    /\ DOMAIN client = {"lines", "badge"} /\ DOMAIN client.lines \subseteq 1..last
    /\ \A id \in DOMAIN client.lines :
        LET line == client.lines[id]
        IN  /\ line.view.thread \in DOMAIN w2 /\ line.peer # p
            /\ w2[line.view.thread].who = {p, line.peer}
            /\ id \in DOMAIN rows => rows[id].thread = line.view.thread

PrivateKept == PrivateTyped /\ (\A p \in PrivatePersons : PrivateFits(p, req[p])) /\ \A p \in PrivatePersons :
    PrivateShowing(p, shown[p])

LEMMA PrivateKeptFirst ==
    ASSUME Private!Init
    PROVE  PrivateKept
<1> USE DEF Private!Init
<1>1. PrivateThreads(w2, PrivatePersons, last)
  <2>1. DOMAIN w2 = 1..0 /\ 0 \in Nat
    OBVIOUS
  <2> QED
    BY <2>1 DEF PrivateThreads
<1>2. PrivateLines(rows, w2, last)
  BY DEF PrivateLines
<1>3. /\ DOMAIN req = PrivatePersons /\ DOMAIN w3 = PrivatePersons /\ DOMAIN shown = PrivatePersons
      /\ \A p \in PrivatePersons : DOMAIN req[p] = PrivateFields /\ w3[p] \in Int
  BY DEF PrivatePersons, Private!Free, PrivateFields
<1>4. \A p \in PrivatePersons : PrivateFits(p, req[p])
  <2>1. \A p \in PrivatePersons : req[p].at = "free" /\ req[p] = Private!Free /\ req[p].line = 0 /\ req[p].tell = {}
    BY DEF PrivatePersons, Private!Free
  <2>2. 0 \in 0..last
    OBVIOUS
  <2> QED
    BY <2>1, <2>2 DEF PrivateFits, PrivateSending, PrivatePaired
<1>5. \A p \in PrivatePersons : PrivateShowing(p, shown[p])
  BY DEF PrivateShowing, PrivatePersons, Private!Blank
<1> QED
  BY <1>1, <1>2, <1>3, <1>4, <1>5 DEF PrivateKept, PrivateTyped

\* One session moves at a time.
LEMMA PrivateOthersStay ==
    ASSUME PrivateTyped, NEW p \in PrivatePersons, Private!Step(p)
    PROVE  /\ PrivatePersons' = PrivatePersons /\ DOMAIN req' = PrivatePersons
           /\ \A q \in PrivatePersons \ {p} : req'[q] = req[q]
           /\ DOMAIN req'[p] = PrivateFields
<1> DEFINE G == /\ PrivatePersons' = PrivatePersons /\ DOMAIN req' = PrivatePersons
                /\ \A q \in PrivatePersons \ {p} : req'[q] = req[q]
                /\ DOMAIN req'[p] = PrivateFields
<1>0. /\ DOMAIN req = PrivatePersons /\ DOMAIN req[p] = PrivateFields /\ DOMAIN Private!Free = PrivateFields
      /\ \A q \in PrivatePersons : DOMAIN req[q] = PrivateFields
  BY DEF PrivateTyped, Private!Free, PrivateFields
<1> SUFFICES G
  OBVIOUS
<1>1. CASE Private!Connect(p)
  BY <1>0, <1>1 DEF Private!Connect, Private!Ask, Private!Move, Private!Done, Private!Free, PrivateFields,
        PrivatePersons
<1>2. CASE Private!Disconnect(p)
  BY <1>0, <1>2 DEF Private!Disconnect, Private!Ask, Private!Move, Private!Done, Private!Free, PrivateFields,
        PrivatePersons
<1>3. CASE Private!SetPrivacy(p)
  BY <1>0, <1>3 DEF Private!SetPrivacy, Private!Ask, Private!Move, Private!Done, Private!Free, PrivateFields,
        PrivatePersons
<1>4. CASE Private!Open(p)
  BY <1>0, <1>4 DEF Private!Open, Private!Ask, Private!Move, Private!Done, Private!Free, PrivateFields,
         PrivatePersons
<1>5. CASE Private!Answer(p)
  BY <1>0, <1>5 DEF Private!Answer, Private!Ask, Private!Move, Private!Done, Private!Free, PrivateFields,
        PrivatePersons
<1>6. CASE Private!Create(p)
  BY <1>0, <1>6 DEF Private!Create, Private!Ask, Private!Move, Private!Done, Private!Free, PrivateFields,
        PrivatePersons
<1>7. CASE Private!CountOwn(p)
  BY <1>0, <1>7 DEF Private!CountOwn, Private!Ask, Private!Move, Private!Done, Private!Free, PrivateFields,
        PrivatePersons
<1>8. CASE Private!TellOwn(p)
  BY <1>0, <1>8 DEF Private!TellOwn, Private!Ask, Private!Move, Private!Done, Private!Free, PrivateFields,
        PrivatePersons
<1>9. CASE Private!CountPeer(p)
  BY <1>0, <1>9 DEF Private!CountPeer, Private!Ask, Private!Move, Private!Done, Private!Free, PrivateFields,
        PrivatePersons
<1>10. CASE Private!TellPeer(p)
  BY <1>0, <1>10 DEF Private!TellPeer, Private!Ask, Private!Move, Private!Done, Private!Free, PrivateFields,
        PrivatePersons
<1>11. CASE Private!Rewrite(p)
  BY <1>0, <1>11 DEF Private!Rewrite, Private!Ask, Private!Move, Private!Done, Private!Free, PrivateFields,
        PrivatePersons
<1>12. CASE Private!Reread(p)
  BY <1>0, <1>12 DEF Private!Reread, Private!Ask, Private!Move, Private!Done, Private!Free, PrivateFields,
        PrivatePersons
<1>13. CASE Private!Remove(p)
  BY <1>0, <1>13 DEF Private!Remove, Private!Ask, Private!Move, Private!Done, Private!Free, PrivateFields,
        PrivatePersons
<1>14. CASE Private!CountMarked(p)
  BY <1>0, <1>14 DEF Private!CountMarked, Private!Ask, Private!Move, Private!Done, Private!Free, PrivateFields,
        PrivatePersons
<1>15. CASE Private!TellMarked(p)
  BY <1>0, <1>15 DEF Private!TellMarked, Private!Ask, Private!Move, Private!Done, Private!Free, PrivateFields,
        PrivatePersons
<1>16. ASSUME NEW id \in DOMAIN rows, NEW op \in {"edit", "delete"}, Private!Change(p, op, id)
      PROVE  G
  BY <1>0, <1>16 DEF Private!Change, Private!Ask, Private!Move, Private!Done, Private!Free, PrivateFields,
        PrivatePersons
<1>17. ASSUME NEW q \in DOMAIN w1, Private!Notify(p, q)
      PROVE  G
  BY <1>0, <1>17 DEF Private!Notify, Private!Ask, Private!Move, Private!Done, Private!Free, PrivateFields,
        PrivatePersons
<1>18. ASSUME NEW q \in DOMAIN w1, NEW reply, Private!Send(p, q, reply)
      PROVE  G
  BY <1>0, <1>18 DEF Private!Send, Private!Ask, Private!Move, Private!Done, Private!Free, PrivateFields,
        PrivatePersons
<1>19. ASSUME NEW q \in DOMAIN w1, NEW id \in DOMAIN shown[p].lines, Private!MarkRead(p, q, id)
      PROVE  G
  BY <1>0, <1>19 DEF Private!MarkRead, Private!Ask, Private!Move, Private!Done, Private!Free, PrivateFields,
        PrivatePersons
<1> QED
  BY <1>1, <1>2, <1>3, <1>4, <1>5, <1>6, <1>7, <1>8, <1>9, <1>10, <1>11, <1>12, <1>13, <1>14, <1>15, <1>16, <1>17,
        <1>18, <1>19 DEF Private!Step

\* EnsureConversation numbers its threads on, and opens none for a pair that has one.
LEMMA PrivateOpenedIs ==
    ASSUME NEW n \in Nat, PrivateThreads(w2, PrivatePersons, n), NEW a \in PrivatePersons,
               NEW b \in PrivatePersons, a # b
    PROVE  /\ PrivateThreads(Private!Opened(a, b), PrivatePersons, n)
           /\ \A t \in DOMAIN w2 : t \in DOMAIN Private!Opened(a, b) /\ Private!Opened(a, b)[t] = w2[t]
<1>1. CASE Private!Between(a, b) # {}
  BY <1>1 DEF Private!Opened
<1>2. CASE Private!Between(a, b) = {}
  <2>1. PICK k \in Nat : DOMAIN w2 = 1..k
    BY DEF PrivateThreads
  <2>2. Private!Cardinality(DOMAIN w2) = k
    <3>1. k = k - 1 + 1 /\ 1 \in Int /\ k \in Int
      OBVIOUS
    <3> QED
      BY <2>1, FS_Interval, PrivateCounts
  <2> DEFINE new == [who |-> Private!Pair(a, b), read |-> [p \in Private!Pair(a, b) |-> 0], at |-> 0]
             T == Private!Opened(a, b)
  <2>3. T = [t \in (1..k) \cup {k + 1} |-> IF t = k + 1 THEN new ELSE w2[t]]
    BY <1>2, <2>1, <2>2 DEF Private!Opened, Private!With
  <2>4. (1..k) \cup {k + 1} = 1..(k + 1) /\ k + 1 \in Nat /\ k + 1 \notin 1..k
    OBVIOUS
  <2>5. /\ DOMAIN T = 1..(k + 1) /\ T[k + 1] = new
        /\ \A t \in 1..k : T[t] = w2[t]
    <3> HIDE DEF T, new
    <3> QED
      BY <2>3, <2>4
  <2>6. \A t \in 1..k : w2[t].who # {a, b}
    BY <1>2, <2>1 DEF Private!Between, Private!Pair
  <2>7. /\ DOMAIN new = {"who", "read", "at"} /\ new.who = {a, b} /\ DOMAIN new.read = {a, b}
        /\ \A p \in {a, b} : new.read[p] \in 0..n
    BY DEF Private!Pair
  <2>8. \A t \in DOMAIN T : t = k + 1 \/ t \in 1..k
    BY <2>5, <2>4
  <2> HIDE DEF T, new
  <2>9. \A t, u \in DOMAIN T : T[t].who = T[u].who => t = u
    BY <2>5, <2>6, <2>7, <2>8, <2>1 DEF PrivateThreads
  <2>10. \A t \in DOMAIN T :
            /\ DOMAIN T[t] = {"who", "read", "at"} /\ DOMAIN T[t].read = T[t].who
            /\ \E x, y \in PrivatePersons : x # y /\ T[t].who = {x, y}
            /\ \A p \in T[t].who : T[t].read[p] \in 0..n
    <3> TAKE t \in DOMAIN T
    <3>1. CASE t = k + 1
      BY <3>1, <2>5, <2>7
    <3>2. CASE t \in 1..k
      BY <3>2, <2>5, <2>1 DEF PrivateThreads
    <3> QED
      BY <3>1, <3>2, <2>8
  <2>11. PrivateThreads(T, PrivatePersons, n)
    BY <2>4, <2>5, <2>9, <2>10 DEF PrivateThreads
  <2>12. \A t \in DOMAIN w2 : t \in DOMAIN T /\ T[t] = w2[t]
    BY <2>1, <2>5, <2>8, <2>4
  <2> QED
    BY <2>11, <2>12 DEF T
<1> QED
  BY <1>1, <1>2

\* A marker that moves up to a line that was given out.
LEMMA PrivateMovedIs ==
    ASSUME NEW T, NEW P, NEW n \in Nat, NEW m \in Nat, n <= m, PrivateThreads(T, P, n),
           NEW t \in DOMAIN T, NEW p \in T[t].who, NEW id \in 0..m, NEW at, NEW U,
           DOMAIN U = DOMAIN T,
           \A u \in DOMAIN T \ {t} : U[u] = T[u],
           DOMAIN U[t] = DOMAIN T[t], U[t].who = T[t].who,
           U[t].read = [T[t].read EXCEPT ![p] = id]
    PROVE  PrivateThreads(U, P, m)
<1>1. \A u \in DOMAIN U :
        /\ DOMAIN U[u] = {"who", "read", "at"} /\ DOMAIN U[u].read = U[u].who
        /\ U[u].who = T[u].who
        /\ \E x, y \in P : x # y /\ U[u].who = {x, y}
  BY DEF PrivateThreads
<1>2. \A u \in DOMAIN U : \A q \in U[u].who : U[u].read[q] \in 0..m
  <2> TAKE u \in DOMAIN U
  <2> TAKE q \in U[u].who
  <2>1. T[u].read[q] \in 0..n /\ T[u].read[q] \in 0..m /\ DOMAIN T[u].read = T[u].who
    BY <1>1 DEF PrivateThreads
  <2>2. CASE u = t
    BY <2>1, <2>2, <1>1
  <2>3. CASE u # t
    BY <2>1, <2>3
  <2> QED
    BY <2>2, <2>3
<1> QED
  BY <1>1, <1>2 DEF PrivateThreads

\* A thread is never of somebody else, and its markers only rise.
LEMMA PrivateThreadsGo ==
    ASSUME PrivateKept, NEW p \in PrivatePersons, Private!Step(p)
    PROVE  /\ PrivateThreads(w2', PrivatePersons, last') /\ last' \in Nat /\ last <= last'
           /\ \A t \in DOMAIN w2 :
                /\ t \in DOMAIN w2' /\ w2'[t].who = w2[t].who
                /\ \A q \in w2[t].who : w2[t].read[q] <= w2'[t].read[q]
<1> DEFINE G == /\ PrivateThreads(w2', PrivatePersons, last') /\ last' \in Nat /\ last <= last'
                /\ \A t \in DOMAIN w2 :
                     /\ t \in DOMAIN w2' /\ w2'[t].who = w2[t].who
                     /\ \A q \in w2[t].who : w2[t].read[q] <= w2'[t].read[q]
<1>0. /\ PrivateThreads(w2, PrivatePersons, last) /\ last \in Nat
      /\ \A t \in DOMAIN w2 : \A q \in w2[t].who : w2[t].read[q] \in 0..last
      /\ PrivateFits(p, req[p])
  BY DEF PrivateKept, PrivateTyped, PrivateLines, PrivateThreads
<1>a. \A t \in DOMAIN w2 : \A q \in w2[t].who : w2[t].read[q] <= w2[t].read[q]
  BY <1>0
<1>b. ASSUME w2' = w2, last' = last
      PROVE  G
  BY <1>0, <1>a, <1>b
<1> SUFFICES G
  OBVIOUS
<1> HIDE DEF G
<1>1. CASE Private!Connect(p) \/ Private!Disconnect(p) \/ Private!SetPrivacy(p) \/ Private!Answer(p) \/
               Private!CountOwn(p) \/ Private!TellOwn(p) \/ Private!CountPeer(p) \/ Private!TellPeer(p) \/
                   Private!Rewrite(p) \/ Private!Reread(p) \/ Private!Remove(p) \/ Private!CountMarked(p) \/
                       Private!TellMarked(p)
  BY <1>b, <1>1 DEF Private!Connect, Private!Disconnect, Private!SetPrivacy, Private!Answer, Private!CountOwn,
        Private!TellOwn, Private!CountPeer, Private!TellPeer, Private!Rewrite, Private!Reread, Private!Remove,
        Private!CountMarked, Private!TellMarked, PrivatePersons
<1>2. CASE Private!Open(p)
  <2>1. req[p].to \in PrivatePersons /\ req[p].to # p /\ w2' = Private!Opened(p, req[p].to) /\ last' = last
    BY <1>0, <1>2 DEF Private!Open, Private!At, PrivateFits
  <2>2. /\ PrivateThreads(Private!Opened(p, req[p].to), PrivatePersons, last)
        /\ \A t \in DOMAIN w2 : t \in DOMAIN Private!Opened(p, req[p].to) /\ Private!Opened(p, req[p].to)[t] = w2[t]
    BY <1>0, <2>1, PrivateOpenedIs
  <2> QED
    BY <1>0, <2>1, <2>2 DEF G
<1>3. CASE Private!Create(p)
  <2> DEFINE t == req[p].thread
  <2>1. t \in DOMAIN w2 /\ p \in w2[t].who /\ last' = last + 1
    BY <1>0, <1>3 DEF Private!Create, Private!At, PrivateFits, PrivatePaired
  <2>2. w2' = [w2 EXCEPT ![t].at = last', ![t].read[p] = last']
    BY <1>3 DEF Private!Create, Private!Touched
  <2>3. last' \in Nat /\ last <= last' /\ last' \in 0..last' /\ \A i \in 0..last : i <= last'
    BY <1>0, <2>1
  <2>4. DOMAIN w2[t] = {"who", "read", "at"}
    BY <1>0, <2>1 DEF PrivateThreads
  <2> HIDE DEF t
  <2>5. /\ DOMAIN w2' = DOMAIN w2
        /\ \A u \in DOMAIN w2 \ {t} : w2'[u] = w2[u]
        /\ DOMAIN w2'[t] = DOMAIN w2[t] /\ w2'[t].who = w2[t].who
        /\ w2'[t].read = [w2[t].read EXCEPT ![p] = last']
    BY <2>1, <2>2, <2>4
  <2>6. PrivateThreads(w2', PrivatePersons, last')
    BY <1>0, <2>1, <2>3, <2>5, PrivateMovedIs
  <2>7. DOMAIN w2[t].read = w2[t].who
    BY <1>0, <2>1 DEF PrivateThreads
  <2>8. \A q \in w2[t].who : w2[t].read[q] <= w2'[t].read[q]
    BY <1>0, <2>1, <2>3, <2>5, <2>7
  <2> QED
    BY <2>3, <2>5, <2>6, <2>8, <1>a DEF G
<1>4. ASSUME NEW id \in DOMAIN rows, NEW op \in {"edit", "delete"}, Private!Change(p, op, id)
      PROVE  G
  BY <1>b, <1>4 DEF Private!Change
<1>5. ASSUME NEW q \in DOMAIN w1, Private!Notify(p, q)
      PROVE  G
  BY <1>b, <1>5 DEF Private!Notify
<1>6. ASSUME NEW q \in DOMAIN w1, NEW reply, Private!Send(p, q, reply)
      PROVE  G
  BY <1>b, <1>6 DEF Private!Send
<1>7. ASSUME NEW q \in DOMAIN w1, NEW id \in DOMAIN shown[p].lines, Private!MarkRead(p, q, id)
      PROVE  G
  <2> DEFINE t == CHOOSE t \in Private!Between(p, q) : TRUE
  <2>1. t \in Private!Between(p, q) /\ w2' = Private!Marked(t, p, id) /\ last' = last
    BY <1>7 DEF Private!MarkRead
  <2>2. id \in 0..last
    BY <1>7 DEF PrivateKept, PrivateShowing, PrivatePersons
  <2>3. t \in DOMAIN w2 /\ p \in w2[t].who
    BY <2>1 DEF Private!Between, Private!Pair
  <2> HIDE DEF t
  <2>4. CASE ~(id > w2[t].read[p])
    BY <1>b, <2>1, <2>4 DEF Private!Marked
  <2>5. CASE id > w2[t].read[p]
    <3>1. w2' = [w2 EXCEPT ![t].read[p] = id]
      BY <2>1, <2>5 DEF Private!Marked
    <3>2. DOMAIN w2[t] = {"who", "read", "at"} /\ DOMAIN w2[t].read = w2[t].who
      BY <1>0, <2>3 DEF PrivateThreads
    <3>3. /\ DOMAIN w2' = DOMAIN w2
          /\ \A u \in DOMAIN w2 \ {t} : w2'[u] = w2[u]
          /\ DOMAIN w2'[t] = DOMAIN w2[t] /\ w2'[t].who = w2[t].who
          /\ w2'[t].read = [w2[t].read EXCEPT ![p] = id]
      BY <2>3, <3>1, <3>2
    <3>4. PrivateThreads(w2', PrivatePersons, last)
      BY <1>0, <2>2, <2>3, <3>3, PrivateMovedIs
    <3>5. \A x \in w2[t].who : w2[t].read[x] <= w2'[t].read[x]
      BY <1>0, <2>2, <2>3, <2>5, <3>2, <3>3
    <3>6. \A u \in DOMAIN w2 : \A x \in w2[u].who : w2[u].read[x] <= w2'[u].read[x]
      BY <1>a, <3>3, <3>5
    <3>7. \A u \in DOMAIN w2 : u \in DOMAIN w2' /\ w2'[u].who = w2[u].who
      BY <3>3
    <3>8. last' \in Nat /\ last <= last' /\ PrivateThreads(w2', PrivatePersons, last')
      BY <1>0, <2>1, <3>4
    <3> QED
      BY <3>6, <3>7, <3>8 DEF G
  <2> QED
    BY <2>4, <2>5
<1> QED
  BY <1>1, <1>2, <1>3, <1>4, <1>5, <1>6, <1>7 DEF Private!Step

\* A line keeps its thread and its author; only its author rewrites it and takes it back.
LEMMA PrivateLinesGo ==
    ASSUME PrivateKept, NEW p \in PrivatePersons, Private!Step(p)
    PROVE  /\ PrivateLines(rows', w2', last')
           /\ \A id \in DOMAIN rows \cap DOMAIN rows' :
                /\ rows'[id].thread = rows[id].thread /\ rows'[id].by = rows[id].by
                /\ rows'[id].text = rows[id].text \/ (req[p].at = "edit" /\ req[p].line = id)
           /\ \A id \in DOMAIN rows \ DOMAIN rows' : req[p].at = "delete" /\ req[p].line = id
           /\ \A id \in DOMAIN rows' \ DOMAIN rows : req[p].at = "create" /\ id = last' /\ id = last + 1
<1> DEFINE G == /\ PrivateLines(rows', w2', last')
                /\ \A id \in DOMAIN rows \cap DOMAIN rows' :
                     /\ rows'[id].thread = rows[id].thread /\ rows'[id].by = rows[id].by
                     /\ rows'[id].text = rows[id].text \/ (req[p].at = "edit" /\ req[p].line = id)
                /\ \A id \in DOMAIN rows \ DOMAIN rows' : req[p].at = "delete" /\ req[p].line = id
                /\ \A id \in DOMAIN rows' \ DOMAIN rows : req[p].at = "create" /\ id = last' /\ id = last + 1
<1>0. /\ PrivateThreads(w2, PrivatePersons, last) /\ PrivateLines(rows, w2, last) /\ PrivateFits(p, req[p]) /\
             last \in Nat
      /\ \A t \in DOMAIN w2 : \A q \in w2[t].who : w2[t].read[q] \in 0..last
  BY DEF PrivateKept, PrivateTyped, PrivateLines, PrivateThreads
<1>a. /\ PrivateThreads(w2', PrivatePersons, last') /\ last' \in Nat /\ last <= last'
      /\ \A t \in DOMAIN w2 :
           /\ t \in DOMAIN w2' /\ w2'[t].who = w2[t].who
           /\ \A q \in w2[t].who : w2[t].read[q] <= w2'[t].read[q]
  BY PrivateThreadsGo
<1>b. \A t \in DOMAIN w2 : \A q \in w2[t].who :
        /\ w2'[t].read[q] \in Nat
        /\ \A id \in Nat : id <= w2[t].read[q] => id <= w2'[t].read[q]
  <2>1. \A t \in DOMAIN w2' : \A q \in w2'[t].who : w2'[t].read[q] \in 0..last'
    BY <1>a DEF PrivateThreads
  <2> QED
    BY <2>1, <1>0, <1>a
\* Rows that keep thread and author are still read by it.
<1>c. ASSUME NEW id \in DOMAIN rows, NEW row, DOMAIN row = {"thread", "by", "text", "reply"},
             row.thread = rows[id].thread, row.by = rows[id].by
      PROVE  /\ row.thread \in DOMAIN w2' /\ row.by \in w2'[row.thread].who
             /\ id <= w2'[row.thread].read[row.by]
             /\ id \in 1..last'
  <2>1. /\ row.thread \in DOMAIN w2 /\ row.by \in w2[row.thread].who
        /\ id <= w2[row.thread].read[row.by] /\ id \in 1..last /\ id \in Nat
    BY <1>0, <1>c DEF PrivateLines
  <2> QED
    BY <2>1, <1>0, <1>a, <1>b
<1>d. \A id \in DOMAIN rows : DOMAIN rows[id] = {"thread", "by", "text", "reply"}
  BY <1>0 DEF PrivateLines
<1>e. ASSUME rows' = rows
      PROVE  G
  <2>1. PrivateLines(rows', w2', last')
    <3>1. \A id \in DOMAIN rows :
            /\ rows[id].thread \in DOMAIN w2' /\ rows[id].by \in w2'[rows[id].thread].who
            /\ id <= w2'[rows[id].thread].read[rows[id].by]
            /\ id \in 1..last'
      BY <1>c, <1>d
    <3> QED
      BY <1>a, <1>d, <1>e, <3>1 DEF PrivateLines
  <2> QED
    BY <2>1, <1>e
<1> SUFFICES G
  OBVIOUS
<1> HIDE DEF G
<1>1. CASE Private!Connect(p) \/ Private!Disconnect(p) \/ Private!SetPrivacy(p) \/ Private!Open(p) \/
               Private!Answer(p) \/ Private!CountOwn(p) \/ Private!TellOwn(p) \/ Private!CountPeer(p) \/
                   Private!TellPeer(p) \/ Private!Reread(p) \/ Private!CountMarked(p) \/ Private!TellMarked(p)
  BY <1>e, <1>1 DEF Private!Connect, Private!Disconnect, Private!SetPrivacy, Private!Open, Private!Answer,
        Private!CountOwn, Private!TellOwn, Private!CountPeer, Private!TellPeer, Private!Reread, Private!CountMarked,
        Private!TellMarked, PrivatePersons
<1>2. CASE Private!Create(p)
  <2> DEFINE t == req[p].thread
             row == [thread |-> t, by |-> p, text |-> req[p].text, reply |-> req[p].reply]
  <2>1. t \in DOMAIN w2 /\ p \in w2[t].who /\ last' = last + 1 /\ req[p].at = "create"
    BY <1>0, <1>2 DEF Private!Create, Private!At, PrivateFits, PrivatePaired
  <2>2. rows' = [id \in DOMAIN rows \cup {last'} |-> IF id = last' THEN row ELSE rows[id]]
    BY <1>2 DEF Private!Create, Private!With
  <2>3. w2' = [w2 EXCEPT ![t].at = last', ![t].read[p] = last']
    BY <1>2 DEF Private!Create, Private!Touched
  <2>4. last' \notin DOMAIN rows /\ last' \in 1..last' /\ last' <= last'
    BY <1>0, <2>1 DEF PrivateLines
  <2>5. DOMAIN w2[t] = {"who", "read", "at"} /\ DOMAIN w2[t].read = w2[t].who
    BY <1>0, <2>1 DEF PrivateThreads
  <2>6. DOMAIN row = {"thread", "by", "text", "reply"} /\ row.thread = t /\ row.by = p
    OBVIOUS
  <2> HIDE DEF t, row
  <2>7. w2'[t].read[p] = last'
    BY <2>1, <2>3, <2>5
  <2>8. /\ DOMAIN rows' = DOMAIN rows \cup {last'} /\ rows'[last'] = row
        /\ \A id \in DOMAIN rows : rows'[id] = rows[id]
    BY <2>2, <2>4
  <2>9. t \in DOMAIN w2' /\ p \in w2'[t].who
    BY <1>a, <2>1
  <2>10. \A id \in DOMAIN rows' :
            /\ DOMAIN rows'[id] = {"thread", "by", "text", "reply"}
            /\ rows'[id].thread \in DOMAIN w2' /\ rows'[id].by \in w2'[rows'[id].thread].who
            /\ id <= w2'[rows'[id].thread].read[rows'[id].by]
            /\ id \in 1..last'
    <3> TAKE id \in DOMAIN rows'
    <3>1. CASE id = last'
      BY <3>1, <2>4, <2>6, <2>7, <2>8, <2>9
    <3>2. CASE id \in DOMAIN rows
      BY <3>2, <1>c, <1>d, <2>8
    <3> QED
      BY <3>1, <3>2, <2>8
  <2>11. PrivateLines(rows', w2', last')
    BY <1>a, <2>10 DEF PrivateLines
  <2> QED
    BY <2>1, <2>8, <2>11 DEF G
<1>3. CASE Private!Rewrite(p)
  <2> DEFINE k == req[p].line
  <2>1. k \in DOMAIN rows /\ req[p].at = "edit"
    BY <1>0, <1>3 DEF Private!Rewrite, Private!At, PrivateFits
  <2>2. rows' = [rows EXCEPT ![k].text = req[p].text]
    BY <1>3 DEF Private!Rewrite
  <2> HIDE DEF k
  <2>3. /\ DOMAIN rows' = DOMAIN rows
        /\ \A id \in DOMAIN rows :
             /\ DOMAIN rows'[id] = {"thread", "by", "text", "reply"}
             /\ rows'[id].thread = rows[id].thread /\ rows'[id].by = rows[id].by
             /\ id # k => rows'[id].text = rows[id].text
    BY <2>1, <2>2, <1>d
  <2>4. \A id \in DOMAIN rows :
            /\ rows'[id].thread \in DOMAIN w2' /\ rows'[id].by \in w2'[rows'[id].thread].who
            /\ id <= w2'[rows'[id].thread].read[rows'[id].by]
            /\ id \in 1..last'
    BY <1>c, <2>3
  <2>5. PrivateLines(rows', w2', last')
    BY <1>a, <2>3, <2>4 DEF PrivateLines
  <2> QED
    BY <2>1, <2>3, <2>5 DEF G, k
<1>4. CASE Private!Remove(p)
  <2> DEFINE k == req[p].line
  <2>1. req[p].at = "delete" /\ rows' = [id \in DOMAIN rows \ {k} |-> rows[id]]
    BY <1>4 DEF Private!Remove, Private!At, Private!Deleted
  <2> HIDE DEF k
  <2>2. DOMAIN rows' = DOMAIN rows \ {k} /\ \A id \in DOMAIN rows' : rows'[id] = rows[id]
    BY <2>1
  <2>4. \A id \in DOMAIN rows' :
            /\ rows'[id].thread \in DOMAIN w2' /\ rows'[id].by \in w2'[rows'[id].thread].who
            /\ id <= w2'[rows'[id].thread].read[rows'[id].by]
            /\ id \in 1..last'
    BY <1>c, <1>d, <2>2
  <2>5. PrivateLines(rows', w2', last')
    BY <1>a, <1>d, <2>2, <2>4 DEF PrivateLines
  <2> QED
    BY <2>1, <2>2, <2>5 DEF G, k
<1>5. ASSUME NEW id \in DOMAIN rows, NEW op \in {"edit", "delete"}, Private!Change(p, op, id)
      PROVE  G
  BY <1>e, <1>5 DEF Private!Change
<1>6. ASSUME NEW q \in DOMAIN w1, Private!Notify(p, q)
      PROVE  G
  BY <1>e, <1>6 DEF Private!Notify
<1>7. ASSUME NEW q \in DOMAIN w1, NEW reply, Private!Send(p, q, reply)
      PROVE  G
  BY <1>e, <1>7 DEF Private!Send
<1>8. ASSUME NEW q \in DOMAIN w1, NEW id \in DOMAIN shown[p].lines, Private!MarkRead(p, q, id)
      PROVE  G
  BY <1>e, <1>8 DEF Private!MarkRead
<1> QED
  BY <1>1, <1>2, <1>3, <1>4, <1>5, <1>6, <1>7, <1>8 DEF Private!Step

\* The request of somebody else still holds what it did.
LEMMA PrivateOthersFit ==
    ASSUME PrivateKept, NEW p \in PrivatePersons, Private!Step(p), NEW q \in PrivatePersons \ {p}
    PROVE  PrivateFits(q, req[q])'
<1>0. PrivatePersons' = PrivatePersons /\ req'[q] = req[q] /\ PrivateFits(q, req[q]) /\ PrivateFits(p,
          req[p]) /\ last \in Nat
  BY PrivateOthersStay DEF PrivateKept, PrivateTyped, PrivateLines
<1>1. /\ last' \in Nat /\ last <= last'
      /\ \A t \in DOMAIN w2 : t \in DOMAIN w2' /\ w2'[t].who = w2[t].who
  BY PrivateThreadsGo
<1>5. PICK r : r = req[q]
  OBVIOUS
\* The line of q is not the line p rewrites or takes back.
<1>2. ASSUME NEW id \in DOMAIN rows, rows[id].by = q
      PROVE  /\ id \in DOMAIN rows' /\ rows'[id].by = rows[id].by /\ rows'[id].thread = rows[id].thread
             /\ rows'[id].text = rows[id].text
  <2>1. req[p].at \in {"edit", "delete"} => req[p].line # id
    BY <1>0, <1>2 DEF PrivateFits
  <2> QED
    BY <2>1, PrivateLinesGo
<1>3. r.line \in 0..last /\ r.line \in 0..last' /\ r.line # last + 1
  BY <1>0, <1>1, <1>5 DEF PrivateFits
<1>4. r.line \notin DOMAIN rows => r.line \notin DOMAIN rows'
  BY <1>3, PrivateLinesGo
<1>6. PrivateFits(q, r) /\ req'[q] = r
  BY <1>0, <1>5
<1>7. PrivateFits(q, r)'
  BY <1>0, <1>1, <1>2, <1>3, <1>4, <1>6 DEF PrivateFits
<1> QED
  BY <1>6, <1>7

LEMMA PrivateNewestIs ==
    ASSUME last \in Nat, DOMAIN rows \subseteq 1..last, NEW t
    PROVE  Private!Newest(t) \in 0..last
<1>1. CASE Private!Of(t) = {}
  BY <1>1 DEF Private!Newest
<1>2. CASE Private!Of(t) # {}
  <2>1. Private!Of(t) \subseteq 0..last
    BY DEF Private!Of
  <2>4. \E id \in Private!Of(t) : \A x \in Private!Of(t) : x <= id
    BY <1>2, <2>1, GreatestIs
  <2>5. Private!Newest(t) \in Private!Of(t)
    BY <1>2, <2>4 DEF Private!Newest
  <2> QED
    BY <2>5 DEF Private!Of
<1> QED
  BY <1>1, <1>2

\* What a request holds after its own step.
LEMMA PrivateOneFits ==
    ASSUME PrivateKept, NEW p \in PrivatePersons, Private!Step(p)
    PROVE  PrivateFits(p, req[p])'
<1>0. /\ PrivatePersons' = PrivatePersons /\ DOMAIN req = PrivatePersons /\ DOMAIN req[p] = PrivateFields
      /\ PrivateFits(p, req[p]) /\ last \in Nat
  BY PrivateOthersStay DEF PrivateKept, PrivateTyped, PrivateLines
<1>a. /\ last' \in Nat /\ last <= last'
      /\ \A t \in DOMAIN w2 : t \in DOMAIN w2' /\ w2'[t].who = w2[t].who
  BY PrivateThreadsGo
<1>b. \A t \in DOMAIN w2 : w2[t].who \subseteq PrivatePersons
  BY DEF PrivateKept, PrivateTyped, PrivateThreads
<1>c. \A id \in DOMAIN rows : DOMAIN rows[id] = {"thread", "by", "text", "reply"} /\ id \in 1..last
  BY DEF PrivateKept, PrivateTyped, PrivateLines
<1>d. ASSUME req'[p] = Private!Free
      PROVE  PrivateFits(p, req[p])'
  <2>1. Private!Free.at = "free" /\ Private!Free.line = 0 /\ Private!Free.tell = {} /\ 0 \in 0..last'
    BY <1>a DEF Private!Free
  <2> QED
    BY <2>1, <1>d DEF PrivateFits, PrivateSending, PrivatePaired
<1> DEFINE G == PrivateFits(p, req[p])'
<1> SUFFICES G
  OBVIOUS
<1>1. CASE Private!Connect(p)
  BY <1>0, <1>1, <1>a DEF Private!Connect, Private!At, Private!Move, Private!Ask, Private!Done, PrivateFits,
        PrivateSending, PrivatePaired, PrivateFields
<1>2. CASE Private!Disconnect(p)
  BY <1>0, <1>2, <1>a DEF Private!Disconnect, Private!At, Private!Move, Private!Ask, Private!Done, PrivateFits,
        PrivateSending, PrivatePaired, PrivateFields
<1>3. CASE Private!SetPrivacy(p)
  BY <1>0, <1>3, <1>a DEF Private!SetPrivacy, Private!At, Private!Move, Private!Ask, Private!Done, PrivateFits,
        PrivateSending, PrivatePaired, PrivateFields
<1>4. CASE Private!Open(p)
  <2>1. PICK t \in DOMAIN w2' : w2'[t].who = {p, req[p].to} /\ req' = [req EXCEPT ![p].at = "reply",
                 ![p].thread = t]
    BY <1>4 DEF Private!Open, Private!Pair
  <2>2. /\ req'[p].at = "reply" /\ req'[p].thread = t /\ req'[p].to = req[p].to
        /\ req'[p].line = req[p].line /\ req'[p].tell = req[p].tell
    BY <1>0, <2>1 DEF PrivateFields
  <2>3. req[p].to \in PrivatePersons \ {p} /\ req[p].line \in 0..last /\
            req[p].tell \subseteq PrivatePersons /\ last' = last
    BY <1>0, <1>4 DEF Private!Open, Private!At, PrivateFits
  <2> QED
    BY <1>0, <2>1, <2>2, <2>3 DEF PrivateFits, PrivateSending, PrivatePaired
<1>5. CASE Private!Answer(p)
  <2>1. CASE req'[p] = Private!Free
    BY <2>1, <1>d
  <2>2. CASE req' = [req EXCEPT ![p].at = "create"]
    <3>1. /\ req'[p].at = "create" /\ req'[p].thread = req[p].thread /\ req'[p].to = req[p].to
          /\ req'[p].line = req[p].line /\ req'[p].tell = req[p].tell
      BY <1>0, <2>2 DEF PrivateFields
    <3>2. /\ req[p].to \in PrivatePersons \ {p} /\ req[p].line \in 0..last /\ req[p].tell \subseteq PrivatePersons
          /\ req[p].thread \in DOMAIN w2 /\ w2[req[p].thread].who = {p, req[p].to} /\ last' = last
      BY <1>0, <1>5 DEF Private!Answer, Private!At, PrivateFits, PrivatePaired
    <3> QED
      BY <1>0, <1>a, <3>1, <3>2 DEF PrivateFits, PrivateSending, PrivatePaired
  <2> QED
    BY <1>0, <1>5, <2>1, <2>2 DEF Private!Answer, Private!Move, Private!Done
<1>6. CASE Private!Create(p)
  <2>1. /\ req'[p].at = "own" /\ req'[p].thread = req[p].thread /\ req'[p].to = req[p].to
        /\ req'[p].line = last' /\ req'[p].tell = req[p].tell
        /\ req'[p].view.text = req[p].text /\ req'[p].view.thread = req[p].thread
    BY <1>0, <1>6 DEF Private!Create, PrivateFields
  <2>2. /\ req[p].to \in PrivatePersons \ {p} /\ req[p].tell \subseteq PrivatePersons
        /\ req[p].thread \in DOMAIN w2 /\ w2[req[p].thread].who = {p, req[p].to}
    BY <1>0, <1>6 DEF Private!Create, Private!At, PrivateFits, PrivatePaired
  <2>3. /\ last' \in DOMAIN rows' /\ rows'[last'].by = p /\ rows'[last'].thread = req[p].thread
        /\ rows'[last'].text = req[p].text
    BY <1>6 DEF Private!Create, Private!With
  <2>4. last' \in 0..last'
    BY <1>a
  <2> QED
    BY <1>0, <1>a, <2>1, <2>2, <2>3, <2>4 DEF PrivateFits, PrivateSending, PrivatePaired
<1>7. CASE Private!CountOwn(p)
  BY <1>0, <1>7, <1>a DEF Private!CountOwn, Private!At, Private!Move, Private!Ask, Private!Done, PrivateFits,
        PrivateSending, PrivatePaired, PrivateFields
<1>8. CASE Private!TellOwn(p)
  BY <1>0, <1>8, <1>a DEF Private!TellOwn, Private!At, Private!Move, Private!Ask, Private!Done, PrivateFits,
        PrivateSending, PrivatePaired, PrivateFields
<1>9. CASE Private!CountPeer(p)
  <2>1. CASE req'[p] = Private!Free
    BY <2>1, <1>d
  <2>2. CASE w3[req[p].to] > 0
    <3>0. req' = [req EXCEPT ![p].at = "tell peer", ![p].whose = w3[req[p].to],
                              ![p].counted = Private!Unread(req[p].thread, req[p].to)]
      BY <1>9, <2>2 DEF Private!CountPeer
    <3>1. /\ req'[p].at = "tell peer" /\ req'[p].thread = req[p].thread /\ req'[p].to = req[p].to
          /\ req'[p].line = req[p].line /\ req'[p].tell = req[p].tell /\ req'[p].view = req[p].view
      BY <1>0, <3>0 DEF PrivateFields
    <3>2. /\ req[p].to \in PrivatePersons \ {p} /\ req[p].line \in 0..last /\ req[p].tell \subseteq PrivatePersons
          /\ req[p].thread \in DOMAIN w2 /\ w2[req[p].thread].who = {p, req[p].to}
          /\ req[p].line \in DOMAIN rows /\ rows[req[p].line].by = p /\ rows[req[p].line].thread = req[p].thread
          /\ req[p].view.text = rows[req[p].line].text /\ req[p].view.thread = req[p].thread
          /\ last' = last /\ rows' = rows
      BY <1>0, <1>9 DEF Private!CountPeer, Private!At, PrivateFits, PrivatePaired, PrivateSending
    <3> QED
      BY <1>0, <1>a, <3>1, <3>2 DEF PrivateFits, PrivateSending, PrivatePaired
  <2> QED
    BY <1>0, <1>9, <2>1, <2>2 DEF Private!CountPeer, Private!Done
<1>10. CASE Private!TellPeer(p)
  <2>1. req'[p] = Private!Free
    BY <1>0, <1>10 DEF Private!TellPeer, Private!Done, Private!At
  <2> QED
    BY <2>1, <1>d
<1>11. CASE Private!Rewrite(p)
  <2>1. /\ req'[p].at = "reread" /\ req'[p].thread = req[p].thread /\ req'[p].line = req[p].line
        /\ req'[p].tell = req[p].tell /\ req'[p].op = req[p].op
    BY <1>0, <1>11 DEF Private!Rewrite, Private!Move, PrivateFields
  <2>2. /\ req[p].line \in 0..last /\ req[p].tell \subseteq PrivatePersons /\ req[p].op = "edit"
        /\ req[p].thread \in DOMAIN w2 /\ p \in w2[req[p].thread].who
        /\ req[p].line \in DOMAIN rows /\ rows[req[p].line].by = p /\ rows[req[p].line].thread = req[p].thread
        /\ last' = last /\ req[p].line \in DOMAIN rows'
    BY <1>0, <1>11 DEF Private!Rewrite, Private!At, PrivateFits
  <2>3. rows'[req[p].line].by = p /\ rows'[req[p].line].thread = req[p].thread
    BY <2>2, PrivateLinesGo
  <2> QED
    BY <1>0, <1>a, <2>1, <2>2, <2>3 DEF PrivateFits, PrivateSending, PrivatePaired
<1>12. CASE Private!Reread(p)
  <2>1. /\ req'[p].at = "notify" /\ req'[p].thread = req[p].thread /\ req'[p].line = req[p].line
        /\ req'[p].tell = w2[req[p].thread].who /\ req'[p].op = req[p].op
        /\ req'[p].view = Private!View(req[p].line, req[p].thread)
    BY <1>0, <1>12 DEF Private!Reread, Private!Told, PrivateFields
  <2>2. /\ req[p].line \in 0..last /\ req[p].op = "edit"
        /\ req[p].thread \in DOMAIN w2 /\ p \in w2[req[p].thread].who
        /\ req[p].line \in DOMAIN rows /\ rows[req[p].line].by = p /\ rows[req[p].line].thread = req[p].thread
        /\ last' = last /\ rows' = rows
    BY <1>0, <1>12 DEF Private!Reread, Private!At, PrivateFits
  <2>3. req'[p].view.text = rows[req[p].line].text /\ req'[p].view.thread = req[p].thread
    BY <2>1 DEF Private!View
  <2>4. w2[req[p].thread].who \subseteq PrivatePersons
    BY <1>b, <2>2
  <2>5. w2'[req[p].thread].who = w2[req[p].thread].who
    BY <1>a, <2>2
  <2> QED
    BY <1>0, <1>a, <2>1, <2>2, <2>3, <2>4, <2>5 DEF PrivateFits, PrivateSending, PrivatePaired
<1>13. CASE Private!Remove(p)
  <2>1. /\ req'[p].at = "notify" /\ req'[p].thread = req[p].thread /\ req'[p].line = req[p].line
        /\ req'[p].tell = w2[req[p].thread].who /\ req'[p].op = req[p].op
    BY <1>0, <1>13 DEF Private!Remove, Private!Told, PrivateFields
  <2>2. /\ req[p].line \in 0..last /\ req[p].op = "delete"
        /\ req[p].thread \in DOMAIN w2 /\ p \in w2[req[p].thread].who
        /\ last' = last /\ req[p].line \notin DOMAIN rows'
    BY <1>0, <1>13 DEF Private!Remove, Private!At, PrivateFits, Private!Deleted
  <2>3. w2[req[p].thread].who \subseteq PrivatePersons /\ w2'[req[p].thread].who = w2[req[p].thread].who
    BY <1>a, <1>b, <2>2
  <2> QED
    BY <1>0, <1>a, <2>1, <2>2, <2>3 DEF PrivateFits, PrivateSending, PrivatePaired
<1>14. CASE Private!CountMarked(p)
  <2>1. /\ req'[p].at = "answer" /\ req'[p].thread = req[p].thread /\ req'[p].to = req[p].to
        /\ req'[p].line = Private!Newest(req[p].thread) /\ req'[p].tell = req[p].tell
    BY <1>0, <1>14 DEF Private!CountMarked, PrivateFields
  <2>2. /\ req[p].to \in PrivatePersons \ {p} /\ req[p].tell \subseteq PrivatePersons
        /\ req[p].thread \in DOMAIN w2 /\ w2[req[p].thread].who = {p, req[p].to} /\ last' = last
    BY <1>0, <1>14 DEF Private!CountMarked, Private!At, PrivateFits, PrivatePaired
  <2>3. Private!Newest(req[p].thread) \in 0..last
    BY <1>0, PrivateNewestIs DEF PrivateKept, PrivateTyped, PrivateLines
  <2> QED
    BY <1>0, <1>a, <2>1, <2>2, <2>3 DEF PrivateFits, PrivateSending, PrivatePaired
<1>15. CASE Private!TellMarked(p)
  <2>1. req'[p] = Private!Free
    BY <1>0, <1>15 DEF Private!TellMarked, Private!Done, Private!At
  <2> QED
    BY <2>1, <1>d
<1>16. ASSUME NEW id \in DOMAIN rows, NEW op \in {"edit", "delete"}, Private!Change(p, op, id)
      PROVE  G
  <2>1. /\ req'[p].at = op /\ req'[p].op = op /\ req'[p].line = id /\ req'[p].thread = rows[id].thread
        /\ req'[p].tell = {}
    BY <1>0, <1>16 DEF Private!Change, Private!Ask, Private!Free
  <2>2. /\ rows[id].by = p /\ rows[id].thread \in DOMAIN w2 /\ p \in w2[rows[id].thread].who
        /\ last' = last /\ rows' = rows /\ id \in 0..last
    BY <1>16, <1>0, <1>c DEF Private!Change, Private!Own, Private!Involves, PrivateKept, PrivateTyped, PrivateLines
  <2> QED
    BY <1>0, <1>a, <1>16, <2>1, <2>2 DEF PrivateFits, PrivateSending, PrivatePaired
<1>17. ASSUME NEW q \in DOMAIN w1, Private!Notify(p, q)
      PROVE  G
  <2>1. CASE req'[p] = Private!Free
    BY <2>1, <1>d
  <2>2. CASE req[p].tell # {q}
    <3>1. /\ req'[p].at = "notify" /\ req'[p].thread = req[p].thread /\ req'[p].line = req[p].line
          /\ req'[p].tell = req[p].tell \ {q} /\ req'[p].op = req[p].op /\ req'[p].view = req[p].view
      BY <1>0, <1>17, <2>2 DEF Private!Notify, Private!At, PrivateFields
    <3>2. /\ req[p].line \in 0..last /\ req[p].op \in {"edit", "delete"} /\ req[p].tell \subseteq PrivatePersons
          /\ req[p].thread \in DOMAIN w2 /\ p \in w2[req[p].thread].who
          /\ req[p].tell \subseteq w2[req[p].thread].who
          /\ last' = last /\ rows' = rows
      BY <1>0, <1>17 DEF Private!Notify, Private!At, PrivateFits
    <3>3. /\ req[p].op = "delete" => req[p].line \notin DOMAIN rows
          /\ req[p].op = "edit" =>
                /\ req[p].line \in DOMAIN rows /\ rows[req[p].line].by = p /\
                       rows[req[p].line].thread = req[p].thread
                /\ req[p].view.text = rows[req[p].line].text /\ req[p].view.thread = req[p].thread
      BY <1>0, <1>17 DEF Private!Notify, Private!At, PrivateFits
    <3>4. w2'[req[p].thread].who = w2[req[p].thread].who
      BY <1>a, <3>2
    <3> QED
      BY <1>0, <1>a, <3>1, <3>2, <3>3, <3>4 DEF PrivateFits, PrivateSending, PrivatePaired
  <2> QED
    BY <1>0, <1>17, <2>1, <2>2 DEF Private!Notify
<1>18. ASSUME NEW q \in DOMAIN w1, NEW reply, Private!Send(p, q, reply)
      PROVE  G
  <2>1. req'[p].at = "open" /\ req'[p].op = "send" /\ req'[p].line = 0 /\ req'[p].tell = {} /\ req'[p].to = q
    BY <1>0, <1>18 DEF Private!Send, Private!Ask, Private!Free
  <2>2. q \in PrivatePersons \ {p} /\ last' = last /\ 0 \in 0..last
    BY <1>18, <1>0 DEF Private!Send, Private!Consent, PrivatePersons
  <2> QED
    BY <1>0, <1>a, <2>1, <2>2 DEF PrivateFits, PrivateSending, PrivatePaired
<1>19. ASSUME NEW q \in DOMAIN w1, NEW id \in DOMAIN shown[p].lines, Private!MarkRead(p, q, id)
      PROVE  G
  <2> DEFINE t == CHOOSE t \in Private!Between(p, q) : TRUE
  <2>1. t \in Private!Between(p, q) /\ last' = last /\ 0 \in 0..last
    BY <1>19, <1>0 DEF Private!MarkRead
  <2>2. req' = [req EXCEPT ![p] = [Private!Free EXCEPT !.at = "marked", !.op = "mark", !.to = q, !.thread = t]]
    BY <1>19 DEF Private!MarkRead, Private!Ask
  <2>3. t \in DOMAIN w2 /\ w2[t].who = {p, q}
    BY <2>1 DEF Private!Between, Private!Pair
  <2> HIDE DEF t
  <2>4. /\ req'[p].at = "marked" /\ req'[p].line = 0 /\ req'[p].tell = {} /\ req'[p].to = q
        /\ req'[p].thread = t
    BY <1>0, <2>2 DEF Private!Free
  <2>5. q \in PrivatePersons \ {p}
    <3>1. PICK a, b \in PrivatePersons : a # b /\ w2[t].who = {a, b}
      BY <2>3 DEF PrivateKept, PrivateTyped, PrivateThreads
    <3> QED
      BY <2>3, <3>1 DEF PrivatePersons
  <2> QED
    BY <1>0, <1>a, <2>1, <2>3, <2>4, <2>5 DEF PrivateFits, PrivateSending, PrivatePaired
<1> QED
  BY <1>1, <1>2, <1>3, <1>4, <1>5, <1>6, <1>7, <1>8, <1>9, <1>10, <1>11, <1>12, <1>13, <1>14, <1>15, <1>16, <1>17,
        <1>18, <1>19 DEF Private!Step

LEMMA PrivatePeerIs ==
    ASSUME PrivateKept, NEW t \in DOMAIN w2, NEW p, p \in w2[t].who
    PROVE  Private!PeerOf(t, p) # p /\ w2[t].who = {p, Private!PeerOf(t, p)}
<1>1. PICK a, b \in PrivatePersons : a # b /\ w2[t].who = {a, b}
  BY DEF PrivateKept, PrivateTyped, PrivateThreads
<1>2. Private!PeerOf(t, p) = CHOOSE q \in w2[t].who : q # p
  BY DEF Private!PeerOf, Private!Involves
<1>3. \E q \in w2[t].who : q # p
  BY <1>1
<1> QED
  BY <1>1, <1>2, <1>3

\* What the frames make of what a client shows.
LEMMA PrivateShowLineIs ==
    ASSUME PrivateKept, NEW q \in PrivatePersons, NEW t \in DOMAIN w2, q \in w2[t].who,
           NEW id \in 1..last, NEW view, view.thread = t, id \in DOMAIN rows => rows[id].thread = t
    PROVE  /\ PrivateShowing(q, Private!ShowLine(q, id, view, t))
           /\ DOMAIN Private!ShowLine(q, id, view, t).lines = DOMAIN shown[q].lines \cup {id}
           /\ Private!ShowLine(q, id, view, t).lines[id].view = view
           /\ \A x \in DOMAIN shown[q].lines \ {id} : Private!ShowLine(q, id, view, t).lines[x] = shown[q].lines[x]
<1> DEFINE c == Private!ShowLine(q, id, view, t)
<1>0. PrivateShowing(q, shown[q]) /\ DOMAIN shown[q] = {"lines", "badge"}
  BY DEF PrivateKept, PrivateShowing
<1>1. DOMAIN c = {"lines", "badge"} /\ c.lines = Private!With(shown[q].lines, id, Private!Named(view, t, q))
  BY <1>0 DEF Private!ShowLine
<1> HIDE DEF c
<1>2. /\ DOMAIN c.lines = DOMAIN shown[q].lines \cup {id}
      /\ c.lines[id] = Private!Named(view, t, q)
      /\ \A x \in DOMAIN shown[q].lines \ {id} : c.lines[x] = shown[q].lines[x]
  BY <1>1 DEF Private!With
<1>3. /\ Private!Named(view, t, q).view = view /\ Private!Named(view, t, q).peer # q
      /\ w2[t].who = {q, Private!Named(view, t, q).peer}
  BY PrivatePeerIs DEF Private!Named
<1>4. \A x \in DOMAIN c.lines :
        /\ c.lines[x].view.thread \in DOMAIN w2 /\ c.lines[x].peer # q
        /\ w2[c.lines[x].view.thread].who = {q, c.lines[x].peer}
        /\ x \in DOMAIN rows => rows[x].thread = c.lines[x].view.thread
  <2> TAKE x \in DOMAIN c.lines
  <2>1. CASE x = id
    BY <2>1, <1>2, <1>3
  <2>2. CASE x \in DOMAIN shown[q].lines \ {id}
    BY <2>2, <1>0, <1>2 DEF PrivateShowing
  <2> QED
    BY <2>1, <2>2, <1>2
<1>5. DOMAIN c.lines \subseteq 1..last
  BY <1>0, <1>2 DEF PrivateShowing
<1>6. PrivateShowing(q, c)
  BY <1>1, <1>4, <1>5 DEF PrivateShowing
<1> QED
  BY <1>2, <1>3, <1>6 DEF c

LEMMA PrivateBadgeIs ==
    ASSUME NEW q, NEW c, PrivateShowing(q, c), NEW peer, NEW n, NEW id
    PROVE  PrivateShowing(q, Private!Badge(c, peer, n, id)) /\ Private!Badge(c, peer, n, id).lines = c.lines
<1> DEFINE b == Private!Badge(c, peer, n, id)
<1>1. DOMAIN b = {"lines", "badge"} /\ b.lines = c.lines
  BY DEF Private!Badge, PrivateShowing
<1> HIDE DEF b
<1>2. PrivateShowing(q, b)
  BY <1>1 DEF PrivateShowing
<1> QED
  BY <1>1, <1>2 DEF b

LEMMA PrivateUnshownIs ==
    ASSUME PrivateKept, NEW q \in PrivatePersons, NEW id
    PROVE  /\ PrivateShowing(q, Private!Unshown(q, id)) /\ DOMAIN Private!Unshown(q,
                  id).lines = DOMAIN shown[q].lines \ {id}
           /\ \A x \in DOMAIN shown[q].lines \ {id} : Private!Unshown(q, id).lines[x] = shown[q].lines[x]
<1> DEFINE c == Private!Unshown(q, id)
<1>0. PrivateShowing(q, shown[q]) /\ DOMAIN shown[q] = {"lines", "badge"}
  BY DEF PrivateKept, PrivateShowing
<1>1. DOMAIN c = {"lines", "badge"} /\ c.lines = [x \in DOMAIN shown[q].lines \ {id} |-> shown[q].lines[x]]
  BY <1>0 DEF Private!Unshown
<1> HIDE DEF c
<1>2. DOMAIN c.lines = DOMAIN shown[q].lines \ {id} /\ \A x \in DOMAIN c.lines : c.lines[x] = shown[q].lines[x]
  BY <1>1
<1>3. PrivateShowing(q, c)
  BY <1>0, <1>1, <1>2 DEF PrivateShowing
<1> QED
  BY <1>2, <1>3 DEF c

LEMMA PrivateReadIs ==
    ASSUME PrivateKept, NEW p \in PrivatePersons
    PROVE  /\ PrivateShowing(p, Private!Read(p))
           /\ DOMAIN Private!Read(p).lines = {x \in DOMAIN rows : Private!Involves(rows[x].thread, p)}
           /\ \A id \in DOMAIN Private!Read(p).lines : Private!Read(p).lines[id].view.text = rows[id].text
<1> DEFINE c == Private!Read(p)
<1>1. /\ DOMAIN c = {"lines", "badge"}
      /\ c.lines = [id \in {x \in DOMAIN rows : Private!Involves(rows[x].thread, p)} |->
                        Private!Named(Private!View(id, rows[id].thread), rows[id].thread, p)]
  BY DEF Private!Read
<1> HIDE DEF c
<1>2. /\ DOMAIN c.lines = {x \in DOMAIN rows : Private!Involves(rows[x].thread, p)}
      /\ \A id \in DOMAIN c.lines : c.lines[id] = Private!Named(Private!View(id, rows[id].thread),
             rows[id].thread, p)
  BY <1>1
<1>3. ASSUME NEW id \in DOMAIN c.lines
      PROVE  /\ c.lines[id].view.thread = rows[id].thread /\ c.lines[id].view.text = rows[id].text
             /\ c.lines[id].peer = Private!PeerOf(rows[id].thread, p)
  <2>1. c.lines[id] = Private!Named(Private!View(id, rows[id].thread), rows[id].thread, p)
    BY <1>2
  <2> QED
    BY <2>1 DEF Private!Named, Private!View
<1>4. \A id \in DOMAIN c.lines :
        /\ c.lines[id].view.thread \in DOMAIN w2 /\ c.lines[id].peer # p
        /\ w2[c.lines[id].view.thread].who = {p, c.lines[id].peer}
  <2> TAKE id \in DOMAIN c.lines
  <2>1. rows[id].thread \in DOMAIN w2 /\ p \in w2[rows[id].thread].who
    BY <1>2 DEF PrivateKept, PrivateTyped, PrivateLines, Private!Involves
  <2> QED
    BY <2>1, <1>3, PrivatePeerIs
<1>5. DOMAIN c.lines \subseteq 1..last
  BY <1>2 DEF PrivateKept, PrivateTyped, PrivateLines
<1>6. PrivateShowing(p, c)
  BY <1>1, <1>3, <1>4, <1>5 DEF PrivateShowing
<1> QED
  BY <1>2, <1>3, <1>6 DEF c

\* Whatever a step shows to whom, it is theirs.
LEMMA PrivateClientsGo ==
    ASSUME PrivateKept, NEW p \in PrivatePersons, Private!Step(p)
    PROVE  /\ DOMAIN shown' = PrivatePersons /\ DOMAIN w3' = PrivatePersons
           /\ \A q \in PrivatePersons : PrivateShowing(q, shown'[q]) /\ w3'[q] \in Int
<1>0. /\ DOMAIN req = PrivatePersons /\ DOMAIN shown = PrivatePersons /\ DOMAIN w3 = PrivatePersons
      /\ \A q \in PrivatePersons : PrivateShowing(q, shown[q]) /\ w3[q] \in Int
      /\ PrivateFits(p, req[p]) /\ last \in Nat
  BY DEF PrivateKept, PrivateTyped, PrivateLines
<1> DEFINE G == /\ DOMAIN shown' = PrivatePersons /\ DOMAIN w3' = PrivatePersons
                /\ \A q \in PrivatePersons : PrivateShowing(q, shown'[q]) /\ w3'[q] \in Int
<1>a. ASSUME shown' = shown, w3' = w3
      PROVE  G
  BY <1>0, <1>a
<1>b. ASSUME NEW q \in PrivatePersons, NEW c, PrivateShowing(q, c), shown' = [shown EXCEPT ![q] = c], w3' = w3
      PROVE  G
  BY <1>0, <1>b
<1>c. \A t \in DOMAIN w2 : w2[t].who \subseteq PrivatePersons
  BY DEF PrivateKept, PrivateTyped, PrivateThreads
<1>d. DOMAIN rows \subseteq 1..last
  BY DEF PrivateKept, PrivateTyped, PrivateLines
<1> SUFFICES G
  OBVIOUS
<1> HIDE DEF G
<1>1. CASE Private!SetPrivacy(p) \/ Private!Open(p) \/ Private!Answer(p) \/ Private!Create(p) \/
               Private!CountOwn(p) \/ Private!CountPeer(p) \/ Private!Rewrite(p) \/ Private!Reread(p) \/
                   Private!Remove(p) \/ Private!CountMarked(p)
  BY <1>a, <1>1 DEF Private!SetPrivacy, Private!Open, Private!Answer, Private!Create, Private!CountOwn,
        Private!CountPeer, Private!Rewrite, Private!Reread, Private!Remove, Private!CountMarked, PrivatePersons
<1>2. CASE Private!Connect(p)
  <2>1. PrivateShowing(p, Private!Read(p)) /\ shown' = [shown EXCEPT ![p] = Private!Read(p)] /\
            w3' = [w3 EXCEPT ![p] = 1 - @]
    BY <1>2, PrivateReadIs DEF Private!Connect
  <2>2. 1 - w3[p] \in Int
    BY <1>0
  <2> QED
    BY <1>0, <2>1, <2>2 DEF G
<1>3. CASE Private!Disconnect(p)
  <2>1. shown' = [shown EXCEPT ![p] = Private!Blank] /\ w3' = [w3 EXCEPT ![p] = -@]
    BY <1>3 DEF Private!Disconnect
  <2>2. -w3[p] \in Int
    BY <1>0
  <2>3. PrivateShowing(p, Private!Blank)
    BY DEF Private!Blank, PrivateShowing
  <2> QED
    BY <1>0, <2>1, <2>2, <2>3 DEF G
<1>4. CASE Private!TellOwn(p)
  <2> DEFINE r == req[p]
             c == Private!ShowLine(p, r.line, r.view, r.thread)
             d == Private!Badge(c, r.to, r.counted, r.line)
  <2>1. /\ r.thread \in DOMAIN w2 /\ p \in w2[r.thread].who /\ r.line \in DOMAIN rows
        /\ rows[r.line].thread = r.thread /\ r.view.thread = r.thread
    BY <1>0, <1>4 DEF Private!TellOwn, Private!At, PrivateFits, PrivatePaired, PrivateSending
  <2>2. PrivateShowing(p, c)
    BY <2>1, <1>d, PrivateShowLineIs
  <2>3. PrivateShowing(p, d)
    <3> HIDE DEF c
    <3> QED
      BY <2>2, PrivateBadgeIs
  <2>4. shown' = [shown EXCEPT ![p] = d] /\ w3' = w3
    BY <1>4 DEF Private!TellOwn
  <2> HIDE DEF d
  <2> QED
    BY <1>b, <2>3, <2>4
<1>5. CASE Private!TellPeer(p)
  <2> DEFINE r == req[p]
             q == r.to
             c == Private!ShowLine(q, r.line, r.view, r.thread)
             d == Private!Badge(c, p, r.counted, r.line)
  <2>1. /\ r.thread \in DOMAIN w2 /\ q \in w2[r.thread].who /\ r.line \in DOMAIN rows
        /\ rows[r.line].thread = r.thread /\ r.view.thread = r.thread /\ q \in PrivatePersons
    BY <1>0, <1>5 DEF Private!TellPeer, Private!At, PrivateFits, PrivatePaired, PrivateSending
  <2>2. PrivateShowing(q, c)
    BY <2>1, <1>d, PrivateShowLineIs
  <2>3. PrivateShowing(q, d)
    <3> HIDE DEF c
    <3> QED
      BY <2>2, PrivateBadgeIs
  <2>4. (shown' = [shown EXCEPT ![q] = d] \/ shown' = shown) /\ w3' = w3
    BY <1>5 DEF Private!TellPeer
  <2> HIDE DEF d, q
  <2> QED
    BY <1>a, <1>b, <2>1, <2>3, <2>4
<1>6. CASE Private!TellMarked(p)
  <2> DEFINE d == Private!Badge(shown[p], req[p].to, req[p].counted, req[p].line)
  <2>1. PrivateShowing(p, d)
    BY <1>0, PrivateBadgeIs
  <2>2. shown' = [shown EXCEPT ![p] = d] /\ w3' = w3
    BY <1>6 DEF Private!TellMarked
  <2> HIDE DEF d
  <2> QED
    BY <1>b, <2>1, <2>2
<1>7. ASSUME NEW id \in DOMAIN rows, NEW op \in {"edit", "delete"}, Private!Change(p, op, id)
      PROVE  G
  BY <1>a, <1>7 DEF Private!Change
<1>8. ASSUME NEW q \in DOMAIN w1, Private!Notify(p, q)
      PROVE  G
  <2> DEFINE r == req[p]
             c == Private!ShowLine(q, r.line, r.view, r.thread)
             d == Private!Unshown(q, r.line)
  <2>1. /\ r.thread \in DOMAIN w2 /\ q \in w2[r.thread].who /\ r.op \in {"edit", "delete"}
        /\ r.op = "edit" => /\ r.line \in DOMAIN rows /\ rows[r.line].thread = r.thread
                            /\ r.view.thread = r.thread
    BY <1>0, <1>8 DEF Private!Notify, Private!At, PrivateFits
  <2>2. q \in PrivatePersons
    BY <1>c, <2>1
  <2>3. r.op = "edit" => PrivateShowing(q, c)
    BY <2>1, <2>2, <1>d, PrivateShowLineIs
  <2>4. PrivateShowing(q, d)
    BY <2>2, PrivateUnshownIs
  <2>5. /\ w3' = w3
        /\ \/ shown' = shown
           \/ r.op = "delete" /\ shown' = [shown EXCEPT ![q] = d]
           \/ r.op # "delete" /\ shown' = [shown EXCEPT ![q] = c]
    BY <1>8 DEF Private!Notify
  <2> HIDE DEF c, d
  <2> QED
    BY <1>a, <1>b, <2>1, <2>2, <2>3, <2>4, <2>5
<1>9. ASSUME NEW q \in DOMAIN w1, NEW reply, Private!Send(p, q, reply)
      PROVE  G
  BY <1>a, <1>9 DEF Private!Send
<1>10. ASSUME NEW q \in DOMAIN w1, NEW id \in DOMAIN shown[p].lines, Private!MarkRead(p, q, id)
      PROVE  G
  BY <1>a, <1>10 DEF Private!MarkRead
<1> QED
  BY <1>1, <1>2, <1>3, <1>4, <1>5, <1>6, <1>7, <1>8, <1>9, <1>10 DEF Private!Step

LEMMA PrivateShowingKeeps ==
    ASSUME PrivateKept, NEW p \in PrivatePersons, Private!Step(p), NEW q, NEW c, PrivateShowing(q, c)
    PROVE  PrivateShowing(q, c)'
<1>1. /\ last \in Nat /\ last' \in Nat /\ last <= last'
      /\ \A t \in DOMAIN w2 : t \in DOMAIN w2' /\ w2'[t].who = w2[t].who
  BY PrivateThreadsGo DEF PrivateKept, PrivateTyped, PrivateLines
<1>2. ASSUME NEW id \in 1..last, id \in DOMAIN rows'
      PROVE  id \in DOMAIN rows /\ rows'[id].thread = rows[id].thread
  <2>1. id # last + 1
    BY <1>1
  <2> QED
    BY <1>2, <2>1, PrivateLinesGo
<1>3. 1..last \subseteq 1..last'
  BY <1>1
<1> QED
  BY <1>1, <1>2, <1>3 DEF PrivateShowing

LEMMA PrivateKeptStays ==
    ASSUME PrivateKept, [Private!Next]_(Private!vars)
    PROVE  PrivateKept'
<1>1. CASE UNCHANGED Private!vars
  <2>1. /\ w1' = w1 /\ w2' = w2 /\ rows' = rows /\ last' = last /\ w3' = w3
        /\ req' = req /\ shown' = shown
    BY <1>1 DEF Private!vars
  <2>2. PrivateTyped' /\ PrivatePersons' = PrivatePersons
    <3>1. PrivatePersons' = PrivatePersons
      BY <2>1 DEF PrivatePersons
    <3>2. PrivateThreads(w2', PrivatePersons', last') /\ PrivateLines(rows', w2', last')
      BY <2>1, <3>1 DEF PrivateKept, PrivateTyped
    <3> QED
      BY <2>1, <3>1, <3>2 DEF PrivateKept, PrivateTyped
  <2>3. \A p \in PrivatePersons : PrivateFits(p, req[p])'
    BY <2>1, <2>2 DEF PrivateKept, PrivateFits
  <2>4. \A p \in PrivatePersons : PrivateShowing(p, shown[p])'
    BY <2>1, <2>2 DEF PrivateKept, PrivateShowing
  <2> QED
    BY <2>2, <2>3, <2>4 DEF PrivateKept
<1>2. ASSUME NEW p \in PrivatePersons, Private!Step(p)
      PROVE  PrivateKept'
  <2>1. /\ PrivatePersons' = PrivatePersons /\ DOMAIN req' = PrivatePersons
        /\ \A q \in PrivatePersons : DOMAIN req'[q] = PrivateFields
    BY <1>2, PrivateOthersStay DEF PrivateKept, PrivateTyped
  <2>2. PrivateThreads(w2', PrivatePersons, last') /\ PrivateLines(rows', w2', last')
    BY <1>2, PrivateThreadsGo, PrivateLinesGo
  <2>3. /\ DOMAIN shown' = PrivatePersons /\ DOMAIN w3' = PrivatePersons
        /\ \A q \in PrivatePersons : PrivateShowing(q, shown'[q]) /\ w3'[q] \in Int
    BY <1>2, PrivateClientsGo
  <2>4. PrivateTyped'
    BY <2>1, <2>2, <2>3 DEF PrivateTyped
  <2>5. \A q \in PrivatePersons : PrivateFits(q, req[q])'
    BY <1>2, PrivateOthersFit, PrivateOneFits
  <2>6. ASSUME NEW q \in PrivatePersons
        PROVE  PrivateShowing(q, shown[q])'
    <3>1. PICK c : c = shown'[q]
      OBVIOUS
    <3>2. PrivateShowing(q, c)'
      BY <1>2, <2>3, <3>1, PrivateShowingKeeps
    <3> QED
      BY <3>1, <3>2
  <2> QED
    BY <2>1, <2>4, <2>5, <2>6 DEF PrivateKept
<1> QED
  BY <1>1, <1>2 DEF Private!Next, PrivatePersons

LEMMA PrivateKeptShows ==
    ASSUME PrivateKept
    PROVE  Private!TypeOK /\ Private!OnlyTheTwo /\ Private!OwnIsRead
<1>1. Private!TypeOK
  <2>1. PrivateThreads(w2, PrivatePersons, last) /\ PrivateLines(rows, w2, last)
    BY DEF PrivateKept, PrivateTyped
  <2>2. \A p \in PrivatePersons : req[p].line \in 0..last /\ req[p].tell \subseteq PrivatePersons
    BY DEF PrivateKept, PrivateFits
  <2> QED
    BY <2>1, <2>2 DEF Private!TypeOK, PrivateThreads, PrivateLines, PrivatePersons
<1>2. Private!OnlyTheTwo
  <2>1. \A t, u \in DOMAIN w2 : w2[t].who = w2[u].who => t = u
    BY DEF PrivateKept, PrivateTyped, PrivateThreads
  <2>2. \A p \in PrivatePersons : PrivateShowing(p, shown[p])
    BY DEF PrivateKept
  <2> QED
    BY <2>1, <2>2 DEF Private!OnlyTheTwo, PrivateShowing, PrivatePersons, Private!Involves, Private!Pair
<1>3. Private!OwnIsRead
  BY DEF PrivateKept, PrivateTyped, PrivateLines, Private!OwnIsRead
<1> QED
  BY <1>1, <1>2, <1>3

\* What is still to come to a client: a line, that it is gone, or its words.
PrivateOwes(s, q, id) ==
    /\ req[s].line = id
    /\ \/ req[s].at \in {"own", "tell own"} /\ q \in {s, req[s].to}
       \/ req[s].at = "peer" /\ q = req[s].to
       \/ req[s].at = "tell peer" /\ q = req[s].to /\ req[s].whose = w3[q]
PrivateTakesBack(s, q, id) == req[s].at = "notify" /\ req[s].op = "delete" /\ req[s].line = id /\ q \in req[s].tell
PrivateRewrites(s, q, id) ==
    /\ req[s].line = id
    /\ req[s].at = "reread" \/ (req[s].at = "notify" /\ req[s].op = "edit" /\ q \in req[s].tell)

PrivateShown(q, id) == id \in DOMAIN shown[q].lines
\* Of a client that is in, what it does not show yet is on its way.
PrivateUpToDate(q) ==
    /\ \A id \in DOMAIN rows : Private!Involves(rows[id].thread, q) => PrivateShown(q, id) \/
           \E s \in PrivatePersons : PrivateOwes(s, q, id)
    /\ \A id \in DOMAIN shown[q].lines : id \in DOMAIN rows \/ \E s \in PrivatePersons : PrivateTakesBack(s, q, id)
    /\ \A id \in DOMAIN shown[q].lines \cap DOMAIN rows :
        shown[q].lines[id].view.text = rows[id].text \/ \E s \in PrivatePersons : PrivateRewrites(s, q, id)
PrivateInformed == \A q \in PrivatePersons : w3[q] > 0 => PrivateUpToDate(q)

LEMMA PrivateInformedFirst ==
    ASSUME Private!Init
    PROVE  PrivateInformed
<1>1. \A q \in PrivatePersons : shown[q].lines = <<>> /\ DOMAIN shown[q].lines = {}
  BY DEF Private!Init, PrivatePersons, Private!Blank
<1> QED
  BY <1>1 DEF Private!Init, PrivateInformed, PrivateUpToDate, PrivatePersons

LEMMA PrivateInformedShows ==
    ASSUME PrivateKept, PrivateInformed
    PROVE  Private!ShownIsStored
<1> SUFFICES ASSUME \A p \in PrivatePersons : req[p] = Private!Free, NEW q \in PrivatePersons, w3[q] > 0
             PROVE  /\ DOMAIN shown[q].lines = {id \in DOMAIN rows : Private!Involves(rows[id].thread, q)}
                    /\ \A id \in DOMAIN shown[q].lines : shown[q].lines[id].view.text = rows[id].text
  BY DEF Private!ShownIsStored, PrivatePersons
<1>1. \A s \in PrivatePersons : \A id : ~PrivateOwes(s, q, id) /\ ~PrivateTakesBack(s, q, id) /\
          ~PrivateRewrites(s, q, id)
  <2>1. \A s \in PrivatePersons : req[s].at = "free"
    BY DEF Private!Free
  <2> QED
    BY <2>1 DEF PrivateOwes, PrivateTakesBack, PrivateRewrites
<1>2. PrivateUpToDate(q) /\ PrivateShowing(q, shown[q])
  BY DEF PrivateInformed, PrivateKept
<1>3. \A id \in DOMAIN shown[q].lines : id \in DOMAIN rows => Private!Involves(rows[id].thread, q)
  BY <1>2 DEF PrivateShowing, Private!Involves
<1> QED
  BY <1>1, <1>2, <1>3 DEF PrivateUpToDate, PrivateShown

\* What a step of p has to do for a client, other than what others still have to tell it.
PrivateCarries(p, q) ==
    /\ \A id \in DOMAIN rows' : Private!Involves(rows[id].thread, q)' =>
        \/ PrivateShown(q, id)' \/ PrivateOwes(p, q, id)'
        \/ id \in DOMAIN rows /\ ~PrivateShown(q, id) /\ ~PrivateOwes(p, q, id)
    /\ \A id \in DOMAIN shown'[q].lines :
        \/ id \in DOMAIN rows' \/ PrivateTakesBack(p, q, id)'
        \/ id \in DOMAIN shown[q].lines \ DOMAIN rows /\ ~PrivateTakesBack(p, q, id)
    /\ \A id \in DOMAIN shown'[q].lines \cap DOMAIN rows' :
        \/ shown'[q].lines[id].view.text = rows'[id].text \/ PrivateRewrites(p, q, id)'
        \/ /\ id \in DOMAIN shown[q].lines \cap DOMAIN rows /\ shown[q].lines[id].view.text # rows[id].text
           /\ ~PrivateRewrites(p, q, id)

LEMMA PrivateCarryingIsEnough ==
    ASSUME PrivateKept, NEW p \in PrivatePersons, Private!Step(p), NEW q \in PrivatePersons, w3'[q] = w3[q],
               PrivateUpToDate(q), PrivateCarries(p, q)
    PROVE  PrivateUpToDate(q)'
<1>1. /\ PrivatePersons' = PrivatePersons
      /\ \A s \in PrivatePersons \ {p} : \A id :
           /\ PrivateOwes(s, q, id) => PrivateOwes(s, q, id)'
           /\ PrivateTakesBack(s, q, id) => PrivateTakesBack(s, q, id)'
           /\ PrivateRewrites(s, q, id) => PrivateRewrites(s, q, id)'
  BY PrivateOthersStay DEF PrivateKept, PrivateOwes, PrivateTakesBack, PrivateRewrites
<1>2. \A id \in DOMAIN rows \cap DOMAIN rows' : Private!Involves(rows[id].thread, q)' =>
          Private!Involves(rows[id].thread, q)
  <2>1. \A id \in DOMAIN rows : rows[id].thread \in DOMAIN w2
    BY DEF PrivateKept, PrivateTyped, PrivateLines
  <2>2. \A id \in DOMAIN rows \cap DOMAIN rows' : rows'[id].thread = rows[id].thread
    BY PrivateLinesGo
  <2>3. \A t \in DOMAIN w2 : w2'[t].who = w2[t].who
    BY PrivateThreadsGo
  <2> QED
    BY <2>1, <2>2, <2>3 DEF Private!Involves
<1>3. ASSUME NEW id \in DOMAIN rows', Private!Involves(rows[id].thread, q)'
      PROVE  PrivateShown(q, id)' \/ \E s \in PrivatePersons : PrivateOwes(s, q, id)'
  BY <1>1, <1>2, <1>3 DEF PrivateUpToDate, PrivateCarries
<1>4. ASSUME NEW id \in DOMAIN shown'[q].lines
      PROVE  id \in DOMAIN rows' \/ \E s \in PrivatePersons : PrivateTakesBack(s, q, id)'
  BY <1>1, <1>4 DEF PrivateUpToDate, PrivateCarries
<1>5. ASSUME NEW id \in DOMAIN shown'[q].lines \cap DOMAIN rows'
      PROVE  shown'[q].lines[id].view.text = rows'[id].text \/ \E s \in PrivatePersons : PrivateRewrites(s, q, id)'
  BY <1>1, <1>5 DEF PrivateUpToDate, PrivateCarries
<1> QED
  BY <1>1, <1>3, <1>4, <1>5 DEF PrivateUpToDate

\* One that changes nothing of the lines and of what is shown has nothing to carry.
LEMMA PrivateNothingToCarry ==
    ASSUME NEW p, NEW q, rows' = rows, shown'[q].lines = shown[q].lines,
           \A id : PrivateOwes(p, q, id) => PrivateOwes(p, q, id)',
           \A id \in DOMAIN shown[q].lines : PrivateTakesBack(p, q, id) => PrivateTakesBack(p, q, id)',
           \A id \in DOMAIN shown[q].lines \cap DOMAIN rows : PrivateRewrites(p, q, id) => PrivateRewrites(p, q,
               id)'
    PROVE  PrivateCarries(p, q)
BY DEF PrivateCarries, PrivateShown

\* One that shows a line as it stands has carried what it owed.
LEMMA PrivateTellingCarries ==
    ASSUME NEW p, NEW q, NEW k \in DOMAIN rows, rows' = rows,
           DOMAIN shown'[q].lines = DOMAIN shown[q].lines \cup {k}, shown'[q].lines[k].view.text = rows[k].text,
           \A x \in DOMAIN shown[q].lines \ {k} : shown'[q].lines[x] = shown[q].lines[x],
           \A id : ~PrivateTakesBack(p, q, id) /\ ~PrivateRewrites(p, q, id) /\ (PrivateOwes(p, q, id) => id = k)
    PROVE  PrivateCarries(p, q)
<1>1. \A id \in DOMAIN rows' : PrivateShown(q, id)' \/ (id \in DOMAIN rows /\ ~PrivateShown(q, id) /\
          ~PrivateOwes(p, q, id))
  BY DEF PrivateShown
<1>2. \A id \in DOMAIN shown'[q].lines : id \in DOMAIN rows' \/ id \in DOMAIN shown[q].lines \ DOMAIN rows
  OBVIOUS
<1>3. \A id \in DOMAIN shown'[q].lines \cap DOMAIN rows' :
        \/ shown'[q].lines[id].view.text = rows'[id].text
        \/ /\ id \in DOMAIN shown[q].lines \cap DOMAIN rows
           /\ shown[q].lines[id].view.text # rows[id].text
  OBVIOUS
<1> QED
  BY <1>1, <1>2, <1>3 DEF PrivateCarries

LEMMA PrivateInformedStays ==
    ASSUME PrivateKept, PrivateInformed, NEW p \in PrivatePersons, Private!Step(p)
    PROVE  PrivateInformed'
<1> DEFINE G == PrivateInformed'
<1>0. /\ DOMAIN req = PrivatePersons /\ DOMAIN req[p] = PrivateFields /\ DOMAIN shown = PrivatePersons /\
             DOMAIN w3 = PrivatePersons
      /\ \A q \in PrivatePersons : DOMAIN shown[q] = {"lines", "badge"} /\ PrivateShowing(q, shown[q]) /\
             w3[q] \in Int
      /\ PrivateFits(p, req[p]) /\ PrivatePersons' = PrivatePersons /\ last \in Nat
  BY PrivateOthersStay DEF PrivateKept, PrivateTyped, PrivateShowing, PrivateLines
<1>a. ASSUME \A q \in PrivatePersons : w3'[q] > 0 => PrivateUpToDate(q)'
      PROVE  G
  BY <1>0, <1>a DEF PrivateInformed
<1>b. ASSUME w3' = w3, \A q \in PrivatePersons : w3[q] > 0 => PrivateCarries(p, q)
      PROVE  G
  <2>1. \A q \in PrivatePersons : w3[q] > 0 => PrivateUpToDate(q)
    BY DEF PrivateInformed
  <2> QED
    BY <1>a, <1>b, <2>1, PrivateCarryingIsEnough
\* A step of a request that owes nobody anything.
<1>c. ASSUME w3' = w3, rows' = rows, \A q \in PrivatePersons : shown'[q].lines = shown[q].lines,
             req[p].at \notin PrivateSending \cup {"reread", "notify"}
      PROVE  G
  <2>1. ASSUME NEW q \in PrivatePersons
        PROVE  PrivateCarries(p, q)
    <3>1. \A id : ~PrivateOwes(p, q, id) /\ ~PrivateTakesBack(p, q, id) /\ ~PrivateRewrites(p, q, id)
      BY <1>c DEF PrivateOwes, PrivateTakesBack, PrivateRewrites, PrivateSending
    <3> QED
      BY <1>c, <3>1, PrivateNothingToCarry
  <2> QED
    BY <1>b, <1>c, <2>1
<1>d. DOMAIN rows \subseteq 1..last /\ \A id \in DOMAIN rows : rows[id].thread \in DOMAIN w2
  BY DEF PrivateKept, PrivateTyped, PrivateLines
<1> SUFFICES G
  OBVIOUS
<1> HIDE DEF G
<1>1. CASE Private!Connect(p)
  <2>1. /\ shown' = [shown EXCEPT ![p] = Private!Read(p)] /\ w3' = [w3 EXCEPT ![p] = 1 - @]
        /\ rows' = rows /\ w2' = w2 /\ req' = req
    BY <1>1 DEF Private!Connect
  <2>2. PrivateUpToDate(p)'
    <3>1. shown'[p] = Private!Read(p)
      BY <1>0, <2>1
    <3>2. PICK c : c = Private!Read(p)
      OBVIOUS
    <3>3. /\ DOMAIN c.lines = {x \in DOMAIN rows : Private!Involves(rows[x].thread, p)}
          /\ \A id \in DOMAIN c.lines : c.lines[id].view.text = rows[id].text
      BY <3>2, PrivateReadIs
    <3> QED
      BY <2>1, <3>1, <3>2, <3>3 DEF PrivateUpToDate, PrivateShown, Private!Involves
  <2>3. ASSUME NEW q \in PrivatePersons \ {p}, w3'[q] > 0
        PROVE  PrivateUpToDate(q)'
    <3>1. w3'[q] = w3[q] /\ shown'[q] = shown[q]
      BY <1>0, <2>1
    <3>2. PrivateUpToDate(q)
      BY <2>3, <3>1 DEF PrivateInformed
    <3>3. PrivateCarries(p, q)
      BY <2>1, <3>1, PrivateNothingToCarry DEF PrivateOwes, PrivateTakesBack, PrivateRewrites
    <3> QED
      BY <3>1, <3>2, <3>3, PrivateCarryingIsEnough
  <2> QED
    BY <1>a, <2>2, <2>3
<1>2. CASE Private!Disconnect(p)
  <2>1. /\ shown' = [shown EXCEPT ![p] = Private!Blank] /\ w3' = [w3 EXCEPT ![p] = -@] /\ w3[p] > 0
        /\ rows' = rows /\ w2' = w2 /\ req' = req
    BY <1>2 DEF Private!Disconnect
  <2>2. ~(w3'[p] > 0)
    <3>1. w3'[p] = -w3[p] /\ w3[p] \in Int
      BY <1>0, <2>1
    <3> QED
      BY <2>1, <3>1
  <2>3. ASSUME NEW q \in PrivatePersons \ {p}, w3'[q] > 0
        PROVE  PrivateUpToDate(q)'
    <3>1. w3'[q] = w3[q] /\ shown'[q] = shown[q]
      BY <1>0, <2>1
    <3>2. PrivateUpToDate(q)
      BY <2>3, <3>1 DEF PrivateInformed
    <3>3. PrivateCarries(p, q)
      BY <2>1, <3>1, PrivateNothingToCarry DEF PrivateOwes, PrivateTakesBack, PrivateRewrites
    <3> QED
      BY <3>1, <3>2, <3>3, PrivateCarryingIsEnough
  <2> QED
    BY <1>a, <2>2, <2>3
<1>3. CASE Private!SetPrivacy(p)
  <2>1. w3' = w3 /\ rows' = rows /\ shown' = shown /\ req[p].at \notin PrivateSending \cup {"reread", "notify"}
    BY <1>3 DEF Private!SetPrivacy, Private!At, Private!Ask, Private!Free, PrivateSending
  <2> QED
    BY <1>c, <2>1
<1>4. CASE Private!Open(p)
  <2>1. w3' = w3 /\ rows' = rows /\ shown' = shown /\ req[p].at \notin PrivateSending \cup {"reread", "notify"}
    BY <1>4 DEF Private!Open, Private!At, Private!Ask, Private!Free, PrivateSending
  <2> QED
    BY <1>c, <2>1
<1>5. CASE Private!Answer(p)
  <2>1. w3' = w3 /\ rows' = rows /\ shown' = shown /\ req[p].at \notin PrivateSending \cup {"reread", "notify"}
    BY <1>5 DEF Private!Answer, Private!At, Private!Ask, Private!Free, PrivateSending
  <2> QED
    BY <1>c, <2>1
<1>6. CASE Private!Create(p)
  <2>1. /\ w3' = w3 /\ shown' = shown /\ req[p].at = "create" /\ last' = last + 1
        /\ rows' = Private!With(rows, last', [thread |-> req[p].thread, by |-> p, text |-> req[p].text,
               reply |-> req[p].reply])
    BY <1>6 DEF Private!Create, Private!At
  <2>2. req'[p].at = "own" /\ req'[p].line = last' /\ req'[p].to = req[p].to
    BY <1>0, <1>6 DEF Private!Create, PrivateFields
  <2>3. /\ DOMAIN rows' = DOMAIN rows \cup {last'} /\ rows'[last'].thread = req[p].thread
        /\ last' \notin DOMAIN rows /\ \A id \in DOMAIN rows : rows'[id] = rows[id]
    BY <1>0, <1>d, <2>1 DEF Private!With
  <2>4. req[p].thread \in DOMAIN w2 /\ w2[req[p].thread].who = {p, req[p].to}
    BY <1>0, <2>1 DEF PrivateFits, PrivatePaired
  <2>5. w2'[req[p].thread].who = {p, req[p].to}
    BY <2>4, PrivateThreadsGo
  <2>6. ASSUME NEW q \in PrivatePersons
        PROVE  PrivateCarries(p, q)
    <3>1. \A id : ~PrivateOwes(p, q, id) /\ ~PrivateTakesBack(p, q, id) /\ ~PrivateRewrites(p, q, id)
      BY <2>1 DEF PrivateOwes, PrivateTakesBack, PrivateRewrites
    <3>2. DOMAIN shown[q].lines \subseteq 1..last /\ last' \notin DOMAIN shown[q].lines
      BY <1>0, <2>1 DEF PrivateShowing
    <3>3. Private!Involves(rows[last].thread, q)' => PrivateOwes(p, q, last)'
      BY <2>2, <2>3, <2>5 DEF Private!Involves, PrivateOwes
    <3> QED
      BY <2>1, <2>3, <3>1, <3>2, <3>3 DEF PrivateCarries, PrivateShown
  <2> QED
    BY <1>b, <2>1, <2>6
<1>7. CASE Private!CountOwn(p)
  <2>1. /\ w3' = w3 /\ shown' = shown /\ rows' = rows /\ req[p].at = "own"
        /\ req'[p].at = "tell own" /\ req'[p].line = req[p].line /\ req'[p].to = req[p].to
    BY <1>0, <1>7 DEF Private!CountOwn, Private!At, PrivateFields
  <2>2. \A q \in PrivatePersons : PrivateCarries(p, q)
    BY <2>1, PrivateNothingToCarry DEF PrivateOwes, PrivateTakesBack, PrivateRewrites
  <2> QED
    BY <1>b, <2>1, <2>2
<1>8. CASE Private!TellOwn(p)
  <2> DEFINE r == req[p]
             c == Private!ShowLine(p, r.line, r.view, r.thread)
             d == Private!Badge(c, r.to, r.counted, r.line)
  <2>1. /\ r.thread \in DOMAIN w2 /\ p \in w2[r.thread].who /\ r.line \in DOMAIN rows
        /\ rows[r.line].thread = r.thread /\ r.view.thread = r.thread /\ r.view.text = rows[r.line].text
    BY <1>0, <1>8 DEF Private!TellOwn, Private!At, PrivateFits, PrivatePaired, PrivateSending
  <2>2. /\ PrivateShowing(p, c) /\ DOMAIN c.lines = DOMAIN shown[p].lines \cup {r.line}
        /\ c.lines[r.line].view = r.view
        /\ \A x \in DOMAIN shown[p].lines \ {r.line} : c.lines[x] = shown[p].lines[x]
    BY <2>1, <1>d, PrivateShowLineIs
  <2>3. d.lines = c.lines
    <3> HIDE DEF c
    <3> QED
      BY <2>2, PrivateBadgeIs
  <2>4. /\ shown' = [shown EXCEPT ![p] = d] /\ w3' = w3 /\ rows' = rows /\ r.at = "tell own"
        /\ req' = [req EXCEPT ![p].at = "peer"]
    BY <1>8 DEF Private!TellOwn, Private!At, Private!Move
  <2>5. req'[p].at = "peer" /\ req'[p].line = r.line /\ req'[p].to = r.to
    BY <1>0, <2>4 DEF PrivateFields
  <2> HIDE DEF c, d
  <2>6. shown'[p] = d /\ \A q \in PrivatePersons \ {p} : shown'[q] = shown[q]
    BY <1>0, <2>4
  <2>7. \A q \in PrivatePersons : \A id : ~PrivateTakesBack(p, q, id) /\ ~PrivateRewrites(p, q, id) /\
            (PrivateOwes(p, q, id) => id = r.line /\ q \in {p, r.to})
    BY <2>4 DEF PrivateOwes, PrivateTakesBack, PrivateRewrites
  <2>8. \A q \in PrivatePersons \ {p} : \A id : PrivateOwes(p, q, id) => PrivateOwes(p, q, id)'
    BY <2>4, <2>5, <2>7 DEF PrivateOwes
  <2>9. \A q \in PrivatePersons \ {p} : PrivateCarries(p, q)
    BY <2>4, <2>6, <2>7, <2>8, PrivateNothingToCarry
  <2>10. PrivateCarries(p, p)
    <3>1. /\ DOMAIN shown'[p].lines = DOMAIN shown[p].lines \cup {r.line}
          /\ shown'[p].lines[r.line].view.text = rows[r.line].text
          /\ \A x \in DOMAIN shown[p].lines \ {r.line} : shown'[p].lines[x] = shown[p].lines[x]
      BY <2>1, <2>2, <2>3, <2>6
    <3>2. r.line \in DOMAIN rows /\ rows' = rows
      BY <2>1, <2>4
    <3>3. \A id : ~PrivateTakesBack(p, p, id) /\ ~PrivateRewrites(p, p, id) /\ (PrivateOwes(p, p, id) =>
              id = r.line)
      BY <2>1, <2>7
    <3> HIDE DEF r
    <3> QED
      BY <3>1, <3>2, <3>3, PrivateTellingCarries
  <2> QED
    BY <1>b, <2>4, <2>9, <2>10
<1>9. CASE Private!CountPeer(p)
  <2>1. w3' = w3 /\ shown' = shown /\ rows' = rows /\ req[p].at = "peer"
    BY <1>9 DEF Private!CountPeer, Private!At
  <2>2. \A q \in PrivatePersons : \A id : ~PrivateTakesBack(p, q, id) /\ ~PrivateRewrites(p, q, id) /\
            (PrivateOwes(p, q, id) => q = req[p].to /\ id = req[p].line)
    BY <2>1 DEF PrivateOwes, PrivateTakesBack, PrivateRewrites
  <2>3. w3[req[p].to] > 0 => PrivateOwes(p, req[p].to, req[p].line)'
    <3>1. SUFFICES ASSUME w3[req[p].to] > 0
                   PROVE  PrivateOwes(p, req[p].to, req[p].line)'
      OBVIOUS
    <3>2. req' = [req EXCEPT ![p].at = "tell peer", ![p].whose = w3[req[p].to],
                              ![p].counted = Private!Unread(req[p].thread, req[p].to)]
      BY <1>9, <3>1 DEF Private!CountPeer
    <3>3. /\ req'[p].at = "tell peer" /\ req'[p].line = req[p].line /\ req'[p].to = req[p].to
          /\ req'[p].whose = w3[req[p].to]
      BY <1>0, <3>2 DEF PrivateFields
    <3> QED
      BY <2>1, <3>3 DEF PrivateOwes
  <2>4. ASSUME NEW q \in PrivatePersons, w3[q] > 0
        PROVE  PrivateCarries(p, q)
    <3>1. ASSUME NEW id, PrivateOwes(p, q, id)
          PROVE  PrivateOwes(p, q, id)'
      <4>1. q = req[p].to /\ id = req[p].line
        BY <2>2, <3>1
      <4>2. req'[p].at = "tell peer" /\ req'[p].line = id /\ req'[p].to = q /\ req'[p].whose = w3[q]
        <5>1. req' = [req EXCEPT ![p].at = "tell peer", ![p].whose = w3[req[p].to],
                                  ![p].counted = Private!Unread(req[p].thread, req[p].to)]
          BY <1>9, <2>4, <4>1 DEF Private!CountPeer
        <5> QED
          BY <1>0, <4>1, <5>1 DEF PrivateFields
      <4> QED
        BY <2>1, <4>2 DEF PrivateOwes
    <3> QED
      BY <2>1, <2>2, <3>1, PrivateNothingToCarry
  <2> QED
    BY <1>b, <2>1, <2>4
<1>10. CASE Private!TellPeer(p)
  <2> DEFINE r == req[p]
             o == r.to
             c == Private!ShowLine(o, r.line, r.view, r.thread)
             d == Private!Badge(c, p, r.counted, r.line)
  <2>1. /\ r.thread \in DOMAIN w2 /\ o \in w2[r.thread].who /\ r.line \in DOMAIN rows /\ o \in PrivatePersons
        /\ rows[r.line].thread = r.thread /\ r.view.thread = r.thread /\ r.view.text = rows[r.line].text
    BY <1>0, <1>10 DEF Private!TellPeer, Private!At, PrivateFits, PrivatePaired, PrivateSending
  <2>2. /\ PrivateShowing(o, c) /\ DOMAIN c.lines = DOMAIN shown[o].lines \cup {r.line}
        /\ c.lines[r.line].view = r.view
        /\ \A x \in DOMAIN shown[o].lines \ {r.line} : c.lines[x] = shown[o].lines[x]
    BY <2>1, <1>d, PrivateShowLineIs
  <2>3. d.lines = c.lines
    <3> HIDE DEF c
    <3> QED
      BY <2>2, PrivateBadgeIs
  <2>4. /\ IF w3[o] # r.whose THEN shown' = shown ELSE shown' = [shown EXCEPT ![o] = d]
        /\ w3' = w3 /\ rows' = rows /\ r.at = "tell peer"
    BY <1>10 DEF Private!TellPeer, Private!At
  <2> HIDE DEF c, d
  <2>6. /\ w3[o] = r.whose => shown'[o] = d
        /\ w3[o] # r.whose => shown'[o] = shown[o]
        /\ \A q \in PrivatePersons \ {o} : shown'[q] = shown[q]
    BY <1>0, <2>1, <2>4
  <2>7. \A q \in PrivatePersons : \A id : ~PrivateTakesBack(p, q, id) /\ ~PrivateRewrites(p, q, id) /\
            (PrivateOwes(p, q, id) => id = r.line /\ q = o /\ w3[o] = r.whose)
    BY <2>4 DEF PrivateOwes, PrivateTakesBack, PrivateRewrites
  <2>9. \A q \in PrivatePersons \ {o} : PrivateCarries(p, q)
    BY <2>4, <2>6, <2>7, PrivateNothingToCarry
  <2>10. PrivateCarries(p, o)
    <3>1. CASE w3[o] = r.whose
      <4>1. /\ DOMAIN shown'[o].lines = DOMAIN shown[o].lines \cup {r.line}
            /\ shown'[o].lines[r.line].view.text = rows[r.line].text
            /\ \A x \in DOMAIN shown[o].lines \ {r.line} : shown'[o].lines[x] = shown[o].lines[x]
        BY <2>1, <2>2, <2>3, <2>6, <3>1
      <4>2. r.line \in DOMAIN rows /\ rows' = rows
        BY <2>1, <2>4
      <4>3. \A id : ~PrivateTakesBack(p, o, id) /\ ~PrivateRewrites(p, o, id) /\ (PrivateOwes(p, o, id) =>
                id = r.line)
        BY <2>1, <2>7
      <4> HIDE DEF r, o
      <4> QED
        BY <4>1, <4>2, <4>3, PrivateTellingCarries
    <3>2. CASE w3[o] # r.whose
      BY <2>1, <2>4, <2>6, <2>7, <3>2, PrivateNothingToCarry
    <3> QED
      BY <3>1, <3>2
  <2> QED
    BY <1>b, <2>4, <2>9, <2>10
<1>11. CASE Private!Rewrite(p)
  <2> DEFINE k == req[p].line
  <2>1. /\ w3' = w3 /\ shown' = shown /\ req[p].at = "edit" /\ k \in DOMAIN rows
        /\ rows' = [rows EXCEPT ![k].text = req[p].text]
    BY <1>0, <1>11 DEF Private!Rewrite, Private!At, PrivateFits
  <2>2. req'[p].at = "reread" /\ req'[p].line = k
    BY <1>0, <1>11 DEF Private!Rewrite, Private!Move, PrivateFields
  <2> HIDE DEF k
  <2>3. DOMAIN rows' = DOMAIN rows /\ \A id \in DOMAIN rows \ {k} : rows'[id] = rows[id]
    BY <2>1
  <2>4. ASSUME NEW q \in PrivatePersons
        PROVE  PrivateCarries(p, q)
    <3>1. \A id : ~PrivateOwes(p, q, id) /\ ~PrivateTakesBack(p, q, id) /\ ~PrivateRewrites(p, q, id)
      BY <2>1 DEF PrivateOwes, PrivateTakesBack, PrivateRewrites
    <3>2. \A id : id = k => PrivateRewrites(p, q, id)'
      BY <2>2 DEF PrivateRewrites
    <3> QED
      BY <2>1, <2>3, <3>1, <3>2 DEF PrivateCarries, PrivateShown
  <2> QED
    BY <1>b, <2>1, <2>4
<1>12. CASE Private!Reread(p)
  <2>1. /\ w3' = w3 /\ shown' = shown /\ rows' = rows /\ req[p].at = "reread" /\ req[p].op = "edit"
        /\ req[p].line \in DOMAIN rows /\ rows[req[p].line].thread = req[p].thread
    BY <1>0, <1>12 DEF Private!Reread, Private!At, PrivateFits
  <2>2. /\ req'[p].at = "notify" /\ req'[p].line = req[p].line /\ req'[p].op = req[p].op
        /\ req'[p].tell = w2[req[p].thread].who
    BY <1>0, <1>12 DEF Private!Reread, Private!Told, PrivateFields
  <2>3. ASSUME NEW q \in PrivatePersons
        PROVE  PrivateCarries(p, q)
    <3>1. \A id : ~PrivateOwes(p, q, id) /\ ~PrivateTakesBack(p, q, id) /\ (PrivateRewrites(p, q, id) =>
              id = req[p].line)
      BY <2>1 DEF PrivateOwes, PrivateTakesBack, PrivateRewrites
    <3>2. req[p].line \in DOMAIN shown[q].lines => q \in w2[req[p].thread].who
      BY <1>0, <2>1 DEF PrivateShowing
    <3>3. \A id \in DOMAIN shown[q].lines : PrivateRewrites(p, q, id) => PrivateRewrites(p, q, id)'
      BY <2>1, <2>2, <3>1, <3>2 DEF PrivateRewrites
    <3> QED
      BY <2>1, <3>1, <3>3, PrivateNothingToCarry
  <2> QED
    BY <1>b, <2>1, <2>3
<1>13. CASE Private!Remove(p)
  <2>1. /\ w3' = w3 /\ shown' = shown /\ req[p].at = "delete" /\ req[p].op = "delete"
        /\ rows' = [id \in DOMAIN rows \ {req[p].line} |-> rows[id]]
        /\ req[p].line \in DOMAIN rows /\ rows[req[p].line].thread = req[p].thread
    BY <1>0, <1>13 DEF Private!Remove, Private!At, PrivateFits, Private!Deleted
  <2>2. /\ req'[p].at = "notify" /\ req'[p].line = req[p].line /\ req'[p].op = req[p].op
        /\ req'[p].tell = w2[req[p].thread].who
    BY <1>0, <1>13 DEF Private!Remove, Private!Told, PrivateFields
  <2>3. DOMAIN rows' = DOMAIN rows \ {req[p].line} /\ \A id \in DOMAIN rows' : rows'[id] = rows[id]
    BY <2>1
  <2>4. ASSUME NEW q \in PrivatePersons
        PROVE  PrivateCarries(p, q)
    <3>1. \A id : ~PrivateOwes(p, q, id) /\ ~PrivateTakesBack(p, q, id) /\ ~PrivateRewrites(p, q, id)
      BY <2>1 DEF PrivateOwes, PrivateTakesBack, PrivateRewrites
    <3>2. req[p].line \in DOMAIN shown[q].lines => q \in w2[req[p].thread].who
      BY <1>0, <2>1 DEF PrivateShowing
    <3>3. \A id \in DOMAIN shown[q].lines : id = req[p].line => PrivateTakesBack(p, q, id)'
      BY <2>1, <2>2, <3>2 DEF PrivateTakesBack
    <3> QED
      BY <2>1, <2>3, <3>1, <3>3 DEF PrivateCarries, PrivateShown
  <2> QED
    BY <1>b, <2>1, <2>4
<1>14. CASE Private!CountMarked(p)
  <2>1. w3' = w3 /\ rows' = rows /\ shown' = shown /\ req[p].at \notin PrivateSending \cup {"reread", "notify"}
    BY <1>14 DEF Private!CountMarked, Private!At, Private!Ask, Private!Free, PrivateSending
  <2> QED
    BY <1>c, <2>1
<1>15. CASE Private!TellMarked(p)
  <2>1. w3' = w3 /\ rows' = rows /\ req[p].at \notin PrivateSending \cup {"reread", "notify"}
        /\ shown' = [shown EXCEPT ![p] = Private!Badge(shown[p], req[p].to, req[p].counted, req[p].line)]
    BY <1>15 DEF Private!TellMarked, Private!At, PrivateSending
  <2>2. Private!Badge(shown[p], req[p].to, req[p].counted, req[p].line).lines = shown[p].lines
    BY <1>0, PrivateBadgeIs
  <2>3. \A q \in PrivatePersons : shown'[q].lines = shown[q].lines
    BY <1>0, <2>1, <2>2
  <2> QED
    BY <1>c, <2>1, <2>3
<1>16. ASSUME NEW id \in DOMAIN rows, NEW op \in {"edit", "delete"}, Private!Change(p, op, id)
      PROVE  G
  <2>1. w3' = w3 /\ rows' = rows /\ shown' = shown /\ req[p].at \notin PrivateSending \cup {"reread", "notify"}
    BY <1>16 DEF Private!Change, Private!At, Private!Ask, Private!Free, PrivateSending
  <2> QED
    BY <1>c, <2>1
<1>17. ASSUME NEW q \in DOMAIN w1, Private!Notify(p, q)
      PROVE  G
  <2> DEFINE r == req[p]
             c == Private!ShowLine(q, r.line, r.view, r.thread)
             d == Private!Unshown(q, r.line)
  <2>1. /\ r.thread \in DOMAIN w2 /\ q \in w2[r.thread].who /\ r.op \in {"edit", "delete"}
        /\ r.op = "edit" => /\ r.line \in DOMAIN rows /\ rows[r.line].thread = r.thread
                            /\ r.view.thread = r.thread /\ r.view.text = rows[r.line].text
        /\ r.op = "delete" => r.line \notin DOMAIN rows
    BY <1>0, <1>17 DEF Private!Notify, Private!At, PrivateFits
  <2>2. q \in PrivatePersons
    BY DEF PrivatePersons
  <2>3. r.op = "edit" =>
            /\ DOMAIN c.lines = DOMAIN shown[q].lines \cup {r.line}
            /\ c.lines[r.line].view = r.view
            /\ \A x \in DOMAIN shown[q].lines \ {r.line} : c.lines[x] = shown[q].lines[x]
    BY <2>1, <2>2, <1>d, PrivateShowLineIs
  <2>4. /\ DOMAIN d.lines = DOMAIN shown[q].lines \ {r.line}
        /\ \A x \in DOMAIN shown[q].lines \ {r.line} : d.lines[x] = shown[q].lines[x]
    BY <2>2, PrivateUnshownIs
  <2>5. /\ w3' = w3 /\ rows' = rows /\ r.at = "notify"
        /\ w3[q] > 0 /\ r.op = "delete" => shown' = [shown EXCEPT ![q] = d]
        /\ w3[q] > 0 /\ r.op = "edit" => shown' = [shown EXCEPT ![q] = c]
        /\ ~(w3[q] > 0) => shown' = shown
        /\ req' = [req EXCEPT ![p] = IF r.tell = {q} THEN Private!Free ELSE [r EXCEPT !.tell = @ \ {q}]]
    <3>1. /\ w3' = w3 /\ rows' = rows /\ r.at = "notify"
          /\ shown' = IF w3[q] <= 0 THEN shown ELSE [shown EXCEPT ![q] = IF r.op = "delete" THEN d ELSE c]
          /\ req' = [req EXCEPT ![p] = IF r.tell = {q} THEN Private!Free ELSE [r EXCEPT !.tell = @ \ {q}]]
      BY <1>17 DEF Private!Notify, Private!At
    <3>2. w3[q] > 0 <=> ~(w3[q] <= 0)
      BY <1>0, <2>2
    <3> HIDE DEF c, d
    <3> QED
      BY <3>1, <3>2
  <2> HIDE DEF c, d
  <2>6. /\ w3[q] > 0 /\ r.op = "delete" => shown'[q] = d
        /\ w3[q] > 0 /\ r.op = "edit" => shown'[q] = c
        /\ \A x \in PrivatePersons \ {q} : shown'[x] = shown[x]
    BY <1>0, <2>1, <2>2, <2>5
  <2>7. \A x \in PrivatePersons : \A id :
            /\ ~PrivateOwes(p, x, id)
            /\ PrivateTakesBack(p, x, id) => id = r.line /\ r.op = "delete" /\ x \in r.tell
            /\ PrivateRewrites(p, x, id) => id = r.line /\ r.op = "edit" /\ x \in r.tell
    BY <2>5 DEF PrivateOwes, PrivateTakesBack, PrivateRewrites
  <2>8. r.tell # {q} => req'[p].at = "notify" /\ req'[p].line = r.line /\ req'[p].op = r.op /\
            req'[p].tell = r.tell \ {q}
    BY <1>0, <2>5 DEF PrivateFields
  <2>9. ASSUME NEW x \in PrivatePersons \ {q}
        PROVE  PrivateCarries(p, x)
    <3>1. x \in r.tell => r.tell # {q}
      OBVIOUS
    <3>2. \A id : PrivateTakesBack(p, x, id) => PrivateTakesBack(p, x, id)'
      BY <2>7, <2>8, <3>1 DEF PrivateTakesBack
    <3>3. \A id : PrivateRewrites(p, x, id) => PrivateRewrites(p, x, id)'
      BY <2>7, <2>8, <3>1 DEF PrivateRewrites
    <3> QED
      BY <2>5, <2>6, <2>7, <3>2, <3>3, PrivateNothingToCarry
  <2>10. ASSUME w3[q] > 0
         PROVE  PrivateCarries(p, q)
    <3>1. CASE r.op = "edit"
      BY <2>1, <2>2, <2>3, <2>5, <2>6, <2>7, <2>10, <3>1 DEF PrivateCarries, PrivateShown
    <3>2. CASE r.op = "delete"
      BY <2>1, <2>2, <2>4, <2>5, <2>6, <2>7, <2>10, <3>2 DEF PrivateCarries, PrivateShown
    <3> QED
      BY <2>1, <3>1, <3>2
  <2> QED
    BY <1>b, <2>5, <2>9, <2>10
<1>18. ASSUME NEW q \in DOMAIN w1, NEW reply, Private!Send(p, q, reply)
      PROVE  G
  <2>1. w3' = w3 /\ rows' = rows /\ shown' = shown /\ req[p].at \notin PrivateSending \cup {"reread", "notify"}
    BY <1>18 DEF Private!Send, Private!At, Private!Ask, Private!Free, PrivateSending
  <2> QED
    BY <1>c, <2>1
<1>19. ASSUME NEW q \in DOMAIN w1, NEW id \in DOMAIN shown[p].lines, Private!MarkRead(p, q, id)
      PROVE  G
  <2>1. w3' = w3 /\ rows' = rows /\ shown' = shown /\ req[p].at \notin PrivateSending \cup {"reread", "notify"}
    BY <1>19 DEF Private!MarkRead, Private!At, Private!Ask, Private!Free, PrivateSending
  <2> QED
    BY <1>c, <2>1
<1> QED
  BY <1>1, <1>2, <1>3, <1>4, <1>5, <1>6, <1>7, <1>8, <1>9, <1>10, <1>11, <1>12, <1>13, <1>14, <1>15, <1>16, <1>17,
        <1>18, <1>19 DEF Private!Step

LEMMA PrivateBothStay ==
    ASSUME PrivateKept, PrivateInformed, [Private!Next]_(Private!vars)
    PROVE  PrivateKept' /\ PrivateInformed'
<1>1. PrivateKept'
  BY PrivateKeptStays
<1>2. ASSUME UNCHANGED Private!vars
      PROVE  PrivateInformed'
  <2>1. rows' = rows /\ w2' = w2 /\ shown' = shown /\ w3' = w3 /\ req' = req /\ PrivatePersons' = PrivatePersons
    BY <1>2 DEF Private!vars, PrivatePersons
  <2>2. \A s, q, id : PrivateOwes(s, q, id)' = PrivateOwes(s, q, id) /\ PrivateTakesBack(s, q,
            id)' = PrivateTakesBack(s, q, id) /\ PrivateRewrites(s, q, id)' = PrivateRewrites(s, q, id)
    BY <2>1 DEF PrivateOwes, PrivateTakesBack, PrivateRewrites
  <2>3. ASSUME NEW q \in PrivatePersons, PrivateUpToDate(q)
        PROVE  PrivateUpToDate(q)'
    BY <2>1, <2>2, <2>3 DEF PrivateUpToDate, PrivateShown, Private!Involves
  <2> QED
    BY <2>1, <2>3 DEF PrivateInformed
<1>3. ASSUME NEW p \in PrivatePersons, Private!Step(p)
      PROVE  PrivateInformed'
  BY <1>3, PrivateInformedStays
<1>4. PrivateInformed'
  BY <1>2, <1>3 DEF Private!Next, PrivatePersons
<1> QED
  BY <1>1, <1>4
---------------------------------------------------------------------------
(* Posts.  rows are the posts, w1 the answers, w2 who looked at what, w3   *)
(* which channels people see, w4 what they sent.  Updates write back rows  *)
(* they read earlier, so the inductive invariant says what such a row has  *)
(* kept: its author, its channel, and words its author sent; and of an     *)
(* answer that is stored and not yet told, who is going to be told.        *)

LEMMA BoardCounts == \A S : Board!Cardinality(S) = Cardinality(S) /\ Board!IsFiniteSet(S) = IsFiniteSet(S)
  BY DEF Board!Cardinality, Cardinality, Board!IsFiniteSet, IsFiniteSet

BoardColumns == {"channel", "by", "title", "event", "locked", "pinned"}
BoardLooks == {"channel", "by", "title", "event", "locked", "pinned", "tally", "own", "viewed"}
BoardFields == {"at", "op", "id", "row", "ask", "view"}
\* The stages in which a request names a post, and those in which it answers.
BoardNamed == {"claim", "announce", "save", "reread", "render", "share", "reply", "remove", "tell", "answer",
    "count", "tallied"}
BoardGiven == {"count", "tallied"}

\* Somebody sent this title, and this time, for the post.
BoardWritten(sent, id, row) ==
    /\ \E w \in sent : w[1] = id /\ w[2].no = row.title.no
    /\ \E w \in sent : w[1] = id /\ w[3] = row.event

BoardTyped ==
    /\ last \in Nat /\ DOMAIN rows \subseteq 1..last /\ DOMAIN w1 = DOMAIN rows
    /\ \A id \in DOMAIN rows :
        DOMAIN rows[id] = BoardColumns /\ rows[id].by \in Board!People /\ BoardWritten(w4[rows[id].by], id,
            rows[id])
    /\ DOMAIN req = Board!People /\ DOMAIN shown = Board!People /\ DOMAIN w2 = Board!People
    /\ DOMAIN w3 = Board!People /\ DOMAIN w4 = Board!People
    /\ \A p \in Board!People : DOMAIN req[p] = BoardFields /\ w3[p] \subseteq plan.sees[p]

\* What was looked at is there, in a channel of who looked.
BoardLooked == \A p \in Board!People : w2[p] \subseteq DOMAIN rows /\ \A id \in w2[p] :
    rows[id].channel \in plan.sees[p]

\* What a request holds: of the row it saves, the author and the channel stay.
BoardFits(p, r) ==
    /\ r.at \in BoardNamed => r.id \in 1..last
    /\ r.at = "insert" => DOMAIN r.row = BoardColumns /\ r.row.by = p
    /\ r.at = "save" =>
        /\ DOMAIN r.row = BoardColumns /\ r.row.by \in Board!People /\ BoardWritten(w4[r.row.by], r.id, r.row)
        /\ r.id \in DOMAIN rows => r.row.by = rows[r.id].by /\ r.row.channel = rows[r.id].channel
    /\ r.at = "share" => DOMAIN r.view = BoardLooks /\ r.view.own = "none"
    /\ r.at = "mark" => r.ask \in plan.sees[p]
    /\ r.at \in {"answer"} \cup BoardGiven /\ r.id \in DOMAIN rows => r.row.channel = rows[r.id].channel
    /\ r.at \in BoardGiven /\ r.id \in DOMAIN rows => Board!OwnAnswer(r.id, p) = r.ask

\* A client takes nobody else's answer for its user's.
BoardShowing(p, client) ==
    /\ DOMAIN client \subseteq 1..last
    /\ \A id \in DOMAIN client :
        /\ DOMAIN client[id] = BoardLooks
        /\ id \in DOMAIN rows /\ rows[id].channel \in w3[p] =>
            client[id].own \in {"none", Board!OwnAnswer(id, p)} \/ (req[p].at \in BoardGiven /\ req[p].id = id)

BoardKept ==
    /\ BoardTyped /\ BoardLooked
    /\ \A p \in Board!People : BoardFits(p, req[p])
    /\ \A p \in Board!People : BoardShowing(p, shown[p])

LEMMA BoardViewIs ==
    ASSUME NEW row, NEW tally, NEW own, NEW viewed
    PROVE  /\ DOMAIN Board!View(row, tally, own, viewed) = BoardLooks
           /\ Board!View(row, tally, own, viewed).own = own /\ Board!View(row, tally, own,
                  viewed).channel = row.channel
BY DEF Board!View, BoardLooks

LEMMA BoardOwnIs ==
    ASSUME NEW id, NEW p
    PROVE  Board!OwnAnswer(id, p) = IF p \in DOMAIN w1[id] THEN w1[id][p] ELSE "none"
BY DEF Board!OwnAnswer

LEMMA BoardKeptFirst ==
    ASSUME Board!PlansFit, Board!Init
    PROVE  BoardKept
<1>0. /\ Board!Cardinality(DOMAIN plan.posts) \in Nat /\ DOMAIN plan.posts = 1..Board!Cardinality(DOMAIN plan.posts)
  BY FS_CardinalityType, BoardCounts DEF Board!PlansFit, Board!Init
<1>1. BoardTyped
  <2>1. \A id \in DOMAIN rows : DOMAIN rows[id] = BoardColumns /\ rows[id].by \in Board!People
    BY DEF Board!Init, Board!PlansFit, Board!People, BoardColumns
  <2>2. ASSUME NEW id \in DOMAIN rows
        PROVE  BoardWritten(w4[rows[id].by], id, rows[id])
    <3>1. w4[rows[id].by] = {<<x, rows[x].title, rows[x].event>> : x \in {y \in DOMAIN rows :
              rows[y].by = rows[id].by}}
      BY <2>1 DEF Board!Init
    <3>2. <<id, rows[id].title, rows[id].event>> \in w4[rows[id].by]
      BY <3>1
    <3> QED
      BY <3>2 DEF BoardWritten
  <2> QED
    BY <1>0, <2>1, <2>2 DEF Board!Init, BoardTyped, Board!People, Board!Free, BoardFields
<1>2. BoardLooked
  BY DEF Board!Init, BoardLooked
<1>3. \A p \in Board!People : BoardFits(p, req[p])
  BY DEF Board!Init, BoardFits, Board!Free, BoardNamed, BoardGiven
<1>4. ASSUME NEW p \in Board!People
      PROVE  BoardShowing(p, shown[p])
  <2>1. shown[p] = [id \in {x \in DOMAIN rows : rows[x].channel \in w3[p]} |->
                        Board!View(rows[id], [a \in Board!Answers |-> 0], "none", Board!Viewed(id, p))]
    BY DEF Board!Init
  <2>2. \A id \in DOMAIN shown[p] : DOMAIN shown[p][id] = BoardLooks /\ shown[p][id].own = "none"
    BY <2>1, BoardViewIs
  <2>3. DOMAIN shown[p] \subseteq DOMAIN rows
    BY <2>1
  <2> QED
    BY <1>1, <2>2, <2>3 DEF BoardShowing, BoardTyped
<1> QED
  BY <1>1, <1>2, <1>3, <1>4 DEF BoardKept

\* One session moves at a time, and what anybody sees only shrinks.
LEMMA BoardOthersStay ==
    ASSUME BoardTyped, NEW p \in Board!People, Board!Step(p)
    PROVE  /\ plan' = plan /\ Board!People' = Board!People /\ DOMAIN req' = Board!People
           /\ \A q \in Board!People \ {p} : req'[q] = req[q]
           /\ DOMAIN req'[p] = BoardFields
<1> DEFINE G == /\ plan' = plan /\ Board!People' = Board!People /\ DOMAIN req' = Board!People
                /\ \A q \in Board!People \ {p} : req'[q] = req[q]
                /\ DOMAIN req'[p] = BoardFields
<1>0. /\ DOMAIN req = Board!People /\ DOMAIN req[p] = BoardFields /\ DOMAIN Board!Free = BoardFields
      /\ \A q \in Board!People : DOMAIN req[q] = BoardFields
  BY DEF BoardTyped, Board!Free, BoardFields
<1> SUFFICES G
  OBVIOUS
<1>1. CASE Board!Create(p)
  BY <1>0, <1>1 DEF Board!Create, Board!Ask, Board!Move, Board!Done, Board!Free, BoardFields, Board!People
<1>2. CASE Board!Insert(p)
  BY <1>0, <1>2 DEF Board!Insert, Board!Ask, Board!Move, Board!Done, Board!Free, BoardFields, Board!People
<1>3. CASE Board!Announce(p)
  BY <1>0, <1>3 DEF Board!Announce, Board!Ask, Board!Move, Board!Done, Board!Free, BoardFields, Board!People
<1>4. CASE Board!Save(p)
  BY <1>0, <1>4 DEF Board!Save, Board!Ask, Board!Move, Board!Done, Board!Free, BoardFields, Board!People
<1>5. CASE Board!Reread(p)
  BY <1>0, <1>5 DEF Board!Reread, Board!Ask, Board!Move, Board!Done, Board!Free, BoardFields, Board!People
<1>6. CASE Board!Render(p)
  BY <1>0, <1>6 DEF Board!Render, Board!Ask, Board!Move, Board!Done, Board!Free, BoardFields, Board!People
<1>7. CASE Board!Share(p)
  BY <1>0, <1>7 DEF Board!Share, Board!Ask, Board!Move, Board!Done, Board!Free, BoardFields, Board!People
<1>8. CASE Board!Reply(p)
  BY <1>0, <1>8 DEF Board!Reply, Board!Ask, Board!Move, Board!Done, Board!Free, BoardFields, Board!People
<1>9. CASE Board!Remove(p)
  BY <1>0, <1>9 DEF Board!Remove, Board!Ask, Board!Move, Board!Done, Board!Free, BoardFields, Board!People
<1>10. CASE Board!TellDeleted(p)
  BY <1>0, <1>10 DEF Board!TellDeleted, Board!Ask, Board!Move, Board!Done, Board!Free, BoardFields, Board!People
<1>11. CASE Board!SetAnswer(p)
  BY <1>0, <1>11 DEF Board!SetAnswer, Board!Ask, Board!Move, Board!Done, Board!Free, BoardFields, Board!People
<1>12. CASE Board!Count(p)
  BY <1>0, <1>12 DEF Board!Count, Board!Ask, Board!Move, Board!Done, Board!Free, BoardFields, Board!People
<1>13. CASE Board!TellAnswer(p)
  BY <1>0, <1>13 DEF Board!TellAnswer, Board!Ask, Board!Move, Board!Done, Board!Free, BoardFields, Board!People
<1>14. CASE Board!Look(p)
  BY <1>0, <1>14 DEF Board!Look, Board!Ask, Board!Move, Board!Done, Board!Free, BoardFields, Board!People
<1>15. CASE Board!Mark(p)
  BY <1>0, <1>15 DEF Board!Mark, Board!Ask, Board!Move, Board!Done, Board!Free, BoardFields, Board!People
<1>16. CASE Board!Hide(p)
  BY <1>0, <1>16 DEF Board!Hide, Board!Ask, Board!Move, Board!Done, Board!Free, BoardFields, Board!People
<1>17. ASSUME NEW fails \in BOOLEAN, Board!Claim(p, fails)
      PROVE  G
  BY <1>0, <1>17 DEF Board!Claim, Board!Ask, Board!Move, Board!Done, Board!Free, BoardFields, Board!People
<1>18. ASSUME NEW id \in DOMAIN rows, Board!Update(p, id)
      PROVE  G
  BY <1>0, <1>18 DEF Board!Update, Board!Ask, Board!Move, Board!Done, Board!Free, BoardFields, Board!People
<1>19. ASSUME NEW id \in DOMAIN rows, Board!Delete(p, id)
      PROVE  G
  BY <1>0, <1>19 DEF Board!Delete, Board!Ask, Board!Move, Board!Done, Board!Free, BoardFields, Board!People
<1>20. ASSUME NEW id \in DOMAIN rows, NEW a \in Board!Answers \cup {"none"}, Board!RSVP(p, id, a)
      PROVE  G
  BY <1>0, <1>20 DEF Board!RSVP, Board!Ask, Board!Move, Board!Done, Board!Free, BoardFields, Board!People
<1> QED
  BY <1>1, <1>2, <1>3, <1>4, <1>5, <1>6, <1>7, <1>8, <1>9, <1>10, <1>11, <1>12, <1>13, <1>14, <1>15, <1>16, <1>17,
        <1>18, <1>19, <1>20 DEF Board!Step

LEMMA BoardSightGoes ==
    ASSUME BoardTyped, NEW p \in Board!People, Board!Step(p)
    PROVE  /\ DOMAIN w3' = Board!People /\ DOMAIN w4' = Board!People
           /\ \A q \in Board!People : w3'[q] \subseteq w3[q] /\ w4[q] \subseteq w4'[q]
<1> DEFINE G == /\ DOMAIN w3' = Board!People /\ DOMAIN w4' = Board!People
                /\ \A q \in Board!People : w3'[q] \subseteq w3[q] /\ w4[q] \subseteq w4'[q]
<1>0. DOMAIN w3 = Board!People /\ DOMAIN w4 = Board!People
  BY DEF BoardTyped
<1>a. ASSUME w3' = w3, w4' = w4
      PROVE  G
  BY <1>0, <1>a
<1> SUFFICES G
  OBVIOUS
<1> HIDE DEF G
<1>1. CASE Board!Create(p) \/ Board!Announce(p) \/ Board!Save(p) \/ Board!Reread(p) \/ Board!Render(p) \/
               Board!Share(p) \/ Board!Reply(p) \/ Board!Remove(p) \/ Board!TellDeleted(p) \/
                   Board!SetAnswer(p) \/ Board!Count(p) \/ Board!TellAnswer(p) \/ Board!Look(p) \/ Board!Mark(p)
  BY <1>a, <1>1 DEF Board!Create, Board!Announce, Board!Save, Board!Reread, Board!Render, Board!Share, Board!Reply,
        Board!Remove, Board!TellDeleted, Board!SetAnswer, Board!Count, Board!TellAnswer, Board!Look, Board!Mark
<1>2. CASE Board!Insert(p)
  BY <1>0, <1>2 DEF Board!Insert, G
<1>3. CASE Board!Hide(p)
  <2>1. PICK channel \in w3[p] : w3' = [w3 EXCEPT ![p] = @ \ {channel}]
    BY <1>3 DEF Board!Hide
  <2>2. w4' = w4
    BY <1>3 DEF Board!Hide
  <2> QED
    BY <1>0, <2>1, <2>2 DEF G
<1>4. ASSUME NEW fails \in BOOLEAN, Board!Claim(p, fails)
      PROVE  G
  BY <1>a, <1>4 DEF Board!Claim
<1>5. ASSUME NEW id \in DOMAIN rows, Board!Update(p, id)
      PROVE  G
  BY <1>0, <1>5 DEF Board!Update, G
<1>6. ASSUME NEW id \in DOMAIN rows, Board!Delete(p, id)
      PROVE  G
  BY <1>a, <1>6 DEF Board!Delete
<1>7. ASSUME NEW id \in DOMAIN rows, NEW a \in Board!Answers \cup {"none"}, Board!RSVP(p, id, a)
      PROVE  G
  BY <1>a, <1>7 DEF Board!RSVP
<1> QED
  BY <1>1, <1>2, <1>3, <1>4, <1>5, <1>6, <1>7 DEF Board!Step

\* A post keeps its author and its channel; only an Insert adds one, under a new number.
LEMMA BoardRowsGo ==
    ASSUME BoardKept, NEW p \in Board!People, Board!Step(p)
    PROVE  /\ last' \in Nat /\ last <= last' /\ DOMAIN rows' \subseteq 1..last' /\ DOMAIN w1' = DOMAIN rows'
           /\ \A id \in DOMAIN rows' :
                /\ DOMAIN rows'[id] = BoardColumns /\ rows'[id].by \in Board!People
                /\ BoardWritten(w4'[rows'[id].by], id, rows'[id])
                /\ \/ id \in DOMAIN rows /\ rows'[id].by = rows[id].by /\ rows'[id].channel = rows[id].channel
                   \/ id = last + 1 /\ req[p].at = "insert"
<1> DEFINE Good(table) ==
               \A id \in DOMAIN table :
                 /\ DOMAIN table[id] = BoardColumns /\ table[id].by \in Board!People
                 /\ BoardWritten(w4'[table[id].by], id, table[id])
                 /\ \/ id \in DOMAIN rows /\ table[id].by = rows[id].by /\ table[id].channel = rows[id].channel
                    \/ id = last + 1 /\ req[p].at = "insert"
           G == /\ last' \in Nat /\ last <= last' /\ DOMAIN rows' \subseteq 1..last' /\ DOMAIN w1' = DOMAIN rows'
                /\ Good(rows')
<1>0. last \in Nat /\ DOMAIN rows \subseteq 1..last /\ DOMAIN w1 = DOMAIN rows /\ BoardFits(p, req[p])
  BY DEF BoardKept, BoardTyped
<1>b. \A id, row : \A q \in Board!People : BoardWritten(w4[q], id, row) => BoardWritten(w4'[q], id, row)
  BY BoardSightGoes DEF BoardKept, BoardWritten
<1>c. Good(rows)
  BY <1>b DEF BoardKept, BoardTyped
<1>a. ASSUME rows' = rows, DOMAIN w1' = DOMAIN w1, last' = last
      PROVE  G
  BY <1>0, <1>a, <1>c
<1>d. ASSUME NEW id, rows' = Board!Without(rows, id), w1' = Board!Without(w1, id), last' = last
      PROVE  G
  <2>1. DOMAIN rows' = DOMAIN rows \ {id} /\ DOMAIN w1' = DOMAIN rows' /\ \A x \in DOMAIN rows' : rows'[x] = rows[x]
    BY <1>0, <1>d DEF Board!Without
  <2> QED
    BY <1>0, <1>c, <1>d, <2>1
<1> SUFFICES G
  OBVIOUS
<1> HIDE DEF G
<1>1. CASE Board!Create(p) \/ Board!Announce(p) \/ Board!Reread(p) \/ Board!Render(p) \/ Board!Share(p) \/
               Board!Reply(p) \/ Board!TellDeleted(p) \/ Board!Count(p) \/ Board!TellAnswer(p) \/
                   Board!Look(p) \/ Board!Mark(p) \/ Board!Hide(p)
  BY <1>a, <1>1 DEF Board!Create, Board!Announce, Board!Reread, Board!Render, Board!Share, Board!Reply,
        Board!TellDeleted, Board!Count, Board!TellAnswer, Board!Look, Board!Mark, Board!Hide
<1>2. CASE Board!Insert(p)
  <2> DEFINE row == req[p].row
  <2>1. /\ last' = last + 1 /\ req[p].at = "insert" /\ DOMAIN row = BoardColumns /\ row.by = p
        /\ rows' = [id \in DOMAIN rows \cup {last'} |-> IF id = last' THEN row ELSE rows[id]]
        /\ w1' = [id \in DOMAIN w1 \cup {last'} |-> IF id = last' THEN <<>> ELSE w1[id]]
        /\ w4' = [w4 EXCEPT ![p] = @ \cup {<<last', row.title, row.event>>}]
    BY <1>0, <1>2 DEF Board!Insert, Board!At, BoardFits, Board!With
  <2>2. last' \in Nat /\ last <= last' /\ last' \in 1..last' /\ last' \notin DOMAIN rows /\ \A id \in 1..last :
            id \in 1..last'
    BY <1>0, <2>1
  <2> HIDE DEF row
  <2>3. /\ DOMAIN rows' = DOMAIN rows \cup {last'} /\ DOMAIN w1' = DOMAIN rows' /\ rows'[last'] = row
        /\ \A id \in DOMAIN rows : rows'[id] = rows[id]
    BY <1>0, <2>1, <2>2
  <2>4. <<last', row.title, row.event>> \in w4'[p]
    BY <2>1 DEF BoardKept, BoardTyped
  <2>5. BoardWritten(w4'[p], last', row)
    BY <2>4 DEF BoardWritten
  <2>6. Good(rows')
    BY <1>c, <2>1, <2>3, <2>5
  <2>7. DOMAIN rows' \subseteq 1..last'
    BY <1>0, <2>2, <2>3
  <2> QED
    BY <2>2, <2>3, <2>6, <2>7 DEF G
<1>3. CASE Board!Save(p)
  <2> DEFINE k == req[p].id
             row == req[p].row
  <2>1. /\ last' = last /\ w1' = w1 /\ w4' = w4 /\ DOMAIN row = BoardColumns /\ row.by \in Board!People
        /\ BoardWritten(w4[row.by], k, row)
        /\ k \in DOMAIN rows => row.by = rows[k].by /\ row.channel = rows[k].channel
        /\ IF k \in DOMAIN rows THEN rows' = [rows EXCEPT ![k] = row] ELSE rows' = rows
    BY <1>0, <1>3 DEF Board!Save, Board!At, BoardFits
  <2> HIDE DEF k, row
  <2>2. CASE k \notin DOMAIN rows
    BY <1>a, <2>1, <2>2
  <2>3. CASE k \in DOMAIN rows
    <3>1. DOMAIN rows' = DOMAIN rows /\ rows'[k] = row /\ \A id \in DOMAIN rows \ {k} : rows'[id] = rows[id]
      BY <2>1, <2>3
    <3>2. Good(rows')
      <4> TAKE id \in DOMAIN rows'
      <4>1. CASE id = k
        BY <2>1, <2>3, <3>1, <4>1
      <4>2. CASE id # k
        BY <1>c, <3>1, <4>2
      <4> QED
        BY <4>1, <4>2
    <3> QED
      BY <1>0, <2>1, <3>1, <3>2 DEF G
  <2> QED
    BY <2>2, <2>3
<1>4. CASE Board!Remove(p)
  BY <1>d, <1>4 DEF Board!Remove, Board!Gone
<1>5. CASE Board!SetAnswer(p)
  <2>1. rows' = rows /\ last' = last /\ DOMAIN w1' = DOMAIN w1
    BY <1>5 DEF Board!SetAnswer
  <2> QED
    BY <1>a, <2>1
<1>6. ASSUME NEW fails \in BOOLEAN, Board!Claim(p, fails)
      PROVE  G
  BY <1>a, <1>d, <1>6 DEF Board!Claim, Board!Gone
<1>7. ASSUME NEW id \in DOMAIN rows, Board!Update(p, id)
      PROVE  G
  BY <1>a, <1>7 DEF Board!Update
<1>8. ASSUME NEW id \in DOMAIN rows, Board!Delete(p, id)
      PROVE  G
  BY <1>a, <1>8 DEF Board!Delete
<1>9. ASSUME NEW id \in DOMAIN rows, NEW a \in Board!Answers \cup {"none"}, Board!RSVP(p, id, a)
      PROVE  G
  BY <1>a, <1>9 DEF Board!RSVP
<1> QED
  BY <1>1, <1>2, <1>3, <1>4, <1>5, <1>6, <1>7, <1>8, <1>9 DEF Board!Step

LEMMA BoardTypedStays ==
    ASSUME BoardKept, NEW p \in Board!People, Board!Step(p)
    PROVE  BoardTyped'
<1>1. DOMAIN shown' = Board!People /\ DOMAIN w2' = Board!People
  <2> DEFINE G == DOMAIN shown' = Board!People /\ DOMAIN w2' = Board!People
  <2>0. DOMAIN shown = Board!People /\ DOMAIN w2 = Board!People
    BY DEF BoardKept, BoardTyped
  <2> QED
    BY <2>0 DEF Board!Step, Board!Create, Board!Insert, Board!Announce, Board!Save, Board!Reread, Board!Render,
          Board!Share, Board!Reply, Board!Remove, Board!TellDeleted, Board!SetAnswer,
        Board!Count, Board!TellAnswer, Board!Look, Board!Mark, Board!Hide, Board!Claim, Board!Update,
            Board!Delete, Board!RSVP, Board!Gone, Board!Broadcast
<1>2. \A q \in Board!People : DOMAIN req'[q] = BoardFields
  BY BoardOthersStay DEF BoardKept, BoardTyped
<1>3. \A q \in Board!People : w3'[q] \subseteq plan'.sees[q]
  <2>1. \A q \in Board!People : w3'[q] \subseteq w3[q] /\ w3[q] \subseteq plan.sees[q]
    BY BoardSightGoes DEF BoardKept, BoardTyped
  <2> QED
    BY <2>1, BoardOthersStay DEF BoardKept
<1>4. plan' = plan /\ Board!People' = Board!People /\ DOMAIN req' = Board!People /\
          DOMAIN w3' = Board!People /\ DOMAIN w4' = Board!People
  BY BoardOthersStay, BoardSightGoes DEF BoardKept
<1> QED
  BY <1>1, <1>2, <1>3, <1>4, BoardRowsGo DEF BoardTyped

\* Only a request of q changes the answer of q.
LEMMA BoardOwnGoes ==
    ASSUME BoardKept, NEW p \in Board!People, Board!Step(p), NEW id \in DOMAIN rows \cap DOMAIN rows', NEW q,
           ~(q = p /\ req[p].at = "answer" /\ req[p].id = id)
    PROVE  Board!OwnAnswer(id, q)' = Board!OwnAnswer(id, q)
<1> DEFINE G == Board!OwnAnswer(id, q)' = Board!OwnAnswer(id, q)
<1>0. DOMAIN w1 = DOMAIN rows /\ last \in Nat /\ DOMAIN rows \subseteq 1..last
  BY DEF BoardKept, BoardTyped
<1>a. ASSUME w1' = w1
      PROVE  G
  BY <1>a DEF Board!OwnAnswer
<1>b. ASSUME w1'[id] = w1[id]
      PROVE  G
  BY <1>b DEF Board!OwnAnswer
<1>c. ASSUME NEW k, Board!Gone(k)
      PROVE  G
  <2>1. rows' = [x \in DOMAIN rows \ {k} |-> rows[x]] /\ w1' = [x \in DOMAIN w1 \ {k} |-> w1[x]]
    BY <1>c DEF Board!Gone, Board!Without
  <2>2. w1'[id] = w1[id]
    BY <1>0, <2>1
  <2> QED
    BY <1>b, <2>2
<1>d. CASE Board!Insert(p)
  <2>1. w1' = [x \in DOMAIN w1 \cup {last'} |-> IF x = last' THEN <<>> ELSE w1[x]] /\ last' = last + 1
    BY <1>d DEF Board!Insert, Board!With
  <2>2. w1'[id] = w1[id]
    BY <1>0, <2>1
  <2> QED
    BY <1>b, <2>2
<1>e. CASE Board!SetAnswer(p)
  <2> DEFINE k == req[p].id
             a == req[p].ask
  <2>1. CASE k \notin DOMAIN rows
    BY <1>a, <1>e, <2>1 DEF Board!SetAnswer
  <2>2. CASE k \in DOMAIN rows
    <3>1. w1' = [w1 EXCEPT ![k] = IF a = "none" THEN Board!Without(@, p) ELSE Board!With(@, p, a)] /\
              req[p].at = "answer"
      BY <1>e, <2>2 DEF Board!SetAnswer, Board!At
    <3>2. CASE id # k
      BY <1>0, <1>b, <2>2, <3>1, <3>2
    <3>3. CASE id = k
      <4>1. q # p
        BY <3>1, <3>3
      <4>2. w1'[id] = IF a = "none" THEN Board!Without(w1[id], p) ELSE Board!With(w1[id], p, a)
        BY <1>0, <2>2, <3>1, <3>3
      <4> HIDE DEF a
      <4> QED
        BY <4>1, <4>2 DEF Board!OwnAnswer, Board!With, Board!Without
    <3> QED
      BY <3>2, <3>3
  <2> QED
    BY <2>1, <2>2
<1>f. w1' = w1 \/ Board!Insert(p) \/ Board!SetAnswer(p) \/ \E k : Board!Gone(k)
  BY DEF Board!Step, Board!Create, Board!Announce, Board!Save, Board!Reread, Board!Render, Board!Share, Board!Reply,
        Board!Remove, Board!TellDeleted,
         Board!Count, Board!TellAnswer, Board!Look, Board!Mark, Board!Hide, Board!Claim, Board!Update,
             Board!Delete, Board!RSVP
<1> QED
  BY <1>a, <1>c, <1>d, <1>e, <1>f

LEMMA BoardLookedStays ==
    ASSUME BoardKept, NEW p \in Board!People, Board!Step(p)
    PROVE  BoardLooked'
<1> DEFINE Same(q) == w2'[q] \subseteq DOMAIN rows' /\ \A id \in w2'[q] : rows'[id].channel \in plan.sees[q]
           G == \A q \in Board!People : Same(q)
<1>0. /\ DOMAIN w2 = Board!People /\ BoardLooked /\ last \in Nat /\ DOMAIN rows \subseteq 1..last /\ BoardFits(p,
             req[p])
  BY DEF BoardKept, BoardTyped
<1>1. \A id \in DOMAIN rows \cap DOMAIN rows' : rows'[id].channel = rows[id].channel
  <2>1. \A id \in DOMAIN rows : id # last + 1
    BY <1>0
  <2>2. \A id \in DOMAIN rows' : (id \in DOMAIN rows /\ rows'[id].channel = rows[id].channel) \/ id = last + 1
    BY BoardRowsGo
  <2> QED
    BY <2>1, <2>2
<1>2. ASSUME w2' = w2, DOMAIN rows \subseteq DOMAIN rows'
      PROVE  G
  <2>1. ASSUME NEW q \in Board!People
        PROVE  Same(q)
    BY <1>0, <1>1, <1>2 DEF BoardLooked
  <2> HIDE DEF Same
  <2> QED
    BY <2>1
<1>3. ASSUME NEW k, Board!Gone(k)
      PROVE  G
  <2>1. /\ rows' = [x \in DOMAIN rows \ {k} |-> rows[x]]
        /\ \A q \in Board!People : w2'[q] = w2[q] \ {k}
    BY <1>3 DEF Board!Gone, Board!Without
  <2>2. DOMAIN rows' = DOMAIN rows \ {k}
    BY <2>1
  <2>3. ASSUME NEW q \in Board!People
        PROVE  Same(q)
    BY <1>0, <1>1, <2>1, <2>2 DEF BoardLooked
  <2> HIDE DEF Same
  <2> QED
    BY <2>3
<1>4. ASSUME Board!Mark(p)
      PROVE  G
  <2>1. /\ w2' = [w2 EXCEPT ![p] = @ \cup Board!Marked(req[p].view, req[p].ask)] /\ rows' = rows
        /\ req[p].ask \in plan.sees[p]
    BY <1>0, <1>4 DEF Board!Mark, Board!At, BoardFits
  <2>2. \A id \in Board!Marked(req[p].view, req[p].ask) : id \in DOMAIN rows /\ rows[id].channel = req[p].ask
    BY DEF Board!Marked
  <2>3. ASSUME NEW q \in Board!People
        PROVE  Same(q)
    <3>1. CASE q = p
      BY <1>0, <2>1, <2>2, <3>1 DEF BoardLooked
    <3>2. CASE q # p
      BY <1>0, <2>1, <3>2 DEF BoardLooked
    <3> QED
      BY <3>1, <3>2
  <2> HIDE DEF Same
  <2> QED
    BY <2>3
<1>5. (w2' = w2 /\ DOMAIN rows \subseteq DOMAIN rows') \/ Board!Mark(p) \/ \E k : Board!Gone(k)
  <2>1. CASE Board!Insert(p)
    BY <2>1 DEF Board!Insert, Board!With
  <2>2. CASE Board!Save(p)
    BY <2>2 DEF Board!Save
  <2> QED
    BY <2>1, <2>2 DEF Board!Step, Board!Create, Board!Announce, Board!Reread, Board!Render, Board!Share,
           Board!Reply,
          Board!Remove, Board!TellDeleted, Board!SetAnswer,
        Board!Count, Board!TellAnswer, Board!Look, Board!Hide, Board!Claim, Board!Update, Board!Delete, Board!RSVP
<1> HIDE DEF Same
<1>6. G
  BY <1>2, <1>3, <1>4, <1>5
<1>7. plan' = plan /\ Board!People' = Board!People
  BY BoardOthersStay DEF BoardKept
<1> USE DEF Same
<1> QED
  BY <1>6, <1>7 DEF BoardLooked

\* What somebody else did holds in a request.
LEMMA BoardOthersFit ==
    ASSUME BoardKept, NEW p \in Board!People, Board!Step(p), NEW q \in Board!People \ {p}
    PROVE  BoardFits(q, req[q])'
<1>0. /\ req'[q] = req[q] /\ BoardFits(q, req[q]) /\ plan' = plan /\ Board!People' = Board!People /\ BoardFits(p,
             req[p])
      /\ last \in Nat /\ DOMAIN rows \subseteq 1..last /\ DOMAIN w1 = DOMAIN rows /\ DOMAIN req = Board!People
  BY BoardOthersStay DEF BoardKept, BoardTyped
<1>1. PICK r : r = req[q]
  OBVIOUS
<1>2. /\ last' \in Nat /\ last <= last'
      /\ \A id \in DOMAIN rows' :
           \/ id \in DOMAIN rows /\ rows'[id].by = rows[id].by /\ rows'[id].channel = rows[id].channel
           \/ id = last + 1
  BY BoardRowsGo
<1>3. r.at \in BoardNamed => r.id \in 1..last /\ r.id \in 1..last' /\ r.id # last + 1
  BY <1>0, <1>1, <1>2 DEF BoardFits
<1>a. \A w \in Board!People : w4[w] \subseteq w4'[w]
  BY BoardSightGoes DEF BoardKept
<1>4. ASSUME r.at = "save"
      PROVE  BoardWritten(w4'[r.row.by], r.id, r.row) /\ r.row.by \in Board!People
  <2>1. BoardWritten(w4[r.row.by], r.id, r.row) /\ r.row.by \in Board!People
    BY <1>0, <1>1, <1>4 DEF BoardFits
  <2> QED
    BY <1>a, <2>1 DEF BoardWritten
<1>5. r.at = "save" /\ r.id \in DOMAIN rows' => r.row.by = rows'[r.id].by /\ r.row.channel = rows'[r.id].channel
  BY <1>0, <1>1, <1>2, <1>3 DEF BoardFits, BoardNamed
\* Nobody else answers for q.
<1>6. \A id \in DOMAIN rows \cap DOMAIN rows' : Board!OwnAnswer(id, q)' = Board!OwnAnswer(id, q)
  BY BoardOwnGoes
<1>b. r.at \in {"answer"} \cup BoardGiven /\ r.id \in DOMAIN rows' => r.row.channel = rows'[r.id].channel
  BY <1>0, <1>1, <1>2, <1>3 DEF BoardFits, BoardNamed, BoardGiven
<1>7. r.at \in BoardGiven /\ r.id \in DOMAIN rows' => Board!OwnAnswer(r.id, q)' = r.ask
  BY <1>0, <1>1, <1>2, <1>3, <1>6 DEF BoardFits, BoardNamed, BoardGiven
<1>8. BoardFits(q, r)'
  BY <1>0, <1>1, <1>3, <1>4, <1>5, <1>b, <1>7 DEF BoardFits
<1> QED
  BY <1>0, <1>1, <1>8

LEMMA BoardOneFits ==
    ASSUME BoardKept, NEW p \in Board!People, Board!Step(p)
    PROVE  BoardFits(p, req[p])'
<1> DEFINE G == BoardFits(p, req[p])'
<1>0. /\ DOMAIN req = Board!People /\ DOMAIN req[p] = BoardFields /\ BoardFits(p, req[p]) /\ plan' = plan /\
             Board!People' = Board!People
      /\ last \in Nat /\ DOMAIN rows \subseteq 1..last /\ DOMAIN w1 = DOMAIN rows
      /\ w3[p] \subseteq plan.sees[p]
  BY BoardOthersStay DEF BoardKept, BoardTyped
<1>a. ASSUME req'[p] = Board!Free
      PROVE  G
  <2>1. Board!Free.at = "free"
    BY DEF Board!Free
  <2> QED
    BY <1>a, <2>1 DEF BoardFits, BoardNamed, BoardGiven
\* A stage of which only the number of the post matters.
<1>b. ASSUME req'[p].at \in {"claim", "announce", "reread", "render", "reply", "remove", "tell"},
             req'[p].id \in 1..last'
      PROVE  G
  BY <1>b DEF BoardFits, BoardNamed, BoardGiven
\* One that goes on with the post it names.
<1>c. req[p].at \in BoardNamed => req[p].id \in 1..last
  BY <1>0 DEF BoardFits
<1> SUFFICES G
  OBVIOUS
<1> HIDE DEF G
<1>1. CASE Board!Create(p)
  <2>1. PICK channel \in w3[p], rude \in plan.rude, event \in plan.events :
           req' = [req EXCEPT ![p] = [Board!Free EXCEPT !.at = "insert", !.op = "create",
                                                  !.row = [channel |-> channel, by |-> p,
                                                           title |-> Board!Screened([by |-> p,
                                                               no |-> left["create"], rude |-> rude]),
                                                           event |-> event, locked |-> FALSE, pinned |-> FALSE]]]
    BY <1>1 DEF Board!Create, Board!Ask
  <2> DEFINE row == [channel |-> channel, by |-> p, title |-> Board!Screened([by |-> p, no |-> left["create"],
                 rude |-> rude]),
                     event |-> event, locked |-> FALSE, pinned |-> FALSE]
  <2>3. DOMAIN row = BoardColumns /\ row.by = p
    BY DEF BoardColumns
  <2>4. req' = [req EXCEPT ![p] = [Board!Free EXCEPT !.at = "insert", !.op = "create", !.row = row]]
    BY <2>1
  <2> HIDE DEF row
  <2>2. req'[p].at = "insert" /\ req'[p].row = row
    BY <1>0, <2>4 DEF Board!Free
  <2> QED
    BY <2>2, <2>3 DEF G, BoardFits, BoardNamed, BoardGiven
<1>2. CASE Board!Insert(p)
  <2>1. req'[p].at = "claim" /\ req'[p].id = last' /\ last' = last + 1
    BY <1>0, <1>2 DEF Board!Insert, BoardFields
  <2>2. last' \in 1..last'
    BY <1>0, <2>1
  <2> QED
    BY <1>b, <2>1, <2>2
<1>3. CASE Board!Announce(p)
  <2>1. req'[p] = Board!Free
    BY <1>0, <1>3 DEF Board!Announce, Board!Done
  <2> QED
    BY <1>a, <2>1
<1>4. CASE Board!Save(p)
  <2>1. CASE req' = [req EXCEPT ![p] = Board!Free]
    <3>1. req'[p] = Board!Free
      BY <1>0, <2>1
    <3> QED
      BY <1>a, <3>1
  <2>2. CASE req' = [req EXCEPT ![p].at = "reread"]
    <3>1. req'[p].at = "reread" /\ req'[p].id = req[p].id /\ req[p].at \in BoardNamed /\ last' = last
      BY <1>0, <1>4, <2>2 DEF Board!Save, Board!At, BoardFields, BoardNamed
    <3> QED
      BY <1>b, <1>c, <3>1
  <2> QED
    BY <1>4, <2>1, <2>2 DEF Board!Save, Board!Move, Board!Done
<1>5. CASE Board!Reread(p)
  <2>1. CASE req' = [req EXCEPT ![p] = Board!Free]
    <3>1. req'[p] = Board!Free
      BY <1>0, <2>1
    <3> QED
      BY <1>a, <3>1
  <2>2. CASE req' = [req EXCEPT ![p].at = "render", ![p].row = rows[req[p].id]]
    <3>1. req'[p].at = "render" /\ req'[p].id = req[p].id /\ req[p].at \in BoardNamed /\ last' = last
      BY <1>0, <1>5, <2>2 DEF Board!Reread, Board!At, BoardFields, BoardNamed
    <3> QED
      BY <1>b, <1>c, <3>1
  <2> QED
    BY <1>5, <2>1, <2>2 DEF Board!Reread, Board!Move, Board!Done
<1>6. CASE Board!Render(p)
  <2>1. CASE req' = [req EXCEPT ![p] = Board!Free]
    <3>1. req'[p] = Board!Free
      BY <1>0, <2>1
    <3> QED
      BY <1>a, <3>1
  <2>2. CASE req' = [req EXCEPT ![p].at = "share", ![p].view = Board!Shared(req[p].row, req[p].id, p)]
    <3>1. /\ req'[p].at = "share" /\ req'[p].id = req[p].id /\ req[p].at \in BoardNamed /\ last' = last
          /\ req'[p].view = Board!Shared(req[p].row, req[p].id, p)
      BY <1>0, <1>6, <2>2 DEF Board!Render, Board!At, BoardFields, BoardNamed
    <3>2. DOMAIN Board!Shared(req[p].row, req[p].id, p) = BoardLooks /\ Board!Shared(req[p].row, req[p].id,
              p).own = "none"
      BY DEF Board!Shared, Board!View, BoardLooks
    <3>3. DOMAIN req'[p].view = BoardLooks /\ req'[p].view.own = "none"
      BY <3>1, <3>2
    <3> QED
      BY <1>c, <3>1, <3>3 DEF G, BoardFits, BoardNamed, BoardGiven
  <2> QED
    BY <1>6, <2>1, <2>2 DEF Board!Render, Board!Done
<1>7. CASE Board!Share(p)
  <2>1. req'[p].at = "reply" /\ req'[p].id = req[p].id /\ req[p].at \in BoardNamed /\ last' = last
    BY <1>0, <1>7 DEF Board!Share, Board!At, Board!Move, BoardFields, BoardNamed
  <2> QED
    BY <1>b, <1>c, <2>1
<1>8. CASE Board!Reply(p)
  <2>1. req'[p] = Board!Free
    BY <1>0, <1>8 DEF Board!Reply, Board!Done
  <2> QED
    BY <1>a, <2>1
<1>9. CASE Board!Remove(p)
  <2>1. CASE req' = [req EXCEPT ![p] = Board!Free]
    <3>1. req'[p] = Board!Free
      BY <1>0, <2>1
    <3> QED
      BY <1>a, <3>1
  <2>2. CASE req' = [req EXCEPT ![p].at = "tell"]
    <3>1. req'[p].at = "tell" /\ req'[p].id = req[p].id /\ req[p].at \in BoardNamed /\ last' = last
      BY <1>0, <1>9, <2>2 DEF Board!Remove, Board!At, BoardFields, BoardNamed
    <3> QED
      BY <1>b, <1>c, <3>1
  <2> QED
    BY <1>9, <2>1, <2>2 DEF Board!Remove, Board!Move, Board!Done
<1>10. CASE Board!TellDeleted(p)
  <2>1. req'[p] = Board!Free
    BY <1>0, <1>10 DEF Board!TellDeleted, Board!Done
  <2> QED
    BY <1>a, <2>1
<1>11. CASE Board!SetAnswer(p)
  <2>0. PICK k, a : k = req[p].id /\ a = req[p].ask
    OBVIOUS
  <2>1. CASE req' = [req EXCEPT ![p] = Board!Free]
    <3>1. req'[p] = Board!Free
      BY <1>0, <2>1
    <3> QED
      BY <1>a, <3>1
  <2>2. CASE req' = [req EXCEPT ![p].at = "count"]
    <3>1. /\ req'[p].at = "count" /\ req'[p].id = k /\ req'[p].ask = a /\ req[p].at \in BoardNamed
          /\ last' = last /\ rows' = rows
      BY <1>0, <1>11, <2>0, <2>2 DEF Board!SetAnswer, Board!At, BoardFields, BoardNamed
    <3>2. ASSUME k \in DOMAIN rows
          PROVE  Board!OwnAnswer(k, p)' = a
      <4>1. w1' = [w1 EXCEPT ![k] = IF a = "none" THEN Board!Without(@, p) ELSE Board!With(@, p, a)]
        BY <1>11, <2>0, <3>2 DEF Board!SetAnswer
      <4>2. w1'[k] = IF a = "none" THEN Board!Without(w1[k], p) ELSE Board!With(w1[k], p, a)
        BY <1>0, <3>2, <4>1
      <4>3. Board!OwnAnswer(k, p)' = IF p \in DOMAIN w1'[k] THEN w1'[k][p] ELSE "none"
        BY BoardOwnIs DEF Board!OwnAnswer
      <4>4. CASE a = "none"
        BY <4>2, <4>3, <4>4 DEF Board!Without
      <4>5. CASE a # "none"
        BY <4>2, <4>3, <4>5 DEF Board!With
      <4> QED
        BY <4>4, <4>5
    <3>3. /\ req'[p].row = req[p].row
          /\ k \in DOMAIN rows => req[p].row.channel = rows[k].channel
      BY <1>0, <1>11, <2>0, <2>2 DEF Board!SetAnswer, Board!At, BoardFits, BoardFields
    <3> QED
      BY <1>c, <2>0, <3>1, <3>2, <3>3 DEF G, BoardFits, BoardNamed, BoardGiven
  <2> QED
    BY <1>11, <2>1, <2>2 DEF Board!SetAnswer, Board!Move, Board!Done
<1>12. CASE Board!Count(p)
  <2>1. /\ req'[p].at = "tallied" /\ req'[p].id = req[p].id /\ req'[p].ask = req[p].ask /\ req[p].at = "count"
        /\ last' = last /\ rows' = rows /\ w1' = w1
    BY <1>0, <1>12 DEF Board!Count, Board!At, BoardFields
  <2>2. req[p].id \in 1..last /\ (req[p].id \in DOMAIN rows => Board!OwnAnswer(req[p].id, p) = req[p].ask)
    BY <1>0, <2>1 DEF BoardFits, BoardNamed, BoardGiven
  <2>3. \A id : Board!OwnAnswer(id, p)' = Board!OwnAnswer(id, p)
    BY <2>1 DEF Board!OwnAnswer
  <2>4. /\ req'[p].row = req[p].row
        /\ req[p].id \in DOMAIN rows => req[p].row.channel = rows[req[p].id].channel
    BY <1>0, <1>12 DEF Board!Count, Board!At, BoardFits, BoardFields, BoardGiven
  <2> QED
    BY <2>1, <2>2, <2>3, <2>4 DEF G, BoardFits, BoardNamed, BoardGiven
<1>13. CASE Board!TellAnswer(p)
  <2>1. req'[p] = Board!Free
    BY <1>0, <1>13 DEF Board!TellAnswer, Board!Done
  <2> QED
    BY <1>a, <2>1
<1>14. CASE Board!Look(p)
  <2>1. PICK channel \in w3[p], ids \in SUBSET (1..last) :
           req' = [req EXCEPT ![p] = [Board!Free EXCEPT !.at = "mark", !.op = "view", !.view = ids,
               !.ask = channel]]
    BY <1>14 DEF Board!Look, Board!Ask
  <2>2. req'[p].at = "mark" /\ req'[p].ask = channel
    BY <1>0, <2>1 DEF Board!Free
  <2> QED
    BY <1>0, <2>2 DEF G, BoardFits, BoardNamed, BoardGiven
<1>15. CASE Board!Mark(p)
  <2>1. req'[p] = Board!Free
    BY <1>0, <1>15 DEF Board!Mark, Board!Done
  <2> QED
    BY <1>a, <2>1
<1>16. CASE Board!Hide(p)
  <2>1. /\ req'[p] = req[p] /\ last' = last /\ rows' = rows /\ w4' = w4
        /\ \A id : Board!OwnAnswer(id, p)' = Board!OwnAnswer(id, p)
    BY <1>16 DEF Board!Hide, Board!OwnAnswer
  <2>2. PICK r : r = req[p]
    OBVIOUS
  <2>3. BoardFits(p, r)'
    BY <1>0, <2>1, <2>2 DEF BoardFits
  <2> QED
    BY <2>1, <2>2, <2>3 DEF G
<1>17. ASSUME NEW fails \in BOOLEAN, Board!Claim(p, fails)
      PROVE  G
  <2>1. CASE req' = [req EXCEPT ![p] = Board!Free]
    <3>1. req'[p] = Board!Free
      BY <1>0, <2>1
    <3> QED
      BY <1>a, <3>1
  <2>2. CASE req' = [req EXCEPT ![p].at = "announce"]
    <3>1. req'[p].at = "announce" /\ req'[p].id = req[p].id /\ req[p].at \in BoardNamed /\ last' = last
      BY <1>0, <1>17, <2>2 DEF Board!Claim, Board!At, BoardFields, BoardNamed
    <3> QED
      BY <1>b, <1>c, <3>1
  <2> QED
    BY <1>17, <2>1, <2>2 DEF Board!Claim, Board!Move, Board!Done
<1>18. ASSUME NEW id \in DOMAIN rows, Board!Update(p, id)
      PROVE  G
  <2>1. PICK change \in Board!Changes(p, id) :
           /\ Board!May(p, rows[id], change[1])
           /\ req' = [req EXCEPT ![p] = [Board!Free EXCEPT !.at = "save", !.op = "update", !.id = id,
                                                     !.row = Board!Patched(rows[id], change), !.ask = change]]
           /\ w4' = IF change[1] \in {"title", "event"}
                       THEN [w4 EXCEPT ![p] = @ \cup {<<id, Board!Patched(rows[id], change).title,
                           Board!Patched(rows[id], change).event>>}]
                       ELSE w4
    BY <1>18 DEF Board!Update, Board!Ask
  <2> DEFINE row == Board!Patched(rows[id], change)
  <2>2. rows' = rows /\ last' = last
    BY <1>18 DEF Board!Update
  <2>3. DOMAIN rows[id] = BoardColumns /\ rows[id].by \in Board!People /\ BoardWritten(w4[rows[id].by], id,
            rows[id]) /\ DOMAIN w4 = Board!People
    BY DEF BoardKept, BoardTyped
  <2>4. /\ DOMAIN row = BoardColumns /\ row.by = rows[id].by /\ row.channel = rows[id].channel
        /\ change[1] \notin {"title", "event"} => row.title = rows[id].title /\ row.event = rows[id].event
    BY <2>3 DEF Board!Patched, BoardColumns
  <2>5. change[1] \in {"title", "event"} => rows[id].by = p
    BY <2>1 DEF Board!May
  <2> HIDE DEF row
  <2>6. BoardWritten(w4'[row.by], id, row)
    <3>1. CASE change[1] \in {"title", "event"}
      <4>1. <<id, row.title, row.event>> \in w4'[row.by]
        BY <2>1, <2>3, <2>4, <2>5, <3>1 DEF row
      <4> QED
        BY <4>1 DEF BoardWritten
    <3>2. CASE change[1] \notin {"title", "event"}
      BY <2>1, <2>3, <2>4, <3>2 DEF BoardWritten
    <3> QED
      BY <3>1, <3>2
  <2>7. req'[p].at = "save" /\ req'[p].id = id /\ req'[p].row = row
    BY <1>0, <2>1 DEF Board!Free, row
  <2> QED
    BY <1>0, <2>2, <2>3, <2>4, <2>6, <2>7 DEF G, BoardFits, BoardNamed, BoardGiven
<1>19. ASSUME NEW id \in DOMAIN rows, Board!Delete(p, id)
      PROVE  G
  <2>1. req'[p].at = "remove" /\ req'[p].id = id /\ last' = last
    BY <1>0, <1>19 DEF Board!Delete, Board!Ask, Board!Free
  <2> QED
    BY <1>0, <1>b, <2>1
<1>20. ASSUME NEW id \in DOMAIN rows, NEW a \in Board!Answers \cup {"none"}, Board!RSVP(p, id, a)
      PROVE  G
  <2>1. req'[p].at = "answer" /\ req'[p].id = id /\ req'[p].row = rows[id] /\ last' = last /\ rows' = rows
    BY <1>0, <1>20 DEF Board!RSVP, Board!Ask, Board!Free
  <2> QED
    BY <1>0, <2>1 DEF G, BoardFits, BoardNamed, BoardGiven
<1> QED
  BY <1>1, <1>2, <1>3, <1>4, <1>5, <1>6, <1>7, <1>8, <1>9, <1>10, <1>11, <1>12, <1>13, <1>14, <1>15, <1>16, <1>17,
        <1>18, <1>19, <1>20 DEF Board!Step

LEMMA BoardJoinedIs ==
    ASSUME NEW p \in Board!People, NEW id, NEW view, DOMAIN view = BoardLooks, view.own = "none",
           id \in DOMAIN shown[p] => DOMAIN shown[p][id] = BoardLooks
    PROVE  /\ DOMAIN Board!Joined(p, id, view) = BoardLooks
           /\ Board!Joined(p, id, view).own = IF id \notin DOMAIN shown[p] THEN "none" ELSE shown[p][id].own
<1>1. CASE id \notin DOMAIN shown[p]
  BY <1>1 DEF Board!Joined
<1>2. CASE id \in DOMAIN shown[p]
  <2>1. Board!Joined(p, id, view) = [view EXCEPT !.own = IF @ = "none" THEN shown[p][id].own ELSE @,
            !.viewed = @ \/ shown[p][id].viewed]
    BY <1>2 DEF Board!Joined
  <2>2. "own" \in BoardLooks /\ "viewed" \in BoardLooks /\ "own" # "viewed"
    BY DEF BoardLooks
  <2>3. DOMAIN Board!Joined(p, id, view) = BoardLooks
    BY <2>1
  <2>4. Board!Joined(p, id, view).own = shown[p][id].own
    BY <2>1, <2>2
  <2> QED
    BY <1>2, <2>3, <2>4
<1> QED
  BY <1>1, <1>2

\* Whatever a frame or a reply brings, a client keeps what its user answered.
LEMMA BoardShowingStays ==
    ASSUME BoardKept, NEW p \in Board!People, Board!Step(p), NEW q \in Board!People
    PROVE  BoardShowing(q, shown[q])'
<1> DEFINE Held == req'[q].at \in BoardGiven
           Own(id, own) ==
               id \in DOMAIN rows' /\ rows'[id].channel \in w3'[q] =>
                   own \in {"none", Board!OwnAnswer(id, q)'} \/ (Held /\ req'[q].id = id)
           Fine(c) == DOMAIN c \subseteq 1..last' /\ \A id \in DOMAIN c : DOMAIN c[id] = BoardLooks /\ Own(id,
               c[id].own)
           Calm == q # p \/ req[p].at \notin BoardGiven \/ (req'[p].at \in BoardGiven /\ req'[p].id = req[p].id)
           Answering(id) == q = p /\ req[p].at = "answer" /\ req[p].id = id
           G == BoardShowing(q, shown[q])'
<1>0. /\ DOMAIN req = Board!People /\ DOMAIN req[p] = BoardFields /\ DOMAIN req' = Board!People /\
             Board!People' = Board!People
      /\ last \in Nat /\ last' \in Nat /\ last <= last' /\ DOMAIN rows \subseteq 1..last
      /\ \A x \in Board!People \ {p} : req'[x] = req[x]
      /\ w3'[q] \subseteq w3[q] /\ DOMAIN shown = Board!People
      /\ BoardFits(p, req[p]) /\ BoardShowing(q, shown[q])
  BY BoardOthersStay, BoardSightGoes, BoardRowsGo DEF BoardKept, BoardTyped
<1>1. \A id \in DOMAIN rows' : (id \in DOMAIN rows /\ rows'[id].channel = rows[id].channel) \/ id = last + 1
  BY BoardRowsGo
<1>2. /\ DOMAIN shown[q] \subseteq 1..last /\ DOMAIN shown[q] \subseteq 1..last'
      /\ \A id \in DOMAIN shown[q] : DOMAIN shown[q][id] = BoardLooks /\ id # last + 1
  BY <1>0 DEF BoardShowing
<1>3. ASSUME NEW id \in DOMAIN rows \cap DOMAIN rows', ~Answering(id)
      PROVE  Board!OwnAnswer(id, q)' = Board!OwnAnswer(id, q)
  BY <1>3, BoardOwnGoes
<1>4. ASSUME NEW id \in DOMAIN shown[q], ~Answering(id), Calm
      PROVE  Own(id, shown[q][id].own)
  <2> SUFFICES ASSUME id \in DOMAIN rows', rows'[id].channel \in w3'[q]
               PROVE  shown[q][id].own \in {"none", Board!OwnAnswer(id, q)'} \/ (Held /\ req'[q].id = id)
    OBVIOUS
  <2>1. id \in DOMAIN rows /\ rows[id].channel \in w3[q]
    BY <1>0, <1>1, <1>2
  <2>2. shown[q][id].own \in {"none", Board!OwnAnswer(id, q)} \/ (req[q].at \in BoardGiven /\ req[q].id = id)
    BY <1>0, <2>1 DEF BoardShowing
  <2>3. Board!OwnAnswer(id, q)' = Board!OwnAnswer(id, q)
    BY <1>3, <1>4, <2>1
  <2>4. (req[q].at \in BoardGiven /\ req[q].id = id) => (Held /\ req'[q].id = id)
    BY <1>0, <1>4
  <2> HIDE DEF Held
  <2> QED
    BY <2>2, <2>3, <2>4
<1>5. ASSUME NEW c, c = shown'[q], Fine(c)
      PROVE  G
  <2>1. BoardShowing(q, c)'
    BY <1>5 DEF BoardShowing
  <2> QED
    BY <1>5, <2>1
<1> HIDE DEF Own, Held
<1>a. ASSUME shown'[q] = shown[q], Calm, \A id \in DOMAIN shown[q] : Answering(id) => Own(id, shown[q][id].own)
      PROVE  G
  <2>1. Fine(shown[q])
    BY <1>2, <1>4, <1>a
  <2> QED
    BY <1>5, <1>a, <2>1
<1> SUFFICES G
  OBVIOUS
<1> HIDE DEF Fine, Calm, Answering, G
\* A frame that says nothing of anybody's answer.
<1>b. ASSUME NEW k \in 1..last, NEW view, DOMAIN view = BoardLooks, view.own = "none", Board!Broadcast(k, view),
             req[p].at \notin BoardGiven \cup {"answer"}
      PROVE  G
  <2>1. Calm /\ \A id : ~Answering(id)
    BY <1>b DEF Calm, Answering, BoardGiven
  <2>2. shown'[q] = IF view.channel \in w3[q] THEN Board!With(shown[q], k, Board!Joined(q, k, view)) ELSE shown[q]
    BY <1>b DEF Board!Broadcast
  <2>3. CASE shown'[q] = shown[q]
    BY <1>a, <2>1, <2>3
  <2>4. CASE shown'[q] = Board!With(shown[q], k, Board!Joined(q, k, view))
    <3>1. PICK c, j : c = shown'[q] /\ j = Board!Joined(q, k, view)
      OBVIOUS
    <3>2. c = [x \in DOMAIN shown[q] \cup {k} |-> IF x = k THEN j ELSE shown[q][x]]
      BY <2>4, <3>1 DEF Board!With
    <3>3. k \in DOMAIN shown[q] => DOMAIN shown[q][k] = BoardLooks
      BY <1>2
    <3>4. DOMAIN j = BoardLooks /\ j.own = IF k \notin DOMAIN shown[q] THEN "none" ELSE shown[q][k].own
      BY <1>b, <3>1, <3>3, BoardJoinedIs
    <3>5. Own(k, j.own)
      <4>1. CASE k \in DOMAIN shown[q]
        BY <1>4, <2>1, <3>4, <4>1
      <4>2. CASE k \notin DOMAIN shown[q]
        BY <3>4, <4>2 DEF Own
      <4> QED
        BY <4>1, <4>2
    <3>6. DOMAIN c = DOMAIN shown[q] \cup {k} /\ c[k] = j /\ \A id \in DOMAIN shown[q] \ {k} : c[id] = shown[q][id]
      BY <3>2
    <3>7. k \in 1..last'
      BY <1>0
    <3>8. \A id \in DOMAIN c : DOMAIN c[id] = BoardLooks /\ Own(id, c[id].own)
      BY <1>2, <1>4, <2>1, <3>4, <3>5, <3>6
    <3>9. DOMAIN c \subseteq 1..last'
      BY <1>2, <3>6, <3>7
    <3> QED
      BY <1>5, <3>1, <3>8, <3>9 DEF Fine
  <2> QED
    BY <2>2, <2>3, <2>4
<1>c. ASSUME shown' = shown, q # p \/ req[p].at \notin BoardGiven \cup {"answer"}
      PROVE  G
  <2>1. Calm /\ \A id : ~Answering(id)
    BY <1>c DEF Calm, Answering
  <2> QED
    BY <1>a, <1>c, <2>1
<1>6. CASE Board!Create(p) \/ Board!Insert(p) \/ Board!Save(p) \/ Board!Reread(p) \/ Board!Render(p) \/
               Board!Remove(p) \/ Board!Look(p) \/ Board!Mark(p)
  <2>1. shown' = shown
    BY <1>6 DEF Board!Create, Board!Insert, Board!Save, Board!Reread, Board!Render, Board!Remove, Board!Look,
          Board!Mark
  <2>2. req[p].at \in {"free", "insert", "save", "reread", "render", "remove", "mark"}
    BY <1>6 DEF Board!Create, Board!Insert, Board!Save, Board!Reread, Board!Render, Board!Remove, Board!Look,
          Board!Mark, Board!Ask, Board!At
  <2> QED
    BY <1>c, <2>1, <2>2 DEF BoardGiven
<1>7. ASSUME NEW fails \in BOOLEAN, Board!Claim(p, fails)
      PROVE  G
  BY <1>c, <1>7 DEF Board!Claim, Board!At, BoardGiven
<1>8. ASSUME NEW id \in DOMAIN rows, Board!Update(p, id) \/ Board!Delete(p, id) \/
                 \E a \in Board!Answers \cup {"none"} : Board!RSVP(p, id, a)
      PROVE  G
  <2>1. shown' = shown /\ req[p].at = "free"
    BY <1>8 DEF Board!Update, Board!Delete, Board!RSVP, Board!Ask, Board!At
  <2> QED
    BY <1>c, <2>1 DEF BoardGiven
<1>9. CASE Board!Hide(p)
  <2>1. shown' = shown /\ req' = req /\ rows' = rows /\ w1' = w1
    BY <1>9 DEF Board!Hide
  <2>2. Calm
    BY <2>1 DEF Calm
  <2>3. ASSUME NEW id \in DOMAIN shown[q], Answering(id)
        PROVE  Own(id, shown[q][id].own)
    <3> SUFFICES ASSUME id \in DOMAIN rows', rows'[id].channel \in w3'[q]
                 PROVE  shown[q][id].own \in {"none", Board!OwnAnswer(id, q)'}
      BY DEF Own
    <3>1. id \in DOMAIN rows /\ rows[id].channel \in w3[q]
      BY <1>0, <2>1
    <3>2. shown[q][id].own \in {"none", Board!OwnAnswer(id, q)}
      BY <1>0, <2>3, <3>1 DEF BoardShowing, Answering, BoardGiven
    <3> QED
      BY <2>1, <3>2 DEF Board!OwnAnswer
  <2> QED
    BY <1>a, <2>1, <2>2, <2>3
<1>10. CASE Board!SetAnswer(p)
  <2>1. shown' = shown /\ rows' = rows /\ req[p].at = "answer" /\ req[p].at \notin BoardGiven
    BY <1>10 DEF Board!SetAnswer, Board!At, BoardGiven
  <2>2. Calm
    BY <2>1 DEF Calm
  <2>3. ASSUME NEW id \in DOMAIN shown[q], Answering(id)
        PROVE  Own(id, shown[q][id].own)
    <3>1. CASE id \notin DOMAIN rows
      BY <2>1, <3>1 DEF Own
    <3>2. CASE id \in DOMAIN rows
      <4>1. q = p /\ req[p].id = id /\ req' = [req EXCEPT ![p].at = "count"]
        BY <1>10, <2>3, <3>2 DEF Answering, Board!SetAnswer, Board!Move
      <4>2. req'[q].at = "count" /\ req'[q].id = id
        BY <1>0, <4>1 DEF BoardFields
      <4> QED
        BY <4>2 DEF Own, Held, BoardGiven
    <3> QED
      BY <3>1, <3>2
  <2> QED
    BY <1>a, <2>1, <2>2, <2>3
<1>11. CASE Board!Count(p)
  <2>1. /\ shown' = shown /\ req[p].at = "count" /\ req'[p].at = "tallied" /\ req'[p].id = req[p].id
    BY <1>0, <1>11 DEF Board!Count, Board!At, BoardFields
  <2>2. Calm /\ \A id : ~Answering(id)
    BY <2>1 DEF Calm, Answering, BoardGiven
  <2> QED
    BY <1>a, <2>1, <2>2
<1>12. CASE Board!Announce(p)
  <2>1. PICK k, view : k = req[p].id /\ view = Board!View(req[p].row, [a \in Board!Answers |-> 0], "none", FALSE)
    OBVIOUS
  <2>2. DOMAIN view = BoardLooks /\ view.own = "none"
    BY <2>1 DEF Board!View, BoardLooks
  <2>3. Board!Broadcast(k, view) /\ req[p].at = "announce"
    BY <1>12, <2>1 DEF Board!Announce, Board!At
  <2>4. k \in 1..last
    BY <1>0, <2>1, <2>3 DEF BoardFits, BoardNamed
  <2>5. req[p].at \notin BoardGiven \cup {"answer"}
    BY <2>3 DEF BoardGiven
  <2> QED
    BY <1>b, <2>2, <2>3, <2>4, <2>5
<1>13. CASE Board!Share(p)
  <2>1. PICK k, view : k = req[p].id /\ view = req[p].view
    OBVIOUS
  <2>3. Board!Broadcast(k, view) /\ req[p].at = "share"
    BY <1>13, <2>1 DEF Board!Share, Board!At
  <2>2. DOMAIN view = BoardLooks /\ view.own = "none"
    BY <1>0, <2>1, <2>3 DEF BoardFits
  <2>4. k \in 1..last
    BY <1>0, <2>1, <2>3 DEF BoardFits, BoardNamed
  <2>5. req[p].at \notin BoardGiven \cup {"answer"}
    BY <2>3 DEF BoardGiven
  <2> QED
    BY <1>b, <2>2, <2>3, <2>4, <2>5
<1>14. CASE Board!Reply(p)
  <2>1. PICK k, view : k = req[p].id /\ view = Board!Mine(req[p].row, req[p].id, p)
    OBVIOUS
  <2>2. DOMAIN view = BoardLooks /\ view.own = Board!OwnAnswer(k, p)
    BY <2>1 DEF Board!Mine, Board!View, BoardLooks
  <2>3. /\ req[p].at = "reply" /\ w1' = w1
        /\ shown' = IF k \notin DOMAIN rows THEN shown ELSE [shown EXCEPT ![p] = Board!With(@, k, view)]
    BY <1>14, <2>1 DEF Board!Reply, Board!At
  <2>4. k \in 1..last /\ k \in 1..last'
    BY <1>0, <2>1, <2>3 DEF BoardFits, BoardNamed
  <2>5. Calm /\ \A id : ~Answering(id)
    BY <2>3 DEF Calm, Answering, BoardGiven
  <2>6. CASE shown'[q] = shown[q]
    BY <1>a, <2>5, <2>6
  <2>7. CASE q = p /\ shown'[q] = Board!With(shown[q], k, view)
    <3>1. PICK c : c = shown'[q]
      OBVIOUS
    <3>2. c = [x \in DOMAIN shown[q] \cup {k} |-> IF x = k THEN view ELSE shown[q][x]]
      BY <2>7, <3>1 DEF Board!With
    <3>3. DOMAIN c = DOMAIN shown[q] \cup {k} /\ c[k] = view /\ \A id \in DOMAIN shown[q] \ {k} :
              c[id] = shown[q][id]
      BY <3>2
    <3>4. Own(k, view.own)
      BY <2>2, <2>3, <2>7 DEF Own, Board!OwnAnswer
    <3>5. \A id \in DOMAIN c : DOMAIN c[id] = BoardLooks /\ Own(id, c[id].own)
      BY <1>2, <1>4, <2>2, <2>5, <3>3, <3>4
    <3>6. DOMAIN c \subseteq 1..last'
      BY <1>2, <2>4, <3>3
    <3> QED
      BY <1>5, <3>1, <3>5, <3>6 DEF Fine
  <2>8. shown'[q] = shown[q] \/ (q = p /\ shown'[q] = Board!With(shown[q], k, view))
    BY <1>0, <2>3
  <2> QED
    BY <2>6, <2>7, <2>8
<1>15. CASE Board!TellDeleted(p)
  <2>1. PICK k : k = req[p].id
    OBVIOUS
  <2>2. /\ req[p].at = "tell"
        /\ shown'[q] = IF req[p].row.channel \in w3[q] THEN Board!Without(shown[q], k) ELSE shown[q]
    BY <1>15, <2>1 DEF Board!TellDeleted, Board!At
  <2>3. Calm /\ \A id : ~Answering(id)
    BY <2>2 DEF Calm, Answering, BoardGiven
  <2>4. CASE shown'[q] = shown[q]
    BY <1>a, <2>3, <2>4
  <2>5. CASE shown'[q] = Board!Without(shown[q], k)
    <3>1. PICK c : c = shown'[q]
      OBVIOUS
    <3>2. c = [x \in DOMAIN shown[q] \ {k} |-> shown[q][x]]
      BY <2>5, <3>1 DEF Board!Without
    <3>3. DOMAIN c = DOMAIN shown[q] \ {k} /\ \A id \in DOMAIN c : c[id] = shown[q][id]
      BY <3>2
    <3>4. \A id \in DOMAIN c : DOMAIN c[id] = BoardLooks /\ Own(id, c[id].own)
      BY <1>2, <1>4, <2>3, <3>3
    <3>5. DOMAIN c \subseteq 1..last'
      BY <1>2, <3>3
    <3> QED
      BY <1>5, <3>1, <3>4, <3>5 DEF Fine
  <2> QED
    BY <2>2, <2>4, <2>5
<1>16. CASE Board!TellAnswer(p)
  <2>1. PICK k, ask, tally : k = req[p].id /\ ask = req[p].ask /\ tally = req[p].view
    OBVIOUS
  <2>2. PICK hear : hear = {x \in Board!People : req[p].row.channel \in w3[x] /\ k \in DOMAIN shown[x]}
    OBVIOUS
  <2>3. /\ req[p].at = "tallied" /\ rows' = rows /\ w1' = w1 /\ w3' = w3
        /\ shown'[q] = IF q \notin hear THEN shown[q]
                       ELSE [shown[q] EXCEPT ![k].tally = tally, ![k].own = IF q = p THEN ask ELSE @]
    BY <1>16, <2>1, <2>2 DEF Board!TellAnswer, Board!At
  <2>4. \A id : Board!OwnAnswer(id, q)' = Board!OwnAnswer(id, q)
    BY <2>3 DEF Board!OwnAnswer
  <2>5. k \in DOMAIN rows => req[p].row.channel = rows[k].channel /\ Board!OwnAnswer(k, p) = ask
    BY <1>0, <2>1, <2>3 DEF BoardFits, BoardGiven
  \* What p shows of its own answer is what it was told; the others know no better than before.
  <2>6. ASSUME NEW id \in DOMAIN shown[q], q # p \/ id # k
        PROVE  Own(id, shown[q][id].own)
    <3> SUFFICES ASSUME id \in DOMAIN rows', rows'[id].channel \in w3'[q]
                 PROVE  shown[q][id].own \in {"none", Board!OwnAnswer(id, q)'} \/ (Held /\ req'[q].id = id)
      BY DEF Own
    <3>1. shown[q][id].own \in {"none", Board!OwnAnswer(id, q)} \/ (req[q].at \in BoardGiven /\ req[q].id = id)
      BY <1>0, <2>3 DEF BoardShowing
    <3>2. (req[q].at \in BoardGiven /\ req[q].id = id) => (Held /\ req'[q].id = id)
      BY <1>0, <2>1, <2>6 DEF Held
    <3> QED
      BY <2>4, <3>1, <3>2
  <2>7. Own(k, ask) \/ q # p
    BY <2>3, <2>4, <2>5 DEF Own
  <2>8. CASE q \notin hear
    <3>1. \A id \in DOMAIN shown[q] : Own(id, shown[q][id].own)
      <4> TAKE id \in DOMAIN shown[q]
      <4>1. CASE q # p \/ id # k
        BY <2>6, <4>1
      <4>2. CASE q = p /\ id = k
        BY <2>2, <2>3, <2>5, <2>8, <4>2 DEF Own
      <4> QED
        BY <4>1, <4>2
    <3>2. Fine(shown[q])
      BY <1>2, <3>1 DEF Fine
    <3> QED
      BY <1>5, <2>3, <2>8, <3>2
  <2>9. CASE q \in hear
    <3>1. PICK c : c = shown'[q]
      OBVIOUS
    <3>2. k \in DOMAIN shown[q] /\ c = [shown[q] EXCEPT ![k].tally = tally, ![k].own = IF q = p THEN ask ELSE @]
      BY <2>2, <2>3, <2>9, <3>1
    <3>3. DOMAIN shown[q][k] = BoardLooks /\ "own" \in BoardLooks /\ "tally" # "own"
      BY <1>2, <3>2 DEF BoardLooks
    <3>4. /\ DOMAIN c = DOMAIN shown[q] /\ \A id \in DOMAIN shown[q] \ {k} : c[id] = shown[q][id]
          /\ DOMAIN c[k] = BoardLooks /\ c[k].own = IF q = p THEN ask ELSE shown[q][k].own
      BY <3>2, <3>3
    <3>5. Own(k, c[k].own)
      BY <2>6, <2>7, <3>2, <3>4
    <3>6. \A id \in DOMAIN c : DOMAIN c[id] = BoardLooks /\ Own(id, c[id].own)
      BY <1>2, <2>6, <3>4, <3>5
    <3>7. DOMAIN c \subseteq 1..last'
      BY <1>2, <3>4
    <3> QED
      BY <1>5, <3>1, <3>6, <3>7 DEF Fine
  <2> QED
    BY <2>8, <2>9
<1> QED
  BY <1>6, <1>7, <1>8, <1>9, <1>10, <1>11, <1>12, <1>13, <1>14, <1>15, <1>16 DEF Board!Step

LEMMA BoardKeptStays ==
    ASSUME BoardKept, [Board!Next]_(Board!vars)
    PROVE  BoardKept'
<1>1. ASSUME NEW p \in Board!People, Board!Step(p)
      PROVE  BoardKept'
  <2>1. \A q \in Board!People : BoardFits(q, req[q])'
    BY <1>1, BoardOneFits, BoardOthersFit
  <2>2. \A q \in Board!People : BoardShowing(q, shown[q])'
    BY <1>1, BoardShowingStays
  <2>3. Board!People' = Board!People
    BY <1>1, BoardOthersStay DEF BoardKept
  <2> QED
    BY <1>1, <2>1, <2>2, <2>3, BoardTypedStays, BoardLookedStays DEF BoardKept
<1>2. ASSUME UNCHANGED Board!vars
      PROVE  BoardKept'
  <2>1. BoardTyped' /\ BoardLooked' /\ Board!People' = Board!People
    BY <1>2 DEF Board!vars, BoardKept, BoardTyped, BoardLooked, Board!People, BoardWritten
  <2>2. \A p \in Board!People : BoardFits(p, req[p])' /\ BoardShowing(p, shown[p])'
    BY <1>2 DEF Board!vars, BoardKept, BoardFits, BoardShowing, Board!OwnAnswer, BoardWritten, Board!People
  <2> QED
    BY <2>1, <2>2 DEF BoardKept
<1> QED
  BY <1>1, <1>2 DEF Board!Next

LEMMA BoardKeptShows ==
    ASSUME BoardKept
    PROVE  Board!TypeOK /\ Board!OwnIsYours /\ Board!WordsAreTheAuthors /\ Board!LookedWhereSeen
<1>1. Board!TypeOK
  BY DEF BoardKept, BoardTyped, BoardLooked, BoardShowing, Board!TypeOK
<1>2. Board!WordsAreTheAuthors
  BY DEF BoardKept, BoardTyped, BoardWritten, Board!WordsAreTheAuthors
<1>3. Board!LookedWhereSeen
  BY DEF BoardKept, BoardLooked, Board!LookedWhereSeen
<1>4. Board!OwnIsYours
  BY DEF BoardKept, BoardShowing, Board!At, Board!OwnIsYours, BoardGiven
<1> QED
  BY <1>1, <1>2, <1>3, <1>4
---------------------------------------------------------------------------
(* Markers.  w2 is the marker of the member, w3 those its clients are      *)
(* about to write.                                                         *)

LEMMA PagesCounts == \A S : Pages!Cardinality(S) = Cardinality(S) /\ Pages!IsFiniteSet(S) = IsFiniteSet(S)
  BY DEF Pages!Cardinality, Cardinality, Pages!IsFiniteSet, IsFiniteSet

\* A marker is at a line that was written, and so is one that is yet to be stored.
PagesKept ==
    /\ last \in Nat /\ DOMAIN rows \subseteq 1..last /\ rows = [id \in DOMAIN rows |-> rows[id]]
    /\ plan.epoch \in 0..last /\ w2 \in 0..last
    /\ DOMAIN w3 = plan.clients /\ \A c \in plan.clients : w3[c] \in 0..last

LEMMA PagesKeptFirst ==
    ASSUME Pages!PlansFit, Pages!Init
    PROVE  PagesKept
<1>1. Pages!Cardinality(DOMAIN plan.rows) \in Nat
  BY FS_CardinalityType, PagesCounts DEF Pages!PlansFit, Pages!Init
<1>2. DOMAIN plan.rows = 1..Pages!Cardinality(DOMAIN plan.rows) /\
          plan.epoch \in 0..Pages!Cardinality(DOMAIN plan.rows)
  BY DEF Pages!PlansFit, Pages!Init
<1>3. rows = [id \in DOMAIN rows |-> rows[id]]
  BY DEF Pages!PlansFit, Pages!Init
<1> QED
  BY <1>1, <1>2, <1>3 DEF Pages!Init, PagesKept

LEMMA PagesEffectiveIs ==
    ASSUME PagesKept
    PROVE  Pages!Effective \in 0..last /\ w2 <= Pages!Effective
BY DEF PagesKept, Pages!Effective

\* Of the markers only what a client named, what was newest and what a member wrote comes in.
LEMMA PagesGoes ==
    ASSUME PagesKept, Pages!Next
    PROVE  PagesKept' /\ Pages!Effective <= Pages!Effective' /\ plan' = plan
<1> DEFINE G == PagesKept' /\ Pages!Effective <= Pages!Effective' /\ plan' = plan
<1>0. Pages!Effective \in 0..last /\ w2 <= Pages!Effective /\ last \in Nat
  BY PagesEffectiveIs DEF PagesKept
<1>a. ASSUME plan' = plan, w2' = w2, w3' = w3, last' = last, DOMAIN rows' \subseteq DOMAIN rows,
             rows' = [id \in DOMAIN rows' |-> rows'[id]]
      PROVE  G
  BY <1>0, <1>a DEF PagesKept, Pages!Effective
<1>b. rows = [id \in DOMAIN rows |-> rows[id]]
  BY DEF PagesKept
<1>1. CASE Pages!Asking \/ Pages!ReadNewer \/ Pages!ProbeBefore \/ Pages!ProbeAfter \/ Pages!Answer \/
               Pages!Count \/ Pages!ReadHits \/ Pages!Render
  BY <1>a, <1>b, <1>1 DEF Pages!Asking, Pages!Ask, Pages!ReadNewer, Pages!ProbeBefore, Pages!ProbeAfter,
        Pages!Answer, Pages!Count, Pages!ReadHits, Pages!Render
<1>2. ASSUME NEW id \in DOMAIN rows, Pages!Remove(id)
      PROVE  G
  <2>1. rows' = [x \in DOMAIN rows \ {id} |-> rows[x]]
    BY <1>2 DEF Pages!Remove
  <2>2. DOMAIN rows' \subseteq DOMAIN rows /\ rows' = [x \in DOMAIN rows' |-> rows'[x]]
    BY <2>1
  <2> QED
    BY <1>a, <1>2, <2>2 DEF Pages!Remove
<1>3. ASSUME NEW line \in plan.lines, Pages!Write(line)
      PROVE  G
  <2>1. /\ plan' = plan /\ last' = last + 1 /\ w3' = w3 /\ w2' \in {w2, last'}
        /\ DOMAIN rows' = DOMAIN rows \cup {last'} /\ rows' = [id \in DOMAIN rows' |-> rows'[id]]
    BY <1>3 DEF Pages!Write
  <2>2. last' \in Nat /\ last' \in 1..last' /\ (\A n \in 1..last : n \in 1..last') /\ \A n \in 0..last :
            n \in 0..last'
    BY <1>0, <2>1
  <2>3. PagesKept'
    BY <2>1, <2>2 DEF PagesKept
  <2>4. Pages!Effective <= Pages!Effective'
    BY <1>0, <2>1 DEF PagesKept, Pages!Effective
  <2> QED
    BY <2>1, <2>3, <2>4
<1>4. ASSUME NEW c \in plan.clients, Pages!Mark(c)
      PROVE  G
  <2>1. plan' = plan /\ last' = last /\ rows' = rows /\ w2' = Pages!Marked(w3[c]) /\ w3' = [w3 EXCEPT ![c] = 0]
    BY <1>4 DEF Pages!Mark
  <2>2. Pages!Marked(w3[c]) \in 0..last /\ Pages!Effective <= Pages!Marked(w3[c])
    BY <1>0 DEF PagesKept, Pages!Marked
  <2>3. PagesKept'
    BY <1>0, <2>1, <2>2 DEF PagesKept
  <2>4. Pages!Effective <= Pages!Effective'
    BY <1>0, <2>1, <2>2 DEF PagesKept, Pages!Effective
  <2> QED
    BY <2>1, <2>3, <2>4
<1>5. ASSUME NEW c \in plan.clients, NEW id \in 0..last, Pages!ReadUpTo(c, id)
      PROVE  G
  <2>1. /\ plan' = plan /\ last' = last /\ rows' = rows /\ w2' = w2
        /\ w3' = [w3 EXCEPT ![c] = IF id # 0 THEN id ELSE IF rows = <<>> THEN 0 ELSE Pages!Highest(DOMAIN rows)]
    BY <1>5 DEF Pages!ReadUpTo
  <2>2. (IF rows = <<>> THEN 0 ELSE Pages!Highest(DOMAIN rows)) \in 0..last
    <3>1. CASE rows = <<>>
      BY <1>0, <3>1
    <3>2. CASE rows # <<>> /\ DOMAIN rows # {}
      <4>a. DOMAIN rows \subseteq 0..last
        BY <1>0 DEF PagesKept
      <4>1. PICK n \in DOMAIN rows : \A m \in DOMAIN rows : m <= n
        BY <1>0, <3>2, <4>a, GreatestIs
      <4>2. Pages!Highest(DOMAIN rows) \in DOMAIN rows
        BY <4>1 DEF Pages!Highest
      <4> QED
        BY <3>2, <4>2 DEF PagesKept
    <3>3. rows # <<>> => DOMAIN rows # {}
      <4>1. ASSUME DOMAIN rows = {}
            PROVE  rows = <<>>
        BY <1>b, <4>1
      <4> QED
        BY <4>1
    <3> QED
      BY <3>1, <3>2, <3>3
  <2>3. PagesKept'
    BY <1>0, <2>1, <2>2 DEF PagesKept
  <2>4. Pages!Effective <= Pages!Effective'
    BY <1>0, <2>1 DEF PagesKept, Pages!Effective
  <2> QED
    BY <2>1, <2>3, <2>4
<1> QED
  BY <1>1, <1>2, <1>3, <1>4, <1>5 DEF Pages!Next

LEMMA PagesKeptStays ==
    ASSUME PagesKept, [Pages!Next]_(Pages!vars)
    PROVE  PagesKept'
<1>1. CASE Pages!Next
  BY <1>1, PagesGoes
<1>2. CASE UNCHANGED Pages!vars
  BY <1>2 DEF PagesKept, Pages!vars
<1> QED
  BY <1>1, <1>2

LEMMA PagesNothingComesBack ==
    ASSUME PagesKept, [Pages!Next]_(Pages!vars)
    PROVE  Pages!NothingReturns
<1>1. Pages!Effective <= Pages!Effective' /\ Pages!Effective \in Nat /\ Pages!Effective' \in Nat
  <2>1. CASE Pages!Next
    BY <2>1, PagesGoes, PagesEffectiveIs DEF PagesKept, Pages!Effective
  <2>2. CASE UNCHANGED Pages!vars
    BY <2>2, PagesEffectiveIs DEF Pages!vars, Pages!Effective, PagesKept
  <2> QED
    BY <2>1, <2>2
<1>2. DOMAIN rows \subseteq Nat
  BY DEF PagesKept
<1> QED
  BY <1>1, <1>2 DEF Pages!NothingReturns, Pages!Unread

---------------------------------------------------------------------------
(* Pages.  shown is what the client holds, w1 what came in while it waits,   *)
(* req the page on its way, w4 the walk through a search.                    *)
(*                                                                           *)
(* A line the client does not hold is below everything it pages from, and it *)
(* has been told of more, or above all of that (PagesCover).  A page on its  *)
(* way leaves lines out only below itself (PagesBehind) or above itself      *)
(* (PagesAhead), and what was written since it was asked for is in w1.       *)

PagesUnder(id, S) == \A x \in S : id < x
PagesOver(id, S) == \A x \in S : x < id
PagesCursors == {id \in shown.held : id \notin shown.pinned}

\* The body of a thread comes before its comments, and is the one it started with.
PagesRooted ==
    plan.kind = "comments" =>
        \A b \in DOMAIN rows : rows[b].body =>
            rows[b].thread = plan.thread /\ \A id \in DOMAIN rows : rows[id].thread = plan.thread => b <= id
PagesLines ==
    /\ DOMAIN shown = {"held", "pinned", "more", "after"} /\ shown.held \subseteq 1..last
    /\ DOMAIN req = {"at", "way", "from", "page", "more", "after"}
    /\ req.at \in {"idle", "half", "read", "probed", "answer"} /\ req.way \in {"open", "back", "forth", "jump"}
    /\ req.from \in 0..last /\ req.page \subseteq 1..last
    /\ w1 \subseteq Pages!Lines /\ (~shown.after => w1 \subseteq shown.held)
    /\ plan.kind = "lines" => shown.pinned = {}
    /\ plan.kind # "lines" => req.way \in {"open", "back"} /\ ~req.after
    /\ req.at = "half" => req.way = "jump"
    /\ req.at # "idle" => \A x \in w1 : req.from < x

PagesCover ==
    \A id \in Pages!Lines \ shown.held :
        \/ shown.more /\ PagesUnder(id, PagesCursors)
        \/ shown.after /\ PagesOver(id, PagesCursors)

PagesBehind(id) ==
    req.page # {} /\ PagesUnder(id, req.page) /\ (req.at \in {"probed", "answer"} => req.more)
PagesAhead(id) ==
    /\ PagesOver(id, req.page)
    /\ id \in w1 \/ (req.page # {} /\ (req.at = "answer" => req.after))

PagesOpened == (\A x \in w1 : PagesOver(x, req.page)) /\ \A id \in Pages!Lines \ req.page : id \in w1 \/ PagesBehind(id)
PagesJumped ==
    /\ req.at = "half" => \A x \in req.page : x <= req.from
    /\ \A id \in Pages!Lines \ req.page :
        /\ id <= req.from => PagesBehind(id)
        /\ id > req.from /\ req.at # "half" => PagesAhead(id)
PagesBack ==
    /\ \A x \in PagesCursors : req.from <= x
    /\ \A x \in req.page : x < req.from
    /\ \A id \in Pages!Lines \ shown.held : id < req.from \/ (shown.after /\ PagesOver(id, PagesCursors))
    /\ \A id \in Pages!Lines \ req.page : id < req.from => PagesBehind(id)
PagesForth ==
    /\ shown.after /\ (\A x \in PagesCursors : x <= req.from)
    /\ \A x \in req.page : req.from < x
    /\ \A id \in Pages!Lines \ shown.held : id <= req.from => shown.more /\ PagesUnder(id, PagesCursors)
    /\ \A id \in Pages!Lines \ req.page : id > req.from => PagesAhead(id)
PagesComing ==
    req.at # "idle" =>
        /\ req.way = "open" => PagesOpened
        /\ req.way = "jump" => PagesJumped
        /\ req.way = "back" => PagesBack
        /\ req.way = "forth" => PagesForth

\* A search.  Where it may be missed by nobody, what is owed keeps its place until it is listed.
PagesSteady == w4.calm \/ (plan.sort = "oldest" /\ plan.left["remove"] = 0)
PagesWalked ==
    /\ DOMAIN w4 = {"at", "off", "total", "page", "listed", "near", "owed", "calm"}
    /\ w4.at \in {"idle", "counted", "read", "more", "done"} /\ w4.off \in Nat /\ w4.total \in Nat
    /\ w4.page \cup w4.listed \cup w4.near \subseteq 1..last
    /\ "remove" \in DOMAIN left /\ (plan.left["remove"] = 0 => left["remove"] = 0)
    /\ \A id \in DOMAIN rows : rows[id].hit \in Nat
    /\ w4.owed \subseteq Pages!Found /\ (w4.at = "idle" => w4.off = 0)
    /\ PagesSteady /\ w4.at # "idle" => \A id \in w4.owed \ w4.listed :
        /\ w4.at # "done"
        /\ w4.at \in {"counted", "more"} => Pages!Place(id) >= w4.off
        /\ w4.at = "read" => id \in w4.page \/ Pages!Place(id) >= w4.off + Limit
        /\ w4.at \in {"counted", "read"} => Pages!Place(id) < w4.total

PagesPlanned ==
    /\ Limit \in Nat \ {0} /\ (plan.kind # "lines" => plan.ways \subseteq {"open", "back"})
    /\ plan.ways \subseteq {"open", "back", "forth", "jump"}
    /\ \A l \in plan.lines : l.hit \in Nat /\ ~l.body
PagesJoined == PagesPlanned /\ PagesRooted /\ PagesLines /\ PagesCover /\ PagesComing /\ PagesWalked

LEMMA PagesFinite ==
    ASSUME NEW n \in Nat, NEW S, S \subseteq 1..n
    PROVE  IsFiniteSet(S) /\ Pages!Cardinality(S) \in Nat /\ \A T : T \subseteq S => Pages!Cardinality(T) \in Nat /\ Pages!Cardinality(T) <= Pages!Cardinality(S)
<1>1. IsFiniteSet(1..n)
  BY FS_Interval
<1>2. IsFiniteSet(S)
  BY <1>1, FS_Subset
<1>3. \A T : T \subseteq S => IsFiniteSet(T) /\ Cardinality(T) <= Cardinality(S)
  BY <1>2, FS_Subset
<1> QED
  BY <1>2, <1>3, FS_CardinalityType, PagesCounts

LEMMA PagesLowestIs ==
    ASSUME NEW n \in Nat, NEW S, S \subseteq 1..n, S # {}
    PROVE  Pages!Lowest(S) \in S /\ \A y \in S : Pages!Lowest(S) <= y
<1>1. \A k \in S : k \in Int
  OBVIOUS
<1>2. IsFiniteSet(S)
  BY PagesFinite
<1>3. \E x \in S : \A y \in S : x <= y
  BY <1>1, <1>2, LeastIs
<1> QED
  BY <1>3 DEF Pages!Lowest

LEMMA PagesHighestIs ==
    ASSUME NEW n \in Nat, NEW S, S \subseteq 1..n, S # {}
    PROVE  Pages!Highest(S) \in S /\ \A y \in S : y <= Pages!Highest(S)
<1>1. S \subseteq 0..n
  OBVIOUS
<1>2. \E x \in S : \A y \in S : y <= x
  BY <1>1, GreatestIs
<1> QED
  BY <1>2 DEF Pages!Highest

PagesHigher(S, x) == {y \in S : y > x}
PagesLower(S, x) == {y \in S : y < x}

LEMMA PagesHigherIs ==
    ASSUME NEW S, \A z \in S : z \in Int, NEW x \in Int, NEW y \in Int
    PROVE  /\ y <= x => PagesHigher(S, x) \subseteq PagesHigher(S, y)
           /\ x <= y => PagesLower(S, x) \subseteq PagesLower(S, y)
           /\ (\A z \in S : z <= x) => PagesHigher(S, x) = {}
           /\ (\A z \in S : x <= z) => PagesLower(S, x) = {}
<1>1. ASSUME NEW z \in S
      PROVE  /\ z > x /\ y <= x => z > y
             /\ z < x /\ x <= y => z < y
             /\ z <= x => ~(z > x)
             /\ x <= z => ~(z < x)
  OBVIOUS
<1>2. PagesHigher(S, x) = {z \in S : z > x} /\ PagesLower(S, x) = {z \in S : z < x}
      /\ PagesHigher(S, y) = {z \in S : z > y} /\ PagesLower(S, y) = {z \in S : z < y}
  BY DEF PagesHigher, PagesLower
<1> QED
  BY Zenon, <1>1, <1>2

\* Of a page of the largest: what it leaves out is below it, and it is empty for nothing only.
LEMMA PagesLargestIs ==
    ASSUME NEW n \in Nat, NEW S, S \subseteq 1..n, NEW k \in Int
    PROVE  /\ Pages!Largest(S, k) \subseteq S
           /\ \A x \in S \ Pages!Largest(S, k), y \in Pages!Largest(S, k) : x < y
           /\ k >= 1 /\ S # {} => Pages!Largest(S, k) # {}
<1>0. \A x \in S : x \in Int
  OBVIOUS
<1>1. Pages!Largest(S, k) = {x \in S : Pages!Cardinality(PagesHigher(S, x)) < k}
  BY DEF Pages!Largest, PagesHigher
<1>2. ASSUME NEW x \in S, NEW y \in S, Pages!Cardinality(PagesHigher(S, y)) < k, ~(x < y)
      PROVE  Pages!Cardinality(PagesHigher(S, x)) < k
  <2>0. x \in Int /\ y \in Int /\ y <= x
    BY <1>0, <1>2
  <2>1. PagesHigher(S, x) \subseteq PagesHigher(S, y)
    BY <1>0, <2>0, PagesHigherIs
  <2>3. PagesHigher(S, y) \subseteq 1..n
    BY DEF PagesHigher, PagesLower
  <2>2. /\ Pages!Cardinality(PagesHigher(S, x)) \in Nat /\ Pages!Cardinality(PagesHigher(S, y)) \in Nat
        /\ Pages!Cardinality(PagesHigher(S, x)) <= Pages!Cardinality(PagesHigher(S, y))
    BY <2>1, <2>3, PagesFinite
  <2> QED
    BY <1>2, <2>2
<1>3. ASSUME k >= 1, S # {}
      PROVE  \E x \in S : Pages!Cardinality(PagesHigher(S, x)) < k
  <2>3. Pages!Highest(S) \in S /\ \A y \in S : y <= Pages!Highest(S)
    BY <1>3, PagesHighestIs
  <2>1. PagesHigher(S, Pages!Highest(S)) = {}
    BY <1>0, <2>3, PagesHigherIs
  <2>2. Pages!Cardinality({}) = 0 /\ 0 < k
    BY <1>3, PagesCounts, FS_EmptySet
  <2>4. Pages!Cardinality(PagesHigher(S, Pages!Highest(S))) < k
    BY <2>1, <2>2
  <2> QED
    BY Zenon, <2>3, <2>4
<1> QED
  BY <1>1, <1>2, <1>3

LEMMA PagesSmallestIs ==
    ASSUME NEW n \in Nat, NEW S, S \subseteq 1..n, NEW k \in Int
    PROVE  /\ Pages!Smallest(S, k) \subseteq S
           /\ \A x \in S \ Pages!Smallest(S, k), y \in Pages!Smallest(S, k) : y < x
           /\ k >= 1 /\ S # {} => Pages!Smallest(S, k) # {}
<1>0. \A x \in S : x \in Int
  OBVIOUS
<1>1. Pages!Smallest(S, k) = {x \in S : Pages!Cardinality(PagesLower(S, x)) < k}
  BY DEF Pages!Smallest, PagesLower
<1>2. ASSUME NEW x \in S, NEW y \in S, Pages!Cardinality(PagesLower(S, y)) < k, ~(y < x)
      PROVE  Pages!Cardinality(PagesLower(S, x)) < k
  <2>0. x \in Int /\ y \in Int /\ y >= x
    BY <1>0, <1>2
  <2>1. PagesLower(S, x) \subseteq PagesLower(S, y)
    BY <1>0, <2>0, PagesHigherIs
  <2>3. PagesLower(S, y) \subseteq 1..n
    BY DEF PagesHigher, PagesLower
  <2>2. /\ Pages!Cardinality(PagesLower(S, x)) \in Nat /\ Pages!Cardinality(PagesLower(S, y)) \in Nat
        /\ Pages!Cardinality(PagesLower(S, x)) <= Pages!Cardinality(PagesLower(S, y))
    BY <2>1, <2>3, PagesFinite
  <2> QED
    BY <1>2, <2>2
<1>3. ASSUME k >= 1, S # {}
      PROVE  \E x \in S : Pages!Cardinality(PagesLower(S, x)) < k
  <2>3. Pages!Lowest(S) \in S /\ \A y \in S : Pages!Lowest(S) <= y
    BY <1>3, PagesLowestIs
  <2>1. PagesLower(S, Pages!Lowest(S)) = {}
    BY <1>0, <2>3, PagesHigherIs
  <2>2. Pages!Cardinality({}) = 0 /\ 0 < k
    BY <1>3, PagesCounts, FS_EmptySet
  <2>4. Pages!Cardinality(PagesLower(S, Pages!Lowest(S))) < k
    BY <2>1, <2>2
  <2> QED
    BY Zenon, <2>3, <2>4
<1> QED
  BY <1>1, <1>2, <1>3

\* The lines of a thread are those of its rows that are not its body.
LEMMA PagesLinesAre ==
    ASSUME PagesRooted, last \in Nat, DOMAIN rows \subseteq 1..last
    PROVE  Pages!Lines = {id \in DOMAIN rows : rows[id].thread = plan.thread /\ ~(plan.kind = "comments" /\ rows[id].body)}
<1>1. CASE plan.kind # "comments"
  BY <1>1 DEF Pages!Lines, Pages!Root
<1>2. CASE plan.kind = "comments" /\ {id \in DOMAIN rows : rows[id].body} = {}
  BY <1>2 DEF Pages!Lines, Pages!Root
<1>3. CASE plan.kind = "comments" /\ {id \in DOMAIN rows : rows[id].body} # {}
  <2>1. PICK b \in DOMAIN rows : rows[b].body
    BY <1>3
  <2>2. {id \in DOMAIN rows : rows[id].body} = {b} /\ \A id \in DOMAIN rows : rows[id].thread = plan.thread => b <= id
    <3>1. ASSUME NEW c \in DOMAIN rows, rows[c].body
          PROVE  c = b
      <4>1. b <= c /\ c <= b
        BY <1>3, <2>1, <3>1 DEF PagesRooted
      <4>2. b \in Nat /\ c \in Nat
        OBVIOUS
      <4> QED
        BY <4>1, <4>2
    <3> QED
      BY <1>3, <2>1, <3>1 DEF PagesRooted
  <2>3. Pages!Lowest({b}) = b
    BY DEF Pages!Lowest
  <2>4. Pages!Root = b
    BY <1>3, <2>2, <2>3 DEF Pages!Root
  <2>5. \A id \in DOMAIN rows : rows[id].thread = plan.thread => (id > b <=> ~rows[id].body)
    BY <2>1, <2>2
  <2> QED
    BY <1>3, <2>4, <2>5 DEF Pages!Lines
<1> QED
  BY <1>1, <1>2, <1>3

LEMMA PagesLinesIn ==
    ASSUME last \in Nat, DOMAIN rows \subseteq 1..last
    PROVE  Pages!Lines \subseteq 1..last /\ Pages!Lines \subseteq DOMAIN rows
BY DEF Pages!Lines

LEMMA PagesBeforeIs ==
    ASSUME last \in Nat, DOMAIN rows \subseteq 1..last, NEW id \in Nat, NEW k \in Int, k >= 1
    PROVE  /\ Pages!Before(id, k) \subseteq Pages!Lines
           /\ \A x \in Pages!Before(id, k) : id = 0 \/ x < id
           /\ \A x \in Pages!Lines \ Pages!Before(id, k) : id = 0 \/ x < id =>
                Pages!Before(id, k) # {} /\ PagesUnder(x, Pages!Before(id, k))
<1> DEFINE S == {x \in Pages!Lines : id = 0 \/ x < id}
<1>1. S \subseteq 1..last /\ Pages!Before(id, k) = Pages!Largest(S, k)
  BY PagesLinesIn DEF Pages!Before
<1>2. /\ Pages!Largest(S, k) \subseteq S
      /\ \A x \in S \ Pages!Largest(S, k), y \in Pages!Largest(S, k) : x < y
      /\ S # {} => Pages!Largest(S, k) # {}
  <2> HIDE DEF S
  <2> QED
    BY <1>1, PagesLargestIs
<1> QED
  BY <1>1, <1>2 DEF PagesUnder

LEMMA PagesAfterIs ==
    ASSUME last \in Nat, DOMAIN rows \subseteq 1..last, NEW id \in Nat, NEW k \in Int
    PROVE  /\ Pages!After(id, k) \subseteq Pages!Lines
           /\ \A x \in Pages!After(id, k) : id < x
           /\ \A x \in Pages!Lines \ Pages!After(id, k) : id < x =>
                PagesOver(x, Pages!After(id, k)) /\ (k >= 1 => Pages!After(id, k) # {})
<1> DEFINE S == {x \in Pages!Lines : x > id}
<1>1. S \subseteq 1..last /\ Pages!After(id, k) = Pages!Smallest(S, k)
  BY PagesLinesIn DEF Pages!After
<1>2. /\ Pages!Smallest(S, k) \subseteq S
      /\ \A x \in S \ Pages!Smallest(S, k), y \in Pages!Smallest(S, k) : y < x
      /\ k >= 1 /\ S # {} => Pages!Smallest(S, k) # {}
  <2> HIDE DEF S
  <2> QED
    BY <1>1, PagesSmallestIs
<1>3. \A x \in S : id < x
  BY <1>1
<1> QED
  BY <1>1, <1>2, <1>3 DEF PagesOver

LEMMA PagesSameLines ==
    ASSUME plan' = plan, rows' = rows
    PROVE  Pages!Lines' = Pages!Lines /\ (PagesRooted => PagesRooted')
BY DEF Pages!Lines, Pages!Root, PagesRooted

\* Nothing that a page or what the client holds is made of.
LEMMA PagesStill ==
    ASSUME PagesRooted, PagesLines, PagesCover, PagesComing, UNCHANGED <<plan, rows, last, req, shown, w1>>
    PROVE  PagesRooted' /\ PagesLines' /\ PagesCover' /\ PagesComing'
<1>1. Pages!Lines' = Pages!Lines /\ PagesRooted'
  BY PagesSameLines
<1>2. PagesLines'
  BY <1>1 DEF PagesLines
<1>3. PagesCover'
  BY <1>1 DEF PagesCover, PagesCursors
<1>4. \A id : PagesBehind(id)' = PagesBehind(id) /\ PagesAhead(id)' = PagesAhead(id)
  BY DEF PagesBehind, PagesAhead
<1>5. PagesOpened' = PagesOpened /\ PagesJumped' = PagesJumped /\ PagesBack' = PagesBack /\ PagesForth' = PagesForth
  BY <1>1, <1>4 DEF PagesOpened, PagesJumped, PagesBack, PagesForth, PagesCursors
<1> QED
  BY <1>1, <1>2, <1>3, <1>5 DEF PagesComing

LEMMA PagesAskOpen ==
    ASSUME PagesKept, PagesJoined, Pages!Ask("open", 0)
    PROVE  PagesComing'
<1> DEFINE p == Pages!Before(0, Limit)
<1>1. /\ UNCHANGED <<plan, rows, last, shown>> /\ w1' = {}
      /\ req'.at = "read" /\ req'.way = "open" /\ req'.page = p
  BY DEF Pages!Ask, Pages!NoRequest
<1>2. /\ p \subseteq Pages!Lines
      /\ \A x \in Pages!Lines \ p : p # {} /\ PagesUnder(x, p)
  BY PagesBeforeIs DEF PagesKept, PagesJoined, PagesPlanned
<1>3. Pages!Lines' = Pages!Lines
  BY <1>1, PagesSameLines
<1> HIDE DEF p
<1>4. PagesOpened'
  BY <1>1, <1>2, <1>3 DEF PagesOpened, PagesBehind
<1> QED
  BY <1>1, <1>4 DEF PagesComing

LEMMA PagesAskJump ==
    ASSUME PagesKept, PagesJoined, NEW from \in 1..last, Pages!Ask("jump", from)
    PROVE  PagesComing'
<1> DEFINE p == Pages!Before(from + 1, Limit \div 2 + 1)
<1>1. /\ UNCHANGED <<plan, rows, last, shown>> /\ w1' = {}
      /\ req'.at = "half" /\ req'.way = "jump" /\ req'.from = from /\ req'.page = p
  BY DEF Pages!Ask, Pages!NoRequest, Pages!Older
<1>0. Limit \div 2 + 1 \in Int /\ Limit \div 2 + 1 >= 1 /\ from + 1 \in Nat /\ from + 1 # 0 /\ from \in Nat /\ last \in Nat
  BY DEF PagesKept, PagesJoined, PagesPlanned
<1>2. /\ p \subseteq Pages!Lines /\ \A x \in p : x < from + 1
      /\ \A x \in Pages!Lines \ p : x < from + 1 => p # {} /\ PagesUnder(x, p)
  BY <1>0, PagesBeforeIs DEF PagesKept
<1>3. Pages!Lines' = Pages!Lines /\ Pages!Lines \subseteq 1..last
  BY <1>1, PagesSameLines, PagesLinesIn DEF PagesKept
<1> HIDE DEF p
<1>4. \A x \in Pages!Lines : x \in Nat /\ (x < from + 1 <=> x <= from)
  BY <1>0, <1>3
<1>5. PagesJumped'
  BY <1>1, <1>2, <1>3, <1>4 DEF PagesJumped, PagesBehind
<1> QED
  BY <1>1, <1>5 DEF PagesComing

LEMMA PagesAskBack ==
    ASSUME PagesKept, PagesJoined, NEW from \in PagesCursors, \A x \in PagesCursors : from <= x, Pages!Ask("back", from)
    PROVE  PagesComing'
<1> DEFINE p == Pages!Before(from, Limit)
<1>1. /\ UNCHANGED <<plan, rows, last, shown>> /\ w1' = {}
      /\ req'.at = "read" /\ req'.way = "back" /\ req'.from = from /\ req'.page = p
  BY DEF Pages!Ask, Pages!NoRequest
<1>0. from \in 1..last /\ from \in Nat /\ from # 0 /\ last \in Nat /\ Limit \in Int /\ Limit >= 1
  BY DEF PagesKept, PagesJoined, PagesPlanned, PagesCursors, PagesLines
<1>2. /\ p \subseteq Pages!Lines /\ \A x \in p : x < from
      /\ \A x \in Pages!Lines \ p : x < from => p # {} /\ PagesUnder(x, p)
  BY <1>0, PagesBeforeIs DEF PagesKept
<1>3. Pages!Lines' = Pages!Lines /\ PagesCursors' = PagesCursors
  BY <1>1, PagesSameLines DEF PagesCursors
<1>4. \A id \in Pages!Lines \ shown.held : id < from \/ (shown.after /\ PagesOver(id, PagesCursors))
  BY DEF PagesJoined, PagesCover, PagesUnder
<1> HIDE DEF p
<1>5. PagesBack'
  BY <1>1, <1>2, <1>3, <1>4 DEF PagesBack, PagesBehind
<1> QED
  BY <1>1, <1>5 DEF PagesComing

LEMMA PagesAskForth ==
    ASSUME PagesKept, PagesJoined, NEW from \in PagesCursors, \A x \in PagesCursors : x <= from, shown.after,
           Pages!Ask("forth", from)
    PROVE  PagesComing'
<1> DEFINE p == Pages!After(from, Limit)
<1>1. /\ UNCHANGED <<plan, rows, last, shown>> /\ w1' = {}
      /\ req'.at = "read" /\ req'.way = "forth" /\ req'.from = from /\ req'.page = p
  BY DEF Pages!Ask, Pages!NoRequest
<1>0. from \in 1..last /\ from \in Nat /\ last \in Nat /\ Limit \in Int /\ Limit >= 1
  BY DEF PagesKept, PagesJoined, PagesPlanned, PagesCursors, PagesLines
<1>2. /\ p \subseteq Pages!Lines /\ \A x \in p : from < x
      /\ \A x \in Pages!Lines \ p : from < x => PagesOver(x, p) /\ p # {}
  BY <1>0, PagesAfterIs DEF PagesKept
<1>3. Pages!Lines' = Pages!Lines /\ PagesCursors' = PagesCursors /\ Pages!Lines \subseteq 1..last
  BY <1>1, PagesSameLines, PagesLinesIn DEF PagesCursors, PagesKept
<1>4. \A id \in Pages!Lines \ shown.held : id <= from => shown.more /\ PagesUnder(id, PagesCursors)
  <2> SUFFICES ASSUME NEW id \in Pages!Lines \ shown.held, id <= from, PagesOver(id, PagesCursors)
               PROVE  FALSE
    BY DEF PagesJoined, PagesCover
  <2>1. from < id /\ id \in Nat
    BY <1>3 DEF PagesOver
  <2> QED
    BY <1>0, <2>1
<1>6. \A x \in Pages!Lines : x > from <=> from < x
  OBVIOUS
<1> HIDE DEF p
<1>5. PagesForth'
  BY <1>1, <1>2, <1>3, <1>4, <1>6 DEF PagesForth, PagesAhead
<1> QED
  BY <1>1, <1>5 DEF PagesComing

LEMMA PagesAskKeeps ==
    ASSUME PagesKept, PagesJoined, Pages!Asking
    PROVE  PagesRooted' /\ PagesLines' /\ PagesCover' /\ PagesComing'
<1>1. Pages!Cursors(shown.held) = PagesCursors /\ PagesCursors \subseteq 1..last /\ last \in Nat
  BY DEF Pages!Cursors, PagesCursors, PagesJoined, PagesLines, PagesKept
<1>2. ASSUME NEW way \in {"open", "jump", "back", "forth"}, NEW from \in 0..last, Pages!Ask(way, from)
      PROVE  PagesRooted' /\ PagesLines' /\ PagesCover'
  <2>1. /\ UNCHANGED <<plan, rows, last, shown>> /\ w1' = {} /\ way \in plan.ways
        /\ DOMAIN req' = {"at", "way", "from", "page", "more", "after"}
        /\ req'.at = IF way = "jump" THEN "half" ELSE "read"
        /\ req'.way = way /\ req'.from = from /\ req'.after = FALSE
    BY <1>2 DEF Pages!Ask, Pages!NoRequest
  <2>2. req'.page \subseteq Pages!Lines
    <3>1. req'.page = CASE way = "open" -> Pages!Before(0, Limit) [] way = "back" -> Pages!Before(from, Limit)
                        [] way = "forth" -> Pages!After(from, Limit) [] OTHER -> Pages!Older(from)
      BY <1>2 DEF Pages!Ask, Pages!NoRequest
    <3>2. \A id, k : Pages!Before(id, k) \subseteq Pages!Lines /\ Pages!After(id, k) \subseteq Pages!Lines
      BY DEF Pages!Before, Pages!After, Pages!Largest, Pages!Smallest
    <3> QED
      BY <3>1, <3>2 DEF Pages!Older
  <2>3. Pages!Lines' = Pages!Lines /\ PagesRooted' /\ Pages!Lines \subseteq 1..last
    BY <2>1, PagesSameLines, PagesLinesIn DEF PagesJoined, PagesKept
  <2>4. PagesLines'
    BY <2>1, <2>2, <2>3 DEF PagesLines, PagesJoined, PagesPlanned
  <2>5. PagesCover'
    BY <2>1, <2>3 DEF PagesCover, PagesCursors, PagesJoined
  <2> QED
    BY <2>3, <2>4, <2>5
<1>3. CASE Pages!Ask("open", 0)
  BY <1>1, <1>2, <1>3, PagesAskOpen
<1>4. ASSUME NEW id \in 1..last, Pages!Ask("jump", id)
      PROVE  PagesRooted' /\ PagesLines' /\ PagesCover' /\ PagesComing'
  BY <1>1, <1>2, <1>4, PagesAskJump
<1>5. CASE PagesCursors # {} /\ Pages!Ask("back", Pages!Lowest(PagesCursors))
  <2>1. Pages!Lowest(PagesCursors) \in PagesCursors /\ \A y \in PagesCursors : Pages!Lowest(PagesCursors) <= y
    BY <1>1, <1>5, PagesLowestIs
  <2>3. PagesCursors \subseteq 0..last
    BY <1>1
  <2>2. Pages!Lowest(PagesCursors) \in 0..last
    BY Zenon, <2>1, <2>3
  <2> QED
    BY <1>2, <1>5, <2>1, <2>2, PagesAskBack
<1>6. CASE PagesCursors # {} /\ shown.after /\ Pages!Ask("forth", Pages!Highest(PagesCursors))
  <2>1. Pages!Highest(PagesCursors) \in PagesCursors /\ \A y \in PagesCursors : y <= Pages!Highest(PagesCursors)
    BY <1>1, <1>6, PagesHighestIs
  <2>3. PagesCursors \subseteq 0..last
    BY <1>1
  <2>2. Pages!Highest(PagesCursors) \in 0..last
    BY Zenon, <2>1, <2>3
  <2> QED
    BY <1>2, <1>6, <2>1, <2>2, PagesAskForth
<1> QED
  BY <1>1, <1>3, <1>4, <1>5, <1>6 DEF Pages!Asking

LEMMA PagesReadNewerKeeps ==
    ASSUME PagesKept, PagesJoined, Pages!ReadNewer
    PROVE  PagesRooted' /\ PagesLines' /\ PagesCover' /\ PagesComing'
<1> DEFINE k == Limit - Pages!Cardinality(req.page)
           n == Pages!After(req.from, k)
<1>1. /\ UNCHANGED <<plan, rows, last, shown, w1>> /\ req.at = "half" /\ req'.at = "read"
      /\ req' = [req EXCEPT !.at = "read", !.page = req.page \cup n]
  BY DEF Pages!ReadNewer, Pages!Newer
<1>a. PagesLines /\ PagesRooted /\ PagesCover /\ PagesPlanned /\ PagesComing /\ last \in Nat /\ DOMAIN rows \subseteq 1..last
  BY DEF PagesJoined, PagesKept
<1>2. /\ DOMAIN req' = DOMAIN req /\ req'.at = "read" /\ req'.way = "jump" /\ req.way = "jump" /\ req'.from = req.from
      /\ req'.page = req.page \cup n /\ req.from \in Nat /\ req.page \subseteq 1..last
  BY <1>1, <1>a DEF PagesLines
<1>3. k \in Int /\ (req.page = {} => k >= 1)
  <2>1. Pages!Cardinality(req.page) \in Nat
    BY <1>2, <1>a, PagesFinite
  <2>2. Pages!Cardinality({}) = 0
    BY PagesCounts, FS_EmptySet
  <2>3. Limit \in Nat /\ Limit >= 1
    BY <1>a DEF PagesPlanned
  <2>4. k \in Int
    BY <2>1, <2>3
  <2>5. CASE req.page = {}
    BY <2>2, <2>3, <2>5
  <2> QED
    BY <2>4, <2>5
<1> HIDE DEF k
<1>4. /\ n \subseteq Pages!Lines /\ \A x \in n : req.from < x
      /\ \A x \in Pages!Lines \ n : req.from < x => PagesOver(x, n) /\ (k >= 1 => n # {})
  BY <1>2, <1>3, <1>a, PagesAfterIs
<1> HIDE DEF n
<1>5. Pages!Lines' = Pages!Lines /\ PagesRooted' /\ Pages!Lines \subseteq 1..last
  BY <1>1, <1>a, PagesSameLines, PagesLinesIn
<1>6. PagesLines'
  BY <1>1, <1>2, <1>4, <1>5, <1>a DEF PagesLines
<1>7. PagesCover'
  BY <1>1, <1>5, <1>a DEF PagesCover, PagesCursors
<1>8. PagesJumped
  BY <1>1, <1>2, <1>a DEF PagesComing
<1>9. ASSUME NEW id \in Pages!Lines \ req'.page, id <= req.from
      PROVE  PagesBehind(id)'
  <2>3. id \in Pages!Lines \ req.page
    BY <1>2, <1>9
  <2>1. PagesBehind(id) /\ id \in Nat
    BY <1>5, <1>8, <1>9, <2>3 DEF PagesJumped
  <2>2. \A x \in n : x \in Nat /\ id < x
    BY <1>2, <1>4, <1>5, <1>9, <2>1
  <2> QED
    BY <1>2, <2>1, <2>2 DEF PagesBehind, PagesUnder
<1>10. ASSUME NEW id \in Pages!Lines \ req'.page, id > req.from
       PROVE  PagesAhead(id)'
  <2>1. id \in Nat /\ \A x \in req.page : x \in Nat /\ x <= req.from
    BY <1>1, <1>2, <1>5, <1>8 DEF PagesJumped
  <2>2. \A x \in req.page : x < id
    BY <1>2, <1>10, <2>1
  <2>3. PagesOver(id, n) /\ (k >= 1 => n # {})
    BY <1>2, <1>4, <1>10, <2>1
  <2>4. PagesOver(id, req'.page) /\ req'.page # {}
    BY <1>2, <1>3, <2>2, <2>3 DEF PagesOver
  <2> QED
    BY <1>2, <2>4 DEF PagesAhead
<1>11. PagesJumped'
  BY <1>2, <1>5, <1>9, <1>10 DEF PagesJumped
<1> QED
  BY <1>2, <1>5, <1>6, <1>7, <1>11 DEF PagesComing

\* A question about the lines around the page.
LEMMA PagesProbed ==
    ASSUME PagesKept, PagesJoined, UNCHANGED <<plan, rows, last, shown, w1>>,
           DOMAIN req' = DOMAIN req, req'.way = req.way, req'.from = req.from, req'.page = req.page,
           req.at \notin {"idle", "half"}, req'.at \in {"read", "probed", "answer"},
           plan.kind # "lines" => ~req'.after,
           \A id \in Pages!Lines : PagesBehind(id) => PagesBehind(id)',
           \A id \in Pages!Lines : plan.kind = "lines" /\ PagesAhead(id) => PagesAhead(id)'
    PROVE  PagesRooted' /\ PagesLines' /\ PagesCover' /\ PagesComing'
<1>a. PagesLines /\ PagesRooted /\ PagesCover /\ PagesComing
  BY DEF PagesJoined
<1>1. Pages!Lines' = Pages!Lines /\ PagesRooted'
  BY <1>a, PagesSameLines
<1>2. PagesLines'
  BY <1>1, <1>a DEF PagesLines
<1>3. PagesCover'
  BY <1>1, <1>a DEF PagesCover, PagesCursors
<1>4. req.way = "open" => PagesOpened'
  BY <1>1, <1>a DEF PagesComing, PagesOpened
<1>5. req.way = "jump" => PagesJumped'
  BY <1>1, <1>a DEF PagesComing, PagesJumped, PagesLines
<1>6. req.way = "back" => PagesBack'
  BY <1>1, <1>a DEF PagesComing, PagesBack, PagesCursors
<1>7. req.way = "forth" => PagesForth'
  BY <1>1, <1>a DEF PagesComing, PagesForth, PagesCursors, PagesLines
<1> QED
  BY <1>1, <1>2, <1>3, <1>4, <1>5, <1>6, <1>7 DEF PagesComing

LEMMA PagesProbeBeforeKeeps ==
    ASSUME PagesKept, PagesJoined, Pages!ProbeBefore
    PROVE  PagesRooted' /\ PagesLines' /\ PagesCover' /\ PagesComing'
<1>1. /\ UNCHANGED <<plan, rows, last, shown, w1>> /\ req.at = "read"
      /\ req' = [req EXCEPT !.at = "probed", !.more = req.page # {} /\ Pages!HasBefore(Pages!Lowest(req.page))]
  BY DEF Pages!ProbeBefore
<1>2. DOMAIN req = {"at", "way", "from", "page", "more", "after"} /\ req.page \subseteq 1..last /\ last \in Nat
      /\ Pages!Lines \subseteq 1..last
  BY PagesLinesIn DEF PagesJoined, PagesLines, PagesKept
<1>3. /\ DOMAIN req' = DOMAIN req /\ req'.way = req.way /\ req'.from = req.from /\ req'.page = req.page
      /\ req'.at = "probed" /\ req'.more = (req.page # {} /\ Pages!HasBefore(Pages!Lowest(req.page)))
  BY <1>1, <1>2
<1>4. \A id \in Pages!Lines : plan.kind = "lines" /\ PagesAhead(id) => PagesAhead(id)'
  BY <1>1, <1>3 DEF PagesAhead
<1>5. ASSUME NEW id \in Pages!Lines, PagesBehind(id)
      PROVE  PagesBehind(id)'
  <2>1. req.page # {} /\ PagesUnder(id, req.page)
    BY <1>5 DEF PagesBehind
  <2>2. Pages!Lowest(req.page) \in req.page
    BY <1>2, <2>1, PagesLowestIs
  <2>3. id < Pages!Lowest(req.page)
    BY <2>1, <2>2 DEF PagesUnder
  <2>4. Pages!HasBefore(Pages!Lowest(req.page))
    BY <2>3 DEF Pages!HasBefore
  <2> QED
    BY <1>3, <2>1, <2>4 DEF PagesBehind
<1>6. plan.kind # "lines" => ~req'.after
  BY <1>1 DEF PagesJoined, PagesLines
<1>7. req.at \notin {"idle", "half"} /\ req'.at \in {"read", "probed", "answer"}
  BY <1>1, <1>3
<1>8. \A id \in Pages!Lines : PagesBehind(id) => PagesBehind(id)'
  BY <1>5
<1> HIDE DEF PagesJoined
<1> QED
  BY ZenonT(30), <1>1, <1>3, <1>4, <1>6, <1>7, <1>8, PagesProbed

LEMMA PagesProbeAfterKeeps ==
    ASSUME PagesKept, PagesJoined, Pages!ProbeAfter
    PROVE  PagesRooted' /\ PagesLines' /\ PagesCover' /\ PagesComing'
<1>1. /\ UNCHANGED <<plan, rows, last, shown, w1>> /\ req.at = "probed"
      /\ req' = [req EXCEPT !.at = "answer", !.after = Pages!Probe]
  BY DEF Pages!ProbeAfter
<1>2. DOMAIN req = {"at", "way", "from", "page", "more", "after"} /\ req.page \subseteq 1..last /\ last \in Nat
      /\ Pages!Lines \subseteq 1..last
  BY PagesLinesIn DEF PagesJoined, PagesLines, PagesKept
<1>3. /\ DOMAIN req' = DOMAIN req /\ req'.way = req.way /\ req'.from = req.from /\ req'.page = req.page
      /\ req'.at = "answer" /\ req'.more = req.more /\ req'.after = Pages!Probe
  BY <1>1, <1>2
<1>4. ASSUME NEW id \in Pages!Lines, plan.kind = "lines", PagesAhead(id)
      PROVE  PagesAhead(id)'
  <2>1. CASE id \in w1
    BY <1>1, <1>3, <1>4, <2>1 DEF PagesAhead
  <2>2. CASE req.page # {}
    <3>1. Pages!Highest(req.page) \in req.page
      BY <1>2, <2>2, PagesHighestIs
    <3>2. id > Pages!Highest(req.page)
      <4>1. Pages!Highest(req.page) < id
        BY <1>4, <3>1 DEF PagesAhead, PagesOver
      <4> QED
        BY <4>1
    <3>3. Pages!Probe
      BY <1>4, <2>2, <3>2 DEF Pages!Probe, Pages!HasAfter
    <3> QED
      BY <1>3, <1>4, <2>2, <3>3 DEF PagesAhead
  <2> QED
    BY <1>4, <2>1, <2>2 DEF PagesAhead
<1>5. \A id \in Pages!Lines : PagesBehind(id) => PagesBehind(id)'
  BY <1>1, <1>3 DEF PagesBehind
<1>6. plan.kind # "lines" => ~req'.after
  BY <1>3 DEF Pages!Probe
<1>7. req.at \notin {"idle", "half"} /\ req'.at \in {"read", "probed", "answer"}
  BY <1>1, <1>3
<1>8. \A id \in Pages!Lines : plan.kind = "lines" /\ PagesAhead(id) => PagesAhead(id)'
  BY <1>4
<1> HIDE DEF PagesJoined
<1> QED
  BY ZenonT(30), <1>1, <1>3, <1>5, <1>6, <1>7, <1>8, PagesProbed

\* What the answer makes of the client's window, by where the page was asked for.
LEMMA PagesAnswerCovers ==
    ASSUME PagesKept, PagesJoined, Pages!Answer
    PROVE  PagesCover'
<1> DEFINE join == req.way \in {"back", "forth"}
           end == IF req.way = "back" THEN shown.after ELSE req.after
           top == IF req.way = "forth" THEN shown.more ELSE req.more
           extra == IF req.way = "open" THEN Pages!Pinned ELSE {}
           held == (IF join THEN shown.held ELSE {}) \cup req.page \cup extra \cup (IF end THEN {} ELSE w1)
           pinned == IF join THEN shown.pinned ELSE extra
           C == {id \in held : id \notin pinned}
<1>1. UNCHANGED <<plan, rows, last>> /\ req.at = "answer"
      /\ shown' = [held |-> held, pinned |-> pinned, more |-> top, after |-> end]
  BY DEF Pages!Answer
<1>2. shown'.held = held /\ PagesCursors' = C /\ shown'.more = top /\ shown'.after = end
  BY <1>1 DEF PagesCursors
<1>3. Pages!Lines' = Pages!Lines /\ Pages!Lines \subseteq 1..last /\ last \in Nat
  BY <1>1, PagesSameLines, PagesLinesIn DEF PagesKept
<1>4. PagesLines /\ PagesCover /\ PagesComing
  BY DEF PagesJoined
<1>5. /\ \A x \in Pages!Lines : x \in Nat
      /\ \A x \in req.page : x \in Nat
      /\ \A x \in w1 : x \in Pages!Lines /\ req.from < x
      /\ \A x \in PagesCursors : x \in Nat
      /\ req.from \in Nat
  BY <1>1, <1>3, <1>4 DEF PagesLines, PagesCursors
<1>a. \A x \in w1 : x \in Nat /\ req.from < x
  BY <1>5
<1>6. SUFFICES ASSUME NEW id \in Pages!Lines, id \notin held
               PROVE  (top /\ PagesUnder(id, C)) \/ (end /\ PagesOver(id, C))
  BY <1>2, <1>3 DEF PagesCover
<1>7. id \in Nat /\ id \notin req.page /\ (join => id \notin shown.held) /\ (end \/ id \notin w1)
  BY <1>5, <1>6
<1>8. CASE req.way = "open"
  <2>1. PagesOpened /\ top = req.more /\ C \subseteq req.page \cup (IF end THEN {} ELSE w1) /\ ~join /\ end = req.after
    BY <1>1, <1>4, <1>8 DEF PagesComing
  <2>2. CASE id \in w1
    <3>1. end /\ PagesOver(id, req.page) /\ C \subseteq req.page
      BY <1>7, <2>1, <2>2 DEF PagesOpened
    <3> QED
      BY <3>1 DEF PagesOver
  <2>3. CASE id \notin w1
    <3>1. PagesBehind(id)
      BY <1>6, <1>7, <2>1, <2>3 DEF PagesOpened
    <3>2. req.more /\ req.page # {} /\ PagesUnder(id, req.page)
      BY <1>1, <3>1 DEF PagesBehind
    <3>4. PICK y \in req.page : id < y /\ y \in Nat
      BY <1>5, <3>2 DEF PagesUnder
    <3>3. ASSUME NEW x \in w1
          PROVE  id < x
      <4>1. y < x /\ x \in Nat
        BY <1>5, <2>1, <3>4 DEF PagesOpened, PagesOver
      <4> QED
        BY <1>7, <3>4, <4>1
    <3> QED
      BY <2>1, <3>2, <3>3 DEF PagesUnder
  <2> QED
    BY <2>2, <2>3
<1>9. CASE req.way = "jump"
  <2>1. PagesJumped /\ top = req.more /\ C \subseteq req.page \cup (IF end THEN {} ELSE w1) /\ end = req.after
    BY <1>1, <1>4, <1>9 DEF PagesComing
  <2>2. CASE id <= req.from
    <3>1. PagesBehind(id)
      BY <1>6, <1>7, <2>1, <2>2 DEF PagesJumped
    <3>2. req.more /\ PagesUnder(id, req.page)
      BY <1>1, <3>1 DEF PagesBehind
    <3>3. ASSUME NEW x \in w1
          PROVE  id < x
      <4>1. x \in Nat /\ req.from < x /\ req.from \in Nat
        BY <1>5, <1>a
      <4> QED
        BY <1>7, <2>2, <4>1
    <3> QED
      BY <2>1, <3>2, <3>3 DEF PagesUnder
  <2>3. CASE id > req.from
    <3>1. PagesAhead(id)
      BY <1>1, <1>6, <1>7, <2>1, <2>3 DEF PagesJumped
    <3>2. PagesOver(id, req.page) /\ end
      BY <1>1, <1>7, <2>1, <3>1 DEF PagesAhead
    <3> QED
      BY <2>1, <3>2 DEF PagesOver
  <2> QED
    BY <1>5, <1>7, <2>2, <2>3
<1>10. CASE req.way = "back"
  <2>1. PagesBack /\ top = req.more /\ join /\ end = shown.after
    BY <1>1, <1>4, <1>10 DEF PagesComing
  <2>2. C \subseteq PagesCursors \cup req.page
    <3>1. (IF end THEN {} ELSE w1) \subseteq shown.held
      BY <1>4, <2>1 DEF PagesLines
    <3> QED
      BY <1>10, <3>1 DEF PagesCursors
  <2>3. CASE id < req.from
    <3>1. PagesBehind(id)
      BY <1>6, <1>7, <2>1, <2>3 DEF PagesBack
    <3>2. req.more /\ PagesUnder(id, req.page)
      BY <1>1, <3>1 DEF PagesBehind
    <3>3. \A x \in PagesCursors : id < x
      BY <1>5, <1>7, <2>1, <2>3 DEF PagesBack
    <3> QED
      BY <2>1, <2>2, <3>2, <3>3 DEF PagesUnder
  <2>4. CASE ~(id < req.from)
    <3>1. shown.after /\ PagesOver(id, PagesCursors)
      BY <1>6, <1>7, <2>1, <2>4 DEF PagesBack
    <3>2. \A x \in req.page : x < id
      BY <1>5, <1>7, <2>1, <2>4 DEF PagesBack
    <3> QED
      BY <2>1, <2>2, <3>1, <3>2 DEF PagesOver
  <2> QED
    BY <2>3, <2>4
<1>11. CASE req.way = "forth"
  <2>1. PagesForth /\ top = shown.more /\ join /\ end = req.after
    BY <1>1, <1>4, <1>11 DEF PagesComing
  <2>2. C \subseteq PagesCursors \cup req.page \cup (IF end THEN {} ELSE w1)
    BY <1>11 DEF PagesCursors
  <2>3. CASE id <= req.from
    <3>1. shown.more /\ PagesUnder(id, PagesCursors)
      BY <1>6, <1>7, <2>1, <2>3 DEF PagesForth
    <3>2. ASSUME NEW x \in req.page \cup w1
          PROVE  id < x
      <4>1. x \in Nat /\ req.from < x /\ req.from \in Nat
        BY <1>5, <1>a, <2>1 DEF PagesForth
      <4> QED
        BY <1>7, <2>3, <4>1
    <3> QED
      BY <2>1, <2>2, <3>1, <3>2 DEF PagesUnder
  <2>4. CASE id > req.from
    <3>1. PagesAhead(id)
      BY <1>6, <1>7, <2>1, <2>4 DEF PagesForth
    <3>2. PagesOver(id, req.page) /\ end
      BY <1>1, <1>7, <2>1, <3>1 DEF PagesAhead
    <3>3. \A x \in PagesCursors : x < id
      BY <1>5, <1>7, <2>1, <2>4 DEF PagesForth
    <3> QED
      BY <2>1, <2>2, <3>2, <3>3 DEF PagesOver
  <2> QED
    BY <1>5, <1>7, <2>3, <2>4
<1> QED
  BY <1>4, <1>8, <1>9, <1>10, <1>11 DEF PagesLines

LEMMA PagesAnswerKeeps ==
    ASSUME PagesKept, PagesJoined, Pages!Answer
    PROVE  PagesRooted' /\ PagesLines' /\ PagesCover' /\ PagesComing'
<1>1. /\ UNCHANGED <<plan, rows, last>> /\ w1' = {} /\ DOMAIN shown' = {"held", "pinned", "more", "after"}
      /\ shown'.held \subseteq shown.held \cup req.page \cup Pages!Pinned \cup w1
      /\ shown'.pinned \in {shown.pinned, Pages!Pinned, {}}
      /\ req' = [at |-> "idle", way |-> "open", from |-> 0, page |-> {}, more |-> FALSE, after |-> FALSE]
  BY DEF Pages!Answer, Pages!NoRequest
<1>2. Pages!Pinned \subseteq Pages!Lines /\ (plan.kind = "lines" => Pages!Pinned = {})
  BY DEF Pages!Pinned
<1>3. Pages!Lines' = Pages!Lines /\ PagesRooted' /\ Pages!Lines \subseteq 1..last /\ last \in Nat
  BY <1>1, PagesSameLines, PagesLinesIn DEF PagesKept, PagesJoined
<1>4. PagesLines
  BY DEF PagesJoined
<1>7. shown'.held \subseteq 1..last' /\ (plan'.kind = "lines" => shown'.pinned = {})
  BY <1>1, <1>2, <1>3, <1>4 DEF PagesLines
<1>8. /\ req'.at = "idle" /\ req'.way = "open" /\ req'.from \in 0..last' /\ req'.page = {} /\ req'.after = FALSE
      /\ DOMAIN req' = {"at", "way", "from", "page", "more", "after"}
  BY <1>1, <1>3
<1>5. PagesLines'
  BY <1>1, <1>7, <1>8 DEF PagesLines
<1>6. PagesComing'
  BY <1>1 DEF PagesComing
<1> QED
  BY <1>3, <1>5, <1>6, PagesAnswerCovers

PagesOwn == {id \in DOMAIN rows : rows[id].thread = plan.thread /\ ~(plan.kind = "comments" /\ rows[id].body)}
LEMMA PagesLinesKnown ==
    PagesRooted /\ last \in Nat /\ DOMAIN rows \subseteq 1..last => Pages!Lines = PagesOwn
BY PagesLinesAre DEF PagesOwn

\* A line that is written is above all others.
LEMMA PagesWriteLines ==
    ASSUME PagesKept, PagesJoined, NEW line \in plan.lines, Pages!Write(line)
    PROVE  /\ PagesRooted' /\ last' = last + 1 /\ last' \notin DOMAIN rows
           /\ DOMAIN rows' = DOMAIN rows \cup {last'} /\ rows'[last'] = line /\ \A id \in DOMAIN rows : rows'[id] = rows[id]
           /\ Pages!Lines' = Pages!Lines \cup (IF line.thread = plan.thread THEN {last'} ELSE {})
<1>1. /\ plan' = plan /\ last' = last + 1
      /\ rows' = [id \in DOMAIN rows \cup {last'} |-> IF id = last' THEN line ELSE rows[id]]
  BY DEF Pages!Write
<1>2. last \in Nat /\ DOMAIN rows \subseteq 1..last /\ PagesRooted /\ ~line.body
  BY DEF PagesKept, PagesJoined, PagesPlanned
<1>3. last' \notin DOMAIN rows /\ last' \in Nat /\ \A id \in DOMAIN rows : id <= last' /\ id \in 1..last'
  BY <1>1, <1>2
<1>4. /\ DOMAIN rows' = DOMAIN rows \cup {last'} /\ rows'[last'] = line
      /\ \A id \in DOMAIN rows : rows'[id] = rows[id]
  BY <1>1, <1>3
<1>5. PagesRooted'
  BY <1>1, <1>2, <1>3, <1>4 DEF PagesRooted
<1>6. DOMAIN rows' \subseteq 1..last'
  BY <1>1, <1>2, <1>3, <1>4
<1>7. (PagesRooted /\ last \in Nat /\ DOMAIN rows \subseteq 1..last => Pages!Lines = PagesOwn)'
  BY PagesLinesKnown, PTL
<1>8. Pages!Lines' = PagesOwn' /\ Pages!Lines = PagesOwn
  BY <1>2, <1>3, <1>5, <1>6, <1>7, PagesLinesKnown
<1>9. PagesOwn' = PagesOwn \cup (IF line.thread = plan.thread THEN {last'} ELSE {})
  BY <1>1, <1>2, <1>3, <1>4 DEF PagesOwn
<1> QED
  BY <1>1, <1>3, <1>4, <1>5, <1>8, <1>9

LEMMA PagesWriteKeeps ==
    ASSUME PagesKept, PagesJoined, NEW line \in plan.lines, Pages!Write(line)
    PROVE  PagesRooted' /\ PagesLines' /\ PagesCover' /\ PagesComing'
<1> DEFINE live == line.thread = plan.thread
<1>1. /\ UNCHANGED <<plan, req>> /\ w1' = IF live THEN w1 \cup {last'} ELSE w1
      /\ shown' = IF live /\ ~shown.after THEN [shown EXCEPT !.held = @ \cup {last'}] ELSE shown
  BY DEF Pages!Write
<1>2. /\ PagesRooted' /\ last' = last + 1 /\ last' \notin DOMAIN rows
      /\ Pages!Lines' = Pages!Lines \cup (IF live THEN {last'} ELSE {})
  BY PagesWriteLines
<1>3. PagesLines /\ PagesCover /\ PagesComing /\ last \in Nat /\ Pages!Lines \subseteq DOMAIN rows /\ Pages!Lines \subseteq 1..last
  BY PagesLinesIn DEF PagesJoined, PagesKept
<1>4. /\ DOMAIN shown' = DOMAIN shown /\ shown'.pinned = shown.pinned /\ shown'.more = shown.more /\ shown'.after = shown.after
      /\ shown'.held = shown.held \cup (IF live /\ ~shown.after THEN {last'} ELSE {})
  BY <1>1, <1>3 DEF PagesLines
<1>5. PagesCursors \subseteq PagesCursors' /\ PagesCursors' \subseteq PagesCursors \cup (IF live /\ ~shown.after THEN {last'} ELSE {})
  BY <1>4 DEF PagesCursors
<1> HIDE DEF live
<1>6. /\ \A x \in 1..last : x < last' /\ x \in 1..last'
      /\ \A x \in 0..last : x < last' /\ x \in 0..last'
      /\ last' \in 1..last' /\ last' \in Nat
  BY <1>2, <1>3
<1>7. PagesLines'
  <2>1. shown'.held \subseteq 1..last' /\ req'.page \subseteq 1..last' /\ req'.from \in 0..last'
    BY <1>1, <1>3, <1>4, <1>6 DEF PagesLines
  <2>2. w1' \subseteq Pages!Lines' /\ (~shown'.after => w1' \subseteq shown'.held)
    BY <1>1, <1>2, <1>3, <1>4 DEF PagesLines
  <2>3. req'.at # "idle" => \A x \in w1' : req'.from < x
    BY <1>1, <1>3, <1>6 DEF PagesLines
  <2> QED
    BY <1>1, <1>3, <1>4, <2>1, <2>2, <2>3 DEF PagesLines
<1>8. /\ PagesOver(last', PagesCursors) /\ PagesOver(last', req.page) /\ req.from < last'
      /\ \A x \in Pages!Lines \cup req.page \cup PagesCursors : x \in Nat /\ x < last'
  BY <1>3, <1>6 DEF PagesLines, PagesCursors, PagesOver
<1>9. PagesCover'
  <2> SUFFICES ASSUME NEW id \in Pages!Lines', id \notin shown'.held
               PROVE  (shown'.more /\ PagesUnder(id, PagesCursors')) \/ (shown'.after /\ PagesOver(id, PagesCursors'))
    BY DEF PagesCover
  <2>1. CASE id = last' /\ live
    <3>1. shown.after /\ PagesCursors' = PagesCursors
      BY <1>4, <1>5, <2>1
    <3> QED
      BY <1>4, <1>8, <2>1, <3>1
  <2>2. CASE id \in Pages!Lines
    <3>1. id \notin shown.held /\ id < last'
      BY <1>4, <1>8, <2>2
    <3>2. CASE shown.more /\ PagesUnder(id, PagesCursors)
      BY <1>4, <1>5, <3>1, <3>2 DEF PagesUnder
    <3>3. CASE shown.after /\ PagesOver(id, PagesCursors)
      BY <1>4, <1>5, <3>3 DEF PagesOver
    <3> QED
      BY <1>3, <2>2, <3>1, <3>2, <3>3 DEF PagesCover
  <2> QED
    BY <1>2, <2>1, <2>2
<1>10. /\ \A id : PagesBehind(id)' <=> PagesBehind(id)
       /\ \A id : PagesAhead(id) => PagesAhead(id)'
  BY <1>1 DEF PagesBehind, PagesAhead
<1>11. live => \A id : id = last' => PagesAhead(id)' /\ id \in w1'
  BY <1>1, <1>8 DEF PagesAhead, PagesOver
<1>12. req.at # "idle" /\ req.way = "open" => PagesOpened'
  <2> SUFFICES ASSUME PagesOpened
               PROVE  PagesOpened'
    BY <1>3 DEF PagesComing
  <2> QED
    BY <1>1, <1>2, <1>8, <1>10, <1>11 DEF PagesOpened
<1>13. req.at # "idle" /\ req.way = "jump" => PagesJumped'
  <2> SUFFICES ASSUME PagesJumped, req.way = "jump"
               PROVE  PagesJumped'
    BY <1>3 DEF PagesComing
  <2>1. ~(last' <= req.from)
    BY <1>8, <1>6, <1>3 DEF PagesLines
  <2> QED
    BY <1>1, <1>2, <1>10, <1>11, <2>1 DEF PagesJumped
<1>14. req.at # "idle" /\ req.way = "back" => PagesBack'
  <2> SUFFICES ASSUME PagesBack
               PROVE  PagesBack'
    BY <1>3 DEF PagesComing
  <2>0. req.from <= last' /\ ~(last' < req.from)
    BY <1>8, <1>6, <1>3 DEF PagesLines
  <2>1. \A x \in PagesCursors' : req.from <= x
    BY <1>5, <2>0 DEF PagesBack
  <2>2. \A id \in Pages!Lines' \ shown'.held : id < req.from \/ (shown'.after /\ PagesOver(id, PagesCursors'))
    <3> SUFFICES ASSUME NEW id \in Pages!Lines', id \notin shown'.held, ~(id < req.from)
                 PROVE  shown'.after /\ PagesOver(id, PagesCursors')
      OBVIOUS
    <3>1. CASE id = last' /\ live
      BY <1>4, <1>5, <1>8, <3>1
    <3>2. CASE id \in Pages!Lines
      <4>1. shown.after /\ PagesOver(id, PagesCursors)
        BY <1>4, <3>2 DEF PagesBack
      <4> QED
        BY <1>4, <1>5, <4>1
    <3> QED
      BY <1>2, <3>1, <3>2
  <2>3. \A id \in Pages!Lines' \ req'.page : id < req.from => PagesBehind(id)'
    BY <1>1, <1>2, <1>10, <2>0 DEF PagesBack
  <2> QED
    BY <1>1, <2>1, <2>2, <2>3 DEF PagesBack
<1>15. req.at # "idle" /\ req.way = "forth" => PagesForth'
  <2> SUFFICES ASSUME PagesForth, req.way = "forth"
               PROVE  PagesForth'
    BY <1>3 DEF PagesComing
  <2>1. shown' = shown /\ PagesCursors' = PagesCursors
    BY <1>1, <1>4, <1>5 DEF PagesForth
  <2>2. ~(last' <= req.from)
    BY <1>8, <1>6, <1>3 DEF PagesLines
  <2>3. \A id \in Pages!Lines' \ shown.held : id <= req.from => shown.more /\ PagesUnder(id, PagesCursors)
    BY <1>2, <2>2 DEF PagesForth
  <2>4. \A id \in Pages!Lines' \ req.page : id > req.from => PagesAhead(id)'
    BY <1>2, <1>10, <1>11 DEF PagesForth
  <2> QED
    BY <1>1, <2>1, <2>3, <2>4 DEF PagesForth
<1>16. PagesComing'
  BY <1>1, <1>12, <1>13, <1>14, <1>15 DEF PagesComing
<1> QED
  BY <1>2, <1>7, <1>9, <1>16

LEMMA PagesRemoveKeeps ==
    ASSUME PagesKept, PagesJoined, NEW id \in DOMAIN rows, Pages!Remove(id)
    PROVE  PagesRooted' /\ PagesLines' /\ PagesCover' /\ PagesComing'
<1>1. /\ UNCHANGED <<plan, last, req>> /\ rows' = [x \in DOMAIN rows \ {id} |-> rows[x]] /\ w1' = w1 \ {id}
      /\ shown' = [shown EXCEPT !.held = @ \ {id}, !.pinned = @ \ {id}]
  BY DEF Pages!Remove
<1>2. PagesLines /\ PagesCover /\ PagesComing /\ PagesRooted /\ last \in Nat /\ DOMAIN rows \subseteq 1..last
  BY DEF PagesJoined, PagesKept
<1>3. DOMAIN rows' = DOMAIN rows \ {id} /\ \A x \in DOMAIN rows' : rows'[x] = rows[x]
  BY <1>1
<1>4. PagesRooted' /\ DOMAIN rows' \subseteq 1..last' /\ last' \in Nat
  BY <1>1, <1>2, <1>3 DEF PagesRooted
<1>5. Pages!Lines' = Pages!Lines \ {id}
  <2>1. (PagesRooted /\ last \in Nat /\ DOMAIN rows \subseteq 1..last => Pages!Lines = PagesOwn)'
    BY PagesLinesKnown, PTL
  <2>2. Pages!Lines' = PagesOwn' /\ Pages!Lines = PagesOwn
    BY <1>2, <1>4, <2>1, PagesLinesKnown
  <2>3. PagesOwn' = PagesOwn \ {id}
    BY <1>1, <1>3 DEF PagesOwn
  <2> QED
    BY <2>2, <2>3
<1>6. /\ DOMAIN shown' = DOMAIN shown /\ shown'.held = shown.held \ {id} /\ shown'.pinned = shown.pinned \ {id}
      /\ shown'.more = shown.more /\ shown'.after = shown.after
  BY <1>1, <1>2 DEF PagesLines
<1>7. PagesCursors' = PagesCursors \ {id}
  BY <1>6 DEF PagesCursors
<1>8. PagesLines'
  BY <1>1, <1>2, <1>5, <1>6 DEF PagesLines
<1>9. PagesCover'
  BY <1>2, <1>5, <1>6, <1>7 DEF PagesCover, PagesUnder, PagesOver
<1>10. \A x : x # id => (PagesBehind(x) => PagesBehind(x)') /\ (PagesAhead(x) => PagesAhead(x)')
  BY <1>1 DEF PagesBehind, PagesAhead
<1>11. PagesOpened => PagesOpened'
  BY <1>1, <1>5, <1>10 DEF PagesOpened
<1>12. PagesJumped => PagesJumped'
  BY <1>1, <1>5, <1>10 DEF PagesJumped
<1>13. PagesBack => PagesBack'
  BY <1>1, <1>5, <1>6, <1>7, <1>10 DEF PagesBack, PagesOver
<1>14. PagesForth => PagesForth'
  BY <1>1, <1>5, <1>6, <1>7, <1>10 DEF PagesForth, PagesUnder
<1>15. PagesComing'
  BY <1>1, <1>2, <1>11, <1>12, <1>13, <1>14 DEF PagesComing
<1> QED
  BY <1>4, <1>8, <1>9, <1>15

---------------------------------------------------------------------------
(* The walk through a search.                                               *)

LEMMA PagesPlaceIs ==
    ASSUME last \in Nat, DOMAIN rows \subseteq 1..last, \A x \in DOMAIN rows : rows[x].hit \in Nat
    PROVE  /\ Pages!Found \subseteq 1..last /\ Pages!Cardinality(Pages!Found) \in Nat
           /\ \A id \in Pages!Found : Pages!Place(id) \in Nat /\ Pages!Place(id) < Pages!Cardinality(Pages!Found)
<1>1. Pages!Found \subseteq 1..last /\ Pages!Found \subseteq DOMAIN rows
  BY DEF Pages!Found
<1>2. IsFiniteSet(Pages!Found) /\ Pages!Cardinality(Pages!Found) \in Nat
  BY <1>1, PagesFinite
<1>3. ASSUME NEW id \in Pages!Found
      PROVE  Pages!Place(id) \in Nat /\ Pages!Place(id) < Pages!Cardinality(Pages!Found)
  <2>1. rows[id].hit \in Nat /\ id \in Nat
    BY <1>1
  <2>2. ~Pages!Sooner(id, id)
    BY <2>1 DEF Pages!Sooner
  <2>3. {x \in Pages!Found : Pages!Sooner(x, id)} \subseteq Pages!Found \ {id}
    BY <2>2
  <2>4. Pages!Found \ {id} \subseteq 1..last
    BY <1>1
  <2>5. /\ Pages!Cardinality(Pages!Found \ {id}) \in Nat /\ Pages!Place(id) \in Nat
        /\ Pages!Place(id) <= Pages!Cardinality(Pages!Found \ {id})
    BY <2>3, <2>4, PagesFinite DEF Pages!Place
  <2>6. Pages!Cardinality(Pages!Found \ {id}) = Pages!Cardinality(Pages!Found) - 1
    BY <1>2, FS_RemoveElement, PagesCounts
  <2> QED
    BY <1>2, <2>5, <2>6
<1> QED
  BY <1>1, <1>2, <1>3

PagesOwing(id) ==
    /\ w4.at # "done"
    /\ w4.at \in {"counted", "more"} => Pages!Place(id) >= w4.off
    /\ w4.at = "read" => id \in w4.page \/ Pages!Place(id) >= w4.off + Limit
    /\ w4.at \in {"counted", "read"} => Pages!Place(id) < w4.total

LEMMA PagesWalkedStill ==
    ASSUME PagesWalked, UNCHANGED <<plan, rows, last, w4>>, DOMAIN left' = DOMAIN left, left'["remove"] = left["remove"]
    PROVE  PagesWalked'
<1>1. Pages!Found' = Pages!Found /\ \A id : Pages!Place(id)' = Pages!Place(id)
  BY DEF Pages!Found, Pages!Place, Pages!Sooner
<1>2. PagesSteady' = PagesSteady
  BY DEF PagesSteady
<1> QED
  BY <1>1, <1>2 DEF PagesWalked

LEMMA PagesCountKeeps ==
    ASSUME PagesKept, PagesJoined, Pages!Count
    PROVE  PagesWalked'
<1>1. /\ UNCHANGED <<plan, rows, last>> /\ w4.at \in {"idle", "more"}
      /\ DOMAIN left' = DOMAIN left /\ ("remove" \in DOMAIN left => left'["remove"] = left["remove"])
      /\ w4' = [w4 EXCEPT !.at = "counted", !.total = Pages!Cardinality(Pages!Found),
                          !.owed = IF w4.at = "idle" THEN Pages!Found ELSE w4.owed,
                          !.calm = w4.at = "idle" \/ w4.calm]
  BY DEF Pages!Count, Pages!Total
<1>2. PagesWalked /\ last \in Nat /\ DOMAIN rows \subseteq 1..last
  BY DEF PagesKept, PagesJoined
<1>3. /\ Pages!Cardinality(Pages!Found) \in Nat
      /\ \A id \in Pages!Found : Pages!Place(id) \in Nat /\ Pages!Place(id) < Pages!Cardinality(Pages!Found)
  BY <1>2, PagesPlaceIs DEF PagesWalked
<1>4. /\ DOMAIN w4' = DOMAIN w4 /\ w4'.at = "counted" /\ w4'.total = Pages!Cardinality(Pages!Found)
      /\ w4'.owed = IF w4.at = "idle" THEN Pages!Found ELSE w4.owed
      /\ w4'.calm = (w4.at = "idle" \/ w4.calm)
      /\ w4'.off = w4.off /\ w4'.page = w4.page /\ w4'.listed = w4.listed /\ w4'.near = w4.near
  BY <1>1, <1>2 DEF PagesWalked
<1>5. Pages!Found' = Pages!Found /\ \A id : Pages!Place(id)' = Pages!Place(id)
  BY <1>1 DEF Pages!Found, Pages!Place, Pages!Sooner
<1>6. w4'.owed \subseteq Pages!Found
  BY <1>2, <1>4 DEF PagesWalked
<1>7. ASSUME NEW id \in w4'.owed \ w4'.listed, PagesSteady'
      PROVE  Pages!Place(id) >= w4.off /\ Pages!Place(id) < w4'.total
  <2>1. Pages!Place(id) \in Nat /\ Pages!Place(id) < w4'.total
    BY <1>3, <1>4, <1>6
  <2>2. CASE w4.at = "idle"
    <3>1. w4.off = 0
      BY <1>2, <2>2 DEF PagesWalked
    <3> QED
      BY <2>1, <3>1
  <2>3. CASE w4.at = "more"
    <3>1. PagesSteady /\ id \in w4.owed \ w4.listed
      BY <1>1, <1>4, <1>7, <2>3 DEF PagesSteady
    <3> QED
      BY <1>2, <2>1, <2>3, <3>1 DEF PagesWalked
  <2> QED
    BY <1>1, <2>2, <2>3
<1>8. PagesSteady' => \A id \in w4'.owed \ w4'.listed : PagesOwing(id)'
  BY <1>4, <1>5, <1>7 DEF PagesOwing
<1>9. /\ DOMAIN w4' = {"at", "off", "total", "page", "listed", "near", "owed", "calm"}
      /\ w4'.at = "counted" /\ w4'.off \in Nat /\ w4'.total \in Nat
      /\ w4'.page \cup w4'.listed \cup w4'.near \subseteq 1..last'
      /\ "remove" \in DOMAIN left' /\ (plan'.left["remove"] = 0 => left'["remove"] = 0)
      /\ \A id \in DOMAIN rows' : rows'[id].hit \in Nat
  BY <1>1, <1>2, <1>3, <1>4 DEF PagesWalked
<1> QED
  BY <1>5, <1>6, <1>8, <1>9 DEF PagesWalked, PagesOwing

LEMMA PagesReadHitsKeeps ==
    ASSUME PagesKept, PagesJoined, Pages!ReadHits
    PROVE  PagesWalked'
<1>1. /\ UNCHANGED <<plan, rows, last, left>> /\ w4.at = "counted"
      /\ w4' = [w4 EXCEPT !.at = "read", !.page = IF w4.off >= w4.total THEN {} ELSE Pages!Hits(w4.off)]
  BY DEF Pages!ReadHits
<1>2. PagesWalked /\ last \in Nat /\ DOMAIN rows \subseteq 1..last
  BY DEF PagesKept, PagesJoined
<1>3. \A id \in Pages!Found : Pages!Place(id) \in Nat
  BY <1>2, PagesPlaceIs DEF PagesWalked
<1>4. /\ DOMAIN w4' = DOMAIN w4 /\ w4'.at = "read" /\ w4'.total = w4.total /\ w4'.owed = w4.owed /\ w4'.calm = w4.calm
      /\ w4'.off = w4.off /\ w4'.listed = w4.listed /\ w4'.near = w4.near
      /\ w4'.page = IF w4.off >= w4.total THEN {} ELSE Pages!Hits(w4.off)
  BY <1>1, <1>2 DEF PagesWalked
<1>5. Pages!Found' = Pages!Found /\ (\A id : Pages!Place(id)' = Pages!Place(id)) /\ PagesSteady' = PagesSteady
  BY <1>1, <1>4 DEF Pages!Found, Pages!Place, Pages!Sooner, PagesSteady
<1>6. w4'.page \subseteq Pages!Found /\ Pages!Found \subseteq 1..last
  BY <1>2, <1>4, PagesPlaceIs DEF Pages!Hits, PagesWalked
<1>7. ASSUME NEW id \in w4.owed \ w4.listed, PagesSteady
      PROVE  /\ id \in w4'.page \/ Pages!Place(id) >= w4.off + Limit
             /\ Pages!Place(id) < w4.total
  <2>1. Pages!Place(id) \in Nat /\ id \in Pages!Found
    BY <1>2, <1>3 DEF PagesWalked
  <2>2. Pages!Place(id) >= w4.off /\ Pages!Place(id) < w4.total /\ w4.off \in Nat /\ w4.total \in Nat
    BY <1>1, <1>2, <1>7 DEF PagesWalked
  <2>3. Limit \in Nat
    BY DEF PagesJoined, PagesPlanned
  <2>4. ~(w4.off >= w4.total)
    BY <2>1, <2>2
  <2>5. CASE Pages!Place(id) < w4.off + Limit
    BY <1>4, <2>1, <2>2, <2>4, <2>5 DEF Pages!Hits
  <2> QED
    BY <2>1, <2>2, <2>3, <2>5
<1>8. PagesSteady' => \A id \in w4'.owed \ w4'.listed : PagesOwing(id)'
  BY <1>4, <1>5, <1>7 DEF PagesOwing
<1>9. /\ DOMAIN w4' = {"at", "off", "total", "page", "listed", "near", "owed", "calm"}
      /\ w4'.at = "read" /\ w4'.off \in Nat /\ w4'.total \in Nat
      /\ w4'.page \cup w4'.listed \cup w4'.near \subseteq 1..last'
      /\ "remove" \in DOMAIN left' /\ (plan'.left["remove"] = 0 => left'["remove"] = 0)
      /\ (\A id \in DOMAIN rows' : rows'[id].hit \in Nat) /\ w4'.owed \subseteq Pages!Found'
  BY <1>1, <1>2, <1>4, <1>5, <1>6 DEF PagesWalked
<1> QED
  BY <1>8, <1>9 DEF PagesWalked, PagesOwing

LEMMA PagesRenderKeeps ==
    ASSUME PagesKept, PagesJoined, Pages!Render
    PROVE  PagesWalked'
<1> DEFINE there == w4.page \cap DOMAIN rows
           beside == UNION {Pages!Neighbours(id) : id \in there}
<1>1. /\ UNCHANGED <<plan, rows, last, left>> /\ w4.at = "read"
      /\ w4' = [w4 EXCEPT !.listed = @ \cup there, !.page = {}, !.off = @ + Limit, !.near = beside,
                          !.at = IF w4.off + Limit >= w4.total THEN "done" ELSE "more"]
  BY DEF Pages!Render
<1>2. PagesWalked /\ last \in Nat /\ DOMAIN rows \subseteq 1..last /\ Limit \in Nat
  BY DEF PagesKept, PagesJoined, PagesPlanned
<1>3. \A id \in Pages!Found : Pages!Place(id) \in Nat /\ id \in DOMAIN rows
  BY <1>2, PagesPlaceIs DEF PagesWalked, Pages!Found
<1>0. beside \subseteq 1..last
  BY <1>2 DEF Pages!Neighbours, Pages!Largest, Pages!Smallest
<1> HIDE DEF beside
<1>4. /\ DOMAIN w4' = DOMAIN w4 /\ w4'.total = w4.total /\ w4'.owed = w4.owed /\ w4'.calm = w4.calm
      /\ w4'.off = w4.off + Limit /\ w4'.listed = w4.listed \cup there /\ w4'.near = beside /\ w4'.page = {}
      /\ w4'.at = IF w4.off + Limit >= w4.total THEN "done" ELSE "more"
  BY <1>1, <1>2 DEF PagesWalked
<1>5. Pages!Found' = Pages!Found /\ (\A id : Pages!Place(id)' = Pages!Place(id)) /\ PagesSteady' = PagesSteady
  BY <1>1, <1>4 DEF Pages!Found, Pages!Place, Pages!Sooner, PagesSteady
<1>7. ASSUME NEW id \in w4.owed \ w4'.listed, PagesSteady
      PROVE  w4'.at = "more" /\ Pages!Place(id) >= w4'.off
  <2>1. Pages!Place(id) \in Nat /\ id \in DOMAIN rows
    BY <1>2, <1>3 DEF PagesWalked
  <2>2. id \in w4.owed \ w4.listed /\ id \notin w4.page
    BY <1>4, <1>7, <2>1
  <2>3. Pages!Place(id) >= w4.off + Limit /\ Pages!Place(id) < w4.total /\ w4.off \in Nat /\ w4.total \in Nat
    BY <1>1, <1>2, <1>7, <2>2 DEF PagesWalked
  <2>4. ~(w4.off + Limit >= w4.total)
    BY <1>2, <2>1, <2>3
  <2> QED
    BY <1>4, <2>3, <2>4
<1>8. PagesSteady' => \A id \in w4'.owed \ w4'.listed : PagesOwing(id)'
  BY <1>4, <1>5, <1>7 DEF PagesOwing
<1>9. /\ DOMAIN w4' = {"at", "off", "total", "page", "listed", "near", "owed", "calm"}
      /\ w4'.at \in {"more", "done"} /\ w4'.off \in Nat /\ w4'.total \in Nat
      /\ w4'.page \cup w4'.listed \cup w4'.near \subseteq 1..last'
      /\ "remove" \in DOMAIN left' /\ (plan'.left["remove"] = 0 => left'["remove"] = 0)
      /\ (\A id \in DOMAIN rows' : rows'[id].hit \in Nat) /\ w4'.owed \subseteq Pages!Found'
  BY <1>0, <1>1, <1>2, <1>4, <1>5 DEF PagesWalked
<1> QED
  BY <1>8, <1>9 DEF PagesWalked, PagesOwing

LEMMA PagesWriteWalks ==
    ASSUME PagesKept, PagesJoined, NEW line \in plan.lines, Pages!Write(line)
    PROVE  PagesWalked'
<1>1. /\ plan' = plan /\ DOMAIN left' = DOMAIN left /\ ("remove" \in DOMAIN left => left'["remove"] = left["remove"])
      /\ w4' = [w4 EXCEPT !.calm = FALSE]
  BY DEF Pages!Write
<1>2. /\ last' = last + 1 /\ last' \notin DOMAIN rows
      /\ DOMAIN rows' = DOMAIN rows \cup {last'} /\ rows'[last'] = line /\ \A id \in DOMAIN rows : rows'[id] = rows[id]
  BY PagesWriteLines
<1>3. PagesWalked /\ last \in Nat /\ DOMAIN rows \subseteq 1..last /\ line.hit \in Nat
  BY DEF PagesKept, PagesJoined, PagesPlanned
<1>4. /\ DOMAIN w4' = DOMAIN w4 /\ w4'.at = w4.at /\ w4'.total = w4.total /\ w4'.owed = w4.owed /\ w4'.calm = FALSE
      /\ w4'.off = w4.off /\ w4'.listed = w4.listed /\ w4'.near = w4.near /\ w4'.page = w4.page
  BY <1>1, <1>3 DEF PagesWalked
<1>5. Pages!Found \subseteq Pages!Found' /\ Pages!Found' \subseteq Pages!Found \cup {last'} /\ Pages!Found \subseteq 1..last
  BY <1>1, <1>2, <1>3 DEF Pages!Found
<1>6. PagesSteady' => PagesSteady /\ plan.sort = "oldest"
  BY <1>1, <1>4 DEF PagesSteady
<1>7. ASSUME NEW id \in Pages!Found, plan.sort = "oldest"
      PROVE  Pages!Place(id)' = Pages!Place(id)
  <2>1. id \in Nat /\ ~(last' < id)
    BY <1>2, <1>3, <1>5
  <2>2. {x \in Pages!Found' : x < id} = {x \in Pages!Found : x < id}
    BY <1>5, <2>1
  <2>3. /\ Pages!Place(id) = Pages!Cardinality({x \in Pages!Found : x < id})
        /\ Pages!Place(id)' = Pages!Cardinality({x \in Pages!Found' : x < id})
    BY <1>1, <1>7 DEF Pages!Place, Pages!Sooner
  <2> QED
    BY <2>2, <2>3
<1>8. PagesSteady' /\ w4'.at # "idle" => \A id \in w4'.owed \ w4'.listed : PagesOwing(id)'
  <2> SUFFICES ASSUME PagesSteady', w4.at # "idle", NEW id \in w4.owed \ w4.listed
               PROVE  PagesOwing(id)'
    BY <1>4
  <2>1. Pages!Place(id)' = Pages!Place(id)
    BY <1>3, <1>6, <1>7 DEF PagesWalked
  <2>2. PagesOwing(id)
    BY <1>3, <1>6 DEF PagesWalked, PagesOwing
  <2> QED
    BY <1>4, <2>1, <2>2 DEF PagesOwing
<1>9. /\ DOMAIN w4' = {"at", "off", "total", "page", "listed", "near", "owed", "calm"}
      /\ w4'.at \in {"idle", "counted", "read", "more", "done"} /\ w4'.off \in Nat /\ w4'.total \in Nat
      /\ w4'.page \cup w4'.listed \cup w4'.near \subseteq 1..last'
      /\ "remove" \in DOMAIN left' /\ (plan'.left["remove"] = 0 => left'["remove"] = 0)
      /\ (\A id \in DOMAIN rows' : rows'[id].hit \in Nat) /\ w4'.owed \subseteq Pages!Found'
      /\ (w4'.at = "idle" => w4'.off = 0)
  <2>1. 1..last \subseteq 1..last'
    BY <1>2, <1>3
  <2>2. \A id \in DOMAIN rows' : rows'[id].hit \in Nat
    BY <1>2, <1>3 DEF PagesWalked
  <2> QED
    BY <1>1, <1>3, <1>4, <1>5, <2>1, <2>2 DEF PagesWalked
<1> QED
  BY <1>8, <1>9 DEF PagesWalked, PagesOwing

LEMMA PagesRemoveWalks ==
    ASSUME PagesKept, PagesJoined, NEW gone \in DOMAIN rows, Pages!Remove(gone)
    PROVE  PagesWalked'
<1>1. /\ plan' = plan /\ last' = last /\ left["remove"] > 0 /\ DOMAIN left' = DOMAIN left
      /\ rows' = [x \in DOMAIN rows \ {gone} |-> rows[x]]
      /\ w4' = [w4 EXCEPT !.calm = FALSE, !.owed = @ \ {gone}]
  BY DEF Pages!Remove
<1>2. PagesWalked
  BY DEF PagesJoined
<1>3. DOMAIN rows' = DOMAIN rows \ {gone} /\ \A x \in DOMAIN rows' : rows'[x] = rows[x]
  BY <1>1
<1>4. /\ DOMAIN w4' = DOMAIN w4 /\ w4'.at = w4.at /\ w4'.total = w4.total /\ w4'.owed = w4.owed \ {gone} /\ w4'.calm = FALSE
      /\ w4'.off = w4.off /\ w4'.listed = w4.listed /\ w4'.near = w4.near /\ w4'.page = w4.page
  BY <1>1, <1>2 DEF PagesWalked
<1>5. Pages!Found' = Pages!Found \ {gone}
  BY <1>1, <1>3 DEF Pages!Found
<1>6. plan.left["remove"] # 0 /\ ~PagesSteady'
  <2>1. left["remove"] # 0
    BY <1>1
  <2> QED
    BY <1>1, <1>2, <1>4, <2>1 DEF PagesSteady, PagesWalked
<1>7. plan'.left["remove"] = 0 => left'["remove"] = 0
  BY <1>1, <1>6
<1> QED
  BY <1>1, <1>2, <1>3, <1>4, <1>5, <1>6, <1>7 DEF PagesWalked

---------------------------------------------------------------------------
LEMMA PagesJoinedFirst ==
    ASSUME Pages!PlansFit, Pages!Init
    PROVE  PagesJoined
<1>1. /\ plan \in ReadingPlans /\ left = plan.left /\ rows = plan.rows /\ last = Pages!Cardinality(DOMAIN rows)
      /\ shown = [held |-> {}, pinned |-> {}, more |-> FALSE, after |-> TRUE] /\ w1 = {}
      /\ req = [at |-> "idle", way |-> "open", from |-> 0, page |-> {}, more |-> FALSE, after |-> FALSE]
      /\ w4 = [at |-> "idle", off |-> 0, total |-> 0, page |-> {}, listed |-> {}, near |-> {}, owed |-> {}, calm |-> TRUE]
  BY DEF Pages!Init, Pages!NoRequest, Pages!NoWalk
<1>2. PagesPlanned /\ PagesRooted /\ "remove" \in DOMAIN left /\ (\A id \in DOMAIN rows : rows[id].hit \in Nat)
  BY <1>1 DEF Pages!PlansFit, PagesPlanned, PagesRooted
<1>3. last \in Nat
  BY <1>1, FS_CardinalityType, PagesCounts DEF Pages!PlansFit
<1>4. PagesLines
  BY <1>1, <1>3 DEF PagesLines
<1>5. PagesCover /\ PagesComing
  BY <1>1 DEF PagesCover, PagesComing, PagesCursors, PagesOver
<1>6. PagesWalked
  BY <1>1, <1>2 DEF PagesWalked
<1> QED
  BY <1>2, <1>4, <1>5, <1>6 DEF PagesJoined

LEMMA PagesJoinedStays ==
    ASSUME PagesKept, PagesJoined, [Pages!Next]_(Pages!vars)
    PROVE  PagesJoined'
<1> DEFINE Held == PagesRooted' /\ PagesLines' /\ PagesCover' /\ PagesComing'
<1>0. PagesPlanned /\ PagesRooted /\ PagesLines /\ PagesCover /\ PagesComing /\ PagesWalked
  BY DEF PagesJoined
<1>a. "remove" \in DOMAIN left
  BY <1>0 DEF PagesWalked
<1>1. ASSUME Pages!Asking
      PROVE  Held /\ PagesWalked'
  <2>1. /\ UNCHANGED <<plan, rows, last, w4>> /\ DOMAIN left' = DOMAIN left /\ left'["remove"] = left["remove"]
    BY <1>1, <1>a DEF Pages!Asking, Pages!Ask
  <2> QED
    BY <1>0, <1>1, <2>1, PagesAskKeeps, PagesWalkedStill
<1>2. ASSUME Pages!ReadNewer
      PROVE  Held /\ PagesWalked'
  <2>1. UNCHANGED <<plan, rows, last, w4, left>>
    BY <1>2 DEF Pages!ReadNewer
  <2> QED
    BY <1>0, <1>2, <2>1, PagesReadNewerKeeps, PagesWalkedStill
<1>3. ASSUME Pages!ProbeBefore
      PROVE  Held /\ PagesWalked'
  <2>1. UNCHANGED <<plan, rows, last, w4, left>>
    BY <1>3 DEF Pages!ProbeBefore
  <2> QED
    BY <1>0, <1>3, <2>1, PagesProbeBeforeKeeps, PagesWalkedStill
<1>4. ASSUME Pages!ProbeAfter
      PROVE  Held /\ PagesWalked'
  <2>1. UNCHANGED <<plan, rows, last, w4, left>>
    BY <1>4 DEF Pages!ProbeAfter
  <2> QED
    BY <1>0, <1>4, <2>1, PagesProbeAfterKeeps, PagesWalkedStill
<1>5. ASSUME Pages!Answer
      PROVE  Held /\ PagesWalked'
  <2>1. UNCHANGED <<plan, rows, last, w4, left>>
    BY <1>5 DEF Pages!Answer
  <2> QED
    BY <1>0, <1>5, <2>1, PagesAnswerKeeps, PagesWalkedStill
<1>6. ASSUME Pages!Count
      PROVE  Held /\ PagesWalked'
  <2>1. UNCHANGED <<plan, rows, last, req, shown, w1>>
    BY <1>6 DEF Pages!Count
  <2> QED
    BY <1>0, <1>6, <2>1, PagesStill, PagesCountKeeps
<1>7. ASSUME Pages!ReadHits
      PROVE  Held /\ PagesWalked'
  <2>1. UNCHANGED <<plan, rows, last, req, shown, w1>>
    BY <1>7 DEF Pages!ReadHits
  <2> QED
    BY <1>0, <1>7, <2>1, PagesStill, PagesReadHitsKeeps
<1>8. ASSUME Pages!Render
      PROVE  Held /\ PagesWalked'
  <2>1. UNCHANGED <<plan, rows, last, req, shown, w1>>
    BY <1>8 DEF Pages!Render
  <2> QED
    BY <1>0, <1>8, <2>1, PagesStill, PagesRenderKeeps
<1>9. ASSUME NEW line \in plan.lines, Pages!Write(line)
      PROVE  Held /\ PagesWalked' /\ plan' = plan
  BY <1>9, PagesWriteKeeps, PagesWriteWalks DEF Pages!Write
<1>10. ASSUME NEW id \in DOMAIN rows, Pages!Remove(id)
       PROVE  Held /\ PagesWalked' /\ plan' = plan
  BY <1>10, PagesRemoveKeeps, PagesRemoveWalks DEF Pages!Remove
<1>11. ASSUME NEW c \in plan.clients, Pages!Mark(c) \/ \E id \in 0..last : Pages!ReadUpTo(c, id)
       PROVE  Held /\ PagesWalked' /\ plan' = plan
  <2>1. /\ UNCHANGED <<plan, rows, last, req, shown, w1, w4>>
        /\ DOMAIN left' = DOMAIN left /\ left'["remove"] = left["remove"]
    BY <1>11, <1>a DEF Pages!Mark, Pages!ReadUpTo
  <2> QED
    BY <1>0, <2>1, PagesStill, PagesWalkedStill
<1>12. ASSUME UNCHANGED Pages!vars
       PROVE  Held /\ PagesWalked'
  <2>1. UNCHANGED <<plan, rows, last, req, shown, w1, w4, left>>
    BY <1>12 DEF Pages!vars
  <2> QED
    BY <1>0, <2>1, PagesStill, PagesWalkedStill
<1>13. plan' = plan
  BY <1>9, <1>10, <1>11 DEF Pages!Next, Pages!vars, Pages!Asking, Pages!Ask, Pages!ReadNewer, Pages!ProbeBefore, Pages!ProbeAfter,
     Pages!Answer, Pages!Count, Pages!ReadHits, Pages!Render
<1>14. PagesPlanned'
  BY <1>0, <1>13 DEF PagesPlanned
<1> QED
  BY <1>1, <1>2, <1>3, <1>4, <1>5, <1>6, <1>7, <1>8, <1>9, <1>10, <1>11, <1>12, <1>14 DEF PagesJoined, Pages!Next

LEMMA PagesJoinedShows ==
    ASSUME PagesKept, PagesJoined
    PROVE  Pages!NoGaps /\ Pages!WalkMissesNothing
<1>1. PagesLines /\ PagesCover /\ PagesWalked /\ last \in Nat /\ Pages!Lines \subseteq 1..last
  BY PagesLinesIn DEF PagesJoined, PagesKept
<1>2. Pages!WalkMissesNothing
  BY <1>1 DEF Pages!WalkMissesNothing, PagesWalked, PagesSteady
<1>3. Pages!Cursors(shown.held) = PagesCursors /\ PagesCursors \subseteq 1..last
  BY <1>1 DEF Pages!Cursors, PagesCursors, PagesLines
<1>4. SUFFICES ASSUME PagesCursors # {}, NEW id \in Pages!Lines
               PROVE  /\ Pages!Lowest(PagesCursors) <= id /\ id <= Pages!Highest(PagesCursors) => id \in shown.held
                      /\ id < Pages!Lowest(PagesCursors) => shown.more \/ id \in shown.held
                      /\ plan.kind = "lines" /\ id > Pages!Highest(PagesCursors) => shown.after
  BY <1>2, <1>3 DEF Pages!NoGaps
<1>5. /\ Pages!Lowest(PagesCursors) \in PagesCursors /\ Pages!Highest(PagesCursors) \in PagesCursors
      /\ \A y \in PagesCursors : y <= Pages!Highest(PagesCursors)
  BY <1>1, <1>3, <1>4, PagesLowestIs, PagesHighestIs
<1>6. id \in Nat /\ Pages!Lowest(PagesCursors) \in Nat /\ Pages!Highest(PagesCursors) \in Nat
  <2>1. \A x \in PagesCursors : x \in Nat
    BY <1>1, <1>3
  <2> QED
    BY <1>1, <1>5, <2>1
<1>7. id \in shown.held \/ (shown.more /\ id < Pages!Lowest(PagesCursors) /\ id < Pages!Highest(PagesCursors))
      \/ (shown.after /\ Pages!Lowest(PagesCursors) < id /\ Pages!Highest(PagesCursors) < id)
  BY <1>1, <1>5 DEF PagesCover, PagesUnder, PagesOver
<1>8. plan.kind = "lines" /\ id \in shown.held => id <= Pages!Highest(PagesCursors)
  BY <1>1, <1>5 DEF PagesLines, PagesCursors
<1> QED
  BY <1>6, <1>7, <1>8
---------------------------------------------------------------------------
(* The tree.  w1 is the hub's copy of the table.  Requests check a parent  *)
(* by that copy and write later, so the inductive invariant is about what  *)
(* they hold meanwhile: a parent that is still there is still a category,  *)
(* and so is the kind of the channel that moves, because ids are not used  *)
(* again and no step changes a kind; and a list on its way into the hub is *)
(* a tree itself.                                                          *)

LEMMA TreeCounts == \A S : Tree!Cardinality(S) = Cardinality(S) /\ Tree!IsFiniteSet(S) = IsFiniteSet(S)
  BY DEF Tree!Cardinality, Cardinality, Tree!IsFiniteSet, IsFiniteSet

TreeColumns == {"parent", "kind", "name", "over"}
TreeFields == {"at", "op", "id", "row", "list", "gone", "sync", "to", "alone"}

\* A tree whose ids were given out, of rows that have the kinds of those in the table.
TreeSound(tree, table, n) ==
    /\ DOMAIN tree \subseteq 1..n /\ Tree!Shapely(tree)
    /\ \A id \in DOMAIN tree :
        DOMAIN tree[id] = TreeColumns /\ (id \in DOMAIN table => tree[id].kind = table[id].kind)

\* A parent that was checked.
TreeParented(parent, table, n) ==
    parent # Tree!Root => parent \in 1..n /\ (parent \in DOMAIN table => table[parent].kind = Tree!Category)

\* What a request that is being answered has checked, or read.
TreeFits(r, table, n) ==
    /\ r.at \in {"join", "install"} => TreeSound(r.list, table, n)
    /\ r.at = "insert" =>
        DOMAIN r.row = TreeColumns /\ TreeParented(r.row.parent, table, n) /\ (r.row.parent # Tree!Root =>
            r.row.kind # Tree!Category)
    /\ r.at \in {"over", "write"} =>
        /\ r.id \in 1..n /\ TreeParented(r.row.parent, table, n)
        /\ r.row.parent # Tree!Root /\ r.id \in DOMAIN table => table[r.id].kind # Tree!Category

\* The inductive invariant.
TreeRooted ==
    /\ last \in Nat /\ TreeSound(rows, rows, last) /\ TreeSound(w1, rows, last)
    /\ DOMAIN req = Tree!People
    /\ \A p \in Tree!People : DOMAIN req[p] = TreeFields /\ TreeFits(req[p], rows, last)

\* A later table: kinds stay, and ids that are new were not given out before.
TreeLater(table, n, table2, m) ==
    /\ n \in Nat /\ m \in Nat /\ n <= m
    /\ \A id \in DOMAIN table2 : (id \in DOMAIN table /\ table2[id].kind = table[id].kind) \/ id > n

-----------------------------------------------------------------------------
(* What was checked or read of one table stays good for a later one.        *)

LEMMA TreeSoundLater ==
    ASSUME NEW tree, NEW table, NEW n, NEW table2, NEW m, TreeLater(table, n, table2, m), TreeSound(tree, table, n)
    PROVE  TreeSound(tree, table2, m)
BY DEF TreeLater, TreeSound

LEMMA TreeParentedLater ==
    ASSUME NEW parent, NEW table, NEW n, NEW table2, NEW m, TreeLater(table, n, table2, m), TreeParented(parent,
               table, n)
    PROVE  TreeParented(parent, table2, m)
BY DEF TreeLater, TreeParented, Tree!Root

LEMMA TreeFitsLater ==
    ASSUME NEW r, NEW table, NEW n, NEW table2, NEW m, TreeLater(table, n, table2, m), TreeFits(r, table, n)
    PROVE  TreeFits(r, table2, m)
<1>1. r.at \in {"join", "install"} => TreeSound(r.list, table2, m)
  BY TreeSoundLater DEF TreeFits
<1>2. r.at = "insert" =>
        DOMAIN r.row = TreeColumns /\ TreeParented(r.row.parent, table2, m) /\ (r.row.parent # Tree!Root =>
            r.row.kind # Tree!Category)
  BY TreeParentedLater DEF TreeFits
<1>3. r.at \in {"over", "write"} =>
        /\ r.id \in 1..m /\ TreeParented(r.row.parent, table2, m)
        /\ r.row.parent # Tree!Root /\ r.id \in DOMAIN table2 => table2[r.id].kind # Tree!Category
  <2>1. r.at \in {"over", "write"} => TreeParented(r.row.parent, table2, m)
    BY TreeParentedLater DEF TreeFits
  <2> QED
    BY <2>1 DEF TreeFits, TreeLater
<1> QED
  BY <1>1, <1>2, <1>3 DEF TreeFits

LEMMA TreeLaterItself ==
    ASSUME NEW table, NEW n \in Nat
    PROVE  TreeLater(table, n, table, n)
BY DEF TreeLater

\* A request that differs from another in nothing that matters here.
TreeSame(r, s) == DOMAIN s = TreeFields /\ s.at = r.at /\ s.id = r.id /\ s.row = r.row /\ s.list = r.list

\* A step of the request of one person keeps the invariant if the tables stay trees and what the request
\* has in hand afterwards is good.
LEMMA TreeOneRequest ==
    ASSUME TreeRooted, plan' = plan, TreeLater(rows, last, rows', last'), TreeSound(rows', rows', last'),
           TreeSound(w1', rows', last'), DOMAIN req' = Tree!People,
           NEW p \in Tree!People, DOMAIN req'[p] = TreeFields, TreeFits(req'[p], rows', last'),
           \A q \in Tree!People \ {p} : TreeSame(req[q], req'[q])
    PROVE  TreeRooted'
<1>1. ASSUME NEW q \in Tree!People \ {p}
      PROVE  DOMAIN req'[q] = TreeFields /\ TreeFits(req'[q], rows', last')
  <2>1. TreeFits(req[q], rows', last')
    BY TreeFitsLater DEF TreeRooted
  <2> QED
    BY <2>1 DEF TreeSame, TreeFits
<1>2. Tree!People' = Tree!People
  BY DEF Tree!People
<1>3. last' \in Nat
  BY DEF TreeLater
<1> QED
  BY <1>1, <1>2, <1>3 DEF TreeRooted

\* The same for a step that leaves the tables alone.
LEMMA TreeOnlyRequest ==
    ASSUME TreeRooted, UNCHANGED <<plan, rows, last, w1>>, DOMAIN req' = Tree!People,
           NEW p \in Tree!People, DOMAIN req'[p] = TreeFields, TreeFits(req'[p], rows, last),
           \A q \in Tree!People \ {p} : TreeSame(req[q], req'[q])
    PROVE  TreeRooted'
<1>1. TreeLater(rows, last, rows', last')
  BY TreeLaterItself DEF TreeRooted
<1> QED
  BY <1>1, TreeOneRequest DEF TreeRooted

\* How requests are moved on, answered and begun.
LEMMA TreeMoved ==
    ASSUME TreeRooted, NEW p \in Tree!People, NEW at, Tree!Move(p, at)
    PROVE  /\ DOMAIN req' = Tree!People /\ DOMAIN req'[p] = TreeFields /\ req'[p].at = at
           /\ req'[p].id = req[p].id /\ req'[p].row = req[p].row /\ req'[p].list = req[p].list
           /\ \A q \in Tree!People \ {p} : TreeSame(req[q], req'[q])
BY DEF TreeRooted, Tree!Move, TreeSame, TreeFields

LEMMA TreeAnswered ==
    ASSUME TreeRooted, NEW p \in Tree!People, Tree!Done(p)
    PROVE  /\ DOMAIN req' = Tree!People /\ DOMAIN req'[p] = TreeFields /\ req'[p].at = "free"
           /\ \A q \in Tree!People \ {p} : TreeSame(req[q], req'[q])
BY DEF TreeRooted, Tree!Done, TreeSame, TreeFields, Tree!Free

LEMMA TreeBegun ==
    ASSUME TreeRooted, NEW p \in Tree!People, NEW r, DOMAIN r = TreeFields, Tree!Ask(p, r)
    PROVE  /\ DOMAIN req' = Tree!People /\ DOMAIN req'[p] = TreeFields
           /\ req'[p].at = r.at /\ req'[p].id = r.id /\ req'[p].row = r.row
           /\ \A q \in Tree!People \ {p} : TreeSame(req[q], req'[q])
BY DEF TreeRooted, Tree!Ask, TreeSame, TreeFields

-----------------------------------------------------------------------------
(* The initial states                                                       *)

LEMMA TreeInitRooted ==
    ASSUME Tree!PlansFit, Tree!Init
    PROVE  TreeRooted
<1>1. plan \in TreePlans /\ rows = plan.rows /\ w1 = plan.rows /\ last = Tree!Cardinality(DOMAIN plan.rows)
  BY DEF Tree!Init
<1>2. /\ Tree!IsFiniteSet(DOMAIN plan.rows) /\ DOMAIN plan.rows = 1..Tree!Cardinality(DOMAIN plan.rows) /\
             Tree!Shapely(plan.rows)
      /\ \A id \in DOMAIN plan.rows : DOMAIN plan.rows[id] = TreeColumns
  BY <1>1 DEF Tree!PlansFit, TreeColumns
<1>3. last \in Nat
  BY <1>1, <1>2, FS_CardinalityType, TreeCounts
<1>4. TreeSound(rows, rows, last) /\ TreeSound(w1, rows, last)
  BY <1>1, <1>2 DEF TreeSound
<1>5. DOMAIN req = Tree!People /\ \A p \in Tree!People : req[p] = Tree!Free
  BY DEF Tree!Init, Tree!People
<1>6. DOMAIN Tree!Free = TreeFields /\ TreeFits(Tree!Free, rows, last)
  BY DEF Tree!Free, TreeFields, TreeFits
<1> QED
  BY <1>3, <1>4, <1>5, <1>6 DEF TreeRooted

-----------------------------------------------------------------------------
(* The steps                                                                *)

\* What a request may be given for a parent.
LEMMA TreeParentGood ==
    ASSUME TreeRooted, NEW kind, NEW parent, Tree!ParentFits(kind, parent)
    PROVE  TreeParented(parent, rows, last) /\ (parent # Tree!Root => kind # Tree!Category)
BY DEF TreeRooted, TreeSound, TreeParented, Tree!ParentFits

LEMMA TreeCreateStep ==
    ASSUME TreeRooted, NEW p \in Tree!People, Tree!Create(p)
    PROVE  TreeRooted'
<1>1. PICK kind \in plan.kinds, parent \in {Tree!Root} \cup DOMAIN w1 :
        /\ Tree!ParentFits(kind, parent)
        /\ Tree!Ask(p, [Tree!Free EXCEPT !.at = "insert", !.op = "create",
                               !.row = [parent |-> parent, kind |-> kind, name |-> "new", over |-> <<>>]])
  BY DEF Tree!Create
<1> DEFINE row == [parent |-> parent, kind |-> kind, name |-> "new", over |-> <<>>]
           r == [Tree!Free EXCEPT !.at = "insert", !.op = "create", !.row = row]
<1>2. DOMAIN r = TreeFields /\ r.at = "insert" /\ r.row = row
  BY DEF Tree!Free, TreeFields
<1>3. /\ DOMAIN req' = Tree!People /\ DOMAIN req'[p] = TreeFields /\ req'[p].at = "insert" /\ req'[p].row = row
      /\ \A q \in Tree!People \ {p} : TreeSame(req[q], req'[q])
  <2>1. Tree!Ask(p, r)
    BY <1>1
  <2> HIDE DEF r
  <2> QED
    BY <1>2, <2>1, TreeBegun
<1>4. DOMAIN row = TreeColumns /\ row.parent = parent /\ row.kind = kind
  BY DEF TreeColumns
<1>5. TreeFits(req'[p], rows, last)
  <2> HIDE DEF row
  <2> QED
    BY <1>1, <1>3, <1>4, TreeParentGood DEF TreeFits
<1> QED
  BY <1>3, <1>5, TreeOnlyRequest DEF Tree!Create, Tree!tables

\* A row under an id that is new and a parent that is there leaves a tree.
LEMMA TreeInsertStep ==
    ASSUME TreeRooted, NEW p \in Tree!People, Tree!Insert(p)
    PROVE  TreeRooted'
<1>1. CASE ~Tree!There(req[p].row.parent)
  <2>1. Tree!Done(p) /\ UNCHANGED <<plan, rows, last, w1>>
    BY <1>1 DEF Tree!Insert
  <2>2. TreeFits(req'[p], rows, last)
    BY <2>1, TreeAnswered DEF TreeFits
  <2> QED
    BY <2>1, <2>2, TreeAnswered, TreeOnlyRequest
<1>2. CASE Tree!There(req[p].row.parent)
  <2> DEFINE row == req[p].row
  <2>1. /\ last' = last + 1 /\ rows' = Tree!With(rows, last', row)
        /\ req' = [req EXCEPT ![p].at = "list", ![p].id = last'] /\ UNCHANGED <<plan, w1>>
    BY <1>2 DEF Tree!Insert
  <2>2. DOMAIN row = TreeColumns /\ TreeParented(row.parent, rows, last) /\ (row.parent # Tree!Root =>
            row.kind # Tree!Category)
    BY DEF TreeRooted, TreeFits, Tree!Insert, Tree!At
  <2>3. row.parent = Tree!Root \/ row.parent \in DOMAIN rows
    BY <1>2 DEF Tree!There
  <2>4. DOMAIN rows' = DOMAIN rows \cup {last'} /\ rows'[last'] = row /\ last' \notin DOMAIN rows
        /\ \A id \in DOMAIN rows : rows'[id] = rows[id]
    BY <2>1 DEF Tree!With, TreeRooted, TreeSound
  <2>5. TreeLater(rows, last, rows', last')
    BY <2>1, <2>4 DEF TreeLater, TreeRooted
  <2>6. TreeSound(rows', rows', last')
    <3>1. DOMAIN rows' \subseteq 1..last'
      BY <2>1, <2>4 DEF TreeRooted, TreeSound
    <3>2. Tree!Shapely(rows')
      <4> HIDE DEF row
      <4>1. ASSUME NEW id \in DOMAIN rows', rows'[id].parent # Tree!Root
            PROVE  /\ rows'[id].parent \in DOMAIN rows' /\ rows'[rows'[id].parent].kind = Tree!Category
                   /\ rows'[id].kind # Tree!Category
        BY <4>1, <2>2, <2>3, <2>4 DEF TreeRooted, TreeSound, Tree!Shapely, TreeParented
      <4> QED
        BY <4>1 DEF Tree!Shapely
    <3>3. \A id \in DOMAIN rows' : DOMAIN rows'[id] = TreeColumns
      BY <2>2, <2>4 DEF TreeRooted, TreeSound
    <3> QED
      BY <3>1, <3>2, <3>3 DEF TreeSound
  <2>7. TreeSound(w1', rows', last')
    BY <2>1, <2>5, TreeSoundLater DEF TreeRooted
  <2>8. /\ DOMAIN req' = Tree!People /\ DOMAIN req'[p] = TreeFields /\ req'[p].at = "list"
        /\ \A q \in Tree!People \ {p} : TreeSame(req[q], req'[q])
    BY <2>1 DEF TreeRooted, TreeSame, TreeFields
  <2>9. TreeFits(req'[p], rows', last')
    BY <2>8 DEF TreeFits
  <2> QED
    BY <2>1, <2>5, <2>6, <2>7, <2>8, <2>9, TreeOneRequest
<1> QED
  BY <1>1, <1>2

\* The row to write back has the parent of the copy, or one that was checked by it.
LEMMA TreeUpdateStep ==
    ASSUME TreeRooted, NEW p \in Tree!People, Tree!Update(p)
    PROVE  TreeRooted'
<1>1. PICK id \in DOMAIN w1, change \in plan.changes :
        /\ "parent" \in DOMAIN change => Tree!ParentFits(w1[id].kind, change.parent)
        /\ Tree!Ask(p, [Tree!Free EXCEPT !.at = IF "over" \in DOMAIN change THEN "over" ELSE "write", !.id = id,
                               !.op = IF DOMAIN change = {"name"} THEN "rename" ELSE "reshape",
                               !.row = Tree!Patched(w1[id], change), !.sync = Tree!Affected(id)])
  BY DEF Tree!Update
<1> DEFINE row == Tree!Patched(w1[id], change)
           r == [Tree!Free EXCEPT !.at = IF "over" \in DOMAIN change THEN "over" ELSE "write", !.id = id,
                             !.op = IF DOMAIN change = {"name"} THEN "rename" ELSE "reshape",
                             !.row = row, !.sync = Tree!Affected(id)]
<1>2. DOMAIN r = TreeFields /\ r.at \in {"over", "write"} /\ r.id = id /\ r.row = row
  <2> HIDE DEF row
  <2> QED
    BY DEF Tree!Free, TreeFields
<1>3. /\ DOMAIN req' = Tree!People /\ DOMAIN req'[p] = TreeFields /\ req'[p].at \in {"over", "write"}
      /\ req'[p].id = id /\ req'[p].row = row
      /\ \A q \in Tree!People \ {p} : TreeSame(req[q], req'[q])
  <2>1. Tree!Ask(p, r)
    BY <1>1
  <2> HIDE DEF row, r
  <2> QED
    BY <1>2, <2>1, TreeBegun
<1>4. row.parent = IF "parent" \in DOMAIN change THEN change.parent ELSE w1[id].parent
  BY DEF TreeRooted, TreeSound, TreeColumns, Tree!Patched
<1>5. TreeParented(row.parent, rows, last) /\ (row.parent # Tree!Root => w1[id].kind # Tree!Category)
  <2> HIDE DEF row
  <2>1. CASE "parent" \in DOMAIN change
    BY <1>1, <1>4, <2>1, TreeParentGood
  <2>2. CASE "parent" \notin DOMAIN change
    BY <1>4, <2>2 DEF TreeRooted, TreeSound, Tree!Shapely, TreeParented
  <2> QED
    BY <2>1, <2>2
<1>6. TreeFits(req'[p], rows, last)
  <2> HIDE DEF row
  <2> QED
    BY <1>3, <1>5 DEF TreeFits, TreeRooted, TreeSound
<1> QED
  BY <1>3, <1>6, TreeOnlyRequest DEF Tree!Update, Tree!tables

\* A table with the ids and kinds of another and the same parents is as good.
LEMMA TreeReshaped ==
    ASSUME TreeRooted, NEW tree, NEW new, TreeSound(tree, rows, last), DOMAIN new = DOMAIN tree,
           \A id \in DOMAIN tree : DOMAIN new[id] = TreeColumns /\ new[id].kind = tree[id].kind /\
               new[id].parent = tree[id].parent
    PROVE  TreeSound(new, rows, last)
BY DEF TreeSound, Tree!Shapely

LEMMA TreeSetOverwritesStep ==
    ASSUME TreeRooted, NEW p \in Tree!People, Tree!SetOverwrites(p)
    PROVE  TreeRooted'
<1> DEFINE id == req[p].id
<1>1. UNCHANGED <<plan, last, w1>> /\ req[p].at = "over"
  BY DEF Tree!SetOverwrites, Tree!At
<1>2. DOMAIN rows' = DOMAIN rows /\ \A c \in DOMAIN rows :
        DOMAIN rows'[c] = TreeColumns /\ rows'[c].kind = rows[c].kind /\ rows'[c].parent = rows[c].parent
  <2>1. PICK over : rows' = rows \/ rows' = [rows EXCEPT ![id].over = over]
    BY DEF Tree!SetOverwrites
  <2> QED
    BY <2>1 DEF TreeRooted, TreeSound, TreeColumns
<1>3. TreeLater(rows, last, rows', last')
  BY <1>1, <1>2 DEF TreeLater, TreeRooted
<1>4. TreeSound(rows', rows', last') /\ TreeSound(w1', rows', last')
  <2>1. TreeSound(rows', rows, last)
    BY <1>2, TreeReshaped DEF TreeRooted
  <2> QED
    BY <1>1, <1>3, <2>1, TreeSoundLater DEF TreeRooted
<1>5. Tree!Move(p, "write") \/ Tree!Done(p)
  BY DEF Tree!SetOverwrites
<1>6. CASE Tree!Move(p, "write")
  <2>1. TreeFits(req[p], rows', last')
    BY <1>3, TreeFitsLater DEF TreeRooted
  <2>2. TreeFits(req'[p], rows', last')
    BY <1>1, <1>6, <2>1, TreeMoved DEF TreeFits
  <2> QED
    BY <1>1, <1>3, <1>4, <1>6, <2>2, TreeMoved, TreeOneRequest
<1>7. CASE Tree!Done(p)
  <2>1. TreeFits(req'[p], rows', last')
    BY <1>7, TreeAnswered DEF TreeFits
  <2> QED
    BY <1>1, <1>3, <1>4, <1>7, <2>1, TreeAnswered, TreeOneRequest
<1> QED
  BY <1>5, <1>6, <1>7

LEMMA TreeWriteStep ==
    ASSUME TreeRooted, NEW p \in Tree!People, Tree!Write(p)
    PROVE  TreeRooted'
<1> DEFINE id == req[p].id
           row == req[p].row
<1>1. UNCHANGED <<plan, last, w1>> /\ req[p].at = "write"
  BY DEF Tree!Write, Tree!At
<1>2. CASE ~(id \in DOMAIN rows /\ Tree!There(row.parent))
  <2>1. Tree!Done(p) /\ rows' = rows
    BY <1>2 DEF Tree!Write
  <2>2. TreeFits(req'[p], rows, last)
    BY <2>1, TreeAnswered DEF TreeFits
  <2> QED
    BY <1>1, <2>1, <2>2, TreeAnswered, TreeOnlyRequest
<1>3. CASE id \in DOMAIN rows /\ Tree!There(row.parent)
  <2>1. Tree!Move(p, "list") /\ rows' = [rows EXCEPT ![id].parent = row.parent, ![id].name = row.name]
    BY <1>3 DEF Tree!Write
  <2>2. TreeParented(row.parent, rows, last) /\ (row.parent # Tree!Root => rows[id].kind # Tree!Category)
    BY <1>1, <1>3 DEF TreeRooted, TreeFits
  <2>3. /\ DOMAIN rows' = DOMAIN rows /\ rows'[id].parent = row.parent
        /\ \A c \in DOMAIN rows : DOMAIN rows'[c] = TreeColumns /\ rows'[c].kind = rows[c].kind
        /\ \A c \in DOMAIN rows \ {id} : rows'[c] = rows[c]
    BY <1>3, <2>1 DEF TreeRooted, TreeSound, TreeColumns
  <2>4. TreeLater(rows, last, rows', last')
    BY <1>1, <2>3 DEF TreeLater, TreeRooted
  <2>5. Tree!Shapely(rows')
    <3> HIDE DEF id, row
    <3>1. ASSUME NEW c \in DOMAIN rows', rows'[c].parent # Tree!Root
          PROVE  /\ rows'[c].parent \in DOMAIN rows' /\ rows'[rows'[c].parent].kind = Tree!Category
                 /\ rows'[c].kind # Tree!Category
      <4>1. CASE c = id
        BY <1>3, <2>2, <2>3, <3>1, <4>1 DEF Tree!There, TreeParented
      <4>2. CASE c # id
        BY <2>3, <3>1, <4>2 DEF TreeRooted, TreeSound, Tree!Shapely
      <4> QED
        BY <4>1, <4>2
    <3> QED
      BY <3>1 DEF Tree!Shapely
  <2>6. TreeSound(rows', rows', last') /\ TreeSound(w1', rows', last')
    <3>1. TreeSound(rows', rows', last')
      BY <1>1, <2>3, <2>5 DEF TreeSound, TreeRooted
    <3> QED
      BY <1>1, <2>4, <3>1, TreeSoundLater DEF TreeRooted
  <2>7. TreeFits(req'[p], rows', last')
    BY <2>1, TreeMoved DEF TreeFits
  <2> QED
    BY <1>1, <2>1, <2>4, <2>6, <2>7, TreeMoved, TreeOneRequest
<1> QED
  BY <1>2, <1>3

\* What is inside the channel goes with it, and nothing is inside what was inside.
LEMMA TreeRemoveStep ==
    ASSUME TreeRooted, NEW p \in Tree!People, Tree!Remove(p)
    PROVE  TreeRooted'
<1> DEFINE id == req[p].id
<1>1. UNCHANGED <<plan, last, w1>>
  BY DEF Tree!Remove
<1>2. CASE id \notin DOMAIN rows
  <2>1. Tree!Done(p) /\ rows' = rows
    BY <1>2 DEF Tree!Remove
  <2>2. TreeFits(req'[p], rows, last)
    BY <2>1, TreeAnswered DEF TreeFits
  <2> QED
    BY <1>1, <2>1, <2>2, TreeAnswered, TreeOnlyRequest
<1>3. CASE id \in DOMAIN rows
  <2>1. Tree!Move(p, "list") /\ rows' = Tree!Without(rows, {id} \cup Tree!Inside(id))
    BY <1>3 DEF Tree!Remove
  <2>2. /\ DOMAIN rows' = {c \in DOMAIN rows : c # id /\ rows[c].parent # id}
        /\ \A c \in DOMAIN rows' : rows'[c] = rows[c]
    BY <2>1 DEF Tree!Without, Tree!Inside
  <2>3. TreeLater(rows, last, rows', last')
    BY <1>1, <2>2 DEF TreeLater, TreeRooted
  <2>4. Tree!Shapely(rows')
    <3> HIDE DEF id
    <3>1. ASSUME NEW c \in DOMAIN rows', rows'[c].parent # Tree!Root
          PROVE  /\ rows'[c].parent \in DOMAIN rows' /\ rows'[rows'[c].parent].kind = Tree!Category
                 /\ rows'[c].kind # Tree!Category
      <4>1. /\ c \in DOMAIN rows /\ rows[c].parent \in DOMAIN rows /\ rows[rows[c].parent].kind = Tree!Category
            /\ rows[c].kind # Tree!Category /\ rows[c].parent # id
        BY <2>2, <3>1 DEF TreeRooted, TreeSound, Tree!Shapely
      <4>2. id # Tree!Root
        BY <1>3 DEF TreeRooted, TreeSound, Tree!Root
      <4>3. rows[rows[c].parent].parent # id
        BY <4>1, <4>2 DEF TreeRooted, TreeSound, Tree!Shapely
      <4> QED
        BY <2>2, <3>1, <4>1, <4>3
    <3> QED
      BY <3>1 DEF Tree!Shapely
  <2>5. TreeSound(rows', rows', last') /\ TreeSound(w1', rows', last')
    <3>1. TreeSound(rows', rows', last')
      BY <1>1, <2>2, <2>4 DEF TreeSound, TreeRooted
    <3> QED
      BY <1>1, <2>3, <3>1, TreeSoundLater DEF TreeRooted
  <2>6. TreeFits(req'[p], rows', last')
    BY <2>1, TreeMoved DEF TreeFits
  <2> QED
    BY <1>1, <2>1, <2>3, <2>5, <2>6, TreeMoved, TreeOneRequest
<1> QED
  BY <1>2, <1>3

LEMMA TreeListStep ==
    ASSUME TreeRooted, NEW p \in Tree!People, Tree!List(p)
    PROVE  TreeRooted'
<1>1. req' = [req EXCEPT ![p].at = "join", ![p].list = rows] /\ UNCHANGED <<plan, rows, last, w1>>
  BY DEF Tree!List, Tree!tables
<1>2. /\ DOMAIN req' = Tree!People /\ DOMAIN req'[p] = TreeFields /\ req'[p].at = "join" /\ req'[p].list = rows
      /\ \A q \in Tree!People \ {p} : TreeSame(req[q], req'[q])
  BY <1>1 DEF TreeRooted, TreeSame, TreeFields
<1>3. TreeFits(req'[p], rows, last)
  BY <1>2 DEF TreeFits, TreeRooted
<1> QED
  BY <1>1, <1>2, <1>3, TreeOnlyRequest

\* The overwrites are put to the rows that were read, whatever has become of them.
LEMMA TreeJoinStep ==
    ASSUME TreeRooted, NEW p \in Tree!People, Tree!Join(p)
    PROVE  TreeRooted'
<1> DEFINE old == req[p].list
           new == [id \in DOMAIN old |-> [old[id] EXCEPT !.over = IF id \in DOMAIN rows THEN rows[id].over ELSE <<>>]]
<1>1. req' = [req EXCEPT ![p].at = "install", ![p].list = new] /\ UNCHANGED <<plan, rows, last, w1>>
  BY DEF Tree!Join, Tree!tables
<1>2. TreeSound(old, rows, last)
  BY DEF Tree!Join, Tree!At, TreeRooted, TreeFits
<1>3. DOMAIN new = DOMAIN old /\ \A id \in DOMAIN old :
        DOMAIN new[id] = TreeColumns /\ new[id].kind = old[id].kind /\ new[id].parent = old[id].parent
  BY <1>2 DEF TreeSound, TreeColumns
<1>4. TreeSound(new, rows, last)
  <2> HIDE DEF old, new
  <2> QED
    BY <1>2, <1>3, TreeReshaped
<1>5. /\ DOMAIN req' = Tree!People /\ DOMAIN req'[p] = TreeFields /\ req'[p].at = "install" /\ req'[p].list = new
      /\ \A q \in Tree!People \ {p} : TreeSame(req[q], req'[q])
  <2> HIDE DEF new
  <2> QED
    BY <1>1 DEF TreeRooted, TreeSame, TreeFields
<1>6. TreeFits(req'[p], rows, last)
  <2> HIDE DEF new
  <2> QED
    BY <1>4, <1>5 DEF TreeFits
<1> QED
  BY <1>1, <1>5, <1>6, TreeOnlyRequest

LEMMA TreeInstallStep ==
    ASSUME TreeRooted, NEW p \in Tree!People, Tree!Install(p)
    PROVE  TreeRooted'
<1>1. w1' = req[p].list /\ UNCHANGED <<plan, rows, last>>
  BY DEF Tree!Install, Tree!tables
<1>2. TreeLater(rows, last, rows', last')
  BY <1>1, TreeLaterItself DEF TreeRooted
<1>3. TreeSound(rows', rows', last') /\ TreeSound(w1', rows', last')
  BY <1>1 DEF Tree!Install, Tree!At, TreeRooted, TreeFits
<1>4. PICK at \in {"oust", "sync", "tell"} : Tree!Move(p, at)
  BY DEF Tree!Install
<1>5. TreeFits(req'[p], rows', last')
  BY <1>4, TreeMoved DEF TreeFits
<1> QED
  BY <1>1, <1>2, <1>3, <1>4, <1>5, TreeMoved, TreeOneRequest

\* The cascade takes overwrites, and no channel.
LEMMA TreeDropRoleStep ==
    ASSUME TreeRooted, NEW p \in Tree!People, Tree!DropRole(p)
    PROVE  TreeRooted'
<1>1. PICK r \in w2 \ {Tree!Everyone} :
        /\ Tree!Ask(p, [Tree!Free EXCEPT !.at = "sync", !.op = "drop", !.sync = Tree!People])
        /\ rows' = [id \in DOMAIN rows |-> [rows[id] EXCEPT !.over = Tree!Without(@, {r})]]
  BY DEF Tree!DropRole
<1>2. UNCHANGED <<plan, last, w1>>
  BY DEF Tree!DropRole
<1>3. DOMAIN rows' = DOMAIN rows /\ \A c \in DOMAIN rows :
        DOMAIN rows'[c] = TreeColumns /\ rows'[c].kind = rows[c].kind /\ rows'[c].parent = rows[c].parent
  BY <1>1 DEF TreeRooted, TreeSound, TreeColumns
<1>4. TreeLater(rows, last, rows', last')
  BY <1>2, <1>3 DEF TreeLater, TreeRooted
<1>5. TreeSound(rows', rows', last') /\ TreeSound(w1', rows', last')
  <2>1. TreeSound(rows', rows, last)
    BY <1>3, TreeReshaped DEF TreeRooted
  <2> QED
    BY <1>2, <1>4, <2>1, TreeSoundLater DEF TreeRooted
<1> DEFINE begun == [Tree!Free EXCEPT !.at = "sync", !.op = "drop", !.sync = Tree!People]
<1>6. DOMAIN begun = TreeFields /\ begun.at = "sync"
  BY DEF Tree!Free, TreeFields
<1>7. /\ DOMAIN req' = Tree!People /\ DOMAIN req'[p] = TreeFields /\ req'[p].at = "sync"
      /\ \A q \in Tree!People \ {p} : TreeSame(req[q], req'[q])
  <2>1. Tree!Ask(p, begun)
    BY <1>1
  <2> HIDE DEF begun
  <2> QED
    BY <1>6, <2>1, TreeBegun
<1>8. TreeFits(req'[p], rows', last')
  BY <1>7 DEF TreeFits
<1> QED
  BY <1>2, <1>4, <1>5, <1>7, <1>8, TreeOneRequest

\* Where a request has nothing in hand that the tables will be made of.
TreeElsewhere == {"free", "below", "remove", "list", "oust", "tell", "sync", "send", "evict", "build", "ready",
    "seat"}

\* Steps that only begin such a request.
LEMMA TreeBeginStep ==
    ASSUME TreeRooted, NEW p \in Tree!People, Tree!Delete(p) \/ Tree!Grant(p) \/ Tree!Enter(p) \/ Tree!Sit(p)
    PROVE  TreeRooted'
<1>1. UNCHANGED <<plan, rows, last, w1>>
  BY DEF Tree!Delete, Tree!Grant, Tree!Enter, Tree!Sit, Tree!tables
<1>2. PICK r : Tree!Ask(p, r) /\ DOMAIN r = TreeFields /\ r.at \in TreeElsewhere
  <2>1. CASE Tree!Delete(p)
    <3>1. PICK id : Tree!Ask(p, [Tree!Free EXCEPT !.at = "below", !.op = "delete", !.id = id])
      BY <2>1 DEF Tree!Delete
    <3>2. /\ DOMAIN [Tree!Free EXCEPT !.at = "below", !.op = "delete", !.id = id] = TreeFields
          /\ [Tree!Free EXCEPT !.at = "below", !.op = "delete", !.id = id].at \in TreeElsewhere
      BY DEF Tree!Free, TreeFields, TreeElsewhere
    <3> QED
      BY <3>1, <3>2
  <2>2. CASE Tree!Grant(p)
    <3>1. PICK q : Tree!Ask(p, [Tree!Free EXCEPT !.at = "sync", !.op = "grant", !.sync = {q}])
      BY <2>2 DEF Tree!Grant
    <3>2. /\ DOMAIN [Tree!Free EXCEPT !.at = "sync", !.op = "grant", !.sync = {q}] = TreeFields
          /\ [Tree!Free EXCEPT !.at = "sync", !.op = "grant", !.sync = {q}].at \in TreeElsewhere
      BY DEF Tree!Free, TreeFields, TreeElsewhere
    <3> QED
      BY <3>1, <3>2
  <2>3. CASE Tree!Enter(p)
    <3>1. Tree!Ask(p, [Tree!Free EXCEPT !.at = "build", !.op = "enter"])
      BY <2>3 DEF Tree!Enter
    <3>2. /\ DOMAIN [Tree!Free EXCEPT !.at = "build", !.op = "enter"] = TreeFields
          /\ [Tree!Free EXCEPT !.at = "build", !.op = "enter"].at \in TreeElsewhere
      BY DEF Tree!Free, TreeFields, TreeElsewhere
    <3> QED
      BY <3>1, <3>2
  <2>4. CASE Tree!Sit(p)
    <3>1. PICK id : Tree!Ask(p, [Tree!Free EXCEPT !.at = "seat", !.op = "sit", !.id = id])
      BY <2>4 DEF Tree!Sit
    <3>2. /\ DOMAIN [Tree!Free EXCEPT !.at = "seat", !.op = "sit", !.id = id] = TreeFields
          /\ [Tree!Free EXCEPT !.at = "seat", !.op = "sit", !.id = id].at \in TreeElsewhere
      BY DEF Tree!Free, TreeFields, TreeElsewhere
    <3> QED
      BY <3>1, <3>2
  <2> QED
    BY <2>1, <2>2, <2>3, <2>4
<1>3. TreeFits(req'[p], rows, last)
  BY <1>2, TreeBegun DEF TreeFits, TreeElsewhere
<1> QED
  BY <1>1, <1>2, <1>3, TreeBegun, TreeOnlyRequest

\* Steps that only move one on, or answer it.
LEMMA TreeMoveStep ==
    ASSUME TreeRooted, NEW p \in Tree!People,
           Tree!Oust(p) \/ Tree!Tell(p) \/ Tree!Send(p) \/ Tree!Synced(p) \/ Tree!Evict(p) \/ Tree!Ready(p) \/
               Tree!Seat(p)
    PROVE  TreeRooted'
<1>1. UNCHANGED <<plan, rows, last, w1>>
  BY DEF Tree!Oust, Tree!Tell, Tree!Send, Tree!Synced, Tree!Evict, Tree!Ready, Tree!Seat, Tree!tables
<1>2. Tree!Done(p) \/ \E at \in TreeElsewhere : Tree!Move(p, at)
  BY DEF Tree!Oust, Tree!Tell, Tree!Send, Tree!Synced, Tree!Evict, Tree!Ready, Tree!Seat, TreeElsewhere
<1>3. /\ DOMAIN req' = Tree!People /\ DOMAIN req'[p] = TreeFields /\ req'[p].at \in TreeElsewhere
      /\ \A q \in Tree!People \ {p} : TreeSame(req[q], req'[q])
  <2>1. "free" \in TreeElsewhere
    BY DEF TreeElsewhere
  <2> QED
    BY <1>2, <2>1, TreeAnswered, TreeMoved
<1>4. TreeFits(req'[p], rows, last)
  BY <1>3 DEF TreeFits, TreeElsewhere
<1> QED
  BY <1>1, <1>3, <1>4, TreeOnlyRequest

\* Steps that take down who is to be told, and what.
LEMMA TreeNoteStep ==
    ASSUME TreeRooted, NEW p \in Tree!People, Tree!Below(p) \/ Tree!Build(p) \/ \E q \in Tree!People :
               Tree!Resync(p, q)
    PROVE  TreeRooted'
<1>1. UNCHANGED <<plan, rows, last, w1>>
  BY DEF Tree!Below, Tree!Build, Tree!Resync, Tree!tables
<1>2. /\ DOMAIN req' = Tree!People /\ DOMAIN req'[p] = TreeFields /\ req'[p].at \in TreeElsewhere
      /\ \A q \in Tree!People \ {p} : TreeSame(req[q], req'[q])
  <2>1. CASE Tree!Below(p)
    BY <2>1 DEF Tree!Below, TreeRooted, TreeSame, TreeFields, TreeElsewhere
  <2>2. CASE Tree!Build(p)
    BY <2>2 DEF Tree!Build, TreeRooted, TreeSame, TreeFields, TreeElsewhere
  <2>3. ASSUME NEW q \in Tree!People, Tree!Resync(p, q)
        PROVE  /\ DOMAIN req' = Tree!People /\ DOMAIN req'[p] = TreeFields /\ req'[p].at \in TreeElsewhere
               /\ \A x \in Tree!People \ {p} : TreeSame(req[x], req'[x])
    <3>1. PICK list, sync : req' = [req EXCEPT ![p].at = "send", ![p].sync = sync, ![p].to = q, ![p].list = list]
      BY <2>3 DEF Tree!Resync
    <3> QED
      BY <3>1 DEF TreeRooted, TreeSame, TreeFields, TreeElsewhere
  <2> QED
    BY <2>1, <2>2, <2>3
<1>3. TreeFits(req'[p], rows, last)
  BY <1>2 DEF TreeFits, TreeElsewhere
<1> QED
  BY <1>1, <1>2, <1>3, TreeOnlyRequest

LEMMA TreeNextRooted ==
    ASSUME TreeRooted, [Tree!Next]_(Tree!vars)
    PROVE  TreeRooted'
<1>1. CASE UNCHANGED Tree!vars
  BY <1>1 DEF Tree!vars, Tree!tables, TreeRooted, Tree!People
<1>2. ASSUME NEW p \in Tree!People, Tree!Step(p)
      PROVE  TreeRooted'
  BY <1>2, TreeCreateStep, TreeInsertStep, TreeUpdateStep, TreeSetOverwritesStep, TreeWriteStep, TreeRemoveStep,
        TreeListStep, TreeJoinStep,
     TreeInstallStep, TreeDropRoleStep, TreeBeginStep, TreeMoveStep, TreeNoteStep DEF Tree!Step
<1> QED
  BY <1>1, <1>2 DEF Tree!Next

-----------------------------------------------------------------------------

\* Whatever requests overlap, with any number of people and any tree to begin with: in the table and in the
\* hub's copy every channel is at the root or in a category that is there, and no category is in another.
THEOREM TreeStaysShaped == Tree!PlansFit /\ Tree!Spec => []Tree!TreeShape
<1>1. Tree!PlansFit /\ Tree!Init => TreeRooted
  BY TreeInitRooted
<1>2. TreeRooted /\ [Tree!Next]_(Tree!vars) => TreeRooted'
  BY TreeNextRooted
<1>3. TreeRooted => Tree!TreeShape
  BY DEF TreeRooted, TreeSound, Tree!TreeShape
<1> QED
  BY <1>1, <1>2, <1>3, PTL DEF Tree!Spec
-----------------------------------------------------------------------------
(* Coming in.  rows are the users, w1 the clock, w2 the tokens, w3 the       *)
(* marks, w4 the bans, w5 what they catch, w6 the connections, w7 the tokens *)
(* that clients hold, w8 the sweeper, shown the lists of bans.               *)
(*                                                                           *)
(* A ban catches a connection half way through the door, or it has yet to    *)
(* look at the sessions, or came after the screening (DoorScreened): ids     *)
(* of bans grow, so one that was screened against is older than all that    *)
(* catch it later.  Where requests take turns, a list differs from the table *)
(* by what the one request is about to tell (DoorShown).                     *)

DoorConnFields == {"at", "op", "user", "token", "tries", "no", "closing", "asked", "missed"}
DoorReqFields == {"at", "op", "user", "ban", "handles", "ends", "no", "list"}
DoorPlanned ==
    /\ plan.owner # 0 /\ plan.days \subseteq Nat /\ MaxDays \in Nat
    /\ "enter" \in DOMAIN left /\ (plan.turns => left["enter"] = 0)

\* The tables refer to each other, and ids are not given out twice.
DoorNumbered ==
    /\ w1 \in 0..MaxDays /\ w8 \in {"rest", "tokens", "marks", "guests"}
    /\ DOMAIN last = {"user", "token", "ban", "conn"} /\ last.user \in Nat /\ last.token \in Nat
    /\ last.ban \in Nat
    /\ DOMAIN rows \subseteq 1..last.user
    /\ \A t \in w2 : DOMAIN t = {"no", "user", "used"} /\ t.user \in DOMAIN rows /\ t.no \in 1..last.token
    /\ \A k \in w3 : k.user \in DOMAIN rows
    /\ DOMAIN w4 \subseteq 1..last.ban /\ \A b \in DOMAIN w4 : w4[b].ends \in Nat
    /\ \A h \in DOMAIN w5 : w5[h] \in DOMAIN w4 /\ \A u : h = <<"user", u>> => u \in 1..last.user

\* What a connection and a request hold.
DoorConnFits(r) ==
    /\ DOMAIN r = DoorConnFields /\ r.asked \in 0..last.ban
    /\ r.at \in {"out", "asked", "passed", "known", "seated", "on"}
    /\ r.at \in {"asked", "passed"} /\ r.op = "guest" => r.user = 0
DoorStored(r) == r.op = "ban" /\ r.at \in {"close", "tokens", "user", "enforce"}
DoorReqFits(m, r) ==
    /\ DOMAIN r = DoorReqFields
    /\ r.at \in {"free", "store", "close", "tokens", "user", "enforce", "tell", "show"}
    /\ r.at = "free" => r.op = "none"
    /\ r.at = "store" =>
        /\ r.op = "ban" /\ r.ban = 0 /\ r.ends \in Nat /\ r.handles \cap Door!HandlesAt(plan.place[m]) = {}
        /\ \A u : <<"user", u>> \in r.handles => u \in 1..last.user
    /\ r.at = "enforce" => r.op = "ban"
    /\ r.at \in {"close", "tokens", "user"} => r.op \in {"ban", "kick"}
    /\ r.at = "tell" => r.op \in {"ban", "lift"} /\ r.ban \in 1..last.ban
    /\ DoorStored(r) => r.ban \in 1..last.ban /\ \A h \in DOMAIN w5 : w5[h] = r.ban => h \in r.handles
    /\ r.at = "show" => r.op = "list" /\ r.list \subseteq 1..last.ban
DoorHeld ==
    /\ DOMAIN w6 = Door!Conns /\ DOMAIN req = Door!Conns /\ DOMAIN shown = Door!Conns
    /\ \A c \in Door!Conns : DoorConnFits(w6[c]) /\ DoorReqFits(c, req[c]) /\ shown[c] \subseteq 1..last.ban
    /\ \A c, x \in Door!Conns : Door!InHub(c) /\ Door!InHub(x) /\ w6[c].user = w6[x].user => x = c

\* A ban that has not seen the sessions yet, and one that came after the screening.
DoorScreened ==
    \A c \in Door!Conns :
        ~Door!IsOwner(w6[c].user) =>
            \A h \in Door!Handles(c) \cap DOMAIN w5 : Door!Active(w5[h]) =>
                /\ w6[c].at \in {"passed", "known"} => w5[h] > w6[c].asked
                /\ Door!InHub(c) /\ ~w6[c].closing => Door!Pending(w5[h]) \/ w5[h] \in w6[c].missed

\* What a moderator who was there from the start shows, while a request is on its way.
DoorDue(list, r) ==
    IF r.at = "free" THEN list = DOMAIN w4
    ELSE IF DoorStored(r) \/ (r.at = "tell" /\ r.op = "ban") THEN list = DOMAIN w4 \ {r.ban} /\ r.ban \in DOMAIN w4
    ELSE IF r.at = "tell" THEN list = DOMAIN w4 \cup {r.ban} /\ r.ban \notin DOMAIN w4
    ELSE list = DOMAIN w4 /\ (r.at = "show" => r.list = list)
DoorShown ==
    plan.turns =>
        /\ \A c \in Door!Conns : Door!At(c, "on") \/ Door!At(c, "out")
        /\ \A m, x \in Door!Conns : m # x => Door!Step(m, "free") \/ Door!Step(x, "free")
        /\ \A c \in Door!Conns : Door!Staff(c) =>
            /\ \A m \in Door!Conns : ~Door!Step(m, "free") => DoorDue(shown[c], req[m])
            /\ (\A m \in Door!Conns : Door!Step(m, "free")) => shown[c] = DOMAIN w4

DoorKept == DoorPlanned /\ DoorNumbered /\ DoorHeld /\ Door!OwnDoorOpen /\ DoorScreened /\ DoorShown

LEMMA DoorKeptFirst ==
    ASSUME Door!PlansFit, Door!Init
    PROVE  DoorKept
<1> USE DEF Door!Conns
<1>0. plan \in DoorPlans /\ plan.users \in Seq([account : BOOLEAN, seen : Nat])
  BY ZenonT(30) DEF Door!Init, Door!PlansFit
<1>1. Len(plan.users) \in Nat /\ DOMAIN plan.users = 1..Len(plan.users)
  BY <1>0
<1>b. left = plan.left /\ last.ban = 0 /\ w4 = <<>> /\ w5 = <<>>
  BY ZenonT(30) DEF Door!Init
<1>2. DoorPlanned
  <2>1. /\ MaxDays \in Nat /\ plan.owner \in DOMAIN plan.users /\ plan.days \subseteq Nat
        /\ "enter" \in DOMAIN plan.left /\ (plan.turns => plan.left["enter"] = 0)
    BY <1>0 DEF Door!PlansFit
  <2> QED
    BY <1>1, <1>b, <2>1 DEF DoorPlanned
<1>a. DOMAIN w4 = {} /\ DOMAIN w5 = {}
  BY <1>b
<1>3. DoorNumbered
  <2>1. /\ w1 = 0 /\ w8 = "rest"
        /\ last = [user |-> Len(plan.users), token |-> Len(plan.users), ban |-> 0, conn |-> 9]
        /\ rows = plan.users /\ w2 = {[no |-> u, user |-> u, used |-> 0] : u \in DOMAIN plan.users}
        /\ w3 = plan.marks
    BY ZenonT(30) DEF Door!Init
  <2>2. \A k \in plan.marks : k.user \in DOMAIN plan.users
    BY <1>0 DEF Door!PlansFit
  <2>3. MaxDays \in Nat
    BY DEF Door!PlansFit
  <2>4. \A t \in w2 : DOMAIN t = {"no", "user", "used"} /\ t.user \in DOMAIN rows /\ t.no \in 1..last.token
    BY <1>1, <2>1
  <2> QED
    BY <1>a, <1>1, <2>1, <2>2, <2>3, <2>4 DEF DoorNumbered
<1>4. /\ w6 = [c \in Door!Conns |-> IF plan.in[c] = 0 THEN Door!Out
                               ELSE [Door!Out EXCEPT !.at = "on", !.user = plan.in[c], !.token = plan.in[c], !.no = plan.in[c]]]
      /\ req = [c \in Door!Conns |-> Door!Free] /\ shown = [c \in Door!Conns |-> {}] /\ last.ban = 0
  BY ZenonT(30) DEF Door!Init
<1>5. ASSUME NEW c \in Door!Conns
      PROVE  /\ DoorConnFits(w6[c]) /\ DoorReqFits(c, req[c]) /\ shown[c] \subseteq 1..last.ban
             /\ w6[c].at \in {"out", "on"} /\ (Door!InHub(c) => w6[c].user = plan.in[c] /\ plan.in[c] # 0)
             /\ Door!Step(c, "free")
  <2>a. w6[c] = Door!Out \/ w6[c] = [Door!Out EXCEPT !.at = "on", !.user = plan.in[c], !.token = plan.in[c], !.no = plan.in[c]]
    BY ZenonT(30), <1>4
  <2>b. DOMAIN w6[c] = DoorConnFields
    BY <2>a DEF DoorConnFields, Door!Out
  <2>c. w6[c].at \in {"out", "on"} /\ w6[c].asked = 0
    <3>1. CASE w6[c] = Door!Out
      BY <3>1 DEF Door!Out
    <3>2. CASE w6[c] = [Door!Out EXCEPT !.at = "on", !.user = plan.in[c], !.token = plan.in[c], !.no = plan.in[c]]
      BY <3>2 DEF Door!Out
    <3> QED
      BY <2>a, <3>1, <3>2
  <2>1. DoorConnFits(w6[c])
    BY <1>b, <2>b, <2>c DEF DoorConnFits
  <2>2. DoorReqFits(c, req[c])
    BY ZenonT(30), <1>4 DEF DoorReqFits, DoorReqFields, DoorStored, Door!Free
  <2>3. w6[c].at \in {"out", "on"} /\ (Door!InHub(c) => w6[c].user = plan.in[c] /\ plan.in[c] # 0)
    BY ZenonT(30), <1>4 DEF Door!InHub, Door!Out
  <2>4. Door!Step(c, "free")
    BY ZenonT(30), <1>4 DEF Door!Step, Door!Free
  <2> QED
    BY ZenonT(30), <1>4, <2>1, <2>2, <2>3, <2>4
<1>6. DoorHeld
  <2>1. \A c, x \in Door!Conns : plan.in[c] # 0 /\ plan.in[c] = plan.in[x] => c = x
    BY <1>0 DEF Door!PlansFit
  <2> QED
    BY ZenonT(30), <1>4, <1>5, <2>1 DEF DoorHeld
<1>7. Door!OwnDoorOpen /\ DoorScreened
  BY <1>a DEF Door!OwnDoorOpen, DoorScreened
<1>8. DoorShown
  BY ZenonT(30), <1>4, <1>5, <1>a DEF DoorShown, Door!At
<1> QED
  BY <1>2, <1>3, <1>6, <1>7, <1>8 DEF DoorKept

\* A connection goes on, and no other does more than lose its place.
DoorVisited(c) ==
    /\ DOMAIN w6' = Door!Conns /\ DOMAIN shown' = Door!Conns
    /\ \A x \in Door!Conns \ {c} : w6'[x] = w6[x] \/ w6'[x] = Door!Out
    /\ \A x \in Door!Conns : shown'[x] = shown[x] \/ (shown'[x] = {} /\ w6'[x] = Door!Out)

LEMMA DoorFramed ==
    ASSUME DoorKept, UNCHANGED <<plan, w5>>, last'.ban = last.ban, last'.user \in Nat, last'.user >= last.user,
           NEW m \in Door!Conns, req'[m] = req[m]
    PROVE  DoorReqFits(m, req[m])'
<1>1. Door!Conns' = Door!Conns /\ Door!HandlesAt(plan.place[m])' = Door!HandlesAt(plan.place[m])
  BY DEF Door!Conns, Door!HandlesAt
<1>2. DoorReqFits(m, req[m]) /\ last.user \in Nat /\ last.ban \in Nat
  BY DEF DoorKept, DoorHeld, DoorNumbered
<1> QED
  BY <1>1, <1>2 DEF DoorReqFits, DoorStored

LEMMA DoorOutFits == last.ban \in Nat => DoorConnFits(Door!Out)
BY DEF DoorConnFits, DoorConnFields, Door!Out

LEMMA DoorVisitKeeps ==
    ASSUME DoorKept, NEW c \in Door!Conns, plan' = plan, w1' = w1, w4' = w4, w5' = w5, req' = req,
           last'.ban = last.ban, last'.user >= last.user,
           DoorNumbered', DoorPlanned', DoorVisited(c), DoorConnFits(w6[c])',
           Door!InHub(c)' => \A x \in Door!Conns \ {c} : Door!InHub(x)' => w6'[x].user # w6'[c].user,
           ~Door!IsOwner(w6'[c].user) =>
            \A h \in Door!Handles(c)' \cap DOMAIN w5 : Door!Active(w5[h]) =>
                /\ w6'[c].at \in {"passed", "known"} => w5[h] > w6'[c].asked
                /\ Door!InHub(c)' /\ ~w6'[c].closing => Door!Pending(w5[h]) \/ w5[h] \in w6'[c].missed,
           plan.turns => w6'[c].at \in {"on", "out"} /\ (Door!Staff(c)' => Door!Staff(c))
    PROVE  DoorKept'
<1> USE DEF DoorVisited
<1>0. Door!Conns' = Door!Conns /\ last.ban \in Nat /\ last'.user \in Nat /\ last.user \in Nat
  BY DEF Door!Conns, DoorKept, DoorNumbered
<1>1. \A m \in Door!Conns : DoorReqFits(m, req[m])'
  BY <1>0, DoorFramed
<1>2. \A x \in Door!Conns : DoorConnFits(w6[x])'
  <2>1. \A x \in Door!Conns : DoorConnFits(w6[x])
    BY DEF DoorKept, DoorHeld
  <2>2. ASSUME NEW x \in Door!Conns \ {c}
        PROVE  DoorConnFits(w6[x])'
    <3>1. CASE w6'[x] = w6[x]
      BY <1>0, <2>1, <3>1 DEF DoorConnFits
    <3>2. CASE w6'[x] = Door!Out
      BY <1>0, <3>2 DEF DoorConnFits, DoorConnFields, Door!Out
    <3> QED
      BY <2>2, <3>1, <3>2
  <2> QED
    BY <2>2
<1>3. \A x \in Door!Conns : (shown[x] \subseteq 1..last.ban)'
  BY <1>0 DEF DoorKept, DoorHeld
<1>a. ASSUME NEW x \in Door!Conns \ {c}, Door!InHub(x)'
      PROVE  w6'[x] = w6[x] /\ Door!InHub(x) /\ w6'[x] # Door!Out /\ (shown'[x] = shown[x])
  BY <1>a DEF Door!InHub, Door!Out
<1>4. \A y, x \in Door!Conns : (Door!InHub(y) /\ Door!InHub(x) /\ w6[y].user = w6[x].user)' => x = y
  BY <1>a DEF DoorKept, DoorHeld
<1>5. DoorHeld'
  BY <1>0, <1>1, <1>2, <1>3, <1>4 DEF DoorHeld, DoorKept
<1>6. Door!OwnDoorOpen'
  BY DEF Door!OwnDoorOpen, DoorKept, Door!HandlesAt
<1>7. \A b : Door!Pending(b)' = Door!Pending(b) /\ Door!Active(b)' = Door!Active(b)
  BY <1>0 DEF Door!Pending, Door!Active
<1>8. DoorScreened'
  <2>1. \A u : Door!IsOwner(u)' = Door!IsOwner(u)
    BY DEF Door!IsOwner
  <2>2. ASSUME NEW x \in Door!Conns \ {c}, ~Door!IsOwner(w6'[x].user),
               NEW h \in Door!Handles(x)' \cap DOMAIN w5, Door!Active(w5[h])
        PROVE  /\ w6'[x].at \in {"passed", "known"} => w5[h] > w6'[x].asked
               /\ Door!InHub(x)' /\ ~w6'[x].closing => Door!Pending(w5[h]) \/ w5[h] \in w6'[x].missed
    <3>1. CASE w6'[x] = Door!Out
      BY <3>1 DEF Door!InHub, Door!Out
    <3>2. CASE w6'[x] = w6[x]
      <4>1. Door!Handles(x)' = Door!Handles(x) /\ Door!InHub(x)' = Door!InHub(x)
        BY <3>2 DEF Door!Handles, Door!HandlesAt, Door!InHub
      <4> QED
        BY <2>2, <3>2, <4>1 DEF DoorKept, DoorScreened
    <3> QED
      BY <2>2, <3>1, <3>2
  <2> QED
    BY <1>0, <1>7, <2>1, <2>2 DEF DoorScreened
<1>9. DoorShown'
  <2>2. ASSUME plan.turns, NEW x \in Door!Conns, Door!Staff(x)'
        PROVE  Door!Staff(x) /\ shown'[x] = shown[x]
    <3>1. CASE x = c
      <4>1. w6'[x] # Door!Out
        BY <2>2 DEF Door!Staff, Door!InHub, Door!Out
      <4> QED
        BY <2>2, <3>1, <4>1
    <3>2. CASE x # c
      BY <2>2, <1>a, <3>2 DEF Door!Staff, Door!Rank, Door!IsOwner, Door!InHub
    <3> QED
      BY <3>1, <3>2
  <2>3. \A m \in Door!Conns : Door!Step(m, "free")' = Door!Step(m, "free")
    BY DEF Door!Step
  <2>4. \A l, r : DoorDue(l, r)' = DoorDue(l, r)
    BY DEF DoorDue, DoorStored
  <2>5. plan.turns => \A x \in Door!Conns : Door!At(x, "on")' \/ Door!At(x, "out")'
    BY DEF DoorKept, DoorShown, Door!At, Door!Out
  <2>6. ASSUME plan.turns, NEW x \in Door!Conns, Door!Staff(x)'
        PROVE  /\ \A m \in Door!Conns : ~Door!Step(m, "free") => DoorDue(shown[x], req[m])'
               /\ (\A m \in Door!Conns : Door!Step(m, "free")) => shown'[x] = DOMAIN w4
    BY <2>2, <2>6 DEF DoorKept, DoorShown, DoorDue, DoorStored
  <2> QED
    BY <1>0, <2>3, <2>5, <2>6 DEF DoorShown, DoorKept
<1> QED
  BY <1>5, <1>6, <1>8, <1>9 DEF DoorKept

LEMMA DoorSpends ==
    ASSUME DoorPlanned, plan' = plan, NEW k, left' = left \/ Door!Spend(k)
    PROVE  DoorPlanned'
<1>1. DOMAIN left' = DOMAIN left
  BY DEF Door!Spend
<1>2. "enter" \in DOMAIN left
  BY DEF DoorPlanned
<1>3. ASSUME left["enter"] = 0
      PROVE  left'["enter"] = 0
  <2>1. CASE k = "enter" /\ Door!Spend(k)
    BY <1>3, <2>1 DEF Door!Spend
  <2>2. CASE k # "enter" /\ Door!Spend(k)
    BY <1>2, <1>3, <2>2 DEF Door!Spend
  <2> QED
    BY <1>3, <2>1, <2>2
<1> QED
  BY <1>1, <1>2, <1>3 DEF DoorPlanned

\* Nobody comes in where requests take turns.
LEMMA DoorOpens ==
    ASSUME DoorKept, NEW c \in Door!Conns, Door!Spend("enter") \/ w6[c].at \notin {"on", "out"}
    PROVE  ~plan.turns
<1>1. DoorPlanned /\ DoorShown
  BY DEF DoorKept
<1>2. CASE Door!Spend("enter")
  BY <1>1, <1>2 DEF DoorPlanned, Door!Spend
<1>3. CASE w6[c].at \notin {"on", "out"}
  BY <1>1, <1>3 DEF DoorShown, Door!At
<1> QED
  BY <1>2, <1>3

LEMMA DoorAttemptKeeps ==
    ASSUME DoorKept, NEW c \in Door!Conns, Door!AsGuest(c) \/ Door!WithToken(c) \/ Door!WithPassword(c)
    PROVE  DoorKept'
<1>1. /\ UNCHANGED <<plan, w1, Door!store, w7, req, shown, w8>>
      /\ \E r : Door!Attempt(c, r) /\ r.at = "asked" /\ DOMAIN r = DoorConnFields /\ r.closing = FALSE
                 /\ r.asked = 0 /\ (r.op = "guest" => r.user = 0)
  <2>1. CASE Door!AsGuest(c)
    <3> DEFINE r == [Door!Out EXCEPT !.at = "asked", !.op = "guest"]
    <3>1. r.at = "asked" /\ DOMAIN r = DoorConnFields /\ r.closing = FALSE /\ r.asked = 0 /\ r.user = 0
      BY DEF Door!Out, DoorConnFields
    <3> QED
      BY <2>1, <3>1 DEF Door!AsGuest
  <2>2. CASE Door!WithToken(c)
    <3>1. PICK t \in w2 : Door!Attempt(c, [Door!Out EXCEPT !.at = "asked", !.op = "token", !.user = t.user, !.token = t.no])
      BY ZenonT(30), <2>2 DEF Door!WithToken
    <3> DEFINE r == [Door!Out EXCEPT !.at = "asked", !.op = "token", !.user = t.user, !.token = t.no]
    <3>2. r.at = "asked" /\ DOMAIN r = DoorConnFields /\ r.closing = FALSE /\ r.asked = 0 /\ r.op = "token"
      BY DEF Door!Out, DoorConnFields
    <3> QED
      BY ZenonT(30), <2>2, <3>1, <3>2 DEF Door!WithToken
  <2>3. CASE Door!WithPassword(c)
    <3>1. PICK u \in plan.knows[c] \cap DOMAIN rows :
            Door!Attempt(c, [Door!Out EXCEPT !.at = "asked", !.op = "login", !.user = u])
      BY ZenonT(30), <2>3 DEF Door!WithPassword
    <3> DEFINE r == [Door!Out EXCEPT !.at = "asked", !.op = "login", !.user = u]
    <3>2. r.at = "asked" /\ DOMAIN r = DoorConnFields /\ r.closing = FALSE /\ r.asked = 0 /\ r.op = "login"
      BY DEF Door!Out, DoorConnFields
    <3> QED
      BY ZenonT(30), <2>3, <3>1, <3>2 DEF Door!WithPassword
  <2> QED
    BY <2>1, <2>2, <2>3
<1>2. PICK r : Door!Attempt(c, r) /\ r.at = "asked" /\ DOMAIN r = DoorConnFields /\ r.closing = FALSE
                 /\ r.asked = 0 /\ (r.op = "guest" => r.user = 0)
  BY <1>1
<1> DEFINE n == IF w6[c].tries = MaxTries THEN [Door!Out EXCEPT !.tries = MaxTries, !.closing = TRUE]
                ELSE [r EXCEPT !.tries = w6[c].tries + 1]
<1>3. Door!Spend("enter") /\ w6' = [w6 EXCEPT ![c] = n]
  BY <1>2 DEF Door!Attempt
<1>4. n.at \in {"out", "asked"} /\ DOMAIN n = DoorConnFields /\ n.asked = 0 /\ (n.at = "asked" /\ n.op = "guest" => n.user = 0)
  <2>1. CASE w6[c].tries = MaxTries
    BY <2>1 DEF Door!Out, DoorConnFields
  <2>2. CASE w6[c].tries # MaxTries
    BY <1>2, <2>2 DEF DoorConnFields
  <2> QED
    BY <2>1, <2>2
<1> HIDE DEF n
<1>5. DoorNumbered' /\ DoorPlanned' /\ last.ban \in Nat /\ last.user \in Nat /\ DOMAIN w6 = Door!Conns /\ DOMAIN shown = Door!Conns
  BY <1>1, <1>3, DoorSpends DEF Door!store, DoorKept, DoorNumbered, DoorHeld
<1>6. last' = last /\ ~plan.turns /\ Door!Conns' = Door!Conns
  BY <1>1, <1>3, DoorOpens DEF Door!store, Door!Conns
<1>7. w6'[c] = n
  BY <1>3, <1>5
<1>8. DoorVisited(c) /\ DoorConnFits(w6[c])' /\ ~Door!InHub(c)'
  BY <1>1, <1>3, <1>4, <1>5, <1>6, <1>7 DEF DoorVisited, DoorConnFits, Door!InHub
<1> QED
  BY <1>1, <1>4, <1>5, <1>6, <1>7, <1>8, DoorVisitKeeps DEF Door!store

LEMMA DoorScreenKeeps ==
    ASSUME DoorKept, NEW c \in Door!Conns, Door!Screen(c)
    PROVE  DoorKept'
<1> DEFINE n == IF Door!IsOwner(w6[c].user) \/ Door!Catching(Door!Handles(c)) = {} THEN [w6[c] EXCEPT !.at = "passed", !.asked = last.ban]
                ELSE [Door!Out EXCEPT !.tries = w6[c].tries]
<1>1. UNCHANGED <<plan, left, w1, Door!store, w7, req, shown, w8>> /\ w6' = [w6 EXCEPT ![c] = n] /\ w6[c].at = "asked"
  BY DEF Door!Screen, Door!At
<1>2. DoorConnFits(w6[c]) /\ last.ban \in Nat /\ last.user \in Nat /\ DOMAIN w6 = Door!Conns /\ DOMAIN shown = Door!Conns
  BY DEF DoorKept, DoorHeld, DoorNumbered
<1>3. /\ n.at \in {"out", "passed"} /\ DOMAIN n = DoorConnFields /\ n.asked \in 0..last.ban
      /\ n.at = "passed" => /\ n.op = w6[c].op /\ n.user = w6[c].user
                            /\ Door!IsOwner(n.user) \/ Door!Catching(Door!Handles(c)) = {}
  <2>1. CASE Door!IsOwner(w6[c].user) \/ Door!Catching(Door!Handles(c)) = {}
    BY <1>2, <2>1 DEF DoorConnFits, DoorConnFields
  <2>2. CASE ~(Door!IsOwner(w6[c].user) \/ Door!Catching(Door!Handles(c)) = {})
    BY <1>2, <2>2 DEF Door!Out, DoorConnFields
  <2> QED
    BY <2>1, <2>2
<1> HIDE DEF n
<1>4. w6'[c] = n /\ last' = last /\ Door!Conns' = Door!Conns /\ ~plan.turns
  BY <1>1, <1>2, DoorOpens DEF Door!store, Door!Conns
<1>5. DoorNumbered' /\ DoorPlanned'
  BY <1>1, <1>4, DoorSpends DEF Door!store, DoorKept, DoorNumbered
<1>6. DoorVisited(c) /\ DoorConnFits(w6[c])' /\ ~Door!InHub(c)'
  BY <1>1, <1>2, <1>3, <1>4 DEF DoorVisited, DoorConnFits, Door!InHub
<1>7. ASSUME n.at = "passed", ~Door!IsOwner(n.user), NEW h \in Door!Handles(c)' \cap DOMAIN w5
      PROVE  ~Door!Active(w5[h])
  <2>1. Door!Handles(c)' = Door!Handles(c)
    BY <1>1, <1>3, <1>4, <1>7 DEF Door!Handles, Door!HandlesAt
  <2> QED
    BY <1>3, <1>7, <2>1 DEF Door!Catching
<1> QED
  BY <1>1, <1>2, <1>3, <1>4, <1>5, <1>6, <1>7, DoorVisitKeeps DEF Door!store

LEMMA DoorMintKeeps ==
    ASSUME DoorKept, NEW c \in Door!Conns, Door!Mint(c)
    PROVE  DoorKept'
<1> DEFINE u == last.user + 1
           t == last.token + 1
           n == [w6[c] EXCEPT !.at = "known", !.user = u, !.token = t]
<1>1. /\ UNCHANGED <<plan, left, w1, w3, w4, w5, req, shown, w8>> /\ w6[c].at = "passed" /\ w6[c].op = "guest"
      /\ rows' = Door!With(rows, u, [account |-> FALSE, seen |-> w1])
      /\ w2' = w2 \cup {[no |-> t, user |-> u, used |-> w1]}
      /\ last' = [last EXCEPT !.user = u, !.token = t]
      /\ w6' = [w6 EXCEPT ![c].at = "known", ![c].user = u, ![c].token = t]
  BY DEF Door!Mint, Door!At
<1>2. DoorConnFits(w6[c]) /\ DoorNumbered /\ DOMAIN w6 = Door!Conns /\ DOMAIN shown = Door!Conns
  BY DEF DoorKept, DoorHeld
<1>3. w6' = [w6 EXCEPT ![c] = n]
  BY <1>1
<1>4. n.at = "known" /\ DOMAIN n = DoorConnFields /\ n.asked = w6[c].asked /\ n.user = u /\ w6[c].user = 0
  BY <1>1, <1>2 DEF DoorConnFits, DoorConnFields
<1> HIDE DEF n
<1>5. /\ last.user \in Nat /\ last.ban \in Nat /\ last.token \in Nat /\ u \in Nat /\ last'.ban = last.ban
      /\ last'.user = u /\ last'.token = t /\ DOMAIN last' = DOMAIN last
  BY <1>1, <1>2 DEF DoorNumbered
<1>6. DOMAIN rows' = DOMAIN rows \cup {u}
  BY <1>1 DEF Door!With
<1>7. DoorNumbered'
  <2>1. \A x \in w2' : DOMAIN x = {"no", "user", "used"} /\ x.user \in DOMAIN rows' /\ x.no \in 1..last'.token
    BY <1>1, <1>2, <1>5, <1>6 DEF DoorNumbered
  <2>2. DOMAIN rows' \subseteq 1..last'.user
    BY <1>2, <1>5, <1>6 DEF DoorNumbered
  <2>3. \A h \in DOMAIN w5 : w5[h] \in DOMAIN w4 /\ \A x : h = <<"user", x>> => x \in 1..last'.user
    BY <1>2, <1>5 DEF DoorNumbered
  <2>4. \A k \in w3 : k.user \in DOMAIN rows'
    BY <1>2, <1>6 DEF DoorNumbered
  <2>5. UNCHANGED <<w1, w8, w4, w5, w3>>
    BY <1>1
  <2>6. last'.token \in Nat /\ last'.user \in Nat
    BY <1>5
  <2> HIDE DEF u, t
  <2> QED
    BY <1>2, <1>5, <2>1, <2>2, <2>3, <2>4, <2>5, <2>6 DEF DoorNumbered
<1>8. DoorPlanned' /\ ~plan.turns /\ w6'[c] = n /\ Door!Conns' = Door!Conns
  BY <1>1, <1>2, <1>3, DoorSpends, DoorOpens DEF DoorKept, Door!Conns
<1>9. DoorVisited(c) /\ DoorConnFits(w6[c])' /\ ~Door!InHub(c)'
  BY <1>1, <1>2, <1>3, <1>4, <1>5, <1>8 DEF DoorVisited, DoorConnFits, Door!InHub
<1>10. ASSUME NEW h \in Door!Handles(c)' \cap DOMAIN w5, Door!Active(w5[h])
       PROVE  w5[h] > n.asked
  <2>0. u # 0 /\ <<"user", u>> \notin DOMAIN w5
    BY <1>2, <1>5 DEF DoorNumbered
  <2>1. h \in Door!Handles(c)
    BY <1>1, <1>4, <1>8, <1>10, <2>0 DEF Door!Handles, Door!HandlesAt
  <2>2. ~Door!IsOwner(w6[c].user)
    BY <1>4 DEF Door!IsOwner, DoorKept, DoorPlanned
  <2> QED
    BY <1>1, <1>4, <1>10, <2>1, <2>2 DEF DoorKept, DoorScreened
<1>11. UNCHANGED <<plan, w1, w4, w5, req>> /\ last'.user >= last.user
  BY <1>1, <1>5
<1>12. \A h \in Door!Handles(c)' \cap DOMAIN w5 : Door!Active(w5[h]) => w5[h] > w6'[c].asked
  BY <1>8, <1>10
<1> HIDE DEF u, t
<1> QED
  BY <1>5, <1>7, <1>8, <1>9, <1>11, <1>12, DoorVisitKeeps

\* A token, old or new, brings somebody in.
LEMMA DoorKnownKeeps ==
    ASSUME DoorKept, NEW c \in Door!Conns, DoorNumbered', DoorPlanned', UNCHANGED <<plan, w1, w4, w5, req, shown>>,
           last'.ban = last.ban, last'.user = last.user,
           w6[c].at = "passed", w6[c].op # "guest",
           NEW n, w6' = [w6 EXCEPT ![c] = n], DOMAIN n = DoorConnFields,
           (n.at = "known" /\ n.user = w6[c].user /\ n.asked = w6[c].asked) \/ (n.at = "out" /\ n.asked = 0)
    PROVE  DoorKept'
<1>1. DoorConnFits(w6[c]) /\ last.ban \in Nat /\ last.user \in Nat /\ DOMAIN w6 = Door!Conns /\ DOMAIN shown = Door!Conns
  BY DEF DoorKept, DoorHeld, DoorNumbered
<1>2. w6'[c] = n /\ Door!Conns' = Door!Conns /\ ~plan.turns
  BY <1>1, DoorOpens DEF Door!Conns
<1>3. DoorVisited(c) /\ DoorConnFits(w6[c])' /\ ~Door!InHub(c)'
  BY <1>1, <1>2 DEF DoorVisited, DoorConnFits, Door!InHub
<1>4. ASSUME n.at = "known", ~Door!IsOwner(n.user), NEW h \in Door!Handles(c)' \cap DOMAIN w5, Door!Active(w5[h])
      PROVE  w5[h] > n.asked
  <2>1. Door!Handles(c)' = Door!Handles(c) /\ ~Door!IsOwner(w6[c].user)
    BY <1>2, <1>4 DEF Door!Handles, Door!HandlesAt
  <2> QED
    BY <1>4, <2>1 DEF DoorKept, DoorScreened
<1>5. ~Door!IsOwner(w6'[c].user) => \A h \in Door!Handles(c)' \cap DOMAIN w5 : Door!Active(w5[h]) =>
        (w6'[c].at \in {"passed", "known"} => w5[h] > w6'[c].asked)
  BY <1>2, <1>4
<1> QED
  BY <1>1, <1>2, <1>3, <1>5, DoorVisitKeeps

LEMMA DoorTouchKeeps ==
    ASSUME DoorKept, NEW c \in Door!Conns, Door!Touch(c)
    PROVE  DoorKept'
<1> DEFINE n == [w6[c] EXCEPT !.at = "known"]
<1>1. /\ UNCHANGED <<plan, left, w1, rows, w3, w4, w5, last, w7, req, shown, w8>>
      /\ w6[c].at = "passed" /\ w6[c].op = "token" /\ w6' = [w6 EXCEPT ![c] = n]
      /\ w2' = {IF t.no = w6[c].token THEN [t EXCEPT !.used = w1] ELSE t : t \in w2}
  BY DEF Door!Touch, Door!At
<1>2. DoorConnFits(w6[c]) /\ DoorNumbered /\ DoorPlanned
  BY DEF DoorKept, DoorHeld
<1>3. DOMAIN n = DoorConnFields /\ n.at = "known" /\ n.user = w6[c].user /\ n.asked = w6[c].asked
  BY <1>2 DEF DoorConnFits, DoorConnFields
<1>4. \A t \in w2' : DOMAIN t = {"no", "user", "used"} /\ t.user \in DOMAIN rows /\ t.no \in 1..last.token
  BY <1>1, <1>2 DEF DoorNumbered
<1>5. DoorNumbered' /\ DoorPlanned'
  BY <1>1, <1>2, <1>4 DEF DoorNumbered, DoorPlanned
<1> HIDE DEF n
<1> QED
  BY <1>1, <1>3, <1>5, DoorKnownKeeps

LEMMA DoorGrantKeeps ==
    ASSUME DoorKept, NEW c \in Door!Conns, Door!Grant(c)
    PROVE  DoorKept'
<1> DEFINE t == last.token + 1
           n == [w6[c] EXCEPT !.at = "known", !.token = t]
           o == [Door!Out EXCEPT !.tries = w6[c].tries]
<1>1. /\ UNCHANGED <<plan, left, w1, rows, w3, w4, w5, req, shown, w8>>
      /\ w6[c].at = "passed" /\ w6[c].op = "login"
  BY DEF Door!Grant, Door!At
<1>2. DoorConnFits(w6[c]) /\ DoorNumbered /\ DoorPlanned
  BY DEF DoorKept, DoorHeld
<1>3. DOMAIN n = DoorConnFields /\ n.at = "known" /\ n.user = w6[c].user /\ n.asked = w6[c].asked
  BY <1>2 DEF DoorConnFits, DoorConnFields
<1>4. DOMAIN o = DoorConnFields /\ o.at = "out" /\ o.asked = 0
  BY DEF Door!Out, DoorConnFields
<1>5. CASE w6[c].user \in DOMAIN rows
  <2>1. /\ w2' = w2 \cup {[no |-> t, user |-> w6[c].user, used |-> w1]}
        /\ last' = [last EXCEPT !.token = t] /\ w6' = [w6 EXCEPT ![c].at = "known", ![c].token = t]
    BY <1>5 DEF Door!Grant
  <2>2. w6' = [w6 EXCEPT ![c] = n]
    BY <2>1
  <2>3. last'.token = t /\ last'.user = last.user /\ last'.ban = last.ban /\ DOMAIN last' = DOMAIN last /\ t \in Nat /\ last.token \in Nat
    BY <1>2, <2>1 DEF DoorNumbered
  <2>4. \A x \in w2' : DOMAIN x = {"no", "user", "used"} /\ x.user \in DOMAIN rows /\ x.no \in 1..last'.token
    BY <1>2, <1>5, <2>1, <2>3 DEF DoorNumbered
  <2> HIDE DEF t, n
  <2>5. DoorNumbered' /\ DoorPlanned'
    BY <1>1, <1>2, <2>3, <2>4 DEF DoorNumbered, DoorPlanned
  <2> QED
    BY <1>1, <1>3, <2>2, <2>3, <2>5, DoorKnownKeeps
<1>6. CASE w6[c].user \notin DOMAIN rows
  <2>1. w6' = [w6 EXCEPT ![c] = o] /\ UNCHANGED <<w2, last, w7>>
    BY <1>6 DEF Door!Grant
  <2>2. DoorNumbered' /\ DoorPlanned'
    BY <1>1, <1>2, <2>1 DEF DoorNumbered, DoorPlanned
  <2> HIDE DEF o
  <2> QED
    BY <1>1, <1>4, <2>1, <2>2, DoorKnownKeeps
<1> QED
  BY <1>5, <1>6

LEMMA DoorSeatKeeps ==
    ASSUME DoorKept, NEW c \in Door!Conns, Door!Seat(c)
    PROVE  DoorKept'
<1> DEFINE u == w6[c].user
           n == [w6[c] EXCEPT !.at = "seated", !.no = last.conn + 1,
                                !.missed = {b \in DOMAIN w4 : b > w6[c].asked /\ ~Door!Pending(b)}]
<1>1. /\ UNCHANGED <<plan, left, w1, rows, w2, w3, w4, w5, w7, req, w8>> /\ w6[c].at = "known"
      /\ w6' = [x \in Door!Conns |-> IF x = c THEN n ELSE IF x \in Door!Online(u) THEN Door!Out ELSE w6[x]]
      /\ last' = [last EXCEPT !.conn = @ + 1]
      /\ shown' = [x \in Door!Conns |-> IF x \in Door!Online(u) THEN {} ELSE shown[x]]
  BY ZenonT(30) DEF Door!Seat, Door!At
<1>2. DoorConnFits(w6[c]) /\ DoorNumbered /\ DoorPlanned /\ DOMAIN w6 = Door!Conns /\ DOMAIN shown = Door!Conns
  BY DEF DoorKept, DoorHeld
<1>3. /\ DOMAIN n = DoorConnFields /\ n.at = "seated" /\ n.user = u /\ n.asked = w6[c].asked
      /\ n.missed = {b \in DOMAIN w4 : b > w6[c].asked /\ ~Door!Pending(b)}
  BY <1>2 DEF DoorConnFits, DoorConnFields
<1> HIDE DEF n
<1>4. DOMAIN last' = DOMAIN last /\ last'.user = last.user /\ last'.ban = last.ban /\ last'.token = last.token /\ last.user \in Nat
  BY <1>1, <1>2 DEF DoorNumbered
<1>5. DoorNumbered' /\ DoorPlanned'
  BY <1>1, <1>2, <1>4 DEF DoorNumbered, DoorPlanned
<1>6. w6'[c] = n /\ Door!Conns' = Door!Conns /\ ~plan.turns /\ c \notin Door!Online(u)
  BY <1>1, DoorOpens DEF Door!Conns, Door!Online, Door!InHub
<1>7. DoorVisited(c)
  BY <1>1, <1>6 DEF DoorVisited
<1>8. DoorConnFits(w6[c])'
  BY <1>2, <1>3, <1>4, <1>6 DEF DoorConnFits
<1>9. ASSUME NEW x \in Door!Conns \ {c}, Door!InHub(x)'
      PROVE  w6'[x].user # w6'[c].user
  <2>1. w6'[x] # Door!Out
    BY <1>9 DEF Door!InHub, Door!Out
  <2> QED
    BY <1>1, <1>3, <1>6, <1>9, <2>1 DEF Door!InHub, Door!Online
<1>10. ASSUME ~Door!IsOwner(n.user), NEW h \in Door!Handles(c)' \cap DOMAIN w5, Door!Active(w5[h])
       PROVE  Door!Pending(w5[h]) \/ w5[h] \in n.missed
  <2>1. Door!Handles(c)' = Door!Handles(c)
    BY <1>1, <1>3, <1>6 DEF Door!Handles, Door!HandlesAt
  <2>2. w5[h] > w6[c].asked
    BY <1>1, <1>3, <1>10, <2>1 DEF DoorKept, DoorScreened
  <2>3. w5[h] \in DOMAIN w4
    BY <1>2, <1>10 DEF DoorNumbered
  <2> QED
    BY <1>3, <2>2, <2>3
<1>11. ~Door!IsOwner(w6'[c].user) => \A h \in Door!Handles(c)' \cap DOMAIN w5 : Door!Active(w5[h]) =>
                /\ w6'[c].at \in {"passed", "known"} => w5[h] > w6'[c].asked
                /\ Door!InHub(c)' /\ ~w6'[c].closing => Door!Pending(w5[h]) \/ w5[h] \in w6'[c].missed
  BY <1>3, <1>6, <1>10
<1>12. UNCHANGED <<plan, w1, w4, w5, req>> /\ last'.user >= last.user
  BY <1>1, <1>4
<1> HIDE DEF u
<1> QED
  BY <1>4, <1>5, <1>6, <1>7, <1>8, <1>9, <1>11, <1>12, DoorVisitKeeps

LEMMA DoorRecordKeeps ==
    ASSUME DoorKept, NEW c \in Door!Conns, Door!Record(c)
    PROVE  DoorKept'
<1> DEFINE n == [w6[c] EXCEPT !.at = "on"]
<1>1. /\ UNCHANGED <<plan, left, w1, w2, w4, w5, last, w7, req, shown, w8>> /\ w6[c].at = "seated"
      /\ w6' = [w6 EXCEPT ![c] = n]
  BY DEF Door!Record, Door!At
<1>2. DoorConnFits(w6[c]) /\ DoorNumbered /\ DoorPlanned /\ DOMAIN w6 = Door!Conns /\ DOMAIN shown = Door!Conns
  BY DEF DoorKept, DoorHeld
<1>3. /\ DOMAIN n = DoorConnFields /\ n.at = "on" /\ n.user = w6[c].user /\ n.asked = w6[c].asked
      /\ n.missed = w6[c].missed /\ n.closing = w6[c].closing
  BY <1>2 DEF DoorConnFits, DoorConnFields
<1> HIDE DEF n
<1>4. DOMAIN rows' = DOMAIN rows /\ \A k \in w3' : k.user \in DOMAIN rows
  <2>1. CASE w6[c].user \notin DOMAIN rows
    BY <1>2, <2>1 DEF Door!Record, DoorNumbered
  <2>2. CASE w6[c].user \in DOMAIN rows
    <3> DEFINE mark == [user |-> w6[c].user, place |-> plan.place[c], seen |-> w1]
    <3>1. /\ rows' = [rows EXCEPT ![w6[c].user].seen = w1]
          /\ w3' = {k \in w3 : k.user # w6[c].user \/ k.place # mark.place} \cup {mark}
      BY <2>2 DEF Door!Record
    <3>2. mark.user \in DOMAIN rows
      BY <2>2
    <3> QED
      BY <1>2, <3>1, <3>2 DEF DoorNumbered
  <2> QED
    BY <2>1, <2>2
<1>5. DoorNumbered' /\ DoorPlanned' /\ last.user \in Nat
  BY <1>1, <1>2, <1>4 DEF DoorNumbered, DoorPlanned
<1>6. w6'[c] = n /\ Door!Conns' = Door!Conns /\ ~plan.turns
  BY <1>1, <1>2, DoorOpens DEF Door!Conns
<1>7. DoorVisited(c) /\ DoorConnFits(w6[c])' /\ Door!InHub(c)
  BY <1>1, <1>2, <1>3, <1>6 DEF DoorVisited, DoorConnFits, Door!InHub
<1>8. ASSUME NEW x \in Door!Conns \ {c}, Door!InHub(x)'
      PROVE  w6'[x].user # w6'[c].user
  BY <1>1, <1>3, <1>6, <1>7, <1>8 DEF Door!InHub, DoorKept, DoorHeld
<1>9. ASSUME ~Door!IsOwner(n.user), NEW h \in Door!Handles(c)' \cap DOMAIN w5, Door!Active(w5[h]), ~n.closing
      PROVE  Door!Pending(w5[h]) \/ w5[h] \in n.missed
  <2>1. Door!Handles(c)' = Door!Handles(c)
    BY <1>1, <1>3, <1>6 DEF Door!Handles, Door!HandlesAt
  <2> QED
    BY <1>3, <1>7, <1>9, <2>1 DEF DoorKept, DoorScreened
<1>10. ~Door!IsOwner(w6'[c].user) => \A h \in Door!Handles(c)' \cap DOMAIN w5 : Door!Active(w5[h]) =>
                /\ w6'[c].at \in {"passed", "known"} => w5[h] > w6'[c].asked
                /\ Door!InHub(c)' /\ ~w6'[c].closing => Door!Pending(w5[h]) \/ w5[h] \in w6'[c].missed
  BY <1>3, <1>6, <1>9
<1> QED
  BY <1>1, <1>5, <1>6, <1>7, <1>8, <1>10, DoorVisitKeeps

\* Of the connections at most one changes, to be closed or to be gone.
LEMMA DoorLeaveKeeps ==
    ASSUME DoorKept, NEW c \in Door!Conns, DoorNumbered', DoorPlanned', UNCHANGED <<plan, w1, w4, w5, req, last>>,
           DOMAIN w6' = Door!Conns, \A x \in Door!Conns \ {c} : w6'[x] = w6[x],
           w6'[c] \in {w6[c], [w6[c] EXCEPT !.closing = TRUE], Door!Out},
           DOMAIN shown' = Door!Conns, \A x \in Door!Conns : shown'[x] = shown[x] \/ (shown'[x] = {} /\ w6'[x] = Door!Out)
    PROVE  DoorKept'
<1>1. DoorConnFits(w6[c]) /\ DoorNumbered /\ Door!Conns' = Door!Conns /\ last.ban \in Nat /\ last.user \in Nat
  BY DEF DoorKept, DoorHeld, DoorNumbered, Door!Conns
<1>2. CASE w6'[c] = Door!Out
  <2>1. DoorConnFits(w6[c])' /\ ~Door!InHub(c)' /\ w6'[c].at = "out" /\ ~Door!Staff(c)'
    BY <1>1, <1>2 DEF DoorConnFits, DoorConnFields, Door!Out, Door!InHub, Door!Staff
  <2>2. DoorVisited(c)
    BY DEF DoorVisited
  <2> QED
    BY <1>1, <2>1, <2>2, DoorVisitKeeps
<1>3. CASE w6'[c] \in {w6[c], [w6[c] EXCEPT !.closing = TRUE]}
  <2>1. /\ DOMAIN w6'[c] = DoorConnFields /\ w6'[c].at = w6[c].at /\ w6'[c].user = w6[c].user
        /\ w6'[c].asked = w6[c].asked /\ w6'[c].missed = w6[c].missed /\ w6'[c].op = w6[c].op
        /\ w6'[c].closing # TRUE => w6'[c].closing = w6[c].closing
    BY <1>1, <1>3 DEF DoorConnFits, DoorConnFields
  <2>2. DoorVisited(c)
    BY DEF DoorVisited
  <2>3. DoorConnFits(w6[c])'
    BY <1>1, <2>1 DEF DoorConnFits
  <2>4. Door!InHub(c)' = Door!InHub(c) /\ Door!Staff(c)' = Door!Staff(c) /\ Door!Handles(c)' = Door!Handles(c)
    BY <2>1 DEF Door!InHub, Door!Staff, Door!Rank, Door!IsOwner, Door!Handles, Door!HandlesAt
  <2>5. Door!InHub(c)' => \A x \in Door!Conns \ {c} : Door!InHub(x)' => w6'[x].user # w6'[c].user
    BY <2>1, <2>4 DEF Door!InHub, DoorKept, DoorHeld
  <2>6. ~Door!IsOwner(w6'[c].user) => \A h \in Door!Handles(c)' \cap DOMAIN w5 : Door!Active(w5[h]) =>
                /\ w6'[c].at \in {"passed", "known"} => w5[h] > w6'[c].asked
                /\ Door!InHub(c)' /\ ~w6'[c].closing => Door!Pending(w5[h]) \/ w5[h] \in w6'[c].missed
    <3> SUFFICES ASSUME ~Door!IsOwner(w6'[c].user), NEW h \in Door!Handles(c)' \cap DOMAIN w5, Door!Active(w5[h])
                 PROVE  /\ w6'[c].at \in {"passed", "known"} => w5[h] > w6'[c].asked
                        /\ Door!InHub(c)' /\ ~w6'[c].closing => Door!Pending(w5[h]) \/ w5[h] \in w6'[c].missed
      OBVIOUS
    <3>1. ~Door!IsOwner(w6[c].user) /\ h \in Door!Handles(c) \cap DOMAIN w5
      BY <2>1, <2>4
    <3>2. /\ w6[c].at \in {"passed", "known"} => w5[h] > w6[c].asked
          /\ Door!InHub(c) /\ ~w6[c].closing => Door!Pending(w5[h]) \/ w5[h] \in w6[c].missed
      BY <3>1 DEF DoorKept, DoorScreened
    <3> QED
      BY <2>1, <2>4, <3>2
  <2>7. plan.turns => w6'[c].at \in {"on", "out"}
    BY <2>1 DEF DoorKept, DoorShown, Door!At
  <2> QED
    BY <1>1, <2>2, <2>3, <2>4, <2>5, <2>6, <2>7, DoorVisitKeeps
<1> QED
  BY <1>2, <1>3

LEMMA DoorGoingKeeps ==
    ASSUME DoorKept, NEW c \in Door!Conns, Door!Register(c) \/ Door!Logout(c) \/ Door!End(c)
    PROVE  DoorKept'
<1>1. DoorNumbered /\ DoorPlanned /\ DOMAIN w6 = Door!Conns /\ DOMAIN shown = Door!Conns /\ DoorConnFits(w6[c])
  BY DEF DoorKept, DoorHeld
<1>2. CASE Door!Register(c)
  <2>1. /\ UNCHANGED <<plan, w1, w2, w3, w4, w5, last, w6, w7, req, shown, w8>> /\ Door!Spend("register")
        /\ DOMAIN rows' = DOMAIN rows
    BY <1>2 DEF Door!Register, Door!Claim
  <2>2. DoorNumbered' /\ DoorPlanned'
    BY <1>1, <2>1, DoorSpends DEF DoorNumbered
  <2> QED
    BY <1>1, <2>1, <2>2, DoorLeaveKeeps
<1>3. CASE Door!Logout(c)
  <2>1. /\ UNCHANGED <<plan, w1, rows, w3, w4, w5, last, w7, req, shown, w8>> /\ Door!Spend("logout")
        /\ w2' \subseteq w2
        /\ w6' = [x \in Door!Conns |-> IF x \in {c} THEN [w6[x] EXCEPT !.closing = TRUE] ELSE w6[x]]
    BY <1>3 DEF Door!Logout, Door!Shut
  <2>2. DoorNumbered' /\ DoorPlanned'
    BY <1>1, <2>1, DoorSpends DEF DoorNumbered
  <2> QED
    BY <1>1, <2>1, <2>2, DoorLeaveKeeps
<1>4. CASE Door!End(c)
  <2>1. /\ UNCHANGED <<plan, w1, Door!store, w7, req, w8>> /\ (left' = left \/ Door!Spend("leave"))
        /\ w6' = [w6 EXCEPT ![c] = Door!Out] /\ shown' = [shown EXCEPT ![c] = {}]
    BY <1>4 DEF Door!End
  <2>2. DoorNumbered' /\ DoorPlanned'
    BY <1>1, <2>1, DoorSpends DEF DoorNumbered, Door!store
  <2> QED
    BY <1>1, <2>1, <2>2, DoorLeaveKeeps DEF Door!store
<1> QED
  BY <1>2, <1>3, <1>4

\* A request of a moderator takes a step: the others wait, and connections are closed at most.
DoorTurn(m) == plan.turns => \A d \in Door!Conns \ {m} : Door!Step(d, "free")
DoorSame(x) == w6'[x] = w6[x] \/ w6'[x] = [w6[x] EXCEPT !.closing = TRUE]
DoorMoved(m) ==
    /\ DOMAIN w6' = Door!Conns /\ DOMAIN req' = Door!Conns /\ DOMAIN shown' = Door!Conns
    /\ \A x \in Door!Conns : DoorSame(x)
    /\ \A d \in Door!Conns \ {m} : req'[d] = req[d]
DoorBanning(r, b) == r.ban = b /\ r.op = "ban" /\ r.at # "tell"

LEMMA DoorTurnIs ==
    ASSUME DoorKept, NEW m \in Door!Conns, Door!Moderates(m) \/ ~Door!Step(m, "free")
    PROVE  /\ DoorTurn(m)
           /\ \A x \in Door!Conns : plan.turns /\ Door!Staff(x) => DoorDue(shown[x], req[m])
<1>1. DoorShown
  BY DEF DoorKept
<1>2. DoorTurn(m)
  BY <1>1 DEF DoorShown, DoorTurn, Door!Moderates
<1>3. ASSUME NEW x \in Door!Conns, plan.turns, Door!Staff(x)
      PROVE  DoorDue(shown[x], req[m])
  <2>1. CASE ~Door!Step(m, "free")
    BY <1>1, <1>3, <2>1 DEF DoorShown
  <2>2. CASE Door!Step(m, "free")
    <3>1. \A d \in Door!Conns : Door!Step(d, "free")
      BY <1>2, <1>3, <2>2 DEF DoorTurn
    <3> QED
      BY <1>1, <1>3, <2>2, <3>1 DEF DoorShown, DoorDue, Door!Step
  <2> QED
    BY <2>1, <2>2
<1> QED
  BY <1>2, <1>3

LEMMA DoorSameIs ==
    ASSUME DoorKept, plan' = plan, NEW x \in Door!Conns, DoorSame(x)
    PROVE  /\ DOMAIN w6'[x] = DOMAIN w6[x] /\ w6'[x].at = w6[x].at /\ w6'[x].user = w6[x].user
           /\ w6'[x].asked = w6[x].asked /\ w6'[x].missed = w6[x].missed /\ w6'[x].op = w6[x].op
           /\ w6'[x].closing # TRUE => w6'[x].closing = w6[x].closing
           /\ Door!InHub(x)' = Door!InHub(x) /\ Door!Staff(x)' = Door!Staff(x)
           /\ Door!Handles(x)' = Door!Handles(x) /\ Door!At(x, "on")' = Door!At(x, "on")
           /\ Door!At(x, "out")' = Door!At(x, "out")
<1>1. DOMAIN w6[x] = DoorConnFields
  BY DEF DoorKept, DoorHeld, DoorConnFits
<1>2. /\ DOMAIN w6'[x] = DOMAIN w6[x] /\ w6'[x].at = w6[x].at /\ w6'[x].user = w6[x].user
      /\ w6'[x].asked = w6[x].asked /\ w6'[x].missed = w6[x].missed /\ w6'[x].op = w6[x].op
      /\ w6'[x].closing # TRUE => w6'[x].closing = w6[x].closing
  BY <1>1 DEF DoorSame, DoorConnFields
<1> QED
  BY <1>2 DEF Door!InHub, Door!Staff, Door!Rank, Door!IsOwner, Door!Handles, Door!HandlesAt, Door!At

LEMMA DoorWaits ==
    ASSUME DoorKept, plan' = plan, NEW d \in Door!Conns, req'[d] = req[d],
           last'.user \in Nat, last'.user >= last.user, last'.ban \in Nat, last'.ban >= last.ban,
           \A h \in DOMAIN w5' : (h \in DOMAIN w5 /\ w5'[h] = w5[h]) \/ w5'[h] > last.ban
    PROVE  DoorReqFits(d, req[d])'
<1>1. Door!Conns' = Door!Conns /\ Door!HandlesAt(plan.place[d])' = Door!HandlesAt(plan.place[d])
  BY DEF Door!Conns, Door!HandlesAt
<1>2. DoorReqFits(d, req[d]) /\ last.user \in Nat /\ last.ban \in Nat
  BY DEF DoorKept, DoorHeld, DoorNumbered
<1>3. DoorStored(req[d]) => req[d].ban \in 1..last'.ban /\ \A h \in DOMAIN w5' : w5'[h] = req[d].ban => h \in req[d].handles
  BY <1>2 DEF DoorReqFits
<1> QED
  BY <1>1, <1>2, <1>3 DEF DoorReqFits, DoorStored

LEMMA DoorModKeeps ==
    ASSUME DoorKept, NEW m \in Door!Conns, plan' = plan, DoorNumbered', DoorPlanned', DoorTurn(m), DoorMoved(m),
           last'.user >= last.user, last'.ban >= last.ban, DoorReqFits(m, req[m])', Door!OwnDoorOpen',
           \A h \in DOMAIN w5' : (h \in DOMAIN w5 /\ w5'[h] = w5[h]) \/ w5'[h] > last.ban,
           \A x \in Door!Conns : shown'[x] \subseteq 1..last'.ban,
           \A h, b : h \in DOMAIN w5' /\ b = w5'[h] /\ Door!Active(b)' =>
                \/ b > last.ban /\ Door!Pending(b)'
                \/ /\ h \in DOMAIN w5 /\ w5[h] = b /\ Door!Active(b)
                   /\ \A x \in Door!Conns : h \in Door!Handles(x) /\ Door!InHub(x) /\ ~Door!IsOwner(w6[x].user) /\ Door!Pending(b) =>
                          Door!Pending(b)' \/ w6'[x].closing,
           \A x \in Door!Conns : plan.turns /\ Door!Staff(x) => DoorDue(shown[x], req[m])'
    PROVE  DoorKept'
<1> USE DEF DoorMoved
<1>0. Door!Conns' = Door!Conns /\ last.ban \in Nat /\ last.user \in Nat /\ last'.user \in Nat /\ last'.ban \in Nat
  BY DEF Door!Conns, DoorKept, DoorNumbered
<1>1. \A x \in Door!Conns : DoorReqFits(x, req[x])'
  BY <1>0, DoorWaits
<1>2. ASSUME NEW x \in Door!Conns
      PROVE  DoorConnFits(w6[x])'
  <2>1. DoorConnFits(w6[x])
    BY DEF DoorKept, DoorHeld
  <2>2. /\ DOMAIN w6'[x] = DOMAIN w6[x] /\ w6'[x].at = w6[x].at /\ w6'[x].user = w6[x].user
        /\ w6'[x].asked = w6[x].asked /\ w6'[x].op = w6[x].op
    BY DoorSameIs
  <2>3. w6[x].asked \in 0..last'.ban
    BY <1>0, <2>1 DEF DoorConnFits
  <2> QED
    BY <2>1, <2>2, <2>3 DEF DoorConnFits
<1>3. \A x, y \in Door!Conns : (Door!InHub(x) /\ Door!InHub(y) /\ w6[x].user = w6[y].user)' => y = x
  BY ZenonT(30), DoorSameIs DEF DoorKept, DoorHeld
<1>4. DoorHeld'
  BY <1>0, <1>1, <1>2, <1>3 DEF DoorHeld
<1>5. DoorScreened'
  <2> SUFFICES ASSUME NEW x \in Door!Conns, ~Door!IsOwner(w6[x].user)', NEW h, h \in Door!Handles(x)', h \in DOMAIN w5', NEW b, b = w5'[h], Door!Active(b)'
               PROVE  /\ w6'[x].at \in {"passed", "known"} => b > w6'[x].asked
                      /\ Door!InHub(x)' /\ ~w6'[x].closing => Door!Pending(b)' \/ b \in w6'[x].missed
    BY <1>0 DEF DoorScreened
  <2>1. ~Door!IsOwner(w6[x].user) /\ h \in Door!Handles(x)
    BY DoorSameIs DEF Door!IsOwner
  <2>2. CASE b > last.ban /\ Door!Pending(b)'
    <3>1. w6[x].asked \in 0..last.ban /\ b \in Nat
      BY <1>0 DEF DoorKept, DoorHeld, DoorConnFits, DoorNumbered
    <3>2. w6'[x].asked = w6[x].asked
      BY DoorSameIs
    <3> QED
      BY <1>0, <2>2, <3>1, <3>2
  <2>3. CASE /\ h \in DOMAIN w5 /\ w5[h] = b /\ Door!Active(b)
             /\ \A y \in Door!Conns : h \in Door!Handles(y) /\ Door!InHub(y) /\ ~Door!IsOwner(w6[y].user) /\ Door!Pending(b) =>
                    Door!Pending(b)' \/ w6'[y].closing
    <3>1. /\ w6[x].at \in {"passed", "known"} => b > w6[x].asked
          /\ Door!InHub(x) /\ ~w6[x].closing => Door!Pending(b) \/ b \in w6[x].missed
      BY <2>1, <2>3 DEF DoorKept, DoorScreened
    <3>2. w6'[x].closing \/ w6'[x].closing = w6[x].closing
      BY DoorSameIs
    <3> QED
      BY <2>1, <2>3, <3>1, <3>2, DoorSameIs
  <2> QED
    BY <2>2, <2>3
<1>6. DoorShown'
  <2>1. \A d \in Door!Conns \ {m} : plan.turns => Door!Step(d, "free")'
    BY <1>0 DEF DoorTurn, Door!Step
  <2>2. \A x \in Door!Conns : plan.turns => Door!At(x, "on")' \/ Door!At(x, "out")'
    BY DoorSameIs DEF DoorKept, DoorShown
  <2>3. ASSUME plan.turns, NEW x \in Door!Conns, Door!Staff(x)'
        PROVE  /\ \A d \in Door!Conns : ~Door!Step(d, "free")' => DoorDue(shown[x], req[d])'
               /\ (\A d \in Door!Conns : Door!Step(d, "free")') => shown'[x] = DOMAIN w4'
    <3>1. DoorDue(shown[x], req[m])'
      BY <2>3, DoorSameIs
    <3>2. Door!Step(m, "free")' => shown'[x] = DOMAIN w4'
      BY <3>1 DEF DoorDue, Door!Step
    <3> QED
      BY <2>1, <2>3, <3>1, <3>2
  <2> QED
    BY <1>0, <2>1, <2>2, <2>3 DEF DoorShown
<1> QED
  BY <1>4, <1>5, <1>6 DEF DoorKept

\* Nothing happens to the bans.
LEMMA DoorQuietKeeps ==
    ASSUME DoorKept, NEW m \in Door!Conns, UNCHANGED <<plan, w1, w4, w5, last>>, DoorNumbered', DoorPlanned',
           DoorTurn(m), DoorMoved(m), DoorReqFits(m, req[m])', \A x \in Door!Conns : shown'[x] \subseteq 1..last.ban,
           \A b : DoorBanning(req[m], b) => DoorBanning(req'[m], b),
           \A x \in Door!Conns : plan.turns /\ Door!Staff(x) => DoorDue(shown[x], req[m])'
    PROVE  DoorKept'
<1>1. Door!OwnDoorOpen'
  BY DEF DoorKept, Door!OwnDoorOpen, Door!HandlesAt
<1>2. \A b : Door!Pending(b) => Door!Pending(b)'
  <2> SUFFICES ASSUME NEW b, NEW d \in Door!Conns, DoorBanning(req[d], b)
               PROVE  \E e \in Door!Conns' : DoorBanning(req'[e], b)
    BY DEF Door!Pending, DoorBanning
  <2>1. DoorBanning(req'[d], b)
    BY DEF DoorMoved
  <2> QED
    BY <2>1 DEF Door!Conns
<1>3. \A b : Door!Active(b)' = Door!Active(b)
  BY DEF Door!Active
<1>4. last.user \in Nat /\ last.ban \in Nat
  BY DEF DoorKept, DoorNumbered
<1> QED
  BY <1>1, <1>2, <1>3, <1>4, DoorModKeeps

\* A request begins.
LEMMA DoorBeginKeeps ==
    ASSUME DoorKept, NEW m \in Door!Conns, Door!Moderates(m), NEW k, Door!Spend(k), UNCHANGED <<plan, w1, Door!store, w6, w7, shown, w8>>,
           NEW r, req' = [req EXCEPT ![m] = r], r.at \in {"store", "close", "show"}, r.op \in {"ban", "kick", "list"},
           r.op = "kick" \/ r.at # "close", r.at = "show" => r.list = DOMAIN w4,
           DoorReqFits(m, req[m])'
    PROVE  DoorKept'
<1>1. DoorNumbered /\ DoorPlanned /\ DOMAIN w6 = Door!Conns /\ DOMAIN shown = Door!Conns /\ DOMAIN req = Door!Conns /\ DoorReqFits(m, req[m])
  BY DEF DoorKept, DoorHeld
<1>2. DoorNumbered' /\ DoorPlanned'
  BY <1>1, DoorSpends DEF Door!store, DoorNumbered
<1>3. req'[m] = r /\ req[m].at = "free"
  BY <1>1 DEF Door!Moderates, Door!Step
<1>4. DoorMoved(m)
  BY <1>1 DEF DoorMoved, DoorSame
<1>5. \A b : ~DoorBanning(req[m], b)
  BY <1>1, <1>3 DEF DoorBanning, DoorReqFits
<1>6. ASSUME NEW x \in Door!Conns, plan.turns, Door!Staff(x)
      PROVE  DoorDue(shown[x], req[m])'
  <2>1. shown[x] = DOMAIN w4
    BY <1>3, <1>6, DoorTurnIs DEF DoorDue
  <2> QED
    BY <1>3, <2>1 DEF DoorDue, DoorStored, Door!store
<1>7. \A x \in Door!Conns : shown'[x] \subseteq 1..last.ban
  BY DEF DoorKept, DoorHeld
<1> QED
  BY <1>2, <1>4, <1>5, <1>6, <1>7, DoorTurnIs, DoorQuietKeeps DEF Door!store

LEMMA DoorShields ==
    ASSUME NEW m \in Door!Conns, NEW u, NEW recent, NEW kinds
    PROVE  Door!BanHandles(m, u, recent, kinds) \cap Door!HandlesAt(plan.place[m]) = {}
           /\ \A x : <<"user", x>> \notin Door!BanHandles(m, u, recent, kinds)
<1>1. Door!HandlesAt(plan.place[m]) \subseteq Door!Shielded(m)
  BY DEF Door!Shielded
<1>2. Door!BanHandles(m, u, recent, kinds) \cap Door!Shielded(m) = {}
  BY DEF Door!BanHandles
<1>3. \A h \in Door!BanHandles(m, u, recent, kinds) : \E p : h \in Door!HandlesAt(p)
  BY DEF Door!BanHandles
<1> QED
  BY <1>1, <1>2, <1>3 DEF Door!HandlesAt

LEMMA DoorBanKeeps ==
    ASSUME DoorKept, NEW m \in Door!Conns, Door!Ban(m)
    PROVE  DoorKept'
<1>1. PICK u \in DOMAIN rows, kinds \in plan.kinds, days \in plan.days : \E recent \in Door!Recent(u) :
        req' = [req EXCEPT ![m] = [Door!Free EXCEPT !.at = "store", !.op = "ban", !.user = u,
                                               !.handles = {<<"user", u>>} \cup Door!BanHandles(m, u, recent, kinds),
                                               !.ends = IF days = 0 THEN 0 ELSE w1 + days]]
  BY ZenonT(30) DEF Door!Ban
<1>2. PICK recent :
        req' = [req EXCEPT ![m] = [Door!Free EXCEPT !.at = "store", !.op = "ban", !.user = u,
                                               !.handles = {<<"user", u>>} \cup Door!BanHandles(m, u, recent, kinds),
                                               !.ends = IF days = 0 THEN 0 ELSE w1 + days]]
  BY ZenonT(30), <1>1
<1> DEFINE hs == {<<"user", u>>} \cup Door!BanHandles(m, u, recent, kinds)
           e == IF days = 0 THEN 0 ELSE w1 + days
           r == [Door!Free EXCEPT !.at = "store", !.op = "ban", !.user = u, !.handles = hs, !.ends = e]
<1>3. e \in Nat /\ u \in 1..last.user
  BY DEF DoorKept, DoorPlanned, DoorNumbered
<1>4. hs \cap Door!HandlesAt(plan.place[m]) = {} /\ \A x : <<"user", x>> \in hs => x = u
  BY DoorShields DEF Door!HandlesAt
<1> HIDE DEF hs, e
<1>5. DOMAIN r = DoorReqFields /\ r.at = "store" /\ r.op = "ban" /\ r.ban = 0 /\ r.ends = e /\ r.handles = hs
  BY DEF Door!Free, DoorReqFields
<1>6. req' = [req EXCEPT ![m] = r]
  BY <1>2 DEF hs, e
<1> HIDE DEF r
<1>7. Door!Spend("ban") /\ Door!Moderates(m) /\ UNCHANGED <<plan, w1, Door!store, w6, w7, shown, w8>>
  BY DEF Door!Ban
<1>8. req'[m] = r /\ Door!HandlesAt(plan.place[m])' = Door!HandlesAt(plan.place[m])
  BY <1>6, <1>7 DEF DoorKept, DoorHeld, Door!HandlesAt
<1>9. DoorReqFits(m, req[m])'
  BY <1>3, <1>4, <1>5, <1>7, <1>8 DEF DoorReqFits, DoorStored, Door!store
<1> QED
  BY <1>5, <1>6, <1>7, <1>9, DoorBeginKeeps

LEMMA DoorKickKeeps ==
    ASSUME DoorKept, NEW m \in Door!Conns, Door!Kick(m)
    PROVE  DoorKept'
<1>1. PICK u, no : req' = [req EXCEPT ![m] = [Door!Free EXCEPT !.at = "close", !.op = "kick", !.user = u, !.no = no]]
  BY ZenonT(30) DEF Door!Kick
<1> DEFINE r == [Door!Free EXCEPT !.at = "close", !.op = "kick", !.user = u, !.no = no]
<1>2. DOMAIN r = DoorReqFields /\ r.at = "close" /\ r.op = "kick"
  BY DEF Door!Free, DoorReqFields
<1>3. req' = [req EXCEPT ![m] = r]
  BY <1>1
<1> HIDE DEF r
<1>4. Door!Spend("kick") /\ Door!Moderates(m) /\ UNCHANGED <<plan, w1, Door!store, w6, w7, shown, w8>>
  BY DEF Door!Kick
<1>5. req'[m] = r
  BY <1>3 DEF DoorKept, DoorHeld
<1>6. DoorReqFits(m, req[m])'
  BY <1>2, <1>5 DEF DoorReqFits, DoorStored
<1> QED
  BY <1>2, <1>3, <1>4, <1>6, DoorBeginKeeps

LEMMA DoorListKeeps ==
    ASSUME DoorKept, NEW m \in Door!Conns, Door!List(m)
    PROVE  DoorKept'
<1> DEFINE r == [Door!Free EXCEPT !.at = "show", !.op = "list", !.list = DOMAIN w4]
<1>1. Door!Spend("list") /\ Door!Moderates(m) /\ UNCHANGED <<plan, w1, Door!store, w6, w7, shown, w8>> /\ req' = [req EXCEPT ![m] = r]
  BY DEF Door!List
<1>2. DOMAIN r = DoorReqFields /\ r.at = "show" /\ r.op = "list" /\ r.list = DOMAIN w4
  BY DEF Door!Free, DoorReqFields
<1> HIDE DEF r
<1>3. req'[m] = r /\ DOMAIN w4 \subseteq 1..last.ban
  BY <1>1 DEF DoorKept, DoorHeld, DoorNumbered
<1>4. DoorReqFits(m, req[m])'
  BY <1>1, <1>2, <1>3 DEF DoorReqFits, DoorStored, Door!store
<1> QED
  BY <1>1, <1>2, <1>4, DoorBeginKeeps

\* A request that has stored its ban, or kicks, goes on.
LEMMA DoorMoveKeeps ==
    ASSUME DoorKept, NEW m \in Door!Conns, req[m].at \in {"close", "tokens", "user"}, UNCHANGED <<plan, left, w1, w4, w5, last, shown>>,
           DoorNumbered', DOMAIN w6' = Door!Conns, \A x \in Door!Conns : DoorSame(x),
           NEW at \in {"tokens", "user", "enforce"}, Door!Move(m, at), at = "enforce" => req[m].op = "ban"
    PROVE  DoorKept'
<1>1. DoorReqFits(m, req[m]) /\ DOMAIN req = Door!Conns /\ DOMAIN shown = Door!Conns /\ DoorPlanned
  BY DEF DoorKept, DoorHeld
<1>2. /\ DOMAIN req'[m] = DoorReqFields /\ req'[m].at = at /\ req'[m].op = req[m].op /\ req'[m].ban = req[m].ban
      /\ req'[m].handles = req[m].handles
  BY <1>1 DEF Door!Move, DoorReqFits, DoorReqFields
<1>3. DoorReqFits(m, req[m])'
  BY <1>1, <1>2 DEF DoorReqFits, DoorStored
<1>4. DoorPlanned' /\ DoorMoved(m)
  BY <1>1 DEF DoorPlanned, DoorMoved, Door!Move
<1>5. DoorTurn(m) /\ \A x \in Door!Conns : plan.turns /\ Door!Staff(x) => DoorDue(shown[x], req[m])
  BY DoorTurnIs DEF Door!Step
<1>6. \A x \in Door!Conns : plan.turns /\ Door!Staff(x) => DoorDue(shown[x], req[m])'
  BY <1>1, <1>2, <1>5 DEF DoorDue, DoorStored, DoorReqFits
<1>7. \A b : DoorBanning(req[m], b) => DoorBanning(req'[m], b)
  BY <1>2 DEF DoorBanning
<1>8. \A x \in Door!Conns : shown'[x] \subseteq 1..last.ban
  BY DEF DoorKept, DoorHeld
<1> QED
  BY <1>3, <1>4, <1>5, <1>6, <1>7, <1>8, DoorQuietKeeps

LEMMA DoorCloseKeeps ==
    ASSUME DoorKept, NEW m \in Door!Conns, Door!CloseTarget(m)
    PROVE  DoorKept'
<1>1. /\ UNCHANGED <<plan, left, w1, Door!store, w7, shown, w8>> /\ req[m].at = "close" /\ Door!Move(m, "tokens")
      /\ DOMAIN w6' = Door!Conns /\ \A x \in Door!Conns : DoorSame(x)
  BY DEF Door!CloseTarget, Door!Step, Door!Shut, DoorSame
<1>2. DoorNumbered'
  BY <1>1 DEF Door!store, DoorKept, DoorNumbered
<1> QED
  BY <1>1, <1>2, DoorMoveKeeps DEF Door!store

LEMMA DoorDropKeeps ==
    ASSUME DoorKept, NEW m \in Door!Conns, Door!DropTokens(m)
    PROVE  DoorKept'
<1>1. /\ UNCHANGED <<plan, left, w1, rows, w3, w4, w5, last, w6, w7, shown, w8>>
      /\ req[m].at = "tokens" /\ Door!Move(m, "user") /\ w2' \subseteq w2
  BY DEF Door!DropTokens, Door!Step
<1>2. DoorNumbered' /\ DOMAIN w6' = Door!Conns /\ \A x \in Door!Conns : DoorSame(x)
  BY <1>1 DEF DoorKept, DoorHeld, DoorNumbered, DoorSame
<1> QED
  BY <1>1, <1>2, DoorMoveKeeps

\* A request is over.
LEMMA DoorEndKeeps ==
    ASSUME DoorKept, NEW m \in Door!Conns, ~Door!Step(m, "free"), UNCHANGED <<plan, left, w1, w4, w5, last, w6>>, DoorNumbered',
           Door!Done(m), \A b : ~DoorBanning(req[m], b),
           DOMAIN shown' = Door!Conns, \A x \in Door!Conns : shown'[x] \subseteq 1..last.ban,
           \A x \in Door!Conns : plan.turns /\ Door!Staff(x) => shown'[x] = DOMAIN w4
    PROVE  DoorKept'
<1>1. DOMAIN req = Door!Conns /\ DOMAIN w6 = Door!Conns /\ DoorPlanned
  BY DEF DoorKept, DoorHeld
<1>2. req'[m] = Door!Free
  BY <1>1 DEF Door!Done
<1>3. DoorReqFits(m, req[m])'
  BY <1>2 DEF DoorReqFits, DoorReqFields, Door!Free, DoorStored
<1>4. DoorPlanned' /\ DoorMoved(m)
  BY <1>1 DEF DoorPlanned, DoorMoved, Door!Done, DoorSame
<1>5. \A x \in Door!Conns : plan.turns /\ Door!Staff(x) => DoorDue(shown[x], req[m])'
  BY <1>2 DEF DoorDue, Door!Free
<1> QED
  BY <1>3, <1>4, <1>5, DoorTurnIs, DoorQuietKeeps

LEMMA DoorForgetKeeps ==
    ASSUME DoorKept, NEW m \in Door!Conns, Door!DropUser(m)
    PROVE  DoorKept'
<1>1. /\ UNCHANGED <<plan, left, w1, w4, w5, last, w6, w7, shown, w8>> /\ req[m].at = "user"
      /\ rows' = Door!Only(rows, DOMAIN rows \ {req[m].user})
      /\ w2' = Door!Cascade(w2, req[m].user) /\ w3' = Door!Cascade(w3, req[m].user)
      /\ IF req[m].op = "ban" THEN Door!Move(m, "enforce") ELSE Door!Done(m)
  BY DEF Door!DropUser, Door!Step
<1>2. DOMAIN rows' = DOMAIN rows \ {req[m].user}
  BY <1>1 DEF Door!Only
<1>3. DoorNumbered'
  BY <1>1, <1>2 DEF DoorKept, DoorNumbered, Door!Cascade
<1>4. DOMAIN w6' = Door!Conns /\ (\A x \in Door!Conns : DoorSame(x)) /\ DOMAIN shown = Door!Conns /\ DoorReqFits(m, req[m])
      /\ \A x \in Door!Conns : shown[x] \subseteq 1..last.ban
  BY <1>1 DEF DoorKept, DoorHeld, DoorSame
<1>5. CASE req[m].op = "ban"
  BY <1>1, <1>3, <1>4, <1>5, DoorMoveKeeps
<1>6. CASE req[m].op # "ban"
  <2>1. ~Door!Step(m, "free") /\ \A b : ~DoorBanning(req[m], b)
    BY <1>1, <1>6 DEF Door!Step, DoorBanning
  <2>2. ASSUME NEW x \in Door!Conns, plan.turns, Door!Staff(x)
        PROVE  shown'[x] = DOMAIN w4
    <3>1. DoorDue(shown[x], req[m])
      BY <2>1, <2>2, DoorTurnIs
    <3> QED
      BY <1>1, <1>6, <3>1 DEF DoorDue, DoorStored
  <2> QED
    BY <1>1, <1>3, <1>4, <1>6, <2>1, <2>2, DoorEndKeeps
<1> QED
  BY <1>5, <1>6

LEMMA DoorTellKeeps ==
    ASSUME DoorKept, NEW m \in Door!Conns, Door!Tell(m)
    PROVE  DoorKept'
<1>1. /\ UNCHANGED <<plan, left, w1, Door!store, w6, w7, w8>> /\ req[m].at = "tell" /\ Door!Done(m)
      /\ shown' = [c \in Door!Conns |-> IF Door!Staff(c) THEN Door!Listed(req[m].op, req[m].ban, shown[c]) ELSE shown[c]]
  BY DEF Door!Tell, Door!Step
<1>2. DoorNumbered' /\ DoorReqFits(m, req[m]) /\ \A x \in Door!Conns : shown[x] \subseteq 1..last.ban
  BY <1>1 DEF Door!store, DoorKept, DoorHeld, DoorNumbered
<1>3. \A x \in Door!Conns : shown'[x] \subseteq 1..last.ban
  BY <1>1, <1>2 DEF DoorReqFits, Door!Listed
<1>4. ~Door!Step(m, "free") /\ \A b : ~DoorBanning(req[m], b)
  BY <1>1 DEF Door!Step, DoorBanning
<1>5. ASSUME NEW x \in Door!Conns, plan.turns, Door!Staff(x)
      PROVE  shown'[x] = DOMAIN w4
  <2>1. DoorDue(shown[x], req[m]) /\ req[m].op \in {"ban", "lift"}
    BY <1>1, <1>2, <1>4, <1>5, DoorTurnIs DEF DoorReqFits
  <2>2. shown'[x] = Door!Listed(req[m].op, req[m].ban, shown[x])
    BY <1>1, <1>5
  <2> QED
    BY <1>1, <2>1, <2>2 DEF DoorDue, DoorStored, Door!Listed
<1> QED
  BY <1>1, <1>2, <1>3, <1>4, <1>5, DoorEndKeeps DEF Door!store

LEMMA DoorShowKeeps ==
    ASSUME DoorKept, NEW m \in Door!Conns, Door!Show(m)
    PROVE  DoorKept'
<1>1. /\ UNCHANGED <<plan, left, w1, Door!store, w6, w7, w8>> /\ req[m].at = "show" /\ Door!Done(m)
      /\ shown' = [shown EXCEPT ![m] = req[m].list]
  BY DEF Door!Show, Door!Step
<1>2. /\ DoorNumbered' /\ DoorReqFits(m, req[m]) /\ DOMAIN shown = Door!Conns /\ \A x \in Door!Conns : shown[x] \subseteq 1..last.ban
  BY <1>1 DEF Door!store, DoorKept, DoorHeld, DoorNumbered
<1>3. DOMAIN shown' = Door!Conns /\ \A x \in Door!Conns : shown'[x] \subseteq 1..last.ban
  BY <1>1, <1>2 DEF DoorReqFits
<1>4. ~Door!Step(m, "free")
  BY <1>1 DEF Door!Step
<1>5. \A b : ~DoorBanning(req[m], b)
  BY <1>1, <1>2 DEF DoorBanning, DoorReqFits
<1>6. ASSUME NEW x \in Door!Conns, plan.turns, Door!Staff(x)
      PROVE  shown'[x] = DOMAIN w4
  <2>1. DoorDue(shown[x], req[m])
    BY <1>4, <1>6, DoorTurnIs
  <2>2. shown[x] = DOMAIN w4 /\ req[m].list = shown[x]
    BY <1>1, <2>1 DEF DoorDue, DoorStored
  <2> QED
    BY <1>1, <1>2, <2>2
<1> QED
  BY <1>1, <1>2, <1>3, <1>4, <1>5, <1>6, DoorEndKeeps DEF Door!store

LEMMA DoorEnforceKeeps ==
    ASSUME DoorKept, NEW m \in Door!Conns, Door!Enforce(m)
    PROVE  DoorKept'
<1>1. /\ UNCHANGED <<plan, left, w1, Door!store, w7, shown, w8>> /\ req[m].at = "enforce" /\ Door!Move(m, "tell")
      /\ DOMAIN w6' = Door!Conns /\ \A x \in Door!Conns : DoorSame(x)
      /\ \A x \in Door!Conns : Door!InHub(x) /\ ~Door!IsOwner(w6[x].user) /\ Door!Caught(req[m].handles, x) =>
            w6'[x] = [w6[x] EXCEPT !.closing = TRUE]
  BY DEF Door!Enforce, Door!Step, Door!Shut, DoorSame
<1>2. DoorReqFits(m, req[m]) /\ DOMAIN req = Door!Conns /\ DOMAIN shown = Door!Conns /\ DoorPlanned /\ last.ban \in Nat /\ last.user \in Nat
  BY DEF DoorKept, DoorHeld, DoorNumbered
<1>3. /\ DOMAIN req'[m] = DoorReqFields /\ req'[m].at = "tell" /\ req'[m].op = req[m].op
      /\ req'[m].ban = req[m].ban
      /\ req[m].op = "ban" /\ req[m].ban \in 1..last.ban
  BY <1>1, <1>2 DEF Door!Move, DoorReqFits, DoorReqFields, DoorStored
<1>4. DoorReqFits(m, req[m])'
  BY <1>1, <1>3 DEF DoorReqFits, DoorStored, Door!store
<1>5. DoorNumbered' /\ DoorPlanned' /\ DoorMoved(m) /\ Door!OwnDoorOpen'
  BY <1>1, <1>2 DEF DoorPlanned, DoorMoved, Door!Move, Door!store, DoorKept, DoorNumbered, Door!OwnDoorOpen,
     Door!HandlesAt
<1>6. DoorTurn(m) /\ \A x \in Door!Conns : plan.turns /\ Door!Staff(x) => DoorDue(shown[x], req[m])
  BY <1>1, DoorTurnIs DEF Door!Step
<1>7. \A x \in Door!Conns : plan.turns /\ Door!Staff(x) => DoorDue(shown[x], req[m])'
  BY <1>1, <1>3, <1>6 DEF DoorDue, DoorStored, Door!store
<1>8. \A x \in Door!Conns : shown'[x] \subseteq 1..last.ban
  BY <1>1 DEF DoorKept, DoorHeld
<1>9. ASSUME NEW h \in DOMAIN w5, NEW x \in Door!Conns, h \in Door!Handles(x), Door!InHub(x), ~Door!IsOwner(w6[x].user), Door!Pending(w5[h])
      PROVE  \/ w6'[x].closing
             \/ \E d \in Door!Conns : req'[d].ban = w5[h] /\ req'[d].op = "ban" /\ req'[d].at # "tell"
  <2>1. PICK d \in Door!Conns : req[d].ban = w5[h] /\ req[d].op = "ban" /\ req[d].at # "tell"
    BY <1>9 DEF Door!Pending
  <2>2. CASE d # m
    BY <1>1, <2>1, <2>2 DEF Door!Move
  <2>3. CASE d = m
    <3>1. h \in req[m].handles
      BY <1>1, <1>2, <1>3, <2>1, <2>3 DEF DoorReqFits, DoorStored
    <3>2. w6'[x] = [w6[x] EXCEPT !.closing = TRUE]
      BY <1>1, <1>9, <3>1 DEF Door!Caught
    <3>3. DOMAIN w6[x] = DoorConnFields
      BY DEF DoorKept, DoorHeld, DoorConnFits
    <3> QED
      BY <3>2, <3>3 DEF DoorConnFields
  <2> QED
    BY <2>2, <2>3
<1>10. \A b : Door!Active(b)' = Door!Active(b)
  BY <1>1 DEF Door!Active, Door!store
<1>11. ASSUME NEW h, NEW b, h \in DOMAIN w5', b = w5'[h], Door!Active(b)'
       PROVE  /\ h \in DOMAIN w5 /\ w5[h] = b /\ Door!Active(b)
              /\ \A x \in Door!Conns : h \in Door!Handles(x) /\ Door!InHub(x) /\ ~Door!IsOwner(w6[x].user) /\ Door!Pending(b) =>
                          Door!Pending(b)' \/ w6'[x].closing
  <2>1. w5' = w5 /\ Door!Conns' = Door!Conns
    BY <1>1 DEF Door!store, Door!Conns
  <2>2. \A x \in Door!Conns : h \in Door!Handles(x) /\ Door!InHub(x) /\ ~Door!IsOwner(w6[x].user) /\ Door!Pending(b) => Door!Pending(b)' \/ w6'[x].closing
    BY <1>9, <1>11, <2>1 DEF Door!Pending
  <2> QED
    BY <1>10, <1>11, <2>1, <2>2
<1>12. UNCHANGED <<plan, last, w5>>
  BY <1>1 DEF Door!store
<1> QED
  BY <1>2, <1>4, <1>5, <1>6, <1>7, <1>8, <1>11, <1>12, DoorModKeeps

LEMMA DoorStoreKeeps ==
    ASSUME DoorKept, NEW m \in Door!Conns, Door!StoreBan(m)
    PROVE  DoorKept'
<1> DEFINE b == last.ban + 1
           r == [req[m] EXCEPT !.at = "close", !.ban = b]
           row == [user |-> req[m].user, by |-> m, ends |-> req[m].ends]
           hs == req[m].handles
<1>1. /\ UNCHANGED <<plan, left, w1, rows, w2, w3, w6, w7, shown, w8>> /\ req[m].at = "store"
      /\ w4' = Door!With(w4, b, row)
      /\ w5' = [h \in DOMAIN w5 \cup hs |-> IF h \in hs THEN b ELSE w5[h]]
      /\ last' = [last EXCEPT !.ban = b] /\ req' = [req EXCEPT ![m].at = "close", ![m].ban = b]
  BY DEF Door!StoreBan, Door!Step
<1>2. /\ DoorReqFits(m, req[m]) /\ DOMAIN req = Door!Conns /\ DOMAIN shown = Door!Conns
      /\ DOMAIN w6 = Door!Conns /\ DoorPlanned /\ DoorNumbered
      /\ Door!OwnDoorOpen /\ DoorScreened
  BY DEF DoorKept, DoorHeld
<1>3. /\ last'.ban = b /\ last'.user = last.user /\ last'.token = last.token /\ DOMAIN last' = DOMAIN last
      /\ last.ban \in Nat /\ last.user \in Nat /\ last.token \in Nat /\ b \in Nat /\ b > last.ban /\ b \in 1..b
  BY <1>1, <1>2 DEF DoorNumbered
<1>4. /\ DOMAIN r = DoorReqFields /\ r.at = "close" /\ r.op = "ban" /\ r.ban = b /\ r.handles = hs
      /\ req' = [req EXCEPT ![m] = r] /\ req'[m] = r
  BY <1>1, <1>2 DEF DoorReqFits, DoorReqFields
<1>5. /\ req[m].op = "ban" /\ req[m].ban = 0 /\ req[m].ends \in Nat /\ hs \cap Door!HandlesAt(plan.place[m]) = {}
      /\ \A u : <<"user", u>> \in hs => u \in 1..last.user
  BY <1>1, <1>2 DEF DoorReqFits
<1>6. row.ends = req[m].ends /\ row.by = m
  OBVIOUS
<1> HIDE DEF r, row, hs
<1>7. /\ DOMAIN w4' = DOMAIN w4 \cup {b} /\ w4'[b] = row /\ b \notin DOMAIN w4
      /\ \A x \in DOMAIN w4 : w4'[x] = w4[x]
  <2>1. b \notin DOMAIN w4
    BY <1>2, <1>3 DEF DoorNumbered
  <2> QED
    BY <1>1, <2>1 DEF Door!With
<1>8. \A h \in DOMAIN w5' :
        \/ h \in hs /\ w5'[h] = b
        \/ h \notin hs /\ h \in DOMAIN w5 /\ w5'[h] = w5[h]
  BY <1>1
<1>9. DoorNumbered'
  <2>1. \A h \in DOMAIN w5' : w5'[h] \in DOMAIN w4' /\ \A u : h = <<"user", u>> => u \in 1..last'.user
    BY <1>2, <1>3, <1>5, <1>7, <1>8 DEF DoorNumbered
  <2>2. DOMAIN w4' \subseteq 1..last'.ban
    BY <1>2, <1>3, <1>7 DEF DoorNumbered
  <2>3. \A x \in DOMAIN w4' : w4'[x].ends \in Nat
    BY <1>2, <1>5, <1>6, <1>7 DEF DoorNumbered
  <2>4. UNCHANGED <<w1, w8, rows, w2, w3>>
    BY <1>1
  <2> HIDE DEF b
  <2> QED
    BY <1>2, <1>3, <2>1, <2>2, <2>3, <2>4 DEF DoorNumbered
<1>10. Door!OwnDoorOpen'
  <2>1. \A c : Door!HandlesAt(plan.place[c])' = Door!HandlesAt(plan.place[c])
    BY <1>1 DEF Door!HandlesAt
  <2>2. \A h \in DOMAIN w5 : w5[h] \in DOMAIN w4 /\ h \notin Door!HandlesAt(plan.place[w4[w5[h]].by])
    BY <1>2 DEF Door!OwnDoorOpen, DoorNumbered
  <2>3. plan' = plan
    BY <1>1
  <2>4. ASSUME NEW h \in DOMAIN w5'
        PROVE  h \notin Door!HandlesAt(plan'.place[w4'[w5'[h]].by])
    <3>1. CASE h \in hs
      BY <1>5, <1>6, <1>7, <1>8, <2>3, <3>1
    <3>2. CASE h \notin hs
      BY <1>7, <1>8, <2>2, <2>3, <3>2
    <3> QED
      BY <3>1, <3>2
  <2> QED
    BY <2>4 DEF Door!OwnDoorOpen, Door!HandlesAt
<1>11. DoorReqFits(m, req[m])'
  <2>1. \A h \in DOMAIN w5' : w5'[h] = b => h \in hs
    BY <1>2, <1>3, <1>7, <1>8 DEF DoorNumbered
  <2> HIDE DEF b
  <2> QED
    BY <1>3, <1>4, <2>1 DEF DoorReqFits, DoorStored
<1>12. DoorPlanned' /\ DoorMoved(m) /\ Door!Conns' = Door!Conns
  BY <1>1, <1>2, <1>4 DEF DoorPlanned, DoorMoved, DoorSame, Door!Conns
<1>13. DoorTurn(m) /\ \A x \in Door!Conns : plan.turns /\ Door!Staff(x) => DoorDue(shown[x], req[m])
  BY <1>1, DoorTurnIs DEF Door!Step
<1>14. \A x \in Door!Conns : plan.turns /\ Door!Staff(x) => DoorDue(shown[x], req[m])'
  <2>1. \A x \in Door!Conns : plan.turns /\ Door!Staff(x) => shown[x] = DOMAIN w4
    BY <1>1, <1>13 DEF DoorDue, DoorStored
  <2>2. DOMAIN w4 = DOMAIN w4' \ {b} /\ b \in DOMAIN w4'
    BY <1>7
  <2>3. DoorStored(req'[m]) /\ req'[m].ban = b /\ req'[m].at # "free"
    BY <1>4 DEF DoorStored
  <2> HIDE DEF b
  <2> QED
    BY <1>1, <2>1, <2>2, <2>3 DEF DoorDue, DoorStored
<1>15. \A x \in Door!Conns : shown'[x] \subseteq 1..last'.ban
  BY <1>1, <1>3 DEF DoorKept, DoorHeld
<1>16. \E d \in Door!Conns : req'[d].ban = b /\ req'[d].op = "ban" /\ req'[d].at # "tell"
  BY <1>4
<1>17. ASSUME NEW h, NEW x, h \in DOMAIN w5', x = w5'[h], Door!Active(x)'
       PROVE  \/ x > last.ban /\ Door!Pending(x)'
              \/ /\ h \in DOMAIN w5 /\ w5[h] = x /\ Door!Active(x)
                 /\ \A c \in Door!Conns : h \in Door!Handles(c) /\ Door!InHub(c) /\ ~Door!IsOwner(w6[c].user) /\ Door!Pending(x) =>
                        Door!Pending(x)' \/ w6'[c].closing
  <2>1. CASE h \in hs
    <3>1. x = b
      BY <1>8, <1>17, <2>1
    <3> QED
      BY <1>3, <1>12, <1>16, <3>1 DEF Door!Pending
  <2>2. CASE h \notin hs
    <3>1. h \in DOMAIN w5 /\ w5[h] = x /\ x \in DOMAIN w4
      BY <1>2, <1>8, <1>17, <2>2 DEF DoorNumbered
    <3>2. Door!Active(x)
      BY <1>1, <1>7, <1>17, <3>1 DEF Door!Active
    <3>3. Door!Pending(x) => Door!Pending(x)'
      <4> SUFFICES ASSUME NEW d \in Door!Conns, req[d].ban = x, req[d].op = "ban", req[d].at # "tell"
                   PROVE  Door!Pending(x)'
        BY DEF Door!Pending
      <4>1. x \in Nat /\ x # 0
        BY <1>2, <1>3, <3>1 DEF DoorNumbered
      <4>2. d # m
        BY <1>5, <4>1
      <4>3. req'[d] = req[d]
        BY <1>4, <4>2
      <4> QED
        BY <1>12, <4>3 DEF Door!Pending
    <3> QED
      BY <3>1, <3>2, <3>3
  <2> QED
    BY <2>1, <2>2
<1>18. \A h \in DOMAIN w5' : (h \in DOMAIN w5 /\ w5'[h] = w5[h]) \/ w5'[h] > last.ban
  BY <1>3, <1>8
<1>19. plan' = plan /\ last'.user >= last.user /\ last'.ban >= last.ban
  BY <1>1, <1>3
<1> HIDE DEF b
<1> QED
  BY <1>9, <1>10, <1>11, <1>12, <1>13, <1>14, <1>15, <1>17, <1>18, <1>19, DoorModKeeps

LEMMA DoorLiftKeeps ==
    ASSUME DoorKept, NEW m \in Door!Conns, Door!Lift(m)
    PROVE  DoorKept'
<1>1. PICK b \in DOMAIN w4 :
        /\ w4' = Door!Only(w4, DOMAIN w4 \ {b})
        /\ w5' = Door!Only(w5, {h \in DOMAIN w5 : w5[h] # b})
        /\ req' = [req EXCEPT ![m] = [Door!Free EXCEPT !.at = "tell", !.op = "lift", !.ban = b]]
  BY ZenonT(30) DEF Door!Lift
<1> DEFINE r == [Door!Free EXCEPT !.at = "tell", !.op = "lift", !.ban = b]
<1>2. DOMAIN r = DoorReqFields /\ r.at = "tell" /\ r.op = "lift" /\ r.ban = b
  BY DEF Door!Free, DoorReqFields
<1>3. req' = [req EXCEPT ![m] = r]
  BY <1>1
<1> HIDE DEF r
<1>4. Door!Spend("lift") /\ Door!Moderates(m) /\ UNCHANGED <<plan, w1, rows, w2, w3, last, w6, w7, shown, w8>>
  BY DEF Door!Lift
<1>5. /\ DoorReqFits(m, req[m]) /\ DOMAIN req = Door!Conns /\ DOMAIN shown = Door!Conns
      /\ DOMAIN w6 = Door!Conns /\ DoorPlanned /\ DoorNumbered
      /\ Door!OwnDoorOpen /\ DoorScreened /\ \A x \in Door!Conns : shown[x] \subseteq 1..last.ban
  BY DEF DoorKept, DoorHeld
<1>6. DOMAIN w4' = DOMAIN w4 \ {b} /\ \A x \in DOMAIN w4' : w4'[x] = w4[x]
  BY <1>1 DEF Door!Only
<1>7. \A h \in DOMAIN w5' : h \in DOMAIN w5 /\ w5'[h] = w5[h] /\ w5[h] # b
  BY <1>1 DEF Door!Only
<1>8. DoorNumbered'
  BY <1>4, <1>5, <1>6, <1>7 DEF DoorNumbered
<1>9. Door!OwnDoorOpen'
  <2>1. \A h \in DOMAIN w5' : h \notin Door!HandlesAt(plan.place[w4'[w5'[h]].by])
    BY <1>5, <1>6, <1>7 DEF Door!OwnDoorOpen, DoorNumbered
  <2> QED
    BY <1>4, <2>1 DEF Door!OwnDoorOpen, Door!HandlesAt
<1>10. req'[m] = r /\ b \in 1..last.ban /\ req[m].at = "free" /\ req[m].op = "none" /\ last.user \in Nat /\ last.ban \in Nat
  BY <1>3, <1>4, <1>5 DEF Door!Moderates, Door!Step, DoorNumbered, DoorReqFits
<1>11. DoorReqFits(m, req[m])'
  BY <1>2, <1>4, <1>10 DEF DoorReqFits, DoorStored
<1>12. DoorPlanned' /\ DoorMoved(m) /\ Door!Conns' = Door!Conns
  BY <1>3, <1>4, <1>5, DoorSpends DEF DoorMoved, DoorSame, Door!Conns
<1>13. DoorTurn(m) /\ \A x \in Door!Conns : plan.turns /\ Door!Staff(x) => DoorDue(shown[x], req[m])
  BY <1>4, DoorTurnIs
<1>14. ASSUME NEW x \in Door!Conns, plan.turns, Door!Staff(x)
       PROVE  DoorDue(shown[x], req[m])'
  <2>1. shown[x] = DOMAIN w4
    BY <1>10, <1>13, <1>14 DEF DoorDue
  <2>2. shown[x] = DOMAIN w4' \cup {b} /\ b \notin DOMAIN w4'
    BY <1>6, <2>1
  <2>3. ~DoorStored(req'[m]) /\ req'[m].ban = b /\ req'[m].at = "tell" /\ req'[m].op = "lift"
    BY <1>2, <1>10 DEF DoorStored
  <2> QED
    BY <1>4, <2>2, <2>3 DEF DoorDue, DoorStored
<1>15. ASSUME NEW h, NEW x, h \in DOMAIN w5', x = w5'[h], Door!Active(x)'
       PROVE  /\ h \in DOMAIN w5 /\ w5[h] = x /\ Door!Active(x)
              /\ \A c \in Door!Conns : h \in Door!Handles(c) /\ Door!InHub(c) /\ ~Door!IsOwner(w6[c].user) /\ Door!Pending(x) =>
                        Door!Pending(x)' \/ w6'[c].closing
  <2>1. h \in DOMAIN w5 /\ w5[h] = x /\ x \in DOMAIN w4'
    BY <1>5, <1>6, <1>7, <1>15 DEF DoorNumbered
  <2>2. Door!Active(x)
    BY <1>4, <1>6, <1>15, <2>1 DEF Door!Active
  <2>3. Door!Pending(x) => Door!Pending(x)'
    <3> SUFFICES ASSUME NEW d \in Door!Conns, req[d].ban = x, req[d].op = "ban", req[d].at # "tell"
                 PROVE  Door!Pending(x)'
      BY DEF Door!Pending
    <3>1. req'[d] = req[d]
      BY <1>3, <1>10
    <3> QED
      BY <1>12, <3>1 DEF Door!Pending
  <2> QED
    BY <2>1, <2>2, <2>3
<1> QED
  BY <1>4, <1>5, <1>7, <1>8, <1>9, <1>10, <1>11, <1>12, <1>13, <1>14, <1>15, DoorModKeeps

\* Time passes, and what is stale is swept.
LEMMA DoorSweepKeeps ==
    ASSUME DoorKept, Door!Day \/ Door!SweepTokens \/ Door!SweepMarks \/ Door!SweepGuests
    PROVE  DoorKept'
<1>1. /\ UNCHANGED <<plan, left, w4, w5, w6, w7, req, shown, last>>
      /\ w1' = w1 \/ (w1 < MaxDays /\ w1' = w1 + 1)
  BY DEF Door!Day, Door!SweepTokens, Door!SweepMarks, Door!SweepGuests, Door!store
<1>2. DoorPlanned /\ DoorNumbered /\ DoorHeld /\ Door!OwnDoorOpen /\ DoorScreened /\ DoorShown /\ w1 \in Nat /\ MaxDays \in Nat
  BY DEF DoorKept, DoorNumbered, DoorPlanned
<1>3. DoorNumbered'
  <2>1. CASE Door!Day
    <3>1. w1' \in 0..MaxDays /\ w8' = "tokens" /\ UNCHANGED <<rows, w2, w3>>
      BY <1>2, <2>1 DEF Door!Day, Door!store
    <3> QED
      BY <1>1, <1>2, <3>1 DEF DoorNumbered
  <2>2. CASE Door!SweepTokens \/ Door!SweepMarks
    <3>1. w1' = w1 /\ w8' \in {"marks", "guests"} /\ rows' = rows /\ w2' \subseteq w2 /\ w3' \subseteq w3
      BY <2>2 DEF Door!SweepTokens, Door!SweepMarks
    <3> QED
      BY <1>1, <1>2, <3>1 DEF DoorNumbered
  <2>3. CASE Door!SweepGuests
    <3> DEFINE gone == {u \in DOMAIN rows : ~rows[u].account /\ Door!Stale(rows[u].seen) /\ ~\E t \in w2 : t.user = u}
    <3>1. w1' = w1 /\ w8' = "rest" /\ w2' = w2
      BY <2>3 DEF Door!SweepGuests
    <3>2. DOMAIN rows' = DOMAIN rows \ gone /\ w3' = {k \in w3 : k.user \notin gone}
      BY <2>3 DEF Door!SweepGuests, Door!Only
    <3>3. \A t \in w2 : t.user \notin gone
      OBVIOUS
    <3> HIDE DEF gone
    <3> QED
      BY <1>1, <1>2, <3>1, <3>2, <3>3 DEF DoorNumbered
  <2> QED
    BY <2>1, <2>2, <2>3
<1>4. DoorPlanned' /\ DoorHeld' /\ Door!OwnDoorOpen' /\ DoorShown'
  <2>1. Door!Conns' = Door!Conns /\ \A c \in Door!Conns : Door!HandlesAt(plan.place[c])' = Door!HandlesAt(plan.place[c])
    BY <1>1 DEF Door!Conns, Door!HandlesAt
  <2>2. DoorPlanned' /\ Door!OwnDoorOpen'
    BY <1>1, <1>2 DEF DoorPlanned, Door!OwnDoorOpen, Door!HandlesAt
  <2>3. DoorHeld'
    BY <1>1, <1>2, <2>1 DEF DoorHeld, DoorConnFits, DoorReqFits, DoorStored, Door!InHub
  <2>4. DoorShown'
    BY <1>1, <1>2, <2>1 DEF DoorShown, DoorDue, DoorStored, Door!At, Door!Step, Door!Staff, Door!InHub,
       Door!Rank, Door!IsOwner
  <2> QED
    BY <2>2, <2>3, <2>4
<1>5. \A b \in DOMAIN w4 : Door!Active(b)' => Door!Active(b)
  BY <1>1, <1>2 DEF Door!Active, DoorNumbered
<1>6. DoorScreened'
  <2> SUFFICES ASSUME NEW c \in Door!Conns, ~Door!IsOwner(w6[c].user), NEW h \in Door!Handles(c) \cap DOMAIN w5, Door!Active(w5[h])'
               PROVE  /\ w6[c].at \in {"passed", "known"} => w5[h] > w6[c].asked
                      /\ Door!InHub(c) /\ ~w6[c].closing => Door!Pending(w5[h]) \/ w5[h] \in w6[c].missed
    BY <1>1 DEF DoorScreened, Door!Conns, Door!IsOwner, Door!Handles, Door!HandlesAt, Door!InHub, Door!Pending
  <2>1. Door!Active(w5[h])
    BY <1>1, <1>2, <1>5 DEF DoorNumbered
  <2> QED
    BY <1>2, <2>1 DEF DoorScreened
<1> QED
  BY <1>3, <1>4, <1>6 DEF DoorKept

LEMMA DoorKeptStays ==
    ASSUME DoorKept, [Door!Next]_(Door!vars)
    PROVE  DoorKept'
<1>1. CASE Door!Next
  BY <1>1, DoorAttemptKeeps, DoorScreenKeeps, DoorMintKeeps, DoorTouchKeeps, DoorGrantKeeps, DoorSeatKeeps,
     DoorRecordKeeps, DoorGoingKeeps, DoorBanKeeps, DoorStoreKeeps,
     DoorKickKeeps, DoorCloseKeeps, DoorDropKeeps, DoorForgetKeeps, DoorEnforceKeeps, DoorLiftKeeps, DoorTellKeeps, DoorListKeeps, DoorShowKeeps, DoorSweepKeeps DEF Door!Next
<1>2. CASE UNCHANGED Door!vars
  <2>1. UNCHANGED <<plan, left, w1, rows, w2, w3, w4, w5, last, w6, w7, req, shown, w8>>
    BY <1>2 DEF Door!vars, Door!store
  <2>2. Door!Conns' = Door!Conns /\ \A c \in Door!Conns : Door!HandlesAt(plan.place[c])' = Door!HandlesAt(plan.place[c])
    BY <2>1 DEF Door!Conns, Door!HandlesAt
  <2>3. DoorPlanned' /\ Door!OwnDoorOpen' /\ DoorNumbered'
    BY <2>1 DEF DoorKept, DoorPlanned, Door!OwnDoorOpen, Door!HandlesAt, DoorNumbered
  <2>4. DoorHeld'
    BY <2>1, <2>2 DEF DoorKept, DoorHeld, DoorConnFits, DoorReqFits, DoorStored, Door!InHub
  <2>5. DoorShown'
    BY <2>1, <2>2 DEF DoorKept, DoorShown, DoorDue, DoorStored, Door!At, Door!Step, Door!Staff, Door!InHub,
       Door!Rank, Door!IsOwner
  <2>6. DoorScreened'
    BY <2>1, <2>2 DEF DoorKept, DoorScreened, Door!IsOwner, Door!Handles, Door!HandlesAt, Door!InHub,
       Door!Pending, Door!Active, Door!Conns
  <2> QED
    BY <2>3, <2>4, <2>5, <2>6 DEF DoorKept
<1> QED
  BY <1>1, <1>2

LEMMA DoorKeptShows ==
    ASSUME DoorKept
    PROVE  Door!TypeOK /\ Door!OnlyRacersSlip /\ Door!OwnDoorOpen /\ Door!BoardIsTable
<1>1. Door!TypeOK
  BY DEF DoorKept, DoorNumbered, DoorHeld, DoorConnFits, Door!TypeOK
<1>2. Door!OnlyRacersSlip
  BY DEF DoorKept, DoorScreened, Door!OnlyRacersSlip, Door!Catching
<1>3. Door!BoardIsTable
  BY DEF DoorKept, DoorShown, Door!BoardIsTable
<1> QED
  BY <1>1, <1>2, <1>3 DEF DoorKept
=====================================================================================
