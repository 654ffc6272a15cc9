---------------------------- MODULE RoleCaches_proofs ----------------------------
(***************************************************************************)
(* Who may do what, for any number of users, roles and requests: what the  *)
(* copies say once nobody is writing, what a resync repairs, and that      *)
(* managing roles is no way up.                                            *)
(***************************************************************************)
EXTENDS RoleCaches, FiniteSetTheorems, WellFoundedInduction, TLAPS

USE RoleAssumption DEF rowVars, ownerVars, cacheVars, copyVars

-----------------------------------------------------------------------------
(* Largest elements, and how many there are                                 *)

\* Of finitely many numbers one is the largest, and Max is that one.
LEMMA MaxIs ==
    ASSUME NEW S, IsFiniteSet(S), S # {}, \A k \in S : k \in Int
    PROVE  Max(S) \in S /\ \A y \in S : y <= Max(S)
<1> DEFINE Above(k) == {j \in S : j >= k}
           D == {Above(k) : k \in S}
<1>1. IsWellFoundedOn(StrictSubsetOrdering(S), SUBSET S)
  BY FS_StrictSubsetOrderingWellFounded, FS_FiniteSubsetsOfFinite
<1>2. D \subseteq SUBSET S /\ D # {}
  OBVIOUS
<1>3. PICK z \in D : \A y \in D : ~ (<<y, z>> \in StrictSubsetOrdering(S))
  <2> HIDE DEF D
  <2> QED
    BY <1>1, <1>2, WFMin
<1>4. PICK m \in S : z = Above(m)
  BY <1>3
<1>5. ASSUME NEW k \in S, ~(k <= m)
      PROVE  FALSE
  <2>1. Above(k) \in D
    OBVIOUS
  <2>2. Above(k) \subseteq Above(m)
    BY <1>5
  <2>3. m \in Above(m) /\ m \notin Above(k)
    BY <1>5
  <2> HIDE DEF D, Above
  <2> QED
    BY <1>2, <1>3, <1>4, <2>1, <2>2, <2>3 DEF StrictSubsetOrdering
<1>6. \E x \in S : \A y \in S : x >= y
  BY <1>5
<1> QED
  BY <1>6 DEF Max

LEMMA MinOfTwo ==
    ASSUME NEW a \in Int, NEW b \in Int
    PROVE  Min({a, b}) = IF a <= b THEN a ELSE b
BY DEF Min

\* The highest of the positions of some roles, or 0.
LEMMA HighestIs ==
    ASSUME NEW t, IsTable(t), NEW S, S \subseteq DOMAIN t
    PROVE  LET P == {t[r].position : r \in S} IN
           /\ Max({0} \cup P) \in Nat
           /\ \A r \in S : t[r].position <= Max({0} \cup P)
           /\ Max({0} \cup P) = 0 \/ \E r \in S : Max({0} \cup P) = t[r].position
<1> DEFINE P == {t[r].position : r \in S}
           f == [r \in S |-> t[r].position]
<1>1. IsFiniteSet(S)
  <2>1. IsFiniteSet(1..LastRole)
    BY FS_Interval
  <2>2. S \subseteq 1..LastRole
    BY DEF IsTable, Roles
  <2> QED
    BY <2>1, <2>2, FS_Subset
<1>2. f \in Surjection(S, P)
  BY DEF Surjection
<1>3. IsFiniteSet(P)
  BY <1>1, <1>2, FS_Surjection
<1>5. \A k \in P : k \in Nat
  BY DEF IsTable, Row
<1>6. Max({0} \cup P) \in {0} \cup P /\ \A y \in {0} \cup P : y <= Max({0} \cup P)
  <2> HIDE DEF P
  <2>1. {0} \cup P = P \cup {0}
    OBVIOUS
  <2>2. IsFiniteSet({0} \cup P)
    BY <1>3, <2>1, FS_AddElement
  <2> QED
    BY <1>5, <2>2, MaxIs
<1>7. \A r \in S : t[r].position \in P
  OBVIOUS
<1>8. \A k \in P : \E r \in S : k = t[r].position
  OBVIOUS
<1>9. /\ Max({0} \cup P) \in Nat
      /\ \A r \in S : t[r].position <= Max({0} \cup P)
      /\ Max({0} \cup P) = 0 \/ \E r \in S : Max({0} \cup P) = t[r].position
  <2> HIDE DEF P, f
  <2> QED
    BY <1>5, <1>6, <1>7, <1>8
<1> QED
  BY <1>9

\* What they are when nothing is: the largest of a set without a larger one.
LEMMA RankIs ==
    ASSUME NEW t, IsTable(t), NEW own, NEW u, own # u, NEW roles
    PROVE  LET k == RankBy(t, own, u, roles) IN
           /\ k \in Nat
           /\ \A r \in roles \cap DOMAIN t : t[r].position <= k
           /\ k = 0 \/ \E r \in roles \cap DOMAIN t : k = t[r].position
<1>1. roles \cap DOMAIN t \subseteq DOMAIN t
  OBVIOUS
<1> QED
  BY <1>1, HighestIs DEF RankBy

LEMMA RankIsNat ==
    ASSUME NEW t, IsTable(t), NEW own, NEW u, NEW roles
    PROVE  RankBy(t, own, u, roles) \in Nat
<1>1. CASE own = u
  BY <1>1 DEF RankBy
<1>2. CASE own # u
  BY <1>2, RankIs
<1> QED
  BY <1>1, <1>2

\* A mask is made of bits.
LEMMA MaskIs ==
    ASSUME NEW t, IsTable(t), NEW own, NEW u, NEW roles
    PROVE  MaskBy(t, own, u, roles) \subseteq Bits
BY DEF MaskBy, Resolve, IsTable, Row

\* Masks look at the masks of the roles a user has, and at whether the user is the owner.
LEMMA SameMask ==
    ASSUME NEW t, NEW s, NEW own, NEW other, NEW u, NEW roles,
           roles \cap DOMAIN t = roles \cap DOMAIN s,
           \A r \in roles \cap DOMAIN t : t[r].mask = s[r].mask,
           own = u <=> other = u
    PROVE  MaskBy(t, own, u, roles) = MaskBy(s, other, u, roles)
<1>1. {t[r].mask : r \in roles \cap DOMAIN t} = {s[r].mask : r \in roles \cap DOMAIN s}
  OBVIOUS
<1> QED
  BY <1>1 DEF MaskBy

-----------------------------------------------------------------------------
(* Types                                                                    *)

\* A table with the managed roles, everyone at the bottom.
Stacked(t) ==
    /\ IsTable(t) /\ {Everyone, Member, Admin} \subseteq DOMAIN t
    /\ \A r \in DOMAIN t : t[r].position = 0 <=> r = Everyone

Fields == {"op", "role", "row", "places", "whom", "resync", "seen", "todo", "roles", "sum"}
Ops == {"none", "create", "update", "reorder", "delete", "assign", "unassign", "claim", "login"}

\* What a request carries, whatever its step.
Request(q) ==
    /\ DOMAIN q = Fields
    /\ q.op \in Ops /\ q.role \in Roles /\ q.row \in Row /\ q.resync \in BOOLEAN
    /\ q.whom \in Users \cup {NoUser} /\ q.todo \subseteq Users
    /\ q.roles \subseteq Roles /\ q.sum \subseteq Bits

\* What it is about to write.
Draft(q) ==
    /\ q.op = "create" => q.row.position > 0
    /\ q.op = "update" => (q.row.position = 0 <=> q.role = Everyone)
    /\ q.op = "reorder" => /\ Everyone \notin DOMAIN q.places
                           /\ \A r \in DOMAIN q.places : q.places[r] \in Nat /\ q.places[r] > 0
    /\ q.op = "delete" => q.role \notin {Everyone, Member, Admin}
    /\ q.op \in {"assign", "unassign"} => q.whom \in Users

\* What it has in hand at a step.
AtStep(q, step) ==
    /\ step = "write" => Draft(q)
    /\ step = "install" => Stacked(q.seen)
    /\ step \in {"resolve", "apply"} => q.whom \in q.todo

Going == \A u \in Users : Request(req[u]) /\ AtStep(req[u], pc[u])

Rows ==
    /\ Stacked(table) /\ Stacked(cachedRoles)
    /\ DOMAIN table \subseteq born /\ born \subseteq Roles
    /\ grants \subseteq Users \X DOMAIN table
    /\ owner \in Users \cup {NoUser} /\ cachedOwner \in Users \cup {NoUser}
    /\ token \in BOOLEAN

Copies ==
    /\ held \in [Users -> SUBSET Roles] /\ base \in [Users -> SUBSET Bits]
    /\ hub \subseteq Users /\ alone \subseteq Users

\* Ids are left for the roles that are on their way.
Creating == {v \in Users : pc[v] = "write" /\ req[v].op = "create"}
IdsKept == Max(born) + Cardinality(Creating) <= plan.ids

Shape == plan \in Plans /\ pc \in [Users -> Steps] /\ DOMAIN req = Users
         /\ requests \in 0..plan.requests

Typed == Shape /\ Rows /\ Copies /\ Going

LEMMA TypedShows == Typed => TypeOK
BY DEF Typed, Shape, Rows, Copies, Going, Request, TypeOK, Stacked

LEMMA FirstTyped == Init => Typed
<1> SUFFICES ASSUME Init PROVE Typed
  OBVIOUS
<1>0. plan \in Plans
  BY DEF Init
<1>1. Shape
  BY <1>0, PlansFit DEF Init, Shape, Steps
<1>2. Rows
  BY <1>0, PlansFit DEF Init, Rows, Stacked, IsTable
<1>3. \A u \in Users : Implicit(u) \cup Granted(u) \subseteq Roles
  BY DEF Implicit, Granted
<1>4. \A u \in Users : PermissionsFor(u, held[u]) \subseteq Bits
  BY <1>2, MaskIs DEF Rows, Stacked, PermissionsFor
<1>5. Copies
  BY <1>0, <1>3, <1>4, PlansFit DEF Init, Copies
<1>6. Request(NoRequest)
  BY DEF Request, NoRequest, Fields, Ops, Row
<1>7. Going
  BY <1>6 DEF Init, Going, AtStep
<1> QED
  BY <1>1, <1>2, <1>5, <1>7 DEF Typed

\* Positions the hub reads are numbers.
LEMMA CachedIs ==
    ASSUME Rows, NEW u
    PROVE  /\ \A r \in DOMAIN cachedRoles : r \in Roles /\ cachedRoles[r] \in Row
           /\ RankOf(u, held[u]) \in Nat
           /\ HighestPosition(DOMAIN cachedRoles \ {Admin}) \in Nat
<1>1. IsTable(cachedRoles)
  BY DEF Rows, Stacked
<1>2. HighestPosition(DOMAIN cachedRoles \ {Admin}) \in Nat
  BY <1>1, HighestIs DEF HighestPosition
<1> QED
  BY <1>1, <1>2, RankIsNat DEF RankOf, IsTable

\* How many roles are stacked, and how many of them are below another.
LEMMA StackIsFinite ==
    ASSUME Rows, NEW S, S \subseteq Stack
    PROVE  IsFiniteSet(S) /\ Cardinality(S) \in Nat
<1>1. IsFiniteSet(1..LastRole)
  BY FS_Interval
<1>2. S \subseteq 1..LastRole
  BY DEF Rows, Stacked, IsTable, Roles, Stack
<1>3. IsFiniteSet(S)
  BY <1>1, <1>2, FS_Subset
<1> QED
  BY <1>3, FS_CardinalityType

LEMMA PlaceIs ==
    ASSUME Rows, NEW r
    PROVE  PlaceOf(r) \in Nat /\ PlaceOf(r) > 0
<1> DEFINE S == {x \in Stack : \/ cachedRoles[x].position < cachedRoles[r].position
                               \/ cachedRoles[x].position = cachedRoles[r].position /\ x < r}
<1>1. Cardinality(S) \in Nat
  BY StackIsFinite
<1>2. PlaceOf(r) = 1 + Cardinality(S)
  BY DEF PlaceOf
<1> HIDE DEF S
<1> QED
  BY <1>1, <1>2

\* What its checks say of a request q of u, in terms of the copies they read.
Asks(u, q) ==
    /\ q.op \in Ops \ {"none", "login"}
    /\ q.op = "create" => Has(base[u], q.row.mask)
    /\ q.op = "update" =>
        /\ q.role \in DOMAIN cachedRoles /\ BelowRank(u, q.role)
        /\ q.row.position < RankOf(u, held[u])
        /\ q.row.mask = cachedRoles[q.role].mask \/ MayFlip(u, cachedRoles[q.role].mask, q.row.mask)
        /\ ~q.resync => q.row.mask = cachedRoles[q.role].mask
    /\ q.op = "reorder" =>
        /\ q.resync
        /\ \E a, b \in Stack :
            /\ q.places = Exchanged(a, b)
            /\ a # b => PlaceOf(a) <= CeilingPlace(u) /\ PlaceOf(b) <= CeilingPlace(u)
    /\ q.op = "delete" => q.resync
    /\ q.op \in {"delete", "assign", "unassign"} => q.role \in DOMAIN cachedRoles /\ BelowRank(u, q.role)
    /\ q.op = "claim" => token

\* A request carries, when it has passed its checks, what it is about to write.
Asked(u, q) ==
    Checked(u, q) /\ Request(q) /\ Draft(q) /\ Asks(u, q) /\ (q.op = "create" => IdsLeft)

LEMMA CreateIs ==
    ASSUME Typed, NEW u \in Users, NEW mask \in plan.masks, CreateRole(u, mask)
    PROVE  \E q : Asked(u, q)
<1> DEFINE row == [position |-> LandingPosition(u), mask |-> mask]
           q == [NoRequest EXCEPT !.op = "create", !.row = row]
<1>1. LandingPosition(u) \in Nat /\ LandingPosition(u) > 0
  <2>1. RankOf(u, held[u]) \in Nat /\ RankOf(u, held[u]) > 1
    BY CachedIs DEF Typed, CreateRole
  <2>2. HighestPosition(DOMAIN cachedRoles \ {Admin}) \in Nat
    BY CachedIs DEF Typed
  <2> DEFINE h == HighestPosition(DOMAIN cachedRoles \ {Admin}) + 1
             k == RankOf(u, held[u]) - 1
  <2>3. LandingPosition(u) = Min({h, k})
    BY DEF LandingPosition
  <2>4. h \in Nat /\ h > 0 /\ k \in Nat /\ k > 0
    BY <2>1, <2>2
  <2> HIDE DEF h, k
  <2>5. h \in Int /\ k \in Int
    BY <2>4
  <2>6. Min({h, k}) = IF h <= k THEN h ELSE k
    BY <2>5, MinOfTwo
  <2> QED
    BY <2>3, <2>4, <2>6
<1>2. mask \in SUBSET Bits
  BY PlansFit DEF Typed, Shape
<1>3. row \in Row
  BY <1>1, <1>2 DEF Row
<1>4. Checked(u, q) /\ IdsLeft /\ Has(base[u], mask)
  BY DEF CreateRole
<1> HIDE DEF row
<1>5. Request(q) /\ q.op = "create" /\ q.row = row
  BY <1>3 DEF Request, NoRequest, Fields, Ops
<1>6. row.position > 0 /\ row.mask = mask
  BY <1>1 DEF row
<1>7. Draft(q) /\ Asks(u, q)
  BY <1>4, <1>5, <1>6 DEF Draft, Asks, Ops
<1> HIDE DEF q
<1> QED
  BY <1>4, <1>5, <1>7 DEF Asked

LEMMA UpdateIs ==
    ASSUME Typed, NEW u \in Users, NEW r \in Roles, NEW mask \in plan.masks \cup {Same},
           NEW position \in plan.positions \cup {Same}, UpdateRole(u, r, mask, position)
    PROVE  \E q : Asked(u, q)
<1> DEFINE old == cachedRoles[r]
           row == [position |-> IF position = Same THEN old.position ELSE position,
                   mask |-> IF mask = Same THEN old.mask ELSE mask]
           resync == ChangesPermissions(old, mask, position)
           q == [NoRequest EXCEPT !.op = "update", !.role = r, !.row = row, !.resync = resync]
<1>1. r \in DOMAIN cachedRoles /\ old \in Row /\ BelowRank(u, r)
  BY CachedIs DEF UpdateRole, Typed
<1>2. mask = Same \/ (mask \in SUBSET Bits /\ MayFlip(u, old.mask, mask))
  BY PlansFit DEF Typed, Shape, UpdateRole
<1>3. \/ position = Same
      \/ position \in Nat /\ r # Everyone /\ position > 0 /\ position < RankOf(u, held[u])
  BY PlansFit DEF Typed, Shape, UpdateRole, MayPlace
<1>4. old.position = 0 <=> r = Everyone
  BY <1>1 DEF Typed, Rows, Stacked
<1>5. row \in Row /\ (row.position = 0 <=> r = Everyone)
  BY <1>1, <1>2, <1>3, <1>4 DEF Row
<1>6. row.position < RankOf(u, held[u])
  BY <1>1, <1>3 DEF BelowRank
<1>7. (row.mask = old.mask \/ MayFlip(u, old.mask, row.mask)) /\ (~resync => row.mask = old.mask)
  BY <1>2 DEF ChangesPermissions
<1>8. Checked(u, q) /\ resync \in BOOLEAN
  BY DEF UpdateRole, ChangesPermissions
<1> HIDE DEF row, resync
<1>9. Request(q) /\ q.op = "update" /\ q.row = row /\ q.role = r /\ q.resync = resync
  BY <1>5, <1>8 DEF Request, NoRequest, Fields, Ops
<1>10. Draft(q)
  BY <1>5, <1>9 DEF Draft
<1>11. Asks(u, q)
  BY <1>1, <1>6, <1>7, <1>9 DEF Asks, Ops
<1> HIDE DEF q
<1> QED
  BY <1>8, <1>9, <1>10, <1>11 DEF Asked

LEMMA ReorderIs ==
    ASSUME Typed, NEW u \in Users, NEW a \in Roles, NEW b \in Roles, ReorderRoles(u, a, b)
    PROVE  \E q : Asked(u, q)
<1> DEFINE q == [NoRequest EXCEPT !.op = "reorder", !.places = Exchanged(a, b), !.resync = TRUE]
<1>1. /\ Checked(u, q) /\ a \in Stack /\ b \in Stack
      /\ a # b => PlaceOf(a) <= CeilingPlace(u) /\ PlaceOf(b) <= CeilingPlace(u)
  BY DEF ReorderRoles
<1>2. DOMAIN Exchanged(a, b) = Stack
  BY DEF Exchanged
<1>3. \A r \in Stack : Exchanged(a, b)[r] \in Nat /\ Exchanged(a, b)[r] > 0
  BY PlaceIs DEF Exchanged, Typed
<1>4. NoRequest.row \in Row
  BY DEF NoRequest, Row
<1>5. Request(q) /\ q.op = "reorder" /\ q.places = Exchanged(a, b) /\ q.resync
  BY <1>4 DEF Request, NoRequest, Fields, Ops
<1> HIDE DEF q
<1>6. Draft(q)
  BY <1>2, <1>3, <1>5 DEF Draft, Stack
<1>7. Asks(u, q)
  BY <1>1, <1>5 DEF Asks, Ops
<1> QED
  BY <1>1, <1>5, <1>6, <1>7 DEF Asked

LEMMA DeleteIs ==
    ASSUME Typed, NEW u \in Users, NEW r \in Roles, DeleteRole(u, r)
    PROVE  \E q : Asked(u, q)
<1> DEFINE q == [NoRequest EXCEPT !.op = "delete", !.role = r, !.resync = TRUE]
<1>1. /\ Checked(u, q) /\ r \notin {Everyone, Member, Admin}
      /\ r \in DOMAIN cachedRoles /\ BelowRank(u, r)
  BY DEF DeleteRole
<1>2. NoRequest.row \in Row
  BY DEF NoRequest, Row
<1>3. Request(q) /\ q.op = "delete" /\ q.role = r /\ q.resync
  BY <1>2 DEF Request, NoRequest, Fields, Ops
<1> HIDE DEF q
<1>4. Draft(q) /\ Asks(u, q)
  BY <1>1, <1>3 DEF Draft, Asks, Ops
<1> QED
  BY <1>1, <1>3, <1>4 DEF Asked

LEMMA MembershipIs ==
    ASSUME Typed, NEW u \in Users, NEW op \in {"assign", "unassign"}, NEW r \in Roles,
           NEW whom \in plan.users, ChangeMembership(u, op, r, whom)
    PROVE  \E q : Asked(u, q)
<1> DEFINE q == [NoRequest EXCEPT !.op = op, !.role = r, !.whom = whom]
<1>1. Checked(u, q) /\ r \in DOMAIN cachedRoles /\ BelowRank(u, r)
  BY DEF ChangeMembership
<1>2. whom \in Users
  BY PlansFit DEF Typed, Shape
<1>3. NoRequest.row \in Row
  BY DEF NoRequest, Row
<1>4. Request(q) /\ q.op = op /\ q.role = r /\ q.whom = whom
  BY <1>2, <1>3 DEF Request, NoRequest, Fields, Ops
<1> HIDE DEF q
<1>5. Draft(q) /\ Asks(u, q)
  BY <1>1, <1>2, <1>4 DEF Draft, Asks, Ops
<1> QED
  BY <1>1, <1>4, <1>5 DEF Asked

LEMMA ClaimIs ==
    ASSUME Typed, NEW u \in Users, ClaimAdmin(u)
    PROVE  \E q : Asked(u, q)
<1> DEFINE q == [NoRequest EXCEPT !.op = "claim"]
<1>1. Checked(u, q) /\ token
  BY DEF ClaimAdmin
<1>2. NoRequest.row \in Row
  BY DEF NoRequest, Row
<1>3. Request(q) /\ q.op = "claim"
  BY <1>2 DEF Request, NoRequest, Fields, Ops
<1> HIDE DEF q
<1>4. Draft(q) /\ Asks(u, q)
  BY <1>1, <1>3 DEF Draft, Asks, Ops
<1> QED
  BY <1>1, <1>3, <1>4 DEF Asked

\* What every request that passed its checks has in common.
LEMMA AskIs ==
    ASSUME Typed, NEW u \in Users, Ask(u)
    PROVE  \E q : Asked(u, q)
BY CreateIs, UpdateIs, ReorderIs, DeleteIs, MembershipIs, ClaimIs DEF Ask

\* Going on touches one request.
LEMMA GotoIs ==
    ASSUME Shape, NEW u \in Users, NEW step \in Steps, NEW q, Goto(u, step, q)
    PROVE  /\ pc' \in [Users -> Steps] /\ DOMAIN req' = Users
           /\ pc'[u] = step /\ req'[u] = q
           /\ \A v \in Users : v # u => pc'[v] = pc[v] /\ req'[v] = req[v]
BY DEF Shape, Goto

LEMMA NoRequestIs == Request(NoRequest) /\ NoRequest.op = "none" /\ ~NoRequest.resync
<1>1. NoRequest.row \in Row
  BY DEF NoRequest, Row
<1> QED
  BY <1>1 DEF Request, NoRequest, Fields, Ops

\* A step of u keeps the types when its rows, its copies and its request do.
LEMMA TypedGoes ==
    ASSUME Typed, NEW u \in Users, NEW step \in Steps, NEW q, Goto(u, step, q),
           Request(q), AtStep(q, step), plan' = plan, Rows', Copies',
           requests' \in 0..plan.requests
    PROVE  Typed'
<1>1. Shape'
  BY GotoIs DEF Typed, Shape
<1>2. Going'
  BY GotoIs DEF Typed, Going
<1> QED
  BY <1>1, <1>2 DEF Typed

\* Frames are read only as long as a behaviour has requests left.
LEMMA BeginIs ==
    ASSUME Typed, NEW u \in Users, RoomForAnother, Begin(u)
    PROVE  requests' \in 0..plan.requests /\ alone' \subseteq Users
<1>1. plan.requests \in Nat
  BY PlansFit DEF Typed, Shape
<1>2. requests \in 0..plan.requests /\ requests < plan.requests
  BY DEF Typed, Shape, RoomForAnother
<1> QED
  BY <1>1, <1>2 DEF Begin

LEMMA AskTyped ==
    ASSUME Typed, plan' = plan, NEW u \in Users, RoomForAnother, Ask(u)
    PROVE  Typed'
<1>1. PICK q : Checked(u, q) /\ Request(q) /\ Draft(q)
  BY AskIs DEF Asked
<1>2. Rows' /\ Copies'
  BY <1>1, BeginIs DEF Typed, Rows, Copies, Checked, Begin
<1>3. Goto(u, "write", q) /\ requests' \in 0..plan.requests
  BY <1>1, BeginIs DEF Checked
<1>4. AtStep(q, "write") /\ "write" \in Steps
  BY <1>1 DEF AtStep, Steps
<1> QED
  BY <1>1, <1>2, <1>3, <1>4, TypedGoes

LEMMA LoginTyped ==
    ASSUME Typed, plan' = plan, NEW u \in Users, RoomForAnother, Login(u)
    PROVE  Typed'
<1> DEFINE q == [NoRequest EXCEPT !.op = "login", !.todo = {u}]
<1>1. Goto(u, "fetch", q) /\ Rows' /\ Copies' /\ requests' \in 0..plan.requests
  BY BeginIs DEF Typed, Rows, Copies, Login, Begin
<1>2. Request(q)
  BY NoRequestIs DEF Request, Fields, Ops
<1>3. AtStep(q, "fetch") /\ "fetch" \in Steps
  BY DEF AtStep, Steps
<1> HIDE DEF q
<1> QED
  BY <1>1, <1>2, <1>3, TypedGoes

\* The largest id is below the bound, and the next one is new.
LEMMA NextIdIs ==
    ASSUME Typed
    PROVE  /\ Max(born) \in Roles /\ \A r \in born : r <= Max(born)
           /\ Max(born \cup {Max(born) + 1}) = Max(born) + 1
           /\ IsFiniteSet(Creating) /\ Cardinality(Creating) \in Nat
<1>1. IsFiniteSet(1..LastRole)
  BY FS_Interval
<1>2. born \subseteq 1..LastRole /\ Everyone \in born
  BY DEF Typed, Rows, Roles, Stacked
<1>3. IsFiniteSet(born)
  BY <1>1, <1>2, FS_Subset
<1>n. born # {} /\ \A r \in born : r \in Int
  BY <1>2
<1>4. Max(born) \in born /\ \A r \in born : r <= Max(born)
  BY <1>3, <1>n, MaxIs
<1> DEFINE k == Max(born) + 1
           S == born \cup {k}
<1>m. k \in Int /\ \A x \in born : x <= k
  BY <1>4, <1>n
<1>5. IsFiniteSet(S) /\ k \in S /\ k \in Int
  BY <1>3, <1>m, FS_AddElement
<1>6. \A x \in S : x \in Int /\ x <= k
  BY <1>m, <1>n
<1>7. Max(S) \in S /\ k <= Max(S)
  <2> HIDE DEF S, k
  <2> QED
    BY <1>5, <1>6, MaxIs
<1>8. Max(S) = k
  <2>1. Max(S) \in Int /\ Max(S) <= k
    BY <1>6, <1>7
  <2> HIDE DEF S, k
  <2> QED
    BY <1>5, <1>7, <2>1
<1>9. Creating \subseteq Users
  BY DEF Creating
<1>10. IsFiniteSet(Creating) /\ Cardinality(Creating) \in Nat
  BY <1>9, FS_Subset, FS_CardinalityType
<1> QED
  BY <1>2, <1>4, <1>8, <1>10 DEF Roles

\* The id of a role on its way into the store.
LEMMA NewIdIs ==
    ASSUME Typed, IdsKept, NEW u \in Users, pc[u] = "write", req[u].op = "create"
    PROVE  Max(born) + 1 \in Roles \ born /\ Max(born) + 1 \notin DOMAIN table
<1>1. u \in Creating
  BY DEF Creating
<1>2. Cardinality(Creating) # 0
  BY <1>1, NextIdIs, FS_EmptySet
<1>3. plan.ids \in Nat /\ plan.ids <= LastRole
  BY PlansFit DEF Typed, Shape
<1>4. Cardinality(Creating) \in Nat /\ Max(born) \in 1..LastRole /\ \A r \in born : r <= Max(born)
  BY NextIdIs DEF Roles
<1>5. Max(born) + 1 <= LastRole
  BY <1>2, <1>3, <1>4 DEF IdsKept
<1>6. Max(born) + 1 \notin born
  BY <1>4
<1> QED
  BY <1>4, <1>5, <1>6 DEF Roles, Typed, Rows

LEMMA InsertTyped ==
    ASSUME Typed, IdsKept, plan' = plan, NEW u \in Users, InsertRole(u)
    PROVE  Typed'
<1>1. Request(req[u]) /\ req[u].op = "create" /\ pc[u] = "write" /\ req[u].row.position > 0
  BY DEF Typed, Going, InsertRole, Writing, AtStep, Draft
<1> DEFINE k == Max(born) + 1
<1>2. k \in Roles \ born /\ k \notin DOMAIN table
  BY <1>1, NewIdIs
<1>3. /\ table' = [x \in DOMAIN table \cup {k} |-> IF x = k THEN req[u].row ELSE table[x]]
      /\ born' = born \cup {k} /\ UNCHANGED <<grants, owner, token, cachedRoles, cachedOwner>>
  BY DEF InsertRole, Writing
<1> HIDE DEF k
<1>4. Stacked(table')
  BY <1>1, <1>2, <1>3 DEF Stacked, IsTable, Typed, Rows, Request
<1>5. Rows'
  BY <1>2, <1>3, <1>4 DEF Typed, Rows
<1>6. Copies' /\ Goto(u, "reload", req[u]) /\ requests' = requests
  BY DEF Typed, Copies, InsertRole, Writing
<1>7. AtStep(req[u], "reload") /\ "reload" \in Steps /\ requests' \in 0..plan.requests
  BY <1>6 DEF AtStep, Steps, Typed, Shape
<1> QED
  BY <1>1, <1>5, <1>6, <1>7, TypedGoes

LEMMA RestTyped ==
    ASSUME Typed, plan' = plan, NEW u \in Users,
           \/ WriteRole(u) \/ WriteOrder(u) \/ RemoveRole(u) \/ WriteMembership(u) \/ SetOwner(u)
    PROVE  Typed'
<1>1. Request(req[u]) /\ Draft(req[u]) /\ pc[u] = "write"
  BY DEF Typed, Going, AtStep, Writing, WriteRole, WriteOrder, RemoveRole, WriteMembership, SetOwner
<1>2. Copies' /\ requests' \in 0..plan.requests
  BY DEF Typed, Shape, Copies, Writing, WriteRole, WriteOrder, RemoveRole, WriteMembership, SetOwner
<1>3. AtStep(NoRequest, "idle") /\ "idle" \in Steps /\ Request(NoRequest)
  BY NoRequestIs DEF AtStep, Steps
<1>4. AtStep(req[u], "reload") /\ "reload" \in Steps
  BY DEF AtStep, Steps
<1>5. CASE WriteRole(u)
  <2>1. Rows'
    <3>1. CASE req[u].role \in DOMAIN table
      <4>1. table' = [table EXCEPT ![req[u].role] = req[u].row] /\ req[u].op = "update"
        BY <1>5, <3>1 DEF WriteRole, WriteRow, Writing
      <4>2. Stacked(table') /\ DOMAIN table' = DOMAIN table
        BY <1>1, <3>1, <4>1 DEF Stacked, IsTable, Typed, Rows, Request, Draft
      <4> QED
        BY <1>5, <4>2 DEF WriteRole, Writing, Typed, Rows
    <3>2. CASE req[u].role \notin DOMAIN table
      BY <1>5, <3>2 DEF WriteRole, Writing, Typed, Rows
    <3> QED
      BY <3>1, <3>2
  <2>2. Goto(u, "reload", req[u]) \/ Goto(u, "idle", NoRequest)
    BY <1>5 DEF WriteRole, Finish
  <2> QED
    BY <1>1, <1>2, <1>3, <1>4, <2>1, <2>2, TypedGoes
<1>6. CASE WriteOrder(u)
  <2>1. Rows'
    <3> DEFINE places == req[u].places
    <3>1. CASE DOMAIN places \subseteq DOMAIN table
      <4>1. /\ req[u].op = "reorder"
            /\ table' = [r \in DOMAIN table |->
                 IF r \in DOMAIN places THEN [table[r] EXCEPT !.position = places[r]] ELSE table[r]]
        BY <1>6, <3>1 DEF WriteOrder, Writing
      <4>2. Everyone \notin DOMAIN places /\ \A r \in DOMAIN places : places[r] \in Nat /\ places[r] > 0
        BY <1>1, <4>1 DEF Draft
      <4>3. Stacked(table') /\ DOMAIN table' = DOMAIN table
        <5> HIDE DEF places
        <5>1. \A r \in DOMAIN table : table[r] \in Row
          BY DEF Typed, Rows, Stacked, IsTable
        <5>2. \A r \in DOMAIN table : table'[r] \in Row
          BY <4>1, <4>2, <5>1 DEF Row
        <5>3. \A r \in DOMAIN table : table'[r].position = 0 <=> r = Everyone
          BY <4>1, <4>2, <5>1 DEF Typed, Rows, Stacked, Row
        <5>4. DOMAIN table' = DOMAIN table
          BY <4>1
        <5> QED
          BY <5>2, <5>3, <5>4 DEF Typed, Rows, Stacked, IsTable
      <4> QED
        BY <1>6, <4>3 DEF WriteOrder, Writing, Typed, Rows
    <3>2. CASE ~(DOMAIN places \subseteq DOMAIN table)
      BY <1>6, <3>2 DEF WriteOrder, Writing, Typed, Rows
    <3> QED
      BY <3>1, <3>2
  <2>2. Goto(u, "reload", req[u]) \/ Goto(u, "idle", NoRequest)
    BY <1>6 DEF WriteOrder, Finish
  <2> QED
    BY <1>1, <1>2, <1>3, <1>4, <2>1, <2>2, TypedGoes
<1>7. CASE RemoveRole(u)
  <2>1. Rows'
    <3>1. CASE req[u].role \in DOMAIN table
      <4> DEFINE r == req[u].role
      <4>1. /\ table' = [x \in DOMAIN table \ {r} |-> table[x]] /\ grants' = {g \in grants : g[2] # r}
            /\ req[u].op = "delete"
        BY <1>7, <3>1 DEF RemoveRole, GrantsBeside, Restrict, Writing
      <4>2. Stacked(table') /\ DOMAIN table' = DOMAIN table \ {r}
        BY <1>1, <4>1 DEF Stacked, IsTable, Typed, Rows, Draft
      <4>3. grants' \subseteq Users \X (DOMAIN table \ {r})
        BY <4>1 DEF Typed, Rows
      <4> QED
        BY <1>7, <4>2, <4>3 DEF RemoveRole, Writing, Typed, Rows
    <3>2. CASE req[u].role \notin DOMAIN table
      BY <1>7, <3>2 DEF RemoveRole, Writing, Typed, Rows
    <3> QED
      BY <3>1, <3>2
  <2>2. Goto(u, "reload", req[u]) \/ Goto(u, "idle", NoRequest)
    BY <1>7 DEF RemoveRole, Finish
  <2> QED
    BY <1>1, <1>2, <1>3, <1>4, <2>1, <2>2, TypedGoes
<1>8. CASE WriteMembership(u)
  <2> DEFINE q == [req[u] EXCEPT !.todo = {req[u].whom}]
  <2>1. req[u].whom \in Users
    BY <1>1, <1>8 DEF WriteMembership, Writing, Draft
  <2>2. GrantsAfter(req[u]) \subseteq Users \X DOMAIN table
    BY <2>1 DEF GrantsAfter, Typed, Rows
  <2>3. Rows'
    BY <1>8, <2>2 DEF WriteMembership, Writing, Typed, Rows
  <2>4. Request(q)
    BY <1>1, <2>1 DEF Request, Fields
  <2>5. Goto(u, "fetch", q) \/ Goto(u, "idle", NoRequest)
    BY <1>8 DEF WriteMembership, Finish
  <2>6. AtStep(q, "fetch") /\ "fetch" \in Steps
    BY DEF AtStep, Steps
  <2> HIDE DEF q
  <2> QED
    BY <1>2, <1>3, <2>3, <2>4, <2>5, <2>6, TypedGoes
<1>9. CASE SetOwner(u)
  <2> DEFINE q == [req[u] EXCEPT !.resync = cachedOwner \notin {NoUser, u}]
  <2>1. Rows'
    BY <1>9 DEF SetOwner, Writing, Typed, Rows
  <2>2. Request(q)
    BY <1>1 DEF Request, Fields
  <2>3. Goto(u, "burn", q)
    BY <1>9 DEF SetOwner
  <2>4. AtStep(q, "burn") /\ "burn" \in Steps
    BY DEF AtStep, Steps
  <2> HIDE DEF q
  <2> QED
    BY <1>2, <2>1, <2>2, <2>3, <2>4, TypedGoes
<1> QED
  BY <1>5, <1>6, <1>7, <1>8, <1>9

LEMMA HubTyped ==
    ASSUME Typed, plan' = plan, NEW u \in Users,
           \/ BurnToken(u) \/ ReloadOwner(u) \/ InstallOwner(u) \/ ReloadRoles(u) \/ InstallRoles(u)
           \/ ListSessions(u)
    PROVE  Typed'
<1>1. Request(req[u]) /\ AtStep(req[u], pc[u])
  BY DEF Typed, Going
<1>2. requests' \in 0..plan.requests /\ Copies'
  BY DEF Typed, Shape, Copies, BurnToken, ReloadOwner, InstallOwner, ReloadRoles, InstallRoles,
         ListSessions
<1>3. CASE BurnToken(u)
  <2>1. Rows' /\ Goto(u, "reown", req[u])
    BY <1>3 DEF BurnToken, Typed, Rows
  <2>2. AtStep(req[u], "reown") /\ "reown" \in Steps
    BY DEF AtStep, Steps
  <2> QED
    BY <1>1, <1>2, <2>1, <2>2, TypedGoes
<1>4. CASE ReloadOwner(u)
  <2> DEFINE q == [req[u] EXCEPT !.whom = owner]
  <2>1. Rows' /\ Goto(u, "instate", q)
    BY <1>4 DEF ReloadOwner, Typed, Rows
  <2>2. Request(q)
    BY <1>1 DEF Request, Fields, Typed, Rows
  <2>3. AtStep(q, "instate") /\ "instate" \in Steps
    BY DEF AtStep, Steps
  <2> HIDE DEF q
  <2> QED
    BY <1>2, <2>1, <2>2, <2>3, TypedGoes
<1>5. CASE InstallOwner(u)
  <2> DEFINE q == [req[u] EXCEPT !.todo = {u}]
  <2>1. Rows' /\ Goto(u, "fetch", q)
    BY <1>1, <1>5 DEF InstallOwner, Typed, Rows, Request
  <2>2. Request(q)
    BY <1>1 DEF Request, Fields
  <2>3. AtStep(q, "fetch") /\ "fetch" \in Steps
    BY DEF AtStep, Steps
  <2> HIDE DEF q
  <2> QED
    BY <1>2, <2>1, <2>2, <2>3, TypedGoes
<1>6. CASE ReloadRoles(u)
  <2> DEFINE q == [req[u] EXCEPT !.seen = table]
  <2>1. Rows' /\ Goto(u, "install", q)
    BY <1>6 DEF ReloadRoles, Typed, Rows
  <2>2. Request(q) /\ q.seen = table
    BY <1>1 DEF Request, Fields
  <2>3. AtStep(q, "install") /\ "install" \in Steps
    BY <2>2 DEF AtStep, Steps, Typed, Rows
  <2> HIDE DEF q
  <2> QED
    BY <1>2, <2>1, <2>2, <2>3, TypedGoes
<1>7. CASE InstallRoles(u)
  <2> DEFINE q == [req[u] EXCEPT !.seen = <<>>]
  <2>1. Stacked(req[u].seen)
    BY <1>1, <1>7 DEF InstallRoles, AtStep
  <2>2. Rows'
    BY <1>7, <2>1 DEF InstallRoles, Typed, Rows
  <2>3. Goto(u, "sweep", q) \/ Goto(u, "idle", NoRequest)
    BY <1>7 DEF InstallRoles, Finish
  <2>4. Request(q) /\ Request(NoRequest)
    BY <1>1, NoRequestIs DEF Request, Fields
  <2>5. AtStep(q, "sweep") /\ AtStep(NoRequest, "idle") /\ {"idle", "sweep"} \subseteq Steps
    BY DEF AtStep, Steps
  <2> HIDE DEF q
  <2> QED
    BY <1>2, <2>2, <2>3, <2>4, <2>5, TypedGoes
<1>8. CASE ListSessions(u)
  <2> DEFINE q == [req[u] EXCEPT !.todo = hub, !.resync = FALSE]
  <2>1. Rows' /\ Goto(u, "fetch", q)
    BY <1>8 DEF ListSessions, ToResync, Typed, Rows
  <2>2. Request(q)
    BY <1>1 DEF Request, Fields, Typed, Copies
  <2>3. AtStep(q, "fetch") /\ "fetch" \in Steps
    BY DEF AtStep, Steps
  <2> HIDE DEF q
  <2> QED
    BY <1>2, <2>1, <2>2, <2>3, TypedGoes
<1> QED
  BY <1>3, <1>4, <1>5, <1>6, <1>7, <1>8

LEMMA RolesAreRoles ==
    ASSUME NEW u \in Users
    PROVE  TrueRoles(u) \subseteq Roles
BY DEF TrueRoles, Implicit, Granted

LEMMA SessionTyped ==
    ASSUME Typed, plan' = plan, NEW u \in Users,
           \/ FetchRoles(u) \/ ResolveMask(u) \/ ApplyMask(u) \/ Join(u)
    PROVE  Typed'
<1>1. Request(req[u]) /\ AtStep(req[u], pc[u])
  BY DEF Typed, Going
<1>2. requests' \in 0..plan.requests /\ Rows'
  BY DEF Typed, Shape, Rows, FetchRoles, ResolveMask, ApplyMask, Join
<1>3. CASE FetchRoles(u)
  <2>1. PICK t \in req[u].todo :
            Goto(u, "resolve", [req[u] EXCEPT !.whom = t, !.roles = TrueRoles(t)])
    BY <1>3 DEF FetchRoles, TrueRoles
  <2> DEFINE q == [req[u] EXCEPT !.whom = t, !.roles = TrueRoles(t)]
  <2>2. Request(q) /\ q.whom \in q.todo
    BY <1>1, <2>1, RolesAreRoles DEF Request, Fields
  <2>3. AtStep(q, "resolve") /\ "resolve" \in Steps
    BY <2>2 DEF AtStep, Steps
  <2>4. Copies'
    BY <1>3 DEF FetchRoles, Typed, Copies
  <2> HIDE DEF q
  <2>5. Goto(u, "resolve", q)
    BY <2>1 DEF q
  <2> QED
    BY <1>2, <2>2, <2>3, <2>4, <2>5, TypedGoes
<1>4. CASE ResolveMask(u)
  <2> DEFINE s == PermissionsFor(req[u].whom, req[u].roles)
             q == [req[u] EXCEPT !.sum = s]
  <2>1. s \subseteq Bits
    BY MaskIs DEF PermissionsFor, Typed, Rows, Stacked
  <2>2. Goto(u, "apply", q) /\ Copies' /\ pc[u] = "resolve"
    BY <1>4 DEF ResolveMask, Typed, Copies
  <2> HIDE DEF s
  <2>3. Request(q) /\ q.whom = req[u].whom /\ q.todo = req[u].todo
    BY <1>1, <2>1 DEF Request, Fields
  <2>4. AtStep(q, "apply") /\ "apply" \in Steps
    BY <1>1, <2>2, <2>3 DEF AtStep, Steps
  <2> HIDE DEF q
  <2> QED
    BY <1>2, <2>2, <2>3, <2>4, TypedGoes
<1>5. CASE ApplyMask(u)
  <2> DEFINE q == [req[u] EXCEPT !.todo = req[u].todo \ {req[u].whom}]
  <2>1. Copies'
    BY <1>1, <1>5 DEF ApplyMask, AtStep, Request, Typed, Copies
  <2>2. \/ Goto(u, "fetch", q) \/ Goto(u, "join", NoRequest) \/ Goto(u, "sweep", req[u])
        \/ Goto(u, "idle", NoRequest)
    BY <1>5 DEF ApplyMask, Finish
  <2>3. Request(q) /\ Request(NoRequest)
    BY <1>1, NoRequestIs DEF Request, Fields
  <2>4. /\ AtStep(q, "fetch") /\ AtStep(NoRequest, "join") /\ AtStep(NoRequest, "idle")
        /\ AtStep(req[u], "sweep") /\ {"fetch", "join", "sweep", "idle"} \subseteq Steps
    BY DEF AtStep, Steps
  <2> HIDE DEF q
  <2> QED
    BY <1>1, <1>2, <2>1, <2>2, <2>3, <2>4, TypedGoes
<1>6. CASE Join(u)
  <2>1. Copies' /\ Goto(u, "idle", NoRequest)
    BY <1>6 DEF Join, Finish, Typed, Copies
  <2>2. AtStep(NoRequest, "idle") /\ "idle" \in Steps
    BY DEF AtStep, Steps
  <2> QED
    BY <1>2, <2>1, <2>2, NoRequestIs, TypedGoes
<1> QED
  BY <1>3, <1>4, <1>5, <1>6

\* Handling a request takes it past its write.
LEMMA ProceedIs ==
    ASSUME NEW u \in Users, Proceed(u)
    PROVE  \E step \in Steps \ {"write", "out"} : \E q : Goto(u, step, q)
<1>1. {"idle", "reload", "install", "burn", "reown", "instate", "sweep", "fetch", "resolve", "apply",
       "join"} \subseteq Steps \ {"write", "out"}
  BY DEF Steps
<1>2. CASE InsertRole(u) \/ WriteRole(u) \/ WriteOrder(u) \/ RemoveRole(u)
  <2>1. \E q : Goto(u, "reload", q) \/ Goto(u, "idle", q)
    BY <1>2 DEF InsertRole, WriteRole, WriteOrder, RemoveRole, Finish
  <2> QED
    BY <1>1, <2>1
<1>3. CASE WriteMembership(u)
  <2>1. \E q : Goto(u, "fetch", q) \/ Goto(u, "idle", q)
    BY <1>3 DEF WriteMembership, Finish
  <2> QED
    BY <1>1, <2>1
<1>4. CASE SetOwner(u) \/ BurnToken(u) \/ ReloadOwner(u) \/ InstallOwner(u) \/ ReloadRoles(u)
  <2>1. \E q : \/ Goto(u, "burn", q) \/ Goto(u, "reown", q) \/ Goto(u, "instate", q)
               \/ Goto(u, "fetch", q) \/ Goto(u, "install", q)
    BY <1>4 DEF SetOwner, BurnToken, ReloadOwner, InstallOwner, ReloadRoles
  <2> QED
    BY <1>1, <2>1
<1>5. CASE InstallRoles(u) \/ ListSessions(u) \/ FetchRoles(u) \/ ResolveMask(u)
  <2>1. \E q : \/ Goto(u, "sweep", q) \/ Goto(u, "idle", q) \/ Goto(u, "fetch", q)
               \/ Goto(u, "resolve", q) \/ Goto(u, "apply", q)
    BY <1>5 DEF InstallRoles, ListSessions, FetchRoles, ResolveMask, Finish
  <2> QED
    BY <1>1, <2>1
<1>6. CASE ApplyMask(u) \/ Join(u)
  <2>1. \E q : Goto(u, "fetch", q) \/ Goto(u, "join", q) \/ Goto(u, "sweep", q) \/ Goto(u, "idle", q)
    BY <1>6 DEF ApplyMask, Join, Finish
  <2> QED
    BY <1>1, <2>1
<1> QED
  BY <1>2, <1>3, <1>4, <1>5, <1>6 DEF Proceed

LEMMA FirstIds == Init => IdsKept
<1> SUFFICES ASSUME Init PROVE IdsKept
  OBVIOUS
<1>1. Creating = {}
  BY DEF Init, Creating
<1>2. Cardinality(Creating) = 0
  BY <1>1, FS_EmptySet
<1>3. Max(born) \in Roles /\ Max(born) \in born
  <2>1. born \subseteq 1..LastRole /\ born # {}
    BY FirstTyped DEF Typed, Rows, Stacked, Roles
  <2>2. IsFiniteSet(born)
    <3>1. IsFiniteSet(1..LastRole)
      BY FS_Interval
    <3> QED
      BY <2>1, <3>1, FS_Subset
  <2>3. \A r \in born : r \in Int
    BY <2>1
  <2> QED
    BY <2>1, <2>2, <2>3, MaxIs DEF Roles
<1>4. \A r \in DOMAIN plan.table : r <= plan.ids
  BY PlansFit DEF Init
<1>5. Max(born) <= plan.ids
  BY <1>3, <1>4 DEF Init
<1> QED
  BY <1>2, <1>3, <1>5 DEF IdsKept, Roles

LEMMA IdsStay ==
    ASSUME Typed, IdsKept, Next
    PROVE  IdsKept'
<1> PICK u \in plan.users : \/ RoomForAnother /\ pc[u] = "idle" /\ Ask(u)
                            \/ RoomForAnother /\ Login(u)
                            \/ Proceed(u)
  BY DEF Next
<1>1. u \in Users /\ plan' = plan /\ plan.ids \in Nat
  BY PlansFit DEF Typed, Shape, Next
<1>a. Max(born) \in Nat /\ IsFiniteSet(Creating) /\ Cardinality(Creating) \in Nat
  BY NextIdIs DEF Roles
\* Fewer roles on their way, and no new ids.
<1>2. ASSUME born' = born, Creating' \subseteq Creating
      PROVE  IdsKept'
  <2>1. Cardinality(Creating') <= Cardinality(Creating) /\ Cardinality(Creating') \in Nat
    BY <1>2, <1>a, FS_Subset, FS_CardinalityType
  <2>2. Max(born)' = Max(born) /\ Cardinality(Creating)' = Cardinality(Creating')
    BY <1>2
  <2> QED
    BY <1>1, <1>a, <2>1, <2>2 DEF IdsKept
<1>3. CASE RoomForAnother /\ pc[u] = "idle" /\ Ask(u)
  <2>1. PICK q : Checked(u, q) /\ Request(q) /\ (q.op = "create" => IdsLeft)
    BY <1>1, <1>3, AskIs DEF Asked
  <2>2. born' = born /\ Goto(u, "write", q) /\ "write" \in Steps
    BY <2>1 DEF Checked, Steps
  <2>3. pc'[u] = "write" /\ req'[u] = q /\ \A v \in Users : v # u => pc'[v] = pc[v] /\ req'[v] = req[v]
    BY <1>1, <2>2, GotoIs DEF Typed
  <2>4. CASE q.op # "create"
    <3>1. Creating' \subseteq Creating
      BY <2>3, <2>4 DEF Creating
    <3> QED
      BY <1>2, <2>2, <3>1
  <2>5. CASE q.op = "create"
    <3> DEFINE All == {v \in Users : req[v].op = "create"}
    <3>1. Creating' = Creating \cup {u} /\ u \notin Creating
      BY <1>1, <1>3, <2>3, <2>5 DEF Creating
    <3>2. Creating \subseteq All /\ IsFiniteSet(All)
      BY FS_Subset DEF Creating
    <3>3. Cardinality(Creating) <= Cardinality(All) /\ Cardinality(All) \in Nat
      BY <3>2, FS_Subset, FS_CardinalityType
    <3>4. Max(born) + Cardinality(All) < plan.ids
      BY <2>1, <2>5 DEF IdsLeft
    <3>5. Cardinality(Creating') = Cardinality(Creating) + 1
      BY <1>a, <3>1, FS_AddElement
    <3>6. Max(born)' = Max(born) /\ Cardinality(Creating)' = Cardinality(Creating')
      BY <2>2
    <3> HIDE DEF All
    <3> QED
      BY <1>1, <1>a, <3>3, <3>4, <3>5, <3>6 DEF IdsKept
  <2> QED
    BY <2>4, <2>5
<1>4. CASE Login(u)
  <2>1. born' = born /\ \E q : Goto(u, "fetch", q)
    BY <1>4 DEF Login
  <2>2. pc'[u] = "fetch" /\ \A v \in Users : v # u => pc'[v] = pc[v] /\ req'[v] = req[v]
    BY <1>1, <2>1, GotoIs DEF Typed, Steps
  <2> QED
    BY <1>2, <2>1, <2>2 DEF Creating
<1>5. CASE Proceed(u)
  <2>1. pc'[u] # "write" /\ \A v \in Users : v # u => pc'[v] = pc[v] /\ req'[v] = req[v]
    BY <1>1, <1>5, ProceedIs, GotoIs DEF Typed
  <2>2. Creating' = Creating \ {u}
    BY <1>1, <2>1 DEF Creating
  <2>3. CASE InsertRole(u)
    <3>1. u \in Creating /\ born' = born \cup {Max(born) + 1}
      BY <1>1, <2>3 DEF Creating, InsertRole, Writing
    <3>2. Cardinality(Creating') = Cardinality(Creating) - 1
      BY <1>a, <2>2, <3>1, FS_RemoveElement
    <3>3. Max(born') = Max(born) + 1
      BY <3>1, NextIdIs
    <3>4. Max(born)' = Max(born') /\ Cardinality(Creating)' = Cardinality(Creating')
      OBVIOUS
    <3> QED
      BY <1>1, <1>a, <3>2, <3>3, <3>4 DEF IdsKept
  <2>4. CASE ~InsertRole(u)
    <3>1. born' = born
      BY <1>5, <2>4 DEF Proceed, WriteRole, WriteOrder, RemoveRole, WriteMembership, SetOwner, BurnToken,
             ReloadOwner, InstallOwner, ReloadRoles, InstallRoles, ListSessions, FetchRoles,
             ResolveMask, ApplyMask, Join
    <3> QED
      BY <1>2, <2>2, <3>1
  <2> QED
    BY <2>3, <2>4
<1> QED
  BY <1>3, <1>4, <1>5

LEMMA TypedStays ==
    ASSUME Typed, IdsKept, [Next]_vars
    PROVE  Typed' /\ IdsKept'
<1>1. CASE Next
  <2>1. plan' = plan /\ plan.users \subseteq Users
    BY <1>1, PlansFit DEF Next, Typed, Shape
  <2>2. PICK u \in Users : \/ RoomForAnother /\ pc[u] = "idle" /\ Ask(u)
                           \/ RoomForAnother /\ Login(u)
                           \/ Proceed(u)
    BY <1>1, <2>1 DEF Next
  <2>3. Typed'
    BY <2>1, <2>2, AskTyped, LoginTyped, InsertTyped, RestTyped, HubTyped, SessionTyped DEF Proceed
  <2> QED
    BY <1>1, <2>3, IdsStay
<1>2. CASE UNCHANGED vars
  BY <1>2 DEF vars, Typed, Shape, Rows, Copies, Going, IdsKept, Creating
<1> QED
  BY <1>1, <1>2

\* Whatever requests overlap, each variable has its type: every grant is of a role
\* that exists, and no id is given twice or beyond those there are.
THEOREM RolesKeepTypes == Spec => []TypeOK
<1>1. Init => Typed /\ IdsKept
  BY FirstTyped, FirstIds
<1>2. Typed /\ IdsKept /\ [Next]_vars => (Typed /\ IdsKept)'
  BY TypedStays
<1>3. Typed /\ IdsKept => TypeOK
  BY TypedShows
<1> QED
  BY <1>1, <1>2, <1>3, PTL DEF Spec


-----------------------------------------------------------------------------
(* What a resync that nothing overlaps repairs                              *)

Resyncing == {"update", "reorder", "delete"}

\* What v holds is what the rows say of them, by the owner the hub knows.
Healed(v) ==
    /\ held[v] = TrueRoles(v)
    /\ base[v] = MaskBy(table, cachedOwner, v, TrueRoles(v))

\* How far a resync has come at a step of its request.
Healing(q, step) == q.op \in Resyncing =>
    /\ step \notin {"burn", "reown", "instate"}
    /\ step = "install" => q.seen = table
    /\ step \in {"sweep", "fetch", "resolve", "apply"} => cachedRoles = table
    /\ step \in {"fetch", "resolve", "apply"} => \A v \in hub \ q.todo : Healed(v)
    /\ step \in {"resolve", "apply"} => q.roles = TrueRoles(q.whom)
    /\ step = "apply" => q.sum = MaskBy(table, cachedOwner, q.whom, q.roles)

\* Nothing has overlapped the request of a, and it is that far.
AloneFits == \A a \in alone : alone = {a} /\ Busy \subseteq {a} /\ Healing(req[a], pc[a])

\* A statement that writes comes before any of it.
LEMMA WritingHeals ==
    ASSUME Typed, NEW u \in Users,
           \/ InsertRole(u) \/ WriteRole(u) \/ WriteOrder(u) \/ RemoveRole(u) \/ WriteMembership(u)
           \/ SetOwner(u)
    PROVE  Healing(req[u], pc[u])'
<1>1. Request(req[u]) /\ Shape
  BY DEF Typed, Going
<1>2. {"idle", "reload", "fetch", "burn"} \subseteq Steps
  BY DEF Steps
<1>3. CASE InsertRole(u) \/ WriteRole(u) \/ WriteOrder(u) \/ RemoveRole(u)
  <2>1. Goto(u, "reload", req[u]) \/ Goto(u, "idle", NoRequest)
    BY <1>3 DEF InsertRole, WriteRole, WriteOrder, RemoveRole, Finish
  <2>2. pc'[u] \in {"reload", "idle"}
    BY <1>1, <1>2, <2>1, GotoIs
  <2> QED
    BY <2>2 DEF Healing
<1>4. CASE WriteMembership(u)
  <2> DEFINE q == [req[u] EXCEPT !.todo = {req[u].whom}]
  <2>1. (Goto(u, "fetch", q) \/ Goto(u, "idle", NoRequest)) /\ req[u].op \in {"assign", "unassign"}
    BY <1>4 DEF WriteMembership, Finish, Writing
  <2>2. q.op = req[u].op
    BY <1>1 DEF Request, Fields
  <2> HIDE DEF q
  <2>3. pc'[u] = "idle" \/ req'[u].op \in {"assign", "unassign"}
    BY <1>1, <1>2, <2>1, <2>2, GotoIs
  <2> QED
    BY <2>3 DEF Healing, Resyncing
<1>5. CASE SetOwner(u)
  <2> DEFINE q == [req[u] EXCEPT !.resync = cachedOwner \notin {NoUser, u}]
  <2>1. Goto(u, "burn", q) /\ req[u].op = "claim"
    BY <1>5 DEF SetOwner, Writing
  <2>2. q.op = "claim"
    BY <1>1, <2>1 DEF Request, Fields
  <2> HIDE DEF q
  <2>3. req'[u].op = "claim"
    BY <1>1, <1>2, <2>1, <2>2, GotoIs
  <2> QED
    BY <2>3 DEF Healing, Resyncing
<1> QED
  BY <1>3, <1>4, <1>5

LEMMA HubHeals ==
    ASSUME Typed, NEW u \in Users, Healing(req[u], pc[u]),
           \/ BurnToken(u) \/ ReloadOwner(u) \/ InstallOwner(u) \/ ReloadRoles(u) \/ InstallRoles(u)
           \/ ListSessions(u)
    PROVE  Healing(req[u], pc[u])'
<1>1. Request(req[u]) /\ Shape
  BY DEF Typed, Going
<1>2. {"idle", "reown", "instate", "install", "sweep", "fetch"} \subseteq Steps
  BY DEF Steps
<1>3. CASE BurnToken(u) \/ ReloadOwner(u) \/ InstallOwner(u)
  <2>1. req[u].op \notin Resyncing
    BY <1>3 DEF BurnToken, ReloadOwner, InstallOwner, Healing
  <2>2. PICK step \in Steps : \E q : Goto(u, step, q) /\ q.op = req[u].op
    BY <1>1, <1>2, <1>3 DEF BurnToken, ReloadOwner, InstallOwner, Request, Fields
  <2>3. req'[u].op = req[u].op
    BY <1>1, <2>2, GotoIs
  <2> QED
    BY <2>1, <2>3 DEF Healing
<1>4. CASE ReloadRoles(u)
  <2> DEFINE q == [req[u] EXCEPT !.seen = table]
  <2>1. Goto(u, "install", q) /\ q.seen = table /\ table' = table
    BY <1>1, <1>4 DEF ReloadRoles, Request, Fields
  <2> HIDE DEF q
  <2>2. pc'[u] = "install" /\ req'[u].seen = table'
    BY <1>1, <1>2, <2>1, GotoIs
  <2> QED
    BY <2>2 DEF Healing
<1>5. CASE InstallRoles(u)
  <2> DEFINE q == [req[u] EXCEPT !.seen = <<>>]
  <2>1. /\ Goto(u, "sweep", q) \/ Goto(u, "idle", NoRequest)
        /\ table' = table /\ cachedRoles' = req[u].seen /\ q.op = req[u].op
    BY <1>1, <1>5 DEF InstallRoles, Finish, Request, Fields
  <2>2. req[u].op \in Resyncing => req[u].seen = table
    BY <1>5 DEF InstallRoles, Healing
  <2> HIDE DEF q
  <2>3. pc'[u] = "idle" \/ (pc'[u] = "sweep" /\ req'[u].op = req[u].op)
    BY <1>1, <1>2, <2>1, GotoIs
  <2> QED
    BY <2>1, <2>2, <2>3 DEF Healing
<1>6. CASE ListSessions(u)
  <2> DEFINE q == [req[u] EXCEPT !.todo = hub, !.resync = FALSE]
  <2>1. /\ Goto(u, "fetch", q) /\ q.op = req[u].op /\ q.todo = hub /\ hub' = hub
        /\ table' = table /\ cachedRoles' = cachedRoles
    BY <1>1, <1>6 DEF ListSessions, ToResync, Request, Fields
  <2>2. req[u].op \in Resyncing => cachedRoles = table
    BY <1>6 DEF ListSessions, Healing
  <2> HIDE DEF q
  <2>3. pc'[u] = "fetch" /\ req'[u].op = req[u].op /\ req'[u].todo = hub'
    BY <1>1, <1>2, <2>1, GotoIs
  <2> QED
    BY <2>1, <2>2, <2>3 DEF Healing
<1> QED
  BY <1>3, <1>4, <1>5, <1>6

\* Nothing but the copies changes in a refresh.
LEMMA RefreshKeeps ==
    ASSUME NEW u \in Users, FetchRoles(u) \/ ResolveMask(u) \/ ApplyMask(u)
    PROVE  /\ table' = table /\ grants' = grants /\ owner' = owner /\ cachedOwner' = cachedOwner
           /\ cachedRoles' = cachedRoles /\ hub' = hub
           /\ \A v : TrueRoles(v)' = TrueRoles(v)
<1>1. /\ table' = table /\ grants' = grants /\ owner' = owner /\ cachedOwner' = cachedOwner
      /\ cachedRoles' = cachedRoles /\ hub' = hub
  BY DEF FetchRoles, ResolveMask, ApplyMask
<1> QED
  BY <1>1 DEF TrueRoles, Implicit, Granted

\* One copy is brought up to date.
LEMMA ApplyIs ==
    ASSUME Typed, NEW u \in Users, ApplyMask(u)
    PROVE  LET w == req[u].whom
               left == req[u].todo \ {w} IN
           /\ pc[u] = "apply" /\ w \in Users
           /\ held'[w] = req[u].roles /\ base'[w] = req[u].sum
           /\ \A v \in Users : v # w => held'[v] = held[v] /\ base'[v] = base[v]
           /\ IF left # {}
              THEN /\ pc'[u] = "fetch" /\ req'[u].todo = left /\ req'[u].op = req[u].op
                   /\ req'[u].resync = req[u].resync
              ELSE IF req[u].op = "login" THEN pc'[u] = "join" /\ req'[u] = NoRequest
              ELSE IF req[u].resync THEN pc'[u] = "sweep" /\ req'[u] = req[u]
              ELSE pc'[u] = "idle" /\ req'[u] = NoRequest
<1> DEFINE w == req[u].whom
           left == req[u].todo \ {w}
           q == [req[u] EXCEPT !.todo = left]
<1>1. Request(req[u]) /\ Shape /\ AtStep(req[u], pc[u]) /\ pc[u] = "apply" /\ Copies
  BY DEF Typed, Going, ApplyMask
<1>2. w \in Users
  BY <1>1 DEF AtStep, Request
<1>3. {"idle", "fetch", "join", "sweep"} \subseteq Steps
  BY DEF Steps
<1>4. /\ held'[w] = req[u].roles /\ base'[w] = req[u].sum
      /\ \A v \in Users : v # w => held'[v] = held[v] /\ base'[v] = base[v]
  BY <1>1, <1>2 DEF ApplyMask, Copies
<1>5. q.todo = left /\ q.op = req[u].op /\ q.resync = req[u].resync
  BY <1>1 DEF Request, Fields
<1>6. IF left # {} THEN Goto(u, "fetch", q)
      ELSE IF req[u].op = "login" THEN Goto(u, "join", NoRequest)
      ELSE IF req[u].resync THEN Goto(u, "sweep", req[u])
      ELSE Goto(u, "idle", NoRequest)
  BY DEF ApplyMask, Finish
<1> HIDE DEF q, left, w
<1>7. IF left # {} THEN pc'[u] = "fetch" /\ req'[u] = q
      ELSE IF req[u].op = "login" THEN pc'[u] = "join" /\ req'[u] = NoRequest
      ELSE IF req[u].resync THEN pc'[u] = "sweep" /\ req'[u] = req[u]
      ELSE pc'[u] = "idle" /\ req'[u] = NoRequest
  BY <1>1, <1>3, <1>6, GotoIs
<1>8. IF left # {}
      THEN /\ pc'[u] = "fetch" /\ req'[u].todo = left /\ req'[u].op = req[u].op
           /\ req'[u].resync = req[u].resync
      ELSE IF req[u].op = "login" THEN pc'[u] = "join" /\ req'[u] = NoRequest
      ELSE IF req[u].resync THEN pc'[u] = "sweep" /\ req'[u] = req[u]
      ELSE pc'[u] = "idle" /\ req'[u] = NoRequest
  BY <1>5, <1>7
<1> QED
  BY <1>1, <1>2, <1>4, <1>8 DEF left, w

LEMMA RefreshHeals ==
    ASSUME Typed, NEW u \in Users, Healing(req[u], pc[u]),
           FetchRoles(u) \/ ResolveMask(u) \/ ApplyMask(u) \/ Join(u)
    PROVE  Healing(req[u], pc[u])'
<1>1. Request(req[u]) /\ Shape
  BY DEF Typed, Going
<1>2. {"idle", "resolve", "apply"} \subseteq Steps
  BY DEF Steps
<1>3. CASE FetchRoles(u)
  <2>1. PICK t \in req[u].todo :
            Goto(u, "resolve", [req[u] EXCEPT !.whom = t, !.roles = TrueRoles(t)])
    BY <1>3 DEF FetchRoles, TrueRoles
  <2> DEFINE q == [req[u] EXCEPT !.whom = t, !.roles = TrueRoles(t)]
  <2>2. q.op = req[u].op /\ q.todo = req[u].todo /\ q.whom = t /\ q.roles = TrueRoles(t)
    BY <1>1 DEF Request, Fields
  <2>3. Goto(u, "resolve", q)
    BY <2>1
  <2> HIDE DEF q
  <2>4. pc'[u] = "resolve" /\ req'[u] = q
    BY <1>1, <1>2, <2>3, GotoIs
  <2>5. held' = held /\ base' = base /\ pc[u] = "fetch"
    BY <1>3 DEF FetchRoles
  <2> QED
    BY <1>3, <2>2, <2>4, <2>5, RefreshKeeps DEF Healing, Healed
<1>4. CASE ResolveMask(u)
  <2> DEFINE q == [req[u] EXCEPT !.sum = PermissionsFor(req[u].whom, req[u].roles)]
  <2>1. /\ q.op = req[u].op /\ q.todo = req[u].todo /\ q.whom = req[u].whom
        /\ q.roles = req[u].roles /\ q.sum = MaskBy(cachedRoles, cachedOwner, q.whom, q.roles)
    BY <1>1 DEF Request, Fields, PermissionsFor
  <2>2. Goto(u, "apply", q)
    BY <1>4 DEF ResolveMask
  <2> HIDE DEF q
  <2>3. pc'[u] = "apply" /\ req'[u] = q
    BY <1>1, <1>2, <2>2, GotoIs
  <2>4. held' = held /\ base' = base /\ pc[u] = "resolve"
    BY <1>4 DEF ResolveMask
  <2> QED
    BY <1>4, <2>1, <2>3, <2>4, RefreshKeeps DEF Healing, Healed
<1>5. CASE ApplyMask(u)
  <2> SUFFICES ASSUME req'[u].op \in Resyncing PROVE Healing(req[u], pc[u])'
    BY DEF Healing
  <2>1. pc[u] = "apply" /\ req'[u].op = req[u].op
    BY <1>5, ApplyIs, NoRequestIs DEF Resyncing
  <2>2. /\ cachedRoles = table /\ \A v \in hub \ req[u].todo : Healed(v)
        /\ req[u].roles = TrueRoles(req[u].whom)
        /\ req[u].sum = MaskBy(table, cachedOwner, req[u].whom, req[u].roles)
    BY <2>1 DEF Healing
  <2>3. \A v \in hub \ (req[u].todo \ {req[u].whom}) : Healed(v)'
    BY <1>5, <2>2, ApplyIs, RefreshKeeps DEF Healed, Typed, Copies
  <2>4. CASE pc'[u] = "sweep"
    BY <1>5, <2>2, <2>4, RefreshKeeps DEF Healing
  <2>5. CASE pc'[u] = "fetch"
    <3>1. req'[u].todo = req[u].todo \ {req[u].whom}
      BY <1>5, <2>5, ApplyIs
    <3>2. \A v \in (hub \ req[u].todo)' : Healed(v)'
      BY <1>5, <2>3, <3>1, RefreshKeeps
    <3> QED
      BY <1>5, <2>2, <2>5, <3>2, RefreshKeeps DEF Healing
  <2>6. pc'[u] \in {"sweep", "fetch"} \/ req'[u] = NoRequest
    BY <1>5, ApplyIs
  <2> QED
    BY <2>4, <2>5, <2>6, NoRequestIs DEF Resyncing
<1>6. CASE Join(u)
  <2>1. req'[u] = NoRequest
    BY <1>1, <1>2, <1>6, GotoIs DEF Join, Finish
  <2> QED
    BY <2>1, NoRequestIs DEF Healing, Resyncing
<1> QED
  BY <1>3, <1>4, <1>5, <1>6

\* Whoever goes on with a request is busy, and the observer looks on.
LEMMA ProceedAlone ==
    ASSUME NEW u \in Users, Proceed(u)
    PROVE  u \in Busy /\ alone' = alone
BY DEF Proceed, Busy, Writing, InsertRole, WriteRole, WriteOrder, RemoveRole, WriteMembership, SetOwner,
       BurnToken, ReloadOwner, InstallOwner, ReloadRoles, InstallRoles, ListSessions, FetchRoles,
       ResolveMask, ApplyMask, Join

\* A request that begins is alone when nothing else is under way.
LEMMA BeginsAlone ==
    ASSUME Typed, NEW u \in Users, NEW step \in {"write", "fetch"}, NEW q, Begin(u), Goto(u, step, q),
           q.op \notin Resyncing \/ step = "write"
    PROVE  AloneFits'
<1>1. pc'[u] = step /\ req'[u] = q /\ \A v \in Users : v # u => pc'[v] = pc[v]
  BY GotoIs DEF Typed, Steps
<1>2. Busy' \subseteq Busy \cup {u}
  BY <1>1 DEF Busy
<1>3. Healing(req[u], pc[u])'
  BY <1>1 DEF Healing
<1> QED
  BY <1>2, <1>3 DEF AloneFits, Begin

LEMMA AloneStays ==
    ASSUME Typed, AloneFits, [Next]_vars
    PROVE  AloneFits'
<1>1. CASE Next
  <2>1. PICK u \in Users : \/ RoomForAnother /\ pc[u] = "idle" /\ Ask(u)
                           \/ RoomForAnother /\ Login(u)
                           \/ Proceed(u)
    BY <1>1, PlansFit DEF Next, Typed, Shape
  <2>2. CASE Ask(u)
    <3>1. PICK q : Checked(u, q)
      BY <2>2, AskIs DEF Asked
    <3> QED
      BY <3>1, BeginsAlone DEF Checked
  <2>3. CASE Login(u)
    <3> DEFINE q == [NoRequest EXCEPT !.op = "login", !.todo = {u}]
    <3>1. Begin(u) /\ Goto(u, "fetch", q)
      BY <2>3 DEF Login
    <3>2. q.op = "login"
      BY NoRequestIs DEF Request, Fields
    <3> HIDE DEF q
    <3> QED
      BY <3>1, <3>2, BeginsAlone DEF Resyncing
  <2>4. CASE Proceed(u)
    <3>1. SUFFICES ASSUME NEW a \in alone'
                   PROVE  (alone = {a} /\ Busy \subseteq {a} /\ Healing(req[a], pc[a]))'
      BY DEF AloneFits
    <3>2. u \in Busy /\ alone' = alone
      BY <2>4, ProceedAlone
    <3>3. a = u /\ alone = {u} /\ Busy \subseteq {u} /\ Healing(req[u], pc[u])
      BY <3>1, <3>2 DEF AloneFits
    <3>4. Healing(req[u], pc[u])'
      BY <2>4, <3>3, WritingHeals, HubHeals, RefreshHeals DEF Proceed
    <3>5. \A v \in Users : v # u => pc'[v] = pc[v]
      BY <2>4, ProceedIs, GotoIs DEF Typed
    <3>6. Busy' \subseteq Busy \cup {u}
      BY <3>5 DEF Busy
    <3> QED
      BY <3>2, <3>3, <3>4, <3>6
  <2> QED
    BY <2>1, <2>2, <2>3, <2>4
<1>2. CASE UNCHANGED vars
  BY <1>2 DEF vars, AloneFits, Busy, Healing, Healed, TrueRoles, Implicit, Granted
<1> QED
  BY <1>1, <1>2

\* The last copy of such a resync is the one that makes all of them agree.
LEMMA HealsStep ==
    ASSUME Typed, AloneFits, [Next]_vars
    PROVE  HealsAlone
<1> SUFFICES ASSUME NEW a \in alone, Resynced(a)
             PROVE  /\ cachedRoles = table
                    /\ \A v \in hub : /\ held'[v] = TrueRoles(v)
                                      /\ base'[v] = MaskBy(table, cachedOwner, v, TrueRoles(v))
  BY DEF HealsAlone
<1>1. a \in Users /\ pc[a] = "apply" /\ pc'[a] = "idle" /\ req[a].op \in Resyncing
  BY DEF Resynced, Resyncing, Typed, Copies
<1>2. Healing(req[a], pc[a]) /\ Busy \subseteq {a}
  BY DEF AloneFits
<1>3. PICK u \in Users : \/ RoomForAnother /\ pc[u] = "idle" /\ Ask(u)
                         \/ RoomForAnother /\ Login(u)
                         \/ Proceed(u)
  BY <1>1, PlansFit DEF Next, Typed, Shape, vars
<1>4. u = a
  <2>1. \E step \in Steps : \E q : Goto(u, step, q)
    <3>1. CASE Ask(u)
      BY <3>1, AskIs DEF Asked, Checked, Steps
    <3>2. CASE Login(u)
      BY <3>2 DEF Login, Steps
    <3> QED
      BY <1>3, <3>1, <3>2, ProceedIs
  <2> QED
    BY <1>1, <2>1, GotoIs DEF Typed
<1>5. ApplyMask(a)
  BY <1>1, <1>3, <1>4 DEF Proceed, Login, Writing, InsertRole, WriteRole, WriteOrder, RemoveRole,
     WriteMembership, SetOwner, BurnToken, ReloadOwner, InstallOwner, ReloadRoles, InstallRoles,
     ListSessions, FetchRoles, ResolveMask, Join
<1>6. req[a].todo \ {req[a].whom} = {}
  BY <1>1, <1>5, ApplyIs
<1>7. /\ cachedRoles = table /\ \A v \in hub \ req[a].todo : Healed(v)
      /\ req[a].roles = TrueRoles(req[a].whom)
      /\ req[a].sum = MaskBy(table, cachedOwner, req[a].whom, req[a].roles)
  BY <1>1, <1>2 DEF Healing
<1>8. \A v \in hub : v # req[a].whom => Healed(v) /\ held'[v] = held[v] /\ base'[v] = base[v]
  BY <1>1, <1>5, <1>6, <1>7, ApplyIs DEF Typed, Copies
<1> QED
  BY <1>1, <1>5, <1>7, <1>8, ApplyIs DEF Healed

\* Whatever requests overlapped before, one that resyncs and runs alone leaves every
\* copy as the rows say, for any number of users, roles and requests.
THEOREM ResyncsHeal == Spec => ResyncHeals
<1>1. Init => Typed /\ IdsKept /\ AloneFits
  BY FirstTyped, FirstIds DEF Init, AloneFits
<1>2. Typed /\ IdsKept /\ AloneFits /\ [Next]_vars => (Typed /\ IdsKept /\ AloneFits)'
  BY TypedStays, AloneStays
<1>3. Typed /\ IdsKept /\ AloneFits /\ [Next]_vars => [HealsAlone]_vars
  BY HealsStep
<1> QED
  BY <1>1, <1>2, <1>3, PTL DEF Spec, ResyncHeals


-----------------------------------------------------------------------------
(* Requests one after the other                                             *)

\* The copy of v is what the rows say.
Good(v) == held[v] = TrueRoles(v) /\ base[v] = TrueMask(v)

\* How far the request q of u has come at a step, when there is no other.
Turning(u, q, step) ==
    /\ step \in {"write", "join"} => Current
    /\ step = "write" => Asks(u, q)
    /\ step = "join" => Good(u)
    /\ step \in {"reload", "install"} => cachedOwner = owner /\ (q.resync \/ \A v \in hub : Good(v))
    /\ step = "install" => q.seen = table
    /\ step \in {"burn", "reown", "instate"} =>
         cachedRoles = table /\ (q.resync \/ \A v \in hub \ {u} : Good(v))
    /\ step = "instate" => q.whom = owner
    /\ step \in {"sweep", "fetch", "resolve", "apply"} => cachedRoles = table /\ cachedOwner = owner
    /\ step \in {"fetch", "resolve", "apply"} => q.resync \/ \A v \in hub \ q.todo : Good(v)
    /\ step \in {"resolve", "apply"} => q.roles = TrueRoles(q.whom)
    /\ step = "apply" => q.sum = TrueMask(q.whom)
    /\ q.op = "login" => step \in {"fetch", "resolve", "apply"} /\ q.todo = {u} /\ ~q.resync

TurnsFit == OneByOne =>
    /\ \A a, b \in Busy : a = b
    /\ Busy = {} => Current
    /\ \A u \in Busy : Turning(u, req[u], pc[u])

LEMMA RolesExist ==
    ASSUME Typed, NEW v \in Users
    PROVE  TrueRoles(v) \subseteq DOMAIN table
BY DEF Typed, Rows, Stacked, TrueRoles, Implicit, Granted

\* A copy stays good when the rows of its user say what they said.
LEMMA GoodStays ==
    ASSUME NEW v, Good(v), held' = held, base' = base, TrueRoles(v)' = TrueRoles(v),
           TrueRoles(v) \cap DOMAIN table = TrueRoles(v) \cap DOMAIN table',
           \A r \in TrueRoles(v) \cap DOMAIN table : table[r].mask = table'[r].mask,
           owner = v <=> owner' = v
    PROVE  Good(v)'
<1>1. MaskBy(table, owner, v, TrueRoles(v)) = MaskBy(table', owner', v, TrueRoles(v))
  BY SameMask
<1> QED
  BY <1>1 DEF Good, TrueMask

LEMMA SameRoles ==
    ASSUME grants' = grants, NEW v
    PROVE  TrueRoles(v)' = TrueRoles(v)
BY DEF TrueRoles, Implicit, Granted

\* Nothing that counts has changed.
LEMMA StillCurrent ==
    ASSUME UNCHANGED <<table, grants, owner, cachedRoles, cachedOwner, held, base, hub>>
    PROVE  /\ Current => Current'
           /\ \A v : Good(v) => Good(v)'
<1>1. \A v : TrueRoles(v)' = TrueRoles(v)
  BY SameRoles
<1>2. \A v : TrueMask(v)' = TrueMask(v)
  BY <1>1 DEF TrueMask
<1> QED
  BY <1>1, <1>2 DEF Current, Good

LEMMA WritingTurns ==
    ASSUME Typed, IdsKept, NEW u \in Users, Turning(u, req[u], pc[u]),
           \/ InsertRole(u) \/ WriteRole(u) \/ WriteOrder(u) \/ RemoveRole(u)
    PROVE  Turning(u, req[u], pc[u])' /\ (pc'[u] = "idle" => Current')
<1>1. Request(req[u]) /\ Shape /\ {"idle", "reload"} \subseteq Steps
  BY DEF Typed, Going, Steps
<1>2. /\ pc[u] = "write" /\ req[u].op \in {"create", "update", "reorder", "delete"}
      /\ UNCHANGED <<cachedRoles, cachedOwner, held, base, hub, owner>>
  BY DEF InsertRole, WriteRole, WriteOrder, RemoveRole, Writing
<1>3. Current /\ Asks(u, req[u]) /\ \A v \in hub : Good(v)
  BY <1>2 DEF Turning, Current, Good
\* The rows are written, and the hub is told to read them.
<1>4. ASSUME Goto(u, "reload", req[u]), req[u].resync \/ \A v \in hub : Good(v)'
      PROVE  Turning(u, req[u], pc[u])' /\ pc'[u] # "idle"
  <2>1. pc'[u] = "reload" /\ req'[u] = req[u]
    BY <1>1, <1>4, GotoIs
  <2>2. cachedOwner' = owner' /\ (req'[u].resync \/ \A v \in hub' : Good(v)')
    BY <1>2, <1>3, <1>4, <2>1 DEF Current
  <2> QED
    BY <1>2, <2>1, <2>2 DEF Turning
\* Nothing is written.
<1>5. ASSUME Goto(u, "idle", NoRequest), table' = table, grants' = grants
      PROVE  Turning(u, req[u], pc[u])' /\ (pc'[u] = "idle" => Current')
  <2>1. pc'[u] = "idle" /\ req'[u].op = "none"
    BY <1>1, <1>5, GotoIs, NoRequestIs
  <2>2. Current'
    BY <1>2, <1>3, <1>5, StillCurrent
  <2> QED
    BY <2>1, <2>2 DEF Turning
<1>6. CASE InsertRole(u)
  <2> DEFINE k == Max(born) + 1
  <2>1. k \notin DOMAIN table
    BY <1>6, NewIdIs DEF InsertRole, Writing
  <2>2. /\ table' = [x \in DOMAIN table \cup {k} |-> IF x = k THEN req[u].row ELSE table[x]]
        /\ grants' = grants /\ Goto(u, "reload", req[u])
    BY <1>6 DEF InsertRole
  <2> HIDE DEF k
  <2>3. ASSUME NEW v \in hub
        PROVE  Good(v)'
    <3>1. v \in Users
      BY DEF Typed, Copies
    <3>2. TrueRoles(v) \subseteq DOMAIN table /\ TrueRoles(v)' = TrueRoles(v)
      BY <2>2, <3>1, RolesExist, SameRoles
    <3> QED
      BY <1>2, <1>3, <2>1, <2>2, <3>2, GoodStays
  <2> QED
    BY <1>4, <2>2, <2>3
<1>7. CASE WriteRole(u)
  <2>1. CASE req[u].role \notin DOMAIN table
    BY <1>5, <1>7, <2>1 DEF WriteRole, Finish
  <2>2. CASE req[u].role \in DOMAIN table
    <3>1. /\ table' = [table EXCEPT ![req[u].role] = req[u].row] /\ grants' = grants
          /\ Goto(u, "reload", req[u]) /\ req[u].op = "update"
      BY <1>7, <2>2 DEF WriteRole, WriteRow, Writing
    <3>2. ~req[u].resync => req[u].row.mask = table[req[u].role].mask
      BY <1>3, <3>1 DEF Asks, Current
    <3>3. ASSUME ~req[u].resync, NEW v \in hub
          PROVE  Good(v)'
      <4>1. TrueRoles(v)' = TrueRoles(v)
        BY <3>1, SameRoles
      <4>2. DOMAIN table' = DOMAIN table /\ \A r \in DOMAIN table : table'[r].mask = table[r].mask
        BY <3>1, <3>2, <3>3
      <4> QED
        BY <1>2, <1>3, <4>1, <4>2, GoodStays
    <3> QED
      BY <1>4, <3>1, <3>3
  <2> QED
    BY <2>1, <2>2
<1>8. CASE WriteOrder(u)
  <2>1. req[u].resync /\ grants' = grants
    BY <1>3, <1>8 DEF Asks, WriteOrder, Writing
  <2>2. Goto(u, "reload", req[u]) \/ (Goto(u, "idle", NoRequest) /\ table' = table)
    BY <1>8 DEF WriteOrder, Finish
  <2> QED
    BY <1>4, <1>5, <2>1, <2>2
<1>9. CASE RemoveRole(u)
  <2>1. req[u].resync
    BY <1>3, <1>9 DEF Asks, RemoveRole, Writing
  <2>2. \/ Goto(u, "reload", req[u])
        \/ Goto(u, "idle", NoRequest) /\ table' = table /\ grants' = grants
    BY <1>9 DEF RemoveRole, Finish
  <2> QED
    BY <1>4, <1>5, <2>1, <2>2
<1> QED
  BY <1>6, <1>7, <1>8, <1>9

\* A grant concerns whom it is given to, or taken from.
LEMMA OthersKeep ==
    ASSUME NEW q, grants' = GrantsAfter(q), NEW v, v # q.whom
    PROVE  TrueRoles(v)' = TrueRoles(v)
BY DEF GrantsAfter, TrueRoles, Implicit, Granted

LEMMA MembershipTurns ==
    ASSUME Typed, NEW u \in Users, Turning(u, req[u], pc[u]), WriteMembership(u) \/ SetOwner(u)
    PROVE  Turning(u, req[u], pc[u])' /\ (pc'[u] = "idle" => Current')
<1>1. Request(req[u]) /\ Shape /\ {"idle", "fetch", "burn"} \subseteq Steps
  BY DEF Typed, Going, Steps
<1>2. /\ pc[u] = "write" /\ req[u].op \in {"assign", "unassign", "claim"}
      /\ UNCHANGED <<table, cachedRoles, cachedOwner, held, base, hub>>
  BY DEF WriteMembership, SetOwner, Writing
<1>3. Current /\ \A v \in hub : Good(v)
  BY <1>2 DEF Turning, Current, Good
<1>4. CASE WriteMembership(u)
  <2> DEFINE w == req[u].whom
             q == [req[u] EXCEPT !.todo = {w}]
  <2>1. owner' = owner /\ grants' = GrantsAfter(req[u]) /\ req[u].op \in {"assign", "unassign"}
    BY <1>4 DEF WriteMembership, Writing
  <2>2. ASSUME NEW v \in hub, v # w \/ grants' = grants
        PROVE  Good(v)'
    <3>1. TrueRoles(v)' = TrueRoles(v)
      BY <2>1, <2>2, OthersKeep, SameRoles
    <3> QED
      BY <1>2, <1>3, <2>1, <3>1, GoodStays
  <2>3. \/ Goto(u, "fetch", q)
        \/ /\ Goto(u, "idle", NoRequest)
           /\ w \notin hub \/ (req[u].op = "assign" /\ req[u].role \notin DOMAIN table)
    BY <1>4 DEF WriteMembership, Finish
  <2>4. CASE Goto(u, "fetch", q)
    <3>1. q.todo = {w} /\ q.op = req[u].op
      BY <1>1 DEF Request, Fields
    <3> HIDE DEF q
    <3>2. pc'[u] = "fetch" /\ req'[u].todo = {w} /\ req'[u].op \in {"assign", "unassign"}
      BY <1>1, <2>1, <2>4, <3>1, GotoIs
    <3>3. cachedRoles' = table' /\ cachedOwner' = owner'
      BY <1>2, <1>3, <2>1 DEF Current
    <3>4. \A v \in hub' \ req'[u].todo : Good(v)'
      BY <1>2, <2>2, <3>2
    <3> QED
      BY <3>2, <3>3, <3>4 DEF Turning
  <2>5. CASE /\ Goto(u, "idle", NoRequest)
             /\ w \notin hub \/ (req[u].op = "assign" /\ req[u].role \notin DOMAIN table)
    <3>1. pc'[u] = "idle" /\ req'[u].op = "none"
      BY <1>1, <2>5, GotoIs, NoRequestIs
    <3>2. w \notin hub \/ grants' = grants
      BY <2>1, <2>5 DEF GrantsAfter
    <3>3. \A v \in hub' : Good(v)'
      BY <1>2, <2>2, <3>2
    <3>4. Current'
      BY <1>2, <1>3, <2>1, <3>3 DEF Current, Good
    <3> QED
      BY <3>1, <3>4 DEF Turning
  <2> QED
    BY <2>3, <2>4, <2>5
<1>5. CASE SetOwner(u)
  <2> DEFINE changed == cachedOwner \notin {NoUser, u}
             q == [req[u] EXCEPT !.resync = changed]
  <2>1. owner' = u /\ grants' = grants /\ Goto(u, "burn", q) /\ req[u].op = "claim"
    BY <1>5 DEF SetOwner, Writing
  <2>2. q.resync = changed /\ q.op = "claim"
    BY <1>1, <2>1 DEF Request, Fields
  <2> HIDE DEF q
  <2>3. pc'[u] = "burn" /\ req'[u].op = "claim" /\ req'[u].resync = changed
    BY <1>1, <2>1, <2>2, GotoIs
  <2>4. ASSUME ~changed, NEW v \in hub \ {u}
        PROVE  Good(v)'
    <3>1. v \in Users /\ v # NoUser /\ owner = cachedOwner
      BY <1>3, RoleAssumption DEF Typed, Copies, Current
    <3>2. owner = v <=> owner' = v
      BY <2>1, <2>4, <3>1
    <3> QED
      BY <1>2, <1>3, <2>1, <2>4, <3>2, SameRoles, GoodStays
  <2>5. \A v \in hub' \ {u} : changed \/ Good(v)'
    BY <1>2, <2>4
  <2>6. cachedRoles' = table'
    BY <1>2, <1>3 DEF Current
  <2> QED
    BY <2>3, <2>5, <2>6 DEF Turning
<1> QED
  BY <1>4, <1>5


LEMMA HubTurns ==
    ASSUME Typed, NEW u \in Users, Turning(u, req[u], pc[u]),
           \/ BurnToken(u) \/ ReloadOwner(u) \/ InstallOwner(u) \/ ReloadRoles(u) \/ InstallRoles(u)
           \/ ListSessions(u)
    PROVE  Turning(u, req[u], pc[u])' /\ (pc'[u] = "idle" => Current')
<1>1. Request(req[u]) /\ Shape
  BY DEF Typed, Going
<1>2. {"idle", "reown", "instate", "install", "sweep", "fetch"} \subseteq Steps
  BY DEF Steps
<1>3. /\ UNCHANGED <<table, grants, owner, held, base, hub>>
      /\ req[u].op # "login"
  BY DEF Turning, BurnToken, ReloadOwner, InstallOwner, ReloadRoles, InstallRoles, ListSessions
<1>4. \A v : Good(v) => Good(v)'
  <2>1. \A v : TrueRoles(v)' = TrueRoles(v)
    BY <1>3, SameRoles
  <2> QED
    BY <1>3, <2>1 DEF Good, TrueMask
<1>5. CASE BurnToken(u)
  <2>1. Goto(u, "reown", req[u]) /\ pc[u] = "burn" /\ cachedRoles' = cachedRoles
    BY <1>5 DEF BurnToken
  <2>2. pc'[u] = "reown" /\ req'[u] = req[u]
    BY <1>1, <1>2, <2>1, GotoIs
  <2> QED
    BY <1>3, <1>4, <2>1, <2>2 DEF Turning
<1>6. CASE ReloadOwner(u)
  <2> DEFINE q == [req[u] EXCEPT !.whom = owner]
  <2>1. /\ Goto(u, "instate", q) /\ pc[u] = "reown" /\ cachedRoles' = cachedRoles
        /\ q.whom = owner /\ q.op = req[u].op /\ q.resync = req[u].resync
    BY <1>1, <1>6 DEF ReloadOwner, Request, Fields
  <2> HIDE DEF q
  <2>2. pc'[u] = "instate" /\ req'[u] = q
    BY <1>1, <1>2, <2>1, GotoIs
  <2> QED
    BY <1>3, <1>4, <2>1, <2>2 DEF Turning
<1>7. CASE InstallOwner(u)
  <2> DEFINE q == [req[u] EXCEPT !.todo = {u}]
  <2>1. /\ Goto(u, "fetch", q) /\ pc[u] = "instate" /\ cachedRoles' = cachedRoles
        /\ cachedOwner' = req[u].whom
        /\ q.todo = {u} /\ q.op = req[u].op /\ q.resync = req[u].resync
    BY <1>1, <1>7 DEF InstallOwner, Request, Fields
  <2> HIDE DEF q
  <2>2. pc'[u] = "fetch" /\ req'[u] = q
    BY <1>1, <1>2, <2>1, GotoIs
  <2> QED
    BY <1>3, <1>4, <2>1, <2>2 DEF Turning
<1>8. CASE ReloadRoles(u)
  <2> DEFINE q == [req[u] EXCEPT !.seen = table]
  <2>1. /\ Goto(u, "install", q) /\ pc[u] = "reload" /\ cachedOwner' = cachedOwner
        /\ q.seen = table /\ q.op = req[u].op /\ q.resync = req[u].resync
    BY <1>1, <1>8 DEF ReloadRoles, Request, Fields
  <2> HIDE DEF q
  <2>2. pc'[u] = "install" /\ req'[u] = q
    BY <1>1, <1>2, <2>1, GotoIs
  <2> QED
    BY <1>3, <1>4, <2>1, <2>2 DEF Turning
<1>9. CASE InstallRoles(u)
  <2> DEFINE q == [req[u] EXCEPT !.seen = <<>>]
  <2>1. /\ IF req[u].resync THEN Goto(u, "sweep", q) ELSE Goto(u, "idle", NoRequest)
        /\ pc[u] = "install" /\ cachedOwner' = cachedOwner /\ cachedRoles' = req[u].seen
        /\ q.op = req[u].op /\ q.resync = req[u].resync
    BY <1>1, <1>9 DEF InstallRoles, Finish, Request, Fields
  <2> HIDE DEF q
  <2>2. IF req[u].resync THEN pc'[u] = "sweep" /\ req'[u] = q ELSE pc'[u] = "idle" /\ req'[u] = NoRequest
    BY <1>1, <1>2, <2>1, GotoIs
  <2>3. cachedRoles' = table' /\ cachedOwner' = owner' /\ (req[u].resync \/ \A v \in hub' : Good(v)')
    BY <1>3, <1>4, <2>1 DEF Turning
  <2>4. req[u].resync \/ Current'
    BY <2>3 DEF Current, Good
  <2> QED
    BY <1>3, <2>1, <2>2, <2>3, <2>4, NoRequestIs DEF Turning
<1>10. CASE ListSessions(u)
  <2> DEFINE q == [req[u] EXCEPT !.todo = hub, !.resync = FALSE]
  <2>1. /\ Goto(u, "fetch", q) /\ pc[u] = "sweep" /\ cachedRoles' = cachedRoles
        /\ cachedOwner' = cachedOwner /\ q.todo = hub /\ q.op = req[u].op
    BY <1>1, <1>10 DEF ListSessions, ToResync, Request, Fields
  <2> HIDE DEF q
  <2>2. pc'[u] = "fetch" /\ req'[u] = q
    BY <1>1, <1>2, <2>1, GotoIs
  <2>3. hub' \ req'[u].todo = {}
    BY <1>3, <2>1, <2>2
  <2> QED
    BY <1>3, <2>1, <2>2, <2>3 DEF Turning
<1> QED
  BY <1>5, <1>6, <1>7, <1>8, <1>9, <1>10

LEMMA RefreshTurns ==
    ASSUME Typed, NEW u \in Users, Turning(u, req[u], pc[u]),
           FetchRoles(u) \/ ResolveMask(u) \/ ApplyMask(u)
    PROVE  Turning(u, req[u], pc[u])' /\ (pc'[u] = "idle" => Current')
<1>1. Request(req[u]) /\ Shape /\ AtStep(req[u], pc[u])
  BY DEF Typed, Going
<1>2. {"idle", "resolve", "apply"} \subseteq Steps
  BY DEF Steps
<1>3. /\ cachedRoles = table /\ cachedOwner = owner
      /\ pc[u] \in {"fetch", "resolve", "apply"}
      /\ req[u].resync \/ \A v \in hub \ req[u].todo : Good(v)
      /\ req[u].op = "login" => req[u].todo = {u} /\ ~req[u].resync
  BY DEF Turning, FetchRoles, ResolveMask, ApplyMask
<1>4. /\ cachedRoles' = table' /\ cachedOwner' = owner' /\ hub' = hub
      /\ \A v : TrueRoles(v)' = TrueRoles(v) /\ TrueMask(v)' = TrueMask(v)
  BY <1>3, RefreshKeeps DEF TrueMask
<1>5. CASE FetchRoles(u)
  <2>1. PICK t \in req[u].todo :
            Goto(u, "resolve", [req[u] EXCEPT !.whom = t, !.roles = TrueRoles(t)])
    BY <1>5 DEF FetchRoles, TrueRoles
  <2> DEFINE q == [req[u] EXCEPT !.whom = t, !.roles = TrueRoles(t)]
  <2>2. /\ q.op = req[u].op /\ q.todo = req[u].todo /\ q.whom = t /\ q.roles = TrueRoles(t)
        /\ q.resync = req[u].resync
    BY <1>1 DEF Request, Fields
  <2>3. Goto(u, "resolve", q)
    BY <2>1
  <2> HIDE DEF q
  <2>4. pc'[u] = "resolve" /\ req'[u] = q
    BY <1>1, <1>2, <2>3, GotoIs
  <2>5. \A v : Good(v)' <=> Good(v)
    BY <1>4, <1>5 DEF Good, FetchRoles
  <2> QED
    BY <1>3, <1>4, <2>2, <2>4, <2>5 DEF Turning
<1>6. CASE ResolveMask(u)
  <2> DEFINE q == [req[u] EXCEPT !.sum = PermissionsFor(req[u].whom, req[u].roles)]
  <2>1. /\ q.op = req[u].op /\ q.todo = req[u].todo /\ q.whom = req[u].whom
        /\ q.roles = req[u].roles /\ q.sum = MaskBy(cachedRoles, cachedOwner, q.whom, q.roles)
        /\ q.resync = req[u].resync
    BY <1>1 DEF Request, Fields, PermissionsFor
  <2>2. Goto(u, "apply", q) /\ pc[u] = "resolve"
    BY <1>6 DEF ResolveMask
  <2> HIDE DEF q
  <2>3. pc'[u] = "apply" /\ req'[u] = q
    BY <1>1, <1>2, <2>2, GotoIs
  <2>4. \A v : Good(v)' <=> Good(v)
    BY <1>4, <1>6 DEF Good, ResolveMask
  <2>5. q.roles = TrueRoles(q.whom)
    BY <2>1, <2>2 DEF Turning
  <2>6. q.sum = TrueMask(q.whom)
    BY <1>3, <2>1, <2>5 DEF TrueMask
  <2> QED
    BY <1>3, <1>4, <2>1, <2>3, <2>4, <2>5, <2>6 DEF Turning
<1>7. CASE ApplyMask(u)
  <2>0. PICK w : w = req[u].whom
    OBVIOUS
  <2> DEFINE left == req[u].todo \ {w}
  <2>1. /\ pc[u] = "apply" /\ w \in Users
        /\ held'[w] = req[u].roles /\ base'[w] = req[u].sum
        /\ \A v \in Users : v # w => held'[v] = held[v] /\ base'[v] = base[v]
        /\ IF left # {}
           THEN /\ pc'[u] = "fetch" /\ req'[u].todo = left /\ req'[u].op = req[u].op
                /\ req'[u].resync = req[u].resync
           ELSE IF req[u].op = "login" THEN pc'[u] = "join" /\ req'[u] = NoRequest
           ELSE IF req[u].resync THEN pc'[u] = "sweep" /\ req'[u] = req[u]
           ELSE pc'[u] = "idle" /\ req'[u] = NoRequest
    BY <1>7, <2>0, ApplyIs
  <2>2. req[u].roles = TrueRoles(w) /\ req[u].sum = TrueMask(w) /\ w \in req[u].todo
    BY <1>1, <2>0, <2>1 DEF Turning, AtStep
  <2>3. Good(w)' /\ \A v \in Users : Good(v) => Good(v)'
    BY <1>4, <2>1, <2>2 DEF Good
  <2>4. req[u].resync \/ \A v \in hub' \ left : Good(v)'
    BY <1>3, <1>4, <2>3 DEF Typed, Copies
  <2> HIDE DEF left
  <2>5. CASE left # {}
    <3>1. w = u => req[u].todo # {u}
      BY <2>5 DEF left
    <3>2. req[u].op # "login"
      BY <1>3, <2>2, <3>1
    <3> QED
      BY <1>4, <2>1, <2>4, <2>5, <3>2 DEF Turning
  <2>6. CASE left = {} /\ req[u].op = "login"
    <3>1. w = u /\ ~req[u].resync
      BY <1>3, <2>2, <2>6
    <3>2. Current' /\ Good(u)'
      BY <1>4, <2>3, <2>4, <2>6, <3>1 DEF Current, Good
    <3> QED
      BY <2>1, <2>6, <3>2, NoRequestIs DEF Turning
  <2>7. CASE left = {} /\ req[u].op # "login" /\ req[u].resync
    BY <1>4, <2>1, <2>7 DEF Turning
  <2>8. CASE left = {} /\ req[u].op # "login" /\ ~req[u].resync
    <3>1. Current'
      BY <1>4, <2>4, <2>8 DEF Current, Good
    <3> QED
      BY <2>1, <2>8, <3>1, NoRequestIs DEF Turning
  <2> QED
    BY <2>5, <2>6, <2>7, <2>8
<1> QED
  BY <1>5, <1>6, <1>7

LEMMA JoinTurns ==
    ASSUME Typed, NEW u \in Users, Turning(u, req[u], pc[u]), Join(u)
    PROVE  Turning(u, req[u], pc[u])' /\ (pc'[u] = "idle" => Current')
<1>1. Current /\ Good(u) /\ UNCHANGED <<table, grants, owner, cachedRoles, cachedOwner, held, base>>
  BY DEF Turning, Join
<1>2. hub' = hub \cup {u} /\ pc'[u] = "idle" /\ req'[u] = NoRequest
  BY GotoIs DEF Join, Finish, Typed, Steps
<1>3. \A v : Good(v) => Good(v)'
  <2>1. \A v : TrueRoles(v)' = TrueRoles(v)
    BY <1>1, SameRoles
  <2> QED
    BY <1>1, <2>1 DEF Good, TrueMask
<1>4. Current'
  BY <1>1, <1>2, <1>3 DEF Current, Good
<1> QED
  BY <1>2, <1>4, NoRequestIs DEF Turning

\* What the checks say holds as long as the copies and the token are not touched.
LEMMA AsksStay ==
    ASSUME NEW u, NEW q, Asks(u, q), UNCHANGED <<cachedRoles, cachedOwner, held, base, token>>
    PROVE  Asks(u, q)'
<1>1. RankOf(u, held[u])' = RankOf(u, held[u])
  BY DEF RankOf, RankBy
<1>2. \A r : BelowRank(u, r)' <=> BelowRank(u, r)
  BY <1>1 DEF BelowRank
<1>3. Stack' = Stack
  BY DEF Stack
<1>4. \A r : PlaceOf(r)' = PlaceOf(r)
  BY <1>3 DEF PlaceOf
<1>5. CeilingPlace(u)' = CeilingPlace(u)
  BY <1>2, <1>3 DEF CeilingPlace
<1>6. \A a, b : Exchanged(a, b)' = Exchanged(a, b)
  BY <1>3, <1>4 DEF Exchanged
<1>7. \A m, n : MayFlip(u, m, n)' <=> MayFlip(u, m, n)
  BY DEF MayFlip, Has, Flipped
<1>8. Has(base[u], q.row.mask)' <=> Has(base[u], q.row.mask)
  BY DEF Has
<1> QED
  BY <1>1, <1>2, <1>3, <1>4, <1>5, <1>6, <1>7, <1>8 DEF Asks

LEMMA BeginTurns ==
    ASSUME Typed, TurnsFit, OneByOne, plan' = plan, NEW u \in Users, RoomForAnother, Ask(u) \/ Login(u)
    PROVE  TurnsFit'
<1>1. Busy = {}
  <2>1. IsFiniteSet(Busy)
    BY FS_Subset DEF Busy
  <2>2. Cardinality(Busy) \in Nat /\ Cardinality(Busy) < 1
    BY <2>1, FS_CardinalityType DEF RoomForAnother, OneByOne
  <2> QED
    BY <2>1, <2>2, FS_EmptySet
<1>2. Current
  BY <1>1 DEF TurnsFit
<1>3. UNCHANGED <<table, grants, owner, token, cachedRoles, cachedOwner, held, base, hub>>
  <2>1. CASE Ask(u)
    BY <2>1, AskIs DEF Asked, Checked
  <2>2. CASE Login(u)
    BY <2>2 DEF Login
  <2> QED
    BY <2>1, <2>2
<1>4. Current' /\ \A v \in hub : Good(v)'
  BY <1>2, <1>3, StillCurrent DEF Current, Good
<1>5. CASE Ask(u)
  <2>1. PICK q : Checked(u, q) /\ Request(q) /\ Asks(u, q)
    BY <1>5, AskIs DEF Asked
  <2>2. pc'[u] = "write" /\ req'[u] = q /\ \A v \in Users : v # u => pc'[v] = pc[v]
    BY <2>1, GotoIs DEF Checked, Steps, Typed
  <2>3. Busy' = {u}
    BY <1>1, <2>2 DEF Busy
  <2>4. Asks(u, req[u])'
    <3>1. Asks(u, q)'
      BY <1>3, <2>1, AsksStay
    <3> QED
      BY <2>2, <3>1 DEF Asks
  <2>5. Turning(u, req[u], pc[u])'
    <3>1. req'[u].op # "login"
      BY <2>1, <2>2 DEF Asks
    <3> QED
      BY <1>4, <2>2, <2>4, <3>1 DEF Turning
  <2> QED
    BY <2>3, <2>5 DEF TurnsFit
<1>6. CASE Login(u)
  <2> DEFINE q == [NoRequest EXCEPT !.op = "login", !.todo = {u}]
  <2>1. Goto(u, "fetch", q) /\ q.op = "login" /\ q.todo = {u} /\ ~q.resync
    BY <1>6, NoRequestIs DEF Login, Request, Fields
  <2> HIDE DEF q
  <2>2. pc'[u] = "fetch" /\ req'[u] = q /\ \A v \in Users : v # u => pc'[v] = pc[v]
    BY <2>1, GotoIs DEF Steps, Typed
  <2>3. Busy' = {u}
    BY <1>1, <2>2 DEF Busy
  <2>4. Turning(u, req[u], pc[u])'
    BY <1>3, <1>4, <2>1, <2>2 DEF Turning, Current
  <2> QED
    BY <2>3, <2>4 DEF TurnsFit
<1> QED
  BY <1>5, <1>6

LEMMA ProceedTurns ==
    ASSUME Typed, IdsKept, NEW u \in Users, Proceed(u), Turning(u, req[u], pc[u])
    PROVE  Turning(u, req[u], pc[u])' /\ (pc'[u] = "idle" => Current')
BY WritingTurns, MembershipTurns, HubTurns, RefreshTurns, JoinTurns DEF Proceed

LEMMA TurnsStay ==
    ASSUME Typed, IdsKept, TurnsFit, [Next]_vars
    PROVE  TurnsFit'
<1> SUFFICES ASSUME OneByOne' PROVE TurnsFit'
  BY DEF TurnsFit
<1>1. CASE Next
  <2>1. plan' = plan /\ OneByOne
    BY <1>1 DEF Next, OneByOne
  <2>2. PICK u \in Users : \/ RoomForAnother /\ pc[u] = "idle" /\ Ask(u)
                           \/ RoomForAnother /\ Login(u)
                           \/ Proceed(u)
    BY <1>1, PlansFit DEF Next, Typed, Shape
  <2>3. CASE RoomForAnother /\ (Ask(u) \/ Login(u))
    BY <2>1, <2>3, BeginTurns
  <2>4. CASE Proceed(u)
    <3>1. u \in Busy /\ Busy = {u}
      BY <2>1, <2>4, ProceedAlone DEF TurnsFit
    <3>2. Turning(u, req[u], pc[u])' /\ (pc'[u] = "idle" => Current')
      BY <2>1, <2>4, <3>1, ProceedTurns DEF TurnsFit
    <3>3. pc'[u] # "out" /\ \A v \in Users : v # u => pc'[v] = pc[v]
      BY <2>4, ProceedIs, GotoIs DEF Typed
    <3>4. Busy' = IF pc'[u] = "idle" THEN {} ELSE {u}
      BY <3>1, <3>3 DEF Busy
    <3> QED
      BY <3>2, <3>4 DEF TurnsFit
  <2> QED
    BY <2>2, <2>3, <2>4
<1>2. CASE UNCHANGED vars
  <2>1. UNCHANGED <<table, grants, owner, token, cachedRoles, cachedOwner, held, base, hub, pc, req, plan>>
    BY <1>2 DEF vars
  <2>2. \A v : TrueRoles(v)' = TrueRoles(v) /\ TrueMask(v)' = TrueMask(v)
    BY <2>1, SameRoles DEF TrueMask
  <2>3. \A v : Good(v)' <=> Good(v)
    BY <2>1, <2>2 DEF Good
  <2>4. Current' <=> Current
    BY <2>1, <2>2 DEF Current
  <2>5. \A v, q : Asks(v, q) => Asks(v, q)'
    BY <2>1, AsksStay
  <2>6. Busy' = Busy /\ OneByOne
    BY <2>1 DEF Busy, OneByOne
  <2>7. ASSUME NEW v \in Busy
        PROVE  Turning(v, req[v], pc[v])'
    <3>1. Turning(v, req[v], pc[v])
      BY <2>6 DEF TurnsFit
    <3>2. Asks(v, req[v]) => Asks(v, req[v])'
      <4>1. PICK q : q = req[v]
        OBVIOUS
      <4>2. Asks(v, q) => Asks(v, q)'
        BY <2>5
      <4> QED
        BY <2>1, <4>1, <4>2 DEF Asks
    <3> QED
      BY <2>1, <2>2, <2>3, <2>4, <3>1, <3>2 DEF Turning
  <2> QED
    BY <2>4, <2>6, <2>7 DEF TurnsFit
<1> QED
  BY <1>1, <1>2

LEMMA FirstTurns == Init => TurnsFit
<1> SUFFICES ASSUME Init PROVE TurnsFit
  OBVIOUS
<1>1. Busy = {}
  BY DEF Init, Busy
<1>2. cachedRoles = table /\ cachedOwner = owner
  BY DEF Init
<1>3. \A u \in hub : held[u] = TrueRoles(u)
  BY FirstTyped DEF Init, TrueRoles, Typed, Copies
<1>4. \A u \in hub : base[u] = PermissionsFor(u, held[u])
  BY FirstTyped DEF Init, Typed, Copies
<1>5. Current
  BY <1>2, <1>3, <1>4 DEF Current, TrueMask, PermissionsFor
<1> QED
  BY <1>1, <1>5 DEF TurnsFit

\* As long as requests come one after the other, every copy is what the rows say
\* whenever none is in progress, for any number of users, roles and requests.
THEOREM TurnsSettle == Spec => []SettledIsCurrent
<1>1. Init => Typed /\ IdsKept /\ TurnsFit
  BY FirstTyped, FirstIds, FirstTurns
<1>2. Typed /\ IdsKept /\ TurnsFit /\ [Next]_vars => (Typed /\ IdsKept /\ TurnsFit)'
  BY TypedStays, TurnsStay
<1>3. TurnsFit => SettledIsCurrent
  BY DEF TurnsFit, SettledIsCurrent
<1> QED
  BY <1>1, <1>2, <1>3, PTL DEF Spec


-----------------------------------------------------------------------------
(* Who sits below whom                                                      *)

\* Whoever is past their login is registered.
Connected == \A u \in Users :
    /\ pc[u] \notin {"out", "join"} /\ req[u].op # "login" => u \in hub
    /\ req[u].op = "login" => pc[u] \in {"fetch", "resolve", "apply"}

LEMMA KeepsGoing ==
    ASSUME Typed, NEW u \in Users, Proceed(u)
    PROVE  /\ hub \subseteq hub' /\ (pc[u] = "join" => u \in hub')
           /\ req'[u].op = req[u].op \/ req'[u].op = "none"
           /\ pc[u] \in {"fetch", "resolve", "apply"} /\ req[u].op = "login" =>
                \/ pc'[u] \in {"fetch", "resolve", "apply"} /\ req'[u].op = "login"
                \/ pc'[u] = "join" /\ req'[u].op = "none"
<1>1. Request(req[u]) /\ Shape /\ NoRequest.op = "none"
  BY NoRequestIs DEF Typed, Going
<1>2. hub \subseteq hub' /\ (pc[u] = "join" => u \in hub')
  BY DEF Proceed, Writing, InsertRole, WriteRole, WriteOrder, RemoveRole, WriteMembership, SetOwner,
         BurnToken, ReloadOwner, InstallOwner, ReloadRoles, InstallRoles, ListSessions, FetchRoles,
         ResolveMask, ApplyMask, Join
<1>3. CASE InsertRole(u) \/ WriteRole(u) \/ WriteOrder(u) \/ RemoveRole(u) \/ WriteMembership(u)
           \/ SetOwner(u)
  <2>1. pc[u] = "write"
    BY <1>3 DEF Writing, InsertRole, WriteRole, WriteOrder, RemoveRole, WriteMembership, SetOwner
  <2>2. PICK step \in Steps : \E q : Goto(u, step, q) /\ q.op \in {req[u].op, "none"}
    <3>1. PICK step \in {"reload", "idle", "fetch", "burn"}, x \in BOOLEAN :
            \/ Goto(u, step, req[u]) \/ Goto(u, step, NoRequest)
            \/ Goto(u, step, [req[u] EXCEPT !.todo = {req[u].whom}])
            \/ Goto(u, step, [req[u] EXCEPT !.resync = x])
      BY <1>3 DEF InsertRole, WriteRole, WriteOrder, RemoveRole, WriteMembership, SetOwner, Finish
    <3>2. \A y : [req[u] EXCEPT !.todo = y].op = req[u].op /\ [req[u] EXCEPT !.resync = y].op = req[u].op
      BY <1>1 DEF Request, Fields
    <3>3. \E q : Goto(u, step, q) /\ q.op \in {req[u].op, "none"}
      BY <1>1, <3>1, <3>2
    <3>4. step \in Steps
      BY <3>1 DEF Steps
    <3> QED
      BY <3>3, <3>4
  <2> QED
    BY <1>1, <1>2, <2>1, <2>2, GotoIs
<1>4. CASE BurnToken(u) \/ ReloadOwner(u) \/ InstallOwner(u) \/ ReloadRoles(u) \/ InstallRoles(u)
           \/ ListSessions(u)
  <2>1. pc[u] \notin {"fetch", "resolve", "apply"}
    BY <1>4 DEF BurnToken, ReloadOwner, InstallOwner, ReloadRoles, InstallRoles, ListSessions
  <2>2. PICK step \in Steps : \E q : Goto(u, step, q) /\ q.op \in {req[u].op, "none"}
    <3>1. PICK step \in {"reown", "instate", "fetch", "install", "sweep", "idle"} :
            \/ Goto(u, step, req[u]) \/ Goto(u, step, NoRequest)
            \/ Goto(u, step, [req[u] EXCEPT !.whom = owner])
            \/ Goto(u, step, [req[u] EXCEPT !.todo = {u}])
            \/ Goto(u, step, [req[u] EXCEPT !.seen = table])
            \/ Goto(u, step, [req[u] EXCEPT !.seen = <<>>])
            \/ Goto(u, step, [req[u] EXCEPT !.todo = hub, !.resync = FALSE])
      BY <1>4 DEF BurnToken, ReloadOwner, InstallOwner, ReloadRoles, InstallRoles, ListSessions, Finish,
             ToResync
    <3>2. \A x : /\ [req[u] EXCEPT !.whom = x].op = req[u].op /\ [req[u] EXCEPT !.todo = x].op = req[u].op
                 /\ [req[u] EXCEPT !.seen = x].op = req[u].op
                 /\ [req[u] EXCEPT !.todo = x, !.resync = FALSE].op = req[u].op
      BY <1>1 DEF Request, Fields
    <3>3. \E q : Goto(u, step, q) /\ q.op \in {req[u].op, "none"}
      BY <1>1, <3>1, <3>2
    <3>4. step \in Steps
      BY <3>1 DEF Steps
    <3> QED
      BY <3>3, <3>4
  <2> QED
    BY <1>1, <1>2, <2>1, <2>2, GotoIs
<1>5. CASE FetchRoles(u)
  <2>1. PICK t : Goto(u, "resolve", [req[u] EXCEPT !.whom = t, !.roles = Implicit(t) \cup Granted(t)])
    BY <1>5 DEF FetchRoles
  <2> DEFINE q == [req[u] EXCEPT !.whom = t, !.roles = Implicit(t) \cup Granted(t)]
  <2>2. q.op = req[u].op /\ Goto(u, "resolve", q)
    BY <1>1, <2>1 DEF Request, Fields
  <2> HIDE DEF q
  <2> QED
    BY <1>1, <1>2, <2>2, GotoIs DEF Steps
<1>6. CASE ResolveMask(u)
  <2> DEFINE q == [req[u] EXCEPT !.sum = PermissionsFor(req[u].whom, req[u].roles)]
  <2>1. q.op = req[u].op /\ Goto(u, "apply", q)
    BY <1>1, <1>6 DEF Request, Fields, ResolveMask
  <2> HIDE DEF q
  <2> QED
    BY <1>1, <1>2, <2>1, GotoIs DEF Steps
<1>7. CASE ApplyMask(u)
  BY <1>1, <1>2, <1>7, ApplyIs
<1>8. CASE Join(u)
  <2>1. pc[u] = "join" /\ req'[u] = NoRequest
    BY <1>1, <1>8, GotoIs DEF Join, Finish, Steps
  <2> QED
    BY <1>1, <1>2, <2>1
<1> QED
  BY <1>3, <1>4, <1>5, <1>6, <1>7, <1>8 DEF Proceed

LEMMA ConnectedStays ==
    ASSUME Typed, Connected, [Next]_vars
    PROVE  Connected'
<1>1. CASE Next
  <2>1. PICK u \in Users : \/ RoomForAnother /\ pc[u] = "idle" /\ Ask(u)
                           \/ RoomForAnother /\ Login(u)
                           \/ Proceed(u)
    BY <1>1, PlansFit DEF Next, Typed, Shape
  <2>2. CASE pc[u] = "idle" /\ Ask(u)
    <3>1. PICK q : Checked(u, q) /\ Asks(u, q)
      BY <2>2, AskIs DEF Asked
    <3>2. /\ pc'[u] = "write" /\ req'[u] = q /\ hub' = hub
          /\ \A v \in Users : v # u => pc'[v] = pc[v] /\ req'[v] = req[v]
      BY <3>1, GotoIs DEF Checked, Typed, Steps
    <3>3. req'[u].op # "login" /\ u \in hub
      BY <2>2, <3>1, <3>2 DEF Asks, Connected
    <3> QED
      BY <3>2, <3>3 DEF Connected
  <2>3. CASE Login(u)
    <3> DEFINE q == [NoRequest EXCEPT !.op = "login", !.todo = {u}]
    <3>1. Goto(u, "fetch", q) /\ hub' = hub
      BY <2>3 DEF Login
    <3>2. q.op = "login"
      BY NoRequestIs DEF Request, Fields
    <3> HIDE DEF q
    <3>3. /\ pc'[u] = "fetch" /\ req'[u] = q
          /\ \A v \in Users : v # u => pc'[v] = pc[v] /\ req'[v] = req[v]
      BY <3>1, GotoIs DEF Typed, Steps
    <3> QED
      BY <3>1, <3>2, <3>3 DEF Connected
  <2>4. CASE Proceed(u)
    <3>1. pc[u] # "out"
      BY <2>4, ProceedAlone DEF Busy
    <3>2. \A v \in Users : v # u => pc'[v] = pc[v] /\ req'[v] = req[v]
      BY <2>4, ProceedIs, GotoIs DEF Typed
    <3> QED
      BY <2>4, <3>1, <3>2, KeepsGoing DEF Connected
  <2> QED
    BY <2>1, <2>2, <2>3, <2>4
<1>2. CASE UNCHANGED vars
  BY <1>2 DEF vars, Connected
<1> QED
  BY <1>1, <1>2

\* What is known of a request that is about to write, when there is no other.
LEMMA WriterIs ==
    ASSUME Typed, TurnsFit, Connected, OneByOne, NEW u \in Users, pc[u] = "write"
    PROVE  /\ Busy = {u} /\ u \in hub /\ Current /\ Asks(u, req[u])
           /\ base[u] = TrueMask(u) /\ RankOf(u, held[u]) = TrueRank(u)
           /\ \A r : BelowRank(u, r) <=> table[r].position < TrueRank(u)
<1>1. Busy = {u} /\ Turning(u, req[u], pc[u])
  BY DEF TurnsFit, Busy
<1>2. Current /\ Asks(u, req[u])
  BY <1>1 DEF Turning
<1>3. u \in hub
  BY <1>2 DEF Connected, Asks
<1>4. RankOf(u, held[u]) = TrueRank(u) /\ base[u] = TrueMask(u)
  BY <1>2, <1>3 DEF Current, RankOf, TrueRank
<1>5. \A r : BelowRank(u, r) <=> table[r].position < TrueRank(u)
  BY <1>2, <1>4 DEF Current, BelowRank
<1> QED
  BY <1>1, <1>2, <1>3, <1>4, <1>5

\* While it is, nobody else does anything.
LEMMA WriterActs ==
    ASSUME Typed, TurnsFit, OneByOne, Next, NEW u \in Users, pc[u] = "write"
    PROVE  InsertRole(u) \/ WriteRole(u) \/ WriteOrder(u) \/ RemoveRole(u) \/ WriteMembership(u)
           \/ SetOwner(u)
<1>1. Busy = {u}
  BY DEF TurnsFit, Busy
<1>2. ~RoomForAnother
  <2>1. Cardinality({u}) = 1
    BY FS_Singleton
  <2> QED
    BY <1>1, <2>1 DEF RoomForAnother, OneByOne
<1>3. Proceed(u)
  BY <1>1, <1>2, PlansFit, ProceedAlone DEF Next, Typed, Shape
<1> QED
  BY <1>3 DEF Proceed, BurnToken, ReloadOwner, InstallOwner, ReloadRoles, InstallRoles, ListSessions,
         FetchRoles, ResolveMask, ApplyMask, Join

\* The stacked roles below a level.
Low(k) == {x \in Stack : cachedRoles[x].position < k}

\* Places keep the levels apart.
LEMMA PlacesAre ==
    ASSUME Rows, NEW r \in Stack, NEW k \in Nat
    PROVE  /\ PlaceOf(r) \in Nat /\ Cardinality(Low(k)) \in Nat
           /\ cachedRoles[r].position < k => PlaceOf(r) <= Cardinality(Low(k))
           /\ cachedRoles[r].position >= k => PlaceOf(r) > Cardinality(Low(k))
           /\ PlaceOf(r) <= LastRole
<1> DEFINE S == {x \in Stack : \/ cachedRoles[x].position < cachedRoles[r].position
                               \/ cachedRoles[x].position = cachedRoles[r].position /\ x < r}
           T == S \cup {r}
<1>1. IsFiniteSet(S) /\ Cardinality(S) \in Nat
  BY StackIsFinite
<1>2. PlaceOf(r) = 1 + Cardinality(S)
  BY DEF PlaceOf
<1>3. /\ \A x \in Stack : x \in Roles /\ cachedRoles[x].position \in Nat
      /\ r \notin S /\ T \subseteq Stack
  BY DEF Rows, Stacked, IsTable, Row, Stack, Roles
<1>4. IsFiniteSet(T) /\ Cardinality(T) = PlaceOf(r)
  <2> HIDE DEF S
  <2> QED
    BY <1>1, <1>2, <1>3, FS_AddElement
<1>5. IsFiniteSet(Low(k)) /\ Cardinality(Low(k)) \in Nat
  BY StackIsFinite DEF Low
<1>6. ASSUME cachedRoles[r].position < k
      PROVE  PlaceOf(r) <= Cardinality(Low(k))
  <2>1. T \subseteq Low(k)
    BY <1>3, <1>6 DEF Low
  <2> HIDE DEF T
  <2> QED
    BY <1>4, <1>5, <2>1, FS_Subset
<1>7. ASSUME cachedRoles[r].position >= k
      PROVE  PlaceOf(r) > Cardinality(Low(k))
  <2>1. Low(k) \subseteq S
    BY <1>3, <1>7 DEF Low
  <2> HIDE DEF S
  <2>2. Cardinality(Low(k)) <= Cardinality(S)
    BY <1>1, <2>1, FS_Subset
  <2> QED
    BY <1>1, <1>2, <1>5, <2>2
<1>8. PlaceOf(r) <= LastRole
  <2>1. IsFiniteSet(1..LastRole) /\ Cardinality(1..LastRole) = LastRole
    BY FS_Interval
  <2>2. T \subseteq 1..LastRole
    BY <1>3 DEF Roles
  <2> HIDE DEF T
  <2> QED
    BY <1>4, <2>1, <2>2, FS_Subset
<1>9. PlaceOf(r) \in Nat
  <2> HIDE DEF S
  <2> QED
    BY <1>1, <1>2
<1> QED
  BY <1>5, <1>6, <1>7, <1>8, <1>9

\* The only role on a level has the place right above those below it.
LEMMA TopPlace ==
    ASSUME Rows, NEW r \in Stack,
           \A x \in Stack : cachedRoles[x].position = cachedRoles[r].position => x = r
    PROVE  PlaceOf(r) = Cardinality(Low(cachedRoles[r].position)) + 1
<1>1. \A x \in Stack : x \in Int
  BY DEF Rows, Stacked, IsTable, Stack, Roles
<1> DEFINE S == {x \in Stack : \/ cachedRoles[x].position < cachedRoles[r].position
                               \/ cachedRoles[x].position = cachedRoles[r].position /\ x < r}
<1>2. S = Low(cachedRoles[r].position)
  BY <1>1 DEF Low
<1>3. Cardinality(Low(cachedRoles[r].position)) \in Nat
  BY StackIsFinite DEF Low
<1>4. PlaceOf(r) = 1 + Cardinality(S)
  BY DEF PlaceOf
<1> HIDE DEF S
<1> QED
  BY <1>2, <1>3, <1>4

\* A user stays at least as high as another one when the roles that kept them there stay
\* as high as the other one gets.
LEMMA BelowStays ==
    ASSUME Typed, Rows', owner' = owner, NEW u \in Users, u # owner, NEW v \in Users, NEW k \in Nat,
           k <= OwnerRank \/ k = TrueRank(u), TrueRank(u) = 0 => k = 0,
           \A s \in TrueRoles(u)' \cap DOMAIN table' : table'[s].position <= k,
           \A s \in TrueRoles(v) \cap DOMAIN table : table[s].position >= TrueRank(u) =>
               s \in TrueRoles(v)' \cap DOMAIN table' /\ table'[s].position >= k,
           TrueRank(u) <= TrueRank(v)
    PROVE  TrueRank(u)' <= TrueRank(v)'
<1>1. IsTable(table) /\ IsTable(table')
  BY DEF Typed, Rows, Stacked
<1>2. /\ TrueRank(u) \in Nat /\ TrueRank(v) \in Nat /\ TrueRank(u)' \in Nat /\ TrueRank(v)' \in Nat
  BY <1>1, RankIsNat DEF TrueRank
<1>3. TrueRank(u)' <= k
  <2>1. \/ TrueRank(u)' = 0
        \/ \E s \in TrueRoles(u)' \cap DOMAIN table' : TrueRank(u)' = table'[s].position
    <3>1. \A R : \/ RankBy(table', owner', u, R) = 0
                 \/ \E s \in R \cap DOMAIN table' : RankBy(table', owner', u, R) = table'[s].position
      BY <1>1, RankIs
    <3> QED
      BY <3>1 DEF TrueRank
  <2> QED
    BY <2>1
<1>4. CASE v = owner
  <2>1. TrueRank(v)' = OwnerRank /\ TrueRank(v) = OwnerRank
    BY <1>4 DEF TrueRank, RankBy
  <2> QED
    BY <1>2, <1>3, <2>1, RoleAssumption
<1>5. CASE v # owner /\ TrueRank(u) = 0
  BY <1>2, <1>3, <1>5
<1>6. CASE v # owner /\ TrueRank(u) # 0
  <2>1. PICK s \in TrueRoles(v) \cap DOMAIN table : TrueRank(v) = table[s].position
    <3>1. TrueRank(v) # 0
      BY <1>2, <1>6
    <3> QED
      BY <1>1, <1>6, <3>1, RankIs DEF TrueRank
  <2>2. s \in TrueRoles(v)' \cap DOMAIN table' /\ table'[s].position >= k
    BY <2>1
  <2>3. \A R : \A x \in R \cap DOMAIN table' : table'[x].position <= RankBy(table', owner', v, R)
    BY <1>1, <1>6, RankIs
  <2>4. table'[s].position <= TrueRank(v)' /\ table'[s].position \in Nat
    BY <1>1, <2>2, <2>3 DEF TrueRank, IsTable, Row
  <2> QED
    BY <1>2, <1>3, <2>2, <2>4
<1> QED
  BY <1>4, <1>5, <1>6


-----------------------------------------------------------------------------
(* What a request writes, when there is no other                            *)

\* A user without ownership who writes: the request of u keeps to what u may do.
Modest(u) ==
    /\ Typed /\ IdsKept /\ Current /\ Asks(u, req[u]) /\ pc[u] = "write" /\ u # owner
    /\ base[u] = TrueMask(u) /\ RankOf(u, held[u]) = TrueRank(u)
    /\ \A r : BelowRank(u, r) <=> table[r].position < TrueRank(u)

LEMMA RolesAre ==
    ASSUME Typed
    PROVE  /\ \A r \in DOMAIN table : /\ r \in Roles /\ table[r] \in Row /\ table[r].position \in Nat
                                      /\ table[r].mask \subseteq Bits
                                      /\ table[r].position = 0 <=> r = Everyone
           /\ {Everyone, Member, Admin} \subseteq DOMAIN table
           /\ \A v \in Users : TrueRank(v) \in Nat
           /\ \A v \in Users : v # owner =>
                \A r \in TrueRoles(v) : r \in DOMAIN table /\ table[r].position <= TrueRank(v)
<1>1. IsTable(table)
  BY DEF Typed, Rows, Stacked
<1>2. \A v \in Users : TrueRank(v) \in Nat
  BY <1>1, RankIsNat DEF TrueRank
<1>3. ASSUME NEW v \in Users, v # owner, NEW r \in TrueRoles(v)
      PROVE  r \in DOMAIN table /\ table[r].position <= TrueRank(v)
  BY <1>1, <1>3, RolesExist, RankIs DEF TrueRank
<1> QED
  BY <1>1, <1>2, <1>3 DEF Typed, Rows, Stacked, IsTable, Row

\* A new role, which nobody has.
LEMMA InsertIs ==
    ASSUME NEW u \in Users, Modest(u), InsertRole(u)
    PROVE  \E k \in Roles \ DOMAIN table :
             /\ DOMAIN table' = DOMAIN table \cup {k}
             /\ \A r \in DOMAIN table : table'[r] = table[r]
             /\ table'[k] = req[u].row /\ Has(TrueMask(u), req[u].row.mask)
             /\ req[u].row.mask \subseteq Bits
             /\ \A v : TrueRoles(v)' = TrueRoles(v)
<1> DEFINE k == Max(born) + 1
<1>1. k \in Roles \ DOMAIN table
  BY NewIdIs DEF Modest, InsertRole, Writing
<1>2. table' = [x \in DOMAIN table \cup {k} |-> IF x = k THEN req[u].row ELSE table[x]]
  BY DEF InsertRole
<1>3. Has(TrueMask(u), req[u].row.mask) /\ req[u].row \in Row
  BY DEF Modest, Asks, InsertRole, Writing, Typed, Going, Request
<1>4. \A v : TrueRoles(v)' = TrueRoles(v)
  BY SameRoles DEF InsertRole
<1> HIDE DEF k
<1> QED
  BY <1>1, <1>2, <1>3, <1>4 DEF Row

\* One row of a role below the author, which stays below.
LEMMA UpdatesBelow ==
    ASSUME NEW u \in Users, Modest(u), WriteRole(u)
    PROVE  LET r == req[u].role IN
           /\ r \in DOMAIN table /\ table' = [table EXCEPT ![r] = req[u].row] /\ req[u].row \in Row
           /\ table[r].position < TrueRank(u) /\ req[u].row.position < TrueRank(u)
           /\ req[u].row.mask = table[r].mask \/ Has(TrueMask(u), Flipped(table[r].mask, req[u].row.mask))
           /\ \A v : TrueRoles(v)' = TrueRoles(v)
<1>1. /\ req[u].role \in DOMAIN table /\ req[u].op = "update" /\ req[u].row \in Row
  BY DEF Modest, Current, Asks, WriteRole, Writing, Typed, Going, Request
<1>2. table' = [table EXCEPT ![req[u].role] = req[u].row] /\ grants' = grants
  BY <1>1 DEF WriteRole, WriteRow
<1>3. /\ table[req[u].role].position < TrueRank(u) /\ req[u].row.position < TrueRank(u)
      /\ \/ req[u].row.mask = table[req[u].role].mask
         \/ Has(TrueMask(u), Flipped(table[req[u].role].mask, req[u].row.mask))
  BY <1>1 DEF Modest, Current, Asks, MayFlip
<1> QED
  BY <1>1, <1>2, <1>3, SameRoles

\* Positions are the places of the stack, two of them below the author exchanged.
LEMMA OrdersBelow ==
    ASSUME NEW u \in Users, Modest(u), WriteOrder(u)
    PROVE  /\ Stack = DOMAIN table \ {Everyone} /\ DOMAIN table' = DOMAIN table
           /\ table'[Everyone] = table[Everyone]
           /\ \A v : TrueRoles(v)' = TrueRoles(v)
           /\ \E a, b \in Stack :
                /\ \A r \in Stack :
                     /\ table'[r].mask = table[r].mask
                     /\ table'[r].position =
                          IF r = a THEN PlaceOf(b) ELSE IF r = b THEN PlaceOf(a) ELSE PlaceOf(r)
                /\ a # b => /\ PlaceOf(a) <= Cardinality(Low(TrueRank(u)))
                            /\ PlaceOf(b) <= Cardinality(Low(TrueRank(u)))
<1>1. req[u].op = "reorder" /\ grants' = grants
  BY DEF WriteOrder, Writing
<1>2. PICK a \in Stack, b \in Stack :
        /\ req[u].places = Exchanged(a, b)
        /\ a # b => PlaceOf(a) <= CeilingPlace(u) /\ PlaceOf(b) <= CeilingPlace(u)
  BY <1>1 DEF Modest, Asks
<1>3. Stack = DOMAIN table \ {Everyone} /\ Everyone \in DOMAIN table
  BY DEF Stack, Modest, Current, Typed, Rows, Stacked
<1>4. DOMAIN req[u].places = Stack
  BY <1>2 DEF Exchanged
<1>5. table' = [r \in DOMAIN table |->
                  IF r \in Stack THEN [table[r] EXCEPT !.position = req[u].places[r]] ELSE table[r]]
  BY <1>3, <1>4 DEF WriteOrder
<1>6. CeilingPlace(u) = Cardinality(Low(TrueRank(u)))
  <2>1. \A r : BelowRank(u, r) <=> cachedRoles[r].position < TrueRank(u)
    BY DEF Modest, Current
  <2>2. {r \in Stack : BelowRank(u, r)} = Low(TrueRank(u))
    BY <2>1 DEF Low
  <2>3. cachedOwner # u
    BY DEF Modest, Current
  <2> QED
    BY <2>2, <2>3 DEF CeilingPlace
<1>7. ASSUME NEW r \in Stack
      PROVE  /\ table'[r].mask = table[r].mask
             /\ table'[r].position =
                  IF r = a THEN PlaceOf(b) ELSE IF r = b THEN PlaceOf(a) ELSE PlaceOf(r)
  <2>1. table'[r] = [table[r] EXCEPT !.position = req[u].places[r]] /\ table[r] \in Row
    BY <1>3, <1>5, RolesAre DEF Modest
  <2>2. table'[r].mask = table[r].mask /\ table'[r].position = req[u].places[r]
    BY <2>1 DEF Row
  <2>3. req[u].places[r] = IF r = a THEN PlaceOf(b) ELSE IF r = b THEN PlaceOf(a) ELSE PlaceOf(r)
    BY <1>2 DEF Exchanged
  <2> QED
    BY <2>2, <2>3
<1>8. DOMAIN table' = DOMAIN table /\ table'[Everyone] = table[Everyone]
  BY <1>3, <1>5
<1>9. a # b => /\ PlaceOf(a) <= Cardinality(Low(TrueRank(u)))
               /\ PlaceOf(b) <= Cardinality(Low(TrueRank(u)))
  BY <1>2, <1>6
<1> QED
  BY <1>1, <1>3, <1>7, <1>8, <1>9, SameRoles

\* A role below the author goes, with its grants.
LEMMA DeletesBelow ==
    ASSUME NEW u \in Users, Modest(u), RemoveRole(u)
    PROVE  LET r == req[u].role IN
           /\ r \in DOMAIN table \ {Everyone, Member, Admin} /\ table[r].position < TrueRank(u)
           /\ DOMAIN table' = DOMAIN table \ {r} /\ \A x \in DOMAIN table' : table'[x] = table[x]
           /\ \A v : TrueRoles(v)' = TrueRoles(v) \ {r}
<1> DEFINE r == req[u].role
<1>1. /\ r \in DOMAIN table \ {Everyone, Member, Admin} /\ req[u].op = "delete"
      /\ table[r].position < TrueRank(u)
  BY DEF Modest, Current, Asks, RemoveRole, Writing, Typed, Going, AtStep, Draft
<1>2. table' = [x \in DOMAIN table \ {r} |-> table[x]] /\ grants' = {g \in grants : g[2] # r}
  BY <1>1 DEF RemoveRole, GrantsBeside, Restrict
<1>3. \A v : TrueRoles(v)' = TrueRoles(v) \ {r}
  BY <1>1, <1>2 DEF TrueRoles, Implicit, Granted
<1> QED
  BY <1>1, <1>2, <1>3

\* A role below the author is given or taken.
LEMMA GivesBelow ==
    ASSUME NEW u \in Users, Modest(u), WriteMembership(u)
    PROVE  LET r == req[u].role IN
           /\ r \in DOMAIN table /\ table[r].position < TrueRank(u) /\ table' = table
           /\ \A v : TrueRoles(v) \ {r} \subseteq TrueRoles(v)' /\ TrueRoles(v)' \subseteq TrueRoles(v) \cup {r}
<1>1. req[u].op \in {"assign", "unassign"} /\ grants' = GrantsAfter(req[u]) /\ table' = table
  BY DEF WriteMembership, Writing
<1>2. req[u].role \in DOMAIN table /\ table[req[u].role].position < TrueRank(u)
  BY <1>1 DEF Modest, Current, Asks
<1>3. \A v : /\ TrueRoles(v) \ {req[u].role} \subseteq TrueRoles(v)'
             /\ TrueRoles(v)' \subseteq TrueRoles(v) \cup {req[u].role}
  BY <1>1 DEF GrantsAfter, TrueRoles, Implicit, Granted
<1> QED
  BY <1>1, <1>2, <1>3


-----------------------------------------------------------------------------
(* Managing roles is no way up                                              *)

\* No statement puts its author above somebody who stood level with them or higher.
LEMMA WritesBelow ==
    ASSUME NEW u \in Users, Modest(u), Typed', NoTies, NEW v \in Users, TrueRank(u) <= TrueRank(v),
           InsertRole(u) \/ WriteRole(u) \/ WriteOrder(u) \/ RemoveRole(u) \/ WriteMembership(u)
    PROVE  TrueRank(u)' <= TrueRank(v)'
<1>1. /\ Typed /\ u # owner /\ Rows' /\ owner' = owner
      /\ TrueRank(u) \in Nat
  BY RolesAre DEF Modest, Typed, InsertRole, WriteRole, WriteOrder, RemoveRole, WriteMembership
<1>2. PICK k \in Nat : k = TrueRank(u)
  BY <1>1
<1>3. \A r \in TrueRoles(u) : r \in DOMAIN table /\ table[r].position <= k
  BY <1>1, <1>2, RolesAre
<1>4. \A r \in DOMAIN table : table[r].position \in Nat /\ (table[r].position = 0 <=> r = Everyone)
  BY <1>1, RolesAre
\* What to show of a statement that leaves the level of u alone.
<1>5. ASSUME \A s \in TrueRoles(u)' \cap DOMAIN table' : table'[s].position <= k,
             \A s \in TrueRoles(v) \cap DOMAIN table : table[s].position >= k =>
                 s \in TrueRoles(v)' \cap DOMAIN table' /\ table'[s].position >= k
      PROVE  TrueRank(u)' <= TrueRank(v)'
  BY <1>1, <1>2, <1>5, BelowStays
<1>6. CASE InsertRole(u)
  <2>1. PICK n \in Roles \ DOMAIN table :
            /\ DOMAIN table' = DOMAIN table \cup {n} /\ \A r \in DOMAIN table : table'[r] = table[r]
            /\ \A w : TrueRoles(w)' = TrueRoles(w)
    BY <1>6, InsertIs
  <2> QED
    BY <1>3, <1>5, <2>1
<1>7. CASE WriteRole(u)
  <2> DEFINE r == req[u].role
             row == req[u].row
  <2>1. /\ r \in DOMAIN table /\ table' = [table EXCEPT ![r] = row] /\ row \in Row
        /\ table[r].position < k /\ row.position < k
        /\ \A w : TrueRoles(w)' = TrueRoles(w)
    BY <1>2, <1>7, UpdatesBelow
  <2> HIDE DEF r, row
  <2>2. row.position <= k
    BY <2>1 DEF Row
  <2>3. \A s \in DOMAIN table : table[s].position >= k => s # r
    BY <1>4, <2>1
  <2> QED
    BY <1>3, <1>5, <2>1, <2>2, <2>3
<1>8. CASE WriteOrder(u)
  <2>1. /\ Stack = DOMAIN table \ {Everyone} /\ DOMAIN table' = DOMAIN table
        /\ table'[Everyone] = table[Everyone] /\ \A w : TrueRoles(w)' = TrueRoles(w)
    BY <1>8, OrdersBelow
  <2>2. PICK a \in Stack, b \in Stack :
            /\ \A r \in Stack : table'[r].position =
                  IF r = a THEN PlaceOf(b) ELSE IF r = b THEN PlaceOf(a) ELSE PlaceOf(r)
            /\ a # b => PlaceOf(a) <= Cardinality(Low(k)) /\ PlaceOf(b) <= Cardinality(Low(k))
    BY <1>2, <1>8, OrdersBelow
  <2>3. Rows /\ cachedRoles = table
    BY DEF Modest, Typed, Current
  <2>4. PICK c \in Nat : c = Cardinality(Low(k))
    BY <2>3, StackIsFinite DEF Low
  <2>5. CASE k = 0
    <3>1. \A s \in TrueRoles(u)' \cap DOMAIN table' : s = Everyone
      BY <1>3, <1>4, <2>1, <2>5
    <3>2. \A s \in TrueRoles(u)' \cap DOMAIN table' : table'[s].position <= k
      BY <1>4, <2>1, <2>5, <3>1, RolesAre DEF Modest
    <3>3. \A s \in DOMAIN table' : table'[s].position >= k
      BY <2>5 DEF Typed, Rows, Stacked, IsTable, Row
    <3> QED
      BY <1>5, <2>1, <3>2, <3>3
  <2>6. CASE k # 0
    <3>1. PICK top \in TrueRoles(u) : table[top].position = k
      <4>1. IsTable(table)
        BY <2>3 DEF Rows, Stacked
      <4> QED
        BY <1>1, <1>2, <2>6, <4>1, RankIs DEF TrueRank
    <3>2. top \in Stack /\ top \in DOMAIN table
      BY <1>3, <1>4, <2>1, <2>6, <3>1
    <3>3. PlaceOf(top) = c + 1
      <4>1. \A x \in Stack : cachedRoles[x].position = cachedRoles[top].position => x = top
        BY <2>1, <2>3, <3>2 DEF NoTies
      <4> QED
        BY <2>3, <2>4, <3>1, <3>2, <4>1, TopPlace
    <3>4. c + 1 <= OwnerRank
      <4>1. PlaceOf(top) <= LastRole
        BY <2>3, <3>2, PlacesAre
      <4> QED
        BY <3>3, <4>1, RoleAssumption
    <3>5. \A r \in Stack : /\ PlaceOf(r) \in Nat
                           /\ table[r].position < k => PlaceOf(r) <= c
                           /\ table[r].position >= k => PlaceOf(r) > c
      BY <2>3, <2>4, PlacesAre
    <3>6. ASSUME NEW s \in TrueRoles(u)' \cap DOMAIN table'
          PROVE  table'[s].position <= c + 1
      <4>1. s \in TrueRoles(u) /\ s \in DOMAIN table /\ table[s].position <= k
        BY <1>3, <2>1, <3>6
      <4>2. CASE s = Everyone
        BY <1>4, <2>1, <4>1, <4>2
      <4>3. CASE s # Everyone
        <5>1. s \in Stack /\ table[s].position \in Nat
          BY <1>4, <2>1, <4>1, <4>3
        <5>2. PlaceOf(s) <= c + 1
          <6>1. CASE table[s].position = k
            <7>1. s = top
              BY <3>1, <3>2, <4>1, <6>1 DEF NoTies
            <7> QED
              BY <3>3, <7>1
          <6>2. CASE table[s].position # k
            BY <3>5, <4>1, <5>1, <6>2
          <6> QED
            BY <6>1, <6>2
        <5>3. a # b => PlaceOf(a) <= c + 1 /\ PlaceOf(b) <= c + 1
          BY <2>2, <2>4, <3>5
        <5> QED
          BY <2>2, <5>1, <5>2, <5>3
      <4> QED
        BY <4>2, <4>3
    <3>7. ASSUME NEW s \in TrueRoles(v) \cap DOMAIN table, table[s].position >= k
          PROVE  s \in TrueRoles(v)' \cap DOMAIN table' /\ table'[s].position >= c + 1
      <4>1. s \in Stack
        BY <1>4, <2>1, <2>6, <3>7
      <4>2. PlaceOf(s) >= c + 1 /\ PlaceOf(s) > c
        BY <3>5, <3>7, <4>1
      <4>3. a # b => s # a /\ s # b
        BY <2>2, <2>4, <3>5, <4>1, <4>2
      <4> QED
        BY <2>1, <2>2, <3>7, <4>1, <4>2, <4>3
    <3>8. c + 1 \in Nat /\ TrueRank(u) # 0
      BY <1>2, <2>6
    <3> QED
      BY <1>1, <1>2, <3>4, <3>6, <3>7, <3>8, BelowStays
  <2> QED
    BY <2>5, <2>6
<1>9. CASE RemoveRole(u)
  <2> DEFINE r == req[u].role
  <2>1. /\ r \in DOMAIN table /\ table[r].position < k
        /\ DOMAIN table' = DOMAIN table \ {r} /\ \A x \in DOMAIN table' : table'[x] = table[x]
    BY <1>2, <1>9, DeletesBelow
  <2>2. PICK x : x = r /\ \A w : TrueRoles(w)' = TrueRoles(w) \ {x}
    BY <1>9, DeletesBelow
  <2> HIDE DEF r
  <2>3. \A s \in DOMAIN table : table[s].position >= k => s # r
    BY <1>4, <2>1
  <2> QED
    BY <1>3, <1>5, <2>1, <2>2, <2>3
<1>10. CASE WriteMembership(u)
  <2> DEFINE r == req[u].role
  <2>1. r \in DOMAIN table /\ table[r].position < k /\ table' = table
    BY <1>2, <1>10, GivesBelow
  <2>2. PICK x : x = r /\ \A w : /\ TrueRoles(w) \ {x} \subseteq TrueRoles(w)'
                                 /\ TrueRoles(w)' \subseteq TrueRoles(w) \cup {x}
    BY <1>10, GivesBelow
  <2> HIDE DEF r
  <2>3. \A s \in DOMAIN table : table[s].position >= k => s # r
    BY <1>4, <2>1
  <2>4. table[r].position <= k
    BY <1>4, <2>1
  <2> QED
    BY <1>3, <1>5, <2>1, <2>2, <2>3, <2>4
<1> QED
  BY <1>6, <1>7, <1>8, <1>9, <1>10

LEMMA WriterIsModest ==
    ASSUME Typed, IdsKept, TurnsFit, Connected, OneByOne, NEW u \in Users, pc[u] = "write", u # owner
    PROVE  Modest(u)
BY WriterIs DEF Modest

LEMMA KeepsStep ==
    ASSUME Typed, IdsKept, TurnsFit, Connected, OneByOne, Next
    PROVE  KeepsBelow
<1> SUFFICES ASSUME NEW u \in Users, NEW v \in Users, pc[u] = "write", u # owner,
                    req[u].op # "claim", NoTies, TrueRank(u) <= TrueRank(v)
             PROVE  TrueRank(u)' <= TrueRank(v)'
  BY DEF KeepsBelow
<1>1. Modest(u)
  BY WriterIsModest
<1>2. Typed'
  BY TypedStays
<1>3. InsertRole(u) \/ WriteRole(u) \/ WriteOrder(u) \/ RemoveRole(u) \/ WriteMembership(u)
  <2>1. ~SetOwner(u)
    BY DEF SetOwner, Writing
  <2> QED
    BY <2>1, WriterActs
<1> QED
  BY <1>1, <1>2, <1>3, WritesBelow


\* What the roles beside that of the administrators gave at the start.
Given == Resolve({plan.table[r].mask : r \in DOMAIN plan.table \ {Admin}})

\* Nobody reaches the administrators, and no role beside theirs gives more than at the start.
Levels ==
    /\ owner = NoUser /\ ~token
    /\ \A v \in Users : \A r \in TrueRoles(v) : table[r].position < table[Admin].position
    /\ \A r \in DOMAIN table \ {Admin} : table[r].mask \subseteq Given

LevelsKept == OneByOne /\ Leaderless => Levels

LEMMA GivenIs ==
    ASSUME plan \in Plans
    PROVE  /\ Given \subseteq Bits /\ (Administrator \in Given => Given = Bits)
           /\ \A r \in DOMAIN plan.table \ {Admin} : plan.table[r].mask \subseteq Given
<1>1. \A r \in DOMAIN plan.table : plan.table[r].mask \subseteq Bits
  BY PlansFit DEF IsTable, Row
<1> QED
  BY <1>1 DEF Given, Resolve

\* Masks within what is given resolve to one within it.
LEMMA ResolvesWithin ==
    ASSUME NEW S, NEW G \in SUBSET Bits, Administrator \in G => G = Bits,
           \A m \in S : m \subseteq G
    PROVE  Resolve(S) \subseteq G
BY DEF Resolve

\* Who is below the administrators has what is given, and not more.
LEMMA MasksAreGiven ==
    ASSUME Typed, Levels, NEW v \in Users
    PROVE  TrueMask(v) \subseteq Given
<1>1. v # owner /\ Admin \notin TrueRoles(v)
  BY RolesAre, RoleAssumption DEF Levels
<1> DEFINE S == {table[r].mask : r \in TrueRoles(v) \cap DOMAIN table}
<1>2. \A m \in S : m \subseteq Given
  BY <1>1 DEF Levels
<1>3. TrueMask(v) = Resolve(S)
  BY <1>1 DEF TrueMask, MaskBy
<1>4. Given \in SUBSET Bits /\ (Administrator \in Given => Given = Bits)
  BY GivenIs DEF Typed, Shape
<1> HIDE DEF S
<1> QED
  BY <1>2, <1>3, <1>4, ResolvesWithin

LEMMA RanksAreBelow ==
    ASSUME Typed, Levels, NEW v \in Users
    PROVE  TrueRank(v) < table[Admin].position /\ v # owner
<1>1. v # owner
  BY RoleAssumption DEF Levels
<1>2. IsTable(table) /\ table[Admin].position \in Nat /\ table[Admin].position # 0
  BY RolesAre, RoleAssumption DEF Typed, Rows, Stacked
<1>3. \/ TrueRank(v) = 0
      \/ \E r \in TrueRoles(v) \cap DOMAIN table : TrueRank(v) = table[r].position
  BY <1>1, <1>2, RankIs DEF TrueRank
<1> QED
  BY <1>1, <1>2, <1>3 DEF Levels

LEMMA LevelsShow == Typed /\ LevelsKept => NoRouteUpwards
BY MasksAreGiven, RanksAreBelow DEF LevelsKept, NoRouteUpwards, Given

LEMMA FirstLevels == Init => LevelsKept
<1> SUFFICES ASSUME Init, Leaderless PROVE Levels
  BY DEF LevelsKept
<1>1. Typed /\ plan \in Plans
  BY FirstTyped DEF Init
<1>2. owner = NoUser /\ ~token
  BY DEF Init, Leaderless
<1>3. ASSUME NEW v \in Users, NEW r \in TrueRoles(v)
      PROVE  table[r].position < table[Admin].position
  <2>1. table[Admin].position \in Nat /\ table[Admin].position # 0 /\ table[Everyone].position = 0
    BY <1>1, RolesAre, RoleAssumption
  <2>2. r = Everyone \/ r = Member \/ <<v, r>> \in plan.grants
    BY <1>3 DEF Init, TrueRoles, Implicit, Granted
  <2>3. <<v, r>> \in plan.grants => plan.table[r].position < plan.table[Admin].position
    <3>1. \A g \in plan.grants : plan.table[g[2]].position < plan.table[Admin].position
      BY DEF Leaderless
    <3>2. <<v, r>>[2] = r
      OBVIOUS
    <3> QED
      BY <3>1, <3>2
  <2> QED
    BY <2>1, <2>2, <2>3 DEF Init, Leaderless
<1>4. \A r \in DOMAIN table \ {Admin} : table[r].mask \subseteq Given
  BY <1>1, GivenIs DEF Init
<1> QED
  BY <1>2, <1>3, <1>4 DEF Levels

\* A statement of somebody below the administrators leaves everybody there.
LEMMA WritesWithin ==
    ASSUME NEW u \in Users, Modest(u), Typed', Levels, plan' = plan, token' = token,
           InsertRole(u) \/ WriteRole(u) \/ WriteOrder(u) \/ RemoveRole(u) \/ WriteMembership(u)
    PROVE  Levels'
<1>1. /\ Typed /\ owner' = owner /\ Given' = Given
  BY DEF Modest, InsertRole, WriteRole, WriteOrder, RemoveRole, WriteMembership, Given
<1>2. PICK k \in Nat : k = TrueRank(u)
  BY <1>1, RolesAre
<1>3. PICK top \in Nat : top = table[Admin].position
  BY <1>1, RolesAre
<1>4. k < top
  BY <1>1, <1>2, <1>3, RanksAreBelow
<1>5. \A r \in DOMAIN table : table[r].position \in Nat /\ (table[r].position = 0 <=> r = Everyone)
  BY <1>1, RolesAre
<1>6. \A v \in Users : \A r \in TrueRoles(v) : r \in DOMAIN table /\ table[r].position < top
  BY <1>1, <1>3, RolesExist DEF Levels
<1>7. {Everyone, Admin} \subseteq DOMAIN table /\ Everyone # Admin
  BY <1>1, RolesAre, RoleAssumption
<1>8. /\ TrueMask(u) \subseteq Given /\ Given \subseteq Bits /\ (Administrator \in Given => Given = Bits)
      /\ \A r \in DOMAIN table \ {Admin} : table[r].mask \subseteq Given
  BY <1>1, MasksAreGiven, GivenIs DEF Typed, Shape, Levels
\* What to show of each.
<1>9. ASSUME \A v \in Users : \A r \in TrueRoles(v)' : table'[r].position < table'[Admin].position,
             \A r \in DOMAIN table' \ {Admin} : table'[r].mask \subseteq Given
      PROVE  Levels'
  BY <1>1, <1>9 DEF Levels
<1>10. CASE InsertRole(u)
  <2>1. PICK n \in Roles \ DOMAIN table :
            /\ DOMAIN table' = DOMAIN table \cup {n} /\ \A r \in DOMAIN table : table'[r] = table[r]
            /\ table'[n] = req[u].row /\ Has(TrueMask(u), req[u].row.mask)
            /\ req[u].row.mask \subseteq Bits
            /\ \A w : TrueRoles(w)' = TrueRoles(w)
    BY <1>10, InsertIs
  <2>2. req[u].row.mask \subseteq Given
    BY <1>8, <2>1 DEF Has
  <2> QED
    BY <1>3, <1>6, <1>7, <1>8, <1>9, <2>1, <2>2
<1>11. CASE WriteRole(u)
  <2> DEFINE r == req[u].role
             row == req[u].row
  <2>1. /\ r \in DOMAIN table /\ table' = [table EXCEPT ![r] = row] /\ row \in Row
        /\ table[r].position < k /\ row.position < k
        /\ row.mask = table[r].mask \/ Has(TrueMask(u), Flipped(table[r].mask, row.mask))
        /\ \A w : TrueRoles(w)' = TrueRoles(w)
    BY <1>2, <1>11, UpdatesBelow
  <2> HIDE DEF r, row
  <2>2. row.position < top /\ row.position \in Nat
    BY <1>4, <2>1 DEF Row
  <2>3. r # Admin
    BY <1>3, <1>4, <1>5, <2>1
  <2>4. row.mask \subseteq Given
    <3>1. table[r].mask \subseteq Given /\ row.mask \subseteq Bits
      BY <1>8, <2>1, <2>3 DEF Row
    <3> QED
      BY <1>8, <2>1, <3>1 DEF Has, Flipped
  <2> QED
    BY <1>3, <1>6, <1>7, <1>8, <1>9, <2>1, <2>2, <2>3, <2>4
<1>12. CASE WriteOrder(u)
  <2>1. /\ Stack = DOMAIN table \ {Everyone} /\ DOMAIN table' = DOMAIN table
        /\ table'[Everyone] = table[Everyone] /\ \A w : TrueRoles(w)' = TrueRoles(w)
    BY <1>12, OrdersBelow
  <2>2. PICK a \in Stack, b \in Stack :
            /\ \A r \in Stack :
                 /\ table'[r].mask = table[r].mask
                 /\ table'[r].position =
                      IF r = a THEN PlaceOf(b) ELSE IF r = b THEN PlaceOf(a) ELSE PlaceOf(r)
            /\ a # b => PlaceOf(a) <= Cardinality(Low(k)) /\ PlaceOf(b) <= Cardinality(Low(k))
    BY <1>2, <1>12, OrdersBelow
  <2>3. Rows /\ cachedRoles = table /\ Admin \in Stack
    BY <1>7, <2>1 DEF Modest, Typed, Current
  <2>4. PICK c \in Nat : c = Cardinality(Low(k))
    BY <2>3, StackIsFinite DEF Low
  <2>5. PICK d \in Nat : d = Cardinality(Low(top))
    BY <2>3, StackIsFinite DEF Low
  <2>6. PICK p \in Nat : p = PlaceOf(Admin)
    BY <2>3, PlacesAre
  <2>7. p > c /\ p > d
    BY <1>3, <1>4, <2>3, <2>4, <2>5, <2>6, PlacesAre
  <2>8. table'[Admin].position = p
    <3>1. a # b => a # Admin /\ b # Admin
      BY <2>2, <2>4, <2>6, <2>7
    <3> QED
      BY <2>2, <2>3, <2>6, <3>1
  <2>9. ASSUME NEW v \in Users, NEW r \in TrueRoles(v)'
        PROVE  table'[r].position < table'[Admin].position
    <3>1. r \in DOMAIN table /\ table[r].position < top
      BY <1>6, <2>1, <2>9
    <3>2. CASE r = Everyone
      BY <1>5, <2>1, <2>7, <2>8, <3>1, <3>2
    <3>3. CASE r # Everyone
      <4>1. r \in Stack
        BY <2>1, <3>1, <3>3
      <4>2. PlaceOf(r) \in Nat /\ PlaceOf(r) <= d
        BY <2>3, <2>5, <3>1, <4>1, PlacesAre
      <4>3. PlaceOf(a) \in Nat /\ PlaceOf(b) \in Nat
        BY <2>3, PlacesAre
      <4>4. PlaceOf(r) < p
        BY <2>7, <4>2
      <4>5. a # b => PlaceOf(a) < p /\ PlaceOf(b) < p
        BY <2>2, <2>4, <2>7, <4>3
      <4> QED
        BY <2>2, <2>8, <4>1, <4>4, <4>5
    <3> QED
      BY <3>2, <3>3
  <2>10. \A r \in DOMAIN table' \ {Admin} : table'[r].mask \subseteq Given
    BY <1>7, <1>8, <2>1, <2>2
  <2> QED
    BY <1>9, <2>9, <2>10
<1>13. CASE RemoveRole(u)
  <2>1. PICK r : r = req[u].role
    OBVIOUS
  <2>2. /\ r \in DOMAIN table \ {Everyone, Member, Admin}
        /\ DOMAIN table' = DOMAIN table \ {r} /\ \A x \in DOMAIN table' : table'[x] = table[x]
        /\ \A w : TrueRoles(w)' = TrueRoles(w) \ {r}
    BY <1>13, <2>1, DeletesBelow
  <2> QED
    BY <1>3, <1>6, <1>7, <1>8, <1>9, <2>2
<1>14. CASE WriteMembership(u)
  <2>1. PICK r : r = req[u].role
    OBVIOUS
  <2>2. /\ r \in DOMAIN table /\ table[r].position < k /\ table' = table
        /\ \A w : TrueRoles(w)' \subseteq TrueRoles(w) \cup {r}
    BY <1>2, <1>14, <2>1, GivesBelow
  <2>3. table[r].position < top
    BY <1>4, <1>5, <2>2
  <2> QED
    BY <1>3, <1>6, <1>8, <1>9, <2>2, <2>3
<1> QED
  BY <1>10, <1>11, <1>12, <1>13, <1>14

\* Steps that are not statements leave the rows alone.
LEMMA OthersKeepRows ==
    ASSUME Typed, NEW u \in Users,
           \/ Ask(u) \/ Login(u) \/ BurnToken(u) \/ ReloadOwner(u) \/ InstallOwner(u)
           \/ ReloadRoles(u) \/ InstallRoles(u) \/ ListSessions(u) \/ FetchRoles(u)
           \/ ResolveMask(u) \/ ApplyMask(u) \/ Join(u)
    PROVE  UNCHANGED <<table, grants, owner>> /\ (token' = token \/ token' = FALSE)
<1>1. CASE Ask(u)
  BY <1>1, AskIs DEF Asked, Checked
<1>2. CASE Login(u) \/ BurnToken(u) \/ ReloadOwner(u) \/ InstallOwner(u) \/ ReloadRoles(u)
  BY <1>2 DEF Login, BurnToken, ReloadOwner, InstallOwner, ReloadRoles
<1>3. CASE \/ InstallRoles(u) \/ ListSessions(u) \/ FetchRoles(u) \/ ResolveMask(u) \/ ApplyMask(u)
           \/ Join(u)
  BY <1>3 DEF InstallRoles, ListSessions, FetchRoles, ResolveMask, ApplyMask, Join
<1> QED
  BY <1>1, <1>2, <1>3

LEMMA LevelsStay ==
    ASSUME Typed, IdsKept, TurnsFit, Connected, LevelsKept, [Next]_vars
    PROVE  LevelsKept'
<1> SUFFICES ASSUME OneByOne', Leaderless' PROVE Levels'
  BY DEF LevelsKept
<1>1. plan' = plan
  BY DEF Next, vars
<1>2. OneByOne /\ Leaderless /\ Levels /\ Given' = Given
  BY <1>1 DEF OneByOne, Leaderless, LevelsKept, Given
<1>3. ASSUME UNCHANGED <<table, grants, owner>>, token' = token \/ token' = FALSE
      PROVE  Levels'
  <2>1. \A v : TrueRoles(v)' = TrueRoles(v)
    BY <1>3, SameRoles
  <2> QED
    BY <1>2, <1>3, <2>1 DEF Levels
<1>4. CASE Next
  <2>1. PICK u \in Users : \/ RoomForAnother /\ pc[u] = "idle" /\ Ask(u)
                           \/ RoomForAnother /\ Login(u)
                           \/ Proceed(u)
    BY <1>4, PlansFit DEF Next, Typed, Shape
  <2>2. CASE pc[u] = "write"
    <3>1. Modest(u)
      <4>1. u # owner
        BY <1>2, RoleAssumption DEF Levels
      <4> QED
        BY <1>2, <2>2, <4>1, WriterIsModest
    <3>2. ~SetOwner(u)
      BY <1>2, <3>1 DEF Levels, Modest, Asks, SetOwner, Writing
    <3>3. InsertRole(u) \/ WriteRole(u) \/ WriteOrder(u) \/ RemoveRole(u) \/ WriteMembership(u)
      BY <1>2, <1>4, <2>2, <3>2, WriterActs
    <3>4. token' = token
      BY <3>3 DEF InsertRole, WriteRole, WriteOrder, RemoveRole, WriteMembership
    <3>5. Typed'
      BY TypedStays
    <3> QED
      BY <1>1, <1>2, <3>1, <3>3, <3>4, <3>5, WritesWithin
  <2>3. CASE pc[u] # "write"
    <3>1. \/ Ask(u) \/ Login(u) \/ BurnToken(u) \/ ReloadOwner(u) \/ InstallOwner(u)
          \/ ReloadRoles(u) \/ InstallRoles(u) \/ ListSessions(u) \/ FetchRoles(u)
          \/ ResolveMask(u) \/ ApplyMask(u) \/ Join(u)
      BY <2>1, <2>3 DEF Proceed, Writing, InsertRole, WriteRole, WriteOrder, RemoveRole,
         WriteMembership, SetOwner
    <3> QED
      BY <1>3, <3>1, OthersKeepRows
  <2> QED
    BY <2>2, <2>3
<1>5. CASE UNCHANGED vars
  BY <1>3, <1>5 DEF vars
<1> QED
  BY <1>4, <1>5

\* As long as requests come one after the other, no request puts its author above
\* somebody who stood level with them or higher, and without an owner nobody comes to
\* the level of the administrators or to a permission that only they had, for any
\* number of users, roles and requests.
THEOREM NobodyClimbs == Spec => NoWayUp
<1> DEFINE Inv == Typed /\ IdsKept /\ TurnsFit /\ Connected /\ LevelsKept
<1>1. Init => Inv
  <2>1. Init => Connected
    <3> SUFFICES ASSUME Init PROVE Connected
      OBVIOUS
    <3>1. \A u \in Users : req[u].op = "none" /\ (pc[u] # "out" => u \in hub)
      BY NoRequestIs DEF Init
    <3> QED
      BY <3>1 DEF Connected
  <2> QED
    BY <2>1, FirstTyped, FirstIds, FirstTurns, FirstLevels
<1>2. Inv /\ [Next]_vars => Inv'
  BY TypedStays, TurnsStay, ConnectedStays, LevelsStay
<1>3. Inv /\ [Next]_vars => [OneByOne => KeepsBelow]_vars
  BY KeepsStep
<1>4. Inv => NoRouteUpwards
  BY LevelsShow
<1>5. Inv' => NoRouteUpwards'
  BY <1>4, PTL
<1>6. Inv /\ [Next]_vars => [(OneByOne => KeepsBelow) /\ NoRouteUpwards']_vars
  BY <1>2, <1>3, <1>5
<1> QED
  BY <1>1, <1>2, <1>6, PTL DEF Spec, NoWayUp

===============================================================================
