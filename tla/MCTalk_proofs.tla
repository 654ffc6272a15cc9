-------------------------------- MODULE MCTalk_proofs --------------------------------
(***************************************************************************)
(* What Talk_proofs proves of single modules, for the behaviours of        *)
(* MCTalk: one lemma says that a step of a scene is a step of its module.  *)
(* And of the webhooks, that one's invariant and its proof.                *)
(***************************************************************************)
EXTENDS MCTalk, Talk_proofs

-----------------------------------------------------------------------------
(* Webhooks.  rows are the hooks, w1 the channels, w2 the messages, w3 the   *)
(* disk, w4 and w5 the buckets, w6 the clock, w7 the tokens taken, w8 what   *)
(* each message was delivered with.                                          *)
(*                                                                           *)
(* The pace: what a bucket still holds is at most what its webhook may yet   *)
(* have, counted from any token on (HooksMeasured).  The files: one on the   *)
(* disk is on a message or with the one request that saved it, and which     *)
(* request that is can be told from its name (HooksFit, HooksStored).        *)

LEMMA HooksCount == \A S : Hooks!Cardinality(S) = Cardinality(S) /\ Hooks!IsFiniteSet(S) = IsFiniteSet(S)
  BY DEF Hooks!Cardinality, Cardinality, Hooks!IsFiniteSet, IsFiniteSet

HooksFields == {"at", "op", "id", "row", "parts", "read", "text", "embeds", "files", "held", "msg", "bucket"}

\* The pace.
HooksBuckets == [tokens : Nat, at : Nat]
HooksDraws == [hook : Nat, at : Nat, stray : BOOLEAN]
HooksBucketFits(h, b) == \A k \in DOMAIN w4 : w4[k] = b => k = h
HooksFilled(b, t) == IF b.tokens + (t - b.at) > Hooks!Full THEN Hooks!Full ELSE b.tokens + (t - b.at)
HooksTokens(by, buckets, t, h) == IF h \in DOMAIN by THEN HooksFilled(buckets[by[h]], t) ELSE Hooks!Full
HooksWithin(taken, i, j) == {k \in i..j : taken[k].hook = taken[i].hook /\ ~taken[k].stray}
HooksCalm(b, t) == b \in HooksBuckets /\ b.tokens <= Hooks!Full /\ b.at <= t

HooksTimed(by, buckets, t, taken) ==
    /\ t \in Nat /\ buckets \in Seq(HooksBuckets) /\ \A b \in 1..Len(buckets) : HooksCalm(buckets[b], t)
    /\ \A h \in DOMAIN by : by[h] \in 1..Len(buckets)
    /\ \A h, k \in DOMAIN by : by[h] = by[k] => h = k
    /\ taken \in Seq(HooksDraws) /\ \A i \in 1..Len(taken) : taken[i].at <= t
    /\ \A i, j \in 1..Len(taken) : i <= j => taken[i].at <= taken[j].at
HooksDrawn ==
    \A c \in Hooks!Callers :
        /\ req[c].at \in {"load", "pace", "take"} => req[c].id \in Nat
        /\ req[c].at = "take" => req[c].bucket \in 1..Len(w5) /\ HooksBucketFits(req[c].id, req[c].bucket)
\* What was taken since any token, with what may still be taken.
HooksMeasured(by, buckets, t, taken) ==
    \A i \in 1..Len(taken) :
        2 * Cardinality(HooksWithin(taken, i, Len(taken))) + HooksTokens(by, buckets, t, taken[i].hook)
            <= Hooks!Full + t - taken[i].at
HooksLimited(taken) ==
    \A i \in 1..Len(taken) : \A j \in i..Len(taken) :
        2 * Cardinality(HooksWithin(taken, i, j)) <= Hooks!Full + taken[j].at - taken[i].at
HooksPaced == HooksTimed(w4, w5, w6, w7) /\ HooksDrawn /\ HooksMeasured(w4, w5, w6, w7) /\ HooksLimited(w7)

\* What a request holds.
HooksHolding == {"read", "insert", "bind", "rollback"}
HooksUnsure == {"bind", "rollback"}
HooksSettled(m) ==
    m \in DOMAIN w2 => w2[m].files = w8[m] /\ ~Hooks!Empty(w2[m].text, w2[m].embeds, w8[m])
HooksFit(c, r) ==
    /\ DOMAIN r = HooksFields /\ r.read \in Nat /\ r.msg \in 0..last.msg
    /\ r.at \in {"load", "pace", "take"} => r.files = {}
    /\ r.at \in {"pace", "take"} => r.op \in {"deliver", "edit"}
    /\ r.at \in {"read", "insert"} =>
        /\ \A f \in r.files : f[2] = c
        /\ \A m \in DOMAIN w8 : r.files \cap w8[m] = {}
    /\ r.at = "read" =>
        /\ \A f \in r.files : f[3] \in Nat /\ f[3] <= r.read
        /\ \A m \in DOMAIN w8 : \A f \in w8[m] : f[2] = c => f[1] < Len(w7)
    /\ r.at \in {"bind", "rollback", "tell"} => r.msg # 0 /\ w8[r.msg] = r.files
    /\ r.at \in HooksUnsure => r.msg \notin DOMAIN shown /\ (r.msg \in DOMAIN w2 => w2[r.msg].files = {})
    /\ r.at = "bind" /\ r.msg \in DOMAIN w2 => ~Hooks!Empty(w2[r.msg].text, w2[r.msg].embeds, r.files)
    /\ r.at = "tell" => r.held = r.files
    /\ r.at = "write" => ~Hooks!Empty(r.text, r.embeds, r.held)
    /\ r.at \in {"write", "retell", "remove"} /\ r.msg \in DOMAIN w2 => r.held = w8[r.msg]
    /\ r.at \in {"load", "patch", "write", "retell", "files", "remove", "gone"} \/ r.op = "edit" => r.msg # 0
\* A message whose files are not on it yet is known to no other request.
HooksApart ==
    \A c, d \in Hooks!Callers : c # d /\ req[c].at \in HooksUnsure => req[d].msg # req[c].msg

HooksTyped ==
    /\ Burst \in Nat /\ last.hook \in Nat /\ last.msg \in Nat /\ DOMAIN last = {"hook", "msg"}
    /\ DOMAIN rows \subseteq 1..last.hook /\ \A h \in DOMAIN rows : rows[h].channel \in w1
    /\ DOMAIN w2 \subseteq 1..last.msg /\ DOMAIN w8 = 1..last.msg /\ DOMAIN shown \subseteq 1..last.msg
    /\ \A m \in DOMAIN w2 : DOMAIN w2[m] = {"hook", "channel", "text", "embeds", "files"} /\ w2[m].channel \in w1
    /\ DOMAIN req = Hooks!Callers
HooksMessages ==
    /\ \A m \in DOMAIN w2 : HooksSettled(m) \/ \E c \in Hooks!Callers : req[c].at \in HooksUnsure /\ req[c].msg = m
    /\ \A m \in DOMAIN shown : m \in DOMAIN w2 => shown[m].files = w8[m]
\* The files there are, and whose they are.
HooksNamed ==
    /\ \A m \in DOMAIN w8 : \A f \in w8[m] : f[1] \in Nat /\ f[1] <= Len(w7)
    /\ \A m, n \in DOMAIN w8 : m # n => w8[m] \cap w8[n] = {}
    /\ \A c \in Hooks!Callers : req[c].at \in {"read", "insert"} =>
            \A f \in req[c].files : f[1] \in Nat /\ f[1] <= Len(w7)
HooksStored ==
    \A f : f \in w3 <=> \/ \E m \in DOMAIN w2 : f \in w2[m].files
                        \/ \E c \in Hooks!Callers : req[c].at \in HooksHolding /\ f \in req[c].files
HooksKept ==
    /\ HooksTyped /\ HooksMessages /\ HooksNamed /\ HooksStored /\ HooksApart
    /\ \A c \in Hooks!Callers : HooksFit(c, req[c])

LEMMA HooksElement ==
    ASSUME NEW S, NEW s \in Seq(S), NEW i \in 1..Len(s)
    PROVE  s[i] \in S
OBVIOUS

LEMMA HooksFullIs ==
    ASSUME Burst \in Nat
    PROVE  Hooks!Full \in Nat
BY DEF Hooks!Full

LEMMA HooksRefilledIs == \A b : Hooks!Refilled(b) = HooksFilled(b, w6)
BY DEF Hooks!Refilled, Hooks!Tokens, HooksFilled

LEMMA HooksRefill ==
    ASSUME Burst \in Nat, NEW t \in Nat, NEW b, HooksCalm(b, t)
    PROVE  /\ HooksFilled(b, t) \in Nat /\ HooksFilled(b, t) <= Hooks!Full
           /\ HooksFilled(b, t + 1) <= HooksFilled(b, t) + 1 /\ HooksCalm(b, t + 1)
           /\ b.tokens + (t - b.at) >= Hooks!Full => HooksFilled(b, t) = Hooks!Full
           /\ b.at = t => HooksFilled(b, t) = b.tokens
<1>1. Hooks!Full \in Nat /\ b.tokens \in Nat /\ b.at \in Nat /\ b.tokens <= Hooks!Full /\ b.at <= t
  BY HooksFullIs DEF HooksCalm, HooksBuckets
<1> QED
  BY <1>1 DEF HooksFilled, HooksCalm

LEMMA HooksTokensIs ==
    ASSUME Burst \in Nat, NEW by, NEW buckets, NEW t, NEW taken, HooksTimed(by, buckets, t, taken), NEW h
    PROVE  /\ HooksTokens(by, buckets, t, h) \in Nat /\ HooksTokens(by, buckets, t, h) <= Hooks!Full
           /\ HooksTokens(by, buckets, t + 1, h) <= HooksTokens(by, buckets, t, h) + 1
<1>1. Hooks!Full \in Nat
  BY HooksFullIs
<1>2. CASE h \in DOMAIN by
  <2>1. by[h] \in 1..Len(buckets) /\ t \in Nat
    BY <1>2 DEF HooksTimed
  <2>2. HooksCalm(buckets[by[h]], t)
    BY <2>1 DEF HooksTimed
  <2> QED
    BY <1>1, <1>2, <2>1, <2>2, HooksRefill DEF HooksTokens
<1>3. CASE h \notin DOMAIN by
  BY <1>1, <1>3 DEF HooksTokens
<1> QED
  BY <1>1, <1>2, <1>3

LEMMA HooksDrawsAre ==
    ASSUME NEW by, NEW buckets, NEW t, NEW taken, HooksTimed(by, buckets, t, taken)
    PROVE  /\ t \in Nat /\ Len(taken) \in Nat /\ Len(buckets) \in Nat /\ taken \in Seq(HooksDraws)
           /\ \A i \in 1..Len(taken) :
                taken[i] \in HooksDraws /\ taken[i].at \in Nat /\ taken[i].at <= t /\ taken[i].hook \in Nat
<1>1. taken \in Seq(HooksDraws) /\ buckets \in Seq(HooksBuckets) /\ t \in Nat
  BY DEF HooksTimed
<1>2. \A i \in 1..Len(taken) : taken[i] \in HooksDraws /\ taken[i].at <= t
  BY <1>1, HooksElement DEF HooksTimed
<1> QED
  BY <1>1, <1>2 DEF HooksDraws

LEMMA HooksWithinIs ==
    ASSUME NEW taken, NEW i \in Nat, NEW j \in Nat
    PROVE  IsFiniteSet(HooksWithin(taken, i, j)) /\ Cardinality(HooksWithin(taken, i, j)) \in Nat
<1>2. HooksWithin(taken, i, j) \subseteq i..j /\ i \in Int /\ j \in Int
  BY DEF HooksWithin
<1>3. IsFiniteSet(i..j)
  BY <1>2, FS_Interval
<1>4. IsFiniteSet(HooksWithin(taken, i, j))
  BY <1>2, <1>3, FS_Subset
<1> QED
  BY <1>4, FS_CardinalityType

LEMMA HooksLimitIs == HooksLimited(w7) <=> Hooks!LimitHeld
BY HooksCount DEF Hooks!LimitHeld, HooksLimited, HooksWithin

\* The parts of the pace that are not about requests, after a step.
LEMMA HooksPaceIs ==
    ASSUME NEW by, NEW buckets, NEW t, NEW taken, w4' = by, w5' = buckets, w6' = t, w7' = taken,
           HooksTimed(by, buckets, t, taken), HooksMeasured(by, buckets, t, taken), HooksLimited(taken)
    PROVE  HooksTimed(w4, w5, w6, w7)' /\ HooksMeasured(w4, w5, w6, w7)' /\ HooksLimited(w7)'
<1>1. HooksTimed(w4, w5, w6, w7)'
  BY DEF HooksTimed, HooksCalm, Hooks!Full
<1>2. HooksMeasured(w4, w5, w6, w7)'
  BY DEF HooksMeasured, HooksWithin, HooksTokens, HooksFilled, Hooks!Full
<1>3. HooksLimited(w7)'
  BY DEF HooksLimited, HooksWithin, Hooks!Full
<1> QED
  BY <1>1, <1>2, <1>3

\* Where nobody draws and no bucket is made, the pace is kept.
LEMMA HooksPacedFrames ==
    ASSUME HooksPaced, Burst \in Nat, UNCHANGED <<w4, w5, w6, w7>>, Hooks!Callers' = Hooks!Callers,
           \A c \in Hooks!Callers : req'[c].at \in {"load", "pace", "take"} =>
                /\ req'[c].id \in Nat
                /\ req'[c].at = "take" => req[c].at = "take" /\ req'[c].id = req[c].id /\ req'[c].bucket = req[c].bucket
    PROVE  HooksPaced'
<1>1. HooksTimed(w4, w5, w6, w7)' /\ HooksMeasured(w4, w5, w6, w7)' /\ HooksLimited(w7)'
  BY HooksPaceIs DEF HooksPaced
<1>2. HooksDrawn'
  BY DEF HooksPaced, HooksDrawn, HooksBucketFits
<1> QED
  BY <1>1, <1>2 DEF HooksPaced

LEMMA HooksPacedTick ==
    ASSUME HooksPaced, Burst \in Nat, Hooks!Tick
    PROVE  HooksPaced'
<1>0. w6' = w6 + 1 /\ UNCHANGED <<w4, w5, w7, req, plan>>
  BY DEF Hooks!Tick, Hooks!Pace
<1>1. HooksTimed(w4, w5, w6, w7) /\ HooksMeasured(w4, w5, w6, w7) /\ HooksLimited(w7)
  BY DEF HooksPaced
<1>2. w6 \in Nat /\ w6 + 1 \in Nat /\ Len(w7) \in Nat /\ Hooks!Full \in Nat
  BY <1>1, HooksDrawsAre, HooksFullIs
<1>3. HooksTimed(w4, w5, w6 + 1, w7)
  <2>1. \A b \in 1..Len(w5) : HooksCalm(w5[b], w6 + 1)
    BY <1>1, <1>2, HooksRefill DEF HooksTimed
  <2>2. \A i \in 1..Len(w7) : w7[i].at <= w6 + 1
    BY <1>1, <1>2, HooksDrawsAre
  <2> QED
    BY <1>1, <1>2, <2>1, <2>2 DEF HooksTimed
<1>4. HooksMeasured(w4, w5, w6 + 1, w7)
  <2> SUFFICES ASSUME NEW i \in 1..Len(w7)
               PROVE  2 * Cardinality(HooksWithin(w7, i, Len(w7))) + HooksTokens(w4, w5, w6 + 1, w7[i].hook)
                          <= Hooks!Full + (w6 + 1) - w7[i].at
    BY DEF HooksMeasured
  <2>1. 2 * Cardinality(HooksWithin(w7, i, Len(w7))) + HooksTokens(w4, w5, w6, w7[i].hook) <= Hooks!Full + w6 - w7[i].at
    BY <1>1 DEF HooksMeasured
  <2>2. Cardinality(HooksWithin(w7, i, Len(w7))) \in Nat
    BY <1>2, HooksWithinIs
  <2>3. /\ HooksTokens(w4, w5, w6, w7[i].hook) \in Nat
        /\ HooksTokens(w4, w5, w6 + 1, w7[i].hook) <= HooksTokens(w4, w5, w6, w7[i].hook) + 1
    BY <1>1, HooksTokensIs
  <2>4. HooksTokens(w4, w5, w6 + 1, w7[i].hook) \in Nat
    BY <1>3, HooksTokensIs
  <2>5. w7[i].at \in Nat /\ w7[i].at <= w6
    BY <1>1, HooksDrawsAre
  <2> DEFINE n == Cardinality(HooksWithin(w7, i, Len(w7)))
             x == HooksTokens(w4, w5, w6, w7[i].hook)
             y == HooksTokens(w4, w5, w6 + 1, w7[i].hook)
             s == w7[i].at
  <2>6. n \in Nat /\ x \in Nat /\ y \in Nat /\ s \in Nat /\ 2 * n + x <= Hooks!Full + w6 - s /\ y <= x + 1
    BY <2>1, <2>2, <2>3, <2>4, <2>5
  <2> HIDE DEF n, x, y, s
  <2>7. 2 * n + y <= Hooks!Full + (w6 + 1) - s
    BY <1>2, <2>6
  <2> QED
    BY <2>7 DEF n, y, s
<1>5. HooksDrawn'
  BY <1>0 DEF HooksPaced, HooksDrawn, HooksBucketFits, Hooks!Callers
<1>6. HooksTimed(w4, w5, w6, w7)' /\ HooksMeasured(w4, w5, w6, w7)' /\ HooksLimited(w7)'
  BY <1>0, <1>1, <1>3, <1>4, HooksPaceIs
<1> QED
  BY <1>5, <1>6 DEF HooksPaced

\* What the tokens of every webhook come to is what counts, not where they are kept.
LEMMA HooksSameTokens ==
    ASSUME NEW by, NEW buckets, NEW byn, NEW bucketsn, NEW t, NEW taken, HooksMeasured(by, buckets, t, taken),
           \A h : HooksTokens(byn, bucketsn, t, h) = HooksTokens(by, buckets, t, h)
    PROVE  HooksMeasured(byn, bucketsn, t, taken)
BY DEF HooksMeasured

LEMMA HooksPacedSweep ==
    ASSUME HooksPaced, Burst \in Nat, Hooks!Sweep
    PROVE  HooksPaced'
<1> DEFINE byn == Hooks!Without(w4, {h \in DOMAIN w4 : Hooks!Spent(w5[w4[h]])})
<1>0. w4' = byn /\ UNCHANGED <<w5, w6, w7, req, plan>>
  BY DEF Hooks!Sweep
<1>1. HooksTimed(w4, w5, w6, w7) /\ HooksMeasured(w4, w5, w6, w7) /\ HooksLimited(w7)
  BY DEF HooksPaced
<1>2. /\ DOMAIN byn \subseteq DOMAIN w4 /\ \A h \in DOMAIN byn : byn[h] = w4[h]
      /\ \A h \in DOMAIN w4 \ DOMAIN byn : Hooks!Tokens(w5[w4[h]]) >= Hooks!Full
  BY DEF Hooks!Without, Hooks!Spent
<1> HIDE DEF byn
<1>3. HooksTimed(byn, w5, w6, w7)
  BY <1>1, <1>2 DEF HooksTimed
<1>4. \A h : HooksTokens(byn, w5, w6, h) = HooksTokens(w4, w5, w6, h)
  <2> SUFFICES ASSUME NEW h \in DOMAIN w4 \ DOMAIN byn
               PROVE  HooksFilled(w5[w4[h]], w6) = Hooks!Full
    BY <1>2 DEF HooksTokens
  <2>1. HooksCalm(w5[w4[h]], w6) /\ w6 \in Nat
    BY <1>1 DEF HooksTimed
  <2>2. w5[w4[h]].tokens + (w6 - w5[w4[h]].at) >= Hooks!Full
    BY <1>2 DEF Hooks!Tokens
  <2> QED
    BY <2>1, <2>2, HooksRefill
<1>5. HooksMeasured(byn, w5, w6, w7)
  BY <1>1, <1>4, HooksSameTokens
<1>6. HooksDrawn'
  BY <1>0, <1>2 DEF HooksPaced, HooksDrawn, HooksBucketFits, Hooks!Callers
<1>7. HooksTimed(w4, w5, w6, w7)' /\ HooksMeasured(w4, w5, w6, w7)' /\ HooksLimited(w7)'
  BY <1>0, <1>1, <1>3, <1>5, HooksPaceIs
<1> QED
  BY <1>6, <1>7 DEF HooksPaced

LEMMA HooksPacedLookUp ==
    ASSUME HooksPaced, HooksTyped, NEW c \in Hooks!Callers, DOMAIN req[c] = HooksFields, Hooks!LookUp(c)
    PROVE  HooksPaced'
<1> DEFINE h == req[c].id
           fresh == Len(w5) + 1
<1>0. Burst \in Nat /\ DOMAIN req = Hooks!Callers /\ UNCHANGED <<plan, w6, w7>> /\ req[c].at = "pace"
  BY DEF HooksTyped, Hooks!LookUp
<1>1. HooksTimed(w4, w5, w6, w7) /\ HooksMeasured(w4, w5, w6, w7) /\ HooksLimited(w7) /\ HooksDrawn
  BY DEF HooksPaced
<1>2. w6 \in Nat /\ Len(w5) \in Nat /\ Hooks!Full \in Nat /\ h \in Nat /\ w5 \in Seq(HooksBuckets)
  BY <1>0, <1>1, HooksDrawsAre, HooksFullIs DEF HooksDrawn, HooksTimed
<1>3. CASE h \in DOMAIN w4
  <2>1. UNCHANGED <<w4, w5>> /\ req' = [req EXCEPT ![c].at = "take", ![c].bucket = w4[h]]
    BY <1>3 DEF Hooks!LookUp
  <2>2. /\ req'[c].at = "take" /\ req'[c].bucket = w4[h] /\ req'[c].id = h
        /\ \A d \in Hooks!Callers \ {c} : req'[d] = req[d]
    BY <1>0, <2>1 DEF HooksFields
  <2>3. w4[h] \in 1..Len(w5) /\ HooksBucketFits(h, w4[h])
    BY <1>1, <1>3 DEF HooksTimed, HooksBucketFits
  <2>4. HooksDrawn'
    BY <1>0, <1>1, <1>2, <2>1, <2>2, <2>3 DEF HooksDrawn, HooksBucketFits, Hooks!Callers
  <2>5. HooksTimed(w4, w5, w6, w7)' /\ HooksMeasured(w4, w5, w6, w7)' /\ HooksLimited(w7)'
    BY <1>0, <1>1, <2>1, HooksPaceIs
  <2> QED
    BY <2>4, <2>5 DEF HooksPaced
<1>4. CASE h \notin DOMAIN w4
  <2> DEFINE byn == Hooks!With(w4, h, fresh)
             new == [tokens |-> Hooks!Full, at |-> w6]
             bucketsn == Append(w5, new)
  <2>1. w4' = byn /\ w5' = bucketsn /\ req' = [req EXCEPT ![c].at = "take", ![c].bucket = fresh]
    BY <1>4 DEF Hooks!LookUp
  <2>2. /\ req'[c].at = "take" /\ req'[c].bucket = fresh /\ req'[c].id = h
        /\ \A d \in Hooks!Callers \ {c} : req'[d] = req[d]
    BY <1>0, <2>1 DEF HooksFields
  <2>3. DOMAIN byn = DOMAIN w4 \cup {h} /\ byn[h] = fresh /\ \A k \in DOMAIN w4 : byn[k] = w4[k]
    BY <1>4 DEF Hooks!With
  <2>4. new \in HooksBuckets /\ HooksCalm(new, w6) /\ HooksFilled(new, w6) = Hooks!Full
    BY <1>2 DEF HooksBuckets, HooksCalm, HooksFilled
  <2>5. /\ bucketsn \in Seq(HooksBuckets) /\ Len(bucketsn) = Len(w5) + 1 /\ bucketsn[fresh] = new
        /\ \A b \in 1..Len(w5) : bucketsn[b] = w5[b]
    BY <1>2, <2>4
  <2> HIDE DEF byn, new, bucketsn
  <2>6. \A b \in 1..Len(bucketsn) : HooksCalm(bucketsn[b], w6)
    BY <1>1, <1>2, <2>4, <2>5 DEF HooksTimed
  <2>7. \A k \in DOMAIN w4 : w4[k] \in 1..Len(w5) /\ w4[k] # fresh
    BY <1>1, <1>2 DEF HooksTimed
  <2>8. HooksTimed(byn, bucketsn, w6, w7)
    BY <1>1, <1>2, <2>3, <2>5, <2>6, <2>7 DEF HooksTimed
  <2>9. \A k : HooksTokens(byn, bucketsn, w6, k) = HooksTokens(w4, w5, w6, k)
    BY <1>4, <2>3, <2>4, <2>5, <2>7 DEF HooksTokens
  <2>10. HooksMeasured(byn, bucketsn, w6, w7)
    BY <1>1, <2>9, HooksSameTokens
  <2>11. HooksDrawn'
    <3> SUFFICES ASSUME NEW d \in Hooks!Callers
                 PROVE  /\ req'[d].at \in {"load", "pace", "take"} => req'[d].id \in Nat
                        /\ req'[d].at = "take" =>
                              req'[d].bucket \in 1..Len(bucketsn) /\ \A k \in DOMAIN byn : byn[k] = req'[d].bucket => k = req'[d].id
      BY <1>0, <2>1 DEF HooksDrawn, HooksBucketFits, Hooks!Callers
    <3>1. CASE d = c
      BY <1>2, <2>2, <2>3, <2>5, <2>7, <3>1
    <3>2. CASE d # c
      BY <1>1, <1>2, <2>2, <2>3, <2>5, <3>2 DEF HooksDrawn, HooksBucketFits
    <3> QED
      BY <3>1, <3>2
  <2>12. HooksTimed(w4, w5, w6, w7)' /\ HooksMeasured(w4, w5, w6, w7)' /\ HooksLimited(w7)'
    BY <1>0, <1>1, <2>1, <2>8, <2>10, HooksPaceIs
  <2> QED
    BY <2>11, <2>12 DEF HooksPaced
<1> QED
  BY <1>3, <1>4

\* What is counted once one more is taken.
HooksOneMore(taken, d, more, n, i) ==
    /\ \A j \in 1..Len(taken) : i <= j => HooksWithin(more, i, j) = HooksWithin(taken, i, j)
    /\ i <= Len(taken) => Cardinality(HooksWithin(more, i, n)) =
          Cardinality(HooksWithin(taken, i, Len(taken))) + (IF taken[i].hook = d.hook /\ ~d.stray THEN 1 ELSE 0)
    /\ i = n => Cardinality(HooksWithin(more, i, n)) = IF d.stray THEN 0 ELSE 1
LEMMA HooksWithinGrows ==
    ASSUME NEW taken \in Seq(HooksDraws), NEW d \in HooksDraws, NEW more, more = Append(taken, d),
           NEW n, n = Len(taken) + 1, NEW i \in 1..n
    PROVE  HooksOneMore(taken, d, more, n, i)
<1> DEFINE L == Len(taken)
<1>1. L \in Nat /\ n = L + 1 /\ Len(more) = n /\ more[n] = d /\ \A k \in 1..L : more[k] = taken[k]
  OBVIOUS
<1> HIDE DEF L
<1>2. \A j \in 1..L : i <= j => HooksWithin(more, i, j) = HooksWithin(taken, i, j)
  BY <1>1 DEF HooksWithin, L
<1>3. ASSUME i <= L
      PROVE  Cardinality(HooksWithin(more, i, n)) =
                     Cardinality(HooksWithin(taken, i, L)) + (IF taken[i].hook = d.hook /\ ~d.stray THEN 1 ELSE 0)
  <2>1. i \in 1..L
    BY <1>1, <1>3 DEF L
  <2>2. CASE taken[i].hook = d.hook /\ ~d.stray
    <3>1. HooksWithin(more, i, n) = HooksWithin(taken, i, L) \cup {n}
      BY <1>1, <2>1, <2>2 DEF HooksWithin
    <3>2. n \notin HooksWithin(taken, i, L)
      BY <1>1, <2>1 DEF HooksWithin
    <3>3. IsFiniteSet(HooksWithin(taken, i, L))
      BY <1>1, <2>1, HooksWithinIs
    <3>4. Cardinality(HooksWithin(taken, i, L) \cup {n}) = Cardinality(HooksWithin(taken, i, L)) + 1
      BY <3>2, <3>3, FS_AddElement
    <3> QED
      BY <2>2, <3>1, <3>4
  <2>3. CASE ~(taken[i].hook = d.hook /\ ~d.stray)
    <3>1. HooksWithin(more, i, n) = HooksWithin(taken, i, L)
      BY <1>1, <2>1, <2>3 DEF HooksWithin
    <3>2. Cardinality(HooksWithin(taken, i, L)) \in Nat
      BY <1>1, <2>1, HooksWithinIs
    <3> QED
      BY <2>3, <3>1, <3>2
  <2> QED
    BY <2>2, <2>3
<1>4. ASSUME i = n
      PROVE  Cardinality(HooksWithin(more, i, n)) = IF d.stray THEN 0 ELSE 1
  <2>1. d.stray \in BOOLEAN
    BY DEF HooksDraws
  <2>2. CASE d.stray
    <3>1. HooksWithin(more, i, n) = {}
      BY <1>1, <1>4, <2>2 DEF HooksWithin
    <3> QED
      BY <2>2, <3>1, FS_EmptySet
  <2>3. CASE ~d.stray
    <3>1. HooksWithin(more, i, n) = {n}
      BY <1>1, <1>4, <2>3 DEF HooksWithin
    <3> QED
      BY <2>3, <3>1, FS_Singleton
  <2> QED
    BY <2>1, <2>2, <2>3
<1> QED
  BY <1>2, <1>3, <1>4 DEF L, HooksOneMore

LEMMA HooksPacedTake ==
    ASSUME HooksPaced, HooksTyped, NEW c \in Hooks!Callers, DOMAIN req[c] = HooksFields, Hooks!Take(c)
    PROVE  HooksPaced'
<1> DEFINE h == req[c].id
           b == req[c].bucket
           tokens == HooksFilled(w5[b], w6)
           stray == ~(h \in DOMAIN w4 /\ w4[h] = b)
           drawn == ~(tokens < 2)
           bucket == [tokens |-> IF drawn THEN tokens - 2 ELSE tokens, at |-> w6]
           bucketsn == [w5 EXCEPT ![b] = bucket]
           d == [hook |-> h, at |-> w6, stray |-> stray]
           L == Len(w7)
<1>0. Burst \in Nat /\ DOMAIN req = Hooks!Callers /\ UNCHANGED <<plan, w4, w6>> /\ req[c].at = "take"
  BY DEF HooksTyped, Hooks!Take
<1>1. HooksTimed(w4, w5, w6, w7) /\ HooksMeasured(w4, w5, w6, w7) /\ HooksLimited(w7) /\ HooksDrawn
  BY DEF HooksPaced
<1>2. /\ w6 \in Nat /\ Len(w5) \in Nat /\ L \in Nat /\ Hooks!Full \in Nat /\ h \in Nat /\ w5 \in Seq(HooksBuckets)
      /\ w7 \in Seq(HooksDraws) /\ b \in 1..Len(w5) /\ HooksBucketFits(h, b)
  BY <1>0, <1>1, HooksDrawsAre, HooksFullIs DEF HooksDrawn, HooksTimed
<1>3. HooksCalm(w5[b], w6)
  BY <1>1, <1>2 DEF HooksTimed
<1>4. tokens \in Nat /\ tokens <= Hooks!Full
  BY <1>0, <1>2, <1>3, HooksRefill
<1>5. /\ w5' = bucketsn
      /\ IF drawn THEN w7' = Append(w7, d) ELSE w7' = w7
      /\ \A q \in Hooks!Callers \ {c} : req'[q] = req[q]
      /\ req'[c].at \notin {"load", "pace", "take"}
  <2>1. Hooks!Refilled(w5[b]) = tokens
    BY HooksRefilledIs
  <2>2. CASE tokens < 2
    <3>1. /\ w5' = [w5 EXCEPT ![b] = [tokens |-> tokens, at |-> w6]] /\ w7' = w7
          /\ req' = [req EXCEPT ![c] = Hooks!Free]
      BY <2>1, <2>2 DEF Hooks!Take, Hooks!Done
    <3>2. bucketsn = [w5 EXCEPT ![b] = [tokens |-> tokens, at |-> w6]]
      BY <2>2
    <3>3. Hooks!Free.at = "free"
      BY DEF Hooks!Free
    <3> HIDE DEF bucketsn
    <3> QED
      BY <1>0, <2>2, <3>1, <3>2, <3>3
  <2>3. CASE ~(tokens < 2)
    BY <1>0, <2>1, <2>3 DEF Hooks!Take, Hooks!Move, HooksFields
  <2> QED
    BY <2>2, <2>3
<1>6. /\ bucket.tokens \in Nat /\ bucket.tokens <= Hooks!Full /\ bucket \in HooksBuckets /\ HooksCalm(bucket, w6)
      /\ HooksFilled(bucket, w6) = IF drawn THEN tokens - 2 ELSE tokens
  <2>1. bucket.tokens \in Nat /\ bucket.tokens <= Hooks!Full /\ bucket.at = w6 /\ bucket \in HooksBuckets
    BY <1>2, <1>4 DEF HooksBuckets
  <2>2. bucket.tokens = IF drawn THEN tokens - 2 ELSE tokens
    OBVIOUS
  <2> HIDE DEF bucket, drawn, tokens
  <2>3. HooksCalm(bucket, w6)
    BY <1>2, <2>1 DEF HooksCalm
  <2> QED
    BY <1>0, <1>2, <2>1, <2>2, <2>3, HooksRefill
<1>7. /\ bucketsn \in Seq(HooksBuckets) /\ Len(bucketsn) = Len(w5) /\ bucketsn[b] = bucket
      /\ \A k \in 1..Len(w5) : k # b => bucketsn[k] = w5[k]
  BY <1>2, <1>6
<1>8. d \in HooksDraws /\ d.hook = h /\ d.at = w6 /\ d.stray = stray
  BY <1>2 DEF HooksDraws
<1>9. \A k \in DOMAIN w4 : w4[k] \in 1..Len(w5)
  BY <1>1 DEF HooksTimed
<1>10. /\ \A k : k # h \/ stray => HooksTokens(w4, bucketsn, w6, k) = HooksTokens(w4, w5, w6, k)
       /\ ~stray => HooksTokens(w4, bucketsn, w6, h) = HooksFilled(bucket, w6) /\ HooksTokens(w4, w5, w6, h) = tokens
  <2> HIDE DEF bucketsn, bucket, d, L, drawn
  <2> QED
    BY <1>2, <1>7, <1>9 DEF HooksTokens, HooksBucketFits
<1> HIDE DEF bucketsn, bucket, d
<1>11. \A k \in 1..Len(bucketsn) : HooksCalm(bucketsn[k], w6)
  BY <1>1, <1>2, <1>6, <1>7 DEF HooksTimed
<1>12. HooksDrawn'
  <2>1. \A q \in Hooks!Callers : req'[q].at \in {"load", "pace", "take"} => q # c
    BY <1>5
  <2> QED
    BY <1>0, <1>1, <1>5, <1>7, <2>1 DEF HooksDrawn, HooksBucketFits, Hooks!Callers
<1>13. CASE ~drawn
  <2>1. HooksTimed(w4, bucketsn, w6, w7)
    BY <1>1, <1>7, <1>11 DEF HooksTimed
  <2>2. \A k : HooksTokens(w4, bucketsn, w6, k) = HooksTokens(w4, w5, w6, k)
    BY <1>6, <1>10, <1>13
  <2>3. HooksMeasured(w4, bucketsn, w6, w7)
    BY <1>1, <2>2, HooksSameTokens
  <2> QED
    BY <1>0, <1>1, <1>5, <1>12, <1>13, <2>1, <2>3, HooksPaceIs DEF HooksPaced
<1>14. CASE drawn
  <2> DEFINE more == Append(w7, d)
             n == L + 1
  <2>0. more = Append(w7, d) /\ n = Len(w7) + 1
    OBVIOUS
  <2>1. more \in Seq(HooksDraws) /\ Len(more) = n /\ more[n] = d /\ \A k \in 1..L : more[k] = w7[k]
    BY <1>2, <1>8
  <2>3. \A i \in 1..n :
            /\ \A j \in 1..L : i <= j => HooksWithin(more, i, j) = HooksWithin(w7, i, j)
            /\ i <= L => Cardinality(HooksWithin(more, i, n)) =
                  Cardinality(HooksWithin(w7, i, L)) + (IF w7[i].hook = h /\ ~stray THEN 1 ELSE 0)
            /\ i = n => Cardinality(HooksWithin(more, i, n)) = IF stray THEN 0 ELSE 1
    <3> HIDE DEF more, n, h, stray
    <3>1. ASSUME NEW i \in 1..n
          PROVE  HooksOneMore(w7, d, more, n, i)
      <4>1. w7 \in Seq(HooksDraws) /\ d \in HooksDraws /\ more = Append(w7, d) /\ n = Len(w7) + 1
        BY <1>2, <1>8, <2>0
      <4> HIDE DEF L, tokens, drawn, b
      <4> QED
        BY <4>1, HooksWithinGrows
    <3> QED
      BY <1>8, <3>1 DEF HooksOneMore
  <2> HIDE DEF more
  <2>4. \A i \in 1..L : w7[i].at \in Nat /\ w7[i].at <= w6
    BY <1>1, HooksDrawsAre DEF L
  <2>5. HooksTimed(w4, bucketsn, w6, more)
    <3>1. \A i \in 1..n : more[i].at <= w6
      BY <1>2, <1>8, <2>1, <2>4
    <3>2. \A i, j \in 1..n : i <= j => more[i].at <= more[j].at
      <4> SUFFICES ASSUME NEW i \in 1..n, NEW j \in 1..n, i <= j
                   PROVE  more[i].at <= more[j].at
        OBVIOUS
      <4>1. CASE j = n
        BY <1>2, <1>8, <2>1, <3>1, <4>1
      <4>2. CASE j # n
        <5>1. i \in 1..L /\ j \in 1..L
          BY <1>2, <4>2
        <5> QED
          BY <1>1, <2>1, <5>1 DEF HooksTimed
      <4> QED
        BY <4>1, <4>2
    <3> QED
      BY <1>1, <1>7, <1>11, <2>1, <3>1, <3>2 DEF HooksTimed
  <2>6. \A k : HooksTokens(w4, bucketsn, w6, k) \in Nat /\ HooksTokens(w4, bucketsn, w6, k) <= Hooks!Full
    BY <1>0, <2>5, HooksTokensIs
  <2>7. HooksMeasured(w4, bucketsn, w6, more)
    <3> SUFFICES ASSUME NEW i \in 1..n
                 PROVE  2 * Cardinality(HooksWithin(more, i, n)) + HooksTokens(w4, bucketsn, w6, more[i].hook)
                            <= Hooks!Full + w6 - more[i].at
      BY <2>1 DEF HooksMeasured
    <3>1. CASE i = n
      <4>1. more[i].hook = h /\ more[i].at = w6
        BY <1>8, <2>1, <3>1
      <4>2. Cardinality(HooksWithin(more, i, n)) = IF stray THEN 0 ELSE 1
        BY <2>3, <3>1
      <4>3. CASE stray
        BY <1>2, <2>6, <4>1, <4>2, <4>3
      <4>4. CASE ~stray
        <5>1. HooksTokens(w4, bucketsn, w6, h) = tokens - 2
          BY <1>6, <1>10, <1>14, <4>4
        <5> HIDE DEF tokens, h, stray, n
        <5> QED
          BY <1>2, <1>4, <4>1, <4>2, <4>4, <5>1
      <4> QED
        BY <4>3, <4>4
    <3>2. CASE i # n
      <4>0. i \in 1..L /\ more[i] = w7[i]
        BY <1>2, <2>1, <3>2
      <4> DEFINE m == Cardinality(HooksWithin(w7, i, L))
                 x == HooksTokens(w4, w5, w6, w7[i].hook)
                 y == HooksTokens(w4, bucketsn, w6, w7[i].hook)
                 s == w7[i].at
      <4>1. 2 * m + x <= Hooks!Full + w6 - s
        BY <1>1, <4>0 DEF HooksMeasured
      <4>2. m \in Nat /\ s \in Nat /\ y \in Nat
        BY <1>2, <2>4, <2>6, <4>0, HooksWithinIs
      <4>3. x \in Nat
        BY <1>0, <1>1, HooksTokensIs
      <4>4. CASE w7[i].hook = h /\ ~stray
        <5>1. Cardinality(HooksWithin(more, i, n)) = m + 1
          BY <1>2, <2>3, <4>0, <4>4
        <5>2. y = tokens - 2 /\ x = tokens
          BY <1>6, <1>10, <1>14, <4>4
        <5> HIDE DEF m, x, y, s, tokens, n
        <5>3. 2 * (m + 1) + y <= Hooks!Full + w6 - s
          BY <1>2, <1>4, <4>1, <4>2, <4>3, <5>2
        <5> QED
          BY <4>0, <5>1, <5>3 DEF y, s
      <4>5. CASE ~(w7[i].hook = h /\ ~stray)
        <5>1. Cardinality(HooksWithin(more, i, n)) = m
          BY <1>2, <2>3, <4>0, <4>2, <4>5
        <5>2. y = x
          BY <1>10, <4>5
        <5> QED
          BY <4>0, <4>1, <5>1, <5>2
      <4> QED
        BY <4>4, <4>5
    <3> QED
      BY <3>1, <3>2
  <2>8. HooksLimited(more)
    <3> SUFFICES ASSUME NEW i \in 1..n, NEW j \in i..n
                 PROVE  2 * Cardinality(HooksWithin(more, i, j)) <= Hooks!Full + more[j].at - more[i].at
      BY <2>1 DEF HooksLimited
    <3>1. CASE j = n
      <4> DEFINE m == Cardinality(HooksWithin(more, i, n))
                 x == HooksTokens(w4, bucketsn, w6, more[i].hook)
      <4>1. 2 * m + x <= Hooks!Full + w6 - more[i].at
        BY <2>1, <2>7 DEF HooksMeasured
      <4>2. m \in Nat /\ x \in Nat /\ more[n].at = w6
        BY <1>2, <1>8, <2>1, <2>6, HooksWithinIs
      <4>3. more[i].at \in Nat
        BY <1>2, <1>8, <2>1, <2>4
      <4> HIDE DEF m, x
      <4>4. 2 * m <= Hooks!Full + w6 - more[i].at
        <5> DEFINE e == Hooks!Full + w6 - more[i].at
        <5>1. e \in Int /\ 2 * m + x <= e
          BY <1>2, <4>1, <4>3
        <5> HIDE DEF e
        <5>2. 2 * m <= e
          BY <4>2, <5>1
        <5> QED
          BY <5>2 DEF e
      <4> QED
        BY <3>1, <4>2, <4>4 DEF m
    <3>2. CASE j # n
      <4>1. i \in 1..L /\ j \in i..L /\ j \in 1..L /\ i <= j
        BY <1>2, <3>2
      <4>2. HooksWithin(more, i, j) = HooksWithin(w7, i, j)
        BY <2>3, <4>1
      <4>3. 2 * Cardinality(HooksWithin(w7, i, j)) <= Hooks!Full + w7[j].at - w7[i].at
        BY <1>1, <4>1 DEF HooksLimited
      <4> QED
        BY <2>1, <4>1, <4>2, <4>3
    <3> QED
      BY <3>1, <3>2
  <2> QED
    BY <1>0, <1>5, <1>12, <1>14, <2>5, <2>7, <2>8, HooksPaceIs DEF HooksPaced, more
<1> QED
  BY <1>13, <1>14

\* What a step of one request leaves to the others.
HooksOthers(c) ==
    /\ \A d \in Hooks!Callers \ {c} : req'[d] = req[d]
    /\ last.msg \in Nat /\ last'.msg \in Nat /\ last.msg <= last'.msg
    /\ DOMAIN w8' = 1..last'.msg /\ \A m \in DOMAIN w8 : w8'[m] = w8[m]
    /\ \A m \in DOMAIN w8' \ DOMAIN w8 : \A f \in w8'[m] : f[2] = c
    /\ Len(w7) \in Nat /\ Len(w7') \in Nat /\ Len(w7) <= Len(w7')
    /\ \A m \in DOMAIN w2' : m \in DOMAIN w8 => m \in DOMAIN w2
    /\ \A d \in Hooks!Callers \ {c} : req[d].at \in HooksUnsure =>
            /\ req[d].msg \notin DOMAIN shown'
            /\ req[d].msg \in DOMAIN w2' => req[d].msg \in DOMAIN w2 /\ w2'[req[d].msg] = w2[req[d].msg]

LEMMA HooksOthersFit ==
    ASSUME HooksKept, NEW c, HooksOthers(c), NEW d \in Hooks!Callers \ {c}
    PROVE  HooksFit(d, req[d])'
<1> DEFINE r == req[d]
<1>0. /\ HooksFit(d, r) /\ req'[d] = r /\ DOMAIN w8 = 1..last.msg /\ last.msg \in Nat /\ last'.msg \in Nat
      /\ last.msg <= last'.msg /\ d # c
      /\ (r.at \in {"read", "insert"} => \A f \in r.files : f[1] \in Nat /\ f[1] <= Len(w7))
  BY DEF HooksOthers, HooksKept, HooksTyped, HooksNamed
<1>1. /\ r.msg \in 0..last.msg /\ r.msg \in 0..last'.msg /\ (r.msg # 0 => r.msg \in DOMAIN w8)
      /\ DOMAIN r = HooksFields /\ r.read \in Nat
  BY <1>0 DEF HooksFit
<1>2. DOMAIN w8' = 1..last'.msg /\ \A m \in DOMAIN w8 : w8'[m] = w8[m]
  BY DEF HooksOthers
<1>3. /\ r.msg \in DOMAIN w8 /\ r.msg \in DOMAIN w2' => r.msg \in DOMAIN w2
      /\ r.at \in HooksUnsure => /\ r.msg \notin DOMAIN shown'
                                 /\ r.msg \in DOMAIN w2' => w2'[r.msg] = w2[r.msg]
  BY DEF HooksOthers
<1>4. ASSUME r.at \in {"read", "insert"}
      PROVE  /\ \A f \in r.files : f[2] = d
             /\ \A m \in DOMAIN w8' : r.files \cap w8'[m] = {}
  <2>1. \A f \in r.files : f[2] = d
    BY <1>0, <1>4 DEF HooksFit
  <2>2. \A m \in DOMAIN w8 : r.files \cap w8'[m] = {}
    BY <1>0, <1>2, <1>4 DEF HooksFit
  <2>3. \A m \in DOMAIN w8' \ DOMAIN w8 : r.files \cap w8'[m] = {}
    BY <1>0, <2>1 DEF HooksOthers
  <2> QED
    BY <2>1, <2>2, <2>3
<1>5. ASSUME r.at = "read"
      PROVE  /\ \A f \in r.files : f[3] \in Nat /\ f[3] <= r.read
             /\ \A m \in DOMAIN w8' : \A f \in w8'[m] : f[2] = d => f[1] < Len(w7')
  <2>1. \A m \in DOMAIN w8 : \A f \in w8[m] : f[2] = d => f[1] < Len(w7)
    BY <1>0, <1>5 DEF HooksFit
  <2>2. \A m \in DOMAIN w8 : \A f \in w8[m] : f[1] \in Nat
    BY DEF HooksKept, HooksNamed
  <2>3. Len(w7) \in Nat /\ Len(w7') \in Nat /\ Len(w7) <= Len(w7')
    BY DEF HooksOthers
  <2>4. \A m \in DOMAIN w8 : \A f \in w8'[m] : f[2] = d => f[1] < Len(w7')
    BY <1>2, <2>1, <2>2, <2>3
  <2>5. \A m \in DOMAIN w8' \ DOMAIN w8 : \A f \in w8'[m] : f[2] # d
    BY <1>0 DEF HooksOthers
  <2> QED
    BY <1>0, <1>5, <2>4, <2>5 DEF HooksFit
<1>6. r.at \in {"bind", "rollback", "tell"} => r.msg # 0 /\ w8'[r.msg] = r.files
  BY <1>0, <1>1, <1>2 DEF HooksFit
<1>7. /\ r.at \in HooksUnsure => r.msg \notin DOMAIN shown' /\ (r.msg \in DOMAIN w2' => w2'[r.msg].files = {})
      /\ r.at = "bind" /\ r.msg \in DOMAIN w2' => ~Hooks!Empty(w2'[r.msg].text, w2'[r.msg].embeds, r.files)
  BY <1>0, <1>1, <1>3 DEF HooksFit, HooksUnsure
<1>8. r.at \in {"write", "retell", "remove"} /\ r.msg \in DOMAIN w2' => r.held = w8'[r.msg]
  BY <1>0, <1>1, <1>2, <1>3 DEF HooksFit
<1>9. /\ r.at \in {"load", "pace", "take"} => r.files = {}
      /\ r.at \in {"pace", "take"} => r.op \in {"deliver", "edit"}
      /\ r.at = "tell" => r.held = r.files
      /\ r.at = "write" => ~Hooks!Empty(r.text, r.embeds, r.held)
      /\ r.at \in {"load", "patch", "write", "retell", "files", "remove", "gone"} \/ r.op = "edit" => r.msg # 0
  BY <1>0 DEF HooksFit
<1>10. req'[d] = r /\ HooksUnsure' = HooksUnsure /\ HooksFields' = HooksFields
  BY <1>0 DEF HooksUnsure, HooksFields
<1> HIDE DEF r
<1>11. r.at = "read" => /\ \A f \in r.files : f[3] \in Nat /\ f[3] <= r.read
                       /\ \A m \in DOMAIN w8' : \A f \in w8'[m] : f[2] = d => f[1] < Len(w7')
  BY <1>5
<1>12. r.at \in {"read", "insert"} => /\ \A f \in r.files : f[2] = d
                                      /\ \A m \in DOMAIN w8' : r.files \cap w8'[m] = {}
  BY <1>4
<1>13. DOMAIN r = HooksFields /\ r.read \in Nat /\ r.msg \in 0..last'.msg
  BY <1>1
<1>14. HooksFit(d, req[d])'
  <2>1. DOMAIN req'[d] = HooksFields /\ req'[d].read \in Nat /\ req'[d].msg \in 0..last'.msg
    BY <1>10, <1>13
  <2>2. req'[d].at \in {"load", "pace", "take"} => req'[d].files = {}
    BY <1>9, <1>10
  <2>3. req'[d].at \in {"pace", "take"} => req'[d].op \in {"deliver", "edit"}
    BY <1>9, <1>10
  <2>4. req'[d].at \in {"read", "insert"} =>
        /\ \A f \in req'[d].files : f[2] = d
        /\ \A m \in DOMAIN w8' : req'[d].files \cap w8'[m] = {}
    BY <1>12, <1>10
  <2>5. req'[d].at = "read" =>
        /\ \A f \in req'[d].files : f[3] \in Nat /\ f[3] <= req'[d].read
        /\ \A m \in DOMAIN w8' : \A f \in w8'[m] : f[2] = d => f[1] < Len(w7')
    BY <1>11, <1>10
  <2>6. req'[d].at \in {"bind", "rollback", "tell"} => req'[d].msg # 0 /\ w8'[req'[d].msg] = req'[d].files
    BY <1>6, <1>10
  <2>7. req'[d].at \in HooksUnsure => req'[d].msg \notin DOMAIN shown' /\ (req'[d].msg \in DOMAIN w2' => w2'[req'[d].msg].files = {})
    BY <1>7, <1>10
  <2>8. req'[d].at = "bind" /\ req'[d].msg \in DOMAIN w2' => ~Hooks!Empty(w2'[req'[d].msg].text, w2'[req'[d].msg].embeds, req'[d].files)
    BY <1>7, <1>10 DEF Hooks!Empty
  <2>9. /\ req'[d].at = "tell" => req'[d].held = req'[d].files
        /\ req'[d].at = "write" => ~Hooks!Empty(req'[d].text, req'[d].embeds, req'[d].held)
        /\ req'[d].at \in {"load", "patch", "write", "retell", "files", "remove", "gone"} \/ req'[d].op = "edit" => req'[d].msg # 0
    BY <1>9, <1>10 DEF Hooks!Empty
  <2>10. req'[d].at \in {"write", "retell", "remove"} /\ req'[d].msg \in DOMAIN w2' => req'[d].held = w8'[req'[d].msg]
    BY <1>8, <1>10
  <2> QED
    BY <2>1, <2>2, <2>3, <2>4, <2>5, <2>6, <2>7, <2>8, <2>9, <2>10, <1>10 DEF HooksFit, Hooks!Empty
<1> QED
  BY <1>14

LEMMA HooksApartStays ==
    ASSUME HooksKept, Hooks!Callers' = Hooks!Callers, NEW c \in Hooks!Callers, HooksOthers(c),
           req'[c].msg \in {0, req[c].msg, last.msg + 1} \cup DOMAIN shown,
           req'[c].at \in HooksUnsure =>
                \/ req[c].at \in HooksUnsure /\ req'[c].msg = req[c].msg
                \/ req'[c].msg = last.msg + 1
    PROVE  HooksApart'
<1>1. /\ \A d \in Hooks!Callers : req[d].msg \in 0..last.msg
      /\ \A d \in Hooks!Callers : req[d].at \in HooksUnsure => req[d].msg # 0 /\ req[d].msg \notin DOMAIN shown
      /\ HooksApart /\ last.msg \in Nat
  BY DEF HooksKept, HooksFit, HooksUnsure, HooksTyped
<1>2. \A d \in Hooks!Callers \ {c} : req'[d] = req[d]
  BY DEF HooksOthers
<1>3. ASSUME NEW d \in Hooks!Callers \ {c}, req'[c].at \in HooksUnsure
      PROVE  req'[d].msg # req'[c].msg
  BY <1>1, <1>2, <1>3 DEF HooksApart
<1>4. ASSUME NEW d \in Hooks!Callers \ {c}, req'[d].at \in HooksUnsure
      PROVE  req'[c].msg # req'[d].msg
  BY <1>1, <1>2, <1>4 DEF HooksApart
<1>5. ASSUME NEW d \in Hooks!Callers \ {c}, NEW e \in Hooks!Callers \ {c}, d # e, req'[d].at \in HooksUnsure
      PROVE  req'[e].msg # req'[d].msg
  BY <1>1, <1>2, <1>5 DEF HooksApart
<1>6. \A d, e \in Hooks!Callers : d # e /\ req'[d].at \in HooksUnsure => req'[e].msg # req'[d].msg
  BY <1>3, <1>4, <1>5
<1> QED
  BY <1>6 DEF HooksApart, HooksUnsure

LEMMA HooksAllFit ==
    ASSUME HooksKept, Hooks!Callers' = Hooks!Callers, NEW c \in Hooks!Callers, HooksOthers(c), HooksFit(c, req[c])'
    PROVE  \A d \in Hooks!Callers' : HooksFit(d, req[d])'
<1>1. \A d \in Hooks!Callers \ {c} : HooksFit(d, req[d])'
  BY HooksOthersFit
<1> QED
  BY <1>1

\* A step that leaves the messages, the disk and what is shown as they are.
HooksQuiet(c) ==
    /\ UNCHANGED <<plan, w2, w3, w8, shown>> /\ last'.msg = last.msg
    /\ Len(w7') \in Nat /\ Len(w7) <= Len(w7')
    /\ \A d \in Hooks!Callers \ {c} : req'[d] = req[d]
    /\ req[c].at \notin HooksUnsure /\ req'[c].at \notin HooksUnsure
    /\ req[c].at \in HooksHolding => req'[c].at \in HooksHolding /\ req'[c].files = req[c].files
    /\ req'[c].at \in HooksHolding => req'[c].files = {} \/ req[c].at \in HooksHolding
    /\ req'[c].msg \in {0, req[c].msg} \cup DOMAIN shown

LEMMA HooksQuietStays ==
    ASSUME HooksKept, Len(w7) \in Nat, NEW c \in Hooks!Callers, HooksQuiet(c), HooksFit(c, req[c])', HooksTyped'
    PROVE  HooksKept'
<1>0. /\ HooksTyped /\ HooksMessages /\ HooksNamed /\ HooksStored /\ HooksApart
      /\ \A d \in Hooks!Callers : HooksFit(d, req[d])
  BY DEF HooksKept
<1>1. Hooks!Callers' = Hooks!Callers
  BY DEF HooksQuiet, Hooks!Callers
<1>2. UNCHANGED <<plan, w2, w3, w8, shown>> /\ last'.msg = last.msg
  BY DEF HooksQuiet
<1>3. HooksOthers(c)
  BY <1>0, <1>2 DEF HooksQuiet, HooksOthers, HooksTyped, HooksFit
<1>4. HooksApart'
  BY <1>1, <1>3, HooksApartStays DEF HooksQuiet
<1>5. \A d \in Hooks!Callers' : HooksFit(d, req[d])'
  BY <1>1, <1>3, HooksAllFit
<1>6. HooksMessages'
  <2>1. \A m : HooksSettled(m)' = HooksSettled(m)
    BY <1>2 DEF HooksSettled, Hooks!Empty
  <2>2. \A d \in Hooks!Callers : req[d].at \in HooksUnsure => req'[d] = req[d]
    BY DEF HooksQuiet
  <2>3. ASSUME NEW m \in DOMAIN w2, ~HooksSettled(m)
        PROVE  \E d \in Hooks!Callers : req'[d].at \in HooksUnsure /\ req'[d].msg = m
    BY <1>0, <2>2, <2>3 DEF HooksMessages
  <2>4. \A m \in DOMAIN w2 : HooksSettled(m)' \/ \E d \in Hooks!Callers : req'[d].at \in HooksUnsure /\ req'[d].msg = m
    BY <2>1, <2>3
  <2>5. \A m \in DOMAIN w2' : HooksSettled(m)' \/ \E d \in Hooks!Callers' : (req[d].at \in HooksUnsure /\ req[d].msg = m)'
    BY <1>1, <1>2, <2>4 DEF HooksUnsure
  <2>6. \A m \in DOMAIN shown' : m \in DOMAIN w2' => shown'[m].files = w8'[m]
    BY <1>0, <1>2 DEF HooksMessages
  <2> QED
    BY <2>5, <2>6 DEF HooksMessages
<1>7. HooksNamed'
  <2>1. Len(w7) \in Nat /\ Len(w7') \in Nat /\ Len(w7) <= Len(w7')
    BY DEF HooksQuiet
  <2>2. \A m \in DOMAIN w8 : \A f \in w8[m] : f[1] \in Nat /\ f[1] <= Len(w7')
    BY <1>0, <2>1 DEF HooksNamed
  <2>3. ASSUME NEW d \in Hooks!Callers, req'[d].at \in {"read", "insert"}, NEW f \in req'[d].files
        PROVE  f[1] \in Nat /\ f[1] <= Len(w7')
    <3>1. req[d].at \in HooksHolding /\ f \in req[d].files /\ req[d].at \notin HooksUnsure
      BY <2>3 DEF HooksQuiet, HooksHolding, HooksUnsure
    <3>2. req[d].at \in {"read", "insert"}
      BY <3>1 DEF HooksHolding, HooksUnsure
    <3> QED
      BY <1>0, <2>1, <3>1, <3>2 DEF HooksNamed
  <2> QED
    BY <1>0, <1>1, <1>2, <2>2, <2>3 DEF HooksNamed
<1>8. HooksStored'
  <2>1. \A d \in Hooks!Callers : \A f : req'[d].at \in HooksHolding /\ f \in req'[d].files
                                 <=> req[d].at \in HooksHolding /\ f \in req[d].files
    BY DEF HooksQuiet
  <2> QED
    BY <1>0, <1>1, <1>2, <2>1 DEF HooksStored, HooksHolding
<1> QED
  BY <1>4, <1>5, <1>6, <1>7, <1>8 DEF HooksKept

LEMMA HooksMoves ==
    ASSUME DOMAIN req = Hooks!Callers, NEW c \in Hooks!Callers, DOMAIN req[c] = HooksFields, NEW at, Hooks!Move(c, at)
    PROVE  /\ DOMAIN req' = Hooks!Callers /\ \A d \in Hooks!Callers \ {c} : req'[d] = req[d]
           /\ DOMAIN req'[c] = HooksFields /\ req'[c].at = at
           /\ req'[c].op = req[c].op /\ req'[c].id = req[c].id /\ req'[c].row = req[c].row
           /\ req'[c].parts = req[c].parts /\ req'[c].read = req[c].read /\ req'[c].text = req[c].text
           /\ req'[c].embeds = req[c].embeds /\ req'[c].files = req[c].files /\ req'[c].held = req[c].held
           /\ req'[c].msg = req[c].msg /\ req'[c].bucket = req[c].bucket
BY DEF Hooks!Move, HooksFields

LEMMA HooksIsDone ==
    ASSUME DOMAIN req = Hooks!Callers, NEW c \in Hooks!Callers, Hooks!Done(c), last'.msg \in Nat
    PROVE  /\ DOMAIN req' = Hooks!Callers /\ \A d \in Hooks!Callers \ {c} : req'[d] = req[d]
           /\ req'[c] = Hooks!Free /\ req'[c].at = "free" /\ req'[c].msg = 0 /\ req'[c].files = {}
           /\ HooksFit(c, req[c])'
<1>1. DOMAIN req' = Hooks!Callers /\ \A d \in Hooks!Callers \ {c} : req'[d] = req[d]
  BY DEF Hooks!Done
<1>2. req'[c] = Hooks!Free
  BY DEF Hooks!Done
<1>3. DOMAIN Hooks!Free = HooksFields /\ Hooks!Free.at = "free" /\ Hooks!Free.op = "none" /\ Hooks!Free.read = 0 /\ Hooks!Free.msg = 0 /\ Hooks!Free.files = {}
  BY DEF Hooks!Free, HooksFields
<1> QED
  BY <1>1, <1>2, <1>3 DEF HooksFit, HooksUnsure, HooksFields

\* A request that was just asked knows of no message, or of one that is shown.
LEMMA HooksAsks ==
    ASSUME DOMAIN req = Hooks!Callers, NEW c \in Hooks!Callers, NEW r, Hooks!Ask(c, r), last'.msg \in Nat,
           DOMAIN r = HooksFields, r.read = 0, r.files = {}, r.msg \in 0..last'.msg,
           \/ r.at \in {"count", "save", "revoke"} /\ r.op # "edit"
           \/ r.at = "pace" /\ r.op = "deliver"
           \/ r.at = "load" /\ r.msg # 0
    PROVE  /\ DOMAIN req' = Hooks!Callers /\ \A d \in Hooks!Callers \ {c} : req'[d] = req[d]
           /\ req[c].at = "free" /\ req'[c] = r /\ HooksFit(c, req[c])'
<1>1. DOMAIN req' = Hooks!Callers /\ \A d \in Hooks!Callers \ {c} : req'[d] = req[d]
  BY DEF Hooks!Ask
<1>2. req[c].at = "free" /\ req'[c] = r
  BY DEF Hooks!Ask
<1> QED
  BY <1>1, <1>2 DEF HooksFit, HooksUnsure, HooksFields

\* What is quiet of a step by what became of its request.
LEMMA HooksIsQuiet ==
    ASSUME HooksTyped, UNCHANGED <<plan, w2, w3, w8, shown>>, last'.msg = last.msg, Len(w7') \in Nat, Len(w7) <= Len(w7'),
           NEW c \in Hooks!Callers, \A d \in Hooks!Callers \ {c} : req'[d] = req[d],
           req[c].at \notin HooksHolding, req'[c].at \notin HooksHolding \/ (req'[c].at = "read" /\ req'[c].files = {}),
           req'[c].msg \in {0, req[c].msg} \cup DOMAIN shown
    PROVE  HooksQuiet(c)
BY DEF HooksQuiet, HooksHolding, HooksUnsure

LEMMA HooksTypedRows ==
    ASSUME HooksTyped, Hooks!Callers' = Hooks!Callers, UNCHANGED <<w1, w2, w8, shown>>, last'.msg = last.msg,
           last'.hook \in Nat, DOMAIN last' = DOMAIN last, DOMAIN req' = Hooks!Callers,
           DOMAIN rows' \subseteq 1..last'.hook, \A h \in DOMAIN rows' : rows'[h].channel \in w1
    PROVE  HooksTyped'
BY DEF HooksTyped

HooksGood(c) == HooksQuiet(c) /\ HooksFit(c, req[c])' /\ HooksTyped'

\* Asking changes nothing but the request.
LEMMA HooksAskGood ==
    ASSUME HooksKept, Len(w7) \in Nat, NEW c \in Hooks!Callers, NEW r, Hooks!Ask(c, r),
           UNCHANGED <<plan, w1, w2, w3, w7, w8, shown, rows, last>>,
           DOMAIN r = HooksFields, r.read = 0, r.files = {}, r.msg \in {0} \cup DOMAIN shown,
           \/ r.at \in {"count", "save", "revoke"} /\ r.op # "edit"
           \/ r.at = "pace" /\ r.op = "deliver"
           \/ r.at = "load" /\ r.msg # 0
    PROVE  HooksGood(c)
<1>0. HooksTyped /\ DOMAIN req = Hooks!Callers /\ last.msg \in Nat /\ DOMAIN shown \subseteq 1..last.msg /\ last' = last
      /\ Hooks!Callers' = Hooks!Callers
  BY DEF HooksKept, HooksTyped, Hooks!Callers
<1>1. r.msg \in 0..last'.msg
  BY <1>0
<1>2. /\ DOMAIN req' = Hooks!Callers /\ \A d \in Hooks!Callers \ {c} : req'[d] = req[d]
      /\ req[c].at = "free" /\ req'[c] = r /\ HooksFit(c, req[c])'
  BY <1>0, <1>1, HooksAsks
<1>3. HooksQuiet(c)
  BY <1>0, <1>2, HooksIsQuiet DEF HooksHolding
<1>4. HooksTyped'
  BY <1>0, <1>2, HooksTypedRows DEF HooksTyped
<1> QED
  BY <1>2, <1>3, <1>4 DEF HooksGood

LEMMA HooksMint ==
    ASSUME HooksKept, Len(w7) \in Nat, NEW c \in Hooks!Callers, Hooks!Mint(c)
    PROVE  HooksGood(c)
<1> DEFINE r(channel) == [Hooks!Free EXCEPT !.at = "count", !.op = "mint", !.row = [channel |-> channel, name |-> c]]
<1>1. PICK channel : Hooks!Ask(c, r(channel))
  BY DEF Hooks!Mint
<1>2. /\ DOMAIN r(channel) = HooksFields /\ r(channel).read = 0 /\ r(channel).files = {} /\ r(channel).msg = 0
      /\ r(channel).at = "count" /\ r(channel).op = "mint"
  BY DEF Hooks!Free, HooksFields
<1> HIDE DEF r
<1> QED
  BY <1>1, <1>2, HooksAskGood DEF Hooks!Mint, Hooks!Tables, Hooks!Pace, Hooks!Told

LEMMA HooksChange ==
    ASSUME HooksKept, Len(w7) \in Nat, NEW c \in Hooks!Callers, Hooks!Change(c)
    PROVE  HooksGood(c)
<1> DEFINE r(at, h, row) == [Hooks!Free EXCEPT !.at = at, !.op = "change", !.id = h, !.row = row]
<1>0. PICK h \in Hooks!Listed(c), channel \in w1, renamed \in BOOLEAN :
        Hooks!Ask(c, r(IF channel # rows[h].channel THEN "count" ELSE "save", h,
                       [channel |-> channel, name |-> IF renamed THEN c ELSE rows[h].name]))
  BY DEF Hooks!Change
<1>1. PICK at, row : at \in {"count", "save"} /\ Hooks!Ask(c, r(at, h, row))
  <2> DEFINE place == IF channel # rows[h].channel THEN "count" ELSE "save"
             new == [channel |-> channel, name |-> IF renamed THEN c ELSE rows[h].name]
  <2>1. place \in {"count", "save"} /\ Hooks!Ask(c, r(place, h, new))
    BY <1>0
  <2> HIDE DEF place, new, r
  <2> QED
    BY <2>1
<1>2. /\ DOMAIN r(at, h, row) = HooksFields /\ r(at, h, row).read = 0 /\ r(at, h, row).files = {} /\ r(at, h, row).msg = 0
      /\ r(at, h, row).at = at /\ r(at, h, row).op = "change"
  BY DEF Hooks!Free, HooksFields
<1> HIDE DEF r
<1> QED
  BY <1>1, <1>2, HooksAskGood DEF Hooks!Change, Hooks!Tables, Hooks!Pace, Hooks!Told

LEMMA HooksRevoke ==
    ASSUME HooksKept, Len(w7) \in Nat, NEW c \in Hooks!Callers, Hooks!Revoke(c)
    PROVE  HooksGood(c)
<1> DEFINE r(h) == [Hooks!Free EXCEPT !.at = "revoke", !.op = "revoke", !.id = h]
<1>1. PICK h : Hooks!Ask(c, r(h))
  BY DEF Hooks!Revoke
<1>2. DOMAIN r(h) = HooksFields /\ r(h).read = 0 /\ r(h).files = {} /\ r(h).msg = 0 /\ r(h).at = "revoke" /\ r(h).op = "revoke"
  BY DEF Hooks!Free, HooksFields
<1> HIDE DEF r
<1> QED
  BY <1>1, <1>2, HooksAskGood DEF Hooks!Revoke, Hooks!Tables, Hooks!Pace, Hooks!Told

LEMMA HooksRename ==
    ASSUME HooksKept, Len(w7) \in Nat, NEW c \in Hooks!Callers, NEW h, Hooks!Rename(c, h)
    PROVE  HooksGood(c)
<1> DEFINE r == [Hooks!Free EXCEPT !.at = "save", !.op = "change", !.id = h, !.row = [rows[h] EXCEPT !.name = c]]
<1>1. Hooks!Ask(c, r)
  BY DEF Hooks!Rename
<1>2. DOMAIN r = HooksFields /\ r.read = 0 /\ r.files = {} /\ r.msg = 0 /\ r.at = "save" /\ r.op = "change"
  BY DEF Hooks!Free, HooksFields
<1> HIDE DEF r
<1> QED
  BY <1>1, <1>2, HooksAskGood DEF Hooks!Rename, Hooks!Tables, Hooks!Pace, Hooks!Told

LEMMA HooksResolve ==
    ASSUME HooksKept, Len(w7) \in Nat, NEW c \in Hooks!Callers, NEW h, Hooks!GiveUp(c, h) \/ Hooks!Deliver(c, h)
    PROVE  HooksGood(c) /\ h \in DOMAIN rows /\ req'[c].id = h
<1> DEFINE r(kind, at) == [Hooks!Free EXCEPT !.at = at, !.op = kind, !.id = h, !.row = rows[h]]
<1>1. /\ Hooks!Ask(c, r("revoke", "revoke")) \/ Hooks!Ask(c, r("deliver", "pace"))
      /\ h \in DOMAIN rows /\ UNCHANGED <<plan, w1, w2, w3, w7, w8, shown, rows, last>>
  BY DEF Hooks!GiveUp, Hooks!Deliver, Hooks!Resolve, Hooks!Tables, Hooks!Pace, Hooks!Told
<1>2. \A kind, at : /\ DOMAIN r(kind, at) = HooksFields /\ r(kind, at).read = 0 /\ r(kind, at).files = {} /\ r(kind, at).msg = 0
                    /\ r(kind, at).at = at /\ r(kind, at).op = kind /\ r(kind, at).id = h
  BY DEF Hooks!Free, HooksFields
<1>3. \A kind, at : Hooks!Ask(c, r(kind, at)) => req'[c] = r(kind, at)
  BY DEF Hooks!Ask, HooksKept, HooksTyped
<1> HIDE DEF r
<1>4. CASE Hooks!Ask(c, r("revoke", "revoke"))
  BY <1>1, <1>2, <1>3, <1>4, HooksAskGood
<1>5. CASE Hooks!Ask(c, r("deliver", "pace"))
  BY <1>1, <1>2, <1>3, <1>5, HooksAskGood
<1> QED
  BY <1>1, <1>4, <1>5

LEMMA HooksAmend ==
    ASSUME HooksKept, Len(w7) \in Nat, NEW c \in Hooks!Callers, NEW h, NEW m, Hooks!Amend(c, h, m) \/ Hooks!TakeBack(c, h, m)
    PROVE  HooksGood(c) /\ h \in DOMAIN rows /\ req'[c].id = h
<1>0. h \in DOMAIN rows /\ m \in DOMAIN shown /\ m # 0 /\ UNCHANGED <<plan, w1, w2, w3, w7, w8, shown, rows, last>>
  <2>1. h \in DOMAIN rows /\ m \in DOMAIN shown /\ UNCHANGED <<plan, w1, w2, w3, w7, w8, shown, rows, last>>
    BY DEF Hooks!Amend, Hooks!TakeBack, Hooks!Tables, Hooks!Pace, Hooks!Told
  <2>2. DOMAIN shown \subseteq 1..last.msg /\ last.msg \in Nat
    BY DEF HooksKept, HooksTyped
  <2>3. m # 0
    BY <2>1, <2>2
  <2> QED
    BY <2>1, <2>3
<1>1. ASSUME NEW r, Hooks!Ask(c, r), DOMAIN r = HooksFields, r.read = 0, r.files = {}, r.msg = m, r.at = "load", r.id = h
      PROVE  HooksGood(c) /\ req'[c].id = h
  <2>1. HooksGood(c)
    BY <1>0, <1>1, HooksAskGood
  <2>2. req'[c] = r
    BY <1>1 DEF Hooks!Ask, HooksKept, HooksTyped
  <2> QED
    BY <1>1, <2>1, <2>2
<1>2. CASE Hooks!Amend(c, h, m)
  <2> DEFINE r(p) == [Hooks!Free EXCEPT !.at = "load", !.op = "edit", !.id = h, !.msg = m, !.row = p]
  <2>1. PICK p : Hooks!Ask(c, r(p))
    BY <1>2 DEF Hooks!Amend
  <2>2. DOMAIN r(p) = HooksFields /\ r(p).read = 0 /\ r(p).files = {} /\ r(p).msg = m /\ r(p).at = "load" /\ r(p).id = h
    BY DEF Hooks!Free, HooksFields
  <2> HIDE DEF r
  <2> QED
    BY <1>0, <1>1, <2>1, <2>2
<1>3. CASE Hooks!TakeBack(c, h, m)
  <2> DEFINE r == [Hooks!Free EXCEPT !.at = "load", !.op = "delete", !.id = h, !.msg = m]
  <2>1. Hooks!Ask(c, r)
    BY <1>3 DEF Hooks!TakeBack
  <2>2. DOMAIN r = HooksFields /\ r.read = 0 /\ r.files = {} /\ r.msg = m /\ r.at = "load" /\ r.id = h
    BY DEF Hooks!Free, HooksFields
  <2> HIDE DEF r
  <2> QED
    BY <1>0, <1>1, <2>1, <2>2
<1> QED
  BY <1>2, <1>3

\* A request that ends, and nothing else, or one that goes on to a place where it holds no file.
LEMMA HooksDoneGood ==
    ASSUME HooksKept, Len(w7) \in Nat, NEW c \in Hooks!Callers, Hooks!Done(c), req[c].at \notin HooksHolding,
           UNCHANGED <<plan, w2, w3, w8, shown>>, last'.msg = last.msg, Len(w7') \in Nat, Len(w7) <= Len(w7'),
           HooksTyped'
    PROVE  HooksGood(c)
<1>0. HooksTyped /\ DOMAIN req = Hooks!Callers /\ last'.msg \in Nat
  BY DEF HooksKept, HooksTyped
<1>1. /\ \A d \in Hooks!Callers \ {c} : req'[d] = req[d]
      /\ req'[c].at = "free" /\ req'[c].msg = 0 /\ HooksFit(c, req[c])'
  BY <1>0, HooksIsDone
<1>2. HooksQuiet(c)
  BY <1>0, <1>1, HooksIsQuiet DEF HooksHolding
<1> QED
  BY <1>1, <1>2 DEF HooksGood

LEMMA HooksDoneTyped ==
    ASSUME HooksKept, NEW c \in Hooks!Callers, Hooks!Done(c) \/ (\E at : Hooks!Move(c, at)) \/ DOMAIN req' = DOMAIN req,
           UNCHANGED <<plan, w1, w2, w8, shown, rows, last>>
    PROVE  HooksTyped'
<1>1. DOMAIN req' = Hooks!Callers /\ Hooks!Callers' = Hooks!Callers
  BY DEF Hooks!Done, Hooks!Move, HooksKept, HooksTyped, Hooks!Callers
<1> QED
  BY <1>1, HooksTypedRows DEF HooksKept, HooksTyped

LEMMA HooksCountGood ==
    ASSUME HooksKept, Len(w7) \in Nat, NEW c \in Hooks!Callers, Hooks!Count(c)
    PROVE  HooksGood(c)
<1>0. /\ HooksTyped /\ DOMAIN req = Hooks!Callers /\ HooksFit(c, req[c]) /\ DOMAIN req[c] = HooksFields
      /\ req[c].at = "count" /\ UNCHANGED <<plan, w1, w2, w3, w7, w8, shown, rows, last>>
      /\ Hooks!Done(c) \/ Hooks!Move(c, "save")
  BY DEF HooksKept, HooksTyped, HooksFit, Hooks!Count, Hooks!Tables, Hooks!Pace, Hooks!Told
<1>1. HooksTyped'
  BY <1>0, HooksDoneTyped
<1>2. CASE Hooks!Done(c)
  BY <1>0, <1>1, <1>2, HooksDoneGood DEF HooksHolding
<1>3. CASE Hooks!Move(c, "save")
  <2>1. /\ \A d \in Hooks!Callers \ {c} : req'[d] = req[d]
        /\ DOMAIN req'[c] = HooksFields /\ req'[c].at = "save" /\ req'[c].op = req[c].op /\ req'[c].msg = req[c].msg
        /\ req'[c].read = req[c].read
    BY <1>0, <1>3, HooksMoves
  <2>2. HooksFit(c, req[c])'
    BY <1>0, <2>1 DEF HooksFit, HooksUnsure, HooksFields
  <2>3. HooksQuiet(c)
    BY <1>0, <2>1, HooksIsQuiet DEF HooksHolding
  <2> QED
    BY <1>1, <2>2, <2>3 DEF HooksGood
<1> QED
  BY <1>0, <1>2, <1>3

LEMMA HooksSaveNewGood ==
    ASSUME HooksKept, Len(w7) \in Nat, NEW c \in Hooks!Callers, Hooks!SaveNew(c)
    PROVE  HooksGood(c)
<1>0. /\ HooksTyped /\ DOMAIN req = Hooks!Callers /\ last.hook \in Nat /\ DOMAIN last = {"hook", "msg"}
      /\ DOMAIN rows \subseteq 1..last.hook /\ \A h \in DOMAIN rows : rows[h].channel \in w1
      /\ req[c].at = "save" /\ Hooks!Done(c) /\ UNCHANGED <<plan, w1, w2, w3, w7, w8, shown>>
      /\ DOMAIN req' = DOMAIN req /\ Hooks!Callers' = Hooks!Callers
  BY DEF HooksKept, HooksTyped, Hooks!SaveNew, Hooks!Pace, Hooks!Told, Hooks!At, Hooks!Done, Hooks!Callers
<1>1. /\ last'.msg = last.msg /\ last'.hook \in Nat /\ DOMAIN last' = DOMAIN last
      /\ DOMAIN rows' \subseteq 1..last'.hook /\ \A h \in DOMAIN rows' : rows'[h].channel \in w1
  <2>1. CASE req[c].row.channel \in w1
    <3>1. last' = [last EXCEPT !.hook = @ + 1] /\ rows' = Hooks!With(rows, last.hook + 1, req[c].row)
      BY <2>1 DEF Hooks!SaveNew
    <3>2. last'.msg = last.msg /\ last'.hook = last.hook + 1 /\ DOMAIN last' = DOMAIN last
      BY <1>0, <3>1
    <3>3. DOMAIN rows' = DOMAIN rows \cup {last.hook + 1}
          /\ \A h \in DOMAIN rows' : rows'[h] = IF h = last.hook + 1 THEN req[c].row ELSE rows[h]
      BY <3>1 DEF Hooks!With
    <3> QED
      BY <1>0, <2>1, <3>2, <3>3
  <2>2. CASE req[c].row.channel \notin w1
    <3>1. UNCHANGED <<last, rows>>
      BY <2>2 DEF Hooks!SaveNew
    <3> QED
      BY <1>0, <3>1
  <2> QED
    BY <2>1, <2>2
<1>2. HooksTyped'
  BY <1>0, <1>1, HooksTypedRows
<1> QED
  BY <1>0, <1>1, <1>2, HooksDoneGood DEF HooksHolding

LEMMA HooksSaveGood ==
    ASSUME HooksKept, Len(w7) \in Nat, NEW c \in Hooks!Callers, Hooks!Save(c)
    PROVE  HooksGood(c)
<1>0. /\ HooksTyped /\ DOMAIN req = Hooks!Callers
      /\ DOMAIN rows \subseteq 1..last.hook /\ \A h \in DOMAIN rows : rows[h].channel \in w1
      /\ req[c].at = "save" /\ Hooks!Done(c) /\ UNCHANGED <<plan, w1, w2, w3, w7, w8, shown, last>>
      /\ DOMAIN req' = DOMAIN req /\ Hooks!Callers' = Hooks!Callers
  BY DEF HooksKept, HooksTyped, Hooks!Save, Hooks!Pace, Hooks!Told, Hooks!At, Hooks!Done, Hooks!Callers
<1>1. DOMAIN rows' = DOMAIN rows /\ \A h \in DOMAIN rows : rows'[h].channel \in w1
  BY <1>0 DEF Hooks!Save
<1>2. HooksTyped'
  BY <1>0, <1>1, HooksTypedRows DEF HooksTyped
<1> QED
  BY <1>0, <1>2, HooksDoneGood DEF HooksHolding

LEMMA HooksFinishRevokeGood ==
    ASSUME HooksKept, Len(w7) \in Nat, NEW c \in Hooks!Callers, Hooks!FinishRevoke(c)
    PROVE  HooksGood(c)
<1>0. /\ HooksTyped /\ DOMAIN req = Hooks!Callers
      /\ DOMAIN rows \subseteq 1..last.hook /\ \A h \in DOMAIN rows : rows[h].channel \in w1
      /\ req[c].at = "revoke" /\ Hooks!Done(c) /\ UNCHANGED <<plan, w1, w2, w3, w7, w8, shown, last>>
      /\ DOMAIN req' = DOMAIN req /\ Hooks!Callers' = Hooks!Callers
  BY DEF HooksKept, HooksTyped, Hooks!FinishRevoke, Hooks!Delete, Hooks!Pace, Hooks!Told, Hooks!At, Hooks!Done, Hooks!Callers
<1>1. DOMAIN rows' \subseteq DOMAIN rows /\ \A h \in DOMAIN rows' : rows'[h] = rows[h]
  BY DEF Hooks!FinishRevoke, Hooks!Delete, Hooks!Without
<1>2. HooksTyped'
  BY <1>0, <1>1, HooksTypedRows DEF HooksTyped
<1> QED
  BY <1>0, <1>2, HooksDoneGood DEF HooksHolding

\* A request that does not deliver knows of no message whose files are still to come.
LEMMA HooksKnown ==
    ASSUME HooksKept, NEW c \in Hooks!Callers, req[c].at \notin HooksUnsure, req[c].msg \in DOMAIN w2
    PROVE  HooksSettled(req[c].msg) /\ w2[req[c].msg].files = w8[req[c].msg]
<1>1. ASSUME NEW d \in Hooks!Callers, req[d].at \in HooksUnsure PROVE req[d].msg # req[c].msg
  BY <1>1 DEF HooksKept, HooksApart
<1>2. HooksSettled(req[c].msg)
  BY <1>1 DEF HooksKept, HooksMessages
<1> QED
  BY <1>2 DEF HooksSettled

LEMMA HooksLookUpGood ==
    ASSUME HooksKept, Len(w7) \in Nat, NEW c \in Hooks!Callers, Hooks!LookUp(c)
    PROVE  HooksGood(c) /\ req'[c].id = req[c].id
<1>0. /\ HooksTyped /\ DOMAIN req = Hooks!Callers /\ HooksFit(c, req[c]) /\ DOMAIN req[c] = HooksFields
      /\ req[c].at = "pace" /\ UNCHANGED <<plan, w1, w2, w3, w7, w8, shown, rows, last>>
  BY DEF HooksKept, HooksTyped, HooksFit, Hooks!LookUp, Hooks!Tables, Hooks!Told
<1>1. PICK b : req' = [req EXCEPT ![c].at = "take", ![c].bucket = b]
  <2>1. CASE req[c].id \in DOMAIN w4
    BY <2>1 DEF Hooks!LookUp
  <2>2. CASE req[c].id \notin DOMAIN w4
    BY <2>2 DEF Hooks!LookUp
  <2> QED
    BY <2>1, <2>2
<1>2. /\ DOMAIN req' = DOMAIN req /\ \A d \in Hooks!Callers \ {c} : req'[d] = req[d]
      /\ DOMAIN req'[c] = HooksFields /\ req'[c].at = "take" /\ req'[c].op = req[c].op /\ req'[c].msg = req[c].msg
      /\ req'[c].files = req[c].files /\ req'[c].read = req[c].read /\ req'[c].id = req[c].id
  BY <1>0, <1>1 DEF HooksFields
<1>3. HooksFit(c, req[c])'
  BY <1>0, <1>2 DEF HooksFit, HooksUnsure, HooksFields
<1>4. HooksQuiet(c)
  BY <1>0, <1>2, HooksIsQuiet DEF HooksHolding
<1>5. HooksTyped'
  BY <1>0, <1>2, HooksDoneTyped
<1> QED
  BY <1>2, <1>3, <1>4, <1>5 DEF HooksGood

LEMMA HooksTakeGood ==
    ASSUME HooksKept, w7 \in Seq(HooksDraws), NEW c \in Hooks!Callers, Hooks!Take(c)
    PROVE  HooksGood(c)
<1>0. /\ HooksTyped /\ DOMAIN req = Hooks!Callers /\ HooksFit(c, req[c]) /\ DOMAIN req[c] = HooksFields
      /\ req[c].at = "take" /\ UNCHANGED <<plan, w1, w2, w3, w8, shown, rows, last>> /\ Len(w7) \in Nat
      /\ \A m \in DOMAIN w8 : \A f \in w8[m] : f[1] \in Nat /\ f[1] <= Len(w7)
  BY DEF HooksKept, HooksTyped, HooksFit, HooksNamed, Hooks!Take, Hooks!Tables, Hooks!Told
<1>1. CASE Hooks!Done(c) /\ w7' = w7
  <2>1. HooksTyped'
    BY <1>0, <1>1, HooksDoneTyped
  <2> QED
    BY <1>0, <1>1, <2>1, HooksDoneGood DEF HooksHolding
<1>2. ASSUME NEW x, w7' = Append(w7, x), NEW at \in {"read", "patch"}, (at = "read") = (req[c].op = "deliver"), Hooks!Move(c, at)
      PROVE  HooksGood(c)
  <2>1. /\ \A d \in Hooks!Callers \ {c} : req'[d] = req[d]
        /\ DOMAIN req'[c] = HooksFields /\ req'[c].at = at /\ req'[c].op = req[c].op /\ req'[c].msg = req[c].msg
        /\ req'[c].files = req[c].files /\ req'[c].read = req[c].read /\ DOMAIN req' = Hooks!Callers
    BY <1>0, <1>2, HooksMoves
  <2>2. Len(w7') = Len(w7) + 1
    BY <1>2
  <2>3. HooksTyped'
    BY <1>0, <2>1, HooksDoneTyped
  <2>4. HooksQuiet(c)
    BY <1>0, <1>2, <2>1, <2>2, HooksIsQuiet DEF HooksHolding, HooksFit
  <2>5. CASE at = "read"
    <3>1. \A m \in DOMAIN w8' : \A f \in w8'[m] : f[2] = c => f[1] < Len(w7')
      BY <1>0, <2>2
    <3>2. HooksFit(c, req[c])'
      BY <1>0, <1>2, <2>1, <2>5, <3>1 DEF HooksFit, HooksUnsure, HooksFields
    <3> QED
      BY <2>3, <2>4, <3>2 DEF HooksGood
  <2>6. CASE at = "patch"
    <3>1. HooksFit(c, req[c])'
      BY <1>0, <1>2, <2>1, <2>6 DEF HooksFit, HooksUnsure, HooksFields
    <3> QED
      BY <2>3, <2>4, <3>1 DEF HooksGood
  <2> QED
    BY <1>2, <2>5, <2>6
<1>3. \/ Hooks!Done(c) /\ w7' = w7
      \/ \E x : w7' = Append(w7, x) /\ Hooks!Move(c, IF req[c].op = "deliver" THEN "read" ELSE "patch")
  BY DEF Hooks!Take
<1>4. CASE req[c].op = "deliver"
  <2>1. \/ Hooks!Done(c) /\ w7' = w7
        \/ \E x : w7' = Append(w7, x) /\ Hooks!Move(c, "read")
    BY <1>3, <1>4
  <2> QED
    BY <1>1, <1>2, <1>4, <2>1
<1>5. CASE req[c].op # "deliver"
  <2>1. \/ Hooks!Done(c) /\ w7' = w7
        \/ \E x : w7' = Append(w7, x) /\ Hooks!Move(c, "patch")
    BY <1>3, <1>5
  <2> QED
    BY <1>1, <1>2, <1>5, <2>1
<1> QED
  BY <1>4, <1>5

LEMMA HooksArriveGood ==
    ASSUME HooksKept, Len(w7) \in Nat, NEW c \in Hooks!Callers, NEW body, Hooks!Arrive(c, body)
    PROVE  HooksGood(c)
<1>0. /\ HooksTyped /\ DOMAIN req = Hooks!Callers /\ HooksFit(c, req[c]) /\ DOMAIN req[c] = HooksFields
      /\ req[c].at = "read" /\ UNCHANGED <<plan, w1, w2, w3, w7, w8, shown, rows, last>>
      /\ req' = [req EXCEPT ![c].parts = body] /\ Hooks!Callers' = Hooks!Callers
  BY DEF HooksKept, HooksTyped, HooksFit, Hooks!Arrive, Hooks!At, Hooks!Tables, Hooks!Told, Hooks!Pace, Hooks!Callers
<1>1. /\ DOMAIN req' = DOMAIN req /\ \A d \in Hooks!Callers \ {c} : req'[d] = req[d]
      /\ DOMAIN req'[c] = HooksFields /\ req'[c].at = "read" /\ req'[c].op = req[c].op /\ req'[c].msg = req[c].msg
      /\ req'[c].files = req[c].files /\ req'[c].read = req[c].read
  BY <1>0 DEF HooksFields
<1>2. HooksFit(c, req[c])'
  BY <1>0, <1>1 DEF HooksFit, HooksUnsure, HooksFields
<1>3. HooksQuiet(c)
  BY <1>0, <1>1 DEF HooksQuiet, HooksHolding, HooksUnsure
<1>4. HooksTyped'
  BY <1>0, <1>1, HooksDoneTyped
<1> QED
  BY <1>2, <1>3, <1>4 DEF HooksGood

LEMMA HooksLoadGood ==
    ASSUME HooksKept, Len(w7) \in Nat, NEW c \in Hooks!Callers, Hooks!Load(c)
    PROVE  HooksGood(c) /\ req'[c].at # "take" /\ (req'[c].at = "pace" => req'[c].id = req[c].id)
<1>0. /\ HooksTyped /\ DOMAIN req = Hooks!Callers /\ HooksFit(c, req[c]) /\ DOMAIN req[c] = HooksFields
      /\ req[c].at = "load" /\ UNCHANGED <<plan, w1, w2, w3, w7, w8, shown, rows, last>> /\ last'.msg \in Nat
  BY DEF HooksKept, HooksTyped, HooksFit, Hooks!Load, Hooks!Tables, Hooks!Told, Hooks!Pace
<1>1. CASE Hooks!Done(c)
  <2>1. HooksTyped'
    BY <1>0, <1>1, HooksDoneTyped
  <2>2. req'[c].at = "free"
    BY <1>0, <1>1, HooksIsDone
  <2> QED
    BY <1>0, <1>1, <2>1, <2>2, HooksDoneGood DEF HooksHolding
<1>2. CASE ~Hooks!Done(c)
  <2>1. PICK at, text, embeds : /\ at \in {"pace", "files"} /\ (at = "pace" => req[c].op = "edit")
                                /\ req' = [req EXCEPT ![c] = [req[c] EXCEPT !.at = at, !.text = text, !.embeds = embeds]]
    <3>1. Hooks!Loaded(req[c].id, req[c].msg)
      BY <1>2 DEF Hooks!Load
    <3>2. CASE req[c].op = "edit"
      <4>1. req' = [req EXCEPT ![c] = [req[c] EXCEPT !.at = "pace", !.text = w2[req[c].msg].text, !.embeds = w2[req[c].msg].embeds]]
        BY <3>1, <3>2 DEF Hooks!Load
      <4> QED
        BY <3>2, <4>1
    <3>3. CASE req[c].op # "edit"
      <4>1. req' = [req EXCEPT ![c] = [req[c] EXCEPT !.at = "files", !.text = w2[req[c].msg].text, !.embeds = w2[req[c].msg].embeds]]
        BY <3>1, <3>3 DEF Hooks!Load
      <4> QED
        BY <4>1
    <3> QED
      BY <3>2, <3>3
  <2>2. /\ DOMAIN req' = DOMAIN req /\ \A d \in Hooks!Callers \ {c} : req'[d] = req[d]
        /\ DOMAIN req'[c] = HooksFields /\ req'[c].at = at /\ req'[c].op = req[c].op /\ req'[c].msg = req[c].msg
        /\ req'[c].files = req[c].files /\ req'[c].read = req[c].read /\ req'[c].id = req[c].id
    BY <1>0, <2>1 DEF HooksFields
  <2>3. HooksQuiet(c)
    BY <1>0, <2>1, <2>2, HooksIsQuiet DEF HooksHolding
  <2>4. HooksTyped'
    BY <1>0, <2>2, HooksDoneTyped
  <2>5. HooksFit(c, req[c])'
    BY <1>0, <2>1, <2>2 DEF HooksFit, HooksUnsure, HooksFields
  <2> QED
    BY <2>1, <2>2, <2>3, <2>4, <2>5 DEF HooksGood
<1> QED
  BY <1>1, <1>2

LEMMA HooksPatchGood ==
    ASSUME HooksKept, Len(w7) \in Nat, NEW c \in Hooks!Callers, Hooks!Patch(c)
    PROVE  HooksGood(c)
<1>0. /\ HooksTyped /\ DOMAIN req = Hooks!Callers /\ HooksFit(c, req[c]) /\ DOMAIN req[c] = HooksFields
      /\ req[c].at = "patch" /\ req[c].op = "edit"
      /\ UNCHANGED <<plan, w1, w2, w3, w7, w8, shown, rows, last>> /\ last'.msg \in Nat
  BY DEF HooksKept, HooksTyped, HooksFit, Hooks!Patch, Hooks!At, Hooks!Tables, Hooks!Told, Hooks!Pace
<1>1. CASE Hooks!Done(c)
  <2>1. HooksTyped'
    BY <1>0, <1>1, HooksDoneTyped
  <2> QED
    BY <1>0, <1>1, <2>1, HooksDoneGood DEF HooksHolding
<1>2. CASE ~Hooks!Done(c)
  <2>1. PICK text, embeds, files :
            /\ ~Hooks!Empty(text, embeds, files) /\ (req[c].msg \in DOMAIN w2 => files = w2[req[c].msg].files)
            /\ req' = [req EXCEPT ![c] = [req[c] EXCEPT !.at = "write", !.text = text, !.embeds = embeds, !.held = files]]
    <3> DEFINE text == Hooks!PatchedOver(req[c].row.text, req[c].text)
               embeds == Hooks!PatchedOver(req[c].row.embeds, req[c].embeds)
               files == IF req[c].msg \in DOMAIN w2 THEN w2[req[c].msg].files ELSE {}
    <3>1. /\ ~Hooks!Empty(text, embeds, files)
          /\ req' = [req EXCEPT ![c] = [req[c] EXCEPT !.at = "write", !.text = text, !.embeds = embeds, !.held = files]]
      BY <1>2 DEF Hooks!Patch
    <3>2. req[c].msg \in DOMAIN w2 => files = w2[req[c].msg].files
      OBVIOUS
    <3> HIDE DEF text, embeds, files
    <3> QED
      BY <3>1, <3>2
  <2>2. /\ DOMAIN req' = DOMAIN req /\ \A d \in Hooks!Callers \ {c} : req'[d] = req[d]
        /\ DOMAIN req'[c] = HooksFields /\ req'[c].at = "write" /\ req'[c].op = req[c].op /\ req'[c].msg = req[c].msg
        /\ req'[c].files = req[c].files /\ req'[c].read = req[c].read /\ req'[c].held = files
        /\ req'[c].text = text /\ req'[c].embeds = embeds
    BY <1>0, <2>1 DEF HooksFields
  <2>3. HooksQuiet(c)
    BY <1>0, <2>1, <2>2, HooksIsQuiet DEF HooksHolding
  <2>4. HooksTyped'
    BY <1>0, <2>2, HooksDoneTyped
  <2>5. req[c].msg \in DOMAIN w2 => files = w8[req[c].msg]
    BY <1>0, <2>1, HooksKnown DEF HooksUnsure
  <2>6. HooksFit(c, req[c])'
    BY <1>0, <2>1, <2>2, <2>5 DEF HooksFit, HooksUnsure, HooksFields, Hooks!Empty
  <2> QED
    BY <2>3, <2>4, <2>6 DEF HooksGood
<1> QED
  BY <1>1, <1>2

LEMMA HooksReadFilesGood ==
    ASSUME HooksKept, Len(w7) \in Nat, NEW c \in Hooks!Callers, Hooks!ReadFiles(c)
    PROVE  HooksGood(c)
<1>0. /\ HooksTyped /\ DOMAIN req = Hooks!Callers /\ HooksFit(c, req[c]) /\ DOMAIN req[c] = HooksFields
      /\ req[c].at = "files" /\ req[c].op = "delete"
      /\ UNCHANGED <<plan, w1, w2, w3, w7, w8, shown, rows, last>> /\ last'.msg \in Nat
  BY DEF HooksKept, HooksTyped, HooksFit, Hooks!ReadFiles, Hooks!At, Hooks!Tables, Hooks!Told, Hooks!Pace
<1> DEFINE held == IF req[c].msg \in DOMAIN w2 THEN w2[req[c].msg].files ELSE {}
<1>1. req' = [req EXCEPT ![c].at = "remove", ![c].held = held]
  BY DEF Hooks!ReadFiles
<1>2. req[c].msg \in DOMAIN w2 => held = w8[req[c].msg]
  BY <1>0, HooksKnown DEF HooksUnsure
<1> HIDE DEF held
<1>3. /\ DOMAIN req' = DOMAIN req /\ \A d \in Hooks!Callers \ {c} : req'[d] = req[d]
      /\ DOMAIN req'[c] = HooksFields /\ req'[c].at = "remove" /\ req'[c].op = req[c].op /\ req'[c].msg = req[c].msg
      /\ req'[c].files = req[c].files /\ req'[c].read = req[c].read /\ req'[c].held = held
  BY <1>0, <1>1 DEF HooksFields
<1>4. HooksQuiet(c)
  BY <1>0, <1>3, HooksIsQuiet DEF HooksHolding
<1>5. HooksTyped'
  BY <1>0, <1>3, HooksDoneTyped
<1>6. HooksFit(c, req[c])'
  BY <1>0, <1>2, <1>3 DEF HooksFit, HooksUnsure, HooksFields
<1> QED
  BY <1>4, <1>5, <1>6 DEF HooksGood

\* What is kept when a step of one request keeps it.
LEMMA HooksLoudStays ==
    ASSUME HooksKept, Hooks!Callers' = Hooks!Callers, NEW c \in Hooks!Callers, HooksOthers(c), HooksFit(c, req[c])',
           HooksTyped', HooksMessages', HooksNamed', HooksStored',
           req'[c].msg \in {0, req[c].msg, last.msg + 1} \cup DOMAIN shown,
           req'[c].at \in HooksUnsure =>
                \/ req[c].at \in HooksUnsure /\ req'[c].msg = req[c].msg
                \/ req'[c].msg = last.msg + 1
    PROVE  HooksKept'
<1>1. HooksApart'
  BY HooksApartStays
<1>2. \A d \in Hooks!Callers' : HooksFit(d, req[d])'
  BY HooksAllFit
<1> QED
  BY <1>1, <1>2 DEF HooksKept

\* What is on a message, and what a request holds, is nobody else's.
LEMMA HooksOnMessage ==
    ASSUME HooksKept, NEW m \in DOMAIN w2, NEW f \in w2[m].files
    PROVE  /\ m \in DOMAIN w8 /\ f \in w8[m]
           /\ \A d \in Hooks!Callers : req[d].at \in HooksUnsure => req[d].msg # m
<1>1. m \in DOMAIN w8
  BY DEF HooksKept, HooksTyped
<1>2. \A d \in Hooks!Callers : req[d].at \in HooksUnsure => req[d].msg # m
  BY DEF HooksKept, HooksFit
<1>3. f \in w8[m]
  BY <1>2 DEF HooksKept, HooksMessages, HooksSettled
<1> QED
  BY <1>1, <1>2, <1>3

LEMMA HooksHolds ==
    ASSUME HooksKept, NEW d \in Hooks!Callers, req[d].at \in HooksHolding, NEW f \in req[d].files
    PROVE  /\ \A m \in DOMAIN w8 : f \in w8[m] => req[d].at \in HooksUnsure /\ m = req[d].msg
           /\ req[d].at \in HooksUnsure => req[d].msg \in DOMAIN w8 /\ f \in w8[req[d].msg]
           /\ req[d].at \notin HooksUnsure => req[d].at \in {"read", "insert"} /\ f[2] = d
<1>0. HooksFit(d, req[d]) /\ DOMAIN w8 = 1..last.msg /\ last.msg \in Nat
      /\ \A m, n \in DOMAIN w8 : m # n => w8[m] \cap w8[n] = {}
  BY DEF HooksKept, HooksTyped, HooksNamed
<1>1. CASE req[d].at \in HooksUnsure
  <2>1. req[d].msg \in 0..last.msg /\ req[d].msg # 0 /\ w8[req[d].msg] = req[d].files
    BY <1>0, <1>1 DEF HooksFit, HooksUnsure
  <2>2. req[d].msg \in DOMAIN w8
    BY <1>0, <2>1
  <2> QED
    BY <1>0, <1>1, <2>1, <2>2
<1>2. CASE req[d].at \notin HooksUnsure
  <2>1. req[d].at \in {"read", "insert"}
    BY <1>2 DEF HooksHolding, HooksUnsure
  <2>2. f[2] = d /\ \A m \in DOMAIN w8 : req[d].files \cap w8[m] = {}
    BY <1>0, <2>1 DEF HooksFit
  <2> QED
    BY <1>2, <2>1, <2>2
<1> QED
  BY <1>1, <1>2

LEMMA HooksOwn ==
    ASSUME HooksKept, NEW c \in Hooks!Callers, req[c].at \in HooksHolding, NEW f \in req[c].files
    PROVE  /\ \A m \in DOMAIN w2 : f \notin w2[m].files
           /\ \A d \in Hooks!Callers \ {c} : req[d].at \in HooksHolding => f \notin req[d].files
<1>1. ASSUME NEW m \in DOMAIN w2, f \in w2[m].files PROVE FALSE
  <2>1. m \in DOMAIN w8 /\ f \in w8[m] /\ (req[c].at \in HooksUnsure => req[c].msg # m)
    BY <1>1, HooksOnMessage
  <2>2. \A n \in DOMAIN w8 : f \in w8[n] => req[c].at \in HooksUnsure /\ n = req[c].msg
    BY HooksHolds
  <2> QED
    BY <2>1, <2>2
<1>2. ASSUME NEW d \in Hooks!Callers \ {c}, req[d].at \in HooksHolding, f \in req[d].files PROVE FALSE
  <2>1. /\ \A m \in DOMAIN w8 : f \in w8[m] => req[d].at \in HooksUnsure /\ m = req[d].msg
        /\ req[d].at \in HooksUnsure => req[d].msg \in DOMAIN w8 /\ f \in w8[req[d].msg]
        /\ req[d].at \notin HooksUnsure => f[2] = d
    BY <1>2, HooksHolds
  <2>2. /\ \A m \in DOMAIN w8 : f \in w8[m] => req[c].at \in HooksUnsure /\ m = req[c].msg
        /\ req[c].at \in HooksUnsure => req[c].msg \in DOMAIN w8 /\ f \in w8[req[c].msg]
        /\ req[c].at \notin HooksUnsure => f[2] = c
    BY HooksHolds
  <2>3. req[c].at \in HooksUnsure => req[d].msg # req[c].msg
    BY DEF HooksKept, HooksApart
  <2> QED
    BY <2>1, <2>2, <2>3
<1> QED
  BY <1>1, <1>2

\* Files given up with the request that held them, and with the message they were to be on.
LEMMA HooksDiscarded ==
    ASSUME HooksKept, Len(w7) \in Nat, NEW c \in Hooks!Callers, req[c].at \in HooksHolding, Hooks!Discard(c), Hooks!Done(c),
           UNCHANGED <<plan, w1, w7, w8, shown, rows, last>>,
           \/ w2' = w2 /\ req[c].at \notin HooksUnsure
           \/ w2' = Hooks!Without(w2, {req[c].msg}) /\ req[c].at = "rollback"
    PROVE  HooksKept'
<1>0. /\ HooksTyped /\ HooksMessages /\ HooksNamed /\ HooksStored /\ HooksApart /\ DOMAIN req = Hooks!Callers
      /\ Hooks!Callers' = Hooks!Callers /\ last.msg \in Nat /\ DOMAIN w8 = 1..last.msg /\ last'.msg \in Nat
      /\ \A d \in Hooks!Callers : HooksFit(d, req[d])
  BY DEF HooksKept, HooksTyped, Hooks!Callers
<1>1. /\ DOMAIN req' = Hooks!Callers /\ \A d \in Hooks!Callers \ {c} : req'[d] = req[d]
      /\ req'[c].at = "free" /\ req'[c].msg = 0 /\ HooksFit(c, req[c])'
  BY <1>0, HooksIsDone
<1>2. /\ DOMAIN w2' \subseteq DOMAIN w2 /\ \A m \in DOMAIN w2' : w2'[m] = w2[m]
      /\ \A m \in DOMAIN w2 \ DOMAIN w2' : m = req[c].msg /\ req[c].at = "rollback"
      /\ req[c].at \in HooksUnsure => req[c].msg \notin DOMAIN w2'
  BY DEF Hooks!Without, HooksUnsure
<1>3. HooksOthers(c)
  <2>1. \A d \in Hooks!Callers : req[d].at \in HooksUnsure => req[d].msg \notin DOMAIN shown
    BY <1>0 DEF HooksFit
  <2> QED
    BY <1>0, <1>1, <1>2, <2>1 DEF HooksOthers
<1>4. HooksTyped'
  BY <1>0, <1>1, <1>2 DEF HooksTyped
<1>5. HooksMessages'
  <2>1. ASSUME NEW m \in DOMAIN w2', ~HooksSettled(m)'
        PROVE  \E d \in Hooks!Callers' : (req[d].at \in HooksUnsure /\ req[d].msg = m)'
    <3>1. ~HooksSettled(m) /\ m \in DOMAIN w2
      BY <1>2, <2>1 DEF HooksSettled, Hooks!Empty
    <3>2. PICK d \in Hooks!Callers : req[d].at \in HooksUnsure /\ req[d].msg = m
      BY <1>0, <3>1 DEF HooksMessages
    <3>3. d # c
      BY <1>2, <2>1, <3>2
    <3> QED
      BY <1>0, <1>1, <3>2, <3>3 DEF HooksUnsure
  <2>2. \A m \in DOMAIN shown' : m \in DOMAIN w2' => shown'[m].files = w8'[m]
    BY <1>0, <1>2 DEF HooksMessages
  <2> QED
    BY <2>1, <2>2 DEF HooksMessages
<1>6. HooksNamed'
  BY <1>0, <1>1 DEF HooksNamed
<1>7. HooksStored'
  <2>1. ASSUME NEW f, f \in w3' PROVE \/ \E m \in DOMAIN w2' : f \in w2'[m].files
                                      \/ \E d \in Hooks!Callers : req'[d].at \in HooksHolding /\ f \in req'[d].files
    <3>1. f \in w3 /\ f \notin req[c].files
      BY <2>1 DEF Hooks!Discard
    <3>2. CASE \E m \in DOMAIN w2 : f \in w2[m].files
      <4>1. PICK m \in DOMAIN w2 : f \in w2[m].files
        BY <3>2
      <4>2. \A d \in Hooks!Callers : req[d].at \in HooksUnsure => req[d].msg # m
        BY <4>1, HooksOnMessage
      <4>3. m \in DOMAIN w2'
        BY <1>2, <4>2 DEF HooksUnsure
      <4> QED
        BY <1>2, <4>1, <4>3
    <3>3. CASE \E d \in Hooks!Callers : req[d].at \in HooksHolding /\ f \in req[d].files
      BY <1>1, <3>1, <3>3
    <3> QED
      BY <1>0, <3>1, <3>2, <3>3 DEF HooksStored
  <2>2. ASSUME NEW f, NEW m \in DOMAIN w2', f \in w2'[m].files PROVE f \in w3'
    <3>1. m \in DOMAIN w2 /\ f \in w2[m].files
      BY <1>2, <2>2
    <3>2. f \in w3
      BY <1>0, <3>1 DEF HooksStored
    <3>3. f \notin req[c].files
      BY <3>1, HooksOwn
    <3> QED
      BY <3>2, <3>3 DEF Hooks!Discard
  <2>3. ASSUME NEW f, NEW d \in Hooks!Callers, req'[d].at \in HooksHolding, f \in req'[d].files PROVE f \in w3'
    <3>1. d # c /\ req[d].at \in HooksHolding /\ f \in req[d].files
      BY <1>1, <2>3 DEF HooksHolding
    <3>2. f \in w3
      BY <1>0, <3>1 DEF HooksStored
    <3>3. f \notin req[c].files
      BY <3>1, HooksOwn
    <3> QED
      BY <3>2, <3>3 DEF Hooks!Discard
  <2> QED
    BY <1>0, <2>1, <2>2, <2>3 DEF HooksStored, HooksHolding
<1> QED
  BY <1>0, <1>1, <1>3, <1>4, <1>5, <1>6, <1>7, HooksLoudStays DEF HooksUnsure

LEMMA HooksReadPartKeeps ==
    ASSUME HooksKept, w7 \in Seq(HooksDraws), NEW c \in Hooks!Callers, Hooks!ReadPart(c)
    PROVE  HooksKept'
<1>0. /\ HooksTyped /\ HooksMessages /\ HooksNamed /\ HooksStored /\ HooksApart /\ DOMAIN req = Hooks!Callers
      /\ Hooks!Callers' = Hooks!Callers /\ last.msg \in Nat /\ DOMAIN w8 = 1..last.msg /\ HooksFit(c, req[c])
      /\ DOMAIN req[c] = HooksFields /\ req[c].read \in Nat /\ req[c].at = "read" /\ req[c].op = "deliver" /\ Len(w7) \in Nat
      /\ UNCHANGED <<plan, w1, w2, w7, w8, shown, rows, last>>
  BY DEF HooksKept, HooksTyped, HooksFit, Hooks!ReadPart, Hooks!At, Hooks!Callers, Hooks!Tables, Hooks!Pace, Hooks!Told
<1> DEFINE k == req[c].read + 1
           file == <<Len(w7), c, k>>
<1>1. \/ Hooks!Discard(c) /\ Hooks!Done(c)
      \/ w3' = w3 /\ Hooks!Move(c, "insert")
      \/ w3' = w3 /\ \E text, embeds : req' = [req EXCEPT ![c].read = k, ![c].text = text, ![c].embeds = embeds]
      \/ w3' = w3 /\ req' = [req EXCEPT ![c].read = k]
      \/ w3' = w3 \cup {file} /\ req' = [req EXCEPT ![c].read = k, ![c].files = @ \cup {file}]
  BY DEF Hooks!ReadPart
<1>k. k \in Nat /\ req[c].read <= k
  BY <1>0
<1>f. file[1] = Len(w7) /\ file[2] = c /\ file[3] = k
  OBVIOUS
<1> HIDE DEF k, file
<1>2. CASE Hooks!Discard(c) /\ Hooks!Done(c)
  BY <1>0, <1>2, HooksDiscarded DEF HooksHolding, HooksUnsure
<1>3. ASSUME w3' = w3, DOMAIN req' = Hooks!Callers, \A d \in Hooks!Callers \ {c} : req'[d] = req[d],
             DOMAIN req'[c] = HooksFields, req'[c].at \in {"read", "insert"}, req'[c].op = "deliver", req'[c].msg = req[c].msg,
             req'[c].files = req[c].files, req'[c].read \in Nat, req[c].read <= req'[c].read
      PROVE  HooksKept'
  <2>1. HooksTyped'
    BY <1>0, <1>3, HooksTypedRows DEF HooksTyped
  <2>2. HooksQuiet(c)
    BY <1>0, <1>3 DEF HooksQuiet, HooksHolding, HooksUnsure
  <2>3. \A f \in req[c].files : f[3] \in Nat /\ f[3] <= req'[c].read
    BY <1>0, <1>3 DEF HooksFit
  <2>4. HooksFit(c, req[c])'
    BY <1>0, <1>3, <2>3 DEF HooksFit, HooksUnsure, HooksFields
  <2> QED
    BY <1>0, <2>1, <2>2, <2>4, HooksQuietStays
<1>4. CASE w3' = w3 /\ Hooks!Move(c, "insert")
  BY <1>0, <1>3, <1>4, HooksMoves
<1>5. CASE w3' = w3 /\ \E text, embeds : req' = [req EXCEPT ![c].read = k, ![c].text = text, ![c].embeds = embeds]
  BY <1>0, <1>3, <1>5, <1>k DEF HooksFields
<1>6. CASE w3' = w3 /\ req' = [req EXCEPT ![c].read = k]
  BY <1>0, <1>3, <1>6, <1>k DEF HooksFields
<1>7. CASE w3' = w3 \cup {file} /\ req' = [req EXCEPT ![c].read = k, ![c].files = @ \cup {file}]
  <2>1. /\ DOMAIN req' = Hooks!Callers /\ \A d \in Hooks!Callers \ {c} : req'[d] = req[d]
        /\ DOMAIN req'[c] = HooksFields /\ req'[c].at = "read" /\ req'[c].op = "deliver" /\ req'[c].msg = req[c].msg
        /\ req'[c].files = req[c].files \cup {file} /\ req'[c].read = k
    BY <1>0, <1>7 DEF HooksFields
  <2>2. HooksTyped'
    BY <1>0, <2>1, HooksTypedRows DEF HooksTyped
  <2>3. HooksOthers(c)
    BY <1>0, <2>1 DEF HooksOthers, HooksTyped, HooksKept, HooksFit
  <2>4. HooksFit(c, req[c])'
    <3>1. \A f \in req'[c].files : f[2] = c /\ f[3] \in Nat /\ f[3] <= req'[c].read
      BY <1>0, <1>k, <1>f, <2>1 DEF HooksFit
    <3>2. \A m \in DOMAIN w8 : file \notin w8[m]
      <4>1. \A m \in DOMAIN w8 : \A f \in w8[m] : f[2] = c => f[1] < Len(w7)
        BY <1>0 DEF HooksFit
      <4> QED
        BY <1>0, <1>f, <4>1
    <3>3. \A m \in DOMAIN w8' : req'[c].files \cap w8'[m] = {}
      BY <1>0, <2>1, <3>2 DEF HooksFit
    <3> QED
      BY <1>0, <1>k, <2>1, <3>1, <3>3 DEF HooksFit, HooksUnsure, HooksFields
  <2>5. HooksMessages'
    <3>1. \A d \in Hooks!Callers : req[d].at \in HooksUnsure => req'[d] = req[d]
      BY <1>0, <2>1 DEF HooksUnsure
    <3>2. \A m \in DOMAIN w2' : HooksSettled(m)' \/ \E d \in Hooks!Callers' : (req[d].at \in HooksUnsure /\ req[d].msg = m)'
      <4>1. \A m : HooksSettled(m)' = HooksSettled(m)
        BY <1>0 DEF HooksSettled, Hooks!Empty
      <4>2. \A m \in DOMAIN w2 : HooksSettled(m) \/ \E d \in Hooks!Callers : req[d].at \in HooksUnsure /\ req[d].msg = m
        BY <1>0 DEF HooksMessages
      <4>3. \A m \in DOMAIN w2 : HooksSettled(m) \/ \E d \in Hooks!Callers : req'[d].at \in HooksUnsure /\ req'[d].msg = m
        BY <3>1, <4>2
      <4> QED
        BY <1>0, <4>1, <4>3 DEF HooksUnsure
    <3> QED
      BY <1>0, <3>2 DEF HooksMessages
  <2>6. HooksNamed'
    <3>1. \A f \in req'[c].files : f[1] \in Nat /\ f[1] <= Len(w7)
      BY <1>0, <1>f, <2>1 DEF HooksNamed
    <3> QED
      BY <1>0, <2>1, <3>1 DEF HooksNamed
  <2>7. HooksStored'
    <3>1. \A f : f \in w3' <=> f \in w3 \/ f = file
      BY <1>7
    <3>2. \A f : (\E d \in Hooks!Callers : req'[d].at \in HooksHolding /\ f \in req'[d].files)
                 <=> f = file \/ (\E d \in Hooks!Callers : req[d].at \in HooksHolding /\ f \in req[d].files)
      <4>1. \A d \in Hooks!Callers : \A f : (req'[d].at \in HooksHolding /\ f \in req'[d].files)
                                             <=> (d = c /\ f = file) \/ (req[d].at \in HooksHolding /\ f \in req[d].files)
        BY <1>0, <2>1 DEF HooksHolding
      <4> QED
        BY <4>1
    <3> QED
      BY <1>0, <3>1, <3>2 DEF HooksStored, HooksHolding
  <2> QED
    BY <1>0, <2>1, <2>2, <2>3, <2>4, <2>5, <2>6, <2>7, HooksLoudStays DEF HooksUnsure
<1> QED
  BY <1>1, <1>2, <1>4, <1>5, <1>6, <1>7

LEMMA HooksInsertKeeps ==
    ASSUME HooksKept, Len(w7) \in Nat, NEW c \in Hooks!Callers, Hooks!Insert(c)
    PROVE  HooksKept'
<1>0. /\ HooksTyped /\ HooksMessages /\ HooksNamed /\ HooksStored /\ HooksApart /\ DOMAIN req = Hooks!Callers
      /\ Hooks!Callers' = Hooks!Callers /\ last.msg \in Nat /\ DOMAIN w8 = 1..last.msg /\ HooksFit(c, req[c])
      /\ DOMAIN req[c] = HooksFields /\ req[c].at = "insert" /\ req[c].op = "deliver"
      /\ DOMAIN w2 \subseteq 1..last.msg /\ DOMAIN shown \subseteq 1..last.msg /\ DOMAIN last = {"hook", "msg"}
      /\ UNCHANGED <<plan, w1, w7, shown, rows>>
  BY DEF HooksKept, HooksTyped, HooksFit, Hooks!Insert, Hooks!At, Hooks!Callers, Hooks!Pace
<1>1. CASE Hooks!Discard(c) /\ Hooks!Done(c) /\ UNCHANGED <<last, w2, w8>>
  BY <1>0, <1>1, HooksDiscarded DEF HooksHolding, HooksUnsure
<1>2. CASE ~(Hooks!Discard(c) /\ Hooks!Done(c) /\ UNCHANGED <<last, w2, w8>>)
  <2> DEFINE id == last.msg + 1
             posted == [hook |-> req[c].id, channel |-> req[c].row.channel, text |-> req[c].text,
                        embeds |-> req[c].embeds, files |-> {}]
  <2>1. /\ ~Hooks!Empty(req[c].text, req[c].embeds, req[c].files) /\ req[c].row.channel \in w1
        /\ last' = [last EXCEPT !.msg = id] /\ w2' = Hooks!With(w2, id, posted) /\ w8' = Hooks!With(w8, id, req[c].files)
        /\ req' = [req EXCEPT ![c].at = "bind", ![c].msg = id] /\ w3' = w3
    BY <1>2 DEF Hooks!Insert
  <2>2. /\ DOMAIN posted = {"hook", "channel", "text", "embeds", "files"} /\ posted.channel = req[c].row.channel
        /\ posted.text = req[c].text /\ posted.embeds = req[c].embeds /\ posted.files = {}
    OBVIOUS
  <2>3. id \in Nat /\ id \notin 1..last.msg /\ id # 0 /\ 1..id = (1..last.msg) \cup {id}
    BY <1>0
  <2>m. id = last.msg + 1
    OBVIOUS
  <2> HIDE DEF id, posted
  <2>4. last'.msg = id /\ last'.hook = last.hook /\ DOMAIN last' = DOMAIN last
    BY <1>0, <2>1
  <2>5. /\ DOMAIN w2' = DOMAIN w2 \cup {id} /\ w2'[id] = posted /\ \A m \in DOMAIN w2 : w2'[m] = w2[m]
        /\ DOMAIN w8' = DOMAIN w8 \cup {id} /\ w8'[id] = req[c].files /\ \A m \in DOMAIN w8 : w8'[m] = w8[m]
    BY <1>0, <2>1, <2>3 DEF Hooks!With
  <2>6. /\ DOMAIN req' = Hooks!Callers /\ \A d \in Hooks!Callers \ {c} : req'[d] = req[d]
        /\ DOMAIN req'[c] = HooksFields /\ req'[c].at = "bind" /\ req'[c].op = "deliver" /\ req'[c].msg = id
        /\ req'[c].files = req[c].files /\ req'[c].read = req[c].read
    BY <1>0, <2>1 DEF HooksFields
  <2>7. HooksTyped'
    <3>1. \A m \in DOMAIN w2' : DOMAIN w2'[m] = {"hook", "channel", "text", "embeds", "files"} /\ w2'[m].channel \in w1
      BY <1>0, <2>1, <2>2, <2>5 DEF HooksTyped
    <3>2. DOMAIN w2' \subseteq 1..id /\ DOMAIN w8' = 1..id /\ DOMAIN shown' \subseteq 1..id
      BY <1>0, <2>3, <2>5
    <3> QED
      BY <1>0, <2>3, <2>4, <2>6, <3>1, <3>2 DEF HooksTyped
  <2>8. \A d \in Hooks!Callers \ {c} : req[d].at \in HooksUnsure =>
            req[d].msg \in 1..last.msg /\ req[d].msg \notin DOMAIN shown
    BY <1>0 DEF HooksKept, HooksFit, HooksUnsure
  <2>9. HooksOthers(c)
    <3>1. DOMAIN w8' = 1..last'.msg /\ last'.msg \in Nat /\ last.msg <= last'.msg
      BY <1>0, <2>3, <2>4, <2>5, <2>m
    <3>2. \A m \in DOMAIN w8' \ DOMAIN w8 : \A f \in w8'[m] : f[2] = c
      BY <1>0, <2>5 DEF HooksFit
    <3>3. \A m \in DOMAIN w2' : m \in DOMAIN w8 => m \in DOMAIN w2
      BY <1>0, <2>3, <2>5
    <3>4. \A d \in Hooks!Callers \ {c} : req[d].at \in HooksUnsure =>
            /\ req[d].msg \notin DOMAIN shown'
            /\ req[d].msg \in DOMAIN w2' => req[d].msg \in DOMAIN w2 /\ w2'[req[d].msg] = w2[req[d].msg]
      BY <1>0, <2>3, <2>5, <2>8
    <3> QED
      BY <1>0, <2>5, <2>6, <3>1, <3>2, <3>3, <3>4 DEF HooksOthers
  <2>10. HooksFit(c, req[c])'
    <3>1. id \notin DOMAIN shown' /\ id \in 0..last'.msg /\ req'[c].read \in Nat
      BY <1>0, <2>3, <2>4, <2>6 DEF HooksFit
    <3>2. ~Hooks!Empty(w2'[id].text, w2'[id].embeds, req'[c].files) /\ w2'[id].files = {} /\ w8'[id] = req'[c].files
      BY <2>1, <2>2, <2>5, <2>6
    <3> QED
      BY <2>3, <2>6, <3>1, <3>2 DEF HooksFit, HooksUnsure, HooksFields, Hooks!Empty
  <2>11. HooksMessages'
    <3>1. ASSUME NEW m \in DOMAIN w2', ~HooksSettled(m)'
          PROVE  \E d \in Hooks!Callers' : (req[d].at \in HooksUnsure /\ req[d].msg = m)'
      <4>1. CASE m = id
        BY <1>0, <2>6, <4>1 DEF HooksUnsure
      <4>2. CASE m # id
        <5>1. m \in DOMAIN w2 /\ m \in DOMAIN w8 /\ w2'[m] = w2[m] /\ w8'[m] = w8[m]
          BY <1>0, <2>5, <3>1, <4>2
        <5>2. ~HooksSettled(m)
          BY <3>1, <5>1 DEF HooksSettled, Hooks!Empty
        <5>3. PICK d \in Hooks!Callers : req[d].at \in HooksUnsure /\ req[d].msg = m
          BY <1>0, <5>1, <5>2 DEF HooksMessages
        <5> QED
          BY <1>0, <2>6, <5>3 DEF HooksUnsure
      <4> QED
        BY <4>1, <4>2
    <3>2. \A m \in DOMAIN shown' : m \in DOMAIN w2' => shown'[m].files = w8'[m]
      BY <1>0, <2>3, <2>5 DEF HooksMessages
    <3> QED
      BY <3>1, <3>2 DEF HooksMessages
  <2>12. HooksNamed'
    <3>1. \A m \in DOMAIN w8' : \A f \in w8'[m] : f[1] \in Nat /\ f[1] <= Len(w7)
      BY <1>0, <2>5 DEF HooksNamed
    <3>2. \A m, n \in DOMAIN w8' : m # n => w8'[m] \cap w8'[n] = {}
      <4>1. \A m \in DOMAIN w8 : req[c].files \cap w8[m] = {}
        BY <1>0 DEF HooksFit
      <4> QED
        BY <1>0, <2>3, <2>5, <4>1 DEF HooksNamed
    <3> QED
      BY <1>0, <2>6, <3>1, <3>2 DEF HooksNamed
  <2>13. HooksStored'
    <3>1. \A f : (\E m \in DOMAIN w2' : f \in w2'[m].files) <=> (\E m \in DOMAIN w2 : f \in w2[m].files)
      BY <2>2, <2>5
    <3>2. \A d \in Hooks!Callers : \A f : (req'[d].at \in HooksHolding /\ f \in req'[d].files)
                                           <=> (req[d].at \in HooksHolding /\ f \in req[d].files)
      BY <1>0, <2>6 DEF HooksHolding
    <3> QED
      BY <1>0, <2>1, <3>1, <3>2 DEF HooksStored, HooksHolding
  <2> QED
    BY <1>0, <2>6, <2>7, <2>9, <2>10, <2>11, <2>12, <2>13, <2>m, HooksLoudStays
<1> QED
  BY <1>1, <1>2

LEMMA HooksRollbackKeeps ==
    ASSUME HooksKept, Len(w7) \in Nat, NEW c \in Hooks!Callers, Hooks!Rollback(c)
    PROVE  HooksKept'
BY HooksDiscarded DEF Hooks!Rollback, Hooks!At, Hooks!Pace, Hooks!Told, HooksHolding

LEMMA HooksBindKeeps ==
    ASSUME HooksKept, Len(w7) \in Nat, NEW c \in Hooks!Callers, NEW fails, Hooks!Bind(c, fails)
    PROVE  HooksKept'
<1> DEFINE id == req[c].msg
           lost == req[c].files # {} /\ (fails \/ id \notin DOMAIN w2)
<1>0. /\ HooksTyped /\ HooksMessages /\ HooksNamed /\ HooksStored /\ HooksApart /\ DOMAIN req = Hooks!Callers
      /\ Hooks!Callers' = Hooks!Callers /\ last.msg \in Nat /\ DOMAIN w8 = 1..last.msg /\ HooksFit(c, req[c])
      /\ DOMAIN req[c] = HooksFields /\ req[c].at = "bind" /\ req[c].op = "deliver" /\ req[c].read \in Nat
      /\ DOMAIN w2 \subseteq 1..last.msg /\ DOMAIN shown \subseteq 1..last.msg
      /\ id \in 0..last.msg /\ id # 0 /\ w8[id] = req[c].files /\ id \notin DOMAIN shown
      /\ (id \in DOMAIN w2 => w2[id].files = {} /\ ~Hooks!Empty(w2[id].text, w2[id].embeds, req[c].files))
      /\ UNCHANGED <<plan, w1, w3, w7, w8, shown, rows, last>>
  BY DEF HooksKept, HooksTyped, HooksFit, HooksUnsure, Hooks!Bind, Hooks!At, Hooks!Callers, Hooks!Pace, Hooks!Told
<1>1. \A d \in Hooks!Callers \ {c} : req[d].msg # id
  BY <1>0 DEF HooksApart, HooksUnsure
<1>2. CASE lost
  <2>1. w2' = w2 /\ req' = [req EXCEPT ![c].at = "rollback", ![c].held = {}]
    BY <1>2 DEF Hooks!Bind, Hooks!GoesOn
  <2> HIDE DEF id, lost
  <2>2. /\ DOMAIN req' = Hooks!Callers /\ \A d \in Hooks!Callers \ {c} : req'[d] = req[d]
        /\ DOMAIN req'[c] = HooksFields /\ req'[c].at = "rollback" /\ req'[c].op = "deliver" /\ req'[c].msg = req[c].msg
        /\ req'[c].files = req[c].files /\ req'[c].read = req[c].read
    BY <1>0, <2>1 DEF HooksFields
  <2>3. HooksTyped'
    BY <1>0, <2>1, <2>2, HooksTypedRows DEF HooksTyped
  <2>4. HooksOthers(c)
    BY <1>0, <2>1, <2>2 DEF HooksOthers, HooksTyped, HooksKept, HooksFit
  <2>5. HooksFit(c, req[c])'
    BY <1>0, <2>1, <2>2 DEF HooksFit, HooksUnsure, HooksFields, id
  <2>6. HooksMessages'
    <3>1. \A d \in Hooks!Callers : req[d].at \in HooksUnsure => req'[d].at \in HooksUnsure /\ req'[d].msg = req[d].msg
      BY <1>0, <2>2 DEF HooksUnsure
    <3>2. \A m : HooksSettled(m)' = HooksSettled(m)
      BY <1>0, <2>1 DEF HooksSettled, Hooks!Empty
    <3>3. \A m \in DOMAIN w2 : HooksSettled(m) \/ \E d \in Hooks!Callers : req[d].at \in HooksUnsure /\ req[d].msg = m
      BY <1>0 DEF HooksMessages
    <3>4. \A m \in DOMAIN w2 : HooksSettled(m) \/ \E d \in Hooks!Callers : req'[d].at \in HooksUnsure /\ req'[d].msg = m
      BY <3>1, <3>3
    <3>5. \A m \in DOMAIN w2' : HooksSettled(m)' \/ \E d \in Hooks!Callers' : (req[d].at \in HooksUnsure /\ req[d].msg = m)'
      BY <1>0, <2>1, <3>2, <3>4 DEF HooksUnsure
    <3>6. \A m \in DOMAIN shown' : m \in DOMAIN w2' => shown'[m].files = w8'[m]
      BY <1>0, <2>1 DEF HooksMessages
    <3> QED
      BY <3>5, <3>6 DEF HooksMessages
  <2>7. HooksNamed'
    BY <1>0, <2>2 DEF HooksNamed
  <2>8. HooksStored'
    <3>1. \A d \in Hooks!Callers : \A f : (req'[d].at \in HooksHolding /\ f \in req'[d].files)
                                           <=> (req[d].at \in HooksHolding /\ f \in req[d].files)
      BY <1>0, <2>2 DEF HooksHolding
    <3> QED
      BY <1>0, <2>1, <3>1 DEF HooksStored, HooksHolding
  <2> QED
    BY <1>0, <2>2, <2>3, <2>4, <2>5, <2>6, <2>7, <2>8, HooksLoudStays DEF HooksUnsure
<1>3. CASE ~lost
  <2>1. /\ w2' = (IF id \notin DOMAIN w2 THEN w2 ELSE [w2 EXCEPT ![id].files = req[c].files])
        /\ req' = [req EXCEPT ![c].at = "tell", ![c].held = req[c].files]
    BY <1>3 DEF Hooks!Bind, Hooks!GoesOn
  <2>2. id \notin DOMAIN w2 => req[c].files = {}
    BY <1>3
  <2> HIDE DEF lost
  <2>3. /\ DOMAIN req' = Hooks!Callers /\ \A d \in Hooks!Callers \ {c} : req'[d] = req[d]
        /\ DOMAIN req'[c] = HooksFields /\ req'[c].at = "tell" /\ req'[c].op = "deliver" /\ req'[c].msg = req[c].msg
        /\ req'[c].files = req[c].files /\ req'[c].read = req[c].read /\ req'[c].held = req[c].files
    BY <1>0, <2>1 DEF HooksFields
  <2> HIDE DEF id
  <2>4. /\ DOMAIN w2' = DOMAIN w2 /\ \A m \in DOMAIN w2 : m # id => w2'[m] = w2[m]
        /\ id \in DOMAIN w2 => /\ DOMAIN w2'[id] = DOMAIN w2[id] /\ w2'[id].channel = w2[id].channel
                               /\ w2'[id].text = w2[id].text /\ w2'[id].embeds = w2[id].embeds
                               /\ w2'[id].files = req[c].files
    <3>1. CASE id \notin DOMAIN w2
      BY <2>1, <3>1
    <3>2. CASE id \in DOMAIN w2
      <4>1. DOMAIN w2[id] = {"hook", "channel", "text", "embeds", "files"}
        BY <1>0, <3>2 DEF HooksTyped
      <4>2. w2' = [w2 EXCEPT ![id].files = req[c].files]
        BY <2>1, <3>2
      <4> QED
        BY <3>2, <4>1, <4>2
    <3> QED
      BY <3>1, <3>2
  <2>5. HooksTyped'
    <3>1. \A m \in DOMAIN w2' : DOMAIN w2'[m] = {"hook", "channel", "text", "embeds", "files"} /\ w2'[m].channel \in w1
      BY <1>0, <2>4 DEF HooksTyped
    <3> QED
      BY <1>0, <2>3, <2>4, <3>1 DEF HooksTyped
  <2>6. HooksOthers(c)
    <3>1. \A d \in Hooks!Callers : req[d].at \in HooksUnsure => req[d].msg \notin DOMAIN shown
      BY <1>0 DEF HooksKept, HooksFit
    <3> QED
      BY <1>0, <1>1, <2>3, <2>4, <3>1 DEF HooksOthers
  <2>7. HooksFit(c, req[c])'
    BY <1>0, <2>3 DEF HooksFit, HooksUnsure, HooksFields, id
  <2>8. HooksMessages'
    <3>1. ASSUME NEW m \in DOMAIN w2', ~HooksSettled(m)'
          PROVE  \E d \in Hooks!Callers' : (req[d].at \in HooksUnsure /\ req[d].msg = m)'
      <4>1. m # id
        BY <1>0, <2>4, <3>1 DEF HooksSettled, Hooks!Empty
      <4>2. m \in DOMAIN w2 /\ ~HooksSettled(m)
        BY <1>0, <2>4, <3>1, <4>1 DEF HooksSettled, Hooks!Empty
      <4>3. PICK d \in Hooks!Callers : req[d].at \in HooksUnsure /\ req[d].msg = m
        BY <1>0, <4>2 DEF HooksMessages
      <4>4. d # c
        BY <4>1, <4>3 DEF id
      <4> QED
        BY <1>0, <2>3, <4>3, <4>4 DEF HooksUnsure
    <3>2. \A m \in DOMAIN shown' : m \in DOMAIN w2' => shown'[m].files = w8'[m]
      BY <1>0, <2>4 DEF HooksMessages
    <3> QED
      BY <3>1, <3>2 DEF HooksMessages
  <2>9. HooksNamed'
    BY <1>0, <2>3 DEF HooksNamed
  <2>10. HooksStored'
    <3>1. \A f : f \in w3 <=> \/ f \in req[c].files
                              \/ \E m \in DOMAIN w2 : m # id /\ f \in w2[m].files
                              \/ \E d \in Hooks!Callers \ {c} : req[d].at \in HooksHolding /\ f \in req[d].files
      BY <1>0 DEF HooksStored, HooksHolding
    <3>2. \A f : f \in req[c].files \/ (\E m \in DOMAIN w2 : m # id /\ f \in w2[m].files)
                 <=> \E m \in DOMAIN w2' : f \in w2'[m].files
      BY <2>2, <2>4
    <3>3. \A f : (\E d \in Hooks!Callers \ {c} : req[d].at \in HooksHolding /\ f \in req[d].files)
                 <=> \E d \in Hooks!Callers : req'[d].at \in HooksHolding /\ f \in req'[d].files
      BY <2>3 DEF HooksHolding
    <3> QED
      BY <1>0, <3>1, <3>2, <3>3 DEF HooksStored, HooksHolding
  <2> QED
    BY <1>0, <2>3, <2>5, <2>6, <2>7, <2>8, <2>9, <2>10, HooksLoudStays DEF HooksUnsure
<1> QED
  BY <1>2, <1>3

\* A step of one request that changes what is shown and nothing else that is stored.
LEMMA HooksShowing ==
    ASSUME HooksKept, Len(w7) \in Nat, NEW c \in Hooks!Callers, Hooks!Done(c), req[c].at \notin HooksHolding,
           UNCHANGED <<plan, w1, w2, w3, w7, w8, rows, last>>,
           DOMAIN shown' \subseteq DOMAIN shown \cup {req[c].msg}, req[c].at # "gone" => req[c].msg # 0,
           DOMAIN shown' \subseteq 1..last.msg,
           \A m \in DOMAIN shown' : m \in DOMAIN w2 => shown'[m].files = w8[m]
    PROVE  HooksKept'
<1>0. /\ HooksTyped /\ HooksMessages /\ HooksNamed /\ HooksStored /\ HooksApart /\ DOMAIN req = Hooks!Callers
      /\ Hooks!Callers' = Hooks!Callers /\ last.msg \in Nat /\ DOMAIN w8 = 1..last.msg /\ last'.msg \in Nat
  BY DEF HooksKept, HooksTyped, Hooks!Callers
<1>1. /\ DOMAIN req' = Hooks!Callers /\ \A d \in Hooks!Callers \ {c} : req'[d] = req[d]
      /\ req'[c].at = "free" /\ req'[c].msg = 0 /\ HooksFit(c, req[c])'
  BY <1>0, HooksIsDone
<1>2. HooksOthers(c)
  <2>1. \A d \in Hooks!Callers \ {c} : req[d].at \in HooksUnsure => req[d].msg \notin DOMAIN shown /\ req[d].msg # req[c].msg
    BY <1>0 DEF HooksKept, HooksFit, HooksApart
  <2> QED
    BY <1>0, <1>1, <2>1 DEF HooksOthers
<1>3. HooksTyped'
  BY <1>0, <1>1 DEF HooksTyped
<1>4. HooksMessages'
  <2>1. \A d \in Hooks!Callers : req[d].at \in HooksUnsure => req'[d] = req[d]
    BY <1>1 DEF HooksHolding, HooksUnsure
  <2>2. \A m : HooksSettled(m)' = HooksSettled(m)
    BY DEF HooksSettled, Hooks!Empty
  <2>3. \A m \in DOMAIN w2 : HooksSettled(m) \/ \E d \in Hooks!Callers : req[d].at \in HooksUnsure /\ req[d].msg = m
    BY <1>0 DEF HooksMessages
  <2>4. \A m \in DOMAIN w2 : HooksSettled(m) \/ \E d \in Hooks!Callers : req'[d].at \in HooksUnsure /\ req'[d].msg = m
    BY <2>1, <2>3
  <2>5. \A m \in DOMAIN w2' : HooksSettled(m)' \/ \E d \in Hooks!Callers' : (req[d].at \in HooksUnsure /\ req[d].msg = m)'
    BY <1>0, <2>2, <2>4 DEF HooksUnsure
  <2> QED
    BY <2>5 DEF HooksMessages
<1>5. HooksNamed'
  BY <1>0, <1>1 DEF HooksNamed
<1>6. HooksStored'
  <2>1. \A d \in Hooks!Callers : \A f : (req'[d].at \in HooksHolding /\ f \in req'[d].files)
                                         <=> (req[d].at \in HooksHolding /\ f \in req[d].files)
    BY <1>0, <1>1 DEF HooksHolding
  <2> QED
    BY <1>0, <2>1 DEF HooksStored, HooksHolding
<1> QED
  BY <1>0, <1>1, <1>2, <1>3, <1>4, <1>5, <1>6, HooksLoudStays DEF HooksUnsure

LEMMA HooksShowKeeps ==
    ASSUME HooksKept, Len(w7) \in Nat, NEW c \in Hooks!Callers, Hooks!Announce(c) \/ Hooks!Retell(c) \/ Hooks!TellGone(c)
    PROVE  HooksKept'
<1>0. /\ HooksFit(c, req[c]) /\ DOMAIN shown \subseteq 1..last.msg /\ last.msg \in Nat
      /\ \A m \in DOMAIN shown : m \in DOMAIN w2 => shown[m].files = w8[m]
  BY DEF HooksKept, HooksTyped, HooksMessages
<1>1. /\ UNCHANGED <<plan, w1, w2, w3, w7, w8, rows, last>> /\ req[c].at \in {"tell", "retell", "gone"} /\ Hooks!Done(c)
  BY DEF Hooks!Announce, Hooks!Retell, Hooks!TellGone, Hooks!At, Hooks!Tables, Hooks!Pace
<1>2. req[c].msg \in 1..last.msg
  BY <1>0, <1>1 DEF HooksFit
<1>3. req[c].at \in {"tell", "retell"} => (req[c].msg \in DOMAIN w2 => req[c].held = w8[req[c].msg])
  BY <1>0 DEF HooksFit
<1> DEFINE told == [text |-> req[c].text, embeds |-> req[c].embeds, files |-> req[c].held]
<1>4. \/ shown' = shown
      \/ req[c].at \in {"tell", "retell"} /\ shown' = Hooks!With(shown, req[c].msg, told)
      \/ shown' = Hooks!Without(shown, {req[c].msg})
  BY DEF Hooks!Announce, Hooks!Retell, Hooks!TellGone, Hooks!At
<1>5. told.files = req[c].held
  OBVIOUS
<1> HIDE DEF told
<1>6. DOMAIN shown' \subseteq DOMAIN shown \cup {req[c].msg}
  BY <1>4 DEF Hooks!With, Hooks!Without
<1>7. DOMAIN shown' \subseteq 1..last.msg
  BY <1>0, <1>2, <1>6
<1>8. \A m \in DOMAIN shown' : m \in DOMAIN w2 => shown'[m].files = w8[m]
  <2>1. CASE req[c].at \in {"tell", "retell"} /\ shown' = Hooks!With(shown, req[c].msg, told)
    BY <1>0, <1>3, <1>5, <2>1 DEF Hooks!With
  <2>2. CASE shown' = Hooks!Without(shown, {req[c].msg})
    BY <1>0, <2>2 DEF Hooks!Without
  <2>3. CASE shown' = shown
    BY <1>0, <2>3
  <2> QED
    BY <1>4, <2>1, <2>2, <2>3
<1>9. req[c].at \notin HooksHolding /\ req[c].msg # 0
  BY <1>0, <1>1, <1>2 DEF HooksHolding
<1> QED
  BY <1>1, <1>6, <1>7, <1>8, <1>9, HooksShowing

LEMMA HooksWriteKeeps ==
    ASSUME HooksKept, Len(w7) \in Nat, NEW c \in Hooks!Callers, Hooks!Write(c)
    PROVE  HooksKept'
<1> DEFINE id == req[c].msg
<1>0. /\ HooksTyped /\ HooksMessages /\ HooksNamed /\ HooksStored /\ HooksApart /\ DOMAIN req = Hooks!Callers
      /\ Hooks!Callers' = Hooks!Callers /\ last.msg \in Nat /\ DOMAIN w8 = 1..last.msg /\ HooksFit(c, req[c])
      /\ DOMAIN req[c] = HooksFields /\ req[c].at = "write" /\ req[c].op = "edit" /\ req[c].read \in Nat
      /\ ~Hooks!Empty(req[c].text, req[c].embeds, req[c].held) /\ (id \in DOMAIN w2 => req[c].held = w8[id])
      /\ UNCHANGED <<plan, w1, w3, w7, w8, shown, rows, last>>
  BY DEF HooksKept, HooksTyped, HooksFit, Hooks!Write, Hooks!At, Hooks!Callers, Hooks!Pace, Hooks!Told
<1>1. CASE id \notin DOMAIN w2
  <2>1. w2' = w2 /\ Hooks!Done(c)
    BY <1>1 DEF Hooks!Write
  <2>2. HooksTyped'
    BY <1>0, <2>1, HooksDoneTyped
  <2>3. HooksGood(c)
    BY <1>0, <2>1, <2>2, HooksDoneGood DEF HooksHolding
  <2> QED
    BY <2>3, HooksQuietStays DEF HooksGood
<1>2. CASE id \in DOMAIN w2
  <2>1. w2' = [w2 EXCEPT ![id] = [w2[id] EXCEPT !.text = req[c].text, !.embeds = req[c].embeds]] /\ Hooks!Move(c, "retell")
    BY <1>2 DEF Hooks!Write, Hooks!Rewritten
  <2>2. /\ DOMAIN req' = Hooks!Callers /\ \A d \in Hooks!Callers \ {c} : req'[d] = req[d]
        /\ DOMAIN req'[c] = HooksFields /\ req'[c].at = "retell" /\ req'[c].op = "edit" /\ req'[c].msg = req[c].msg
        /\ req'[c].files = req[c].files /\ req'[c].read = req[c].read /\ req'[c].held = req[c].held
    BY <1>0, <2>1, HooksMoves
  <2>3. w2[id].files = w8[id]
    BY <1>0, <1>2, HooksKnown DEF HooksUnsure
  <2> HIDE DEF id
  <2>4. /\ DOMAIN w2' = DOMAIN w2 /\ \A m \in DOMAIN w2 : m # id => w2'[m] = w2[m]
        /\ DOMAIN w2'[id] = DOMAIN w2[id] /\ w2'[id].channel = w2[id].channel /\ w2'[id].files = w2[id].files
        /\ w2'[id].text = req[c].text /\ w2'[id].embeds = req[c].embeds
    <3>1. DOMAIN w2[id] = {"hook", "channel", "text", "embeds", "files"}
      BY <1>0, <1>2 DEF HooksTyped
    <3> QED
      BY <1>2, <2>1, <3>1
  <2>5. HooksTyped'
    <3>1. \A m \in DOMAIN w2' : DOMAIN w2'[m] = {"hook", "channel", "text", "embeds", "files"} /\ w2'[m].channel \in w1
      BY <1>0, <1>2, <2>4 DEF HooksTyped
    <3> QED
      BY <1>0, <2>2, <2>4, <3>1 DEF HooksTyped
  <2>6. HooksOthers(c)
    <3>1. \A d \in Hooks!Callers \ {c} : req[d].at \in HooksUnsure => req[d].msg \notin DOMAIN shown /\ req[d].msg # id
      BY <1>0 DEF HooksKept, HooksFit, HooksApart, id
    <3> QED
      BY <1>0, <2>2, <2>4, <3>1 DEF HooksOthers
  <2>7. HooksFit(c, req[c])'
    BY <1>0, <1>2, <2>2 DEF HooksFit, HooksUnsure, HooksFields, id
  <2>8. HooksMessages'
    <3>1. ASSUME NEW m \in DOMAIN w2', ~HooksSettled(m)'
          PROVE  \E d \in Hooks!Callers' : (req[d].at \in HooksUnsure /\ req[d].msg = m)'
      <4>1. m # id
        BY <1>0, <1>2, <2>3, <2>4, <3>1 DEF HooksSettled, Hooks!Empty
      <4>2. m \in DOMAIN w2 /\ ~HooksSettled(m)
        BY <1>0, <2>4, <3>1, <4>1 DEF HooksSettled, Hooks!Empty
      <4>3. PICK d \in Hooks!Callers : req[d].at \in HooksUnsure /\ req[d].msg = m
        BY <1>0, <4>2 DEF HooksMessages
      <4>4. d # c
        BY <4>1, <4>3 DEF id
      <4> QED
        BY <1>0, <2>2, <4>3, <4>4 DEF HooksUnsure
    <3>2. \A m \in DOMAIN shown' : m \in DOMAIN w2' => shown'[m].files = w8'[m]
      BY <1>0, <2>4 DEF HooksMessages
    <3> QED
      BY <3>1, <3>2 DEF HooksMessages
  <2>9. HooksNamed'
    BY <1>0, <2>2 DEF HooksNamed
  <2>10. HooksStored'
    <3>1. \A f : (\E m \in DOMAIN w2' : f \in w2'[m].files) <=> (\E m \in DOMAIN w2 : f \in w2[m].files)
      BY <1>2, <2>4
    <3>2. \A d \in Hooks!Callers : \A f : (req'[d].at \in HooksHolding /\ f \in req'[d].files)
                                           <=> (req[d].at \in HooksHolding /\ f \in req[d].files)
      BY <1>0, <2>2 DEF HooksHolding
    <3> QED
      BY <1>0, <3>1, <3>2 DEF HooksStored, HooksHolding
  <2> QED
    BY <1>0, <2>2, <2>5, <2>6, <2>7, <2>8, <2>9, <2>10, HooksLoudStays DEF HooksUnsure
<1> QED
  BY <1>1, <1>2

\* Messages that go with all their files leave the others theirs, and the requests what they hold.
LEMMA HooksFewer ==
    ASSUME HooksKept, NEW gone, DOMAIN w2' = DOMAIN w2 \ gone, \A m \in DOMAIN w2' : w2'[m] = w2[m],
           \A f : f \in w3' <=> f \in w3 /\ \A m \in DOMAIN w2 \cap gone : f \notin w2[m].files
    PROVE  \A f : f \in w3' <=> \/ \E m \in DOMAIN w2' : f \in w2'[m].files
                                \/ \E d \in Hooks!Callers : req[d].at \in HooksHolding /\ f \in req[d].files
<1>1. ASSUME NEW f, NEW m \in DOMAIN w2, f \in w2[m].files, NEW n \in DOMAIN w2, f \in w2[n].files PROVE m = n
  <2>1. m \in DOMAIN w8 /\ f \in w8[m] /\ n \in DOMAIN w8 /\ f \in w8[n]
    BY <1>1, HooksOnMessage
  <2> QED
    BY <2>1 DEF HooksKept, HooksNamed
<1>2. ASSUME NEW f, NEW m \in DOMAIN w2, f \in w2[m].files, NEW d \in Hooks!Callers, req[d].at \in HooksHolding
      PROVE  f \notin req[d].files
  BY <1>2, HooksOwn
<1>3. \A f : f \in w3 <=> \/ \E m \in DOMAIN w2 : f \in w2[m].files
                          \/ \E d \in Hooks!Callers : req[d].at \in HooksHolding /\ f \in req[d].files
  BY DEF HooksKept, HooksStored
<1>4. \A f : (\E m \in DOMAIN w2' : f \in w2'[m].files) <=> (\E m \in DOMAIN w2 \ gone : f \in w2[m].files)
  OBVIOUS
<1>5. \A f : (\E m \in DOMAIN w2 \ gone : f \in w2[m].files)
             <=> (\E m \in DOMAIN w2 : f \in w2[m].files) /\ \A m \in DOMAIN w2 \cap gone : f \notin w2[m].files
  BY <1>1
<1>6. \A f : (\E d \in Hooks!Callers : req[d].at \in HooksHolding /\ f \in req[d].files)
             => \A m \in DOMAIN w2 \cap gone : f \notin w2[m].files
  BY <1>2
<1> QED
  BY <1>3, <1>4, <1>5, <1>6

LEMMA HooksRemoveKeeps ==
    ASSUME HooksKept, Len(w7) \in Nat, NEW c \in Hooks!Callers, Hooks!Remove(c)
    PROVE  HooksKept'
<1> DEFINE id == req[c].msg
<1>0. /\ HooksTyped /\ HooksMessages /\ HooksNamed /\ HooksStored /\ HooksApart /\ DOMAIN req = Hooks!Callers
      /\ Hooks!Callers' = Hooks!Callers /\ last.msg \in Nat /\ DOMAIN w8 = 1..last.msg /\ HooksFit(c, req[c])
      /\ DOMAIN req[c] = HooksFields /\ req[c].at = "remove" /\ req[c].op = "delete" /\ req[c].read \in Nat
      /\ (id \in DOMAIN w2 => req[c].held = w8[id])
      /\ UNCHANGED <<plan, w1, w7, w8, shown, rows, last>>
  BY DEF HooksKept, HooksTyped, HooksFit, Hooks!Remove, Hooks!At, Hooks!Callers, Hooks!Pace, Hooks!Told
<1>1. CASE id \notin DOMAIN w2
  <2>1. w2' = w2 /\ w3' = w3 /\ Hooks!Done(c)
    BY <1>1 DEF Hooks!Remove
  <2>2. HooksTyped'
    BY <1>0, <2>1, HooksDoneTyped
  <2>3. HooksGood(c)
    BY <1>0, <2>1, <2>2, HooksDoneGood DEF HooksHolding
  <2> QED
    BY <2>3, HooksQuietStays DEF HooksGood
<1>2. CASE id \in DOMAIN w2
  <2>1. w2' = Hooks!Without(w2, {id}) /\ w3' = w3 \ req[c].held /\ Hooks!Move(c, "gone")
    BY <1>2 DEF Hooks!Remove
  <2>2. /\ DOMAIN req' = Hooks!Callers /\ \A d \in Hooks!Callers \ {c} : req'[d] = req[d]
        /\ DOMAIN req'[c] = HooksFields /\ req'[c].at = "gone" /\ req'[c].op = "delete" /\ req'[c].msg = req[c].msg
        /\ req'[c].files = req[c].files /\ req'[c].read = req[c].read
    BY <1>0, <2>1, HooksMoves
  <2>3. w2[id].files = req[c].held
    BY <1>0, <1>2, HooksKnown DEF HooksUnsure
  <2> HIDE DEF id
  <2>4. DOMAIN w2' = DOMAIN w2 \ {id} /\ \A m \in DOMAIN w2' : w2'[m] = w2[m]
    BY <2>1 DEF Hooks!Without
  <2>5. HooksTyped'
    BY <1>0, <2>2, <2>4 DEF HooksTyped
  <2>6. \A d \in Hooks!Callers \ {c} : req[d].at \in HooksUnsure => req[d].msg \notin DOMAIN shown /\ req[d].msg # id
    BY <1>0 DEF HooksKept, HooksFit, HooksApart, id
  <2>7. HooksOthers(c)
    BY <1>0, <2>2, <2>4, <2>6 DEF HooksOthers
  <2>8. HooksFit(c, req[c])'
    BY <1>0, <2>2 DEF HooksFit, HooksUnsure, HooksFields
  <2>9. HooksMessages'
    <3>1. ASSUME NEW m \in DOMAIN w2', ~HooksSettled(m)'
          PROVE  \E d \in Hooks!Callers' : (req[d].at \in HooksUnsure /\ req[d].msg = m)'
      <4>1. m \in DOMAIN w2 /\ ~HooksSettled(m)
        BY <1>0, <2>4, <3>1 DEF HooksSettled, Hooks!Empty
      <4>2. PICK d \in Hooks!Callers : req[d].at \in HooksUnsure /\ req[d].msg = m
        BY <1>0, <4>1 DEF HooksMessages
      <4>3. d # c
        BY <1>0, <4>2 DEF HooksUnsure
      <4> QED
        BY <1>0, <2>2, <4>2, <4>3 DEF HooksUnsure
    <3>2. \A m \in DOMAIN shown' : m \in DOMAIN w2' => shown'[m].files = w8'[m]
      BY <1>0, <2>4 DEF HooksMessages
    <3> QED
      BY <3>1, <3>2 DEF HooksMessages
  <2>10. HooksNamed'
    BY <1>0, <2>2 DEF HooksNamed
  <2>11. HooksStored'
    <3>1. \A f : f \in w3' <=> f \in w3 /\ \A m \in DOMAIN w2 \cap {id} : f \notin w2[m].files
      BY <1>2, <2>1, <2>3
    <3>2. \A f : f \in w3' <=> \/ \E m \in DOMAIN w2' : f \in w2'[m].files
                               \/ \E d \in Hooks!Callers : req[d].at \in HooksHolding /\ f \in req[d].files
      BY <2>4, <3>1, HooksFewer
    <3>3. \A d \in Hooks!Callers : \A f : (req'[d].at \in HooksHolding /\ f \in req'[d].files)
                                           <=> (req[d].at \in HooksHolding /\ f \in req[d].files)
      BY <1>0, <2>2 DEF HooksHolding
    <3> QED
      BY <1>0, <3>2, <3>3 DEF HooksStored, HooksHolding
  <2> QED
    BY <1>0, <2>2, <2>5, <2>7, <2>8, <2>9, <2>10, <2>11, HooksLoudStays DEF HooksUnsure
<1> QED
  BY <1>1, <1>2

LEMMA HooksDropKeeps ==
    ASSUME HooksKept, NEW channel, Hooks!DropChannel(channel)
    PROVE  HooksKept'
<1> DEFINE gone == {m \in DOMAIN w2 : w2[m].channel = channel}
<1>0. /\ HooksTyped /\ HooksMessages /\ HooksNamed /\ HooksStored /\ HooksApart /\ DOMAIN req = Hooks!Callers
      /\ Hooks!Callers' = Hooks!Callers /\ last.msg \in Nat /\ DOMAIN w8 = 1..last.msg
      /\ \A d \in Hooks!Callers : HooksFit(d, req[d])
      /\ UNCHANGED <<plan, req, w7, w8, last>>
  BY DEF HooksKept, HooksTyped, Hooks!DropChannel, Hooks!Callers, Hooks!Pace
<1>1. /\ w1' = w1 \ {channel} /\ w2' = Hooks!Without(w2, gone) /\ shown' = Hooks!Without(shown, gone)
      /\ w3' = w3 \ UNION {w2[m].files : m \in gone}
      /\ rows' = Hooks!Without(rows, {h \in DOMAIN rows : rows[h].channel = channel})
  BY DEF Hooks!DropChannel
<1>2. gone \subseteq DOMAIN w2 /\ \A m \in DOMAIN w2 : m \in gone <=> w2[m].channel = channel
  OBVIOUS
<1>3. \A f : f \in w3' <=> f \in w3 /\ \A m \in DOMAIN w2 \cap gone : f \notin w2[m].files
  BY <1>1
<1> HIDE DEF gone
<1>4. /\ DOMAIN w2' = DOMAIN w2 \ gone /\ \A m \in DOMAIN w2' : w2'[m] = w2[m]
      /\ DOMAIN shown' = DOMAIN shown \ gone /\ \A m \in DOMAIN shown' : shown'[m] = shown[m]
      /\ DOMAIN rows' \subseteq DOMAIN rows /\ \A h \in DOMAIN rows' : rows'[h] = rows[h] /\ rows[h].channel # channel
  BY <1>1 DEF Hooks!Without
<1>5. HooksTyped'
  BY <1>0, <1>1, <1>2, <1>4 DEF HooksTyped
<1>6. HooksMessages'
  <2>1. ASSUME NEW m \in DOMAIN w2', ~HooksSettled(m)'
        PROVE  \E d \in Hooks!Callers' : (req[d].at \in HooksUnsure /\ req[d].msg = m)'
    <3>1. m \in DOMAIN w2 /\ ~HooksSettled(m)
      BY <1>0, <1>4, <2>1 DEF HooksSettled, Hooks!Empty
    <3> QED
      BY <1>0, <3>1 DEF HooksMessages, HooksUnsure
  <2>2. \A m \in DOMAIN shown' : m \in DOMAIN w2' => shown'[m].files = w8'[m]
    BY <1>0, <1>4 DEF HooksMessages
  <2> QED
    BY <2>1, <2>2 DEF HooksMessages
<1>7. HooksNamed'
  BY <1>0 DEF HooksNamed
<1>8. HooksStored'
  BY <1>0, <1>3, <1>4, HooksFewer DEF HooksStored, HooksHolding
<1>9. HooksApart'
  BY <1>0 DEF HooksApart, HooksUnsure
<1>10. ASSUME NEW d \in Hooks!Callers PROVE HooksFit(d, req[d])'
  <2>1. HooksFit(d, req[d]) /\ UNCHANGED <<req, w7, w8, last>>
    BY <1>0
  <2>2. DOMAIN w2' \subseteq DOMAIN w2 /\ (\A m \in DOMAIN w2' : w2'[m] = w2[m]) /\ DOMAIN shown' \subseteq DOMAIN shown
    BY <1>4
  <2> QED
    BY <2>1, <2>2 DEF HooksFit, HooksUnsure, HooksFields, Hooks!Empty
<1> QED
  BY <1>0, <1>5, <1>6, <1>7, <1>8, <1>9, <1>10 DEF HooksKept

\* What a step that neither looks a bucket up nor takes from one leaves of the pace.
HooksElsewhere(c) ==
    /\ UNCHANGED <<plan, w4, w5, w6, w7>> /\ \A d \in Hooks!Callers \ {c} : req'[d] = req[d]
    /\ req'[c].at \in {"load", "pace", "take"} => req'[c].at # "take" /\ req'[c].id \in Nat

LEMMA HooksPacedElsewhere ==
    ASSUME HooksPaced, HooksTyped, NEW c \in Hooks!Callers, HooksElsewhere(c)
    PROVE  HooksPaced'
<1>1. /\ Hooks!Callers' = Hooks!Callers /\ UNCHANGED <<w4, w5, w6, w7>> /\ \A d \in Hooks!Callers \ {c} : req'[d] = req[d]
      /\ req'[c].at \in {"load", "pace", "take"} => req'[c].at # "take" /\ req'[c].id \in Nat
  BY DEF HooksElsewhere, Hooks!Callers
<1>2. \A d \in Hooks!Callers : req[d].at \in {"load", "pace", "take"} => req[d].id \in Nat
  BY DEF HooksPaced, HooksDrawn
<1>3. \A d \in Hooks!Callers : req'[d].at \in {"load", "pace", "take"} =>
        /\ req'[d].id \in Nat
        /\ req'[d].at = "take" => req[d].at = "take" /\ req'[d].id = req[d].id /\ req'[d].bucket = req[d].bucket
  BY <1>1, <1>2
<1> QED
  BY <1>1, <1>3, HooksPacedFrames DEF HooksTyped

LEMMA HooksDoneElsewhere ==
    ASSUME HooksTyped, NEW c \in Hooks!Callers, Hooks!Done(c), UNCHANGED <<plan, w4, w5, w6, w7>>
    PROVE  HooksElsewhere(c)
<1>1. last.msg \in Nat /\ DOMAIN req = Hooks!Callers
  BY DEF HooksTyped
<1>2. (\A d \in Hooks!Callers \ {c} : req'[d] = req[d]) /\ req'[c].at = "free"
  BY <1>1 DEF Hooks!Done, Hooks!Free
<1> QED
  BY <1>2 DEF HooksElsewhere

LEMMA HooksMoveElsewhere ==
    ASSUME HooksTyped, NEW c \in Hooks!Callers, DOMAIN req[c] = HooksFields, NEW at, Hooks!Move(c, at), at \notin {"load", "pace", "take"},
           UNCHANGED <<plan, w4, w5, w6, w7>>
    PROVE  HooksElsewhere(c)
<1>1. (\A d \in Hooks!Callers \ {c} : req'[d] = req[d]) /\ req'[c].at = at
  BY HooksMoves DEF HooksTyped
<1> QED
  BY <1>1 DEF HooksElsewhere

LEMMA HooksAskElsewhere ==
    ASSUME HooksTyped, NEW c \in Hooks!Callers, NEW r, Hooks!Ask(c, r), r.at # "take",
           r.at \in {"load", "pace"} => r.id \in Nat, UNCHANGED <<plan, w4, w5, w6, w7>>
    PROVE  HooksElsewhere(c)
<1>1. (\A d \in Hooks!Callers \ {c} : req'[d] = req[d]) /\ req'[c] = r
  BY DEF HooksTyped, Hooks!Ask
<1> QED
  BY <1>1 DEF HooksElsewhere

LEMMA HooksAskingElsewhere ==
    ASSUME HooksTyped, NEW c \in Hooks!Callers,
           \/ Hooks!Mint(c) \/ Hooks!Change(c) \/ Hooks!Revoke(c)
           \/ \E h \in DOMAIN rows : Hooks!Rename(c, h) \/ Hooks!GiveUp(c, h) \/ Hooks!Deliver(c, h)
           \/ \E h \in DOMAIN rows, m \in DOMAIN shown : Hooks!Amend(c, h, m) \/ Hooks!TakeBack(c, h, m)
    PROVE  HooksElsewhere(c)
<1>0. DOMAIN rows \subseteq Nat
  BY DEF HooksTyped
<1>1. CASE Hooks!Mint(c)
  <2> DEFINE r(channel) == [Hooks!Free EXCEPT !.at = "count", !.op = "mint", !.row = [channel |-> channel, name |-> c]]
  <2>1. PICK channel : Hooks!Ask(c, r(channel))
    BY <1>1 DEF Hooks!Mint
  <2>2. r(channel).at = "count"
    BY DEF Hooks!Free
  <2> HIDE DEF r
  <2> QED
    BY <1>1, <2>1, <2>2, HooksAskElsewhere DEF Hooks!Mint, Hooks!Pace
<1>2. CASE Hooks!Change(c)
  <2> DEFINE r(at, h, row) == [Hooks!Free EXCEPT !.at = at, !.op = "change", !.id = h, !.row = row]
  <2>1. PICK h \in Hooks!Listed(c), channel \in w1, renamed \in BOOLEAN :
          Hooks!Ask(c, r(IF channel # rows[h].channel THEN "count" ELSE "save", h,
                         [channel |-> channel, name |-> IF renamed THEN c ELSE rows[h].name]))
    BY <1>2 DEF Hooks!Change
  <2>2. PICK at, row : at \in {"count", "save"} /\ Hooks!Ask(c, r(at, h, row))
    <3> DEFINE place == IF channel # rows[h].channel THEN "count" ELSE "save"
               new == [channel |-> channel, name |-> IF renamed THEN c ELSE rows[h].name]
    <3>1. place \in {"count", "save"} /\ Hooks!Ask(c, r(place, h, new))
      BY <2>1
    <3> HIDE DEF place, new, r
    <3> QED
      BY <3>1
  <2>3. r(at, h, row).at = at
    BY DEF Hooks!Free
  <2> HIDE DEF r
  <2> QED
    BY <1>2, <2>2, <2>3, HooksAskElsewhere DEF Hooks!Change, Hooks!Pace
<1>3. CASE Hooks!Revoke(c)
  <2> DEFINE r(h) == [Hooks!Free EXCEPT !.at = "revoke", !.op = "revoke", !.id = h]
  <2>1. PICK h : Hooks!Ask(c, r(h))
    BY <1>3 DEF Hooks!Revoke
  <2>2. r(h).at = "revoke"
    BY DEF Hooks!Free
  <2> HIDE DEF r
  <2> QED
    BY <1>3, <2>1, <2>2, HooksAskElsewhere DEF Hooks!Revoke, Hooks!Pace
<1>4. ASSUME NEW h \in DOMAIN rows, Hooks!Rename(c, h) PROVE HooksElsewhere(c)
  <2> DEFINE r == [Hooks!Free EXCEPT !.at = "save", !.op = "change", !.id = h, !.row = [rows[h] EXCEPT !.name = c]]
  <2>1. Hooks!Ask(c, r)
    BY <1>4 DEF Hooks!Rename
  <2>2. r.at = "save"
    BY DEF Hooks!Free
  <2> HIDE DEF r
  <2> QED
    BY <1>4, <2>1, <2>2, HooksAskElsewhere DEF Hooks!Rename, Hooks!Pace
<1>5. ASSUME NEW h \in DOMAIN rows, Hooks!GiveUp(c, h) \/ Hooks!Deliver(c, h) PROVE HooksElsewhere(c)
  <2> DEFINE r(kind, at) == [Hooks!Free EXCEPT !.at = at, !.op = kind, !.id = h, !.row = rows[h]]
  <2>1. /\ Hooks!Ask(c, r("revoke", "revoke")) \/ Hooks!Ask(c, r("deliver", "pace"))
        /\ UNCHANGED <<plan, w4, w5, w6, w7>>
    BY <1>5 DEF Hooks!GiveUp, Hooks!Deliver, Hooks!Resolve, Hooks!Pace
  <2>2. \A kind, at : r(kind, at).at = at /\ r(kind, at).id = h
    BY DEF Hooks!Free
  <2> HIDE DEF r
  <2>3. CASE Hooks!Ask(c, r("revoke", "revoke"))
    BY <2>1, <2>2, <2>3, HooksAskElsewhere
  <2>4. CASE Hooks!Ask(c, r("deliver", "pace"))
    BY <1>0, <2>1, <2>2, <2>4, HooksAskElsewhere
  <2> QED
    BY <2>1, <2>3, <2>4
<1>6. ASSUME NEW h \in DOMAIN rows, NEW m, Hooks!Amend(c, h, m) PROVE HooksElsewhere(c)
  <2> DEFINE r(p) == [Hooks!Free EXCEPT !.at = "load", !.op = "edit", !.id = h, !.msg = m, !.row = p]
  <2>1. PICK p : Hooks!Ask(c, r(p))
    BY <1>6 DEF Hooks!Amend
  <2>2. r(p).at = "load" /\ r(p).id = h
    BY DEF Hooks!Free
  <2> HIDE DEF r
  <2> QED
    BY <1>0, <1>6, <2>1, <2>2, HooksAskElsewhere DEF Hooks!Amend, Hooks!Pace
<1>7. ASSUME NEW h \in DOMAIN rows, NEW m, Hooks!TakeBack(c, h, m) PROVE HooksElsewhere(c)
  <2> DEFINE r == [Hooks!Free EXCEPT !.at = "load", !.op = "delete", !.id = h, !.msg = m]
  <2>1. Hooks!Ask(c, r)
    BY <1>7 DEF Hooks!TakeBack
  <2>2. r.at = "load" /\ r.id = h
    BY DEF Hooks!Free
  <2> HIDE DEF r
  <2> QED
    BY <1>0, <1>7, <2>1, <2>2, HooksAskElsewhere DEF Hooks!TakeBack, Hooks!Pace
<1> QED
  BY <1>1, <1>2, <1>3, <1>4, <1>5, <1>6, <1>7

LEMMA HooksWorkingElsewhere ==
    ASSUME HooksPaced, HooksTyped, NEW c \in Hooks!Callers, DOMAIN req[c] = HooksFields,
           \/ Hooks!Count(c) \/ Hooks!SaveNew(c) \/ Hooks!Save(c) \/ Hooks!FinishRevoke(c)
           \/ (\E body \in plan.bodies : Hooks!Arrive(c, body)) \/ Hooks!ReadPart(c) \/ Hooks!Insert(c)
           \/ (\E fails \in BOOLEAN : Hooks!Bind(c, fails)) \/ Hooks!Rollback(c) \/ Hooks!Announce(c)
           \/ Hooks!Load(c) \/ Hooks!Patch(c) \/ Hooks!Write(c) \/ Hooks!Retell(c)
           \/ Hooks!ReadFiles(c) \/ Hooks!Remove(c) \/ Hooks!TellGone(c)
    PROVE  HooksElsewhere(c)
<1>0. UNCHANGED <<plan, w4, w5, w6, w7>> /\ DOMAIN req = Hooks!Callers
  BY DEF HooksTyped, Hooks!Count, Hooks!SaveNew, Hooks!Save, Hooks!FinishRevoke, Hooks!Arrive, Hooks!ReadPart, Hooks!Insert,
    Hooks!Bind, Hooks!Rollback, Hooks!Announce, Hooks!Load, Hooks!Patch, Hooks!Write, Hooks!Retell, Hooks!ReadFiles,
    Hooks!Remove, Hooks!TellGone, Hooks!Pace
<1>1. CASE Hooks!Done(c)
  BY <1>0, <1>1, HooksDoneElsewhere
<1>2. CASE \E at \in {"save", "insert", "retell", "gone"} : Hooks!Move(c, at)
  BY <1>0, <1>2, HooksMoveElsewhere
<1>3. CASE Hooks!Count(c) \/ Hooks!SaveNew(c) \/ Hooks!Save(c) \/ Hooks!FinishRevoke(c) \/ Hooks!Rollback(c)
           \/ Hooks!Announce(c) \/ Hooks!Write(c) \/ Hooks!Retell(c) \/ Hooks!Remove(c) \/ Hooks!TellGone(c)
  BY <1>1, <1>2, <1>3 DEF Hooks!Count, Hooks!SaveNew, Hooks!Save, Hooks!FinishRevoke, Hooks!Rollback, Hooks!Announce,
    Hooks!Write, Hooks!Retell, Hooks!Remove, Hooks!TellGone
<1>4. ASSUME NEW body, Hooks!Arrive(c, body) PROVE HooksElsewhere(c)
  <2>1. req' = [req EXCEPT ![c].parts = body] /\ req[c].at = "read"
    BY <1>4 DEF Hooks!Arrive, Hooks!At
  <2>2. (\A d \in Hooks!Callers \ {c} : req'[d] = req[d]) /\ req'[c].at = "read"
    BY <1>0, <2>1 DEF HooksFields
  <2> QED
    BY <1>0, <2>2 DEF HooksElsewhere
<1>5. CASE Hooks!ReadPart(c)
  <2> DEFINE k == req[c].read + 1
             file == <<Len(w7), c, k>>
  <2>1. \/ Hooks!Done(c)
        \/ Hooks!Move(c, "insert")
        \/ \E text, embeds : req' = [req EXCEPT ![c].read = k, ![c].text = text, ![c].embeds = embeds]
        \/ req' = [req EXCEPT ![c].read = k]
        \/ req' = [req EXCEPT ![c].read = k, ![c].files = @ \cup {file}]
    BY <1>5 DEF Hooks!ReadPart
  <2>2. req[c].at = "read"
    BY <1>5 DEF Hooks!ReadPart, Hooks!At
  <2> HIDE DEF k, file
  <2>3. CASE ~Hooks!Done(c) /\ ~Hooks!Move(c, "insert")
    <3>1. (\A d \in Hooks!Callers \ {c} : req'[d] = req[d]) /\ req'[c].at = "read"
      BY <1>0, <2>1, <2>2, <2>3 DEF HooksFields
    <3> QED
      BY <1>0, <3>1 DEF HooksElsewhere
  <2> QED
    BY <1>1, <1>2, <2>1, <2>3
<1>6. CASE Hooks!Insert(c)
  <2>1. CASE ~Hooks!Done(c)
    <3>1. req' = [req EXCEPT ![c].at = "bind", ![c].msg = last.msg + 1]
      BY <1>6, <2>1 DEF Hooks!Insert
    <3>2. (\A d \in Hooks!Callers \ {c} : req'[d] = req[d]) /\ req'[c].at = "bind"
      BY <1>0, <3>1 DEF HooksFields
    <3> QED
      BY <1>0, <3>2 DEF HooksElsewhere
  <2> QED
    BY <1>1, <2>1
<1>7. ASSUME NEW fails \in BOOLEAN, Hooks!Bind(c, fails) PROVE HooksElsewhere(c)
  <2> DEFINE lost == req[c].files # {} /\ (fails \/ req[c].msg \notin DOMAIN w2)
  <2>1. req' = [req EXCEPT ![c].at = IF ~lost THEN "tell" ELSE "rollback", ![c].held = IF lost THEN {} ELSE req[c].files]
    BY <1>7 DEF Hooks!Bind, Hooks!GoesOn
  <2> HIDE DEF lost
  <2>2. (\A d \in Hooks!Callers \ {c} : req'[d] = req[d]) /\ req'[c].at \in {"tell", "rollback"}
    BY <1>0, <2>1 DEF HooksFields
  <2> QED
    BY <1>0, <2>2 DEF HooksElsewhere
<1>8. CASE Hooks!Load(c)
  <2>1. CASE ~Hooks!Done(c)
    <3>1. req[c].at = "load" /\ req[c].id \in Nat
      BY <1>8 DEF Hooks!Load, HooksPaced, HooksDrawn
    <3> DEFINE made(at, text, embeds) == [req EXCEPT ![c] = [req[c] EXCEPT !.at = at, !.text = text, !.embeds = embeds]]
    <3>2. \/ req' = made("pace", w2[req[c].msg].text, w2[req[c].msg].embeds)
          \/ req' = made("files", w2[req[c].msg].text, w2[req[c].msg].embeds)
      <4>1. Hooks!Loaded(req[c].id, req[c].msg)
        BY <1>8, <2>1 DEF Hooks!Load
      <4>2. CASE req[c].op = "edit"
        BY <1>8, <4>1, <4>2 DEF Hooks!Load
      <4>3. CASE req[c].op # "edit"
        BY <1>8, <4>1, <4>3 DEF Hooks!Load
      <4> QED
        BY <4>2, <4>3
    <3>a. PICK at, text, embeds : at \in {"pace", "files"} /\ req' = made(at, text, embeds)
      <4> HIDE DEF made
      <4> QED
        BY <3>2
    <3>3. (\A d \in Hooks!Callers \ {c} : req'[d] = req[d]) /\ req'[c].at = at /\ req'[c].id = req[c].id
      BY <1>0, <3>a DEF HooksFields
    <3> QED
      BY <1>0, <3>1, <3>a, <3>3 DEF HooksElsewhere
  <2> QED
    BY <1>1, <2>1
<1>9. CASE Hooks!Patch(c)
  <2>1. CASE ~Hooks!Done(c)
    <3> DEFINE text == Hooks!PatchedOver(req[c].row.text, req[c].text)
               embeds == Hooks!PatchedOver(req[c].row.embeds, req[c].embeds)
               files == IF req[c].msg \in DOMAIN w2 THEN w2[req[c].msg].files ELSE {}
    <3>1. req' = [req EXCEPT ![c] = [req[c] EXCEPT !.at = "write", !.text = text, !.embeds = embeds, !.held = files]]
      BY <1>9, <2>1 DEF Hooks!Patch
    <3> HIDE DEF text, embeds, files
    <3>2. (\A d \in Hooks!Callers \ {c} : req'[d] = req[d]) /\ req'[c].at = "write"
      BY <1>0, <3>1 DEF HooksFields
    <3> QED
      BY <1>0, <3>2 DEF HooksElsewhere
  <2> QED
    BY <1>1, <2>1
<1>10. CASE Hooks!ReadFiles(c)
  <2> DEFINE held == IF req[c].msg \in DOMAIN w2 THEN w2[req[c].msg].files ELSE {}
  <2>1. req' = [req EXCEPT ![c].at = "remove", ![c].held = held]
    BY <1>10 DEF Hooks!ReadFiles
  <2> HIDE DEF held
  <2>2. (\A d \in Hooks!Callers \ {c} : req'[d] = req[d]) /\ req'[c].at = "remove"
    BY <1>0, <2>1 DEF HooksFields
  <2> QED
    BY <1>0, <2>2 DEF HooksElsewhere
<1> QED
  BY <1>3, <1>4, <1>5, <1>6, <1>7, <1>8, <1>9, <1>10

HooksInv == HooksKept /\ HooksPaced

LEMMA HooksBegin ==
    ASSUME Hooks!PlansFit, Hooks!Init
    PROVE  HooksInv
<1>0. /\ plan \in HookPlans /\ w1 = plan.places /\ rows = plan.hooks /\ w2 = plan.msgs /\ w3 = {}
      /\ last = [hook |-> Hooks!Cardinality(DOMAIN plan.hooks), msg |-> Hooks!Cardinality(DOMAIN plan.msgs)]
      /\ req = [c \in plan.callers |-> Hooks!Free] /\ w4 = <<>> /\ w5 = <<>> /\ w6 = 0 /\ w7 = <<>>
      /\ w8 = [m \in DOMAIN w2 |-> {}]
      /\ shown = [m \in DOMAIN w2 |-> [text |-> w2[m].text, embeds |-> w2[m].embeds, files |-> {}]]
  BY DEF Hooks!Init
<1>1. last = [hook |-> Cardinality(DOMAIN rows), msg |-> Cardinality(DOMAIN w2)]
  BY <1>0, HooksCount
<1>2. /\ Burst \in Nat /\ IsFiniteSet(DOMAIN rows) /\ DOMAIN rows = 1..Cardinality(DOMAIN rows)
      /\ \A h \in DOMAIN rows : rows[h].channel \in w1
      /\ IsFiniteSet(DOMAIN w2) /\ DOMAIN w2 = 1..Cardinality(DOMAIN w2)
      /\ \A m \in DOMAIN w2 : /\ DOMAIN w2[m] = {"hook", "channel", "text", "embeds", "files"}
                              /\ w2[m].channel \in w1 /\ w2[m].files = {}
                              /\ w2[m].text # "" \/ w2[m].embeds # "none"
  BY <1>0, HooksCount DEF Hooks!PlansFit
<1>3. /\ last.hook = Cardinality(DOMAIN rows) /\ last.msg = Cardinality(DOMAIN w2) /\ DOMAIN last = {"hook", "msg"}
  BY <1>1
<1>4. Cardinality(DOMAIN rows) \in Nat /\ Cardinality(DOMAIN w2) \in Nat
  BY <1>2, FS_CardinalityType
<1>5. /\ DOMAIN w8 = DOMAIN w2 /\ \A m \in DOMAIN w2 : w8[m] = {}
      /\ DOMAIN shown = DOMAIN w2 /\ \A m \in DOMAIN w2 : shown[m].files = {}
  BY <1>0
<1>6. DOMAIN req = Hooks!Callers /\ \A c \in Hooks!Callers : req[c] = Hooks!Free
  BY <1>0 DEF Hooks!Callers
<1>7. /\ DOMAIN Hooks!Free = HooksFields /\ Hooks!Free.at = "free" /\ Hooks!Free.op = "none" /\ Hooks!Free.msg = 0
      /\ Hooks!Free.files = {} /\ Hooks!Free.read = 0
  BY DEF Hooks!Free, HooksFields
<1>8. HooksTyped
  BY <1>2, <1>3, <1>4, <1>5, <1>6 DEF HooksTyped
<1>9. HooksMessages /\ HooksNamed /\ HooksStored /\ HooksApart
  <2>1. HooksMessages
    BY <1>2, <1>5 DEF HooksMessages, HooksSettled, Hooks!Empty
  <2>2. HooksNamed
    BY <1>5, <1>6, <1>7 DEF HooksNamed
  <2>3. HooksStored
    BY <1>0, <1>2, <1>6, <1>7 DEF HooksStored, HooksHolding
  <2>4. HooksApart
    BY <1>6, <1>7 DEF HooksApart, HooksUnsure
  <2> QED
    BY <2>1, <2>2, <2>3, <2>4
<1>10. \A c \in Hooks!Callers : HooksFit(c, req[c])
  BY <1>3, <1>4, <1>6, <1>7 DEF HooksFit, HooksUnsure, HooksFields
<1>11. HooksTimed(w4, w5, w6, w7) /\ HooksMeasured(w4, w5, w6, w7) /\ HooksLimited(w7)
  <2>1. Len(w5) = 0 /\ Len(w7) = 0 /\ DOMAIN w4 = {} /\ w5 \in Seq(HooksBuckets) /\ w7 \in Seq(HooksDraws) /\ w6 \in Nat
    BY <1>0
  <2> QED
    BY <2>1 DEF HooksTimed, HooksMeasured, HooksLimited
<1>12. HooksDrawn
  BY <1>6, <1>7 DEF HooksDrawn
<1> QED
  BY <1>8, <1>9, <1>10, <1>11, <1>12 DEF HooksInv, HooksKept, HooksPaced

LEMMA HooksFrameKeeps ==
    ASSUME HooksKept, UNCHANGED <<plan, rows, last, req, shown, w1, w2, w3, w7, w8>>
    PROVE  HooksKept'
<1>1. Hooks!Callers' = Hooks!Callers
  BY DEF Hooks!Callers
<1>2. HooksTyped' /\ HooksNamed'
  BY <1>1 DEF HooksKept, HooksTyped, HooksNamed
<1>3. HooksMessages'
  <2>1. \A m : HooksSettled(m)' = HooksSettled(m)
    BY DEF HooksSettled, Hooks!Empty
  <2> QED
    BY <1>1, <2>1 DEF HooksKept, HooksMessages, HooksUnsure
<1>4. HooksStored' /\ HooksApart'
  BY <1>1 DEF HooksKept, HooksStored, HooksApart, HooksHolding, HooksUnsure
<1>5. \A c \in Hooks!Callers : HooksFit(c, req[c])' = HooksFit(c, req[c])
  BY DEF HooksFit, HooksUnsure, HooksFields, Hooks!Empty
<1> QED
  BY <1>1, <1>2, <1>3, <1>4, <1>5 DEF HooksKept

LEMMA HooksMeansIt ==
    ASSUME HooksInv
    PROVE  w7 \in Seq(HooksDraws) /\ Len(w7) \in Nat /\ HooksTyped /\ Burst \in Nat
           /\ \A c \in Hooks!Callers : DOMAIN req[c] = HooksFields
BY DEF HooksInv, HooksPaced, HooksTimed, HooksKept, HooksTyped, HooksFit

LEMMA HooksStepKeeps ==
    ASSUME HooksInv, NEW c \in Hooks!Callers, Hooks!Step(c)
    PROVE  HooksInv'
<1>0. /\ w7 \in Seq(HooksDraws) /\ Len(w7) \in Nat /\ HooksTyped /\ DOMAIN req[c] = HooksFields /\ HooksKept /\ HooksPaced
  BY HooksMeansIt DEF HooksInv
<1> DEFINE asks == \/ Hooks!Mint(c) \/ Hooks!Change(c) \/ Hooks!Revoke(c)
                   \/ \E h \in DOMAIN rows : Hooks!Rename(c, h) \/ Hooks!GiveUp(c, h) \/ Hooks!Deliver(c, h)
                   \/ \E h \in DOMAIN rows, m \in DOMAIN shown : Hooks!Amend(c, h, m) \/ Hooks!TakeBack(c, h, m)
           works == \/ Hooks!Count(c) \/ Hooks!SaveNew(c) \/ Hooks!Save(c) \/ Hooks!FinishRevoke(c)
                    \/ (\E body \in plan.bodies : Hooks!Arrive(c, body)) \/ Hooks!ReadPart(c) \/ Hooks!Insert(c)
                    \/ (\E fails \in BOOLEAN : Hooks!Bind(c, fails)) \/ Hooks!Rollback(c) \/ Hooks!Announce(c)
                    \/ Hooks!Load(c) \/ Hooks!Patch(c) \/ Hooks!Write(c) \/ Hooks!Retell(c)
                    \/ Hooks!ReadFiles(c) \/ Hooks!Remove(c) \/ Hooks!TellGone(c)
<1>1. asks \/ works \/ Hooks!LookUp(c) \/ Hooks!Take(c)
  BY DEF Hooks!Step
<1>2. ASSUME HooksGood(c) PROVE HooksKept'
  BY <1>0, <1>2, HooksQuietStays DEF HooksGood
<1>3. ASSUME asks PROVE HooksInv'
  <2>1. HooksElsewhere(c)
    BY <1>0, <1>3, HooksAskingElsewhere
  <2>2. HooksGood(c)
    BY <1>0, <1>3, HooksMint, HooksChange, HooksRevoke, HooksRename, HooksResolve, HooksAmend
  <2> QED
    BY <1>0, <1>2, <2>1, <2>2, HooksPacedElsewhere DEF HooksInv
<1>4. ASSUME works PROVE HooksInv'
  <2>1. HooksElsewhere(c)
    BY <1>0, <1>4, HooksWorkingElsewhere
  <2>2. CASE \/ Hooks!Count(c) \/ Hooks!SaveNew(c) \/ Hooks!Save(c) \/ Hooks!FinishRevoke(c)
             \/ (\E body \in plan.bodies : Hooks!Arrive(c, body))
             \/ Hooks!Load(c) \/ Hooks!Patch(c) \/ Hooks!ReadFiles(c)
    <3>1. HooksGood(c)
      BY <1>0, <2>2, HooksCountGood, HooksSaveNewGood, HooksSaveGood, HooksFinishRevokeGood, HooksArriveGood, HooksLoadGood,
        HooksPatchGood, HooksReadFilesGood
    <3> QED
      BY <1>0, <1>2, <2>1, <3>1, HooksPacedElsewhere DEF HooksInv
  <2>3. CASE ~( \/ Hooks!Count(c) \/ Hooks!SaveNew(c) \/ Hooks!Save(c) \/ Hooks!FinishRevoke(c)
                \/ (\E body \in plan.bodies : Hooks!Arrive(c, body))
                \/ Hooks!Load(c) \/ Hooks!Patch(c) \/ Hooks!ReadFiles(c) )
    <3>1. HooksKept'
      BY <1>0, <1>4, <2>3, HooksReadPartKeeps, HooksInsertKeeps, HooksBindKeeps, HooksRollbackKeeps, HooksShowKeeps,
        HooksWriteKeeps, HooksRemoveKeeps
    <3> QED
      BY <1>0, <2>1, <3>1, HooksPacedElsewhere DEF HooksInv
  <2> QED
    BY <2>2, <2>3
<1>5. CASE Hooks!LookUp(c)
  BY <1>0, <1>2, <1>5, HooksLookUpGood, HooksPacedLookUp DEF HooksInv
<1>6. CASE Hooks!Take(c)
  BY <1>0, <1>2, <1>6, HooksTakeGood, HooksPacedTake DEF HooksInv
<1> QED
  BY <1>1, <1>3, <1>4, <1>5, <1>6

LEMMA HooksNextKeeps ==
    ASSUME HooksInv, [Hooks!Next]_(Hooks!vars)
    PROVE  HooksInv'
<1>0. /\ w7 \in Seq(HooksDraws) /\ Len(w7) \in Nat /\ HooksTyped /\ Burst \in Nat /\ HooksKept /\ HooksPaced
  BY HooksMeansIt DEF HooksInv
<1>1. CASE Hooks!Sweep
  <2>1. UNCHANGED <<plan, rows, last, req, shown, w1, w2, w3, w7, w8>>
    BY <1>1 DEF Hooks!Sweep, Hooks!Tables, Hooks!Told
  <2> QED
    BY <1>0, <1>1, <2>1, HooksFrameKeeps, HooksPacedSweep DEF HooksInv
<1>2. CASE Hooks!Tick
  <2>1. UNCHANGED <<plan, rows, last, req, shown, w1, w2, w3, w7, w8>>
    BY <1>2 DEF Hooks!Tick, Hooks!Tables, Hooks!Told, Hooks!Pace
  <2> QED
    BY <1>0, <1>2, <2>1, HooksFrameKeeps, HooksPacedTick DEF HooksInv
<1>3. ASSUME NEW channel \in w1, Hooks!DropChannel(channel) PROVE HooksInv'
  <2>1. UNCHANGED <<plan, req, w4, w5, w6, w7>>
    BY <1>3 DEF Hooks!DropChannel, Hooks!Pace
  <2>2. HooksPaced'
    <3>1. /\ Hooks!Callers' = Hooks!Callers
          /\ \A c \in Hooks!Callers : req[c].at \in {"load", "pace", "take"} => req[c].id \in Nat
      BY <1>0, <2>1 DEF Hooks!Callers, HooksPaced, HooksDrawn
    <3> QED
      BY <1>0, <2>1, <3>1, HooksPacedFrames
  <2> QED
    BY <1>0, <1>3, <2>2, HooksDropKeeps DEF HooksInv
<1>4. ASSUME NEW c \in Hooks!Callers, Hooks!Step(c) PROVE HooksInv'
  BY <1>4, HooksStepKeeps
<1>5. CASE UNCHANGED Hooks!vars
  <2>1. UNCHANGED <<plan, rows, last, req, shown, w1, w2, w3, w4, w5, w6, w7, w8>>
    BY <1>5 DEF Hooks!vars
  <2>2. HooksPaced'
    <3>1. /\ Hooks!Callers' = Hooks!Callers
          /\ \A c \in Hooks!Callers : req[c].at \in {"load", "pace", "take"} => req[c].id \in Nat
      BY <1>0, <2>1 DEF Hooks!Callers, HooksPaced, HooksDrawn
    <3> QED
      BY <1>0, <2>1, <3>1, HooksPacedFrames
  <2> QED
    BY <1>0, <2>1, <2>2, HooksFrameKeeps DEF HooksInv
<1> QED
  BY <1>1, <1>2, <1>3, <1>4, <1>5 DEF Hooks!Next

\* What the invariant says of what those who call and those who read may rely on.
LEMMA HooksShows ==
    ASSUME HooksInv
    PROVE  Hooks!LimitHeld /\ Hooks!WholeOrUnseen /\ Hooks!NothingLeft /\ Hooks!NeverEmpty
<1>0. HooksMessages /\ HooksStored /\ HooksLimited(w7)
  BY DEF HooksInv, HooksKept, HooksPaced
<1>1. Hooks!LimitHeld
  BY <1>0, HooksLimitIs
<1>2. Hooks!WholeOrUnseen
  BY <1>0 DEF HooksMessages, Hooks!WholeOrUnseen
<1>3. Hooks!NothingLeft
  <2>1. ASSUME \A c \in Hooks!Callers : req[c].at = "free" PROVE w3 = UNION {w2[m].files : m \in DOMAIN w2}
    <3>1. \A f : f \in w3 <=> \E m \in DOMAIN w2 : f \in w2[m].files
      BY <1>0, <2>1 DEF HooksStored, HooksHolding
    <3> QED
      BY <3>1
  <2> QED
    BY <2>1 DEF Hooks!NothingLeft
<1>4. Hooks!NeverEmpty
  <2>1. ASSUME NEW m \in DOMAIN w2, \A c \in Hooks!Callers : ~(req[c].at \in {"bind", "rollback"} /\ req[c].msg = m)
        PROVE  ~Hooks!Empty(w2[m].text, w2[m].embeds, w2[m].files)
    <3>1. HooksSettled(m)
      BY <1>0, <2>1 DEF HooksMessages, HooksUnsure
    <3> QED
      BY <2>1, <3>1 DEF HooksSettled, Hooks!Empty
  <2> QED
    BY <2>1 DEF Hooks!NeverEmpty
<1> QED
  BY <1>1, <1>2, <1>3, <1>4

-----------------------------------------------------------------------------
(* The scenes.                                                               *)

\* In each of these scenes a behaviour is one of the module of that scene.
LEMMA SceneBegins ==
    ASSUME SceneInit
    PROVE  /\ scene = "reading" => Pages!Init
           /\ scene = "private" => Private!Init
           /\ scene = "posts" => Board!Init
           /\ scene = "webhooks" => Hooks!Init
           /\ scene = "expressions" => Pictures!Init
           /\ scene = "channels" => Tree!Init
           /\ scene = "identities" => Door!Init
BY ZenonT(60) DEF SceneInit

LEMMA SceneMoves ==
    ASSUME [SceneNext]_<<scene, slots>>
    PROVE  /\ scene' = scene
           /\ scene = "reading" => [Pages!Next]_(Pages!vars)
           /\ scene = "private" => [Private!Next]_(Private!vars)
           /\ scene = "posts" => [Board!Next]_(Board!vars)
           /\ scene = "webhooks" => [Hooks!Next]_(Hooks!vars)
           /\ scene = "expressions" => [Pictures!Next]_(Pictures!vars)
           /\ scene = "channels" => [Tree!Next]_(Tree!vars)
           /\ scene = "identities" => [Door!Next]_(Door!vars)
<1>1. CASE SceneNext
  BY <1>1 DEF SceneNext
<1>2. CASE UNCHANGED <<scene, slots>>
  BY <1>2 DEF slots, Pages!vars, Private!vars, Board!vars, Hooks!vars, Hooks!Tables, Hooks!Pace, Hooks!Told, Pictures!vars, Tree!vars, Tree!tables,
      Door!vars, Door!store
<1> QED
  BY <1>1, <1>2

\* However many uploads, changes and removals overlap and fail, no file is without its
\* row and no client without what is held.
THEOREM PicturesStayKnown == Spec => []PicturesKnown
<1> DEFINE Inv == scene = "expressions" => PicturesFiled /\ PicturesTurned
<1>1. SceneInit => Inv
  BY SceneBegins, PicturePlansFit, PicturesFiledFirst, PicturesTurnedFirst
<1>2. Inv /\ [SceneNext]_<<scene, slots>> => Inv'
  <2> SUFFICES ASSUME Inv, [SceneNext]_<<scene, slots>>
               PROVE  Inv'
    OBVIOUS
  <2>1. scene' = scene /\ (scene = "expressions" => [Pictures!Next]_(Pictures!vars))
    BY SceneMoves
  <2> QED
    BY <2>1, PicturesFiledStays, PicturesTurnedStays
<1>3. Inv => PicturesKnown
  BY PicturesFiledShows, PicturesTurnedShows DEF PicturesKnown
<1> QED
  BY <1>1, <1>2, <1>3, PTL DEF Spec

\* A conversation stays that of its two, what its clients show of it is what is stored, and
\* nobody's own writing is unread to them.
THEOREM ConversationsStayKept == Spec => []ConversationsKept
<1> DEFINE Inv == scene = "private" => PrivateKept /\ PrivateInformed
<1>1. SceneInit => Inv
  BY SceneBegins, PrivateKeptFirst, PrivateInformedFirst
<1>2. Inv /\ [SceneNext]_<<scene, slots>> => Inv'
  <2> SUFFICES ASSUME Inv, [SceneNext]_<<scene, slots>>
               PROVE  Inv'
    OBVIOUS
  <2>1. scene' = scene /\ (scene = "private" => [Private!Next]_(Private!vars))
    BY SceneMoves
  <2> QED
    BY <2>1, PrivateBothStay
<1>3. Inv => ConversationsKept
  BY PrivateKeptShows, PrivateInformedShows DEF ConversationsKept
<1> QED
  BY <1>1, <1>2, <1>3, PTL DEF Spec

\* Whoever saves which stale copy of a post, its words stay its author's and the answers
\* to it those of who gave them.
THEOREM PostsStayTheirs == Spec => []PostsAreTheirs
<1> DEFINE Inv == scene = "posts" => BoardKept
<1>1. SceneInit => Inv
  BY SceneBegins, PostPlansFit, BoardKeptFirst
<1>2. Inv /\ [SceneNext]_<<scene, slots>> => Inv'
  <2> SUFFICES ASSUME Inv, [SceneNext]_<<scene, slots>>
               PROVE  Inv'
    OBVIOUS
  <2>1. scene' = scene /\ (scene = "posts" => [Board!Next]_(Board!vars))
    BY SceneMoves
  <2> QED
    BY <2>1, BoardKeptStays
<1>3. Inv => PostsAreTheirs
  BY BoardKeptShows DEF PostsAreTheirs
<1> QED
  BY <1>1, <1>2, <1>3, PTL DEF Spec

\* No marker a client stores late takes back what the member has read.
THEOREM NothingTurnsUnread == Spec => ReadStaysRead
<1> DEFINE Inv == scene = "reading" => PagesKept
<1>1. SceneInit => Inv
  BY SceneBegins, ReadingPlansFit, PagesKeptFirst
<1>2. Inv /\ [SceneNext]_<<scene, slots>> => Inv' /\ [scene = "reading" => Pages!NothingReturns]_slots
  <2> SUFFICES ASSUME Inv, [SceneNext]_<<scene, slots>>
               PROVE  Inv' /\ [scene = "reading" => Pages!NothingReturns]_slots
    OBVIOUS
  <2>1. scene' = scene /\ (scene = "reading" => [Pages!Next]_(Pages!vars))
    BY SceneMoves
  <2> QED
    BY <2>1, PagesKeptStays, PagesNothingComesBack
<1> QED
  BY <1>1, <1>2, PTL DEF Spec, ReadStaysRead

\* Whatever is written and deleted between the queries of a page, a client that
\* joined it to what it held has no hole in it and knows on which side there is
\* more; and a search that is walked to its end missed nothing, in any order while
\* nothing is written, and from the oldest on unless something is deleted.
THEOREM PagesStayWhole == Spec => []PagesWhole
<1> DEFINE Inv == scene = "reading" => PagesKept /\ PagesJoined
<1>1. SceneInit => Inv
  BY SceneBegins, ReadingPlansFit, PagesKeptFirst, PagesJoinedFirst
<1>2. Inv /\ [SceneNext]_<<scene, slots>> => Inv'
  <2> SUFFICES ASSUME Inv, [SceneNext]_<<scene, slots>>
               PROVE  Inv'
    OBVIOUS
  <2>1. scene' = scene /\ (scene = "reading" => [Pages!Next]_(Pages!vars))
    BY SceneMoves
  <2> QED
    BY <2>1, PagesKeptStays, PagesJoinedStays
<1>3. Inv => PagesWhole
  BY PagesJoinedShows DEF PagesWhole
<1> QED
  BY <1>1, <1>2, <1>3, PTL DEF Spec

\* No category is in another, in the table and in the hub's copy.
THEOREM SceneTreeStaysShaped == Spec => [](scene = "channels" => Tree!TreeShape)
<1> DEFINE Inv == scene = "channels" => TreeRooted
<1>1. SceneInit => Inv
  BY SceneBegins, TreePlansFit, TreeInitRooted
<1>2. Inv /\ [SceneNext]_<<scene, slots>> => Inv'
  <2> SUFFICES ASSUME Inv, [SceneNext]_<<scene, slots>>
               PROVE  Inv'
    OBVIOUS
  <2>1. scene' = scene /\ (scene = "channels" => [Tree!Next]_(Tree!vars))
    BY SceneMoves
  <2> QED
    BY <2>1, TreeNextRooted
<1>3. Inv => (scene = "channels" => Tree!TreeShape)
  BY DEF TreeRooted, TreeSound, Tree!TreeShape
<1> QED
  BY <1>1, <1>2, <1>3, PTL DEF Spec

\* However webhooks are called, swept, edited and removed at once, they keep to their pace, are
\* shown with all their files or not at all, and leave no file and no empty message behind.
THEOREM WebhooksStayTrue == Spec => []HooksHold
<1> DEFINE Inv == scene = "webhooks" => HooksInv
<1>1. SceneInit => Inv
  BY SceneBegins, HookPlansFit, HooksBegin
<1>2. Inv /\ [SceneNext]_<<scene, slots>> => Inv'
  <2> SUFFICES ASSUME Inv, [SceneNext]_<<scene, slots>>
               PROVE  Inv'
    OBVIOUS
  <2>1. scene' = scene /\ (scene = "webhooks" => [Hooks!Next]_(Hooks!vars))
    BY SceneMoves
  <2> QED
    BY <2>1, HooksNextKeeps
<1>3. Inv => HooksHold
  BY HooksShows DEF HooksHold
<1> QED
  BY <1>1, <1>2, <1>3, PTL DEF Spec

\* Whatever order connections, moderators, the goroutines that close sessions and the sweeper
\* come in: who is in against a ban had raced it, no moderator's own door is shut on them, and
\* where requests take turns a list of bans is the table.
THEOREM BansStayShut == Spec => []DoorHolds
<1> DEFINE Inv == scene = "identities" => DoorKept
<1>1. SceneInit => Inv
  BY SceneBegins, DoorPlansFit, DoorKeptFirst
<1>2. Inv /\ [SceneNext]_<<scene, slots>> => Inv'
  <2> SUFFICES ASSUME Inv, [SceneNext]_<<scene, slots>>
               PROVE  Inv'
    OBVIOUS
  <2>1. scene' = scene /\ (scene = "identities" => [Door!Next]_(Door!vars))
    BY SceneMoves
  <2> QED
    BY <2>1, DoorKeptStays
<1>3. Inv => DoorHolds
  BY DoorKeptShows DEF DoorHolds
<1> QED
  BY <1>1, <1>2, <1>3, PTL DEF Spec
======================================================================================
