---------------------------- MODULE Discord_proofs ----------------------------
(***************************************************************************)
(* Theorems about the two scenes of MCDiscord: the client that holds the   *)
(* connection to Discord, and the bridge.                                  *)
(*                                                                         *)
(* The client.  What is on the wire is exactly what the session has that   *)
(* the client has not read, in order (Follows), whatever the network did   *)
(* in between.  So what is read next is the next number of the session     *)
(* (ReadIs), which is why a message is given to the handlers once and in   *)
(* order (Hears).  The roster is compared with the guild as it was after   *)
(* each frame of the session (Counted, Known).                             *)
(*                                                                         *)
(* The bridge.  Everything on its way is measured by what has been written *)
(* and which webhooks are in use (World): what Discord tells of a copy     *)
(* names a webhook in use, so it is recognised, and a delivery is of a     *)
(* message written on its own side (Own).                                  *)
(***************************************************************************)
EXTENDS MCDiscord, Integers, FiniteSetTheorems, TLAPS

-----------------------------------------------------------------------------
(* The client: the inductive invariant                                        *)

\* Frames, by what is in them: those of the session are numbered, the others are not.
Kinds == {"ready", "guild", "chunk", "add", "remove", "message"}
Events == [op : Kinds, n : Nat, who : SUBSET People, count : Nat]
Frames == Events \cup [op : {"resumed", "invalid", "reconnect"}, n : {0}]

\* What is on the wire is what the session has that was not read, in order, and
\* nothing else that is numbered.
Carries(w, log, read) ==
    /\ \A i \in 1..Len(w) : w[i].n # 0 => w[i].n \in (read + 1)..Len(log) /\ w[i] = log[w[i].n]
    /\ \A i, j \in 1..Len(w) : i < j /\ w[i].n # 0 /\ w[j].n # 0 => w[i].n < w[j].n
    /\ \A n \in (read + 1)..Len(log) : \E i \in 1..Len(w) : w[i].n = n

\* A session opens with READY, and numbers what it sends.
Opens(log) ==
    \A n \in 1..Len(log) : log[n].n = n /\ (log[n].op = "ready" <=> n = 1)

LineTyped ==
    /\ Line!TypeOK
    /\ plan \in ClientPlans /\ sessions \in Nat
    /\ kept \in [id : Nat, log : Seq(Events)] /\ wire \in Seq(Frames)
    /\ told \in Seq([session : Nat, n : Nat])
    /\ flush.at \in {"idle", "taken", "built"}

\* A client knows the session Discord keeps or one Discord has forgotten, and has
\* read some of it.
Knows ==
    /\ Opens(kept.log) /\ (kept.id = 0 <=> kept.log = <<>>)
    /\ kept.id # 0 => kept.id = sessions
    /\ session # 0 /\ kept.id # 0 => session = kept.id /\ sequence \in 1..Len(kept.log)
    /\ session # 0 => sequence # 0
    /\ phase = "opening" /\ session = 0 => kept.id # 0 /\ \A i \in 1..Len(wire) : wire[i].n # 0
    /\ phase = "up" => session # 0

\* A live connection carries on from what the client has read; only a session that
\* is forgotten is refused.
Follows ==
    /\ Line!Receives => Carries(wire, kept.log, sequence)
    /\ \A i \in 1..Len(wire) :
        /\ wire[i].op = "invalid" => kept.id = 0
        /\ wire[i].op \in Kinds => wire[i].n # 0

\* The handlers were given messages of sessions there were, of this one what was read.
Heard ==
    /\ \A i \in 1..Len(told) :
        /\ told[i].session \in 1..sessions
        /\ told[i].session = session => told[i].n <= sequence
        /\ told[i].session = kept.id => session = kept.id
    /\ Line!EveryMessageOnce

\* Without the roster intents nothing of the roster is ever sent.
Unasked ==
    plan.grants # "roster" =>
        /\ roster = {} /\ (kept.id # 0 => intents = "relay")
        /\ \A n \in 1..Len(kept.log) : kept.log[n].op \in {"ready", "guild", "message"} /\
               kept.log[n].count = 0

\* The guild as it was after each frame of a session: whom the first names, and how
\* every later one changed it.
Counted(C, log) ==
    /\ Len(log) >= 2
    /\ log[2].op = "guild" /\ log[2].count = Cardinality(C[2]) /\ log[2].who \subseteq C[2]
    /\ log[2].who = C[2] \/ (Len(log) >= 3 /\ log[3].op = "chunk")
    /\ \A n \in 3..Len(log) :
        \/ log[n].op = "message" /\ C[n] = C[n - 1]
        \/ n = 3 /\ log[n].op = "chunk" /\ log[n].who = C[n - 1] /\ C[n] = C[n - 1]
        \/ log[n].op = "add" /\ \E u \in People \ C[n - 1] :
                log[n].who = {u} /\ C[n] = C[n - 1] \cup {u}
        \/ log[n].op = "remove" /\ \E u \in C[n - 1] :
                log[n].who = {u} /\ C[n] = C[n - 1] \ {u}

\* What the client knows when it has read so much.
Known(C, log, read, who, number) ==
    /\ read < 2 => who = {} /\ number = 0
    /\ read = 2 => who = log[2].who /\ number = Cardinality(C[2])
    /\ read > 2 => who = C[read] /\ number = Cardinality(C[read])

\* In its first session the client knows the guild as it was when what it read last
\* was sent.
Remembers ==
    /\ sessions = 0 => roster = {} /\ total = 0
    /\ sessions = 1 /\ kept.id = 1 /\ intents = "roster" =>
        \E C \in [1..Len(kept.log) -> SUBSET People] :
            /\ C[Len(kept.log)] = crowd /\ Counted(C, kept.log)
            /\ Known(C, kept.log, sequence, roster, total)

\* What members are shown catches up with the roster.
CatchesUp ==
    phase \notin {"stopped", "cancelled"} =>
        /\ timer <=> dirty
        /\ flush.at = "built" => flush.who = roster \/ timer
        /\ Line!ShownFollows
-----------------------------------------------------------------------------
(* Sequences                                                                  *)

\* What is left of a sequence, and what was first in it.
LEMMA TailIs ==
    ASSUME NEW S, NEW w \in Seq(S), w # <<>>
    PROVE  /\ Head(w) = w[1] /\ w[1] \in S /\ Tail(w) \in Seq(S) /\ Len(w) \in Nat
           /\ Len(w) >= 1 /\ Len(Tail(w)) = Len(w) - 1
           /\ \A i \in 1..(Len(w) - 1) : Tail(w)[i] = w[i + 1]
OBVIOUS

\* A sequence with one more at its end.
LEMMA GrownIs ==
    ASSUME NEW S, NEW w \in Seq(S), NEW e \in S
    PROVE  /\ w \o <<e>> \in Seq(S) /\ Append(w, e) = w \o <<e>> /\ Len(w) \in Nat
           /\ Len(w \o <<e>>) = Len(w) + 1 /\ (w \o <<e>>)[Len(w) + 1] = e
           /\ \A i \in 1..Len(w) : (w \o <<e>>)[i] = w[i]
OBVIOUS

\* Reading a numbered frame: it is the next one of the session.
LEMMA CarriesRead ==
    ASSUME NEW w \in Seq(Frames), NEW log \in Seq(Events), NEW read \in Nat,
           Carries(w, log, read), w # <<>>, Head(w).n # 0
    PROVE  /\ Head(w).n = read + 1 /\ read + 1 \in 1..Len(log) /\ Head(w) = log[read + 1]
           /\ Carries(Tail(w), log, read + 1)
<1> DEFINE v == Tail(w)
<1>1. /\ Head(w) = w[1] /\ Len(w) \in Nat /\ Len(w) >= 1 /\ Len(v) = Len(w) - 1 /\ Len(log) \in Nat
      /\ \A i \in 1..Len(v) : v[i] = w[i + 1] /\ i + 1 \in 1..Len(w)
  BY TailIs
<1>2. w[1].n \in (read + 1)..Len(log) /\ w[1] = log[w[1].n]
  BY <1>1 DEF Carries
<1>3. PICK i \in 1..Len(w) : w[i].n = read + 1
  BY <1>2 DEF Carries
<1>4. w[1].n = read + 1
  <2>1. CASE i = 1
    BY <1>3, <2>1
  <2>2. CASE i # 1
    <3>1. w[1].n < w[i].n
      BY <1>1, <1>2, <1>3, <2>2 DEF Carries
    <3> QED
      BY <1>2, <1>3, <3>1
  <2> QED
    BY <2>1, <2>2
<1> HIDE DEF v
<1>5. \A k \in 1..Len(v) : v[k].n # 0 => v[k].n \in (read + 2)..Len(log) /\ v[k] = log[v[k].n]
  <2> SUFFICES ASSUME NEW k \in 1..Len(v), v[k].n # 0
               PROVE  v[k].n \in (read + 2)..Len(log) /\ v[k] = log[v[k].n]
    OBVIOUS
  <2>1. v[k] = w[k + 1] /\ k + 1 \in 1..Len(w) /\ 1 \in 1..Len(w) /\ 1 < k + 1
    BY <1>1
  <2>2. w[1].n < w[k + 1].n
    BY <1>2, <2>1 DEF Carries
  <2>3. w[k + 1].n \in (read + 1)..Len(log) /\ w[k + 1] = log[w[k + 1].n]
    BY <2>1 DEF Carries
  <2> QED
    BY <1>4, <2>1, <2>2, <2>3
<1>6. \A k, j \in 1..Len(v) : k < j /\ v[k].n # 0 /\ v[j].n # 0 => v[k].n < v[j].n
  <2> SUFFICES ASSUME NEW k \in 1..Len(v), NEW j \in 1..Len(v), k < j, v[k].n # 0, v[j].n # 0
               PROVE  v[k].n < v[j].n
    OBVIOUS
  <2>1. v[k] = w[k + 1] /\ v[j] = w[j + 1] /\ k + 1 \in 1..Len(w) /\ j + 1 \in 1..Len(w)
    BY <1>1
  <2> QED
    BY <2>1 DEF Carries
<1>7. \A n \in (read + 2)..Len(log) : \E k \in 1..Len(v) : v[k].n = n
  <2> SUFFICES ASSUME NEW n \in (read + 2)..Len(log)
               PROVE  \E k \in 1..Len(v) : v[k].n = n
    OBVIOUS
  <2>1. PICK j \in 1..Len(w) : w[j].n = n
    BY DEF Carries
  <2>2. j # 1 /\ j - 1 \in 1..Len(v)
    BY <1>1, <1>4, <2>1
  <2>3. v[j - 1] = w[j]
    BY <1>1, <2>2
  <2> QED
    BY <2>1, <2>2, <2>3
<1>8. Carries(v, log, read + 1)
  BY <1>5, <1>6, <1>7 DEF Carries
<1> QED
  BY <1>1, <1>2, <1>4, <1>8 DEF v

\* Reading one without a number leaves everything to be read.
LEMMA CarriesSkips ==
    ASSUME NEW w \in Seq(Frames), NEW log \in Seq(Events), NEW read \in Nat,
           Carries(w, log, read), w # <<>>, Head(w).n = 0
    PROVE  Carries(Tail(w), log, read)
<1> DEFINE v == Tail(w)
<1>1. /\ Head(w) = w[1] /\ Len(w) \in Nat /\ Len(w) >= 1 /\ Len(v) = Len(w) - 1 /\ Len(log) \in Nat
      /\ \A i \in 1..Len(v) : v[i] = w[i + 1] /\ i + 1 \in 1..Len(w)
  BY TailIs
<1> HIDE DEF v
<1>5. \A k \in 1..Len(v) : v[k].n # 0 => v[k].n \in (read + 1)..Len(log) /\ v[k] = log[v[k].n]
  <2> SUFFICES ASSUME NEW k \in 1..Len(v), v[k].n # 0
               PROVE  v[k].n \in (read + 1)..Len(log) /\ v[k] = log[v[k].n]
    OBVIOUS
  <2>1. v[k] = w[k + 1] /\ k + 1 \in 1..Len(w)
    BY <1>1
  <2>2. w[k + 1].n # 0 => w[k + 1].n \in (read + 1)..Len(log) /\ w[k + 1] = log[w[k + 1].n]
    BY <2>1 DEF Carries
  <2> QED
    BY <2>1, <2>2
<1>6. \A k, j \in 1..Len(v) : k < j /\ v[k].n # 0 /\ v[j].n # 0 => v[k].n < v[j].n
  <2> SUFFICES ASSUME NEW k \in 1..Len(v), NEW j \in 1..Len(v), k < j, v[k].n # 0, v[j].n # 0
               PROVE  v[k].n < v[j].n
    OBVIOUS
  <2>1. v[k] = w[k + 1] /\ v[j] = w[j + 1] /\ k + 1 \in 1..Len(w) /\ j + 1 \in 1..Len(w)
    BY <1>1
  <2> QED
    BY <2>1 DEF Carries
<1>7. \A n \in (read + 1)..Len(log) : \E k \in 1..Len(v) : v[k].n = n
  <2> SUFFICES ASSUME NEW n \in (read + 1)..Len(log)
               PROVE  \E k \in 1..Len(v) : v[k].n = n
    OBVIOUS
  <2>1. PICK j \in 1..Len(w) : w[j].n = n
    BY DEF Carries
  <2>2. j # 1 /\ j - 1 \in 1..Len(v)
    BY <1>1, <2>1
  <2>3. v[j - 1] = w[j]
    BY <1>1, <2>2
  <2> QED
    BY <2>1, <2>2, <2>3
<1> QED
  BY <1>5, <1>6, <1>7 DEF Carries, v

\* A frame that is sent is on the wire and in the session.
LEMMA CarriesMore ==
    ASSUME NEW w \in Seq(Frames), NEW log \in Seq(Events), NEW read \in Nat,
           Carries(w, log, read), read <= Len(log), NEW e \in Events, e.n = Len(log) + 1
    PROVE  Carries(w \o <<e>>, log \o <<e>>, read)
<1> DEFINE v == w \o <<e>>
           g == log \o <<e>>
<1>0. e \in Frames
  BY DEF Frames
<1>1. /\ Len(v) = Len(w) + 1 /\ v[Len(w) + 1] = e /\ \A i \in 1..Len(w) : v[i] = w[i]
      /\ Len(g) = Len(log) + 1 /\ g[Len(log) + 1] = e /\ \A i \in 1..Len(log) : g[i] = log[i]
      /\ Len(w) \in Nat /\ Len(log) \in Nat
  BY <1>0, GrownIs
<1> HIDE DEF v, g
<1>2. \A k \in 1..Len(v) : v[k].n # 0 => v[k].n \in (read + 1)..Len(g) /\ v[k] = g[v[k].n]
  <2> SUFFICES ASSUME NEW k \in 1..Len(v), v[k].n # 0
               PROVE  v[k].n \in (read + 1)..Len(g) /\ v[k] = g[v[k].n]
    OBVIOUS
  <2>1. CASE k \in 1..Len(w)
    BY <1>1, <2>1 DEF Carries
  <2>2. CASE k = Len(w) + 1
    BY <1>1, <2>2
  <2> QED
    BY <1>1, <2>1, <2>2
<1>3. \A k, j \in 1..Len(v) : k < j /\ v[k].n # 0 /\ v[j].n # 0 => v[k].n < v[j].n
  <2> SUFFICES ASSUME NEW k \in 1..Len(v), NEW j \in 1..Len(v), k < j, v[k].n # 0, v[j].n # 0
               PROVE  v[k].n < v[j].n
    OBVIOUS
  <2>1. k \in 1..Len(w) /\ v[k].n \in (read + 1)..Len(log)
    BY <1>1 DEF Carries
  <2>2. CASE j \in 1..Len(w)
    BY <1>1, <2>1, <2>2 DEF Carries
  <2>3. CASE j = Len(w) + 1
    BY <1>1, <2>1, <2>3
  <2>4. j \in 1..Len(w) \/ j = Len(w) + 1
    BY <1>1
  <2> QED
    BY <2>2, <2>3, <2>4
<1>4. \A n \in (read + 1)..Len(g) : \E k \in 1..Len(v) : v[k].n = n
  <2> SUFFICES ASSUME NEW n \in (read + 1)..Len(g)
               PROVE  \E k \in 1..Len(v) : v[k].n = n
    OBVIOUS
  <2>1. CASE n = Len(log) + 1
    BY <1>1, <2>1
  <2>2. CASE n \in (read + 1)..Len(log)
    <3>1. PICK k \in 1..Len(w) : w[k].n = n
      BY <2>2 DEF Carries
    <3> QED
      BY <1>1, <3>1
  <2> QED
    BY <1>1, <2>1, <2>2
<1> QED
  BY <1>2, <1>3, <1>4 DEF Carries, v, g

\* One that is not of the session changes nothing.
LEMMA CarriesPlain ==
    ASSUME NEW w \in Seq(Frames), NEW log \in Seq(Events), NEW read \in Nat,
           Carries(w, log, read), NEW e \in Frames, e.n = 0
    PROVE  Carries(w \o <<e>>, log, read)
<1> DEFINE v == w \o <<e>>
<1>1. /\ Len(v) = Len(w) + 1 /\ v[Len(w) + 1] = e /\ \A i \in 1..Len(w) : v[i] = w[i]
      /\ Len(w) \in Nat /\ Len(log) \in Nat
  BY GrownIs
<1> HIDE DEF v
<1>2. \A k \in 1..Len(v) : v[k].n # 0 => k \in 1..Len(w) /\ v[k] = w[k]
  BY <1>1
<1>3. \A n \in (read + 1)..Len(log) : \E k \in 1..Len(v) : v[k].n = n
  <2> SUFFICES ASSUME NEW n \in (read + 1)..Len(log)
               PROVE  \E k \in 1..Len(v) : v[k].n = n
    OBVIOUS
  <2>1. PICK k \in 1..Len(w) : w[k].n = n
    BY DEF Carries
  <2> QED
    BY <1>1, <2>1
<1>4. \A k \in 1..Len(v) : v[k].n # 0 => v[k].n \in (read + 1)..Len(log) /\ v[k] = log[v[k].n]
  BY <1>2 DEF Carries
<1>5. \A k, j \in 1..Len(v) : k < j /\ v[k].n # 0 /\ v[j].n # 0 => v[k].n < v[j].n
  BY <1>2 DEF Carries
<1> QED
  BY <1>3, <1>4, <1>5 DEF Carries, v

\* The whole of a session, to a client that has read nothing; the rest of it, to one
\* that has read some.
LEMMA CarriesAll ==
    ASSUME NEW log \in Seq(Events), Opens(log)
    PROVE  Carries(log, log, 0)
BY DEF Carries, Opens

LEMMA CarriesRest ==
    ASSUME NEW log \in Seq(Events), Opens(log), NEW read \in Nat, read <= Len(log),
           NEW e \in Frames, e.n = 0
    PROVE  /\ SubSeq(log, read + 1, Len(log)) \o <<e>> \in Seq(Frames)
           /\ Carries(SubSeq(log, read + 1, Len(log)) \o <<e>>, log, read)
           /\ \A i \in 1..Len(SubSeq(log, read + 1, Len(log)) \o <<e>>) :
                 \/ (SubSeq(log, read + 1, Len(log)) \o <<e>>)[i] = e
                 \/ \E n \in 1..Len(log) :
                       (SubSeq(log, read + 1, Len(log)) \o <<e>>)[i] = log[n]
<1> DEFINE w == SubSeq(log, read + 1, Len(log))
<1>1. /\ w \in Seq(Events) /\ Len(w) = Len(log) - read /\ Len(log) \in Nat
      /\ \A i \in 1..Len(w) : w[i] = log[read + i] /\ read + i \in 1..Len(log)
  OBVIOUS
<1> HIDE DEF w
<1>2. w \in Seq(Frames)
  BY <1>1 DEF Frames
<1>3. Carries(w, log, read)
  <2>1. \A i \in 1..Len(w) : w[i].n = read + i
    BY <1>1 DEF Opens
  <2>2. \A n \in (read + 1)..Len(log) : \E i \in 1..Len(w) : w[i].n = n
    <3> SUFFICES ASSUME NEW n \in (read + 1)..Len(log)
                 PROVE  \E i \in 1..Len(w) : w[i].n = n
      OBVIOUS
    <3>1. n - read \in 1..Len(w)
      BY <1>1
    <3>2. w[n - read].n = read + (n - read)
      BY <2>1, <3>1
    <3> QED
      BY <3>1, <3>2
  <2>3. \A i \in 1..Len(w) : w[i].n \in (read + 1)..Len(log) /\ w[i] = log[w[i].n]
    <3> SUFFICES ASSUME NEW i \in 1..Len(w)
                 PROVE  w[i].n \in (read + 1)..Len(log) /\ w[i] = log[w[i].n]
      OBVIOUS
    <3>1. w[i] = log[read + i] /\ w[i].n = read + i /\ read + i \in 1..Len(log) /\ read + i >= read + 1
      BY <1>1, <2>1
    <3> QED
      BY <3>1
  <2>4. \A i, j \in 1..Len(w) : i < j => w[i].n < w[j].n
    BY <1>1, <2>1
  <2> QED
    BY <2>2, <2>3, <2>4 DEF Carries
<1>a. Len(w \o <<e>>) = Len(w) + 1 /\ Len(w) \in Nat
  BY <1>2, GrownIs
<1>4. \A i \in 1..Len(w \o <<e>>) : (w \o <<e>>)[i] = e \/ \E n \in 1..Len(log) : (w \o <<e>>)[i] = log[n]
  <2> SUFFICES ASSUME NEW i \in 1..Len(w \o <<e>>)
               PROVE  (w \o <<e>>)[i] = e \/ \E n \in 1..Len(log) : (w \o <<e>>)[i] = log[n]
    OBVIOUS
  <2>1. CASE i = Len(w) + 1
    BY <1>2, <2>1, GrownIs
  <2>2. CASE i \in 1..Len(w)
    <3>1. (w \o <<e>>)[i] = w[i]
      BY <1>2, <2>2, GrownIs
    <3> QED
      BY <1>1, <2>2, <3>1
  <2>3. i = Len(w) + 1 \/ i \in 1..Len(w)
    BY <1>a
  <2> QED
    BY <2>1, <2>2, <2>3
<1>5. w \o <<e>> \in Seq(Frames) /\ Carries(w \o <<e>>, log, read)
  BY <1>2, <1>3, GrownIs, CarriesPlain
<1> QED
  BY <1>4, <1>5 DEF w
\* The instance counts as everybody does.
LEMMA CountIs == \A S : Line!Cardinality(S) = Cardinality(S)
BY Zenon DEF Line!Cardinality, Cardinality, Line!IsFiniteSet, IsFiniteSet

\* Sequences, as functions.
LEMMA SingleIs ==
    ASSUME NEW e, NEW f, DOMAIN f = {1}, f = [i \in DOMAIN f |-> f[i]], f[1] = e
    PROVE  f = <<e>>
<1>1. DOMAIN <<e>> = {1} /\ <<e>> = [i \in 1..1 |-> <<e>>[i]] /\ <<e>>[1] = e
  OBVIOUS
<1>2. 1..1 = {1}
  OBVIOUS
<1> QED
  BY <1>1, <1>2

LEMMA SeqIs ==
    ASSUME NEW S, NEW n \in Nat, NEW f \in [1..n -> S]
    PROVE  f \in Seq(S) /\ Len(f) = n
OBVIOUS

\* The members a guild arrives with, and the request for the rest.
LEMMA ArrivesIs ==
    ASSUME NEW es \in Line!GuildArrives, intents = "roster"
    PROVE  \E part \in SUBSET crowd :
              /\ part = {} => crowd = {}
              /\ es = <<Line!Event("guild", part, Cardinality(crowd))>> \o
                        (IF part # crowd /\ part # {} THEN <<Line!Event("chunk", crowd, 0)>> ELSE <<>>)
<1> DEFINE G(part) == <<Line!Event("guild", part, Cardinality(crowd))>> \o
                      (IF part # crowd /\ part # {} THEN <<Line!Event("chunk", crowd, 0)>> ELSE <<>>)
<1>1. es \in {G(part) : part \in {p \in SUBSET crowd : p = {} => crowd = {}}}
  BY CountIs DEF Line!GuildArrives
<1> HIDE DEF G
<1>2. PICK part \in SUBSET crowd : (part = {} => crowd = {}) /\ es = G(part)
  BY <1>1
<1> QED
BY <1>2 DEF G

-----------------------------------------------------------------------------
(* What a step does to the connection                                         *)

\* A frame is sent: the session keeps it, and a client that listens gets it.
Sends(e) ==
    /\ kept' = [kept EXCEPT !.log = kept.log \o <<e>>]
    /\ wire' = IF Line!Receives THEN wire \o <<e>> ELSE wire

\* An event that is dispatched is sent with the next number.
Numbered(es, n) == [i \in DOMAIN es |-> [es[i] EXCEPT !.n = n + i]]

LEMMA NumberedIs ==
    ASSUME NEW log \in Seq(Events), NEW x \in Kinds, NEW s \in SUBSET People, NEW c \in Nat
    PROVE  \E e \in Events : /\ e.op = x /\ e.who = s /\ e.count = c /\ e.n = Len(log) + 1
                            /\ Numbered(<<Line!Event(x, s, c)>>, Len(log)) = <<e>>
<1> DEFINE e == [op |-> x, n |-> Len(log) + 1, who |-> s, count |-> c]
           es == <<Line!Event(x, s, c)>>
           nu == Numbered(es, Len(log))
<1>1. e \in Events /\ e.op = x /\ e.who = s /\ e.count = c /\ e.n = Len(log) + 1
  BY DEF Events
<1>2. nu = <<e>>
  <2>1. DOMAIN es = {1} /\ es[1] = Line!Event(x, s, c)
    OBVIOUS
  <2>2. [es[1] EXCEPT !.n = Len(log) + 1] = e
    BY <2>1 DEF Line!Event
  <2> HIDE DEF es, e
  <2>3. DOMAIN nu = {1} /\ nu[1] = e /\ nu = [i \in DOMAIN nu |-> nu[i]]
    BY <2>1, <2>2 DEF Numbered
  <2> HIDE DEF nu
  <2> QED
    BY <2>3, SingleIs
<1> HIDE DEF e
<1> QED
  BY <1>1, <1>2

\* Somebody joins or leaves; a client that asked for it is told.
LEMMA MoveIs ==
    ASSUME LineTyped, Line!Move
    PROVE  /\ kept.id # 0
           /\ UNCHANGED <<plan, mute, phase, session, sequence, intents, connected, roster, total,
                          missed, dirty, timer, flush, shown, told, sessions>>
           /\ crowd' \subseteq People
           /\ \/ intents = "relay" /\ UNCHANGED <<kept, wire>>
              \/ \E u \in People, e \in Events :
                    /\ e.n = Len(kept.log) + 1 /\ Sends(e) /\ e.who = {u} /\ e.count = 0
                    /\ e.op \in {"add", "remove"} /\ intents = "roster"
                    /\ e.op = "add" => u \notin crowd /\ crowd' = crowd \cup {u}
                    /\ e.op = "remove" => u \in crowd /\ crowd' = crowd \ {u}
<1>1. PICK u \in People :
        /\ crowd' = IF u \in crowd THEN crowd \ {u} ELSE crowd \cup {u}
        /\ IF intents = "relay" THEN UNCHANGED <<kept, wire>>
           ELSE Line!Dispatches(<<Line!Event(IF u \in crowd THEN "remove" ELSE "add", {u}, 0)>>)
  BY DEF Line!Move
<1>2. crowd \subseteq People /\ kept.log \in Seq(Events) /\ intents \in {"roster", "relay"}
  BY DEF LineTyped, Line!TypeOK
<1>3. /\ kept.id # 0
      /\ UNCHANGED <<plan, mute, phase, session, sequence, intents, connected, roster, total,
                     missed, dirty, timer, flush, shown, told, sessions>>
  BY DEF Line!Move, Line!clientVars, Line!publisherVars, Line!historyVars
<1>4. CASE intents = "relay"
  BY <1>1, <1>2, <1>3, <1>4
<1>5. CASE intents # "relay"
  <2>1. PICK x \in {"add", "remove"} : x = IF u \in crowd THEN "remove" ELSE "add"
    OBVIOUS
  <2>2. /\ kept' = [kept EXCEPT !.log = kept.log \o Numbered(<<Line!Event(x, {u}, 0)>>, Len(kept.log))]
        /\ wire' = IF Line!Receives THEN wire \o Numbered(<<Line!Event(x, {u}, 0)>>, Len(kept.log))
                   ELSE wire
    BY <1>1, <1>5, <2>1 DEF Line!Dispatches, Numbered
  <2>3. x \in Kinds /\ {u} \in SUBSET People /\ 0 \in Nat
    BY DEF Kinds
  <2>4. PICK e \in Events :
           /\ e.op = x /\ e.who = {u} /\ e.count = 0 /\ e.n = Len(kept.log) + 1
           /\ Numbered(<<Line!Event(x, {u}, 0)>>, Len(kept.log)) = <<e>>
    BY <1>2, <2>3, NumberedIs
  <2>5. Sends(e)
    BY <2>2, <2>4 DEF Sends
  <2>6. intents = "roster"
    BY <1>2, <1>5
  <2>7. crowd' \subseteq People /\ (e.op = "add" => u \notin crowd /\ crowd' = crowd \cup {u})
        /\ (e.op = "remove" => u \in crowd /\ crowd' = crowd \ {u})
    BY <1>1, <1>2, <2>1, <2>4
  <2>8. \E v \in People, f \in Events :
           /\ f.n = Len(kept.log) + 1 /\ Sends(f) /\ f.who = {v} /\ f.count = 0
           /\ f.op \in {"add", "remove"} /\ intents = "roster"
           /\ f.op = "add" => v \notin crowd /\ crowd' = crowd \cup {v}
           /\ f.op = "remove" => v \in crowd /\ crowd' = crowd \ {v}
    BY <2>4, <2>5, <2>6, <2>7
  <2> QED
    BY <1>3, <2>7, <2>8
<1> QED
  BY <1>4, <1>5

\* Somebody speaks; every client is told.
LEMMA SpeaksIs ==
    ASSUME LineTyped, Line!SomebodySpeaks
    PROVE  /\ kept.id # 0
           /\ UNCHANGED <<plan, crowd, mute, phase, session, sequence, intents, connected, roster,
                          total, missed, dirty, timer, flush, shown, told, sessions>>
           /\ \E e \in Events : /\ e.n = Len(kept.log) + 1 /\ Sends(e)
                                /\ e.op = "message" /\ e.who = {} /\ e.count = 0
<1>1. Line!Dispatches(<<Line!Event("message", {}, 0)>>)
  BY DEF Line!SomebodySpeaks
<1>2. kept.log \in Seq(Events)
  BY DEF LineTyped
<1>3. /\ kept.id # 0
      /\ UNCHANGED <<plan, crowd, mute, phase, session, sequence, intents, connected, roster,
                     total, missed, dirty, timer, flush, shown, told, sessions>>
  BY DEF Line!SomebodySpeaks, Line!clientVars, Line!publisherVars, Line!historyVars
<1>4. /\ kept' = [kept EXCEPT !.log = kept.log \o Numbered(<<Line!Event("message", {}, 0)>>, Len(kept.log))]
      /\ wire' = IF Line!Receives THEN wire \o Numbered(<<Line!Event("message", {}, 0)>>, Len(kept.log))
                 ELSE wire
  BY <1>1 DEF Line!Dispatches, Numbered
<1>5. "message" \in Kinds /\ {} \in SUBSET People /\ 0 \in Nat
  BY DEF Kinds
<1>6. PICK e \in Events :
         /\ e.op = "message" /\ e.who = {} /\ e.count = 0 /\ e.n = Len(kept.log) + 1
         /\ Numbered(<<Line!Event("message", {}, 0)>>, Len(kept.log)) = <<e>>
  BY <1>2, <1>5, NumberedIs
<1>7. Sends(e)
  BY <1>4, <1>6 DEF Sends
<1> QED
  BY <1>3, <1>6, <1>7

\* A new session begins with READY and the guild.
LEMMA IdentifyIs ==
    ASSUME LineTyped, Line!Identify
    PROVE  /\ phase = "dialled" /\ phase' = "opening" /\ session = 0 /\ ~mute /\ Line!Granted
           /\ sessions' = sessions + 1 /\ kept' = [id |-> sessions + 1, log |-> wire']
           /\ wire' \in Seq(Events) /\ Opens(wire')
           /\ UNCHANGED <<plan, crowd, mute, session, sequence, intents, connected, roster, total,
                          missed, dirty, timer, flush, shown, told>>
           /\ \/ /\ intents = "relay" /\ Len(wire') = 2
                 /\ wire'[1].count = 0 /\ wire'[2].count = 0 /\ wire'[2].op = "guild"
              \/ /\ intents = "roster" /\ wire'[2].op = "guild"
                 /\ wire'[2].count = Cardinality(crowd) /\ wire'[2].who \subseteq crowd
                 /\ \/ Len(wire') = 2 /\ wire'[2].who = crowd
                    \/ Len(wire') = 3 /\ wire'[3].op = "chunk" /\ wire'[3].who = crowd
<1> DEFINE Log(es) == [i \in 1..(Len(es) + 1) |->
                          IF i = 1 THEN [Line!Event("ready", {}, 0) EXCEPT !.n = 1]
                          ELSE [es[i - 1] EXCEPT !.n = i]]
           ready == [op |-> "ready", n |-> 1, who |-> {}, count |-> 0]
           guild(who, count) == [op |-> "guild", n |-> 2, who |-> who, count |-> count]
           chunk == [op |-> "chunk", n |-> 3, who |-> crowd, count |-> 0]
<1>1. PICK es \in Line!GuildArrives : kept' = [id |-> sessions', log |-> Log(es)] /\ wire' = Log(es)
  BY DEF Line!Identify
<1>2. /\ phase = "dialled" /\ phase' = "opening" /\ session = 0 /\ ~mute /\ Line!Granted
      /\ sessions' = sessions + 1
      /\ UNCHANGED <<plan, crowd, mute, session, sequence, intents, connected, roster, total,
                     missed, dirty, timer, flush, shown, told>>
  BY DEF Line!Identify, Line!publisherVars
<1>3. crowd \in SUBSET People /\ Cardinality(crowd) \in Nat /\ intents \in {"roster", "relay"}
  <2>1. crowd \in SUBSET People
    BY DEF LineTyped, Line!TypeOK
  <2>2. IsFiniteSet(crowd)
    BY <2>1, ClientFits, FS_Subset
  <2> QED
    BY <2>1, <2>2, FS_CardinalityType DEF LineTyped, Line!TypeOK
<1>4. /\ ready \in Events /\ chunk \in Events
      /\ \A s \in SUBSET People, c \in Nat : guild(s, c) \in Events
  <2>1. {} \in SUBSET People /\ {"ready", "chunk", "guild"} \subseteq Kinds /\ {0, 1, 2, 3} \subseteq Nat
    BY DEF Kinds
  <2>2. ready \in Events
    BY <2>1 DEF Events
  <2>3. chunk \in Events
    BY <1>3, <2>1 DEF Events
  <2>4. ASSUME NEW s \in SUBSET People, NEW c \in Nat
        PROVE  guild(s, c) \in Events
    BY <2>1 DEF Events
  <2> QED
    BY <2>2, <2>3, <2>4
<1>5. CASE intents = "relay"
  <2>1. es = <<Line!Event("guild", {}, 0)>>
    BY <1>1, <1>5 DEF Line!GuildArrives
  <2>2. Len(es) = 1 /\ es[1] = Line!Event("guild", {}, 0)
    BY <2>1
  <2>3. PICK r, g : r = ready /\ g = guild({}, 0)
    OBVIOUS
  <2>4. wire' \in Seq(Events) /\ Len(wire') = 2 /\ wire'[1] = r /\ wire'[2] = g
    <3>1. Len(es) + 1 = 2 /\ 1..2 = {1, 2}
      BY <2>2
    <3>2. [Line!Event("ready", {}, 0) EXCEPT !.n = 1] = r
      BY <2>3 DEF Line!Event
    <3>3. [es[1] EXCEPT !.n = 2] = g
      BY <2>2, <2>3 DEF Line!Event
    <3>4. r \in Events /\ g \in Events
      BY <1>4, <2>3
    <3>5. wire' \in [1..2 -> Events] /\ wire'[1] = r /\ wire'[2] = g
      <4>1. wire' = [i \in {1, 2} |-> IF i = 1 THEN r ELSE [es[i - 1] EXCEPT !.n = i]]
        BY <1>1, <3>1, <3>2
      <4>2. DOMAIN wire' = {1, 2} /\ wire'[1] = r /\ wire'[2] = [es[1] EXCEPT !.n = 2]
        BY <4>1
      <4>3. wire' = [i \in {1, 2} |-> wire'[i]]
        BY <4>1
      <4> QED
        BY <4>2, <4>3, <3>1, <3>3, <3>4
    <3> QED
      BY <3>5, SeqIs
  <2>5. Opens(wire')
    BY <2>3, <2>4 DEF Opens
  <2>6. wire'[1].count = 0 /\ wire'[2].count = 0 /\ wire'[2].op = "guild"
    BY <2>3, <2>4
  <2> QED
    BY <1>1, <1>2, <1>5, <2>4, <2>5, <2>6
<1>6. CASE intents = "roster"
  <2>1. PICK part \in SUBSET crowd :
           /\ part = {} => crowd = {}
           /\ es = <<Line!Event("guild", part, Cardinality(crowd))>> \o
                      (IF part # crowd /\ part # {} THEN <<Line!Event("chunk", crowd, 0)>> ELSE <<>>)
    BY <1>1, <1>6, ArrivesIs
  <2>2. part \in SUBSET People
    BY <1>3
  <2>3. [Line!Event("ready", {}, 0) EXCEPT !.n = 1] = ready
    BY DEF Line!Event
  <2>4. CASE part = crowd
    <3>1. es = <<Line!Event("guild", part, Cardinality(crowd))>>
      BY <2>1, <2>4
    <3>2. Len(es) = 1 /\ es[1] = Line!Event("guild", part, Cardinality(crowd))
      BY <3>1
    <3>3. PICK r, g : r = ready /\ g = guild(part, Cardinality(crowd))
      OBVIOUS
    <3>4. wire' \in Seq(Events) /\ Len(wire') = 2 /\ wire'[1] = r /\ wire'[2] = g
      <4>1. Len(es) + 1 = 2 /\ 1..2 = {1, 2}
        BY <3>2
      <4>2. [Line!Event("ready", {}, 0) EXCEPT !.n = 1] = r
        BY <2>3, <3>3
      <4>3. [es[1] EXCEPT !.n = 2] = g
        BY <3>2, <3>3 DEF Line!Event
      <4>4. r \in Events /\ g \in Events
        BY <1>3, <1>4, <2>2, <3>3
      <4>5. wire' \in [1..2 -> Events] /\ wire'[1] = r /\ wire'[2] = g
        <5>1. wire' = [i \in {1, 2} |-> IF i = 1 THEN r ELSE [es[i - 1] EXCEPT !.n = i]]
          BY <1>1, <4>1, <4>2
        <5>2. DOMAIN wire' = {1, 2} /\ wire'[1] = r /\ wire'[2] = [es[1] EXCEPT !.n = 2]
          BY <5>1
        <5>3. wire' = [i \in {1, 2} |-> wire'[i]]
          BY <5>1
        <5> QED
          BY <5>2, <5>3, <4>1, <4>3, <4>4
      <4> QED
        BY <4>5, SeqIs
    <3>5. Opens(wire')
      BY <3>3, <3>4 DEF Opens
    <3>6. wire'[2].op = "guild" /\ wire'[2].count = Cardinality(crowd) /\ wire'[2].who = crowd
      BY <2>4, <3>3, <3>4
    <3> QED
      BY <1>1, <1>2, <1>6, <3>4, <3>5, <3>6
  <2>5. CASE part # crowd
    <3>1. part # {}
      BY <2>1, <2>5
    <3>2. /\ Len(es) = 2 /\ es[1] = Line!Event("guild", part, Cardinality(crowd))
          /\ es[2] = Line!Event("chunk", crowd, 0)
      <4>1. PICK a, b : a = Line!Event("guild", part, Cardinality(crowd)) /\
                b = Line!Event("chunk", crowd, 0)
        OBVIOUS
      <4>2. es = <<a>> \o <<b>>
        BY <2>1, <2>5, <3>1, <4>1
      <4>3. Len(<<a>> \o <<b>>) = 2 /\ (<<a>> \o <<b>>)[1] = a /\ (<<a>> \o <<b>>)[2] = b
        OBVIOUS
      <4> QED
        BY <4>1, <4>2, <4>3
    <3>3. PICK r, g, k : r = ready /\ g = guild(part, Cardinality(crowd)) /\ k = chunk
      OBVIOUS
    <3>4. wire' \in Seq(Events) /\ Len(wire') = 3 /\ wire'[1] = r /\ wire'[2] = g /\ wire'[3] = k
      <4>1. Len(es) + 1 = 3 /\ 1..3 = {1, 2, 3}
        BY <3>2
      <4>2. [Line!Event("ready", {}, 0) EXCEPT !.n = 1] = r
        BY <2>3, <3>3
      <4>3. [es[1] EXCEPT !.n = 2] = g /\ [es[2] EXCEPT !.n = 3] = k
        BY <3>2, <3>3 DEF Line!Event
      <4>4. r \in Events /\ g \in Events /\ k \in Events
        BY <1>3, <1>4, <2>2, <3>3
      <4>5. wire' \in [1..3 -> Events] /\ wire'[1] = r /\ wire'[2] = g /\ wire'[3] = k
        <5>1. wire' = [i \in {1, 2, 3} |-> IF i = 1 THEN r ELSE [es[i - 1] EXCEPT !.n = i]]
          BY <1>1, <4>1, <4>2
        <5>2. /\ DOMAIN wire' = {1, 2, 3} /\ wire'[1] = r
              /\ wire'[2] = [es[1] EXCEPT !.n = 2] /\ wire'[3] = [es[2] EXCEPT !.n = 3]
          BY <5>1
        <5>3. wire' = [i \in {1, 2, 3} |-> wire'[i]]
          BY <5>1
        <5> QED
          BY <5>2, <5>3, <4>1, <4>3, <4>4
      <4> QED
        BY <4>5, SeqIs
    <3>5. Opens(wire')
      BY <3>3, <3>4 DEF Opens
    <3>6. /\ wire'[2].op = "guild" /\ wire'[2].count = Cardinality(crowd) /\ wire'[2].who \subseteq crowd
          /\ wire'[3].op = "chunk" /\ wire'[3].who = crowd
      BY <3>3, <3>4
    <3> QED
      BY <1>1, <1>2, <1>6, <3>4, <3>5, <3>6
  <2> QED
    BY <2>4, <2>5
<1> QED
  BY <1>3, <1>5, <1>6
-----------------------------------------------------------------------------
(* Reading                                                                    *)

\* What a frame is.
LEMMA FrameIs ==
    ASSUME NEW f \in Frames
    PROVE  /\ f.n \in Nat /\ (f.op \notin Kinds => f.n = 0) /\ (f.op \in Kinds => f \in Events)
           /\ f.n # 0 => f \in Events
           /\ f \in Events => f.op \in Kinds /\ f.who \subseteq People /\ f.count \in Nat
BY DEF Frames, Events, Kinds

\* The frame that is read is the next one of the session, or is of no session.
LEMMA ReadIs ==
    ASSUME LineTyped, Knows, Follows, Line!Receives, wire # <<>>, NEW f, f = Head(wire)
    PROVE  /\ f \in Frames /\ f = wire[1] /\ 1 \in 1..Len(wire)
           /\ f.op \in Kinds <=> f.n # 0
           /\ f.op = "invalid" => kept.id = 0
           /\ session = 0 => f.n = 1 /\ f.op = "ready"
           /\ Tail(wire) \in Seq(Frames)
           /\ \A i \in 1..Len(Tail(wire)) : \E j \in 1..Len(wire) : Tail(wire)[i] = wire[j]
           /\ f.n # 0 =>
                /\ f \in Events /\ f.n = sequence + 1 /\ f.n \in 1..Len(kept.log)
                /\ f = kept.log[sequence + 1] /\ kept.id # 0 /\ kept.id = sessions
                /\ Carries(Tail(wire), kept.log, sequence + 1)
                /\ f.op = "ready" <=> session = 0
                /\ session # 0 => session = kept.id
           /\ f.n = 0 => Carries(Tail(wire), kept.log, sequence)
<1>1. /\ wire \in Seq(Frames) /\ kept.log \in Seq(Events) /\ sequence \in Nat
      /\ (session = 0 => sequence = 0) /\ Line!Open
  BY DEF LineTyped, Line!TypeOK, Line!Receives
<1>2. /\ f \in Frames /\ f = wire[1] /\ 1 \in 1..Len(wire) /\ Tail(wire) \in Seq(Frames)
      /\ \A i \in 1..Len(Tail(wire)) : \E j \in 1..Len(wire) : Tail(wire)[i] = wire[j]
  <2>1. /\ Head(wire) = wire[1] /\ wire[1] \in Frames /\ Tail(wire) \in Seq(Frames)
        /\ Len(wire) \in Nat /\ Len(wire) >= 1 /\ Len(Tail(wire)) = Len(wire) - 1
        /\ \A i \in 1..(Len(wire) - 1) : Tail(wire)[i] = wire[i + 1]
    BY <1>1, TailIs
  <2>2. ASSUME NEW i \in 1..Len(Tail(wire))
        PROVE  \E j \in 1..Len(wire) : Tail(wire)[i] = wire[j]
    <3>1. i + 1 \in 1..Len(wire) /\ Tail(wire)[i] = wire[i + 1]
      BY <2>1
    <3> QED
      BY <3>1
  <2> QED
    BY <2>1, <2>2
<1>3. f.op \in Kinds <=> f.n # 0
  BY <1>2, FrameIs DEF Follows
<1>4. f.op = "invalid" => kept.id = 0
  BY <1>2 DEF Follows
<1>5. Carries(wire, kept.log, sequence)
  BY DEF Follows
<1>6. f.n = 0 => Carries(Tail(wire), kept.log, sequence)
  BY <1>1, <1>5, CarriesSkips
<1>7. f.n # 0 =>
        /\ f.n = sequence + 1 /\ f.n \in 1..Len(kept.log) /\ f = kept.log[sequence + 1]
        /\ Carries(Tail(wire), kept.log, sequence + 1)
  BY <1>1, <1>5, CarriesRead
<1>8. session = 0 => f.n # 0
  BY <1>1, <1>2 DEF Line!Receives, Line!Open, Knows
<1>9. f.n # 0 => kept.id # 0 /\ kept.id = sessions /\ (session # 0 => session = kept.id)
  BY <1>1, <1>7 DEF Knows
<1>10. f.n # 0 => (f.op = "ready" <=> sequence = 0)
  BY <1>1, <1>7 DEF Knows, Opens
<1>11. session = 0 <=> sequence = 0
  BY <1>1 DEF Knows
<1>12. f.n # 0 => f \in Events
  BY <1>2, FrameIs
<1> QED
  BY <1>1, <1>2, <1>3, <1>4, <1>6, <1>7, <1>8, <1>9, <1>10, <1>11, <1>12

\* What is read of a session, and what is not of one.
TakesNext == Line!Receives /\ wire # <<>> /\ Head(wire).n # 0 /\ wire' = Tail(wire) /\ sequence' = sequence + 1
TakesPlain == Line!Receives /\ wire # <<>> /\ Head(wire).n = 0 /\ wire' = Tail(wire) /\ sequence' = sequence

\* The steps that read, by what they read.
LEMMA ReadsAre ==
    ASSUME LineTyped, Knows, Follows
    PROVE  /\ Line!Established =>
                /\ phase' = "up" /\ connected' = TRUE
                /\ UNCHANGED <<plan, crowd, kept, mute, intents, roster, total, missed, dirty, timer,
                               flush, shown, told, sessions>>
                /\ \/ TakesNext /\ Head(wire).op = "ready" /\ session = 0 /\ session' = kept.id
                   \/ TakesPlain /\ Head(wire).op = "resumed" /\ session # 0 /\ session' = session
           /\ Line!ReadMessage =>
                /\ TakesNext /\ Head(wire).op = "message"
                /\ told' = Append(told, [session |-> session, n |-> sequence + 1])
                /\ UNCHANGED <<plan, crowd, kept, mute, phase, session, intents, connected, roster,
                               total, missed, dirty, timer, flush, shown, sessions>>
           /\ Line!ReadRoster =>
                /\ TakesNext /\ Head(wire).op \in {"guild", "chunk", "add", "remove"}
                /\ UNCHANGED <<plan, crowd, kept, mute, phase, session, intents, connected,
                               missed, flush, shown, told, sessions>>
<1>1. \A op \in Kinds : Line!Take(op) /\ Line!Numbered => TakesNext /\ Head(wire).op = op
  <2> SUFFICES ASSUME NEW op \in Kinds, Line!Take(op), Line!Numbered
               PROVE  TakesNext /\ Head(wire).op = op
    OBVIOUS
  <2>1. Line!Receives /\ wire # <<>> /\ Head(wire).op = op /\ wire' = Tail(wire)
    BY DEF Line!Take, Line!Frame
  <2>2. Head(wire).n # 0 /\ Head(wire).n = sequence + 1
    BY <2>1, ReadIs
  <2> QED
    BY <2>1, <2>2 DEF TakesNext, Line!Numbered, Line!Frame
<1>2. ASSUME Line!Established
      PROVE  /\ phase' = "up" /\ connected' = TRUE
             /\ UNCHANGED <<plan, crowd, kept, mute, intents, roster, total, missed, dirty, timer,
                            flush, shown, told, sessions>>
             /\ \/ TakesNext /\ Head(wire).op = "ready" /\ session = 0 /\ session' = kept.id
                \/ TakesPlain /\ Head(wire).op = "resumed" /\ session # 0 /\ session' = session
  <2>1. /\ phase' = "up" /\ connected' = TRUE
        /\ UNCHANGED <<plan, crowd, kept, mute, intents, roster, total, missed, dirty, timer,
                       flush, shown, told, sessions>>
    BY <1>2 DEF Line!Established, Line!publisherVars, Line!historyVars
  <2>2. CASE Line!Take("ready") /\ session' = kept.id /\ Line!Numbered
    <3>1. TakesNext /\ Head(wire).op = "ready"
      BY <1>1, <2>2 DEF Kinds
    <3>2. session = 0
      BY <3>1, ReadIs DEF TakesNext
    <3> QED
      BY <2>1, <2>2, <3>1, <3>2
  <2>3. CASE Line!Take("resumed") /\ UNCHANGED <<session, sequence>>
    <3>1. Line!Receives /\ wire # <<>> /\ Head(wire).op = "resumed" /\ wire' = Tail(wire)
      BY <2>3 DEF Line!Take, Line!Frame
    <3>2. Head(wire).n = 0 /\ session # 0
      BY <3>1, ReadIs DEF Kinds
    <3> QED
      BY <2>1, <2>3, <3>1, <3>2 DEF TakesPlain
  <2> QED
    BY <1>2, <2>2, <2>3 DEF Line!Established
<1>3. ASSUME Line!ReadMessage
      PROVE  /\ TakesNext /\ Head(wire).op = "message"
             /\ told' = Append(told, [session |-> session, n |-> sequence + 1])
             /\ UNCHANGED <<plan, crowd, kept, mute, phase, session, intents, connected, roster,
                            total, missed, dirty, timer, flush, shown, sessions>>
  <2>1. TakesNext /\ Head(wire).op = "message"
    BY <1>1, <1>3 DEF Line!ReadMessage, Kinds
  <2>2. Head(wire).n = sequence + 1
    BY <2>1, ReadIs DEF TakesNext
  <2>3. told' = Append(told, [session |-> session, n |-> sequence + 1])
    BY <1>3, <2>2 DEF Line!ReadMessage, Line!Frame
  <2> QED
    BY <1>3, <2>1, <2>3 DEF Line!ReadMessage, Line!publisherVars
<1>4. ASSUME Line!ReadRoster
      PROVE  /\ TakesNext /\ Head(wire).op \in {"guild", "chunk", "add", "remove"}
             /\ UNCHANGED <<plan, crowd, kept, mute, phase, session, intents, connected,
                            missed, flush, shown, told, sessions>>
  <2>1. \E op \in {"guild", "chunk", "add", "remove"} : Line!Take(op) /\ Line!Numbered
    BY <1>4 DEF Line!ReadRoster
  <2>2. TakesNext /\ Head(wire).op \in {"guild", "chunk", "add", "remove"}
    BY <1>1, <2>1 DEF Kinds
  <2> QED
    BY <1>4, <2>2 DEF Line!ReadRoster, Line!historyVars
<1> QED
  BY <1>2, <1>3, <1>4
-----------------------------------------------------------------------------
(* The connection, step by step                                               *)

LinkTyped ==
    /\ kept \in [id : Nat, log : Seq(Events)] /\ wire \in Seq(Frames) /\ sessions \in Nat
    /\ kept.id \in 0..sessions /\ session \in 0..sessions /\ sequence \in Nat
    /\ phase \in Line!Phases /\ intents \in {"roster", "relay"} /\ connected \in BOOLEAN
    /\ mute \in BOOLEAN /\ missed \in 0..MaxMissed
    /\ session = 0 => sequence = 0
    /\ connected => phase = "up"

PeopleTyped ==
    /\ crowd \subseteq People /\ roster \subseteq People /\ total \in Nat
    /\ {dirty, timer} \subseteq BOOLEAN /\ shown \cup flush.who \subseteq People
    /\ flush.at \in {"idle", "taken", "built"}

\* The types, in parts.
LEMMA LineTypes ==
    LineTyped <=> /\ LinkTyped /\ PeopleTyped /\ plan \in ClientPlans
                  /\ told \in Seq([session : Nat, n : Nat])
BY DEF LineTyped, Line!TypeOK, LinkTyped, PeopleTyped

Linked == LinkTyped /\ Knows /\ Follows

\* Nothing happens to it.
LEMMA LinkRests ==
    ASSUME Linked, UNCHANGED <<kept, wire, sessions, session, sequence, phase, intents, connected,
                               mute, missed>>
    PROVE  Linked'
BY DEF Linked, LinkTyped, Knows, Follows, Line!Receives, Line!Open

\* A connection that ends takes along what is on the wire; the session is remembered,
\* unless Discord has forgotten it too, or there is none.
LEMMA LinkEnds ==
    ASSUME Linked, NEW p \in {"down", "stopped", "cancelled"}, Line!Hangup(p),
           UNCHANGED <<kept, sessions>>, intents' \in {"roster", "relay"},
           \/ UNCHANGED <<session, sequence>>
           \/ session' = 0 /\ sequence' = 0
    PROVE  Linked'
<1>1. phase' = p /\ wire' = <<>> /\ mute' = FALSE /\ connected' = FALSE /\ missed' = 0
  BY DEF Line!Hangup
<1>2. LinkTyped'
  <2>1. wire' \in Seq(Frames) /\ missed' \in 0..MaxMissed /\ mute' \in BOOLEAN /\ connected' \in BOOLEAN
    <3>1. MaxMissed \in Nat
      BY ClientFits
    <3>2. 0 \in 0..MaxMissed
      BY <3>1
    <3>3. << >> \in Seq(Frames)
      OBVIOUS
    <3> QED
      BY <1>1, <3>2, <3>3
  <2>2. session' \in 0..sessions /\ sequence' \in Nat /\ (session' = 0 => sequence' = 0)
    BY DEF Linked, LinkTyped
  <2>3. phase' \in Line!Phases /\ (connected' => phase' = "up")
    BY <1>1 DEF Line!Phases
  <2> QED
    BY <2>1, <2>2, <2>3 DEF Linked, LinkTyped
<1>3. Knows'
  BY <1>1 DEF Linked, Knows
<1>4. Follows'
  BY <1>1 DEF Follows, Line!Receives, Line!Open
<1> QED
  BY <1>2, <1>3, <1>4 DEF Linked

\* One that is opened has nothing on its wire yet.
LEMMA LinkDials ==
    ASSUME Linked, Line!Dial
    PROVE  Linked'
<1>1. phase = "down" /\ phase' = "dialled" /\ UNCHANGED <<kept, wire, sessions, session, sequence,
          intents, connected, mute, missed>>
  BY DEF Line!Dial, Line!discordVars, Line!historyVars
<1>2. LinkTyped'
  BY <1>1 DEF Linked, LinkTyped, Line!Phases
<1>3. Knows'
  BY <1>1 DEF Linked, Knows
<1>4. Follows'
  BY <1>1 DEF Linked, Follows, Line!Receives, Line!Open
<1> QED
  BY <1>2, <1>3, <1>4 DEF Linked

\* A session is resumed where it was left, or is refused because it is forgotten.
LEMMA LinkResumes ==
    ASSUME Linked, Line!Resume
    PROVE  Linked'
<1>0. kept.log \in Seq(Events) /\ sequence \in Nat /\ Opens(kept.log) /\ Len(kept.log) \in Nat
  BY DEF Linked, LinkTyped, Knows
<1>1. /\ session # 0 /\ phase' = "opening" /\ phase = "dialled" /\ ~mute
      /\ UNCHANGED <<kept, mute, sessions, session, sequence, intents, connected, missed>>
  BY DEF Line!Resume, Line!historyVars
<1>2. PICK no : no = [op |-> "invalid", n |-> 0]
  OBVIOUS
<1>3. PICK yes : yes = [op |-> "resumed", n |-> 0]
  OBVIOUS
<1>4. no \in Frames /\ no.n = 0 /\ no.op = "invalid" /\ yes \in Frames /\ yes.n = 0 /\ yes.op = "resumed"
  BY <1>2, <1>3 DEF Frames
<1>5. CASE kept.id = session
  <2>1. wire' = SubSeq(kept.log, sequence + 1, Len(kept.log)) \o <<yes>>
    BY <1>3, <1>5 DEF Line!Resume, Line!Plain
  <2>2. sequence <= Len(kept.log)
    BY <1>0, <1>1, <1>5 DEF Linked, Knows
  <2>3. /\ wire' \in Seq(Frames) /\ Carries(wire', kept.log, sequence)
        /\ \A i \in 1..Len(wire') : wire'[i] = yes \/ \E n \in 1..Len(kept.log) : wire'[i] = kept.log[n]
    BY <1>0, <1>4, <2>1, <2>2, CarriesRest
  <2>4. ASSUME NEW n \in 1..Len(kept.log)
        PROVE  kept.log[n].op \in Kinds /\ kept.log[n].n # 0
    <3>1. kept.log[n] \in Events
      BY <1>0
    <3>2. kept.log[n].op \in Kinds
      BY <3>1 DEF Events
    <3>3. kept.log[n].n = n
      BY <1>0 DEF Opens
    <3> QED
      BY <1>0, <3>2, <3>3
  <2>5. Follows'
    BY <1>1, <1>4, <2>3, <2>4 DEF Follows, Kinds
  <2>6. LinkTyped'
    BY <1>1, <2>3 DEF Linked, LinkTyped, Line!Phases
  <2>7. Knows'
    BY <1>1 DEF Linked, Knows
  <2> QED
    BY <2>5, <2>6, <2>7 DEF Linked
<1>6. CASE kept.id # session
  <2>1. wire' = <<no>>
    BY <1>2, <1>6 DEF Line!Resume, Line!Plain
  <2>2. kept.id = 0 /\ kept.log = <<>>
    BY <1>1, <1>6 DEF Linked, Knows
  <2>3. wire' \in Seq(Frames) /\ Len(wire') = 1 /\ wire'[1] = no
    BY <1>4, <2>1
  <2>4. Carries(wire', kept.log, sequence)
    <3>1. Len(kept.log) = 0 /\ (sequence + 1)..0 = {}
      BY <1>0, <2>2
    <3> QED
      BY <1>4, <2>3, <3>1 DEF Carries
  <2>5. Follows'
    BY <1>1, <1>4, <2>2, <2>3, <2>4 DEF Follows, Kinds
  <2>6. LinkTyped'
    BY <1>1, <2>3 DEF Linked, LinkTyped, Line!Phases
  <2>7. Knows'
    BY <1>1 DEF Linked, Knows
  <2> QED
    BY <2>5, <2>6, <2>7 DEF Linked
<1> QED
  BY <1>5, <1>6

\* A new session is there from its first frame on.
LEMMA LinkIdentifies ==
    ASSUME LineTyped, Linked, Line!Identify
    PROVE  Linked'
<1>1. /\ phase = "dialled" /\ phase' = "opening" /\ session = 0 /\ ~mute
      /\ sessions' = sessions + 1 /\ kept' = [id |-> sessions + 1, log |-> wire']
      /\ wire' \in Seq(Events) /\ Opens(wire') /\ Len(wire') >= 2
      /\ UNCHANGED <<mute, session, sequence, intents, connected, missed>>
  BY IdentifyIs
<1>2. wire' \in Seq(Frames) /\ sessions \in Nat
  BY <1>1 DEF Frames, Linked, LinkTyped
<1>3. kept'.id = sessions + 1 /\ kept'.log = wire' /\ kept' \in [id : Nat, log : Seq(Events)]
  BY <1>1, <1>2
<1>4. sequence = 0
  BY <1>1 DEF Linked, LinkTyped
<1>5. LinkTyped'
  BY <1>1, <1>2, <1>3 DEF Linked, LinkTyped, Line!Phases
<1>6. ASSUME NEW i \in 1..Len(wire')
      PROVE  wire'[i].n # 0 /\ wire'[i].op \in Kinds
  <2>1. wire'[i] \in Events /\ Len(wire') \in Nat
    BY <1>1
  <2>2. wire'[i].op \in Kinds
    BY <2>1 DEF Events
  <2>3. wire'[i].n = i
    BY <1>1 DEF Opens
  <2> QED
    BY <2>1, <2>2, <2>3
<1>7. Knows'
  BY <1>1, <1>2, <1>3, <1>6 DEF Knows
<1>8. Follows'
  <2>1. Carries(wire', wire', 0)
    BY <1>1, CarriesAll
  <2> QED
    BY <1>1, <1>3, <1>4, <1>6, <2>1 DEF Follows, Kinds
<1> QED
  BY <1>5, <1>7, <1>8 DEF Linked

\* What is sent is kept and put on the wire.
LEMMA LinkSends ==
    ASSUME Linked, kept.id # 0, NEW e \in Events, e.n = Len(kept.log) + 1, e.op # "ready", Sends(e),
           UNCHANGED <<sessions, session, sequence, phase, intents, connected, mute, missed>>
    PROVE  Linked'
<1>1. /\ kept \in [id : Nat, log : Seq(Events)] /\ kept.log \in Seq(Events) /\ Len(kept.log) \in Nat
      /\ wire \in Seq(Frames) /\ Opens(kept.log) /\ sequence \in Nat /\ e \in Frames /\ e.op \in Kinds
      /\ kept.log # <<>>
  BY DEF Linked, LinkTyped, Knows, Frames, Events
<1>2. PICK log : log = kept.log \o <<e>>
  OBVIOUS
<1>3. kept'.id = kept.id /\ kept'.log = log /\ kept' \in [id : Nat, log : Seq(Events)]
  <2>1. log \in Seq(Events)
    BY <1>1, <1>2, GrownIs
  <2> QED
    BY <1>1, <1>2, <2>1 DEF Sends
<1>4. /\ Len(log) = Len(kept.log) + 1 /\ log[Len(kept.log) + 1] = e
      /\ \A i \in 1..Len(kept.log) : log[i] = kept.log[i]
  BY <1>1, <1>2, GrownIs
<1>5. Opens(log)
  <2> SUFFICES ASSUME NEW n \in 1..Len(log)
               PROVE  log[n].n = n /\ (log[n].op = "ready" <=> n = 1)
    BY DEF Opens
  <2>1. CASE n \in 1..Len(kept.log)
    BY <1>1, <1>4, <2>1 DEF Opens
  <2>2. CASE n = Len(kept.log) + 1
    <3>1. n # 1
      BY <1>1, <2>2
    <3> QED
      BY <1>4, <2>2, <3>1
  <2> QED
    BY <1>1, <1>4, <2>1, <2>2
<1>6. wire' = (IF Line!Receives THEN wire \o <<e>> ELSE wire)
  BY DEF Sends
<1>7. wire' \in Seq(Frames)
  BY <1>1, <1>6, GrownIs
<1>8. LinkTyped'
  BY <1>3, <1>7 DEF Linked, LinkTyped
<1>9. \A i \in 1..Len(wire') : wire'[i] = e \/ (i \in 1..Len(wire) /\ wire'[i] = wire[i])
  <2>1. CASE Line!Receives
    <3>1. Len(wire') = Len(wire) + 1 /\ wire'[Len(wire) + 1] = e /\ Len(wire) \in Nat
      BY <1>1, <1>6, <2>1, GrownIs
    <3>2. \A i \in 1..Len(wire) : wire'[i] = wire[i]
      BY <1>1, <1>6, <2>1, GrownIs
    <3> QED
      BY <3>1, <3>2
  <2>2. CASE ~Line!Receives
    BY <1>6, <2>2
  <2> QED
    BY <2>1, <2>2
<1>10. e.n # 0 /\ e.op # "invalid"
  BY <1>1 DEF Kinds
<1>11. Knows'
  <2>1. \A i \in 1..Len(wire') : wire'[i].n # 0 \/ (i \in 1..Len(wire) /\ wire'[i] = wire[i])
    BY <1>9, <1>10
  <2>2. kept'.log # <<>>
    BY <1>1, <1>3, <1>4
  <2>3. session # 0 => session = kept.id /\ sequence \in 1..Len(log)
    BY <1>1, <1>4 DEF Linked, Knows
  <2> QED
    BY <1>3, <1>5, <2>1, <2>2, <2>3 DEF Linked, Knows
<1>12. Follows'
  <2>0. Line!Receives' <=> Line!Receives
    BY DEF Line!Receives, Line!Open
  <2>1. ASSUME Line!Receives
        PROVE  Carries(wire', kept'.log, sequence)
    <3>1. Line!Receives
      BY <2>1
    <3>2. Carries(wire, kept.log, sequence)
      BY <3>1 DEF Linked, Follows
    <3>3. sequence <= Len(kept.log)
      BY <1>1 DEF Linked, LinkTyped, Knows
    <3>4. Carries(wire \o <<e>>, log, sequence)
      BY <1>1, <1>2, <3>2, <3>3, CarriesMore
    <3> QED
      BY <1>3, <1>6, <3>1, <3>4
  <2>2. \A i \in 1..Len(wire') :
            /\ wire'[i].op = "invalid" => kept'.id = 0
            /\ wire'[i].op \in Kinds => wire'[i].n # 0
    BY <1>3, <1>9, <1>10 DEF Linked, Follows
  <2>3. Line!Receives' => Carries(wire', kept'.log, sequence')
    <3> HIDE DEF Carries
    <3> QED
      BY <2>0, <2>1
  <2> QED
    BY <2>2, <2>3 DEF Follows
<1> QED
  BY <1>8, <1>11, <1>12 DEF Linked

\* What is read is off the wire.
LEMMA LinkReads ==
    ASSUME LineTyped, Linked, TakesNext \/ TakesPlain, UNCHANGED <<kept, sessions, intents, mute, missed>>,
           \/ UNCHANGED <<session, phase, connected>> /\ session # 0
           \/ phase' = "up" /\ connected' = TRUE /\ session = 0 /\ TakesNext /\ session' = kept.id
           \/ phase' = "up" /\ connected' = TRUE /\ session # 0 /\ session' = session
    PROVE  Linked'
<1>0. LineTyped /\ Knows /\ Follows /\ Line!Receives /\ wire # <<>> /\ wire' = Tail(wire)
  BY DEF Linked, TakesNext, TakesPlain
<1>1. PICK f : f = Head(wire)
  OBVIOUS
<1>2. /\ wire' \in Seq(Frames) /\ \A i \in 1..Len(wire') : \E j \in 1..Len(wire) : wire'[i] = wire[j]
      /\ f.n # 0 =>
           /\ f.n \in 1..Len(kept.log) /\ f.n = sequence + 1 /\ kept.id # 0 /\ kept.id = sessions
           /\ Carries(wire', kept.log, sequence + 1) /\ (session # 0 => session = kept.id)
      /\ f.n = 0 => Carries(wire', kept.log, sequence)
  BY <1>0, <1>1, ReadIs
<1>3. /\ TakesNext => f.n # 0 /\ sequence' = sequence + 1
      /\ TakesPlain => f.n = 0 /\ sequence' = sequence
  BY <1>1 DEF TakesNext, TakesPlain
<1>4. sequence \in Nat /\ (session = 0 <=> sequence = 0)
  BY DEF Linked, LinkTyped, Knows
<1>5. LinkTyped'
  <2>1. sequence' \in Nat
    BY <1>3, <1>4
  <2>2. session' \in 0..sessions /\ (session' = 0 => sequence' = 0)
    BY <1>2, <1>3 DEF Linked, LinkTyped
  <2>3. phase' \in Line!Phases /\ connected' \in BOOLEAN /\ (connected' => phase' = "up")
    <3>1. phase \in Line!Phases /\ connected \in BOOLEAN /\ (connected => phase = "up")
      BY DEF Linked, LinkTyped
    <3>2. "up" \in Line!Phases
      BY DEF Line!Phases
    <3>3. (UNCHANGED <<phase, connected>>) \/ (phase' = "up" /\ connected' = TRUE)
      OBVIOUS
    <3>4. CASE UNCHANGED <<phase, connected>>
      BY <3>1, <3>4, Zenon
    <3>5. CASE phase' = "up" /\ connected' = TRUE
      BY <3>2, <3>5
    <3> QED
      BY <3>3, <3>4, <3>5
  <2> QED
    BY <1>2, <2>1, <2>2, <2>3 DEF Linked, LinkTyped
<1>6. Carries(wire', kept.log, sequence')
  BY <1>2, <1>3
<1>7. Follows'
  BY <1>2, <1>6 DEF Linked, Follows
<1>8. Knows'
  <2>1. session' # 0
    BY <1>2, <1>3
  <2>2. session' = session \/ (f.n # 0 /\ session' = kept.id)
    BY <1>3
  <2>3. kept.id # 0 => session' = kept.id /\ sequence' \in 1..Len(kept.log)
    BY <1>2, <1>3, <1>4, <2>2 DEF Linked, Knows
  <2>4. sequence' # 0
    BY <1>2, <1>3, <1>4
  <2> QED
    BY <2>1, <2>3, <2>4 DEF Linked, Knows
<1> QED
  BY <1>5, <1>7, <1>8 DEF Linked

\* Discord may forget a session nobody is connected to.
LEMMA LinkForgets ==
    ASSUME Linked, Line!ForgetSession
    PROVE  Linked'
<1>1. /\ ~Line!Open /\ kept' = [id |-> 0, log |-> <<>>]
      /\ UNCHANGED <<wire, mute, phase, session, sequence, intents, connected, missed, sessions>>
  BY DEF Line!ForgetSession, Line!NoSession, Line!clientVars, Line!historyVars
<1>2. kept'.id = 0 /\ kept'.log = <<>> /\ kept' \in [id : Nat, log : Seq(Events)]
  <2>1. << >> \in Seq(Events)
    OBVIOUS
  <2> QED
    BY <1>1, <2>1
<1>3. phase \notin {"dialled", "opening", "up"}
  BY <1>1 DEF Line!Open
<1>4. LinkTyped'
  <2>1. 0 \in 0..sessions
    BY DEF Linked, LinkTyped
  <2> QED
    BY <1>1, <1>2, <2>1 DEF Linked, LinkTyped
<1>5. Knows'
  <2>1. Opens(kept'.log)
    <3>1. Len(kept'.log) = 0
      BY <1>2
    <3> QED
      BY <3>1 DEF Opens
  <2> QED
    BY <1>1, <1>2, <1>3, <2>1 DEF Linked, Knows
<1>6. Follows'
  BY <1>1, <1>2, <1>3 DEF Linked, Follows, Line!Receives, Line!Open
<1> QED
  BY <1>4, <1>5, <1>6 DEF Linked

\* A network that fails takes along what was on the wire.
LEMMA LinkMutes ==
    ASSUME Linked, Line!GoMute
    PROVE  Linked'
<1>1. /\ wire' = <<>> /\ mute' = TRUE
      /\ UNCHANGED <<kept, phase, session, sequence, intents, connected, missed, sessions>>
  BY DEF Line!GoMute, Line!clientVars, Line!historyVars
<1>2. wire' \in Seq(Frames) /\ Len(wire') = 0
  BY <1>1
<1>3. LinkTyped'
  BY <1>1, <1>2 DEF Linked, LinkTyped
<1>4. Knows'
  BY <1>1, <1>2 DEF Linked, Knows
<1>5. Follows'
  BY <1>1, <1>2 DEF Linked, Follows, Line!Receives
<1> QED
  BY <1>3, <1>4, <1>5 DEF Linked

\* Discord asks to reconnect after all it has sent.
LEMMA LinkAsks ==
    ASSUME Linked, Line!AskToReconnect
    PROVE  Linked'
<1>1. /\ phase = "up" /\ wire' = Append(wire, [op |-> "reconnect", n |-> 0])
      /\ UNCHANGED <<kept, mute, phase, session, sequence, intents, connected, missed, sessions>>
  BY DEF Line!AskToReconnect, Line!clientVars, Line!historyVars, Line!Plain
<1>2. PICK e : e = [op |-> "reconnect", n |-> 0]
  OBVIOUS
<1>3. e \in Frames /\ e.n = 0 /\ e.op = "reconnect"
  BY <1>2 DEF Frames
<1>4. wire \in Seq(Frames) /\ kept.log \in Seq(Events) /\ sequence \in Nat
  BY DEF Linked, LinkTyped
<1>5. /\ wire' = wire \o <<e>> /\ wire' \in Seq(Frames) /\ Len(wire) \in Nat
      /\ Len(wire') = Len(wire) + 1 /\ wire'[Len(wire) + 1] = e
      /\ \A i \in 1..Len(wire) : wire'[i] = wire[i]
  BY <1>1, <1>2, <1>3, <1>4, GrownIs
<1>6. \A i \in 1..Len(wire') : wire'[i] = e \/ (i \in 1..Len(wire) /\ wire'[i] = wire[i])
  BY <1>5
<1>7. LinkTyped'
  BY <1>1, <1>5 DEF Linked, LinkTyped
<1>8. Knows'
  BY <1>1 DEF Linked, Knows
<1>9. Follows'
  <2>1. Line!Receives' <=> Line!Receives
    BY <1>1 DEF Line!Receives, Line!Open
  <2>2. Line!Receives => Carries(wire', kept.log, sequence)
    BY <1>3, <1>4, <1>5, CarriesPlain DEF Linked, Follows
  <2>3. \A i \in 1..Len(wire') :
            /\ wire'[i].op = "invalid" => kept.id = 0
            /\ wire'[i].op \in Kinds => wire'[i].n # 0
    <3>1. e.op \notin Kinds /\ e.op # "invalid"
      BY <1>3 DEF Kinds
    <3> QED
      BY <1>6, <3>1 DEF Linked, Follows
  <2> QED
    BY <1>1, <2>1, <2>2, <2>3 DEF Follows
<1> QED
  BY <1>7, <1>8, <1>9 DEF Linked

\* A heartbeat that is not answered is counted, until the socket is closed.
LEMMA LinkBeats ==
    ASSUME Linked, Line!Beat
    PROVE  Linked'
<1>0. UNCHANGED <<kept, session, sequence, intents, sessions>> /\ missed \in 0..MaxMissed /\ MaxMissed \in Nat
      /\ intents \in {"roster", "relay"}
  BY ClientFits DEF Line!Beat, Line!historyVars, Linked, LinkTyped
<1>1. CASE missed >= MaxMissed
  <2>1. Line!Hangup("down")
    BY <1>1 DEF Line!Beat
  <2> QED
    BY <1>0, <2>1, LinkEnds
<1>2. CASE ~(missed >= MaxMissed)
  <2>1. missed' = missed + 1 /\ UNCHANGED <<phase, wire, mute, connected>>
    BY <1>2 DEF Line!Beat
  <2>2. missed' \in 0..MaxMissed
    BY <1>0, <1>2, <2>1
  <2>3. LinkTyped'
    BY <1>0, <2>1, <2>2 DEF Linked, LinkTyped
  <2>4. Knows'
    BY <1>0, <2>1 DEF Linked, Knows
  <2>5. Follows'
    BY <1>0, <2>1 DEF Linked, Follows, Line!Receives, Line!Open
  <2> QED
    BY <2>3, <2>4, <2>5 DEF Linked
<1> QED
  BY <1>1, <1>2

\* Whatever happens, it stays so.
LEMMA LinkStep ==
    ASSUME LineTyped, Linked, Line!Next
    PROVE  Linked'
<1>0. intents \in {"roster", "relay"} /\ Knows /\ Follows
  BY DEF Linked, LinkTyped
<1>1. CASE Line!Rejected
  <2>1. CASE plan.token /\ intents = "roster"
    <3>1. Line!GivesUpRoster /\ UNCHANGED <<kept, sessions>>
      BY <1>1, <2>1 DEF Line!Rejected, Line!historyVars
    <3> QED
      BY <3>1, LinkEnds DEF Line!GivesUpRoster, Line!DropsSession
  <2>2. CASE ~(plan.token /\ intents = "roster")
    <3>1. Line!Hangup("stopped") /\ UNCHANGED <<kept, sessions, intents, session, sequence>>
      BY <1>1, <2>2 DEF Line!Rejected, Line!historyVars
    <3> QED
      BY <1>0, <3>1, LinkEnds
  <2> QED
    BY <2>1, <2>2
<1>2. CASE Line!Established
  <2>1. /\ phase' = "up" /\ connected' = TRUE /\ UNCHANGED <<kept, sessions, intents, mute, missed>>
        /\ \/ TakesNext /\ session = 0 /\ session' = kept.id
           \/ TakesPlain /\ session # 0 /\ session' = session
    BY <1>0, <1>2, ReadsAre
  <2> QED
    BY <2>1, LinkReads
<1>3. CASE Line!ReadMessage \/ Line!ReadRoster
  <2>1. TakesNext /\ Head(wire).op \in {"message", "guild", "chunk", "add", "remove"}
        /\ UNCHANGED <<kept, sessions, intents, mute, missed, session, phase, connected>>
    BY <1>0, <1>3, ReadsAre
  <2>2. session # 0
    BY <1>0, <2>1, ReadIs DEF TakesNext
  <2> QED
    BY <2>1, <2>2, LinkReads
<1>4. CASE Line!ReadReconnect \/ Line!Fail
  <2>1. Line!Hangup("down") /\ UNCHANGED <<kept, sessions, session, sequence, intents>>
    BY <1>4 DEF Line!ReadReconnect, Line!Fail, Line!historyVars
  <2> QED
    BY <1>0, <2>1, LinkEnds
<1>5. CASE Line!ReadInvalid
  <2>1. Line!Hangup("down") /\ UNCHANGED <<kept, sessions, intents>> /\ session' = 0 /\ sequence' = 0
    BY <1>5 DEF Line!ReadInvalid, Line!DropsSession, Line!historyVars
  <2> QED
    BY <1>0, <2>1, LinkEnds
<1>6. CASE Line!Cancel
  <2>1. Line!Hangup("cancelled") /\ UNCHANGED <<kept, sessions, session, sequence, intents>>
    BY <1>6 DEF Line!Cancel, Line!historyVars
  <2>2. Linked'
    <3>1. PICK p : p = "cancelled"
      OBVIOUS
    <3> QED
      BY <1>0, <2>1, LinkEnds
  <2> QED
    BY <2>2
<1>7. CASE Line!Flush \/ Line!Build \/ Line!Broadcast
  BY <1>7, LinkRests DEF Line!Flush, Line!Build, Line!Broadcast, Line!discordVars, Line!clientVars,
    Line!historyVars
<1>8. CASE Line!Move
  BY <1>8, MoveIs, LinkRests, LinkSends
<1>9. CASE Line!SomebodySpeaks
  BY <1>9, SpeaksIs, LinkSends
<1> QED
  BY <1>1, <1>2, <1>3, <1>4, <1>5, <1>6, <1>7, <1>8, <1>9, LinkDials, LinkResumes, LinkIdentifies,
    LinkForgets, LinkMutes, LinkAsks, LinkBeats DEF Line!Next, Line!Client
-----------------------------------------------------------------------------
(* The roster, step by step                                                   *)

\* The actions that leave the roster alone, and those that leave the publisher alone.
Elsewhere ==
    \/ Line!Dial \/ Line!Resume \/ Line!Identify \/ Line!Established \/ Line!ReadMessage
    \/ Line!ReadReconnect \/ Line!ReadInvalid \/ Line!Beat \/ Line!Fail
    \/ Line!ForgetSession \/ Line!GoMute \/ Line!AskToReconnect

LEMMA ElsewhereIs ==
    ASSUME Elsewhere
    PROVE  /\ UNCHANGED <<plan, crowd, intents, roster, total, dirty, timer, flush, shown>>
           /\ phase' = phase \/ (phase \notin {"stopped", "cancelled"} /\ phase' \notin {"stopped", "cancelled"})
<1>1. UNCHANGED <<plan, crowd, intents, roster, total, dirty, timer, flush, shown>>
  BY DEF Elsewhere, Line!Dial, Line!Resume, Line!Identify, Line!Established, Line!ReadMessage,
    Line!ReadReconnect, Line!ReadInvalid, Line!Beat, Line!Fail, Line!ForgetSession, Line!GoMute,
    Line!AskToReconnect, Line!discordVars, Line!clientVars, Line!publisherVars
<1>2. CASE Line!Beat
  BY <1>1, <1>2 DEF Line!Beat, Line!Hangup
<1>3. CASE ~Line!Beat
  BY <1>1, <1>3 DEF Elsewhere, Line!Dial, Line!Resume, Line!Identify, Line!Established, Line!ReadMessage,
    Line!ReadReconnect, Line!ReadInvalid, Line!Fail, Line!ForgetSession, Line!GoMute, Line!AskToReconnect,
    Line!clientVars, Line!Hangup, Line!Take, Line!Receives, Line!Open
<1> QED
  BY <1>2, <1>3

\* What an event of the roster does to it.
LEMMA RosterReadIs ==
    ASSUME LineTyped, Knows, Follows, Line!ReadRoster
    PROVE  \E f \in Events :
             /\ f = kept.log[sequence + 1] /\ sequence + 1 \in 1..Len(kept.log)
             /\ session # 0 /\ session = kept.id /\ sequence' = sequence + 1
             /\ UNCHANGED <<plan, crowd, kept, phase, session, intents, flush, shown, told, sessions>>
             /\ \/ /\ f.op = "guild" /\ f.count = 0 /\ UNCHANGED <<roster, total, dirty, timer>>
                \/ /\ f.op = "guild" /\ f.count > 0 /\ roster' = roster \cup f.who
                   /\ total' = (IF f.count > total THEN f.count ELSE total)
                   /\ dirty' = TRUE /\ timer' = TRUE
                \/ /\ f.op = "chunk" /\ roster' = roster \cup f.who /\ total' = total
                   /\ dirty' = TRUE /\ timer' = TRUE
                \/ /\ f.op = "add" /\ roster' = roster \cup f.who /\ total' = total + 1
                   /\ dirty' = TRUE /\ timer' = TRUE
                \/ /\ f.op = "remove" /\ roster' = roster \ f.who
                   /\ total' = (IF total > 0 THEN total - 1 ELSE 0)
                   /\ dirty' = TRUE /\ timer' = TRUE
<1>1. PICK f : f = Head(wire)
  OBVIOUS
<1>2. /\ TakesNext /\ f.op \in {"guild", "chunk", "add", "remove"}
      /\ UNCHANGED <<plan, crowd, kept, mute, phase, session, intents, connected,
                     missed, flush, shown, told, sessions>>
  BY <1>1, ReadsAre
<1>3. /\ f \in Events /\ f = kept.log[sequence + 1] /\ f.n \in 1..Len(kept.log) /\ f.n = sequence + 1
      /\ (f.op = "ready" <=> session = 0) /\ (session # 0 => session = kept.id)
  BY <1>1, <1>2, ReadIs DEF TakesNext
<1>4. f.count \in Nat /\ total \in Nat
  BY <1>3, FrameIs DEF LineTyped, Line!TypeOK, Events
<1>5. \/ /\ f.op = "guild" /\ f.count = 0 /\ UNCHANGED <<roster, total, dirty, timer>>
      \/ /\ f.op = "guild" /\ f.count > 0 /\ roster' = roster \cup f.who
         /\ total' = (IF f.count > total THEN f.count ELSE total)
         /\ dirty' = TRUE /\ timer' = TRUE
      \/ /\ f.op = "chunk" /\ roster' = roster \cup f.who /\ total' = total
         /\ dirty' = TRUE /\ timer' = TRUE
      \/ /\ f.op = "add" /\ roster' = roster \cup f.who /\ total' = total + 1
         /\ dirty' = TRUE /\ timer' = TRUE
      \/ /\ f.op = "remove" /\ roster' = roster \ f.who
         /\ total' = (IF total > 0 THEN total - 1 ELSE 0)
         /\ dirty' = TRUE /\ timer' = TRUE
  <2>1. \/ /\ f.op = "guild"
           /\ IF f.count > 0 THEN Line!Cached(f.who, f.count) /\ Line!Touch
              ELSE UNCHANGED <<roster, total, dirty, timer>>
        \/ f.op = "chunk" /\ Line!Cached(f.who, 0) /\ Line!Touch
        \/ f.op = "add" /\ Line!Cached(f.who, total + 1) /\ Line!Touch
        \/ /\ f.op = "remove" /\ roster' = roster \ f.who /\ Line!Touch
           /\ total' = IF total > 0 THEN total - 1 ELSE 0
    BY <1>1 DEF Line!ReadRoster, Line!Take, Line!Frame
  <2> QED
    BY <1>4, <2>1 DEF Line!Cached, Line!Touch
<1>6. session # 0
  BY <1>2, <1>3
<1> QED
  BY <1>2, <1>3, <1>5, <1>6 DEF TakesNext

\* The publisher takes the slate, builds the roster and shows it.
LEMMA FlushIs ==
    ASSUME Line!Flush
    PROVE  /\ UNCHANGED <<plan, crowd, kept, phase, session, sequence, intents, roster, total, shown,
                          told, sessions>>
           /\ timer /\ timer' = FALSE /\ dirty' = FALSE /\ flush.at = "idle" /\ flush.who = {}
           /\ flush'.who = {} /\ (dirty => flush'.at = "taken") /\ (~dirty => flush'.at = "idle")
<1>1. /\ UNCHANGED <<plan, crowd, kept, phase, session, sequence, intents, roster, total, shown,
                     told, sessions>>
      /\ timer /\ timer' = FALSE /\ dirty' = FALSE /\ flush = [at |-> "idle", who |-> {}]
  BY DEF Line!Flush, Line!NoFlush, Line!discordVars, Line!clientVars, Line!historyVars
<1>2. flush' = IF dirty THEN [at |-> "taken", who |-> {}] ELSE [at |-> "idle", who |-> {}]
  BY DEF Line!Flush, Line!NoFlush
<1>3. flush'.who = {} /\ (dirty => flush'.at = "taken") /\ (~dirty => flush'.at = "idle")
  BY <1>2
<1> QED
  BY <1>1, <1>3

LEMMA BuildIs ==
    ASSUME Line!Build
    PROVE  /\ UNCHANGED <<plan, crowd, kept, phase, session, sequence, intents, roster, total, dirty,
                          timer, shown, told, sessions>>
           /\ flush.at = "taken"
           /\ phase \in {"stopped", "cancelled"} => flush'.at = "idle" /\ flush'.who = {}
           /\ phase \notin {"stopped", "cancelled"} => flush'.at = "built" /\ flush'.who = roster
BY DEF Line!Build, Line!NoFlush, Line!discordVars, Line!clientVars, Line!historyVars

LEMMA BroadcastIs ==
    ASSUME Line!Broadcast
    PROVE  /\ UNCHANGED <<plan, crowd, kept, phase, session, sequence, intents, roster, total, dirty,
                          timer, told, sessions>>
           /\ flush.at = "built" /\ shown' = flush.who /\ flush'.at = "idle" /\ flush'.who = {}
BY DEF Line!Broadcast, Line!NoFlush, Line!discordVars, Line!clientVars, Line!historyVars

\* When the bridge is switched off the slate is wiped.
LEMMA CancelIs ==
    ASSUME Line!Cancel
    PROVE  /\ UNCHANGED <<plan, crowd, kept, session, sequence, intents, roster, total, flush, shown,
                          told, sessions>>
           /\ phase' = "cancelled" /\ dirty' = FALSE /\ timer' = FALSE
BY DEF Line!Cancel, Line!Hangup, Line!historyVars

\* A client that is rejected gives up the roster, or everything.
LEMMA RejectedIs ==
    ASSUME Line!Rejected
    PROVE  /\ UNCHANGED <<plan, crowd, kept, dirty, timer, flush, shown, told, sessions>>
           /\ session = 0 /\ ~(plan.token /\ Line!Granted)
           /\ \/ /\ plan.token /\ intents = "roster" /\ intents' = "relay" /\ roster' = {} /\ total' = 0
                 /\ phase' = "down" /\ session' = 0 /\ sequence' = 0
              \/ /\ ~(plan.token /\ intents = "roster") /\ phase' = "stopped"
                 /\ UNCHANGED <<intents, roster, total, session, sequence>>
<1>1. /\ UNCHANGED <<plan, crowd, kept, dirty, timer, flush, shown, told, sessions>>
      /\ session = 0 /\ ~(plan.token /\ Line!Granted)
  BY DEF Line!Rejected, Line!publisherVars, Line!historyVars
<1>2. CASE plan.token /\ intents = "roster"
  BY <1>1, <1>2 DEF Line!Rejected, Line!GivesUpRoster, Line!DropsSession, Line!Hangup
<1>3. CASE ~(plan.token /\ intents = "roster")
  BY <1>1, <1>3 DEF Line!Rejected, Line!Hangup
<1> QED
  BY <1>2, <1>3

\* What is done to the roster keeps it one of people.
LEMMA PeopleStep ==
    ASSUME LineTyped, Linked, Line!Next
    PROVE  PeopleTyped' /\ plan' \in ClientPlans
<1>0. PeopleTyped /\ plan \in ClientPlans /\ Knows /\ Follows
  BY LineTypes DEF Linked
<1>1. CASE Elsewhere
  BY <1>0, <1>1, ElsewhereIs DEF PeopleTyped
<1>2. CASE Line!Move
  BY <1>0, <1>2, MoveIs DEF PeopleTyped
<1>3. CASE Line!SomebodySpeaks
  BY <1>0, <1>3, SpeaksIs DEF PeopleTyped
<1>4. CASE Line!ReadRoster
  <2>1. PICK f \in Events :
           /\ UNCHANGED <<plan, crowd, flush, shown>>
           /\ roster' \in {roster, roster \cup f.who, roster \ f.who}
           /\ \/ total' = total
              \/ total' = f.count
              \/ total' = total + 1
              \/ total' = IF total > 0 THEN total - 1 ELSE 0
           /\ (UNCHANGED <<dirty, timer>>) \/ (dirty' = TRUE /\ timer' = TRUE)
    <3>1. PICK f \in Events :
             /\ UNCHANGED <<plan, crowd, kept, phase, session, intents, flush, shown, told, sessions>>
             /\ \/ /\ f.op = "guild" /\ f.count = 0 /\ UNCHANGED <<roster, total, dirty, timer>>
                \/ /\ f.op = "guild" /\ f.count > 0 /\ roster' = roster \cup f.who
                   /\ total' = (IF f.count > total THEN f.count ELSE total)
                   /\ dirty' = TRUE /\ timer' = TRUE
                \/ /\ f.op = "chunk" /\ roster' = roster \cup f.who /\ total' = total
                   /\ dirty' = TRUE /\ timer' = TRUE
                \/ /\ f.op = "add" /\ roster' = roster \cup f.who /\ total' = total + 1
                   /\ dirty' = TRUE /\ timer' = TRUE
                \/ /\ f.op = "remove" /\ roster' = roster \ f.who
                   /\ total' = (IF total > 0 THEN total - 1 ELSE 0)
                   /\ dirty' = TRUE /\ timer' = TRUE
      BY <1>0, <1>4, RosterReadIs
    <3> QED
      BY <3>1
  <2>2. f.who \subseteq People /\ f.count \in Nat
    BY DEF Events
  <2>3. total' \in Nat
    BY <1>0, <2>1, <2>2 DEF PeopleTyped
  <2>4. roster' \subseteq People
    BY <1>0, <2>1, <2>2 DEF PeopleTyped
  <2>5. {dirty', timer'} \subseteq BOOLEAN
    BY <1>0, <2>1 DEF PeopleTyped
  <2> QED
    BY <1>0, <2>1, <2>3, <2>4, <2>5 DEF PeopleTyped
<1>5. CASE Line!Flush
  BY <1>0, <1>5, FlushIs DEF PeopleTyped
<1>6. CASE Line!Build
  BY <1>0, <1>6, BuildIs DEF PeopleTyped
<1>7. CASE Line!Broadcast
  BY <1>0, <1>7, BroadcastIs DEF PeopleTyped
<1>8. CASE Line!Cancel
  BY <1>0, <1>8, CancelIs DEF PeopleTyped
<1>9. CASE Line!Rejected
  BY <1>0, <1>9, RejectedIs DEF PeopleTyped
<1> QED
  BY <1>1, <1>2, <1>3, <1>4, <1>5, <1>6, <1>7, <1>8, <1>9 DEF Line!Next, Line!Client, Elsewhere

\* A plan is never left.
LEMMA PlanStays ==
    ASSUME LineTyped, Linked, Line!Next
    PROVE  plan' = plan
<1>0. Knows /\ Follows
  BY DEF Linked
<1>1. CASE Elsewhere
  BY <1>1, ElsewhereIs
<1>2. CASE Line!ReadRoster
  BY <1>0, <1>2, RosterReadIs
<1> QED
  BY <1>1, <1>2, MoveIs, SpeaksIs, FlushIs, BuildIs, BroadcastIs, CancelIs, RejectedIs
    DEF Line!Next, Line!Client, Elsewhere
-----------------------------------------------------------------------------
(* The messages                                                               *)

Stories == [session : Nat, n : Nat]

\* The steps after which the client and the session are as before.
Unread == UNCHANGED <<told, session, sequence, kept, sessions>>

\* What becomes of the messages, the session and what was read of it.
LEMMA StoryIs ==
    ASSUME LineTyped, Linked, Line!Next
    PROVE  \/ Unread
           \/ UNCHANGED <<told, kept, sessions>> /\ kept.id = 0 /\ session' = 0 /\ sequence' = 0
           \/ UNCHANGED <<told, session, sequence, sessions>> /\ kept'.id = 0
           \/ UNCHANGED <<told, session, sequence>> /\ session = 0 /\ kept'.id = sessions + 1 /\ sessions' = sessions + 1
           \/ UNCHANGED <<told, session, sequence, sessions>> /\ kept.id # 0 /\ \E e \in Events : Sends(e)
           \/ UNCHANGED <<session, kept, sessions>> /\ session = kept.id /\ session # 0
              /\ sequence + 1 \in 1..Len(kept.log)
              /\ sequence' = sequence + 1 /\ told' = Append(told, [session |-> session, n |-> sequence + 1])
           \/ UNCHANGED <<told, kept, sessions>> /\ session = 0 /\ session' = kept.id /\ sequence' = 1 /\ kept.log[1].op # "message"
           \/ UNCHANGED <<told, session, kept, sessions>> /\ session = kept.id /\ session # 0 /\ sequence' = sequence + 1
              /\ sequence + 1 \in 1..Len(kept.log) /\ kept.log[sequence + 1].op # "message"
<1>0. LinkTyped /\ Knows /\ Follows
  BY DEF Linked
<1>1. CASE Line!Dial \/ Line!Resume \/ Line!Fail \/ Line!ReadReconnect \/ Line!Beat \/ Line!GoMute
             \/ Line!AskToReconnect
  BY <1>1 DEF Line!Dial, Line!Resume, Line!Fail, Line!ReadReconnect, Line!Beat, Line!GoMute, Line!AskToReconnect,
       Line!discordVars, Line!clientVars, Line!historyVars, Unread
<1>2. CASE Line!Flush \/ Line!Build \/ Line!Broadcast \/ Line!Cancel
  BY <1>2, FlushIs, BuildIs, BroadcastIs, CancelIs DEF Unread
<1>3. CASE Line!Rejected
  <2>1. sequence = 0
    BY <1>0, <1>3, RejectedIs DEF LinkTyped
  <2> QED
    BY <1>3, <2>1, RejectedIs DEF Unread
<1>4. CASE Line!ReadInvalid
  <2>1. UNCHANGED <<told, kept, sessions>> /\ session' = 0 /\ sequence' = 0
        /\ Line!Receives /\ wire # <<>> /\ Head(wire).op = "invalid"
    BY <1>4 DEF Line!ReadInvalid, Line!DropsSession, Line!historyVars, Line!Frame
  <2>2. kept.id = 0
    BY <1>0, <2>1, ReadIs
  <2> QED
    BY <2>1, <2>2
<1>5. CASE Line!ForgetSession
  BY <1>5 DEF Line!ForgetSession, Line!NoSession, Line!clientVars, Line!historyVars
<1>6. CASE Line!Identify
  BY <1>6, IdentifyIs
<1>7. CASE Line!Move
  BY <1>7, MoveIs DEF Unread
<1>8. CASE Line!SomebodySpeaks
  BY <1>8, SpeaksIs
<1>9. CASE Line!ReadMessage
  <2>1. PICK f : f = Head(wire)
    OBVIOUS
  <2>2. TakesNext /\ f.op = "message" /\ told' = Append(told, [session |-> session, n |-> sequence + 1])
        /\ UNCHANGED <<kept, session, sessions>>
    BY <1>0, <1>9, <2>1, ReadsAre
  <2>3. f.n # 0 /\ f.n = sequence + 1 /\ f.n \in 1..Len(kept.log) /\ (f.op = "ready" <=> session = 0)
        /\ (session # 0 => session = kept.id)
    BY <1>0, <2>1, <2>2, ReadIs DEF TakesNext
  <2> QED
    BY <2>2, <2>3 DEF TakesNext
<1>10. CASE Line!Established
  <2>1. PICK f : f = Head(wire)
    OBVIOUS
  <2>2. /\ UNCHANGED <<kept, told, sessions>>
        /\ \/ TakesNext /\ f.op = "ready" /\ session = 0 /\ session' = kept.id
           \/ TakesPlain /\ session' = session
    BY <1>0, <1>10, <2>1, ReadsAre
  <2>3. CASE TakesPlain /\ session' = session
    BY <2>2, <2>3 DEF TakesPlain, Unread
  <2>4. CASE TakesNext /\ f.op = "ready" /\ session = 0 /\ session' = kept.id
    <3>1. f.n # 0 /\ f.n = sequence + 1 /\ f.n = 1 /\ f = kept.log[sequence + 1]
      BY <1>0, <2>1, <2>4, ReadIs DEF TakesNext
    <3>2. sequence = 0
      BY <1>0, <2>4 DEF LinkTyped
    <3> QED
      BY <2>2, <2>4, <3>1, <3>2 DEF TakesNext
  <2> QED
    BY <2>2, <2>3, <2>4
<1>11. CASE Line!ReadRoster
  <2>1. PICK f \in Events :
             /\ f = kept.log[sequence + 1] /\ sequence + 1 \in 1..Len(kept.log)
             /\ session # 0 /\ session = kept.id /\ sequence' = sequence + 1
             /\ UNCHANGED <<plan, crowd, kept, phase, session, intents, flush, shown, told, sessions>>
             /\ f.op \in {"guild", "chunk", "add", "remove"}
    BY <1>0, <1>11, RosterReadIs
  <2> QED
    BY <2>1
<1> QED
  BY <1>1, <1>2, <1>3, <1>4, <1>5, <1>6, <1>7, <1>8, <1>9, <1>10, <1>11 DEF Line!Next, Line!Client

\* So the types hold.
LEMMA TypesStep ==
    ASSUME LineTyped, Linked, Line!Next
    PROVE  LineTyped' /\ Linked'
<1>1. Linked' /\ LinkTyped'
  BY LinkStep DEF Linked
<1>2. PeopleTyped' /\ plan' \in ClientPlans
  BY PeopleStep
<1>3. told' \in Seq([session : Nat, n : Nat])
  <2>1. told \in Seq([session : Nat, n : Nat]) /\ session \in Nat /\ sequence \in Nat
    BY DEF LineTyped, Line!TypeOK
  <2>2. PICK r : r = [session |-> session, n |-> sequence + 1]
    OBVIOUS
  <2>3. r \in [session : Nat, n : Nat]
    BY <2>1, <2>2
  <2>4. told' = told \/ told' = Append(told, r)
    BY <2>2, StoryIs DEF Unread
  <2> QED
    <3>1. told \in Seq(Stories) /\ r \in Stories
      BY <2>1, <2>3 DEF Stories
    <3>2. told \o <<r>> \in Seq(Stories) /\ Append(told, r) = told \o <<r>>
      BY <3>1, GrownIs
    <3>3. told' \in Seq(Stories)
      BY <2>4, <3>1, <3>2
    <3> QED
      BY <3>3 DEF Stories
<1> QED
  BY <1>1, <1>2, <1>3 DEF LineTyped, Line!TypeOK, LinkTyped, PeopleTyped

\* Heard, of the variables it speaks of.
Hears(t, s, read, k, count) ==
    /\ \A i \in 1..Len(t) :
        /\ t[i].session \in 1..count
        /\ t[i].session = s => t[i].n <= read
        /\ t[i].session = k.id => s = k.id
    /\ \A i, j \in 1..Len(t) : i < j /\ t[i].session = t[j].session => t[i].n < t[j].n
    /\ k.id = s =>
        \A n \in 1..read :
            k.log[n].op = "message" => \E i \in 1..Len(t) : t[i] = [session |-> s, n |-> n]

LEMMA HeardIs ==
    ASSUME LineTyped
    PROVE  Heard <=> Hears(told, session, sequence, kept, sessions)
<1>1. DOMAIN told = 1..Len(told)
  BY DEF LineTyped
<1> QED
  BY <1>1 DEF Heard, Hears, Line!EveryMessageOnce

\* A message that is read is the newest of its session.
LEMMA HearsStep ==
    ASSUME LineTyped, Linked, Line!Next, Hears(told, session, sequence, kept, sessions)
    PROVE  Hears(told', session', sequence', kept', sessions')
<1>0. /\ told \in Seq(Stories) /\ session \in Nat /\ sequence \in Nat /\ sessions \in Nat /\ Knows
      /\ kept \in [id : Nat, log : Seq(Events)] /\ Len(told) \in Nat
      /\ session = 0 => sequence = 0
  BY DEF LineTyped, Line!TypeOK, Linked, Stories
<1>1. CASE Unread
  BY <1>1 DEF Unread
<1>2. CASE UNCHANGED <<told, kept, sessions>> /\ kept.id = 0 /\ session' = 0 /\ sequence' = 0
  <2>1. told' = told /\ kept' = kept /\ sessions' = sessions /\ kept.id = 0 /\ session' = 0 /\ sequence' = 0
    BY <1>2
  <2> HIDE <1>2
  <2>2. Hears(told, 0, 0, kept, sessions)
    BY <1>0, <2>1 DEF Hears
  <2> QED
    BY <2>1, <2>2
<1>3. CASE UNCHANGED <<told, session, sequence, sessions>> /\ kept'.id = 0
  BY <1>0, <1>3 DEF Hears
<1>4. CASE UNCHANGED <<told, session, sequence>> /\ session = 0 /\ kept'.id = sessions + 1 /\ sessions' = sessions + 1
  BY <1>0, <1>4 DEF Hears
<1>5. CASE UNCHANGED <<told, session, sequence, sessions>> /\ kept.id # 0 /\ \E e \in Events : Sends(e)
  <2>1. PICK e \in Events : Sends(e)
    BY <1>5
  <2>2. kept'.id = kept.id /\ \A i \in 1..Len(kept.log) : kept'.log[i] = kept.log[i]
    BY <1>0, <2>1, GrownIs DEF Sends
  <2>3. session = kept.id => 1..sequence \subseteq 1..Len(kept.log)
    BY <1>0, <1>5 DEF Knows
  <2> QED
    BY <1>0, <1>5, <2>2, <2>3 DEF Hears
<1>6. CASE UNCHANGED <<session, kept, sessions>> /\ session = kept.id /\ session # 0
              /\ sequence + 1 \in 1..Len(kept.log)
              /\ sequence' = sequence + 1 /\ told' = Append(told, [session |-> session, n |-> sequence + 1])
  <2>1. PICK r : r = [session |-> session, n |-> sequence + 1]
    OBVIOUS
  <2>2. r \in Stories /\ r.session = session /\ r.n = sequence + 1
    BY <1>0, <2>1 DEF Stories
  <2>3. /\ Len(told') = Len(told) + 1 /\ told'[Len(told) + 1] = r
        /\ \A i \in 1..Len(told) : told'[i] = told[i]
    BY <1>0, <1>6, <2>1, <2>2, GrownIs
  <2>4. ASSUME NEW i \in 1..Len(told')
        PROVE  /\ told'[i].session \in 1..sessions
               /\ told'[i].session = session => told'[i].n <= sequence + 1
    <3>1. session \in 1..sessions
      BY <1>0, <1>6 DEF Knows
    <3>2. CASE i \in 1..Len(told)
      <4>1. told[i] \in Stories /\ told'[i] = told[i]
        BY <1>0, <2>3, <3>2
      <4>2. told[i].n \in Nat
        BY <4>1 DEF Stories
      <4> QED
        BY <1>0, <3>2, <4>1, <4>2 DEF Hears
    <3>3. CASE i = Len(told) + 1
      BY <1>0, <2>2, <2>3, <3>1, <3>3
    <3> QED
      BY <1>0, <2>3, <3>2, <3>3
  <2>5. ASSUME NEW i \in 1..Len(told'), NEW j \in 1..Len(told'), i < j, told'[i].session = told'[j].session
        PROVE  told'[i].n < told'[j].n
    <3>1. i \in 1..Len(told) /\ told'[i] = told[i] /\ told[i] \in Stories
      BY <1>0, <2>3, <2>5
    <3>2. told[i].n \in Nat
      BY <3>1 DEF Stories
    <3>3. CASE j \in 1..Len(told)
      BY <2>3, <2>5, <3>1, <3>3 DEF Hears
    <3>4. CASE j = Len(told) + 1
      <4>1. told[i].n <= sequence
        BY <2>2, <2>3, <2>5, <3>1, <3>4 DEF Hears
      <4> QED
        BY <1>0, <2>2, <2>3, <3>1, <3>2, <3>4, <4>1
    <3> QED
      BY <1>0, <2>3, <3>3, <3>4
  <2>6. ASSUME NEW n \in 1..(sequence + 1), kept.log[n].op = "message"
        PROVE  \E i \in 1..Len(told') : told'[i] = [session |-> session, n |-> n]
    <3>1. CASE n \in 1..sequence
      <4>1. PICK q : q = [session |-> session, n |-> n]
        OBVIOUS
      <4>2. PICK i \in 1..Len(told) : told[i] = q
        BY <1>6, <2>6, <3>1, <4>1 DEF Hears
      <4>3. i \in 1..Len(told') /\ told'[i] = q
        BY <1>0, <2>3, <4>2
      <4> QED
        BY <4>1, <4>3
    <3>2. CASE n = sequence + 1
      BY <1>0, <2>1, <2>3, <3>2
    <3> QED
      BY <1>0, <3>1, <3>2
  <2> QED
    BY <1>6, <2>4, <2>5, <2>6 DEF Hears
<1>7. CASE UNCHANGED <<told, kept, sessions>> /\ session = 0 /\ session' = kept.id /\ sequence' = 1 /\ kept.log[1].op # "message"
  <2>1. \A i \in 1..Len(told) : told[i].session # kept.id
    BY <1>0, <1>7 DEF Hears
  <2>2. \A n \in 1..1 : n = 1
    OBVIOUS
  <2> QED
    BY <1>0, <1>7, <2>1, <2>2 DEF Hears
<1>8. CASE UNCHANGED <<told, session, kept, sessions>> /\ session = kept.id /\ session # 0 /\ sequence' = sequence + 1
              /\ sequence + 1 \in 1..Len(kept.log) /\ kept.log[sequence + 1].op # "message"
  <2>1. \A i \in 1..Len(told) : told[i].session = session => told[i].n <= sequence + 1
    <3> SUFFICES ASSUME NEW i \in 1..Len(told), told[i].session = session
                 PROVE  told[i].n <= sequence + 1
      OBVIOUS
    <3>1. told[i] \in Stories
      BY <1>0
    <3>2. told[i].n \in Nat /\ told[i].n <= sequence
      BY <3>1 DEF Stories, Hears
    <3> QED
      BY <1>0, <3>2
  <2>2. ASSUME NEW n \in 1..(sequence + 1), kept.log[n].op = "message"
        PROVE  n \in 1..sequence
    BY <1>0, <1>8, <2>2
  <2> QED
    BY <1>0, <1>8, <2>1, <2>2 DEF Hears
<1> QED
  BY <1>1, <1>2, <1>3, <1>4, <1>5, <1>6, <1>7, <1>8, StoryIs
-----------------------------------------------------------------------------
(* Without the roster intents                                                 *)

Unasks(intended, r, k) ==
    /\ r = {} /\ (k.id # 0 => intended = "relay")
    /\ \A n \in 1..Len(k.log) : k.log[n].op \in {"ready", "guild", "message"} /\ k.log[n].count = 0

LEMMA UnasksStep ==
    ASSUME LineTyped, Linked, Line!Next, plan.grants # "roster", Unasks(intents, roster, kept)
    PROVE  Unasks(intents', roster', kept')
<1>0. /\ Knows /\ Follows /\ kept \in [id : Nat, log : Seq(Events)] /\ Len(kept.log) \in Nat
      /\ intents \in {"roster", "relay"}
  BY DEF LineTyped, Line!TypeOK, Linked
<1>1. CASE UNCHANGED <<intents, roster, kept>>
  BY <1>1 DEF Unasks
<1>2. CASE Line!Identify
  <2>1. /\ Line!Granted /\ kept' = [id |-> sessions + 1, log |-> wire'] /\ UNCHANGED <<intents, roster>>
        /\ Opens(wire') /\ wire' \in Seq(Events)
        /\ (intents = "relay" =>
              Len(wire') = 2 /\ wire'[1].count = 0 /\ wire'[2].count = 0 /\ wire'[2].op = "guild")
    BY <1>2, IdentifyIs
  <2>2. intents = "relay"
    BY <1>0, <2>1 DEF Line!Granted
  <2>3. wire'[1].op = "ready"
    BY <2>1, <2>2 DEF Opens
  <2>4. \A n \in 1..Len(wire') : n = 1 \/ n = 2
    <3>1. Len(wire') = 2
      BY <2>1, <2>2
    <3> QED
      BY <3>1
  <2>5. kept'.log = wire'
    BY <2>1
  <2> QED
    BY <2>1, <2>2, <2>3, <2>4, <2>5 DEF Unasks
<1>3. CASE Line!ForgetSession
  <2>1. kept' = [id |-> 0, log |-> <<>>] /\ UNCHANGED <<intents, roster>>
    BY <1>3 DEF Line!ForgetSession, Line!NoSession, Line!clientVars
  <2>2. kept'.id = 0 /\ Len(kept'.log) = 0
    BY <2>1
  <2> QED
    BY <2>1, <2>2 DEF Unasks
<1>4. CASE Line!Rejected
  BY <1>4, RejectedIs DEF Unasks
<1>5. CASE Line!ReadRoster
  <2>1. PICK f \in Events :
             /\ f = kept.log[sequence + 1] /\ sequence + 1 \in 1..Len(kept.log)
             /\ UNCHANGED <<kept, intents>>
             /\ \/ f.op = "guild" /\ f.count = 0 /\ roster' = roster
                \/ f.op = "guild" /\ f.count > 0
                \/ f.op \in {"chunk", "add", "remove"}
    BY <1>0, <1>5, RosterReadIs
  <2>2. f.op \in {"ready", "guild", "message"} /\ f.count = 0
    BY <2>1 DEF Unasks
  <2> QED
    BY <2>1, <2>2 DEF Unasks
<1>6. CASE Line!Move
  BY <1>0, <1>6, MoveIs DEF Unasks
<1>7. CASE Line!SomebodySpeaks
  <2>1. PICK e \in Events : e.op = "message" /\ e.count = 0 /\ Sends(e)
    BY <1>7, SpeaksIs
  <2>2. UNCHANGED <<intents, roster>>
    BY <1>7, SpeaksIs
  <2>3. PICK log : log = kept.log \o <<e>>
    OBVIOUS
  <2>4. kept'.id = kept.id /\ kept'.log = log
    BY <1>0, <2>1, <2>3 DEF Sends
  <2>5. /\ Len(log) = Len(kept.log) + 1 /\ log[Len(kept.log) + 1] = e
        /\ \A i \in 1..Len(kept.log) : log[i] = kept.log[i]
    BY <1>0, <2>3, GrownIs
  <2>6. ASSUME NEW n \in 1..Len(log)
        PROVE  log[n].op \in {"ready", "guild", "message"} /\ log[n].count = 0
    <3>1. CASE n \in 1..Len(kept.log)
      BY <2>5, <3>1 DEF Unasks
    <3>2. CASE n = Len(kept.log) + 1
      BY <2>1, <2>5, <3>2
    <3> QED
      BY <1>0, <2>5, <3>1, <3>2
  <2> QED
    BY <2>2, <2>4, <2>6 DEF Unasks
<1>8. CASE Line!Dial \/ Line!Resume \/ Line!Fail \/ Line!ReadReconnect \/ Line!ReadInvalid \/ Line!Beat
             \/ Line!GoMute \/ Line!AskToReconnect \/ Line!Established \/ Line!ReadMessage
  BY <1>1, <1>8 DEF Line!Dial, Line!Resume, Line!Fail, Line!ReadReconnect, Line!ReadInvalid, Line!Beat,
    Line!GoMute, Line!AskToReconnect, Line!Established, Line!ReadMessage, Line!discordVars, Line!clientVars
<1>9. CASE Line!Flush \/ Line!Build \/ Line!Broadcast \/ Line!Cancel
  BY <1>1, <1>9, FlushIs, BuildIs, BroadcastIs, CancelIs
<1> QED
  BY <1>2, <1>3, <1>4, <1>5, <1>6, <1>7, <1>8, <1>9 DEF Line!Next, Line!Client

-----------------------------------------------------------------------------
(* What members are shown                                                     *)

Ended == {"stopped", "cancelled"}

LEMMA CatchesStep ==
    ASSUME LineTyped, Linked, Unasked, CatchesUp, Line!Next
    PROVE  CatchesUp'
<1>0. Knows /\ Follows /\ {dirty, timer} \subseteq BOOLEAN /\ flush.at \in {"idle", "taken", "built"}
      /\ intents \in {"roster", "relay"}
  BY DEF LineTyped, Line!TypeOK, Linked
<1>1. ASSUME UNCHANGED <<roster, dirty, timer, flush, shown>>, phase' = phase \/ phase \notin Ended
      PROVE  CatchesUp'
  BY <1>1 DEF CatchesUp, Line!ShownFollows, Ended
<1>2. CASE Elsewhere
  BY <1>1, <1>2, ElsewhereIs DEF Ended
<1>3. CASE Line!Move \/ Line!SomebodySpeaks
  <2>1. UNCHANGED <<phase, roster, dirty, timer, flush, shown>>
    BY <1>3, MoveIs, SpeaksIs
  <2> QED
    BY <2>1 DEF CatchesUp, Line!ShownFollows
<1>4. CASE Line!ReadRoster
  <2>1. /\ UNCHANGED <<phase, flush, shown>>
        /\ (UNCHANGED <<roster, dirty, timer>>) \/ (dirty' = TRUE /\ timer' = TRUE)
    <3>1. PICK f \in Events :
             /\ UNCHANGED <<plan, crowd, kept, phase, session, intents, flush, shown, told, sessions>>
             /\ (UNCHANGED <<roster, total, dirty, timer>>) \/ (dirty' = TRUE /\ timer' = TRUE)
      BY <1>0, <1>4, RosterReadIs
    <3> QED
      BY <3>1
  <2> QED
    BY <2>1 DEF CatchesUp, Line!ShownFollows
<1>5. CASE Line!Flush
  BY <1>5, FlushIs DEF CatchesUp, Line!ShownFollows
<1>6. CASE Line!Build
  BY <1>6, BuildIs DEF CatchesUp, Line!ShownFollows
<1>7. CASE Line!Broadcast
  BY <1>7, BroadcastIs DEF CatchesUp, Line!ShownFollows
<1>8. CASE Line!Cancel
  BY <1>8, CancelIs DEF CatchesUp, Line!ShownFollows
<1>9. CASE Line!Rejected
  <2>1. CASE phase' = "stopped"
    BY <2>1 DEF CatchesUp, Line!ShownFollows
  <2>2. CASE phase' = "down"
    <3>1. plan.grants # "roster" /\ roster' = {} /\ UNCHANGED <<dirty, timer, flush, shown>>
      BY <1>9, <2>2, RejectedIs DEF Line!Granted
    <3>2. roster = {}
      BY <3>1 DEF Unasked
    <3>3. phase = "dialled"
      BY <1>9 DEF Line!Rejected
    <3> QED
      BY <1>1, <3>1, <3>2, <3>3 DEF Ended
  <2> QED
    BY <1>9, <2>1, <2>2, RejectedIs
<1> QED
  BY <1>2, <1>3, <1>4, <1>5, <1>6, <1>7, <1>8, <1>9 DEF Line!Next, Line!Client, Elsewhere

\* It stops for a token or an intent that is refused.
LEMMA StopsStep ==
    ASSUME LineTyped, Linked, Line!StopsForGood, Line!Next
    PROVE  Line!StopsForGood'
<1>0. Knows /\ Follows /\ plan \in ClientPlans /\ intents \in {"roster", "relay"}
  BY DEF LineTyped, Line!TypeOK, Linked
<1>1. plan.grants \in {"roster", "relay", "none"}
  BY <1>0, ClientFits
<1>2. CASE Line!Rejected
  BY <1>0, <1>1, <1>2, RejectedIs DEF Line!StopsForGood, Line!Granted
<1>3. CASE plan' = plan /\ (phase' = phase \/ phase' # "stopped")
  BY <1>3 DEF Line!StopsForGood
<1>4. CASE Elsewhere
  BY <1>3, <1>4, ElsewhereIs
<1>5. CASE Line!Move \/ Line!SomebodySpeaks
  BY <1>3, <1>5, MoveIs, SpeaksIs
<1>6. CASE Line!ReadRoster
  BY <1>0, <1>3, <1>6, RosterReadIs
<1>7. CASE Line!Flush \/ Line!Build \/ Line!Broadcast \/ Line!Cancel
  BY <1>3, <1>7, FlushIs, BuildIs, BroadcastIs, CancelIs
<1> QED
  BY <1>2, <1>4, <1>5, <1>6, <1>7 DEF Line!Next, Line!Client, Elsewhere
-----------------------------------------------------------------------------
(* The roster of the first session                                            *)

\* What the client knows before the next frame is the guild as it was before it,
\* but for the frame that completes a guild of which not everybody was named.
LEMMA KnownBefore ==
    ASSUME NEW log \in Seq(Events), NEW C \in [1..Len(log) -> SUBSET People], Counted(C, log),
           NEW read \in Nat, read >= 2, read + 1 \in 1..Len(log), NEW who, NEW number,
           Known(C, log, read, who, number)
    PROVE  /\ number = Cardinality(C[read]) /\ C[read] \subseteq People
           /\ C[read + 1] \subseteq People /\ who \subseteq C[read]
           /\ log[read + 1].op # "chunk" => who = C[read]
<1>1. Len(log) \in Nat /\ read \in 1..Len(log)
  OBVIOUS
<1>2. C[read] \subseteq People /\ C[read + 1] \subseteq People
  BY <1>1
<1>3. CASE read = 2
  BY <1>1, <1>2, <1>3 DEF Known, Counted
<1>4. CASE read > 2
  BY <1>1, <1>2, <1>4 DEF Known
<1> QED
  BY <1>2, <1>3, <1>4

\* The number of people when one comes and when one goes.
LEMMA OneMoreOneLess ==
    ASSUME NEW S \in SUBSET People
    PROVE  /\ Cardinality(S) \in Nat
           /\ \A u \in People \ S : Cardinality(S \cup {u}) = Cardinality(S) + 1
           /\ \A u \in S : Cardinality(S) > 0 /\ Cardinality(S \ {u}) = Cardinality(S) - 1
<1>1. IsFiniteSet(S)
  BY ClientFits, FS_Subset
<1>2. Cardinality(S) \in Nat
  BY <1>1, FS_CardinalityType
<1>3. ASSUME NEW u \in People \ S
      PROVE  Cardinality(S \cup {u}) = Cardinality(S) + 1
  BY <1>1, <1>3, FS_AddElement
<1>4. ASSUME NEW u \in S
      PROVE  Cardinality(S) > 0 /\ Cardinality(S \ {u}) = Cardinality(S) - 1
  <2>1. Cardinality(S \ {u}) = Cardinality(S) - 1
    BY <1>1, <1>4, FS_RemoveElement
  <2>2. Cardinality(S) # 0
    BY <1>1, <1>4, FS_EmptySet
  <2> QED
    BY <1>2, <2>1, <2>2
<1> QED
  BY <1>2, <1>3, <1>4

\* A message says nothing of the roster.
LEMMA KnownMessage ==
    ASSUME NEW log \in Seq(Events), NEW C \in [1..Len(log) -> SUBSET People], Counted(C, log),
           NEW read \in Nat, read >= 1, read + 1 \in 1..Len(log), NEW who, NEW number,
           Known(C, log, read, who, number), log[read + 1].op = "message"
    PROVE  Known(C, log, read + 1, who, number)
<1>1. read >= 2
  BY DEF Counted
<1>2. who = C[read] /\ number = Cardinality(C[read])
  BY <1>1, KnownBefore
<1>3. read + 1 \in 3..Len(log)
  BY <1>1
<1>4. C[read + 1] = C[(read + 1) - 1]
  BY <1>3 DEF Counted
<1>5. (read + 1) - 1 = read
  OBVIOUS
<1> QED
  BY <1>1, <1>2, <1>4, <1>5 DEF Known

\* The guild itself.
LEMMA KnownGuild ==
    ASSUME NEW log \in Seq(Events), NEW C \in [1..Len(log) -> SUBSET People], Counted(C, log),
           NEW read \in Nat, read >= 1, read + 1 \in 1..Len(log), NEW who, NEW number \in Nat,
           Known(C, log, read, who, number), log[read + 1].op = "guild", NEW after, NEW count,
           \/ log[read + 1].count = 0 /\ after = who /\ count = number
           \/ /\ log[read + 1].count > 0 /\ after = who \cup log[read + 1].who
              /\ count = (IF log[read + 1].count > number THEN log[read + 1].count ELSE number)
    PROVE  Known(C, log, read + 1, after, count)
<1>1. read = 1
  <2>1. SUFFICES ASSUME read >= 2 PROVE FALSE
    OBVIOUS
  <2>2. read + 1 \in 3..Len(log)
    BY <2>1
  <2> QED
    BY <2>2 DEF Counted
<1>2. who = {} /\ number = 0
  BY <1>1 DEF Known
<1>3. /\ log[2].count = Cardinality(C[2]) /\ log[2].who \subseteq C[2] /\ C[2] \in SUBSET People
      /\ log[2].count \in Nat
  <2>1. 2 \in 1..Len(log)
    BY <1>1
  <2>2. log[2] \in Events
    BY <2>1
  <2> QED
    BY <2>1, <2>2 DEF Counted, Events
<1>4. CASE log[2].count = 0
  <2>1. IsFiniteSet(C[2])
    BY <1>3, ClientFits, FS_Subset
  <2>2. C[2] = {}
    BY <1>3, <1>4, <2>1, FS_EmptySet
  <2>3. log[2].who = {} /\ Cardinality(C[2]) = 0
    BY <1>3, <1>4, <2>2
  <2>4. after = {} /\ count = 0
    BY <1>1, <1>2, <1>4
  <2>5. read + 1 = 2
    BY <1>1
  <2> QED
    BY <2>3, <2>4, <2>5 DEF Known
<1>5. CASE log[2].count > 0
  <2>1. after = log[2].who /\ count = log[2].count
    BY <1>1, <1>2, <1>3, <1>5
  <2> QED
    BY <1>1, <1>3, <2>1 DEF Known
<1> QED
  BY <1>3, <1>4, <1>5

\* Whoever completes it, and whoever comes and goes.
LEMMA KnownChange ==
    ASSUME NEW log \in Seq(Events), NEW C \in [1..Len(log) -> SUBSET People], Counted(C, log),
           NEW read \in Nat, read >= 1, read + 1 \in 1..Len(log), NEW who, NEW number \in Nat,
           Known(C, log, read, who, number), NEW f, f = log[read + 1], NEW after, NEW count,
           \/ f.op = "chunk" /\ after = who \cup f.who /\ count = number
           \/ f.op = "add" /\ after = who \cup f.who /\ count = number + 1
           \/ f.op = "remove" /\ after = who \ f.who /\ count = (IF number > 0 THEN number - 1 ELSE 0)
    PROVE  Known(C, log, read + 1, after, count)
<1>1. read >= 2
  BY DEF Counted
<1>2. /\ number = Cardinality(C[read]) /\ C[read] \in SUBSET People /\ who \subseteq C[read]
      /\ f.op # "chunk" => who = C[read]
  BY <1>1, KnownBefore
<1>3. read + 1 \in 3..Len(log) /\ (read + 1) - 1 = read
  BY <1>1
<1>4. /\ f.op = "chunk" => f.who = C[read] /\ C[read + 1] = C[read]
      /\ f.op = "add" => \E u \in People \ C[read] : f.who = {u} /\ C[read + 1] = C[read] \cup {u}
      /\ f.op = "remove" => \E u \in C[read] : f.who = {u} /\ C[read + 1] = C[read] \ {u}
  BY <1>3 DEF Counted
<1>5. SUFFICES after = C[read + 1] /\ count = Cardinality(C[read + 1])
  BY <1>1 DEF Known
<1>6. CASE f.op = "chunk"
  BY <1>2, <1>4, <1>6
<1>7. CASE f.op = "add"
  BY <1>2, <1>4, <1>7, OneMoreOneLess
<1>8. CASE f.op = "remove"
  BY <1>2, <1>4, <1>8, OneMoreOneLess
<1> QED
  BY <1>6, <1>7, <1>8

\* What the client knows of its first session.
Recalled(log, now, read, who, number) ==
    \E C \in [1..Len(log) -> SUBSET People] :
        C[Len(log)] = now /\ Counted(C, log) /\ Known(C, log, read, who, number)

\* What an event that is sent says of the guild before and after it.
Tells(e, before, now) ==
    \/ e.op = "message" /\ now = before
    \/ e.op = "add" /\ \E u \in People \ before : e.who = {u} /\ now = before \cup {u}
    \/ e.op = "remove" /\ \E u \in before : e.who = {u} /\ now = before \ {u}

\* What is sent adds to the history.
LEMMA RecalledMore ==
    ASSUME NEW log \in Seq(Events), NEW before, NEW read \in Nat, read <= Len(log), NEW who, NEW number,
           Recalled(log, before, read, who, number), NEW e \in Events, NEW now \in SUBSET People,
           Tells(e, before, now), NEW more, more = log \o <<e>>
    PROVE  Recalled(more, now, read, who, number)
<1>0. PICK C \in [1..Len(log) -> SUBSET People] :
         C[Len(log)] = before /\ Counted(C, log) /\ Known(C, log, read, who, number)
  BY DEF Recalled
<1>1. more = log \o <<e>>
  OBVIOUS
<1>2. /\ Len(log) \in Nat /\ Len(more) = Len(log) + 1 /\ more[Len(log) + 1] = e
      /\ \A i \in 1..Len(log) : more[i] = log[i]
  BY <1>1, GrownIs
<1>3. PICK D : D = [i \in 1..Len(more) |-> IF i = Len(log) + 1 THEN now ELSE C[i]]
  OBVIOUS
<1>4. D \in [1..Len(more) -> SUBSET People]
  <2> SUFFICES ASSUME NEW i \in 1..Len(more)
               PROVE  (IF i = Len(log) + 1 THEN now ELSE C[i]) \in SUBSET People
    BY <1>3
  <2>1. i # Len(log) + 1 => i \in 1..Len(log)
    BY <1>2
  <2>2. i \in 1..Len(log) => C[i] \in SUBSET People
    BY <1>0
  <2> QED
    BY <2>1, <2>2
<1>5. D[Len(log) + 1] = now /\ \A i \in 1..Len(log) : D[i] = C[i]
  BY <1>2, <1>3
<1>6. Len(log) >= 2
  BY <1>0 DEF Counted
<1>7. Counted(D, more)
  <2>1. /\ Len(more) >= 2 /\ more[2] = log[2] /\ D[2] = C[2]
    BY <1>2, <1>5, <1>6
  <2>2. /\ more[2].op = "guild" /\ more[2].count = Cardinality(D[2]) /\ more[2].who \subseteq D[2]
    BY <1>0, <2>1 DEF Counted
  <2>3. more[2].who = D[2] \/ (Len(more) >= 3 /\ more[3].op = "chunk")
    <3>1. CASE log[2].who = C[2]
      BY <2>1, <3>1
    <3>2. CASE Len(log) >= 3 /\ log[3].op = "chunk"
      BY <1>2, <3>2
    <3> QED
      BY <1>0, <3>1, <3>2 DEF Counted
  <2>4. ASSUME NEW n \in 3..Len(more)
        PROVE  \/ more[n].op = "message" /\ D[n] = D[n - 1]
               \/ n = 3 /\ more[n].op = "chunk" /\ more[n].who = D[n - 1] /\ D[n] = D[n - 1]
               \/ more[n].op = "add" /\ \E u \in People \ D[n - 1] :
                       more[n].who = {u} /\ D[n] = D[n - 1] \cup {u}
               \/ more[n].op = "remove" /\ \E u \in D[n - 1] :
                       more[n].who = {u} /\ D[n] = D[n - 1] \ {u}
    <3>1. CASE n = Len(log) + 1
      <4>1. n - 1 = Len(log) /\ more[n] = e /\ D[n] = now /\ D[n - 1] = C[Len(log)]
        BY <1>2, <1>5, <1>6, <3>1
      <4> QED
        BY <1>0, <4>1 DEF Tells
    <3>2. CASE n \in 3..Len(log)
      <4>1. more[n] = log[n] /\ D[n] = C[n] /\ D[n - 1] = C[n - 1]
        BY <1>2, <1>5, <3>2
      <4>2. \/ log[n].op = "message" /\ C[n] = C[n - 1]
            \/ n = 3 /\ log[n].op = "chunk" /\ log[n].who = C[n - 1] /\ C[n] = C[n - 1]
            \/ log[n].op = "add" /\ \E u \in People \ C[n - 1] :
                    log[n].who = {u} /\ C[n] = C[n - 1] \cup {u}
            \/ log[n].op = "remove" /\ \E u \in C[n - 1] :
                    log[n].who = {u} /\ C[n] = C[n - 1] \ {u}
        BY <1>0, <3>2 DEF Counted
      <4> QED
        BY <4>1, <4>2
    <3>3. n = Len(log) + 1 \/ n \in 3..Len(log)
      BY <1>2
    <3> QED
      BY <3>1, <3>2, <3>3
  <2> QED
    BY <2>1, <2>2, <2>3, <2>4 DEF Counted
<1>8. Known(D, more, read, who, number)
  <2>1. more[2] = log[2] /\ D[2] = C[2]
    BY <1>2, <1>5, <1>6
  <2>2. read > 2 => D[read] = C[read]
    BY <1>2, <1>5
  <2> QED
    BY <1>0, <2>1, <2>2 DEF Known
<1>9. Len(more) = Len(log) + 1
  BY <1>2
<1> QED
  BY <1>4, <1>5, <1>7, <1>8, <1>9 DEF Recalled

LEMMA RemembersIs ==
    Remembers <=>
        /\ sessions = 0 => roster = {} /\ total = 0
        /\ sessions = 1 /\ kept.id = 1 /\ intents = "roster" =>
               Recalled(kept.log, crowd, sequence, roster, total)
BY DEF Remembers, Recalled

\* A session begins with the guild as it is.
LEMMA RecalledFirst ==
    ASSUME NEW log \in Seq(Events), NEW now \in SUBSET People,
           Len(log) = 2 \/ Len(log) = 3,
           log[2].op = "guild", log[2].count = Cardinality(now), log[2].who \subseteq now,
           \/ Len(log) = 2 /\ log[2].who = now
           \/ Len(log) = 3 /\ log[3].op = "chunk" /\ log[3].who = now
    PROVE  Recalled(log, now, 0, {}, 0)
<1>1. PICK C : C = [i \in 1..Len(log) |-> now]
  OBVIOUS
<1>2. C \in [1..Len(log) -> SUBSET People] /\ \A i \in 1..Len(log) : C[i] = now
  BY <1>1
<1>3. 2 \in 1..Len(log) /\ Len(log) \in 1..Len(log) /\ C[2] = now /\ C[Len(log)] = now
  BY <1>2
<1>4. Counted(C, log)
  <2>1. \A n \in 3..Len(log) : n = 3 /\ log[n].op = "chunk" /\ log[n].who = C[n - 1] /\ C[n] = C[n - 1]
    <3> SUFFICES ASSUME NEW n \in 3..Len(log)
                 PROVE  n = 3 /\ log[n].op = "chunk" /\ log[n].who = C[n - 1] /\ C[n] = C[n - 1]
      OBVIOUS
    <3>1. CASE Len(log) = 2
      <4>1. n \in 3..2
        BY <3>1
      <4> QED
        BY <4>1
    <3>2. CASE Len(log) = 3
      <4>1. n \in 3..3
        BY <3>2
      <4>2. n = 3
        BY <4>1
      <4>3. 3 - 1 = 2 /\ 3 \in 1..Len(log) /\ log[3].op = "chunk" /\ log[3].who = now
        BY <3>2
      <4> QED
        BY <1>2, <1>3, <4>2, <4>3
    <3> QED
      BY <3>1, <3>2
  <2> QED
    BY <1>3, <2>1 DEF Counted
<1>5. Known(C, log, 0, {}, 0)
  BY DEF Known
<1> QED
  BY <1>2, <1>3, <1>4, <1>5 DEF Recalled

LEMMA RemembersStep ==
    ASSUME LineTyped, Linked, Remembers, Line!Next
    PROVE  Remembers'
<1>0. /\ Knows /\ Follows /\ kept \in [id : Nat, log : Seq(Events)] /\ Len(kept.log) \in Nat
      /\ sequence \in Nat /\ sessions \in Nat /\ session \in 0..sessions /\ crowd \subseteq People
      /\ (session = 0 => sequence = 0) /\ total \in Nat /\ intents \in {"roster", "relay"}
  BY DEF LineTyped, Line!TypeOK, Linked
<1>1. /\ sessions = 0 => roster = {} /\ total = 0
      /\ sessions = 1 /\ kept.id = 1 /\ intents = "roster" => Recalled(kept.log, crowd, sequence, roster, total)
  BY RemembersIs
<1>2. SUFFICES /\ sessions' = 0 => roster' = {} /\ total' = 0
               /\ sessions' = 1 /\ kept'.id = 1 /\ intents' = "roster" =>
                      Recalled(kept'.log, crowd', sequence', roster', total')
  BY DEF Remembers, Recalled
<1> DEFINE Goal == /\ sessions' = 0 => roster' = {} /\ total' = 0
                   /\ sessions' = 1 /\ kept'.id = 1 /\ intents' = "roster" =>
                          Recalled(kept'.log, crowd', sequence', roster', total')
<1>3. kept.id # 0 => sequence <= Len(kept.log)
  BY <1>0 DEF Knows
<1>4. ASSUME UNCHANGED <<sessions, kept, crowd, sequence, intents, roster, total>>
      PROVE  Goal
  BY <1>1, <1>4
<1>5. CASE Line!Dial \/ Line!Resume \/ Line!Fail \/ Line!ReadReconnect \/ Line!Beat \/ Line!GoMute
             \/ Line!AskToReconnect
  <2>1. UNCHANGED <<sessions, kept, crowd, sequence, intents, roster, total>>
    BY <1>5 DEF Line!Dial, Line!Resume, Line!Fail, Line!ReadReconnect, Line!Beat, Line!GoMute,
       Line!AskToReconnect, Line!discordVars, Line!clientVars, Line!historyVars
  <2> QED
    BY <1>4, <2>1
<1>6. CASE Line!Flush \/ Line!Build \/ Line!Broadcast \/ Line!Cancel
  <2>1. UNCHANGED <<sessions, kept, crowd, sequence, intents, roster, total>>
    BY <1>6, FlushIs, BuildIs, BroadcastIs, CancelIs
  <2> QED
    BY <1>4, <2>1
<1>7. CASE Line!Rejected
  <2>1. \/ UNCHANGED <<sessions, kept, crowd, sequence, intents, roster, total>>
        \/ roster' = {} /\ total' = 0 /\ intents' = "relay"
    BY <1>7, RejectedIs
  <2> QED
    BY <1>4, <2>1
<1>8. CASE Line!ReadInvalid
  <2>1. UNCHANGED <<kept, sessions, roster, total>> /\ Line!Receives /\ wire # <<>> /\ Head(wire).op = "invalid"
    BY <1>8 DEF Line!ReadInvalid, Line!historyVars, Line!Frame
  <2>2. kept.id = 0
    BY <1>0, <2>1, ReadIs
  <2> QED
    BY <1>1, <2>1, <2>2
<1>9. CASE Line!ForgetSession
  <2>1. kept'.id = 0 /\ UNCHANGED <<sessions, roster, total>>
    BY <1>9 DEF Line!ForgetSession, Line!NoSession, Line!clientVars, Line!historyVars
  <2> QED
    BY <1>1, <2>1
<1>10. CASE Line!Identify
  <2>1. /\ sessions' = sessions + 1 /\ UNCHANGED <<crowd, intents, roster, total, sequence>>
        /\ kept' = [id |-> sessions + 1, log |-> wire'] /\ wire' \in Seq(Events) /\ session = 0
        /\ intents = "roster" =>
             /\ wire'[2].op = "guild" /\ wire'[2].count = Cardinality(crowd) /\ wire'[2].who \subseteq crowd
             /\ \/ Len(wire') = 2 /\ wire'[2].who = crowd
                \/ Len(wire') = 3 /\ wire'[3].op = "chunk" /\ wire'[3].who = crowd
    BY <1>10, IdentifyIs
  <2>2. sequence' = 0 /\ kept'.log = wire' /\ sessions' # 0
    BY <1>0, <2>1
  <2>3. ASSUME sessions' = 1, intents' = "roster"
        PROVE  Recalled(kept'.log, crowd', sequence', roster', total')
    <3>1. roster' = {} /\ total' = 0
      BY <1>0, <1>1, <2>1, <2>3
    <3>2. Recalled(kept'.log, crowd, 0, {}, 0)
      BY <1>0, <2>1, <2>2, <2>3, RecalledFirst
    <3> QED
      BY <2>1, <2>2, <3>1, <3>2
  <2> QED
    BY <2>2, <2>3
<1>11. CASE Line!Move \/ Line!SomebodySpeaks
  <2>1. UNCHANGED <<sessions, sequence, intents, roster, total>> /\ kept.id # 0 /\ crowd' \subseteq People
    BY <1>0, <1>11, MoveIs, SpeaksIs
  <2>2. ASSUME sessions = 1, kept'.id = 1, intents = "roster"
        PROVE  Recalled(kept'.log, crowd', sequence, roster, total)
    <3>1. PICK e \in Events :
             /\ Sends(e)
             /\ \/ e.op = "message" /\ crowd' = crowd
                \/ e.op = "add" /\ \E u \in People \ crowd : e.who = {u} /\ crowd' = crowd \cup {u}
                \/ e.op = "remove" /\ \E u \in crowd : e.who = {u} /\ crowd' = crowd \ {u}
      <4>1. CASE Line!SomebodySpeaks
        BY <4>1, SpeaksIs
      <4>2. CASE Line!Move
        <5>1. PICK u \in People, e \in Events :
                 /\ Sends(e) /\ e.who = {u} /\ e.op \in {"add", "remove"}
                 /\ e.op = "add" => u \notin crowd /\ crowd' = crowd \cup {u}
                 /\ e.op = "remove" => u \in crowd /\ crowd' = crowd \ {u}
          BY <2>2, <4>2, MoveIs
        <5> QED
          BY <5>1
      <4> QED
        BY <1>11, <4>1, <4>2
    <3>2. kept'.id = kept.id /\ kept'.log = kept.log \o <<e>>
      BY <1>0, <3>1 DEF Sends
    <3>3. PICK log \in Seq(Events) : log = kept.log
      BY <1>0
    <3>4. PICK now \in SUBSET People : now = crowd'
      BY <2>1
    <3>5. PICK more : more = log \o <<e>>
      OBVIOUS
    <3>6. Recalled(log, crowd, sequence, roster, total)
      BY <1>1, <2>2, <3>2, <3>3
    <3>7. Tells(e, crowd, now)
      BY <3>1, <3>4 DEF Tells
    <3>8. Recalled(more, now, sequence, roster, total)
      BY <1>0, <1>3, <2>1, <3>3, <3>5, <3>6, <3>7, RecalledMore
    <3> QED
      BY <3>2, <3>3, <3>4, <3>5, <3>8
  <2> QED
    BY <1>1, <2>1, <2>2
<1>12. CASE Line!Established
  <2>1. PICK f : f = Head(wire)
    OBVIOUS
  <2>2. /\ UNCHANGED <<crowd, kept, intents, roster, total, sessions>>
        /\ \/ TakesNext /\ session = 0
           \/ TakesPlain
    BY <1>0, <1>12, ReadsAre
  <2>3. CASE TakesPlain
    BY <1>4, <2>2, <2>3 DEF TakesPlain
  <2>4. CASE TakesNext /\ session = 0
    <3>1. sequence = 0 /\ sequence' = 1
      BY <1>0, <2>4 DEF TakesNext
    <3>2. \A C : Known(C, kept.log, 0, roster, total) => Known(C, kept.log, 1, roster, total)
      BY DEF Known
    <3>3. ASSUME sessions = 1, kept.id = 1, intents = "roster"
          PROVE  Recalled(kept.log, crowd, 1, roster, total)
      BY <1>1, <3>1, <3>2, <3>3 DEF Recalled
    <3> QED
      BY <1>1, <2>2, <3>1, <3>3
  <2> QED
    BY <2>2, <2>3, <2>4
<1>13. CASE Line!ReadMessage
  <2>1. PICK f : f = Head(wire)
    OBVIOUS
  <2>2. TakesNext /\ f.op = "message" /\ UNCHANGED <<crowd, kept, intents, roster, total, sessions>>
    BY <1>0, <1>13, <2>1, ReadsAre
  <2>3. /\ f.n # 0 /\ f = kept.log[sequence + 1] /\ sequence + 1 \in 1..Len(kept.log) /\ session # 0
        /\ sequence' = sequence + 1
    BY <1>0, <2>1, <2>2, ReadIs DEF TakesNext
  <2>4. sequence >= 1
    BY <1>0, <2>3 DEF Knows
  <2>5. ASSUME sessions = 1, kept.id = 1, intents = "roster"
        PROVE  Recalled(kept.log, crowd, sequence + 1, roster, total)
    <3>1. PICK C \in [1..Len(kept.log) -> SUBSET People] :
             /\ C[Len(kept.log)] = crowd /\ Counted(C, kept.log)
             /\ Known(C, kept.log, sequence, roster, total)
      BY <1>1, <2>5 DEF Recalled
    <3>2. Known(C, kept.log, sequence + 1, roster, total)
      BY <1>0, <2>2, <2>3, <2>4, <3>1, KnownMessage
    <3> QED
      BY <3>1, <3>2 DEF Recalled
  <2> QED
    BY <1>1, <2>2, <2>3, <2>5
<1>14. CASE Line!ReadRoster
  <2>1. PICK f \in Events :
             /\ f = kept.log[sequence + 1] /\ sequence + 1 \in 1..Len(kept.log)
             /\ session # 0 /\ sequence' = sequence + 1
             /\ UNCHANGED <<crowd, kept, intents, sessions>>
             /\ \/ f.op = "guild" /\ f.count = 0 /\ roster' = roster /\ total' = total
                \/ /\ f.op = "guild" /\ f.count > 0 /\ roster' = roster \cup f.who
                   /\ total' = (IF f.count > total THEN f.count ELSE total)
                \/ f.op = "chunk" /\ roster' = roster \cup f.who /\ total' = total
                \/ f.op = "add" /\ roster' = roster \cup f.who /\ total' = total + 1
                \/ /\ f.op = "remove" /\ roster' = roster \ f.who
                   /\ total' = (IF total > 0 THEN total - 1 ELSE 0)
    BY <1>0, <1>14, RosterReadIs
  <2>2. sequence >= 1 /\ sessions # 0
    BY <1>0, <2>1 DEF Knows
  <2>3. ASSUME sessions = 1, kept.id = 1, intents = "roster"
        PROVE  Recalled(kept.log, crowd, sequence + 1, roster', total')
    <3>1. PICK C \in [1..Len(kept.log) -> SUBSET People] :
             /\ C[Len(kept.log)] = crowd /\ Counted(C, kept.log)
             /\ Known(C, kept.log, sequence, roster, total)
      BY <1>1, <2>3 DEF Recalled
    <3>2. PICK after : after = roster'
      OBVIOUS
    <3>3. PICK count : count = total'
      OBVIOUS
    <3>4. CASE f.op = "guild"
      <4>1. Known(C, kept.log, sequence + 1, after, count)
        BY <1>0, <2>1, <2>2, <3>1, <3>2, <3>3, <3>4, KnownGuild
      <4> QED
        BY <3>1, <3>2, <3>3, <4>1 DEF Recalled
    <3>5. CASE f.op \in {"chunk", "add", "remove"}
      <4>1. Known(C, kept.log, sequence + 1, after, count)
        BY <1>0, <2>1, <2>2, <3>1, <3>2, <3>3, <3>5, KnownChange
      <4> QED
        BY <3>1, <3>2, <3>3, <4>1 DEF Recalled
    <3> QED
      BY <2>1, <3>4, <3>5
  <2> QED
    BY <1>1, <2>1, <2>2, <2>3
<1> QED
  BY <1>5, <1>6, <1>7, <1>8, <1>9, <1>10, <1>11, <1>12, <1>13, <1>14 DEF Line!Next, Line!Client
-----------------------------------------------------------------------------
(* The run                                                                    *)

\* The client's part of a run, all of it.
ClientInv ==
    /\ LineTyped /\ Linked /\ Heard /\ Unasked /\ Remembers /\ CatchesUp /\ Line!StopsForGood

LEMMA ClientStarts ==
    ASSUME Line!Init
    PROVE  ClientInv
<1>1. /\ plan \in ClientPlans /\ crowd \in {{}, People} /\ kept = [id |-> 0, log |-> <<>>] /\ wire = <<>>
      /\ mute = FALSE /\ phase = "down" /\ session = 0 /\ sequence = 0 /\ intents = "roster"
      /\ connected = FALSE /\ roster = {} /\ total = 0 /\ missed = 0
      /\ dirty = FALSE /\ timer = FALSE /\ flush = [at |-> "idle", who |-> {}] /\ shown = {}
      /\ told = <<>> /\ sessions = 0
  BY DEF Line!Init, Line!NoSession, Line!NoFlush
<1>2. /\ kept.id = 0 /\ kept.log = <<>> /\ Len(kept.log) = 0 /\ flush.at = "idle" /\ flush.who = {}
      /\ Len(wire) = 0 /\ Len(told) = 0 /\ DOMAIN told = {}
  BY <1>1
<1>3. LinkTyped
  <2>1. << >> \in Seq(Events) /\ << >> \in Seq(Frames)
    OBVIOUS
  <2>2. kept \in [id : Nat, log : Seq(Events)]
    BY <1>1, <2>1
  <2>3. missed \in 0..MaxMissed
    BY <1>1, ClientFits
  <2>4. phase \in Line!Phases
    BY <1>1 DEF Line!Phases
  <2>5. wire \in Seq(Frames) /\ sessions \in Nat /\ kept.id \in 0..sessions /\ session \in 0..sessions
    BY <1>1, <1>2, <2>1
  <2>6. mute \in BOOLEAN /\ connected \in BOOLEAN /\ (connected => phase = "up")
    BY <1>1
  <2> QED
    BY <1>1, <2>2, <2>3, <2>4, <2>5, <2>6 DEF LinkTyped
<1>4. PeopleTyped
  BY <1>1, <1>2 DEF PeopleTyped
<1>5. LineTyped
  <2>1. told \in Seq([session : Nat, n : Nat])
    BY <1>1
  <2> QED
    BY <1>1, <1>3, <1>4, <2>1, LineTypes
<1>6. Linked
  <2>1. Knows
    <3>1. Opens(kept.log)
      BY <1>2 DEF Opens
    <3> QED
      BY <1>1, <1>2, <3>1 DEF Knows
  <2>2. Follows
    BY <1>1, <1>2 DEF Follows, Line!Receives, Line!Open
  <2> QED
    BY <1>3, <2>1, <2>2 DEF Linked
<1>7. Heard
  BY <1>1, <1>2 DEF Heard, Line!EveryMessageOnce
<1>8. Unasked
  BY <1>1, <1>2 DEF Unasked
<1>9. Remembers
  BY <1>1 DEF Remembers
<1>10. CatchesUp
  BY <1>1, <1>2 DEF CatchesUp, Line!ShownFollows
<1>11. Line!StopsForGood
  BY <1>1 DEF Line!StopsForGood
<1> QED
  BY <1>5, <1>6, <1>7, <1>8, <1>9, <1>10, <1>11 DEF ClientInv

LEMMA ClientStep ==
    ASSUME ClientInv, Line!Next
    PROVE  ClientInv'
<1>1. LineTyped /\ Linked /\ Heard /\ Unasked /\ Remembers /\ CatchesUp /\ Line!StopsForGood
  BY DEF ClientInv
<1>2. LineTyped' /\ Linked'
  BY <1>1, TypesStep
<1>3. Heard'
  <2>1. Hears(told', session', sequence', kept', sessions')
    BY <1>1, HeardIs, HearsStep
  <2>2. DOMAIN told' = 1..Len(told')
    BY <1>2 DEF LineTyped
  <2> QED
    BY <2>1, <2>2 DEF Heard, Hears, Line!EveryMessageOnce
<1>4. Unasked'
  <2>1. plan' = plan
    BY <1>1, PlanStays
  <2>2. plan.grants # "roster" => Unasks(intents', roster', kept')
    BY <1>1, UnasksStep DEF Unasked, Unasks
  <2> QED
    BY <2>1, <2>2 DEF Unasked, Unasks
<1>5. Remembers'
  BY <1>1, RemembersStep
<1>6. CatchesUp'
  BY <1>1, CatchesStep
<1>7. Line!StopsForGood'
  BY <1>1, StopsStep
<1> QED
  BY <1>2, <1>3, <1>4, <1>5, <1>6, <1>7 DEF ClientInv

LEMMA ClientRests ==
    ASSUME ClientInv, UNCHANGED <<plan, left, lineVars>>
    PROVE  ClientInv'
<1>1. UNCHANGED <<plan, left, crowd, kept, wire, mute, phase, session, sequence, intents, connected, roster,
                  total, missed, dirty, timer, flush, shown, told, sessions>>
  BY DEF lineVars
<1>2. LineTyped' /\ Linked'
  BY <1>1 DEF ClientInv, LineTyped, Line!TypeOK, Linked, LinkTyped, Knows, Follows, Line!Receives, Line!Open
<1>3. Heard'
  BY <1>1 DEF ClientInv, Heard, Line!EveryMessageOnce
<1>4. Unasked' /\ Remembers'
  BY <1>1 DEF ClientInv, Unasked, Remembers
<1>5. CatchesUp' /\ Line!StopsForGood'
  BY <1>1 DEF ClientInv, CatchesUp, Line!ShownFollows, Line!StopsForGood
<1> QED
  BY <1>2, <1>3, <1>4, <1>5 DEF ClientInv

LEMMA ClientHolds == Spec => [](scene = "client" => ClientInv)
<1>1. SceneInit => (scene = "client" => ClientInv)
  BY ClientStarts DEF SceneInit
<1>2. (scene = "client" => ClientInv) /\ [SceneNext]_<<scene, vars, lineVars>> => (scene = "client" => ClientInv)'
  <2> SUFFICES ASSUME scene = "client" => ClientInv, [SceneNext]_<<scene, vars, lineVars>>, scene' = "client"
               PROVE  ClientInv'
    OBVIOUS
  <2>1. CASE scene = "bridge" /\ Next /\ UNCHANGED <<scene, lineVars>>
    BY <2>1
  <2>2. CASE scene = "client" /\ Line!Next /\ UNCHANGED <<scene, bridgeVars>>
    BY <2>2, ClientStep
  <2>3. CASE UNCHANGED <<scene, vars, lineVars>>
    BY <2>3, ClientRests DEF vars
  <2> QED
    BY <2>1, <2>2, <2>3 DEF SceneNext
<1> QED
  BY <1>1, <1>2, PTL DEF Spec

\* Within a session the handlers are given every message once and in order, however
\* often the connection is lost and resumed.
THEOREM MessagesArriveOnce == Spec => []MessagesOnce
<1>1. (scene = "client" => ClientInv) => MessagesOnce
  BY DEF ClientInv, Heard, MessagesOnce
<1> QED
  BY <1>1, ClientHolds, PTL

\* A client that never had to open a second session and has read everything knows
\* who is in the guild and how many they are, and what members are shown is that or
\* is about to be.
THEOREM RosterIsShown == Spec => []RosterShown
<1>1. (scene = "client" => ClientInv) => RosterShown
  <2> SUFFICES ASSUME ClientInv
               PROVE  Line!RosterFollows /\ Line!ShownFollows
    BY DEF RosterShown
  <2>1. ASSUME sessions = 1, session = 1, kept.id = 1, intents = "roster", sequence = Len(kept.log)
        PROVE  roster = crowd /\ total = Line!Cardinality(crowd)
    <3>1. PICK C \in [1..Len(kept.log) -> SUBSET People] :
             /\ C[Len(kept.log)] = crowd /\ Counted(C, kept.log)
             /\ Known(C, kept.log, sequence, roster, total)
      BY <2>1 DEF ClientInv, Remembers
    <3>2. CASE Len(kept.log) = 2
      <4>1. kept.log[2].who = C[2]
        BY <3>1, <3>2 DEF Counted
      <4> QED
        BY <2>1, <3>1, <3>2, <4>1, CountIs DEF Known
    <3>3. CASE Len(kept.log) > 2
      BY <2>1, <3>1, <3>3, CountIs DEF Known
    <3>4. Len(kept.log) >= 2 /\ Len(kept.log) \in Nat
      BY <3>1 DEF Counted, ClientInv, LineTyped
    <3>5. Len(kept.log) = 2 \/ Len(kept.log) > 2
      <4>1. \A m \in Nat : m >= 2 => m = 2 \/ m > 2
        OBVIOUS
      <4> QED
        BY <3>4, <4>1
    <3> QED
      BY <3>2, <3>3, <3>5
  <2>2. Line!ShownFollows
    BY DEF ClientInv, CatchesUp, Line!ShownFollows
  <2> QED
    BY <2>1, <2>2 DEF Line!RosterFollows
<1> QED
  BY <1>1, ClientHolds, PTL

\* The client stops for a token that is refused or an intent it cannot do without,
\* and for nothing else.
THEOREM ClientGivesUpRightly == Spec => [](scene = "client" => Line!StopsForGood)
<1>1. (scene = "client" => ClientInv) => (scene = "client" => Line!StopsForGood)
  BY DEF ClientInv
<1> QED
  BY <1>1, ClientHolds, PTL

-----------------------------------------------------------------------------
(* The bridge: what its state is made of                                      *)

Chans == {"text", "media"}
Places == {"p", "q"}
Outs == {"out", "outEdit", "outDelete"}
Ins == {"in", "inEdit", "inDelete"}
LinkRecs ==
    [id : Nat, chan : Chans, place : Places, hook : DOMAIN PlaceOf, dir : Dirs, on : BOOLEAN, edits : BOOLEAN, source : Nat]
Ours == [chan : Chans, ver : Nat, sender : Nat, of : Nat]
Theirs == [place : Places, ver : Nat, hook : {"none"} \cup DOMAIN PlaceOf, of : Nat, file : BOOLEAN]
Carried == [do : Jobs, id : Nat, msg : Ours \cup Theirs]
Deliveries == [do : Jobs, id : Nat, msg : Ours \cup Theirs, link : LinkRecs]
Told == [do : Ins, id : Nat, msg : Theirs]
Left == [at |-> "left"]
Works ==
    [at : {"start", "executed", "provisioned", "loaded", "write", "written"}, job : Deliveries,
     tries : Nat, made : Nat, sender : Nat, links : SUBSET LinkRecs]
QueueRecs == [jobs : Seq(Deliveries), retired : BOOLEAN, doing : Works \cup {Idle, Left}]

\* A channel on Discord keeps the webhook its link posts through, unless nobody but
\* the file names another: what a replaced webhook still echoes is not recognised.
OneHook(p) == p.change # "rehook" /\ (p.admins = 0 \/ "p2" \notin p.hooks \cup {f.hook : f \in p.file})
HooksStay == \A p \in Plans : OneHook(p)

\* What the parts of the state are measured by: the messages of either side, how many
\* links, senders and queues there have been, and the webhooks the links post through.
World(hooks) ==
    [here |-> here, there |-> there, links |-> lastLink, senders |-> Len(senders),
     queues |-> Len(queues), hooks |-> hooks, sole |-> OneHook(plan)]

\* A message that was written on this side.
Own(log, i) == i \in 1..Len(log) /\ (log[i] # Gone => log[i].of = 0)

\* A link posts through a webhook in use, and the webhook is of its channel.
LinkOK(l, w) ==
    /\ l \in LinkRecs /\ l.id \in 1..w.links /\ l.source \in 0..w.senders
    /\ l.hook \in w.hooks /\ (w.sole => l.place = PlaceOf[l.hook])
\* A delivery is of a message that is there, and carried across only if it was written
\* on the side it comes from.
JobOK(j, w) ==
    /\ j.do \in Ins => j.id \in 1..Len(w.there)
    /\ j.do \in Outs => j.id \in 1..Len(w.here)
    /\ j.do = "in" /\ w.sole => Own(w.there, j.id)
    /\ j.do = "out" => Own(w.here, j.id)
DeliveryOK(j, w) == j \in Deliveries /\ JobOK(j, w) /\ LinkOK(j.link, w)
WorkOK(d, w) ==
    d \in Works =>
        /\ DeliveryOK(d.job, w) /\ \A l \in d.links : LinkOK(l, w)
        /\ d.at = "executed" => d.made \in 1..Len(w.there) /\ d.job.do = "out"
        /\ d.at = "written" => d.made \in 1..Len(w.here) /\ d.job.do = "in"
QueueOK(x, w) == x \in QueueRecs /\ (\A i \in 1..Len(x.jobs) : DeliveryOK(x.jobs[i], w)) /\ WorkOK(x.doing, w)
\* What a handler holds between two steps.
HandOK(x, w) ==
    /\ x.at = "stored" =>
        x.do \in Outs /\ x.id \in 1..Len(w.here) /\ x.msg \in Ours /\ (x.do = "out" => Own(w.here, x.id))
    /\ x.at \in {"linked", "taken"} => LinkOK(x.link, w) /\ x.job \in Carried /\ JobOK(x.job, w)
    /\ x.at = "taken" => x.queue \in 1..w.queues
    /\ x.at = "change" => LinkOK(x.link, w)
    /\ x.at = "loaded" => \A l \in x.links : LinkOK(l, w)
\* What Discord tells of a message the bridge put there names the webhook it came by.
EventOK(e, w) ==
    /\ e \in Told /\ e.id \in 1..Len(w.there)
    /\ e.do = "in" =>
        /\ w.there[e.id] # Gone => w.there[e.id].of = e.msg.of
        /\ e.msg.of # 0 => e.msg.hook \in w.hooks /\ (w.sole => e.msg.place = PlaceOf[e.msg.hook])

\* What was carried was written on the other side.
Texts(w) ==
    /\ w.here \in Seq(Ours \cup {Gone}) /\ w.there \in Seq(Theirs \cup {Gone})
    /\ \A i \in 1..Len(w.here) : w.here[i] # Gone /\ w.here[i].of # 0 =>
            w.here[i].of \in 1..Len(w.there) /\ (w.sole => Own(w.there, w.here[i].of))
    /\ \A i \in 1..Len(w.there) : w.there[i] # Gone /\ w.there[i].of # 0 => Own(w.here, w.there[i].of)

Apart(links) == \A k, l \in links : k # l => k.id # l.id /\ k.chan # l.chan /\ k.place # l.place
Tables(w) ==
    /\ \A l \in rows : LinkOK(l, w)
    /\ \A l \in cached : LinkOK(l, w)
    /\ Apart(rows) /\ lastLink \in Nat /\ senders \in Seq(Chans \cup {"gone"})
Paired(w) == \A p \in pairs : p.here \in 1..Len(w.here) /\ p.there \in 1..Len(w.there)
Waiting(w) ==
    /\ queues \in Seq(QueueRecs)
    /\ \A q \in 1..Len(queues) : QueueOK(queues[q], w)
    /\ \A l \in DOMAIN queueOf : queueOf[l] \in 1..Len(queues)
Hands(w) == hand = [a \in Actors |-> hand[a]] /\ \A a \in Actors : HandOK(hand[a], w)
Feeds(w) ==
    /\ feeds \in [1..plan.clients -> Seq(Told)]
    /\ \A g \in 1..plan.clients : \A i \in 1..Len(feeds[g]) : EventOK(feeds[g][i], w)
Settings ==
    /\ plan \in Plans /\ enabled \in BOOLEAN /\ file \in {plan.file, {}}
    /\ lastClient \in Nat /\ {client, cancel} \subseteq 0..lastClient /\ running \subseteq 1..lastClient

\* The webhooks in use: one for a channel, but for a replaced one.  A server whose file
\* names another one, and that nobody administers, has one channel.
HooksFit(hooks) ==
    IF ~OneHook(plan) THEN hooks = DOMAIN PlaceOf
    ELSE IF plan.admins = 0 /\ \E f \in plan.file : f.hook = "p2" THEN hooks \in {{"p1"}, {"p2"}}
    ELSE hooks = {"p1", "q1"}

Parts(w) == Texts(w) /\ Tables(w) /\ Paired(w) /\ Waiting(w) /\ Hands(w) /\ Feeds(w)
Worlds == {World(hooks) : hooks \in SUBSET DOMAIN PlaceOf}
BridgeInv == Settings /\ \E w \in Worlds : HooksFit(w.hooks) /\ Parts(w)

-----------------------------------------------------------------------------
(* The bridge: what stays true while messages, links and queues come          *)

\* Messages keep their places, and where they came from, until they are gone.
Grows(a, b) ==
    /\ Len(a) \in Nat /\ Len(b) \in Nat /\ Len(a) <= Len(b)
    /\ \A i \in 1..Len(a) : b[i] # Gone => a[i] # Gone /\ b[i].of = a[i].of
Later(w, v) ==
    /\ Grows(w.here, v.here) /\ Grows(w.there, v.there)
    /\ {w.links, w.senders, w.queues, v.links, v.senders, v.queues} \subseteq Nat
    /\ w.links <= v.links /\ w.senders <= v.senders /\ w.queues <= v.queues
    /\ w.hooks = v.hooks /\ w.sole = v.sole

\* Where the webhooks post.
LEMMA PlaceIs ==
    /\ DOMAIN PlaceOf = {"p1", "p2", "q1"}
    /\ PlaceOf["p1"] = "p" /\ PlaceOf["p2"] = "p" /\ PlaceOf["q1"] = "q"
    /\ \A h \in DOMAIN PlaceOf : PlaceOf[h] \in Places
BY DEF PlaceOf, Places

\* Which member of a sequence is replaced.
LEMMA SeqPut ==
    ASSUME NEW S, NEW s \in Seq(S), NEW i \in 1..Len(s), NEW x \in S
    PROVE  /\ [s EXCEPT ![i] = x] \in Seq(S) /\ Len([s EXCEPT ![i] = x]) = Len(s) /\ Len(s) \in Nat
           /\ [s EXCEPT ![i] = x][i] = x
           /\ \A j \in 1..Len(s) : j # i => [s EXCEPT ![i] = x][j] = s[j]
<1>1. s \in [1..Len(s) -> S] /\ Len(s) \in Nat
  OBVIOUS
<1>2. [s EXCEPT ![i] = x] \in [1..Len(s) -> S]
  BY <1>1
<1>3. [s EXCEPT ![i] = x] \in Seq(S) /\ Len([s EXCEPT ![i] = x]) = Len(s)
  BY <1>1, <1>2, SeqIs
<1> QED
  BY <1>1, <1>3

LEMMA OwnKept ==
    ASSUME NEW a, NEW b, NEW i, Grows(a, b), Own(a, i)
    PROVE  Own(b, i)
BY DEF Grows, Own

LEMMA LinkKept ==
    ASSUME NEW w, NEW v, Later(w, v), NEW l, LinkOK(l, w)
    PROVE  LinkOK(l, v)
BY DEF Later, LinkOK

LEMMA JobKept ==
    ASSUME NEW w, NEW v, Later(w, v), NEW j, JobOK(j, w)
    PROVE  JobOK(j, v)
<1>1. /\ Grows(w.here, v.here) /\ Grows(w.there, v.there) /\ w.sole = v.sole
      /\ 1..Len(w.here) \subseteq 1..Len(v.here) /\ 1..Len(w.there) \subseteq 1..Len(v.there)
  BY DEF Later, Grows
<1>2. j.do = "in" /\ v.sole => Own(v.there, j.id)
  BY <1>1, OwnKept DEF JobOK
<1>3. j.do = "out" => Own(v.here, j.id)
  BY <1>1, OwnKept DEF JobOK
<1> QED
  BY <1>1, <1>2, <1>3 DEF JobOK

LEMMA DeliveryKept ==
    ASSUME NEW w, NEW v, Later(w, v), NEW j, DeliveryOK(j, w)
    PROVE  DeliveryOK(j, v)
BY JobKept, LinkKept DEF DeliveryOK

LEMMA WorkKept ==
    ASSUME NEW w, NEW v, Later(w, v), NEW d, WorkOK(d, w)
    PROVE  WorkOK(d, v)
<1> SUFFICES ASSUME d \in Works
             PROVE  WorkOK(d, v)
  BY DEF WorkOK
<1>1. 1..Len(w.here) \subseteq 1..Len(v.here) /\ 1..Len(w.there) \subseteq 1..Len(v.there)
  BY DEF Later, Grows
<1>2. DeliveryOK(d.job, v) /\ \A l \in d.links : LinkOK(l, v)
  BY DeliveryKept, LinkKept DEF WorkOK
<1> QED
  BY <1>1, <1>2 DEF WorkOK

LEMMA QueueKept ==
    ASSUME NEW w, NEW v, Later(w, v), NEW x, QueueOK(x, w)
    PROVE  QueueOK(x, v)
BY DeliveryKept, WorkKept DEF QueueOK

LEMMA HandKept ==
    ASSUME NEW w, NEW v, Later(w, v), NEW x, HandOK(x, w)
    PROVE  HandOK(x, v)
<1>1. /\ Grows(w.here, v.here) /\ Grows(w.there, v.there) /\ w.queues <= v.queues /\ {w.queues, v.queues} \subseteq Nat
      /\ 1..Len(w.here) \subseteq 1..Len(v.here) /\ 1..Len(w.there) \subseteq 1..Len(v.there)
  BY DEF Later, Grows
<1>2. x.at = "stored" /\ x.do = "out" => Own(v.here, x.id)
  BY <1>1, OwnKept DEF HandOK
<1>3. x.at \in {"linked", "taken"} => LinkOK(x.link, v) /\ x.job \in Carried /\ JobOK(x.job, v)
  BY LinkKept, JobKept DEF HandOK
<1>4. x.at = "change" => LinkOK(x.link, v)
  BY LinkKept DEF HandOK
<1>5. x.at = "loaded" => \A l \in x.links : LinkOK(l, v)
  BY LinkKept DEF HandOK
<1>6. x.at = "taken" => x.queue \in 1..v.queues
  BY <1>1 DEF HandOK
<1> QED
  BY <1>1, <1>2, <1>3, <1>4, <1>5, <1>6 DEF HandOK

LEMMA EventKept ==
    ASSUME NEW w, NEW v, Later(w, v), NEW e, EventOK(e, w)
    PROVE  EventOK(e, v)
BY DEF Later, Grows, EventOK

-----------------------------------------------------------------------------
(* The bridge: what a step does to each part                                  *)

LEMMA TablesRest ==
    ASSUME NEW w, NEW v, Later(w, v), Tables(w), UNCHANGED <<plan, rows, cached, lastLink, senders>>
    PROVE  Tables(v)'
<1>1. \A l \in rows \cup cached : LinkOK(l, v)
  BY LinkKept DEF Tables
<1> QED
  BY <1>1 DEF Tables

LEMMA PairedRest ==
    ASSUME NEW w, NEW v, Later(w, v), Paired(w), pairs' \subseteq pairs
    PROVE  Paired(v)'
<1>1. 1..Len(w.here) \subseteq 1..Len(v.here) /\ 1..Len(w.there) \subseteq 1..Len(v.there)
  BY DEF Later, Grows
<1> QED
  BY <1>1 DEF Paired

LEMMA WaitingRests ==
    ASSUME NEW w, NEW v, Later(w, v), Waiting(w), UNCHANGED queueVars
    PROVE  Waiting(v)'
<1>1. \A q \in 1..Len(queues) : QueueOK(queues[q], v)
  BY QueueKept DEF Waiting
<1> QED
  BY <1>1 DEF Waiting, queueVars

\* One queue becomes another.
LEMMA QueueSet ==
    ASSUME NEW w, NEW v, Later(w, v), Waiting(w), UNCHANGED queueOf, NEW q \in 1..Len(queues), NEW x,
           queues' = [queues EXCEPT ![q] = x], QueueOK(x, v)
    PROVE  Waiting(v)' /\ Len(queues') = Len(queues)
<1>1. queues \in Seq(QueueRecs) /\ x \in QueueRecs
  BY DEF Waiting, QueueOK
<1>2. /\ queues' \in Seq(QueueRecs) /\ Len(queues') = Len(queues)
      /\ queues'[q] = x /\ \A r \in 1..Len(queues) : r # q => queues'[r] = queues[r]
  BY <1>1, SeqPut
<1>3. \A r \in 1..Len(queues) : QueueOK(queues[r], v)
  BY QueueKept DEF Waiting
<1>4. \A r \in 1..Len(queues') : QueueOK(queues'[r], v)
  BY <1>2, <1>3
<1> QED
  BY <1>2, <1>4 DEF Waiting

LEMMA HandsRest ==
    ASSUME NEW w, NEW v, Later(w, v), Hands(w), UNCHANGED <<plan, hand>>
    PROVE  Hands(v)'
<1>1. \A a \in Actors : HandOK(hand[a], v)
  BY HandKept DEF Hands
<1> QED
  BY <1>1 DEF Hands, Actors

\* One handler goes on.
LEMMA HandSet ==
    ASSUME NEW w, NEW v, Later(w, v), Hands(w), UNCHANGED plan, NEW a \in Actors, NEW h, Set(a, h), HandOK(h, v)
    PROVE  Hands(v)'
<1>1. \A b \in Actors : HandOK(hand[b], v)
  BY HandKept DEF Hands
<1>2. hand = [b \in Actors |-> hand[b]]
  BY DEF Hands
<1>3. hand' = [hand EXCEPT ![a] = h]
  BY DEF Set
<1>4. hand' = [b \in Actors |-> hand'[b]] /\ hand'[a] = h /\ \A b \in Actors : b # a => hand'[b] = hand[b]
  BY <1>2, <1>3
<1>5. Actors' = Actors
  BY DEF Actors
<1> QED
  BY <1>1, <1>4, <1>5 DEF Hands

LEMMA IdleFits == \A w : HandOK(Idle, w)
BY DEF HandOK, Idle

LEMMA FeedsRest ==
    ASSUME NEW w, NEW v, Later(w, v), Feeds(w), UNCHANGED <<plan, feeds>>
    PROVE  Feeds(v)'
<1>1. \A g \in 1..plan.clients : \A i \in 1..Len(feeds[g]) : EventOK(feeds[g][i], v)
  BY EventKept DEF Feeds
<1> QED
  BY <1>1 DEF Feeds

\* The clients are told of something.
LEMMA FeedsTold ==
    ASSUME NEW w, NEW v, Later(w, v), Feeds(w), UNCHANGED plan, NEW do, NEW id, NEW m, Tell(do, id, m),
           EventOK([do |-> do, id |-> id, msg |-> m], v)
    PROVE  Feeds(v)'
<1> DEFINE e == [do |-> do, id |-> id, msg |-> m]
<1>1. \A g \in 1..plan.clients : \A i \in 1..Len(feeds[g]) : EventOK(feeds[g][i], v)
  BY EventKept DEF Feeds
<1>2. feeds \in [1..plan.clients -> Seq(Told)] /\ e \in Told
  BY DEF Feeds, EventOK
<1>3. feeds' = [g \in 1..plan.clients |-> IF g \in running THEN Append(feeds[g], e) ELSE feeds[g]]
  BY <1>2 DEF Tell
<1> HIDE DEF e
<1>4. ASSUME NEW g \in 1..plan.clients
      PROVE  feeds'[g] \in Seq(Told) /\ \A i \in 1..Len(feeds'[g]) : EventOK(feeds'[g][i], v)
  <2>1. feeds[g] \in Seq(Told)
    BY <1>2
  <2>2. /\ Append(feeds[g], e) \in Seq(Told) /\ Len(feeds[g]) \in Nat /\ Len(Append(feeds[g], e)) = Len(feeds[g]) + 1
        /\ Append(feeds[g], e)[Len(feeds[g]) + 1] = e
        /\ \A i \in 1..Len(feeds[g]) : Append(feeds[g], e)[i] = feeds[g][i]
    BY <1>2, <2>1
  <2>3. EventOK(e, v)
    BY DEF e
  <2>4. \A i \in 1..Len(Append(feeds[g], e)) : EventOK(Append(feeds[g], e)[i], v)
    <3> SUFFICES ASSUME NEW i \in 1..Len(Append(feeds[g], e))
                 PROVE  EventOK(Append(feeds[g], e)[i], v)
      OBVIOUS
    <3>1. i \in 1..Len(feeds[g]) \/ i = Len(feeds[g]) + 1
      BY <2>2
    <3> QED
      BY <1>1, <2>2, <2>3, <3>1
  <2> QED
    BY <1>1, <1>3, <2>1, <2>2, <2>4
<1> QED
  BY <1>3, <1>4 DEF Feeds

-----------------------------------------------------------------------------
(* The bridge: the steps, one by one                                          *)

Being(w) ==
    /\ w.here = here /\ w.there = there /\ w.links = lastLink /\ w.senders = Len(senders)
    /\ w.queues = Len(queues) /\ w.sole = OneHook(plan)
\* A step from the world w to the world v, which keeps the plan and the webhooks.
From(w, v) ==
    /\ Being(w) /\ Being(v)' /\ w.hooks = v.hooks /\ HooksFit(w.hooks) /\ Parts(w) /\ Settings /\ UNCHANGED plan

\* The lengths of what there is.
LEMMA Lengths ==
    ASSUME NEW w, Being(w), Parts(w)
    PROVE  /\ here \in Seq(Ours \cup {Gone}) /\ there \in Seq(Theirs \cup {Gone}) /\ senders \in Seq(Chans \cup {"gone"})
           /\ queues \in Seq(QueueRecs) /\ DOMAIN queues = 1..Len(queues) /\ DOMAIN senders = 1..Len(senders)
           /\ {Len(here), Len(there), lastLink, Len(senders), Len(queues)} \subseteq Nat
<1>1. /\ here \in Seq(Ours \cup {Gone}) /\ there \in Seq(Theirs \cup {Gone}) /\ senders \in Seq(Chans \cup {"gone"})
      /\ queues \in Seq(QueueRecs) /\ lastLink \in Nat
  BY DEF Being, Parts, Texts, Tables, Waiting
<1> QED
  BY <1>1

LEMMA SameGrows == \A a : Len(a) \in Nat => Grows(a, a)
BY DEF Grows

LEMMA AppendGrows ==
    ASSUME NEW S, NEW a \in Seq(S), NEW e \in S
    PROVE  Grows(a, Append(a, e)) /\ Append(a, e) \in Seq(S) /\ Len(Append(a, e)) = Len(a) + 1 /\ Len(a) \in Nat
           /\ Append(a, e)[Len(a) + 1] = e
<1>1. /\ Append(a, e) \in Seq(S) /\ Len(Append(a, e)) = Len(a) + 1 /\ Len(a) \in Nat /\ Append(a, e)[Len(a) + 1] = e
      /\ \A i \in 1..Len(a) : Append(a, e)[i] = a[i]
  OBVIOUS
<1> QED
  BY <1>1 DEF Grows

\* One message is replaced.
Swapped(a, i, x) == [a EXCEPT ![i] = x]
LEMMA PutGrows ==
    ASSUME NEW S, NEW a \in Seq(S), NEW i \in 1..Len(a), NEW x \in S, x # Gone => a[i] # Gone /\ x.of = a[i].of
    PROVE  /\ Grows(a, Swapped(a, i, x)) /\ Swapped(a, i, x) \in Seq(S) /\ Swapped(a, i, x)[i] = x
           /\ Len(Swapped(a, i, x)) = Len(a)
BY SeqPut DEF Grows, Swapped

\* The world after a step that keeps the plan.
LEMMA LaterIs ==
    ASSUME NEW w, NEW v, From(w, v), Grows(here, here'), Grows(there, there'),
           lastLink' \in Nat, lastLink <= lastLink', Len(senders') \in Nat, Len(senders) <= Len(senders'),
           Len(queues') \in Nat, Len(queues) <= Len(queues')
    PROVE  Later(w, v)
<1>1. {lastLink, Len(senders), Len(queues)} \subseteq Nat
  BY Lengths DEF From
<1>2. /\ w.here = here /\ w.there = there /\ w.links = lastLink /\ w.senders = Len(senders)
      /\ w.queues = Len(queues) /\ w.sole = OneHook(plan)
      /\ v.here = here' /\ v.there = there' /\ v.links = lastLink' /\ v.senders = Len(senders')
      /\ v.queues = Len(queues') /\ v.sole = OneHook(plan') /\ w.hooks = v.hooks /\ plan' = plan
  BY DEF From, Being, OneHook
<1> QED
  BY <1>1, <1>2 DEF Later

\* Old messages stay in place; what is new was carried from the other side or not at all.
LEMMA TextsKept ==
    ASSUME NEW w, NEW v, Later(w, v), Texts(w), v.here \in Seq(Ours \cup {Gone}), v.there \in Seq(Theirs \cup {Gone}),
           \A i \in 1..Len(v.here) : i > Len(w.here) /\ v.here[i] # Gone /\ v.here[i].of # 0 =>
                v.here[i].of \in 1..Len(v.there) /\ (v.sole => Own(v.there, v.here[i].of)),
           \A i \in 1..Len(v.there) : i > Len(w.there) /\ v.there[i] # Gone /\ v.there[i].of # 0 => Own(v.here, v.there[i].of)
    PROVE  Texts(v)
<1>1. /\ Grows(w.here, v.here) /\ Grows(w.there, v.there) /\ w.sole = v.sole
      /\ {Len(w.here), Len(w.there), Len(v.here), Len(v.there)} \subseteq Nat
      /\ Len(w.here) <= Len(v.here) /\ Len(w.there) <= Len(v.there)
  BY DEF Later, Grows
<1>2. ASSUME NEW i \in 1..Len(v.here), v.here[i] # Gone, v.here[i].of # 0
      PROVE  v.here[i].of \in 1..Len(v.there) /\ (v.sole => Own(v.there, v.here[i].of))
  <2>1. CASE i > Len(w.here)
    BY <1>2, <2>1
  <2>2. CASE i \in 1..Len(w.here)
    <3>1. w.here[i] # Gone /\ w.here[i].of = v.here[i].of
      BY <1>1, <1>2, <2>2 DEF Grows
    <3>2. w.here[i].of \in 1..Len(w.there) /\ (w.sole => Own(w.there, w.here[i].of))
      BY <1>2, <2>2, <3>1 DEF Texts
    <3> QED
      BY <1>1, <3>1, <3>2, OwnKept
  <2> QED
    BY <1>1, <2>1, <2>2
<1>3. ASSUME NEW i \in 1..Len(v.there), v.there[i] # Gone, v.there[i].of # 0
      PROVE  Own(v.here, v.there[i].of)
  <2>1. CASE i > Len(w.there)
    BY <1>3, <2>1
  <2>2. CASE i \in 1..Len(w.there)
    <3>1. w.there[i] # Gone /\ w.there[i].of = v.there[i].of
      BY <1>1, <1>3, <2>2 DEF Grows
    <3>2. Own(w.here, w.there[i].of)
      BY <1>3, <2>2, <3>1 DEF Texts
    <3> QED
      BY <1>1, <3>1, <3>2, OwnKept
  <2> QED
    BY <1>1, <2>1, <2>2
<1> QED
  BY <1>2, <1>3 DEF Texts

\* A step that writes nothing.
LEMMA StillWorld ==
    ASSUME NEW w, NEW v, From(w, v), UNCHANGED <<here, there, lastLink>>, Len(senders') = Len(senders), Len(queues') = Len(queues)
    PROVE  Later(w, v) /\ Texts(v) /\ w.here = v.here /\ w.there = v.there /\ w.queues = v.queues
<1>1. {Len(here), Len(there), lastLink, Len(senders), Len(queues)} \subseteq Nat
  BY Lengths DEF From
<1>2. Grows(here, here') /\ Grows(there, there')
  BY <1>1, SameGrows
<1>3. Later(w, v)
  BY <1>1, <1>2, LaterIs
<1>4. w.here = v.here /\ w.there = v.there /\ w.queues = v.queues /\ w.sole = v.sole
  BY <1>3 DEF From, Being, Later
<1> QED
  BY <1>3, <1>4 DEF From, Parts, Texts

\* A message is written here.
LEMMA HereGrows ==
    ASSUME NEW w, NEW v, From(w, v), NEW m \in Ours, here' = Append(here, m), UNCHANGED <<there, lastLink, senders>>,
           Len(queues') = Len(queues),
           m.of # 0 => m.of \in 1..Len(there) /\ (w.sole => Own(there, m.of))
    PROVE  /\ Later(w, v) /\ Texts(v) /\ v.here[Len(here) + 1] = m /\ Len(v.here) = Len(here) + 1 /\ Len(here) \in Nat
           /\ v.there = there /\ w.here = here /\ w.there = there
<1>1. /\ here \in Seq(Ours \cup {Gone}) /\ there \in Seq(Theirs \cup {Gone})
      /\ {Len(here), Len(there), lastLink, Len(senders), Len(queues)} \subseteq Nat
  BY Lengths DEF From
<1>2. /\ Grows(here, here') /\ here' \in Seq(Ours \cup {Gone}) /\ Len(here') = Len(here) + 1 /\ here'[Len(here) + 1] = m
      /\ Grows(there, there')
  BY <1>1, AppendGrows, SameGrows
<1>3. Later(w, v)
  BY <1>1, <1>2, LaterIs
<1>4. v.here = here' /\ v.there = there /\ w.here = here /\ w.there = there /\ w.sole = v.sole
  BY <1>3 DEF From, Being, Later
<1>5. \A i \in 1..Len(v.here) : i > Len(w.here) => i = Len(here) + 1
  BY <1>1, <1>2, <1>4
<1>6. \A i \in 1..Len(v.there) : ~(i > Len(w.there))
  BY <1>1, <1>4
<1>7. Texts(v)
  BY <1>1, <1>2, <1>3, <1>4, <1>5, <1>6, TextsKept DEF From, Parts
<1> QED
  BY <1>1, <1>2, <1>3, <1>4, <1>7

\* A message here is edited or goes.
LEMMA HereSet ==
    ASSUME NEW w, NEW v, From(w, v), NEW i \in 1..Len(here), NEW m \in Ours \cup {Gone}, here' = Swapped(here, i, m),
           UNCHANGED <<there, lastLink, senders>>, Len(queues') = Len(queues),
           m # Gone => here[i] # Gone /\ m.of = here[i].of
    PROVE  Later(w, v) /\ Texts(v) /\ i \in 1..Len(v.here) /\ here'[i] = m /\ w.here = here
<1>1. /\ here \in Seq(Ours \cup {Gone}) /\ there \in Seq(Theirs \cup {Gone})
      /\ {Len(here), Len(there), lastLink, Len(senders), Len(queues)} \subseteq Nat
  BY Lengths DEF From
<1>2. /\ Grows(here, here') /\ here' \in Seq(Ours \cup {Gone}) /\ Len(here') = Len(here) /\ here'[i] = m
      /\ Grows(there, there')
  BY <1>1, PutGrows, SameGrows
<1>3. Later(w, v)
  BY <1>1, <1>2, LaterIs
<1>4. v.here = here' /\ v.there = there /\ w.here = here /\ w.there = there
  BY DEF From, Being
<1>5. /\ \A j \in 1..Len(v.here) : ~(j > Len(w.here))
      /\ \A j \in 1..Len(v.there) : ~(j > Len(w.there))
  BY <1>1, <1>2, <1>4
<1>6. Texts(v)
  BY <1>1, <1>2, <1>3, <1>4, <1>5, TextsKept DEF From, Parts
<1> QED
  BY <1>1, <1>2, <1>3, <1>4, <1>6

\* The same on Discord.
LEMMA ThereGrows ==
    ASSUME NEW w, NEW v, From(w, v), NEW m \in Theirs, there' = Append(there, m), UNCHANGED <<here, lastLink, senders>>,
           Len(queues') = Len(queues), m.of # 0 => Own(here, m.of)
    PROVE  /\ Later(w, v) /\ Texts(v) /\ v.there[Len(there) + 1] = m /\ Len(v.there) = Len(there) + 1 /\ Len(there) \in Nat
           /\ v.here = here /\ w.here = here /\ w.there = there
<1>1. /\ here \in Seq(Ours \cup {Gone}) /\ there \in Seq(Theirs \cup {Gone})
      /\ {Len(here), Len(there), lastLink, Len(senders), Len(queues)} \subseteq Nat
  BY Lengths DEF From
<1>2. /\ Grows(there, there') /\ there' \in Seq(Theirs \cup {Gone}) /\ Len(there') = Len(there) + 1
      /\ there'[Len(there) + 1] = m /\ Grows(here, here')
  BY <1>1, AppendGrows, SameGrows
<1>3. Later(w, v)
  BY <1>1, <1>2, LaterIs
<1>4. v.here = here /\ v.there = there' /\ w.here = here /\ w.there = there /\ w.sole = v.sole
  BY <1>3 DEF From, Being, Later
<1>5. \A i \in 1..Len(v.there) : i > Len(w.there) => i = Len(there) + 1
  BY <1>1, <1>2, <1>4
<1>6. \A i \in 1..Len(v.here) : ~(i > Len(w.here))
  BY <1>1, <1>4
<1>7. Texts(v)
  BY <1>1, <1>2, <1>3, <1>4, <1>5, <1>6, TextsKept DEF From, Parts
<1> QED
  BY <1>1, <1>2, <1>3, <1>4, <1>7

LEMMA ThereSet ==
    ASSUME NEW w, NEW v, From(w, v), NEW i \in 1..Len(there), NEW m \in Theirs \cup {Gone},
           there' = Swapped(there, i, m), UNCHANGED <<here, lastLink, senders>>, Len(queues') = Len(queues),
           m # Gone => there[i] # Gone /\ m.of = there[i].of
    PROVE  Later(w, v) /\ Texts(v) /\ i \in 1..Len(v.there) /\ there'[i] = m /\ w.there = there
<1>1. /\ here \in Seq(Ours \cup {Gone}) /\ there \in Seq(Theirs \cup {Gone})
      /\ {Len(here), Len(there), lastLink, Len(senders), Len(queues)} \subseteq Nat
  BY Lengths DEF From
<1>2. /\ Grows(there, there') /\ there' \in Seq(Theirs \cup {Gone}) /\ Len(there') = Len(there) /\ there'[i] = m
      /\ Grows(here, here')
  BY <1>1, PutGrows, SameGrows
<1>3. Later(w, v)
  BY <1>1, <1>2, LaterIs
<1>4. v.here = here /\ v.there = there' /\ w.here = here /\ w.there = there
  BY DEF From, Being
<1>5. /\ \A j \in 1..Len(v.here) : ~(j > Len(w.here))
      /\ \A j \in 1..Len(v.there) : ~(j > Len(w.there))
  BY <1>1, <1>2, <1>4
<1>6. Texts(v)
  BY <1>1, <1>2, <1>3, <1>4, <1>5, TextsKept DEF From, Parts
<1> QED
  BY <1>1, <1>2, <1>3, <1>4, <1>6

\* Members write, edit and delete.
LEMMA WriteStep ==
    ASSUME NEW w, NEW v, From(w, v), NEW a \in Actors, Write(a)
    PROVE  Parts(v)'
<1> DEFINE m == [chan |-> plan.chan, ver |-> 0, sender |-> 0, of |-> 0]
           h == [at |-> "stored", do |-> "out", id |-> Len(here) + 1, msg |-> m]
<1>1. /\ here' = Append(here, m) /\ Set(a, h)
      /\ UNCHANGED <<there, feeds, rows, lastLink, senders, cached, pairs, queueOf, queues, plan>>
  BY DEF Write, Stored, linkVars, rowVars, queueVars
<1>2. m \in Ours /\ m.of = 0
  BY BridgeFits DEF From, Settings, Ours, Chans
<1> HIDE DEF m
<1>3. /\ Later(w, v) /\ Texts(v) /\ v.here[Len(here) + 1] = m /\ Len(v.here) = Len(here) + 1 /\ Len(here) \in Nat
  BY <1>1, <1>2, HereGrows
<1>4. Own(v.here, Len(here) + 1)
  BY <1>2, <1>3 DEF Own
<1>5. HandOK(h, v)
  BY <1>2, <1>3, <1>4 DEF HandOK, Outs
<1>6. Hands(v)'
  BY <1>1, <1>3, <1>5, HandSet DEF From, Parts
<1> QED
  BY <1>1, <1>3, <1>6, TablesRest, PairedRest, WaitingRests, FeedsRest DEF From, Parts, queueVars, Texts

LEMMA EditStep ==
    ASSUME NEW w, NEW v, From(w, v), NEW a \in Actors, Edit(a)
    PROVE  Parts(v)'
<1>1. PICK id \in 1..Len(here) :
        /\ here[id] # Gone /\ here[id].sender = 0
        /\ here' = [here EXCEPT ![id].ver = @ + 1]
        /\ Stored(a, "outEdit", id, here'[id])
  BY DEF Edit
<1>2. UNCHANGED <<there, feeds, rows, lastLink, senders, cached, pairs, queueOf, queues, plan>>
  BY DEF Edit, linkVars, rowVars, queueVars
<1> DEFINE m == [here[id] EXCEPT !.ver = @ + 1]
           h == [at |-> "stored", do |-> "outEdit", id |-> id, msg |-> m]
<1>3. here[id] \in Ours
  BY <1>1, Lengths DEF From
<1>4. m \in Ours /\ m.of = here[id].of /\ here' = Swapped(here, id, m)
  BY <1>1, <1>3 DEF Ours, Swapped
<1> HIDE DEF m
<1>5. Later(w, v) /\ Texts(v) /\ id \in 1..Len(v.here) /\ here'[id] = m
  BY <1>1, <1>2, <1>4, HereSet
<1>6. HandOK(h, v) /\ Set(a, h)
  BY <1>1, <1>4, <1>5 DEF HandOK, Outs, Stored
<1>7. Hands(v)'
  BY <1>2, <1>5, <1>6, HandSet DEF From, Parts
<1> QED
  BY <1>2, <1>5, <1>7, TablesRest, PairedRest, WaitingRests, FeedsRest DEF From, Parts, queueVars, Texts

LEMMA DeleteStep ==
    ASSUME NEW w, NEW v, From(w, v), NEW a \in Actors, Delete(a)
    PROVE  Parts(v)'
<1>1. PICK id \in 1..Len(here) :
        here[id] # Gone /\ here' = [here EXCEPT ![id] = Gone] /\ Stored(a, "outDelete", id, here[id])
  BY DEF Delete
<1>2. UNCHANGED <<there, feeds, rows, lastLink, senders, cached, pairs, queueOf, queues, plan>>
  BY DEF Delete, linkVars, rowVars, queueVars
<1> DEFINE h == [at |-> "stored", do |-> "outDelete", id |-> id, msg |-> here[id]]
<1>3. here[id] \in Ours
  BY <1>1, Lengths DEF From
<1>4. Later(w, v) /\ Texts(v) /\ id \in 1..Len(v.here)
  BY <1>1, <1>2, HereSet DEF Swapped
<1>5. HandOK(h, v) /\ Set(a, h)
  BY <1>1, <1>3, <1>4 DEF HandOK, Outs, Stored
<1>6. Hands(v)'
  BY <1>2, <1>4, <1>5, HandSet DEF From, Parts
<1> QED
  BY <1>2, <1>4, <1>6, TablesRest, PairedRest, WaitingRests, FeedsRest DEF From, Parts, queueVars, Texts

\* People on Discord do.
LEMMA SayStep ==
    ASSUME NEW w, NEW v, From(w, v), Say
    PROVE  Parts(v)'
<1>1. PICK f \in BOOLEAN, place \in {l.place : l \in rows} :
        LET m == [place |-> place, ver |-> 0, hook |-> "none", of |-> 0, file |-> f]
        IN  there' = Append(there, m) /\ Tell("in", Len(there) + 1, m)
  BY DEF Say
<1> DEFINE m == [place |-> place, ver |-> 0, hook |-> "none", of |-> 0, file |-> f]
<1>2. UNCHANGED <<here, rows, lastLink, senders, cached, pairs, queueOf, queues, plan, hand>>
  BY DEF Say, linkVars, rowVars, queueVars
<1>3. place \in Places
  BY <1>1 DEF From, Parts, Tables, LinkOK, LinkRecs
<1>4. m \in Theirs /\ m.of = 0
  BY <1>3 DEF Theirs
<1>5. there' = Append(there, m) /\ Tell("in", Len(there) + 1, m)
  BY <1>1
<1> HIDE DEF m
<1>6. Later(w, v) /\ Texts(v) /\ v.there[Len(there) + 1] = m /\ Len(v.there) = Len(there) + 1 /\ Len(there) \in Nat
  BY <1>2, <1>4, <1>5, ThereGrows
<1>7. EventOK([do |-> "in", id |-> Len(there) + 1, msg |-> m], v)
  BY <1>4, <1>6 DEF EventOK, Told, Ins
<1>8. Feeds(v)'
  BY <1>2, <1>5, <1>6, <1>7, FeedsTold DEF From, Parts
<1> QED
  BY <1>2, <1>6, <1>8, TablesRest, PairedRest, WaitingRests, HandsRest DEF From, Parts, queueVars, Texts

LEMMA AmendStep ==
    ASSUME NEW w, NEW v, From(w, v), Amend
    PROVE  Parts(v)'
<1>1. PICK id \in 1..Len(there) :
        /\ there[id] # Gone
        /\ there' = [there EXCEPT ![id].ver = @ + 1] /\ Tell("inEdit", id, there'[id])
  BY DEF Amend
<1>2. UNCHANGED <<here, rows, lastLink, senders, cached, pairs, queueOf, queues, plan, hand>>
  BY DEF Amend, linkVars, rowVars, queueVars
<1> DEFINE m == [there[id] EXCEPT !.ver = @ + 1]
<1>3. there[id] \in Theirs
  BY <1>1, Lengths DEF From
<1>4. m \in Theirs /\ m.of = there[id].of /\ there' = Swapped(there, id, m)
  BY <1>1, <1>3 DEF Theirs, Swapped
<1> HIDE DEF m
<1>5. Later(w, v) /\ Texts(v) /\ id \in 1..Len(v.there) /\ there'[id] = m
  BY <1>1, <1>2, <1>4, ThereSet
<1>6. EventOK([do |-> "inEdit", id |-> id, msg |-> m], v)
  BY <1>4, <1>5 DEF EventOK, Told, Ins
<1>7. Feeds(v)'
  BY <1>1, <1>2, <1>5, <1>6, FeedsTold DEF From, Parts
<1> QED
  BY <1>2, <1>5, <1>7, TablesRest, PairedRest, WaitingRests, HandsRest DEF From, Parts, queueVars, Texts

LEMMA WithdrawStep ==
    ASSUME NEW w, NEW v, From(w, v), Withdraw
    PROVE  Parts(v)'
<1>1. PICK id \in 1..Len(there) :
        /\ there[id] # Gone
        /\ there' = [there EXCEPT ![id] = Gone] /\ Tell("inDelete", id, there[id])
  BY DEF Withdraw
<1>2. UNCHANGED <<here, rows, lastLink, senders, cached, pairs, queueOf, queues, plan, hand>>
  BY DEF Withdraw, linkVars, rowVars, queueVars
<1>3. there[id] \in Theirs
  BY <1>1, Lengths DEF From
<1>4. Later(w, v) /\ Texts(v) /\ id \in 1..Len(v.there)
  BY <1>1, <1>2, ThereSet DEF Swapped
<1>5. EventOK([do |-> "inDelete", id |-> id, msg |-> there[id]], v)
  BY <1>3, <1>4 DEF EventOK, Told, Ins
<1>6. Feeds(v)'
  BY <1>1, <1>2, <1>4, <1>5, FeedsTold DEF From, Parts
<1> QED
  BY <1>2, <1>4, <1>6, TablesRest, PairedRest, WaitingRests, HandsRest DEF From, Parts, queueVars, Texts

\* A handler looks for the link a message crosses by.
LEMMA LookStep ==
    ASSUME NEW w, NEW v, From(w, v), NEW a \in Actors, Look(a)
    PROVE  Parts(v)'
<1> DEFINE job == [do |-> hand[a].do, id |-> hand[a].id, msg |-> hand[a].msg]
<1>1. /\ hand[a].at = "stored"
      /\ UNCHANGED <<here, there, feeds, rows, lastLink, senders, cached, pairs, queueOf, queues, plan>>
  BY DEF Look, linkVars, rowVars, queueVars, textVars
<1>2. Set(a, Idle) \/ \E l \in cached : Set(a, [at |-> "linked", link |-> l, job |-> job])
  BY DEF Look
<1>3. Later(w, v) /\ Texts(v) /\ w.here = v.here /\ w.there = v.there
  BY <1>1, StillWorld
<1>4. HandOK(hand[a], v)
  BY <1>3, HandKept DEF From, Parts, Hands
<1>5. job \in Carried /\ JobOK(job, v)
  <2>1. /\ hand[a].do \in Outs /\ hand[a].id \in 1..Len(v.here) /\ hand[a].msg \in Ours
        /\ hand[a].do = "out" => Own(v.here, hand[a].id)
    BY <1>1, <1>4 DEF HandOK
  <2> QED
    BY <2>1 DEF JobOK, Carried, Outs, Ins, Jobs
<1> HIDE DEF job
<1>6. ASSUME NEW l \in cached
      PROVE  HandOK([at |-> "linked", link |-> l, job |-> job], v)
  <2>1. LinkOK(l, v)
    BY <1>3, LinkKept DEF From, Parts, Tables
  <2> QED
    BY <1>5, <2>1 DEF HandOK
<1>7. Hands(v)'
  <2>1. CASE Set(a, Idle)
    BY <1>1, <1>3, <2>1, IdleFits, HandSet DEF From, Parts
  <2>2. ASSUME NEW l \in cached, Set(a, [at |-> "linked", link |-> l, job |-> job])
        PROVE  Hands(v)'
    BY <1>1, <1>3, <1>6, <2>2, HandSet DEF From, Parts
  <2> QED
    BY <1>2, <2>1, <2>2
<1> QED
  BY <1>1, <1>3, <1>7, TablesRest, PairedRest, WaitingRests, FeedsRest DEF From, Parts, queueVars, Texts

\* A webhook in use is recognised by the link of the channel it posts into: the guard
\* against echoes.
LEMMA EchoIs ==
    ASSUME NEW w, HooksFit(w.hooks), w.sole = OneHook(plan), w.sole, NEW l, LinkOK(l, w),
           NEW h \in w.hooks, l.place = PlaceOf[h]
    PROVE  h = l.hook
BY PlaceIs DEF HooksFit, LinkOK

LEMMA ReadStep ==
    ASSUME NEW w, NEW v, From(w, v), NEW a \in Actors, Read(a)
    PROVE  Parts(v)'
<1> DEFINE g == a[2]
           e == Head(feeds[g])
<1>1. /\ Ready(a, "loop") /\ feeds[g] # <<>> /\ feeds' = [feeds EXCEPT ![g] = Tail(@)]
      /\ UNCHANGED <<here, there, rows, lastLink, senders, cached, pairs, queueOf, queues, plan>>
  BY DEF Read, linkVars, rowVars, queueVars
<1>2. UNCHANGED hand \/ \E l \in cached : l.place = e.msg.place /\ Wanted(e, l) /\ Set(a, [at |-> "linked", link |-> l, job |-> e])
  BY DEF Read
<1>3. Later(w, v) /\ Texts(v) /\ w.here = v.here /\ w.there = v.there
  BY <1>1, StillWorld
<1>4. g \in 1..plan.clients
  BY <1>1 DEF Actors, Ready
<1>5. feeds \in [1..plan.clients -> Seq(Told)] /\ \A i \in 1..Len(feeds[g]) : EventOK(feeds[g][i], v)
  BY <1>3, <1>4, EventKept DEF From, Parts, Feeds
<1>6. feeds[g] \in Seq(Told)
  BY <1>4, <1>5
<1>7. /\ e = feeds[g][1] /\ Tail(feeds[g]) \in Seq(Told) /\ Len(feeds[g]) \in Nat /\ Len(feeds[g]) >= 1
      /\ Len(Tail(feeds[g])) = Len(feeds[g]) - 1
      /\ \A i \in 1..(Len(feeds[g]) - 1) : Tail(feeds[g])[i] = feeds[g][i + 1]
  BY <1>1, <1>6, TailIs
<1>8. EventOK(e, v)
  BY <1>5, <1>7
<1>9. Feeds(v)'
  <2>1. \A i \in 1..Len(Tail(feeds[g])) : EventOK(Tail(feeds[g])[i], v)
    <3> SUFFICES ASSUME NEW i \in 1..Len(Tail(feeds[g]))
                 PROVE  EventOK(Tail(feeds[g])[i], v)
      OBVIOUS
    <3>1. i \in 1..(Len(feeds[g]) - 1) /\ i + 1 \in 1..Len(feeds[g])
      BY <1>7
    <3> QED
      BY <1>5, <1>7, <3>1
  <2>2. ASSUME NEW f \in 1..plan.clients
        PROVE  \A i \in 1..Len(feeds'[f]) : EventOK(feeds'[f][i], v)
    <3>1. CASE f = g
      BY <1>1, <1>5, <2>1, <3>1
    <3>2. CASE f # g
      <4>1. feeds'[f] = feeds[f]
        BY <1>1, <1>5, <3>2
      <4>2. \A i \in 1..Len(feeds[f]) : EventOK(feeds[f][i], v)
        BY <1>3, EventKept DEF From, Parts, Feeds
      <4> QED
        BY <4>1, <4>2
    <3> QED
      BY <3>1, <3>2
  <2>3. feeds' \in [1..plan.clients -> Seq(Told)] /\ plan' = plan
    BY <1>1, <1>5, <1>7
  <2> QED
    BY <2>2, <2>3 DEF Feeds
<1> HIDE DEF e
<1>10. ASSUME NEW l \in cached, l.place = e.msg.place, Wanted(e, l)
       PROVE  HandOK([at |-> "linked", link |-> l, job |-> e], v)
  <2>1. LinkOK(l, v)
    BY <1>3, LinkKept DEF From, Parts, Tables
  <2>2. e \in Told /\ e.id \in 1..Len(v.there) /\ e.do \in Ins
    BY <1>8 DEF EventOK, Told
  <2>3. ASSUME e.do = "in", v.sole
        PROVE  e.msg.of = 0
    <3>1. e.msg.hook # l.hook
      BY <1>10, <2>3 DEF Wanted, IsOwnEcho, OwnWebhooks
    <3>2. HooksFit(v.hooks) /\ v.sole = OneHook(plan)
      BY <1>3 DEF From, Being, Later
    <3>3. e.msg.of # 0 => e.msg.hook \in v.hooks /\ e.msg.place = PlaceOf[e.msg.hook]
      BY <1>8, <2>3 DEF EventOK
    <3> QED
      BY <1>10, <2>1, <2>3, <3>1, <3>2, <3>3, EchoIs
  <2>4. JobOK(e, v)
    BY <1>8, <2>2, <2>3 DEF JobOK, EventOK, Own, Ins, Outs
  <2>5. e \in Carried
    BY <2>2 DEF Told, Carried, Ins, Jobs
  <2> QED
    BY <2>1, <2>4, <2>5 DEF HandOK
<1>11. Hands(v)'
  <2>1. CASE UNCHANGED hand
    BY <1>1, <1>3, <2>1, HandsRest DEF From, Parts
  <2>2. ASSUME NEW l \in cached, l.place = e.msg.place, Wanted(e, l), Set(a, [at |-> "linked", link |-> l, job |-> e])
        PROVE  Hands(v)'
    BY <1>1, <1>3, <1>10, <2>2, HandSet DEF From, Parts
  <2> QED
    BY <1>2, <2>1, <2>2
<1> QED
  BY <1>1, <1>3, <1>9, <1>11, TablesRest, PairedRest, WaitingRests DEF From, Parts, queueVars, Texts

\* A handler takes the queue of a link and puts a delivery on it.
LEMMA NewQueueFits == \A w : QueueOK(NewQueue, w)
<1> TAKE w
<1>1. NewQueue \in QueueRecs
  BY DEF NewQueue, QueueRecs
<1>2. Len(NewQueue.jobs) = 0 /\ NewQueue.doing = Idle
  BY DEF NewQueue
<1>3. Idle \notin Works
  BY DEF Idle, Works
<1> QED
  BY <1>1, <1>2, <1>3 DEF QueueOK, WorkOK

LEMMA TakeStep ==
    ASSUME NEW w, NEW v, From(w, v), NEW a \in Actors, Take(a)
    PROVE  Parts(v)'
<1> DEFINE id == hand[a].link.id
           known == id \in DOMAIN queueOf
           q == IF known THEN queueOf[id] ELSE Len(queues) + 1
           h == [at |-> "taken", queue |-> q, link |-> hand[a].link, job |-> hand[a].job]
<1>1. /\ hand[a].at = "linked" /\ queueOf' = [k \in DOMAIN queueOf \cup {id} |-> IF k = id THEN q ELSE queueOf[k]]
      /\ queues' = IF known THEN queues ELSE Append(queues, NewQueue)
      /\ Set(a, h)
      /\ UNCHANGED <<here, there, feeds, rows, lastLink, senders, cached, pairs, plan>>
  BY DEF Take, linkVars, rowVars, textVars
<1>2. /\ here \in Seq(Ours \cup {Gone}) /\ there \in Seq(Theirs \cup {Gone}) /\ queues \in Seq(QueueRecs)
      /\ {Len(here), Len(there), lastLink, Len(senders), Len(queues)} \subseteq Nat
  BY Lengths DEF From
<1>3. NewQueue \in QueueRecs
  BY NewQueueFits DEF QueueOK
<1>4. /\ queues' \in Seq(QueueRecs) /\ Len(queues') \in Nat /\ Len(queues) <= Len(queues')
      /\ \A r \in 1..Len(queues) : queues'[r] = queues[r]
      /\ \A r \in 1..Len(queues') : r \in 1..Len(queues) \/ queues'[r] = NewQueue
  <2>1. CASE known
    BY <1>1, <1>2, <2>1
  <2>2. CASE ~known
    BY <1>1, <1>2, <1>3, <2>2
  <2> QED
    BY <2>1, <2>2
<1>5. q \in 1..Len(queues')
  <2>1. CASE known
    BY <1>1, <1>2, <2>1 DEF From, Parts, Waiting
  <2>2. CASE ~known
    BY <1>1, <1>2, <1>3, <2>2
  <2> QED
    BY <2>1, <2>2
<1>6. \A l \in DOMAIN queueOf' : queueOf'[l] = q \/ (l \in DOMAIN queueOf /\ queueOf'[l] = queueOf[l])
  BY <1>1
<1> HIDE DEF q
<1>7. Later(w, v)
  <2>1. Grows(here, here') /\ Grows(there, there')
    BY <1>1, <1>2, SameGrows
  <2> QED
    BY <1>1, <1>2, <1>4, <2>1, LaterIs
<1>8. Texts(v) /\ v.here = w.here /\ v.there = w.there /\ v.queues = Len(queues')
  <2>1. v.here = w.here /\ v.there = w.there /\ v.sole = w.sole /\ v.queues = Len(queues')
    BY <1>1, <1>7 DEF From, Being, Later
  <2> QED
    BY <2>1 DEF From, Parts, Texts
<1>9. Waiting(v)'
  <2>1. \A r \in 1..Len(queues) : QueueOK(queues[r], v)
    BY <1>7, QueueKept DEF From, Parts, Waiting
  <2>2. \A r \in 1..Len(queues') : QueueOK(queues'[r], v)
    BY <1>4, <2>1, NewQueueFits
  <2>3. \A l \in DOMAIN queueOf : queueOf[l] \in 1..Len(queues')
    BY <1>2, <1>4 DEF From, Parts, Waiting
  <2>4. \A l \in DOMAIN queueOf' : queueOf'[l] \in 1..Len(queues')
    BY <1>5, <1>6, <2>3
  <2> QED
    BY <1>4, <2>2, <2>4 DEF Waiting
<1>10. HandOK(h, v)
  <2>1. HandOK(hand[a], v)
    BY <1>7, HandKept DEF From, Parts, Hands
  <2>2. LinkOK(hand[a].link, v) /\ hand[a].job \in Carried /\ JobOK(hand[a].job, v)
    BY <1>1, <2>1 DEF HandOK
  <2> QED
    BY <1>5, <1>8, <2>2 DEF HandOK
<1>11. Hands(v)'
  BY <1>1, <1>7, <1>10, HandSet DEF From, Parts
<1> QED
  BY <1>1, <1>7, <1>8, <1>9, <1>11, TablesRest, PairedRest, FeedsRest DEF From, Parts, Texts

LEMMA PutStep ==
    ASSUME NEW w, NEW v, From(w, v), NEW a \in Actors, Put(a)
    PROVE  Parts(v)'
<1> DEFINE q == hand[a].queue
           e == hand[a].job
           job == [link |-> hand[a].link, do |-> e.do, id |-> e.id, msg |-> e.msg]
<1>1. /\ hand[a].at = "taken" /\ Set(a, Idle)
      /\ queues' = IF Len(queues[q].jobs) < plan.depth THEN [queues EXCEPT ![q].jobs = Append(@, job)] ELSE queues
      /\ UNCHANGED <<here, there, feeds, rows, lastLink, senders, cached, pairs, queueOf, plan>>
  BY DEF Put, linkVars, rowVars, textVars, Queued
<1>2. /\ queues \in Seq(QueueRecs) /\ Len(queues) \in Nat
  BY Lengths DEF From
<1>3. HandOK(hand[a], w)
  BY DEF From, Parts, Hands
<1>4. q \in 1..Len(queues) /\ LinkOK(hand[a].link, w) /\ hand[a].job \in Carried /\ JobOK(hand[a].job, w)
  BY <1>1, <1>3 DEF HandOK, From, Being
<1>5. DeliveryOK(job, w)
  <2>1. hand[a].link \in LinkRecs
    BY <1>4 DEF LinkOK
  <2>2. e.do \in Jobs /\ e.id \in Nat /\ e.msg \in Ours \cup Theirs
    BY <1>4 DEF Carried
  <2> QED
    BY <1>4, <2>1, <2>2 DEF DeliveryOK, Deliveries, JobOK
<1> HIDE DEF job, e
<1> DEFINE x == [queues[q] EXCEPT !.jobs = Append(queues[q].jobs, job)]
<1>6. QueueOK(queues[q], w) /\ queues[q] \in QueueRecs
  BY <1>2, <1>4 DEF From, Parts, Waiting, QueueOK
<1>7. QueueOK(x, w)
  <2>1. queues[q].jobs \in Seq(Deliveries) /\ job \in Deliveries
    BY <1>5, <1>6 DEF QueueRecs, DeliveryOK
  <2>0. Append(queues[q].jobs, job) \in Seq(Deliveries)
    BY <2>1
  <2>2. x \in QueueRecs /\ x.jobs = Append(queues[q].jobs, job) /\ x.doing = queues[q].doing
    BY <1>6, <2>0 DEF QueueRecs
  <2>3. /\ Len(x.jobs) = Len(queues[q].jobs) + 1 /\ Len(queues[q].jobs) \in Nat /\ x.jobs[Len(queues[q].jobs) + 1] = job
        /\ \A i \in 1..Len(queues[q].jobs) : x.jobs[i] = queues[q].jobs[i]
    BY <2>1, <2>2
  <2>4. \A i \in 1..Len(x.jobs) : i \in 1..Len(queues[q].jobs) \/ i = Len(queues[q].jobs) + 1
    BY <2>3
  <2>5. \A i \in 1..Len(x.jobs) : DeliveryOK(x.jobs[i], w)
    BY <1>5, <1>6, <2>3, <2>4 DEF QueueOK
  <2> QED
    BY <1>6, <2>2, <2>5 DEF QueueOK
<1>8. queues' = queues \/ queues' = [queues EXCEPT ![q] = x]
  BY <1>1
<1> HIDE DEF x
<1>9. Len(queues') = Len(queues)
  BY <1>2, <1>4, <1>7, <1>8, SeqPut DEF QueueOK
<1>10. Later(w, v) /\ Texts(v)
  BY <1>1, <1>9, StillWorld
<1>11. Waiting(v)'
  <2>1. CASE queues' = queues
    BY <1>1, <1>10, <2>1, WaitingRests DEF From, Parts, queueVars
  <2>2. CASE queues' = [queues EXCEPT ![q] = x]
    BY <1>1, <1>4, <1>7, <1>10, <2>2, QueueKept, QueueSet DEF From, Parts
  <2> QED
    BY <1>8, <2>1, <2>2
<1>12. Hands(v)'
  BY <1>1, <1>10, IdleFits, HandSet DEF From, Parts
<1> QED
  BY <1>1, <1>10, <1>11, <1>12, TablesRest, PairedRest, FeedsRest DEF From, Parts, Texts

-----------------------------------------------------------------------------
(* The bridge: the worker of a queue                                          *)

\* What a worker does, of a queue that fits.
LEMMA WorkIs ==
    ASSUME NEW w, NEW x, QueueOK(x, w), x.doing.at \notin {"idle", "left"}
    PROVE  /\ x.doing \in Works /\ x \in QueueRecs /\ DeliveryOK(x.doing.job, w) /\ \A l \in x.doing.links : LinkOK(l, w)
           /\ x.doing.at = "executed" => x.doing.made \in 1..Len(w.there) /\ x.doing.job.do = "out"
           /\ x.doing.at = "written" => x.doing.made \in 1..Len(w.here) /\ x.doing.job.do = "in"
<1>1. x.doing \in Works \cup {Idle, Left}
  BY DEF QueueOK, QueueRecs
<1>2. Idle.at = "idle" /\ Left.at = "left"
  BY DEF Idle, Left
<1>3. x.doing \in Works
  BY <1>1, <1>2
<1> QED
  BY <1>3 DEF QueueOK, WorkOK

\* A queue with something else in its worker's hands.
LEMMA WorkSet ==
    ASSUME NEW w, NEW x, QueueOK(x, w), NEW d \in Works \cup {Idle, Left}, WorkOK(d, w)
    PROVE  QueueOK([x EXCEPT !.doing = d], w)
<1>1. x \in QueueRecs
  BY DEF QueueOK
<1>2. [x EXCEPT !.doing = d] \in QueueRecs /\ [x EXCEPT !.doing = d].jobs = x.jobs /\ [x EXCEPT !.doing = d].doing = d
  BY <1>1 DEF QueueRecs
<1> QED
  BY <1>2 DEF QueueOK

LEMMA RestFits == \A w : WorkOK(Idle, w) /\ WorkOK(Left, w)
BY DEF WorkOK, Works, Idle, Left

\* Whatever a step does with one queue, there are as many as before.
LEMMA SameLength ==
    ASSUME NEW w, Parts(w), Being(w), NEW q \in 1..Len(queues), NEW x, queues' = [queues EXCEPT ![q] = x], x \in QueueRecs
    PROVE  Len(queues') = Len(queues)
BY Lengths, SeqPut

LEMMA DoingLength ==
    ASSUME NEW w, Parts(w), Being(w), NEW q \in 1..Len(queues), NEW d \in Works \cup {Idle, Left},
           queues' = [queues EXCEPT ![q].doing = d]
    PROVE  Len(queues') = Len(queues)
<1>1. queues[q] \in QueueRecs
  BY Lengths
<1>2. [queues[q] EXCEPT !.doing = d] \in QueueRecs
  BY <1>1 DEF QueueRecs
<1>3. queues' = [queues EXCEPT ![q] = [queues[q] EXCEPT !.doing = d]]
  OBVIOUS
<1> QED
  BY <1>2, <1>3, SameLength

\* A worker goes on to something that fits.
LEMMA DoingSet ==
    ASSUME NEW w, NEW v, Later(w, v), Waiting(w), UNCHANGED queueOf, NEW q \in 1..Len(queues),
           NEW d \in Works \cup {Idle, Left}, WorkOK(d, v), queues' = [queues EXCEPT ![q].doing = d]
    PROVE  Waiting(v)'
<1>1. QueueOK(queues[q], v)
  BY QueueKept DEF Waiting
<1>2. QueueOK([queues[q] EXCEPT !.doing = d], v)
  BY <1>1, WorkSet
<1>3. queues' = [queues EXCEPT ![q] = [queues[q] EXCEPT !.doing = d]]
  OBVIOUS
<1> QED
  BY <1>2, <1>3, QueueSet

LEMMA TakeJobStep ==
    ASSUME NEW w, NEW v, From(w, v), NEW q \in 1..Len(queues), TakeJob(q)
    PROVE  Parts(v)'
<1> DEFINE d == [at |-> "start", job |-> Head(queues[q].jobs), tries |-> 0, made |-> 0, sender |-> 0, links |-> {}]
           x == [queues[q] EXCEPT !.doing = d, !.jobs = Tail(queues[q].jobs)]
<1>1. /\ queues[q].jobs # <<>> /\ queues' = [queues EXCEPT ![q] = x]
      /\ UNCHANGED <<here, there, feeds, rows, lastLink, senders, cached, pairs, queueOf, plan, hand>>
  BY DEF TakeJob, linkVars, rowVars, textVars
<1>2. QueueOK(queues[q], w) /\ queues[q] \in QueueRecs
  BY DEF From, Parts, Waiting, QueueOK
<1>3. queues[q].jobs \in Seq(Deliveries)
  BY <1>2 DEF QueueRecs
<1>4. /\ Head(queues[q].jobs) = queues[q].jobs[1] /\ queues[q].jobs[1] \in Deliveries
      /\ Tail(queues[q].jobs) \in Seq(Deliveries) /\ Len(queues[q].jobs) \in Nat
      /\ Len(queues[q].jobs) >= 1 /\ Len(Tail(queues[q].jobs)) = Len(queues[q].jobs) - 1
      /\ \A i \in 1..(Len(queues[q].jobs) - 1) : Tail(queues[q].jobs)[i] = queues[q].jobs[i + 1]
  BY <1>1, <1>3, TailIs
<1>5. d \in Works /\ WorkOK(d, w)
  <2>1. d \in Works
    BY <1>4 DEF Works
  <2>2. DeliveryOK(d.job, w)
    BY <1>2, <1>4 DEF QueueOK
  <2> QED
    BY <2>1, <2>2 DEF WorkOK
<1> HIDE DEF d
<1>6. x \in QueueRecs /\ x.jobs = Tail(queues[q].jobs) /\ x.doing = d
  BY <1>2, <1>4, <1>5 DEF QueueRecs
<1>7. \A i \in 1..Len(Tail(queues[q].jobs)) : DeliveryOK(Tail(queues[q].jobs)[i], w)
  <2> SUFFICES ASSUME NEW i \in 1..Len(Tail(queues[q].jobs))
               PROVE  DeliveryOK(Tail(queues[q].jobs)[i], w)
    OBVIOUS
  <2>1. i \in 1..(Len(queues[q].jobs) - 1) /\ i + 1 \in 1..Len(queues[q].jobs)
    BY <1>4
  <2> QED
    BY <1>2, <1>4, <2>1 DEF QueueOK
<1>8. QueueOK(x, w)
  BY <1>5, <1>6, <1>7 DEF QueueOK
<1> HIDE DEF x
<1>9. Len(queues') = Len(queues)
  BY <1>1, <1>6, SameLength DEF From
<1>10. Later(w, v) /\ Texts(v)
  BY <1>1, <1>9, StillWorld
<1>11. Waiting(v)'
  BY <1>1, <1>8, <1>10, QueueKept, QueueSet DEF From, Parts
<1> QED
  BY <1>1, <1>10, <1>11, TablesRest, PairedRest, HandsRest, FeedsRest DEF From, Parts, Texts

LEMMA LeaveStep ==
    ASSUME NEW w, NEW v, From(w, v), NEW q \in 1..Len(queues), Leave(q)
    PROVE  Parts(v)'
<1> DEFINE x == [queues[q] EXCEPT !.doing = Left]
<1>1. /\ queues' = [queues EXCEPT ![q] = x]
      /\ UNCHANGED <<here, there, feeds, rows, lastLink, senders, cached, pairs, queueOf, plan, hand>>
  BY DEF Leave, Left, linkVars, rowVars, textVars
<1>2. QueueOK(queues[q], w)
  BY DEF From, Parts, Waiting
<1>3. QueueOK(x, w)
  BY <1>2, WorkSet, RestFits
<1> HIDE DEF x
<1>4. Len(queues') = Len(queues)
  BY <1>1, <1>3, SameLength DEF From, QueueOK
<1>5. Later(w, v) /\ Texts(v)
  BY <1>1, <1>4, StillWorld
<1>6. Waiting(v)'
  BY <1>1, <1>3, <1>5, QueueKept, QueueSet DEF From, Parts
<1> QED
  BY <1>1, <1>5, <1>6, TablesRest, PairedRest, HandsRest, FeedsRest DEF From, Parts, Texts

\* Nothing but the queue, and what the worker of q knows.
LEMMA WorkerKnows ==
    ASSUME NEW w, NEW v, From(w, v), NEW q \in 1..Len(queues), NEW do, NEW at, Doing(q, do, at),
           at \notin {"idle", "left"}
    PROVE  /\ queues[q].doing \in Works /\ queues[q].doing.at = at /\ queues[q].doing.job.do = do
           /\ DeliveryOK(queues[q].doing.job, w) /\ \A l \in queues[q].doing.links : LinkOK(l, w)
           /\ at = "executed" => queues[q].doing.made \in 1..Len(there) /\ do = "out"
           /\ at = "written" => queues[q].doing.made \in 1..Len(here) /\ do = "in"
           /\ w.here = here /\ w.there = there /\ queues[q] \in QueueRecs
<1>1. QueueOK(queues[q], w) /\ queues[q].doing.at = at /\ queues[q].doing.job.do = do
  BY DEF From, Parts, Waiting, Doing
<1>2. w.here = here /\ w.there = there
  BY DEF From, Being
<1> QED
  BY <1>1, <1>2, WorkIs

\* Discord stores a message, or refuses it.
LEMMA PostingStep ==
    ASSUME NEW w, NEW v, From(w, v), NEW q \in 1..Len(queues), Doing(q, "out", "start"), Posting(q)
    PROVE  Parts(v)'
<1> DEFINE D == queues[q].doing
           J == queues[q].doing.job
           m == Outgoing(J)
           sent == [D EXCEPT !.at = "executed", !.made = Len(there) + 1]
           tried == [D EXCEPT !.tries = @ + 1]
<1>1. /\ D \in Works /\ J.do = "out" /\ DeliveryOK(J, w) /\ (\A l \in D.links : LinkOK(l, w))
      /\ w.here = here /\ w.there = there
  BY WorkerKnows
<1>2. UNCHANGED <<here, rows, lastLink, senders, cached, pairs, queueOf, plan, hand>>
  BY DEF Posting, linkVars, rowVars
<1>3. \/ UNCHANGED <<there, feeds>>
      \/ there' = Append(there, m) /\ Tell("in", Len(there) + 1, m)
  BY DEF Posting, Job
<1>0. /\ [queues EXCEPT ![q].doing.at = "executed", ![q].doing.made = Len(there) + 1] = [queues EXCEPT ![q].doing = sent]
      /\ [queues EXCEPT ![q].doing.tries = @ + 1] = [queues EXCEPT ![q].doing = tried]
  OBVIOUS
<1>4. \/ queues' = [queues EXCEPT ![q].doing = sent] /\ there' = Append(there, m) /\ Tell("in", Len(there) + 1, m)
      \/ queues' = [queues EXCEPT ![q].doing = tried]
      \/ queues' = [queues EXCEPT ![q].doing = Idle]
  <2> HIDE DEF sent, tried, m
  <2>1. /\ m = Outgoing(Job(q)) /\ Finished(q) = [queues EXCEPT ![q].doing = Idle]
        /\ Again(q) = [queues EXCEPT ![q].doing = tried] \/ Again(q) = [queues EXCEPT ![q].doing = Idle]
    BY <1>0 DEF Job, Again, Finished, m
  <2> QED
    BY <1>0, <2>1 DEF Posting
<1>5. /\ m \in Theirs /\ m.of = J.id /\ m.place = J.link.place /\ m.hook = J.link.hook
  BY <1>1 DEF DeliveryOK, Deliveries, LinkRecs, Ours, Theirs, Outgoing
<1>6. Own(here, m.of)
  BY <1>1, <1>5 DEF DeliveryOK, JobOK
<1>7. Len(there) \in Nat
  BY Lengths DEF From
<1>8. sent \in Works /\ sent.job = J /\ sent.links = D.links /\ sent.at = "executed" /\ sent.made = Len(there) + 1
  <2> DEFINE e == [D EXCEPT !.at = "executed"]
  <2>1. e \in Works /\ e.job = J /\ e.links = D.links /\ e.at = "executed"
    BY <1>1 DEF Works
  <2>2. sent = [e EXCEPT !.made = Len(there) + 1]
    OBVIOUS
  <2> HIDE DEF e, sent
  <2> QED
    BY <1>7, <2>1, <2>2 DEF Works
<1>9. tried \in Works /\ tried.job = J /\ tried.links = D.links /\ tried.at = D.at /\ tried.made = D.made
  BY <1>1 DEF Works
<1>10. D.at = "start"
  BY DEF Doing
<1> HIDE DEF m, sent, tried
<1>11. Len(queues') = Len(queues)
  BY <1>4, <1>8, <1>9, DoingLength DEF From
<1>12. Later(w, v) /\ Texts(v) /\ Feeds(v)' /\ (there' = Append(there, m) => Len(there) + 1 \in 1..Len(v.there))
  <2>1. CASE there' = Append(there, m) /\ Tell("in", Len(there) + 1, m)
    <3>1. Later(w, v) /\ Texts(v) /\ v.there[Len(there) + 1] = m /\ Len(v.there) = Len(there) + 1
      BY <1>2, <1>5, <1>6, <1>11, <2>1, ThereGrows
    <3>2. m.hook \in v.hooks /\ (v.sole => m.place = PlaceOf[m.hook])
      BY <1>1, <1>5, <3>1 DEF DeliveryOK, LinkOK, Later
    <3>3. Len(there) + 1 \in 1..Len(v.there) /\ Len(there) + 1 \in Nat
      BY <1>7, <3>1
    <3>4. EventOK([do |-> "in", id |-> Len(there) + 1, msg |-> m], v)
      BY <1>5, <3>1, <3>2, <3>3 DEF EventOK, Told, Ins
    <3> QED
      BY <1>2, <2>1, <3>1, <3>3, <3>4, FeedsTold DEF From, Parts
  <2>2. CASE UNCHANGED <<there, feeds>>
    <3>1. Later(w, v) /\ Texts(v)
      BY <1>2, <1>11, <2>2, StillWorld
    <3>2. there' # Append(there, m)
      BY <1>5, <1>7, <2>2, AppendGrows, Lengths DEF From
    <3> QED
      BY <1>2, <2>2, <3>1, <3>2, FeedsRest DEF From, Parts
  <2> QED
    BY <1>3, <2>1, <2>2
<1>13. DeliveryOK(J, v) /\ \A l \in D.links : LinkOK(l, v)
  BY <1>1, <1>12, DeliveryKept, LinkKept
<1>14. Waiting(v)'
  <2>1. CASE queues' = [queues EXCEPT ![q].doing = sent] /\ there' = Append(there, m)
    <3>1. WorkOK(sent, v)
      BY <1>1, <1>8, <1>12, <1>13, <2>1 DEF WorkOK
    <3> QED
      BY <1>2, <1>8, <1>12, <2>1, <3>1, DoingSet DEF From, Parts
  <2>2. CASE queues' = [queues EXCEPT ![q].doing = tried]
    <3>1. WorkOK(tried, v)
      BY <1>9, <1>10, <1>13 DEF WorkOK
    <3> QED
      BY <1>2, <1>9, <1>12, <2>2, <3>1, DoingSet DEF From, Parts
  <2>3. CASE queues' = [queues EXCEPT ![q].doing = Idle]
    BY <1>2, <1>12, <2>3, RestFits, DoingSet DEF From, Parts
  <2> QED
    BY <1>4, <2>1, <2>2, <2>3
<1> QED
  BY <1>2, <1>12, <1>14, TablesRest, PairedRest, HandsRest DEF From, Parts, Texts

\* A pairing is of messages that are there.
LEMMA MappedFits ==
    ASSUME NEW w, NEW v, Later(w, v), Paired(w), NEW link, NEW id \in 1..Len(w.here), NEW copy \in 1..Len(w.there),
           NEW origin, pairs' = Mapped(link, id, copy, origin)
    PROVE  Paired(v)'
<1>1. 1..Len(w.here) \subseteq 1..Len(v.here) /\ 1..Len(w.there) \subseteq 1..Len(v.there)
  BY DEF Later, Grows
<1>2. pairs' \subseteq pairs \cup {[here |-> id, there |-> copy, link |-> link.id, origin |-> origin]}
  BY DEF Mapped
<1> QED
  BY <1>1, <1>2 DEF Paired

LEMMA RecordStep ==
    ASSUME NEW w, NEW v, From(w, v), NEW q \in 1..Len(queues), RecordPosted(q) \/ RecordWritten(q)
    PROVE  Parts(v)'
<1>1. /\ UNCHANGED <<here, there, feeds, rows, lastLink, senders, cached, queueOf, plan, hand>>
      /\ queues' = [queues EXCEPT ![q].doing = Idle]
  BY DEF RecordPosted, RecordWritten, rowVars, textVars, Finished
<1>2. Later(w, v) /\ Texts(v)
  BY <1>1, DoingLength, StillWorld DEF From
<1>3. Waiting(v)'
  BY <1>1, <1>2, RestFits, DoingSet DEF From, Parts
<1>4. Paired(v)'
  <2>1. CASE RecordPosted(q)
    <3>1. Doing(q, "out", "executed") /\ pairs' = Mapped(Job(q).link, Job(q).id, queues[q].doing.made, "aural")
      BY <2>1 DEF RecordPosted
    <3>2. Job(q).id \in 1..Len(w.here) /\ queues[q].doing.made \in 1..Len(w.there)
      BY <3>1, WorkerKnows DEF DeliveryOK, JobOK, Outs, Job
    <3> QED
      BY <1>2, <3>1, <3>2, MappedFits DEF From, Parts
  <2>2. CASE RecordWritten(q)
    <3>1. Doing(q, "in", "written") /\ pairs' = Mapped(Job(q).link, queues[q].doing.made, Job(q).id, "discord")
      BY <2>2 DEF RecordWritten
    <3>2. Job(q).id \in 1..Len(w.there) /\ queues[q].doing.made \in 1..Len(w.here)
      BY <3>1, WorkerKnows DEF DeliveryOK, JobOK, Ins, Job
    <3> QED
      BY <1>2, <3>1, <3>2, MappedFits DEF From, Parts
  <2> QED
    BY <2>1, <2>2
<1> QED
  BY <1>1, <1>2, <1>3, <1>4, TablesRest, HandsRest, FeedsRest DEF From, Parts, Texts

\* An edit or a deletion reaches the copy on Discord.
LEMMA PushStep ==
    ASSUME NEW w, NEW v, From(w, v), NEW q \in 1..Len(queues), PushEdit(q) \/ PushDelete(q)
    PROVE  Parts(v)'
<1> DEFINE J == queues[q].doing.job
<1>1. /\ UNCHANGED <<here, rows, lastLink, senders, cached, queueOf, plan, hand>>
      /\ queues' = [queues EXCEPT ![q].doing = Idle] /\ pairs' \subseteq pairs
  BY DEF PushEdit, PushDelete, rowVars, Finished, Written
<1>2. Len(queues') = Len(queues)
  BY <1>1, DoingLength DEF From
<1>3. \/ UNCHANGED <<there, feeds>>
      \/ \E p \in pairs :
            /\ there[p.there] # Gone
            /\ \/ /\ there' = [there EXCEPT ![p.there].ver = J.msg.ver] /\ Tell("inEdit", p.there, there'[p.there])
                  /\ Doing(q, "outEdit", "start")
               \/ there' = [there EXCEPT ![p.there] = Gone] /\ Tell("inDelete", p.there, there[p.there])
  BY DEF PushEdit, PushDelete, Written, Pair, Reachable, Job
<1>4. there \in Seq(Theirs \cup {Gone})
  BY Lengths DEF From
<1>5. Later(w, v) /\ Texts(v) /\ Feeds(v)'
  <2>1. CASE UNCHANGED <<there, feeds>>
    BY <1>1, <1>2, <2>1, StillWorld, FeedsRest DEF From, Parts
  <2>2. ASSUME NEW p \in pairs, there[p.there] # Gone,
               there' = [there EXCEPT ![p.there].ver = J.msg.ver], Tell("inEdit", p.there, there'[p.there]),
               Doing(q, "outEdit", "start")
        PROVE  Later(w, v) /\ Texts(v) /\ Feeds(v)'
    <3> DEFINE i == p.there
               m == [there[i] EXCEPT !.ver = J.msg.ver]
    <3>1. i \in 1..Len(there) /\ w.there = there
      BY DEF From, Parts, Paired, Being
    <3>2. there[i] \in Theirs
      BY <1>4, <2>2, <3>1
    <3>3. J.msg.ver \in Nat
      BY <2>2, WorkerKnows DEF DeliveryOK, Deliveries, Ours, Theirs
    <3>4. m \in Theirs /\ m.of = there[i].of /\ there' = Swapped(there, i, m)
      BY <2>2, <3>1, <3>2, <3>3 DEF Theirs, Swapped
    <3> HIDE DEF m, i
    <3>5. Later(w, v) /\ Texts(v) /\ i \in 1..Len(v.there) /\ there'[i] = m
      BY <1>1, <1>2, <2>2, <3>1, <3>4, ThereSet DEF i
    <3>6. EventOK([do |-> "inEdit", id |-> i, msg |-> m], v)
      BY <3>1, <3>4, <3>5 DEF EventOK, Told, Ins
    <3>7. Tell("inEdit", i, m)
      BY <2>2, <3>5 DEF i
    <3> QED
      BY <1>1, <3>5, <3>6, <3>7, FeedsTold DEF From, Parts
  <2>3. ASSUME NEW p \in pairs, there[p.there] # Gone,
               there' = [there EXCEPT ![p.there] = Gone], Tell("inDelete", p.there, there[p.there])
        PROVE  Later(w, v) /\ Texts(v) /\ Feeds(v)'
    <3> DEFINE i == p.there
    <3>1. i \in 1..Len(there) /\ w.there = there
      BY DEF From, Parts, Paired, Being
    <3>2. there[i] \in Theirs
      BY <1>4, <2>3, <3>1
    <3>3. there' = Swapped(there, i, Gone) /\ Tell("inDelete", i, there[i])
      BY <2>3 DEF Swapped
    <3> HIDE DEF i
    <3>5. Later(w, v) /\ Texts(v) /\ i \in 1..Len(v.there)
      BY <1>1, <1>2, <3>1, <3>3, ThereSet
    <3>6. EventOK([do |-> "inDelete", id |-> i, msg |-> there[i]], v)
      BY <3>1, <3>2, <3>5 DEF EventOK, Told, Ins
    <3> QED
      BY <1>1, <3>3, <3>5, <3>6, FeedsTold DEF From, Parts
  <2> QED
    BY <1>3, <2>1, <2>2, <2>3
<1>6. Waiting(v)'
  BY <1>1, <1>5, RestFits, DoingSet DEF From, Parts
<1> QED
  BY <1>1, <1>5, <1>6, TablesRest, PairedRest, HandsRest DEF From, Parts, Texts

\* A delivery finds the webhooks row it writes under, or makes one.
LEMMA ProvisionStep ==
    ASSUME NEW w, NEW v, From(w, v), NEW q \in 1..Len(queues), Provision(q)
    PROVE  Parts(v)'
<1> DEFINE D == queues[q].doing
           link == queues[q].doing.job.link
           made == Len(senders) + 1
           to(at, s) == [D EXCEPT !.at = at, !.sender = s]
<1>1. UNCHANGED <<here, there, feeds, lastLink, cached, pairs, queueOf, plan, hand>> /\ Doing(q, "in", "start")
  BY DEF Provision, textVars
<1>0. /\ [queues EXCEPT ![q].doing.at = "write", ![q].doing.sender = link.source]
            = [queues EXCEPT ![q].doing = to("write", link.source)]
      /\ [queues EXCEPT ![q].doing.at = "provisioned", ![q].doing.sender = made]
            = [queues EXCEPT ![q].doing = to("provisioned", made)]
  OBVIOUS
<1>2. \/ queues' = [queues EXCEPT ![q].doing = Idle] /\ UNCHANGED <<senders, rows>>
      \/ queues' = [queues EXCEPT ![q].doing = to("write", link.source)] /\ UNCHANGED <<senders, rows>>
      \/ /\ queues' = [queues EXCEPT ![q].doing = to("provisioned", made)]
         /\ senders' = Append(senders, link.chan)
         /\ rows' = {IF l.id = link.id THEN [l EXCEPT !.source = made] ELSE l : l \in rows}
  <2> HIDE DEF to
  <2> QED
    BY <1>0 DEF Provision, Finished, Job
<1>3. /\ D \in Works /\ D.at = "start" /\ DeliveryOK(D.job, w) /\ (\A l \in D.links : LinkOK(l, w))
  BY <1>1, WorkerKnows
<1>4. link \in LinkRecs /\ link.source \in Nat /\ link.chan \in Chans
  BY <1>3 DEF DeliveryOK, LinkOK, LinkRecs
<1>5. senders \in Seq(Chans \cup {"gone"}) /\ {Len(here), Len(there), lastLink, Len(senders), Len(queues)} \subseteq Nat
  BY Lengths DEF From
<1>6. ASSUME NEW at \in {"write", "provisioned"}, NEW s \in Nat
      PROVE  to(at, s) \in Works /\ to(at, s).job = D.job /\ to(at, s).links = D.links /\ to(at, s).at = at
  BY <1>3 DEF Works
<1> HIDE DEF to
<1>7. Len(queues') = Len(queues)
  <2>1. \E d \in Works \cup {Idle} : queues' = [queues EXCEPT ![q].doing = d]
    <3>1. made \in Nat
      BY <1>5
    <3>2. to("write", link.source) \in Works /\ to("provisioned", made) \in Works
      BY <1>4, <1>6, <3>1
    <3> QED
      BY <1>2, <3>2
  <2> QED
    BY <2>1, DoingLength DEF From
<1>8. senders' = senders \/ senders' = Append(senders, link.chan)
  BY <1>2
<1>9. Len(senders') \in Nat /\ Len(senders) <= Len(senders') /\ senders' \in Seq(Chans \cup {"gone"})
  <2>1. CASE senders' = senders
    BY <1>5, <2>1
  <2>2. CASE senders' = Append(senders, link.chan)
    BY <1>4, <1>5, <2>2
  <2> QED
    BY <1>8, <2>1, <2>2
<1>10. Later(w, v)
  BY <1>1, <1>5, <1>7, <1>9, SameGrows, LaterIs
<1>11. Texts(v) /\ v.senders = Len(senders')
  <2>1. v.here = w.here /\ v.there = w.there /\ v.sole = w.sole /\ v.senders = Len(senders')
    BY <1>1, <1>10 DEF From, Being, Later
  <2> QED
    BY <2>1 DEF From, Parts, Texts
<1>12. Waiting(v)'
  <2>1. DeliveryOK(D.job, v) /\ \A l \in D.links : LinkOK(l, v)
    BY <1>3, <1>10, DeliveryKept, LinkKept
  <2>2. ASSUME NEW at \in {"write", "provisioned"}, NEW s \in Nat
        PROVE  WorkOK(to(at, s), v)
    BY <1>6, <2>1 DEF WorkOK
  <2>3. \E d \in Works \cup {Idle} : queues' = [queues EXCEPT ![q].doing = d] /\ WorkOK(d, v)
    <3>1. made \in Nat
      BY <1>5
    <3>2. /\ to("write", link.source) \in Works /\ to("provisioned", made) \in Works
          /\ WorkOK(to("write", link.source), v) /\ WorkOK(to("provisioned", made), v)
      BY <1>4, <1>6, <2>2, <3>1
    <3> QED
      BY <1>2, <3>2, RestFits
  <2> QED
    BY <1>1, <1>10, <2>3, DoingSet DEF From, Parts
<1>13. Tables(v)'
  <2>1. CASE UNCHANGED <<senders, rows>>
    BY <1>1, <1>10, <2>1, TablesRest DEF From, Parts
  <2>2. CASE /\ senders' = Append(senders, link.chan)
             /\ rows' = {IF l.id = link.id THEN [l EXCEPT !.source = made] ELSE l : l \in rows}
    <3> DEFINE new(l) == IF l.id = link.id THEN [l EXCEPT !.source = made] ELSE l
    <3>1. /\ \A l \in rows : LinkOK(l, v) /\ l \in LinkRecs
          /\ \A l \in cached : LinkOK(l, v)
      BY <1>10, LinkKept DEF From, Parts, Tables, LinkOK
    <3>2. made \in 0..v.senders /\ made \in Nat
      BY <1>4, <1>5, <1>11, <2>2
    <3>3. ASSUME NEW l \in rows
          PROVE  LinkOK(new(l), v) /\ new(l).id = l.id /\ new(l).chan = l.chan /\ new(l).place = l.place
      <4>1. CASE l.id = link.id
        <5>1. /\ new(l) = [l EXCEPT !.source = made] /\ new(l) \in LinkRecs /\ new(l).source = made /\ new(l).id = l.id
              /\ new(l).chan = l.chan /\ new(l).place = l.place /\ new(l).hook = l.hook
          BY <3>1, <3>2, <4>1 DEF LinkRecs
        <5> QED
          BY <3>1, <3>2, <5>1 DEF LinkOK
      <4>2. CASE l.id # link.id
        BY <3>1, <4>2
      <4> QED
        BY <4>1, <4>2
    <3>4. rows' = {new(l) : l \in rows}
      BY <2>2
    <3> HIDE DEF new
    <3>5. \A k \in rows' : LinkOK(k, v)
      BY <3>3, <3>4
    <3>6. Apart(rows')
      <4> SUFFICES ASSUME NEW k \in rows', NEW l \in rows', k # l
                   PROVE  k.id # l.id /\ k.chan # l.chan /\ k.place # l.place
        BY DEF Apart
      <4>1. PICK k0 \in rows : k = new(k0)
        BY <3>4
      <4>2. PICK l0 \in rows : l = new(l0)
        BY <3>4
      <4>3. k0.id # l0.id /\ k0.chan # l0.chan /\ k0.place # l0.place
        BY <4>1, <4>2 DEF From, Parts, Tables, Apart
      <4> QED
        BY <3>3, <4>1, <4>2, <4>3
    <3> QED
      BY <1>1, <1>5, <1>9, <3>1, <3>5, <3>6 DEF Tables
  <2> QED
    BY <1>2, <2>1, <2>2
<1> QED
  BY <1>1, <1>10, <1>11, <1>12, <1>13, PairedRest, HandsRest, FeedsRest DEF From, Parts, Texts

LEMMA ReloadInStep ==
    ASSUME NEW w, NEW v, From(w, v), NEW q \in 1..Len(queues), ReloadInDelivery(q)
    PROVE  Parts(v)'
<1> DEFINE D == queues[q].doing
           d == [D EXCEPT !.at = "loaded", !.links = rows]
<1>1. /\ UNCHANGED <<here, there, feeds, rows, lastLink, senders, cached, pairs, queueOf, plan, hand>>
      /\ queues' = [queues EXCEPT ![q].doing = d] /\ Doing(q, "in", "provisioned")
  BY DEF ReloadInDelivery, textVars, linkVars, rowVars
<1>2. D \in Works /\ DeliveryOK(D.job, w)
  BY <1>1, WorkerKnows
<1>3. \A l \in rows : LinkOK(l, w) /\ l \in LinkRecs
  BY DEF From, Parts, Tables, LinkOK
<1>4. d \in Works /\ d.at = "loaded" /\ d.links = rows /\ d.job = D.job
  BY <1>2, <1>3 DEF Works
<1>5. WorkOK(d, w)
  BY <1>2, <1>3, <1>4 DEF WorkOK
<1> HIDE DEF d
<1>6. Later(w, v) /\ Texts(v)
  BY <1>1, <1>4, DoingLength, StillWorld DEF From
<1>7. Waiting(v)'
  BY <1>1, <1>4, <1>5, <1>6, WorkKept, DoingSet DEF From, Parts
<1> QED
  BY <1>1, <1>6, <1>7, TablesRest, PairedRest, HandsRest, FeedsRest DEF From, Parts, Texts

\* The caches are replaced: queues keep what is on them.
LEMMA InstallFits ==
    ASSUME NEW w, NEW v, Later(w, v), Waiting(w), NEW links, NEW qs \in Seq(QueueRecs), Len(qs) = Len(queues),
           \A q \in 1..Len(queues) : QueueOK(qs[q], v), Install(links, qs)
    PROVE  Waiting(v)'
<1>1. /\ queueOf' = [id \in DOMAIN queueOf \cap Ids(links) |-> queueOf[id]]
      /\ queues' = [q \in DOMAIN qs |->
            IF q \in {queueOf[id] : id \in DOMAIN queueOf \ Ids(links)} THEN Retired(qs[q]) ELSE qs[q]]
  BY DEF Install
<1>2. DOMAIN qs = 1..Len(queues) /\ Len(queues) \in Nat
  BY DEF Waiting
<1>3. ASSUME NEW q \in 1..Len(queues)
      PROVE  queues'[q] \in QueueRecs /\ QueueOK(queues'[q], v)
  <2>1. queues'[q] = Retired(qs[q]) \/ queues'[q] = qs[q]
    BY <1>1, <1>2
  <2>2. QueueOK(qs[q], v) /\ qs[q] \in QueueRecs
    BY DEF QueueOK
  <2>3. /\ Retired(qs[q]) \in QueueRecs /\ Retired(qs[q]).jobs = qs[q].jobs /\ Retired(qs[q]).doing = qs[q].doing
    BY <2>2 DEF Retired, QueueRecs
  <2>4. QueueOK(Retired(qs[q]), v)
    BY <2>2, <2>3 DEF QueueOK
  <2> QED
    BY <2>1, <2>2, <2>3, <2>4
<1>4. queues' \in Seq(QueueRecs) /\ Len(queues') = Len(queues)
  <2>1. queues' \in [1..Len(queues) -> QueueRecs]
    BY <1>1, <1>2, <1>3
  <2> QED
    BY <1>2, <2>1, SeqIs
<1>5. \A l \in DOMAIN queueOf' : queueOf'[l] \in 1..Len(queues')
  BY <1>1, <1>4 DEF Waiting
<1> QED
  BY <1>3, <1>4, <1>5 DEF Waiting

LEMMA InstallLength ==
    ASSUME NEW links, NEW qs \in Seq(QueueRecs), Install(links, qs)
    PROVE  Len(queues') = Len(qs)
<1>1. DOMAIN queues' = 1..Len(qs) /\ Len(qs) \in Nat
  BY DEF Install
<1>2. queues' = [q \in 1..Len(qs) |-> queues'[q]]
  BY <1>1 DEF Install
<1> QED
  BY <1>1, <1>2, SeqIs

\* The cache holds links as they were read.
LEMMA CacheIs ==
    ASSUME NEW w, NEW v, Later(w, v), Tables(w), UNCHANGED <<rows, lastLink, senders>>, \A l \in cached' : LinkOK(l, v)
    PROVE  Tables(v)'
<1>1. \A l \in rows : LinkOK(l, v)
  BY LinkKept DEF Tables
<1> QED
  BY <1>1 DEF Tables

LEMMA InstallInStep ==
    ASSUME NEW w, NEW v, From(w, v), NEW q \in 1..Len(queues), InstallInDelivery(q)
    PROVE  Parts(v)'
<1> DEFINE D == queues[q].doing
           d == [D EXCEPT !.at = "write"]
           x == [queues[q] EXCEPT !.doing = d]
           qs == [queues EXCEPT ![q] = x]
<1>1. /\ UNCHANGED <<here, there, feeds, rows, lastLink, senders, pairs, plan, hand>>
      /\ Install(D.links, qs) /\ Doing(q, "in", "loaded")
  BY DEF InstallInDelivery, textVars
<1>2. D \in Works /\ DeliveryOK(D.job, w) /\ (\A l \in D.links : LinkOK(l, w)) /\ queues[q] \in QueueRecs
  BY <1>1, WorkerKnows
<1>3. d \in Works /\ d.at = "write" /\ d.links = D.links /\ d.job = D.job
  BY <1>2 DEF Works
<1>4. WorkOK(d, w)
  BY <1>2, <1>3 DEF WorkOK
<1> HIDE DEF d
<1>5. QueueOK(x, w) /\ x \in QueueRecs
  BY <1>3, <1>4, WorkSet DEF From, Parts, Waiting, QueueOK
<1> HIDE DEF x
<1>6. /\ qs \in Seq(QueueRecs) /\ Len(qs) = Len(queues) /\ qs[q] = x
      /\ \A r \in 1..Len(queues) : r # q => qs[r] = queues[r]
  BY <1>5, Lengths, SeqPut DEF From
<1> HIDE DEF qs
<1>7. Later(w, v) /\ Texts(v)
  BY <1>1, <1>6, InstallLength, StillWorld
<1>8. \A r \in 1..Len(queues) : QueueOK(qs[r], v)
  BY <1>5, <1>6, <1>7, QueueKept DEF From, Parts, Waiting
<1>9. Waiting(v)'
  BY <1>1, <1>6, <1>7, <1>8, InstallFits DEF From, Parts
<1>10. Tables(v)'
  <2>1. cached' = D.links
    BY <1>1 DEF Install
  <2>2. \A l \in cached' : LinkOK(l, v)
    BY <1>2, <1>7, <2>1, LinkKept
  <2> QED
    BY <1>1, <1>7, <2>2, CacheIs DEF From, Parts
<1> QED
  BY <1>1, <1>7, <1>9, <1>10, PairedRest, HandsRest, FeedsRest DEF From, Parts, Texts

\* A delivery is written here, or moderation keeps it out.
LEMMA WriteInStep ==
    ASSUME NEW w, NEW v, From(w, v), NEW q \in 1..Len(queues), WriteIn(q) \/ WritePostIn(q)
    PROVE  Parts(v)'
<1> DEFINE D == queues[q].doing
           J == queues[q].doing.job
           m == [chan |-> J.link.chan, ver |-> J.msg.ver, sender |-> D.sender, of |-> J.id]
           d == [D EXCEPT !.at = "written", !.made = Len(here) + 1]
<1>1. /\ UNCHANGED <<there, feeds, rows, lastLink, senders, cached, pairs, queueOf, plan, hand>>
      /\ Doing(q, "in", "write")
  BY DEF WriteIn, WritePostIn, linkVars, rowVars
<1>0. [queues EXCEPT ![q].doing.at = "written", ![q].doing.made = Len(here) + 1] = [queues EXCEPT ![q].doing = d]
  OBVIOUS
<1>2. \/ here' = Append(here, m) /\ queues' = [queues EXCEPT ![q].doing = d]
      \/ UNCHANGED here /\ queues' = [queues EXCEPT ![q].doing = Idle]
  <2> HIDE DEF d
  <2> QED
    BY <1>0 DEF WriteIn, WritePostIn, Writing, Undone, Finished, Job
<1>3. D \in Works /\ J.do = "in" /\ DeliveryOK(J, w) /\ (\A l \in D.links : LinkOK(l, w)) /\ w.there = there
  BY <1>1, WorkerKnows
<1>4. Len(here) \in Nat
  BY Lengths DEF From
<1>5. m \in Ours /\ m.of = J.id
  BY <1>3 DEF DeliveryOK, Deliveries, LinkRecs, Ours, Theirs, Works
<1>6. J.id \in 1..Len(there) /\ (w.sole => Own(there, J.id))
  BY <1>3 DEF DeliveryOK, JobOK, Ins
<1>7. d \in Works /\ d.at = "written" /\ d.made = Len(here) + 1 /\ d.job = J /\ d.links = D.links
  <2> DEFINE e == [D EXCEPT !.at = "written"]
  <2>1. e \in Works /\ e.job = J /\ e.links = D.links /\ e.at = "written"
    BY <1>3 DEF Works
  <2>2. d = [e EXCEPT !.made = Len(here) + 1]
    OBVIOUS
  <2> HIDE DEF e, d
  <2> QED
    BY <1>4, <2>1, <2>2 DEF Works
<1> HIDE DEF m, d
<1>8. Len(queues') = Len(queues)
  BY <1>2, <1>7, DoingLength DEF From
<1>9. CASE here' = Append(here, m) /\ queues' = [queues EXCEPT ![q].doing = d]
  <2>1. Later(w, v) /\ Texts(v) /\ Len(v.here) = Len(here) + 1
    BY <1>1, <1>5, <1>6, <1>8, <1>9, HereGrows
  <2>2. DeliveryOK(J, v) /\ \A l \in D.links : LinkOK(l, v)
    BY <1>3, <2>1, DeliveryKept, LinkKept
  <2>3. WorkOK(d, v)
    BY <1>3, <1>4, <1>7, <2>1, <2>2 DEF WorkOK
  <2>4. Waiting(v)'
    BY <1>1, <1>7, <1>9, <2>1, <2>3, DoingSet DEF From, Parts
  <2> QED
    BY <1>1, <2>1, <2>4, TablesRest, PairedRest, HandsRest, FeedsRest DEF From, Parts, Texts
<1>10. CASE UNCHANGED here /\ queues' = [queues EXCEPT ![q].doing = Idle]
  <2>1. Later(w, v) /\ Texts(v)
    BY <1>1, <1>8, <1>10, StillWorld
  <2>2. Waiting(v)'
    BY <1>1, <1>10, <2>1, RestFits, DoingSet DEF From, Parts
  <2> QED
    BY <1>1, <2>1, <2>2, TablesRest, PairedRest, HandsRest, FeedsRest DEF From, Parts, Texts
<1> QED
  BY <1>2, <1>9, <1>10

\* An edit or a deletion on Discord reaches the copy here.
LEMMA ApplyStep ==
    ASSUME NEW w, NEW v, From(w, v), NEW q \in 1..Len(queues), ApplyEdit(q) \/ ApplyDelete(q)
    PROVE  Parts(v)'
<1> DEFINE J == queues[q].doing.job
<1>1. /\ UNCHANGED <<there, feeds, rows, lastLink, senders, cached, queueOf, plan, hand>>
      /\ queues' = [queues EXCEPT ![q].doing = Idle] /\ pairs' \subseteq pairs
  BY DEF ApplyEdit, ApplyDelete, linkVars, rowVars, Finished
<1>2. \/ UNCHANGED here
      \/ \E p \in pairs : here[p.here] # Gone /\ here' = [here EXCEPT ![p.here] = Gone]
      \/ \E p \in pairs : here[p.here] # Gone /\ here' = [here EXCEPT ![p.here].ver = J.msg.ver] /\ Doing(q, "inEdit", "start")
  BY DEF ApplyEdit, ApplyDelete, Produced, PairOf, Job
<1>3. Len(queues') = Len(queues)
  BY <1>1, DoingLength DEF From
<1>4. here \in Seq(Ours \cup {Gone})
  BY Lengths DEF From
<1>5. Later(w, v) /\ Texts(v)
  <2>1. CASE UNCHANGED here
    BY <1>1, <1>3, <2>1, StillWorld
  <2>2. ASSUME NEW p \in pairs, here[p.here] # Gone, here' = [here EXCEPT ![p.here] = Gone]
        PROVE  Later(w, v) /\ Texts(v)
    <3>1. p.here \in 1..Len(here)
      BY DEF From, Parts, Paired, Being
    <3> QED
      BY <1>1, <1>3, <2>2, <3>1, HereSet DEF Swapped
  <2>3. ASSUME NEW p \in pairs, here[p.here] # Gone, here' = [here EXCEPT ![p.here].ver = J.msg.ver],
               Doing(q, "inEdit", "start")
        PROVE  Later(w, v) /\ Texts(v)
    <3> DEFINE i == p.here
               m == [here[i] EXCEPT !.ver = J.msg.ver]
    <3>1. i \in 1..Len(here)
      BY DEF From, Parts, Paired, Being
    <3>2. here[i] \in Ours
      BY <1>4, <2>3, <3>1
    <3>3. J.msg.ver \in Nat
      BY <2>3, WorkerKnows DEF DeliveryOK, Deliveries, Ours, Theirs
    <3>4. m \in Ours /\ m.of = here[i].of /\ here' = Swapped(here, i, m)
      BY <2>3, <3>1, <3>2, <3>3 DEF Ours, Swapped
    <3>5. here[i] # Gone
      BY <2>3
    <3> HIDE DEF m, i
    <3> QED
      BY <1>1, <1>3, <3>1, <3>4, <3>5, HereSet
  <2> QED
    BY <1>2, <2>1, <2>2, <2>3
<1>6. Waiting(v)'
  BY <1>1, <1>5, RestFits, DoingSet DEF From, Parts
<1> QED
  BY <1>1, <1>5, <1>6, TablesRest, PairedRest, HandsRest, FeedsRest DEF From, Parts, Texts

-----------------------------------------------------------------------------
(* The bridge: housekeeping, links, settings and clients                      *)

\* One handler goes on, and nothing else that the parts speak of changes.
LEMMA OnlyHand ==
    ASSUME NEW w, NEW v, From(w, v), NEW a \in Actors, NEW h, Set(a, h), HandOK(h, w),
           UNCHANGED <<here, there, feeds, rows, lastLink, senders, cached, pairs, queueOf, queues>>
    PROVE  Parts(v)'
<1>1. Later(w, v) /\ Texts(v) /\ plan' = plan
  BY StillWorld DEF From
<1>2. Hands(v)'
  BY <1>1, HandKept, HandSet DEF From, Parts
<1> QED
  BY <1>1, <1>2, TablesRest, PairedRest, WaitingRests, FeedsRest DEF From, Parts, queueVars, Texts

\* Nothing that the parts speak of changes but pairings that go.
LEMMA OnlyPairs ==
    ASSUME NEW w, NEW v, From(w, v), pairs' \subseteq pairs,
           UNCHANGED <<here, there, feeds, rows, lastLink, senders, cached, queueOf, queues, hand>>
    PROVE  Parts(v)'
<1>1. Later(w, v) /\ Texts(v) /\ plan' = plan
  BY StillWorld DEF From
<1> QED
  BY <1>1, TablesRest, PairedRest, WaitingRests, HandsRest, FeedsRest DEF From, Parts, queueVars, Texts

LEMMA SweepStep ==
    ASSUME NEW w, NEW v, From(w, v), Sweep
    PROVE  Parts(v)'
<1>1. /\ UNCHANGED <<here, there, feeds, rows, lastLink, senders, cached, queueOf, queues, hand>> /\ pairs' \subseteq pairs
  BY DEF Sweep, rowVars, queueVars, textVars
<1> QED
  BY <1>1, OnlyPairs

LEMMA RefusedStep ==
    ASSUME NEW w, NEW v, From(w, v), Refused
    PROVE  Parts(v)'
<1>1. /\ UNCHANGED <<here, there, feeds, rows, lastLink, senders, cached, queueOf, queues, hand>> /\ pairs' = pairs
  BY DEF Refused, linkVars, rowVars, queueVars, textVars
<1> QED
  BY <1>1, OnlyPairs

\* An administrator there is.
LEMMA AdminIs ==
    ASSUME NEW a \in Actors, a[1] = "admin", plan \in Plans
    PROVE  plan.admins # 0
<1>1. a \in {"admin"} \X (1..plan.admins)
  BY DEF Actors
<1>2. 1..plan.admins # {}
  BY <1>1
<1> QED
  BY <1>2, BridgeFits

\* The webhooks that administrators and the file may name are in use.
LEMMA HooksUsed ==
    ASSUME NEW hooks, HooksFit(hooks), plan \in Plans
    PROVE  /\ ~OneHook(plan) => hooks = {"p1", "p2", "q1"}
           /\ plan.admins # 0 => plan.hooks \subseteq hooks /\ "q1" \in hooks
           /\ plan.change = "rehook" => ~OneHook(plan)
           /\ \A f \in plan.file : f.hook \in hooks \/ (OneHook(plan) /\ plan.admins = 0 /\ f.hook = "p2")
<1>1. /\ plan.hooks \subseteq {"p1", "p2", "q1"} /\ \A f \in plan.file : f.hook \in {"p1", "p2", "q1"}
      /\ \A f, g \in plan.file : f = g
  BY BridgeFits, PlaceIs
<1>2. CASE ~OneHook(plan)
  BY <1>1, <1>2, PlaceIs DEF HooksFit
<1>3. CASE OneHook(plan) /\ plan.admins = 0
  BY <1>1, <1>3 DEF HooksFit, OneHook
<1>4. CASE OneHook(plan) /\ plan.admins # 0
  BY <1>1, <1>4 DEF HooksFit, OneHook
<1> QED
  BY <1>2, <1>3, <1>4

\* What an update asks for is a link as links are.
LEMMA ChangesFit ==
    ASSUME NEW w, HooksFit(w.hooks), w.sole = OneHook(plan), plan \in Plans, plan.admins # 0,
           NEW l, LinkOK(l, w), NEW n \in Changes(l)
    PROVE  LinkOK(n, w)
<1>1. l \in LinkRecs
  BY DEF LinkOK
<1>2. CASE plan.change = "narrow"
  <2>1. PICK c \in [on : BOOLEAN, dir : {"both", "to_aural"}, edits : BOOLEAN] :
            n = [l EXCEPT !.on = c.on, !.dir = c.dir, !.edits = c.edits]
    BY <1>2 DEF Changes
  <2> DEFINE n1 == [l EXCEPT !.on = c.on]
             n2 == [n1 EXCEPT !.dir = c.dir]
  <2>2. n = [n2 EXCEPT !.edits = c.edits]
    BY <2>1
  <2>3. n1 \in LinkRecs /\ n1.id = l.id /\ n1.source = l.source /\ n1.hook = l.hook /\ n1.place = l.place
    BY <1>1 DEF LinkRecs
  <2> HIDE DEF n1
  <2>4. n2 \in LinkRecs /\ n2.id = l.id /\ n2.source = l.source /\ n2.hook = l.hook /\ n2.place = l.place
    BY <2>3 DEF LinkRecs, Dirs
  <2> HIDE DEF n2
  <2>5. n \in LinkRecs /\ n.id = l.id /\ n.source = l.source /\ n.hook = l.hook /\ n.place = l.place
    BY <2>2, <2>4 DEF LinkRecs
  <2> QED
    BY <2>5 DEF LinkOK
<1>3. CASE plan.change = "rehook"
  <2>1. n = [l EXCEPT !.hook = "p2"]
    BY <1>3 DEF Changes
  <2>2. n \in LinkRecs /\ n.id = l.id /\ n.source = l.source /\ n.hook = "p2"
    BY <1>1, <2>1, PlaceIs DEF LinkRecs
  <2>3. ~w.sole /\ "p2" \in w.hooks
    BY <1>3, HooksUsed
  <2> QED
    BY <2>2, <2>3 DEF LinkOK
<1>4. CASE plan.change = "repoint"
  <2>1. n = [l EXCEPT !.chan = "media", !.hook = "q1", !.place = "q"]
    BY <1>4 DEF Changes
  <2> DEFINE n1 == [l EXCEPT !.chan = "media"]
             n2 == [n1 EXCEPT !.hook = "q1"]
  <2>2. n = [n2 EXCEPT !.place = "q"]
    BY <2>1
  <2>3. n1 \in LinkRecs /\ n1.id = l.id /\ n1.source = l.source
    BY <1>1 DEF LinkRecs, Chans
  <2> HIDE DEF n1
  <2>4. n2 \in LinkRecs /\ n2.id = l.id /\ n2.source = l.source /\ n2.hook = "q1"
    BY <2>3, PlaceIs DEF LinkRecs
  <2> HIDE DEF n2
  <2>5. n \in LinkRecs /\ n.id = l.id /\ n.source = l.source /\ n.hook = "q1" /\ n.place = "q"
    BY <2>2, <2>4 DEF LinkRecs, Places
  <2>6. "q1" \in w.hooks /\ PlaceOf["q1"] = "q"
    BY HooksUsed, PlaceIs
  <2> QED
    BY <2>5, <2>6 DEF LinkOK
<1> QED
  BY <1>2, <1>3, <1>4, BridgeFits

LEMMA ReadLinkStep ==
    ASSUME NEW w, NEW v, From(w, v), NEW a \in Actors, ReadLink(a)
    PROVE  Parts(v)'
<1>1. UNCHANGED <<here, there, feeds, rows, lastLink, senders, cached, pairs, queueOf, queues>>
  BY DEF ReadLink, linkVars, rowVars, queueVars, textVars
<1>2. \E n : Set(a, [at |-> "change", link |-> n]) /\ LinkOK(n, w)
  <2>1. CASE Ready(a, "admin") /\ \E l \in rows : \E n \in Changes(l) : Set(a, [at |-> "change", link |-> n])
    <3>1. PICK l \in rows : \E n \in Changes(l) : Set(a, [at |-> "change", link |-> n])
      BY <2>1
    <3>2. PICK n \in Changes(l) : Set(a, [at |-> "change", link |-> n])
      BY <3>1
    <3>3. plan \in Plans /\ plan.admins # 0
      BY <2>1, AdminIs DEF Ready, From, Settings
    <3>4. LinkOK(l, w) /\ HooksFit(w.hooks) /\ w.sole = OneHook(plan)
      BY DEF From, Parts, Tables, Being
    <3>5. LinkOK(n, w)
      BY <3>3, <3>4, ChangesFit
    <3> QED
      BY <3>2, <3>5
  <2>2. CASE \E l \in cached : Set(a, [at |-> "change", link |-> l])
    BY <2>2 DEF From, Parts, Tables
  <2> QED
    BY <2>1, <2>2 DEF ReadLink
<1>3. PICK n : Set(a, [at |-> "change", link |-> n]) /\ LinkOK(n, w)
  BY <1>2
<1>4. HandOK([at |-> "change", link |-> n], w)
  BY <1>3 DEF HandOK
<1> QED
  BY <1>1, <1>3, <1>4, OnlyHand

LEMMA ShortFits == \A w : \A at \in {"wrote", "restart", "stopped"} : HandOK([at |-> at], w)
BY DEF HandOK

LEMMA ConfigureStep ==
    ASSUME NEW w, NEW v, From(w, v), NEW a \in Actors, Configure(a) \/ Halt(a) \/ Begin(a)
    PROVE  Parts(v)'
<1>1. UNCHANGED <<here, there, feeds, rows, lastLink, senders, cached, pairs, queueOf, queues>>
  BY DEF Configure, Halt, Begin, linkVars, rowVars, queueVars, textVars
<1>2. \E h : Set(a, h) /\ HandOK(h, w)
  BY IdleFits, ShortFits DEF Configure, Halt, Begin
<1> QED
  BY <1>1, <1>2, OnlyHand

LEMMA ReloadStep ==
    ASSUME NEW w, NEW v, From(w, v), NEW a \in Actors, Reload(a)
    PROVE  Parts(v)'
<1>1. /\ UNCHANGED <<here, there, feeds, rows, lastLink, senders, cached, pairs, queueOf, queues>>
      /\ Set(a, [at |-> "loaded", links |-> rows])
  BY DEF Reload, linkVars, rowVars, queueVars, textVars
<1>2. HandOK([at |-> "loaded", links |-> rows], w)
  BY DEF HandOK, From, Parts, Tables
<1> QED
  BY <1>1, <1>2, OnlyHand

LEMMA InstallStep ==
    ASSUME NEW w, NEW v, From(w, v), NEW a \in Actors, InstallLinks(a)
    PROVE  Parts(v)'
<1>1. /\ UNCHANGED <<here, there, feeds, rows, lastLink, senders, pairs, plan>>
      /\ hand[a].at = "loaded" /\ Install(hand[a].links, queues) /\ Set(a, Idle)
  BY DEF InstallLinks, textVars
<1>2. queues \in Seq(QueueRecs)
  BY Lengths DEF From
<1>3. Later(w, v) /\ Texts(v)
  BY <1>1, <1>2, InstallLength, StillWorld
<1>4. \A q \in 1..Len(queues) : QueueOK(queues[q], v)
  BY <1>3, QueueKept DEF From, Parts, Waiting
<1>5. Waiting(v)'
  BY <1>1, <1>2, <1>3, <1>4, InstallFits DEF From, Parts
<1>6. Tables(v)'
  <2>1. cached' = hand[a].links
    BY <1>1 DEF Install
  <2>2. HandOK(hand[a], v)
    BY <1>3, HandKept DEF From, Parts, Hands
  <2>3. \A l \in cached' : LinkOK(l, v)
    BY <1>1, <2>1, <2>2 DEF HandOK
  <2> QED
    BY <1>1, <1>3, <2>3, CacheIs DEF From, Parts
<1>7. Hands(v)'
  BY <1>1, <1>3, IdleFits, HandSet DEF From, Parts
<1> QED
  BY <1>1, <1>3, <1>5, <1>6, <1>7, PairedRest, FeedsRest DEF From, Parts, Texts

\* A request writes the rows, and has the links to load again.
LEMMA RowsStep ==
    ASSUME NEW w, NEW v, From(w, v), NEW a \in Actors, Set(a, [at |-> "wrote"]) \/ Set(a, Idle), pairs' \subseteq pairs,
           UNCHANGED <<here, there, feeds, senders, cached, queueOf, queues>>,
           lastLink' \in Nat, lastLink <= lastLink', Apart(rows'),
           \A l \in rows' : LinkOK(l, w) \/ LinkOK(l, v)
    PROVE  Parts(v)'
<1>1. /\ {Len(here), Len(there), lastLink, Len(senders), Len(queues)} \subseteq Nat
      /\ senders \in Seq(Chans \cup {"gone"})
  BY Lengths DEF From
<1>2. Later(w, v)
  BY <1>1, SameGrows, LaterIs
<1>3. Texts(v)
  <2>1. v.here = w.here /\ v.there = w.there /\ v.sole = w.sole
    BY <1>2 DEF From, Being, Later
  <2> QED
    BY <2>1 DEF From, Parts, Texts
<1>4. Tables(v)'
  <2>1. \A l \in rows' : LinkOK(l, v)
    BY <1>2, LinkKept
  <2>2. \A l \in cached : LinkOK(l, v)
    BY <1>2, LinkKept DEF From, Parts, Tables
  <2> QED
    BY <1>1, <2>1, <2>2 DEF Tables
<1>5. plan' = plan
  BY DEF From
<1>6. Hands(v)'
  BY <1>2, <1>5, IdleFits, ShortFits, HandSet DEF From, Parts
<1> QED
  BY <1>2, <1>3, <1>4, <1>5, <1>6, PairedRest, WaitingRests, FeedsRest DEF From, Parts, queueVars, Texts

\* A link keeps the source of the row it replaces, and channels of its own.
LEMMA UpdateStep ==
    ASSUME NEW w, NEW v, From(w, v), NEW a \in Actors, UpdateLink(a)
    PROVE  Parts(v)'
<1> DEFINE n == hand[a].link
           old == {l \in rows : l.id = n.id}
<1>1. /\ hand[a].at = "change"
      /\ UNCHANGED <<here, there, feeds, lastLink, senders, cached, pairs, queueOf, queues>>
  BY DEF UpdateLink, textVars, queueVars
<1>2. \/ /\ rows' = (rows \ old) \cup {[n EXCEPT !.source = l.source] : l \in old} /\ Free(n)
         /\ Set(a, [at |-> "wrote"])
      \/ rows' = rows /\ Set(a, Idle)
  BY DEF UpdateLink
<1>3. LinkOK(n, w) /\ n \in LinkRecs
  BY <1>1 DEF From, Parts, Hands, HandOK, LinkOK
<1>4. (\A l \in rows : LinkOK(l, w)) /\ Apart(rows) /\ lastLink \in Nat
  BY DEF From, Parts, Tables
<1>5. CASE rows' = rows
  BY <1>1, <1>2, <1>4, <1>5, RowsStep
<1>6. CASE /\ rows' = (rows \ old) \cup {[n EXCEPT !.source = l.source] : l \in old} /\ Free(n)
           /\ Set(a, [at |-> "wrote"])
  <2> DEFINE new(l) == [n EXCEPT !.source = l.source]
  <2>1. ASSUME NEW l \in rows
        PROVE  LinkOK(new(l), w) /\ new(l).id = n.id /\ new(l).chan = n.chan /\ new(l).place = n.place
    <3>1. l.source \in 0..w.senders /\ l.source \in Nat
      BY <1>4 DEF LinkOK, LinkRecs
    <3>2. /\ new(l) \in LinkRecs /\ new(l).source = l.source /\ new(l).id = n.id /\ new(l).chan = n.chan
          /\ new(l).place = n.place /\ new(l).hook = n.hook
      BY <1>3, <3>1 DEF LinkRecs
    <3> QED
      BY <1>3, <3>1, <3>2 DEF LinkOK
  <2>2. rows' = (rows \ old) \cup {new(l) : l \in old}
    BY <1>6
  <2> HIDE DEF new
  <2>3. \A l \in rows' : LinkOK(l, w)
    BY <1>4, <2>1, <2>2
  <2>4. Apart(rows')
    <3> SUFFICES ASSUME NEW k \in rows', NEW l \in rows', k # l
                 PROVE  k.id # l.id /\ k.chan # l.chan /\ k.place # l.place
      BY DEF Apart
    <3>1. \A x, y \in old : x = y
      BY <1>4 DEF Apart
    <3>2. \A x \in rows \ old : x.id # n.id /\ x.chan # n.chan /\ x.place # n.place
      BY <1>6 DEF Free
    <3>3. CASE k \in rows \ old /\ l \in rows \ old
      BY <1>4, <3>3 DEF Apart
    <3>4. CASE k \in rows \ old /\ \E x \in old : l = new(x)
      BY <2>1, <3>2, <3>4
    <3>5. CASE l \in rows \ old /\ \E x \in old : k = new(x)
      BY <2>1, <3>2, <3>5
    <3>6. ~((\E x \in old : k = new(x)) /\ (\E x \in old : l = new(x)))
      BY <3>1
    <3> QED
      BY <2>2, <3>3, <3>4, <3>5, <3>6
  <2> QED
    BY <1>1, <1>4, <1>6, <2>3, <2>4, RowsStep
<1> QED
  BY <1>2, <1>5, <1>6

\* A link made by a name the plan allows.
LEMMA NewIs ==
    ASSUME NEW chan \in Chans, NEW hook \in DOMAIN PlaceOf, lastLink \in Nat
    PROVE  /\ NewLink(chan, hook) \in LinkRecs /\ NewLink(chan, hook).id = lastLink + 1 /\ NewLink(chan, hook).source = 0
           /\ NewLink(chan, hook).place = PlaceOf[hook] /\ NewLink(chan, hook).chan = chan
           /\ NewLink(chan, hook).hook = hook
<1> DEFINE n1 == [FirstLink EXCEPT !.id = lastLink + 1]
           n2 == [n1 EXCEPT !.chan = chan]
           n3 == [n2 EXCEPT !.hook = hook]
           n4 == [n3 EXCEPT !.place = PlaceOf[hook]]
<1>1. NewLink(chan, hook) = n4
  BY DEF NewLink
<1>2. FirstLink \in LinkRecs /\ FirstLink.source = 0
  BY PlaceIs DEF FirstLink, LinkRecs, Chans, Places, Dirs
<1>3. n1 \in LinkRecs /\ n1.source = 0 /\ n1.id = lastLink + 1
  BY <1>2 DEF LinkRecs
<1> HIDE DEF n1
<1>4. n2 \in LinkRecs /\ n2.source = 0 /\ n2.id = lastLink + 1 /\ n2.chan = chan
  BY <1>3 DEF LinkRecs
<1> HIDE DEF n2
<1>5. n3 \in LinkRecs /\ n3.source = 0 /\ n3.id = lastLink + 1 /\ n3.chan = chan /\ n3.hook = hook
  BY <1>4 DEF LinkRecs
<1> HIDE DEF n3
<1>6. /\ n4 \in LinkRecs /\ n4.source = 0 /\ n4.id = lastLink + 1 /\ n4.chan = chan /\ n4.hook = hook
      /\ n4.place = PlaceOf[hook]
  BY <1>5, PlaceIs DEF LinkRecs
<1> HIDE DEF n4
<1> QED
  BY <1>1, <1>6

LEMMA NewFits ==
    ASSUME NEW v, NEW chan \in Chans, NEW hook \in DOMAIN PlaceOf, hook \in v.hooks, lastLink \in Nat,
           v.links \in Nat, lastLink + 1 <= v.links, v.senders \in Nat
    PROVE  LinkOK(NewLink(chan, hook), v)
BY NewIs DEF LinkOK

LEMMA CreateStep ==
    ASSUME NEW w, NEW v, From(w, v), NEW a \in Actors, CreateLink(a)
    PROVE  Parts(v)'
<1>1. /\ Ready(a, "admin") /\ Set(a, [at |-> "wrote"])
      /\ UNCHANGED <<here, there, feeds, senders, cached, pairs, queueOf, queues>>
  BY DEF CreateLink, textVars, queueVars
<1>2. PICK hook \in plan.hooks :
        /\ Free(NewLink(plan.chan, hook)) /\ rows' = rows \cup {NewLink(plan.chan, hook)}
        /\ lastLink' = NewLink(plan.chan, hook).id
  BY DEF CreateLink
<1> DEFINE n == NewLink(plan.chan, hook)
<1>3. plan \in Plans /\ plan.admins # 0 /\ HooksFit(w.hooks) /\ w.hooks = v.hooks
  BY <1>1, AdminIs DEF Ready, From, Settings
<1>4. plan.chan \in Chans /\ hook \in DOMAIN PlaceOf
  BY <1>3, BridgeFits DEF Chans
<1>5. hook \in v.hooks
  BY <1>2, <1>3, HooksUsed
<1>6. (\A l \in rows : LinkOK(l, w)) /\ Apart(rows) /\ lastLink \in Nat /\ Len(senders) \in Nat
  BY Lengths DEF From, Parts, Tables
<1>7. lastLink' = lastLink + 1 /\ n.id = lastLink + 1
  BY <1>2 DEF NewLink, FirstLink
<1>8. v.links = lastLink + 1 /\ v.senders = Len(senders) /\ w.links = lastLink
  BY <1>1, <1>7 DEF From, Being
<1>9. LinkOK(n, v)
  BY <1>4, <1>5, <1>6, <1>8, NewFits
<1>10. Apart(rows')
  <2>1. \A l \in rows : l.id # n.id
    BY <1>6, <1>7, <1>8 DEF LinkOK
  <2>2. \A l \in rows : l.id # n.id /\ l.chan # n.chan /\ l.place # n.place
    BY <1>2, <2>1 DEF Free
  <2> HIDE DEF n
  <2>3. rows' = rows \cup {n}
    BY <1>2 DEF n
  <2> QED
    BY <1>6, <2>2, <2>3 DEF Apart
<1> HIDE DEF n
<1>11. \A l \in rows' : LinkOK(l, w) \/ LinkOK(l, v)
  BY <1>2, <1>6, <1>9 DEF n
<1> QED
  BY <1>1, <1>6, <1>7, <1>10, <1>11, RowsStep

LEMMA DeleteLinkStep ==
    ASSUME NEW w, NEW v, From(w, v), NEW a \in Actors, DeleteLink(a)
    PROVE  Parts(v)'
<1>1. /\ Set(a, [at |-> "wrote"]) /\ rows' \subseteq rows /\ pairs' \subseteq pairs
      /\ UNCHANGED <<here, there, feeds, lastLink, senders, cached, queueOf, queues>>
  BY DEF DeleteLink, textVars, queueVars
<1>2. (\A l \in rows : LinkOK(l, w)) /\ Apart(rows) /\ lastLink \in Nat
  BY DEF From, Parts, Tables
<1>3. Apart(rows')
  BY <1>1, <1>2 DEF Apart
<1> QED
  BY <1>1, <1>2, <1>3, RowsStep

LEMMA DropStep ==
    ASSUME NEW w, NEW v, From(w, v), NEW a \in Actors, DropSender(a)
    PROVE  Parts(v)'
<1>1. PICK s \in DOMAIN senders : senders' = [senders EXCEPT ![s] = "gone"]
  BY DEF DropSender
<1>2. UNCHANGED <<here, there, feeds, rows, lastLink, cached, pairs, queueOf, queues, hand>>
  BY DEF DropSender, textVars, queueVars
<1>3. senders \in Seq(Chans \cup {"gone"}) /\ DOMAIN senders = 1..Len(senders)
  BY Lengths DEF From
<1>4. senders' \in Seq(Chans \cup {"gone"}) /\ Len(senders') = Len(senders)
  BY <1>1, <1>3, SeqPut
<1>5. Later(w, v) /\ Texts(v) /\ plan' = plan
  BY <1>2, <1>4, StillWorld DEF From
<1>6. Tables(v)'
  <2>1. \A l \in rows \cup cached : LinkOK(l, v)
    BY <1>5, LinkKept DEF From, Parts, Tables
  <2> QED
    BY <1>2, <1>4, <2>1 DEF From, Parts, Tables
<1> QED
  BY <1>2, <1>5, <1>6, PairedRest, WaitingRests, HandsRest, FeedsRest DEF From, Parts, queueVars, Texts

-----------------------------------------------------------------------------
(* The bridge: the server comes up again                                      *)

\* What a link of the file makes of the rows.
Swap(n, l) == [n EXCEPT !.id = l.id, !.source = l.source]
Named(f) == NewLink(f.chan, f.hook)
LEMMA SeededIs ==
    ASSUME NEW f
    PROVE  LET old == {l \in rows : l.place = PlaceOf[f.hook]}
           IN  \/ old = {} /\ Free(Named(f)) /\ Seeded(f) = rows \cup {Named(f)}
               \/ old = {} /\ Seeded(f) = rows
               \/ /\ old # {}
                  /\ Seeded(f) = {IF l \in old /\ Free([Named(f) EXCEPT !.id = l.id]) THEN Swap(Named(f), l) ELSE l : l \in rows}
BY DEF Seeded, Swap, Named

\* A new link in the place of another.
LEMMA SwapFits ==
    ASSUME NEW w, NEW n \in LinkRecs, n.hook \in w.hooks, n.place = PlaceOf[n.hook], NEW l,
           l.id \in 1..w.links, l.source \in 0..w.senders, {w.links, w.senders} \subseteq Nat
    PROVE  LinkOK(Swap(n, l), w)
<1> DEFINE n1 == [n EXCEPT !.id = l.id]
           n2 == [n1 EXCEPT !.source = l.source]
<1>1. l.id \in Nat /\ l.source \in Nat
  OBVIOUS
<1>2. n1 \in LinkRecs /\ n1.id = l.id /\ n1.place = n.place /\ n1.hook = n.hook
  BY <1>1 DEF LinkRecs
<1>3. Swap(n, l) = n2
  BY DEF Swap
<1> HIDE DEF n1
<1>4. n2 \in LinkRecs /\ n2.id = l.id /\ n2.place = n.place /\ n2.hook = n.hook /\ n2.source = l.source
  BY <1>1, <1>2 DEF LinkRecs
<1> QED
  BY <1>3, <1>4 DEF LinkOK

LEMMA SwapIs ==
    ASSUME NEW n \in LinkRecs, NEW l \in LinkRecs
    PROVE  /\ Swap(n, l).id = l.id /\ Swap(n, l).place = n.place /\ Swap(n, l).chan = n.chan
           /\ [n EXCEPT !.id = l.id].id = l.id /\ [n EXCEPT !.id = l.id].place = n.place /\ [n EXCEPT !.id = l.id].chan = n.chan
<1> DEFINE n1 == [n EXCEPT !.id = l.id]
           n2 == [n1 EXCEPT !.source = l.source]
<1>1. l.id \in Nat /\ l.source \in Nat
  BY DEF LinkRecs
<1>2. n1 \in LinkRecs /\ n1.id = l.id /\ n1.place = n.place /\ n1.chan = n.chan
  BY <1>1 DEF LinkRecs
<1>3. Swap(n, l) = n2
  BY DEF Swap
<1>4. [n EXCEPT !.id = l.id] = n1
  OBVIOUS
<1> HIDE DEF n1
<1>5. n2.id = l.id /\ n2.place = n.place /\ n2.chan = n.chan
  BY <1>1, <1>2 DEF LinkRecs
<1> QED
  BY <1>2, <1>3, <1>4, <1>5

\* The rows of a seeded table are links apart, and only a link of no row has a new id.
LEMMA SeededApart ==
    ASSUME NEW f \in [chan : Chans, hook : DOMAIN PlaceOf], lastLink \in Nat, Apart(rows),
           \A l \in rows : l \in LinkRecs /\ l.id \in 1..lastLink
    PROVE  /\ Apart(Seeded(f))
           /\ \/ Seeded(f) = rows \cup {Named(f)} /\ Named(f).id = lastLink + 1
              \/ \A l \in Seeded(f) : l.id \in 1..lastLink
<1> DEFINE n == Named(f)
           old == {l \in rows : l.place = PlaceOf[f.hook]}
<1>1. n \in LinkRecs /\ n.id = lastLink + 1 /\ n.place = PlaceOf[f.hook]
  BY NewIs DEF Named
<1>2. \/ old = {} /\ Free(n) /\ Seeded(f) = rows \cup {n}
      \/ old = {} /\ Seeded(f) = rows
      \/ Seeded(f) = {IF l \in old /\ Free([n EXCEPT !.id = l.id]) THEN Swap(n, l) ELSE l : l \in rows}
  BY SeededIs
<1> HIDE DEF n
<1>3. CASE Free(n) /\ Seeded(f) = rows \cup {n}
  <2>1. \A l \in rows : l.id # n.id
    BY <1>1
  <2>2. \A l \in rows : l.id # n.id /\ l.chan # n.chan /\ l.place # n.place
    BY <1>3, <2>1 DEF Free
  <2>3. Apart(Seeded(f))
    BY <1>3, <2>2 DEF Apart
  <2> QED
    BY <1>1, <1>3, <2>3 DEF n
<1>4. CASE Seeded(f) = rows
  BY <1>4
<1>5. CASE Seeded(f) = {IF l \in old /\ Free([n EXCEPT !.id = l.id]) THEN Swap(n, l) ELSE l : l \in rows}
  <2> DEFINE new(l) == IF l \in old /\ Free([n EXCEPT !.id = l.id]) THEN Swap(n, l) ELSE l
  <2>1. ASSUME NEW l \in rows
        PROVE  new(l).id = l.id
    BY <1>1, SwapIs
  <2>2. ASSUME NEW k \in rows, NEW l \in rows, k # l
        PROVE  new(k).chan # new(l).chan /\ new(k).place # new(l).place
    <3>1. k.id # l.id /\ k.chan # l.chan /\ k.place # l.place
      BY <2>2 DEF Apart
    <3>2. CASE new(k) = k /\ new(l) = l
      BY <3>1, <3>2
    <3>3. CASE k \in old /\ Free([n EXCEPT !.id = k.id]) /\ new(l) = l
      <4>1. l.chan # n.chan /\ l.place # n.place
        BY <1>1, <3>1, <3>3, SwapIs DEF Free
      <4> QED
        BY <1>1, <3>3, <4>1, SwapIs
    <3>4. CASE l \in old /\ Free([n EXCEPT !.id = l.id]) /\ new(k) = k
      <4>1. k.chan # n.chan /\ k.place # n.place
        BY <1>1, <3>1, <3>4, SwapIs DEF Free
      <4> QED
        BY <1>1, <3>4, <4>1, SwapIs
    <3>5. ~(k \in old /\ l \in old)
      BY <3>1
    <3> QED
      BY <3>2, <3>3, <3>4, <3>5
  <2>3. Seeded(f) = {new(l) : l \in rows}
    BY <1>5
  <2> HIDE DEF new
  <2>4. \A l \in Seeded(f) : l.id \in 1..lastLink
    BY <2>1, <2>3
  <2>5. Apart(Seeded(f))
    <3> SUFFICES ASSUME NEW k \in Seeded(f), NEW l \in Seeded(f), k # l
                 PROVE  k.id # l.id /\ k.chan # l.chan /\ k.place # l.place
      BY DEF Apart
    <3>1. PICK k0 \in rows : k = new(k0)
      BY <2>3
    <3>2. PICK l0 \in rows : l = new(l0)
      BY <2>3
    <3>3. k0 # l0 /\ k0.id # l0.id
      BY <3>1, <3>2 DEF Apart
    <3> QED
      BY <2>1, <2>2, <3>1, <3>2, <3>3
  <2> QED
    BY <2>4, <2>5
<1> QED
  BY <1>2, <1>3, <1>4, <1>5

\* They post through webhooks in use: all of them did, or the new link replaces all.
LEMMA SeededFits ==
    ASSUME NEW v, NEW f \in [chan : Chans, hook : DOMAIN PlaceOf], f.hook \in v.hooks, lastLink \in Nat, Apart(rows),
           {v.links, v.senders} \subseteq Nat, Seeded(f) = rows \cup {Named(f)} => lastLink + 1 <= v.links \/ Named(f) \in rows,
           \A l \in rows : l \in LinkRecs /\ l.id \in 1..v.links /\ l.source \in 0..v.senders,
           (\A l \in rows : LinkOK(l, v)) \/ (\A l \in rows : l.place = PlaceOf[f.hook])
    PROVE  \A l \in Seeded(f) : LinkOK(l, v)
<1> DEFINE n == Named(f)
           old == {l \in rows : l.place = PlaceOf[f.hook]}
<1>1. n \in LinkRecs /\ n.id = lastLink + 1 /\ n.place = PlaceOf[f.hook] /\ n.hook = f.hook
  BY NewIs DEF Named
<1>2. \/ old = {} /\ Seeded(f) = rows \cup {n}
      \/ old = {} /\ Seeded(f) = rows
      \/ Seeded(f) = {IF l \in old /\ Free([n EXCEPT !.id = l.id]) THEN Swap(n, l) ELSE l : l \in rows}
  BY SeededIs
<1>3. old = {} => \A l \in rows : LinkOK(l, v)
  OBVIOUS
<1>4. CASE old = {} /\ Seeded(f) = rows \cup {n}
  <2>1. n \in rows \/ LinkOK(n, v)
    BY <1>4, NewFits DEF Named
  <2> QED
    BY <1>3, <1>4, <2>1
<1>5. CASE old = {} /\ Seeded(f) = rows
  BY <1>3, <1>5
<1>6. CASE Seeded(f) = {IF l \in old /\ Free([n EXCEPT !.id = l.id]) THEN Swap(n, l) ELSE l : l \in rows}
  <2> HIDE DEF n
  <2>1. ASSUME NEW l \in rows
        PROVE  LinkOK(l, v) \/ (l \in old /\ Free([n EXCEPT !.id = l.id]))
    <3>1. CASE \A k \in rows : LinkOK(k, v)
      BY <3>1
    <3>2. CASE \A k \in rows : k.place = PlaceOf[f.hook]
      <4>1. \A k \in rows : k = l
        BY <3>2 DEF Apart
      <4>2. [n EXCEPT !.id = l.id].id = l.id
        BY <1>1, SwapIs
      <4> QED
        BY <3>2, <4>1, <4>2 DEF Free
    <3> QED
      BY <3>1, <3>2
  <2>2. ASSUME NEW l \in rows
        PROVE  LinkOK(Swap(n, l), v)
    BY <1>1, SwapFits
  <2> QED
    BY <1>6, <2>1, <2>2
<1> QED
  BY <1>2, <1>4, <1>5, <1>6

LEMMA WorldIs ==
    ASSUME NEW w \in Worlds
    PROVE  Being(w) /\ w.hooks \in SUBSET DOMAIN PlaceOf
BY DEF Worlds, World, Being

\* Nothing is queued, held or told yet.
LEMMA FreshIs ==
    ASSUME NEW w, queues = <<>>, queueOf = <<>>, hand = [a \in Actors |-> Idle], feeds = [g \in 1..plan.clients |-> <<>>]
    PROVE  Waiting(w) /\ Hands(w) /\ Feeds(w)
<1>1. Waiting(w)
  BY DEF Waiting
<1>2. Hands(w)
  BY IdleFits DEF Hands
<1>3. Feeds(w)
  BY DEF Feeds
<1> QED
  BY <1>1, <1>2, <1>3

LEMMA FreshNext ==
    ASSUME NEW w, plan' = plan, queues' = <<>>, queueOf' = <<>>, hand' = [a \in Actors |-> Idle],
           feeds' = [g \in 1..plan.clients |-> <<>>]
    PROVE  (Waiting(w) /\ Hands(w) /\ Feeds(w))'
<1>1. Waiting(w)'
  BY DEF Waiting
<1>2. Hands(w)'
  <2>1. Actors' = Actors
    BY DEF Actors
  <2> QED
    BY <2>1, IdleFits DEF Hands
<1>3. Feeds(w)'
  BY DEF Feeds
<1> QED
  BY <1>1, <1>2, <1>3

\* The webhooks in use once the rows are seeded: those there were, or the one the file names.
LEMMA HooksNext ==
    ASSUME Settings, NEW w, Being(w), HooksFit(w.hooks), Parts(w), NEW f \in file
    PROVE  \E hooks \in SUBSET DOMAIN PlaceOf :
            /\ HooksFit(hooks) /\ f.hook \in hooks
            /\ hooks = w.hooks \/ \A l \in rows : l.place = PlaceOf[f.hook]
<1>1. plan \in Plans /\ f \in plan.file
  BY DEF Settings
<1>2. w.hooks \subseteq DOMAIN PlaceOf
  BY PlaceIs DEF HooksFit
<1>3. CASE f.hook \in w.hooks
  BY <1>2, <1>3
<1>4. CASE OneHook(plan) /\ plan.admins = 0 /\ f.hook = "p2"
  <2>1. HooksFit({"p2"}) /\ w.hooks \in {{"p1"}, {"p2"}}
    BY <1>1, <1>4 DEF HooksFit
  <2>2. \A l \in rows : l.hook \in w.hooks /\ l.place = PlaceOf[l.hook]
    BY <1>4 DEF Parts, Tables, LinkOK, Being
  <2>3. \A l \in rows : l.place = PlaceOf[f.hook]
    BY <1>4, <2>1, <2>2, PlaceIs
  <2> QED
    BY <1>4, <2>1, <2>3, PlaceIs
<1> QED
  BY <1>1, <1>3, <1>4, HooksUsed

LEMMA RebootStep ==
    ASSUME BridgeInv, Reboot
    PROVE  \E w \in Worlds' : HooksFit(w.hooks)' /\ Parts(w)'
<1>1. PICK w \in Worlds : HooksFit(w.hooks) /\ Parts(w)
  BY DEF BridgeInv
<1>2. Being(w) /\ w.hooks \in SUBSET DOMAIN PlaceOf /\ Settings
  BY <1>1, WorldIs DEF BridgeInv
<1>3. /\ UNCHANGED <<plan, senders, pairs, here, there>>
      /\ rows' = IF file = {} THEN rows ELSE Seeded(CHOOSE f \in file : TRUE)
      /\ lastLink' = lastLink + Cardinality({l \in rows' : l.id > lastLink})
      /\ cached' = rows' /\ queueOf' = <<>> /\ queues' = <<>> /\ hand' = [a \in Actors |-> Idle]
      /\ feeds' = [g \in DOMAIN feeds |-> <<>>]
  BY DEF Reboot
<1>4. /\ \A l \in rows : LinkOK(l, w) /\ l \in LinkRecs /\ l.id \in 1..lastLink /\ l.source \in 0..Len(senders)
      /\ Apart(rows) /\ lastLink \in Nat /\ Len(senders) \in Nat /\ senders \in Seq(Chans \cup {"gone"})
  BY <1>1, <1>2, Lengths DEF Parts, Tables, LinkOK, Being
<1>5. plan \in Plans /\ file \in {plan.file, {}} /\ \A f \in plan.file : f \in [chan : Chans, hook : DOMAIN PlaceOf]
  BY <1>2, BridgeFits DEF Settings, Chans
\* The rows, and the ids that are new.
<1> DEFINE fresh == {l \in rows' : l.id > lastLink}
<1>0. lastLink' = lastLink + Cardinality(fresh)
  BY <1>3
<1>6. /\ Apart(rows') /\ lastLink' \in Nat /\ lastLink <= lastLink'
      /\ \A f \in file : rows' = Seeded(f) /\ rows' = rows \cup {Named(f)} => lastLink + 1 <= lastLink' \/ Named(f) \in rows
  <2>1. CASE \A l \in rows' : l.id \in 1..lastLink
    <3>1. fresh = {}
      BY <1>4, <2>1
    <3>2. lastLink' = lastLink
      <4> HIDE DEF fresh
      <4>1. Cardinality(fresh) = 0
        BY <3>1, FS_EmptySet
      <4> QED
        BY <1>0, <1>4, <4>1
    <3>3. Apart(rows')
      BY <1>3, <1>4, <1>5, SeededApart
    <3>4. ASSUME NEW f \in file, rows' = rows \cup {Named(f)}
          PROVE  FALSE
      <4>1. Named(f).id = lastLink + 1
        BY <1>4, <1>5, NewIs DEF Named
      <4> QED
        BY <1>4, <2>1, <3>4, <4>1
    <3> QED
      BY <1>4, <3>2, <3>3, <3>4
  <2>2. CASE file # {} /\ rows' = rows \cup {Named(CHOOSE f \in file : TRUE)} /\ Named(CHOOSE f \in file : TRUE).id = lastLink + 1
    <3> DEFINE n == Named(CHOOSE f \in file : TRUE)
    <3>1. Apart(rows')
      BY <1>3, <1>4, <1>5, <2>2, SeededApart
    <3>2. rows' = rows \cup {n} /\ n.id = lastLink + 1
      BY <2>2
    <3> HIDE DEF n
    <3>3. \A l \in rows' : l.id > lastLink <=> l = n
      BY <1>4, <3>2
    <3>4. fresh = {n}
      BY <3>2, <3>3
    <3>5. lastLink' = lastLink + 1
      <4> HIDE DEF fresh
      <4>1. Cardinality(fresh) = 1
        BY <3>4, FS_Singleton
      <4> QED
        BY <1>0, <4>1
    <3> QED
      BY <1>4, <3>1, <3>5
  <2>3. CASE file = {}
    BY <1>3, <1>4, <2>1, <2>3
  <2> QED
    BY <1>3, <1>4, <1>5, <2>1, <2>2, <2>3, SeededApart
\* The webhooks the links post through from now on.
<1>7. \E hooks \in SUBSET DOMAIN PlaceOf :
        /\ HooksFit(hooks)
        /\ \/ hooks = w.hooks /\ file = {} /\ rows' = rows
           \/ \E f \in file : /\ rows' = Seeded(f) /\ f.hook \in hooks
                              /\ hooks = w.hooks \/ \A l \in rows : l.place = PlaceOf[f.hook]
  <2>1. CASE file = {}
    BY <1>1, <1>2, <1>3, <2>1
  <2>2. CASE file # {}
    <3>1. (CHOOSE f \in file : TRUE) \in file
      BY <2>2
    <3> QED
      BY <1>1, <1>2, <1>3, <2>2, <3>1, HooksNext
  <2> QED
    BY <2>1, <2>2
<1>8. PICK hooks \in SUBSET DOMAIN PlaceOf :
        /\ HooksFit(hooks)
        /\ \/ hooks = w.hooks /\ file = {} /\ rows' = rows
           \/ \E f \in file : /\ rows' = Seeded(f) /\ f.hook \in hooks
                              /\ hooks = w.hooks \/ \A l \in rows : l.place = PlaceOf[f.hook]
  BY <1>7
<1>9. PICK v : v = World(hooks)'
  OBVIOUS
<1>10. v \in Worlds'
  BY <1>8, <1>9 DEF Worlds
<1>11. /\ v.here = here /\ v.there = there /\ v.links = lastLink' /\ v.senders = Len(senders) /\ v.sole = OneHook(plan)
       /\ v.hooks = hooks
       /\ w.here = here /\ w.there = there /\ w.links = lastLink /\ w.senders = Len(senders) /\ w.sole = OneHook(plan)
  BY <1>2, <1>3, <1>9 DEF World, Being, OneHook
<1>12. ASSUME hooks = w.hooks, NEW l, LinkOK(l, w)
       PROVE  LinkOK(l, v)
  BY <1>4, <1>6, <1>11, <1>12 DEF LinkOK
<1>13. \A l \in rows' : LinkOK(l, v)
  <2>1. CASE hooks = w.hooks /\ file = {} /\ rows' = rows
    BY <1>4, <1>12, <2>1
  <2>2. ASSUME NEW f \in file, rows' = Seeded(f), f.hook \in hooks,
               hooks = w.hooks \/ \A l \in rows : l.place = PlaceOf[f.hook]
        PROVE  \A l \in rows' : LinkOK(l, v)
    <3>1. f \in [chan : Chans, hook : DOMAIN PlaceOf] /\ f.hook \in v.hooks
      BY <1>5, <1>11, <2>2
    <3>2. {v.links, v.senders} \subseteq Nat /\ \A l \in rows : l \in LinkRecs /\ l.id \in 1..v.links /\ l.source \in 0..v.senders
      BY <1>4, <1>6, <1>11
    <3>3. (\A l \in rows : LinkOK(l, v)) \/ (\A l \in rows : l.place = PlaceOf[f.hook])
      BY <1>4, <1>12, <2>2
    <3>4. Seeded(f) = rows \cup {Named(f)} => lastLink + 1 <= v.links \/ Named(f) \in rows
      BY <1>6, <1>11, <2>2
    <3> QED
      BY <1>4, <2>2, <3>1, <3>2, <3>3, <3>4, SeededFits
  <2> QED
    BY <1>8, <2>1, <2>2
<1>14. Tables(v)'
  BY <1>3, <1>4, <1>6, <1>13 DEF Tables
<1>15. Texts(v) /\ Paired(v)'
  BY <1>1, <1>3, <1>11 DEF Parts, Texts, Paired
<1>16. (Waiting(v) /\ Hands(v) /\ Feeds(v))'
  <2>1. feeds' = [g \in 1..plan.clients |-> <<>>]
    BY <1>1, <1>3 DEF Parts, Feeds
  <2> QED
    BY <1>3, <2>1, FreshNext
<1>17. Parts(v)'
  BY <1>14, <1>15, <1>16 DEF Parts, Texts
<1>18. HooksFit(v.hooks)'
  BY <1>3, <1>8, <1>11 DEF HooksFit, OneHook
<1> QED
  BY <1>10, <1>17, <1>18

-----------------------------------------------------------------------------
(* The bridge: the whole of it                                                *)

LEMMA SettingsStep ==
    ASSUME Settings, [Next]_vars
    PROVE  Settings' /\ plan' = plan
<1>1. /\ plan \in Plans /\ enabled \in BOOLEAN /\ file \in {plan.file, {}} /\ lastClient \in Nat
      /\ {client, cancel} \subseteq 0..lastClient /\ running \subseteq 1..lastClient
  BY DEF Settings
<1>2. CASE UNCHANGED <<plan, settingsVars, clientVars>>
  BY <1>2 DEF Settings, settingsVars, clientVars
<1>3. ASSUME NEW a \in Actors, Configure(a)
      PROVE  Settings' /\ plan' = plan
  BY <1>1, <1>3 DEF Configure, Settings, clientVars
<1>4. ASSUME NEW a \in Actors, Halt(a)
      PROVE  Settings' /\ plan' = plan
  <2>1. UNCHANGED <<plan, enabled, file, lastClient>> /\ client' = 0 /\ cancel' = 0 /\ running' \subseteq running
    BY <1>4 DEF Halt, Stop, settingsVars
  <2> QED
    BY <1>1, <2>1 DEF Settings
<1>5. ASSUME NEW a \in Actors, Begin(a)
      PROVE  Settings' /\ plan' = plan
  <2>1. /\ UNCHANGED <<plan, enabled, file>> /\ lastClient' = lastClient + 1 /\ client' = lastClient + 1
        /\ cancel' = lastClient + 1 /\ running' = running \cup {lastClient + 1}
    BY <1>5 DEF Begin, settingsVars
  <2>2. lastClient' \in Nat /\ client' \in 0..lastClient' /\ cancel' \in 0..lastClient'
    BY <1>1, <2>1
  <2>3. \A g \in running' : g \in 1..lastClient'
    BY <1>1, <2>1
  <2> QED
    BY <1>1, <2>1, <2>2, <2>3 DEF Settings
<1>6. CASE Refused
  <2>1. /\ UNCHANGED <<plan, enabled, file, cancel, lastClient>> /\ running' \subseteq running /\ client' \in {0, client}
    BY <1>6 DEF Refused, settingsVars
  <2> QED
    BY <1>1, <2>1 DEF Settings
<1>7. CASE Reboot
  <2>1. /\ UNCHANGED <<plan, enabled, file>> /\ lastClient' \in {lastClient, lastClient + 1} /\ client' \in {0, lastClient'}
        /\ cancel' = client' /\ running' = {client'} \ {0}
    BY <1>7 DEF Reboot, settingsVars
  <2> QED
    BY <1>1, <2>1 DEF Settings
<1>8. ASSUME NEW a \in Actors, Request(a), ~Configure(a), ~Halt(a), ~Begin(a)
      PROVE  UNCHANGED <<plan, settingsVars, clientVars>>
  <2>1. CASE Write(a) \/ Edit(a) \/ Delete(a) \/ Look(a) \/ Read(a) \/ Take(a) \/ Put(a)
    BY <2>1 DEF Write, Edit, Delete, Look, Read, Take, Put
  <2>2. CASE ReadLink(a) \/ UpdateLink(a) \/ CreateLink(a) \/ DeleteLink(a) \/ DropSender(a) \/ Reload(a) \/ InstallLinks(a)
    BY <2>2 DEF ReadLink, UpdateLink, CreateLink, DeleteLink, DropSender, Reload, InstallLinks
  <2> QED
    BY <1>8, <2>1, <2>2 DEF Request
<1>9. ASSUME NEW q \in DOMAIN queues, Worker(q)
      PROVE  UNCHANGED <<plan, settingsVars, clientVars>>
  <2>1. CASE TakeJob(q) \/ Leave(q) \/ Execute(q) \/ ExecutePost(q) \/ RecordPosted(q) \/ PushEdit(q) \/ PushDelete(q)
    BY <2>1 DEF TakeJob, Leave, Execute, ExecutePost, Posting, RecordPosted, PushEdit, PushDelete
  <2>2. CASE \/ Provision(q) \/ ReloadInDelivery(q) \/ InstallInDelivery(q) \/ WriteIn(q)
             \/ WritePostIn(q) \/ RecordWritten(q) \/ ApplyEdit(q) \/ ApplyDelete(q)
    BY <2>2 DEF Provision, ReloadInDelivery, InstallInDelivery, WriteIn, WritePostIn, RecordWritten, ApplyEdit, ApplyDelete
  <2> QED
    BY <1>9, <2>1, <2>2 DEF Worker
<1>10. CASE Say \/ Amend \/ Withdraw \/ Sweep
  <2>1. UNCHANGED <<plan, settingsVars, clientVars>>
    BY <1>10 DEF Say, Amend, Withdraw, Sweep
  <2> QED
    BY <1>2, <2>1
<1>11. CASE UNCHANGED vars
  <2>1. UNCHANGED <<plan, settingsVars, clientVars>>
    BY <1>11 DEF vars
  <2> QED
    BY <1>2, <2>1
<1>12. ASSUME NEW a \in Actors, Request(a)
       PROVE  Settings' /\ plan' = plan
  <2>1. CASE Configure(a) \/ Halt(a) \/ Begin(a)
    BY <1>3, <1>4, <1>5, <2>1
  <2>2. CASE ~Configure(a) /\ ~Halt(a) /\ ~Begin(a)
    BY <1>2, <1>8, <1>12, <2>2
  <2> QED
    BY <2>1, <2>2
<1> QED
  BY <1>2, <1>6, <1>7, <1>9, <1>10, <1>11, <1>12 DEF Next

LEMMA RequestSteps ==
    ASSUME NEW w, NEW v, From(w, v), NEW a \in Actors, Request(a)
    PROVE  Parts(v)'
<1>1. CASE Write(a) \/ Edit(a) \/ Delete(a) \/ Look(a) \/ Read(a) \/ Take(a) \/ Put(a)
  BY <1>1, WriteStep, EditStep, DeleteStep, LookStep, ReadStep, TakeStep, PutStep
<1>2. CASE ReadLink(a) \/ UpdateLink(a) \/ CreateLink(a) \/ DeleteLink(a) \/ DropSender(a) \/ Reload(a) \/ InstallLinks(a)
  BY <1>2, ReadLinkStep, UpdateStep, CreateStep, DeleteLinkStep, DropStep, ReloadStep, InstallStep
<1>3. CASE Configure(a) \/ Halt(a) \/ Begin(a)
  BY <1>3, ConfigureStep
<1> QED
  BY <1>1, <1>2, <1>3 DEF Request

LEMMA WorkerSteps ==
    ASSUME NEW w, NEW v, From(w, v), NEW q \in DOMAIN queues, Worker(q)
    PROVE  Parts(v)'
<1>1. q \in 1..Len(queues)
  BY Lengths DEF From
<1>2. CASE TakeJob(q) \/ Leave(q)
  BY <1>1, <1>2, TakeJobStep, LeaveStep
<1>3. CASE Execute(q) \/ ExecutePost(q)
  BY <1>1, <1>3, PostingStep DEF Execute, ExecutePost
<1>4. CASE RecordPosted(q) \/ RecordWritten(q) \/ PushEdit(q) \/ PushDelete(q)
  BY <1>1, <1>4, RecordStep, PushStep
<1>5. CASE Provision(q) \/ ReloadInDelivery(q) \/ InstallInDelivery(q)
  BY <1>1, <1>5, ProvisionStep, ReloadInStep, InstallInStep
<1>6. CASE WriteIn(q) \/ WritePostIn(q) \/ ApplyEdit(q) \/ ApplyDelete(q)
  BY <1>1, <1>6, WriteInStep, ApplyStep
<1> QED
  BY <1>2, <1>3, <1>4, <1>5, <1>6 DEF Worker

\* What a step leaves is what it found, or follows from what it found.
LEMMA BridgeSteps ==
    ASSUME BridgeInv, [Next]_vars
    PROVE  BridgeInv'
<1>1. Settings' /\ plan' = plan
  BY SettingsStep DEF BridgeInv
<1>2. CASE Reboot
  BY <1>1, <1>2, RebootStep DEF BridgeInv
<1>3. ASSUME ~Reboot
      PROVE  BridgeInv'
  <2>1. PICK w \in Worlds : HooksFit(w.hooks) /\ Parts(w)
    BY DEF BridgeInv
  <2>2. Being(w) /\ w.hooks \in SUBSET DOMAIN PlaceOf
    BY <2>1, WorldIs
  <2>3. PICK v : v = World(w.hooks)'
    OBVIOUS
  <2>4. v \in Worlds' /\ Being(v)' /\ v.hooks = w.hooks
    BY <2>2, <2>3 DEF Worlds, World, Being
  <2>5. From(w, v)
    BY <1>1, <2>1, <2>2, <2>4 DEF From, BridgeInv
  <2>6. CASE UNCHANGED vars
    <3>1. UNCHANGED <<here, there, feeds, rows, lastLink, senders, cached, pairs, queueOf, queues, hand>>
      BY <2>6 DEF vars, linkVars, rowVars, queueVars, textVars
    <3>2. Parts(v)'
      BY <2>5, <3>1, OnlyPairs
    <3> QED
      BY <1>1, <2>1, <2>4, <3>2 DEF BridgeInv, HooksFit, OneHook
  <2>7. CASE Next
    <3>1. Parts(v)'
      <4>1. CASE \E a \in Actors : Request(a)
        BY <2>5, <4>1, RequestSteps
      <4>2. CASE \E q \in DOMAIN queues : Worker(q)
        BY <2>5, <4>2, WorkerSteps
      <4>3. CASE Say \/ Amend \/ Withdraw \/ Sweep \/ Refused
        BY <2>5, <4>3, SayStep, AmendStep, WithdrawStep, SweepStep, RefusedStep
      <4> QED
        BY <1>3, <2>7, <4>1, <4>2, <4>3 DEF Next
    <3> QED
      BY <1>1, <2>1, <2>4, <3>1 DEF BridgeInv, HooksFit, OneHook
  <2> QED
    BY <2>6, <2>7
<1> QED
  BY <1>2, <1>3

LEMMA InitFits ==
    ASSUME Init
    PROVE  BridgeInv
<1>1. /\ plan \in Plans /\ enabled = TRUE /\ file = plan.file /\ rows = {[FirstLink EXCEPT !.chan = plan.chan]}
      /\ lastLink = 1 /\ senders = <<>> /\ cached = rows /\ pairs = {} /\ queueOf = <<>> /\ queues = <<>>
      /\ client = 1 /\ cancel = 1 /\ running = {1} /\ lastClient = 1
      /\ feeds = [g \in 1..plan.clients |-> <<>>] /\ here = <<>> /\ there = <<>>
      /\ hand = [a \in Actors |-> Idle]
  BY DEF Init
<1>2. plan.chan \in Chans
  BY <1>1, BridgeFits DEF Chans
<1>3. Settings
  BY <1>1 DEF Settings
<1>4. \E hooks \in SUBSET DOMAIN PlaceOf : HooksFit(hooks) /\ "p1" \in hooks
  <2>1. CASE ~OneHook(plan)
    BY <2>1, PlaceIs DEF HooksFit
  <2>2. CASE OneHook(plan) /\ plan.admins = 0 /\ \E f \in plan.file : f.hook = "p2"
    <3>1. HooksFit({"p1"})
      BY <2>2 DEF HooksFit
    <3> QED
      BY <3>1, PlaceIs
  <2>3. CASE OneHook(plan) /\ ~(plan.admins = 0 /\ \E f \in plan.file : f.hook = "p2")
    <3>1. HooksFit({"p1", "q1"})
      BY <2>3 DEF HooksFit
    <3> QED
      BY <3>1, PlaceIs
  <2> QED
    BY <2>1, <2>2, <2>3
<1>5. PICK hooks \in SUBSET DOMAIN PlaceOf : HooksFit(hooks) /\ "p1" \in hooks
  BY <1>4
<1>6. PICK w \in Worlds : w = World(hooks)
  BY DEF Worlds
<1>7. /\ w.here = <<>> /\ w.there = <<>> /\ w.links = 1 /\ w.senders = 0 /\ w.hooks = hooks
  BY <1>1, <1>6 DEF World
<1>8. LinkOK([FirstLink EXCEPT !.chan = plan.chan], w)
  <2> DEFINE n == [FirstLink EXCEPT !.chan = plan.chan]
  <2>1. /\ FirstLink \in LinkRecs /\ FirstLink.source = 0 /\ FirstLink.id = 1 /\ FirstLink.hook = "p1" /\ FirstLink.place = "p"
    BY PlaceIs DEF FirstLink, LinkRecs, Chans, Places, Dirs
  <2>2. n \in LinkRecs /\ n.source = 0 /\ n.id = 1 /\ n.hook = "p1" /\ n.place = "p"
    BY <1>2, <2>1 DEF LinkRecs
  <2> QED
    BY <1>5, <1>7, <2>2, PlaceIs DEF LinkOK
<1>9. Tables(w)
  BY <1>1, <1>8 DEF Tables, Apart
<1>10. Texts(w) /\ Paired(w)
  BY <1>1, <1>7 DEF Texts, Paired
<1>11. Waiting(w) /\ Hands(w) /\ Feeds(w)
  BY <1>1, FreshIs
<1> QED
  BY <1>3, <1>5, <1>7, <1>9, <1>10, <1>11 DEF BridgeInv, Parts

LEMMA BridgeHolds == Spec => [](scene = "bridge" => BridgeInv)
<1>1. SceneInit => (scene = "bridge" => BridgeInv)
  BY InitFits DEF SceneInit
<1>2. (scene = "bridge" => BridgeInv) /\ [SceneNext]_<<scene, vars, lineVars>> => (scene = "bridge" => BridgeInv)'
  <2> SUFFICES ASSUME scene = "bridge" => BridgeInv, [SceneNext]_<<scene, vars, lineVars>>, scene' = "bridge"
               PROVE  BridgeInv'
    OBVIOUS
  <2>1. CASE scene = "bridge" /\ Next /\ UNCHANGED <<scene, lineVars>>
    BY <2>1, BridgeSteps
  <2>2. CASE scene = "client" /\ Line!Next /\ UNCHANGED <<scene, bridgeVars>>
    BY <2>2
  <2>3. CASE UNCHANGED <<scene, vars, lineVars>>
    <3>1. UNCHANGED vars /\ scene' = scene
      BY <2>3
    <3> QED
      BY <3>1, BridgeSteps
  <2> QED
    BY <2>1, <2>2, <2>3 DEF SceneNext
<1> QED
  BY <1>1, <1>2, PTL DEF Spec

\* In either scene every variable has its type: links are apart and name webhooks rows
\* there are, pairings name messages there are, and every link's queue exists.
THEOREM DiscordKeepsTypes == Spec => []EveryTypeOK
<1>1. BridgeInv => TypeOK
  <2> SUFFICES ASSUME BridgeInv
               PROVE  TypeOK
    OBVIOUS
  <2>1. PICK w \in Worlds : HooksFit(w.hooks) /\ Parts(w)
    BY DEF BridgeInv
  <2>2. Being(w) /\ w.hooks \subseteq DOMAIN PlaceOf /\ Settings
    BY <2>1, WorldIs DEF BridgeInv
  <2>3. \A l \in rows \cup cached :
            /\ l.id \in 1..lastLink /\ l.dir \in Dirs /\ l.on \in BOOLEAN
            /\ l.hook \in DOMAIN PlaceOf /\ l.source \in 0..Len(senders)
    BY <2>1, <2>2 DEF Parts, Tables, LinkOK, LinkRecs, Being
  <2>4. \A k, l \in rows : k # l => k.id # l.id /\ k.chan # l.chan /\ k.place # l.place
    BY <2>1 DEF Parts, Tables, Apart
  <2>5. \A p \in pairs : p.here \in 1..Len(here) /\ p.there \in 1..Len(there)
    BY <2>1, <2>2 DEF Parts, Paired, Being
  <2>6. \A l \in DOMAIN queueOf : queueOf[l] \in 1..Len(queues)
    BY <2>1 DEF Parts, Waiting
  <2>7. \A q \in 1..Len(queues) : \A i \in 1..Len(queues[q].jobs) : queues[q].jobs[i].do \in Jobs
    BY <2>1 DEF Parts, Waiting, QueueOK, DeliveryOK, Deliveries
  <2>8. DOMAIN hand = Actors
    BY <2>1 DEF Parts, Hands
  <2> QED
    BY <2>2, <2>3, <2>4, <2>5, <2>6, <2>7, <2>8 DEF TypeOK, Settings
<1>2. (scene = "bridge" => BridgeInv) /\ (scene = "client" => ClientInv) => EveryTypeOK
  BY <1>1 DEF EveryTypeOK, ClientInv, LineTyped
<1> QED
  BY <1>2, BridgeHolds, ClientHolds, PTL

\* No message is carried back to the side it was written on, where a channel on Discord
\* keeps its webhook: what a link posts is recognised by whoever may post there.
THEOREM NoEchoes ==
    ASSUME HooksStay
    PROVE  Spec => []EchoesEnd
<1>1. BridgeInv => NothingComesBack
  <2> SUFFICES ASSUME BridgeInv
               PROVE  NothingComesBack
    OBVIOUS
  <2>1. PICK w \in Worlds : HooksFit(w.hooks) /\ Parts(w)
    BY DEF BridgeInv
  <2>2. Being(w) /\ w.sole
    BY <2>1, WorldIs DEF BridgeInv, Settings, Being, HooksStay
  <2>3. /\ here \in Seq(Ours \cup {Gone}) /\ there \in Seq(Theirs \cup {Gone})
        /\ DOMAIN here = 1..Len(here) /\ DOMAIN there = 1..Len(there)
    BY <2>1, <2>2, Lengths
  <2>4. ASSUME NEW d \in DOMAIN there, there[d] # Gone, there[d].of # 0, NEW i \in CopiesHere(d)
        PROVE  FALSE
    <3>1. i \in 1..Len(here) /\ here[i] # Gone /\ here[i].of = d /\ d # 0
      BY <2>3, <2>4 DEF CopiesHere
    <3>2. Own(there, d)
      BY <2>1, <2>2, <3>1 DEF Parts, Texts, Being
    <3> QED
      BY <2>4, <3>2 DEF Own
  <2>5. ASSUME NEW m \in DOMAIN here, here[m] # Gone, here[m].of # 0, NEW i \in CopiesThere(m)
        PROVE  FALSE
    <3>1. i \in 1..Len(there) /\ there[i] # Gone /\ there[i].of = m /\ m # 0
      BY <2>3, <2>5 DEF CopiesThere
    <3>2. Own(here, m)
      BY <2>1, <2>2, <3>1 DEF Parts, Texts, Being
    <3> QED
      BY <2>5, <3>2 DEF Own
  <2> QED
    BY <2>4, <2>5 DEF NothingComesBack
<1>2. (scene = "bridge" => BridgeInv) => EchoesEnd
  BY <1>1 DEF EchoesEnd
<1> QED
  BY <1>2, BridgeHolds, PTL
=============================================================================
