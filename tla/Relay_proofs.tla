----------------------------- MODULE Relay_proofs -----------------------------
(***************************************************************************)
(* The safety of the relay, for any number of users, channels, purposes    *)
(* and overlapping calls.                                                  *)
(*                                                                         *)
(* The map of rooms first.  A step of one call works on a room it  *)
(* was given a step earlier, so the inductive invariant is about what is   *)
(* in hand: whatever room a thread holds was made by a Join that has taken *)
(* it, a peer is only ever in the room its own Join took, and a room that  *)
(* is forgotten is never registered again, because a Join makes a room     *)
(* only when it takes one, and takes one only once.                        *)
(*                                                                         *)
(* Then the media of one room.  What a change owes is worked off edit by   *)
(* edit while answers arrive, so the invariant is about what is owed: the  *)
(* edits in hand are exactly the difference between what everybody is sent *)
(* and what they are entitled to, and what a client has not been told is   *)
(* in an offer that is still to come.                                      *)
(***************************************************************************)
EXTENDS MCRelay, TLAPS

\* The Joins that have taken a room.
Taken(j) == pc[Call(j)] \in {"admit", "answer", "done"}

\* What a thread is for, by where it is, and that it has a room where it needs one.
Fit(t) ==
    /\ pc[t] \in {"take", "admit", "answer"} => t[1] = "call" /\ t[2] \in Joins
    /\ pc[t] = "check" => t[1] = "evict"
    /\ pc[t] = "each" => t[1] = "call" /\ t[2] \in Calls
    /\ pc[t] \in {"remove", "look", "drop", "admit", "answer", "check"} => room[t] # None

Admitted(j) == pc[Call(j)] \in {"answer", "done"} /\ room[Call(j)] # None

ThreadsFit ==
    /\ \A j \in Joins : op[j] = "join"
    /\ \A x \in Calls : op[x] # "join"
    /\ \A t \in Threads : Fit(t)
    /\ \A j \in open : Admitted(j)

\* Every room in the map or in hand was taken by the Join it is named for, and belongs to its channel.
RoomsTaken ==
    /\ \A c \in Channels : rooms[c] # None => Taken(rooms[c]) /\ goal[rooms[c]][1] = c
    /\ \A t \in Threads : room[t] # None => Taken(room[t])
    /\ \A t \in Threads : \A r \in rest[t] : Taken(r)
    /\ \A j \in Joins : pc[Call(j)] = "admit" => goal[room[Call(j)]][1] = goal[j][1]

\* A peer is in the room its Join took and under the user of that Join.
PeersSeated ==
    \A r \in Joins, u \in Users : LET p == peers[r][u] IN
        p # None => pc[Call(p)] \in {"answer", "done"} /\ room[Call(p)] = r /\ goal[p][2] = u

\* What RoomsAreCurrent rests on: a peer on its way into a room that is still registered is current too.
ArrivalsCurrent ==
    \A j \in Joins : pc[Call(j)] = "admit" /\ room[Call(j)] \in Registered => made[j] = settings

\* The rooms that are about to be closed are not in the map.
ForgottenForGood ==
    \A t \in Threads : pc[t] = "closeall" => rest[t] \cap Registered = {}

\* Somebody is about to enter an empty room, or about to see that it is empty.
Attended(r) == \E t \in Threads : pc[t] \in {"look", "drop", "admit"} /\ room[t] = r

EmptyRoomsAttended ==
    \A c \in Channels \ spoilt : rooms[c] # None /\ Empty(rooms[c]) => Attended(rooms[c])

\* As long as no two Joins of one user into one channel overlapped, none do.
NoneOverlap ==
    ~doubled => \A j, k \in Joins : goal[j] = goal[k] /\ Busy(Call(j)) /\ Busy(Call(k)) => j = k

\* A Join that has left the room its channel has is not in it again.
HasLeft(k) ==
    LET r == rooms[goal[k][1]] IN
    \/ pc[Call(k)] \in {"look", "drop", "take", "admit"}
    \/ pc[Call(k)] = "remove" /\ r # room[Call(k)]

USE RoomsAssumption DEF relayVars, history

-----------------------------------------------------------------------------
(* Threads                                                                  *)

LEMMA ThreadsAre ==
    /\ \A x \in Joins \cup Calls : Call(x) \in Threads /\ Call(x)[1] = "call" /\ Call(x)[2] = x
    /\ \A j \in Joins : Evict(j) \in Threads /\ Evict(j)[1] = "evict" /\ Evict(j)[2] = j
    /\ \A t \in Threads : \/ t[1] = "call" /\ t[2] \in Joins \cup Calls /\ t = Call(t[2])
                          \/ t[1] = "evict" /\ t[2] \in Joins /\ t = Evict(t[2])
BY DEF Threads, Call, Evict

-----------------------------------------------------------------------------
(* Types and what threads are for                                           *)

\* The flags apart, which the provers treat apart.
Flags == closed \in BOOLEAN /\ uprooted \in BOOLEAN /\ doubled \in BOOLEAN

TypesButFlags ==
    /\ rooms \in [Channels -> Joins \cup {None}]
    /\ peers \in [Joins -> [Users -> Joins \cup {None}]]
    /\ open \subseteq Joins
    /\ made \in [Joins -> Nat]
    /\ settings \in Nat
    /\ pc \in [Threads -> Steps]
    /\ op \in [Joins \cup Calls -> {"join", "leave", "leaveall", "close"}]
    /\ goal \in [Joins \cup Calls -> Channels \X Users]
    /\ room \in [Threads -> Joins \cup {None}]
    /\ rest \in [Threads -> SUBSET Joins]
    /\ spoilt \subseteq Channels

Typed == TypesButFlags /\ ThreadsFit

LEMMA TypedInit == Init => Typed
BY ThreadsAre DEF Init, Typed, TypesButFlags, ThreadsFit, Fit, Steps

\* What a call is about is a channel and a user.
LEMMA GoalFits ==
    ASSUME TypesButFlags, NEW t \in Threads
    PROVE  ChannelOf(t) \in Channels /\ UserOf(t) \in Users
<1>1. t[2] \in Joins \cup Calls
  BY ThreadsAre
<1>2. goal[t[2]] \in Channels \X Users
  BY <1>1 DEF TypesButFlags
<1> QED
  BY <1>1, <1>2 DEF ChannelOf, UserOf

\* CloseChannel, Reconfigure and Close are ways to forget rooms.
LEMMA Forgets ==
    ASSUME TypesButFlags, NEW x \in Calls, CloseChannel(x) \/ Reconfigure(x) \/ Close(x)
    PROVE  settings' \in Nat /\ \E cs \in SUBSET Channels : Forget(x, cs)
<1>1. goal[x][1] \in Channels
  BY GoalFits, ThreadsAre DEF ChannelOf
<1> QED
  BY <1>1 DEF CloseChannel, Reconfigure, Close, SwappedRooms, TypesButFlags

LEMMA TypedStep ==
    ASSUME Typed, Next
    PROVE  Typed'
<1> USE DEF Typed, Goto
<1>1. ASSUME NEW j \in Joins, Join(j)
      PROVE  Typed'
  <2>1. TypesButFlags'
    BY <1>1, ThreadsAre DEF TypesButFlags, ThreadsFit, Fit, Steps, Join
  <2>2. ASSUME NEW s \in Threads
        PROVE  Fit(s)'
    BY <1>1, <2>1, <2>2, ThreadsAre DEF TypesButFlags, ThreadsFit, Fit, Join
  <2>3. ASSUME NEW k \in open'
        PROVE  Admitted(k)'
    BY <1>1, <2>1, <2>3, ThreadsAre DEF TypesButFlags, ThreadsFit, Admitted, Join
  <2>4. (\A k \in Joins : op'[k] = "join") /\ (\A y \in Calls : op'[y] # "join")
    BY <1>1, <2>1, ThreadsAre DEF TypesButFlags, ThreadsFit, Join
  <2> QED
    BY <2>1, <2>2, <2>3, <2>4 DEF ThreadsFit
<1>2. ASSUME NEW j \in Joins, Fail(j)
      PROVE  Typed'
  <2>0. Admitted(j) /\ Call(j) \in Threads /\ Evict(j) \in Threads
    BY <1>2, ThreadsAre DEF ThreadsFit, Fail
  <2>1. TypesButFlags'
    BY <1>2, <2>0 DEF TypesButFlags, Steps, Fail
  <2>2. ASSUME NEW s \in Threads
        PROVE  Fit(s)'
    <3>1. CASE s = Evict(j)
      BY <1>2, <2>0, <3>1, ThreadsAre DEF TypesButFlags, Fit, Admitted, Fail
    <3>2. CASE s # Evict(j)
      BY <1>2, <2>0, <3>2 DEF TypesButFlags, ThreadsFit, Fit, Fail
    <3> QED
      BY <3>1, <3>2
  <2>3. ASSUME NEW k \in open'
        PROVE  Admitted(k)'
    BY <1>2, <2>3, ThreadsAre DEF TypesButFlags, ThreadsFit, Admitted, Fail
  <2> QED
    BY <1>2, <2>1, <2>2, <2>3 DEF ThreadsFit, Fail
<1>3. ASSUME NEW x \in Calls, Leave(x)
      PROVE  Typed'
  <2>1. TypesButFlags'
    BY <1>3, ThreadsAre DEF TypesButFlags, ThreadsFit, Fit, Steps, Leave
  <2>2. ASSUME NEW s \in Threads
        PROVE  Fit(s)'
    BY <1>3, <2>1, <2>2, ThreadsAre DEF TypesButFlags, ThreadsFit, Fit, Leave
  <2>3. ASSUME NEW k \in open'
        PROVE  Admitted(k)'
    BY <1>3, <2>1, <2>3, ThreadsAre DEF TypesButFlags, ThreadsFit, Admitted, Leave
  <2>4. (\A k \in Joins : op'[k] = "join") /\ (\A y \in Calls : op'[y] # "join")
    BY <1>3, <2>1, ThreadsAre DEF TypesButFlags, ThreadsFit, Leave
  <2> QED
    BY <2>1, <2>2, <2>3, <2>4 DEF ThreadsFit
<1>4. ASSUME NEW x \in Calls, LeaveAll(x)
      PROVE  Typed'
  <2>1. TypesButFlags'
    BY <1>4, ThreadsAre DEF TypesButFlags, ThreadsFit, Fit, Steps, LeaveAll, Registered, RoomsOf
  <2>2. ASSUME NEW s \in Threads
        PROVE  Fit(s)'
    BY <1>4, <2>1, <2>2, ThreadsAre DEF TypesButFlags, ThreadsFit, Fit, LeaveAll, Registered, RoomsOf
  <2>3. ASSUME NEW k \in open'
        PROVE  Admitted(k)'
    BY <1>4, <2>1, <2>3, ThreadsAre DEF TypesButFlags, ThreadsFit, Admitted, LeaveAll, Registered, RoomsOf
  <2>4. (\A k \in Joins : op'[k] = "join") /\ (\A y \in Calls : op'[y] # "join")
    BY <1>4, <2>1, ThreadsAre DEF TypesButFlags, ThreadsFit, LeaveAll, Registered, RoomsOf
  <2> QED
    BY <2>1, <2>2, <2>3, <2>4 DEF ThreadsFit
<1>5. ASSUME NEW x \in Calls, NEW cs \in SUBSET Channels, Forget(x, cs), settings' \in Nat
      PROVE  Typed'
  <2>1. TypesButFlags'
    <3>1. RoomsOf(cs) \subseteq Joins
      BY DEF TypesButFlags, RoomsOf
    <3>2. rest' \in [Threads -> SUBSET Joins]
      BY <1>5, <3>1, ThreadsAre DEF TypesButFlags, Forget
    <3>3. rooms' \in [Channels -> Joins \cup {None}]
      BY <1>5 DEF TypesButFlags, Forget
    <3> QED
      BY <1>5, <3>2, <3>3, ThreadsAre DEF TypesButFlags, Steps, Forget
  <2>2. ASSUME NEW s \in Threads
        PROVE  Fit(s)'
    BY <1>5, <2>2, ThreadsAre DEF TypesButFlags, ThreadsFit, Fit, Forget
  <2>3. ASSUME NEW k \in open'
        PROVE  Admitted(k)'
    BY <1>5, <2>3, ThreadsAre DEF TypesButFlags, ThreadsFit, Admitted, Forget
  <2>4. (\A k \in Joins : op'[k] = "join") /\ (\A y \in Calls : op'[y] # "join")
    BY <1>5, ThreadsAre DEF TypesButFlags, ThreadsFit, Forget
  <2> QED
    BY <2>1, <2>2, <2>3, <2>4 DEF ThreadsFit
<1>6. ASSUME NEW t \in Threads, Find(t)
      PROVE  Typed'
  <2>1. TypesButFlags'
    BY <1>6, ThreadsAre, GoalFits DEF TypesButFlags, ThreadsFit, Fit, Steps, Find, After
  <2>2. ASSUME NEW s \in Threads
        PROVE  Fit(s)'
    BY <1>6, <2>1, <2>2, ThreadsAre DEF TypesButFlags, ThreadsFit, Fit, Find, After
  <2>3. ASSUME NEW k \in open'
        PROVE  Admitted(k)'
    BY <1>6, <2>1, <2>3, ThreadsAre DEF TypesButFlags, ThreadsFit, Admitted, Find, After
  <2>4. (\A k \in Joins : op'[k] = "join") /\ (\A y \in Calls : op'[y] # "join")
    BY <1>6, <2>1, ThreadsAre DEF TypesButFlags, ThreadsFit, Find, After
  <2> QED
    BY <2>1, <2>2, <2>3, <2>4 DEF ThreadsFit
<1>7. ASSUME NEW t \in Threads, Remove(t)
      PROVE  Typed'
  <2>1. TypesButFlags'
    BY <1>7, ThreadsAre, GoalFits DEF TypesButFlags, ThreadsFit, Fit, Steps, Remove
  <2>2. ASSUME NEW s \in Threads
        PROVE  Fit(s)'
    BY <1>7, <2>1, <2>2, ThreadsAre DEF TypesButFlags, ThreadsFit, Fit, Remove
  <2>3. ASSUME NEW k \in open'
        PROVE  Admitted(k)'
    BY <1>7, <2>1, <2>3, ThreadsAre DEF TypesButFlags, ThreadsFit, Admitted, Remove
  <2>4. (\A k \in Joins : op'[k] = "join") /\ (\A y \in Calls : op'[y] # "join")
    BY <1>7, <2>1, ThreadsAre DEF TypesButFlags, ThreadsFit, Remove
  <2> QED
    BY <2>1, <2>2, <2>3, <2>4 DEF ThreadsFit
<1>8. ASSUME NEW t \in Threads, Look(t) \/ Drop(t)
      PROVE  Typed'
  <2>1. TypesButFlags'
    <3>1. pc' \in [Threads -> Steps]
      BY <1>8, ThreadsAre, GoalFits DEF TypesButFlags, ThreadsFit, Fit, Steps, Look, Drop, After
    <3>2. rooms' \in [Channels -> Joins \cup {None}]
      BY <1>8, ThreadsAre, GoalFits DEF TypesButFlags, ThreadsFit, Fit, Steps, Look, Drop, After
    <3> QED
      BY <1>8, <3>1, <3>2 DEF TypesButFlags, Look, Drop, After
  <2>2. ASSUME NEW s \in Threads
        PROVE  Fit(s)'
    BY <1>8, <2>1, <2>2, ThreadsAre DEF TypesButFlags, ThreadsFit, Fit, Look, Drop, After
  <2>3. ASSUME NEW k \in open'
        PROVE  Admitted(k)'
    BY <1>8, <2>1, <2>3, ThreadsAre DEF TypesButFlags, ThreadsFit, Admitted, Look, Drop, After
  <2>4. (\A k \in Joins : op'[k] = "join") /\ (\A y \in Calls : op'[y] # "join")
    BY <1>8, <2>1, ThreadsAre DEF TypesButFlags, ThreadsFit, Look, Drop, After
  <2> QED
    BY <2>1, <2>2, <2>3, <2>4 DEF ThreadsFit
<1>9. ASSUME NEW t \in Threads, Each(t)
      PROVE  Typed'
  <2>1. TypesButFlags'
    <3>1. pc' \in [Threads -> Steps]
      <4>1. pc' = [pc EXCEPT ![t] = "done"] \/ pc' = [pc EXCEPT ![t] = "remove"]
        BY <1>9 DEF Each
      <4> QED
        BY <4>1 DEF TypesButFlags, Steps
    <3>2. room' \in [Threads -> Joins \cup {None}]
      BY <1>9 DEF TypesButFlags, Steps, Each
    <3>3. rest' \in [Threads -> SUBSET Joins]
      BY <1>9 DEF TypesButFlags, Steps, Each
    <3> QED
      BY <1>9, <3>1, <3>2, <3>3 DEF TypesButFlags, Each
  <2>2. ASSUME NEW s \in Threads
        PROVE  Fit(s)'
    BY <1>9, <2>1, <2>2, ThreadsAre DEF TypesButFlags, ThreadsFit, Fit, Each
  <2>3. ASSUME NEW k \in open'
        PROVE  Admitted(k)'
    BY <1>9, <2>1, <2>3, ThreadsAre DEF TypesButFlags, ThreadsFit, Admitted, Each
  <2>4. (\A k \in Joins : op'[k] = "join") /\ (\A y \in Calls : op'[y] # "join")
    BY <1>9, <2>1, ThreadsAre DEF TypesButFlags, ThreadsFit, Each
  <2> QED
    BY <2>1, <2>2, <2>3, <2>4 DEF ThreadsFit
<1>10. ASSUME NEW t \in Threads, Take(t)
      PROVE  Typed'
  <2>0. t[2] \in Joins /\ t = Call(t[2])
    BY <1>10, ThreadsAre DEF ThreadsFit, Fit, Take
  <2>1. TypesButFlags'
    <3>1. CASE closed
      BY <1>10, <3>1 DEF TypesButFlags, Steps, Take
    <3>2. CASE ~closed
      <4> DEFINE r == IF rooms[ChannelOf(t)] = None THEN t[2] ELSE rooms[ChannelOf(t)]
      <4>1. r \in Joins
        BY <2>0, GoalFits DEF TypesButFlags
      <4>2. /\ rooms' = [rooms EXCEPT ![ChannelOf(t)] = r]
            /\ room' = [room EXCEPT ![t] = r]
            /\ made' = [made EXCEPT ![t[2]] = settings]
            /\ pc' = [pc EXCEPT ![t] = "admit"]
            /\ UNCHANGED <<peers, open, settings, closed, op, goal, rest, history>>
        BY <1>10, <3>2 DEF Take
      <4> HIDE DEF r
      <4> QED
        BY <4>1, <4>2 DEF TypesButFlags, Steps
    <3> QED
      BY <3>1, <3>2
  <2>2. ASSUME NEW s \in Threads
        PROVE  Fit(s)'
    BY <1>10, <2>0, <2>1, <2>2, GoalFits DEF TypesButFlags, ThreadsFit, Fit, Take
  <2>3. ASSUME NEW k \in open'
        PROVE  Admitted(k)'
    <3>1. k \in open /\ Admitted(k) /\ Call(k) \in Threads /\ Call(k) # t
      BY <1>10, <2>3, ThreadsAre DEF TypesButFlags, ThreadsFit, Admitted, Take
    <3> QED
      BY <1>10, <3>1 DEF TypesButFlags, Admitted, Take
  <2> QED
    BY <1>10, <2>1, <2>2, <2>3 DEF ThreadsFit, Take
<1>11. ASSUME NEW t \in Threads, Admit(t)
      PROVE  Typed'
  <2>0. t[2] \in Joins /\ t = Call(t[2]) /\ room[t] \in Joins
    BY <1>11, ThreadsAre DEF TypesButFlags, ThreadsFit, Fit, Admit
  <2>1. TypesButFlags'
    <3>1. peers' \in [Joins -> [Users -> Joins \cup {None}]]
      <4>1. CASE UNCHANGED peers
        BY <4>1 DEF TypesButFlags
      <4>2. CASE peers' = [peers EXCEPT ![room[t]][UserOf(t)] = t[2]]
        BY <2>0, <4>2, GoalFits DEF TypesButFlags
      <4> QED
        BY <1>11, <4>1, <4>2 DEF Admit
    <3>2. spoilt' \subseteq Channels
      BY <1>11, GoalFits DEF TypesButFlags, Admit
    <3> QED
      BY <1>11, <2>0, <3>1, <3>2 DEF TypesButFlags, Steps, Admit
  <2>2. ASSUME NEW s \in Threads
        PROVE  Fit(s)'
    BY <1>11, <2>2 DEF TypesButFlags, ThreadsFit, Fit, Admit
  <2>3. ASSUME NEW k \in open'
        PROVE  Admitted(k)'
    <3>1. CASE k = t[2]
      BY <1>11, <2>0, <2>3, <3>1 DEF TypesButFlags, ThreadsFit, Admitted, Admit
    <3>2. CASE k # t[2]
      <4>1. k \in open /\ Admitted(k) /\ Call(k) \in Threads /\ Call(k) # t
        BY <1>11, <2>0, <2>3, <3>2, ThreadsAre DEF TypesButFlags, ThreadsFit, Admit
      <4> QED
        BY <1>11, <4>1 DEF TypesButFlags, Admitted, Admit
    <3> QED
      BY <3>1, <3>2
  <2> QED
    BY <1>11, <2>1, <2>2, <2>3 DEF ThreadsFit, Admit
<1>12. ASSUME NEW t \in Threads, Answer(t)
      PROVE  Typed'
  <2>0. /\ t[2] \in Joins /\ t = Call(t[2]) /\ Evict(t[2]) \in Threads /\ t # Evict(t[2])
        /\ Evict(t[2])[1] = "evict" /\ room[t] # None
    BY <1>12, ThreadsAre DEF ThreadsFit, Fit, Answer
  <2>1. TypesButFlags'
    <3>1. pc' \in [Threads -> Steps]
      BY <1>12, <2>0 DEF TypesButFlags, Steps, Answer
    <3>2. room' \in [Threads -> Joins \cup {None}]
      BY <1>12, <2>0 DEF TypesButFlags, Answer
    <3> QED
      BY <1>12, <3>1, <3>2 DEF TypesButFlags, Answer
  <2>2. ASSUME NEW s \in Threads
        PROVE  Fit(s)'
    BY <1>12, <2>0, <2>2 DEF TypesButFlags, ThreadsFit, Fit, Answer
  <2>3. ASSUME NEW k \in open'
        PROVE  Admitted(k)'
    <3>1. k \in Joins /\ Admitted(k) /\ Call(k) \in Threads /\ Call(k) # Evict(t[2])
      BY <1>12, <2>0, <2>3, ThreadsAre DEF TypesButFlags, ThreadsFit, Answer
    <3> QED
      BY <1>12, <2>0, <3>1 DEF TypesButFlags, Admitted, Answer
  <2> QED
    BY <1>12, <2>1, <2>2, <2>3 DEF ThreadsFit, Answer
<1>13. ASSUME NEW t \in Threads, Check(t)
      PROVE  Typed'
  <2>1. TypesButFlags'
    BY <1>13, ThreadsAre, GoalFits DEF TypesButFlags, ThreadsFit, Fit, Steps, Check
  <2>2. ASSUME NEW s \in Threads
        PROVE  Fit(s)'
    BY <1>13, <2>1, <2>2, ThreadsAre DEF TypesButFlags, ThreadsFit, Fit, Check
  <2>3. ASSUME NEW k \in open'
        PROVE  Admitted(k)'
    BY <1>13, <2>1, <2>3, ThreadsAre DEF TypesButFlags, ThreadsFit, Admitted, Check
  <2>4. (\A k \in Joins : op'[k] = "join") /\ (\A y \in Calls : op'[y] # "join")
    BY <1>13, <2>1, ThreadsAre DEF TypesButFlags, ThreadsFit, Check
  <2> QED
    BY <2>1, <2>2, <2>3, <2>4 DEF ThreadsFit
<1>14. ASSUME NEW t \in Threads, CloseAll(t)
      PROVE  Typed'
  <2>1. TypesButFlags'
    <3>1. CASE rest[t] = {}
      BY <1>14, <3>1 DEF TypesButFlags, Steps, CloseAll
    <3>2. CASE rest[t] # {}
      <4>1. PICK r \in rest[t] :
              /\ rest' = [rest EXCEPT ![t] = @ \ {r}]
              /\ open' = open \ {peers[r][u] : u \in Users}
              /\ peers' = [peers EXCEPT ![r] = [u \in Users |-> None]]
        BY <1>14, <3>2 DEF CloseAll
      <4>2. open' \subseteq Joins
        BY <4>1 DEF TypesButFlags
      <4>3. rest' \in [Threads -> SUBSET Joins]
        BY <4>1 DEF TypesButFlags
      <4>4. peers' \in [Joins -> [Users -> Joins \cup {None}]]
        BY <4>1 DEF TypesButFlags
      <4> QED
        BY <1>14, <3>2, <4>2, <4>3, <4>4 DEF TypesButFlags, CloseAll
    <3> QED
      BY <3>1, <3>2
  <2>2. ASSUME NEW s \in Threads
        PROVE  Fit(s)'
    BY <1>14, <2>2 DEF TypesButFlags, ThreadsFit, Fit, CloseAll
  <2>3. ASSUME NEW k \in open'
        PROVE  Admitted(k)'
    BY <1>14, <2>3, ThreadsAre DEF TypesButFlags, ThreadsFit, Admitted, CloseAll
  <2> QED
    BY <1>14, <2>1, <2>2, <2>3 DEF ThreadsFit, CloseAll
<1>15. ASSUME NEW x \in Calls, CloseChannel(x) \/ Reconfigure(x) \/ Close(x)
       PROVE  Typed'
  BY <1>5, <1>15, Forgets
<1> QED
  BY <1>1, <1>2, <1>3, <1>4, <1>6, <1>7, <1>8, <1>9, <1>10, <1>11, <1>12, <1>13, <1>14, <1>15 DEF Next
-----------------------------------------------------------------------------
(* Ledger: who took which room, and who is in it                            *)

LEMMA ThreadFacts ==
    ASSUME Typed, NEW t \in Threads
    PROVE  /\ ChannelOf(t) \in Channels /\ UserOf(t) \in Users
           /\ pc[t] \in {"take", "admit", "answer"} => t[2] \in Joins /\ t = Call(t[2])
           /\ pc[t] = "check" => t[2] \in Joins /\ t = Evict(t[2])
           /\ pc[t] \in {"remove", "look", "drop", "admit", "answer", "check"} => room[t] \in Joins
BY GoalFits, ThreadsAre DEF Typed, TypesButFlags, ThreadsFit, Fit

\* A Join takes a room once.
LEMMA TakenStays ==
    ASSUME Typed, Next, NEW j \in Joins, Taken(j)
    PROVE  Taken(j)'
<1> USE DEF Typed, TypesButFlags, Goto, Taken
<1>0. Call(j) \in Threads /\ \A t \in Threads : pc[t] \notin {"admit", "answer", "done"} => t # Call(j)
  BY ThreadsAre
<1>1. ASSUME NEW k \in Joins, Join(k)
      PROVE  Taken(j)'
  BY <1>0, <1>1, ThreadsAre DEF Join
<1>2. ASSUME NEW k \in Joins, Fail(k)
      PROVE  Taken(j)'
  BY <1>0, <1>2, ThreadsAre DEF Fail
<1>3. ASSUME NEW x \in Calls, Leave(x)
      PROVE  Taken(j)'
  BY <1>0, <1>3, ThreadsAre DEF Leave
<1>4. ASSUME NEW x \in Calls, LeaveAll(x)
      PROVE  Taken(j)'
  BY <1>0, <1>4, ThreadsAre DEF LeaveAll
<1>5. ASSUME NEW x \in Calls, CloseChannel(x) \/ Reconfigure(x) \/ Close(x)
      PROVE  Taken(j)'
  BY <1>0, <1>5, ThreadsAre DEF CloseChannel, Reconfigure, Close, Forget
<1>6. ASSUME NEW t \in Threads, Find(t)
      PROVE  Taken(j)'
  BY <1>0, <1>6 DEF Find
<1>7. ASSUME NEW t \in Threads, Remove(t)
      PROVE  Taken(j)'
  BY <1>0, <1>7 DEF Remove
<1>8. ASSUME NEW t \in Threads, Look(t) \/ Drop(t)
      PROVE  Taken(j)'
  BY <1>0, <1>8 DEF Look, Drop
<1>9. ASSUME NEW t \in Threads, Each(t)
      PROVE  Taken(j)'
  BY <1>0, <1>9 DEF Each
<1>10. ASSUME NEW t \in Threads, Take(t)
      PROVE  Taken(j)'
  BY <1>0, <1>10 DEF Take
<1>11. ASSUME NEW t \in Threads, Admit(t)
      PROVE  Taken(j)'
  BY <1>0, <1>11 DEF Admit
<1>12. ASSUME NEW t \in Threads, Answer(t)
      PROVE  Taken(j)'
  BY <1>0, <1>12, ThreadFacts DEF Answer
<1>13. ASSUME NEW t \in Threads, Check(t)
      PROVE  Taken(j)'
  BY <1>0, <1>13 DEF Check
<1>14. ASSUME NEW t \in Threads, CloseAll(t)
      PROVE  Taken(j)'
  BY <1>0, <1>14 DEF CloseAll
<1> QED
  BY <1>1, <1>2, <1>3, <1>4, <1>5, <1>6, <1>7, <1>8, <1>9, <1>10, <1>11, <1>12, <1>13, <1>14 DEF Next

LEMMA GoalStays == Next => goal' = goal
BY DEF Next, Join, Fail, Leave, LeaveAll, CloseChannel, Reconfigure, Close, Forget, Find, Remove, Look, Drop,
       Each, Take, Admit, Answer, Check, CloseAll

\* Every room in the map stays taken, and in its channel.
LEMMA MapStep ==
    ASSUME Typed, RoomsTaken, Next, NEW c \in Channels, NEW r \in Joins, rooms'[c] = r
    PROVE  Taken(r)' /\ goal'[r][1] = c
<1> USE DEF Goto
<1>1. CASE rooms'[c] = rooms[c]
  BY <1>1, TakenStays, GoalStays DEF RoomsTaken, Typed, TypesButFlags
<1>2. CASE rooms'[c] # rooms[c]
  <2>1. ASSUME NEW t \in Threads, Take(t)
        PROVE  Taken(r)' /\ goal'[r][1] = c
    BY <1>2, <2>1, ThreadFacts, GoalStays DEF Typed, TypesButFlags, Take, Taken, ChannelOf
  <2>2. ASSUME NEW t \in Threads, Drop(t)
        PROVE  FALSE
    BY <1>2, <2>2 DEF Drop
  <2>3. ASSUME NEW x \in Calls, CloseChannel(x) \/ Reconfigure(x) \/ Close(x)
        PROVE  FALSE
    BY <1>2, <2>3 DEF CloseChannel, Reconfigure, Close, Forget, SwappedRooms
  <2> QED
    BY <1>2, <2>1, <2>2, <2>3 DEF Next, Join, Fail, Leave, LeaveAll, Find, Remove, Look, Each, Admit, Answer,
                                 Check, CloseAll, relayVars
<1> QED
  BY <1>1, <1>2

\* So does every room in the hands of a thread.
LEMMA HandStep ==
    ASSUME Typed, RoomsTaken, Next, NEW s \in Threads, NEW r \in Joins, room'[s] = r
    PROVE  Taken(r)'
<1> USE DEF Goto, Typed, TypesButFlags
<1>0. ASSUME NEW q \in Joins, Taken(q)
      PROVE  Taken(q)'
  BY <1>0, TakenStays
<1>1. CASE room'[s] = room[s]
  BY <1>0, <1>1 DEF RoomsTaken
<1>2. CASE room'[s] # room[s]
  <2>1. ASSUME NEW t \in Threads, Take(t)
        PROVE  Taken(r)'
    <3>1. /\ s = t /\ t[2] \in Joins /\ t = Call(t[2])
          /\ room'[t] = IF rooms[ChannelOf(t)] = None THEN t[2] ELSE rooms[ChannelOf(t)]
          /\ pc'[t] = "admit"
      BY <1>2, <2>1, ThreadFacts DEF Take
    <3> QED
      BY <1>0, <3>1, ThreadFacts DEF RoomsTaken, Taken
  <2>2. ASSUME NEW t \in Threads, Find(t)
        PROVE  Taken(r)'
    BY <1>0, <1>2, <2>2, ThreadFacts DEF Find, RoomsTaken
  <2>3. ASSUME NEW t \in Threads, Each(t)
        PROVE  Taken(r)'
    BY <1>0, <1>2, <2>3 DEF Each, RoomsTaken
  <2>4. ASSUME NEW t \in Threads, Answer(t)
        PROVE  Taken(r)'
    BY <1>0, <1>2, <2>4, ThreadFacts DEF Answer, RoomsTaken
  <2>5. ASSUME NEW j \in Joins, Fail(j)
        PROVE  Taken(r)'
    BY <1>0, <1>2, <2>5, ThreadsAre DEF Fail, RoomsTaken
  <2> QED
    BY <1>2, <2>1, <2>2, <2>3, <2>4, <2>5 DEF Next, Join, Leave, LeaveAll, CloseChannel, Reconfigure, Close,
        Forget, Remove, Look, Drop, Admit, Check, CloseAll, relayVars
<1> QED
  BY <1>1, <1>2

\* And every room a call has still to visit or to close.
LEMMA RestStep ==
    ASSUME Typed, RoomsTaken, Next, NEW s \in Threads, NEW r \in rest'[s]
    PROVE  Taken(r)'
<1> USE DEF Goto, Typed, TypesButFlags
<1>0. ASSUME NEW q \in Joins, Taken(q)
      PROVE  Taken(q)'
  BY <1>0, TakenStays
<1>1. CASE r \in rest[s]
  BY <1>0, <1>1 DEF RoomsTaken
<1>2. CASE r \notin rest[s]
  <2>1. ASSUME NEW x \in Calls, LeaveAll(x)
        PROVE  \E c \in Channels : r = rooms[c] /\ r # None
    BY <1>2, <2>1, ThreadsAre DEF LeaveAll, Registered, RoomsOf
  <2>2. ASSUME NEW x \in Calls, NEW cs \in SUBSET Channels, Forget(x, cs)
        PROVE  \E c \in Channels : r = rooms[c] /\ r # None
    BY <1>2, <2>2, ThreadsAre DEF Forget, RoomsOf
  <2>3. ASSUME NEW x \in Calls, CloseChannel(x) \/ Reconfigure(x) \/ Close(x)
        PROVE  \E cs \in SUBSET Channels : Forget(x, cs)
    BY <2>3, Forgets
  <2>4. ASSUME NEW t \in Threads, Each(t) \/ CloseAll(t)
        PROVE  FALSE
    <3>1. rest' = rest \/ \E q \in rest[t] : rest' = [rest EXCEPT ![t] = @ \ {q}]
      BY <2>4 DEF Each, CloseAll
    <3> QED
      BY <1>2, <3>1
  <2>5. \E c \in Channels : r = rooms[c] /\ r # None
    BY <1>2, <2>1, <2>2, <2>3, <2>4 DEF Next, Join, Fail, Leave, Find, Remove, Look, Drop, Take, Admit, Answer,
        Check, relayVars
  <2> QED
    BY <1>0, <2>5 DEF RoomsTaken
<1> QED
  BY <1>1, <1>2

\* Once a Join is past admitting its peer it stays so, and its room is the same.
LEMMA SeatStays ==
    ASSUME Typed, Next, NEW j \in Joins, pc[Call(j)] \in {"admit", "answer", "done"}
    PROVE  room'[Call(j)] = room[Call(j)] /\ (pc[Call(j)] # "admit" => pc'[Call(j)] \in {"answer", "done"})
<1> USE DEF Typed, TypesButFlags, Goto
<1>0. /\ Call(j) \in Threads /\ \A k \in Joins : Evict(k) # Call(j)
      /\ \A t \in Threads : pc[t] \notin {"admit", "answer", "done"} => t # Call(j)
  BY ThreadsAre
<1>1. ASSUME NEW k \in Joins, Join(k)
      PROVE  room'[Call(j)] = room[Call(j)] /\ (pc[Call(j)] # "admit" => pc'[Call(j)] \in {"answer", "done"})
  BY <1>0, <1>1, ThreadsAre DEF Join
<1>2. ASSUME NEW k \in Joins, Fail(k)
      PROVE  room'[Call(j)] = room[Call(j)] /\ (pc[Call(j)] # "admit" => pc'[Call(j)] \in {"answer", "done"})
  BY <1>0, <1>2, ThreadsAre DEF Fail
<1>3. ASSUME NEW x \in Calls, Leave(x)
      PROVE  room'[Call(j)] = room[Call(j)] /\ (pc[Call(j)] # "admit" => pc'[Call(j)] \in {"answer", "done"})
  BY <1>0, <1>3, ThreadsAre DEF Leave
<1>4. ASSUME NEW x \in Calls, LeaveAll(x)
      PROVE  room'[Call(j)] = room[Call(j)] /\ (pc[Call(j)] # "admit" => pc'[Call(j)] \in {"answer", "done"})
  BY <1>0, <1>4, ThreadsAre DEF LeaveAll
<1>5. ASSUME NEW x \in Calls, CloseChannel(x) \/ Reconfigure(x) \/ Close(x)
      PROVE  room'[Call(j)] = room[Call(j)] /\ (pc[Call(j)] # "admit" => pc'[Call(j)] \in {"answer", "done"})
  BY <1>0, <1>5, ThreadsAre DEF CloseChannel, Reconfigure, Close, Forget
<1>6. ASSUME NEW t \in Threads, Find(t)
      PROVE  room'[Call(j)] = room[Call(j)] /\ (pc[Call(j)] # "admit" => pc'[Call(j)] \in {"answer", "done"})
  BY <1>0, <1>6 DEF Find
<1>7. ASSUME NEW t \in Threads, Remove(t)
      PROVE  room'[Call(j)] = room[Call(j)] /\ (pc[Call(j)] # "admit" => pc'[Call(j)] \in {"answer", "done"})
  BY <1>0, <1>7 DEF Remove
<1>8. ASSUME NEW t \in Threads, Look(t) \/ Drop(t)
      PROVE  room'[Call(j)] = room[Call(j)] /\ (pc[Call(j)] # "admit" => pc'[Call(j)] \in {"answer", "done"})
  BY <1>0, <1>8 DEF Look, Drop
<1>9. ASSUME NEW t \in Threads, Each(t)
      PROVE  room'[Call(j)] = room[Call(j)] /\ (pc[Call(j)] # "admit" => pc'[Call(j)] \in {"answer", "done"})
  BY <1>0, <1>9 DEF Each
<1>10. ASSUME NEW t \in Threads, Take(t)
      PROVE  room'[Call(j)] = room[Call(j)] /\ (pc[Call(j)] # "admit" => pc'[Call(j)] \in {"answer", "done"})
  BY <1>0, <1>10 DEF Take
<1>11. ASSUME NEW t \in Threads, Admit(t)
      PROVE  room'[Call(j)] = room[Call(j)] /\ (pc[Call(j)] # "admit" => pc'[Call(j)] \in {"answer", "done"})
  BY <1>0, <1>11 DEF Admit
<1>12. ASSUME NEW t \in Threads, Answer(t)
      PROVE  room'[Call(j)] = room[Call(j)] /\ (pc[Call(j)] # "admit" => pc'[Call(j)] \in {"answer", "done"})
  BY <1>0, <1>12, ThreadFacts DEF Answer
<1>13. ASSUME NEW t \in Threads, Check(t)
      PROVE  room'[Call(j)] = room[Call(j)] /\ (pc[Call(j)] # "admit" => pc'[Call(j)] \in {"answer", "done"})
  BY <1>0, <1>13 DEF Check
<1>14. ASSUME NEW t \in Threads, CloseAll(t)
      PROVE  room'[Call(j)] = room[Call(j)] /\ (pc[Call(j)] # "admit" => pc'[Call(j)] \in {"answer", "done"})
  BY <1>0, <1>14 DEF CloseAll
<1> QED
  BY <1>1, <1>2, <1>3, <1>4, <1>5, <1>6, <1>7, <1>8, <1>9, <1>10, <1>11, <1>12, <1>13, <1>14 DEF Next

\* A Join on its way into a room is in the channel of that room.
LEMMA ChannelStep ==
    ASSUME Typed, RoomsTaken, Next, NEW j \in Joins, pc'[Call(j)] = "admit"
    PROVE  goal[room'[Call(j)]][1] = goal[j][1]
<1> USE DEF Goto, Typed, TypesButFlags
<1>0. Call(j) \in Threads /\ Call(j)[2] = j
  BY ThreadsAre
<1>1. CASE pc[Call(j)] = "admit"
  BY <1>0, <1>1, SeatStays DEF RoomsTaken
<1>2. CASE pc[Call(j)] # "admit"
  <2>1. ASSUME NEW t \in Threads, Take(t)
        PROVE  goal[room'[Call(j)]][1] = goal[j][1]
    <3>1. /\ t = Call(j)
          /\ room'[t] = IF rooms[ChannelOf(t)] = None THEN t[2] ELSE rooms[ChannelOf(t)]
      BY <1>0, <1>2, <2>1, ThreadFacts DEF Take
    <3> QED
      BY <1>0, <3>1, ThreadFacts DEF RoomsTaken, ChannelOf
  <2>2. ASSUME NEW k \in Joins, Join(k) \/ Fail(k)
        PROVE  FALSE
    BY <1>0, <1>2, <2>2, ThreadsAre DEF Join, Fail
  <2>3. ASSUME NEW x \in Calls, Leave(x) \/ LeaveAll(x) \/ CloseChannel(x) \/ Reconfigure(x) \/ Close(x)
        PROVE  FALSE
    BY <1>0, <1>2, <2>3, ThreadsAre DEF Leave, LeaveAll, CloseChannel, Reconfigure, Close, Forget
  <2>4. ASSUME NEW t \in Threads, Find(t) \/ Remove(t) \/ Look(t) \/ Drop(t) \/ Each(t)
        PROVE  FALSE
    BY <1>0, <1>2, <2>4 DEF Find, Remove, Look, Drop, Each, After
  <2>5. ASSUME NEW t \in Threads, Admit(t) \/ Answer(t) \/ Check(t) \/ CloseAll(t)
        PROVE  FALSE
    BY <1>0, <1>2, <2>5, ThreadFacts, ThreadsAre DEF Admit, Answer, Check, CloseAll
  <2> QED
    BY <2>1, <2>2, <2>3, <2>4, <2>5 DEF Next
<1> QED
  BY <1>1, <1>2

\* A peer is where and who its Join says.
LEMMA PeersStep ==
    ASSUME Typed, PeersSeated, Next, NEW r \in Joins, NEW u \in Users, NEW p \in Joins, peers'[r][u] = p
    PROVE  pc'[Call(p)] \in {"answer", "done"} /\ room'[Call(p)] = r /\ goal'[p][2] = u
<1> USE DEF Goto, Typed, TypesButFlags
<1>1. CASE peers[r][u] = p
  BY <1>1, SeatStays, GoalStays DEF PeersSeated
<1>2. CASE peers[r][u] # p
  <2>1. ASSUME NEW t \in Threads, Admit(t)
        PROVE  pc'[Call(p)] \in {"answer", "done"} /\ room'[Call(p)] = r /\ goal'[p][2] = u
    <3>1. peers' = [peers EXCEPT ![room[t]][UserOf(t)] = t[2]] /\ pc' = [pc EXCEPT ![t] = "answer"]
      BY <1>2, <2>1 DEF Admit
    <3>2. r = room[t] /\ u = UserOf(t) /\ p = t[2] /\ t = Call(p)
      BY <1>2, <2>1, <3>1, ThreadFacts DEF Admit
    <3> QED
      BY <2>1, <3>1, <3>2 DEF Admit, UserOf
  <2>2. ASSUME NEW t \in Threads, Remove(t)
        PROVE  FALSE
    BY <1>2, <2>2, ThreadFacts DEF Remove
  <2>3. ASSUME NEW t \in Threads, CloseAll(t)
        PROVE  FALSE
    <3>1. peers' = peers \/ \E q \in rest[t] : peers' = [peers EXCEPT ![q] = [v \in Users |-> None]]
      BY <2>3 DEF CloseAll
    <3>2. PICK q \in rest[t] : peers' = [peers EXCEPT ![q] = [v \in Users |-> None]]
      BY <1>2, <3>1
    <3>3. peers'[r][u] \in {peers[r][u], None}
      BY <3>2
    <3> QED
      BY <1>2, <3>3
  <2> QED
    BY <1>2, <2>1, <2>2, <2>3 DEF Next, Join, Fail, Leave, LeaveAll, CloseChannel, Reconfigure, Close, Forget,
        Find, Look, Drop, Each, Take, Answer, Check, relayVars
<1> QED
  BY <1>1, <1>2

\* The ledger is an invariant.
LEMMA LedgerInit == Init => Typed /\ RoomsTaken /\ PeersSeated
<1> SUFFICES ASSUME Init
             PROVE  RoomsTaken /\ PeersSeated
  BY TypedInit
<1> QED
  BY ThreadsAre DEF Init, RoomsTaken, PeersSeated

LEMMA LedgerStep ==
    ASSUME Typed, RoomsTaken, PeersSeated, Next
    PROVE  Typed' /\ RoomsTaken' /\ PeersSeated'
<1>1. Typed'
  BY TypedStep
<1> USE DEF Typed, TypesButFlags
<1>2. \A c \in Channels : rooms'[c] # None => Taken(rooms[c])' /\ goal'[rooms'[c]][1] = c
  BY <1>1, MapStep DEF Taken
<1>3. \A t \in Threads : room'[t] # None => Taken(room[t])'
  BY <1>1, HandStep DEF Taken
<1>4. \A t \in Threads : \A r \in rest'[t] : Taken(r)'
  BY RestStep
<1>5. \A j \in Joins : pc'[Call(j)] = "admit" => goal'[room'[Call(j)]][1] = goal'[j][1]
  BY ChannelStep, GoalStays
<1>6. PeersSeated'
  BY <1>1, PeersStep DEF PeersSeated
<1> QED
  BY <1>1, <1>2, <1>3, <1>4, <1>5, <1>6 DEF RoomsTaken

-----------------------------------------------------------------------------
(* Nobody is carried across a reconfiguration                               *)

Ledger == Typed /\ RoomsTaken /\ PeersSeated

\* A room that is in the map after a step was there before it, or is made by it.
LEMMA KeptOrMade ==
    ASSUME Typed, Next, NEW c \in Channels, NEW r \in Joins, rooms'[c] = r
    PROVE  /\ settings' = settings
           /\ rooms[c] = r \/ \E t \in Threads : Take(t) /\ r = t[2] /\ c = ChannelOf(t) /\ rooms[c] = None
<1> USE DEF Typed, TypesButFlags
<1>1. ASSUME NEW x \in Calls, CloseChannel(x) \/ Reconfigure(x) \/ Close(x)
      PROVE  settings' = settings /\ rooms[c] = r
  BY <1>1 DEF CloseChannel, Reconfigure, Close, Forget, SwappedRooms
<1>2. ASSUME NEW t \in Threads, Drop(t)
      PROVE  settings' = settings /\ rooms[c] = r
  BY <1>2 DEF Drop
<1>3. ASSUME NEW t \in Threads, Take(t)
      PROVE  settings' = settings /\ (rooms[c] = r \/ (r = t[2] /\ c = ChannelOf(t) /\ rooms[c] = None))
  <2>1. rooms' = rooms \/ rooms' = [rooms EXCEPT ![ChannelOf(t)] = IF rooms[ChannelOf(t)] = None
                                                                  THEN t[2] ELSE rooms[ChannelOf(t)]]
    BY <1>3 DEF Take
  <2>2. settings' = settings
    BY <1>3 DEF Take
  <2>3. rooms'[c] = rooms[c] \/ (c = ChannelOf(t) /\ rooms[c] = None /\ rooms'[c] = t[2])
    BY <2>1, ThreadFacts
  <2> QED
    BY <2>2, <2>3
<1> QED
  BY <1>1, <1>2, <1>3 DEF Next, Join, Fail, Leave, LeaveAll, Find, Remove, Look, Each, Admit, Answer, Check,
      CloseAll, relayVars

\* Nobody is in a room before it is made, nor has it in hand.
LEMMA FreshRoom ==
    ASSUME Ledger, NEW t \in Threads, pc[t] = "take", NEW s \in Threads
    PROVE  room[s] # t[2] /\ t[2] \notin rest[s] /\ t[2] \notin Registered /\ Empty(t[2])
<1>1. t[2] \in Joins /\ ~Taken(t[2])
  BY ThreadFacts DEF Ledger, Taken
<1>2. Empty(t[2])
  <2> SUFFICES ASSUME NEW u \in Users, peers[t[2]][u] # None
               PROVE  FALSE
    BY DEF Empty
  <2>1. peers[t[2]][u] \in Joins /\ room[Call(peers[t[2]][u])] = t[2]
    BY <1>1 DEF Ledger, Typed, TypesButFlags, PeersSeated
  <2> QED
    BY <1>1, <2>1, ThreadsAre DEF Ledger, RoomsTaken
<1> QED
  BY <1>1, <1>2 DEF Ledger, RoomsTaken, Registered, RoomsOf

\* The settings of a peer are chosen when its Join takes a room.
LEMMA MadeStays ==
    ASSUME Typed, Next, NEW j \in Joins
    PROVE  made'[j] = made[j] \/ Take(Call(j))
<1>1. ASSUME NEW t \in Threads, Take(t)
      PROVE  made'[j] = made[j] \/ Take(Call(j))
  BY <1>1, ThreadFacts DEF Take, Typed, TypesButFlags
<1> QED
  BY <1>1 DEF Next, Join, Fail, Leave, LeaveAll, CloseChannel, Reconfigure, Close, Forget, Find, Remove, Look,
      Drop, Each, Admit, Answer, Check, CloseAll, relayVars

\* A Join is on its way into a room because it was, or has just taken it.
LEMMA StillOrTakes ==
    ASSUME Typed, Next, NEW j \in Joins, pc'[Call(j)] = "admit"
    PROVE  (pc[Call(j)] = "admit" /\ room'[Call(j)] = room[Call(j)]) \/ Take(Call(j))
<1> USE DEF Goto, Typed, TypesButFlags
<1>0. Call(j) \in Threads /\ Call(j)[2] = j
  BY ThreadsAre
<1>1. CASE pc[Call(j)] = "admit"
  BY <1>0, <1>1, SeatStays
<1>2. CASE pc[Call(j)] # "admit"
  <2>1. ASSUME NEW t \in Threads, Take(t)
        PROVE  t = Call(j)
    BY <1>0, <1>2, <2>1, ThreadFacts DEF Take
  <2>2. ASSUME NEW k \in Joins, Join(k) \/ Fail(k)
        PROVE  FALSE
    BY <1>0, <1>2, <2>2, ThreadsAre DEF Join, Fail
  <2>3. ASSUME NEW x \in Calls, Leave(x) \/ LeaveAll(x) \/ CloseChannel(x) \/ Reconfigure(x) \/ Close(x)
        PROVE  FALSE
    BY <1>0, <1>2, <2>3, ThreadsAre DEF Leave, LeaveAll, CloseChannel, Reconfigure, Close, Forget
  <2>4. ASSUME NEW t \in Threads, Find(t) \/ Remove(t) \/ Look(t) \/ Drop(t) \/ Each(t)
        PROVE  FALSE
    BY <1>0, <1>2, <2>4 DEF Find, Remove, Look, Drop, Each, After
  <2>5. ASSUME NEW t \in Threads, Admit(t) \/ Answer(t) \/ Check(t) \/ CloseAll(t)
        PROVE  FALSE
    BY <1>0, <1>2, <2>5, ThreadFacts, ThreadsAre DEF Admit, Answer, Check, CloseAll
  <2> QED
    BY <2>1, <2>2, <2>3, <2>4, <2>5 DEF Next
<1> QED
  BY <1>1, <1>2

LEMMA ArrivalsStep ==
    ASSUME Ledger, ArrivalsCurrent, Next
    PROVE  ArrivalsCurrent'
<1> SUFFICES ASSUME NEW j \in Joins, NEW c \in Channels,
                    pc'[Call(j)] = "admit", room'[Call(j)] = rooms'[c], rooms'[c] # None
             PROVE  made'[j] = settings'
  BY DEF ArrivalsCurrent, Registered, RoomsOf
<1>0. Call(j) \in Threads /\ Typed /\ rooms'[c] \in Joins
  BY ThreadsAre, TypedStep DEF Ledger, Typed, TypesButFlags
<1>1. settings' = settings
  BY <1>0, KeptOrMade
<1>2. CASE Take(Call(j))
  BY <1>0, <1>1, <1>2, ThreadsAre DEF Take, Typed, TypesButFlags, Goto
<1>3. CASE ~Take(Call(j))
  <2>1. pc[Call(j)] = "admit" /\ room'[Call(j)] = room[Call(j)] /\ made'[j] = made[j]
    BY <1>0, <1>3, StillOrTakes, MadeStays
  <2>2. rooms[c] = rooms'[c]
    <3>1. ASSUME NEW t \in Threads, Take(t), rooms'[c] = t[2]
          PROVE  FALSE
      BY <1>0, <2>1, <3>1, FreshRoom DEF Take
    <3> QED
      BY <1>0, <3>1, KeptOrMade
  <2> QED
    BY <1>0, <1>1, <2>1, <2>2 DEF ArrivalsCurrent, Registered, RoomsOf
<1> QED
  BY <1>2, <1>3

\* A peer that is in a room after a step was there before it, or is admitted by it.
LEMMA ThereOrAdmitted ==
    ASSUME Typed, Next, NEW r \in Joins, NEW u \in Users, NEW p \in Joins, peers'[r][u] = p
    PROVE  \/ peers[r][u] = p
           \/ /\ Admit(Call(p)) /\ pc[Call(p)] = "admit" /\ room[Call(p)] = r /\ goal[p][2] = u
              /\ rooms' = rooms /\ made' = made /\ settings' = settings
<1> USE DEF Goto, Typed, TypesButFlags
<1>1. CASE peers[r][u] = p
  BY <1>1
<1>2. CASE peers[r][u] # p
  <2>1. ASSUME NEW t \in Threads, Admit(t)
        PROVE  /\ Admit(Call(p)) /\ pc[Call(p)] = "admit" /\ room[Call(p)] = r /\ goal[p][2] = u
               /\ rooms' = rooms /\ made' = made /\ settings' = settings
    <3>1. peers' = [peers EXCEPT ![room[t]][UserOf(t)] = t[2]]
      BY <1>2, <2>1 DEF Admit
    <3>2. t = Call(p) /\ pc[t] = "admit" /\ room[t] = r /\ goal[p][2] = u
      BY <1>2, <2>1, <3>1, ThreadFacts DEF Admit, UserOf
    <3>3. rooms' = rooms /\ made' = made /\ settings' = settings
      BY <2>1 DEF Admit
    <3> QED
      BY <2>1, <3>2, <3>3
  <2>2. ASSUME NEW t \in Threads, Remove(t)
        PROVE  FALSE
    BY <1>2, <2>2, ThreadFacts DEF Remove
  <2>3. ASSUME NEW t \in Threads, CloseAll(t)
        PROVE  FALSE
    <3>1. peers' = peers \/ \E q \in rest[t] : peers' = [peers EXCEPT ![q] = [v \in Users |-> None]]
      BY <2>3 DEF CloseAll
    <3>2. PICK q \in rest[t] : peers' = [peers EXCEPT ![q] = [v \in Users |-> None]]
      BY <1>2, <3>1
    <3>3. peers'[r][u] \in {peers[r][u], None}
      BY <3>2
    <3> QED
      BY <1>2, <3>3
  <2> QED
    BY <1>2, <2>1, <2>2, <2>3 DEF Next, Join, Fail, Leave, LeaveAll, CloseChannel, Reconfigure, Close, Forget,
        Find, Look, Drop, Each, Take, Answer, Check, relayVars
<1> QED
  BY <1>1, <1>2

LEMMA CurrentStep ==
    ASSUME Ledger, ArrivalsCurrent, RoomsAreCurrent, Next
    PROVE  RoomsAreCurrent'
<1> SUFFICES ASSUME NEW c \in Channels, NEW u \in Users, rooms'[c] # None, peers'[rooms'[c]][u] # None
             PROVE  made'[peers'[rooms'[c]][u]] = settings'
  BY DEF RoomsAreCurrent
<1>a. PICK r \in Joins : rooms'[c] = r
  BY TypedStep DEF Ledger, Typed, TypesButFlags
<1>b. PICK p \in Joins : peers'[r][u] = p
  BY <1>a, TypedStep DEF Ledger, Typed, TypesButFlags
<1>0. Typed /\ Call(p) \in Threads /\ None \notin Joins
  BY ThreadsAre DEF Ledger
<1>1. CASE peers[r][u] = p
  <2>1. pc[Call(p)] \in {"answer", "done"} /\ room[Call(p)] = r
    BY <1>0, <1>1 DEF Ledger, PeersSeated
  <2>2. made'[p] = made[p]
    BY <1>0, <2>1, MadeStays DEF Take
  <2>3. rooms[c] = r /\ settings' = settings
    BY <1>0, <1>a, <2>1, KeptOrMade, FreshRoom DEF Take
  <2> QED
    BY <1>0, <1>a, <1>b, <1>1, <2>2, <2>3 DEF RoomsAreCurrent
<1>2. CASE peers[r][u] # p
  BY <1>0, <1>a, <1>b, <1>2, ThereOrAdmitted DEF ArrivalsCurrent, Registered, RoomsOf
<1> QED
  BY <1>a, <1>b, <1>1, <1>2

-----------------------------------------------------------------------------
(* A step is of one thread, or starts an eviction                           *)

\* What a thread does itself.
Acts(s) ==
    \/ Find(s) \/ Remove(s) \/ Look(s) \/ Drop(s) \/ Each(s) \/ Take(s) \/ Admit(s) \/ Answer(s) \/ Check(s)
    \/ CloseAll(s)
    \/ s[2] \in Joins /\ s = Call(s[2]) /\ Join(s[2])
    \/ s[2] \in Calls /\ s = Call(s[2]) /\ (Leave(s[2]) \/ LeaveAll(s[2]))
    \/ s[2] \in Calls /\ s = Call(s[2]) /\ \E cs \in SUBSET Channels : Forget(s[2], cs)

\* An eviction is started.
Starts(s) == s[2] \in Joins /\ s = Evict(s[2]) /\ pc[s] = "new" /\ pc'[s] = "check" /\ rest'[s] = rest[s]

LEMMA OneActs ==
    ASSUME Typed, Next, NEW s \in Threads
    PROVE  (pc'[s] = pc[s] /\ room'[s] = room[s] /\ rest'[s] = rest[s]) \/ Acts(s) \/ Starts(s)
<1> DEFINE Rests == pc'[s] = pc[s] /\ room'[s] = room[s] /\ rest'[s] = rest[s]
<1> USE DEF Typed, TypesButFlags, Goto
<1>1. ASSUME NEW j \in Joins, Join(j)
      PROVE  Rests \/ Acts(s)
  <2>1. CASE s = Call(j)
    BY <1>1, <2>1, ThreadsAre DEF Acts
  <2>2. CASE s # Call(j)
    BY <1>1, <2>2 DEF Join
  <2> QED
    BY <2>1, <2>2
<1>2. ASSUME NEW j \in Joins, Fail(j)
      PROVE  Rests \/ Starts(s)
  <2>1. CASE s = Evict(j)
    BY <1>2, <2>1, ThreadsAre DEF Fail, Starts
  <2>2. CASE s # Evict(j)
    BY <1>2, <2>2 DEF Fail
  <2> QED
    BY <2>1, <2>2
<1>3. ASSUME NEW x \in Calls, Leave(x) \/ LeaveAll(x)
      PROVE  Rests \/ Acts(s)
  <2>1. CASE s = Call(x)
    BY <1>3, <2>1, ThreadsAre DEF Acts
  <2>2. CASE s # Call(x)
    BY <1>3, <2>2 DEF Leave, LeaveAll
  <2> QED
    BY <2>1, <2>2
<1>4. ASSUME NEW x \in Calls, CloseChannel(x) \/ Reconfigure(x) \/ Close(x)
      PROVE  Rests \/ Acts(s)
  <2>0. PICK cs \in SUBSET Channels : Forget(x, cs)
    BY <1>4, Forgets
  <2>1. CASE s = Call(x)
    BY <2>0, <2>1, ThreadsAre DEF Acts
  <2>2. CASE s # Call(x)
    BY <2>0, <2>2 DEF Forget
  <2> QED
    BY <2>1, <2>2
<1>5. ASSUME NEW t \in Threads, Answer(t)
      PROVE  Rests \/ Acts(s) \/ Starts(s)
  <2>0. t[2] \in Joins /\ t = Call(t[2])
    BY <1>5, ThreadFacts DEF Answer
  <2>1. CASE s = t
    BY <1>5, <2>1 DEF Acts
  <2>2. CASE s # t /\ s = Evict(t[2])
    BY <1>5, <2>0, <2>2, ThreadsAre DEF Answer, Starts
  <2>3. CASE s # t /\ s # Evict(t[2])
    BY <1>5, <2>3 DEF Answer
  <2> QED
    BY <2>1, <2>2, <2>3
<1>6. ASSUME NEW t \in Threads, \/ Find(t) \/ Remove(t) \/ Look(t) \/ Drop(t) \/ Each(t)
                                \/ Take(t) \/ Admit(t) \/ Check(t) \/ CloseAll(t)
      PROVE  Rests \/ Acts(s)
  <2>1. CASE s = t
    BY <1>6, <2>1 DEF Acts
  <2>2. CASE s # t
    BY <1>6, <2>2 DEF Find, Remove, Look, Drop, Each, Take, Admit, Check, CloseAll
  <2> QED
    BY <2>1, <2>2
<1> QED
  BY <1>1, <1>2, <1>3, <1>4, <1>5, <1>6 DEF Next

-----------------------------------------------------------------------------
(* What is forgotten stays forgotten, and empty rooms are seen to           *)

\* A room is the room of one channel.
LEMMA OneChannel ==
    ASSUME Ledger, NEW c \in Channels, NEW d \in Channels, rooms[c] = rooms[d], rooms[c] # None
    PROVE  c = d
BY DEF Ledger, RoomsTaken

LEMMA ForgottenStep ==
    ASSUME Ledger, ForgottenForGood, Next
    PROVE  ForgottenForGood'
<1> USE DEF Goto
<1> SUFFICES ASSUME NEW s \in Threads, pc'[s] = "closeall", NEW r \in rest'[s], NEW c \in Channels, rooms'[c] = r
             PROVE  FALSE
  BY DEF ForgottenForGood, Registered, RoomsOf
<1>0. Typed /\ r \in Joins
  BY TypedStep DEF Ledger, Typed, TypesButFlags
<1>1. CASE \E cs \in SUBSET Channels : s[2] \in Calls /\ s = Call(s[2]) /\ Forget(s[2], cs)
  <2>1. PICK cs \in SUBSET Channels : s = Call(s[2]) /\ Forget(s[2], cs)
    BY <1>1
  <2>2. PICK d \in cs : rooms[d] = r
    BY <1>0, <2>1 DEF Forget, RoomsOf, Typed, TypesButFlags
  <2>3. c \notin cs /\ rooms[c] = r
    BY <1>0, <2>1 DEF Forget
  <2> QED
    BY <1>0, <2>2, <2>3, OneChannel
<1>2. CASE ~\E cs \in SUBSET Channels : s[2] \in Calls /\ s = Call(s[2]) /\ Forget(s[2], cs)
  <2>1. pc[s] = "closeall" /\ r \in rest[s]
    <3>1. CASE Acts(s)
      <4>1. CloseAll(s)
        BY <1>0, <1>2, <3>1 DEF Acts, Typed, TypesButFlags, Find, Remove, Look, Drop, Each, Take, Admit, Answer,
            Check, Join, Leave, LeaveAll, After
      <4> QED
        BY <1>0, <4>1 DEF CloseAll, Typed, TypesButFlags
    <3> QED
      BY <1>0, <3>1, OneActs DEF Starts
  <2>2. rooms[c] = r
    <3>1. ASSUME NEW t \in Threads, Take(t), r = t[2]
          PROVE  FALSE
      BY <2>1, <3>1, FreshRoom DEF Take
    <3> QED
      BY <1>0, <3>1, KeptOrMade
  <2> QED
    BY <1>0, <2>1, <2>2 DEF ForgottenForGood, Registered, RoomsOf
<1> QED
  BY <1>1, <1>2

\* A room that is emptied was left by somebody who now looks whether it is empty, or is being closed.
LEMMA Emptied ==
    ASSUME Typed, Next, NEW r \in Joins, ~Empty(r), Empty(r)'
    PROVE  \/ \E t \in Threads : Remove(t) /\ room[t] = r
           \/ \E t \in Threads : pc[t] = "closeall" /\ r \in rest[t]
<1> USE DEF Goto, Typed, TypesButFlags
<1>1. PICK u \in Users : peers[r][u] # None /\ peers'[r][u] = None
  BY DEF Empty
<1>2. ASSUME NEW t \in Threads, Admit(t)
      PROVE  FALSE
  <2>1. peers' = peers \/ peers' = [peers EXCEPT ![room[t]][UserOf(t)] = t[2]]
    BY <1>2 DEF Admit
  <2>2. t[2] \in Joins /\ room[t] \in Joins /\ UserOf(t) \in Users
    BY <1>2, ThreadFacts DEF Admit
  <2> QED
    BY <1>1, <2>1, <2>2
<1>3. ASSUME NEW t \in Threads, Remove(t)
      PROVE  room[t] = r
  BY <1>1, <1>3, ThreadFacts DEF Remove
<1>4. ASSUME NEW t \in Threads, CloseAll(t)
      PROVE  pc[t] = "closeall" /\ r \in rest[t]
  BY <1>1, <1>4 DEF CloseAll
<1> QED
  BY <1>1, <1>2, <1>3, <1>4 DEF Next, Join, Fail, Leave, LeaveAll, CloseChannel, Reconfigure, Close, Forget, Find,
      Look, Drop, Each, Take, Answer, Check, relayVars

\* Whoever attends to an empty room goes on attending to it, or the room is no longer empty and registered.
LEMMA AttendedStays ==
    ASSUME Ledger, Next, NEW c \in Channels \ spoilt', NEW r \in Joins, rooms[c] = r, rooms'[c] = r,
           Empty(r), Empty(r)', NEW t \in Threads, pc[t] \in {"look", "drop", "admit"}, room[t] = r
    PROVE  Attended(r)'
<1> USE DEF Goto
<1>0. Typed
  BY DEF Ledger
<1>1. CASE Look(t)
  BY <1>0, <1>1 DEF Look, Attended, Typed, TypesButFlags
<1>2. CASE Drop(t)
  BY <1>0, <1>2 DEF Drop, Dropped, Registered, RoomsOf
<1>3. CASE Admit(t)
  <2>0. t[2] \in Joins /\ t = Call(t[2]) /\ pc[t] = "admit" /\ UserOf(t) \in Users /\ ChannelOf(t) \in Channels
    BY <1>0, <1>3, ThreadFacts DEF Admit
  <2>1. CASE peers' = [peers EXCEPT ![room[t]][UserOf(t)] = t[2]]
    BY <1>0, <2>0, <2>1 DEF Empty, Typed, TypesButFlags
  <2>2. CASE spoilt' = spoilt \cup {ChannelOf(t)}
    BY <2>0, <2>2 DEF Ledger, RoomsTaken, ChannelOf
  <2> QED
    BY <1>3, <2>1, <2>2 DEF Admit
<1>4. CASE ~Look(t) /\ ~Drop(t) /\ ~Admit(t)
  <2>1. ~Acts(t) /\ ~Starts(t)
    BY <1>0, <1>4, ThreadsAre DEF Acts, Starts, Find, Remove, Each, Take, Answer, Check, CloseAll, Join, Leave, LeaveAll, Forget
  <2> QED
    BY <1>0, <2>1, OneActs DEF Attended
<1> QED
  BY <1>1, <1>2, <1>3, <1>4

LEMMA AttendedStep ==
    ASSUME Ledger, ForgottenForGood, EmptyRoomsAttended, Next
    PROVE  EmptyRoomsAttended'
<1> USE DEF Goto
<1> SUFFICES ASSUME NEW c \in Channels \ spoilt', NEW r \in Joins, rooms'[c] = r, Empty(r)'
             PROVE  Attended(r)'
  <2>1. rooms' \in [Channels -> Joins \cup {None}]
    BY TypedStep DEF Ledger, Typed, TypesButFlags
  <2> QED
    BY <2>1 DEF EmptyRoomsAttended, Empty, Attended
<1>0. Typed
  BY DEF Ledger
<1>1. CASE rooms[c] = r /\ Empty(r)
  <2>1. c \notin spoilt
    BY DEF Next, Join, Fail, Leave, LeaveAll, CloseChannel, Reconfigure, Close, Forget, Find, Remove,
        Look, Drop, Each, Take, Admit, Answer, Check, CloseAll
  <2>2. Attended(r)
    BY <1>1, <2>1 DEF EmptyRoomsAttended
  <2> QED
    BY <1>1, <2>2, AttendedStays DEF Attended
<1>2. CASE rooms[c] = r /\ ~Empty(r)
  <2>1. ASSUME NEW t \in Threads, Remove(t), room[t] = r
        PROVE  Attended(r)'
    BY <1>0, <2>1 DEF Remove, Attended, Typed, TypesButFlags
  <2>2. ASSUME NEW t \in Threads, pc[t] = "closeall", r \in rest[t]
        PROVE  FALSE
    BY <1>2, <2>2 DEF ForgottenForGood, Registered, RoomsOf
  <2> QED
    BY <1>0, <1>2, <2>1, <2>2, Emptied
<1>3. ASSUME NEW t \in Threads, Take(t), r = t[2], rooms[c] = None, c = ChannelOf(t)
      PROVE  Attended(r)'
  <2>1. room' = [room EXCEPT ![t] = r] /\ pc' = [pc EXCEPT ![t] = "admit"]
    <3>1. ~closed
      BY <1>3 DEF Take
    <3> QED
      BY <1>3, <3>1 DEF Take
  <2> QED
    BY <1>0, <2>1 DEF Attended, Typed, TypesButFlags
<1> QED
  BY <1>0, <1>1, <1>2, <1>3, KeptOrMade

-----------------------------------------------------------------------------
(* Who is orphaned                                                          *)

\* A Join is busy because it was, or has just begun.
LEMMA BusyOrBegins ==
    ASSUME Typed, Next, NEW j \in Joins, Busy(Call(j))'
    PROVE  Busy(Call(j)) \/ (Join(j) /\ pc[Call(j)] = "new")
<1>0. Call(j) \in Threads /\ Call(j)[2] = j /\ j \notin Calls /\ ~Starts(Call(j))
  BY ThreadsAre DEF Starts
<1>1. CASE Acts(Call(j))
  BY <1>0, <1>1 DEF Acts, Busy, Find, Remove, Look, Drop, Each, Take, Admit, Answer, Check, CloseAll, Join
<1>2. CASE ~Acts(Call(j))
  BY <1>0, <1>2, OneActs DEF Busy
<1> QED
  BY <1>1, <1>2

LEMMA FlagsStay ==
    ASSUME Typed, Next
    PROVE  (uprooted => uprooted') /\ (doubled => doubled')
<1>1. ASSUME NEW j \in Joins, Join(j)
      PROVE  (uprooted => uprooted') /\ (doubled => doubled')
  BY <1>1 DEF Join
<1>2. ASSUME NEW t \in Threads, Drop(t)
      PROVE  (uprooted => uprooted') /\ (doubled => doubled')
  BY <1>2 DEF Drop, Uproot
<1>3. ASSUME NEW x \in Calls, CloseChannel(x) \/ Reconfigure(x) \/ Close(x)
      PROVE  (uprooted => uprooted') /\ (doubled => doubled')
  <2>1. PICK cs \in SUBSET Channels : Forget(x, cs)
    BY <1>3, Forgets DEF Typed
  <2> QED
    BY <2>1 DEF Forget, Uproot
<1>4. UNCHANGED <<uprooted, doubled>> => (uprooted => uprooted') /\ (doubled => doubled')
  OBVIOUS
<1> QED
  BY <1>1, <1>2, <1>3, <1>4 DEF Next, Fail, Leave, LeaveAll, Find, Remove, Look, Each, Take, Admit, Answer, Check, CloseAll

LEMMA OverlapStep ==
    ASSUME Typed, NoneOverlap, Next
    PROVE  NoneOverlap'
<1> SUFFICES ASSUME ~doubled', NEW j \in Joins, NEW k \in Joins, goal'[j] = goal'[k],
                    Busy(Call(j))', Busy(Call(k))', j # k
             PROVE  FALSE
  BY DEF NoneOverlap
<1>0. goal[j] = goal[k] /\ ~doubled
  BY GoalStays, FlagsStay
<1>1. ASSUME NEW a \in Joins, NEW b \in Joins, a # b, goal[a] = goal[b], Join(a), Busy(Call(b))
      PROVE  FALSE
  BY <1>1 DEF Join
<1>2. ASSUME NEW a \in Joins, NEW b \in Joins, a # b, Join(a), pc[Call(b)] = "new", Busy(Call(b))'
      PROVE  FALSE
  BY <1>2, ThreadsAre DEF Join, Busy, Goto, Typed, TypesButFlags
<1> QED
  BY <1>0, <1>1, <1>2, BusyOrBegins DEF NoneOverlap

\* Whoever is on the way into a room that is forgotten is uprooted.
LEMMA Uproots ==
    ASSUME Typed, Next, NEW c \in Channels, rooms[c] # None, rooms'[c] # rooms[c],
           NEW s \in Threads, pc[s] = "admit", room[s] = rooms[c]
    PROVE  uprooted'
<1>1. ASSUME NEW t \in Threads, Drop(t)
      PROVE  uprooted'
  BY <1>1 DEF Drop, Uproot, Typed, TypesButFlags
<1>2. ASSUME NEW x \in Calls, NEW cs \in SUBSET Channels, Forget(x, cs)
      PROVE  uprooted'
  <2>1. rooms[c] \in RoomsOf(cs)
    BY <1>2 DEF Forget, RoomsOf, Typed, TypesButFlags
  <2> QED
    BY <1>2, <2>1 DEF Forget, Uproot
<1>3. ASSUME NEW x \in Calls, CloseChannel(x) \/ Reconfigure(x) \/ Close(x)
      PROVE  \E cs \in SUBSET Channels : Forget(x, cs)
  BY <1>3, Forgets DEF Typed
<1>4. ASSUME NEW t \in Threads, Take(t)
      PROVE  FALSE
  <2>1. rooms' = rooms \/ rooms' = [rooms EXCEPT ![ChannelOf(t)] = IF rooms[ChannelOf(t)] = None
                                                                  THEN t[2] ELSE rooms[ChannelOf(t)]]
    BY <1>4 DEF Take
  <2> QED
    BY <2>1, ThreadFacts DEF Typed, TypesButFlags
<1> QED
  BY <1>1, <1>2, <1>3, <1>4 DEF Next, Join, Fail, Leave, LeaveAll, Find, Remove, Look, Each, Admit, Answer,
      Check, CloseAll, relayVars

\* As long as nothing is uprooted, a Join on its way in is on its way into the room of its channel.
ArrivalsRooted == \A j \in Joins : pc[Call(j)] = "admit" => rooms[goal[j][1]] = room[Call(j)]

LEMMA RootedStep ==
    ASSUME Ledger, ArrivalsRooted, Next, ~uprooted'
    PROVE  ArrivalsRooted'
<1> SUFFICES ASSUME NEW j \in Joins, pc'[Call(j)] = "admit"
             PROVE  rooms'[goal[j][1]] = room'[Call(j)]
  BY GoalStays DEF ArrivalsRooted
<1>0. Typed /\ Call(j) \in Threads /\ goal[j][1] \in Channels /\ ChannelOf(Call(j)) = goal[j][1]
  <2>1. Call(j) \in Threads /\ Call(j)[2] = j
    BY ThreadsAre
  <2> QED
    BY <2>1, ThreadFacts DEF Ledger, ChannelOf
<1>1. CASE Take(Call(j))
  BY <1>0, <1>1 DEF Take, Goto, Typed, TypesButFlags
<1>2. CASE ~Take(Call(j))
  <2>1. pc[Call(j)] = "admit" /\ room'[Call(j)] = room[Call(j)]
    BY <1>0, <1>2, StillOrTakes
  <2>2. room[Call(j)] # None
    BY <1>0, <2>1, ThreadFacts
  <2> QED
    BY <1>0, <2>1, <2>2, Uproots DEF ArrivalsRooted
<1> QED
  BY <1>1, <1>2

\* A Join that has left its room does not find itself in it again.
LeftForGood ==
    \A k \in Joins : HasLeft(k) =>
        LET r == rooms[goal[k][1]] IN r # None => peers[r][goal[k][2]] = None

LEMMA LeftStep ==
    ASSUME Ledger, NoneOverlap, LeftForGood, Next, ~doubled'
    PROVE  LeftForGood'
<1> SUFFICES ASSUME NEW k \in Joins, HasLeft(k)', NEW r \in Joins, rooms'[goal[k][1]] = r,
                    NEW p \in Joins, peers'[r][goal[k][2]] = p
             PROVE  FALSE
  <2>1. /\ rooms' \in [Channels -> Joins \cup {None}]
        /\ peers' \in [Joins -> [Users -> Joins \cup {None}]]
    BY TypedStep DEF Ledger, Typed, TypesButFlags
  <2>2. \A k \in Joins : goal[k][1] \in Channels /\ goal[k][2] \in Users
    BY DEF Ledger, Typed, TypesButFlags
  <2> QED
    BY <2>1, <2>2, GoalStays DEF LeftForGood
<1> DEFINE c == goal[k][1]
           u == goal[k][2]
<1>0. /\ Typed /\ Typed' /\ RoomsTaken' /\ PeersSeated' /\ NoneOverlap' /\ goal' = goal
      /\ Call(k) \in Threads /\ Call(k)[2] = k /\ c \in Channels /\ u \in Users /\ k \notin Calls
      /\ ChannelOf(Call(k)) = c /\ UserOf(Call(k)) = u
  <2>1. Call(k) \in Threads /\ Call(k)[2] = k
    BY ThreadsAre
  <2> QED
    BY <2>1, TypedStep, LedgerStep, OverlapStep, GoalStays, ThreadFacts DEF Ledger, ChannelOf, UserOf
<1>1. pc'[Call(k)] \in {"remove", "look", "drop", "take", "admit"} /\ (pc'[Call(k)] = "remove" => room'[Call(k)] # r)
  BY <1>0 DEF HasLeft
<1>2. rooms[c] = r
  <2>1. ASSUME NEW t \in Threads, Take(t), r = t[2]
        PROVE  FALSE
    BY <2>1, <1>0, FreshRoom DEF Take, Empty
  <2> QED
    BY <1>0, <2>1, KeptOrMade
<1>3. CASE peers[r][u] = p
  <2>1. ~HasLeft(k)
    BY <1>2, <1>3 DEF LeftForGood
  <2>2. CASE Find(Call(k))
    BY <1>0, <1>1, <1>2, <2>2 DEF Find, Goto, Typed, TypesButFlags
  <2>3. CASE Remove(Call(k))
    <3>1. room[Call(k)] = r
      BY <1>2, <2>1, <2>3 DEF HasLeft, Remove
    <3>2. peers'[r][u] = None
      BY <1>0, <2>3, <3>1 DEF Remove, Typed, TypesButFlags
    <3> QED
      BY <3>2
  <2>4. CASE ~Find(Call(k)) /\ ~Remove(Call(k))
    <3>1. ~Starts(Call(k))
      BY <1>1 DEF Starts
    <3>2. pc[Call(k)] \notin {"look", "drop", "take", "admit"}
      BY <2>1 DEF HasLeft
    <3>3. ~Take(Call(k)) /\ ~Admit(Call(k)) /\ ~Look(Call(k)) /\ ~Drop(Call(k))
      BY <3>2 DEF Take, Admit, Look, Drop
    <3>4. ~Join(k)
      BY <1>1, <1>0 DEF Join, Goto, Typed, TypesButFlags
    <3>5. ~Each(Call(k)) /\ ~Check(Call(k))
      BY <1>0, ThreadsAre DEF Each, Check, Typed, ThreadsFit, Fit
    <3>6. ~Answer(Call(k)) /\ ~CloseAll(Call(k))
      BY <1>0, <1>1, ThreadsAre DEF Answer, CloseAll, Goto, Typed, TypesButFlags, ThreadsFit, Fit
    <3>7. ~Acts(Call(k))
      BY <1>0, <2>4, <3>3, <3>4, <3>5, <3>6 DEF Acts
    <3> QED
      BY <1>0, <1>1, <1>2, <2>1, <3>1, <3>7, OneActs DEF HasLeft
  <2> QED
    BY <2>2, <2>3, <2>4
<1>4. CASE peers[r][u] # p
  <2>1. pc[Call(p)] = "admit" /\ room[Call(p)] = r /\ goal[p][2] = u
    BY <1>0, <1>4, ThereOrAdmitted
  <2>2. pc'[Call(p)] \in {"answer", "done"} /\ p # k
    BY <1>0, <1>1 DEF PeersSeated
  <2>3. pc'[Call(p)] = "answer"
    <3>1. Admit(Call(p)) /\ Call(p) \in Threads
      BY <1>0, <1>4, ThereOrAdmitted, ThreadsAre
    <3>2. CASE pc'[Call(p)] = "done"
      BY <1>0, <1>4, <3>1, <3>2 DEF Admit, Goto, Typed, TypesButFlags
    <3> QED
      BY <2>2, <3>2
  <2>4. goal[p][1] = c
    BY <1>0, <1>2, <2>1 DEF Ledger, RoomsTaken
  <2>5. goal[p] = goal[k]
    <3>1. goal[p] \in Channels \X Users /\ goal[k] \in Channels \X Users
      BY DEF Ledger, Typed, TypesButFlags
    <3> QED
      BY <2>1, <2>4, <3>1
  <2> QED
    BY <1>0, <1>1, <2>2, <2>3, <2>5 DEF NoneOverlap, Busy
<1> QED
  BY <1>3, <1>4

\* Whoever is open is in the room their Join took, and that room is registered or about to be closed.
OpenSeated ==
    \A j \in open :
        /\ peers[room[Call(j)]][goal[j][2]] = j
        /\ \/ rooms[goal[j][1]] = room[Call(j)]
           \/ \E t \in Threads : pc[t] = "closeall" /\ room[Call(j)] \in rest[t]

\* A peer is open because it was, or is admitted.
LEMMA OpenOrAdmitted ==
    ASSUME Typed, Next, NEW j \in open'
    PROVE  \/ j \in open
           \/ /\ Admit(Call(j)) /\ pc[Call(j)] = "admit" /\ rooms' = rooms
              /\ peers' = [peers EXCEPT ![room[Call(j)]][goal[j][2]] = j]
<1>1. ASSUME NEW t \in Threads, Admit(t), j \notin open
      PROVE  t = Call(j) /\ pc[t] = "admit" /\ rooms' = rooms /\ peers' = [peers EXCEPT ![room[t]][goal[j][2]] = j]
  BY <1>1, ThreadFacts DEF Admit, UserOf
<1> QED
  BY <1>1 DEF Next, Join, Fail, Leave, LeaveAll, CloseChannel, Reconfigure, Close, Forget, Find, Remove,
      Look, Drop, Each, Take, Answer, Check, CloseAll, relayVars

LEMMA OpenStep ==
    ASSUME Ledger, ArrivalsRooted, LeftForGood, OpenSeated, Next
    PROVE  OpenSeated'
<1> USE DEF Goto
<1> SUFFICES ASSUME NEW j \in open'
             PROVE  /\ peers'[room'[Call(j)]][goal[j][2]] = j
                    /\ \/ rooms'[goal[j][1]] = room'[Call(j)]
                       \/ \E t \in Threads : pc'[t] = "closeall" /\ room'[Call(j)] \in rest'[t]
  BY GoalStays DEF OpenSeated
<1> DEFINE c == goal[j][1]
           u == goal[j][2]
           r == room[Call(j)]
<1>0. Typed /\ j \in Joins /\ Call(j) \in Threads /\ c \in Channels /\ u \in Users
  <2>1. j \in Joins
    BY TypedStep DEF Ledger, Typed, TypesButFlags
  <2>2. goal[j] \in Channels \X Users
    BY <2>1 DEF Ledger, Typed, TypesButFlags
  <2> QED
    BY <2>1, <2>2, ThreadsAre DEF Ledger
<1>1. CASE j \notin open
  <2>1. /\ pc[Call(j)] = "admit" /\ rooms' = rooms /\ room' = room
        /\ peers' = [peers EXCEPT ![r][u] = j]
    BY <1>0, <1>1, OpenOrAdmitted DEF Admit
  <2>2. r \in Joins /\ rooms[c] = r
    BY <1>0, <2>1, ThreadFacts DEF ArrivalsRooted
  <2> QED
    BY <1>0, <2>1, <2>2 DEF Typed, TypesButFlags
<1>2. CASE j \in open
  <2>1. r \in Joins /\ pc[Call(j)] \in {"answer", "done"} /\ room'[Call(j)] = r /\ peers[r][u] = j
    <3>1. Admitted(j)
      BY <1>0, <1>2 DEF Typed, ThreadsFit
    <3> QED
      BY <1>0, <1>2, <3>1, SeatStays DEF Typed, TypesButFlags, Admitted, OpenSeated
  <2>2. peers'[r][u] = j
    <3>1. ASSUME NEW t \in Threads, Remove(t)
          PROVE  peers'[r][u] = j
      BY <1>0, <2>1, <3>1, ThreadFacts DEF Remove, Typed, TypesButFlags
    <3>2. ASSUME NEW t \in Threads, NEW q \in rest[t], peers' = [peers EXCEPT ![q] = [v \in Users |-> None]],
                 open' = open \ {peers[q][v] : v \in Users}
          PROVE  peers'[r][u] = j
      <4>1. q # r
        BY <1>0, <2>1, <3>2
      <4> QED
        BY <1>0, <2>1, <3>2, <4>1 DEF Typed, TypesButFlags
    <3>3. ASSUME NEW t \in Threads, Admit(t)
          PROVE  peers'[r][u] = j
      <4>0. t[2] \in Joins /\ t = Call(t[2]) /\ pc[t] = "admit" /\ room[t] \in Joins /\ UserOf(t) \in Users
        BY <1>0, <3>3, ThreadFacts DEF Admit
      <4>1. rooms[goal[t[2]][1]] = room[t]
        BY <4>0 DEF ArrivalsRooted
      <4>2. peers[room[t]][UserOf(t)] = None
        BY <4>0, <4>1 DEF LeftForGood, HasLeft, UserOf
      <4>3. peers' = peers \/ peers' = [peers EXCEPT ![room[t]][UserOf(t)] = t[2]]
        BY <3>3 DEF Admit
      <4> QED
        BY <1>0, <2>1, <4>0, <4>2, <4>3 DEF Typed, TypesButFlags
    <3>4. ASSUME NEW t \in Threads, CloseAll(t)
          PROVE  peers'[r][u] = j
      BY <2>1, <3>2, <3>4 DEF CloseAll
    <3> QED
      BY <2>1, <3>1, <3>3, <3>4 DEF Next, Join, Fail, Leave, LeaveAll, CloseChannel, Reconfigure, Close, Forget,
          Find, Look, Drop, Each, Take, Answer, Check, relayVars
  <2>3. CASE rooms[c] = r
    <3>1. ASSUME NEW t \in Threads, Drop(t)
          PROVE  rooms'[c] = r
      BY <1>0, <2>1, <2>3, <3>1 DEF Drop, Dropped, Empty
    <3>2. ASSUME NEW x \in Calls, NEW cs \in SUBSET Channels, Forget(x, cs), rooms'[c] # r
          PROVE  pc'[Call(x)] = "closeall" /\ r \in rest'[Call(x)] /\ Call(x) \in Threads
      BY <1>0, <2>1, <2>3, <3>2, ThreadsAre DEF Forget, RoomsOf, Typed, TypesButFlags
    <3>3. ASSUME NEW x \in Calls, CloseChannel(x) \/ Reconfigure(x) \/ Close(x), rooms'[c] # r
          PROVE  \E t \in Threads : pc'[t] = "closeall" /\ r \in rest'[t]
      <4>1. PICK cs \in SUBSET Channels : Forget(x, cs)
        BY <1>0, <3>3, Forgets DEF Typed
      <4> QED
        BY <3>2, <3>3, <4>1
    <3>4. ASSUME NEW t \in Threads, Take(t)
          PROVE  rooms'[c] = r
      <4>1. rooms' = rooms \/ rooms' = [rooms EXCEPT ![ChannelOf(t)] = IF rooms[ChannelOf(t)] = None
                                                                      THEN t[2] ELSE rooms[ChannelOf(t)]]
        BY <3>4 DEF Take
      <4> QED
        BY <1>0, <2>1, <2>3, <4>1, ThreadFacts DEF Typed, TypesButFlags
    <3>5. rooms'[c] = r \/ \E t \in Threads : pc'[t] = "closeall" /\ r \in rest'[t]
      BY <2>3, <3>1, <3>3, <3>4 DEF Next, Join, Fail, Leave, LeaveAll, Find, Remove, Look, Each, Admit, Answer,
          Check, CloseAll, relayVars
    <3> QED
      BY <2>1, <2>2, <3>5
  <2>4. CASE rooms[c] # r
    <3>1. PICK t \in Threads : pc[t] = "closeall" /\ r \in rest[t]
      BY <1>2, <2>4 DEF OpenSeated
    <3>2. CASE CloseAll(t)
      <4>1. PICK q \in rest[t] :
              /\ rest' = [rest EXCEPT ![t] = @ \ {q}]
              /\ open' = open \ {peers[q][v] : v \in Users}
              /\ UNCHANGED pc
        BY <3>1, <3>2 DEF CloseAll
      <4>2. q # r
        BY <1>0, <2>1, <4>1
      <4>3. r \in rest'[t]
        BY <1>0, <3>1, <4>1, <4>2 DEF Typed, TypesButFlags
      <4> QED
        BY <2>1, <2>2, <3>1, <4>1, <4>3
    <3>3. CASE ~CloseAll(t)
      <4>1. ~Acts(t) /\ ~Starts(t)
        BY <3>1, <3>3, ThreadsAre DEF Acts, Starts, Find, Remove, Look, Drop, Each, Take, Admit, Answer, Check, Join, Leave,
            LeaveAll, Forget
      <4> QED
        BY <1>0, <2>1, <2>2, <3>1, <4>1, OneActs
    <3> QED
      BY <3>2, <3>3
  <2> QED
    BY <2>3, <2>4
<1> QED
  BY <1>1, <1>2

-----------------------------------------------------------------------------
(* The rooms of the relay                                                   *)

LEMMA FlagsStep ==
    ASSUME Flags, Next
    PROVE  Flags'
<1> USE DEF Flags, Uproot
<1>1. ASSUME NEW j \in Joins, Join(j) \/ Fail(j)
      PROVE  Flags'
  BY <1>1 DEF Join, Fail
<1>2. ASSUME NEW x \in Calls, Leave(x) \/ LeaveAll(x)
      PROVE  Flags'
  BY <1>2 DEF Leave, LeaveAll
<1>3. ASSUME NEW x \in Calls, CloseChannel(x) \/ Reconfigure(x) \/ Close(x)
      PROVE  Flags'
  BY <1>3 DEF CloseChannel, Reconfigure, Close, Forget
<1>4. ASSUME NEW t \in Threads, Drop(t)
      PROVE  Flags'
  BY <1>4 DEF Drop
<1> QED
  BY <1>1, <1>2, <1>3, <1>4 DEF Next, Find, Remove, Look, Each, Take, Admit, Answer, Check, CloseAll

\* Where everybody is who is open, unless the code let two calls collide.
Seated == ~uprooted /\ ~doubled => ArrivalsRooted /\ LeftForGood /\ OpenSeated

\* The inductive invariant.
Rooms ==
    /\ Flags /\ Ledger
    /\ ArrivalsCurrent /\ RoomsAreCurrent
    /\ ForgottenForGood /\ EmptyRoomsAttended
    /\ NoneOverlap /\ Seated

LEMMA RoomsInit == Init => Rooms
<1> SUFFICES ASSUME Init
             PROVE  Rooms
  OBVIOUS
<1>1. Flags
  BY DEF Init, Flags
<1>2. Ledger
  BY LedgerInit DEF Ledger
<1>3. /\ \A c \in Channels : rooms[c] = None
      /\ \A j \in Joins : pc[Call(j)] = "new"
      /\ \A t \in Threads : pc[t] = "new"
      /\ open = {}
  BY ThreadsAre DEF Init
<1>4. ArrivalsCurrent /\ RoomsAreCurrent /\ ForgottenForGood /\ EmptyRoomsAttended /\ NoneOverlap
  BY <1>3 DEF ArrivalsCurrent, RoomsAreCurrent, ForgottenForGood, EmptyRoomsAttended, NoneOverlap, Busy
<1>5. Seated
  <2>1. goal \in [Joins \cup Calls -> Channels \X Users]
    BY DEF Init
  <2> QED
    BY <1>3, <2>1 DEF Seated, ArrivalsRooted, LeftForGood, HasLeft, OpenSeated
<1> QED
  BY <1>1, <1>2, <1>4, <1>5 DEF Rooms

LEMMA RoomsStep == Rooms /\ [Next]_vars => Rooms'
<1> SUFFICES ASSUME Rooms, [Next]_vars
             PROVE  Rooms'
  OBVIOUS
<1>1. CASE Next
  <2>1. Flags' /\ Ledger'
    BY <1>1, FlagsStep, LedgerStep DEF Rooms, Ledger
  <2>2. ArrivalsCurrent' /\ RoomsAreCurrent' /\ ForgottenForGood' /\ EmptyRoomsAttended'
    BY <1>1, ArrivalsStep, CurrentStep, ForgottenStep, AttendedStep DEF Rooms
  <2>3. NoneOverlap'
    BY <1>1, OverlapStep DEF Rooms, Ledger
  <2>4. ASSUME ~uprooted', ~doubled'
        PROVE  ArrivalsRooted' /\ LeftForGood' /\ OpenSeated'
    <3>1. ArrivalsRooted /\ LeftForGood /\ OpenSeated
      BY <1>1, <2>4, FlagsStay DEF Rooms, Ledger, Seated
    <3> QED
      BY <1>1, <2>4, <3>1, RootedStep, LeftStep, OpenStep DEF Rooms
  <2> QED
    BY <2>1, <2>2, <2>3, <2>4 DEF Rooms, Seated
<1>2. CASE UNCHANGED vars
  BY <1>2 DEF vars, Rooms, Flags, Ledger, Typed, TypesButFlags, ThreadsFit, Fit, Admitted, RoomsTaken, Taken,
      PeersSeated, ArrivalsCurrent, RoomsAreCurrent, Registered, RoomsOf, ForgottenForGood, EmptyRoomsAttended,
      Attended, Empty, NoneOverlap, Busy, Seated, ArrivalsRooted, LeftForGood, HasLeft, OpenSeated
<1> QED
  BY <1>1, <1>2

\* Quiet is what makes the two properties about resting states follow.
LEMMA RoomsShow == Rooms => TypeOK /\ RoomsAreCurrent /\ NoEmptyRooms /\ OrphansExplained
<1> SUFFICES ASSUME Rooms
             PROVE  TypeOK /\ RoomsAreCurrent /\ NoEmptyRooms /\ OrphansExplained
  OBVIOUS
<1>1. TypeOK
  BY DEF Rooms, Flags, Ledger, Typed, TypesButFlags, TypeOK
<1>2. NoEmptyRooms
  <2> SUFFICES ASSUME Quiet, NEW c \in Channels \ spoilt, rooms[c] # None, Empty(rooms[c])
               PROVE  FALSE
    BY DEF NoEmptyRooms
  <2> QED
    BY DEF Rooms, EmptyRoomsAttended, Attended, Quiet, Busy
<1>3. OrphansExplained
  <2> SUFFICES ASSUME ~uprooted, ~doubled, Quiet, NEW j \in open
               PROVE  Found(j)
    BY DEF OrphansExplained, NoOrphans
  <2>1. peers[room[Call(j)]][goal[j][2]] = j /\ rooms[goal[j][1]] = room[Call(j)]
    BY DEF Rooms, Seated, OpenSeated, Quiet, Busy
  <2>2. room[Call(j)] # None
    BY DEF Rooms, Ledger, Typed, ThreadsFit, Admitted
  <2> QED
    BY <2>1, <2>2 DEF Found
<1> QED
  BY <1>1, <1>2, <1>3 DEF Rooms

\* The map of rooms and the threads that work on it keep their types.
THEOREM RoomsKeepTypes == Spec => []TypeOK
<1>1. Rooms => TypeOK
  BY RoomsShow
<1> QED
  BY RoomsInit, RoomsStep, <1>1, PTL DEF Spec

\* Nobody is carried across a reconfiguration, and the map does not keep a room nobody is in,
\* however many calls of Join, Leave, LeaveAll, CloseChannel, Reconfigure and Close overlap.
THEOREM RoomsStayCurrent == Spec => [](RoomsAreCurrent /\ NoEmptyRooms)
<1>1. Rooms => RoomsAreCurrent /\ NoEmptyRooms
  BY RoomsShow
<1> QED
  BY RoomsInit, RoomsStep, <1>1, PTL DEF Spec

\* Two Joins of one user into one channel, and a room forgotten under a Join, are the only ways
\* to leave a peer open that neither Leave nor LeaveAll finds.
THEOREM OrphansAreExplained == Spec => []OrphansExplained
<1>1. Rooms => OrphansExplained
  BY RoomsShow
<1> QED
  BY RoomsInit, RoomsStep, <1>1, PTL DEF Spec

-----------------------------------------------------------------------------
(* The media of a room                                                      *)

\* What user u is to be sent of the publications of the others.
Entitled(u, k) ==
    /\ u \in members /\ k[1] \in members \ {u}
    /\ k[2] \in armed[k[1]]
    /\ k[2] = "mic" \/ k[1] \in watching[u]

\* The edits that are owed make up for what differs from that, and nothing else: media
\* stops at once, subscriptions follow edit by edit.
EditFits(u, k) ==
    /\ u \in sinks[k] => Entitled(u, k)
    /\ k \in subs[u] /\ Entitled(u, k) => u \in sinks[k]
    /\ k \notin subs[u] /\ Entitled(u, k) => <<"link", u, k>> \in work
    /\ k \in subs[u] /\ ~Entitled(u, k) => <<"unlink", u, k>> \in work
    /\ <<"link", u, k>> \in work => Entitled(u, k)
    /\ <<"unlink", u, k>> \in work => ~Entitled(u, k)

EditsFit == \A u \in Users, k \in Media!Keys : EditFits(u, k)

\* Nothing is left of who is not in the room.
GoneIsGone ==
    \A u \in Users \ members :
        /\ armed[u] = {} /\ subs[u] = {} /\ watching[u] = {}
        /\ signalling[u] = "none" /\ offerer[u] = "nobody" /\ reader[u] = "idle"
        /\ u \notin negotiating /\ u \notin timer

\* An offer of a peer is being made, or has been made, or has been answered.
OneOffer ==
    \A u \in Users :
        /\ offerer[u] # "nobody" =>
              u \in negotiating /\ signalling[u] # "offering" /\ reader[u] # "settle"
        /\ signalling[u] = "offering" => u \in negotiating /\ reader[u] # "settle"
        /\ reader[u] = "settle" => u \in negotiating /\ signalling[u] = "stable"

\* What a client has not been told is in the offer somebody is about to make, or in the
\* next one.
ToBeTold(u) ==
    \/ offerer[u] # "nobody"
    \/ u \in negotiating /\ u \in pending
    \/ reader[u] = "offer"

TellsAll ==
    \A u \in members \ evicting :
        signalling[u] # "none" /\ described[u] # Media!Sections(u) => ToBeTold(u)

MediaHolds ==
    Media!TypeOK /\ GoneIsGone /\ EditsFit /\ OneOffer /\ TellsAll /\ Media!OffersHaveClocks

LEMMA KeyParts ==
    \A k \in Media!Keys : k = <<k[1], k[2]>> /\ k[1] \in Users /\ k[2] \in Purposes
BY DEF Media!Keys

-----------------------------------------------------------------------------
(* Types                                                                    *)

LEMMA MediaTypesInit == Media!Init => Media!TypeOK
BY BoundsAssumption DEF Media!Init, Media!TypeOK, Media!Keys, Media!Edits, Media!ScreenPurposes

\* The edits that an action can owe are edits.
LEMMA EditsAre ==
    ASSUME Media!TypeOK, NEW u \in Users, NEW ps \in SUBSET Purposes
    PROVE  /\ Media!Links(u, ps) \subseteq Media!Edits
           /\ Media!Unlinks(u, ps) \subseteq Media!Edits
           /\ \A o \in Users, k \in Media!Keys :
                 /\ <<"link", o, k>> \in Media!Links(u, ps) <=> k[1] = u /\ k[2] \in ps
                 /\ <<"unlink", o, k>> \notin Media!Links(u, ps)
                 /\ <<"link", o, k>> \notin Media!Unlinks(u, ps)
                 /\ <<"unlink", o, k>> \in Media!Unlinks(u, ps) <=>
                       k[1] = u /\ k[2] \in ps /\ o \in sinks[k]
<1>1. \A p \in ps : <<u, p>> \in Media!Keys /\ sinks[<<u, p>>] \subseteq Users
  BY DEF Media!TypeOK, Media!Keys
<1>2. Media!Links(u, ps) \subseteq Media!Edits
  BY <1>1 DEF Media!Links, Media!Edits
<1>3. ASSUME NEW e
      PROVE  e \in Media!Unlinks(u, ps) <=>
                \E p \in ps : \E o \in sinks[<<u, p>>] : e = <<"unlink", o, <<u, p>>>>
  <2> DEFINE Of(p) == {<<"unlink", o, <<u, p>>>> : o \in sinks[<<u, p>>]}
  <2>1. Media!Unlinks(u, ps) = UNION {Of(p) : p \in ps}
    BY DEF Media!Unlinks
  <2>2. \A p \in ps : e \in Of(p) <=> \E o \in sinks[<<u, p>>] : e = <<"unlink", o, <<u, p>>>>
    OBVIOUS
  <2> HIDE DEF Of
  <2>3. e \in Media!Unlinks(u, ps) <=> \E p \in ps : e \in Of(p)
    BY <2>1
  <2> QED
    BY <2>2, <2>3
<1>4. Media!Unlinks(u, ps) \subseteq Media!Edits
  <2> SUFFICES ASSUME NEW e \in Media!Unlinks(u, ps)
               PROVE  e \in Media!Edits
    OBVIOUS
  <2>1. PICK p \in ps : \E o \in sinks[<<u, p>>] : e = <<"unlink", o, <<u, p>>>>
    BY <1>3
  <2>2. PICK o \in sinks[<<u, p>>] : e = <<"unlink", o, <<u, p>>>>
    BY <2>1
  <2> QED
    BY <1>1, <2>2 DEF Media!Edits
<1>5. ASSUME NEW o \in Users, NEW k \in Media!Keys
      PROVE  /\ <<"link", o, k>> \in Media!Links(u, ps) <=> k[1] = u /\ k[2] \in ps
             /\ <<"unlink", o, k>> \notin Media!Links(u, ps)
  BY KeyParts DEF Media!Links
<1>6. ASSUME NEW o \in Users, NEW k \in Media!Keys
      PROVE  /\ <<"link", o, k>> \notin Media!Unlinks(u, ps)
             /\ <<"unlink", o, k>> \in Media!Unlinks(u, ps) <=>
                   k[1] = u /\ k[2] \in ps /\ o \in sinks[k]
  <2>1. <<"link", o, k>> \notin Media!Unlinks(u, ps)
    <3> DEFINE e == <<"link", o, k>>
    <3>1. e[1] # "unlink"
      OBVIOUS
    <3> SUFFICES ASSUME e \in Media!Unlinks(u, ps)
                 PROVE  FALSE
      OBVIOUS
    <3> HIDE DEF e
    <3>2. PICK p \in ps : \E x \in sinks[<<u, p>>] : e = <<"unlink", x, <<u, p>>>>
      BY <1>3
    <3> QED
      BY <3>1, <3>2
  <2>2. ASSUME <<"unlink", o, k>> \in Media!Unlinks(u, ps)
        PROVE  k[1] = u /\ k[2] \in ps /\ o \in sinks[k]
    <3> DEFINE e == <<"unlink", o, k>>
    <3>1. e[2] = o /\ e[3] = k
      OBVIOUS
    <3> HIDE DEF e
    <3>2. PICK p \in ps : \E x \in sinks[<<u, p>>] : e = <<"unlink", x, <<u, p>>>>
      BY <1>3, <2>2 DEF e
    <3>3. k = <<u, p>> /\ o \in sinks[<<u, p>>]
      BY <3>1, <3>2
    <3> QED
      BY <3>3
  <2>3. ASSUME k[1] = u, k[2] \in ps, o \in sinks[k]
        PROVE  <<"unlink", o, k>> \in Media!Unlinks(u, ps)
    BY <1>3, <2>3, KeyParts
  <2> QED
    BY <2>1, <2>2, <2>3
<1> QED
  BY <1>2, <1>4, <1>5, <1>6

LEMMA MediaTypesStep ==
    ASSUME Media!TypeOK, Media!Next
    PROVE  Media!TypeOK'
<1> USE BoundsAssumption DEF Media!TypeOK, Media!mediaVars, Media!signalVars
<1>1. ASSUME NEW e \in work, Media!Edit(e)
      PROVE  Media!TypeOK'
  <2>1. e[2] \in Users /\ e[3] \in Media!Keys
    BY DEF Media!Edits
  <2> QED
    BY <1>1, <2>1 DEF Media!Edit, Media!Renegotiate, Media!PendingKept, Media!ClockStarted
<1>2. ASSUME NEW u \in Users, Media!Offer(u)
      PROVE  Media!TypeOK'
  <2>1. Media!Sections(u) \subseteq Media!Keys
    BY DEF Media!Sections, Media!Keys, Media!ScreenPurposes
  <2> QED
    BY <1>2, <2>1 DEF Media!Offer
<1>3. ASSUME NEW u \in Users, Media!Answer(u) \/ Media!Settle(u) \/ Media!TimerFires(u)
      PROVE  Media!TypeOK'
  BY <1>3 DEF Media!Answer, Media!Settle, Media!TimerFires
<1>4. ASSUME NEW u \in Users, Media!OfferAgain(u)
      PROVE  Media!TypeOK'
  BY <1>4 DEF Media!OfferAgain, Media!Renegotiate, Media!PendingKept, Media!ClockStarted
<1>5. ASSUME NEW u \in Users, Media!Admit(u)
      PROVE  Media!TypeOK'
  <2> DEFINE heard == {k \in Media!Keys : k[2] = "mic" /\ k[1] \in members /\ "mic" \in armed[k[1]]}
  <2>1. heard \subseteq Media!Keys
    OBVIOUS
  <2>2. /\ subs' = [subs EXCEPT ![u] = heard]
        /\ sinks' = [k \in Media!Keys |-> IF k \in heard THEN sinks[k] \cup {u} ELSE sinks[k]]
    BY <1>5 DEF Media!Admit
  <2> HIDE DEF heard
  <2>3. subs' \in [Users -> SUBSET Media!Keys]
    BY <2>1, <2>2
  <2>4. sinks' \in [Media!Keys -> SUBSET Users]
    BY <2>2
  <2> QED
    BY <1>5, <2>3, <2>4 DEF Media!Admit
<1>6. ASSUME NEW u \in Users, Media!JoinAnswer(u)
      PROVE  Media!TypeOK'
  <2>1. Media!Sections(u) \subseteq Media!Keys
    BY DEF Media!Sections, Media!Keys, Media!ScreenPurposes
  <2> QED
    BY <1>6, <2>1 DEF Media!JoinAnswer
<1>7. ASSUME NEW u \in Users, NEW p \in Purposes, Media!Publish(u, p)
      PROVE  Media!TypeOK'
  <2>1. work' \subseteq Media!Edits
    BY <1>7, EditsAre DEF Media!Publish, Media!Owed
  <2> QED
    BY <1>7, <2>1 DEF Media!Publish
<1>8. ASSUME NEW u \in Users, NEW wanted \in SUBSET Media!ScreenPurposes,
             Media!OpenScreen(u, wanted)
      PROVE  Media!TypeOK'
  <2> DEFINE back == (arrived[u] \cap Media!ScreenPurposes) \ armed[u]
  <2>1. back \in SUBSET Purposes /\ armed' = [armed EXCEPT ![u] = @ \cup back]
        /\ work' = Media!Owed(u, back)
    BY <1>8 DEF Media!OpenScreen
  <2> HIDE DEF back
  <2>2. work' \subseteq Media!Edits
    BY <2>1, EditsAre DEF Media!Owed
  <2>3. armed' \in [Users -> SUBSET Purposes]
    BY <2>1
  <2>4. /\ slots' \in [Users -> SUBSET Media!ScreenPurposes]
        /\ reader' \in [Users -> {"idle", "settle", "offer"}]
        /\ streaming' \subseteq Users
    BY <1>8 DEF Media!OpenScreen
  <2>5. joins' = joins /\ requests' \in 0..MaxRequests
    BY <1>8 DEF Media!OpenScreen, Media!Request
  <2> QED
    BY <1>8, <2>2, <2>3, <2>4, <2>5 DEF Media!OpenScreen
<1>9. ASSUME NEW u \in Users, Media!CloseScreen(u)
      PROVE  Media!TypeOK'
  <2>1. work' \subseteq Media!Edits
    <3>1. Media!ScreenPurposes \in SUBSET Purposes
      BY DEF Media!ScreenPurposes
    <3> QED
      BY <1>9, <3>1, EditsAre DEF Media!CloseScreen
  <2> QED
    BY <1>9, <2>1 DEF Media!CloseScreen, Media!Request, Media!NoLongerWatched
<1>10. ASSUME NEW u \in Users, NEW v \in Users, Media!Watch(v, u)
       PROVE  Media!TypeOK'
  <2>1. work' \subseteq Media!Edits
    <3>1. armed[u] \cap Media!ScreenPurposes \in SUBSET Purposes
      OBVIOUS
    <3> QED
      BY <1>10, <3>1, EditsAre DEF Media!Watch
  <2>2. watching' \in [Users -> SUBSET Users] /\ joins' = joins /\ requests' \in 0..MaxRequests
    BY <1>10 DEF Media!Watch, Media!Request
  <2> QED
    BY <1>10, <2>1, <2>2 DEF Media!Watch
<1>11. ASSUME NEW u \in Users, NEW v \in Users, Media!Unwatch(v, u)
       PROVE  Media!TypeOK'
  <2>1. work' \subseteq Media!Edits
    BY <1>11 DEF Media!Unwatch, Media!Edits, Media!Keys, Media!ScreenPurposes
  <2> QED
    BY <1>11, <2>1 DEF Media!Unwatch, Media!Request
<1>12. ASSUME NEW u \in Users, Media!Remove(u), joins' \in 0..MaxJoins, requests' \in 0..MaxRequests
       PROVE  Media!TypeOK'
  <2>1. work' \subseteq Media!Edits
    BY <1>12, EditsAre DEF Media!Remove
  <2>2. sinks' \in [Media!Keys -> SUBSET Users] /\ watching' \in [Users -> SUBSET Users]
    BY <1>12 DEF Media!Remove, Media!NoLongerWatched
  <2>3. members' \subseteq Users /\ subs' \in [Users -> SUBSET Media!Keys]
    BY <1>12 DEF Media!Remove
  <2> QED
    BY <1>12, <2>1, <2>2, <2>3 DEF Media!Remove, Media!Closed
<1>13. ASSUME NEW u \in Users, Media!Leave(u) \/ Media!Evict(u)
       PROVE  Media!TypeOK'
  BY <1>12, <1>13 DEF Media!Leave, Media!Evict, Media!Request
<1>14. ASSUME NEW u \in Users, Media!TransportFails(u)
       PROVE  Media!TypeOK'
  BY <1>14 DEF Media!TransportFails, Media!Request
<1> QED
  BY <1>1, <1>2, <1>3, <1>4, <1>5, <1>6, <1>7, <1>8, <1>9, <1>10, <1>11, <1>13, <1>14
  DEF Media!Next

-----------------------------------------------------------------------------
(* Subscriptions                                                            *)

\* Most of what happens touches no subscription and nobody's right to one.
LEMMA SignalsOnly ==
    ASSUME NEW u \in Users,
           \/ Media!Offer(u) \/ Media!Answer(u) \/ Media!Settle(u) \/ Media!OfferAgain(u)
           \/ Media!TimerFires(u) \/ Media!JoinAnswer(u) \/ Media!TransportFails(u)
    PROVE  UNCHANGED <<members, armed, sinks, subs, watching, slots, work>>
BY DEF Media!Offer, Media!Answer, Media!Settle, Media!OfferAgain, Media!TimerFires,
       Media!JoinAnswer, Media!TransportFails, Media!mediaVars

\* When nobody holds the room, everybody is sent what they are entitled to.
LEMMA ExactWhenFree ==
    ASSUME EditsFit, Media!Free
    PROVE  \A u \in Users, k \in Media!Keys :
               (k \in subs[u] <=> Entitled(u, k)) /\ (u \in sinks[k] <=> Entitled(u, k))
BY DEF EditsFit, EditFits, Media!Free

LEMMA EditsFitStep ==
    ASSUME Media!TypeOK, GoneIsGone, EditsFit, Media!Next
    PROVE  EditsFit'
<1> USE DEF Media!TypeOK
<1>1. ASSUME NEW e \in work, Media!Edit(e)
      PROVE  EditsFit'
  <2>1. /\ e[2] \in Users /\ e[3] \in Media!Keys /\ e = <<e[1], e[2], e[3]>>
        /\ e[1] \in {"link", "unlink"}
    BY DEF Media!Edits
  <2>2. work' = work \ {e} /\ UNCHANGED <<members, armed, watching>>
    BY <1>1 DEF Media!Edit
  <2>3. ASSUME NEW u, NEW k
        PROVE  Entitled(u, k)' <=> Entitled(u, k)
    BY <2>2 DEF Entitled
  <2>4. e[1] = "link" <=> Entitled(e[2], e[3])
    <3>1. EditFits(e[2], e[3])
      BY <2>1 DEF EditsFit
    <3>2. CASE e[1] = "link"
      BY <2>1, <3>1, <3>2 DEF EditFits
    <3>3. CASE e[1] = "unlink"
      BY <2>1, <3>1, <3>3 DEF EditFits
    <3> QED
      BY <2>1, <3>2, <3>3
  <2>5. CASE (e[3] \in subs[e[2]]) = (e[1] = "link") \/ e[2] \notin members
    <3>1. UNCHANGED <<subs, sinks>>
      BY <1>1, <2>5 DEF Media!Edit
    <3>2. e[3] \in subs[e[2]] <=> e[1] = "link"
      BY <2>1, <2>4, <2>5 DEF GoneIsGone, Entitled
    <3> SUFFICES ASSUME NEW u \in Users, NEW k \in Media!Keys
                 PROVE  EditFits(u, k)'
      BY DEF EditsFit
    <3>3. EditFits(u, k)
      BY DEF EditsFit
    <3>4. <<"link", u, k>> \in work' <=> <<"link", u, k>> \in work /\ e # <<"link", u, k>>
      BY <2>2
    <3>5. <<"unlink", u, k>> \in work' <=> <<"unlink", u, k>> \in work /\ e # <<"unlink", u, k>>
      BY <2>2
    <3>6. (Entitled(u, k)' <=> Entitled(u, k)) /\ subs' = subs /\ sinks' = sinks
      BY <2>3, <3>1
    <3>7. e = <<"link", u, k>> => k \in subs[u]
      BY <3>2
    <3>8. e = <<"unlink", u, k>> => k \notin subs[u]
      BY <3>2
    <3> QED
      BY <3>3, <3>4, <3>5, <3>6, <3>7, <3>8 DEF EditFits
  <2>6. CASE ~((e[3] \in subs[e[2]]) = (e[1] = "link") \/ e[2] \notin members)
    <3>1. /\ subs' = [subs EXCEPT ![e[2]] = IF e[1] = "link" THEN @ \cup {e[3]} ELSE @ \ {e[3]}]
          /\ sinks' = [sinks EXCEPT ![e[3]] = IF e[1] = "link" THEN @ \cup {e[2]} ELSE @]
      BY <1>1, <2>6 DEF Media!Edit
    <3> SUFFICES ASSUME NEW u \in Users, NEW k \in Media!Keys
                 PROVE  EditFits(u, k)'
      BY DEF EditsFit
    <3>2. EditFits(u, k)
      BY DEF EditsFit
    <3>3. Entitled(u, k)' <=> Entitled(u, k)
      BY <2>3
    <3>4. CASE u = e[2] /\ k = e[3]
      <4>1. /\ e[1] = "link" => k \in subs'[u] /\ u \in sinks'[k]
            /\ e[1] # "link" => k \notin subs'[u] /\ sinks'[k] = sinks[k]
        BY <2>1, <3>1, <3>4
      <4>2. e[1] = "link" <=> Entitled(u, k)
        BY <2>4, <3>4
      <4>3. /\ <<"link", u, k>> \in work' => <<"link", u, k>> \in work
            /\ <<"unlink", u, k>> \in work' => <<"unlink", u, k>> \in work
        BY <2>2
      <4> QED
        BY <3>2, <3>3, <4>1, <4>2, <4>3 DEF EditFits
    <3>5. CASE ~(u = e[2] /\ k = e[3])
      <4>1. (k \in subs'[u] <=> k \in subs[u]) /\ (u \in sinks'[k] <=> u \in sinks[k])
        BY <2>1, <3>1, <3>5
      <4>2. /\ <<"link", u, k>> \in work' <=> <<"link", u, k>> \in work
            /\ <<"unlink", u, k>> \in work' <=> <<"unlink", u, k>> \in work
        BY <2>1, <2>2, <3>5
      <4> QED
        BY <3>2, <3>3, <4>1, <4>2 DEF EditFits
    <3> QED
      BY <3>4, <3>5
  <2> QED
    BY <2>5, <2>6
<1>2. ASSUME NEW u \in Users,
             \/ Media!Offer(u) \/ Media!Answer(u) \/ Media!Settle(u) \/ Media!OfferAgain(u)
             \/ Media!TimerFires(u) \/ Media!JoinAnswer(u) \/ Media!TransportFails(u)
      PROVE  EditsFit'
  <2>1. UNCHANGED <<members, armed, sinks, subs, watching, work>>
    BY <1>2, SignalsOnly
  <2> SUFFICES ASSUME NEW o \in Users, NEW k \in Media!Keys
               PROVE  EditFits(o, k)'
    BY DEF EditsFit
  <2>2. Entitled(o, k)' <=> Entitled(o, k)
    BY <2>1 DEF Entitled
  <2>3. EditFits(o, k)
    BY DEF EditsFit
  <2> QED
    BY <2>1, <2>2, <2>3 DEF EditFits
<1>3. ASSUME NEW u \in Users, Media!Admit(u)
      PROVE  EditsFit'
  <2> DEFINE heard == {k \in Media!Keys : k[2] = "mic" /\ k[1] \in members /\ "mic" \in armed[k[1]]}
  <2>1. /\ subs' = [subs EXCEPT ![u] = heard]
        /\ sinks' = [k \in Media!Keys |-> IF k \in heard THEN sinks[k] \cup {u} ELSE sinks[k]]
        /\ members' = members \cup {u} /\ u \notin members
        /\ UNCHANGED <<armed, watching, work>> /\ Media!Free
    BY <1>3 DEF Media!Admit
  <2>2. armed[u] = {} /\ watching[u] = {}
    BY <2>1 DEF GoneIsGone
  <2> SUFFICES ASSUME NEW o \in Users, NEW k \in Media!Keys
               PROVE  EditFits(o, k)'
    BY DEF EditsFit
  <2>3. (k \in subs[o] <=> Entitled(o, k)) /\ (o \in sinks[k] <=> Entitled(o, k)) /\ work = {}
    BY <2>1, ExactWhenFree DEF Media!Free
  <2>4. k \in heard <=> k[2] = "mic" /\ k[1] \in members /\ "mic" \in armed[k[1]]
    OBVIOUS
  <2> HIDE DEF heard
  <2>5. k[1] \in Users
    BY KeyParts
  <2>6. CASE o = u
    <3>1. Entitled(o, k)' <=> k \in heard
      BY <2>1, <2>2, <2>4, <2>5, <2>6 DEF Entitled
    <3>2. (k \in subs'[o] <=> k \in heard) /\ (o \in sinks'[k] <=> k \in heard \/ o \in sinks[k])
      BY <2>1, <2>6
    <3>3. ~Entitled(o, k)
      BY <2>1, <2>6 DEF Entitled
    <3> QED
      BY <2>1, <2>3, <3>1, <3>2, <3>3 DEF EditFits
  <2>7. CASE o # u
    <3>1. Entitled(o, k)' <=> Entitled(o, k)
      BY <2>1, <2>2, <2>5, <2>7 DEF Entitled
    <3>2. subs'[o] = subs[o] /\ (o \in sinks'[k] <=> o \in sinks[k])
      BY <2>1, <2>7
    <3> QED
      BY <2>1, <2>3, <3>1, <3>2 DEF EditFits
  <2> QED
    BY <2>6, <2>7
<1>4. ASSUME NEW u \in Users, NEW ps \in SUBSET Purposes, u \in members, Media!Free,
             armed' = [armed EXCEPT ![u] = @ \cup ps], work' = Media!Owed(u, ps),
             UNCHANGED <<members, sinks, subs, watching>>
      PROVE  EditsFit'
  <2> SUFFICES ASSUME NEW o \in Users, NEW k \in Media!Keys
               PROVE  EditFits(o, k)'
    BY DEF EditsFit
  <2>1. (k \in subs[o] <=> Entitled(o, k)) /\ (o \in sinks[k] <=> Entitled(o, k))
    BY <1>4, ExactWhenFree
  <2>2. k[1] \in Users /\ k = <<k[1], k[2]>>
    BY KeyParts
  <2>3. <<"unlink", o, k>> \notin work'
    BY <1>4, EditsAre DEF Media!Owed
  <2>4. <<"link", o, k>> \in work' <=>
            /\ k[1] = u /\ k[2] \in ps
            /\ o \in members \ {u} /\ (k[2] = "mic" \/ u \in watching[o])
    BY <1>4, EditsAre DEF Media!Owed, Media!Audience
  <2>5. Entitled(o, k)' <=> Entitled(o, k) \/ <<"link", o, k>> \in work'
    BY <1>4, <2>2, <2>4 DEF Entitled
  <2> QED
    BY <1>4, <2>1, <2>3, <2>5 DEF EditFits
<1>5. ASSUME NEW u \in Users, NEW p \in Purposes, Media!Publish(u, p)
      PROVE  EditsFit'
  <2>1. {p} \in SUBSET Purposes /\ armed' = [armed EXCEPT ![u] = @ \cup {p}]
        /\ work' = Media!Owed(u, {p}) /\ u \in members /\ Media!Free
        /\ UNCHANGED <<members, sinks, subs, watching>>
    BY <1>5 DEF Media!Publish
  <2> QED
    BY <1>4, <2>1
<1>6. ASSUME NEW u \in Users, NEW wanted \in SUBSET Media!ScreenPurposes,
             Media!OpenScreen(u, wanted)
      PROVE  EditsFit'
  <2> DEFINE back == (arrived[u] \cap Media!ScreenPurposes) \ armed[u]
  <2>1. back \in SUBSET Purposes /\ armed' = [armed EXCEPT ![u] = @ \cup back]
        /\ work' = Media!Owed(u, back) /\ u \in members /\ Media!Free
        /\ UNCHANGED <<members, sinks, subs, watching>>
    BY <1>6 DEF Media!OpenScreen
  <2> HIDE DEF back
  <2> QED
    BY <1>4, <2>1
<1>7. ASSUME NEW u \in Users, Media!CloseScreen(u)
      PROVE  EditsFit'
  <2>1. /\ armed' = [armed EXCEPT ![u] = @ \ Media!ScreenPurposes]
        /\ sinks' = [k \in Media!Keys |-> IF k[1] = u /\ k[2] # "mic" THEN {} ELSE sinks[k]]
        /\ work' = Media!Unlinks(u, Media!ScreenPurposes)
        /\ watching' = [o \in Users |-> watching[o] \ {u}]
        /\ UNCHANGED <<members, subs>> /\ Media!Free
    BY <1>7 DEF Media!CloseScreen, Media!NoLongerWatched, Media!signalVars
  <2> SUFFICES ASSUME NEW o \in Users, NEW k \in Media!Keys
               PROVE  EditFits(o, k)'
    BY DEF EditsFit
  <2>2. (k \in subs[o] <=> Entitled(o, k)) /\ (o \in sinks[k] <=> Entitled(o, k))
    BY <2>1, ExactWhenFree
  <2>3. k[1] \in Users /\ k[2] \in Purposes
    BY KeyParts
  <2>4. /\ <<"link", o, k>> \notin work'
        /\ <<"unlink", o, k>> \in work' <=> k[1] = u /\ k[2] # "mic" /\ o \in sinks[k]
    BY <2>1, <2>3, EditsAre DEF Media!ScreenPurposes
  <2>5. Entitled(o, k)' <=> Entitled(o, k) /\ ~(k[1] = u /\ k[2] # "mic")
    BY <2>1, <2>3 DEF Entitled, Media!ScreenPurposes
  <2>6. o \in sinks'[k] <=> o \in sinks[k] /\ ~(k[1] = u /\ k[2] # "mic")
    BY <2>1
  <2> QED
    BY <2>1, <2>2, <2>4, <2>5, <2>6 DEF EditFits
<1>8. ASSUME NEW u \in Users, NEW v \in Users, Media!Watch(v, u)
      PROVE  EditsFit'
  <2> DEFINE shown == armed[u] \cap Media!ScreenPurposes
  <2>1. /\ watching' = [watching EXCEPT ![v] = @ \cup {u}]
        /\ work' = {e \in Media!Links(u, shown) : e[2] = v}
        /\ UNCHANGED <<members, armed, sinks, subs>> /\ Media!Free
        /\ v \in members /\ u \in members /\ v # u
    BY <1>8 DEF Media!Watch
  <2>2. shown \in SUBSET Purposes
    OBVIOUS
  <2> SUFFICES ASSUME NEW o \in Users, NEW k \in Media!Keys
               PROVE  EditFits(o, k)'
    BY DEF EditsFit
  <2>3. (k \in subs[o] <=> Entitled(o, k)) /\ (o \in sinks[k] <=> Entitled(o, k))
    BY <2>1, ExactWhenFree
  <2>4. k[1] \in Users /\ k[2] \in Purposes
    BY KeyParts
  <2>5. k[2] \in shown <=> k[2] \in armed[u] /\ k[2] # "mic"
    BY <2>4 DEF Media!ScreenPurposes
  <2> HIDE DEF shown
  <2>6. /\ <<"unlink", o, k>> \notin work'
        /\ <<"link", o, k>> \in work' <=> o = v /\ k[1] = u /\ k[2] \in shown
    BY <2>1, <2>2, EditsAre
  <2>7. Entitled(o, k)' <=> Entitled(o, k) \/ <<"link", o, k>> \in work'
    BY <2>1, <2>4, <2>5, <2>6 DEF Entitled
  <2> QED
    BY <2>1, <2>3, <2>6, <2>7 DEF EditFits
<1>9. ASSUME NEW u \in Users, NEW v \in Users, Media!Unwatch(v, u)
      PROVE  EditsFit'
  <2>1. /\ watching' = [watching EXCEPT ![v] = @ \ {u}]
        /\ sinks' = [k \in Media!Keys |-> IF k[1] = u /\ k[2] # "mic" THEN sinks[k] \ {v} ELSE sinks[k]]
        /\ work' = {<<"unlink", v, <<u, p>>>> : p \in Media!ScreenPurposes}
        /\ UNCHANGED <<members, armed, subs>> /\ Media!Free
    BY <1>9 DEF Media!Unwatch
  <2> SUFFICES ASSUME NEW o \in Users, NEW k \in Media!Keys
               PROVE  EditFits(o, k)'
    BY DEF EditsFit
  <2>2. (k \in subs[o] <=> Entitled(o, k)) /\ (o \in sinks[k] <=> Entitled(o, k))
    BY <2>1, ExactWhenFree
  <2>3. k[1] \in Users /\ k[2] \in Purposes /\ k = <<k[1], k[2]>>
    BY KeyParts
  <2>4. /\ <<"link", o, k>> \notin work'
        /\ <<"unlink", o, k>> \in work' <=> o = v /\ k[1] = u /\ k[2] # "mic"
    BY <2>1, <2>3 DEF Media!ScreenPurposes
  <2>5. Entitled(o, k)' <=> Entitled(o, k) /\ ~(o = v /\ k[1] = u /\ k[2] # "mic")
    BY <2>1, <2>3 DEF Entitled
  <2>6. o \in sinks'[k] <=> o \in sinks[k] /\ ~(o = v /\ k[1] = u /\ k[2] # "mic")
    BY <2>1
  <2> QED
    BY <2>1, <2>2, <2>4, <2>5, <2>6 DEF EditFits
<1>10. ASSUME NEW u \in Users, Media!Leave(u) \/ Media!Evict(u)
       PROVE  EditsFit'
  <2>1. /\ members' = members \ {u}
        /\ work' = Media!Unlinks(u, Purposes)
        /\ sinks' = [k \in Media!Keys |-> IF k[1] = u THEN {} ELSE sinks[k] \ {u}]
        /\ subs' = [subs EXCEPT ![u] = {}]
        /\ watching' = [[o \in Users |-> watching[o] \ {u}] EXCEPT ![u] = {}]
        /\ armed' = [armed EXCEPT ![u] = {}]
        /\ Media!Free
    BY <1>10 DEF Media!Leave, Media!Evict, Media!Remove, Media!Closed, Media!NoLongerWatched
  <2> SUFFICES ASSUME NEW o \in Users, NEW k \in Media!Keys
               PROVE  EditFits(o, k)'
    BY DEF EditsFit
  <2>2. (k \in subs[o] <=> Entitled(o, k)) /\ (o \in sinks[k] <=> Entitled(o, k))
    BY <2>1, ExactWhenFree
  <2>3. k[1] \in Users /\ k[2] \in Purposes
    BY KeyParts
  <2>4. /\ <<"link", o, k>> \notin work'
        /\ <<"unlink", o, k>> \in work' <=> k[1] = u /\ o \in sinks[k]
    BY <2>1, <2>3, EditsAre
  <2>5. Entitled(o, k)' <=> Entitled(o, k) /\ o # u /\ k[1] # u
    BY <2>1, <2>3 DEF Entitled
  <2>6. o \in sinks'[k] <=> o \in sinks[k] /\ o # u /\ k[1] # u
    BY <2>1
  <2>7. k \in subs'[o] <=> k \in subs[o] /\ o # u
    BY <2>1
  <2> QED
    BY <2>2, <2>4, <2>5, <2>6, <2>7 DEF EditFits
<1> QED
  BY <1>1, <1>2, <1>3, <1>5, <1>6, <1>7, <1>8, <1>9, <1>10 DEF Media!Next

-----------------------------------------------------------------------------
(* Offers                                                                   *)

LEMMA MediaFirst ==
    ASSUME Media!Init
    PROVE  GoneIsGone /\ EditsFit /\ OneOffer /\ TellsAll /\ Media!OffersHaveClocks
BY DEF Media!Init, GoneIsGone, EditsFit, EditFits, Entitled, OneOffer, TellsAll,
       Media!OffersHaveClocks, Media!Keys

\* What becomes of the peer that is renegotiated, and of nobody else.
LEMMA RenegotiateIs ==
    ASSUME Media!TypeOK, NEW u \in Users, NEW by \in {"room", "reader"}, Media!Renegotiate(u, by)
    PROVE  /\ u \in negotiating =>
                 pending' = pending \cup {u} /\ UNCHANGED <<negotiating, timer, offerer>>
           /\ u \notin negotiating =>
                 /\ negotiating' = negotiating \cup {u} /\ timer' = timer \cup {u}
                 /\ offerer'[u] = by /\ pending' = pending
           /\ u \in negotiating' /\ (offerer'[u] # "nobody" \/ u \in pending')
           /\ \A o \in Users \ {u} :
                 /\ o \in negotiating' <=> o \in negotiating
                 /\ o \in pending' <=> o \in pending
                 /\ o \in timer' <=> o \in timer
                 /\ offerer'[o] = offerer[o]
BY DEF Media!Renegotiate, Media!PendingKept, Media!ClockStarted, Media!TypeOK

\* What an edit does: nothing, or a change of what one peer receives and its renegotiation.
LEMMA EditIs ==
    ASSUME Media!TypeOK, NEW e \in work, Media!Edit(e)
    PROVE  /\ e[2] \in Users
           /\ UNCHANGED <<members, arrived, armed, slots, watching, streaming, signalling,
                          described, reader, evicting, joins, requests>>
           /\ \A o \in Users \ {e[2]} : subs'[o] = subs[o]
           /\ \/ UNCHANGED <<subs, negotiating, pending, timer, offerer>>
              \/ e[2] \in members /\ Media!Renegotiate(e[2], "room")
BY DEF Media!Edit, Media!Edits, Media!TypeOK, Media!signalVars

\* What is left of somebody who goes, and that nobody else's signalling is touched.
LEMMA RemoveIs ==
    ASSUME Media!TypeOK, NEW u \in Users, Media!Leave(u) \/ Media!Evict(u)
    PROVE  /\ members' = members \ {u} /\ evicting' = evicting \ {u}
           /\ negotiating' = negotiating \ {u} /\ pending' = pending \ {u} /\ timer' = timer \ {u}
           /\ armed'[u] = {} /\ subs'[u] = {} /\ watching'[u] = {}
           /\ signalling'[u] = "none" /\ offerer'[u] = "nobody" /\ reader'[u] = "idle"
           /\ \A o \in Users \ {u} :
                 /\ armed'[o] = armed[o] /\ subs'[o] = subs[o] /\ slots'[o] = slots[o]
                 /\ watching'[o] = watching[o] \ {u}
                 /\ signalling'[o] = signalling[o] /\ described'[o] = described[o]
                 /\ offerer'[o] = offerer[o] /\ reader'[o] = reader[o]
<1>1. Media!Remove(u)
  BY DEF Media!Leave, Media!Evict
<1> QED
  BY <1>1 DEF Media!Remove, Media!Closed, Media!NoLongerWatched, Media!TypeOK

LEMMA GoneIsGoneStep ==
    ASSUME Media!TypeOK, GoneIsGone, Media!Next
    PROVE  GoneIsGone'
<1> SUFFICES ASSUME NEW o \in Users, o \notin members'
             PROVE  /\ armed'[o] = {} /\ subs'[o] = {} /\ watching'[o] = {}
                    /\ signalling'[o] = "none" /\ offerer'[o] = "nobody" /\ reader'[o] = "idle"
                    /\ o \notin negotiating' /\ o \notin timer'
  BY DEF GoneIsGone
<1>0. o \notin members =>
          /\ armed[o] = {} /\ subs[o] = {} /\ watching[o] = {}
          /\ signalling[o] = "none" /\ offerer[o] = "nobody" /\ reader[o] = "idle"
          /\ o \notin negotiating /\ o \notin timer
  BY DEF GoneIsGone
<1>1. ASSUME NEW e \in work, Media!Edit(e)
      PROVE  o # e[2] \/ UNCHANGED <<subs, negotiating, pending, timer, offerer>>
  BY <1>1, EditIs
<1>2. CASE \E e \in work : Media!Edit(e)
  BY <1>0, <1>1, <1>2, EditIs, RenegotiateIs
<1> USE DEF Media!TypeOK, Media!mediaVars, Media!signalVars
<1> DEFINE Gone ==
        /\ armed'[o] = {} /\ subs'[o] = {} /\ watching'[o] = {}
        /\ signalling'[o] = "none" /\ offerer'[o] = "nobody" /\ reader'[o] = "idle"
        /\ o \notin negotiating' /\ o \notin timer'
<1>3. ASSUME NEW u \in Users, Media!Offer(u) \/ Media!Answer(u) \/ Media!Settle(u) \/ Media!TimerFires(u)
      PROVE  Gone
  BY <1>0, <1>3 DEF Media!Offer, Media!Answer, Media!Settle, Media!TimerFires
<1>4. ASSUME NEW u \in Users, Media!OfferAgain(u)
      PROVE  Gone
  <2>1. u # o
    BY <1>0, <1>4 DEF Media!OfferAgain
  <2> QED
    BY <1>0, <1>4, <2>1, RenegotiateIs DEF Media!OfferAgain
<1>5. ASSUME NEW u \in Users, Media!Admit(u)
      PROVE  Gone
  BY <1>0, <1>5 DEF Media!Admit
<1>6. ASSUME NEW u \in Users, Media!JoinAnswer(u) \/ Media!TransportFails(u) \/ Media!CloseScreen(u)
      PROVE  Gone
  BY <1>0, <1>6
  DEF Media!JoinAnswer, Media!TransportFails, Media!CloseScreen, Media!NoLongerWatched
<1>7. ASSUME NEW u \in Users, NEW p \in Purposes, Media!Publish(u, p)
      PROVE  Gone
  BY <1>0, <1>7 DEF Media!Publish
<1>8. ASSUME NEW u \in Users, NEW wanted \in SUBSET Media!ScreenPurposes,
             Media!OpenScreen(u, wanted)
      PROVE  Gone
  BY <1>0, <1>8 DEF Media!OpenScreen
<1>9. ASSUME NEW u \in Users, NEW v \in Users, Media!Watch(v, u) \/ Media!Unwatch(v, u)
      PROVE  Gone
  BY <1>0, <1>9 DEF Media!Watch, Media!Unwatch
<1>10. ASSUME NEW u \in Users, Media!Leave(u) \/ Media!Evict(u)
       PROVE  Gone
  BY <1>0, <1>10, RemoveIs
<1> QED
  BY <1>2, <1>3, <1>4, <1>5, <1>6, <1>7, <1>8, <1>9, <1>10 DEF Media!Next

\* An action that touches nobody's signalling.
LEMMA StructureOnly ==
    ASSUME \/ \E u \in Users : Media!Admit(u) \/ Media!CloseScreen(u)
           \/ \E u \in Users, p \in Purposes : Media!Publish(u, p)
           \/ \E u \in Users, v \in Users : Media!Watch(v, u) \/ Media!Unwatch(v, u)
    PROVE  UNCHANGED <<Media!signalVars, evicting, slots>>
BY DEF Media!Admit, Media!CloseScreen, Media!Publish, Media!Watch, Media!Unwatch

LEMMA OneOfferStep ==
    ASSUME Media!TypeOK, GoneIsGone, OneOffer, Media!Next
    PROVE  OneOffer'
<1> DEFINE Fits(o) ==
        /\ offerer'[o] # "nobody" =>
              o \in negotiating' /\ signalling'[o] # "offering" /\ reader'[o] # "settle"
        /\ signalling'[o] = "offering" => o \in negotiating' /\ reader'[o] # "settle"
        /\ reader'[o] = "settle" => o \in negotiating' /\ signalling'[o] = "stable"
<1> SUFFICES ASSUME NEW o \in Users
             PROVE  Fits(o)
  BY DEF OneOffer
<1>0. /\ offerer[o] # "nobody" =>
            o \in negotiating /\ signalling[o] # "offering" /\ reader[o] # "settle"
      /\ signalling[o] = "offering" => o \in negotiating /\ reader[o] # "settle"
      /\ reader[o] = "settle" => o \in negotiating /\ signalling[o] = "stable"
  BY DEF OneOffer
<1>1. ASSUME NEW e \in work, Media!Edit(e)
      PROVE  Fits(o)
  BY <1>0, <1>1, EditIs, RenegotiateIs
<1>2. ASSUME NEW u \in Users, Media!OfferAgain(u)
      PROVE  Fits(o)
  <2>1. /\ Media!Renegotiate(u, "reader") /\ UNCHANGED signalling
        /\ reader[u] = "offer" /\ reader' = [reader EXCEPT ![u] = "idle"]
    BY <1>2 DEF Media!OfferAgain
  <2>2. reader'[o] = (IF o = u THEN "idle" ELSE reader[o])
    BY <2>1 DEF Media!TypeOK
  <2> QED
    BY <1>0, <2>1, <2>2, RenegotiateIs
<1>3. ASSUME NEW u \in Users,
             Media!Offer(u) \/ Media!Answer(u) \/ Media!Settle(u) \/ Media!TimerFires(u)
      PROVE  Fits(o)
  BY <1>0, <1>3
  DEF Media!Offer, Media!Answer, Media!Settle, Media!TimerFires, Media!TypeOK
<1>4. ASSUME NEW u \in Users, Media!JoinAnswer(u) \/ Media!TransportFails(u)
      PROVE  Fits(o)
  BY <1>0, <1>4 DEF Media!JoinAnswer, Media!TransportFails, Media!TypeOK, Media!signalVars
<1>5. ASSUME NEW u \in Users, NEW wanted \in SUBSET Media!ScreenPurposes,
             Media!OpenScreen(u, wanted)
      PROVE  Fits(o)
  BY <1>0, <1>5 DEF Media!OpenScreen, Media!TypeOK
<1>6. CASE UNCHANGED <<Media!signalVars, evicting, slots>>
  BY <1>0, <1>6 DEF Media!signalVars
<1>7. ASSUME NEW u \in Users, Media!Leave(u) \/ Media!Evict(u)
      PROVE  Fits(o)
  BY <1>0, <1>7, RemoveIs
<1> QED
  BY <1>1, <1>2, <1>3, <1>4, <1>5, <1>6, <1>7, StructureOnly DEF Media!Next

LEMMA ClocksStep ==
    ASSUME Media!TypeOK, OneOffer, Media!OffersHaveClocks, Media!Next
    PROVE  Media!OffersHaveClocks'
<1> SUFFICES ASSUME NEW o \in Users, o \in negotiating'
             PROVE  o \in timer' \/ o \in evicting' \/ reader'[o] = "settle"
  <2>1. negotiating' \subseteq Users
    BY MediaTypesStep DEF Media!TypeOK
  <2> QED
    BY <2>1 DEF Media!OffersHaveClocks
<1> DEFINE Timed == o \in timer' \/ o \in evicting' \/ reader'[o] = "settle"
<1>0. o \in negotiating => o \in timer \/ o \in evicting \/ reader[o] = "settle"
  BY DEF Media!OffersHaveClocks
<1>1. ASSUME NEW e \in work, Media!Edit(e)
      PROVE  Timed
  BY <1>0, <1>1, EditIs, RenegotiateIs
<1>2. ASSUME NEW u \in Users, Media!OfferAgain(u)
      PROVE  Timed
  <2>1. /\ Media!Renegotiate(u, "reader") /\ UNCHANGED evicting
        /\ reader[u] = "offer" /\ reader' = [reader EXCEPT ![u] = "idle"]
    BY <1>2 DEF Media!OfferAgain
  <2>2. reader'[o] = (IF o = u THEN "idle" ELSE reader[o])
    BY <2>1 DEF Media!TypeOK
  <2> QED
    BY <1>0, <2>1, <2>2, RenegotiateIs
<1>3. ASSUME NEW u \in Users,
             Media!Offer(u) \/ Media!Answer(u) \/ Media!Settle(u) \/ Media!TimerFires(u)
      PROVE  Timed
  BY <1>0, <1>3
  DEF Media!Offer, Media!Answer, Media!Settle, Media!TimerFires, Media!TypeOK
<1>4. ASSUME NEW u \in Users, Media!JoinAnswer(u) \/ Media!TransportFails(u)
      PROVE  Timed
  BY <1>0, <1>4 DEF Media!JoinAnswer, Media!TransportFails, Media!TypeOK, Media!signalVars
<1>5. ASSUME NEW u \in Users, NEW wanted \in SUBSET Media!ScreenPurposes,
             Media!OpenScreen(u, wanted)
      PROVE  Timed
  BY <1>0, <1>5 DEF Media!OpenScreen, Media!TypeOK
<1>6. CASE UNCHANGED <<Media!signalVars, evicting, slots>>
  BY <1>0, <1>6 DEF Media!signalVars
<1>7. ASSUME NEW u \in Users, Media!Leave(u) \/ Media!Evict(u)
      PROVE  Timed
  BY <1>0, <1>7, RemoveIs
<1> QED
  BY <1>1, <1>2, <1>3, <1>4, <1>5, <1>6, <1>7, StructureOnly DEF Media!Next

LEMMA TellsAllStep ==
    ASSUME Media!TypeOK, GoneIsGone, OneOffer, TellsAll, Media!Next
    PROVE  TellsAll'
<1> SUFFICES ASSUME NEW o \in Users, o \in members', o \notin evicting',
                    signalling'[o] # "none", described'[o] # Media!Sections(o)'
             PROVE  ToBeTold(o)'
  <2>1. members' \subseteq Users
    BY MediaTypesStep DEF Media!TypeOK
  <2> QED
    BY <2>1 DEF TellsAll
<1>0. o \in members /\ o \notin evicting /\ signalling[o] # "none"
          /\ described[o] # Media!Sections(o) => ToBeTold(o)
  BY DEF TellsAll
<1>a. OneOffer' /\ (o \notin members => signalling[o] = "none")
  BY OneOfferStep DEF GoneIsGone
<1>1. ASSUME NEW e \in work, Media!Edit(e)
      PROVE  ToBeTold(o)'
  <2>1. CASE UNCHANGED <<subs, negotiating, pending, timer, offerer>>
    <3>1. Media!Sections(o)' = Media!Sections(o)
      BY <1>1, <2>1, EditIs DEF Media!Sections
    <3> QED
      BY <1>0, <1>1, <2>1, <3>1, EditIs DEF ToBeTold
  <2>2. CASE e[2] \in members /\ Media!Renegotiate(e[2], "room")
    <3>1. e[2] \in Users
      BY <1>1, EditIs
    <3>2. CASE o = e[2]
      BY <2>2, <3>1, <3>2, RenegotiateIs DEF ToBeTold
    <3>3. CASE o # e[2]
      <4>1. Media!Sections(o)' = Media!Sections(o)
        BY <1>1, <3>3, EditIs DEF Media!Sections
      <4> QED
        BY <1>0, <1>1, <2>2, <3>1, <3>3, <4>1, EditIs, RenegotiateIs DEF ToBeTold
    <3> QED
      BY <3>2, <3>3
  <2> QED
    BY <1>1, <2>1, <2>2, EditIs
<1>b. ASSUME UNCHANGED <<subs, slots>>
      PROVE  Media!Sections(o)' = Media!Sections(o)
  BY <1>b DEF Media!Sections
<1>2. ASSUME NEW u \in Users, Media!OfferAgain(u)
      PROVE  ToBeTold(o)'
  <2>1. /\ Media!Renegotiate(u, "reader")
        /\ UNCHANGED <<members, subs, slots, signalling, described, evicting>>
        /\ reader' = [reader EXCEPT ![u] = "idle"]
    BY <1>2 DEF Media!OfferAgain, Media!mediaVars
  <2>2. reader'[o] = (IF o = u THEN "idle" ELSE reader[o])
    BY <2>1 DEF Media!TypeOK
  <2> QED
    BY <1>0, <1>b, <2>1, <2>2, RenegotiateIs DEF ToBeTold
<1>3. ASSUME NEW u \in Users, Media!Offer(u)
      PROVE  ToBeTold(o)'
  <2>1. UNCHANGED <<members, subs, slots, negotiating, pending, reader>>
    BY <1>3 DEF Media!Offer, Media!mediaVars
  <2>2. CASE o = u
    BY <1>3, <1>b, <2>1, <2>2 DEF Media!Offer, Media!TypeOK
  <2>3. CASE o # u
    <3>1. /\ signalling'[o] = signalling[o] /\ described'[o] = described[o]
          /\ offerer'[o] = offerer[o] /\ o \notin evicting
      BY <1>3, <2>3 DEF Media!Offer, Media!TypeOK
    <3> QED
      BY <1>0, <1>b, <2>1, <3>1 DEF ToBeTold
  <2> QED
    BY <2>2, <2>3
<1>4. ASSUME NEW u \in Users, Media!Answer(u) \/ Media!Settle(u) \/ Media!TimerFires(u)
      PROVE  ToBeTold(o)'
  <2>1. UNCHANGED <<members, subs, slots, described, offerer>> /\ o \notin evicting
    BY <1>4 DEF Media!Answer, Media!Settle, Media!TimerFires, Media!mediaVars
  <2>2. signalling[o] # "none"
    BY <1>4 DEF Media!Answer, Media!Settle, Media!TimerFires, Media!TypeOK
  <2>3. ToBeTold(o)
    BY <1>0, <1>b, <2>1, <2>2
  <2>4. /\ offerer[o] # "nobody" => reader[o] # "settle" /\ signalling[o] # "offering"
    BY DEF OneOffer
  <2> QED
    BY <1>4, <2>1, <2>3, <2>4
    DEF Media!Answer, Media!Settle, Media!TimerFires, Media!TypeOK, ToBeTold
<1>5. ASSUME NEW u \in Users, Media!Admit(u)
      PROVE  ToBeTold(o)'
  <2>1. /\ UNCHANGED <<slots, Media!signalVars, evicting>>
        /\ members' = members \cup {u} /\ u \notin members
    BY <1>5 DEF Media!Admit
  <2>2. o # u
    BY <1>a, <2>1 DEF Media!signalVars
  <2>3. subs'[o] = subs[o]
    BY <1>5, <2>2 DEF Media!Admit, Media!TypeOK
  <2> QED
    BY <1>0, <2>1, <2>2, <2>3 DEF ToBeTold, Media!Sections, Media!signalVars
<1>6. ASSUME NEW u \in Users, Media!JoinAnswer(u) \/ Media!TransportFails(u)
      PROVE  ToBeTold(o)'
  <2>1. UNCHANGED <<members, subs, slots, negotiating, pending, offerer, reader>>
        /\ o \notin evicting
    BY <1>6 DEF Media!JoinAnswer, Media!TransportFails, Media!mediaVars, Media!signalVars
  <2>2. \/ signalling'[o] = signalling[o] /\ described'[o] = described[o]
        \/ described'[o] = Media!Sections(o)
    BY <1>6 DEF Media!JoinAnswer, Media!TransportFails, Media!TypeOK, Media!signalVars
  <2> QED
    BY <1>0, <1>b, <2>1, <2>2 DEF ToBeTold
<1>7. ASSUME NEW u \in Users, NEW wanted \in SUBSET Media!ScreenPurposes,
             Media!OpenScreen(u, wanted)
      PROVE  ToBeTold(o)'
  <2>1. UNCHANGED <<members, subs, signalling, negotiating, pending, described, offerer, evicting>>
    BY <1>7 DEF Media!OpenScreen
  <2>2. CASE o = u /\ ~(wanted \subseteq slots[u])
    BY <1>7, <2>2 DEF Media!OpenScreen, Media!TypeOK, ToBeTold
  <2>3. CASE ~(o = u /\ ~(wanted \subseteq slots[u]))
    <3>1. slots'[o] = slots[o]
      BY <1>7, <2>3 DEF Media!OpenScreen, Media!TypeOK
    <3>2. reader[o] = "offer" => reader'[o] = "offer"
      BY <1>7 DEF Media!OpenScreen, Media!TypeOK
    <3> QED
      BY <1>0, <2>1, <3>1, <3>2 DEF ToBeTold, Media!Sections
  <2> QED
    BY <2>2, <2>3
<1>8. ASSUME NEW u \in Users, NEW v \in Users,
             \/ Media!CloseScreen(u) \/ Media!Watch(v, u) \/ Media!Unwatch(v, u)
             \/ \E p \in Purposes : Media!Publish(u, p)
      PROVE  ToBeTold(o)'
  <2>1. UNCHANGED <<members, subs, slots, Media!signalVars, evicting>>
    BY <1>8 DEF Media!CloseScreen, Media!Watch, Media!Unwatch, Media!Publish
  <2> QED
    BY <1>0, <1>b, <2>1 DEF ToBeTold, Media!signalVars
<1>9. ASSUME NEW u \in Users, Media!Leave(u) \/ Media!Evict(u)
      PROVE  ToBeTold(o)'
  BY <1>0, <1>9, RemoveIs DEF ToBeTold, Media!Sections
<1> QED
  BY <1>1, <1>2, <1>3, <1>4, <1>5, <1>6, <1>7, <1>8, <1>9 DEF Media!Next

-----------------------------------------------------------------------------
(* What a room promises                                                     *)

LEMMA MediaHoldsFirst == Media!Init => MediaHolds
BY MediaTypesInit, MediaFirst DEF MediaHolds

LEMMA MediaHoldsStep ==
    ASSUME MediaHolds, [Media!Next]_(Media!vars)
    PROVE  MediaHolds'
<1>1. CASE Media!Next
  BY <1>1, MediaTypesStep, GoneIsGoneStep, EditsFitStep, OneOfferStep, TellsAllStep, ClocksStep
  DEF MediaHolds
<1>2. CASE UNCHANGED Media!vars
  <2> USE <1>2 DEF Media!vars, Media!mediaVars, Media!signalVars
  <2>1. Media!TypeOK'
    BY DEF MediaHolds, Media!TypeOK
  <2>2. EditsFit'
    <3> SUFFICES ASSUME NEW o \in Users, NEW k \in Media!Keys
                 PROVE  EditFits(o, k)'
      BY DEF EditsFit
    <3>1. EditFits(o, k) /\ (Entitled(o, k)' <=> Entitled(o, k))
      BY DEF MediaHolds, EditsFit, Entitled
    <3> QED
      BY <3>1 DEF EditFits
  <2>3. TellsAll'
    BY DEF MediaHolds, TellsAll, ToBeTold, Media!Sections
  <2>4. GoneIsGone' /\ OneOffer' /\ Media!OffersHaveClocks'
    BY DEF MediaHolds, GoneIsGone, OneOffer, Media!OffersHaveClocks
  <2> QED
    BY <2>1, <2>2, <2>3, <2>4 DEF MediaHolds
<1> QED
  BY <1>1, <1>2

LEMMA MediaShows ==
    MediaHolds => Media!EntitledExactly /\ Media!NothingUntold /\ Media!OffersHaveClocks
<1> SUFFICES ASSUME MediaHolds
             PROVE  Media!EntitledExactly /\ Media!NothingUntold
  BY DEF MediaHolds
<1>1. Media!EntitledExactly
  <2>1. ASSUME Media!Free
        PROVE  \A u \in Users, k \in Media!Keys :
                   (k \in subs[u] <=> Entitled(u, k)) /\ (u \in sinks[k] <=> Entitled(u, k))
    BY <2>1, ExactWhenFree DEF MediaHolds
  <2> QED
    BY <2>1 DEF Media!EntitledExactly, Entitled
<1>2. Media!NothingUntold
  <2> SUFFICES ASSUME Media!Free, NEW u \in members \ evicting, signalling[u] = "stable",
                      u \notin negotiating, reader[u] = "idle"
               PROVE  described[u] = Media!Sections(u)
    BY DEF Media!NothingUntold
  <2>1. u \in Users
    BY DEF MediaHolds, Media!TypeOK
  <2>2. ~ToBeTold(u)
    BY <2>1 DEF MediaHolds, ToBeTold, OneOffer
  <2> QED
    BY <2>2 DEF MediaHolds, TellsAll
<1> QED
  BY <1>1, <1>2

\* However many peers come, publish, watch and go, and however their answers interleave
\* with the edits of the room, everybody is sent exactly what they are entitled to
\* whenever the room can be looked at, no change is lost, and no offer is without a clock.
THEOREM MediaStaysInStep ==
    Media!Spec => [](Media!EntitledExactly /\ Media!NothingUntold /\ Media!OffersHaveClocks)
BY MediaHoldsFirst, MediaHoldsStep, MediaShows, PTL DEF Media!Spec

-----------------------------------------------------------------------------
(* The same of the run, which explores the rooms or the media               *)

RoomsScene == scene = "rooms" => Rooms

LEMMA RoomsSceneInit == SceneInit => RoomsScene
BY RoomsInit DEF SceneInit, RoomsScene

LEMMA RoomsSceneStep == RoomsScene /\ [SceneNext]_<<scene, vars, mediaOfRoom>> => RoomsScene'
<1> SUFFICES ASSUME RoomsScene, [SceneNext]_<<scene, vars, mediaOfRoom>>, scene' = "rooms"
             PROVE  Rooms'
  BY DEF RoomsScene
<1>1. scene = "rooms" /\ [Next]_vars
  BY DEF SceneNext
<1> QED
  BY <1>1, RoomsStep DEF RoomsScene

\* The run's property that there is no third way to be orphaned.
THEOREM RunOrphansExplained == SceneSpec => []RoomsOrphansExplained
<1>1. RoomsScene => RoomsOrphansExplained
  BY RoomsShow DEF RoomsScene, RoomsOrphansExplained
<1> QED
  BY RoomsSceneInit, RoomsSceneStep, <1>1, PTL DEF SceneSpec

\* The run's property that nobody is carried across a reconfiguration and no empty room is kept.
THEOREM RunKeepsNothingOld == SceneSpec => []RoomsKeepNothingOld
<1>1. RoomsScene => RoomsKeepNothingOld
  BY RoomsShow DEF RoomsScene, RoomsKeepNothingOld
<1> QED
  BY RoomsSceneInit, RoomsSceneStep, <1>1, PTL DEF SceneSpec

MediaScene == scene = "media" => MediaHolds

LEMMA MediaSceneInit == SceneInit => MediaScene
BY MediaHoldsFirst DEF SceneInit, MediaScene

LEMMA MediaSceneStep == MediaScene /\ [SceneNext]_<<scene, vars, mediaOfRoom>> => MediaScene'
<1> SUFFICES ASSUME MediaScene, [SceneNext]_<<scene, vars, mediaOfRoom>>, scene' = "media"
             PROVE  MediaHolds'
  BY DEF MediaScene
<1>1. scene = "media" /\ [Media!Next]_(Media!vars)
  <2>1. CASE SceneNext
    BY <2>1 DEF SceneNext
  <2>2. CASE UNCHANGED <<scene, vars, mediaOfRoom>>
    BY <2>2 DEF mediaOfRoom, Media!vars, Media!mediaVars, Media!signalVars
  <2> QED
    BY <2>1, <2>2
<1> QED
  BY <1>1, MediaHoldsStep DEF MediaScene

\* The run's property that everybody is sent what they are entitled to and told of it.
THEOREM RunMediaInStep == SceneSpec => []MediaInStep
<1>1. MediaScene => MediaInStep
  BY MediaShows DEF MediaScene, MediaInStep
<1> QED
  BY MediaSceneInit, MediaSceneStep, <1>1, PTL DEF SceneSpec

\* Each variable of the run has its type, in the rooms and in the media.
THEOREM RunKeepsTypes == SceneSpec => []EveryTypeOK
<1>1. RoomsScene /\ MediaScene => EveryTypeOK
  BY RoomsShow DEF RoomsScene, MediaScene, MediaHolds, EveryTypeOK
<1> QED
  BY RoomsSceneInit, RoomsSceneStep, MediaSceneInit, MediaSceneStep, <1>1, PTL DEF SceneSpec
=============================================================================
