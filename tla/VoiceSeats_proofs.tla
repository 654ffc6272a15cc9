--------------------------- MODULE VoiceSeats_proofs ---------------------------
(***************************************************************************)
(* The safety of who has audio up where, for any number of users, sessions *)
(* and channels.  A handler goes on where it left off, so the invariant    *)
(* says for every step what the thread was given on the way there: whom    *)
(* and which channel it is working on, and where it returns to.            *)
(***************************************************************************)
EXTENDS VoiceSeats, FiniteSetTheorems, TLAPS

USE SeatAssumption DEF hubVars, seatVars, roomVars, localVars

\* The steps of leaveVoice and resetVoiceRoom, which return to the step in ret.
Within == {"clear", "unrelay", "detach", "drop", "bump", "each", "uneach"}

\* What a thread has in hand, by where it is and where it returns to.
Going(t) == to[t] \in Channels
Deleting(t) == t \in Sessions /\ at[t] \in Channels \ exists
Evicting(t) == Deleting(t) /\ todo[t] \subseteq Sessions
Closing(t) == t \in Sessions /\ ret[t] = "next" /\ todo[t] \subseteq Channels

Fit(t, step) ==
    /\ step \in {"cap", "join", "open", "attach"} => t \in Sessions /\ Going(t)
    /\ step \in {"sit", "leaveall", "remove", "list", "closeall"} => t \in Sessions
    /\ step = "gone" => t = Relay /\ left[t] # <<>> /\ at[t] \in Channels
    /\ step \in {"close", "forget"} => Deleting(t)
    /\ step \in {"evict", "unseat"} => Evicting(t)
    /\ step = "next" => Closing(t)

ThreadFits(t) ==
    /\ Fit(t, pc[t])
    /\ pc[t] \in Within => Fit(t, ret[t]) /\ at[t] \in Channels
    /\ pc[t] \in Within => ret[t] \in {"idle", "cap", "leaveall", "sit", "close", "unseat", "next"}
    /\ pc[t] \in {"clear", "unrelay", "detach"} => who[t] \in Sessions
    /\ pc[t] = "uneach" => left[t] # <<>>
    /\ t = Relay => ret[t] = "idle"

ThreadsFit == \A t \in Threads : ThreadFits(t)

-----------------------------------------------------------------------------
(* Rooms as sequences                                                       *)

NoRepeats(room) == \A i, j \in DOMAIN room : room[i] = room[j] => i = j

\* An arrival comes in last, unless it is there.
LEMMA JoinedIs ==
    ASSUME NEW c \in Channels, NEW u \in Users, rooms[c] \in Seq(Users)
    PROVE  /\ Joined(c, u) \in Seq(Users) /\ Joined(c, u) # <<>>
           /\ Range(Joined(c, u)) = Members(c) \cup {u}
           /\ rooms[c] # <<>> => Head(Joined(c, u)) = Head(rooms[c])
           /\ NoRepeats(rooms[c]) => NoRepeats(Joined(c, u))
<1>1. CASE u \in Members(c)
  BY <1>1 DEF Joined, Members, Range
<1>2. CASE u \notin Members(c)
  <2>1. Joined(c, u) = Append(rooms[c], u)
    BY <1>2 DEF Joined
  <2>2. DOMAIN Joined(c, u) = 1..Len(rooms[c]) + 1 /\ DOMAIN rooms[c] = 1..Len(rooms[c])
    BY <2>1
  <2>3. \A i \in 1..Len(rooms[c]) : Joined(c, u)[i] = rooms[c][i]
    BY <2>1
  <2>4. Joined(c, u)[Len(rooms[c]) + 1] = u
    BY <2>1
  <2>5. Range(Joined(c, u)) = Members(c) \cup {u}
    BY <2>2, <2>3, <2>4 DEF Members, Range
  <2>6. NoRepeats(rooms[c]) => NoRepeats(Joined(c, u))
    BY <1>2, <2>2, <2>3, <2>4 DEF NoRepeats, Members, Range
  <2> QED
    BY <2>1, <2>3, <2>5, <2>6
<1> QED
  BY <1>1, <1>2

\* A departure takes one member out and leaves the order of the others.
LEMMA WithoutIs ==
    ASSUME NEW c \in Channels, NEW u \in Users, rooms[c] \in Seq(Users)
    PROVE  /\ Without(c, u) \in Seq(Users)
           /\ rooms[c] # <<>> /\ Without(c, u) # <<>> /\ ~Hosts(c, u) => Head(Without(c, u)) = Head(rooms[c])
           /\ NoRepeats(rooms[c]) => /\ NoRepeats(Without(c, u))
                                     /\ Range(Without(c, u)) = Members(c) \ {u}
<1>1. CASE u \notin Members(c)
  BY <1>1 DEF Without, Members, Range
<1>2. CASE u \in Members(c)
  <2> DEFINE n == Len(rooms[c])
             p == Place(c, u)
             w == Without(c, u)
  <2>1. n \in Nat /\ DOMAIN rooms[c] = 1..n
    OBVIOUS
  <2>2. p \in 1..n /\ rooms[c][p] = u
    BY <1>2, <2>1 DEF Members, Range, Place
  <2>3. w = [i \in 1..n - 1 |-> rooms[c][IF i < p THEN i ELSE i + 1]]
    BY <1>2 DEF Without
  <2> HIDE DEF n, p, w
  <2>4. w \in Seq(Users) /\ DOMAIN w = 1..n - 1 /\ Len(w) = n - 1
    BY <2>1, <2>2, <2>3
  <2>5. ASSUME NoRepeats(rooms[c])
        PROVE  NoRepeats(w) /\ Range(w) = Members(c) \ {u}
    <3>1. \A i \in 1..n : rooms[c][i] = u => i = p
      BY <2>1, <2>2, <2>5 DEF NoRepeats
    <3>2. NoRepeats(w)
      <4> SUFFICES ASSUME NEW i \in 1..n - 1, NEW j \in 1..n - 1, w[i] = w[j]
                   PROVE  i = j
        BY <2>4 DEF NoRepeats
      <4> DEFINE f(k) == IF k < p THEN k ELSE k + 1
      <4>1. w[i] = rooms[c][f(i)] /\ w[j] = rooms[c][f(j)]
        BY <2>3
      <4>2. f(i) \in 1..n /\ f(j) \in 1..n
        BY <2>1, <2>2
      <4>3. f(i) = f(j)
        <5> HIDE DEF f
        <5> QED
          BY <2>1, <2>5, <4>1, <4>2 DEF NoRepeats
      <4> QED
        BY <2>1, <2>2, <4>3
    <3>3. ASSUME NEW i \in 1..n, i # p
          PROVE  \E k \in 1..n - 1 : w[k] = rooms[c][i]
      <4>1. CASE i < p
        <5>1. i \in 1..n - 1
          BY <2>1, <2>2, <4>1
        <5>2. w[i] = rooms[c][i]
          BY <2>3, <4>1, <5>1
        <5> QED
          BY <5>1, <5>2
      <4>2. CASE i > p
        <5>1. i - 1 \in 1..n - 1 /\ ~(i - 1 < p) /\ (i - 1) + 1 = i
          BY <2>1, <2>2, <4>2
        <5>2. w[i - 1] = rooms[c][i]
          BY <2>3, <5>1
        <5> QED
          BY <5>1, <5>2
      <4> QED
        BY <2>1, <2>2, <3>3, <4>1, <4>2
    <3>4. ASSUME NEW k \in 1..n - 1
          PROVE  \E i \in 1..n : i # p /\ w[k] = rooms[c][i]
      BY <2>1, <2>2, <2>3
    <3>5. Range(w) = {rooms[c][i] : i \in 1..n \ {p}}
      <4>1. Range(w) = {w[k] : k \in 1..n - 1}
        BY <2>4 DEF Range
      <4>2. ASSUME NEW x \in Range(w)
            PROVE  \E i \in 1..n \ {p} : x = rooms[c][i]
        BY <3>4, <4>1
      <4>3. ASSUME NEW i \in 1..n \ {p}
            PROVE  rooms[c][i] \in Range(w)
        BY <3>3, <4>1
      <4> QED
        BY <4>2, <4>3
    <3>6. Members(c) \ {u} = {rooms[c][i] : i \in 1..n \ {p}}
      BY <2>1, <2>2, <3>1 DEF Members, Range
    <3> QED
      BY <3>2, <3>5, <3>6
  <2>6. w # <<>> /\ ~Hosts(c, u) => Head(w) = Head(rooms[c])
    <3> SUFFICES ASSUME w # <<>>, ~Hosts(c, u)
                 PROVE  Head(w) = Head(rooms[c])
      OBVIOUS
    <3>1. n - 1 >= 1 /\ Head(w) = w[1]
      BY <2>1, <2>2, <2>4
    <3>2. rooms[c] # <<>> /\ Head(rooms[c]) = rooms[c][1]
      BY <2>1, <2>2, <3>1 DEF n
    <3>3. p # 1
      BY <2>2, <3>2 DEF Hosts
    <3>4. w[1] = rooms[c][1]
      BY <2>1, <2>2, <2>3, <3>1, <3>3
    <3> QED
      BY <3>1, <3>2, <3>4
  <2> QED
    BY <2>4, <2>5, <2>6 DEF w
<1> QED
  BY <1>1, <1>2

-----------------------------------------------------------------------------
(* Types and what threads have in hand                                      *)

Typed == plan \in Plans /\ TypeOK /\ ThreadsFit

LEMMA TypedInit == Init => Typed
<1> SUFFICES ASSUME Init
             PROVE  Typed
  OBVIOUS
<1>1. plan \in Plans /\ plan.requests \in Nat /\ exists \subseteq Channels
  BY PlansFit DEF Init
<1>2. TypeOK
  BY <1>1 DEF Init, TypeOK, Steps, Threads
<1> QED
  BY <1>1, <1>2 DEF Init, Typed, ThreadsFit, ThreadFits, Fit, Within, Threads

\* What the thread that acts has in hand, without quantifiers.
LEMMA InHand ==
    ASSUME Typed, NEW t \in Threads
    PROVE  /\ ThreadFits(t)
           /\ pc[t] \in Steps /\ ret[t] \in Steps /\ left[t] \in Seq(Users)
           /\ who[t] \in Sessions => Owner[who[t]] \in Users
           /\ t \in Sessions => Owner[t] \in Users /\ holder[Owner[t]] \in Sessions \cup {NoSession}
           /\ at[t] \in Channels \cup {None} /\ to[t] \in Channels \cup {None}
           /\ left[t] # <<>> => Head(left[t]) \in Users /\ Tail(left[t]) \in Seq(Users)
                                /\ holder[Head(left[t])] \in Sessions \cup {NoSession}
           /\ t \in Sessions \/ t = Relay
BY DEF Typed, TypeOK, ThreadsFit, Threads

\* The other threads have in hand what they had.
LEMMA OthersFit ==
    ASSUME ThreadsFit, NEW t \in Threads, exists' \subseteq exists, ThreadFits(t)',
           \A s \in Threads \ {t} :
               /\ pc'[s] = pc[s] /\ ret'[s] = ret[s] /\ who'[s] = who[s] /\ at'[s] = at[s]
               /\ to'[s] = to[s] /\ left'[s] = left[s] /\ todo'[s] = todo[s]
    PROVE  ThreadsFit'
<1> SUFFICES ASSUME NEW s \in Threads, s # t
             PROVE  ThreadFits(s)'
  BY DEF ThreadsFit
<1>1. ThreadFits(s)
  BY DEF ThreadsFit
<1> QED
  BY <1>1 DEF ThreadFits, Fit, Going, Deleting, Evicting, Closing

\* The actions of a session that change nothing but what is said here.
LEMMA PcStep ==
    ASSUME Typed, Next
    PROVE  pc' \in [Threads -> Steps]
<1> USE DEF Typed, TypeOK, Goto, CallLeave
<1>1. ASSUME NEW t \in Threads, NEW p \in Steps, pc' = [pc EXCEPT ![t] = p]
      PROVE  pc' \in [Threads -> Steps]
  BY <1>1
<1>2. ASSUME NEW s \in Sessions, Arrive(s) \/ Drop(s) \/ Finish(s) \/ Handler(s)
      PROVE  UNCHANGED pc \/ \E p \in Steps : pc' = [pc EXCEPT ![s] = p]
  BY <1>2 DEF Arrive, Drop, Finish, Handler, Connect, Leave, ChangeConfig, Move, Delete, Steps
<1>3. ASSUME NEW t \in Threads, Continue(t)
      PROVE  UNCHANGED pc \/ \E p \in Steps : pc' = [pc EXCEPT ![t] = p]
  <2>1. ret[t] \in Steps
    BY InHand
  <2>2. CASE ConnectCap(t) \/ ConnectJoin(t) \/ ConnectOpen(t) \/ ConnectAttach(t)
    BY <2>2 DEF ConnectCap, ConnectJoin, ConnectOpen, ConnectAttach, Steps
  <2>3. CASE LeaveClear(t) \/ LeaveRelay(t) \/ LeaveDetach(t)
    BY <2>1, <2>3 DEF LeaveClear, LeaveRelay, LeaveDetach, Steps
  <2>4. CASE ResetDrop(t) \/ ResetBump(t) \/ ResetClear(t) \/ ResetRelay(t)
    BY <2>1, <2>4 DEF ResetDrop, ResetBump, ResetClear, ResetRelay, Steps
  <2>5. CASE \/ MoveSit(t) \/ FinishLeaveAll(t) \/ FinishRemove(t)
             \/ DeleteClose(t) \/ DeleteForget(t) \/ DeleteEvict(t) \/ DeleteUnseat(t)
    BY <2>5 DEF MoveSit, FinishLeaveAll, FinishRemove, DeleteClose, DeleteForget, DeleteEvict, DeleteUnseat, Steps
  <2>6. CASE ChangeList(t) \/ ChangeNext(t) \/ ChangeClose(t)
    BY <2>6 DEF ChangeList, ChangeNext, ChangeClose, Steps
  <2> QED
    BY <1>3, <2>2, <2>3, <2>4, <2>5, <2>6 DEF Continue
<1>4. ASSUME RelayGone \/ \E c \in Channels, u \in Users : TransportFails(c, u)
      PROVE  UNCHANGED pc \/ \E p \in Steps : pc' = [pc EXCEPT ![Relay] = p]
  BY <1>4 DEF RelayGone, TransportFails, Steps
<1> QED
  BY <1>1, <1>2, <1>3, <1>4 DEF Next, ChangeAddress, Threads

LEMMA HubStep ==
    ASSUME Typed, Next
    PROVE  /\ holder' \in [Users -> Sessions \cup {NoSession}]
           /\ conn' \in [Sessions -> {"off", "on", "closed", "gone"}]
           /\ exists' \subseteq exists /\ exists' \subseteq Channels
           /\ requests' \in 0..plan.requests
<1> DEFINE Hub == /\ holder' \in [Users -> Sessions \cup {NoSession}]
                  /\ conn' \in [Sessions -> {"off", "on", "closed", "gone"}]
                  /\ exists' \subseteq exists /\ exists' \subseteq Channels
                  /\ requests' \in 0..plan.requests
<1>0. plan.requests \in Nat
  BY PlansFit DEF Typed
<1> USE DEF Typed, TypeOK
<1>1. ASSUME NEW s \in Sessions, Arrive(s) \/ Drop(s) \/ Finish(s)
      PROVE  Hub
  <2>1. CASE Arrive(s)
    <3>1. /\ holder' = [holder EXCEPT ![Owner[s]] = s]
          /\ conn' = [x \in Sessions |-> IF x = s THEN "on"
                                        ELSE IF x = holder[Owner[s]] THEN "closed" ELSE conn[x]]
          /\ UNCHANGED <<exists, requests>>
      BY <2>1 DEF Arrive, Slots!Take
    <3> QED
      BY <3>1
  <2> QED
    BY <1>1, <2>1 DEF Drop, Finish
<1>2. ASSUME NEW s \in Sessions, Handler(s)
      PROVE  Hub
  BY <1>0, <1>2 DEF Handler, Connect, Leave, ChangeConfig, Move, Delete, Request
<1>3. ASSUME NEW t \in Threads, FinishRemove(t)
      PROVE  Hub
  <2>1. /\ UNCHANGED holder \/ holder' = [holder EXCEPT ![Owner[t]] = NoSession]
        /\ conn' = [conn EXCEPT ![t] = "gone"]
        /\ UNCHANGED <<exists, requests>>
    BY <1>3 DEF FinishRemove, Slots!Vacate
  <2> QED
    BY <2>1
<1>4. ASSUME NEW c \in Channels, NEW u \in Users, TransportFails(c, u)
      PROVE  Hub
  BY <1>0, <1>4 DEF TransportFails
<1>5. ASSUME RelayGone \/ ChangeAddress
      PROVE  Hub
  BY <1>0, <1>5 DEF RelayGone, ChangeAddress
<1>6. ASSUME UNCHANGED <<hubVars, exists, requests>>
      PROVE  Hub
  BY <1>6
<1>7. ASSUME NEW t \in Threads, Continue(t)
      PROVE  FinishRemove(t) \/ UNCHANGED <<hubVars, exists, requests>>
  BY <1>7 DEF Continue, ConnectCap, ConnectJoin, ConnectOpen, ConnectAttach, LeaveClear, LeaveRelay, LeaveDetach,
      ResetDrop, ResetBump, ResetClear, ResetRelay, MoveSit, FinishLeaveAll, DeleteClose, DeleteForget,
      DeleteEvict, DeleteUnseat, ChangeList, ChangeNext, ChangeClose
<1> QED
  BY <1>1, <1>2, <1>3, <1>4, <1>5, <1>6, <1>7 DEF Next

LEMMA SeatStep ==
    ASSUME Typed, Next
    PROVE  chan' \in [Sessions -> Channels \cup {None}] /\ seat' \in [Sessions -> Channels \cup {None}]
<1> DEFINE Seat == chan' \in [Sessions -> Channels \cup {None}] /\ seat' \in [Sessions -> Channels \cup {None}]
<1> USE DEF Typed, TypeOK
<1>1. ASSUME NEW s \in Sessions, Finish(s)
      PROVE  Seat
  BY <1>1 DEF Finish
<1>2. ASSUME NEW t \in Threads, ConnectOpen(t)
      PROVE  Seat
  BY <1>2, InHand DEF ConnectOpen, ThreadFits, Fit, Going
<1>3. ASSUME NEW t \in Threads, LeaveClear(t) \/ ResetClear(t)
      PROVE  Seat
  <2>1. UNCHANGED chan /\ \/ UNCHANGED seat
                          \/ \E s : seat' = [seat EXCEPT ![s] = None]
    <3>1. CASE LeaveClear(t)
      <4>1. seat' = [seat EXCEPT ![who[t]] = IF seat[who[t]] = at[t] THEN None ELSE @] /\ UNCHANGED chan
        BY <3>1 DEF LeaveClear
      <4> QED
        BY <4>1
    <3>2. CASE ResetClear(t)
      BY <3>2 DEF ResetClear
    <3> QED
      BY <1>3, <3>1, <3>2
  <2> QED
    BY <2>1
<1>4. ASSUME NEW t \in Threads, MoveSit(t) \/ DeleteUnseat(t)
      PROVE  Seat
  BY <1>4 DEF MoveSit, DeleteUnseat
<1>5. ASSUME UNCHANGED seatVars
      PROVE  Seat
  BY <1>5
<1>6. ASSUME NEW s \in Sessions, Arrive(s) \/ Drop(s) \/ Handler(s)
      PROVE  UNCHANGED seatVars
  BY <1>6 DEF Arrive, Drop, Handler, Connect, Leave, ChangeConfig, Move, Delete
<1>7. ASSUME NEW t \in Threads, Continue(t)
      PROVE  \/ ConnectOpen(t) \/ LeaveClear(t) \/ ResetClear(t) \/ MoveSit(t) \/ DeleteUnseat(t)
             \/ UNCHANGED seatVars
  BY <1>7 DEF Continue, ConnectCap, ConnectJoin, ConnectAttach, LeaveRelay, LeaveDetach,
      ResetDrop, ResetBump, ResetRelay, FinishLeaveAll, FinishRemove, DeleteClose, DeleteForget,
      DeleteEvict, ChangeList, ChangeNext, ChangeClose
<1>8. ASSUME RelayGone \/ ChangeAddress \/ \E c \in Channels, u \in Users : TransportFails(c, u)
      PROVE  UNCHANGED seatVars
  BY <1>8 DEF RelayGone, ChangeAddress, TransportFails
<1> QED
  BY <1>1, <1>2, <1>3, <1>4, <1>5, <1>6, <1>7, <1>8 DEF Next

LEMMA PeersStep ==
    ASSUME Typed, Next
    PROVE  peers' \subseteq Channels \X Users
<1> USE DEF Typed, TypeOK
<1>1. ASSUME NEW t \in Threads, Continue(t)
      PROVE  peers' \subseteq peers \/ \E c \in Channels, u \in Users : peers' = peers \cup {<<c, u>>}
  <2>1. CASE ConnectJoin(t)
    <3>1. to[t] \in Channels /\ Owner[t] \in Users
      BY <2>1, InHand DEF ConnectJoin, ThreadFits, Fit, Going
    <3> QED
      BY <2>1, <3>1 DEF ConnectJoin
  <2> QED
    BY <1>1, <2>1 DEF Continue, ConnectCap, ConnectOpen, ConnectAttach, LeaveClear, LeaveRelay, LeaveDetach,
      ResetDrop, ResetBump, ResetClear, ResetRelay, MoveSit, FinishLeaveAll, FinishRemove, DeleteClose, DeleteForget,
      DeleteEvict, DeleteUnseat, ChangeList, ChangeNext, ChangeClose, Unpeered
<1>2. ASSUME NEW s \in Sessions, Arrive(s) \/ Drop(s) \/ Finish(s) \/ Handler(s)
      PROVE  peers' \subseteq peers
  BY <1>2 DEF Arrive, Drop, Finish, Handler, Connect, Leave, ChangeConfig, Move, Delete
<1>3. ASSUME RelayGone \/ ChangeAddress \/ \E c \in Channels, u \in Users : TransportFails(c, u)
      PROVE  peers' \subseteq peers
  BY <1>3 DEF RelayGone, ChangeAddress, TransportFails
<1>4. peers \subseteq Channels \X Users
  OBVIOUS
<1> HIDE DEF Typed, TypeOK
<1> QED
  BY <1>1, <1>2, <1>3, <1>4 DEF Next

\* What a step does to the rooms and their epochs, and what it tells.
LEMMA RoomActs ==
    ASSUME Typed, Next
    PROVE  \/ UNCHANGED <<rooms, epochs, told>>
           \/ \E t \in Threads : ConnectAttach(t) \/ LeaveDetach(t) \/ ResetDrop(t) \/ ResetBump(t) \/ DeleteForget(t)
<1>1. ASSUME NEW s \in Sessions, Arrive(s) \/ Drop(s) \/ Finish(s) \/ Handler(s)
      PROVE  UNCHANGED <<rooms, epochs, told>>
  BY <1>1 DEF Arrive, Drop, Finish, Handler, Connect, Leave, ChangeConfig, Move, Delete
<1>2. ASSUME NEW t \in Threads, Continue(t)
      PROVE  \/ ConnectAttach(t) \/ LeaveDetach(t) \/ ResetDrop(t) \/ ResetBump(t) \/ DeleteForget(t)
             \/ UNCHANGED <<rooms, epochs, told>>
  BY <1>2 DEF Continue, ConnectCap, ConnectJoin, ConnectOpen, LeaveClear, LeaveRelay, ResetClear, ResetRelay,
      MoveSit, FinishLeaveAll, FinishRemove, DeleteClose, DeleteEvict, DeleteUnseat, ChangeList, ChangeNext,
      ChangeClose
<1>3. ASSUME RelayGone \/ ChangeAddress \/ \E c \in Channels, u \in Users : TransportFails(c, u)
      PROVE  UNCHANGED <<rooms, epochs, told>>
  BY <1>3 DEF RelayGone, ChangeAddress, TransportFails
<1> QED
  BY <1>1, <1>2, <1>3 DEF Next

LEMMA AttachIs ==
    ASSUME Typed, NEW t \in Threads, ConnectAttach(t)
    PROVE  \E c \in Channels, u \in Users, e \in Nat :
              /\ e = IF rooms[c] = <<>> THEN epochs[c] + 1 ELSE epochs[c]
              /\ rooms' = [rooms EXCEPT ![c] = Joined(c, u)]
              /\ epochs' = [epochs EXCEPT ![c] = e]
              /\ told' \subseteq told \cup {<<c, e, Head(Joined(c, u))>>}
<1>1. to[t] \in Channels /\ Owner[t] \in Users
  BY InHand DEF ConnectAttach, ThreadFits, Fit, Going
<1>2. epochs[to[t]] \in Nat /\ epochs[to[t]] + 1 \in Nat
  BY <1>1 DEF Typed, TypeOK
<1> DEFINE e == IF rooms[to[t]] = <<>> THEN epochs[to[t]] + 1 ELSE epochs[to[t]]
<1>3. /\ e \in Nat
      /\ rooms' = [rooms EXCEPT ![to[t]] = Joined(to[t], Owner[t])]
      /\ epochs' = [epochs EXCEPT ![to[t]] = e]
      /\ told' \subseteq told \cup {<<to[t], e, Head(Joined(to[t], Owner[t]))>>}
  BY <1>2 DEF ConnectAttach, Elects, NextEpoch
<1> QED
  BY <1>1, <1>3

LEMMA DetachIs ==
    ASSUME Typed, NEW t \in Threads, LeaveDetach(t)
    PROVE  \E c \in Channels, u \in Users :
              /\ rooms' = [rooms EXCEPT ![c] = Without(c, u)]
              /\ epochs' = [epochs EXCEPT ![c] = IF Hosts(c, u) THEN epochs[c] + 1 ELSE epochs[c]]
              /\ told' = told /\ exists' = exists
              /\ c = at[t] /\ u = Owner[who[t]]
<1>1. at[t] \in Channels /\ Owner[who[t]] \in Users
  BY InHand DEF LeaveDetach, ThreadFits, Within
<1> QED
  BY <1>1 DEF LeaveDetach, NextEpoch

LEMMA RoomStep ==
    ASSUME Typed, Next
    PROVE  rooms' \in [Channels -> Seq(Users)] /\ epochs' \in [Channels -> Nat] /\ told' \subseteq Channels \X Nat \X Users
<1> DEFINE Room == /\ rooms' \in [Channels -> Seq(Users)] /\ epochs' \in [Channels -> Nat]
                   /\ told' \subseteq Channels \X Nat \X Users
<1>0. /\ rooms \in [Channels -> Seq(Users)] /\ epochs \in [Channels -> Nat]
      /\ told \subseteq Channels \X Nat \X Users
  BY DEF Typed, TypeOK
<1>1. ASSUME NEW t \in Threads, ConnectAttach(t)
      PROVE  Room
  <2>1. PICK c \in Channels, u \in Users, e \in Nat :
              /\ rooms' = [rooms EXCEPT ![c] = Joined(c, u)]
              /\ epochs' = [epochs EXCEPT ![c] = e]
              /\ told' \subseteq told \cup {<<c, e, Head(Joined(c, u))>>}
    BY <1>1, AttachIs
  <2>2. Joined(c, u) \in Seq(Users) /\ Head(Joined(c, u)) \in Users
    BY <1>0, JoinedIs
  <2> HIDE DEF Room
  <2>3. rooms' \in [Channels -> Seq(Users)] /\ epochs' \in [Channels -> Nat]
    BY <1>0, <2>1, <2>2
  <2>4. <<c, e, Head(Joined(c, u))>> \in Channels \X Nat \X Users
    BY <2>2
  <2> QED
    BY <1>0, <2>1, <2>3, <2>4 DEF Room
<1>2. ASSUME NEW t \in Threads, LeaveDetach(t)
      PROVE  Room
  <2>1. PICK c \in Channels, u \in Users :
              /\ rooms' = [rooms EXCEPT ![c] = Without(c, u)]
              /\ epochs' = [epochs EXCEPT ![c] = IF Hosts(c, u) THEN epochs[c] + 1 ELSE epochs[c]]
              /\ told' = told
    BY <1>2, DetachIs
  <2>2. Without(c, u) \in Seq(Users)
    BY <1>0, WithoutIs
  <2> QED
    BY <1>0, <2>1, <2>2
<1>3. ASSUME NEW t \in Threads, ResetDrop(t) \/ ResetBump(t) \/ DeleteForget(t)
      PROVE  Room
  <2>1. at[t] \in Channels
    BY <1>3, InHand DEF ResetDrop, ResetBump, DeleteForget, ThreadFits, Fit, Deleting, Within
  <2>2. <<>> \in Seq(Users) /\ epochs[at[t]] \in Nat /\ epochs[at[t]] + 1 \in Nat
    BY <1>0, <2>1
  <2>3. /\ UNCHANGED rooms \/ rooms' = [rooms EXCEPT ![at[t]] = <<>>]
        /\ \E e \in Nat : epochs' = [epochs EXCEPT ![at[t]] = e]
        /\ told' = told
    BY <1>3, <2>2 DEF ResetDrop, ResetBump, DeleteForget, EpochKept, NextEpoch
  <2> QED
    BY <1>0, <2>2, <2>3
<1> QED
  BY <1>0, <1>1, <1>2, <1>3, RoomActs

LEMMA WhoStep ==
    ASSUME Typed, Next
    PROVE  who' \in [Threads -> Sessions \cup {NoSession}]
<1> USE DEF Typed, TypeOK, CallLeave
<1>1. ASSUME NEW s \in Sessions, Arrive(s) \/ Drop(s) \/ Finish(s) \/ Handler(s)
      PROVE  UNCHANGED who \/ \E x \in Sessions : who' = [who EXCEPT ![s] = x]
  BY <1>1 DEF Arrive, Drop, Finish, Handler, Connect, Leave, ChangeConfig, Move, Delete
<1>2. ASSUME NEW t \in Threads, Continue(t)
      PROVE  UNCHANGED who \/ \E x \in Sessions : who' = [who EXCEPT ![t] = x]
  <2>1. CASE DeleteEvict(t)
    <3>1. todo[t] \subseteq Sessions
      BY <2>1, InHand DEF DeleteEvict, ThreadFits, Fit, Evicting
    <3> QED
      BY <2>1, <3>1 DEF DeleteEvict
  <2> QED
    BY <1>2, <2>1 DEF Continue, ConnectCap, ConnectJoin, ConnectOpen, ConnectAttach, LeaveClear, LeaveRelay, LeaveDetach,
      ResetDrop, ResetBump, ResetClear, ResetRelay, MoveSit, FinishLeaveAll, FinishRemove, DeleteClose, DeleteForget,
      DeleteUnseat, ChangeList, ChangeNext, ChangeClose
<1>3. ASSUME RelayGone \/ ChangeAddress \/ \E c \in Channels, u \in Users : TransportFails(c, u)
      PROVE  UNCHANGED who \/ \E x \in Sessions : who' = [who EXCEPT ![Relay] = x]
  <2>1. CASE RelayGone
    <3>1. holder[Head(left[Relay])] \in Sessions \cup {NoSession}
      BY <2>1, InHand DEF RelayGone, ThreadFits, Fit, Threads
    <3> QED
      BY <2>1, <3>1 DEF RelayGone
  <2> QED
    BY <1>3, <2>1 DEF ChangeAddress, TransportFails
<1> QED
  BY <1>1, <1>2, <1>3 DEF Next

LEMMA AtStep ==
    ASSUME Typed, Next
    PROVE  at' \in [Threads -> Channels \cup {None}] /\ to' \in [Threads -> Channels \cup {None}]
<1> DEFINE Place1(t) == \E c \in Channels \cup {None} : at' = [at EXCEPT ![t] = c]
           Place2(t) == \E c \in Channels \cup {None} : to' = [to EXCEPT ![t] = c]
<1> USE DEF Typed, TypeOK, CallLeave
<1>1. ASSUME NEW s \in Sessions, Arrive(s) \/ Drop(s) \/ Finish(s) \/ Handler(s)
      PROVE  (UNCHANGED at \/ Place1(s)) /\ (UNCHANGED to \/ Place2(s))
  BY <1>1 DEF Arrive, Drop, Finish, Handler, Connect, Leave, ChangeConfig, Move, Delete
<1>2. ASSUME NEW t \in Threads, Continue(t)
      PROVE  (UNCHANGED at \/ Place1(t)) /\ UNCHANGED to
  <2>1. CASE DeleteEvict(t) \/ ChangeNext(t)
    <3>1. at[t] \in Channels \cup {None} /\ (pc[t] = "next" => todo[t] \subseteq Channels)
      BY InHand DEF ThreadFits, Fit, Closing
    <3> QED
      BY <2>1, <3>1 DEF DeleteEvict, ChangeNext
  <2> QED
    BY <1>2, <2>1 DEF Continue, ConnectCap, ConnectJoin, ConnectOpen, ConnectAttach, LeaveClear, LeaveRelay, LeaveDetach,
      ResetDrop, ResetBump, ResetClear, ResetRelay, MoveSit, FinishLeaveAll, FinishRemove, DeleteClose, DeleteForget,
      DeleteUnseat, ChangeList, ChangeClose
<1>3. ASSUME RelayGone \/ ChangeAddress \/ \E c \in Channels, u \in Users : TransportFails(c, u)
      PROVE  (UNCHANGED at \/ Place1(Relay)) /\ UNCHANGED to
  BY <1>3, InHand DEF RelayGone, ChangeAddress, TransportFails, Threads
<1>4. ASSUME NEW t, (UNCHANGED at \/ Place1(t)) /\ (UNCHANGED to \/ Place2(t))
      PROVE  at' \in [Threads -> Channels \cup {None}] /\ to' \in [Threads -> Channels \cup {None}]
  <2>1. at \in [Threads -> Channels \cup {None}] /\ to \in [Threads -> Channels \cup {None}]
    OBVIOUS
  <2> HIDE DEF Typed, TypeOK
  <2> QED
    BY <1>4, <2>1
<1> HIDE DEF Place1, Place2
<1> QED
  BY <1>1, <1>2, <1>3, <1>4 DEF Next

LEMMA RetStep ==
    ASSUME Typed, Next
    PROVE  ret' \in [Threads -> Steps]
<1> USE DEF Typed, TypeOK, CallLeave, Steps
<1>1. ASSUME NEW s \in Sessions, Arrive(s) \/ Drop(s) \/ Finish(s) \/ Handler(s)
      PROVE  UNCHANGED ret \/ \E p \in Steps : ret' = [ret EXCEPT ![s] = p]
  BY <1>1 DEF Arrive, Drop, Finish, Handler, Connect, Leave, ChangeConfig, Move, Delete
<1>2. ASSUME NEW t \in Threads, Continue(t)
      PROVE  UNCHANGED ret \/ \E p \in Steps : ret' = [ret EXCEPT ![t] = p]
  BY <1>2 DEF Continue, ConnectCap, ConnectJoin, ConnectOpen, ConnectAttach, LeaveClear, LeaveRelay, LeaveDetach,
      ResetDrop, ResetBump, ResetClear, ResetRelay, MoveSit, FinishLeaveAll, FinishRemove, DeleteClose, DeleteForget,
      DeleteEvict, DeleteUnseat, ChangeList, ChangeNext, ChangeClose
<1>3. ASSUME RelayGone \/ ChangeAddress \/ \E c \in Channels, u \in Users : TransportFails(c, u)
      PROVE  UNCHANGED ret \/ \E p \in Steps : ret' = [ret EXCEPT ![Relay] = p]
  BY <1>3 DEF RelayGone, ChangeAddress, TransportFails
<1> HIDE DEF Steps
<1> QED
  BY <1>1, <1>2, <1>3 DEF Next

LEMMA LeftStep ==
    ASSUME Typed, Next
    PROVE  left' \in [Threads -> Seq(Users)]
<1> USE DEF Typed, TypeOK
<1>1. ASSUME NEW s \in Sessions, Arrive(s) \/ Drop(s) \/ Finish(s) \/ Handler(s)
      PROVE  UNCHANGED left
  BY <1>1 DEF Arrive, Drop, Finish, Handler, Connect, Leave, ChangeConfig, Move, Delete
<1>2. ASSUME NEW t \in Threads, LeaveClear(t)
      PROVE  \E l \in Seq(Users) : left' = [left EXCEPT ![t] = l]
  <2>1. Owner[who[t]] \in Users
    BY <1>2, InHand DEF LeaveClear, ThreadFits
  <2> QED
    <3>1. <<>> \in Seq(Users) /\ <<Owner[who[t]]>> \in Seq(Users)
      BY <2>1
    <3>2. left' = [left EXCEPT ![t] = IF seat[who[t]] = at[t] THEN <<Owner[who[t]]>> ELSE <<>>]
      BY <1>2 DEF LeaveClear
    <3> QED
      BY <3>1, <3>2
<1>3. ASSUME NEW t \in Threads, ResetDrop(t) \/ ResetClear(t) \/ ResetRelay(t)
      PROVE  UNCHANGED left \/ \E l \in Seq(Users) : left' = [left EXCEPT ![t] = l]
  <2>1. /\ pc[t] = "drop" => rooms[at[t]] \in Seq(Users)
        /\ left[t] # <<>> => Tail(left[t]) \in Seq(Users)
        /\ pc[t] = "uneach" => left[t] # <<>>
    BY InHand DEF ThreadFits, Within
  <2> QED
    BY <1>3, <2>1 DEF ResetDrop, ResetClear, ResetRelay
<1>4. ASSUME NEW t \in Threads, Continue(t)
      PROVE  UNCHANGED left \/ LeaveClear(t) \/ ResetDrop(t) \/ ResetClear(t) \/ ResetRelay(t)
  BY <1>4 DEF Continue, ConnectCap, ConnectJoin, ConnectOpen, ConnectAttach, LeaveRelay, LeaveDetach,
      ResetBump, MoveSit, FinishLeaveAll, FinishRemove, DeleteClose, DeleteForget,
      DeleteEvict, DeleteUnseat, ChangeList, ChangeNext, ChangeClose
<1>5. ASSUME NEW c \in Channels, NEW u \in Users, TransportFails(c, u)
      PROVE  \E l \in Seq(Users) : left' = [left EXCEPT ![Relay] = l]
  <2>1. <<u>> \in Seq(Users)
    OBVIOUS
  <2> QED
    BY <1>5, <2>1 DEF TransportFails
<1>6. ASSUME RelayGone \/ ChangeAddress
      PROVE  UNCHANGED left
  BY <1>6 DEF RelayGone, ChangeAddress
<1>7. ASSUME NEW t, NEW l \in Seq(Users), left' = [left EXCEPT ![t] = l]
      PROVE  left' \in [Threads -> Seq(Users)]
  BY <1>7
<1> QED
  BY <1>1, <1>2, <1>3, <1>4, <1>5, <1>6, <1>7 DEF Next

LEMMA TodoStep ==
    ASSUME Typed, Next
    PROVE  /\ todo' \in [Threads -> SUBSET (Channels \cup Sessions)]
           /\ shut' \in [Threads -> SUBSET Channels]
<1> DEFINE More(t) == \E x \in SUBSET (Channels \cup Sessions) : todo' = [todo EXCEPT ![t] = x]
           Shut(t) == \E x \in SUBSET Channels : shut' = [shut EXCEPT ![t] = x]
<1> USE DEF Typed, TypeOK
<1>1. ASSUME NEW s \in Sessions, Arrive(s) \/ Drop(s) \/ Finish(s) \/ Handler(s)
      PROVE  UNCHANGED <<todo, shut>>
  BY <1>1 DEF Arrive, Drop, Finish, Handler, Connect, Leave, ChangeConfig, Move, Delete
<1>2. ASSUME NEW t \in Threads, Continue(t)
      PROVE  (UNCHANGED todo \/ More(t)) /\ (UNCHANGED shut \/ Shut(t))
  <2>1. CASE DeleteForget(t)
    <3>1. {holder[u] : u \in Users} \ {NoSession} \subseteq Sessions
      OBVIOUS
    <3> QED
      BY <2>1, <3>1 DEF DeleteForget
  <2>2. CASE ChangeList(t)
    <3>1. {c \in Channels : rooms[c] # <<>>} \in SUBSET Channels
      OBVIOUS
    <3> QED
      BY <2>2, <3>1 DEF ChangeList
  <2>3. CASE ChangeClose(t)
    BY <2>3 DEF ChangeClose
  <2>4. CASE ChangeNext(t) \/ DeleteEvict(t)
    BY <2>4 DEF ChangeNext, DeleteEvict
  <2> QED
    BY <1>2, <2>1, <2>2, <2>3, <2>4 DEF Continue, ConnectCap, ConnectJoin, ConnectOpen, ConnectAttach, LeaveClear, LeaveRelay,
      LeaveDetach, ResetDrop, ResetBump, ResetClear, ResetRelay, MoveSit, FinishLeaveAll, FinishRemove, DeleteClose,
      DeleteUnseat
<1>3. ASSUME RelayGone \/ ChangeAddress \/ \E c \in Channels, u \in Users : TransportFails(c, u)
      PROVE  UNCHANGED <<todo, shut>>
  BY <1>3 DEF RelayGone, ChangeAddress, TransportFails
<1>4. ASSUME NEW t, (UNCHANGED todo \/ More(t)) /\ (UNCHANGED shut \/ Shut(t))
      PROVE  todo' \in [Threads -> SUBSET (Channels \cup Sessions)] /\ shut' \in [Threads -> SUBSET Channels]
  <2>1. ASSUME NEW x \in SUBSET (Channels \cup Sessions), todo' = [todo EXCEPT ![t] = x]
        PROVE  todo' \in [Threads -> SUBSET (Channels \cup Sessions)]
    BY <2>1
  <2>2. ASSUME NEW x \in SUBSET Channels, shut' = [shut EXCEPT ![t] = x]
        PROVE  shut' \in [Threads -> SUBSET Channels]
    BY <2>2
  <2> QED
    BY <1>4, <2>1, <2>2
<1> HIDE DEF More, Shut
<1> QED
  BY <1>1, <1>2, <1>3, <1>4 DEF Next

LEMMA TypeStep ==
    ASSUME Typed, Next
    PROVE  plan' \in Plans /\ TypeOK'
<1>1. plan' = plan
  BY DEF Next
<1> QED
  BY <1>1, PcStep, HubStep, SeatStep, PeersStep, RoomStep, WhoStep, AtStep, RetStep, LeftStep, TodoStep
     DEF TypeOK, Typed

\* A step of a thread, or of the session it reads for, is no step of another.
LEMMA FitStep ==
    ASSUME Typed, Next
    PROVE  ThreadsFit'
<1> USE DEF Typed, Goto, CallLeave
<1>t. /\ pc \in [Threads -> Steps] /\ ret \in [Threads -> Steps] /\ left \in [Threads -> Seq(Users)]
      /\ who \in [Threads -> Sessions \cup {NoSession}] /\ at \in [Threads -> Channels \cup {None}]
      /\ to \in [Threads -> Channels \cup {None}] /\ todo \in [Threads -> SUBSET (Channels \cup Sessions)]
      /\ chan \in [Sessions -> Channels \cup {None}] /\ seat \in [Sessions -> Channels \cup {None}]
      /\ exists \subseteq Channels /\ Sessions \subseteq Threads /\ Relay \in Threads
  BY DEF TypeOK, Threads
<1> DEFINE Mine(t) == /\ exists' \subseteq exists
                      /\ \A s \in Threads \ {t} :
                           /\ pc'[s] = pc[s] /\ ret'[s] = ret[s] /\ who'[s] = who[s] /\ at'[s] = at[s]
                           /\ to'[s] = to[s] /\ left'[s] = left[s] /\ todo'[s] = todo[s]
                      /\ ThreadFits(t)'
<1>1. ASSUME NEW s \in Sessions, Arrive(s) \/ Drop(s)
      PROVE  Mine(s)
  BY <1>1, <1>t, InHand DEF Arrive, Drop, ThreadFits, Fit, Going, Deleting, Evicting, Closing
<1>2. ASSUME NEW s \in Sessions, Finish(s)
      PROVE  Mine(s)
  BY <1>2, <1>t, InHand DEF Finish, ThreadFits, Fit, Within
<1>3. ASSUME NEW s \in Sessions, Connect(s) \/ Leave(s) \/ ChangeConfig(s)
      PROVE  Mine(s)
  BY <1>3, <1>t, InHand DEF Connect, Leave, ChangeConfig, Request, SitsInChannel, ThreadFits, Fit, Within, Going
<1>4. ASSUME NEW s \in Sessions, NEW x \in Sessions, NEW c \in Channels \cup {None}, Move(s, x, c)
      PROVE  Mine(s)
  <2>1. CASE chan[x] # None
    <3>1. chan[x] \in Channels
      BY <1>t, <2>1
    <3>2. /\ pc' = [pc EXCEPT ![s] = "clear"] /\ who' = [who EXCEPT ![s] = x]
          /\ at' = [at EXCEPT ![s] = chan[x]] /\ ret' = [ret EXCEPT ![s] = "sit"]
          /\ to' = [to EXCEPT ![s] = c] /\ UNCHANGED <<exists, left, todo>>
      BY <1>4, <2>1 DEF Move
    <3> QED
      BY <1>t, <3>1, <3>2 DEF ThreadFits, Fit, Within
  <2>2. CASE chan[x] = None
    <3>1. /\ pc' = [pc EXCEPT ![s] = "sit"] /\ who' = [who EXCEPT ![s] = x]
          /\ to' = [to EXCEPT ![s] = c] /\ UNCHANGED <<at, ret, exists, left, todo>>
      BY <1>4, <2>2 DEF Move
    <3> QED
      BY <1>t, <3>1 DEF ThreadFits, Fit, Within
  <2> QED
    BY <2>1, <2>2
<1>5. ASSUME NEW s \in Sessions, NEW c \in Channels, Delete(s, c)
      PROVE  Mine(s)
  BY <1>5, <1>t, InHand DEF Delete, Request, ThreadFits, Fit, Within, Deleting
<1>6. ASSUME NEW t \in Threads, ConnectCap(t) \/ ConnectJoin(t) \/ ConnectOpen(t) \/ ConnectAttach(t)
      PROVE  Mine(t)
  BY <1>6, <1>t, InHand DEF ConnectCap, ConnectJoin, ConnectOpen, ConnectAttach, ThreadFits, Fit, Within, Going
<1>7. ASSUME NEW t \in Threads, LeaveClear(t) \/ LeaveRelay(t) \/ LeaveDetach(t)
      PROVE  Mine(t)
  BY <1>7, <1>t, InHand DEF LeaveClear, LeaveRelay, LeaveDetach, ThreadFits, Fit, Within, Going, Deleting, Evicting, Closing
<1>8. ASSUME NEW t \in Threads, ResetDrop(t) \/ ResetBump(t) \/ ResetClear(t) \/ ResetRelay(t)
      PROVE  Mine(t)
  <2> USE DEF ThreadFits, Fit, Within, Going, Deleting, Evicting, Closing
  <2>1. CASE ResetDrop(t)
    BY <1>t, <2>1, InHand DEF ResetDrop
  <2>2. CASE ResetBump(t)
    BY <1>t, <2>2, InHand DEF ResetBump
  <2>3. CASE ResetClear(t)
    <3>1. /\ pc' = [pc EXCEPT ![t] = ret[t]] \/ UNCHANGED pc
             \/ (pc' = [pc EXCEPT ![t] = "uneach"] /\ UNCHANGED left /\ left[t] # <<>>)
          /\ UNCHANGED left \/ left' = [left EXCEPT ![t] = Tail(@)]
          /\ pc[t] = "each" /\ UNCHANGED <<ret, who, at, to, todo, exists>>
      BY <2>3 DEF ResetClear
    <3> QED
      BY <1>t, <3>1, InHand
  <2>4. CASE ResetRelay(t)
    BY <1>t, <2>4, InHand DEF ResetRelay
  <2> QED
    BY <1>8, <2>1, <2>2, <2>3, <2>4
<1>9. ASSUME NEW t \in Threads, MoveSit(t) \/ FinishLeaveAll(t) \/ FinishRemove(t)
      PROVE  Mine(t)
  BY <1>9, <1>t, InHand DEF MoveSit, FinishLeaveAll, FinishRemove, ThreadFits, Fit, Within
<1>10. ASSUME NEW t \in Threads, DeleteClose(t) \/ DeleteUnseat(t)
       PROVE  Mine(t)
  BY <1>10, <1>t, InHand DEF DeleteClose, DeleteUnseat, ThreadFits, Fit, Within, Deleting, Evicting
<1>11. ASSUME NEW t \in Threads, DeleteForget(t) \/ DeleteEvict(t)
       PROVE  Mine(t)
  <2> USE DEF ThreadFits, Fit, Within, Deleting, Evicting
  <2>1. CASE DeleteForget(t)
    <3>1. {holder[u] : u \in Users} \ {NoSession} \subseteq Sessions
      BY DEF TypeOK
    <3> QED
      BY <1>t, <2>1, <3>1, InHand DEF DeleteForget
  <2>2. CASE DeleteEvict(t)
    <3>0. t \in Sessions /\ at[t] \in Channels \ exists /\ todo[t] \subseteq Sessions /\ pc[t] = "evict" /\ t # Relay
      BY <2>2, InHand DEF DeleteEvict
    <3>1. CASE todo[t] = {}
      <4>1. pc' = [pc EXCEPT ![t] = "idle"] /\ UNCHANGED <<ret, who, at, to, todo, left, exists>>
        BY <2>2, <3>1 DEF DeleteEvict
      <4> QED
        BY <1>t, <3>0, <4>1
    <3>2. CASE todo[t] # {}
      <4>1. PICK x \in todo[t] :
              /\ todo' = [todo EXCEPT ![t] = @ \ {x}]
              /\ IF chan[x] = at[t] THEN CallLeave(t, x, at[t], "unseat") ELSE UNCHANGED <<pc, who, at, ret>>
              /\ UNCHANGED <<exists, to, left>>
        BY <2>2, <3>2 DEF DeleteEvict
      <4>2. x \in Sessions
        BY <3>0, <4>1
      <4>3. CASE chan[x] = at[t]
        <5>1. /\ pc' = [pc EXCEPT ![t] = "clear"] /\ who' = [who EXCEPT ![t] = x]
              /\ at' = [at EXCEPT ![t] = at[t]] /\ ret' = [ret EXCEPT ![t] = "unseat"]
          BY <4>1, <4>3
        <5> QED
          BY <1>t, <3>0, <4>1, <4>2, <5>1
      <4>4. CASE chan[x] # at[t]
        BY <1>t, <3>0, <4>1, <4>4
      <4> QED
        BY <4>3, <4>4
    <3> QED
      BY <3>1, <3>2
  <2> QED
    BY <1>11, <2>1, <2>2
<1>12. ASSUME NEW t \in Threads, ChangeList(t) \/ ChangeNext(t) \/ ChangeClose(t)
       PROVE  Mine(t)
  BY <1>12, <1>t, InHand DEF ChangeList, ChangeNext, ChangeClose, ThreadFits, Fit, Within, Closing
<1>13. ASSUME RelayGone \/ ChangeAddress \/ \E c \in Channels, u \in Users : TransportFails(c, u)
       PROVE  Mine(Relay)
  <2> USE DEF ThreadFits, Fit, Within
  <2>1. CASE RelayGone
    <3>1. left[Relay] # <<>> /\ at[Relay] \in Channels /\ holder[Head(left[Relay])] \in Sessions \cup {NoSession}
      BY <1>t, <2>1, InHand DEF RelayGone
    <3> QED
      BY <1>t, <2>1, <3>1, InHand DEF RelayGone
  <2>2. CASE ChangeAddress
    <3>1. UNCHANGED <<pc, ret, who, at, to, left, todo, exists>> /\ ThreadFits(Relay)
      BY <1>t, <2>2, InHand DEF ChangeAddress
    <3> QED
      BY <3>1 DEF Going, Deleting, Evicting, Closing
  <2>3. ASSUME NEW c \in Channels, NEW u \in Users, TransportFails(c, u)
        PROVE  Mine(Relay)
    BY <1>t, <2>3, InHand DEF TransportFails
  <2> QED
    BY <1>13, <2>1, <2>2, <2>3
<1>14. \E t \in Threads : Mine(t)
  <2> HIDE DEF Mine
  <2> QED
    BY <1>t, <1>1, <1>2, <1>3, <1>4, <1>5, <1>6, <1>7, <1>8, <1>9, <1>10, <1>11, <1>12, <1>13 DEF Next, Handler, Continue
<1> QED
  BY <1>14, OthersFit

-----------------------------------------------------------------------------
(* Nobody is counted twice, and an epoch names one host                     *)

Distinct == \A c \in Channels : NoRepeats(rooms[c])

\* Nothing was told of an epoch to come, and of the current one nothing but who hosts now.
HostTold(x) ==
    x[1] \in exists =>
        /\ x[2] <= epochs[x[1]]
        /\ x[2] = epochs[x[1]] /\ rooms[x[1]] # <<>> => x[3] = Head(rooms[x[1]])

HostsTold == \A x \in told : HostTold(x)

LEMMA DistinctStep ==
    ASSUME Typed, Distinct, Next
    PROVE  Distinct'
<1>0. rooms \in [Channels -> Seq(Users)]
  BY DEF Typed, TypeOK
<1>1. ASSUME NEW t \in Threads, ConnectAttach(t)
      PROVE  Distinct'
  <2>1. PICK c \in Channels, u \in Users : rooms' = [rooms EXCEPT ![c] = Joined(c, u)]
    BY <1>1, AttachIs
  <2>2. NoRepeats(Joined(c, u))
    BY <1>0, JoinedIs DEF Distinct
  <2> QED
    BY <1>0, <2>1, <2>2 DEF Distinct
<1>2. ASSUME NEW t \in Threads, LeaveDetach(t)
      PROVE  Distinct'
  <2>1. PICK c \in Channels, u \in Users : rooms' = [rooms EXCEPT ![c] = Without(c, u)]
    BY <1>2, DetachIs
  <2>2. NoRepeats(Without(c, u))
    BY <1>0, WithoutIs DEF Distinct
  <2> QED
    BY <1>0, <2>1, <2>2 DEF Distinct
<1>3. ASSUME NEW t \in Threads, ResetDrop(t) \/ ResetBump(t) \/ DeleteForget(t)
      PROVE  Distinct'
  <2>1. UNCHANGED rooms \/ rooms' = [rooms EXCEPT ![at[t]] = <<>>]
    BY <1>3 DEF ResetDrop, ResetBump, DeleteForget
  <2>2. NoRepeats(<<>>)
    BY DEF NoRepeats
  <2> QED
    BY <1>0, <2>1, <2>2 DEF Distinct
<1> QED
  BY <1>1, <1>2, <1>3, RoomActs DEF Distinct

LEMMA ToldStep ==
    ASSUME Typed, HostsTold, EpochNamesOneHost, Next
    PROVE  HostsTold' /\ EpochNamesOneHost'
<1>0. /\ rooms \in [Channels -> Seq(Users)] /\ epochs \in [Channels -> Nat]
      /\ told \subseteq Channels \X Nat \X Users /\ exists' \subseteq exists
  BY HubStep DEF Typed, TypeOK
<1>k. ASSUME NEW x \in told
      PROVE  x[1] \in Channels /\ x[2] \in Nat /\ x[3] \in Users
  BY <1>0
<1>1. ASSUME NEW t \in Threads, ConnectAttach(t)
      PROVE  HostsTold' /\ EpochNamesOneHost'
  <2>1. PICK c \in Channels, u \in Users, e \in Nat :
              /\ e = IF rooms[c] = <<>> THEN epochs[c] + 1 ELSE epochs[c]
              /\ rooms' = [rooms EXCEPT ![c] = Joined(c, u)]
              /\ epochs' = [epochs EXCEPT ![c] = e]
              /\ told' \subseteq told \cup {<<c, e, Head(Joined(c, u))>>}
    BY <1>1, AttachIs
  <2>h. PICK h \in Users : h = Head(Joined(c, u))
    BY <1>0, JoinedIs
  <2> DEFINE new == <<c, e, h>>
  <2>2. Joined(c, u) # <<>> /\ (rooms[c] # <<>> => h = Head(rooms[c]))
    BY <1>0, <2>h, JoinedIs
  <2>3. new[1] = c /\ new[2] = e /\ new[3] = h
    OBVIOUS
  <2>4. rooms'[c] = Joined(c, u) /\ epochs'[c] = e /\ Head(rooms'[c]) = h
    BY <1>0, <2>1, <2>h
  <2>5. ASSUME NEW x \in told, x[1] = c, c \in exists
        PROVE  x[2] <= e /\ (x[2] = e => x[3] = h)
    <3>1. x[2] <= epochs[c] /\ (x[2] = epochs[c] /\ rooms[c] # <<>> => x[3] = Head(rooms[c]))
      BY <2>5 DEF HostsTold, HostTold
    <3> QED
      BY <1>0, <1>k, <2>1, <2>2, <3>1
  <2>6. ASSUME NEW x \in told
        PROVE  HostTold(x)'
    <3>1. CASE x[1] = c
      BY <1>0, <2>4, <2>5, <3>1 DEF HostTold
    <3>2. CASE x[1] # c
      BY <1>0, <1>k, <2>1, <3>2 DEF HostsTold, HostTold
    <3> QED
      BY <3>1, <3>2
  <2>7. HostTold(new)'
    BY <2>3, <2>4 DEF HostTold
  <2>8. HostsTold'
    <3> HIDE DEF new
    <3>1. \A x \in told' : x \in told \/ x = new
      BY <2>1, <2>h DEF new
    <3> QED
      BY <2>6, <2>7, <3>1 DEF HostsTold
  <2>9. EpochNamesOneHost'
    <3> SUFFICES ASSUME NEW x \in told', NEW y \in told', x[1] \in exists', x[1] = y[1], x[2] = y[2]
                 PROVE  x[3] = y[3]
      BY DEF EpochNamesOneHost
    <3>1. (x \in told \/ x = new) /\ (y \in told \/ y = new)
      BY <2>1, <2>h
    <3> HIDE DEF new
    <3> QED
      BY <1>0, <2>3, <2>5, <3>1 DEF EpochNamesOneHost
  <2> QED
    BY <2>8, <2>9
<1>2. ASSUME told' = told, \A c \in Channels : c \in exists =>
                              \/ epochs'[c] > epochs[c] /\ epochs'[c] \in Nat
                              \/ epochs'[c] = epochs[c] /\ rooms'[c] = <<>>
                              \/ epochs'[c] = epochs[c] /\ rooms[c] # <<>> /\ Head(rooms'[c]) = Head(rooms[c])
                              \/ epochs'[c] = epochs[c] /\ rooms'[c] = rooms[c]
      PROVE  HostsTold' /\ EpochNamesOneHost'
  <2>1. ASSUME NEW x \in told
        PROVE  HostTold(x)'
    <3> SUFFICES ASSUME x[1] \in exists'
                 PROVE  HostTold(x)'
      BY DEF HostTold
    <3>1. /\ x[2] <= epochs[x[1]] /\ (x[2] = epochs[x[1]] /\ rooms[x[1]] # <<>> => x[3] = Head(rooms[x[1]]))
          /\ x[1] \in exists
      BY <1>0 DEF HostsTold, HostTold
    <3>2. /\ x[1] \in Channels /\ x[2] \in Nat
          /\ \/ epochs'[x[1]] > epochs[x[1]] /\ epochs'[x[1]] \in Nat
             \/ epochs'[x[1]] = epochs[x[1]] /\ rooms'[x[1]] = <<>>
             \/ epochs'[x[1]] = epochs[x[1]] /\ rooms[x[1]] # <<>> /\ Head(rooms'[x[1]]) = Head(rooms[x[1]])
             \/ epochs'[x[1]] = epochs[x[1]] /\ rooms'[x[1]] = rooms[x[1]]
      BY <1>k, <1>2, <3>1
    <3>3. epochs[x[1]] \in Nat
      BY <1>0, <3>2
    <3> QED
      BY <3>1, <3>2, <3>3 DEF HostTold
  <2> QED
    BY <1>0, <1>2, <2>1 DEF HostsTold, EpochNamesOneHost
<1>3. ASSUME NEW t \in Threads, LeaveDetach(t)
      PROVE  HostsTold' /\ EpochNamesOneHost'
  <2>1. PICK c \in Channels, u \in Users :
              /\ rooms' = [rooms EXCEPT ![c] = Without(c, u)]
              /\ epochs' = [epochs EXCEPT ![c] = IF Hosts(c, u) THEN epochs[c] + 1 ELSE epochs[c]]
              /\ told' = told
    BY <1>3, DetachIs
  <2>2. rooms[c] # <<>> /\ Without(c, u) # <<>> /\ ~Hosts(c, u) => Head(Without(c, u)) = Head(rooms[c])
    BY <1>0, WithoutIs
  <2>3. rooms[c] = <<>> => Without(c, u) = <<>>
    BY DEF Without, Members, Range
  <2> QED
    BY <1>0, <1>2, <2>1, <2>2, <2>3
<1>4. ASSUME NEW t \in Threads, ResetDrop(t) \/ ResetBump(t)
      PROVE  HostsTold' /\ EpochNamesOneHost'
  <2>1. at[t] \in Channels
    BY <1>4, InHand DEF ResetDrop, ResetBump, ThreadFits, Within
  <2> QED
    BY <1>0, <1>2, <1>4, <2>1 DEF ResetDrop, ResetBump, EpochKept, NextEpoch
<1>5. ASSUME NEW t \in Threads, DeleteForget(t)
      PROVE  HostsTold' /\ EpochNamesOneHost'
  <2>1. at[t] \in Channels \ exists
    BY <1>5, InHand DEF DeleteForget, ThreadFits, Fit, Deleting
  <2> QED
    BY <1>0, <1>2, <1>5, <2>1 DEF DeleteForget
<1>6. ASSUME UNCHANGED <<rooms, epochs, told>>
      PROVE  HostsTold' /\ EpochNamesOneHost'
  BY <1>2, <1>6
<1> QED
  BY <1>1, <1>3, <1>4, <1>5, <1>6, RoomActs

\* The inductive invariant.
Seats == Typed /\ Distinct /\ HostsTold /\ EpochNamesOneHost

LEMMA SeatsInit == Init => Seats
BY TypedInit DEF Init, Seats, Distinct, NoRepeats, HostsTold, EpochNamesOneHost

LEMMA SeatsStep == Seats /\ [Next]_vars => Seats'
<1> SUFFICES ASSUME Seats, [Next]_vars
             PROVE  Seats'
  OBVIOUS
<1>1. CASE Next
  BY <1>1, TypeStep, FitStep, DistinctStep, ToldStep DEF Seats, Typed
<1>2. CASE UNCHANGED vars
  BY <1>2 DEF vars, Seats, Typed, TypeOK, ThreadsFit, ThreadFits, Fit, Going, Deleting, Evicting, Closing, Distinct,
      NoRepeats, HostsTold, HostTold, EpochNamesOneHost
<1> QED
  BY <1>1, <1>2

LEMMA DistinctShows == Seats => NobodyTwice
<1> SUFFICES ASSUME Seats, NEW c \in Channels
             PROVE  Cardinality(Members(c)) = Len(rooms[c])
  BY DEF NobodyTwice
<1>1. rooms[c] \in Seq(Users) /\ NoRepeats(rooms[c])
  BY DEF Seats, Typed, TypeOK, Distinct
<1>2. Len(rooms[c]) \in Nat /\ DOMAIN rooms[c] = 1..Len(rooms[c])
  BY <1>1
<1>3. rooms[c] \in Bijection(1..Len(rooms[c]), Members(c))
  <2>1. rooms[c] \in [1..Len(rooms[c]) -> Members(c)]
    BY <1>1, <1>2 DEF Members, Range
  <2>2. \A x, y \in 1..Len(rooms[c]) : rooms[c][x] = rooms[c][y] => x = y
    BY <1>1, <1>2 DEF NoRepeats
  <2>3. \A m \in Members(c) : \E x \in 1..Len(rooms[c]) : rooms[c][x] = m
    BY <1>2 DEF Members, Range
  <2> QED
    BY <2>1, <2>2, <2>3 DEF Bijection, Injection, Surjection, IsInjective
<1> QED
  BY <1>2, <1>3, FS_CountingElements DEF ExistsBijection

\* Every variable keeps its type, for any deployment and whatever else happens in it.
THEOREM SeatsKeepTypes == Spec => []TypeOK
<1>1. Seats => TypeOK
  BY DEF Seats, Typed
<1> QED
  BY SeatsInit, SeatsStep, <1>1, PTL DEF Spec

\* Nobody is counted twice in a room, however connecting, leaving, moving, resetting and deleting
\* interleave: the count is what max_participants is compared with.
THEOREM NobodyIsTwice == Spec => []NobodyTwice
BY SeatsInit, SeatsStep, DistinctShows, PTL DEF Spec

\* One epoch of a channel that exists was never told to anybody with two hosts.
THEOREM EpochsNameHosts == Spec => []EpochNamesOneHost
<1>1. Seats => EpochNamesOneHost
  BY DEF Seats
<1> QED
  BY SeatsInit, SeatsStep, <1>1, PTL DEF Spec

-----------------------------------------------------------------------------
(* Where nobody is displaced                                                *)

Live(s) == conn[s] \in {"on", "closed"}

\* A connection that is up holds the slot of its identity, nobody else does, and it alone is busy.
Undisplaced ==
    /\ \A s \in Sessions : Live(s) <=> holder[Owner[s]] = s
    /\ \A u \in Users : holder[u] # NoSession => Owner[holder[u]] = u
    /\ \A s \in Sessions : pc[s] # "idle" => Live(s)

\* Only who is connected has a peer, and gives it up before the slot.
PeersHeld ==
    /\ \A p \in peers : holder[p[2]] # NoSession
    /\ \A s \in Sessions : pc[s] = "remove" => \A p \in peers : p[2] # Owner[s]

\* What becomes of connections.
LEMMA HubActs ==
    ASSUME Typed, Next
    PROVE  \/ UNCHANGED hubVars
           \/ \E s \in Sessions : Arrive(s) \/ Drop(s) \/ FinishRemove(s)
<1>1. ASSUME NEW s \in Sessions, Finish(s) \/ Handler(s)
      PROVE  UNCHANGED hubVars
  BY <1>1 DEF Finish, Handler, Connect, Leave, ChangeConfig, Move, Delete
<1>2. ASSUME NEW t \in Threads, Continue(t)
      PROVE  (t \in Sessions /\ FinishRemove(t)) \/ UNCHANGED hubVars
  <2>1. ASSUME FinishRemove(t)
        PROVE  t \in Sessions
    BY <2>1, InHand DEF FinishRemove, ThreadFits, Fit
  <2> QED
    BY <1>2, <2>1 DEF Continue, ConnectCap, ConnectJoin, ConnectOpen, ConnectAttach, LeaveClear, LeaveRelay, LeaveDetach,
      ResetDrop, ResetBump, ResetClear, ResetRelay, MoveSit, FinishLeaveAll, DeleteClose, DeleteForget,
      DeleteEvict, DeleteUnseat, ChangeList, ChangeNext, ChangeClose
<1>3. ASSUME RelayGone \/ ChangeAddress \/ \E c \in Channels, u \in Users : TransportFails(c, u)
      PROVE  UNCHANGED hubVars
  BY <1>3 DEF RelayGone, ChangeAddress, TransportFails
<1> QED
  BY <1>1, <1>2, <1>3 DEF Next

\* A session is busy because it was, or it was up and took something up.
LEMMA BusyStep ==
    ASSUME Typed, Next, NEW s \in Sessions, pc'[s] # "idle"
    PROVE  pc[s] # "idle" \/ Live(s)
<1>t. pc \in [Threads -> Steps] /\ Sessions \subseteq Threads /\ Relay \in Threads
  BY DEF Typed, TypeOK, Threads
<1> USE DEF Goto, CallLeave
<1>1. ASSUME NEW x \in Sessions, Arrive(x) \/ Drop(x)
      PROVE  pc' = pc
  BY <1>1 DEF Arrive, Drop
<1>2. ASSUME NEW x \in Sessions, Finish(x) \/ Handler(x)
      PROVE  x = s => Live(s)
  BY <1>2 DEF Finish, Handler, Connect, Leave, ChangeConfig, Move, Delete, Request, Live
<1>3. ASSUME NEW x \in Sessions, Finish(x) \/ Handler(x)
      PROVE  \E p : pc' = [pc EXCEPT ![x] = p]
  BY <1>3 DEF Finish, Handler, Connect, Leave, ChangeConfig, Move, Delete
<1>4. ASSUME NEW t \in Threads, Continue(t)
      PROVE  pc[t] # "idle"
  BY <1>4 DEF Continue, ConnectCap, ConnectJoin, ConnectOpen, ConnectAttach, LeaveClear, LeaveRelay, LeaveDetach,
      ResetDrop, ResetBump, ResetClear, ResetRelay, MoveSit, FinishLeaveAll, FinishRemove, DeleteClose, DeleteForget,
      DeleteEvict, DeleteUnseat, ChangeList, ChangeNext, ChangeClose
<1>5. ASSUME NEW t \in Threads, Continue(t)
      PROVE  UNCHANGED pc \/ \E p : pc' = [pc EXCEPT ![t] = p]
  BY <1>5 DEF Continue, ConnectCap, ConnectJoin, ConnectOpen, ConnectAttach, LeaveClear, LeaveRelay, LeaveDetach,
      ResetDrop, ResetBump, ResetClear, ResetRelay, MoveSit, FinishLeaveAll, FinishRemove, DeleteClose, DeleteForget,
      DeleteEvict, DeleteUnseat, ChangeList, ChangeNext, ChangeClose
<1>6. ASSUME RelayGone \/ ChangeAddress \/ \E c \in Channels, u \in Users : TransportFails(c, u)
      PROVE  UNCHANGED pc \/ \E p : pc' = [pc EXCEPT ![Relay] = p]
  BY <1>6 DEF RelayGone, ChangeAddress, TransportFails
<1> QED
  BY <1>t, <1>1, <1>2, <1>3, <1>4, <1>5, <1>6 DEF Next

LEMMA UndisplacedStep ==
    ASSUME Typed, Undisplaced, "displace" \notin plan.features, Next
    PROVE  Undisplaced'
<1>t. /\ holder \in [Users -> Sessions \cup {NoSession}] /\ Owner \in [Sessions -> Users]
      /\ conn \in [Sessions -> {"off", "on", "closed", "gone"}]
      /\ pc \in [Threads -> Steps] /\ Sessions \subseteq Threads
  BY DEF Typed, TypeOK, Threads
<1>1. ASSUME NEW s \in Sessions, Arrive(s)
      PROVE  Undisplaced'
  <2>1. /\ conn[s] = "off" /\ holder[Owner[s]] = NoSession
        /\ holder' = [holder EXCEPT ![Owner[s]] = s]
        /\ conn' = [x \in Sessions |-> IF x = s THEN "on"
                                      ELSE IF x = holder[Owner[s]] THEN "closed" ELSE conn[x]]
        /\ pc' = pc
    BY <1>1 DEF Arrive, Slots!Take
  <2>2. conn' = [conn EXCEPT ![s] = "on"]
    BY <1>t, <2>1
  <2> QED
    BY <1>t, <2>1, <2>2 DEF Undisplaced, Live
<1>2. ASSUME NEW s \in Sessions, Drop(s)
      PROVE  Undisplaced'
  BY <1>t, <1>2 DEF Drop, Undisplaced, Live
<1>3. ASSUME NEW s \in Sessions, FinishRemove(s)
      PROVE  Undisplaced'
  <2>1. pc[s] = "remove" /\ holder[Owner[s]] = s
    BY <1>3 DEF FinishRemove, Undisplaced
  <2>2. /\ holder' = [holder EXCEPT ![Owner[s]] = NoSession] /\ conn' = [conn EXCEPT ![s] = "gone"]
        /\ pc' = [pc EXCEPT ![s] = "idle"]
    BY <1>3, <2>1 DEF FinishRemove, Slots!Vacate, Goto
  <2> QED
    BY <1>t, <2>1, <2>2 DEF Undisplaced, Live
<1>4. ASSUME UNCHANGED hubVars
      PROVE  Undisplaced'
  BY <1>4, BusyStep DEF Undisplaced, Live
<1> QED
  BY <1>1, <1>2, <1>3, <1>4, HubActs

LEMMA PeersHeldStep ==
    ASSUME Typed, Undisplaced, PeersHeld, "displace" \notin plan.features, Next
    PROVE  PeersHeld'
<1>t. /\ holder \in [Users -> Sessions \cup {NoSession}] /\ Owner \in [Sessions -> Users]
      /\ pc \in [Threads -> Steps] /\ Sessions \subseteq Threads /\ Relay \notin Sessions
      /\ peers \subseteq Channels \X Users
  BY DEF Typed, TypeOK, Threads
<1> USE DEF Goto, CallLeave
<1>1. ASSUME NEW s \in Sessions, Arrive(s)
      PROVE  PeersHeld'
  <2>1. holder' = [holder EXCEPT ![Owner[s]] = s] /\ pc' = pc /\ peers' = peers
    BY <1>1 DEF Arrive, Slots!Take
  <2> QED
    BY <1>t, <2>1 DEF PeersHeld
<1>2. ASSUME NEW s \in Sessions, Drop(s)
      PROVE  PeersHeld'
  BY <1>2 DEF Drop, PeersHeld
<1>3. ASSUME NEW s \in Sessions, FinishRemove(s)
      PROVE  PeersHeld'
  <2>1. pc[s] = "remove" /\ holder[Owner[s]] = s /\ \A p \in peers : p[2] # Owner[s]
    BY <1>3 DEF FinishRemove, Undisplaced, PeersHeld
  <2>2. holder' = [holder EXCEPT ![Owner[s]] = NoSession] /\ pc' = [pc EXCEPT ![s] = "idle"] /\ peers' = peers
    BY <1>3, <2>1 DEF FinishRemove, Slots!Vacate
  <2> QED
    BY <1>t, <2>1, <2>2 DEF PeersHeld
<1>4. ASSUME NEW s \in Sessions, Finish(s)
      PROVE  UNCHANGED <<holder, peers>> /\ \A x \in Sessions : pc'[x] = "remove" => pc[x] = "remove"
  <2>1. ~HeldByOther(s)
    BY <1>4 DEF Finish, HeldByOther, Undisplaced, Live
  <2> QED
    BY <1>t, <1>4, <2>1 DEF Finish
<1>5. ASSUME NEW s \in Sessions, FinishLeaveAll(s)
      PROVE  PeersHeld'
  BY <1>t, <1>5 DEF FinishLeaveAll, PeersHeld
<1>6. ASSUME NEW s \in Sessions, ConnectJoin(s)
      PROVE  PeersHeld'
  <2>1. pc[s] = "join" /\ holder[Owner[s]] = s
    BY <1>6 DEF ConnectJoin, Undisplaced
  <2>2. \A x \in Sessions : pc[x] = "remove" => Owner[x] # Owner[s]
    BY <2>1 DEF Undisplaced
  <2>3. /\ peers' = peers \/ peers' = peers \cup {<<to[s], Owner[s]>>}
        /\ \A x \in Sessions : pc'[x] = "remove" => pc[x] = "remove"
        /\ UNCHANGED holder
    BY <1>t, <1>6 DEF ConnectJoin
  <2> QED
    BY <1>t, <2>1, <2>2, <2>3 DEF PeersHeld
<1>7. ASSUME NEW t \in Threads, Continue(t)
      PROVE  \/ t \in Sessions /\ (ConnectJoin(t) \/ FinishLeaveAll(t) \/ FinishRemove(t))
             \/ UNCHANGED holder /\ peers' \subseteq peers /\ \A x \in Sessions : pc'[x] = "remove" => pc[x] = "remove"
  <2>1. ThreadFits(t) /\ (pc[t] \in Within => ret[t] # "remove")
    BY InHand DEF ThreadFits
  <2>2. CASE ConnectJoin(t) \/ FinishLeaveAll(t) \/ FinishRemove(t)
    BY <2>1, <2>2 DEF ThreadFits, Fit, ConnectJoin, FinishLeaveAll, FinishRemove
  <2>3. CASE ConnectCap(t) \/ ConnectOpen(t) \/ ConnectAttach(t)
    BY <1>t, <2>3 DEF ConnectCap, ConnectOpen, ConnectAttach, Unpeered
  <2>4. CASE LeaveClear(t) \/ LeaveRelay(t) \/ LeaveDetach(t)
    BY <1>t, <2>1, <2>4 DEF LeaveClear, LeaveRelay, LeaveDetach, Unpeered, Within
  <2>5. CASE ResetDrop(t) \/ ResetBump(t) \/ ResetClear(t) \/ ResetRelay(t)
    BY <1>t, <2>1, <2>5 DEF ResetDrop, ResetBump, ResetClear, ResetRelay, Unpeered, Within
  <2>6. CASE MoveSit(t) \/ DeleteClose(t) \/ DeleteForget(t) \/ DeleteEvict(t) \/ DeleteUnseat(t)
    BY <1>t, <2>6 DEF MoveSit, DeleteClose, DeleteForget, DeleteEvict, DeleteUnseat
  <2>7. CASE ChangeList(t) \/ ChangeNext(t) \/ ChangeClose(t)
    BY <1>t, <2>7 DEF ChangeList, ChangeNext, ChangeClose
  <2> QED
    BY <1>7, <2>2, <2>3, <2>4, <2>5, <2>6, <2>7 DEF Continue
<1>8. ASSUME NEW s \in Sessions, Handler(s)
      PROVE  UNCHANGED holder /\ peers' \subseteq peers /\ \A x \in Sessions : pc'[x] = "remove" => pc[x] = "remove"
  BY <1>t, <1>8 DEF Handler, Connect, Leave, ChangeConfig, Move, Delete
<1>9. ASSUME RelayGone \/ ChangeAddress \/ \E c \in Channels, u \in Users : TransportFails(c, u)
      PROVE  UNCHANGED holder /\ peers' \subseteq peers /\ \A x \in Sessions : pc'[x] = pc[x]
  BY <1>t, <1>9 DEF RelayGone, ChangeAddress, TransportFails
<1>10. ASSUME UNCHANGED holder, peers' \subseteq peers, \A x \in Sessions : pc'[x] = "remove" => pc[x] = "remove"
       PROVE  PeersHeld'
  BY <1>10 DEF PeersHeld
<1> QED
  BY <1>1, <1>2, <1>3, <1>4, <1>5, <1>6, <1>7, <1>8, <1>9, <1>10 DEF Next

Kept == Seats /\ Undisplaced /\ PeersHeld

LEMMA KeptInit == Init => Kept
BY SeatsInit DEF Init, Kept, Undisplaced, PeersHeld, Live, Threads

LEMMA KeptStep ==
    ASSUME "displace" \notin plan.features, Kept, [Next]_vars
    PROVE  Kept'
<1>1. CASE Next
  BY <1>1, SeatsStep, UndisplacedStep, PeersHeldStep DEF Kept, Seats
<1>2. CASE UNCHANGED vars
  BY <1>2, SeatsStep DEF Kept, Undisplaced, PeersHeld, Live, vars
<1> QED
  BY <1>1, <1>2

\* What the invariant says of properties.
LEMMA KeptShows == Kept => TypeOK /\ NobodyTwice /\ NoMediaAfterGone
BY DistinctShows DEF Kept, Seats, Typed, PeersHeld, NoMediaAfterGone

\* Whatever moderators, administrators and the network do, nobody is counted twice in a
\* room; and where connections do not displace one another, nobody is heard after their
\* last connection has ended.
THEOREM NoGhostsAnywhere == Spec => []EverywhereNoGhosts
<1> DEFINE Inv == Seats /\ ("displace" \notin plan.features => Kept)
<1>1. Init => Inv
  BY SeatsInit, KeptInit
<1>2. Inv /\ [Next]_vars => Inv'
  <2> SUFFICES ASSUME Inv, [Next]_vars
               PROVE  Inv'
    OBVIOUS
  <2>1. plan' = plan
    BY DEF Next, vars
  <2> QED
    BY <2>1, SeatsStep, KeptStep
<1>3. Inv => EverywhereNoGhosts
  BY KeptShows, DistinctShows DEF EverywhereNoGhosts, Seats
<1> QED
  BY <1>1, <1>2, <1>3, PTL DEF Spec

-----------------------------------------------------------------------------
(* Where everybody minds their own audio                                    *)

\* The four records of session s, when it has audio up in channel c and when it has none.
Up(s, c) == seat[s] = c /\ chan[s] = c /\ Seated(Owner[s]) = {c} /\ <<c, Owner[s]>> \in peers
Down(s) == seat[s] = None /\ Seated(Owner[s]) = {}
Settled(s) == Down(s) \/ \E c \in Channels : Up(s, c)

\* What the records of a session that is up say at every step of its read loop.
Phase(s) ==
    /\ pc[s] \in {"idle", "cap", "join", "open", "attach", "clear", "unrelay", "detach", "sit", "leaveall", "remove"}
    /\ pc[s] = "idle" => Settled(s)
    /\ pc[s] \in {"cap", "join", "sit", "leaveall", "remove"} => Down(s)
    /\ pc[s] \in {"cap", "join", "open", "attach"} => chan[s] = to[s]
    /\ pc[s] = "open" => Down(s) /\ <<to[s], Owner[s]>> \in peers
    /\ pc[s] = "attach" => seat[s] = to[s] /\ Seated(Owner[s]) = {} /\ <<to[s], Owner[s]>> \in peers
    /\ pc[s] \in {"clear", "unrelay", "detach", "sit"} => who[s] = s
    /\ pc[s] \in {"clear", "unrelay", "detach"} /\ ret[s] = "cap" => chan[s] = to[s]
    /\ pc[s] = "clear" => at[s] = chan[s] /\ Settled(s)
    /\ pc[s] = "unrelay" => seat[s] = None /\ Seated(Owner[s]) = IF left[s] = <<>> THEN {} ELSE {at[s]}
    /\ pc[s] = "detach" => seat[s] = None /\ Seated(Owner[s]) = {at[s]}
    /\ pc[s] \in {"clear", "unrelay", "detach"} => ret[s] \in {"idle", "cap", "sit", "leaveall"}

Phases ==
    /\ \A s \in Sessions : IF Live(s) THEN Phase(s) ELSE seat[s] = None
    /\ \A u \in Users : holder[u] = NoSession => Seated(u) = {}
    /\ pc[Relay] = "idle"

\* A step of session s touches nothing of another session that is up, nor of another user.
Apart(s) ==
    /\ \A x \in Sessions \ {s} :
         /\ pc'[x] = pc[x] /\ ret'[x] = ret[x] /\ who'[x] = who[x] /\ at'[x] = at[x] /\ to'[x] = to[x]
         /\ left'[x] = left[x] /\ seat'[x] = seat[x] /\ chan'[x] = chan[x]
    /\ \A u \in Users \ {Owner[s]} :
         /\ Seated(u)' = Seated(u)
         /\ \A c \in Channels : <<c, u>> \in peers => <<c, u>> \in peers'
    /\ pc'[Relay] = pc[Relay]

LEMMA ApartKeeps ==
    ASSUME Typed, Undisplaced, Phases, NEW s \in Sessions, Live(s), Apart(s), UNCHANGED hubVars, Phase(s)'
    PROVE  Phases'
<1>t. Owner \in [Sessions -> Users] /\ to \in [Threads -> Channels \cup {None}] /\ Sessions \subseteq Threads
  BY DEF Typed, TypeOK, Threads
<1>1. ASSUME NEW x \in Sessions, Live(x), x # s
      PROVE  Phase(x)'
  <2>1. Owner[x] # Owner[s] /\ Owner[x] \in Users
    BY <1>1 DEF Undisplaced, Live
  <2>2. Phase(x)
    BY <1>1 DEF Phases
  <2>3. /\ pc'[x] = pc[x] /\ ret'[x] = ret[x] /\ who'[x] = who[x] /\ at'[x] = at[x] /\ to'[x] = to[x]
        /\ left'[x] = left[x] /\ seat'[x] = seat[x] /\ chan'[x] = chan[x]
        /\ Seated(Owner[x])' = Seated(Owner[x])
        /\ \A c \in Channels : <<c, Owner[x]>> \in peers => <<c, Owner[x]>> \in peers'
    BY <1>1, <2>1 DEF Apart
  <2>4. pc[x] \in {"open", "attach"} => to[x] \in Channels
    BY <1>1, <1>t, InHand DEF ThreadFits, Fit, Going
  <2> HIDE DEF Seated
  <2>5. Settled(x) => Settled(x)'
    BY <2>3 DEF Settled, Up, Down
  <2> QED
    BY <2>2, <2>3, <2>4, <2>5 DEF Phase, Down
<1>2. ASSUME NEW x \in Sessions, ~Live(x)
      PROVE  seat'[x] = None
  BY <1>2 DEF Phases, Apart
<1>3. ASSUME NEW u \in Users, holder[u] = NoSession
      PROVE  Seated(u)' = {}
  BY <1>3 DEF Undisplaced, Phases, Apart
<1> QED
  BY <1>1, <1>2, <1>3 DEF Phases, Live, Apart

\* Where everybody minds their own audio these are all the steps there are.
LEMMA CalmActs ==
    ASSUME Typed, Undisplaced, Phases, OwnAudio, Next
    PROVE  \E s \in Sessions :
              \/ Arrive(s) \/ Drop(s) \/ FinishRemove(s)
              \/ Live(s) /\ Phase(s) /\
                 \/ Finish(s) \/ Connect(s) \/ Leave(s) \/ \E c \in Channels \cup {None} : Move(s, s, c)
                 \/ ConnectCap(s) \/ ConnectJoin(s) \/ ConnectOpen(s) \/ ConnectAttach(s)
                 \/ LeaveClear(s) \/ LeaveRelay(s) \/ LeaveDetach(s) \/ MoveSit(s) \/ FinishLeaveAll(s)
<1>1. ASSUME NEW s \in Sessions, Finish(s) \/ Handler(s)
      PROVE  Live(s) /\ Phase(s) /\ (Finish(s) \/ Connect(s) \/ Leave(s) \/ \E c \in Channels \cup {None} : Move(s, s, c))
  <2>1. Live(s)
    BY <1>1 DEF Finish, Handler, Connect, Leave, ChangeConfig, Move, Delete, Request, Live
  <2>2. ASSUME NEW x \in Sessions, NEW c \in Channels \cup {None}, Move(s, x, c)
        PROVE  x = s
    BY <2>2 DEF Move, OwnAudio
  <2>3. ~ChangeConfig(s) /\ \A c \in Channels : ~Delete(s, c)
    BY DEF ChangeConfig, Delete, OwnAudio
  <2> QED
    BY <1>1, <2>1, <2>2, <2>3 DEF Handler, Phases
<1>2. ASSUME NEW t \in Threads, Continue(t)
      PROVE  /\ t \in Sessions /\ Live(t) /\ Phase(t)
             /\ \/ ConnectCap(t) \/ ConnectJoin(t) \/ ConnectOpen(t) \/ ConnectAttach(t)
                \/ LeaveClear(t) \/ LeaveRelay(t) \/ LeaveDetach(t) \/ MoveSit(t) \/ FinishLeaveAll(t) \/ FinishRemove(t)
  <2>1. pc[t] # "idle"
    BY <1>2 DEF Continue, ConnectCap, ConnectJoin, ConnectOpen, ConnectAttach, LeaveClear, LeaveRelay, LeaveDetach,
      ResetDrop, ResetBump, ResetClear, ResetRelay, MoveSit, FinishLeaveAll, FinishRemove, DeleteClose, DeleteForget,
      DeleteEvict, DeleteUnseat, ChangeList, ChangeNext, ChangeClose
  <2>2. t \in Sessions /\ Live(t) /\ Phase(t)
    BY <2>1 DEF Phases, Undisplaced, Threads
  <2>3. pc[t] \in {"idle", "cap", "join", "open", "attach", "clear", "unrelay", "detach", "sit", "leaveall", "remove"}
    BY <2>2 DEF Phase
  <2> QED
    BY <1>2, <2>2, <2>3 DEF Continue, ResetDrop, ResetBump, ResetClear, ResetRelay, DeleteClose, DeleteForget,
      DeleteEvict, DeleteUnseat, ChangeList, ChangeNext, ChangeClose
<1>3. ~RelayGone /\ ~ChangeAddress /\ \A c \in Channels, u \in Users : ~TransportFails(c, u)
  BY DEF RelayGone, ChangeAddress, TransportFails, OwnAudio, Phases
<1> QED
  BY <1>1, <1>2, <1>3 DEF Next

LEMMA PhasesStep ==
    ASSUME Typed, Distinct, Undisplaced, Phases, OwnAudio, Next
    PROVE  Phases'
<1>t. /\ pc \in [Threads -> Steps] /\ ret \in [Threads -> Steps] /\ left \in [Threads -> Seq(Users)]
      /\ who \in [Threads -> Sessions \cup {NoSession}] /\ at \in [Threads -> Channels \cup {None}]
      /\ to \in [Threads -> Channels \cup {None}] /\ rooms \in [Channels -> Seq(Users)]
      /\ chan \in [Sessions -> Channels \cup {None}] /\ seat \in [Sessions -> Channels \cup {None}]
      /\ holder \in [Users -> Sessions \cup {NoSession}] /\ conn \in [Sessions -> {"off", "on", "closed", "gone"}]
      /\ Sessions \subseteq Threads /\ Relay \in Threads /\ Relay \notin Sessions /\ Owner \in [Sessions -> Users]
      /\ exists \subseteq Channels /\ None \notin Channels
  BY DEF Typed, TypeOK, Threads
<1> USE DEF Goto, CallLeave
<1>1. ASSUME NEW s \in Sessions, Arrive(s)
      PROVE  Phases'
  <2>1. /\ conn[s] = "off" /\ holder[Owner[s]] = NoSession
        /\ holder' = [holder EXCEPT ![Owner[s]] = s]
        /\ conn' = [x \in Sessions |-> IF x = s THEN "on"
                                      ELSE IF x = holder[Owner[s]] THEN "closed" ELSE conn[x]]
        /\ UNCHANGED <<seatVars, roomVars, peers, pc, ret, localVars>>
    BY <1>1, <1>t DEF Arrive, Slots!Take, OwnAudio
  <2>2. conn' = [conn EXCEPT ![s] = "on"]
    BY <1>t, <2>1
  <2>3. ~Live(s) /\ pc[s] = "idle" /\ seat[s] = None /\ Seated(Owner[s]) = {}
    BY <1>t, <2>1 DEF Live, Undisplaced, Phases
  <2>4. \A u \in Users : Seated(u)' = Seated(u)
    BY <2>1 DEF Seated, Members
  <2>5. Phase(s)'
    BY <1>t, <2>1, <2>3, <2>4 DEF Phase, Settled, Down
  <2>6. ASSUME NEW x \in Sessions, x # s
        PROVE  (Live(x)' <=> Live(x)) /\ (Phase(x) => Phase(x)') /\ seat'[x] = seat[x]
    BY <1>t, <2>1, <2>2, <2>4, <2>6 DEF Live, Phase, Settled, Up, Down
  <2>7. \A u \in Users : holder'[u] = NoSession => holder[u] = NoSession
    BY <1>t, <2>1
  <2>8. Live(s)'
    BY <1>t, <2>2 DEF Live
  <2> QED
    BY <2>1, <2>4, <2>5, <2>6, <2>7, <2>8 DEF Phases
<1>2. ASSUME NEW s \in Sessions, Drop(s)
      PROVE  Phases'
  <2>1. conn' = [conn EXCEPT ![s] = "closed"] /\ conn[s] = "on"
        /\ UNCHANGED <<holder, seatVars, roomVars, peers, pc, ret, localVars>>
    BY <1>2 DEF Drop
  <2>2. \A x \in Sessions : Live(x)' <=> Live(x)
    BY <1>t, <2>1 DEF Live
  <2>3. \A u \in Users : Seated(u)' = Seated(u)
    BY <2>1 DEF Seated, Members
  <2>4. ASSUME NEW x \in Sessions
        PROVE  Phase(x) => Phase(x)'
    BY <1>t, <2>1, <2>3 DEF Phase, Settled, Up, Down
  <2> QED
    BY <2>1, <2>2, <2>3, <2>4 DEF Phases
<1>3. ASSUME NEW s \in Sessions, FinishRemove(s)
      PROVE  Phases'
  <2>1. pc[s] = "remove" /\ Live(s) /\ holder[Owner[s]] = s
    BY <1>3 DEF FinishRemove, Undisplaced
  <2>2. /\ holder' = [holder EXCEPT ![Owner[s]] = NoSession] /\ conn' = [conn EXCEPT ![s] = "gone"]
        /\ pc' = [pc EXCEPT ![s] = "idle"]
        /\ UNCHANGED <<seatVars, roomVars, peers, ret, localVars>>
    BY <1>3, <2>1 DEF FinishRemove, Slots!Vacate
  <2>3. Down(s)
    BY <2>1 DEF Phases, Phase
  <2>4. \A u \in Users : Seated(u)' = Seated(u)
    BY <2>2 DEF Seated, Members
  <2>5. ASSUME NEW x \in Sessions, x # s
        PROVE  (Live(x)' <=> Live(x)) /\ (Phase(x) => Phase(x)') /\ seat'[x] = seat[x]
    BY <1>t, <2>2, <2>4, <2>5 DEF Live, Phase, Settled, Up, Down
  <2>6. ~Live(s)' /\ seat'[s] = None
    BY <1>t, <2>2, <2>3 DEF Live, Down
  <2>7. \A u \in Users : holder'[u] = NoSession => Seated(u)' = {}
    BY <1>t, <2>2, <2>3, <2>4 DEF Phases, Down
  <2> QED
    BY <1>t, <2>2, <2>5, <2>6, <2>7 DEF Phases
<1> DEFINE Locals(s) == /\ \A x \in Threads \ {s} :
                              /\ pc'[x] = pc[x] /\ ret'[x] = ret[x] /\ who'[x] = who[x] /\ at'[x] = at[x]
                              /\ to'[x] = to[x] /\ left'[x] = left[x]
                        /\ UNCHANGED hubVars
<1>5. ASSUME NEW s \in Sessions, Locals(s), UNCHANGED <<seatVars, rooms, peers>>
      PROVE  Apart(s) /\ Seated(Owner[s])' = Seated(Owner[s]) /\ (Down(s) => Down(s)') /\ (Settled(s) => Settled(s)')
  BY <1>t, <1>5 DEF Apart, Seated, Members, Down, Settled, Up
<1>6. ASSUME NEW s \in Sessions, Live(s), Phase(s), Finish(s)
      PROVE  Apart(s) /\ UNCHANGED hubVars /\ Phase(s)'
  <2>1. ~HeldByOther(s)
    BY <1>6 DEF HeldByOther, Undisplaced, Live
  <2>2. Settled(s) /\ (seat[s] # None => seat[s] = chan[s])
    BY <1>6 DEF Finish, Phase, Settled, Up, Down
  <2>3. Locals(s) /\ UNCHANGED <<seatVars, rooms, peers>>
    BY <1>t, <1>6, <2>1 DEF Finish
  <2>4. CASE seat[s] # None
    BY <1>t, <1>5, <1>6, <2>1, <2>2, <2>3, <2>4 DEF Finish, Phase
  <2>5. CASE seat[s] = None
    BY <1>t, <1>5, <1>6, <2>1, <2>2, <2>3, <2>5 DEF Finish, Phase, Settled, Up, Down
  <2> QED
    BY <2>3, <1>5, <2>4, <2>5
<1>7. ASSUME NEW s \in Sessions, Live(s), Phase(s), Connect(s)
      PROVE  Apart(s) /\ UNCHANGED hubVars /\ Phase(s)'
  <2>2. Settled(s) /\ (seat[s] # None => seat[s] = chan[s]) /\ (seat[s] = None => Down(s))
    BY <1>7 DEF Connect, Request, Phase, Settled, Up, Down
  <2>3. Locals(s) /\ UNCHANGED <<seatVars, rooms, peers>>
    BY <1>t, <1>7 DEF Connect
  <2>4. CASE seat[s] # None
    BY <1>t, <1>5, <1>7, <2>2, <2>3, <2>4 DEF Connect, Phase
  <2>5. CASE seat[s] = None
    BY <1>t, <1>5, <1>7, <2>2, <2>3, <2>5 DEF Connect, Phase
  <2> QED
    BY <2>3, <1>5, <2>4, <2>5
<1>8. ASSUME NEW s \in Sessions, Live(s), Phase(s), Leave(s)
      PROVE  Apart(s) /\ UNCHANGED hubVars /\ Phase(s)'
  <2>2. Settled(s) /\ seat[s] = chan[s]
    BY <1>8 DEF Leave, Request, Phase, Settled, Up, Down
  <2>3. Locals(s) /\ UNCHANGED <<seatVars, rooms, peers>>
    BY <1>t, <1>8 DEF Leave
  <2> QED
    BY <1>t, <1>5, <1>8, <2>2, <2>3 DEF Leave, Phase
<1>9. ASSUME NEW s \in Sessions, Live(s), Phase(s), NEW c \in Channels \cup {None}, Move(s, s, c)
      PROVE  Apart(s) /\ UNCHANGED hubVars /\ Phase(s)'
  <2>2. Settled(s) /\ (chan[s] = None => Down(s))
    BY <1>t, <1>9 DEF Move, Request, Phase, Settled, Up
  <2>3. Locals(s) /\ UNCHANGED <<seatVars, rooms, peers>>
    BY <1>t, <1>9 DEF Move
  <2>4. CASE chan[s] # None
    BY <1>t, <1>5, <1>9, <2>2, <2>3, <2>4 DEF Move, Phase
  <2>5. CASE chan[s] = None
    BY <1>t, <1>5, <1>9, <2>2, <2>3, <2>5 DEF Move, Phase
  <2> QED
    BY <2>3, <1>5, <2>4, <2>5
<1>10. ASSUME NEW s \in Sessions, Live(s), Phase(s), ConnectCap(s)
       PROVE  Apart(s) /\ UNCHANGED hubVars /\ Phase(s)'
  <2>2. Down(s) /\ chan[s] = to[s]
    BY <1>10 DEF ConnectCap, Phase
  <2>3. Locals(s) /\ UNCHANGED <<seatVars, rooms, peers, to>>
    BY <1>t, <1>10 DEF ConnectCap
  <2>4. pc' = [pc EXCEPT ![s] = "idle"] \/ pc' = [pc EXCEPT ![s] = "join"]
    BY <1>10 DEF ConnectCap, OwnAudio
  <2> QED
    BY <1>t, <1>5, <2>2, <2>3, <2>4 DEF Phase, Settled
<1>11. ASSUME NEW s \in Sessions, Live(s), Phase(s), ConnectJoin(s)
       PROVE  Apart(s) /\ UNCHANGED hubVars /\ Phase(s)'
  <2>2. Down(s) /\ chan[s] = to[s]
    BY <1>11 DEF ConnectJoin, Phase
  <2>3. Locals(s) /\ UNCHANGED <<seatVars, rooms, to>> /\ peers \subseteq peers'
    BY <1>t, <1>11 DEF ConnectJoin
  <2>4. Apart(s) /\ Seated(Owner[s])' = Seated(Owner[s])
    BY <1>t, <2>3 DEF Apart, Seated, Members
  <2>5. \/ pc' = [pc EXCEPT ![s] = "idle"]
        \/ pc' = [pc EXCEPT ![s] = "open"] /\ <<to[s], Owner[s]>> \in peers'
    BY <1>11 DEF ConnectJoin
  <2> QED
    BY <1>t, <2>2, <2>3, <2>4, <2>5 DEF Phase, Settled, Down
<1>12. ASSUME NEW s \in Sessions, Live(s), Phase(s), ConnectOpen(s)
       PROVE  Apart(s) /\ UNCHANGED hubVars /\ Phase(s)'
  <2>2. Down(s) /\ chan[s] = to[s] /\ <<to[s], Owner[s]>> \in peers
    BY <1>12 DEF ConnectOpen, Phase
  <2>3. /\ seat' = [seat EXCEPT ![s] = to[s]] /\ pc' = [pc EXCEPT ![s] = "attach"]
        /\ UNCHANGED <<hubVars, chan, roomVars, peers, ret, localVars>>
    BY <1>12, <2>2 DEF ConnectOpen, Down
  <2>4. Apart(s) /\ Seated(Owner[s])' = Seated(Owner[s])
    BY <1>t, <2>3 DEF Apart, Seated, Members
  <2> QED
    BY <1>t, <2>2, <2>3, <2>4 DEF Phase, Down
<1>13. ASSUME NEW s \in Sessions, Live(s), Phase(s), ConnectAttach(s)
       PROVE  Apart(s) /\ UNCHANGED hubVars /\ Phase(s)'
  <2>1. to[s] \in Channels /\ Owner[s] \in Users
    BY <1>t, <1>13, InHand DEF ConnectAttach, ThreadFits, Fit, Going
  <2>2. seat[s] = to[s] /\ chan[s] = to[s] /\ Seated(Owner[s]) = {} /\ <<to[s], Owner[s]>> \in peers
    BY <1>13 DEF ConnectAttach, Phase
  <2>3. /\ rooms' = [rooms EXCEPT ![to[s]] = Joined(to[s], Owner[s])] /\ pc' = [pc EXCEPT ![s] = "idle"]
        /\ UNCHANGED <<hubVars, seatVars, peers, ret, localVars>>
    BY <1>13 DEF ConnectAttach
  <2>4. Range(Joined(to[s], Owner[s])) = Members(to[s]) \cup {Owner[s]}
    BY <1>t, <2>1, JoinedIs
  <2>a. ASSUME NEW u \in Users
        PROVE  Seated(u)' = IF u \in Members(to[s]) \cup {Owner[s]} THEN Seated(u) \cup {to[s]}
                            ELSE Seated(u) \ {to[s]}
    BY <1>t, <2>1, <2>3, <2>4 DEF Seated, Members
  <2>5. Seated(Owner[s])' = {to[s]}
    BY <2>1, <2>2, <2>a
  <2>6. ASSUME NEW u \in Users, u # Owner[s]
        PROVE  Seated(u)' = Seated(u)
    <3>1. u \in Members(to[s]) <=> to[s] \in Seated(u)
      BY <2>1 DEF Seated
    <3> QED
      BY <2>6, <3>1, <2>a
  <2>7. Apart(s)
    BY <1>t, <2>3, <2>6 DEF Apart
  <2> QED
    BY <1>t, <2>1, <2>2, <2>3, <2>5, <2>7 DEF Phase, Settled, Up
<1>14. ASSUME NEW s \in Sessions, Live(s), Phase(s), LeaveClear(s)
       PROVE  Apart(s) /\ UNCHANGED hubVars /\ Phase(s)'
  <2>1. /\ who[s] = s /\ at[s] = chan[s] /\ at[s] \in Channels /\ Settled(s)
        /\ ret[s] \in {"idle", "cap", "sit", "leaveall"} /\ (ret[s] = "cap" => chan[s] = to[s])
    BY <1>t, <1>14, InHand DEF LeaveClear, Phase, ThreadFits, Within
  <2>2. /\ seat' = [seat EXCEPT ![s] = IF seat[s] = at[s] THEN None ELSE @]
        /\ left' = [left EXCEPT ![s] = IF seat[s] = at[s] THEN <<Owner[s]>> ELSE <<>>]
        /\ pc' = [pc EXCEPT ![s] = "unrelay"]
        /\ UNCHANGED <<hubVars, chan, rooms, peers, ret, who, at, to>>
    BY <1>14, <2>1 DEF LeaveClear
  <2>3. Apart(s) /\ Seated(Owner[s])' = Seated(Owner[s])
    BY <1>t, <2>2 DEF Apart, Seated, Members
  <2>4. CASE Down(s)
    <3>1. seat'[s] = None /\ left'[s] = <<>>
      BY <1>t, <2>1, <2>2, <2>4 DEF Down
    <3> QED
      BY <1>t, <2>1, <2>2, <2>3, <2>4, <3>1 DEF Phase, Down
  <2>5. CASE ~Down(s)
    <3>1. seat[s] = at[s] /\ Seated(Owner[s]) = {at[s]}
      BY <2>1, <2>5 DEF Settled, Up
    <3>2. seat'[s] = None /\ left'[s] # <<>>
      BY <1>t, <2>2, <3>1
    <3> QED
      BY <1>t, <2>1, <2>2, <2>3, <3>1, <3>2 DEF Phase
  <2> QED
    BY <2>2, <2>3, <2>4, <2>5
<1>15. ASSUME NEW s \in Sessions, Live(s), Phase(s), LeaveRelay(s)
       PROVE  Apart(s) /\ UNCHANGED hubVars /\ Phase(s)'
  <2>1. /\ who[s] = s /\ seat[s] = None /\ Seated(Owner[s]) = IF left[s] = <<>> THEN {} ELSE {at[s]}
        /\ ret[s] \in {"idle", "cap", "sit", "leaveall"} /\ (ret[s] = "cap" => chan[s] = to[s])
    BY <1>15 DEF LeaveRelay, Phase
  <2>2. /\ peers' = peers \ {<<at[s], Owner[s]>>}
        /\ pc' = [pc EXCEPT ![s] = IF left[s] = <<>> THEN ret[s] ELSE "detach"]
        /\ UNCHANGED <<hubVars, seatVars, rooms, ret, localVars>>
    BY <1>15, <2>1 DEF LeaveRelay, Unpeered
  <2>3. Apart(s) /\ Seated(Owner[s])' = Seated(Owner[s])
    BY <1>t, <2>2 DEF Apart, Seated, Members
  <2>4. CASE left[s] = <<>>
    BY <1>t, <2>1, <2>2, <2>3, <2>4 DEF Phase, Settled, Down
  <2>5. CASE left[s] # <<>>
    BY <1>t, <2>1, <2>2, <2>3, <2>5 DEF Phase
  <2> QED
    BY <2>2, <2>3, <2>4, <2>5
<1>16. ASSUME NEW s \in Sessions, Live(s), Phase(s), LeaveDetach(s)
       PROVE  Apart(s) /\ UNCHANGED hubVars /\ Phase(s)'
  <2>1. /\ who[s] = s /\ seat[s] = None /\ Seated(Owner[s]) = {at[s]} /\ at[s] \in Channels /\ Owner[s] \in Users
        /\ ret[s] \in {"idle", "cap", "sit", "leaveall"} /\ (ret[s] = "cap" => chan[s] = to[s])
    BY <1>t, <1>16, InHand DEF LeaveDetach, Phase, ThreadFits, Within
  <2>2. /\ rooms' = [rooms EXCEPT ![at[s]] = Without(at[s], Owner[s])] /\ pc' = [pc EXCEPT ![s] = ret[s]]
        /\ UNCHANGED <<hubVars, seatVars, peers, ret, localVars>>
    BY <1>16, <2>1 DEF LeaveDetach, OwnAudio
  <2>3. Range(Without(at[s], Owner[s])) = Members(at[s]) \ {Owner[s]}
    BY <1>t, <2>1, WithoutIs DEF Distinct
  <2>a. ASSUME NEW u \in Users
        PROVE  Seated(u)' = IF u \in Members(at[s]) \ {Owner[s]} THEN Seated(u) \cup {at[s]}
                            ELSE Seated(u) \ {at[s]}
    BY <1>t, <2>1, <2>2, <2>3 DEF Seated, Members
  <2>4. Seated(Owner[s])' = {}
    BY <2>1, <2>a
  <2>5. ASSUME NEW u \in Users, u # Owner[s]
        PROVE  Seated(u)' = Seated(u)
    <3>1. u \in Members(at[s]) <=> at[s] \in Seated(u)
      BY <2>1 DEF Seated
    <3> QED
      BY <2>5, <3>1, <2>a
  <2>6. Apart(s)
    BY <1>t, <2>2, <2>5 DEF Apart
  <2> QED
    BY <1>t, <2>1, <2>2, <2>4, <2>6 DEF Phase, Settled, Down
<1>17. ASSUME NEW s \in Sessions, Live(s), Phase(s), MoveSit(s)
       PROVE  Apart(s) /\ UNCHANGED hubVars /\ Phase(s)'
  <2>1. who[s] = s /\ Down(s)
    BY <1>17 DEF MoveSit, Phase
  <2>2. /\ chan' = [chan EXCEPT ![s] = to[s]] /\ pc' = [pc EXCEPT ![s] = "idle"]
        /\ UNCHANGED <<hubVars, seat, rooms, peers, ret, localVars>>
    BY <1>17, <2>1 DEF MoveSit
  <2>3. Apart(s) /\ Seated(Owner[s])' = Seated(Owner[s])
    BY <1>t, <2>2 DEF Apart, Seated, Members
  <2> QED
    BY <1>t, <2>1, <2>2, <2>3 DEF Phase, Settled, Down
<1>18. ASSUME NEW s \in Sessions, Live(s), Phase(s), FinishLeaveAll(s)
       PROVE  Apart(s) /\ UNCHANGED hubVars /\ Phase(s)'
  <2>1. Down(s)
    BY <1>18 DEF FinishLeaveAll, Phase
  <2>2. /\ peers' = {p \in peers : p[2] # Owner[s]} /\ pc' = [pc EXCEPT ![s] = "remove"]
        /\ UNCHANGED <<hubVars, seatVars, rooms, ret, localVars>>
    BY <1>18 DEF FinishLeaveAll
  <2>3. Apart(s) /\ Seated(Owner[s])' = Seated(Owner[s])
    BY <1>t, <2>2 DEF Apart, Seated, Members
  <2> QED
    BY <1>t, <2>1, <2>2, <2>3 DEF Phase, Down
<1> HIDE DEF Locals
<1> QED
  BY <1>1, <1>2, <1>3, <1>6, <1>7, <1>8, <1>9, <1>10, <1>11, <1>12, <1>13, <1>14, <1>15, <1>16, <1>17, <1>18,
     CalmActs, ApartKeeps

CalmKept == Seats /\ Undisplaced /\ Phases

LEMMA CalmInit == Init => CalmKept
<1> SUFFICES ASSUME Init
             PROVE  CalmKept
  OBVIOUS
<1>1. \A u \in Users : Seated(u) = {}
  BY DEF Init, Seated, Members, Range
<1> QED
  BY <1>1, SeatsInit DEF Init, CalmKept, Undisplaced, Phases, Live, Threads

LEMMA CalmStep ==
    ASSUME OwnAudio, CalmKept, [Next]_vars
    PROVE  CalmKept'
<1>0. "displace" \notin plan.features
  BY DEF OwnAudio
<1>1. CASE Next
  BY <1>0, <1>1, SeatsStep, UndisplacedStep, PhasesStep DEF CalmKept, Seats
<1>2. CASE UNCHANGED vars
  <2>1. UNCHANGED <<hubVars, seatVars, roomVars, peers, pc, ret, localVars>>
    BY <1>2 DEF vars
  <2>2. Undisplaced'
    BY <2>1 DEF CalmKept, Undisplaced, Live
  <2>3. \A u \in Users : Seated(u)' = Seated(u)
    BY <2>1 DEF Seated, Members
  <2>4. ASSUME NEW s \in Sessions
        PROVE  (Phase(s) => Phase(s)') /\ (Live(s)' <=> Live(s))
    <3>1. Owner[s] \in Users
      OBVIOUS
    <3> QED
      BY <2>1, <2>3, <3>1 DEF Phase, Settled, Up, Down, Live
  <2>5. Phases'
    BY <2>1, <2>3, <2>4 DEF CalmKept, Phases
  <2> QED
    BY <1>2, <2>2, <2>5, SeatsStep DEF CalmKept
<1> QED
  BY <1>1, <1>2

LEMMA CalmShows ==
    ASSUME CalmKept
    PROVE  RoomsHoldTheSeated /\ OneRoomEach /\ MediaBehindSeats
<1>t. /\ Owner \in [Sessions -> Users] /\ Sessions \subseteq Threads /\ None \notin Channels
      /\ holder \in [Users -> Sessions \cup {NoSession}]
      /\ rooms \in [Channels -> Seq(Users)] /\ seat \in [Sessions -> Channels \cup {None}]
  BY DEF CalmKept, Seats, Typed, TypeOK, Threads
<1>0. ASSUME NEW u \in Users, Seated(u) # {}
      PROVE  holder[u] \in Sessions /\ Owner[holder[u]] = u /\ Live(holder[u]) /\ Phase(holder[u])
  BY <1>t, <1>0 DEF CalmKept, Phases, Undisplaced
<1>1. RoomsHoldTheSeated
  <2> SUFFICES ASSUME Quiet
               PROVE  /\ \A c \in Channels : \A u \in Members(c) : Accounted(u, c)
                      /\ \A s \in Sessions : conn[s] = "on" /\ seat[s] # None => Owner[s] \in Members(seat[s])
    BY DEF RoomsHoldTheSeated
  <2>1. ASSUME NEW c \in Channels, NEW u \in Members(c)
        PROVE  Accounted(u, c)
    <3>1. u \in Users /\ c \in Seated(u)
      BY <1>t DEF Members, Range, Seated
    <3>2. Settled(holder[u]) /\ Owner[holder[u]] = u /\ holder[u] \in Sessions
      BY <1>0, <1>t, <3>1 DEF Quiet, Phase
    <3> QED
      BY <3>1, <3>2 DEF Settled, Down, Up, Accounted
  <2>2. ASSUME NEW s \in Sessions, conn[s] = "on", seat[s] # None
        PROVE  Owner[s] \in Members(seat[s])
    <3>1. Settled(s)
      BY <1>t, <2>2 DEF CalmKept, Phases, Phase, Live, Quiet
    <3> QED
      BY <1>t, <2>2, <3>1 DEF Settled, Down, Up, Seated
  <2> QED
    BY <2>1, <2>2
<1>2. OneRoomEach
  <2> SUFFICES ASSUME NEW u \in Users
               PROVE  Cardinality(Seated(u)) <= 1
    BY DEF OneRoomEach
  <2>1. Seated(u) = {} \/ \E c : Seated(u) = {c}
    <3>1. ASSUME NEW s \in Sessions, Phase(s)
          PROVE  Seated(Owner[s]) = {} \/ \E c : Seated(Owner[s]) = {c}
      BY <3>1 DEF Phase, Settled, Down, Up
    <3> HIDE DEF Seated
    <3> QED
      BY <1>0, <3>1
  <2> HIDE DEF Seated
  <2>2. CASE Seated(u) = {}
    BY <2>2, FS_EmptySet
  <2>3. ASSUME NEW c, Seated(u) = {c}
        PROVE  Cardinality(Seated(u)) = 1
    <3>1. Cardinality({c}) = 1
      BY FS_Singleton
    <3> QED
      BY <2>3, <3>1
  <2> QED
    BY <2>1, <2>2, <2>3
<1>3. MediaBehindSeats
  <2> SUFFICES ASSUME Quiet, NEW s \in Sessions, conn[s] = "on", seat[s] # None
               PROVE  <<seat[s], Owner[s]>> \in peers
    BY DEF MediaBehindSeats
  <2>1. Settled(s)
    BY <1>t DEF CalmKept, Phases, Phase, Live, Quiet
  <2> QED
    BY <2>1 DEF Settled, Down, Up
<1> QED
  BY <1>1, <1>2, <1>3

\* In a server-hosted deployment where everybody minds their own audio, the four records agree:
\* whoever is in a room sits in its channel and the other way round whenever nothing is in
\* progress, no two rooms ever believe they hold the same person, and nobody is left in silence.
THEOREM CalmRoomsAgree == Spec => []CalmRecordsAgree
<1> DEFINE Inv == OwnAudio => CalmKept
<1>1. Init => Inv
  BY CalmInit
<1>2. Inv /\ [Next]_vars => Inv'
  <2> SUFFICES ASSUME Inv, [Next]_vars
               PROVE  Inv'
    OBVIOUS
  <2>1. plan' = plan
    BY DEF Next, vars
  <2>2. OwnAudio' <=> OwnAudio
    BY <2>1 DEF OwnAudio
  <2> QED
    BY <2>2, CalmStep
<1>3. Inv => CalmRecordsAgree
  BY CalmShows DEF CalmRecordsAgree
<1> QED
  BY <1>1, <1>2, <1>3, PTL DEF Spec
==============================================================================
