------------------------------ MODULE RelayRooms ------------------------------
(***************************************************************************)
(* The rooms of the relay and the peers in them.  The map of rooms has one *)
(* mutex, the peers of a room another, and every operation takes them one  *)
(* after the other: a room that was looked up may have been forgotten by   *)
(* the time it is used, and a peer that was found may have been replaced.  *)
(*                                                                         *)
(* Every call of Join makes at most one peer and at most one room, so the  *)
(* call names both.  A peer can be evicted at any time, in a goroutine of  *)
(* its own.  What a room does with its peers is RelayMedia.                *)
(***************************************************************************)
EXTENDS Integers, FiniteSets

CONSTANTS Users, Channels,
          Joins,            \* calls of Join, and the peers and rooms they make
          Calls,            \* other calls into the relay
          None              \* no room, no peer

ASSUME RoomsAssumption ==
    None \notin Joins /\ Joins \cap Calls = {}

\* The goroutines: a call, or the eviction of the peer a Join made.
Call(x) == <<"call", x>>
Evict(j) == <<"evict", j>>
Threads == {Call(x) : x \in Joins \cup Calls} \cup {Evict(j) : j \in Joins}

VARIABLES
    rooms,      \* Relay.rooms, None for a channel that has none
    peers,      \* room.peers, for every room ever made
    open,       \* the peers that have been admitted and not closed
    made,       \* the settings the connection of a peer was built with
    settings,   \* Relay.settings, by how often they changed
    closed,     \* Relay.closed
    pc,         \* the step a thread takes next
    op,         \* what a call is for
    goal,       \* the <<channel, user>> a call is about
    room,       \* the room a thread is working on
    rest,       \* the rooms LeaveAll or closeAll has still to deal with
    uprooted,   \* history: a room was forgotten while a Join was on its way in
    doubled,    \* history: two Joins of one user into one channel overlapped
    spoilt      \* history: the channels where a Join took a room and failed

relayVars == <<rooms, peers, open, made, settings, closed>>
history == <<uprooted, doubled, spoilt>>
vars == <<relayVars, pc, op, goal, room, rest, history>>

Steps == {"new", "find", "remove", "look", "drop", "take", "admit", "answer",
          "check", "each", "closeall", "done"}

TypeOK ==
    /\ rooms \in [Channels -> Joins \cup {None}]
    /\ peers \in [Joins -> [Users -> Joins \cup {None}]]
    /\ open \subseteq Joins
    /\ made \in [Joins -> Nat]
    /\ settings \in Nat /\ closed \in BOOLEAN
    /\ pc \in [Threads -> Steps]
    /\ op \in [Joins \cup Calls -> {"join", "leave", "leaveall", "close"}]
    /\ goal \in [Joins \cup Calls -> Channels \X Users]
    /\ room \in [Threads -> Joins \cup {None}]
    /\ rest \in [Threads -> SUBSET Joins]
    /\ uprooted \in BOOLEAN /\ doubled \in BOOLEAN /\ spoilt \subseteq Channels

Init ==
    /\ rooms = [c \in Channels |-> None]
    /\ peers = [r \in Joins |-> [u \in Users |-> None]]
    /\ open = {} /\ settings = 0 /\ closed = FALSE
    /\ made = [j \in Joins |-> 0]
    /\ pc = [t \in Threads |-> "new"]
    /\ op = [x \in Joins \cup Calls |-> IF x \in Joins THEN "join" ELSE "leave"]
    /\ goal \in [Joins \cup Calls -> Channels \X Users]
    /\ room = [t \in Threads |-> None]
    /\ rest = [t \in Threads |-> {}]
    /\ uprooted = FALSE /\ doubled = FALSE /\ spoilt = {}

ChannelOf(t) == goal[t[2]][1]
UserOf(t) == goal[t[2]][2]
Goto(t, step) == pc' = [pc EXCEPT ![t] = step]
Busy(t) == pc[t] \notin {"new", "done"}

\* The rooms of some channels, which need not have one.
RoomsOrNil(cs) == {rooms[c] : c \in cs}                              \* wrong
RoomsOf(cs) == {rooms[c] : c \in cs} \ {None}
Registered == RoomsOf(Channels)

Empty(r) == \A u \in Users : peers[r][u] = None

\* The rooms in gone were forgotten; a Join may have one of them in hand.
Uproot(gone) ==
    uprooted' = (uprooted \/ \E t \in Threads : pc[t] = "admit" /\ room[t] \in gone)

-----------------------------------------------------------------------------
(* Leaving: Relay.Leave, which Join begins with, LeaveAll, and evict       *)

\* Where a thread goes on once the user is out of the room.
After(t) ==
    IF t[1] = "evict" THEN "done"
    ELSE IF op[t[2]] = "join" THEN "take"
    ELSE IF op[t[2]] = "leaveall" THEN "each" ELSE "done"

\* The room of the channel is looked up.
Find(t) ==
    /\ pc[t] = "find"
    /\ room' = [room EXCEPT ![t] = rooms[ChannelOf(t)]]
    /\ Goto(t, IF rooms[ChannelOf(t)] = None THEN After(t) ELSE "remove")
    /\ UNCHANGED <<relayVars, op, goal, rest, history>>

\* room.remove: whichever peer the user has there is taken out and closed.
Remove(t) ==
    /\ pc[t] = "remove"
    /\ peers' = [peers EXCEPT ![room[t]][UserOf(t)] = None]
    /\ open' = open \ {peers[room[t]][UserOf(t)]}
    /\ Goto(t, "look")
    /\ UNCHANGED <<rooms, made, settings, closed, op, goal, room, rest, history>>

\* dropIfEmpty, the first look.
Look(t) ==
    /\ pc[t] = "look"
    /\ Goto(t, IF Empty(room[t]) THEN "drop" ELSE After(t))
    /\ UNCHANGED <<relayVars, op, goal, room, rest, history>>

\* dropIfEmpty, with both mutexes held: a room is forgotten if it is the one
\* registered and is still empty.
DroppedUnseen(r) == r \in Registered                                 \* wrong
Dropped(r) == r \in Registered /\ Empty(r)

Drop(t) ==
    /\ pc[t] = "drop"
    /\ LET gone == IF Dropped(room[t]) THEN {room[t]} ELSE {} IN
       /\ rooms' = [c \in Channels |-> IF rooms[c] \in gone THEN None ELSE rooms[c]]
       /\ Uproot(gone)
    /\ Goto(t, After(t))
    /\ UNCHANGED <<peers, open, made, settings, closed, op, goal, room, rest, doubled, spoilt>>

\* Leave is called.
Leave(x) ==
    /\ pc[Call(x)] = "new"
    /\ op' = [op EXCEPT ![x] = "leave"]
    /\ Goto(Call(x), "find")
    /\ UNCHANGED <<relayVars, goal, room, rest, history>>

\* LeaveAll is called: every room is visited in turn.
LeaveAll(x) ==
    /\ pc[Call(x)] = "new"
    /\ op' = [op EXCEPT ![x] = "leaveall"]
    /\ rest' = [rest EXCEPT ![Call(x)] = Registered]
    /\ Goto(Call(x), "each")
    /\ UNCHANGED <<relayVars, goal, room, history>>

\* LeaveAll takes up the next room.
Each(t) ==
    /\ pc[t] = "each"
    /\ IF rest[t] = {}
       THEN Goto(t, "done") /\ UNCHANGED <<room, rest>>
       ELSE \E r \in rest[t] :
            /\ room' = [room EXCEPT ![t] = r]
            /\ rest' = [rest EXCEPT ![t] = @ \ {r}]
            /\ Goto(t, "remove")
    /\ UNCHANGED <<relayVars, op, goal, history>>

-----------------------------------------------------------------------------
(* Relay.Join                                                              *)

\* Join begins by leaving.
Join(j) ==
    LET t == Call(j) IN
    /\ pc[t] = "new"
    /\ doubled' = (doubled \/ \E k \in Joins \ {j} :
                        goal[k] = goal[j] /\ Busy(Call(k)))
    /\ Goto(t, "find")
    /\ UNCHANGED <<relayVars, op, goal, room, rest, uprooted, spoilt>>

\* The room is taken, and made if the channel has none, together with the
\* settings the connection will be built with.
Take(t) ==
    /\ pc[t] = "take"
    /\ IF closed
       THEN Goto(t, "done") /\ UNCHANGED <<rooms, made, room>>
       ELSE LET r == IF rooms[ChannelOf(t)] = None THEN t[2] ELSE rooms[ChannelOf(t)] IN
            /\ rooms' = [rooms EXCEPT ![ChannelOf(t)] = r]
            /\ room' = [room EXCEPT ![t] = r]
            /\ made' = [made EXCEPT ![t[2]] = settings]
            /\ Goto(t, "admit")
    /\ UNCHANGED <<peers, open, settings, closed, op, goal, rest, history>>

\* room.admit, unless the connection cannot be built or the offer not be read.
Admit(t) ==
    /\ pc[t] = "admit"
    /\ \/ /\ peers' = [peers EXCEPT ![room[t]][UserOf(t)] = t[2]]
          /\ open' = open \cup {t[2]}
          /\ Goto(t, "answer")
          /\ UNCHANGED spoilt
       \/ /\ spoilt' = spoilt \cup {ChannelOf(t)}
          /\ Goto(t, "done")
          /\ UNCHANGED <<peers, open>>
    /\ UNCHANGED <<rooms, made, settings, closed, op, goal, room, rest, uprooted, doubled>>

\* The offer is answered, or the peer is evicted because it could not be.
Answer(t) ==
    /\ pc[t] = "answer"
    /\ \/ Goto(t, "done") /\ UNCHANGED room
       \/ /\ pc[Evict(t[2])] = "new"
          /\ pc' = [pc EXCEPT ![t] = "done", ![Evict(t[2])] = "check"]
          /\ room' = [room EXCEPT ![Evict(t[2])] = room[t]]
    /\ UNCHANGED <<relayVars, op, goal, rest, history>>

-----------------------------------------------------------------------------
(* room.evict                                                              *)

\* The transport of an admitted peer fails, or an offer goes unanswered.
Fail(j) ==
    /\ j \in open
    /\ pc[Evict(j)] = "new"
    /\ Goto(Evict(j), "check")
    /\ room' = [room EXCEPT ![Evict(j)] = room[Call(j)]]
    /\ UNCHANGED <<relayVars, op, goal, rest, history>>

\* A peer that was replaced is only closed.
Check(t) ==
    /\ pc[t] = "check"
    /\ IF peers[room[t]][UserOf(t)] = t[2]
       THEN Goto(t, "remove") /\ UNCHANGED open
       ELSE Goto(t, "done") /\ open' = open \ {t[2]}
    /\ UNCHANGED <<rooms, peers, made, settings, closed, op, goal, room, rest, history>>

-----------------------------------------------------------------------------
(* CloseChannel, Reconfigure and Close                                     *)

\* The channels whose rooms are forgotten, before they are closed.
Forget(x, cs) ==
    LET gone == RoomsOf(cs) IN
    /\ pc[Call(x)] = "new"
    /\ op' = [op EXCEPT ![x] = "close"]
    /\ rooms' = [c \in Channels |-> IF c \in cs THEN None ELSE rooms[c]]
    /\ rest' = [rest EXCEPT ![Call(x)] = gone]
    /\ Uproot(gone)
    /\ Goto(Call(x), "closeall")
    /\ UNCHANGED <<peers, open, made, goal, room, doubled, spoilt>>

CloseChannel(x) == Forget(x, {goal[x][1]}) /\ UNCHANGED <<settings, closed>>

\* Reconfigure swaps the settings and every room at once.
SwappedRoomsKept == {}                                               \* wrong
SwappedRooms == Channels

Reconfigure(x) ==
    /\ ~closed
    /\ settings' = settings + 1
    /\ Forget(x, SwappedRooms)
    /\ UNCHANGED closed

Close(x) ==
    /\ ~closed
    /\ closed' = TRUE
    /\ Forget(x, Channels)
    /\ UNCHANGED settings

\* room.closeAll, for each of them.
CloseAll(t) ==
    /\ pc[t] = "closeall"
    /\ IF rest[t] = {}
       THEN Goto(t, "done") /\ UNCHANGED <<peers, open, rest>>
       ELSE \E r \in rest[t] :
            /\ rest' = [rest EXCEPT ![t] = @ \ {r}]
            /\ open' = open \ {peers[r][u] : u \in Users}
            /\ peers' = [peers EXCEPT ![r] = [u \in Users |-> None]]
            /\ UNCHANGED pc
    /\ UNCHANGED <<rooms, made, settings, closed, op, goal, room, history>>

-----------------------------------------------------------------------------
Next ==
    \/ \E j \in Joins : Join(j) \/ Fail(j)
    \/ \E x \in Calls :
        Leave(x) \/ LeaveAll(x) \/ CloseChannel(x) \/ Reconfigure(x) \/ Close(x)
    \/ \E t \in Threads :
        \/ Find(t) \/ Remove(t) \/ Look(t) \/ Drop(t) \/ Each(t)
        \/ Take(t) \/ Admit(t) \/ Answer(t) \/ Check(t) \/ CloseAll(t)

Spec == Init /\ [][Next]_vars

-----------------------------------------------------------------------------
(* Properties                                                              *)

Quiet == \A t \in Threads : ~Busy(t)

\* Whoever is looked up by channel and user is found: Leave and LeaveAll have a
\* peer to close and Accept one to hand an answer to.
Found(j) == rooms[goal[j][1]] # None /\ peers[rooms[goal[j][1]]][goal[j][2]] = j

\* LeaveAll closes every session a user holds, wherever it is: when nothing is
\* in progress every peer that is open can be found.
NoOrphans == Quiet => \A j \in open : Found(j)

\* There are two ways to be orphaned and no third: somebody else empties or
\* replaces the room while a Join is on its way in, or one user joins one
\* channel twice at once.
OrphansExplained == ~uprooted /\ ~doubled => NoOrphans

\* Whoever is in a room that can be found was negotiated under the settings the
\* relay runs: nobody is carried across a reconfiguration.
RoomsAreCurrent ==
    \A c \in Channels : rooms[c] # None =>
        \A u \in Users : LET p == peers[rooms[c]][u] IN p # None => made[p] = settings

\* No room outlives its last peer: the map of rooms does not grow with every
\* channel ever used, but for those where an offer could not be read.
NoEmptyRooms ==
    Quiet => \A c \in Channels \ spoilt : rooms[c] # None => ~Empty(rooms[c])
==============================================================================
